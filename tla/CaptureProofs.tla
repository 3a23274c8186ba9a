---- MODULE CaptureProofs ----
(***************************************************************************)
(* Proofs about the recorder in the official page (EncodedCapture), for any *)
(* number of tracks, pieces, recordings, repetitions, reloads and faults.   *)
(*                                                                          *)
(* StoredInOrder and SavedIsTrue follow from CaptureInv.  The page sends a  *)
(* chunk again until it is answered, and the native end stores a chunk only *)
(* if it is the one it expects, so a chunk may be on its way several times  *)
(* and may have been stored already.  CaptureInv therefore says where both  *)
(* ends are: only copies of the chunk at the head of the page's queue are   *)
(* on their way (ChunkOK, OneChunk); what waits in the queue continues what *)
(* is stored, by the numbers of the appends and by their pieces             *)
(* (QueueContinues), the head included when the native end has a part of it *)
(* or all of it (HeadContinues); and a finish that saves is only sent when  *)
(* everything that was taken is stored (FinishOK).                          *)
(*                                                                          *)
(* OrphanEnds follows from OrphanInv: the page has taken the latest start   *)
(* and goes on with it, or says that it does not, as long as the native end *)
(* records it (Fed) or may still begin it (BeginsAreTended).                *)
(***************************************************************************)
EXTENDS Integers, Sequences, FiniteSets, TLAPS

CONSTANTS None, Tracks, Room, MaxQueue, MaxTries, MaxPieces, MaxSources, MaxStarts, MaxReloads,
          MaxOrders, MaxFaults

VARIABLES src, cap, page, bridge, note, orders, native, disk, taken, used

C == INSTANCE EncodedCapture

----
(* The records of the model, and their types. *)
CapFields == {"request", "of", "begun", "accepting", "stopping", "interrupted", "failed", "drained",
              "index", "queue", "chunk", "try", "sent", "reply"}
MessageFields == {"kind", "recording", "track", "index", "chunk", "last", "piece", "interrupted",
                  "generation", "live"}
NativeFields == {"arm", "armed", "rec", "accepted", "generation", "ready", "recording", "hiding", "session"}

Appends == [track : Tracks, index : Nat, pieces : Seq(Nat)]
Receipt(m) == <<m.track, m.index, m.chunk>>

SourceTypes ==
  /\ DOMAIN src = {"number", "closed", "track"} /\ src.number \in Nat /\ DOMAIN src.track = Tracks
  /\ \A t \in Tracks : DOMAIN src.track[t] = {"at", "init", "awaiting", "forwarding", "blocked"}
                       /\ src.track[t].at \in Nat

CapTypes ==
  cap # None =>
    /\ DOMAIN cap = CapFields
    /\ cap.request \in C!Starts /\ cap.of \in Nat /\ cap.of <= src.number
    /\ cap.index \in [Tracks -> Nat] /\ cap.queue \in Seq(Appends) /\ cap.chunk \in Nat

BridgeTypes ==
  /\ \E S : bridge \in Seq(S)
  /\ \A i \in 1 .. Len(bridge) : DOMAIN bridge[i] = MessageFields /\ bridge[i].recording \in C!Starts

NativeTypes ==
  /\ DOMAIN native = NativeFields
  /\ native.rec \in C!Starts \cup {0} /\ native.arm \in C!Starts \cup {0}
  /\ DOMAIN native.session = {"next", "partial", "previous"}
  /\ native.session.next \in [Tracks -> Nat]
  /\ native.session.partial \in Seq([track : Tracks, piece : Nat])

DiskTypes ==
  /\ DOMAIN disk = C!Starts /\ DOMAIN taken = C!Starts
  /\ \A r \in C!Starts : /\ DOMAIN disk[r] = {"state", "track"}
                         /\ disk[r].track \in [Tracks -> Seq(Nat)] /\ taken[r] \in [Tracks -> Seq(Nat)]

PageTypes ==
  /\ DOMAIN page = {"request", "preparing", "detail"} /\ page.preparing \in C!Starts \cup {0}
  /\ orders \in Seq(C!Starts \cup {0})
  /\ DOMAIN used = {"starts", "reloads", "faults"} /\ used.starts \in 0 .. MaxStarts

CaptureTypes == SourceTypes /\ CapTypes /\ BridgeTypes /\ NativeTypes /\ DiskTypes /\ PageTypes

(* What is stored of a track, and where the next piece of it is expected. *)
Stored(r, t) == Len(disk[r].track[t])
NextPiece(r, t) == taken[r][t][1] + Stored(r, t)

(* The session of a recording; one that has not begun has an empty one. *)
Session(r) == IF native.rec = r THEN native.session ELSE C!NoSession

(* A session knows the last chunk it stored, and holds the beginning of at
   most one append, which continues what is stored of its track. *)
SessionOK ==
  LET s == native.session
  IN  /\ \A r \in C!Starts : disk[r].state = "open" <=> native.rec = r
      /\ \A r \in C!Starts : disk[r].state = "none" => \A t \in Tracks : disk[r].track[t] = <<>>
      /\ native.rec = 0 => s = C!NoSession
      /\ s.partial = <<>> /\ s.previous # <<>> =>
           \E t \in Tracks, i, c \in Nat : s.previous = <<t, i, c>> /\ s.next[t] = i + 1
      /\ s.partial # <<>> =>
           LET t == s.partial[1].track
           IN  /\ s.previous = <<t, s.next[t], Len(s.partial) - 1>>
               /\ Stored(native.rec, t) + Len(s.partial) <= Len(taken[native.rec][t])
               /\ \A i \in 1 .. Len(s.partial) :
                    s.partial[i].track = t /\ s.partial[i].piece = NextPiece(native.rec, t) + i - 1

(* The capture goes on: nothing of its queue has been dropped or cut off. *)
Going == cap # None /\ ~cap.failed /\ disk[cap.request].state \in {"none", "open"}

(* Where the page is, and whether the native end is there too. *)
Position == <<cap.queue[1].track, cap.queue[1].index, cap.chunk>>
HeadIn == Session(cap.request).previous = Position
HeadWhole == HeadIn /\ cap.chunk + 1 = Len(cap.queue[1].pieces)

(* The appends of the queue that the native end does not have yet. *)
Waiting == {i \in 1 .. Len(cap.queue) : ~(i = 1 /\ HeadWhole)}

QueueContinues ==
  LET r == cap.request
      next == Session(r).next
      q == cap.queue
  IN  /\ \A i, j \in 1 .. Len(q) : i < j /\ q[i].track = q[j].track => q[i].index < q[j].index
      /\ \A t \in Tracks : next[t] <= cap.index[t]
      /\ \A t \in Tracks, n \in Nat :
           next[t] <= n /\ n < cap.index[t] => \E i \in Waiting : q[i].track = t /\ q[i].index = n
      /\ \A i \in Waiting :
           LET t == q[i].track
           IN  /\ next[t] <= q[i].index /\ q[i].index < cap.index[t] /\ taken[r][t] # <<>>
               /\ q[i].index = next[t] => q[i].pieces[1] = NextPiece(r, t)
               /\ q[i].pieces[1] + Len(q[i].pieces) <= taken[r][t][1] + Len(taken[r][t])
               /\ q[i].index + 1 = cap.index[t] =>
                    q[i].pieces[1] + Len(q[i].pieces) = taken[r][t][1] + Len(taken[r][t])
      /\ \A i, j \in Waiting :
           q[i].track = q[j].track /\ q[j].index = q[i].index + 1 =>
             q[j].pieces[1] = q[i].pieces[1] + Len(q[i].pieces)
      /\ \A t \in Tracks : next[t] = cap.index[t] => Stored(r, t) = Len(taken[r][t])

HeadContinues ==
  LET s == Session(cap.request)
      t == cap.queue[1].track
  IN  /\ cap.queue = <<>> => s.partial = <<>>
      /\ cap.queue # <<>> /\ ~HeadWhole =>
           /\ s.next[t] = cap.queue[1].index
           /\ Len(s.partial) = IF HeadIn THEN cap.chunk + 1 ELSE cap.chunk
           /\ s.partial # <<>> => s.partial[1].track = t
      /\ cap.queue # <<>> /\ HeadWhole => s.partial = <<>> /\ s.next[t] = cap.queue[1].index + 1

GoesOn == Going => QueueContinues /\ HeadContinues

CaptureFlags ==
  cap # None =>
    /\ cap.stopping \/ cap.drained \/ cap.failed => ~cap.accepting
    /\ cap.failed => cap.queue = <<>>
    /\ cap.queue = <<>> => cap.chunk = 0
    /\ cap.queue # <<>> => cap.chunk < Len(cap.queue[1].pieces)
    /\ ~cap.begun => cap.chunk = 0
    /\ cap.begun \/ cap.reply = "ok" => disk[cap.request].state # "none"
    /\ cap.reply = "ok" => bridge = <<>>
    /\ cap.reply = "ok" /\ cap.begun => cap.queue # <<>> /\ (Going => HeadIn)
    /\ cap.reply = "saved" => disk[cap.request].state = "saved"
    /\ cap.accepting => disk[cap.request].state # "saved"

(* The pieces of an append are consecutive. *)
InRow(p) == Len(p) >= 1 /\ \A j \in 1 .. Len(p) : p[j] = p[1] + j - 1
QueueInRow == cap # None => \A i \in 1 .. Len(cap.queue) : InRow(cap.queue[i].pieces)

(* While pieces are taken, the last one taken is the last one seen. *)
Taking ==
  cap # None /\ cap.accepting /\ cap.of = src.number =>
    \A t \in Tracks :
      LET all == taken[cap.request][t]
      IN  /\ all = <<>> => ~src.track[t].forwarding
          /\ all # <<>> => src.track[t].forwarding /\ all[1] + Len(all) = src.track[t].at + 1

CaptureOK == CaptureFlags /\ QueueInRow /\ GoesOn /\ Taking

(* What is on its way to the native end. *)
Expected(m) ==
  LET s == native.session
  IN  /\ s.next[m.track] = m.index /\ m.chunk = Len(s.partial)
      /\ s.partial # <<>> => s.partial[1].track = m.track

LiveOK(i) ==
  LET m == bridge[i]
  IN  m.live => /\ i = Len(bridge) /\ cap # None /\ cap.sent /\ cap.reply = "none"
                /\ m.recording = cap.request
                /\ m.kind = "begin" <=> ~cap.begun
                /\ m.kind = "append" <=> cap.begun /\ cap.queue # <<>>
                /\ cap.begun /\ cap.queue = <<>> => ~cap.accepting

(* A copy of the chunk the page is at. *)
ChunkOK(m) ==
  m.kind = "append" /\ cap # None /\ ~cap.failed /\ cap.request = m.recording =>
    /\ cap.begun /\ cap.queue # <<>> /\ Receipt(m) = Position
    /\ m.piece = cap.queue[1].pieces[cap.chunk + 1]
    /\ m.last <=> cap.chunk + 1 = Len(cap.queue[1].pieces)

(* A chunk that will be stored is the next one. *)
FitOK(m) ==
  m.kind = "append" =>
    /\ m.track \in Tracks /\ m.index \in Nat /\ m.chunk \in Nat /\ m.piece \in Nat
    /\ native.rec = m.recording /\ native.session.previous # Receipt(m) /\ Expected(m) =>
         /\ Stored(m.recording, m.track) + Len(native.session.partial) < Len(taken[m.recording][m.track])
         /\ m.piece = NextPiece(m.recording, m.track) + Len(native.session.partial)

(* A finish that saves comes when everything taken is stored. *)
FinishOK(m) ==
  m.kind = "finish" /\ ~m.interrupted =>
    /\ native.rec = m.recording =>
         \A t \in Tracks : Stored(m.recording, t) = Len(taken[m.recording][t])
    /\ cap # None /\ cap.request = m.recording => ~cap.accepting

MessageOK(m) ==
  /\ m.kind # "begin" => disk[m.recording].state # "none"
  /\ ChunkOK(m) /\ FitOK(m) /\ FinishOK(m)

OneChunk ==
  \A i, j \in 1 .. Len(bridge) :
    bridge[i].kind = "append" /\ bridge[j].kind = "append" /\ bridge[i].recording = bridge[j].recording =>
      Receipt(bridge[i]) = Receipt(bridge[j])

BridgeOK ==
  /\ \A i \in 1 .. Len(bridge) : LiveOK(i) /\ MessageOK(bridge[i])
  /\ OneChunk

(* A start that no page has taken yet. *)
Fresh(r) ==
  /\ disk[r].state = "none"
  /\ \A t \in Tracks : taken[r][t] = <<>>
  /\ cap # None => cap.request # r
  /\ \A i \in 1 .. Len(bridge) : bridge[i].recording # r

StartsOK ==
  /\ \A r \in C!Starts : r > used.starts => Fresh(r)
  /\ \A i \in 1 .. Len(orders) : orders[i] # 0 =>
       /\ Fresh(orders[i]) /\ orders[i] <= used.starts /\ orders[i] # page.preparing
       /\ \A j \in 1 .. Len(orders) : i # j => orders[j] # orders[i]
  /\ page.preparing # 0 => cap = None /\ Fresh(page.preparing) /\ page.preparing <= used.starts
  /\ native.arm # 0 => disk[native.arm].state = "none"

PageOK ==
  /\ cap # None => page.request = cap.request
  /\ page.detail = "saved" => page.request \in C!Starts /\ disk[page.request].state = "saved"

CaptureInv == CaptureTypes /\ SessionOK /\ CaptureOK /\ BridgeOK /\ StartsOK /\ PageOK /\ C!StoredInOrder

----
(* Steps of the capture that change none of what the other parts look at. *)
SameCapture ==
  /\ cap # None /\ cap' # None /\ DOMAIN cap' = CapFields
  /\ cap'.request = cap.request /\ cap'.of = cap.of /\ cap'.begun = cap.begun /\ cap'.failed = cap.failed
  /\ cap'.index = cap.index /\ cap'.queue = cap.queue /\ cap'.chunk = cap.chunk

(* A step that leaves the queue, the session and what was taken alone. *)
LEMMA GoesOnStays ==
  ASSUME GoesOn, cap # None, cap' # None,
         cap'.request = cap.request, cap'.failed = cap.failed, cap'.index = cap.index,
         cap'.queue = cap.queue, cap'.chunk = cap.chunk, UNCHANGED <<native, disk, taken>>
  PROVE  GoesOn' /\ (Going' <=> Going) /\ (HeadIn' <=> HeadIn)
<1>1. Going' <=> Going  BY DEF Going
<1>2. Session(cap.request)' = Session(cap.request)  BY DEF Session
<1>3. Position' = Position /\ (HeadIn' <=> HeadIn) /\ (HeadWhole' <=> HeadWhole)
  BY <1>2 DEF Position, HeadIn, HeadWhole
<1>4. Waiting' = Waiting  BY <1>3 DEF Waiting
<1>5. QueueContinues => QueueContinues'  BY <1>2, <1>4, SMTT(30) DEF QueueContinues, NextPiece, Stored
<1>6. HeadContinues => HeadContinues'  BY <1>2, <1>3 DEF HeadContinues
<1> QED BY <1>1, <1>3, <1>5, <1>6 DEF GoesOn

(* What the rest of a sequence holds. *)
LEMMA TailIs ==
  ASSUME NEW S, NEW q \in Seq(S), q # <<>>
  PROVE  /\ Tail(q) \in Seq(S) /\ Len(q) \in Nat /\ Len(q) >= 1 /\ Len(Tail(q)) = Len(q) - 1
         /\ \A i \in 1 .. Len(q) - 1 : Tail(q)[i] = q[i + 1] /\ Tail(q)[i] \in S
         /\ Len(q) = 1 <=> Tail(q) = <<>>
<1>1. PICK r : r = Tail(q)  OBVIOUS
<1>2. Len(q) \in Nat /\ Len(q) >= 1  OBVIOUS
<1>3. r \in Seq(S) /\ Len(r) = Len(q) - 1  BY <1>1
<1>4. \A i \in 1 .. Len(q) - 1 : r[i] = q[i + 1]  BY <1>1, <1>2
<1>5. r = <<>> <=> Len(q) = 1  BY <1>2, <1>3
<1> QED BY <1>1, <1>2, <1>3, <1>4, <1>5

(* The commands that are still on their way to the page. *)
OrdersFollow ==
  /\ orders' \in Seq(C!Starts \cup {0})
  /\ \A i \in 1 .. Len(orders') : orders'[i] # 0 =>
       /\ Fresh(orders'[i]) /\ orders'[i] <= used.starts /\ orders'[i] # page.preparing
       /\ \A j \in 1 .. Len(orders') : i # j => orders'[j] # orders'[i]

(* Orders that stay are still good. *)
LEMMA OrdersStay ==
  ASSUME CaptureInv, orders' = orders
  PROVE  OrdersFollow  BY DEF CaptureInv, CaptureTypes, PageTypes, StartsOK, OrdersFollow

(* The first order is carried out or dropped. *)
LEMMA OrdersDrop ==
  ASSUME CaptureInv, orders # <<>>, orders' = Tail(orders)
  PROVE  /\ OrdersFollow /\ orders[1] \in C!Starts \cup {0} /\ Head(orders) = orders[1]
         /\ orders[1] # 0 => \A i \in 1 .. Len(orders') : orders'[i] # orders[1]
<1>1. orders \in Seq(C!Starts \cup {0})  BY DEF CaptureInv, CaptureTypes, PageTypes
<1>2. /\ orders' \in Seq(C!Starts \cup {0}) /\ Len(orders) \in Nat /\ Len(orders) >= 1 /\ Len(orders') = Len(orders) - 1
      /\ \A i \in 1 .. Len(orders) - 1 : orders'[i] = orders[i + 1]  BY <1>1, TailIs
<1>3. \A i \in 1 .. Len(orders') : i + 1 \in 1 .. Len(orders) /\ i + 1 # 1 /\ orders'[i] = orders[i + 1]  BY <1>2
<1>4. \A i \in 1 .. Len(orders) : orders[i] # 0 =>
        /\ Fresh(orders[i]) /\ orders[i] <= used.starts /\ orders[i] # page.preparing
        /\ \A j \in 1 .. Len(orders) : i # j => orders[j] # orders[i]  BY DEF CaptureInv, StartsOK
<1>5. ASSUME NEW i \in 1 .. Len(orders'), orders'[i] # 0
      PROVE  /\ Fresh(orders'[i]) /\ orders'[i] <= used.starts /\ orders'[i] # page.preparing
             /\ \A j \in 1 .. Len(orders') : i # j => orders'[j] # orders'[i]
  <2>1. /\ Fresh(orders[i + 1]) /\ orders[i + 1] <= used.starts /\ orders[i + 1] # page.preparing
        /\ \A j \in 1 .. Len(orders) : i + 1 # j => orders[j] # orders[i + 1]  BY <1>3, <1>4, <1>5
  <2>2. ASSUME NEW j \in 1 .. Len(orders'), i # j
        PROVE  orders'[j] # orders'[i]
    <3>1. i \in Nat /\ j \in Nat  BY <1>2
    <3>2. i + 1 # j + 1  BY <2>2, <3>1
    <3> QED BY <2>1, <3>2, <1>3
  <2> QED BY <2>1, <2>2, <1>3
<1>6. OrdersFollow  BY <1>2, <1>5 DEF OrdersFollow
<1>7. 1 \in 1 .. Len(orders) /\ orders[1] \in C!Starts \cup {0}  BY <1>1, <1>2
<1>8. orders[1] # 0 => \A i \in 1 .. Len(orders') : orders'[i] # orders[1]  BY <1>3, <1>4, <1>7
<1> QED BY <1>1, <1>6, <1>7, <1>8

(* What the observers alone change. *)
LEMMA QuietKeeps ==
  ASSUME CaptureInv, UNCHANGED <<bridge, native, disk, taken, page, used>>, OrdersFollow,
         SourceTypes', src'.number >= src.number, Taking',
         \/ cap = None /\ cap' = None
         \/ /\ SameCapture /\ cap'.sent = cap.sent /\ cap'.reply = cap.reply
            /\ cap'.accepting => cap.accepting
            /\ cap'.stopping \/ cap'.drained => ~cap'.accepting
  PROVE  CaptureInv'
<1>1. CaptureTypes'
  BY DEF CaptureInv, CaptureTypes, SourceTypes, CapTypes, SameCapture, BridgeTypes, NativeTypes,
         DiskTypes, PageTypes, OrdersFollow
<1>2. SessionOK' /\ C!StoredInOrder'  BY ZenonT(30) DEF CaptureInv, SessionOK, Stored, NextPiece, C!StoredInOrder
<1>3. CASE cap = None /\ cap' = None
  <2>1. CaptureOK'  BY <1>3 DEF CaptureInv, CaptureOK, CaptureFlags, GoesOn, QueueInRow, Going
  <2>2. BridgeOK'
    <3>1. \A i \in 1 .. Len(bridge) : (LiveOK(i) /\ MessageOK(bridge[i]))'
      <4> SUFFICES ASSUME NEW i \in 1 .. Len(bridge)
                   PROVE  (LiveOK(i) /\ MessageOK(bridge[i]))'  OBVIOUS
      <4>1. LiveOK(i) /\ MessageOK(bridge[i])  BY DEF CaptureInv, BridgeOK
      <4>2. FitOK(bridge[i])' /\ FinishOK(bridge[i])'
        BY <4>1, <1>3 DEF MessageOK, FitOK, Expected, FinishOK, Stored, NextPiece
      <4> QED BY <4>1, <4>2, <1>3 DEF MessageOK, LiveOK, ChunkOK
    <3> QED BY <3>1 DEF CaptureInv, BridgeOK, OneChunk
  <2>3. StartsOK' /\ PageOK'
    <3>1. \A q : Fresh(q) => Fresh(q)'  BY <1>3 DEF Fresh
    <3> QED BY <1>3, <3>1 DEF CaptureInv, StartsOK, OrdersFollow, PageOK
  <2> QED BY <1>1, <1>2, <2>1, <2>2, <2>3 DEF CaptureInv
<1>4. CASE SameCapture /\ cap'.sent = cap.sent /\ cap'.reply = cap.reply
           /\ (cap'.accepting => cap.accepting) /\ (cap'.stopping \/ cap'.drained => ~cap'.accepting)
  <2>1. GoesOn' /\ (Going' <=> Going) /\ (HeadIn' <=> HeadIn)
    BY <1>4, GoesOnStays DEF CaptureInv, CaptureOK, SameCapture
  <2>2. CaptureFlags'  BY <1>4, <2>1 DEF CaptureInv, CaptureOK, CaptureFlags, SameCapture
  <2>3. QueueInRow'  BY <1>4 DEF CaptureInv, CaptureOK, QueueInRow, SameCapture
  <2>4. Position' = Position  BY <1>4 DEF Position, SameCapture
  <2>5. ASSUME NEW i \in 1 .. Len(bridge)
        PROVE  (LiveOK(i) /\ MessageOK(bridge[i]))'
    <3>1. LiveOK(i) /\ MessageOK(bridge[i])  BY DEF CaptureInv, BridgeOK
    <3>2. LiveOK(i)'  BY <3>1, <1>4 DEF LiveOK, SameCapture
    <3>3. ChunkOK(bridge[i])'  BY <3>1, <1>4, <2>4 DEF MessageOK, ChunkOK, SameCapture
    <3>4. FitOK(bridge[i])'  BY <3>1 DEF MessageOK, FitOK, Expected, Stored, NextPiece
    <3>5. FinishOK(bridge[i])'  BY <3>1, <1>4 DEF MessageOK, FinishOK, Stored, SameCapture
    <3> QED BY <3>1, <3>2, <3>3, <3>4, <3>5 DEF MessageOK
  <2>6. BridgeOK'  BY <2>5 DEF CaptureInv, BridgeOK, OneChunk
  <2>7. StartsOK' /\ PageOK'
    <3>1. \A q : Fresh(q) => Fresh(q)'  BY <1>4 DEF Fresh, SameCapture
    <3> QED BY <1>4, <3>1 DEF CaptureInv, StartsOK, OrdersFollow, PageOK, SameCapture
  <2> QED BY <1>1, <1>2, <2>1, <2>2, <2>3, <2>6, <2>7 DEF CaptureInv, CaptureOK
<1> QED BY <1>3, <1>4

(* The observer: what fails stops taking pieces. *)
LEMMA FailureIs ==
  ASSUME CaptureInv, cap # None, DOMAIN None # CapFields
  PROVE  LET c == C!Failure(cap)
         IN  /\ DOMAIN c = CapFields /\ c # None
             /\ c.request = cap.request /\ c.of = cap.of /\ c.begun = cap.begun /\ c.failed = cap.failed
             /\ c.index = cap.index /\ c.queue = cap.queue /\ c.chunk = cap.chunk
             /\ c.sent = cap.sent /\ c.reply = cap.reply /\ c.accepting = FALSE /\ c.drained = cap.drained
<1>1. DOMAIN cap = CapFields  BY DEF CaptureInv, CaptureTypes, CapTypes
<1>2. PICK c : c = [cap EXCEPT !.interrupted = TRUE, !.accepting = FALSE, !.stopping = TRUE]  OBVIOUS
<1>3. /\ DOMAIN c = CapFields
      /\ c.request = cap.request /\ c.of = cap.of /\ c.begun = cap.begun /\ c.failed = cap.failed
      /\ c.index = cap.index /\ c.queue = cap.queue /\ c.chunk = cap.chunk
      /\ c.sent = cap.sent /\ c.reply = cap.reply /\ c.accepting = FALSE /\ c.drained = cap.drained
  BY <1>1, <1>2 DEF CapFields
<1> QED BY <1>2, <1>3 DEF C!Failure

(* The observers change neither the bridge nor the disk. *)
LEMMA ObserverKeeps ==
  ASSUME CaptureInv, DOMAIN None # CapFields,
         UNCHANGED <<bridge, native, disk, taken, page, orders, used>>,
         SourceTypes', src'.number >= src.number,
         \/ cap' = cap
         \/ cap # None /\ cap' = C!Failure(cap),
         cap' = cap /\ cap # None /\ cap.accepting /\ cap.of = src'.number =>
           /\ src'.number = src.number
           /\ \A t \in Tracks : /\ src'.track[t].forwarding = src.track[t].forwarding
                                /\ src'.track[t].at = src.track[t].at
  PROVE  CaptureInv'
<1>1. CASE cap' = cap
  <2>1. Taking'  BY <1>1 DEF CaptureInv, CaptureOK, Taking
  <2>2. cap # None => SameCapture /\ cap'.sent = cap.sent /\ cap'.reply = cap.reply
                      /\ (cap'.stopping \/ cap'.drained => ~cap'.accepting)
    BY <1>1 DEF SameCapture, CaptureInv, CaptureTypes, CapTypes, CaptureOK, CaptureFlags
  <2> QED BY <1>1, <2>1, <2>2, OrdersStay, QuietKeeps
<1>2. CASE cap # None /\ cap' = C!Failure(cap)
  <2>1. SameCapture /\ cap'.sent = cap.sent /\ cap'.reply = cap.reply /\ ~cap'.accepting
    BY <1>2, FailureIs DEF SameCapture
  <2>2. Taking'  BY <2>1 DEF Taking
  <2> QED BY <2>1, <2>2, OrdersStay, QuietKeeps
<1> QED BY <1>1, <1>2

(* One track is looked at anew; its pieces stay where they are. *)
LEMMA TrackChanges ==
  ASSUME CaptureInv, NEW t \in Tracks, NEW s, src' = [src EXCEPT !.track[t] = s],
         DOMAIN s = {"at", "init", "awaiting", "forwarding", "blocked"}, s.at \in Nat
  PROVE  /\ SourceTypes' /\ src'.number = src.number /\ src'.track[t] = s
         /\ \A u \in Tracks : u # t => src'.track[u] = src.track[u]
<1>1. DOMAIN src = {"number", "closed", "track"} /\ DOMAIN src.track = Tracks
  BY DEF CaptureInv, CaptureTypes, SourceTypes
<1>2. /\ DOMAIN src' = {"number", "closed", "track"} /\ src'.number = src.number
      /\ DOMAIN src'.track = Tracks /\ src'.track[t] = s
      /\ \A u \in Tracks : u # t => src'.track[u] = src.track[u]  BY <1>1
<1> QED BY <1>2 DEF CaptureInv, CaptureTypes, SourceTypes

(* The page hears an initialization segment. *)
LEMMA ObserveInitKeeps ==
  ASSUME CaptureInv, DOMAIN None # CapFields, NEW t \in Tracks, NEW kind, C!ObserveInit(t, kind)
  PROVE  CaptureInv'
<1>1. DOMAIN src.track[t] = {"at", "init", "awaiting", "forwarding", "blocked"} /\ src.track[t].at \in Nat
      /\ src.number \in Nat  BY DEF CaptureInv, CaptureTypes, SourceTypes
<1>2. UNCHANGED <<bridge, native, disk, taken, page, orders, used>>  BY DEF C!ObserveInit
<1>3. cap' = cap \/ (cap # None /\ cap' = C!Failure(cap))  BY DEF C!ObserveInit, C!FailMine, C!Mine, C!Recording
<1>4. PICK s : /\ src' = [src EXCEPT !.track[t] = s]
               /\ \/ s = [src.track[t] EXCEPT !.blocked = TRUE]
                  \/ s = [src.track[t] EXCEPT !.awaiting = TRUE]
                  \/ s = [src.track[t] EXCEPT !.init = TRUE, !.awaiting = FALSE]  BY DEF C!ObserveInit
<1>5. /\ DOMAIN s = {"at", "init", "awaiting", "forwarding", "blocked"}
      /\ s.at = src.track[t].at /\ s.forwarding = src.track[t].forwarding  BY <1>1, <1>4
<1>6. /\ SourceTypes' /\ src'.number = src.number /\ src'.track[t] = s
      /\ \A u \in Tracks : u # t => src'.track[u] = src.track[u]  BY <1>1, <1>4, <1>5, TrackChanges
<1> QED BY <1>1, <1>2, <1>3, <1>5, <1>6, ObserverKeeps

(* A track is blocked by a piece it cannot use. *)
LEMMA BlockKeeps ==
  ASSUME CaptureInv, DOMAIN None # CapFields, NEW t \in Tracks, C!Block(t)
  PROVE  CaptureInv'
<1>1. DOMAIN src.track[t] = {"at", "init", "awaiting", "forwarding", "blocked"} /\ src.track[t].at \in Nat
      /\ src.number \in Nat /\ DOMAIN src = {"number", "closed", "track"} /\ DOMAIN src.track = Tracks
  BY DEF CaptureInv, CaptureTypes, SourceTypes
<1>2. UNCHANGED <<bridge, native, disk, taken, page, orders, used>>  BY DEF C!Block
<1>3. cap' = cap \/ (cap # None /\ cap' = C!Failure(cap))  BY DEF C!Block, C!FailMine, C!Mine, C!Recording
<1>4. PICK s : s = [src.track[t] EXCEPT !.blocked = TRUE]  OBVIOUS
<1>5. src' = [src EXCEPT !.track[t] = s]  BY <1>1, <1>4 DEF C!Block
<1>6. /\ DOMAIN s = {"at", "init", "awaiting", "forwarding", "blocked"}
      /\ s.at = src.track[t].at /\ s.forwarding = src.track[t].forwarding  BY <1>1, <1>4
<1>7. /\ SourceTypes' /\ src'.number = src.number /\ src'.track[t] = s
      /\ \A u \in Tracks : u # t => src'.track[u] = src.track[u]  BY <1>1, <1>5, <1>6, TrackChanges
<1> QED BY <1>1, <1>2, <1>3, <1>6, <1>7, ObserverKeeps

(* A source opens, closes, or is found to have failed. *)
LEMMA SourceKeeps ==
  ASSUME CaptureInv, DOMAIN None # CapFields, C!SourceCloses \/ C!SourceOpens \/ C!SafetyCheck
  PROVE  CaptureInv'
<1>1. /\ DOMAIN src = {"number", "closed", "track"} /\ src.number \in Nat
      /\ cap # None => cap.of \in Nat /\ cap.of <= src.number
  BY DEF CaptureInv, CaptureTypes, SourceTypes, CapTypes
<1>2. UNCHANGED <<bridge, native, disk, taken, page, orders, used>>
  BY DEF C!SourceCloses, C!SourceOpens, C!SafetyCheck
<1>3. CASE C!SourceCloses
  <2>1. cap' = cap \/ (cap # None /\ cap' = C!Failure(cap))
    BY <1>3 DEF C!SourceCloses, C!FailMine, C!Mine, C!Recording
  <2>2. /\ DOMAIN src' = {"number", "closed", "track"} /\ src'.number = src.number
        /\ src'.track = src.track  BY <1>1, <1>3 DEF C!SourceCloses
  <2>3. SourceTypes'  BY <2>2 DEF CaptureInv, CaptureTypes, SourceTypes
  <2> QED BY <1>1, <1>2, <2>1, <2>2, <2>3, ObserverKeeps
<1>4. CASE C!SourceOpens
  <2>1. /\ cap' = cap /\ DOMAIN src' = {"number", "closed", "track"} /\ src'.number = src.number + 1
        /\ src'.track = C!EachTrack([at |-> 0, init |-> FALSE, awaiting |-> FALSE, forwarding |-> FALSE, blocked |-> FALSE])
    BY <1>4 DEF C!SourceOpens, C!FreshSource
  <2>2. SourceTypes'  BY <1>1, <2>1 DEF SourceTypes, C!EachTrack
  <2> QED BY <1>1, <1>2, <2>1, <2>2, ObserverKeeps
<1>5. CASE C!SafetyCheck
  <2>1. cap # None /\ cap' = C!Failure(cap) /\ src' = src  BY <1>5 DEF C!SafetyCheck, C!Recording
  <2>2. SourceTypes'  BY <2>1 DEF CaptureInv, CaptureTypes, SourceTypes
  <2> QED BY <1>1, <1>2, <2>1, <2>2, ObserverKeeps
<1> QED BY <1>3, <1>4, <1>5

(* The queue of a stopping capture has run out. *)
LEMMA DrainKeeps ==
  ASSUME CaptureInv, DOMAIN None # CapFields, C!DrainEnds
  PROVE  CaptureInv'
<1>1. /\ cap # None /\ cap.stopping /\ cap' = [cap EXCEPT !.drained = TRUE]
      /\ UNCHANGED <<src, bridge, native, disk, taken, page, orders, used>>  BY DEF C!DrainEnds, C!Recording
<1>2. DOMAIN cap = CapFields  BY <1>1 DEF CaptureInv, CaptureTypes, CapTypes
<1>3. /\ SameCapture /\ cap'.sent = cap.sent /\ cap'.reply = cap.reply
      /\ cap'.accepting = cap.accepting /\ cap'.stopping = cap.stopping
  BY <1>1, <1>2 DEF SameCapture, CapFields
<1>4. ~cap.accepting /\ src.number \in Nat /\ SourceTypes
  BY <1>1 DEF CaptureInv, CaptureOK, CaptureFlags, CaptureTypes, SourceTypes
<1>5. Taking' /\ SourceTypes' /\ src'.number >= src.number  BY <1>1, <1>3, <1>4 DEF Taking, SourceTypes
<1> QED BY <1>1, <1>3, <1>4, <1>5, OrdersStay, QuietKeeps

(* Nobody waits for what is on its way any more. *)
Silenced ==
  /\ Len(bridge') = Len(bridge) /\ \E S : bridge' \in Seq(S)
  /\ \A i \in 1 .. Len(bridge) :
       /\ DOMAIN bridge'[i] = MessageFields /\ ~bridge'[i].live
       /\ \A f \in MessageFields \ {"live"} : bridge'[i][f] = bridge[i][f]

(* A silenced message differs in nothing but that nobody waits for it. *)
LEMMA SilencedFields ==
  ASSUME Silenced, NEW i \in 1 .. Len(bridge)
  PROVE  /\ DOMAIN bridge'[i] = MessageFields /\ ~bridge'[i].live
         /\ bridge'[i].kind = bridge[i].kind /\ bridge'[i].recording = bridge[i].recording
         /\ bridge'[i].track = bridge[i].track /\ bridge'[i].index = bridge[i].index
         /\ bridge'[i].chunk = bridge[i].chunk /\ bridge'[i].last = bridge[i].last
         /\ bridge'[i].piece = bridge[i].piece /\ bridge'[i].interrupted = bridge[i].interrupted
BY DEF Silenced, MessageFields

(* An answer that does not move the queue: try again, or give up. *)
LEMMA AnsweredKeeps ==
  ASSUME CaptureInv, Silenced, UNCHANGED <<src, native, disk, taken, page, orders>>,
         DOMAIN used' = DOMAIN used, used'.starts = used.starts,
         SameCapture, cap'.accepting = cap.accepting, cap'.stopping = cap.stopping, cap'.drained = cap.drained,
         cap'.reply \in {"none", "retry", "error"}
  PROVE  CaptureInv'
<1>0. Len(bridge') = Len(bridge)  BY DEF Silenced
<1>1. CaptureTypes'
  <2>1. BridgeTypes'  BY <1>0, SilencedFields DEF CaptureInv, CaptureTypes, BridgeTypes, Silenced
  <2> QED BY <2>1 DEF CaptureInv, CaptureTypes, SourceTypes, CapTypes, SameCapture, NativeTypes, DiskTypes, PageTypes
<1>2. SessionOK' /\ C!StoredInOrder'  BY DEF CaptureInv, SessionOK, Stored, NextPiece, C!StoredInOrder
<1>3. GoesOn' /\ (Going' <=> Going) /\ (HeadIn' <=> HeadIn)  BY GoesOnStays DEF CaptureInv, CaptureOK, SameCapture
<1>4. CaptureFlags'  BY <1>3 DEF CaptureInv, CaptureOK, CaptureFlags, SameCapture
<1>5. QueueInRow' /\ Taking'  BY DEF CaptureInv, CaptureOK, QueueInRow, Taking, SameCapture
<1>6. Position' = Position  BY DEF Position, SameCapture
<1>7. ASSUME NEW i \in 1 .. Len(bridge)
      PROVE  LiveOK(i)' /\ MessageOK(bridge[i])' /\ Receipt(bridge[i])' = Receipt(bridge[i])
  <2>1. MessageOK(bridge[i])  BY DEF CaptureInv, BridgeOK
  <2>2. /\ ~bridge'[i].live
        /\ bridge'[i].kind = bridge[i].kind /\ bridge'[i].recording = bridge[i].recording
        /\ bridge'[i].track = bridge[i].track /\ bridge'[i].index = bridge[i].index
        /\ bridge'[i].chunk = bridge[i].chunk /\ bridge'[i].last = bridge[i].last
        /\ bridge'[i].piece = bridge[i].piece /\ bridge'[i].interrupted = bridge[i].interrupted
    BY SilencedFields
  <2>3. ChunkOK(bridge[i])'  BY <2>1, <2>2, <1>6 DEF MessageOK, ChunkOK, SameCapture, Receipt
  <2>4. FitOK(bridge[i])'  BY <2>1, <2>2 DEF MessageOK, FitOK, Expected, Stored, NextPiece, Receipt
  <2>5. FinishOK(bridge[i])'  BY <2>1, <2>2 DEF MessageOK, FinishOK, Stored, SameCapture
  <2> QED BY <2>1, <2>2, <2>3, <2>4, <2>5 DEF MessageOK, LiveOK, Receipt
<1>8. OneChunk'
  <2> SUFFICES ASSUME NEW i \in 1 .. Len(bridge), NEW j \in 1 .. Len(bridge),
                      bridge'[i].kind = "append", bridge'[j].kind = "append",
                      bridge'[i].recording = bridge'[j].recording
               PROVE  Receipt(bridge[i])' = Receipt(bridge[j])'  BY <1>0 DEF OneChunk
  <2>1. bridge[i].kind = "append" /\ bridge[j].kind = "append" /\ bridge[i].recording = bridge[j].recording
    BY SilencedFields
  <2>2. Receipt(bridge[i]) = Receipt(bridge[j])  BY <2>1 DEF CaptureInv, BridgeOK, OneChunk
  <2> QED BY <2>2, <1>7
<1>9. BridgeOK'  BY <1>0, <1>7, <1>8 DEF BridgeOK
<1>10. \A i \in 1 .. Len(bridge) : bridge'[i].recording = bridge[i].recording  BY SilencedFields
<1>11. StartsOK' /\ PageOK'  BY <1>0, <1>10 DEF CaptureInv, StartsOK, Fresh, PageOK, SameCapture
<1> QED BY <1>1, <1>2, <1>3, <1>4, <1>5, <1>9, <1>11 DEF CaptureInv, CaptureOK

(* A call of the page fails before it is sent. *)
LEMMA PostFailsKeeps ==
  ASSUME CaptureInv, DOMAIN None # CapFields, C!PostBusy \/ C!PostFails \/ C!AckTimeout
  PROVE  CaptureInv'
<1>1. /\ cap # None /\ UNCHANGED <<src, native, disk, taken, page, orders>>
      /\ used' = used \/ used' = [used EXCEPT !.faults = @ + 1]
  BY DEF C!PostBusy, C!PostFails, C!AckTimeout, C!Fault, C!Recording
<1>2. DOMAIN cap = CapFields /\ DOMAIN used = {"starts", "reloads", "faults"}
  BY <1>1 DEF CaptureInv, CaptureTypes, CapTypes, PageTypes
<1>3. DOMAIN used' = DOMAIN used /\ used'.starts = used.starts  BY <1>1, <1>2
<1>4. PICK reply \in {"retry", "error"}, sent \in {cap.sent, FALSE} : cap' = [cap EXCEPT !.reply = reply, !.sent = sent]
  BY <1>2 DEF C!PostBusy, C!PostFails, C!AckTimeout, CapFields
<1>5. /\ SameCapture /\ cap'.reply = reply
      /\ cap'.accepting = cap.accepting /\ cap'.stopping = cap.stopping /\ cap'.drained = cap.drained
  BY <1>1, <1>2, <1>4 DEF SameCapture, CapFields
<1>6. PICK S : bridge \in Seq(S)  BY DEF CaptureInv, CaptureTypes, BridgeTypes
<1>7. \A i \in 1 .. Len(bridge) : DOMAIN bridge[i] = MessageFields  BY DEF CaptureInv, CaptureTypes, BridgeTypes
<1>8. Silenced
  <2>1. CASE C!PostBusy \/ C!PostFails
    <3>1. bridge' = bridge /\ ~cap.sent  BY <2>1 DEF C!PostBusy, C!PostFails
    <3>2. \A i \in 1 .. Len(bridge) : ~bridge[i].live  BY <3>1 DEF CaptureInv, BridgeOK, LiveOK
    <3> QED BY <3>1, <3>2, <1>6, <1>7 DEF Silenced
  <2>2. CASE C!AckTimeout
    <3>1. bridge' = [i \in 1 .. Len(bridge) |-> [bridge[i] EXCEPT !.live = FALSE]]  BY <2>2, <1>6 DEF C!AckTimeout
    <3>2. PICK n \in Nat : n = Len(bridge)  BY <1>6
    <3>3. PICK T : T = {[bridge[i] EXCEPT !.live = FALSE] : i \in 1 .. n}  OBVIOUS
    <3>4. bridge' \in Seq(T) /\ Len(bridge') = Len(bridge)
      <4>1. \A i \in 1 .. n : [bridge[i] EXCEPT !.live = FALSE] \in T  BY <3>3
      <4>2. bridge' \in [1 .. n -> T]  BY <3>1, <3>2, <4>1
      <4> QED BY <3>2, <4>2
    <3>5. ASSUME NEW i \in 1 .. Len(bridge)
          PROVE  /\ DOMAIN bridge'[i] = MessageFields /\ ~bridge'[i].live
                 /\ \A f \in MessageFields \ {"live"} : bridge'[i][f] = bridge[i][f]
      BY <3>1, <1>7 DEF MessageFields
    <3> QED BY <3>4, <3>5 DEF Silenced
  <2> QED BY <2>1, <2>2
<1> QED BY <1>1, <1>3, <1>5, <1>8, AnsweredKeeps

(* What the page posts. *)
PostedBy(m, c) ==
  /\ DOMAIN m = MessageFields /\ m.recording = c.request /\ m.chunk = c.chunk
  /\ m.kind = "begin" <=> ~c.begun
  /\ m.kind = "append" <=> c.begun /\ c.queue # <<>>
  /\ m.kind = "finish" => c.begun /\ c.queue = <<>> /\ c.drained
  /\ m.interrupted = (c.interrupted \/ c.failed)
  /\ c.begun /\ c.queue # <<>> =>
       /\ m.track = c.queue[1].track /\ m.index = c.queue[1].index
       /\ m.last = (c.chunk + 1 = Len(c.queue[1].pieces))
       /\ m.piece = (IF c.queue[1].pieces = <<>> THEN 0 ELSE c.queue[1].pieces[c.chunk + 1])

(* The message a page puts on the bridge. *)
LEMMA MessageIs ==
  ASSUME NEW c, NEW g, NEW live
  PROVE  PostedBy(C!Message(c, g, live), c) /\ C!Message(c, g, live).live = live
<1>0. PICK m : m = C!Message(c, g, live)  OBVIOUS
<1>1. PICK head : head = IF c.begun /\ c.queue # <<>> THEN c.queue[1] ELSE [track |-> 0, index |-> 0, pieces |-> <<>>]
  OBVIOUS
<1>2. m = [kind |-> C!Due(c), recording |-> c.request, track |-> head.track, index |-> head.index,
           chunk |-> c.chunk, last |-> c.chunk + 1 = Len(head.pieces),
           piece |-> IF head.pieces = <<>> THEN 0 ELSE head.pieces[c.chunk + 1],
           interrupted |-> c.interrupted \/ c.failed, generation |-> g, live |-> live]
  BY <1>0, <1>1 DEF C!Message
<1>3. DOMAIN m = MessageFields /\ m.recording = c.request /\ m.chunk = c.chunk /\ m.live = live
      /\ m.interrupted = (c.interrupted \/ c.failed)  BY <1>2 DEF MessageFields
<1>4. m.kind = C!Due(c)  BY <1>2
<1>5. c.begun /\ c.queue # <<>> =>
              /\ m.track = c.queue[1].track /\ m.index = c.queue[1].index
              /\ m.last = (c.chunk + 1 = Len(c.queue[1].pieces))
              /\ m.piece = IF c.queue[1].pieces = <<>> THEN 0 ELSE c.queue[1].pieces[c.chunk + 1]
  BY <1>1, <1>2
<1> QED BY <1>0, <1>3, <1>4, <1>5 DEF C!Due, PostedBy

(* One more message on the bridge. *)
LEMMA BridgeGrows ==
  ASSUME BridgeTypes, NEW m, bridge' = Append(bridge, m)
  PROVE  /\ Len(bridge) \in Nat /\ Len(bridge') = Len(bridge) + 1 /\ bridge'[Len(bridge) + 1] = m
         /\ \A i \in 1 .. Len(bridge) : bridge'[i] = bridge[i]
         /\ \E S : bridge' \in Seq(S)
<1>1. PICK S : bridge \in Seq(S)  BY DEF BridgeTypes
<1>2. PICK T : T = S \cup {m}  OBVIOUS
<1>3. bridge \in Seq(T) /\ m \in T  BY <1>1, <1>2
<1>4. bridge' \in Seq(T) /\ Len(bridge) \in Nat /\ Len(bridge') = Len(bridge) + 1 /\ bridge'[Len(bridge) + 1] = m
      /\ \A i \in 1 .. Len(bridge) : bridge'[i] = bridge[i]  BY <1>3
<1> QED BY <1>4

(* The head of the queue, when the native end has nothing of the chunk. *)
LEMMA HeadFollows ==
  ASSUME CaptureInv, Going, cap.queue # <<>>, ~HeadIn
  PROVE  LET r == cap.request
             a == cap.queue[1]
             s == Session(r)
         IN  /\ s.next[a.track] = a.index /\ Len(s.partial) = cap.chunk
             /\ s.partial # <<>> => s.partial[1].track = a.track
             /\ a.pieces[cap.chunk + 1] = NextPiece(r, a.track) + cap.chunk
             /\ Stored(r, a.track) + cap.chunk < Len(taken[r][a.track])
<1>1. cap # None /\ cap.queue \in Seq(Appends) /\ cap.chunk \in Nat /\ cap.request \in C!Starts
  BY DEF CaptureInv, CaptureTypes, CapTypes, Going
<1>2. Len(cap.queue) \in Nat /\ Len(cap.queue) >= 1 /\ cap.queue[1] \in Appends  BY <1>1
<1>3. ~HeadWhole /\ 1 \in Waiting  BY <1>2 DEF HeadWhole, Waiting
<1>4. /\ Session(cap.request).next[cap.queue[1].track] = cap.queue[1].index
      /\ Len(Session(cap.request).partial) = cap.chunk
      /\ Session(cap.request).partial # <<>> => Session(cap.request).partial[1].track = cap.queue[1].track
  BY <1>3 DEF CaptureInv, CaptureOK, GoesOn, HeadContinues
<1>5. /\ cap.queue[1].pieces[1] = NextPiece(cap.request, cap.queue[1].track)
      /\ cap.queue[1].pieces[1] + Len(cap.queue[1].pieces)
           <= taken[cap.request][cap.queue[1].track][1] + Len(taken[cap.request][cap.queue[1].track])
  BY <1>3, <1>4 DEF CaptureInv, CaptureOK, GoesOn, QueueContinues
<1>6. cap.chunk < Len(cap.queue[1].pieces)  BY <1>1 DEF CaptureInv, CaptureOK, CaptureFlags
<1>7. cap.queue[1].pieces \in Seq(Nat) /\ cap.queue[1].track \in Tracks  BY <1>2 DEF Appends
<1>8. cap.queue[1].pieces[cap.chunk + 1] = cap.queue[1].pieces[1] + cap.chunk
  <2>1. InRow(cap.queue[1].pieces)  BY <1>1, <1>2 DEF CaptureInv, CaptureOK, QueueInRow
  <2>2. cap.chunk + 1 \in 1 .. Len(cap.queue[1].pieces) /\ cap.queue[1].pieces[1] \in Nat  BY <1>1, <1>6, <1>7
  <2> QED BY <1>1, <2>1, <2>2, SMTT(30) DEF InRow
<1>9. /\ taken[cap.request][cap.queue[1].track] \in Seq(Nat)
      /\ disk[cap.request].track[cap.queue[1].track] \in Seq(Nat)
  BY <1>1, <1>7 DEF CaptureInv, CaptureTypes, DiskTypes
<1>10. cap.queue[1].pieces[1] \in Nat  BY <1>6, <1>7, <1>1
<1>11. taken[cap.request][cap.queue[1].track] # <<>>  BY <1>3 DEF CaptureInv, CaptureOK, GoesOn, QueueContinues
<1>12. PICK all : all = taken[cap.request][cap.queue[1].track]  OBVIOUS
<1>13. PICK n : n = Stored(cap.request, cap.queue[1].track)  OBVIOUS
<1>14. all \in Seq(Nat) /\ all # <<>> /\ n \in Nat /\ Len(cap.queue[1].pieces) \in Nat
  <2>1. all \in Seq(Nat) /\ all # <<>>  BY <1>9, <1>11, <1>12
  <2>2. n \in Nat
    <3>1. PICK d : d = disk[cap.request].track[cap.queue[1].track]  OBVIOUS
    <3>2. d \in Seq(Nat) /\ n = Len(d)  BY <3>1, <1>9, <1>13 DEF Stored
    <3> QED BY <3>2
  <2> QED BY <1>7, <2>1, <2>2
<1>15. all[1] \in Nat /\ Len(all) \in Nat  BY <1>14
<1>16. /\ cap.queue[1].pieces[1] = all[1] + n /\ NextPiece(cap.request, cap.queue[1].track) = all[1] + n
       /\ cap.queue[1].pieces[1] + Len(cap.queue[1].pieces) <= all[1] + Len(all)
  BY <1>5, <1>12, <1>13 DEF NextPiece
<1>17. n + cap.chunk < Len(all)
  <2>1. PICK k \in Nat : k = Len(cap.queue[1].pieces)  BY <1>14
  <2>2. cap.chunk < k /\ all[1] + n + k <= all[1] + Len(all)  BY <1>6, <1>16, <2>1
  <2> QED BY <1>1, <1>14, <1>15, <2>2
<1>18. n = Stored(cap.request, cap.queue[1].track) /\ all = taken[cap.request][cap.queue[1].track]  BY <1>12, <1>13
<1> QED BY <1>4, <1>8, <1>16, <1>17, <1>18

(* The page sends its next call. *)
LEMMA PostKeeps ==
  ASSUME CaptureInv, DOMAIN None # CapFields, C!Post
  PROVE  CaptureInv'
<1>1. PICK g, live, m : g = native.generation /\ live = TRUE /\ m = C!Message(cap, g, live)  OBVIOUS
<1>2. /\ cap # None /\ ~cap.sent /\ cap.reply = "none" /\ C!Due(cap) # "nothing"
      /\ bridge' = Append(bridge, m) /\ cap' = [cap EXCEPT !.sent = TRUE]
      /\ UNCHANGED <<src, page, orders, native, disk, taken, used>>  BY <1>1 DEF C!Post, C!Recording
<1>3. DOMAIN cap = CapFields /\ cap.request \in C!Starts /\ cap.queue \in Seq(Appends) /\ cap.chunk \in Nat
  BY <1>2 DEF CaptureInv, CaptureTypes, CapTypes
<1>4. /\ SameCapture /\ cap'.sent /\ cap'.reply = "none"
      /\ cap'.accepting = cap.accepting /\ cap'.stopping = cap.stopping /\ cap'.drained = cap.drained
  BY <1>2, <1>3 DEF SameCapture, CapFields
<1>5. /\ DOMAIN m = MessageFields /\ m.recording = cap.request /\ m.chunk = cap.chunk /\ m.live
      /\ m.kind = "begin" <=> ~cap.begun
      /\ m.kind = "append" <=> cap.begun /\ cap.queue # <<>>
      /\ m.kind = "finish" => cap.begun /\ cap.queue = <<>> /\ cap.drained
      /\ m.interrupted = (cap.interrupted \/ cap.failed)
      /\ cap.begun /\ cap.queue # <<>> =>
           /\ m.track = cap.queue[1].track /\ m.index = cap.queue[1].index
           /\ m.last = (cap.chunk + 1 = Len(cap.queue[1].pieces))
           /\ m.piece = IF cap.queue[1].pieces = <<>> THEN 0 ELSE cap.queue[1].pieces[cap.chunk + 1]
  <2>1. PostedBy(m, cap) /\ m.live  BY <1>1, MessageIs
  <2> QED BY <2>1 DEF PostedBy
<1>6. /\ Len(bridge) \in Nat /\ Len(bridge') = Len(bridge) + 1 /\ bridge'[Len(bridge) + 1] = m
      /\ \A i \in 1 .. Len(bridge) : bridge'[i] = bridge[i]
      /\ \E S : bridge' \in Seq(S)  BY <1>2, BridgeGrows DEF CaptureInv, CaptureTypes
<1>7. \A i \in 1 .. Len(bridge') : (i \in 1 .. Len(bridge) /\ bridge'[i] = bridge[i]) \/ (i = Len(bridge') /\ bridge'[i] = m)
  BY <1>6
<1>8. CaptureTypes'
  <2>1. BridgeTypes'  BY <1>3, <1>5, <1>6, <1>7 DEF CaptureInv, CaptureTypes, BridgeTypes
  <2> QED BY <1>2, <1>4, <2>1 DEF CaptureInv, CaptureTypes, SourceTypes, CapTypes, SameCapture, NativeTypes, DiskTypes, PageTypes
<1>9. SessionOK' /\ C!StoredInOrder'  BY <1>2 DEF CaptureInv, SessionOK, Stored, NextPiece, C!StoredInOrder
<1>10. GoesOn' /\ (Going' <=> Going) /\ (HeadIn' <=> HeadIn)
  BY <1>2, <1>4, GoesOnStays DEF CaptureInv, CaptureOK, SameCapture
<1>11. CaptureFlags'  BY <1>2, <1>4, <1>10 DEF CaptureInv, CaptureOK, CaptureFlags, SameCapture
<1>12. QueueInRow' /\ Taking'  BY <1>2, <1>4 DEF CaptureInv, CaptureOK, QueueInRow, Taking, SameCapture
<1>13. Position' = Position  BY <1>4 DEF Position, SameCapture
<1>14. ASSUME cap.begun, cap.queue # <<>>
       PROVE  /\ Receipt(m) = Position /\ m.track \in Tracks /\ m.index \in Nat /\ m.chunk \in Nat /\ m.piece \in Nat
              /\ m.piece = cap.queue[1].pieces[cap.chunk + 1]
              /\ m.last <=> cap.chunk + 1 = Len(cap.queue[1].pieces)
  <2>1. cap.queue[1] \in Appends /\ Len(cap.queue) >= 1  BY <1>3, <1>14
  <2>2. cap.chunk < Len(cap.queue[1].pieces)  BY <1>2, <1>14 DEF CaptureInv, CaptureOK, CaptureFlags
  <2>3. cap.queue[1].pieces \in Seq(Nat) /\ cap.queue[1].track \in Tracks /\ cap.queue[1].index \in Nat
    BY <2>1 DEF Appends
  <2>4. cap.queue[1].pieces # <<>> /\ cap.queue[1].pieces[cap.chunk + 1] \in Nat
    <3>1. PICK p : p = cap.queue[1].pieces  OBVIOUS
    <3>2. p \in Seq(Nat) /\ cap.chunk + 1 \in 1 .. Len(p)  BY <1>3, <2>2, <2>3, <3>1
    <3>3. p # <<>> /\ p[cap.chunk + 1] \in Nat  BY <3>2
    <3> QED BY <3>1, <3>3
  <2> QED BY <1>3, <1>5, <1>14, <2>3, <2>4 DEF Receipt, Position
<1>15. MessageOK(m)'
  <2>1. m.kind # "begin" => disk[m.recording].state # "none"  BY <1>2, <1>5 DEF CaptureInv, CaptureOK, CaptureFlags
  <2>2. ChunkOK(m)'  BY <1>2, <1>4, <1>5, <1>13, <1>14 DEF ChunkOK, SameCapture, Receipt
  <2>3. FitOK(m)
    <3> SUFFICES ASSUME m.kind = "append", native.rec = m.recording, native.session.previous # Receipt(m)
                 PROVE  /\ Stored(m.recording, m.track) + Len(native.session.partial) < Len(taken[m.recording][m.track])
                        /\ m.piece = NextPiece(m.recording, m.track) + Len(native.session.partial)
      BY <1>5, <1>14 DEF FitOK
    <3>1. cap.begun /\ cap.queue # <<>> /\ Session(cap.request) = native.session  BY <1>5 DEF Session
    <3>2. Going  BY <1>2, <1>3, <1>5, <3>1 DEF Going, CaptureInv, CaptureOK, CaptureFlags, SessionOK
    <3>3. ~HeadIn  BY <1>14, <3>1 DEF HeadIn
    <3> QED BY <1>5, <1>14, <3>1, <3>2, <3>3, HeadFollows
  <2>4. FinishOK(m)
    <3> SUFFICES ASSUME m.kind = "finish", ~m.interrupted
                 PROVE  /\ native.rec = m.recording =>
                             \A t \in Tracks : Stored(m.recording, t) = Len(taken[m.recording][t])
                        /\ ~cap.accepting  BY DEF FinishOK
    <3>1. cap.begun /\ cap.queue = <<>> /\ cap.drained /\ ~cap.failed  BY <1>5
    <3>2. ~cap.accepting  BY <1>2, <3>1 DEF CaptureInv, CaptureOK, CaptureFlags
    <3>3. ASSUME native.rec = m.recording, NEW t \in Tracks
          PROVE  Stored(m.recording, t) = Len(taken[m.recording][t])
      <4>1. Going /\ Session(cap.request) = native.session
        BY <1>2, <1>3, <1>5, <3>1, <3>3 DEF Going, Session, CaptureInv, SessionOK
      <4>2. Waiting = {}  BY <3>1 DEF Waiting
      <4>3. /\ native.session.next[t] <= cap.index[t]
            /\ \A n \in Nat : ~(native.session.next[t] <= n /\ n < cap.index[t])
            /\ native.session.next[t] = cap.index[t] => Stored(cap.request, t) = Len(taken[cap.request][t])
        BY <4>1, <4>2 DEF CaptureInv, CaptureOK, GoesOn, QueueContinues
      <4>4. native.session.next[t] \in Nat /\ cap.index[t] \in Nat
        BY <1>2 DEF CaptureInv, CaptureTypes, NativeTypes, CapTypes
      <4> QED BY <1>5, <4>3, <4>4
    <3> QED BY <3>2, <3>3
  <2>5. FitOK(m)' /\ FinishOK(m)'
    BY <2>3, <2>4, <1>2, <1>4 DEF FitOK, Expected, FinishOK, Stored, NextPiece, SameCapture, Receipt
  <2> QED BY <1>2, <2>1, <2>2, <2>5 DEF MessageOK
<1>16. ASSUME NEW i \in 1 .. Len(bridge)
       PROVE  ~bridge[i].live /\ MessageOK(bridge[i])'
  <2>1. MessageOK(bridge[i]) /\ ~bridge[i].live  BY <1>2 DEF CaptureInv, BridgeOK, LiveOK
  <2>2. ChunkOK(bridge[i])'  BY <1>4, <1>6, <1>13, <2>1 DEF MessageOK, ChunkOK, SameCapture, Receipt
  <2>3. FitOK(bridge[i])' /\ FinishOK(bridge[i])'
    BY <1>2, <1>4, <1>6, <2>1, ZenonT(30) DEF MessageOK, FitOK, Expected, FinishOK, Stored, NextPiece, SameCapture, Receipt
  <2> QED BY <1>2, <1>6, <2>1, <2>2, <2>3 DEF MessageOK
<1>17. ASSUME NEW i \in 1 .. Len(bridge'), NEW j \in 1 .. Len(bridge'),
              bridge'[i].kind = "append", bridge'[j].kind = "append", bridge'[i].recording = bridge'[j].recording
       PROVE  Receipt(bridge'[i]) = Receipt(bridge'[j])
  <2>1. ASSUME NEW k \in 1 .. Len(bridge), m.kind = "append", bridge[k].kind = "append", bridge[k].recording = m.recording
        PROVE  Receipt(bridge[k]) = Receipt(m)
    <3>1. ~cap.failed  BY <1>2, <1>5, <2>1 DEF CaptureInv, CaptureOK, CaptureFlags
    <3>2. ChunkOK(bridge[k])  BY DEF CaptureInv, BridgeOK, MessageOK
    <3> QED BY <1>2, <1>5, <1>14, <2>1, <3>1, <3>2 DEF ChunkOK
  <2>2. \A k, l \in 1 .. Len(bridge) :
          bridge[k].kind = "append" /\ bridge[l].kind = "append" /\ bridge[k].recording = bridge[l].recording =>
            Receipt(bridge[k]) = Receipt(bridge[l])  BY DEF CaptureInv, BridgeOK, OneChunk
  <2> QED BY <1>7, <1>17, <2>1, <2>2
<1>18. BridgeOK'
  <2>1. OneChunk'  BY <1>17 DEF OneChunk, Receipt
  <2>2. ASSUME NEW i \in 1 .. Len(bridge')
        PROVE  LiveOK(i)' /\ MessageOK(bridge[i])'
    <3>1. CASE i \in 1 .. Len(bridge)  BY <3>1, <1>6, <1>16 DEF LiveOK
    <3>2. CASE i = Len(bridge') /\ bridge'[i] = m
      <4>1. cap.begun /\ cap.queue = <<>> => ~cap.accepting  BY <1>2 DEF C!Due, CaptureInv, CaptureOK, CaptureFlags
      <4>2. LiveOK(i)'  BY <3>2, <4>1, <1>4, <1>5 DEF LiveOK, SameCapture
      <4> QED BY <4>2, <3>2, <1>15 DEF MessageOK, ChunkOK, FitOK, FinishOK, Receipt, Expected
    <3> QED BY <1>7, <3>1, <3>2
  <2> QED BY <2>1, <2>2 DEF BridgeOK
<1>19. StartsOK' /\ PageOK'
  <2>1. ASSUME NEW r, Fresh(r)
        PROVE  Fresh(r)'  BY <2>1, <1>2, <1>4, <1>5, <1>7 DEF Fresh, SameCapture
  <2> QED BY <2>1, <1>2, <1>4 DEF CaptureInv, StartsOK, PageOK, SameCapture
<1> QED BY <1>8, <1>9, <1>10, <1>11, <1>12, <1>18, <1>19 DEF CaptureInv, CaptureOK

(* A track is taken from the head of a fragment on, without a gap. *)
Continues(all, p) ==
  /\ p \in Seq(Nat) /\ p # <<>> /\ InRow(p)
  /\ all = <<>> => C!Odd(p[1])
  /\ all # <<>> => all[1] + Len(all) = p[1]

(* What was taken of a track grows at its end. *)
LEMMA TakenGrows ==
  ASSUME NEW all \in Seq(Nat), NEW p, C!Whole(all), Continues(all, p)
  PROVE  /\ all \o p \in Seq(Nat) /\ C!Whole(all \o p) /\ all \o p # <<>>
         /\ (all \o p)[1] + Len(all \o p) = p[1] + Len(p)
         /\ Len(all \o p) = Len(all) + Len(p) /\ Len(p) >= 1
         /\ all # <<>> => (all \o p)[1] = all[1]
         /\ all = <<>> => (all \o p)[1] = p[1]
         /\ \A i \in 1 .. Len(all) : (all \o p)[i] = all[i]
<1>1. p \in Seq(Nat) /\ Len(p) >= 1 /\ Len(all) \in Nat /\ Len(p) \in Nat /\ p[1] \in Nat  BY DEF Continues
<1>2. PICK s : s = all \o p  OBVIOUS
<1>3. /\ s \in Seq(Nat) /\ Len(s) = Len(all) + Len(p)
      /\ \A i \in 1 .. Len(all) : s[i] = all[i]
      /\ \A i \in 1 .. Len(p) : s[Len(all) + i] = p[i]  BY <1>1, <1>2
<1>4. CASE all = <<>>
  <2>1. Len(all) = 0 /\ s[1] = p[1] /\ \A i \in 1 .. Len(s) : s[i] = p[i]  BY <1>1, <1>3, <1>4
  <2>2. C!Odd(p[1]) /\ \A i \in 1 .. Len(p) : p[i] = p[1] + i - 1  BY <1>4 DEF Continues, InRow
  <2>3. C!Whole(s)  BY <1>1, <1>3, <2>1, <2>2 DEF C!Whole
  <2> QED BY <1>1, <1>2, <1>3, <1>4, <2>1, <2>3
<1>5. CASE all # <<>>
  <2>1. Len(all) >= 1 /\ all[1] \in Nat /\ s[1] = all[1]  BY <1>1, <1>3, <1>5, SMTT(30)
  <2>2. all[1] + Len(all) = p[1] /\ \A i \in 1 .. Len(p) : p[i] = p[1] + i - 1  BY <1>5 DEF Continues, InRow
  <2>3. C!Odd(all[1]) /\ \A i \in 1 .. Len(all) : all[i] = all[1] + i - 1  BY <1>5 DEF C!Whole
  <2>4. \A i \in 1 .. Len(s) : s[i] = s[1] + i - 1
    <3> SUFFICES ASSUME NEW i \in 1 .. Len(s)
                 PROVE  s[i] = s[1] + i - 1  OBVIOUS
    <3>1. CASE i \in 1 .. Len(all)  BY <3>1, <1>3, <2>1, <2>3
    <3>2. CASE i \notin 1 .. Len(all)
      <4>1. PICK l \in Nat, m \in Nat : l = Len(all) /\ m = Len(p)  BY <1>1
      <4>2. PICK j \in 1 .. m : i = l + j
        <5>1. i \in Nat /\ i <= l + m /\ i > l  BY <3>2, <4>1, <1>3
        <5>2. i - l \in 1 .. m /\ i = l + (i - l)  BY <4>1, <5>1
        <5> QED BY <5>2
      <4>3. s[i] = p[j] /\ p[j] = p[1] + j - 1  BY <4>1, <4>2, <1>3, <2>2
      <4> QED BY <4>1, <4>2, <4>3, <2>1, <2>2, SMTT(30)
    <3> QED BY <3>1, <3>2
  <2>5. C!Whole(s)  BY <2>1, <2>3, <2>4 DEF C!Whole
  <2> QED BY <1>1, <1>2, <1>3, <1>5, <2>1, <2>2, <2>5, SMTT(30)
<1> QED BY <1>4, <1>5

(* What is taken of an append: from the first head of a fragment on. *)
TakesOut(t, n, p, out, all) ==
  /\ out # <<>> => /\ Continues(all, out) /\ out[1] + Len(out) = src.track[t].at + n + 1
                   /\ src.track[t].forwarding \/ \E i \in 1 .. n : C!Odd(p[i])
  /\ out = <<>> => all = <<>> /\ ~\E i \in 1 .. n : C!Odd(p[i])

(* The pieces that are passed on start where the last ones ended. *)
LEMMA ForwardedIs ==
  ASSUME CaptureInv, NEW t \in Tracks, NEW n \in 1 .. 2, cap # None, cap.accepting, cap.of = src.number,
         NEW p \in Seq(Nat), Len(p) = n, \A i \in 1 .. n : p[i] = src.track[t].at + i,
         NEW out, out = C!Forwarded(t, p),
         NEW all, all = taken[cap.request][t]
  PROVE  TakesOut(t, n, p, out, all)
<1> USE DEF TakesOut
<1>1. src.track[t].at \in Nat  BY DEF CaptureInv, CaptureTypes, SourceTypes
<1>2. PICK at \in Nat : at = src.track[t].at  BY <1>1
<1>3. p \in Seq(Nat) /\ Len(p) = n /\ \A i \in 1 .. n : p[i] = at + i  BY <1>2
<1>4. /\ all = <<>> => ~src.track[t].forwarding
      /\ all # <<>> => src.track[t].forwarding /\ all[1] + Len(all) = at + 1
  BY <1>2 DEF CaptureInv, CaptureOK, Taking
<1>5. p # <<>> /\ InRow(p) /\ p[1] = at + 1 /\ p[1] + Len(p) = at + n + 1
  <2>1. Len(p) >= 1 /\ p[1] = at + 1 /\ p[1] + Len(p) = at + n + 1  BY <1>3
  <2>2. \A j \in 1 .. Len(p) : p[j] = p[1] + j - 1  BY <1>3, <2>1
  <2>3. p # <<>>  BY <1>3
  <2> QED BY <2>1, <2>2, <2>3 DEF InRow
<1>6. CASE C!Odd(p[1]) \/ src.track[t].forwarding
  <2>1. out = p  BY <1>6 DEF C!Forwarded
  <2>2. all = <<>> => C!Odd(p[1])  BY <1>4, <1>6
  <2>3. all # <<>> => all[1] + Len(all) = p[1]  BY <1>4, <1>5
  <2>4. Continues(all, out)  BY <1>3, <1>5, <2>1, <2>2, <2>3 DEF Continues
  <2>5. src.track[t].forwarding \/ \E i \in 1 .. n : C!Odd(p[i])  BY <1>6
  <2> QED BY <1>2, <1>5, <2>1, <2>4, <2>5
<1>7. CASE ~C!Odd(p[1]) /\ ~src.track[t].forwarding
  <2>1. out = Tail(p) /\ all = <<>>  BY <1>4, <1>7 DEF C!Forwarded
  <2>2. CASE n = 1
    <3>1. Tail(p) = <<>>
      <4>1. p # <<>> /\ Len(p) = 1  BY <2>2, <1>3, <1>5
      <4> QED BY <4>1, <1>3, TailIs
    <3> QED BY <3>1, <2>1, <2>2, <1>7
  <2>3. CASE n = 2
    <3>1. PICK o : o = Tail(p)  OBVIOUS
    <3>2. o \in Seq(Nat) /\ Len(o) = 1 /\ o[1] = at + 2 /\ p[1] = at + 1 /\ p[2] = at + 2
      <4>1. p # <<>> /\ p \in Seq(Nat) /\ Len(p) = 2 /\ p[1] = at + 1 /\ p[2] = at + 2  BY <2>3, <1>3, <1>5
      <4>2. o \in Seq(Nat) /\ Len(o) = Len(p) - 1 /\ \A i \in 1 .. Len(p) - 1 : o[i] = p[i + 1]  BY <3>1, <4>1, TailIs
      <4>3. Len(o) = 1 /\ o[1] = p[1 + 1]  BY <4>1, <4>2
      <4> QED BY <4>1, <4>2, <4>3
    <3>3. C!Odd(p[2])  BY <1>7, <3>2 DEF C!Odd
    <3>4. o # <<>> /\ InRow(o)
      <4>1. o # <<>> /\ o[1] \in Nat
        <5>1. o # <<>>
          <6>1. Len(<<>>) = 0 /\ Len(o) # 0  BY <3>2
          <6> QED BY <6>1
        <5>2. at + 2 \in Nat  OBVIOUS
        <5> QED BY <3>2, <5>1, <5>2
      <4>2. \A j \in 1 .. Len(o) : j = 1  BY <3>2
      <4>3. \A j \in 1 .. Len(o) : o[j] = o[1] + j - 1  BY <4>1, <4>2
      <4> QED BY <3>2, <4>1, <4>3 DEF InRow
    <3>5. C!Odd(o[1])  BY <3>2, <3>3
    <3>6. Continues(all, o)  BY <2>1, <3>2, <3>4, <3>5 DEF Continues
    <3>7. o[1] + Len(o) = at + n + 1  BY <2>3, <3>2
    <3>8. \E i \in 1 .. n : C!Odd(p[i])  BY <2>3, <3>3
    <3> QED BY <1>2, <2>1, <3>1, <3>4, <3>6, <3>7, <3>8
  <2> QED BY <2>2, <2>3
<1> QED BY <1>6, <1>7

(* An append is put into the queue. *)
Enqueued(t, p) ==
  /\ cap # None /\ cap.accepting /\ cap.of = src.number
  /\ Continues(taken[cap.request][t], p)
  /\ cap' = [cap EXCEPT !.queue = Append(@, [track |-> t, index |-> cap.index[t], pieces |-> p]),
                        !.index[t] = @ + 1]
  /\ taken' = [taken EXCEPT ![cap.request][t] = @ \o p]
  /\ UNCHANGED <<page, bridge, orders, native, disk, used>>

(* What has been taken only grows. *)
TakenExtends ==
  \A r \in C!Starts : \A u \in Tracks :
    /\ taken'[r][u] \in Seq(Nat) /\ C!Whole(taken'[r][u])
    /\ Len(taken[r][u]) \in Nat /\ Len(taken'[r][u]) \in Nat /\ Len(taken'[r][u]) >= Len(taken[r][u])
    /\ taken[r][u] # <<>> => taken'[r][u] # <<>> /\ taken'[r][u][1] = taken[r][u][1]
    /\ \A i \in 1 .. Len(taken[r][u]) : taken'[r][u][i] = taken[r][u][i]
    /\ cap = None \/ r # cap.request => taken'[r][u] = taken[r][u]

(* Enqueueing takes pieces in order. *)
LEMMA EnqueuedTakes ==
  ASSUME CaptureInv, NEW t \in Tracks, NEW p, Enqueued(t, p)
  PROVE  /\ TakenExtends /\ DOMAIN taken' = C!Starts
         /\ \A r \in C!Starts : taken'[r] \in [Tracks -> Seq(Nat)]
         /\ \A u \in Tracks : u # t => taken'[cap.request][u] = taken[cap.request][u]
         /\ LET all == taken[cap.request][t]
                more == taken'[cap.request][t]
            IN  /\ more # <<>> /\ more[1] + Len(more) = p[1] + Len(p) /\ Len(more) = Len(all) + Len(p)
                /\ all = <<>> => more[1] = p[1]
<1>1. PICK r \in C!Starts : r = cap.request  BY DEF Enqueued, CaptureInv, CaptureTypes, CapTypes
<1>2. DOMAIN taken = C!Starts /\ \A q \in C!Starts : taken[q] \in [Tracks -> Seq(Nat)]
  BY DEF CaptureInv, CaptureTypes, DiskTypes
<1>3. PICK all \in Seq(Nat) : all = taken[r][t]  BY <1>2
<1>4. C!Whole(all) /\ Continues(all, p)  BY <1>1, <1>3 DEF CaptureInv, C!StoredInOrder, Enqueued
<1>5. PICK more : more = all \o p  OBVIOUS
<1>6. /\ more \in Seq(Nat) /\ C!Whole(more) /\ more # <<>>
      /\ more[1] + Len(more) = p[1] + Len(p)
      /\ Len(more) = Len(all) + Len(p) /\ Len(p) >= 1
      /\ all # <<>> => more[1] = all[1]
      /\ all = <<>> => more[1] = p[1]
      /\ \A i \in 1 .. Len(all) : more[i] = all[i]  BY <1>4, <1>5, TakenGrows
<1>7. taken' = [taken EXCEPT ![r][t] = more]  BY <1>1, <1>3, <1>5 DEF Enqueued
<1>8. /\ DOMAIN taken' = C!Starts /\ taken'[r][t] = more
      /\ \A u \in Tracks : u # t => taken'[r][u] = taken[r][u]
      /\ \A q \in C!Starts : q # r => taken'[q] = taken[q]
      /\ DOMAIN taken'[r] = Tracks /\ taken'[r] \in [Tracks -> Seq(Nat)]  BY <1>2, <1>6, <1>7
<1>9. \A q \in C!Starts : taken'[q] \in [Tracks -> Seq(Nat)]  BY <1>2, <1>8
<1>10. TakenExtends
  <2> SUFFICES ASSUME NEW q \in C!Starts, NEW u \in Tracks
               PROVE  /\ taken'[q][u] \in Seq(Nat) /\ C!Whole(taken'[q][u])
                      /\ Len(taken[q][u]) \in Nat /\ Len(taken'[q][u]) \in Nat
                      /\ Len(taken'[q][u]) >= Len(taken[q][u])
                      /\ taken[q][u] # <<>> => taken'[q][u] # <<>> /\ taken'[q][u][1] = taken[q][u][1]
                      /\ \A i \in 1 .. Len(taken[q][u]) : taken'[q][u][i] = taken[q][u][i]
                      /\ cap = None \/ q # cap.request => taken'[q][u] = taken[q][u]  BY DEF TakenExtends
  <2>1. CASE q = r /\ u = t
    <3>1. taken[q][u] = all /\ taken'[q][u] = more  BY <2>1, <1>3, <1>8
    <3>2. Len(all) \in Nat /\ Len(more) \in Nat /\ Len(more) >= Len(all)
      <4>1. Len(all) \in Nat /\ Len(more) \in Nat  BY <1>6
      <4>2. p \in Seq(Nat)  BY <1>4 DEF Continues
      <4>3. Len(p) \in Nat  BY <4>2
      <4> QED BY <4>1, <4>3, <1>6
    <3> QED BY <3>1, <3>2, <2>1, <1>1, <1>6 DEF Enqueued
  <2>2. CASE ~(q = r /\ u = t)
    <3>1. PICK s \in Seq(Nat) : s = taken[q][u]  BY <1>2
    <3>2. taken'[q][u] = s /\ Len(s) \in Nat  BY <2>2, <3>1, <1>8
    <3>3. C!Whole(s)  BY <3>1 DEF CaptureInv, C!StoredInOrder
    <3> QED BY <3>1, <3>2, <3>3
  <2> QED BY <2>1, <2>2
<1> QED BY <1>1, <1>3, <1>6, <1>8, <1>9, <1>10

QueueExtends(t, p) ==
  /\ cap' # None /\ DOMAIN cap' = CapFields
  /\ cap'.request = cap.request /\ cap'.of = cap.of /\ cap'.begun = cap.begun /\ cap'.failed = cap.failed
  /\ cap'.chunk = cap.chunk /\ cap'.accepting = cap.accepting /\ cap'.stopping = cap.stopping
  /\ cap'.drained = cap.drained /\ cap'.sent = cap.sent /\ cap'.reply = cap.reply
  /\ cap'.queue \in Seq(Appends) /\ Len(cap'.queue) = Len(cap.queue) + 1
  /\ \A i \in 1 .. Len(cap.queue) : cap'.queue[i] = cap.queue[i]
  /\ cap'.queue[Len(cap.queue) + 1].track = t /\ cap'.queue[Len(cap.queue) + 1].index = cap.index[t]
  /\ cap'.queue[Len(cap.queue) + 1].pieces = p
  /\ cap'.index \in [Tracks -> Nat] /\ cap'.index[t] = cap.index[t] + 1
  /\ \A u \in Tracks : u # t => cap'.index[u] = cap.index[u]

(* Enqueueing puts one append at the end of the queue. *)
LEMMA EnqueuedQueues ==
  ASSUME CaptureInv, DOMAIN None # CapFields, NEW t \in Tracks, NEW p, Enqueued(t, p)
  PROVE  QueueExtends(t, p)
<1>1. /\ DOMAIN cap = CapFields /\ cap.queue \in Seq(Appends) /\ cap.index \in [Tracks -> Nat]
  BY DEF Enqueued, CaptureInv, CaptureTypes, CapTypes
<1>2. PICK a : a = [track |-> t, index |-> cap.index[t], pieces |-> p]  OBVIOUS
<1>3. p \in Seq(Nat)  BY DEF Enqueued, Continues
<1>4. a \in Appends /\ a.track = t /\ a.index = cap.index[t] /\ a.pieces = p  BY <1>1, <1>2, <1>3 DEF Appends
<1>5. PICK q, x : q = Append(cap.queue, a) /\ x = [cap.index EXCEPT ![t] = @ + 1]  OBVIOUS
<1>6. cap' = [cap EXCEPT !.queue = q, !.index = x]  BY <1>1, <1>2, <1>5 DEF Enqueued, CapFields
<1>7. /\ DOMAIN cap' = CapFields
      /\ cap'.request = cap.request /\ cap'.of = cap.of /\ cap'.begun = cap.begun /\ cap'.failed = cap.failed
      /\ cap'.chunk = cap.chunk /\ cap'.accepting = cap.accepting /\ cap'.stopping = cap.stopping
      /\ cap'.drained = cap.drained /\ cap'.sent = cap.sent /\ cap'.reply = cap.reply
      /\ cap'.queue = q /\ cap'.index = x  BY <1>1, <1>6 DEF CapFields
<1>8. /\ q \in Seq(Appends) /\ Len(q) = Len(cap.queue) + 1 /\ q[Len(cap.queue) + 1] = a
      /\ \A i \in 1 .. Len(cap.queue) : q[i] = cap.queue[i]  BY <1>1, <1>4, <1>5
<1>9. x \in [Tracks -> Nat] /\ x[t] = cap.index[t] + 1 /\ \A u \in Tracks : u # t => x[u] = cap.index[u]
  BY <1>1, <1>5
<1>10. cap' # None  BY <1>7
<1> QED BY <1>4, <1>7, <1>8, <1>9, <1>10 DEF QueueExtends

(* The same as QueueContinues, of a queue q whose appends w wait. *)
QueueFits(q, w, next, index, all, d) ==
  /\ \A i, j \in 1 .. Len(q) : i < j /\ q[i].track = q[j].track => q[i].index < q[j].index
  /\ \A t \in Tracks : next[t] <= index[t]
  /\ \A t \in Tracks, n \in Nat :
       next[t] <= n /\ n < index[t] => \E i \in w : q[i].track = t /\ q[i].index = n
  /\ \A i \in w :
       LET t == q[i].track
       IN  /\ next[t] <= q[i].index /\ q[i].index < index[t] /\ all[t] # <<>>
           /\ q[i].index = next[t] => q[i].pieces[1] = all[t][1] + Len(d[t])
           /\ q[i].pieces[1] + Len(q[i].pieces) <= all[t][1] + Len(all[t])
           /\ q[i].index + 1 = index[t] => q[i].pieces[1] + Len(q[i].pieces) = all[t][1] + Len(all[t])
  /\ \A i, j \in w :
       q[i].track = q[j].track /\ q[j].index = q[i].index + 1 => q[j].pieces[1] = q[i].pieces[1] + Len(q[i].pieces)
  /\ \A t \in Tracks : next[t] = index[t] => Len(d[t]) = Len(all[t])

(* The pieces p have been added to what track t has shown, which is now more. *)
Took(t, p, more) ==
  /\ more = taken'[cap.request][t]
  /\ more # <<>> /\ more[1] + Len(more) = p[1] + Len(p) /\ Len(more) = Len(taken[cap.request][t]) + Len(p)
  /\ taken[cap.request][t] = <<>> => more[1] = p[1]
  /\ \A u \in Tracks : u # t => taken'[cap.request][u] = taken[cap.request][u]

(* After an enqueueing the queue continues what is stored. *)
LEMMA EnqueuedGoesOn ==
  ASSUME CaptureInv, NEW t \in Tracks, NEW p, Enqueued(t, p), TakenExtends, QueueExtends(t, p),
         NEW more, Took(t, p, more)
  PROVE  GoesOn' /\ (Going' <=> Going) /\ (cap.queue # <<>> => Position' = Position)
<1> /\ more = taken'[cap.request][t]
    /\ more # <<>> /\ more[1] + Len(more) = p[1] + Len(p) /\ Len(more) = Len(taken[cap.request][t]) + Len(p)
    /\ taken[cap.request][t] = <<>> => more[1] = p[1]
    /\ \A u \in Tracks : u # t => taken'[cap.request][u] = taken[cap.request][u]  BY DEF Took
<1>1. Going' <=> Going  BY DEF Going, QueueExtends, Enqueued
<1>2. PICK r \in C!Starts : r = cap.request  BY DEF Enqueued, CaptureInv, CaptureTypes, CapTypes
<1>3. PICK s : s = Session(r)  OBVIOUS
<1>4. /\ s = Session(cap.request) /\ Session(cap.request)' = s /\ cap'.request = r
      /\ s.next \in [Tracks -> Nat]
  <2>1. s.next \in [Tracks -> Nat]
    BY <1>3 DEF CaptureInv, CaptureTypes, NativeTypes, Session, C!NoSession, C!EachTrack
  <2> QED BY <1>2, <1>3, <2>1 DEF Session, QueueExtends, Enqueued
<1>5. /\ cap.queue \in Seq(Appends) /\ cap.index \in [Tracks -> Nat] /\ cap.chunk \in Nat
      /\ cap'.queue \in Seq(Appends)  BY DEF CaptureInv, CaptureTypes, CapTypes, Enqueued, QueueExtends
<1>6. PICK n \in Nat : n = Len(cap.queue)  BY <1>5
<1>7. /\ Len(cap'.queue) = n + 1 /\ \A i \in 1 .. n : cap'.queue[i] = cap.queue[i]
      /\ cap'.queue[n + 1].track = t /\ cap'.queue[n + 1].index = cap.index[t] /\ cap'.queue[n + 1].pieces = p
  BY <1>6 DEF QueueExtends
<1>8. n >= 1 <=> cap.queue # <<>>  BY <1>5, <1>6
<1>9. cap.queue # <<>> => cap'.queue[1] = cap.queue[1] /\ Position' = Position
  BY <1>7, <1>8 DEF Position, QueueExtends
<1>10. SUFFICES ASSUME Going
                PROVE  QueueContinues' /\ HeadContinues'  BY <1>1, <1>9 DEF GoesOn
<1>11. QueueContinues /\ HeadContinues  BY <1>10 DEF CaptureInv, CaptureOK, GoesOn
<1>12. cap.queue # <<>> => (HeadIn' <=> HeadIn) /\ (HeadWhole' <=> HeadWhole)
  BY <1>4, <1>9 DEF HeadIn, HeadWhole, QueueExtends
<1>13. \A u \in Tracks : s.next[u] <= cap.index[u]  BY <1>4, <1>11 DEF QueueContinues
<1>14. ASSUME cap.queue = <<>>
       PROVE  ~HeadIn' /\ s.partial = <<>> /\ cap.chunk = 0 /\ n = 0
  <2>1. s.partial = <<>> /\ cap.chunk = 0 /\ n = 0
    BY <1>4, <1>6, <1>11, <1>14 DEF HeadContinues, CaptureInv, CaptureOK, CaptureFlags, Enqueued
  <2>2. Position' = <<t, cap.index[t], 0>>  BY <2>1, <1>7 DEF Position, QueueExtends
  <2>3. ASSUME s.previous = <<t, cap.index[t], 0>>
        PROVE  FALSE
    <3>1. s = native.session  BY <2>3, <1>3 DEF Session, C!NoSession
    <3>2. PICK u \in Tracks, i \in Nat, c \in Nat : s.previous = <<u, i, c>> /\ s.next[u] = i + 1
      <4>1. s.previous # <<>>  BY <2>3
      <4>2. SessionOK  BY DEF CaptureInv
      <4> QED BY <2>1, <3>1, <4>1, <4>2 DEF SessionOK
    <3>3. u = t /\ i = cap.index[t]  BY <2>3, <3>2
    <3>4. s.next[t] = cap.index[t] + 1 /\ s.next[t] <= cap.index[t] /\ cap.index[t] \in Nat
      BY <1>5, <1>13, <3>2, <3>3
    <3> QED BY <3>4
  <2> QED BY <2>1, <2>2, <2>3, <1>4 DEF HeadIn
<1>15. \A i \in 1 .. n : i \in Waiting' <=> i \in Waiting  BY <1>6, <1>7, <1>8, <1>12 DEF Waiting
<1>16. n + 1 \in Waiting'  BY <1>7, <1>8, <1>14 DEF Waiting, HeadWhole
<1>17. Waiting \subseteq 1 .. n /\ Waiting' \subseteq 1 .. n + 1  BY <1>6, <1>7 DEF Waiting
<1>18. \A u \in Tracks : s.next[u] \in Nat /\ cap.index[u] \in Nat /\ s.next[u] <= cap'.index[u]
  <2> SUFFICES ASSUME NEW u \in Tracks
               PROVE  s.next[u] \in Nat /\ cap.index[u] \in Nat /\ s.next[u] <= cap'.index[u]  OBVIOUS
  <2>1. s.next[u] \in Nat /\ cap.index[u] \in Nat /\ s.next[u] <= cap.index[u]  BY <1>4, <1>5, <1>13
  <2>2. cap'.index[u] = cap.index[u] \/ cap'.index[u] = cap.index[u] + 1  BY DEF QueueExtends
  <2> QED BY <2>1, <2>2
<1>19. ASSUME NEW i \in Waiting
       PROVE  LET u == cap.queue[i].track
              IN  /\ i \in 1 .. n /\ u \in Tracks /\ cap.queue[i].index \in Nat /\ cap.queue[i].pieces \in Seq(Nat)
                  /\ s.next[u] <= cap.queue[i].index /\ cap.queue[i].index < cap.index[u]
                  /\ taken[r][u] # <<>>
  <2>1. i \in 1 .. n  BY <1>17
  <2>2. cap.queue[i] \in Appends  BY <2>1, <1>5, <1>6
  <2>3. cap.queue[i].track \in Tracks /\ cap.queue[i].index \in Nat /\ cap.queue[i].pieces \in Seq(Nat)
    BY <2>2 DEF Appends
  <2> QED BY <2>1, <2>3, <1>2, <1>4, <1>11 DEF QueueContinues
<1>20. \A i, j \in 1 .. n + 1 : i < j /\ cap'.queue[i].track = cap'.queue[j].track => cap'.queue[i].index < cap'.queue[j].index
  <2> SUFFICES ASSUME NEW i \in 1 .. n + 1, NEW j \in 1 .. n + 1, i < j, cap'.queue[i].track = cap'.queue[j].track
               PROVE  cap'.queue[i].index < cap'.queue[j].index  OBVIOUS
  <2>1. i \in 1 .. n /\ cap'.queue[i] = cap.queue[i]  BY <1>7
  <2>2. CASE j \in 1 .. n  BY <2>1, <2>2, <1>6, <1>7, <1>11 DEF QueueContinues
  <2>3. CASE j = n + 1
    <3>1. cap.queue[i].track = t /\ cap'.queue[j].index = cap.index[t]  BY <2>1, <2>3, <1>7
    <3>2. CASE i \in Waiting  BY <3>1, <3>2, <2>1, <1>19
    <3>3. CASE i \notin Waiting
      <4>1. i = 1 /\ HeadWhole /\ cap.queue # <<>>  BY <3>3, <2>1, <1>6, <1>8 DEF Waiting
      <4>2. s.next[t] = cap.queue[1].index + 1  BY <4>1, <3>1, <1>4, <1>11 DEF HeadContinues
      <4>3. cap.queue[1].index \in Nat /\ cap.index[t] \in Nat
        <5>1. cap.queue[1] \in Appends  BY <2>1, <4>1, <1>5, <1>6
        <5> QED BY <5>1, <1>5 DEF Appends
      <4> QED BY <4>1, <4>2, <4>3, <3>1, <2>1, <1>13
    <3> QED BY <3>2, <3>3
  <2> QED BY <2>2, <2>3
<1>21. ASSUME NEW u \in Tracks, NEW m \in Nat, s.next[u] <= m, m < cap'.index[u]
       PROVE  \E i \in Waiting' : cap'.queue[i].track = u /\ cap'.queue[i].index = m
  <2>1. CASE m < cap.index[u]
    <3>1. PICK i \in Waiting : cap.queue[i].track = u /\ cap.queue[i].index = m
      BY <2>1, <1>4, <1>11, <1>21 DEF QueueContinues
    <3>2. i \in 1 .. n /\ i \in Waiting' /\ cap'.queue[i] = cap.queue[i]  BY <1>7, <1>15, <1>17
    <3> QED BY <3>1, <3>2
  <2>2. CASE ~(m < cap.index[u])
    <3>1. u = t /\ m = cap.index[t]
      <4>1. cap.index[u] \in Nat /\ cap.index[t] \in Nat  BY <1>5
      <4> QED BY <2>2, <4>1, <1>21 DEF QueueExtends
    <3> QED BY <3>1, <1>7, <1>16
  <2> QED BY <2>1, <2>2
<1>22. /\ \A u \in Tracks : NextPiece(r, u)' = taken'[r][u][1] + Stored(r, u)
       /\ \A u \in Tracks : NextPiece(r, u) = taken[r][u][1] + Stored(r, u)
       /\ \A u \in Tracks : Stored(r, u) \in Nat
  <2>1. \A u \in Tracks : Stored(r, u)' = Stored(r, u)  BY DEF Stored, Enqueued
  <2>2. ASSUME NEW u \in Tracks
        PROVE  Stored(r, u) \in Nat
    <3>1. PICK d \in Seq(Nat) : d = disk[r].track[u]  BY DEF CaptureInv, CaptureTypes, DiskTypes
    <3> QED BY <3>1 DEF Stored
  <2> QED BY <2>1, <2>2 DEF NextPiece
<1>23. \A u \in Tracks : /\ taken[r][u] # <<>> => taken'[r][u] # <<>> /\ taken'[r][u][1] = taken[r][u][1]
                                                  /\ taken[r][u][1] \in Nat
                         /\ Len(taken'[r][u]) \in Nat /\ Len(taken[r][u]) \in Nat
                         /\ Len(taken[r][u]) <= Len(taken'[r][u])
  <2> SUFFICES ASSUME NEW u \in Tracks
               PROVE  /\ taken[r][u] # <<>> => taken'[r][u] # <<>> /\ taken'[r][u][1] = taken[r][u][1]
                                               /\ taken[r][u][1] \in Nat
                      /\ Len(taken'[r][u]) \in Nat /\ Len(taken[r][u]) \in Nat
                      /\ Len(taken[r][u]) <= Len(taken'[r][u])  OBVIOUS
  <2>1. PICK d \in Seq(Nat) : d = taken[r][u]  BY DEF CaptureInv, CaptureTypes, DiskTypes
  <2>2. d # <<>> => d[1] \in Nat  BY <2>1
  <2> QED BY <2>1, <2>2 DEF TakenExtends
<1>24. /\ more = taken'[r][t] /\ p \in Seq(Nat) /\ p # <<>> /\ p[1] \in Nat /\ Len(p) \in Nat /\ Len(p) >= 1
       /\ taken[r][t] # <<>> => taken[r][t][1] + Len(taken[r][t]) = p[1]
       /\ taken[r][t] = <<>> => taken'[r][t][1] = p[1]
       /\ more # <<>> /\ more[1] + Len(more) = p[1] + Len(p) /\ Len(more) = Len(taken[r][t]) + Len(p)
  <2>1. p \in Seq(Nat) /\ p # <<>>  BY DEF Enqueued, Continues
  <2>2. p[1] \in Nat /\ Len(p) \in Nat /\ Len(p) >= 1  BY <2>1
  <2> QED BY <2>1, <2>2, <1>2 DEF Enqueued, Continues
<1>25. ASSUME NEW i \in Waiting'
       PROVE  LET u == cap'.queue[i].track
              IN  /\ s.next[u] <= cap'.queue[i].index /\ cap'.queue[i].index < cap'.index[u] /\ taken'[r][u] # <<>>
                  /\ cap'.queue[i].index = s.next[u] => cap'.queue[i].pieces[1] = taken'[r][u][1] + Stored(r, u)
                  /\ cap'.queue[i].pieces[1] + Len(cap'.queue[i].pieces) <= taken'[r][u][1] + Len(taken'[r][u])
                  /\ cap'.queue[i].index + 1 = cap'.index[u] =>
                       cap'.queue[i].pieces[1] + Len(cap'.queue[i].pieces) = taken'[r][u][1] + Len(taken'[r][u])
  <2>1. i \in 1 .. n \/ i = n + 1  BY <1>17
  <2>2. CASE i \in 1 .. n
    <3>1. i \in Waiting /\ cap'.queue[i] = cap.queue[i]  BY <2>2, <1>7, <1>15
    <3>2. PICK u \in Tracks, k \in Nat, ps \in Seq(Nat) :
            u = cap.queue[i].track /\ k = cap.queue[i].index /\ ps = cap.queue[i].pieces  BY <3>1, <1>19
    <3>3. s.next[u] <= k /\ k < cap.index[u] /\ taken[r][u] # <<>>  BY <3>1, <3>2, <1>19
    <3>4. /\ k = s.next[u] => ps[1] = NextPiece(r, u)
          /\ ps[1] + Len(ps) <= taken[r][u][1] + Len(taken[r][u])
          /\ k + 1 = cap.index[u] => ps[1] + Len(ps) = taken[r][u][1] + Len(taken[r][u])
      BY <3>1, <3>2, <1>2, <1>4, <1>11 DEF QueueContinues
    <3>5. ps[1] \in Nat /\ Len(ps) \in Nat
      <4>1. InRow(ps)  BY <3>1, <3>2, <1>6, <2>2 DEF CaptureInv, CaptureOK, QueueInRow, Enqueued
      <4> QED BY <4>1 DEF InRow
    <3>6. PICK a \in Nat, la \in Nat, lb \in Nat :
            /\ a = taken[r][u][1] /\ a = taken'[r][u][1]
            /\ la = Len(taken[r][u]) /\ lb = Len(taken'[r][u]) /\ la <= lb  BY <3>3, <1>23
    <3>7. /\ s.next[u] <= k /\ k < cap'.index[u] /\ taken'[r][u] # <<>>
          /\ k + 1 = cap'.index[u] => u # t /\ k + 1 = cap.index[u]
      <4>1. PICK x \in Nat, y \in Nat : x = cap.index[u] /\ y = cap'.index[u]  BY <1>18 DEF QueueExtends
      <4>2. (u = t /\ y = x + 1) \/ (u # t /\ y = x)  BY <4>1 DEF QueueExtends
      <4>3. s.next[u] <= k /\ k < x  BY <3>3, <4>1
      <4>4. taken'[r][u] # <<>>  BY <3>3, <1>23
      <4>5. k < y /\ (k + 1 = y => u # t /\ k + 1 = x)  BY <4>2, <4>3
      <4> QED BY <4>1, <4>3, <4>4, <4>5
    <3>8. k = s.next[u] => ps[1] = taken'[r][u][1] + Stored(r, u)  BY <3>4, <3>6, <1>22
    <3>9. ps[1] + Len(ps) <= a + lb /\ (k + 1 = cap'.index[u] => ps[1] + Len(ps) = a + lb)
      <4>1. ps[1] + Len(ps) <= a + la  BY <3>4, <3>6
      <4>2. ASSUME k + 1 = cap'.index[u]
            PROVE  ps[1] + Len(ps) = a + lb
        <5>1. la = lb  BY <4>2, <3>6, <3>7, <1>2
        <5> QED BY <5>1, <4>2, <3>4, <3>6, <3>7
      <4>3. PICK e \in Nat : e = ps[1] + Len(ps)  BY <3>5
      <4>4. la <= lb /\ e <= a + la  BY <3>6, <4>1, <4>3
      <4>5. e <= a + lb  BY <4>4
      <4> QED BY <4>2, <4>3, <4>5
    <3> QED BY <3>1, <3>2, <3>6, <3>7, <3>8, <3>9
  <2>3. CASE i = n + 1
    <3>1. /\ cap'.queue[i].track = t /\ cap'.queue[i].index = cap.index[t] /\ cap'.queue[i].pieces = p
          /\ cap'.index[t] = cap.index[t] + 1  BY <2>3, <1>7 DEF QueueExtends
    <3>2. s.next[t] <= cap.index[t] /\ cap.index[t] < cap'.index[t]  BY <3>1, <1>13, <1>18
    <3>3. ASSUME cap.index[t] = s.next[t]
          PROVE  p[1] = taken'[r][t][1] + Stored(r, t)
      <4>1. Stored(r, t) = Len(taken[r][t])  BY <3>3, <1>2, <1>4, <1>11 DEF QueueContinues
      <4>2. CASE taken[r][t] = <<>>
        <5>1. Len(taken[r][t]) = 0  BY <4>2
        <5> QED BY <5>1, <4>1, <4>2, <1>22, <1>24
      <4>3. CASE taken[r][t] # <<>>  BY <4>1, <4>3, <1>22, <1>23, <1>24
      <4> QED BY <4>2, <4>3
    <3> QED BY <3>1, <3>2, <3>3, <1>24
  <2> QED BY <2>1, <2>2, <2>3
<1>26. ASSUME NEW i \in Waiting', NEW j \in Waiting', cap'.queue[i].track = cap'.queue[j].track,
              cap'.queue[j].index = cap'.queue[i].index + 1
       PROVE  cap'.queue[j].pieces[1] = cap'.queue[i].pieces[1] + Len(cap'.queue[i].pieces)
  <2>1. (i \in 1 .. n \/ i = n + 1) /\ (j \in 1 .. n \/ j = n + 1)  BY <1>17
  <2>2. CASE i \in 1 .. n /\ j \in 1 .. n
    <3>1. i \in Waiting /\ j \in Waiting /\ cap'.queue[i] = cap.queue[i] /\ cap'.queue[j] = cap.queue[j]
      BY <2>2, <1>7, <1>15
    <3> QED BY <3>1, <1>11, <1>26, SMTT(30) DEF QueueContinues
  <2>3. CASE i \in 1 .. n /\ j = n + 1
    <3>1. i \in Waiting /\ cap'.queue[i] = cap.queue[i] /\ cap.queue[i].track = t
          /\ cap.index[t] = cap.queue[i].index + 1 /\ cap'.queue[j].pieces = p  BY <2>3, <1>7, <1>15, <1>26
    <3>2. cap.queue[i].pieces[1] + Len(cap.queue[i].pieces) = taken[r][t][1] + Len(taken[r][t]) /\ taken[r][t] # <<>>
      BY <3>1, <1>2, <1>11 DEF QueueContinues
    <3> QED BY <3>1, <3>2, <1>24
  <2>4. CASE i = n + 1
    <3>1. cap'.queue[i].index = cap.index[t] /\ cap'.queue[i].track = t  BY <2>4, <1>7
    <3>2. CASE j \in 1 .. n
      <4>1. j \in Waiting /\ cap.queue[j].track = t /\ cap.queue[j].index = cap.index[t] + 1
        BY <3>1, <3>2, <1>7, <1>15, <1>26
      <4>2. cap.queue[j].index < cap.index[t] /\ cap.index[t] \in Nat  BY <4>1, <1>18, <1>19
      <4> QED BY <4>1, <4>2
    <3>3. CASE j = n + 1  BY <3>1, <3>3, <2>4, <1>18, <1>26
    <3> QED BY <2>1, <3>2, <3>3
  <2> QED BY <2>1, <2>2, <2>3, <2>4
<1>27. ASSUME NEW u \in Tracks, s.next[u] = cap'.index[u]
       PROVE  Stored(r, u)' = Len(taken'[r][u])
  <2>1. u # t
    <3>1. s.next[t] <= cap.index[t] /\ cap'.index[t] = cap.index[t] + 1 /\ cap.index[t] \in Nat /\ s.next[t] \in Nat
      BY <1>13, <1>18 DEF QueueExtends
    <3> QED BY <3>1, <1>27
  <2>2. s.next[u] = cap.index[u] /\ taken'[r][u] = taken[r][u]  BY <2>1, <1>2, <1>27 DEF QueueExtends
  <2>3. Stored(r, u) = Len(taken[r][u])  BY <2>2, <1>2, <1>4, <1>11 DEF QueueContinues
  <2> QED BY <2>2, <2>3 DEF Stored, Enqueued
<1>28. QueueContinues'
  <2>1. Len(cap'.queue) = n + 1 /\ Session(r)' = s /\ cap'.request = r  BY <1>2, <1>4, <1>7
  <2>2. disk' = disk  BY DEF Enqueued
  <2>3. \A u \in Tracks : Stored(r, u) = Len(disk[r].track[u]) /\ Stored(r, u)' = Len(disk[r].track[u])
    BY <2>2 DEF Stored
  <2>4. PICK w : w = Waiting'  OBVIOUS
  <2>5. \A i, j \in 1 .. Len(cap'.queue) :
          i < j /\ cap'.queue[i].track = cap'.queue[j].track => cap'.queue[i].index < cap'.queue[j].index
    BY <2>1, <1>20
  <2>6. QueueFits(cap'.queue, w, s.next, cap'.index, taken'[r], disk[r].track)
    <3>1. \A u \in Tracks : s.next[u] <= cap'.index[u]  BY <1>18
    <3>2. \A i \in w :
            LET u == cap'.queue[i].track
            IN  /\ s.next[u] <= cap'.queue[i].index /\ cap'.queue[i].index < cap'.index[u] /\ taken'[r][u] # <<>>
                /\ cap'.queue[i].index = s.next[u] =>
                     cap'.queue[i].pieces[1] = taken'[r][u][1] + Len(disk[r].track[u])
                /\ cap'.queue[i].pieces[1] + Len(cap'.queue[i].pieces) <= taken'[r][u][1] + Len(taken'[r][u])
                /\ cap'.queue[i].index + 1 = cap'.index[u] =>
                     cap'.queue[i].pieces[1] + Len(cap'.queue[i].pieces) = taken'[r][u][1] + Len(taken'[r][u])
      <4> SUFFICES ASSUME NEW i \in Waiting'
                   PROVE  LET u == cap'.queue[i].track
                          IN  /\ s.next[u] <= cap'.queue[i].index /\ cap'.queue[i].index < cap'.index[u]
                              /\ taken'[r][u] # <<>>
                              /\ cap'.queue[i].index = s.next[u] =>
                                   cap'.queue[i].pieces[1] = taken'[r][u][1] + Len(disk[r].track[u])
                              /\ cap'.queue[i].pieces[1] + Len(cap'.queue[i].pieces)
                                   <= taken'[r][u][1] + Len(taken'[r][u])
                              /\ cap'.queue[i].index + 1 = cap'.index[u] =>
                                   cap'.queue[i].pieces[1] + Len(cap'.queue[i].pieces)
                                     = taken'[r][u][1] + Len(taken'[r][u])  BY <2>4
      <4>1. cap'.queue[i].track \in Tracks
        <5>1. i \in 1 .. n + 1  BY <1>17
        <5>2. cap'.queue[i] \in Appends  BY <5>1, <1>5, <1>7
        <5> QED BY <5>2 DEF Appends
      <4> QED BY <4>1, <1>25, <2>3
    <3>3. \A i, j \in w :
            cap'.queue[i].track = cap'.queue[j].track /\ cap'.queue[j].index = cap'.queue[i].index + 1 =>
              cap'.queue[j].pieces[1] = cap'.queue[i].pieces[1] + Len(cap'.queue[i].pieces)  BY <2>4, <1>26
    <3>4. \A u \in Tracks : s.next[u] = cap'.index[u] => Len(disk[r].track[u]) = Len(taken'[r][u])  BY <2>3, <1>27
    <3>5. \A u \in Tracks, m \in Nat :
            s.next[u] <= m /\ m < cap'.index[u] => \E i \in w : cap'.queue[i].track = u /\ cap'.queue[i].index = m
      BY <2>4, <1>21
    <3> QED BY <2>5, <3>1, <3>2, <3>3, <3>4, <3>5 DEF QueueFits
  <2>7. QueueFits(cap'.queue, Waiting', Session(cap.request)'.next, cap'.index, taken'[cap'.request],
                  disk'[cap'.request].track)  BY <2>1, <2>2, <2>4, <2>6, <1>2, <1>4
  <2> QED BY <2>1, <2>7, <1>2, <1>4 DEF QueueContinues, QueueFits, NextPiece, Stored
<1>29. HeadContinues'
  <2>1. CASE cap.queue # <<>>
    <3>1. cap'.queue # <<>> /\ cap'.queue[1] = cap.queue[1] /\ cap'.chunk = cap.chunk
      BY <2>1, <1>5, <1>7, <1>9 DEF QueueExtends
    <3> QED BY <2>1, <3>1, <1>4, <1>11, <1>12 DEF HeadContinues
  <2>2. CASE cap.queue = <<>>
    <3>1. /\ ~HeadIn' /\ s.partial = <<>> /\ cap'.chunk = 0 /\ n = 0 /\ ~HeadWhole'
          /\ cap'.queue # <<>> /\ cap'.queue[1].track = t /\ cap'.queue[1].index = cap.index[t]
      BY <2>2, <1>5, <1>7, <1>14 DEF QueueExtends, HeadWhole
    <3>2. Waiting = {}  BY <3>1, <1>17
    <3>3. s.next[t] = cap.index[t]
      <4>1. \A m \in Nat : ~(s.next[t] <= m /\ m < cap.index[t])  BY <3>2, <1>4, <1>11 DEF QueueContinues
      <4> QED BY <4>1, <1>13, <1>18
    <3> QED BY <3>1, <3>3, <1>4 DEF HeadContinues
  <2> QED BY <2>1, <2>2
<1> QED BY <1>28, <1>29

(* Enqueueing keeps the invariant. *)
LEMMA EnqueuedKeeps ==
  ASSUME CaptureInv, DOMAIN None # CapFields, NEW t \in Tracks, NEW p, Enqueued(t, p),
         SourceTypes', src'.number = src.number, src'.track[t].forwarding,
         src'.track[t].at + 1 = p[1] + Len(p),
         \A u \in Tracks : u # t => src'.track[u].forwarding = src.track[u].forwarding /\ src'.track[u].at = src.track[u].at
  PROVE  CaptureInv'
<1>1. PICK r \in C!Starts : r = cap.request  BY DEF Enqueued, CaptureInv, CaptureTypes, CapTypes
<1>2. PICK more : more = taken'[cap.request][t]  OBVIOUS
<1>3. /\ TakenExtends /\ DOMAIN taken' = C!Starts
      /\ \A q \in C!Starts : taken'[q] \in [Tracks -> Seq(Nat)]
      /\ \A u \in Tracks : u # t => taken'[cap.request][u] = taken[cap.request][u]
      /\ more # <<>> /\ more[1] + Len(more) = p[1] + Len(p) /\ Len(more) = Len(taken[cap.request][t]) + Len(p)
      /\ taken[cap.request][t] = <<>> => more[1] = p[1]  BY <1>2, EnqueuedTakes
<1>4. QueueExtends(t, p)  BY EnqueuedQueues
<1>5. GoesOn' /\ (Going' <=> Going) /\ (cap.queue # <<>> => Position' = Position)
  <2>1. Took(t, p, more)  BY <1>2, <1>3 DEF Took
  <2>2. TakenExtends  BY <1>3
  <2> QED BY <2>1, <2>2, <1>4, EnqueuedGoesOn
<1>6. /\ UNCHANGED <<page, bridge, orders, native, disk, used>> /\ cap # None /\ cap.accepting /\ cap.of = src.number
      /\ p \in Seq(Nat) /\ p # <<>> /\ InRow(p)  BY DEF Enqueued, Continues
<1>7. CaptureTypes'
  <2>1. CapTypes'  BY <1>4, <1>6 DEF QueueExtends, CaptureInv, CaptureTypes, CapTypes
  <2>2. DiskTypes'  BY <1>3, <1>6 DEF CaptureInv, CaptureTypes, DiskTypes
  <2> QED BY <2>1, <2>2, <1>6 DEF CaptureInv, CaptureTypes, BridgeTypes, NativeTypes, PageTypes
<1>8. C!StoredInOrder'
  <2> SUFFICES ASSUME NEW q \in C!Starts, NEW u \in Tracks
               PROVE  /\ C!Whole(taken'[q][u]) /\ C!IsPrefixOf(disk[q].track[u], taken'[q][u])
                      /\ disk[q].state = "saved" => disk[q].track[u] = taken'[q][u]
    BY <1>6 DEF C!StoredInOrder, C!Whole, C!IsPrefixOf
  <2>1. /\ C!IsPrefixOf(disk[q].track[u], taken[q][u])
        /\ disk[q].state = "saved" => disk[q].track[u] = taken[q][u]  BY DEF CaptureInv, C!StoredInOrder
  <2>2. C!Whole(taken'[q][u])  BY <1>3 DEF TakenExtends
  <2>3. C!IsPrefixOf(disk[q].track[u], taken'[q][u])
    <3>1. PICK d \in Seq(Nat) : d = disk[q].track[u]  BY DEF CaptureInv, CaptureTypes, DiskTypes
    <3>2. PICK a \in Nat, b \in Nat : a = Len(taken[q][u]) /\ b = Len(taken'[q][u])  BY <1>3 DEF TakenExtends
    <3>3. a <= b /\ \A i \in 1 .. a : taken'[q][u][i] = taken[q][u][i]  BY <3>2, <1>3 DEF TakenExtends
    <3>4. Len(d) <= a /\ \A i \in 1 .. Len(d) : d[i] = taken[q][u][i]  BY <2>1, <3>1, <3>2 DEF C!IsPrefixOf
    <3>5. Len(d) <= b /\ \A i \in 1 .. Len(d) : d[i] = taken'[q][u][i]  BY <3>1, <3>3, <3>4
    <3> QED BY <3>1, <3>2, <3>5 DEF C!IsPrefixOf
  <2>4. disk[q].state = "saved" => disk[q].track[u] = taken'[q][u]
    <3>1. disk[cap.request].state # "saved"  BY <1>6 DEF CaptureInv, CaptureOK, CaptureFlags
    <3> QED BY <2>1, <3>1, <1>3 DEF TakenExtends
  <2> QED BY <2>2, <2>3, <2>4
<1>9. SessionOK'
  <2>1. PICK s : s = native.session  OBVIOUS
  <2>2. ASSUME s.partial # <<>>
        PROVE  LET u == s.partial[1].track
               IN  /\ Len(disk[native.rec].track[u]) + Len(s.partial) <= Len(taken'[native.rec][u])
                   /\ \A i \in 1 .. Len(s.partial) :
                        s.partial[i].track = u
                        /\ s.partial[i].piece = taken'[native.rec][u][1] + Len(disk[native.rec].track[u]) + i - 1
    <3>1. native.rec \in C!Starts  BY <2>1, <2>2 DEF CaptureInv, CaptureTypes, NativeTypes, SessionOK, C!NoSession
    <3>2. s.partial \in Seq([track : Tracks, piece : Nat])  BY <2>1 DEF CaptureInv, CaptureTypes, NativeTypes
    <3>3. PICK u \in Tracks : u = s.partial[1].track
      <4>1. PICK T : T = [track : Tracks, piece : Nat]  OBVIOUS
      <4>2. s.partial \in Seq(T) /\ s.partial # <<>>  BY <2>2, <3>2, <4>1
      <4>3. s.partial[1] \in T  BY <4>2
      <4> QED BY <4>1, <4>3
    <3>4. PICK d \in Seq(Nat), all \in Seq(Nat), k \in Nat :
            d = disk[native.rec].track[u] /\ all = taken[native.rec][u] /\ k = Len(s.partial)
      BY <3>1, <3>2 DEF CaptureInv, CaptureTypes, DiskTypes
    <3>5. /\ Len(d) + k <= Len(all)
          /\ \A i \in 1 .. k : s.partial[i].track = u /\ s.partial[i].piece = all[1] + Len(d) + i - 1
      BY <2>1, <2>2, <3>3, <3>4 DEF CaptureInv, SessionOK, Stored, NextPiece
    <3>6. k >= 1 /\ all # <<>>
      <4>1. k >= 1  BY <2>2, <3>2, <3>4
      <4>2. Len(d) \in Nat /\ Len(all) \in Nat  OBVIOUS
      <4>3. Len(all) >= 1  BY <3>5, <4>1, <4>2
      <4> QED BY <4>1, <4>3
    <3>7. taken'[native.rec][u][1] = all[1] /\ Len(all) <= Len(taken'[native.rec][u]) /\ Len(taken'[native.rec][u]) \in Nat
      BY <3>1, <3>4, <3>6, <1>3 DEF TakenExtends
    <3>8. Len(d) + k <= Len(taken'[native.rec][u])
      <4>1. PICK a \in Nat, b \in Nat, c \in Nat : a = Len(d) /\ b = Len(all) /\ c = Len(taken'[native.rec][u])
        BY <3>7
      <4>2. a + k <= b /\ b <= c  BY <4>1, <3>5, <3>7
      <4> QED BY <4>1, <4>2
    <3> QED BY <3>3, <3>4, <3>5, <3>7, <3>8
  <2>3. SessionOK  BY DEF CaptureInv
  <2> QED BY <2>1, <2>2, <2>3, <1>6 DEF SessionOK, Stored, NextPiece
<1>10. CaptureFlags'
  <2>1. Len(p) >= 1 /\ Len(p) \in Nat /\ cap.queue \in Seq(Appends) /\ cap'.queue \in Seq(Appends)
    BY <1>4, <1>6 DEF CaptureInv, CaptureTypes, CapTypes, QueueExtends
  <2>2. cap'.queue # <<>> /\ (cap.queue # <<>> => cap'.queue[1] = cap.queue[1]) /\ (cap.queue = <<>> => cap'.queue[1].pieces = p)
    BY <2>1, <1>4 DEF QueueExtends
  <2>3. Session(cap.request)' = Session(cap.request)  BY <1>4, <1>6 DEF QueueExtends, Session
  <2>4. cap.queue # <<>> => (HeadIn' <=> HeadIn)  BY <2>3, <1>5 DEF HeadIn
  <2>5. CaptureFlags  BY DEF CaptureInv, CaptureOK
  <2> QED BY <2>1, <2>2, <2>4, <2>5, <1>4, <1>5, <1>6 DEF CaptureFlags, QueueExtends
<1>11. QueueInRow'
  <2>1. PICK n \in Nat : n = Len(cap.queue)  BY <1>6 DEF CaptureInv, CaptureTypes, CapTypes
  <2>2. \A i \in 1 .. n : InRow(cap.queue[i].pieces)  BY <2>1, <1>6 DEF CaptureInv, CaptureOK, QueueInRow
  <2>3. /\ Len(cap'.queue) = n + 1 /\ cap'.queue[n + 1].pieces = p
        /\ \A i \in 1 .. n : cap'.queue[i] = cap.queue[i]  BY <2>1, <1>4 DEF QueueExtends
  <2>4. \A i \in 1 .. n + 1 : InRow(cap'.queue[i].pieces)
    <3> SUFFICES ASSUME NEW i \in 1 .. n + 1
                 PROVE  InRow(cap'.queue[i].pieces)  OBVIOUS
    <3>1. i \in 1 .. n \/ i = n + 1  OBVIOUS
    <3> QED BY <3>1, <2>2, <2>3, <1>6
  <2> QED BY <2>3, <2>4 DEF QueueInRow, InRow
<1>12. Taking'
  <2> SUFFICES ASSUME NEW u \in Tracks
               PROVE  /\ taken'[r][u] = <<>> => ~src'.track[u].forwarding
                      /\ taken'[r][u] # <<>> => src'.track[u].forwarding /\ taken'[r][u][1] + Len(taken'[r][u]) = src'.track[u].at + 1
    BY <1>1, <1>4 DEF Taking, QueueExtends
  <2>1. CASE u = t  BY <2>1, <1>1, <1>2, <1>3
  <2>2. CASE u # t  BY <2>2, <1>1, <1>3, <1>6 DEF CaptureInv, CaptureOK, Taking
  <2> QED BY <2>1, <2>2
<1>13. BridgeOK'
  <2>1. OneChunk'  BY <1>6 DEF CaptureInv, BridgeOK, OneChunk
  <2>2. ASSUME NEW i \in 1 .. Len(bridge)
        PROVE  LiveOK(i)' /\ MessageOK(bridge[i])'
    <3>1. PICK m : m = bridge[i]  OBVIOUS
    <3>2. LiveOK(i) /\ MessageOK(m) /\ m.recording \in C!Starts
      BY <3>1 DEF CaptureInv, CaptureTypes, BridgeTypes, BridgeOK
    <3>3. LiveOK(i)'
      <4>1. cap.queue # <<>> => cap'.queue # <<>>  BY <1>4, <1>6 DEF QueueExtends, CaptureInv, CaptureTypes, CapTypes
      <4> QED BY <3>2, <4>1, <1>4, <1>6 DEF LiveOK, QueueExtends
    <3>4. ASSUME m.kind = "append", cap.request = m.recording, ~cap.failed
          PROVE  /\ cap'.begun /\ cap'.queue # <<>> /\ Receipt(m) = Position'
                 /\ m.piece = cap'.queue[1].pieces[cap'.chunk + 1]
                 /\ m.last <=> cap'.chunk + 1 = Len(cap'.queue[1].pieces)
      <4>1. /\ cap.begun /\ cap.queue # <<>> /\ Receipt(m) = Position
            /\ m.piece = cap.queue[1].pieces[cap.chunk + 1]
            /\ m.last <=> cap.chunk + 1 = Len(cap.queue[1].pieces)  BY <3>2, <3>4, <1>6 DEF MessageOK, ChunkOK
      <4>2. cap'.queue # <<>> /\ cap'.queue[1] = cap.queue[1]
        BY <4>1, <1>4, <1>6 DEF QueueExtends, CaptureInv, CaptureTypes, CapTypes
      <4> QED BY <4>1, <4>2, <1>4, <1>5 DEF QueueExtends
    <3>5. ASSUME m.kind = "append", native.rec = m.recording, native.session.previous # Receipt(m), Expected(m)
          PROVE  /\ Len(disk[m.recording].track[m.track]) + Len(native.session.partial) < Len(taken'[m.recording][m.track])
                 /\ m.piece = taken'[m.recording][m.track][1] + Len(disk[m.recording].track[m.track])
                                + Len(native.session.partial)
      <4>1. m.track \in Tracks  BY <3>2, <3>5 DEF MessageOK, FitOK
      <4>2. PICK d \in Seq(Nat), all \in Seq(Nat) : d = disk[m.recording].track[m.track] /\ all = taken[m.recording][m.track]
        BY <3>2, <4>1 DEF CaptureInv, CaptureTypes, DiskTypes
      <4>3. PICK k \in Nat : k = Len(native.session.partial)  BY DEF CaptureInv, CaptureTypes, NativeTypes
      <4>4. Len(d) + k < Len(all) /\ m.piece = all[1] + Len(d) + k
        BY <3>2, <3>5, <4>2, <4>3 DEF MessageOK, FitOK, Stored, NextPiece
      <4>5. PICK a \in Nat, b \in Nat : a = Len(d) /\ b = Len(all)  OBVIOUS
      <4>6. a + k < b /\ all # <<>>
        <5>1. a + k < b  BY <4>4, <4>5
        <5>2. b # 0  BY <5>1
        <5> QED BY <5>1, <5>2, <4>5
      <4>7. PICK c \in Nat : c = Len(taken'[m.recording][m.track]) /\ b <= c /\ taken'[m.recording][m.track][1] = all[1]
        <5>1. /\ Len(taken'[m.recording][m.track]) \in Nat
              /\ Len(taken'[m.recording][m.track]) >= Len(taken[m.recording][m.track])
              /\ taken[m.recording][m.track] # <<>> => taken'[m.recording][m.track][1] = taken[m.recording][m.track][1]
          BY <3>2, <4>1, <1>3, ZenonT(30) DEF TakenExtends
        <5> QED BY <5>1, <4>2, <4>5, <4>6
      <4>8. a + k < c  BY <4>6, <4>7
      <4> QED BY <4>2, <4>3, <4>4, <4>5, <4>7, <4>8
    <3>6. FinishOK(m)'
      <4>1. m.kind = "finish" /\ ~m.interrupted => cap.request # m.recording  BY <3>2, <1>6 DEF MessageOK, FinishOK
      <4>2. cap.request # m.recording => \A u \in Tracks : taken'[m.recording][u] = taken[m.recording][u]
        BY <3>2, <1>3 DEF TakenExtends
      <4> QED BY <3>2, <4>1, <4>2, <1>4, <1>6 DEF MessageOK, FinishOK, Stored, QueueExtends
    <3>7. ChunkOK(m)'  BY <3>4, <1>4, <1>6 DEF ChunkOK, QueueExtends, Receipt
    <3>8. FitOK(m)'  BY <3>2, <3>5, <1>6 DEF FitOK, MessageOK, Stored, NextPiece, Expected, Receipt
    <3>9. MessageOK(m)'  BY <3>2, <3>6, <3>7, <3>8, <1>6 DEF MessageOK
    <3> QED BY <3>1, <3>3, <3>9, <1>6 DEF MessageOK, ChunkOK, FitOK, FinishOK, Receipt, Expected
  <2> QED BY <2>1, <2>2, <1>6 DEF BridgeOK
<1>14. StartsOK' /\ PageOK'
  <2>1. ASSUME NEW q \in C!Starts, Fresh(q)
        PROVE  Fresh(q)'
    <3>1. q # cap.request  BY <2>1, <1>6 DEF Fresh
    <3>2. \A u \in Tracks : taken'[q][u] = <<>>
      <4>1. \A u \in Tracks : taken'[q][u] = taken[q][u]  BY <3>1, <1>3 DEF TakenExtends
      <4>2. \A u \in Tracks : taken[q][u] = <<>>  BY <2>1 DEF Fresh
      <4> QED BY <4>1, <4>2
    <3>3. cap'.request # q  BY <3>1, <1>4 DEF QueueExtends
    <3> QED BY <2>1, <3>2, <3>3, <1>6 DEF Fresh
  <2>2. StartsOK'  BY <2>1, <1>4, <1>6, SMTT(30) DEF CaptureInv, StartsOK, CaptureTypes, PageTypes, QueueExtends
  <2> QED BY <2>2, <1>4, <1>6 DEF CaptureInv, PageOK, QueueExtends
<1> QED BY <1>5, <1>7, <1>8, <1>9, <1>10, <1>11, <1>12, <1>13, <1>14 DEF CaptureInv, CaptureOK

(* The page hears a media segment. *)
LEMMA ObserveMediaKeeps ==
  ASSUME CaptureInv, DOMAIN None # CapFields, NEW t \in Tracks, NEW n \in 1 .. 2, C!ObserveMedia(t, n)
  PROVE  CaptureInv'
<1>1. DOMAIN src.track[t] = {"at", "init", "awaiting", "forwarding", "blocked"} /\ src.track[t].at \in Nat
      /\ src.number \in Nat /\ DOMAIN src = {"number", "closed", "track"} /\ DOMAIN src.track = Tracks
  BY DEF CaptureInv, CaptureTypes, SourceTypes
<1>2. UNCHANGED <<bridge, native, disk, page, orders, used>>  BY DEF C!ObserveMedia
<1>3. CASE src.track[t].awaiting
  <2>1. taken' = taken /\ (cap' = cap \/ (cap # None /\ cap' = C!Failure(cap)))
    BY <1>3 DEF C!ObserveMedia, C!FailMine, C!Mine, C!Recording
  <2>2. PICK s : s = [src.track[t] EXCEPT !.blocked = TRUE]  OBVIOUS
  <2>3. src' = [src EXCEPT !.track[t] = s]  BY <1>1, <1>3, <2>2 DEF C!ObserveMedia
  <2>4. /\ DOMAIN s = {"at", "init", "awaiting", "forwarding", "blocked"}
        /\ s.at = src.track[t].at /\ s.forwarding = src.track[t].forwarding  BY <1>1, <2>2
  <2>5. /\ SourceTypes' /\ src'.number = src.number /\ src'.track[t] = s
        /\ \A u \in Tracks : u # t => src'.track[u] = src.track[u]  BY <1>1, <2>3, <2>4, TrackChanges
  <2> QED BY <1>1, <1>2, <2>1, <2>4, <2>5, ObserverKeeps
<1>4. CASE ~src.track[t].awaiting
  <2>1. PICK p : p = [i \in 1 .. n |-> src.track[t].at + i]  OBVIOUS
  <2>2. PICK current \in BOOLEAN : current = (C!Mine /\ cap.accepting)  OBVIOUS
  <2>3. PICK out : out = IF current THEN C!Forwarded(t, p) ELSE <<>>  OBVIOUS
  <2>4. PICK s : s = [src.track[t] EXCEPT !.at = src.track[t].at + n,
                        !.forwarding = IF \E i \in 1 .. n : C!Odd(p[i]) THEN current ELSE @]  OBVIOUS
  <2>5. /\ DOMAIN s = {"at", "init", "awaiting", "forwarding", "blocked"}
        /\ s.at = src.track[t].at + n /\ s.at \in Nat
        /\ s.forwarding = (IF \E i \in 1 .. n : C!Odd(p[i]) THEN current ELSE src.track[t].forwarding)
    BY <1>1, <2>4
  <2>6. src' = [src EXCEPT !.track[t].at = src.track[t].at + n,
                           !.track[t].forwarding = IF \E i \in 1 .. n : C!Odd(p[i]) THEN current ELSE @]
    BY <1>4, <2>1, <2>2 DEF C!ObserveMedia
  <2>7. src' = [src EXCEPT !.track[t] = s]  BY <1>1, <2>4, <2>6
  <2>8. /\ SourceTypes' /\ src'.number = src.number /\ src'.track[t] = s
        /\ \A u \in Tracks : u # t => src'.track[u] = src.track[u]  BY <2>5, <2>7, TrackChanges
  <2>9. IF out = <<>> THEN UNCHANGED <<cap, taken>> ELSE C!Enqueue(t, out)
    BY <1>4, <2>1, <2>2, <2>3 DEF C!ObserveMedia
  <2>10. out # <<>> => current  BY <2>3
  <2>11. current => cap # None /\ cap.accepting /\ cap.of = src.number  BY <2>2 DEF C!Mine, C!Recording
  <2>12. PICK all : all = taken[cap.request][t]  OBVIOUS
  <2>13. ASSUME current
         PROVE  /\ out # <<>> => /\ Continues(all, out) /\ out[1] + Len(out) = src.track[t].at + n + 1
                                 /\ src.track[t].forwarding \/ \E i \in 1 .. n : C!Odd(p[i])
                /\ out = <<>> => all = <<>> /\ ~\E i \in 1 .. n : C!Odd(p[i])
    <3>1. out = C!Forwarded(t, p)  BY <2>3, <2>13
    <3>2. p \in Seq(Nat) /\ Len(p) = n /\ \A i \in 1 .. n : p[i] = src.track[t].at + i
      <4>1. PICK at \in Nat : at = src.track[t].at  BY <1>1
      <4> QED BY <2>1, <4>1
    <3>3. TakesOut(t, n, p, out, all)  BY <3>1, <3>2, <2>11, <2>12, <2>13, ForwardedIs
    <3> QED BY <3>3 DEF TakesOut
  <2>14. CASE out = <<>>
    <3>1. cap' = cap /\ taken' = taken  BY <2>9, <2>14
    <3>2. Taking'
      <4> SUFFICES ASSUME cap # None, cap.accepting, cap.of = src.number, NEW u \in Tracks
                   PROVE  /\ taken[cap.request][u] = <<>> => ~src'.track[u].forwarding
                          /\ taken[cap.request][u] # <<>> =>
                               src'.track[u].forwarding
                               /\ taken[cap.request][u][1] + Len(taken[cap.request][u]) = src'.track[u].at + 1
        BY <3>1, <2>8 DEF Taking
      <4>1. current  BY <2>2 DEF C!Mine, C!Recording
      <4>2. /\ taken[cap.request][u] = <<>> => ~src.track[u].forwarding
            /\ taken[cap.request][u] # <<>> =>
                 src.track[u].forwarding
                 /\ taken[cap.request][u][1] + Len(taken[cap.request][u]) = src.track[u].at + 1
        BY DEF CaptureInv, CaptureOK, Taking
      <4>3. CASE u = t
        <5>1. all = <<>> /\ ~\E i \in 1 .. n : C!Odd(p[i])  BY <4>1, <2>13, <2>14
        <5> QED BY <4>2, <4>3, <5>1, <2>5, <2>8, <2>12
      <4>4. CASE u # t  BY <4>2, <4>4, <2>8
      <4> QED BY <4>3, <4>4
    <3>3. cap # None => SameCapture /\ cap'.sent = cap.sent /\ cap'.reply = cap.reply
                        /\ (cap'.stopping \/ cap'.drained => ~cap'.accepting)
      BY <3>1 DEF SameCapture, CaptureInv, CaptureTypes, CapTypes, CaptureOK, CaptureFlags
    <3> QED BY <1>1, <1>2, <2>8, <3>1, <3>2, <3>3, OrdersStay, QuietKeeps
  <2>15. CASE out # <<>> /\ Len(cap.queue) >= MaxQueue
    <3>1. cap' = C!Failure(cap) /\ taken' = taken /\ cap # None  BY <2>9, <2>10, <2>11, <2>15 DEF C!Enqueue
    <3>2. SameCapture /\ cap'.sent = cap.sent /\ cap'.reply = cap.reply /\ ~cap'.accepting
      BY <3>1, FailureIs DEF SameCapture
    <3>3. Taking'  BY <3>2 DEF Taking
    <3> QED BY <1>1, <1>2, <2>8, <3>1, <3>2, <3>3, OrdersStay, QuietKeeps
  <2>16. CASE out # <<>> /\ ~(Len(cap.queue) >= MaxQueue)
    <3>1. Enqueued(t, out)  BY <1>2, <2>9, <2>10, <2>11, <2>12, <2>13, <2>16 DEF C!Enqueue, Enqueued
    <3>2. src'.track[t].forwarding  BY <2>5, <2>8, <2>10, <2>13, <2>16
    <3>3. src'.track[t].at + 1 = out[1] + Len(out)
      <4>1. out[1] + Len(out) = src.track[t].at + n + 1  BY <2>10, <2>13, <2>16
      <4> QED BY <4>1, <1>1, <2>5, <2>8
    <3> QED BY <2>8, <3>1, <3>2, <3>3, EnqueuedKeeps
  <2> QED BY <2>14, <2>15, <2>16
<1> QED BY <1>3, <1>4

(* A step that leaves the native end alone leaves every session. *)
LEMMA SessionStays ==
  ASSUME SessionOK, UNCHANGED <<native, disk, taken>>
  PROVE  SessionOK'  BY DEF SessionOK, Stored, NextPiece

(* Only the page's own account and the commands to it change. *)
LEMMA PageKeeps ==
  ASSUME CaptureInv, UNCHANGED <<src, cap, bridge, native, disk, taken, used>>, OrdersFollow,
         DOMAIN page' = {"request", "preparing", "detail"}, page'.preparing \in C!Starts \cup {0},
         page'.preparing # 0 =>
           /\ cap = None /\ Fresh(page'.preparing) /\ page'.preparing <= used.starts
           /\ \A i \in 1 .. Len(orders') : orders'[i] # page'.preparing,
         cap # None => page'.request = cap.request,
         page'.detail = "saved" => page'.detail = page.detail /\ page'.request = page.request
  PROVE  CaptureInv'
<1>0. /\ src' = src /\ cap' = cap /\ bridge' = bridge /\ native' = native
      /\ disk' = disk /\ taken' = taken /\ used' = used  OBVIOUS
<1>1. CaptureTypes'
  BY DEF CaptureInv, CaptureTypes, SourceTypes, CapTypes, BridgeTypes, NativeTypes, DiskTypes, PageTypes, OrdersFollow
<1>2. SessionOK'  BY <1>0, SessionStays DEF CaptureInv
<1>3. C!StoredInOrder'  BY <1>0 DEF CaptureInv, C!StoredInOrder
<1>4. GoesOn' /\ (Going' <=> Going) /\ (cap # None => (HeadIn' <=> HeadIn))
  <2>1. CASE cap = None  BY <1>0, <2>1 DEF GoesOn, Going
  <2>2. CASE cap # None
    <3>1. SameCapture  BY <1>0, <2>2 DEF SameCapture, CaptureInv, CaptureTypes, CapTypes
    <3> QED BY <1>0, <3>1, GoesOnStays DEF CaptureInv, CaptureOK, SameCapture
  <2> QED BY <2>1, <2>2
<1>5. CaptureOK'
  <2>1. CaptureFlags'  BY <1>0, <1>4 DEF CaptureInv, CaptureOK, CaptureFlags
  <2>2. QueueInRow' /\ Taking'  BY <1>0 DEF CaptureInv, CaptureOK, QueueInRow, Taking
  <2> QED BY <1>4, <2>1, <2>2 DEF CaptureOK
<1>6. BridgeOK'
  <2>1. ASSUME NEW i \in 1 .. Len(bridge)
        PROVE  LiveOK(i)' /\ MessageOK(bridge[i])'
    <3>1. LiveOK(i) /\ MessageOK(bridge[i])  BY DEF CaptureInv, BridgeOK
    <3>2. LiveOK(i)'  BY <1>0, <3>1 DEF LiveOK
    <3>3. ChunkOK(bridge[i])'  BY <1>0, <3>1 DEF MessageOK, ChunkOK, Position
    <3>4. FitOK(bridge[i])'  BY <1>0, <3>1 DEF MessageOK, FitOK, Expected, Stored, NextPiece
    <3>5. FinishOK(bridge[i])'  BY <1>0, <3>1 DEF MessageOK, FinishOK, Stored
    <3> QED BY <1>0, <3>1, <3>2, <3>3, <3>4, <3>5 DEF MessageOK
  <2> QED BY <1>0, <2>1 DEF CaptureInv, BridgeOK, OneChunk
<1>7. \A q : Fresh(q) => Fresh(q)'  BY <1>0 DEF Fresh
<1>8. StartsOK'  BY <1>0, <1>7 DEF CaptureInv, StartsOK, OrdersFollow
<1>9. PageOK'  BY <1>0 DEF CaptureInv, PageOK
<1> QED BY <1>1, <1>2, <1>3, <1>5, <1>6, <1>8, <1>9 DEF CaptureInv

(* A capture begins. *)
LEMMA CaptureBegins ==
  ASSUME CaptureInv, DOMAIN None # CapFields, NEW r \in C!Starts, Fresh(r), r <= used.starts,
         cap = None, C!StartEncoded(r), OrdersFollow, \A i \in 1 .. Len(orders') : orders'[i] # r,
         UNCHANGED <<bridge, native, disk, taken, used>>
  PROVE  CaptureInv'
<1>1. /\ DOMAIN src = {"number", "closed", "track"} /\ DOMAIN src.track = Tracks /\ src.number \in Nat
      /\ DOMAIN page = {"request", "preparing", "detail"}
  BY DEF CaptureInv, CaptureTypes, SourceTypes, PageTypes
<1>2. CASE ~C!Candidate
  <2>1. page' = [page EXCEPT !.request = r, !.preparing = 0, !.detail = "original_unavailable"] /\ UNCHANGED <<cap, src>>
    BY <1>2 DEF C!StartEncoded
  <2>2. /\ DOMAIN page' = {"request", "preparing", "detail"} /\ page'.preparing = 0
        /\ page'.detail = "original_unavailable"  BY <1>1, <2>1
  <2> QED BY <2>1, <2>2, PageKeeps
<1>3. CASE C!Candidate
  <2>1. /\ page' = [page EXCEPT !.request = r, !.preparing = 0, !.detail = "starting"]
        /\ src' = [src EXCEPT !.track = [t \in Tracks |-> [src.track[t] EXCEPT !.forwarding = FALSE]]]
        /\ cap' = [request |-> r, of |-> src.number, begun |-> FALSE, accepting |-> TRUE, stopping |-> FALSE,
                   interrupted |-> FALSE, failed |-> FALSE, drained |-> FALSE, index |-> C!EachTrack(0),
                   queue |-> <<>>, chunk |-> 0, try |-> 1, sent |-> FALSE, reply |-> "none"]
    BY <1>3 DEF C!StartEncoded
  <2>2. /\ DOMAIN page' = {"request", "preparing", "detail"} /\ page'.preparing = 0 /\ page'.request = r
        /\ page'.detail = "starting"  BY <1>1, <2>1
  <2>3. /\ DOMAIN cap' = CapFields /\ cap'.request = r /\ cap'.of = src.number /\ ~cap'.begun /\ ~cap'.stopping
        /\ ~cap'.failed /\ ~cap'.drained /\ cap'.index = C!EachTrack(0) /\ cap'.queue = <<>> /\ cap'.chunk = 0
        /\ ~cap'.sent /\ cap'.reply = "none"  BY <2>1 DEF CapFields
  <2>4. cap' # None  BY <2>3
  <2>5. /\ DOMAIN src' = {"number", "closed", "track"} /\ src'.number = src.number /\ DOMAIN src'.track = Tracks
        /\ \A t \in Tracks : src'.track[t] = [src.track[t] EXCEPT !.forwarding = FALSE]  BY <1>1, <2>1
  <2>6. \A t \in Tracks : /\ DOMAIN src'.track[t] = {"at", "init", "awaiting", "forwarding", "blocked"}
                          /\ src'.track[t].at \in Nat /\ ~src'.track[t].forwarding
    BY <2>5 DEF CaptureInv, CaptureTypes, SourceTypes
  <2>7. CaptureTypes'
    <3>1. SourceTypes'  BY <1>1, <2>5, <2>6 DEF SourceTypes
    <3>2. CapTypes'  BY <1>1, <2>3, <2>5 DEF CapTypes, C!EachTrack
    <3>3. PageTypes'  BY <2>2 DEF CaptureInv, CaptureTypes, PageTypes, OrdersFollow
    <3> QED BY <3>1, <3>2, <3>3 DEF CaptureInv, CaptureTypes, BridgeTypes, NativeTypes, DiskTypes
  <2>8. SessionOK' /\ C!StoredInOrder'  BY DEF CaptureInv, SessionOK, Stored, NextPiece, C!StoredInOrder
  <2>9. /\ disk[r].state = "none" /\ native.rec # r
        /\ \A t \in Tracks : taken[r][t] = <<>> /\ disk[r].track[t] = <<>>
    BY DEF CaptureInv, SessionOK, Fresh
  <2>10. Session(r)' = C!NoSession  BY <2>9 DEF Session
  <2>11. GoesOn'
    <3>1. \A t \in Tracks : C!NoSession.next[t] = 0 /\ C!EachTrack(0)[t] = 0  BY DEF C!NoSession, C!EachTrack
    <3>2. C!NoSession.partial = <<>>  BY DEF C!NoSession
    <3>3. Waiting' = {}  BY <2>3 DEF Waiting
    <3>4. \A t \in Tracks : Stored(r, t)' = 0 /\ Len(taken[r][t]) = 0  BY <2>9 DEF Stored
    <3>5. QueueContinues'  BY <2>3, <2>10, <3>1, <3>3, <3>4 DEF QueueContinues
    <3>6. HeadContinues'  BY <2>3, <2>10, <3>2 DEF HeadContinues
    <3> QED BY <3>5, <3>6 DEF GoesOn
  <2>12. CaptureFlags'  BY <2>3, <2>9 DEF CaptureFlags
  <2>13. QueueInRow' /\ Taking'  BY <2>3, <2>5, <2>6, <2>9 DEF QueueInRow, Taking
  <2>14. BridgeOK'
    <3>1. OneChunk'  BY DEF CaptureInv, BridgeOK, OneChunk
    <3>2. ASSUME NEW i \in 1 .. Len(bridge)
          PROVE  LiveOK(i)' /\ MessageOK(bridge[i])'
      <4>1. LiveOK(i) /\ MessageOK(bridge[i]) /\ bridge[i].recording # r  BY DEF CaptureInv, BridgeOK, Fresh
      <4>2. LiveOK(i)'  BY <4>1 DEF LiveOK
      <4>3. ChunkOK(bridge[i])' /\ FinishOK(bridge[i])'  BY <4>1, <2>3 DEF MessageOK, ChunkOK, FinishOK, Stored
      <4>4. FitOK(bridge[i])'  BY <4>1 DEF MessageOK, FitOK, Expected, Stored, NextPiece
      <4> QED BY <4>1, <4>2, <4>3, <4>4 DEF MessageOK
    <3> QED BY <3>1, <3>2 DEF BridgeOK
  <2>15. StartsOK'
    <3>1. \A q : Fresh(q) /\ q # r => Fresh(q)'  BY <2>3 DEF Fresh
    <3>2. \A q \in C!Starts : q > used.starts => q # r  BY DEF CaptureInv, CaptureTypes, PageTypes, C!Starts
    <3>3. \A q \in C!Starts : q > used.starts => Fresh(q)'  BY <3>1, <3>2 DEF CaptureInv, StartsOK
    <3> QED BY <2>2, <3>1, <3>3 DEF CaptureInv, StartsOK, OrdersFollow
  <2>16. PageOK'  BY <2>2, <2>3 DEF PageOK
  <2> QED BY <2>7, <2>8, <2>11, <2>12, <2>13, <2>14, <2>15, <2>16 DEF CaptureInv, CaptureOK
<1> QED BY <1>2, <1>3

(* The page takes a start and prepares its capture. *)
LEMMA StartKeeps ==
  ASSUME CaptureInv, DOMAIN None # CapFields, C!StartArrives \/ \E ready \in BOOLEAN : C!PrepareEnds(ready)
  PROVE  CaptureInv'
<1>1. UNCHANGED <<bridge, native, disk, taken, used>>  BY DEF C!StartArrives, C!PrepareEnds
<1>2. /\ DOMAIN page = {"request", "preparing", "detail"} /\ page.preparing \in C!Starts \cup {0}
      /\ page.preparing # 0 => cap = None /\ Fresh(page.preparing) /\ page.preparing <= used.starts
      /\ cap # None => page.request = cap.request
  BY DEF CaptureInv, CaptureTypes, PageTypes, StartsOK, PageOK
<1>3. CASE C!StartArrives
  <2>1. orders # <<>> /\ Head(orders) # 0 /\ orders' = Tail(orders)  BY <1>3 DEF C!StartArrives
  <2>2. PICK r \in C!Starts : r = orders[1] /\ r = Head(orders)  BY <2>1, OrdersDrop
  <2>3. OrdersFollow /\ \A i \in 1 .. Len(orders') : orders'[i] # r  BY <2>1, <2>2, OrdersDrop
  <2>4. Fresh(r) /\ r <= used.starts /\ r # page.preparing
    <3>1. 1 \in 1 .. Len(orders)  BY <2>1 DEF CaptureInv, CaptureTypes, PageTypes
    <3> QED BY <2>1, <2>2, <3>1 DEF CaptureInv, StartsOK
  <2>5. CASE C!Busy /\ UNCHANGED <<src, cap, page>>
    <3>1. page.preparing # 0 => \A i \in 1 .. Len(orders') : orders'[i] # page.preparing  BY <2>3 DEF OrdersFollow
    <3> QED BY <1>1, <1>2, <2>3, <2>5, <3>1, PageKeeps
  <2>6. CASE ~C!Busy /\ C!StartEncoded(Head(orders))
    <3>1. cap = None  BY <2>6 DEF C!Busy, C!Recording
    <3> QED BY <1>1, <2>2, <2>3, <2>4, <2>6, <3>1, CaptureBegins
  <2>7. CASE /\ ~C!Busy /\ page' = [request |-> Head(orders), preparing |-> Head(orders), detail |-> "starting"]
             /\ UNCHANGED <<src, cap>>
    <3>1. cap = None /\ page'.preparing = r /\ page'.detail = "starting"
          /\ DOMAIN page' = {"request", "preparing", "detail"}  BY <2>2, <2>7 DEF C!Busy, C!Recording
    <3> QED BY <1>1, <2>3, <2>4, <2>7, <3>1, PageKeeps
  <2> QED BY <1>3, <2>5, <2>6, <2>7 DEF C!StartArrives
<1>4. CASE \E ready \in BOOLEAN : C!PrepareEnds(ready)
  <2>1. PICK ready \in BOOLEAN : C!PrepareEnds(ready)  BY <1>4
  <2>2. page.preparing # 0 /\ orders' = orders  BY <2>1 DEF C!PrepareEnds
  <2>3. PICK r \in C!Starts : r = page.preparing  BY <1>2, <2>2
  <2>4. OrdersFollow /\ \A i \in 1 .. Len(orders') : orders'[i] # r
    <3>1. OrdersFollow  BY <2>2, OrdersStay
    <3> QED BY <2>2, <2>3, <3>1 DEF OrdersFollow
  <2>5. CASE ready  BY <1>1, <1>2, <2>1, <2>2, <2>3, <2>4, <2>5, CaptureBegins DEF C!PrepareEnds
  <2>6. CASE ~ready
    <3>1. page' = [page EXCEPT !.preparing = 0, !.detail = "unavailable"] /\ UNCHANGED <<src, cap>>
      BY <2>1, <2>6 DEF C!PrepareEnds
    <3>2. DOMAIN page' = {"request", "preparing", "detail"} /\ page'.preparing = 0 /\ page'.detail = "unavailable"
      BY <1>2, <3>1
    <3> QED BY <1>1, <1>2, <2>2, <2>4, <3>1, <3>2, PageKeeps
  <2> QED BY <2>5, <2>6
<1> QED BY <1>3, <1>4

(* The page is told to stop. *)
LEMMA StopKeeps ==
  ASSUME CaptureInv, DOMAIN None # CapFields, C!StopArrives
  PROVE  CaptureInv'
<1>1. orders # <<>> /\ orders' = Tail(orders) /\ UNCHANGED <<src, bridge, native, disk, taken, used>>
  BY DEF C!StopArrives
<1>2. OrdersFollow  BY <1>1, OrdersDrop
<1>3. /\ DOMAIN page = {"request", "preparing", "detail"} /\ page.preparing \in C!Starts \cup {0}
      /\ page.preparing # 0 => cap = None  BY DEF CaptureInv, CaptureTypes, PageTypes, StartsOK
<1>4. CASE page.preparing # 0
  <2>1. page' = [page EXCEPT !.preparing = 0, !.detail = "ready"] /\ cap' = cap  BY <1>4 DEF C!StopArrives
  <2>2. DOMAIN page' = {"request", "preparing", "detail"} /\ page'.preparing = 0 /\ page'.detail = "ready"
    BY <1>3, <2>1
  <2> QED BY <1>1, <1>2, <1>3, <1>4, <2>1, <2>2, PageKeeps
<1>5. CASE page.preparing = 0
  <2>1. page' = page /\ cap' = IF cap # None THEN [cap EXCEPT !.accepting = FALSE, !.stopping = TRUE] ELSE cap
    BY <1>5 DEF C!StopArrives, C!Recording
  <2>2. CASE cap = None  BY <1>1, <1>2, <1>3, <1>5, <2>1, <2>2, PageKeeps
  <2>3. CASE cap # None
    <3>1. DOMAIN cap = CapFields  BY <2>3 DEF CaptureInv, CaptureTypes, CapTypes
    <3>2. cap' = [cap EXCEPT !.accepting = FALSE, !.stopping = TRUE]  BY <2>1, <2>3
    <3>3. SameCapture /\ cap'.sent = cap.sent /\ cap'.reply = cap.reply /\ ~cap'.accepting
      BY <2>3, <3>1, <3>2 DEF SameCapture, CapFields
    <3>4. SourceTypes' /\ src'.number >= src.number /\ Taking'
      BY <1>1, <3>3 DEF CaptureInv, CaptureTypes, SourceTypes, Taking
    <3> QED BY <1>1, <1>2, <2>1, <3>3, <3>4, QuietKeeps
  <2> QED BY <2>2, <2>3
<1> QED BY <1>4, <1>5

(* Nobody waits while an answer is there. *)
LEMMA AnswerSilences ==
  ASSUME CaptureInv, cap # None, cap.reply # "none"
  PROVE  \A i \in 1 .. Len(bridge) : ~bridge[i].live  BY DEF CaptureInv, BridgeOK, LiveOK

(* A capture is over. *)
LEMMA CaptureEnds ==
  ASSUME CaptureInv, DOMAIN None # CapFields, cap # None, cap.reply # "none", cap' = None,
         UNCHANGED <<bridge, native, disk, taken, orders, used>>, SourceTypes',
         DOMAIN page' = {"request", "preparing", "detail"},
         page'.preparing = page.preparing, page'.request = page.request,
         page'.detail = "saved" => disk[cap.request].state = "saved"
  PROVE  CaptureInv'
<1>1. CaptureTypes'  BY DEF CaptureInv, CaptureTypes, CapTypes, BridgeTypes, NativeTypes, DiskTypes, PageTypes
<1>2. SessionOK' /\ C!StoredInOrder'  BY SessionStays DEF CaptureInv, C!StoredInOrder
<1>3. CaptureOK'  BY DEF CaptureOK, CaptureFlags, QueueInRow, GoesOn, Going, Taking
<1>4. BridgeOK'
  <2>1. ASSUME NEW i \in 1 .. Len(bridge)
        PROVE  LiveOK(i)' /\ MessageOK(bridge[i])'
    <3>1. MessageOK(bridge[i]) /\ ~bridge[i].live  BY AnswerSilences DEF CaptureInv, BridgeOK
    <3>2. LiveOK(i)' /\ ChunkOK(bridge[i])'  BY <3>1 DEF LiveOK, ChunkOK
    <3>3. FitOK(bridge[i])'  BY <3>1 DEF MessageOK, FitOK, Expected, Stored, NextPiece
    <3>4. FinishOK(bridge[i])'  BY <3>1 DEF MessageOK, FinishOK, Stored
    <3> QED BY <3>1, <3>2, <3>3, <3>4 DEF MessageOK
  <2> QED BY <2>1 DEF CaptureInv, BridgeOK, OneChunk
<1>5. \A q : Fresh(q) => Fresh(q)'  BY DEF Fresh
<1>6. StartsOK'  BY <1>5 DEF CaptureInv, StartsOK
<1>7. PageOK'
  <2>1. page.request = cap.request /\ cap.request \in C!Starts  BY DEF CaptureInv, PageOK, CaptureTypes, CapTypes
  <2> QED BY <2>1 DEF PageOK
<1> QED BY <1>1, <1>2, <1>3, <1>4, <1>6, <1>7 DEF CaptureInv

(* The source after the clean-up of a capture. *)
LEMMA CleanUpIs ==
  ASSUME CaptureInv, NEW c
  PROVE  /\ DOMAIN C!CleanUp(src, c) = {"number", "closed", "track"} /\ C!CleanUp(src, c).number = src.number
         /\ DOMAIN C!CleanUp(src, c).track = Tracks
         /\ \A t \in Tracks : /\ DOMAIN C!CleanUp(src, c).track[t] = {"at", "init", "awaiting", "forwarding", "blocked"}
                              /\ C!CleanUp(src, c).track[t].at \in Nat
<1>1. /\ DOMAIN src = {"number", "closed", "track"} /\ src.number \in Nat /\ DOMAIN src.track = Tracks
      /\ \A t \in Tracks : DOMAIN src.track[t] = {"at", "init", "awaiting", "forwarding", "blocked"}
                           /\ src.track[t].at \in Nat  BY DEF CaptureInv, CaptureTypes, SourceTypes
<1>2. PICK s : s = C!CleanUp(src, c)  OBVIOUS
<1>3. CASE c.of = src.number
  <2>1. s = [src EXCEPT !.track = [t \in Tracks |-> [src.track[t] EXCEPT !.forwarding = FALSE]]]
    BY <1>2, <1>3 DEF C!CleanUp
  <2>2. /\ DOMAIN s = {"number", "closed", "track"} /\ s.number = src.number /\ DOMAIN s.track = Tracks
        /\ \A t \in Tracks : s.track[t] = [src.track[t] EXCEPT !.forwarding = FALSE]  BY <1>1, <2>1
  <2>3. \A t \in Tracks : DOMAIN s.track[t] = {"at", "init", "awaiting", "forwarding", "blocked"} /\ s.track[t].at \in Nat
    BY <1>1, <2>2
  <2> QED BY <1>2, <2>2, <2>3
<1>4. CASE c.of # src.number  BY <1>1, <1>4 DEF C!CleanUp
<1> QED BY <1>3, <1>4

(* The begin of a recording is answered. *)
LEMMA BeginAnsweredKeeps ==
  ASSUME CaptureInv, DOMAIN None # CapFields, C!BeginAnswered
  PROVE  CaptureInv'
<1>1. cap # None /\ cap.reply # "none" /\ ~cap.begun /\ UNCHANGED <<bridge, orders, native, disk, taken, used>>
  BY DEF C!BeginAnswered, C!Recording
<1>2. /\ DOMAIN cap = CapFields /\ cap.of \in Nat /\ cap.of <= src.number /\ cap.request \in C!Starts
      /\ cap.index \in [Tracks -> Nat] /\ cap.queue \in Seq(Appends) /\ cap.chunk \in Nat
      /\ DOMAIN page = {"request", "preparing", "detail"} /\ SourceTypes /\ src.number \in Nat
  BY <1>1 DEF CaptureInv, CaptureTypes, CapTypes, PageTypes, SourceTypes
<1>3. CASE /\ cap.reply = "ok" /\ cap' = [cap EXCEPT !.begun = TRUE, !.sent = FALSE, !.reply = "none"]
           /\ page' = [page EXCEPT !.detail = "recording"] /\ UNCHANGED src
  <2>1. /\ DOMAIN cap' = CapFields /\ cap'.begun /\ ~cap'.sent /\ cap'.reply = "none"
        /\ cap'.request = cap.request /\ cap'.of = cap.of /\ cap'.failed = cap.failed /\ cap'.index = cap.index
        /\ cap'.queue = cap.queue /\ cap'.chunk = cap.chunk /\ cap'.accepting = cap.accepting
        /\ cap'.stopping = cap.stopping /\ cap'.drained = cap.drained  BY <1>2, <1>3 DEF CapFields
  <2>2. cap' # None  BY <2>1
  <2>3. /\ DOMAIN page' = {"request", "preparing", "detail"} /\ page'.detail = "recording"
        /\ page'.request = page.request /\ page'.preparing = page.preparing  BY <1>2, <1>3
  <2>4. bridge = <<>> /\ disk[cap.request].state # "none"  BY <1>1, <1>3 DEF CaptureInv, CaptureOK, CaptureFlags
  <2>5. CaptureTypes'
    <3>1. CapTypes'  BY <1>2, <1>3, <2>1 DEF CapTypes
    <3> QED BY <1>1, <1>3, <2>3, <3>1
            DEF CaptureInv, CaptureTypes, SourceTypes, BridgeTypes, NativeTypes, DiskTypes, PageTypes
  <2>6. SessionOK' /\ C!StoredInOrder'  BY <1>1, SessionStays DEF CaptureInv, C!StoredInOrder
  <2>7. GoesOn' /\ (Going' <=> Going)  BY <1>1, <2>1, <2>2, GoesOnStays DEF CaptureInv, CaptureOK
  <2>8. CaptureFlags'  BY <1>1, <2>1, <2>4 DEF CaptureInv, CaptureOK, CaptureFlags
  <2>9. QueueInRow' /\ Taking'  BY <1>1, <1>3, <2>1 DEF CaptureInv, CaptureOK, QueueInRow, Taking
  <2>10. BridgeOK'  BY <1>1, <2>4 DEF BridgeOK, OneChunk
  <2>11. \A q : Fresh(q) => Fresh(q)'  BY <1>1, <2>1 DEF Fresh
  <2>12. StartsOK'  BY <1>1, <2>3, <2>11 DEF CaptureInv, StartsOK
  <2>13. PageOK'  BY <1>1, <2>1, <2>3 DEF CaptureInv, PageOK
  <2> QED BY <2>5, <2>6, <2>7, <2>8, <2>9, <2>10, <2>12, <2>13 DEF CaptureInv, CaptureOK
<1>4. CASE cap.reply \in {"error", "retry"} /\ C!Ended("native_rejected")
  <2>1. cap' = None /\ src' = C!CleanUp(src, cap) /\ page' = [page EXCEPT !.detail = "native_rejected"]
    BY <1>4 DEF C!Ended
  <2>2. SourceTypes'  BY <1>2, <2>1, CleanUpIs DEF SourceTypes
  <2>3. /\ DOMAIN page' = {"request", "preparing", "detail"} /\ page'.detail = "native_rejected"
        /\ page'.request = page.request /\ page'.preparing = page.preparing  BY <1>2, <2>1
  <2> QED BY <1>1, <2>1, <2>2, <2>3, CaptureEnds
<1>5. CASE /\ cap.reply = "unsupported" /\ cap' = None
           /\ page' = [page EXCEPT !.detail = "original_unavailable"]
           /\ src' = [C!CleanUp(src, cap) EXCEPT !.closed = @ \/ cap.of = src.number]
  <2>1. PICK s : s = C!CleanUp(src, cap)  OBVIOUS
  <2>2. /\ DOMAIN s = {"number", "closed", "track"} /\ s.number = src.number /\ DOMAIN s.track = Tracks
        /\ \A t \in Tracks : /\ DOMAIN s.track[t] = {"at", "init", "awaiting", "forwarding", "blocked"}
                             /\ s.track[t].at \in Nat  BY <2>1, CleanUpIs
  <2>3. PICK b : src' = [s EXCEPT !.closed = b]  BY <1>5, <2>1
  <2>4. DOMAIN src' = {"number", "closed", "track"} /\ src'.number = s.number /\ src'.track = s.track  BY <2>2, <2>3
  <2>5. SourceTypes'  BY <1>2, <2>2, <2>4 DEF SourceTypes
  <2>6. /\ DOMAIN page' = {"request", "preparing", "detail"} /\ page'.detail = "original_unavailable"
        /\ page'.request = page.request /\ page'.preparing = page.preparing  BY <1>2, <1>5
  <2> QED BY <1>1, <1>5, <2>5, <2>6, CaptureEnds
<1> QED BY <1>3, <1>4, <1>5 DEF C!BeginAnswered

(* The finish of a recording is answered. *)
LEMMA FinishAnsweredKeeps ==
  ASSUME CaptureInv, DOMAIN None # CapFields, C!FinishAnswered
  PROVE  CaptureInv'
<1>1. cap # None /\ cap.reply # "none" /\ UNCHANGED <<bridge, orders, native, disk, taken, used>>
  BY DEF C!FinishAnswered, C!Recording
<1>2. DOMAIN page = {"request", "preparing", "detail"} /\ src.number \in Nat
  BY <1>1 DEF CaptureInv, CaptureTypes, PageTypes, SourceTypes
<1>3. PICK detail : /\ cap' = None /\ src' = C!CleanUp(src, cap) /\ page' = [page EXCEPT !.detail = detail]
                    /\ detail = "saved" => cap.reply = "saved"  BY DEF C!FinishAnswered, C!Ended
<1>4. SourceTypes'  BY <1>2, <1>3, CleanUpIs DEF SourceTypes
<1>5. /\ DOMAIN page' = {"request", "preparing", "detail"} /\ page'.detail = detail
      /\ page'.request = page.request /\ page'.preparing = page.preparing  BY <1>2, <1>3
<1>6. cap.reply = "saved" => disk[cap.request].state = "saved"  BY <1>1 DEF CaptureInv, CaptureOK, CaptureFlags
<1> QED BY <1>1, <1>3, <1>4, <1>5, <1>6, CaptureEnds

(* What is left of a capture whose chunk has been answered. *)
Answered(queue, chunk) ==
  /\ cap' # None /\ DOMAIN cap' = CapFields /\ cap'.queue = queue /\ cap'.chunk = chunk
  /\ ~cap'.sent /\ cap'.reply = "none"
  /\ cap'.request = cap.request /\ cap'.of = cap.of /\ cap'.begun = cap.begun /\ cap'.index = cap.index
  /\ cap'.drained = cap.drained

(* The parts of the invariant that an answered chunk does not touch. *)
LEMMA AnsweredRest ==
  ASSUME CaptureInv, cap # None, cap.begun, NEW queue \in Seq(Appends), NEW chunk \in Nat, Answered(queue, chunk),
         bridge = <<>>, UNCHANGED <<src, page, bridge, orders, native, disk, taken, used>>,
         cap'.accepting = cap.accepting, cap'.stopping = cap.stopping, cap'.failed = cap.failed,
         ~cap.failed,
         queue = <<>> => chunk = 0, queue # <<>> => chunk < Len(queue[1].pieces),
         \A i \in 1 .. Len(queue) : InRow(queue[i].pieces), GoesOn'
  PROVE  CaptureInv'
<1>1. CaptureTypes'
  <2>1. CapTypes'  BY DEF CaptureInv, CaptureTypes, CapTypes, Answered
  <2> QED BY <2>1 DEF CaptureInv, CaptureTypes, SourceTypes, BridgeTypes, NativeTypes, DiskTypes, PageTypes
<1>2. SessionOK' /\ C!StoredInOrder'  BY SessionStays DEF CaptureInv, C!StoredInOrder
<1>3. CaptureFlags'  BY DEF CaptureInv, CaptureOK, CaptureFlags, Answered
<1>4. QueueInRow' /\ Taking'  BY DEF CaptureInv, CaptureOK, QueueInRow, Taking, Answered
<1>5. BridgeOK'  BY DEF BridgeOK, OneChunk
<1>6. \A q : Fresh(q) => Fresh(q)'  BY DEF Fresh, Answered
<1>7. StartsOK'  BY <1>6 DEF CaptureInv, StartsOK
<1>8. PageOK'  BY DEF CaptureInv, PageOK, Answered
<1> QED BY <1>1, <1>2, <1>3, <1>4, <1>5, <1>7, <1>8 DEF CaptureInv, CaptureOK

(* A chunk that is not the last of its append has been stored. *)
LEMMA NextChunkKeeps ==
  ASSUME CaptureInv, cap # None, cap.begun, cap.queue # <<>>, cap.reply = "ok",
         cap.chunk + 1 < Len(cap.queue[1].pieces),
         Answered(cap.queue, cap.chunk + 1), cap'.failed = cap.failed,
         cap'.accepting = cap.accepting, cap'.stopping = cap.stopping,
         UNCHANGED <<src, page, bridge, orders, native, disk, taken, used>>
  PROVE  CaptureInv'
<1>1. cap.queue \in Seq(Appends) /\ cap.chunk \in Nat /\ cap.chunk + 1 \in Nat
  BY DEF CaptureInv, CaptureTypes, CapTypes
<1>2. bridge = <<>> /\ ~cap.failed /\ (Going => HeadIn)  BY DEF CaptureInv, CaptureOK, CaptureFlags
<1>3. \A i \in 1 .. Len(cap.queue) : InRow(cap.queue[i].pieces)  BY DEF CaptureInv, CaptureOK, QueueInRow
<1>4. Going' <=> Going  BY DEF Going, Answered
<1>5. GoesOn'
  <2> SUFFICES ASSUME Going
               PROVE  QueueContinues' /\ HeadContinues'  BY <1>4 DEF GoesOn
  <2>1. QueueContinues /\ HeadContinues /\ HeadIn  BY <1>2 DEF CaptureInv, CaptureOK, GoesOn
  <2>2. Session(cap.request)' = Session(cap.request)  BY DEF Session, Answered
  <2>3. ~HeadIn'
    <3>1. PICK x : x = Session(cap.request).previous  OBVIOUS
    <3>2. x = <<cap.queue[1].track, cap.queue[1].index, cap.chunk>>  BY <2>1, <3>1 DEF HeadIn, Position
    <3>3. x # <<cap.queue[1].track, cap.queue[1].index, cap.chunk + 1>>  BY <3>2, <1>1
    <3> QED BY <2>2, <3>1, <3>3 DEF HeadIn, Position, Answered
  <2>4. ~HeadWhole /\ ~HeadWhole'  BY <1>1, <2>3 DEF HeadWhole
  <2>5. Waiting' = Waiting  BY <2>4 DEF Waiting, Answered
  <2>6. QueueContinues'  BY <2>1, <2>2, <2>5, SMTT(30) DEF QueueContinues, NextPiece, Stored, Answered
  <2>7. HeadContinues'  BY <2>1, <2>2, <2>3, <2>4 DEF HeadContinues, Answered
  <2> QED BY <2>6, <2>7
<1> QED BY <1>1, <1>2, <1>3, <1>5, AnsweredRest

(* The head of the queue has been answered: the rest fits as it did. *)
LEMMA QueueDrops ==
  ASSUME NEW q \in Seq(Appends), NEW n \in Nat, n = Len(q), n >= 1,
         NEW rest \in Seq(Appends), Len(rest) = n - 1, \A i \in 1 .. n - 1 : rest[i] = q[i + 1],
         NEW next, NEW x, NEW all, NEW d, QueueFits(q, 2 .. n, next, x, all, d)
  PROVE  QueueFits(rest, 1 .. n - 1, next, x, all, d)
<1>1. \A i \in 1 .. n - 1 : i + 1 \in 2 .. n /\ i + 1 \in 1 .. n  OBVIOUS
<1>2. ASSUME NEW i \in 1 .. n - 1, NEW j \in 1 .. n - 1, i < j, rest[i].track = rest[j].track
      PROVE  rest[i].index < rest[j].index
  <2>1. \A k, l \in 1 .. n : k < l /\ q[k].track = q[l].track => q[k].index < q[l].index  BY DEF QueueFits
  <2>2. i + 1 \in 1 .. n /\ j + 1 \in 1 .. n /\ i + 1 < j + 1 /\ rest[i] = q[i + 1] /\ rest[j] = q[j + 1]
    BY <1>1, <1>2
  <2> QED BY <2>1, <2>2, <1>2
<1>3. ASSUME NEW t \in Tracks, NEW k \in Nat, next[t] <= k, k < x[t]
      PROVE  \E i \in 1 .. n - 1 : rest[i].track = t /\ rest[i].index = k
  <2>1. PICK i \in 2 .. n : q[i].track = t /\ q[i].index = k  BY <1>3 DEF QueueFits
  <2>2. i - 1 \in 1 .. n - 1 /\ (i - 1) + 1 = i  OBVIOUS
  <2>3. rest[i - 1] = q[i]  BY <2>2
  <2> QED BY <2>1, <2>2, <2>3
<1>4. ASSUME NEW i \in 1 .. n - 1
      PROVE  LET t == rest[i].track
             IN  /\ next[t] <= rest[i].index /\ rest[i].index < x[t] /\ all[t] # <<>>
                 /\ rest[i].index = next[t] => rest[i].pieces[1] = all[t][1] + Len(d[t])
                 /\ rest[i].pieces[1] + Len(rest[i].pieces) <= all[t][1] + Len(all[t])
                 /\ rest[i].index + 1 = x[t] => rest[i].pieces[1] + Len(rest[i].pieces) = all[t][1] + Len(all[t])
  <2>1. PICK k \in 2 .. n : rest[i] = q[k]  BY <1>1
  <2>2. LET t == q[k].track
             IN  /\ next[t] <= q[k].index /\ q[k].index < x[t] /\ all[t] # <<>>
                 /\ q[k].index = next[t] => q[k].pieces[1] = all[t][1] + Len(d[t])
                 /\ q[k].pieces[1] + Len(q[k].pieces) <= all[t][1] + Len(all[t])
                 /\ q[k].index + 1 = x[t] => q[k].pieces[1] + Len(q[k].pieces) = all[t][1] + Len(all[t])
    BY DEF QueueFits
  <2> QED BY <2>1, <2>2
<1>5. ASSUME NEW i \in 1 .. n - 1, NEW j \in 1 .. n - 1, rest[i].track = rest[j].track,
             rest[j].index = rest[i].index + 1
      PROVE  rest[j].pieces[1] = rest[i].pieces[1] + Len(rest[i].pieces)
  <2>1. PICK k \in 2 .. n, l \in 2 .. n : rest[i] = q[k] /\ rest[j] = q[l]  BY <1>1
  <2>2. q[k].track = q[l].track /\ q[l].index = q[k].index + 1 => q[l].pieces[1] = q[k].pieces[1] + Len(q[k].pieces)
    BY DEF QueueFits
  <2> QED BY <2>1, <2>2, <1>5
<1>6. \A t \in Tracks : next[t] <= x[t] /\ (next[t] = x[t] => Len(d[t]) = Len(all[t]))  BY DEF QueueFits
<1> QED BY <1>2, <1>3, <1>4, <1>5, <1>6 DEF QueueFits

(* When its first append is in, the second is the next of its track. *)
LEMMA HeadIsNext ==
  ASSUME NEW q \in Seq(Appends), NEW n \in Nat, n = Len(q), n >= 2,
         NEW next \in [Tracks -> Nat], NEW x \in [Tracks -> Nat], NEW all, NEW d,
         QueueFits(q, 2 .. n, next, x, all, d)
  PROVE  next[q[2].track] = q[2].index
<1>1. q[2] \in Appends  OBVIOUS
<1>2. PICK t \in Tracks, k \in Nat : t = q[2].track /\ k = q[2].index  BY <1>1 DEF Appends
<1>3. next[t] <= k /\ k < x[t]  BY <1>2 DEF QueueFits
<1>4. PICK m \in Nat : m = next[t]  OBVIOUS
<1>5. ASSUME m < k
      PROVE  FALSE
  <2>1. m < x[t]  BY <1>3, <1>4, <1>5
  <2>2. PICK i \in 2 .. n : q[i].track = t /\ q[i].index = m  BY <1>4, <2>1 DEF QueueFits
  <2>3. i # 2  BY <1>2, <1>5, <2>2
  <2>4. 2 \in 1 .. n /\ i \in 1 .. n /\ 2 < i  BY <2>3
  <2>5. k < m  BY <1>2, <2>2, <2>4 DEF QueueFits
  <2> QED BY <1>5, <2>5
<1> QED BY <1>2, <1>3, <1>4, <1>5

(* The last chunk of an append has been stored: the next append is the head. *)
LEMMA NextAppendKeeps ==
  ASSUME CaptureInv, cap # None, cap.begun, cap.queue # <<>>, cap.reply = "ok",
         ~(cap.chunk + 1 < Len(cap.queue[1].pieces)),
         NEW rest, rest = Tail(cap.queue), Answered(rest, 0), cap'.failed = cap.failed,
         cap'.accepting = cap.accepting, cap'.stopping = cap.stopping,
         UNCHANGED <<src, page, bridge, orders, native, disk, taken, used>>
  PROVE  CaptureInv'
<1>1. cap.queue \in Seq(Appends) /\ cap.chunk \in Nat /\ cap.request \in C!Starts
      /\ cap.index \in [Tracks -> Nat]  BY DEF CaptureInv, CaptureTypes, CapTypes
<1>2. bridge = <<>> /\ ~cap.failed /\ (Going => HeadIn) /\ cap.chunk < Len(cap.queue[1].pieces)
  BY DEF CaptureInv, CaptureOK, CaptureFlags
<1>3. PICK n \in Nat : n = Len(cap.queue)  BY <1>1
<1>4. /\ n >= 1 /\ rest \in Seq(Appends) /\ Len(rest) = n - 1
      /\ \A i \in 1 .. n - 1 : rest[i] = cap.queue[i + 1] /\ i + 1 \in 1 .. n
  <2>1. /\ Tail(cap.queue) \in Seq(Appends) /\ Len(cap.queue) >= 1 /\ Len(Tail(cap.queue)) = Len(cap.queue) - 1
        /\ \A i \in 1 .. Len(cap.queue) - 1 : Tail(cap.queue)[i] = cap.queue[i + 1]  BY <1>1, TailIs
  <2> QED BY <1>3, <2>1
<1>5. \A i \in 1 .. n : cap.queue[i] \in Appends /\ InRow(cap.queue[i].pieces)
  BY <1>1, <1>3 DEF CaptureInv, CaptureOK, QueueInRow
<1>6. \A i \in 1 .. Len(rest) : InRow(rest[i].pieces)  BY <1>4, <1>5
<1>7. rest # <<>> => 0 < Len(rest[1].pieces)
  <2> SUFFICES ASSUME rest # <<>>
               PROVE  0 < Len(rest[1].pieces)  OBVIOUS
  <2>1. 1 \in 1 .. Len(rest)  BY <1>4
  <2>2. rest[1] \in Appends  BY <1>4, <2>1
  <2>3. Len(rest[1].pieces) \in Nat  BY <2>2 DEF Appends
  <2>4. InRow(rest[1].pieces)  BY <1>6, <2>1
  <2> QED BY <2>3, <2>4 DEF InRow
<1>8. Going' <=> Going  BY DEF Going, Answered
<1>9. GoesOn'
  <2> SUFFICES ASSUME Going
               PROVE  QueueContinues' /\ HeadContinues'  BY <1>8 DEF GoesOn
  <2>1. QueueContinues /\ HeadContinues /\ HeadIn  BY <1>2 DEF CaptureInv, CaptureOK, GoesOn
  <2>2. HeadWhole
    <3>1. Len(cap.queue[1].pieces) \in Nat  BY <1>4, <1>5 DEF Appends
    <3> QED BY <1>1, <1>2, <2>1, <3>1 DEF HeadWhole
  <2>3. Waiting = 2 .. n  BY <1>3, <1>4, <2>2 DEF Waiting
  <2>4. PICK s : s = Session(cap.request)  OBVIOUS
  <2>5. Session(cap.request)' = s  BY <2>4 DEF Session, Answered
  <2>6. PICK next : next = s.next  OBVIOUS
  <2>7. next \in [Tracks -> Nat]
    BY <2>4, <2>6 DEF CaptureInv, CaptureTypes, NativeTypes, Session, C!NoSession, C!EachTrack
  <2>8. s.partial = <<>> /\ s.previous = <<cap.queue[1].track, cap.queue[1].index, cap.chunk>>
    BY <2>1, <2>2, <2>4 DEF HeadContinues, HeadIn, Position
  <2>9. \A i, j \in 1 .. n : i < j /\ cap.queue[i].track = cap.queue[j].track => cap.queue[i].index < cap.queue[j].index
    BY <2>1, <1>3 DEF QueueContinues
  <2>10. rest # <<>> => ~HeadIn'
    <3> SUFFICES ASSUME rest # <<>>
                 PROVE  s.previous # <<rest[1].track, rest[1].index, 0>>
      BY <2>5 DEF HeadIn, Position, Answered
    <3>1. n >= 2 /\ rest[1] = cap.queue[2]  BY <1>4
    <3>2. cap.queue[1].track = cap.queue[2].track => cap.queue[1].index < cap.queue[2].index  BY <2>9, <3>1
    <3>3. cap.queue[1].index \in Nat  BY <1>4, <1>5 DEF Appends
    <3> QED BY <2>8, <3>1, <3>2, <3>3
  <2>11. Waiting' = 1 .. n - 1
    <3>1. Waiting' = {i \in 1 .. n - 1 : ~(i = 1 /\ HeadWhole')}  BY <1>4 DEF Waiting, Answered
    <3>2. ASSUME NEW i \in 1 .. n - 1
          PROVE  ~HeadWhole'
      <4>1. rest # <<>>  BY <1>4, <3>2
      <4> QED BY <4>1, <2>10 DEF HeadWhole
    <3> QED BY <3>1, <3>2
  <2>12. cap'.queue = rest /\ cap'.chunk = 0 /\ cap'.request = cap.request /\ cap'.index = cap.index  BY DEF Answered
  <2>13. PICK q, x, all, d : q = cap.queue /\ x = cap.index /\ all = taken[cap.request] /\ d = disk[cap.request].track
    OBVIOUS
  <2>14. QueueFits(q, 2 .. n, next, x, all, d) /\ n = Len(q)
    BY <1>3, <2>1, <2>3, <2>4, <2>6, <2>13, SMTT(30) DEF QueueContinues, QueueFits, NextPiece, Stored
  <2>15. q \in Seq(Appends) /\ \A i \in 1 .. n - 1 : rest[i] = q[i + 1]  BY <1>1, <1>4, <2>13
  <2>16. QueueFits(rest, 1 .. n - 1, next, x, all, d)  BY <1>4, <2>14, <2>15, QueueDrops
  <2>17. QueueContinues'
    <3>1. all = taken'[cap'.request] /\ d = disk'[cap'.request].track /\ x = cap'.index
          /\ next = Session(cap.request)'.next  BY <2>5, <2>6, <2>12, <2>13
    <3>2. QueueFits(cap'.queue, Waiting', Session(cap.request)'.next, cap'.index, taken'[cap'.request],
                    disk'[cap'.request].track)  BY <2>11, <2>12, <2>16, <3>1
    <3> QED BY <3>2 DEF QueueContinues, QueueFits, NextPiece, Stored
  <2>18. HeadContinues'
    <3>1. ASSUME rest # <<>>
          PROVE  next[rest[1].track] = rest[1].index
      <4>1. n >= 2  BY <1>4, <3>1
      <4>2. x \in [Tracks -> Nat]  BY <1>1, <2>13
      <4>3. next[q[2].track] = q[2].index  BY <4>1, <4>2, <2>7, <2>14, <2>15, HeadIsNext
      <4>4. 1 \in 1 .. n - 1 /\ 1 + 1 = 2  BY <4>1
      <4>5. rest[1] = q[2]  BY <4>4, <2>15
      <4> QED BY <4>3, <4>5
    <3>2. rest # <<>> => ~HeadWhole'  BY <2>10 DEF HeadWhole
    <3>3. Len(<<>>) = 0  OBVIOUS
    <3> QED BY <2>5, <2>6, <2>8, <2>10, <2>12, <3>1, <3>2, <3>3 DEF HeadContinues
  <2> QED BY <2>17, <2>18
<1> QED BY <1>1, <1>2, <1>4, <1>6, <1>7, <1>9, AnsweredRest

(* A chunk is answered: the page goes on to the next chunk or append. *)
LEMMA AppendAnsweredKeeps ==
  ASSUME CaptureInv, DOMAIN None # CapFields, C!AppendAnswered
  PROVE  CaptureInv'
<1>1. /\ cap # None /\ cap.reply # "none" /\ cap.begun /\ cap.queue # <<>>
      /\ UNCHANGED <<src, page, bridge, orders, native, disk, taken, used>>
  BY DEF C!AppendAnswered, C!Recording, C!Due
<1>2. DOMAIN cap = CapFields /\ cap.chunk \in Nat /\ DOMAIN used = {"starts", "reloads", "faults"}
      /\ cap.queue \in Seq(Appends)  BY <1>1 DEF CaptureInv, CaptureTypes, CapTypes, PageTypes
<1>3. PICK rest : rest = [cap EXCEPT !.sent = FALSE, !.reply = "none", !.try = 1]  OBVIOUS
<1>4. /\ DOMAIN rest = CapFields /\ ~rest.sent /\ rest.reply = "none"
      /\ rest.request = cap.request /\ rest.of = cap.of /\ rest.begun = cap.begun /\ rest.index = cap.index
      /\ rest.drained = cap.drained /\ rest.accepting = cap.accepting /\ rest.stopping = cap.stopping
      /\ rest.failed = cap.failed /\ rest.queue = cap.queue /\ rest.chunk = cap.chunk
  BY <1>2, <1>3 DEF CapFields
<1>5. cap' = IF cap.reply = "ok"
             THEN IF cap.chunk + 1 < Len(cap.queue[1].pieces) THEN [rest EXCEPT !.chunk = @ + 1]
                  ELSE [rest EXCEPT !.chunk = 0, !.queue = Tail(@)]
             ELSE IF cap.reply = "retry" /\ cap.try < MaxTries THEN [rest EXCEPT !.try = cap.try + 1]
             ELSE [C!Failure(rest) EXCEPT !.failed = TRUE, !.queue = <<>>, !.chunk = 0]
  BY <1>3 DEF C!AppendAnswered
<1>6. CASE cap.reply = "ok" /\ cap.chunk + 1 < Len(cap.queue[1].pieces)
  <2>1. cap' = [rest EXCEPT !.chunk = @ + 1]  BY <1>5, <1>6
  <2>2. /\ DOMAIN cap' = CapFields /\ cap'.chunk = cap.chunk + 1 /\ cap'.queue = cap.queue
        /\ ~cap'.sent /\ cap'.reply = "none"
        /\ cap'.request = cap.request /\ cap'.of = cap.of /\ cap'.begun = cap.begun /\ cap'.index = cap.index
        /\ cap'.drained = cap.drained /\ cap'.accepting = cap.accepting /\ cap'.stopping = cap.stopping
        /\ cap'.failed = cap.failed  BY <1>4, <2>1 DEF CapFields
  <2>3. Answered(cap.queue, cap.chunk + 1)  BY <2>2 DEF Answered
  <2> QED BY <1>1, <1>6, <2>2, <2>3, NextChunkKeeps
<1>7. CASE cap.reply = "ok" /\ ~(cap.chunk + 1 < Len(cap.queue[1].pieces))
  <2>1. PICK q : q = Tail(cap.queue)  OBVIOUS
  <2>2. cap' = [rest EXCEPT !.chunk = 0, !.queue = q]  BY <1>4, <1>5, <1>7, <2>1
  <2>3. /\ DOMAIN cap' = CapFields /\ cap'.chunk = 0 /\ cap'.queue = q
        /\ ~cap'.sent /\ cap'.reply = "none"
        /\ cap'.request = cap.request /\ cap'.of = cap.of /\ cap'.begun = cap.begun /\ cap'.index = cap.index
        /\ cap'.drained = cap.drained /\ cap'.accepting = cap.accepting /\ cap'.stopping = cap.stopping
        /\ cap'.failed = cap.failed  BY <1>4, <2>2 DEF CapFields
  <2>4. Answered(q, 0)  BY <2>3 DEF Answered
  <2> QED BY <1>1, <1>7, <2>1, <2>3, <2>4, NextAppendKeeps
<1>8. CASE cap.reply = "retry" /\ cap.try < MaxTries
  <2>1. cap' = [rest EXCEPT !.try = cap.try + 1]  BY <1>5, <1>8
  <2>2. /\ SameCapture /\ cap'.reply = "none"
        /\ cap'.drained = cap.drained /\ cap'.accepting = cap.accepting /\ cap'.stopping = cap.stopping
    BY <1>1, <1>4, <2>1 DEF CapFields, SameCapture
  <2>3. Silenced  BY <1>1, AnswerSilences DEF Silenced, CaptureInv, CaptureTypes, BridgeTypes
  <2>4. DOMAIN used' = DOMAIN used /\ used'.starts = used.starts  BY <1>1
  <2> QED BY <1>1, <2>2, <2>3, <2>4, AnsweredKeeps
<1>9. CASE cap.reply # "ok" /\ ~(cap.reply = "retry" /\ cap.try < MaxTries)
  <2>1. cap' = [C!Failure(rest) EXCEPT !.failed = TRUE, !.queue = <<>>, !.chunk = 0]  BY <1>5, <1>9
  <2>2. PICK f : f = [rest EXCEPT !.interrupted = TRUE, !.accepting = FALSE, !.stopping = TRUE]  OBVIOUS
  <2>3. /\ DOMAIN f = CapFields /\ f.sent = rest.sent /\ f.reply = rest.reply /\ ~f.accepting
        /\ f.request = rest.request /\ f.of = rest.of /\ f.begun = rest.begun /\ f.index = rest.index
        /\ f.drained = rest.drained  BY <1>4, <2>2 DEF CapFields
  <2>4. cap' = [f EXCEPT !.failed = TRUE, !.queue = <<>>, !.chunk = 0]  BY <2>1, <2>2 DEF C!Failure
  <2>5. /\ DOMAIN cap' = CapFields /\ cap'.chunk = 0 /\ cap'.queue = <<>> /\ cap'.failed
        /\ ~cap'.sent /\ cap'.reply = "none" /\ ~cap'.accepting
        /\ cap'.request = cap.request /\ cap'.of = cap.of /\ cap'.begun = cap.begun /\ cap'.index = cap.index
        /\ cap'.drained = cap.drained  BY <1>4, <2>3, <2>4 DEF CapFields
  <2>6. cap' # None  BY <2>5
  <2>7. CaptureTypes'
    <3>1. CapTypes'  BY <1>1, <2>5 DEF CaptureInv, CaptureTypes, CapTypes
    <3> QED BY <1>1, <3>1 DEF CaptureInv, CaptureTypes, SourceTypes, BridgeTypes, NativeTypes, DiskTypes, PageTypes
  <2>8. SessionOK' /\ C!StoredInOrder'  BY <1>1, SessionStays DEF CaptureInv, C!StoredInOrder
  <2>9. GoesOn'  BY <2>5 DEF GoesOn, Going
  <2>10. CaptureFlags'  BY <1>1, <2>5 DEF CaptureInv, CaptureOK, CaptureFlags
  <2>11. QueueInRow' /\ Taking'  BY <2>5 DEF QueueInRow, Taking
  <2>12. BridgeOK'
    <3>1. ASSUME NEW i \in 1 .. Len(bridge)
          PROVE  LiveOK(i)' /\ MessageOK(bridge[i])'
      <4>1. MessageOK(bridge[i]) /\ ~bridge[i].live  BY <1>1, AnswerSilences DEF CaptureInv, BridgeOK
      <4>2. LiveOK(i)' /\ ChunkOK(bridge[i])'  BY <1>1, <2>5, <4>1 DEF LiveOK, ChunkOK
      <4>3. FitOK(bridge[i])'  BY <1>1, <4>1 DEF MessageOK, FitOK, Expected, Stored, NextPiece
      <4>4. FinishOK(bridge[i])'  BY <1>1, <2>5, <4>1 DEF MessageOK, FinishOK, Stored
      <4> QED BY <1>1, <4>1, <4>2, <4>3, <4>4 DEF MessageOK
    <3> QED BY <1>1, <3>1 DEF CaptureInv, BridgeOK, OneChunk
  <2>13. \A q : Fresh(q) => Fresh(q)'  BY <1>1, <2>5 DEF Fresh
  <2>14. StartsOK'  BY <1>1, <2>13 DEF CaptureInv, StartsOK
  <2>15. PageOK'  BY <1>1, <2>5 DEF CaptureInv, PageOK
  <2> QED BY <2>7, <2>8, <2>9, <2>10, <2>11, <2>12, <2>14, <2>15 DEF CaptureInv, CaptureOK
<1> QED BY <1>6, <1>7, <1>8, <1>9

(* What the page sees of a step of the native end: messages leave the bridge,
   and the one that somebody waits for is answered. *)
BridgeShrinks ==
  /\ \E S : bridge' \in Seq(S)
  /\ \A i \in 1 .. Len(bridge') :
       \E j \in 1 .. Len(bridge) : bridge'[i] = bridge[j] /\ (j = Len(bridge) => i = Len(bridge'))
  /\ bridge = <<>> => bridge' = <<>>

CapHears ==
  \/ cap = None /\ cap' = None
  \/ /\ SameCapture /\ cap'.accepting = cap.accepting /\ cap'.stopping = cap.stopping
     /\ cap'.drained = cap.drained /\ cap'.sent = cap.sent
     /\ cap'.reply = cap.reply \/ bridge' = <<>>

(* A call of the page is answered. *)
LEMMA HearsKeeps ==
  ASSUME CaptureInv, BridgeShrinks, CapHears, UNCHANGED src
  PROVE  /\ SourceTypes' /\ BridgeTypes' /\ CapTypes' /\ OneChunk' /\ (taken' = taken => QueueInRow' /\ Taking')
         /\ \A i \in 1 .. Len(bridge') : LiveOK(i)' /\ ChunkOK(bridge[i])'
<1>1. SourceTypes'  BY DEF CaptureInv, CaptureTypes, SourceTypes
<1>2. CapTypes'  BY DEF CaptureInv, CaptureTypes, CapTypes, CapHears, SameCapture
<1>3. BridgeTypes'
  <2>1. \A j \in 1 .. Len(bridge) : DOMAIN bridge[j] = MessageFields /\ bridge[j].recording \in C!Starts
    BY DEF CaptureInv, CaptureTypes, BridgeTypes
  <2> QED BY <2>1 DEF BridgeTypes, BridgeShrinks
<1>4. OneChunk'
  <2>1. OneChunk  BY DEF CaptureInv, BridgeOK
  <2> SUFFICES ASSUME NEW i \in 1 .. Len(bridge'), NEW k \in 1 .. Len(bridge'),
                      bridge'[i].kind = "append", bridge'[k].kind = "append",
                      bridge'[i].recording = bridge'[k].recording
               PROVE  Receipt(bridge'[i]) = Receipt(bridge'[k])  BY DEF OneChunk, Receipt
  <2>2. PICK j \in 1 .. Len(bridge), l \in 1 .. Len(bridge) : bridge'[i] = bridge[j] /\ bridge'[k] = bridge[l]
    BY DEF BridgeShrinks
  <2>3. Receipt(bridge[j]) = Receipt(bridge[l])  BY <2>1, <2>2 DEF OneChunk
  <2> QED BY <2>2, <2>3
<1>5. taken' = taken => QueueInRow' /\ Taking'
  BY DEF CaptureInv, CaptureOK, QueueInRow, Taking, CapHears, SameCapture
<1>6. ASSUME NEW i \in 1 .. Len(bridge')
      PROVE  LiveOK(i)' /\ ChunkOK(bridge[i])'
  <2>1. PICK j \in 1 .. Len(bridge) : bridge'[i] = bridge[j] /\ (j = Len(bridge) => i = Len(bridge'))
    BY DEF BridgeShrinks
  <2>2. LiveOK(j) /\ ChunkOK(bridge[j])  BY DEF CaptureInv, BridgeOK, MessageOK
  <2>3. bridge' # <<>>  BY <1>6
  <2>4. LiveOK(i)'  BY <2>1, <2>2, <2>3 DEF LiveOK, CapHears, SameCapture
  <2>5. ChunkOK(bridge[i])'  BY <2>1, <2>2 DEF ChunkOK, CapHears, SameCapture, Receipt, Position
  <2> QED BY <2>4, <2>5
<1> QED BY <1>1, <1>2, <1>3, <1>4, <1>5, <1>6

(* The queue goes on when its own recording is as it was. *)
LEMMA GoesOnShows ==
  ASSUME CaptureInv, CapHears, taken' = taken,
         cap # None /\ Going' =>
           /\ Going /\ Session(cap.request)' = Session(cap.request)
           /\ disk'[cap.request].track = disk[cap.request].track
  PROVE  GoesOn' /\ (cap # None /\ Going' => Going /\ (HeadIn' <=> HeadIn))
<1>1. CASE cap = None  BY <1>1 DEF CapHears, SameCapture, GoesOn, Going
<1>2. CASE cap # None
  <2>1. /\ cap' # None /\ cap'.request = cap.request /\ cap'.failed = cap.failed /\ cap'.index = cap.index
        /\ cap'.queue = cap.queue /\ cap'.chunk = cap.chunk  BY <1>2 DEF CapHears, SameCapture
  <2> SUFFICES ASSUME Going'
               PROVE  QueueContinues' /\ HeadContinues' /\ Going /\ (HeadIn' <=> HeadIn)  BY DEF GoesOn
  <2>2. /\ Going /\ Session(cap.request)' = Session(cap.request)
        /\ disk'[cap.request].track = disk[cap.request].track  BY <1>2
  <2>3. Position' = Position /\ (HeadIn' <=> HeadIn) /\ (HeadWhole' <=> HeadWhole)
    BY <2>1, <2>2 DEF Position, HeadIn, HeadWhole
  <2>4. Waiting' = Waiting  BY <2>1, <2>3 DEF Waiting
  <2>5. QueueContinues /\ HeadContinues  BY <2>2 DEF CaptureInv, CaptureOK, GoesOn
  <2>6. PICK q, w, next, x, all, d : /\ q = cap.queue /\ w = Waiting /\ next = Session(cap.request).next
                                     /\ x = cap.index /\ all = taken[cap.request] /\ d = disk[cap.request].track
    OBVIOUS
  <2>7. QueueFits(q, w, next, x, all, d)  BY <2>5, <2>6 DEF QueueContinues, QueueFits, NextPiece, Stored
  <2>8. QueueFits(cap'.queue, Waiting', Session(cap.request)'.next, cap'.index, taken'[cap'.request],
                  disk'[cap'.request].track)  BY <2>1, <2>2, <2>4, <2>6, <2>7
  <2>9. QueueContinues'  BY <2>8 DEF QueueContinues, QueueFits, NextPiece, Stored
  <2>10. HeadContinues'  BY <2>1, <2>2, <2>3, <2>5 DEF HeadContinues
  <2> QED BY <2>2, <2>3, <2>9, <2>10
<1> QED BY <1>1, <1>2

(* The invariant without what is said of the starts. *)
HostOK ==
  /\ SourceTypes /\ CapTypes /\ BridgeTypes /\ NativeTypes /\ DiskTypes
  /\ SessionOK /\ CaptureOK /\ BridgeOK /\ C!StoredInOrder /\ PageOK

(* Nothing is stored. *)
LEMMA NothingStored ==
  ASSUME CaptureInv, BridgeShrinks, CapHears, UNCHANGED <<src, page, disk, taken>>, NativeTypes',
         native'.rec = native.rec, native'.session = native.session,
         cap # None =>
           \/ cap'.reply = cap.reply
           \/ cap'.reply \in {"error", "unsupported"}
           \/ /\ cap'.reply = "ok" /\ bridge' = <<>> /\ disk[cap.request].state # "none"
              /\ cap.begun => cap.queue # <<>> /\ (Going => HeadIn)
  PROVE  HostOK'
<1>1. /\ SourceTypes' /\ BridgeTypes' /\ CapTypes' /\ OneChunk' /\ QueueInRow' /\ Taking'
      /\ \A i \in 1 .. Len(bridge') : LiveOK(i)' /\ ChunkOK(bridge[i])'  BY HearsKeeps
<1>2. DiskTypes'  BY DEF CaptureInv, CaptureTypes, DiskTypes
<1>3. Session(cap.request)' = Session(cap.request) \/ cap = None  BY DEF Session, CapHears, SameCapture
<1>4. cap # None => (Going' <=> Going)  BY DEF Going, CapHears, SameCapture
<1>5. GoesOn' /\ (cap # None /\ Going' => Going /\ (HeadIn' <=> HeadIn))  BY <1>3, <1>4, GoesOnShows
<1>6. SessionOK'  BY DEF CaptureInv, SessionOK, Stored, NextPiece
<1>7. C!StoredInOrder'  BY DEF CaptureInv, C!StoredInOrder
<1>8. CaptureFlags'
  <2>1. CASE cap = None  BY <2>1 DEF CaptureFlags, CapHears, SameCapture
  <2>2. CASE cap # None
    <3>1. CaptureFlags  BY DEF CaptureInv, CaptureOK
    <3>2. bridge = <<>> => bridge' = <<>>  BY DEF BridgeShrinks
    <3> QED BY <2>2, <1>4, <1>5, <3>1, <3>2 DEF CaptureFlags, CapHears, SameCapture
  <2> QED BY <2>1, <2>2
<1>9. BridgeOK'
  <2>1. ASSUME NEW i \in 1 .. Len(bridge')
        PROVE  LiveOK(i)' /\ MessageOK(bridge[i])'
    <3>1. PICK j \in 1 .. Len(bridge) : bridge'[i] = bridge[j]  BY DEF BridgeShrinks
    <3>2. MessageOK(bridge[j])  BY DEF CaptureInv, BridgeOK
    <3>3. FitOK(bridge[i])'  BY <3>1, <3>2 DEF MessageOK, FitOK, Expected, Stored, NextPiece, Receipt
    <3>4. FinishOK(bridge[i])'  BY <3>1, <3>2 DEF MessageOK, FinishOK, Stored, CapHears, SameCapture
    <3> QED BY <1>1, <3>1, <3>2, <3>3, <3>4 DEF MessageOK
  <2> QED BY <1>1, <2>1 DEF BridgeOK
<1>10. PageOK'  BY DEF CaptureInv, PageOK, CapHears, SameCapture
<1> QED BY <1>1, <1>2, <1>5, <1>6, <1>7, <1>8, <1>9, <1>10 DEF HostOK, CaptureOK

(* The recording ends, and nothing of it is lost if it ends as saved. *)
LEMMA RecordingEnds ==
  ASSUME CaptureInv, BridgeShrinks, CapHears, UNCHANGED <<src, page, taken>>, NativeTypes',
         native.rec # 0, native'.rec = 0, native'.session = C!NoSession,
         NEW end \in {"interrupted", "saved"}, disk' = [disk EXCEPT ![native.rec].state = end],
         end = "saved" =>
           /\ \A t \in Tracks : Stored(native.rec, t) = Len(taken[native.rec][t])
           /\ cap # None /\ cap.request = native.rec => ~cap.accepting,
         cap # None =>
           \/ cap'.reply = cap.reply
           \/ cap'.reply \in {"error", "interrupted"}
           \/ cap'.reply = "saved" /\ end = "saved" /\ cap.request = native.rec
  PROVE  HostOK'
<1>1. /\ SourceTypes' /\ BridgeTypes' /\ CapTypes' /\ OneChunk' /\ QueueInRow' /\ Taking'
      /\ \A i \in 1 .. Len(bridge') : LiveOK(i)' /\ ChunkOK(bridge[i])'  BY HearsKeeps
<1>2. PICK r \in C!Starts : r = native.rec  BY DEF CaptureInv, CaptureTypes, NativeTypes
<1>3. /\ DOMAIN disk = C!Starts /\ DOMAIN taken = C!Starts
      /\ \A q \in C!Starts : DOMAIN disk[q] = {"state", "track"} /\ disk[q].track \in [Tracks -> Seq(Nat)]
                             /\ taken[q] \in [Tracks -> Seq(Nat)]  BY DEF CaptureInv, CaptureTypes, DiskTypes
<1>4. /\ DOMAIN disk' = C!Starts /\ disk'[r].state = end
      /\ \A q \in C!Starts : /\ DOMAIN disk'[q] = {"state", "track"} /\ disk'[q].track = disk[q].track
                             /\ q # r => disk'[q].state = disk[q].state  BY <1>2, <1>3
<1>5. disk[r].state = "open" /\ \A q \in C!Starts : disk[q].state = "open" => q = r  BY <1>2 DEF CaptureInv, SessionOK
<1>6. DiskTypes'  BY <1>3, <1>4 DEF DiskTypes
<1>7. SessionOK'
  <2>1. native'.session.partial = <<>> /\ native'.session.previous = <<>>  BY DEF C!NoSession
  <2>2. \A q \in C!Starts : disk'[q].state = "open" <=> native'.rec = q  BY <1>4, <1>5 DEF C!Starts
  <2>3. \A q \in C!Starts : disk'[q].state = "none" => \A t \in Tracks : disk'[q].track[t] = <<>>
    BY <1>4 DEF CaptureInv, SessionOK
  <2> QED BY <2>1, <2>2, <2>3 DEF SessionOK
<1>8. C!StoredInOrder'
  <2> SUFFICES ASSUME NEW q \in C!Starts, NEW t \in Tracks
               PROVE  /\ C!Whole(taken[q][t])
                      /\ C!IsPrefixOf(disk'[q].track[t], taken[q][t])
                      /\ disk'[q].state = "saved" => disk'[q].track[t] = taken[q][t]  BY DEF C!StoredInOrder
  <2>1. /\ C!Whole(taken[q][t])
        /\ C!IsPrefixOf(disk[q].track[t], taken[q][t])
        /\ disk[q].state = "saved" => disk[q].track[t] = taken[q][t]  BY DEF CaptureInv, C!StoredInOrder
  <2>2. ASSUME q = r, end = "saved"
        PROVE  disk[q].track[t] = taken[q][t]
    <3>1. PICK a \in Seq(Nat), b \in Seq(Nat) : a = disk[q].track[t] /\ b = taken[q][t]  BY <1>3
    <3>2. Len(a) = Len(b)  BY <1>2, <2>2, <3>1 DEF Stored
    <3>3. \A i \in 1 .. Len(a) : a[i] = b[i]  BY <2>1, <3>1 DEF C!IsPrefixOf
    <3>4. a = b  BY <3>2, <3>3
    <3> QED BY <3>1, <3>4
  <2> QED BY <1>4, <2>1, <2>2
<1>9. cap # None => cap.request \in C!Starts  BY DEF CaptureInv, CaptureTypes, CapTypes
<1>10. ASSUME cap # None, Going'
       PROVE  /\ Going /\ Session(cap.request)' = Session(cap.request)
              /\ disk'[cap.request].track = disk[cap.request].track
  <2>1. cap.request # r /\ disk'[cap.request].state = disk[cap.request].state
    BY <1>4, <1>9, <1>10 DEF Going, CapHears, SameCapture
  <2>2. Going  BY <2>1, <1>10 DEF Going, CapHears, SameCapture
  <2>3. Session(cap.request) = C!NoSession  BY <1>2, <2>1 DEF Session
  <2>4. Session(cap.request)' = C!NoSession  BY <1>9, <1>10 DEF Session
  <2> QED BY <1>4, <1>9, <2>2, <2>3, <2>4
<1>11. GoesOn' /\ (cap # None /\ Going' => Going /\ (HeadIn' <=> HeadIn))  BY <1>10, GoesOnShows
<1>12. CaptureFlags'
  <2>1. CASE cap = None  BY <2>1 DEF CaptureFlags, CapHears, SameCapture
  <2>2. CASE cap # None
    <3>1. CaptureFlags  BY DEF CaptureInv, CaptureOK
    <3>2. bridge = <<>> => bridge' = <<>>  BY DEF BridgeShrinks
    <3>3. PICK q \in C!Starts : q = cap.request  BY <1>9, <2>2
    <3>4. /\ disk[q].state # "none" => disk'[q].state # "none"
          /\ disk[q].state = "saved" => disk'[q].state = "saved"
          /\ disk'[q].state = "saved" => disk[q].state = "saved" \/ (end = "saved" /\ q = r)  BY <1>4, <1>5
    <3>5. cap'.request = q  BY <2>2, <3>3 DEF CapHears, SameCapture
    <3>6. cap'.reply = "saved" => disk'[q].state = "saved"  BY <1>2, <1>4, <2>2, <3>1, <3>3, <3>4 DEF CaptureFlags
    <3>7. cap'.accepting => disk'[q].state # "saved"
      BY <1>2, <2>2, <3>1, <3>3, <3>4 DEF CaptureFlags, CapHears, SameCapture
    <3>8. cap'.reply = "ok" => cap.reply = "ok"  BY <2>2
    <3> QED BY <2>2, <1>11, <3>1, <3>2, <3>3, <3>4, <3>5, <3>6, <3>7, <3>8 DEF CaptureFlags, CapHears, SameCapture
  <2> QED BY <2>1, <2>2
<1>13. BridgeOK'
  <2>1. ASSUME NEW i \in 1 .. Len(bridge')
        PROVE  LiveOK(i)' /\ MessageOK(bridge[i])'
    <3>1. PICK j \in 1 .. Len(bridge) : bridge'[i] = bridge[j]  BY DEF BridgeShrinks
    <3>2. MessageOK(bridge[j]) /\ bridge[j].recording \in C!Starts
      BY DEF CaptureInv, BridgeOK, CaptureTypes, BridgeTypes
    <3>3. native'.rec # bridge[j].recording  BY <3>2 DEF C!Starts
    <3>4. FitOK(bridge[i])'  BY <3>1, <3>2, <3>3 DEF MessageOK, FitOK
    <3>5. FinishOK(bridge[i])'  BY <3>1, <3>2, <3>3 DEF MessageOK, FinishOK, CapHears, SameCapture
    <3>6. disk[bridge[j].recording].state # "none" => disk'[bridge[j].recording].state # "none"  BY <1>4, <3>2
    <3> QED BY <1>1, <3>1, <3>2, <3>4, <3>5, <3>6 DEF MessageOK
  <2> QED BY <1>1, <2>1 DEF BridgeOK
<1>14. PageOK'
  <2>1. PageOK  BY DEF CaptureInv
  <2>2. page.detail = "saved" => disk'[page.request].state = "saved"  BY <1>4, <1>5, <2>1 DEF PageOK
  <2> QED BY <2>1, <2>2 DEF PageOK, CapHears, SameCapture
<1> QED BY <1>1, <1>6, <1>7, <1>8, <1>11, <1>12, <1>13, <1>14 DEF HostOK, CaptureOK

Heard(outcome) ==
  /\ BridgeShrinks /\ CapHears
  /\ bridge[1].live =>
       /\ cap # None /\ bridge' = <<>> /\ cap'.reply = outcome /\ cap.request = bridge[1].recording
       /\ bridge[1].kind = "begin" <=> ~cap.begun
       /\ bridge[1].kind = "append" <=> cap.begun /\ cap.queue # <<>>
  /\ ~bridge[1].live => cap' = cap
  /\ cap # None => cap.reply # "ok"

(* What answering a message changes. *)
LEMMA AnswerIs ==
  ASSUME CaptureInv, bridge # <<>>, NEW outcome, C!Answer(bridge[1], outcome), DOMAIN None # CapFields
  PROVE  Heard(outcome)
<1>1. PICK S : bridge \in Seq(S)  BY DEF CaptureInv, CaptureTypes, BridgeTypes
<1>2. bridge' = Tail(bridge)  BY DEF C!Answer
<1>3. /\ bridge' \in Seq(S) /\ Len(bridge) \in Nat /\ Len(bridge) >= 1 /\ Len(bridge') = Len(bridge) - 1
      /\ \A i \in 1 .. Len(bridge) - 1 : bridge'[i] = bridge[i + 1]
      /\ Len(bridge) = 1 <=> bridge' = <<>>  BY <1>1, <1>2, TailIs
<1>4. BridgeShrinks
  <2>1. ASSUME NEW i \in 1 .. Len(bridge')
        PROVE  \E j \in 1 .. Len(bridge) : bridge'[i] = bridge[j] /\ (j = Len(bridge) => i = Len(bridge'))
    <3>1. i + 1 \in 1 .. Len(bridge) /\ bridge'[i] = bridge[i + 1] /\ (i + 1 = Len(bridge) => i = Len(bridge'))
      BY <1>3
    <3> QED BY <3>1
  <2> QED BY <1>3, <2>1 DEF BridgeShrinks
<1>5. LiveOK(1)  BY <1>3 DEF CaptureInv, BridgeOK
<1>6. cap # None => cap.reply # "ok"  BY DEF CaptureInv, CaptureOK, CaptureFlags
<1>7. CASE bridge[1].live
  <2>1. /\ cap # None /\ Len(bridge) = 1 /\ cap.request = bridge[1].recording
        /\ bridge[1].kind = "begin" <=> ~cap.begun
        /\ bridge[1].kind = "append" <=> cap.begun /\ cap.queue # <<>>  BY <1>5, <1>7 DEF LiveOK
  <2>2. cap' = [cap EXCEPT !.reply = outcome] /\ DOMAIN cap = CapFields
    BY <1>7, <2>1 DEF C!Answer, CaptureInv, CaptureTypes, CapTypes
  <2>3. CapHears /\ cap'.reply = outcome  BY <1>3, <2>1, <2>2 DEF CapHears, SameCapture, CapFields
  <2> QED BY <1>3, <1>4, <1>6, <1>7, <2>1, <2>3 DEF Heard
<1>8. CASE ~bridge[1].live
  <2>1. cap' = cap /\ (cap # None => DOMAIN cap = CapFields)  BY <1>8 DEF C!Answer, CaptureInv, CaptureTypes, CapTypes
  <2>2. CapHears  BY <2>1 DEF CapHears, SameCapture
  <2> QED BY <1>4, <1>6, <1>8, <2>1, <2>2 DEF Heard
<1> QED BY <1>7, <1>8

(* A step of the native end that touches no new start. *)
LEMMA StartsStay ==
  ASSUME CaptureInv, BridgeShrinks, CapHears, UNCHANGED <<taken, page, orders>>, HostOK',
         DOMAIN used' = DOMAIN used, used'.starts = used.starts, native'.arm \in {0, native.arm},
         \A q \in C!Starts : Fresh(q) => disk'[q].state = "none",
         native'.arm # 0 => disk'[native'.arm].state = "none"
  PROVE  CaptureInv'
<1>1. ASSUME NEW q \in C!Starts, Fresh(q)
      PROVE  Fresh(q)'
  <2>1. cap' # None => cap'.request # q  BY <1>1 DEF Fresh, CapHears, SameCapture
  <2>2. \A i \in 1 .. Len(bridge') : bridge'[i].recording # q  BY <1>1 DEF Fresh, BridgeShrinks
  <2> QED BY <1>1, <2>1, <2>2 DEF Fresh
<1>2. PageTypes'  BY DEF CaptureInv, CaptureTypes, PageTypes
<1>3. orders \in Seq(C!Starts \cup {0}) /\ page.preparing \in C!Starts \cup {0}
  BY DEF CaptureInv, CaptureTypes, PageTypes
<1>4. \A i \in 1 .. Len(orders) : orders[i] # 0 => orders[i] \in C!Starts  BY <1>3
<1>5. StartsOK'
  <2>1. ASSUME NEW q \in C!Starts, q > used.starts
        PROVE  Fresh(q)'  BY <1>1, <2>1 DEF CaptureInv, StartsOK
  <2>2. ASSUME NEW i \in 1 .. Len(orders), orders[i] # 0
        PROVE  /\ Fresh(orders[i])' /\ orders[i] <= used.starts /\ orders[i] # page.preparing
               /\ \A j \in 1 .. Len(orders) : i # j => orders[j] # orders[i]
    <3>1. PICK q \in C!Starts : q = orders[i]  BY <1>4, <2>2
    <3>2. Fresh(q)  BY <2>2, <3>1 DEF CaptureInv, StartsOK
    <3>3. Fresh(q)'  BY <1>1, <3>2
    <3>4. Fresh(orders[i])'  BY <3>1, <3>3 DEF Fresh
    <3> QED BY <2>2, <3>4 DEF CaptureInv, StartsOK
  <2>3. ASSUME page.preparing # 0
        PROVE  cap' = None /\ Fresh(page.preparing)' /\ page.preparing <= used.starts
    <3>1. cap = None /\ Fresh(page.preparing) /\ page.preparing <= used.starts  BY <2>3 DEF CaptureInv, StartsOK
    <3>2. PICK q \in C!Starts : q = page.preparing  BY <1>3, <2>3
    <3>3. Fresh(q)'  BY <1>1, <3>1, <3>2
    <3>4. Fresh(page.preparing)'  BY <3>2, <3>3 DEF Fresh
    <3> QED BY <3>1, <3>4 DEF CapHears, SameCapture
  <2> QED BY <2>1, <2>2, <2>3 DEF StartsOK
<1> QED BY <1>2, <1>5 DEF HostOK, CaptureInv, CaptureTypes

(* What an interruption changes at the native end. *)
LEMMA InterruptIs ==
  ASSUME CaptureInv
  PROVE  /\ DOMAIN C!Interrupt(native) = NativeFields /\ C!Interrupt(native).arm = 0
         /\ C!Interrupt(native).rec = 0 /\ C!Interrupt(native).session = C!NoSession
<1>1. DOMAIN native = NativeFields  BY DEF CaptureInv, CaptureTypes, NativeTypes
<1> QED BY <1>1 DEF C!Interrupt, NativeFields

(* The empty session. *)
LEMMA NoSessionIs ==
  /\ DOMAIN C!NoSession = {"next", "partial", "previous"} /\ C!NoSession.next \in [Tracks -> Nat]
  /\ C!NoSession.partial = <<>> /\ C!NoSession.previous = <<>>
  /\ C!NoSession.partial \in Seq([track : Tracks, piece : Nat])  BY DEF C!NoSession, C!EachTrack

(* A recording is interrupted. *)
LEMMA InterruptKeeps ==
  ASSUME CaptureInv, BridgeShrinks, CapHears, UNCHANGED <<src, page, orders, taken>>,
         DOMAIN used' = DOMAIN used, used'.starts = used.starts,
         DOMAIN native' = NativeFields, native'.arm = 0, native'.rec = 0, native'.session = C!NoSession,
         disk' = C!Interrupted(disk, native.rec),
         cap # None => cap'.reply = cap.reply \/ cap'.reply = "error"
  PROVE  CaptureInv'
<1>1. NativeTypes'  BY NoSessionIs DEF NativeTypes
<1>2. CASE native.rec = 0
  <2>1. disk' = disk /\ native.session = C!NoSession  BY <1>2 DEF C!Interrupted, CaptureInv, SessionOK
  <2>2. HostOK'  BY <1>1, <1>2, <2>1, NothingStored
  <2>3. \A q \in C!Starts : Fresh(q) => disk'[q].state = "none"  BY <2>1 DEF Fresh
  <2> QED BY <2>2, <2>3, StartsStay
<1>3. CASE native.rec # 0
  <2>1. PICK r \in C!Starts, end \in {"interrupted", "saved"} : r = native.rec /\ end = "interrupted"
    BY <1>3 DEF CaptureInv, CaptureTypes, NativeTypes
  <2>2. disk' = [disk EXCEPT ![native.rec].state = end]  BY <1>3, <2>1 DEF C!Interrupted
  <2>3. HostOK'  BY <1>1, <1>3, <2>1, <2>2, RecordingEnds
  <2>4. disk[r].state = "open" /\ DOMAIN disk = C!Starts  BY <2>1 DEF CaptureInv, SessionOK, CaptureTypes, DiskTypes
  <2>5. \A q \in C!Starts : Fresh(q) => disk'[q].state = "none"  BY <2>1, <2>2, <2>4 DEF Fresh
  <2> QED BY <2>3, <2>5, StartsStay
<1> QED BY <1>2, <1>3

(* A message is served without any change of a recording. *)
LEMMA SameHostKeeps ==
  ASSUME CaptureInv, BridgeShrinks, CapHears, UNCHANGED <<src, page, orders, taken, disk>>,
         DOMAIN used' = DOMAIN used, used'.starts = used.starts,
         DOMAIN native' = NativeFields, native'.arm \in {0, native.arm}, native'.rec = native.rec,
         native'.session = native.session,
         cap # None =>
           \/ cap'.reply = cap.reply
           \/ cap'.reply \in {"error", "unsupported"}
           \/ /\ cap'.reply = "ok" /\ bridge' = <<>> /\ disk[cap.request].state # "none"
              /\ cap.begun => cap.queue # <<>> /\ (Going => HeadIn)
  PROVE  CaptureInv'
<1>1. NativeTypes'  BY DEF CaptureInv, CaptureTypes, NativeTypes
<1>2. HostOK'  BY <1>1, NothingStored
<1>3. \A q \in C!Starts : Fresh(q) => disk'[q].state = "none"  BY DEF Fresh
<1>4. native'.arm # 0 => disk'[native'.arm].state = "none"  BY DEF CaptureInv, StartsOK
<1> QED BY <1>2, <1>3, <1>4, StartsStay

(* A message is refused. *)
LEMMA RefuseKeeps ==
  ASSUME CaptureInv, DOMAIN None # CapFields, bridge # <<>>, C!Refuse(bridge[1]),
         UNCHANGED <<src, page, orders, taken>>, DOMAIN used' = DOMAIN used, used'.starts = used.starts
  PROVE  CaptureInv'
<1>1. Heard("error")  BY AnswerIs DEF C!Refuse
<1>2. cap # None => cap'.reply = cap.reply \/ cap'.reply = "error"  BY <1>1 DEF Heard
<1>3. CASE bridge[1].kind # "begin" /\ bridge[1].recording = native.rec
  <2>1. native' = C!Interrupt(native) /\ disk' = C!Interrupted(disk, native.rec)  BY <1>3 DEF C!Refuse
  <2> QED BY <1>1, <1>2, <2>1, InterruptIs, InterruptKeeps DEF Heard
<1>4. CASE ~(bridge[1].kind # "begin" /\ bridge[1].recording = native.rec)
  <2>1. native' = native /\ disk' = disk  BY <1>4 DEF C!Refuse
  <2>2. DOMAIN native' = NativeFields  BY <2>1 DEF CaptureInv, CaptureTypes, NativeTypes
  <2> QED BY <1>1, <1>2, <2>1, <2>2, SameHostKeeps DEF Heard
<1> QED BY <1>3, <1>4

(* A message is refused or fails at the native end. *)
LEMMA ServeFailsKeeps ==
  ASSUME CaptureInv, DOMAIN None # CapFields, C!ServeStale \/ C!ServeFails
  PROVE  CaptureInv'
<1>1. bridge # <<>> /\ UNCHANGED <<src, page, orders, taken>>  BY DEF C!ServeStale, C!ServeFails
<1>2. DOMAIN used' = DOMAIN used /\ used'.starts = used.starts
  <2>1. used' = used \/ used' = [used EXCEPT !.faults = @ + 1]  BY DEF C!ServeStale, C!ServeFails, C!Fault
  <2>2. DOMAIN used = {"starts", "reloads", "faults"}  BY DEF CaptureInv, CaptureTypes, PageTypes
  <2> QED BY <2>1, <2>2
<1>3. CASE C!Refuse(bridge[1])  BY <1>1, <1>2, <1>3, RefuseKeeps
<1>4. CASE C!Answer(bridge[1], "error") /\ native' = [native EXCEPT !.arm = 0] /\ UNCHANGED disk
  <2>1. Heard("error")  BY <1>1, <1>4, AnswerIs
  <2>2. cap # None => cap'.reply = cap.reply \/ cap'.reply = "error"  BY <2>1 DEF Heard
  <2>3. DOMAIN native = NativeFields  BY DEF CaptureInv, CaptureTypes, NativeTypes
  <2>4. DOMAIN native' = NativeFields /\ native'.arm = 0 /\ native'.rec = native.rec /\ native'.session = native.session
    BY <1>4, <2>3 DEF NativeFields
  <2> QED BY <1>1, <1>2, <1>4, <2>1, <2>2, <2>4, SameHostKeeps DEF Heard
<1> QED BY <1>3, <1>4 DEF C!ServeStale, C!ServeFails

(* A recording begins: nothing of it can be under way. *)
LEMMA BeginServed ==
  ASSUME CaptureInv, DOMAIN None # CapFields, bridge # <<>>, NEW r \in C!Starts,
         r = bridge[1].recording, bridge[1].kind = "begin", Heard("ok"),
         native.rec = 0, native.arm = r,
         native' = [native EXCEPT !.arm = 0, !.rec = r, !.accepted = r],
         disk' = [disk EXCEPT ![r].state = "open"],
         UNCHANGED <<src, page, orders, taken, used>>
  PROVE  CaptureInv'
<1>1. BridgeShrinks /\ CapHears  BY DEF Heard
<1>2. /\ SourceTypes' /\ BridgeTypes' /\ CapTypes' /\ OneChunk' /\ QueueInRow' /\ Taking'
      /\ \A i \in 1 .. Len(bridge') : LiveOK(i)' /\ ChunkOK(bridge[i])'  BY <1>1, HearsKeeps
<1>3. /\ DOMAIN disk = C!Starts /\ DOMAIN taken = C!Starts
      /\ \A q \in C!Starts : DOMAIN disk[q] = {"state", "track"} /\ disk[q].track \in [Tracks -> Seq(Nat)]
                             /\ taken[q] \in [Tracks -> Seq(Nat)]  BY DEF CaptureInv, CaptureTypes, DiskTypes
<1>4. /\ DOMAIN disk' = C!Starts /\ disk'[r].state = "open"
      /\ \A q \in C!Starts : /\ DOMAIN disk'[q] = {"state", "track"} /\ disk'[q].track = disk[q].track
                             /\ q # r => disk'[q].state = disk[q].state  BY <1>3
<1>5. /\ DOMAIN native = NativeFields /\ native.session = C!NoSession
      /\ disk[r].state = "none" /\ \A q \in C!Starts : disk[q].state # "open"
  BY DEF CaptureInv, CaptureTypes, NativeTypes, SessionOK, StartsOK, C!Starts
<1>6. DOMAIN native' = NativeFields /\ native'.rec = r /\ native'.arm = 0 /\ native'.session = C!NoSession
  BY <1>5 DEF NativeFields
<1>7. NativeTypes' /\ DiskTypes'  BY <1>3, <1>4, <1>6, NoSessionIs DEF NativeTypes, DiskTypes
<1>8. SessionOK'
  <2>1. \A q \in C!Starts : disk'[q].state = "open" <=> native'.rec = q  BY <1>4, <1>5, <1>6
  <2>2. \A q \in C!Starts : disk'[q].state = "none" => \A t \in Tracks : disk'[q].track[t] = <<>>
    BY <1>4 DEF CaptureInv, SessionOK
  <2> QED BY <1>6, <2>1, <2>2, NoSessionIs DEF SessionOK, C!Starts
<1>9. C!StoredInOrder'  BY <1>4 DEF CaptureInv, C!StoredInOrder
<1>10. cap # None => cap.request \in C!Starts  BY DEF CaptureInv, CaptureTypes, CapTypes
<1>11. ASSUME cap # None, Going'
       PROVE  /\ Going /\ Session(cap.request)' = Session(cap.request)
              /\ disk'[cap.request].track = disk[cap.request].track
  <2>1. Going  BY <1>1, <1>4, <1>5, <1>10, <1>11 DEF Going, CapHears, SameCapture
  <2>2. Session(cap.request) = C!NoSession /\ Session(cap.request)' = C!NoSession  BY <1>5, <1>6 DEF Session
  <2> QED BY <1>4, <1>10, <1>11, <2>1, <2>2
<1>12. GoesOn' /\ (cap # None /\ Going' => Going /\ (HeadIn' <=> HeadIn))  BY <1>1, <1>11, GoesOnShows
<1>13. CaptureFlags'
  <2>1. CASE cap = None  BY <1>1, <2>1 DEF CaptureFlags, CapHears, SameCapture
  <2>2. CASE cap # None
    <3>1. CaptureFlags /\ cap.reply # "ok"  BY <2>2 DEF CaptureInv, CaptureOK, Heard
    <3>2. PICK q \in C!Starts : q = cap.request /\ cap'.request = q  BY <1>1, <1>10, <2>2 DEF CapHears, SameCapture
    <3>3. /\ disk[q].state # "none" => disk'[q].state # "none"
          /\ disk[q].state = "saved" <=> disk'[q].state = "saved"  BY <1>4, <1>5
    <3>4. cap'.reply = "saved" => cap.reply = "saved"  BY <2>2 DEF Heard
    <3>5. cap'.reply = "ok" => bridge' = <<>> /\ ~cap.begun /\ disk'[q].state # "none"
      BY <1>4, <2>2, <3>1, <3>2 DEF Heard
    <3> QED BY <1>1, <2>2, <3>1, <3>2, <3>3, <3>4, <3>5 DEF CaptureFlags, CapHears, SameCapture
  <2> QED BY <2>1, <2>2
<1>14. BridgeOK'
  <2>1. ASSUME NEW i \in 1 .. Len(bridge')
        PROVE  LiveOK(i)' /\ MessageOK(bridge[i])'
    <3>1. PICK j \in 1 .. Len(bridge) : bridge'[i] = bridge[j]  BY <1>1 DEF BridgeShrinks
    <3>2. MessageOK(bridge[j]) /\ bridge[j].recording \in C!Starts
      BY DEF CaptureInv, BridgeOK, CaptureTypes, BridgeTypes
    <3>3. bridge[j].kind # "begin" => bridge[j].recording # r  BY <1>5, <3>2 DEF MessageOK
    <3>4. FitOK(bridge[i])'  BY <1>6, <3>1, <3>2, <3>3 DEF MessageOK, FitOK
    <3>5. FinishOK(bridge[i])'  BY <1>1, <1>6, <3>1, <3>2, <3>3 DEF MessageOK, FinishOK, CapHears, SameCapture
    <3>6. disk[bridge[j].recording].state # "none" => disk'[bridge[j].recording].state # "none"  BY <1>4, <3>2
    <3> QED BY <1>2, <3>1, <3>2, <3>4, <3>5, <3>6 DEF MessageOK
  <2> QED BY <1>2, <2>1 DEF BridgeOK
<1>15. PageOK'
  <2>1. PageOK  BY DEF CaptureInv
  <2>2. page.detail = "saved" => disk'[page.request].state = "saved"  BY <1>4, <1>5, <2>1 DEF PageOK
  <2> QED BY <1>1, <2>1, <2>2 DEF PageOK, CapHears, SameCapture
<1>16. HostOK'  BY <1>2, <1>7, <1>8, <1>9, <1>12, <1>13, <1>14, <1>15 DEF HostOK, CaptureOK
<1>17. \A q \in C!Starts : Fresh(q) => disk'[q].state = "none"
  <2>1. 1 \in 1 .. Len(bridge)  BY DEF CaptureInv, CaptureTypes, BridgeTypes
  <2> QED BY <1>4, <2>1 DEF Fresh
<1> QED BY <1>1, <1>6, <1>16, <1>17, StartsStay

(* The begin of a recording is served. *)
LEMMA ServeBeginKeeps ==
  ASSUME CaptureInv, DOMAIN None # CapFields, C!ServeBegin
  PROVE  CaptureInv'
<1>1. bridge # <<>> /\ bridge[1].kind = "begin" /\ UNCHANGED <<src, page, orders, taken, used>>  BY DEF C!ServeBegin
<1>2. PICK r \in C!Starts : r = bridge[1].recording  BY <1>1 DEF CaptureInv, CaptureTypes, BridgeTypes
<1>3. CASE C!Refuse(bridge[1])  BY <1>1, <1>3, RefuseKeeps
<1>4. CASE C!Answer(bridge[1], "unsupported") /\ UNCHANGED <<native, disk>>
  <2>1. Heard("unsupported")  BY <1>1, <1>4, AnswerIs
  <2>2. cap # None => cap'.reply = cap.reply \/ cap'.reply = "unsupported"  BY <2>1 DEF Heard
  <2>3. DOMAIN native' = NativeFields  BY <1>4 DEF CaptureInv, CaptureTypes, NativeTypes
  <2> QED BY <1>1, <1>4, <2>1, <2>2, <2>3, SameHostKeeps DEF Heard
<1>5. CASE /\ native.rec = 0 /\ native.arm = bridge[1].recording
           /\ native' = [native EXCEPT !.arm = 0, !.rec = bridge[1].recording, !.accepted = bridge[1].recording]
           /\ disk' = [disk EXCEPT ![bridge[1].recording].state = "open"] /\ C!Answer(bridge[1], "ok")
  <2>1. Heard("ok")  BY <1>1, <1>5, AnswerIs
  <2> QED BY <1>1, <1>2, <1>5, <2>1, BeginServed
<1> QED BY <1>3, <1>4, <1>5 DEF C!ServeBegin

(* The finish of a recording is served. *)
LEMMA ServeFinishKeeps ==
  ASSUME CaptureInv, DOMAIN None # CapFields, C!ServeFinish
  PROVE  CaptureInv'
<1>1. bridge # <<>> /\ bridge[1].kind = "finish" /\ UNCHANGED <<src, page, orders, taken, used>>  BY DEF C!ServeFinish
<1>2. 1 \in 1 .. Len(bridge)  BY <1>1 DEF CaptureInv, CaptureTypes, BridgeTypes
<1>3. PICK r \in C!Starts : r = bridge[1].recording  BY <1>2 DEF CaptureInv, CaptureTypes, BridgeTypes
<1>4. CASE C!Refuse(bridge[1])  BY <1>1, <1>4, RefuseKeeps
<1>5. CASE /\ native.rec = bridge[1].recording
           /\ disk' = [disk EXCEPT ![native.rec].state = IF bridge[1].interrupted THEN "interrupted" ELSE "saved"]
           /\ native' = [native EXCEPT !.rec = 0, !.ready = FALSE, !.session = C!NoSession]
           /\ C!Answer(bridge[1], IF bridge[1].interrupted THEN "interrupted" ELSE "saved")
  <2>1. PICK end \in {"interrupted", "saved"} : end = IF bridge[1].interrupted THEN "interrupted" ELSE "saved"
    OBVIOUS
  <2>2. Heard(end)
    <3>1. C!Answer(bridge[1], end)  BY <1>5, <2>1
    <3> QED BY <1>1, <3>1, AnswerIs
  <2>3. disk' = [disk EXCEPT ![native.rec].state = end]  BY <1>5, <2>1
  <2>4. DOMAIN native = NativeFields /\ native.arm \in C!Starts \cup {0} /\ native.rec # 0
    BY <1>3, <1>5 DEF CaptureInv, CaptureTypes, NativeTypes, C!Starts
  <2>5. DOMAIN native' = NativeFields /\ native'.rec = 0 /\ native'.session = C!NoSession /\ native'.arm = native.arm
    BY <1>5, <2>4 DEF NativeFields
  <2>6. NativeTypes'  BY <2>4, <2>5, NoSessionIs DEF NativeTypes
  <2>7. end = "saved" =>
          /\ \A t \in Tracks : Stored(native.rec, t) = Len(taken[native.rec][t])
          /\ cap # None /\ cap.request = native.rec => ~cap.accepting
    <3>1. FinishOK(bridge[1])  BY <1>2 DEF CaptureInv, BridgeOK, MessageOK
    <3>2. end = "saved" => ~bridge[1].interrupted  BY <2>1
    <3> QED BY <1>1, <1>5, <3>1, <3>2 DEF FinishOK
  <2>8. cap # None =>
           \/ cap'.reply = cap.reply
           \/ cap'.reply \in {"error", "interrupted"}
           \/ cap'.reply = "saved" /\ end = "saved" /\ cap.request = native.rec  BY <1>5, <2>2 DEF Heard
  <2>9. HostOK'  BY <1>1, <2>2, <2>3, <2>4, <2>5, <2>6, <2>7, <2>8, RecordingEnds DEF Heard
  <2>10. disk[r].state = "open" /\ DOMAIN disk = C!Starts
    BY <1>3, <1>5 DEF CaptureInv, SessionOK, CaptureTypes, DiskTypes
  <2>11. \A q \in C!Starts : Fresh(q) => disk'[q].state = "none"  BY <1>3, <1>5, <2>3, <2>10 DEF Fresh
  <2>12. native'.arm # 0 => disk'[native'.arm].state = "none"
    <3>1. native.arm # 0 => native.arm \in C!Starts /\ disk[native.arm].state = "none" /\ native.arm # r
      BY <2>4, <2>10 DEF CaptureInv, StartsOK
    <3> QED BY <1>3, <1>5, <2>3, <2>5, <2>10, <3>1
  <2> QED BY <1>1, <2>2, <2>5, <2>9, <2>11, <2>12, StartsStay DEF Heard
<1> QED BY <1>4, <1>5 DEF C!ServeFinish

(* A step that leaves the queue and what was taken alone leaves the bridge. *)
LEMMA BridgeStays ==
  ASSUME CaptureInv, bridge' = bridge, cap' = cap
  PROVE  BridgeShrinks /\ CapHears
<1>1. BridgeShrinks  BY DEF CaptureInv, CaptureTypes, BridgeTypes, BridgeShrinks
<1>2. CapHears  BY DEF CaptureInv, CaptureTypes, CapTypes, CapHears, SameCapture
<1> QED BY <1>1, <1>2

(* The player hides the page. *)
LEMMA PageHiddenKeeps ==
  ASSUME CaptureInv, DOMAIN None # CapFields, C!PageHidden
  PROVE  CaptureInv'
<1>1. /\ native' = [C!Interrupt(native) EXCEPT !.hiding = FALSE] /\ disk' = C!Interrupted(disk, native.rec)
      /\ UNCHANGED <<src, cap, page, bridge, orders, taken, used>>  BY DEF C!PageHidden
<1>2. PICK n : n = C!Interrupt(native)  OBVIOUS
<1>3. DOMAIN n = NativeFields /\ n.arm = 0 /\ n.rec = 0 /\ n.session = C!NoSession  BY <1>2, InterruptIs
<1>4. DOMAIN native' = NativeFields /\ native'.arm = 0 /\ native'.rec = 0 /\ native'.session = C!NoSession
  BY <1>1, <1>2, <1>3 DEF NativeFields
<1> QED BY <1>1, <1>4, BridgeStays, InterruptKeeps

(* A status message is served. *)
LEMMA ServeStatusKeeps ==
  ASSUME CaptureInv, DOMAIN None # CapFields, C!ServeStatus
  PROVE  CaptureInv'
<1>1. UNCHANGED <<src, cap, page, bridge, orders, taken, used>>  BY DEF C!ServeStatus
<1>2. DOMAIN native = NativeFields  BY DEF CaptureInv, CaptureTypes, NativeTypes
<1>3. CASE native' = native /\ disk' = disk
  <2>1. DOMAIN native' = NativeFields  BY <1>2, <1>3
  <2> QED BY <1>1, <1>3, <2>1, BridgeStays, SameHostKeeps
<1>4. CASE ~(native' = native /\ disk' = disk)
  <2>0. \E ends \in BOOLEAN : \E n :
          /\ n = IF ends THEN C!Interrupt(native) ELSE native
          /\ native' = [n EXCEPT !.ready = note.ready, !.recording = note.recording,
                                 !.arm = IF note.detail \in C!EndsArm THEN 0 ELSE @]
          /\ disk' = IF ends THEN C!Interrupted(disk, native.rec) ELSE disk
    <3>1. /\ note.generation = native.generation /\ C!IsHeard(note)  BY <1>4 DEF C!ServeStatus
    <3>2. PICK ends \in BOOLEAN : ends = (note.detail \in C!EndsRecording /\ native.rec # 0)  OBVIOUS
    <3>3. PICK n : n = IF ends THEN C!Interrupt(native) ELSE native  OBVIOUS
    <3>4. native' = [n EXCEPT !.ready = note.ready, !.recording = note.recording,
                             !.arm = IF note.detail \in C!EndsArm THEN 0 ELSE @]
      BY <3>1, <3>2, <3>3 DEF C!ServeStatus
    <3>5. disk' = IF ends THEN C!Interrupted(disk, native.rec) ELSE disk  BY <3>1, <3>2 DEF C!ServeStatus
    <3> QED BY <3>3, <3>4, <3>5
  <2>1. PICK ends \in BOOLEAN : \E n :
          /\ n = IF ends THEN C!Interrupt(native) ELSE native
          /\ native' = [n EXCEPT !.ready = note.ready, !.recording = note.recording,
                                 !.arm = IF note.detail \in C!EndsArm THEN 0 ELSE @]
          /\ disk' = IF ends THEN C!Interrupted(disk, native.rec) ELSE disk  BY <2>0
  <2>4. PICK n : /\ n = IF ends THEN C!Interrupt(native) ELSE native
                 /\ native' = [n EXCEPT !.ready = note.ready, !.recording = note.recording,
                                        !.arm = IF note.detail \in C!EndsArm THEN 0 ELSE @]
                 /\ disk' = IF ends THEN C!Interrupted(disk, native.rec) ELSE disk  BY <2>1
  <2>2. CASE ends
    <3>1. DOMAIN n = NativeFields /\ n.arm = 0 /\ n.rec = 0 /\ n.session = C!NoSession  BY <2>4, <2>2, InterruptIs
    <3>2. DOMAIN native' = NativeFields /\ native'.arm = 0 /\ native'.rec = 0 /\ native'.session = C!NoSession
      BY <2>4, <3>1 DEF NativeFields
    <3>3. disk' = C!Interrupted(disk, native.rec)  BY <2>4, <2>2
    <3> QED BY <1>1, <3>2, <3>3, BridgeStays, InterruptKeeps
  <2>3. CASE ~ends
    <3>1. n = native /\ disk' = disk  BY <2>4, <2>3
    <3>2. DOMAIN native' = NativeFields /\ native'.arm \in {0, native.arm} /\ native'.rec = native.rec
          /\ native'.session = native.session  BY <1>2, <2>4, <3>1 DEF NativeFields
    <3> QED BY <1>1, <3>1, <3>2, BridgeStays, SameHostKeeps
  <2> QED BY <2>2, <2>3
<1> QED BY <1>3, <1>4

(* A command is sent to the page. *)
LEMMA OrdersGrow ==
  ASSUME CaptureInv, NEW r \in C!Starts \cup {0}, orders' = Append(orders, r)
  PROVE  /\ orders' \in Seq(C!Starts \cup {0}) /\ Len(orders) \in Nat /\ Len(orders') = Len(orders) + 1
         /\ orders'[Len(orders) + 1] = r /\ \A i \in 1 .. Len(orders) : orders'[i] = orders[i]
BY DEF CaptureInv, CaptureTypes, PageTypes

(* The user starts or stops a recording. *)
LEMMA NativeOrderKeeps ==
  ASSUME CaptureInv, DOMAIN None # CapFields, MaxStarts \in Nat, C!NativeStart \/ C!NativeStop
  PROVE  CaptureInv'
<1>1. UNCHANGED <<src, cap, page, bridge, disk, taken>>  BY DEF C!NativeStart, C!NativeStop
<1>2. DOMAIN native = NativeFields /\ DOMAIN used = {"starts", "reloads", "faults"} /\ used.starts \in 0 .. MaxStarts
  BY DEF CaptureInv, CaptureTypes, NativeTypes, PageTypes
<1>3. PICK n \in Nat : n = used.starts  BY <1>2
<1>4. PICK r \in C!Starts \cup {0} :
        /\ orders' = Append(orders, r) /\ DOMAIN native' = NativeFields /\ native'.arm = r
        /\ native'.rec = native.rec /\ native'.session = native.session
        /\ DOMAIN used' = DOMAIN used /\ used'.starts = IF r = 0 THEN n ELSE r
        /\ r # 0 => r = n + 1
  <2>1. CASE C!NativeStart
    <3>1. PICK r \in C!Starts : r = n + 1  BY <1>2, <1>3, <2>1 DEF C!NativeStart, C!Starts
    <3>2. /\ used' = [used EXCEPT !.starts = r] /\ orders' = Append(orders, r)
          /\ native' = [native EXCEPT !.arm = r, !.armed = native.generation]
      BY <1>3, <2>1, <3>1 DEF C!NativeStart
    <3>3. DOMAIN used' = DOMAIN used /\ used'.starts = r  BY <1>2, <3>2
    <3>4. DOMAIN native' = NativeFields /\ native'.arm = r /\ native'.rec = native.rec /\ native'.session = native.session
      BY <1>2, <3>2 DEF NativeFields
    <3>5. r # 0  BY <3>1
    <3> QED BY <3>1, <3>2, <3>3, <3>4, <3>5
  <2>2. CASE C!NativeStop
    <3>1. used' = used /\ orders' = Append(orders, 0) /\ native' = [native EXCEPT !.arm = 0]  BY <2>2 DEF C!NativeStop
    <3>2. DOMAIN native' = NativeFields /\ native'.arm = 0 /\ native'.rec = native.rec /\ native'.session = native.session
      BY <1>2, <3>1 DEF NativeFields
    <3>3. PICK r \in C!Starts \cup {0} : r = 0  OBVIOUS
    <3> QED BY <1>3, <3>1, <3>2, <3>3
  <2> QED BY <2>1, <2>2
<1>5. NativeTypes'  BY <1>4 DEF CaptureInv, CaptureTypes, NativeTypes
<1>6. HostOK'  BY <1>1, <1>4, <1>5, BridgeStays, NothingStored
<1>7. /\ orders' \in Seq(C!Starts \cup {0}) /\ Len(orders) \in Nat /\ Len(orders') = Len(orders) + 1
      /\ orders'[Len(orders) + 1] = r /\ \A i \in 1 .. Len(orders) : orders'[i] = orders[i]
  BY <1>4, OrdersGrow
<1>8. used'.starts \in 0 .. MaxStarts /\ n <= used'.starts /\ (r # 0 => r = n + 1 /\ used'.starts = r)
  BY <1>2, <1>3, <1>4 DEF C!Starts
<1>9. PageTypes'  BY <1>1, <1>4, <1>7, <1>8 DEF CaptureInv, CaptureTypes, PageTypes
<1>10. \A q : Fresh(q)' <=> Fresh(q)  BY <1>1 DEF Fresh
<1>11. r # 0 => r \in C!Starts /\ Fresh(r)
  <2>1. \A q \in C!Starts : q > used.starts => Fresh(q)  BY DEF CaptureInv, StartsOK
  <2> QED BY <1>3, <1>4, <2>1
<1>12. ASSUME NEW i \in 1 .. Len(orders), orders[i] # 0
       PROVE  /\ Fresh(orders[i]) /\ orders[i] \in C!Starts /\ orders[i] <= n /\ orders[i] # page.preparing
              /\ \A j \in 1 .. Len(orders) : i # j => orders[j] # orders[i]
  <2>1. orders[i] \in C!Starts \cup {0}  BY DEF CaptureInv, CaptureTypes, PageTypes
  <2> QED BY <1>3, <1>12, <2>1 DEF CaptureInv, StartsOK
<1>13. page.preparing # 0 => cap = None /\ Fresh(page.preparing) /\ page.preparing <= n /\ page.preparing \in C!Starts
  BY <1>3 DEF CaptureInv, StartsOK, CaptureTypes, PageTypes
<1>14. ASSUME NEW i \in 1 .. Len(orders'), orders'[i] # 0
       PROVE  /\ Fresh(orders'[i]) /\ orders'[i] <= used'.starts /\ orders'[i] # page.preparing
              /\ \A j \in 1 .. Len(orders') : i # j => orders'[j] # orders'[i]
  <2>1. CASE i \in 1 .. Len(orders)
    <3>1. orders'[i] = orders[i] /\ orders[i] # 0  BY <1>7, <1>14, <2>1
    <3>2. /\ Fresh(orders[i]) /\ orders[i] \in C!Starts /\ orders[i] <= n /\ orders[i] # page.preparing
          /\ \A j \in 1 .. Len(orders) : i # j => orders[j] # orders[i]  BY <1>12, <2>1, <3>1
    <3>3. orders[i] <= used'.starts /\ orders[i] # r  BY <1>3, <1>8, <3>1, <3>2 DEF C!Starts
    <3>4. \A j \in 1 .. Len(orders') : i # j => orders'[j] # orders'[i]  BY <1>7, <3>1, <3>2, <3>3
    <3> QED BY <3>1, <3>2, <3>3, <3>4
  <2>2. CASE i = Len(orders) + 1
    <3>1. orders'[i] = r /\ r # 0 /\ Fresh(r) /\ used'.starts = r /\ r = n + 1 /\ r \in C!Starts
      BY <1>7, <1>8, <1>11, <1>14, <2>2
    <3>2. r # page.preparing  BY <1>3, <1>13, <3>1 DEF C!Starts
    <3>3. ASSUME NEW j \in 1 .. Len(orders'), i # j
          PROVE  orders'[j] # r
      <4>1. j \in 1 .. Len(orders) /\ orders'[j] = orders[j]  BY <1>7, <2>2, <3>3
      <4>2. orders[j] # 0 => orders[j] \in C!Starts /\ orders[j] <= n  BY <1>12, <4>1
      <4> QED BY <3>1, <4>1, <4>2 DEF C!Starts
    <3>4. r <= used'.starts  BY <3>1 DEF C!Starts
    <3> QED BY <3>1, <3>2, <3>3, <3>4
  <2> QED BY <1>7, <2>1, <2>2
<1>15. StartsOK'
  <2>1. ASSUME NEW q \in C!Starts, q > used'.starts
        PROVE  Fresh(q)
    <3>1. q > used.starts  BY <1>3, <1>8, <2>1 DEF C!Starts
    <3> QED BY <3>1 DEF CaptureInv, StartsOK
  <2>2. page.preparing # 0 => page.preparing <= used'.starts  BY <1>3, <1>8, <1>13 DEF C!Starts
  <2>3. native'.arm # 0 => disk[native'.arm].state = "none"  BY <1>4, <1>11 DEF Fresh
  <2> QED BY <1>1, <1>10, <1>13, <1>14, <2>1, <2>2, <2>3 DEF StartsOK
<1> QED BY <1>6, <1>9, <1>15 DEF HostOK, CaptureInv, CaptureTypes

(* The page sends its status. *)
LEMMA PostStatusKeeps ==
  ASSUME CaptureInv, UNCHANGED <<src, cap, page, bridge, orders, native, disk, taken, used>>
  PROVE  CaptureInv'
<1>1. OrdersFollow  BY OrdersStay
<1>2. /\ DOMAIN page' = {"request", "preparing", "detail"} /\ page'.preparing \in C!Starts \cup {0}
      /\ page'.preparing # 0 => cap = None /\ Fresh(page'.preparing) /\ page'.preparing <= used.starts
      /\ cap # None => page'.request = cap.request
  BY DEF CaptureInv, CaptureTypes, PageTypes, StartsOK, PageOK
<1>3. page'.preparing # 0 => \A i \in 1 .. Len(orders') : orders'[i] # page'.preparing  BY <1>1 DEF OrdersFollow
<1> QED BY <1>1, <1>2, <1>3, PageKeeps

(* A message of the page that is left: it is one that was on its way, or its
   last one, which says that the recording is interrupted. *)
LeftOver(m) ==
  /\ DOMAIN m = MessageFields /\ ~m.live
  /\ \/ \E j \in 1 .. Len(bridge) :
          /\ m.kind = bridge[j].kind /\ m.recording = bridge[j].recording
          /\ m.track = bridge[j].track /\ m.index = bridge[j].index
          /\ m.chunk = bridge[j].chunk /\ m.last = bridge[j].last
          /\ m.piece = bridge[j].piece /\ m.interrupted = bridge[j].interrupted
          /\ m.generation = bridge[j].generation
     \/ /\ cap # None /\ cap.begun /\ m.kind = "finish" /\ m.recording = cap.request /\ m.interrupted
        /\ m.generation \in {native.generation, native.generation + 1}

LEMMA ReloadBridge ==
  ASSUME CaptureInv, DOMAIN None # CapFields, C!Reload
  PROVE  (\E S : bridge' \in Seq(S)) /\ \A i \in 1 .. Len(bridge') : LeftOver(bridge'[i])
<1>1. PICK S : bridge \in Seq(S)  BY DEF CaptureInv, CaptureTypes, BridgeTypes
<1>2. \A i \in 1 .. Len(bridge) : DOMAIN bridge[i] = MessageFields  BY DEF CaptureInv, CaptureTypes, BridgeTypes
<1>3. PICK over : over = [i \in 1 .. Len(bridge) |-> [bridge[i] EXCEPT !.live = FALSE]]  OBVIOUS
<1>4. PICK n \in Nat : n = Len(bridge)  BY <1>1
<1>5. PICK T : T = {[bridge[i] EXCEPT !.live = FALSE] : i \in 1 .. n}  OBVIOUS
<1>6. over \in Seq(T) /\ Len(over) = n
  <2>1. \A i \in 1 .. n : [bridge[i] EXCEPT !.live = FALSE] \in T  BY <1>5
  <2>2. over \in [1 .. n -> T]  BY <1>3, <1>4, <2>1
  <2> QED BY <2>2
<1>7. ASSUME NEW i \in 1 .. n
      PROVE  /\ DOMAIN over[i] = MessageFields /\ ~over[i].live
             /\ over[i].kind = bridge[i].kind /\ over[i].recording = bridge[i].recording
             /\ over[i].track = bridge[i].track /\ over[i].index = bridge[i].index
             /\ over[i].chunk = bridge[i].chunk /\ over[i].last = bridge[i].last
             /\ over[i].piece = bridge[i].piece /\ over[i].interrupted = bridge[i].interrupted
             /\ over[i].generation = bridge[i].generation  BY <1>2, <1>3, <1>4 DEF MessageFields
<1>8. CASE bridge' = over  BY <1>4, <1>6, <1>7, <1>8 DEF LeftOver
<1>9. CASE bridge' # over
  <2>1. PICK last, g, live : /\ last = [C!Failure(cap) EXCEPT !.drained = TRUE] /\ live = FALSE
                             /\ cap # None /\ cap.begun /\ cap.queue = <<>>
                             /\ g \in {native.generation, native.generation + 1}
                             /\ bridge' = Append(over, C!Message(last, g, live))
    <3>1. [i \in DOMAIN bridge |-> [bridge[i] EXCEPT !.live = FALSE]] = over  BY <1>1, <1>3
    <3>2. PICK g \in {native.generation, native.generation + 1} :
                   /\ cap # None /\ cap.begun /\ cap.queue = <<>>
                   /\ bridge' = Append(over, C!Message([C!Failure(cap) EXCEPT !.drained = TRUE], g, FALSE))
      BY <1>9, <3>1 DEF C!Reload, C!Recording
    <3> QED BY <3>2
  <2>2. PICK m : m = C!Message(last, g, live)  OBVIOUS
  <2>3. PostedBy(m, last) /\ m.live = live  BY <2>2, MessageIs
  <2>4. PICK f : f = [cap EXCEPT !.interrupted = TRUE, !.accepting = FALSE, !.stopping = TRUE]  OBVIOUS
  <2>5. DOMAIN cap = CapFields  BY <2>1 DEF CaptureInv, CaptureTypes, CapTypes
  <2>6. DOMAIN f = CapFields /\ f.begun = cap.begun /\ f.queue = cap.queue /\ f.request = cap.request /\ f.interrupted
    BY <2>4, <2>5 DEF CapFields
  <2>7. last = [f EXCEPT !.drained = TRUE]  BY <2>1, <2>4 DEF C!Failure
  <2>8. last.begun = cap.begun /\ last.queue = <<>> /\ last.request = cap.request /\ last.interrupted /\ last.drained
    BY <2>1, <2>6, <2>7 DEF CapFields
  <2>9. m.kind = "finish"  BY <2>1, <2>2, <2>8 DEF C!Message, C!Due
  <2>10. DOMAIN m = MessageFields /\ ~m.live /\ m.recording = cap.request /\ m.interrupted /\ m.generation = g
    BY <2>1, <2>2, <2>3, <2>8 DEF PostedBy, C!Message
  <2>11. PICK U : U = T \cup {m}  OBVIOUS
  <2>12. over \in Seq(U) /\ m \in U  BY <1>6, <2>11
  <2>13. /\ bridge' \in Seq(U) /\ Len(bridge') = n + 1 /\ bridge'[n + 1] = m
         /\ \A i \in 1 .. n : bridge'[i] = over[i]  BY <1>4, <1>6, <2>1, <2>2, <2>12
  <2>14. ASSUME NEW i \in 1 .. Len(bridge') PROVE LeftOver(bridge'[i])
    <3>1. i \in 1 .. n \/ i = n + 1  BY <2>13
    <3>2. CASE i \in 1 .. n  BY <1>4, <1>7, <2>13, <3>2 DEF LeftOver
    <3>3. CASE i = n + 1  BY <2>1, <2>9, <2>10, <2>13, <3>3 DEF LeftOver
    <3> QED BY <3>1, <3>2, <3>3
  <2>15. \E V : bridge' \in Seq(V)  BY <2>13
  <2> QED BY <2>14, <2>15
<1> QED BY <1>8, <1>9

(* The page is loaded again. *)
LEMMA ReloadKeeps ==
  ASSUME CaptureInv, DOMAIN None # CapFields, C!Reload
  PROVE  CaptureInv'
<1>1. /\ used' = [used EXCEPT !.reloads = @ + 1] /\ src' = C!FreshSource(1) /\ cap' = None /\ page' = C!FreshPage
      /\ native' = [native EXCEPT !.generation = native.generation + 1, !.ready = FALSE, !.hiding = TRUE]
      /\ orders' \in {orders, <<>>} /\ disk' = disk /\ taken' = taken  BY DEF C!Reload
<1>2. DOMAIN native = NativeFields /\ DOMAIN used = {"starts", "reloads", "faults"}
  BY DEF CaptureInv, CaptureTypes, NativeTypes, PageTypes
<1>3. /\ DOMAIN native' = NativeFields /\ native'.rec = native.rec /\ native'.arm = native.arm
      /\ native'.session = native.session  BY <1>1, <1>2 DEF NativeFields
<1>4. DOMAIN used' = {"starts", "reloads", "faults"} /\ used'.starts = used.starts  BY <1>1, <1>2
<1>5. DOMAIN page' = {"request", "preparing", "detail"} /\ page'.preparing = 0 /\ page'.detail = "ready"
  BY <1>1 DEF C!FreshPage
<1>6. /\ \E S : bridge' \in Seq(S)
      /\ \A i \in 1 .. Len(bridge') :
           /\ DOMAIN bridge'[i] = MessageFields /\ ~bridge'[i].live
           /\ \/ \E j \in 1 .. Len(bridge) :
                   /\ bridge'[i].kind = bridge[j].kind /\ bridge'[i].recording = bridge[j].recording
                   /\ bridge'[i].track = bridge[j].track /\ bridge'[i].index = bridge[j].index
                   /\ bridge'[i].chunk = bridge[j].chunk /\ bridge'[i].last = bridge[j].last
                   /\ bridge'[i].piece = bridge[j].piece /\ bridge'[i].interrupted = bridge[j].interrupted
              \/ /\ cap # None /\ cap.begun /\ bridge'[i].kind = "finish"
                 /\ bridge'[i].recording = cap.request /\ bridge'[i].interrupted  BY ReloadBridge DEF LeftOver
<1>7. cap # None => cap.request \in C!Starts  BY DEF CaptureInv, CaptureTypes, CapTypes
<1>8. CaptureTypes'
  <2>1. SourceTypes'  BY <1>1 DEF SourceTypes, C!FreshSource, C!EachTrack
  <2>2. BridgeTypes'  BY <1>6, <1>7 DEF CaptureInv, CaptureTypes, BridgeTypes
  <2>3. NativeTypes' /\ DiskTypes' /\ CapTypes'
    BY <1>1, <1>3 DEF CaptureInv, CaptureTypes, NativeTypes, DiskTypes, CapTypes
  <2>4. PageTypes'
    <3>1. orders' \in Seq(C!Starts \cup {0})
      <4>1. orders \in Seq(C!Starts \cup {0}) /\ <<>> \in Seq(C!Starts \cup {0})
        BY DEF CaptureInv, CaptureTypes, PageTypes
      <4> QED BY <1>1, <4>1
    <3>2. used.starts \in 0 .. MaxStarts  BY DEF CaptureInv, CaptureTypes, PageTypes
    <3> QED BY <1>4, <1>5, <3>1, <3>2 DEF PageTypes
  <2> QED BY <2>1, <2>2, <2>3, <2>4 DEF CaptureTypes
<1>9. SessionOK'  BY <1>1, <1>3 DEF CaptureInv, SessionOK, Stored, NextPiece
<1>10. C!StoredInOrder'  BY <1>1 DEF CaptureInv, C!StoredInOrder
<1>11. CaptureOK'  BY <1>1 DEF CaptureOK, CaptureFlags, QueueInRow, GoesOn, Going, Taking
<1>12. ASSUME NEW i \in 1 .. Len(bridge')
       PROVE  LiveOK(i)' /\ MessageOK(bridge[i])'
  <2>1. LiveOK(i)' /\ ChunkOK(bridge[i])'  BY <1>1, <1>6 DEF LiveOK, ChunkOK
  <2>2. CASE \E j \in 1 .. Len(bridge) :
                   /\ bridge'[i].kind = bridge[j].kind /\ bridge'[i].recording = bridge[j].recording
                   /\ bridge'[i].track = bridge[j].track /\ bridge'[i].index = bridge[j].index
                   /\ bridge'[i].chunk = bridge[j].chunk /\ bridge'[i].last = bridge[j].last
                   /\ bridge'[i].piece = bridge[j].piece /\ bridge'[i].interrupted = bridge[j].interrupted
    <3>1. PICK j \in 1 .. Len(bridge) :
                   /\ bridge'[i].kind = bridge[j].kind /\ bridge'[i].recording = bridge[j].recording
                   /\ bridge'[i].track = bridge[j].track /\ bridge'[i].index = bridge[j].index
                   /\ bridge'[i].chunk = bridge[j].chunk /\ bridge'[i].last = bridge[j].last
                   /\ bridge'[i].piece = bridge[j].piece /\ bridge'[i].interrupted = bridge[j].interrupted
      BY <2>2
    <3>2. MessageOK(bridge[j])  BY DEF CaptureInv, BridgeOK
    <3>3. FitOK(bridge[i])'  BY <1>1, <1>3, <3>1, <3>2 DEF MessageOK, FitOK, Expected, Stored, NextPiece, Receipt
    <3>4. FinishOK(bridge[i])'  BY <1>1, <1>3, <3>1, <3>2 DEF MessageOK, FinishOK, Stored
    <3> QED BY <1>1, <2>1, <3>1, <3>2, <3>3, <3>4 DEF MessageOK
  <2>3. CASE /\ cap # None /\ cap.begun /\ bridge'[i].kind = "finish"
             /\ bridge'[i].recording = cap.request /\ bridge'[i].interrupted
    <3>1. disk[cap.request].state # "none"  BY <2>3 DEF CaptureInv, CaptureOK, CaptureFlags
    <3> QED BY <1>1, <2>1, <2>3, <3>1 DEF MessageOK, FitOK, FinishOK
  <2> QED BY <1>6, <2>2, <2>3
<1>13. OneChunk'
  <2> SUFFICES ASSUME NEW i \in 1 .. Len(bridge'), NEW k \in 1 .. Len(bridge'),
                      bridge'[i].kind = "append", bridge'[k].kind = "append",
                      bridge'[i].recording = bridge'[k].recording
               PROVE  Receipt(bridge'[i]) = Receipt(bridge'[k])  BY DEF OneChunk, Receipt
  <2>1. PICK j \in 1 .. Len(bridge) :
          /\ bridge[j].kind = "append" /\ bridge'[i].recording = bridge[j].recording
          /\ bridge'[i].track = bridge[j].track /\ bridge'[i].index = bridge[j].index
          /\ bridge'[i].chunk = bridge[j].chunk  BY <1>6
  <2>2. PICK l \in 1 .. Len(bridge) :
          /\ bridge[l].kind = "append" /\ bridge'[k].recording = bridge[l].recording
          /\ bridge'[k].track = bridge[l].track /\ bridge'[k].index = bridge[l].index
          /\ bridge'[k].chunk = bridge[l].chunk  BY <1>6
  <2>3. Receipt(bridge[j]) = Receipt(bridge[l])  BY <2>1, <2>2 DEF CaptureInv, BridgeOK, OneChunk
  <2> QED BY <2>1, <2>2, <2>3 DEF Receipt
<1>14. BridgeOK'  BY <1>12, <1>13 DEF BridgeOK
<1>15. ASSUME NEW q, Fresh(q)
       PROVE  Fresh(q)'  BY <1>1, <1>6, <1>15 DEF Fresh
<1>16. StartsOK'
  <2>1. \A q \in C!Starts : q > used'.starts => Fresh(q)'  BY <1>4, <1>15 DEF CaptureInv, StartsOK
  <2>2. ASSUME NEW i \in 1 .. Len(orders'), orders'[i] # 0
        PROVE  /\ orders' = orders /\ Fresh(orders[i])' /\ orders'[i] <= used'.starts /\ orders'[i] # page'.preparing
               /\ \A j \in 1 .. Len(orders') : i # j => orders'[j] # orders'[i]
    <3>1. orders' = orders
      <4>1. Len(<<>>) = 0  OBVIOUS
      <4> QED BY <1>1, <2>2, <4>1
    <3>2. /\ Fresh(orders[i]) /\ orders[i] <= used.starts
          /\ \A j \in 1 .. Len(orders) : i # j => orders[j] # orders[i]
      BY <2>2, <3>1 DEF CaptureInv, StartsOK
    <3>3. PICK q : q = orders[i]  OBVIOUS
    <3>4. Fresh(q)'  BY <1>15, <3>2, <3>3
    <3>5. Fresh(orders[i])'  BY <3>1, <3>3, <3>4 DEF Fresh
    <3> QED BY <1>4, <1>5, <2>2, <3>1, <3>2, <3>5
  <2>3. native'.arm # 0 => disk'[native'.arm].state = "none"  BY <1>1, <1>3 DEF CaptureInv, StartsOK
  <2> QED BY <1>5, <2>1, <2>2, <2>3 DEF StartsOK
<1>17. PageOK'  BY <1>1, <1>5 DEF PageOK
<1> QED BY <1>8, <1>9, <1>10, <1>11, <1>14, <1>16, <1>17 DEF CaptureInv

(* A chunk that is served, of the recording that is going on. *)
Served(r) ==
  /\ bridge # <<>> /\ bridge[1].kind = "append" /\ bridge[1].recording = r /\ native.rec = r /\ r \in C!Starts
  /\ Heard("ok") /\ UNCHANGED <<src, page, orders, taken, used>>

(* What the invariant says of a chunk that is served. *)
LEMMA ServedChunk ==
  ASSUME CaptureInv, NEW r, Served(r)
  PROVE  /\ 1 \in 1 .. Len(bridge) /\ ChunkOK(bridge[1]) /\ FitOK(bridge[1]) /\ disk[r].state = "open"
         /\ bridge[1].track \in Tracks /\ bridge[1].index \in Nat /\ bridge[1].chunk \in Nat /\ bridge[1].piece \in Nat
         /\ native.session.next \in [Tracks -> Nat] /\ Len(native.session.partial) \in Nat
         /\ \A t \in Tracks : Stored(r, t) \in Nat /\ Len(taken[r][t]) \in Nat
<1>1. 1 \in 1 .. Len(bridge)  BY DEF Served, CaptureInv, CaptureTypes, BridgeTypes
<1>2. MessageOK(bridge[1])  BY <1>1 DEF CaptureInv, BridgeOK
<1>3. ChunkOK(bridge[1]) /\ FitOK(bridge[1])  BY <1>2 DEF MessageOK
<1>4. disk[r].state = "open"  BY DEF Served, CaptureInv, SessionOK
<1>5. bridge[1].track \in Tracks /\ bridge[1].index \in Nat /\ bridge[1].chunk \in Nat /\ bridge[1].piece \in Nat
  BY <1>3 DEF FitOK, Served
<1>6. native.session.next \in [Tracks -> Nat] /\ native.session.partial \in Seq([track : Tracks, piece : Nat])
  BY DEF CaptureInv, CaptureTypes, NativeTypes
<1>7. ASSUME NEW t \in Tracks
      PROVE  Stored(r, t) \in Nat /\ Len(taken[r][t]) \in Nat
  <2>1. PICK a \in Seq(Nat), b \in Seq(Nat) : a = disk[r].track[t] /\ b = taken[r][t]
    BY DEF Served, CaptureInv, CaptureTypes, DiskTypes
  <2> QED BY <2>1 DEF Stored
<1> QED BY <1>1, <1>3, <1>4, <1>5, <1>6, <1>7

(* The answer to a chunk that has been stored before is lost no more. *)
LEMMA RepeatKeeps ==
  ASSUME CaptureInv, NEW r, Served(r), native.session.previous = Receipt(bridge[1]), UNCHANGED <<native, disk>>
  PROVE  CaptureInv'
<1>1. ASSUME cap # None, bridge[1].live
      PROVE  /\ cap'.reply = "ok" /\ bridge' = <<>> /\ disk[cap.request].state # "none"
             /\ cap.begun => cap.queue # <<>> /\ (Going => HeadIn)
  <2>1. /\ cap'.reply = "ok" /\ bridge' = <<>> /\ cap.request = r /\ cap.begun /\ cap.queue # <<>>
    BY <1>1 DEF Served, Heard
  <2>2. disk[r].state = "open" /\ ChunkOK(bridge[1])  BY ServedChunk
  <2>3. ASSUME Going
        PROVE  HeadIn
    <3>1. Receipt(bridge[1]) = Position  BY <1>1, <2>1, <2>2, <2>3 DEF ChunkOK, Going, Served
    <3> QED BY <2>1, <3>1 DEF HeadIn, Session, Served
  <2> QED BY <2>1, <2>2, <2>3
<1>2. cap # None => \/ cap'.reply = cap.reply
                    \/ /\ cap'.reply = "ok" /\ bridge' = <<>> /\ disk[cap.request].state # "none"
                       /\ cap.begun => cap.queue # <<>> /\ (Going => HeadIn)  BY <1>1 DEF Served, Heard
<1>3. DOMAIN native' = NativeFields /\ native'.arm \in {0, native.arm} /\ native'.rec = native.rec
      /\ native'.session = native.session  BY DEF CaptureInv, CaptureTypes, NativeTypes
<1>4. BridgeShrinks /\ CapHears /\ UNCHANGED <<src, page, orders, taken, disk>>
      /\ DOMAIN used' = DOMAIN used /\ used'.starts = used.starts  BY DEF Served, Heard
<1> QED BY <1>2, <1>3, <1>4, SameHostKeeps

(* The parts of the invariant a stored chunk does not touch. *)
LEMMA ChunkRest ==
  ASSUME CaptureInv, NEW r, Served(r), native.session.previous # Receipt(bridge[1]), Expected(bridge[1]),
         native'.rec = native.rec, native'.arm = native.arm, native'.session.previous = Receipt(bridge[1]),
         \A q \in C!Starts : disk'[q].state = disk[q].state,
         NativeTypes', DiskTypes', SessionOK', C!StoredInOrder', GoesOn'
  PROVE  CaptureInv'
<1>1. BridgeShrinks /\ CapHears /\ taken' = taken /\ page' = page /\ used' = used /\ orders' = orders /\ src' = src
  BY DEF Served, Heard
<1>2. /\ SourceTypes' /\ BridgeTypes' /\ CapTypes' /\ OneChunk' /\ QueueInRow' /\ Taking'
      /\ \A i \in 1 .. Len(bridge') : LiveOK(i)' /\ ChunkOK(bridge[i])'  BY <1>1, HearsKeeps
<1>3. /\ 1 \in 1 .. Len(bridge) /\ ChunkOK(bridge[1]) /\ FitOK(bridge[1]) /\ disk[r].state = "open"
      /\ bridge[1].track \in Tracks /\ Len(native.session.partial) \in Nat
      /\ \A t \in Tracks : Stored(r, t) \in Nat /\ Len(taken[r][t]) \in Nat  BY ServedChunk
<1>4. cap # None => cap.request \in C!Starts  BY DEF CaptureInv, CaptureTypes, CapTypes
<1>5. cap # None => (Going' <=> Going)  BY <1>1, <1>4 DEF Going, CapHears, SameCapture
<1>6. CaptureFlags'
  <2>1. CASE cap = None  BY <1>1, <2>1 DEF CaptureFlags, CapHears, SameCapture
  <2>2. CASE cap # None
    <3>1. CaptureFlags /\ cap.reply # "ok" /\ disk'[cap.request].state = disk[cap.request].state
      BY <1>4, <2>2 DEF CaptureInv, CaptureOK, Served, Heard
    <3>2. cap'.reply = cap.reply \/ (bridge[1].live /\ cap'.reply = "ok")  BY <2>2 DEF Served, Heard
    <3>3. ASSUME bridge[1].live, cap'.reply = "ok"
          PROVE  /\ bridge' = <<>> /\ disk[cap.request].state # "none"
                 /\ cap.begun /\ cap.queue # <<>> /\ (Going' => HeadIn')
      <4>1. bridge' = <<>> /\ cap.request = r /\ cap.begun /\ cap.queue # <<>>  BY <3>3 DEF Served, Heard
      <4>2. ASSUME Going'
            PROVE  HeadIn'
        <5>1. Receipt(bridge[1]) = Position  BY <1>3, <1>5, <2>2, <4>1, <4>2 DEF ChunkOK, Going, Served
        <5>2. Position' = Position /\ cap'.request = cap.request  BY <1>1, <2>2 DEF Position, CapHears, SameCapture
        <5>3. Session(cap.request)' = native'.session  BY <4>1, <5>2 DEF Session, Served
        <5> QED BY <5>1, <5>2, <5>3 DEF HeadIn
      <4> QED BY <1>3, <4>1, <4>2
    <3> QED BY <1>1, <2>2, <3>1, <3>2, <3>3 DEF CaptureFlags, CapHears, SameCapture, BridgeShrinks
  <2> QED BY <2>1, <2>2
<1>7. BridgeOK'
  <2>1. ASSUME NEW i \in 1 .. Len(bridge')
        PROVE  LiveOK(i)' /\ MessageOK(bridge[i])'
    <3>1. PICK j \in 1 .. Len(bridge) : bridge'[i] = bridge[j]  BY <1>1 DEF BridgeShrinks
    <3>2. MessageOK(bridge[j]) /\ bridge[j].recording \in C!Starts
      BY DEF CaptureInv, BridgeOK, CaptureTypes, BridgeTypes
    <3>3. FitOK(bridge[i])'
      <4>1. bridge[j].kind = "append" =>
              /\ bridge[j].track \in Tracks /\ bridge[j].index \in Nat
              /\ bridge[j].chunk \in Nat /\ bridge[j].piece \in Nat  BY <3>2 DEF MessageOK, FitOK
      <4>2. bridge[j].kind = "append" /\ bridge[j].recording = r => Receipt(bridge[j]) = Receipt(bridge[1])
        BY <1>3 DEF CaptureInv, BridgeOK, OneChunk, Served
      <4>3. bridge'[i].kind = "append" /\ native'.rec = bridge'[i].recording =>
              native'.session.previous = Receipt(bridge'[i])  BY <3>1, <4>2 DEF Served
      <4> QED BY <3>1, <4>1, <4>3 DEF FitOK, Receipt
    <3>4. FinishOK(bridge[i])'
      <4>1. ASSUME bridge[j].kind = "finish", ~bridge[j].interrupted, bridge[j].recording = r
            PROVE  FALSE
        <5>1. \A t \in Tracks : Stored(r, t) = Len(taken[r][t])  BY <3>2, <4>1 DEF MessageOK, FinishOK, Served
        <5>2. Stored(r, bridge[1].track) + Len(native.session.partial) < Len(taken[r][bridge[1].track])
          BY <1>3 DEF FitOK, Served
        <5> QED BY <1>3, <5>1, <5>2
      <4> QED BY <1>1, <3>1, <3>2, <4>1 DEF MessageOK, FinishOK, CapHears, SameCapture, Served
    <3> QED BY <1>2, <3>1, <3>2, <3>3, <3>4 DEF MessageOK
  <2> QED BY <1>2, <2>1 DEF BridgeOK
<1>8. PageOK'  BY <1>1 DEF CaptureInv, PageOK, CapHears, SameCapture
<1>9. HostOK'  BY <1>2, <1>6, <1>7, <1>8 DEF HostOK, CaptureOK
<1>10. \A q \in C!Starts : Fresh(q) => disk'[q].state = "none"  BY DEF Fresh
<1>11. native'.arm # 0 => disk'[native'.arm].state = "none"  BY DEF CaptureInv, StartsOK, CaptureTypes, NativeTypes
<1> QED BY <1>1, <1>9, <1>10, <1>11, StartsStay

(* The page's head is the chunk that is served. *)
LEMMA HeadServed ==
  ASSUME CaptureInv, NEW r, Served(r), native.session.previous # Receipt(bridge[1]),
         cap # None, Going, cap.request = r
  PROVE  /\ cap.queue # <<>> /\ Len(cap.queue) >= 1 /\ cap.queue[1] \in Appends /\ cap.chunk \in Nat
         /\ bridge[1].track = cap.queue[1].track /\ bridge[1].index = cap.queue[1].index
         /\ bridge[1].chunk = cap.chunk /\ Receipt(bridge[1]) = Position
         /\ bridge[1].last <=> cap.chunk + 1 = Len(cap.queue[1].pieces)
         /\ ~HeadIn /\ ~HeadWhole /\ Waiting = 1 .. Len(cap.queue) /\ Session(r) = native.session
         /\ QueueContinues /\ HeadContinues
<1>1. ChunkOK(bridge[1])  BY ServedChunk
<1>2. cap.queue # <<>> /\ Receipt(bridge[1]) = Position /\ (bridge[1].last <=> cap.chunk + 1 = Len(cap.queue[1].pieces))
  BY <1>1 DEF ChunkOK, Served, Going
<1>3. cap.queue \in Seq(Appends) /\ cap.chunk \in Nat  BY DEF CaptureInv, CaptureTypes, CapTypes
<1>4. Len(cap.queue) >= 1 /\ cap.queue[1] \in Appends  BY <1>2, <1>3
<1>5. /\ bridge[1].track = cap.queue[1].track /\ bridge[1].index = cap.queue[1].index
      /\ bridge[1].chunk = cap.chunk  BY <1>2 DEF Receipt, Position
<1>6. Session(r) = native.session  BY DEF Session, Served
<1>7. ~HeadIn /\ ~HeadWhole  BY <1>2, <1>6 DEF HeadIn, HeadWhole
<1>8. Waiting = 1 .. Len(cap.queue)  BY <1>7 DEF Waiting
<1>9. QueueContinues /\ HeadContinues  BY DEF CaptureInv, CaptureOK, GoesOn
<1> QED BY <1>2, <1>3, <1>4, <1>5, <1>6, <1>7, <1>8, <1>9

(* The two forms of the invariant of the queue. *)
LEMMA ContinuesFits ==
  ASSUME QueueContinues
  PROVE  QueueFits(cap.queue, Waiting, Session(cap.request).next, cap.index, taken[cap.request],
                   disk[cap.request].track)  BY DEF QueueContinues, QueueFits, NextPiece, Stored

(* The piece a non-empty sequence starts with. *)
LEMMA FirstIs ==
  ASSUME NEW b \in Seq(Nat), Len(b) # 0
  PROVE  b[1] \in Nat  OBVIOUS

(* What is kept of an append continues what is stored. *)
PartialFits(p, previous, next, d, all) ==
  p # <<>> =>
    LET t == p[1].track
    IN  /\ previous = <<t, next[t], Len(p) - 1>>
        /\ Len(d[t]) + Len(p) <= Len(all[t])
        /\ \A i \in 1 .. Len(p) : p[i].track = t /\ p[i].piece = all[t][1] + Len(d[t]) + i - 1

(* A chunk is kept until its append is complete. *)
LEMMA ChunkKept ==
  ASSUME CaptureInv, NEW r, Served(r), native.session.previous # Receipt(bridge[1]), Expected(bridge[1]),
         ~bridge[1].last, NEW chunk, chunk = [track |-> bridge[1].track, piece |-> bridge[1].piece],
         NEW s, DOMAIN s = {"next", "partial", "previous"}, s.previous = Receipt(bridge[1]),
         s.partial = Append(native.session.partial, chunk), s.next = native.session.next,
         native' = [native EXCEPT !.session = s], disk' = disk
  PROVE  CaptureInv'
<1>1. /\ DOMAIN native = NativeFields /\ DOMAIN native.session = {"next", "partial", "previous"}
      /\ native.session.partial \in Seq([track : Tracks, piece : Nat]) /\ native.session.next \in [Tracks -> Nat]
  BY DEF CaptureInv, CaptureTypes, NativeTypes
<1>3. /\ DOMAIN s = {"next", "partial", "previous"} /\ s.next = native.session.next
      /\ s.previous = Receipt(bridge[1]) /\ s.partial = Append(native.session.partial, chunk)  OBVIOUS
<1>4. /\ DOMAIN native' = NativeFields /\ native'.session = s /\ native'.rec = native.rec /\ native'.arm = native.arm
  BY <1>1 DEF NativeFields
<1>5. /\ ChunkOK(bridge[1]) /\ FitOK(bridge[1]) /\ disk[r].state = "open"
      /\ bridge[1].track \in Tracks /\ bridge[1].index \in Nat /\ bridge[1].chunk \in Nat /\ bridge[1].piece \in Nat
      /\ \A t \in Tracks : Stored(r, t) \in Nat /\ Len(taken[r][t]) \in Nat  BY ServedChunk
<1>6. PICK t \in Tracks, i \in Nat, c \in Nat, p \in Nat :
        t = bridge[1].track /\ i = bridge[1].index /\ c = bridge[1].chunk /\ p = bridge[1].piece  BY <1>5
<1>7. PICK part \in Seq([track : Tracks, piece : Nat]) : part = native.session.partial  BY <1>1
<1>8. PICK k \in Nat : k = Len(part)  OBVIOUS
<1>9. chunk \in [track : Tracks, piece : Nat] /\ chunk.track = t /\ chunk.piece = p  BY <1>6
<1>10. PICK more : more = Append(part, chunk)  OBVIOUS
<1>11. /\ more \in Seq([track : Tracks, piece : Nat]) /\ Len(more) = k + 1 /\ more[k + 1] = chunk
       /\ \A j \in 1 .. k : more[j] = part[j]  BY <1>8, <1>9, <1>10
<1>12. s.partial = more /\ s.previous = <<t, i, c>>  BY <1>3, <1>6, <1>7, <1>10 DEF Receipt
<1>13. more # <<>>
  <2>1. Len(<<>>) = 0 /\ Len(more) # 0  BY <1>8, <1>11
  <2> QED BY <2>1
<1>14. NativeTypes'  BY <1>1, <1>3, <1>4, <1>11, <1>12 DEF CaptureInv, CaptureTypes, NativeTypes
<1>15. DiskTypes' /\ C!StoredInOrder' /\ \A q \in C!Starts : disk'[q].state = disk[q].state
  BY DEF Served, CaptureInv, CaptureTypes, DiskTypes, C!StoredInOrder
<1>16. /\ s.next[t] = i /\ c = k /\ (part # <<>> => part[1].track = t)  BY <1>3, <1>6, <1>7, <1>8 DEF Expected
<1>17. PICK n \in Nat : n = Stored(r, t)  BY <1>5
<1>17a. PICK all, first : all = Len(taken[r][t]) /\ first = NextPiece(r, t)  OBVIOUS
<1>18. all \in Nat /\ n + k < all /\ p = first + k  BY <1>5, <1>6, <1>7, <1>8, <1>17, <1>17a DEF FitOK, Served
<1>19. SessionOK'
  <2>1. /\ \A q \in C!Starts : disk'[q].state = "open" <=> native'.rec = q
        /\ \A q \in C!Starts : disk'[q].state = "none" => \A u \in Tracks : disk'[q].track[u] = <<>>
        /\ native'.rec # 0  BY <1>4 DEF CaptureInv, SessionOK, Served, C!Starts
  <2>2. more[1].track = t
    <3>1. CASE k = 0  BY <1>9, <1>11, <3>1
    <3>2. CASE k # 0
      <4>1. 1 \in 1 .. k /\ part # <<>>
        <5>1. Len(<<>>) = 0  OBVIOUS
        <5> QED BY <1>8, <3>2, <5>1
      <4> QED BY <1>11, <1>16, <4>1
    <3> QED BY <3>1, <3>2
  <2>3. ASSUME NEW j \in 1 .. k + 1
        PROVE  more[j].track = t /\ more[j].piece = first + j - 1
    <3>1. CASE j = k + 1
      <4>1. first \in Nat
        <5>1. taken[r][t] \in Seq(Nat) /\ Len(taken[r][t]) # 0
          BY <1>17, <1>17a, <1>18 DEF CaptureInv, CaptureTypes, DiskTypes, Served
        <5>2. PICK b \in Seq(Nat) : b = taken[r][t] /\ Len(b) # 0  BY <5>1
        <5>3. b[1] \in Nat /\ n \in Nat
          <6>1. b[1] \in Nat  BY <5>2, FirstIs
          <6>2. Stored(r, t) \in Nat  BY <1>5
          <6> QED BY <1>17, <1>17a, <6>1, <6>2
        <5>4. first = b[1] + n  BY <1>17, <1>17a, <5>2 DEF NextPiece
        <5> QED BY <5>3, <5>4
      <4>2. first + k = first + j - 1  BY <1>8, <3>1, <4>1
      <4> QED BY <1>9, <1>11, <1>18, <3>1, <4>2
    <3>2. CASE j \in 1 .. k
      <4>1. part # <<>>
        <5>1. Len(<<>>) = 0 /\ Len(part) # 0  BY <1>8, <3>2
        <5> QED BY <5>1
      <4>2. part[j].track = part[1].track /\ part[j].piece = NextPiece(r, part[1].track) + j - 1
        BY <1>7, <1>8, <3>2, <4>1 DEF CaptureInv, SessionOK, Served
      <4> QED BY <1>11, <1>16, <1>17, <1>17a, <3>2, <4>1, <4>2
    <3> QED BY <3>1, <3>2
  <2>4. s.previous = <<t, s.next[t], Len(more) - 1>>  BY <1>11, <1>12, <1>16
  <2>5. n + Len(more) <= all  BY <1>11, <1>18
  <2>6. PICK d, b : d = disk[r].track /\ b = taken[r]  OBVIOUS
  <2>7. Len(d[t]) = n /\ Len(b[t]) = all /\ first = b[t][1] + Len(d[t])  BY <1>17, <1>17a, <2>6 DEF Stored, NextPiece
  <2>8. PartialFits(more, s.previous, s.next, d, b)  BY <1>11, <2>2, <2>3, <2>4, <2>5, <2>7 DEF PartialFits
  <2>9. PartialFits(native'.session.partial, native'.session.previous, native'.session.next,
                    disk'[native'.rec].track, taken'[native'.rec])  BY <1>4, <1>12, <2>6, <2>8 DEF Served
  <2>10. native'.session.partial # <<>>  BY <1>4, <1>12, <1>13
  <2> QED BY <2>1, <2>9, <2>10 DEF SessionOK, PartialFits, Stored, NextPiece
<1>20. CapHears /\ taken' = taken  BY DEF Served, Heard
<1>21. GoesOn'
  <2>1. CASE cap = None  BY <1>20, <2>1 DEF CapHears, SameCapture, GoesOn, Going
  <2>2. CASE cap # None /\ cap.request # r
    <3>1. Session(cap.request) = C!NoSession /\ Session(cap.request)' = C!NoSession
      BY <1>4, <1>20, <2>2 DEF Session, Served, CapHears, SameCapture
    <3>2. Going' <=> Going  BY <1>20, <2>2 DEF Going, CapHears, SameCapture
    <3> QED BY <1>20, <2>2, <3>1, <3>2, GoesOnShows
  <2>3. CASE cap # None /\ cap.request = r
    <3>1. Going' <=> Going  BY <1>20, <2>3 DEF Going, CapHears, SameCapture
    <3> SUFFICES ASSUME Going
                 PROVE  QueueContinues' /\ HeadContinues'  BY <3>1 DEF GoesOn
    <3>2. /\ cap.queue # <<>> /\ Len(cap.queue) >= 1 /\ cap.queue[1] \in Appends /\ cap.chunk \in Nat
          /\ bridge[1].track = cap.queue[1].track /\ bridge[1].index = cap.queue[1].index
          /\ bridge[1].chunk = cap.chunk /\ Receipt(bridge[1]) = Position
          /\ bridge[1].last <=> cap.chunk + 1 = Len(cap.queue[1].pieces)
          /\ ~HeadIn /\ ~HeadWhole /\ Waiting = 1 .. Len(cap.queue) /\ Session(r) = native.session
          /\ QueueContinues /\ HeadContinues  BY <2>3, HeadServed
    <3>3. /\ cap'.request = r /\ cap'.queue = cap.queue /\ cap'.chunk = cap.chunk /\ cap'.index = cap.index
      BY <1>20, <2>3 DEF CapHears, SameCapture
    <3>4. Session(cap.request)' = s  BY <1>4, <3>3 DEF Session, Served
    <3>5. Position' = Position  BY <3>3 DEF Position
    <3>6. HeadIn' /\ ~HeadWhole'  BY <1>3, <3>2, <3>3, <3>4, <3>5 DEF HeadIn, HeadWhole
    <3>7. Waiting' = Waiting  BY <3>2, <3>3, <3>6 DEF Waiting
    <3>8. PICK q, w, next, x, all1, d : /\ q = cap.queue /\ w = Waiting /\ next = Session(cap.request).next
                                        /\ x = cap.index /\ all1 = taken[cap.request] /\ d = disk[cap.request].track
      OBVIOUS
    <3>9. QueueFits(q, w, next, x, all1, d)
      <4>1. QueueFits(cap.queue, Waiting, Session(cap.request).next, cap.index, taken[cap.request],
                      disk[cap.request].track)  BY <3>2, ContinuesFits
      <4> QED BY <3>8, <4>1
    <3>10. QueueFits(cap'.queue, Waiting', Session(cap.request)'.next, cap'.index, taken'[cap'.request],
                     disk'[cap'.request].track)  BY <1>3, <1>20, <2>3, <3>2, <3>3, <3>4, <3>7, <3>8, <3>9
    <3>11. QueueContinues'  BY <3>10 DEF QueueContinues, QueueFits, NextPiece, Stored
    <3>12. /\ s.next[cap.queue[1].track] = cap.queue[1].index /\ Len(s.partial) = cap.chunk + 1
           /\ s.partial[1].track = cap.queue[1].track
      <4>1. more[1].track = t
        <5>1. CASE k = 0  BY <1>9, <1>11, <5>1
        <5>2. CASE k # 0
          <6>1. 1 \in 1 .. k /\ part # <<>>
            <7>1. Len(<<>>) = 0  OBVIOUS
            <7> QED BY <1>8, <5>2, <7>1
          <6> QED BY <1>11, <1>16, <6>1
        <5> QED BY <5>1, <5>2
      <4> QED BY <1>6, <1>11, <1>12, <1>16, <3>2, <4>1
    <3>13. HeadContinues'  BY <3>2, <3>3, <3>4, <3>6, <3>12 DEF HeadContinues
    <3> QED BY <3>11, <3>13
  <2> QED BY <2>1, <2>2, <2>3
<1> QED BY <1>3, <1>4, <1>14, <1>15, <1>19, <1>21, ChunkRest

(* The first append of q has been stored on track t. *)
HeadStored(q, t, next, after, d, e) ==
  /\ t = q[1].track /\ next[t] = q[1].index /\ after[t] = next[t] + 1
  /\ \A u \in Tracks : u # t => after[u] = next[u] /\ e[u] = d[u]
  /\ Len(e[t]) = Len(d[t]) + Len(q[1].pieces)

(* The head of the queue has been stored: the rest of the queue waits. *)
LEMMA QueueStores ==
  ASSUME NEW q \in Seq(Appends), NEW n \in Nat, n = Len(q), n >= 1,
         NEW x \in [Tracks -> Nat], NEW all \in [Tracks -> Seq(Nat)], NEW d \in [Tracks -> Seq(Nat)],
         NEW next \in [Tracks -> Nat], NEW after \in [Tracks -> Nat], NEW e \in [Tracks -> Seq(Nat)],
         QueueFits(q, 1 .. n, next, x, all, d), NEW t \in Tracks, HeadStored(q, t, next, after, d, e)
  PROVE  QueueFits(q, 2 .. n, after, x, all, e)
<1> /\ t = q[1].track /\ next[t] = q[1].index /\ after[t] = next[t] + 1
    /\ \A u \in Tracks : u # t => after[u] = next[u] /\ e[u] = d[u]
    /\ Len(e[t]) = Len(d[t]) + Len(q[1].pieces)  BY DEF HeadStored
<1>1. 1 \in 1 .. n /\ q[1] \in Appends  OBVIOUS
<1>2. PICK k \in Nat, m \in Nat, b \in Nat, c \in Nat :
        k = q[1].index /\ m = Len(q[1].pieces) /\ b = Len(d[t]) /\ c = Len(all[t])
  <2>1. q[1].index \in Nat /\ q[1].pieces \in Seq(Nat)  BY <1>1 DEF Appends
  <2>2. Len(q[1].pieces) \in Nat  BY <2>1
  <2>3. d[t] \in Seq(Nat) /\ all[t] \in Seq(Nat)  OBVIOUS
  <2>4. Len(d[t]) \in Nat /\ Len(all[t]) \in Nat  BY <2>3
  <2> QED BY <2>1, <2>2, <2>4
<1>3. PICK y : y = x[t]  OBVIOUS
<1>4. y \in Nat /\ k < y /\ next[t] = k /\ after[t] = k + 1 /\ all[t] # <<>>  BY <1>1, <1>2, <1>3 DEF QueueFits
<1>5. PICK f \in Nat : f = all[t][1]
  <2>1. PICK s \in Seq(Nat) : s = all[t] /\ s # <<>>  BY <1>4
  <2>2. s[1] \in Nat  BY <2>1
  <2> QED BY <2>1, <2>2
<1>6. /\ q[1].pieces[1] = f + b
      /\ q[1].index + 1 = x[t] => q[1].pieces[1] + Len(q[1].pieces) = f + c  BY <1>1, <1>2, <1>5 DEF QueueFits
<1>7. \A i, j \in 1 .. n : i < j /\ q[i].track = q[j].track => q[i].index < q[j].index  BY DEF QueueFits
<1>8. ASSUME NEW u \in Tracks
      PROVE  after[u] <= x[u] /\ (after[u] = x[u] => Len(e[u]) = Len(all[u]))
  <2>1. CASE u = t
    <3>1. k + 1 <= y  BY <1>4
    <3>2. k + 1 = y => f + b + m = f + c  BY <1>2, <1>3, <1>6
    <3>3. k + 1 = y => b + m = c  BY <3>2
    <3> QED BY <1>2, <1>3, <1>4, <2>1, <3>1, <3>3
  <2>2. CASE u # t  BY <2>2 DEF QueueFits
  <2> QED BY <2>1, <2>2
<1>9. ASSUME NEW u \in Tracks, NEW l \in Nat, after[u] <= l, l < x[u]
      PROVE  \E i \in 2 .. n : q[i].track = u /\ q[i].index = l
  <2>1. next[u] <= l
    <3>1. CASE u = t  BY <1>4, <1>9, <3>1
    <3>2. CASE u # t  BY <1>9, <3>2
    <3> QED BY <3>1, <3>2
  <2>2. PICK i \in 1 .. n : q[i].track = u /\ q[i].index = l  BY <1>9, <2>1, ZenonT(30) DEF QueueFits
  <2>3. i # 1  BY <1>2, <1>4, <1>9, <2>2
  <2>4. i \in 2 .. n  BY <2>3
  <2> QED BY <2>2, <2>4
<1>10. ASSUME NEW i \in 2 .. n
       PROVE  LET u == q[i].track
              IN  /\ after[u] <= q[i].index /\ q[i].index < x[u] /\ all[u] # <<>>
                  /\ q[i].index = after[u] => q[i].pieces[1] = all[u][1] + Len(e[u])
                  /\ q[i].pieces[1] + Len(q[i].pieces) <= all[u][1] + Len(all[u])
                  /\ q[i].index + 1 = x[u] => q[i].pieces[1] + Len(q[i].pieces) = all[u][1] + Len(all[u])
  <2>1. i \in 1 .. n /\ q[i] \in Appends  OBVIOUS
  <2>2. PICK u \in Tracks, l \in Nat : u = q[i].track /\ l = q[i].index  BY <2>1 DEF Appends
  <2>3. /\ next[u] <= l /\ l < x[u] /\ all[u] # <<>>
        /\ l = next[u] => q[i].pieces[1] = all[u][1] + Len(d[u])
        /\ q[i].pieces[1] + Len(q[i].pieces) <= all[u][1] + Len(all[u])
        /\ l + 1 = x[u] => q[i].pieces[1] + Len(q[i].pieces) = all[u][1] + Len(all[u])
    BY <2>1, <2>2 DEF QueueFits
  <2>4. CASE u # t  BY <2>2, <2>3, <2>4
  <2>5. CASE u = t
    <3>1. k < l
      <4>1. 1 < i /\ q[1].track = q[i].track  BY <2>2, <2>5
      <4>2. q[1].index < q[i].index  BY <1>1, <1>7, <2>1, <4>1
      <4> QED BY <1>2, <2>2, <4>2
    <3>2. k + 1 <= l  BY <3>1
    <3>3. ASSUME l = k + 1
          PROVE  q[i].pieces[1] = f + Len(e[t])
      <4>1. q[i].pieces[1] = q[1].pieces[1] + Len(q[1].pieces)
        <5>1. \A g, h \in 1 .. n : q[g].track = q[h].track /\ q[h].index = q[g].index + 1 =>
                                   q[h].pieces[1] = q[g].pieces[1] + Len(q[g].pieces)  BY DEF QueueFits
        <5>2. q[1].track = q[i].track /\ q[i].index = q[1].index + 1  BY <1>2, <2>2, <2>5, <3>3
        <5> QED BY <1>1, <2>1, <5>1, <5>2
      <4>2. q[i].pieces[1] = (f + b) + m  BY <1>2, <1>6, <4>1
      <4>3. Len(e[t]) = b + m  BY <1>2
      <4>4. (f + b) + m = f + (b + m)  OBVIOUS
      <4> QED BY <4>2, <4>3, <4>4
    <3>4. after[u] = k + 1 /\ all[u][1] = f /\ e[u] = e[t]  BY <1>4, <1>5, <2>5
    <3>5. l = after[u] => q[i].pieces[1] = all[u][1] + Len(e[u])  BY <3>3, <3>4
    <3>6. after[u] <= l  BY <3>2, <3>4
    <3> QED BY <2>2, <2>3, <3>5, <3>6
  <2> QED BY <2>4, <2>5
<1>11. ASSUME NEW i \in 2 .. n, NEW j \in 2 .. n, q[i].track = q[j].track, q[j].index = q[i].index + 1
       PROVE  q[j].pieces[1] = q[i].pieces[1] + Len(q[i].pieces)
  <2>1. i \in 1 .. n /\ j \in 1 .. n  OBVIOUS
  <2> QED BY <1>11, <2>1 DEF QueueFits
<1> QED BY <1>7, <1>8, <1>9, <1>10, <1>11, SMTT(30) DEF QueueFits

(* The m members of a sequence count from f. *)
Counts(more, m, f) == \A j \in 1 .. m : more[j] = f + j - 1

(* The n members of d, and then the m members of more. *)
Joins(e, d, n, more, m) == (\A i \in 1 .. n : e[i] = d[i]) /\ (\A i \in 1 .. m : e[n + i] = more[i])

(* Two runs of pieces make one run. *)
LEMMA CountsOn ==
  ASSUME NEW d, NEW more, NEW e, NEW n \in Nat, NEW m \in Nat, NEW f \in Nat, NEW base \in Nat, base = f + n,
         Counts(d, n, f), Counts(more, m, base), Joins(e, d, n, more, m), NEW l \in Nat, l = n + m
  PROVE  Counts(e, l, f)
<1> SUFFICES ASSUME NEW i \in 1 .. l
             PROVE  e[i] = f + i - 1  BY DEF Counts
<1>1. CASE i <= n  BY <1>1 DEF Joins, Counts
<1>2. CASE i > n
  <2>1. PICK j \in 1 .. m : i = n + j
    <3>1. i - n \in 1 .. m /\ i = n + (i - n)  BY <1>2
    <3> QED BY <3>1
  <2>2. e[i] = more[j] /\ more[j] = base + j - 1  BY <2>1 DEF Joins, Counts
  <2>3. base + j - 1 = f + i - 1  BY <2>1
  <2> QED BY <2>2, <2>3
<1> QED BY <1>1, <1>2

(* What the last chunk of an append stores continues what is stored. *)
LEMMA AppendFits ==
  ASSUME CaptureInv, NEW r, Served(r), native.session.previous # Receipt(bridge[1]), Expected(bridge[1]),
         NEW t, t = bridge[1].track, NEW parts \in Seq(Nat), Len(parts) = Len(native.session.partial),
         \A j \in 1 .. Len(parts) : parts[j] = native.session.partial[j].piece,
         NEW e, e = disk[r].track[t] \o Append(parts, bridge[1].piece)
  PROVE  C!IsPrefixOf(e, taken[r][t]) /\ e \in Seq(Nat) /\ Len(e) = Stored(r, t) + (bridge[1].chunk + 1)
<1>1. /\ native.session.partial \in Seq([track : Tracks, piece : Nat]) /\ native.session.next \in [Tracks -> Nat]
      /\ r \in C!Starts /\ disk[r].track \in [Tracks -> Seq(Nat)] /\ taken[r] \in [Tracks -> Seq(Nat)]
  BY DEF CaptureInv, CaptureTypes, NativeTypes, DiskTypes, Served
<1>2. /\ ChunkOK(bridge[1]) /\ FitOK(bridge[1]) /\ disk[r].state = "open"
      /\ t \in Tracks /\ bridge[1].index \in Nat /\ bridge[1].chunk \in Nat /\ bridge[1].piece \in Nat
      /\ \A u \in Tracks : Stored(r, u) \in Nat /\ Len(taken[r][u]) \in Nat  BY ServedChunk
<1>3. PICK c \in Nat, p \in Nat : c = bridge[1].chunk /\ p = bridge[1].piece  BY <1>2
<1>4. PICK part \in Seq([track : Tracks, piece : Nat]) : part = native.session.partial  BY <1>1
<1>5. PICK k \in Nat : k = Len(parts) /\ k = Len(part)  BY <1>4, SMTT(30)
<1>6. c = k /\ (part # <<>> => part[1].track = t)  BY <1>3, <1>4, <1>5 DEF Expected
<1>7. PICK g \in Seq(Nat), a \in Seq(Nat) : g = disk[r].track[t] /\ a = taken[r][t]  BY <1>1, <1>2
<1>8. PICK n \in Nat, all \in Nat : n = Len(g) /\ all = Len(a)  BY SMTT(30)
<1>9. n + k < all /\ p = (a[1] + n) + k  BY <1>2, <1>3, <1>4, <1>5, <1>7, <1>8 DEF FitOK, Served, Stored, NextPiece
<1>10. a # <<>>
  <2>1. Len(<<>>) = 0 /\ all # 0  BY <1>8, <1>9, SMTT(30)
  <2> QED BY <1>8, <2>1
<1>11. PICK f \in Nat : f = a[1]  BY <1>10, SMTT(30)
<1>12. PICK more : more = Append(parts, p)  OBVIOUS
<1>13. more \in Seq(Nat) /\ Len(more) = k + 1 /\ more[k + 1] = p /\ \A j \in 1 .. k : more[j] = parts[j]
  BY <1>5, <1>12, SMTT(30)
<1>14. ASSUME NEW j \in 1 .. k + 1
       PROVE  more[j] = f + n + j - 1
  <2>1. CASE j = k + 1
    <3>1. p = f + n + j - 1  BY <1>9, <1>11, <2>1, SMTT(30)
    <3> QED BY <1>13, <2>1, <3>1
  <2>2. CASE j \in 1 .. k
    <3>1. part # <<>>
      <4>1. Len(<<>>) = 0 /\ Len(part) # 0  BY <1>5, <2>2, SMTT(30)
      <4> QED BY <4>1
    <3>2. part[j].piece = NextPiece(r, part[1].track) + j - 1
      BY <1>4, <1>5, <2>2, <3>1 DEF CaptureInv, SessionOK, Served
    <3>3. NextPiece(r, part[1].track) = f + n  BY <1>6, <1>7, <1>8, <1>11, <3>1 DEF NextPiece, Stored
    <3>4. parts[j] = part[j].piece  BY <1>4, <1>5, <2>2
    <3> QED BY <1>13, <2>2, <3>2, <3>3, <3>4
  <2>3. j = k + 1 \/ j \in 1 .. k  BY SMTT(30)
  <2> QED BY <2>1, <2>2, <2>3
<1>15. C!Whole(a) /\ C!IsPrefixOf(g, a) /\ e = g \o more
  BY <1>1, <1>2, <1>3, <1>7, <1>12 DEF CaptureInv, C!StoredInOrder
<1>16. PICK m \in Nat : m = k + 1 /\ m = Len(more)  BY <1>13, SMTT(30)
<1>17. PICK base \in Nat : base = f + n  BY SMTT(30)
<1>18. n + m <= Len(a)  BY <1>8, <1>9, <1>16, SMTT(30)
<1>19. Counts(more, m, base)
  <2>1. \A j \in 1 .. k + 1 : more[j] = f + n + j - 1  BY <1>14
  <2> QED BY <1>16, <1>17, <2>1 DEF Counts
<1>20. Counts(a, all, f) /\ Counts(g, n, f)
  <2>1. C!Whole(a) /\ C!IsPrefixOf(g, a)  BY <1>15
  <2>2. \A i \in 1 .. all : a[i] = f + i - 1  BY <1>8, <1>10, <1>11, <2>1 DEF C!Whole
  <2>3. n <= all /\ \A i \in 1 .. n : g[i] = a[i]  BY <1>8, <2>1 DEF C!IsPrefixOf
  <2>4. Counts(a, all, f)  BY <2>2 DEF Counts
  <2>5. \A i \in 1 .. n : g[i] = f + i - 1
    <3> SUFFICES ASSUME NEW i \in 1 .. n
                 PROVE  g[i] = f + i - 1  OBVIOUS
    <3>1. i \in 1 .. all  BY <1>8, <2>3, SMTT(30)
    <3> QED BY <3>1, <2>2, <2>3
  <2>6. Counts(g, n, f)  BY <2>5 DEF Counts
  <2> QED BY <2>4, <2>6
<1>21. e \in Seq(Nat) /\ Len(e) = n + m /\ C!IsPrefixOf(e, a)
  <2>1. more \in Seq(Nat)  BY <1>13
  <2>2. PICK h : h = g \o more  OBVIOUS
  <2>3. h \in Seq(Nat) /\ Len(h) = n + m /\ Joins(h, g, n, more, m)
    <3>1. h \in Seq(Nat) /\ Len(h) = Len(g) + Len(more)  BY <2>1, <2>2, SMTT(30)
    <3>2. \A i \in 1 .. Len(g) : h[i] = g[i]  BY <2>1, <2>2, SMTT(30)
    <3>3. \A i \in 1 .. Len(more) : h[Len(g) + i] = more[i]  BY <2>1, <2>2, SMTT(30)
    <3> QED BY <1>8, <1>16, <3>1, <3>2, <3>3 DEF Joins
  <2>4. PICK l \in Nat : l = n + m  BY SMTT(30)
  <2>5. Counts(h, l, f)  BY <1>17, <1>19, <1>20, <2>3, <2>4, CountsOn
  <2>6. l <= all  BY <1>8, <1>18, <2>4
  <2>7. \A i \in 1 .. l : h[i] = a[i]  BY <1>20, <2>5, <2>6, SMTT(30) DEF Counts
  <2>8. C!IsPrefixOf(h, a)  BY <1>8, <2>3, <2>4, <2>6, <2>7 DEF C!IsPrefixOf
  <2> QED BY <1>15, <2>2, <2>3, <2>8
<1>22. Stored(r, t) = n /\ Len(e) = n + (k + 1)  BY <1>7, <1>8, <1>16, <1>21 DEF Stored
<1> QED BY <1>3, <1>6, <1>7, <1>21, <1>22

(* A track of which nothing was stored. *)
LEMMA NothingYet ==
  ASSUME CaptureInv, NEW q \in C!Starts, disk[q].state = "none", NEW u \in Tracks
  PROVE  disk[q].track[u] = <<>>  BY DEF CaptureInv, SessionOK

(* The last chunk of an append stores it. *)
LEMMA AppendStored ==
  ASSUME CaptureInv, NEW r, Served(r), native.session.previous # Receipt(bridge[1]), Expected(bridge[1]),
         bridge[1].last, NEW t, t = bridge[1].track,
         NEW s, DOMAIN s = {"next", "partial", "previous"}, s.previous = Receipt(bridge[1]), s.partial = <<>>,
         NEW after \in [Tracks -> Nat], s.next = after, after[t] = native.session.next[t] + 1,
         \A u \in Tracks : u # t => after[u] = native.session.next[u],
         native' = [native EXCEPT !.session = s],
         NEW e \in Seq(Nat), C!IsPrefixOf(e, taken[r][t]), Len(e) = Stored(r, t) + (bridge[1].chunk + 1),
         disk' = [disk EXCEPT ![r].track[t] = e]
  PROVE  CaptureInv'
<1>1. /\ DOMAIN native = NativeFields /\ native.session.next \in [Tracks -> Nat]
      /\ DOMAIN disk = C!Starts /\ DOMAIN taken = C!Starts
      /\ \A q \in C!Starts : /\ DOMAIN disk[q] = {"state", "track"}
                             /\ disk[q].track \in [Tracks -> Seq(Nat)] /\ taken[q] \in [Tracks -> Seq(Nat)]
  BY DEF CaptureInv, CaptureTypes, NativeTypes, DiskTypes
<1>2. /\ disk[r].state = "open"
      /\ t \in Tracks /\ bridge[1].index \in Nat /\ bridge[1].chunk \in Nat
      /\ \A u \in Tracks : Stored(r, u) \in Nat  BY ServedChunk
<1>3. PICK i \in Nat, c \in Nat : i = bridge[1].index /\ c = bridge[1].chunk  BY <1>2
<1>4. s.previous = <<t, i, c>>  BY <1>3 DEF Receipt
<1>5. PICK next \in [Tracks -> Nat] : next = native.session.next  BY <1>1
<1>6. next[t] = i /\ after[t] = i + 1 /\ \A u \in Tracks : u # t => after[u] = next[u]  BY <1>3, <1>5 DEF Expected
<1>7. DOMAIN native' = NativeFields /\ native'.session = s /\ native'.rec = native.rec /\ native'.arm = native.arm
  BY <1>1 DEF NativeFields
<1>8. taken' = taken /\ r \in C!Starts /\ native.rec = r /\ CapHears  BY DEF Served, Heard
<1>9. PICK d \in [Tracks -> Seq(Nat)], b \in [Tracks -> Seq(Nat)] : d = disk[r].track /\ b = taken[r]  BY <1>1, <1>8
<1>10. PICK new \in [Tracks -> Seq(Nat)] : new = [d EXCEPT ![t] = e]  BY <1>2
<1>11. new[t] = e /\ \A u \in Tracks : u # t => new[u] = d[u]  BY <1>2, <1>10
<1>12. /\ DOMAIN disk' = C!Starts
       /\ DOMAIN disk'[r] = {"state", "track"} /\ disk'[r].state = "open" /\ disk'[r].track = new
       /\ \A q \in C!Starts : q # r => disk'[q] = disk[q]  BY <1>1, <1>2, <1>8, <1>9, <1>10, SMTT(30)
<1>13. DiskTypes'
  <2>1. ASSUME NEW q \in C!Starts
        PROVE  /\ DOMAIN disk'[q] = {"state", "track"}
               /\ disk'[q].track \in [Tracks -> Seq(Nat)] /\ taken'[q] \in [Tracks -> Seq(Nat)]
    BY <1>1, <1>8, <1>12
  <2> QED BY <1>1, <1>8, <1>12, <2>1 DEF DiskTypes
<1>14. NativeTypes'
  <2>1. <<>> \in Seq([track : Tracks, piece : Nat])  OBVIOUS
  <2> QED BY <1>7, <2>1 DEF CaptureInv, CaptureTypes, NativeTypes
<1>15. \A q \in C!Starts : disk'[q].state = disk[q].state  BY <1>2, <1>12
<1>16. SessionOK'
  <2>1. \A q \in C!Starts : disk[q].state = "open" <=> native.rec = q  BY DEF CaptureInv, SessionOK
  <2>2. \A q \in C!Starts : disk'[q].state = "open" <=> native'.rec = q  BY <1>7, <1>15, <2>1
  <2>3. \A q \in C!Starts : disk'[q].state = "none" => q # r  BY <1>12
  <2>4. \A q \in C!Starts : disk'[q].state = "none" => \A u \in Tracks : disk'[q].track[u] = <<>>
    <3> SUFFICES ASSUME NEW q \in C!Starts, disk'[q].state = "none", NEW u \in Tracks
                 PROVE  disk'[q].track[u] = <<>>  OBVIOUS
    <3>1. disk'[q] = disk[q]  BY <1>12, <2>3
    <3>2. disk[q].state = "none"  BY <3>1
    <3>3. disk[q].track[u] = <<>>  BY <3>2, NothingYet
    <3> QED BY <3>1, <3>3
  <2>5. native'.rec # 0  BY <1>7, <1>8 DEF C!Starts
  <2>6. \E u \in Tracks, j, l \in Nat : native'.session.previous = <<u, j, l>> /\ native'.session.next[u] = j + 1
    BY <1>2, <1>4, <1>6, <1>7, SMTT(30)
  <2>7. native'.session.partial = <<>>  BY <1>7
  <2> QED BY <2>2, <2>4, <2>5, <2>6, <2>7 DEF SessionOK
<1>17. C!StoredInOrder'
  <2>1. ASSUME NEW q \in C!Starts, NEW u \in Tracks
        PROVE  /\ C!Whole(taken'[q][u])
               /\ C!IsPrefixOf(disk'[q].track[u], taken'[q][u])
               /\ disk'[q].state = "saved" => disk'[q].track[u] = taken'[q][u]
    <3>1. /\ C!Whole(taken[q][u]) /\ C!IsPrefixOf(disk[q].track[u], taken[q][u])
          /\ disk[q].state = "saved" => disk[q].track[u] = taken[q][u]  BY DEF CaptureInv, C!StoredInOrder
    <3>2. CASE q = r /\ u = t  BY <1>8, <1>9, <1>11, <1>12, <3>1, <3>2
    <3>3. CASE q = r /\ u # t  BY <1>8, <1>9, <1>11, <1>12, <3>1, <3>3
    <3>4. CASE q # r  BY <1>8, <1>12, <3>1, <3>4
    <3> QED BY <3>2, <3>3, <3>4
  <2> QED BY <2>1 DEF C!StoredInOrder, C!Whole, C!IsPrefixOf
<1>18. GoesOn'
  <2>1. CASE cap = None  BY <1>8, <2>1 DEF CapHears, SameCapture, GoesOn, Going
  <2>2. CASE cap # None /\ cap.request # r
    <3>1. Session(cap.request) = C!NoSession /\ Session(cap.request)' = C!NoSession
      BY <1>7, <1>8, <2>2 DEF Session, CapHears, SameCapture
    <3>2. cap.request \in C!Starts  BY <2>2 DEF CaptureInv, CaptureTypes, CapTypes
    <3>3. (Going' <=> Going) /\ disk'[cap.request] = disk[cap.request]
      BY <1>12, <1>8, <2>2, <3>2 DEF Going, CapHears, SameCapture
    <3> QED BY <1>8, <2>2, <3>1, <3>3, GoesOnShows
  <2>3. CASE cap # None /\ cap.request = r
    <3>1. Going' <=> Going  BY <1>2, <1>12, <1>8, <2>3 DEF Going, CapHears, SameCapture
    <3> SUFFICES ASSUME Going
                 PROVE  QueueContinues' /\ HeadContinues'  BY <3>1 DEF GoesOn
    <3>2. /\ cap.queue # <<>> /\ Len(cap.queue) >= 1 /\ cap.queue[1] \in Appends /\ cap.chunk \in Nat
          /\ bridge[1].track = cap.queue[1].track /\ bridge[1].index = cap.queue[1].index
          /\ bridge[1].chunk = cap.chunk /\ Receipt(bridge[1]) = Position
          /\ bridge[1].last <=> cap.chunk + 1 = Len(cap.queue[1].pieces)
          /\ ~HeadIn /\ ~HeadWhole /\ Waiting = 1 .. Len(cap.queue) /\ Session(r) = native.session
          /\ QueueContinues /\ HeadContinues  BY <2>3, HeadServed
    <3>3. /\ cap'.request = r /\ cap'.queue = cap.queue /\ cap'.chunk = cap.chunk /\ cap'.index = cap.index
      BY <1>8, <2>3 DEF CapHears, SameCapture
    <3>4. Session(cap.request)' = s  BY <1>7, <1>8, <3>3 DEF Session
    <3>5. Position' = Position  BY <3>3 DEF Position
    <3>6. HeadIn' /\ HeadWhole'  BY <3>2, <3>3, <3>4, <3>5 DEF HeadIn, HeadWhole
    <3>7. PICK q \in Seq(Appends), h \in Nat : q = cap.queue /\ h = Len(q)
      <4>1. cap.queue \in Seq(Appends)  BY <2>3 DEF CaptureInv, CaptureTypes, CapTypes
      <4>2. PICK g \in Seq(Appends) : g = cap.queue  BY <4>1
      <4>3. Len(g) \in Nat  OBVIOUS
      <4> QED BY <4>2, <4>3
    <3>8. Waiting' = 2 .. h  BY <3>2, <3>3, <3>6, <3>7 DEF Waiting
    <3>9. PICK x \in [Tracks -> Nat] : x = cap.index  BY DEF CaptureInv, CaptureTypes, CapTypes, Going
    <3>10. PICK w : w = 1 .. h  OBVIOUS
    <3>11. QueueFits(q, w, next, x, b, d)
      <4>1. w = Waiting /\ next = Session(cap.request).next /\ b = taken[cap.request] /\ d = disk[cap.request].track
        BY <1>5, <1>9, <2>3, <3>2, <3>7, <3>10
      <4>2. QueueFits(cap.queue, Waiting, Session(cap.request).next, cap.index, taken[cap.request],
                      disk[cap.request].track)  BY <3>2, ContinuesFits
      <4> QED BY <3>7, <3>9, <4>1, <4>2
    <3>12. QueueFits(q, 1 .. h, next, x, b, d)  BY <3>10, <3>11
    <3>13. Len(new[t]) = Len(d[t]) + Len(q[1].pieces)  BY <1>9, <1>11, <3>2, <3>7 DEF Stored
    <3>14. t = q[1].track /\ next[t] = q[1].index /\ after[t] = next[t] + 1 /\ h >= 1  BY <1>3, <1>6, <3>2, <3>7
    <3>15. \A u \in Tracks : u # t => after[u] = next[u] /\ new[u] = d[u]  BY <1>6, <1>11
    <3>16. QueueFits(q, 2 .. h, after, x, b, new)
      <4>1. HeadStored(q, t, next, after, d, new)  BY <3>13, <3>14, <3>15 DEF HeadStored
      <4> QED BY <1>2, <3>7, <3>12, <3>14, <4>1, QueueStores
    <3>17. QueueFits(cap'.queue, Waiting', Session(cap.request)'.next, cap'.index, taken'[cap'.request],
                     disk'[cap'.request].track)  BY <1>8, <1>9, <1>12, <3>3, <3>4, <3>7, <3>8, <3>9, <3>16
    <3>18. QueueContinues'  BY <3>17 DEF QueueContinues, QueueFits, NextPiece, Stored
    <3>19. s.partial = <<>> /\ s.next[cap.queue[1].track] = cap.queue[1].index + 1  BY <1>3, <1>6, <3>7, <3>14
    <3>20. HeadContinues'  BY <3>2, <3>3, <3>4, <3>6, <3>19 DEF HeadContinues
    <3> QED BY <3>18, <3>20
  <2> QED BY <2>1, <2>2, <2>3
<1>19. native'.session.previous = Receipt(bridge[1])  BY <1>7
<1> QED BY <1>7, <1>13, <1>14, <1>15, <1>16, <1>17, <1>18, <1>19, ChunkRest

(* The session after a chunk has been accepted. *)
LEMMA SessionAfter ==
  ASSUME NEW s, DOMAIN s = {"next", "partial", "previous"}, NEW t \in Tracks, s.next \in [Tracks -> Nat],
         NEW previous, NEW partial, NEW n \in Nat, NEW a,
         a = [s EXCEPT !.previous = previous, !.partial = partial, !.next[t] = n]
  PROVE  /\ DOMAIN a = {"next", "partial", "previous"} /\ a.previous = previous /\ a.partial = partial
         /\ a.next \in [Tracks -> Nat] /\ a.next[t] = n /\ \A u \in Tracks : u # t => a.next[u] = s.next[u]
         /\ n = s.next[t] => a.next = s.next
<1>1. DOMAIN a = {"next", "partial", "previous"} /\ a.previous = previous /\ a.partial = partial  OBVIOUS
<1>2. PICK next \in [Tracks -> Nat] : next = s.next  OBVIOUS
<1>3. PICK b : b = [next EXCEPT ![t] = n]  OBVIOUS
<1>4. a.next = b  BY <1>2, <1>3
<1>5. b \in [Tracks -> Nat] /\ b[t] = n /\ \A u \in Tracks : u # t => b[u] = next[u]  BY <1>3
<1>6. n = next[t] => b = next  BY <1>3
<1> QED BY <1>1, <1>2, <1>4, <1>5, <1>6

(* The pieces of an append under way. *)
LEMMA PartsAre ==
  ASSUME NEW part \in Seq([track : Tracks, piece : Nat]), NEW parts,
         parts = [i \in 1 .. Len(part) |-> part[i].piece]
  PROVE  parts \in Seq(Nat) /\ Len(parts) = Len(part) /\ \A j \in 1 .. Len(parts) : parts[j] = part[j].piece
<1>1. PICK T : T = [track : Tracks, piece : Nat]  OBVIOUS
<1>2. PICK q \in Seq(T) : q = part  BY <1>1
<1>3. PICK k \in Nat : k = Len(q)  OBVIOUS
<1>4. \A j \in 1 .. k : q[j] \in T  BY <1>3
<1>5. \A j \in 1 .. k : q[j].piece \in Nat  BY <1>1, <1>4
<1> QED BY <1>2, <1>3, <1>5

(* A chunk is served: refused, known already, kept, or the last of its append. *)
LEMMA ServeAppendKeeps ==
  ASSUME CaptureInv, DOMAIN None # CapFields, C!ServeAppend
  PROVE  CaptureInv'
<1>1. bridge # <<>> /\ bridge[1].kind = "append" /\ UNCHANGED <<src, page, orders, taken, used>>  BY DEF C!ServeAppend
<1>2. C!Refuse(bridge[1]) \/ (native.rec = bridge[1].recording /\ C!Accept(bridge[1]))  BY DEF C!ServeAppend
<1>3. CASE C!Refuse(bridge[1])  BY <1>1, <1>3, RefuseKeeps
<1>4. CASE native.rec = bridge[1].recording /\ C!Accept(bridge[1])
  <2>1. 1 \in 1 .. Len(bridge)  BY <1>1 DEF CaptureInv, CaptureTypes, BridgeTypes
  <2>2. PICK r \in C!Starts : r = bridge[1].recording  BY <2>1 DEF CaptureInv, CaptureTypes, BridgeTypes
  <2>3. C!Answer(bridge[1], "ok") => Served(r)
    <3> SUFFICES ASSUME C!Answer(bridge[1], "ok")
                 PROVE  Served(r)  OBVIOUS
    <3>1. Heard("ok")  BY <1>1, AnswerIs
    <3> QED BY <1>1, <1>4, <2>2, <3>1 DEF Served
  <2>4. CASE /\ native.session.previous = Receipt(bridge[1]) /\ C!Answer(bridge[1], "ok") /\ UNCHANGED <<native, disk>>
    BY <2>3, <2>4, RepeatKeeps
  <2>5. CASE /\ native.session.previous # Receipt(bridge[1]) /\ Expected(bridge[1]) /\ C!Answer(bridge[1], "ok")
             /\ native' = [native EXCEPT !.session = [native.session EXCEPT
                  !.previous = Receipt(bridge[1]),
                  !.partial = IF bridge[1].last THEN <<>>
                              ELSE Append(native.session.partial, [track |-> bridge[1].track, piece |-> bridge[1].piece]),
                  !.next[bridge[1].track] = IF bridge[1].last THEN native.session.next[bridge[1].track] + 1
                                            ELSE native.session.next[bridge[1].track]]]
             /\ disk' = IF bridge[1].last
                        THEN [disk EXCEPT ![bridge[1].recording].track[bridge[1].track] =
                                disk[bridge[1].recording].track[bridge[1].track] \o
                                Append([i \in 1 .. Len(native.session.partial) |-> native.session.partial[i].piece],
                                       bridge[1].piece)]
                        ELSE disk
    <3>1. Served(r)  BY <2>3, <2>5
    <3>2. /\ DOMAIN native.session = {"next", "partial", "previous"} /\ native.session.next \in [Tracks -> Nat]
          /\ native.session.partial \in Seq([track : Tracks, piece : Nat])
      BY DEF CaptureInv, CaptureTypes, NativeTypes
    <3>3. PICK t \in Tracks, p \in Nat : t = bridge[1].track /\ p = bridge[1].piece  BY <3>1, ServedChunk
    <3>4. PICK previous : previous = Receipt(bridge[1])  OBVIOUS
    <3>5. PICK s : s = native.session  OBVIOUS
    <3>6. DOMAIN s = {"next", "partial", "previous"} /\ s.next \in [Tracks -> Nat]  BY <3>2, <3>5
    <3>7. CASE ~bridge[1].last
      <4>1. PICK chunk : chunk = [track |-> bridge[1].track, piece |-> bridge[1].piece]  OBVIOUS
      <4>2. PICK partial : partial = Append(native.session.partial, chunk)  OBVIOUS
      <4>3. PICK n \in Nat : n = s.next[t]  BY <3>6
      <4>4. PICK a : a = [s EXCEPT !.previous = previous, !.partial = partial, !.next[t] = n]  OBVIOUS
      <4>5. native' = [native EXCEPT !.session = a] /\ disk' = disk
        BY <2>5, <3>3, <3>4, <3>5, <3>7, <4>1, <4>2, <4>3, <4>4
      <4>6. DOMAIN a = {"next", "partial", "previous"} /\ a.previous = previous /\ a.partial = partial /\ a.next = s.next
        BY <3>6, <4>3, <4>4, SessionAfter, ZenonT(30)
      <4> QED BY <2>5, <3>1, <3>4, <3>5, <3>7, <4>1, <4>2, <4>5, <4>6, ChunkKept
    <3>8. CASE bridge[1].last
      <4>1. PICK part \in Seq([track : Tracks, piece : Nat]) : part = native.session.partial  BY <3>2
      <4>2. PICK parts : parts = [i \in 1 .. Len(part) |-> part[i].piece]  OBVIOUS
      <4>3. parts \in Seq(Nat) /\ Len(parts) = Len(part) /\ \A j \in 1 .. Len(parts) : parts[j] = part[j].piece
        BY <4>2, PartsAre
      <4>4. PICK e : e = disk[r].track[t] \o Append(parts, bridge[1].piece)  OBVIOUS
      <4>5. C!IsPrefixOf(e, taken[r][t]) /\ e \in Seq(Nat) /\ Len(e) = Stored(r, t) + (bridge[1].chunk + 1)
        BY <2>5, <3>1, <3>3, <4>1, <4>3, <4>4, AppendFits
      <4>6. PICK n \in Nat : n = s.next[t] + 1  BY <3>6
      <4>7. PICK partial : partial = <<>>  OBVIOUS
      <4>8. PICK a : a = [s EXCEPT !.previous = previous, !.partial = partial, !.next[t] = n]  OBVIOUS
      <4>9. native' = [native EXCEPT !.session = a]  BY <2>5, <3>3, <3>4, <3>5, <3>8, <4>6, <4>7, <4>8
      <4>10. disk' = [disk EXCEPT ![r].track[t] = e]  BY <2>2, <2>5, <3>3, <3>8, <4>1, <4>2, <4>4
      <4>11. /\ DOMAIN a = {"next", "partial", "previous"} /\ a.previous = previous /\ a.partial = partial
             /\ a.next \in [Tracks -> Nat] /\ a.next[t] = n /\ \A u \in Tracks : u # t => a.next[u] = s.next[u]
        BY <3>6, <4>8, SessionAfter
      <4>12. PICK after \in [Tracks -> Nat] : after = a.next  BY <4>11
      <4>13. /\ a.previous = Receipt(bridge[1]) /\ a.partial = <<>> /\ after[t] = native.session.next[t] + 1
             /\ \A u \in Tracks : u # t => after[u] = native.session.next[u]
        BY <3>4, <3>5, <4>6, <4>7, <4>11, <4>12
      <4>14. native.session.previous # Receipt(bridge[1]) /\ Expected(bridge[1]) /\ t = bridge[1].track  BY <2>5, <3>3
      <4> QED BY <3>1, <3>8, <4>5, <4>9, <4>10, <4>11, <4>12, <4>13, <4>14, AppendStored
    <3> QED BY <3>7, <3>8
  <2>6. CASE C!Refuse(bridge[1])  BY <1>1, <2>6, RefuseKeeps
  <2> QED BY <1>4, <2>4, <2>5, <2>6 DEF C!Accept, Receipt, Expected
<1> QED BY <1>2, <1>3, <1>4

(* The invariant holds at the start. *)
LEMMA CaptureInit ==
  ASSUME C!Init, MaxStarts \in Nat
  PROVE  CaptureInv
<1>1. /\ src = C!FreshSource(1) /\ cap = None /\ page = C!FreshPage /\ bridge = <<>> /\ orders = <<>>
      /\ native.rec = 0 /\ native.arm = 0 /\ native.session = C!NoSession /\ DOMAIN native = NativeFields
      /\ disk = [r \in C!Starts |-> [state |-> "none", track |-> C!EachTrack(<<>>)]]
      /\ taken = [r \in C!Starts |-> C!EachTrack(<<>>)]
      /\ used = [starts |-> 0, reloads |-> 0, faults |-> 0]  BY DEF C!Init, NativeFields
<1>2. \A r \in C!Starts : disk[r].state = "none" /\ \A t \in Tracks : disk[r].track[t] = <<>> /\ taken[r][t] = <<>>
  BY <1>1 DEF C!EachTrack
<1>3. Len(bridge) = 0 /\ Len(orders) = 0 /\ Len(<<>>) = 0  BY <1>1
<1>4. CaptureTypes
  <2>1. SourceTypes  BY <1>1 DEF SourceTypes, C!FreshSource, C!EachTrack
  <2>2. BridgeTypes
    <3>1. bridge \in Seq({})  BY <1>1
    <3> QED BY <1>3, <3>1 DEF BridgeTypes
  <2>3. NativeTypes  BY <1>1 DEF NativeTypes, C!NoSession, C!EachTrack
  <2>4. DiskTypes
    <3>1. PICK e : e = [t \in Tracks |-> <<>>]  OBVIOUS
    <3>2. <<>> \in Seq(Nat)  OBVIOUS
    <3>3. e \in [Tracks -> Seq(Nat)]  BY <3>1, <3>2
    <3>4. /\ disk = [r \in C!Starts |-> [state |-> "none", track |-> e]] /\ taken = [r \in C!Starts |-> e]
      BY <1>1, <3>1 DEF C!EachTrack
    <3> QED BY <3>3, <3>4 DEF DiskTypes
  <2>5. PageTypes
    <3>1. orders \in Seq(C!Starts \cup {0})  BY <1>1
    <3> QED BY <1>1, <3>1 DEF PageTypes, C!FreshPage
  <2> QED BY <1>1, <2>1, <2>2, <2>3, <2>4, <2>5 DEF CaptureTypes, CapTypes
<1>5. SessionOK  BY <1>1, <1>2 DEF SessionOK, C!NoSession, C!Starts
<1>6. CaptureOK  BY <1>1 DEF CaptureOK, CaptureFlags, QueueInRow, GoesOn, Going, Taking
<1>7. BridgeOK  BY <1>3 DEF BridgeOK, OneChunk
<1>8. StartsOK
  <2>1. \A r \in C!Starts : Fresh(r)  BY <1>1, <1>2, <1>3 DEF Fresh
  <2> QED BY <1>1, <1>3, <2>1 DEF StartsOK, C!FreshPage
<1>9. PageOK  BY <1>1 DEF PageOK, C!FreshPage
<1>10. C!StoredInOrder  BY <1>2, <1>3 DEF C!StoredInOrder, C!Whole, C!IsPrefixOf
<1> QED BY <1>4, <1>5, <1>6, <1>7, <1>8, <1>9, <1>10 DEF CaptureInv

(* Every step keeps the invariant. *)
LEMMA CaptureStep ==
  ASSUME CaptureInv, DOMAIN None # CapFields, MaxStarts \in Nat, [C!Next]_C!vars
  PROVE  CaptureInv'
<1>1. CASE C!Feed  BY <1>1, ObserveInitKeeps, ObserveMediaKeeps DEF C!Feed
<1>2. CASE C!Disturb  BY <1>2, BlockKeeps, ObserveInitKeeps, SourceKeeps, ReloadKeeps DEF C!Disturb
<1>3. CASE C!Page
  <2>1. CASE C!PostStatus  BY <2>1, PostStatusKeeps DEF C!PostStatus
  <2> QED BY <1>3, <2>1, StartKeeps, StopKeeps, DrainKeeps, PostKeeps, PostFailsKeeps, BeginAnsweredKeeps,
             AppendAnsweredKeeps, FinishAnsweredKeeps DEF C!Page
<1>4. CASE C!Host
  BY <1>4, ServeFailsKeeps, ServeBeginKeeps, ServeAppendKeeps, ServeFinishKeeps, ServeStatusKeeps,
     NativeOrderKeeps, PageHiddenKeeps DEF C!Host
<1>5. CASE UNCHANGED C!vars  BY <1>5, PostStatusKeeps DEF C!vars
<1> QED BY <1>1, <1>2, <1>3, <1>4, <1>5 DEF C!Next

(* What a recording has stored is the beginning of what its capture took,
   piece for piece and without a gap, and all of it when it is saved: however
   often a chunk is sent again, whichever answer is lost, and whenever the
   page, the player or the user ends it; and the page says "saved" only of a
   recording that is.  (browser_encoded_capture.js, browser_capture.js,
   browser_encoded.rs) *)
THEOREM NothingIsSkipped ==
  ASSUME DOMAIN None # CapFields, MaxStarts \in Nat
  PROVE  C!Spec => [](C!StoredInOrder /\ C!SavedIsTrue)
<1>1. C!Init => CaptureInv  BY CaptureInit
<1>2. CaptureInv /\ [C!Next]_C!vars => CaptureInv'  BY CaptureStep
<1>3. CaptureInv => C!StoredInOrder /\ C!SavedIsTrue  BY DEF CaptureInv, PageOK, C!SavedIsTrue
<1> QED BY <1>1, <1>2, <1>3, PTL DEF C!Spec
----
(* Who feeds a recording.  The page has taken the latest start, and it either
   goes on with it or has said that it does not; a begin that the native end
   may still accept is of that start and of this document. *)
Tends(r) ==
  /\ page.request = r /\ page.preparing = 0
  /\ cap = None => page.detail \in C!EndsRecording
  /\ cap # None /\ ~cap.begun => cap.reply # "unsupported"

Latest ==
  /\ native.arm \in {0, used.starts} /\ native.rec \in {0, used.starts} /\ native.generation \in Nat
  /\ native.rec # 0 => native.accepted = native.rec
  /\ page.request \in 0 .. used.starts /\ page.preparing \in {0, page.request}

Fed == native.rec # 0 /\ ~native.hiding => Tends(native.rec)

BeginsAreTended ==
  \A i \in 1 .. Len(bridge) :
    /\ bridge[i].generation \in Nat /\ bridge[i].generation <= native.generation
    /\ bridge[i].kind = "begin" /\ bridge[i].generation = native.generation /\ bridge[i].recording = native.arm =>
         Tends(native.arm)

(* The commands come in the order of their starts. *)
OrdersUp ==
  \A i \in 1 .. Len(orders) : orders[i] # 0 =>
    orders[i] > page.request /\ \A j \in 1 .. Len(orders) : i < j /\ orders[j] # 0 => orders[i] < orders[j]

OrphanInv == CaptureInv /\ Latest /\ Fed /\ BeginsAreTended /\ OrdersUp

(* The messages are those there were, but for one of the page there is. *)
SameMessages ==
  \A i \in 1 .. Len(bridge') :
    \/ \E j \in 1 .. Len(bridge) :
         bridge'[i].generation = bridge[j].generation /\ bridge'[i].kind = bridge[j].kind
           /\ bridge'[i].recording = bridge[j].recording
    \/ /\ bridge'[i].generation \in Nat /\ bridge'[i].generation <= native.generation
       /\ bridge'[i].kind = "begin" => Tends(bridge[i].recording)'

(* The native end does nothing but end. *)
Lessens(n) ==
  /\ n.rec \in {0, native.rec} /\ n.arm \in {0, native.arm} /\ n.accepted = native.accepted
  /\ n.generation = native.generation /\ (n.rec # 0 /\ ~n.hiding => ~native.hiding)

(* And the page goes on tending. *)
LEMMA OrphanStays ==
  ASSUME OrphanInv, CaptureInv', SameMessages, OrdersUp', used'.starts = used.starts,
         Lessens(native'),
         page'.request \in 0 .. used.starts, page'.preparing \in {0, page'.request},
         \A r \in C!Starts : Tends(r) => Tends(r)' \/ ~(native.rec = r \/ native.arm = r)
  PROVE  OrphanInv'
<1>1. native.rec \in C!Starts \cup {0} /\ native.arm \in C!Starts \cup {0}
      /\ \A i \in 1 .. Len(bridge) : bridge[i].recording \in C!Starts
  BY DEF OrphanInv, CaptureInv, CaptureTypes, NativeTypes, BridgeTypes
<1>2. 0 \notin C!Starts  BY DEF C!Starts
<1>3. Latest'  BY DEF OrphanInv, Latest, Lessens
<1>4. Fed'
  <2> SUFFICES ASSUME native'.rec # 0, ~native'.hiding PROVE Tends(native.rec)'  BY DEF Fed
  <2>1. native.rec # 0 /\ ~native.hiding  BY DEF Lessens
  <2>2. PICK r \in C!Starts : r = native.rec  BY <1>1, <2>1
  <2>3. Tends(r)  BY <2>1, <2>2 DEF OrphanInv, Fed, Tends
  <2>4. Tends(r)'  BY <2>2, <2>3
  <2> QED BY <2>1, <2>2, <2>4 DEF Tends, Lessens
<1>5. BeginsAreTended'
  <2> SUFFICES ASSUME NEW i \in 1 .. Len(bridge')
               PROVE  /\ bridge'[i].generation \in Nat /\ bridge'[i].generation <= native'.generation
                      /\ bridge'[i].kind = "begin" /\ bridge'[i].generation = native'.generation
                           /\ bridge'[i].recording = native'.arm => Tends(native.arm)'  BY DEF BeginsAreTended
  <2>1. CASE \E j \in 1 .. Len(bridge) :
               bridge'[i].generation = bridge[j].generation /\ bridge'[i].kind = bridge[j].kind
                 /\ bridge'[i].recording = bridge[j].recording
    <3>1. PICK j \in 1 .. Len(bridge) :
            bridge'[i].generation = bridge[j].generation /\ bridge'[i].kind = bridge[j].kind
              /\ bridge'[i].recording = bridge[j].recording  BY <2>1
    <3>2. bridge[j].generation \in Nat /\ bridge[j].generation <= native.generation  BY DEF OrphanInv, BeginsAreTended
    <3>3. ASSUME bridge'[i].kind = "begin", bridge'[i].generation = native'.generation, bridge'[i].recording = native'.arm
          PROVE  Tends(native.arm)'
      <4>1. native'.arm = native.arm /\ bridge[j].recording = native.arm  BY <1>1, <1>2, <3>1, <3>3 DEF Lessens
      <4>2. PICK r \in C!Starts : r = native.arm  BY <1>1, <4>1
      <4>3. Tends(native.arm)  BY <3>1, <3>3, <4>1 DEF OrphanInv, BeginsAreTended, Lessens
      <4>4. Tends(r)'  BY <4>2, <4>3 DEF Tends
      <4> QED BY <4>1, <4>2, <4>4 DEF Tends
    <3> QED BY <3>1, <3>2, <3>3 DEF Lessens
  <2>2. CASE /\ bridge'[i].generation \in Nat /\ bridge'[i].generation <= native.generation
             /\ bridge'[i].kind = "begin" => Tends(bridge[i].recording)'  BY <2>2 DEF Tends, Lessens
  <2> QED BY <2>1, <2>2 DEF SameMessages
<1> QED BY <1>3, <1>4, <1>5 DEF OrphanInv

LEMMA OrphanKept ==
  ASSUME OrphanInv, CaptureInv', UNCHANGED <<cap, page, orders, used>>, SameMessages, Lessens(native')
  PROVE  OrphanInv'
<1>1. \A r \in C!Starts : Tends(r) => Tends(r)'  BY DEF Tends
<1>2. OrdersUp' /\ page.request \in 0 .. used.starts /\ page.preparing \in {0, page.request}
  BY DEF OrphanInv, OrdersUp, Latest
<1> QED BY <1>1, <1>2, OrphanStays

SameEnds == /\ cap' # None /\ cap'.begun = cap.begun
            /\ cap'.reply = cap.reply \/ cap'.reply # "unsupported"

(* Only the capture goes on. *)
LEMMA CaptureGoesOn ==
  ASSUME OrphanInv, CaptureInv', UNCHANGED <<page, orders, native>>, SameMessages, used'.starts = used.starts,
         cap' = cap \/ (cap # None /\ SameEnds)
  PROVE  OrphanInv'
<1>1. \A r \in C!Starts : Tends(r) => Tends(r)'  BY DEF Tends, SameEnds
<1>2. OrdersUp' /\ page.request \in 0 .. used.starts /\ page.preparing \in {0, page.request}
  BY DEF OrphanInv, OrdersUp, Latest
<1> QED BY <1>1, <1>2, OrphanStays DEF Lessens

LEMMA BridgeKept ==
  ASSUME UNCHANGED bridge
  PROVE  SameMessages  BY DEF SameMessages

LEMMA ObserverTends ==
  ASSUME OrphanInv, CaptureInv', DOMAIN None # CapFields,
         \/ \E t \in Tracks : C!Block(t) \/ (\E k \in {"same", "half", "other"} : C!ObserveInit(t, k))
                              \/ \E n \in 1 .. 2 : C!ObserveMedia(t, n)
         \/ C!SourceCloses \/ C!SourceOpens \/ C!SafetyCheck \/ C!DrainEnds \/ C!PostBusy \/ C!PostFails
         \/ C!AckTimeout \/ C!AppendAnswered \/ C!PostStatus \/ UNCHANGED C!vars
  PROVE  OrphanInv'
<1>1. cap # None => DOMAIN cap = CapFields  BY DEF OrphanInv, CaptureInv, CaptureTypes, CapTypes
<1>2. DOMAIN used = {"starts", "reloads", "faults"} /\ \E S : bridge \in Seq(S)
  BY DEF OrphanInv, CaptureInv, CaptureTypes, PageTypes, BridgeTypes
<1>3. \A c : cap # None /\ DOMAIN c = CapFields => c # None  OBVIOUS
<1>4. cap # None => DOMAIN C!Failure(cap) = CapFields /\ C!Failure(cap).begun = cap.begun
                    /\ C!Failure(cap).reply = cap.reply  BY <1>1 DEF C!Failure, CapFields
<1>5. C!FailMine => cap' = cap \/ (cap # None /\ SameEnds)
  BY <1>3, <1>4 DEF C!FailMine, C!Mine, C!Recording, SameEnds
<1>6. CASE C!PostStatus \/ UNCHANGED C!vars \/ C!SourceOpens
  BY <1>6, BridgeKept, CaptureGoesOn DEF C!PostStatus, C!vars, C!SourceOpens
<1>7. CASE C!SourceCloses \/ \E t \in Tracks : C!Block(t)
  BY <1>5, <1>7, BridgeKept, CaptureGoesOn DEF C!SourceCloses, C!Block
<1>8. CASE C!SafetyCheck
  <2>1. cap # None /\ SameEnds  BY <1>3, <1>4, <1>8 DEF C!SafetyCheck, C!Recording, SameEnds
  <2> QED BY <1>8, <2>1, BridgeKept, CaptureGoesOn DEF C!SafetyCheck
<1>9. ASSUME NEW t \in Tracks, NEW k, C!ObserveInit(t, k) PROVE OrphanInv'
  BY <1>5, <1>9, BridgeKept, CaptureGoesOn DEF C!ObserveInit
<1>10. ASSUME NEW t \in Tracks, NEW n, C!ObserveMedia(t, n) PROVE OrphanInv'
  <2>1. UNCHANGED <<page, bridge, orders, native, used>>  BY <1>10 DEF C!ObserveMedia
  <2>2. ASSUME NEW p, C!Enqueue(t, p), cap # None PROVE SameEnds
    <3>1. CASE cap' = C!Failure(cap)  BY <1>3, <1>4, <2>2, <3>1 DEF SameEnds
    <3>2. CASE cap' = [cap EXCEPT !.queue = Append(@, [track |-> t, index |-> cap.index[t], pieces |-> p]),
                                  !.index[t] = @ + 1]
      <4>1. DOMAIN cap' = CapFields /\ cap'.begun = cap.begun /\ cap'.reply = cap.reply
        BY <1>1, <2>2, <3>2 DEF CapFields
      <4> QED BY <1>3, <2>2, <4>1 DEF SameEnds
    <3> QED BY <2>2, <3>1, <3>2 DEF C!Enqueue
  <2>3. cap' = cap \/ C!FailMine \/ (cap # None /\ \E p : C!Enqueue(t, p))
    BY <1>10, Zenon DEF C!ObserveMedia, C!Mine, C!Recording
  <2> QED BY <1>5, <2>1, <2>2, <2>3, BridgeKept, CaptureGoesOn
<1>11. CASE C!DrainEnds \/ C!PostBusy \/ C!PostFails
  <2>1. /\ cap # None /\ UNCHANGED <<page, bridge, orders, native>> /\ used'.starts = used.starts
        /\ \/ cap' = [cap EXCEPT !.drained = TRUE]
           \/ cap' = [cap EXCEPT !.reply = "retry"]
           \/ cap' = [cap EXCEPT !.reply = "error"]
    BY <1>2, <1>11 DEF C!DrainEnds, C!PostBusy, C!PostFails, C!Recording, C!Fault
  <2>2. DOMAIN cap' = CapFields /\ cap'.begun = cap.begun /\ (cap'.reply = cap.reply \/ cap'.reply # "unsupported")
    BY <1>1, <2>1 DEF CapFields
  <2>3. SameEnds  BY <1>3, <2>1, <2>2 DEF SameEnds
  <2> QED BY <2>1, <2>3, BridgeKept, CaptureGoesOn
<1>12. CASE C!AckTimeout
  <2>1. /\ cap # None /\ UNCHANGED <<page, orders, native>> /\ used'.starts = used.starts
        /\ cap' = [cap EXCEPT !.sent = FALSE, !.reply = "retry"]
        /\ bridge' = [i \in DOMAIN bridge |-> [bridge[i] EXCEPT !.live = FALSE]]
    BY <1>2, <1>12 DEF C!AckTimeout, C!Recording, C!Fault
  <2>2. DOMAIN cap' = CapFields /\ cap'.begun = cap.begun /\ cap'.reply # "unsupported"  BY <1>1, <2>1 DEF CapFields
  <2>3. SameEnds  BY <1>3, <2>1, <2>2 DEF SameEnds
  <2>4. SameMessages
    <3>1. DOMAIN bridge = 1 .. Len(bridge) /\ Len(bridge) \in Nat  BY <1>2
    <3>2. Len(bridge') = Len(bridge)  BY <2>1, <3>1
    <3>3. \A i \in 1 .. Len(bridge) : /\ bridge'[i].generation = bridge[i].generation
                                      /\ bridge'[i].kind = bridge[i].kind /\ bridge'[i].recording = bridge[i].recording
      <4>1. \A i \in 1 .. Len(bridge) : DOMAIN bridge[i] = MessageFields
        BY DEF OrphanInv, CaptureInv, CaptureTypes, BridgeTypes
      <4> QED BY <2>1, <3>1, <4>1 DEF MessageFields
    <3> QED BY <3>2, <3>3 DEF SameMessages
  <2> QED BY <2>1, <2>3, <2>4, CaptureGoesOn
<1>13. CASE C!AppendAnswered
  <2>1. cap # None /\ cap.begun /\ UNCHANGED <<page, bridge, orders, native, used>>
    BY <1>13 DEF C!AppendAnswered, C!Recording, C!Due
  <2>2. PICK rest : rest = [cap EXCEPT !.sent = FALSE, !.reply = "none", !.try = 1]  OBVIOUS
  <2>3. DOMAIN rest = CapFields /\ rest.begun = cap.begun /\ rest.reply = "none"  BY <1>1, <2>1, <2>2 DEF CapFields
  <2>4. \/ cap' = [rest EXCEPT !.chunk = @ + 1]
        \/ cap' = [rest EXCEPT !.chunk = 0, !.queue = Tail(@)]
        \/ cap' = [rest EXCEPT !.try = cap.try + 1]
        \/ cap' = [C!Failure(rest) EXCEPT !.failed = TRUE, !.queue = <<>>, !.chunk = 0]
    BY <1>13, <2>2, Zenon DEF C!AppendAnswered
  <2>5. DOMAIN C!Failure(rest) = CapFields /\ C!Failure(rest).begun = cap.begun /\ C!Failure(rest).reply = "none"
    BY <2>3 DEF C!Failure, CapFields
  <2>6. DOMAIN cap' = CapFields /\ cap'.begun = cap.begun /\ cap'.reply # "unsupported"
    BY <2>3, <2>4, <2>5 DEF CapFields
  <2>7. SameEnds  BY <1>3, <2>1, <2>6 DEF SameEnds
  <2> QED BY <2>1, <2>7, BridgeKept, CaptureGoesOn
<1> QED BY <1>6, <1>7, <1>8, <1>9, <1>10, <1>11, <1>12, <1>13

(* The first command is taken. *)
LEMMA OrdersFall ==
  ASSUME OrphanInv, MaxStarts \in Nat, orders # <<>>, orders' = Tail(orders),
         page'.request = page.request \/ (orders[1] # 0 /\ page'.request = orders[1])
  PROVE  OrdersUp'
<1>1. orders \in Seq(C!Starts \cup {0}) /\ page.request \in Nat
  BY DEF OrphanInv, CaptureInv, CaptureTypes, PageTypes, Latest
<1>2. /\ Len(orders) \in Nat /\ Len(orders) >= 1 /\ Len(orders') = Len(orders) - 1
      /\ \A i \in 1 .. Len(orders) - 1 : orders'[i] = orders[i + 1]  BY <1>1, TailIs
<1>3. \A i \in 1 .. Len(orders) : orders[i] \in Nat  BY <1>1 DEF C!Starts
<1>4. \A i \in 1 .. Len(orders) : orders[i] # 0 =>
        orders[i] > page.request /\ \A j \in 1 .. Len(orders) : i < j /\ orders[j] # 0 => orders[i] < orders[j]
  BY DEF OrphanInv, OrdersUp
<1> SUFFICES ASSUME NEW i \in 1 .. Len(orders'), orders'[i] # 0
             PROVE  /\ orders'[i] > page'.request
                    /\ \A j \in 1 .. Len(orders') : i < j /\ orders'[j] # 0 => orders'[i] < orders'[j]
  BY DEF OrdersUp
<1>5. i + 1 \in 1 .. Len(orders) /\ 1 \in 1 .. Len(orders) /\ 1 < i + 1 /\ orders'[i] = orders[i + 1]  BY <1>2
<1>6. orders'[i] > page'.request  BY <1>3, <1>4, <1>5
<1>7. ASSUME NEW j \in 1 .. Len(orders'), i < j, orders'[j] # 0 PROVE orders'[i] < orders'[j]
  <2>1. j + 1 \in 1 .. Len(orders) /\ i + 1 < j + 1 /\ orders'[j] = orders[j + 1]  BY <1>2, <1>7
  <2> QED BY <1>4, <1>5, <1>7, <2>1
<1> QED BY <1>6, <1>7

(* The page is told to start or to stop. *)
LEMMA OrderTends ==
  ASSUME OrphanInv, CaptureInv', DOMAIN None # CapFields, MaxStarts \in Nat,
         C!StartArrives \/ C!StopArrives \/ \E ready \in BOOLEAN : C!PrepareEnds(ready)
  PROVE  OrphanInv'
<1>1. /\ DOMAIN page = {"request", "preparing", "detail"} /\ orders \in Seq(C!Starts \cup {0})
      /\ page.request \in 0 .. used.starts /\ used.starts \in Nat /\ page.preparing \in {0, page.request}
  BY DEF OrphanInv, CaptureInv, CaptureTypes, PageTypes, Latest
<1>2. UNCHANGED <<bridge, native, used>>  BY DEF C!StartArrives, C!StopArrives, C!PrepareEnds
<1>3. SameMessages  BY <1>2, BridgeKept
<1>4. /\ \A r : C!StartEncoded(r) => page'.request = r /\ page'.preparing = 0
      /\ cap # None => page.preparing = 0  BY <1>1 DEF C!StartEncoded, OrphanInv, CaptureInv, StartsOK
<1>5. CASE C!StartArrives
  <2>1. orders # <<>> /\ orders' = Tail(orders) /\ Head(orders) # 0  BY <1>5 DEF C!StartArrives
  <2>2. PICK r : r = orders[1]  OBVIOUS
  <2>3. r = Head(orders) /\ r # 0 /\ r \in C!Starts /\ r <= used.starts /\ r > page.request
    <3>1. Head(orders) = orders[1] /\ 1 \in 1 .. Len(orders) /\ orders[1] \in C!Starts \cup {0}  BY <1>1, <2>1
    <3>2. orders[1] <= used.starts /\ orders[1] > page.request
      BY <2>1, <3>1 DEF OrphanInv, CaptureInv, StartsOK, OrdersUp
    <3> QED BY <2>1, <2>2, <3>1, <3>2
  <2>4. CASE UNCHANGED <<cap, page>>
    <3>1. OrdersUp'  BY <2>1, <2>4, OrdersFall
    <3>2. \A q \in C!Starts : Tends(q) => Tends(q)'  BY <2>4 DEF Tends
    <3> QED BY <1>1, <1>2, <1>3, <2>4, <3>1, <3>2, OrphanStays DEF Lessens
  <2>5. CASE page'.request = r /\ page'.preparing \in {0, r}
    <3>1. OrdersUp'  BY <2>1, <2>2, <2>3, <2>5, OrdersFall
    <3>2. \A q \in C!Starts : Tends(q) => ~(native.rec = q \/ native.arm = q)
      BY <1>1, <2>3 DEF Tends, OrphanInv, Latest, C!Starts
    <3>3. page'.request \in 0 .. used.starts  BY <1>1, <2>3, <2>5 DEF C!Starts
    <3> QED BY <1>2, <1>3, <2>5, <3>1, <3>2, <3>3, OrphanStays DEF Lessens
  <2> QED BY <1>4, <1>5, <2>3, <2>4, <2>5 DEF C!StartArrives
<1>6. ASSUME NEW ready \in BOOLEAN, C!PrepareEnds(ready) PROVE OrphanInv'
  <2>1. page.preparing # 0 /\ UNCHANGED orders  BY <1>6 DEF C!PrepareEnds
  <2>2. page'.request = page.request /\ page'.preparing = 0  BY <1>1, <1>4, <1>6, <2>1 DEF C!PrepareEnds
  <2>3. OrdersUp'  BY <2>1, <2>2 DEF OrphanInv, OrdersUp
  <2>4. \A q \in C!Starts : ~Tends(q)  BY <2>1 DEF Tends
  <2> QED BY <1>1, <1>2, <1>3, <2>2, <2>3, <2>4, OrphanStays DEF Lessens
<1>7. CASE C!StopArrives
  <2>1. orders # <<>> /\ orders' = Tail(orders)  BY <1>7 DEF C!StopArrives
  <2>2. CASE page.preparing # 0
    <3>1. page'.request = page.request /\ page'.preparing = 0  BY <1>1, <1>7, <2>2 DEF C!StopArrives
    <3>2. OrdersUp'  BY <2>1, <3>1, OrdersFall
    <3>3. \A q \in C!Starts : ~Tends(q)  BY <2>2 DEF Tends
    <3> QED BY <1>1, <1>2, <1>3, <3>1, <3>2, <3>3, OrphanStays DEF Lessens
  <2>3. CASE page.preparing = 0
    <3>1. UNCHANGED page /\ cap' = (IF cap # None THEN [cap EXCEPT !.accepting = FALSE, !.stopping = TRUE] ELSE cap)
      BY <1>7, <2>3 DEF C!StopArrives, C!Recording
    <3>2. OrdersUp'  BY <2>1, <3>1, OrdersFall
    <3>3. cap # None => DOMAIN cap = CapFields  BY DEF OrphanInv, CaptureInv, CaptureTypes, CapTypes
    <3>4. cap # None => DOMAIN cap' = CapFields /\ cap'.begun = cap.begun /\ cap'.reply = cap.reply
      BY <3>1, <3>3 DEF CapFields
    <3>5. \A q \in C!Starts : Tends(q) => Tends(q)'  BY <3>1, <3>4 DEF Tends
    <3> QED BY <1>1, <1>2, <1>3, <3>1, <3>2, <3>5, OrphanStays DEF Lessens
  <2> QED BY <2>2, <2>3
<1> QED BY <1>5, <1>6, <1>7

(* The capture ends, and the page says how. *)
LEMMA EndTends ==
  ASSUME OrphanInv, CaptureInv', DOMAIN None # CapFields, C!BeginAnswered \/ C!FinishAnswered
  PROVE  OrphanInv'
<1>1. /\ DOMAIN page = {"request", "preparing", "detail"} /\ cap # None /\ DOMAIN cap = CapFields
      /\ page.request \in 0 .. used.starts /\ page.preparing \in {0, page.request} /\ page.request = cap.request
      /\ cap.request \in C!Starts
  BY DEF OrphanInv, CaptureInv, CaptureTypes, PageTypes, CapTypes, PageOK, Latest, C!BeginAnswered, C!FinishAnswered, C!Recording
<1>2. UNCHANGED <<bridge, native, used, orders>>  BY DEF C!BeginAnswered, C!FinishAnswered
<1>3. SameMessages  BY <1>2, BridgeKept
<1>4. page'.request = page.request /\ page'.preparing = page.preparing
  BY <1>1 DEF C!BeginAnswered, C!FinishAnswered, C!Ended
<1>5. OrdersUp'  BY <1>2, <1>4 DEF OrphanInv, OrdersUp
<1>6. SUFFICES \A r \in C!Starts : Tends(r) => Tends(r)' \/ ~(native.rec = r \/ native.arm = r)
  BY <1>1, <1>2, <1>3, <1>4, <1>5, OrphanStays DEF Lessens
<1> SUFFICES ASSUME NEW r \in C!Starts, Tends(r), native.rec = r \/ native.arm = r PROVE Tends(r)'  OBVIOUS
<1>7. page.request = r /\ cap.request = r /\ page.preparing = 0  BY <1>1 DEF Tends
<1>8. disk[r].state # "saved"  BY DEF OrphanInv, CaptureInv, SessionOK, StartsOK, C!Starts
<1>9. CASE C!BeginAnswered
  <2>1. cap.reply # "unsupported"  BY <1>1, <1>9 DEF Tends, C!BeginAnswered
  <2>2. CASE cap' = [cap EXCEPT !.begun = TRUE, !.sent = FALSE, !.reply = "none"]
    <3>1. DOMAIN cap' = CapFields /\ cap'.reply = "none"  BY <1>1, <2>2 DEF CapFields
    <3> QED BY <1>4, <1>7, <3>1 DEF Tends
  <2>3. CASE C!Ended("native_rejected")
    <3>1. page'.detail = "native_rejected" /\ cap' = None  BY <1>1, <2>3 DEF C!Ended
    <3> QED BY <1>4, <1>7, <3>1 DEF Tends, C!EndsRecording
  <2> QED BY <1>9, <2>1, <2>2, <2>3 DEF C!BeginAnswered
<1>10. CASE C!FinishAnswered
  <2>1. cap.reply # "saved"  BY <1>1, <1>7, <1>8 DEF OrphanInv, CaptureInv, CaptureOK, CaptureFlags
  <2>2. C!Ended("native_rejected")  BY <1>10, <2>1 DEF C!FinishAnswered
  <2>3. page'.detail = "native_rejected" /\ cap' = None  BY <1>1, <2>2 DEF C!Ended
  <2> QED BY <1>4, <1>7, <2>3 DEF Tends, C!EndsRecording
<1> QED BY <1>9, <1>10

(* A request is posted. *)
LEMMA PostTends ==
  ASSUME OrphanInv, CaptureInv', DOMAIN None # CapFields, C!Post
  PROVE  OrphanInv'
<1>1. PICK m : m = C!Message(cap, native.generation, TRUE)  OBVIOUS
<1>2. /\ bridge' = Append(bridge, m) /\ cap' = [cap EXCEPT !.sent = TRUE] /\ cap # None /\ cap.reply = "none"
      /\ UNCHANGED <<page, orders, native, used>>  BY <1>1 DEF C!Post, C!Recording
<1>3. m.recording = cap.request /\ m.generation = native.generation  BY <1>1, MessageIs DEF PostedBy, C!Message
<1>4. DOMAIN cap = CapFields /\ (\E S : bridge \in Seq(S)) /\ page.request = cap.request /\ page.preparing = 0
  BY <1>2 DEF OrphanInv, CaptureInv, CaptureTypes, CapTypes, BridgeTypes, PageOK, StartsOK
<1>5. DOMAIN cap' = CapFields /\ cap'.begun = cap.begun /\ cap'.reply = "none" /\ cap' # None
  BY <1>2, <1>4 DEF CapFields
<1>6. PICK S : bridge \in Seq(S)  BY <1>4
<1>7. PICK R : R = S \cup {m}  OBVIOUS
<1>8. bridge \in Seq(R) /\ m \in R  BY <1>6, <1>7
<1>9. Len(bridge) \in Nat /\ Len(bridge') = Len(bridge) + 1 /\ bridge'[Len(bridge) + 1] = m  BY <1>2, <1>8
<1>10. \A i \in 1 .. Len(bridge) : bridge'[i] = bridge[i]  BY <1>2, <1>8
<1>11. SameMessages
  <2> SUFFICES ASSUME NEW i \in 1 .. Len(bridge'), i = Len(bridge) + 1
               PROVE  /\ bridge'[i].generation \in Nat /\ bridge'[i].generation <= native.generation
                      /\ Tends(bridge[i].recording)'  BY <1>9, <1>10 DEF SameMessages
  <2>1. bridge'[i] = m /\ native.generation \in Nat  BY <1>9 DEF OrphanInv, Latest
  <2> QED BY <1>2, <1>3, <1>4, <1>5, <2>1 DEF Tends
<1> QED BY <1>2, <1>5, <1>11, CaptureGoesOn DEF SameEnds

(* What the native end does with a message, or by itself, but for a begin. *)
LEMMA AnswerTends ==
  ASSUME OrphanInv, CaptureInv', DOMAIN None # CapFields, bridge # <<>>, NEW outcome, outcome # "unsupported",
         C!Answer(bridge[1], outcome), Lessens(native'), UNCHANGED <<page, orders>>, used'.starts = used.starts
  PROVE  OrphanInv'
<1>1. Heard(outcome)  BY AnswerIs DEF OrphanInv
<1>2. SameMessages  BY <1>1 DEF Heard, BridgeShrinks, SameMessages
<1>3. \A r \in C!Starts : Tends(r) => Tends(r)'  BY <1>1 DEF Heard, CapHears, SameCapture, Tends
<1>4. OrdersUp' /\ page.request \in 0 .. used.starts /\ page.preparing \in {0, page.request}
  BY DEF OrphanInv, OrdersUp, Latest
<1> QED BY <1>2, <1>3, <1>4, OrphanStays

LEMMA InterruptLessens ==
  ASSUME OrphanInv
  PROVE  /\ Lessens(C!Interrupt(native)) /\ Lessens(native)
         /\ DOMAIN C!Interrupt(native) = NativeFields /\ C!Interrupt(native).rec = 0 /\ C!Interrupt(native).arm = 0
<1>1. DOMAIN native = NativeFields  BY DEF OrphanInv, CaptureInv, CaptureTypes, NativeTypes
<1>2. PICK n : n = C!Interrupt(native)  OBVIOUS
<1>3. /\ DOMAIN n = NativeFields /\ n.arm = 0 /\ n.rec = 0 /\ n.accepted = native.accepted
      /\ n.generation = native.generation  BY <1>1, <1>2 DEF C!Interrupt, NativeFields
<1> QED BY <1>2, <1>3 DEF Lessens

LEMMA RefuseTends ==
  ASSUME OrphanInv, CaptureInv', DOMAIN None # CapFields, bridge # <<>>, C!Refuse(bridge[1]),
         UNCHANGED <<page, orders>>, used'.starts = used.starts
  PROVE  OrphanInv'
<1>1. C!Answer(bridge[1], "error")  BY DEF C!Refuse
<1>2. native' = native \/ native' = C!Interrupt(native)  BY DEF C!Refuse
<1>3. Lessens(native')  BY <1>2, InterruptLessens
<1> QED BY <1>1, <1>3, AnswerTends

LEMMA ServesTend ==
  ASSUME OrphanInv, CaptureInv', DOMAIN None # CapFields,
         C!ServeStale \/ C!ServeFails \/ C!ServeAppend \/ C!ServeFinish
  PROVE  OrphanInv'
<1>1. bridge # <<>> /\ UNCHANGED <<page, orders>>  BY DEF C!ServeStale, C!ServeFails, C!ServeAppend, C!ServeFinish
<1>2. used'.starts = used.starts
  <2>1. DOMAIN used = {"starts", "reloads", "faults"}  BY DEF OrphanInv, CaptureInv, CaptureTypes, PageTypes
  <2> QED BY <2>1 DEF C!ServeStale, C!ServeFails, C!ServeAppend, C!ServeFinish, C!Fault
<1>3. DOMAIN native = NativeFields  BY DEF OrphanInv, CaptureInv, CaptureTypes, NativeTypes
<1>4. CASE C!Refuse(bridge[1])  BY <1>1, <1>2, <1>4, RefuseTends
<1>5. CASE C!Answer(bridge[1], "error") /\ native' = [native EXCEPT !.arm = 0]
  <2>1. Lessens(native')  BY <1>3, <1>5 DEF Lessens, NativeFields
  <2> QED BY <1>1, <1>2, <1>5, <2>1, AnswerTends
<1>6. CASE C!Accept(bridge[1])
  <2>1. CASE C!Answer(bridge[1], "ok") /\ (UNCHANGED native \/ \E s : native' = [native EXCEPT !.session = s])
    <3>1. Lessens(native')  BY <1>3, <2>1 DEF Lessens, NativeFields
    <3> QED BY <1>1, <1>2, <2>1, <3>1, AnswerTends
  <2> QED BY <1>4, <1>6, <2>1 DEF C!Accept
<1>7. CASE C!ServeFinish /\ ~C!Refuse(bridge[1])
  <2>1. PICK outcome : outcome \in {"interrupted", "saved"} /\ C!Answer(bridge[1], outcome)
                       /\ native' = [native EXCEPT !.rec = 0, !.ready = FALSE, !.session = C!NoSession]
    BY <1>7 DEF C!ServeFinish
  <2>2. Lessens(native')  BY <1>3, <2>1 DEF Lessens, NativeFields
  <2> QED BY <1>1, <1>2, <2>1, <2>2, AnswerTends
<1> QED BY <1>4, <1>5, <1>6, <1>7 DEF C!ServeStale, C!ServeFails, C!ServeAppend, C!ServeFinish

(* The begin of the start that the page tends. *)
LEMMA BeginTends ==
  ASSUME OrphanInv, CaptureInv', DOMAIN None # CapFields, C!ServeBegin
  PROVE  OrphanInv'
<1>1. /\ bridge # <<>> /\ UNCHANGED <<page, orders, used>> /\ bridge[1].kind = "begin"
      /\ bridge[1].generation = native.generation  BY DEF C!ServeBegin
<1>2. /\ DOMAIN native = NativeFields /\ native.arm \in C!Starts \cup {0} /\ (\E S : bridge \in Seq(S))
      /\ \A i \in 1 .. Len(bridge) : bridge[i].recording \in C!Starts
  BY DEF OrphanInv, CaptureInv, CaptureTypes, NativeTypes, BridgeTypes
<1>3. 1 \in 1 .. Len(bridge) /\ 0 \notin C!Starts  BY <1>1, <1>2 DEF C!Starts
<1>4. CASE C!Refuse(bridge[1])  BY <1>1, <1>4, RefuseTends
<1>5. CASE ~C!Refuse(bridge[1])
  <2>1. native.rec = 0 /\ native.arm = bridge[1].recording  BY <1>5 DEF C!ServeBegin
  <2>2. PICK r \in C!Starts : r = native.arm  BY <1>2, <1>3, <2>1
  <2>3. Tends(r)  BY <1>1, <1>3, <2>1, <2>2 DEF OrphanInv, BeginsAreTended, Tends
  <2>4. CASE /\ native' = [native EXCEPT !.arm = 0, !.rec = bridge[1].recording, !.accepted = bridge[1].recording]
             /\ C!Answer(bridge[1], "ok")
    <3>1. /\ native'.arm = 0 /\ native'.rec = r /\ native'.accepted = r /\ native'.generation = native.generation
      BY <1>2, <2>1, <2>2, <2>4 DEF NativeFields
    <3>2. Heard("ok")  BY <1>1, <2>4, AnswerIs DEF OrphanInv
    <3>3. Tends(r)'  BY <1>1, <2>3, <3>2 DEF Heard, CapHears, SameCapture, Tends
    <3>4. Latest'  BY <1>1, <2>2, <3>1 DEF OrphanInv, Latest
    <3>5. Fed'  BY <3>1, <3>3 DEF Fed, Tends
    <3>6. BeginsAreTended'  BY <1>2, <1>3, <3>1, <3>2 DEF Heard, BridgeShrinks, OrphanInv, BeginsAreTended
    <3> QED BY <1>1, <3>4, <3>5, <3>6 DEF OrphanInv, OrdersUp
  <2>5. CASE C!Answer(bridge[1], "unsupported") /\ UNCHANGED native
    <3>1. Heard("unsupported")  BY <1>1, <2>5, AnswerIs DEF OrphanInv
    <3>2. Latest' /\ Fed' /\ OrdersUp'  BY <1>1, <2>1, <2>5 DEF OrphanInv, Latest, Fed, OrdersUp
    <3>3. CASE bridge[1].live
      <4>1. bridge' = <<>>  BY <3>1, <3>3 DEF Heard
      <4> QED BY <3>2, <4>1 DEF OrphanInv, BeginsAreTended
    <3>4. CASE ~bridge[1].live
      <4>1. cap' = cap /\ UNCHANGED page  BY <1>1, <3>1, <3>4 DEF Heard
      <4>2. Tends(native.arm)'  BY <2>2, <2>3, <2>5, <4>1 DEF Tends
      <4>3. BeginsAreTended'  BY <2>5, <3>1, <4>2 DEF Heard, BridgeShrinks, OrphanInv, BeginsAreTended
      <4> QED BY <3>2, <4>3 DEF OrphanInv
    <3> QED BY <3>3, <3>4
  <2> QED BY <1>5, <2>4, <2>5 DEF C!ServeBegin
<1> QED BY <1>4, <1>5

(* The native end hears a status, or that its page is gone. *)
LEMMA StatusTends ==
  ASSUME OrphanInv, CaptureInv', C!ServeStatus \/ C!PageHidden
  PROVE  OrphanInv'
<1>1. UNCHANGED <<cap, page, bridge, orders, used>>  BY DEF C!ServeStatus, C!PageHidden
<1>2. PICK n : n = C!Interrupt(native)  OBVIOUS
<1>3. /\ DOMAIN native = NativeFields /\ DOMAIN n = NativeFields /\ Lessens(n) /\ Lessens(native)
      /\ n.rec = 0 /\ n.arm = 0
  BY <1>2, InterruptLessens DEF OrphanInv, CaptureInv, CaptureTypes, NativeTypes
<1>4. CASE C!PageHidden
  <2>1. native' = [n EXCEPT !.hiding = FALSE]  BY <1>2, <1>4 DEF C!PageHidden
  <2>2. Lessens(native')  BY <1>3, <2>1 DEF Lessens, NativeFields
  <2> QED BY <1>1, <2>2, BridgeKept, OrphanKept
<1>5. CASE C!ServeStatus
  <2>1. \/ native' = native
        \/ \E q \in {n, native} : \E a, b : \E c \in {0, q.arm} :
             native' = [q EXCEPT !.ready = a, !.recording = b, !.arm = c]  BY <1>2, <1>5 DEF C!ServeStatus
  <2>2. ASSUME NEW q \in {n, native}, NEW a, NEW b, NEW c \in {0, q.arm},
               native' = [q EXCEPT !.ready = a, !.recording = b, !.arm = c]
        PROVE  Lessens(native')
    <3>1. /\ native'.arm = c /\ native'.rec = q.rec /\ native'.accepted = q.accepted
          /\ native'.generation = q.generation /\ native'.hiding = q.hiding  BY <1>3, <2>2 DEF NativeFields
    <3> QED BY <1>3, <2>2, <3>1 DEF Lessens
  <2>3. Lessens(native')  BY <1>3, <2>1, <2>2
  <2> QED BY <1>1, <2>3, BridgeKept, OrphanKept
<1> QED BY <1>4, <1>5

(* A command is added. *)
LEMMA CommandsGrow ==
  ASSUME OrphanInv, MaxStarts \in Nat, NEW r \in Nat, r = 0 \/ r > used.starts,
         orders' = Append(orders, r), page' = page
  PROVE  OrdersUp'
<1>1. orders \in Seq(C!Starts \cup {0}) /\ C!Starts \subseteq Nat /\ page.request \in Nat /\ used.starts \in Nat
      /\ page.request <= used.starts  BY DEF OrphanInv, CaptureInv, CaptureTypes, PageTypes, Latest, C!Starts
<1>2. PICK n \in Nat : n = Len(orders)  BY <1>1
<1>3. PICK T, S : T = C!Starts \cup {0} /\ S = T \cup {r}  OBVIOUS
<1>4. Len(orders') = n + 1 /\ orders'[n + 1] = r /\ \A i \in 1 .. n : orders'[i] = orders[i] /\ orders[i] \in Nat
  <2>1. orders \in Seq(T)  BY <1>1, <1>3
  <2>2. orders \in Seq(S) /\ r \in S  BY <1>3, <2>1
  <2>3. Len(orders') = n + 1 /\ orders'[n + 1] = r /\ \A i \in 1 .. n : orders'[i] = orders[i]  BY <1>2, <2>2
  <2>4. \A i \in 1 .. Len(orders) : orders[i] \in Nat  BY <1>1 DEF C!Starts
  <2> QED BY <1>2, <2>3, <2>4
<1>5. \A i \in 1 .. n : orders[i] # 0 => orders[i] <= used.starts  BY <1>2 DEF OrphanInv, CaptureInv, StartsOK
<1> SUFFICES ASSUME NEW i \in 1 .. n + 1, orders'[i] # 0
             PROVE  orders'[i] > page.request /\ \A j \in 1 .. n + 1 : i < j /\ orders'[j] # 0 => orders'[i] < orders'[j]
  BY <1>4 DEF OrdersUp
<1>6. CASE i = n + 1  BY <1>1, <1>2, <1>4, <1>6
<1>7. CASE i \in 1 .. n
  <2>1. orders[i] > page.request /\ \A j \in 1 .. n : i < j /\ orders[j] # 0 => orders[i] < orders[j]
    BY <1>2, <1>4, <1>7 DEF OrphanInv, OrdersUp
  <2>2. ASSUME NEW j \in 1 .. n + 1, i < j, orders'[j] # 0 PROVE orders'[i] < orders'[j]
    BY <1>1, <1>4, <1>5, <1>7, <2>1, <2>2
  <2> QED BY <1>4, <1>7, <2>1, <2>2
<1> QED BY <1>2, <1>6, <1>7

LEMMA CommandTends ==
  ASSUME OrphanInv, CaptureInv', MaxStarts \in Nat, C!NativeStart \/ C!NativeStop
  PROVE  OrphanInv'
<1>1. UNCHANGED <<cap, page, bridge>>  BY DEF C!NativeStart, C!NativeStop
<1>2. /\ DOMAIN native = NativeFields /\ DOMAIN used = {"starts", "reloads", "faults"} /\ used.starts \in 0 .. MaxStarts
      /\ \A i \in 1 .. Len(bridge) : bridge[i].recording \in C!Starts
      /\ page.request \in 0 .. used.starts /\ page.preparing \in {0, page.request}
  BY DEF OrphanInv, CaptureInv, CaptureTypes, NativeTypes, PageTypes, BridgeTypes, Latest
<1>3. CASE C!NativeStop
  <2>1. orders' = Append(orders, 0) /\ native' = [native EXCEPT !.arm = 0] /\ used' = used  BY <1>3 DEF C!NativeStop
  <2>2. Lessens(native')  BY <1>2, <2>1 DEF Lessens, NativeFields
  <2>3. OrdersUp'  BY <1>1, <2>1, CommandsGrow
  <2>4. \A q \in C!Starts : Tends(q) => Tends(q)'  BY <1>1 DEF Tends
  <2> QED BY <1>1, <1>2, <2>1, <2>2, <2>3, <2>4, BridgeKept, OrphanStays
<1>4. CASE C!NativeStart
  <2>1. PICK r : r = used.starts + 1  OBVIOUS
  <2>2. /\ native.rec = 0 /\ used.starts < MaxStarts /\ used' = [used EXCEPT !.starts = r]
        /\ orders' = Append(orders, r) /\ native' = [native EXCEPT !.arm = r, !.armed = native.generation]
    BY <1>4, <2>1 DEF C!NativeStart
  <2>3. /\ native'.arm = r /\ native'.rec = 0 /\ native'.generation = native.generation /\ used'.starts = r
        /\ r \in C!Starts /\ r \in Nat /\ r > used.starts  BY <1>2, <2>1, <2>2 DEF NativeFields, C!Starts
  <2>4. Latest' /\ Fed'  BY <1>1, <1>2, <2>3 DEF OrphanInv, Latest, Fed
  <2>5. \A i \in 1 .. Len(bridge) : bridge[i].recording # r  BY <2>3 DEF OrphanInv, CaptureInv, StartsOK, Fresh
  <2>6. BeginsAreTended'  BY <1>1, <2>3, <2>5 DEF OrphanInv, BeginsAreTended
  <2>7. OrdersUp'  BY <1>1, <2>2, <2>3, CommandsGrow
  <2> QED BY <2>4, <2>6, <2>7 DEF OrphanInv
<1> QED BY <1>3, <1>4

(* The next document has another generation, and the last message of the one
   before it ends a recording. *)
LEMMA ReloadTends ==
  ASSUME OrphanInv, CaptureInv', DOMAIN None # CapFields, MaxStarts \in Nat, C!Reload
  PROVE  OrphanInv'
<1>1. /\ used' = [used EXCEPT !.reloads = @ + 1] /\ page' = C!FreshPage /\ orders' \in {orders, <<>>}
      /\ native' = [native EXCEPT !.generation = native.generation + 1, !.ready = FALSE, !.hiding = TRUE]
  BY DEF C!Reload
<1>2. DOMAIN native = NativeFields /\ DOMAIN used = {"starts", "reloads", "faults"} /\ used.starts \in Nat
      /\ native.generation \in Nat /\ orders \in Seq(C!Starts \cup {0})
  BY DEF OrphanInv, CaptureInv, CaptureTypes, NativeTypes, PageTypes, Latest
<1>3. /\ native'.rec = native.rec /\ native'.arm = native.arm /\ native'.accepted = native.accepted
      /\ native'.generation = native.generation + 1 /\ native'.hiding /\ used'.starts = used.starts
      /\ page'.request = 0 /\ page'.preparing = 0  BY <1>1, <1>2 DEF NativeFields, C!FreshPage
<1>4. Latest' /\ Fed'  BY <1>2, <1>3 DEF OrphanInv, Latest, Fed
<1>5. BeginsAreTended'
  <2> SUFFICES ASSUME NEW i \in 1 .. Len(bridge')
               PROVE  /\ bridge'[i].generation \in Nat /\ bridge'[i].generation <= native.generation + 1
                      /\ ~(bridge'[i].kind = "begin" /\ bridge'[i].generation = native.generation + 1)
    BY <1>3 DEF BeginsAreTended
  <2>1. CASE \E j \in 1 .. Len(bridge) :
               bridge'[i].kind = bridge[j].kind /\ bridge'[i].generation = bridge[j].generation
    <3>1. PICK j \in 1 .. Len(bridge) :
            bridge'[i].kind = bridge[j].kind /\ bridge'[i].generation = bridge[j].generation  BY <2>1
    <3>2. bridge[j].generation \in Nat /\ bridge[j].generation <= native.generation  BY DEF OrphanInv, BeginsAreTended
    <3> QED BY <1>2, <3>1, <3>2
  <2>2. CASE bridge'[i].kind = "finish" /\ bridge'[i].generation \in {native.generation, native.generation + 1}
    BY <1>2, <2>2
  <2>3. CaptureInv  BY DEF OrphanInv
  <2> QED BY <2>1, <2>2, <2>3, ReloadBridge DEF LeftOver
<1>6. OrdersUp'
  <2>1. \A i \in 1 .. Len(orders) : orders[i] # 0 => orders[i] > 0  BY <1>2 DEF C!Starts
  <2>2. orders' = orders \/ Len(orders') = 0  BY <1>1
  <2> QED BY <1>3, <2>1, <2>2 DEF OrphanInv, OrdersUp
<1> QED BY <1>4, <1>5, <1>6 DEF OrphanInv

(* A recording that no capture of the page feeds, with no message on its way,
   is about to end: its document is gone, and the native end will hear so, or
   the page says that it was rejected, and each status of the page ends it --
   whatever is lost, repeated or late, and whenever the page is left or the
   app stops and starts.  (browser_encoded_capture.js, browser_capture.js,
   browser_encoded.rs) *)
THEOREM OrphansEnd ==
  ASSUME DOMAIN None # CapFields, MaxStarts \in Nat
  PROVE  C!Spec => []C!OrphanEnds
<1>1. C!Init => OrphanInv
  <2> SUFFICES ASSUME C!Init PROVE OrphanInv  OBVIOUS
  <2>1. /\ page = C!FreshPage /\ bridge = <<>> /\ orders = <<>> /\ used.starts = 0
        /\ native.rec = 0 /\ native.arm = 0 /\ native.generation = 0 /\ Len(<<>>) = 0  BY DEF C!Init
  <2> QED BY <2>1, CaptureInit DEF OrphanInv, Latest, Fed, BeginsAreTended, OrdersUp, C!FreshPage
<1>2. OrphanInv /\ [C!Next]_C!vars => OrphanInv'
  <2> SUFFICES ASSUME OrphanInv, [C!Next]_C!vars PROVE OrphanInv'  OBVIOUS
  <2>1. CaptureInv'  BY CaptureStep DEF OrphanInv
  <2>2. CASE C!Feed  BY <2>1, <2>2, ObserverTends DEF C!Feed
  <2>3. CASE C!Disturb  BY <2>1, <2>3, ObserverTends, ReloadTends DEF C!Disturb
  <2>4. CASE C!Page  BY <2>1, <2>4, ObserverTends, OrderTends, EndTends, PostTends DEF C!Page
  <2>5. CASE C!Host  BY <2>1, <2>5, ServesTend, BeginTends, StatusTends, CommandTends DEF C!Host
  <2>6. CASE UNCHANGED C!vars  BY <2>1, <2>6, ObserverTends
  <2> QED BY <2>2, <2>3, <2>4, <2>5, <2>6 DEF C!Next
<1>3. OrphanInv => C!OrphanEnds  BY DEF OrphanInv, Latest, Fed, Tends, C!OrphanEnds, C!Recording, C!Busy
<1> QED BY <1>1, <1>2, <1>3, PTL DEF C!Spec
====
