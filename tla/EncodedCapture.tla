---- MODULE EncodedCapture ----
(***************************************************************************)
(* The recording of a broadcast from the official page: the observer of    *)
(* the player's appends (browser_encoded_capture.js), the commands, status *)
(* posts and requests around it (browser_capture.js) and the native end    *)
(* they talk to (browser_encoded.rs, browser.rs).                          *)
(*                                                                         *)
(* A track's media are numbered pieces: an odd piece is the head of a      *)
(* fragment (from its moof on), the even piece after it the rest.  A       *)
(* piece is sent as one chunk.  A start of the user, its one-use arm and   *)
(* the recording it leads to have the same number.                         *)
(***************************************************************************)
EXTENDS Naturals, Sequences, FiniteSets

CONSTANTS None,        \* no capture, no status post
          Tracks,      \* source buffers
          Room,        \* capacity of the bridge's queue
          MaxQueue,    \* appends that wait in the page before it overflows
          MaxTries,    \* times a chunk is sent
          MaxPieces,   \* bound: pieces of a track
          MaxSources,  \* bound: media sources of a document
          MaxStarts,   \* bound: starts
          MaxReloads,  \* bound: reloads
          MaxOrders,   \* bound: commands on their way to the page
          MaxFaults    \* bound: timeouts, busy answers, failing posts and disks

VARIABLES src,     \* the player's media source and what the observer knows of it
          cap,     \* the observer's `active`, its queue and its request
          page,    \* lastCaptureRequestId, preparingRequest, lastDetail
          bridge,  \* requests on the way to the native writer
          note,    \* the status post on its way
          orders,  \* native commands on their way to the page
          native,  \* ViewState and the encoded session
          disk,    \* the recordings
          taken,   \* the pieces each capture has put into its queue
          used     \* what has been used of the bounds

vars == <<src, cap, page, bridge, note, orders, native, disk, taken, used>>

Starts == 1..MaxStarts
Odd(p) == p % 2 = 1
EachTrack(x) == [t \in Tracks |-> x]
Recording == cap # None

FreshSource(n) ==
  [number |-> n, closed |-> FALSE,
   track |-> EachTrack([at |-> 0, init |-> FALSE, awaiting |-> FALSE, forwarding |-> FALSE, blocked |-> FALSE])]

\* A document without a request; its native side has heard of no readiness.
FreshPage == [request |-> 0, preparing |-> 0, detail |-> "ready"]

NoSession == [next |-> EachTrack(0), partial |-> <<>>, previous |-> <<>>]

Init ==
  /\ src = FreshSource(1) /\ cap = None /\ page = FreshPage
  /\ bridge = <<>> /\ note = None /\ orders = <<>>
  /\ native = [arm |-> 0, armed |-> 0, rec |-> 0, accepted |-> 0, generation |-> 0, ready |-> FALSE,
               recording |-> FALSE, hiding |-> FALSE, session |-> NoSession]
  /\ disk = [r \in Starts |-> [state |-> "none", track |-> EachTrack(<<>>)]]
  /\ taken = [r \in Starts |-> EachTrack(<<>>)]
  /\ used = [starts |-> 0, reloads |-> 0, faults |-> 0]

----
(* The observer. *)

\* candidate(): every track has its init segment and nothing is blocked.
Candidate ==
  /\ ~src.closed
  /\ \A t \in Tracks : LET s == src.track[t] IN s.init /\ ~s.awaiting /\ ~s.blocked

Mine == Recording /\ cap.of = src.number

\* failure(): stop taking appends and begin to finish as interrupted.
Failure(c) == [c EXCEPT !.interrupted = TRUE, !.accepting = FALSE, !.stopping = TRUE]

\* block() of a track, or the close of the source: a capture of this source fails.
FailMine == cap' = IF Mine THEN Failure(cap) ELSE cap

\* cleanUp(): the capture is over.
CleanUp(s, c) == IF c.of = s.number THEN [s EXCEPT !.track = [t \in Tracks |-> [s.track[t] EXCEPT !.forwarding = FALSE]]] ELSE s

\* A variant that forwards from the middle of a fragment.
ForwardedAtOnce(t, pieces) == pieces

\* observeAppend() of media: a track is forwarded from the first moof seen while a capture accepts.
Forwarded(t, pieces) ==
  IF Odd(pieces[1]) \/ src.track[t].forwarding THEN pieces ELSE Tail(pieces)

\* enqueue(): the append gets its index, or the queue overflows.
Enqueue(t, pieces) ==
  IF Len(cap.queue) >= MaxQueue
  THEN cap' = Failure(cap) /\ UNCHANGED taken
  ELSE /\ cap' = [cap EXCEPT !.queue = Append(@, [track |-> t, index |-> cap.index[t], pieces |-> pieces]),
                             !.index[t] = @ + 1]
       /\ taken' = [taken EXCEPT ![cap.request][t] = @ \o pieces]

ObserveMedia(t, n) ==
  LET s == src.track[t]
      current == Mine /\ cap.accepting
      pieces == [i \in 1..n |-> s.at + i]
      out == IF current THEN Forwarded(t, pieces) ELSE <<>>
  IN  /\ ~s.blocked /\ ~src.closed /\ s.init /\ s.at + n <= MaxPieces
      /\ IF s.awaiting
         THEN src' = [src EXCEPT !.track[t].blocked = TRUE] /\ FailMine /\ UNCHANGED taken
         ELSE /\ src' = [src EXCEPT !.track[t].at = s.at + n,
                           !.track[t].forwarding = IF \E i \in 1..n : Odd(pieces[i]) THEN current ELSE @]
              /\ IF out = <<>> THEN UNCHANGED <<cap, taken>> ELSE Enqueue(t, out)
      /\ UNCHANGED <<page, bridge, note, orders, native, disk, used>>

\* observeAppend() of an init segment, whole or its first half, the same as before or another.
ObserveInit(t, kind) ==
  LET s == src.track[t]
      changed == kind = "other" /\ s.init /\ Mine /\ cap.accepting
  IN  /\ ~s.blocked /\ ~src.closed /\ s.at % 2 = 0
      /\ kind = "half" => ~s.awaiting
      /\ src' = [src EXCEPT !.track[t] =
           IF changed THEN [s EXCEPT !.blocked = TRUE]
           ELSE IF kind = "half" THEN [s EXCEPT !.awaiting = TRUE]
           ELSE [s EXCEPT !.init = TRUE, !.awaiting = FALSE]]
      /\ IF changed THEN FailMine ELSE UNCHANGED cap
      /\ UNCHANGED <<page, bridge, note, orders, native, disk, taken, used>>

\* A box that is not supported, another codec or timeline, a buffer error, a removed track.
Block(t) ==
  /\ ~src.closed /\ ~src.track[t].blocked
  /\ src' = [src EXCEPT !.track[t].blocked = TRUE] /\ FailMine
  /\ UNCHANGED <<page, bridge, note, orders, native, disk, taken, used>>

SourceCloses ==
  /\ ~src.closed /\ src' = [src EXCEPT !.closed = TRUE] /\ FailMine
  /\ UNCHANGED <<page, bridge, note, orders, native, disk, taken, used>>

\* The player attaches another media source.
SourceOpens ==
  /\ src.closed /\ src.number < MaxSources /\ src' = FreshSource(src.number + 1)
  /\ UNCHANGED <<cap, page, bridge, note, orders, native, disk, taken, used>>

\* The video ends or is encrypted, or the periodic look finds another channel or observer.
SafetyCheck ==
  /\ Recording /\ ~cap.stopping /\ cap' = Failure(cap)
  /\ UNCHANGED <<src, page, bridge, note, orders, native, disk, taken, used>>

----
(* Commands to the page. *)

\* The observer's start(): the capture accepts before the native side has answered.
StartEncoded(r) ==
  IF Candidate
  THEN /\ cap' = [request |-> r, of |-> src.number, begun |-> FALSE, accepting |-> TRUE, stopping |-> FALSE,
                  interrupted |-> FALSE, failed |-> FALSE, drained |-> FALSE, index |-> EachTrack(0),
                  queue |-> <<>>, chunk |-> 0, try |-> 1, sent |-> FALSE, reply |-> "none"]
       /\ page' = [page EXCEPT !.request = r, !.preparing = 0, !.detail = "starting"]
       /\ src' = [src EXCEPT !.track = [t \in Tracks |-> [src.track[t] EXCEPT !.forwarding = FALSE]]]
  ELSE /\ page' = [page EXCEPT !.request = r, !.preparing = 0, !.detail = "original_unavailable"]
       /\ UNCHANGED <<cap, src>>

Busy == Recording \/ page.preparing # 0

\* A start command: nothing while busy, else the quality is prepared first where the page can.
StartArrives ==
  /\ orders # <<>> /\ Head(orders) # 0 /\ orders' = Tail(orders)
  /\ \/ Busy /\ UNCHANGED <<src, cap, page>>
     \/ ~Busy /\ StartEncoded(Head(orders))
     \/ ~Busy /\ page' = [request |-> Head(orders), preparing |-> Head(orders), detail |-> "starting"]
              /\ UNCHANGED <<src, cap>>
  /\ UNCHANGED <<bridge, note, native, disk, taken, used>>

PrepareEnds(ready) ==
  /\ page.preparing # 0
  /\ IF ready THEN StartEncoded(page.preparing)
     ELSE page' = [page EXCEPT !.preparing = 0, !.detail = "unavailable"] /\ UNCHANGED <<src, cap>>
  /\ UNCHANGED <<bridge, note, orders, native, disk, taken, used>>

\* A stop command: the preparation is dropped, or the capture finishes what it has taken.
StopArrives ==
  /\ orders # <<>> /\ Head(orders) = 0 /\ orders' = Tail(orders)
  /\ IF page.preparing # 0
     THEN page' = [page EXCEPT !.preparing = 0, !.detail = "ready"] /\ UNCHANGED cap
     ELSE /\ cap' = IF Recording THEN [cap EXCEPT !.accepting = FALSE, !.stopping = TRUE] ELSE cap
          /\ UNCHANGED page
  /\ UNCHANGED <<src, bridge, note, native, disk, taken, used>>

----
(* Requests of the page and their answers. *)

\* What the capture has to ask next: begin, then the queue in order, then the finish.
Due(c) ==
  IF ~c.begun THEN "begin"
  ELSE IF c.queue # <<>> THEN "append"
  ELSE IF c.drained THEN "finish" ELSE "nothing"

\* beforeFinish: the chat is drained, within two seconds.
DrainEnds ==
  /\ Recording /\ cap.begun /\ cap.stopping /\ cap.queue = <<>> /\ ~cap.drained
  /\ cap' = [cap EXCEPT !.drained = TRUE]
  /\ UNCHANGED <<src, page, bridge, note, orders, native, disk, taken, used>>

Message(c, generation, live) ==
  LET head == IF c.begun /\ c.queue # <<>> THEN c.queue[1]
              ELSE [track |-> 0, index |-> 0, pieces |-> <<>>]
  IN  [kind |-> Due(c), recording |-> c.request, track |-> head.track, index |-> head.index,
       chunk |-> c.chunk, last |-> c.chunk + 1 = Len(head.pieces),
       piece |-> IF head.pieces = <<>> THEN 0 ELSE head.pieces[c.chunk + 1],
       interrupted |-> c.interrupted \/ c.failed, generation |-> generation, live |-> live]

Post ==
  /\ Recording /\ ~cap.sent /\ cap.reply = "none" /\ Due(cap) # "nothing" /\ Len(bridge) < Room
  /\ bridge' = Append(bridge, Message(cap, native.generation, TRUE))
  /\ cap' = [cap EXCEPT !.sent = TRUE]
  /\ UNCHANGED <<src, page, note, orders, native, disk, taken, used>>

Fault == used.faults < MaxFaults /\ used' = [used EXCEPT !.faults = @ + 1]

\* BRIDGE_BUSY: the queue is full, or the native state is locked.
PostBusy ==
  /\ Recording /\ ~cap.sent /\ cap.reply = "none" /\ Due(cap) # "nothing"
  /\ IF Len(bridge) < Room THEN Fault ELSE UNCHANGED used
  /\ cap' = [cap EXCEPT !.reply = "retry"]
  /\ UNCHANGED <<src, page, bridge, note, orders, native, disk, taken>>

\* BRIDGE_POST_FAILED.
PostFails ==
  /\ Recording /\ ~cap.sent /\ cap.reply = "none" /\ Due(cap) # "nothing" /\ Fault
  /\ cap' = [cap EXCEPT !.reply = "error"]
  /\ UNCHANGED <<src, page, bridge, note, orders, native, disk, taken>>

\* BROWSER_ACK_TIMEOUT: nobody waits for the request any more; it may still be served.
AckTimeout ==
  /\ Recording /\ cap.sent /\ Fault
  /\ cap' = [cap EXCEPT !.sent = FALSE, !.reply = "retry"]
  /\ bridge' = [i \in DOMAIN bridge |-> [bridge[i] EXCEPT !.live = FALSE]]
  /\ UNCHANGED <<src, page, note, orders, native, disk, taken>>

\* The capture is over and the page says how it ended.
Ended(detail) ==
  /\ cap' = None /\ src' = CleanUp(src, cap) /\ page' = [page EXCEPT !.detail = detail]

BeginAnswered ==
  /\ Recording /\ cap.reply # "none" /\ ~cap.begun
  /\ \/ /\ cap.reply = "ok"
        /\ cap' = [cap EXCEPT !.begun = TRUE, !.sent = FALSE, !.reply = "none"]
        /\ page' = [page EXCEPT !.detail = "recording"] /\ UNCHANGED src
     \/ /\ cap.reply \in {"error", "retry"} /\ Ended("native_rejected")
     \/ /\ cap.reply = "unsupported" /\ cap' = None
        /\ page' = [page EXCEPT !.detail = "original_unavailable"]
        /\ src' = [CleanUp(src, cap) EXCEPT !.closed = @ \/ cap.of = src.number]
  /\ UNCHANGED <<bridge, note, orders, native, disk, taken, used>>

\* appendWithRetry(): the next chunk only after an answer, the same chunk again after a lost one.
AppendAnswered ==
  /\ Recording /\ cap.reply # "none" /\ Due(cap) = "append"
  /\ LET rest == [cap EXCEPT !.sent = FALSE, !.reply = "none", !.try = 1]
     IN  cap' = IF cap.reply = "ok"
                THEN IF cap.chunk + 1 < Len(cap.queue[1].pieces) THEN [rest EXCEPT !.chunk = @ + 1]
                     ELSE [rest EXCEPT !.chunk = 0, !.queue = Tail(@)]
                ELSE IF cap.reply = "retry" /\ cap.try < MaxTries THEN [rest EXCEPT !.try = cap.try + 1]
                ELSE [Failure(rest) EXCEPT !.failed = TRUE, !.queue = <<>>, !.chunk = 0]
  /\ UNCHANGED <<src, page, bridge, note, orders, native, disk, taken, used>>

\* The page shows an interrupted end as native_rejected too.
FinishAnswered ==
  /\ Recording /\ cap.reply # "none" /\ Due(cap) = "finish"
  /\ Ended(IF cap.reply = "saved" /\ ~cap.interrupted THEN "saved" ELSE "native_rejected")
  /\ UNCHANGED <<bridge, note, orders, native, disk, taken, used>>

----
(* The native end. *)

\* interrupt_matching(): the recording ends as interrupted and the arm is gone.
Interrupt(n) == [n EXCEPT !.arm = 0, !.rec = 0, !.ready = @ /\ n.rec = 0, !.session = NoSession]
Interrupted(d, r) == IF r = 0 THEN d ELSE [d EXCEPT ![r].state = "interrupted"]

Answer(m, outcome) ==
  /\ bridge' = Tail(bridge)
  /\ cap' = IF m.live THEN [cap EXCEPT !.reply = outcome] ELSE cap

\* The bridge worker: an error about the recording that is going on interrupts it.
Refuse(m) ==
  /\ Answer(m, "error")
  /\ IF m.kind # "begin" /\ m.recording = native.rec
     THEN native' = Interrupt(native) /\ disk' = Interrupted(disk, native.rec)
     ELSE UNCHANGED <<native, disk>>

ServeStale ==
  /\ bridge # <<>> /\ bridge[1].generation # native.generation /\ Refuse(bridge[1])
  /\ UNCHANGED <<src, page, note, orders, taken, used>>

\* A media request the native side refuses: a disk error, an arm that expired, a reservation.
\* A begin that fails at the disk has used its arm.
ServeFails ==
  LET m == bridge[1] IN
  /\ bridge # <<>> /\ m.generation = native.generation /\ Fault
  /\ \/ Refuse(m)
     \/ /\ m.kind = "begin" /\ native.rec = 0 /\ native.arm = m.recording /\ Answer(m, "error")
        /\ native' = [native EXCEPT !.arm = 0] /\ UNCHANGED disk
  /\ UNCHANGED <<src, page, note, orders, taken>>

ServeBegin ==
  LET m == bridge[1] IN
  /\ bridge # <<>> /\ m.kind = "begin" /\ m.generation = native.generation
  /\ IF native.rec = 0 /\ native.arm = m.recording /\ native.armed = native.generation
     THEN \/ /\ native' = [native EXCEPT !.arm = 0, !.rec = m.recording, !.accepted = m.recording]
             /\ disk' = [disk EXCEPT ![m.recording].state = "open"] /\ Answer(m, "ok")
          \/ Answer(m, "unsupported") /\ UNCHANGED <<native, disk>>
     ELSE Refuse(m)
  /\ UNCHANGED <<src, page, note, orders, taken, used>>

\* accept(): the receipt of the previous chunk answers its repetition; every other
\* chunk has to be the next one of the append that is next on its track.
Accept(m) ==
  LET s == native.session
      receipt == <<m.track, m.index, m.chunk>>
      parts == [i \in 1..Len(s.partial) |-> s.partial[i].piece]
      expected == /\ s.next[m.track] = m.index /\ m.chunk = Len(s.partial)
                  /\ s.partial # <<>> => s.partial[1].track = m.track
      stored == [s EXCEPT !.previous = receipt,
                          !.partial = IF m.last THEN <<>> ELSE Append(@, [track |-> m.track, piece |-> m.piece]),
                          !.next[m.track] = IF m.last THEN @ + 1 ELSE @]
  IN  \/ s.previous = receipt /\ Answer(m, "ok") /\ UNCHANGED <<native, disk>>
      \/ /\ s.previous # receipt /\ expected
         /\ native' = [native EXCEPT !.session = stored]
         /\ disk' = IF m.last THEN [disk EXCEPT ![m.recording].track[m.track] = @ \o Append(parts, m.piece)] ELSE disk
         /\ Answer(m, "ok")
      \/ s.previous # receipt /\ ~expected /\ Refuse(m)

ServeAppend ==
  LET m == bridge[1] IN
  /\ bridge # <<>> /\ m.kind = "append" /\ m.generation = native.generation
  /\ IF native.rec = m.recording THEN Accept(m) ELSE Refuse(m)
  /\ UNCHANGED <<src, page, note, orders, taken, used>>

\* The muxer closes only whole fragments of every track.
Muxable(d) == \A t \in Tracks : d.track[t] # <<>> /\ ~Odd(d.track[t][Len(d.track[t])])

ServeFinish ==
  LET m == bridge[1] IN
  /\ bridge # <<>> /\ m.kind = "finish" /\ m.generation = native.generation
  /\ IF native.rec = m.recording /\ native.session.partial = <<>> /\ Muxable(disk[native.rec])
     THEN /\ disk' = [disk EXCEPT ![native.rec].state = IF m.interrupted THEN "interrupted" ELSE "saved"]
          /\ native' = [native EXCEPT !.rec = 0, !.ready = FALSE, !.session = NoSession]
          /\ Answer(m, IF m.interrupted THEN "interrupted" ELSE "saved")
     ELSE Refuse(m)
  /\ UNCHANGED <<src, page, note, orders, taken, used>>

\* The app starts a recording: one arm at a time, for a page that said it was ready.
NativeStart ==
  /\ native.rec = 0 /\ native.arm = 0 /\ native.ready /\ ~native.recording
  /\ used.starts < MaxStarts /\ Len(orders) < MaxOrders
  /\ LET r == used.starts + 1
     IN  /\ used' = [used EXCEPT !.starts = r] /\ orders' = Append(orders, r)
         /\ native' = [native EXCEPT !.arm = r, !.armed = native.generation]
  /\ UNCHANGED <<src, cap, page, bridge, note, disk, taken>>

NativeStop ==
  /\ native.rec # 0 \/ native.arm # 0
  /\ Len(orders) < MaxOrders /\ orders' = Append(orders, 0)
  /\ native' = [native EXCEPT !.arm = 0]
  /\ UNCHANGED <<src, cap, page, bridge, note, disk, taken, used>>

----
(* The status post, and a reload of the page. *)

Shown == IF page.detail = "ready" /\ ~Candidate THEN "unavailable" ELSE page.detail

\* status(), every second and after every change; the lane holds one and drops the others.
PostStatus ==
  /\ note = None
  /\ note' = [request |-> page.request, recording |-> Busy, ready |-> Candidate,
              detail |-> IF Busy THEN "busy" ELSE Shown, generation |-> native.generation]
  /\ UNCHANGED <<src, cap, page, bridge, orders, native, disk, taken, used>>

\* Details that end an orphaned recording, and those that take back an arm.
EndsRecording == {"native_rejected"}
EndsArm == {"native_rejected", "unavailable", "original_unavailable"}

\* A status about another start than the one going on is not heard.
IsHeard(m) ==
  \/ native.rec = 0 /\ native.arm = 0
  \/ m.request = (IF native.arm # 0 THEN native.arm ELSE native.accepted)

ServeStatus ==
  /\ note # None /\ note' = None
  /\ IF note.generation = native.generation /\ IsHeard(note)
     THEN LET ends == note.detail \in EndsRecording /\ native.rec # 0
              n == IF ends THEN Interrupt(native) ELSE native
          IN  /\ native' = [n EXCEPT !.ready = note.ready, !.recording = note.recording,
                                     !.arm = IF note.detail \in EndsArm THEN 0 ELSE @]
              /\ disk' = IF ends THEN Interrupted(disk, native.rec) ELSE disk
     ELSE UNCHANGED <<native, disk>>
  /\ UNCHANGED <<src, cap, page, bridge, orders, taken, used>>

\* pagehide, and the next document: the old one posts its finish if nothing else was to be
\* sent, and the message may be received before or after the new generation begins.
Reload ==
  LET over == [i \in DOMAIN bridge |-> [bridge[i] EXCEPT !.live = FALSE]]
      last == [Failure(cap) EXCEPT !.drained = TRUE]
      next == native.generation + 1
  IN  /\ used.reloads < MaxReloads /\ used' = [used EXCEPT !.reloads = @ + 1]
      /\ src' = FreshSource(1) /\ cap' = None /\ page' = FreshPage
      /\ \/ bridge' = over
         \/ /\ Recording /\ Len(bridge) < Room /\ cap.begun /\ cap.queue = <<>> /\ ~cap.sent
            /\ \E g \in {native.generation, next} : bridge' = Append(over, Message(last, g, FALSE))
      /\ native' = [native EXCEPT !.generation = next, !.ready = FALSE, !.hiding = TRUE]
      /\ orders' \in {orders, <<>>}
      /\ UNCHANGED <<note, disk, taken>>

\* The thread that the load of a page starts: interrupt("page_hidden").
PageHidden ==
  /\ native.hiding /\ native' = [Interrupt(native) EXCEPT !.hiding = FALSE]
  /\ disk' = Interrupted(disk, native.rec)
  /\ UNCHANGED <<src, cap, page, bridge, note, orders, taken, used>>

Feed == \E t \in Tracks : ObserveInit(t, "same") \/ \E n \in 1..2 : ObserveMedia(t, n)

Disturb ==
  \/ \E t \in Tracks : Block(t) \/ \E k \in {"half", "other"} : ObserveInit(t, k)
  \/ SourceCloses \/ SourceOpens \/ SafetyCheck \/ Reload

Page ==
  \/ StartArrives \/ (\E ready \in BOOLEAN : PrepareEnds(ready)) \/ StopArrives \/ DrainEnds
  \/ Post \/ PostBusy \/ PostFails \/ AckTimeout
  \/ BeginAnswered \/ AppendAnswered \/ FinishAnswered \/ PostStatus

Host ==
  \/ ServeStale \/ ServeFails \/ ServeBegin \/ ServeAppend \/ ServeFinish \/ ServeStatus
  \/ NativeStart \/ NativeStop \/ PageHidden

Next == Feed \/ Disturb \/ Page \/ Host

Spec == Init /\ [][Next]_vars

----
\* A gapless stretch of the track that begins with the head of a fragment.
Whole(s) == s # <<>> => Odd(s[1]) /\ \A i \in 1..Len(s) : s[i] = s[1] + i - 1

IsPrefixOf(a, b) == Len(a) <= Len(b) /\ \A i \in 1..Len(a) : a[i] = b[i]

\* Lost answers, repeated chunks, busy queues and stops at any moment neither repeat nor
\* skip a piece: a recording holds the beginning of what its capture took, and one that is
\* saved holds all of it.
StoredInOrder ==
  \A r \in Starts : \A t \in Tracks :
    /\ Whole(taken[r][t])
    /\ IsPrefixOf(disk[r].track[t], taken[r][t])
    /\ disk[r].state = "saved" => disk[r].track[t] = taken[r][t]

\* The page says "saved" only of a recording the native side has saved.
SavedIsTrue == ~Busy /\ page.detail = "saved" => disk[page.request].state = "saved"

\* A recording nobody feeds any more is ended by the next status of the page.
OrphanEnds ==
  native.rec # 0 /\ ~Recording /\ bridge = <<>> =>
    \/ native.hiding
    \/ page.request = native.accepted /\ ~Busy /\ page.detail \in EndsRecording
====
