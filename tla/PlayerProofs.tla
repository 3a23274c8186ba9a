---- MODULE PlayerProofs ----
(***************************************************************************)
(* Proofs about the window's parts around the official player, each on its *)
(* own: the panel with its library of recordings (StreamPanel), the page   *)
(* that watches several broadcasts, with the places of their panes (Mado), *)
(* the place of the official player in the window (StreamStage), and the   *)
(* window in which a recording is watched again (RecordingReplay) with the *)
(* chat beside it (ReplayChat).  A variable that several have is declared  *)
(* once: no theorem is about more than one of them.                        *)
(***************************************************************************)
EXTENDS Integers, Sequences, FiniteSets, FiniteSetTheorems, TLAPS

CONSTANTS None, Recordings, MaxVisits, MaxActions, Channels, MaxSteps, MaxEpoch, MaxSends,
          MaxRequests, MaxFailures, Offsets, MaxSessions, MaxTokens, MaxParts, MaxSaves

VARIABLES host, panel, shown, life, version, polls, calls, library, made, removed,
          native, refused, adopted, page, draft, applied, poll, pane, flights, surface,
          sends, steps, screen, known, frame, desk, generation, failures,
          dialog, opens, saves, reads, closes, saved, mixed

P == INSTANCE StreamPanel
M == INSTANCE Mado
S == INSTANCE StreamStage
R == INSTANCE RecordingReplay

----
(* The panel.  A list that comes back can only be an answer, so the
   invariant says of every answer under way what it may still do: a poll
   that counts was asked after the last action, and at most one call of
   this visit is out. *)

Snapshots == [open : BOOLEAN, status : {"ready", "starting", "recording", "stopping"}, recording : Nat \cup {None}, saved : SUBSET Nat,
              merging : SUBSET Nat, control : {1, None}]
ActionKinds == {"open", "start", "stop", "merge", "control", "delete"}
Args == Nat \cup Recordings \cup {None} \cup SUBSET Nat

PollTypes == [life : Nat, version : Nat, snap : Snapshots \cup {None}]
CallTypes == [kind : ActionKinds, life : Nat, arg : Args, snap : Snapshots \cup {None},
              removed : SUBSET Nat]

PanelTypes ==
  /\ host \in Snapshots /\ shown \in Snapshots
  /\ panel \in [active : BOOLEAN, pending : ActionKinds \cup {None}, has : BOOLEAN,
                error : BOOLEAN, dismissed : Args, settings : BOOLEAN]
  /\ library \in [selecting : BOOLEAN, checked : SUBSET Nat, confirm : SUBSET Nat,
                  deleting : BOOLEAN]
  /\ life \in Nat /\ version \in Nat /\ made \in Nat /\ removed \in SUBSET Nat
  /\ polls \in SUBSET PollTypes /\ calls \in SUBSET CallTypes

(* The host has not got what the visit was told is gone. *)
Told ==
  /\ removed \subseteq 1 .. made /\ host.saved \subseteq 1 .. made
  /\ removed \cap host.saved = {}
  /\ host.recording # None =>
       host.recording \in 1 .. made /\ host.recording \notin removed \cup host.saved

(* A poll that will be taken was asked after the last action. *)
Overtaken ==
  \A p \in polls :
    /\ p.life <= life /\ p.version <= version
    /\ p.life = life /\ p.version = version =>
         panel.pending = None /\ (p.snap # None => p.snap.saved \cap removed = {})

(* One call of this visit at most, and what a call removed is gone for good. *)
OneCall ==
  \A c \in calls :
    /\ c.life <= life /\ c.removed \subseteq 1 .. made
    /\ c.life = life =>
         /\ panel.pending # None
         /\ \A d \in calls : d.life = life => d = c
         /\ c.snap # None => c.snap.saved \cap removed = {}
    /\ c.removed \cap host.saved = {}
    /\ host.recording # None => host.recording \notin c.removed

PanelInv == PanelTypes /\ Told /\ Overtaken /\ OneCall /\ P!NothingResurrects

(* What the host may do to its recordings: end one, begin a new one, delete. *)
HostMoves ==
  /\ host' \in Snapshots /\ made' \in Nat /\ made' >= made
  /\ \A r \in host'.saved :
       r \in host.saved \/ (r = host.recording /\ r # None /\ host'.recording = None)
  /\ host'.recording # None => \/ host'.recording = host.recording
                               \/ host'.recording = made + 1 /\ made' = made + 1

(* Every command that the host serves is such a move. *)
LEMMA OutcomeMoves ==
  ASSUME PanelTypes, Told, NEW c \in CallTypes, host' = P!Outcome(c), made' = made
  PROVE  HostMoves
<1>0. host \in Snapshots /\ made \in Nat /\ c.kind \in ActionKinds  BY DEF PanelTypes, CallTypes
<1>1. CASE c.kind = "open"
  <2>1. host' = [host EXCEPT !.open = TRUE]  BY <1>1 DEF P!Outcome, P!Opened
  <2>2. host' \in Snapshots /\ host'.saved = host.saved /\ host'.recording = host.recording
    BY <1>0, <2>1 DEF Snapshots
  <2> QED BY <1>0, <2>2 DEF HostMoves, Told
<1>2. CASE c.kind = "start"
  <2>1. host' = host \/ host' = [host EXCEPT !.status = "starting"]  BY <1>2 DEF P!Outcome, P!Started
  <2>2. host' \in Snapshots /\ host'.saved = host.saved /\ host'.recording = host.recording
    BY <1>0, <2>1 DEF Snapshots
  <2> QED BY <1>0, <2>2 DEF HostMoves, Told
<1>3. CASE c.kind = "stop"
  <2>1. PICK s \in {"ready", "stopping"} : host' = [host EXCEPT !.status = s]  BY <1>3 DEF P!Outcome, P!Stopped
  <2>2. host' \in Snapshots /\ host'.saved = host.saved /\ host'.recording = host.recording
    BY <1>0, <2>1 DEF Snapshots
  <2> QED BY <1>0, <2>2 DEF HostMoves, Told
<1>4. CASE c.kind = "control"
  <2>1. host' = [host EXCEPT !.control = IF host.control = c.arg THEN None ELSE @]  BY <1>4 DEF P!Outcome, P!Confirmed
  <2>2. host' \in Snapshots /\ host'.saved = host.saved /\ host'.recording = host.recording
    BY <1>0, <2>1 DEF Snapshots
  <2> QED BY <1>0, <2>2 DEF HostMoves, Told
<1>5. CASE c.kind = "merge"
  <2>1. host' = [host EXCEPT !.merging = @ \cup ({c.arg} \cap host.saved)]  BY <1>5 DEF P!Outcome
  <2>2. host' \in Snapshots /\ host'.saved = host.saved /\ host'.recording = host.recording
    BY <1>0, <2>1 DEF Snapshots
  <2> QED BY <1>0, <2>2 DEF HostMoves, Told
<1>6. CASE c.kind = "delete"
  <2> DEFINE ids == c.arg \ host.merging
  <2>1. host' = [host EXCEPT !.saved = @ \ ids]  BY <1>6 DEF P!Outcome, P!Without
  <2> HIDE DEF ids
  <2>2. host' \in Snapshots /\ host'.saved = host.saved \ ids /\ host'.recording = host.recording
    BY <1>0, <2>1 DEF Snapshots
  <2> QED BY <1>0, <2>2 DEF HostMoves, Told
<1> QED BY <1>0, <1>1, <1>2, <1>3, <1>4, <1>5, <1>6 DEF ActionKinds

(* What the host does by itself is such a move too. *)
LEMMA ChangesMove ==
  ASSUME PanelTypes, Told, P!HostChanges
  PROVE  HostMoves
<1>0. host \in Snapshots /\ made \in Nat /\ made' = made  BY DEF PanelTypes, P!HostChanges
<1>1. CASE host' \in {P!Ended, [P!Ended EXCEPT !.open = FALSE, !.control = None]}
  <2>1. PICK e : e = P!Ended  OBVIOUS
  <2>2. e \in Snapshots /\ e.recording = None
        /\ \A r \in e.saved : r \in host.saved \/ (r = host.recording /\ r # None)
    <3>1. CASE host.recording = None
      <4>1. e = [host EXCEPT !.status = "ready"]  BY <2>1, <3>1 DEF P!Ended
      <4> QED BY <1>0, <3>1, <4>1 DEF Snapshots
    <3>2. CASE host.recording # None
      <4>1. e = [host EXCEPT !.recording = None, !.status = "ready", !.saved = @ \cup {host.recording},
                             !.merging = @ \cup {host.recording}]  BY <2>1, <3>2 DEF P!Ended
      <4> QED BY <1>0, <3>2, <4>1 DEF Snapshots
    <3> QED BY <3>1, <3>2
  <2>3. host' = e \/ host' = [e EXCEPT !.open = FALSE, !.control = None]  BY <1>1, <2>1
  <2>4. host' \in Snapshots /\ host'.recording = None /\ host'.saved = e.saved  BY <2>2, <2>3 DEF Snapshots
  <2> QED BY <1>0, <2>2, <2>4 DEF HostMoves
<1>2. CASE ~(host' \in {P!Ended, [P!Ended EXCEPT !.open = FALSE, !.control = None]})
  <2>1. \/ host' = [host EXCEPT !.merging = {}]
        \/ host' = [host EXCEPT !.control = 1] \/ host' = [host EXCEPT !.control = None]
    BY <1>2 DEF P!HostChanges
  <2>2. host' \in Snapshots /\ host'.saved = host.saved /\ host'.recording = host.recording
    BY <1>0, <2>1 DEF Snapshots
  <2> QED BY <1>0, <2>2 DEF HostMoves
<1> QED BY <1>1, <1>2

(* The page begins the recording that was armed. *)
LEMMA BeginningMoves ==
  ASSUME PanelTypes, Told, P!RecordingBegins
  PROVE  HostMoves
<1>0. host \in Snapshots /\ made \in Nat /\ made' = made + 1  BY DEF PanelTypes, P!RecordingBegins
<1>1. PICK n \in Nat : n = made + 1  BY <1>0
<1>2. PICK h : h = [host EXCEPT !.recording = n]  OBVIOUS
<1>3. h \in Snapshots /\ h.saved = host.saved /\ h.recording = n  BY <1>0, <1>2 DEF Snapshots
<1>4. host' = [h EXCEPT !.status = "recording"]  BY <1>0, <1>1, <1>2 DEF P!RecordingBegins, Snapshots
<1>5. host' \in Snapshots /\ host'.saved = h.saved /\ host'.recording = n  BY <1>3, <1>4 DEF Snapshots
<1> QED BY <1>0, <1>1, <1>3, <1>5 DEF HostMoves

(* No move of the host brings back what is gone. *)
LEMMA GoneStaysGone ==
  ASSUME PanelTypes, Told, HostMoves, NEW gone \in SUBSET (1 .. made),
         gone \cap host.saved = {}, host.recording # None => host.recording \notin gone
  PROVE  /\ gone \subseteq 1 .. made'
         /\ gone \cap host'.saved = {}
         /\ host'.recording # None => host'.recording \notin gone
<1>1. made \in Nat /\ made' \in Nat /\ made' >= made /\ host.saved \in SUBSET Nat
  BY DEF PanelTypes, Snapshots, HostMoves
<1>2. gone \subseteq 1 .. made'  BY <1>1
<1>3. gone \cap host'.saved = {}  BY <1>1 DEF HostMoves
<1>4. made + 1 \notin gone  BY <1>1
<1>5. host'.recording # None => host'.recording \notin gone  BY <1>4 DEF HostMoves
<1> QED BY <1>2, <1>3, <1>5

(* And what the host says of itself stays true. *)
LEMMA ToldMoves ==
  ASSUME PanelTypes, Told, HostMoves, UNCHANGED removed
  PROVE  Told'
<1>1. made \in Nat /\ made' \in Nat /\ made' >= made /\ host.saved \subseteq 1 .. made
  BY DEF PanelTypes, Told, HostMoves
<1>2. /\ removed \subseteq 1 .. made' /\ removed \cap host'.saved = {}
      /\ host'.recording # None => host'.recording \notin removed  BY GoneStaysGone DEF Told
<1>3. host'.saved \subseteq 1 .. made'  BY <1>1 DEF HostMoves, Told
<1>4. host'.recording # None =>
        host'.recording \in 1 .. made' /\ host'.recording \notin host'.saved  BY <1>1 DEF HostMoves, Told
<1> QED BY <1>2, <1>3, <1>4 DEF Told

(* Steps of the library keep what the answers are about. *)
LEMMA LibrarySteps ==
  ASSUME PanelInv,
         \/ P!ToggleSelecting \/ P!AskDelete \/ P!CancelDelete
         \/ \E r \in Recordings : P!Toggle(r)
  PROVE  PanelInv'
<1>1. UNCHANGED <<host, panel, shown, life, version, polls, calls, made, removed>>
  BY DEF P!ToggleSelecting, P!AskDelete, P!CancelDelete, P!Toggle
<1>2. library' \in [selecting : BOOLEAN, checked : SUBSET Nat, confirm : SUBSET Nat,
                    deleting : BOOLEAN]
  <2>0. library \in [selecting : BOOLEAN, checked : SUBSET Nat, confirm : SUBSET Nat,
                     deleting : BOOLEAN]  BY DEF PanelInv, PanelTypes
  <2>1. CASE P!ToggleSelecting  BY <2>0, <2>1 DEF P!ToggleSelecting, P!NoLibrary
  <2>2. CASE P!AskDelete \/ P!CancelDelete  BY <2>0, <2>2 DEF P!AskDelete, P!CancelDelete
  <2>3. ASSUME NEW r \in Recordings, P!Toggle(r)
        PROVE  library' \in [selecting : BOOLEAN, checked : SUBSET Nat, confirm : SUBSET Nat,
                             deleting : BOOLEAN]
    <3>1. r \in Nat  BY <2>3 DEF P!Toggle, P!canDelete, PanelInv, PanelTypes, Snapshots
    <3> QED BY <2>0, <2>3, <3>1 DEF P!Toggle
  <2> QED BY <2>1, <2>2, <2>3
<1>3. PanelTypes'  BY <1>1, <1>2 DEF PanelInv, PanelTypes
<1>4. Told' /\ Overtaken' /\ OneCall' /\ P!NothingResurrects'
  BY <1>1 DEF PanelInv, Told, Overtaken, OneCall, P!NothingResurrects
<1> QED BY <1>3, <1>4 DEF PanelInv

(* A visit begins with nothing: the answers of the last one do not count. *)
LEMMA VisitStep ==
  ASSUME PanelInv, P!SetActive, None \notin ActionKinds
  PROVE  PanelInv'
<1>0. PanelTypes /\ Told /\ Overtaken /\ OneCall  BY DEF PanelInv
<1>1. /\ UNCHANGED <<host, version, polls, calls, made>>
      /\ life' = life + 1 /\ removed' = {} /\ shown' = P!emptySnapshot /\ library' = P!NoLibrary
  BY DEF P!SetActive
<1>2. panel' \in [active : BOOLEAN, pending : ActionKinds \cup {None}, has : BOOLEAN,
                  error : BOOLEAN, dismissed : Args, settings : BOOLEAN]
  BY <1>0 DEF P!SetActive, P!NoPanel, PanelTypes
<1>3. /\ shown' \in Snapshots
      /\ library' \in [selecting : BOOLEAN, checked : SUBSET Nat, confirm : SUBSET Nat,
                       deleting : BOOLEAN]  BY <1>1 DEF P!emptySnapshot, P!NoLibrary, Snapshots
<1>4. PanelTypes'  BY <1>0, <1>1, <1>2, <1>3 DEF PanelTypes
<1>5. Told'  BY <1>0, <1>1 DEF Told
<1>6. Overtaken'  BY <1>0, <1>1 DEF Overtaken, PanelTypes, PollTypes
<1>7. OneCall'  BY <1>0, <1>1 DEF OneCall, PanelTypes, CallTypes
<1>8. P!NothingResurrects'  BY <1>1 DEF P!NothingResurrects
<1> QED BY <1>4, <1>5, <1>6, <1>7, <1>8 DEF PanelInv

(* Polls: asked when nothing is pending, answered only if nothing came between. *)
LEMMA PollSteps ==
  ASSUME PanelInv, P!Poll \/ \E p \in polls : P!PollServed(p) \/ P!PollAnswered(p)
  PROVE  PanelInv'
<1>0. PanelTypes /\ Told /\ Overtaken /\ OneCall /\ P!NothingResurrects  BY DEF PanelInv
<1>1. CASE P!Poll
  <2>1. /\ panel.pending = None
        /\ polls' = polls \cup {[life |-> life, version |-> version, snap |-> None]}
        /\ UNCHANGED <<host, panel, shown, life, version, calls, library, made, removed>>  BY <1>1 DEF P!Poll
  <2> DEFINE n == [life |-> life, version |-> version, snap |-> None]
  <2>2. n \in PollTypes /\ n.life = life /\ n.version = version /\ n.snap = None  BY <1>0 DEF PollTypes, PanelTypes
  <2> HIDE DEF n
  <2>3. polls' = polls \cup {n}  BY <2>1 DEF n
  <2>4. PanelTypes'  BY <1>0, <2>1, <2>2, <2>3 DEF PanelTypes
  <2>5. Overtaken'  BY <1>0, <2>1, <2>2, <2>3 DEF Overtaken, PanelTypes
  <2>6. Told' /\ OneCall' /\ P!NothingResurrects'  BY <1>0, <2>1 DEF Told, OneCall, P!NothingResurrects
  <2> QED BY <2>4, <2>5, <2>6 DEF PanelInv
<1>2. ASSUME NEW p \in polls, P!PollServed(p) PROVE PanelInv'
  <2>1. /\ polls' = (polls \ {p}) \cup {[p EXCEPT !.snap = host]}
        /\ UNCHANGED <<host, panel, shown, life, version, calls, library, made, removed>>
    BY <1>2 DEF P!PollServed
  <2> DEFINE n == [p EXCEPT !.snap = host]
  <2>2. p \in PollTypes  BY <1>0 DEF PanelTypes
  <2>3. n \in PollTypes /\ n.life = p.life /\ n.version = p.version /\ n.snap = host
    BY <1>0, <2>2 DEF PollTypes, PanelTypes
  <2> HIDE DEF n
  <2>4. polls' = (polls \ {p}) \cup {n}  BY <2>1 DEF n
  <2>5. PanelTypes'  BY <1>0, <2>1, <2>3, <2>4 DEF PanelTypes
  <2>6. Overtaken'
    <3>1. host.saved \cap removed = {}  BY <1>0 DEF Told
    <3> QED BY <1>0, <2>1, <2>3, <2>4, <3>1 DEF Overtaken
  <2>7. Told' /\ OneCall' /\ P!NothingResurrects'  BY <1>0, <2>1 DEF Told, OneCall, P!NothingResurrects
  <2> QED BY <2>5, <2>6, <2>7 DEF PanelInv
<1>3. ASSUME NEW p \in polls, P!PollAnswered(p) PROVE PanelInv'
  <2>1. polls' = polls \ {p} /\ UNCHANGED <<host, life, version, calls, made, removed>>  BY <1>3 DEF P!PollAnswered
  <2>2. p \in PollTypes /\ p.snap # None  BY <1>0, <1>3 DEF PanelTypes, P!PollAnswered
  <2>3. /\ panel' \in [active : BOOLEAN, pending : ActionKinds \cup {None}, has : BOOLEAN,
                       error : BOOLEAN, dismissed : Args, settings : BOOLEAN]
        /\ panel'.pending = panel.pending  BY <1>0, <1>3 DEF P!PollAnswered, PanelTypes
  <2>4. CASE UNCHANGED <<shown, library>>
    <3>1. PanelTypes'  BY <1>0, <2>1, <2>3, <2>4 DEF PanelTypes
    <3>2. Told' /\ Overtaken' /\ OneCall' /\ P!NothingResurrects'
      BY <1>0, <2>1, <2>3, <2>4 DEF Told, Overtaken, OneCall, P!NothingResurrects
    <3> QED BY <3>1, <3>2 DEF PanelInv
  <2>5. CASE ~UNCHANGED <<shown, library>>
    <3>1. /\ shown' = p.snap /\ library' = P!Pruned(p.snap)
          /\ p.life = life /\ p.version = version  BY <1>3, <2>5 DEF P!PollAnswered
    <3>2. shown' \in Snapshots /\ shown'.saved \cap removed = {}  BY <1>0, <2>2, <3>1 DEF Overtaken, PollTypes
    <3>3. library' \in [selecting : BOOLEAN, checked : SUBSET Nat, confirm : SUBSET Nat,
                        deleting : BOOLEAN]  BY <1>0, <3>1 DEF P!Pruned, PanelTypes
    <3>4. PanelTypes'  BY <1>0, <2>1, <2>3, <3>2, <3>3 DEF PanelTypes
    <3>5. Told' /\ Overtaken' /\ OneCall' /\ P!NothingResurrects'
      BY <1>0, <2>1, <2>3, <3>2 DEF Told, Overtaken, OneCall, P!NothingResurrects
    <3> QED BY <3>4, <3>5 DEF PanelInv
  <2> QED BY <2>4, <2>5
<1> QED BY <1>1, <1>2, <1>3

(* An action overtakes the polls before it, and is the only call of its visit. *)
LEMMA ActionStep ==
  ASSUME PanelInv, None \notin ActionKinds, NEW kind \in ActionKinds, NEW arg \in Args,
         P!RunAction(kind, arg), P!Kept,
         library' \in [selecting : BOOLEAN, checked : SUBSET Nat, confirm : SUBSET Nat,
                       deleting : BOOLEAN]
  PROVE  PanelInv'
<1> DEFINE n == [kind |-> kind, life |-> life, arg |-> arg, snap |-> None, removed |-> {}]
<1>0. PanelTypes /\ Told /\ Overtaken /\ OneCall /\ P!NothingResurrects  BY DEF PanelInv
<1>1. /\ panel.pending = None /\ version' = version + 1
      /\ UNCHANGED <<host, shown, life, polls, made, removed>>  BY DEF P!RunAction, P!Kept
<1>2. /\ panel' \in [active : BOOLEAN, pending : ActionKinds \cup {None}, has : BOOLEAN,
                     error : BOOLEAN, dismissed : Args, settings : BOOLEAN]
      /\ panel'.pending = kind  BY <1>0 DEF P!RunAction, PanelTypes
<1>3. calls' = calls \cup {n}  BY DEF P!RunAction
<1>4. n \in CallTypes /\ n.life = life /\ n.snap = None /\ n.removed = {}  BY <1>0 DEF CallTypes, PanelTypes
<1> HIDE DEF n
<1>5. PanelTypes'  BY <1>0, <1>1, <1>2, <1>3, <1>4 DEF PanelTypes
<1>6. Overtaken'  BY <1>0, <1>1 DEF Overtaken, PanelTypes, PollTypes
<1>7. \A c \in calls : c.life # life  BY <1>0, <1>1 DEF OneCall
<1>8. OneCall'  BY <1>0, <1>1, <1>2, <1>3, <1>4, <1>7 DEF OneCall, PanelTypes
<1>9. Told' /\ P!NothingResurrects'  BY <1>0, <1>1 DEF Told, P!NothingResurrects
<1> QED BY <1>5, <1>6, <1>8, <1>9 DEF PanelInv

(* The buttons of the panel and of the library are such actions. *)
LEMMA ButtonSteps ==
  ASSUME PanelInv, None \notin ActionKinds,
         \/ P!Open \/ P!Start \/ P!Stop \/ P!DeleteRecordings
         \/ \E r \in Recordings : P!RetryMerge(r)
         \/ \E approve \in BOOLEAN : P!ConfirmControl(approve)
  PROVE  PanelInv'
<1>0. PanelTypes  BY DEF PanelInv
<1>1. CASE P!DeleteRecordings
  <2>1. P!RunAction("delete", library.confirm) /\ P!Kept /\ library.confirm \in Args
    BY <1>0, <1>1 DEF P!DeleteRecordings, PanelTypes, Args
  <2>2. library' \in [selecting : BOOLEAN, checked : SUBSET Nat, confirm : SUBSET Nat,
                      deleting : BOOLEAN]  BY <1>0, <1>1 DEF P!DeleteRecordings, PanelTypes
  <2> QED BY <2>1, <2>2, ActionStep DEF ActionKinds
<1>2. CASE ~P!DeleteRecordings
  <2>1. PICK kind \in ActionKinds, arg \in Args :
          P!RunAction(kind, arg) /\ P!Kept /\ UNCHANGED library
    <3>1. CASE P!Open \/ P!Start \/ P!Stop  BY <3>1 DEF P!Open, P!Start, P!Stop, ActionKinds, Args
    <3>2. CASE \E r \in Recordings : P!RetryMerge(r)  BY <3>2 DEF P!RetryMerge, ActionKinds, Args
    <3>3. CASE \E approve \in BOOLEAN : P!ConfirmControl(approve)
      <4>1. shown.control \in Args  BY <1>0 DEF PanelTypes, Snapshots, Args
      <4> QED BY <3>3, <4>1 DEF P!ConfirmControl, ActionKinds
    <3> QED BY <1>2, <3>1, <3>2, <3>3
  <2>2. library' \in [selecting : BOOLEAN, checked : SUBSET Nat, confirm : SUBSET Nat,
                      deleting : BOOLEAN]  BY <1>0, <2>1 DEF PanelTypes
  <2> QED BY <2>1, <2>2, ActionStep
<1> QED BY <1>1, <1>2

(* The host serves a call, of this visit or of an earlier one. *)
LEMMA ServedStep ==
  ASSUME PanelInv, NEW c \in calls, P!CallServed(c)
  PROVE  PanelInv'
<1> DEFINE n == [c EXCEPT !.snap = host', !.removed = host.saved \ host'.saved]
<1>0. PanelTypes /\ Told /\ Overtaken /\ OneCall /\ P!NothingResurrects  BY DEF PanelInv
<1>1. c \in CallTypes  BY <1>0 DEF PanelTypes
<1>2. HostMoves  BY <1>0, <1>1, OutcomeMoves DEF P!CallServed
<1>3. UNCHANGED <<panel, shown, life, version, polls, library, made, removed>>  BY DEF P!CallServed
<1>4. calls' = (calls \ {c}) \cup {n}  BY DEF P!CallServed
<1>5. host' \in Snapshots /\ made' \in Nat /\ host.saved \in SUBSET Nat
  BY <1>0, <1>2 DEF HostMoves, PanelTypes, Snapshots
<1>6. /\ n \in CallTypes /\ n.life = c.life /\ n.snap = host'
      /\ n.removed = host.saved \ host'.saved  BY <1>1, <1>5 DEF CallTypes
<1> HIDE DEF n
<1>7. PanelTypes'  BY <1>0, <1>3, <1>4, <1>5, <1>6 DEF PanelTypes
<1>8. Told'  BY <1>0, <1>2, <1>3, ToldMoves
<1>9. Overtaken'  BY <1>0, <1>3 DEF Overtaken
<1>10. ASSUME NEW d \in calls
       PROVE  /\ d.removed \subseteq 1 .. made' /\ d.removed \cap host'.saved = {}
              /\ host'.recording # None => host'.recording \notin d.removed
  BY <1>0, <1>2, <1>10, GoneStaysGone DEF OneCall
<1>11. /\ n.removed \subseteq 1 .. made' /\ n.removed \cap host'.saved = {}
       /\ host'.recording # None => host'.recording \notin n.removed
  <2>1. made \in Nat /\ made' \in Nat /\ made' >= made  BY <1>0, <1>2 DEF PanelTypes, HostMoves
  <2>2. host.saved \subseteq 1 .. made /\ made + 1 \notin host.saved  BY <1>0, <2>1 DEF Told
  <2>3. n.removed \subseteq 1 .. made' /\ n.removed \cap host'.saved = {}  BY <1>6, <2>1, <2>2
  <2>4. host'.recording # None => host'.recording \notin host.saved  BY <1>0, <1>2, <2>2 DEF HostMoves, Told
  <2> QED BY <1>6, <2>3, <2>4
<1>12. n.life = life => n.snap.saved \cap removed = {}  BY <1>3, <1>6, <1>8 DEF Told
<1>13. OneCall'
  <2>1. ASSUME NEW d \in calls'
        PROVE  /\ d.life <= life' /\ d.removed \subseteq 1 .. made'
               /\ d.removed \cap host'.saved = {}
               /\ host'.recording # None => host'.recording \notin d.removed
               /\ d.life = life' => panel'.pending # None
    BY <1>0, <1>3, <1>4, <1>6, <1>10, <1>11, <2>1 DEF OneCall
  <2>2. ASSUME NEW d \in calls', d.life = life', NEW e \in calls', e.life = life' PROVE e = d
    BY <1>0, <1>3, <1>4, <1>6, <2>2 DEF OneCall
  <2>3. ASSUME NEW d \in calls', d.life = life', d.snap # None
        PROVE  d.snap.saved \cap removed' = {}  BY <1>0, <1>3, <1>4, <1>12, <2>3 DEF OneCall
  <2> QED BY <2>1, <2>2, <2>3 DEF OneCall
<1>14. P!NothingResurrects'  BY <1>0, <1>3 DEF P!NothingResurrects
<1> QED BY <1>7, <1>8, <1>9, <1>13, <1>14 DEF PanelInv

(* The panel takes an answer of this visit, and drops one of an earlier. *)
LEMMA AnsweredStep ==
  ASSUME PanelInv, NEW c \in calls, P!CallAnswered(c)
  PROVE  PanelInv'
<1> DEFINE Lib == [selecting : BOOLEAN, checked : SUBSET Nat, confirm : SUBSET Nat,
                   deleting : BOOLEAN]
           Pan == [active : BOOLEAN, pending : ActionKinds \cup {None}, has : BOOLEAN,
                   error : BOOLEAN, dismissed : Args, settings : BOOLEAN]
<1>0. PanelTypes /\ Told /\ Overtaken /\ OneCall /\ P!NothingResurrects  BY DEF PanelInv
<1>1. c \in CallTypes /\ c.snap # None  BY <1>0 DEF PanelTypes, P!CallAnswered
<1>2. calls' = calls \ {c} /\ UNCHANGED <<host, life, version, polls, made>>  BY DEF P!CallAnswered
<1>3. CASE c.life # life
  <2>1. UNCHANGED <<panel, shown, library, removed>>  BY <1>3 DEF P!CallAnswered
  <2>2. PanelTypes'  BY <1>0, <1>2, <2>1 DEF PanelTypes
  <2>3. Told' /\ Overtaken' /\ P!NothingResurrects'  BY <1>0, <1>2, <2>1 DEF Told, Overtaken, P!NothingResurrects
  <2>4. OneCall'  BY <1>0, <1>2, <2>1 DEF OneCall
  <2> QED BY <2>2, <2>3, <2>4 DEF PanelInv
<1>4. CASE c.life = life
  <2>0. panel \in Pan /\ library \in Lib /\ shown \in Snapshots  BY <1>0 DEF PanelTypes
  <2>1. \A p \in polls : ~(p.life = life /\ p.version = version)  BY <1>0, <1>4 DEF OneCall, Overtaken
  <2>2. \A d \in calls' : d \in calls /\ d.life # life  BY <1>0, <1>2, <1>4 DEF OneCall
  <2>3. /\ panel' \in Pan /\ library' \in Lib /\ shown' \in Snapshots
        /\ \/ removed' = removed \cup c.removed /\ shown'.saved = shown.saved \ c.removed
           \/ removed' = removed /\ shown' \in {shown, c.snap}
    <3>1. CASE /\ c.kind = "delete"
               /\ shown' = [shown EXCEPT !.saved = @ \ c.removed]
               /\ library' = [library EXCEPT !.checked = @ \ c.removed, !.confirm = {},
                                             !.deleting = FALSE]
               /\ panel' = [panel EXCEPT !.pending = None]
               /\ removed' = removed \cup c.removed  BY <2>0, <3>1 DEF Snapshots
    <3>2. CASE /\ c.kind # "delete"
               /\ shown' = c.snap /\ library' = P!Pruned(c.snap)
               /\ panel' = [panel EXCEPT !.pending = None, !.has = TRUE, !.error = FALSE,
                                         !.dismissed = IF c.kind = "control" THEN c.arg ELSE @]
               /\ UNCHANGED removed
      <4>1. c.snap \in Snapshots /\ c.arg \in Args  BY <1>1 DEF CallTypes
      <4>2. library' \in Lib  BY <2>0, <3>2 DEF P!Pruned
      <4>3. panel' \in Pan  BY <2>0, <3>2, <4>1
      <4> QED BY <3>2, <4>1, <4>2, <4>3
    <3>3. CASE /\ panel' = [panel EXCEPT !.pending = None]
               /\ library' = [library EXCEPT !.deleting = FALSE]
               /\ UNCHANGED <<shown, removed>>  BY <2>0, <3>3
    <3> QED BY <1>4, <3>1, <3>2, <3>3 DEF P!CallAnswered
  <2> HIDE DEF Lib, Pan
  <2>4. c.removed \in SUBSET Nat /\ removed \in SUBSET Nat  BY <1>0, <1>1 DEF PanelTypes, CallTypes
  <2>5. PanelTypes'  BY <1>0, <1>2, <2>3, <2>4 DEF PanelTypes, Lib, Pan
  <2>6. Told'  BY <1>0, <1>2, <2>3 DEF Told, OneCall
  <2>7. Overtaken'  BY <1>0, <1>2, <2>1 DEF Overtaken
  <2>8. OneCall'  BY <1>0, <1>2, <2>2 DEF OneCall
  <2>9. P!NothingResurrects'  BY <1>0, <1>1, <1>4, <2>3 DEF P!NothingResurrects, OneCall
  <2> QED BY <2>5, <2>6, <2>7, <2>8, <2>9 DEF PanelInv
<1> QED BY <1>3, <1>4

(* The panel starts with an empty list, over whatever the host has. *)
LEMMA PanelStarts == P!Init => PanelInv
<1> SUFFICES ASSUME P!Init PROVE PanelInv  OBVIOUS
<1>1. /\ made \in Nat /\ host = [P!emptySnapshot EXCEPT !.saved = 1 .. made]
      /\ shown = P!emptySnapshot /\ panel = P!NoPanel /\ library = P!NoLibrary
      /\ life = 0 /\ version = 0 /\ polls = {} /\ calls = {} /\ removed = {}  BY DEF P!Init
<1>2. /\ host \in Snapshots /\ shown \in Snapshots
      /\ host.saved = 1 .. made /\ host.recording = None /\ shown.saved = {}
  <2>1. P!emptySnapshot \in Snapshots /\ P!emptySnapshot.saved = {} /\ P!emptySnapshot.recording = None
    BY DEF P!emptySnapshot, Snapshots
  <2>2. 1 .. made \in SUBSET Nat  BY <1>1
  <2>3. host \in Snapshots /\ host.saved = 1 .. made /\ host.recording = None  BY <1>1, <2>1, <2>2 DEF Snapshots
  <2> QED BY <1>1, <2>1, <2>3
<1>3. PanelTypes  BY <1>1, <1>2 DEF PanelTypes, P!NoPanel, P!NoLibrary, Args
<1> QED BY <1>1, <1>2, <1>3 DEF PanelInv, Told, Overtaken, OneCall, P!NothingResurrects

(* Every step keeps it. *)
LEMMA PanelSteps ==
  ASSUME None \notin ActionKinds, PanelInv, [P!Next]_P!vars
  PROVE  PanelInv'
<1>1. CASE P!HostChanges \/ P!RecordingBegins
  <2>0. PanelTypes /\ Told /\ Overtaken /\ OneCall /\ P!NothingResurrects  BY DEF PanelInv
  <2>1. HostMoves /\ UNCHANGED <<panel, shown, life, version, polls, calls, library, removed>>
    BY <1>1, <2>0, ChangesMove, BeginningMoves DEF P!HostChanges, P!RecordingBegins
  <2>2. Told' /\ PanelTypes'  BY <2>0, <2>1, ToldMoves DEF PanelTypes, HostMoves
  <2>3. ASSUME NEW d \in calls
        PROVE  /\ d.removed \subseteq 1 .. made' /\ d.removed \cap host'.saved = {}
               /\ host'.recording # None => host'.recording \notin d.removed
    BY <2>0, <2>1, GoneStaysGone DEF OneCall
  <2>4. OneCall' /\ Overtaken' /\ P!NothingResurrects'
    BY <2>0, <2>1, <2>3 DEF OneCall, Overtaken, P!NothingResurrects
  <2> QED BY <2>2, <2>4 DEF PanelInv
<1>2. CASE UNCHANGED P!vars  BY <1>2 DEF P!vars, PanelInv, PanelTypes, Told, Overtaken, OneCall, P!NothingResurrects
<1> QED BY <1>1, <1>2, LibrarySteps, VisitStep, PollSteps, ButtonSteps, ServedStep, AnsweredStep
        DEF P!Next

(* However polls, actions, visits and the host interleave, a recording whose
   deletion the panel was told of does not come back to its list. *)
THEOREM NothingComesBack ==
  ASSUME None \notin ActionKinds
  PROVE  P!Spec => []P!NothingResurrects
<1>1. PanelInv /\ [P!Next]_P!vars => PanelInv'  BY PanelSteps
<1>2. PanelInv => P!NothingResurrects  BY DEF PanelInv
<1> QED BY PanelStarts, <1>1, <1>2, PTL DEF P!Spec

----
(* The page of several broadcasts.  A configuration that no page has shown
   is accounted for by a call: its answer is still out, or the page that
   asked is gone and it is being closed. *)

WatchKinds == {"configure", "close", "request", "confirm"}

PageFields(p) == {"life", "mounted"} \subseteq DOMAIN p
CallFields(c) == {"kind", "life", "epoch", "at", "got"} \subseteq DOMAIN c
NativeFields(n) == {"active", "epoch"} \subseteq DOMAIN n

(* None is no answer of the native side. *)
NoneIsNoAnswer == ~NativeFields(None)

Accounts(c) ==
  \/ c.kind = "configure" /\ c.at = "served" /\ c.got # None /\ c.got.epoch = native.epoch
  \/ c.kind = "close" /\ c.at = "sent" /\ c.epoch = native.epoch

WatchTypes ==
  /\ NativeFields(native) /\ PageFields(page) /\ page.life \in Nat
  /\ \A c \in calls : CallFields(c) /\ c.kind \in WatchKinds /\ c.life \in Nat /\ c.life <= page.life

(* What is closed by the page that shows it was adopted; any other close
   comes from a page that is gone. *)
ShownIsAdopted == shown.active => shown.epoch \in adopted
ClosedByLeaving ==
  \A c \in calls :
    c.kind = "close" /\ c.at = "sent" /\ c.epoch \notin adopted
      => c.life # page.life \/ ~page.mounted

Accounted ==
  native.active /\ ~refused /\ native.epoch \notin adopted => \E c \in calls : Accounts(c)

WatchInv == WatchTypes /\ ShownIsAdopted /\ ClosedByLeaving /\ Accounted
(* Steps of the page that neither ask nor answer. *)
LEMMA QuietSteps ==
  ASSUME WatchInv, UNCHANGED <<native, refused, shown, adopted, calls>>,
         PageFields(page)', page'.life = page.life, page'.mounted => page.mounted
  PROVE  WatchInv'
<1>1. WatchTypes'  BY DEF WatchInv, WatchTypes
<1>2. ShownIsAdopted' /\ ClosedByLeaving' /\ Accounted'
  BY DEF WatchInv, WatchTypes, ShownIsAdopted, ClosedByLeaving, Accounted, Accounts
<1> QED BY <1>1, <1>2 DEF WatchInv

(* The draft, the settings and the end of a page. *)
LEMMA PageSteps ==
  ASSUME WatchInv,
         \/ \E d \in M!Drafts : M!Edit(d)
         \/ M!OpenSettings \/ M!CloseSettings \/ M!Unmount \/ M!Expire \/ M!Poll \/ M!PollServed
  PROVE  WatchInv'
<1>1. UNCHANGED <<native, refused, shown, adopted, calls>>
  BY DEF M!Edit, M!OpenSettings, M!CloseSettings, M!Unmount, M!Expire, M!Poll, M!PollServed,
         M!nativeVars, M!pageVars, M!wireVars
<1>2. PageFields(page)  BY DEF WatchInv, WatchTypes
<1>3. PageFields(page)' /\ page'.life = page.life /\ (page'.mounted => page.mounted)
  <2>1. CASE \E d \in M!Drafts : M!Edit(d)  BY <1>2, <2>1 DEF M!Edit, PageFields
  <2>2. CASE M!OpenSettings \/ M!CloseSettings \/ M!Expire
    BY <1>2, <2>2 DEF M!OpenSettings, M!CloseSettings, M!Expire, M!Closed, PageFields
  <2>3. CASE M!Unmount  BY <1>2, <2>3 DEF M!Unmount, PageFields
  <2>4. CASE M!Poll \/ M!PollServed  BY <1>2, <2>4 DEF M!Poll, M!PollServed, M!pageVars
  <2> QED BY <2>1, <2>2, <2>3, <2>4
<1> QED BY <1>1, <1>3, QuietSteps

(* A new page asks for nothing: what an earlier one asked comes from a page
   that is gone. *)
LEMMA MountStep ==
  ASSUME WatchInv, M!Mount
  PROVE  WatchInv'
<1>1. /\ UNCHANGED <<native, refused, adopted, calls>> /\ shown' = M!Idle
      /\ page'.life = page.life + 1 /\ PageFields(page)'  BY DEF M!Mount, M!nativeVars, PageFields
<1>2. WatchTypes'  BY <1>1 DEF WatchInv, WatchTypes
<1>3. ShownIsAdopted'  BY <1>1 DEF ShownIsAdopted, M!Idle
<1>4. ClosedByLeaving' /\ Accounted'  BY <1>1 DEF WatchInv, WatchTypes, ClosedByLeaving, Accounted, Accounts
<1> QED BY <1>2, <1>3, <1>4 DEF WatchInv

(* The page adopts what it shows. *)
LEMMA ShowStep ==
  ASSUME WatchInv, NEW s, M!Shown(s), UNCHANGED <<native, refused, calls>>,
         PageFields(page)', page'.life = page.life, page'.mounted = page.mounted
  PROVE  WatchInv'
<1>1. shown' = s /\ adopted' = adopted \cup {s.epoch}  BY DEF M!Shown
<1>2. WatchTypes'  BY DEF WatchInv, WatchTypes
<1>3. ShownIsAdopted' /\ ClosedByLeaving' /\ Accounted'
  BY <1>1 DEF WatchInv, WatchTypes, ShownIsAdopted, ClosedByLeaving, Accounted, Accounts
<1> QED BY <1>2, <1>3 DEF WatchInv

(* The answer of a poll is shown, or it is dropped. *)
LEMMA PollAnswer ==
  ASSUME WatchInv, M!PollAnswered
  PROVE  WatchInv'
<1>0. PageFields(page) /\ UNCHANGED <<native, refused, calls>>
  BY DEF WatchInv, WatchTypes, M!PollAnswered, M!Answer, M!nativeVars
<1>1. CASE M!Polled(poll.got[1])
  <2>1. M!Shown(poll.got[1]) /\ page' = [page EXCEPT !.pollError = FALSE, !.first = FALSE]  BY <1>1 DEF M!Polled
  <2>2. PageFields(page)' /\ page'.life = page.life /\ page'.mounted = page.mounted  BY <1>0, <2>1 DEF PageFields
  <2> QED BY <1>0, <2>1, <2>2, ShowStep
<1>2. CASE ~M!Polled(poll.got[1])
  <2>1. UNCHANGED <<shown, adopted>> /\ page' \in {page, [page EXCEPT !.pollError = TRUE]}
    BY <1>2 DEF M!PollAnswered, M!Answer, M!Ignored
  <2>2. PageFields(page)' /\ page'.life = page.life /\ page'.mounted = page.mounted  BY <1>0, <2>1 DEF PageFields
  <2> QED BY <1>0, <2>1, <2>2, QuietSteps
<1> QED BY <1>1, <1>2

(* Recordings and screenshots that the native side begins by itself. *)
LEMMA NativeSteps ==
  ASSUME WatchInv, M!Record \/ M!Raise
  PROVE  WatchInv'
<1>1. UNCHANGED <<refused, shown, adopted, page, calls>>  BY DEF M!Record, M!Raise, M!pageVars, M!wireVars
<1>2. NativeFields(native)' /\ native'.active = native.active /\ native'.epoch = native.epoch
  <2>1. NativeFields(native)  BY DEF WatchInv, WatchTypes
  <2> QED BY <2>1 DEF M!Record, M!Raise, M!Becomes, NativeFields
<1>3. WatchTypes' /\ ShownIsAdopted' /\ ClosedByLeaving'
  BY <1>1, <1>2 DEF WatchInv, WatchTypes, ShownIsAdopted, ClosedByLeaving
<1>4. Accounted'  BY <1>1, <1>2 DEF WatchInv, Accounted, Accounts
<1> QED BY <1>3, <1>4 DEF WatchInv

(* The page asks. *)
LEMMA CallStep ==
  ASSUME WatchInv, NEW kind \in WatchKinds, NEW entries, M!Call(kind, entries),
         kind = "close" => shown.active, UNCHANGED <<native, refused, shown, adopted>>
  PROVE  WatchInv'
<1> DEFINE n == [kind |-> kind, life |-> page.life, epoch |-> shown.epoch, entries |-> entries,
                 at |-> "sent", got |-> None]
<1>1. calls' = calls \cup {n}  BY DEF M!Call
<1>2. CallFields(n) /\ n.kind = kind /\ n.life = page.life /\ n.epoch = shown.epoch  BY DEF CallFields
<1> HIDE DEF n
<1>3. PageFields(page)' /\ page'.life = page.life /\ page'.mounted = page.mounted
  <2>1. PageFields(page) /\ page' = M!Started  BY DEF WatchInv, WatchTypes, M!Call
  <2> QED BY <2>1 DEF M!Started, PageFields
<1>4. WatchTypes'  BY <1>1, <1>2, <1>3 DEF WatchInv, WatchTypes
<1>5. ClosedByLeaving'  BY <1>1, <1>2, <1>3 DEF WatchInv, ClosedByLeaving, ShownIsAdopted
<1>6. ShownIsAdopted' /\ Accounted'  BY <1>1 DEF WatchInv, ShownIsAdopted, Accounted, Accounts
<1> QED BY <1>4, <1>5, <1>6 DEF WatchInv

(* Apply, leave, a screenshot and its confirmation. *)
LEMMA AskSteps ==
  ASSUME WatchInv,
         M!Apply \/ M!Leave \/ M!Screenshot \/ \E approve \in BOOLEAN : M!Confirm(approve)
  PROVE  WatchInv'
<1>1. UNCHANGED <<native, refused, shown, adopted>>  BY DEF M!Apply, M!Leave, M!Screenshot, M!Confirm, M!nativeVars
<1>2. CASE page' = M!Failed /\ UNCHANGED calls
  <2>1. PageFields(page)  BY DEF WatchInv, WatchTypes
  <2>2. PageFields(page)' /\ page'.life = page.life /\ page'.mounted = page.mounted
    BY <1>2, <2>1 DEF M!Failed, PageFields
  <2> QED BY <1>1, <1>2, <2>2, QuietSteps
<1>3. CASE ~(page' = M!Failed /\ UNCHANGED calls)
  <2>1. PICK kind, entries :
          kind \in WatchKinds /\ M!Call(kind, entries) /\ (kind = "close" => shown.active)
    BY <1>3 DEF M!Apply, M!Leave, M!Screenshot, M!Confirm, WatchKinds
  <2> QED BY <1>1, <2>1, CallStep
<1> QED BY <1>2, <1>3

(* The native side serves a call. *)
LEMMA WatchServed ==
  ASSUME WatchInv, NoneIsNoAnswer, NEW c \in calls, M!CallServed(c)
  PROVE  WatchInv'
<1>0. /\ CallFields(c) /\ c.kind \in WatchKinds /\ c.life \in Nat /\ c.life <= page.life
      /\ c.at = "sent" /\ NativeFields(native)  BY DEF WatchInv, WatchTypes, M!CallServed
<1>1. UNCHANGED <<shown, adopted, page>>  BY DEF M!CallServed, M!pageVars
<1>2. \E got :
        /\ M!Replied(c, got)
        /\ NativeFields(native)'
        /\ \/ UNCHANGED native /\ (c.kind = "close" /\ c.epoch = native.epoch => native.locked)
           \/ ~native'.active
           \/ /\ native'.epoch = native.epoch /\ native'.active = native.active
              /\ c.kind # "close"
           \/ c.kind = "configure" /\ got = native'
  <2>1. CASE c.kind = "configure"
    <3>1. CASE native.locked \/ native.epoch = MaxEpoch  BY <1>0, <2>1, <3>1 DEF M!CallServed, M!Refused, NativeFields
    <3>2. CASE ~(native.locked \/ native.epoch = MaxEpoch)
      <4>1. M!Replied(c, native') /\ native' =
              [[native EXCEPT !.active = TRUE, !.epoch = @ + 1, !.entries = c.entries,
                              !.control = None] EXCEPT !.serial = @ + 1]
        BY <2>1, <3>2 DEF M!CallServed, M!Becomes
      <4>2. NativeFields(native)'  BY <1>0, <4>1 DEF NativeFields
      <4> QED BY <2>1, <4>1, <4>2
    <3> QED BY <3>1, <3>2
  <2>2. CASE c.kind = "close"
    <3>1. CASE native.locked \/ c.epoch # native.epoch  BY <1>0, <2>2, <3>1 DEF M!CallServed, M!Refused, NativeFields
    <3>2. CASE ~(native.locked \/ c.epoch # native.epoch)
      <4>1. M!Replied(c, native') /\ native' =
              [[native EXCEPT !.active = FALSE, !.entries = <<>>, !.control = None]
                 EXCEPT !.serial = @ + 1]  BY <2>2, <3>2 DEF M!CallServed, M!Becomes
      <4>2. NativeFields(native)' /\ ~native'.active  BY <1>0, <4>1 DEF NativeFields
      <4> QED BY <4>1, <4>2
    <3> QED BY <3>1, <3>2
  <2>3. CASE c.kind \in {"request", "confirm"}
    <3>1. CASE c.epoch # native.epoch \/ ~native.active  BY <1>0, <2>3, <3>1 DEF M!CallServed, M!Refused, NativeFields
    <3>2. CASE ~(c.epoch # native.epoch \/ ~native.active)
      <4>1. PICK x : M!Replied(c, native')
                     /\ native' = [[native EXCEPT !.control = x] EXCEPT !.serial = @ + 1]
        BY <2>3, <3>2 DEF M!CallServed, M!Becomes
      <4>2. /\ NativeFields(native)' /\ native'.epoch = native.epoch
            /\ native'.active = native.active  BY <1>0, <4>1 DEF NativeFields
      <4> QED BY <2>3, <4>1, <4>2
    <3> QED BY <3>1, <3>2
  <2> QED BY <1>0, <2>1, <2>2, <2>3 DEF WatchKinds
<1>3. PICK got :
        /\ M!Replied(c, got)
        /\ NativeFields(native)'
        /\ \/ UNCHANGED native /\ (c.kind = "close" /\ c.epoch = native.epoch => native.locked)
           \/ ~native'.active
           \/ /\ native'.epoch = native.epoch /\ native'.active = native.active
              /\ c.kind # "close"
           \/ c.kind = "configure" /\ got = native'  BY <1>2
<1> DEFINE n == [c EXCEPT !.at = "served", !.got = got]
<1>4. calls' = (calls \ {c}) \cup {n}  BY <1>3 DEF M!Replied
<1>5. /\ CallFields(n) /\ n.kind = c.kind /\ n.life = c.life /\ n.epoch = c.epoch
      /\ n.at = "served" /\ n.got = got  BY <1>0 DEF CallFields
<1> HIDE DEF n
<1>6. WatchTypes'  BY <1>0, <1>1, <1>3, <1>4, <1>5 DEF WatchInv, WatchTypes
<1>7. ShownIsAdopted'  BY <1>1 DEF WatchInv, ShownIsAdopted
<1>8. ClosedByLeaving'  BY <1>1, <1>4, <1>5 DEF WatchInv, ClosedByLeaving
<1>9. Accounted'
  <2> SUFFICES ASSUME native'.active, ~refused', native'.epoch \notin adopted
               PROVE  (\E d \in calls : Accounts(d))'  BY <1>1 DEF Accounted
  <2>1. /\ ~refused
        /\ ~(native.locked /\ c.kind = "close" /\ (c.life # page.life \/ ~page.mounted))  BY DEF M!CallServed
  <2>2. CASE c.kind = "configure" /\ got = native'
    <3>1. native' # None  BY <1>3 DEF NoneIsNoAnswer
    <3> QED BY <1>4, <1>5, <2>2, <3>1 DEF Accounts
  <2>3. CASE ~(c.kind = "configure" /\ got = native')
    <3>1. /\ native'.epoch = native.epoch /\ native.active
          /\ c.kind = "close" /\ c.epoch = native.epoch => native.locked  BY <1>3, <2>3
    <3>2. PICK d \in calls : Accounts(d)  BY <2>1, <3>1 DEF WatchInv, Accounted
    <3>3. d # c  BY <1>0, <2>1, <3>1, <3>2 DEF WatchInv, ClosedByLeaving, Accounts
    <3> QED BY <1>4, <3>1, <3>2, <3>3 DEF Accounts
  <2> QED BY <2>2, <2>3
<1> QED BY <1>6, <1>7, <1>8, <1>9 DEF WatchInv

(* The answer reaches the page that asked, or none: then what was configured
   is closed. *)
LEMMA WatchAnswered ==
  ASSUME WatchInv, NoneIsNoAnswer, NEW c \in calls, M!CallAnswered(c)
  PROVE  WatchInv'
<1>0. /\ CallFields(c) /\ c.kind \in WatchKinds /\ c.life \in Nat /\ c.life <= page.life
      /\ c.at = "served" /\ PageFields(page) /\ page.life \in Nat  BY DEF WatchInv, WatchTypes, M!CallAnswered
<1>1. UNCHANGED <<native, refused>>  BY DEF M!CallAnswered, M!nativeVars
<1>2. CASE ~page.mounted \/ c.life # page.life
  <2>1. M!Late(c)  BY <1>2 DEF M!CallAnswered
  <2>2. UNCHANGED <<shown, adopted, page>>  BY <2>1 DEF M!Late
  <2>3. CASE c.kind # "configure" \/ c.got = None
    <3>1. calls' = calls \ {c}  BY <2>1, <2>3 DEF M!Late
    <3>2. WatchTypes' /\ ShownIsAdopted' /\ ClosedByLeaving'
      BY <1>1, <2>2, <3>1 DEF WatchInv, WatchTypes, ShownIsAdopted, ClosedByLeaving
    <3>3. ~Accounts(c)  BY <1>0, <2>3 DEF Accounts
    <3>4. Accounted'  BY <1>1, <2>2, <3>1, <3>3 DEF WatchInv, Accounted, Accounts
    <3> QED BY <3>2, <3>4 DEF WatchInv
  <2>4. CASE c.kind = "configure" /\ c.got # None
    <3> DEFINE n == [c EXCEPT !.kind = "close", !.epoch = c.got.epoch, !.at = "sent", !.got = None]
    <3>1. calls' = (calls \ {c}) \cup {n}  BY <2>1, <2>4 DEF M!Late
    <3>2. /\ CallFields(n) /\ n.kind = "close" /\ n.life = c.life /\ n.epoch = c.got.epoch
          /\ n.at = "sent"  BY <1>0 DEF CallFields
    <3> HIDE DEF n
    <3>3. WatchTypes'  BY <1>0, <1>1, <2>2, <3>1, <3>2 DEF WatchInv, WatchTypes, WatchKinds
    <3>4. ShownIsAdopted' /\ ClosedByLeaving'  BY <1>2, <2>2, <3>1, <3>2 DEF WatchInv, ShownIsAdopted, ClosedByLeaving
    <3>5. ASSUME NEW d \in calls, Accounts(d) PROVE \E e \in calls' : Accounts(e)'
      <4>1. CASE d = c
        <5>1. Accounts(n)'  BY <1>0, <1>1, <3>2, <3>5, <4>1 DEF Accounts
        <5> QED BY <3>1, <5>1
      <4>2. CASE d # c  BY <1>1, <3>1, <3>5, <4>2 DEF Accounts
      <4> QED BY <4>1, <4>2
    <3>6. Accounted'  BY <1>1, <2>2, <3>5 DEF WatchInv, Accounted
    <3> QED BY <3>3, <3>4, <3>6 DEF WatchInv
  <2> QED BY <2>3, <2>4
<1>3. CASE ~(~page.mounted \/ c.life # page.life)
  <2>1. calls' = calls \ {c}  BY <1>3 DEF M!CallAnswered
  <2>2. CASE c.got = None
    <3>1. UNCHANGED <<shown, adopted>> /\ page' = [page EXCEPT !.busy = FALSE, !.error = TRUE]
      BY <1>3, <2>2 DEF M!CallAnswered
    <3>2. PageFields(page)' /\ page'.life = page.life /\ page'.mounted = page.mounted  BY <1>0, <3>1 DEF PageFields
    <3>3. ~Accounts(c)  BY <1>0, <2>2 DEF Accounts
    <3>4. WatchTypes' /\ ShownIsAdopted' /\ ClosedByLeaving'
      BY <1>1, <2>1, <3>1, <3>2 DEF WatchInv, WatchTypes, ShownIsAdopted, ClosedByLeaving
    <3>5. Accounted'  BY <1>1, <2>1, <3>1, <3>3 DEF WatchInv, Accounted, Accounts
    <3> QED BY <3>4, <3>5 DEF WatchInv
  <2>3. CASE c.got # None
    <3>1. M!Shown(c.got)  BY <1>3, <2>3 DEF M!CallAnswered
    <3>2. shown' = c.got /\ adopted' = adopted \cup {c.got.epoch}  BY <3>1 DEF M!Shown
    <3>3. PageFields(page)' /\ page'.life = page.life /\ page'.mounted = page.mounted
      <4>1. CASE c.kind \in {"configure", "close"}
        <5>1. page' = [M!Closed(page) EXCEPT !.busy = FALSE]  BY <1>3, <2>3, <4>1 DEF M!CallAnswered
        <5> QED BY <1>0, <5>1 DEF PageFields, M!Closed
      <4>2. CASE c.kind \notin {"configure", "close"}
        <5>1. PICK x : page' = [[page EXCEPT !.dismissed = x] EXCEPT !.busy = FALSE]
          BY <1>3, <2>3, <4>2 DEF M!CallAnswered
        <5> QED BY <1>0, <5>1 DEF PageFields
      <4> QED BY <4>1, <4>2
    <3>4. WatchTypes' /\ ShownIsAdopted' /\ ClosedByLeaving'
      BY <1>1, <2>1, <3>2, <3>3 DEF WatchInv, WatchTypes, ShownIsAdopted, ClosedByLeaving
    <3>5. Accounts(c) => native.epoch = c.got.epoch  BY <1>0 DEF Accounts
    <3>6. Accounted'  BY <1>1, <2>1, <3>2, <3>5 DEF WatchInv, Accounted, Accounts
    <3> QED BY <3>4, <3>6 DEF WatchInv
  <2> QED BY <2>2, <2>3
<1> QED BY <1>2, <1>3

(* What was watched when the page is first opened counts as shown. *)
LEMMA WatchStarts == M!Init => WatchInv
<1> SUFFICES ASSUME M!Init PROVE WatchInv  OBVIOUS
<1>1. NativeFields(native) /\ PageFields(page) /\ page.life = 1  BY DEF M!Init, M!Idle, NativeFields, PageFields
<1>2. calls = {} /\ adopted = {native.epoch} /\ ~shown.active  BY DEF M!Init, M!Idle
<1> QED BY <1>1, <1>2 DEF WatchInv, WatchTypes, ShownIsAdopted, ClosedByLeaving, Accounted

(* Every step keeps the account. *)
LEMMA WatchSteps ==
  ASSUME NoneIsNoAnswer, WatchInv, [M!Next]_M!vars
  PROVE  WatchInv'
<1>1. CASE M!Placement
  <2>1. UNCHANGED <<native, refused, shown, adopted, page, calls>>
    BY <1>1 DEF M!Placement, M!Look, M!Placed, M!PlaceAnswered, M!Update, M!RetryDue, M!Dispose,
                M!Placing, M!nativeVars, M!pageVars, M!wireVars
  <2> QED BY <2>1, QuietSteps DEF WatchInv, WatchTypes
<1>2. CASE UNCHANGED M!vars
  <2>1. UNCHANGED <<native, refused, shown, adopted, page, calls>>
    BY <1>2 DEF M!vars, M!nativeVars, M!pageVars, M!wireVars
  <2> QED BY <2>1, QuietSteps DEF WatchInv, WatchTypes
<1> QED BY <1>1, <1>2, PageSteps, MountStep, PollAnswer, NativeSteps, AskSteps, WatchServed,
           WatchAnswered DEF M!Next, M!Watching

(* A configuration whose page was left before it answered is closed, unless
   a recording holds it: whatever calls, polls and pages interleave, what is
   watched in the end is what some page has shown (CallAnswered and Late). *)
THEOREM NothingIsOrphaned ==
  ASSUME NoneIsNoAnswer
  PROVE  M!Spec => []M!NoOrphan
<1>1. WatchInv /\ [M!Next]_M!vars => WatchInv'  BY WatchSteps
<1>2. WatchInv => M!NoOrphan  BY DEF WatchInv, Accounted, M!NoOrphan
<1> QED BY WatchStarts, <1>1, <1>2, PTL DEF M!Spec

----
(* The place of a pane.  The request that was made last is the one that
   counts, whichever lands last; when the pane is gone or asked to be hidden
   it is a hide, which does not fail. *)

PaneFields(p) == {"alive", "want", "key", "revision", "latest", "flying", "retry"} \subseteq DOMAIN p
FlightFields(f) == {"view", "revision", "attempt", "seq", "at"} \subseteq DOMAIN f

PlaceTypes ==
  /\ PaneFields(pane) /\ pane.revision \in Nat /\ sends \in Nat
  /\ {"view", "seq"} \subseteq DOMAIN surface /\ surface.seq \in Nat /\ surface.seq <= sends
  /\ \A f \in flights : /\ FlightFields(f) /\ f.seq \in Nat /\ f.seq <= sends
                        /\ f.revision \in Int /\ f.revision <= pane.revision

(* The native side has not seen a request before it lands. *)
SeqsDiffer ==
  /\ \A f, g \in flights : f.seq = g.seq => f = g
  /\ \A f \in flights : f.at = "sent" => f.seq # surface.seq

(* Behind a hide nothing waits that would show the pane again. *)
NothingWaits ==
  pane.key = "hidden" =>
    /\ pane.latest = None /\ pane.retry = None
    /\ \A f \in flights : f.revision = pane.revision => f.view = "hidden"

LastHides ==
  pane.key = "hidden" \/ ~pane.alive =>
    \/ surface.view = "hidden" /\ surface.seq = sends
    \/ \E f \in flights : f.seq = sends /\ f.view = "hidden" /\ f.at = "sent"

PlaceInv == PlaceTypes /\ SeqsDiffer /\ NothingWaits /\ LastHides

(* None is neither a revision nor a place. *)
NoneIsNoPlace == None \notin Nat /\ None # "hidden"

(* A request is sent: it has the highest number. *)
LEMMA SendStep ==
  ASSUME PlaceTypes, SeqsDiffer, NEW n, FlightFields(n), n.seq = sends + 1, n.at = "sent",
         n.revision \in Int, n.revision <= pane'.revision,
         sends' = sends + 1, UNCHANGED surface,
         \A f \in flights' : f = n \/ f \in flights,
         PaneFields(pane)', pane'.revision \in Nat, pane'.revision >= pane.revision
  PROVE  PlaceTypes' /\ SeqsDiffer'
<1>1. PlaceTypes'  BY DEF PlaceTypes
<1>2. SeqsDiffer'  BY DEF PlaceTypes, SeqsDiffer
<1> QED BY <1>1, <1>2

(* Measuring the pane, and asking for the place it should have. *)
LEMMA UpdateSteps ==
  ASSUME PlaceInv, NoneIsNoPlace,
         M!Update \/ \E v \in {"shown", "masked", "hidden"} : M!Look(v)
  PROVE  PlaceInv'
<1>0. PlaceTypes /\ SeqsDiffer /\ NothingWaits /\ LastHides /\ PaneFields(pane)  BY DEF PlaceInv, PlaceTypes
<1>1. ASSUME NEW v, M!Look(v) PROVE PlaceInv'
  <2>1. UNCHANGED <<flights, surface, sends>> /\ pane' = [pane EXCEPT !.want = v]  BY <1>1 DEF M!Look
  <2>2. /\ PaneFields(pane)' /\ pane'.revision = pane.revision /\ pane'.key = pane.key
        /\ pane'.latest = pane.latest /\ pane'.retry = pane.retry /\ pane'.alive = pane.alive
    BY <1>0, <2>1 DEF PaneFields
  <2>3. PlaceTypes' /\ SeqsDiffer'  BY <1>0, <2>1, <2>2 DEF PlaceTypes, SeqsDiffer
  <2>4. NothingWaits' /\ LastHides'  BY <1>0, <2>1, <2>2 DEF NothingWaits, LastHides
  <2> QED BY <2>3, <2>4 DEF PlaceInv
<1>2. CASE M!Update
  <2> DEFINE p == [pane EXCEPT !.key = pane.want, !.revision = @ + 1, !.retry = None]
  <2>1. /\ PaneFields(p) /\ p.key = pane.want /\ p.want = pane.want /\ p.alive = pane.alive
        /\ p.revision = pane.revision + 1  BY <1>0 DEF PaneFields
  <2>2. pane.alive /\ UNCHANGED surface  BY <1>2 DEF M!Update
  <2>3. \/ p.want = "shown" /\ pane' = [p EXCEPT !.latest = p.revision] /\ UNCHANGED <<flights, sends>>
        \/ M!Send([p EXCEPT !.latest = IF p.want = "shown" THEN @ ELSE None], p.want, p.revision, 0)
    BY <1>2 DEF M!Update
  <2> HIDE DEF p
  <2>4. CASE p.want = "shown" /\ pane' = [p EXCEPT !.latest = p.revision] /\ UNCHANGED <<flights, sends>>
    <3>1. /\ PaneFields(pane)' /\ pane'.revision = pane.revision + 1 /\ pane'.key = "shown"
          /\ pane'.alive = pane.alive  BY <2>1, <2>4 DEF PaneFields
    <3>2. PlaceTypes' /\ SeqsDiffer'  BY <1>0, <2>2, <2>4, <3>1 DEF PlaceTypes, SeqsDiffer
    <3>3. NothingWaits' /\ LastHides'  BY <2>2, <3>1 DEF NothingWaits, LastHides
    <3> QED BY <3>2, <3>3 DEF PlaceInv
  <2>5. CASE M!Send([p EXCEPT !.latest = IF p.want = "shown" THEN @ ELSE None], p.want, p.revision, 0)
    <3> DEFINE q == [p EXCEPT !.latest = IF p.want = "shown" THEN @ ELSE None]
               n == [view |-> p.want, revision |-> p.revision, attempt |-> 0, seq |-> sends + 1,
                     at |-> "sent"]
    <3>1. /\ sends' = sends + 1 /\ flights' = flights \cup {n}
          /\ pane' = [q EXCEPT !.retry = None, !.flying = IF p.want = "shown" THEN @ + 1 ELSE @]
      BY <2>5 DEF M!Send
    <3>2. /\ PaneFields(q) /\ q.revision = p.revision /\ q.key = p.key /\ q.alive = p.alive
          /\ p.want # "shown" => q.latest = None  BY <2>1 DEF PaneFields
    <3> HIDE DEF q
    <3>3. /\ PaneFields(pane)' /\ pane'.revision = pane.revision + 1 /\ pane'.key = pane.want
          /\ pane'.alive = pane.alive /\ pane'.retry = None
          /\ pane.want # "shown" => pane'.latest = None  BY <2>1, <3>1, <3>2 DEF PaneFields
    <3>n. /\ FlightFields(n) /\ n.seq = sends + 1 /\ n.at = "sent"
          /\ n.view = pane.want /\ n.revision = pane.revision + 1  BY <2>1 DEF FlightFields
    <3> HIDE DEF n
    <3>4. pane.revision \in Nat  BY <1>0, <2>1 DEF PlaceTypes
    <3>5. PlaceTypes' /\ SeqsDiffer'  BY <1>0, <2>2, <3>1, <3>3, <3>4, <3>n, SendStep
    <3>6. NothingWaits'  BY <1>0, <3>1, <3>3, <3>4, <3>n DEF NothingWaits, PlaceTypes
    <3>7. LastHides'  BY <2>2, <3>1, <3>3, <3>n DEF LastHides
    <3> QED BY <3>5, <3>6, <3>7 DEF PlaceInv
  <2> QED BY <2>3, <2>4, <2>5
<1> QED BY <1>1, <1>2

(* A show is tried again, or the pane goes away. *)
LEMMA ResendSteps ==
  ASSUME PlaceInv, NoneIsNoPlace, M!RetryDue \/ M!Dispose
  PROVE  PlaceInv'
<1>0. /\ PlaceTypes /\ SeqsDiffer /\ NothingWaits /\ LastHides /\ PaneFields(pane)
      /\ pane.revision \in Nat  BY DEF PlaceInv, PlaceTypes
<1>1. CASE M!RetryDue
  <2> DEFINE n == [view |-> "shown", revision |-> pane.revision, attempt |-> pane.retry,
                   seq |-> sends + 1, at |-> "sent"]
  <2>1. /\ pane.alive /\ pane.retry # None /\ UNCHANGED surface /\ sends' = sends + 1
        /\ flights' = flights \cup {n}
        /\ pane' = [pane EXCEPT !.retry = None, !.flying = @ + 1]  BY <1>1 DEF M!RetryDue, M!Send
  <2>2. /\ PaneFields(pane)' /\ pane'.revision = pane.revision /\ pane'.key = pane.key
        /\ pane'.alive = pane.alive  BY <1>0, <2>1 DEF PaneFields
  <2>n. FlightFields(n) /\ n.seq = sends + 1 /\ n.at = "sent" /\ n.revision = pane.revision  BY DEF FlightFields
  <2> HIDE DEF n
  <2>3. PlaceTypes' /\ SeqsDiffer'  BY <1>0, <2>1, <2>2, <2>n, SendStep
  <2>4. pane.key # "hidden"  BY <1>0, <2>1 DEF NothingWaits
  <2>5. NothingWaits' /\ LastHides'  BY <2>1, <2>2, <2>4 DEF NothingWaits, LastHides
  <2> QED BY <2>3, <2>5 DEF PlaceInv
<1>2. CASE M!Dispose
  <2> DEFINE q == [pane EXCEPT !.alive = FALSE, !.revision = @ + 1, !.latest = None]
             n == [view |-> "hidden", revision |-> -1, attempt |-> 0, seq |-> sends + 1,
                   at |-> "sent"]
  <2>1. /\ UNCHANGED surface /\ sends' = sends + 1 /\ flights' = flights \cup {n}
        /\ pane' = [q EXCEPT !.retry = None, !.flying = IF "hidden" = "shown" THEN @ + 1 ELSE @]
    BY <1>2 DEF M!Dispose, M!Send
  <2>2. /\ PaneFields(q) /\ q.revision = pane.revision + 1 /\ q.latest = None  BY <1>0 DEF PaneFields
  <2> HIDE DEF q
  <2>3. /\ PaneFields(pane)' /\ pane'.revision = pane.revision + 1 /\ pane'.latest = None
        /\ pane'.retry = None  BY <2>1, <2>2 DEF PaneFields
  <2>n. /\ FlightFields(n) /\ n.seq = sends + 1 /\ n.at = "sent" /\ n.revision = -1
        /\ n.view = "hidden"  BY DEF FlightFields
  <2> HIDE DEF n
  <2>4. PlaceTypes' /\ SeqsDiffer'  BY <1>0, <2>1, <2>3, <2>n, SendStep
  <2>5. NothingWaits'  BY <1>0, <2>1, <2>3, <2>n DEF NothingWaits, PlaceTypes
  <2>6. LastHides'  BY <2>1, <2>n DEF LastHides
  <2> QED BY <2>4, <2>5, <2>6 DEF PlaceInv
<1> QED BY <1>1, <1>2

(* A request lands: an older one than the last is stale. *)
LEMMA LandStep ==
  ASSUME PlaceInv, NEW f \in flights, M!Placed(f)
  PROVE  PlaceInv'
<1>0. /\ PlaceTypes /\ SeqsDiffer /\ NothingWaits /\ LastHides
      /\ FlightFields(f) /\ f.seq \in Nat /\ f.seq <= sends /\ f.revision \in Int
      /\ f.revision <= pane.revision  BY DEF PlaceInv, PlaceTypes
<1>1. f.at = "sent" /\ UNCHANGED <<pane, sends>>  BY DEF M!Placed
<1>2. f.seq # surface.seq /\ surface.seq \in Nat /\ surface.seq <= sends  BY <1>0, <1>1 DEF SeqsDiffer, PlaceTypes
<1>3. \E result :
        /\ M!Land(f, result) /\ result # "sent"
        /\ \/ f.seq < surface.seq /\ UNCHANGED surface
           \/ /\ ~(f.seq < surface.seq) /\ {"view", "seq"} \subseteq DOMAIN surface'
              /\ surface'.seq = f.seq /\ (f.view = "hidden" => surface'.view = "hidden")
  <2>0. {"view", "seq"} \subseteq DOMAIN surface  BY <1>0 DEF PlaceTypes
  <2>1. CASE f.seq < surface.seq  BY <2>1 DEF M!Placed
  <2>2. CASE ~(f.seq < surface.seq)
    <3>1. CASE M!Land(f, "ok") /\ surface' = [view |-> f.view, seq |-> f.seq]  BY <2>2, <3>1
    <3>2. CASE /\ f.view # "hidden" /\ M!Land(f, "failed")
               /\ surface' \in {[view |-> "hidden", seq |-> f.seq], [surface EXCEPT !.seq = f.seq]}
      <4>1. {"view", "seq"} \subseteq DOMAIN surface' /\ surface'.seq = f.seq  BY <2>0, <3>2
      <4> QED BY <2>2, <3>2, <4>1
    <3> QED BY <2>2, <3>1, <3>2 DEF M!Placed
  <2> QED BY <2>1, <2>2
<1>4. PICK result :
        /\ M!Land(f, result) /\ result # "sent"
        /\ \/ f.seq < surface.seq /\ UNCHANGED surface
           \/ /\ ~(f.seq < surface.seq) /\ {"view", "seq"} \subseteq DOMAIN surface'
              /\ surface'.seq = f.seq /\ (f.view = "hidden" => surface'.view = "hidden")  BY <1>3
<1> DEFINE n == [f EXCEPT !.at = result]
<1>5. flights' = (flights \ {f}) \cup {n}  BY <1>4 DEF M!Land
<1>6. /\ FlightFields(n) /\ n.seq = f.seq /\ n.revision = f.revision /\ n.view = f.view
      /\ n.at = result  BY <1>0 DEF FlightFields
<1> HIDE DEF n
<1>7. PlaceTypes'  BY <1>0, <1>1, <1>2, <1>4, <1>5, <1>6 DEF PlaceTypes
<1>8. SeqsDiffer'
  <2>1. \A g \in flights' : g = n \/ (g \in flights /\ g.seq # f.seq)  BY <1>0, <1>5 DEF SeqsDiffer
  <2>2. \A g, h \in flights' : g.seq = h.seq => g = h  BY <1>0, <1>6, <2>1 DEF SeqsDiffer
  <2>3. \A g \in flights' : g.at = "sent" => g.seq # surface'.seq  BY <1>0, <1>4, <1>6, <2>1 DEF SeqsDiffer
  <2> QED BY <2>2, <2>3 DEF SeqsDiffer
<1>9. NothingWaits'  BY <1>0, <1>1, <1>5, <1>6 DEF NothingWaits
<1>10. LastHides'
  <2> SUFFICES ASSUME pane.key = "hidden" \/ ~pane.alive
               PROVE  \/ surface'.view = "hidden" /\ surface'.seq = sends
                      \/ \E g \in flights' : g.seq = sends /\ g.view = "hidden" /\ g.at = "sent"
    BY <1>1 DEF LastHides
  <2>1. CASE surface.view = "hidden" /\ surface.seq = sends  BY <1>0, <1>2, <1>4, <2>1
  <2>2. ASSUME NEW g \in flights, g.seq = sends, g.view = "hidden", g.at = "sent"
        PROVE  \/ surface'.view = "hidden" /\ surface'.seq = sends
               \/ \E h \in flights' : h.seq = sends /\ h.view = "hidden" /\ h.at = "sent"
    <3>1. CASE g = f  BY <1>0, <1>2, <1>4, <2>2, <3>1
    <3>2. CASE g # f  BY <1>5, <2>2, <3>2
    <3> QED BY <3>1, <3>2
  <2> QED BY <1>0, <2>1, <2>2 DEF LastHides
<1> QED BY <1>7, <1>8, <1>9, <1>10 DEF PlaceInv

(* The answer of a request: what follows it never shows a hidden pane. *)
LEMMA PlaceAnswer ==
  ASSUME PlaceInv, NoneIsNoPlace, NEW f \in flights, M!PlaceAnswered(f)
  PROVE  PlaceInv'
<1> DEFINE mine == pane.alive /\ f.revision = pane.revision
           hide == mine /\ f.at # "ok" /\ f.view = "masked"
           next == pane.alive /\ f.view = "shown" /\ pane.latest = pane.revision
           freed == [pane EXCEPT !.flying = IF f.view = "shown" THEN @ - 1 ELSE @,
                       !.key = IF mine /\ f.at # "ok" THEN None ELSE @,
                       !.retry = IF mine /\ f.at = "failed" /\ f.view = "shown" /\ f.attempt < 2
                                   THEN f.attempt + 1 ELSE @]
           request(view, revision) == [view |-> view, revision |-> revision, attempt |-> 0,
                                       seq |-> sends + 1, at |-> "sent"]
<1>0. /\ PlaceTypes /\ SeqsDiffer /\ NothingWaits /\ LastHides /\ PaneFields(pane)
      /\ pane.revision \in Nat  BY DEF PlaceInv, PlaceTypes
<1>1. /\ f.at # "sent" /\ UNCHANGED surface
      /\ sends' = IF hide \/ next THEN sends + 1 ELSE sends
      /\ flights' = (flights \ {f}) \cup
           IF hide THEN {request("hidden", -1)}
           ELSE IF next THEN {request("shown", pane.revision)} ELSE {}
      /\ pane' = [freed EXCEPT !.latest = IF f.view = "shown" THEN None ELSE @,
                               !.flying = IF next THEN @ + 1 ELSE @,
                               !.retry = IF next THEN None ELSE @]  BY DEF M!PlaceAnswered
<1>2. /\ PaneFields(freed) /\ freed.revision = pane.revision /\ freed.alive = pane.alive
      /\ freed.key \in {pane.key, None} /\ freed.latest = pane.latest
      /\ f.view # "shown" \/ ~mine => freed.retry = pane.retry  BY <1>0 DEF PaneFields
<1> HIDE DEF freed
<1>3. /\ PaneFields(pane)' /\ pane'.revision = pane.revision /\ pane'.alive = pane.alive
      /\ pane'.key \in {pane.key, None} /\ pane'.latest \in {pane.latest, None}
      /\ f.view # "shown" \/ ~mine => pane'.retry \in {pane.retry, None}  BY <1>1, <1>2 DEF PaneFields
<1>4. pane.key = "hidden" \/ ~pane.alive => ~(hide \/ next)  BY <1>0 DEF NothingWaits, NoneIsNoPlace
<1>5. CASE hide \/ next
  <2>1. PICK n : /\ \A g \in flights' : g = n \/ g \in flights
                 /\ FlightFields(n) /\ n.seq = sends + 1 /\ n.at = "sent"
                 /\ n.revision \in {-1, pane.revision}
    <3>0. \A v, x : LET n == request(v, x)
                    IN  FlightFields(n) /\ n.seq = sends + 1 /\ n.at = "sent" /\ n.revision = x
      BY DEF FlightFields
    <3> HIDE DEF request
    <3>1. CASE hide
      <4>1. \A g \in flights' : g = request("hidden", -1) \/ g \in flights  BY <1>1, <3>1
      <4> QED BY <3>0, <4>1
    <3>2. CASE ~hide /\ next
      <4>1. \A g \in flights' : g = request("shown", pane.revision) \/ g \in flights  BY <1>1, <3>2
      <4> QED BY <3>0, <4>1
    <3> QED BY <1>5, <3>1, <3>2
  <2>2. PlaceTypes' /\ SeqsDiffer'  BY <1>0, <1>1, <1>3, <1>5, <2>1, SendStep
  <2>3. pane'.key # "hidden" /\ pane'.alive  BY <1>3, <1>4, <1>5 DEF NoneIsNoPlace
  <2> QED BY <2>2, <2>3 DEF PlaceInv, NothingWaits, LastHides
<1>6. CASE ~(hide \/ next)
  <2>1. sends' = sends /\ flights' = flights \ {f}  BY <1>1, <1>6
  <2>2. PlaceTypes' /\ SeqsDiffer'  BY <1>0, <1>1, <1>3, <2>1 DEF PlaceTypes, SeqsDiffer
  <2>3. NothingWaits'
    <3> SUFFICES ASSUME pane'.key = "hidden"
                 PROVE  /\ pane'.latest = None /\ pane'.retry = None
                        /\ \A g \in flights' : g.revision = pane'.revision => g.view = "hidden"
      BY DEF NothingWaits
    <3>1. pane.key = "hidden"  BY <1>3 DEF NoneIsNoPlace
    <3>2. f.view # "shown" \/ ~mine  BY <1>0, <3>1 DEF NothingWaits
    <3> QED BY <1>0, <1>3, <2>1, <3>1, <3>2 DEF NothingWaits
  <2>4. LastHides'
    <3>1. pane'.key = "hidden" \/ ~pane'.alive => pane.key = "hidden" \/ ~pane.alive  BY <1>3 DEF NoneIsNoPlace
    <3> QED BY <1>0, <1>1, <2>1, <3>1 DEF LastHides
  <2> QED BY <2>2, <2>3, <2>4 DEF PlaceInv
<1> QED BY <1>5, <1>6

(* At first nothing was asked for. *)
LEMMA PlaceStarts == NoneIsNoPlace /\ M!Init => PlaceInv
<1> SUFFICES ASSUME NoneIsNoPlace, M!Init PROVE PlaceInv  OBVIOUS
<1>1. /\ PaneFields(pane) /\ pane.revision = 0 /\ pane.key = None /\ pane.alive
      /\ flights = {} /\ surface.seq = 0 /\ sends = 0 /\ {"view", "seq"} \subseteq DOMAIN surface
  BY DEF M!Init, PaneFields
<1> QED BY <1>1 DEF PlaceInv, PlaceTypes, SeqsDiffer, NothingWaits, LastHides, NoneIsNoPlace

(* Every step keeps the order of the requests. *)
LEMMA PlaceSteps ==
  ASSUME NoneIsNoPlace, PlaceInv, [M!Next]_M!vars
  PROVE  PlaceInv'
<1>1. CASE UNCHANGED M!paneVars  BY <1>1 DEF M!paneVars, PlaceInv, PlaceTypes, SeqsDiffer, NothingWaits, LastHides
<1>2. CASE M!Watching \/ \E d \in M!Drafts : M!Edit(d)
  BY <1>1, <1>2
     DEF M!Watching, M!Edit, M!Apply, M!Leave, M!Screenshot, M!OpenSettings, M!CloseSettings,
         M!Record, M!Raise, M!Expire, M!Confirm, M!CallServed, M!CallAnswered, M!Poll,
         M!PollServed, M!PollAnswered, M!Answer, M!Unmount, M!Mount
<1>3. CASE UNCHANGED M!vars  BY <1>1, <1>3 DEF M!vars
<1> QED BY <1>2, <1>3, UpdateSteps, ResendSteps, LandStep, PlaceAnswer DEF M!Next, M!Placement

(* In whichever order the requests for a place land and are answered, and
   however often a show is tried again, a pane that is gone or must be
   hidden covers nothing once they have landed. *)
THEOREM GonePanesAreHidden ==
  ASSUME NoneIsNoPlace
  PROVE  M!Spec => []M!GonePaneIsHidden
<1>1. M!Init => PlaceInv  BY PlaceStarts
<1>2. PlaceInv /\ [M!Next]_M!vars => PlaceInv'  BY PlaceSteps
<1>3. PlaceInv => M!GonePaneIsHidden  BY DEF PlaceInv, LastHides, M!GonePaneIsHidden
<1> QED BY <1>1, <1>2, <1>3, PTL DEF M!Spec

----
(* The place of the official player.  One step of the panel is a chain of
   writes, so the first part of the invariant, ChainOK, speaks of the
   coordinator at any point of such a chain: what it asked for belongs to
   an epoch that the native side has begun, the numbers of this epoch's
   requests are unique and not ahead of the generation, and the one taken
   last is not out any more.  The second part is why nothing is uncovered
   again: while the panel is not there, the newest request is the hide,
   taken already or still on its way. *)

Fits(e, k) == e \in Nat /\ e <= native.epoch /\ (e = native.epoch => k = native.epoch)

AskShape(n) == {"view", "epoch", "owner", "rev", "attempt"} \subseteq DOMAIN n
AskOK(n, d, k) ==
  AskShape(n) /\ Fits(n.epoch, k) /\ n.rev \in Nat /\ n.rev <= d.revision
     /\ n.owner \in Nat /\ n.owner <= d.owner

DeskShape(d) ==
  /\ {"owner", "revision", "running", "pending", "target", "retry", "last"} \subseteq DOMAIN d
  /\ d.owner \in Nat /\ d.owner >= 1 /\ d.revision \in Nat

AsksOK(d, k) ==
  /\ d.target # None => AskOK(d.target, d, k)
  /\ d.pending # None => AskOK(d.pending, d, k)
  /\ d.retry # None => AskOK(d.retry, d, k)

FlightOK(f, d, g, k) ==
  /\ AskOK(f, d, k) /\ {"seq", "at", "result"} \subseteq DOMAIN f
  /\ f.seq \in Nat /\ f.seq >= 1
  /\ f.view = "hidden" => f.at # "tail" /\ f.result # "failed"
  /\ f.epoch = native.epoch => f.seq <= g /\ (f.at # "done" => f.seq # native.seq)

OneOfEach(F) ==
  \A f, h \in F : f.epoch = native.epoch /\ h.epoch = native.epoch /\ h.seq = f.seq => h = f

ChainOK(s, k) ==
  /\ {"d", "f", "g"} \subseteq DOMAIN s /\ s.g \in Nat /\ native.seq <= s.g
  /\ DeskShape(s.d) /\ AsksOK(s.d, k)
  /\ \A f \in s.f : FlightOK(f, s.d, s.g, k)
  /\ OneOfEach(s.f)

LastIsHide(F, g, k) ==
  \/ native.surface = "hidden" /\ (k = native.epoch => native.seq = g)
  \/ \E f \in F : /\ f.view = "hidden" /\ f.at = "sent" /\ f.seq = g
                  /\ f.epoch = k /\ k = native.epoch

NoShowWaits(d, F) ==
  /\ d.pending = None /\ d.retry = None
  /\ \A f \in F : S!Current(d, f) => f.view = "hidden"

ScreenTypes ==
  /\ {"live", "privacy", "stage"} \subseteq DOMAIN screen
  /\ {"surface", "seq", "epoch"} \subseteq DOMAIN native
  /\ known \in Nat /\ native.epoch \in Nat /\ native.seq \in Nat

StageInv ==
  /\ ScreenTypes /\ known <= native.epoch /\ ChainOK(S!Desk, known)
  /\ native.surface # "hidden" => known = native.epoch
  /\ ~S!Attached => /\ ~frame /\ NoShowWaits(desk, flights)
                    /\ LastIsHide(flights, generation, known)

(* The newest request that is a hide is not stale when it arrives. *)
LEMMA StageInvSuffices ==
  ASSUME StageInv
  PROVE  S!HiddenStaysHidden
<1>1. CASE ~S!Attached /\ native.surface # "hidden"
  <2>1. PICK f \in flights : f.view = "hidden" /\ f.at = "sent" /\ f.seq = generation
                             /\ f.epoch = native.epoch  BY <1>1 DEF StageInv, LastIsHide
  <2>2. native.seq \in Nat /\ generation \in Nat /\ native.seq <= generation
    BY DEF StageInv, ScreenTypes, ChainOK, S!Desk
  <2>3. ~S!Stale(f)  BY <2>1, <2>2 DEF S!Stale
  <2> QED BY <2>1, <2>3 DEF S!HiddenStaysHidden
<1> QED BY <1>1 DEF S!HiddenStaysHidden, S!Attached

(* write: the new request has the next number, so nothing else has it. *)
LEMMA WriteOK ==
  ASSUME ScreenTypes, NEW k, NEW s, ChainOK(s, k), NEW n, AskOK(n, s.d, k)
  PROVE  ChainOK(S!Write(s, n), k)
<1> DEFINE t == S!Write(s, n)
           m == S!Flight(n, s.g + 1)
<1>1. /\ {"d", "f", "g"} \subseteq DOMAIN t /\ t.f = s.f \cup {m} /\ t.g = s.g + 1
      /\ DOMAIN t.d = DOMAIN s.d /\ t.d.owner = s.d.owner /\ t.d.revision = s.d.revision
      /\ t.d.target = s.d.target /\ t.d.pending = s.d.pending /\ t.d.retry = s.d.retry
  BY DEF S!Write, ChainOK, DeskShape
<1>2. /\ DOMAIN m = {"view", "epoch", "owner", "rev", "attempt", "seq", "at", "result"}
      /\ m.view = n.view /\ m.epoch = n.epoch /\ m.owner = n.owner /\ m.rev = n.rev
      /\ m.seq = s.g + 1 /\ m.result = "ok" /\ (m.view = "hidden" => m.at = "sent")  BY DEF S!Flight
<1>3. s.g \in Nat /\ native.seq \in Nat /\ native.seq <= s.g  BY DEF ScreenTypes, ChainOK
<1> HIDE DEF t, m
<1>4. DeskShape(t.d) /\ AsksOK(t.d, k)  BY <1>1 DEF ChainOK, DeskShape, AsksOK, AskOK
<1>5. FlightOK(m, t.d, t.g, k)  BY <1>1, <1>2, <1>3 DEF FlightOK, AskOK, AskShape
<1>6. \A f \in s.f : FlightOK(f, t.d, t.g, k)  BY <1>1, <1>3 DEF ChainOK, FlightOK, AskOK
<1>7. OneOfEach(t.f)  BY <1>1, <1>2, <1>3 DEF ChainOK, OneOfEach, FlightOK
<1>8. ChainOK(t, k)  BY <1>1, <1>3, <1>4, <1>5, <1>6, <1>7 DEF ChainOK
<1> QED BY <1>8 DEF t

(* drain: at most one show goes out. *)
LEMMA DrainOK ==
  ASSUME ScreenTypes, NEW k, NEW s, ChainOK(s, k)
  PROVE  ChainOK(S!Drain(s), k)
<1>1. CASE s.d.running \/ s.d.pending = None  BY <1>1 DEF S!Drain
<1>2. CASE ~(s.d.running \/ s.d.pending = None)
  <2> DEFINE taken == [s EXCEPT !.d.pending = None]
             busy == [taken EXCEPT !.d.running = TRUE]
  <2>1. /\ DOMAIN taken = DOMAIN s /\ taken.f = s.f /\ taken.g = s.g
        /\ DOMAIN taken.d = DOMAIN s.d /\ taken.d.owner = s.d.owner
        /\ taken.d.revision = s.d.revision /\ taken.d.target = s.d.target
        /\ taken.d.pending = None /\ taken.d.retry = s.d.retry  BY DEF ChainOK, DeskShape
  <2>2. /\ DOMAIN busy = DOMAIN s /\ busy.f = s.f /\ busy.g = s.g
        /\ DOMAIN busy.d = DOMAIN s.d /\ busy.d.owner = s.d.owner
        /\ busy.d.revision = s.d.revision /\ busy.d.target = s.d.target
        /\ busy.d.pending = None /\ busy.d.retry = s.d.retry
    <3> HIDE DEF taken
    <3> QED BY <2>1 DEF ChainOK, DeskShape
  <2>3. S!Drain(s) = taken \/ S!Drain(s) = S!Write(busy, s.d.pending)  BY <1>2 DEF S!Drain
  <2> HIDE DEF taken, busy
  <2>4. ChainOK(taken, k)  BY <2>1 DEF ChainOK, DeskShape, AsksOK, AskOK, FlightOK
  <2>5. ChainOK(busy, k)  BY <2>2 DEF ChainOK, DeskShape, AsksOK, AskOK, FlightOK
  <2>6. AskOK(s.d.pending, busy.d, k)  BY <1>2, <2>2 DEF ChainOK, AsksOK, AskOK
  <2>7. ChainOK(S!Write(busy, s.d.pending), k)  BY <2>5, <2>6, WriteOK
  <2> QED BY <2>3, <2>4, <2>7
<1> QED BY <1>1, <1>2

(* submit: whatever was asked before is not current any more. *)
LEMMA SubmitOK ==
  ASSUME ScreenTypes, NEW k, NEW s, ChainOK(s, k), NEW view, NEW e, Fits(e, k)
  PROVE  /\ ChainOK(S!Submit(s, view, e, s.d.owner), k)
         /\ view = "hidden" =>
              LET t == S!Submit(s, view, e, s.d.owner)
              IN  /\ NoShowWaits(t.d, t.f)
                  /\ e = k /\ k = native.epoch => LastIsHide(t.f, t.g, k)
                  /\ t.d.owner = s.d.owner
                  /\ t.d.target # None => t.d.target.owner = s.d.owner
<1> DEFINE n == [view |-> view, epoch |-> e, owner |-> s.d.owner, rev |-> s.d.revision + 1,
                 attempt |-> 0]
           asked == [s EXCEPT !.d.revision = @ + 1, !.d.retry = None, !.d.target = n,
                              !.d.pending = None, !.d.last = None]
           waits == [asked EXCEPT !.d.pending = n]
<1>1. /\ DOMAIN n = {"view", "epoch", "owner", "rev", "attempt"} /\ n.view = view
      /\ n.epoch = e /\ n.owner = s.d.owner /\ n.rev = s.d.revision + 1  OBVIOUS
<1>s. S!Submit(s, view, e, s.d.owner) = IF view = "shown" THEN S!Drain(waits)
                                        ELSE S!Write(asked, n)  BY DEF S!Submit
<1> HIDE DEF n
<1>2. /\ DOMAIN asked = DOMAIN s /\ asked.f = s.f /\ asked.g = s.g
      /\ DOMAIN asked.d = DOMAIN s.d /\ asked.d.owner = s.d.owner
      /\ asked.d.revision = s.d.revision + 1 /\ asked.d.target = n
      /\ asked.d.pending = None /\ asked.d.retry = None  BY DEF ChainOK, DeskShape
<1>3. /\ DOMAIN waits = DOMAIN s /\ waits.f = s.f /\ waits.g = s.g
      /\ DOMAIN waits.d = DOMAIN s.d /\ waits.d.owner = s.d.owner
      /\ waits.d.revision = s.d.revision + 1 /\ waits.d.target = n
      /\ waits.d.pending = n /\ waits.d.retry = None
  <2> HIDE DEF asked
  <2> QED BY <1>2 DEF ChainOK, DeskShape
<1> HIDE DEF asked, waits
<1>4. s.d.revision \in Nat /\ s.d.owner \in Nat /\ s.g \in Nat  BY DEF ChainOK, DeskShape
<1>5. AskOK(n, asked.d, k) /\ AskOK(n, waits.d, k)  BY <1>1, <1>2, <1>3, <1>4 DEF AskOK, AskShape
<1>6. ChainOK(asked, k)
  <2>1. \A f \in asked.f : FlightOK(f, asked.d, asked.g, k)  BY <1>2, <1>4 DEF ChainOK, FlightOK, AskOK
  <2>2. DeskShape(asked.d) /\ AsksOK(asked.d, k)  BY <1>2, <1>4, <1>5 DEF ChainOK, DeskShape, AsksOK
  <2> QED BY <1>2, <2>1, <2>2 DEF ChainOK
<1>7. ChainOK(waits, k)
  <2>1. \A f \in waits.f : FlightOK(f, waits.d, waits.g, k)  BY <1>3, <1>4 DEF ChainOK, FlightOK, AskOK
  <2>2. DeskShape(waits.d) /\ AsksOK(waits.d, k)  BY <1>3, <1>4, <1>5 DEF ChainOK, DeskShape, AsksOK
  <2> QED BY <1>3, <2>1, <2>2 DEF ChainOK
<1>8. ChainOK(S!Submit(s, view, e, s.d.owner), k)  BY <1>5, <1>6, <1>7, <1>s, WriteOK, DrainOK
<1>9. ASSUME view = "hidden"
      PROVE  LET t == S!Submit(s, view, e, s.d.owner)
             IN  /\ NoShowWaits(t.d, t.f)
                 /\ e = k /\ k = native.epoch => LastIsHide(t.f, t.g, k)
                 /\ t.d.owner = s.d.owner
                 /\ t.d.target # None => t.d.target.owner = s.d.owner
  <2> DEFINE t == S!Write(asked, n)
             m == S!Flight(n, asked.g + 1)
  <2>1. S!Submit(s, view, e, s.d.owner) = t  BY <1>9, <1>s
  <2>2. /\ t.f = s.f \cup {m} /\ t.g = s.g + 1 /\ t.d.owner = s.d.owner
        /\ t.d.revision = s.d.revision + 1 /\ t.d.target = n
        /\ t.d.pending = None /\ t.d.retry = None  BY <1>2, <1>4 DEF S!Write, ChainOK, DeskShape
  <2>3. m.view = "hidden" /\ m.at = "sent" /\ m.epoch = e /\ m.seq = s.g + 1  BY <1>1, <1>2, <1>9 DEF S!Flight
  <2> HIDE DEF t, m
  <2>4. \A f \in s.f : f.rev \in Nat /\ f.rev <= s.d.revision  BY DEF ChainOK, FlightOK, AskOK
  <2>5. NoShowWaits(t.d, t.f)  BY <1>4, <2>2, <2>3, <2>4 DEF NoShowWaits, S!Current
  <2>6. e = k /\ k = native.epoch => LastIsHide(t.f, t.g, k)  BY <2>2, <2>3 DEF LastIsHide
  <2> QED BY <1>1, <2>1, <2>2, <2>5, <2>6
<1> QED BY <1>8, <1>9

(* update keeps the chain. *)
LEMMA UpdateOK ==
  ASSUME ScreenTypes, NEW k, NEW s, ChainOK(s, k), NEW view, NEW e, Fits(e, k)
  PROVE  ChainOK(S!Update(s, view, e), k)
<1>1. S!Update(s, view, e) = s \/ S!Update(s, view, e) = S!Submit(s, view, e, s.d.owner)  BY DEF S!Update
<1> QED BY <1>1, SubmitOK

(* A released claim leaves its target with an owner that is not the next one's. *)
LEMMA ReclaimOK ==
  ASSUME ScreenTypes, NEW s, ChainOK(s, known), known <= native.epoch
  PROVE  LET t == S!Claim(S!Release(s))
         IN  /\ ChainOK(t, known)
             /\ t.d.target # None => t.d.target.owner # t.d.owner
<1> DEFINE left == [s EXCEPT !.d.owner = @ + 1]
           e == IF s.d.target = None THEN known ELSE s.d.target.epoch
           r == S!Submit(left, "hidden", e, left.d.owner)
           t == S!Claim(r)
<1>1. S!Release(s) = r  BY DEF S!Release
<1>2. /\ DOMAIN left = DOMAIN s /\ left.f = s.f /\ left.g = s.g /\ DOMAIN left.d = DOMAIN s.d
      /\ left.d.owner = s.d.owner + 1 /\ left.d.revision = s.d.revision
      /\ left.d.target = s.d.target /\ left.d.pending = s.d.pending
      /\ left.d.retry = s.d.retry  BY DEF ChainOK, DeskShape
<1> HIDE DEF left
<1>3. s.d.owner \in Nat  BY DEF ChainOK, DeskShape
<1>4. ChainOK(left, known)
  <2>1. \A f \in left.f : FlightOK(f, left.d, left.g, known)  BY <1>2, <1>3 DEF ChainOK, FlightOK, AskOK
  <2>2. DeskShape(left.d) /\ AsksOK(left.d, known)  BY <1>2, <1>3 DEF ChainOK, DeskShape, AsksOK, AskOK
  <2> QED BY <1>2, <2>1, <2>2 DEF ChainOK
<1>5. Fits(e, known)  BY DEF ScreenTypes, ChainOK, AsksOK, AskOK, Fits
<1> HIDE DEF e
<1>6. /\ ChainOK(r, known) /\ r.d.owner = left.d.owner
      /\ r.d.target # None => r.d.target.owner = left.d.owner  BY <1>4, <1>5, SubmitOK
<1> HIDE DEF r
<1>7. /\ DOMAIN t = DOMAIN r /\ t.f = r.f /\ t.g = r.g /\ DOMAIN t.d = DOMAIN r.d
      /\ t.d.owner = r.d.owner + 1 /\ t.d.revision = r.d.revision + 1
      /\ t.d.target = r.d.target /\ t.d.pending = r.d.pending
      /\ t.d.retry = None  BY <1>6 DEF S!Claim, ChainOK, DeskShape
<1> HIDE DEF t
<1>8. r.d.owner \in Nat /\ r.d.revision \in Nat  BY <1>6 DEF ChainOK, DeskShape
<1>9. ChainOK(t, known)
  <2>1. \A f \in t.f : FlightOK(f, t.d, t.g, known)  BY <1>6, <1>7, <1>8 DEF ChainOK, FlightOK, AskOK
  <2>2. DeskShape(t.d) /\ AsksOK(t.d, known)  BY <1>6, <1>7, <1>8 DEF ChainOK, DeskShape, AsksOK, AskOK
  <2> QED BY <1>6, <1>7, <2>1, <2>2 DEF ChainOK
<1>10. t.d.target # None => t.d.target.owner # t.d.owner  BY <1>6, <1>7, <1>8
<1> QED BY <1>1, <1>9, <1>10 DEF t

(* What a chain of writes ends with is what the coordinator keeps. *)
LEMMA SettleOK ==
  ASSUME NEW k, NEW s, ChainOK(s, k), S!Settle(s), native' = native, known' = k
  PROVE  ChainOK(S!Desk, known)'
<1>1. S!Desk' = [d |-> s.d, f |-> s.f, g |-> s.g]  BY DEF S!Settle, S!Desk
<1>2. ChainOK([d |-> s.d, f |-> s.f, g |-> s.g], k)  BY DEF ChainOK
<1> DEFINE z == [d |-> s.d, f |-> s.f, g |-> s.g]
<1> HIDE DEF z
<1>3. ChainOK(z, k) => ChainOK(S!Desk, known)'
  BY <1>1 DEF z, ChainOK, DeskShape, AsksOK, AskOK, AskShape, Fits, FlightOK, OneOfEach
<1> QED BY <1>2, <1>3 DEF z

(* The layout effect runs again: the claim that leaves hides the surface, the
   new one asks again, and while the panel is not there it asks for a hide. *)
LEMMA ReattachOK ==
  ASSUME StageInv, NEW next, {"live", "privacy", "stage"} \subseteq DOMAIN next,
         NEW e, e \in {known, native.epoch}, S!Reattach(next, e)
  PROVE  StageInv'
<1>1. /\ screen' = next /\ known' = e /\ frame' = FALSE /\ native' = native
      /\ S!Settle(S!Update(S!Claim(S!Release(S!Desk)), S!Measured', e))  BY DEF S!Reattach
<1>2. PICK v : v = S!Measured'  OBVIOUS
<1>3. ~S!Attached' => v = "hidden"  BY <1>2 DEF S!Attached, S!Measured
<1> DEFINE s == S!Claim(S!Release(S!Desk))
<1>4. ScreenTypes /\ known <= native.epoch /\ ChainOK(S!Desk, known)  BY DEF StageInv
<1>5. ChainOK(s, known) /\ (s.d.target # None => s.d.target.owner # s.d.owner)  BY <1>4, ReclaimOK
<1> HIDE DEF s
<1>6. ChainOK(s, e) /\ Fits(e, e) /\ e \in Nat  BY <1>4, <1>5 DEF ScreenTypes, ChainOK, AsksOK, AskOK, FlightOK, Fits
<1> DEFINE t == S!Submit(s, v, e, s.d.owner)
<1>7. S!Update(s, v, e) = t  BY <1>5 DEF S!Update
<1>8. /\ ChainOK(t, e)
      /\ v = "hidden" => /\ NoShowWaits(t.d, t.f)
                         /\ e = native.epoch => LastIsHide(t.f, t.g, e)  BY <1>4, <1>6, SubmitOK
<1>9. S!Settle(t)  BY <1>1, <1>2, <1>7 DEF s
<1> HIDE DEF t
<1>10. ChainOK(S!Desk, known)'  BY <1>1, <1>8, <1>9, SettleOK
<1>11. ScreenTypes' /\ known' <= native'.epoch  BY <1>1, <1>4, <1>6 DEF ScreenTypes
<1>12. (native.surface # "hidden" => known = native.epoch)'  BY <1>1 DEF StageInv
<1>13. desk' = t.d /\ flights' = t.f /\ generation' = t.g  BY <1>9 DEF S!Settle
<1>14. v = "hidden" => LastIsHide(t.f, t.g, e)  BY <1>1, <1>8, <1>12 DEF LastIsHide
<1>15. (~S!Attached => /\ ~frame /\ NoShowWaits(desk, flights)
                       /\ LastIsHide(flights, generation, known))'
  BY <1>1, <1>3, <1>8, <1>13, <1>14 DEF NoShowWaits, LastIsHide, S!Current
<1> QED BY <1>10, <1>11, <1>12, <1>15 DEF StageInv

(* A step that only lets the attached panel ask again. *)
LEMMA MeasureOK ==
  ASSUME StageInv, NEW v, S!Settle(S!Update(S!Desk, v, known)), S!Attached',
         UNCHANGED <<known, native>>, {"live", "privacy", "stage"} \subseteq DOMAIN screen'
  PROVE  StageInv'
<1>1. ScreenTypes /\ known <= native.epoch /\ ChainOK(S!Desk, known) /\ Fits(known, known)
  BY DEF StageInv, ScreenTypes, Fits
<1>2. ChainOK(S!Update(S!Desk, v, known), known)  BY <1>1, UpdateOK
<1>3. ChainOK(S!Desk, known)'  BY <1>2, SettleOK
<1>4. ScreenTypes' /\ known' <= native'.epoch /\ (native.surface # "hidden" => known = native.epoch)'
  BY <1>1 DEF StageInv, ScreenTypes
<1> QED BY <1>3, <1>4 DEF StageInv

(* A show that has waited leaves, or is dropped because it was overtaken. *)
LEMMA DispatchOK ==
  ASSUME StageInv, NEW f \in flights, S!Dispatch(f)
  PROVE  StageInv'
<1> DEFINE m == [f EXCEPT !.at = IF f.seq = generation THEN "sent" ELSE "done"]
<1>0. /\ f.at = "tail" /\ flights' = (flights \ {f}) \cup {m}
      /\ UNCHANGED <<screen, known, frame, desk, generation, native>>  BY DEF S!Dispatch, S!panelVars
<1>1. ScreenTypes /\ known <= native.epoch /\ ChainOK(S!Desk, known)  BY DEF StageInv
<1>2. /\ S!Desk.d = desk /\ S!Desk.f = flights /\ S!Desk.g = generation
      /\ S!Desk'.d = desk' /\ S!Desk'.f = flights' /\ S!Desk'.g = generation'
      /\ {"d", "f", "g"} \subseteq DOMAIN S!Desk'  BY DEF S!Desk
<1>3. FlightOK(f, desk, generation, known)  BY <1>1, <1>2 DEF ChainOK
<1>4. /\ DOMAIN m = DOMAIN f /\ m.view = f.view /\ m.epoch = f.epoch /\ m.owner = f.owner
      /\ m.rev = f.rev /\ m.seq = f.seq /\ m.result = f.result /\ m.at \in {"sent", "done"}
  BY <1>3 DEF FlightOK, AskOK, AskShape
<1> HIDE DEF m
<1>5. FlightOK(m, desk, generation, known)  BY <1>0, <1>3, <1>4 DEF FlightOK, AskOK, AskShape
<1>6. \A h \in flights' : FlightOK(h, desk, generation, known)  BY <1>0, <1>1, <1>2, <1>5 DEF ChainOK
<1>7. OneOfEach(flights')  BY <1>0, <1>1, <1>2, <1>4 DEF ChainOK, OneOfEach
<1>8. ChainOK(S!Desk, known)'
  BY <1>0, <1>1, <1>2, <1>6, <1>7
     DEF ChainOK, DeskShape, AsksOK, AskOK, Fits, FlightOK, OneOfEach, AskShape
<1>9. (~S!Attached => /\ ~frame /\ NoShowWaits(desk, flights)
                      /\ LastIsHide(flights, generation, known))'
  BY <1>0, <1>3, <1>4 DEF StageInv, S!Attached, NoShowWaits, LastIsHide, S!Current, FlightOK
<1> QED BY <1>0, <1>1, <1>8, <1>9 DEF StageInv, ScreenTypes

(* set_viewport: a request that is taken is the newest one of its epoch that
   has arrived, so a show can only be taken while the hide is not. *)
LEMMA NativeServesOK ==
  ASSUME StageInv, NEW f \in flights, S!NativeServes(f)
  PROVE  StageInv'
<1>1. ScreenTypes /\ known <= native.epoch /\ ChainOK(S!Desk, known)  BY DEF StageInv
<1>2. /\ S!Desk.d = desk /\ S!Desk.f = flights /\ S!Desk.g = generation
      /\ S!Desk'.d = desk' /\ S!Desk'.f = flights' /\ S!Desk'.g = generation'
      /\ {"d", "f", "g"} \subseteq DOMAIN S!Desk'  BY DEF S!Desk
<1>3. FlightOK(f, desk, generation, known)  BY <1>1, <1>2 DEF ChainOK
<1>4. PICK result \in {"stale", "ok", "failed"} :
        /\ flights' = (flights \ {f}) \cup {[f EXCEPT !.at = "done", !.result = result]}
        /\ f.view = "hidden" => result # "failed"  BY DEF S!NativeServes
<1> DEFINE m == [f EXCEPT !.at = "done", !.result = result]
           seq == IF f.epoch = native.epoch THEN f.seq ELSE native.seq
<1>5. f.at = "sent" /\ UNCHANGED <<screen, known, frame, desk, generation>>  BY DEF S!NativeServes, S!panelVars
<1>6. \/ S!Stale(f) /\ native' = native
      \/ /\ ~S!Stale(f) /\ native' = [native EXCEPT !.surface = f.view, !.seq = seq]
      \/ /\ ~S!Stale(f) /\ f.view # "hidden"
         /\ native' = [native EXCEPT !.surface = "hidden", !.seq = seq]  BY DEF S!NativeServes
<1>7. /\ DOMAIN m = DOMAIN f /\ m.view = f.view /\ m.epoch = f.epoch /\ m.owner = f.owner
      /\ m.rev = f.rev /\ m.seq = f.seq /\ m.result = result /\ m.at = "done"
  BY <1>3 DEF FlightOK, AskOK, AskShape
<1>8. \/ S!Stale(f) /\ native' = native
      \/ /\ ~S!Stale(f) /\ DOMAIN native' = DOMAIN native /\ native'.epoch = native.epoch
         /\ native'.seq = seq /\ native'.surface \in {f.view, "hidden"}
         /\ f.view = "hidden" => native'.surface = "hidden"  BY <1>1, <1>6 DEF ScreenTypes
<1>9. seq \in Nat /\ generation \in Nat /\ seq <= generation  BY <1>1, <1>2, <1>3 DEF FlightOK, ScreenTypes, ChainOK
<1>10. /\ native'.epoch = native.epoch /\ DOMAIN native' = DOMAIN native
       /\ native'.seq \in Nat /\ native'.seq <= generation
       /\ native'.seq \in {native.seq, seq}  BY <1>1, <1>2, <1>8, <1>9 DEF ScreenTypes, ChainOK
<1>11. \A h \in flights \ {f} : h.epoch = native.epoch /\ h.at # "done" => h.seq # native'.seq
  <2> SUFFICES ASSUME NEW h \in flights \ {f}, h.epoch = native.epoch, h.at # "done"
               PROVE  h.seq # native'.seq  OBVIOUS
  <2>1. h.seq # native.seq  BY <1>1, <1>2 DEF ChainOK, FlightOK
  <2>2. f.epoch = native.epoch => h.seq # f.seq  BY <1>1, <1>2 DEF ChainOK, OneOfEach
  <2> QED BY <1>10, <2>1, <2>2
<1>a. flights' = (flights \ {f}) \cup {m}  BY <1>4
<1> HIDE DEF m, seq
<1>12. \A h \in flights' : FlightOK(h, desk, generation, known)'
  <2> SUFFICES ASSUME NEW h \in flights' PROVE FlightOK(h, desk, generation, known)'  OBVIOUS
  <2>1. CASE h = m  BY <1>3, <1>4, <1>5, <1>7, <1>10, <2>1 DEF FlightOK, AskOK, AskShape, Fits
  <2>2. CASE h \in flights \ {f}
    <3>1. FlightOK(h, desk, generation, known)  BY <1>1, <1>2, <2>2 DEF ChainOK
    <3> QED BY <1>5, <1>10, <1>11, <2>2, <3>1 DEF FlightOK, AskOK, AskShape, Fits
  <2> QED BY <1>4, <2>1, <2>2 DEF m
<1>13. OneOfEach(flights)'
  <2>1. OneOfEach(flights)  BY <1>1, <1>2 DEF ChainOK
  <2> QED BY <1>a, <1>7, <1>10, <2>1 DEF OneOfEach
<1>14. ChainOK(S!Desk, known)'
  <2>1. DeskShape(desk') /\ AsksOK(desk, known)'
    BY <1>1, <1>2, <1>5, <1>10 DEF ChainOK, DeskShape, AsksOK, AskOK, Fits
  <2> QED BY <1>2, <1>5, <1>9, <1>10, <1>12, <1>13, <2>1 DEF ChainOK
<1>15. (native.surface # "hidden" => known = native.epoch)'
  <2>1. CASE S!Stale(f) /\ native' = native  BY <1>5, <2>1 DEF StageInv
  <2>2. CASE ~S!Stale(f) /\ f.epoch = native.epoch  BY <1>3, <1>5, <1>10, <2>2 DEF FlightOK, AskOK, Fits
  <2>3. CASE ~S!Stale(f) /\ f.epoch # native.epoch  BY <1>5, <1>8, <2>3 DEF S!Stale
  <2> QED BY <1>8, <2>1, <2>2, <2>3
<1>16. ASSUME ~S!Attached
       PROVE  LastIsHide(flights, generation, known)'
  <2>0. LastIsHide(flights, generation, known)  BY <1>16 DEF StageInv
  <2>1. CASE native.surface = "hidden" /\ (known = native.epoch => native.seq = generation)
    <3>1. CASE S!Stale(f) /\ native' = native  BY <1>5, <2>1, <3>1 DEF LastIsHide
    <3>2. CASE ~S!Stale(f) /\ f.epoch = native.epoch
      <4>1. known = native.epoch /\ f.seq # native.seq /\ f.seq <= generation /\ f.seq \in Nat
        BY <1>3, <1>5, <3>2 DEF FlightOK, AskOK, Fits
      <4>2. native.seq = generation /\ ~(f.seq < native.seq)  BY <2>1, <3>2, <4>1 DEF S!Stale
      <4> QED BY <1>9, <4>1, <4>2
    <3>3. CASE ~S!Stale(f) /\ f.epoch # native.epoch
      <4>1. native'.surface = "hidden" /\ native'.seq = native.seq  BY <1>8, <3>3 DEF S!Stale, seq
      <4> QED BY <1>5, <1>10, <2>1, <4>1 DEF LastIsHide
    <3> QED BY <1>8, <3>1, <3>2, <3>3
  <2>2. CASE \E h \in flights : /\ h.view = "hidden" /\ h.at = "sent" /\ h.seq = generation
                                /\ h.epoch = known /\ known = native.epoch
    <3>1. PICK h \in flights : /\ h.view = "hidden" /\ h.at = "sent" /\ h.seq = generation
                               /\ h.epoch = known /\ known = native.epoch  BY <2>2
    <3>2. CASE h # f  BY <1>4, <1>5, <1>10, <3>1, <3>2 DEF LastIsHide
    <3>3. CASE h = f
      <4>1. native.seq \in Nat /\ native.seq <= generation  BY <1>1, <1>2 DEF ScreenTypes, ChainOK
      <4>2. ~S!Stale(f)  BY <1>9, <3>1, <3>3, <4>1 DEF S!Stale
      <4>3. native'.surface = "hidden" /\ native'.seq = generation  BY <1>8, <3>1, <3>3, <4>2 DEF seq
      <4> QED BY <1>5, <4>3 DEF LastIsHide
    <3> QED BY <3>2, <3>3
  <2> QED BY <2>0, <2>1, <2>2 DEF LastIsHide
<1>17. ASSUME ~S!Attached
       PROVE  ~frame' /\ NoShowWaits(desk, flights)'
  BY <1>4, <1>5, <1>7, <1>17 DEF StageInv, m, NoShowWaits, S!Current
<1>18. (~S!Attached => /\ ~frame /\ NoShowWaits(desk, flights)
                       /\ LastIsHide(flights, generation, known))'  BY <1>5, <1>16, <1>17 DEF S!Attached
<1>19. ScreenTypes' /\ known' <= native'.epoch  BY <1>1, <1>5, <1>10 DEF ScreenTypes
<1> QED BY <1>14, <1>15, <1>18, <1>19 DEF StageInv

(* The answer of a write: while the panel is not there, it is the answer of a
   hide or of something that was given up, and nothing follows it. *)
LEMMA AnsweredOK ==
  ASSUME StageInv, NEW f \in flights, S!Answered(f)
  PROVE  StageInv'
<1> DEFINE mine == S!Current(desk, f)
           freed == IF f.view = "shown" THEN [desk EXCEPT !.running = FALSE] ELSE desk
           noted == IF ~mine THEN freed
                    ELSE [freed EXCEPT !.last = IF f.result = "ok" THEN <<f.view, f.epoch>> ELSE None,
                                       !.retry = IF f.result = "failed" /\ f.attempt < 2
                                                 THEN [f EXCEPT !.attempt = @ + 1] ELSE @]
           after == [d |-> noted, f |-> flights \ {f}, g |-> generation]
           hide == [f EXCEPT !.view = "hidden", !.rev = 0, !.owner = 0]
           again == [f EXCEPT !.attempt = @ + 1]
           asks == mine /\ f.result # "ok" /\ f.view = "masked"
<1>0. /\ f.at = "done" /\ UNCHANGED <<screen, known, frame, native>>
      /\ S!Settle(S!Drain(IF asks THEN S!Write(after, hide) ELSE after))  BY DEF S!Answered, S!panelVars
<1>1. ScreenTypes /\ known <= native.epoch /\ ChainOK(S!Desk, known)  BY DEF StageInv
<1>2. S!Desk.d = desk /\ S!Desk.f = flights /\ S!Desk.g = generation  BY DEF S!Desk
<1>3. FlightOK(f, desk, generation, known) /\ DeskShape(desk) /\ AsksOK(desk, known)  BY <1>1, <1>2 DEF ChainOK
<1>4. AskOK(again, desk, known) /\ AskOK(hide, desk, known)
  <2>1. /\ DOMAIN again = DOMAIN f /\ again.epoch = f.epoch
        /\ again.rev = f.rev /\ again.owner = f.owner  BY <1>3 DEF FlightOK, AskOK, AskShape
  <2>2. DOMAIN hide = DOMAIN f /\ hide.epoch = f.epoch /\ hide.rev = 0 /\ hide.owner = 0
    BY <1>3 DEF FlightOK, AskOK, AskShape
  <2> HIDE DEF again, hide
  <2> QED BY <1>3, <2>1, <2>2 DEF FlightOK, AskOK, AskShape, DeskShape
<1> HIDE DEF again, hide
<1>5. /\ DOMAIN freed = DOMAIN desk /\ freed.owner = desk.owner
      /\ freed.revision = desk.revision /\ freed.target = desk.target
      /\ freed.pending = desk.pending /\ freed.retry = desk.retry  BY <1>3 DEF DeskShape
<1> HIDE DEF freed
<1>6. /\ DOMAIN noted = DOMAIN desk /\ noted.owner = desk.owner
      /\ noted.revision = desk.revision /\ noted.target = desk.target
      /\ noted.pending = desk.pending
      /\ noted.retry = desk.retry \/ (noted.retry = again /\ mine /\ f.result = "failed")
  BY <1>3, <1>5 DEF DeskShape, again
<1> HIDE DEF noted, mine
<1>7. ChainOK(after, known)
  <2>1. \A h \in after.f : FlightOK(h, after.d, after.g, known)  BY <1>1, <1>2, <1>6 DEF ChainOK, FlightOK, AskOK
  <2>2. DeskShape(after.d) /\ AsksOK(after.d, known)  BY <1>3, <1>4, <1>6 DEF DeskShape, AsksOK, AskOK
  <2>3. OneOfEach(after.f)  BY <1>1, <1>2 DEF ChainOK, OneOfEach
  <2> QED BY <1>1, <1>2, <2>1, <2>2, <2>3 DEF ChainOK
<1>8. after.d = noted /\ after.f = flights \ {f} /\ after.g = generation  OBVIOUS
<1> HIDE DEF after
<1>9. AskOK(hide, after.d, known)  BY <1>4, <1>6, <1>8 DEF AskOK
<1>10. ChainOK(S!Write(after, hide), known)  BY <1>1, <1>7, <1>9, WriteOK
<1> DEFINE t == IF asks THEN S!Write(after, hide) ELSE after
<1>11. ChainOK(t, known)  BY <1>7, <1>10
<1>12. S!Settle(S!Drain(t))  BY <1>0
<1>13. ~S!Attached => NoShowWaits(desk, flights) /\ LastIsHide(flights, generation, known)
                      /\ ~frame  BY DEF StageInv
<1>14. ASSUME ~S!Attached
       PROVE  S!Drain(t) = after /\ noted.retry = None
  <2>1. mine => f.view = "hidden" /\ f.result # "failed"  BY <1>3, <1>13, <1>14 DEF NoShowWaits, mine, FlightOK
  <2>2. noted.retry = None /\ noted.pending = None  BY <1>6, <1>13, <1>14, <2>1 DEF NoShowWaits
  <2>3. t = after  BY <2>1
  <2> QED BY <1>8, <2>2, <2>3 DEF S!Drain
<1> HIDE DEF t, asks
<1>15. ChainOK(S!Drain(t), known)  BY <1>1, <1>11, DrainOK
<1>16. ChainOK(S!Desk, known)'  BY <1>0, <1>12, <1>15, SettleOK
<1>17. ASSUME ~S!Attached
       PROVE  (~frame /\ NoShowWaits(desk, flights) /\ LastIsHide(flights, generation, known))'
  <2>1. desk' = noted /\ flights' = flights \ {f} /\ generation' = generation
    BY <1>8, <1>12, <1>14, <1>17 DEF S!Settle
  <2>2. NoShowWaits(desk, flights)'  BY <1>6, <1>13, <1>14, <1>17, <2>1 DEF NoShowWaits, S!Current
  <2>3. LastIsHide(flights, generation, known)'  BY <1>0, <1>13, <1>17, <2>1 DEF LastIsHide
  <2> QED BY <1>0, <1>13, <1>17, <2>2, <2>3
<1> QED BY <1>0, <1>1, <1>16, <1>17 DEF StageInv, ScreenTypes, S!Attached

(* Nobody looks at the answer. *)
LEMMA IgnoredOK ==
  ASSUME StageInv, NEW f \in flights, S!Ignored(f)
  PROVE  StageInv'
<1>0. /\ f.at = "done" /\ flights' = flights \ {f}
      /\ UNCHANGED <<screen, known, frame, desk, generation, native>>  BY DEF S!Ignored, S!panelVars
<1>1. ScreenTypes /\ known <= native.epoch /\ ChainOK(S!Desk, known)  BY DEF StageInv
<1>2. /\ S!Desk.d = desk /\ S!Desk.f = flights /\ S!Desk.g = generation
      /\ S!Desk'.d = desk' /\ S!Desk'.f = flights' /\ S!Desk'.g = generation'
      /\ {"d", "f", "g"} \subseteq DOMAIN S!Desk'  BY DEF S!Desk
<1>3. ChainOK(S!Desk, known)'
  BY <1>0, <1>1, <1>2
     DEF ChainOK, DeskShape, AsksOK, AskOK, AskShape, Fits, FlightOK, OneOfEach
<1>4. (~S!Attached => /\ ~frame /\ NoShowWaits(desk, flights)
                      /\ LastIsHide(flights, generation, known))'
  BY <1>0 DEF StageInv, S!Attached, NoShowWaits, LastIsHide, S!Current
<1> QED BY <1>0, <1>1, <1>3, <1>4 DEF StageInv, ScreenTypes

(* A show is tried again only while the panel that asked for it is there. *)
LEMMA RetryDueOK ==
  ASSUME StageInv, S!RetryDue
  PROVE  StageInv'
<1> DEFINE r == desk.retry
           next == [view |-> r.view, epoch |-> r.epoch, owner |-> r.owner, rev |-> r.rev,
                    attempt |-> r.attempt]
           given == [S!Desk EXCEPT !.d.retry = None]
           again == [S!Desk EXCEPT !.d.retry = None, !.d.target = next, !.d.pending = next]
<1>0. /\ desk.retry # None /\ UNCHANGED <<screen, known, frame, native>>
      /\ S!Settle(IF ~S!Current(desk, next) THEN given ELSE S!Drain(again))  BY DEF S!RetryDue, S!panelVars
<1>1. ScreenTypes /\ known <= native.epoch /\ ChainOK(S!Desk, known) /\ S!Attached  BY <1>0 DEF StageInv, NoShowWaits
<1>2. /\ S!Desk.d = desk /\ S!Desk.f = flights /\ S!Desk.g = generation
      /\ DOMAIN S!Desk = {"d", "f", "g"}  BY DEF S!Desk
<1>3. DeskShape(desk) /\ AsksOK(desk, known)  BY <1>1, <1>2 DEF ChainOK
<1>4. AskOK(next, desk, known)  BY <1>0, <1>3 DEF AsksOK, AskOK, AskShape
<1> HIDE DEF next, r
<1>5. /\ DOMAIN given = {"d", "f", "g"} /\ given.f = flights /\ given.g = generation
      /\ DOMAIN given.d = DOMAIN desk /\ given.d.owner = desk.owner
      /\ given.d.revision = desk.revision /\ given.d.target = desk.target
      /\ given.d.pending = desk.pending /\ given.d.retry = None  BY <1>2, <1>3 DEF DeskShape
<1>6. /\ DOMAIN again = {"d", "f", "g"} /\ again.f = flights /\ again.g = generation
      /\ DOMAIN again.d = DOMAIN desk /\ again.d.owner = desk.owner
      /\ again.d.revision = desk.revision /\ again.d.target = next
      /\ again.d.pending = next /\ again.d.retry = None  BY <1>2, <1>3 DEF DeskShape
<1> HIDE DEF given, again
<1>7. ChainOK(given, known)
  <2>1. \A f \in given.f : FlightOK(f, given.d, given.g, known)  BY <1>1, <1>2, <1>5 DEF ChainOK, FlightOK, AskOK
  <2>2. DeskShape(given.d) /\ AsksOK(given.d, known)  BY <1>3, <1>5 DEF DeskShape, AsksOK, AskOK
  <2> QED BY <1>1, <1>2, <1>5, <2>1, <2>2 DEF ChainOK
<1>8. ChainOK(again, known)
  <2>1. \A f \in again.f : FlightOK(f, again.d, again.g, known)  BY <1>1, <1>2, <1>6 DEF ChainOK, FlightOK, AskOK
  <2>2. DeskShape(again.d) /\ AsksOK(again.d, known)  BY <1>3, <1>4, <1>6 DEF DeskShape, AsksOK, AskOK
  <2> QED BY <1>1, <1>2, <1>6, <2>1, <2>2 DEF ChainOK
<1>9. ChainOK(S!Drain(again), known)  BY <1>1, <1>8, DrainOK
<1>10. ChainOK(S!Desk, known)'
  <2>1. CASE S!Settle(given)  BY <1>0, <1>7, <2>1, SettleOK
  <2>2. CASE S!Settle(S!Drain(again))  BY <1>0, <1>9, <2>2, SettleOK
  <2> QED BY <1>0, <2>1, <2>2
<1> QED BY <1>0, <1>1, <1>10 DEF StageInv, ScreenTypes, S!Attached

(* A reload hides the surface; what the old document sent belongs to an epoch
   that is over, and uncovers nothing. *)
LEMMA ReloadOK ==
  ASSUME StageInv, S!Reload
  PROVE  StageInv'
<1> DEFINE gone(f) == [f EXCEPT !.rev = 0, !.owner = 0]
           fresh == [S!NoDesk EXCEPT !.owner = 1, !.revision = 1]
<1>0. /\ native' = [surface |-> "hidden", seq |-> 0, epoch |-> native.epoch + 1]
      /\ screen' = [screen EXCEPT !.live = FALSE] /\ known' = 0 /\ frame' = FALSE
      /\ desk' = fresh /\ generation' = 0
      /\ flights' = {gone(f) : f \in {o \in flights : o.at = "sent"}}  BY DEF S!Reload
<1>1. ScreenTypes /\ ChainOK(S!Desk, known) /\ S!Desk.f = flights /\ S!Desk.d = desk
      /\ S!Desk.g = generation  BY DEF StageInv, S!Desk
<1>2. /\ native'.surface = "hidden" /\ native'.seq = 0 /\ native'.epoch = native.epoch + 1
      /\ DOMAIN native' = {"surface", "seq", "epoch"} /\ native.epoch \in Nat
      /\ DOMAIN screen' = DOMAIN screen /\ screen'.live = FALSE  BY <1>0, <1>1 DEF ScreenTypes
<1>3. /\ DOMAIN fresh = {"owner", "revision", "running", "pending", "target", "retry", "last"}
      /\ fresh.owner = 1 /\ fresh.revision = 1 /\ fresh.target = None /\ fresh.pending = None
      /\ fresh.retry = None  BY DEF S!NoDesk
<1>a. known' = 0 /\ frame' = FALSE /\ desk' = fresh /\ generation' = 0  BY <1>0
<1> HIDE DEF fresh
<1>4. ASSUME NEW h \in flights'
      PROVE  /\ FlightOK(h, desk, generation, known)' /\ h.epoch # native'.epoch
             /\ h.owner = 0
  <2>1. PICK f \in flights : f.at = "sent" /\ h = gone(f)  BY <1>0, <1>4
  <2>2. FlightOK(f, desk, generation, known)  BY <1>1 DEF ChainOK
  <2>3. /\ DOMAIN h = DOMAIN f /\ h.view = f.view /\ h.epoch = f.epoch /\ h.owner = 0
        /\ h.rev = 0 /\ h.seq = f.seq /\ h.result = f.result /\ h.at = f.at
    BY <2>1, <2>2 DEF FlightOK, AskOK, AskShape
  <2>4. f.epoch \in Nat /\ f.epoch # native.epoch + 1 /\ f.epoch <= native.epoch + 1
    BY <1>2, <2>2 DEF FlightOK, AskOK, Fits
  <2> QED BY <1>a, <1>2, <1>3, <2>2, <2>3, <2>4 DEF FlightOK, AskOK, AskShape, Fits
<1>5. ChainOK(S!Desk, known)'
  <2>1. /\ S!Desk'.d = desk' /\ S!Desk'.f = flights' /\ S!Desk'.g = generation'
        /\ {"d", "f", "g"} \subseteq DOMAIN S!Desk'  BY DEF S!Desk
  <2>2. DeskShape(desk') /\ AsksOK(desk, known)'  BY <1>a, <1>3 DEF DeskShape, AsksOK
  <2>3. OneOfEach(flights)'  BY <1>4 DEF OneOfEach
  <2> QED BY <1>a, <1>2, <1>4, <2>1, <2>2, <2>3 DEF ChainOK
<1>6. NoShowWaits(desk, flights)' /\ LastIsHide(flights, generation, known)'
  BY <1>a, <1>2, <1>3, <1>4 DEF NoShowWaits, LastIsHide, S!Current
<1>7. ScreenTypes' /\ known' <= native'.epoch /\ native'.surface = "hidden" /\ ~frame'
  BY <1>a, <1>1, <1>2 DEF ScreenTypes
<1> QED BY <1>5, <1>6, <1>7 DEF StageInv

LEMMA StageInvInit == S!Init => StageInv
<1> SUFFICES ASSUME S!Init PROVE StageInv  OBVIOUS
<1> DEFINE fresh == [S!NoDesk EXCEPT !.owner = 1, !.revision = 1]
<1>1. /\ DOMAIN fresh = {"owner", "revision", "running", "pending", "target", "retry", "last"}
      /\ fresh.owner = 1 /\ fresh.revision = 1 /\ fresh.target = None /\ fresh.pending = None
      /\ fresh.retry = None  BY DEF S!NoDesk
<1>2. desk = fresh  BY DEF S!Init
<1> HIDE DEF fresh
<1>3. /\ native.surface = "hidden" /\ native.seq = 0 /\ native.epoch = 0
      /\ flights = {} /\ generation = 0 /\ known = 0 /\ frame = FALSE /\ ScreenTypes
  BY DEF S!Init, ScreenTypes
<1>4. ChainOK(S!Desk, known)
  <2>1. /\ S!Desk.d = desk /\ S!Desk.f = flights /\ S!Desk.g = generation
        /\ {"d", "f", "g"} \subseteq DOMAIN S!Desk  BY DEF S!Desk
  <2> QED BY <1>1, <1>2, <1>3, <2>1 DEF ChainOK, DeskShape, AsksOK, OneOfEach
<1> QED BY <1>1, <1>2, <1>3, <1>4 DEF StageInv, NoShowWaits, LastIsHide

LEMMA StageInvStep == StageInv /\ [S!Next]_S!vars => StageInv'
<1> SUFFICES ASSUME StageInv, [S!Next]_S!vars PROVE StageInv'  OBVIOUS
<1>0. /\ {"live", "privacy", "stage"} \subseteq DOMAIN screen
      /\ ~S!Attached => ~frame  BY DEF StageInv, ScreenTypes
<1>1. CASE S!ToggleLive  BY <1>0, <1>1, ReattachOK DEF S!ToggleLive
<1>2. CASE S!TogglePrivacy  BY <1>0, <1>2, ReattachOK DEF S!TogglePrivacy
<1>3. CASE S!EpochKnown  BY <1>0, <1>3, ReattachOK DEF S!EpochKnown
<1>4. CASE S!Measure
  <2>1. /\ S!Settle(S!Update(S!Desk, S!Measured, known)) /\ UNCHANGED <<screen, known, native>>
        /\ S!Attached  BY <1>0, <1>4 DEF S!Measure
  <2> QED BY <1>0, <2>1, MeasureOK DEF S!Attached
<1>5. ASSUME NEW stage, S!StageChanges(stage)
      PROVE  StageInv'
  <2>1. S!Attached /\ screen' = [screen EXCEPT !.stage = stage] /\ UNCHANGED <<known, native>>
    BY <1>5 DEF S!StageChanges
  <2>2. S!Attached' /\ {"live", "privacy", "stage"} \subseteq DOMAIN screen'  BY <1>0, <2>1 DEF S!Attached
  <2>3. CASE stage = "covered"  BY <1>5, <2>1, <2>2, <2>3, MeasureOK DEF S!StageChanges
  <2>4. CASE stage # "covered"
    <3>1. UNCHANGED <<desk, flights, generation>>  BY <1>5, <2>4 DEF S!StageChanges
    <3>2. ChainOK(S!Desk, known)'
      BY <2>1, <3>1 DEF StageInv, ChainOK, DeskShape, AsksOK, AskOK, Fits, FlightOK, OneOfEach,
                        S!Desk
    <3> QED BY <2>1, <2>2, <3>2 DEF StageInv, ScreenTypes
  <2> QED BY <2>3, <2>4
<1>6. CASE S!Reload  BY <1>6, ReloadOK
<1>7. CASE S!RetryDue  BY <1>7, RetryDueOK
<1>8. ASSUME NEW f \in flights, S!Dispatch(f) \/ S!NativeServes(f) \/ S!Answered(f) \/ S!Ignored(f)
      PROVE  StageInv'  BY <1>8, DispatchOK, NativeServesOK, AnsweredOK, IgnoredOK
<1>9. CASE UNCHANGED S!vars
  BY <1>9 DEF S!vars, StageInv, ScreenTypes, ChainOK, DeskShape, AsksOK, AskOK, Fits, FlightOK,
              OneOfEach, S!Desk, S!Attached, NoShowWaits, LastIsHide, S!Current
<1> QED BY <1>1, <1>2, <1>3, <1>4, <1>5, <1>6, <1>7, <1>8, <1>9 DEF S!Next

(* While privacy is on, or the stage was left, the official player is only
   uncovered as long as the hide that was asked for is still on its way:
   whatever order the requests arrive in, however late, and whatever an
   earlier document left behind, no show is taken after the hide. *)
THEOREM PrivacyHolds == S!Spec => []S!HiddenStaysHidden
<1>1. StageInv => S!HiddenStaysHidden  BY StageInvSuffices
<1> QED BY <1>1, StageInvInit, StageInvStep, PTL DEF S!Spec

----
(* A recording that is watched again.  What the window owns is the session
   on screen and the one it has left; whatever the player has or was told
   of is one of the two, in that order. *)

LentTypes == [length : Nat, whole : BOOLEAN, offset : Offsets, ready : BOOLEAN]
TakenTypes == [token : Nat, length : Nat, whole : BOOLEAN, offset : Offsets, ready : BOOLEAN]
TimelineTypes == [token : Nat, offset : Offsets, ready : BOOLEAN]
DialogTypes == [up : BOOLEAN, session : TakenTypes \cup {None}, owned : SUBSET Nat, retired : SUBSET Nat,
                refreshing : BOOLEAN, asked : BOOLEAN, timeline : TimelineTypes \cup {None}, saving : BOOLEAN]
FrameTypes == [shown : BOOLEAN, ready : BOOLEAN, url : Nat \cup {None}, inbox : Seq(Nat), outbox : Seq(Nat)]
OpenTypes == [life : Nat, refresh : BOOLEAN, length : Nat, answer : Nat \cup {None}]
SaveTypes == [life : Nat, token : Nat, value : Offsets, answer : {None, "stored", "failed"}]
ReadTypes == [token : Nat, current : BOOLEAN, served : BOOLEAN, answer : TimelineTypes \cup {None}]

HostTypes ==
  /\ DOMAIN host = {"sessions", "made", "offset", "length", "whole"}
  /\ host.made \in Nat /\ host.offset \in Offsets /\ host.length \in Nat /\ host.whole \in BOOLEAN
  /\ R!Lent \in SUBSET Nat /\ \A t \in R!Lent : host.sessions[t] \in LentTypes

ReplayTypes ==
  /\ HostTypes /\ dialog \in DialogTypes /\ frame \in FrameTypes /\ life \in Nat
  /\ opens \in SUBSET OpenTypes /\ saves \in SUBSET SaveTypes /\ reads \in SUBSET ReadTypes
  /\ closes \in SUBSET Nat /\ mixed \in BOOLEAN

(* What the absent value stands in for is something else. *)
NothingIsLent == None \notin Nat /\ None \notin TakenTypes

Lends(c) == c.answer # None /\ c.answer # 0

(* A session is known in one place only. *)
OnePlace ==
  /\ \A t \in R!Lent : t # 0 /\ t <= host.made
  /\ dialog.owned \subseteq R!Lent
  /\ \A t \in closes : t <= host.made /\ t \notin dialog.owned
  /\ \A c \in opens : Lends(c) => c.answer \in R!Lent /\ c.answer \notin dialog.owned \cup closes
  /\ \A c, d \in opens : Lends(c) /\ c.answer = d.answer => c = d
  /\ \A t \in R!Lent : t \in dialog.owned \/ t \in closes \/ \E c \in opens : c.answer = t

(* One opening of this visit at most. *)
OneOpening ==
  \A c \in opens :
    /\ c.life <= life
    /\ R!Mine(c) =>
         /\ \A d \in opens : R!Mine(d) => d = c
         /\ IF c.refresh THEN dialog.session # None /\ dialog.refreshing /\ dialog.retired = {}
            ELSE dialog.session = None

Owning ==
  /\ ~dialog.up => dialog.session = None
  /\ dialog.session = None => dialog.owned = {} /\ dialog.retired = {} /\ dialog.timeline = None
  /\ dialog.session # None =>
       /\ dialog.owned = {dialog.session.token} \cup dialog.retired
       /\ dialog.session.token \notin dialog.retired
       /\ \A t, u \in dialog.retired : t = u

(* The player goes from the session left to the one on screen, and not back. *)
Playing ==
  /\ frame.ready => frame.shown
  /\ frame.shown => dialog.session # None
  /\ ~frame.ready => frame.inbox = <<>> /\ frame.url = None /\ frame.outbox = <<>>
  /\ frame.url # None => frame.url \in dialog.owned
  /\ \A i \in 1 .. Len(frame.inbox) : frame.inbox[i] \in dialog.owned
  /\ \A i \in 1 .. Len(frame.outbox) :
       /\ frame.outbox[i] <= host.made
       /\ \A c \in opens : Lends(c) => frame.outbox[i] # c.answer
  /\ dialog.session # None =>
       /\ \A i \in 1 .. Len(frame.outbox) : frame.outbox[i] = dialog.session.token =>
            frame.url = dialog.session.token
       /\ frame.url = dialog.session.token =>
            \A i \in 1 .. Len(frame.inbox) : frame.inbox[i] = dialog.session.token
       /\ \A i, j \in 1 .. Len(frame.inbox) : i < j /\ frame.inbox[i] = dialog.session.token =>
            frame.inbox[j] = dialog.session.token

(* A correction is asked for a session of its own visit. *)
Corrections ==
  \A c \in saves :
    /\ c.token # 0 /\ c.token <= host.made /\ c.life <= life
    /\ c.token \in dialog.owned => c.life = life
    /\ R!Mine(c) => dialog.session # None
    /\ \A d \in opens : d.answer # c.token

Counted(a) ==
  /\ a.token = dialog.session.token
  /\ (\A c \in saves : c.answer = "stored" => c.token # a.token) =>
       a.offset = host.sessions[a.token].offset

TimelineInv ==
  /\ \A r \in reads : r.current =>
       dialog.session # None /\ r.token = dialog.session.token /\ (r.answer # None => Counted(r.answer))
  /\ dialog.timeline # None => Counted(dialog.timeline)

(* As long as corrections and openings keep apart. *)
OffsetsAgree ==
  /\ dialog.session # None /\ saves = {} => dialog.session.offset = host.offset
  /\ \A c \in opens : Lends(c) => host.sessions[c.answer].offset = host.offset
  /\ dialog.session # None =>
       \A c \in saves :
         /\ dialog.saving /\ c.life = life /\ \A d \in saves : d = c
         /\ IF c.answer = "stored" THEN host.offset = c.value ELSE dialog.session.offset = host.offset

Apart == saves = {} \/ opens = {}
OffsetInv == ~mixed => Apart /\ OffsetsAgree

Leases == ReplayTypes /\ OnePlace /\ OneOpening /\ Owning /\ Playing
ReplayInv == Leases /\ Corrections /\ TimelineInv /\ OffsetInv

LEMMA ReplayInvInit ==
  ASSUME R!Init
  PROVE  ReplayInv
<1>1. PICK offset \in Offsets, whole \in BOOLEAN :
        host = [sessions |-> <<>>, made |-> 0, offset |-> offset, length |-> 1, whole |-> whole]
  BY DEF R!Init
<1>2. R!Lent = {}  BY <1>1 DEF R!Lent
<1>3. HostTypes  BY <1>1, <1>2 DEF HostTypes
<1>4. dialog = R!NoDialog /\ frame = R!NoFrame /\ life = 0 /\ opens = {} /\ saves = {} /\ reads = {} /\ closes = {} /\ mixed = FALSE
  BY DEF R!Init
<1>5. dialog \in DialogTypes /\ dialog.session = None /\ dialog.owned = {} /\ dialog.retired = {} /\ dialog.timeline = None
  BY <1>4 DEF R!NoDialog, DialogTypes
<1>6. frame \in FrameTypes /\ ~frame.shown /\ ~frame.ready /\ frame.inbox = <<>> /\ frame.outbox = <<>> /\ frame.url = None
  BY <1>4 DEF R!NoFrame, FrameTypes
<1>7. Len(<<>>) = 0  OBVIOUS
<1>8. ReplayTypes  BY <1>3, <1>4, <1>5, <1>6 DEF ReplayTypes
<1>9. OnePlace /\ OneOpening /\ Owning  BY <1>2, <1>4, <1>5 DEF OnePlace, OneOpening, Owning
<1>10. Playing  BY <1>4, <1>5, <1>6, <1>7 DEF Playing
<1> QED BY <1>4, <1>5, <1>8, <1>9, <1>10 DEF ReplayInv, Leases, Corrections, TimelineInv, OffsetInv, Apart, OffsetsAgree

(* What each part depends on: the session on screen, not all that is known of it. *)
SameSessions ==
  /\ dialog'.up = dialog.up /\ dialog'.owned = dialog.owned /\ dialog'.retired = dialog.retired
  /\ dialog'.refreshing = dialog.refreshing
  /\ dialog'.session = None <=> dialog.session = None
  /\ dialog.session # None => dialog'.session.token = dialog.session.token
  /\ dialog'.session = None => dialog'.timeline = None

LEMMA LeasesUntouched ==
  ASSUME Leases, ReplayTypes', SameSessions, UNCHANGED <<frame, life, opens, closes>>,
         R!Lent' = R!Lent, host'.made = host.made
  PROVE  Leases'
<1>1. OnePlace'  BY DEF Leases, OnePlace, SameSessions
<1>2. OneOpening'  BY DEF Leases, OneOpening, SameSessions, R!Mine
<1>3. Owning'  BY DEF Leases, Owning, SameSessions
<1>4. Playing'  BY DEF Leases, Playing, SameSessions
<1> QED BY <1>1, <1>2, <1>3, <1>4 DEF Leases

LEMMA CorrectionsUntouched ==
  ASSUME Corrections, UNCHANGED <<life, saves>>, host'.made = host.made,
         dialog'.owned \subseteq dialog.owned, dialog'.up => dialog.up,
         dialog'.up /\ dialog.session # None => dialog'.session # None,
         \A d \in opens', c \in saves : d.answer # c.token
  PROVE  Corrections'  BY DEF Corrections, R!Mine

(* A step in which corrections and openings meet says nothing; after the
   window is closed and all is answered, nothing is left to say. *)
LEMMA OffsetKeeps ==
  ASSUME OffsetInv, mixed \in BOOLEAN, R!Mixing, Owning',
         ~mixed /\ Apart /\ Apart' /\ OffsetsAgree => OffsetsAgree'
  PROVE  OffsetInv'
<1>1. CASE mixed'  BY <1>1 DEF OffsetInv
<1>2. CASE ~mixed'
  <2>1. Apart' /\ (~mixed \/ (~dialog'.up /\ saves' = {} /\ opens' = {}))  BY <1>2 DEF R!Mixing, Apart
  <2>2. CASE ~mixed  BY <2>1, <2>2 DEF OffsetInv
  <2>3. CASE mixed  BY <2>1, <2>3 DEF OffsetInv, OffsetsAgree, Owning
  <2> QED BY <2>2, <2>3
<1> QED BY <1>1, <1>2

----
(* The native side. *)

LEMMA CloseServedKeeps ==
  ASSUME ReplayInv, NEW t \in closes, R!CloseServed(t), R!Mixing
  PROVE  ReplayInv'
<1>0. Leases /\ ReplayTypes /\ HostTypes /\ OnePlace /\ Owning /\ Playing  BY DEF ReplayInv, Leases, ReplayTypes
<1>1. /\ host' = [host EXCEPT !.sessions = [u \in R!Lent \ {t} |-> host.sessions[u]]]
      /\ closes' = closes \ {t} /\ UNCHANGED <<dialog, frame, life, opens, saves, reads, saved>>
  BY DEF R!CloseServed
<1>2. /\ DOMAIN host' = DOMAIN host /\ host'.made = host.made /\ host'.offset = host.offset
      /\ host'.length = host.length /\ host'.whole = host.whole
      /\ host'.sessions = [u \in R!Lent \ {t} |-> host.sessions[u]]  BY <1>0, <1>1 DEF HostTypes
<1>3. R!Lent' = R!Lent \ {t} /\ \A u \in R!Lent' : host'.sessions[u] = host.sessions[u]  BY <1>2 DEF R!Lent
<1>4. HostTypes'  BY <1>0, <1>2, <1>3 DEF HostTypes
<1>5. mixed' \in BOOLEAN  BY <1>0, <1>1 DEF R!Mixing, ReplayTypes
<1>6. ReplayTypes'  BY <1>0, <1>1, <1>4, <1>5 DEF ReplayTypes
<1>7. OnePlace'  BY <1>0, <1>1, <1>2, <1>3 DEF OnePlace
<1>8. OneOpening' /\ Owning'  BY <1>0, <1>1 DEF Leases, OneOpening, Owning, R!Mine
<1>9. Playing'  BY <1>0, <1>1, <1>2 DEF Playing
<1>10. Corrections'  BY <1>1, <1>2 DEF ReplayInv, Corrections, R!Mine
<1>11. dialog.session # None => dialog.session.token # t  BY <1>0 DEF OnePlace, Owning
<1>12. TimelineInv'
  <2>1. dialog.session # None => dialog.session.token \in R!Lent'  BY <1>0, <1>3, <1>11 DEF OnePlace, Owning
  <2>2. \A a : dialog.session # None /\ Counted(a) => Counted(a)'  BY <1>1, <1>3, <2>1 DEF Counted
  <2> QED BY <1>0, <1>1, <2>2 DEF ReplayInv, TimelineInv, Owning
<1>13. OffsetInv'
  <2>1. ASSUME OffsetsAgree PROVE OffsetsAgree'
    <3>1. \A c \in opens : Lends(c) => c.answer \in R!Lent'  BY <1>0, <1>3 DEF OnePlace
    <3> QED BY <1>1, <1>2, <1>3, <2>1, <3>1 DEF OffsetsAgree
  <2> QED BY <1>0, <1>8, <2>1, OffsetKeeps DEF ReplayInv, ReplayTypes
<1> QED BY <1>6, <1>7, <1>8, <1>9, <1>10, <1>12, <1>13 DEF ReplayInv, Leases

LEMMA OpenServedKeeps ==
  ASSUME ReplayInv, NothingIsLent, NEW c \in opens, R!OpenServed(c), R!Mixing
  PROVE  ReplayInv'
<1>0. Leases /\ ReplayTypes /\ HostTypes /\ OnePlace /\ OneOpening /\ Owning /\ Playing /\ c \in OpenTypes
  BY DEF ReplayInv, Leases, ReplayTypes
<1>1. UNCHANGED <<dialog, frame, life, saves, reads, closes, saved>> /\ c.answer = None  BY DEF R!OpenServed
<1>2. mixed' \in BOOLEAN  BY <1>0, <1>1 DEF R!Mixing, ReplayTypes
<1>3. ASSUME NEW answer \in Nat, NEW d, d = [c EXCEPT !.answer = answer], opens' = (opens \ {c}) \cup {d}
      PROVE  /\ d \in OpenTypes /\ d.life = c.life /\ d.refresh = c.refresh /\ d.answer = answer
             /\ OneOpening'
  <2>1. d \in OpenTypes /\ d.life = c.life /\ d.refresh = c.refresh /\ d.answer = answer  BY <1>0, <1>3 DEF OpenTypes
  <2>2. d.life \in Nat /\ (R!Mine(d)' <=> R!Mine(c))  BY <1>0, <1>1, <2>1 DEF R!Mine, OpenTypes
  <2>3. \A e \in opens' : e = d \/ e \in opens  BY <1>3
  <2>4. \A e \in opens : R!Mine(e)' <=> R!Mine(e)  BY <1>1 DEF R!Mine
  <2>5. ASSUME NEW e \in opens', R!Mine(e)', NEW g \in opens', R!Mine(g)' PROVE e = g
    <3>1. (e = d /\ R!Mine(c)) \/ (e \in opens /\ R!Mine(e) /\ e # c)  BY <1>3, <2>2, <2>3, <2>4, <2>5
    <3>2. (g = d /\ R!Mine(c)) \/ (g \in opens /\ R!Mine(g) /\ g # c)  BY <1>3, <2>2, <2>3, <2>4, <2>5
    <3> QED BY <1>0, <3>1, <3>2 DEF OneOpening
  <2>6. ASSUME NEW e \in opens', R!Mine(e)'
        PROVE  IF e.refresh THEN dialog'.session # None /\ dialog'.refreshing /\ dialog'.retired = {}
               ELSE dialog'.session = None  BY <1>0, <1>1, <2>1, <2>2, <2>3, <2>4, <2>6 DEF OneOpening
  <2>7. \A e \in opens' : e.life <= life'  BY <1>0, <1>1, <2>1, <2>3 DEF OneOpening
  <2>8. OneOpening'  BY <2>5, <2>6, <2>7 DEF OneOpening
  <2> QED BY <2>1, <2>8
<1>4. CASE R!RefuseToLend(c)
  <2>1. PICK d : d = [c EXCEPT !.answer = 0]  OBVIOUS
  <2>2. opens' = (opens \ {c}) \cup {d} /\ host' = host  BY <1>4, <2>1 DEF R!RefuseToLend, R!Refused
  <2>3. d \in OpenTypes /\ d.answer = 0 /\ OneOpening'  BY <1>3, <2>1, <2>2
  <2>4. ReplayTypes' /\ R!Lent' = R!Lent  BY <1>0, <1>1, <1>2, <2>2, <2>3 DEF ReplayTypes, HostTypes, R!Lent
  <2>5. OnePlace'
    <3>1. \A e \in opens' : Lends(e) => e \in opens  BY <2>2, <2>3 DEF Lends
    <3>2. \A e \in opens : e # c => e \in opens'  BY <2>2
    <3>3. \A t \in R!Lent : t \in Nat /\ t # None  BY <1>0 DEF NothingIsLent, HostTypes
    <3>4. ASSUME NEW t \in R!Lent, t \notin dialog.owned, t \notin closes PROVE \E e \in opens' : e.answer = t
      <4>1. PICK e \in opens : e.answer = t  BY <1>0, <3>4 DEF OnePlace
      <4>2. e # c  BY <1>1, <3>3, <4>1
      <4> QED BY <3>2, <4>1, <4>2
    <3>5. /\ \A t \in R!Lent' : t # 0 /\ t <= host'.made
          /\ dialog'.owned \subseteq R!Lent'
          /\ \A t \in closes' : t <= host'.made /\ t \notin dialog'.owned
      BY <1>0, <1>1, <2>2, <2>4 DEF OnePlace
    <3>6. \A e \in opens' : Lends(e) => e.answer \in R!Lent' /\ e.answer \notin dialog'.owned \cup closes'
      BY <1>0, <1>1, <2>4, <3>1 DEF OnePlace
    <3>7. ASSUME NEW e \in opens', NEW g \in opens', Lends(e), e.answer = g.answer PROVE e = g
      <4>1. Lends(g)  BY <3>7 DEF Lends
      <4> QED BY <1>0, <3>1, <3>7, <4>1 DEF OnePlace
    <3>8. \A t \in R!Lent' : t \in dialog'.owned \/ t \in closes' \/ \E e \in opens' : e.answer = t
      BY <1>1, <2>4, <3>4
    <3> QED BY <3>5, <3>6, <3>7, <3>8 DEF OnePlace
  <2>6. Owning' /\ Playing'
    <3>1. \A e \in opens' : Lends(e) => e \in opens  BY <2>2, <2>3 DEF Lends
    <3> QED BY <1>0, <1>1, <2>2, <3>1 DEF Owning, Playing
  <2>7. Corrections'
    <3>1. \A e \in saves : e.token # 0  BY <1>0 DEF ReplayInv, Corrections
    <3> QED BY <1>1, <2>2, <2>3, <3>1 DEF ReplayInv, Corrections, R!Mine
  <2>8. TimelineInv'  BY <1>1, <2>2 DEF ReplayInv, TimelineInv, Counted
  <2>9. OffsetInv'
    <3>1. OffsetsAgree => OffsetsAgree'  BY <1>1, <2>2, <2>3 DEF OffsetsAgree, Lends
    <3> QED BY <1>0, <2>6, <3>1, OffsetKeeps DEF ReplayInv, ReplayTypes
  <2> QED BY <2>3, <2>4, <2>5, <2>6, <2>7, <2>8, <2>9 DEF ReplayInv, Leases
<1>5. CASE R!Lend(c)
  <2>1. PICK token \in Nat : token = host.made + 1  BY <1>0 DEF HostTypes
  <2>2. PICK d : d = [c EXCEPT !.answer = token]  OBVIOUS
  <2>3. /\ opens' = (opens \ {c}) \cup {d}
        /\ host' = [host EXCEPT !.made = token,
                    !.sessions = [t \in R!Lent \cup {token} |-> IF t = token THEN R!Session ELSE host.sessions[t]]]
    BY <1>0, <1>5, <2>1, <2>2 DEF R!Lend, HostTypes
  <2>4. /\ DOMAIN host' = DOMAIN host /\ host'.made = token /\ host'.offset = host.offset
        /\ host'.length = host.length /\ host'.whole = host.whole
        /\ host'.sessions = [t \in R!Lent \cup {token} |-> IF t = token THEN R!Session ELSE host.sessions[t]]
    BY <1>0, <2>3 DEF HostTypes
  <2>5. /\ R!Lent' = R!Lent \cup {token} /\ host'.sessions[token] = R!Session
        /\ \A t \in R!Lent : t # token /\ host'.sessions[t] = host.sessions[t]
    <3>1. \A t \in R!Lent : t \in Nat /\ t <= host.made  BY <1>0 DEF OnePlace, HostTypes
    <3>2. \A t \in R!Lent : t # token  BY <1>0, <2>1, <3>1 DEF HostTypes
    <3> QED BY <2>4, <3>2 DEF R!Lent
  <2>6. R!Session \in LentTypes /\ R!Session.offset = host.offset  BY <1>0 DEF R!Session, LentTypes, HostTypes
  <2>7. HostTypes'  BY <1>0, <2>1, <2>4, <2>5, <2>6 DEF HostTypes
  <2>8. d \in OpenTypes /\ d.answer = token /\ OneOpening'  BY <1>3, <2>2, <2>3
  <2>9. ReplayTypes'  BY <1>0, <1>1, <1>2, <2>3, <2>7, <2>8 DEF ReplayTypes
  <2>10. \A n \in Nat : n <= host.made => n <= token /\ n # token  BY <1>0, <2>1 DEF HostTypes
  <2>11. OnePlace'
    <3>1. \A t \in R!Lent' : t # 0 /\ t <= host'.made  BY <1>0, <2>1, <2>4, <2>5, <2>10 DEF OnePlace, HostTypes
    <3>2. \A t \in closes' : t <= host'.made /\ t \notin dialog'.owned /\ t # token
      BY <1>0, <1>1, <2>4, <2>10 DEF OnePlace, ReplayTypes
    <3>3. token \notin dialog.owned  BY <1>0, <2>5 DEF OnePlace
    <3>4. \A e \in opens' : e = d \/ (e \in opens /\ e # c)  BY <2>3
    <3>5. \A e \in opens : Lends(e) => e.answer # token  BY <1>0, <2>5 DEF OnePlace
    <3>6. \A e \in opens' : Lends(e) => e.answer \in R!Lent' /\ e.answer \notin dialog'.owned \cup closes'
      BY <1>0, <1>1, <2>5, <2>8, <3>2, <3>3, <3>4 DEF OnePlace
    <3>7. \A e, g \in opens' : Lends(e) /\ e.answer = g.answer => e = g
      <4>1. \A e \in opens : ~Lends(e) => e.answer # token
        <5>1. token # 0 /\ token # None  BY <1>0, <2>1 DEF NothingIsLent, HostTypes
        <5> QED BY <5>1 DEF Lends
      <4> QED BY <1>0, <2>8, <3>4, <3>5, <4>1 DEF OnePlace
    <3>8. \A t \in R!Lent' : t \in dialog'.owned \/ t \in closes' \/ \E e \in opens' : e.answer = t
      <4>1. ASSUME NEW t \in R!Lent' PROVE t \in dialog'.owned \/ t \in closes' \/ \E e \in opens' : e.answer = t
        <5>1. CASE t = token  BY <2>3, <2>8, <5>1
        <5>2. CASE t # token
          <6>1. t \in R!Lent /\ t # None  BY <1>0, <2>5, <5>2 DEF HostTypes, NothingIsLent
          <6>2. \A e \in opens : e.answer = t => e # c  BY <1>1, <6>1
          <6> QED BY <1>0, <1>1, <2>3, <6>1, <6>2 DEF OnePlace
        <5> QED BY <5>1, <5>2
      <4> QED BY <4>1
    <3>9. dialog'.owned \subseteq R!Lent'  BY <1>0, <1>1, <2>5 DEF OnePlace
    <3> QED BY <3>1, <3>2, <3>6, <3>7, <3>8, <3>9 DEF OnePlace
  <2>12. Owning'  BY <1>0, <1>1 DEF Owning
  <2>13. Playing'
    <3>1. \A i \in 1 .. Len(frame.outbox) : frame.outbox[i] \in Nat  BY <1>0 DEF ReplayTypes, FrameTypes
    <3>2. \A i \in 1 .. Len(frame.outbox) : frame.outbox[i] <= token  BY <1>0, <2>10, <3>1 DEF Playing
    <3>3. \A i \in 1 .. Len(frame.outbox), e \in opens' : Lends(e) => frame.outbox[i] # e.answer
      <4>1. \A e \in opens' : e = d \/ (e \in opens /\ e # c)  BY <2>3
      <4>2. \A i \in 1 .. Len(frame.outbox) : frame.outbox[i] # token  BY <1>0, <2>10, <3>1 DEF Playing
      <4> QED BY <1>0, <2>8, <4>1, <4>2 DEF Playing
    <3> QED BY <1>0, <1>1, <2>4, <3>2, <3>3 DEF Playing
  <2>14. Corrections'
    <3>1. \A e \in saves : e.token \in Nat /\ e.token <= host.made
      BY <1>0 DEF ReplayInv, Corrections, ReplayTypes, SaveTypes
    <3>2. \A e \in saves : e.token <= token /\ e.token # token  BY <2>10, <3>1
    <3> QED BY <1>1, <2>3, <2>4, <2>8, <3>2 DEF ReplayInv, Corrections, R!Mine
  <2>15. TimelineInv'
    <3>1. dialog.session # None => dialog.session.token \in R!Lent  BY <1>0 DEF OnePlace, Owning
    <3>2. \A a : dialog.session # None /\ Counted(a) => Counted(a)'  BY <1>1, <2>5, <3>1 DEF Counted
    <3> QED BY <1>0, <1>1, <3>2 DEF ReplayInv, TimelineInv, Owning
  <2>16. OffsetInv'
    <3>1. ASSUME OffsetsAgree PROVE OffsetsAgree'
      <4>1. \A e \in opens : Lends(e) => e.answer \in R!Lent  BY <1>0 DEF OnePlace
      <4>2. \A e \in opens' : Lends(e) => host'.sessions[e.answer].offset = host'.offset
        BY <2>3, <2>4, <2>5, <2>6, <2>8, <3>1, <4>1 DEF OffsetsAgree
      <4> QED BY <1>1, <2>4, <3>1, <4>2 DEF OffsetsAgree
    <3> QED BY <1>0, <2>12, <3>1, OffsetKeeps DEF ReplayInv, ReplayTypes
  <2> QED BY <2>8, <2>9, <2>11, <2>12, <2>13, <2>14, <2>15, <2>16 DEF ReplayInv, Leases
<1> QED BY <1>4, <1>5 DEF R!OpenServed

LEMMA SaveServedKeeps ==
  ASSUME ReplayInv, NothingIsLent, None # "stored", NEW c \in saves, R!SaveServed(c), R!Mixing
  PROVE  ReplayInv'
<1>0. Leases /\ ReplayTypes /\ HostTypes /\ OnePlace /\ Owning /\ Playing /\ Corrections /\ c \in SaveTypes
  BY DEF ReplayInv, Leases, ReplayTypes
<1>1. UNCHANGED <<dialog, frame, life, opens, reads, closes, saved>> /\ c.answer = None  BY DEF R!SaveServed
<1>2. mixed' \in BOOLEAN  BY <1>0, <1>1 DEF R!Mixing, ReplayTypes
<1>3. PICK answer, d :
        /\ answer \in {"stored", "failed"}
        /\ d = [c EXCEPT !.answer = answer] /\ saves' = (saves \ {c}) \cup {d}
        /\ (answer = "failed") => (host' = host)
        /\ (answer = "stored") => (/\ c.token \in R!Lent
                                  /\ host' = [host EXCEPT !.offset = c.value, !.sessions[c.token].offset = c.value])
  <2>1. PICK stored, failed : stored = [c EXCEPT !.answer = "stored"] /\ failed = [c EXCEPT !.answer = "failed"]
    OBVIOUS
  <2> QED BY <2>1 DEF R!SaveServed
<1>4. /\ d \in SaveTypes /\ d.life = c.life /\ d.token = c.token /\ d.value = c.value /\ d.answer = answer
  BY <1>0, <1>3 DEF SaveTypes
<1>5. /\ DOMAIN host' = DOMAIN host /\ host'.made = host.made /\ host'.length = host.length
      /\ host'.whole = host.whole /\ R!Lent' = R!Lent
      /\ \A t \in R!Lent : host'.sessions[t] \in LentTypes
      /\ \A t \in R!Lent : t # c.token => host'.sessions[t] = host.sessions[t]
      /\ host'.offset = IF answer = "stored" THEN c.value ELSE host.offset
  <2>1. CASE answer = "failed"  BY <1>0, <1>3, <2>1 DEF HostTypes, R!Lent
  <2>2. CASE answer = "stored"
    <3>1. host.sessions[c.token] \in LentTypes /\ c.value \in Offsets  BY <1>0, <1>3, <2>2 DEF HostTypes, SaveTypes
    <3>2. PICK s : s = [host.sessions[c.token] EXCEPT !.offset = c.value]  OBVIOUS
    <3>3. s \in LentTypes  BY <3>1, <3>2 DEF LentTypes
    <3>4. PICK all : all = [host.sessions EXCEPT ![c.token] = s]  OBVIOUS
    <3>5. host' = [host EXCEPT !.offset = c.value, !.sessions = all]  BY <1>0, <1>3, <2>2, <3>2, <3>4 DEF HostTypes
    <3>6. DOMAIN all = DOMAIN host.sessions /\ all[c.token] = s /\ \A t \in R!Lent : t # c.token => all[t] = host.sessions[t]
      BY <1>3, <2>2, <3>4 DEF R!Lent
    <3>7. /\ DOMAIN host' = DOMAIN host /\ host'.made = host.made /\ host'.length = host.length
          /\ host'.whole = host.whole /\ host'.offset = c.value /\ host'.sessions = all
      BY <1>0, <3>5 DEF HostTypes
    <3> QED BY <1>0, <2>2, <3>3, <3>6, <3>7 DEF HostTypes, R!Lent
  <2> QED BY <1>3, <2>1, <2>2
<1>6. HostTypes'  BY <1>0, <1>4, <1>5 DEF HostTypes, SaveTypes
<1>7. ReplayTypes'  BY <1>0, <1>1, <1>2, <1>3, <1>4, <1>6 DEF ReplayTypes
<1>8. Leases'  BY <1>0, <1>1, <1>5, <1>7, LeasesUntouched DEF SameSessions, Leases, Owning
<1>9. Corrections'
  <2>1. \A e \in saves' : e = d \/ e \in saves  BY <1>3
  <2>2. \A e \in saves : e.life \in Nat  BY <1>0 DEF ReplayTypes, SaveTypes
  <2> QED BY <1>0, <1>1, <1>4, <1>5, <2>1, <2>2 DEF Corrections, R!Mine
<1>10. TimelineInv'
  <2>1. dialog.session # None => dialog.session.token \in R!Lent  BY <1>0 DEF OnePlace, Owning
  <2>2. ASSUME NEW a, dialog.session # None, Counted(a) PROVE Counted(a)'
    <3>1. CASE answer = "failed"
      <4>1. (\A e \in saves' : e.answer = "stored" => e.token # a.token) => \A e \in saves : e.answer = "stored" => e.token # a.token
        BY <1>1, <1>3
      <4> QED BY <1>1, <1>3, <2>2, <3>1, <4>1 DEF Counted
    <3>2. CASE answer = "stored" /\ a.token = c.token
      <4>1. d \in saves' /\ d.answer = "stored" /\ d.token = a.token  BY <1>3, <1>4, <3>2
      <4> QED BY <1>1, <2>2, <4>1 DEF Counted
    <3>3. CASE answer = "stored" /\ a.token # c.token
      <4>1. host'.sessions[a.token] = host.sessions[a.token]  BY <1>5, <2>1, <2>2, <3>3 DEF Counted
      <4>2. (\A e \in saves' : e.answer = "stored" => e.token # a.token) => \A e \in saves : e.answer = "stored" => e.token # a.token
        BY <1>1, <1>3
      <4> QED BY <1>1, <2>2, <4>1, <4>2 DEF Counted
    <3> QED BY <1>3, <3>1, <3>2, <3>3
  <2> QED BY <1>0, <1>1, <2>2 DEF ReplayInv, TimelineInv, Owning
<1>11. OffsetInv'
  <2>1. Owning'  BY <1>8 DEF Leases
  <2>2. ASSUME Apart', OffsetsAgree PROVE OffsetsAgree'
    <3>1. opens' = {}  BY <1>3, <2>2 DEF Apart
    <3>2. dialog.session # None => saves' = {d}  BY <1>3, <2>2 DEF OffsetsAgree
    <3> QED BY <1>1, <1>3, <1>4, <1>5, <2>2, <3>1, <3>2 DEF OffsetsAgree
  <2> QED BY <1>0, <2>1, <2>2, OffsetKeeps DEF ReplayInv, ReplayTypes
<1> QED BY <1>8, <1>9, <1>10, <1>11 DEF ReplayInv

(* The index of the chat is built, and the recording goes on. *)
LEMMA HostGoesOnKeeps ==
  ASSUME ReplayInv, R!RecordingGoesOn \/ \E t \in R!Lent : R!IndexBuilt(t), R!Mixing
  PROVE  ReplayInv'
<1>0. Leases /\ ReplayTypes /\ HostTypes /\ OnePlace /\ Owning /\ Corrections  BY DEF ReplayInv, Leases, ReplayTypes
<1>1. UNCHANGED <<dialog, frame, life, opens, saves, reads, closes, saved>>  BY DEF R!RecordingGoesOn, R!IndexBuilt
<1>2. mixed' \in BOOLEAN  BY <1>0, <1>1 DEF R!Mixing, ReplayTypes
<1>3. /\ DOMAIN host' = DOMAIN host /\ host'.made = host.made /\ host'.length \in Nat /\ host'.whole \in BOOLEAN
      /\ host'.offset = host.offset /\ R!Lent' = R!Lent
      /\ \A t \in R!Lent : host'.sessions[t] \in LentTypes /\ host'.sessions[t].offset = host.sessions[t].offset
  <2>1. CASE R!RecordingGoesOn
    <3>1. PICK length \in Nat, whole \in BOOLEAN : host' = [host EXCEPT !.length = length, !.whole = whole]
      <4>1. host.length + 1 \in Nat  BY <1>0 DEF HostTypes
      <4>2. CASE host' = [host EXCEPT !.length = @ + 1]
        <5>1. host' = [host EXCEPT !.length = host.length + 1, !.whole = host.whole]  BY <1>0, <4>2 DEF HostTypes
        <5> QED BY <1>0, <4>1, <5>1 DEF HostTypes
      <4>3. CASE host' = [host EXCEPT !.whole = TRUE]
        <5>1. host' = [host EXCEPT !.length = host.length, !.whole = TRUE]  BY <1>0, <4>3 DEF HostTypes
        <5> QED BY <1>0, <5>1 DEF HostTypes
      <4> QED BY <2>1, <4>2, <4>3 DEF R!RecordingGoesOn
    <3> QED BY <1>0, <3>1 DEF HostTypes, R!Lent
  <2>2. ASSUME NEW t \in R!Lent, R!IndexBuilt(t)
        PROVE  /\ DOMAIN host' = DOMAIN host /\ host'.made = host.made /\ host'.length \in Nat /\ host'.whole \in BOOLEAN
               /\ host'.offset = host.offset /\ R!Lent' = R!Lent
               /\ \A u \in R!Lent : host'.sessions[u] \in LentTypes /\ host'.sessions[u].offset = host.sessions[u].offset
    <3>1. PICK s : s = [host.sessions[t] EXCEPT !.ready = TRUE]  OBVIOUS
    <3>2. s \in LentTypes /\ s.offset = host.sessions[t].offset  BY <1>0, <3>1 DEF HostTypes, LentTypes
    <3>3. PICK all : all = [host.sessions EXCEPT ![t] = s]  OBVIOUS
    <3>4. host' = [host EXCEPT !.sessions = all]  BY <1>0, <2>2, <3>1, <3>3 DEF R!IndexBuilt, HostTypes
    <3>5. DOMAIN all = DOMAIN host.sessions /\ all[t] = s /\ \A u \in R!Lent : u # t => all[u] = host.sessions[u]
      BY <3>3 DEF R!Lent
    <3>6. /\ DOMAIN host' = DOMAIN host /\ host'.made = host.made /\ host'.length = host.length
          /\ host'.whole = host.whole /\ host'.offset = host.offset /\ host'.sessions = all
      BY <1>0, <3>4 DEF HostTypes
    <3> QED BY <1>0, <3>2, <3>5, <3>6 DEF HostTypes, R!Lent
  <2> QED BY <2>1, <2>2
<1>4. ReplayTypes'  BY <1>0, <1>1, <1>2, <1>3 DEF ReplayTypes, HostTypes
<1>5. Leases'  BY <1>0, <1>1, <1>3, <1>4, LeasesUntouched DEF SameSessions, Leases, Owning
<1>6. Corrections'  BY <1>0, <1>1, <1>3 DEF Corrections, R!Mine
<1>7. TimelineInv'
  <2>1. dialog.session # None => dialog.session.token \in R!Lent  BY <1>0 DEF OnePlace, Owning
  <2>2. \A a : dialog.session # None /\ Counted(a) => Counted(a)'  BY <1>1, <1>3, <2>1 DEF Counted
  <2> QED BY <1>0, <1>1, <2>2 DEF ReplayInv, TimelineInv, Owning
<1>8. OffsetInv'
  <2>1. Owning'  BY <1>5 DEF Leases
  <2>2. \A c \in opens : Lends(c) => c.answer \in R!Lent  BY <1>0 DEF OnePlace
  <2>3. OffsetsAgree => OffsetsAgree'  BY <1>1, <1>3, <2>2 DEF OffsetsAgree
  <2> QED BY <1>0, <2>1, <2>3, OffsetKeeps DEF ReplayInv, ReplayTypes
<1> QED BY <1>5, <1>6, <1>7, <1>8 DEF ReplayInv

----
(* The timeline: only what is known of the session on screen may change. *)

LEMMA OnlyTheTimelineKeeps ==
  ASSUME ReplayInv, ReplayTypes', SameSessions, R!Mixing, TimelineInv',
         UNCHANGED <<host, frame, life, opens, saves, closes>>,
         dialog.session # None => dialog'.session.offset = dialog.session.offset,
         dialog'.saving = dialog.saving
  PROVE  ReplayInv'
<1>0. Leases /\ ReplayTypes /\ Corrections  BY DEF ReplayInv, Leases
<1>1. R!Lent' = R!Lent /\ host'.made = host.made  BY DEF R!Lent
<1>2. Leases'  BY <1>0, <1>1, LeasesUntouched
<1>3. Corrections'  BY <1>0 DEF Corrections, SameSessions, R!Mine
<1>4. OffsetInv'
  <2>1. Owning'  BY <1>2 DEF Leases
  <2>2. OffsetsAgree => OffsetsAgree'  BY DEF OffsetsAgree, SameSessions
  <2> QED BY <1>0, <2>1, <2>2, OffsetKeeps DEF ReplayInv, ReplayTypes
<1> QED BY <1>2, <1>3, <1>4 DEF ReplayInv

LEMMA TimelineServedKeeps ==
  ASSUME ReplayInv, NEW r \in reads, R!TimelineServed(r), R!Mixing
  PROVE  ReplayInv'
<1>0. Leases /\ ReplayTypes /\ HostTypes /\ OnePlace /\ Owning /\ TimelineInv /\ r \in ReadTypes
  BY DEF ReplayInv, Leases, ReplayTypes
<1>1. UNCHANGED <<host, dialog, frame, life, opens, saves, closes, saved>>  BY DEF R!TimelineServed
<1>2. mixed' \in BOOLEAN  BY <1>0, <1>1 DEF R!Mixing, ReplayTypes
<1>3. PICK answer, x :
        /\ answer = IF r.token \in R!Lent
                    THEN [token |-> r.token, offset |-> host.sessions[r.token].offset, ready |-> host.sessions[r.token].ready]
                    ELSE None
        /\ x = [r EXCEPT !.served = TRUE, !.answer = answer]
        /\ reads' = (reads \ {r}) \cup {x}  BY DEF R!TimelineServed
<1>4. answer \in TimelineTypes \cup {None}
  <2>1. CASE r.token \in R!Lent
    <3>1. host.sessions[r.token] \in LentTypes  BY <1>0, <2>1 DEF HostTypes
    <3> QED BY <1>0, <1>3, <2>1, <3>1 DEF TimelineTypes, LentTypes, ReadTypes
  <2>2. CASE r.token \notin R!Lent  BY <1>3, <2>2
  <2> QED BY <2>1, <2>2
<1>5. x \in ReadTypes /\ x.token = r.token /\ x.current = r.current /\ x.answer = answer
  BY <1>0, <1>3, <1>4 DEF ReadTypes
<1>6. ReplayTypes'  BY <1>0, <1>1, <1>2, <1>3, <1>5 DEF ReplayTypes, HostTypes, R!Lent
<1>7. \A a : Counted(a) => Counted(a)'  BY <1>1 DEF Counted
<1>8. x.current /\ x.answer # None => Counted(x.answer)'
  <2>1. ASSUME x.current, x.answer # None PROVE Counted(x.answer)'
    <3>1. dialog.session # None /\ r.token = dialog.session.token  BY <1>0, <1>5, <2>1 DEF TimelineInv
    <3>2. r.token \in R!Lent  BY <1>3, <1>5, <2>1
    <3>3. answer.token = r.token /\ answer.offset = host.sessions[r.token].offset  BY <1>3, <3>2
    <3> QED BY <1>1, <1>5, <3>1, <3>3 DEF Counted
  <2> QED BY <2>1
<1>9. TimelineInv'  BY <1>0, <1>1, <1>3, <1>5, <1>7, <1>8 DEF TimelineInv
<1>10. SameSessions  BY <1>0, <1>1 DEF SameSessions, Owning
<1> QED BY <1>1, <1>6, <1>9, <1>10, OnlyTheTimelineKeeps

(* What reading the timeline changes. *)
LEMMA LoadingKeepsTheSession ==
  ASSUME NEW d \in DialogTypes, NEW rs \in SUBSET ReadTypes, d.session # None, NothingIsLent, R!loadTimeline(d, rs)
  PROVE  /\ dialog' \in DialogTypes /\ reads' \in SUBSET ReadTypes
         /\ dialog'.up = d.up /\ dialog'.session = d.session /\ dialog'.owned = d.owned
         /\ dialog'.retired = d.retired /\ dialog'.refreshing = d.refreshing
         /\ dialog'.timeline = d.timeline /\ dialog'.saving = d.saving
         /\ \A r \in reads' : r.current => r \in rs \/ (r.token = d.session.token /\ r.answer = None)
<1>1. d.session \in TakenTypes /\ d.session.token \in Nat  BY DEF DialogTypes, TakenTypes
<1>2. CASE d.session.ready /\ ~d.asked
  <2>1. PICK fresh : fresh = [token |-> d.session.token, current |-> TRUE, served |-> FALSE, answer |-> None]  OBVIOUS
  <2>2. fresh \in ReadTypes /\ fresh.token = d.session.token /\ fresh.answer = None  BY <1>1, <2>1 DEF ReadTypes
  <2>3. dialog' = [d EXCEPT !.asked = TRUE] /\ reads' = {[r EXCEPT !.current = FALSE] : r \in rs} \cup {fresh}
    BY <1>2, <2>1 DEF R!loadTimeline
  <2>4. \A r \in rs : [r EXCEPT !.current = FALSE] \in ReadTypes /\ ~[r EXCEPT !.current = FALSE].current
    BY DEF ReadTypes
  <2>5. reads' \in SUBSET ReadTypes /\ \A r \in reads' : r.current => r = fresh  BY <2>2, <2>3, <2>4
  <2> QED BY <2>2, <2>3, <2>5 DEF DialogTypes
<1>3. CASE ~(d.session.ready /\ ~d.asked)  BY <1>3 DEF R!loadTimeline
<1> QED BY <1>2, <1>3

LEMMA IndexReadyKeeps ==
  ASSUME ReplayInv, NothingIsLent, R!indexReady, R!Mixing
  PROVE  ReplayInv'
<1>0. Leases /\ ReplayTypes /\ HostTypes /\ OnePlace /\ Owning /\ TimelineInv /\ dialog \in DialogTypes
  BY DEF ReplayInv, Leases, ReplayTypes
<1>1. UNCHANGED <<host, frame, life, opens, saves, closes, saved>> /\ dialog.session # None  BY DEF R!indexReady
<1>2. mixed' \in BOOLEAN  BY <1>0, <1>1 DEF R!Mixing, ReplayTypes
<1>3. dialog.session \in TakenTypes  BY <1>0, <1>1 DEF DialogTypes
<1>4. PICK s, d, rs : s = [dialog.session EXCEPT !.ready = TRUE] /\ d = [dialog EXCEPT !.session = s] /\ rs = reads
  OBVIOUS
<1>5. s \in TakenTypes /\ s # None /\ s.token = dialog.session.token /\ s.offset = dialog.session.offset
  BY <1>3, <1>4 DEF TakenTypes, NothingIsLent
<1>6. d \in DialogTypes  BY <1>0, <1>4, <1>5 DEF DialogTypes
<1>7. /\ d.session = s /\ d.up = dialog.up /\ d.owned = dialog.owned /\ d.retired = dialog.retired
      /\ d.refreshing = dialog.refreshing /\ d.timeline = dialog.timeline /\ d.saving = dialog.saving
  BY <1>0, <1>4 DEF DialogTypes
<1>8. rs \in SUBSET ReadTypes /\ d.session # None  BY <1>0, <1>4, <1>5, <1>7 DEF ReplayTypes
<1>9. R!loadTimeline(d, rs)
  <2>1. d = [dialog EXCEPT !.session.ready = TRUE]  BY <1>0, <1>4 DEF DialogTypes
  <2> QED BY <1>4, <2>1 DEF R!indexReady
<1>10. /\ dialog' \in DialogTypes /\ reads' \in SUBSET ReadTypes
       /\ dialog'.up = d.up /\ dialog'.session = d.session /\ dialog'.owned = d.owned
       /\ dialog'.retired = d.retired /\ dialog'.refreshing = d.refreshing
       /\ dialog'.timeline = d.timeline /\ dialog'.saving = d.saving
       /\ \A r \in reads' : r.current => r \in rs \/ (r.token = d.session.token /\ r.answer = None)
  BY <1>6, <1>8, <1>9, LoadingKeepsTheSession
<1>11. ReplayTypes'  BY <1>0, <1>1, <1>2, <1>10 DEF ReplayTypes, HostTypes, R!Lent
<1>12. SameSessions  BY <1>0, <1>1, <1>5, <1>7, <1>10 DEF SameSessions, Owning
<1>13. \A a : Counted(a) => Counted(a)'  BY <1>1, <1>5, <1>7, <1>10 DEF Counted
<1>14. TimelineInv'  BY <1>0, <1>1, <1>4, <1>5, <1>7, <1>10, <1>13 DEF TimelineInv
<1> QED BY <1>1, <1>5, <1>7, <1>10, <1>11, <1>12, <1>14, OnlyTheTimelineKeeps

LEMMA TimelineAnsweredKeeps ==
  ASSUME ReplayInv, NothingIsLent, NEW r \in reads, R!TimelineAnswered(r), R!Mixing
  PROVE  ReplayInv'
<1>0. Leases /\ ReplayTypes /\ HostTypes /\ OnePlace /\ Owning /\ TimelineInv /\ r \in ReadTypes /\ dialog \in DialogTypes
  BY DEF ReplayInv, Leases, ReplayTypes
<1>1. UNCHANGED <<host, frame, life, opens, saves, closes, saved>> /\ reads' = reads \ {r}  BY DEF R!TimelineAnswered
<1>2. mixed' \in BOOLEAN  BY <1>0, <1>1 DEF R!Mixing, ReplayTypes
<1>3. /\ dialog' \in DialogTypes
      /\ dialog'.session = dialog.session /\ dialog'.up = dialog.up /\ dialog'.owned = dialog.owned
      /\ dialog'.retired = dialog.retired /\ dialog'.refreshing = dialog.refreshing /\ dialog'.saving = dialog.saving
      /\ dialog'.timeline = dialog.timeline \/ (r.current /\ r.answer # None /\ dialog'.timeline = r.answer)
  <2>1. CASE ~r.current  BY <1>0, <2>1 DEF R!TimelineAnswered
  <2>2. CASE r.current /\ r.answer = None
    <3>1. dialog' = [dialog EXCEPT !.asked = FALSE]  BY <2>2 DEF R!TimelineAnswered
    <3> QED BY <1>0, <3>1 DEF DialogTypes
  <2>3. CASE r.current /\ r.answer # None
    <3>1. dialog' = [dialog EXCEPT !.timeline = r.answer, !.asked = r.answer.ready]  BY <2>3 DEF R!TimelineAnswered
    <3>2. r.answer \in TimelineTypes /\ r.answer.ready \in BOOLEAN  BY <1>0, <2>3 DEF ReadTypes, TimelineTypes
    <3>3. dialog' \in DialogTypes  BY <1>0, <3>1, <3>2 DEF DialogTypes
    <3> QED BY <1>0, <2>3, <3>1, <3>3 DEF DialogTypes
  <2> QED BY <2>1, <2>2, <2>3
<1>4. ReplayTypes'  BY <1>0, <1>1, <1>2, <1>3 DEF ReplayTypes, HostTypes, R!Lent
<1>5. SameSessions  BY <1>0, <1>1, <1>3 DEF SameSessions, Owning, TimelineInv
<1>6. \A a : Counted(a) => Counted(a)'  BY <1>1, <1>3 DEF Counted
<1>7. TimelineInv'  BY <1>0, <1>1, <1>3, <1>6 DEF TimelineInv
<1> QED BY <1>1, <1>3, <1>4, <1>5, <1>7, OnlyTheTimelineKeeps

----
(* The window: showing and hiding it. *)

LEMMA LateReadsAreLate ==
  ASSUME ReplayTypes
  PROVE  R!LateReads \in SUBSET ReadTypes /\ \A r \in R!LateReads : ~r.current
<1>1. \A r \in reads : [r EXCEPT !.current = FALSE] \in ReadTypes /\ ~[r EXCEPT !.current = FALSE].current
  BY DEF ReplayTypes, ReadTypes
<1> QED BY <1>1 DEF R!LateReads

LEMMA ShowKeeps ==
  ASSUME ReplayInv, NothingIsLent, R!Show, R!Mixing
  PROVE  ReplayInv'
<1>0. /\ Leases /\ ReplayTypes /\ HostTypes /\ OnePlace /\ OneOpening /\ Owning /\ Playing /\ Corrections
      /\ ~dialog.up /\ dialog.session = None /\ dialog.owned = {}
  BY DEF ReplayInv, Leases, ReplayTypes, R!Show, Owning
<1>1. UNCHANGED <<host, frame, saves, closes, saved>> /\ life' = life + 1 /\ reads' = R!LateReads  BY DEF R!Show
<1>2. PICK d : d = [life |-> life', refresh |-> FALSE, length |-> 0, answer |-> None]  OBVIOUS
<1>3. opens' = opens \cup {d} /\ dialog' = [R!NoDialog EXCEPT !.up = TRUE]  BY <1>2 DEF R!Show
<1>4. life' \in Nat /\ \A n \in Nat : n <= life => n <= life' /\ n # life'  BY <1>0, <1>1 DEF ReplayTypes
<1>5. d \in OpenTypes /\ d.life = life' /\ ~d.refresh /\ d.answer = None /\ ~Lends(d)
  BY <1>2, <1>4 DEF OpenTypes, Lends
<1>6. /\ dialog' \in DialogTypes /\ dialog'.up /\ dialog'.session = None /\ dialog'.owned = {}
      /\ dialog'.retired = {} /\ dialog'.timeline = None  BY <1>3 DEF R!NoDialog, DialogTypes
<1>7. reads' \in SUBSET ReadTypes /\ \A r \in reads' : ~r.current  BY <1>0, <1>1, LateReadsAreLate
<1>8. mixed' \in BOOLEAN  BY <1>0, <1>1 DEF R!Mixing, ReplayTypes
<1>9. ReplayTypes'  BY <1>0, <1>1, <1>3, <1>4, <1>5, <1>6, <1>7, <1>8 DEF ReplayTypes, HostTypes, R!Lent
<1>10. \A c \in opens : c.life # life' /\ c.life <= life'  BY <1>0, <1>4 DEF OneOpening, ReplayTypes, OpenTypes
<1>11. \A e \in opens' : e = d \/ e \in opens  BY <1>3
<1>12. OnePlace'
  <2>1. R!Lent' = R!Lent /\ host'.made = host.made  BY <1>1 DEF R!Lent
  <2>2. \A e, g \in opens' : Lends(e) /\ e.answer = g.answer => e = g  BY <1>0, <1>5, <1>11 DEF OnePlace, Lends
  <2>3. \A t \in R!Lent : t \in closes \/ \E e \in opens' : e.answer = t  BY <1>0, <1>3 DEF OnePlace
  <2> QED BY <1>0, <1>1, <1>5, <1>6, <1>11, <2>1, <2>2, <2>3 DEF OnePlace
<1>13. OneOpening'  BY <1>4, <1>5, <1>6, <1>10, <1>11 DEF OneOpening, R!Mine
<1>14. Owning'  BY <1>6 DEF Owning
<1>15. Playing'  BY <1>0, <1>1, <1>5, <1>6, <1>11 DEF Playing
<1>16. Corrections'
  <2>1. \A c \in saves : c.life \in Nat /\ c.token \in Nat  BY <1>0 DEF ReplayTypes, SaveTypes
  <2>2. \A c \in saves : c.life # life' /\ c.life <= life' /\ c.token # None
    BY <1>0, <1>4, <2>1 DEF Corrections, NothingIsLent
  <2> QED BY <1>0, <1>1, <1>5, <1>6, <1>11, <2>2 DEF Corrections, R!Mine
<1>17. TimelineInv'  BY <1>6, <1>7 DEF TimelineInv
<1>18. OffsetInv'
  <2>1. OffsetsAgree => OffsetsAgree'  BY <1>1, <1>5, <1>6, <1>11 DEF OffsetsAgree
  <2> QED BY <1>0, <1>14, <2>1, OffsetKeeps DEF ReplayInv, ReplayTypes
<1> QED BY <1>9, <1>12, <1>13, <1>14, <1>15, <1>16, <1>17, <1>18 DEF ReplayInv, Leases

LEMMA HideKeeps ==
  ASSUME ReplayInv, R!Hide, R!Mixing
  PROVE  ReplayInv'
<1>0. Leases /\ ReplayTypes /\ HostTypes /\ OnePlace /\ OneOpening /\ Owning /\ Playing /\ Corrections
  BY DEF ReplayInv, Leases, ReplayTypes
<1>1. /\ UNCHANGED <<host, life, opens, saves, saved>> /\ reads' = R!LateReads
      /\ closes' = closes \cup dialog.owned /\ dialog' = R!NoDialog /\ frame' = R!NoFrame  BY DEF R!Hide
<1>2. /\ dialog' \in DialogTypes /\ ~dialog'.up /\ dialog'.session = None /\ dialog'.owned = {}
      /\ dialog'.retired = {} /\ dialog'.timeline = None  BY <1>1 DEF R!NoDialog, DialogTypes
<1>3. /\ frame' \in FrameTypes /\ ~frame'.ready /\ ~frame'.shown /\ frame'.inbox = <<>> /\ frame'.outbox = <<>>
      /\ frame'.url = None  BY <1>1 DEF R!NoFrame, FrameTypes
<1>4. reads' \in SUBSET ReadTypes /\ \A r \in reads' : ~r.current  BY <1>0, <1>1, LateReadsAreLate
<1>5. mixed' \in BOOLEAN  BY <1>0, <1>1 DEF R!Mixing, ReplayTypes
<1>6. closes' \in SUBSET Nat  BY <1>0, <1>1 DEF ReplayTypes, DialogTypes
<1>7. ReplayTypes'  BY <1>0, <1>1, <1>2, <1>3, <1>4, <1>5, <1>6 DEF ReplayTypes, HostTypes, R!Lent
<1>8. OnePlace'
  <2>1. R!Lent' = R!Lent /\ host'.made = host.made  BY <1>1 DEF R!Lent
  <2>2. \A t \in closes' : t <= host'.made  BY <1>0, <1>1, <2>1 DEF OnePlace
  <2> QED BY <1>0, <1>1, <1>2, <2>1, <2>2 DEF OnePlace
<1>9. OneOpening' /\ Owning'  BY <1>0, <1>1, <1>2 DEF OneOpening, Owning, R!Mine
<1>10. Playing'
  <2>1. Len(<<>>) = 0  OBVIOUS
  <2> QED BY <1>2, <1>3, <2>1 DEF Playing
<1>11. Corrections'  BY <1>0, <1>1, <1>2 DEF Corrections, R!Mine
<1>12. TimelineInv'  BY <1>2, <1>4 DEF TimelineInv
<1>13. OffsetInv'
  <2>1. OffsetsAgree => OffsetsAgree'  BY <1>1, <1>2 DEF OffsetsAgree
  <2> QED BY <1>0, <1>9, <2>1, OffsetKeeps DEF ReplayInv, ReplayTypes
<1> QED BY <1>7, <1>8, <1>9, <1>10, <1>11, <1>12, <1>13 DEF ReplayInv, Leases

(* A session that nobody waits for is given back. *)
LEMMA GivenBackKeeps ==
  ASSUME ReplayInv, NEW c \in opens, opens' = opens \ {c}, R!Mixing,
         UNCHANGED <<host, frame, life, saves, reads, saved>>,
         closes' = IF Lends(c) THEN closes \cup {c.answer} ELSE closes,
         dialog' \in DialogTypes,
         dialog'.up = dialog.up, dialog'.session = dialog.session, dialog'.owned = dialog.owned,
         dialog'.retired = dialog.retired, dialog'.timeline = dialog.timeline, dialog'.saving = dialog.saving,
         dialog'.refreshing = dialog.refreshing \/ R!Mine(c), c.answer # None
  PROVE  ReplayInv'
<1>0. /\ Leases /\ ReplayTypes /\ HostTypes /\ OnePlace /\ OneOpening /\ Owning /\ Playing /\ Corrections
      /\ c \in OpenTypes  BY DEF ReplayInv, Leases, ReplayTypes
<1>1. R!Lent' = R!Lent /\ host'.made = host.made  BY DEF R!Lent
<1>2. mixed' \in BOOLEAN  BY <1>0 DEF R!Mixing, ReplayTypes
<1>3. c.answer \in Nat  BY <1>0 DEF OpenTypes
<1>4. ReplayTypes'  BY <1>0, <1>2, <1>3 DEF ReplayTypes, HostTypes, R!Lent
<1>5. \A e \in opens' : e \in opens /\ e # c  OBVIOUS
<1>6. OnePlace'
  <2>1. Lends(c) => c.answer \in R!Lent /\ c.answer \notin dialog.owned \cup closes  BY <1>0 DEF OnePlace
  <2>2. Lends(c) => c.answer <= host.made  BY <1>0, <2>1 DEF OnePlace
  <2>3. \A t \in closes' : t <= host.made /\ t \notin dialog.owned  BY <1>0, <2>1, <2>2 DEF OnePlace
  <2>4. \A e \in opens' : Lends(e) => e.answer \in R!Lent /\ e.answer \notin dialog.owned \cup closes'
    BY <1>0, <1>5 DEF OnePlace
  <2>5. ASSUME NEW t \in R!Lent, t \notin dialog.owned, t \notin closes' PROVE \E e \in opens' : e.answer = t
    <3>1. PICK e \in opens : e.answer = t  BY <1>0, <2>5 DEF OnePlace
    <3>2. t # 0  BY <1>0 DEF OnePlace
    <3>3. e # c  BY <2>5, <3>1, <3>2 DEF Lends
    <3> QED BY <3>1, <3>3
  <2> QED BY <1>0, <1>1, <1>5, <2>3, <2>4, <2>5 DEF OnePlace
<1>7. OneOpening'  BY <1>0, <1>5 DEF OneOpening, R!Mine
<1>8. Owning' /\ Playing'  BY <1>0, <1>1, <1>5 DEF Owning, Playing
<1>9. Corrections'  BY <1>0, <1>1, <1>5, CorrectionsUntouched DEF Corrections
<1>10. TimelineInv'  BY DEF ReplayInv, TimelineInv, Counted
<1>11. OffsetInv'
  <2>1. OffsetsAgree => OffsetsAgree'  BY <1>5 DEF OffsetsAgree
  <2> QED BY <1>0, <1>8, <2>1, OffsetKeeps DEF ReplayInv, ReplayTypes
<1> QED BY <1>4, <1>6, <1>7, <1>8, <1>9, <1>10, <1>11 DEF ReplayInv, Leases

(* A session that is waited for is shown; the one before it is kept until
   the player has let go of it. *)
LEMMA TakenKeeps ==
  ASSUME ReplayInv, NothingIsLent, NEW c \in opens, Lends(c), R!Mine(c), opens' = opens \ {c}, R!Mixing,
         UNCHANGED <<host, life, saves, closes, saved>>,
         dialog' \in DialogTypes, dialog'.up = dialog.up, dialog'.session = R!Taken(c.answer),
         dialog'.owned = dialog.owned \cup {c.answer},
         dialog'.retired = IF dialog.session = None THEN {} ELSE {dialog.session.token},
         dialog'.timeline = None, dialog.session # None => dialog.retired = {},
         reads' \in SUBSET ReadTypes, \A r \in reads' : ~r.current,
         frame' \in FrameTypes, Playing'
  PROVE  ReplayInv'
<1>0. /\ Leases /\ ReplayTypes /\ HostTypes /\ OnePlace /\ OneOpening /\ Owning /\ Corrections
      /\ c \in OpenTypes  BY DEF ReplayInv, Leases, ReplayTypes
<1>1. R!Lent' = R!Lent /\ host'.made = host.made  BY DEF R!Lent
<1>2. mixed' \in BOOLEAN  BY <1>0 DEF R!Mixing, ReplayTypes
<1>3. ReplayTypes'  BY <1>0, <1>2 DEF ReplayTypes, HostTypes, R!Lent
<1>4. \A e \in opens' : e \in opens /\ e # c  OBVIOUS
<1>5. c.answer \in R!Lent /\ c.answer \in Nat /\ c.answer \notin dialog.owned \cup closes
  BY <1>0 DEF OnePlace, HostTypes
<1>6. host.sessions[c.answer] \in LentTypes  BY <1>0, <1>5 DEF HostTypes
<1>7. /\ R!Taken(c.answer) \in TakenTypes /\ R!Taken(c.answer).token = c.answer
      /\ R!Taken(c.answer).offset = host.sessions[c.answer].offset
  BY <1>5, <1>6 DEF R!Taken, LentTypes, TakenTypes
<1>8. dialog'.session # None /\ dialog'.session.token = c.answer  BY <1>7 DEF NothingIsLent
<1>9. OnePlace'
  <2>1. \A e \in opens' : Lends(e) => e.answer \in R!Lent /\ e.answer \notin dialog'.owned \cup closes
    BY <1>0, <1>4 DEF OnePlace
  <2>2. ASSUME NEW t \in R!Lent, t \notin dialog'.owned, t \notin closes PROVE \E e \in opens' : e.answer = t
    <3>1. PICK e \in opens : e.answer = t  BY <1>0, <2>2 DEF OnePlace
    <3>2. e # c  BY <2>2, <3>1
    <3> QED BY <3>1, <3>2
  <2>3. \A t \in closes : t <= host.made /\ t \notin dialog'.owned  BY <1>0, <1>5 DEF OnePlace
  <2> QED BY <1>0, <1>1, <1>4, <1>5, <2>1, <2>2, <2>3 DEF OnePlace
<1>10. OneOpening'
  <2>1. \A e \in opens : R!Mine(e) => e = c  BY <1>0 DEF OneOpening
  <2>2. \A e \in opens' : ~R!Mine(e)'  BY <1>4, <2>1 DEF R!Mine
  <2> QED BY <1>0, <1>4, <2>2 DEF OneOpening
<1>11. Owning'
  <2>1. dialog.up  BY DEF R!Mine
  <2>2. CASE dialog.session = None  BY <1>0, <1>8, <2>1, <2>2 DEF Owning
  <2>3. CASE dialog.session # None
    <3>1. dialog.owned = {dialog.session.token}  BY <1>0, <2>3 DEF Owning
    <3> QED BY <1>5, <1>8, <2>1, <2>3, <3>1 DEF Owning
  <2> QED BY <2>2, <2>3
<1>12. Corrections'
  <2>1. \A e \in saves : e.token # c.answer  BY <1>0 DEF Corrections
  <2>2. \A e \in saves : e.token \in dialog'.owned => e.life = life  BY <1>0, <2>1 DEF Corrections
  <2> QED BY <1>0, <1>1, <1>4, <1>8, <2>2 DEF Corrections
<1>13. TimelineInv'  BY DEF TimelineInv
<1>14. OffsetInv'
  <2>1. ASSUME Apart, OffsetsAgree PROVE OffsetsAgree'
    <3>1. saves = {}  BY <2>1 DEF Apart
    <3>2. dialog'.session.offset = host.offset  BY <1>7, <2>1 DEF OffsetsAgree
    <3> QED BY <1>4, <2>1, <3>1, <3>2 DEF OffsetsAgree
  <2> QED BY <1>0, <1>11, <2>1, OffsetKeeps DEF ReplayInv, ReplayTypes
<1> QED BY <1>3, <1>9, <1>10, <1>11, <1>12, <1>13, <1>14 DEF ReplayInv, Leases

LEMMA TakenIsKnown ==
  ASSUME HostTypes, NothingIsLent
  PROVE  \A t \in R!Lent : R!Taken(t) \in TakenTypes /\ R!Taken(t) # None /\ R!Taken(t).token = t
<1>1. ASSUME NEW t \in R!Lent PROVE R!Taken(t) \in TakenTypes /\ R!Taken(t).token = t
  <2>1. host.sessions[t] \in LentTypes /\ t \in Nat  BY DEF HostTypes
  <2> QED BY <2>1 DEF R!Taken, LentTypes, TakenTypes
<1> QED BY <1>1 DEF NothingIsLent

LEMMA OpenedKeeps ==
  ASSUME ReplayInv, NothingIsLent, NEW c \in opens, R!Opened(c), R!Mixing
  PROVE  ReplayInv'
<1>0. /\ Leases /\ ReplayTypes /\ HostTypes /\ OnePlace /\ OneOpening /\ Owning /\ Playing /\ TimelineInv
      /\ c \in OpenTypes /\ dialog \in DialogTypes  BY DEF ReplayInv, Leases, ReplayTypes
<1>1. /\ opens' = opens \ {c} /\ UNCHANGED <<host, life, saves, reads, saved>> /\ c.answer # None /\ ~c.refresh
  BY DEF R!Opened
<1>2. CASE c.answer = 0 \/ ~R!Mine(c)
  <2>1. UNCHANGED <<dialog, frame>> /\ closes' = IF Lends(c) THEN closes \cup {c.answer} ELSE closes
    BY <1>1, <1>2 DEF R!Opened, R!Refused, Lends
  <2> QED BY <1>0, <1>1, <2>1, GivenBackKeeps
<1>3. CASE c.answer # 0 /\ R!Mine(c)
  <2>1. /\ dialog' = [dialog EXCEPT !.session = R!Taken(c.answer), !.owned = dialog.owned \cup {c.answer}]
        /\ frame' = [R!NoFrame EXCEPT !.shown = TRUE] /\ UNCHANGED closes
    BY <1>1, <1>3 DEF R!Opened, R!Refused
  <2>2. Lends(c) /\ dialog.session = None /\ dialog.retired = {} /\ dialog.timeline = None /\ dialog.owned = {}
    BY <1>0, <1>1, <1>3 DEF Lends, OneOpening, Owning
  <2>3. c.answer \in R!Lent /\ c.answer \in Nat  BY <1>0, <2>2 DEF OnePlace, HostTypes
  <2>4. R!Taken(c.answer) \in TakenTypes /\ R!Taken(c.answer) # None  BY <1>0, <2>3, TakenIsKnown
  <2>5. dialog' \in DialogTypes
    <3>1. PICK s, o : s = R!Taken(c.answer) /\ o = dialog.owned \cup {c.answer}  OBVIOUS
    <3>2. s \in TakenTypes /\ o \in SUBSET Nat /\ dialog' = [dialog EXCEPT !.session = s, !.owned = o]
      BY <1>0, <2>1, <2>3, <2>4, <3>1 DEF DialogTypes
    <3> QED BY <1>0, <3>2 DEF DialogTypes
  <2>6. /\ dialog'.up = dialog.up /\ dialog'.session = R!Taken(c.answer)
        /\ dialog'.owned = dialog.owned \cup {c.answer} /\ dialog'.retired = dialog.retired
        /\ dialog'.timeline = dialog.timeline  BY <1>0, <2>1 DEF DialogTypes
  <2>7. /\ frame' \in FrameTypes /\ ~frame'.ready /\ frame'.inbox = <<>> /\ frame'.outbox = <<>>
        /\ frame'.url = None
    <3>1. frame' = [shown |-> TRUE, ready |-> FALSE, url |-> None, inbox |-> <<>>, outbox |-> <<>>]
      BY <2>1 DEF R!NoFrame
    <3>2. <<>> \in Seq(Nat)  OBVIOUS
    <3> QED BY <3>1, <3>2 DEF FrameTypes
  <2>8. Playing'
    <3>1. Len(<<>>) = 0  OBVIOUS
    <3> QED BY <2>4, <2>6, <2>7, <3>1 DEF Playing
  <2>9. reads' \in SUBSET ReadTypes /\ \A r \in reads' : ~r.current  BY <1>0, <1>1, <2>2 DEF TimelineInv, ReplayTypes
  <2> QED BY <1>0, <1>1, <1>3, <2>1, <2>2, <2>5, <2>6, <2>7, <2>8, <2>9, TakenKeeps
<1> QED BY <1>2, <1>3

LEMMA RefreshedKeeps ==
  ASSUME ReplayInv, NothingIsLent, NEW c \in opens, R!Refreshed(c), R!Mixing
  PROVE  ReplayInv'
<1>0. /\ Leases /\ ReplayTypes /\ HostTypes /\ OnePlace /\ OneOpening /\ Owning /\ Playing /\ TimelineInv
      /\ c \in OpenTypes /\ dialog \in DialogTypes /\ frame \in FrameTypes
  BY DEF ReplayInv, Leases, ReplayTypes
<1>1. /\ opens' = opens \ {c} /\ UNCHANGED <<host, life, saves, saved>> /\ c.answer # None /\ c.refresh
  BY DEF R!Refreshed
<1>2. CASE c.answer = 0
  <2>1. UNCHANGED <<frame, reads, closes>> /\ ~Lends(c)  BY <1>1, <1>2 DEF R!Refreshed, R!Refused, Lends
  <2>2. dialog' = IF R!Mine(c) THEN [dialog EXCEPT !.refreshing = FALSE] ELSE dialog
    BY <1>1, <1>2 DEF R!Refreshed, R!Refused
  <2>3. /\ dialog' \in DialogTypes
        /\ dialog'.up = dialog.up /\ dialog'.session = dialog.session /\ dialog'.owned = dialog.owned
        /\ dialog'.retired = dialog.retired /\ dialog'.timeline = dialog.timeline /\ dialog'.saving = dialog.saving
        /\ dialog'.refreshing = dialog.refreshing \/ R!Mine(c)  BY <1>0, <2>2 DEF DialogTypes
  <2> QED BY <1>0, <1>1, <2>1, <2>3, GivenBackKeeps
<1>3. CASE c.answer # 0 /\ ~R!Mine(c)
  <2>1. UNCHANGED <<dialog, frame, reads>> /\ closes' = closes \cup {c.answer} /\ Lends(c)
    BY <1>1, <1>3 DEF R!Refreshed, R!Refused, Lends
  <2> QED BY <1>0, <1>1, <2>1, GivenBackKeeps
<1>4. CASE c.answer # 0 /\ R!Mine(c) /\ R!Taken(c.answer).length <= c.length /\ ~R!Taken(c.answer).whole
  <2>1. /\ UNCHANGED <<frame, reads>> /\ closes' = closes \cup {c.answer} /\ Lends(c)
        /\ dialog' = [dialog EXCEPT !.refreshing = FALSE]  BY <1>1, <1>4 DEF R!Refreshed, R!Refused, Lends
  <2>2. /\ dialog' \in DialogTypes
        /\ dialog'.up = dialog.up /\ dialog'.session = dialog.session /\ dialog'.owned = dialog.owned
        /\ dialog'.retired = dialog.retired /\ dialog'.timeline = dialog.timeline /\ dialog'.saving = dialog.saving
    BY <1>0, <2>1 DEF DialogTypes
  <2> QED BY <1>0, <1>1, <1>4, <2>1, <2>2, GivenBackKeeps
<1>5. CASE c.answer # 0 /\ R!Mine(c) /\ ~(R!Taken(c.answer).length <= c.length /\ ~R!Taken(c.answer).whole)
  <2>1. /\ dialog' = [dialog EXCEPT !.session = R!Taken(c.answer), !.owned = dialog.owned \cup {c.answer},
                                    !.retired = {dialog.session.token}, !.refreshing = FALSE,
                                    !.asked = FALSE, !.timeline = None]
        /\ frame' = R!Told(frame, c.answer) /\ reads' = R!LateReads /\ UNCHANGED closes
    BY <1>1, <1>5 DEF R!Refreshed, R!Refused
  <2>2. Lends(c) /\ dialog.session # None /\ dialog.retired = {} /\ dialog.owned = {dialog.session.token}
    BY <1>0, <1>1, <1>5 DEF Lends, OneOpening, Owning
  <2>3. c.answer \in R!Lent /\ c.answer \in Nat /\ c.answer \notin dialog.owned  BY <1>0, <2>2 DEF OnePlace, HostTypes
  <2>4. /\ R!Taken(c.answer) \in TakenTypes /\ R!Taken(c.answer) # None
        /\ R!Taken(c.answer).token = c.answer  BY <1>0, <2>3, TakenIsKnown
  <2>5. PICK s, o, l : s = R!Taken(c.answer) /\ o = dialog.owned \cup {c.answer} /\ l = {dialog.session.token}
    OBVIOUS
  <2>6. /\ s \in TakenTypes /\ o \in SUBSET Nat /\ l \in SUBSET Nat
        /\ dialog' = [dialog EXCEPT !.session = s, !.owned = o, !.retired = l, !.refreshing = FALSE,
                                    !.asked = FALSE, !.timeline = None]
    <3>1. dialog.session.token \in Nat  BY <1>0, <2>2 DEF DialogTypes, TakenTypes
    <3> QED BY <1>0, <2>1, <2>3, <2>4, <2>5, <3>1 DEF DialogTypes
  <2>7. /\ dialog' \in DialogTypes
        /\ dialog'.up = dialog.up /\ dialog'.session = s /\ dialog'.owned = o /\ dialog'.retired = l
        /\ dialog'.timeline = None  BY <1>0, <2>6 DEF DialogTypes
  <2>8. reads' \in SUBSET ReadTypes /\ \A r \in reads' : ~r.current  BY <1>0, <2>1, LateReadsAreLate
  <2>9. frame' \in FrameTypes /\ Playing'
    <3>1. /\ frame.outbox \in Seq(Nat) /\ frame.inbox \in Seq(Nat)
          /\ \A i \in 1 .. Len(frame.outbox) : frame.outbox[i] # c.answer /\ frame.outbox[i] <= host.made
          /\ \A i \in 1 .. Len(frame.inbox) : frame.inbox[i] \in dialog.owned /\ frame.inbox[i] # c.answer
          /\ frame.url # None => frame.url \in dialog.owned  BY <1>0, <2>2, <2>3 DEF Playing, FrameTypes
    <3>2. frame.url # c.answer  BY <2>3, <3>1 DEF NothingIsLent
    <3>3. \A i \in 1 .. Len(frame.outbox), e \in opens' : Lends(e) => frame.outbox[i] # e.answer
      BY <1>0, <1>1 DEF Playing
    <3>4. dialog'.session # None /\ dialog'.session.token = c.answer /\ dialog'.owned = dialog.owned \cup {c.answer}
      BY <2>4, <2>5, <2>7
    <3>5. frame.ready => frame.shown  BY <1>0 DEF Playing
    <3>6. CASE ~frame.ready
      <4>1. frame' = frame  BY <2>1, <3>6 DEF R!Told
      <4>2. frame.inbox = <<>> /\ frame.outbox = <<>> /\ frame.url = None /\ Len(<<>>) = 0  BY <1>0, <3>6 DEF Playing
      <4> QED BY <1>0, <3>4, <3>6, <4>1, <4>2 DEF Playing
    <3>7. CASE frame.ready
      <4>1. PICK inbox : inbox = Append(frame.inbox, c.answer)  OBVIOUS
      <4>2. /\ inbox \in Seq(Nat) /\ Len(inbox) = Len(frame.inbox) + 1 /\ inbox[Len(inbox)] = c.answer
            /\ \A i \in 1 .. Len(inbox) : i <= Len(frame.inbox) => inbox[i] = frame.inbox[i]
            /\ Len(frame.inbox) \in Nat  BY <2>3, <3>1, <4>1
      <4>3. frame' = [frame EXCEPT !.inbox = inbox]  BY <1>0, <2>1, <3>7, <4>1 DEF R!Told, FrameTypes
      <4>4. /\ frame' \in FrameTypes /\ frame'.inbox = inbox /\ frame'.outbox = frame.outbox
            /\ frame'.url = frame.url /\ frame'.shown = frame.shown /\ frame'.ready = frame.ready
        BY <1>0, <4>2, <4>3 DEF FrameTypes
      <4>5. \A i \in 1 .. Len(inbox) : i = Len(inbox) \/ (i \in 1 .. Len(frame.inbox) /\ inbox[i] = frame.inbox[i])
        BY <4>2
      <4>6. \A i \in 1 .. Len(inbox) : inbox[i] \in dialog'.owned  BY <3>1, <3>4, <4>2, <4>5
      <4>7. \A i, j \in 1 .. Len(inbox) : i < j /\ inbox[i] = c.answer => inbox[j] = c.answer  BY <3>1, <4>2, <4>5
      <4> QED BY <1>1, <3>1, <3>2, <3>3, <3>4, <3>5, <3>7, <4>4, <4>6, <4>7 DEF Playing
    <3> QED BY <3>6, <3>7
  <2> QED BY <1>0, <1>1, <1>5, <2>1, <2>2, <2>5, <2>7, <2>8, <2>9, TakenKeeps
<1> QED BY <1>2, <1>3, <1>4, <1>5

(* Asking for a longer session, on the window's own account or because the
   player has reached the end. *)
LEMMA AskingKeeps ==
  ASSUME ReplayInv, R!CanRefresh, R!AskRefresh, R!Mixing, UNCHANGED <<host, life, saves, reads, closes, saved>>,
         frame' \in FrameTypes, NothingIsLent,
         frame'.ready = frame.ready, frame'.shown = frame.shown, frame'.url = frame.url, frame'.inbox = frame.inbox,
         Len(frame'.outbox) <= Len(frame.outbox),
         \A i \in 1 .. Len(frame'.outbox) : \E j \in 1 .. Len(frame.outbox) : frame'.outbox[i] = frame.outbox[j],
         frame.outbox = <<>> => frame'.outbox = <<>>
  PROVE  ReplayInv'
<1>0. /\ Leases /\ ReplayTypes /\ HostTypes /\ OnePlace /\ OneOpening /\ Owning /\ Playing /\ Corrections
      /\ TimelineInv /\ dialog \in DialogTypes  BY DEF ReplayInv, Leases, ReplayTypes
<1>1. dialog.session # None /\ dialog.up /\ ~dialog.refreshing /\ dialog.retired = {}
  BY <1>0 DEF R!CanRefresh, Owning
<1>2. PICK d : d = [life |-> life, refresh |-> TRUE, length |-> dialog.session.length, answer |-> None]  OBVIOUS
<1>3. opens' = opens \cup {d} /\ dialog' = [dialog EXCEPT !.refreshing = TRUE]  BY <1>2 DEF R!AskRefresh
<1>4. d \in OpenTypes /\ d.life = life /\ d.refresh /\ d.answer = None /\ ~Lends(d)
  <2>1. dialog.session.length \in Nat  BY <1>0, <1>1 DEF DialogTypes, TakenTypes
  <2> QED BY <1>0, <1>2, <2>1 DEF OpenTypes, ReplayTypes, Lends
<1>5. /\ dialog' \in DialogTypes /\ dialog'.up = dialog.up /\ dialog'.session = dialog.session
      /\ dialog'.owned = dialog.owned /\ dialog'.retired = dialog.retired /\ dialog'.refreshing
      /\ dialog'.timeline = dialog.timeline /\ dialog'.saving = dialog.saving  BY <1>0, <1>3 DEF DialogTypes
<1>6. R!Lent' = R!Lent /\ host'.made = host.made  BY DEF R!Lent
<1>7. mixed' \in BOOLEAN  BY <1>0 DEF R!Mixing, ReplayTypes
<1>8. ReplayTypes'  BY <1>0, <1>3, <1>4, <1>5, <1>7 DEF ReplayTypes, HostTypes, R!Lent
<1>9. \A e \in opens' : e = d \/ e \in opens  BY <1>3
<1>10. OnePlace'
  <2>1. \A e, g \in opens' : Lends(e) /\ e.answer = g.answer => e = g  BY <1>0, <1>4, <1>9 DEF OnePlace, Lends
  <2>2. \A t \in R!Lent : t \in dialog.owned \/ t \in closes \/ \E e \in opens' : e.answer = t
    BY <1>0, <1>3 DEF OnePlace
  <2> QED BY <1>0, <1>4, <1>5, <1>6, <1>9, <2>1, <2>2 DEF OnePlace
<1>11. OneOpening'
  <2>1. \A e \in opens : ~R!Mine(e)  BY <1>0, <1>1 DEF OneOpening
  <2>2. \A e \in opens' : R!Mine(e)' => e = d  BY <1>5, <1>9, <2>1 DEF R!Mine
  <2>3. \A e \in opens' : e.life <= life'  BY <1>0, <1>4, <1>9 DEF OneOpening, ReplayTypes
  <2> QED BY <1>1, <1>4, <1>5, <2>2, <2>3 DEF OneOpening
<1>12. Owning'  BY <1>0, <1>5 DEF Owning
<1>13. Playing'
  <2>1. frame.outbox \in Seq(Nat)  BY <1>0 DEF ReplayTypes, FrameTypes
  <2>2. \A i \in 1 .. Len(frame'.outbox) :
          /\ frame'.outbox[i] <= host.made
          /\ frame'.outbox[i] = dialog.session.token => frame.url = dialog.session.token
          /\ \A e \in opens' : Lends(e) => frame'.outbox[i] # e.answer
    <3>1. ASSUME NEW i \in 1 .. Len(frame'.outbox)
          PROVE  /\ frame'.outbox[i] <= host.made
                 /\ frame'.outbox[i] = dialog.session.token => frame.url = dialog.session.token
                 /\ \A e \in opens' : Lends(e) => frame'.outbox[i] # e.answer
      <4>1. PICK j \in 1 .. Len(frame.outbox) : frame'.outbox[i] = frame.outbox[j]  BY <3>1
      <4> QED BY <1>0, <1>1, <1>4, <1>9, <4>1 DEF Playing
    <3> QED BY <3>1
  <2> QED BY <1>0, <1>1, <1>5, <1>6, <2>2 DEF Playing
<1>14. Corrections'
  <2>1. \A c \in saves : c.token # None  BY <1>0 DEF NothingIsLent, ReplayTypes, SaveTypes
  <2>2. \A e \in opens', c \in saves : e.answer # c.token  BY <1>0, <1>4, <1>9, <2>1 DEF Corrections
  <2> QED BY <1>0, <1>5, <1>6, <2>2, CorrectionsUntouched
<1>15. TimelineInv'  BY <1>0, <1>5 DEF TimelineInv, Counted
<1>16. OffsetInv'
  <2>1. OffsetsAgree => OffsetsAgree'  BY <1>4, <1>5, <1>9 DEF OffsetsAgree
  <2> QED BY <1>0, <1>12, <2>1, OffsetKeeps DEF ReplayInv, ReplayTypes
<1> QED BY <1>8, <1>10, <1>11, <1>12, <1>13, <1>14, <1>15, <1>16 DEF ReplayInv, Leases

LEMMA LongerKeeps ==
  ASSUME ReplayInv, NothingIsLent, R!refresh, R!Mixing
  PROVE  ReplayInv'
<1>1. R!CanRefresh /\ R!AskRefresh /\ UNCHANGED <<host, frame, life, saves, reads, closes, saved>>  BY DEF R!refresh
<1>2. frame \in FrameTypes /\ Len(frame.outbox) \in Nat  BY DEF ReplayInv, Leases, ReplayTypes, FrameTypes
<1> QED BY <1>1, <1>2, AskingKeeps

----
(* The correction of the chat's clock. *)

LEMMA AskingToSaveKeeps ==
  ASSUME ReplayInv, NothingIsLent, None # "stored", NEW value \in Offsets, R!saveOffset(value), R!Mixing
  PROVE  ReplayInv'
<1>0. /\ Leases /\ ReplayTypes /\ HostTypes /\ OnePlace /\ Owning /\ Corrections
      /\ TimelineInv /\ dialog \in DialogTypes  BY DEF ReplayInv, Leases, ReplayTypes
<1>1. /\ UNCHANGED <<host, frame, life, opens, reads, closes>> /\ dialog.session # None /\ ~dialog.saving
      /\ dialog' = [dialog EXCEPT !.saving = TRUE]  BY DEF R!saveOffset
<1>2. PICK d : d = [life |-> life, token |-> dialog.session.token, value |-> value, answer |-> None]  OBVIOUS
<1>3. saves' = saves \cup {d}  BY <1>2 DEF R!saveOffset
<1>4. /\ d \in SaveTypes /\ d.life = life /\ d.token = dialog.session.token /\ d.answer = None
  <2>1. dialog.session.token \in Nat  BY <1>0, <1>1 DEF DialogTypes, TakenTypes
  <2> QED BY <1>0, <1>2, <2>1 DEF SaveTypes, ReplayTypes
<1>5. /\ dialog' \in DialogTypes /\ dialog'.up = dialog.up /\ dialog'.session = dialog.session
      /\ dialog'.owned = dialog.owned /\ dialog'.retired = dialog.retired
      /\ dialog'.refreshing = dialog.refreshing
      /\ dialog'.timeline = dialog.timeline /\ dialog'.saving  BY <1>0, <1>1 DEF DialogTypes
<1>6. R!Lent' = R!Lent /\ host'.made = host.made  BY <1>1 DEF R!Lent
<1>7. mixed' \in BOOLEAN  BY <1>0 DEF R!Mixing, ReplayTypes
<1>8. ReplayTypes'  BY <1>0, <1>1, <1>3, <1>4, <1>5, <1>7 DEF ReplayTypes, HostTypes, R!Lent
<1>9. Leases'  BY <1>0, <1>1, <1>5, <1>6, <1>8, LeasesUntouched DEF SameSessions, Owning
<1>10. \A e \in saves' : e = d \/ e \in saves  BY <1>3
<1>11. Corrections'
  <2>1. d.token \in dialog.owned /\ d.token \in R!Lent /\ d.token # 0 /\ d.token # None /\ d.token <= host.made
    BY <1>0, <1>1, <1>4 DEF OnePlace, Owning, HostTypes, NothingIsLent
  <2>2. \A e \in opens : e.answer # d.token  BY <1>0, <2>1 DEF OnePlace, Lends
  <2>3. life <= life  BY <1>0 DEF ReplayTypes
  <2> QED BY <1>0, <1>1, <1>4, <1>5, <1>6, <1>10, <2>1, <2>2, <2>3 DEF Corrections, R!Mine
<1>12. TimelineInv'
  <2>1. \A a : (\A e \in saves' : e.answer = "stored" => e.token # a) => \A e \in saves : e.answer = "stored" => e.token # a
    BY <1>3
  <2>2. \A a : Counted(a) => Counted(a)'  BY <1>1, <1>5, <2>1 DEF Counted
  <2> QED BY <1>0, <1>1, <1>5, <2>2 DEF TimelineInv
<1>13. OffsetInv'
  <2>1. ASSUME OffsetsAgree PROVE OffsetsAgree'
    <3>1. saves = {} /\ dialog.session.offset = host.offset  BY <1>1, <2>1 DEF OffsetsAgree
    <3>2. saves' = {d}  BY <1>3, <3>1
    <3> QED BY <1>1, <1>4, <1>5, <2>1, <3>1, <3>2 DEF OffsetsAgree
  <2>2. Owning'  BY <1>9 DEF Leases
  <2> QED BY <1>0, <2>1, <2>2, OffsetKeeps DEF ReplayInv, ReplayTypes
<1> QED BY <1>9, <1>11, <1>12, <1>13 DEF ReplayInv

LEMMA OffsetSavedKeeps ==
  ASSUME ReplayInv, NothingIsLent, NEW c \in saves, R!OffsetSaved(c), R!Mixing
  PROVE  ReplayInv'
<1>0. /\ Leases /\ ReplayTypes /\ HostTypes /\ OnePlace /\ Owning /\ Corrections
      /\ TimelineInv /\ dialog \in DialogTypes /\ c \in SaveTypes  BY DEF ReplayInv, Leases, ReplayTypes
<1>1. UNCHANGED <<host, frame, life, opens, closes, saved>> /\ saves' = saves \ {c} /\ c.answer # None
  BY DEF R!OffsetSaved
<1>2. R!Lent' = R!Lent /\ host'.made = host.made  BY <1>1 DEF R!Lent
<1>3. mixed' \in BOOLEAN  BY <1>0 DEF R!Mixing, ReplayTypes
<1>4. R!Mine(c) => dialog.session # None  BY <1>0 DEF Corrections
<1>5. ASSUME ReplayTypes', SameSessions, TimelineInv',
             OffsetsAgree => \/ dialog.session = None
                             \/ saves' = {} /\ dialog'.session.offset = host.offset
      PROVE  ReplayInv'
  <2>1. Leases'  BY <1>0, <1>1, <1>2, <1>5, LeasesUntouched
  <2>2. Corrections'  BY <1>0, <1>1, <1>2, <1>5 DEF Corrections, SameSessions, R!Mine
  <2>3. OffsetsAgree => OffsetsAgree'  BY <1>1, <1>5 DEF OffsetsAgree, SameSessions
  <2>4. OffsetInv'
    <3>1. Owning'  BY <2>1 DEF Leases
    <3> QED BY <1>0, <2>3, <3>1, OffsetKeeps DEF ReplayInv, ReplayTypes
  <2> QED BY <1>5, <2>1, <2>2, <2>4 DEF ReplayInv
<1>6. CASE ~R!Mine(c)
  <2>1. UNCHANGED <<dialog, reads>>  BY <1>6 DEF R!OffsetSaved
  <2>2. ReplayTypes' /\ SameSessions
    BY <1>0, <1>1, <1>3, <2>1 DEF ReplayTypes, HostTypes, R!Lent, SameSessions, Owning
  <2>3. TimelineInv'
    <3>1. dialog.session # None => c.token # dialog.session.token  BY <1>0, <1>6 DEF Corrections, Owning, R!Mine
    <3>2. \A a : dialog.session # None /\ Counted(a) => Counted(a)'  BY <1>1, <2>1, <3>1 DEF Counted
    <3> QED BY <1>0, <2>1, <3>2 DEF TimelineInv, Owning
  <2>4. OffsetsAgree => dialog.session = None  BY <1>0, <1>6 DEF OffsetsAgree, Owning, R!Mine
  <2> QED BY <1>5, <2>2, <2>3, <2>4
<1>7. CASE R!Mine(c) /\ c.answer = "failed"
  <2>1. dialog' = [dialog EXCEPT !.saving = FALSE] /\ UNCHANGED reads  BY <1>7 DEF R!OffsetSaved
  <2>2. /\ dialog' \in DialogTypes /\ dialog'.up = dialog.up /\ dialog'.session = dialog.session
        /\ dialog'.owned = dialog.owned /\ dialog'.retired = dialog.retired
        /\ dialog'.refreshing = dialog.refreshing /\ dialog'.timeline = dialog.timeline
    BY <1>0, <2>1 DEF DialogTypes
  <2>3. ReplayTypes' /\ SameSessions
    BY <1>0, <1>1, <1>3, <2>1, <2>2 DEF ReplayTypes, HostTypes, R!Lent, SameSessions, Owning
  <2>4. TimelineInv'
    <3>1. \A a : Counted(a) => Counted(a)'  BY <1>1, <1>7, <2>2 DEF Counted
    <3> QED BY <1>0, <2>1, <2>2, <3>1 DEF TimelineInv
  <2>5. OffsetsAgree => dialog.session.offset = host.offset /\ saves' = {}  BY <1>1, <1>4, <1>7 DEF OffsetsAgree
  <2> QED BY <1>5, <2>2, <2>3, <2>4, <2>5
<1>8. CASE R!Mine(c) /\ c.answer # "failed"
  <2>1. dialog.session \in TakenTypes /\ c.value \in Offsets /\ c.answer = "stored"
    BY <1>0, <1>1, <1>4, <1>8 DEF DialogTypes, SaveTypes
  <2>2. PICK s, d, rs :
          /\ s = [dialog.session EXCEPT !.offset = c.value] /\ rs = R!LateReads
          /\ d = [dialog EXCEPT !.session = s, !.asked = FALSE, !.timeline = None, !.saving = FALSE]  OBVIOUS
  <2>3. s \in TakenTypes /\ s # None /\ s.token = dialog.session.token /\ s.offset = c.value
    BY <2>1, <2>2 DEF TakenTypes, NothingIsLent
  <2>4. /\ d \in DialogTypes /\ d.session = s /\ d.up = dialog.up /\ d.owned = dialog.owned
        /\ d.retired = dialog.retired /\ d.refreshing = dialog.refreshing /\ d.timeline = None
    BY <1>0, <2>2, <2>3 DEF DialogTypes
  <2>5. rs \in SUBSET ReadTypes /\ d.session # None /\ \A r \in rs : ~r.current
    BY <1>0, <2>2, <2>3, <2>4, LateReadsAreLate
  <2>6. R!loadTimeline(d, rs)
    <3>1. d = [dialog EXCEPT !.session.offset = c.value, !.asked = FALSE, !.timeline = None, !.saving = FALSE]
      BY <1>0, <2>2 DEF DialogTypes
    <3> QED BY <1>8, <2>2, <3>1 DEF R!OffsetSaved
  <2>7. /\ dialog' \in DialogTypes /\ reads' \in SUBSET ReadTypes
        /\ dialog'.up = d.up /\ dialog'.session = d.session /\ dialog'.owned = d.owned
        /\ dialog'.retired = d.retired /\ dialog'.refreshing = d.refreshing
        /\ dialog'.timeline = d.timeline
        /\ \A r \in reads' : r.current => r \in rs \/ (r.token = d.session.token /\ r.answer = None)
    BY <2>4, <2>5, <2>6, LoadingKeepsTheSession
  <2>8. ReplayTypes' /\ SameSessions
    BY <1>0, <1>1, <1>3, <1>4, <1>8, <2>3, <2>4, <2>7 DEF ReplayTypes, HostTypes, R!Lent, SameSessions
  <2>9. TimelineInv'  BY <2>3, <2>4, <2>5, <2>7 DEF TimelineInv
  <2>10. OffsetsAgree => host.offset = c.value /\ saves' = {}  BY <1>1, <1>4, <1>8, <2>1 DEF OffsetsAgree
  <2> QED BY <1>5, <2>3, <2>4, <2>7, <2>8, <2>9, <2>10
<1> QED BY <1>6, <1>7, <1>8

----
(* The player's frame. *)

LEMMA OnlyTheFrameKeeps ==
  ASSUME ReplayInv, R!Mixing, UNCHANGED <<host, dialog, life, opens, saves, reads, closes, saved>>,
         frame' \in FrameTypes, Playing'
  PROVE  ReplayInv'
<1>0. Leases /\ ReplayTypes /\ Owning  BY DEF ReplayInv, Leases
<1>1. mixed' \in BOOLEAN  BY <1>0 DEF R!Mixing, ReplayTypes
<1>2. ReplayTypes'  BY <1>0, <1>1 DEF ReplayTypes, HostTypes, R!Lent
<1>3. OnePlace' /\ OneOpening' /\ Owning'  BY <1>0 DEF Leases, OnePlace, OneOpening, Owning, R!Lent, R!Mine
<1>4. Corrections' /\ TimelineInv'  BY DEF ReplayInv, Corrections, TimelineInv, Counted, R!Mine
<1>5. OffsetInv'
  <2>1. OffsetsAgree => OffsetsAgree'  BY DEF OffsetsAgree
  <2> QED BY <1>0, <1>3, <2>1, OffsetKeeps DEF ReplayInv, ReplayTypes
<1> QED BY <1>2, <1>3, <1>4, <1>5 DEF ReplayInv, Leases

LEMMA FrameReadyKeeps ==
  ASSUME ReplayInv, R!FrameReady, R!Mixing
  PROVE  ReplayInv'
<1>0. Leases /\ Owning /\ Playing /\ dialog \in DialogTypes /\ frame \in FrameTypes
  BY DEF ReplayInv, Leases, ReplayTypes
<1>1. UNCHANGED <<host, dialog, life, opens, saves, reads, closes, saved>> /\ frame.shown /\ ~frame.ready
  BY DEF R!FrameReady
<1>2. dialog.session # None /\ frame.inbox = <<>> /\ frame.outbox = <<>> /\ frame.url = None
  BY <1>0, <1>1 DEF Playing
<1>3. dialog.session.token \in Nat /\ dialog.session.token \in dialog.owned
  BY <1>0, <1>2 DEF DialogTypes, TakenTypes, Owning
<1>4. PICK inbox : inbox = Append(<<>>, dialog.session.token)  OBVIOUS
<1>5. inbox \in Seq(Nat) /\ Len(inbox) = 1 /\ inbox[1] = dialog.session.token  BY <1>3, <1>4
<1>6. frame' = [frame EXCEPT !.ready = TRUE, !.inbox = inbox]
  <2>1. PICK f : f = [frame EXCEPT !.ready = TRUE]  OBVIOUS
  <2>2. f.ready /\ f.inbox = frame.inbox  BY <1>0, <2>1 DEF FrameTypes
  <2>3. frame' = [f EXCEPT !.inbox = inbox]
    <3>1. frame' = R!Told(f, dialog.session.token)  BY <2>1 DEF R!FrameReady
    <3>2. frame' = [f EXCEPT !.inbox = Append(f.inbox, dialog.session.token)]  BY <2>2, <3>1 DEF R!Told
    <3> QED BY <1>2, <1>4, <2>2, <3>2
  <2> QED BY <1>0, <2>1, <2>3 DEF FrameTypes
<1>7. /\ frame' \in FrameTypes /\ frame'.inbox = inbox /\ frame'.outbox = <<>> /\ frame'.url = None
      /\ frame'.ready /\ frame'.shown  BY <1>0, <1>1, <1>2, <1>5, <1>6 DEF FrameTypes
<1>8. \A i \in 1 .. Len(inbox) : inbox[i] = dialog.session.token
  <2>1. \A i \in 1 .. 1 : i = 1  OBVIOUS
  <2> QED BY <1>5, <2>1
<1>9. Playing'
  <2>1. Len(<<>>) = 0  OBVIOUS
  <2> QED BY <1>0, <1>1, <1>2, <1>3, <1>7, <1>8, <2>1 DEF Playing
<1> QED BY <1>1, <1>7, <1>9, OnlyTheFrameKeeps

LEMMA ReachTailKeeps ==
  ASSUME ReplayInv, NothingIsLent, R!ReachTail, R!Mixing
  PROVE  ReplayInv'
<1>0. Leases /\ ReplayTypes /\ HostTypes /\ OnePlace /\ Owning /\ Playing /\ frame \in FrameTypes
  BY DEF ReplayInv, Leases, ReplayTypes
<1>1. UNCHANGED <<host, dialog, life, opens, saves, reads, closes, saved>> /\ frame.url # None  BY DEF R!ReachTail
<1>2. PICK outbox : outbox = <<0>>  OBVIOUS
<1>3. frame' = [frame EXCEPT !.outbox = outbox]  BY <1>2 DEF R!ReachTail, R!TailReached
<1>4. outbox \in Seq(Nat) /\ Len(outbox) = 1 /\ \A i \in 1 .. Len(outbox) : outbox[i] = 0  BY <1>2
<1>5. /\ frame' \in FrameTypes /\ frame'.outbox = outbox /\ frame'.inbox = frame.inbox
      /\ frame'.url = frame.url /\ frame'.ready = frame.ready /\ frame'.shown = frame.shown
  BY <1>0, <1>3, <1>4 DEF FrameTypes
<1>6. frame.ready /\ dialog.session # None  BY <1>0, <1>1 DEF Playing
<1>7. dialog.session.token # 0 /\ 0 <= host.made  BY <1>0, <1>6 DEF OnePlace, Owning, HostTypes
<1>8. \A i \in 1 .. Len(outbox) :
        /\ outbox[i] <= host.made /\ outbox[i] # dialog.session.token
        /\ \A c \in opens : Lends(c) => outbox[i] # c.answer  BY <1>4, <1>7 DEF Lends
<1>9. Playing'  BY <1>0, <1>1, <1>5, <1>6, <1>8 DEF Playing
<1> QED BY <1>1, <1>5, <1>9, OnlyTheFrameKeeps

LEMMA TailIsSeq ==
  ASSUME NEW s \in Seq(Nat), s # <<>>
  PROVE  /\ Len(s) \in Nat /\ Len(s) >= 1 /\ Head(s) = s[1] /\ s[1] \in Nat
         /\ Tail(s) \in Seq(Nat) /\ Len(Tail(s)) = Len(s) - 1
         /\ \A i \in 1 .. Len(Tail(s)) : i + 1 \in 1 .. Len(s) /\ Tail(s)[i] = s[i + 1]  OBVIOUS

LEMMA MountKeeps ==
  ASSUME ReplayInv, NothingIsLent, R!mount, R!Mixing
  PROVE  ReplayInv'
<1>0. Leases /\ ReplayTypes /\ HostTypes /\ OnePlace /\ Owning /\ Playing /\ frame \in FrameTypes
  BY DEF ReplayInv, Leases, ReplayTypes
<1>1. UNCHANGED <<host, dialog, life, opens, saves, reads, closes, saved>> /\ frame.inbox # <<>>  BY DEF R!mount
<1>2. PICK in, out : in = frame.inbox /\ out = frame.outbox  OBVIOUS
<1>3. in \in Seq(Nat) /\ out \in Seq(Nat) /\ in # <<>>  BY <1>0, <1>1, <1>2 DEF FrameTypes
<1>4. /\ Len(in) \in Nat /\ Len(in) >= 1 /\ Head(in) = in[1] /\ in[1] \in Nat
      /\ Tail(in) \in Seq(Nat)
      /\ \A i \in 1 .. Len(Tail(in)) : i + 1 \in 1 .. Len(in) /\ Tail(in)[i] = in[i + 1]
      /\ Len(Tail(in)) = Len(in) - 1  BY <1>3, TailIsSeq
<1>5. PICK token, inbox : token = in[1] /\ inbox = Tail(in)  OBVIOUS
<1>6. frame.ready /\ dialog.session # None  BY <1>0, <1>1 DEF Playing
<1>7. token \in dialog.owned /\ token \in Nat /\ token # None
  <2>1. 1 \in 1 .. Len(in)  BY <1>4
  <2>2. token \in dialog.owned  BY <1>0, <1>2, <1>5, <2>1 DEF Playing
  <2> QED BY <1>4, <1>5, <2>2 DEF NothingIsLent
<1>8. /\ \A i \in 1 .. Len(inbox) : inbox[i] \in dialog.owned
      /\ frame.url = dialog.session.token \/ token = dialog.session.token =>
           \A i \in 1 .. Len(inbox) : inbox[i] = dialog.session.token
      /\ \A i, j \in 1 .. Len(inbox) : i < j /\ inbox[i] = dialog.session.token => inbox[j] = dialog.session.token
  <2>1. \A i \in 1 .. Len(in) : in[i] \in dialog.owned  BY <1>0, <1>2 DEF Playing
  <2>2. frame.url = dialog.session.token => \A i \in 1 .. Len(in) : in[i] = dialog.session.token
    BY <1>0, <1>2, <1>6 DEF Playing
  <2>3. \A i, j \in 1 .. Len(in) : i < j /\ in[i] = dialog.session.token => in[j] = dialog.session.token
    BY <1>0, <1>2, <1>6 DEF Playing
  <2>4. \A i \in 1 .. Len(inbox) : i + 1 \in 1 .. Len(in) /\ inbox[i] = in[i + 1] /\ i \in Nat /\ 1 < i + 1
    BY <1>4, <1>5
  <2>5. 1 \in 1 .. Len(in)  BY <1>4
  <2>6. token = dialog.session.token => \A i \in 1 .. Len(inbox) : inbox[i] = dialog.session.token
    BY <1>5, <2>3, <2>4, <2>5
  <2>7. \A i, j \in 1 .. Len(inbox) : i < j => i + 1 < j + 1  BY <1>4, <1>5
  <2>8. ASSUME NEW i \in 1 .. Len(inbox), NEW j \in 1 .. Len(inbox), i < j, inbox[i] = dialog.session.token
        PROVE  inbox[j] = dialog.session.token  BY <2>3, <2>4, <2>7, <2>8
  <2> QED BY <2>1, <2>2, <2>4, <2>6, <2>8
<1>9. CASE token = frame.url
  <2>1. frame' = [frame EXCEPT !.inbox = inbox]  BY <1>0, <1>2, <1>4, <1>5, <1>9 DEF R!mount, FrameTypes
  <2>2. /\ frame' \in FrameTypes /\ frame'.outbox = frame.outbox /\ frame'.inbox = inbox
        /\ frame'.url = frame.url /\ frame'.ready = frame.ready /\ frame'.shown = frame.shown
    BY <1>0, <1>4, <1>5, <2>1 DEF FrameTypes
  <2>3. Playing'  BY <1>0, <1>1, <1>6, <1>8, <2>2 DEF Playing
  <2> QED BY <1>1, <2>2, <2>3, OnlyTheFrameKeeps
<1>10. CASE token # frame.url
  <2>1. PICK outbox : outbox = Append(out, token)  OBVIOUS
  <2>2. /\ outbox \in Seq(Nat)
        /\ \A i \in 1 .. Len(outbox) : outbox[i] = token \/ (i \in 1 .. Len(out) /\ outbox[i] = out[i])
    BY <1>3, <1>7, <2>1
  <2>3. frame' = [frame EXCEPT !.inbox = inbox, !.url = token, !.outbox = outbox]
    BY <1>0, <1>2, <1>4, <1>5, <1>10, <2>1 DEF R!mount, FrameTypes
  <2>4. /\ frame' \in FrameTypes /\ frame'.outbox = outbox /\ frame'.inbox = inbox
        /\ frame'.url = token /\ frame'.ready = frame.ready /\ frame'.shown = frame.shown
    BY <1>0, <1>4, <1>5, <1>7, <2>2, <2>3 DEF FrameTypes
  <2>5. \A i \in 1 .. Len(outbox) : outbox[i] = dialog.session.token => token = dialog.session.token
    <3>1. ASSUME NEW i \in 1 .. Len(outbox), outbox[i] = dialog.session.token, outbox[i] # token
          PROVE  FALSE
      <4>1. i \in 1 .. Len(frame.outbox) /\ frame.outbox[i] = dialog.session.token  BY <1>2, <2>2, <3>1
      <4>2. frame.url = dialog.session.token  BY <1>0, <1>6, <4>1 DEF Playing
      <4>3. token = dialog.session.token
        <5>1. 1 \in 1 .. Len(frame.inbox)  BY <1>2, <1>4
        <5> QED BY <1>0, <1>2, <1>5, <1>6, <4>2, <5>1 DEF Playing
      <4> QED BY <1>10, <4>2, <4>3
    <3> QED BY <3>1
  <2>6. \A i \in 1 .. Len(outbox) : outbox[i] <= host.made /\ \A e \in opens : Lends(e) => outbox[i] # e.answer
    <3>1. token <= host.made /\ \A e \in opens : Lends(e) => e.answer # token  BY <1>0, <1>7 DEF OnePlace
    <3>2. \A i \in 1 .. Len(out) : out[i] <= host.made /\ \A e \in opens : Lends(e) => out[i] # e.answer
      BY <1>0, <1>2 DEF Playing
    <3> QED BY <2>2, <3>1, <3>2
  <2>7. Playing'  BY <1>0, <1>1, <1>6, <1>7, <1>8, <2>4, <2>5, <2>6 DEF Playing
  <2> QED BY <1>1, <2>4, <2>7, OnlyTheFrameKeeps
<1> QED BY <1>9, <1>10

LEMMA ReceiveKeeps ==
  ASSUME ReplayInv, NothingIsLent, R!receive, R!Mixing
  PROVE  ReplayInv'
<1>0. /\ Leases /\ ReplayTypes /\ HostTypes /\ OnePlace /\ OneOpening /\ Owning /\ Playing /\ Corrections
      /\ frame \in FrameTypes /\ dialog \in DialogTypes /\ TimelineInv  BY DEF ReplayInv, Leases, ReplayTypes
<1>1. UNCHANGED <<host, life, saves, reads, saved>> /\ frame.outbox # <<>>  BY DEF R!receive
<1>2. PICK out, outbox : out = frame.outbox /\ outbox = Tail(out)  OBVIOUS
<1>3. out \in Seq(Nat) /\ out # <<>>  BY <1>0, <1>1, <1>2 DEF FrameTypes
<1>4. /\ Len(out) \in Nat /\ Len(out) >= 1 /\ Head(out) = out[1] /\ out[1] \in Nat
      /\ outbox \in Seq(Nat) /\ Len(outbox) = Len(out) - 1
      /\ \A i \in 1 .. Len(outbox) : i + 1 \in 1 .. Len(out) /\ outbox[i] = out[i + 1]
  BY <1>2, <1>3, TailIsSeq
<1>5. frame' = [frame EXCEPT !.outbox = outbox]  BY <1>0, <1>2 DEF R!receive, FrameTypes
<1>6. /\ frame' \in FrameTypes /\ frame'.outbox = outbox /\ frame'.inbox = frame.inbox
      /\ frame'.url = frame.url /\ frame'.ready = frame.ready /\ frame'.shown = frame.shown
  BY <1>0, <1>4, <1>5 DEF FrameTypes
<1>7. \A i \in 1 .. Len(outbox) : \E j \in 1 .. Len(out) : outbox[i] = out[j]  BY <1>4
<1>8. frame.ready /\ dialog.session # None  BY <1>0, <1>1 DEF Playing
<1>9. dialog.up  BY <1>0, <1>8 DEF Owning
<1>10. \A i \in 1 .. Len(outbox) :
         /\ outbox[i] <= host.made
         /\ \A c \in opens : Lends(c) => outbox[i] # c.answer
         /\ outbox[i] = dialog.session.token => frame.url = dialog.session.token
  <2>1. ASSUME NEW i \in 1 .. Len(outbox)
        PROVE  /\ outbox[i] <= host.made
               /\ \A c \in opens : Lends(c) => outbox[i] # c.answer
               /\ outbox[i] = dialog.session.token => frame.url = dialog.session.token
    <3>1. PICK j \in 1 .. Len(frame.outbox) : outbox[i] = frame.outbox[j]  BY <1>2, <1>7, <2>1
    <3> QED BY <1>0, <1>8, <3>1 DEF Playing
  <2> QED BY <2>1
<1>11. CASE out[1] = 0 /\ R!CanRefresh
  <2>1. R!AskRefresh /\ UNCHANGED closes  BY <1>2, <1>4, <1>11 DEF R!receive, R!TailReached
  <2>2. /\ Len(frame'.outbox) <= Len(frame.outbox)
        /\ \A i \in 1 .. Len(frame'.outbox) : \E j \in 1 .. Len(frame.outbox) : frame'.outbox[i] = frame.outbox[j]
    BY <1>2, <1>4, <1>6, <1>7
  <2> QED BY <1>1, <1>6, <1>11, <2>1, <2>2, AskingKeeps
<1>12. CASE (out[1] = 0 /\ ~R!CanRefresh) \/ (out[1] # 0 /\ out[1] # dialog.session.token)
  <2>1. UNCHANGED <<dialog, opens, closes>>  BY <1>2, <1>4, <1>12 DEF R!receive, R!sourceReady, R!TailReached
  <2>2. Playing'  BY <1>0, <1>1, <1>6, <1>8, <1>10, <2>1 DEF Playing
  <2> QED BY <1>1, <1>6, <2>1, <2>2, OnlyTheFrameKeeps
<1>13. CASE out[1] # 0 /\ out[1] = dialog.session.token
  <2>1. PICK owned : owned = dialog.owned \ dialog.retired  OBVIOUS
  <2>2. /\ dialog' = [dialog EXCEPT !.owned = owned, !.retired = {}]
        /\ closes' = closes \cup (dialog.retired \cap dialog.owned) /\ UNCHANGED opens
    BY <1>0, <1>2, <1>4, <1>13, <2>1 DEF R!receive, R!sourceReady, R!TailReached, DialogTypes
  <2>3. owned = {dialog.session.token} /\ dialog.retired \subseteq dialog.owned /\ owned \subseteq dialog.owned
    BY <1>0, <1>8, <2>1 DEF Owning
  <2>4. dialog.session.token \in Nat /\ closes' \in SUBSET Nat
    BY <1>0, <1>8, <2>2 DEF DialogTypes, TakenTypes, ReplayTypes
  <2>5. /\ dialog' \in DialogTypes /\ dialog'.up = dialog.up /\ dialog'.session = dialog.session
        /\ dialog'.owned = owned /\ dialog'.retired = {} /\ dialog'.refreshing = dialog.refreshing
        /\ dialog'.timeline = dialog.timeline /\ dialog'.saving = dialog.saving
    BY <1>0, <2>2, <2>3, <2>4 DEF DialogTypes
  <2>6. R!Lent' = R!Lent /\ host'.made = host.made  BY <1>1 DEF R!Lent
  <2>7. mixed' \in BOOLEAN  BY <1>0 DEF R!Mixing, ReplayTypes
  <2>8. ReplayTypes'  BY <1>0, <1>1, <1>6, <2>2, <2>4, <2>5, <2>7 DEF ReplayTypes, HostTypes, R!Lent
  <2>9. OnePlace'
    <3>1. \A t \in closes' : t <= host.made /\ t \notin owned
      <4>1. \A t \in dialog.retired : t \in R!Lent /\ t \notin owned  BY <1>0, <2>1, <2>3 DEF OnePlace
      <4> QED BY <1>0, <2>2, <2>3, <4>1 DEF OnePlace
    <3>2. \A c \in opens : Lends(c) => c.answer \in R!Lent /\ c.answer \notin owned \cup closes'
      BY <1>0, <2>2, <2>3 DEF OnePlace
    <3>3. \A t \in R!Lent : t \in owned \/ t \in closes' \/ \E c \in opens : c.answer = t
      BY <1>0, <2>1, <2>2 DEF OnePlace
    <3> QED BY <1>0, <2>2, <2>3, <2>5, <2>6, <3>1, <3>2, <3>3 DEF OnePlace
  <2>10. OneOpening' /\ Owning'  BY <1>0, <1>1, <1>8, <1>9, <2>2, <2>3, <2>5 DEF OneOpening, Owning, R!Mine
  <2>11. Playing'
    <3>1. frame.url = dialog.session.token
      <4>1. 1 \in 1 .. Len(frame.outbox) /\ frame.outbox[1] = dialog.session.token  BY <1>2, <1>4, <1>13
      <4> QED BY <1>0, <1>8, <4>1 DEF Playing
    <3>2. \A i \in 1 .. Len(frame.inbox) : frame.inbox[i] = dialog.session.token  BY <1>0, <1>8, <3>1 DEF Playing
    <3> QED BY <1>0, <1>6, <1>8, <1>10, <2>2, <2>3, <2>5, <2>6, <3>1, <3>2 DEF Playing
  <2>12. Corrections'  BY <1>0, <1>1, <2>2, <2>3, <2>5, <2>6, CorrectionsUntouched DEF Corrections
  <2>13. TimelineInv'  BY <1>0, <1>1, <2>5 DEF TimelineInv, Counted
  <2>14. OffsetInv'
    <3>1. OffsetsAgree => OffsetsAgree'  BY <1>1, <2>2, <2>5 DEF OffsetsAgree
    <3> QED BY <1>0, <2>10, <3>1, OffsetKeeps DEF ReplayInv, ReplayTypes
  <2> QED BY <2>8, <2>9, <2>10, <2>11, <2>12, <2>13, <2>14 DEF ReplayInv, Leases
<1> QED BY <1>11, <1>12, <1>13

----
LEMMA ReplayInvKept ==
  ASSUME ReplayInv, NothingIsLent, None # "stored", [R!Next]_(R!vars)
  PROVE  ReplayInv'
<1>1. CASE UNCHANGED R!vars
  <2>1. UNCHANGED <<host, dialog, frame, life, opens, saves, reads, closes, saved, mixed>>  BY <1>1 DEF R!vars
  <2>2. Leases'
    BY <2>1 DEF ReplayInv, Leases, ReplayTypes, HostTypes, OnePlace, OneOpening, Owning, Playing, R!Lent, R!Mine
  <2>3. Corrections' /\ TimelineInv' /\ OffsetInv'
    BY <2>1 DEF ReplayInv, Corrections, TimelineInv, Counted, OffsetInv, Apart, OffsetsAgree, R!Mine
  <2> QED BY <2>2, <2>3 DEF ReplayInv
<1>2. CASE R!Next
  <2>1. R!Mixing /\ (R!Opening \/ R!Player \/ R!Correcting \/ R!Timeline)  BY <1>2 DEF R!Next
  <2>2. CASE R!Opening
    <3>1. CASE R!Show \/ R!Hide \/ R!refresh \/ R!RecordingGoesOn
      BY <2>1, <3>1, ShowKeeps, HideKeeps, LongerKeeps, HostGoesOnKeeps
    <3>2. CASE \E c \in opens : R!OpenServed(c) \/ R!Opened(c) \/ R!Refreshed(c)
      BY <2>1, <3>2, OpenServedKeeps, OpenedKeeps, RefreshedKeeps
    <3>3. CASE \E t \in closes : R!CloseServed(t)  BY <2>1, <3>3, CloseServedKeeps
    <3> QED BY <2>2, <3>1, <3>2, <3>3 DEF R!Opening
  <2>3. CASE R!Player  BY <2>1, <2>3, FrameReadyKeeps, MountKeeps, ReachTailKeeps, ReceiveKeeps DEF R!Player
  <2>4. CASE R!Correcting
    <3>1. CASE \E v \in Offsets : R!saveOffset(v)  BY <2>1, <3>1, AskingToSaveKeeps
    <3>2. CASE \E c \in saves : R!SaveServed(c) \/ R!OffsetSaved(c)  BY <2>1, <3>2, SaveServedKeeps, OffsetSavedKeeps
    <3> QED BY <2>4, <3>1, <3>2 DEF R!Correcting
  <2>5. CASE R!Timeline
    <3>1. CASE \E t \in R!Lent : R!IndexBuilt(t)  BY <2>1, <3>1, HostGoesOnKeeps
    <3>2. CASE R!indexReady  BY <2>1, <3>2, IndexReadyKeeps
    <3>3. CASE \E r \in reads : R!TimelineServed(r) \/ R!TimelineAnswered(r)
      BY <2>1, <3>3, TimelineServedKeeps, TimelineAnsweredKeeps
    <3> QED BY <2>5, <3>1, <3>2, <3>3 DEF R!Timeline
  <2> QED BY <2>1, <2>2, <2>3, <2>4, <2>5
<1> QED BY <1>1, <1>2

(* The session on screen and the one it has left. *)
LEMMA TwoAtMost ==
  ASSUME Owning
  PROVE  Cardinality(dialog.owned) <= 2
<1>1. CASE dialog.session = None  BY <1>1, FS_EmptySet DEF Owning
<1>2. CASE dialog.session # None
  <2>1. PICK a, rest : a = dialog.session.token /\ rest = dialog.retired  OBVIOUS
  <2>2. dialog.owned = rest \cup {a} /\ \A t, u \in rest : t = u  BY <1>2, <2>1 DEF Owning
  <2>3. IsFiniteSet(rest) /\ Cardinality(rest) <= 1 /\ Cardinality(rest) \in Nat
    <3>1. CASE rest = {}  BY <3>1, FS_EmptySet
    <3>2. CASE rest # {}
      <4>1. PICK t \in rest : rest = {t}  BY <2>2, <3>2
      <4>2. IsFiniteSet({t}) /\ Cardinality({t}) = 1  BY FS_Singleton
      <4> QED BY <4>1, <4>2
    <3> QED BY <3>1, <3>2
  <2>4. Cardinality(rest \cup {a}) = IF a \in rest THEN Cardinality(rest) ELSE Cardinality(rest) + 1
    BY <2>3, FS_AddElement
  <2> QED BY <2>2, <2>3, <2>4
<1> QED BY <1>1, <1>2

LEMMA ReplayPromises ==
  ASSUME ReplayInv, NothingIsLent
  PROVE  R!LeasesAreHeld /\ R!TimelineIsCurrent /\ R!OffsetIsTrue
<1>0. Leases /\ OnePlace /\ Owning /\ Playing /\ HostTypes  BY DEF ReplayInv, Leases, ReplayTypes
<1>1. R!LeasesAreHeld
  <2>1. Cardinality(dialog.owned) <= 2  BY <1>0, TwoAtMost
  <2>2. \A i \in DOMAIN frame.inbox : frame.inbox[i] \in R!Lent
    <3>1. DOMAIN frame.inbox = 1 .. Len(frame.inbox)  BY DEF ReplayInv, Leases, ReplayTypes, FrameTypes
    <3> QED BY <1>0, <3>1 DEF Playing, OnePlace
  <2>3. R!Lent \subseteq dialog.owned \cup closes \cup {c.answer : c \in opens}  BY <1>0 DEF OnePlace
  <2>4. dialog.session # None => dialog.session.token \in R!Lent  BY <1>0 DEF OnePlace, Owning
  <2>5. frame.url # None => frame.url \in R!Lent  BY <1>0 DEF OnePlace, Playing
  <2>6. R!Cardinality(dialog.owned) = Cardinality(dialog.owned)  BY DEF R!Cardinality, Cardinality
  <2> QED BY <2>1, <2>2, <2>3, <2>4, <2>5, <2>6, Zenon DEF R!LeasesAreHeld
<1>2. R!TimelineIsCurrent
  <2>1. ASSUME dialog.timeline # None PROVE Counted(dialog.timeline)  BY <2>1 DEF ReplayInv, TimelineInv
  <2> QED BY <2>1 DEF R!TimelineIsCurrent, Counted
<1>3. R!OffsetIsTrue  BY DEF ReplayInv, OffsetInv, OffsetsAgree, R!OffsetIsTrue
<1> QED BY <1>1, <1>2, <1>3

(* Watching a recording again (RecordingReplay.tsx, the commands of the
   replay service): a session is open as long as the player has it or was
   told of it, and known to somebody until it is given back; the timeline
   under the player is that of the session on screen, and the correction on
   screen the one stored, unless it was changed while a session was opened. *)
THEOREM TheReplayIsServed ==
  ASSUME NothingIsLent, None # "stored"
  PROVE  R!Spec => [](R!LeasesAreHeld /\ R!TimelineIsCurrent /\ R!OffsetIsTrue)
<1>1. R!Init => ReplayInv  BY ReplayInvInit
<1>2. ReplayInv /\ [R!Next]_(R!vars) => ReplayInv'  BY ReplayInvKept
<1>3. ReplayInv => R!LeasesAreHeld /\ R!TimelineIsCurrent /\ R!OffsetIsTrue  BY ReplayPromises
<1> QED BY <1>1, <1>2, <1>3, PTL DEF R!Spec

----
(* The chat beside a recording (ReplayChat).  Following, searching and
   browsing take over from one another by raising the number of what is asked
   for.  The invariant says of the calls under the present number what they
   were made for, and that no more than one is the clock's. *)

CONSTANTS Times, Near, Queries, MaxGeneration, MaxCorrections

VARIABLES chat, follow, search, time, correction, seen

W == INSTANCE ReplayChat

ChatFields == {"following", "query", "log", "loading", "error", "paging"}
FollowFields == {"version", "asked", "busy", "retry"}
ShownFields == {"what", "at", "query", "correction"}

NoneIsNoRecord == {"version", "what"} \cap DOMAIN None = {}

ReplayChatTypes ==
  /\ generation \in Nat /\ DOMAIN chat = ChatFields
  /\ follow # None => DOMAIN follow = FollowFields
  /\ search # None => DOMAIN search = {"version", "timer"}
  /\ \A c \in calls : /\ DOMAIN c = {"version", "wants", "answer"} /\ DOMAIN c.wants = ShownFields
                      /\ c.wants.what \in {"window", "log", "more", "search"}
                      /\ c.wants # None /\ c.version \in Nat /\ c.version <= generation

(* One of the three has the floor. *)
OneHasTheFloor ==
  /\ chat.following => chat.query = W!Blank /\ search = None
  /\ follow # None => chat.following /\ follow.version = generation
  /\ search # None => search.version \in Nat /\ search.version <= generation

(* What is asked for under the present number is what the chat shows. *)
AskedFor(c) ==
  /\ c.wants.what = "window" =>
       /\ follow # None /\ follow.busy /\ c.wants.correction = correction
       /\ follow.asked = W!Never \/ follow.asked = c.wants.at
  /\ c.wants.what # "window" =>
       /\ ~chat.following
       /\ W!searching => c.wants.what # "log" /\ c.wants.query = chat.query /\ c.wants.correction = correction
  /\ c.wants.what = "search" /\ chat.loading => search # None /\ search.version = generation

CallsAnswerTheAsk ==
  /\ \A c \in calls : c.version = generation => AskedFor(c)
  /\ \A c, d \in calls : c.version = generation /\ d.version = generation /\ follow # None => c = d

(* The clock asks again only away from the position on screen. *)
AsksAgain ==
  follow # None /\ ~follow.busy /\ ~chat.error =>
    /\ page # None /\ W!SameTime(time, page.at)
    /\ follow.asked = W!Never \/ follow.asked = page.at

ReplayChatInv ==
  /\ ReplayChatTypes /\ OneHasTheFloor /\ CallsAnswerTheAsk /\ AsksAgain
  /\ W!PageAnswersTheAsk /\ W!LoadingIsServed

LEMMA ReplayChatStarts == NoneIsNoRecord /\ W!Init => ReplayChatInv
<1> SUFFICES ASSUME NoneIsNoRecord, W!Init PROVE ReplayChatInv  OBVIOUS
<1>1. /\ DOMAIN chat = ChatFields /\ chat.query = W!Blank /\ chat.following /\ ~chat.error
      /\ page = None /\ generation = 1 /\ correction = 0 /\ search = None  BY DEF W!Init, ChatFields
<1>2. /\ follow # None /\ DOMAIN follow = FollowFields /\ follow.version = 1 /\ follow.asked = time /\ follow.busy
  BY DEF W!Init, W!FollowAt, FollowFields, NoneIsNoRecord
<1>3. \A c \in calls :
        /\ DOMAIN c = {"version", "wants", "answer"} /\ c.version = 1 /\ DOMAIN c.wants = ShownFields
        /\ c.wants.what = "window" /\ c.wants.at = time /\ c.wants.correction = 0 /\ c.wants # None
  BY DEF W!Init, W!Call, W!Window, ShownFields, NoneIsNoRecord
<1>4. \A c, d \in calls : c = d  BY DEF W!Init
<1>5. ReplayChatTypes /\ OneHasTheFloor  BY <1>1, <1>2, <1>3 DEF ReplayChatTypes, OneHasTheFloor
<1>6. CallsAnswerTheAsk  BY <1>1, <1>2, <1>3, <1>4 DEF CallsAnswerTheAsk, AskedFor
<1>7. AsksAgain /\ W!PageAnswersTheAsk /\ W!LoadingIsServed
  BY <1>1, <1>2 DEF AsksAgain, W!PageAnswersTheAsk, W!LoadingIsServed
<1> QED BY <1>5, <1>6, <1>7 DEF ReplayChatInv

(* Whoever takes over begins with a number of its own and an empty page. *)
LEMMA FollowingTakesOver ==
  ASSUME NoneIsNoRecord, ReplayChatInv, NEW raised \in Nat, generation <= raised,
         W!StartFollowing(raised, time', correction')
  PROVE  ReplayChatInv'
<1>1. /\ DOMAIN chat' = ChatFields /\ chat'.query = W!Blank /\ chat'.following /\ ~chat'.error
      /\ page' = None /\ generation' = raised + 1 /\ search' = None
  BY DEF ReplayChatInv, ReplayChatTypes, ChatFields, W!StartFollowing
<1>2. /\ follow' # None /\ DOMAIN follow' = FollowFields /\ follow'.version = generation'
      /\ follow'.asked = time' /\ follow'.busy
  BY <1>1 DEF W!StartFollowing, W!FollowAt, FollowFields, NoneIsNoRecord
<1>3. PICK new : new = W!Call(raised + 1, W!Window(time', correction'))  OBVIOUS
<1>4. /\ DOMAIN new = {"version", "wants", "answer"} /\ new.version = generation' /\ DOMAIN new.wants = ShownFields
      /\ new.wants.what = "window" /\ new.wants.at = time' /\ new.wants.correction = correction' /\ new.wants # None
  BY <1>1, <1>3 DEF W!Call, W!Window, ShownFields, NoneIsNoRecord
<1>5. calls' = calls \cup {new}  BY <1>3 DEF W!StartFollowing
<1>6. \A c \in calls : c.version \in Nat /\ c.version < generation'  BY <1>1 DEF ReplayChatInv, ReplayChatTypes
<1>7. \A c \in calls' : c.version = generation' => c = new  BY <1>5, <1>6
<1>8. ReplayChatTypes' /\ OneHasTheFloor'
  BY <1>1, <1>2, <1>4, <1>5, <1>6 DEF ReplayChatInv, ReplayChatTypes, OneHasTheFloor
<1>9. CallsAnswerTheAsk'  BY <1>1, <1>2, <1>4, <1>7 DEF CallsAnswerTheAsk, AskedFor
<1>10. AsksAgain' /\ W!PageAnswersTheAsk' /\ W!LoadingIsServed'
  BY <1>1, <1>2 DEF AsksAgain, W!PageAnswersTheAsk, W!LoadingIsServed
<1> QED BY <1>8, <1>9, <1>10 DEF ReplayChatInv

LEMMA SearchingTakesOver ==
  ASSUME NoneIsNoRecord, ReplayChatInv, NEW raised \in Nat, generation <= raised,
         NEW q, W!StartSearching(raised, q, correction')
  PROVE  ReplayChatInv'
<1>1. /\ DOMAIN chat' = ChatFields /\ ~chat'.following
      /\ page' = None /\ generation' = raised + 1 /\ follow' = None /\ calls' = calls
  BY DEF ReplayChatInv, ReplayChatTypes, ChatFields, W!StartSearching
<1>2. /\ search' # None /\ DOMAIN search' = {"version", "timer"} /\ search'.version = generation' /\ search'.timer
  BY <1>1 DEF W!StartSearching, NoneIsNoRecord
<1>3. \A c \in calls' : c.version < generation' /\ c.version \in Nat  BY <1>1 DEF ReplayChatInv, ReplayChatTypes
<1>4. ReplayChatTypes' /\ OneHasTheFloor'  BY <1>1, <1>2, <1>3 DEF ReplayChatInv, ReplayChatTypes, OneHasTheFloor
<1>5. CallsAnswerTheAsk'  BY <1>1, <1>3 DEF CallsAnswerTheAsk
<1>6. AsksAgain' /\ W!PageAnswersTheAsk' /\ W!LoadingIsServed'
  BY <1>1, <1>2 DEF AsksAgain, W!PageAnswersTheAsk, W!LoadingIsServed
<1> QED BY <1>4, <1>5, <1>6 DEF ReplayChatInv

(* Browsing keeps the page that is on screen, which answers the same text. *)
LEMMA BrowsingTakesOver ==
  ASSUME NoneIsNoRecord, ReplayChatInv, NEW q, q = chat.query \/ q = W!Blank,
         NEW s, s = search \/ s = None,
         W!browse(q, s), UNCHANGED <<page, time, correction>>
  PROVE  ReplayChatInv'
<1>1. /\ DOMAIN chat' = ChatFields /\ ~chat'.following /\ chat'.query = q
      /\ page' = page /\ generation' = generation + 2 /\ follow' = None /\ search' = s
      /\ generation \in Nat  BY DEF ReplayChatInv, ReplayChatTypes, ChatFields, W!browse
<1>2. PICK new : new = W!Call(generation + 2, IF q = W!Blank THEN W!Log ELSE [W!Found(q, correction) EXCEPT !.what = "more"])
  OBVIOUS
<1>3. /\ DOMAIN new = {"version", "wants", "answer"} /\ new.version = generation' /\ DOMAIN new.wants = ShownFields
      /\ q = W!Blank => new.wants.what = "log"
      /\ q # W!Blank => new.wants.what = "more" /\ new.wants.query = q /\ new.wants.correction = correction
  <2>1. CASE q = W!Blank  BY <1>1, <1>2, <2>1 DEF W!Call, W!Log, ShownFields
  <2>2. CASE q # W!Blank
    <3>1. PICK f : f = W!Found(q, correction)  OBVIOUS
    <3>2. new.wants = [f EXCEPT !.what = "more"] /\ DOMAIN new = {"version", "wants", "answer"} /\ new.version = generation'
      BY <1>1, <1>2, <2>2, <3>1 DEF W!Call
    <3>3. DOMAIN f = ShownFields /\ f.query = q /\ f.correction = correction  BY <3>1 DEF W!Found, ShownFields
    <3> QED BY <2>2, <3>2, <3>3 DEF ShownFields
  <2> QED BY <2>1, <2>2
<1>4. new.wants # None  BY <1>3 DEF ShownFields, NoneIsNoRecord
<1>5. calls' = calls \cup {new}  BY <1>2 DEF W!browse
<1>6. \A c \in calls : c.version \in Nat /\ c.version < generation'  BY <1>1 DEF ReplayChatInv, ReplayChatTypes
<1>7. \A c \in calls' : c.version = generation' => c = new  BY <1>5, <1>6
<1>8. ReplayChatTypes' /\ OneHasTheFloor'
  BY <1>1, <1>3, <1>4, <1>5, <1>6 DEF ReplayChatInv, ReplayChatTypes, OneHasTheFloor
<1>9. CallsAnswerTheAsk'
  <2>1. AskedFor(new)'  BY <1>1, <1>3 DEF AskedFor, W!searching
  <2> QED BY <1>1, <1>7, <2>1 DEF CallsAnswerTheAsk
<1>10. AsksAgain' /\ W!LoadingIsServed'  BY <1>1, <1>3, <1>5 DEF AsksAgain, W!LoadingIsServed
<1>11. W!PageAnswersTheAsk'  BY <1>1 DEF ReplayChatInv, W!PageAnswersTheAsk, W!searching
<1> QED BY <1>8, <1>9, <1>10, <1>11 DEF ReplayChatInv

(* A question of the clock: the only one under the present number. *)
LEMMA AQuestionIsAsked ==
  ASSUME NoneIsNoRecord, ReplayChatInv, follow # None,
         NEW f, DOMAIN f = FollowFields, f.version = generation,
         NEW g, DOMAIN g = ChatFields, g.following, g.query = W!Blank,
         NEW cs, cs \subseteq calls, \A c \in cs : c.version # generation,
         follow' = [f EXCEPT !.asked = time', !.busy = TRUE],
         chat' = [g EXCEPT !.loading = TRUE],
         calls' = cs \cup {W!Call(f.version, W!Window(time', correction))},
         page' # None => page'.what = "window" /\ page'.correction = correction,
         UNCHANGED <<generation, search, correction>>
  PROVE  ReplayChatInv'
<1>1. DOMAIN chat' = ChatFields /\ chat'.query = W!Blank /\ chat'.following  BY DEF ChatFields
<1>2. DOMAIN follow' = FollowFields /\ follow'.version = generation' /\ follow'.asked = time' /\ follow'.busy
  BY DEF FollowFields
<1>3. follow' # None  BY <1>2 DEF NoneIsNoRecord, FollowFields
<1>4. PICK new : new = W!Call(generation, W!Window(time', correction))  OBVIOUS
<1>5. /\ DOMAIN new = {"version", "wants", "answer"} /\ new.version = generation' /\ DOMAIN new.wants = ShownFields
      /\ new.wants.what = "window" /\ new.wants.at = time' /\ new.wants.correction = correction'
  BY <1>4 DEF W!Call, W!Window, ShownFields
<1>6. new.wants # None  BY <1>5 DEF ShownFields, NoneIsNoRecord
<1>7. calls' = cs \cup {new}  BY <1>4
<1>8. \A c \in calls' : c.version = generation' => c = new  BY <1>7
<1>9. ReplayChatTypes' /\ OneHasTheFloor'
  BY <1>1, <1>2, <1>3, <1>5, <1>6, <1>7 DEF ReplayChatInv, ReplayChatTypes, OneHasTheFloor
<1>10. CallsAnswerTheAsk'  BY <1>1, <1>2, <1>3, <1>5, <1>8 DEF CallsAnswerTheAsk, AskedFor
<1>11. AsksAgain' /\ W!LoadingIsServed'  BY <1>2, <1>3 DEF AsksAgain, W!LoadingIsServed
<1>12. W!PageAnswersTheAsk'  BY <1>1 DEF W!PageAnswersTheAsk, W!searching
<1> QED BY <1>9, <1>10, <1>11, <1>12 DEF ReplayChatInv

LEMMA FollowerFacts ==
  ASSUME ReplayChatInv, follow # None
  PROVE  /\ DOMAIN follow = FollowFields /\ follow.version = generation
         /\ DOMAIN chat = ChatFields /\ chat.following /\ chat.query = W!Blank /\ search = None
         /\ page # None => page.what = "window" /\ page.correction = correction
         /\ ~follow.busy => \A c \in calls : c.version # generation
<1>1. /\ DOMAIN follow = FollowFields /\ follow.version = generation
      /\ DOMAIN chat = ChatFields /\ chat.following /\ chat.query = W!Blank /\ search = None
  BY DEF ReplayChatInv, ReplayChatTypes, OneHasTheFloor
<1>2. page # None => page.what = "window" /\ page.correction = correction
  BY <1>1 DEF ReplayChatInv, W!PageAnswersTheAsk
<1>3. \A c \in calls : c.version = generation => follow.busy
  <2> SUFFICES ASSUME NEW c \in calls, c.version = generation PROVE follow.busy  OBVIOUS
  <2>1. AskedFor(c)  BY DEF ReplayChatInv, CallsAnswerTheAsk
  <2> QED BY <1>1, <2>1 DEF AskedFor
<1> QED BY <1>1, <1>2, <1>3

LEMMA TickKeepsChat ==
  ASSUME NoneIsNoRecord, ReplayChatInv, NEW t \in Times, W!Tick(t)
  PROVE  ReplayChatInv'
<1>0. time' = t /\ UNCHANGED <<page, generation, search, correction, seen>>  BY DEF W!Tick
<1>1. CASE follow = None
  <2>1. UNCHANGED <<chat, follow, calls>>  BY <1>1 DEF W!Tick
  <2>2. AsksAgain'  BY <1>1, <2>1 DEF AsksAgain
  <2>3. ReplayChatTypes' /\ OneHasTheFloor' /\ W!PageAnswersTheAsk' /\ W!LoadingIsServed'
    BY <1>0, <2>1 DEF ReplayChatInv, ReplayChatTypes, OneHasTheFloor, W!PageAnswersTheAsk, W!searching, W!LoadingIsServed
  <2>4. CallsAnswerTheAsk'  BY <1>0, <2>1 DEF ReplayChatInv, CallsAnswerTheAsk, AskedFor, W!searching
  <2> QED BY <2>2, <2>3, <2>4 DEF ReplayChatInv
<1>2. CASE follow # None
  <2>1. W!Ask(follow, chat, time', calls)  BY <1>0, <1>2 DEF W!Tick
  <2>2. CASE follow.busy \/ (follow.asked # W!Never /\ W!SameTime(time', follow.asked))
    <3>1. UNCHANGED <<chat, follow, calls>>  BY <2>1, <2>2 DEF W!Ask
    <3>2. AsksAgain'  BY <1>0, <2>2, <3>1 DEF ReplayChatInv, AsksAgain
    <3>3. ReplayChatTypes' /\ OneHasTheFloor' /\ W!PageAnswersTheAsk' /\ W!LoadingIsServed'
      BY <1>0, <3>1 DEF ReplayChatInv, ReplayChatTypes, OneHasTheFloor, W!PageAnswersTheAsk, W!searching, W!LoadingIsServed
    <3>4. CallsAnswerTheAsk'  BY <1>0, <3>1 DEF ReplayChatInv, CallsAnswerTheAsk, AskedFor, W!searching
    <3> QED BY <3>2, <3>3, <3>4 DEF ReplayChatInv
  <2>3. CASE ~(follow.busy \/ (follow.asked # W!Never /\ W!SameTime(time', follow.asked)))
    <3>1. /\ follow' = [follow EXCEPT !.asked = time', !.busy = TRUE]
          /\ chat' = [chat EXCEPT !.loading = TRUE]
          /\ calls' = calls \cup {W!Call(follow.version, W!Window(time', correction))}
      BY <2>1, <2>3 DEF W!Ask
    <3>2. PICK f, g, cs : f = follow /\ g = chat /\ cs = calls  OBVIOUS
    <3>3. /\ DOMAIN f = FollowFields /\ f.version = generation /\ DOMAIN g = ChatFields /\ g.following /\ g.query = W!Blank
          /\ cs \subseteq calls /\ \A c \in cs : c.version # generation  BY <1>2, <2>3, <3>2, FollowerFacts
    <3>4. page' # None => page'.what = "window" /\ page'.correction = correction  BY <1>0, <1>2, FollowerFacts
    <3> QED BY <1>0, <1>2, <3>1, <3>2, <3>3, <3>4, AQuestionIsAsked
  <2> QED BY <2>2, <2>3
<1> QED BY <1>1, <1>2

LEMMA RetryKeepsChat ==
  ASSUME NoneIsNoRecord, ReplayChatInv, W!Retry
  PROVE  ReplayChatInv'
<1>0. follow # None /\ UNCHANGED <<page, generation, search, time, correction, seen>>  BY DEF W!Retry
<1>1. PICK f : f = [follow EXCEPT !.retry = FALSE, !.asked = W!Never]  OBVIOUS
<1>2. W!Ask(f, chat, time, calls)  BY <1>1 DEF W!Retry
<1>3. DOMAIN f = FollowFields /\ f.version = generation /\ (f.busy <=> follow.busy) /\ f.asked = W!Never
  BY <1>0, <1>1, FollowerFacts DEF FollowFields
<1>4. CASE f.busy
  <2>1. follow' = f /\ chat' = chat /\ calls' = calls  BY <1>2, <1>4 DEF W!Ask
  <2>2. f # None  BY <1>3 DEF NoneIsNoRecord, FollowFields
  <2>3. ReplayChatTypes' /\ OneHasTheFloor'
    BY <1>0, <1>3, <2>1, <2>2 DEF ReplayChatInv, ReplayChatTypes, OneHasTheFloor
  <2>4. AsksAgain' /\ W!PageAnswersTheAsk' /\ W!LoadingIsServed'
    BY <1>0, <1>4, <2>1, <2>2 DEF ReplayChatInv, AsksAgain, W!PageAnswersTheAsk, W!searching, W!LoadingIsServed
  <2>5. CallsAnswerTheAsk'
    BY <1>0, <1>3, <1>4, <2>1, <2>2 DEF ReplayChatInv, CallsAnswerTheAsk, AskedFor, W!searching
  <2> QED BY <2>3, <2>4, <2>5 DEF ReplayChatInv
<1>5. CASE ~f.busy
  <2>1. /\ follow' = [f EXCEPT !.asked = time', !.busy = TRUE]
        /\ chat' = [chat EXCEPT !.loading = TRUE]
        /\ calls' = calls \cup {W!Call(f.version, W!Window(time', correction))}
    BY <1>0, <1>2, <1>3, <1>5 DEF W!Ask
  <2>2. PICK g, cs : g = chat /\ cs = calls  OBVIOUS
  <2>3. /\ DOMAIN g = ChatFields /\ g.following /\ g.query = W!Blank
        /\ cs \subseteq calls /\ \A c \in cs : c.version # generation
    BY <1>0, <1>3, <1>5, <2>2, FollowerFacts
  <2>4. page' # None => page'.what = "window" /\ page'.correction = correction  BY <1>0, FollowerFacts
  <2> QED BY <1>0, <1>3, <2>1, <2>2, <2>3, <2>4, AQuestionIsAsked
<1> QED BY <1>4, <1>5

LEMMA ScrollKeepsChat ==
  ASSUME ReplayChatInv, W!onScroll
  PROVE  ReplayChatInv'
<1>1. /\ DOMAIN chat' = ChatFields /\ ~chat'.following /\ ~chat'.loading /\ chat'.query = W!Blank
      /\ generation' = generation + 1 /\ follow' = None /\ generation \in Nat
      /\ UNCHANGED <<page, search, time, correction, calls, seen>>
  BY DEF ReplayChatInv, ReplayChatTypes, OneHasTheFloor, W!onScroll, ChatFields
<1>2. \A c \in calls' : c.version < generation' /\ c.version \in Nat  BY <1>1 DEF ReplayChatInv, ReplayChatTypes
<1>3. ReplayChatTypes' /\ OneHasTheFloor'  BY <1>1, <1>2 DEF ReplayChatInv, ReplayChatTypes, OneHasTheFloor
<1>4. CallsAnswerTheAsk'  BY <1>1, <1>2 DEF CallsAnswerTheAsk
<1>5. AsksAgain' /\ W!PageAnswersTheAsk' /\ W!LoadingIsServed'
  BY <1>1 DEF AsksAgain, W!PageAnswersTheAsk, W!searching, W!LoadingIsServed
<1> QED BY <1>3, <1>4, <1>5 DEF ReplayChatInv

(* An answer that is dropped leaves the chat to whoever has the floor. *)
LEMMA DroppedAnswerKeepsChat ==
  ASSUME ReplayChatInv, NEW c \in calls, calls' = calls \ {c},
         DOMAIN chat' = ChatFields, chat'.following = chat.following, chat'.query = chat.query,
         chat'.loading = chat.loading, chat'.error = chat.error,
         UNCHANGED <<page, follow, generation, search, time, correction>>,
         c.version = generation /\ chat.loading =>
           (follow # None /\ follow.busy) \/ (search # None /\ search.version = generation /\ search.timer)
  PROVE  ReplayChatInv'
<1>1. ReplayChatTypes' /\ OneHasTheFloor'  BY DEF ReplayChatInv, ReplayChatTypes, OneHasTheFloor
<1>2. CallsAnswerTheAsk'  BY DEF ReplayChatInv, CallsAnswerTheAsk, AskedFor, W!searching
<1>3. AsksAgain' /\ W!PageAnswersTheAsk'  BY DEF ReplayChatInv, AsksAgain, W!PageAnswersTheAsk, W!searching
<1>4. W!LoadingIsServed'  BY DEF ReplayChatInv, W!LoadingIsServed
<1> QED BY <1>1, <1>2, <1>3, <1>4 DEF ReplayChatInv

LEMMA CallFacts ==
  ASSUME ReplayChatInv, NEW c \in calls, c.version = generation
  PROVE  /\ AskedFor(c)
         /\ \A d \in calls : d.version = generation /\ follow # None => d = c
  BY DEF ReplayChatInv, CallsAnswerTheAsk

LEMMA WindowAnswerKeepsChat ==
  ASSUME NoneIsNoRecord, ReplayChatInv, NEW c \in calls, W!WindowAnswered(c)
  PROVE  ReplayChatInv'
<1>0. UNCHANGED <<generation, search, time, correction, seen>> /\ c.wants.what = "window"  BY DEF W!WindowAnswered
<1>1. CASE follow = None \/ follow.version # c.version \/ generation # c.version
  <2>1. calls' = calls \ {c} /\ UNCHANGED <<chat, page, follow>>  BY <1>1 DEF W!WindowAnswered
  <2>2. c.version # generation
    <3> SUFFICES ASSUME c.version = generation PROVE FALSE  OBVIOUS
    <3>1. follow # None  BY <1>0, CallFacts DEF AskedFor
    <3> QED BY <1>1, <3>1 DEF ReplayChatInv, OneHasTheFloor
  <2>3. DOMAIN chat' = ChatFields  BY <2>1 DEF ReplayChatInv, ReplayChatTypes
  <2> QED BY <1>0, <2>1, <2>2, <2>3, DroppedAnswerKeepsChat
<1>2. CASE ~(follow = None \/ follow.version # c.version \/ generation # c.version)
  <2>0. follow # None /\ c.version = generation  BY <1>2
  <2>1. PICK f, g, cs : /\ f = [follow EXCEPT !.busy = FALSE, !.retry = @ \/ c.answer = "building"]
                        /\ g = [chat EXCEPT !.loading = FALSE, !.error = c.answer = "failed"]
                        /\ cs = calls \ {c}  OBVIOUS
  <2>2. /\ DOMAIN f = FollowFields /\ f.version = generation /\ ~f.busy /\ f.asked = follow.asked
        /\ DOMAIN g = ChatFields /\ g.following /\ g.query = W!Blank /\ ~g.loading
        /\ g.error <=> c.answer = "failed"  BY <2>0, <2>1, FollowerFacts DEF FollowFields, ChatFields
  <2>3. \A d \in cs : d.version # generation  BY <2>0, <2>1, CallFacts
  <2>4. /\ page' = IF c.answer = "failed" THEN page ELSE c.wants
        /\ IF W!SameTime(time, c.wants.at)
           THEN follow' = f /\ chat' = g /\ calls' = cs
           ELSE W!Ask(f, g, time, cs)  BY <1>2, <2>1 DEF W!WindowAnswered
  <2>5. c.wants.correction = correction /\ (follow.asked = W!Never \/ follow.asked = c.wants.at)
    BY <1>0, <2>0, CallFacts DEF AskedFor
  <2>6. page' # None => page'.what = "window" /\ page'.correction = correction
    BY <1>0, <2>0, <2>4, <2>5, FollowerFacts
  <2>7. CASE W!SameTime(time, c.wants.at)
    <3>1. follow' = f /\ chat' = g /\ calls' = cs  BY <2>4, <2>7
    <3>2. f # None  BY <2>2 DEF NoneIsNoRecord, FollowFields
    <3>3. ReplayChatTypes' /\ OneHasTheFloor'
      <4>1. cs \subseteq calls  BY <2>1
      <4> QED BY <1>0, <2>0, <2>2, <3>1, <3>2, <4>1, FollowerFacts DEF ReplayChatInv, ReplayChatTypes, OneHasTheFloor
    <3>4. CallsAnswerTheAsk'  BY <1>0, <2>3, <3>1 DEF CallsAnswerTheAsk
    <3>5. W!PageAnswersTheAsk' /\ W!LoadingIsServed'
      BY <2>2, <2>6, <3>1, <1>0 DEF W!PageAnswersTheAsk, W!searching, W!LoadingIsServed
    <3>6. AsksAgain'
      <4>1. c.wants # None  BY DEF ReplayChatInv, ReplayChatTypes
      <4>2. W!SameTime(time, c.wants.at)'  BY <1>0, <2>7 DEF W!SameTime
      <4> QED BY <1>0, <2>2, <2>4, <2>5, <3>1, <4>1, <4>2 DEF AsksAgain
    <3> QED BY <3>3, <3>4, <3>5, <3>6 DEF ReplayChatInv
  <2>8. CASE ~W!SameTime(time, c.wants.at)
    <3>1. ~(f.busy \/ (f.asked # W!Never /\ W!SameTime(time, f.asked)))  BY <2>2, <2>5, <2>8
    <3>2. /\ follow' = [f EXCEPT !.asked = time', !.busy = TRUE]
          /\ chat' = [g EXCEPT !.loading = TRUE]
          /\ calls' = cs \cup {W!Call(f.version, W!Window(time', correction))}
      BY <1>0, <2>4, <2>8, <3>1 DEF W!Ask
    <3>3. cs \subseteq calls  BY <2>1
    <3> QED BY <1>0, <2>0, <2>2, <2>3, <2>6, <3>2, <3>3, AQuestionIsAsked
  <2> QED BY <2>7, <2>8
<1> QED BY <1>1, <1>2

LEMMA LoadKeepsChat ==
  ASSUME NoneIsNoRecord, ReplayChatInv, W!load
  PROVE  ReplayChatInv'
<1>0. /\ search # None /\ search.timer /\ UNCHANGED <<chat, page, generation, follow, time, correction, seen>>
      /\ search' = [search EXCEPT !.timer = FALSE]  BY DEF W!load
<1>1. /\ DOMAIN search = {"version", "timer"} /\ search.version \in Nat /\ search.version <= generation
      /\ ~chat.following /\ follow = None  BY <1>0 DEF ReplayChatInv, ReplayChatTypes, OneHasTheFloor
<1>2. PICK new : new = W!Call(search.version, W!Found(chat.query, correction))  OBVIOUS
<1>3. /\ DOMAIN new = {"version", "wants", "answer"} /\ new.version = search.version /\ DOMAIN new.wants = ShownFields
      /\ new.wants.what = "search" /\ new.wants.query = chat.query /\ new.wants.correction = correction
  BY <1>2 DEF W!Call, W!Found, ShownFields
<1>4. new.wants # None  BY <1>3 DEF ShownFields, NoneIsNoRecord
<1>5. calls' = calls \cup {new}  BY <1>2 DEF W!load
<1>6. DOMAIN search' = {"version", "timer"} /\ search'.version = search.version /\ ~search'.timer  BY <1>0, <1>1
<1>7. search' # None  BY <1>6 DEF NoneIsNoRecord
<1>8. ReplayChatTypes' /\ OneHasTheFloor'
  BY <1>0, <1>1, <1>3, <1>4, <1>5, <1>6, <1>7 DEF ReplayChatInv, ReplayChatTypes, OneHasTheFloor
<1>9. CallsAnswerTheAsk'
  <2>1. AskedFor(new)' \/ new.version # generation  BY <1>0, <1>1, <1>3, <1>6, <1>7 DEF AskedFor
  <2>2. \A d \in calls : d.version = generation => AskedFor(d)'
    BY <1>0, <1>6, <1>7 DEF ReplayChatInv, CallsAnswerTheAsk, AskedFor, W!searching
  <2> QED BY <1>0, <1>1, <1>5, <2>1, <2>2 DEF CallsAnswerTheAsk
<1>10. AsksAgain' /\ W!PageAnswersTheAsk'  BY <1>0 DEF ReplayChatInv, AsksAgain, W!PageAnswersTheAsk, W!searching
<1>11. W!LoadingIsServed'  BY <1>0, <1>3, <1>5, <1>6, <1>7 DEF ReplayChatInv, W!LoadingIsServed
<1> QED BY <1>8, <1>9, <1>10, <1>11 DEF ReplayChatInv

LEMMA SearchAnswerKeepsChat ==
  ASSUME NoneIsNoRecord, ReplayChatInv, NEW c \in calls, W!SearchAnswered(c)
  PROVE  ReplayChatInv'
<1>0. UNCHANGED <<generation, follow, time, correction, seen>> /\ c.wants.what = "search" /\ calls' = calls \ {c}
  BY DEF W!SearchAnswered
<1>1. CASE search = None \/ search.version # c.version \/ generation # c.version
  <2>1. UNCHANGED <<chat, page, search>>  BY <1>1 DEF W!SearchAnswered
  <2>2. ~(c.version = generation /\ chat.loading)
    <3> SUFFICES ASSUME c.version = generation, chat.loading PROVE FALSE  OBVIOUS
    <3>1. search # None /\ search.version = generation  BY <1>0, CallFacts DEF AskedFor
    <3> QED BY <1>1, <3>1
  <2>3. DOMAIN chat' = ChatFields  BY <2>1 DEF ReplayChatInv, ReplayChatTypes
  <2> QED BY <1>0, <2>1, <2>2, <2>3, DroppedAnswerKeepsChat
<1>2. CASE ~(search = None \/ search.version # c.version \/ generation # c.version)
  <2>0. search # None /\ search.version = generation /\ c.version = generation  BY <1>2
  <2>1. /\ chat' = [chat EXCEPT !.loading = FALSE, !.error = @ \/ c.answer = "failed"]
        /\ page' = IF c.answer = "failed" THEN page ELSE c.wants
        /\ search' = [search EXCEPT !.timer = c.answer = "building"]  BY <1>2 DEF W!SearchAnswered
  <2>2. DOMAIN chat' = ChatFields /\ ~chat'.loading /\ chat'.following = chat.following /\ chat'.query = chat.query
    BY <2>1 DEF ReplayChatInv, ReplayChatTypes, ChatFields
  <2>3. DOMAIN search' = {"version", "timer"} /\ search'.version = search.version
    BY <2>0, <2>1 DEF ReplayChatInv, ReplayChatTypes
  <2>4. search' # None  BY <2>3 DEF NoneIsNoRecord
  <2>5. ~chat.following /\ follow = None  BY <2>0 DEF ReplayChatInv, OneHasTheFloor
  <2>6. ReplayChatTypes' /\ OneHasTheFloor'
    BY <1>0, <2>0, <2>2, <2>3, <2>4, <2>5 DEF ReplayChatInv, ReplayChatTypes, OneHasTheFloor
  <2>7. CallsAnswerTheAsk'  BY <1>0, <2>2, <2>5 DEF ReplayChatInv, CallsAnswerTheAsk, AskedFor, W!searching
  <2>8. AsksAgain' /\ W!LoadingIsServed'  BY <1>0, <2>2, <2>5 DEF AsksAgain, W!LoadingIsServed
  <2>9. AskedFor(c)  BY <2>0, CallFacts
  <2>10. W!PageAnswersTheAsk'
    <3>1. CASE c.answer = "failed"  BY <1>0, <2>1, <2>2, <3>1 DEF ReplayChatInv, W!PageAnswersTheAsk, W!searching
    <3>2. CASE c.answer # "failed"
      BY <1>0, <2>1, <2>2, <2>5, <2>9, <3>2 DEF AskedFor, W!PageAnswersTheAsk, W!searching
    <3> QED BY <3>1, <3>2
  <2> QED BY <2>6, <2>7, <2>8, <2>10 DEF ReplayChatInv
<1> QED BY <1>1, <1>2

LEMMA PageAnswerKeepsChat ==
  ASSUME ReplayChatInv, NEW c \in calls, W!PageAnswered(c)
  PROVE  ReplayChatInv'
<1>0. /\ UNCHANGED <<generation, follow, search, time, correction, seen>> /\ calls' = calls \ {c}
      /\ c.wants.what \in {"log", "more"}  BY DEF W!PageAnswered
<1>1. CASE generation # c.version
  <2>1. chat' = [chat EXCEPT !.paging = FALSE] /\ UNCHANGED page  BY <1>1 DEF W!PageAnswered
  <2>2. /\ DOMAIN chat' = ChatFields /\ chat'.following = chat.following /\ chat'.query = chat.query
        /\ chat'.loading = chat.loading /\ chat'.error = chat.error
    BY <2>1 DEF ReplayChatInv, ReplayChatTypes, ChatFields
  <2> QED BY <1>0, <1>1, <2>1, <2>2, DroppedAnswerKeepsChat
<1>2. CASE generation = c.version
  <2>1. /\ chat' = [chat EXCEPT !.paging = FALSE, !.loading = FALSE, !.error = @ \/ c.answer = "failed"]
        /\ page' = IF c.answer = "failed" THEN page ELSE c.wants  BY <1>2 DEF W!PageAnswered
  <2>2. DOMAIN chat' = ChatFields /\ ~chat'.loading /\ chat'.following = chat.following /\ chat'.query = chat.query
    BY <2>1 DEF ReplayChatInv, ReplayChatTypes, ChatFields
  <2>3. AskedFor(c)  BY <1>2, CallFacts
  <2>4. ~chat.following  BY <1>0, <2>3 DEF AskedFor
  <2>5. follow = None  BY <2>4 DEF ReplayChatInv, OneHasTheFloor
  <2>6. ReplayChatTypes' /\ OneHasTheFloor'  BY <1>0, <2>2, <2>5 DEF ReplayChatInv, ReplayChatTypes, OneHasTheFloor
  <2>7. CallsAnswerTheAsk'  BY <1>0, <2>2, <2>5 DEF ReplayChatInv, CallsAnswerTheAsk, AskedFor, W!searching
  <2>8. AsksAgain' /\ W!LoadingIsServed'  BY <1>0, <2>2, <2>5 DEF AsksAgain, W!LoadingIsServed
  <2>10. W!PageAnswersTheAsk'
    <3>1. CASE c.answer = "failed"  BY <1>0, <2>1, <2>2, <3>1 DEF ReplayChatInv, W!PageAnswersTheAsk, W!searching
    <3>2. CASE c.answer # "failed"
      BY <1>0, <2>1, <2>2, <2>3, <2>4, <3>2 DEF AskedFor, W!PageAnswersTheAsk, W!searching
    <3> QED BY <3>1, <3>2
  <2> QED BY <2>6, <2>7, <2>8, <2>10 DEF ReplayChatInv
<1> QED BY <1>1, <1>2

LEMMA LogKeepsChat ==
  ASSUME NoneIsNoRecord, ReplayChatInv, W!AllLog
  PROVE  ReplayChatInv'
<1>0. ~chat.loading /\ UNCHANGED <<page, time, correction, seen>>  BY DEF W!AllLog
<1>1. CASE ~chat.paging
  <2>1. PICK q, s : q = W!Blank /\ s = None  OBVIOUS
  <2>2. W!browse(q, s)  BY <1>1, <2>1 DEF W!AllLog
  <2> QED BY <1>0, <2>1, <2>2, BrowsingTakesOver
<1>2. CASE chat.paging
  <2>1. chat' = [chat EXCEPT !.query = W!Blank] /\ search' = None /\ UNCHANGED <<generation, follow, calls>>
    BY <1>2 DEF W!AllLog
  <2>2. /\ DOMAIN chat' = ChatFields /\ ~chat'.loading /\ chat'.following = chat.following /\ chat'.query = W!Blank
        /\ chat'.error = chat.error  BY <1>0, <2>1 DEF ReplayChatInv, ReplayChatTypes, ChatFields
  <2>3. ReplayChatTypes' /\ OneHasTheFloor'  BY <2>1, <2>2 DEF ReplayChatInv, ReplayChatTypes, OneHasTheFloor
  <2>4. CallsAnswerTheAsk'  BY <1>0, <2>1, <2>2 DEF ReplayChatInv, CallsAnswerTheAsk, AskedFor, W!searching
  <2>5. AsksAgain' /\ W!PageAnswersTheAsk' /\ W!LoadingIsServed'
    BY <1>0, <2>1, <2>2 DEF ReplayChatInv, AsksAgain, W!PageAnswersTheAsk, W!searching, W!LoadingIsServed
  <2> QED BY <2>3, <2>4, <2>5 DEF ReplayChatInv
<1> QED BY <1>1, <1>2

LEMMA CorrectionKeepsChat ==
  ASSUME NoneIsNoRecord, ReplayChatInv, W!Correct
  PROVE  ReplayChatInv'
<1>0. UNCHANGED <<time, seen>> /\ generation \in Nat  BY DEF W!Correct, ReplayChatInv, ReplayChatTypes
<1>1. CASE W!searching
  <2>1. W!StartSearching(generation, chat.query, correction')  BY <1>1 DEF W!Correct
  <2>2. PICK q : q = chat.query  OBVIOUS
  <2> QED BY <1>0, <2>1, <2>2, SearchingTakesOver
<1>2. CASE ~W!searching /\ chat.following
  <2>1. W!StartFollowing(generation, time', correction')  BY <1>0, <1>2 DEF W!Correct
  <2> QED BY <1>0, <2>1, FollowingTakesOver
<1>3. CASE ~W!searching /\ ~chat.following
  <2>1. UNCHANGED <<chat, page, generation, follow, search, calls>> /\ follow = None
    BY <1>3 DEF W!Correct, ReplayChatInv, OneHasTheFloor
  <2>2. ReplayChatTypes' /\ OneHasTheFloor' /\ AsksAgain' /\ W!LoadingIsServed'
    BY <2>1 DEF ReplayChatInv, ReplayChatTypes, OneHasTheFloor, AsksAgain, W!LoadingIsServed
  <2>3. CallsAnswerTheAsk'  BY <1>3, <2>1 DEF ReplayChatInv, CallsAnswerTheAsk, AskedFor, W!searching
  <2>4. W!PageAnswersTheAsk'  BY <1>3, <2>1 DEF W!PageAnswersTheAsk, W!searching
  <2> QED BY <2>2, <2>3, <2>4 DEF ReplayChatInv
<1> QED BY <1>1, <1>2, <1>3

LEMMA ServingKeepsChat ==
  ASSUME ReplayChatInv, NEW c \in calls, W!Served(c)
  PROVE  ReplayChatInv'
<1>0. UNCHANGED <<chat, page, generation, follow, search, time, correction>>  BY DEF W!Served
<1>1. PICK a : calls' = (calls \ {c}) \cup {[c EXCEPT !.answer = a]}  BY DEF W!Served
<1>2. PICK d : d = [c EXCEPT !.answer = a]  OBVIOUS
<1>3. DOMAIN d = {"version", "wants", "answer"} /\ d.version = c.version /\ d.wants = c.wants
  BY <1>2 DEF ReplayChatInv, ReplayChatTypes
<1>4. calls' = (calls \ {c}) \cup {d}  BY <1>1, <1>2
<1>5. ReplayChatTypes' /\ OneHasTheFloor'  BY <1>0, <1>3, <1>4 DEF ReplayChatInv, ReplayChatTypes, OneHasTheFloor
<1>6. CallsAnswerTheAsk'
  <2>1. d.version = generation => AskedFor(d)'  BY <1>0, <1>3, CallFacts DEF AskedFor, W!searching
  <2>2. \A e \in calls : e.version = generation => AskedFor(e)'
    BY <1>0 DEF ReplayChatInv, CallsAnswerTheAsk, AskedFor, W!searching
  <2>3. \A e \in calls : e.version = generation /\ c.version = generation /\ follow # None => e = c  BY CallFacts
  <2>4. \A e, f \in calls : e.version = generation /\ f.version = generation /\ follow # None => e = f
    BY DEF ReplayChatInv, CallsAnswerTheAsk
  <2> QED BY <1>0, <1>3, <1>4, <2>1, <2>2, <2>3, <2>4 DEF CallsAnswerTheAsk
<1>7. AsksAgain' /\ W!PageAnswersTheAsk'  BY <1>0 DEF ReplayChatInv, AsksAgain, W!PageAnswersTheAsk, W!searching
<1>8. W!LoadingIsServed'  BY <1>0, <1>3, <1>4 DEF ReplayChatInv, W!LoadingIsServed
<1> QED BY <1>5, <1>6, <1>7, <1>8 DEF ReplayChatInv

LEMMA JumpsKeepChat ==
  ASSUME NoneIsNoRecord, ReplayChatInv, NEW t \in Times, W!Seek(t) \/ W!resume(t)
  PROVE  ReplayChatInv'
<1>0. generation \in Nat /\ generation + 1 \in Nat /\ generation <= generation + 1
  BY DEF ReplayChatInv, ReplayChatTypes
<1>1. CASE W!Seek(t) /\ W!searching
  <2>1. UNCHANGED <<chat, page, generation, follow, search, calls, correction, seen>>  BY <1>1 DEF W!Seek
  <2>2. follow = None  BY <1>1 DEF ReplayChatInv, OneHasTheFloor, W!searching
  <2>3. ReplayChatTypes' /\ OneHasTheFloor' /\ AsksAgain' /\ W!LoadingIsServed' /\ W!PageAnswersTheAsk'
    BY <2>1, <2>2 DEF ReplayChatInv, ReplayChatTypes, OneHasTheFloor, AsksAgain, W!LoadingIsServed, W!PageAnswersTheAsk, W!searching
  <2>4. CallsAnswerTheAsk'  BY <2>1 DEF ReplayChatInv, CallsAnswerTheAsk, AskedFor, W!searching
  <2> QED BY <2>3, <2>4 DEF ReplayChatInv
<1>2. CASE W!Seek(t) /\ ~W!searching
  <2>1. W!StartFollowing(generation, time', correction')  BY <1>2 DEF W!Seek
  <2> QED BY <1>0, <2>1, FollowingTakesOver
<1>3. CASE W!resume(t)
  <2>1. PICK raised \in Nat : raised = generation + 1  BY <1>0
  <2>2. W!StartFollowing(raised, time', correction')  BY <1>3, <2>1 DEF W!resume
  <2>3. generation <= raised  BY <1>0, <2>1
  <2> QED BY <2>2, <2>3, FollowingTakesOver
<1> QED BY <1>1, <1>2, <1>3

LEMMA QueriesKeepChat ==
  ASSUME NoneIsNoRecord, ReplayChatInv,
         (\E q \in Queries \cup {W!Blank} : W!changeQuery(q)) \/ W!SearchAgain
  PROVE  ReplayChatInv'
<1>0. generation \in Nat  BY DEF ReplayChatInv, ReplayChatTypes
<1>1. PICK raised \in Nat : raised = generation + 1  BY <1>0
<1>2. generation <= raised  BY <1>0, <1>1
<1>3. CASE W!SearchAgain
  <2>1. PICK q : q = chat.query  OBVIOUS
  <2>2. W!StartSearching(generation, q, correction')  BY <1>3, <2>1 DEF W!SearchAgain, W!StartSearching
  <2> QED BY <1>0, <2>2, SearchingTakesOver
<1>4. ASSUME NEW q \in Queries \cup {W!Blank}, W!changeQuery(q) PROVE ReplayChatInv'
  <2>1. CASE q = W!Blank
    <3>1. W!StartFollowing(raised, time', correction')  BY <1>1, <1>4, <2>1 DEF W!changeQuery
    <3> QED BY <1>2, <3>1, FollowingTakesOver
  <2>2. CASE q # W!Blank
    <3>1. W!StartSearching(raised, q, correction')  BY <1>1, <1>4, <2>2 DEF W!changeQuery, W!StartSearching
    <3> QED BY <1>2, <3>1, SearchingTakesOver
  <2> QED BY <2>1, <2>2
<1> QED BY <1>3, <1>4

LEMMA ReplayChatKept ==
  ASSUME NoneIsNoRecord, ReplayChatInv, [W!Next]_(W!vars)
  PROVE  ReplayChatInv'
<1>1. CASE W!Follow
  <2>1. CASE W!Answered
    BY <2>1, ServingKeepsChat, WindowAnswerKeepsChat, SearchAnswerKeepsChat, PageAnswerKeepsChat DEF W!Answered
  <2>2. CASE \E t \in Times : W!Tick(t) \/ W!Seek(t) \/ W!resume(t)  BY <2>2, TickKeepsChat, JumpsKeepChat
  <2> QED BY <1>1, <2>1, <2>2, RetryKeepsChat, ScrollKeepsChat DEF W!Follow
<1>2. CASE W!Searching  BY <1>2, QueriesKeepChat, LoadKeepsChat DEF W!Searching
<1>3. CASE W!Turn
  <2>1. PICK q, s : q = chat.query /\ s = search  OBVIOUS
  <2>2. W!browse(q, s) /\ UNCHANGED <<page, time, correction>>  BY <1>3, <2>1 DEF W!Turn
  <2> QED BY <2>1, <2>2, BrowsingTakesOver
<1>4. CASE UNCHANGED W!vars
  <2>1. ReplayChatTypes' /\ OneHasTheFloor' /\ AsksAgain' /\ W!LoadingIsServed' /\ W!PageAnswersTheAsk'
    BY <1>4 DEF W!vars, ReplayChatInv, ReplayChatTypes, OneHasTheFloor, AsksAgain, W!LoadingIsServed, W!PageAnswersTheAsk,
                W!searching
  <2>2. CallsAnswerTheAsk'  BY <1>4 DEF W!vars, ReplayChatInv, CallsAnswerTheAsk, AskedFor, W!searching
  <2> QED BY <2>1, <2>2 DEF ReplayChatInv
<1> QED BY <1>1, <1>2, <1>3, <1>4, LogKeepsChat, CorrectionKeepsChat DEF W!Next

(* The chat of a recording watched again: what is on screen answers what the chat says it shows, a
   chat that follows shows the player's position or asks for it, and "loading" ends, however
   often following, searching and browsing take over from one another. *)
THEOREM TheChatAnswers ==
  ASSUME NoneIsNoRecord
  PROVE  W!Spec => [](W!PageAnswersTheAsk /\ W!FollowsTheClock /\ W!LoadingIsServed)
<1>1. ReplayChatInv => W!PageAnswersTheAsk /\ W!FollowsTheClock /\ W!LoadingIsServed
  BY DEF ReplayChatInv, AsksAgain, W!FollowsTheClock
<1>2. W!Init => ReplayChatInv  BY ReplayChatStarts
<1>3. ReplayChatInv /\ [W!Next]_(W!vars) => ReplayChatInv'  BY ReplayChatKept
<1> QED BY <1>1, <1>2, <1>3, PTL DEF W!Spec

====
