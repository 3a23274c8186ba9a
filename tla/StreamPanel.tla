---- MODULE StreamPanel ----
(***************************************************************************)
(* The panel of the official player and the library of recordings.  The    *)
(* native host owns the window and the recordings; the panel asks for a    *)
(* snapshot every two seconds, sends one action at a time, and must not    *)
(* take an answer that an action, or a later visit, has overtaken.         *)
(***************************************************************************)
EXTENDS Integers, FiniteSets

CONSTANTS
    Recordings,     \* recordings that may be made
    MaxVisits,      \* times the panel is entered or left (bound)
    MaxActions,     \* actions of the user (bound)
    None

VARIABLES
    host,       \* the native side: [open, status, recording, saved, merging, control]
    panel,      \* [active, busy, pending, has, error, dismissed, settings]
    shown,      \* the snapshot on screen, with the same fields
    life,       \* lifetime
    version,    \* requestVersion
    polls,      \* polls under way: [life, version, snap]
    calls,      \* actions under way: [kind, life, arg, snap, removed]
    library,    \* [selecting, checked, confirm, deleting]: the library's own state
    made,       \* recordings made so far
    removed     \* deletions that this visit was told of

vars == <<host, panel, shown, life, version, polls, calls, library, made, removed>>

emptySnapshot == [open |-> FALSE, status |-> "ready", recording |-> None, saved |-> {}, merging |-> {}, control |-> None]
NoPanel == [active |-> FALSE, pending |-> None, has |-> FALSE, error |-> FALSE, dismissed |-> 0, settings |-> FALSE]
NoLibrary == [selecting |-> FALSE, checked |-> {}, confirm |-> {}, deleting |-> FALSE]

\* Recordings of earlier sessions may be saved already.
Init ==
    /\ made \in 0..Cardinality(Recordings)
    /\ host = [emptySnapshot EXCEPT !.saved = 1..made] /\ shown = emptySnapshot
    /\ panel = NoPanel /\ library = NoLibrary
    /\ life = 0 /\ version = 0 /\ polls = {} /\ calls = {} /\ removed = {}

hasRecording == shown.recording # None \/ shown.status # "ready"
canDelete(r) == r \in shown.saved /\ r \notin shown.merging

----
(* Visits and polls. *)

\* The effect on `active`: a visit begins with nothing, and the library's own
\* state goes with the panel.
SetActive ==
    /\ life < MaxVisits
    /\ life' = life + 1
    /\ panel' = [NoPanel EXCEPT !.active = ~panel.active, !.dismissed = panel.dismissed]
    /\ shown' = emptySnapshot /\ library' = NoLibrary /\ removed' = {}
    /\ UNCHANGED <<host, version, polls, calls, made>>

Poll ==
    /\ panel.active /\ panel.pending = None
    /\ \A p \in polls : p.life # life
    /\ polls' = polls \cup {[life |-> life, version |-> version, snap |-> None]}
    /\ UNCHANGED <<host, panel, shown, life, version, calls, library, made, removed>>

PollServed(p) ==
    /\ p.snap = None
    /\ polls' = (polls \ {p}) \cup {[p EXCEPT !.snap = host]}
    /\ UNCHANGED <<host, panel, shown, life, version, calls, library, made, removed>>

\* The library drops from its choice what can no longer be deleted.
Pruned(snap) == [library EXCEPT !.checked = {r \in @ : r \in snap.saved /\ r \notin snap.merging}]

PollAnswered(p) ==
    /\ p.snap # None
    /\ polls' = polls \ {p}
    /\ IF p.life # life \/ p.version # version \/ panel.pending # None
       THEN UNCHANGED <<panel, shown, library>>
       ELSE \/ /\ shown' = p.snap /\ library' = Pruned(p.snap)
               /\ panel' = [panel EXCEPT !.has = TRUE, !.error = FALSE]
            \/ panel' = [panel EXCEPT !.error = TRUE] /\ UNCHANGED <<shown, library>>
    /\ UNCHANGED <<host, life, version, calls, made, removed>>

----
(* Actions. *)

\* runAction: one at a time; the polls before it are overtaken.
RunAction(kind, arg) ==
    /\ panel.active /\ panel.pending = None /\ version < MaxActions
    /\ version' = version + 1
    /\ panel' = [panel EXCEPT !.pending = kind]
    /\ calls' = calls \cup {[kind |-> kind, life |-> life, arg |-> arg, snap |-> None, removed |-> {}]}

Kept == UNCHANGED <<host, shown, life, polls, made, removed>>

Open == ~hasRecording /\ RunAction("open", None) /\ Kept /\ UNCHANGED library
Start == shown.open /\ ~hasRecording /\ ~panel.error /\ RunAction("start", None) /\ Kept /\ UNCHANGED library
Stop == hasRecording /\ RunAction("stop", None) /\ Kept /\ UNCHANGED library
RetryMerge(r) == r \in shown.saved /\ RunAction("merge", r) /\ Kept /\ UNCHANGED library

\* A screenshot asked for by the page is confirmed here, once.
Control == shown.control # None /\ shown.control > panel.dismissed
ConfirmControl(approve) ==
    /\ Control /\ (approve => shown.open /\ ~panel.error)
    /\ RunAction("control", shown.control) /\ Kept /\ UNCHANGED library

\* The library: choose, confirm, delete.
ToggleSelecting ==
    /\ panel.has /\ library' = [NoLibrary EXCEPT !.selecting = ~library.selecting]
    /\ ~library.deleting
    /\ UNCHANGED <<host, panel, shown, life, version, polls, calls, made, removed>>
Toggle(r) ==
    /\ library.selecting /\ canDelete(r) /\ panel.pending = None /\ ~library.deleting
    /\ library' = [library EXCEPT !.checked = IF r \in @ THEN @ \ {r} ELSE @ \cup {r}]
    /\ UNCHANGED <<host, panel, shown, life, version, polls, calls, made, removed>>
AskDelete ==
    /\ library.checked # {} /\ library.confirm = {} /\ panel.pending = None
    /\ library' = [library EXCEPT !.confirm = library.checked]
    /\ UNCHANGED <<host, panel, shown, life, version, polls, calls, made, removed>>
CancelDelete ==
    /\ library.confirm # {} /\ ~library.deleting
    /\ library' = [library EXCEPT !.confirm = {}]
    /\ UNCHANGED <<host, panel, shown, life, version, polls, calls, made, removed>>

\* Deletion does not overtake the polls before it.
DeleteKeepingVersion ==
    /\ library.confirm # {} /\ ~library.deleting
    /\ panel.active /\ panel.pending = None
    /\ panel' = [panel EXCEPT !.pending = "delete"]
    /\ calls' = calls \cup {[kind |-> "delete", life |-> life, arg |-> library.confirm, snap |-> None, removed |-> {}]}
    /\ library' = [library EXCEPT !.deleting = TRUE]
    /\ UNCHANGED <<version, host, shown, life, polls, made, removed>>

DeleteRecordings ==
    /\ library.confirm # {} /\ ~library.deleting
    /\ RunAction("delete", library.confirm) /\ Kept
    /\ library' = [library EXCEPT !.deleting = TRUE]

\* The host: each command is served whole, and answers with a snapshot.  A recording is
\* armed and stopped by messages to the page, which begins and ends it later.
Opened == [host EXCEPT !.open = TRUE]
Started == IF host.open /\ host.recording = None /\ host.status # "starting"
           THEN [host EXCEPT !.status = "starting"] ELSE host
Stopped == [host EXCEPT !.status = IF host.recording = None THEN "ready" ELSE "stopping"]
Confirmed(c) == [host EXCEPT !.control = IF host.control = c.arg THEN None ELSE @]
Without(ids) == [host EXCEPT !.saved = @ \ ids]

Outcome(c) ==
    CASE c.kind = "open" -> Opened [] c.kind = "start" -> Started [] c.kind = "stop" -> Stopped
      [] c.kind = "control" -> Confirmed(c)
      [] c.kind = "merge" -> [host EXCEPT !.merging = @ \cup ({c.arg} \cap host.saved)]
      [] OTHER -> Without(c.arg \ host.merging)

CallServed(c) ==
    /\ c.snap = None
    /\ host' = Outcome(c)
    /\ calls' = (calls \ {c}) \cup {[c EXCEPT !.snap = host', !.removed = host.saved \ host'.saved]}
    /\ UNCHANGED <<panel, shown, life, version, polls, library, made, removed>>

\* Answers of an earlier visit are dropped.  What was deleted leaves the list;
\* what could not be stays chosen.
CallAnswered(c) ==
    /\ c.snap # None
    /\ calls' = calls \ {c}
    /\ IF c.life # life THEN UNCHANGED <<panel, shown, library, removed>>
       ELSE \/ /\ c.kind = "delete"
               /\ shown' = [shown EXCEPT !.saved = @ \ c.removed]
               /\ library' = [library EXCEPT !.checked = @ \ c.removed, !.confirm = {}, !.deleting = FALSE]
               /\ panel' = [panel EXCEPT !.pending = None]
               /\ removed' = removed \cup c.removed
            \/ /\ c.kind # "delete"
               /\ shown' = c.snap /\ library' = Pruned(c.snap)
               /\ panel' = [panel EXCEPT !.pending = None, !.has = TRUE, !.error = FALSE,
                                         !.dismissed = IF c.kind = "control" THEN c.arg ELSE @]
               /\ UNCHANGED removed
            \/ /\ panel' = [panel EXCEPT !.pending = None]
               /\ library' = [library EXCEPT !.deleting = FALSE]
               /\ UNCHANGED <<shown, removed>>
    /\ UNCHANGED <<host, life, version, polls, made>>

\* The page begins what was armed, within its time.
RecordingBegins ==
    /\ host.status = "starting" /\ made < Cardinality(Recordings)
    /\ host' = [host EXCEPT !.recording = made + 1, !.status = "recording"] /\ made' = made + 1
    /\ UNCHANGED <<panel, shown, life, version, polls, calls, library, removed>>

\* The page ends a recording, or goes away with it; its parts are merged then.
Ended == IF host.recording = None THEN [host EXCEPT !.status = "ready"]
         ELSE [host EXCEPT !.recording = None, !.status = "ready", !.saved = @ \cup {host.recording},
                           !.merging = @ \cup {host.recording}]

\* The host goes on by itself: recordings end and are merged, one that was armed is given
\* up, the window closes, the page asks for a screenshot, the request expires.
HostChanges ==
    /\ host' \in {Ended, [Ended EXCEPT !.open = FALSE, !.control = None], [host EXCEPT !.merging = {}],
                  [host EXCEPT !.control = 1], [host EXCEPT !.control = None]}
    /\ host' # host
    /\ host'.control # None => host.open
    /\ UNCHANGED <<panel, shown, life, version, polls, calls, library, made, removed>>

Next ==
    \/ SetActive \/ Poll \/ (\E p \in polls : PollServed(p) \/ PollAnswered(p))
    \/ Open \/ Start \/ Stop \/ (\E r \in Recordings : RetryMerge(r) \/ Toggle(r))
    \/ (\E approve \in BOOLEAN : ConfirmControl(approve))
    \/ ToggleSelecting \/ AskDelete \/ CancelDelete \/ DeleteRecordings
    \/ (\E c \in calls : CallServed(c) \/ CallAnswered(c)) \/ RecordingBegins \/ HostChanges

Spec == Init /\ [][Next]_vars

----
\* A recording whose deletion this visit was told of does not come back to the
\* list: "an earlier poll must not resurrect removed cards".
NothingResurrects == shown.saved \cap removed = {}
====
