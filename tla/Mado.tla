---- MODULE Mado ----
(***************************************************************************)
(* Watching several broadcasts: the draft of what to watch, its            *)
(* configuration on the native side, the snapshots polled from there, the  *)
(* screenshots it asks to confirm, and the place of each native pane on the*)
(* page.  Leaving the page ends neither calls nor what is being watched.   *)
(* The page is only ever mounted with unifiedLive (StreamingWorkspace.tsx  *)
(* line 51); what it would do without is dead code and left out.           *)
(***************************************************************************)
EXTENDS Integers, Sequences, FiniteSets

CONSTANTS
    Channels,
    MaxSteps,       \* things the user does (bound)
    MaxEpoch,       \* configurations (bound)
    MaxSends,       \* requests for a place (bound)
    None

Rows == 1..2
Inputs == [Rows -> Channels \cup {None, "bad"}]
Drafts == [inputs : Inputs, mode : {"paired", "chats"}, lead : Rows, single : BOOLEAN]
Blank == [inputs |-> [i \in Rows |-> None], mode |-> "paired", lead |-> 1, single |-> TRUE]

VARIABLES
    native,     \* [active, epoch, entries, locked, control, serial]
    refused,    \* closing a configuration nobody shows was refused
    shown,      \* the snapshot shown, of the same form
    adopted,    \* the epochs a page has shown
    page,       \* [life, mounted, revision, busy, first, settings, inline, edited, error, pollError, dismissed]
    draft,
    applied,    \* appliedMode
    poll,       \* the poll under way: [life, revision, got], or None
    calls,      \* [kind, life, epoch, entries, at, got]
    pane,       \* a native pane: [alive, want, key, revision, latest, flying, retry]
    flights,    \* its requests: [view, revision, attempt, seq, at]
    surface,    \* what the native side shows: [view, seq]
    sends, steps

nativeVars == <<native, refused>>
pageVars == <<shown, adopted, page, draft, applied>>
wireVars == <<poll, calls>>
paneVars == <<pane, flights, surface, sends>>
vars == <<nativeVars, pageVars, wireVars, paneVars, steps>>

Step == steps < MaxSteps /\ steps' = steps + 1
Idle == [active |-> FALSE, epoch |-> 0, entries |-> <<>>, locked |-> FALSE, control |-> None, serial |-> 0]

----
(* The draft. *)

\* multiviewEntries; None stands for its refusals.
Entries(d) ==
    LET used == SelectSeq(<<1, 2>>, LAMBDA i : d.inputs[i] # None /\ (d.single => i = 1))
        video(i) == d.single \/ d.mode = "paired" \/ i = d.lead
        chosen == {used[k] : k \in DOMAIN used}
    IN  IF \/ used = <<>> \/ \E i \in chosen : d.inputs[i] = "bad"
           \/ \E i, j \in chosen : i # j /\ d.inputs[i] = d.inputs[j]
           \/ \A i \in chosen : ~video(i)
        THEN None
        ELSE [k \in DOMAIN used |-> [channel |-> d.inputs[used[k]], video |-> video(used[k])]]

Videos(entries) == {k \in DOMAIN entries : entries[k].video}
ModeOf(entries) == IF Cardinality(Videos(entries)) = 1 /\ Len(entries) > 1 THEN "chats" ELSE "paired"
\* The draft that a configuration found running was made from.
Restored(entries) ==
    [inputs |-> [i \in Rows |-> IF i <= Len(entries) THEN entries[i].channel ELSE None], mode |-> ModeOf(entries),
     lead |-> CHOOSE k \in Videos(entries) : \A j \in Videos(entries) : k <= j, single |-> Len(entries) <= 1]

Edit(d) ==
    /\ page.mounted /\ ~page.busy /\ ~shown.locked /\ (page.settings \/ page.inline \/ ~shown.active) /\ d # draft /\ Step
    /\ draft' = d /\ page' = [page EXCEPT !.edited = TRUE, !.inline = @ \/ ~page.settings]
    /\ UNCHANGED <<nativeVars, shown, adopted, applied, wireVars, paneVars>>
OpenSettings ==
    /\ page.mounted /\ ~page.settings /\ Step /\ page' = [page EXCEPT !.settings = TRUE]
    /\ UNCHANGED <<nativeVars, shown, adopted, draft, applied, wireVars, paneVars>>
Closed(p) == [p EXCEPT !.settings = FALSE, !.inline = FALSE]
CloseSettings ==
    /\ page.mounted /\ page.settings /\ Step /\ page' = Closed(page)
    /\ UNCHANGED <<nativeVars, shown, adopted, draft, applied, wireVars, paneVars>>

----
(* Calls: one at a time. *)

Started == [page EXCEPT !.revision = @ + 1, !.busy = TRUE, !.error = FALSE]
Failed == [page EXCEPT !.revision = @ + 1, !.error = TRUE]
Call(kind, entries) ==
    /\ calls' = calls \cup {[kind |-> kind, life |-> page.life, epoch |-> shown.epoch, entries |-> entries,
                             at |-> "sent", got |-> None]}
    /\ page' = Started

Apply ==
    /\ page.mounted /\ ~page.busy /\ Step
    /\ IF shown.locked \/ Entries(draft) = None THEN page' = Failed /\ UNCHANGED calls
       ELSE Call("configure", Entries(draft))
    /\ UNCHANGED <<nativeVars, shown, adopted, draft, applied, poll, paneVars>>
Leave ==
    /\ page.mounted /\ ~page.busy /\ shown.active /\ Step
    /\ IF shown.locked THEN page' = Failed /\ UNCHANGED calls ELSE Call("close", <<>>)
    /\ UNCHANGED <<nativeVars, shown, adopted, draft, applied, poll, paneVars>>
\* The S key, where it is clear which broadcast is meant.
Screenshot ==
    /\ page.mounted /\ ~page.busy /\ ~page.pollError /\ shown.active /\ shown.control = None
    /\ Cardinality(Videos(shown.entries)) = 1 /\ Step /\ Call("request", <<>>)
    /\ UNCHANGED <<nativeVars, shown, adopted, draft, applied, poll, paneVars>>
Confirm(approve) ==
    /\ page.mounted /\ ~page.busy /\ shown.control # None /\ shown.control # page.dismissed
    /\ ~(approve /\ page.pollError) /\ Step /\ Call("confirm", <<>>)
    /\ UNCHANGED <<nativeVars, shown, adopted, draft, applied, poll, paneVars>>

Becomes(n) == native' = [n EXCEPT !.serial = @ + 1]
Replied(c, got) == calls' = (calls \ {c}) \cup {[c EXCEPT !.at = "served", !.got = got]}
Refused(c) == Replied(c, None) /\ UNCHANGED native
\* The native side: a configuration has a new epoch; the rest is for the epoch it names.
CallServed(c) ==
    /\ c.at = "sent"
    /\ CASE c.kind = "configure" ->
              IF native.locked \/ native.epoch = MaxEpoch THEN Refused(c)
              ELSE /\ Becomes([native EXCEPT !.active = TRUE, !.epoch = @ + 1, !.entries = c.entries, !.control = None])
                   /\ Replied(c, native')
         [] c.kind = "close" ->
              IF native.locked THEN Refused(c)
              ELSE IF c.epoch # native.epoch THEN UNCHANGED native /\ Replied(c, native)
              ELSE Becomes([native EXCEPT !.active = FALSE, !.entries = <<>>, !.control = None]) /\ Replied(c, native')
         [] c.kind = "request" ->
              IF c.epoch # native.epoch \/ ~native.active THEN Refused(c)
              ELSE Becomes([native EXCEPT !.control = native.serial]) /\ Replied(c, native')
         [] c.kind = "confirm" ->
              IF c.epoch # native.epoch \/ ~native.active THEN Refused(c)
              ELSE Becomes([native EXCEPT !.control = None]) /\ Replied(c, native')
    /\ refused' = (refused \/ (native.locked /\ c.kind = "close" /\ (c.life # page.life \/ ~page.mounted)))
    /\ UNCHANGED <<pageVars, poll, paneVars, steps>>

Shown(s) == shown' = s /\ adopted' = adopted \cup {s.epoch}
\* The page that asked is gone: its answer is not looked at.
LateIgnored(c) == calls' = calls \ {c} /\ UNCHANGED <<shown, adopted, page, applied>>
\* The page that asked is gone: what it configured is closed.
Late(c) ==
    /\ calls' = (calls \ {c}) \cup IF c.kind # "configure" \/ c.got = None THEN {}
                 ELSE {[c EXCEPT !.kind = "close", !.epoch = c.got.epoch, !.at = "sent", !.got = None]}
    /\ UNCHANGED <<shown, adopted, page, applied>>
CallAnswered(c) ==
    /\ c.at = "served"
    /\ IF ~page.mounted \/ c.life # page.life THEN Late(c)
       ELSE /\ calls' = calls \ {c}
            /\ IF c.got = None THEN page' = [page EXCEPT !.busy = FALSE, !.error = TRUE] /\ UNCHANGED <<shown, adopted>>
               ELSE /\ Shown(c.got)
                    /\ page' = [IF c.kind \in {"configure", "close"} THEN Closed(page)
                                ELSE [page EXCEPT !.dismissed = IF c.kind = "confirm" THEN shown.control ELSE @]
                                EXCEPT !.busy = FALSE]
            /\ applied' = IF c.got # None /\ c.kind = "configure"
                          THEN IF draft.single THEN "paired" ELSE draft.mode ELSE applied
    /\ UNCHANGED <<nativeVars, draft, poll, paneVars, steps>>

----
(* Polls, and the page itself. *)

Poll == /\ page.mounted /\ poll = None /\ ~page.busy
        /\ poll' = [life |-> page.life, revision |-> page.revision, got |-> <<>>]
        /\ UNCHANGED <<nativeVars, pageVars, calls, paneVars, steps>>
PollServed == /\ poll # None /\ poll.got = <<>> /\ poll' = [poll EXCEPT !.got = <<native>>]
              /\ UNCHANGED <<nativeVars, pageVars, calls, paneVars, steps>>

Polled(s) ==
    /\ Shown(s)
    /\ IF page.first /\ s.active
       THEN /\ applied' = ModeOf(s.entries)
            /\ draft' = IF page.edited THEN draft ELSE Restored(s.entries)
       ELSE UNCHANGED <<applied, draft>>
    /\ page' = [page EXCEPT !.pollError = FALSE, !.first = FALSE]
Ignored == UNCHANGED <<shown, adopted, page, draft, applied>>
Answer(fits) ==
    /\ poll # None /\ poll.got # <<>> /\ poll' = None
    /\ IF ~fits THEN Ignored
       ELSE \/ Polled(poll.got[1])
            \/ page' = [page EXCEPT !.pollError = TRUE] /\ UNCHANGED <<shown, adopted, draft, applied>>
    /\ UNCHANGED <<nativeVars, calls, paneVars, steps>>
\* A poll that a call overtook is dropped, even when the call is over.
PollAnswered == Answer(page.mounted /\ poll.life = page.life /\ ~page.busy /\ poll.revision = page.revision)

\* What is watched goes on without the page.
Unmount == /\ page.mounted /\ Step /\ page' = [page EXCEPT !.mounted = FALSE]
           /\ UNCHANGED <<nativeVars, shown, adopted, draft, applied, wireVars, paneVars>>
Mount ==
    /\ ~page.mounted /\ Step
    /\ page' = [life |-> page.life + 1, mounted |-> TRUE, revision |-> 0, busy |-> FALSE, first |-> TRUE, settings |-> FALSE,
                inline |-> FALSE, edited |-> FALSE, error |-> FALSE, pollError |-> FALSE, dismissed |-> None]
    /\ shown' = Idle /\ draft' = Blank /\ applied' = "paired"
    /\ poll' = None /\ UNCHANGED <<nativeVars, adopted, calls, paneVars>>
\* Recordings hold the layout; they begin and end on the native side.
Record == Step /\ Becomes([native EXCEPT !.locked = ~@]) /\ UNCHANGED <<refused, pageVars, wireVars, paneVars>>

\* A player asks for a screenshot itself; a question not answered in time is withdrawn.
Raise == /\ native.active /\ native.control = None /\ Step /\ Becomes([native EXCEPT !.control = native.serial])
         /\ UNCHANGED <<refused, pageVars, wireVars, paneVars>>
Expire == /\ page.mounted /\ shown.control # None /\ shown.control # page.dismissed
          /\ page' = [page EXCEPT !.dismissed = shown.control]
          /\ UNCHANGED <<nativeVars, shown, adopted, draft, applied, wireVars, paneVars, steps>>

----
(* The place of a pane: "shown", "masked" under a dialog, or "hidden". *)

Send(p, view, revision, attempt) ==
    /\ sends < MaxSends /\ sends' = sends + 1
    /\ pane' = [p EXCEPT !.retry = None, !.flying = IF view = "shown" THEN @ + 1 ELSE @]
    /\ flights' = flights \cup {[view |-> view, revision |-> revision, attempt |-> attempt, seq |-> sends + 1, at |-> "sent"]}
Placing == UNCHANGED <<nativeVars, pageVars, wireVars>>

Look(v) == pane.alive /\ v # pane.want /\ Step /\ pane' = [pane EXCEPT !.want = v] /\ UNCHANGED <<flights, surface, sends>> /\ Placing
\* Showing waits for the show before; anything else goes at once and drops what waits.
Update ==
    LET p == [pane EXCEPT !.key = pane.want, !.revision = @ + 1, !.retry = None]
    IN  /\ pane.alive /\ pane.want # pane.key /\ Placing /\ UNCHANGED <<surface, steps>>
        /\ IF p.want = "shown" /\ p.flying > 0
           THEN pane' = [p EXCEPT !.latest = p.revision] /\ UNCHANGED <<flights, sends>>
           ELSE Send([p EXCEPT !.latest = IF p.want = "shown" THEN @ ELSE None], p.want, p.revision, 0)

Land(f, result) == flights' = (flights \ {f}) \cup {[f EXCEPT !.at = result]}
\* Requests land in any order; an older one than the last is stale, and hiding does not fail.
Placed(f) ==
    /\ f.at = "sent"
    /\ IF f.seq < surface.seq THEN Land(f, "stale") /\ UNCHANGED surface
       ELSE \/ Land(f, "ok") /\ surface' = [view |-> f.view, seq |-> f.seq]
            \/ /\ f.view # "hidden" /\ Land(f, "failed")
               /\ surface' \in {[view |-> "hidden", seq |-> f.seq], [surface EXCEPT !.seq = f.seq]}
    /\ UNCHANGED <<pane, sends, steps>> /\ Placing

\* A mask that failed is followed by hiding, a show is tried again twice; the show that waited is sent.
PlaceAnswered(f) ==
    LET mine == pane.alive /\ f.revision = pane.revision
        freed == [pane EXCEPT !.flying = IF f.view = "shown" THEN @ - 1 ELSE @, !.key = IF mine /\ f.at # "ok" THEN None ELSE @,
                              !.retry = IF mine /\ f.at = "failed" /\ f.view = "shown" /\ f.attempt < 2 THEN f.attempt + 1 ELSE @]
        rest == flights \ {f}
        hide == mine /\ f.at # "ok" /\ f.view = "masked"
        next == pane.alive /\ f.view = "shown" /\ pane.latest = pane.revision
        request(view, revision) == [view |-> view, revision |-> revision, attempt |-> 0, seq |-> sends + 1, at |-> "sent"]
    IN  /\ f.at # "sent" /\ Placing /\ UNCHANGED <<surface, steps>>
        /\ hide \/ next => sends < MaxSends
        /\ sends' = IF hide \/ next THEN sends + 1 ELSE sends
        /\ flights' = rest \cup IF hide THEN {request("hidden", -1)} ELSE IF next THEN {request("shown", pane.revision)} ELSE {}
        /\ pane' = [freed EXCEPT !.latest = IF f.view = "shown" THEN None ELSE @,
                                 !.flying = IF next THEN @ + 1 ELSE @, !.retry = IF next THEN None ELSE @]
RetryDue == /\ pane.alive /\ pane.retry # None /\ Send(pane, "shown", pane.revision, pane.retry)
            /\ UNCHANGED <<surface, steps>> /\ Placing
Dispose == /\ pane.alive /\ Step /\ Send([pane EXCEPT !.alive = FALSE, !.revision = @ + 1, !.latest = None], "hidden", -1, 0)
           /\ UNCHANGED surface /\ Placing

----
Init ==
    /\ native \in {Idle, [Idle EXCEPT !.active = TRUE, !.epoch = 1,
                                      !.entries = <<[channel |-> CHOOSE c \in Channels : TRUE, video |-> TRUE]>>]}
    /\ refused = FALSE /\ shown = Idle /\ adopted = {native.epoch}
    /\ page = [life |-> 1, mounted |-> TRUE, revision |-> 0, busy |-> FALSE, first |-> TRUE, settings |-> FALSE,
               inline |-> FALSE, edited |-> FALSE, error |-> FALSE, pollError |-> FALSE, dismissed |-> None]
    /\ draft = Blank /\ applied = "paired" /\ poll = None /\ calls = {}
    /\ pane = [alive |-> TRUE, want |-> "shown", key |-> None, revision |-> 0, latest |-> None, flying |-> 0, retry |-> None]
    /\ flights = {} /\ surface = [view |-> "hidden", seq |-> 0] /\ sends = 0 /\ steps = 0

Watching ==
    \/ Apply \/ Leave \/ Screenshot \/ OpenSettings \/ CloseSettings \/ Record \/ Raise \/ Expire
    \/ \E approve \in BOOLEAN : Confirm(approve)
    \/ \E c \in calls : CallServed(c) \/ CallAnswered(c)
    \/ Poll \/ PollServed \/ PollAnswered \/ Unmount \/ Mount
Placement ==
    \/ \E v \in {"shown", "masked", "hidden"} : Look(v)
    \/ \E f \in flights : Placed(f) \/ PlaceAnswered(f)
    \/ Update \/ RetryDue \/ Dispose

Next == Watching \/ Placement \/ \E d \in Drafts : Edit(d)

Spec == Init /\ [][Next]_vars

----
\* What is configured is what some page has shown: a configuration whose page was left
\* before it answered is closed, unless a recording holds it.
NoOrphan == calls = {} /\ native.active /\ ~refused => native.epoch \in adopted

\* Once its requests have landed, a pane that is gone or must be hidden covers nothing.
GonePaneIsHidden ==
    flights = {} /\ (~pane.alive \/ (pane.want = "hidden" /\ pane.key = "hidden")) => surface.view = "hidden"
====
