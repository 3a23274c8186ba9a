---- MODULE StreamStage ----
(***************************************************************************)
(* The place of the official player: a native surface that covers the page *)
(* where the streaming panel leaves room for it.  Showing it is a request  *)
(* that waits for the one before; hiding it, or masking it under a dialog, *)
(* overtakes them.  Requests may reach the native side in another order    *)
(* than they were made, answers may come late, and a reload of the page    *)
(* leaves requests of the old document behind.                             *)
(***************************************************************************)
EXTENDS Integers, FiniteSets

CONSTANTS
    MaxRequests,    \* writes of one document (bound)
    MaxFailures,    \* writes the native side fails (bound)
    MaxEpoch,       \* loads of the page (bound)
    None

VARIABLES
    screen,     \* [live, privacy, stage]: what the panel knows; stage is "shown", "covered"
                \* by a dialog, or "away" (out of view)
    known,      \* the epoch of the panel's snapshot
    frame,      \* a measurement is scheduled
    desk,       \* the coordinator: [owner, revision, running, pending, target, retry, last]
    generation, \* of the transport: requestSequence
    flights,    \* writes: [view, epoch, owner, rev, attempt, seq, at, result]
    native,     \* [surface, seq, epoch]: the native side
    failures

vars == <<screen, known, frame, desk, generation, flights, native, failures>>
panelVars == <<screen, known, frame>>

NoDesk == [owner |-> 0, revision |-> 0, running |-> FALSE, pending |-> None, target |-> None,
           retry |-> None, last |-> None]

\* What the panel wants on the stage; a hidden one asked for by privacy is silent too.
Measured ==
    IF ~screen.live \/ screen.privacy \/ screen.stage = "away" THEN "hidden"
    ELSE IF screen.stage = "covered" THEN "masked" ELSE "shown"

Init ==
    /\ screen = [live |-> FALSE, privacy |-> FALSE, stage |-> "shown"]
    /\ known = 0 /\ frame = FALSE
    /\ desk = [NoDesk EXCEPT !.owner = 1, !.revision = 1]
    /\ generation = 0 /\ flights = {} /\ failures = 0
    /\ native = [surface |-> "hidden", seq |-> 0, epoch |-> 0]

----
(* The coordinator and the transport. *)

\* mutateViewport: a show is queued behind the tail, anything else leaves at once.
Flight(next, seq) ==
    [view |-> next.view, epoch |-> next.epoch, owner |-> next.owner, rev |-> next.rev,
     attempt |-> next.attempt, seq |-> seq, at |-> IF next.view = "shown" THEN "tail" ELSE "sent", result |-> "ok"]

\* The coordinator with its requests on the way: one step of the code is a
\* chain of these.
Desk == [d |-> desk, f |-> flights, g |-> generation]
Current(d, next) == d.owner = next.owner /\ d.revision = next.rev
Write(s, next) ==
    [d |-> [s.d EXCEPT !.last = IF Current(s.d, next) THEN None ELSE @],
     f |-> s.f \cup {Flight(next, s.g + 1)}, g |-> s.g + 1]

\* drain: shows go out one by one.
Drain(s) ==
    IF s.d.running \/ s.d.pending = None THEN s
    ELSE LET next == s.d.pending
             taken == [s EXCEPT !.d.pending = None]
         IN  IF Current(s.d, next) THEN Write([taken EXCEPT !.d.running = TRUE], next) ELSE taken

Submit(s, view, epoch, owner) ==
    LET next == [view |-> view, epoch |-> epoch, owner |-> owner, rev |-> s.d.revision + 1, attempt |-> 0]
        asked == [s EXCEPT !.d.revision = @ + 1, !.d.retry = None, !.d.target = next,
                           !.d.pending = None, !.d.last = None]
    IN  IF view = "shown" THEN Drain([asked EXCEPT !.d.pending = next]) ELSE Write(asked, next)

\* update: the same rectangle is not asked for again while it is on its way or there.
Update(s, view, epoch) ==
    LET d == s.d
        same == /\ d.target # None
                /\ d.target.owner = d.owner /\ d.target.view = view /\ d.target.epoch = epoch
        busy == \/ d.pending # None \/ d.retry # None \/ d.last = <<view, epoch>>
                \/ \E f \in s.f : f.rev = d.target.rev /\ f.attempt = d.target.attempt
    IN  IF same /\ busy THEN s ELSE Submit(s, view, epoch, d.owner)

Claim(s) == [s EXCEPT !.d.owner = @ + 1, !.d.revision = @ + 1, !.d.retry = None]

\* release: the leaving panel hides its surface under an owner nobody else has.
Release(s) ==
    LET left == [s EXCEPT !.d.owner = @ + 1]
    IN  Submit(left, "hidden", IF s.d.target = None THEN known ELSE s.d.target.epoch, left.d.owner)

Settle(s) ==
    /\ s.g <= MaxRequests
    /\ desk' = s.d /\ flights' = s.f /\ generation' = s.g

\* The queue of shows: one that was overtaken is answered without being sent.
Dispatch(f) ==
    /\ f.at = "tail"
    /\ \A o \in flights : o.at = "tail" => o.seq >= f.seq
    /\ \A o \in flights : o.view = "shown" /\ o.seq < f.seq => o.at = "done"
    /\ flights' = (flights \ {f}) \cup {[f EXCEPT !.at = IF f.seq = generation THEN "sent" ELSE "done"]}
    /\ UNCHANGED <<panelVars, desk, generation, native, failures>>

\* An old show, or a request older than the last one taken, changes nothing.
Stale(f) ==
    IF f.epoch = native.epoch THEN f.seq < native.seq
    ELSE f.view # "hidden" \/ native.seq > 0

\* Requests are taken as they come.
NativeServesAny(f) ==
    /\ f.at = "sent"
    /\ flights' = (flights \ {f}) \cup {[f EXCEPT !.at = "done"]}
    /\ native' = [native EXCEPT !.surface = f.view, !.seq = f.seq]
    /\ UNCHANGED <<panelVars, desk, generation, failures>>

\* set_viewport: what is not stale replaces the surface; a placement that fails
\* hides it.
NativeServes(f) ==
    LET seq == IF f.epoch = native.epoch THEN f.seq ELSE native.seq
        done(result) == flights' = (flights \ {f}) \cup {[f EXCEPT !.at = "done", !.result = result]}
    IN  /\ f.at = "sent"
        /\ \/ Stale(f) /\ done("stale") /\ UNCHANGED <<native, failures>>
           \/ /\ ~Stale(f) /\ done("ok")
              /\ native' = [native EXCEPT !.surface = f.view, !.seq = seq]
              /\ UNCHANGED failures
           \/ /\ ~Stale(f) /\ f.view # "hidden" /\ failures < MaxFailures
              /\ done("failed") /\ failures' = failures + 1
              /\ native' = [native EXCEPT !.surface = "hidden", !.seq = seq]
        /\ UNCHANGED <<panelVars, desk, generation>>

\* The rest of write: a mask that failed is followed by a hide, a show is tried
\* again twice.
Answered(f) ==
    LET mine == Current(desk, f)
        freed == IF f.view = "shown" THEN [desk EXCEPT !.running = FALSE] ELSE desk
        noted == IF ~mine THEN freed
                 ELSE [freed EXCEPT !.last = IF f.result = "ok" THEN <<f.view, f.epoch>> ELSE None,
                                    !.retry = IF f.result = "failed" /\ f.attempt < 2
                                              THEN [f EXCEPT !.attempt = @ + 1] ELSE @]
        after == [d |-> noted, f |-> flights \ {f}, g |-> generation]
        hide == [f EXCEPT !.view = "hidden", !.rev = 0, !.owner = 0]
    IN  /\ f.at = "done" /\ f.rev > 0
        /\ Settle(Drain(IF mine /\ f.result # "ok" /\ f.view = "masked" THEN Write(after, hide) ELSE after))
        /\ UNCHANGED <<panelVars, native, failures>>

\* The answer of the hide after a failed mask is not looked at.
Ignored(f) ==
    /\ f.at = "done" /\ f.rev = 0
    /\ flights' = flights \ {f}
    /\ UNCHANGED <<panelVars, desk, generation, native, failures>>

RetryDue ==
    /\ desk.retry # None
    /\ LET next == [view |-> desk.retry.view, epoch |-> desk.retry.epoch, owner |-> desk.retry.owner,
                    rev |-> desk.retry.rev, attempt |-> desk.retry.attempt]
       IN  Settle(IF ~Current(desk, next) THEN [Desk EXCEPT !.d.retry = None]
                  ELSE Drain([Desk EXCEPT !.d.retry = None, !.d.target = next, !.d.pending = next]))
    /\ UNCHANGED <<panelVars, native, failures>>

----
(* The panel. *)

\* The layout effect runs again: the old claim is released, a new one measures.
Reattach(next, epoch) ==
    /\ screen' = next /\ known' = epoch /\ frame' = FALSE
    /\ Settle(Update(Claim(Release(Desk)), Measured', epoch))
    /\ UNCHANGED <<native, failures>>

\* Another view or source is chosen, or the player's window opens or closes.
ToggleLive == Reattach([screen EXCEPT !.live = ~@], known)

TogglePrivacy == Reattach([screen EXCEPT !.privacy = ~@], known)

\* The first snapshot of a document tells the epoch.
EpochKnown == known # native.epoch /\ Reattach(screen, native.epoch)

Attached == screen.live /\ ~screen.privacy

\* A dialog over the stage is measured at once, other changes with the next frame.
StageChanges(stage) ==
    /\ Attached /\ stage # screen.stage
    /\ screen' = [screen EXCEPT !.stage = stage]
    /\ IF stage = "covered"
       THEN frame' = FALSE /\ Settle(Update(Desk, Measured', known))
       ELSE frame' = TRUE /\ UNCHANGED <<desk, flights, generation>>
    /\ UNCHANGED <<known, native, failures>>

Measure ==
    /\ frame /\ frame' = FALSE
    /\ Settle(Update(Desk, Measured, known))
    /\ UNCHANGED <<screen, known, native, failures>>

\* The page is loaded again: the native side hides the surface and begins a new
\* epoch; what the old document sent is still on its way.
Reload ==
    /\ native.epoch < MaxEpoch
    /\ native' = [surface |-> "hidden", seq |-> 0, epoch |-> native.epoch + 1]
    /\ screen' = [screen EXCEPT !.live = FALSE] /\ known' = 0 /\ frame' = FALSE
    /\ desk' = [NoDesk EXCEPT !.owner = 1, !.revision = 1]
    /\ generation' = 0
    /\ flights' = {[f EXCEPT !.rev = 0, !.owner = 0] : f \in {o \in flights : o.at = "sent"}}
    /\ UNCHANGED failures

Next ==
    \/ ToggleLive \/ TogglePrivacy \/ EpochKnown \/ Measure \/ Reload \/ RetryDue
    \/ \E stage \in {"shown", "covered", "away"} : StageChanges(stage)
    \/ \E f \in flights : Dispatch(f) \/ NativeServes(f) \/ Answered(f) \/ Ignored(f)

Spec == Init /\ [][Next]_vars

----
\* While privacy is on, or the stage was left, the surface can only be uncovered
\* as long as the hide that was asked for is on its way: nothing that was asked
\* before it, or by an earlier document, uncovers it again.
HiddenStaysHidden ==
    (~screen.live \/ screen.privacy) /\ native.surface # "hidden" =>
        \E f \in flights : f.view = "hidden" /\ f.at = "sent" /\ ~Stale(f)

\* When everything has been answered, the surface is what the panel measured,
\* or hidden after a placement failed.
StageIsSettled ==
    (flights = {} /\ desk.pending = None /\ desk.retry = None /\ ~frame /\ known = native.epoch) =>
        native.surface \in {Measured, "hidden"} /\ (failures = 0 => native.surface = Measured)
====
