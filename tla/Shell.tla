---- MODULE Shell ----
(***************************************************************************)
(* The application shell: the dialog that confirms quitting, the updater   *)
(* and its reservation against recordings, the guided tour, the start of   *)
(* the window and the content source.  These share the window: a request   *)
(* to quit ends a tour, and a tour hides the offer of an update.           *)
(***************************************************************************)
EXTENDS Integers, FiniteSets

CONSTANTS
    Sources,        \* content sources
    MaxWork,        \* changes of the set of running work (bound)
    MaxQuestions,   \* questions for the running work (bound)
    MaxVisits,      \* steps of tours that are entered (bound)
    MaxInstalls,    \* installations tried (bound)
    None

VARIABLES
    work,       \* the backend's set of running work; 0 is none
    exit,       \* the exit dialog: [open, snap, error, armed, acting, seq]
    status,     \* questions for the running work: [seq, arm, got]
    reply,      \* the answer of the action under way, None while it runs
    failed,     \* status questions in vain since the dialog opened (history)
    gone,       \* the process has ended
    update,     \* the updater: [phase, found, checking, install]
    reserved,   \* the backend holds recordings back for an installation
    recording,  \* a recording runs
    leaked,     \* giving the reservation back failed (history)
    installs,
    source,     \* the source on screen
    tour,       \* the tour: [source, step, visit, started, pending]
    dismissed,  \* sources whose tour has been shown before
    reports,    \* operations of a tour step under way: [step, visit]
    earned,     \* the operation of the waiting step succeeded (history)
    visits,
    start       \* the start: [phase, settings, ready]

exitVars == <<work, exit, status, reply, failed>>
updateVars == <<update, reserved, recording, leaked, installs>>
tourVars == <<source, tour, dismissed, reports, earned, visits>>
vars == <<exitVars, updateVars, tourVars, gone, start>>

----
(* useAppExit and ExitConfirmDialog. *)

NoExit == [open |-> FALSE, snap |-> None, error |-> FALSE, armed |-> FALSE,
           acting |-> "none", seq |-> 0]
NoTour == [source |-> None, step |-> 0, visit |-> 0, started |-> FALSE, pending |-> FALSE]
Unknown == -1       \* the work could not be determined
Acting(e) == e.acting # "none"

WorkChanges ==
    /\ work < MaxWork
    /\ \E w \in {0, work + 1} : w # work /\ work' = w
    /\ UNCHANGED <<exit, status, reply, failed, updateVars, tourVars, gone, start>>

\* refreshSnapshot: the newest question owns the answer.
Ask(e, arm) ==
    /\ exit' = [e EXCEPT !.seq = @ + 1]
    /\ status' = status \cup {[seq |-> e.seq + 1, arm |-> arm, got |-> None]}

ExitRequested ==
    /\ ~exit.open /\ ~Acting(exit)
    /\ exit.seq < MaxQuestions
    /\ Ask([NoExit EXCEPT !.open = TRUE, !.seq = exit.seq], FALSE)
    /\ tour' = NoTour
    /\ failed' = 0
    /\ UNCHANGED <<work, reply, updateVars, source, dismissed, reports, earned, visits, gone, start>>

CloseExitConfirm ==
    /\ exit.open /\ ~Acting(exit)
    /\ exit' = [exit EXCEPT !.open = FALSE, !.seq = @ + 1]
    /\ UNCHANGED <<work, status, reply, failed, updateVars, tourVars, gone, start>>

StatusServed(c) ==
    /\ c.got = None
    /\ \E got \in {work, Unknown} :
          status' = (status \ {c}) \cup {[c EXCEPT !.got = got]}
    /\ UNCHANGED <<work, exit, reply, failed, updateVars, tourVars, gone, start>>

\* An answer to an older question is dropped; a question that had to be
\* repeated in vain arms the forced quit.  A repeated question also ends the
\* action that asked it.
StatusAnswered(c) ==
    /\ c.got # None
    /\ status' = status \ {c}
    /\ IF ~exit.open \/ c.seq # exit.seq THEN UNCHANGED <<exit, failed>>
       ELSE /\ exit' = [exit EXCEPT
                  !.snap = IF c.got = Unknown THEN None ELSE c.got,
                  !.error = c.got = Unknown,
                  !.armed = c.got = Unknown /\ c.arm,
                  !.acting = IF c.arm THEN "none" ELSE @]
            /\ failed' = IF c.got = Unknown THEN failed + 1 ELSE 0
    /\ UNCHANGED <<work, reply, updateVars, tourVars, gone, start>>

Minimize ==
    /\ exit.open /\ ~Acting(exit) /\ exit.seq < MaxQuestions
    /\ exit' = [exit EXCEPT !.acting = "tray"]
    /\ UNCHANGED <<work, status, reply, failed, updateVars, tourVars, gone, start>>

\* The quit button: repeat the question, or quit with the work that is shown.
Quit ==
    /\ exit.open /\ ~Acting(exit) /\ exit.seq < MaxQuestions
    /\ exit.snap # None \/ exit.error
    /\ IF exit.snap = None /\ ~exit.armed
       THEN Ask([exit EXCEPT !.acting = "recheck"], TRUE)
       ELSE exit' = [exit EXCEPT !.acting = "quit"] /\ UNCHANGED status
    /\ UNCHANGED <<work, reply, failed, updateVars, tourVars, gone, start>>

\* The backend's answer: it quits when the work is still the work that was
\* shown, or when it is told to go without knowing.
Answer(r) ==
    /\ exit.acting \in {"tray", "quit"} /\ reply = None
    /\ r = "hidden" => exit.acting = "tray"
    /\ r = "quit" => exit.acting = "quit" /\ (exit.snap = None \/ exit.snap = work)
    /\ r = "changed" => exit.acting = "quit" /\ exit.snap # None /\ exit.snap # work
    /\ reply' = [kind |-> r, snap |-> work]
    /\ gone' = (r = "quit")
    /\ UNCHANGED <<work, exit, status, failed, updateVars, tourVars, start>>

\* What the dialog does with it: closed in the tray, the status unknown, the
\* changed work shown, or only a message.
ActionAnswered ==
    /\ reply # None
    /\ reply' = None
    /\ LET done == [exit EXCEPT !.acting = "none"]
           lost == [done EXCEPT !.snap = None, !.error = TRUE, !.armed = FALSE, !.seq = @ + 1]
           seen == [done EXCEPT !.snap = reply.snap, !.error = FALSE, !.armed = FALSE]
       IN  exit' = CASE reply.kind = "hidden" -> [done EXCEPT !.open = FALSE, !.seq = @ + 1]
                     [] reply.kind = "unavailable" -> lost
                     [] reply.kind = "error" -> done
                     [] reply.kind = "changed" -> seen
    /\ failed' = IF reply.kind = "unavailable" THEN failed + 1
                 ELSE IF reply.kind = "changed" THEN 0 ELSE failed
    /\ UNCHANGED <<work, status, updateVars, tourVars, gone, start>>

----
(* useAppUpdater, UpdateDialog and the reservation. *)

NoUpdate == [phase |-> "idle", found |-> FALSE, checking |-> FALSE, install |-> "none"]
Busy == {"downloading", "installing"}
UpdateShown ==
    tour.source = None /\ update.found /\ update.phase \in Busy \cup {"available", "error"}

CheckForUpdates ==
    /\ ~update.checking /\ ~UpdateShown
    /\ update' = [update EXCEPT !.phase = "checking", !.checking = TRUE]
    /\ UNCHANGED <<reserved, recording, leaked, installs, exitVars, tourVars, gone, start>>

CheckAnswered(found) ==
    /\ update.checking
    /\ update' = [update EXCEPT !.checking = FALSE, !.found = found,
                     !.phase = IF found THEN "available" ELSE "idle"]
    /\ UNCHANGED <<reserved, recording, leaked, installs, exitVars, tourVars, gone, start>>

DismissUpdate ==
    /\ UpdateShown /\ update.phase \notin Busy
    /\ update' = [update EXCEPT !.phase = "idle", !.found = FALSE]
    /\ UNCHANGED <<reserved, recording, leaked, installs, exitVars, tourVars, gone, start>>

InstallUpdate ==
    /\ UpdateShown /\ update.install = "none" /\ update.phase \notin Busy
    /\ installs < MaxInstalls /\ installs' = installs + 1
    /\ update' = [update EXCEPT !.phase = "downloading", !.install = "reserving"]
    /\ UNCHANGED <<reserved, recording, leaked, exitVars, tourVars, gone, start>>

\* streaming_update_reserve refuses while a recording runs.
Reserve ==
    /\ update.install = "reserving"
    /\ \/ /\ ~recording
          /\ reserved' = TRUE
          /\ update' = [update EXCEPT !.install = "loading"]
       \/ /\ update' = [update EXCEPT !.install = "none", !.phase = "error"]
          /\ UNCHANGED reserved
    /\ UNCHANGED <<recording, leaked, installs, exitVars, tourVars, gone, start>>

Installed ==
    /\ update.install = "loading"
    /\ \/ update' = [update EXCEPT !.phase = "installing"] /\ update.phase # "installing" /\ UNCHANGED gone
       \/ update.phase = "installing" /\ gone' = TRUE /\ UNCHANGED update
    /\ UNCHANGED <<reserved, recording, leaked, installs, exitVars, tourVars, start>>

\* The reservation is kept when the installation fails.
InstallFailedHolding ==
    /\ update.install = "loading"
    /\ update' = [update EXCEPT !.install = "none", !.phase = "error"]
    /\ UNCHANGED <<reserved, leaked, recording, installs, exitVars, tourVars, gone, start>>

\* The download, the installer or the restart failed: recordings are let go.
InstallFailed ==
    /\ update.install = "loading"
    /\ \E freed \in BOOLEAN :
          /\ reserved' = ~freed
          /\ leaked' = (leaked \/ ~freed)
    /\ update' = [update EXCEPT !.install = "none", !.phase = "error"]
    /\ UNCHANGED <<recording, installs, exitVars, tourVars, gone, start>>

RecordingToggles ==
    /\ ~recording => ~reserved
    /\ recording' = ~recording
    /\ UNCHANGED <<update, reserved, leaked, installs, exitVars, tourVars, gone, start>>

----
(* The tour: its second step waits for the result of a real operation. *)

LastStep == 3
Waiting == 2
Entered(t, step) ==
    [t EXCEPT !.step = step, !.visit = visits + 1, !.started = FALSE, !.pending = FALSE]

\* Entering a step makes a new visit; the last step ends the tour.
Enter(t, step) ==
    /\ tour' = IF step > LastStep THEN NoTour ELSE Entered(t, step)
    /\ visits' = visits + 1
    /\ earned' = (IF step <= Waiting THEN FALSE ELSE earned)

\* A tour is remembered when it is first displayed, not when it is finished.
SelectSource(s) ==
    /\ s # source /\ visits < MaxVisits
    /\ source' = s
    /\ IF exit.open \/ s \in dismissed
       THEN tour' = NoTour /\ UNCHANGED <<dismissed, visits, earned>>
       ELSE /\ Enter([NoTour EXCEPT !.source = s], 1)
            /\ dismissed' = dismissed \cup {s}
    /\ UNCHANGED <<reports, exitVars, updateVars, gone, start>>

ReplayTutorial ==
    /\ ~exit.open /\ tour.source = None /\ ~UpdateShown /\ visits < MaxVisits
    /\ Enter([NoTour EXCEPT !.source = source], 1)
    /\ dismissed' = dismissed \cup {source}
    /\ UNCHANGED <<source, reports, exitVars, updateVars, gone, start>>

CloseTutorial ==
    /\ tour.source # None
    /\ tour' = NoTour
    /\ UNCHANGED <<source, dismissed, reports, earned, visits, exitVars, updateVars, gone, start>>

\* The next button of a step that waits for nothing.
TourNext ==
    /\ tour.source # None /\ tour.step # Waiting /\ visits < MaxVisits
    /\ Enter(tour, tour.step + 1)
    /\ UNCHANGED <<source, dismissed, reports, exitVars, updateVars, gone, start>>

\* The user does what the step asks for; the operation remembers its visit
\* (beginTutorialAction) and reports to it alone.
TourAct ==
    /\ tour.source # None /\ tour.step = Waiting /\ ~tour.pending
    /\ tour' = [tour EXCEPT !.started = TRUE, !.pending = TRUE]
    /\ reports' = reports \cup {[step |-> tour.step, visit |-> tour.visit]}
    /\ UNCHANGED <<source, dismissed, earned, visits, exitVars, updateVars, gone, start>>

Expected(r) == tour.source # None /\ tour.started /\ tour.step = r.step /\ tour.visit = r.visit

TourReport(r) ==
    /\ visits < MaxVisits
    /\ reports' = reports \ {r}
    /\ \E ok \in BOOLEAN :
          IF ~Expected(r) THEN UNCHANGED <<tour, visits, earned>>
          ELSE IF ok
          THEN /\ tour' = Entered(tour, tour.step + 1)
               /\ visits' = visits + 1
               /\ earned' = (earned \/ r.visit = tour.visit)
          ELSE tour' = [tour EXCEPT !.pending = FALSE] /\ UNCHANGED <<visits, earned>>
    /\ UNCHANGED <<source, dismissed, exitVars, updateVars, gone, start>>

----
(* useStartup: the backend's phase is polled; background work of the window
   begins once settings were read and a frame was shown. *)

NoStart == [phase |-> "starting", settings |-> FALSE, ready |-> FALSE]

StartupPolled(phase) ==
    /\ start.phase \in {"starting", "cancelling"} /\ phase # start.phase
    /\ start.phase = "cancelling" => phase = "failed"
    /\ start' = [start EXCEPT !.phase = phase]
    /\ UNCHANGED <<exitVars, updateVars, tourVars, gone>>

SettingsRead ==
    /\ ~start.settings
    /\ start' = [start EXCEPT !.settings = TRUE]
    /\ UNCHANGED <<exitVars, updateVars, tourVars, gone>>

FrameShown ==
    /\ start.phase = "ready" /\ start.settings /\ ~start.ready
    /\ start' = [start EXCEPT !.ready = TRUE]
    /\ UNCHANGED <<exitVars, updateVars, tourVars, gone>>

----
Init ==
    /\ work = 0 /\ exit = NoExit /\ status = {} /\ reply = None /\ failed = 0 /\ gone = FALSE
    /\ update = NoUpdate /\ reserved = FALSE /\ recording \in BOOLEAN /\ leaked = FALSE
    /\ installs = 0
    /\ source \in Sources /\ tour = NoTour /\ dismissed \in {{}, Sources} /\ reports = {}
    /\ earned = FALSE /\ visits = 0
    /\ start = NoStart

\* A process that has ended takes no step.
ExitStep ==
    /\ ~gone
    /\ \/ WorkChanges \/ ExitRequested \/ CloseExitConfirm \/ Minimize \/ Quit \/ ActionAnswered
       \/ \E c \in status : StatusServed(c) \/ StatusAnswered(c)
       \/ \E r \in {"hidden", "quit", "changed", "unavailable", "error"} : Answer(r)

UpdateStep ==
    /\ ~gone
    /\ \/ CheckForUpdates \/ DismissUpdate \/ InstallUpdate \/ Reserve \/ Installed
       \/ InstallFailed \/ RecordingToggles
       \/ \E found \in BOOLEAN : CheckAnswered(found)

TourStep ==
    /\ ~gone
    /\ \/ \E s \in Sources : SelectSource(s)
       \/ ReplayTutorial \/ CloseTutorial \/ TourNext \/ TourAct
       \/ \E r \in reports : TourReport(r)

StartStep ==
    /\ ~gone
    /\ \/ \E phase \in {"ready", "failed", "cancelling"} : StartupPolled(phase)
       \/ SettingsRead \/ FrameShown

Next == ExitStep \/ UpdateStep \/ TourStep \/ StartStep

Spec == Init /\ [][Next]_vars

----
(* Properties. *)

\* The forced quit is offered only after the status was asked for again in
\* vain, never by an answer to an older question, and the process ends only
\* with the work the user was shown or by that forced quit (useAppExit onQuit).
QuitIsInformed ==
    /\ exit.open /\ exit.armed => exit.snap = None /\ failed >= 2
    /\ gone /\ exit.open /\ update.phase # "installing" => exit.snap = work \/ exit.armed

\* An installation never runs beside a recording, and a failed one gives the
\* recordings free again unless the release itself failed
\* (recordingUpdateGuard.ts "closes the start-vs-install race").
UpdateExcludesRecording ==
    /\ update.install = "loading" => reserved /\ ~recording
    /\ update.install = "none" /\ reserved => leaked

\* The tour goes past a step that asks for a real operation only when the
\* operation begun in that visit succeeded: a late report of an earlier visit
\* does not count (tourActions.ts "only to the visit that initiated it").
TourStepIsEarned ==
    tour.source # None /\ tour.step > Waiting => earned
====
