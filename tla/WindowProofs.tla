---- MODULE WindowProofs ----
(***************************************************************************)
(* Proofs about the window around the library: the shell with its exit     *)
(* dialog, its updater and its tours (Shell), the Danbooru workspace, the  *)
(* way of an edit from the settings dialog to the backend (Settings), and  *)
(* the panels of that dialog that ask on their own (SettingsPanels).       *)
(***************************************************************************)
EXTENDS Danbooru, FiniteSetTheorems, SequenceTheorems, TLAPS

CONSTANTS Sources, MaxWork, MaxQuestions, MaxVisits, MaxInstalls

VARIABLES work, exit, status, reply, failed, gone, update, reserved, recording, leaked,
          installs, source, tour, dismissed, reports, earned, visits, start

H == INSTANCE Shell

----
(* The shell.  That a forced quit is armed only by a second question in
   vain rests on the questions: each has a number of its own, and the newest
   is a repetition exactly while the dialog waits for one. *)

ShellTypes ==
  /\ DOMAIN exit = {"open", "snap", "error", "armed", "acting", "seq"}
  /\ exit.acting \in {"none", "tray", "quit", "recheck"}
  /\ exit.seq \in Nat /\ failed \in Nat
  /\ \A c \in status : DOMAIN c = {"seq", "arm", "got"} /\ c.seq \in Nat
  /\ DOMAIN update = {"phase", "found", "checking", "install"}
  /\ {"source", "step", "visit", "started", "pending"} \subseteq DOMAIN tour /\ tour.step \in Nat

(* Every question has its number, none a number that is still to come. *)
Numbered ==
  \A c \in status :
    /\ c.seq <= exit.seq
    /\ \A d \in status : c.seq = d.seq => c = d

(* What a dialog that is open knows, and whether a question of it is open. *)
DialogOK ==
  /\ exit.acting # "none" => exit.open
  /\ exit.open /\ exit.error => failed >= 1
  /\ exit.open /\ exit.armed => exit.snap = None /\ failed >= 2
  /\ exit.acting = "quit" =>
       (exit.snap # None \/ exit.armed) /\ \A c \in status : c.seq # exit.seq
  /\ exit.acting = "recheck" =>
       failed >= 1 /\ \A c \in status : c.seq = exit.seq => c.arm
  /\ exit.open /\ exit.acting # "recheck" =>
       \A c \in status : c.seq = exit.seq => ~c.arm /\ exit.snap = None /\ ~exit.error
  /\ reply # None =>
       /\ exit.acting \in {"tray", "quit"}
       /\ reply.kind \in {"hidden", "quit", "changed", "unavailable", "error"}
       /\ reply.kind = "changed" => exit.acting = "quit"
       /\ reply.kind = "quit" => gone

(* How the process may have ended. *)
EndedOK ==
  gone => \/ update.phase = "installing"
          \/ exit.open => exit.snap = work \/ exit.armed

InstallOK ==
  /\ update.install = "loading" => reserved /\ ~recording
  /\ update.install # "loading" /\ reserved => leaked

ShellInv == ShellTypes /\ Numbered /\ DialogOK /\ EndedOK /\ InstallOK /\ H!TourStepIsEarned

LEMMA ShellInvInit ==
  ASSUME H!Init
  PROVE  ShellInv
BY DEF H!Init, ShellInv, ShellTypes, Numbered, DialogOK, EndedOK, InstallOK, H!TourStepIsEarned,
       H!NoExit, H!NoUpdate, H!NoTour

(* Steps of the updater, the tours and the start leave the dialog alone. *)
LEMMA DialogUntouched ==
  ASSUME ShellInv, ~gone, UNCHANGED <<exit, status, reply, failed>>
  PROVE  Numbered' /\ DialogOK'  BY DEF ShellInv, Numbered, DialogOK

(* The updater.  It holds recordings back from the moment it may load. *)
LEMMA UpdateKeeps ==
  ASSUME ShellInv, H!UpdateStep
  PROVE  ShellInv'
<1>0. ~gone  BY DEF H!UpdateStep
<1>1. ASSUME UNCHANGED <<work, exit, status, reply, failed, tour, earned>>, InstallOK',
             DOMAIN update' = DOMAIN update,
             gone' => update'.phase = "installing"
      PROVE  ShellInv'
  BY <1>0, <1>1, DialogUntouched
  DEF ShellInv, ShellTypes, EndedOK, H!TourStepIsEarned, H!Waiting
<1>2. CASE \/ H!CheckForUpdates \/ H!DismissUpdate \/ H!InstallUpdate
           \/ \E found \in BOOLEAN : H!CheckAnswered(found)
  <2>0. DOMAIN update = {"phase", "found", "checking", "install"}  BY DEF ShellInv, ShellTypes
  <2>1. DOMAIN update' = DOMAIN update /\ (update'.install = "loading" <=> update.install = "loading")
    <3>1. CASE H!CheckForUpdates  BY <2>0, <3>1 DEF H!CheckForUpdates
    <3>2. CASE H!DismissUpdate  BY <2>0, <3>2 DEF H!DismissUpdate
    <3>3. CASE H!InstallUpdate  BY <2>0, <3>3 DEF H!InstallUpdate
    <3>4. CASE \E found \in BOOLEAN : H!CheckAnswered(found)
      <4> PICK found \in BOOLEAN : H!CheckAnswered(found)  BY <3>4
      <4> QED BY <2>0 DEF H!CheckAnswered
    <3> QED BY <1>2, <3>1, <3>2, <3>3, <3>4
  <2>2. UNCHANGED <<reserved, recording, leaked, work, exit, status, reply, failed, tour, earned, gone>>
    BY <1>2 DEF H!CheckForUpdates, H!DismissUpdate, H!InstallUpdate, H!CheckAnswered,
                H!exitVars, H!tourVars
  <2>3. InstallOK'  BY <2>1, <2>2 DEF ShellInv, InstallOK
  <2> QED BY <1>0, <1>1, <2>1, <2>2, <2>3
<1>3. CASE H!Reserve
  <2>0. DOMAIN update = {"phase", "found", "checking", "install"}  BY DEF ShellInv, ShellTypes
  <2>1. InstallOK' /\ DOMAIN update' = DOMAIN update
    <3>1. CASE ~recording /\ reserved' /\ update' = [update EXCEPT !.install = "loading"]
      BY <1>3, <2>0, <3>1 DEF H!Reserve, InstallOK
    <3>2. CASE update' = [update EXCEPT !.install = "none", !.phase = "error"] /\ UNCHANGED reserved
      BY <1>3, <2>0, <3>2 DEF H!Reserve, InstallOK, ShellInv
    <3> QED BY <1>3, <3>1, <3>2 DEF H!Reserve
  <2> QED BY <1>0, <1>1, <1>3, <2>1 DEF H!Reserve, H!exitVars, H!tourVars
<1>4. CASE H!Installed
  <2>1. InstallOK' /\ DOMAIN update' = DOMAIN update  BY <1>4 DEF H!Installed, ShellInv, ShellTypes, InstallOK
  <2>2. gone' => update'.phase = "installing"  BY <1>0, <1>4 DEF H!Installed
  <2> QED BY <1>1, <1>4, <2>1, <2>2 DEF H!Installed, H!exitVars, H!tourVars
<1>5. CASE H!InstallFailed
  <2>1. InstallOK' /\ DOMAIN update' = DOMAIN update  BY <1>5 DEF H!InstallFailed, ShellInv, ShellTypes, InstallOK
  <2> QED BY <1>0, <1>1, <1>5, <2>1 DEF H!InstallFailed, H!exitVars, H!tourVars
<1>6. CASE H!RecordingToggles
  <2>1. InstallOK' /\ DOMAIN update' = DOMAIN update  BY <1>6 DEF H!RecordingToggles, ShellInv, ShellTypes, InstallOK
  <2> QED BY <1>0, <1>1, <1>6, <2>1 DEF H!RecordingToggles, H!exitVars, H!tourVars
<1> QED BY <1>2, <1>3, <1>4, <1>5, <1>6 DEF H!UpdateStep

(* The tours: the step that waits is passed by its own operation alone. *)
LEMMA TourKeeps ==
  ASSUME ShellInv, H!TourStep
  PROVE  ShellInv'
<1>0. ~gone /\ tour.step \in Nat  BY DEF H!TourStep, ShellInv, ShellTypes
<1>1. ASSUME UNCHANGED <<work, exit, status, reply, failed, gone, update, reserved, recording, leaked>>,
             {"source", "step", "visit", "started", "pending"} \subseteq DOMAIN tour',
             tour'.step \in Nat, H!TourStepIsEarned'
      PROVE  ShellInv'  BY <1>0, <1>1, DialogUntouched DEF ShellInv, ShellTypes, EndedOK, InstallOK
<1> DEFINE Tour(t) == {"source", "step", "visit", "started", "pending"} \subseteq DOMAIN t
                      /\ t.step \in Nat
<1>2. Tour(tour) /\ Tour(H!NoTour) /\ H!NoTour.source = None  BY DEF ShellInv, ShellTypes, H!NoTour
<1>3. ASSUME NEW t, Tour(t), NEW n \in Nat, n = 1 \/ n = t.step + 1, t.step # H!Waiting,
             t.step > H!Waiting => earned, H!Enter(t, n)
      PROVE  Tour(tour') /\ H!TourStepIsEarned'
  <2>1. CASE n > H!LastStep  BY <1>2, <1>3, <2>1 DEF H!Enter, H!TourStepIsEarned
  <2>2. CASE ~(n > H!LastStep)
    <3>1. tour' = H!Entered(t, n)  BY <1>3, <2>2 DEF H!Enter
    <3>2. Tour(tour') /\ tour'.step = n  BY <1>3, <3>1 DEF H!Entered
    <3>3. n > H!Waiting => earned'  BY <1>3 DEF H!Enter, H!Waiting
    <3> QED BY <3>2, <3>3 DEF H!TourStepIsEarned, H!Waiting
  <2> QED BY <2>1, <2>2
<1>4. ASSUME tour' = H!NoTour
      PROVE  Tour(tour') /\ H!TourStepIsEarned'  BY <1>2, <1>4 DEF H!TourStepIsEarned
<1>5. CASE \E s \in Sources : H!SelectSource(s)
  <2> PICK s \in Sources : H!SelectSource(s)  BY <1>5
  <2>1. CASE exit.open \/ s \in dismissed  BY <1>1, <1>4, <2>1 DEF H!SelectSource, H!exitVars, H!updateVars
  <2>2. CASE ~(exit.open \/ s \in dismissed)
    <3> DEFINE t == [H!NoTour EXCEPT !.source = s]
    <3>1. Tour(t) /\ t.step = 0  BY DEF H!NoTour
    <3>2. H!Enter(t, 1)  BY <2>2 DEF H!SelectSource
    <3> HIDE DEF t
    <3>3. Tour(tour') /\ H!TourStepIsEarned'  BY <1>3, <3>1, <3>2 DEF H!Waiting
    <3> QED BY <1>1, <3>3 DEF H!SelectSource, H!exitVars, H!updateVars
  <2> QED BY <2>1, <2>2
<1>6. CASE H!ReplayTutorial
  <2> DEFINE t == [H!NoTour EXCEPT !.source = source]
  <2>1. Tour(t) /\ t.step = 0  BY DEF H!NoTour
  <2>2. H!Enter(t, 1)  BY <1>6 DEF H!ReplayTutorial
  <2> HIDE DEF t
  <2>3. Tour(tour') /\ H!TourStepIsEarned'  BY <1>3, <2>1, <2>2 DEF H!Waiting
  <2> QED BY <1>1, <1>6, <2>3 DEF H!ReplayTutorial, H!exitVars, H!updateVars
<1>7. CASE H!CloseTutorial  BY <1>1, <1>4, <1>7 DEF H!CloseTutorial, H!exitVars, H!updateVars
<1>8. CASE H!TourNext
  <2>1. Tour(tour') /\ H!TourStepIsEarned'  BY <1>0, <1>2, <1>3, <1>8 DEF H!TourNext, ShellInv, H!TourStepIsEarned
  <2> QED BY <1>1, <1>8, <2>1 DEF H!TourNext, H!exitVars, H!updateVars
<1>9. CASE H!TourAct
  <2>1. Tour(tour') /\ tour'.step = tour.step /\ tour'.source = tour.source  BY <1>2, <1>9 DEF H!TourAct
  <2>2. H!TourStepIsEarned'  BY <1>9, <2>1 DEF H!TourAct, H!TourStepIsEarned, H!Waiting, ShellInv
  <2> QED BY <1>1, <1>9, <2>1, <2>2 DEF H!TourAct, H!exitVars, H!updateVars
<1>10. CASE \E r \in reports : H!TourReport(r)
  <2> PICK r \in reports : H!TourReport(r)  BY <1>10
  <2>1. CASE UNCHANGED <<tour, earned>>
    <3>1. Tour(tour') /\ H!TourStepIsEarned'  BY <1>2, <2>1 DEF ShellInv, H!TourStepIsEarned, H!Waiting
    <3> QED BY <1>1, <3>1 DEF H!TourReport, H!exitVars, H!updateVars
  <2>2. CASE /\ tour' = H!Entered(tour, tour.step + 1)
             /\ earned' = (earned \/ r.visit = tour.visit)
             /\ H!Expected(r)
    <3>1. Tour(tour')  BY <1>0, <1>2, <2>2 DEF H!Entered
    <3>2. earned'  BY <2>2 DEF H!Expected
    <3> QED BY <1>1, <3>1, <3>2 DEF H!TourReport, H!exitVars, H!updateVars, H!TourStepIsEarned
  <2>3. CASE tour' = [tour EXCEPT !.pending = FALSE] /\ UNCHANGED earned
    <3>1. Tour(tour') /\ tour'.step = tour.step /\ tour'.source = tour.source  BY <1>2, <2>3
    <3>2. H!TourStepIsEarned'  BY <2>3, <3>1 DEF ShellInv, H!TourStepIsEarned, H!Waiting
    <3> QED BY <1>1, <3>1, <3>2 DEF H!TourReport, H!exitVars, H!updateVars
  <2> QED BY <2>1, <2>2, <2>3 DEF H!TourReport
<1> QED BY <1>5, <1>6, <1>7, <1>8, <1>9, <1>10 DEF H!TourStep

(* The exit dialog.  A step whose questions and whose process stay is one
   of the dialog's state alone. *)
LEMMA ExitKeeps ==
  ASSUME ShellInv, H!ExitStep
  PROVE  ShellInv'
<1>0. /\ ~gone /\ exit.seq \in Nat /\ failed \in Nat
      /\ exit.acting \in {"none", "tray", "quit", "recheck"}
      /\ DOMAIN exit = {"open", "snap", "error", "armed", "acting", "seq"}
  BY DEF H!ExitStep, ShellInv, ShellTypes
<1> DEFINE Same == UNCHANGED <<update, reserved, recording, leaked>>
<1>1. ASSUME Same, UNCHANGED <<tour, earned>> \/ tour' = H!NoTour,
             Numbered', DialogOK', EndedOK',
             DOMAIN exit' = DOMAIN exit, exit'.seq \in Nat, failed' \in Nat,
             exit'.acting \in {"none", "tray", "quit", "recheck"},
             \A c \in status' : DOMAIN c = {"seq", "arm", "got"} /\ c.seq \in Nat
      PROVE  ShellInv'
  <2>1. /\ {"source", "step", "visit", "started", "pending"} \subseteq DOMAIN tour'
        /\ tour'.step \in Nat
        /\ H!TourStepIsEarned'
    <3>1. CASE UNCHANGED <<tour, earned>>  BY <3>1 DEF ShellInv, ShellTypes, H!TourStepIsEarned, H!Waiting
    <3>2. CASE tour' = H!NoTour  BY <3>2 DEF H!NoTour, H!TourStepIsEarned
    <3> QED BY <1>1, <3>1, <3>2
  <2> QED BY <1>1, <2>1 DEF ShellInv, ShellTypes, InstallOK
<1>2. CASE H!WorkChanges
  <2>1. UNCHANGED <<exit, status, reply, failed, update, reserved, recording, leaked, tour, earned, gone>>
    BY <1>2 DEF H!WorkChanges, H!updateVars, H!tourVars
  <2>2. EndedOK'  BY <1>0, <2>1 DEF EndedOK
  <2> QED BY <1>0, <1>1, <2>1, <2>2, DialogUntouched DEF ShellInv, ShellTypes
<1>3. CASE H!ExitRequested
  <2>1. /\ exit'.open /\ exit'.snap = None /\ ~exit'.error /\ ~exit'.armed
        /\ exit'.acting = "none" /\ exit'.seq = exit.seq + 1 /\ DOMAIN exit' = DOMAIN exit
    BY <1>0, <1>3 DEF H!ExitRequested, H!Ask, H!NoExit
  <2>2. status' = status \cup {[seq |-> exit.seq + 1, arm |-> FALSE, got |-> None]}
    BY <1>3 DEF H!ExitRequested, H!Ask, H!NoExit
  <2>3. UNCHANGED <<reply, update, reserved, recording, leaked, gone>> /\ tour' = H!NoTour
        /\ failed' = 0  BY <1>3 DEF H!ExitRequested, H!updateVars
  <2>4. exit.acting = "none" /\ reply = None  BY <1>3 DEF H!ExitRequested, H!Acting, ShellInv, DialogOK
  <2>5. PICK q : q = [seq |-> exit.seq + 1, arm |-> FALSE, got |-> None]  OBVIOUS
  <2>6. q.seq = exit.seq + 1 /\ ~q.arm /\ DOMAIN q = {"seq", "arm", "got"}  BY <2>5
  <2>7. status' = status \cup {q}  BY <2>2, <2>5
  <2>8. Numbered' /\ \A c \in status' : DOMAIN c = {"seq", "arm", "got"} /\ c.seq \in Nat
    BY <1>0, <2>1, <2>6, <2>7 DEF ShellInv, ShellTypes, Numbered
  <2>9. DialogOK'  BY <1>0, <2>1, <2>3, <2>4, <2>6, <2>7 DEF ShellInv, ShellTypes, Numbered, DialogOK
  <2> QED BY <1>0, <1>1, <2>1, <2>3, <2>8, <2>9 DEF EndedOK
<1>4. CASE H!CloseExitConfirm
  <2>1. /\ ~exit'.open /\ exit'.acting = exit.acting /\ exit.acting = "none"
        /\ exit'.seq = exit.seq + 1 /\ DOMAIN exit' = DOMAIN exit
    BY <1>0, <1>4 DEF H!CloseExitConfirm, H!Acting
  <2>2. UNCHANGED <<status, reply, failed, update, reserved, recording, leaked, tour, earned, gone>>
    BY <1>4 DEF H!CloseExitConfirm, H!updateVars, H!tourVars
  <2>3. reply = None  BY <2>1 DEF ShellInv, DialogOK
  <2>4. Numbered'  BY <1>0, <2>1, <2>2 DEF ShellInv, ShellTypes, Numbered
  <2>5. DialogOK'  BY <2>1, <2>2, <2>3 DEF DialogOK
  <2> QED BY <1>0, <1>1, <2>1, <2>2, <2>4, <2>5 DEF EndedOK, ShellInv, ShellTypes
<1>5. CASE H!Minimize
  <2>1. /\ exit.open /\ exit.acting = "none" /\ exit'.acting = "tray" /\ DOMAIN exit' = DOMAIN exit
        /\ exit'.open = exit.open /\ exit'.snap = exit.snap /\ exit'.error = exit.error
        /\ exit'.armed = exit.armed /\ exit'.seq = exit.seq  BY <1>0, <1>5 DEF H!Minimize, H!Acting
  <2>2. UNCHANGED <<status, reply, failed, update, reserved, recording, leaked, tour, earned, gone>>
    BY <1>5 DEF H!Minimize, H!updateVars, H!tourVars
  <2>3. Numbered' /\ DialogOK'  BY <1>0, <2>1, <2>2 DEF ShellInv, Numbered, DialogOK
  <2> QED BY <1>0, <1>1, <2>1, <2>2, <2>3 DEF EndedOK, ShellInv, ShellTypes
<1>6. CASE H!Quit
  <2>1. exit.open /\ exit.acting = "none" /\ (exit.snap # None \/ exit.error)  BY <1>6 DEF H!Quit, H!Acting
  <2>2. UNCHANGED <<reply, failed, update, reserved, recording, leaked, tour, earned, gone>>
    BY <1>6 DEF H!Quit, H!updateVars, H!tourVars
  <2>3. CASE exit.snap = None /\ ~exit.armed
    <3>1. PICK q : q = [seq |-> exit.seq + 1, arm |-> TRUE, got |-> None]  OBVIOUS
    <3>2. q.seq = exit.seq + 1 /\ q.arm /\ DOMAIN q = {"seq", "arm", "got"}  BY <3>1
    <3>3. H!Ask([exit EXCEPT !.acting = "recheck"], TRUE)  BY <1>6, <2>3 DEF H!Quit
    <3>4. /\ exit'.acting = "recheck" /\ DOMAIN exit' = DOMAIN exit /\ exit'.open = exit.open
          /\ exit'.snap = exit.snap /\ exit'.error = exit.error /\ exit'.armed = exit.armed
          /\ exit'.seq = exit.seq + 1  BY <1>0, <3>3 DEF H!Ask
    <3>5. status' = status \cup {q}  BY <1>0, <3>1, <3>3 DEF H!Ask
    <3>6. Numbered' /\ \A c \in status' : DOMAIN c = {"seq", "arm", "got"} /\ c.seq \in Nat
      BY <1>0, <3>2, <3>4, <3>5 DEF ShellInv, ShellTypes, Numbered
    <3>7. reply = None  BY <2>1 DEF ShellInv, DialogOK
    <3>8. DialogOK'
      BY <1>0, <2>1, <2>2, <2>3, <3>2, <3>4, <3>5, <3>7
      DEF ShellInv, ShellTypes, Numbered, DialogOK
    <3> QED BY <1>0, <1>1, <2>2, <3>4, <3>6, <3>8 DEF EndedOK
  <2>4. CASE ~(exit.snap = None /\ ~exit.armed)
    <3>1. exit' = [exit EXCEPT !.acting = "quit"] /\ status' = status  BY <1>6, <2>4 DEF H!Quit
    <3>2. /\ exit'.acting = "quit" /\ DOMAIN exit' = DOMAIN exit /\ exit'.open = exit.open
          /\ exit'.snap = exit.snap /\ exit'.error = exit.error /\ exit'.armed = exit.armed
          /\ exit'.seq = exit.seq  BY <1>0, <3>1
    <3>3. Numbered' /\ DialogOK'  BY <1>0, <2>1, <2>2, <2>4, <3>1, <3>2 DEF ShellInv, Numbered, DialogOK
    <3> QED BY <1>0, <1>1, <2>2, <3>1, <3>2, <3>3 DEF EndedOK, ShellInv, ShellTypes
  <2> QED BY <2>3, <2>4
<1>7. CASE H!ActionAnswered
  <2>1. UNCHANGED <<status, update, reserved, recording, leaked, tour, earned, gone>> /\ reply # None
        /\ reply' = None  BY <1>7 DEF H!ActionAnswered, H!updateVars, H!tourVars
  <2>2. exit.open /\ exit.acting # "recheck"
        /\ reply.kind \in {"hidden", "changed", "unavailable", "error"}
        /\ (reply.kind = "changed" => exit.acting = "quit")  BY <1>0, <2>1 DEF ShellInv, DialogOK
  <2>3. ASSUME DOMAIN exit' = DOMAIN exit, exit'.acting = "none", exit'.seq \in Nat, failed' \in Nat,
               Numbered', DialogOK'
        PROVE  ShellInv'  BY <1>0, <1>1, <2>1, <2>3 DEF EndedOK, ShellInv, ShellTypes
  <2>4. CASE reply.kind = "hidden"
    <3>1. exit' = [[exit EXCEPT !.acting = "none"] EXCEPT !.open = FALSE, !.seq = @ + 1]
          /\ failed' = failed  BY <1>7, <2>4 DEF H!ActionAnswered
    <3>2. DOMAIN exit' = DOMAIN exit /\ ~exit'.open /\ exit'.acting = "none" /\ exit'.seq = exit.seq + 1
      BY <1>0, <3>1
    <3>3. Numbered' /\ DialogOK'  BY <1>0, <2>1, <3>2 DEF ShellInv, ShellTypes, Numbered, DialogOK
    <3> QED BY <1>0, <2>3, <3>1, <3>2, <3>3
  <2>5. CASE reply.kind = "unavailable"
    <3>1. exit' = [[exit EXCEPT !.acting = "none"] EXCEPT
                       !.snap = None, !.error = TRUE, !.armed = FALSE, !.seq = @ + 1]
          /\ failed' = failed + 1  BY <1>7, <2>5 DEF H!ActionAnswered
    <3>2. DOMAIN exit' = DOMAIN exit /\ ~exit'.armed /\ exit'.acting = "none" /\ exit'.seq = exit.seq + 1
      BY <1>0, <3>1
    <3>3. Numbered' /\ DialogOK'  BY <1>0, <2>1, <3>1, <3>2 DEF ShellInv, ShellTypes, Numbered, DialogOK
    <3> QED BY <1>0, <2>3, <3>1, <3>2, <3>3
  <2>6. CASE reply.kind = "error"
    <3>1. exit' = [exit EXCEPT !.acting = "none"] /\ failed' = failed  BY <1>7, <2>6 DEF H!ActionAnswered
    <3>2. /\ DOMAIN exit' = DOMAIN exit /\ exit'.open = exit.open /\ exit'.snap = exit.snap
          /\ exit'.error = exit.error /\ exit'.armed = exit.armed /\ exit'.acting = "none"
          /\ exit'.seq = exit.seq  BY <1>0, <3>1
    <3>3. Numbered' /\ DialogOK'  BY <1>0, <2>1, <2>2, <3>1, <3>2 DEF ShellInv, Numbered, DialogOK
    <3> QED BY <1>0, <2>3, <3>1, <3>2, <3>3
  <2>7. CASE reply.kind = "changed"
    <3>1. exit' = [[exit EXCEPT !.acting = "none"] EXCEPT
                       !.snap = reply.snap, !.error = FALSE, !.armed = FALSE]
          /\ failed' = 0  BY <1>7, <2>7 DEF H!ActionAnswered
    <3>2. DOMAIN exit' = DOMAIN exit /\ ~exit'.armed /\ ~exit'.error /\ exit'.acting = "none"
          /\ exit'.seq = exit.seq  BY <1>0, <3>1
    <3>3. Numbered' /\ DialogOK'  BY <1>0, <2>1, <2>2, <2>7, <3>1, <3>2 DEF ShellInv, Numbered, DialogOK
    <3> QED BY <1>0, <2>3, <3>1, <3>2, <3>3
  <2> QED BY <2>2, <2>4, <2>5, <2>6, <2>7
<1>8. CASE \E c \in status : H!StatusServed(c)
  <2> PICK c \in status : H!StatusServed(c)  BY <1>8
  <2>1. UNCHANGED <<exit, reply, failed, update, reserved, recording, leaked, tour, earned, gone>>
    BY DEF H!StatusServed, H!updateVars, H!tourVars
  <2>2. PICK got : status' = (status \ {c}) \cup {[c EXCEPT !.got = got]}  BY DEF H!StatusServed
  <2>3. PICK q : q = [c EXCEPT !.got = got]  OBVIOUS
  <2>4. DOMAIN c = {"seq", "arm", "got"} /\ c.seq \in Nat  BY DEF ShellInv, ShellTypes
  <2>5. q.seq = c.seq /\ q.arm = c.arm /\ DOMAIN q = {"seq", "arm", "got"}  BY <2>3, <2>4
  <2>6. status' = (status \ {c}) \cup {q}  BY <2>2, <2>3
  <2>7. Numbered' /\ \A d \in status' : DOMAIN d = {"seq", "arm", "got"} /\ d.seq \in Nat
    BY <2>1, <2>4, <2>5, <2>6 DEF ShellInv, ShellTypes, Numbered
  <2>8. DialogOK'  BY <1>0, <2>1, <2>5, <2>6 DEF ShellInv, DialogOK
  <2> QED BY <1>0, <1>1, <2>1, <2>7, <2>8 DEF EndedOK
<1>9. CASE \E c \in status : H!StatusAnswered(c)
  <2> PICK c \in status : H!StatusAnswered(c)  BY <1>9
  <2>1. UNCHANGED <<reply, update, reserved, recording, leaked, tour, earned, gone>>
        /\ status' = status \ {c}  BY DEF H!StatusAnswered, H!updateVars, H!tourVars
  <2>2. CASE ~exit.open \/ c.seq # exit.seq
    <3>1. UNCHANGED <<exit, failed>>  BY <2>2 DEF H!StatusAnswered
    <3>2. Numbered' /\ DialogOK'  BY <1>0, <2>1, <3>1 DEF ShellInv, Numbered, DialogOK
    <3> QED BY <1>0, <1>1, <2>1, <3>1, <3>2 DEF EndedOK, ShellInv, ShellTypes
  <2>3. CASE exit.open /\ c.seq = exit.seq
    <3>1. PICK lost : lost = (c.got = H!Unknown)  OBVIOUS
    <3>2. PICK arms : arms = (c.got = H!Unknown /\ c.arm)  OBVIOUS
    <3>3. PICK snap : snap = IF c.got = H!Unknown THEN None ELSE c.got  OBVIOUS
    <3>4. PICK acting : acting = IF c.arm THEN "none" ELSE exit.acting  OBVIOUS
    <3>5. exit' = [exit EXCEPT !.snap = snap, !.error = lost, !.armed = arms, !.acting = acting]
          /\ failed' = IF c.got = H!Unknown THEN failed + 1 ELSE 0
      BY <2>3, <3>1, <3>2, <3>3, <3>4 DEF H!StatusAnswered
    <3>6. /\ DOMAIN exit' = DOMAIN exit /\ exit'.open = exit.open /\ exit'.snap = snap
          /\ exit'.error = lost /\ exit'.armed = arms /\ exit'.acting = acting
          /\ exit'.seq = exit.seq  BY <1>0, <3>5
    <3>7. Numbered'  BY <2>1, <3>6 DEF ShellInv, Numbered
    <3>8. \A d \in status' : d.seq # exit'.seq  BY <2>1, <2>3, <3>6 DEF ShellInv, Numbered
    <3>9. failed' \in Nat /\ (lost => failed' >= 1) /\ (arms => lost /\ failed' >= 2 /\ snap = None)
      <4>1. c.arm => exit.acting = "recheck"  BY <2>3 DEF ShellInv, DialogOK
      <4>2. c.arm => failed >= 1  BY <4>1 DEF ShellInv, DialogOK
      <4>3. failed' = IF c.got = H!Unknown THEN failed + 1 ELSE 0  BY <3>5
      <4>4. CASE c.got = H!Unknown
        <5>1. failed' \in Nat /\ failed' >= 1 /\ (c.arm => failed' >= 2)  BY <1>0, <4>2, <4>3, <4>4
        <5>2. lost /\ snap = None /\ (arms => c.arm)  BY <3>1, <3>2, <3>3, <4>4
        <5> QED BY <5>1, <5>2
      <4>5. CASE c.got # H!Unknown
        <5>1. failed' \in Nat  BY <4>3, <4>5
        <5>2. ~lost /\ ~arms  BY <3>1, <3>2, <4>5
        <5> QED BY <5>1, <5>2
      <4> QED BY <4>4, <4>5
    <3>10. acting = "none" \/ (acting = "tray" /\ acting = exit.acting)
      <4>1. exit.acting # "quit" /\ (~c.arm => exit.acting # "recheck")  BY <2>3 DEF ShellInv, DialogOK
      <4>2. exit.acting \in {"none", "tray", "quit", "recheck"}  BY DEF ShellInv, ShellTypes
      <4> QED BY <3>4, <4>1, <4>2
    <3>11. reply # None => acting = exit.acting
      <4>1. reply # None => ~c.arm  BY <2>3 DEF ShellInv, DialogOK
      <4> QED BY <3>4, <4>1
    <3>12. DialogOK'  BY <1>0, <2>1, <2>3, <3>6, <3>8, <3>9, <3>10, <3>11 DEF ShellInv, DialogOK
    <3> QED BY <1>0, <1>1, <2>1, <3>6, <3>7, <3>9, <3>10, <3>12 DEF EndedOK, ShellInv, ShellTypes
  <2> QED BY <2>2, <2>3
<1>10. CASE \E r \in {"hidden", "quit", "changed", "unavailable", "error"} : H!Answer(r)
  <2> PICK r \in {"hidden", "quit", "changed", "unavailable", "error"} : H!Answer(r)  BY <1>10
  <2>1. UNCHANGED <<work, exit, status, failed, update, reserved, recording, leaked, tour, earned>>
    BY DEF H!Answer, H!updateVars, H!tourVars
  <2>2. /\ exit.acting \in {"tray", "quit"} /\ reply'.kind = r
        /\ (gone' <=> r = "quit")
        /\ r = "changed" => exit.acting = "quit"
        /\ r = "quit" => exit.acting = "quit" /\ (exit.snap = None \/ exit.snap = work)  BY DEF H!Answer
  <2>3. DialogOK'  BY <2>1, <2>2 DEF ShellInv, DialogOK
  <2>4. EndedOK'  BY <2>1, <2>2 DEF ShellInv, DialogOK, EndedOK
  <2> QED BY <1>0, <1>1, <2>1, <2>3, <2>4 DEF ShellInv, ShellTypes, Numbered
<1> QED BY <1>2, <1>3, <1>4, <1>5, <1>6, <1>7, <1>8, <1>9, <1>10 DEF H!ExitStep

LEMMA ShellInvKept ==
  ASSUME ShellInv, [H!Next]_H!vars
  PROVE  ShellInv'
<1>1. CASE H!StartStep
  <2>1. UNCHANGED <<H!exitVars, H!updateVars, H!tourVars, gone>>
    BY <1>1 DEF H!StartStep, H!StartupPolled, H!SettingsRead, H!FrameShown
  <2>2. ~gone  BY <1>1 DEF H!StartStep
  <2> QED BY <2>1, <2>2, DialogUntouched
          DEF H!exitVars, H!updateVars, H!tourVars, ShellInv, ShellTypes, EndedOK, InstallOK,
              H!TourStepIsEarned, H!Waiting
<1>2. CASE UNCHANGED H!vars
  BY <1>2 DEF H!vars, H!exitVars, H!updateVars, H!tourVars, ShellInv, ShellTypes, Numbered, DialogOK,
              EndedOK, InstallOK, H!TourStepIsEarned, H!Waiting
<1> QED BY <1>1, <1>2, ExitKeeps, UpdateKeeps, TourKeeps DEF H!Next

(* What the shell promises, of the dialog, the updater and the tours that share a window. *)
ShellIsCareful == H!QuitIsInformed /\ H!UpdateExcludesRecording /\ H!TourStepIsEarned

(* However requests to quit, late answers of the backend, installations,
   recordings and tours interleave: the forced quit is armed only by a
   second question in vain, the process ends with the work that was shown or
   by that forced quit, an installation holds recordings back and gives them
   free, and a tour goes past its operation only by it (useAppExit,
   useAppUpdater, TutorialDialog). *)
THEOREM TheShellIsCareful == H!Spec => []ShellIsCareful
<1>1. H!Init => ShellInv  BY ShellInvInit
<1>2. ShellInv /\ [H!Next]_H!vars => ShellInv'  BY ShellInvKept
<1>3. ShellInv => ShellIsCareful
  BY DEF ShellInv, ShellIsCareful, DialogOK, EndedOK, InstallOK, H!QuitIsInformed,
         H!UpdateExcludesRecording
<1> QED BY <1>1, <1>2, <1>3, PTL DEF H!Spec

----
(* The Danbooru workspace.  Every load takes the counter on, so a call that
   carries its latest value was made for the search on screen.  That searches
   stay within the budget wherever they come from rests on what is kept of
   them: a committed query, on screen or on the way back, was counted before,
   and a set of conditions has one limited term at most, its order. *)

FilterOK(filters) == IsFiniteSet(filters) /\ LimitedTerms(filters) <= 1

(* Text is finite, and only the order of a set of conditions is limited
   (searchPreferences.ts, DANBOORU_UNLIMITED_METATAGS). *)
SearchesAreText ==
  /\ \A draft \in Drafts : IsFiniteSet(draft)
  /\ \A filters \in Filters : FilterOK(filters)

ScreenFields == {"view", "draft", "committed", "page", "filters", "result", "loading", "error",
                 "detail", "restored"}

ScreenOK(u) ==
  /\ DOMAIN u = ScreenFields /\ DOMAIN u.draft = Views /\ DOMAIN u.committed = Views
  /\ u.view \in Views
  /\ IsFiniteSet(u.draft.explore)
  /\ FilterOK(u.filters)
  /\ LimitedTerms(u.committed.explore) <= 2

PresentedOK(p) == IsFiniteSet(p.draft) /\ FilterOK(p.filters)

EntryOK(e) == /\ PresentedOK(e) /\ e.view \in Views
              /\ LimitedTerms(e.committed) <= 2

HistoryOK(h) ==
  /\ h \in Seq({h[i] : i \in DOMAIN h})
  /\ \A i \in 1 .. Len(h) : EntryOK(h[i])

CallsOK ==
  /\ sequence \in Nat
  /\ \A c \in calls : c.seq \in Nat /\ c.seq <= sequence

DanbooruInv ==
  /\ ScreenOK(ui) /\ PresentedOK(presented) /\ HistoryOK(history) /\ CallsOK
  /\ LateSearchIsDropped /\ SearchesWithinBudget

LEMMA NothingIsLimited == FilterOK({}) /\ LimitedTerms({}) <= 2
<1>1. {} \ Unlimited = {}  OBVIOUS
<1>2. IsFiniteSet({}) /\ Cardinality({}) = 0  BY FS_EmptySet
<1> QED BY <1>1, <1>2 DEF FilterOK, LimitedTerms

(* A tag of a post with the conditions stays within the budget. *)
LEMMA TagWithinBudget ==
  ASSUME NEW tag, NEW filters, FilterOK(filters)
  PROVE  LimitedTerms(Query({tag}, filters)) <= 2
<1> DEFINE limited == filters \ Unlimited
<1>1. IsFiniteSet(limited) /\ Cardinality(limited) \in Nat /\ Cardinality(limited) <= 1
  BY FS_Subset, FS_CardinalityType DEF FilterOK, LimitedTerms
<1>2. IsFiniteSet({tag}) /\ Cardinality({tag}) = 1  BY FS_Singleton
<1>3. /\ IsFiniteSet(limited \cup {tag}) /\ Cardinality(limited \cup {tag}) \in Nat
      /\ Cardinality(limited \cup {tag}) <= 2
  <2>1. /\ IsFiniteSet(limited \cup {tag})
        /\ Cardinality(limited \cup {tag}) = IF tag \in limited THEN Cardinality(limited)
                                             ELSE Cardinality(limited) + 1  BY <1>1, FS_AddElement
  <2> QED BY <1>1, <2>1
<1>4. Query({tag}, filters) \ Unlimited \subseteq limited \cup {tag}  BY DEF Query
<1>5. Cardinality(Query({tag}, filters) \ Unlimited) <= Cardinality(limited \cup {tag})  BY <1>3, <1>4, FS_Subset
<1>6. Cardinality(Query({tag}, filters) \ Unlimited) \in Nat  BY <1>3, <1>4, FS_Subset, FS_CardinalityType
<1> QED BY <1>3, <1>5, <1>6 DEF LimitedTerms

(* What is typed can be counted. *)
LEMMA DraftIsCounted ==
  ASSUME NEW draft, NEW filters, IsFiniteSet(draft), IsFiniteSet(filters)
  PROVE  LimitedTerms(Query(draft, filters)) \in Nat
<1>1. IsFiniteSet(draft \cup filters)  BY FS_Union
<1>2. Query(draft, filters) \ Unlimited \subseteq draft \cup filters  BY DEF Query
<1> QED BY <1>1, <1>2, FS_Subset, FS_CardinalityType DEF LimitedTerms

(* A load takes the counter on, and its call is for the query it is given. *)
LEMMA LoadMakes ==
  ASSUME CallsOK, NEW v, NEW query, NEW page, NEW force, NEW next, DOMAIN next = ScreenFields,
         Load(v, query, page, force, next)
  PROVE  /\ sequence' = sequence + 1
         /\ DOMAIN ui' = ScreenFields /\ ui'.view = next.view /\ ui'.draft = next.draft
         /\ ui'.committed = next.committed /\ ui'.filters = next.filters
         /\ \A c \in calls' : c \in calls \/ (c.view = v /\ c.query = query /\ c.seq = sequence + 1)
<1>0. sequence' = sequence + 1  BY DEF Load
<1> DEFINE hits == IF force THEN {} ELSE Hits(v, query, page)
<1>1. CASE hits = {}
  <2>1. ui' = [next EXCEPT !.loading = TRUE, !.error = FALSE]  BY <1>1 DEF Load
  <2>2. calls' = calls \cup {[view |-> v, query |-> query, page |-> page, seq |-> sequence + 1]}  BY <1>1 DEF Load
  <2>3. /\ DOMAIN ui' = ScreenFields /\ ui'.view = next.view /\ ui'.draft = next.draft
        /\ ui'.committed = next.committed /\ ui'.filters = next.filters  BY <2>1 DEF ScreenFields
  <2> QED BY <1>0, <2>2, <2>3
<1>2. CASE hits # {}
  <2>1. PICK answer : ui' = [next EXCEPT !.loading = FALSE, !.error = FALSE,
                                         !.result[v] = answer, !.page[v] = answer.page]  BY <1>2 DEF Load
  <2>2. calls' = calls  BY <1>2 DEF Load
  <2>3. /\ DOMAIN ui' = ScreenFields /\ ui'.view = next.view /\ ui'.draft = next.draft
        /\ ui'.committed = next.committed /\ ui'.filters = next.filters  BY <2>1 DEF ScreenFields
  <2> QED BY <1>0, <2>2, <2>3
<1> QED BY <1>1, <1>2

(* A load of the query that its screen is committed to keeps the invariant. *)
LEMMA LoadKeeps ==
  ASSUME DanbooruInv, NEW v \in Views, NEW query, NEW page, NEW force, NEW next, ScreenOK(next),
         Load(v, query, page, force, next),
         v = "explore" => query = next.committed.explore,
         HistoryOK(history'), PresentedOK(presented')
  PROVE  DanbooruInv'
<1>1. CallsOK /\ DOMAIN next = ScreenFields  BY DEF DanbooruInv, ScreenOK
<1>2. /\ sequence' = sequence + 1
      /\ DOMAIN ui' = ScreenFields /\ ui'.view = next.view /\ ui'.draft = next.draft
      /\ ui'.committed = next.committed /\ ui'.filters = next.filters
      /\ \A c \in calls' : c \in calls \/ (c.view = v /\ c.query = query /\ c.seq = sequence + 1)
  BY <1>1, LoadMakes
<1>3. ScreenOK(ui)'  BY <1>2 DEF ScreenOK
<1>4. CallsOK'  BY <1>1, <1>2 DEF CallsOK
<1>5. LateSearchIsDropped'  BY <1>1, <1>2 DEF LateSearchIsDropped, CallsOK
<1>6. SearchesWithinBudget'  BY <1>2 DEF SearchesWithinBudget, DanbooruInv, ScreenOK
<1> QED BY <1>3, <1>4, <1>5, <1>6 DEF DanbooruInv

(* The way back: what was remembered stays as it was. *)
LEMMA SequenceOfItsOwn ==
  ASSUME NEW S, NEW s \in Seq(S)
  PROVE  s \in Seq({s[i] : i \in DOMAIN s})
<1>1. Len(s) \in Nat /\ DOMAIN s = 1 .. Len(s) /\ s \in [1 .. Len(s) -> S]  OBVIOUS
<1> DEFINE T == {s[i] : i \in DOMAIN s}
<1>2. s \in [1 .. Len(s) -> T]  BY <1>1
<1> HIDE DEF T
<1>3. s \in UNION {[1 .. n -> T] : n \in Nat}  BY <1>1, <1>2
<1>4. s \in Seq(T)  BY <1>3 DEF Seq
<1> QED BY <1>4 DEF T

LEMMA HistoryGrows ==
  ASSUME NEW h, HistoryOK(h), NEW e, EntryOK(e), NEW all, all = Append(h, e)
  PROVE  HistoryOK(all) /\ HistoryOK(Tail(all))
<1> DEFINE S == {h[i] : i \in DOMAIN h} \cup {e}
<1>1. h \in Seq({h[i] : i \in DOMAIN h}) /\ \A i \in 1 .. Len(h) : EntryOK(h[i])  BY DEF HistoryOK
<1>2. h \in Seq(S) /\ e \in S  BY <1>1
<1> HIDE DEF S
<1>3. /\ all \in Seq(S) /\ Len(all) = Len(h) + 1 /\ Len(h) \in Nat
      /\ \A i \in 1 .. Len(all) : all[i] = IF i <= Len(h) THEN h[i] ELSE e  BY <1>2
<1>4. \A i \in 1 .. Len(all) : EntryOK(all[i])  BY <1>1, <1>3
<1>5. all # <<>>  BY <1>3
<1>6. /\ Tail(all) \in Seq(S) /\ Len(Tail(all)) = Len(all) - 1
      /\ \A i \in 1 .. Len(Tail(all)) : Tail(all)[i] = all[i + 1]  BY <1>3, <1>5
<1>7. \A i \in 1 .. Len(Tail(all)) : EntryOK(Tail(all)[i])  BY <1>3, <1>4, <1>6
<1>8. all \in Seq({all[i] : i \in DOMAIN all})  BY <1>3, SequenceOfItsOwn
<1>9. PICK t : t = Tail(all)  OBVIOUS
<1>10. t \in Seq({t[i] : i \in DOMAIN t})
  <2>1. t \in Seq(S)  BY <1>6, <1>9
  <2> QED BY <2>1, SequenceOfItsOwn
<1>11. HistoryOK(all) /\ HistoryOK(t)  BY <1>4, <1>7, <1>8, <1>9, <1>10 DEF HistoryOK
<1> QED BY <1>9, <1>11

LEMMA HistoryShrinks ==
  ASSUME NEW h, HistoryOK(h), h # <<>>
  PROVE  HistoryOK(SubSeq(h, 1, Len(h) - 1)) /\ EntryOK(h[Len(h)])
<1> DEFINE S == {h[i] : i \in DOMAIN h}
           t == SubSeq(h, 1, Len(h) - 1)
<1>1. h \in Seq(S) /\ \A i \in 1 .. Len(h) : EntryOK(h[i])  BY DEF HistoryOK
<1> HIDE DEF S
<1>2. Len(h) \in Nat /\ Len(h) > 0  BY <1>1
<1>3. t \in Seq(S) /\ Len(t) = Len(h) - 1 /\ \A i \in 1 .. Len(t) : t[i] = h[i]
  <2>1. PICK n \in Nat : n = Len(h) - 1  BY <1>2
  <2>2. \A i \in 1 .. n : h[i] \in S  BY <1>1, <1>2, <2>1
  <2>3. /\ SubSeq(h, 1, n) \in Seq(S) /\ Len(SubSeq(h, 1, n)) = IF 1 <= n THEN n - 1 + 1 ELSE 0
        /\ \A i \in 1 .. n - 1 + 1 : SubSeq(h, 1, n)[i] = h[1 + i - 1]  BY <2>2, SubSeqProperties
  <2>4. t = SubSeq(h, 1, n)  BY <2>1
  <2> HIDE DEF t
  <2>5. Len(t) = n /\ \A i \in 1 .. n : t[i] = h[i]  BY <2>3, <2>4
  <2> QED BY <2>1, <2>3, <2>4, <2>5
<1>4. \A i \in 1 .. Len(t) : EntryOK(t[i])  BY <1>1, <1>2, <1>3
<1>5. t \in Seq({t[i] : i \in DOMAIN t})
  <2> HIDE DEF t
  <2> QED BY <1>3, SequenceOfItsOwn
<1> QED BY <1>1, <1>2, <1>4, <1>5 DEF HistoryOK

LEMMA RememberedIsKept ==
  ASSUME DanbooruInv
  PROVE  HistoryOK(rememberSearch)
<1>1. PICK e : e = [view |-> ui.view, draft |-> presented.draft, committed |-> ui.committed.explore,
                    page |-> ui.page.explore, filters |-> presented.filters,
                    result |-> ui.result.explore]  OBVIOUS
<1>2. EntryOK(e)
  <2>1. /\ e.view = ui.view /\ e.draft = presented.draft /\ e.committed = ui.committed.explore
        /\ e.filters = presented.filters  BY <1>1
  <2> QED BY <2>1 DEF EntryOK, PresentedOK, DanbooruInv, ScreenOK
<1>3. PICK all : all = Append(history, e)  OBVIOUS
<1>4. HistoryOK(all) /\ HistoryOK(Tail(all))  BY <1>2, <1>3, HistoryGrows DEF DanbooruInv
<1>5. rememberSearch = IF Len(all) > HistorySize THEN Tail(all) ELSE all  BY <1>1, <1>3 DEF rememberSearch
<1> QED BY <1>4, <1>5

(* A step without a load keeps what the screen is committed to. *)
LEMMA QuietKeeps ==
  ASSUME DanbooruInv, ScreenOK(ui'), ui'.committed = ui.committed, calls' \subseteq calls,
         sequence' = sequence, PresentedOK(presented'), HistoryOK(history')
  PROVE  DanbooruInv'  BY DEF DanbooruInv, CallsOK, LateSearchIsDropped, SearchesWithinBudget

(* Fields the invariant does not speak of. *)
LEMMA ScreenWithout ==
  ASSUME NEW u, ScreenOK(u), NEW w, DOMAIN w = ScreenFields, w.view = u.view, w.draft = u.draft,
         w.committed = u.committed, w.filters = u.filters
  PROVE  ScreenOK(w)  BY DEF ScreenOK

LEMMA LoadingKeeps ==
  ASSUME DanbooruInv, Loading
  PROVE  DanbooruInv'
<1>0. /\ ScreenOK(ui) /\ DOMAIN ui = ScreenFields /\ ui.view \in Views
      /\ PresentedOK(presented) /\ HistoryOK(history)  BY DEF DanbooruInv, ScreenOK
<1>1. CASE LoadRestored
  <2>1. PICK next : next = [ui EXCEPT !.restored = TRUE]  OBVIOUS
  <2>2. /\ DOMAIN next = ScreenFields /\ next.view = ui.view /\ next.draft = ui.draft
        /\ next.committed = ui.committed /\ next.filters = ui.filters  BY <1>0, <2>1 DEF ScreenFields
  <2>3. Load(ui.view, ui.committed[ui.view], ui.page[ui.view], FALSE, next)
        /\ UNCHANGED <<presented, history>>  BY <1>1, <2>1 DEF LoadRestored
  <2>4. ScreenOK(next)  BY <1>0, <2>2, ScreenWithout
  <2>5. ui.view = "explore" => ui.committed[ui.view] = next.committed.explore  BY <2>2
  <2> QED BY <1>0, <2>3, <2>4, <2>5, LoadKeeps
<1>2. CASE RetryLoad
  <2>1. Load(ui.view, ui.committed[ui.view], ui.page[ui.view], TRUE, ui)
        /\ UNCHANGED <<presented, history>>  BY <1>2 DEF RetryLoad, Reload
  <2>2. ui.view = "explore" => ui.committed[ui.view] = ui.committed.explore  OBVIOUS
  <2> QED BY <1>0, <2>1, <2>2, LoadKeeps
<1>3. CASE \E step \in {-1, 1} : Pager(step)
  <2> PICK step \in {-1, 1} : Pager(step)  BY <1>3
  <2>1. PICK page : Load(ui.view, ui.committed[ui.view], page, FALSE, ui)  BY DEF Pager
  <2>2. UNCHANGED <<presented, history>>  BY DEF Pager
  <2>3. ui.view = "explore" => ui.committed[ui.view] = ui.committed.explore  OBVIOUS
  <2> QED BY <1>0, <2>1, <2>2, <2>3, LoadKeeps
<1>4. CASE \E v \in Views : Navigate(v)
  <2> PICK v \in Views : Navigate(v)  BY <1>4
  <2>1. PICK next : next = [ui EXCEPT !.view = v, !.error = FALSE]  OBVIOUS
  <2>2. /\ DOMAIN next = ScreenFields /\ next.view = v /\ next.draft = ui.draft
        /\ next.committed = ui.committed /\ next.filters = ui.filters  BY <1>0, <2>1 DEF ScreenFields
  <2>3. Load(v, ui.committed[v], ui.page[v], FALSE, next) /\ UNCHANGED <<presented, history>>  BY <2>1 DEF Navigate
  <2>4. ScreenOK(next)  BY <1>0, <2>2 DEF ScreenOK
  <2>5. v = "explore" => ui.committed[v] = next.committed.explore  BY <2>2
  <2> QED BY <1>0, <2>3, <2>4, <2>5, LoadKeeps
<1>5. CASE \E c \in calls : LoadAnswered(c)
  <2> PICK c \in calls : LoadAnswered(c)  BY <1>5
  <2>1. calls' \subseteq calls /\ UNCHANGED <<presented, history, sequence>>  BY DEF LoadAnswered
  <2>2. /\ DOMAIN ui' = ScreenFields /\ ui'.view = ui.view /\ ui'.draft = ui.draft
        /\ ui'.committed = ui.committed /\ ui'.filters = ui.filters
    <3>1. CASE ui' = ui  BY <1>0, <3>1
    <3>2. CASE \E answer \in Answers(c) :
                 ui' = [ui EXCEPT !.loading = FALSE, !.result[c.view] = answer,
                                  !.page[c.view] = answer.page]
      <4> PICK answer : ui' = [ui EXCEPT !.loading = FALSE, !.result[c.view] = answer,
                                         !.page[c.view] = answer.page]  BY <3>2
      <4> QED BY <1>0 DEF ScreenFields
    <3>3. CASE ui' = [ui EXCEPT !.loading = FALSE, !.error = TRUE]  BY <1>0, <3>3 DEF ScreenFields
    <3> QED BY <3>1, <3>2, <3>3 DEF LoadAnswered
  <2>3. ScreenOK(ui')  BY <1>0, <2>2, ScreenWithout
  <2> QED BY <1>0, <2>1, <2>2, <2>3, QuietKeeps
<1> QED BY <1>1, <1>2, <1>3, <1>4, <1>5 DEF Loading

LEMMA ViewingKeeps ==
  ASSUME DanbooruInv, Viewing \/ Saving
  PROVE  DanbooruInv'
<1>0. /\ ScreenOK(ui) /\ DOMAIN ui = ScreenFields /\ ui.view \in Views
      /\ PresentedOK(presented) /\ HistoryOK(history)  BY DEF DanbooruInv, ScreenOK
<1>1. ASSUME DOMAIN ui' = ScreenFields, ui'.view = ui.view, ui'.draft = ui.draft,
             ui'.committed = ui.committed, ui'.filters = ui.filters,
             UNCHANGED <<presented, history, sequence, calls>>
      PROVE  DanbooruInv'
  <2>1. ScreenOK(ui')  BY <1>0, <1>1, ScreenWithout
  <2> QED BY <1>0, <1>1, <2>1, QuietKeeps
<1>2. CASE \E post \in Posts : OpenDetail(post)
  <2> PICK post \in Posts : OpenDetail(post)  BY <1>2
  <2>1. ui' = [ui EXCEPT !.detail = post] /\ UNCHANGED <<presented, history, sequence, calls>>
    BY DEF OpenDetail, searchVars
  <2> QED BY <1>0, <1>1, <2>1 DEF ScreenFields
<1>3. CASE CloseDetail
  <2>1. ui' = [ui EXCEPT !.detail = None] /\ UNCHANGED <<presented, history, sequence, calls>>
    BY <1>3 DEF CloseDetail, searchVars
  <2> QED BY <1>0, <1>1, <2>1 DEF ScreenFields
<1>4. CASE RelatedAnswered  BY <1>0, <1>1, <1>4 DEF RelatedAnswered, searchVars
<1>5. CASE OpenRandom
  <2>1. ui' = [ui EXCEPT !.loading = TRUE, !.error = FALSE]
        /\ UNCHANGED <<presented, history, sequence, calls>>  BY <1>5 DEF OpenRandom, searchVars
  <2> QED BY <1>0, <1>1, <2>1 DEF ScreenFields
<1>6. CASE RandomAnswered
  <2>1. UNCHANGED <<presented, history, sequence, calls>>  BY <1>6 DEF RandomAnswered, searchVars
  <2>2. CASE ui' = [ui EXCEPT !.loading = FALSE, !.error = TRUE]  BY <1>0, <1>1, <2>1, <2>2 DEF ScreenFields
  <2>3. CASE \E post \in Posts : ui' = [ui EXCEPT !.loading = FALSE, !.detail = post]
    <3> PICK post : ui' = [ui EXCEPT !.loading = FALSE, !.detail = post]  BY <2>3
    <3> QED BY <1>0, <1>1, <2>1 DEF ScreenFields
  <2> QED BY <1>6, <2>2, <2>3 DEF RandomAnswered
<1>7. CASE \E post \in Posts : Download(post)  BY <1>0, <1>1, <1>7 DEF Download, searchVars
<1>8. CASE \E p \in pending : Downloaded(p)
  <2> PICK p \in pending : Downloaded(p)  BY <1>8
  <2>1. UNCHANGED <<presented, history>>  BY DEF Downloaded
  <2>2. CASE UNCHANGED <<ui, sequence, calls>>  BY <1>0, <1>1, <2>1, <2>2
  <2>3. CASE Load("downloads", p.query, p.page, TRUE, ui)  BY <1>0, <2>1, <2>3, LoadKeeps DEF Views
  <2> QED BY <2>2, <2>3 DEF Downloaded
<1> QED BY <1>2, <1>3, <1>4, <1>5, <1>6, <1>7, <1>8 DEF Viewing, Saving

(* Searches that are typed are counted before they are sent. *)
LEMMA SubmitSearchKeeps ==
  ASSUME DanbooruInv, NEW draft, IsFiniteSet(draft), NEW filters, FilterOK(filters),
         SubmitSearch(draft, filters)
  PROVE  DanbooruInv'
<1>0. /\ ScreenOK(ui) /\ DOMAIN ui = ScreenFields /\ DOMAIN ui.draft = Views
      /\ DOMAIN ui.committed = Views /\ PresentedOK(presented) /\ HistoryOK(history)
  BY DEF DanbooruInv, ScreenOK
<1>1. PICK query : query = Query(draft, filters)  OBVIOUS
<1>2. PICK next : next = [ui EXCEPT !.draft.explore = draft, !.filters = filters]  OBVIOUS
<1>3. /\ DOMAIN next = ScreenFields /\ next.view = ui.view /\ next.committed = ui.committed
      /\ next.filters = filters /\ DOMAIN next.draft = Views /\ next.draft.explore = draft
  BY <1>0, <1>2 DEF ScreenFields, Views
<1>4. LimitedTerms(query) \in Nat  BY <1>1, DraftIsCounted DEF FilterOK
<1>5. CASE LimitedTerms(query) > 2
  <2>1. ui' = [next EXCEPT !.error = TRUE] /\ UNCHANGED <<presented, history, sequence, calls>>
    BY <1>1, <1>2, <1>5 DEF SubmitSearch
  <2>2. /\ DOMAIN ui' = ScreenFields /\ ui'.view = ui.view /\ ui'.committed = ui.committed
        /\ ui'.filters = filters /\ ui'.draft = next.draft  BY <1>3, <2>1 DEF ScreenFields
  <2>3. ScreenOK(ui')  BY <1>0, <1>3, <2>2 DEF ScreenOK
  <2> QED BY <1>0, <2>1, <2>2, <2>3, QuietKeeps
<1>6. CASE ~(LimitedTerms(query) > 2)
  <2>1. LimitedTerms(query) <= 2  BY <1>4, <1>6
  <2>2. PICK there : there = [next EXCEPT !.committed.explore = query, !.page.explore = 1]  OBVIOUS
  <2>3. /\ DOMAIN there = ScreenFields /\ there.view = ui.view /\ there.draft = next.draft
        /\ there.filters = filters /\ DOMAIN there.committed = Views
        /\ there.committed.explore = query  BY <1>0, <1>3, <2>2 DEF ScreenFields, Views
  <2>4. ScreenOK(there)  BY <1>0, <1>3, <2>1, <2>3 DEF ScreenOK
  <2>5. Load("explore", query, 1, TRUE, there)  BY <1>1, <1>2, <1>6, <2>2 DEF SubmitSearch
  <2>6. history' = rememberSearch \/ history' = history  BY <1>1, <1>6 DEF SubmitSearch
  <2>7. HistoryOK(history')  BY <1>0, <2>6, RememberedIsKept
  <2>8. presented' = [draft |-> draft, filters |-> filters]  BY <1>1, <1>6 DEF SubmitSearch
  <2>9. PresentedOK(presented')
    <3>1. presented'.draft = draft /\ presented'.filters = filters  BY <2>8
    <3> QED BY <3>1 DEF PresentedOK
  <2> QED BY <2>3, <2>4, <2>5, <2>7, <2>9, LoadKeeps DEF Views
<1> QED BY <1>5, <1>6

LEMMA SearchingKeeps ==
  ASSUME SearchesAreText, DanbooruInv, Searching
  PROVE  DanbooruInv'
<1>0. /\ ScreenOK(ui) /\ DOMAIN ui = ScreenFields /\ DOMAIN ui.draft = Views /\ ui.view \in Views
      /\ IsFiniteSet(ui.draft.explore) /\ FilterOK(ui.filters)
      /\ DOMAIN ui.committed = Views /\ PresentedOK(presented) /\ HistoryOK(history)
  BY DEF DanbooruInv, ScreenOK
<1>1. CASE \E d \in Drafts : TypeDraft(d)
  <2> PICK d \in Drafts : TypeDraft(d)  BY <1>1
  <2>0. IsFiniteSet(d)  BY DEF SearchesAreText
  <2>1. ui' = [ui EXCEPT !.draft[ui.view] = d] /\ UNCHANGED <<presented, history, sequence, calls>>
    BY DEF TypeDraft, searchVars
  <2>2. /\ DOMAIN ui' = ScreenFields /\ ui'.view = ui.view /\ ui'.committed = ui.committed
        /\ ui'.filters = ui.filters /\ ui'.draft = [ui.draft EXCEPT ![ui.view] = d]
    BY <1>0, <2>1 DEF ScreenFields
  <2>3. DOMAIN ui'.draft = Views /\ (ui'.draft.explore = d \/ ui'.draft.explore = ui.draft.explore)
    BY <1>0, <2>2 DEF Views
  <2>4. ScreenOK(ui')  BY <1>0, <2>0, <2>2, <2>3 DEF ScreenOK
  <2> QED BY <1>0, <2>1, <2>2, <2>4, QuietKeeps
<1>2. CASE \E f \in Filters : SetFilters(f)
  <2> PICK f \in Filters : SetFilters(f)  BY <1>2
  <2>0. FilterOK(f)  BY DEF SearchesAreText
  <2>1. ui' = [ui EXCEPT !.filters = f] /\ UNCHANGED <<presented, history, sequence, calls>>
    BY DEF SetFilters, searchVars
  <2>2. /\ DOMAIN ui' = ScreenFields /\ ui'.view = ui.view /\ ui'.committed = ui.committed
        /\ ui'.filters = f /\ ui'.draft = ui.draft  BY <1>0, <2>1 DEF ScreenFields
  <2>3. ScreenOK(ui')  BY <1>0, <2>0, <2>2 DEF ScreenOK
  <2> QED BY <1>0, <2>1, <2>2, <2>3, QuietKeeps
<1>3. CASE Submit
  <2>1. CASE SubmitSearch(ui.draft.explore, ui.filters)  BY <1>0, <2>1, SubmitSearchKeeps
  <2>2. CASE \E f \in Filters : SubmitSearch(ui.draft.explore, f)
    <3> PICK f \in Filters : SubmitSearch(ui.draft.explore, f)  BY <2>2
    <3>1. FilterOK(f)  BY DEF SearchesAreText
    <3> QED BY <1>0, <3>1, SubmitSearchKeeps
  <2>3. CASE /\ Load("downloads", ui.draft.downloads, 1, TRUE,
                     [ui EXCEPT !.committed.downloads = ui.draft.downloads, !.page.downloads = 1])
             /\ UNCHANGED <<presented, history, cache, saveVars, related>>
    <3>1. PICK next : next = [ui EXCEPT !.committed.downloads = ui.draft.downloads,
                                        !.page.downloads = 1]  OBVIOUS
    <3>2. /\ DOMAIN next = ScreenFields /\ next.view = ui.view /\ next.draft = ui.draft
          /\ next.filters = ui.filters /\ DOMAIN next.committed = Views
          /\ next.committed.explore = ui.committed.explore  BY <1>0, <3>1 DEF ScreenFields, Views
    <3>3. ScreenOK(next)  BY <1>0, <3>2 DEF ScreenOK
    <3>4. PICK query : Load("downloads", query, 1, TRUE, next)  BY <2>3, <3>1
    <3> QED BY <1>0, <2>3, <3>3, <3>4, LoadKeeps DEF Views
  <2> QED BY <1>3, <2>1, <2>2, <2>3 DEF Submit
<1>4. CASE RestoreSearch
  <2>1. PICK e : e = history[Len(history)]  OBVIOUS
  <2>2. EntryOK(e) /\ HistoryOK(history')  BY <1>0, <1>4, <2>1, HistoryShrinks DEF RestoreSearch
  <2>3. ui' = Back(e) /\ sequence' = sequence + 1 /\ calls' = calls  BY <1>4, <2>1 DEF RestoreSearch
  <2>4. /\ DOMAIN ui' = ScreenFields /\ ui'.view = e.view /\ DOMAIN ui'.draft = Views
        /\ ui'.draft.explore = e.draft /\ ui'.filters = e.filters /\ DOMAIN ui'.committed = Views
        /\ ui'.committed.explore = e.committed  BY <1>0, <2>3 DEF Back, ScreenFields, Views
  <2>5. ScreenOK(ui')  BY <2>2, <2>4 DEF ScreenOK, EntryOK, PresentedOK
  <2>6. presented' = [draft |-> e.draft, filters |-> e.filters]  BY <1>4, <2>1 DEF RestoreSearch
  <2>7. PresentedOK(presented')
    <3>1. presented'.draft = e.draft /\ presented'.filters = e.filters  BY <2>6
    <3> QED BY <2>2, <3>1 DEF PresentedOK, EntryOK
  <2>8. CallsOK' /\ LateSearchIsDropped' /\ SearchesWithinBudget'
    BY <2>3 DEF DanbooruInv, CallsOK, LateSearchIsDropped, SearchesWithinBudget
  <2> QED BY <2>2, <2>5, <2>7, <2>8 DEF DanbooruInv
<1>5. CASE \E tag \in UNION Drafts : SearchTag(tag)
  <2> PICK tag : SearchTag(tag)  BY <1>5
  <2>1. PICK query : query = Query({tag}, ui.filters)  OBVIOUS
  <2>2. LimitedTerms(query) <= 2  BY <1>0, <2>1, TagWithinBudget
  <2>3. PICK next : next = [ui EXCEPT !.detail = None, !.view = "explore", !.draft.explore = {tag},
                                      !.committed.explore = query, !.page.explore = 1]  OBVIOUS
  <2>4. /\ DOMAIN next = ScreenFields /\ next.view = "explore" /\ DOMAIN next.draft = Views
        /\ next.draft.explore = {tag} /\ next.filters = ui.filters
        /\ DOMAIN next.committed = Views /\ next.committed.explore = query
    BY <1>0, <2>3 DEF ScreenFields, Views
  <2>5. IsFiniteSet({tag})  BY FS_Singleton
  <2>6. ScreenOK(next)  BY <1>0, <2>2, <2>4, <2>5 DEF ScreenOK, Views
  <2>7. Load("explore", query, 1, FALSE, next)  BY <2>1, <2>3 DEF SearchTag
  <2>8. HistoryOK(history')  BY RememberedIsKept DEF SearchTag
  <2>9. PresentedOK(presented')
    <3>1. presented' = [draft |-> {tag}, filters |-> ui.filters]  BY DEF SearchTag
    <3>2. presented'.draft = {tag} /\ presented'.filters = ui.filters  BY <3>1
    <3> QED BY <1>0, <2>5, <3>2 DEF PresentedOK
  <2> QED BY <2>4, <2>6, <2>7, <2>8, <2>9, LoadKeeps DEF Views
<1>6. CASE Restart
  <2>1. PICK f \in Filters :
          /\ ui' = [defaultState EXCEPT !.view = ui.view, !.draft = ui.draft,
                                        !.committed = ui.committed, !.page = ui.page, !.filters = f]
          /\ presented' = [draft |-> ui.draft.explore, filters |-> f]  BY <1>6 DEF Restart
  <2>2. FilterOK(f)  BY DEF SearchesAreText
  <2>3. /\ DOMAIN ui' = ScreenFields /\ ui'.view = ui.view /\ ui'.committed = ui.committed
        /\ ui'.filters = f /\ ui'.draft = ui.draft  BY <2>1 DEF ScreenFields, defaultState
  <2>4. ScreenOK(ui')  BY <1>0, <2>2, <2>3 DEF ScreenOK
  <2>5. PresentedOK(presented')
    <3>1. presented'.draft = ui.draft.explore /\ presented'.filters = f  BY <2>1
    <3> QED BY <1>0, <2>2, <3>1 DEF PresentedOK
  <2>6. HistoryOK(<<>>)  BY DEF HistoryOK
  <2> QED BY <1>6, <2>3, <2>4, <2>5, <2>6, QuietKeeps DEF Restart
<1> QED BY <1>1, <1>2, <1>3, <1>4, <1>5, <1>6 DEF Searching

(* Whatever is typed, narrowed, paged, restored or taken from a post while
   loads are under way: an answer that may still be shown is the answer of the
   search on screen, and no search with more than two limited conditions is
   sent (DanbooruWorkspace requestSequence, danbooruLimitedTermCount). *)
THEOREM LateSearchesAreDropped ==
  ASSUME SearchesAreText
  PROVE  Spec => [](LateSearchIsDropped /\ SearchesWithinBudget)
<1>1. Init => DanbooruInv
  <2> SUFFICES ASSUME Init
               PROVE  DanbooruInv  OBVIOUS
  <2>1. /\ DOMAIN ui = ScreenFields /\ DOMAIN ui.draft = Views /\ DOMAIN ui.committed = Views
        /\ ui.view \in Views /\ ui.draft.explore = {} /\ ui.filters = {} /\ ui.committed.explore = {}
        /\ presented.draft = {} /\ presented.filters = {}
    BY DEF Init, defaultState, ScreenFields, Views, NoFilters
  <2>2. ScreenOK(ui) /\ PresentedOK(presented)  BY <2>1, NothingIsLimited DEF ScreenOK, PresentedOK, FilterOK
  <2>3. HistoryOK(history)  BY DEF Init, HistoryOK
  <2> QED BY <2>2, <2>3 DEF Init, DanbooruInv, CallsOK, LateSearchIsDropped, SearchesWithinBudget
<1>2. DanbooruInv /\ [Next]_vars => DanbooruInv'
  <2>1. CASE Next  BY <2>1, LoadingKeeps, ViewingKeeps, SearchingKeeps DEF Next
  <2>2. CASE UNCHANGED vars  BY <2>2 DEF vars, DanbooruInv, CallsOK, LateSearchIsDropped, SearchesWithinBudget
  <2> QED BY <2>1, <2>2
<1>3. DanbooruInv => LateSearchIsDropped /\ SearchesWithinBudget  BY DEF DanbooruInv
<1> QED BY <1>1, <1>2, <1>3, PTL DEF Spec

----
(* The settings.  An edit is never lost because each place it passes through
   covers the next: what is typed covers what is queued, that covers what is
   being sent, and that the stored row.  A patch may be forgotten once the
   row has it, and a dialog may be opened from a snapshot, because a snapshot
   that is not older than the window's agrees with the row on every key of
   the dialog, but for those queued or being sent: a write that fails may
   have been stored. *)

CONSTANTS MaxEdits, MaxFaults

VARIABLES db, latest, news, open, draft, inputEdits, unsent, inFlight, timer, save, prefs, shown,
          care, asked, edits, faults

E == INSTANCE Settings WITH pending <- unsent

(* The keys of the dialog; the list views have one of their own. *)
DialogKeys == {"name", "slots", "cols", "include", "exclude"}
AllKeys == DialogKeys \cup {"grouping"}

PatchTypes ==
  /\ DOMAIN inputEdits \subseteq DialogKeys /\ DOMAIN unsent \subseteq DialogKeys
  /\ DOMAIN inFlight \subseteq DialogKeys /\ DOMAIN asked \subseteq DialogKeys
  /\ DOMAIN draft = AllKeys
  /\ DOMAIN prefs.queued \subseteq {"grouping"} /\ DOMAIN prefs.desired \subseteq {"grouping"}
  /\ {"at", "queued", "desired", "rev"} = DOMAIN prefs
  /\ {"at", "rev", "got"} = DOMAIN save
  /\ save.at = "idle" => DOMAIN inFlight = {}

SnapshotOK(s) == s.rev \in Nat /\ s.rev <= db.rev /\ DOMAIN s.val = AllKeys

(* The snapshots the window may still take in. *)
Announced == {db, latest} \cup {news[i] : i \in 1 .. Len(news)}

Agrees(s, but) == \A k \in DialogKeys \ but : s.val[k] = db.val[k]
Unstored == DOMAIN inFlight \cup DOMAIN unsent

SnapshotsAgree ==
  /\ \E S : news \in Seq(S)
  /\ \A s \in Announced : SnapshotOK(s) /\ (s.rev >= latest.rev => Agrees(s, Unstored))
  /\ save.at = "ok" => /\ SnapshotOK(save.got)
                       /\ \A k \in DOMAIN inFlight : db.val[k] = inFlight[k]
                       /\ Agrees(save.got, {})
                       /\ \A s \in Announced : s.rev >= save.got.rev => Agrees(s, {})

(* What a key comes to when the layers i, p and f lie over d. *)
Top(i, p, f, d, k) ==
  IF k \in DOMAIN i THEN i[k]
  ELSE IF k \in DOMAIN p THEN p[k]
  ELSE IF k \in DOMAIN f THEN f[k] ELSE d[k]

Kept ==
  \A k \in DOMAIN asked : /\ Top(inputEdits, unsent, inFlight, db.val, k) = asked[k]
                          /\ open => draft[k] = asked[k]

(* The two tag lists of a rule are in a patch together, and do not clash. *)
Whole(p) ==
  DOMAIN p \cap {"include", "exclude"} # {} =>
    {"include", "exclude"} \subseteq DOMAIN p /\ p.include \cap p.exclude = {}

SettingsInv == PatchTypes /\ SnapshotsAgree /\ Kept /\ Whole(unsent) /\ Whole(inFlight)

LEMMA NothingIsEmpty == DOMAIN E!Nothing = {}  BY DEF E!Nothing

LEMMA WholeOver ==
  ASSUME NEW new, NEW old, Whole(new), Whole(old)
  PROVE  Whole(E!Over(new, old))
<1>1. PICK o : o = E!Over(new, old)  OBVIOUS
<1>2. /\ DOMAIN o = DOMAIN new \cup DOMAIN old
      /\ \A k \in DOMAIN new : o[k] = new[k]
      /\ \A k \in DOMAIN old \ DOMAIN new : o[k] = old[k]  BY <1>1 DEF E!Over
<1>3. Whole(o)  BY <1>2 DEF Whole
<1> QED BY <1>1, <1>3

LEMMA TopIs ==
  ASSUME NEW i, NEW p, NEW f, NEW d, NEW k \in DOMAIN d
  PROVE  E!Over(i, E!Over(E!Over(p, f), d))[k] = Top(i, p, f, d, k)
<1>1. PICK u : u = E!Over(p, f)  OBVIOUS
<1>2. /\ DOMAIN u = DOMAIN p \cup DOMAIN f
      /\ \A j \in DOMAIN u : u[j] = IF j \in DOMAIN p THEN p[j] ELSE f[j]  BY <1>1 DEF E!Over
<1>3. PICK v : v = E!Over(u, d)  OBVIOUS
<1>4. /\ DOMAIN v = DOMAIN u \cup DOMAIN d
      /\ \A j \in DOMAIN v : v[j] = IF j \in DOMAIN u THEN u[j] ELSE d[j]  BY <1>3 DEF E!Over
<1>5. E!Over(i, v)[k] = IF k \in DOMAIN i THEN i[k] ELSE v[k]  BY <1>4 DEF E!Over
<1>6. E!Over(i, v)[k] = Top(i, p, f, d, k)  BY <1>2, <1>4, <1>5 DEF Top
<1> QED BY <1>1, <1>3, <1>6

(* A flush hands the patch to a write under way, or starts one with it. *)
LEMMA FlushIs ==
  ASSUME NEW p, E!Flush(p), PatchTypes
  PROVE  \/ unsent' = p /\ inFlight' = inFlight /\ save' = save
         \/ /\ save.at = "idle" /\ DOMAIN inFlight = {}
            /\ DOMAIN unsent' = {} /\ inFlight' = p
            /\ save'.at = "sent" /\ DOMAIN save' = {"at", "rev", "got"}
<1>1. CASE save.at # "idle" \/ p = E!Nothing  BY <1>1 DEF E!Flush
<1>2. CASE ~(save.at # "idle" \/ p = E!Nothing)
  <2>1. unsent' = E!Nothing /\ inFlight' = p /\ save' = E!Sent(latest.rev)  BY <1>2 DEF E!Flush
  <2>2. save'.at = "sent" /\ DOMAIN save' = {"at", "rev", "got"}  BY <2>1 DEF E!Sent, E!NoWrite
  <2> QED BY <1>2, <2>1, <2>2, NothingIsEmpty DEF PatchTypes
<1> QED BY <1>1, <1>2

(* What a step outside the backend's row leaves agreed. *)
LEMMA SnapshotsStay ==
  ASSUME SnapshotsAgree, UNCHANGED <<db, latest, news>>,
         Unstored \subseteq Unstored',
         \/ save' = save /\ inFlight' = inFlight
         \/ save'.at # "ok"
  PROVE  SnapshotsAgree'
<1>1. \A s \in Announced' : SnapshotOK(s)' /\ (s.rev >= latest'.rev => Agrees(s, Unstored)')
  BY DEF SnapshotsAgree, Announced, SnapshotOK, Agrees
<1>2. CASE save' = save /\ inFlight' = inFlight  BY <1>1, <1>2 DEF SnapshotsAgree, Announced, SnapshotOK, Agrees
<1>3. CASE save'.at # "ok"  BY <1>1, <1>3 DEF SnapshotsAgree
<1> QED BY <1>2, <1>3

(* A snapshot at least as new as the window's may take its place. *)
LEMMA SnapshotsAdvance ==
  ASSUME SnapshotsAgree, db' = db, save' = save, inFlight' = inFlight, unsent' = unsent,
         Announced' \subseteq Announced, \E S : news' \in Seq(S),
         latest'.rev >= latest.rev, latest' \in Announced
  PROVE  SnapshotsAgree'
<1>1. Unstored' = Unstored  BY DEF Unstored
<1>2. \A s \in Announced : s.rev \in Nat  BY DEF SnapshotsAgree, SnapshotOK
<1>3. latest \in Announced  BY DEF Announced
<1>4. ASSUME NEW s \in Announced'
      PROVE  SnapshotOK(s)' /\ (s.rev >= latest'.rev => Agrees(s, Unstored)')
  <2>1. s \in Announced  BY <1>4
  <2>2. s.rev >= latest'.rev => s.rev >= latest.rev  BY <1>2, <1>3, <2>1
  <2> QED BY <1>1, <2>1, <2>2 DEF SnapshotsAgree, SnapshotOK, Agrees
<1>5. save'.at = "ok" => /\ SnapshotOK(save.got)'
                         /\ \A k \in DOMAIN inFlight' : db'.val[k] = inFlight'[k]
                         /\ Agrees(save.got, {})'
                         /\ \A s \in Announced' : s.rev >= save'.got.rev => Agrees(s, {})'
  BY DEF SnapshotsAgree, SnapshotOK, Agrees
<1> QED BY <1>4, <1>5 DEF SnapshotsAgree

LEMMA AcceptIs ==
  ASSUME NEW s, E!Accept(s), s.rev \in Nat, latest.rev \in Nat
  PROVE  latest' \in {s, latest} /\ latest'.rev >= latest.rev /\ latest'.rev >= s.rev  BY DEF E!Accept

(* A flush of what is queued, or of what is laid over it. *)
LEMMA FlushKeeps ==
  ASSUME SettingsInv, NEW p, E!Flush(p), DOMAIN p \subseteq DialogKeys, Whole(p),
         DOMAIN unsent \subseteq DOMAIN p,
         UNCHANGED <<db, latest, news, prefs>>,
         DOMAIN inputEdits' \subseteq DialogKeys, DOMAIN asked' \subseteq DialogKeys,
         DOMAIN draft' = AllKeys,
         \A k \in DOMAIN asked' : /\ Top(inputEdits', p, inFlight, db.val, k) = asked'[k]
                                  /\ open' => draft'[k] = asked'[k]
  PROVE  SettingsInv'
<1>1. \/ unsent' = p /\ inFlight' = inFlight /\ save' = save
      \/ /\ save.at = "idle" /\ DOMAIN inFlight = {}
         /\ DOMAIN unsent' = {} /\ inFlight' = p
         /\ save'.at = "sent" /\ DOMAIN save' = {"at", "rev", "got"}  BY FlushIs DEF SettingsInv
<1>2. SnapshotsAgree'  BY <1>1, SnapshotsStay DEF SettingsInv, Unstored
<1>3. PatchTypes'  BY <1>1 DEF SettingsInv, PatchTypes
<1>4. \A k : Top(inputEdits', unsent', inFlight', db.val, k) = Top(inputEdits', p, inFlight, db.val, k)
  BY <1>1 DEF Top
<1>5. Kept'  BY <1>4 DEF Kept
<1>6. Whole(unsent') /\ Whole(inFlight')  BY <1>1 DEF SettingsInv, Whole
<1> QED BY <1>2, <1>3, <1>5, <1>6 DEF SettingsInv, Whole

LEMMA NewsArrivesKeeps ==
  ASSUME SettingsInv, E!NewsArrives
  PROVE  SettingsInv'
<1>1. /\ UNCHANGED <<db, open, draft, inputEdits, unsent, inFlight, timer, save, prefs, care, asked>>
      /\ news # <<>> /\ E!Accept(Head(news)) /\ news' = Tail(news)
  BY DEF E!NewsArrives, E!dialogVars, E!autosaveVars
<1>2. PICK S : news \in Seq(S)  BY DEF SettingsInv, SnapshotsAgree
<1>3. /\ Len(news) >= 1 /\ Len(news) \in Nat /\ Head(news) = news[1]
      /\ Tail(news) \in Seq(S) /\ Len(Tail(news)) = Len(news) - 1
      /\ \A i \in 1 .. Len(news) - 1 : Tail(news)[i] = news[i + 1]  BY <1>1, <1>2
<1>4. Head(news) \in Announced /\ latest \in Announced  BY <1>3 DEF Announced
<1>5. Head(news).rev \in Nat /\ latest.rev \in Nat  BY <1>4 DEF SettingsInv, SnapshotsAgree, SnapshotOK
<1>6. latest' \in {Head(news), latest} /\ latest'.rev >= latest.rev  BY <1>1, <1>5, AcceptIs
<1>7. Announced' \subseteq Announced
  <2> SUFFICES ASSUME NEW s \in Announced'
               PROVE  s \in Announced  OBVIOUS
  <2>1. CASE s \in {db, latest'}  BY <2>1, <1>4, <1>6 DEF Announced
  <2>2. CASE s \in {Tail(news)[i] : i \in 1 .. Len(Tail(news))}
    <3>1. PICK i \in 1 .. Len(news) - 1 : s = news[i + 1]  BY <2>2, <1>3
    <3>2. i + 1 \in 1 .. Len(news)  BY <1>3
    <3> QED BY <3>1, <3>2 DEF Announced
  <2> QED BY <2>1, <2>2, <1>1 DEF Announced
<1>8. SnapshotsAgree'  BY <1>1, <1>3, <1>4, <1>6, <1>7, SnapshotsAdvance DEF SettingsInv
<1> QED BY <1>1, <1>8 DEF SettingsInv, PatchTypes, Kept, Whole

LEMMA TimerFiresKeeps ==
  ASSUME SettingsInv, E!TimerFires \/ E!Retry
  PROVE  SettingsInv'
<1>1. E!Flush(unsent) /\ UNCHANGED <<db, latest, news, prefs, inputEdits, asked, draft, open>>
  BY DEF E!TimerFires, E!Retry, E!dialogVars
<1>2. /\ DOMAIN unsent \subseteq DialogKeys /\ Whole(unsent)
      /\ DOMAIN inputEdits' \subseteq DialogKeys /\ DOMAIN asked' \subseteq DialogKeys
      /\ DOMAIN draft' = AllKeys  BY <1>1 DEF SettingsInv, PatchTypes
<1>3. \A k \in DOMAIN asked' : /\ Top(inputEdits', unsent, inFlight, db.val, k) = asked'[k]
                               /\ open' => draft'[k] = asked'[k]  BY <1>1 DEF SettingsInv, Kept
<1> QED BY <1>1, <1>2, <1>3, FlushKeeps

LEMMA RefreshKeeps ==
  ASSUME SettingsInv, E!Refresh
  PROVE  SettingsInv'
<1>1. /\ UNCHANGED <<db, news, open, draft, inputEdits, unsent, inFlight, prefs, care, asked>>
      /\ save.at = "stale"  BY DEF E!Refresh, E!dialogVars
<1>2. DOMAIN save = {"at", "rev", "got"}  BY DEF SettingsInv, PatchTypes
<1>3. /\ latest' \in {db, latest} /\ latest'.rev >= latest.rev
      /\ save'.at \in {"resent", "refused"} /\ DOMAIN save' = {"at", "rev", "got"}
  <2>1. CASE E!Accept(db) /\ save' = [E!NoWrite EXCEPT !.at = "resent", !.rev = latest'.rev]
    <3>1. db.rev \in Nat /\ latest.rev \in Nat  BY DEF SettingsInv, SnapshotsAgree, Announced, SnapshotOK
    <3>2. latest' \in {db, latest} /\ latest'.rev >= latest.rev  BY <2>1, <3>1, AcceptIs
    <3>3. save'.at = "resent" /\ DOMAIN save' = {"at", "rev", "got"}  BY <2>1 DEF E!NoWrite
    <3> QED BY <3>2, <3>3
  <2>2. CASE save' = [save EXCEPT !.at = "refused"] /\ latest' = latest
    <3>1. latest.rev \in Nat  BY DEF SettingsInv, SnapshotsAgree, Announced, SnapshotOK
    <3> QED BY <2>2, <3>1, <1>2
  <2> QED BY <2>1, <2>2 DEF E!Refresh
<1>4. \A s \in Announced : s.rev \in Nat  BY DEF SettingsInv, SnapshotsAgree, SnapshotOK
<1>5. Announced' \subseteq Announced /\ latest \in Announced /\ latest' \in Announced  BY <1>1, <1>3 DEF Announced
<1>6. Unstored' = Unstored  BY <1>1 DEF Unstored
<1>7. ASSUME NEW s \in Announced'
      PROVE  SnapshotOK(s)' /\ (s.rev >= latest'.rev => Agrees(s, Unstored)')
  <2>1. s \in Announced /\ (s.rev >= latest'.rev => s.rev >= latest.rev)  BY <1>3, <1>4, <1>5, <1>7
  <2> QED BY <1>1, <1>6, <2>1 DEF SettingsInv, SnapshotsAgree, SnapshotOK, Agrees
<1>8. SnapshotsAgree'  BY <1>1, <1>3, <1>6, <1>7 DEF SettingsInv, SnapshotsAgree
<1>9. PatchTypes'  BY <1>1, <1>3 DEF SettingsInv, PatchTypes
<1> QED BY <1>1, <1>8, <1>9 DEF SettingsInv, Kept, Whole

LEMMA OpenDialogKeeps ==
  ASSUME SettingsInv, E!OpenDialog
  PROVE  SettingsInv'
<1>1. /\ UNCHANGED <<db, latest, news, inputEdits, unsent, inFlight, save, prefs, asked>>
      /\ draft' = E!Over(inputEdits, E!Over(E!Over(unsent, inFlight), latest.val))
  BY DEF E!OpenDialog, E!Unsaved, E!autosaveVars
<1>2. /\ latest \in Announced /\ latest.rev \in Nat /\ DOMAIN latest.val = AllKeys
      /\ DOMAIN db.val = AllKeys  BY DEF SettingsInv, SnapshotsAgree, SnapshotOK, Announced
<1>3. Agrees(latest, Unstored)  BY <1>2 DEF SettingsInv, SnapshotsAgree
<1>4. ASSUME NEW k \in DOMAIN asked
      PROVE  draft'[k] = asked[k]
  <2>1. k \in DialogKeys /\ k \in AllKeys  BY DEF SettingsInv, PatchTypes, AllKeys
  <2>2. draft'[k] = Top(inputEdits, unsent, inFlight, latest.val, k)  BY <1>1, <1>2, <2>1, TopIs
  <2>3. k \notin DOMAIN inFlight \cup DOMAIN unsent => latest.val[k] = db.val[k]  BY <1>3, <2>1 DEF Agrees, Unstored
  <2>4. Top(inputEdits, unsent, inFlight, latest.val, k) = Top(inputEdits, unsent, inFlight, db.val, k)
    BY <2>3 DEF Top
  <2> QED BY <2>2, <2>4 DEF SettingsInv, Kept
<1>5. DOMAIN draft' = AllKeys
  <2>1. PICK u : u = E!Over(unsent, inFlight)  OBVIOUS
  <2>2. PICK v : v = E!Over(u, latest.val)  OBVIOUS
  <2>3. DOMAIN u = DOMAIN unsent \cup DOMAIN inFlight  BY <2>1 DEF E!Over
  <2>4. DOMAIN v = DOMAIN u \cup DOMAIN latest.val  BY <2>2 DEF E!Over
  <2>5. DOMAIN E!Over(inputEdits, v) = DOMAIN inputEdits \cup DOMAIN v  BY DEF E!Over
  <2> QED BY <1>1, <1>2, <2>1, <2>2, <2>3, <2>4, <2>5 DEF SettingsInv, PatchTypes, AllKeys
<1>6. SnapshotsAgree'  BY <1>1, SnapshotsStay DEF SettingsInv, Unstored
<1>7. PatchTypes'  BY <1>1, <1>5 DEF SettingsInv, PatchTypes
<1>8. Kept'  BY <1>1, <1>4 DEF SettingsInv, Kept
<1> QED BY <1>1, <1>6, <1>7, <1>8 DEF SettingsInv, Whole

(* A patch laid over the queue counts as its newest layer. *)
LEMMA OverQueue ==
  ASSUME SettingsInv, NEW c, NEW p, p = E!Over(c, unsent),
         DOMAIN c \subseteq DialogKeys, Whole(c)
  PROVE  /\ DOMAIN p \subseteq DialogKeys /\ Whole(p)
         /\ \A k \in DOMAIN c : k \in DOMAIN p /\ p[k] = c[k]
         /\ \A k : k \notin DOMAIN c => (k \in DOMAIN p <=> k \in DOMAIN unsent)
         /\ \A k \in DOMAIN unsent \ DOMAIN c : p[k] = unsent[k]
<1>1. /\ DOMAIN p = DOMAIN c \cup DOMAIN unsent
      /\ \A k \in DOMAIN p : p[k] = IF k \in DOMAIN c THEN c[k] ELSE unsent[k]  BY DEF E!Over
<1>2. Whole(p)  BY WholeOver DEF SettingsInv
<1> QED BY <1>1, <1>2 DEF SettingsInv, PatchTypes

(* What the dialog hands on is what it showed. *)
LEMMA CommittedIs ==
  ASSUME SettingsInv, NEW c, c = E!Committed
  PROVE  /\ DOMAIN c \subseteq DialogKeys /\ Whole(c)
         /\ \A k \in DOMAIN c : c[k] = IF k \in {"include", "exclude"} THEN draft[k] ELSE inputEdits[k]
         /\ \A k \in DOMAIN c : k \notin {"include", "exclude"} => k \in DOMAIN inputEdits
<1>1. PICK bad : bad = {k \in DOMAIN inputEdits \cap {"name", "slots"} : inputEdits[k] = E!Blank}  OBVIOUS
<1>2. PICK one : one = E!Without(inputEdits, bad \cup {"include", "exclude"})  OBVIOUS
<1>3. /\ DOMAIN one = DOMAIN inputEdits \ (bad \cup {"include", "exclude"})
      /\ \A k \in DOMAIN one : one[k] = inputEdits[k]  BY <1>2 DEF E!Without
<1>4. PICK rule : rule = [include |-> draft.include, exclude |-> draft.exclude]  OBVIOUS
<1>5. /\ DOMAIN rule = {"include", "exclude"}
      /\ rule["include"] = draft["include"] /\ rule["exclude"] = draft["exclude"]  BY <1>4
<1>6. c = IF DOMAIN inputEdits \cap {"include", "exclude"} # {} /\ draft.include \cap draft.exclude = {}
          THEN E!Over(rule, one) ELSE one  BY <1>1, <1>2, <1>4 DEF E!Committed
<1>7. DOMAIN inputEdits \subseteq DialogKeys  BY DEF SettingsInv, PatchTypes
<1>8. CASE c = one  BY <1>8, <1>3, <1>7 DEF Whole
<1>9. CASE c = E!Over(rule, one) /\ draft.include \cap draft.exclude = {}
  <2>1. /\ DOMAIN c = DOMAIN rule \cup DOMAIN one
        /\ \A k \in DOMAIN c : c[k] = IF k \in DOMAIN rule THEN rule[k] ELSE one[k]  BY <1>9 DEF E!Over
  <2>2. c["include"] = draft["include"] /\ c["exclude"] = draft["exclude"]  BY <2>1, <1>5
  <2>3. Whole(c)  BY <1>9, <2>1, <2>2, <1>5 DEF Whole
  <2>4. DOMAIN c \subseteq DialogKeys  BY <2>1, <1>3, <1>5, <1>7 DEF DialogKeys
  <2>5. \A k \in DOMAIN c : k \notin {"include", "exclude"} => k \in DOMAIN inputEdits /\ c[k] = inputEdits[k]
    BY <2>1, <1>3, <1>5
  <2> QED BY <2>2, <2>3, <2>4, <2>5
<1> QED BY <1>6, <1>8, <1>9

LEMMA CommitKeeps ==
  ASSUME SettingsInv, open, E!CommitAndFlush,
         UNCHANGED <<db, latest, news, draft, prefs, asked>>
  PROVE  SettingsInv'
<1>1. PICK c : c = E!Committed  OBVIOUS
<1>2. PICK p : p = E!Over(c, unsent)  OBVIOUS
<1>3. inputEdits' = E!Without(inputEdits, DOMAIN c) /\ E!Flush(p)  BY <1>1, <1>2 DEF E!CommitAndFlush
<1>4. /\ DOMAIN inputEdits' = DOMAIN inputEdits \ DOMAIN c
      /\ \A k \in DOMAIN inputEdits' : inputEdits'[k] = inputEdits[k]  BY <1>3 DEF E!Without
<1>5. /\ DOMAIN c \subseteq DialogKeys /\ Whole(c)
      /\ \A k \in DOMAIN c : c[k] = IF k \in {"include", "exclude"} THEN draft[k] ELSE inputEdits[k]
      /\ \A k \in DOMAIN c : k \notin {"include", "exclude"} => k \in DOMAIN inputEdits  BY <1>1, CommittedIs
<1>6. /\ DOMAIN p \subseteq DialogKeys /\ Whole(p)
      /\ \A k \in DOMAIN c : k \in DOMAIN p /\ p[k] = c[k]
      /\ \A k : k \notin DOMAIN c => (k \in DOMAIN p <=> k \in DOMAIN unsent)
      /\ \A k \in DOMAIN unsent \ DOMAIN c : p[k] = unsent[k]  BY <1>2, <1>5, OverQueue
<1>7. ASSUME NEW k \in DOMAIN asked
      PROVE  Top(inputEdits', p, inFlight, db.val, k) = asked[k] /\ draft[k] = asked[k]
  <2>1. Top(inputEdits, unsent, inFlight, db.val, k) = asked[k] /\ draft[k] = asked[k]  BY DEF SettingsInv, Kept
  <2>2. CASE k \in DOMAIN c  BY <2>1, <2>2, <1>4, <1>5, <1>6 DEF Top
  <2>3. CASE k \notin DOMAIN c  BY <2>1, <2>3, <1>4, <1>6 DEF Top
  <2> QED BY <2>2, <2>3
<1>8. /\ DOMAIN inputEdits' \subseteq DialogKeys /\ DOMAIN asked' \subseteq DialogKeys
      /\ DOMAIN draft' = AllKeys  BY <1>4 DEF SettingsInv, PatchTypes
<1>9. \A k \in DOMAIN asked' : /\ Top(inputEdits', p, inFlight, db.val, k) = asked'[k]
                               /\ open' => draft'[k] = asked'[k]  BY <1>7
<1> QED BY <1>3, <1>6, <1>8, <1>9, FlushKeeps

LEMMA LeavingKeeps ==
  ASSUME SettingsInv, E!Blur \/ E!CloseDialog \/ E!RunMaintenance
  PROVE  SettingsInv'
<1>1. open /\ UNCHANGED <<db, latest, news, draft, prefs, asked>>  BY DEF E!Blur, E!CloseDialog, E!RunMaintenance
<1>2. CASE E!CommitAndFlush  BY <1>1, <1>2, CommitKeeps
<1>3. CASE E!CommitInputs /\ (open' => open)
  <2>1. PICK c : c = E!Committed  OBVIOUS
  <2>2. CASE c = E!Nothing
    <3>1. inputEdits' = E!Without(inputEdits, DOMAIN c) /\ UNCHANGED <<unsent, inFlight, timer, save>>
      BY <1>3, <2>1, <2>2 DEF E!CommitInputs, E!autosaveVars
    <3>2. DOMAIN c = {}  BY <2>2 DEF E!Nothing
    <3>3. /\ DOMAIN inputEdits' = DOMAIN inputEdits
          /\ \A k \in DOMAIN inputEdits' : inputEdits'[k] = inputEdits[k]  BY <3>1, <3>2 DEF E!Without
    <3>4. Kept'  BY <1>1, <1>3, <3>1, <3>3 DEF SettingsInv, Kept, Top
    <3>5. PatchTypes'  BY <1>1, <3>1, <3>3 DEF SettingsInv, PatchTypes
    <3>6. SnapshotsAgree'  BY <1>1, <3>1, SnapshotsStay DEF SettingsInv, Unstored
    <3> QED BY <3>1, <3>4, <3>5, <3>6 DEF SettingsInv, Whole
  <2>3. CASE c # E!Nothing  BY <1>1, <1>2, <1>3, <2>1, <2>3 DEF E!CommitInputs, E!CommitAndFlush
  <2> QED BY <2>2, <2>3
<1> QED BY <1>1, <1>2, <1>3 DEF E!Blur, E!CloseDialog, E!RunMaintenance

LEMMA TypedKeeps ==
  ASSUME SettingsInv, NEW c, E!Typed(c), DOMAIN c \subseteq DialogKeys
  PROVE  SettingsInv'
<1>1. /\ UNCHANGED <<db, latest, news, unsent, inFlight, save, prefs>>
      /\ open' = open /\ draft' = E!Over(c, draft) /\ asked' = E!Over(c, asked)
      /\ inputEdits' = E!Over(c, inputEdits)  BY DEF E!Typed, E!Edited, E!autosaveVars
<1>2. /\ DOMAIN draft' = DOMAIN c \cup DOMAIN draft
      /\ \A k \in DOMAIN draft' : draft'[k] = IF k \in DOMAIN c THEN c[k] ELSE draft[k]  BY <1>1 DEF E!Over
<1>3. /\ DOMAIN asked' = DOMAIN c \cup DOMAIN asked
      /\ \A k \in DOMAIN asked' : asked'[k] = IF k \in DOMAIN c THEN c[k] ELSE asked[k]  BY <1>1 DEF E!Over
<1>4. /\ DOMAIN inputEdits' = DOMAIN c \cup DOMAIN inputEdits
      /\ \A k \in DOMAIN inputEdits' : inputEdits'[k] = IF k \in DOMAIN c THEN c[k] ELSE inputEdits[k]
  BY <1>1 DEF E!Over
<1>5. PatchTypes'  BY <1>1, <1>2, <1>3, <1>4 DEF SettingsInv, PatchTypes, AllKeys
<1>6. SnapshotsAgree'  BY <1>1, SnapshotsStay DEF SettingsInv, Unstored
<1>7. ASSUME NEW k \in DOMAIN asked'
      PROVE  /\ Top(inputEdits', unsent, inFlight, db.val, k) = asked'[k]
             /\ open => draft'[k] = asked'[k]
  <2>1. k \in DOMAIN draft'  BY <1>3, <1>5 DEF PatchTypes, AllKeys
  <2>2. CASE k \in DOMAIN c  BY <2>1, <2>2, <1>2, <1>3, <1>4 DEF Top
  <2>3. CASE k \notin DOMAIN c
    <3>1. /\ k \in DOMAIN asked /\ Top(inputEdits, unsent, inFlight, db.val, k) = asked[k]
          /\ open => draft[k] = asked[k]  BY <2>3, <1>3 DEF SettingsInv, Kept
    <3> QED BY <3>1, <2>1, <2>3, <1>2, <1>3, <1>4 DEF Top
  <2> QED BY <2>2, <2>3
<1>8. Kept'  BY <1>1, <1>7 DEF Kept
<1> QED BY <1>1, <1>5, <1>6, <1>8 DEF SettingsInv, Whole

LEMMA ChosenKeeps ==
  ASSUME SettingsInv, NEW c, NEW delayed \in BOOLEAN, E!Chosen(c, delayed),
         DOMAIN c \subseteq DialogKeys \ {"include", "exclude"}
  PROVE  SettingsInv'
<1>1. /\ UNCHANGED <<db, latest, news, prefs>>
      /\ open' = open /\ draft' = E!Over(c, draft) /\ asked' = E!Over(c, asked)
      /\ inputEdits' = E!Without(inputEdits, DOMAIN c) /\ E!Enqueue(c, delayed)  BY DEF E!Chosen, E!Edited
<1>2. /\ DOMAIN draft' = DOMAIN c \cup DOMAIN draft
      /\ \A k \in DOMAIN draft' : draft'[k] = IF k \in DOMAIN c THEN c[k] ELSE draft[k]  BY <1>1 DEF E!Over
<1>3. /\ DOMAIN asked' = DOMAIN c \cup DOMAIN asked
      /\ \A k \in DOMAIN asked' : asked'[k] = IF k \in DOMAIN c THEN c[k] ELSE asked[k]  BY <1>1 DEF E!Over
<1>4. /\ DOMAIN inputEdits' = DOMAIN inputEdits \ DOMAIN c
      /\ \A k \in DOMAIN inputEdits' : inputEdits'[k] = inputEdits[k]  BY <1>1 DEF E!Without
<1>5. PICK p : p = E!Over(c, unsent)  OBVIOUS
<1>6. Whole(c)  BY DEF Whole
<1>7. /\ DOMAIN p \subseteq DialogKeys /\ Whole(p)
      /\ \A k \in DOMAIN c : k \in DOMAIN p /\ p[k] = c[k]
      /\ \A k : k \notin DOMAIN c => (k \in DOMAIN p <=> k \in DOMAIN unsent)
      /\ \A k \in DOMAIN unsent \ DOMAIN c : p[k] = unsent[k]  BY <1>5, <1>6, OverQueue
<1>8. /\ DOMAIN inputEdits' \subseteq DialogKeys /\ DOMAIN asked' \subseteq DialogKeys
      /\ DOMAIN draft' = AllKeys  BY <1>2, <1>3, <1>4 DEF SettingsInv, PatchTypes, AllKeys
<1>9. \A k \in DOMAIN asked' : /\ Top(inputEdits', p, inFlight, db.val, k) = asked'[k]
                               /\ open' => draft'[k] = asked'[k]
  <2> SUFFICES ASSUME NEW k \in DOMAIN asked'
               PROVE  /\ Top(inputEdits', p, inFlight, db.val, k) = asked'[k]
                      /\ open => draft'[k] = asked'[k]  BY <1>1
  <2>1. k \in DOMAIN draft'  BY <1>8 DEF AllKeys
  <2>2. CASE k \in DOMAIN c  BY <2>1, <2>2, <1>2, <1>3, <1>4, <1>7 DEF Top
  <2>3. CASE k \notin DOMAIN c
    <3>1. /\ k \in DOMAIN asked /\ Top(inputEdits, unsent, inFlight, db.val, k) = asked[k]
          /\ open => draft[k] = asked[k]  BY <2>3, <1>3 DEF SettingsInv, Kept
    <3> QED BY <3>1, <2>1, <2>3, <1>2, <1>3, <1>4, <1>7 DEF Top
  <2> QED BY <2>2, <2>3
<1>10. CASE ~delayed
  <2>1. E!Flush(p)  BY <1>1, <1>5, <1>10 DEF E!Enqueue
  <2> QED BY <1>1, <1>7, <1>8, <1>9, <2>1, FlushKeeps
<1>11. CASE delayed
  <2>1. unsent' = p /\ UNCHANGED <<inFlight, save>>  BY <1>1, <1>5, <1>11 DEF E!Enqueue
  <2>2. SnapshotsAgree'  BY <1>1, <1>7, <2>1, SnapshotsStay DEF SettingsInv, Unstored
  <2>3. PatchTypes'  BY <1>1, <1>7, <1>8, <2>1 DEF SettingsInv, PatchTypes
  <2>4. Kept'  BY <1>1, <1>9, <2>1 DEF Kept
  <2> QED BY <1>7, <2>1, <2>2, <2>3, <2>4 DEF SettingsInv, Whole
<1> QED BY <1>10, <1>11

LEMMA EditingKeeps ==
  ASSUME SettingsInv,
         \/ \E v \in {1, E!Blank, E!Odd} : E!TypeName(v)
         \/ \E v \in {1, E!Blank} : E!TypeNumber(v)
         \/ \E v \in {1, 2} : E!Slide(v) \/ E!Switch(v)
         \/ \E tags \in SUBSET {"t"} : E!TypeInclude(tags) \/ E!TypeExclude(tags)
         \/ E!ChooseName \/ E!ChooseDownloadRoot \/ E!RestorePreferenceDefaults
  PROVE  SettingsInv'
<1>1. ASSUME NEW v, E!TypeName(v) PROVE SettingsInv'
  <2>1. PICK c : c = [name |-> v]  OBVIOUS
  <2>2. DOMAIN c \subseteq DialogKeys  BY <2>1 DEF DialogKeys
  <2> QED BY <1>1, <2>1, <2>2, TypedKeeps DEF E!TypeName
<1>2. ASSUME NEW v, E!TypeNumber(v) PROVE SettingsInv'
  <2>1. PICK c : c = [slots |-> v]  OBVIOUS
  <2>2. DOMAIN c \subseteq DialogKeys  BY <2>1 DEF DialogKeys
  <2> QED BY <1>2, <2>1, <2>2, TypedKeeps DEF E!TypeNumber
<1>3. ASSUME NEW v, E!TypeInclude(v) PROVE SettingsInv'
  <2>1. PICK c : c = [include |-> v]  OBVIOUS
  <2>2. DOMAIN c \subseteq DialogKeys  BY <2>1 DEF DialogKeys
  <2> QED BY <1>3, <2>1, <2>2, TypedKeeps DEF E!TypeInclude
<1>4. ASSUME NEW v, E!TypeExclude(v) PROVE SettingsInv'
  <2>1. PICK c : c = [exclude |-> v]  OBVIOUS
  <2>2. DOMAIN c \subseteq DialogKeys  BY <2>1 DEF DialogKeys
  <2> QED BY <1>4, <2>1, <2>2, TypedKeeps DEF E!TypeExclude
<1>5. ASSUME NEW v, NEW delayed \in BOOLEAN, E!Chosen([cols |-> v], delayed) PROVE SettingsInv'
  <2>1. PICK c : c = [cols |-> v]  OBVIOUS
  <2>2. DOMAIN c \subseteq DialogKeys \ {"include", "exclude"}  BY <2>1 DEF DialogKeys
  <2> QED BY <1>5, <2>1, <2>2, ChosenKeeps
<1>6. ASSUME NEW v, E!Chosen([name |-> v], FALSE) PROVE SettingsInv'
  <2>1. PICK c : c = [name |-> v]  OBVIOUS
  <2>2. DOMAIN c \subseteq DialogKeys \ {"include", "exclude"}  BY <2>1 DEF DialogKeys
  <2> QED BY <1>6, <2>1, <2>2, ChosenKeeps
<1>7. ASSUME E!RestorePreferenceDefaults PROVE SettingsInv'
  <2>1. PICK c : c = E!PreferenceDefaults  OBVIOUS
  <2>2. DOMAIN c \subseteq DialogKeys \ {"include", "exclude"}  BY <2>1 DEF DialogKeys, E!PreferenceDefaults
  <2> QED BY <1>7, <2>1, <2>2, ChosenKeeps DEF E!RestorePreferenceDefaults
<1> QED BY <1>1, <1>2, <1>3, <1>4, <1>5, <1>6, <1>7
    DEF E!Slide, E!Switch, E!ChooseName, E!ChooseDownloadRoot

(* The backend's row after a write that it takes. *)
LEMMA UpdateIs ==
  ASSUME SettingsInv, NEW p, NEW rev, E!SettingsUpdate(p, rev), E!Verdict(p, rev) = "ok",
         DOMAIN p \subseteq AllKeys
  PROVE  /\ rev = db.rev /\ db.rev \in Nat /\ db'.rev = db.rev + 1
         /\ DOMAIN db'.val = AllKeys
         /\ \A k \in AllKeys : db'.val[k] = IF k \in DOMAIN p THEN p[k] ELSE db.val[k]
         /\ \E S : news' \in Seq(S)
         /\ {news'[i] : i \in 1 .. Len(news')} = {news[i] : i \in 1 .. Len(news)} \cup {db'}
<1>1. db.rev \in Nat /\ DOMAIN db.val = AllKeys  BY DEF SettingsInv, SnapshotsAgree, Announced, SnapshotOK
<1>2. PICK o : o = E!Over(p, db.val)  OBVIOUS
<1>3. /\ DOMAIN o = DOMAIN p \cup AllKeys
      /\ \A k \in AllKeys : o[k] = IF k \in DOMAIN p THEN p[k] ELSE db.val[k]  BY <1>1, <1>2 DEF E!Over
<1>4. db' = [rev |-> db.rev + 1, val |-> o] /\ news' = Append(news, db')  BY <1>2 DEF E!SettingsUpdate
<1>5. rev = db.rev  BY DEF E!Verdict
<1>6. PICK S : news \in Seq(S)  BY DEF SettingsInv, SnapshotsAgree
<1>7. news \in Seq(S \cup {db'})
  <2>1. Len(news) \in Nat /\ \A i \in 1 .. Len(news) : news[i] \in S  BY <1>6
  <2> QED BY <1>6, <2>1
<1>8. /\ news' \in Seq(S \cup {db'}) /\ Len(news') = Len(news) + 1 /\ Len(news) \in Nat
      /\ news'[Len(news) + 1] = db'
      /\ \A i \in 1 .. Len(news) : news'[i] = news[i]  BY <1>4, <1>7
<1>9. {news'[i] : i \in 1 .. Len(news')} = {news[i] : i \in 1 .. Len(news)} \cup {db'}
  <2>1. ASSUME NEW i \in 1 .. Len(news')
        PROVE  news'[i] \in {news[j] : j \in 1 .. Len(news)} \cup {db'}
    <3>1. i \in 1 .. Len(news) \/ i = Len(news) + 1  BY <1>8
    <3> QED BY <3>1, <1>8
  <2>2. ASSUME NEW i \in 1 .. Len(news)
        PROVE  news[i] \in {news'[j] : j \in 1 .. Len(news')}
    <3>1. i \in 1 .. Len(news') /\ news'[i] = news[i]  BY <1>8
    <3> QED BY <3>1
  <2>3. db' \in {news'[j] : j \in 1 .. Len(news')}
    <3>1. Len(news) + 1 \in 1 .. Len(news')  BY <1>8
    <3> QED BY <3>1, <1>8
  <2> QED BY <2>1, <2>2, <2>3
<1> QED BY <1>1, <1>3, <1>4, <1>5, <1>8, <1>9

(* A write of the dialog that is taken: for now the snapshots differ from the
   row in what was written, and the one returned does not. *)
LEMMA WriteTaken ==
  ASSUME SettingsInv, latest' = latest, inFlight' = inFlight, unsent' = unsent,
         E!SettingsUpdate(inFlight, save.rev), E!Verdict(inFlight, save.rev) = "ok",
         save'.at = "ok" => save'.got = db'
  PROVE  /\ SnapshotsAgree'
         /\ \A k \in DialogKeys : Top(inputEdits, unsent, inFlight, db'.val, k)
                                    = Top(inputEdits, unsent, inFlight, db.val, k)
<1>1. DOMAIN inFlight \subseteq AllKeys  BY DEF SettingsInv, PatchTypes, AllKeys
<1>2. /\ db.rev \in Nat /\ db'.rev = db.rev + 1 /\ DOMAIN db'.val = AllKeys
      /\ \A k \in AllKeys : db'.val[k] = IF k \in DOMAIN inFlight THEN inFlight[k] ELSE db.val[k]
      /\ \E S : news' \in Seq(S)
      /\ {news'[i] : i \in 1 .. Len(news')} = {news[i] : i \in 1 .. Len(news)} \cup {db'}  BY <1>1, UpdateIs
<1>3. Announced' \subseteq Announced \cup {db'}  BY <1>2 DEF Announced
<1>4. \A s \in Announced : SnapshotOK(s) /\ (s.rev >= latest.rev => Agrees(s, Unstored))
  BY DEF SettingsInv, SnapshotsAgree
<1>5. latest.rev \in Nat /\ latest.rev <= db.rev  BY <1>4 DEF Announced, SnapshotOK
<1>6. /\ SnapshotOK(db)' /\ Agrees(db, {})'
      /\ save'.at = "ok" => SnapshotOK(save.got)' /\ Agrees(save.got, {})'  BY <1>2 DEF SnapshotOK, Agrees
<1>7. Unstored' = Unstored /\ DOMAIN inFlight \subseteq Unstored  BY DEF Unstored
<1>8. ASSUME NEW s \in Announced'
      PROVE  /\ SnapshotOK(s)' /\ (s.rev >= latest'.rev => Agrees(s, Unstored)')
             /\ save'.at = "ok" => (s.rev >= save'.got.rev => Agrees(s, {})')
  <2>1. CASE s = db'  BY <2>1, <1>6 DEF SnapshotOK, Agrees
  <2>2. CASE s \in Announced
    <3>1. SnapshotOK(s) /\ (s.rev >= latest.rev => Agrees(s, Unstored))  BY <2>2, <1>4
    <3>2. s.rev < db'.rev /\ SnapshotOK(s)'  BY <3>1, <1>2 DEF SnapshotOK
    <3>3. Agrees(s, Unstored) => Agrees(s, Unstored)'  BY <1>2, <1>7 DEF Agrees, AllKeys
    <3> QED BY <3>1, <3>2, <3>3, <1>2 DEF SnapshotOK
  <2> QED BY <2>1, <2>2, <1>3
<1>9. \A k \in DOMAIN inFlight' : db'.val[k] = inFlight'[k]  BY <1>1, <1>2
<1>10. SnapshotsAgree'  BY <1>2, <1>6, <1>8, <1>9 DEF SnapshotsAgree
<1>11. \A k \in DialogKeys : Top(inputEdits, unsent, inFlight, db'.val, k)
                               = Top(inputEdits, unsent, inFlight, db.val, k)  BY <1>2 DEF Top, AllKeys
<1> QED BY <1>10, <1>11

(* A list preference that is taken: no key of the dialog is touched. *)
LEMMA PreferenceTaken ==
  ASSUME SettingsInv, UNCHANGED <<latest, unsent, inFlight, save>>, NEW p, NEW rev,
         DOMAIN p \subseteq {"grouping"},
         E!SettingsUpdate(p, rev), E!Verdict(p, rev) = "ok"
  PROVE  SnapshotsAgree' /\ \A k \in DialogKeys : db'.val[k] = db.val[k]
<1>1. DOMAIN p \subseteq AllKeys  BY DEF AllKeys
<1>2. /\ db.rev \in Nat /\ db'.rev = db.rev + 1 /\ DOMAIN db'.val = AllKeys
      /\ \A k \in AllKeys : db'.val[k] = IF k \in DOMAIN p THEN p[k] ELSE db.val[k]
      /\ \E S : news' \in Seq(S)
      /\ {news'[i] : i \in 1 .. Len(news')} = {news[i] : i \in 1 .. Len(news)} \cup {db'}  BY <1>1, UpdateIs
<1>3. Announced' \subseteq Announced \cup {db'}  BY <1>2 DEF Announced
<1>4. \A k \in DialogKeys : db'.val[k] = db.val[k]  BY <1>2 DEF DialogKeys, AllKeys
<1>5. Unstored' = Unstored  BY DEF Unstored
<1>6. \A s, but : Agrees(s, but)' <=> Agrees(s, but)  BY <1>4 DEF Agrees
<1>7. SnapshotOK(db)' /\ Agrees(db', Unstored) /\ Agrees(db', {})  BY <1>2, <1>4 DEF SnapshotOK, Agrees
<1>8. \A s : SnapshotOK(s) => SnapshotOK(s)'  BY <1>2 DEF SnapshotOK
<1>9. \A s \in Announced' : SnapshotOK(s)' /\ (s.rev >= latest'.rev => Agrees(s, Unstored)')
  <2> SUFFICES ASSUME NEW s \in Announced'
               PROVE  SnapshotOK(s)' /\ (s.rev >= latest.rev => Agrees(s, Unstored))  BY <1>5, <1>6 DEF Agrees
  <2>1. CASE s = db'  BY <2>1, <1>7 DEF SnapshotOK
  <2>2. CASE s \in Announced  BY <2>2, <1>8 DEF SettingsInv, SnapshotsAgree
  <2> QED BY <2>1, <2>2, <1>3
<1>10. ASSUME save'.at = "ok"
       PROVE  /\ SnapshotOK(save.got)'
              /\ \A k \in DOMAIN inFlight' : db'.val[k] = inFlight'[k]
              /\ Agrees(save.got, {})'
              /\ \A s \in Announced' : s.rev >= save'.got.rev => Agrees(s, {})'
  <2>1. /\ SnapshotOK(save.got) /\ Agrees(save.got, {})
        /\ \A k \in DOMAIN inFlight : db.val[k] = inFlight[k]
        /\ \A s \in Announced : s.rev >= save.got.rev => Agrees(s, {})
    BY <1>10 DEF SettingsInv, SnapshotsAgree
  <2>2. \A k \in DOMAIN inFlight' : db'.val[k] = inFlight'[k]  BY <2>1, <1>4 DEF SettingsInv, PatchTypes
  <2>3. SnapshotOK(save.got)' /\ Agrees(save.got, {})'  BY <2>1, <1>8, <1>4 DEF SnapshotOK, Agrees
  <2>4. ASSUME NEW s \in Announced', s.rev >= save'.got.rev
        PROVE  Agrees(s, {})'  BY <2>1, <2>4, <1>3, <1>4, <1>7 DEF Agrees
  <2> QED BY <2>2, <2>3, <2>4
<1> QED BY <1>2, <1>4, <1>9, <1>10 DEF SnapshotsAgree

LEMMA WriteServedKeeps ==
  ASSUME SettingsInv, E!WriteServed
  PROVE  SettingsInv'
<1>1. /\ save.at \in {"sent", "resent"}
      /\ UNCHANGED <<latest, open, draft, inputEdits, unsent, inFlight, prefs, asked>>
  BY DEF E!WriteServed, E!dialogVars
<1>2. DOMAIN save = {"at", "rev", "got"} /\ DOMAIN asked \subseteq DialogKeys  BY DEF SettingsInv, PatchTypes
<1>3. PICK verdict : verdict = E!Verdict(inFlight, save.rev)  OBVIOUS
<1>4. verdict \in {"ok", "conflict", "refused"}  BY <1>3 DEF E!Verdict
<1>5. CASE UNCHANGED <<db, news>> /\ save'.at \notin {"ok", "idle"} /\ DOMAIN save' = DOMAIN save
  <2>1. SnapshotsAgree'  BY <1>1, <1>5, SnapshotsStay DEF SettingsInv, Unstored
  <2>2. PatchTypes'  BY <1>1, <1>5 DEF SettingsInv, PatchTypes
  <2> QED BY <1>1, <1>5, <2>1, <2>2 DEF SettingsInv, Kept, Whole
<1>6. CASE /\ verdict = "ok" /\ E!SettingsUpdate(inFlight, save.rev)
           /\ save'.at = "ok" /\ save'.got = db' /\ DOMAIN save' = DOMAIN save
  <2>1. /\ SnapshotsAgree'
        /\ \A k \in DialogKeys : Top(inputEdits, unsent, inFlight, db'.val, k)
                                   = Top(inputEdits, unsent, inFlight, db.val, k)
    BY <1>1, <1>3, <1>6, WriteTaken
  <2>2. PatchTypes'  BY <1>1, <1>6 DEF SettingsInv, PatchTypes
  <2>3. Kept'  BY <1>1, <1>2, <2>1 DEF SettingsInv, Kept
  <2> QED BY <1>1, <2>1, <2>2, <2>3 DEF SettingsInv, Whole
<1>7. CASE E!Fault /\ save' = [save EXCEPT !.at = "refused"] /\ UNCHANGED <<db, news>>  BY <1>2, <1>5, <1>7
<1>9. CASE /\ E!Fault /\ save' = [save EXCEPT !.at = "refused"]
           /\ E!SettingsUpdate(inFlight, save.rev)
  <2>1. save'.at = "refused" /\ DOMAIN save' = DOMAIN save  BY <1>2, <1>9
  <2>2. CASE verdict # "ok"
    <3>1. UNCHANGED <<db, news>>  BY <1>3, <1>9, <2>2 DEF E!SettingsUpdate
    <3> QED BY <1>7, <1>9, <3>1
  <2>3. CASE verdict = "ok"
    <3>1. /\ SnapshotsAgree'
          /\ \A k \in DialogKeys : Top(inputEdits, unsent, inFlight, db'.val, k)
                                     = Top(inputEdits, unsent, inFlight, db.val, k)
      BY <1>1, <1>3, <1>9, <2>1, <2>3, WriteTaken
    <3>2. PatchTypes'  BY <1>1, <2>1 DEF SettingsInv, PatchTypes
    <3>3. Kept'  BY <1>1, <1>2, <3>1 DEF SettingsInv, Kept
    <3> QED BY <1>1, <2>1, <3>1, <3>2, <3>3 DEF SettingsInv, Whole
  <2> QED BY <2>2, <2>3
<1>8. CASE /\ E!SettingsUpdate(inFlight, save.rev)
           /\ save' = [save EXCEPT
                  !.at = IF verdict = "conflict" /\ save.at = "sent" THEN "stale" ELSE verdict,
                  !.got = IF verdict = "ok" THEN db' ELSE E!Nothing]
  <2>1. /\ DOMAIN save' = DOMAIN save
        /\ save'.at = IF verdict = "conflict" /\ save.at = "sent" THEN "stale" ELSE verdict
        /\ verdict = "ok" => save'.got = db'  BY <1>2, <1>8
  <2>2. CASE verdict = "ok"  BY <1>6, <1>8, <2>1, <2>2
  <2>3. CASE verdict # "ok"
    <3>1. UNCHANGED <<db, news>>  BY <1>3, <1>8, <2>3 DEF E!SettingsUpdate
    <3> QED BY <1>4, <1>5, <2>1, <2>3, <3>1
  <2> QED BY <2>2, <2>3
<1> QED BY <1>3, <1>7, <1>8, <1>9 DEF E!WriteServed

LEMMA SavedKeeps ==
  ASSUME SettingsInv, E!Saved
  PROVE  SettingsInv'
<1>1. /\ UNCHANGED <<db, news, open, draft, inputEdits, prefs, asked>>
      /\ save.at = "ok" /\ E!Accept(save.got) /\ inFlight' = unsent /\ unsent' = E!Nothing
      /\ save' = IF unsent = E!Nothing THEN E!NoWrite ELSE E!Sent(latest'.rev)  BY DEF E!Saved, E!dialogVars
<1>2. /\ SnapshotOK(save.got) /\ Agrees(save.got, {})
      /\ \A k \in DOMAIN inFlight : db.val[k] = inFlight[k]
      /\ \A s \in Announced : SnapshotOK(s)
      /\ \A s \in Announced : s.rev >= save.got.rev => Agrees(s, {})  BY <1>1 DEF SettingsInv, SnapshotsAgree
<1>3. /\ latest' \in {save.got, latest} /\ latest'.rev >= save.got.rev
  <2>1. save.got.rev \in Nat /\ latest.rev \in Nat  BY <1>2 DEF SnapshotOK, Announced
  <2> QED BY <1>1, <2>1, AcceptIs
<1>4. /\ DOMAIN save' = {"at", "rev", "got"} /\ save'.at \in {"idle", "sent"}
      /\ save'.at = "idle" => unsent = E!Nothing
  <2>1. CASE unsent = E!Nothing  BY <2>1, <1>1 DEF E!NoWrite
  <2>2. CASE unsent # E!Nothing  BY <2>2, <1>1 DEF E!Sent, E!NoWrite
  <2> QED BY <2>1, <2>2
<1>5. PatchTypes'  BY <1>1, <1>4, NothingIsEmpty DEF SettingsInv, PatchTypes
<1>6. Announced' \subseteq Announced \cup {save.got}  BY <1>1, <1>3 DEF Announced
<1>7. ASSUME NEW s \in Announced'
      PROVE  SnapshotOK(s)' /\ (s.rev >= latest'.rev => Agrees(s, {})')
  <2>1. SnapshotOK(s) /\ (s.rev >= save.got.rev => Agrees(s, {}))  BY <1>2, <1>6
  <2>2. latest'.rev \in Nat /\ s.rev \in Nat /\ save.got.rev \in Nat  BY <1>2, <1>3, <2>1 DEF SnapshotOK, Announced
  <2>3. s.rev >= latest'.rev => s.rev >= save.got.rev  BY <1>3, <2>2
  <2> QED BY <1>1, <2>1, <2>3 DEF SnapshotOK, Agrees
<1>8. SnapshotsAgree'
  <2>1. (\A s : Agrees(s, {}) => Agrees(s, Unstored))' /\ save'.at # "ok"  BY <1>4 DEF Agrees
  <2>2. \E S : news' \in Seq(S)  BY <1>1 DEF SettingsInv, SnapshotsAgree
  <2> QED BY <1>7, <2>1, <2>2 DEF SnapshotsAgree
<1>9. \A k : Top(inputEdits, unsent', unsent, db.val, k) = Top(inputEdits, unsent, inFlight, db.val, k)
  BY <1>1, <1>2, NothingIsEmpty DEF Top
<1>10. Kept'  BY <1>1, <1>9 DEF SettingsInv, Kept
<1>11. Whole(unsent)' /\ Whole(inFlight)'  BY <1>1, NothingIsEmpty DEF SettingsInv, Whole
<1> QED BY <1>5, <1>8, <1>10, <1>11 DEF SettingsInv

LEMMA RefusedKeeps ==
  ASSUME SettingsInv, E!Refused
  PROVE  SettingsInv'
<1>1. /\ UNCHANGED <<db, latest, news, open, draft, inputEdits, prefs, asked>>
      /\ save.at \in {"refused", "conflict"} /\ unsent' = E!Over(unsent, inFlight)
      /\ inFlight' = E!Nothing /\ save' = E!NoWrite  BY DEF E!Refused, E!dialogVars
<1>2. /\ DOMAIN unsent' = DOMAIN unsent \cup DOMAIN inFlight
      /\ \A k \in DOMAIN unsent' : unsent'[k] = IF k \in DOMAIN unsent THEN unsent[k] ELSE inFlight[k]
  BY <1>1 DEF E!Over
<1>3. save'.at = "idle" /\ DOMAIN save' = {"at", "rev", "got"} /\ DOMAIN inFlight' = {}
  BY <1>1, NothingIsEmpty DEF E!NoWrite
<1>4. PatchTypes'  BY <1>1, <1>2, <1>3 DEF SettingsInv, PatchTypes
<1>5. SnapshotsAgree'  BY <1>1, <1>2, <1>3, SnapshotsStay DEF SettingsInv, Unstored
<1>6. \A k : Top(inputEdits, unsent', inFlight', db.val, k) = Top(inputEdits, unsent, inFlight, db.val, k)
  BY <1>2, <1>3 DEF Top
<1>7. Kept'  BY <1>1, <1>6 DEF SettingsInv, Kept
<1>8. Whole(unsent') /\ Whole(inFlight')
  <2>1. Whole(E!Over(unsent, inFlight))  BY WholeOver DEF SettingsInv
  <2> QED BY <1>1, <1>3, <2>1 DEF Whole
<1> QED BY <1>4, <1>5, <1>7, <1>8 DEF SettingsInv, Whole

(* The queue of list preferences holds nothing but list preferences. *)
PrefsOK(p) ==
  /\ DOMAIN p = {"at", "queued", "desired", "rev"}
  /\ DOMAIN p.queued \subseteq {"grouping"} /\ DOMAIN p.desired \subseteq {"grouping"}

LEMMA TakeNextIs ==
  ASSUME NEW q, DOMAIN q \subseteq {"grouping"}
  PROVE  PrefsOK(E!TakeNext(q))
<1>1. CASE q = E!Nothing  BY <1>1, NothingIsEmpty DEF PrefsOK, E!TakeNext, E!NoPrefs
<1>2. CASE q # E!Nothing
  <2>1. PICK p : p = E!TakeNext(q)  OBVIOUS
  <2>2. p = [at |-> "reading", queued |-> E!Nothing, desired |-> q, rev |-> 0]
    BY <1>2, <2>1 DEF E!TakeNext, E!NoPrefs
  <2>3. PrefsOK(p)  BY <2>2, NothingIsEmpty DEF PrefsOK
  <2> QED BY <2>1, <2>3
<1> QED BY <1>1, <1>2

LEMMA PreferencesKeep ==
  ASSUME SettingsInv,
         \/ \E g \in {0, 1} : E!PersistGalleryGrouping(g)
         \/ E!PreferenceRead \/ E!PreferenceWritten \/ E!MaintenanceDone
  PROVE  SettingsInv'
<1>1. UNCHANGED <<latest, open, draft, inputEdits, unsent, inFlight, save, asked>>
  BY DEF E!PersistGalleryGrouping, E!PreferenceRead, E!PreferenceWritten, E!MaintenanceDone,
         E!dialogVars, E!autosaveVars
<1>2. PrefsOK(prefs) /\ DOMAIN asked \subseteq DialogKeys  BY DEF SettingsInv, PatchTypes, PrefsOK
<1>3. PrefsOK(E!TakeNext(prefs.queued))  BY <1>2, TakeNextIs DEF PrefsOK
<1>4. PrefsOK(prefs')
  <2>1. ASSUME NEW g, E!PersistGalleryGrouping(g)
        PROVE  PrefsOK(prefs')
    <3>1. PICK one : one = [grouping |-> g]  OBVIOUS
    <3>2. PICK q : q = E!Over(one, prefs.queued)  OBVIOUS
    <3>3. DOMAIN q \subseteq {"grouping"}  BY <3>1, <3>2, <1>2 DEF E!Over, PrefsOK
    <3>4. prefs' = [prefs EXCEPT !.queued = q] \/ prefs' = E!TakeNext(q)
      BY <2>1, <3>1, <3>2 DEF E!PersistGalleryGrouping
    <3>5. PrefsOK(E!TakeNext(q))  BY <3>3, TakeNextIs
    <3>6. PrefsOK([prefs EXCEPT !.queued = q])  BY <3>3, <1>2 DEF PrefsOK
    <3> QED BY <3>4, <3>5, <3>6
  <2>2. CASE E!PreferenceRead
    <3>1. PrefsOK([prefs EXCEPT !.at = "writing", !.rev = db.rev])  BY <1>2 DEF PrefsOK
    <3> QED BY <2>2, <3>1, <1>3 DEF E!PreferenceRead
  <2>3. CASE E!PreferenceWritten  BY <2>3, <1>3 DEF E!PreferenceWritten
  <2>4. CASE E!MaintenanceDone  BY <2>4, <1>2 DEF E!MaintenanceDone
  <2> QED BY <2>1, <2>2, <2>3, <2>4
<1>5. PatchTypes'  BY <1>1, <1>4 DEF SettingsInv, PatchTypes, PrefsOK
<1>6. SnapshotsAgree' /\ \A k \in DialogKeys : db'.val[k] = db.val[k]
  <2>1. CASE UNCHANGED <<db, news>>  BY <2>1, <1>1, SnapshotsStay DEF SettingsInv, Unstored
  <2>2. CASE E!SettingsUpdate(prefs.desired, prefs.rev)
    <3>1. CASE E!Verdict(prefs.desired, prefs.rev) = "ok"  BY <1>1, <1>2, <2>2, <3>1, PreferenceTaken DEF PrefsOK
    <3>2. CASE E!Verdict(prefs.desired, prefs.rev) # "ok"  BY <2>1, <2>2, <3>2 DEF E!SettingsUpdate
    <3> QED BY <3>1, <3>2
  <2> QED BY <2>1, <2>2 DEF E!PersistGalleryGrouping, E!PreferenceRead, E!PreferenceWritten, E!MaintenanceDone
<1>7. \A k \in DialogKeys : Top(inputEdits, unsent, inFlight, db'.val, k)
                              = Top(inputEdits, unsent, inFlight, db.val, k)  BY <1>6 DEF Top
<1>8. Kept'  BY <1>1, <1>2, <1>7 DEF SettingsInv, Kept
<1> QED BY <1>1, <1>5, <1>6, <1>8 DEF SettingsInv, Whole

(* Whatever is refused, conflicts or fails on the way, and whatever the list
   views write meanwhile: the last value the user gave a setting is stored or
   still held, an open dialog shows it, and no write carries half of a search
   rule (useSettingsAutosave, SettingsDialog commitInputs, useSettings). *)
THEOREM NoEditIsLost == E!Spec => [](E!EditsSurvive /\ E!RuleTravelsWhole)
<1>1. E!Init => SettingsInv
  <2> SUFFICES ASSUME E!Init
               PROVE  SettingsInv  OBVIOUS
  <2>1. /\ db = [rev |-> 0, val |-> E!fallback] /\ latest = db /\ news = <<>>
        /\ draft = E!fallback /\ inputEdits = E!Nothing /\ unsent = E!Nothing /\ inFlight = E!Nothing
        /\ save = E!NoWrite /\ prefs = E!NoPrefs /\ asked = E!Nothing  BY DEF E!Init
  <2>2. DOMAIN E!fallback = AllKeys  BY DEF E!fallback, AllKeys, DialogKeys
  <2>3. PatchTypes  BY <2>1, <2>2, NothingIsEmpty DEF PatchTypes, E!NoWrite, E!NoPrefs
  <2>4. save.at = "idle"  BY <2>1 DEF E!NoWrite
  <2>5. SnapshotOK(db) /\ news \in Seq({}) /\ Announced = {db}  BY <2>1, <2>2 DEF SnapshotOK, Announced
  <2>6. SnapshotsAgree  BY <2>4, <2>5 DEF SnapshotsAgree, Agrees
  <2> QED BY <2>1, <2>3, <2>6, NothingIsEmpty DEF SettingsInv, Kept, Whole
<1>2. SettingsInv /\ [E!Next]_E!vars => SettingsInv'
  <2>1. ASSUME SettingsInv, E!Next PROVE SettingsInv'
    BY <2>1, OpenDialogKeeps, LeavingKeeps, TimerFiresKeeps, EditingKeeps, WriteServedKeeps,
       RefreshKeeps, SavedKeeps, RefusedKeeps, NewsArrivesKeeps, PreferencesKeep DEF E!Next
  <2>2. ASSUME SettingsInv, UNCHANGED E!vars PROVE SettingsInv'
    <3>1. UNCHANGED <<db, latest, news, open, draft, inputEdits, unsent, inFlight, save, prefs, asked>>
      BY <2>2 DEF E!vars, E!dialogVars, E!autosaveVars
    <3>2. SnapshotsAgree'  BY <2>2, <3>1, SnapshotsStay DEF SettingsInv, Unstored
    <3> QED BY <2>2, <3>1, <3>2 DEF SettingsInv, PatchTypes, Kept, Whole
  <2> QED BY <2>1, <2>2
<1>3. SettingsInv => E!EditsSurvive /\ E!RuleTravelsWhole
  <2> SUFFICES ASSUME SettingsInv
               PROVE  E!EditsSurvive /\ E!RuleTravelsWhole  OBVIOUS
  <2>1. DOMAIN db.val = AllKeys  BY DEF SettingsInv, SnapshotsAgree, SnapshotOK, Announced
  <2>2. ASSUME NEW k \in DOMAIN asked
        PROVE  /\ E!Over(inputEdits, E!Over(E!Over(unsent, inFlight), db.val))[k] = asked[k]
               /\ open => draft[k] = asked[k]
    <3>1. k \in DOMAIN db.val  BY <2>1 DEF SettingsInv, PatchTypes, AllKeys
    <3>2. Top(inputEdits, unsent, inFlight, db.val, k) = asked[k] /\ (open => draft[k] = asked[k])
      BY DEF SettingsInv, Kept
    <3> QED BY <3>1, <3>2, TopIs
  <2>3. E!EditsSurvive  BY <2>2 DEF E!EditsSurvive, E!Unsaved
  <2>4. E!RuleTravelsWhole  BY DEF SettingsInv, Whole, E!RuleTravelsWhole
  <2> QED BY <2>3, <2>4
<1> QED BY <1>1, <1>2, <1>3, PTL DEF E!Spec

----
(* The panels of the settings dialog. *)

CONSTANTS Albums, Templates, MaxRequests

VARIABLES tab, os, auto, osCalls, abandoned, template, preview, previews, root, usage, excluded,
          known, manager, lists, batch

N == INSTANCE SettingsPanels

(* The switch for starting with Windows.  Whatever is shown is true, or the
   call that will correct it is under way. *)

AutoTypes == [status : BOOLEAN \cup {None}, failure : BOOLEAN, reading : BOOLEAN, changing : BOOLEAN,
              again : BOOLEAN, epoch : Nat, readId : Nat, born : Nat]
OsCallTypes == [kind : {"read", "change"}, epoch : Nat, readId : Nat, want : BOOLEAN,
                state : BOOLEAN \cup {None}]

SwitchTypes == /\ os \in BOOLEAN /\ abandoned \in BOOLEAN
               /\ auto \in AutoTypes /\ osCalls \in SUBSET OsCallTypes

NewestRead(c) == c.kind = "read" /\ c.readId = auto.readId /\ c.epoch = auto.epoch

(* One change is under way at most, and while it is no read counts. *)
OneChange ==
  /\ auto.changing => \E c \in osCalls : c.kind = "change"
  /\ \A c \in osCalls : c.kind = "change" =>
       /\ auto.changing /\ auto.born <= c.epoch
       /\ \A d \in osCalls : d.kind = "change" => d = c

(* An answer that may be shown is what Windows has. *)
AnswersAreTrue ==
  \A c \in osCalls :
    (NewestRead(c) \/ c.kind = "change") /\ c.state # None => c.state = os

(* What is shown is true, or is still to be corrected. *)
ShownIsTrue ==
  N!Active /\ auto.status # None /\ ~auto.failure =>
    auto.status = os \/ auto.changing \/ \E c \in osCalls : NewestRead(c)

SwitchInv ==
  /\ SwitchTypes /\ auto.born <= auto.epoch
  /\ \A c \in osCalls : c.readId <= auto.readId
  /\ ~abandoned =>
       /\ OneChange /\ AnswersAreTrue /\ ShownIsTrue
       /\ \A c \in osCalls : NewestRead(c) => ~auto.changing

(* What a refresh does: it puts itself off, or sends a read of its own. *)
LEMMA RefreshMakes ==
  ASSUME NEW control \in AutoTypes
  PROVE  /\ N!Refreshed(control) \in AutoTypes /\ N!ReadCall(control) \in SUBSET OsCallTypes
         /\ N!Refreshed(control).changing = control.changing
         /\ N!Refreshed(control).status = control.status
         /\ N!Refreshed(control).failure = control.failure
         /\ N!Refreshed(control).epoch = control.epoch
         /\ N!Refreshed(control).born = control.born
         /\ control.changing => /\ N!Refreshed(control).readId = control.readId
                                /\ N!ReadCall(control) = {}
         /\ ~control.changing =>
              /\ N!Refreshed(control).readId = control.readId + 1
              /\ \E c \in OsCallTypes :
                   /\ N!ReadCall(control) = {c}
                   /\ c.kind = "read" /\ c.epoch = control.epoch /\ c.readId = control.readId + 1
                   /\ c.state = None
<1>1. CASE control.changing  BY <1>1 DEF N!Refreshed, N!ReadCall, AutoTypes
<1>2. CASE ~control.changing
  <2>1. PICK c : c = [kind |-> "read", epoch |-> control.epoch, readId |-> control.readId + 1,
                      want |-> FALSE, state |-> None]  OBVIOUS
  <2>2. N!ReadCall(control) = {c}  BY <1>2, <2>1 DEF N!ReadCall
  <2>3. c \in OsCallTypes  BY <2>1 DEF OsCallTypes, AutoTypes
  <2>4. N!Refreshed(control) = [control EXCEPT !.readId = control.readId + 1, !.reading = TRUE]
    BY <1>2 DEF N!Refreshed, AutoTypes
  <2>5. PICK after : after = N!Refreshed(control)  OBVIOUS
  <2>6. /\ after \in AutoTypes /\ after.changing = control.changing /\ after.status = control.status
        /\ after.failure = control.failure /\ after.epoch = control.epoch /\ after.born = control.born
        /\ after.readId = control.readId + 1
    <3>1. control.readId + 1 \in Nat  BY DEF AutoTypes
    <3>2. after = [control EXCEPT !.readId = control.readId + 1, !.reading = TRUE]  BY <2>4, <2>5
    <3>3. after \in AutoTypes  BY <3>1, <3>2 DEF AutoTypes
    <3> QED BY <3>2, <3>3 DEF AutoTypes
  <2>7. c.kind = "read" /\ c.epoch = control.epoch /\ c.readId = control.readId + 1 /\ c.state = None  BY <2>1
  <2> QED BY <1>2, <2>2, <2>3, <2>5, <2>6, <2>7
<1> QED BY <1>1, <1>2

(* The panel reads again: `control` is the switch as it is by then, `left`
   are the calls under way. *)
LEMMA ReadingAgainKeeps ==
  ASSUME SwitchTypes, NEW control \in AutoTypes, NEW left \in SUBSET OsCallTypes,
         auto' = N!Refreshed(control), osCalls' = left \cup N!ReadCall(control),
         os' = os, abandoned' \in BOOLEAN, control.born <= control.epoch,
         \A c \in left : c.readId <= control.readId,
         ~abandoned' =>
           /\ control.changing => \E c \in left : c.kind = "change"
           /\ \A c \in left : c.kind = "change" =>
                /\ control.changing /\ control.born <= c.epoch
                /\ c.state # None => c.state = os
                /\ \A d \in left : d.kind = "change" => d = c
           /\ \A c \in left : c.readId = control.readId /\ c.epoch = control.epoch /\ c.kind = "read"
                                => ~control.changing
  PROVE  SwitchInv'
<1>1. /\ auto' \in AutoTypes /\ N!ReadCall(control) \in SUBSET OsCallTypes
      /\ auto'.changing = control.changing /\ auto'.epoch = control.epoch
      /\ auto'.born = control.born  BY RefreshMakes
<1>2. SwitchTypes' /\ auto'.born <= auto'.epoch  BY <1>1 DEF SwitchTypes
<1>3. CASE control.changing
  <2>1. auto'.readId = control.readId /\ osCalls' = left  BY <1>3, RefreshMakes
  <2>2. ASSUME ~abandoned' PROVE OneChange' /\ AnswersAreTrue' /\ ShownIsTrue'
    BY <1>1, <1>3, <2>1, <2>2 DEF OneChange, AnswersAreTrue, ShownIsTrue, NewestRead
  <2>3. ASSUME ~abandoned', NEW c \in osCalls', NewestRead(c)' PROVE ~auto'.changing
    BY <1>1, <1>3, <2>1, <2>3 DEF NewestRead
  <2> QED BY <1>2, <2>1, <2>2, <2>3 DEF SwitchInv
<1>4. CASE ~control.changing
  <2>1. PICK r \in OsCallTypes :
          /\ osCalls' = left \cup {r} /\ auto'.readId = control.readId + 1
          /\ r.kind = "read" /\ r.epoch = control.epoch /\ r.readId = control.readId + 1
          /\ r.state = None  BY <1>4, RefreshMakes
  <2>2. \A c \in left : c.readId \in Nat /\ c.readId < auto'.readId  BY <2>1 DEF AutoTypes, OsCallTypes
  <2>3. \A c \in osCalls' : NewestRead(c)' <=> c = r  BY <1>1, <2>1, <2>2 DEF NewestRead
  <2>4. ASSUME ~abandoned' PROVE OneChange' /\ AnswersAreTrue' /\ ShownIsTrue'
    BY <1>1, <1>4, <2>1, <2>3, <2>4 DEF OneChange, AnswersAreTrue, ShownIsTrue
  <2>5. \A c \in osCalls' : c.readId <= auto'.readId  BY <2>1, <2>2 DEF AutoTypes
  <2> QED BY <1>1, <1>2, <1>4, <2>3, <2>4, <2>5 DEF SwitchInv
<1> QED BY <1>3, <1>4

LEMMA SwitchInvInit ==
  ASSUME N!Init
  PROVE  SwitchInv
<1>1. /\ auto = N!NoAutostart /\ osCalls = {} /\ os \in BOOLEAN /\ abandoned = FALSE /\ ~N!Active
  BY DEF N!Init, N!Active
<1>2. auto \in AutoTypes /\ auto.born <= auto.epoch /\ ~auto.changing  BY <1>1 DEF N!NoAutostart, AutoTypes
<1> QED BY <1>1, <1>2 DEF SwitchInv, SwitchTypes, OneChange, AnswersAreTrue, ShownIsTrue

LEMMA FocusKeeps ==
  ASSUME SwitchInv, N!Focus
  PROVE  SwitchInv'
<1>1. /\ auto \in AutoTypes /\ osCalls \in SUBSET OsCallTypes /\ abandoned' = abandoned
      /\ auto' = N!Refreshed(auto) /\ osCalls' = osCalls \cup N!ReadCall(auto) /\ os' = os
      /\ abandoned' \in BOOLEAN /\ SwitchTypes  BY DEF N!Focus, SwitchInv, SwitchTypes
<1>2. /\ \A c \in osCalls : c.readId <= auto.readId
      /\ ~abandoned' =>
           /\ auto.changing => \E c \in osCalls : c.kind = "change"
           /\ \A c \in osCalls : c.kind = "change" =>
                /\ auto.changing /\ auto.born <= c.epoch
                /\ c.state # None => c.state = os
                /\ \A d \in osCalls : d.kind = "change" => d = c
           /\ \A c \in osCalls : c.readId = auto.readId /\ c.epoch = auto.epoch /\ c.kind = "read"
                                   => ~auto.changing
  BY <1>1 DEF SwitchInv, OneChange, AnswersAreTrue, NewestRead
<1>3. PICK control, left : control = auto /\ left = osCalls  OBVIOUS
<1>4. auto.born <= auto.epoch  BY DEF SwitchInv
<1> QED BY <1>1, <1>2, <1>3, <1>4, ReadingAgainKeeps

LEMMA SelectTabKeepsSwitch ==
  ASSUME SwitchInv, NEW t \in N!Tabs, N!SelectTab(t)
  PROVE  SwitchInv'
<1>left. PICK left : left = [auto EXCEPT !.epoch = auto.epoch + 1, !.readId = auto.readId + 1]  OBVIOUS
<1>0. SwitchTypes /\ auto \in AutoTypes /\ osCalls \in SUBSET OsCallTypes /\ abandoned \in BOOLEAN
  BY DEF SwitchInv, SwitchTypes
<1>1. /\ left \in AutoTypes /\ left.epoch = auto.epoch + 1 /\ left.readId = auto.readId + 1
      /\ left.changing = auto.changing /\ left.born = auto.born /\ left.born <= left.epoch
  <2>1. auto.born <= auto.epoch  BY DEF SwitchInv
  <2>2. auto.epoch \in Nat /\ auto.readId \in Nat /\ auto.born \in Nat  BY <1>0 DEF AutoTypes
  <2>3. left.epoch = auto.epoch + 1 /\ left.readId = auto.readId + 1 /\ left.born = auto.born
    BY <1>0, <1>left DEF AutoTypes
  <2>4. left \in AutoTypes
    <3>1. auto.epoch + 1 \in Nat /\ auto.readId + 1 \in Nat  BY <2>2
    <3> QED BY <1>0, <1>left, <3>1 DEF AutoTypes
  <2>5. left.changing = auto.changing  BY <1>0, <1>left DEF AutoTypes
  <2> QED BY <2>1, <2>2, <2>3, <2>4, <2>5
<1>2. tab' = t /\ N!AutostartSwitched(t)  BY DEF N!SelectTab
<1>3. os' = os /\ abandoned' = (abandoned \/ (t = "danbooru" /\ auto.changing)) /\ abandoned' \in BOOLEAN
  BY <1>0, <1>2 DEF N!AutostartSwitched, AutoTypes
<1>4. \A c \in osCalls : c.readId \in Nat /\ c.readId < left.readId
  BY <1>0, <1>1 DEF SwitchInv, AutoTypes, OsCallTypes
<1>5. ~abandoned' =>
        /\ OneChange
        /\ \A c \in osCalls : c.kind = "change" /\ c.state # None => c.state = os
  BY <1>3 DEF SwitchInv, AnswersAreTrue
<1>6. CASE t = "general"
  <2>1. auto' = N!Refreshed(left) /\ osCalls' = osCalls \cup N!ReadCall(left)
    BY <1>2, <1>6, <1>left DEF N!AutostartSwitched
  <2>2. /\ \A c \in osCalls : c.readId <= left.readId
        /\ ~abandoned' =>
             /\ left.changing => \E c \in osCalls : c.kind = "change"
             /\ \A c \in osCalls : c.kind = "change" =>
                  /\ left.changing /\ left.born <= c.epoch
                  /\ c.state # None => c.state = os
                  /\ \A d \in osCalls : d.kind = "change" => d = c
             /\ \A c \in osCalls : c.readId = left.readId /\ c.epoch = left.epoch /\ c.kind = "read"
                                     => ~left.changing
    <3>1. \A c \in osCalls : c.readId <= left.readId /\ c.readId # left.readId  BY <1>1, <1>4 DEF AutoTypes
    <3> QED BY <1>1, <1>5, <3>1 DEF OneChange
  <2>3. PICK out \in SUBSET OsCallTypes : out = osCalls  BY <1>0
  <2> QED BY <1>0, <1>1, <1>3, <2>1, <2>2, <2>3, ReadingAgainKeeps
<1>7. CASE t # "general"
  <2>1. osCalls' = osCalls  BY <1>2, <1>7 DEF N!AutostartSwitched
  <2>2. ~N!Active'  BY <1>2, <1>7 DEF N!Active
  <2>3. /\ auto' \in AutoTypes /\ auto'.readId = left.readId /\ auto'.epoch = left.epoch
        /\ t # "danbooru" => auto'.changing = auto.changing /\ auto'.born = auto.born
        /\ t = "danbooru" => ~auto'.changing
        /\ auto'.born <= auto'.epoch
    <3>1. CASE t = "danbooru"
      <4>1. auto' = [N!NoAutostart EXCEPT !.epoch = left.epoch, !.readId = left.readId, !.born = left.epoch]
        BY <1>left, <1>2, <3>1 DEF N!AutostartSwitched
      <4>2. left.epoch \in Nat /\ left.readId \in Nat  BY <1>1 DEF AutoTypes
      <4>3. auto' = [status |-> None, failure |-> FALSE, reading |-> FALSE, changing |-> FALSE, again |-> FALSE,
                     epoch |-> left.epoch, readId |-> left.readId, born |-> left.epoch]
        BY <4>1 DEF N!NoAutostart
      <4>4. auto' \in AutoTypes  BY <4>2, <4>3 DEF AutoTypes
      <4> QED BY <3>1, <4>2, <4>3, <4>4
    <3>2. CASE t # "danbooru"
      <4>1. auto' = left  BY <1>left, <1>2, <1>7, <3>2 DEF N!AutostartSwitched
      <4> QED BY <1>1, <3>2, <4>1
    <3> QED BY <3>1, <3>2
  <2>4. SwitchTypes'  BY <1>0, <1>3, <2>1, <2>3 DEF SwitchTypes
  <2>5. \A c \in osCalls' : c.readId < auto'.readId /\ c.readId \in Nat /\ auto'.readId \in Nat
    BY <1>1, <1>4, <2>1, <2>3 DEF AutoTypes
  <2>6. \A c \in osCalls' : ~NewestRead(c)' /\ c.readId <= auto'.readId  BY <2>5 DEF NewestRead
  <2>7. ASSUME ~abandoned' PROVE OneChange'
    <3>1. CASE t = "danbooru"  BY <1>3, <1>5, <2>1, <2>3, <2>7, <3>1 DEF OneChange
    <3>2. CASE t # "danbooru"  BY <1>5, <2>1, <2>3, <2>7, <3>2 DEF OneChange
    <3> QED BY <3>1, <3>2
  <2>8. ASSUME ~abandoned' PROVE AnswersAreTrue' /\ ShownIsTrue'
    BY <1>3, <1>5, <2>1, <2>2, <2>6, <2>8 DEF AnswersAreTrue, ShownIsTrue
  <2> QED BY <2>3, <2>4, <2>6, <2>7, <2>8 DEF SwitchInv
<1> QED BY <1>6, <1>7

LEMMA ChangeKeeps ==
  ASSUME SwitchInv, NEW enabled \in BOOLEAN, N!Change(enabled)
  PROVE  SwitchInv'
<1>0. SwitchTypes /\ auto \in AutoTypes /\ osCalls \in SUBSET OsCallTypes  BY DEF SwitchInv, SwitchTypes
<1>1. PICK c : c = [kind |-> "change", epoch |-> auto.epoch, readId |-> auto.readId + 1,
                    want |-> enabled, state |-> None]  OBVIOUS
<1>2. /\ osCalls' = osCalls \cup {c} /\ os' = os /\ abandoned' = abandoned /\ ~auto.changing
      /\ auto' = [auto EXCEPT !.changing = TRUE, !.readId = @ + 1, !.reading = FALSE, !.failure = FALSE]
  BY <1>1 DEF N!Change
<1>3. /\ c \in OsCallTypes /\ c.kind = "change" /\ c.epoch = auto.epoch /\ c.state = None
      /\ c.readId = auto.readId + 1  BY <1>0, <1>1 DEF OsCallTypes, AutoTypes
<1>4. /\ auto' \in AutoTypes /\ auto'.changing /\ auto'.readId = auto.readId + 1
      /\ auto'.epoch = auto.epoch /\ auto'.born = auto.born
  <2>1. auto.readId + 1 \in Nat  BY <1>0 DEF AutoTypes
  <2>2. auto' \in AutoTypes  BY <1>0, <1>2, <2>1 DEF AutoTypes
  <2>3. auto'.changing /\ auto'.readId = auto.readId + 1  BY <1>0, <1>2 DEF AutoTypes
  <2>4. auto'.epoch = auto.epoch /\ auto'.born = auto.born  BY <1>0, <1>2 DEF AutoTypes
  <2> QED BY <2>2, <2>3, <2>4
<1>5. SwitchTypes'  BY <1>0, <1>2, <1>3, <1>4 DEF SwitchTypes
<1>6. \A d \in osCalls : d.readId \in Nat /\ d.readId < auto'.readId
  BY <1>0, <1>4 DEF SwitchInv, AutoTypes, OsCallTypes
<1>7. \A d \in osCalls' : ~NewestRead(d)' /\ d.readId <= auto'.readId
  <2>1. auto'.readId \in Nat /\ auto.born <= auto.epoch  BY <1>4 DEF AutoTypes, SwitchInv
  <2>2. ~NewestRead(c)' /\ c.readId <= auto'.readId  BY <1>3, <1>4, <2>1 DEF NewestRead
  <2>3. \A d \in osCalls : ~NewestRead(d)' /\ d.readId <= auto'.readId  BY <1>6, <2>1 DEF NewestRead
  <2> QED BY <1>2, <2>2, <2>3
<1>8. ASSUME ~abandoned' PROVE OneChange' /\ AnswersAreTrue' /\ ShownIsTrue'
  <2>1. \A d \in osCalls : d.kind # "change"  BY <1>2, <1>8 DEF SwitchInv, OneChange
  <2>2. auto.born <= auto.epoch  BY DEF SwitchInv
  <2>3. OneChange'  BY <1>2, <1>3, <1>4, <2>1, <2>2 DEF OneChange
  <2> QED BY <1>2, <1>3, <1>4, <1>7, <2>1, <2>3 DEF AnswersAreTrue, ShownIsTrue
<1>9. auto'.born <= auto'.epoch  BY <1>4 DEF SwitchInv
<1> QED BY <1>5, <1>7, <1>8, <1>9 DEF SwitchInv

LEMMA OsServesKeeps ==
  ASSUME SwitchInv, None \notin BOOLEAN, NEW c \in osCalls, N!OsServes(c)
  PROVE  SwitchInv'
<1>0. SwitchTypes /\ auto \in AutoTypes /\ osCalls \in SUBSET OsCallTypes  BY DEF SwitchInv, SwitchTypes
<1>1. PICK served : served = [c EXCEPT !.state = os']  OBVIOUS
<1>2. /\ osCalls' = (osCalls \ {c}) \cup {served} /\ abandoned' = abandoned /\ auto' = auto /\ tab' = tab
      /\ os' \in IF c.kind = "change" THEN {c.want, os} ELSE {os}  BY <1>1 DEF N!OsServes
<1>3. os' \in BOOLEAN  BY <1>0, <1>2 DEF SwitchTypes, OsCallTypes
<1>4. /\ served \in OsCallTypes /\ served.kind = c.kind /\ served.epoch = c.epoch
      /\ served.readId = c.readId /\ served.state = os'  BY <1>0, <1>1, <1>3 DEF OsCallTypes
<1>5. SwitchTypes' /\ auto'.born <= auto'.epoch  BY <1>0, <1>2, <1>3, <1>4 DEF SwitchTypes, SwitchInv
<1>6. \A d \in osCalls' : d.readId <= auto'.readId  BY <1>2, <1>4 DEF SwitchInv
<1>7. ASSUME ~abandoned' PROVE OneChange' /\ ShownIsTrue' /\ \A d \in osCalls' : NewestRead(d)' => ~auto'.changing
  <2>1. OneChange /\ ShownIsTrue /\ \A d \in osCalls : NewestRead(d) => ~auto.changing  BY <1>2, <1>7 DEF SwitchInv
  <2>2. OneChange'  BY <1>2, <1>4, <2>1 DEF OneChange
  <2>3. \A d \in osCalls' : NewestRead(d)' => ~auto'.changing  BY <1>2, <1>4, <2>1 DEF NewestRead
  <2>4. (\E d \in osCalls : NewestRead(d)) => \E d \in osCalls' : NewestRead(d)'  BY <1>2, <1>4 DEF NewestRead
  <2>5. c.kind = "change" => auto'.changing  BY <1>2, <2>1 DEF OneChange
  <2>6. ShownIsTrue'  BY <1>2, <2>1, <2>4, <2>5 DEF ShownIsTrue, N!Active
  <2> QED BY <2>2, <2>3, <2>6
<1>8. ASSUME ~abandoned' PROVE AnswersAreTrue'
  <2>1. OneChange /\ AnswersAreTrue /\ \A d \in osCalls : NewestRead(d) => ~auto.changing  BY <1>2, <1>8 DEF SwitchInv
  <2>2. ASSUME NEW d \in osCalls', NewestRead(d)' \/ d.kind = "change", d.state # None PROVE d.state = os'
    <3>1. CASE d = served  BY <1>4, <3>1
    <3>2. CASE d # served
      <4>1. d \in osCalls /\ d # c  BY <1>2, <3>2
      <4>2. CASE c.kind = "change"  BY <1>2, <2>1, <2>2, <4>1, <4>2 DEF OneChange, NewestRead
      <4>3. CASE c.kind # "change"  BY <1>2, <2>1, <2>2, <4>1, <4>3 DEF AnswersAreTrue, NewestRead
      <4> QED BY <4>2, <4>3
    <3> QED BY <3>1, <3>2
  <2> QED BY <2>2 DEF AnswersAreTrue
<1> QED BY <1>5, <1>6, <1>7, <1>8 DEF SwitchInv

LEMMA ReadAnsweredKeepsSwitch ==
  ASSUME SwitchInv, NEW c \in osCalls, N!ReadAnswered(c)
  PROVE  SwitchInv'
<1>0. SwitchTypes /\ auto \in AutoTypes /\ osCalls \in SUBSET OsCallTypes /\ c \in OsCallTypes
  BY DEF SwitchInv, SwitchTypes
<1>1. /\ c.kind = "read" /\ c.state # None /\ osCalls' = osCalls \ {c}
      /\ os' = os /\ abandoned' = abandoned /\ tab' = tab  BY DEF N!ReadAnswered
<1>2. PICK ok \in BOOLEAN :
        auto' = IF ~N!CurrentRead(c) THEN auto
                ELSE [auto EXCEPT !.status = IF ok THEN c.state ELSE @, !.failure = ~ok, !.reading = FALSE]
  BY ZenonT(60) DEF N!ReadAnswered
<1>3. /\ auto' \in AutoTypes /\ auto'.changing = auto.changing /\ auto'.epoch = auto.epoch
      /\ auto'.readId = auto.readId /\ auto'.born = auto.born
      /\ N!CurrentRead(c) => auto'.failure = ~ok /\ (ok => auto'.status = c.state)
      /\ ~N!CurrentRead(c) => auto' = auto
  <2>1. CASE ~N!CurrentRead(c)  BY <1>0, <1>2, <2>1
  <2>2. CASE N!CurrentRead(c)  BY <1>0, <1>2, <2>2 DEF AutoTypes, OsCallTypes
  <2> QED BY <2>1, <2>2
<1>4. SwitchTypes' /\ auto'.born <= auto'.epoch /\ \A d \in osCalls' : d.readId <= auto'.readId
  BY <1>0, <1>1, <1>3 DEF SwitchTypes, SwitchInv
<1>5. ASSUME ~abandoned'
      PROVE  OneChange' /\ AnswersAreTrue' /\ \A d \in osCalls' : NewestRead(d)' => ~auto'.changing
  <2>1. OneChange /\ AnswersAreTrue /\ \A d \in osCalls : NewestRead(d) => ~auto.changing  BY <1>1, <1>5 DEF SwitchInv
  <2>2. OneChange'  BY <1>1, <1>3, <2>1 DEF OneChange
  <2>3. AnswersAreTrue' /\ \A d \in osCalls' : NewestRead(d)' => ~auto'.changing
    BY <1>1, <1>3, <2>1 DEF AnswersAreTrue, NewestRead
  <2> QED BY <2>2, <2>3
<1>6. ASSUME ~abandoned' PROVE ShownIsTrue'
  <2>1. ShownIsTrue /\ AnswersAreTrue  BY <1>1, <1>6 DEF SwitchInv
  <2>2. CASE N!CurrentRead(c)
    <3>1. c.state = os  BY <1>1, <2>1, <2>2 DEF N!CurrentRead, NewestRead, AnswersAreTrue
    <3> QED BY <1>1, <1>3, <2>2, <3>1 DEF ShownIsTrue
  <2>3. CASE ~N!CurrentRead(c)
    <3>1. N!Active => auto.changing \/ ~NewestRead(c)  BY <2>3 DEF N!CurrentRead, NewestRead
    <3>2. N!Active' <=> N!Active  BY <1>1 DEF N!Active
    <3>3. \A d \in osCalls : d # c /\ NewestRead(d) => d \in osCalls' /\ NewestRead(d)'  BY <1>1, <1>3 DEF NewestRead
    <3> QED BY <1>1, <1>3, <2>1, <2>3, <3>1, <3>2, <3>3 DEF ShownIsTrue
  <2> QED BY <2>2, <2>3
<1> QED BY <1>4, <1>5, <1>6 DEF SwitchInv

LEMMA ChangeAnsweredKeeps ==
  ASSUME SwitchInv, NEW c \in osCalls, N!ChangeAnswered(c)
  PROVE  SwitchInv'
<1>0. /\ SwitchTypes /\ auto \in AutoTypes /\ osCalls \in SUBSET OsCallTypes /\ c \in OsCallTypes
      /\ auto.born <= auto.epoch  BY DEF SwitchInv, SwitchTypes
<1>10. PICK ok \in BOOLEAN :
         LET here == N!Active /\ auto.epoch = c.epoch
             mine == c.epoch >= auto.born
             over == [auto EXCEPT !.changing = FALSE, !.again = FALSE,
                                  !.status = IF here /\ ok THEN c.state ELSE @,
                                  !.failure = @ \/ (here /\ ~ok)]
             read == mine /\ (auto.again \/ auto.epoch # c.epoch) /\ N!Active
         IN  /\ auto' = IF ~mine THEN auto ELSE IF read THEN N!Refreshed(over) ELSE over
             /\ osCalls' = (osCalls \ {c}) \cup (IF read THEN N!ReadCall(over) ELSE {})
  BY DEF N!ChangeAnswered
<1>11. PICK here \in BOOLEAN : here = (N!Active /\ auto.epoch = c.epoch)  OBVIOUS
<1>1. PICK over : over = [auto EXCEPT !.changing = FALSE, !.again = FALSE,
                              !.status = IF here /\ ok THEN c.state ELSE @,
                              !.failure = @ \/ (here /\ ~ok)]  OBVIOUS
<1>2. PICK left : left = osCalls \ {c}  OBVIOUS
<1>3. PICK read \in BOOLEAN : read = (c.epoch >= auto.born /\ (auto.again \/ auto.epoch # c.epoch) /\ N!Active)
  OBVIOUS
<1>4. /\ c.kind = "change" /\ c.state # None
      /\ os' = os /\ abandoned' = abandoned /\ tab' = tab
      /\ auto' = IF ~(c.epoch >= auto.born) THEN auto ELSE IF read THEN N!Refreshed(over) ELSE over
      /\ osCalls' = left \cup (IF read THEN N!ReadCall(over) ELSE {})
  BY <1>1, <1>2, <1>3, <1>10, <1>11 DEF N!ChangeAnswered
<1>5. /\ over \in AutoTypes /\ ~over.changing /\ over.epoch = auto.epoch /\ over.readId = auto.readId
      /\ over.born = auto.born /\ over.failure = (auto.failure \/ (here /\ ~ok))
      /\ over.status = IF here /\ ok THEN c.state ELSE auto.status
  <2>1. c.state \in BOOLEAN \cup {None} /\ auto.status \in BOOLEAN \cup {None}  BY <1>0 DEF AutoTypes, OsCallTypes
  <2>2. over \in AutoTypes  BY <1>0, <1>1, <2>1 DEF AutoTypes
  <2>3. ~over.changing /\ over.epoch = auto.epoch /\ over.readId = auto.readId  BY <1>0, <1>1 DEF AutoTypes
  <2>4. over.born = auto.born /\ over.failure = (auto.failure \/ (here /\ ~ok))  BY <1>0, <1>1 DEF AutoTypes
  <2>5. over.status = IF here /\ ok THEN c.state ELSE auto.status  BY <1>0, <1>1 DEF AutoTypes
  <2> QED BY <2>2, <2>3, <2>4, <2>5
<1>6. /\ left \in SUBSET OsCallTypes /\ c \notin left /\ left \subseteq osCalls
      /\ \A d \in left : d.readId <= over.readId  BY <1>0, <1>2, <1>5 DEF SwitchInv
<1>7. ~abandoned' =>
        /\ c.epoch >= auto.born /\ auto.changing
        /\ \A d \in left : d.kind # "change" /\ ~NewestRead(d)
        /\ c.state = os
  <2>1. ASSUME ~abandoned'
        PROVE  OneChange /\ AnswersAreTrue /\ \A d \in osCalls : NewestRead(d) => ~auto.changing
    BY <1>4, <2>1 DEF SwitchInv
  <2>2. ASSUME ~abandoned' PROVE auto.born <= c.epoch /\ auto.changing /\ \A d \in left : d.kind # "change"
    BY <1>4, <1>6, <2>1, <2>2 DEF OneChange
  <2>3. auto.born <= c.epoch => c.epoch >= auto.born  BY <1>0 DEF AutoTypes, OsCallTypes
  <2>4. ASSUME ~abandoned' PROVE c.state = os  BY <1>4, <2>1, <2>4 DEF AnswersAreTrue
  <2> QED BY <1>6, <2>1, <2>2, <2>3, <2>4
<1>8. CASE read
  <2>1. auto' = N!Refreshed(over) /\ osCalls' = left \cup N!ReadCall(over)  BY <1>3, <1>4, <1>8
  <2>2. /\ abandoned' \in BOOLEAN /\ over.born <= over.epoch
        /\ ~abandoned' =>
             /\ over.changing => \E d \in left : d.kind = "change"
             /\ \A d \in left : d.kind = "change" =>
                  /\ over.changing /\ over.born <= d.epoch
                  /\ d.state # None => d.state = os
                  /\ \A e \in left : e.kind = "change" => e = d
             /\ \A d \in left : d.readId = over.readId /\ d.epoch = over.epoch /\ d.kind = "read"
                                   => ~over.changing  BY <1>0, <1>4, <1>5, <1>7 DEF SwitchTypes
  <2> QED BY <1>0, <1>4, <1>5, <1>6, <2>1, <2>2, ReadingAgainKeeps
<1>9. CASE ~read
  <2>1. osCalls' = left  BY <1>4, <1>9
  <2>2. auto' \in AutoTypes /\ auto'.readId = auto.readId /\ auto'.epoch = auto.epoch /\ auto'.born = auto.born
    BY <1>0, <1>4, <1>5, <1>9
  <2>3. SwitchTypes' /\ auto'.born <= auto'.epoch /\ \A d \in osCalls' : d.readId <= auto'.readId
    BY <1>0, <1>4, <1>5, <1>6, <2>1, <2>2 DEF SwitchTypes
  <2>4. ASSUME ~abandoned'
        PROVE  OneChange' /\ AnswersAreTrue' /\ ShownIsTrue' /\ \A d \in osCalls' : ~NewestRead(d)'
    <3>1. auto' = over /\ (N!Active => auto.epoch = c.epoch) /\ c.state = os  BY <1>3, <1>4, <1>7, <1>9, <2>4
    <3>2. \A d \in osCalls' : d.kind # "change" /\ ~NewestRead(d)'  BY <1>7, <2>1, <2>2, <2>4 DEF NewestRead
    <3>3. OneChange' /\ AnswersAreTrue'  BY <1>5, <3>1, <3>2 DEF OneChange, AnswersAreTrue
    <3>4. ShownIsTrue'  BY <1>4, <1>5, <1>11, <3>1 DEF ShownIsTrue, N!Active
    <3> QED BY <3>2, <3>3, <3>4
  <2> QED BY <2>3, <2>4 DEF SwitchInv
<1> QED BY <1>8, <1>9

----
(* The exclusions.  A list that counts was read after the last restore. *)

ExclusionInv ==
  /\ known.token \in Nat /\ {"ids", "ready", "token"} = DOMAIN known
  /\ \A c \in lists : DOMAIN c = {"token", "request", "ids"} /\ c.token \in Nat /\ c.token <= known.token
  /\ batch.at # "ok" =>
       \A c \in lists : c.token = known.token /\ c.ids # None => c.ids = excluded
  /\ DOMAIN batch = {"at", "now", "rest", "done"}
  /\ N!KnownExclusionsAreCurrent

LEMMA ExclusionsKept ==
  ASSUME ExclusionInv, N!Exclusions
  PROVE  ExclusionInv'
<1>1. ASSUME NEW request, known' = N!Hydrating(known), lists' = lists \cup {N!NewList(request)}, DOMAIN batch' = DOMAIN batch
      PROVE  ExclusionInv'
  <2>1. PICK c : c = N!NewList(request)  OBVIOUS
  <2>2. DOMAIN c = {"token", "request", "ids"} /\ c.token = known.token + 1 /\ c.ids = None  BY <2>1 DEF N!NewList
  <2>3. /\ DOMAIN known' = DOMAIN known /\ known'.token = known.token + 1 /\ ~known'.ready
    BY <1>1 DEF N!Hydrating, ExclusionInv
  <2>4. known.token \in Nat /\ \A d \in lists : d.token \in Nat /\ d.token <= known.token  BY DEF ExclusionInv
  <2> QED BY <1>1, <2>1, <2>2, <2>3, <2>4 DEF ExclusionInv, N!KnownExclusionsAreCurrent
<1>2. ASSUME UNCHANGED <<excluded, known, lists>>, DOMAIN batch' = DOMAIN batch, batch'.at # "ok", batch.at # "ok"
      PROVE  ExclusionInv'  BY <1>2 DEF ExclusionInv, N!KnownExclusionsAreCurrent
<1>3. CASE N!Hydrate  BY <1>1, <1>3 DEF N!Hydrate
<1>4. CASE N!LoadExclusionManager
  <2>1. PICK request : request = manager.request + 1  OBVIOUS
  <2> QED BY <1>1, <1>4, <2>1 DEF N!LoadExclusionManager
<1>5. ASSUME UNCHANGED <<excluded, known, lists, batch>> PROVE ExclusionInv'
  BY <1>5 DEF ExclusionInv, N!KnownExclusionsAreCurrent
<1>6. CASE N!CloseExclusionManager \/ \E a \in Albums : N!SelectExclusion(a)
  BY <1>5, <1>6 DEF N!CloseExclusionManager, N!SelectExclusion
<1>7. ASSUME NEW c \in lists, N!ListServed(c) PROVE ExclusionInv'
  <2>1. PICK d : d = [c EXCEPT !.ids = excluded]  OBVIOUS
  <2>2. lists' = (lists \ {c}) \cup {d} /\ UNCHANGED <<excluded, known, batch>>  BY <1>7, <2>1 DEF N!ListServed
  <2>3. DOMAIN d = DOMAIN c /\ d.token = c.token /\ d.ids = excluded  BY <2>1 DEF ExclusionInv
  <2> QED BY <2>2, <2>3 DEF ExclusionInv, N!KnownExclusionsAreCurrent
<1>8. ASSUME NEW c \in lists, N!ListAnswered(c) PROVE ExclusionInv'
  <2>1. PICK ok \in BOOLEAN :
          known' = IF ok /\ c.token = known.token THEN [known EXCEPT !.ids = c.ids, !.ready = TRUE] ELSE known
    BY <1>8 DEF N!ListAnswered
  <2>2. lists' = lists \ {c} /\ c.ids # None /\ UNCHANGED <<excluded, batch>>  BY <1>8 DEF N!ListAnswered
  <2>3. CASE ok /\ c.token = known.token
    <3>1. DOMAIN known' = DOMAIN known /\ known'.token = known.token /\ known'.ids = c.ids
      BY <2>1, <2>3 DEF ExclusionInv
    <3> QED BY <2>2, <2>3, <3>1 DEF ExclusionInv, N!KnownExclusionsAreCurrent
  <2>4. CASE ~(ok /\ c.token = known.token)  BY <2>1, <2>2, <2>4 DEF ExclusionInv, N!KnownExclusionsAreCurrent
  <2> QED BY <2>3, <2>4
<1>9. CASE N!RestoreExclusions  BY <1>2, <1>9 DEF N!RestoreExclusions, N!NextBatch, ExclusionInv
<1>10. CASE N!BatchServed
  <2>1. PICK ok \in BOOLEAN :
          /\ excluded' = IF ok THEN excluded \ {batch.now} ELSE excluded
          /\ batch' = [batch EXCEPT !.at = IF ok THEN "ok" ELSE "failed"]  BY <1>10 DEF N!BatchServed
  <2>2. UNCHANGED <<known, lists>> /\ batch.at = "sent"  BY <1>10 DEF N!BatchServed
  <2>3. DOMAIN batch' = DOMAIN batch /\ batch'.at = IF ok THEN "ok" ELSE "failed"  BY <2>1 DEF ExclusionInv
  <2> QED BY <2>1, <2>2, <2>3 DEF ExclusionInv, N!KnownExclusionsAreCurrent
<1>11. CASE N!BatchRestored
  <2>1. DOMAIN batch' = {"at", "now", "rest", "done"}
    BY <1>11 DEF N!BatchRestored, N!NextBatch, N!Restored, N!NoBatch
  <2>2. PICK k : k = [known EXCEPT !.ids = @ \ {batch.now}]  OBVIOUS
  <2>3. known' = N!Hydrating(k) /\ lists' = lists \cup {N!NewList(0)}  BY <1>11, <2>2 DEF N!BatchRestored
  <2>4. DOMAIN k = DOMAIN known /\ k.token = known.token  BY <2>2 DEF ExclusionInv
  <2>5. PICK c : c = N!NewList(0)  OBVIOUS
  <2>6. DOMAIN c = {"token", "request", "ids"} /\ c.token = known.token + 1 /\ c.ids = None  BY <2>5 DEF N!NewList
  <2>7. DOMAIN known' = DOMAIN known /\ known'.token = known.token + 1 /\ ~known'.ready
    BY <2>3, <2>4 DEF N!Hydrating, ExclusionInv
  <2>8. known.token \in Nat /\ \A d \in lists : d.token \in Nat /\ d.token <= known.token  BY DEF ExclusionInv
  <2> QED BY <2>1, <2>3, <2>5, <2>6, <2>7, <2>8 DEF ExclusionInv, N!KnownExclusionsAreCurrent
<1>12. CASE N!BatchFailed
  <2>1. batch' = N!NoBatch /\ UNCHANGED <<excluded, known, lists>> /\ batch.at = "failed"
    BY <1>12 DEF N!BatchFailed, N!Restored
  <2> QED BY <1>2, <2>1 DEF N!NoBatch, ExclusionInv
<1> QED BY <1>3, <1>4, <1>6, <1>7, <1>8, <1>9, <1>10, <1>11, <1>12 DEF N!Exclusions

(* Each group of panels leaves the others alone. *)
LEMMA PanelsKept ==
  ASSUME None \notin BOOLEAN, SwitchInv, ExclusionInv, [N!Next]_N!vars
  PROVE  SwitchInv' /\ ExclusionInv'
<1>1. ASSUME UNCHANGED <<tab, os, auto, osCalls, abandoned>> PROVE SwitchInv'
  BY <1>1 DEF SwitchInv, SwitchTypes, OneChange, AnswersAreTrue, ShownIsTrue, NewestRead, N!Active
<1>2. ASSUME UNCHANGED <<excluded, known, lists, batch>> PROVE ExclusionInv'
  BY <1>2 DEF ExclusionInv, N!KnownExclusionsAreCurrent
<1>3. CASE N!Autostart
  <2>1. UNCHANGED <<excluded, known, lists, batch>>
    BY <1>3 DEF N!Autostart, N!Focus, N!Change, N!OsServes, N!ReadAnswered, N!ChangeAnswered, N!exclusionVars
  <2>2. SwitchInv'
    BY <1>3, FocusKeeps, ChangeKeeps, OsServesKeeps, ReadAnsweredKeepsSwitch, ChangeAnsweredKeeps DEF N!Autostart
  <2> QED BY <1>2, <2>1, <2>2
<1>4. CASE N!PreviewAndUsage
  <2>1. UNCHANGED <<tab, os, auto, osCalls, abandoned, excluded, known, lists, batch>>
    <3>1. CASE \E s \in Templates : N!EditTemplate(s)  BY <3>1 DEF N!EditTemplate, N!exclusionVars, N!autoVars
    <3>2. CASE N!PreviewTimer  BY <3>2 DEF N!PreviewTimer, N!exclusionVars, N!autoVars
    <3>3. CASE \E c \in previews : N!PreviewAnswered(c)  BY <3>3 DEF N!PreviewAnswered, N!exclusionVars, N!autoVars
    <3>4. CASE N!RefreshUsage  BY <3>4 DEF N!RefreshUsage, N!exclusionVars, N!autoVars
    <3>5. CASE N!UsageAnswered  BY <3>5 DEF N!UsageAnswered, N!exclusionVars, N!autoVars
    <3>6. CASE \E folder \in {1, 2} : N!SetRoot(folder)  BY <3>6 DEF N!SetRoot, N!exclusionVars, N!autoVars
    <3> QED BY <1>4, <3>1, <3>2, <3>3, <3>4, <3>5, <3>6 DEF N!PreviewAndUsage
  <2> QED BY <1>1, <1>2, <2>1
<1>5. CASE N!Exclusions
  <2>1. UNCHANGED <<tab, os, auto, osCalls, abandoned>>
    <3>1. CASE N!Hydrate \/ N!LoadExclusionManager \/ N!CloseExclusionManager
      BY <3>1 DEF N!Hydrate, N!LoadExclusionManager, N!CloseExclusionManager, N!autoVars
    <3>2. CASE \E c \in lists : N!ListServed(c) \/ N!ListAnswered(c)
      BY <3>2 DEF N!ListServed, N!ListAnswered, N!autoVars
    <3>3. CASE (\E a \in Albums : N!SelectExclusion(a)) \/ N!RestoreExclusions
      BY <3>3 DEF N!SelectExclusion, N!RestoreExclusions, N!autoVars
    <3>4. CASE N!BatchServed \/ N!BatchRestored \/ N!BatchFailed
      BY <3>4 DEF N!BatchServed, N!BatchRestored, N!BatchFailed, N!autoVars
    <3> QED BY <1>5, <3>1, <3>2, <3>3, <3>4 DEF N!Exclusions
  <2> QED BY <1>1, <1>5, <2>1, ExclusionsKept
<1>6. ASSUME NEW t \in N!Tabs, N!SelectTab(t) PROVE SwitchInv' /\ ExclusionInv'
  <2>1. UNCHANGED <<excluded, known, lists, batch>>  BY <1>6 DEF N!SelectTab
  <2> QED BY <1>2, <1>6, <2>1, SelectTabKeepsSwitch
<1>7. CASE UNCHANGED N!vars  BY <1>1, <1>2, <1>7 DEF N!vars, N!autoVars, N!exclusionVars
<1> QED BY <1>3, <1>4, <1>5, <1>6, <1>7 DEF N!Next

(* A status on screen that nothing refreshes is the one Windows has, however
   changes, reads and visits of the panel overlap, and exclusions said to be
   known are the backend's but for a restore whose answer is still on its
   way (AutostartSetting.tsx, loadExplorationExclusionsAndSync).  Assumed is only
   that the absent status is no truth value. *)
THEOREM ThePanelsAreCurrent ==
  ASSUME None \notin BOOLEAN
  PROVE  N!Spec => [](N!SwitchShowsWindows /\ N!KnownExclusionsAreCurrent)
<1>1. N!Init => SwitchInv /\ ExclusionInv
  <2>1. ASSUME N!Init PROVE ExclusionInv  BY <2>1 DEF N!Init, ExclusionInv, N!KnownExclusionsAreCurrent, N!NoBatch
  <2> QED BY <2>1, SwitchInvInit
<1>2. SwitchInv /\ ExclusionInv /\ [N!Next]_N!vars => SwitchInv' /\ ExclusionInv'  BY PanelsKept
<1>3. SwitchInv /\ ExclusionInv => N!SwitchShowsWindows /\ N!KnownExclusionsAreCurrent
  BY DEF SwitchInv, ExclusionInv, OneChange, ShownIsTrue, N!SwitchShowsWindows
<1> QED BY <1>1, <1>2, <1>3, PTL DEF N!Spec
====
