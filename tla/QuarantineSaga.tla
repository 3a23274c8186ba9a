---- MODULE QuarantineSaga ----
(***************************************************************************)
(* Quarantine and restore of one completed download: a directory move that *)
(* is journalled in quarantine_records.  download_supervisor.rs            *)
(* (quarantine_entries, restore_entries, reconcile_without_resume,         *)
(* reconcile_quarantine_saga, inspect_bundle), the transactions of         *)
(* sqlite_repository.rs and the directory operations of artifact_store.rs. *)
(*                                                                         *)
(* The commands run on blocking threads of their own; none of them is      *)
(* serialised by a lock, so every transaction and every file operation is  *)
(* an action.  A crash stops all of them, and the next start recovers the  *)
(* pending record before it accepts commands.                              *)
(***************************************************************************)
EXTENDS Naturals, FiniteSets

CONSTANTS
  Users,      \* threads that run commands
  Startup,    \* the thread that recovers after a start
  Records,    \* the record ids (UUIDs) that can be drawn
  NoRecord,
  Original,   \* the directory of the artifact; a record stands for its own
  Commands,   \* the commands users give
  MaxCrash,   \* crashes in a behaviour
  MaxFault    \* failures of a file operation or of a transaction

ASSUME ProcessAssumption == Startup \notin Users
ASSUME PathAssumption == NoRecord \notin Records /\ Original \notin Records
ASSUME BoundAssumption == MaxCrash \in Nat /\ MaxFault \in Nat
ASSUME CommandAssumption ==
  Commands \subseteq {"quarantine", "restore", "open", "repair", "reconcile"}

VARIABLES
  rec,      \* quarantine_records.state by record
  job,      \* download_entries.state
  art,      \* download_artifacts: state and revision
  dir,      \* the directories on disk
  proc,     \* what each thread is doing
  ready,    \* the startup recovery is over
  crashes,
  faults

rows == <<rec, job, art>>
bounds == <<crashes, faults>>
vars == <<rec, job, art, dir, proc, ready, crashes, faults>>

Procs == Users \cup {Startup}
Paths == Records \cup {Original}
RecordStates ==
  {"unused", "pending_quarantine", "quarantined", "pending_restore", "restored"}
Pending == {"pending_quarantine", "pending_restore"}

\* The states of the partial unique index quarantine_records_active_entry_idx.
Active == Pending \cup {"quarantined"}

\* A directory: its page files, and whether the page paths of its manifest are
\* those of the original directory or those of the quarantine.
Gone == [there |-> FALSE, pages |-> FALSE, manifest |-> "none"]
Whole == [there |-> TRUE, pages |-> TRUE, manifest |-> "original"]

\* way: towards the quarantine ("out") or back to the original ("back").
Idle == [op |-> "none", pc |-> "idle", rec |-> NoRecord, way |-> "out",
         orig |-> FALSE, snap |-> [state |-> "none", rev |-> 0], issue |-> FALSE]

Init ==
  /\ rec = [r \in Records |-> "unused"]
  /\ job = "Completed"
  /\ art = [state |-> "complete", rev |-> 0]
  /\ dir = [p \in Paths |-> IF p = Original THEN Whole ELSE Gone]
  /\ proc = [p \in Procs |-> Idle]
  /\ ready = TRUE
  /\ crashes = 0
  /\ faults = 0

----
At(p, pc) == proc[p].pc = pc
Goto(p, pc) == proc' = [proc EXCEPT ![p].pc = pc] /\ UNCHANGED ready

\* resolve_managed_path(.., must_exist = false) creates the parent of the file
\* it resolves: to look for a file makes its directory.
Touch(path) == [dir EXCEPT ![path].there = TRUE]

\* The thread is through with the record, by success or by error: a command
\* answers, app_reconcile goes on to inspect the artifacts, and after a start
\* the application accepts commands.
Leave(p) ==
  /\ proc' = [proc EXCEPT ![p] =
       IF proc[p].op = "reconcile" THEN [Idle EXCEPT !.op = "reconcile", !.pc = "bundles"]
                                   ELSE Idle]
  /\ ready' = (ready \/ p = Startup)

Begin(u, command, pc, way) ==
  /\ command \in Commands /\ ready /\ At(u, "idle")
  /\ proc' = [proc EXCEPT ![u] = [Idle EXCEPT !.op = command, !.pc = pc, !.way = way]]
  /\ UNCHANGED ready

(* quarantine_entries: a complete artifact whose manifest is as expected. *)
Quarantine(u) ==
  /\ art.state = "complete"
  /\ Begin(u, "quarantine", "check", "out")
  /\ UNCHANGED <<rows, dir, bounds>>

CheckManifest(p) ==
  /\ At(p, "check")
  /\ dir' = Touch(Original)
  /\ IF dir[Original].manifest = "original" THEN Goto(p, "begin") ELSE Leave(p)
  /\ UNCHANGED <<rows, bounds>>

\* The row is inserted with a fresh id; the unique index refuses a second
\* active record of the entry.
PipelineQuarantineBegin(p) ==
  /\ At(p, "begin")
  /\ IF job = "Completed" /\ art.state = "complete" /\ \A r \in Records : rec[r] \notin Active
       THEN \E r \in Records :
              /\ rec[r] = "unused"
              /\ rec' = [rec EXCEPT ![r] = "pending_quarantine"]
              /\ proc' = [proc EXCEPT ![p].pc = "move", ![p].rec = r]
              /\ UNCHANGED ready
       ELSE Leave(p) /\ UNCHANGED rec
  /\ UNCHANGED <<job, art, dir, bounds>>

(* restore_entries *)
PipelineRestoreBegin(u) ==
  /\ job = "Quarantined"
  /\ "restore" \in Commands /\ ready /\ At(u, "idle")
  /\ \E r \in Records :
       /\ rec[r] = "quarantined"
       /\ rec' = [rec EXCEPT ![r] = "pending_restore"]
       /\ proc' = [proc EXCEPT ![u] =
            [Idle EXCEPT !.op = "restore", !.pc = "read", !.way = "back", !.rec = r]]
  /\ UNCHANGED <<job, art, dir, ready, bounds>>

ReadManifest(p) ==
  /\ At(p, "read")
  /\ dir' = Touch(proc[p].rec)
  /\ IF dir[proc[p].rec].manifest # "none" THEN Goto(p, "manifest") ELSE Leave(p)
  /\ UNCHANGED <<rows, bounds>>

----
(* The steps both commands and the recovery share. *)

Source(p) == IF proc[p].way = "out" THEN Original ELSE proc[p].rec
Target(p) == IF proc[p].way = "out" THEN proc[p].rec ELSE Original

\* The manifest is rewritten after the move on the way out and before it on
\* the way back; the recovery builds it from the database and not from the
\* file, so it looks at the artifact first.
AfterMove(p) ==
  IF proc[p].way = "back" THEN "complete"
  ELSE IF proc[p].op = "quarantine" THEN "manifest" ELSE "bundle"

AfterManifest(p) == IF proc[p].way = "out" THEN "complete" ELSE "move"

\* A rename that replaces what is at its target.
MoveOver(p) ==
  /\ At(p, "move")
  /\ IF dir[Source(p)].there
       THEN /\ dir' = [dir EXCEPT ![Target(p)] = dir[Source(p)], ![Source(p)] = Gone]
            /\ Goto(p, AfterMove(p))
       ELSE Leave(p) /\ UNCHANGED dir
  /\ UNCHANGED <<rows, bounds>>

\* move_managed_directory: never onto something that exists.
MoveDirectory(p) ==
  /\ At(p, "move")
  /\ IF dir[Source(p)].there /\ ~dir[Target(p)].there
       THEN /\ dir' = [dir EXCEPT ![Target(p)] = dir[Source(p)], ![Source(p)] = Gone]
            /\ Goto(p, AfterMove(p))
       ELSE Leave(p) /\ UNCHANGED dir
  /\ UNCHANGED <<rows, bounds>>

\* A manifest written with the page paths of the place it is written to.
WriteManifestInPlace(p) ==
  /\ At(p, "manifest")
  /\ dir' = [dir EXCEPT ![proc[p].rec].there = TRUE, ![proc[p].rec].manifest = "quarantined"]
  /\ Goto(p, AfterManifest(p))
  /\ UNCHANGED <<rows, bounds>>

\* write_quarantine_manifest: always in the quarantine directory, with the
\* page paths of the place the pages are to be found at in the end.
WriteManifest(p) ==
  /\ At(p, "manifest")
  /\ dir' = [dir EXCEPT ![proc[p].rec].there = TRUE,
                        ![proc[p].rec].manifest =
                           IF proc[p].way = "out" THEN "quarantined" ELSE "original"]
  /\ Goto(p, AfterManifest(p))
  /\ UNCHANGED <<rows, bounds>>

\* The record is completed whatever happened to the artifact meanwhile.
CompleteRecordOnly(p) ==
  /\ At(p, "complete") /\ proc[p].way = "out"
  /\ IF rec[proc[p].rec] = "pending_quarantine"
       THEN /\ rec' = [rec EXCEPT ![proc[p].rec] = "quarantined"]
            /\ job' = IF job = "Completed" THEN "Quarantined" ELSE job
            /\ art' = IF art.state = "complete"
                        THEN [state |-> "quarantined", rev |-> art.rev + 1] ELSE art
       ELSE UNCHANGED rows
  /\ Leave(p)
  /\ UNCHANGED <<dir, bounds>>

PipelineQuarantineComplete(p) ==
  /\ At(p, "complete") /\ proc[p].way = "out"
  /\ IF rec[proc[p].rec] = "pending_quarantine" /\ job = "Completed" /\ art.state = "complete"
       THEN /\ rec' = [rec EXCEPT ![proc[p].rec] = "quarantined"]
            /\ job' = "Quarantined"
            /\ art' = [state |-> "quarantined", rev |-> art.rev + 1]
       ELSE UNCHANGED rows
  /\ Leave(p)
  /\ UNCHANGED <<dir, bounds>>

PipelineRestoreComplete(p) ==
  /\ At(p, "complete") /\ proc[p].way = "back"
  /\ IF rec[proc[p].rec] = "pending_restore" /\ job = "Quarantined" /\ art.state = "quarantined"
       THEN /\ rec' = [rec EXCEPT ![proc[p].rec] = "restored"]
            /\ job' = "Completed"
            /\ art' = [state |-> "complete", rev |-> art.rev + 1]
       ELSE UNCHANGED rows
  /\ Leave(p)
  /\ UNCHANGED <<dir, bounds>>

----
(* reconcile_quarantine_sagas, by a start, by maintenance QuickRepair and
   by app_reconcile. *)

Reconcile(u) ==
  /\ Begin(u, "reconcile", "list", "out") \/ Begin(u, "repair", "list", "out")
  /\ UNCHANGED <<rows, dir, bounds>>

\* pipeline_pending_quarantine_sagas: the index allows one for the entry.
PendingSagas(p) ==
  /\ At(p, "list")
  /\ \/ /\ \A r \in Records : rec[r] \notin Pending
        /\ Leave(p)
     \/ \E r \in Records :
          /\ rec[r] \in Pending
          /\ proc' = [proc EXCEPT ![p].pc = "original", ![p].rec = r,
                        ![p].way = IF rec[r] = "pending_quarantine" THEN "out" ELSE "back"]
          /\ UNCHANGED ready
  /\ UNCHANGED <<rows, dir, bounds>>

OriginalExists(p) ==
  /\ At(p, "original")
  /\ proc' = [proc EXCEPT ![p].pc = "quarantine", ![p].orig = dir[Original].there]
  /\ UNCHANGED <<rows, dir, ready, bounds>>

\* A recovery that takes a directory already moved for one still to be moved,
\* and looks again.
LookUntilUnmoved(p) ==
  /\ At(p, "quarantine")
  /\ IF proc[p].orig = dir[proc[p].rec].there THEN Leave(p)
     ELSE Goto(p, IF proc[p].way = "out"
                    THEN IF proc[p].orig THEN "move" ELSE "original"
                    ELSE IF proc[p].orig THEN "complete" ELSE "read")
  /\ UNCHANGED <<rows, dir, bounds>>

\* Both directories or none of them: "ambiguous", and left alone.
QuarantineExists(p) ==
  /\ At(p, "quarantine")
  /\ IF proc[p].orig = dir[proc[p].rec].there THEN Leave(p)
     ELSE Goto(p, IF proc[p].way = "out"
                    THEN IF proc[p].orig THEN "move" ELSE "bundle"
                    ELSE IF proc[p].orig THEN "complete" ELSE "read")
  /\ UNCHANGED <<rows, dir, bounds>>

\* ArtifactManifest::from_bundle wants a complete artifact.
ArtifactBundle(p) ==
  /\ At(p, "bundle")
  /\ IF art.state = "complete" THEN Goto(p, "manifest") ELSE Leave(p)
  /\ UNCHANGED <<rows, dir, bounds>>

(* The second half of reconcile_without_resume: inspect_bundle on what
   pipeline_artifact_bundles returned. *)
ArtifactBundles(p) ==
  /\ At(p, "bundles")
  /\ proc' = [proc EXCEPT ![p] =
       IF art.state = "quarantined" THEN Idle
       ELSE [Idle EXCEPT !.op = "inspect", !.pc = "pages", !.snap = art]]
  /\ UNCHANGED <<rows, dir, ready, bounds>>

InspectPages(p) ==
  /\ At(p, "pages")
  /\ dir' = Touch(Original)
  /\ proc' = [proc EXCEPT ![p].issue = ~dir[Original].pages,
                ![p].pc = IF proc[p].snap.state = "complete" THEN "inspect" ELSE "mark"]
  /\ UNCHANGED <<rows, ready, bounds>>

InspectManifest(p) ==
  /\ At(p, "inspect")
  /\ dir' = Touch(Original)
  /\ proc' = [proc EXCEPT ![p].pc = "mark",
                ![p].issue = @ \/ dir[Original].manifest # "original"]
  /\ UNCHANGED <<rows, ready, bounds>>

\* pipeline_mark_artifact_issue, for the snapshot that was inspected.
MarkArtifactIssue(p) ==
  /\ At(p, "mark")
  /\ IF proc[p].issue /\ art = proc[p].snap
       THEN /\ art' = IF art.state = "missing_artifacts" THEN art
                      ELSE [state |-> "missing_artifacts", rev |-> art.rev + 1]
            /\ job' = IF job = "Completed" THEN "Failed" ELSE job
       ELSE UNCHANGED <<art, job>>
  /\ proc' = [proc EXCEPT ![p] = Idle]
  /\ UNCHANGED <<rec, dir, ready, bounds>>

(* open_first: looks for the first page of a complete artifact. *)
Open(u) ==
  /\ art.state = "complete"
  /\ Begin(u, "open", "first", "out")
  /\ UNCHANGED <<rows, dir, bounds>>

FirstVerifiedPage(p) ==
  /\ At(p, "first")
  /\ dir' = Touch(Original)
  /\ Leave(p)
  /\ UNCHANGED <<rows, bounds>>

----
(* The disk or the database refuses an operation. *)
Fault(p) ==
  /\ faults < MaxFault
  /\ proc[p].pc \in {"move", "manifest", "complete"}
  /\ faults' = faults + 1
  /\ Leave(p)
  /\ UNCHANGED <<rows, dir, crashes>>

(* The process dies and is started again: recover_startup_state runs before
   the window takes commands. *)
Crash ==
  /\ crashes < MaxCrash
  /\ crashes' = crashes + 1
  /\ proc' = [p \in Procs |->
       IF p = Startup THEN [Idle EXCEPT !.op = "repair", !.pc = "list"] ELSE Idle]
  /\ ready' = FALSE
  /\ UNCHANGED <<rows, dir, faults>>

Command(u) ==
  Quarantine(u) \/ PipelineRestoreBegin(u) \/ Reconcile(u) \/ Open(u)

Step(p) ==
  \/ CheckManifest(p) \/ PipelineQuarantineBegin(p) \/ ReadManifest(p) \/ MoveDirectory(p)
  \/ WriteManifest(p) \/ PipelineQuarantineComplete(p) \/ PipelineRestoreComplete(p)
  \/ PendingSagas(p) \/ OriginalExists(p) \/ QuarantineExists(p) \/ ArtifactBundle(p)
  \/ ArtifactBundles(p) \/ InspectPages(p) \/ InspectManifest(p) \/ MarkArtifactIssue(p)
  \/ FirstVerifiedPage(p)

Next ==
  \/ \E u \in Users : Command(u)
  \/ \E p \in Procs : Step(p) \/ Fault(p)
  \/ Crash

Spec == Init /\ [][Next]_vars

\* A thread that has begun runs to its end.
FairSpec == Spec /\ \A p \in Procs : WF_vars(Step(p))

----
ProcTypes ==
  [op : {"none", "quarantine", "restore", "open", "repair", "reconcile", "inspect"},
   pc : {"idle", "check", "begin", "read", "move", "manifest", "complete", "list", "original",
         "quarantine", "bundle", "bundles", "pages", "inspect", "mark", "first"},
   rec : Records \cup {NoRecord},
   way : {"out", "back"},
   orig : BOOLEAN,
   snap : [state : {"none", "complete", "missing_artifacts"}, rev : Nat],
   issue : BOOLEAN]

DirTypes ==
  [there : BOOLEAN, pages : BOOLEAN, manifest : {"none", "original", "quarantined"}]

\* The steps that work on a record have one.
HasRecord(p) ==
  proc[p].pc \in {"read", "move", "manifest", "complete", "original", "quarantine", "bundle"}
    => proc[p].rec \in Records

(* Every variable keeps its type; a step that works on a record has one. *)
TypeOK ==
  /\ rec \in [Records -> RecordStates]
  /\ job \in {"Completed", "Quarantined", "Failed"}
  /\ art \in [state : {"complete", "quarantined", "missing_artifacts"}, rev : Nat]
  /\ dir \in [Paths -> DirTypes]
  /\ proc \in [Procs -> ProcTypes]
  /\ \A p \in Procs : HasRecord(p)
  /\ ready \in BOOLEAN
  /\ crashes \in 0 .. MaxCrash
  /\ faults \in 0 .. MaxFault

(* The journal and the rows agree whichever commands overlap: the entry and
   its artifact are quarantined exactly while a record says so, and the
   entry has at most one active record (quarantine_records_active_entry_idx
   and the guards of the four transactions). *)
RecordMatchesRows ==
  /\ \A r, s \in Records : rec[r] \in Active /\ rec[s] \in Active => r = s
  /\ job = "Quarantined" <=> art.state = "quarantined"
  /\ job = "Quarantined" <=> \E r \in Records : rec[r] \in {"quarantined", "pending_restore"}

(* "No file was deleted": through overlapping moves, directories that are
   made again under a moved artifact, failures and crashes, one directory
   holds the pages (move_managed_directory). *)
PagesInOnePlace ==
  /\ \E p \in Paths : dir[p].pages
  /\ \A p, q \in Paths : dir[p].pages /\ dir[q].pages => p = q
  /\ \A p \in Paths : dir[p].pages => dir[p].there

Quiet == ready /\ \A p \in Procs : At(p, "idle")

\* The pages are at exactly one of the two directories of r, the other is free.
OneSide(r) ==
  \/ dir[Original].pages /\ ~dir[r].there
  \/ dir[r].pages /\ dir[r].manifest # "none" /\ ~dir[Original].there

(* What the commands leave behind can always be taken further: a pending
   record by the recovery, a quarantined artifact by restore_entries, and a
   complete artifact without a record is whole and has the manifest that
   the database expects (reconcile_quarantine_saga, inspect_bundle). *)
Recoverable ==
  Quiet =>
    /\ \A r \in Records :
         /\ rec[r] \in Pending => OneSide(r)
         /\ rec[r] = "pending_quarantine" => job = "Completed" /\ art.state = "complete"
         /\ rec[r] = "pending_restore" /\ dir[Original].pages => dir[Original] = Whole
         /\ rec[r] = "quarantined" =>
              dir[r].pages /\ dir[r].manifest # "none" /\ ~dir[Original].there
    /\ art.state = "complete" /\ (\A r \in Records : rec[r] \notin Active)
         => dir[Original] = Whole

(* A journalled move is finished: a crash at any point of a quarantine or a
   restore leaves a record that the next start completes. *)
PendingSettles ==
  \A r \in Records : rec[r] \in Pending ~> rec[r] \notin Pending

====
