---- MODULE QuarantineSagaProofs ----
(***************************************************************************)
(* What holds of the quarantine however commands, recoveries and crashes   *)
(* overlap, for any number of threads and records.  The invariant is       *)
(* inductive as it stands once the type says that no inspection starts     *)
(* from a quarantined artifact (ArtifactBundles): without it               *)
(* MarkArtifactIssue could mark an artifact that a record accounts for.    *)
(*                                                                         *)
(* What a crash leaves behind is the second half: CrashInv says what the   *)
(* one thread at work knows at each of its steps, and that what it is in   *)
(* the middle of is a state the recovery can tell and finish.              *)
(***************************************************************************)
EXTENDS QuarantineSaga, TLAPS

IInv == TypeOK /\ RecordMatchesRows /\ PagesInOnePlace

----
(* The thread bookkeeping that every step ends with keeps the types. *)
LEMMA IdleType == Idle \in ProcTypes  BY DEF Idle, ProcTypes

(* Leave: the thread answers, or goes on to inspect. *)
LEMMA LeaveType ==
  ASSUME TypeOK, NEW p \in Procs, Leave(p)
  PROVE  /\ proc' \in [Procs -> ProcTypes]
         /\ ready' \in BOOLEAN
         /\ \A q \in Procs : HasRecord(q)'
<1>1. [Idle EXCEPT !.op = "reconcile", !.pc = "bundles"] \in ProcTypes  BY DEF Idle, ProcTypes
<1>2. proc' \in [Procs -> ProcTypes] /\ ready' \in BOOLEAN  BY <1>1, IdleType DEF TypeOK, Leave
<1>3. ASSUME NEW q \in Procs PROVE HasRecord(q)'
  <2>1. CASE q # p  BY <2>1 DEF TypeOK, Leave, HasRecord
  <2>2. CASE q = p  BY <2>2 DEF TypeOK, Leave, HasRecord, Idle
  <2> QED BY <2>1, <2>2
<1> QED BY <1>2, <1>3

(* Goto: to a step that works on a record only when the thread has one. *)
LEMMA GotoType ==
  ASSUME TypeOK, NEW p \in Procs, NEW l, Goto(p, l),
         l \in {"begin", "move", "manifest", "complete", "bundle", "read"},
         l # "begin" => proc[p].rec \in Records
  PROVE  /\ proc' \in [Procs -> ProcTypes]
         /\ ready' \in BOOLEAN
         /\ \A q \in Procs : HasRecord(q)'
<1>1. proc' \in [Procs -> ProcTypes] /\ ready' \in BOOLEAN  BY DEF TypeOK, Goto, ProcTypes
<1>2. ASSUME NEW q \in Procs PROVE HasRecord(q)'
  <2>1. CASE q # p  BY <2>1 DEF TypeOK, Goto, HasRecord
  <2>2. CASE q = p  BY <2>2 DEF TypeOK, Goto, HasRecord, ProcTypes
  <2> QED BY <2>1, <2>2
<1> QED BY <1>1, <1>2

(* Begin: a command starts at a step that needs no record. *)
LEMMA BeginType ==
  ASSUME TypeOK, NEW u \in Procs, NEW c \in {"quarantine", "open", "repair", "reconcile"},
         NEW l \in {"check", "first", "list"}, Begin(u, c, l, "out")
  PROVE  /\ proc' \in [Procs -> ProcTypes]
         /\ ready' \in BOOLEAN
         /\ \A q \in Procs : HasRecord(q)'
<1>1. [Idle EXCEPT !.op = c, !.pc = l, !.way = "out"] \in ProcTypes  BY DEF Idle, ProcTypes
<1>2. proc' \in [Procs -> ProcTypes] /\ ready' \in BOOLEAN  BY <1>1 DEF TypeOK, Begin
<1>3. ASSUME NEW q \in Procs PROVE HasRecord(q)'
  <2>1. CASE q # u  BY <2>1 DEF TypeOK, Begin, HasRecord
  <2>2. CASE q = u  BY <2>2 DEF TypeOK, Begin, HasRecord, Idle
  <2> QED BY <2>1, <2>2
<1> QED BY <1>2, <1>3

(* A directory that is looked into, or gets a manifest, keeps its pages, so
   the pages stay in one place. *)
LEMMA PagesUntouched ==
  ASSUME PagesInOnePlace, dir \in [Paths -> DirTypes],
         NEW p \in Paths, NEW m \in {"none", "original", "quarantined"},
         dir' = [dir EXCEPT ![p].there = TRUE, ![p].manifest = m]
  PROVE  PagesInOnePlace' /\ dir' \in [Paths -> DirTypes]  BY DEF PagesInOnePlace, DirTypes

(* To look into a directory, which makes it, moves no page. *)
LEMMA TouchKeeps ==
  ASSUME PagesInOnePlace, dir \in [Paths -> DirTypes], NEW p \in Paths, dir' = Touch(p)
  PROVE  PagesInOnePlace' /\ dir' \in [Paths -> DirTypes]  BY DEF PagesInOnePlace, Touch, DirTypes

(* A move onto a free place takes the pages along, whichever directory has
   them. *)
LEMMA MoveKeeps ==
  ASSUME PagesInOnePlace, dir \in [Paths -> DirTypes],
         NEW s \in Paths, NEW t \in Paths, s # t, dir[s].there, ~dir[t].there,
         dir' = [dir EXCEPT ![t] = dir[s], ![s] = Gone]
  PROVE  PagesInOnePlace' /\ dir' \in [Paths -> DirTypes]
<1>1. dir' \in [Paths -> DirTypes]  BY DEF DirTypes, Gone
<1>2. ~dir[t].pages  BY DEF PagesInOnePlace
<1>3. /\ dir'[t] = dir[s] /\ dir'[s] = Gone
      /\ \A p \in Paths : p # s /\ p # t => dir'[p] = dir[p]  OBVIOUS
<1>4. \A p \in Paths : dir'[p].pages => p # s  BY <1>3 DEF Gone
<1>5. PICK h \in Paths : dir[h].pages  BY DEF PagesInOnePlace
<1>6. \E p \in Paths : dir'[p].pages
  <2>1. CASE h = s  BY <2>1, <1>5, <1>3
  <2>2. CASE h # s  BY <2>2, <1>5, <1>3, <1>2
  <2> QED BY <2>1, <2>2
<1>7. ASSUME NEW p \in Paths, NEW q \in Paths, dir'[p].pages, dir'[q].pages PROVE p = q
  BY <1>7, <1>2, <1>3, <1>4 DEF PagesInOnePlace
<1>8. ASSUME NEW p \in Paths, dir'[p].pages PROVE dir'[p].there  BY <1>8, <1>3, <1>4 DEF PagesInOnePlace
<1> QED BY <1>1, <1>6, <1>7, <1>8 DEF PagesInOnePlace

----
(* A step that leaves the rows alone keeps what the journal says. *)
LEMMA RowsKept ==
  ASSUME TypeOK, RecordMatchesRows, UNCHANGED rows
  PROVE  /\ RecordMatchesRows'
         /\ rec' \in [Records -> RecordStates]
         /\ job' \in {"Completed", "Quarantined", "Failed"}
         /\ art' \in [state : {"complete", "quarantined", "missing_artifacts"}, rev : Nat]
BY DEF TypeOK, RecordMatchesRows, rows

(* A step that leaves the disk alone keeps the pages where they are. *)
LEMMA DirKept ==
  ASSUME TypeOK, PagesInOnePlace, UNCHANGED dir
  PROVE  PagesInOnePlace' /\ dir' \in [Paths -> DirTypes]  BY DEF TypeOK, PagesInOnePlace

(* The four transactions and the mark.  pipeline_quarantine_begin: a new
   record when no other is active. *)
LEMMA QuarantineBeginRows ==
  ASSUME TypeOK, RecordMatchesRows, NEW p \in Procs, PipelineQuarantineBegin(p)
  PROVE  /\ RecordMatchesRows'
         /\ rec' \in [Records -> RecordStates]
         /\ UNCHANGED <<job, art>>
<1>1. CASE UNCHANGED rec  BY <1>1 DEF TypeOK, RecordMatchesRows, PipelineQuarantineBegin
<1>2. CASE \E r \in Records : /\ rec' = [rec EXCEPT ![r] = "pending_quarantine"]
                              /\ \A s \in Records : rec[s] \notin Active
                              /\ job = "Completed"
  <2>1. PICK r \in Records : /\ rec' = [rec EXCEPT ![r] = "pending_quarantine"]
                             /\ \A s \in Records : rec[s] \notin Active
                             /\ job = "Completed"  BY <1>2
  <2>2. \A s \in Records : rec'[s] = IF s = r THEN "pending_quarantine" ELSE rec[s]  BY <2>1 DEF TypeOK
  <2>3. \A s \in Records : rec'[s] \in Active => s = r  BY <2>1, <2>2
  <2>4. \A s \in Records : rec'[s] \notin {"quarantined", "pending_restore"}  BY <2>1, <2>2 DEF Active, Pending
  <2>5. UNCHANGED <<job, art>>  BY DEF PipelineQuarantineBegin
  <2>6. rec' \in [Records -> RecordStates]  BY <2>1 DEF TypeOK, RecordStates
  <2> QED BY <2>1, <2>3, <2>4, <2>5, <2>6 DEF RecordMatchesRows
<1> QED BY <1>1, <1>2 DEF PipelineQuarantineBegin

(* pipeline_restore_begin: the quarantined record becomes pending. *)
LEMMA RestoreBeginRows ==
  ASSUME TypeOK, RecordMatchesRows, NEW u \in Users, PipelineRestoreBegin(u)
  PROVE  /\ RecordMatchesRows'
         /\ rec' \in [Records -> RecordStates]
         /\ UNCHANGED <<job, art>>
<1>1. PICK r \in Records : /\ rec[r] = "quarantined"
                           /\ rec' = [rec EXCEPT ![r] = "pending_restore"]  BY DEF PipelineRestoreBegin
<1>2. \A s \in Records : rec'[s] = IF s = r THEN "pending_restore" ELSE rec[s]  BY <1>1 DEF TypeOK
<1>3. \A s \in Records : rec'[s] \in Active => s = r  BY <1>1, <1>2 DEF RecordMatchesRows, Active, Pending
<1>4. rec' \in [Records -> RecordStates]  BY <1>1 DEF TypeOK, RecordStates
<1>5. UNCHANGED <<job, art>> /\ job = "Quarantined"  BY DEF PipelineRestoreBegin
<1> QED BY <1>2, <1>3, <1>4, <1>5 DEF RecordMatchesRows

(* pipeline_quarantine_complete: record, entry and artifact together. *)
LEMMA QuarantineCompleteRows ==
  ASSUME TypeOK, RecordMatchesRows, NEW p \in Procs, PipelineQuarantineComplete(p)
  PROVE  /\ RecordMatchesRows'
         /\ rec' \in [Records -> RecordStates]
         /\ job' \in {"Completed", "Quarantined", "Failed"}
         /\ art' \in [state : {"complete", "quarantined", "missing_artifacts"}, rev : Nat]
<1> DEFINE r == proc[p].rec
<1>1. CASE UNCHANGED rows  BY <1>1, RowsKept
<1>2. CASE /\ rec[r] = "pending_quarantine" /\ rec' = [rec EXCEPT ![r] = "quarantined"]
           /\ job' = "Quarantined" /\ art' = [state |-> "quarantined", rev |-> art.rev + 1]
  <2>1. r \in Records  BY DEF TypeOK, HasRecord, PipelineQuarantineComplete, At
  <2> HIDE DEF r
  <2>2. \A s \in Records : rec'[s] = IF s = r THEN "quarantined" ELSE rec[s]  BY <1>2, <2>1 DEF TypeOK
  <2>3. \A s \in Records : rec'[s] \in Active => s = r  BY <1>2, <2>1, <2>2 DEF RecordMatchesRows, Active, Pending
  <2>4. rec' \in [Records -> RecordStates]  BY <1>2, <2>1 DEF TypeOK, RecordStates
  <2>5. /\ job' = "Quarantined" /\ art'.state = "quarantined"
        /\ art' \in [state : {"complete", "quarantined", "missing_artifacts"}, rev : Nat]  BY <1>2 DEF TypeOK
  <2> QED BY <2>1, <2>2, <2>3, <2>4, <2>5 DEF RecordMatchesRows
<1> QED BY <1>1, <1>2 DEF PipelineQuarantineComplete

(* pipeline_restore_complete: record, entry and artifact together. *)
LEMMA RestoreCompleteRows ==
  ASSUME TypeOK, RecordMatchesRows, NEW p \in Procs, PipelineRestoreComplete(p)
  PROVE  /\ RecordMatchesRows'
         /\ rec' \in [Records -> RecordStates]
         /\ job' \in {"Completed", "Quarantined", "Failed"}
         /\ art' \in [state : {"complete", "quarantined", "missing_artifacts"}, rev : Nat]
<1> DEFINE r == proc[p].rec
<1>1. CASE UNCHANGED rows  BY <1>1, RowsKept
<1>2. CASE /\ rec[r] = "pending_restore" /\ rec' = [rec EXCEPT ![r] = "restored"]
           /\ job' = "Completed" /\ art' = [state |-> "complete", rev |-> art.rev + 1]
  <2>1. r \in Records  BY DEF TypeOK, HasRecord, PipelineRestoreComplete, At
  <2> HIDE DEF r
  <2>2. \A s \in Records : rec'[s] = IF s = r THEN "restored" ELSE rec[s]  BY <1>2, <2>1 DEF TypeOK
  <2>3. \A s \in Records : rec'[s] \notin Active  BY <1>2, <2>1, <2>2 DEF RecordMatchesRows, Active, Pending
  <2>4. rec' \in [Records -> RecordStates]  BY <1>2, <2>1 DEF TypeOK, RecordStates
  <2>5. /\ job' = "Completed" /\ art'.state = "complete"
        /\ art' \in [state : {"complete", "quarantined", "missing_artifacts"}, rev : Nat]  BY <1>2 DEF TypeOK
  <2> QED BY <2>3, <2>4, <2>5 DEF RecordMatchesRows, Active, Pending
<1> QED BY <1>1, <1>2 DEF PipelineRestoreComplete

(* pipeline_mark_artifact_issue: never an artifact in quarantine. *)
LEMMA MarkRows ==
  ASSUME TypeOK, RecordMatchesRows, NEW p \in Procs, MarkArtifactIssue(p)
  PROVE  /\ RecordMatchesRows'
         /\ job' \in {"Completed", "Quarantined", "Failed"}
         /\ art' \in [state : {"complete", "quarantined", "missing_artifacts"}, rev : Nat]
<1>1. rec' = rec  BY DEF MarkArtifactIssue
<1>2. CASE UNCHANGED <<art, job>>  BY <1>1, <1>2 DEF TypeOK, RecordMatchesRows
<1>3. CASE /\ art = proc[p].snap
           /\ art' = IF art.state = "missing_artifacts" THEN art
                     ELSE [state |-> "missing_artifacts", rev |-> art.rev + 1]
           /\ job' = IF job = "Completed" THEN "Failed" ELSE job
  <2>1. art.state # "quarantined"  BY <1>3 DEF TypeOK, ProcTypes
  <2>2. job # "Quarantined" /\ job' # "Quarantined"  BY <1>3, <2>1 DEF RecordMatchesRows
  <2>3. art'.state = "missing_artifacts"  BY <1>3
  <2>4. art' \in [state : {"complete", "quarantined", "missing_artifacts"}, rev : Nat]  BY <1>3 DEF TypeOK
  <2>5. job' \in {"Completed", "Quarantined", "Failed"}  BY <1>3 DEF TypeOK
  <2> QED BY <1>1, <2>2, <2>3, <2>4, <2>5 DEF RecordMatchesRows
<1> QED BY <1>2, <1>3 DEF MarkArtifactIssue

----
(* The threads' bookkeeping, by kind of step. *)
ThreadsOK ==
  /\ proc \in [Procs -> ProcTypes]
  /\ \A p \in Procs : HasRecord(p)
  /\ ready \in BOOLEAN

(* The steps that count nothing keep the bounds. *)
LEMMA BoundsKept ==
  ASSUME TypeOK, UNCHANGED bounds
  PROVE  crashes' \in 0 .. MaxCrash /\ faults' \in 0 .. MaxFault  BY DEF TypeOK, bounds

(* One thread gets new local values; the others keep theirs. *)
LEMMA OneThread ==
  ASSUME TypeOK, NEW p \in Procs, NEW v \in ProcTypes,
         v.pc \in {"read", "move", "manifest", "complete", "original", "quarantine", "bundle"}
           => v.rec \in Records,
         proc' = [proc EXCEPT ![p] = v], ready' \in BOOLEAN
  PROVE  ThreadsOK'
<1>1. proc' \in [Procs -> ProcTypes]  BY DEF TypeOK
<1>2. ASSUME NEW q \in Procs PROVE HasRecord(q)'
  <2>1. CASE q # p  BY <2>1 DEF TypeOK, HasRecord
  <2>2. CASE q = p  BY <2>2 DEF TypeOK, HasRecord
  <2> QED BY <2>1, <2>2
<1> QED BY <1>1, <1>2 DEF ThreadsOK

(* What a command starts. *)
LEMMA CommandThreads ==
  ASSUME TypeOK, NEW u \in Users, Command(u)
  PROVE  ThreadsOK'
<1> u \in Procs  BY DEF Procs
<1>1. CASE Quarantine(u)  BY <1>1, BeginType DEF Quarantine, ThreadsOK
<1>2. CASE PipelineRestoreBegin(u)
  <2>1. PICK r \in Records : proc' = [proc EXCEPT ![u] =
           [Idle EXCEPT !.op = "restore", !.pc = "read", !.way = "back", !.rec = r]]
    BY <1>2 DEF PipelineRestoreBegin
  <2> DEFINE v == [Idle EXCEPT !.op = "restore", !.pc = "read", !.way = "back", !.rec = r]
  <2>2. v \in ProcTypes /\ v.rec \in Records  BY DEF Idle, ProcTypes
  <2>3. ready' \in BOOLEAN  BY <1>2 DEF PipelineRestoreBegin, TypeOK
  <2>4. proc' = [proc EXCEPT ![u] = v]  BY <2>1
  <2> HIDE DEF v
  <2> QED BY <2>2, <2>3, <2>4, OneThread
<1>3. CASE Reconcile(u)  BY <1>3, BeginType DEF Reconcile, ThreadsOK
<1>4. CASE Open(u)  BY <1>4, BeginType DEF Open, ThreadsOK
<1> QED BY <1>1, <1>2, <1>3, <1>4 DEF Command

(* What a step does to its thread. *)
LEMMA StepThreads ==
  ASSUME TypeOK, NEW p \in Procs, Step(p)
  PROVE  ThreadsOK'
<1>0. proc[p] \in ProcTypes  BY DEF TypeOK
<1>1. CASE Leave(p)  BY <1>1, LeaveType DEF ThreadsOK
<1>2. CASE \E l \in {"begin", "move", "manifest", "complete", "bundle", "read"} :
             Goto(p, l) /\ (l # "begin" => proc[p].rec \in Records)  BY <1>2, GotoType DEF ThreadsOK
<1>3. CASE CheckManifest(p)  BY <1>1, <1>2, <1>3 DEF CheckManifest
<1>4. CASE PipelineQuarantineBegin(p)
  <2>1. CASE \E r \in Records : /\ proc' = [proc EXCEPT ![p].pc = "move", ![p].rec = r]
                                /\ UNCHANGED ready
    <3>1. PICK r \in Records : proc' = [proc EXCEPT ![p].pc = "move", ![p].rec = r]  BY <2>1
    <3> DEFINE v == [proc[p] EXCEPT !.pc = "move", !.rec = r]
    <3>2. v \in ProcTypes /\ v.rec \in Records  BY <1>0 DEF ProcTypes
    <3>3. proc' = [proc EXCEPT ![p] = v] /\ ready' \in BOOLEAN  BY <2>1, <3>1 DEF TypeOK
    <3> HIDE DEF v
    <3> QED BY <3>2, <3>3, OneThread
  <2> QED BY <1>1, <1>4, <2>1 DEF PipelineQuarantineBegin
<1>5. CASE ReadManifest(p)
  <2>1. proc[p].rec \in Records  BY <1>5 DEF ReadManifest, At, TypeOK, HasRecord
  <2> QED BY <1>1, <1>2, <1>5, <2>1 DEF ReadManifest
<1>6. CASE MoveDirectory(p)
  <2>1. proc[p].rec \in Records  BY <1>6 DEF MoveDirectory, At, TypeOK, HasRecord
  <2> QED BY <1>1, <1>2, <1>6, <2>1 DEF MoveDirectory, AfterMove
<1>7. CASE WriteManifest(p)
  <2>1. proc[p].rec \in Records  BY <1>7 DEF WriteManifest, At, TypeOK, HasRecord
  <2> QED BY <1>1, <1>2, <1>7, <2>1 DEF WriteManifest, AfterManifest
<1>8. CASE PipelineQuarantineComplete(p) \/ PipelineRestoreComplete(p) \/ FirstVerifiedPage(p)
  BY <1>1, <1>8 DEF PipelineQuarantineComplete, PipelineRestoreComplete, FirstVerifiedPage
<1>9. CASE PendingSagas(p)
  <2>1. CASE \E r \in Records :
          /\ proc' = [proc EXCEPT ![p].pc = "original", ![p].rec = r,
                        ![p].way = IF rec[r] = "pending_quarantine" THEN "out" ELSE "back"]
          /\ UNCHANGED ready
    <3>1. PICK r \in Records :
            proc' = [proc EXCEPT ![p].pc = "original", ![p].rec = r,
                        ![p].way = IF rec[r] = "pending_quarantine" THEN "out" ELSE "back"]  BY <2>1
    <3> DEFINE v == [proc[p] EXCEPT !.pc = "original", !.rec = r,
                        !.way = IF rec[r] = "pending_quarantine" THEN "out" ELSE "back"]
    <3>2. v \in ProcTypes /\ v.rec \in Records  BY <1>0 DEF ProcTypes
    <3>3. proc' = [proc EXCEPT ![p] = v] /\ ready' \in BOOLEAN  BY <2>1, <3>1 DEF TypeOK
    <3> HIDE DEF v
    <3> QED BY <3>2, <3>3, OneThread
  <2> QED BY <1>1, <1>9, <2>1 DEF PendingSagas
<1>10. CASE OriginalExists(p)
  <2> DEFINE v == [proc[p] EXCEPT !.pc = "quarantine", !.orig = dir[Original].there]
  <2>1. dir[Original].there \in BOOLEAN  BY DEF TypeOK, DirTypes, Paths
  <2>2. proc[p].rec \in Records  BY <1>10 DEF OriginalExists, At, TypeOK, HasRecord
  <2>3. v \in ProcTypes /\ v.rec \in Records  BY <1>0, <2>1, <2>2 DEF ProcTypes
  <2>4. proc' = [proc EXCEPT ![p] = v] /\ ready' \in BOOLEAN  BY <1>10 DEF TypeOK, OriginalExists
  <2> HIDE DEF v
  <2> QED BY <2>3, <2>4, OneThread
<1>11. CASE QuarantineExists(p)
  <2>1. proc[p].rec \in Records  BY <1>11 DEF QuarantineExists, At, TypeOK, HasRecord
  <2> QED BY <1>1, <1>2, <1>11, <2>1 DEF QuarantineExists
<1>12. CASE ArtifactBundle(p)
  <2>1. proc[p].rec \in Records  BY <1>12 DEF ArtifactBundle, At, TypeOK, HasRecord
  <2> QED BY <1>1, <1>2, <1>12, <2>1 DEF ArtifactBundle
<1>13. CASE ArtifactBundles(p)
  <2> DEFINE v == IF art.state = "quarantined" THEN Idle
                  ELSE [Idle EXCEPT !.op = "inspect", !.pc = "pages", !.snap = art]
  <2>1. v \in ProcTypes /\ v.pc \in {"idle", "pages"}  BY DEF TypeOK, ProcTypes, Idle
  <2>2. proc' = [proc EXCEPT ![p] = v] /\ ready' \in BOOLEAN  BY <1>13 DEF TypeOK, ArtifactBundles
  <2> HIDE DEF v
  <2> QED BY <2>1, <2>2, OneThread
<1>14. CASE InspectPages(p)
  <2> DEFINE v == [proc[p] EXCEPT !.issue = ~dir[Original].pages,
                     !.pc = IF proc[p].snap.state = "complete" THEN "inspect" ELSE "mark"]
  <2>1. v \in ProcTypes /\ v.pc \in {"inspect", "mark"}  BY <1>0 DEF ProcTypes
  <2>2. proc' = [proc EXCEPT ![p] = v] /\ ready' \in BOOLEAN  BY <1>14 DEF TypeOK, InspectPages
  <2> HIDE DEF v
  <2> QED BY <2>1, <2>2, OneThread
<1>15. CASE InspectManifest(p)
  <2> DEFINE v == [proc[p] EXCEPT !.pc = "mark",
                     !.issue = @ \/ dir[Original].manifest # "original"]
  <2>1. v \in ProcTypes /\ v.pc = "mark"  BY <1>0 DEF ProcTypes
  <2>2. proc' = [proc EXCEPT ![p] = v] /\ ready' \in BOOLEAN  BY <1>15 DEF TypeOK, InspectManifest
  <2> HIDE DEF v
  <2> QED BY <2>1, <2>2, OneThread
<1>16. CASE MarkArtifactIssue(p)
  <2>1. Idle.pc = "idle"  BY DEF Idle
  <2>2. proc' = [proc EXCEPT ![p] = Idle] /\ ready' \in BOOLEAN  BY <1>16 DEF TypeOK, MarkArtifactIssue
  <2> QED BY <2>1, <2>2, IdleType, OneThread
<1> QED BY <1>3, <1>4, <1>5, <1>6, <1>7, <1>8, <1>9, <1>10, <1>11, <1>12, <1>13, <1>14, <1>15,
           <1>16 DEF Step

----
(* The invariant. *)
LEMMA Initially == Init => IInv
<1> SUFFICES ASSUME Init PROVE IInv  OBVIOUS
<1>1. dir \in [Paths -> DirTypes]  BY DEF Init, Whole, Gone, DirTypes
<1>2. proc \in [Procs -> ProcTypes] /\ \A p \in Procs : HasRecord(p)  BY IdleType DEF Init, HasRecord, Idle
<1>3. TypeOK  BY <1>1, <1>2, BoundAssumption DEF Init, TypeOK, RecordStates
<1>4. RecordMatchesRows  BY DEF Init, RecordMatchesRows, Active, Pending
<1>5. PagesInOnePlace
  <2>1. Original \in Paths  BY DEF Paths
  <2>2. \A p \in Paths : dir[p] = IF p = Original THEN Whole ELSE Gone  BY DEF Init
  <2> QED BY <2>1, <2>2 DEF PagesInOnePlace, Whole, Gone
<1> QED BY <1>3, <1>4, <1>5 DEF IInv

(* The parts of the invariant a step has to keep. *)
RowsOK ==
  /\ RecordMatchesRows
  /\ rec \in [Records -> RecordStates]
  /\ job \in {"Completed", "Quarantined", "Failed"}
  /\ art \in [state : {"complete", "quarantined", "missing_artifacts"}, rev : Nat]

DiskOK == PagesInOnePlace /\ dir \in [Paths -> DirTypes]

BoundsOK == crashes \in 0 .. MaxCrash /\ faults \in 0 .. MaxFault

(* Together they are the invariant. *)
LEMMA Parts == RowsOK' /\ DiskOK' /\ ThreadsOK' /\ BoundsOK' => IInv'
BY DEF IInv, TypeOK, RowsOK, DiskOK, ThreadsOK, BoundsOK

(* A step of a thread keeps the rows and the journal in agreement. *)
LEMMA StepRows ==
  ASSUME IInv, NEW p \in Procs, Step(p)
  PROVE  RowsOK'
<1>1. CASE UNCHANGED rows  BY <1>1, RowsKept DEF IInv, RowsOK
<1>2. CASE PipelineQuarantineBegin(p)  BY <1>2, QuarantineBeginRows DEF IInv, RowsOK, TypeOK
<1>3. CASE PipelineQuarantineComplete(p)  BY <1>3, QuarantineCompleteRows DEF IInv, RowsOK
<1>4. CASE PipelineRestoreComplete(p)  BY <1>4, RestoreCompleteRows DEF IInv, RowsOK
<1>5. CASE MarkArtifactIssue(p)
  <2>1. rec' = rec  BY <1>5 DEF MarkArtifactIssue
  <2> QED BY <1>5, <2>1, MarkRows DEF IInv, RowsOK, TypeOK
<1> QED BY <1>1, <1>2, <1>3, <1>4, <1>5
        DEF Step, CheckManifest, ReadManifest, MoveDirectory, WriteManifest, PendingSagas,
            OriginalExists, QuarantineExists, ArtifactBundle, ArtifactBundles, InspectPages,
            InspectManifest, FirstVerifiedPage

(* A step of a thread keeps the pages in one place. *)
LEMMA StepDisk ==
  ASSUME IInv, NEW p \in Procs, Step(p)
  PROVE  DiskOK'
<1>1. CASE UNCHANGED dir  BY <1>1, DirKept DEF IInv, DiskOK
<1>2. CASE dir' = Touch(Original)  BY <1>2, TouchKeeps DEF IInv, DiskOK, TypeOK, Paths
<1>3. CASE ReadManifest(p)
  <2>1. proc[p].rec \in Paths  BY <1>3 DEF ReadManifest, At, IInv, TypeOK, HasRecord, Paths
  <2>2. dir' = Touch(proc[p].rec)  BY <1>3 DEF ReadManifest
  <2> QED BY <2>1, <2>2, TouchKeeps DEF IInv, DiskOK, TypeOK
<1>4. CASE WriteManifest(p)
  <2> DEFINE m == IF proc[p].way = "out" THEN "quarantined" ELSE "original"
  <2>1. proc[p].rec \in Paths  BY <1>4 DEF WriteManifest, At, IInv, TypeOK, HasRecord, Paths
  <2>2. dir' = [dir EXCEPT ![proc[p].rec].there = TRUE, ![proc[p].rec].manifest = m]  BY <1>4 DEF WriteManifest
  <2>3. m \in {"none", "original", "quarantined"}  OBVIOUS
  <2> HIDE DEF m
  <2> QED BY <2>1, <2>2, <2>3, PagesUntouched DEF IInv, DiskOK, TypeOK
<1>5. CASE MoveDirectory(p)
  <2>1. proc[p].rec \in Records  BY <1>5 DEF MoveDirectory, At, IInv, TypeOK, HasRecord
  <2>2. Source(p) \in Paths /\ Target(p) \in Paths /\ Source(p) # Target(p)
    BY <2>1, PathAssumption DEF Source, Target, Paths
  <2>3. CASE /\ dir[Source(p)].there /\ ~dir[Target(p)].there
             /\ dir' = [dir EXCEPT ![Target(p)] = dir[Source(p)], ![Source(p)] = Gone]
    BY <2>2, <2>3, MoveKeeps DEF IInv, DiskOK, TypeOK
  <2> QED BY <1>1, <1>5, <2>3 DEF MoveDirectory
<1> QED BY <1>1, <1>2, <1>3, <1>4, <1>5
        DEF Step, CheckManifest, PipelineQuarantineBegin, PipelineQuarantineComplete,
            PipelineRestoreComplete, PendingSagas, OriginalExists, QuarantineExists,
            ArtifactBundle, ArtifactBundles, InspectPages, InspectManifest, MarkArtifactIssue,
            FirstVerifiedPage

(* Only faults and crashes are counted. *)
LEMMA StepBounds ==
  ASSUME NEW p \in Procs, Step(p)
  PROVE  UNCHANGED bounds
BY DEF Step, CheckManifest, PipelineQuarantineBegin, ReadManifest, MoveDirectory, WriteManifest,
       PipelineQuarantineComplete, PipelineRestoreComplete, PendingSagas, OriginalExists,
       QuarantineExists, ArtifactBundle, ArtifactBundles, InspectPages, InspectManifest,
       MarkArtifactIssue, FirstVerifiedPage

(* Every step keeps the invariant. *)
LEMMA Inductive == IInv /\ [Next]_vars => IInv'
<1> SUFFICES ASSUME IInv, [Next]_vars PROVE IInv'  OBVIOUS
<1>0. TypeOK  BY DEF IInv
<1>1. ASSUME NEW u \in Users, Command(u) PROVE IInv'
  <2>1. ThreadsOK'  BY <1>0, <1>1, CommandThreads
  <2>2. RowsOK'
    <3>1. CASE UNCHANGED rows  BY <3>1, RowsKept DEF IInv, RowsOK
    <3>2. CASE PipelineRestoreBegin(u)  BY <3>2, RestoreBeginRows DEF IInv, RowsOK, TypeOK
    <3> QED BY <1>1, <3>1, <3>2 DEF Command, Quarantine, Reconcile, Open
  <2>3. DiskOK' /\ UNCHANGED bounds
    BY <1>1, DirKept DEF IInv, DiskOK, Command, Quarantine, PipelineRestoreBegin, Reconcile, Open
  <2> QED BY <1>0, <2>1, <2>2, <2>3, BoundsKept, Parts DEF BoundsOK
<1>2. ASSUME NEW p \in Procs, Step(p) PROVE IInv'
  BY <1>0, <1>2, StepThreads, StepRows, StepDisk, StepBounds, BoundsKept, Parts DEF BoundsOK
<1>3. ASSUME NEW p \in Procs, Fault(p) PROVE IInv'
  <2>1. ThreadsOK'  BY <1>0, <1>3, LeaveType DEF Fault, ThreadsOK
  <2>2. RowsOK'  BY <1>3, RowsKept DEF IInv, RowsOK, Fault
  <2>3. DiskOK'  BY <1>3, DirKept DEF IInv, DiskOK, Fault
  <2>4. BoundsOK'  BY <1>0, <1>3, BoundAssumption DEF TypeOK, Fault, BoundsOK
  <2> QED BY <2>1, <2>2, <2>3, <2>4, Parts
<1>4. ASSUME Crash PROVE IInv'
  <2>1. ThreadsOK'
    <3>1. [Idle EXCEPT !.op = "repair", !.pc = "list"] \in ProcTypes  BY DEF Idle, ProcTypes
    <3>2. proc' \in [Procs -> ProcTypes] /\ ready' \in BOOLEAN  BY <1>4, <3>1, IdleType DEF Crash
    <3>3. ASSUME NEW q \in Procs PROVE HasRecord(q)'  BY <1>4 DEF Crash, HasRecord, Idle
    <3> QED BY <3>2, <3>3 DEF ThreadsOK
  <2>2. RowsOK'  BY <1>4, RowsKept DEF IInv, RowsOK, Crash
  <2>3. DiskOK'  BY <1>4, DirKept DEF IInv, DiskOK, Crash
  <2>4. BoundsOK'  BY <1>0, <1>4, BoundAssumption DEF TypeOK, Crash, BoundsOK
  <2> QED BY <2>1, <2>2, <2>3, <2>4, Parts
<1>5. CASE UNCHANGED vars  BY <1>5 DEF IInv, TypeOK, RecordMatchesRows, PagesInOnePlace, HasRecord, vars
<1> QED BY <1>1, <1>2, <1>3, <1>4, <1>5 DEF Next

(* The invariant holds throughout: its parts are the theorems below. *)
THEOREM Invariance == Spec => []IInv  BY Initially, Inductive, PTL DEF Spec

(* Every variable keeps its type, and a step that works on a record has one
   (quarantine_entries, restore_entries, reconcile_quarantine_saga). *)
THEOREM TypeCorrect == Spec => []TypeOK  BY Invariance, PTL DEF IInv

(* However commands and recoveries overlap, the entry is quarantined
   exactly while its one active record says so: the guards of the four
   transactions suffice, for any number of threads. *)
THEOREM JournalAgrees == Spec => []RecordMatchesRows  BY Invariance, PTL DEF IInv

(* No overlap of moves, crash or failure loses or doubles the pages
   (move_managed_directory refuses a target that exists). *)
THEOREM PagesKept == Spec => []PagesInOnePlace  BY Invariance, PTL DEF IInv

----
(* A crash at any point, with one thread at the commands and a disk and a
   database that do not refuse.  Then only the thread that works moves
   anything, and the invariant follows it from step to step.  A second
   thread, or a step that failed, leaves a pending record beside commands
   that look for the artifact, and looking makes the directory again: there
   Recoverable does not hold. *)
Undisturbed == (\A u, v \in Users : u = v) /\ MaxFault = 0

SagaPcs == {"read", "move", "manifest", "complete", "original", "quarantine", "bundle"}

(* What every state has, also in the middle of a move: a pending record has
   its pages on one side, a quarantined one has them in the quarantine. *)
Settled ==
  /\ art.state # "missing_artifacts" /\ job # "Failed"
  /\ \A r \in Records :
       /\ rec[r] \in Pending => OneSide(r) /\ (dir[Original].pages => dir[Original] = Whole)
       /\ rec[r] = "quarantined" => /\ dir[r].pages /\ dir[r].manifest # "none"
                                    /\ ~dir[Original].there
       /\ rec[r] = "unused" => dir[r] = Gone
  /\ (\A r \in Records : rec[r] \notin Active) => dir[Original] = Whole

NothingPending == \A r \in Records : rec[r] \notin Pending

(* The startup recovers alone, and the commands after it start from a
   journal without a pending record. *)
Alone ==
  /\ ready <=> At(Startup, "idle")
  /\ ~ready => /\ proc[Startup].op = "repair" /\ proc[Startup].pc \in {"list"} \cup SagaPcs
               /\ \A u \in Users : At(u, "idle")
  /\ ready /\ (\A u \in Users : proc[u].pc \notin SagaPcs) => NothingPending

(* What the thread p knows where it is. *)
Progress(p) ==
  /\ proc[p].pc \in SagaPcs
       => rec[proc[p].rec] = IF proc[p].way = "out" THEN "pending_quarantine" ELSE "pending_restore"
  /\ At(p, "read") => proc[p].way = "back"
  /\ proc[p].pc \in {"check", "begin", "bundle"} => proc[p].way = "out"
  /\ proc[p].pc \in {"read", "manifest", "bundle"} => dir[proc[p].rec].pages
  /\ At(p, "move") => dir[Source(p)] = Whole
  /\ At(p, "complete")
       => IF proc[p].way = "out" THEN dir[proc[p].rec].pages ELSE dir[Original] = Whole
  /\ At(p, "quarantine") => proc[p].orig = dir[Original].there
  /\ proc[p].pc \in {"check", "first", "pages", "inspect"} => art.state = "complete"
  /\ proc[p].pc \in {"inspect", "mark"} => ~proc[p].issue

CrashInv == Settled /\ Alone /\ \A p \in Procs : Progress(p)

(* The thread that works, or is about to, is the only one. *)
Acts(p) == (p \in Users /\ ready) \/ (p = Startup /\ ~ready)

(* A thread that is not idle is the only one that works. *)
LEMMA BusyActs ==
  ASSUME Alone, NEW p \in Procs, ~At(p, "idle")
  PROVE  Acts(p)  BY DEF Alone, Acts, Procs

(* Beside it the others are idle. *)
LEMMA OthersIdle ==
  ASSUME Undisturbed, Alone, NEW p \in Procs, Acts(p)
  PROVE  \A q \in Procs : q # p => At(q, "idle")  BY ProcessAssumption DEF Undisturbed, Alone, Acts, Procs

(* The working thread goes on to another step. *)
LEMMA GoesOn ==
  ASSUME TypeOK, CrashInv, Undisturbed, NEW p \in Procs, Acts(p), NEW v,
         proc' = [proc EXCEPT ![p] = v], UNCHANGED ready, Settled', Progress(p)',
         p = Startup => v.op = "repair" /\ v.pc \in {"list"} \cup SagaPcs,
         v.pc \notin {"list"} \cup SagaPcs => NothingPending',
         p \in Users /\ v.pc = "list" => NothingPending'
  PROVE  CrashInv'
<1>1. Alone /\ (p \in Users \/ p = Startup) /\ Startup \in Procs /\ Startup \notin Users
  BY ProcessAssumption DEF CrashInv, Procs
<1>2. \A q \in Procs : q # p => At(q, "idle") /\ proc'[q] = proc[q]  BY <1>1, OthersIdle DEF TypeOK
<1>3. proc'[p] = v  BY DEF TypeOK
<1>4. \A q \in Procs : q # p => At(q, "idle")'  BY <1>2 DEF At
<1>5. \A q \in Procs : Progress(q)'
  <2>1. \A q : At(q, "idle")' => Progress(q)'  BY DEF Progress, At, SagaPcs
  <2> QED BY <1>4, <2>1
<1>6. CASE p = Startup
  <2>1. ~ready /\ ~ready' /\ v.op = "repair" /\ v.pc \in {"list"} \cup SagaPcs  BY <1>6, <1>1 DEF Acts
  <2>2. ~At(Startup, "idle")'  BY <1>3, <1>6, <2>1 DEF At, SagaPcs
  <2>3. \A u \in Users : At(u, "idle")'  BY <1>1, <1>4, <1>6 DEF Procs
  <2> QED BY <1>3, <1>5, <1>6, <2>1, <2>2, <2>3 DEF CrashInv, Alone
<1>7. CASE p \in Users
  <2>1. ready /\ ready' /\ At(Startup, "idle")'  BY <1>1, <1>4, <1>7 DEF Acts
  <2>2. (\A u \in Users : proc'[u].pc \notin SagaPcs) => NothingPending'  BY <1>3, <1>7
  <2> QED BY <1>5, <2>1, <2>2 DEF CrashInv, Alone
<1> QED BY <1>1, <1>6, <1>7

(* The working thread is through, with nothing pending. *)
LEMMA Leaves ==
  ASSUME TypeOK, CrashInv, Undisturbed, NEW p \in Procs, Acts(p), Leave(p), Settled', NothingPending'
  PROVE  CrashInv'
<1>1. Alone /\ (p \in Users \/ p = Startup) /\ Startup \in Procs /\ Startup \notin Users
  BY ProcessAssumption DEF CrashInv, Procs
<1>2. \A q \in Procs : q # p => At(q, "idle") /\ proc'[q] = proc[q]  BY <1>1, OthersIdle DEF TypeOK, Leave
<1>3. proc'[p].pc \in {"idle", "bundles"} /\ (proc[p].op # "reconcile" => proc'[p].pc = "idle")
  BY DEF TypeOK, Leave, Idle
<1>4. ready' = TRUE  BY <1>1 DEF Leave, Acts, TypeOK
<1>5. \A q \in Procs : proc'[q].pc \in {"idle", "bundles"}  BY <1>2, <1>3 DEF At
<1>6. \A q \in Procs : Progress(q)'  BY <1>5 DEF Progress, At, SagaPcs
<1>7. At(Startup, "idle")'  BY <1>1, <1>2, <1>3 DEF Alone, Acts, At
<1> QED BY <1>4, <1>6, <1>7 DEF CrashInv, Alone

(* What is settled is so by the rows and the disk alone. *)
LEMMA SettledKept ==
  ASSUME Settled, UNCHANGED <<rows, dir>>
  PROVE  Settled'  BY DEF Settled, rows, OneSide

(* A complete artifact without a pending record is whole, and looking for
   its files changes nothing. *)
LEMMA CompleteIsWhole ==
  ASSUME IInv, Settled, NothingPending, art.state = "complete"
  PROVE  dir[Original] = Whole /\ Touch(Original) = dir
<1>1. \A r \in Records : rec[r] \notin Active  BY DEF IInv, RecordMatchesRows, NothingPending, Active
<1>2. dir[Original] = Whole  BY <1>1 DEF Settled
<1>3. dir \in [Paths -> DirTypes] /\ Original \in Paths  BY DEF IInv, TypeOK, Paths
<1>4. Whole.there /\ Whole \in DirTypes  BY DEF Whole, DirTypes
<1>5. [Whole EXCEPT !.there = TRUE] = Whole  BY <1>4 DEF DirTypes
<1> QED BY <1>2, <1>3, <1>5 DEF Touch

(* What the thread of a record knows about it and about the others. *)
LEMMA TheRecord ==
  ASSUME IInv, Settled, NEW p \in Procs, Progress(p), proc[p].pc \in SagaPcs
  PROVE  LET r == proc[p].rec IN
         /\ r \in Records /\ r # Original /\ r \in Paths /\ Original \in Paths
         /\ rec[r] \in Pending
         /\ proc[p].way = "out" => rec[r] = "pending_quarantine"
         /\ proc[p].way # "out" => rec[r] = "pending_restore"
         /\ \A s \in Records : rec[s] \in Active => s = r
         /\ OneSide(r)
         /\ dir[Original].pages => dir[Original] = Whole
<1>1. proc[p].rec \in Records /\ rec[proc[p].rec] \in Pending
  BY DEF IInv, TypeOK, HasRecord, Progress, SagaPcs, Pending
<1> QED BY <1>1, PathAssumption DEF IInv, RecordMatchesRows, Progress, Settled, Active, Paths

(* Before a command nothing is pending. *)
LEMMA ReadyMeansNothingPending ==
  ASSUME Undisturbed, Alone, NEW u \in Users, ready, proc[u].pc \notin SagaPcs
  PROVE  NothingPending  BY DEF Undisturbed, Alone

(* A command starts from a settled artifact. *)
LEMMA CommandCrash ==
  ASSUME IInv, CrashInv, Undisturbed, NEW u \in Users, Command(u)
  PROVE  CrashInv'
<1>a. TypeOK /\ Settled /\ Alone /\ u \in Procs  BY DEF IInv, CrashInv, Procs
<1>b. u # Startup  BY ProcessAssumption
<1>1. ready /\ At(u, "idle") /\ Acts(u) /\ NothingPending
  <2>1. ready /\ At(u, "idle")  BY DEF Command, Quarantine, PipelineRestoreBegin, Reconcile, Open, Begin
  <2> QED BY <2>1, <1>a, ReadyMeansNothingPending DEF Acts, At, SagaPcs
<1>2. CASE Quarantine(u) \/ Open(u) \/ Reconcile(u)
  <2>1. UNCHANGED <<rows, dir, ready>>  BY <1>2 DEF Quarantine, Open, Reconcile, Begin
  <2>2. Settled' /\ NothingPending'  BY <1>1, <1>a, <2>1, SettledKept DEF NothingPending, rows
  <2>3. PICK c \in Commands, l \in {"check", "first", "list"} :
          /\ proc' = [proc EXCEPT ![u] = [Idle EXCEPT !.op = c, !.pc = l, !.way = "out"]]
          /\ l # "list" => art.state = "complete"  BY <1>2 DEF Quarantine, Open, Reconcile, Begin
  <2> DEFINE v == [Idle EXCEPT !.op = c, !.pc = l, !.way = "out"]
  <2>4. v.pc = l /\ v.way = "out"  BY DEF Idle
  <2>5. proc' = [proc EXCEPT ![u] = v]  BY <2>3
  <2> HIDE DEF v
  <2>6. proc'[u] = v  BY <2>5, <1>a DEF TypeOK
  <2>7. Progress(u)'  BY <2>1, <2>3, <2>4, <2>6 DEF Progress, At, SagaPcs, rows
  <2> QED BY <1>1, <1>a, <1>b, <2>1, <2>2, <2>5, <2>7, GoesOn
<1>3. CASE PipelineRestoreBegin(u)
  <2>1. PICK r \in Records :
          /\ rec[r] = "quarantined"
          /\ rec' = [rec EXCEPT ![r] = "pending_restore"]
          /\ proc' = [proc EXCEPT ![u] =
               [Idle EXCEPT !.op = "restore", !.pc = "read", !.way = "back", !.rec = r]]
    BY <1>3 DEF PipelineRestoreBegin
  <2>2. UNCHANGED <<job, art, dir, ready>>  BY <1>3 DEF PipelineRestoreBegin
  <2>3. rec'[r] = "pending_restore" /\ \A s \in Records : s # r => rec'[s] = rec[s]  BY <2>1, <1>a DEF TypeOK
  <2>4. /\ dir[r].pages /\ dir[r].manifest # "none" /\ ~dir[Original].there
        /\ ~dir[Original].pages  BY <1>a, <2>1 DEF Settled, IInv, PagesInOnePlace, Paths
  <2>5. OneSide(r)'  BY <2>2, <2>4 DEF OneSide
  <2>6. \A s \in Records : s # r => rec[s] \notin Active  BY <2>1 DEF IInv, RecordMatchesRows, Active
  <2>7. Settled'  BY <1>a, <2>2, <2>3, <2>4, <2>5, <2>6 DEF Settled, Active, Pending
  <2> DEFINE v == [Idle EXCEPT !.op = "restore", !.pc = "read", !.way = "back", !.rec = r]
  <2>8. v.pc = "read" /\ v.way = "back" /\ v.rec = r  BY DEF Idle
  <2>9. proc' = [proc EXCEPT ![u] = v]  BY <2>1
  <2> HIDE DEF v
  <2>10. proc'[u] = v  BY <2>9, <1>a DEF TypeOK
  <2>11. Progress(u)'  BY <2>2, <2>3, <2>4, <2>8, <2>10 DEF Progress, At, SagaPcs
  <2> QED BY <1>1, <1>a, <1>b, <2>2, <2>7, <2>8, <2>9, <2>11, GoesOn DEF SagaPcs
<1> QED BY <1>2, <1>3 DEF Command

----
(* The two directories that matter. *)
LEMMA WholeAndGone ==
  /\ Whole \in DirTypes /\ Whole.there /\ Whole.pages /\ Whole.manifest = "original"
  /\ Gone \in DirTypes /\ ~Gone.there /\ ~Gone.pages  BY DEF Whole, Gone, DirTypes

(* To look into a directory that is there changes nothing. *)
LEMMA TouchNothing ==
  ASSUME TypeOK, NEW x \in Paths, dir[x].there
  PROVE  Touch(x) = dir
<1>1. dir[x] \in DirTypes  BY DEF TypeOK
<1>2. [dir[x] EXCEPT !.there = TRUE] = dir[x]  BY <1>1 DEF DirTypes
<1> QED BY <1>2 DEF TypeOK, Touch

(* Goto changes the step of the thread only. *)
LEMMA GotoFields ==
  ASSUME TypeOK, NEW p \in Procs, NEW l, Goto(p, l)
  PROVE  /\ proc'[p].pc = l
         /\ proc'[p].op = proc[p].op /\ proc'[p].rec = proc[p].rec
         /\ proc'[p].way = proc[p].way /\ proc'[p].orig = proc[p].orig  BY DEF TypeOK, ProcTypes, Goto

(* The thread of a record goes on with it. *)
LEMMA GotoGoesOn ==
  ASSUME TypeOK, CrashInv, Undisturbed, NEW p \in Procs, ~At(p, "idle"), NEW l \in SagaPcs,
         Goto(p, l), Settled', Progress(p)'
  PROVE  CrashInv'
<1> DEFINE v == [proc[p] EXCEPT !.pc = l]
<1>1. v.pc = l /\ v.op = proc[p].op  BY DEF TypeOK, ProcTypes
<1>2. proc' = [proc EXCEPT ![p] = v] /\ UNCHANGED ready  BY DEF Goto
<1> HIDE DEF v
<1>3. Acts(p) /\ Alone  BY BusyActs DEF CrashInv
<1>4. p = Startup => v.op = "repair"  BY <1>1, <1>3, ProcessAssumption DEF Acts, Alone
<1> QED BY <1>1, <1>2, <1>3, <1>4, GoesOn DEF SagaPcs

(* Outside the saga it is the user's thread, and nothing is pending. *)
LEMMA UserWorks ==
  ASSUME CrashInv, Undisturbed, NEW p \in Procs,
         proc[p].pc \notin {"idle", "list"} \cup SagaPcs
  PROVE  p \in Users /\ p # Startup /\ ready /\ NothingPending /\ Acts(p)
<1>1. Alone /\ Acts(p)  BY BusyActs DEF CrashInv, At
<1>2. p \in Users /\ p # Startup /\ ready  BY <1>1, ProcessAssumption DEF Acts, Alone, Procs
<1> QED BY <1>1, <1>2, ReadyMeansNothingPending

(* quarantine_entries up to the record. *)
LEMMA BeginCrash ==
  ASSUME IInv, CrashInv, Undisturbed, NEW p \in Procs,
         CheckManifest(p) \/ PipelineQuarantineBegin(p)
  PROVE  CrashInv'
<1>a. TypeOK /\ Settled /\ Alone /\ Progress(p) /\ proc[p] \in ProcTypes  BY DEF IInv, CrashInv, TypeOK
<1>b. /\ proc[p].pc \in {"check", "begin"} /\ proc[p].way = "out"
      /\ p # Startup /\ NothingPending /\ Acts(p)
  <2>1. proc[p].pc \in {"check", "begin"}  BY DEF CheckManifest, PipelineQuarantineBegin, At
  <2> QED BY <2>1, <1>a, UserWorks DEF SagaPcs, Progress
<1>1. CASE CheckManifest(p)
  <2>1. dir[Original] = Whole /\ Touch(Original) = dir
    BY <1>1, <1>a, <1>b, CompleteIsWhole DEF CheckManifest, At, Progress
  <2>2. Goto(p, "begin") /\ UNCHANGED <<rows, dir>>  BY <1>1, <2>1, WholeAndGone DEF CheckManifest
  <2>3. Settled' /\ NothingPending'  BY <1>a, <1>b, <2>2, SettledKept DEF NothingPending, rows
  <2> DEFINE v == [proc[p] EXCEPT !.pc = "begin"]
  <2>4. v.pc = "begin" /\ v.way = "out"  BY <1>a, <1>b DEF ProcTypes
  <2>5. proc' = [proc EXCEPT ![p] = v] /\ UNCHANGED ready  BY <2>2 DEF Goto
  <2> HIDE DEF v
  <2>6. Progress(p)'  BY <2>4, <2>5, <1>a DEF TypeOK, Progress, At, SagaPcs
  <2> QED BY <1>a, <1>b, <2>3, <2>5, <2>6, GoesOn
<1>2. CASE PipelineQuarantineBegin(p)
  <2>1. CASE Leave(p) /\ UNCHANGED rec
    <3>1. UNCHANGED <<rows, dir>>  BY <1>2, <2>1 DEF PipelineQuarantineBegin, rows
    <3>2. Settled' /\ NothingPending'  BY <1>a, <1>b, <3>1, SettledKept DEF NothingPending, rows
    <3> QED BY <1>a, <1>b, <2>1, <3>2, Leaves
  <2>2. CASE ~(Leave(p) /\ UNCHANGED rec)
    <3>0. UNCHANGED <<job, art, dir, ready>> /\ \A r \in Records : rec[r] \notin Active
      BY <1>2, <2>2 DEF PipelineQuarantineBegin
    <3>1. PICK r \in Records : /\ rec[r] = "unused"
                               /\ rec' = [rec EXCEPT ![r] = "pending_quarantine"]
                               /\ proc' = [proc EXCEPT ![p].pc = "move", ![p].rec = r]
      BY <1>2, <2>2 DEF PipelineQuarantineBegin
    <3>2. rec'[r] = "pending_quarantine" /\ \A s \in Records : s # r => rec'[s] = rec[s]  BY <3>1, <1>a DEF TypeOK
    <3>3. dir[Original] = Whole /\ dir[r] = Gone  BY <1>a, <3>0, <3>1 DEF Settled
    <3>4. OneSide(r)'  BY <3>0, <3>3, WholeAndGone DEF OneSide
    <3>5. Settled'  BY <1>a, <3>0, <3>2, <3>3, <3>4 DEF Settled, Active, Pending
    <3> DEFINE v == [proc[p] EXCEPT !.pc = "move", !.rec = r]
    <3>6. v.pc = "move" /\ v.rec = r /\ v.way = "out"  BY <1>a, <1>b DEF ProcTypes
    <3>7. proc' = [proc EXCEPT ![p] = v]  BY <3>1
    <3> HIDE DEF v
    <3>8. proc'[p] = v  BY <3>7, <1>a DEF TypeOK
    <3>9. Progress(p)'  BY <3>0, <3>2, <3>3, <3>6, <3>8 DEF Progress, At, SagaPcs, Source
    <3> QED BY <1>a, <1>b, <3>0, <3>5, <3>6, <3>7, <3>9, GoesOn DEF SagaPcs
  <2> QED BY <2>1, <2>2
<1> QED BY <1>1, <1>2

(* A directory that is there, with pages, gets a manifest. *)
Written(d, m) == [d EXCEPT !.there = TRUE, !.manifest = m]

(* It keeps the pages, and with the manifest of the original it is whole. *)
LEMMA Rewritten ==
  ASSUME NEW d \in DirTypes, d.pages, d.there, NEW m
  PROVE  /\ Written(d, m).pages /\ Written(d, m).there /\ Written(d, m).manifest = m
         /\ m = "original" => Written(d, m) = Whole
<1> DEFINE e == Written(d, m)
<1>1. [d EXCEPT !.there = TRUE] = d  BY DEF DirTypes
<1>2. e = [d EXCEPT !.manifest = m]  BY <1>1 DEF Written
<1> HIDE DEF e
<1>3. e.pages /\ e.there /\ e.manifest = m  BY <1>2 DEF DirTypes
<1>4. m = "original" => e = Whole  BY <1>2 DEF DirTypes, Whole
<1> QED BY <1>3, <1>4 DEF e

(* The directory is moved and its manifest rewritten. *)
LEMMA MoveCrash ==
  ASSUME IInv, CrashInv, Undisturbed, NEW p \in Procs,
         ReadManifest(p) \/ MoveDirectory(p) \/ WriteManifest(p)
  PROVE  CrashInv'
<1> PICK r : r = proc[p].rec  OBVIOUS
<1>a. TypeOK /\ Settled /\ Alone /\ Progress(p) /\ proc[p] \in ProcTypes /\ PagesInOnePlace
  BY DEF IInv, CrashInv, TypeOK
<1>b. proc[p].pc \in {"read", "move", "manifest"} /\ ~At(p, "idle") /\ proc[p].way \in {"out", "back"}
  BY <1>a DEF ReadManifest, MoveDirectory, WriteManifest, At, ProcTypes
<1>c. /\ r \in Records /\ r # Original /\ r \in Paths /\ Original \in Paths
      /\ rec[r] \in Pending /\ OneSide(r)
      /\ \A s \in Records : rec[s] \in Active => s = r
      /\ dir[Original].pages => dir[Original] = Whole  BY <1>a, <1>b, TheRecord DEF SagaPcs
<1>d. \A x \in Paths : dir[x].pages => dir[x].there  BY <1>a DEF PagesInOnePlace
<1>1. CASE ReadManifest(p)
  <2>1. proc[p].pc = "read" /\ proc[p].way = "back" /\ dir[r].pages  BY <1>1, <1>a DEF ReadManifest, At, Progress
  <2>2. Touch(r) = dir /\ dir[r].manifest # "none"  BY <2>1, <1>a, <1>c, <1>d, TouchNothing DEF OneSide
  <2>3. Goto(p, "manifest") /\ UNCHANGED <<rows, dir>>  BY <1>1, <2>2 DEF ReadManifest
  <2>4. Settled'  BY <1>a, <2>3, SettledKept
  <2>5. Progress(p)'  BY <1>a, <2>1, <2>3, GotoFields DEF Progress, At, SagaPcs, rows
  <2> QED BY <1>a, <1>b, <2>3, <2>4, <2>5, GotoGoesOn DEF SagaPcs
<1>2. CASE MoveDirectory(p)
  <2>0. proc[p].pc = "move" /\ dir[Source(p)] = Whole /\ UNCHANGED rows  BY <1>2, <1>a DEF MoveDirectory, At, Progress
  <2>1. CASE proc[p].way = "out"
    <3>1. Source(p) = Original /\ Target(p) = r  BY <2>1 DEF Source, Target
    <3>2. ~dir[r].there  BY <1>c, <2>0, <3>1, WholeAndGone DEF OneSide
    <3>3. /\ dir' = [dir EXCEPT ![r] = dir[Original], ![Original] = Gone]
          /\ Goto(p, AfterMove(p)) /\ AfterMove(p) \in {"manifest", "bundle"}
      BY <1>2, <2>0, <2>1, <3>1, <3>2, WholeAndGone DEF MoveDirectory, AfterMove
    <3>4. /\ dir'[r] = Whole /\ dir'[Original] = Gone
          /\ \A x \in Paths : x # r /\ x # Original => dir'[x] = dir[x]
      BY <1>a, <1>c, <2>0, <3>1, <3>3 DEF TypeOK
    <3>5. OneSide(r)'  BY <3>4, WholeAndGone DEF OneSide
    <3>6. Settled'
      BY <1>a, <1>c, <2>0, <3>4, <3>5, WholeAndGone, PathAssumption
         DEF Settled, Active, Pending, rows, Paths
    <3>7. Progress(p)'  BY <1>a, <2>0, <2>1, <3>3, <3>4, GotoFields, WholeAndGone DEF Progress, At, SagaPcs, rows
    <3> QED BY <1>a, <1>b, <3>3, <3>6, <3>7, GotoGoesOn DEF SagaPcs
  <2>2. CASE proc[p].way = "back"
    <3>1. Source(p) = r /\ Target(p) = Original  BY <2>2 DEF Source, Target
    <3>2. ~dir[Original].there  BY <1>c, <2>0, <3>1, WholeAndGone DEF OneSide
    <3>3. /\ dir' = [dir EXCEPT ![Original] = dir[r], ![r] = Gone]
          /\ Goto(p, "complete")  BY <1>2, <2>0, <2>2, <3>1, <3>2, WholeAndGone DEF MoveDirectory, AfterMove
    <3>4. /\ dir'[Original] = Whole /\ dir'[r] = Gone
          /\ \A x \in Paths : x # r /\ x # Original => dir'[x] = dir[x]
      BY <1>a, <1>c, <2>0, <3>1, <3>3 DEF TypeOK
    <3>5. OneSide(r)'  BY <3>4, WholeAndGone DEF OneSide
    <3>6. Settled'  BY <1>a, <1>c, <2>0, <3>4, <3>5, PathAssumption DEF Settled, Active, Pending, rows, Paths
    <3>7. Progress(p)'  BY <1>a, <2>0, <2>2, <3>3, <3>4, GotoFields DEF Progress, At, SagaPcs, rows
    <3> QED BY <1>a, <1>b, <3>3, <3>6, <3>7, GotoGoesOn DEF SagaPcs
  <2> QED BY <1>b, <2>1, <2>2
<1>3. CASE WriteManifest(p)
  <2> DEFINE m == IF proc[p].way = "out" THEN "quarantined" ELSE "original"
  <2>0. proc[p].pc = "manifest" /\ dir[r].pages /\ UNCHANGED rows /\ Goto(p, AfterManifest(p))
        /\ dir' = [dir EXCEPT ![r].there = TRUE, ![r].manifest = m]
    BY <1>3, <1>a DEF WriteManifest, At, Progress
  <2>1. ~dir[Original].there /\ dir[r].there /\ ~dir[Original].pages  BY <1>c, <1>d, <2>0 DEF OneSide
  <2>2. /\ \A x \in Paths : x # r => dir'[x] = dir[x]
        /\ dir'[r] = Written(dir[r], m)
        /\ dir[r] \in DirTypes  BY <1>a, <1>c, <2>0 DEF TypeOK, Written
  <2>m. m # "none" /\ (proc[p].way = "back" => m = "original")  OBVIOUS
  <2> HIDE DEF m
  <2>3. /\ dir'[r].pages /\ dir'[r].there /\ dir'[r].manifest = m
        /\ m = "original" => dir'[r] = Whole  BY <2>0, <2>1, <2>2, Rewritten
  <2>4. proc[p].way = "back" => dir'[r] = Whole  BY <2>3, <2>m
  <2>5. dir'[Original] = dir[Original]  BY <1>c, <2>2
  <2>6. OneSide(r)'  BY <2>1, <2>3, <2>5, <2>m DEF OneSide
  <2>7. Settled'  BY <1>a, <1>c, <2>0, <2>1, <2>2, <2>5, <2>6 DEF Settled, Active, Pending, rows, Paths
  <2>8. AfterManifest(p) \in SagaPcs  BY DEF AfterManifest, SagaPcs
  <2>9. Progress(p)'
    <3>1. /\ proc'[p].pc = AfterManifest(p) /\ proc'[p].rec = r /\ proc'[p].way = proc[p].way
          /\ rec'[r] = IF proc[p].way = "out" THEN "pending_quarantine" ELSE "pending_restore"
      BY <1>a, <2>0, GotoFields DEF Progress, SagaPcs, rows
    <3>2. CASE proc[p].way = "out"  BY <2>3, <3>1, <3>2 DEF Progress, At, SagaPcs, AfterManifest
    <3>3. CASE proc[p].way = "back"  BY <2>4, <3>1, <3>3 DEF Progress, At, SagaPcs, AfterManifest, Source
    <3> QED BY <1>b, <3>2, <3>3
  <2> QED BY <1>a, <1>b, <2>0, <2>7, <2>8, <2>9, GotoGoesOn
<1> QED BY <1>1, <1>2, <1>3

(* The record is completed: the rows follow the directory. *)
LEMMA CompleteCrash ==
  ASSUME IInv, CrashInv, Undisturbed, NEW p \in Procs,
         PipelineQuarantineComplete(p) \/ PipelineRestoreComplete(p)
  PROVE  CrashInv'
<1> DEFINE r == proc[p].rec
<1>a. TypeOK /\ Settled /\ Alone /\ Progress(p) /\ RecordMatchesRows /\ PagesInOnePlace  BY DEF IInv, CrashInv
<1>b. proc[p].pc = "complete" /\ Acts(p) /\ UNCHANGED dir /\ Leave(p)
  BY <1>a, BusyActs DEF PipelineQuarantineComplete, PipelineRestoreComplete, At
<1>c. /\ r \in Records /\ r # Original /\ r \in Paths
      /\ rec[r] \in Pending /\ OneSide(r)
      /\ proc[p].way = "out" => rec[r] = "pending_quarantine"
      /\ proc[p].way # "out" => rec[r] = "pending_restore"
      /\ \A s \in Records : rec[s] \in Active => s = r  BY <1>a, <1>b, TheRecord DEF SagaPcs
<1>d. \A x \in Paths : dir[x].pages => dir[x].there  BY <1>a DEF PagesInOnePlace
<1>1. CASE proc[p].way = "out"
  <2>1. job = "Completed" /\ art.state = "complete"
    BY <1>a, <1>c, <1>1 DEF RecordMatchesRows, Settled, TypeOK, Active, Pending
  <2>2. rec' = [rec EXCEPT ![r] = "quarantined"] /\ job' = "Quarantined" /\ art'.state = "quarantined"
    BY <1>c, <1>1, <2>1 DEF PipelineQuarantineComplete, PipelineRestoreComplete
  <2>3. rec'[r] = "quarantined" /\ \A s \in Records : s # r => rec'[s] = rec[s]  BY <1>a, <1>c, <2>2 DEF TypeOK
  <2>4. dir[r].pages /\ dir[r].manifest # "none" /\ ~dir[Original].there
    BY <1>a, <1>b, <1>c, <1>d, <1>1 DEF Progress, At, OneSide
  <2>5. Settled' /\ NothingPending'
    BY <1>a, <1>b, <1>c, <2>2, <2>3, <2>4 DEF Settled, NothingPending, Active, Pending
  <2> QED BY <1>a, <1>b, <2>5, Leaves
<1>2. CASE proc[p].way # "out"
  <2>0. proc[p].way = "back"  BY <1>a, <1>2 DEF TypeOK, ProcTypes
  <2>1. job = "Quarantined" /\ art.state = "quarantined"  BY <1>a, <1>c, <1>2 DEF RecordMatchesRows
  <2>2. rec' = [rec EXCEPT ![r] = "restored"] /\ job' = "Completed" /\ art'.state = "complete"
    BY <1>c, <1>2, <2>0, <2>1 DEF PipelineQuarantineComplete, PipelineRestoreComplete
  <2>3. rec'[r] = "restored" /\ \A s \in Records : s # r => rec'[s] = rec[s]  BY <1>a, <1>c, <2>2 DEF TypeOK
  <2>4. dir[Original] = Whole  BY <1>a, <1>b, <1>2 DEF Progress, At
  <2>5. Settled' /\ NothingPending'
    BY <1>a, <1>b, <1>c, <2>2, <2>3, <2>4 DEF Settled, NothingPending, Active, Pending
  <2> QED BY <1>a, <1>b, <2>5, Leaves
<1> QED BY <1>1, <1>2

(* The recovery looks where the directory is, and takes the record further. *)
LEMMA RecoveryCrash ==
  ASSUME IInv, CrashInv, Undisturbed, NEW p \in Procs,
         PendingSagas(p) \/ OriginalExists(p) \/ QuarantineExists(p) \/ ArtifactBundle(p)
  PROVE  CrashInv'
<1>a. /\ TypeOK /\ Settled /\ Alone /\ Progress(p) /\ RecordMatchesRows /\ PagesInOnePlace
      /\ proc[p] \in ProcTypes  BY DEF IInv, CrashInv, TypeOK
<1>b. /\ proc[p].pc \in {"list", "original", "quarantine", "bundle"}
      /\ UNCHANGED <<rows, dir>>  BY DEF PendingSagas, OriginalExists, QuarantineExists, ArtifactBundle, At
<1>c. ~At(p, "idle") /\ Acts(p) /\ Settled' /\ (p = Startup => proc[p].op = "repair")
  <2>1. ~At(p, "idle")  BY <1>b DEF At
  <2>2. Acts(p)  BY <1>a, <2>1, BusyActs
  <2> QED BY <1>a, <1>b, <2>1, <2>2, SettledKept, ProcessAssumption DEF Alone, Acts
<1>d. \A x \in Paths : dir[x].pages => dir[x].there  BY <1>a DEF PagesInOnePlace
<1>1. CASE PendingSagas(p)
  <2>1. CASE NothingPending /\ Leave(p)
    <3>1. NothingPending'  BY <1>b, <2>1 DEF NothingPending, rows
    <3> QED BY <1>a, <1>c, <2>1, <3>1, Leaves
  <2>2. CASE ~(NothingPending /\ Leave(p))
    <3>1. PICK r \in Records :
            /\ rec[r] \in Pending
            /\ proc' = [proc EXCEPT ![p].pc = "original", ![p].rec = r,
                          ![p].way = IF rec[r] = "pending_quarantine" THEN "out" ELSE "back"]
            /\ UNCHANGED ready  BY <1>1, <2>2 DEF PendingSagas, NothingPending
    <3> DEFINE w == IF rec[r] = "pending_quarantine" THEN "out" ELSE "back"
               v == [proc[p] EXCEPT !.pc = "original", !.rec = r, !.way = w]
    <3>2. v.pc = "original" /\ v.rec = r /\ v.way = w /\ v.op = proc[p].op  BY <1>a DEF ProcTypes
    <3>3. proc' = [proc EXCEPT ![p] = v]  BY <3>1
    <3> HIDE DEF v
    <3>4. proc'[p] = v  BY <3>3, <1>a DEF TypeOK
    <3>5. Progress(p)'  BY <1>b, <3>1, <3>2, <3>4 DEF Progress, At, SagaPcs, rows, Pending
    <3> HIDE DEF w
    <3> QED BY <1>a, <1>c, <3>1, <3>2, <3>3, <3>5, GoesOn DEF SagaPcs
  <2> QED BY <2>1, <2>2
<1>2. CASE OriginalExists(p)
  <2> DEFINE v == [proc[p] EXCEPT !.pc = "quarantine", !.orig = dir[Original].there]
  <2>1. /\ v.pc = "quarantine" /\ v.rec = proc[p].rec /\ v.way = proc[p].way
        /\ v.op = proc[p].op /\ v.orig = dir[Original].there  BY <1>a DEF ProcTypes
  <2>2. proc' = [proc EXCEPT ![p] = v] /\ UNCHANGED ready /\ At(p, "original")  BY <1>2 DEF OriginalExists
  <2> HIDE DEF v
  <2>3. proc'[p] = v  BY <2>2, <1>a DEF TypeOK
  <2>4. Progress(p)'  BY <1>a, <1>b, <2>1, <2>2, <2>3 DEF Progress, At, SagaPcs, rows
  <2> QED BY <1>a, <1>c, <2>1, <2>2, <2>4, GoesOn DEF SagaPcs
<1>3. CASE QuarantineExists(p) \/ ArtifactBundle(p)
  <2> PICK r : r = proc[p].rec  OBVIOUS
  <2>0. proc[p].pc \in {"quarantine", "bundle"} /\ proc[p].way \in {"out", "back"}
    BY <1>3, <1>a DEF QuarantineExists, ArtifactBundle, At, ProcTypes
  <2>1. /\ r \in Records /\ r \in Paths /\ Original \in Paths
        /\ rec[r] \in Pending /\ OneSide(r)
        /\ proc[p].way = "out" => rec[r] = "pending_quarantine"
        /\ proc[p].way # "out" => rec[r] = "pending_restore"
        /\ \A s \in Records : rec[s] \in Active => s = r
        /\ dir[Original].pages => dir[Original] = Whole  BY <1>a, <2>0, TheRecord DEF SagaPcs
  <2>2. CASE QuarantineExists(p)
    <3>1. proc[p].orig = dir[Original].there /\ proc[p].pc = "quarantine"
      BY <2>2, <1>a DEF QuarantineExists, At, Progress
    <3>2. /\ dir[Original].there \in BOOLEAN /\ dir[r].there \in BOOLEAN
          /\ dir[Original].there <=> dir[Original].pages
          /\ ~dir[Original].there <=> dir[r].there
          /\ dir[r].there => dir[r].pages  BY <1>a, <1>d, <2>1 DEF TypeOK, DirTypes, OneSide
    <3>3. CASE proc[p].way = "out" /\ dir[Original].there
      <4>1. Goto(p, "move")  BY <2>2, <3>1, <3>2, <3>3 DEF QuarantineExists
      <4>2. dir'[Original] = Whole  BY <1>b, <2>1, <3>2, <3>3
      <4>3. /\ proc'[p].pc = "move" /\ proc'[p].rec = r /\ proc'[p].way = "out"
            /\ rec'[r] = "pending_quarantine"  BY <1>a, <1>b, <2>1, <3>3, <4>1, GotoFields DEF rows
      <4>4. Progress(p)'  BY <4>2, <4>3 DEF Progress, At, SagaPcs, Source
      <4> QED BY <1>a, <1>c, <4>1, <4>4, GotoGoesOn DEF SagaPcs
    <3>4. CASE proc[p].way = "out" /\ ~dir[Original].there
      <4>1. Goto(p, "bundle")  BY <2>2, <3>1, <3>2, <3>4 DEF QuarantineExists
      <4>2. Progress(p)'  BY <1>a, <1>b, <2>1, <3>2, <3>4, <4>1, GotoFields DEF Progress, At, SagaPcs, rows
      <4> QED BY <1>a, <1>c, <4>1, <4>2, GotoGoesOn DEF SagaPcs
    <3>5. CASE proc[p].way = "back" /\ dir[Original].there
      <4>1. Goto(p, "complete")  BY <2>2, <3>1, <3>2, <3>5 DEF QuarantineExists
      <4>2. dir'[Original] = Whole  BY <1>b, <2>1, <3>2, <3>5
      <4>3. /\ proc'[p].pc = "complete" /\ proc'[p].rec = r /\ proc'[p].way = "back"
            /\ rec'[r] = "pending_restore"  BY <1>a, <1>b, <2>1, <3>5, <4>1, GotoFields DEF rows
      <4>4. Progress(p)'  BY <4>2, <4>3 DEF Progress, At, SagaPcs
      <4> QED BY <1>a, <1>c, <4>1, <4>4, GotoGoesOn DEF SagaPcs
    <3>6. CASE proc[p].way = "back" /\ ~dir[Original].there
      <4>1. Goto(p, "read")  BY <2>2, <3>1, <3>2, <3>6 DEF QuarantineExists
      <4>2. Progress(p)'  BY <1>a, <1>b, <2>1, <3>2, <3>6, <4>1, GotoFields DEF Progress, At, SagaPcs, rows
      <4> QED BY <1>a, <1>c, <4>1, <4>2, GotoGoesOn DEF SagaPcs
    <3> QED BY <2>0, <3>3, <3>4, <3>5, <3>6
  <2>3. CASE ArtifactBundle(p)
    <3>1. proc[p].pc = "bundle" /\ proc[p].way = "out" /\ dir[r].pages  BY <2>3, <1>a DEF ArtifactBundle, At, Progress
    <3>2. art.state = "complete"  BY <1>a, <2>1, <3>1 DEF RecordMatchesRows, Settled, TypeOK, Active, Pending
    <3>3. Goto(p, "manifest")  BY <2>3, <3>2 DEF ArtifactBundle
    <3>4. Progress(p)'  BY <1>a, <1>b, <2>1, <3>1, <3>3, GotoFields DEF Progress, At, SagaPcs, rows
    <3> QED BY <1>a, <1>c, <3>3, <3>4, GotoGoesOn DEF SagaPcs
  <2> QED BY <1>3, <2>2, <2>3
<1> QED BY <1>1, <1>2, <1>3

(* Looking at a whole artifact finds nothing and changes nothing. *)
LEMMA InspectCrash ==
  ASSUME IInv, CrashInv, Undisturbed, NEW p \in Procs,
         \/ ArtifactBundles(p) \/ InspectPages(p) \/ InspectManifest(p)
         \/ MarkArtifactIssue(p) \/ FirstVerifiedPage(p)
  PROVE  CrashInv'
<1>a. TypeOK /\ Settled /\ Progress(p) /\ proc[p] \in ProcTypes  BY DEF IInv, CrashInv, TypeOK
<1>b. proc[p].pc \in {"bundles", "pages", "inspect", "mark", "first"}
  BY DEF ArtifactBundles, InspectPages, InspectManifest, MarkArtifactIssue, FirstVerifiedPage, At
<1>c. p # Startup /\ NothingPending /\ Acts(p)  BY <1>b, UserWorks DEF SagaPcs
<1>d. art.state = "complete" => dir[Original] = Whole /\ Touch(Original) = dir  BY <1>a, <1>c, CompleteIsWhole
<1>e. proc[p].pc \in {"pages", "inspect", "first"} => art.state = "complete"  BY <1>a DEF Progress
<1>1. UNCHANGED <<rows, dir>>
  <2>1. CASE InspectPages(p) \/ InspectManifest(p) \/ FirstVerifiedPage(p)
    BY <1>d, <1>e, <2>1 DEF InspectPages, InspectManifest, FirstVerifiedPage, At
  <2>2. CASE ArtifactBundles(p)  BY <2>2 DEF ArtifactBundles
  <2>3. CASE MarkArtifactIssue(p)  BY <1>a, <2>3 DEF MarkArtifactIssue, Progress, At, rows
  <2> QED BY <2>1, <2>2, <2>3
<1>2. Settled' /\ NothingPending'  BY <1>a, <1>c, <1>1, SettledKept DEF NothingPending, rows
<1>3. CASE FirstVerifiedPage(p)  BY <1>3, <1>a, <1>c, <1>2, Leaves DEF FirstVerifiedPage
<1>4. CASE ~FirstVerifiedPage(p)
  <2>1. \E v : /\ proc' = [proc EXCEPT ![p] = v] /\ UNCHANGED ready
               /\ v.pc \in {"idle", "pages", "inspect", "mark"}
               /\ v.pc \in {"pages", "inspect"} => art.state = "complete"
               /\ v.pc \in {"inspect", "mark"} => ~v.issue
    <3>1. CASE ArtifactBundles(p) /\ art.state = "quarantined"
      <4>1. proc' = [proc EXCEPT ![p] = Idle] /\ UNCHANGED ready  BY <3>1 DEF ArtifactBundles
      <4>2. Idle.pc = "idle"  BY DEF Idle
      <4> QED BY <4>1, <4>2
    <3>2. CASE ArtifactBundles(p) /\ art.state # "quarantined"
      <4> DEFINE v == [Idle EXCEPT !.op = "inspect", !.pc = "pages", !.snap = art]
      <4>1. proc' = [proc EXCEPT ![p] = v] /\ UNCHANGED ready  BY <3>2 DEF ArtifactBundles
      <4>2. art.state = "complete" /\ v.pc = "pages"  BY <1>a, <3>2 DEF TypeOK, Settled, Idle
      <4> HIDE DEF v
      <4> QED BY <4>1, <4>2
    <3>3. CASE InspectPages(p)
      <4> DEFINE l == IF proc[p].snap.state = "complete" THEN "inspect" ELSE "mark"
                 i == ~dir[Original].pages
                 v == [proc[p] EXCEPT !.issue = i, !.pc = l]
      <4>1. proc' = [proc EXCEPT ![p] = v] /\ UNCHANGED ready /\ proc[p].pc = "pages"  BY <3>3 DEF InspectPages, At
      <4>2. ~i /\ art.state = "complete"  BY <1>d, <1>e, <4>1, WholeAndGone
      <4>3. l \in {"inspect", "mark"}  OBVIOUS
      <4> HIDE DEF i, l
      <4>4. v.pc = l /\ v.issue = i  BY <1>a DEF ProcTypes
      <4> HIDE DEF v
      <4> QED BY <4>1, <4>2, <4>3, <4>4
    <3>4. CASE InspectManifest(p)
      <4> DEFINE i == proc[p].issue \/ dir[Original].manifest # "original"
                 v == [proc[p] EXCEPT !.pc = "mark", !.issue = i]
      <4>1. proc' = [proc EXCEPT ![p] = v] /\ UNCHANGED ready /\ proc[p].pc = "inspect"
        BY <3>4, <1>a DEF InspectManifest, At, TypeOK, ProcTypes
      <4>2. ~i  BY <1>a, <1>d, <1>e, <4>1, WholeAndGone DEF Progress
      <4> HIDE DEF i
      <4>3. v.pc = "mark" /\ v.issue = i  BY <1>a DEF ProcTypes
      <4> HIDE DEF v
      <4> QED BY <4>1, <4>2, <4>3
    <3>5. CASE MarkArtifactIssue(p)
      <4>1. proc' = [proc EXCEPT ![p] = Idle] /\ UNCHANGED ready  BY <3>5 DEF MarkArtifactIssue
      <4>2. Idle.pc = "idle"  BY DEF Idle
      <4> QED BY <4>1, <4>2
    <3> QED BY <1>4, <3>1, <3>2, <3>3, <3>4, <3>5
  <2>2. PICK v : /\ proc' = [proc EXCEPT ![p] = v] /\ UNCHANGED ready
                 /\ v.pc \in {"idle", "pages", "inspect", "mark"}
                 /\ v.pc \in {"pages", "inspect"} => art.state = "complete"
                 /\ v.pc \in {"inspect", "mark"} => ~v.issue  BY <2>1
  <2>3. proc'[p] = v  BY <2>2, <1>a DEF TypeOK
  <2>4. Progress(p)'  BY <1>1, <2>2, <2>3 DEF Progress, At, SagaPcs, rows
  <2> QED BY <1>a, <1>c, <1>2, <2>2, <2>4, GoesOn
<1> QED BY <1>3, <1>4

(* After a crash the startup is at the list of the pending records. *)
LEMMA CrashCrash ==
  ASSUME TypeOK, CrashInv, Crash
  PROVE  CrashInv'
<1>1. UNCHANGED <<rows, dir>> /\ ready' = FALSE  BY DEF Crash
<1>2. Settled'  BY <1>1, SettledKept DEF CrashInv
<1>3. /\ proc'[Startup].pc = "list" /\ proc'[Startup].op = "repair"
      /\ \A p \in Procs : p # Startup => proc'[p].pc = "idle"  BY DEF Crash, Procs, Idle
<1>4. Alone'  BY <1>1, <1>3, ProcessAssumption DEF Alone, At, Procs
<1>5. ASSUME NEW p \in Procs PROVE Progress(p)'
  <2>1. proc'[p].pc \in {"list", "idle"}  BY <1>3
  <2> QED BY <2>1 DEF Progress, At, SagaPcs
<1> QED BY <1>2, <1>4, <1>5 DEF CrashInv

(* At first the artifact is whole and nobody works. *)
LEMMA InitCrash == Init => CrashInv
<1> SUFFICES ASSUME Init PROVE CrashInv  OBVIOUS
<1>1. \A p \in Procs : proc[p].pc = "idle"  BY DEF Init, Idle
<1>2. \A p \in Procs : Progress(p)  BY <1>1 DEF Progress, At, SagaPcs
<1>3. Alone  BY <1>1 DEF Init, Alone, At, Procs, NothingPending, Pending
<1>4. Settled  BY PathAssumption DEF Init, Settled, Paths, Active, Pending
<1> QED BY <1>2, <1>3, <1>4 DEF CrashInv

(* Every step keeps the invariant when nothing disturbs the thread at work. *)
LEMMA NextCrash ==
  ASSUME Undisturbed, IInv, CrashInv, [Next]_vars
  PROVE  CrashInv'
<1>1. ASSUME NEW u \in Users, Command(u) PROVE CrashInv'  BY <1>1, CommandCrash
<1>2. ASSUME NEW p \in Procs, Step(p) PROVE CrashInv'
  BY <1>2, BeginCrash, MoveCrash, CompleteCrash, RecoveryCrash, InspectCrash DEF Step
<1>3. ASSUME NEW p \in Procs, Fault(p) PROVE CrashInv'  BY <1>3 DEF Fault, IInv, TypeOK, Undisturbed
<1>4. CASE Crash  BY <1>4, CrashCrash DEF IInv
<1>5. CASE UNCHANGED vars
  <2>1. Settled'  BY <1>5, SettledKept DEF CrashInv, vars, rows
  <2>2. Alone'  BY <1>5 DEF CrashInv, Alone, vars, At, NothingPending
  <2>3. \A p \in Procs : Progress(p)'  BY <1>5 DEF CrashInv, Progress, vars, At, Source
  <2> QED BY <2>1, <2>2, <2>3 DEF CrashInv
<1> QED BY <1>1, <1>2, <1>3, <1>4, <1>5 DEF Next

(* At every moment of a quarantine, a restore or a recovery, and after a
   crash between any two of their steps, the pages of a pending record are
   on exactly one side with the other side free, which is the state that
   reconcile_quarantine_saga takes further and does not call ambiguous. *)
THEOREM EveryStepIsSettled ==
  ASSUME Undisturbed
  PROVE  Spec => []Settled
<1>1. Init => IInv /\ CrashInv  BY Initially, InitCrash
<1>2. IInv /\ CrashInv /\ [Next]_vars => (IInv /\ CrashInv)'  BY Inductive, NextCrash
<1>3. CrashInv => Settled  BY DEF CrashInv
<1> QED BY <1>1, <1>2, <1>3, PTL DEF Spec

(* A settled artifact without a thread at work is one that the commands can
   take further. *)
LEMMA SettledIsRecoverable ==
  ASSUME IInv, CrashInv
  PROVE  Recoverable
<1> SUFFICES ASSUME Quiet PROVE Recoverable  BY DEF Recoverable
<1>1. \A r \in Records : rec[r] \notin Pending  BY DEF CrashInv, Alone, Quiet, At, SagaPcs, Procs, NothingPending
<1> QED BY <1>1 DEF CrashInv, Settled, Recoverable, Pending

(* Once no thread works nothing is pending: a record that a crash left
   behind was completed before the first command after it. *)
THEOREM NothingStaysPending ==
  ASSUME Undisturbed
  PROVE  Spec => [](Quiet => NothingPending)
<1>1. Init => IInv /\ CrashInv  BY Initially, InitCrash
<1>2. IInv /\ CrashInv /\ [Next]_vars => (IInv /\ CrashInv)'  BY Inductive, NextCrash
<1>3. CrashInv => (Quiet => NothingPending)  BY DEF CrashInv, Alone, Quiet, At, SagaPcs, Procs
<1> QED BY <1>1, <1>2, <1>3, PTL DEF Spec

(* Whatever commands a user gives, and wherever crashes stop them, what is
   left behind once the recovery is over can be taken further. *)
THEOREM CrashesAreRecovered ==
  ASSUME Undisturbed
  PROVE  Spec => []Recoverable
<1>1. Init => IInv /\ CrashInv  BY Initially, InitCrash
<1>2. IInv /\ CrashInv /\ [Next]_vars => (IInv /\ CrashInv)'  BY Inductive, NextCrash
<1>3. IInv /\ CrashInv => Recoverable  BY SettledIsRecoverable
<1> QED BY <1>1, <1>2, <1>3, PTL DEF Spec
====
