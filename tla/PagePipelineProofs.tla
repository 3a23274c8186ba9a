---- MODULE PagePipelineProofs ----
(***************************************************************************)
(* Proofs about the page pipeline, for every number of pages, workers,     *)
(* editions, attempts, crashes and damaged files.                          *)
(*                                                                         *)
(* The coordinator knows its tasks only through the counter inFlight, so   *)
(* NoOldPage is not inductive: the invariant also says that the counter is *)
(* the number of tasks that are queued, being worked on or answered.  That *)
(* the files are intact from the verification on rests on NoOldPage: only  *)
(* page workers write files, and none has a task by then.                  *)
(***************************************************************************)
EXTENDS PagePipeline, FiniteSetTheorems, TLAPS

BusyWorkers == {w \in Workers : Busy(w)}

Outstanding == Len(queue) + Cardinality(BusyWorkers) + Len(results)

\* The steps of a run up to its first page.
Opening == {"stopped", "begin", "resolve", "prepare", "layoutNew", "layout"}

Planned ==
  /\ run.pc # "stopped" => run.attempt \in Attempts
  /\ run.pc \in {"prepare", "layoutNew", "layout", "pages"} => run.plan \in [Pages -> Editions]
  /\ run.pc \in Opening => run.next = 1 /\ run.inFlight = 0

Counted == run.pc = "pages" => run.inFlight = Outstanding /\ run.inFlight < run.next

BusyHasTask == \A w \in Workers : Busy(w) => Task(w) \in Tasks

VerifiedIsIntact ==
  run.pc \in {"overlap", "verifying", "complete"} => \A p \in Pages : Intact(p)

IInv == TypeOK /\ Planned /\ Counted /\ BusyHasTask /\ NoOldPage /\ VerifiedIsIntact

----
(* The steps of the page workers, by their effect on the pool. *)

\* A worker that has a task goes on with it, or answers.
Works(w) ==
  /\ Busy(w) /\ UNCHANGED queue
  /\ \/ /\ \E pc \in WorkerPcs \ {"idle"} : Step(w, pc)
        /\ UNCHANGED results
     \/ \E stored \in Checkpoints, err \in Errors : Answer(w, stored, err)

(* Every step of a worker takes a task, goes on with one or answers it. *)
LEMMA WorkerKinds ==
  ASSUME BusyHasTask, NEW w \in Workers, WorkerStep(w)
  PROVE  Take(w) \/ Works(w)
<1>1. CASE Inspect(w)  BY <1>1 DEF Inspect, Works, Busy, WorkerPcs, Checkpoints, Errors
<1>2. CASE MarkArtifactIssue(w)  BY <1>2 DEF MarkArtifactIssue, Works, Busy, WorkerPcs, Checkpoints, Errors
<1>3. CASE Fetch(w)  BY <1>3 DEF Fetch, Works, Busy, WorkerPcs, Checkpoints, Errors
<1>4. CASE CreatePart(w)  BY <1>4 DEF CreatePart, Works, Busy, WorkerPcs, Checkpoints, Errors
<1>5. CASE FinishPart(w)
  <2>1. Task(w).rev \in Checkpoints  BY <1>5 DEF FinishPart, BusyHasTask, Busy, Tasks, Checkpoints
  <2> QED BY <1>5, <2>1 DEF FinishPart, Works, Busy, WorkerPcs, Checkpoints, Errors
<1> QED BY <1>1, <1>2, <1>3, <1>4, <1>5 DEF WorkerStep

(* A worker touches neither the run nor the checkpoints. *)
LEMMA WorkersLeaveRun ==
  ASSUME NEW w \in Workers, WorkerStep(w)
  PROVE  UNCHANGED <<run, remote, row, token, cancelling, waiting>>
  BY DEF WorkerStep, Take, Inspect, MarkArtifactIssue, Fetch, CreatePart, FinishPart, rows, disk

(* Every step of the run but Push, Receive and Crash leaves the pool alone. *)
LEMMA WhoTouchesPool ==
  ASSUME [Next]_vars
  PROVE  \/ Push \/ Receive \/ Crash \/ UNCHANGED pool
         \/ \E w \in Workers : WorkerStep(w)
  BY DEF Next, RunStep, Start, PipelineBegin, Resolve, PipelinePrepare, PrepareLayout,
     SeeCancel, PagesDone, PipelineStage, VerifyBundle, OverlapGate, PipelineComplete,
     HandleError, Requeue, DownloadCancel, CancelEntries, ReplaceRemote, DiskFault, vars

----
(* The durable rows keep their type. *)
LEMMA RowsStep ==
  ASSUME TypeOK, BusyHasTask, [Next]_vars
  PROVE  RowsOK'
<1> USE PipelineAssumption
<1> USE DEF TypeOK, RowsOK
<1>0. /\ "Queued" \in JobStates /\ "Cancelled" \in JobStates /\ "Interrupted" \in JobStates
      /\ "ResolvingMetadata" \in JobStates /\ "Downloading" \in JobStates
      /\ "Failed" \in JobStates /\ "Hashing" \in JobStates /\ "Verifying" \in JobStates
      /\ "ReviewRequired" \in JobStates /\ "Completed" \in JobStates  BY DEF JobStates, Active, Retryable
<1>1. CASE Requeue  BY <1>0, <1>1 DEF Requeue, Attempts
<1>2. CASE DownloadCancel  BY <1>0, <1>2 DEF DownloadCancel
<1>3. CASE ReplaceRemote  BY <1>3 DEF ReplaceRemote, rows
<1>4. CASE Crash  BY <1>0, <1>4 DEF Crash
<1>5. CASE PipelineBegin  BY <1>0, <1>5 DEF PipelineBegin
<1>6. CASE PipelinePrepare  BY <1>0, <1>6 DEF PipelinePrepare, rows, Checkpoints
<1>7. CASE Receive
  <2>1. results # <<>> => Head(results) \in Results  BY DEF PoolOK
  <2> QED BY <1>7, <2>1 DEF Receive, Results, Checkpoints
<1>8. CASE PipelineStage  BY <1>0, <1>8 DEF PipelineStage
<1>9. CASE OverlapGate  BY <1>0, <1>9 DEF OverlapGate
<1>10. CASE PipelineComplete  BY <1>0, <1>10 DEF PipelineComplete, rows
<1>11. CASE HandleError  BY <1>0, <1>11 DEF HandleError, Checkpoints
<1>12. CASE \E w \in Workers : WorkerStep(w)
  BY <1>0, <1>12 DEF WorkerStep, Take, Inspect, MarkArtifactIssue, Fetch, CreatePart, FinishPart, rows
<1>13. CASE UNCHANGED <<remote, rows>>  BY <1>13 DEF rows
<1>14. CASE UNCHANGED vars  BY <1>13, <1>14 DEF vars
<1> QED BY <1>1, <1>2, <1>3, <1>4, <1>5, <1>6, <1>7, <1>8, <1>9, <1>10, <1>11, <1>12, <1>13, <1>14
        DEF Next, RunStep, Start, Resolve, PrepareLayout, SeeCancel, Push, PagesDone,
            VerifyBundle, CancelEntries, DiskFault

(* So do the files. *)
LEMMA DiskStep ==
  ASSUME TypeOK, BusyHasTask, [Next]_vars
  PROVE  DiskOK'
<1> USE PipelineAssumption DEF TypeOK, DiskOK
<1>1. ASSUME NEW w \in Workers, WorkerStep(w)
      PROVE  DiskOK'
  <2>1. Busy(w) => Task(w).page \in Pages /\ Task(w).rev \in Editions  BY <1>1 DEF BusyHasTask, Tasks
  <2> QED BY <1>1, <2>1 DEF WorkerStep, Take, Inspect, MarkArtifactIssue, Fetch, CreatePart,
            FinishPart, Busy, disk, Checkpoints
<1>2. ASSUME NEW p \in Pages, DiskFault(p)
      PROVE  DiskOK'  BY <1>2 DEF DiskFault, Checkpoints
<1>3. CASE VerifyBundle  BY <1>3 DEF VerifyBundle, disk, Checkpoints
<1>4. CASE UNCHANGED disk  BY <1>4 DEF disk
<1>5. CASE UNCHANGED vars  BY <1>4, <1>5 DEF vars
<1> QED BY <1>1, <1>2, <1>3, <1>4, <1>5
        DEF Next, RunStep, Start, PipelineBegin, Resolve, PipelinePrepare, PrepareLayout,
            SeeCancel, Push, Receive, PagesDone, PipelineStage, OverlapGate, PipelineComplete,
            HandleError, Requeue, DownloadCancel, CancelEntries, ReplaceRemote, Crash

RunRecord == [pc : RunPcs, attempt : Attempts \cup {0}, plan : [Pages -> Checkpoints],
              cp : [Pages -> Checkpoints], next : 1 .. NumPages + 1, inFlight : 0 .. NumPages,
              failure : Errors]

(* A run that stops is well-formed. *)
LEMMA StoppedRun == Stopped \in RunRecord
  BY PipelineAssumption DEF Stopped, RunRecord, RunPcs, Checkpoints, Errors

(* Failing, or going on to another step, keeps the run well-formed. *)
LEMMA RunMoves ==
  ASSUME run \in RunRecord, NEW pc \in RunPcs, NEW err \in Errors,
         run' = [run EXCEPT !.pc = pc] \/ run' = [run EXCEPT !.pc = pc, !.failure = err]
  PROVE  /\ run' \in RunRecord
         /\ run'.pc = pc /\ run'.attempt = run.attempt /\ run'.plan = run.plan
         /\ run'.next = run.next /\ run'.inFlight = run.inFlight  BY DEF RunRecord

(* So does moving the counters within their bounds. *)
LEMMA CounterMoves ==
  ASSUME run \in RunRecord, NEW n \in 1 .. NumPages + 1, NEW k \in 0 .. NumPages, NEW err \in Errors,
         \/ run' = [run EXCEPT !.next = n, !.inFlight = k]
         \/ run' = [run EXCEPT !.inFlight = k, !.failure = err]
  PROVE  /\ run' \in RunRecord /\ run'.inFlight = k
         /\ run'.pc = run.pc /\ run'.attempt = run.attempt /\ run'.plan = run.plan  BY DEF RunRecord

(* The run keeps its type and its plan, and the counter its bounds. *)
LEMMA RunTyped ==
  ASSUME IInv, [Next]_vars
  PROVE  RunOK' /\ Planned'
<1> USE PipelineAssumption
<1>0. /\ run \in RunRecord /\ token \in BOOLEAN /\ cancelling \in BOOLEAN
      /\ waiting \subseteq Attempts /\ Planned  BY DEF IInv, TypeOK, RunOK, RunRecord
<1>a. ASSUME run' \in RunRecord, Planned', UNCHANGED <<token, cancelling, waiting>>
      PROVE  RunOK' /\ Planned'  BY <1>a, <1>0 DEF RunOK, RunRecord
<1>b. ASSUME NEW pc \in RunPcs, NEW err \in Errors,
             run' = [run EXCEPT !.pc = pc] \/ run' = [run EXCEPT !.pc = pc, !.failure = err],
             run.pc # "stopped",
             pc \in {"prepare", "layoutNew", "layout", "pages"}
               => run.pc \in {"prepare", "layoutNew", "layout", "pages"},
             pc \in Opening => run.pc \in Opening
      PROVE  run' \in RunRecord /\ Planned'  BY <1>b, <1>0, RunMoves DEF Planned
<1>c. ASSUME run' = Stopped
      PROVE  run' \in RunRecord /\ Planned'  BY <1>c, StoppedRun DEF Planned, Stopped
<1>e. \A err \in Errors : Fail(err) /\ run.pc # "stopped" => run' \in RunRecord /\ Planned'
  BY <1>b DEF Fail, RunPcs, Opening
<1>1. CASE Start  BY <1>1, <1>0, StoppedRun DEF Start, Stopped, RunRecord, RunOK, Planned, Opening, RunPcs
<1>2. CASE PipelineBegin  BY <1>2, <1>a, <1>b, <1>e DEF PipelineBegin, To, Errors, RunPcs, Opening
<1>3. CASE Resolve
  <2>1. row \in [Pages -> Editions] \/ ~Received  BY DEF IInv, TypeOK, RowsOK, Received
  <2>2. remote \in Editions  BY DEF IInv, TypeOK, RowsOK
  <2>3. ASSUME NEW plan \in [Pages -> Editions], run' = [run EXCEPT !.pc = "prepare", !.plan = plan],
               run.pc = "resolve"
        PROVE  run' \in RunRecord /\ Planned'
    BY <2>3, <1>0 DEF RunRecord, Planned, Opening, RunPcs, Checkpoints
  <2>4. \/ \E err \in Errors : Fail(err)
        \/ \E plan \in [Pages -> Editions] : run' = [run EXCEPT !.pc = "prepare", !.plan = plan]
    BY <1>3, <2>1, <2>2 DEF Resolve, Errors
  <2>5. run.pc = "resolve" /\ UNCHANGED <<token, cancelling, waiting>>  BY <1>3 DEF Resolve
  <2> QED BY <2>3, <2>4, <2>5, <1>a, <1>e
<1>4. CASE PipelinePrepare
  <2>1. ASSUME NEW pc \in {"layoutNew", "layout"}, NEW cp \in [Pages -> Checkpoints],
               run' = [run EXCEPT !.pc = pc, !.cp = cp], run.pc = "prepare"
        PROVE  run' \in RunRecord /\ Planned'  BY <2>1, <1>0 DEF RunRecord, Planned, Opening, RunPcs
  <2>2. [p \in Pages |-> IF row[p] \in Editions THEN row[p] ELSE "none"] \in [Pages -> Checkpoints]
    BY DEF Checkpoints
  <2>3. run.pc = "prepare" /\ UNCHANGED <<token, cancelling, waiting>>  BY <1>4 DEF PipelinePrepare
  <2>4. \/ \E err \in Errors : Fail(err)
        \/ \E pc \in {"layoutNew", "layout"}, cp \in [Pages -> Checkpoints] :
             run' = [run EXCEPT !.pc = pc, !.cp = cp]  BY <1>4, <2>2 DEF PipelinePrepare, Errors
  <2> QED BY <2>1, <2>3, <2>4, <1>a, <1>e
<1>5. CASE PrepareLayout  BY <1>5, <1>a, <1>b, <1>e DEF PrepareLayout, To, Errors, RunPcs, Opening
<1>6. CASE SeeCancel
  <2>1. run' \in RunRecord /\ Planned'  BY <1>6, <1>0 DEF SeeCancel, RunRecord, Planned, Opening, Errors
  <2> QED BY <2>1, <1>6, <1>a DEF SeeCancel
<1>7. CASE Push
  <2>1. run.inFlight < run.next /\ run.next <= NumPages /\ run.pc = "pages"  BY <1>7 DEF Push, IInv, Counted
  <2>2. run.next + 1 \in 1 .. NumPages + 1 /\ run.inFlight + 1 \in 0 .. NumPages  BY <2>1, <1>0 DEF RunRecord
  <2>3. run' = [run EXCEPT !.next = run.next + 1, !.inFlight = run.inFlight + 1]  BY <1>7, <1>0 DEF Push, RunRecord
  <2>4. /\ run' \in RunRecord
        /\ run'.pc = run.pc /\ run'.attempt = run.attempt /\ run'.plan = run.plan
    <3>1. "none" \in Errors  BY DEF Errors
    <3> QED BY <2>2, <2>3, <3>1, <1>0, CounterMoves
  <2>5. Planned'  BY <2>1, <2>4, <1>0 DEF Planned, Opening
  <2> QED BY <2>4, <2>5, <1>7, <1>a DEF Push
<1>8. CASE Receive
  <2>1. run.inFlight > 0 /\ Head(results) \in Results
    <3>1. Cardinality(BusyWorkers) \in Nat  BY FS_Subset, FS_CardinalityType DEF BusyWorkers
    <3>2. results # <<>> /\ results \in Seq(Results) /\ queue \in Seq(Tasks)
      BY <1>8 DEF Receive, IInv, TypeOK, PoolOK
    <3>3. Len(results) > 0 /\ Len(queue) >= 0  BY <3>2
    <3>4. run.inFlight = Outstanding  BY <1>8 DEF Receive, IInv, Counted
    <3> QED BY <3>1, <3>2, <3>3, <3>4, <1>0 DEF Outstanding, RunRecord
  <2>2. PICK err \in Errors : run' = [run EXCEPT !.inFlight = run.inFlight - 1, !.failure = err]
    BY <1>8, <2>1, <1>0 DEF Receive, Results, Errors, RunRecord
  <2>3. run.inFlight - 1 \in 0 .. NumPages  BY <2>1, <1>0 DEF RunRecord
  <2>4. /\ run' \in RunRecord
        /\ run'.pc = run.pc /\ run'.attempt = run.attempt /\ run'.plan = run.plan
    <3>1. 1 \in 1 .. NumPages + 1  BY DEF PipelineAssumption
    <3> QED BY <2>2, <2>3, <3>1, <1>0, CounterMoves
  <2>5. Planned'  BY <1>8, <2>4, <1>0 DEF Receive, Planned, Opening
  <2> QED BY <2>4, <2>5, <1>8, <1>a DEF Receive
<1>9. CASE PagesDone  BY <1>9, <1>a, <1>b DEF PagesDone, To, Errors, RunPcs, Opening
<1>10. CASE PipelineStage  BY <1>10, <1>a, <1>b, <1>e DEF PipelineStage, To, Errors, RunPcs, Opening
<1>11. CASE VerifyBundle  BY <1>11, <1>a, <1>b, <1>e DEF VerifyBundle, To, Errors, RunPcs, Opening
<1>12. CASE OverlapGate
  <2>1. run' \in RunRecord /\ Planned'  BY <1>12, <1>b, <1>c, <1>e DEF OverlapGate, To, Errors, RunPcs, Opening
  <2> QED BY <2>1, <1>12, <1>0 DEF OverlapGate, RunOK, RunRecord
<1>13. CASE PipelineComplete
  <2>1. run' \in RunRecord /\ Planned'  BY <1>13, <1>c, <1>e DEF PipelineComplete, Errors
  <2> QED BY <2>1, <1>13, <1>0 DEF PipelineComplete, RunOK, RunRecord
<1>14. CASE HandleError \/ Crash  BY <1>14, <1>c, <1>0 DEF HandleError, Crash, RunOK, RunRecord
<1>15. CASE Requeue \/ DownloadCancel \/ CancelEntries
  <2>1. job.attempt \in Nat /\ (job.attempt < MaxAttempt => job.attempt + 1 \in Attempts)
    BY DEF IInv, TypeOK, RowsOK, Attempts
  <2> QED BY <1>15, <2>1, <1>0 DEF Requeue, DownloadCancel, CancelEntries, RunOK, RunRecord, Planned
<1>16. CASE UNCHANGED <<run, token, cancelling, waiting>>  BY <1>16, <1>0 DEF RunOK, RunRecord, Planned
<1>17. CASE \E w \in Workers : WorkerStep(w)  BY <1>16, <1>17, WorkersLeaveRun
<1> QED BY <1>1, <1>2, <1>3, <1>4, <1>5, <1>6, <1>7, <1>8, <1>9, <1>10, <1>11, <1>12, <1>13,
           <1>14, <1>15, <1>16, <1>17
        DEF Next, RunStep, ReplaceRemote, DiskFault, vars

----
(* There are finitely many busy workers. *)
LEMMA BusyFinite ==
  IsFiniteSet(BusyWorkers) /\ Cardinality(BusyWorkers) \in Nat
<1>1. IsFiniteSet(Workers) /\ BusyWorkers \in SUBSET Workers  BY PipelineAssumption DEF BusyWorkers
<1> QED BY <1>1, FS_Subset, FS_CardinalityType

(* With nothing outstanding the pool is empty. *)
LEMMA NothingOutstanding ==
  ASSUME PoolOK, Outstanding = 0
  PROVE  queue = <<>> /\ results = <<>> /\ \A w \in Workers : ~Busy(w)
<1>1. Len(queue) \in Nat /\ Len(results) \in Nat  BY DEF PoolOK
<1>2. Len(queue) = 0 /\ Len(results) = 0 /\ Cardinality(BusyWorkers) = 0  BY <1>1, BusyFinite DEF Outstanding
<1>3. BusyWorkers = {}  BY <1>2, BusyFinite, FS_EmptySet
<1> QED BY <1>2, <1>3 DEF PoolOK, BusyWorkers

(* While the run is not in its loop the pool is empty. *)
LEMMA PoolIsEmpty ==
  ASSUME NoOldPage, PoolOK, run.pc # "pages"
  PROVE  queue = <<>> /\ results = <<>> /\ \A w \in Workers : ~Busy(w)
<1>1. Len(queue) \in Nat /\ Len(results) \in Nat  BY DEF PoolOK
<1>2. DOMAIN queue = {} /\ DOMAIN results = {}  BY DEF NoOldPage
<1>3. DOMAIN queue = 1 .. Len(queue) /\ DOMAIN results = 1 .. Len(results)  BY DEF PoolOK
<1>4. Len(queue) = 0 /\ Len(results) = 0  BY <1>1, <1>2, <1>3
<1> QED BY <1>4 DEF NoOldPage, PoolOK

(* An empty pool is accounted for, whatever the run does. *)
LEMMA EmptyPool ==
  ASSUME queue = <<>>, results = <<>>, \A w \in Workers : ~Busy(w)
  PROVE  NoOldPage /\ BusyHasTask /\ Outstanding = 0
<1>1. BusyWorkers = {}  BY DEF BusyWorkers
<1>2. Cardinality(BusyWorkers) = 0  BY <1>1, FS_EmptySet
<1>3. Len(queue) = 0 /\ Len(results) = 0 /\ DOMAIN queue = {} /\ DOMAIN results = {}  OBVIOUS
<1> QED BY <1>2, <1>3 DEF NoOldPage, BusyHasTask, Outstanding

PoolInv == PoolOK /\ BusyHasTask /\ NoOldPage

(* A worker's step keeps every task in the pool and the number of them. *)
LEMMA WorkerKeepsPool ==
  ASSUME PoolInv, RunOK, NEW w \in Workers, WorkerStep(w)
  PROVE  PoolInv' /\ Outstanding' = Outstanding
<1>0. UNCHANGED run  BY WorkersLeaveRun
<1>1. CASE Take(w)
  <2>1. /\ ~Busy(w) /\ queue # <<>> /\ queue' = Tail(queue) /\ UNCHANGED results
        /\ worker' = [worker EXCEPT ![w] = [pc |-> "inspect", task |-> Head(queue)]]  BY <1>1 DEF Take, Busy
  <2>2. /\ Head(queue) \in Tasks /\ Tail(queue) \in Seq(Tasks) /\ Len(Tail(queue)) = Len(queue) - 1
        /\ Head(queue) = queue[1] /\ Len(queue) \in Nat /\ 1 \in DOMAIN queue
        /\ \A i \in DOMAIN Tail(queue) : i + 1 \in DOMAIN queue /\ Tail(queue)[i] = queue[i + 1]
    BY <2>1 DEF PoolInv, PoolOK
  <2>3. /\ Busy(w)' /\ Task(w)' = Head(queue)
        /\ \A v \in Workers \ {w} : worker'[v] = worker[v]  BY <2>1 DEF PoolInv, PoolOK, Busy, Task
  <2>4. PoolOK'  BY <2>1, <2>2 DEF PoolInv, PoolOK, WorkerPcs
  <2>5. BusyHasTask'  BY <2>2, <2>3 DEF PoolInv, BusyHasTask, Busy, Task
  <2>6. NoOldPage'  BY <1>0, <2>1, <2>2, <2>3 DEF PoolInv, NoOldPage, Busy, Task
  <2>7. Cardinality(BusyWorkers') = Cardinality(BusyWorkers) + 1
    <3>1. BusyWorkers' = BusyWorkers \cup {w} /\ w \notin BusyWorkers  BY <2>1, <2>3 DEF BusyWorkers, Busy
    <3> QED BY <3>1, BusyFinite, FS_AddElement
  <2> QED BY <2>1, <2>2, <2>4, <2>5, <2>6, <2>7, BusyFinite DEF PoolInv, PoolOK, Outstanding
<1>2. ASSUME NEW pc \in WorkerPcs \ {"idle"}, Busy(w), Step(w, pc), UNCHANGED <<queue, results>>
      PROVE  PoolInv' /\ Outstanding' = Outstanding
  <2>1. /\ worker' \in [Workers -> [pc : WorkerPcs, task : Tasks \cup {NoTask}]]
        /\ \A v \in Workers : Task(v)' = Task(v) /\ (Busy(v)' <=> Busy(v))
    BY <1>2 DEF PoolInv, PoolOK, Step, Busy, Task
  <2>2. BusyWorkers' = BusyWorkers  BY <2>1 DEF BusyWorkers
  <2> QED BY <1>0, <1>2, <2>1, <2>2 DEF PoolInv, PoolOK, BusyHasTask, NoOldPage, Outstanding
<1>3. ASSUME NEW stored \in Checkpoints, NEW err \in Errors, Busy(w), Answer(w, stored, err),
             UNCHANGED queue
      PROVE  PoolInv' /\ Outstanding' = Outstanding
  <2> DEFINE res == Result(w, stored, err)
  <2>1. /\ res \in Results /\ res.attempt = run.attempt /\ run.pc = "pages"
        /\ results' = Append(results, res) /\ worker' = [worker EXCEPT ![w] = NoWork]
    BY <1>3 DEF Answer, Result, Results, PoolInv, BusyHasTask, NoOldPage, Tasks
  <2> HIDE DEF res
  <2>2. /\ results' \in Seq(Results) /\ Len(results') = Len(results) + 1
        /\ Len(results) \in Nat /\ DOMAIN results' = DOMAIN results \cup {Len(results) + 1}
        /\ results'[Len(results) + 1] = res
        /\ \A i \in DOMAIN results : results'[i] = results[i]  BY <2>1 DEF PoolInv, PoolOK
  <2>3. /\ ~Busy(w)'
        /\ worker' \in [Workers -> [pc : WorkerPcs, task : Tasks \cup {NoTask}]]
        /\ \A v \in Workers \ {w} : worker'[v] = worker[v]
    BY <2>1 DEF PoolInv, PoolOK, Busy, NoWork, WorkerPcs
  <2>4. BusyHasTask'  BY <2>3 DEF PoolInv, BusyHasTask, Busy, Task
  <2>5. NoOldPage'  BY <1>0, <1>3, <2>1, <2>2, <2>3 DEF PoolInv, NoOldPage, Busy, Task
  <2>6. Cardinality(BusyWorkers') = Cardinality(BusyWorkers) - 1
    <3>1. BusyWorkers' = BusyWorkers \ {w} /\ w \in BusyWorkers  BY <1>3, <2>3 DEF BusyWorkers, Busy
    <3> QED BY <3>1, BusyFinite, FS_RemoveElement
  <2>7. Len(queue) \in Nat  BY DEF PoolInv, PoolOK
  <2> QED BY <1>3, <2>2, <2>3, <2>4, <2>5, <2>6, <2>7, BusyFinite
          DEF PoolInv, PoolOK, Outstanding
<1> QED BY <1>1, <1>2, <1>3, WorkerKinds DEF PoolInv, Works

(* The steps that leave the pool alone: how they may enter or leave the loop. *)
LEMMA WhoMovesTheRun ==
  ASSUME IInv, [Next]_vars, UNCHANGED pool, ~Push, ~Receive, ~Crash,
         \A w \in Workers : ~WorkerStep(w)
  PROVE  \/ /\ run'.pc = run.pc /\ run'.attempt = run.attempt
            /\ run'.next = run.next /\ run'.inFlight = run.inFlight
         \/ PagesDone
         \/ /\ run.pc # "pages"
            /\ run'.pc = "pages" => /\ run.pc \in Opening
                                    /\ run'.next = run.next /\ run'.inFlight = run.inFlight
<1>0. run \in RunRecord  BY DEF IInv, TypeOK, RunOK, RunRecord
<1>1. CASE PagesDone \/ UNCHANGED run  BY <1>1
<1>2. CASE SeeCancel  BY <1>0, <1>2 DEF SeeCancel, RunRecord
<1>3. CASE PrepareLayout  BY <1>0, <1>3 DEF PrepareLayout, To, Fail, Opening, RunRecord
<1>4. CASE Start \/ PipelineBegin \/ Resolve
  BY <1>0, <1>4 DEF Start, Stopped, PipelineBegin, Resolve, To, Fail, RunRecord
<1>7. CASE PipelinePrepare  BY <1>0, <1>7 DEF PipelinePrepare, Fail, RunRecord
<1>5. CASE PipelineStage \/ VerifyBundle  BY <1>0, <1>5 DEF PipelineStage, VerifyBundle, To, Fail, RunRecord
<1>6. CASE OverlapGate \/ PipelineComplete \/ HandleError
  <2>1. Stopped.pc # "pages"  BY DEF Stopped
  <2>2. CASE OverlapGate  BY <1>0, <2>1, <2>2 DEF OverlapGate, To, Fail, RunRecord
  <2>3. CASE PipelineComplete  BY <1>0, <2>1, <2>3 DEF PipelineComplete, Fail, RunRecord
  <2>4. CASE HandleError  BY <2>1, <2>4 DEF HandleError
  <2> QED BY <1>6, <2>2, <2>3, <2>4
<1> QED BY <1>1, <1>2, <1>3, <1>4, <1>5, <1>6, <1>7
        DEF Next, RunStep, Requeue, DownloadCancel, CancelEntries, ReplaceRemote, DiskFault, vars

(* The pool stays accounted for. *)
LEMMA PoolStep ==
  ASSUME IInv, [Next]_vars
  PROVE  PoolInv' /\ Counted'
<1>0. /\ PoolInv /\ Counted /\ Planned /\ RunOK /\ run \in RunRecord
      /\ queue \in Seq(Tasks) /\ results \in Seq(Results)
      /\ Len(queue) \in Nat /\ Len(results) \in Nat  BY DEF IInv, TypeOK, PoolInv, PoolOK, RunOK, RunRecord
<1>1. CASE Push
  <2> DEFINE task == [page |-> run.next, rev |-> run.plan[run.next],
                      cp |-> run.cp[run.next], attempt |-> run.attempt]
  <2>1. /\ run.pc = "pages" /\ run.next \in Pages /\ queue' = Append(queue, task)
        /\ UNCHANGED <<worker, results>>
        /\ run'.pc = run.pc /\ run'.attempt = run.attempt
        /\ run'.next = run.next + 1 /\ run'.inFlight = run.inFlight + 1
    BY <1>0, <1>1 DEF Push, RunRecord, Pages
  <2>2. task \in Tasks /\ task.attempt = run.attempt  BY <1>0, <2>1 DEF Tasks, Planned, RunRecord, Checkpoints
  <2> HIDE DEF task
  <2>3. /\ queue' \in Seq(Tasks) /\ Len(queue') = Len(queue) + 1
        /\ DOMAIN queue' = DOMAIN queue \cup {Len(queue) + 1}
        /\ queue'[Len(queue) + 1] = task
        /\ \A i \in DOMAIN queue : queue'[i] = queue[i]  BY <1>0, <2>1, <2>2
  <2>4. PoolOK' /\ BusyHasTask' /\ BusyWorkers' = BusyWorkers
    BY <1>0, <2>1, <2>3 DEF PoolInv, PoolOK, BusyHasTask, Busy, Task, BusyWorkers
  <2>5. NoOldPage'  BY <1>0, <2>1, <2>2, <2>3 DEF PoolInv, NoOldPage, Busy, Task
  <2>6. Outstanding' = Outstanding + 1  BY <1>0, <2>1, <2>3, <2>4, BusyFinite DEF Outstanding
  <2> QED BY <1>0, <2>1, <2>4, <2>5, <2>6 DEF PoolInv, Counted, RunRecord
<1>2. CASE Receive
  <2>1. /\ run.pc = "pages" /\ results # <<>> /\ results' = Tail(results)
        /\ UNCHANGED <<worker, queue>>
        /\ run'.pc = run.pc /\ run'.attempt = run.attempt
        /\ run'.next = run.next /\ run'.inFlight = run.inFlight - 1  BY <1>0, <1>2 DEF Receive, RunRecord
  <2>2. /\ results' \in Seq(Results) /\ Len(results') = Len(results) - 1
        /\ \A i \in DOMAIN results' : i + 1 \in DOMAIN results /\ results'[i] = results[i + 1]  BY <1>0, <2>1
  <2>3. PoolOK' /\ BusyHasTask' /\ BusyWorkers' = BusyWorkers
    BY <1>0, <2>1, <2>2 DEF PoolInv, PoolOK, BusyHasTask, Busy, Task, BusyWorkers
  <2>4. NoOldPage'  BY <1>0, <2>1, <2>2 DEF PoolInv, NoOldPage, Busy, Task
  <2>5. Outstanding' = Outstanding - 1  BY <1>0, <2>1, <2>2, <2>3, BusyFinite DEF Outstanding
  <2> QED BY <1>0, <2>1, <2>3, <2>4, <2>5 DEF PoolInv, Counted, RunRecord
<1>3. CASE Crash
  <2>1. /\ queue' = <<>> /\ results' = <<>> /\ worker' = [w \in Workers |-> NoWork]
        /\ run'.pc = "stopped"  BY <1>3 DEF Crash, Stopped
  <2>2. PoolOK'  BY <2>1 DEF PoolOK, NoWork, WorkerPcs
  <2> QED BY <2>1, <2>2 DEF PoolInv, BusyHasTask, NoOldPage, Busy, NoWork, Counted
<1>4. CASE \E w \in Workers : WorkerStep(w)
  <2>1. PICK w \in Workers : WorkerStep(w)  BY <1>4
  <2>2. UNCHANGED run /\ PoolInv' /\ Outstanding' = Outstanding  BY <1>0, <2>1, WorkersLeaveRun, WorkerKeepsPool
  <2> QED BY <1>0, <2>2 DEF Counted
<1>5. CASE /\ UNCHANGED pool /\ ~Push /\ ~Receive /\ ~Crash
           /\ \A w \in Workers : ~WorkerStep(w)
  <2>0. /\ UNCHANGED <<queue, worker, results>> /\ PoolOK' /\ BusyHasTask'
        /\ Outstanding' = Outstanding
    BY <1>0, <1>5 DEF pool, PoolInv, PoolOK, BusyHasTask, Busy, Task, Outstanding, BusyWorkers
  <2>1. CASE /\ run'.pc = run.pc /\ run'.attempt = run.attempt
             /\ run'.next = run.next /\ run'.inFlight = run.inFlight
    BY <1>0, <2>0, <2>1 DEF PoolInv, NoOldPage, Busy, Task, Counted
  <2>2. CASE PagesDone
    <3>1. run.pc = "pages" /\ run.inFlight = 0 /\ run'.pc # "pages"  BY <1>0, <2>2 DEF PagesDone, To, RunRecord
    <3>2. queue = <<>> /\ results = <<>> /\ \A w \in Workers : ~Busy(w)
      BY <1>0, <3>1, NothingOutstanding DEF Counted, PoolInv
    <3> QED BY <2>0, <3>1, <3>2 DEF PoolInv, NoOldPage, Busy, Counted
  <2>3. CASE /\ run.pc # "pages"
             /\ run'.pc = "pages" => /\ run.pc \in Opening
                                     /\ run'.next = run.next /\ run'.inFlight = run.inFlight
    <3>1. queue = <<>> /\ results = <<>> /\ \A w \in Workers : ~Busy(w)  BY <1>0, <2>3, PoolIsEmpty DEF PoolInv
    <3>2. NoOldPage'  BY <2>0, <3>1 DEF NoOldPage, Busy
    <3>3. Outstanding = 0  BY <3>1, EmptyPool
    <3> QED BY <1>0, <2>0, <2>3, <3>2, <3>3 DEF PoolInv, Counted, Planned
  <2> QED BY <1>5, <2>1, <2>2, <2>3, WhoMovesTheRun
<1> QED BY <1>1, <1>2, <1>3, <1>4, <1>5, WhoTouchesPool

(* From the verification on the files stay what the checkpoints say. *)
LEMMA IntactStep ==
  ASSUME IInv, [Next]_vars
  PROVE  VerifiedIsIntact'
<1>0. run \in RunRecord /\ VerifiedIsIntact  BY DEF IInv, TypeOK, RunOK, RunRecord
<1>1. ASSUME run.pc \in {"overlap", "verifying", "complete"}, UNCHANGED <<row, disk>>
      PROVE  VerifiedIsIntact'  BY <1>0, <1>1 DEF VerifiedIsIntact, Intact, disk
<1>2. ASSUME run'.pc \notin {"overlap", "verifying", "complete"}
      PROVE  VerifiedIsIntact'  BY <1>2 DEF VerifiedIsIntact
<1>3. CASE VerifyBundle  BY <1>0, <1>3 DEF VerifyBundle, To, Fail, VerifiedIsIntact, Intact, disk, rows, RunRecord
<1>4. CASE \E w \in Workers : WorkerStep(w)
  <2>1. PICK w \in Workers : WorkerStep(w)  BY <1>4
  <2>2. Busy(w) \/ queue # <<>>
    BY <2>1 DEF WorkerStep, Take, Inspect, MarkArtifactIssue, Fetch, CreatePart, FinishPart, Busy
  <2>3. run.pc = "pages" /\ UNCHANGED run  BY <2>1, <2>2, PoolIsEmpty, WorkersLeaveRun DEF IInv, TypeOK
  <2> QED BY <1>2, <2>3
<1>5. CASE \E p \in Pages : DiskFault(p)  BY <1>2, <1>5 DEF DiskFault
<1>6. CASE Push \/ Receive  BY <1>0, <1>2, <1>6 DEF Push, Receive, RunRecord
<1>7. CASE SeeCancel \/ PagesDone \/ PrepareLayout
  BY <1>0, <1>2, <1>7 DEF SeeCancel, PagesDone, PrepareLayout, To, Fail, RunRecord
<1>12. CASE PipelineBegin \/ Resolve  BY <1>0, <1>2, <1>12 DEF PipelineBegin, Resolve, To, Fail, RunRecord
<1>13. CASE PipelinePrepare  BY <1>0, <1>2, <1>13 DEF PipelinePrepare, Fail, RunRecord
<1>8. CASE Start \/ HandleError \/ Crash
  <2>1. Stopped.pc = "stopped" /\ Stopped \in RunRecord  BY StoppedRun DEF Stopped
  <2>2. CASE Start  BY <1>2, <2>1, <2>2 DEF Start, RunRecord
  <2>3. CASE HandleError \/ Crash  BY <1>2, <2>1, <2>3 DEF HandleError, Crash
  <2> QED BY <1>8, <2>2, <2>3
<1>9. CASE PipelineStage
  <2>1. CASE run.pc = "stage"  BY <1>0, <1>2, <1>9, <2>1 DEF PipelineStage, To, Fail, RunRecord
  <2>2. CASE run.pc = "verifying"  BY <1>1, <1>9, <2>2 DEF PipelineStage
  <2> QED BY <1>9, <2>1, <2>2 DEF PipelineStage
<1>10. CASE OverlapGate \/ PipelineComplete  BY <1>1, <1>10 DEF OverlapGate, PipelineComplete, rows
<1>11. CASE UNCHANGED <<run, row, disk>>  BY <1>0, <1>11 DEF VerifiedIsIntact, Intact, disk
<1> QED BY <1>3, <1>4, <1>5, <1>6, <1>7, <1>8, <1>9, <1>10, <1>11, <1>12,
           <1>13
        DEF Next, RunStep, Requeue, DownloadCancel, CancelEntries, ReplaceRemote, vars, rows

----
(* The invariant holds at first. *)
LEMMA InitIInv ==
  ASSUME Init
  PROVE  IInv
<1> USE PipelineAssumption
<1>1. TypeOK
  <2>0. "Queued" \in JobStates /\ 1 \in Attempts  BY DEF JobStates, Active, Attempts
  <2>1. RowsOK
    <3>1. job \in [state : JobStates, attempt : Attempts]  BY <2>0 DEF Init
    <3>2. row \in [Pages -> Checkpoints \cup {"pending"}]  BY DEF Init, Checkpoints
    <3> QED BY <3>1, <3>2 DEF Init, RowsOK
  <2>4. DiskOK  BY DEF Init, DiskOK, Checkpoints
  <2>2. RunOK
    <3>1. run \in RunRecord /\ token \in BOOLEAN /\ cancelling \in BOOLEAN  BY StoppedRun DEF Init
    <3>2. waiting \subseteq Attempts  BY <2>0 DEF Init
    <3> QED BY <3>1, <3>2 DEF RunOK, RunRecord
  <2>3. PoolOK  BY DEF Init, PoolOK, NoWork, WorkerPcs
  <2> QED BY <2>1, <2>2, <2>3, <2>4 DEF TypeOK
<1>2. run.pc = "stopped" /\ run.next = 1 /\ run.inFlight = 0  BY DEF Init, Stopped
<1>3. NoOldPage /\ BusyHasTask
  <2>1. queue = <<>> /\ results = <<>> /\ \A w \in Workers : ~Busy(w)  BY DEF Init, Busy, NoWork
  <2> QED BY <2>1, EmptyPool
<1> QED BY <1>1, <1>2, <1>3 DEF IInv, Planned, Counted, VerifiedIsIntact

(* Every step preserves it. *)
LEMMA NextIInv ==
  ASSUME IInv, [Next]_vars
  PROVE  IInv'
<1>1. RowsOK' /\ DiskOK'  BY RowsStep, DiskStep DEF IInv
<1>2. RunOK' /\ Planned'  BY RunTyped
<1>3. PoolInv' /\ Counted'  BY PoolStep
<1>4. VerifiedIsIntact'  BY IntactStep
<1> QED BY <1>1, <1>2, <1>3, <1>4 DEF IInv, TypeOK, PoolInv

(* Only pipeline_complete completes a download, and it does so on files that
   were verified and not touched since. *)
LEMMA CompletionIsWhole ==
  ASSUME IInv, [Next]_vars, job.state # "Completed", job'.state = "Completed"
  PROVE  artifact' = "complete" /\ \A p \in Pages : Intact(p)'
<1>0. job \in [state : JobStates, attempt : Attempts]  BY DEF IInv, TypeOK, RowsOK
<1>1. PipelineComplete
  <2>1. ~(Requeue \/ DownloadCancel \/ Crash)  BY <1>0 DEF Requeue, DownloadCancel, Crash
  <2>2. ~(PipelineBegin \/ PipelinePrepare)  BY <1>0 DEF PipelineBegin, PipelinePrepare, rows
  <2>3. ~(PipelineStage \/ OverlapGate \/ HandleError)  BY <1>0 DEF PipelineStage, OverlapGate, HandleError
  <2>4. \A w \in Workers : ~WorkerStep(w)
    BY <1>0 DEF WorkerStep, Take, Inspect, MarkArtifactIssue, Fetch, CreatePart, FinishPart, rows
  <2> QED BY <2>1, <2>2, <2>3, <2>4
          DEF Next, RunStep, Start, Resolve, PrepareLayout, SeeCancel, Push, Receive, PagesDone,
              VerifyBundle, CancelEntries, ReplaceRemote, DiskFault, rows, vars
<1>2. run.pc = "complete" /\ artifact' = "complete" /\ UNCHANGED <<row, disk>>  BY <1>1 DEF PipelineComplete, rows
<1>3. \A p \in Pages : Intact(p)  BY <1>2 DEF IInv, VerifiedIsIntact
<1> QED BY <1>2, <1>3 DEF Intact, disk

----
(* The inductive invariant holds in every reachable state. *)
THEOREM Invariance == Spec => []IInv
<1>1. Init => IInv  BY InitIInv
<1>2. IInv /\ [Next]_vars => IInv'  BY NextIInv
<1> QED BY <1>1, <1>2, PTL DEF Spec

(* Every variable of the pipeline keeps its type, whatever the number of
   pages and workers: in particular the counter of download_pages stays
   between zero and the number of pages. *)
THEOREM TypeCorrect == Spec => []TypeOK
<1>1. IInv => TypeOK  BY DEF IInv
<1> QED BY <1>1, Invariance, PTL

(* download_pages drains: no page task of an attempt outlives its run, for
   every number of pages and workers. *)
THEOREM Drained == Spec => []NoOldPage
<1>1. IInv => NoOldPage  BY DEF IInv
<1> QED BY <1>1, Invariance, PTL

(* A download completes only on files that match their checkpoints. *)
THEOREM CompletionsAreWhole == Spec => CompletesWhole
<1> DEFINE A == job.state # "Completed" /\ job'.state = "Completed"
                  => artifact' = "complete" /\ \A p \in Pages : Intact(p)'
<1>1. IInv /\ [Next]_vars => [A]_vars  BY CompletionIsWhole
<1> QED BY <1>1, Invariance, PTL DEF CompletesWhole, Spec
====
