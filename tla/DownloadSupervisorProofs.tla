---- MODULE DownloadSupervisorProofs ----
(***************************************************************************)
(* Proofs about the download supervisor, for every number of entries,      *)
(* threads, users, pages, attempts and restarts.                           *)
(*                                                                         *)
(* ExclusiveArtifact follows from Fence: who holds an attempt owns it, and *)
(* no two owners belong to one entry.  StopIsNotFailure follows from       *)
(* Tokens: a thread that gave up as cancelled has a cancelled token, also  *)
(* when a quit closed a queue under it.  The rows have to be bounded and   *)
(* typed along with them, because a descriptor gets its attempt from them. *)
(*                                                                         *)
(* ActiveIsServed, for one user at a time, follows from ServedInv: who     *)
(* carries an attempt was told of the row it reads, a token is cancelled   *)
(* and an attempt let go only after the row has ended, and there is one    *)
(* resume at most.                                                         *)
(***************************************************************************)
EXTENDS DownloadSupervisor, TLAPS

Row == [state : JobStates \cup {Absent}, attempt : 0 .. MaxAttempts, err : Errors]

ThreadRecord == [pc : Pcs, desc : Descriptors \cup {NoDesc}, err : Errors, left : 0 .. NumPages]

Ending == Phases \ {"down", "booting", "resuming", "running"}

RowBounds ==
  /\ phase \in {"down", "booting"} => downs > 0
  /\ phase \in Ending => downs < MaxDowntime
  /\ \A e \in Entries :
       /\ job[e].state = Absent <=> job[e].attempt = 0
       /\ artifact[e] # "none" => job[e].state # Absent
       /\ job[e].attempt <= MaxAttempt + downs
       /\ phase \in {"down", "booting"} => job[e].attempt < MaxAttempt + downs

RowsInv == RowsOK /\ ProcessOK /\ RowBounds /\ StopIsNotFailure

FailureIsReal == \A t \in Threads : At(t, "fail") => thread[t].err # "CANCELLED"

----
(* A transaction writes one row and leaves the others as they were. *)
LEMMA SetRowEffect ==
  ASSUME RowsOK, NEW e \in Entries, NEW r \in Row, SetRow(e, r)
  PROVE  /\ job' \in [Entries -> Row]
         /\ job'[e] = r
         /\ \A f \in Entries \ {e} : job'[f] = job[f]  BY DEF RowsOK, SetRow, Row

(* A transition keeps the attempt of the row. *)
LEMMA TransitionEffect ==
  ASSUME NEW r \in Row, NEW s \in JobStates, NEW err \in Errors
  PROVE  /\ Transition(r, s, err) \in Row
         /\ Transition(r, s, err).state = s
         /\ Transition(r, s, err).attempt = r.attempt
         /\ Transition(r, s, err).err = err  BY DEF Transition, Row

(* A thread that is not idle works for a real entry. *)
LEMMA WorksForEntry ==
  ASSUME ThreadsOK, NEW t \in Threads, thread[t].pc \notin {"idle", "exited"}
  PROVE  DescOf(t) \in Descriptors /\ DescOf(t).entry \in Entries  BY DEF ThreadsOK, DescOf, Descriptors

(* A write of one existing row that keeps its attempt keeps the bounds. *)
LEMMA RewriteKeepsRows ==
  ASSUME RowsInv, NEW e \in Entries, NEW s \in JobStates, NEW err \in Errors,
         job[e].state # Absent, err # "CANCELLED",
         \/ SetRow(e, Transition(job[e], s, err))
         \/ job' = job,
         \/ artifact' = artifact
         \/ \E a \in ArtifactStates : artifact' = [artifact EXCEPT ![e] = a],
         UNCHANGED procVars
  PROVE  RowsInv'
<1>1. job[e] \in Row  BY DEF RowsInv, RowsOK, Row
<1>2. /\ job' \in [Entries -> Row]
      /\ \A f \in Entries : job'[f].attempt = job[f].attempt
      /\ \A f \in Entries : job'[f].state = Absent <=> job[f].state = Absent
      /\ \A f \in Entries : job'[f].err # "CANCELLED"
  <2>1. CASE SetRow(e, Transition(job[e], s, err))
    <3> DEFINE r == Transition(job[e], s, err)
    <3>1. r \in Row /\ r.attempt = job[e].attempt /\ r.state = s /\ r.err # "CANCELLED"  BY <1>1, TransitionEffect
    <3>2. s # Absent  BY DEF JobStates, Active, Retryable, Absent
    <3> HIDE DEF r
    <3>3. SetRow(e, r) /\ RowsOK  BY <2>1 DEF r, RowsInv
    <3>4. job' \in [Entries -> Row] /\ job'[e] = r /\ \A f \in Entries \ {e} : job'[f] = job[f]
      BY <3>1, <3>3, SetRowEffect
    <3> QED BY <3>1, <3>2, <3>4 DEF RowsInv, StopIsNotFailure
  <2>2. CASE job' = job  BY <2>2 DEF RowsInv, RowsOK, Row, StopIsNotFailure
  <2> QED BY <2>1, <2>2
<1>3. /\ artifact' \in [Entries -> ArtifactStates]
      /\ \A f \in Entries \ {e} : artifact'[f] = artifact[f]  BY DEF RowsInv, RowsOK
<1> QED BY <1>2, <1>3 DEF RowsInv, RowsOK, ProcessOK, RowBounds, Row, procVars, StopIsNotFailure

(* The rows keep their type and their bounds in every step. *)
LEMMA RowsStep ==
  ASSUME TypeOK, RowsInv, FailureIsReal, [Next]_vars
  PROVE  RowsInv'
<1> USE SupervisorAssumption
<1>a. RowsOK /\ ProcessOK /\ RowBounds /\ ThreadsOK /\ StopIsNotFailure  BY DEF RowsInv, TypeOK
<1>b. \A e \in Entries : job[e] \in Row  BY <1>a DEF RowsOK, Row
<1>0. ASSUME UNCHANGED durable, UNCHANGED downs,
             phase' \in Phases, phase' \in {"down", "booting"} => phase' = phase,
             phase' \in Ending => phase \in Ending \/ MayStop
      PROVE  RowsInv'
  BY <1>0, <1>a DEF RowsInv, RowsOK, ProcessOK, RowBounds, durable, MayStop,
     StopIsNotFailure
<1>1. ASSUME NEW u \in Users, NEW e \in Entries, DownloadQueueAdd(u, e)
      PROVE  RowsInv'
  <2> DEFINE r == [state |-> "Queued", attempt |-> 1, err |-> "none"]
  <2>1. r \in Row /\ r.state # Absent /\ r.attempt = 1 /\ r.err # "CANCELLED"
    BY DEF Row, MaxAttempts, JobStates, Active, Errors, Absent
  <2>2. SetRow(e, r) /\ UNCHANGED <<artifact, procVars>> /\ phase = "running"  BY <1>1 DEF DownloadQueueAdd, GateOpen
  <2> HIDE DEF r
  <2> QED BY <2>1, <2>2, <1>a, SetRowEffect DEF Row, RowsInv, RowsOK, ProcessOK, RowBounds,
             procVars, StopIsNotFailure
<1>2. ASSUME NEW u \in Users, NEW e \in Entries,
             DownloadRetry(u, e) \/ OverlapDecisionResume(u, e)
      PROVE  RowsInv'
  <2>1. /\ Requeue(job[e]) \in Row /\ SetRow(e, Requeue(job[e]))
        /\ job[e].attempt < MaxAttempt /\ UNCHANGED <<artifact, procVars>>
        /\ Requeue(job[e]).state # Absent /\ Requeue(job[e]).attempt = job[e].attempt + 1
        /\ Requeue(job[e]).err = "none"
        /\ phase \notin {"down", "booting"}
    BY <1>2, <1>b, <1>a DEF DownloadRetry, OverlapDecisionResume, Requeue, Row, ProcessOK,
       MaxAttempts, JobStates, Active, Errors, Absent, Ready, Up, StartupPhases
  <2> QED BY <2>1, <1>a, SetRowEffect DEF RowsInv, Row, RowsOK, ProcessOK, RowBounds, procVars,
            StopIsNotFailure
<1>3. ASSUME NEW u \in Users, NEW e \in Entries, DownloadCancel(u, e)
      PROVE  RowsInv'
  <2>1. job[e].err \in Errors /\ job[e].err # "CANCELLED" /\ "none" \in Errors /\ "Cancelled" \in JobStates
    BY <1>a, <1>b DEF Row, Errors, JobStates, Retryable, StopIsNotFailure
  <2> QED BY <1>3, <2>1, RewriteKeepsRows DEF DownloadCancel
<1>4. ASSUME NEW c \in Coordinators, PipelineBegin(c)
      PROVE  RowsInv'
  <2>1. DescOf(c).entry \in Entries  BY <1>4, <1>a, WorksForEntry DEF PipelineBegin, At, Threads
  <2> DEFINE e == DescOf(c).entry
  <2>2. "ResolvingMetadata" \in JobStates /\ "none" \in Errors  BY DEF JobStates, Active, Errors
  <2>3. [job EXCEPT ![e] = job[e]] = job  BY <1>a DEF RowsOK
  <2>4. CASE job' = job  BY <2>4, <1>4, <1>0, <1>a DEF PipelineBegin, durable, procVars, ProcessOK
  <2>5. CASE SetRow(e, Transition(job[e], "ResolvingMetadata", "none")) /\ job[e].state # Absent
    BY <2>1, <2>2, <2>5, <1>4, <1>a, RewriteKeepsRows DEF PipelineBegin
  <2> QED BY <1>4, <2>3, <2>4, <2>5 DEF PipelineBegin, Current, RowOf, DescOf, SetRow
<1>5. ASSUME NEW c \in Coordinators, PipelinePrepare(c)
      PROVE  RowsInv'
  <2>1. DescOf(c).entry \in Entries  BY <1>5, <1>a, WorksForEntry DEF PipelinePrepare, At, Threads
  <2> QED BY <1>5, <2>1, <1>0, <1>a, RewriteKeepsRows
      DEF PipelinePrepare, Current, RowOf, DescOf, JobStates, Active, Errors, ArtifactStates,
          durable, procVars, ProcessOK
<1>6. ASSUME NEW c \in Coordinators, PageConflict(c)
      PROVE  RowsInv'
  <2> DEFINE e == DescOf(c).entry
  <2>1. e \in Entries  BY <1>6, <1>a, WorksForEntry DEF PageConflict, At, Threads
  <2>2. artifact' = artifact \/ artifact' = [artifact EXCEPT ![e] = "missing"]
    BY <1>6, <2>1, <1>a DEF PageConflict, MarkArtifactIssue, RowsOK
  <2>3. CASE artifact[e] = "none"
    <3>1. UNCHANGED durable /\ UNCHANGED procVars
      BY <1>6, <2>1, <2>3, <1>a DEF PageConflict, MarkArtifactIssue, RowsOK, durable
    <3> QED BY <3>1, <1>0, <1>a DEF procVars, ProcessOK
  <2>4. CASE artifact[e] # "none"
    <3>1. job[e].state # Absent  BY <2>1, <2>4, <1>a DEF RowBounds
    <3>2. SetRow(e, Transition(job[e], "Failed", "CONFLICT")) \/ job' = job
      BY <1>6, <2>1 DEF PageConflict, MarkArtifactIssue, SetRow
    <3>3. "Failed" \in JobStates /\ "CONFLICT" \in Errors /\ "missing" \in ArtifactStates
      BY DEF JobStates, Retryable, Errors, ArtifactStates
    <3> QED BY <1>6, <2>1, <2>2, <3>1, <3>2, <3>3, RewriteKeepsRows DEF PageConflict
  <2> QED BY <2>3, <2>4
<1>7. ASSUME NEW t \in Threads, PipelineStage(t)
      PROVE  RowsInv'
  <2>1. DescOf(t).entry \in Entries  BY <1>7, <1>a, WorksForEntry DEF PipelineStage
  <2>2. "Hashing" \in JobStates /\ "Verifying" \in JobStates /\ "none" \in Errors  BY DEF JobStates, Active, Errors
  <2> QED BY <1>7, <2>1, <2>2, <1>0, <1>a, RewriteKeepsRows
      DEF PipelineStage, Current, RowOf, DescOf, durable, procVars, ProcessOK
<1>8. ASSUME NEW f \in Finalizers, OverlapGate(f)
      PROVE  RowsInv'
  <2>1. DescOf(f).entry \in Entries  BY <1>8, <1>a, WorksForEntry DEF OverlapGate, At, Threads
  <2>2. "ReviewRequired" \in JobStates /\ "none" \in Errors  BY DEF JobStates, Errors
  <2> QED BY <1>8, <2>1, <2>2, <1>0, <1>a, RewriteKeepsRows
      DEF OverlapGate, Current, RowOf, DescOf, durable, procVars, ProcessOK
<1>9. ASSUME NEW f \in Finalizers, PipelineComplete(f)
      PROVE  RowsInv'
  <2>1. DescOf(f).entry \in Entries  BY <1>9, <1>a, WorksForEntry DEF PipelineComplete, At, Threads
  <2>2. "Completed" \in JobStates /\ "none" \in Errors /\ "complete" \in ArtifactStates
    BY DEF JobStates, Errors, ArtifactStates
  <2> QED BY <1>9, <2>1, <2>2, <1>0, <1>a, RewriteKeepsRows
      DEF PipelineComplete, Current, RowOf, DescOf, durable, procVars, ProcessOK
<1>10. ASSUME NEW t \in Threads, PipelineFail(t)
      PROVE  RowsInv'
  <2>1. DescOf(t).entry \in Entries /\ thread[t].err \in Errors \ {"CANCELLED"}
    BY <1>10, <1>a, WorksForEntry DEF PipelineFail, At, ThreadsOK, FailureIsReal
  <2>2. "Failed" \in JobStates /\ "none" \in ArtifactStates  BY DEF JobStates, Retryable, ArtifactStates
  <2> QED BY <1>10, <2>1, <2>2, <1>0, <1>a, RewriteKeepsRows
      DEF PipelineFail, Current, RowOf, DescOf, durable, procVars, ProcessOK
<1>11. ASSUME Stopped, MayStop \/ phase = "join"
       PROVE  RowsInv'
  BY <1>11, <1>a DEF Stopped, MayStop, RowsInv, RowsOK, ProcessOK, RowBounds, durable, Phases, StartupPhases,
     Ending, StopIsNotFailure
<1>12. ASSUME RecoverVolatile
       PROVE  RowsInv'
  <2>1. "Interrupted" \in JobStates /\ "none" \in Errors /\ "Interrupted" # Absent
    BY DEF JobStates, Retryable, Errors, Absent
  <2>2. \A e \in Entries : /\ Recovered(job[e]) \in Row
                           /\ Recovered(job[e]).err # "CANCELLED"
                           /\ Recovered(job[e]).attempt = job[e].attempt
                           /\ Recovered(job[e]).state = Absent <=> job[e].state = Absent
    BY <1>a, <1>b, <2>1, TransitionEffect DEF Recovered, Active, Absent, StopIsNotFailure
  <2>3. job' \in [Entries -> Row] /\ \A e \in Entries : job'[e] = Recovered(job[e])
    BY <1>12, <2>2 DEF RecoverVolatile
  <2>4. phase = "down" /\ phase' = "booting" /\ UNCHANGED <<artifact, downs>>  BY <1>12 DEF RecoverVolatile
  <2> QED BY <2>2, <2>3, <2>4, <1>a DEF RowsInv, RowsOK, Row, ProcessOK, RowBounds, Phases,
            StartupPhases, Ending, StopIsNotFailure
<1>13. ASSUME Resume, UNCHANGED <<artifact, downs>>, phase' \in {"resuming", "running"},
              phase = "booting" \/ \A e \in Resumable : job[e].attempt < MaxAttempt
       PROVE  RowsInv'
  <2>1. \A e \in Entries : job[e].attempt < MaxAttempt + downs => Requeue(job[e]) \in Row
    BY <1>a, <1>b DEF Requeue, Row, JobStates, Active, Errors, MaxAttempts, ProcessOK
  <2> QED BY <1>13, <2>1, <1>a, <1>b DEF Resume, Resumable, Requeue, RowsInv, RowsOK, Row,
            ProcessOK, RowBounds, Absent, Phases, StartupPhases, Ending, StopIsNotFailure
<1>14. ASSUME ResumeInterrupted
       PROVE  RowsInv'
  <2>1. CASE Resume /\ phase' = "resuming"  BY <1>13, <1>14, <2>1 DEF ResumeInterrupted, Phases, StartupPhases
  <2>2. CASE UNCHANGED job /\ phase' = "running"
    BY <1>0, <1>14, <2>2 DEF ResumeInterrupted, durable, Phases, StartupPhases, Ending
  <2> QED BY <1>14, <2>1, <2>2 DEF ResumeInterrupted
<1>15. ASSUME NEW u \in Users, Reconcile(u)
       PROVE  RowsInv'  BY <1>13, <1>15 DEF Reconcile, GateOpen
<1>16. ASSUME NEW c \in Coordinators,
              \/ Pop(c) \/ ExitCoordinator(c) \/ Claim(c) \/ Insert(c) \/ Recheck(c) \/ Resolve(c)
              \/ PrepareLayout(c) \/ StartPage(c) \/ FinishPage(c) \/ PagesDone(c) \/ Handoff(c)
       PROVE  RowsInv'
  BY <1>16, <1>0, <1>a DEF Pop, ExitCoordinator, Claim, Insert, Recheck, Resolve, PrepareLayout,
     StartPage, FinishPage, PagesDone, Handoff, procVars, ProcessOK, durable
<1>17. ASSUME NEW f \in Finalizers, PopFinal(f) \/ ExitFinalizer(f) \/ VerifyBundle(f)
       PROVE  RowsInv'
  BY <1>17, <1>0, <1>a DEF PopFinal, ExitFinalizer, VerifyBundle, procVars, ProcessOK, durable
<1>18. ASSUME NEW t \in Threads, CheckCancelled(t) \/ HandleError(t) \/ Release(t) \/ Forget(t)
       PROVE  RowsInv'
  BY <1>18, <1>0, <1>a DEF CheckCancelled, HandleError, Release, Forget, procVars, ProcessOK, durable
<1>19. ASSUME NEW u \in Users, Launch(u) \/ CancelEntries(u) \/ Reconciled(u)
       PROVE  RowsInv'
  BY <1>19, <1>0, <1>a DEF Launch, CancelEntries, Reconciled, procVars, ProcessOK, durable
<1>20. ASSUME \/ RequestQuit \/ CancelStartup \/ SetShuttingDown \/ CloseQueue \/ CancelTokens
              \/ ClosePages \/ CloseFinalizing \/ CommitReady \/ StartupCancelled \/ LaunchResumed
       PROVE  RowsInv'
  BY <1>20, <1>0, <1>a DEF RequestQuit, CancelStartup, SetShuttingDown, CloseQueue, CancelTokens,
     ClosePages, CloseFinalizing, CommitReady, StartupCancelled, LaunchResumed, ProcessOK, Phases,
     StartupPhases, durable, Ending
<1>21. CASE UNCHANGED vars  BY <1>21, <1>0, <1>a DEF vars, procVars, ProcessOK
<1> QED BY <1>1, <1>2, <1>3, <1>4, <1>5, <1>6, <1>7, <1>8, <1>9, <1>10, <1>11, <1>12, <1>14, <1>15,
           <1>16, <1>17, <1>18, <1>19, <1>20, <1>21
    DEF Next, CoordinatorStep, FinalizerStep, CommonStep, CommandStep, QuitStep, BootStep, Exit, Crash

----
(* A row that exists gives a descriptor of its entry. *)
LEMMA RowDescriptor ==
  ASSUME RowsInv, NEW e \in Entries
  PROVE  /\ job[e].state # Absent => Desc(e) \in Descriptors
         /\ job[e].attempt < MaxAttempts
              => [entry |-> e, attempt |-> job[e].attempt + 1] \in Descriptors
  BY SupervisorAssumption
     DEF RowsInv, RowsOK, RowBounds, Desc, Descriptors, Attempts, MaxAttempts

(* The command of one user changes, to a descriptor or to none. *)
LEMMA BegunKeepsCommands ==
  ASSUME CommandsOK, NEW u \in Users, NEW op \in {"idle", "launch", "requeue", "cancel", "reconcile"},
         NEW d \in Descriptors \cup {NoDesc}, op \in {"idle", "reconcile"} \/ d \in Descriptors,
         Begun(u, op, d)
  PROVE  CommandsOK'  BY DEF CommandsOK, Begun

(* A command that returns leaves the commands well typed. *)
LEMMA DoneKeepsCommands ==
  ASSUME CommandsOK, NEW u \in Users, cmd' = [cmd EXCEPT ![u] = NoCmd]
  PROVE  CommandsOK'  BY DEF CommandsOK, NoCmd

(* Commands keep their type in every step. *)
LEMMA CommandsStep ==
  ASSUME TypeOK, RowsInv, [Next]_vars
  PROVE  CommandsOK'
<1> USE SupervisorAssumption
<1>a. CommandsOK  BY DEF TypeOK
<1>0. ASSUME UNCHANGED cmd
      PROVE  CommandsOK'  BY <1>0, <1>a DEF CommandsOK
<1>1. ASSUME NEW u \in Users, NEW e \in Entries, DownloadQueueAdd(u, e)
      PROVE  CommandsOK'
  <2>1. [entry |-> e, attempt |-> 1] \in Descriptors  BY DEF Descriptors, Attempts, MaxAttempts
  <2> QED BY <1>1, <1>a, <2>1, BegunKeepsCommands DEF DownloadQueueAdd
<1>2. ASSUME NEW u \in Users, NEW e \in Entries,
             DownloadRetry(u, e) \/ OverlapDecisionResume(u, e)
      PROVE  CommandsOK'
  <2>1. job[e].attempt < MaxAttempts  BY <1>2 DEF DownloadRetry, OverlapDecisionResume, MaxAttempts, RowsInv, RowsOK
  <2> QED BY <1>2, <1>a, <2>1, RowDescriptor, BegunKeepsCommands
      DEF DownloadRetry, OverlapDecisionResume
<1>3. ASSUME NEW u \in Users, NEW e \in Entries, DownloadCancel(u, e)
      PROVE  CommandsOK'  BY <1>3, <1>a, RowDescriptor, BegunKeepsCommands DEF DownloadCancel
<1>4. ASSUME NEW u \in Users, Reconcile(u)
      PROVE  CommandsOK'  BY <1>4, <1>a, BegunKeepsCommands DEF Reconcile
<1>5. ASSUME NEW u \in Users, Launch(u) \/ CancelEntries(u) \/ Reconciled(u)
      PROVE  CommandsOK'  BY <1>5, <1>a, DoneKeepsCommands DEF Launch, CancelEntries, Reconciled
<1>6. ASSUME Stopped
      PROVE  CommandsOK'  BY <1>6 DEF Stopped, CommandsOK, NoCmd
<1>7. ASSUME NEW c \in Coordinators, CoordinatorStep(c)
      PROVE  UNCHANGED cmd
  BY <1>7 DEF CoordinatorStep, Pop, ExitCoordinator, Claim, Insert, Recheck, PipelineBegin,
     Resolve, PipelinePrepare, PrepareLayout, StartPage, FinishPage, PageConflict, PagesDone, Handoff
<1>8. ASSUME NEW f \in Finalizers, FinalizerStep(f)
      PROVE  UNCHANGED cmd
  BY <1>8 DEF FinalizerStep, PopFinal, ExitFinalizer, VerifyBundle, OverlapGate, PipelineComplete
<1>9. ASSUME NEW t \in Threads, CommonStep(t)
      PROVE  UNCHANGED cmd
  BY <1>9 DEF CommonStep, CheckCancelled, PipelineStage, HandleError, PipelineFail, Release, Forget
<1>10. ASSUME RequestQuit \/ CancelStartup \/ BootStep
       PROVE  UNCHANGED cmd
  BY <1>10 DEF RequestQuit, CancelStartup, BootStep, RecoverVolatile, ResumeInterrupted,
     LaunchResumed, CommitReady, StartupCancelled
<1>11. ASSUME QuitStep \/ Crash
       PROVE  UNCHANGED cmd \/ Stopped
  BY <1>11 DEF QuitStep, SetShuttingDown, CloseQueue, CancelTokens, ClosePages, CloseFinalizing,
     Exit, Crash
<1>12. CASE UNCHANGED vars  BY <1>0, <1>12 DEF vars
<1> QED BY <1>0, <1>1, <1>2, <1>3, <1>4, <1>5, <1>6, <1>7, <1>8, <1>9, <1>10, <1>11, <1>12
    DEF Next, CommandStep

----
ThreadsInv ==
  /\ ThreadsOK
  /\ \A t \in Threads : thread[t].pc = "inpage" => thread[t].left > 0

(* Only the thread t moves, to the program counter pc with the error err; it
   keeps its descriptor. *)
Moves(t, pc, err) ==
  /\ thread' \in [Threads -> ThreadRecord]
  /\ thread'[t].pc = pc /\ thread'[t].err = err
  /\ thread'[t].desc = thread[t].desc
  /\ \A s \in Threads \ {t} : thread'[s] = thread[s]

(* Goto moves only its thread, and keeps the error of it. *)
LEMMA GotoMoves ==
  ASSUME ThreadsOK, NEW t \in Threads, NEW pc \in Pcs, Goto(t, pc)
  PROVE  Moves(t, pc, thread[t].err) /\ thread'[t].left = thread[t].left
  BY DEF Goto, Moves, ThreadsOK, ThreadRecord

(* Raise moves only its thread, to the failure path. *)
LEMMA RaiseMoves ==
  ASSUME ThreadsOK, NEW t \in Threads, NEW err \in Errors, Raise(t, err)
  PROVE  Moves(t, "error", err)  BY DEF Raise, Moves, ThreadsOK, ThreadRecord, Pcs

(* A move of one thread keeps all threads well formed. *)
LEMMA MovesKeepThreads ==
  ASSUME ThreadsInv, NEW t \in Threads, NEW pc \in Pcs, NEW err, Moves(t, pc, err),
         thread[t].pc \notin {"idle", "exited"} \/ pc = "exited",
         pc = "inpage" => thread'[t].left > 0
  PROVE  ThreadsInv'  BY DEF ThreadsInv, ThreadsOK, Moves, ThreadRecord

----
(* The tokens of all owners have been cancelled. *)
Late == phase \in {"closePages", "closeFinalizing", "join"}

Runs(t) == Holds(t) /\ ~At(t, "recheck")

(* One step of an attempt that is being worked on: the thread keeps its
   descriptor and the ownership, fails as cancelled only when its token says
   so or a queue is closed, and goes on to pipeline_fail with a live token. *)
Works(t) ==
  /\ Runs(t)
  /\ \E pc \in HoldingPcs \ {"recheck"}, err \in Errors :
       /\ Moves(t, pc, err)
       /\ pc = "inpage" => thread'[t].left > 0
       /\ err = "CANCELLED" /\ err # thread[t].err => TokenCancelled(t) \/ Late
       /\ pc = "fail" => ~TokenCancelled(t) /\ err = thread[t].err
  /\ UNCHANGED <<queueVars, ownVars, finalizing, procVars>>

(* Goto is a step of a thread at work. *)
LEMMA GotoWorks ==
  ASSUME ThreadsOK, NEW t \in Threads, Runs(t), NEW pc \in HoldingPcs \ {"recheck"}, Goto(t, pc),
         pc = "inpage" => thread[t].left > 0, pc = "fail" => ~TokenCancelled(t),
         UNCHANGED <<queueVars, ownVars, finalizing, procVars>>
  PROVE  Works(t)
<1>1. pc \in Pcs /\ thread[t].err \in Errors  BY DEF HoldingPcs, ThreadsOK
<1>2. Moves(t, pc, thread[t].err) /\ thread'[t].left = thread[t].left  BY <1>1, GotoMoves
<1> QED BY <1>1, <1>2 DEF Works

(* So is Raise. *)
LEMMA RaiseWorks ==
  ASSUME ThreadsOK, NEW t \in Threads, Runs(t), NEW err \in Errors, Raise(t, err),
         err = "CANCELLED" => TokenCancelled(t) \/ Late,
         UNCHANGED <<queueVars, ownVars, finalizing, procVars>>
  PROVE  Works(t)
<1>1. Moves(t, "error", err)  BY RaiseMoves
<1>2. "error" \in HoldingPcs \ {"recheck"}  BY DEF HoldingPcs, Pcs
<1> QED BY <1>1, <1>2 DEF Works

(* Steps of a coordinator that only work on its attempt. *)
CoordinatorWork(c) ==
  \/ PipelineBegin(c) \/ Resolve(c) \/ PipelinePrepare(c) \/ PrepareLayout(c) \/ StartPage(c)
  \/ FinishPage(c) \/ PageConflict(c) \/ PagesDone(c)

(* What the steps of run_download may do to the thread and to the sets it shares. *)
LEMMA CoordinatorWorks ==
  ASSUME ThreadsInv, NEW c \in Coordinators, CoordinatorWork(c)
  PROVE  Works(c)
<1>a. ThreadsOK /\ c \in Threads /\ thread[c] \in ThreadRecord  BY DEF ThreadsInv, ThreadsOK, ThreadRecord, Threads
<1>b. {"SOURCE", "CANCELLED", "STALE", "OCCUPIED", "HASH"} \subseteq Errors  BY DEF Errors
<1>c. /\ CoordinatorPcs \ {"claim", "insert"} \subseteq HoldingPcs
      /\ \A pc \in CoordinatorPcs \ {"claim", "insert", "recheck"} : thread[c].pc = pc => Runs(c)
  BY DEF HoldingPcs, Pcs, Holds, CoordinatorPcs, Runs, At
<1>1. CASE PipelineBegin(c)
  BY <1>1, <1>a, <1>b, <1>c, GotoWorks, RaiseWorks
     DEF PipelineBegin, At, CoordinatorPcs
<1>2. CASE Resolve(c)  BY <1>2, <1>a, <1>b, <1>c, GotoWorks, RaiseWorks DEF Resolve, At, CoordinatorPcs
<1>3. CASE PipelinePrepare(c)
  BY <1>3, <1>a, <1>b, <1>c, GotoWorks, RaiseWorks DEF PipelinePrepare, At, CoordinatorPcs
<1>4. CASE PrepareLayout(c)
  <2>1. Runs(c) /\ UNCHANGED <<queueVars, ownVars, finalizing, procVars>>
    BY <1>4, <1>c DEF PrepareLayout, CoordinatorPcs
  <2>2. CASE thread' = [thread EXCEPT ![c].pc = "pages", ![c].left = NumPages]
    <3>0. NumPages \in 0 .. NumPages  BY SupervisorAssumption
    <3>1. Moves(c, "pages", thread[c].err)
      BY <2>2, <3>0, <1>a DEF Moves, ThreadsOK, ThreadRecord, Pcs, CoordinatorPcs
    <3>2. "pages" \in HoldingPcs \ {"recheck"} /\ thread[c].err \in Errors
      BY <1>a, <1>c DEF ThreadRecord, CoordinatorPcs
    <3> QED BY <2>1, <3>1, <3>2 DEF Works
  <2>3. CASE Raise(c, "OCCUPIED")  BY <2>1, <2>3, <1>a, <1>b, RaiseWorks
  <2> QED BY <1>4, <2>2, <2>3 DEF PrepareLayout
<1>5. CASE StartPage(c)
  BY <1>5, <1>a, <1>b, <1>c, GotoWorks, RaiseWorks
     DEF StartPage, At, CoordinatorPcs, pagesClosed, Late
<1>6. CASE FinishPage(c)
  <2>1. Runs(c) /\ UNCHANGED <<queueVars, ownVars, finalizing, procVars>> /\ thread[c].left > 0
    BY <1>6, <1>a, <1>c DEF FinishPage, CoordinatorPcs, At, ThreadsInv
  <2>2. CASE thread' = [thread EXCEPT ![c].pc = "pages", ![c].left = @ - 1]
    <3>1. thread[c].left - 1 \in 0 .. NumPages  BY <2>1, <1>a, SupervisorAssumption DEF ThreadRecord
    <3>2. Moves(c, "pages", thread[c].err)
      BY <2>2, <3>1, <1>a DEF Moves, ThreadsOK, ThreadRecord, Pcs, CoordinatorPcs
    <3>3. "pages" \in HoldingPcs \ {"recheck"} /\ thread[c].err \in Errors
      BY <1>a, <1>c DEF ThreadRecord, CoordinatorPcs
    <3> QED BY <2>1, <3>2, <3>3 DEF Works
  <2>3. CASE Raise(c, "STALE") \/ Raise(c, IF TokenCancelled(c) THEN "CANCELLED" ELSE "SOURCE")
    BY <2>1, <2>3, <1>a, <1>b, RaiseWorks
  <2> QED BY <1>6, <2>2, <2>3 DEF FinishPage
<1>7. CASE PageConflict(c)  BY <1>7, <1>a, <1>b, <1>c, RaiseWorks DEF PageConflict, At, CoordinatorPcs
<1>8. CASE PagesDone(c)  BY <1>8, <1>a, <1>b, <1>c, GotoWorks, RaiseWorks DEF PagesDone, At, CoordinatorPcs
<1> QED BY <1>1, <1>2, <1>3, <1>4, <1>5, <1>6, <1>7, <1>8 DEF CoordinatorWork

(* Steps of a finalization worker that only work on its attempt. *)
FinalizerWork(f) == VerifyBundle(f) \/ OverlapGate(f) \/ PipelineComplete(f)

(* The same for the steps of finalize_download. *)
LEMMA FinalizerWorks ==
  ASSUME ThreadsInv, NEW f \in Finalizers, FinalizerWork(f)
  PROVE  Works(f)
<1>a. ThreadsOK /\ f \in Threads  BY DEF ThreadsInv, Threads
<1>b. {"SOURCE", "CANCELLED", "STALE", "HASH"} \subseteq Errors  BY DEF Errors
<1>c. /\ FinalizerPcs \cup {"release"} \subseteq HoldingPcs \ {"recheck"}
      /\ \A pc \in FinalizerPcs : thread[f].pc = pc => Runs(f)
  BY DEF HoldingPcs, Pcs, Holds, FinalizerPcs, Runs, At
<1>1. CASE VerifyBundle(f)  BY <1>1, <1>a, <1>b, <1>c, GotoWorks, RaiseWorks DEF VerifyBundle, At, FinalizerPcs
<1>2. CASE OverlapGate(f)  BY <1>2, <1>a, <1>b, <1>c, GotoWorks, RaiseWorks DEF OverlapGate, At, FinalizerPcs
<1>3. CASE PipelineComplete(f)
  BY <1>3, <1>a, <1>b, <1>c, GotoWorks, RaiseWorks DEF PipelineComplete, At, FinalizerPcs
<1> QED BY <1>1, <1>2, <1>3 DEF FinalizerWork

(* Steps of any thread that only work on its attempt. *)
CommonWork(t) == CheckCancelled(t) \/ PipelineStage(t) \/ HandleError(t) \/ PipelineFail(t)

(* The same for the failure path and finish_job. *)
LEMMA CommonWorks ==
  ASSUME ThreadsInv, NEW t \in Threads, CommonWork(t)
  PROVE  Works(t)
<1>a. ThreadsOK  BY DEF ThreadsInv
<1>b. {"CANCELLED", "STALE"} \subseteq Errors  BY DEF Errors
<1>c. \A pc \in HoldingPcs \ {"recheck"} : thread[t].pc = pc => Runs(t)  BY DEF Holds, Runs, At
<1>d. {"check1", "check2", "check3", "resolve", "prepare", "complete", "stage", "verifying",
       "handoff", "error", "fail", "release"} \subseteq HoldingPcs \ {"recheck"}
  BY DEF HoldingPcs, Pcs, CoordinatorPcs, FinalizerPcs
<1>1. CASE CheckCancelled(t)
  <2>1. /\ thread[t].pc \in {"check1", "check2", "check3"}
        /\ AfterCheck[thread[t].pc] \in {"resolve", "prepare", "complete"}
    BY <1>1 DEF CheckCancelled, AfterCheck
  <2> QED BY <1>1, <2>1, <1>a, <1>b, <1>c, <1>d, GotoWorks, RaiseWorks DEF CheckCancelled
<1>2. CASE PipelineStage(t)  BY <1>2, <1>a, <1>b, <1>c, <1>d, GotoWorks, RaiseWorks DEF PipelineStage, At
<1>3. CASE HandleError(t)  BY <1>3, <1>a, <1>c, <1>d, GotoWorks DEF HandleError, At
<1>4. CASE PipelineFail(t)  BY <1>4, <1>a, <1>c, <1>d, GotoWorks DEF PipelineFail, At
<1> QED BY <1>1, <1>2, <1>3, <1>4 DEF CommonWork

(* An album that cannot be handed off any more. *)
LEMMA RefusedHandoffWorks ==
  ASSUME ThreadsInv, NEW c \in Coordinators, Handoff(c), finalizing' = finalizing,
         Raise(c, "CANCELLED"), TokenCancelled(c) \/ finClosed
  PROVE  Works(c)
  BY RaiseWorks DEF Handoff, ThreadsInv, Threads, Errors, At, Holds, Runs, HoldingPcs, Pcs,
     CoordinatorPcs, finClosed, Late

----
(* Every step, by what it does to ownership, tokens and threads. *)
HandedOff(c) ==
  /\ At(c, "handoff") /\ ~TokenCancelled(c) /\ ~finClosed
  /\ finalizing' = Append(finalizing, DescOf(c))
  /\ thread' = [thread EXCEPT ![c] = Idle]
  /\ UNCHANGED <<queueVars, ownVars, procVars>>

Elsewhere == UNCHANGED <<ownVars, thread, finalizing>> /\ (Late' => Late)

StepKinds ==
  \/ \E t \in Threads : Works(t) \/ Release(t) \/ Forget(t)
  \/ \E c \in Coordinators : \/ Pop(c) \/ ExitCoordinator(c) \/ Claim(c) \/ Insert(c)
                             \/ Recheck(c) \/ HandedOff(c)
  \/ \E f \in Finalizers : PopFinal(f) \/ ExitFinalizer(f)
  \/ \E u \in Users : CancelEntries(u)
  \/ CancelTokens \/ Stopped \/ Elsewhere

(* Every step of the supervisor is of one of the kinds above. *)
LEMMA EveryStepHasAKind ==
  ASSUME ThreadsInv, [Next]_vars
  PROVE  StepKinds
<1>1. ASSUME NEW c \in Coordinators, CoordinatorStep(c)
      PROVE  StepKinds
  <2>1. CASE CoordinatorWork(c)  BY <2>1, CoordinatorWorks DEF StepKinds, Threads
  <2>2. CASE Handoff(c)
    <3>1. CASE Raise(c, "CANCELLED") /\ UNCHANGED finalizing /\ (TokenCancelled(c) \/ finClosed)
      BY <2>2, <3>1, RefusedHandoffWorks DEF StepKinds, Threads
    <3>2. CASE HandedOff(c)  BY <3>2 DEF StepKinds
    <3> QED BY <2>2, <3>1, <3>2 DEF Handoff, HandedOff
  <2>3. CASE Pop(c) \/ ExitCoordinator(c) \/ Claim(c) \/ Insert(c) \/ Recheck(c)  BY <2>3 DEF StepKinds
  <2> QED BY <1>1, <2>1, <2>2, <2>3 DEF CoordinatorStep, CoordinatorWork
<1>2. ASSUME NEW f \in Finalizers, FinalizerStep(f)
      PROVE  StepKinds  BY <1>2, FinalizerWorks DEF FinalizerStep, FinalizerWork, StepKinds, Threads
<1>3. ASSUME NEW t \in Threads, CommonStep(t)
      PROVE  StepKinds  BY <1>3, CommonWorks DEF CommonStep, CommonWork, StepKinds
<1>4. ASSUME NEW u \in Users, CommandStep(u)
      PROVE  StepKinds
  <2>1. CancelEntries(u) \/ Elsewhere
    BY <1>4 DEF CommandStep, DownloadQueueAdd, DownloadRetry, OverlapDecisionResume, DownloadCancel,
       Launch, Reconcile, Reconciled, Elsewhere, Late, procVars
  <2> QED BY <2>1 DEF StepKinds
<1>5. ASSUME RequestQuit \/ CancelStartup \/ QuitStep \/ Crash \/ BootStep
      PROVE  StepKinds
  <2>1. CancelTokens \/ Stopped \/ Elsewhere
    BY <1>5 DEF RequestQuit, CancelStartup, QuitStep, SetShuttingDown, CloseQueue, ClosePages,
       CloseFinalizing, Exit, Crash, BootStep, RecoverVolatile, ResumeInterrupted, LaunchResumed,
       CommitReady, StartupCancelled, Elsewhere, Late
  <2> QED BY <2>1 DEF StepKinds
<1>6. CASE UNCHANGED vars  BY <1>6 DEF vars, StepKinds, Elsewhere, Late, procVars
<1> QED BY <1>1, <1>2, <1>3, <1>4, <1>5, <1>6 DEF Next

(* Threads keep their type, and a page is only fetched while one is left. *)
LEMMA ThreadsStep ==
  ASSUME TypeOK, ThreadsInv, [Next]_vars
  PROVE  ThreadsInv'
<1>a. ThreadsOK /\ QueuesOK  BY DEF TypeOK
<1>b. Idle \in ThreadRecord /\ {"claim", "insert", "recheck", "forget", "exited", "verify", "begin"} \subseteq Pcs
  BY SupervisorAssumption
     DEF Idle, ThreadRecord, Pcs, CoordinatorPcs, FinalizerPcs, Errors
<1>0. ASSUME UNCHANGED thread
      PROVE  ThreadsInv'  BY <1>0 DEF ThreadsInv, ThreadsOK
<1>1. ASSUME NEW t \in Threads, NEW r \in ThreadRecord, thread' = [thread EXCEPT ![t] = r],
             r.pc # "inpage", r.pc = "idle" \/ r.desc \in Descriptors
      PROVE  ThreadsInv'  BY <1>1 DEF ThreadsInv, ThreadsOK, ThreadRecord
<1>2. ASSUME NEW t \in Threads, Works(t)
      PROVE  ThreadsInv'
  <2>1. thread[t].pc \notin {"idle", "exited"}  BY <1>2 DEF Works, Runs, Holds, HoldingPcs
  <2> QED BY <1>2, <2>1, MovesKeepThreads DEF Works, HoldingPcs
<1>3. ASSUME NEW t \in Threads, NEW pc \in {"claim", "insert", "recheck", "forget", "begin"},
             thread[t].pc \notin {"idle", "exited"}, Goto(t, pc)
      PROVE  ThreadsInv'
  <2>1. Moves(t, pc, thread[t].err)  BY <1>3, <1>a, <1>b, GotoMoves
  <2> QED BY <2>1, <1>b, <1>3, MovesKeepThreads
<1>4. ASSUME NEW t \in Threads, Goto(t, "exited")
      PROVE  ThreadsInv'
  <2>1. Moves(t, "exited", thread[t].err)  BY <1>4, <1>a, <1>b, GotoMoves
  <2> QED BY <2>1, <1>b, MovesKeepThreads
<1>5. ASSUME NEW t \in Threads, Release(t) \/ Forget(t)
      PROVE  ThreadsInv'  BY <1>1, <1>3, <1>5, <1>b DEF Release, Forget, At, Idle
<1>6. ASSUME NEW c \in Coordinators,
             \/ Pop(c) \/ ExitCoordinator(c) \/ Claim(c) \/ Insert(c) \/ Recheck(c) \/ HandedOff(c)
      PROVE  ThreadsInv'
  <2>1. c \in Threads  BY DEF Threads
  <2>2. CASE Pop(c)
    <3>1. Head(pending) \in Descriptors  BY <2>2, <1>a DEF Pop, QueuesOK
    <3>2. [Idle EXCEPT !.pc = "claim", !.desc = Head(pending)] \in ThreadRecord  BY <3>1, <1>b DEF Idle, ThreadRecord
    <3> QED BY <2>1, <2>2, <3>1, <3>2, <1>1 DEF Pop, Idle
  <2>3. CASE ExitCoordinator(c)  BY <2>1, <2>3, <1>4 DEF ExitCoordinator
  <2>4. CASE Claim(c) \/ Insert(c) \/ Recheck(c)  BY <2>1, <2>4, <1>3 DEF Claim, Insert, Recheck, At
  <2>5. CASE HandedOff(c)  BY <2>1, <2>5, <1>1, <1>b DEF HandedOff, Idle
  <2> QED BY <1>6, <2>2, <2>3, <2>4, <2>5
<1>7. ASSUME NEW f \in Finalizers, PopFinal(f) \/ ExitFinalizer(f)
      PROVE  ThreadsInv'
  <2>1. f \in Threads  BY DEF Threads
  <2>2. CASE PopFinal(f)
    <3>1. Head(finalizing) \in Descriptors  BY <2>2, <1>a DEF PopFinal, QueuesOK
    <3>2. [Idle EXCEPT !.pc = "verify", !.desc = Head(finalizing)] \in ThreadRecord
      BY <3>1, <1>b DEF Idle, ThreadRecord
    <3> QED BY <2>1, <2>2, <3>1, <3>2, <1>1 DEF PopFinal, Idle
  <2>3. CASE ExitFinalizer(f)  BY <2>1, <2>3, <1>4 DEF ExitFinalizer
  <2> QED BY <1>7, <2>2, <2>3
<1>8. ASSUME Stopped
      PROVE  ThreadsInv'  BY <1>8, <1>b DEF Stopped, ThreadsInv, ThreadsOK, ThreadRecord, Idle
<1>9. ASSUME CancelTokens \/ Elsewhere \/ \E u \in Users : CancelEntries(u)
      PROVE  ThreadsInv'  BY <1>9, <1>0 DEF CancelTokens, Elsewhere, CancelEntries
<1> QED BY <1>2, <1>5, <1>6, <1>7, <1>8, <1>9, EveryStepHasAKind DEF StepKinds

----
(* Whoever holds an attempt owns it, no two places hold the same attempt,
   and no two owners are attempts of the same entry. *)
Fence ==
  /\ \A t \in Threads : Holds(t) => DescOf(t) \in owner
  /\ \A i \in DOMAIN finalizing : finalizing[i] \in owner
  /\ \A d1, d2 \in owner : d1.entry = d2.entry => d1 = d2
  /\ \A s, t \in Threads : s # t /\ Holds(s) /\ Holds(t) => DescOf(s) # DescOf(t)
  /\ \A t \in Threads, i \in DOMAIN finalizing : Holds(t) => DescOf(t) # finalizing[i]
  /\ \A i, j \in DOMAIN finalizing : i # j => finalizing[i] # finalizing[j]

(* Enqueue keeps the queue and the set of known keys well typed. *)
LEMMA EnqueueKeepsQueues ==
  ASSUME QueuesOK, NEW d \in Descriptors, Enqueue(d)
  PROVE  pending' \in Seq(Descriptors) /\ known' \subseteq Descriptors  BY DEF QueuesOK, Enqueue, queueVars

(* The queues, the owners and their tokens keep their type. *)
LEMMA QueuesStep ==
  ASSUME TypeOK, RowsInv, ThreadsInv, Fence, [Next]_vars
  PROVE  QueuesOK'
<1>a. QueuesOK /\ ThreadsOK /\ CommandsOK  BY DEF TypeOK
<1>0. ASSUME UNCHANGED <<queueVars, ownVars, finalizing, launching>>
      PROVE  QueuesOK'  BY <1>0, <1>a DEF QueuesOK, queueVars, ownVars
<1>1. ASSUME UNCHANGED <<ownVars, finalizing>>, launching' \subseteq Descriptors,
             pending' \in Seq(Descriptors), known' \subseteq Descriptors
      PROVE  QueuesOK'  BY <1>1, <1>a DEF QueuesOK, ownVars
<1>2. ASSUME NEW t \in Threads, Works(t)
      PROVE  QueuesOK'  BY <1>0, <1>2 DEF Works, procVars
<1>3. ASSUME NEW t \in Threads, Release(t) \/ Forget(t)
      PROVE  QueuesOK'  BY <1>3, <1>a DEF Release, Forget, QueuesOK, queueVars, ownVars, procVars
<1>4. ASSUME NEW c \in Coordinators,
             \/ Pop(c) \/ ExitCoordinator(c) \/ Claim(c) \/ Insert(c) \/ Recheck(c) \/ HandedOff(c)
      PROVE  QueuesOK'
  <2>1. c \in Threads  BY DEF Threads
  <2>2. CASE Pop(c)  BY <2>2, <1>a DEF Pop, QueuesOK, ownVars, procVars
  <2>3. CASE ExitCoordinator(c) \/ Claim(c)  BY <2>3, <1>0 DEF ExitCoordinator, Claim, procVars
  <2>4. CASE Insert(c)
    <3>1. DescOf(c) \in Descriptors  BY <2>1, <2>4, <1>a, WorksForEntry DEF Insert, At
    <3> QED BY <2>4, <3>1, <1>a DEF Insert, QueuesOK, queueVars, ownVars, procVars
  <2>5. CASE Recheck(c)
    <3>1. \/ cancelled' = cancelled
          \/ cancelled' = cancelled \cup {DescOf(c)}  BY <2>5 DEF Recheck
    <3>2. DescOf(c) \in owner  BY <2>1, <2>5 DEF Recheck, At, Fence, Holds, HoldingPcs, Pcs, CoordinatorPcs
    <3> QED BY <2>5, <3>1, <3>2, <1>a DEF Recheck, QueuesOK, queueVars, procVars
  <2>6. CASE HandedOff(c)
    <3>1. DescOf(c) \in Descriptors  BY <2>1, <2>6, <1>a, WorksForEntry DEF HandedOff, At
    <3> QED BY <2>6, <3>1, <1>a DEF HandedOff, QueuesOK, queueVars, ownVars, procVars
  <2> QED BY <1>4, <2>2, <2>3, <2>4, <2>5, <2>6
<1>5. ASSUME NEW f \in Finalizers, PopFinal(f) \/ ExitFinalizer(f)
      PROVE  QueuesOK'
  <2>1. CASE PopFinal(f)
    <3>1. finalizing' \in Seq(Descriptors)  BY <2>1, <1>a DEF PopFinal, QueuesOK
    <3> QED BY <2>1, <3>1, <1>a DEF PopFinal, QueuesOK, queueVars, ownVars, procVars
  <2>2. CASE ExitFinalizer(f)  BY <2>2, <1>0 DEF ExitFinalizer, procVars
  <2> QED BY <1>5, <2>1, <2>2
<1>6. ASSUME NEW u \in Users, CommandStep(u)
      PROVE  QueuesOK'
  <2>1. CASE Launch(u)
    <3>1. cmd[u].desc \in Descriptors  BY <2>1, <1>a DEF Launch, CommandsOK
    <3> QED BY <2>1, <3>1, <1>a, <1>1, EnqueueKeepsQueues DEF Launch, QueuesOK, procVars
  <2>2. CASE CancelEntries(u)  BY <2>2, <1>a DEF CancelEntries, QueuesOK, queueVars, procVars
  <2>3. CASE Reconcile(u)
    <3>1. launching' \subseteq Descriptors
      BY <2>3, RowDescriptor, SupervisorAssumption
         DEF Reconcile, Resume, Resumable, MaxAttempts, RowsInv, RowsOK
    <3> QED BY <2>3, <3>1, <1>a, <1>1 DEF Reconcile, QueuesOK, queueVars
  <2>4. CASE Reconciled(u)  BY <2>4, <1>0 DEF Reconciled, procVars
  <2>5. ASSUME NEW e \in Entries,
               \/ DownloadQueueAdd(u, e) \/ DownloadRetry(u, e)
               \/ OverlapDecisionResume(u, e) \/ DownloadCancel(u, e)
        PROVE  QueuesOK'
    BY <2>5, <1>0 DEF DownloadQueueAdd, DownloadRetry, OverlapDecisionResume, DownloadCancel, procVars
  <2> QED BY <1>6, <2>1, <2>2, <2>3, <2>4, <2>5 DEF CommandStep
<1>7. ASSUME RequestQuit \/ CancelStartup \/ QuitStep \/ Crash
      PROVE  QueuesOK'
  <2>1. CASE CloseQueue  BY <2>1, <1>a DEF CloseQueue, QueuesOK, ownVars
  <2>2. CASE CancelTokens  BY <2>2, <1>a DEF CancelTokens, QueuesOK, queueVars
  <2>3. CASE Stopped  BY <2>3 DEF Stopped, QueuesOK
  <2>4. CASE RequestQuit \/ CancelStartup \/ SetShuttingDown \/ ClosePages \/ CloseFinalizing
    BY <2>4, <1>0 DEF RequestQuit, CancelStartup, SetShuttingDown, ClosePages, CloseFinalizing
  <2> QED BY <1>7, <2>1, <2>2, <2>3, <2>4 DEF QuitStep, Exit, Crash
<1>8. ASSUME BootStep
      PROVE  QueuesOK'
  <2>1. CASE ResumeInterrupted
    <3>1. \A e \in Entries : phase = "booting" => job[e].attempt < MaxAttempts
      BY SupervisorAssumption DEF RowsInv, RowsOK, RowBounds, ProcessOK, MaxAttempts
    <3>2. launching' \subseteq Descriptors
      BY <2>1, <3>1, <1>a, RowDescriptor DEF ResumeInterrupted, Resume, Resumable, QueuesOK
    <3> QED BY <2>1, <3>2, <1>a, <1>1 DEF ResumeInterrupted, QueuesOK, queueVars
  <2>2. CASE LaunchResumed  BY <2>2, <1>a, <1>1, EnqueueKeepsQueues DEF LaunchResumed, QueuesOK
  <2>3. CASE RecoverVolatile \/ CommitReady \/ StartupCancelled
    BY <2>3, <1>0 DEF RecoverVolatile, CommitReady, StartupCancelled
  <2> QED BY <1>8, <2>1, <2>2, <2>3 DEF BootStep
<1>9. ASSUME NEW c \in Coordinators, CoordinatorStep(c)
      PROVE  QueuesOK'
  <2>1. CASE Handoff(c)
    <3>1. CASE Raise(c, "CANCELLED") /\ UNCHANGED finalizing /\ (TokenCancelled(c) \/ finClosed)
      BY <2>1, <3>1, <1>2, RefusedHandoffWorks DEF Threads
    <3> QED BY <2>1, <3>1, <1>4 DEF Handoff, HandedOff
  <2>2. CASE CoordinatorWork(c)  BY <2>2, <1>2, CoordinatorWorks DEF Threads
  <2> QED BY <1>9, <1>4, <2>1, <2>2 DEF CoordinatorStep, CoordinatorWork
<1>10. ASSUME NEW f \in Finalizers, FinalizerStep(f)
       PROVE  QueuesOK'  BY <1>10, <1>2, <1>5, FinalizerWorks DEF FinalizerStep, FinalizerWork, Threads
<1>11. ASSUME NEW t \in Threads, CommonStep(t)
       PROVE  QueuesOK'  BY <1>11, <1>2, <1>3, CommonWorks DEF CommonStep, CommonWork
<1>12. CASE UNCHANGED vars  BY <1>0, <1>12 DEF vars, procVars
<1> QED BY <1>6, <1>7, <1>8, <1>9, <1>10, <1>11, <1>12 DEF Next

----
(* A step after which no thread holds more than before keeps the fence. *)
LEMMA FenceFrame ==
  ASSUME Fence, UNCHANGED <<owner, finalizing>>,
         \A s \in Threads : Holds(s)' => Holds(s) /\ thread'[s].desc = thread[s].desc
  PROVE  Fence'  BY DEF Fence, DescOf

(* The entry-ownership fence is kept by every step. *)
LEMMA FenceStep ==
  ASSUME TypeOK, ThreadsInv, Fence, [Next]_vars
  PROVE  Fence'
<1>a. QueuesOK /\ ThreadsOK  BY DEF TypeOK
<1>1. ASSUME NEW t \in Threads, Works(t)
      PROVE  Fence'
  <2>1. \A s \in Threads : Holds(s)' => Holds(s) /\ thread'[s].desc = thread[s].desc
    BY <1>1 DEF Works, Runs, Moves, Holds
  <2> QED BY <1>1, <2>1, FenceFrame DEF Works, ownVars
<1>2. ASSUME NEW t \in Threads, Release(t)
      PROVE  Fence'
  <2>1. Moves(t, "forget", thread[t].err)  BY <1>2, <1>a, GotoMoves DEF Release, Pcs
  <2>2. Holds(t) /\ ~Holds(t)'  BY <1>2, <2>1 DEF Release, At, Moves, Holds, HoldingPcs, Pcs
  <2>3. \A s \in Threads \ {t} : /\ Holds(s)' <=> Holds(s)
                                 /\ DescOf(s)' = DescOf(s)  BY <2>1 DEF Moves, Holds, DescOf
  <2> QED BY <1>2, <2>2, <2>3 DEF Release, Fence
<1>3. ASSUME NEW t \in Threads, Forget(t)
      PROVE  Fence'
  <2>1. \A s \in Threads : Holds(s)' => Holds(s) /\ thread'[s].desc = thread[s].desc
    BY <1>3, <1>a DEF Forget, ThreadsOK, Holds, HoldingPcs, Idle
  <2> QED BY <1>3, <2>1, FenceFrame DEF Forget, ownVars
<1>4. ASSUME NEW c \in Coordinators, Pop(c) \/ ExitCoordinator(c) \/ Claim(c) \/ Recheck(c)
      PROVE  Fence'
  <2>1. \A s \in Threads : Holds(s)' => Holds(s) /\ thread'[s].desc = thread[s].desc
    <3>1. c \in Threads  BY DEF Threads
    <3>2. CASE Pop(c)  BY <3>1, <3>2, <1>a DEF Pop, ThreadsOK, Holds, HoldingPcs, Idle
    <3>3. CASE ExitCoordinator(c)  BY <3>1, <3>3, <1>a DEF ExitCoordinator, Goto, ThreadsOK, Holds, HoldingPcs
    <3>4. CASE Claim(c)  BY <3>1, <3>4, <1>a DEF Claim, Goto, ThreadsOK, Holds, HoldingPcs
    <3>5. CASE Recheck(c)
      BY <3>1, <3>5, <1>a
         DEF Recheck, At, Goto, ThreadsOK, Holds, HoldingPcs, Pcs, CoordinatorPcs
    <3> QED BY <1>4, <3>2, <3>3, <3>4, <3>5
  <2> QED BY <1>4, <2>1, FenceFrame DEF Pop, ExitCoordinator, Claim, Recheck, ownVars
<1>5. ASSUME NEW c \in Coordinators, Insert(c)
      PROVE  Fence'
  <2>0. c \in Threads /\ ~Holds(c)  BY <1>5 DEF Threads, Insert, At, Holds, HoldingPcs
  <2>1. CASE Fenced(DescOf(c))
    <3>1. \A s \in Threads : Holds(s)' => Holds(s) /\ thread'[s].desc = thread[s].desc
      BY <1>5, <2>0, <2>1, <1>a DEF Insert, Goto, ThreadsOK, Holds, HoldingPcs
    <3> QED BY <1>5, <2>1, <3>1, FenceFrame DEF Insert, ownVars
  <2>2. CASE ~Fenced(DescOf(c))
    <3>1. Moves(c, "recheck", thread[c].err)  BY <1>5, <2>0, <2>2, <1>a, GotoMoves DEF Insert, Pcs, CoordinatorPcs
    <3>2. \A s \in Threads \ {c} : (Holds(s)' <=> Holds(s)) /\ DescOf(s)' = DescOf(s)
      BY <3>1 DEF Moves, Holds, DescOf
    <3>3. DescOf(c)' = DescOf(c) /\ owner' = owner \cup {DescOf(c)} /\ finalizing' = finalizing
      BY <1>5, <2>2, <3>1 DEF Insert, Moves, DescOf
    <3>4. \A d \in owner : d.entry # DescOf(c).entry /\ d # DescOf(c)  BY <2>2 DEF Fenced
    <3> QED BY <2>0, <3>2, <3>3, <3>4 DEF Fence
  <2> QED BY <2>1, <2>2
<1>6. ASSUME NEW c \in Coordinators, HandedOff(c)
      PROVE  Fence'
  <2>0. c \in Threads /\ Holds(c) /\ ~Holds(c)'
    BY <1>6, <1>a DEF Threads, HandedOff, At, Holds, HoldingPcs, Pcs, CoordinatorPcs, Idle, ThreadsOK
  <2>1. \A s \in Threads \ {c} : (Holds(s)' <=> Holds(s)) /\ DescOf(s)' = DescOf(s)
    BY <1>6, <1>a DEF HandedOff, Holds, DescOf, ThreadsOK
  <2>2. DescOf(c) \in Descriptors  BY <1>6, <2>0, <1>a, WorksForEntry DEF HandedOff, At
  <2>3. /\ DOMAIN finalizing' = 1 .. Len(finalizing) + 1
        /\ DOMAIN finalizing = 1 .. Len(finalizing) /\ Len(finalizing) \in Nat
        /\ \A i \in DOMAIN finalizing : finalizing'[i] = finalizing[i]
        /\ finalizing'[Len(finalizing) + 1] = DescOf(c)  BY <1>6, <2>2, <1>a DEF HandedOff, QueuesOK
  <2>4. owner' = owner  BY <1>6 DEF HandedOff, ownVars
  <2> QED BY <2>0, <2>1, <2>3, <2>4 DEF Fence
<1>7. ASSUME NEW f \in Finalizers, PopFinal(f)
      PROVE  Fence'
  <2>0. f \in Threads /\ ~Holds(f)  BY <1>7 DEF Threads, PopFinal, At, Holds, HoldingPcs
  <2>1. \A s \in Threads \ {f} : (Holds(s)' <=> Holds(s)) /\ DescOf(s)' = DescOf(s)
    BY <1>7, <1>a DEF PopFinal, Holds, DescOf, ThreadsOK
  <2>2. DescOf(f)' = Head(finalizing)  BY <1>7, <2>0, <1>a DEF PopFinal, DescOf, ThreadsOK, Idle
  <2>3. /\ DOMAIN finalizing' = 1 .. Len(finalizing) - 1
        /\ DOMAIN finalizing = 1 .. Len(finalizing) /\ Len(finalizing) \in Nat \ {0}
        /\ \A i \in DOMAIN finalizing' : finalizing'[i] = finalizing[i + 1]
        /\ Head(finalizing) = finalizing[1]  BY <1>7, <1>a DEF PopFinal, QueuesOK
  <2>4. owner' = owner  BY <1>7 DEF PopFinal, ownVars
  <2> QED BY <2>0, <2>1, <2>2, <2>3, <2>4 DEF Fence
<1>8. ASSUME NEW f \in Finalizers, ExitFinalizer(f)
      PROVE  Fence'
  <2>1. \A s \in Threads : Holds(s)' => Holds(s) /\ thread'[s].desc = thread[s].desc
    BY <1>8, <1>a DEF ExitFinalizer, Goto, ThreadsOK, Holds, HoldingPcs, Threads
  <2> QED BY <1>8, <2>1, FenceFrame DEF ExitFinalizer, ownVars
<1>9. ASSUME Stopped
      PROVE  Fence'  BY <1>9 DEF Stopped, Fence, Holds, HoldingPcs, Idle
<1>10. ASSUME CancelTokens \/ Elsewhere \/ \E u \in Users : CancelEntries(u)
       PROVE  Fence'  BY <1>10, FenceFrame DEF CancelTokens, Elsewhere, CancelEntries, Holds, ownVars
<1> QED BY <1>1, <1>2, <1>3, <1>4, <1>5, <1>6, <1>7, <1>8, <1>9, <1>10, EveryStepHasAKind
    DEF StepKinds

(* The fence is what makes an artifact exclusive: two holders have distinct
   attempts, both owned, so they belong to distinct entries. *)
LEMMA FenceExcludes ==
  ASSUME Fence
  PROVE  ExclusiveArtifact  BY DEF Fence, ExclusiveArtifact

----
(* A thread that gave up as cancelled has a cancelled token, so it never
   reaches pipeline_fail; once the tokens were cancelled, every attempt in
   work is cancelled, except one just inserted that still has to re-check. *)
Tokens ==
  /\ \A t \in Threads : Holds(t) /\ thread[t].err = "CANCELLED" => DescOf(t) \in cancelled
  /\ \A t \in Threads : thread[t].pc \in {"claim", "insert", "fail"} => thread[t].err # "CANCELLED"
  /\ Late => \A t \in Threads : Holds(t) /\ ~At(t, "recheck") => DescOf(t) \in cancelled
  /\ Late => \A i \in DOMAIN finalizing : finalizing[i] \in cancelled

(* A thread that is about to write a failure did not give up as cancelled. *)
LEMMA TokensMeanRealFailures ==
  ASSUME Tokens
  PROVE  FailureIsReal  BY DEF Tokens, FailureIsReal, At

(* A step that cancels no less and holds no more keeps the tokens. *)
LEMMA TokensFrame ==
  ASSUME Tokens, Late' => Late, finalizing' = finalizing, cancelled \subseteq cancelled',
         \A s \in Threads : \/ thread'[s] = thread[s]
                            \/ ~Holds(s)' /\ thread'[s].err # "CANCELLED"
                            \/ ~Holds(s)' /\ thread'[s].pc \notin {"claim", "insert", "fail"}
  PROVE  Tokens'
<1>1. \A s \in Threads : thread'[s] = thread[s] => /\ Holds(s)' <=> Holds(s)
                                                   /\ DescOf(s)' = DescOf(s)
                                                   /\ At(s, "recheck")' <=> At(s, "recheck")
  BY DEF Holds, DescOf, At
<1>2. ASSUME NEW s \in Threads, Holds(s)'
      PROVE  thread'[s] = thread[s] /\ Holds(s) /\ DescOf(s)' = DescOf(s)
  <2>1. thread'[s] = thread[s]  BY <1>2
  <2> QED BY <1>1, <1>2, <2>1
<1>3. \A s \in Threads : Holds(s)' /\ thread'[s].err = "CANCELLED" => DescOf(s)' \in cancelled'  BY <1>2 DEF Tokens
<1>4. \A s \in Threads : thread'[s].pc \in {"claim", "insert", "fail"} => thread'[s].err # "CANCELLED"  BY DEF Tokens
<1>5. ASSUME Late' PROVE \A s \in Threads : Holds(s)' /\ ~At(s, "recheck")' => DescOf(s)' \in cancelled'
  BY <1>1, <1>2, <1>5 DEF Tokens
<1>6. ASSUME Late' PROVE \A i \in DOMAIN finalizing' : finalizing'[i] \in cancelled'  BY <1>6 DEF Tokens
<1> QED BY <1>3, <1>4, <1>5, <1>6 DEF Tokens

(* The token discipline is kept by every step. *)
LEMMA TokensStep ==
  ASSUME TypeOK, ThreadsInv, Fence, Tokens, [Next]_vars
  PROVE  Tokens'
<1>a. QueuesOK /\ ThreadsOK  BY DEF TypeOK
<1>b. Late => shuttingDown  BY DEF Late, shuttingDown
<1>1. ASSUME NEW t \in Threads, Works(t)
      PROVE  Tokens'
  <2>1. PICK pc \in HoldingPcs \ {"recheck"}, err \in Errors :
          /\ Moves(t, pc, err)
          /\ err = "CANCELLED" /\ err # thread[t].err => TokenCancelled(t) \/ Late
          /\ pc = "fail" => ~TokenCancelled(t) /\ err = thread[t].err  BY <1>1 DEF Works
  <2>2. UNCHANGED <<cancelled, finalizing>> /\ (Late' <=> Late) /\ Holds(t) /\ ~At(t, "recheck")
    BY <1>1 DEF Works, Runs, ownVars, procVars, Late
  <2>3. \A s \in Threads \ {t} : /\ thread'[s] = thread[s] /\ (Holds(s)' <=> Holds(s))
                                 /\ DescOf(s)' = DescOf(s) /\ (At(s, "recheck")' <=> At(s, "recheck"))
    BY <2>1 DEF Moves, Holds, DescOf, At
  <2>4. /\ DescOf(t)' = DescOf(t) /\ thread'[t].err = err /\ thread'[t].pc = pc
        /\ pc \notin {"claim", "insert"}  BY <2>1 DEF Moves, DescOf, HoldingPcs
  <2>5. Late => DescOf(t) \in cancelled  BY <2>2 DEF Tokens
  <2> QED BY <2>1, <2>2, <2>3, <2>4, <2>5 DEF Tokens, TokenCancelled, DescOf
<1>2. ASSUME NEW t \in Threads, Release(t)
      PROVE  Tokens'
  <2>1. Moves(t, "forget", thread[t].err)  BY <1>2, <1>a, GotoMoves DEF Release, Pcs
  <2>2. Holds(t) /\ ~Holds(t)' /\ thread'[t].pc = "forget"
    BY <1>2, <2>1 DEF Release, At, Moves, Holds, HoldingPcs, Pcs
  <2>3. \A s \in Threads \ {t} : /\ thread'[s] = thread[s] /\ (Holds(s)' <=> Holds(s))
                                 /\ DescOf(s)' = DescOf(s) /\ (At(s, "recheck")' <=> At(s, "recheck"))
    BY <2>1 DEF Moves, Holds, DescOf, At
  <2>4. /\ \A s \in Threads \ {t} : Holds(s) => DescOf(s) # DescOf(t)
        /\ \A i \in DOMAIN finalizing : finalizing[i] # DescOf(t)  BY <2>2 DEF Fence
  <2>5. cancelled' = cancelled \ {DescOf(t)} /\ UNCHANGED finalizing /\ (Late' <=> Late)
    BY <1>2 DEF Release, procVars, Late
  <2> QED BY <2>2, <2>3, <2>4, <2>5 DEF Tokens
<1>3. ASSUME NEW t \in Threads, Forget(t)
      PROVE  Tokens'
  <2>1. \A s \in Threads : thread'[s] = thread[s] \/ (~Holds(s)' /\ thread'[s].err # "CANCELLED")
    BY <1>3, <1>a DEF Forget, ThreadsOK, Holds, HoldingPcs, Idle
  <2> QED BY <1>3, <2>1, TokensFrame DEF Forget, ownVars, procVars, Late
<1>4. ASSUME NEW c \in Coordinators, Pop(c) \/ ExitCoordinator(c) \/ Claim(c)
      PROVE  Tokens'
  <2>0. c \in Threads  BY DEF Threads
  <2>1. CASE Pop(c)
    <3>1. \A s \in Threads : thread'[s] = thread[s] \/ (~Holds(s)' /\ thread'[s].err # "CANCELLED")
      BY <2>0, <2>1, <1>a DEF Pop, ThreadsOK, Holds, HoldingPcs, Idle
    <3> QED BY <2>1, <3>1, TokensFrame DEF Pop, ownVars, procVars, Late
  <2>2. CASE ExitCoordinator(c)
    <3>1. \A s \in Threads : thread'[s] = thread[s]
                               \/ (~Holds(s)' /\ thread'[s].pc \notin {"claim", "insert", "fail"})
      BY <2>0, <2>2, <1>a DEF ExitCoordinator, Goto, ThreadsOK, Holds, HoldingPcs
    <3> QED BY <2>2, <3>1, TokensFrame DEF ExitCoordinator, ownVars, procVars, Late
  <2>3. CASE Claim(c)
    <3>1. thread[c].err # "CANCELLED"  BY <2>0, <2>3 DEF Claim, At, Tokens
    <3>2. \A s \in Threads : thread'[s] = thread[s] \/ (~Holds(s)' /\ thread'[s].err # "CANCELLED")
      BY <2>0, <2>3, <3>1, <1>a DEF Claim, Goto, ThreadsOK, Holds, HoldingPcs
    <3> QED BY <2>3, <3>2, TokensFrame DEF Claim, ownVars, procVars, Late
  <2> QED BY <1>4, <2>1, <2>2, <2>3
<1>5. ASSUME NEW c \in Coordinators, Insert(c)
      PROVE  Tokens'
  <2>0. c \in Threads /\ ~Holds(c) /\ thread[c].err # "CANCELLED" /\ (Late' <=> Late)
        /\ UNCHANGED finalizing  BY <1>5 DEF Threads, Insert, At, Holds, HoldingPcs, Tokens, procVars, Late
  <2>1. CASE Fenced(DescOf(c))
    <3>1. \A s \in Threads : thread'[s] = thread[s] \/ (~Holds(s)' /\ thread'[s].err # "CANCELLED")
      BY <1>5, <2>0, <2>1, <1>a DEF Insert, Goto, ThreadsOK, Holds, HoldingPcs
    <3> QED BY <1>5, <2>0, <2>1, <3>1, TokensFrame DEF Insert, ownVars
  <2>2. CASE ~Fenced(DescOf(c))
    <3>1. Moves(c, "recheck", thread[c].err)  BY <1>5, <2>0, <2>2, <1>a, GotoMoves DEF Insert, Pcs, CoordinatorPcs
    <3>2. \A s \in Threads \ {c} : /\ thread'[s] = thread[s] /\ (Holds(s)' <=> Holds(s))
                                   /\ DescOf(s)' = DescOf(s) /\ (At(s, "recheck")' <=> At(s, "recheck"))
      BY <3>1 DEF Moves, Holds, DescOf, At
    <3>3. /\ At(c, "recheck")' /\ thread'[c].err # "CANCELLED"
          /\ thread'[c].pc = "recheck" /\ cancelled' = cancelled \ {DescOf(c)}
      BY <1>5, <2>0, <2>2, <3>1 DEF Insert, Moves, At
    <3>4. DescOf(c) \notin owner  BY <2>2 DEF Fenced
    <3>5. /\ \A s \in Threads : Holds(s) => DescOf(s) # DescOf(c)
          /\ \A i \in DOMAIN finalizing : finalizing[i] # DescOf(c)  BY <3>4 DEF Fence
    <3> QED BY <2>0, <3>2, <3>3, <3>5 DEF Tokens
  <2> QED BY <2>1, <2>2
<1>6. ASSUME NEW c \in Coordinators, Recheck(c)
      PROVE  Tokens'
  <2>0. c \in Threads /\ Holds(c) /\ (Late' <=> Late) /\ UNCHANGED finalizing
    BY <1>6 DEF Threads, Recheck, At, Holds, HoldingPcs, Pcs, CoordinatorPcs, procVars, Late
  <2>1. Moves(c, "begin", thread[c].err)  BY <1>6, <2>0, <1>a, GotoMoves DEF Recheck, Pcs, CoordinatorPcs
  <2>2. \A s \in Threads \ {c} : /\ thread'[s] = thread[s] /\ (Holds(s)' <=> Holds(s))
                                 /\ DescOf(s)' = DescOf(s) /\ (At(s, "recheck")' <=> At(s, "recheck"))
    BY <2>1 DEF Moves, Holds, DescOf, At
  <2>3. DescOf(c)' = DescOf(c) /\ thread'[c].err = thread[c].err /\ thread'[c].pc = "begin"  BY <2>1 DEF Moves, DescOf
  <2>4. cancelled \subseteq cancelled' /\ (Late => DescOf(c) \in cancelled')  BY <1>6, <1>b DEF Recheck
  <2> QED BY <2>0, <2>2, <2>3, <2>4 DEF Tokens
<1>7. ASSUME NEW c \in Coordinators, HandedOff(c)
      PROVE  Tokens'
  <2>0. /\ c \in Threads /\ Holds(c) /\ ~Holds(c)' /\ thread'[c] = Idle /\ ~At(c, "recheck")
        /\ (Late' <=> Late) /\ UNCHANGED cancelled
    BY <1>7, <1>a DEF Threads, HandedOff, At, Holds, HoldingPcs, Pcs, CoordinatorPcs, Idle, ThreadsOK,
       procVars, ownVars, Late
  <2>1. \A s \in Threads \ {c} : /\ thread'[s] = thread[s] /\ (Holds(s)' <=> Holds(s))
                                 /\ DescOf(s)' = DescOf(s) /\ (At(s, "recheck")' <=> At(s, "recheck"))
    BY <1>7, <1>a DEF HandedOff, Holds, DescOf, ThreadsOK, At
  <2>2. DescOf(c) \in Descriptors  BY <1>7, <2>0, <1>a, WorksForEntry DEF HandedOff, At
  <2>3. /\ DOMAIN finalizing' = 1 .. Len(finalizing) + 1
        /\ DOMAIN finalizing = 1 .. Len(finalizing) /\ Len(finalizing) \in Nat
        /\ \A i \in DOMAIN finalizing : finalizing'[i] = finalizing[i]
        /\ finalizing'[Len(finalizing) + 1] = DescOf(c)  BY <1>7, <2>2, <1>a DEF HandedOff, QueuesOK
  <2>4. Late => \A i \in DOMAIN finalizing' : finalizing'[i] \in cancelled  BY <2>0, <2>3 DEF Tokens
  <2> QED BY <2>0, <2>1, <2>4 DEF Tokens, Idle
<1>8. ASSUME NEW f \in Finalizers, PopFinal(f)
      PROVE  Tokens'
  <2>0. /\ f \in Threads /\ (Late' <=> Late) /\ UNCHANGED cancelled
        /\ thread'[f].pc = "verify" /\ thread'[f].err = "none" /\ DescOf(f)' = Head(finalizing)
    BY <1>8, <1>a DEF Threads, PopFinal, ThreadsOK, procVars, ownVars, Late, Idle, DescOf
  <2>1. \A s \in Threads \ {f} : /\ thread'[s] = thread[s] /\ (Holds(s)' <=> Holds(s))
                                 /\ DescOf(s)' = DescOf(s) /\ (At(s, "recheck")' <=> At(s, "recheck"))
    BY <1>8, <1>a DEF PopFinal, Holds, DescOf, ThreadsOK, At
  <2>2. /\ DOMAIN finalizing' = 1 .. Len(finalizing) - 1
        /\ DOMAIN finalizing = 1 .. Len(finalizing) /\ Len(finalizing) \in Nat \ {0}
        /\ \A i \in DOMAIN finalizing' : finalizing'[i] = finalizing[i + 1]
        /\ Head(finalizing) = finalizing[1]  BY <1>8, <1>a DEF PopFinal, QueuesOK
  <2>3. Late => /\ \A i \in DOMAIN finalizing' : finalizing'[i] \in cancelled
                /\ Head(finalizing) \in cancelled  BY <2>2 DEF Tokens
  <2> QED BY <2>0, <2>1, <2>3 DEF Tokens
<1>9. ASSUME NEW f \in Finalizers, ExitFinalizer(f)
      PROVE  Tokens'
  <2>1. \A s \in Threads : thread'[s] = thread[s]
                             \/ (~Holds(s)' /\ thread'[s].pc \notin {"claim", "insert", "fail"})
    BY <1>9, <1>a DEF ExitFinalizer, Goto, ThreadsOK, Holds, HoldingPcs, Threads
  <2> QED BY <1>9, <2>1, TokensFrame DEF ExitFinalizer, ownVars, procVars, Late
<1>10. ASSUME NEW u \in Users, CancelEntries(u)
       PROVE  Tokens'  BY <1>10, TokensFrame DEF CancelEntries, procVars, Late
<1>11. ASSUME CancelTokens
       PROVE  Tokens'
  <2>1. \A s \in Threads : /\ Holds(s)' <=> Holds(s)
                           /\ DescOf(s)' = DescOf(s)
                           /\ thread'[s] = thread[s]  BY <1>11 DEF CancelTokens, Holds, DescOf
  <2>2. cancelled' = owner /\ finalizing' = finalizing  BY <1>11 DEF CancelTokens
  <2> QED BY <2>1, <2>2 DEF Tokens, Fence
<1>12. ASSUME Stopped
       PROVE  Tokens'  BY <1>12 DEF Stopped, Tokens, Holds, HoldingPcs, Idle, Late
<1>13. ASSUME Elsewhere
       PROVE  Tokens'  BY <1>13, TokensFrame DEF Elsewhere, ownVars
<1> QED BY <1>1, <1>2, <1>3, <1>4, <1>5, <1>6, <1>7, <1>8, <1>9, <1>10, <1>11, <1>12, <1>13,
           EveryStepHasAKind DEF StepKinds

----
(* The inductive invariant. *)
IInv == TypeOK /\ RowsInv /\ ThreadsInv /\ Fence /\ Tokens

(* The inductive invariant holds at first. *)
LEMMA InitIInv == Init => IInv
<1> SUFFICES ASSUME Init PROVE IInv  OBVIOUS
<1> USE SupervisorAssumption
<1>1. RowsInv
  BY DEF Init, RowsInv, RowsOK, ProcessOK, RowBounds, StopIsNotFailure, MaxAttempts, Errors, ArtifactStates,
     Phases, StartupPhases, Ending, Absent
<1>2. ThreadsInv  BY DEF Init, ThreadsInv, ThreadsOK, Idle, Pcs, Errors
<1>3. QueuesOK /\ CommandsOK  BY DEF Init, QueuesOK, CommandsOK, NoCmd
<1>4. Fence /\ Tokens  BY DEF Init, Fence, Tokens, Holds, HoldingPcs, Idle, Late
<1> QED BY <1>1, <1>2, <1>3, <1>4 DEF IInv, TypeOK, RowsInv, ThreadsInv

(* Every step preserves it: each part rests on the others, so they go together. *)
LEMMA NextIInv == IInv /\ [Next]_vars => IInv'
<1> SUFFICES ASSUME IInv, [Next]_vars PROVE IInv'  OBVIOUS
<1>1. TypeOK /\ RowsInv /\ ThreadsInv /\ Fence /\ Tokens /\ FailureIsReal  BY TokensMeanRealFailures DEF IInv
<1>2. RowsInv' /\ CommandsOK' /\ ThreadsInv' /\ QueuesOK' /\ Fence' /\ Tokens'
  BY <1>1, RowsStep, CommandsStep, ThreadsStep, QueuesStep, FenceStep, TokensStep
<1> QED BY <1>2 DEF IInv, TypeOK, RowsInv, ThreadsInv

(* The supervisor is type correct, for every number of entries, threads,
   users, pages, attempts and restarts. *)
THEOREM TypeCorrect == Spec => []TypeOK
<1>1. IInv => TypeOK  BY DEF IInv
<1> QED BY <1>1, InitIInv, NextIInv, PTL DEF Spec

(* claim_job and finish_job keep the artifact of every entry exclusive. *)
THEOREM Exclusive == Spec => []ExclusiveArtifact
<1>1. IInv => ExclusiveArtifact  BY FenceExcludes DEF IInv
<1> QED BY <1>1, InitIInv, NextIInv, PTL DEF Spec

(* handle_download_error, with the re-check after claim_job and the order of
   shutdown_and_wait, never records a stop as a failure. *)
THEOREM StopsAreNotFailures == Spec => []StopIsNotFailure
<1>1. IInv => StopIsNotFailure  BY DEF IInv, RowsInv
<1> QED BY <1>1, InitIInv, NextIInv, PTL DEF Spec

----
(* No job is left behind, for one user.  With two of them cancel_entries of
   one command may come after the retry of another and stop the new attempt,
   so what is assumed here is that a cancel ends before the next command. *)
OneUser == \A u, v \in Users : u = v

(* The descriptor is the attempt that an active row is in. *)
Live(d) == job[d.entry].state \in Active /\ job[d.entry].attempt = d.attempt

(* Where a descriptor can wait for its turn or be worked on. *)
Told(d) ==
  \/ d \in launching \cup owner
  \/ \E i \in DOMAIN pending : pending[i] = d
  \/ \E t \in Threads : thread[t].desc = d
  \/ \E u \in Users : cmd[u].op \in {"launch", "requeue"} /\ cmd[u].desc = d

(* Nobody works for an attempt that the row has not reached. *)
ToldOfRows == \A d \in Descriptors : Told(d) => d.attempt <= job[d.entry].attempt

(* Before a quit only attempts that are over are cancelled or let go. *)
CancelledIsOver ==
  /\ ~shuttingDown => \A d \in cancelled : ~Live(d)
  /\ \A u \in Users : cmd[u].op = "cancel" => job[cmd[u].desc.entry].state \notin Active

EndedIsOver ==
  ~shuttingDown
    => \A t \in Threads : thread[t].pc \in {"release", "forget"} => ~Live(DescOf(t))

(* No command outlives its process, and resumed attempts are launched before
   the next resume replaces them. *)
OneResume ==
  /\ phase \in {"down", "booting"} => \A u \in Users : cmd[u] = NoCmd
  /\ launching # {} => phase = "resuming" \/ \E u \in Users : cmd[u].op = "reconcile"

ServedInv == ToldOfRows /\ CancelledIsOver /\ EndedIsOver /\ OneResume /\ ActiveIsServed

(* What a step may do to a row: go on within the attempt, never from an ended
   state back to an active one, or start a new attempt that is served. *)
Continues(e) ==
  /\ job'[e].attempt = job[e].attempt
  /\ job'[e].state \in Active => job[e].state \in Active

Restarts(e) ==
  /\ job'[e].attempt = job[e].attempt + 1
  /\ Served(e)'
  /\ \A u \in Users : cmd[u].op # "cancel"

RowsAdvance == \A e \in Entries : Continues(e) \/ Restarts(e)

(* Only a job in work can go on to Hashing or Verifying. *)
LEMMA StagesFollowWork ==
  ASSUME NEW s \in JobStates, NEW next \in {"Hashing", "Verifying"}, AllowsTransition(s, next)
  PROVE  s \in Active  BY DEF AllowsTransition, Successors, JobStates, Active, Retryable, Abandoned

(* A transition of one row to an ended state, or from an active one, goes on. *)
LEMMA TransitionContinues ==
  ASSUME RowsOK, NEW e \in Entries, NEW s \in JobStates, NEW err \in Errors,
         SetRow(e, Transition(job[e], s, err)), s \in Active => job[e].state \in Active
  PROVE  RowsAdvance /\ job'[e].attempt = job[e].attempt /\ job'[e].state = s
<1>1. job[e] \in Row  BY DEF RowsOK, Row
<1> DEFINE r == Transition(job[e], s, err)
<1>2. r \in Row /\ r.state = s /\ r.attempt = job[e].attempt  BY <1>1, TransitionEffect
<1> HIDE DEF r
<1>3. SetRow(e, r)  BY DEF r
<1>4. job'[e] = r /\ \A f \in Entries \ {e} : job'[f] = job[f]  BY <1>2, <1>3, SetRowEffect
<1> QED BY <1>2, <1>4 DEF RowsAdvance, Continues

(* Every step of every actor moves the rows forward. *)
LEMMA EveryRowAdvances ==
  ASSUME IInv, OneUser, OneResume, [Next]_vars
  PROVE  RowsAdvance
<1>a. RowsOK /\ ThreadsOK /\ CommandsOK /\ RowBounds  BY DEF IInv, TypeOK, RowsInv
<1>b. {"none", "CONFLICT"} \subseteq Errors /\ \A s \in Active : s \in JobStates  BY DEF Errors, JobStates
<1>c. \A e \in Entries : job[e].state # Absent => job[e].state \in JobStates  BY <1>a DEF RowsOK
<1>0. ASSUME UNCHANGED job
      PROVE  RowsAdvance  BY <1>0 DEF RowsAdvance, Continues
<1>1. ASSUME NEW u \in Users, NEW e \in Entries, NEW op \in {"launch", "requeue"},
             NEW r \in Row, SetRow(e, r), r.attempt = job[e].attempt + 1,
             Begun(u, op, [entry |-> e, attempt |-> job[e].attempt + 1]), cmd[u] = NoCmd
      PROVE  RowsAdvance
  <2>1. job'[e].attempt = job[e].attempt + 1 /\ \A f \in Entries \ {e} : job'[f] = job[f]  BY <1>1, <1>a, SetRowEffect
  <2>2. cmd'[u].op = op /\ cmd'[u].desc = Desc(e)'  BY <1>1, <1>a, <2>1 DEF Begun, CommandsOK, Desc
  <2>3. \A v \in Users : cmd[v].op # "cancel"  BY <1>1 DEF OneUser, NoCmd
  <2> QED BY <2>1, <2>2, <2>3 DEF RowsAdvance, Restarts, Continues, Served
<1>2. ASSUME NEW u \in Users, NEW e \in Entries, DownloadQueueAdd(u, e)
      PROVE  RowsAdvance
  <2> DEFINE r == [state |-> "Queued", attempt |-> 1, err |-> "none"]
  <2>1. r \in Row /\ r.attempt = job[e].attempt + 1 /\ job[e].attempt + 1 = 1
    BY <1>2, <1>a, SupervisorAssumption
       DEF DownloadQueueAdd, RowBounds, Row, MaxAttempts, JobStates, Active, Errors
  <2> HIDE DEF r
  <2>2. SetRow(e, r) /\ Begun(u, "launch", [entry |-> e, attempt |-> job[e].attempt + 1])
        /\ cmd[u] = NoCmd  BY <1>2, <2>1 DEF DownloadQueueAdd, Ready, r
  <2> QED BY <1>1, <2>1, <2>2
<1>3. ASSUME NEW u \in Users, NEW e \in Entries,
             DownloadRetry(u, e) \/ OverlapDecisionResume(u, e)
      PROVE  RowsAdvance
  <2>1. Requeue(job[e]) \in Row /\ Requeue(job[e]).attempt = job[e].attempt + 1
    BY <1>3, <1>a, SupervisorAssumption DEF DownloadRetry, OverlapDecisionResume, Requeue, Row,
       RowsOK, MaxAttempts, JobStates, Active, Errors
  <2> QED BY <1>1, <1>3, <2>1 DEF DownloadRetry, OverlapDecisionResume, Ready
<1>4. ASSUME NEW u \in Users, NEW e \in Entries, DownloadCancel(u, e)
      PROVE  RowsAdvance
  <2>1. job[e].err \in Errors /\ "Cancelled" \in JobStates \ Active  BY <1>a DEF RowsOK, JobStates, Retryable, Active
  <2> QED BY <1>0, <1>4, <1>a, <1>b, <2>1, TransitionContinues DEF DownloadCancel
<1>5. ASSUME NEW c \in Coordinators, PipelineBegin(c)
      PROVE  RowsAdvance
  <2>1. DescOf(c).entry \in Entries  BY <1>5, <1>a, WorksForEntry DEF PipelineBegin, At, Threads
  <2>2. [job EXCEPT ![DescOf(c).entry] = RowOf(c)] = job  BY <1>a, <2>1 DEF RowsOK, RowOf, DescOf
  <2>3. {"Queued", "ResolvingMetadata"} \subseteq Active  BY DEF Active
  <2> QED BY <1>0, <1>5, <1>a, <1>b, <2>1, <2>2, <2>3, TransitionContinues
      DEF PipelineBegin, RowOf, DescOf, SetRow
<1>6. ASSUME NEW c \in Coordinators, PipelinePrepare(c)
      PROVE  RowsAdvance
  <2>1. DescOf(c).entry \in Entries  BY <1>6, <1>a, WorksForEntry DEF PipelinePrepare, At, Threads
  <2>2. {"Downloading", "ResolvingMetadata"} \subseteq Active  BY DEF Active
  <2> QED BY <1>0, <1>6, <1>a, <1>b, <2>1, <2>2, TransitionContinues
      DEF PipelinePrepare, RowOf, DescOf, durable
<1>7. ASSUME NEW c \in Coordinators, PageConflict(c)
      PROVE  RowsAdvance
  <2>1. DescOf(c).entry \in Entries  BY <1>7, <1>a, WorksForEntry DEF PageConflict, At, Threads
  <2>2. "Failed" \in JobStates \ Active  BY DEF JobStates, Retryable, Active
  <2>3. \/ SetRow(DescOf(c).entry, Transition(job[DescOf(c).entry], "Failed", "CONFLICT"))
        \/ UNCHANGED job  BY <1>7, <2>1, <1>a DEF PageConflict, MarkArtifactIssue, SetRow
  <2> QED BY <1>0, <1>a, <1>b, <2>1, <2>2, <2>3, TransitionContinues
<1>8. ASSUME NEW t \in Threads, PipelineStage(t)
      PROVE  RowsAdvance
  <2>1. DescOf(t).entry \in Entries  BY <1>8, <1>a, WorksForEntry DEF PipelineStage
  <2>2. {"Hashing", "Verifying"} \subseteq Active  BY DEF Active
  <2> QED BY <1>0, <1>8, <1>a, <1>b, <1>c, <2>1, <2>2, TransitionContinues, StagesFollowWork
      DEF PipelineStage, RowOf, DescOf, Current
<1>9. ASSUME NEW f \in Finalizers, OverlapGate(f) \/ PipelineComplete(f)
      PROVE  RowsAdvance
  <2>1. DescOf(f).entry \in Entries  BY <1>9, <1>a, WorksForEntry DEF OverlapGate, PipelineComplete, At, Threads
  <2>2. {"ReviewRequired", "Completed"} \subseteq JobStates \ Active  BY DEF Active, JobStates
  <2> QED BY <1>0, <1>9, <1>a, <1>b, <2>1, <2>2, TransitionContinues
      DEF OverlapGate, PipelineComplete, RowOf, DescOf, durable
<1>10. ASSUME NEW t \in Threads, PipelineFail(t)
       PROVE  RowsAdvance
  <2>1. DescOf(t).entry \in Entries /\ thread[t].err \in Errors
    BY <1>10, <1>a, WorksForEntry DEF PipelineFail, At, ThreadsOK
  <2>2. "Failed" \in JobStates \ Active  BY DEF Active, JobStates, Retryable
  <2> QED BY <1>0, <1>10, <1>a, <1>b, <2>1, <2>2, TransitionContinues
      DEF PipelineFail, RowOf, DescOf, durable
<1>11. ASSUME RecoverVolatile
       PROVE  RowsAdvance
  <2>1. "Interrupted" \in JobStates \ Active  BY DEF Active, JobStates, Retryable
  <2>2. \A e \in Entries : /\ Recovered(job[e]).attempt = job[e].attempt
                           /\ Recovered(job[e]).state \notin Active
    BY <1>a, <1>b, <2>1, TransitionEffect DEF Recovered, RowsOK, Row
  <2> QED BY <1>11, <2>2 DEF RecoverVolatile, RowsAdvance, Continues
<1>12. ASSUME Resume, \A u \in Users : cmd[u].op # "cancel"
       PROVE  RowsAdvance
  <2>1. \A e \in Resumable : Restarts(e)  BY <1>12, <1>a DEF Resume, Resumable, Restarts, Requeue, Served, Desc
  <2> QED BY <1>12, <2>1 DEF Resume, RowsAdvance, Continues
<1>13. ASSUME ResumeInterrupted \/ \E u \in Users : Reconcile(u)
       PROVE  RowsAdvance
  <2>1. \A u \in Users : cmd[u].op # "cancel"
    BY <1>13 DEF ResumeInterrupted, Reconcile, Ready, OneUser, OneResume, NoCmd
  <2> QED BY <1>0, <1>12, <1>13, <2>1 DEF ResumeInterrupted, Reconcile
<1>14. CASE UNCHANGED job  BY <1>0, <1>14
<1>15. ASSUME NEW c \in Coordinators, CoordinatorStep(c)
       PROVE  RowsAdvance
  <2>1. \/ UNCHANGED job
        \/ PipelineBegin(c) \/ PipelinePrepare(c) \/ PageConflict(c)
    BY <1>15 DEF CoordinatorStep, Pop, ExitCoordinator, Claim, Insert, Recheck, Resolve,
       PrepareLayout, StartPage, FinishPage, PagesDone, Handoff, durable
  <2> QED BY <1>0, <1>5, <1>6, <1>7, <2>1
<1>16. ASSUME NEW f \in Finalizers, FinalizerStep(f)
       PROVE  RowsAdvance
  BY <1>0, <1>9, <1>16 DEF FinalizerStep, PopFinal, ExitFinalizer, VerifyBundle, durable
<1>17. ASSUME NEW t \in Threads, CommonStep(t)
       PROVE  RowsAdvance
  BY <1>0, <1>8, <1>10, <1>17 DEF CommonStep, CheckCancelled, HandleError, Release, Forget, durable
<1>18. ASSUME NEW u \in Users, CommandStep(u)
       PROVE  RowsAdvance
  BY <1>0, <1>2, <1>3, <1>4, <1>13, <1>18
     DEF CommandStep, Launch, CancelEntries, Reconciled, durable
<1>19. ASSUME RequestQuit \/ CancelStartup \/ QuitStep \/ Crash \/ BootStep
       PROVE  RowsAdvance
  <2>1. UNCHANGED job \/ RecoverVolatile \/ ResumeInterrupted
    BY <1>19 DEF RequestQuit, CancelStartup, QuitStep, SetShuttingDown, CloseQueue, CancelTokens,
       ClosePages, CloseFinalizing, Exit, Crash, Stopped, BootStep, LaunchResumed, CommitReady,
       StartupCancelled, durable
  <2> QED BY <1>0, <1>11, <1>13, <2>1
<1> QED BY <1>14, <1>15, <1>16, <1>17, <1>18, <1>19 DEF Next, vars, durable

(* The steps of a thread, by what they do to the sets that threads share. *)
ThreadStep(t) ==
  \/ t \in Coordinators /\ CoordinatorStep(t)
  \/ t \in Finalizers /\ FinalizerStep(t)
  \/ CommonStep(t)

ThreadKind(t) ==
  \/ Works(t) \/ Release(t) \/ Forget(t)
  \/ t \in Coordinators /\ \/ Pop(t) \/ ExitCoordinator(t) \/ Claim(t) \/ Insert(t)
                           \/ Recheck(t) \/ HandedOff(t)
  \/ t \in Finalizers /\ (PopFinal(t) \/ ExitFinalizer(t))

(* A thread does not touch the commands, the phase or what is resumed. *)
LEMMA EveryThreadStepHasAKind ==
  ASSUME ThreadsInv, NEW t \in Threads, ThreadStep(t)
  PROVE  ThreadKind(t) /\ UNCHANGED <<cmd, procVars>>
<1>1. CASE t \in Coordinators /\ CoordinatorStep(t)
  <2>1. UNCHANGED <<cmd, procVars>>
    BY <1>1 DEF CoordinatorStep, Pop, ExitCoordinator, Claim, Insert, Recheck, PipelineBegin,
       Resolve, PipelinePrepare, PrepareLayout, StartPage, FinishPage, PageConflict, PagesDone, Handoff
  <2>2. CASE CoordinatorWork(t)  BY <1>1, <2>1, <2>2, CoordinatorWorks DEF ThreadKind
  <2>3. CASE Handoff(t)
    <3>1. CASE Raise(t, "CANCELLED") /\ UNCHANGED finalizing /\ (TokenCancelled(t) \/ finClosed)
      BY <1>1, <2>1, <2>3, <3>1, RefusedHandoffWorks DEF ThreadKind
    <3> QED BY <1>1, <2>1, <2>3, <3>1 DEF Handoff, HandedOff, ThreadKind
  <2> QED BY <1>1, <2>1, <2>2, <2>3 DEF CoordinatorStep, CoordinatorWork, ThreadKind
<1>2. CASE t \in Finalizers /\ FinalizerStep(t)
  <2>1. UNCHANGED <<cmd, procVars>>
    BY <1>2 DEF FinalizerStep, PopFinal, ExitFinalizer, VerifyBundle, OverlapGate, PipelineComplete
  <2> QED BY <1>2, <2>1, FinalizerWorks DEF FinalizerStep, FinalizerWork, ThreadKind
<1>3. CASE CommonStep(t)
  <2>1. UNCHANGED <<cmd, procVars>>
    BY <1>3 DEF CommonStep, CheckCancelled, PipelineStage, HandleError, PipelineFail, Release, Forget
  <2> QED BY <1>3, <2>1, CommonWorks DEF CommonStep, CommonWork, ThreadKind
<1> QED BY <1>1, <1>2, <1>3 DEF ThreadStep

(* A step of a thread creates no descriptor: it takes one from a queue. *)
LEMMA ThreadsTellNothing ==
  ASSUME IInv, NEW t \in Threads, ThreadStep(t), NEW d, Told(d)'
  PROVE  Told(d) \/ d = NoDesc
<1>a. QueuesOK /\ ThreadsOK /\ ThreadsInv /\ Fence  BY DEF IInv, TypeOK
<1>b. ThreadKind(t) /\ UNCHANGED <<cmd, launching>>  BY <1>a, EveryThreadStepHasAKind DEF procVars
<1>0. ASSUME UNCHANGED <<owner, pending>>, \A s \in Threads : thread'[s].desc = thread[s].desc
      PROVE  Told(d)  BY <1>0, <1>b DEF Told
<1>1. ASSUME NEW pc \in Pcs, Goto(t, pc)
      PROVE  \A s \in Threads : thread'[s].desc = thread[s].desc  BY <1>1, <1>a, GotoMoves DEF Moves
<1>2. CASE Works(t)
  <2>1. \A s \in Threads : thread'[s].desc = thread[s].desc  BY <1>2 DEF Works, Moves
  <2> QED BY <1>2, <2>1, <1>0 DEF Works, ownVars, queueVars
<1>3. CASE Release(t)
  <2>1. \A s \in Threads : thread'[s].desc = thread[s].desc  BY <1>1, <1>3 DEF Release, Pcs
  <2> QED BY <1>3, <1>b, <2>1 DEF Release, Told, queueVars
<1>4. CASE Forget(t)
  <2>1. \A s \in Threads : thread'[s].desc = thread[s].desc \/ thread'[s].desc = NoDesc
    BY <1>4, <1>a DEF Forget, ThreadsOK, Idle
  <2> QED BY <1>4, <1>b, <2>1 DEF Forget, Told, ownVars
<1>5. CASE ExitCoordinator(t) \/ Claim(t) \/ Recheck(t) \/ ExitFinalizer(t)
  <2>1. \A s \in Threads : thread'[s].desc = thread[s].desc
    BY <1>1, <1>5 DEF ExitCoordinator, Claim, Recheck, ExitFinalizer, Pcs, CoordinatorPcs
  <2> QED BY <1>5, <1>0, <2>1 DEF ExitCoordinator, Claim, Recheck, ExitFinalizer, ownVars, queueVars
<1>6. CASE Insert(t)
  <2>1. \A s \in Threads : thread'[s].desc = thread[s].desc  BY <1>1, <1>6 DEF Insert, Pcs, CoordinatorPcs
  <2>2. owner' \subseteq owner \cup {thread[t].desc} /\ pending' = pending
    BY <1>6 DEF Insert, ownVars, queueVars, DescOf
  <2> QED BY <1>b, <2>1, <2>2 DEF Told
<1>7. CASE Pop(t)
  <2>1. \A s \in Threads : thread'[s].desc = thread[s].desc \/ thread'[s].desc = pending[1]
    BY <1>7, <1>a DEF Pop, ThreadsOK, Idle, QueuesOK
  <2>2. /\ 1 \in DOMAIN pending
        /\ \A i \in DOMAIN pending' : i + 1 \in DOMAIN pending /\ pending'[i] = pending[i + 1]
    BY <1>7, <1>a DEF Pop, QueuesOK
  <2>3. owner' = owner  BY <1>7 DEF Pop, ownVars
  <2> QED BY <1>b, <2>1, <2>2, <2>3 DEF Told
<1>8. CASE HandedOff(t)
  <2>1. \A s \in Threads : thread'[s].desc = thread[s].desc \/ thread'[s].desc = NoDesc
    BY <1>8, <1>a DEF HandedOff, ThreadsOK, Idle
  <2> QED BY <1>8, <1>b, <2>1 DEF HandedOff, Told, ownVars, queueVars
<1>9. CASE PopFinal(t)
  <2>1. \A s \in Threads : thread'[s].desc = thread[s].desc \/ thread'[s].desc = finalizing[1]
    BY <1>9, <1>a DEF PopFinal, ThreadsOK, Idle, QueuesOK
  <2>2. finalizing[1] \in owner  BY <1>9, <1>a DEF PopFinal, QueuesOK, Fence
  <2>3. UNCHANGED <<owner, pending>>  BY <1>9 DEF PopFinal, ownVars, queueVars
  <2> QED BY <1>b, <2>1, <2>2, <2>3 DEF Told
<1> QED BY <1>b, <1>2, <1>3, <1>4, <1>5, <1>6, <1>7, <1>8, <1>9 DEF ThreadKind

(* Enqueue adds at most its descriptor to the queue. *)
LEMMA EnqueueEffect ==
  ASSUME QueuesOK, NEW d \in Descriptors, Enqueue(d)
  PROVE  /\ \A i \in DOMAIN pending' : \/ pending'[i] = d
                                       \/ i \in DOMAIN pending /\ pending'[i] = pending[i]
         /\ known \subseteq known'
         /\ ~shuttingDown => d \in known'
<1>1. closed => shuttingDown  BY DEF closed, shuttingDown
<1> QED BY <1>1 DEF QueuesOK, Enqueue, queueVars

(* No step tells anybody of an attempt that the row has not reached. *)
LEMMA ToldStep ==
  ASSUME IInv, ServedInv, OneUser, [Next]_vars
  PROVE  ToldOfRows'
<1>a. QueuesOK /\ CommandsOK /\ RowsOK /\ RowBounds /\ RowsOK' /\ OneResume /\ ToldOfRows
  BY NextIInv DEF IInv, TypeOK, RowsInv, ServedInv
<1>b. RowsAdvance  BY <1>a, EveryRowAdvances
<1>c. \A e \in Entries : job'[e].attempt >= job[e].attempt /\ job[e].attempt \in Int /\ job'[e].attempt \in Int
  BY <1>a, <1>b DEF RowsAdvance, Continues, Restarts, RowsOK
<1>d. \A d \in Descriptors : d.attempt \in Int /\ d.entry \in Entries
  BY SupervisorAssumption DEF Descriptors, Attempts
<1>e. ASSUME \A d \in Descriptors : Told(d)' => Told(d) \/ d.attempt <= job'[d.entry].attempt
      PROVE  ToldOfRows'  BY <1>e, <1>a, <1>c, <1>d DEF ToldOfRows
<1>1. ASSUME NEW t \in Threads, ThreadStep(t)
      PROVE  ToldOfRows'
  <2>1. \A d \in Descriptors : d # NoDesc  BY DEF Descriptors, NoDesc, Attempts
  <2> QED BY <1>1, <1>e, <2>1, ThreadsTellNothing
<1>2. ASSUME NEW u \in Users, NEW e \in Entries,
             \/ DownloadQueueAdd(u, e) \/ DownloadRetry(u, e) \/ OverlapDecisionResume(u, e)
      PROVE  ToldOfRows'
  <2>1. /\ cmd'[u].desc = [entry |-> e, attempt |-> job[e].attempt + 1]
        /\ \A v \in Users \ {u} : cmd'[v] = cmd[v]
        /\ UNCHANGED <<launching, owner, pending, thread>>
    BY <1>2, <1>a DEF DownloadQueueAdd, DownloadRetry, OverlapDecisionResume, Begun, CommandsOK,
       ownVars, queueVars, procVars, RowBounds
  <2>2. job'[e].attempt = job[e].attempt + 1
    BY <1>2, <1>a DEF DownloadQueueAdd, DownloadRetry, OverlapDecisionResume, SetRow, Requeue,
       RowsOK, RowBounds
  <2> QED BY <1>c, <1>e, <2>1, <2>2 DEF Told
<1>3. ASSUME NEW u \in Users, NEW e \in Entries, DownloadCancel(u, e)
      PROVE  ToldOfRows'
  <2>1. cmd'[u].op = "cancel" /\ (\A v \in Users \ {u} : cmd'[v] = cmd[v])
        /\ UNCHANGED <<launching, owner, pending, thread>>
    BY <1>3, <1>a DEF DownloadCancel, Begun, CommandsOK, ownVars, queueVars, procVars
  <2> QED BY <1>e, <2>1 DEF Told
<1>4. ASSUME NEW u \in Users, Launch(u)
      PROVE  ToldOfRows'
  <2>1. cmd[u].desc \in Descriptors /\ Enqueue(cmd[u].desc)  BY <1>4, <1>a DEF Launch, CommandsOK
  <2>2. /\ cmd'[u].op = "idle" /\ \A v \in Users \ {u} : cmd'[v] = cmd[v]
        /\ UNCHANGED <<launching, owner, thread>>
    BY <1>4, <1>a DEF Launch, NoCmd, CommandsOK, ownVars, procVars
  <2>3. Told(cmd[u].desc)  BY <1>4 DEF Launch, Told
  <2>4. \A i \in DOMAIN pending' : \/ pending'[i] = cmd[u].desc
                                   \/ i \in DOMAIN pending /\ pending'[i] = pending[i]
    BY <1>a, <2>1, EnqueueEffect
  <2> QED BY <1>e, <2>2, <2>3, <2>4 DEF Told
<1>5. ASSUME NEW u \in Users, CancelEntries(u) \/ Reconciled(u)
      PROVE  ToldOfRows'
  <2>1. /\ cmd'[u].op = "idle" /\ \A v \in Users \ {u} : cmd'[v] = cmd[v]
        /\ UNCHANGED <<launching, owner, pending, thread>>
    BY <1>5, <1>a DEF CancelEntries, Reconciled, NoCmd, CommandsOK, ownVars, queueVars, procVars
  <2> QED BY <1>e, <2>1 DEF Told
<1>6. ASSUME Resume, UNCHANGED <<owner, pending, thread>>,
             \A u \in Users : cmd'[u] = cmd[u] \/ cmd'[u].op = "reconcile"
      PROVE  ToldOfRows'
  <2>1. \A d \in launching' : d.attempt <= job'[d.entry].attempt  BY <1>6, <1>c DEF Resume, Resumable, Requeue
  <2> QED BY <1>6, <1>e, <2>1 DEF Told
<1>7. ASSUME NEW u \in Users, Reconcile(u)
      PROVE  ToldOfRows'  BY <1>6, <1>7, <1>a DEF Reconcile, Begun, CommandsOK, ownVars, queueVars
<1>8. ASSUME UNCHANGED <<owner, thread, cmd>>, launching' \subseteq launching,
             UNCHANGED pending \/ pending' = <<>>
      PROVE  ToldOfRows'  BY <1>8, <1>e DEF Told
<1>9. ASSUME Stopped
      PROVE  ToldOfRows'
  <2>1. \A d \in Descriptors : ~Told(d)'  BY <1>9, <1>d DEF Stopped, Told, Idle, NoCmd, NoDesc, Descriptors, Attempts
  <2> QED BY <1>e, <2>1
<1>10. ASSUME LaunchResumed
       PROVE  ToldOfRows'
  <2>1. PICK d \in launching : Enqueue(d) /\ launching' = launching \ {d}  BY <1>10 DEF LaunchResumed
  <2>2. d \in Descriptors /\ Told(d) /\ UNCHANGED <<owner, thread, cmd>>
    BY <1>10, <1>a DEF LaunchResumed, QueuesOK, Told, ownVars
  <2>3. \A i \in DOMAIN pending' : \/ pending'[i] = d
                                   \/ i \in DOMAIN pending /\ pending'[i] = pending[i]
    BY <1>a, <2>1, <2>2, EnqueueEffect
  <2> QED BY <1>e, <2>1, <2>2, <2>3 DEF Told
<1>11. ASSUME NEW u \in Users, CommandStep(u)
       PROVE  ToldOfRows'  BY <1>2, <1>3, <1>4, <1>5, <1>7, <1>11 DEF CommandStep
<1>12. ASSUME RequestQuit \/ CancelStartup \/ QuitStep \/ Crash \/ BootStep
       PROVE  ToldOfRows'
  <2>1. CASE Stopped \/ LaunchResumed  BY <1>9, <1>10, <2>1
  <2>2. CASE ResumeInterrupted  BY <1>6, <1>8, <2>2 DEF ResumeInterrupted, ownVars, queueVars
  <2>3. CASE \/ RequestQuit \/ CancelStartup \/ SetShuttingDown \/ CloseQueue \/ CancelTokens
             \/ ClosePages \/ CloseFinalizing \/ RecoverVolatile \/ CommitReady \/ StartupCancelled
    BY <1>8, <2>3 DEF RequestQuit, CancelStartup, SetShuttingDown, CloseQueue, CancelTokens,
       ClosePages, CloseFinalizing, RecoverVolatile, CommitReady, StartupCancelled, ownVars, queueVars
  <2> QED BY <1>12, <2>1, <2>2, <2>3 DEF QuitStep, BootStep, Exit, Crash
<1>13. CASE UNCHANGED vars  BY <1>8, <1>13 DEF vars, ownVars, queueVars, procVars
<1> QED BY <1>1, <1>11, <1>12, <1>13 DEF Next, ThreadStep, Threads

(* An attempt that is over stays over: the row only comes back with another. *)
LEMMA OverStaysOver ==
  ASSUME RowsOK, RowsAdvance, NEW d \in Descriptors, d.attempt <= job[d.entry].attempt, ~Live(d)
  PROVE  ~Live(d)'
<1>1. d.entry \in Entries /\ d.attempt \in Int /\ job[d.entry].attempt \in Int
  BY SupervisorAssumption DEF RowsOK, Descriptors, Attempts
<1>2. Continues(d.entry) \/ Restarts(d.entry)  BY <1>1 DEF RowsAdvance
<1> QED BY <1>1, <1>2 DEF Continues, Restarts, Live

(* The quit is not taken back: only the end of the process leaves it. *)
LEMMA QuitIsFinal ==
  ASSUME IInv, [Next]_vars, shuttingDown, ~shuttingDown'
  PROVE  Stopped
<1>1. ASSUME NEW t \in Threads, ThreadStep(t)
      PROVE  phase' = phase  BY <1>1, EveryThreadStepHasAKind DEF IInv, procVars
<1>2. ASSUME NEW u \in Users, CommandStep(u)
      PROVE  phase' = phase
  BY <1>2 DEF CommandStep, DownloadQueueAdd, DownloadRetry, OverlapDecisionResume, DownloadCancel,
     Launch, CancelEntries, Reconcile, Reconciled, procVars
<1>3. ASSUME RequestQuit \/ CancelStartup \/ QuitStep \/ Crash \/ BootStep
      PROVE  Stopped \/ phase' = phase \/ shuttingDown' \/ ~shuttingDown
  BY <1>3 DEF RequestQuit, CancelStartup, QuitStep, SetShuttingDown, CloseQueue, CancelTokens,
     ClosePages, CloseFinalizing, Exit, Crash, BootStep, RecoverVolatile, ResumeInterrupted,
     LaunchResumed, CommitReady, StartupCancelled, shuttingDown, GateOpen
<1> QED BY <1>1, <1>2, <1>3 DEF Next, vars, procVars, shuttingDown, ThreadStep, Threads

(* A thread lets its attempt go only when the row has ended. *)
LEMMA ThreadsEndOver ==
  ASSUME IInv, ServedInv, RowsAdvance, ~shuttingDown, NEW t \in Threads, ThreadStep(t),
         thread'[t].pc \in {"release", "forget"}
  PROVE  thread'[t].desc = thread[t].desc /\ ~Live(DescOf(t))'
<1>a. RowsOK /\ ThreadsOK /\ ThreadsInv /\ ToldOfRows /\ CancelledIsOver /\ EndedIsOver
  BY DEF IInv, TypeOK, RowsInv, ServedInv
<1>b. {"none"} \subseteq Errors /\ {"ReviewRequired", "Completed", "Failed"} \subseteq JobStates \ Active
  BY DEF Errors, JobStates, Retryable, Active
<1>0. ASSUME DescOf(t) \in Descriptors, ~Live(DescOf(t)), NEW pc \in Pcs, Goto(t, pc)
      PROVE  thread'[t].desc = thread[t].desc /\ ~Live(DescOf(t))'
  <2>1. thread'[t].desc = thread[t].desc  BY <1>0, <1>a, GotoMoves DEF Moves
  <2>2. DescOf(t).attempt <= job[DescOf(t).entry].attempt  BY <1>0, <1>a DEF ToldOfRows, Told, DescOf
  <2>3. ~(job'[DescOf(t).entry].state \in Active /\ job'[DescOf(t).entry].attempt = DescOf(t).attempt)
    BY <1>0, <1>a, <2>2, OverStaysOver DEF Live
  <2> QED BY <2>1, <2>3 DEF Live, DescOf
<1>1. ASSUME DescOf(t) \in Descriptors, NEW s \in JobStates \ Active, NEW err \in Errors,
             SetRow(DescOf(t).entry, Transition(job[DescOf(t).entry], s, err)),
             Goto(t, "release")
      PROVE  thread'[t].desc = thread[t].desc /\ ~Live(DescOf(t))'
  <2>1. thread'[t].desc = thread[t].desc  BY <1>1, <1>a, GotoMoves DEF Moves, Pcs
  <2>2. /\ DescOf(t).entry \in Entries
        /\ job'[DescOf(t).entry].state = s  BY <1>1, <1>a, TransitionContinues DEF Descriptors
  <2> QED BY <2>1, <2>2 DEF Live, DescOf
<1>2. /\ thread[t] \in ThreadRecord
      /\ thread[t].pc \notin {"idle", "exited"} => DescOf(t) \in Descriptors
  BY <1>a DEF ThreadsOK, DescOf, ThreadRecord
<1>3. CASE OverlapGate(t)
  <2>1. Goto(t, "release") /\ SetRow(DescOf(t).entry, Transition(RowOf(t), "ReviewRequired", "none"))
    BY <1>3, <1>2, <1>a DEF OverlapGate, Goto, Raise, ThreadsOK, At
  <2> QED BY <1>1, <1>2, <1>3, <1>b, <2>1 DEF OverlapGate, At, RowOf, DescOf
<1>4. CASE PipelineComplete(t)
  <2>1. Goto(t, "release") /\ SetRow(DescOf(t).entry, Transition(RowOf(t), "Completed", "none"))
    BY <1>4, <1>2, <1>a DEF PipelineComplete, Goto, Raise, ThreadsOK, At
  <2> QED BY <1>1, <1>2, <1>4, <1>b, <2>1 DEF PipelineComplete, At, RowOf, DescOf
<1>5. CASE HandleError(t)
  <2>1. TokenCancelled(t) /\ Goto(t, "release")  BY <1>5, <1>2, <1>a DEF HandleError, Goto, ThreadsOK, At
  <2>2. ~Live(DescOf(t))  BY <2>1, <1>a DEF CancelledIsOver, TokenCancelled, DescOf
  <2> QED BY <1>0, <1>2, <1>5, <2>1, <2>2 DEF HandleError, At, Pcs
<1>6. CASE PipelineFail(t)
  <2>1. CASE Current(DescOf(t)) /\ RowOf(t).state \in Active
    <3>1. thread[t].err \in Errors  BY <1>2 DEF ThreadRecord
    <3> QED BY <1>1, <1>2, <1>6, <1>b, <2>1, <3>1 DEF PipelineFail, At, RowOf, DescOf
  <2>2. CASE ~(Current(DescOf(t)) /\ RowOf(t).state \in Active)
    <3>1. ~Live(DescOf(t))  BY <2>2 DEF Current, RowOf, Live, DescOf, Active, Absent
    <3> QED BY <1>0, <1>2, <1>6, <3>1 DEF PipelineFail, At, Pcs
  <2> QED BY <2>1, <2>2
<1>7. CASE Release(t)
  <2>1. ~Live(DescOf(t))  BY <1>7, <1>a DEF Release, At, EndedIsOver
  <2> QED BY <1>0, <1>2, <1>7, <2>1 DEF Release, At, Pcs
<1>8. CASE t \in Coordinators /\ CoordinatorStep(t)
  <2>1. /\ \A pc : Goto(t, pc) => thread'[t].pc = pc
        /\ \A err : Raise(t, err) => thread'[t].pc = "error"  BY <1>a DEF Goto, Raise, ThreadsOK
  <2>2. CASE Pop(t)  BY <1>a, <2>2 DEF Pop, ThreadsOK, Idle
  <2>3. CASE ExitCoordinator(t) \/ Claim(t) \/ Insert(t) \/ Recheck(t) \/ PipelineBegin(t)
    BY <2>1, <2>3 DEF ExitCoordinator, Claim, Insert, Recheck, PipelineBegin
  <2>4. CASE Resolve(t) \/ PipelinePrepare(t) \/ StartPage(t) \/ PageConflict(t) \/ PagesDone(t)
    BY <2>1, <2>4 DEF Resolve, PipelinePrepare, StartPage, PageConflict, PagesDone
  <2>5. CASE PrepareLayout(t)  BY <1>a, <2>1, <2>5 DEF PrepareLayout, ThreadsOK
  <2>6. CASE FinishPage(t)  BY <1>a, <2>1, <2>6 DEF FinishPage, ThreadsOK
  <2>7. CASE Handoff(t)  BY <1>a, <2>1, <2>7 DEF Handoff, ThreadsOK, Idle
  <2> QED BY <1>8, <2>2, <2>3, <2>4, <2>5, <2>6, <2>7 DEF CoordinatorStep
<1>9. CASE PopFinal(t) \/ ExitFinalizer(t) \/ VerifyBundle(t)
  BY <1>9, <1>a DEF PopFinal, ExitFinalizer, VerifyBundle, Goto, Raise, ThreadsOK, Idle, At
<1>10. CASE CheckCancelled(t) \/ PipelineStage(t) \/ Forget(t)
  <2>1. thread[t].pc \in DOMAIN AfterCheck => AfterCheck[thread[t].pc] \notin {"release", "forget"}  BY DEF AfterCheck
  <2> QED BY <1>10, <1>a, <2>1 DEF CheckCancelled, PipelineStage, Forget, Goto, Raise, ThreadsOK, Idle, At
<1> QED BY <1>3, <1>4, <1>5, <1>6, <1>7, <1>8, <1>9, <1>10 DEF ThreadStep, FinalizerStep, CommonStep

(* Before a quit the user cancels only attempts that are over. *)
LEMMA CancelledStep ==
  ASSUME IInv, ServedInv, OneUser, [Next]_vars
  PROVE  CancelledIsOver'
<1>a. QueuesOK /\ CommandsOK /\ ThreadsInv /\ RowsOK /\ OneResume /\ ToldOfRows /\ CancelledIsOver
  BY DEF IInv, TypeOK, RowsInv, ServedInv
<1>b. RowsAdvance  BY <1>a, EveryRowAdvances
<1>c. /\ \A d \in cancelled : d \in Descriptors /\ d.attempt <= job[d.entry].attempt
      /\ \A d \in owner : d \in Descriptors /\ d.attempt <= job[d.entry].attempt
  BY <1>a DEF QueuesOK, ToldOfRows, Told
<1>d. shuttingDown /\ ~shuttingDown' => Stopped  BY QuitIsFinal
<1>1. ASSUME NEW u \in Users, cmd'[u].op = "cancel"
      PROVE  job'[cmd'[u].desc.entry].state \notin Active
  <2>1. CASE cmd'[u] = cmd[u]
    <3>1. cmd[u].desc.entry \in Entries /\ job[cmd[u].desc.entry].state \notin Active
      BY <1>1, <2>1, <1>a DEF CommandsOK, Descriptors, CancelledIsOver
    <3> QED BY <1>1, <1>b, <2>1, <3>1 DEF RowsAdvance, Continues, Restarts
  <2>2. ASSUME NEW e \in Entries, DownloadCancel(u, e)
        PROVE  job'[cmd'[u].desc.entry].state \notin Active
    <3>1. cmd'[u].desc.entry = e  BY <2>2, <1>a DEF DownloadCancel, Begun, CommandsOK, Desc
    <3>2. "Cancelled" \in JobStates \ Active /\ job[e].err \in Errors /\ "none" \in Errors
      BY <1>a DEF JobStates, Active, Retryable, RowsOK, Errors
    <3>3. job'[e].state = "Cancelled"  BY <2>2, <3>2, <1>a, TransitionContinues DEF DownloadCancel
    <3> QED BY <3>1, <3>2, <3>3
  <2>3. ASSUME NEW t \in Threads, ThreadStep(t)
        PROVE  cmd'[u] = cmd[u]  BY <2>3, <1>a, EveryThreadStepHasAKind
  <2>4. ASSUME NEW v \in Users, CommandStep(v)
        PROVE  cmd'[u] = cmd[u] \/ \E e \in Entries : DownloadCancel(u, e)
    BY <2>4, <1>1, <1>a DEF OneUser, CommandStep, DownloadQueueAdd, DownloadRetry,
       OverlapDecisionResume, Launch, CancelEntries, Reconcile, Reconciled, Begun, CommandsOK, NoCmd
  <2>5. ASSUME RequestQuit \/ CancelStartup \/ QuitStep \/ Crash \/ BootStep
        PROVE  cmd'[u] = cmd[u]
    BY <2>5, <1>1 DEF RequestQuit, CancelStartup, QuitStep, SetShuttingDown, CloseQueue, CancelTokens,
       ClosePages, CloseFinalizing, Exit, Crash, Stopped, BootStep, RecoverVolatile,
       ResumeInterrupted, LaunchResumed, CommitReady, StartupCancelled, NoCmd
  <2>6. CASE UNCHANGED vars  BY <2>1, <2>6 DEF vars
  <2> QED BY <2>1, <2>2, <2>3, <2>4, <2>5, <2>6 DEF Next, ThreadStep, Threads
<1>2. ASSUME ~shuttingDown', NEW d \in cancelled'
      PROVE  ~Live(d)'
  <2>1. ~Stopped /\ ~shuttingDown  BY <1>2, <1>d DEF Stopped
  <2>2. CASE d \in cancelled  BY <2>1, <2>2, <1>a, <1>b, <1>c, OverStaysOver DEF CancelledIsOver
  <2>3. ASSUME NEW u \in Users, CancelEntries(u), d \notin cancelled
        PROVE  ~Live(d)'
    <3>1. d \in owner /\ ~Live(d)  BY <1>2, <2>3, <1>a DEF CancelEntries, CancelledIsOver, Live
    <3> QED BY <3>1, <1>a, <1>b, <1>c, OverStaysOver
  <2>4. d \in cancelled \/ \E u \in Users : CancelEntries(u)
    <3>1. CASE \E t \in Threads : Works(t) \/ Release(t) \/ Forget(t)
      BY <1>2, <3>1 DEF Works, Release, Forget, ownVars
    <3>2. CASE \E c \in Coordinators : \/ Pop(c) \/ ExitCoordinator(c) \/ Claim(c) \/ Insert(c)
                                       \/ Recheck(c) \/ HandedOff(c)
      BY <1>2, <2>1, <3>2 DEF Pop, ExitCoordinator, Claim, Insert, Recheck, HandedOff, ownVars
    <3>3. CASE \E f \in Finalizers : PopFinal(f) \/ ExitFinalizer(f)
      BY <1>2, <3>3 DEF PopFinal, ExitFinalizer, ownVars
    <3>4. CASE CancelTokens \/ Elsewhere  BY <1>2, <2>1, <3>4 DEF CancelTokens, Elsewhere, shuttingDown, ownVars
    <3> QED BY <2>1, <3>1, <3>2, <3>3, <3>4, <1>a, EveryStepHasAKind DEF StepKinds
  <2> QED BY <2>2, <2>3, <2>4
<1> QED BY <1>1, <1>2 DEF CancelledIsOver

(* What is let go before a quit is over. *)
LEMMA EndedStep ==
  ASSUME IInv, ServedInv, OneUser, [Next]_vars
  PROVE  EndedIsOver'
<1>a. ThreadsOK /\ ThreadsInv /\ RowsOK /\ OneResume /\ ToldOfRows /\ EndedIsOver
  BY DEF IInv, TypeOK, RowsInv, ServedInv
<1>b. RowsAdvance  BY <1>a, EveryRowAdvances
<1> SUFFICES ASSUME ~shuttingDown', NEW t \in Threads, thread'[t].pc \in {"release", "forget"}
             PROVE  ~Live(DescOf(t))'  BY DEF EndedIsOver
<1>1. ~Stopped /\ ~shuttingDown  BY QuitIsFinal DEF Stopped, Idle
<1>2. CASE thread'[t] = thread[t]
  <2>1. DescOf(t) \in Descriptors /\ ~Live(DescOf(t)) /\ DescOf(t).attempt <= job[DescOf(t).entry].attempt
    BY <1>1, <1>2, <1>a DEF ThreadsOK, DescOf, EndedIsOver, ToldOfRows, Told
  <2>2. ~(job'[DescOf(t).entry].state \in Active /\ job'[DescOf(t).entry].attempt = DescOf(t).attempt)
    BY <2>1, <1>a, <1>b, OverStaysOver DEF Live
  <2> QED BY <1>2, <2>2 DEF Live, DescOf
<1>3. CASE ThreadStep(t)  BY <1>1, <1>3, <1>b, ThreadsEndOver
<1>4. ASSUME NEW s \in Threads, ThreadStep(s), s # t
      PROVE  thread'[t] = thread[t]
  <2>1. ThreadKind(s)  BY <1>4, <1>a, EveryThreadStepHasAKind
  <2> QED BY <1>4, <2>1, <1>a DEF ThreadKind, Works, Moves, Release, Forget, Pop, ExitCoordinator,
         Claim, Insert, Recheck, HandedOff, PopFinal, ExitFinalizer, Goto, ThreadsOK
<1>5. ASSUME \/ RequestQuit \/ CancelStartup \/ QuitStep \/ Crash \/ BootStep \/ UNCHANGED vars
             \/ \E u \in Users : CommandStep(u)
      PROVE  thread' = thread
  BY <1>1, <1>5 DEF RequestQuit, CancelStartup, QuitStep, SetShuttingDown, CloseQueue, CancelTokens,
     ClosePages, CloseFinalizing, Exit, Crash, BootStep, RecoverVolatile, ResumeInterrupted,
     LaunchResumed, CommitReady, StartupCancelled, CommandStep, DownloadQueueAdd, DownloadRetry,
     OverlapDecisionResume, DownloadCancel, Launch, CancelEntries, Reconcile, Reconciled, vars
<1> QED BY <1>2, <1>3, <1>4, <1>5 DEF Next, ThreadStep, Threads

(* Commands end with their process, and a resume waits for the one before. *)
LEMMA OneResumeStep ==
  ASSUME IInv, OneResume, [Next]_vars
  PROVE  OneResume'
<1>a. CommandsOK /\ ThreadsInv  BY DEF IInv, TypeOK
<1>1. ASSUME NEW t \in Threads, ThreadStep(t)
      PROVE  OneResume'  BY <1>1, <1>a, EveryThreadStepHasAKind DEF OneResume, procVars
<1>2. ASSUME NEW u \in Users, CommandStep(u)
      PROVE  OneResume'
  <2>1. CASE \/ Launch(u) \/ CancelEntries(u)
    <3>1. /\ cmd'[u] = NoCmd /\ \A v \in Users \ {u} : cmd'[v] = cmd[v]
          /\ cmd[u].op # "reconcile" /\ UNCHANGED <<phase, launching>>
      BY <2>1, <1>a DEF Launch, CancelEntries, CommandsOK, procVars
    <3> QED BY <3>1 DEF OneResume
  <2>2. CASE Reconciled(u)
    <3>1. /\ cmd'[u] = NoCmd /\ \A v \in Users \ {u} : cmd'[v] = cmd[v]
          /\ launching' = {} /\ UNCHANGED phase  BY <2>2, <1>a DEF Reconciled, CommandsOK, procVars
    <3> QED BY <3>1 DEF OneResume
  <2>3. CASE Reconcile(u)  BY <2>3, <1>a DEF Reconcile, Ready, GateOpen, Begun, CommandsOK, OneResume
  <2>4. ASSUME NEW e \in Entries,
               \/ DownloadQueueAdd(u, e) \/ DownloadRetry(u, e)
               \/ OverlapDecisionResume(u, e) \/ DownloadCancel(u, e)
        PROVE  OneResume'
    <3>1. /\ \A v \in Users \ {u} : cmd'[v] = cmd[v]
          /\ cmd[u].op # "reconcile" /\ UNCHANGED <<phase, launching>>
          /\ phase \notin {"down", "booting"}
      BY <2>4, <1>a DEF DownloadQueueAdd, DownloadRetry, OverlapDecisionResume, DownloadCancel,
         Begun, Ready, NoCmd, Up, StartupPhases, CommandsOK, procVars
    <3> QED BY <3>1 DEF OneResume
  <2> QED BY <1>2, <2>1, <2>2, <2>3, <2>4 DEF CommandStep
<1>3. ASSUME \/ UNCHANGED <<phase, cmd, launching>>
             \/ phase' \notin {"down", "booting"} /\ UNCHANGED <<cmd, launching>> /\ phase # "resuming"
             \/ phase = "down" /\ UNCHANGED <<cmd, launching>> /\ phase' = "booting"
      PROVE  OneResume'  BY <1>3 DEF OneResume
<1>4. ASSUME RequestQuit \/ CancelStartup \/ QuitStep \/ Crash \/ UNCHANGED vars
      PROVE  OneResume'
  <2>1. CASE Stopped  BY <2>1 DEF Stopped, OneResume
  <2> QED BY <1>3, <1>4, <2>1 DEF RequestQuit, GateOpen, CancelStartup, QuitStep, SetShuttingDown,
         CloseQueue, CancelTokens, ClosePages, CloseFinalizing, Exit, Crash, vars, procVars
<1>5. ASSUME BootStep
      PROVE  OneResume'
  <2>1. CASE ResumeInterrupted  BY <2>1 DEF ResumeInterrupted, OneResume
  <2>2. CASE LaunchResumed  BY <2>2 DEF LaunchResumed, OneResume
  <2>3. CASE CommitReady  BY <2>3 DEF CommitReady, OneResume
  <2> QED BY <1>3, <1>5, <2>1, <2>2, <2>3 DEF BootStep, RecoverVolatile, StartupCancelled
<1> QED BY <1>1, <1>2, <1>4, <1>5 DEF Next, ThreadStep, Threads

(* An active row is still served after every step. *)
LEMMA ServedStep ==
  ASSUME IInv, ServedInv, OneUser, [Next]_vars
  PROVE  ActiveIsServed'
<1>a. /\ QueuesOK /\ CommandsOK /\ ThreadsOK /\ ThreadsInv /\ RowsOK /\ OneResume
      /\ EndedIsOver /\ ActiveIsServed  BY DEF IInv, TypeOK, RowsInv, ServedInv
<1>b. RowsAdvance  BY <1>a, EveryRowAdvances
<1> SUFFICES ASSUME Up', ~shuttingDown', NEW e \in Entries, job'[e].state \in Active
             PROVE  Served(e)'  BY DEF ActiveIsServed
<1>1. ~Stopped /\ ~shuttingDown  BY QuitIsFinal DEF Stopped, Up
<1>2. CASE Restarts(e)  BY <1>2 DEF Restarts
<1>3. CASE Continues(e) /\ phase = "down"
  <2>1. RecoverVolatile
    <3>1. ASSUME NEW t \in Threads, ThreadStep(t)
          PROVE  phase' = phase  BY <3>1, <1>a, EveryThreadStepHasAKind DEF procVars
    <3>2. ASSUME NEW u \in Users, CommandStep(u)
          PROVE  phase' = phase
      BY <3>2 DEF CommandStep, DownloadQueueAdd, DownloadRetry, OverlapDecisionResume, DownloadCancel,
         Launch, CancelEntries, Reconcile, Reconciled, procVars
    <3> QED BY <1>3, <3>1, <3>2 DEF Up, Next, ThreadStep, Threads, RequestQuit, GateOpen, CancelStartup,
              QuitStep, SetShuttingDown, CloseQueue, CancelTokens, ClosePages, CloseFinalizing, Exit,
              Crash, BootStep, ResumeInterrupted, LaunchResumed, CommitReady, StartupCancelled,
              vars, procVars
  <2>2. "Interrupted" \in JobStates \ Active /\ "none" \in Errors  BY DEF JobStates, Active, Retryable, Errors
  <2>3. Recovered(job[e]).state \notin Active  BY <2>2, <1>a, TransitionEffect DEF Recovered, RowsOK, Row
  <2> QED BY <2>1, <2>3 DEF RecoverVolatile
<1>4. CASE Continues(e) /\ phase # "down"
  <2>1. Served(e) /\ Desc(e)' = Desc(e)  BY <1>1, <1>4, <1>a DEF ActiveIsServed, Up, Continues, Desc
  <2>2. Desc(e) \in Descriptors  BY <1>4, RowDescriptor DEF IInv, Continues, Active, Absent
  <2>0. ASSUME known \subseteq known' \cup {NoDesc}, launching \subseteq known' \cup launching',
               \A u \in Users : cmd[u].op \in {"launch", "requeue"}
                                  => cmd'[u] = cmd[u] \/ cmd[u].desc \in known'
        PROVE  Served(e)'
    <3>1. Desc(e) # NoDesc  BY <2>2 DEF Descriptors, NoDesc, Attempts
    <3> QED BY <2>0, <2>1, <3>1 DEF Served
  <2>3. ASSUME NEW t \in Threads, ThreadStep(t)
        PROVE  Served(e)'
    <3>1. UNCHANGED <<cmd, launching>> /\ ThreadKind(t)  BY <2>3, <1>a, EveryThreadStepHasAKind DEF procVars
    <3>2. CASE Forget(t)
      <4>1. DescOf(t) # Desc(e)  BY <1>1, <1>4, <3>2, <1>a DEF Forget, At, EndedIsOver, Live, Desc, Continues
      <4> QED BY <2>1, <3>1, <3>2, <4>1 DEF Forget, Served
    <3>3. CASE known' = known  BY <2>0, <3>1, <3>3
    <3> QED BY <3>1, <3>2, <3>3 DEF ThreadKind, Works, Release, Pop, ExitCoordinator, Claim, Insert,
             Recheck, HandedOff, PopFinal, ExitFinalizer, queueVars
  <2>4. ASSUME NEW u \in Users, CommandStep(u)
        PROVE  Served(e)'
    <3>1. CASE Launch(u)
      <4>1. cmd[u].desc \in Descriptors /\ Enqueue(cmd[u].desc)  BY <3>1, <1>a DEF Launch, CommandsOK
      <4>2. known \subseteq known' /\ cmd[u].desc \in known'  BY <4>1, <1>1, <1>a, EnqueueEffect
      <4>3. (\A v \in Users \ {u} : cmd'[v] = cmd[v]) /\ UNCHANGED launching
        BY <3>1, <1>a DEF Launch, CommandsOK, procVars
      <4> QED BY <2>0, <4>2, <4>3
    <3>2. CASE CancelEntries(u) \/ Reconciled(u)
      <4>1. /\ \A v \in Users \ {u} : cmd'[v] = cmd[v]
            /\ cmd[u].op \notin {"launch", "requeue"} /\ UNCHANGED <<known, launching>>
        BY <3>2, <1>a DEF CancelEntries, Reconciled, CommandsOK, queueVars, procVars
      <4> QED BY <2>0, <4>1
    <3>3. CASE Reconcile(u)
      <4>1. /\ \A v \in Users \ {u} : cmd'[v] = cmd[v]
            /\ cmd[u].op \notin {"launch", "requeue"} /\ UNCHANGED known /\ launching = {}
        BY <3>3, <1>a DEF Reconcile, Ready, GateOpen, Begun, NoCmd, CommandsOK, queueVars, OneResume
      <4> QED BY <2>0, <4>1
    <3>4. ASSUME NEW f \in Entries,
                 \/ DownloadQueueAdd(u, f) \/ DownloadRetry(u, f)
                 \/ OverlapDecisionResume(u, f) \/ DownloadCancel(u, f)
          PROVE  Served(e)'
      <4>1. /\ \A v \in Users \ {u} : cmd'[v] = cmd[v]
            /\ cmd[u].op \notin {"launch", "requeue"} /\ UNCHANGED <<known, launching>>
        BY <3>4, <1>a DEF DownloadQueueAdd, DownloadRetry, OverlapDecisionResume, DownloadCancel,
           Begun, Ready, NoCmd, CommandsOK, queueVars, procVars
      <4> QED BY <2>0, <4>1
    <3> QED BY <2>4, <3>1, <3>2, <3>3, <3>4 DEF CommandStep
  <2>5. CASE LaunchResumed
    <3>1. PICK d \in launching : Enqueue(d) /\ launching' = launching \ {d}  BY <2>5 DEF LaunchResumed
    <3>2. d \in Descriptors /\ UNCHANGED cmd  BY <2>5, <1>a DEF LaunchResumed, QueuesOK
    <3>3. known \subseteq known' /\ d \in known'  BY <1>1, <1>a, <3>1, <3>2, EnqueueEffect
    <3> QED BY <2>0, <3>1, <3>2, <3>3
  <2>6. CASE ResumeInterrupted
    <3>1. launching = {} /\ UNCHANGED <<known, cmd>>  BY <2>6, <1>a DEF ResumeInterrupted, OneResume, NoCmd, queueVars
    <3> QED BY <2>0, <3>1
  <2>7. CASE UNCHANGED <<known, cmd, launching>>  BY <2>0, <2>7
  <2>8. CASE RequestQuit \/ CancelStartup \/ QuitStep \/ Crash \/ BootStep \/ UNCHANGED vars
    BY <1>1, <2>5, <2>6, <2>7, <2>8
       DEF RequestQuit, CancelStartup, QuitStep, SetShuttingDown, CloseQueue, CancelTokens,
           ClosePages, CloseFinalizing, Exit, Crash, BootStep, RecoverVolatile, CommitReady,
           StartupCancelled, queueVars, vars, procVars
  <2> QED BY <2>3, <2>4, <2>8 DEF Next, ThreadStep, Threads
<1> QED BY <1>2, <1>3, <1>4, <1>b DEF RowsAdvance

(* Nobody starts with work to do. *)
LEMMA InitServed == Init => ServedInv
  BY DEF Init, ServedInv, ToldOfRows, Told, CancelledIsOver, EndedIsOver, OneResume, ActiveIsServed,
     Idle, NoCmd, NoDesc, Descriptors, Attempts, Absent, Active, shuttingDown

(* The parts rest on each other, so they are kept together. *)
LEMMA NextServed == IInv /\ ServedInv /\ OneUser /\ [Next]_vars => ServedInv'
  BY ToldStep, CancelledStep, EndedStep, OneResumeStep, ServedStep DEF ServedInv

(* With one user at the commands no active row is ever left without somebody
   who works on it or is about to: enqueue, the resume after a restart and
   the cancellation of owners by entry cannot lose a job. *)
THEOREM NoJobIsLeftBehind ==
  ASSUME OneUser
  PROVE  Spec => []ActiveIsServed
<1>1. ServedInv => ActiveIsServed  BY DEF ServedInv
<1>2. IInv /\ ServedInv /\ [Next]_vars => ServedInv'  BY NextServed
<1> QED BY <1>1, <1>2, InitIInv, NextIInv, InitServed, PTL DEF Spec

----
(* The supervisor implements JobLifecycle: whatever its threads, commands,
   crashes and restarts do, every job row moves along the domain relation. *)

(* What the abstract specification sees of a row. *)
Projection(r) == [state |-> r.state, attempt |-> r.attempt]

LawfulRow(e) ==
  Projection(job'[e]) # Projection(job[e])
    => Lifecycle!Lawful(Projection(job[e]), Projection(job'[e]))

(* The transitions of domain/job.rs that the supervisor takes. *)
LEMMA TransitionsUsed ==
  /\ \A s \in Active : AllowsTransition(s, "Failed") /\ AllowsTransition(s, "Interrupted")
  /\ \A s \in Retryable \cup {"ReviewRequired"} : AllowsTransition(s, "Queued")
  /\ AllowsTransition("Queued", "ResolvingMetadata")
  /\ AllowsTransition("ResolvingMetadata", "Downloading")
  /\ AllowsTransition("Hashing", "ReviewRequired")
  /\ AllowsTransition("Verifying", "Completed")
  BY DEF AllowsTransition, Successors, Active, Retryable, JobStates, Abandoned

(* The instance of the abstract specification has the same relation. *)
LEMMA SameRelation ==
  /\ Lifecycle!JobStates = JobStates /\ Lifecycle!Absent = Absent
  /\ \A s \in JobStates : \A next : Lifecycle!AllowsTransition(s, next) <=> AllowsTransition(s, next)
<1>1. Lifecycle!JobStates = JobStates /\ Lifecycle!Absent = Absent
  BY DEF Lifecycle!JobStates, JobStates, Lifecycle!Active, Active, Lifecycle!Retryable, Retryable,
     Lifecycle!Absent, Absent
<1>2. Lifecycle!Successors = Successors  BY <1>1 DEF Lifecycle!Successors, Successors, Lifecycle!Abandoned, Abandoned
<1> QED BY <1>1, <1>2 DEF Lifecycle!AllowsTransition, AllowsTransition

(* A step that leaves the rows alone is lawful. *)
LEMMA UnchangedIsLawful ==
  ASSUME job' = job
  PROVE  \A e \in Entries : LawfulRow(e)  BY DEF LawfulRow, Projection

(* A transition of one row along the relation is lawful. *)
LEMMA TransitionIsLawful ==
  ASSUME RowsInv, NEW e \in Entries, NEW s \in JobStates \ {"Queued"}, NEW err \in Errors,
         job[e].state # Absent, AllowsTransition(job[e].state, s),
         SetRow(e, Transition(job[e], s, err))
  PROVE  \A f \in Entries : LawfulRow(f)
<1> DEFINE r == Transition(job[e], s, err)
<1>1. job[e] \in Row /\ RowsOK  BY DEF RowsInv, RowsOK, Row
<1>2. r \in Row /\ r.state = s /\ r.attempt = job[e].attempt  BY <1>1, TransitionEffect
<1>3. SetRow(e, r)  OBVIOUS
<1> HIDE DEF r
<1>4. job'[e] = r /\ \A f \in Entries \ {e} : job'[f] = job[f]  BY <1>1, <1>2, <1>3, SetRowEffect
<1>5. job[e].state \in JobStates  BY <1>1 DEF Row
<1>6. Lifecycle!Advanced(Projection(job[e]), Projection(r))
  BY <1>2, <1>5, SameRelation DEF Lifecycle!Advanced, Projection
<1> QED BY <1>4, <1>6 DEF LawfulRow, Lifecycle!Lawful

(* A new attempt of one row is lawful. *)
LEMMA RequeueIsLawful ==
  ASSUME NEW e \in Entries, job[e] \in Row, job'[e] = Requeue(job[e]),
         job[e].state \in Retryable \cup {"ReviewRequired"}
  PROVE  LawfulRow(e)
<1>1. job[e].state \in JobStates  BY DEF JobStates
<1>2. Lifecycle!Requeued(Projection(job[e]), Projection(job'[e]))
  BY <1>1, SameRelation, TransitionsUsed DEF Lifecycle!Requeued, Projection, Requeue
<1> QED BY <1>2 DEF LawfulRow, Lifecycle!Lawful

(* Every step moves every row lawfully. *)
LEMMA LawfulStep ==
  ASSUME IInv, [Next]_vars
  PROVE  \A e \in Entries : LawfulRow(e)
<1> DEFINE Lawfully == \A e \in Entries : LawfulRow(e)
<1>a. RowsInv /\ RowsOK /\ ThreadsOK /\ FailureIsReal  BY TokensMeanRealFailures DEF IInv, RowsInv, TypeOK
<1>b. \A e \in Entries : job[e] \in Row  BY <1>a DEF RowsOK, Row
<1>c. /\ {"ResolvingMetadata", "Downloading", "Hashing", "Verifying", "ReviewRequired", "Completed",
          "Failed", "Cancelled", "Interrupted"} \subseteq JobStates \ {"Queued"}
      /\ "none" \in Errors /\ "CONFLICT" \in Errors  BY DEF JobStates, Active, Retryable, Errors
<1>d. \A t \in Threads : thread[t].pc \notin {"idle", "exited"} => DescOf(t).entry \in Entries  BY <1>a, WorksForEntry
<1>1. ASSUME NEW u \in Users, NEW e \in Entries, DownloadQueueAdd(u, e)
      PROVE  Lawfully
  <2> DEFINE r == [state |-> "Queued", attempt |-> 1, err |-> "none"]
  <2>1. r \in Row  BY SupervisorAssumption DEF Row, MaxAttempts, JobStates, Active, Errors
  <2>2. SetRow(e, r) /\ job[e].state = Absent  BY <1>1 DEF DownloadQueueAdd
  <2>3. Projection(r) = [state |-> "Queued", attempt |-> 1]  BY DEF Projection
  <2> HIDE DEF r
  <2>4. job'[e] = r /\ \A f \in Entries \ {e} : job'[f] = job[f]  BY <2>1, <2>2, <1>a, SetRowEffect
  <2>5. Projection(job[e]) = Lifecycle!NoRow
    BY <2>2, <1>a, SameRelation DEF RowsInv, RowBounds, Projection, Lifecycle!NoRow
  <2> QED BY <2>3, <2>4, <2>5 DEF LawfulRow, Lifecycle!Lawful, Lifecycle!Created
<1>2. ASSUME NEW u \in Users, NEW e \in Entries,
             DownloadRetry(u, e) \/ OverlapDecisionResume(u, e)
      PROVE  Lawfully
  <2>1. SetRow(e, Requeue(job[e])) /\ job[e].state \in Retryable \cup {"ReviewRequired"}
    BY <1>2 DEF DownloadRetry, OverlapDecisionResume
  <2>2. job'[e] = Requeue(job[e]) /\ \A f \in Entries \ {e} : job'[f] = job[f]  BY <2>1, <1>a DEF SetRow, RowsOK
  <2>3. LawfulRow(e)  BY <2>1, <2>2, <1>b, RequeueIsLawful
  <2> QED BY <2>2, <2>3 DEF LawfulRow
<1>3. ASSUME NEW u \in Users, NEW e \in Entries, DownloadCancel(u, e)
      PROVE  Lawfully
  <2>1. job[e].err \in Errors  BY <1>b DEF Row
  <2> QED BY <1>3, <2>1, <1>a, <1>c, TransitionIsLawful, UnchangedIsLawful DEF DownloadCancel
<1>4. ASSUME NEW c \in Coordinators, PipelineBegin(c)
      PROVE  Lawfully
  <2>1. DescOf(c).entry \in Entries /\ DescOf(c) = thread[c].desc
    BY <1>4, <1>d DEF PipelineBegin, At, Threads, DescOf
  <2>2. CASE job' = job  BY <2>2, UnchangedIsLawful
  <2>3. [job EXCEPT ![DescOf(c).entry] = job[DescOf(c).entry]] = job  BY <1>a DEF RowsOK
  <2>4. job' = job \/ /\ job[DescOf(c).entry].state = "Queued"
                      /\ SetRow(DescOf(c).entry,
                                Transition(job[DescOf(c).entry], "ResolvingMetadata", "none"))
    BY <1>4, <2>1, <2>3 DEF PipelineBegin, RowOf, SetRow
  <2> QED BY <2>1, <2>2, <2>4, <1>a, <1>c, TransitionsUsed, TransitionIsLawful DEF Absent
<1>5. ASSUME NEW c \in Coordinators, PipelinePrepare(c)
      PROVE  Lawfully
  <2>1. DescOf(c).entry \in Entries /\ DescOf(c) = thread[c].desc
    BY <1>5, <1>d DEF PipelinePrepare, At, Threads, DescOf
  <2> QED BY <1>5, <2>1, <1>a, <1>c, TransitionsUsed, TransitionIsLawful, UnchangedIsLawful
      DEF PipelinePrepare, RowOf, durable, Absent
<1>6. ASSUME NEW c \in Coordinators, PageConflict(c)
      PROVE  Lawfully
  <2> DEFINE e == DescOf(c).entry
  <2>1. e \in Entries  BY <1>6, <1>d DEF PageConflict, At, Threads
  <2>2. CASE job' = job  BY <2>2, UnchangedIsLawful
  <2>3. CASE /\ artifact[e] # "none" /\ AllowsTransition(job[e].state, "Failed")
             /\ SetRow(e, Transition(job[e], "Failed", "CONFLICT"))
    <3>1. job[e].state # Absent  BY <2>1, <2>3, <1>a DEF RowsInv, RowBounds
    <3> QED BY <2>1, <2>3, <3>1, <1>a, <1>c, TransitionIsLawful
  <2> QED BY <1>6, <2>2, <2>3 DEF PageConflict, MarkArtifactIssue, SetRow
<1>7. ASSUME NEW t \in Threads, PipelineStage(t)
      PROVE  Lawfully
  <2>1. DescOf(t).entry \in Entries /\ DescOf(t) = thread[t].desc  BY <1>7, <1>d DEF PipelineStage, DescOf
  <2> QED BY <1>7, <2>1, <1>a, <1>c, TransitionIsLawful, UnchangedIsLawful
      DEF PipelineStage, RowOf, Current
<1>8. ASSUME NEW f \in Finalizers, OverlapGate(f)
      PROVE  Lawfully
  <2>1. DescOf(f).entry \in Entries /\ DescOf(f) = thread[f].desc  BY <1>8, <1>d DEF OverlapGate, At, Threads, DescOf
  <2> QED BY <1>8, <2>1, <1>a, <1>c, TransitionsUsed, TransitionIsLawful, UnchangedIsLawful
      DEF OverlapGate, RowOf, Absent
<1>9. ASSUME NEW f \in Finalizers, PipelineComplete(f)
      PROVE  Lawfully
  <2>1. DescOf(f).entry \in Entries /\ DescOf(f) = thread[f].desc
    BY <1>9, <1>d DEF PipelineComplete, At, Threads, DescOf
  <2> QED BY <1>9, <2>1, <1>a, <1>c, TransitionsUsed, TransitionIsLawful, UnchangedIsLawful
      DEF PipelineComplete, RowOf, durable, Absent
<1>10. ASSUME NEW t \in Threads, PipelineFail(t)
       PROVE  Lawfully
  <2>1. DescOf(t).entry \in Entries /\ DescOf(t) = thread[t].desc /\ thread[t].err \in Errors
    BY <1>10, <1>a, <1>d DEF PipelineFail, At, DescOf, ThreadsOK
  <2> QED BY <1>10, <2>1, <1>a, <1>c, TransitionsUsed, TransitionIsLawful, UnchangedIsLawful
      DEF PipelineFail, RowOf, Current, durable
<1>11. ASSUME RecoverVolatile
       PROVE  Lawfully
  <2> SUFFICES ASSUME NEW e \in Entries PROVE LawfulRow(e)  OBVIOUS
  <2>1. job'[e] = Recovered(job[e])  BY <1>11 DEF RecoverVolatile
  <2>2. CASE job[e].state \notin Active  BY <2>1, <2>2 DEF Recovered, LawfulRow
  <2>3. CASE job[e].state \in Active
    <3>1. job'[e].state = "Interrupted" /\ job'[e].attempt = job[e].attempt
      <4>1. job[e] \in Row /\ job'[e] = Transition(job[e], "Interrupted", "none")  BY <2>1, <2>3, <1>b DEF Recovered
      <4>2. "Interrupted" \in JobStates /\ "none" \in Errors  BY <1>c
      <4>3. /\ Transition(job[e], "Interrupted", "none").state = "Interrupted"
            /\ Transition(job[e], "Interrupted", "none").attempt = job[e].attempt
        BY <4>1, <4>2, TransitionEffect
      <4> QED BY <4>1, <4>3
    <3>2. job[e].state \in JobStates  BY <2>3 DEF JobStates
    <3>3. Lifecycle!Advanced(Projection(job[e]), Projection(job'[e]))
      BY <2>3, <3>1, <3>2, TransitionsUsed, SameRelation DEF Lifecycle!Advanced, Projection
    <3> QED BY <3>3 DEF LawfulRow, Lifecycle!Lawful
  <2> QED BY <2>2, <2>3
<1>12. ASSUME Resume
       PROVE  Lawfully
  <2> SUFFICES ASSUME NEW e \in Entries PROVE LawfulRow(e)  OBVIOUS
  <2>1. CASE e \in Resumable  BY <1>12, <2>1, <1>b, RequeueIsLawful DEF Resume, Resumable, Retryable
  <2>2. CASE e \notin Resumable  BY <1>12, <2>2 DEF Resume, LawfulRow
  <2> QED BY <2>1, <2>2
<1>13. ASSUME NEW c \in Coordinators, CoordinatorStep(c)
       PROVE  UNCHANGED job \/ PipelineBegin(c) \/ PipelinePrepare(c) \/ PageConflict(c)
  BY <1>13 DEF CoordinatorStep, Pop, ExitCoordinator, Claim, Insert, Recheck, Resolve,
     PrepareLayout, StartPage, FinishPage, PagesDone, Handoff, durable
<1>14. ASSUME NEW f \in Finalizers, FinalizerStep(f)
       PROVE  UNCHANGED job \/ OverlapGate(f) \/ PipelineComplete(f)
  BY <1>14 DEF FinalizerStep, PopFinal, ExitFinalizer, VerifyBundle, durable
<1>15. ASSUME NEW t \in Threads, CommonStep(t)
       PROVE  UNCHANGED job \/ PipelineStage(t) \/ PipelineFail(t)
  BY <1>15 DEF CommonStep, CheckCancelled, HandleError, Release, Forget, durable
<1>16. ASSUME NEW u \in Users, CommandStep(u)
       PROVE  Lawfully
  <2>1. \/ UNCHANGED job \/ Resume
        \/ \E e \in Entries : \/ DownloadQueueAdd(u, e) \/ DownloadRetry(u, e)
                              \/ OverlapDecisionResume(u, e) \/ DownloadCancel(u, e)
    BY <1>16 DEF CommandStep, Launch, CancelEntries, Reconcile, Reconciled, durable
  <2> QED BY <2>1, <1>1, <1>2, <1>3, <1>12, UnchangedIsLawful
<1>17. ASSUME RequestQuit \/ CancelStartup \/ QuitStep \/ Crash \/ BootStep
       PROVE  UNCHANGED job \/ RecoverVolatile \/ Resume
  BY <1>17 DEF RequestQuit, CancelStartup, QuitStep, SetShuttingDown, CloseQueue, CancelTokens,
     ClosePages, CloseFinalizing, Exit, Crash, Stopped, BootStep, ResumeInterrupted, LaunchResumed,
     CommitReady, StartupCancelled, durable
<1>18. CASE UNCHANGED vars  BY <1>18, UnchangedIsLawful DEF vars, durable
<1> HIDE DEF Lawfully
<1>19. Lawfully  BY <1>4, <1>5, <1>6, <1>7, <1>8, <1>9, <1>10, <1>11, <1>12, <1>13, <1>14, <1>15, <1>16, <1>17,
     <1>18, UnchangedIsLawful DEF Next, Threads, Lawfully
<1> QED BY <1>19 DEF Lawfully

(* The threads, commands, crashes and recoveries of the supervisor implement
   the lifecycle of domain/job.rs. *)
THEOREM Refinement == Spec => ImplementsLifecycle
<1>1. Init => Lifecycle!LInit  BY SameRelation DEF Init, Lifecycle!LInit, Lifecycle!NoRow
<1>2. IInv /\ [Next]_vars
        => [Lifecycle!LNext]_([e \in Entries |-> [state |-> job[e].state, attempt |-> job[e].attempt]])
  <2> SUFFICES ASSUME IInv, [Next]_vars PROVE Lifecycle!LNext  OBVIOUS
  <2>1. \A e \in Entries : LawfulRow(e)  BY LawfulStep
  <2> QED BY <2>1 DEF Lifecycle!LNext, LawfulRow, Projection
<1> QED BY <1>1, <1>2, InitIInv, NextIInv, PTL DEF Spec, ImplementsLifecycle, Lifecycle!LSpec
====
