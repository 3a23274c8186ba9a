---- MODULE DownloadSupervisor ----
(***************************************************************************)
(* The download supervisor: album coordinators, finalization workers, the  *)
(* commands of the interface, the quit sequence, crashes and startup       *)
(* recovery, over the durable job and artifact rows.                       *)
(*                                                                         *)
(* One action is one critical section or one SQLite transaction.  A page   *)
(* is one visit of the coordinator to "inpage"; module PagePipeline opens  *)
(* that visit up into the shared page pool and the files on disk.          *)
(***************************************************************************)
EXTENDS Integers, Sequences, FiniteSets, JobState

CONSTANTS
  Entries,        \* download entries; each belongs to its own gallery here
  Coordinators,   \* threads running worker_loop
  Finalizers,     \* threads running finalization_worker
  Users,          \* threads running interface commands
  NumPages,       \* source pages of every gallery
  FinalizeCap,    \* capacity of the finalization queue
  MaxAttempt,     \* bound: attempts of one entry that commands start
  MaxDowntime     \* bound: crashes and quits

ASSUME SupervisorAssumption ==
  /\ Coordinators \cap Finalizers = {}
  /\ NumPages \in Nat \ {0}
  /\ FinalizeCap \in Nat \ {0}
  /\ MaxAttempt \in Nat \ {0}
  /\ MaxDowntime \in Nat

VARIABLES
  job,            \* durable: [Entries -> [state, attempt, err]]
  artifact,       \* durable: state of the artifact row of each entry
  pending,        \* SupervisorQueue.pending
  known,          \* SupervisorQueue.known
  owner,          \* keys of the map of active cancellations
  cancelled,      \* owners whose token is cancelled
  thread,         \* [Threads -> [pc, desc, err, left]]
  finalizing,     \* the finalization WorkQueue
  cmd,            \* [Users -> [op, desc]]: the rest of a running command
  phase,          \* of the process, see Phases
  launching,      \* resumed descriptors that are still to be enqueued
  downs           \* crashes and quits so far

durable  == <<job, artifact>>
queueVars == <<pending, known>>
ownVars  == <<owner, cancelled>>
procVars == <<phase, launching, downs>>
vars == <<durable, queueVars, ownVars, thread, finalizing, cmd, procVars>>

Threads == Coordinators \cup Finalizers
MaxAttempts == MaxAttempt + MaxDowntime   \* each restart may start one more
Attempts == 1 .. MaxAttempts
Descriptors == [entry : Entries, attempt : Attempts]
NoDesc == [entry |-> "none", attempt |-> 0]
Errors == {"none", "SOURCE", "CANCELLED", "STALE", "OCCUPIED", "HASH", "CONFLICT"}
ArtifactStates == {"none", "incomplete", "complete", "missing"}

Desc(e) == [entry |-> e, attempt |-> job[e].attempt]

\* Steps of run_download, in order; then of the failure path shared by all.
CoordinatorPcs == {"claim", "insert", "recheck", "begin", "check1", "resolve",
                   "check2", "prepare", "layoutNew", "layout", "pages",
                   "inpage", "stage", "handoff"}
FinalizerPcs == {"verify", "overlap", "verifying", "check3", "complete"}
Pcs == {"idle", "exited", "error", "fail", "release", "forget"}
         \cup CoordinatorPcs \cup FinalizerPcs

\* A thread between claim_job's insert and finish_job's remove.
HoldingPcs == Pcs \ {"idle", "exited", "claim", "insert", "forget"}

Idle == [pc |-> "idle", desc |-> NoDesc, err |-> "none", left |-> 0]
NoCmd == [op |-> "idle", desc |-> NoDesc]

\* The process is down, starts (recovery, then the resume under commit_ready),
\* runs, and after an accepted quit goes through the steps of
\* shutdown_and_wait.  The flags of the code are set once, in that order, so
\* each is a function of the phase.
StartupPhases == {"booting", "resuming", "cancelling"}
Phases == {"down", "running", "quitting", "closeQueue", "cancelTokens", "closePages",
           "closeFinalizing", "join"} \cup StartupPhases

Up == phase # "down"
shuttingDown == phase \in {"closeQueue", "cancelTokens", "closePages", "closeFinalizing", "join"}
closed       == phase \in {"cancelTokens", "closePages", "closeFinalizing", "join"}
pagesClosed  == phase \in {"closeFinalizing", "join"}
finClosed    == phase = "join"

----
(* The repository: one operator per transaction, on the row r of the entry. *)

\* read_pipeline_target: a descriptor of another attempt is stale.
Current(d) == job[d.entry].state # Absent /\ job[d.entry].attempt = d.attempt

\* transition_pipeline_target; last_error_code is overwritten.
Transition(r, next, err) == [r EXCEPT !.state = next, !.err = err]

SetRow(e, r) == job' = [job EXCEPT ![e] = r]

\* download_retry and requeue_overlap_target: a new worker attempt.
Requeue(r) == [state |-> "Queued", attempt |-> r.attempt + 1, err |-> "none"]

\* recover_volatile_downloads: what was active when the process stopped.
Recovered(r) == IF r.state \in Active THEN Transition(r, "Interrupted", "none") ELSE r

\* pipeline_mark_artifact_issue without a snapshot: the row is looked up by
\* entry, so it is the current attempt that fails.
MarkArtifactIssue(e) ==
  /\ artifact' = [artifact EXCEPT ![e] = IF @ = "none" THEN @ ELSE "missing"]
  /\ job' = IF artifact[e] # "none" /\ AllowsTransition(job[e].state, "Failed")
              THEN [job EXCEPT ![e] = Transition(@, "Failed", "CONFLICT")]
              ELSE job

----
Init ==
  /\ job = [e \in Entries |-> [state |-> Absent, attempt |-> 0, err |-> "none"]]
  /\ artifact = [e \in Entries |-> "none"]
  /\ pending = <<>> /\ known = {}
  /\ owner = {} /\ cancelled = {}
  /\ thread = [t \in Threads |-> Idle]
  /\ finalizing = <<>>
  /\ cmd = [u \in Users |-> NoCmd]
  /\ phase = "running" /\ launching = {} /\ downs = 0

----
(* Interface commands.  Those that start work run inside the managed-work
   gate, which a quit closes; cancelling is outside it. *)

\* ManagedWorkGate.run: one holder, and none once a quit was accepted.
GateOpen == phase = "running" /\ \A v \in Users : cmd[v].op \notin {"launch", "reconcile"}

\* startup::gate parks every command until the startup is committed.
Ready(u) == Up /\ phase \notin StartupPhases /\ cmd[u] = NoCmd

Begun(u, op, d) == cmd' = [cmd EXCEPT ![u] = [op |-> op, desc |-> d]]

DownloadQueueAdd(u, e) ==
  /\ Ready(u) /\ GateOpen /\ job[e].state = Absent
  /\ SetRow(e, [state |-> "Queued", attempt |-> 1, err |-> "none"])
  /\ Begun(u, "launch", [entry |-> e, attempt |-> 1])
  /\ UNCHANGED <<artifact, queueVars, ownVars, thread, finalizing, procVars>>

DownloadRetry(u, e) ==
  /\ Ready(u) /\ GateOpen
  /\ job[e].state \in Retryable
  /\ job[e].attempt < MaxAttempt
  /\ SetRow(e, Requeue(job[e]))
  /\ Begun(u, "launch", [entry |-> e, attempt |-> job[e].attempt + 1])
  /\ UNCHANGED <<artifact, queueVars, ownVars, thread, finalizing, procVars>>

\* The last decision of an overlap review resumes the album; this command is
\* not inside the gate.
OverlapDecisionResume(u, e) ==
  /\ Ready(u)
  /\ job[e].state = "ReviewRequired" /\ job[e].attempt < MaxAttempt
  /\ SetRow(e, Requeue(job[e]))
  /\ Begun(u, "requeue", [entry |-> e, attempt |-> job[e].attempt + 1])
  /\ UNCHANGED <<artifact, queueVars, ownVars, thread, finalizing, procVars>>

EnqueueByEntry(d) ==
  IF closed \/ shuttingDown \/ \E k \in known : k.entry = d.entry
    THEN UNCHANGED queueVars
    ELSE /\ known' = known \cup {d}
         /\ pending' = Append(pending, d)

\* enqueue: refused when shutting down, ignored when the key is known.
Enqueue(d) ==
  IF closed \/ shuttingDown \/ d \in known
    THEN UNCHANGED queueVars
    ELSE /\ known' = known \cup {d}
         /\ pending' = Append(pending, d)

Launch(u) ==
  /\ cmd[u].op \in {"launch", "requeue"}
  /\ Enqueue(cmd[u].desc)
  /\ cmd' = [cmd EXCEPT ![u] = NoCmd]
  /\ UNCHANGED <<durable, ownVars, thread, finalizing, procVars>>

DownloadCancel(u, e) ==
  /\ Ready(u)
  /\ job[e].state # Absent
  /\ \/ job[e].state = "Cancelled" /\ UNCHANGED job
     \/ /\ AllowsTransition(job[e].state, "Cancelled")
        /\ SetRow(e, Transition(job[e], "Cancelled",
                                IF job[e].state \in {"Interrupted", "Failed"}
                                  THEN job[e].err ELSE "none"))
  /\ Begun(u, "cancel", Desc(e))
  /\ UNCHANGED <<artifact, queueVars, ownVars, thread, finalizing, procVars>>

\* cancel_entries: every owner of the entry, whatever its attempt.
CancelEntries(u) ==
  /\ cmd[u].op = "cancel"
  /\ cancelled' = cancelled \cup {d \in owner : d.entry = cmd[u].desc.entry}
  /\ cmd' = [cmd EXCEPT ![u] = NoCmd]
  /\ UNCHANGED <<durable, queueVars, owner, thread, finalizing, procVars>>

----
(* Steps of a thread t. *)

At(t, pc) == thread[t].pc = pc

Goto(t, pc) == thread' = [thread EXCEPT ![t].pc = pc]

Raise(t, err) == thread' = [thread EXCEPT ![t].pc = "error", ![t].err = err]

DescOf(t) == thread[t].desc
RowOf(t) == job[thread[t].desc.entry]
TokenCancelled(t) == thread[t].desc \in cancelled

\* worker_loop takes a descriptor even when the queue is already closed.
Pop(c) ==
  /\ At(c, "idle") /\ pending # <<>>
  /\ thread' = [thread EXCEPT ![c] = [Idle EXCEPT !.pc = "claim", !.desc = Head(pending)]]
  /\ pending' = Tail(pending)
  /\ UNCHANGED <<durable, known, ownVars, finalizing, cmd, procVars>>

ExitWhenAllForgotten(c) ==
  /\ At(c, "idle") /\ known = {} /\ closed
  /\ Goto(c, "exited")
  /\ UNCHANGED <<durable, queueVars, ownVars, finalizing, cmd, procVars>>

ExitCoordinator(c) ==
  /\ At(c, "idle") /\ pending = <<>> /\ closed
  /\ Goto(c, "exited")
  /\ UNCHANGED <<durable, queueVars, ownVars, finalizing, cmd, procVars>>

\* claim_job reads the flag without the lock, then takes the lock.
Claim(c) ==
  /\ At(c, "claim")
  /\ Goto(c, IF shuttingDown THEN "forget" ELSE "insert")
  /\ UNCHANGED <<durable, queueVars, ownVars, finalizing, cmd, procVars>>

Fenced(d) == \E o \in owner : o.entry = d.entry

FencedByKey(d) == d \in owner

InsertByKey(c) ==
  /\ At(c, "insert")
  /\ IF FencedByKey(DescOf(c))
       THEN Goto(c, "claim") /\ UNCHANGED ownVars
       ELSE /\ owner' = owner \cup {DescOf(c)}
            /\ cancelled' = cancelled \ {DescOf(c)}
            /\ Goto(c, "recheck")
  /\ UNCHANGED <<durable, queueVars, finalizing, cmd, procVars>>

\* Under the lock: wait while any attempt of the entry is owned.
Insert(c) ==
  /\ At(c, "insert")
  /\ IF Fenced(DescOf(c))
       THEN Goto(c, "claim") /\ UNCHANGED ownVars
       ELSE /\ owner' = owner \cup {DescOf(c)}
            /\ cancelled' = cancelled \ {DescOf(c)}
            /\ Goto(c, "recheck")
  /\ UNCHANGED <<durable, queueVars, finalizing, cmd, procVars>>

NoRecheck(c) ==
  /\ At(c, "recheck")
  /\ Goto(c, "begin")
  /\ UNCHANGED <<durable, queueVars, ownVars, finalizing, cmd, procVars>>

\* A quit that cancelled the tokens before the insert is seen here.
Recheck(c) ==
  /\ At(c, "recheck")
  /\ cancelled' = IF shuttingDown THEN cancelled \cup {DescOf(c)} ELSE cancelled
  /\ Goto(c, "begin")
  /\ UNCHANGED <<durable, queueVars, owner, finalizing, cmd, procVars>>

PipelineBegin(c) ==
  /\ At(c, "begin")
  /\ IF Current(DescOf(c)) /\ RowOf(c).state \in {"Queued", "ResolvingMetadata"}
       THEN /\ SetRow(DescOf(c).entry, IF RowOf(c).state = "Queued"
                                         THEN Transition(RowOf(c), "ResolvingMetadata", "none")
                                         ELSE RowOf(c))
            /\ Goto(c, "check1")
       ELSE Raise(c, "STALE") /\ UNCHANGED job
  /\ UNCHANGED <<artifact, queueVars, ownVars, finalizing, cmd, procVars>>

AfterCheck == [check1 |-> "resolve", check2 |-> "prepare", check3 |-> "complete"]

CheckCancelled(t) ==
  /\ thread[t].pc \in DOMAIN AfterCheck
  /\ IF TokenCancelled(t) THEN Raise(t, "CANCELLED") ELSE Goto(t, AfterCheck[thread[t].pc])
  /\ UNCHANGED <<durable, queueVars, ownVars, finalizing, cmd, procVars>>

\* Settings, pipeline_received_snapshot and the source's gallery_snapshot.
Resolve(c) ==
  /\ At(c, "resolve")
  /\ \/ Current(DescOf(c)) /\ RowOf(c).state = "ResolvingMetadata" /\ Goto(c, "check2")
     \/ ~(Current(DescOf(c)) /\ RowOf(c).state = "ResolvingMetadata") /\ Raise(c, "STALE")
     \/ Raise(c, IF TokenCancelled(c) THEN "CANCELLED" ELSE "SOURCE")
  /\ UNCHANGED <<durable, queueVars, ownVars, finalizing, cmd, procVars>>

PipelinePrepare(c) ==
  LET e == DescOf(c).entry IN
  /\ At(c, "prepare")
  /\ IF Current(DescOf(c)) /\ RowOf(c).state = "ResolvingMetadata"
       THEN /\ SetRow(e, Transition(RowOf(c), "Downloading", "none"))
            /\ artifact' = [artifact EXCEPT ![e] = "incomplete"]
            /\ Goto(c, IF artifact[e] = "none" THEN "layoutNew" ELSE "layout")
       ELSE Raise(c, "STALE") /\ UNCHANGED durable
  /\ UNCHANGED <<queueVars, ownVars, finalizing, cmd, procVars>>

\* A directory that already exists is refused for a new artifact row only.
PrepareLayout(c) ==
  /\ thread[c].pc \in {"layoutNew", "layout"}
  /\ \/ thread' = [thread EXCEPT ![c].pc = "pages", ![c].left = NumPages]
     \/ At(c, "layoutNew") /\ Raise(c, "OCCUPIED")
  /\ UNCHANGED <<durable, queueVars, ownVars, finalizing, cmd, procVars>>

\* download_pages: the coordinator offers the next page to the pool.
StartPage(c) ==
  /\ At(c, "pages") /\ thread[c].left > 0
  /\ IF TokenCancelled(c) \/ pagesClosed THEN Raise(c, "CANCELLED") ELSE Goto(c, "inpage")
  /\ UNCHANGED <<durable, queueVars, ownVars, finalizing, cmd, procVars>>

\* The page arrived: pipeline_page_verified, or the page's error.
FinishPage(c) ==
  /\ At(c, "inpage")
  /\ \/ /\ Current(DescOf(c)) /\ RowOf(c).state = "Downloading"
        /\ thread' = [thread EXCEPT ![c].pc = "pages", ![c].left = @ - 1]
     \/ /\ ~(Current(DescOf(c)) /\ RowOf(c).state = "Downloading")
        /\ Raise(c, "STALE")
     \/ Raise(c, IF TokenCancelled(c) THEN "CANCELLED" ELSE "SOURCE")
  /\ UNCHANGED <<durable, queueVars, ownVars, finalizing, cmd, procVars>>

\* download_one_page found a file that no checkpoint explains.
PageConflict(c) ==
  /\ At(c, "inpage")
  /\ MarkArtifactIssue(DescOf(c).entry)
  /\ Raise(c, "HASH")
  /\ UNCHANGED <<queueVars, ownVars, finalizing, cmd, procVars>>

PagesDone(c) ==
  /\ At(c, "pages") /\ thread[c].left = 0
  /\ IF TokenCancelled(c) THEN Raise(c, "CANCELLED") ELSE Goto(c, "stage")
  /\ UNCHANGED <<durable, queueVars, ownVars, finalizing, cmd, procVars>>

\* pipeline_stage: to Hashing by a coordinator, to Verifying by a finalizer.
PipelineStage(t) ==
  LET next == IF At(t, "stage") THEN "Hashing" ELSE "Verifying" IN
  /\ thread[t].pc \in {"stage", "verifying"}
  /\ IF Current(DescOf(t)) /\ AllowsTransition(RowOf(t).state, next)
       THEN /\ SetRow(DescOf(t).entry, Transition(RowOf(t), next, "none"))
            /\ Goto(t, IF At(t, "stage") THEN "handoff" ELSE "check3")
       ELSE Raise(t, "STALE") /\ UNCHANGED job
  /\ UNCHANGED <<artifact, queueVars, ownVars, finalizing, cmd, procVars>>

\* As Handoff, but a full queue loses the job instead of making it wait.
HandoffOrDrop(c) ==
  /\ At(c, "handoff")
  /\ \/ /\ TokenCancelled(c) \/ finClosed
        /\ Raise(c, "CANCELLED")
        /\ UNCHANGED finalizing
     \/ /\ ~TokenCancelled(c) /\ ~finClosed
        /\ finalizing' = IF Len(finalizing) < FinalizeCap
                          THEN Append(finalizing, DescOf(c)) ELSE finalizing
        /\ thread' = [thread EXCEPT ![c] = Idle]
  /\ UNCHANGED <<durable, queueVars, ownVars, cmd, procVars>>

\* WorkQueue.push: the coordinator keeps the album while the queue is full.
Handoff(c) ==
  /\ At(c, "handoff")
  /\ \/ /\ TokenCancelled(c) \/ finClosed
        /\ Raise(c, "CANCELLED")
        /\ UNCHANGED finalizing
     \/ /\ ~TokenCancelled(c) /\ ~finClosed /\ Len(finalizing) < FinalizeCap
        /\ finalizing' = Append(finalizing, DescOf(c))
        /\ thread' = [thread EXCEPT ![c] = Idle]
  /\ UNCHANGED <<durable, queueVars, ownVars, cmd, procVars>>

----
(* Finalization worker f. *)

PopFinal(f) ==
  /\ At(f, "idle") /\ finalizing # <<>>
  /\ thread' = [thread EXCEPT ![f] = [Idle EXCEPT !.pc = "verify", !.desc = Head(finalizing)]]
  /\ finalizing' = Tail(finalizing)
  /\ UNCHANGED <<durable, queueVars, ownVars, cmd, procVars>>

ExitFinalizer(f) ==
  /\ At(f, "idle") /\ finalizing = <<>> /\ finClosed
  /\ Goto(f, "exited")
  /\ UNCHANGED <<durable, queueVars, ownVars, finalizing, cmd, procVars>>

\* Load the bundle, take the artist locks, verify every file.
VerifyBundle(f) ==
  /\ At(f, "verify")
  /\ \/ TokenCancelled(f) /\ Raise(f, "CANCELLED")
     \/ ~TokenCancelled(f) /\ Goto(f, "overlap")
     \/ ~TokenCancelled(f) /\ Raise(f, "HASH")
  /\ UNCHANGED <<durable, queueVars, ownVars, finalizing, cmd, procVars>>

\* run_overlap_review_gate: pass, pause for a review, or fail.
OverlapGate(f) ==
  /\ At(f, "overlap")
  /\ \/ Goto(f, "verifying") /\ UNCHANGED job
     \/ /\ Current(DescOf(f)) /\ RowOf(f).state = "Hashing"
        /\ SetRow(DescOf(f).entry, Transition(RowOf(f), "ReviewRequired", "none"))
        /\ Goto(f, "release")
     \/ ~(Current(DescOf(f)) /\ RowOf(f).state = "Hashing") /\ Raise(f, "STALE") /\ UNCHANGED job
     \/ Raise(f, IF TokenCancelled(f) THEN "CANCELLED" ELSE "SOURCE") /\ UNCHANGED job
  /\ UNCHANGED <<artifact, queueVars, ownVars, finalizing, cmd, procVars>>

CompleteAnyAttempt(f) ==
  LET e == DescOf(f).entry IN
  /\ At(f, "complete")
  /\ IF artifact[e] = "incomplete"
       THEN /\ SetRow(e, Transition(RowOf(f), "Completed", "none"))
            /\ artifact' = [artifact EXCEPT ![e] = "complete"]
            /\ Goto(f, "release")
       ELSE Raise(f, "STALE") /\ UNCHANGED durable
  /\ UNCHANGED <<queueVars, ownVars, finalizing, cmd, procVars>>

\* The manifest is written and read back, then pipeline_complete.
PipelineComplete(f) ==
  LET e == DescOf(f).entry IN
  /\ At(f, "complete")
  /\ \/ /\ Current(DescOf(f)) /\ RowOf(f).state = "Verifying" /\ artifact[e] = "incomplete"
        /\ SetRow(e, Transition(RowOf(f), "Completed", "none"))
        /\ artifact' = [artifact EXCEPT ![e] = "complete"]
        /\ Goto(f, "release")
     \/ /\ ~(Current(DescOf(f)) /\ RowOf(f).state = "Verifying" /\ artifact[e] = "incomplete")
        /\ Raise(f, "STALE") /\ UNCHANGED durable
     \/ Raise(f, "HASH") /\ UNCHANGED durable
  /\ UNCHANGED <<queueVars, ownVars, finalizing, cmd, procVars>>

----
(* The failure path and finish_job. *)

\* handle_download_error: a cancelled token leaves the row alone.
HandleError(t) ==
  /\ At(t, "error")
  /\ Goto(t, IF TokenCancelled(t) THEN "release" ELSE "fail")
  /\ UNCHANGED <<durable, queueVars, ownVars, finalizing, cmd, procVars>>

\* pipeline_fail: only an active row of this attempt; an occupied destination
\* gives the reservation up.
PipelineFail(t) ==
  LET e == DescOf(t).entry IN
  /\ At(t, "fail")
  /\ IF Current(DescOf(t)) /\ RowOf(t).state \in Active
       THEN /\ SetRow(e, Transition(RowOf(t), "Failed", thread[t].err))
            /\ artifact' = IF thread[t].err = "OCCUPIED"
                             THEN [artifact EXCEPT ![e] = "none"] ELSE artifact
       ELSE UNCHANGED durable
  /\ Goto(t, "release")
  /\ UNCHANGED <<queueVars, ownVars, finalizing, cmd, procVars>>

ReleaseKeepsOwner(t) ==
  /\ At(t, "release")
  /\ Goto(t, "forget")
  /\ UNCHANGED <<durable, queueVars, ownVars, finalizing, cmd, procVars>>

Release(t) ==
  /\ At(t, "release")
  /\ owner' = owner \ {DescOf(t)}
  /\ cancelled' = cancelled \ {DescOf(t)}
  /\ Goto(t, "forget")
  /\ UNCHANGED <<durable, queueVars, finalizing, cmd, procVars>>

Forget(t) ==
  /\ At(t, "forget")
  /\ known' = known \ {DescOf(t)}
  /\ thread' = [thread EXCEPT ![t] = Idle]
  /\ UNCHANGED <<durable, pending, ownVars, finalizing, cmd, procVars>>

----
(* Quit: request_graceful_quit, then shutdown_and_wait step by step. *)

\* Bound: the process stops at most MaxDowntime times.
MayStop == downs < MaxDowntime

RequestQuit ==
  /\ GateOpen /\ MayStop
  /\ phase' = "quitting"
  /\ UNCHANGED <<durable, queueVars, ownVars, thread, finalizing, cmd, launching, downs>>

SetShuttingDown ==
  /\ phase = "quitting"
  /\ phase' = "closeQueue"
  /\ UNCHANGED <<durable, queueVars, ownVars, thread, finalizing, cmd, launching, downs>>

CloseQueue ==
  /\ phase = "closeQueue"
  /\ pending' = <<>>
  /\ phase' = "cancelTokens"
  /\ UNCHANGED <<durable, known, ownVars, thread, finalizing, cmd, launching, downs>>

CancelTokens ==
  /\ phase = "cancelTokens"
  /\ cancelled' = owner
  /\ phase' = "closePages"
  /\ UNCHANGED <<durable, queueVars, owner, thread, finalizing, cmd, launching, downs>>

ClosePages ==
  /\ phase = "closePages"
  /\ phase' = "closeFinalizing"
  /\ UNCHANGED <<durable, queueVars, ownVars, thread, finalizing, cmd, launching, downs>>

CloseFinalizing ==
  /\ phase = "closeFinalizing"
  /\ phase' = "join"
  /\ UNCHANGED <<durable, queueVars, ownVars, thread, finalizing, cmd, launching, downs>>

\* All volatile state dies with the process.
Stopped ==
  /\ pending' = <<>> /\ known' = {}
  /\ owner' = {} /\ cancelled' = {}
  /\ thread' = [t \in Threads |-> Idle]
  /\ finalizing' = <<>>
  /\ cmd' = [u \in Users |-> NoCmd]
  /\ phase' = "down" /\ launching' = {} /\ downs' = downs + 1
  /\ UNCHANGED durable

Exit ==
  /\ phase = "join"
  /\ \A t \in Threads : At(t, "exited")
  /\ Stopped

Crash ==
  /\ Up /\ MayStop
  /\ Stopped

----
(* Startup: open the repository, resume what has an artifact row, enqueue. *)

RecoverVolatile ==
  /\ phase = "down"
  /\ job' = [e \in Entries |-> Recovered(job[e])]
  /\ phase' = "booting"
  /\ UNCHANGED <<artifact, queueVars, ownVars, thread, finalizing, cmd, launching, downs>>

Resumable == {e \in Entries : job[e].state = "Interrupted" /\ artifact[e] # "none"}

\* pipeline_resume_interrupted, in one transaction.
Resume ==
  /\ job' = [e \in Entries |-> IF e \in Resumable THEN Requeue(job[e]) ELSE job[e]]
  /\ launching' = {[entry |-> e, attempt |-> job[e].attempt + 1] : e \in Resumable}

\* The resume may be deferred: no download root, or a failed recovery.
ResumeInterrupted ==
  /\ phase = "booting"
  /\ \/ Resume /\ phase' = "resuming"
     \/ UNCHANGED <<job, launching>> /\ phase' = "running"
  /\ UNCHANGED <<artifact, queueVars, ownVars, thread, finalizing, cmd, downs>>

LaunchResumed ==
  /\ Up
  /\ \E d \in launching :
       /\ Enqueue(d)
       /\ launching' = launching \ {d}
  /\ UNCHANGED <<durable, ownVars, thread, finalizing, cmd, phase, downs>>

CommitReady ==
  /\ phase = "resuming" /\ launching = {}
  /\ phase' = "running"
  /\ UNCHANGED <<durable, queueVars, ownVars, thread, finalizing, cmd, launching, downs>>

\* A quit before the commit wins: nothing is resumed.
CancelStartup ==
  /\ phase = "booting" /\ MayStop
  /\ phase' = "cancelling"
  /\ UNCHANGED <<durable, queueVars, ownVars, thread, finalizing, cmd, launching, downs>>

StartupCancelled ==
  /\ phase = "cancelling"
  /\ phase' = "quitting"
  /\ UNCHANGED <<durable, queueVars, ownVars, thread, finalizing, cmd, launching, downs>>

\* app_reconcile and the maintenance actions resume inside the gate.
Reconcile(u) ==
  /\ Ready(u) /\ GateOpen
  /\ \A e \in Resumable : job[e].attempt < MaxAttempt
  /\ Resume
  /\ Begun(u, "reconcile", NoDesc)
  /\ UNCHANGED <<artifact, queueVars, ownVars, thread, finalizing, phase, downs>>

Reconciled(u) ==
  /\ cmd[u].op = "reconcile" /\ launching = {}
  /\ cmd' = [cmd EXCEPT ![u] = NoCmd]
  /\ UNCHANGED <<durable, queueVars, ownVars, thread, finalizing, procVars>>

----
CoordinatorStep(c) ==
  \/ Pop(c) \/ ExitCoordinator(c) \/ Claim(c) \/ Insert(c) \/ Recheck(c)
  \/ PipelineBegin(c) \/ Resolve(c) \/ PipelinePrepare(c) \/ PrepareLayout(c)
  \/ StartPage(c) \/ FinishPage(c) \/ PageConflict(c) \/ PagesDone(c) \/ Handoff(c)

FinalizerStep(f) ==
  \/ PopFinal(f) \/ ExitFinalizer(f) \/ VerifyBundle(f) \/ OverlapGate(f)
  \/ PipelineComplete(f)

CommonStep(t) ==
  \/ CheckCancelled(t) \/ PipelineStage(t) \/ HandleError(t) \/ PipelineFail(t)
  \/ Release(t) \/ Forget(t)

CommandStep(u) ==
  \/ \E e \in Entries : \/ DownloadQueueAdd(u, e) \/ DownloadRetry(u, e)
                        \/ OverlapDecisionResume(u, e) \/ DownloadCancel(u, e)
  \/ Launch(u) \/ CancelEntries(u) \/ Reconcile(u) \/ Reconciled(u)

QuitStep == \/ SetShuttingDown \/ CloseQueue \/ CancelTokens \/ ClosePages
            \/ CloseFinalizing \/ Exit

BootStep == \/ RecoverVolatile \/ ResumeInterrupted \/ LaunchResumed \/ CommitReady
            \/ StartupCancelled

Next ==
  \/ \E c \in Coordinators : CoordinatorStep(c)
  \/ \E f \in Finalizers : FinalizerStep(f)
  \/ \E t \in Threads : CommonStep(t)
  \/ \E u \in Users : CommandStep(u)
  \/ RequestQuit \/ CancelStartup \/ QuitStep \/ Crash \/ BootStep

\* Threads are scheduled by the operating system, a command that started and a
\* quit that was accepted run to their end.  Nobody has to start a command, to
\* quit or to crash.
Fairness ==
  /\ \A c \in Coordinators : WF_vars(CoordinatorStep(c) \/ CommonStep(c))
  /\ \A f \in Finalizers : WF_vars(FinalizerStep(f) \/ CommonStep(f))
  /\ \A u \in Users : WF_vars(Launch(u) \/ CancelEntries(u) \/ Reconciled(u))
  /\ WF_vars(QuitStep) /\ WF_vars(BootStep)

Spec == Init /\ [][Next]_vars
FairSpec == Spec /\ Fairness

----
RowsOK ==
  /\ job \in [Entries -> [state : JobStates \cup {Absent}, attempt : 0 .. MaxAttempts, err : Errors]]
  /\ artifact \in [Entries -> ArtifactStates]

QueuesOK ==
  /\ pending \in Seq(Descriptors)
  /\ known \subseteq Descriptors
  /\ owner \subseteq Descriptors
  /\ cancelled \subseteq owner
  /\ finalizing \in Seq(Descriptors)
  /\ launching \subseteq Descriptors

ThreadsOK ==
  /\ thread \in [Threads -> [pc : Pcs, desc : Descriptors \cup {NoDesc}, err : Errors,
                            left : 0 .. NumPages]]
  /\ \A t \in Threads : thread[t].pc \notin {"idle", "exited"} => thread[t].desc \in Descriptors

CommandsOK ==
  /\ cmd \in [Users -> [op : {"idle", "launch", "requeue", "cancel", "reconcile"},
                       desc : Descriptors \cup {NoDesc}]]
  /\ \A u \in Users : cmd[u].op \notin {"idle", "reconcile"} => cmd[u].desc \in Descriptors

ProcessOK == phase \in Phases /\ downs \in 0 .. MaxDowntime

(* Every variable keeps its type; in particular no page is fetched beyond
   the last one, and only owners have a cancellation token. *)
TypeOK == RowsOK /\ QueuesOK /\ ThreadsOK /\ CommandsOK /\ ProcessOK

Holds(t) == thread[t].pc \in HoldingPcs

(* The entry-ownership fence (claim_job, finish_job): at any moment at most
   one coordinator, finalization worker or slot of the finalization queue
   holds an entry, whichever attempts are draining, so no two attempts ever
   have the same artifact directory open. *)
ExclusiveArtifact ==
  /\ \A s, t \in Threads : s # t /\ Holds(s) /\ Holds(t) => DescOf(s).entry # DescOf(t).entry
  /\ \A i, j \in DOMAIN finalizing : i # j => finalizing[i].entry # finalizing[j].entry
  /\ \A t \in Threads, i \in DOMAIN finalizing :
       Holds(t) => DescOf(t).entry # finalizing[i].entry

(* A stop that the user or the quit asked for is never recorded as a
   failure of the job (handle_download_error, the re-check in worker_loop
   after claim_job, and the order of shutdown_and_wait), although a closed
   queue answers "cancelled" to a job whose token nobody cancelled. *)
StopIsNotFailure == \A e \in Entries : job[e].err # "CANCELLED"

\* Somebody still has to enqueue, or is working on, the attempt of e.
Served(e) ==
  \/ Desc(e) \in known \cup launching
  \/ \E u \in Users : cmd[u].op \in {"launch", "requeue"} /\ cmd[u].desc = Desc(e)

(* No job is left behind: while the application runs, an active row belongs
   to an attempt the supervisor knows or is about to be told of.  A row
   that is not is shown as running for ever, and a retry only reuses it. *)
ActiveIsServed ==
  Up /\ ~shuttingDown
    => \A e \in Entries : job[e].state \in Active => Served(e)

(* A row fails only through a worker of the row's own attempt: what an
   older attempt finds while it drains never ends the attempt after it. *)
FailsOwnAttemptOnly ==
  [][\A e \in Entries :
       job[e].state # "Failed" /\ job'[e].state = "Failed"
         => \E t \in Threads : /\ thread'[t] # thread[t]
                                /\ DescOf(t) = Desc(e)]_vars

Lifecycle == INSTANCE JobLifecycle
               WITH row <- [e \in Entries |-> [state |-> job[e].state, attempt |-> job[e].attempt]]

(* All threads, commands, crashes and recoveries together move the job rows
   only as the domain relation allows, with a new attempt per requeue. *)
ImplementsLifecycle == Lifecycle!LSpec

(* Every active job ends: it reaches a state that is not active, or the
   application stops.  A retry that waits for the attempt before it, an
   album that waits for room in the finalization queue and a job that waits
   for a coordinator are all served. *)
ActiveJobsEnd ==
  \A e \in Entries :
    job[e].state \in Active ~> (job[e].state \notin Active \/ phase # "running")

(* shutdown_and_wait returns: a quit always ends with the process down. *)
QuitEnds == phase = "quitting" ~> phase = "down"
====
