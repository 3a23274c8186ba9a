---- MODULE PagePipeline ----
(***************************************************************************)
(* One album on its way to disk: the coordinator's plan, the shared page   *)
(* pool, the page files with their .part files, the page checkpoints, and  *)
(* what a failed, cancelled or interrupted attempt leaves to the next one. *)
(*                                                                         *)
(* The remote gallery may be replaced by another edition at any time, a    *)
(* page's source revision identifies the edition it belongs to, and a page *)
(* file is represented by the edition its bytes come from.  The entry      *)
(* fence of module DownloadSupervisor gives the album to one run at a time.*)
(***************************************************************************)
EXTENDS Integers, Sequences, FiniteSets, JobState

CONSTANTS
  NumPages,      \* source pages of the gallery, in every edition
  Editions,      \* editions the remote gallery may have
  FirstEdition,  \* the one it has at first
  Workers,       \* threads running page_worker
  MaxAttempt,    \* bound: worker attempts
  MaxReplace,    \* bound: replacements of the remote gallery
  MaxCrash,      \* bound: crashes
  MaxFault       \* bound: page files that others remove, change or add

ASSUME PipelineAssumption ==
  /\ NumPages \in Nat \ {0}
  /\ FirstEdition \in Editions
  /\ {"none", "pending", "damaged"} \cap Editions = {}
  /\ IsFiniteSet(Workers) /\ Workers # {}
  /\ MaxAttempt \in Nat \ {0}
  /\ MaxReplace \in Nat /\ MaxCrash \in Nat /\ MaxFault \in Nat

VARIABLES
  remote,     \* the edition the source serves now
  job,        \* durable: [state, attempt]
  artifact,   \* durable: state of the artifact row
  row,        \* durable: [Pages -> source revision of the checkpoint, or none]
  file,       \* disk: [Pages -> content of the page file]
  part,       \* disk: pages with a .part file
  waiting,    \* attempts that were enqueued and not started
  run,        \* the coordinator, then the finalization worker, of the album
  token,      \* the run's token is cancelled
  cancelling, \* a cancel command that has not reached the token yet
  queue,      \* WorkQueue of page tasks
  worker,     \* [Workers -> [pc, task]]
  results,    \* the result channels of the page tasks
  spent       \* [replace, crash, fault]: use of the bounds

disk == <<file, part>>
rows == <<job, artifact, row>>
pool == <<queue, worker, results>>
vars == <<remote, rows, disk, waiting, run, token, cancelling, pool, spent>>

Pages == 1 .. NumPages
Attempts == 1 .. MaxAttempt
Checkpoints == Editions \cup {"none"}
Errors == {"none", "SOURCE", "CANCELLED", "STALE", "OCCUPIED", "HASH", "MISSING",
           "MANIFEST", "FILESYSTEM"}

RunPcs == {"stopped", "begin", "resolve", "prepare", "layoutNew", "layout", "pages", "stage",
           "verify", "overlap", "verifying", "complete", "error"}
WorkerPcs == {"idle", "inspect", "mark", "fetch", "create", "write"}

\* plan: revision of every page; cp: the checkpoints read by pipeline_prepare.
Stopped == [pc |-> "stopped", attempt |-> 0, plan |-> [p \in Pages |-> "none"],
            cp |-> [p \in Pages |-> "none"], next |-> 1, inFlight |-> 0, failure |-> "none"]

NoTask == [page |-> 0, rev |-> "none", cp |-> "none", attempt |-> 0]
NoWork == [pc |-> "idle", task |-> NoTask]

Current == job.attempt = run.attempt
To(pc) == run' = [run EXCEPT !.pc = pc]
Fail(err) == run' = [run EXCEPT !.pc = "error", !.failure = err]

Init ==
  /\ remote = FirstEdition
  /\ job = [state |-> "Queued", attempt |-> 1]
  /\ artifact = "none"
  /\ row = [p \in Pages |-> "none"]
  /\ file = [p \in Pages |-> "none"] /\ part = {}
  /\ waiting = {1} /\ run = Stopped /\ token = FALSE /\ cancelling = FALSE
  /\ queue = <<>> /\ worker = [w \in Workers |-> NoWork] /\ results = <<>>
  /\ spent = [replace |-> 0, crash |-> 0, fault |-> 0]

----
(* Commands, and what the program does not control. *)

\* download_retry, the resume at startup, the end of an overlap review.
Requeue ==
  /\ job.state \in Retryable \cup {"ReviewRequired"}
  /\ job.attempt < MaxAttempt
  /\ job' = [state |-> "Queued", attempt |-> job.attempt + 1]
  /\ waiting' = waiting \cup {job.attempt + 1}
  /\ UNCHANGED <<remote, artifact, row, disk, run, token, cancelling, pool, spent>>

\* download_cancel writes the row, then cancel_entries reaches the token of
\* whatever run owns the entry by then.
DownloadCancel ==
  /\ ~cancelling
  /\ job.state = "Cancelled" \/ AllowsTransition(job.state, "Cancelled")
  /\ job' = [job EXCEPT !.state = "Cancelled"]
  /\ cancelling' = TRUE
  /\ UNCHANGED <<remote, artifact, row, disk, run, token, pool, waiting, spent>>

CancelEntries ==
  /\ cancelling
  /\ token' = (run.pc # "stopped")
  /\ cancelling' = FALSE
  /\ UNCHANGED <<remote, rows, disk, run, pool, waiting, spent>>

ReplaceRemote ==
  /\ spent.replace < MaxReplace
  /\ remote' \in Editions \ {remote}
  /\ spent' = [spent EXCEPT !.replace = @ + 1]
  /\ UNCHANGED <<rows, disk, run, token, cancelling, pool, waiting>>

\* Somebody removes, changes or adds a page file.  What happens to the files after
\* their verification is beyond the program.
DiskFault(p) ==
  /\ spent.fault < MaxFault
  /\ run.pc \notin {"overlap", "verifying", "complete"} /\ job.state # "Completed"
  /\ \E content \in {"none", "damaged"} \ {file[p]} : file' = [file EXCEPT ![p] = content]
  /\ spent' = [spent EXCEPT !.fault = @ + 1]
  /\ UNCHANGED <<remote, rows, part, run, token, cancelling, pool, waiting>>

\* The process dies; recover_volatile_downloads runs when it is back.
Crash ==
  /\ spent.crash < MaxCrash
  /\ spent' = [spent EXCEPT !.crash = @ + 1]
  /\ job' = IF job.state \in Active THEN [job EXCEPT !.state = "Interrupted"] ELSE job
  /\ waiting' = {} /\ run' = Stopped /\ token' = FALSE /\ cancelling' = FALSE
  /\ queue' = <<>> /\ worker' = [w \in Workers |-> NoWork] /\ results' = <<>>
  /\ UNCHANGED <<remote, artifact, row, disk>>

----
(* run_download. *)

\* A coordinator claims the entry for an attempt, perhaps one that is stale.
Start ==
  /\ run.pc = "stopped"
  /\ \E a \in waiting : /\ run' = [Stopped EXCEPT !.pc = "begin", !.attempt = a]
                        /\ waiting' = waiting \ {a}
  /\ token' = FALSE
  /\ UNCHANGED <<remote, rows, disk, cancelling, pool, spent>>

\* pipeline_begin, then check_cancelled.
PipelineBegin ==
  /\ run.pc = "begin"
  /\ IF Current /\ job.state \in {"Queued", "ResolvingMetadata"}
       THEN /\ job' = [job EXCEPT !.state = "ResolvingMetadata"]
            /\ To("resolve")
       ELSE Fail("STALE") /\ UNCHANGED job
  /\ UNCHANGED <<remote, artifact, row, disk, token, cancelling, pool, waiting, spent>>

\* pipeline_received_snapshot: every page row of an incomplete artifact is
\* present.  What is compared is the rows, not their revisions.
Received == artifact = "incomplete" /\ \A p \in Pages : row[p] \in Editions

Resolve ==
  /\ run.pc = "resolve"
  /\ \/ token /\ Fail("CANCELLED")
     \/ /\ ~token /\ ~(Current /\ job.state = "ResolvingMetadata")
        /\ Fail("STALE")
     \/ /\ Current /\ job.state = "ResolvingMetadata"
        /\ IF Received
             THEN run' = [run EXCEPT !.pc = "prepare", !.plan = row]
             ELSE \/ run' = [run EXCEPT !.pc = "prepare", !.plan = [p \in Pages |-> remote]]
                  \/ Fail("SOURCE")
  /\ UNCHANGED <<remote, rows, disk, token, cancelling, pool, waiting, spent>>

\* check_cancelled, then pipeline_prepare: page rows are added, never reset.
PipelinePrepare ==
  /\ run.pc = "prepare"
  /\ IF token \/ ~(Current /\ job.state = "ResolvingMetadata")
       THEN Fail(IF token THEN "CANCELLED" ELSE "STALE") /\ UNCHANGED rows
       ELSE /\ job' = [job EXCEPT !.state = "Downloading"]
            /\ artifact' = "incomplete"
            /\ row' = [p \in Pages |-> IF row[p] = "none" THEN "pending" ELSE row[p]]
            /\ run' = [run EXCEPT !.pc = IF artifact = "none" THEN "layoutNew" ELSE "layout",
                                  !.cp = [p \in Pages |-> IF row[p] \in Editions THEN row[p] ELSE "none"]]
  /\ UNCHANGED <<remote, disk, token, cancelling, pool, waiting, spent>>

\* A directory that exists is refused, unless the artifact row reserves it.
PrepareLayout ==
  /\ run.pc \in {"layoutNew", "layout"}
  /\ \/ To("pages")
     \/ run.pc = "layoutNew" /\ Fail("OCCUPIED")
  /\ UNCHANGED <<remote, rows, disk, token, cancelling, pool, waiting, spent>>

----
(* download_pages.  The token of the page tasks is a child of the run's:
   the coordinator cancels it with its first failure. *)

ChildCancelled(attempt) == token \/ run.failure # "none" \/ run.attempt # attempt

SeeCancel ==
  /\ run.pc = "pages" /\ token /\ run.failure = "none"
  /\ run' = [run EXCEPT !.failure = "CANCELLED"]
  /\ UNCHANGED <<remote, rows, disk, token, cancelling, pool, waiting, spent>>

\* The queue holds 8 tasks per worker, so one album never waits for room.
Push ==
  /\ run.pc = "pages" /\ run.failure = "none" /\ ~token
  /\ run.inFlight < Cardinality(Workers) /\ run.next <= NumPages
  /\ queue' = Append(queue, [page |-> run.next, rev |-> run.plan[run.next],
                             cp |-> run.cp[run.next], attempt |-> run.attempt])
  /\ run' = [run EXCEPT !.next = @ + 1, !.inFlight = @ + 1]
  /\ UNCHANGED <<remote, rows, disk, token, cancelling, worker, results, waiting, spent>>

\* pipeline_page_verified for a stored page, also after the first failure.
Receive ==
  LET res == Head(results)
      live == Current /\ job.state = "Downloading"
      err == IF res.err = "none" /\ res.stored # "none" /\ ~live THEN "STALE" ELSE res.err IN
  /\ run.pc = "pages" /\ results # <<>> /\ res.attempt = run.attempt
  /\ results' = Tail(results)
  /\ row' = IF res.stored # "none" /\ live THEN [row EXCEPT ![res.page] = res.stored] ELSE row
  /\ run' = [run EXCEPT !.inFlight = @ - 1,
                        !.failure = IF @ = "none" THEN err ELSE @]
  /\ UNCHANGED <<remote, job, artifact, disk, token, cancelling, queue, worker, waiting, spent>>

StopAtFirstFailure ==
  /\ run.pc = "pages"
  /\ \/ run.failure = "none" /\ run.next > NumPages /\ run.inFlight = 0 /\ To("stage")
     \/ run.failure # "none" /\ To("error")
  /\ UNCHANGED <<remote, rows, disk, token, cancelling, pool, waiting, spent>>

\* Every accepted task was answered.
PagesDone ==
  /\ run.pc = "pages" /\ run.inFlight = 0
  /\ \/ run.failure = "none" /\ run.next > NumPages /\ To("stage")
     \/ run.failure # "none" /\ To("error")
  /\ UNCHANGED <<remote, rows, disk, token, cancelling, pool, waiting, spent>>

----
(* page_worker w: download_one_page, whose every outcome is sent back. *)

Task(w) == worker[w].task
Step(w, pc) == worker' = [worker EXCEPT ![w].pc = pc]

Result(w, stored, err) == [page |-> Task(w).page, stored |-> stored, err |-> err,
                           attempt |-> Task(w).attempt]

AnswerOnlySuccess(w, stored, err) ==
  /\ worker' = [worker EXCEPT ![w] = NoWork]
  /\ results' = IF err = "none" THEN Append(results, Result(w, stored, err)) ELSE results

\* guarded_work turns even a panic into a result.
Answer(w, stored, err) ==
  /\ worker' = [worker EXCEPT ![w] = NoWork]
  /\ results' = Append(results, Result(w, stored, err))

TaskCancelled(w) == ChildCancelled(Task(w).attempt)

Take(w) ==
  /\ worker[w].pc = "idle" /\ queue # <<>>
  /\ worker' = [worker EXCEPT ![w] = [pc |-> "inspect", task |-> Head(queue)]]
  /\ queue' = Tail(queue)
  /\ UNCHANGED <<remote, rows, disk, run, token, cancelling, results, waiting, spent>>

\* check_cancelled and verify_existing_page: files that no checkpoint of the
\* planned revision explains are moved aside.
Inspect(w) ==
  LET p == Task(w).page
      missing == file[p] = "none" /\ p \notin part
      verified == /\ Task(w).cp = Task(w).rev /\ p \notin part
                  /\ file[p] = Task(w).cp IN
  /\ worker[w].pc = "inspect"
  /\ \/ TaskCancelled(w) /\ Answer(w, "none", "CANCELLED") /\ UNCHANGED disk
     \/ ~TaskCancelled(w) /\ missing /\ Step(w, "fetch") /\ UNCHANGED <<disk, results>>
     \/ ~TaskCancelled(w) /\ verified /\ Answer(w, "none", "none") /\ UNCHANGED disk
     \/ /\ ~TaskCancelled(w) /\ ~missing /\ ~verified
        /\ file' = [file EXCEPT ![p] = "none"]
        /\ part' = part \ {p}
        /\ Step(w, "mark") /\ UNCHANGED results
  /\ UNCHANGED <<remote, rows, run, token, cancelling, queue, waiting, spent>>

\* pipeline_mark_artifact_issue: by entry, so it is the current attempt that
\* fails.
MarkArtifactIssue(w) ==
  /\ worker[w].pc = "mark"
  /\ artifact' = IF artifact = "none" THEN artifact ELSE "missing"
  /\ job' = IF artifact # "none" /\ AllowsTransition(job.state, "Failed")
              THEN [job EXCEPT !.state = "Failed"] ELSE job
  /\ Answer(w, "none", "HASH")
  /\ UNCHANGED <<remote, row, disk, run, token, cancelling, queue, waiting, spent>>

\* The payload has the revision the remote has now.
Fetch(w) ==
  /\ worker[w].pc = "fetch"
  /\ \/ TaskCancelled(w) /\ Answer(w, "none", "CANCELLED")
     \/ Answer(w, "none", "SOURCE")
     \/ remote # Task(w).rev /\ Answer(w, "none", "MANIFEST")
     \/ remote = Task(w).rev /\ Step(w, "create") /\ UNCHANGED results
  /\ UNCHANGED <<remote, rows, disk, run, token, cancelling, queue, waiting, spent>>

\* store_page: the .part file is created anew.
CreatePart(w) ==
  /\ worker[w].pc = "create"
  /\ IF TaskCancelled(w) \/ Task(w).page \in part
       THEN /\ Answer(w, "none", IF TaskCancelled(w) THEN "CANCELLED" ELSE "FILESYSTEM")
            /\ UNCHANGED part
       ELSE /\ part' = part \cup {Task(w).page}
            /\ Step(w, "write") /\ UNCHANGED results
  /\ UNCHANGED <<remote, rows, file, run, token, cancelling, queue, waiting, spent>>

\* It is written, synchronized and renamed; a cancellation leaves it behind.
\* A final file that is there already must have the same content.
FinishPart(w) ==
  LET p == Task(w).page IN
  /\ worker[w].pc = "write"
  /\ \/ TaskCancelled(w) /\ Answer(w, "none", "CANCELLED") /\ UNCHANGED disk
     \/ Answer(w, "none", "FILESYSTEM") /\ UNCHANGED disk
     \/ /\ file[p] \notin {"none", Task(w).rev}
        /\ Answer(w, "none", "HASH") /\ UNCHANGED disk
     \/ /\ file[p] \in {"none", Task(w).rev}
        /\ part' = part \ {p}
        /\ file' = [file EXCEPT ![p] = Task(w).rev]
        /\ Answer(w, Task(w).rev, "none")
  /\ UNCHANGED <<remote, rows, run, token, cancelling, queue, waiting, spent>>

----
(* pipeline_stage and finalize_download. *)

PipelineStage ==
  LET next == IF run.pc = "stage" THEN "Hashing" ELSE "Verifying" IN
  /\ run.pc \in {"stage", "verifying"}
  /\ IF Current /\ AllowsTransition(job.state, next)
       THEN job' = [job EXCEPT !.state = next] /\ To(IF run.pc = "stage" THEN "verify" ELSE "complete")
       ELSE Fail("STALE") /\ UNCHANGED job
  /\ UNCHANGED <<remote, artifact, row, disk, token, cancelling, pool, waiting, spent>>

Intact(p) == row[p] \in Editions /\ file[p] = row[p] /\ p \notin part

VerifyRowsOnly ==
  /\ run.pc = "verify"
  /\ \/ token /\ Fail("CANCELLED")
     \/ (\A p \in Pages : row[p] \in Editions) /\ To("overlap")
  /\ UNCHANGED <<remote, rows, disk, token, cancelling, pool, waiting, spent>>

\* verify_bundle_files stops at the first page that is not intact; one that
\* exists is moved aside.
VerifyBundle ==
  /\ run.pc = "verify"
  /\ \/ token /\ Fail("CANCELLED") /\ UNCHANGED disk
     \/ (\A p \in Pages : Intact(p)) /\ To("overlap") /\ UNCHANGED disk
     \/ \E p \in Pages :
          /\ ~Intact(p) /\ \A q \in 1 .. p - 1 : Intact(q)
          /\ IF row[p] \notin Editions \/ (file[p] = "none" /\ p \notin part)
               THEN Fail("MISSING") /\ UNCHANGED disk
               ELSE /\ Fail("HASH")
                    /\ file' = [file EXCEPT ![p] = "none"] /\ part' = part \ {p}
  /\ UNCHANGED <<remote, rows, token, cancelling, pool, waiting, spent>>

\* run_overlap_review_gate: pass, pause for a review, or fail.
OverlapGate ==
  /\ run.pc = "overlap"
  /\ \/ To("verifying") /\ UNCHANGED <<job, token>>
     \/ Fail(IF token THEN "CANCELLED" ELSE "SOURCE") /\ UNCHANGED <<job, token>>
     \/ /\ ~(Current /\ job.state = "Hashing")
        /\ Fail("STALE") /\ UNCHANGED <<job, token>>
     \/ /\ Current /\ job.state = "Hashing"
        /\ job' = [job EXCEPT !.state = "ReviewRequired"]
        /\ run' = Stopped /\ token' = FALSE
  /\ UNCHANGED <<remote, artifact, row, disk, cancelling, pool, waiting, spent>>

\* check_cancelled, the manifest, then pipeline_complete.
PipelineComplete ==
  LET ready == /\ Current /\ job.state = "Verifying" /\ artifact = "incomplete"
               /\ \A p \in Pages : row[p] \in Editions IN
  /\ run.pc = "complete"
  /\ \/ token /\ Fail("CANCELLED") /\ UNCHANGED <<rows, token>>
     \/ ~ready /\ Fail("STALE") /\ UNCHANGED <<rows, token>>
     \/ /\ ready
        /\ job' = [job EXCEPT !.state = "Completed"] /\ artifact' = "complete"
        /\ run' = Stopped /\ token' = FALSE
        /\ UNCHANGED row
  /\ UNCHANGED <<remote, disk, cancelling, pool, waiting, spent>>

\* handle_download_error, pipeline_fail and finish_job.
HandleError ==
  LET fails == ~token /\ Current /\ job.state \in Active
      givesUp == /\ run.failure = "OCCUPIED"
                 /\ \A p \in Pages : row[p] \notin Editions IN
  /\ run.pc = "error"
  /\ job' = IF fails THEN [job EXCEPT !.state = "Failed"] ELSE job
  /\ artifact' = IF fails /\ givesUp THEN "none" ELSE artifact
  /\ row' = IF fails /\ givesUp THEN [p \in Pages |-> "none"] ELSE row
  /\ run' = Stopped /\ token' = FALSE
  /\ UNCHANGED <<remote, disk, cancelling, pool, waiting, spent>>

----
RunStep ==
  \/ Start \/ PipelineBegin \/ Resolve \/ PipelinePrepare \/ PrepareLayout
  \/ SeeCancel \/ Push \/ Receive \/ PagesDone \/ PipelineStage \/ VerifyBundle
  \/ OverlapGate \/ PipelineComplete \/ HandleError

WorkerStep(w) ==
  \/ Take(w) \/ Inspect(w) \/ MarkArtifactIssue(w) \/ Fetch(w) \/ CreatePart(w) \/ FinishPart(w)

Next ==
  \/ RunStep
  \/ \E w \in Workers : WorkerStep(w)
  \/ Requeue \/ DownloadCancel \/ CancelEntries
  \/ ReplaceRemote \/ Crash \/ \E p \in Pages : DiskFault(p)

\* The threads run, and a command that started ends.
Fairness ==
  /\ WF_vars(RunStep) /\ WF_vars(CancelEntries)
  /\ \A w \in Workers : WF_vars(WorkerStep(w))

Spec == Init /\ [][Next]_vars
FairSpec == Spec /\ Fairness

----
Tasks == [page : Pages, rev : Editions, cp : Checkpoints, attempt : Attempts]
Results == [page : Pages, stored : Checkpoints, err : Errors, attempt : Attempts]

RowsOK ==
  /\ remote \in Editions
  /\ job \in [state : JobStates, attempt : Attempts]
  /\ artifact \in {"none", "incomplete", "missing", "complete"}
  /\ row \in [Pages -> Checkpoints \cup {"pending"}]

DiskOK ==
  /\ file \in [Pages -> Checkpoints \cup {"damaged"}]
  /\ part \subseteq Pages

RunOK ==
  /\ run \in [pc : RunPcs, attempt : Attempts \cup {0}, plan : [Pages -> Checkpoints],
              cp : [Pages -> Checkpoints], next : 1 .. NumPages + 1, inFlight : 0 .. NumPages,
              failure : Errors]
  /\ token \in BOOLEAN /\ cancelling \in BOOLEAN
  /\ waiting \subseteq Attempts

PoolOK ==
  /\ queue \in Seq(Tasks)
  /\ worker \in [Workers -> [pc : WorkerPcs, task : Tasks \cup {NoTask}]]
  /\ results \in Seq(Results)

(* Every variable keeps its type: no task is made for a page beyond the
   plan, and the count of tasks in flight never leaves its bounds. *)
TypeOK == RowsOK /\ DiskOK /\ RunOK /\ PoolOK

Busy(w) == worker[w].pc # "idle"

(* "No old page may checkpoint against a replacement worker attempt"
   (download_pages): a task that is queued, being worked on or answered
   belongs to the run that owns the album, which has not left its loop. *)
NoOldPage ==
  /\ \A w \in Workers : Busy(w) => run.pc = "pages" /\ Task(w).attempt = run.attempt
  /\ \A i \in DOMAIN queue : run.pc = "pages" /\ queue[i].attempt = run.attempt
  /\ \A i \in DOMAIN results : run.pc = "pages" /\ results[i].attempt = run.attempt

(* A download completes only when every page file has the bytes of its
   checkpoint and no .part file is left, whatever earlier attempts, crashes
   and damaged files left in the directory. *)
CompletesWhole ==
  [][job.state # "Completed" /\ job'.state = "Completed"
       => artifact' = "complete" /\ \A p \in Pages : Intact(p)']_vars

(* A run that owns the album always gives it back: the coordinator is never
   left waiting for a page task that nobody answers. *)
RunEnds == run.pc # "stopped" ~> run.pc = "stopped"

(* A completed album consists of the pages of one edition of the gallery. *)
SingleEdition ==
  job.state = "Completed" => \A p, q \in Pages : row[p] = row[q]
====
