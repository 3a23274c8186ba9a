---- MODULE ScanBoards ----
(***************************************************************************)
(* The three boards of HitomiFeature.tsx that follow a scan of the         *)
(* backend: album duplicates, duplicate pages inside an album, and         *)
(* auto-find.  Each keeps the run it last heard of and a snapshot of the   *)
(* results, and learns of changes in three ways that overtake each other:  *)
(* run events, hydrations that read the snapshot, and the answers to its   *)
(* own start and cancel requests.  Events come in order; a hydration       *)
(* reads the backend at some moment and is answered at some later one.     *)
(* The boards share nothing, so a behaviour is that of one of them.        *)
(***************************************************************************)
EXTENDS Naturals, Sequences, FiniteSets

CONSTANTS MaxRuns,      \* bound on the runs the backend starts
          MaxRevision,  \* bound on the revisions of a run
          MaxReads,     \* bound on the hydrations in flight
          MaxEvents,    \* bound on the events on their way when one is added
          MaxWrites     \* bound on the removals applied to the results

VARIABLES board,        \* which board this is
          srv,          \* backend: the run, its revision, state and finds
          data,         \* backend: version of the stored results
          srvProgress,  \* backend: album the internal scan is at
          events,       \* events on their way
          run,          \* the run the board knows: *RunRef.current
          shown,        \* version of the results in the board's snapshot
          loading,      \* *Loading
          reads,        \* hydrations in flight
          again,        \* autoFindHydrationAgain.current
          call,         \* the start, cancel or removal request in flight
          progress,     \* internalArtifactProgressRef.current
          lookups,      \* internalDuplicateActiveArtifact calls in flight
          lost,         \* a read that would have been used has failed
          writes        \* removals applied so far

vars == <<board, srv, data, srvProgress, events, run, shown, loading, reads, again, call,
          progress, lookups, lost, writes>>
backend == <<srv, data, srvProgress, events>>

Boards == {"duplicate", "internal", "auto_find"}

----
(* Values.  Runs are numbered in the order they start, which is the order
   of their startedAt. *)

NoRun == [id |-> 0, revision |-> 0, state |-> "none", found |-> 0]
NoProgress == [id |-> 0, seq |-> 0]
NoAnswer == [run |-> NoRun, data |-> 0, read |-> FALSE]
NoCall == [kind |-> "none", answer |-> NoRun, answered |-> FALSE]

Running(r) == r.state = "running"
RunEvent(r) == [kind |-> "run", run |-> r, progress |-> NoProgress]
ProgressEvent(p) == [kind |-> "progress", run |-> NoRun, progress |-> p]

----
(* Reading the backend. *)

\* A read counts while its token is the current *HydrationToken; the next
\* hydration takes that away.  It may have a request waiting for it.
Read(waited) == [current |-> TRUE, waited |-> waited, answer |-> NoAnswer]
Superseded == {[r EXCEPT !.current = FALSE] : r \in reads}

\* hydrateDuplicateSnapshot and hydrateInternalSnapshot take a new token and
\* read; hydrateAutoFind joins the task under way and has it read once more.
Joins == board = "auto_find" /\ reads # {}

HydrateFor(waited) ==
  /\ reads' = IF Joins THEN {[r EXCEPT !.waited = @ \/ waited] : r \in reads}
              ELSE Superseded \cup {Read(waited)}
  /\ again' = (again \/ Joins)

Hydrate == HydrateFor(FALSE)

NoHydrate == UNCHANGED <<reads, again>>

\* hydrateInternalArtifactProgress
LookUp(id) == lookups \cup {[id |-> id, read |-> FALSE, progress |-> NoProgress]}

\* The startup effect hydrates every board and shows it loading.
Init ==
  /\ board \in Boards
  /\ srv = NoRun /\ data = 0 /\ srvProgress = NoProgress /\ events = <<>>
  /\ run = NoRun /\ shown = 0
  /\ loading = TRUE /\ reads = {Read(FALSE)} /\ again = FALSE
  /\ call = NoCall /\ progress = NoProgress /\ lookups = {}
  /\ lost = FALSE /\ writes = 0

----
(* The backend (external to these boards): what it stores and announces. *)

\* A step of the scan; only the duplicate and auto-find boards find results
\* before the end.
ScanAdvances(grows) ==
  /\ Running(srv) /\ srv.revision < MaxRevision - 1 /\ Len(events) < MaxEvents
  /\ grows => board # "internal" /\ data < MaxRuns * MaxRevision
  /\ srv' = [srv EXCEPT !.revision = @ + 1, !.found = IF grows THEN @ + 1 ELSE @]
  /\ data' = IF grows THEN data + 1 ELSE data
  /\ events' = Append(events, RunEvent(srv'))
  /\ UNCHANGED <<board, srvProgress, run, shown, loading, reads, again, call, progress,
                 lookups, lost, writes>>

\* The internal scan goes on to its next album or stage.
ScanProgresses ==
  /\ board = "internal" /\ Running(srv) /\ srvProgress.seq < 2 /\ Len(events) < MaxEvents
  /\ srvProgress' = [srvProgress EXCEPT !.seq = @ + 1]
  /\ events' = Append(events, ProgressEvent(srvProgress'))
  /\ UNCHANGED <<board, srv, data, run, shown, loading, reads, again, call, progress,
                 lookups, lost, writes>>

\* The scan ends, with new results stored.
ScanEnds ==
  /\ Running(srv) /\ Len(events) < MaxEvents
  /\ \E s \in {"completed", "failed"} :
       srv' = [srv EXCEPT !.revision = @ + 1, !.state = s, !.found = @ + 1]
  /\ data' = data + 1
  /\ srvProgress' = NoProgress
  /\ events' = Append(events, RunEvent(srv'))
  /\ UNCHANGED <<board, run, shown, loading, reads, again, call, progress, lookups, lost,
                 writes>>

\* A hydration or a progress lookup reaches the backend.
BackendReads ==
  /\ \/ \E r \in reads :
          /\ ~r.answer.read
          /\ reads' = (reads \ {r}) \cup
               {[r EXCEPT !.answer = [run |-> srv, data |-> data, read |-> TRUE]]}
          /\ UNCHANGED lookups
     \/ \E l \in lookups :
          /\ ~l.read
          /\ lookups' = (lookups \ {l}) \cup {[l EXCEPT !.read = TRUE, !.progress = srvProgress]}
          /\ UNCHANGED reads
  /\ UNCHANGED <<board, backend, run, shown, loading, again, call, progress, lost, writes>>

----
(* The user's requests.  One at a time per board: *PendingRef. *)

\* startDuplicateScan, startInternalScan, refreshAutoFind: refused while the
\* board thinks a run is going on.  The backend returns the run that is.
StartScan ==
  /\ call.kind = "none" /\ ~Running(run)
  /\ (srv.id < MaxRuns /\ Len(events) < MaxEvents) \/ Running(srv)
  /\ IF Running(srv)
     THEN UNCHANGED backend
     ELSE /\ srv' = [id |-> srv.id + 1, revision |-> 0, state |-> "running", found |-> 0]
          /\ srvProgress' = IF board = "internal" THEN [id |-> srv.id + 1, seq |-> 1]
                            ELSE NoProgress
          /\ events' = IF board = "internal"
                       THEN events \o <<RunEvent(srv'), ProgressEvent(srvProgress')>>
                       ELSE Append(events, RunEvent(srv'))
          /\ UNCHANGED data
  /\ call' = [kind |-> "start", answer |-> srv', answered |-> FALSE]
  /\ UNCHANGED <<board, run, shown, loading, reads, again, progress, lookups, lost, writes>>

\* cancelDuplicateScan, cancelInternalScan, cancelAutoFind.
CancelScan ==
  /\ call.kind = "none" /\ Running(run) /\ Len(events) < MaxEvents
  /\ IF Running(srv)
     THEN /\ srv' = [srv EXCEPT !.revision = @ + 1, !.state = "cancelled"]
          /\ srvProgress' = NoProgress
          /\ events' = Append(events, RunEvent(srv'))
          /\ call' = [kind |-> "cancel", answer |-> srv', answered |-> FALSE]
          /\ UNCHANGED data
     ELSE /\ call' = [kind |-> "refused", answer |-> NoRun, answered |-> FALSE]
          /\ UNCHANGED backend
  /\ UNCHANGED <<board, run, shown, loading, reads, again, progress, lookups, lost, writes>>

\* applyInternalRemoval and undoInternalRemoval change the results without
\* an event.
WriteResults ==
  /\ board = "internal" /\ call.kind = "none" /\ writes < MaxWrites /\ shown > 0
  /\ writes' = writes + 1
  /\ data' = data + 1
  /\ call' = [kind |-> "write", answer |-> NoRun, answered |-> FALSE]
  /\ UNCHANGED <<board, srv, srvProgress, events, run, shown, loading, reads, again,
                 progress, lookups, lost>>

Fits == Cardinality(reads) < MaxReads /\ Cardinality(lookups) < MaxReads

\* A request the backend refuses, or that does not reach it.
RefuseCall ==
  /\ call.kind = "none"
  /\ call' = [kind |-> "refused", answer |-> NoRun, answered |-> FALSE]
  /\ UNCHANGED <<board, backend, run, shown, loading, reads, again, progress, lookups, lost,
                 writes>>

\* The answer: the board takes the run as it is, also when events have
\* carried it further by now, and hydrates.
CallAnswered ==
  /\ call.kind \in {"start", "cancel", "write"} /\ ~call.answered /\ Fits
  /\ run' = IF call.kind = "write" THEN run ELSE call.answer
  /\ progress' = IF board = "internal" /\ call.kind = "cancel" THEN NoProgress ELSE progress
  /\ IF board = "internal" /\ call.kind = "cancel"
     THEN NoHydrate /\ call' = NoCall
     ELSE HydrateFor(TRUE) /\ call' = [call EXCEPT !.answered = TRUE]
  /\ UNCHANGED <<board, backend, shown, loading, lookups, lost, writes>>

CallRefused ==
  /\ call.kind = "refused"
  /\ call' = NoCall
  /\ UNCHANGED <<board, backend, run, shown, loading, reads, again, progress, lookups, lost,
                 writes>>

----
(* Events. *)

\* duplicateRunIsNewer
DuplicateRunIsNewer(current, incoming) ==
  \/ current.id = 0
  \/ IF current.id = incoming.id THEN incoming.revision > current.revision
     ELSE incoming.id > current.id

\* duplicateEventNeedsSnapshot
DuplicateEventNeedsSnapshot(previous, incoming) ==
  ~Running(incoming) \/ previous.found < incoming.found

OnDuplicateChanged(e) ==
  IF DuplicateRunIsNewer(run, e)
  THEN /\ run' = e
       /\ UNCHANGED <<progress, lookups, again>>
       /\ reads' = IF DuplicateEventNeedsSnapshot(run, e) THEN Superseded \cup {Read(FALSE)}
                   ELSE IF run.id # e.id THEN Superseded ELSE reads
  ELSE NoHydrate /\ UNCHANGED <<run, progress, lookups>>

\* A new run and the end of one clear the progress.
ProgressAfter(e) == IF ~Running(e) \/ run.id # e.id THEN NoProgress ELSE progress

OnInternalChanged(e) ==
  IF \/ run.id = e.id /\ run.revision >= e.revision
     \/ run.id # e.id /\ run.id # 0 /\ e.id < run.id
  THEN NoHydrate /\ UNCHANGED <<run, progress, lookups>>
  ELSE /\ run' = e
       /\ progress' = ProgressAfter(e)
       /\ IF ~Running(e)
          THEN Hydrate /\ UNCHANGED lookups
          ELSE /\ NoHydrate
               /\ lookups' = IF run.id # e.id THEN LookUp(e.id) ELSE lookups

\* Every auto-find event hydrates, also one that is older than the run.
OnAutoFindChanged(e) ==
  /\ run' = IF run.id = e.id /\ run.revision > e.revision THEN run ELSE e
  /\ Hydrate
  /\ UNCHANGED <<progress, lookups>>

\* internal-duplicate:artifact-progress
Accepts(p) ==
  /\ Running(run) /\ run.id = p.id
  /\ ~(progress.id = p.id /\ progress.seq >= p.seq)

EventArrives ==
  /\ events # <<>> /\ Fits
  /\ events' = Tail(events)
  /\ LET e == Head(events)
     IN  \/ /\ e.kind = "run"
            /\ CASE board = "duplicate" -> OnDuplicateChanged(e.run)
                 [] board = "internal" -> OnInternalChanged(e.run)
                 [] board = "auto_find" -> OnAutoFindChanged(e.run)
         \/ /\ e.kind = "progress"
            /\ progress' = IF Accepts(e.progress) THEN e.progress ELSE progress
            /\ NoHydrate /\ UNCHANGED <<run, lookups>>
  /\ UNCHANGED <<board, srv, data, srvProgress, shown, loading, call, lost, writes>>

----
(* The answers of hydrations. *)

\* Mutant: the answer of an older hydration is used as well.
AnyHydration(r) == TRUE

\* An answer counts only under the token that is current when it comes.
IsCurrent(r) == r.current

\* mergeHydratedDuplicateSnapshot and the check of hydrateInternalSnapshot:
\* the run in the snapshot is older than the one the board knows.
IsStale(incoming) ==
  CASE board = "duplicate" ->
         /\ run.id # 0
         /\ \/ incoming.id = 0
            \/ incoming.id = run.id /\ incoming.revision < run.revision
            \/ incoming.id # run.id /\ incoming.id <= run.id
    [] board = "internal" ->
         /\ incoming.id # 0 /\ run.id # 0
         /\ \/ incoming.id = run.id /\ incoming.revision < run.revision
            \/ incoming.id # run.id /\ incoming.id < run.id
    [] OTHER -> FALSE

\* The request that waits for a hydration is over with it.
CallAfter(r) == IF r.waited THEN NoCall ELSE call

\* startInternalScan looks the progress up once its hydration is over.
LookupsAfter(r, ls) ==
  IF board = "internal" /\ call.kind = "start" /\ r.waited
  THEN ls \cup LookUp(call.answer.id) ELSE ls

\* The auto-find task reads again when it was joined; the other boards are
\* done with this read.
AfterRead(r) ==
  IF board = "auto_find" /\ again
  THEN /\ again' = FALSE
       /\ reads' = {Read(r.waited)}
       /\ UNCHANGED <<call, loading>>
  ELSE /\ reads' = reads \ {r}
       /\ call' = CallAfter(r)
       /\ loading' = (loading /\ ~IsCurrent(r))
       /\ UNCHANGED again

HydrationSucceeds(r) ==
  LET used == IsCurrent(r) /\ ~IsStale(r.answer.run)
  IN  /\ r.answer.read
      /\ run' = IF used THEN r.answer.run ELSE run
      /\ shown' = IF used THEN r.answer.data ELSE shown
      /\ lost' = IF used THEN FALSE ELSE lost
      /\ progress' = IF used /\ ~Running(r.answer.run) THEN NoProgress ELSE progress
      /\ lookups' = LookupsAfter(r, IF used /\ board = "internal" /\ Running(r.answer.run)
                                    THEN LookUp(r.answer.run.id) ELSE lookups)
      /\ AfterRead(r)
      /\ UNCHANGED <<board, backend, writes>>

\* The read fails; the boards keep what they had and say so.
HydrationFails(r) ==
  /\ lost' = (lost \/ IsCurrent(r))
  /\ AfterRead(r)
  /\ lookups' = LookupsAfter(r, lookups)
  /\ UNCHANGED <<board, backend, run, shown, progress, writes>>

\* hydrateInternalArtifactProgress: a lookup made for another run, or one
\* that found nothing, says nothing.
LookupAnswered(l) ==
  /\ l.read
  /\ lookups' = lookups \ {l}
  /\ progress' = IF l.progress.id = l.id /\ run.id = l.id /\ Accepts(l.progress)
                 THEN l.progress ELSE progress
  /\ UNCHANGED <<board, backend, run, shown, loading, reads, again, call, lost, writes>>

StartDuplicateScan == board = "duplicate" /\ StartScan
StartInternalScan == board = "internal" /\ StartScan
RefreshAutoFind == board = "auto_find" /\ StartScan
CancelDuplicateScan == board = "duplicate" /\ CancelScan
CancelInternalScan == board = "internal" /\ CancelScan
CancelAutoFind == board = "auto_find" /\ CancelScan

Next ==
  \/ \E g \in BOOLEAN : ScanAdvances(g)
  \/ ScanProgresses \/ ScanEnds \/ BackendReads
  \/ StartDuplicateScan \/ StartInternalScan \/ RefreshAutoFind
  \/ CancelDuplicateScan \/ CancelInternalScan \/ CancelAutoFind
  \/ WriteResults \/ RefuseCall \/ CallAnswered \/ CallRefused
  \/ EventArrives
  \/ \E r \in reads : HydrationSucceeds(r) \/ HydrationFails(r)
  \/ \E l \in lookups : LookupAnswered(l)

Spec == Init /\ [][Next]_vars

----
(* Properties. *)

Quiet == events = <<>> /\ reads = {} /\ call = NoCall /\ lookups = {}

\* When nothing is under way any more, and no read that counted has failed,
\* the board shows the backend's run, and once that run is over its latest
\* results: no order of events, hydrations and answers leaves an older state
\* on screen.  (While the run goes on, a snapshot may be dropped for an event
\* that overtook it; cancelInternalScan does not read it again.)
QuietIsCurrent ==
  Quiet /\ ~lost =>
    /\ run = srv
    /\ ~Running(srv) /\ (board = "internal" => srv.state # "cancelled") => shown = data

\* Once every event has been handled and no request is open, the progress on
\* screen is that of the run on screen, while it runs.  (Before that it may
\* not be: startInternalScan takes over the new run and leaves the progress
\* of the one before for the events to clear.)
ProgressBelongsToRun ==
  progress # NoProgress /\ events = <<>> /\ call = NoCall
    => Running(run) /\ progress.id = run.id

\* A board does not stay loading: some read will end it, or the end of the
\* scan that superseded the read will.
LoadingEnds ==
  loading => reads # {} \/ events # <<>> \/ call # NoCall \/ Running(srv)
====
