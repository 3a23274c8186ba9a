---- MODULE OverlapDesk ----
(***************************************************************************)
(* Who decides edition reviews: the part of HitomiFeature.tsx around the   *)
(* review dialog.  The user opens a review, decides it, merges pages or    *)
(* excludes a group of contained editions in one batch; the automatic      *)
(* sweep decides the reviews its strict plan covers; the history of what   *)
(* it did is looked through one record after the other.  All of them wait  *)
(* for the backend in between, where other windows decide too.             *)
(*                                                                         *)
(* A review is what the others can tell apart of it: its revision, the     *)
(* candidates left and how many of them the strict plan would exclude.     *)
(***************************************************************************)
EXTENDS Integers, Sequences, FiniteSets, SequencesExt

CONSTANTS Reviews, Candidates, \* candidates a review starts with
          Planned,             \* review -> how many of them the strict plan excludes
          Merging,             \* reviews the sweep would merge
          MaxRevision,         \* bound on the changes of one review
          MaxSweeps,           \* bound on the rounds of the sweep
          None

VARIABLES reviews,   \* backend: revision, left, auto, and its automation record
          listed,    \* reviews the download list asks for
          news,      \* another window's decision the list was not read after
          dialog,    \* downloadOverlapReviewId, the review shown, the hydration
          pairOpen,  \* the dialog of a completed pair is open
          decision,  \* what downloadOverlapDecisionPendingRef stands for
          records,   \* review -> automation history mutation under way
          session,   \* automationReviewSession, or its loading
          sweep,     \* the automatic sweep: where it stands, its reviews
          rescan,    \* automaticOverlapRescanRequestedRef
          wake,      \* a dependency of the sweep's effect has changed
          attempted, \* automaticOverlapAttemptedRef
          broken,    \* the last sweep ended in a systemic failure
          sweeps     \* rounds so far

vars == <<reviews, listed, news, dialog, pairOpen, decision, records, session, sweep,
          rescan, wake, attempted, broken, sweeps>>
sweepVars == <<sweep, rescan, attempted, broken, sweeps>>

Idle == [at |-> "idle", todo |-> {}, read |-> {}, review |-> None, revision |-> 0, first |-> 0,
         steps |-> 0]
Closed == [id |-> None, shown |-> None, loading |-> FALSE]
NoSession == [at |-> "none", items |-> <<>>, index |-> 0, acked |-> {}]

Init == /\ reviews = [r \in Reviews |-> [revision |-> 0, left |-> Candidates, auto |-> Planned[r],
                                          merge |-> r \in Merging, record |-> "none"]]
        /\ listed = {} /\ news = FALSE /\ dialog = Closed /\ pairOpen = FALSE /\ decision = None
        /\ records = [r \in Reviews |-> None]
        /\ session = NoSession /\ sweep = Idle /\ rescan = FALSE /\ wake = TRUE
        /\ attempted = {} /\ broken = FALSE /\ sweeps = 0

----
(* The backend.  A decision settles one candidate and the revision moves;
   a merge settles one as well. *)

Pending(r) == reviews[r].left > 0

Decide(r, record) ==
  reviews' = [reviews EXCEPT ![r].revision = @ + 1, ![r].left = @ - 1,
                             ![r].auto = IF @ >= reviews[r].left THEN @ - 1 ELSE @,
                             ![r].record = IF record THEN "unread" ELSE @]

\* What the strict plan excludes is settled first.
DecidePlanned(r) ==
  reviews' = [reviews EXCEPT ![r].revision = @ + 1, ![r].left = @ - 1, ![r].auto = @ - 1,
                             ![r].merge = FALSE, ![r].record = "unread"]

CanChange(r) == Pending(r) /\ reviews[r].revision < MaxRevision

\* Another window decides.
DecidedElsewhere ==
  \E r \in Reviews :
    /\ CanChange(r) /\ Decide(r, FALSE) /\ news' = TRUE
    /\ UNCHANGED <<listed, dialog, pairOpen, decision, records, session, wake>>
    /\ UNCHANGED sweepVars

\* The list of downloads is read again: its effect is a dependency of the sweep's.
ListDownloads ==
  /\ listed' = {r \in Reviews : Pending(r)} /\ news' = FALSE /\ wake' = TRUE
  /\ UNCHANGED <<reviews, dialog, pairOpen, decision, records, session>> /\ UNCHANGED sweepVars

----
(* The dialog. *)

Overlay == dialog.id # None \/ pairOpen  \* uiRef.current.overlays.reviewGalleryId

\* A new hydration, or closing, takes the token of what was under way.
ForgetToken == records' = [r \in Reviews |->
                             IF records[r] = None THEN None ELSE [records[r] EXCEPT !.token = FALSE]]

ShowReview(r) == dialog' = [id |-> r, shown |-> None, loading |-> TRUE]

OpenReview(r) ==
  /\ r \in listed /\ ~Overlay /\ session.at # "on"
  /\ session' = NoSession
  /\ ShowReview(r) /\ ForgetToken /\ wake' = TRUE
  /\ UNCHANGED <<reviews, listed, pairOpen, decision>> /\ UNCHANGED sweepVars

\* A failed read leaves the dialog open with its error and its button to try again.
ReviewRead(ok) ==
  /\ dialog.loading
  /\ dialog' = [dialog EXCEPT !.loading = FALSE,
                              !.shown = IF ok THEN <<dialog.id, reviews[dialog.id].revision>> ELSE @]
  /\ decision' = None /\ wake' = (wake \/ decision # None)   \* a conflict waits for this
  /\ UNCHANGED <<reviews, listed, pairOpen, records, session>> /\ UNCHANGED sweepVars

RetryReview ==
  /\ dialog.id # None /\ dialog.shown = None /\ ~dialog.loading
  /\ ShowReview(dialog.id) /\ ForgetToken
  /\ UNCHANGED <<reviews, listed, pairOpen, decision, session, wake>> /\ UNCHANGED sweepVars

Close == /\ dialog' = Closed /\ session' = NoSession /\ ForgetToken /\ wake' = TRUE

CloseReview ==
  /\ dialog.id # None /\ decision = None /\ records[dialog.id] = None
  /\ Close
  /\ UNCHANGED <<reviews, listed, pairOpen, decision>> /\ UNCHANGED sweepVars

\* The dialog of a completed pair: its own pending flag, the same overlay.
OpenPair == /\ ~Overlay /\ pairOpen' = TRUE
            /\ session' = NoSession /\ wake' = (wake \/ session.at = "loading")
            /\ UNCHANGED <<reviews, listed, dialog, decision, records>> /\ UNCHANGED sweepVars
ClosePair == /\ pairOpen /\ pairOpen' = FALSE
             /\ UNCHANGED <<reviews, listed, dialog, decision, records, session, wake>>
             /\ UNCHANGED sweepVars

\* A decision on the pair lists the downloads again and closes its dialog.
PairDecided == /\ pairOpen /\ pairOpen' = FALSE
               /\ listed' = {r \in Reviews : Pending(r)} /\ wake' = TRUE
               /\ UNCHANGED <<reviews, dialog, decision, records, session>> /\ UNCHANGED sweepVars

----
(* Decisions of the user, one at a time and never beside the sweep. *)

Free(r) == decision = None /\ records[r] = None /\ sweep.at = "idle"

Send(kind, todo) ==
  /\ decision' = [kind |-> kind, id |-> dialog.id, revision |-> dialog.shown[2], todo |-> todo]
  /\ wake' = TRUE
  /\ UNCHANGED <<reviews, listed, dialog, pairOpen, records, session>> /\ UNCHANGED sweepVars

Decidable == /\ dialog.id # None /\ dialog.shown # None /\ ~dialog.loading
             /\ Pending(dialog.id) /\ Free(dialog.id)

ApplyDecision == Decidable /\ Send("decide", {})
ApplyMerge == Decidable /\ Send("merge", {})

Answered(r) == decision # None /\ decision.id = r /\ wake' = TRUE

\* Refused; or applied, and the answer is lost.
Unanswered(r) ==
  \/ UNCHANGED reviews
  \/ reviews[r].revision = decision.revision /\ CanChange(r) /\ Decide(r, FALSE)

\* The answer: a moved revision has the review read again; a decision that
\* ends the review closes the dialog, any other shows what is left of it.
DecisionAnswered(r) ==
  /\ Answered(r) /\ decision.kind = "decide"
  /\ \/ /\ reviews[r].revision # decision.revision
        /\ decision' = [decision EXCEPT !.kind = "reload"]
        /\ ShowReview(r) /\ ForgetToken /\ UNCHANGED <<reviews, listed, session>>
     \/ /\ reviews[r].revision = decision.revision /\ decision' = None /\ CanChange(r) /\ Decide(r, FALSE)
        /\ listed' = {s \in Reviews : reviews'[s].left > 0}
        /\ IF reviews'[r].left = 0 THEN Close
           ELSE /\ dialog' = [dialog EXCEPT !.shown = <<r, reviews'[r].revision>>]
                /\ UNCHANGED <<session, records>>
     \/ decision' = None /\ UNCHANGED <<listed, dialog, session, records>> /\ Unanswered(r)
  /\ UNCHANGED pairOpen /\ UNCHANGED sweepVars

MergeAnswered(r) ==
  /\ Answered(r) /\ decision.kind = "merge"
  /\ \/ /\ reviews[r].revision # decision.revision
        /\ decision' = [decision EXCEPT !.kind = "reload"]
        /\ ShowReview(r) /\ ForgetToken /\ UNCHANGED <<reviews, listed, session>>
     \/ /\ reviews[r].revision = decision.revision /\ decision' = None /\ CanChange(r) /\ Decide(r, FALSE)
        /\ listed' = {s \in Reviews : reviews'[s].left > 0} /\ Close
     \/ decision' = None /\ UNCHANGED <<listed, dialog, session, records>> /\ Unanswered(r)
  /\ UNCHANGED pairOpen /\ UNCHANGED sweepVars

\* The batch: contained editions of one keeper, each read again before it is decided.
Group == {r \in listed \cup {dialog.id} : Pending(r) /\ reviews[r].auto > 0}

ApplyContainmentBatch ==
  /\ Decidable /\ Cardinality(Group) >= 2
  /\ \E items \in SUBSET Group : items # {} /\ Send("batch", items)

BatchItem(r) ==
  /\ decision # None /\ decision.kind = "batch" /\ r \in decision.todo
  /\ CanChange(r) /\ reviews[r].auto > 0           \* read again: still contained
  /\ DecidePlanned(r)
  /\ decision' = [decision EXCEPT !.todo = @ \ {r}]
  /\ dialog' = IF r = dialog.id THEN [dialog EXCEPT !.shown = <<r, reviews'[r].revision>>] ELSE dialog
  /\ listed' = {s \in Reviews : reviews'[s].left > 0} /\ wake' = TRUE
  /\ UNCHANGED <<pairOpen, records, session>> /\ UNCHANGED sweepVars

\* It is through, or stopped at the first item that failed or was not
\* answered: the review is read again.
BatchEnds ==
  /\ decision # None /\ decision.kind = "batch"
  /\ \/ UNCHANGED reviews
     \/ \E r \in decision.todo : CanChange(r) /\ reviews[r].auto > 0 /\ DecidePlanned(r)
  /\ decision' = None /\ wake' = TRUE
  /\ dialog' = [dialog EXCEPT !.loading = TRUE] /\ ForgetToken
  /\ UNCHANGED <<listed, pairOpen, session>> /\ UNCHANGED sweepVars

----
(* The automation history, one record after the other. *)

StartSequence ==
  /\ session.at = "none" /\ ~Overlay
  /\ decision = None /\ \A r \in Reviews : records[r] = None
  /\ sweep.at = "idle"
  /\ session' = [NoSession EXCEPT !.at = "loading"] /\ wake' = TRUE
  /\ UNCHANGED <<reviews, listed, dialog, pairOpen, decision, records>> /\ UNCHANGED sweepVars

Unread == SetToSeq({r \in Reviews : reviews[r].record = "unread"})

\* The pages of the history are collected; a failed one, or nothing unread, ends it.
SequenceLoaded ==
  /\ session.at = "loading" /\ wake' = TRUE
  /\ \/ session' = NoSession /\ UNCHANGED <<dialog, records>>
     \/ /\ Unread # <<>>
        /\ session' = [at |-> "on", items |-> Unread, index |-> 1, acked |-> {}]
        /\ ShowReview(Unread[1]) /\ ForgetToken
  /\ UNCHANGED <<reviews, listed, pairOpen, decision>> /\ UNCHANGED sweepVars

CloseActivity == /\ session.at = "loading" /\ session' = NoSession /\ wake' = TRUE
                 /\ UNCHANGED <<reviews, listed, dialog, pairOpen, decision, records>>
                 /\ UNCHANGED sweepVars

\* One record is opened from the activity drawer, without a sequence.
OpenRecord(r) ==
  /\ reviews[r].record # "none" /\ ~Overlay
  /\ session' = NoSession /\ ShowReview(r) /\ ForgetToken /\ wake' = TRUE
  /\ UNCHANGED <<reviews, listed, pairOpen, decision>> /\ UNCHANGED sweepVars

Turn(i) == /\ session' = [session EXCEPT !.index = i]
           /\ ShowReview(session.items[i])

Navigate ==
  /\ session.at = "on" /\ decision = None /\ records[dialog.id] = None
  /\ \E i \in {session.index - 1, session.index + 1} \cap DOMAIN session.items : Turn(i)
  /\ ForgetToken /\ wake' = TRUE
  /\ UNCHANGED <<reviews, listed, pairOpen, decision>> /\ UNCHANGED sweepVars

Acknowledge(restore) ==
  /\ dialog.id # None /\ dialog.shown # None /\ ~dialog.loading
  /\ reviews[dialog.id].record = "unread" /\ decision = None /\ records[dialog.id] = None
  /\ records' = [records EXCEPT ![dialog.id] = [token |-> TRUE, restore |-> restore]]
  /\ UNCHANGED <<reviews, listed, dialog, pairOpen, decision, session, wake>> /\ UNCHANGED sweepVars

AcknowledgeReview == Acknowledge(FALSE)
RestoreExclusions == Acknowledge(TRUE)

Acked(r) == session.acked \cup {r}
\* The next record not acknowledged, around the end of the list.
NextIndices(r) ==
  LET n == Len(session.items)
      At(offset) == ((session.index - 1 + offset) % n) + 1
      Open(offset) == session.items[At(offset)] \notin Acked(r)
  IN  {At(o) : o \in {p \in 1..n : Open(p) /\ \A q \in 1..(p - 1) : ~Open(q)}}

\* completeAutomationReviewAction, when the dialog still shows what was acknowledged.
Complete(r) ==
  IF session.at = "on" /\ NextIndices(r) # {}
  THEN LET i == CHOOSE j \in NextIndices(r) : TRUE
       IN  /\ session' = [session EXCEPT !.index = i, !.acked = Acked(r)]
           /\ ShowReview(session.items[i])
  ELSE session' = NoSession /\ dialog' = Closed

\* A failed call may have reached the backend all the same.
AcknowledgeAnswered(r, ok) ==
  /\ records[r] # None
  /\ records' = [records EXCEPT ![r] = None]
  /\ LET acked == [reviews EXCEPT ![r].record = "acked"]
     IN  IF ok THEN reviews' = acked ELSE reviews' \in {reviews, acked}
  /\ IF ~ok THEN UNCHANGED <<session, dialog>>
     ELSE IF records[r].token THEN Complete(r)
     ELSE session' = [session EXCEPT !.acked = Acked(r)] /\ UNCHANGED dialog
  /\ wake' = TRUE
  /\ UNCHANGED <<listed, pairOpen, decision>> /\ UNCHANGED sweepVars

----
(* The automatic sweep. *)

SweepUnchanged == UNCHANGED <<reviews, listed, dialog, pairOpen, decision, records, session>>

\* The effect, after a render in which one of its dependencies changed.
RunEffect ==
  /\ wake /\ wake' = FALSE
  /\ IF session.at = "loading" \/ dialog.id # None \/ decision # None \/ listed = {}
     THEN UNCHANGED <<sweep, rescan, broken, sweeps>>
     ELSE IF sweep.at # "idle"
     THEN rescan' = TRUE /\ UNCHANGED <<sweep, broken, sweeps>>
     ELSE /\ sweeps < MaxSweeps /\ sweeps' = sweeps + 1
          /\ sweep' = [Idle EXCEPT !.at = "load", !.todo = listed]
          /\ broken' = FALSE /\ UNCHANGED rescan
  /\ UNCHANGED attempted /\ SweepUnchanged

\* Mutant: what was asked for during the round is dropped with it.
FinishForgets(failed, again) ==
  /\ sweep' = Idle /\ broken' = failed /\ rescan' = FALSE
  /\ UNCHANGED <<wake, attempted, sweeps>>

\* Its last block: a change that came in meanwhile starts another round.
Finish(failed, again) ==
  /\ sweep' = Idle /\ broken' = failed
  /\ IF ~failed /\ (rescan \/ again) THEN wake' = TRUE /\ rescan' = FALSE
     ELSE rescan' = (rescan \/ again) /\ UNCHANGED wake
  /\ UNCHANGED <<attempted, sweeps>>

Interrupted == Overlay \/ decision # None

\* Every review is read once, to put them in order; one that is over may not
\* be found any more.
SweepLoad ==
  /\ sweep.at = "load" /\ SweepUnchanged
  /\ IF sweep.todo = {} THEN /\ sweep' = [sweep EXCEPT !.at = "pick", !.todo = sweep.read]
                             /\ UNCHANGED <<rescan, wake, attempted, broken, sweeps>>
     ELSE IF Interrupted THEN Finish(FALSE, TRUE)
     ELSE \/ Finish(TRUE, FALSE)
          \/ \E r \in sweep.todo :
               /\ \/ sweep' = [sweep EXCEPT !.todo = @ \ {r}, !.read = @ \cup {r}]
                  \/ ~Pending(r) /\ sweep' = [sweep EXCEPT !.todo = @ \ {r}]
               /\ UNCHANGED <<rescan, wake, attempted, broken, sweeps>>

\* The next review is read again and tried once at every revision.
SweepPick ==
  /\ sweep.at = "pick" /\ SweepUnchanged
  /\ IF sweep.todo = {} THEN Finish(FALSE, FALSE)
     ELSE IF Interrupted THEN Finish(FALSE, TRUE)
     ELSE \/ Finish(TRUE, FALSE)
          \/ \E r \in sweep.todo :
               LET key == <<r, reviews[r].revision>>
                   next == [sweep EXCEPT !.todo = @ \ {r}, !.review = r, !.revision = key[2],
                                         !.first = key[2], !.steps = reviews[r].auto]
               IN  /\ \/ attempted' = attempted \cup {key}
                      \/ ~Pending(r) /\ UNCHANGED attempted       \* not found
                   /\ sweep' = IF key \in attempted \/ ~Pending(r) \/ reviews[r].auto = 0
                               THEN [sweep EXCEPT !.todo = @ \ {r}]
                               ELSE [next EXCEPT !.at = IF reviews[r].merge THEN "merge" ELSE "step"]
                   /\ UNCHANGED <<rescan, wake, broken, sweeps>>

\* An automatic merge; refused, it stays with the user.  Without an answer
\* the round fails, whether it was applied or not.
SweepMerge ==
  LET r == sweep.review
      applied == reviews[r].revision = sweep.revision /\ CanChange(r) /\ DecidePlanned(r)
      goesOn == sweep' = [sweep EXCEPT !.at = "pick"] /\ UNCHANGED <<attempted, broken, sweeps>>
  IN  /\ sweep.at = "merge"
      /\ \/ /\ applied /\ goesOn
            /\ listed' = {s \in Reviews : reviews'[s].left > 0} /\ wake' = TRUE /\ rescan' = TRUE
         \/ goesOn /\ UNCHANGED <<reviews, listed, wake, rescan>>
         \/ Finish(TRUE, FALSE) /\ (applied \/ UNCHANGED reviews) /\ UNCHANGED listed
      /\ UNCHANGED <<dialog, pairOpen, decision, records, session>>

\* Between two steps of a plan: stop for the user, who finds the review untried.
SweepYields ==
  /\ sweep.at = "step" /\ sweep.steps > 0 /\ Interrupted
  /\ sweep' = Idle /\ broken' = FALSE
  /\ attempted' = attempted \ {<<sweep.review, sweep.first>>}   \* attemptKey
  /\ wake' = TRUE /\ rescan' = FALSE
  /\ SweepUnchanged /\ UNCHANGED sweeps

\* One step of the plan was sent at the revision of the last answer.
SweepStep ==
  LET r == sweep.review
  IN  /\ sweep.at = "step" /\ sweep.steps > 0 /\ ~Interrupted
      /\ sweep' = [sweep EXCEPT !.at = "sent"]
      /\ SweepUnchanged /\ UNCHANGED <<rescan, wake, attempted, broken, sweeps>>

SweepStepAnswered ==
  LET r == sweep.review
      applied == reviews[r].revision = sweep.revision /\ CanChange(r) /\ DecidePlanned(r)
  IN  /\ sweep.at = "sent"
      /\ \/ /\ applied
            /\ sweep' = [sweep EXCEPT !.at = "step", !.revision = reviews'[r].revision,
                                      !.steps = @ - 1]
            /\ UNCHANGED <<rescan, wake, attempted, broken, sweeps>>
         \/ /\ reviews[r].revision # sweep.revision \/ ~Pending(r)  \* REVISION_CONFLICT, NOT_FOUND
            /\ sweep' = [sweep EXCEPT !.at = "pick"] /\ rescan' = TRUE
            /\ UNCHANGED <<reviews, wake, attempted, broken, sweeps>>
         \/ Finish(TRUE, FALSE) /\ (applied \/ UNCHANGED reviews)  \* any other error, or no answer
      /\ UNCHANGED <<listed, dialog, pairOpen, decision, records, session>>

SweepPlanDone ==
  /\ sweep.at = "step" /\ sweep.steps = 0
  /\ sweep' = [sweep EXCEPT !.at = "pick"]
  /\ listed' = {r \in Reviews : Pending(r)} /\ wake' = TRUE
  /\ UNCHANGED <<reviews, dialog, pairOpen, decision, records, session, rescan, attempted, broken, sweeps>>

Desk == \/ RetryReview \/ CloseReview
        \/ OpenPair \/ ClosePair \/ PairDecided
        \/ ApplyDecision \/ ApplyMerge \/ ApplyContainmentBatch \/ BatchEnds
        \/ StartSequence \/ SequenceLoaded \/ CloseActivity \/ Navigate
        \/ AcknowledgeReview \/ RestoreExclusions
        \/ RunEffect \/ SweepLoad \/ SweepPick \/ SweepMerge \/ SweepYields \/ SweepStep
        \/ SweepStepAnswered \/ SweepPlanDone
        \/ \E r \in Reviews : \/ OpenReview(r) \/ DecisionAnswered(r) \/ MergeAnswered(r)
                              \/ BatchItem(r) \/ OpenRecord(r)
        \/ \E ok \in BOOLEAN : ReviewRead(ok)
        \/ \E r \in Reviews, ok \in BOOLEAN : AcknowledgeAnswered(r, ok)

Next == DecidedElsewhere \/ ListDownloads \/ (Desk /\ UNCHANGED news)

Spec == Init /\ [][Next]_vars

----
\* No work is lost between the sweep and the user: once the sweep rests, no
\* dialog is open and no change waits for its effect, it has tried every listed
\* review that its plan covers, at the revision the review has now.
NoReviewIsForgotten ==
  (sweep.at = "idle" /\ ~wake /\ ~news /\ ~broken /\ ~Overlay /\ decision = None /\ session.at = "none")
    => \A r \in listed : Pending(r) /\ reviews[r].auto > 0
                           => <<r, reviews[r].revision>> \in attempted

\* The sweep and the user never decide a review at the same time.
OneDecides == decision # None => sweep.at \notin {"merge", "sent"}
====
