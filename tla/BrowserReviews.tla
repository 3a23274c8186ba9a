---- MODULE BrowserReviews ----
(***************************************************************************)
(* Edition reviews in BrowserMockBackend (src/src/api/backend.ts): the     *)
(* decisions of downloadOverlapDecisionApply, the merges of                *)
(* downloadOverlapMerge and what they do to the downloads that wait for    *)
(* them.  A window reads a review, and decides on what it read; the        *)
(* revision it names tells whether the review has moved on.  Init is a     *)
(* library as the fixture's tests seed it: downloads that wait for a       *)
(* review, and the completed albums they were matched against.  An entry   *)
(* and its gallery are one value, a candidate its existing album.  Two     *)
(* completed albums are reviewed as a pair, which nobody waits for.        *)
(***************************************************************************)
EXTENDS Naturals, FiniteSets

CONSTANTS Entries,      \* downloads
          Reviews,      \* stored reviews
          Pairs,        \* those of two completed albums ("duplicate:")
          IncomingOf,   \* review -> the download that waits for it
          ExistingOf,   \* review -> the albums it was matched against
          Contained,    \* <<review, album, winner>> : complete containments
          Covered,      \* <<review, album, side>> : every page of that side has
                        \* its one counterpart
          Uncensored,   \* those of Covered that merge automatically
          NoOne         \* a download that waits for no review

VARIABLES state,        \* download -> its state
          reviewOf,     \* download -> the review it names
          rstate,       \* review -> its state
          decision,     \* review -> album -> decision
          revision,     \* review -> revision
          seen,         \* review -> what the window holds of it
          hiddenIds,    \* duplicateHiddenGalleryIds
          restoredIds,  \* explorationRestoredGalleryIds
          automated,    \* review -> galleries automation removed by it
          merged        \* history: downloads whose pages a merge changed

vars == <<state, reviewOf, rstate, decision, revision, seen, hiddenIds, restoredIds, automated,
          merged>>

Waiting == {IncomingOf[r] : r \in Reviews \ Pairs}

Init ==
  /\ state = [e \in Entries |-> IF e \in Waiting THEN "review_required" ELSE "completed"]
  /\ reviewOf = [e \in Entries |-> IF e \in Waiting
                                   THEN CHOOSE r \in Reviews \ Pairs : IncomingOf[r] = e ELSE NoOne]
  /\ rstate = [r \in Reviews |-> "pending"]
  /\ decision = [r \in Reviews |-> [e \in ExistingOf[r] |-> "none"]]
  /\ revision = [r \in Reviews |-> 0]
  /\ seen = [r \in Reviews |-> [revision |-> 0, pending |-> FALSE]]
  /\ hiddenIds = {} /\ restoredIds = {} /\ merged = {}
  /\ automated = [r \in Reviews |-> {}]

Excluded(e) == e \in hiddenIds \ restoredIds

\* downloadOverlapReviewGet: the window takes the review as it is.
ReviewGet(r) ==
  /\ seen' = [seen EXCEPT ![r] = [revision |-> revision[r], pending |-> rstate[r] = "pending"]]
  /\ UNCHANGED <<state, reviewOf, rstate, decision, revision, hiddenIds, restoredIds, automated,
                 merged>>

----
(* Decisions. *)

\* The revision the request names is the current one.
ExpectedRevision(r) == seen[r].revision = revision[r]

Removals == {"remove_existing_continue", "remove_incoming"}
Actions == Removals \cup {"keep_both_continue", "false_positive_continue"}

DecisionOf(action) ==
  CASE action = "false_positive_continue" -> "false_positive"
    [] action = "keep_both_continue" -> "keep_both"
    [] action = "remove_existing_continue" -> "existing_removed"
    [] OTHER -> "none"

\* isAvailable: completed, or waiting in a pending review of its own.
IsAvailable(e) ==
  /\ ~Excluded(e)
  /\ \/ state[e] = "completed"
     \/ /\ state[e] = "review_required" /\ reviewOf[e] # NoOne
        /\ rstate[reviewOf[e]] = "pending" /\ IncomingOf[reviewOf[e]] = e

\* The checks of the manual containment batch: the candidate still is a
\* complete containment with the confirmed winner, and the album to keep is
\* still there.
BatchAllows(r, e, action) ==
  LET winner == IF action = "remove_incoming" THEN "existing" ELSE "incoming"
  IN  /\ action \in Removals
      /\ rstate[r] = "pending" /\ decision[r][e] = "none"
      /\ <<r, e, winner>> \in Contained
      /\ IsAvailable(IncomingOf[r])
      /\ winner = "existing" => IsAvailable(e)

\* A removed album that itself waits must wait in another, pending review.
ChainIsIntact(r, e) ==
  state[e] = "review_required" =>
    /\ reviewOf[e] \notin {NoOne, r}
    /\ rstate[reviewOf[e]] = "pending" /\ IncomingOf[reviewOf[e]] = e

\* The candidates after the decision: the decided one, and every album that
\* is quarantined by now counts as removed.
Remaining(r, e, action) ==
  [x \in ExistingOf[r] |->
     CASE decision[r][x] # "none" -> decision[r][x]
       [] decision[r][x] = "none" /\ x # e /\ state[x] = "quarantined" -> "existing_removed"
       [] decision[r][x] = "none" /\ x # e /\ state[x] # "quarantined" -> "none"
       [] OTHER -> DecisionOf(action)]

\* What becomes of the removed existing album.
RemovedState(e) ==
  CASE state[e] = "completed" -> "quarantined"
    [] state[e] \in {"review_required", "failed", "interrupted", "cancelled"} -> "cancelled"
    [] OTHER -> state[e]

\* The pending review of an album that is removed while it waits.
Chained(e) == IF state[e] = "review_required" THEN {reviewOf[e]} ELSE {}

\* downloadOverlapDecisionApply.  The dialog offers a decision only on a
\* review it holds as pending.
DecisionApply(r, e, action, actor) ==
  LET remaining == Remaining(r, e, action)
      pending == \E x \in ExistingOf[r] : remaining[x] = "none"
      cancelled == action = "remove_incoming"
      incoming == IncomingOf[r]
      removesExisting == action = "remove_existing_continue"
      chain == IF removesExisting THEN Chained(e) ELSE {}
      gone == (IF cancelled THEN {incoming} ELSE {}) \cup (IF removesExisting THEN {e} ELSE {})
      released == cancelled \/ ~pending
  IN  /\ r \notin Pairs /\ seen[r].pending /\ ExpectedRevision(r)
      /\ ~cancelled => decision[r][e] = "none"
      /\ actor = "batch" => BatchAllows(r, e, action)
      /\ actor = "automation" => action \in Removals
      /\ removesExisting => ChainIsIntact(r, e)
      /\ decision' = [decision EXCEPT ![r] = remaining]
      /\ rstate' = [q \in Reviews |-> CASE q = r -> IF cancelled THEN "cancelled"
                                                    ELSE IF pending THEN "pending" ELSE "resolved"
                                        [] q \in chain -> "cancelled"
                                        [] OTHER -> rstate[q]]
      /\ revision' = [q \in Reviews |-> IF q \in {r} \cup chain THEN revision[q] + 1 ELSE revision[q]]
      /\ hiddenIds' = hiddenIds \cup gone
      /\ restoredIds' = restoredIds \ gone
      /\ state' = [x \in Entries |->
                     CASE x = incoming /\ released -> IF cancelled THEN "cancelled" ELSE "queued"
                       [] removesExisting /\ x = e -> RemovedState(e)
                       [] OTHER -> state[x]]
      /\ reviewOf' = [x \in Entries |->
                        IF (x = incoming /\ released)
                           \/ (removesExisting /\ x = e /\ RemovedState(e) = "cancelled")
                        THEN NoOne ELSE reviewOf[x]]
      /\ automated' = IF actor = "automation"
                      THEN [automated EXCEPT ![r] = @ \cup gone] ELSE automated
      /\ seen' = [seen EXCEPT ![r] = [revision |-> revision'[r], pending |-> rstate'[r] = "pending"]]
      /\ UNCHANGED merged

\* The same for a pair, and duplicateDecisionApply: by a person, and only
\* while both albums are completed and were never hidden.
PairDecision(r, e, action) ==
  LET incoming == IncomingOf[r]
      gone == CASE action = "remove_existing_continue" -> {e}
                [] action = "remove_incoming" -> {incoming}
                [] OTHER -> {}
  IN  /\ r \in Pairs /\ seen[r].pending /\ ExpectedRevision(r) /\ rstate[r] = "pending"
      /\ state[e] = "completed" /\ state[incoming] = "completed" /\ {e, incoming} \cap hiddenIds = {}
      /\ decision' = [decision EXCEPT ![r] = [x \in ExistingOf[r] |-> DecisionOf(action)]]
      /\ rstate' = [rstate EXCEPT ![r] = IF action = "remove_incoming" THEN "cancelled" ELSE "resolved"]
      /\ revision' = [revision EXCEPT ![r] = @ + 1]
      /\ seen' = [seen EXCEPT ![r] = [revision |-> revision[r] + 1, pending |-> FALSE]]
      /\ hiddenIds' = hiddenIds \cup gone /\ restoredIds' = restoredIds \ gone
      /\ state' = [x \in Entries |-> IF x \in gone THEN "cancelled" ELSE state[x]]
      /\ reviewOf' = [x \in Entries |-> IF x \in gone THEN NoOne ELSE reviewOf[x]]
      /\ UNCHANGED <<automated, merged>>

----
(* Merges. *)

\* The pending reviews whose evidence a merge into target makes obsolete; a
\* pair only looks at target.
Affected(target, source, exclude) ==
  {q \in Reviews : /\ rstate[q] = "pending"
                   /\ \/ target \in {IncomingOf[q]} \cup ExistingOf[q]
                      \/ exclude /\ q \notin Pairs /\ source \in {IncomingOf[q]} \cup ExistingOf[q]}

\* Mutant: only the reviews are marked stale.
LeftWaiting(stale) == {}

\* The downloads that wait for a review that has become stale.
Requeued(stale) ==
  {IncomingOf[q] : q \in {p \in stale : state[IncomingOf[p]] = "review_required"
                                         /\ reviewOf[IncomingOf[p]] = p}}

\* A merge is accepted for two albums that are both there and not hidden,
\* also not hidden and restored since.
Mergeable(e) == state[e] \in {"completed", "review_required"} /\ e \notin hiddenIds

\* downloadOverlapMerge: pages of one side go into the other, or selected
\* pages of both; with exclude the side they came from is left out, which
\* asks for its whole coverage only when no pages were selected.
Merge(r, e, side, exclude, automatic, selected) ==
  LET source == IF side = "existing" THEN e ELSE IncomingOf[r]
      target == IF side = "existing" THEN IncomingOf[r] ELSE e
      affected == Affected(target, source, exclude)
      dropped == {q \in affected \ Pairs : exclude /\ IncomingOf[q] = source}
      requeued == Requeued(affected \ dropped)
  IN  /\ seen[r].pending /\ ExpectedRevision(r)
      /\ rstate[r] = "pending" /\ decision[r][e] = "none"
      /\ source # target /\ Mergeable(source) /\ Mergeable(target)
      /\ r \in Pairs => state[source] = "completed" /\ state[target] = "completed"
      /\ exclude /\ ~selected => <<r, e, side>> \in Covered
      /\ automatic => exclude /\ ~selected /\ <<r, e, side>> \in Uncensored
      /\ rstate' = [q \in Reviews |-> CASE q \in dropped -> "cancelled"
                                        [] q \in affected \ dropped -> "stale"
                                        [] OTHER -> rstate[q]]
      /\ revision' = [q \in Reviews |-> IF q \in affected THEN revision[q] + 1 ELSE revision[q]]
      /\ state' = [x \in Entries |-> CASE exclude /\ x = source -> "cancelled"
                                       [] ~(exclude /\ x = source) /\ x \in requeued -> "queued"
                                       [] OTHER -> state[x]]
      /\ reviewOf' = [x \in Entries |-> IF x \in requeued \/ (exclude /\ x = source)
                                        THEN NoOne ELSE reviewOf[x]]
      /\ hiddenIds' = IF exclude THEN hiddenIds \cup {source} ELSE hiddenIds
      /\ restoredIds' = IF exclude THEN restoredIds \ {source} ELSE restoredIds
      /\ decision' = IF automatic /\ side = "existing"
                     THEN [decision EXCEPT ![r][e] = "existing_removed"] ELSE decision
      /\ automated' = IF automatic THEN [automated EXCEPT ![r] = @ \cup {source}] ELSE automated
      /\ merged' = merged \cup {target}
      /\ UNCHANGED seen

----
(* What else moves a download that is under review. *)

\* downloadCancel of a waiting download: its review is not told.
CancelWaiting(e) ==
  /\ state[e] = "review_required"
  /\ state' = [state EXCEPT ![e] = "cancelled"]
  /\ UNCHANGED <<reviewOf, rstate, decision, revision, seen, hiddenIds, restoredIds, automated,
                 merged>>

\* explorationExclusionsRestore of a gallery a decision hid.
RestoreExcluded(e) ==
  /\ Excluded(e)
  /\ restoredIds' = restoredIds \cup {e}
  /\ UNCHANGED <<state, reviewOf, rstate, decision, revision, seen, hiddenIds, automated, merged>>

Next ==
  \/ \E r \in Reviews : ReviewGet(r)
  \/ \E r \in Reviews : \E e \in ExistingOf[r], a \in Actions, k \in {"human", "batch", "automation"} :
       DecisionApply(r, e, a, k) \/ PairDecision(r, e, a)
  \/ \E r \in Reviews : \E e \in ExistingOf[r], s \in {"existing", "incoming"}, x, m, p \in BOOLEAN :
       Merge(r, e, s, x, m, p)
  \/ \E e \in Entries : CancelWaiting(e) \/ RestoreExcluded(e)

Spec == Init /\ [][Next]_vars

----
(* Properties. *)

\* A download that waits for a review waits for one that can still be
\* decided and that is its own: no decision about another album and no merge
\* leaves it waiting for ever.
WaitingHasReview ==
  \A e \in Entries : state[e] = "review_required" =>
    /\ reviewOf[e] # NoOne
    /\ rstate[reviewOf[e]] = "pending" /\ IncomingOf[reviewOf[e]] = e

\* No review that is still to be decided rests on pages a merge has changed
\* since: the evidence the user is shown is that of the files on disk.
MergeRetiresReviews ==
  \A r \in Reviews : rstate[r] = "pending" => merged \cap ({IncomingOf[r]} \cup ExistingOf[r]) = {}

====
