---- MODULE BrowserProofs ----
(***************************************************************************)
(* Proofs about BrowserMockBackend, the backend of a window outside Tauri: *)
(* the edition reviews and what merges do to them (BrowserReviews),        *)
(* discovery with its runs and exclusions (BrowserScans), and the removal  *)
(* of pages an album holds twice (InternalReview).                         *)
(***************************************************************************)
EXTENDS BrowserScans, Sequences, FiniteSetTheorems, WellFoundedInduction, TLAPS

CONSTANTS Entries, Reviews, Pairs, IncomingOf, ExistingOf, Contained, Covered, Uncensored, NoOne

VARIABLES state, reviewOf, rstate, decision, revision, seen, hiddenIds, restoredIds, automated,
          merged

R == INSTANCE BrowserReviews

----
(* Edition reviews.  That a decision never revives a review rests on what
   the window holds: a review it knows as pending, at the current revision,
   is pending still, because whatever ends a review counts its revision on. *)

ReviewTypes ==
  /\ DOMAIN state = Entries
  /\ reviewOf \in [Entries -> Reviews \cup {NoOne}]
  /\ DOMAIN rstate = Reviews
  /\ revision \in [Reviews -> Nat]
  /\ DOMAIN seen = Reviews
  /\ \A r \in Reviews : seen[r].revision \in Nat

SeenIsOld ==
  \A r \in Reviews :
    /\ seen[r].revision <= revision[r]
    /\ seen[r].pending /\ seen[r].revision = revision[r] => rstate[r] = "pending"

ReviewInv == ReviewTypes /\ SeenIsOld /\ R!WaitingHasReview /\ R!MergeRetiresReviews

LEMMA ReviewInvInit ==
  ASSUME NoOne \notin Reviews, R!Init
  PROVE  ReviewInv
<1>1. ASSUME NEW e \in Entries, e \in R!Waiting
      PROVE  reviewOf[e] \in Reviews /\ IncomingOf[reviewOf[e]] = e
  <2>1. \E r \in Reviews \ Pairs : IncomingOf[r] = e  BY <1>1 DEF R!Waiting
  <2>2. reviewOf[e] = CHOOSE r \in Reviews \ Pairs : IncomingOf[r] = e  BY <1>1 DEF R!Init
  <2> QED BY <2>1, <2>2
<1>2. \A e \in Entries : e \notin R!Waiting => reviewOf[e] = NoOne /\ state[e] = "completed"  BY DEF R!Init
<1>3. DOMAIN reviewOf = Entries /\ reviewOf = [e \in Entries |-> reviewOf[e]]  BY DEF R!Init
<1>4. reviewOf \in [Entries -> Reviews \cup {NoOne}]  BY <1>1, <1>2, <1>3
<1>5. \A r \in Reviews : rstate[r] = "pending" /\ seen[r].revision = 0 /\ revision[r] = 0  BY DEF R!Init
<1>6. ReviewTypes /\ SeenIsOld  BY <1>4, <1>5 DEF R!Init, ReviewTypes, SeenIsOld
<1>7. R!WaitingHasReview  BY <1>1, <1>2, <1>5 DEF R!WaitingHasReview
<1>8. R!MergeRetiresReviews  BY DEF R!MergeRetiresReviews, R!Init
<1> QED BY <1>6, <1>7, <1>8 DEF ReviewInv

(* A decision: the review it is about was pending, and who waits for a review
   that it ends is released with it. *)
LEMMA DecisionKeeps ==
  ASSUME ReviewInv, NEW r \in Reviews, NEW e \in ExistingOf[r], NEW action, NEW actor,
         R!DecisionApply(r, e, action, actor)
  PROVE  ReviewInv'
<1> DEFINE remaining == R!Remaining(r, e, action)
           pending == \E x \in ExistingOf[r] : remaining[x] = "none"
           cancelled == action = "remove_incoming"
           incoming == IncomingOf[r]
           removes == action = "remove_existing_continue"
           chain == IF removes THEN R!Chained(e) ELSE {}
           released == cancelled \/ ~pending
           next(q) == CASE q = r -> IF cancelled THEN "cancelled"
                                    ELSE IF pending THEN "pending" ELSE "resolved"
                        [] q \in chain -> "cancelled"
                        [] OTHER -> rstate[q]
<1>1. /\ seen[r].pending /\ seen[r].revision = revision[r]
      /\ removes => R!ChainIsIntact(r, e)
      /\ rstate' = [q \in Reviews |-> next(q)]
      /\ revision' = [q \in Reviews |-> IF q \in {r} \cup chain THEN revision[q] + 1
                                        ELSE revision[q]]
      /\ state' = [x \in Entries |->
                     CASE x = incoming /\ released -> IF cancelled THEN "cancelled" ELSE "queued"
                       [] removes /\ x = e -> R!RemovedState(e)
                       [] OTHER -> state[x]]
      /\ reviewOf' = [x \in Entries |->
                        IF (x = incoming /\ released)
                           \/ (removes /\ x = e /\ R!RemovedState(e) = "cancelled")
                        THEN NoOne ELSE reviewOf[x]]
      /\ seen' = [seen EXCEPT ![r] = [revision |-> revision'[r], pending |-> rstate'[r] = "pending"]]
      /\ merged' = merged  BY DEF R!DecisionApply, R!ExpectedRevision
<1>2. rstate[r] = "pending"  BY <1>1 DEF ReviewInv, SeenIsOld
<1>3. R!RemovedState(e) # "review_required"  BY DEF R!RemovedState
<1>a. r \notin chain  BY <1>1 DEF R!Chained, R!ChainIsIntact
<1> HIDE DEF remaining, chain
<1>4. /\ \A q \in Reviews : q # r /\ q \notin chain => next(q) = rstate[q]
      /\ \A q \in Reviews : q # r /\ q \in chain => next(q) = "cancelled"
      /\ ~released => next(r) = "pending"
  <2>1. ASSUME NEW q \in Reviews, q # r, q \notin chain PROVE next(q) = rstate[q]  BY <2>1
  <2>2. ASSUME NEW q \in Reviews, q # r, q \in chain PROVE next(q) = "cancelled"  BY <2>2
  <2>3. ASSUME ~released PROVE next(r) = "pending"  BY <1>a, <2>3
  <2> QED BY <2>1, <2>2, <2>3
<1> HIDE DEF next
<1>5. \A q \in Reviews : rstate'[q] = "pending" => rstate[q] = "pending"  BY <1>1, <1>2, <1>4
<1>6. ReviewTypes'
  <2>1. reviewOf' \in [Entries -> Reviews \cup {NoOne}]  BY <1>1 DEF ReviewInv, ReviewTypes
  <2>2. revision' \in [Reviews -> Nat]  BY <1>1 DEF ReviewInv, ReviewTypes
  <2>3. \A q \in Reviews : seen'[q].revision \in Nat  BY <1>1, <2>2 DEF ReviewInv, ReviewTypes
  <2> QED BY <1>1, <2>1, <2>2, <2>3 DEF ReviewInv, ReviewTypes
<1>7. SeenIsOld'
  <2> SUFFICES ASSUME NEW q \in Reviews
               PROVE  /\ seen'[q].revision <= revision'[q]
                      /\ seen'[q].pending /\ seen'[q].revision = revision'[q] =>
                           rstate'[q] = "pending"  BY DEF SeenIsOld
  <2>0. /\ seen[q].revision \in Nat /\ revision[q] \in Nat /\ seen[q].revision <= revision[q]
        /\ seen[q].pending /\ seen[q].revision = revision[q] => rstate[q] = "pending"
        /\ revision'[q] \in Nat  BY <1>6 DEF ReviewInv, SeenIsOld, ReviewTypes
  <2>1. CASE q = r
    <3>1. seen'[q] = [revision |-> revision'[q], pending |-> rstate'[q] = "pending"]
      BY <1>1, <2>1 DEF ReviewInv, ReviewTypes
    <3>2. PICK b : b = (rstate'[q] = "pending")  OBVIOUS
    <3>a. seen'[q] = [revision |-> revision'[q], pending |-> b]  BY <3>1, <3>2
    <3>b. seen'[q].revision = revision'[q] /\ seen'[q].pending = b  BY <3>a
    <3>c. seen'[q].pending => rstate'[q] = "pending"  BY <3>2, <3>b
    <3> QED BY <2>0, <3>b, <3>c
  <2>2. CASE q # r
    <3>1. seen'[q] = seen[q]  BY <1>1, <2>2 DEF ReviewInv, ReviewTypes
    <3>2. CASE q \in chain  BY <1>1, <2>0, <2>2, <3>1, <3>2
    <3>3. CASE q \notin chain  BY <1>1, <1>4, <2>0, <2>2, <3>1, <3>3
    <3> QED BY <3>2, <3>3
  <2> QED BY <2>1, <2>2
<1>8. R!WaitingHasReview'
  <2> SUFFICES ASSUME NEW x \in Entries, state'[x] = "review_required"
               PROVE  /\ reviewOf'[x] # NoOne
                      /\ rstate'[reviewOf'[x]] = "pending" /\ IncomingOf[reviewOf'[x]] = x
    BY DEF R!WaitingHasReview
  <2>1. ~(x = incoming /\ released) /\ ~(removes /\ x = e) /\ state[x] = "review_required"  BY <1>1, <1>3
  <2>2. reviewOf'[x] = reviewOf[x]  BY <1>1, <2>1
  <2>3. /\ reviewOf[x] # NoOne /\ reviewOf[x] \in Reviews
        /\ rstate[reviewOf[x]] = "pending" /\ IncomingOf[reviewOf[x]] = x
    BY <2>1 DEF ReviewInv, R!WaitingHasReview, ReviewTypes
  <2>4. reviewOf[x] = r => ~released  BY <2>1, <2>3
  <2>5. reviewOf[x] \notin chain  BY <1>1, <2>1, <2>3 DEF chain, R!Chained, R!ChainIsIntact
  <2>6. rstate'[reviewOf[x]] = "pending"  BY <1>1, <1>4, <2>3, <2>4, <2>5
  <2> QED BY <2>2, <2>3, <2>6
<1>9. R!MergeRetiresReviews'  BY <1>1, <1>5 DEF ReviewInv, R!MergeRetiresReviews
<1> QED BY <1>6, <1>7, <1>8, <1>9 DEF ReviewInv

(* A decision on a pair: both albums were completed, so neither waits. *)
LEMMA PairDecisionKeeps ==
  ASSUME ReviewInv, NEW r \in Reviews, NEW e \in ExistingOf[r], NEW action,
         R!PairDecision(r, e, action)
  PROVE  ReviewInv'
<1>1. PICK gone, end :
        /\ end # "pending" /\ state[IncomingOf[r]] = "completed"
        /\ rstate' = [rstate EXCEPT ![r] = end] /\ revision' = [revision EXCEPT ![r] = @ + 1]
        /\ seen' = [seen EXCEPT ![r] = [revision |-> revision[r] + 1, pending |-> FALSE]]
        /\ state' = [x \in Entries |-> IF x \in gone THEN "cancelled" ELSE state[x]]
        /\ reviewOf' = [x \in Entries |-> IF x \in gone THEN NoOne ELSE reviewOf[x]]
        /\ merged' = merged  BY DEF R!PairDecision
<1>2. /\ \A q \in Reviews : q # r => rstate'[q] = rstate[q] /\ revision'[q] = revision[q] /\ seen'[q] = seen[q]
      /\ rstate'[r] = end /\ revision[r] \in Nat /\ revision'[r] = revision[r] + 1
      /\ seen'[r].revision = revision[r] + 1 /\ ~seen'[r].pending  BY <1>1 DEF ReviewInv, ReviewTypes
<1>3. ReviewTypes'  BY <1>1, <1>2 DEF ReviewInv, ReviewTypes
<1>4. SeenIsOld'  BY <1>2 DEF ReviewInv, SeenIsOld
<1>5. R!MergeRetiresReviews'  BY <1>1, <1>2 DEF ReviewInv, R!MergeRetiresReviews
<1>6. R!WaitingHasReview'
  <2> SUFFICES ASSUME NEW x \in Entries, state'[x] = "review_required"
               PROVE  /\ reviewOf'[x] # NoOne
                      /\ rstate'[reviewOf'[x]] = "pending" /\ IncomingOf[reviewOf'[x]] = x
    BY DEF R!WaitingHasReview
  <2>1. x \notin gone /\ state[x] = "review_required" /\ reviewOf'[x] = reviewOf[x]  BY <1>1
  <2>2. /\ reviewOf[x] # NoOne /\ reviewOf[x] \in Reviews
        /\ rstate[reviewOf[x]] = "pending" /\ IncomingOf[reviewOf[x]] = x
    BY <2>1 DEF ReviewInv, R!WaitingHasReview, ReviewTypes
  <2>3. reviewOf[x] # r  BY <1>1, <2>1, <2>2
  <2> QED BY <1>2, <2>1, <2>2, <2>3
<1> QED BY <1>3, <1>4, <1>5, <1>6 DEF ReviewInv

(* A merge: every pending review that names the album whose pages change is
   ended, and who waits for one of them is queued again or left out. *)
LEMMA MergeKeeps ==
  ASSUME ReviewInv, NEW r \in Reviews, NEW e \in ExistingOf[r], NEW side,
         NEW exclude \in BOOLEAN, NEW automatic \in BOOLEAN, NEW selected \in BOOLEAN,
         R!Merge(r, e, side, exclude, automatic, selected)
  PROVE  ReviewInv'
<1> DEFINE source == IF side = "existing" THEN e ELSE IncomingOf[r]
           target == IF side = "existing" THEN IncomingOf[r] ELSE e
           affected == R!Affected(target, source, exclude)
           dropped == {q \in affected \ Pairs : exclude /\ IncomingOf[q] = source}
           requeued == R!Requeued(affected \ dropped)
<1>1. /\ rstate' = [q \in Reviews |-> CASE q \in dropped -> "cancelled"
                                       [] q \in affected \ dropped -> "stale"
                                       [] OTHER -> rstate[q]]
      /\ revision' = [q \in Reviews |-> IF q \in affected THEN revision[q] + 1 ELSE revision[q]]
      /\ state' = [x \in Entries |-> CASE exclude /\ x = source -> "cancelled"
                                       [] ~(exclude /\ x = source) /\ x \in requeued -> "queued"
                                       [] OTHER -> state[x]]
      /\ reviewOf' = [x \in Entries |-> IF x \in requeued \/ (exclude /\ x = source)
                                        THEN NoOne ELSE reviewOf[x]]
      /\ merged' = merged \cup {target} /\ seen' = seen  BY DEF R!Merge
<1>2. \A q \in affected : q \in Reviews /\ rstate[q] = "pending"  BY DEF R!Affected
<1>3. \A q \in Reviews : rstate[q] = "pending" /\ target \in {IncomingOf[q]} \cup ExistingOf[q] =>
                           q \in affected  BY DEF R!Affected
<1>4. \A q \in dropped : q \in affected /\ exclude /\ IncomingOf[q] = source  OBVIOUS
<1>5. \A q \in affected \ dropped :
        state[IncomingOf[q]] = "review_required" /\ reviewOf[IncomingOf[q]] = q =>
          IncomingOf[q] \in requeued  BY DEF R!Requeued
<1> HIDE DEF source, target, affected, dropped, requeued
<1>6. /\ \A q \in Reviews : q \notin affected => rstate'[q] = rstate[q]
      /\ \A q \in affected : rstate'[q] \in {"cancelled", "stale"}  BY <1>1, <1>2, <1>4
<1>7. ReviewTypes'  BY <1>1 DEF ReviewInv, ReviewTypes
<1>8. SeenIsOld'
  <2> SUFFICES ASSUME NEW q \in Reviews
               PROVE  /\ seen[q].revision <= revision'[q]
                      /\ seen[q].pending /\ seen[q].revision = revision'[q] =>
                           rstate'[q] = "pending"  BY <1>1 DEF SeenIsOld
  <2>1. /\ seen[q].revision \in Nat /\ revision[q] \in Nat /\ seen[q].revision <= revision[q]
        /\ seen[q].pending /\ seen[q].revision = revision[q] => rstate[q] = "pending"
    BY DEF ReviewInv, SeenIsOld, ReviewTypes
  <2>2. revision'[q] = IF q \in affected THEN revision[q] + 1 ELSE revision[q]  BY <1>1
  <2> QED BY <1>6, <2>1, <2>2
<1>9. R!WaitingHasReview'
  <2> SUFFICES ASSUME NEW x \in Entries, state'[x] = "review_required"
               PROVE  /\ reviewOf'[x] # NoOne
                      /\ rstate'[reviewOf'[x]] = "pending" /\ IncomingOf[reviewOf'[x]] = x
    BY DEF R!WaitingHasReview
  <2>1. ~(exclude /\ x = source) /\ x \notin requeued /\ state[x] = "review_required"  BY <1>1
  <2>2. reviewOf'[x] = reviewOf[x]  BY <1>1, <2>1
  <2>3. /\ reviewOf[x] # NoOne /\ reviewOf[x] \in Reviews
        /\ rstate[reviewOf[x]] = "pending" /\ IncomingOf[reviewOf[x]] = x
    BY <2>1 DEF ReviewInv, R!WaitingHasReview, ReviewTypes
  <2>4. reviewOf[x] \notin affected  BY <1>4, <1>5, <2>1, <2>3
  <2> QED BY <1>6, <2>2, <2>3, <2>4
<1>10. R!MergeRetiresReviews'  BY <1>1, <1>3, <1>6 DEF ReviewInv, R!MergeRetiresReviews
<1> QED BY <1>7, <1>8, <1>9, <1>10 DEF ReviewInv

LEMMA ReviewInvStep ==
  ASSUME ReviewInv, [R!Next]_R!vars
  PROVE  ReviewInv'
<1>1. ASSUME NEW r \in Reviews, R!ReviewGet(r)
      PROVE  ReviewInv'
  <2>1. /\ seen' = [seen EXCEPT ![r] = [revision |-> revision[r],
                                        pending |-> rstate[r] = "pending"]]
        /\ UNCHANGED <<state, reviewOf, rstate, revision, merged>>  BY <1>1 DEF R!ReviewGet
  <2>2. PICK b : b = (rstate[r] = "pending")  OBVIOUS
  <2>3. seen' = [seen EXCEPT ![r] = [revision |-> revision[r], pending |-> b]]  BY <2>1, <2>2
  <2>4. /\ seen'[r].revision = revision[r] /\ seen'[r].pending = b
        /\ \A q \in Reviews : q # r => seen'[q] = seen[q]
        /\ DOMAIN seen' = Reviews  BY <2>3 DEF ReviewInv, ReviewTypes
  <2>5. seen'[r].pending => rstate[r] = "pending"  BY <2>2, <2>4
  <2>6. ReviewTypes'  BY <2>1, <2>4 DEF ReviewInv, ReviewTypes
  <2>7. SeenIsOld'  BY <2>1, <2>4, <2>5, <2>6 DEF ReviewInv, SeenIsOld, ReviewTypes
  <2> QED BY <2>1, <2>6, <2>7 DEF ReviewInv, R!WaitingHasReview, R!MergeRetiresReviews
<1>2. ASSUME NEW e \in Entries, R!CancelWaiting(e)
      PROVE  ReviewInv'
  <2>1. /\ state' = [state EXCEPT ![e] = "cancelled"]
        /\ UNCHANGED <<reviewOf, rstate, revision, seen, merged>>  BY <1>2 DEF R!CancelWaiting
  <2>2. DOMAIN state' = Entries /\ \A x \in Entries : state'[x] \in {state[x], "cancelled"}
    BY <2>1 DEF ReviewInv, ReviewTypes
  <2>3. R!WaitingHasReview'  BY <2>1, <2>2 DEF ReviewInv, R!WaitingHasReview
  <2> QED BY <2>1, <2>2, <2>3 DEF ReviewInv, ReviewTypes, SeenIsOld, R!MergeRetiresReviews
<1>3. ASSUME NEW e \in Entries, R!RestoreExcluded(e)
      PROVE  ReviewInv'
  BY <1>3 DEF R!RestoreExcluded, ReviewInv, ReviewTypes, SeenIsOld, R!MergeRetiresReviews,
              R!WaitingHasReview
<1>4. ASSUME NEW r \in Reviews, NEW e \in ExistingOf[r], NEW a, NEW k, R!DecisionApply(r, e, a, k)
      PROVE  ReviewInv'  BY <1>4, DecisionKeeps
<1>5. ASSUME NEW r \in Reviews, NEW e \in ExistingOf[r], NEW s, NEW x \in BOOLEAN,
             NEW m \in BOOLEAN, NEW p \in BOOLEAN, R!Merge(r, e, s, x, m, p)
      PROVE  ReviewInv'  BY <1>5, MergeKeeps
<1>7. ASSUME NEW r \in Reviews, NEW e \in ExistingOf[r], NEW a, R!PairDecision(r, e, a)
      PROVE  ReviewInv'  BY <1>7, PairDecisionKeeps
<1>6. CASE UNCHANGED R!vars
  BY <1>6 DEF R!vars, ReviewInv, ReviewTypes, SeenIsOld, R!MergeRetiresReviews,
              R!WaitingHasReview
<1> QED BY <1>1, <1>2, <1>3, <1>4, <1>5, <1>6, <1>7 DEF R!Next

(* downloadOverlapDecisionApply and downloadOverlapMerge: a download that
   waits for a review waits for one of its own that can still be decided,
   and no review that is to be decided rests on pages a merge has changed,
   whatever the reviews, the albums they name and the matches found. *)
THEOREM NobodyWaitsForNothing ==
  ASSUME NoOne \notin Reviews
  PROVE  R!Spec => [](R!WaitingHasReview /\ R!MergeRetiresReviews)
<1>1. R!Init => ReviewInv  BY ReviewInvInit
<1>2. ReviewInv /\ [R!Next]_R!vars => ReviewInv'  BY ReviewInvStep
<1>3. ReviewInv => R!WaitingHasReview /\ R!MergeRetiresReviews  BY DEF ReviewInv
<1> QED BY <1>1, <1>2, <1>3, PTL DEF R!Spec

----
(* Discovery.  Timers outlive the run that armed them, so the invariant says
   of every timer that its generation has been reached, and that a run that
   goes on has all and only the timers of the current one.  What duplicate
   decisions hid is kept twice, by the review and by the exploration. *)

ScanTypes ==
  /\ DOMAIN candidates = Galleries /\ DOMAIN saved = Galleries
  /\ exclusions \subseteq Galleries /\ favorites \subseteq Favorites
  /\ {"id", "state", "total", "done", "all"} \subseteq DOMAIN afRun
  /\ afRun.total \in Nat /\ afRun.done \in Nat
  /\ {"stored", "revision", "hid", "series", "resolved"} \subseteq DOMAIN review

OldTimers ==
  /\ afGeneration \in Nat /\ IsFiniteSet(afTimers)
  /\ \A t \in afTimers : t.gen \in Nat /\ t.gen <= afGeneration

HiddenTwice == hidden = review.hid /\ (hidden # {} => review.resolved)

ScanInv ==
  /\ ScanTypes /\ OldTimers /\ HiddenTwice
  /\ RunOwnsItsTimers /\ ExcludedIsNotOffered /\ ShownPairIsCurrent

(* A step that leaves the auto-find run, its timers and the duplicate review
   alone. *)
LEMMA OffersOnly ==
  ASSUME ScanInv, UNCHANGED <<afRun, afTimers, afGeneration, hidden, review, dupShown>>,
         DOMAIN candidates' = Galleries, DOMAIN saved' = Galleries,
         exclusions' \subseteq Galleries, favorites' \subseteq Favorites,
         ExcludedIsNotOffered'
  PROVE  ScanInv'
BY DEF ScanInv, ScanTypes, OldTimers, HiddenTwice, RunOwnsItsTimers, ShownPairIsCurrent,
       NotShown, Running

(* The timers of a run, given the order of the favourites. *)
Armed(gen, order) ==
  {[gen |-> gen, fav |-> f, pos |-> order[f], last |-> order[f] = Cardinality(favorites)]
     : f \in favorites}

(* One timer is armed for every favourite, and one of them is the last. *)
LEMMA OneTimerEach ==
  ASSUME IsFiniteSet(favorites), NEW gen,
         NEW order \in [favorites -> 1 .. Cardinality(favorites)],
         \A f, g \in favorites : f # g => order[f] # order[g]
  PROVE  /\ IsFiniteSet(Armed(gen, order))
         /\ Cardinality(Armed(gen, order)) = Cardinality(favorites)
         /\ \A t \in Armed(gen, order) : t.gen = gen
         /\ favorites # {} => \E t \in Armed(gen, order) : t.last
<1> DEFINE n == Cardinality(favorites)
           tm(f) == [gen |-> gen, fav |-> f, pos |-> order[f], last |-> order[f] = n]
           N == {tm(f) : f \in favorites}
           m == [f \in favorites |-> tm(f)]
<1>1. n \in Nat  BY FS_CardinalityType
<1>2. \A f \in favorites : tm(f).gen = gen /\ tm(f).fav = f  OBVIOUS
<1>3. \A f \in favorites : order[f] = n => tm(f).last  OBVIOUS
<1> HIDE DEF tm
<1>4. m \in [favorites -> N] /\ IsInjective(m) /\ \A t \in N : \E f \in favorites : m[f] = t  BY <1>2 DEF IsInjective
<1>5. m \in Bijection(favorites, N)  BY <1>4 DEF Bijection, Injection, Surjection
<1>6. IsFiniteSet(N) /\ Cardinality(N) = n
  <2>1. ExistsBijection(favorites, N)  BY <1>5 DEF ExistsBijection
  <2> HIDE DEF N
  <2> QED BY <2>1, FS_Bijection
<1>7. \A t \in N : t.gen = gen  BY <1>2
<1>8. ASSUME favorites # {} PROVE \E t \in N : t.last
  <2>1. order \in Injection(favorites, 1 .. n)  BY DEF Injection, IsInjective
  <2>2. IsFiniteSet(1 .. n) /\ Cardinality(1 .. n) = n  BY <1>1, FS_Interval
  <2>3. order \in Surjection(favorites, 1 .. n)  BY <2>1, <2>2, FS_Injection
  <2>4. n # 0  BY <1>8, FS_EmptySet
  <2>5. n \in 1 .. n  BY <1>1, <2>4
  <2>6. PICK f \in favorites : order[f] = n  BY <2>3, <2>5 DEF Surjection
  <2> QED BY <1>3, <2>6
<1>9. Armed(gen, order) = N  BY DEF Armed, tm
<1> HIDE DEF N
<1> QED BY <1>6, <1>7, <1>8, <1>9

(* autoFindRefresh: the timers there are belong to earlier generations. *)
LEMMA RefreshKeeps ==
  ASSUME IsFiniteSet(Favorites), ScanInv, NEW all, AutoFindRefresh(all)
  PROVE  ScanInv'
<1>1. PICK order \in [favorites -> 1 .. Cardinality(favorites)] :
        /\ \A f, g \in favorites : f # g => order[f] # order[g]
        /\ afTimers' = afTimers \cup Armed(afGeneration + 1, order)  BY DEF AutoFindRefresh, Armed
<1> DEFINE N == Armed(afGeneration + 1, order)
           run == [id |-> afRun.id + 1, total |-> Cardinality(favorites), done |-> 0, all |-> all,
                   state |-> IF favorites = {} THEN "completed" ELSE "running"]
<1>2. /\ afTimers' = afTimers \cup N /\ afGeneration' = afGeneration + 1
      /\ afRun' = run /\ candidates' = NoCandidates
      /\ UNCHANGED <<favorites, exclusions, saved, restored, hidden, review, dupShown>>
  BY <1>1 DEF AutoFindRefresh, dvars
<1>3. IsFiniteSet(favorites)  BY FS_Subset DEF ScanInv, ScanTypes
<1>4. /\ IsFiniteSet(N) /\ Cardinality(N) = Cardinality(favorites)
      /\ \A t \in N : t.gen = afGeneration + 1
      /\ favorites # {} => \E t \in N : t.last  BY <1>1, <1>3, OneTimerEach
<1>5. /\ {"id", "state", "total", "done", "all"} \subseteq DOMAIN run
      /\ run.total = Cardinality(favorites) /\ run.done = 0
      /\ run.state = "running" => favorites # {}  OBVIOUS
<1> HIDE DEF N, run
<1>6. Cardinality(favorites) \in Nat  BY <1>3, FS_CardinalityType
<1>7. ScanTypes' /\ HiddenTwice' /\ ShownPairIsCurrent'
  BY <1>2, <1>5, <1>6
     DEF ScanInv, ScanTypes, HiddenTwice, ShownPairIsCurrent, NotShown, NoCandidates
<1>8. OldTimers'
  <2>1. IsFiniteSet(afTimers')  BY <1>2, <1>4, FS_Union DEF ScanInv, OldTimers
  <2> QED BY <1>2, <1>4, <2>1 DEF ScanInv, OldTimers
<1>9. {t \in afTimers' : t.gen = afGeneration'} = N  BY <1>2, <1>4 DEF ScanInv, OldTimers
<1>10. RunOwnsItsTimers'
  <2> SUFFICES ASSUME run.state = "running"
               PROVE  /\ Cardinality(N) = run.total - run.done
                      /\ \E t \in afTimers' : t.gen = afGeneration' /\ t.last
    BY <1>2, <1>9 DEF RunOwnsItsTimers, Running
  <2>1. Cardinality(N) = run.total - run.done  BY <1>4, <1>5, <1>6
  <2>2. PICK t \in N : t.last  BY <1>4, <1>5
  <2> QED BY <1>2, <1>4, <2>1, <2>2
<1>11. ExcludedIsNotOffered'  BY <1>2 DEF ScanInv, ScanTypes, ExcludedIsNotOffered, NoCandidates
<1> QED BY <1>7, <1>8, <1>10, <1>11 DEF ScanInv

(* runAutoFindFixture: a current timer takes the run one step on, the last
   one ends it; a timer of another generation does nothing. *)
LEMMA TimerKeeps ==
  ASSUME ScanInv, NEW t \in afTimers, RunAutoFindFixture(t)
  PROVE  ScanInv'
<1> DEFINE C == {u \in afTimers : u.gen = afGeneration}
<1>1. /\ afTimers' = afTimers \ {t}
      /\ UNCHANGED <<favorites, afGeneration, exclusions, saved, restored, hidden, review,
                     dupShown>>  BY DEF RunAutoFindFixture, dvars
<1>2. IsFiniteSet(afTimers') /\ OldTimers'  BY <1>1, FS_RemoveElement DEF ScanInv, OldTimers
<1>3. {u \in afTimers' : u.gen = afGeneration'} = C \ {t}  BY <1>1
<1>4. IsFiniteSet(C)  BY FS_Subset DEF ScanInv, OldTimers
<1> HIDE DEF C
<1>5. Cardinality(C \ {t}) = IF t \in C THEN Cardinality(C) - 1 ELSE Cardinality(C)  BY <1>4, FS_RemoveElement
<1>6. HiddenTwice' /\ ShownPairIsCurrent'  BY <1>1 DEF ScanInv, HiddenTwice, ShownPairIsCurrent, NotShown
<1>7. CASE ~IsCurrentTimer(t)
  <2>1. UNCHANGED <<candidates, afRun>>  BY <1>7 DEF RunAutoFindFixture
  <2>2. Running(afRun) => t \notin C  BY <1>7 DEF IsCurrentTimer, C
  <2>3. RunOwnsItsTimers'
    <3> SUFFICES ASSUME Running(afRun)
                 PROVE  /\ Cardinality(C \ {t}) = afRun.total - afRun.done
                        /\ \E u \in afTimers' : u.gen = afGeneration' /\ u.last
      BY <1>3, <2>1 DEF RunOwnsItsTimers, Running
    <3>1. C \ {t} = C /\ Cardinality(C) = afRun.total - afRun.done  BY <2>2 DEF ScanInv, RunOwnsItsTimers, C
    <3>2. PICK u \in afTimers : u.gen = afGeneration /\ u.last  BY DEF ScanInv, RunOwnsItsTimers
    <3> QED BY <1>1, <2>2, <3>1, <3>2 DEF C
  <2> QED BY <1>1, <1>2, <1>6, <2>1, <2>3 DEF ScanInv, ScanTypes, ExcludedIsNotOffered
<1>8. CASE IsCurrentTimer(t)
  <2> DEFINE run == [afRun EXCEPT !.done = @ + 1,
                                  !.state = IF t.last \/ afRun.done + 1 >= afRun.total
                                            THEN "completed" ELSE @]
  <2>1. /\ candidates' = [g \in Galleries |-> IF g \in Discovered(t.fav) THEN afRun.id
                                              ELSE candidates[g]]
        /\ afRun' = run  BY <1>8 DEF RunAutoFindFixture
  <2>2. /\ DOMAIN run = DOMAIN afRun /\ run.done = afRun.done + 1 /\ run.total = afRun.total
        /\ run.state = "running" => ~t.last  BY DEF ScanInv, ScanTypes
  <2> HIDE DEF run
  <2>3. ScanTypes'  BY <1>1, <2>1, <2>2 DEF ScanInv, ScanTypes
  <2>4. ExcludedIsNotOffered'  BY <1>1, <2>1 DEF ScanInv, ScanTypes, ExcludedIsNotOffered, Discovered
  <2>5. RunOwnsItsTimers'
    <3> SUFFICES ASSUME run.state = "running"
                 PROVE  /\ Cardinality(C \ {t}) = run.total - run.done
                        /\ \E u \in afTimers' : u.gen = afGeneration' /\ u.last
      BY <1>3, <2>1 DEF RunOwnsItsTimers, Running
    <3>1. /\ t \in C /\ Cardinality(C) = afRun.total - afRun.done
          /\ afRun.total \in Nat /\ afRun.done \in Nat
      BY <1>8 DEF ScanInv, ScanTypes, RunOwnsItsTimers, IsCurrentTimer, C
    <3>2. PICK u \in afTimers : u.gen = afGeneration /\ u.last  BY <1>8 DEF ScanInv, RunOwnsItsTimers, IsCurrentTimer
    <3>3. u # t  BY <2>2, <3>2
    <3> QED BY <1>1, <1>5, <2>2, <3>1, <3>2, <3>3
  <2> QED BY <1>2, <1>6, <2>3, <2>4, <2>5 DEF ScanInv
<1> QED BY <1>7, <1>8

(* A run that is ended or wiped owns no timer. *)
LEMMA RunEnds ==
  ASSUME ScanInv, UNCHANGED <<afTimers, hidden, review, dupShown>>,
         afRun'.state # "running", afRun'.total \in Nat,
         {"id", "state", "total", "done", "all"} \subseteq DOMAIN afRun',
         afRun'.done \in Nat, afGeneration' \in {afGeneration, afGeneration + 1},
         DOMAIN candidates' = Galleries, DOMAIN saved' = Galleries,
         exclusions' \subseteq Galleries, favorites' \subseteq Favorites,
         ExcludedIsNotOffered'
  PROVE  ScanInv'
<1>1. ScanTypes' /\ OldTimers'  BY DEF ScanInv, ScanTypes, OldTimers
<1>2. HiddenTwice' /\ ShownPairIsCurrent' /\ RunOwnsItsTimers'
  BY DEF ScanInv, HiddenTwice, ShownPairIsCurrent, RunOwnsItsTimers, Running, NotShown
<1> QED BY <1>1, <1>2 DEF ScanInv

(* duplicateDecisionApply: what it hides is hidden by the review as well, and
   resolves it. *)
LEMMA DuplicateDecisionKeeps ==
  ASSUME ScanInv, NEW action, NEW target, DuplicateDecisionApply(action, target)
  PROVE  ScanInv'
<1> DEFINE hides == CASE action = "hide_parent" -> {Parent}
                      [] action = "hide_candidate" -> {Child}
                      [] OTHER -> {}
           ends == action \in {"hide_parent", "hide_candidate", "exclude_pair"}
<1>1. /\ review' = [review EXCEPT
             !.revision = @ + 1,
             !.hid = @ \cup hides,
             !.resolved = @ \/ action \in {"hide_parent", "hide_candidate", "exclude_pair"},
             !.series = CASE action = "series_link" -> @ \cup {Parent, Child}
                          [] action = "series_unlink" -> @ \ {target}
                          [] OTHER -> @]
      /\ hidden' = hidden \cup hides
      /\ dupShown' = ShownAfter(action, review.revision + 1)
      /\ UNCHANGED <<favorites, candidates, saved, exclusions, afRun, afTimers, afGeneration>>
  BY DEF DuplicateDecisionApply, avars
<1>2. hides # {} => ends  OBVIOUS
<1> HIDE DEF hides
<1>3. /\ DOMAIN review' = DOMAIN review /\ review'.revision = review.revision + 1
      /\ review'.hid = review.hid \cup hides  BY <1>1 DEF ScanInv, ScanTypes
<1>4. PICK b : b = (review.resolved \/ ends)  OBVIOUS
<1>5. review'.resolved = b  BY <1>1, <1>4 DEF ScanInv, ScanTypes
<1>6. review'.resolved <=> review.resolved \/ ends  BY <1>4, <1>5
<1>7. ScanTypes' /\ OldTimers'  BY <1>1, <1>3 DEF ScanInv, ScanTypes, OldTimers
<1>8. HiddenTwice'  BY <1>1, <1>2, <1>3, <1>6 DEF ScanInv, HiddenTwice
<1>9. ShownPairIsCurrent'  BY <1>1, <1>3, <1>6 DEF ScanInv, ShownPairIsCurrent, ShownAfter, NotShown
<1>10. RunOwnsItsTimers' /\ ExcludedIsNotOffered'
  BY <1>1 DEF ScanInv, RunOwnsItsTimers, Running, ExcludedIsNotOffered
<1> QED BY <1>7, <1>8, <1>9, <1>10 DEF ScanInv

(* advanceDuplicateScanFixture: a completed scan shows the pair it stored only
   while it is undecided. *)
LEMMA DuplicateTimerKeeps ==
  ASSUME ScanInv, NEW t, AdvanceDuplicateScanFixture(t)
  PROVE  ScanInv'
<1>1. UNCHANGED <<favorites, candidates, saved, exclusions, afRun, afTimers, afGeneration, hidden>>
  BY DEF AdvanceDuplicateScanFixture, avars
<1>2. \/ UNCHANGED <<review, dupShown>>
      \/ /\ review' = [review EXCEPT !.stored = TRUE]
         /\ dupShown' = IF review.resolved THEN NotShown ELSE review.revision
  BY DEF AdvanceDuplicateScanFixture
<1>3. /\ DOMAIN review' = DOMAIN review /\ review'.hid = review.hid
      /\ review'.resolved = review.resolved /\ review'.revision = review.revision
  BY <1>2 DEF ScanInv, ScanTypes
<1>4. ScanTypes' /\ OldTimers' /\ HiddenTwice'  BY <1>1, <1>3 DEF ScanInv, ScanTypes, OldTimers, HiddenTwice
<1>5. ShownPairIsCurrent'  BY <1>2, <1>3 DEF ScanInv, ShownPairIsCurrent, NotShown
<1>6. RunOwnsItsTimers' /\ ExcludedIsNotOffered'  BY <1>1 DEF ScanInv, RunOwnsItsTimers, Running, ExcludedIsNotOffered
<1> QED BY <1>4, <1>5, <1>6 DEF ScanInv

LEMMA ScanInvInit == Init => ScanInv
<1> SUFFICES ASSUME Init PROVE ScanInv  OBVIOUS
<1>1. ScanTypes /\ OldTimers  BY FS_EmptySet DEF Init, ScanTypes, OldTimers, NoRun, NoReview, NoCandidates
<1>2. HiddenTwice /\ RunOwnsItsTimers /\ ExcludedIsNotOffered /\ ShownPairIsCurrent
  BY DEF Init, HiddenTwice, NoReview, RunOwnsItsTimers, Running, NoRun, ExcludedIsNotOffered,
         ShownPairIsCurrent
<1> QED BY <1>1, <1>2 DEF ScanInv

LEMMA ScanInvStep ==
  ASSUME IsFiniteSet(Favorites), ScanInv, [Next]_vars
  PROVE  ScanInv'
<1> USE DEF ScanInv
<1>1. ASSUME NEW f \in Favorites, FavoriteSet(f) PROVE ScanInv'
  <2>1. /\ favorites' \subseteq Favorites
        /\ UNCHANGED <<candidates, saved, exclusions, afRun, afTimers, afGeneration, hidden,
                       review, dupShown>>  BY <1>1 DEF FavoriteSet, ScanTypes, avars, dvars
  <2> QED BY <2>1, OffersOnly DEF ScanTypes, ExcludedIsNotOffered
<1>2. ASSUME NEW g \in Galleries, QueueDownload(g) PROVE ScanInv'
  <2>1. UNCHANGED <<favorites, candidates, saved, exclusions, afRun, afTimers, afGeneration,
                    hidden, review, dupShown>>  BY <1>2 DEF QueueDownload, avars, dvars
  <2> QED BY <2>1, OffersOnly DEF ScanTypes, ExcludedIsNotOffered
<1>3. ASSUME NEW g \in Galleries, AutoFindExclude(g) PROVE ScanInv'
  <2>1. /\ candidates' = [candidates EXCEPT ![g] = 0] /\ exclusions' = exclusions \cup {g}
        /\ DOMAIN saved' = Galleries
        /\ UNCHANGED <<favorites, afRun, afTimers, afGeneration, hidden, review, dupShown>>
    BY <1>3 DEF AutoFindExclude, ScanTypes, dvars
  <2>2. ExcludedIsNotOffered'  BY <2>1 DEF ScanTypes, ExcludedIsNotOffered
  <2> QED BY <2>1, <2>2, OffersOnly DEF ScanTypes
<1>4. ASSUME NEW g \in Galleries, ExclusionsRestore(g) PROVE ScanInv'
  <2>1. /\ exclusions' = exclusions \ {g}
        /\ DOMAIN candidates' = Galleries /\ DOMAIN saved' = Galleries
        /\ \A h \in Galleries : h # g => candidates'[h] = candidates[h]
        /\ UNCHANGED <<favorites, afRun, afTimers, afGeneration, hidden, review, dupShown>>
    BY <1>4 DEF ExclusionsRestore, ScanTypes, dvars
  <2>2. ExcludedIsNotOffered'  BY <2>1 DEF ScanTypes, ExcludedIsNotOffered
  <2> QED BY <2>1, <2>2, OffersOnly DEF ScanTypes
<1>5. ASSUME NEW all \in BOOLEAN, AutoFindRefresh(all) PROVE ScanInv'  BY <1>5, RefreshKeeps
<1>6. ASSUME NEW t \in afTimers, RunAutoFindFixture(t) PROVE ScanInv'  BY <1>6, TimerKeeps
<1>7. CASE AutoFindCancel
  <2>1. /\ afRun' = [afRun EXCEPT !.state = "cancelled"] /\ afGeneration' = afGeneration + 1
        /\ UNCHANGED <<favorites, candidates, saved, exclusions, afTimers, hidden, review, dupShown>>
    BY <1>7 DEF AutoFindCancel, dvars
  <2>2. /\ afRun'.state # "running" /\ DOMAIN afRun' = DOMAIN afRun /\ afRun'.total \in Nat
        /\ afRun'.done \in Nat  BY <2>1 DEF ScanTypes
  <2> QED BY <2>1, <2>2, RunEnds DEF ScanTypes, ExcludedIsNotOffered
<1>8. ASSUME NEW ids, DuplicateScanStart(ids) PROVE ScanInv'
  <2>1. UNCHANGED <<favorites, candidates, saved, exclusions, afRun, afTimers, afGeneration,
                    hidden, review, dupShown>>  BY <1>8 DEF DuplicateScanStart, avars
  <2> QED BY <2>1, OffersOnly DEF ScanTypes, ExcludedIsNotOffered
<1>9. ASSUME NEW t, AdvanceDuplicateScanFixture(t) PROVE ScanInv'  BY <1>9, DuplicateTimerKeeps
<1>10. CASE DuplicateScanCancel
  <2>1. UNCHANGED <<favorites, candidates, saved, exclusions, afRun, afTimers, afGeneration,
                    hidden, review, dupShown>>  BY <1>10 DEF DuplicateScanCancel, avars
  <2> QED BY <2>1, OffersOnly DEF ScanTypes, ExcludedIsNotOffered
<1>11. ASSUME NEW a, NEW g, DuplicateDecisionApply(a, g) PROVE ScanInv'  BY <1>11, DuplicateDecisionKeeps
<1>12. CASE ExplorationDataReset \/ FactoryReset
  <2>1. /\ favorites' = {} /\ exclusions' = {} /\ DOMAIN saved' = Galleries
        /\ DOMAIN candidates' = Galleries /\ afRun' = [NoRun EXCEPT !.id = afRun.id]
        /\ UNCHANGED <<afTimers, hidden, review, dupShown>>
        /\ afGeneration' \in {afGeneration, afGeneration + 1}
    BY <1>12 DEF ExplorationDataReset, FactoryReset, dvars, NoCandidates
  <2>2. /\ afRun'.state # "running" /\ afRun'.total \in Nat /\ afRun'.done \in Nat
        /\ {"id", "state", "total", "done", "all"} \subseteq DOMAIN afRun'  BY <2>1 DEF NoRun
  <2> QED BY <2>1, <2>2, RunEnds DEF ScanTypes, ExcludedIsNotOffered
<1>13. CASE UNCHANGED vars
  <2>1. UNCHANGED <<favorites, candidates, saved, exclusions, afRun, afTimers, afGeneration,
                    hidden, review, dupShown>>  BY <1>13 DEF vars, avars, dvars
  <2> QED BY <2>1, OffersOnly DEF ScanTypes, ExcludedIsNotOffered
<1> QED BY <1>1, <1>2, <1>3, <1>4, <1>5, <1>6, <1>7, <1>8, <1>9, <1>10, <1>11, <1>12, <1>13 DEF Next

(* The four things discovery promises at any time. *)
DiscoveryIsConsistent ==
  RunOwnsItsTimers /\ ExcludedIsNotOffered /\ HiddenIsListed /\ ShownPairIsCurrent

(* Whatever runs were started, cancelled or wiped: a run that goes on is as
   far from its end as it has timers left, an excluded work is not offered,
   what is left out is in the list that restores it, and a duplicate pair is
   shown only undecided and at the revision a decision has to name. *)
THEOREM DiscoveryStaysConsistent ==
  ASSUME IsFiniteSet(Favorites)
  PROVE  Spec => []DiscoveryIsConsistent
<1>1. ScanInv => DiscoveryIsConsistent
  <2> SUFFICES ASSUME ScanInv PROVE HiddenIsListed  BY DEF ScanInv, DiscoveryIsConsistent
  <2> QED BY DEF ScanInv, HiddenTwice, HiddenIsListed, Listed, IsDuplicateExplorationExcluded
<1>2. ScanInv /\ [Next]_vars => ScanInv'  BY ScanInvStep
<1> QED BY <1>1, <1>2, ScanInvInit, PTL DEF Spec

----
(* Pages an album holds twice (InternalReview).  A page goes into quarantine
   by a plan, and of one scan a row is decided by one plan at a time, because
   a plan is only accepted at the revision its rows have: they are to be
   decided as long as their revision is even.  That fails, and is left out,
   once a record is restored after a further scan: revisions begin again with
   each scan, and the restoring counts rows up that were never decided. *)

CONSTANTS Albums, Rows, Evidence, MaxPlans, MaxScans, MaxReads, None

VARIABLES edition, found, records, plans, scan, timers, generation, dialog, reads, call

I == INSTANCE InternalReview

(* Rows have identifiers and pages of their own, and a page to keep. *)
RowsApart ==
  /\ \A r, s \in Rows : r.id = s.id => r = s
  /\ \A r, s \in Rows : r.pages \cap s.pages # {} => r = s
  /\ \A r \in Rows : r.keep \in r.pages
NoneIsNoReview == {"kind", "how", "revs", "picks"} \cap DOMAIN None = {}

Even(n) == n % 2 = 0
Late == \E r \in records : r.state = "restored late"
UsedPlans == {r.plan : r \in records}

(* Records of one plan are read, and restored, together. *)
KnownRecords(rs) ==
  /\ \A r \in rs : r.plan \in UsedPlans
  /\ \A r, q \in I!Active(records) : r.plan = q.plan => (r \in rs <=> q \in rs)

(* A review, of whatever age.  What it shows to be decided has an even revision. *)
GoodReview(v) ==
  /\ {"entry", "revs", "records"} \subseteq DOMAIN v
  /\ \A id \in DOMAIN v.revs : id \in I!AllIds /\ v.revs[id] \in Nat /\ (Late \/ Even(v.revs[id]))
  /\ KnownRecords(v.records)

GoodPicks(ps) ==
  /\ \A s \in ps : s.row \in I!AllIds /\ s.rev \in Nat /\ (Late \/ Even(s.rev))
  /\ \A s, t \in ps : s.row = t.row => s = t

GoodPlan(p) ==
  /\ DOMAIN p = {"album", "picks"} /\ GoodPicks(p.picks)
  /\ \A s \in p.picks : /\ I!Row(s.row).album = p.album
                        /\ s.keep \in I!Row(s.row).pages /\ s.remove \subseteq I!Row(s.row).pages \ {s.keep}

(* A plan that was accepted and not carried out: its rows are to be decided. *)
LastOf(p, i) == i \in DOMAIN plans /\ plans[i] = p /\ \A j \in DOMAIN plans : plans[j] = p => j <= i
Waiting(p) ==
  /\ \E i \in DOMAIN plans : plans[i] = p
  /\ \A i \in DOMAIN plans : LastOf(p, i) => i \notin UsedPlans
  /\ Late \/ \A s \in p.picks : ~found[s.row].resolved

RowFields == {"rev", "resolved", "scan"}
RecordFields == {"page", "album", "plan", "state", "scan", "rev"}
DialogFields == {"entry", "review", "plan", "error", "token", "keep", "chosen"}

FoundKnown ==
  /\ DOMAIN found = I!AllIds /\ generation \in Nat /\ DOMAIN scan = {"state", "albums", "progress"}
  /\ \A id \in I!AllIds :
       /\ DOMAIN found[id] = RowFields /\ found[id].rev \in Nat /\ found[id].scan \in Nat
       /\ found[id].scan <= generation /\ (scan.state = "running" => found[id].scan < generation)
       /\ Late \/ (found[id].resolved <=> ~Even(found[id].rev))
  /\ \A i, j \in I!AllIds : I!Row(i).album = I!Row(j).album => found[i].scan = found[j].scan

RecordsKnown ==
  /\ \A r \in records :
       /\ DOMAIN r = RecordFields /\ r.plan \in DOMAIN plans
       /\ r.scan \in Nat /\ r.scan <= generation /\ (scan.state = "running" => r.scan < generation)
       /\ r.album = plans[r.plan].album /\ \E s \in plans[r.plan].picks : r.page \in s.remove
  /\ \A r, q \in records : r.plan = q.plan /\ r.page = q.page => r = q

(* Of one scan a row is decided by one plan at a time. *)
OnePlan ==
  Late \/
  \A r, q \in I!Active(records) :
    /\ \A s \in plans[r.plan].picks : found[s.row].scan = r.scan => found[s.row].resolved
    /\ \A s \in plans[r.plan].picks, t \in plans[q.plan].picks :
         s.row = t.row /\ r.scan = q.scan => r.plan = q.plan

PlansKnown == (\E S : plans \in Seq(S)) /\ \A i \in DOMAIN plans : GoodPlan(plans[i])

Applied == call # None /\ call.kind = "apply" /\ call.got # None /\ call.got.how = "ok"

DialogKnown ==
  /\ DOMAIN dialog = DialogFields /\ DOMAIN dialog.keep = I!AllIds
  /\ \A id \in I!AllIds : dialog.keep[id] \in I!Row(id).pages
  /\ dialog.review # None => GoodReview(dialog.review)
  /\ dialog.plan # None => Waiting(dialog.plan) \/ Applied

ReadsKnown == \A r \in reads : DOMAIN r = {"token", "entry", "got"} /\ (r.got # None => GoodReview(r.got))

CallKnown ==
  call # None =>
    /\ DOMAIN call = {"kind", "arg", "of", "got"}
    /\ call.got # None => DOMAIN call.got = {"how", "review"}
    /\ call.got # None /\ call.kind \in {"apply", "undo"} /\ call.got.how # "refused" => GoodReview(call.got.review)
    /\ call.kind = "plan" => GoodPicks(call.arg.picks) /\ DOMAIN call.arg = {"album", "picks"}
    /\ call.kind = "plan" /\ call.got # None /\ call.got.how = "ok" => Waiting(call.arg)
    /\ call.kind = "apply" /\ call.got = None => Waiting(call.arg)
    /\ call.kind = "undo" => KnownRecords(call.arg) /\ \A r \in call.arg : r.state = "quarantined"

RemovalInv ==
  FoundKnown /\ RecordsKnown /\ OnePlan /\ PlansKnown /\ DialogKnown /\ ReadsKnown /\ CallKnown

----
LEMMA RowFacts ==
  ASSUME RowsApart
  PROVE  /\ \A id \in I!AllIds : I!Row(id) \in Rows /\ I!Row(id).id = id /\ I!Row(id).keep \in I!Row(id).pages
         /\ \A i, j \in I!AllIds : I!Row(i).pages \cap I!Row(j).pages # {} => i = j
<1>1. \A id \in I!AllIds : I!Row(id) \in Rows /\ I!Row(id).id = id  BY DEF I!AllIds, I!Row
<1>2. \A i, j \in I!AllIds : I!Row(i).pages \cap I!Row(j).pages # {} => i = j
  <2> SUFFICES ASSUME NEW i \in I!AllIds, NEW j \in I!AllIds, I!Row(i).pages \cap I!Row(j).pages # {} PROVE i = j
    OBVIOUS
  <2>1. PICK r, s : r = I!Row(i) /\ s = I!Row(j)  OBVIOUS
  <2>2. r = s  BY <1>1, <2>1 DEF RowsApart
  <2> QED BY <1>1, <2>1, <2>2
<1>3. \A id \in I!AllIds : I!Row(id).keep \in I!Row(id).pages  BY <1>1 DEF RowsApart
<1> QED BY <1>1, <1>2, <1>3

(* The window's steps leave the backend as it is. *)
LEMMA WindowStep ==
  ASSUME RemovalInv, UNCHANGED <<found, records, plans, scan, generation>>, DialogKnown', ReadsKnown', CallKnown'
  PROVE  RemovalInv'
<1>1. FoundKnown'  BY DEF RemovalInv, FoundKnown, Late
<1>2. RecordsKnown'  BY DEF RemovalInv, RecordsKnown
<1>3. OnePlan'
  <2>1. I!Active(records)' = I!Active(records) /\ (Late' <=> Late)  BY DEF Late, I!Active
  <2>2. CASE Late  BY <2>1, <2>2 DEF OnePlan
  <2>3. CASE ~Late
    <3> SUFFICES ASSUME NEW r \in I!Active(records), NEW q \in I!Active(records)
                 PROVE  /\ \A s \in plans[r.plan].picks : found[s.row].scan = r.scan => found[s.row].resolved
                        /\ \A s \in plans[r.plan].picks, t \in plans[q.plan].picks :
                             s.row = t.row /\ r.scan = q.scan => r.plan = q.plan  BY <2>1 DEF OnePlan
    <3> QED BY <2>3 DEF RemovalInv, OnePlan
  <2> QED BY <2>2, <2>3
<1>4. PlansKnown'  BY DEF RemovalInv, PlansKnown, GoodPlan, GoodPicks, Late
<1> QED BY <1>1, <1>2, <1>3, <1>4 DEF RemovalInv

LEMMA SameForAll ==
  ASSUME UNCHANGED <<found, records, plans>>
  PROVE  /\ \A v : GoodReview(v) => GoodReview(v)'
         /\ \A p : Waiting(p) => Waiting(p)'
         /\ \A ps : GoodPicks(ps) => GoodPicks(ps)'
         /\ \A rs : KnownRecords(rs) => KnownRecords(rs)'
<1>1. \A rs : KnownRecords(rs) => KnownRecords(rs)'  BY DEF KnownRecords, UsedPlans, I!Active
<1>2. \A v : GoodReview(v) => GoodReview(v)'  BY <1>1 DEF GoodReview, Late
<1>3. \A p : Waiting(p) => Waiting(p)'  BY DEF Waiting, LastOf, UsedPlans, Late
<1>4. \A ps : GoodPicks(ps) => GoodPicks(ps)'  BY DEF GoodPicks, Late
<1> QED BY <1>1, <1>2, <1>3, <1>4

(* What a part of the next state is worth. *)
LEMMA ReadAs ==
  /\ \A v : v = dialog'.review /\ GoodReview(v)' => GoodReview(dialog.review)'
  /\ \A p : p = dialog'.plan /\ Waiting(p)' => Waiting(dialog.plan)'
  /\ \A v : v = call'.got.review /\ GoodReview(v)' => GoodReview(call.got.review)'
  /\ \A p : p = call'.arg /\ Waiting(p)' => Waiting(call.arg)'
  /\ \A ps : ps = call'.arg.picks /\ GoodPicks(ps)' => GoodPicks(call.arg.picks)'
  /\ \A rs : rs = call'.arg /\ KnownRecords(rs)' => KnownRecords(call.arg)'
<1>1. \A v : v = dialog'.review /\ GoodReview(v)' => GoodReview(dialog.review)'  BY DEF GoodReview, KnownRecords
<1>2. \A p : p = dialog'.plan /\ Waiting(p)' => Waiting(dialog.plan)'  BY DEF Waiting, LastOf
<1>3. \A v : v = call'.got.review /\ GoodReview(v)' => GoodReview(call.got.review)'  BY DEF GoodReview, KnownRecords
<1>4. \A p : p = call'.arg /\ Waiting(p)' => Waiting(call.arg)'  BY DEF Waiting, LastOf
<1>5. \A ps : ps = call'.arg.picks /\ GoodPicks(ps)' => GoodPicks(call.arg.picks)'  BY DEF GoodPicks
<1>6. \A rs : rs = call'.arg /\ KnownRecords(rs)' => KnownRecords(call.arg)'  BY DEF KnownRecords
<1> QED BY <1>1, <1>2, <1>3, <1>4, <1>5, <1>6

LEMMA DialogStays ==
  ASSUME DialogKnown, UNCHANGED <<found, records, plans>>, DOMAIN dialog' = DialogFields,
         dialog'.keep = dialog.keep, dialog'.review \in {dialog.review, None},
         dialog'.plan # None => dialog'.plan = dialog.plan /\ UNCHANGED call
  PROVE  DialogKnown'
<1>1. dialog'.review # None => GoodReview(dialog.review)'  BY SameForAll, ReadAs DEF DialogKnown
<1>2. dialog'.plan # None => Waiting(dialog.plan)' \/ Applied'  BY SameForAll, ReadAs DEF DialogKnown, Applied
<1> QED BY <1>1, <1>2 DEF DialogKnown

LEMMA CallStays ==
  ASSUME CallKnown, UNCHANGED <<found, records, plans, call>>
  PROVE  CallKnown'
<1>1. CASE call = None  BY <1>1 DEF CallKnown
<1>2. CASE call # None
  <2>1. call'.got # None /\ call'.kind \in {"apply", "undo"} /\ call'.got.how # "refused" => GoodReview(call.got.review)'
    BY <1>2, SameForAll, ReadAs DEF CallKnown
  <2>2. call'.kind = "plan" => GoodPicks(call.arg.picks)' /\ DOMAIN call'.arg = {"album", "picks"}
    BY <1>2, SameForAll, ReadAs DEF CallKnown
  <2>3. /\ call'.kind = "plan" /\ call'.got # None /\ call'.got.how = "ok" => Waiting(call.arg)'
        /\ call'.kind = "apply" /\ call'.got = None => Waiting(call.arg)'
    BY <1>2, SameForAll, ReadAs DEF CallKnown
  <2>4. call'.kind = "undo" => KnownRecords(call.arg)' /\ \A r \in call'.arg : r.state = "quarantined"
    BY <1>2, SameForAll, ReadAs DEF CallKnown
  <2> QED BY <1>2, <2>1, <2>2, <2>3, <2>4 DEF CallKnown
<1> QED BY <1>1, <1>2

LEMMA ReadsStay ==
  ASSUME ReadsKnown, UNCHANGED <<found, records, plans>>,
         \A r \in reads' : r \in reads \/ (DOMAIN r = {"token", "entry", "got"} /\ (r.got # None => GoodReview(r.got)))
  PROVE  ReadsKnown'
<1> SUFFICES ASSUME NEW r \in reads' PROVE DOMAIN r = {"token", "entry", "got"} /\ (r.got # None => GoodReview(r.got)')
  BY DEF ReadsKnown
<1>1. PICK v : v = r.got  OBVIOUS
<1>2. DOMAIN r = {"token", "entry", "got"} /\ (v # None => GoodReview(v))  BY <1>1 DEF ReadsKnown
<1>3. v # None => GoodReview(v)'  BY <1>2, SameForAll
<1> QED BY <1>1, <1>2, <1>3

----
(* Steps of the scan. *)

LEMMA PlansStay ==
  ASSUME PlansKnown, UNCHANGED plans, Late => Late'
  PROVE  PlansKnown'  BY DEF PlansKnown, GoodPlan, GoodPicks

(* A completed scan gives every row of its albums to be decided once more. *)
LEMMA StillWaiting ==
  ASSUME UNCHANGED <<records, plans>>, FoundKnown,
         \A id \in I!AllIds : found'[id].resolved => found[id].resolved,
         NEW p, \A s \in p.picks : s.row \in I!AllIds, Waiting(p)
  PROVE  Waiting(p)'  BY DEF Waiting, LastOf, UsedPlans, Late

LEMMA WaitingIsGood ==
  ASSUME PlansKnown, NEW p, Waiting(p)
  PROVE  GoodPlan(p) /\ \A s \in p.picks : s.row \in I!AllIds
<1>1. PICK i \in DOMAIN plans : plans[i] = p  BY DEF Waiting
<1>2. GoodPlan(plans[i])  BY DEF PlansKnown
<1> QED BY <1>1, <1>2 DEF GoodPlan, GoodPicks

LEMMA ScanMoves ==
  ASSUME RemovalInv, UNCHANGED <<found, records, plans, dialog, reads, call>>,
         DOMAIN scan' = {"state", "albums", "progress"}, generation' \in Nat, generation' >= generation,
         scan'.state = "running" => scan.state = "running" \/ generation' > generation
  PROVE  RemovalInv'
<1>1. FoundKnown'
  <2>1. (Late' <=> Late) /\ FoundKnown /\ generation \in Nat  BY DEF Late, RemovalInv, FoundKnown
  <2>2. \A n \in Nat : /\ n <= generation => n <= generation'
                       /\ (scan.state = "running" => n < generation) /\ n <= generation
                          => (scan'.state = "running" => n < generation')  BY <2>1
  <2>3. \A id \in I!AllIds :
          /\ DOMAIN found[id] = RowFields /\ found[id].rev \in Nat /\ found[id].scan \in Nat
          /\ found[id].scan <= generation' /\ (scan'.state = "running" => found[id].scan < generation')
          /\ Late \/ (found[id].resolved <=> ~Even(found[id].rev))  BY <2>1, <2>2 DEF FoundKnown
  <2>4. \A i, j \in I!AllIds : I!Row(i).album = I!Row(j).album => found[i].scan = found[j].scan
    BY <2>1 DEF FoundKnown
  <2>5. DOMAIN found = I!AllIds  BY <2>1 DEF FoundKnown
  <2> QED BY <2>1, <2>3, <2>4, <2>5 DEF FoundKnown
<1>2. RecordsKnown'  BY DEF RemovalInv, FoundKnown, RecordsKnown
<1>3. OnePlan'
  <2>1. I!Active(records)' = I!Active(records) /\ (Late' <=> Late)  BY DEF Late, I!Active
  <2>2. CASE Late  BY <2>1, <2>2 DEF OnePlan
  <2>3. CASE ~Late
    <3> SUFFICES ASSUME NEW r \in I!Active(records), NEW q \in I!Active(records)
                 PROVE  /\ \A s \in plans[r.plan].picks : found[s.row].scan = r.scan => found[s.row].resolved
                        /\ \A s \in plans[r.plan].picks, t \in plans[q.plan].picks :
                             s.row = t.row /\ r.scan = q.scan => r.plan = q.plan  BY <2>1 DEF OnePlan
    <3> QED BY <2>3 DEF RemovalInv, OnePlan
  <2> QED BY <2>2, <2>3
<1>4. PlansKnown'  BY PlansStay DEF RemovalInv, Late
<1>5. DialogKnown'
  <2>1. DialogKnown /\ DOMAIN dialog = DialogFields  BY DEF RemovalInv, DialogKnown
  <2> QED BY <2>1, DialogStays
<1>6. ReadsKnown'
  <2>1. ReadsKnown /\ \A r \in reads : r \in reads'  BY DEF RemovalInv
  <2> QED BY <2>1, ReadsStay
<1>7. CallKnown'  BY CallStays DEF RemovalInv
<1> QED BY <1>1, <1>2, <1>3, <1>4, <1>5, <1>6, <1>7 DEF RemovalInv

(* The rows of an album are found again. *)
FoundAgain(as) ==
  /\ DOMAIN found' = I!AllIds
  /\ \A id \in I!AllIds :
       /\ I!Row(id).album \in as => /\ DOMAIN found'[id] = RowFields /\ found'[id].rev = 0
                                     /\ ~found'[id].resolved /\ found'[id].scan = generation
       /\ I!Row(id).album \notin as => found'[id] = found[id]

LEMMA ScanEnds ==
  ASSUME RowsApart, RemovalInv, scan.state = "running", UNCHANGED <<records, plans, generation, dialog, reads, call>>,
         scan' = [state |-> "completed", albums |-> {}, progress |-> 0],
         NEW as, FoundAgain(as)
  PROVE  RemovalInv'
<1>1. Late' <=> Late  BY DEF Late
<1>2. \A id \in I!AllIds :
        /\ I!Row(id).album \in as => /\ DOMAIN found'[id] = RowFields /\ found'[id].rev = 0
                                      /\ ~found'[id].resolved /\ found'[id].scan = generation
        /\ I!Row(id).album \notin as => found'[id] = found[id]  BY DEF FoundAgain
<1>3. \A id \in I!AllIds : found'[id].resolved => found[id].resolved  BY <1>2
<1>4. DOMAIN found' = I!AllIds  BY DEF FoundAgain
<1>5. FoundKnown'
  <2>1. \A id \in I!AllIds :
          /\ DOMAIN found'[id] = RowFields /\ found'[id].rev \in Nat /\ found'[id].scan \in Nat
          /\ found'[id].scan <= generation /\ (Late \/ (found'[id].resolved <=> ~Even(found'[id].rev)))
    <3> SUFFICES ASSUME NEW id \in I!AllIds
                 PROVE  /\ DOMAIN found'[id] = RowFields /\ found'[id].rev \in Nat /\ found'[id].scan \in Nat
                        /\ found'[id].scan <= generation /\ (Late \/ (found'[id].resolved <=> ~Even(found'[id].rev)))
      OBVIOUS
    <3>1. generation \in Nat /\ Even(0)  BY DEF RemovalInv, FoundKnown, Even
    <3>2. CASE I!Row(id).album \in as
      <4>1. /\ DOMAIN found'[id] = RowFields /\ found'[id].rev = 0
            /\ ~found'[id].resolved /\ found'[id].scan = generation  BY <1>2, <3>2
      <4>2. Even(found'[id].rev)  BY <3>1, <4>1
      <4> QED BY <3>1, <4>1, <4>2
    <3>3. CASE I!Row(id).album \notin as  BY <1>2, <3>3 DEF RemovalInv, FoundKnown
    <3> QED BY <3>2, <3>3
  <2>2. \A i, j \in I!AllIds : I!Row(i).album = I!Row(j).album => found'[i].scan = found'[j].scan
    <3> SUFFICES ASSUME NEW i \in I!AllIds, NEW j \in I!AllIds, I!Row(i).album = I!Row(j).album
                 PROVE  found'[i].scan = found'[j].scan  OBVIOUS
    <3>1. found[i].scan = found[j].scan  BY DEF RemovalInv, FoundKnown
    <3> QED BY <1>2, <3>1
  <2> QED BY <1>1, <1>4, <2>1, <2>2 DEF RemovalInv, FoundKnown
<1>6. RecordsKnown'  BY DEF RemovalInv, RecordsKnown
<1>7. OnePlan'
  <2>1. I!Active(records)' = I!Active(records) /\ plans' = plans  BY DEF I!Active
  <2>2. CASE Late  BY <1>1, <2>2 DEF OnePlan
  <2>3. CASE ~Late
    <3> SUFFICES \A r, q \in I!Active(records) :
                   /\ \A s \in plans[r.plan].picks : found'[s.row].scan = r.scan => found'[s.row].resolved
                   /\ \A s \in plans[r.plan].picks, t \in plans[q.plan].picks :
                        s.row = t.row /\ r.scan = q.scan => r.plan = q.plan  BY <2>1 DEF OnePlan
    <3> SUFFICES ASSUME NEW r \in I!Active(records), NEW q \in I!Active(records)
                 PROVE  /\ \A s \in plans[r.plan].picks : found'[s.row].scan = r.scan => found'[s.row].resolved
                        /\ \A s \in plans[r.plan].picks, t \in plans[q.plan].picks :
                             s.row = t.row /\ r.scan = q.scan => r.plan = q.plan  OBVIOUS
    <3>1. r \in records /\ r.scan < generation /\ r.scan \in Nat /\ r.plan \in DOMAIN plans /\ generation \in Nat
      BY DEF RemovalInv, RecordsKnown, FoundKnown, I!Active
    <3>2. GoodPlan(plans[r.plan])  BY <3>1 DEF RemovalInv, PlansKnown
    <3>3. \A s \in plans[r.plan].picks : found'[s.row].scan = r.scan => found'[s.row].resolved
      <4> SUFFICES ASSUME NEW s \in plans[r.plan].picks, found'[s.row].scan = r.scan PROVE found'[s.row].resolved
        OBVIOUS
      <4>1. s.row \in I!AllIds  BY <3>2 DEF GoodPlan, GoodPicks
      <4>2. PICK id \in I!AllIds : id = s.row  BY <4>1
      <4>3. I!Row(id).album \notin as
        <5>1. I!Row(id).album \in as => found'[id].scan = generation  BY <1>2
        <5>2. found'[id].scan = r.scan  BY <4>2
        <5>3. r.scan # generation  BY <3>1
        <5> QED BY <5>1, <5>2, <5>3
      <4>4. found[s.row].scan = r.scan /\ (found'[s.row].resolved <=> found[s.row].resolved)  BY <1>2, <4>2, <4>3
      <4> QED BY <4>4, <2>3 DEF RemovalInv, OnePlan
    <3> QED BY <3>3, <2>3 DEF RemovalInv, OnePlan
  <2> QED BY <2>2, <2>3
<1>8. PlansKnown'  BY <1>1, PlansStay DEF RemovalInv
<1>9. /\ \A v : GoodReview(v) => GoodReview(v)'
      /\ \A ps : GoodPicks(ps) => GoodPicks(ps)'
      /\ \A rs : KnownRecords(rs) => KnownRecords(rs)'
  BY DEF GoodReview, GoodPicks, KnownRecords, UsedPlans, I!Active, Late
<1>10. \A p : Waiting(p) => Waiting(p)'  BY <1>3, StillWaiting, WaitingIsGood DEF RemovalInv
<1>11. DialogKnown'  BY <1>9, <1>10, ReadAs DEF RemovalInv, DialogKnown, Applied
<1>12. ReadsKnown'
  <2> SUFFICES ASSUME NEW r \in reads PROVE DOMAIN r = {"token", "entry", "got"} /\ (r.got # None => GoodReview(r.got)')
    BY DEF ReadsKnown
  <2>1. PICK v : v = r.got  OBVIOUS
  <2>2. DOMAIN r = {"token", "entry", "got"} /\ (v # None => GoodReview(v))  BY <2>1 DEF RemovalInv, ReadsKnown
  <2> QED BY <1>9, <2>1, <2>2
<1>13. CallKnown'  BY <1>9, <1>10, ReadAs DEF RemovalInv, CallKnown
<1> QED BY <1>5, <1>6, <1>7, <1>8, <1>11, <1>12, <1>13 DEF RemovalInv

LEMMA ScanStepKeeps ==
  ASSUME RowsApart, RemovalInv,
         \/ \E as : I!StartScan(as)
         \/ I!CancelScan
         \/ \E g \in DOMAIN timers : I!ScanStep(g)
  PROVE  RemovalInv'
<1>1. generation \in Nat /\ DOMAIN scan = {"state", "albums", "progress"}  BY DEF RemovalInv, FoundKnown
<1>2. CASE \E as : I!StartScan(as)
  <2>1. /\ UNCHANGED <<found, records, plans, dialog, reads, call>> /\ generation' = generation + 1
        /\ DOMAIN scan' = {"state", "albums", "progress"}  BY <1>2 DEF I!StartScan
  <2> QED BY <1>1, <2>1, ScanMoves
<1>3. CASE I!CancelScan
  <2>1. /\ UNCHANGED <<found, records, plans, dialog, reads, call>> /\ generation' = generation + 1
        /\ DOMAIN scan' = {"state", "albums", "progress"}  BY <1>3 DEF I!CancelScan
  <2> QED BY <1>1, <2>1, ScanMoves
<1>4. CASE \E g \in DOMAIN timers : I!ScanStep(g)
  <2>1. PICK g \in DOMAIN timers : I!ScanStep(g)  BY <1>4
  <2>2. UNCHANGED <<records, plans, generation, dialog, reads, call>>  BY <2>1 DEF I!ScanStep
  <2>3. CASE UNCHANGED found /\ DOMAIN scan' = DOMAIN scan /\ scan'.state = scan.state  BY <1>1, <2>2, <2>3, ScanMoves
  <2>4. CASE ~I!Current(g)  BY <2>1, <2>3, <2>4 DEF I!ScanStep
  <2>5. CASE I!Current(g) /\ timers[g] < I!Steps(scan.albums)
    <3>1. scan' = [scan EXCEPT !.progress = @ + 1] /\ UNCHANGED found  BY <2>1, <2>5 DEF I!ScanStep
    <3>2. DOMAIN scan' = DOMAIN scan /\ scan'.state = scan.state  BY <1>1, <3>1
    <3> QED BY <2>3, <3>1, <3>2
  <2>6. CASE I!Current(g) /\ ~(timers[g] < I!Steps(scan.albums))
    <3>1. PICK as : as = scan.albums  OBVIOUS
    <3>2. scan.state = "running" /\ g = generation  BY <2>6 DEF I!Current
    <3>3. /\ scan' = [state |-> "completed", albums |-> {}, progress |-> 0]
          /\ found' = [id \in I!AllIds |-> IF I!Row(id).album \in as
                                           THEN [rev |-> 0, resolved |-> FALSE, scan |-> generation] ELSE found[id]]
      BY <2>1, <2>6, <3>1, <3>2 DEF I!ScanStep
    <3>4. PICK reset : reset = [rev |-> 0, resolved |-> FALSE, scan |-> generation]  OBVIOUS
    <3>5. DOMAIN reset = RowFields /\ reset.rev = 0 /\ ~reset.resolved /\ reset.scan = generation
      BY <3>4 DEF RowFields
    <3>6. DOMAIN found' = I!AllIds /\ \A id \in I!AllIds : found'[id] = IF I!Row(id).album \in as THEN reset ELSE found[id]
      BY <3>3, <3>4
    <3>7. FoundAgain(as)  BY <3>5, <3>6 DEF FoundAgain
    <3>8. /\ scan.state = "running" /\ scan' = [state |-> "completed", albums |-> {}, progress |-> 0]
          /\ UNCHANGED <<records, plans, generation, dialog, reads, call>>  BY <2>2, <3>2, <3>3
    <3> QED BY <3>7, <3>8, ScanEnds
  <2> QED BY <2>4, <2>5, <2>6
<1> QED BY <1>2, <1>3, <1>4

----
(* What the dialog would ask for. *)

Kept(v, keep, chosen, id) ==
  IF I!IsEdition(v, I!Row(id).block)
  THEN {p \in I!Row(id).pages : I!TrackOf(p) \in I!SelectedTracks(v, I!Row(id).block, chosen)}
  ELSE {keep[id]}
PickOf(v, keep, chosen, id) ==
  I!Pick(v, id, I!Min(Kept(v, keep, chosen, id)), I!Row(id).pages \ Kept(v, keep, chosen, id))

LEMMA PicksAre ==
  ASSUME NEW v, NEW keep, NEW chosen, NEW s \in I!Selections(v, keep, chosen)
  PROVE  \E id \in DOMAIN v.revs : s = PickOf(v, keep, chosen, id) /\ Kept(v, keep, chosen, id) # {}
<1>1. PICK id \in DOMAIN v.revs :
        s \in (IF Kept(v, keep, chosen, id) = {} \/ I!Row(id).pages \ Kept(v, keep, chosen, id) = {} THEN {}
               ELSE {PickOf(v, keep, chosen, id)})  BY DEF I!Selections, I!ReviewIds, Kept, PickOf
<1>2. PICK K : K = Kept(v, keep, chosen, id)  OBVIOUS
<1>3. K # {} /\ s = PickOf(v, keep, chosen, id)  BY <1>1, <1>2
<1> QED BY <1>2, <1>3

LEMMA ChoiceIsGood ==
  ASSUME RowsApart, NEW v, NEW keep, NEW chosen, GoodReview(v),
         \A id \in I!AllIds : keep[id] \in I!Row(id).pages
  PROVE  /\ GoodPicks(I!Selections(v, keep, chosen))
         /\ \A s \in I!Selections(v, keep, chosen) : I!Row(s.row).pages \ s.remove # {}
<1>1. \A s \in I!Selections(v, keep, chosen) :
        \E id \in DOMAIN v.revs : s = PickOf(v, keep, chosen, id) /\ Kept(v, keep, chosen, id) # {}
  BY PicksAre
<1>2. \A id \in DOMAIN v.revs :
        /\ PickOf(v, keep, chosen, id).row = id /\ PickOf(v, keep, chosen, id).rev = v.revs[id]
        /\ PickOf(v, keep, chosen, id).remove = I!Row(id).pages \ Kept(v, keep, chosen, id)
  BY DEF PickOf, I!Pick
<1>3. \A id \in DOMAIN v.revs : id \in I!AllIds /\ v.revs[id] \in Nat /\ (Late \/ Even(v.revs[id]))  BY DEF GoodReview
<1>4. \A id \in I!AllIds : Kept(v, keep, chosen, id) \subseteq I!Row(id).pages  BY DEF Kept
<1>5. GoodPicks(I!Selections(v, keep, chosen))
  <2>1. \A s \in I!Selections(v, keep, chosen) : s.row \in I!AllIds /\ s.rev \in Nat /\ (Late \/ Even(s.rev))
    BY <1>1, <1>2, <1>3
  <2>2. \A s, t \in I!Selections(v, keep, chosen) : s.row = t.row => s = t  BY <1>1, <1>2
  <2> QED BY <2>1, <2>2 DEF GoodPicks
<1>6. \A s \in I!Selections(v, keep, chosen) : I!Row(s.row).pages \ s.remove # {}
  <2> SUFFICES ASSUME NEW s \in I!Selections(v, keep, chosen) PROVE I!Row(s.row).pages \ s.remove # {}  OBVIOUS
  <2>1. PICK id \in DOMAIN v.revs : s = PickOf(v, keep, chosen, id) /\ Kept(v, keep, chosen, id) # {}  BY <1>1
  <2>2. PICK p : p \in Kept(v, keep, chosen, id)  BY <2>1
  <2>3. p \in I!Row(id).pages \ s.remove  BY <1>2, <1>3, <1>4, <2>1, <2>2
  <2> QED BY <1>2, <2>1, <2>3
<1> QED BY <1>5, <1>6

(* A review the backend gives. *)
LEMMA ReviewsAreGood ==
  ASSUME RowsApart, FoundKnown, RecordsKnown, NEW a
  PROVE  GoodReview(I!Review(a, found, records))
<1>1. PICK v : v = I!Review(a, found, records)  OBVIOUS
<1>2. PICK ids : ids = {i \in I!RowsOf(a) : found[i].scan # 0 /\ ~found[i].resolved}  OBVIOUS
<1>3. v = [entry |-> a, revs |-> [id \in ids |-> found[id].rev], records |-> {r \in records : r.album = a}]
  BY <1>1, <1>2 DEF I!Review
<1>4. /\ DOMAIN v = {"entry", "revs", "records"} /\ DOMAIN v.revs = ids /\ \A id \in ids : v.revs[id] = found[id].rev
      /\ v.records = {r \in records : r.album = a}  BY <1>3
<1>5. \A id \in ids : id \in I!AllIds /\ ~found[id].resolved  BY <1>2 DEF I!RowsOf, I!AllIds
<1>6. \A id \in ids : found[id].rev \in Nat /\ (Late \/ Even(found[id].rev))  BY <1>5 DEF FoundKnown
<1>7. KnownRecords(v.records)
  <2>1. \A r \in v.records : r.plan \in UsedPlans  BY <1>4 DEF UsedPlans
  <2>2. \A r, q \in I!Active(records) : r.plan = q.plan => (r \in v.records <=> q \in v.records)
    BY <1>4 DEF I!Active, RecordsKnown
  <2> QED BY <2>1, <2>2 DEF KnownRecords
<1>8. GoodReview(v)  BY <1>4, <1>5, <1>6, <1>7 DEF GoodReview
<1> QED BY <1>1, <1>8

----
(* Steps of the dialog. *)

LEMMA DialogNext ==
  ASSUME UNCHANGED <<found, records, plans>>, DOMAIN dialog' = DialogFields, DOMAIN dialog'.keep = I!AllIds,
         \A id \in I!AllIds : dialog'.keep[id] \in I!Row(id).pages,
         \A v : v = dialog'.review /\ v # None => GoodReview(v),
         \A p : p = dialog'.plan /\ p # None => Waiting(p) \/ Applied'
  PROVE  DialogKnown'
<1>1. dialog'.review # None => GoodReview(dialog.review)'  BY SameForAll, ReadAs
<1>2. dialog'.plan # None => Waiting(dialog.plan)' \/ Applied'  BY SameForAll, ReadAs
<1> QED BY <1>1, <1>2 DEF DialogKnown

(* What is known of the dialog as it is. *)
LEMMA DialogNow ==
  ASSUME DialogKnown
  PROVE  /\ DOMAIN dialog = DialogFields /\ DOMAIN dialog.keep = I!AllIds
         /\ \A id \in I!AllIds : dialog.keep[id] \in I!Row(id).pages
         /\ \A v : v = dialog.review /\ v # None => GoodReview(v)
         /\ \A p : p = dialog.plan /\ p # None => Waiting(p) \/ Applied  BY DEF DialogKnown

LEMMA CallEnds == call' = None => CallKnown'  BY DEF CallKnown

LEMMA Asking ==
  ASSUME NoneIsNoReview, UNCHANGED <<found, records, plans>>,
         NEW k, NEW a, NEW o, call' = [kind |-> k, arg |-> a, of |-> o, got |-> None],
         k = "plan" => DOMAIN a = {"album", "picks"} /\ GoodPicks(a.picks),
         k = "apply" => Waiting(a),
         k = "undo" => KnownRecords(a) /\ \A r \in a : r.state = "quarantined"
  PROVE  CallKnown'
<1>1. DOMAIN call' = {"kind", "arg", "of", "got"} /\ call'.kind = k /\ call'.arg = a /\ call'.got = None  OBVIOUS
<1>2. PICK ps : ps = a.picks  OBVIOUS
<1>3. k = "plan" => GoodPicks(call.arg.picks)' /\ DOMAIN call'.arg = {"album", "picks"}
  BY <1>1, <1>2, SameForAll, ReadAs
<1>4. k = "apply" => Waiting(call.arg)'  BY <1>1, SameForAll, ReadAs
<1>5. k = "undo" => KnownRecords(call.arg)' /\ \A r \in call'.arg : r.state = "quarantined"
  BY <1>1, SameForAll, ReadAs
<1> QED BY <1>1, <1>3, <1>4, <1>5 DEF CallKnown

LEMMA ShownFields ==
  ASSUME RowsApart, NEW d, NEW v, DOMAIN d = DialogFields
  PROVE  /\ DOMAIN I!Shown(d, v) = DialogFields /\ I!Shown(d, v).review = v /\ I!Shown(d, v).plan = d.plan
         /\ DOMAIN I!Shown(d, v).keep = I!AllIds
         /\ \A id \in I!AllIds : I!Shown(d, v).keep[id] \in I!Row(id).pages
<1>1. PICK c : c = [b \in {r.block : r \in Rows} |->
                      IF b \in I!Blocks(v) /\ I!IsEdition(v, b) THEN {I!FirstTrack(v, b)} ELSE {}]  OBVIOUS
<1>2. PICK k : k = [id \in I!AllIds |-> I!Row(id).keep]  OBVIOUS
<1>3. PICK s : s = I!Shown(d, v)  OBVIOUS
<1>4. s = [d EXCEPT !.review = v, !.keep = k, !.chosen = c]  BY <1>1, <1>2, <1>3 DEF I!Shown
<1>5. DOMAIN s = DialogFields /\ s.review = v /\ s.plan = d.plan /\ s.keep = k  BY <1>4 DEF DialogFields
<1>6. DOMAIN k = I!AllIds /\ \A id \in I!AllIds : k[id] \in I!Row(id).pages  BY <1>2, RowFacts
<1> QED BY <1>3, <1>5, <1>6

LEMMA BackendStays ==
  ASSUME RemovalInv, UNCHANGED I!backendVars
  PROVE  /\ UNCHANGED <<found, records, plans, scan, generation>>
         /\ FoundKnown /\ RecordsKnown /\ PlansKnown /\ DialogKnown /\ ReadsKnown /\ CallKnown
         /\ DialogKnown' /\ ReadsKnown' /\ CallKnown' => RemovalInv'
<1>1. UNCHANGED <<found, records, plans, scan, generation>>  BY DEF I!backendVars
<1> QED BY <1>1, WindowStep DEF RemovalInv

LEMMA HydratedFields ==
  ASSUME NEW d, NEW a, I!Hydrated(d, a), DOMAIN d = DialogFields
  PROVE  /\ DOMAIN dialog' = DialogFields /\ dialog'.review = d.review /\ dialog'.plan = d.plan /\ dialog'.keep = d.keep
         /\ \A r \in reads' : r \in reads \/ (DOMAIN r = {"token", "entry", "got"} /\ r.got = None)
<1>1. dialog' = [d EXCEPT !.token = @ + 1, !.error = FALSE]  BY DEF I!Hydrated
<1>2. DOMAIN dialog' = DialogFields /\ dialog'.review = d.review /\ dialog'.plan = d.plan /\ dialog'.keep = d.keep
  BY <1>1 DEF DialogFields
<1>3. PICK q : q = [token |-> d.token + 1, entry |-> a, got |-> None]  OBVIOUS
<1>4. DOMAIN q = {"token", "entry", "got"} /\ q.got = None  BY <1>3
<1>5. reads' = reads \cup {q}  BY <1>3 DEF I!Hydrated
<1> QED BY <1>2, <1>4, <1>5

(* The dialog that is left as it is but for a plan or a review it drops. *)
LEMMA DialogDrops ==
  ASSUME RemovalInv, UNCHANGED I!backendVars, DOMAIN dialog' = DialogFields, dialog'.keep = dialog.keep,
         dialog'.review \in {dialog.review, None}, dialog'.plan \in {dialog.plan, None}, Applied => Applied'
  PROVE  DialogKnown'
<1>1. DialogKnown /\ UNCHANGED <<found, records, plans>>  BY BackendStays
<1> QED BY <1>1, DialogNow, DialogNext

LEMMA OpenKeeps ==
  ASSUME RowsApart, RemovalInv,
         (\E a \in Albums : I!Open(a)) \/ I!Close \/ I!Retry
  PROVE  RemovalInv'
<1>1. DOMAIN dialog = DialogFields /\ DialogKnown /\ ReadsKnown /\ CallKnown  BY DEF RemovalInv, DialogKnown
<1>2. UNCHANGED I!backendVars /\ UNCHANGED call /\ (Applied' <=> Applied)  BY DEF I!Open, I!Close, I!Retry, Applied
<1>3. UNCHANGED <<found, records, plans>>  BY <1>2, BackendStays
<1>4. /\ DOMAIN dialog' = DialogFields /\ dialog'.keep = dialog.keep
      /\ dialog'.review \in {dialog.review, None} /\ dialog'.plan \in {dialog.plan, None}
      /\ \A r \in reads' : r \in reads \/ (DOMAIN r = {"token", "entry", "got"} /\ r.got = None)
  <2>1. CASE \E a \in Albums : I!Open(a)
    <3>1. PICK a : I!Open(a)  BY <2>1
    <3>2. PICK d : d = [dialog EXCEPT !.entry = a, !.review = None, !.plan = None]  OBVIOUS
    <3>3. DOMAIN d = DialogFields /\ d.review = None /\ d.plan = None /\ d.keep = dialog.keep
      BY <1>1, <3>2 DEF DialogFields
    <3>4. I!Hydrated(d, a)  BY <3>1, <3>2 DEF I!Open
    <3> QED BY <3>3, <3>4, HydratedFields
  <2>2. CASE I!Close
    <3>1. dialog' = [dialog EXCEPT !.entry = None, !.review = None, !.plan = None, !.error = FALSE, !.token = @ + 1]
      BY <2>2 DEF I!Close
    <3>2. DOMAIN dialog' = DialogFields /\ dialog'.review = None /\ dialog'.plan = None /\ dialog'.keep = dialog.keep
      BY <1>1, <3>1 DEF DialogFields
    <3>3. reads' = reads  BY <2>2 DEF I!Close
    <3> QED BY <3>2, <3>3
  <2>3. CASE I!Retry
    <3>1. PICK d, a : d = dialog /\ a = dialog.entry  OBVIOUS
    <3>2. I!Hydrated(d, a)  BY <2>3, <3>1 DEF I!Retry
    <3> QED BY <1>1, <3>1, <3>2, HydratedFields
  <2> QED BY <2>1, <2>2, <2>3
<1>5. DialogKnown'  BY <1>2, <1>4, DialogDrops
<1>6. ReadsKnown'  BY <1>1, <1>3, <1>4, ReadsStay
<1>7. CallKnown'  BY <1>1, <1>2, <1>3, CallStays
<1> QED BY <1>2, <1>5, <1>6, <1>7, BackendStays

LEMMA ReadServedKeeps ==
  ASSUME RowsApart, RemovalInv, NEW r \in reads, I!ReadServed(r)
  PROVE  RemovalInv'
<1>1. DialogKnown /\ ReadsKnown /\ CallKnown /\ FoundKnown /\ RecordsKnown /\ DOMAIN dialog = DialogFields
  BY DEF RemovalInv, DialogKnown
<1>2. UNCHANGED I!backendVars /\ UNCHANGED <<dialog, call>> /\ (Applied' <=> Applied)  BY DEF I!ReadServed, Applied
<1>3. UNCHANGED <<found, records, plans>>  BY <1>2, BackendStays
<1>4. PICK a, v : a = r.entry /\ v = I!Review(a, found, records)  OBVIOUS
<1>5. GoodReview(v)  BY <1>1, <1>4, ReviewsAreGood
<1>6. PICK q : q = [r EXCEPT !.got = v]  OBVIOUS
<1>7. DOMAIN r = {"token", "entry", "got"}  BY <1>1 DEF ReadsKnown
<1>8. DOMAIN q = {"token", "entry", "got"} /\ q.got = v  BY <1>6, <1>7
<1>9. reads' = (reads \ {r}) \cup {q}  BY <1>4, <1>6 DEF I!ReadServed
<1>10. \A x \in reads' : x \in reads \/ (DOMAIN x = {"token", "entry", "got"} /\ (x.got # None => GoodReview(x.got)))
  <2> SUFFICES ASSUME NEW x \in reads', x \notin reads
               PROVE  DOMAIN x = {"token", "entry", "got"} /\ (x.got # None => GoodReview(x.got))  OBVIOUS
  <2>1. x = q /\ x.got = v  BY <1>8, <1>9
  <2> QED BY <1>5, <1>8, <2>1
<1>11. ReadsKnown'  BY <1>1, <1>3, <1>10, ReadsStay
<1>12. DialogKnown'  BY <1>1, <1>2, DialogDrops
<1>13. CallKnown'  BY <1>1, <1>2, <1>3, CallStays
<1> QED BY <1>2, <1>11, <1>12, <1>13, BackendStays

LEMMA ReadAnsweredKeeps ==
  ASSUME RowsApart, RemovalInv, NEW r \in reads, I!ReadAnswered(r)
  PROVE  RemovalInv'
<1>1. DialogKnown /\ ReadsKnown /\ CallKnown /\ DOMAIN dialog = DialogFields  BY DEF RemovalInv, DialogKnown
<1>2. UNCHANGED I!backendVars /\ reads' = reads \ {r} /\ r.got # None  BY DEF I!ReadAnswered
<1>3. UNCHANGED <<found, records, plans>>  BY <1>2, BackendStays
<1>4. call' = call \/ (call' = None /\ call # None /\ call.kind = "reread")  BY DEF I!ReadAnswered
<1>5. Applied => Applied'  BY <1>4 DEF Applied
<1>6. ReadsKnown'
  <2>1. \A q \in reads' : q \in reads  BY <1>2
  <2> QED BY <1>1, <1>3, <2>1, ReadsStay
<1>7. CallKnown'
  <2>1. CASE call' = call  BY <1>1, <1>3, <2>1, CallStays
  <2> QED BY <1>4, <2>1, CallEnds
<1>8. DialogKnown'
  <2>1. PICK v : v = r.got  OBVIOUS
  <2>2. GoodReview(v)  BY <1>1, <1>2, <2>1 DEF ReadsKnown
  <2>3. dialog' \in {dialog, I!Shown(dialog, v), [dialog EXCEPT !.error = TRUE]}  BY <2>1, Zenon DEF I!ReadAnswered
  <2>4. CASE dialog' = dialog  BY <1>1, <1>2, <1>5, <2>4, DialogDrops
  <2>5. CASE dialog' = [dialog EXCEPT !.error = TRUE]
    <3>1. DOMAIN dialog' = DialogFields /\ dialog'.review = dialog.review /\ dialog'.plan = dialog.plan /\ dialog'.keep = dialog.keep
      BY <1>1, <2>5 DEF DialogFields
    <3> QED BY <1>2, <1>5, <3>1, DialogDrops
  <2>6. CASE dialog' = I!Shown(dialog, v)
    <3>1. PICK d : d = dialog  OBVIOUS
    <3>2. /\ DOMAIN dialog' = DialogFields /\ dialog'.review = v /\ dialog'.plan = dialog.plan
          /\ DOMAIN dialog'.keep = I!AllIds /\ \A id \in I!AllIds : dialog'.keep[id] \in I!Row(id).pages
      BY <1>1, <2>6, <3>1, ShownFields
    <3>3. \A p : p = dialog'.plan /\ p # None => Waiting(p) \/ Applied'  BY <1>1, <1>5, <3>2, DialogNow
    <3> QED BY <1>3, <2>2, <3>2, <3>3, DialogNext
  <2> QED BY <2>3, <2>4, <2>5, <2>6
<1> QED BY <1>2, <1>6, <1>7, <1>8, BackendStays

LEMMA ChoosingKeeps ==
  ASSUME RowsApart, RemovalInv, (\E b, t : I!ToggleTrack(b, t)) \/ (\E id, p : I!KeepPage(id, p))
  PROVE  RemovalInv'
<1>1. DialogKnown /\ ReadsKnown /\ CallKnown /\ DOMAIN dialog = DialogFields  BY DEF RemovalInv, DialogKnown
<1>2. UNCHANGED I!backendVars /\ UNCHANGED <<reads, call>> /\ (Applied' <=> Applied)
  BY DEF I!ToggleTrack, I!KeepPage, Applied
<1>3. UNCHANGED <<found, records, plans>>  BY <1>2, BackendStays
<1>4. /\ DOMAIN dialog' = DialogFields /\ dialog'.review = dialog.review /\ dialog'.plan = dialog.plan
      /\ DOMAIN dialog'.keep = I!AllIds /\ \A id \in I!AllIds : dialog'.keep[id] \in I!Row(id).pages
  <2>1. CASE \E b, t : I!ToggleTrack(b, t)
    <3>1. PICK b, t : I!ToggleTrack(b, t)  BY <2>1
    <3>2. PICK c : dialog' = [dialog EXCEPT !.chosen = c]  BY <3>1 DEF I!ToggleTrack
    <3>3. DOMAIN dialog' = DialogFields /\ dialog'.review = dialog.review /\ dialog'.plan = dialog.plan /\ dialog'.keep = dialog.keep
      BY <1>1, <3>2 DEF DialogFields
    <3> QED BY <1>1, <3>3, DialogNow
  <2>2. CASE \E id, p : I!KeepPage(id, p)
    <3>1. PICK id, p : I!KeepPage(id, p)  BY <2>2
    <3>2. PICK k : k = [dialog.keep EXCEPT ![id] = p]  OBVIOUS
    <3>3. dialog' = [dialog EXCEPT !.keep = k]  BY <3>1, <3>2 DEF I!KeepPage
    <3>4. DOMAIN dialog' = DialogFields /\ dialog'.review = dialog.review /\ dialog'.plan = dialog.plan /\ dialog'.keep = k
      BY <1>1, <3>3 DEF DialogFields
    <3>5. p \in I!Row(id).pages  BY <3>1 DEF I!KeepPage
    <3>6. DOMAIN k = I!AllIds /\ \A i \in I!AllIds : k[i] = IF i = id THEN p ELSE dialog.keep[i]
      BY <1>1, <3>2, DialogNow
    <3> QED BY <1>1, <3>4, <3>5, <3>6, DialogNow
  <2> QED BY <2>1, <2>2
<1>5. DialogKnown'  BY <1>1, <1>2, <1>3, <1>4, DialogNow, DialogNext
<1>6. ReadsKnown'
  <2>1. \A q \in reads' : q \in reads  BY <1>2
  <2> QED BY <1>1, <1>3, <2>1, ReadsStay
<1>7. CallKnown'  BY <1>1, <1>2, <1>3, CallStays
<1> QED BY <1>2, <1>5, <1>6, <1>7, BackendStays

(* The three calls of the dialog.  While one is under way none is asked for. *)
LEMMA AskingKeeps ==
  ASSUME RowsApart, NoneIsNoReview, RemovalInv, I!Preview \/ I!Apply \/ I!UndoAll
  PROVE  RemovalInv'
<1>1. DialogKnown /\ ReadsKnown /\ CallKnown /\ DOMAIN dialog = DialogFields  BY DEF RemovalInv, DialogKnown
<1>2. /\ UNCHANGED I!backendVars /\ UNCHANGED reads /\ call = None
      /\ dialog' = [dialog EXCEPT !.error = FALSE]  BY DEF I!Preview, I!Apply, I!UndoAll, I!Ask
<1>3. UNCHANGED <<found, records, plans>>  BY <1>2, BackendStays
<1>4. DOMAIN dialog' = DialogFields /\ dialog'.review = dialog.review /\ dialog'.plan = dialog.plan /\ dialog'.keep = dialog.keep
  BY <1>1, <1>2 DEF DialogFields
<1>5. ~Applied  BY <1>2 DEF Applied
<1>6. DialogKnown'  BY <1>2, <1>4, <1>5, DialogDrops
<1>7. ReadsKnown'
  <2>1. \A q \in reads' : q \in reads  BY <1>2
  <2> QED BY <1>1, <1>3, <2>1, ReadsStay
<1>8. CallKnown'
  <2>1. CASE I!Preview
    <3>1. PICK v, k, c : v = dialog.review /\ k = dialog.keep /\ c = dialog.chosen  OBVIOUS
    <3>2. I!Chosen # {}  BY <2>1 DEF I!Preview
    <3>3. v # None /\ I!Chosen = I!Selections(v, k, c)  BY <3>1, <3>2 DEF I!Chosen
    <3>4. GoodPicks(I!Selections(v, k, c))  BY <1>1, <3>1, <3>3, DialogNow, ChoiceIsGood
    <3>5. PICK ps : ps = I!Chosen  OBVIOUS
    <3>6. PICK a : a = [album |-> v.entry, picks |-> ps]  OBVIOUS
    <3>7. DOMAIN a = {"album", "picks"} /\ a.picks = ps  BY <3>6
    <3>8. GoodPicks(a.picks)  BY <3>3, <3>4, <3>5, <3>7
    <3>9. call' = [kind |-> "plan", arg |-> a, of |-> dialog.entry, got |-> None]  BY <2>1, <3>1, <3>5, <3>6 DEF I!Preview, I!Ask
    <3> QED BY <1>3, <3>7, <3>8, <3>9, Asking
  <2>2. CASE I!Apply
    <3>1. PICK p : p = I!ActivePlan  OBVIOUS
    <3>2. p # None /\ p = dialog.plan  BY <2>2, <3>1 DEF I!Apply, I!ActivePlan
    <3>3. Waiting(p)  BY <1>1, <1>5, <3>2, DialogNow
    <3>4. call' = [kind |-> "apply", arg |-> p, of |-> dialog.entry, got |-> None]  BY <2>2, <3>1 DEF I!Apply, I!Ask
    <3> QED BY <1>3, <3>3, <3>4, Asking
  <2>3. CASE I!UndoAll
    <3>1. PICK v : v = dialog.review  OBVIOUS
    <3>2. v # None  BY <2>3, <3>1 DEF I!UndoAll
    <3>3. GoodReview(v)  BY <1>1, <3>1, <3>2, DialogNow
    <3>4. PICK rs : rs = I!Active(v.records)  OBVIOUS
    <3>5. call' = [kind |-> "undo", arg |-> rs, of |-> dialog.entry, got |-> None]  BY <2>3, <3>1, <3>4 DEF I!UndoAll, I!Ask
    <3>6. KnownRecords(v.records)  BY <3>3 DEF GoodReview
    <3>7. KnownRecords(rs) /\ \A r \in rs : r.state = "quarantined"  BY <3>4, <3>6 DEF KnownRecords, I!Active
    <3> QED BY <1>3, <3>5, <3>7, Asking
  <2> QED BY <2>1, <2>2, <2>3
<1> QED BY <1>2, <1>6, <1>7, <1>8, BackendStays

(* A conflict has an album read again. *)
LEMMA RereadKeeps ==
  ASSUME RowsApart, NoneIsNoReview, RemovalInv, UNCHANGED I!backendVars, call # None, ~Applied, NEW a, I!Reread(a)
  PROVE  RemovalInv'
<1>1. DialogKnown /\ ReadsKnown /\ CallKnown /\ DOMAIN dialog = DialogFields  BY DEF RemovalInv, DialogKnown
<1>2. UNCHANGED <<found, records, plans>>  BY BackendStays
<1>3. PICK d, n : d = dialog /\ n = dialog.token + 1  OBVIOUS
<1>4. I!Hydrated(d, a) /\ DOMAIN d = DialogFields  BY <1>1, <1>3 DEF I!Reread
<1>5. /\ DOMAIN dialog' = DialogFields /\ dialog'.review = dialog.review /\ dialog'.plan = dialog.plan
      /\ dialog'.keep = dialog.keep
      /\ \A r \in reads' : r \in reads \/ (DOMAIN r = {"token", "entry", "got"} /\ r.got = None)
  BY <1>3, <1>4, HydratedFields
<1>6. DialogKnown'  BY <1>5, DialogDrops
<1>7. ReadsKnown'  BY <1>1, <1>2, <1>5, ReadsStay
<1>8. call' = [kind |-> "reread", arg |-> n, of |-> a, got |-> None]  BY <1>3 DEF I!Reread
<1>9. CallKnown'  BY <1>2, <1>8, Asking
<1> QED BY <1>6, <1>7, <1>9, BackendStays

LEMMA PlanAnsweredKeeps ==
  ASSUME RowsApart, NoneIsNoReview, RemovalInv, I!PlanAnswered
  PROVE  RemovalInv'
<1>1. DialogKnown /\ ReadsKnown /\ CallKnown /\ DOMAIN dialog = DialogFields  BY DEF RemovalInv, DialogKnown
<1>2. UNCHANGED I!backendVars /\ call # None /\ call.kind = "plan" /\ call.got # None  BY DEF I!PlanAnswered, I!Got
<1>3. UNCHANGED <<found, records, plans>>  BY <1>2, BackendStays
<1>4. ~Applied  BY <1>2 DEF Applied
<1>5. CASE call.got.how = "ok" /\ dialog' = [dialog EXCEPT !.plan = call.arg] /\ call' = None /\ UNCHANGED reads
  <2>1. PICK p : p = call.arg  OBVIOUS
  <2>2. Waiting(p)  BY <1>1, <1>2, <1>5, <2>1 DEF CallKnown
  <2>3. DOMAIN dialog' = DialogFields /\ dialog'.review = dialog.review /\ dialog'.plan = p /\ dialog'.keep = dialog.keep
    BY <1>1, <1>5, <2>1 DEF DialogFields
  <2>4. DialogKnown'  BY <1>1, <1>3, <2>2, <2>3, DialogNow, DialogNext
  <2>5. \A q \in reads' : q \in reads  BY <1>5
  <2>6. ReadsKnown'  BY <1>1, <1>3, <2>5, ReadsStay
  <2> QED BY <1>2, <1>5, <2>4, <2>6, CallEnds, BackendStays
<1>6. CASE call.got.how = "conflict" /\ I!Reread(call.arg.album)
  <2>1. PICK a : a = call.arg.album  OBVIOUS
  <2>2. I!Reread(a)  BY <1>6, <2>1
  <2> QED BY <1>2, <1>4, <2>2, RereadKeeps
<1> QED BY <1>5, <1>6 DEF I!PlanAnswered

LEMMA AnsweredKeeps ==
  ASSUME RowsApart, NoneIsNoReview, RemovalInv, (I!Got("apply") /\ UNCHANGED I!backendVars /\ I!ApplyEnds) \/ I!UndoAnswered
  PROVE  RemovalInv'
<1>1. DialogKnown /\ ReadsKnown /\ CallKnown /\ DOMAIN dialog = DialogFields  BY DEF RemovalInv, DialogKnown
<1>2. /\ UNCHANGED I!backendVars /\ UNCHANGED reads /\ call' = None
      /\ call # None /\ call.got # None /\ call.kind \in {"apply", "undo"}
  BY DEF I!ApplyEnds, I!UndoAnswered, I!Got
<1>3. UNCHANGED <<found, records, plans>>  BY <1>2, BackendStays
<1>4. CallKnown'  BY <1>2, CallEnds
<1>5. ReadsKnown'
  <2>1. \A q \in reads' : q \in reads  BY <1>2
  <2> QED BY <1>1, <1>3, <2>1, ReadsStay
<1>6. DialogKnown'
  <2>1. CASE call.got.how = "refused"
    <3>1. dialog' = [dialog EXCEPT !.error = TRUE]  BY <2>1 DEF I!ApplyEnds, I!UndoAnswered
    <3>2. DOMAIN dialog' = DialogFields /\ dialog'.review = dialog.review /\ dialog'.plan = dialog.plan /\ dialog'.keep = dialog.keep
      BY <1>1, <3>1 DEF DialogFields
    <3>3. ~Applied  BY <2>1 DEF Applied
    <3> QED BY <1>2, <3>2, <3>3, DialogDrops
  <2>2. CASE call.got.how # "refused"
    <3>1. PICK d, v : d = dialog /\ v = call.got.review  OBVIOUS
    <3>2. GoodReview(v)  BY <1>1, <1>2, <2>2, <3>1 DEF CallKnown
    <3>3. PICK s : s = I!Shown(d, v)  OBVIOUS
    <3>4. /\ DOMAIN s = DialogFields /\ s.review = v /\ s.plan = dialog.plan
          /\ DOMAIN s.keep = I!AllIds /\ \A id \in I!AllIds : s.keep[id] \in I!Row(id).pages
      BY <1>1, <3>1, <3>3, ShownFields
    <3>5. /\ DOMAIN dialog' = DialogFields /\ dialog'.review = v /\ dialog'.keep = s.keep
          /\ dialog'.plan = None \/ (dialog'.plan = dialog.plan /\ call.kind = "undo")
      <4>1. CASE I!Got("apply") /\ I!ApplyEnds
        <5>1. dialog' = [s EXCEPT !.plan = None]  BY <2>2, <3>1, <3>3, <4>1 DEF I!ApplyEnds
        <5> QED BY <3>4, <5>1 DEF DialogFields
      <4>2. CASE I!UndoAnswered
        <5>1. dialog' = s /\ call.kind = "undo"  BY <2>2, <3>1, <3>3, <4>2 DEF I!UndoAnswered, I!Got
        <5> QED BY <3>4, <5>1
      <4> QED BY <4>1, <4>2
    <3>6. \A p : p = dialog'.plan /\ p # None => Waiting(p)  BY <1>1, <3>5, DialogNow DEF Applied
    <3> QED BY <1>3, <3>2, <3>4, <3>5, <3>6, DialogNext
  <2> QED BY <2>1, <2>2
<1> QED BY <1>2, <1>4, <1>5, <1>6, BackendStays

----
(* Steps of the backend. *)

LEMMA LastIndex ==
  ASSUME PlansKnown, NEW p, \E i \in DOMAIN plans : plans[i] = p
  PROVE  LastOf(p, I!PlanIndex(p))
<1>1. Len(plans) \in Nat /\ DOMAIN plans = 1 .. Len(plans)  BY DEF PlansKnown
<1>2. PICK Less : Less = OpToRel(<, Nat)  OBVIOUS
<1>3. IsWellFoundedOn(Less, Nat) /\ \A x, y \in Nat : x < y => <<x, y>> \in Less
  BY <1>2, NatLessThanWellFounded DEF OpToRel
<1>4. PICK T : T = {n \in Nat : \E i \in DOMAIN plans : plans[i] = p /\ n = Len(plans) - i}  OBVIOUS
<1>5. T \subseteq Nat /\ \A i \in DOMAIN plans : plans[i] = p => Len(plans) - i \in T  BY <1>1, <1>4
<1>6. PICK n \in T : \A m \in T : ~(<<m, n>> \in Less)
  <2>1. IsWellFoundedOn(Less, Nat)  BY <1>3
  <2>2. T # {} /\ T \subseteq Nat  BY <1>5
  <2> QED BY <2>1, <2>2, WFMin
<1>7. PICK i \in DOMAIN plans : plans[i] = p /\ n = Len(plans) - i  BY <1>4, <1>6
<1>8. \A j \in DOMAIN plans : plans[j] = p => j <= i
  <2> SUFFICES ASSUME NEW j \in DOMAIN plans, plans[j] = p, i < j PROVE FALSE  BY <1>1
  <2>1. Len(plans) - j \in T /\ Len(plans) - j < n  BY <1>1, <1>5, <1>7
  <2> QED BY <1>3, <1>5, <1>6, <2>1
<1>9. \E k : k \in DOMAIN plans /\ plans[k] = p /\ \A j \in DOMAIN plans : plans[j] = p => j <= k  BY <1>7, <1>8
<1> QED BY <1>9 DEF I!PlanIndex, LastOf

LEMMA Answering ==
  ASSUME NoneIsNoReview, CallKnown, call # None, NEW how, NEW v, call' = I!Answer(how, v)
  PROVE  /\ DOMAIN call' = {"kind", "arg", "of", "got"} /\ call'.kind = call.kind /\ call'.arg = call.arg
         /\ DOMAIN call'.got = {"how", "review"} /\ call'.got.how = how /\ call'.got.review = v /\ call'.got # None
<1>1. PICK g : g = [how |-> how, review |-> v]  OBVIOUS
<1>2. DOMAIN g = {"how", "review"} /\ g.how = how /\ g.review = v  BY <1>1
<1>3. g # None  BY <1>2 DEF NoneIsNoReview
<1>4. DOMAIN call = {"kind", "arg", "of", "got"}  BY DEF CallKnown
<1>5. call' = [call EXCEPT !.got = g]  BY <1>1 DEF I!Answer
<1>6. DOMAIN call' = {"kind", "arg", "of", "got"} /\ call'.kind = call.kind /\ call'.arg = call.arg /\ call'.got = g
  BY <1>4, <1>5
<1> QED BY <1>2, <1>3, <1>6

(* A refusal leaves everything as it is. *)
LEMMA Refusing ==
  ASSUME NoneIsNoReview, RemovalInv, call # None, call.got = None,
         UNCHANGED <<found, records, plans, scan, generation, dialog, reads>>,
         \/ call.kind = "plan" /\ call' = I!Answer("conflict", None)
         \/ call.kind \in {"apply", "undo"} /\ call' = I!Answer("refused", None)
  PROVE  RemovalInv'
<1>1. DialogKnown /\ ReadsKnown /\ CallKnown /\ DOMAIN dialog = DialogFields  BY DEF RemovalInv, DialogKnown
<1>2. PICK how : how \in {"conflict", "refused"} /\ call' = I!Answer(how, None) /\ (call.kind = "plan" => how = "conflict")
                 /\ (call.kind \in {"apply", "undo"} => how = "refused")  OBVIOUS
<1>3. /\ DOMAIN call' = {"kind", "arg", "of", "got"} /\ call'.kind = call.kind /\ call'.arg = call.arg
      /\ DOMAIN call'.got = {"how", "review"} /\ call'.got.how = how /\ call'.got # None
  BY <1>1, <1>2, Answering
<1>4. PICK a, ps : a = call.arg /\ ps = a.picks  OBVIOUS
<1>5. call'.kind = "plan" => GoodPicks(call.arg.picks)' /\ DOMAIN call'.arg = {"album", "picks"}
  BY <1>1, <1>3, <1>4, SameForAll, ReadAs DEF CallKnown
<1>6. call'.kind = "undo" => KnownRecords(call.arg)' /\ \A r \in call'.arg : r.state = "quarantined"
  BY <1>1, <1>3, <1>4, SameForAll, ReadAs DEF CallKnown
<1>7. CallKnown'  BY <1>2, <1>3, <1>5, <1>6 DEF CallKnown
<1>8. DialogKnown'
  <2>1. ~Applied  BY DEF Applied
  <2> QED BY <1>1, <2>1, DialogNow, DialogNext
<1>9. ReadsKnown'
  <2>1. \A q \in reads' : q \in reads  OBVIOUS
  <2> QED BY <1>1, <2>1, ReadsStay
<1> QED BY <1>7, <1>8, <1>9, WindowStep

(* A plan is accepted. *)
Accepted ==
  /\ Len(plans) \in Nat /\ DOMAIN plans = 1 .. Len(plans)
  /\ DOMAIN plans' = 1 .. Len(plans) + 1 /\ plans'[Len(plans) + 1] = call.arg
  /\ \A i \in DOMAIN plans : plans'[i] = plans[i]
  /\ UNCHANGED <<found, records, scan, generation, dialog, reads>>

LEMMA AcceptedSame ==
  ASSUME Accepted, RecordsKnown
  PROVE  /\ \A v : GoodReview(v) => GoodReview(v)'
         /\ \A ps : GoodPicks(ps) => GoodPicks(ps)'
         /\ \A rs : KnownRecords(rs) => KnownRecords(rs)'
         /\ \A p : GoodPlan(p) => GoodPlan(p)'
         /\ \A p : Waiting(p) => Waiting(p)'
         /\ Late' <=> Late
<1>1. UNCHANGED <<found, records>>  BY DEF Accepted
<1>2. \A rs : KnownRecords(rs) => KnownRecords(rs)'  BY <1>1 DEF KnownRecords, UsedPlans, I!Active
<1>3. Late' <=> Late  BY <1>1 DEF Late
<1>4. \A v : GoodReview(v) => GoodReview(v)'  BY <1>2, <1>3 DEF GoodReview
<1>5. \A ps : GoodPicks(ps) => GoodPicks(ps)'  BY <1>3 DEF GoodPicks
<1>6. \A p : GoodPlan(p) => GoodPlan(p)'  BY <1>5 DEF GoodPlan
<1>7. ASSUME NEW p, Waiting(p) PROVE Waiting(p)'
  <2>1. UsedPlans' = UsedPlans /\ \A i \in UsedPlans : i \in DOMAIN plans  BY <1>1 DEF UsedPlans, RecordsKnown
  <2>2. \E i \in DOMAIN plans' : plans'[i] = p  BY <1>7 DEF Accepted, Waiting
  <2>3. Late' \/ \A s \in p.picks : ~found'[s.row].resolved  BY <1>1, <1>3, <1>7 DEF Waiting
  <2>4. ASSUME NEW i \in DOMAIN plans', plans'[i] = p, \A j \in DOMAIN plans' : plans'[j] = p => j <= i, i \in UsedPlans
        PROVE  FALSE
    <3>1. i \in DOMAIN plans /\ plans[i] = p  BY <2>1, <2>4 DEF Accepted
    <3>2. \A j \in DOMAIN plans : plans[j] = p => j <= i  BY <2>4 DEF Accepted
    <3> QED BY <1>7, <2>4, <3>1, <3>2 DEF Waiting, LastOf
  <2> QED BY <2>1, <2>2, <2>3, <2>4 DEF Waiting, LastOf
<1> QED BY <1>2, <1>3, <1>4, <1>5, <1>6, <1>7

LEMMA PlanServedKeeps ==
  ASSUME RowsApart, NoneIsNoReview, RemovalInv, I!PlanServed
  PROVE  RemovalInv'
<1>1. /\ FoundKnown /\ RecordsKnown /\ OnePlan /\ PlansKnown
      /\ DialogKnown /\ ReadsKnown /\ CallKnown /\ DOMAIN dialog = DialogFields
  BY DEF RemovalInv, DialogKnown
<1>2. /\ UNCHANGED <<found, records, scan, generation, dialog, reads>>
      /\ call # None /\ call.kind = "plan" /\ call.got = None  BY DEF I!PlanServed, I!Asked
<1>3. PICK arg : arg = call.arg  OBVIOUS
<1>4. DOMAIN arg = {"album", "picks"} /\ GoodPicks(arg.picks)
  <2>1. DOMAIN call.arg = {"album", "picks"} /\ GoodPicks(call.arg.picks)  BY <1>1, <1>2 DEF CallKnown
  <2> QED BY <1>3, <2>1
<1>5. CASE UNCHANGED plans /\ call' = I!Answer("conflict", None)  BY <1>2, <1>5, Refusing
<1>6. CASE /\ plans' = Append(plans, arg) /\ call' = I!Answer("ok", None)
           /\ \A s \in arg.picks :
                /\ I!Row(s.row).album = arg.album /\ found[s.row].scan # 0 /\ found[s.row].rev = s.rev
                /\ s.keep \in I!Row(s.row).pages /\ s.remove # {} /\ s.remove \subseteq I!Row(s.row).pages \ {s.keep}
  <2>1. Accepted
    <3>1. PICK Q, S : plans \in Seq(Q) /\ S = Q \cup {arg}  BY <1>1 DEF PlansKnown
    <3>2. plans \in Seq(S) /\ arg \in S  BY <3>1
    <3>3. /\ Len(plans) \in Nat /\ DOMAIN plans = 1 .. Len(plans)
          /\ DOMAIN plans' = 1 .. Len(plans) + 1 /\ plans'[Len(plans) + 1] = arg
          /\ \A i \in DOMAIN plans : plans'[i] = plans[i]  BY <1>6, <3>2
    <3> QED BY <1>2, <1>3, <3>3 DEF Accepted
  <2>2. GoodPlan(arg)  BY <1>4, <1>6 DEF GoodPlan
  <2>3. FoundKnown'  BY <1>1, <1>2 DEF FoundKnown, Late
  <2>4. RecordsKnown'  BY <1>1, <2>1 DEF RecordsKnown, Accepted
  <2>5. OnePlan'
    <3>1. I!Active(records)' = I!Active(records) /\ (Late' <=> Late)  BY <1>2 DEF Late, I!Active
    <3>2. CASE Late  BY <3>1, <3>2 DEF OnePlan
    <3>3. CASE ~Late
      <4>1. \A r \in I!Active(records) : plans'[r.plan] = plans[r.plan]
        BY <1>1, <2>1 DEF Accepted, RecordsKnown, I!Active
      <4> SUFFICES \A r, q \in I!Active(records) :
                     /\ \A s \in plans'[r.plan].picks : found[s.row].scan = r.scan => found[s.row].resolved
                     /\ \A s \in plans'[r.plan].picks, t \in plans'[q.plan].picks :
                          s.row = t.row /\ r.scan = q.scan => r.plan = q.plan  BY <1>2, <3>1 DEF OnePlan
      <4> QED BY <1>1, <3>3, <4>1 DEF OnePlan
    <3> QED BY <3>2, <3>3
  <2>6. PlansKnown'
    <3>1. \A i \in DOMAIN plans' : GoodPlan(plans[i])'
      <4> SUFFICES ASSUME NEW i \in DOMAIN plans' PROVE GoodPlan(plans[i])'  OBVIOUS
      <4>1. PICK p : p = plans'[i]  OBVIOUS
      <4>2. GoodPlan(p)  BY <1>1, <1>3, <2>1, <2>2, <4>1 DEF Accepted, PlansKnown
      <4>3. GoodPlan(p)'  BY <1>1, <2>1, <4>2, AcceptedSame
      <4> QED BY <4>1, <4>3 DEF GoodPlan, GoodPicks
    <3>2. PICK S : plans \in Seq(S)  BY <1>1 DEF PlansKnown
    <3>3. PICK T : T = S \cup {arg}  OBVIOUS
    <3>4. plans \in Seq(T) /\ arg \in T  BY <3>2, <3>3
    <3>5. plans' \in Seq(T)  BY <1>6, <3>4
    <3> QED BY <3>1, <3>5 DEF PlansKnown
  <2>7. Waiting(arg)'
    <3>1. \A i \in DOMAIN plans' : plans'[i] = arg /\ (\A j \in DOMAIN plans' : plans'[j] = arg => j <= i) => i \notin UsedPlans'
      <4> SUFFICES ASSUME NEW i \in DOMAIN plans', plans'[i] = arg, \A j \in DOMAIN plans' : plans'[j] = arg => j <= i
                   PROVE  i \notin UsedPlans'  OBVIOUS
      <4>1. i = Len(plans) + 1  BY <1>3, <2>1 DEF Accepted
      <4>2. \A u \in UsedPlans' : u \in 1 .. Len(plans)  BY <1>1, <1>2, <2>1 DEF UsedPlans, RecordsKnown, Accepted
      <4> QED BY <2>1, <4>1, <4>2 DEF Accepted
    <3>2. \E i \in DOMAIN plans' : plans'[i] = arg  BY <1>3, <2>1 DEF Accepted
    <3>3. Late' \/ \A s \in arg.picks : ~found'[s.row].resolved
      <4>1. Late' <=> Late  BY <1>2 DEF Late
      <4>2. ASSUME ~Late, NEW s \in arg.picks PROVE ~found[s.row].resolved
        <5>1. s.row \in I!AllIds /\ Even(s.rev)  BY <1>4, <4>2 DEF GoodPicks
        <5>2. found[s.row].rev = s.rev  BY <1>6
        <5>3. PICK id \in I!AllIds : id = s.row  BY <5>1
        <5>4. found[id].resolved <=> ~Even(found[id].rev)  BY <1>1, <4>2 DEF FoundKnown
        <5> QED BY <5>1, <5>2, <5>3, <5>4
      <4> QED BY <1>2, <4>1, <4>2
    <3> QED BY <3>1, <3>2, <3>3 DEF Waiting, LastOf
  <2>8. /\ DOMAIN call' = {"kind", "arg", "of", "got"} /\ call'.kind = "plan" /\ call'.arg = arg
        /\ DOMAIN call'.got = {"how", "review"} /\ call'.got # None  BY <1>1, <1>2, <1>3, <1>6, Answering
  <2>9. CallKnown'
    <3>1. GoodPicks(arg.picks)'  BY <1>1, <1>4, <2>1, AcceptedSame
    <3>2. PICK ps : ps = arg.picks  OBVIOUS
    <3>3. GoodPicks(call.arg.picks)' /\ DOMAIN call'.arg = {"album", "picks"}  BY <1>4, <2>8, <3>1, <3>2, ReadAs
    <3>4. Waiting(call.arg)'  BY <2>7, <2>8, ReadAs
    <3> QED BY <2>8, <3>3, <3>4 DEF CallKnown
  <2>10. DialogKnown'
    <3>1. ~Applied  BY <1>2 DEF Applied
    <3>2. dialog.review # None => GoodReview(dialog.review)'  BY <1>1, <1>2, <2>1, DialogNow, AcceptedSame, ReadAs
    <3>3. dialog.plan # None => Waiting(dialog.plan)'  BY <1>1, <1>2, <2>1, <3>1, DialogNow, AcceptedSame, ReadAs
    <3> QED BY <1>1, <1>2, <3>2, <3>3 DEF DialogKnown
  <2>11. ReadsKnown'
    <3> SUFFICES ASSUME NEW r \in reads PROVE DOMAIN r = {"token", "entry", "got"} /\ (r.got # None => GoodReview(r.got)')
      BY <1>2 DEF ReadsKnown
    <3>1. PICK v : v = r.got  OBVIOUS
    <3>2. DOMAIN r = {"token", "entry", "got"} /\ (v # None => GoodReview(v))  BY <1>1, <3>1 DEF ReadsKnown
    <3> QED BY <1>1, <2>1, <3>1, <3>2, AcceptedSame
  <2> QED BY <2>3, <2>4, <2>5, <2>6, <2>9, <2>10, <2>11 DEF RemovalInv
<1> QED BY <1>3, <1>5, <1>6 DEF I!PlanServed

(* The rows that a step counts up. *)
RowsBumped(ids, b) ==
  /\ DOMAIN found' = I!AllIds
  /\ \A id \in I!AllIds :
       /\ id \in ids => /\ DOMAIN found'[id] = RowFields /\ found'[id].rev = found[id].rev + 1
                        /\ (found'[id].resolved <=> b) /\ found'[id].scan = found[id].scan
       /\ id \notin ids => found'[id] = found[id]

LEMMA BumpedFields ==
  ASSUME FoundKnown, NEW ids, NEW b \in BOOLEAN, found' = I!Bumped(ids, b)
  PROVE  RowsBumped(ids, b)
<1>1. \A x : DOMAIN x = RowFields => LET y == [x EXCEPT !.rev = @ + 1, !.resolved = b] IN
        DOMAIN y = RowFields /\ y.rev = x.rev + 1 /\ y.resolved = b /\ y.scan = x.scan  BY DEF RowFields
<1>2. DOMAIN found' = I!AllIds  BY DEF I!Bumped
<1>3. \A id \in I!AllIds : /\ id \in ids => found'[id] = [found[id] EXCEPT !.rev = @ + 1, !.resolved = b]
                           /\ id \notin ids => found'[id] = found[id]  BY DEF I!Bumped
<1>4. \A id \in I!AllIds : DOMAIN found[id] = RowFields  BY DEF FoundKnown
<1>5. ASSUME NEW id \in I!AllIds, id \in ids
      PROVE  /\ DOMAIN found'[id] = RowFields /\ found'[id].rev = found[id].rev + 1
             /\ (found'[id].resolved <=> b) /\ found'[id].scan = found[id].scan
  <2>1. PICK x, y : x = found[id] /\ y = [x EXCEPT !.rev = @ + 1, !.resolved = b]  OBVIOUS
  <2>2. DOMAIN y = RowFields /\ y.rev = x.rev + 1 /\ y.resolved = b /\ y.scan = x.scan  BY <1>1, <1>4, <2>1
  <2>3. found'[id] = y  BY <1>3, <1>5, <2>1
  <2> QED BY <2>1, <2>2, <2>3
<1> QED BY <1>2, <1>3, <1>5 DEF RowsBumped

LEMMA BumpKeepsFound ==
  ASSUME FoundKnown, UNCHANGED <<scan, generation>>, NEW ids, NEW b \in BOOLEAN, RowsBumped(ids, b), Late => Late',
         Late' \/ \A id \in ids : id \in I!AllIds => (found[id].resolved <=> ~b)
  PROVE  FoundKnown'
<1>1. \A n \in Nat : Even(n + 1) <=> ~Even(n)  BY DEF Even
<1>2. \A id \in I!AllIds :
        /\ DOMAIN found[id] = RowFields /\ found[id].rev \in Nat /\ found[id].scan \in Nat
        /\ found[id].scan <= generation /\ (scan.state = "running" => found[id].scan < generation)
        /\ Late \/ (found[id].resolved <=> ~Even(found[id].rev))  BY DEF FoundKnown
<1>3. ASSUME NEW id \in I!AllIds
      PROVE  /\ DOMAIN found'[id] = RowFields /\ found'[id].rev \in Nat /\ found'[id].scan \in Nat
             /\ found'[id].scan <= generation /\ (scan.state = "running" => found'[id].scan < generation)
             /\ Late' \/ (found'[id].resolved <=> ~Even(found'[id].rev))
  <2>1. CASE id \in ids
    <3>1. /\ DOMAIN found'[id] = RowFields /\ found'[id].rev = found[id].rev + 1
          /\ (found'[id].resolved <=> b) /\ found'[id].scan = found[id].scan  BY <2>1 DEF RowsBumped
    <3>2. found'[id].rev \in Nat /\ (Even(found'[id].rev) <=> ~Even(found[id].rev))  BY <1>1, <1>2, <3>1
    <3> QED BY <1>2, <2>1, <3>1, <3>2
  <2>2. CASE id \notin ids
    <3>1. found'[id] = found[id]  BY <2>2 DEF RowsBumped
    <3> QED BY <1>2, <3>1
  <2> QED BY <2>1, <2>2
<1>4. \A id \in I!AllIds : found'[id].scan = found[id].scan  BY DEF RowsBumped
<1>5. \A i, j \in I!AllIds : I!Row(i).album = I!Row(j).album => found'[i].scan = found'[j].scan
  BY <1>4 DEF FoundKnown
<1>6. DOMAIN found' = I!AllIds /\ generation' \in Nat /\ DOMAIN scan' = {"state", "albums", "progress"}
  BY DEF RowsBumped, FoundKnown
<1> QED BY <1>3, <1>5, <1>6 DEF FoundKnown

----
(* Applying a plan. *)

Made(p, k, s, g) ==
  [page |-> g, album |-> p.album, plan |-> k, state |-> "quarantined", scan |-> found[s.row].scan, rev |-> found[s.row].rev]

CarriedOut(p, k) ==
  /\ UNCHANGED <<plans, scan, generation, dialog, reads>>
  /\ Waiting(p) /\ GoodPlan(p) /\ LastOf(p, k) /\ k \notin UsedPlans
  /\ RowsBumped({s.row : s \in p.picks}, TRUE)
  /\ records \subseteq records'
  /\ \A r \in records' : r \in records \/ \E s \in p.picks : \E g \in s.remove : r = Made(p, k, s, g)

LEMMA MadeFields ==
  ASSUME NEW p, NEW k, NEW s, NEW g, NEW r, r = Made(p, k, s, g)
  PROVE  /\ DOMAIN r = RecordFields /\ r.page = g /\ r.album = p.album /\ r.plan = k /\ r.state = "quarantined"
         /\ r.scan = found[s.row].scan  BY DEF Made, RecordFields

LEMMA NewOnes ==
  ASSUME NEW p, NEW k, CarriedOut(p, k), NEW r \in records', r \notin records
  PROVE  /\ DOMAIN r = RecordFields /\ r.album = p.album /\ r.plan = k /\ r.state = "quarantined"
         /\ \E s \in p.picks : r.page \in s.remove /\ r.scan = found[s.row].scan /\ r = Made(p, k, s, r.page)
<1>1. PICK s \in p.picks : \E h \in s.remove : r = Made(p, k, s, h)  BY DEF CarriedOut
<1>3. PICK g \in s.remove : r = Made(p, k, s, g)  BY <1>1
<1>2. /\ DOMAIN r = RecordFields /\ r.page = g /\ r.album = p.album /\ r.plan = k /\ r.state = "quarantined"
      /\ r.scan = found[s.row].scan  BY <1>3, MadeFields
<1> QED BY <1>2, <1>3

LEMMA CarriedSame ==
  ASSUME NEW p, NEW k, CarriedOut(p, k)
  PROVE  /\ Late' <=> Late
         /\ \A rs : KnownRecords(rs) => KnownRecords(rs)'
         /\ \A v : GoodReview(v) => GoodReview(v)'
         /\ \A ps : GoodPicks(ps) => GoodPicks(ps)'
<1>1. records \subseteq records' /\ k \notin UsedPlans  BY DEF CarriedOut
<1>2. \A r \in records' : r \in records \/ (r.plan = k /\ r.state = "quarantined")  BY NewOnes
<1>3. Late' <=> Late  BY <1>1, <1>2 DEF Late
<1>4. ASSUME NEW rs, KnownRecords(rs) PROVE KnownRecords(rs)'
  <2>1. \A r \in rs : r.plan \in UsedPlans' /\ r.plan # k  BY <1>1, <1>4 DEF KnownRecords, UsedPlans
  <2>2. ASSUME NEW r \in I!Active(records'), NEW q \in I!Active(records'), r.plan = q.plan PROVE r \in rs <=> q \in rs
    <3>1. CASE r.plan = k  BY <2>1, <2>2, <3>1
    <3>2. CASE r.plan # k
      <4>1. r \in I!Active(records) /\ q \in I!Active(records)  BY <1>2, <2>2, <3>2 DEF I!Active
      <4> QED BY <1>4, <2>2, <4>1 DEF KnownRecords
    <3> QED BY <3>1, <3>2
  <2> QED BY <2>1, <2>2 DEF KnownRecords
<1>5. \A v : GoodReview(v) => GoodReview(v)'  BY <1>3, <1>4 DEF GoodReview
<1>6. \A ps : GoodPicks(ps) => GoodPicks(ps)'  BY <1>3 DEF GoodPicks
<1> QED BY <1>3, <1>4, <1>5, <1>6

(* A review of what a step has left. *)
LEMMA NextReviewsAreGood ==
  ASSUME RowsApart, FoundKnown', RecordsKnown', NEW a
  PROVE  GoodReview(I!Review(a, found, records))'
<1>1. PICK v : v = I!Review(a, found', records')  OBVIOUS
<1>2. PICK ids : ids = {i \in I!RowsOf(a) : found'[i].scan # 0 /\ ~found'[i].resolved}  OBVIOUS
<1>3. v = [entry |-> a, revs |-> [id \in ids |-> found'[id].rev], records |-> {r \in records' : r.album = a}]
  BY <1>1, <1>2 DEF I!Review
<1>4. /\ DOMAIN v = {"entry", "revs", "records"} /\ DOMAIN v.revs = ids /\ \A id \in ids : v.revs[id] = found'[id].rev
      /\ v.records = {r \in records' : r.album = a}  BY <1>3
<1>5. \A id \in ids : id \in I!AllIds /\ ~found'[id].resolved  BY <1>2 DEF I!RowsOf, I!AllIds
<1>6. \A id \in ids : found'[id].rev \in Nat /\ (Late' \/ Even(found'[id].rev))  BY <1>5 DEF FoundKnown
<1>7. KnownRecords(v.records)'
  <2>1. PICK rs : rs = v.records  OBVIOUS
  <2>2. \A r \in rs : r.plan \in UsedPlans'  BY <1>4, <2>1 DEF UsedPlans
  <2>3. \A r, q \in I!Active(records)' : r.plan = q.plan => (r \in rs <=> q \in rs)
    BY <1>4, <2>1 DEF I!Active, RecordsKnown
  <2>4. KnownRecords(rs)'  BY <2>2, <2>3 DEF KnownRecords
  <2> QED BY <2>1, <2>4
<1>8. GoodReview(v)'  BY <1>4, <1>5, <1>6, <1>7 DEF GoodReview
<1>9. I!Review(a, found, records)' = v  BY <1>1 DEF I!Review
<1> QED BY <1>8, <1>9 DEF GoodReview, KnownRecords

LEMMA CarriedKeepsBackend ==
  ASSUME RowsApart, FoundKnown, RecordsKnown, OnePlan, PlansKnown, NEW p, NEW k, CarriedOut(p, k)
  PROVE  FoundKnown' /\ RecordsKnown' /\ OnePlan' /\ PlansKnown'
<1>1. /\ UNCHANGED <<plans, scan, generation>> /\ records \subseteq records' /\ k \notin UsedPlans
      /\ k \in DOMAIN plans /\ plans[k] = p /\ Waiting(p) /\ GoodPlan(p)  BY DEF CarriedOut, LastOf
<1>2. Late' <=> Late  BY CarriedSame
<1>3. /\ \A s \in p.picks : s.row \in I!AllIds /\ I!Row(s.row).album = p.album /\ s.remove \subseteq I!Row(s.row).pages
      /\ \A s, t \in p.picks : s.row = t.row => s = t
      /\ Late \/ \A s \in p.picks : ~found[s.row].resolved  BY <1>1 DEF GoodPlan, GoodPicks, Waiting
<1>4. \A r \in records : r.plan # k  BY <1>1 DEF UsedPlans
<1>5. PICK ids : ids = {s.row : s \in p.picks}  OBVIOUS
<1>6. RowsBumped(ids, TRUE) /\ (Late' \/ \A id \in ids : id \in I!AllIds => (found[id].resolved <=> FALSE))
  BY <1>2, <1>3, <1>5 DEF CarriedOut
<1>7. FoundKnown'  BY <1>1, <1>2, <1>6, BumpKeepsFound
<1>8. ASSUME NEW s \in p.picks
      PROVE  /\ found[s.row].scan \in Nat /\ found[s.row].scan <= generation
             /\ (scan.state = "running" => found[s.row].scan < generation)  BY <1>3 DEF FoundKnown
<1>9. RecordsKnown'
  <2>1. ASSUME NEW r \in records'
        PROVE  /\ DOMAIN r = RecordFields /\ r.plan \in DOMAIN plans
               /\ r.scan \in Nat /\ r.scan <= generation /\ (scan.state = "running" => r.scan < generation)
               /\ r.album = plans[r.plan].album /\ \E s \in plans[r.plan].picks : r.page \in s.remove
    <3>1. CASE r \in records  BY <3>1 DEF RecordsKnown
    <3>2. CASE r \notin records
      <4>1. DOMAIN r = RecordFields /\ r.album = p.album /\ r.plan = k  BY <3>2, NewOnes
      <4>2. PICK s \in p.picks : r.page \in s.remove /\ r.scan = found[s.row].scan  BY <3>2, NewOnes
      <4>3. r.scan \in Nat /\ r.scan <= generation /\ (scan.state = "running" => r.scan < generation)  BY <1>8, <4>2
      <4> QED BY <1>1, <4>1, <4>2, <4>3
    <3> QED BY <3>1, <3>2
  <2>2. ASSUME NEW r \in records', NEW q \in records', r.plan = q.plan, r.page = q.page PROVE r = q
    <3>1. CASE r \in records /\ q \in records  BY <2>2, <3>1 DEF RecordsKnown
    <3>2. CASE r \notin records /\ q \notin records
      <4>1. PICK s \in p.picks : r.page \in s.remove /\ r = Made(p, k, s, r.page)  BY <3>2, NewOnes
      <4>2. PICK t \in p.picks : q.page \in t.remove /\ q = Made(p, k, t, q.page)  BY <3>2, NewOnes
      <4>3. I!Row(s.row).pages \cap I!Row(t.row).pages # {}  BY <1>3, <2>2, <4>1, <4>2
      <4>4. s.row = t.row  BY <1>3, <4>3, RowFacts
      <4>5. s = t  BY <1>3, <4>4
      <4> QED BY <2>2, <4>1, <4>2, <4>5
    <3>3. CASE r \in records /\ q \notin records  BY <1>4, <2>2, <3>3, NewOnes
    <3>4. CASE r \notin records /\ q \in records  BY <1>4, <2>2, <3>4, NewOnes
    <3> QED BY <3>1, <3>2, <3>3, <3>4
  <2> QED BY <1>1, <2>1, <2>2 DEF RecordsKnown
<1>10. OnePlan'
  <2>1. CASE Late  BY <1>2, <2>1 DEF OnePlan
  <2>2. CASE ~Late
    <3>1. \A r \in I!Active(records') : r \in records => r \in I!Active(records)  BY DEF I!Active
    <3>2. ASSUME NEW r \in I!Active(records'), NEW s \in plans[r.plan].picks, found'[s.row].scan = r.scan
          PROVE  found'[s.row].resolved
      <4>1. r \in records' /\ r.plan \in DOMAIN plans  BY <1>1, <1>9 DEF I!Active, RecordsKnown
      <4>2. s.row \in I!AllIds  BY <4>1 DEF PlansKnown, GoodPlan, GoodPicks
      <4>3. CASE s.row \in ids  BY <1>6, <4>2, <4>3 DEF RowsBumped
      <4>4. CASE s.row \notin ids
        <5>1. r \in records  BY <1>1, <1>5, <4>1, <4>4, NewOnes
        <5>2. found'[s.row] = found[s.row]  BY <1>6, <4>2, <4>4 DEF RowsBumped
        <5> QED BY <2>2, <3>1, <3>2, <5>1, <5>2 DEF OnePlan
      <4> QED BY <4>3, <4>4
    <3>3. ASSUME NEW r \in I!Active(records'), NEW q \in I!Active(records'), r \notin records, q \in records,
                 NEW s \in p.picks, NEW t \in plans[q.plan].picks, s.row = t.row, r.scan = q.scan
          PROVE  FALSE
      <4>1. PICK u \in p.picks : r.scan = found[u.row].scan  BY <3>3, NewOnes DEF I!Active
      <4>2. found[u.row].scan = found[s.row].scan  BY <1>3 DEF FoundKnown
      <4>3. q \in I!Active(records)  BY <3>1, <3>3
      <4>4. found[t.row].resolved
        <5>1. found[t.row].scan = q.scan  BY <3>3, <4>1, <4>2
        <5> QED BY <2>2, <4>3, <5>1 DEF OnePlan
      <4> QED BY <1>3, <2>2, <3>3, <4>4
    <3>4. ASSUME NEW r \in I!Active(records'), NEW q \in I!Active(records'),
                 NEW s \in plans[r.plan].picks, NEW t \in plans[q.plan].picks, s.row = t.row, r.scan = q.scan
          PROVE  r.plan = q.plan
      <4>1. r \in records' /\ q \in records'  BY DEF I!Active
      <4>2. CASE r \in records /\ q \in records  BY <2>2, <3>1, <3>4, <4>2 DEF OnePlan
      <4>3. CASE r \notin records /\ q \notin records  BY <4>1, <4>3, NewOnes
      <4>4. CASE r \notin records /\ q \in records
        <5>1. plans[r.plan] = p  BY <1>1, <4>1, <4>4, NewOnes
        <5> QED BY <3>3, <3>4, <4>4, <5>1
      <4>5. CASE r \in records /\ q \notin records
        <5>1. plans[q.plan] = p  BY <1>1, <4>1, <4>5, NewOnes
        <5> QED BY <3>3, <3>4, <4>5, <5>1
      <4> QED BY <4>2, <4>3, <4>4, <4>5
    <3>5. I!Active(records)' = I!Active(records') /\ plans' = plans  BY <1>1 DEF I!Active
    <3> QED BY <3>2, <3>4, <3>5 DEF OnePlan
  <2> QED BY <2>1, <2>2
<1>11. PlansKnown'  BY <1>1, <1>2, PlansStay
<1> QED BY <1>7, <1>9, <1>10, <1>11

LEMMA ApplyServedKeeps ==
  ASSUME RowsApart, NoneIsNoReview, RemovalInv, I!ApplyServed
  PROVE  RemovalInv'
<1>1. /\ FoundKnown /\ RecordsKnown /\ OnePlan /\ PlansKnown
      /\ DialogKnown /\ ReadsKnown /\ CallKnown /\ DOMAIN dialog = DialogFields
  BY DEF RemovalInv, DialogKnown
<1>2. /\ UNCHANGED <<plans, scan, generation, dialog, reads>>
      /\ call # None /\ call.kind = "apply" /\ call.got = None  BY DEF I!ApplyServed, I!Asked
<1>3. CASE call' = I!Answer("refused", None) /\ UNCHANGED <<found, records>>  BY <1>2, <1>3, Refusing
<1>4. PICK p : p = call.arg  OBVIOUS
<1>5. PICK k : k = I!PlanIndex(p)  OBVIOUS
<1>6. PICK made : made = UNION {{Made(call.arg, I!PlanIndex(call.arg), s, g) : g \in s.remove} : s \in call.arg.picks}
  OBVIOUS
<1>7. CASE /\ found' = I!Bumped({s.row : s \in p.picks}, TRUE) /\ records' = records \cup made
           /\ call' = I!Answer("ok", I!Review(p.album, found', records'))
  <2>1. CarriedOut(p, k)
    <3>1. Waiting(p)
      <4>1. Waiting(call.arg)  BY <1>1, <1>2 DEF CallKnown
      <4> QED BY <1>4, <4>1
    <3>2. GoodPlan(p)  BY <1>1, <3>1, WaitingIsGood
    <3>3. LastOf(p, k)  BY <1>1, <1>5, <3>1, LastIndex DEF Waiting
    <3>4. k \notin UsedPlans  BY <3>1, <3>3 DEF Waiting, LastOf
    <3>5. PICK ids : ids = {s.row : s \in p.picks}  OBVIOUS
    <3>6. RowsBumped(ids, TRUE)  BY <1>1, <1>7, <3>5, BumpedFields
    <3>7. \A r \in made : \E s \in p.picks : \E g \in s.remove : r = Made(p, k, s, g)
      <4>1. \A r \in made : \E s \in call.arg.picks : \E g \in s.remove : r = Made(call.arg, I!PlanIndex(call.arg), s, g)
        BY <1>6, Zenon
      <4> QED BY <1>4, <1>5, <4>1, Zenon
    <3> QED BY <1>2, <1>7, <3>1, <3>2, <3>3, <3>4, <3>5, <3>6, <3>7 DEF CarriedOut
  <2>2. FoundKnown' /\ RecordsKnown' /\ OnePlan' /\ PlansKnown'  BY <1>1, <2>1, CarriedKeepsBackend
  <2>3. PICK a, v : a = p.album /\ v = I!Review(a, found', records')  OBVIOUS
  <2>4. GoodReview(v)'
    <3>1. GoodReview(I!Review(a, found, records))'  BY <2>2, NextReviewsAreGood
    <3>2. I!Review(a, found, records)' = v  BY <2>3 DEF I!Review
    <3> QED BY <3>1, <3>2 DEF GoodReview, KnownRecords
  <2>5. call' = I!Answer("ok", v)  BY <1>7, <2>3
  <2>6. /\ DOMAIN call' = {"kind", "arg", "of", "got"} /\ call'.kind = "apply"
        /\ DOMAIN call'.got = {"how", "review"} /\ call'.got.how = "ok" /\ call'.got.review = v /\ call'.got # None
    BY <1>1, <1>2, <2>5, Answering
  <2>7. GoodReview(call.got.review)'  BY <2>4, <2>6, ReadAs
  <2>8. CallKnown'  BY <2>6, <2>7 DEF CallKnown
  <2>9. call' # None  BY <2>6 DEF NoneIsNoReview
  <2>10. Applied'  BY <2>6, <2>9 DEF Applied
  <2>11. DialogKnown'
    <3>1. dialog.review # None => GoodReview(dialog.review)'  BY <1>1, <1>2, <2>1, DialogNow, CarriedSame, ReadAs
    <3> QED BY <1>1, <1>2, <2>10, <3>1 DEF DialogKnown
  <2>12. ReadsKnown'
    <3> SUFFICES ASSUME NEW r \in reads PROVE DOMAIN r = {"token", "entry", "got"} /\ (r.got # None => GoodReview(r.got)')
      BY <1>2 DEF ReadsKnown
    <3>1. PICK w : w = r.got  OBVIOUS
    <3>2. DOMAIN r = {"token", "entry", "got"} /\ (w # None => GoodReview(w))  BY <1>1, <3>1 DEF ReadsKnown
    <3> QED BY <2>1, <3>1, <3>2, CarriedSame
  <2> QED BY <2>2, <2>8, <2>11, <2>12 DEF RemovalInv
<1>8. ASSUME call' # I!Answer("refused", None) \/ ~UNCHANGED <<found, records>>
      PROVE  /\ found' = I!Bumped({s.row : s \in p.picks}, TRUE) /\ records' = records \cup made
             /\ call' = I!Answer("ok", I!Review(p.album, found', records'))
  <2>1. made = UNION {{[page |-> g, album |-> call.arg.album, plan |-> I!PlanIndex(call.arg), state |-> "quarantined",
                       scan |-> found[s.row].scan, rev |-> found[s.row].rev] : g \in s.remove} : s \in call.arg.picks}
    BY <1>6, Zenon DEF Made
  <2> QED BY <1>4, <1>8, <2>1, Zenon DEF I!ApplyServed
<1> QED BY <1>3, <1>7, <1>8

----
(* Undoing. *)

Restored(q) == [q EXCEPT !.state = IF I!OfThisScan(q) THEN "restored" ELSE "restored late"]

Undone(back) ==
  /\ UNCHANGED <<plans, scan, generation, dialog, reads>>
  /\ back \subseteq I!Active(records)
  /\ \A r \in back, q \in I!Active(records) : r.plan = q.plan => q \in back
  /\ RowsBumped({s.row : s \in UNION {plans[r.plan].picks : r \in back}}, FALSE)
  /\ records \ back \subseteq records'
  /\ \A r \in records' : r \in records \ back \/ \E q \in back : r = Restored(q)
  /\ \A q \in back : Restored(q) \in records'

LEMMA RestoredFields ==
  ASSUME RecordsKnown, NEW q \in I!Active(records), NEW r, r = Restored(q)
  PROVE  /\ DOMAIN r = RecordFields /\ r.page = q.page /\ r.album = q.album /\ r.plan = q.plan /\ r.scan = q.scan
         /\ r.state # "quarantined" /\ (~I!OfThisScan(q) => r.state = "restored late")
<1>1. DOMAIN q = RecordFields  BY DEF RecordsKnown, I!Active
<1>2. PICK st : st = IF I!OfThisScan(q) THEN "restored" ELSE "restored late"  OBVIOUS
<1>3. r = [q EXCEPT !.state = st]  BY <1>2 DEF Restored
<1>4. DOMAIN r = RecordFields /\ r.page = q.page /\ r.album = q.album /\ r.plan = q.plan /\ r.scan = q.scan /\ r.state = st
  BY <1>1, <1>3 DEF RecordFields
<1> QED BY <1>2, <1>4

LEMMA UndoneOnes ==
  ASSUME RecordsKnown, NEW back, Undone(back)
  PROVE  /\ UNCHANGED <<plans, scan, generation, dialog, reads>>
         /\ UsedPlans' = UsedPlans
         /\ Late => Late'
         /\ Late' \/ \A q \in back : I!OfThisScan(q)
         /\ I!Active(records)' = I!Active(records) \ back
<1>1. UNCHANGED <<plans, scan, generation, dialog, reads>>  BY DEF Undone
<1>2. /\ back \subseteq records /\ \A q \in back : q.state = "quarantined"
      /\ records \ back \subseteq records'  BY DEF Undone, I!Active
<1>3. \A r \in records' : r \in records \ back \/ \E q \in back : r.plan = q.plan /\ r.state # "quarantined"
  <2> SUFFICES ASSUME NEW r \in records', r \notin records \ back
               PROVE  \E q \in back : r.plan = q.plan /\ r.state # "quarantined"  OBVIOUS
  <2>1. PICK q \in back : r = Restored(q)  BY DEF Undone
  <2>2. q \in I!Active(records)  BY DEF Undone
  <2>3. r.plan = q.plan /\ r.state # "quarantined"  BY <2>1, <2>2, RestoredFields
  <2> QED BY <2>3
<1>4. \A q \in back : \E r \in records' : r.plan = q.plan /\ (~I!OfThisScan(q) => r.state = "restored late")
  BY RestoredFields DEF Undone
<1>5. UsedPlans' = UsedPlans
  <2>1. ASSUME NEW x \in UsedPlans PROVE x \in UsedPlans'
    <3>1. PICK r \in records : r.plan = x  BY <2>1 DEF UsedPlans
    <3>2. \E q \in records' : q.plan = x  BY <1>2, <1>4, <3>1
    <3> QED BY <3>2 DEF UsedPlans
  <2>2. ASSUME NEW x \in UsedPlans' PROVE x \in UsedPlans
    <3>1. PICK r \in records' : r.plan = x  BY <2>2 DEF UsedPlans
    <3>2. \E q \in records : q.plan = x  BY <1>2, <1>3, <3>1
    <3> QED BY <3>2 DEF UsedPlans
  <2> QED BY <2>1, <2>2
<1>6. Late => Late'  BY <1>2 DEF Late
<1>7. Late' \/ \A q \in back : I!OfThisScan(q)
  <2> SUFFICES ASSUME NEW q \in back, ~I!OfThisScan(q) PROVE Late'  OBVIOUS
  <2>1. \E r \in records' : r.state = "restored late"  BY <1>4
  <2> QED BY <2>1 DEF Late
<1>8. I!Active(records)' = I!Active(records) \ back
  <2>1. \A r : r \in I!Active(records') <=> r \in I!Active(records) \ back  BY <1>2, <1>3 DEF I!Active
  <2>2. I!Active(records)' = I!Active(records')  BY DEF I!Active
  <2> QED BY <2>1, <2>2
<1> QED BY <1>1, <1>5, <1>6, <1>7, <1>8

(* What was restored was one plan of its scan, and its rows wait for another choice. *)
LEMMA UndoneKeepsBackend ==
  ASSUME RowsApart, FoundKnown, RecordsKnown, OnePlan, PlansKnown, NEW back, Undone(back)
  PROVE  FoundKnown' /\ RecordsKnown' /\ OnePlan' /\ PlansKnown'
<1>1. /\ UNCHANGED <<plans, scan, generation, dialog, reads>>
      /\ UsedPlans' = UsedPlans /\ (Late => Late') /\ (Late' \/ \A q \in back : I!OfThisScan(q))
      /\ I!Active(records)' = I!Active(records) \ back  BY UndoneOnes
<1>2. PICK ids : ids = {s.row : s \in UNION {plans[r.plan].picks : r \in back}}  OBVIOUS
<1>3. RowsBumped(ids, FALSE)  BY <1>2 DEF Undone
<1>4. back \subseteq I!Active(records) /\ \A r \in back, q \in I!Active(records) : r.plan = q.plan => q \in back
  BY DEF Undone
<1>5. \A id \in ids : \E q \in back : \E s \in plans[q.plan].picks : s.row = id  BY <1>2
<1>6. ASSUME ~Late', NEW id \in ids PROVE found[id].resolved /\ \E q \in back : \E s \in plans[q.plan].picks :
                                            s.row = id /\ found[id].scan = q.scan
  <2>1. PICK q \in back : \E s \in plans[q.plan].picks : s.row = id  BY <1>5
  <2>2. PICK s \in plans[q.plan].picks : s.row = id  BY <2>1
  <2>3. found[s.row].scan = q.scan  BY <1>1, <1>6, <2>2 DEF I!OfThisScan
  <2>4. found[s.row].resolved  BY <1>1, <1>4, <1>6, <2>3 DEF OnePlan
  <2> QED BY <2>2, <2>3, <2>4
<1>7. FoundKnown'  BY <1>1, <1>3, <1>6, BumpKeepsFound
<1>8. \A r \in records' : \E q \in records : /\ r.page = q.page /\ r.album = q.album /\ r.plan = q.plan
                                             /\ r.scan = q.scan /\ DOMAIN r = RecordFields
                                             /\ (q \in back \/ r = q)
  <2>1. \A r \in records : DOMAIN r = RecordFields  BY DEF RecordsKnown
  <2>2. \A q \in back : q \in records  BY <1>4 DEF I!Active
  <2> SUFFICES ASSUME NEW r \in records', r \notin records \ back
               PROVE  \E q \in back : /\ r.page = q.page /\ r.album = q.album /\ r.plan = q.plan
                                       /\ r.scan = q.scan /\ DOMAIN r = RecordFields  BY <2>1, <2>2
  <2>3. PICK q \in back : r = Restored(q)  BY DEF Undone
  <2>4. q \in I!Active(records)  BY <1>4
  <2>5. /\ r.page = q.page /\ r.album = q.album /\ r.plan = q.plan
        /\ r.scan = q.scan /\ DOMAIN r = RecordFields  BY <2>3, <2>4, RestoredFields
  <2> QED BY <2>5
<1>9. RecordsKnown'
  <2>1. ASSUME NEW r \in records'
        PROVE  /\ DOMAIN r = RecordFields /\ r.plan \in DOMAIN plans
               /\ r.scan \in Nat /\ r.scan <= generation /\ (scan.state = "running" => r.scan < generation)
               /\ r.album = plans[r.plan].album /\ \E s \in plans[r.plan].picks : r.page \in s.remove
    <3>1. PICK q \in records : /\ r.page = q.page /\ r.album = q.album /\ r.plan = q.plan
                               /\ r.scan = q.scan /\ DOMAIN r = RecordFields  BY <1>8
    <3> QED BY <3>1 DEF RecordsKnown
  <2>2. ASSUME NEW r \in records', NEW q \in records', r.plan = q.plan, r.page = q.page PROVE r = q
    <3>1. \A x \in records, y \in records : x.plan = y.plan /\ x.page = y.page => x = y  BY DEF RecordsKnown
    <3>2. back \subseteq records  BY <1>4 DEF I!Active
    <3>3. CASE r \in records \ back /\ q \in records \ back  BY <2>2, <3>1, <3>3
    <3>4. CASE r \in records \ back /\ q \notin records \ back
      <4>1. PICK y \in back : y.plan = q.plan /\ y.page = q.page
        <5>1. PICK y \in back : q = Restored(y)  BY <3>4 DEF Undone
        <5>2. y \in I!Active(records)  BY <1>4
        <5> QED BY <5>1, <5>2, RestoredFields
      <4>2. y = r  BY <2>2, <3>1, <3>2, <3>4, <4>1
      <4> QED BY <3>4, <4>2
    <3>5. CASE q \in records \ back /\ r \notin records \ back
      <4>1. PICK y \in back : y.plan = r.plan /\ y.page = r.page
        <5>1. PICK y \in back : r = Restored(y)  BY <3>5 DEF Undone
        <5>2. y \in I!Active(records)  BY <1>4
        <5> QED BY <5>1, <5>2, RestoredFields
      <4>2. y = q  BY <2>2, <3>1, <3>2, <3>5, <4>1
      <4> QED BY <3>5, <4>2
    <3>6. CASE q \notin records \ back /\ r \notin records \ back
      <4>1. PICK x \in back : r = Restored(x)  BY <3>6 DEF Undone
      <4>2. PICK y \in back : q = Restored(y)  BY <3>6 DEF Undone
      <4>3. x.plan = y.plan /\ x.page = y.page  BY <1>4, <2>2, <4>1, <4>2, RestoredFields
      <4>4. x = y  BY <3>1, <3>2, <4>3
      <4> QED BY <4>1, <4>2, <4>4
    <3> QED BY <3>3, <3>4, <3>5, <3>6
  <2> QED BY <1>1, <2>1, <2>2 DEF RecordsKnown
<1>10. OnePlan'
  <2>1. CASE Late'  BY <2>1 DEF OnePlan
  <2>2. CASE ~Late'
    <3>1. ~Late  BY <1>1, <2>2
    <3>2. ASSUME NEW r \in I!Active(records) \ back, NEW s \in plans[r.plan].picks, found'[s.row].scan = r.scan
          PROVE  found'[s.row].resolved
      <4>1. r.plan \in DOMAIN plans  BY DEF I!Active, RecordsKnown
      <4>2. s.row \in I!AllIds  BY <4>1 DEF PlansKnown, GoodPlan, GoodPicks
      <4>3. s.row \notin ids
        <5> SUFFICES ASSUME s.row \in ids PROVE FALSE  OBVIOUS
        <5>1. PICK id \in ids : id = s.row  OBVIOUS
        <5>2. found'[s.row].scan = found[s.row].scan  BY <1>3, <4>2 DEF RowsBumped
        <5>3. PICK q \in back : \E t \in plans[q.plan].picks : t.row = id /\ found[id].scan = q.scan  BY <1>6, <2>2
        <5>4. q \in I!Active(records) /\ r.scan = q.scan  BY <1>4, <3>2, <5>1, <5>2, <5>3
        <5>5. q.plan = r.plan  BY <3>1, <5>1, <5>3, <5>4 DEF OnePlan
        <5> QED BY <1>4, <5>5
      <4>4. found'[s.row] = found[s.row]  BY <1>3, <4>2, <4>3 DEF RowsBumped
      <4> QED BY <3>1, <3>2, <4>4 DEF OnePlan
    <3>3. ASSUME NEW r \in I!Active(records) \ back, NEW q \in I!Active(records) \ back,
                 NEW s \in plans[r.plan].picks, NEW t \in plans[q.plan].picks, s.row = t.row, r.scan = q.scan
          PROVE  r.plan = q.plan  BY <3>1, <3>3 DEF OnePlan
    <3>4. plans' = plans  BY <1>1
    <3> QED BY <1>1, <3>2, <3>3, <3>4 DEF OnePlan
  <2> QED BY <2>1, <2>2
<1>11. PlansKnown'  BY <1>1, PlansStay
<1> QED BY <1>7, <1>9, <1>10, <1>11

LEMMA UndoServedKeeps ==
  ASSUME RowsApart, NoneIsNoReview, RemovalInv, I!UndoServed
  PROVE  RemovalInv'
<1>1. /\ FoundKnown /\ RecordsKnown /\ OnePlan /\ PlansKnown
      /\ DialogKnown /\ ReadsKnown /\ CallKnown /\ DOMAIN dialog = DialogFields
  BY DEF RemovalInv, DialogKnown
<1>2. /\ UNCHANGED <<plans, scan, generation, dialog, reads>>
      /\ call # None /\ call.kind = "undo" /\ call.got = None  BY DEF I!UndoServed, I!Asked
<1>3. PICK back : back = call.arg \cap records  OBVIOUS
<1>4. PICK ids : ids = {s.row : s \in UNION {plans[r.plan].picks : r \in back}}  OBVIOUS
<1>5. PICK after : after = (records \ back) \cup {Restored(r) : r \in back}  OBVIOUS
<1>6. \/ call' = I!Answer("refused", None) /\ UNCHANGED <<found, records>>
      \/ /\ found' = I!Bumped(ids, FALSE) /\ records' = after
         /\ call' = I!Answer("ok", I!Review((CHOOSE r \in back : TRUE).album, I!Bumped(ids, FALSE), after))
  <2>1. after = (records \ back) \cup {[r EXCEPT !.state = IF I!OfThisScan(r) THEN "restored" ELSE "restored late"] : r \in back}
    BY <1>5 DEF Restored
  <2> QED BY <1>3, <1>4, <2>1 DEF I!UndoServed
<1>7. CASE call' = I!Answer("refused", None) /\ UNCHANGED <<found, records>>  BY <1>2, <1>7, Refusing
<1>8. CASE /\ found' = I!Bumped(ids, FALSE) /\ records' = after
           /\ call' = I!Answer("ok", I!Review((CHOOSE r \in back : TRUE).album, I!Bumped(ids, FALSE), after))
  <2>1. KnownRecords(call.arg) /\ \A r \in call.arg : r.state = "quarantined"  BY <1>1, <1>2 DEF CallKnown
  <2>2. Undone(back)
    <3>1. back \subseteq I!Active(records)  BY <1>3, <2>1 DEF I!Active
    <3>2. \A r \in back, q \in I!Active(records) : r.plan = q.plan => q \in back
      BY <1>3, <2>1, <3>1 DEF KnownRecords, I!Active
    <3>3. RowsBumped(ids, FALSE)  BY <1>1, <1>8, BumpedFields
    <3> QED BY <1>2, <1>4, <1>5, <1>8, <3>1, <3>2, <3>3 DEF Undone
  <2>3. FoundKnown' /\ RecordsKnown' /\ OnePlan' /\ PlansKnown'  BY <1>1, <2>2, UndoneKeepsBackend
  <2>4. /\ UsedPlans' = UsedPlans /\ (Late => Late') /\ I!Active(records)' = I!Active(records) \ back
    BY <1>1, <2>2, UndoneOnes
  <2>5. \A rs : KnownRecords(rs) => KnownRecords(rs)'  BY <2>4 DEF KnownRecords
  <2>6. /\ \A v : GoodReview(v) => GoodReview(v)'
        /\ \A ps : GoodPicks(ps) => GoodPicks(ps)'  BY <2>4, <2>5 DEF GoodReview, GoodPicks
  <2>7. ASSUME NEW p, Waiting(p) PROVE Waiting(p)'
    <3>1. ASSUME NEW s \in p.picks, ~found[s.row].resolved PROVE ~found'[s.row].resolved
      <4>1. s.row \in I!AllIds  BY <1>1, <2>7, WaitingIsGood
      <4>2. PICK id \in I!AllIds : id = s.row  BY <4>1
      <4>3. RowsBumped(ids, FALSE)  BY <1>4, <2>2 DEF Undone
      <4>4. ~found'[id].resolved  BY <3>1, <4>2, <4>3 DEF RowsBumped
      <4> QED BY <4>2, <4>4
    <3> QED BY <1>2, <2>4, <2>7, <3>1 DEF Waiting, LastOf
  <2>8. PICK a, v : a = (CHOOSE r \in back : TRUE).album /\ v = I!Review(a, found', records')  OBVIOUS
  <2>9. GoodReview(v)'
    <3>1. GoodReview(I!Review(a, found, records))'  BY <2>3, NextReviewsAreGood
    <3>2. I!Review(a, found, records)' = v  BY <2>8 DEF I!Review
    <3> QED BY <3>1, <3>2 DEF GoodReview, KnownRecords
  <2>10. call' = I!Answer("ok", v)  BY <1>8, <2>8
  <2>11. /\ DOMAIN call' = {"kind", "arg", "of", "got"} /\ call'.kind = "undo" /\ call'.arg = call.arg
         /\ DOMAIN call'.got = {"how", "review"} /\ call'.got.review = v  BY <1>1, <1>2, <2>10, Answering
  <2>12. CallKnown'
    <3>1. GoodReview(call.got.review)'  BY <2>9, <2>11, ReadAs
    <3>2. PICK rs : rs = call.arg  OBVIOUS
    <3>3. KnownRecords(rs)'  BY <2>1, <2>5, <3>2
    <3>4. KnownRecords(call.arg)' /\ \A r \in call'.arg : r.state = "quarantined"  BY <2>1, <2>11, <3>2, <3>3, ReadAs
    <3> QED BY <2>11, <3>1, <3>4 DEF CallKnown
  <2>13. DialogKnown'
    <3>1. ~Applied  BY <1>2 DEF Applied
    <3>2. dialog.review # None => GoodReview(dialog.review)'  BY <1>1, <1>2, <2>6, DialogNow, ReadAs
    <3>3. dialog.plan # None => Waiting(dialog.plan)'  BY <1>1, <1>2, <2>7, <3>1, DialogNow, ReadAs
    <3> QED BY <1>1, <1>2, <3>2, <3>3 DEF DialogKnown
  <2>14. ReadsKnown'
    <3> SUFFICES ASSUME NEW r \in reads PROVE DOMAIN r = {"token", "entry", "got"} /\ (r.got # None => GoodReview(r.got)')
      BY <1>2 DEF ReadsKnown
    <3>1. PICK w : w = r.got  OBVIOUS
    <3>2. DOMAIN r = {"token", "entry", "got"} /\ (w # None => GoodReview(w))  BY <1>1, <3>1 DEF ReadsKnown
    <3> QED BY <2>6, <3>1, <3>2
  <2> QED BY <2>3, <2>12, <2>13, <2>14 DEF RemovalInv
<1> QED BY <1>6, <1>7, <1>8

----
LEMMA RemovalStarts ==
  ASSUME RowsApart, I!Init
  PROVE  RemovalInv
<1>1. /\ records = {} /\ plans = <<>> /\ generation = 1 /\ reads = {} /\ call = None
      /\ scan = [state |-> "completed", albums |-> {}, progress |-> 0]  BY DEF I!Init
<1>2. ~Late  BY <1>1 DEF Late
<1>3. FoundKnown
  <2>1. PICK r : r = [rev |-> 0, resolved |-> FALSE, scan |-> 1]  OBVIOUS
  <2>2. DOMAIN r = RowFields /\ r.rev = 0 /\ r.resolved = FALSE /\ r.scan = 1  BY <2>1 DEF RowFields
  <2>3. found = [id \in I!AllIds |-> r]  BY <2>1 DEF I!Init
  <2>4. DOMAIN found = I!AllIds /\ \A id \in I!AllIds : found[id] = r  BY <2>3
  <2>5. Even(0)  BY DEF Even
  <2>6. DOMAIN scan = {"state", "albums", "progress"} /\ scan.state = "completed"  BY <1>1
  <2>7. generation \in Nat /\ r.rev \in Nat /\ r.scan \in Nat /\ r.scan <= generation /\ Even(r.rev) /\ ~r.resolved
    BY <1>1, <2>2, <2>5
  <2> QED BY <2>2, <2>4, <2>6, <2>7 DEF FoundKnown
<1>4. RecordsKnown /\ OnePlan  BY <1>1 DEF RecordsKnown, OnePlan, I!Active
<1>5. PlansKnown
  <2>1. <<>> \in Seq({}) /\ DOMAIN <<>> = {}  OBVIOUS
  <2> QED BY <1>1, <2>1 DEF PlansKnown
<1>6. DialogKnown
  <2>1. PICK k, c : k = [id \in I!AllIds |-> I!Row(id).keep] /\ c = [b \in {r.block : r \in Rows} |-> {}]  OBVIOUS
  <2>2. dialog = [entry |-> None, review |-> None, plan |-> None, error |-> FALSE, token |-> 0, keep |-> k, chosen |-> c]
    BY <2>1 DEF I!Init
  <2>3. DOMAIN dialog = DialogFields /\ dialog.review = None /\ dialog.plan = None /\ dialog.keep = k
    BY <2>2 DEF DialogFields
  <2>4. DOMAIN k = I!AllIds /\ \A id \in I!AllIds : k[id] \in I!Row(id).pages  BY <2>1, RowFacts
  <2> QED BY <2>3, <2>4 DEF DialogKnown
<1>7. ReadsKnown /\ CallKnown  BY <1>1 DEF ReadsKnown, CallKnown
<1> QED BY <1>3, <1>4, <1>5, <1>6, <1>7 DEF RemovalInv

LEMMA RemovalKept ==
  ASSUME RowsApart, NoneIsNoReview, RemovalInv, [I!Next]_(I!vars)
  PROVE  RemovalInv'
<1>1. CASE UNCHANGED I!vars
  <2>1. DialogKnown /\ ReadsKnown /\ CallKnown /\ DOMAIN dialog = DialogFields  BY DEF RemovalInv, DialogKnown
  <2>2. UNCHANGED I!backendVars /\ UNCHANGED <<dialog, reads, call>> /\ UNCHANGED <<found, records, plans>> /\ (Applied' <=> Applied)
    BY <1>1 DEF I!vars, I!backendVars, Applied
  <2>3. \A q \in reads' : q \in reads  BY <2>2
  <2>4. DialogKnown'  BY <2>1, <2>2, DialogDrops
  <2>5. ReadsKnown'  BY <2>1, <2>2, <2>3, ReadsStay
  <2>6. CallKnown'  BY <2>1, <2>2, CallStays
  <2> QED BY <2>2, <2>4, <2>5, <2>6, BackendStays
<1>2. CASE \/ \E as : I!StartScan(as)
           \/ I!CancelScan
           \/ \E g \in DOMAIN timers : I!ScanStep(g)  BY <1>2, ScanStepKeeps
<1>3. CASE (\E a \in Albums : I!Open(a)) \/ I!Close \/ I!Retry  BY <1>3, OpenKeeps
<1>4. CASE \E r \in reads : I!ReadServed(r) \/ I!ReadAnswered(r)  BY <1>4, ReadServedKeeps, ReadAnsweredKeeps
<1>5. CASE (\E b, t : I!ToggleTrack(b, t)) \/ (\E id, p : I!KeepPage(id, p))  BY <1>5, ChoosingKeeps
<1>6. CASE I!Preview \/ I!Apply \/ I!UndoAll  BY <1>6, AskingKeeps
<1>7. CASE I!PlanAnswered  BY <1>7, PlanAnsweredKeeps
<1>8. CASE I!ApplyAnswered \/ I!UndoAnswered
  <2>1. CASE I!Got("apply") /\ UNCHANGED I!backendVars /\ I!Conflicts
    <3>1. call # None /\ ~Applied  BY <2>1 DEF I!Got, I!Conflicts, Applied
    <3>2. PICK a : a = call.of  OBVIOUS
    <3>3. I!Reread(a)  BY <2>1, <3>2 DEF I!Conflicts
    <3> QED BY <2>1, <3>1, <3>3, RereadKeeps
  <2> QED BY <1>8, <2>1, AnsweredKeeps DEF I!ApplyAnswered
<1>9. CASE I!PlanServed  BY <1>9, PlanServedKeeps
<1>10. CASE I!ApplyServed  BY <1>10, ApplyServedKeeps
<1>11. CASE I!UndoServed  BY <1>11, UndoServedKeeps
<1>12. ASSUME I!Next, ~(\E a \in Albums : I!StartScan({a}) \/ I!Open(a)), ~(\E g \in DOMAIN timers : I!ScanStep(g)),
              ~(\E r \in reads : I!ReadServed(r) \/ I!ReadAnswered(r)),
              ~(\E r \in Rows, p \in DOMAIN edition : I!ToggleTrack(r.block, I!TrackOf(p)) \/ I!KeepPage(r.id, p))
       PROVE  \/ I!CancelScan \/ I!Close \/ I!Retry \/ I!Preview \/ I!PlanServed \/ I!PlanAnswered
              \/ I!Apply \/ I!ApplyServed \/ I!ApplyAnswered \/ I!UndoAll \/ I!UndoServed \/ I!UndoAnswered
  BY <1>12, Zenon DEF I!Next
<1>13. CASE \E a \in Albums : I!StartScan({a}) \/ I!Open(a)  BY <1>2, <1>3, <1>13
<1>14. CASE \E r \in Rows, p \in DOMAIN edition : I!ToggleTrack(r.block, I!TrackOf(p)) \/ I!KeepPage(r.id, p)
  <2>1. PICK r \in Rows, p \in DOMAIN edition : I!ToggleTrack(r.block, I!TrackOf(p)) \/ I!KeepPage(r.id, p)  BY <1>14
  <2>2. PICK b, t, id : b = r.block /\ t = I!TrackOf(p) /\ id = r.id  OBVIOUS
  <2>3. I!ToggleTrack(b, t) \/ I!KeepPage(id, p)  BY <2>1, <2>2
  <2> QED BY <1>5, <2>3
<1> QED BY <1>1, <1>2, <1>3, <1>4, <1>6, <1>7, <1>8, <1>9, <1>10, <1>11, <1>12, <1>13, <1>14

LEMMA RemovalPromises ==
  ASSUME RowsApart, RemovalInv
  PROVE  I!RowsKeepAPage /\ I!QuarantinedOnce
<1>1. RecordsKnown /\ OnePlan /\ PlansKnown /\ DialogKnown  BY DEF RemovalInv
<1>2. \A s \in I!Chosen : I!Row(s.row).pages \ s.remove # {}
  <2>1. CASE dialog.review = None  BY <2>1 DEF I!Chosen
  <2>2. CASE dialog.review # None
    <3>1. PICK v, k, c : v = dialog.review /\ k = dialog.keep /\ c = dialog.chosen  OBVIOUS
    <3>2. I!Chosen = I!Selections(v, k, c)  BY <2>2, <3>1 DEF I!Chosen
    <3>3. \A s \in I!Selections(v, k, c) : I!Row(s.row).pages \ s.remove # {}
      BY <1>1, <2>2, <3>1, DialogNow, ChoiceIsGood
    <3> QED BY <3>2, <3>3
  <2> QED BY <2>1, <2>2
<1>3. \A i \in DOMAIN plans : \A s \in plans[i].picks : I!Row(s.row).pages \ s.remove # {}
  <2> SUFFICES ASSUME NEW i \in DOMAIN plans, NEW s \in plans[i].picks PROVE I!Row(s.row).pages \ s.remove # {}
    OBVIOUS
  <2>1. s.keep \in I!Row(s.row).pages /\ s.remove \subseteq I!Row(s.row).pages \ {s.keep}
    BY <1>1 DEF PlansKnown, GoodPlan
  <2> QED BY <2>1
<1>4. I!RowsKeepAPage  BY <1>2, <1>3 DEF I!RowsKeepAPage
<1>5. I!QuarantinedOnce
  <2> SUFFICES ASSUME \A r \in records : r.state # "restored late", NEW r \in I!Active(records), NEW q \in I!Active(records),
                      r # q, r.page = q.page, r.scan = q.scan
               PROVE  FALSE  BY DEF I!QuarantinedOnce
  <2>1. ~Late /\ r \in records /\ q \in records  BY DEF Late, I!Active
  <2>2. PICK s \in plans[r.plan].picks : r.page \in s.remove  BY <1>1, <2>1 DEF RecordsKnown
  <2>3. PICK t \in plans[q.plan].picks : q.page \in t.remove  BY <1>1, <2>1 DEF RecordsKnown
  <2>4. GoodPlan(plans[r.plan]) /\ GoodPlan(plans[q.plan])  BY <1>1, <2>1 DEF RecordsKnown, PlansKnown
  <2>5. s.row \in I!AllIds /\ t.row \in I!AllIds /\ s.remove \subseteq I!Row(s.row).pages /\ t.remove \subseteq I!Row(t.row).pages
    BY <2>4 DEF GoodPlan, GoodPicks
  <2>6. I!Row(s.row).pages \cap I!Row(t.row).pages # {}  BY <2>2, <2>3, <2>5
  <2>7. s.row = t.row  BY <2>5, <2>6, RowFacts
  <2>8. r.plan = q.plan  BY <1>1, <2>1, <2>7 DEF OnePlan
  <2> QED BY <1>1, <2>1, <2>8 DEF RecordsKnown
<1> QED BY <1>4, <1>5

(* Pages an album holds twice (InternalDuplicateDialog.tsx, the internal
   removals of the browser backend): however choices, scans, plans, removals
   and undos overtake one another, no plan takes every page of a row, and a
   page is in quarantine once for each scan, unless a record was restored
   after a further scan. *)
THEOREM PagesAreKeptOnce ==
  ASSUME RowsApart, NoneIsNoReview
  PROVE  I!Spec => [](I!RowsKeepAPage /\ I!QuarantinedOnce)
<1>1. I!Init => RemovalInv  BY RemovalStarts
<1>2. RemovalInv /\ [I!Next]_(I!vars) => RemovalInv'  BY RemovalKept
<1>3. RemovalInv => I!RowsKeepAPage /\ I!QuarantinedOnce  BY RemovalPromises
<1> QED BY <1>1, <1>2, <1>3, PTL DEF I!Spec
====
