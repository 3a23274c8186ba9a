---- MODULE OverlapDialog ----
(***************************************************************************)
(* The edition review dialog (DownloadOverlapReviewDialog.tsx) with the    *)
(* rules it shows and applies: the strict plan of downloadOverlapAuto.ts,  *)
(* the page alignment and the page-merge selection of downloadOverlap/.    *)
(* A review compares one incoming album B with existing albums A, one      *)
(* candidate each; a candidate's evidence is the page pairs found.  The    *)
(* review on screen is replaced whenever it changes, also by another       *)
(* window or by automation, while the user is selecting pages in it.       *)
(***************************************************************************)
EXTENDS Integers, Sequences, FiniteSets, FiniteSetsExt, SequencesExt

CONSTANTS PageBound,     \* candidate -> most pages its existing album has
          IncomingBound, \* most pages of the incoming album
          MaxRevision    \* bound on the changes of the review

VARIABLES incoming,      \* pages of the incoming album
          existing,      \* candidate -> pages of the existing album
          pairs,         \* candidate -> <<existing page, incoming page>> matches
          review,        \* the review on screen: state, revision, decisions
          audits,        \* review.decisions: the audit trail
          gone,          \* albums its decisions have excluded
          tab,           \* candidateId
          selection,     \* pageMergeSelection
          request        \* the decision or merge in flight

vars == <<incoming, existing, pairs, review, audits, gone, tab, selection, request>>
evidence == <<incoming, existing, pairs>>

Candidates == DOMAIN PageBound
Sides == {"existing", "incoming"}
Other(side) == IF side = "existing" THEN "incoming" ELSE "existing"
Incoming == 0            \* the incoming album among the excluded ones

----
(* Evidence. *)

\* The detector's pairs rise on both sides.
Matchings(n, k) ==
  {m \in SUBSET ((1..n) \X (1..k)) :
     \A p, q \in m : p # q => (p[1] < q[1] /\ p[2] < q[2]) \/ (q[1] < p[1] /\ q[2] < p[2])}

PageOf(p, side) == IF side = "existing" THEN p[1] ELSE p[2]
Count(c, side) == IF side = "existing" THEN existing[c] ELSE incoming
SortedPairs(c) == SetToSortSeq(pairs[c], LAMBDA p, q : p[1] < q[1])

----
(* The strict plan.  A comparison is what one candidate's evidence amounts
   to: the pages of both albums, how many are matched and how many in one
   run, confidence and share of informative matches in percent, whether
   every match is exact, the detector's relation, and the title markers
   (1 uncensored, 0 none, -1 censored). *)

Relations == {"incoming_contains_existing", "existing_contains_incoming", "near_equivalent",
              "translation_edition", "partial_overlap"}

Smallest(k) == Min({k.pages.incoming, k.pages.existing})

Unique(k, side) == k.pages[side] - k.matched

\* Coverage in percent.
Coverage(k, side) == (100 * k.matched) \div k.pages[side]

\* blocking_candidate_from_record: the relation of two albums, by what the
\* analysis of the pair called it and how much of each side is matched.
Related(k, analysed) ==
  LET smaller == Smallest(k)
      near == \/ analysed = "exact"
              \/ /\ Coverage(k, "incoming") >= 95 /\ Coverage(k, "existing") >= 95
                 /\ smaller > 3 \/ (k.matched = smaller /\ k.exact)
      larger(side) == k.pages[side] > k.pages[Other(side)]
  IN  CASE near -> "near_equivalent"
        [] ~near /\ analysed = "contains" /\ larger("incoming") /\ Coverage(k, "existing") >= 90
             -> "incoming_contains_existing"
        [] ~near /\ analysed = "contains" /\ larger("existing") /\ Coverage(k, "incoming") >= 90
             -> "existing_contains_incoming"
        [] ~near /\ analysed = "translation" -> "translation_edition"
        [] OTHER -> "partial_overlap"

Smaller(k) == IF k.pages.incoming < k.pages.existing THEN "incoming" ELSE "existing"

\* automaticUncensoredMerge: the side whose pages go into the other, or "none".
AutomaticUncensoredMerge(k) ==
  LET small == Smaller(k)
      large == Other(small)
      n == k.pages[small]
  IN  IF /\ n < k.pages[large]
         /\ Unique(k, small) = 0 /\ Coverage(k, small) >= 100
         /\ k.mark[small] = 1 /\ k.mark[large] # 1
         /\ k.confidence >= 85
         /\ k.run >= Min({2, n})
         /\ k.informative >= 75
         /\ n <= 3 => k.exact
      THEN small ELSE "none"

\* The loser of a containment must have every page matched, in order.
CompleteContainment(k, winner) ==
  LET loser == Other(winner)
  IN  /\ winner # "none"
      /\ Coverage(k, loser) >= 100 /\ Unique(k, loser) = 0
      /\ k.matched = Smallest(k)
      /\ k.confidence >= 85
      /\ k.run >= Min({2, k.matched})
      /\ k.informative >= 75
      /\ Smallest(k) <= 3 => k.exact

ContainmentWinner(k) ==
  CASE k.relation = "incoming_contains_existing" /\ k.pages.incoming > k.pages.existing -> "incoming"
    [] k.relation = "existing_contains_incoming" /\ k.pages.existing > k.pages.incoming -> "existing"
    [] OTHER -> "none"

Balanced(k) ==
  /\ Max({k.pages.incoming, k.pages.existing}) - Smallest(k) <= 5
  /\ k.matched >= Min({4, Smallest(k)})
  /\ k.confidence >= 90
  /\ k.matched > 0 /\ 100 * k.run >= 75 * k.matched
  /\ k.informative >= 75
  /\ Smallest(k) <= 3 => k.exact

\* Among near equals: the marker, then the page count, then the one at hand.
Preferred(k) ==
  CASE k.mark.incoming > k.mark.existing -> "incoming"
    [] k.mark.incoming < k.mark.existing -> "existing"
    [] OTHER -> IF k.pages.incoming > k.pages.existing THEN "incoming" ELSE "existing"

LoserCoverage(k) ==
  CASE k.relation = "incoming_contains_existing" -> Coverage(k, "existing")
    [] k.relation = "existing_contains_incoming" -> Coverage(k, "incoming")
    [] OTHER -> Min({Coverage(k, "existing"), Coverage(k, "incoming")})

\* The threshold every removal has to pass.
CoversLoser(k) == LoserCoverage(k) >= 95

\* strictCandidateEvaluation: the side to keep, or "none".
StrictCandidateEvaluation(k) ==
  LET contains == ContainmentWinner(k)
      complete == CompleteContainment(k, contains)
  IN  CASE \/ Unique(k, "existing") > 0 /\ Unique(k, "incoming") > 0
           \/ AutomaticUncensoredMerge(k) # "none"
           \/ ~complete /\ ~Balanced(k)
           \/ k.relation \in {"translation_edition", "partial_overlap"}
           \/ ~CoversLoser(k) -> "none"
        [] OTHER ->
             CASE complete -> contains
               [] k.relation = "incoming_contains_existing" -> "incoming"
               [] k.relation = "existing_contains_incoming" -> "existing"
               [] OTHER -> Preferred(k)

Undecided == {c \in Candidates : review.decision[c] = "none"}

\* buildStrictOverlapPlan, found : the comparison of every undecided
\* candidate.  A surviving existing witness comes before any removal of
\* existing albums.
StrictPlan(found) ==
  LET wins(side) == {c \in DOMAIN found : StrictCandidateEvaluation(found[c]) = side}
  IN  IF wins("existing") # {}
      THEN {[remove |-> Incoming, for |-> Min(wins("existing"))]}
      ELSE {[remove |-> c, for |-> Incoming] : c \in wins("incoming")}

----
(* Page alignment. *)

NoPage == 0

\* appendUnmatched: the pages before a pair, side by side, one side padded.
Unmatched(e, i, ne, ni) ==
  [k \in 1..Max({ne, ni}) |->
     [existing |-> IF k <= ne THEN e + k - 1 ELSE NoPage,
      incoming |-> IF k <= ni THEN i + k - 1 ELSE NoPage,
      paired |-> FALSE]]

\* buildDownloadOverlapAlignment
Alignment(c) ==
  LET ps == SortedPairs(c)
      upTo[k \in 0..Len(ps)] ==
        IF k = 0 THEN [columns |-> <<>>, e |-> 1, i |-> 1]
        ELSE LET b == upTo[k - 1]
                 p == ps[k]
             IN  [columns |-> b.columns
                    \o Unmatched(b.e, b.i, p[1] - b.e, p[2] - b.i)
                    \o <<[existing |-> p[1], incoming |-> p[2], paired |-> TRUE]>>,
                  e |-> p[1] + 1, i |-> p[2] + 1]
      all == upTo[Len(ps)]
  IN  all.columns \o Unmatched(all.e, all.i, existing[c] - all.e + 1, incoming - all.i + 1)

\* A row of the table: the pages of one side, its gaps left out.
Row(columns, side) ==
  SelectSeq([k \in DOMAIN columns |-> columns[k][side]], LAMBDA n : n # NoPage)

----
(* Page merge. *)

NoPages == [existing |-> {}, incoming |-> {}]
NoSelection == [revision |-> 0, candidate |-> 0, pages |-> NoPages,
                anchor |-> [side |-> "existing", page |-> 0]]

Counterparts(c, side, chosen) ==
  {PageOf(p, Other(side)) : p \in {q \in pairs[c] : PageOf(q, side) \in chosen}}

\* Mutant: a range leaves the other side's counterparts selected.
SelectRangeOnly(c, pages, side, page, anchor, range) ==
  LET run == IF range /\ anchor.side = side
             THEN Min({anchor.page, page})..Max({anchor.page, page}) ELSE {page}
  IN  IF ~range /\ page \in pages[side]
      THEN [pages EXCEPT ![side] = @ \ {page}]
      ELSE [pages EXCEPT ![side] = @ \cup run,
                         ![Other(side)] = @ \ Counterparts(c, side, {page})]

\* selectMergePages: a click toggles a page, a range click adds the pages up
\* to the anchor; a selected page unselects its counterpart.
SelectMergePages(c, pages, side, page, anchor, range) ==
  LET run == IF range /\ anchor.side = side
             THEN Min({anchor.page, page})..Max({anchor.page, page}) ELSE {page}
  IN  IF ~range /\ page \in pages[side]
      THEN [pages EXCEPT ![side] = @ \ {page}]
      ELSE [pages EXCEPT ![side] = @ \cup run,
                         ![Other(side)] = @ \ Counterparts(c, side, run)]

Upto(side, from, to) == [k \in 1..(to - from) |-> [side |-> side, page |-> from + k - 1]]
Chosen(s, pages) == SelectSeq(s, LAMBDA o : o.page \in pages)

\* What follows the last pair: the rest of the target, then of the donor.
Rest(c, source, pages, t, s) ==
  Upto(Other(source), t, Count(c, Other(source)) + 1)
    \o Chosen(Upto(source, s, Count(c, source) + 1), pages)

\* mergeOutputPages: the album the merge makes of the target, a page that is
\* selected in the donor taking its counterpart's place.
MergeOutputPages(c, source, pages) ==
  LET target == Other(source)
      ps == SortedPairs(c)
      upTo[k \in 0..Len(ps)] ==
        IF k = 0 THEN [out |-> <<>>, t |-> 1, s |-> 1]
        ELSE LET b == upTo[k - 1]
                 t == PageOf(ps[k], target)
                 s == PageOf(ps[k], source)
             IN  [out |-> b.out \o Upto(target, b.t, t) \o Chosen(Upto(source, b.s, s), pages)
                    \o <<IF s \in pages THEN [side |-> source, page |-> s]
                         ELSE [side |-> target, page |-> t]>>,
                  t |-> t + 1, s |-> s + 1]
      all == upTo[Len(ps)]
  IN  all.out \o Rest(c, source, pages, all.t, all.s)

----
(* The dialog. *)

NoRequest == [kind |-> "none", revision |-> 0, candidate |-> 0, action |-> "none", pages |-> NoPages]

Init ==
  /\ incoming \in 1..IncomingBound
  /\ existing \in {n \in [Candidates -> 1..Max(Range(PageBound))] :
                     \A c \in Candidates : n[c] <= PageBound[c]}
  /\ pairs \in {m \in [Candidates -> UNION {Matchings(existing[c], incoming) : c \in Candidates}] :
                  \A c \in Candidates : m[c] \in Matchings(existing[c], incoming)}
  /\ review = [state |-> "pending", revision |-> 0, decision |-> [c \in Candidates |-> "none"]]
  /\ audits = <<>> /\ gone = {}
  /\ tab = Min(Candidates) /\ selection = NoSelection /\ request = NoRequest

Busy == request # NoRequest
Pending == review.state = "pending"

\* activePageMergeSelection: a selection counts for the review, revision and
\* candidate it was made in.
Active ==
  IF selection.revision = review.revision /\ selection.candidate = tab THEN selection
  ELSE NoSelection

\* How a page cell is marked: taken over, replaced by its counterpart, or not
\* at all.
MergeState(side, page) ==
  IF page \in Active.pages[side] THEN "source"
  ELSE IF \E p \in pairs[tab] : PageOf(p, side) = page
                                /\ PageOf(p, Other(side)) \in Active.pages[Other(side)]
       THEN "target" ELSE "none"

Selected(s) == s.pages.existing \cup s.pages.incoming # {}

\* A candidate tab; the merge selection belongs to the one left.
SetCandidateId(c) ==
  /\ ~Busy /\ c # tab
  /\ tab' = c
  /\ selection' = NoSelection
  /\ UNCHANGED <<evidence, review, audits, gone, request>>

\* toggleMergePage: only in an undecided candidate with usable page pairs.
ToggleMergePage(side, page, range) ==
  /\ Pending /\ ~Busy /\ review.decision[tab] = "none" /\ pairs[tab] # {}
  /\ page \in 1..Count(tab, side)
  /\ LET pages == SelectMergePages(tab, Active.pages, side, page, Active.anchor, range)
     IN  selection' = IF pages = NoPages THEN NoSelection
                      ELSE [revision |-> review.revision, candidate |-> tab, pages |-> pages,
                            anchor |-> IF range /\ Selected(Active) THEN Active.anchor
                                       ELSE [side |-> side, page |-> page]]
  /\ UNCHANGED <<evidence, review, audits, gone, tab, request>>

ClearPageMergeSelection ==
  /\ ~Busy /\ Selected(Active)
  /\ selection' = NoSelection
  /\ UNCHANGED <<evidence, review, audits, gone, tab, request>>

\* applyPageMerge: the other album is the donor.
ApplyPageMerge(target) ==
  /\ Pending /\ ~Busy /\ review.decision[tab] = "none" /\ Selected(Active)
  /\ request' = [kind |-> "merge", revision |-> review.revision, candidate |-> tab,
                 action |-> Other(target), pages |-> Active.pages]
  /\ UNCHANGED <<evidence, review, audits, gone, tab, selection>>

\* decide: removing an album asks first; with pages selected its button
\* merges instead, and the buttons that keep both are off.
Decide(action) ==
  /\ Pending /\ ~Busy /\ review.decision[tab] = "none" /\ ~Selected(Active)
  /\ request' = [NoRequest EXCEPT !.kind = "decision", !.revision = review.revision,
                                  !.candidate = tab, !.action = action]
  /\ UNCHANGED <<evidence, review, audits, gone, tab, selection>>

----
(* What comes back: the review after a decision or merge, of this dialog
   or of somebody else.  The effects on reviewId and revision choose the
   first undecided candidate and drop the page selection. *)

Show(r, trail, out) ==
  /\ review' = r /\ audits' = trail /\ gone' = out
  /\ LET open == {c \in Candidates : r.decision[c] = "none"}
     IN  tab' = Min(IF open = {} THEN Candidates ELSE open)
  /\ selection' = NoSelection

Audit(c, action, reason) == [candidate |-> c, action |-> action, reason |-> reason]

\* The review as the backend leaves it after one more decision.
Decided(c, decision) ==
  LET d == [review.decision EXCEPT ![c] = decision]
  IN  [state |-> IF \E x \in Candidates : d[x] = "none" THEN "pending" ELSE "resolved",
       revision |-> review.revision + 1, decision |-> d]

ShowDecision(c, action) ==
  CASE action = "remove_incoming" ->
         Show([review EXCEPT !.state = "cancelled", !.revision = @ + 1],
              Append(audits, Audit(c, action, "decision")), gone \cup {Incoming})
    [] action = "remove_existing_continue" ->
         Show(Decided(c, "existing_removed"),
              Append(audits, Audit(c, action, "decision")), gone \cup {c})
    [] action = "keep_both_continue" ->
         Show(Decided(c, "keep_both"), Append(audits, Audit(c, action, "decision")), gone)
    [] OTHER ->
         Show(Decided(c, "false_positive"), Append(audits, Audit(c, action, "decision")),
              gone)

\* A merge retires the review: cancelled when its own album was the donor,
\* stale otherwise; an automatic one leaves an audit and decides the donor.
ShowMerge(c, source, automatic) ==
  Show([review EXCEPT !.state = IF source = "incoming" THEN "cancelled" ELSE "stale",
                      !.revision = @ + 1,
                      !.decision[c] = IF automatic /\ source = "existing"
                                      THEN "existing_removed" ELSE @],
       IF automatic
       THEN Append(audits, Audit(c, IF source = "incoming" THEN "remove_incoming"
                                    ELSE "remove_existing_continue", "merge"))
       ELSE audits,
       gone \cup {IF source = "incoming" THEN Incoming ELSE c})

\* The request is applied if the review is still at the revision it names;
\* otherwise the dialog shows the review anew.
Answered ==
  /\ Busy
  /\ request' = NoRequest
  /\ UNCHANGED evidence
  /\ IF request.revision = review.revision
     THEN IF request.kind = "merge" THEN ShowMerge(request.candidate, request.action, FALSE)
          ELSE ShowDecision(request.candidate, request.action)
     ELSE UNCHANGED <<review, audits, gone, tab, selection>>

\* Another window or the automatic sweep decides first.
ChangedElsewhere ==
  /\ Pending /\ review.revision < MaxRevision
  /\ \E c \in Undecided :
       \/ \E a \in {"remove_incoming", "remove_existing_continue", "keep_both_continue"} :
            ShowDecision(c, a)
       \/ \E s \in Sides : ShowMerge(c, s, TRUE)
  /\ UNCHANGED <<evidence, request>>

\* The buttons: exclude A, exclude B, keep both, false positive.
DecideSome ==
  \E a \in {"remove_incoming", "remove_existing_continue", "keep_both_continue",
            "false_positive_continue"} : Decide(a)

Next ==
  \/ \E c \in Candidates : SetCandidateId(c)
  \/ \E s \in Sides, p \in 1..Max(Range(PageBound) \cup {IncomingBound}), r \in BOOLEAN :
       ToggleMergePage(s, p, r)
  \/ ClearPageMergeSelection
  \/ \E s \in Sides : ApplyPageMerge(s)
  \/ DecideSome
  \/ Answered
  \/ ChangedElsewhere

Spec == Init /\ [][Next]_vars

----
(* What the dialog says became of A and B. *)

\* latestDecision and automaticDecisionSnapshot, of the automatic merge
MergeWinner(c) ==
  LET found == {k \in 1..Len(audits) : audits[k].candidate = c /\ audits[k].reason = "merge"}
  IN  IF found = {} THEN "none"
      ELSE IF audits[Max(found)].action = "remove_incoming" THEN "existing" ELSE "incoming"

IncomingOutcome(c) ==
  CASE MergeWinner(c) # "none" -> IF MergeWinner(c) = "incoming" THEN "kept" ELSE "excluded"
    [] review.state = "resolved" -> "kept"
    [] review.state = "cancelled" -> "excluded"
    [] review.decision[c] = "none" -> "none"
    [] OTHER -> IF Pending THEN "pending" ELSE "uncertain"

\* Mutant: a cancelled review is taken to have kept every existing album.
KeptIfCancelled(c) ==
  CASE MergeWinner(c) # "none" -> IF MergeWinner(c) = "existing" THEN "kept" ELSE "excluded"
    [] review.state = "cancelled" -> "kept"
    [] review.decision[c] = "existing_removed" -> "excluded"
    [] review.decision[c] \in {"keep_both", "false_positive"} -> "kept"
    [] OTHER -> "none"

\* comparisonOutcome
ExistingOutcome(c) ==
  CASE MergeWinner(c) # "none" -> IF MergeWinner(c) = "existing" THEN "kept" ELSE "excluded"
    [] review.decision[c] = "existing_removed" -> "excluded"
    [] review.decision[c] \in {"keep_both", "false_positive"} -> "kept"
    [] review.state = "cancelled" -> "kept"
    [] OTHER -> "none"

\* candidateOutcomeLabel: the note on a candidate's tab.
OutcomeLabel(c) ==
  LET e == ExistingOutcome(c)
      i == IncomingOutcome(c)
  IN  CASE e = "excluded" /\ i = "kept" -> "A excluded"
        [] e = "kept" /\ i = "excluded" -> "B excluded"
        [] e = "kept" /\ i = "kept" -> "both kept"
        [] e = "excluded" /\ i = "excluded" -> "both excluded"
        [] i \in {"pending", "uncertain"} -> IF e = "excluded" THEN "A excluded so far"
                                            ELSE "A kept so far"
        [] i = "kept" -> "B kept"
        [] OTHER -> "none"

\* artifactReason: the audit the reason on a side is taken from, 0 if none.
\* Once B was removed that decision explains everything but an excluded A.
ReasonAudit(c, side) ==
  LET last(S) == IF S = {} THEN 0 ELSE Max(S)
      incomingAudit == last({k \in DOMAIN audits : audits[k].action = "remove_incoming"})
      expected == CASE review.decision[c] = "existing_removed" -> "remove_existing_continue"
                    [] review.decision[c] = "keep_both" -> "keep_both_continue"
                    [] review.decision[c] = "false_positive" -> "false_positive_continue"
                    [] OTHER -> "none"
      candidateAudit == last({k \in DOMAIN audits : audits[k].candidate = c
                                                   /\ audits[k].action = expected})
  IN  IF /\ review.state = "cancelled" /\ incomingAudit # 0
         /\ ~(side = "existing" /\ ExistingOutcome(c) = "excluded")
      THEN incomingAudit ELSE candidateAudit

----
(* Properties. *)

\* Of a pair of matching pages at most one is selected for a merge, whatever
\* clicks, ranges, tabs and changes of the review led to the selection; and
\* the merge of the selection into either album has every page of the target
\* or its selected counterpart, and every selected page of the donor, once.
MergeKeepsEveryPage ==
  Selected(Active) =>
    /\ \A p \in pairs[tab] :
         {MergeState("existing", p[1]), MergeState("incoming", p[2])}
           \in {{"none"}, {"source", "target"}}
    /\ \A source \in Sides :
         LET target == Other(source)
             chosen == Active.pages[source]
             out == MergeOutputPages(tab, source, chosen)
             times(side, page) == Cardinality({k \in DOMAIN out : out[k] = [side |-> side, page |-> page]})
         IN  /\ \A s \in 1..Count(tab, source) : times(source, s) = IF s \in chosen THEN 1 ELSE 0
             /\ \A t \in 1..Count(tab, target) :
                  times(target, t) = IF t \in Counterparts(tab, source, chosen) THEN 0 ELSE 1

\* The alignment table shows every page of both albums once, in order, and
\* every match in one column.
AlignmentIsComplete ==
  LET columns == Alignment(tab)
  IN  /\ \A side \in Sides : Row(columns, side) = [k \in 1..Count(tab, side) |-> k]
      /\ {<<columns[k].existing, columns[k].incoming>> :
            k \in {j \in DOMAIN columns : columns[j].paired}} = pairs[tab]

\* Album sizes at the thresholds: exactness up to 3 pages, 95 % of 20 and of
\* 100, differences of five and six pages.
PlanSizes == {3, 19, 20, 100, 105, 114, 120}

\* The comparisons of two albums, each threshold on both of its sides.
Comparisons(pages, matched) ==
  {[k EXCEPT !.relation = Related(k, analysed)] :
     analysed \in {"contains", "translation", "partial"}
                 \cup (IF pages.incoming = matched /\ pages.existing = matched THEN {"exact"} ELSE {}),
     k \in [pages : {pages}, matched : {matched}, run : {matched, (3 * matched) \div 4, matched \div 2},
            confidence : {84, 87, 95}, informative : {70, 100}, exact : BOOLEAN,
            relation : {"partial_overlap"}, mark : [Sides -> {-1, 0, 1}]]}

\* A further existing album with the very pages of the incoming one, marked
\* as the better or the worse of the two.
Beside(k) ==
  {[k EXCEPT !.pages.existing = k.pages.incoming, !.matched = k.pages.incoming,
             !.run = k.pages.incoming, !.confidence = 95, !.informative = 100, !.exact = TRUE,
             !.relation = "near_equivalent", !.mark.existing = m] : m \in {-1, 1}}

\* Removing the album of one side of k for that of the other one.  A page
\* without a counterpart is given up only below one in twenty, when the kept
\* album has every other page, and for the title marker alone; an album
\* marked uncensored never goes for one that is not.
RemovalIsSafe(k, removed) ==
  LET kept == Other(removed)
      lost == k.pages[removed] - k.matched
  IN  /\ 20 * lost <= k.pages[removed] /\ lost <= 5
      /\ lost > 0 => /\ k.matched = k.pages[kept] /\ k.relation = "near_equivalent"
                     /\ k.mark[removed] = -1 /\ k.mark[kept] = 0
      /\ k.mark[removed] = 1 => k.mark[kept] = 1

\* The strict plan of two candidates removes only what its comparison allows,
\* whatever the relation the detector gives and the other candidate; a page
\* that goes into the other album by an automatic merge is matched there.
\* (It depends on no state; one of them is enough to check it in.)
PlanKeepsToTheRule ==
  /\ review.revision = 0 /\ ~Busy /\ selection = NoSelection /\ tab = Min(Candidates)
  /\ incoming = 1 /\ \A c \in Candidates : existing[c] = 1 /\ pairs[c] = {}
  => \A pages \in [Sides -> PlanSizes], short \in {0, 1} :
       \A k \in Comparisons(pages, Min(Range(pages)) - short) :
         /\ \A g \in Beside(k) : \A step \in StrictPlan(<<k, g>>) :
              IF step.remove = Incoming THEN RemovalIsSafe(<<k, g>>[step.for], "incoming")
              ELSE RemovalIsSafe(<<k, g>>[step.remove], "existing")
         /\ AutomaticUncensoredMerge(k) # "none" =>
              k.matched = k.pages[AutomaticUncensoredMerge(k)] /\ StrictCandidateEvaluation(k) = "none"

\* What the dialog says became of an album is what the decisions did to it,
\* in every order of decisions, automatic merges and a final removal of B;
\* and the decision quoted as the reason why A is excluded excluded A.
OutcomeIsTrue ==
  \A c \in Candidates :
    /\ ExistingOutcome(c) = "kept" => c \notin gone
    /\ ExistingOutcome(c) = "excluded" => c \in gone
    /\ IncomingOutcome(c) = "kept" => Incoming \notin gone
    /\ IncomingOutcome(c) = "excluded" => Incoming \in gone
    /\ OutcomeLabel(c) \in {"both kept", "A kept so far"} => c \notin gone
    /\ ReasonAudit(c, "existing") # 0 /\ ExistingOutcome(c) = "excluded" =>
         audits[ReasonAudit(c, "existing")].action = "remove_existing_continue"
====
