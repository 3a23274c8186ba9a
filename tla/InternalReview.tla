---- MODULE InternalReview ----
(***************************************************************************)
(* Pages an album holds twice: the scan of the browser backend that finds  *)
(* rows of look-alike pages, the dialog in which the user chooses what to  *)
(* keep of each row or which editions of a block of rows, the plan the     *)
(* backend makes of that choice, its application and its undo.  The dialog *)
(* may be closed and opened for another album while a call is under way.   *)
(***************************************************************************)
EXTENDS Integers, FiniteSetsExt, SequencesExt

CONSTANTS
    Albums,
    Rows,       \* what a scan finds: [id, album, block, pages, keep]
    Evidence,   \* of each page: [track, ordinal], its edition; the ways it may be
    MaxPlans, MaxScans, MaxReads,   \* bounds
    None

VARIABLES
    edition,    \* one of Evidence
    found,      \* the rows the backend knows: [id of a row -> [rev, resolved, scan]]
    records,    \* pages in quarantine: [page, album, plan, state, and the scan and rev of its row]
    plans,      \* internalPlans: sequence of [album, picks]
    scan,       \* [state, albums, progress], the scan of the backend
    timers,     \* timers of each scan started: [generation -> next step], 0 once fired
    generation,
    dialog,     \* [entry, review, plan, error, token, keep, chosen]
    reads,      \* hydrateInternalReview: [token, entry, got]
    call        \* the call that holds internalPending: [kind, arg, got] and the album it
                \* was asked of, or None

backendVars == <<edition, found, records, plans, scan, timers, generation>>
vars == <<backendVars, dialog, reads, call>>

Row(id) == CHOOSE r \in Rows : r.id = id
AllIds == {r.id : r \in Rows}
RowsOf(a) == {r.id : r \in {s \in Rows : s.album = a}}

----
(* The scan. *)

\* A scan of the same albums is the one that runs; of others it is refused.
StartScan(as) ==
    /\ scan.state # "running" /\ generation < MaxScans /\ call = None
    /\ generation' = generation + 1
    /\ scan' = [state |-> "running", albums |-> as, progress |-> 1]
    /\ timers' = Append(timers, 1)
    /\ UNCHANGED <<edition, found, records, plans, dialog, reads, call>>

\* Timers of a scan that was cancelled fire too, and do nothing.
Steps(as) == 3 * Cardinality(as)
Current(g) == g = generation /\ scan.state = "running"
ScanStep(g) ==
    /\ timers[g] # 0
    /\ IF ~Current(g) THEN timers' = [timers EXCEPT ![g] = 0] /\ UNCHANGED <<scan, found>>
       ELSE IF timers[g] < Steps(scan.albums)
       THEN /\ timers' = [timers EXCEPT ![g] = @ + 1] /\ scan' = [scan EXCEPT !.progress = @ + 1]
            /\ UNCHANGED found
       ELSE /\ timers' = [timers EXCEPT ![g] = 0]
            /\ scan' = [state |-> "completed", albums |-> {}, progress |-> 0]
            /\ found' = [id \in AllIds |-> IF Row(id).album \in scan.albums
                                           THEN [rev |-> 0, resolved |-> FALSE, scan |-> g] ELSE found[id]]
    /\ UNCHANGED <<edition, records, plans, generation, dialog, reads, call>>
CancelScan ==
    /\ scan.state = "running" /\ call = None /\ generation' = generation + 1
    /\ scan' = [state |-> "cancelled", albums |-> {}, progress |-> 0] /\ timers' = Append(timers, 0)
    /\ UNCHANGED <<edition, found, records, plans, dialog, reads, call>>

----
(* What the dialog makes of a review. *)

\* internalDuplicateReviewGet: the rows still to be decided and the records.
Review(a, fs, rs) ==
    [entry |-> a,
     revs |-> [id \in {i \in RowsOf(a) : fs[i].scan # 0 /\ ~fs[i].resolved} |-> fs[id].rev],
     records |-> {r \in rs : r.album = a}]

ReviewIds(review) == DOMAIN review.revs
Blocks(review) == {Row(id).block : id \in ReviewIds(review)}
InBlock(review, b) == {id \in ReviewIds(review) : Row(id).block = b}
TrackOf(p) == edition[p].track
Tracks(review, b) == {TrackOf(p) : p \in UNION {Row(id).pages : id \in InBlock(review, b)}}

\* The rows of a block are scenes of several editions when every page belongs to one,
\* no edition has two pages of a scene, and each has two scenes and a number of its own.
IsEdition(review, b) ==
    LET ids == InBlock(review, b)
        pages == UNION {Row(id).pages : id \in ids}
        tracks == Tracks(review, b)
    IN  /\ Cardinality(ids) >= 2 /\ None \notin tracks /\ Cardinality(tracks) >= 2
        /\ \A id \in ids : \A p, q \in Row(id).pages : p # q => TrackOf(p) # TrackOf(q)
        /\ \A t \in tracks : Cardinality({id \in ids : \E p \in Row(id).pages : TrackOf(p) = t}) >= 2
        /\ \A p, q \in pages : (TrackOf(p) = TrackOf(q)) = (edition[p].ordinal = edition[q].ordinal)

FirstTrack(review, b) ==
    LET pages == UNION {Row(id).pages : id \in InBlock(review, b)}
    IN  TrackOf(CHOOSE p \in pages : \A q \in pages : edition[p].ordinal <= edition[q].ordinal)

\* At least one edition is kept.
SelectedTracks(review, b, chosen) ==
    IF chosen[b] \cap Tracks(review, b) # {} THEN chosen[b] \cap Tracks(review, b) ELSE {FirstTrack(review, b)}

Pick(review, id, keep, remove) == [row |-> id, rev |-> review.revs[id], keep |-> keep, remove |-> remove]

\* buildInternalRemovalSelections: of a scene none of them has, everything stays.
Selections(review, keep, chosen) ==
    UNION {LET pages == Row(id).pages
               b == Row(id).block
               kept == IF IsEdition(review, b)
                       THEN {p \in pages : TrackOf(p) \in SelectedTracks(review, b, chosen)} ELSE {keep[id]}
           IN  IF kept = {} \/ pages \ kept = {} THEN {} ELSE {Pick(review, id, Min(kept), pages \ kept)}
           : id \in ReviewIds(review)}

Chosen == IF dialog.review = None THEN {} ELSE Selections(dialog.review, dialog.keep, dialog.chosen)
ActivePlan == IF dialog.plan # None /\ dialog.plan.picks = Chosen THEN dialog.plan ELSE None

\* A review that is shown resets the choice to what is recommended.
Shown(d, review) ==
    [d EXCEPT !.review = review,
              !.keep = [id \in AllIds |-> Row(id).keep],
              !.chosen = [b \in {r.block : r \in Rows} |->
                             IF b \in Blocks(review) /\ IsEdition(review, b) THEN {FirstTrack(review, b)} ELSE {}]]

----
(* Opening and reading. *)

Hydrated(d, a) ==
    /\ dialog' = [d EXCEPT !.token = @ + 1, !.error = FALSE]
    /\ reads' = reads \cup {[token |-> d.token + 1, entry |-> a, got |-> None]}

Open(a) ==
    /\ dialog.entry = None /\ dialog.token < MaxReads
    /\ Hydrated([dialog EXCEPT !.entry = a, !.review = None, !.plan = None], a)
    /\ UNCHANGED <<backendVars, call>>
Close ==
    /\ dialog.entry # None
    /\ dialog' = [dialog EXCEPT !.entry = None, !.review = None, !.plan = None, !.error = FALSE, !.token = @ + 1]
    /\ UNCHANGED <<backendVars, reads, call>>
Retry ==
    /\ dialog.entry # None /\ dialog.error /\ dialog.token < MaxReads /\ Hydrated(dialog, dialog.entry)
    /\ UNCHANGED <<backendVars, call>>

ReadServed(r) ==
    /\ r.got = None /\ reads' = (reads \ {r}) \cup {[r EXCEPT !.got = Review(r.entry, found, records)]}
    /\ UNCHANGED <<backendVars, dialog, call>>
\* A call that waits for the reading is over with it.
ReadAnswered(r) ==
    /\ r.got # None /\ reads' = reads \ {r}
    /\ call' = IF call # None /\ call.kind = "reread" /\ call.arg = r.token THEN None ELSE call
    /\ dialog' \in IF r.token # dialog.token THEN {dialog}
                   ELSE {Shown(dialog, r.got), [dialog EXCEPT !.error = TRUE]}
    /\ UNCHANGED backendVars

----
(* Choosing. *)

ToggleTrack(b, t) ==
    /\ dialog.review # None /\ b \in Blocks(dialog.review) /\ IsEdition(dialog.review, b)
    /\ t \in Tracks(dialog.review, b) /\ dialog.chosen[b] # {t}
    /\ dialog' = [dialog EXCEPT !.chosen[b] = IF t \in @ THEN @ \ {t} ELSE @ \cup {t}]
    /\ UNCHANGED <<backendVars, reads, call>>
KeepPage(id, p) ==
    /\ dialog.review # None /\ id \in ReviewIds(dialog.review) /\ ~IsEdition(dialog.review, Row(id).block)
    /\ p \in Row(id).pages /\ p # dialog.keep[id]
    /\ dialog' = [dialog EXCEPT !.keep[id] = p]
    /\ UNCHANGED <<backendVars, reads, call>>

----
(* The plan. *)

Ask(kind, arg) == call = None /\ call' = [kind |-> kind, arg |-> arg, of |-> dialog.entry, got |-> None]
Asked(kind) == call # None /\ call.kind = kind /\ call.got = None
Got(kind) == call # None /\ call.kind = kind /\ call.got # None
Answer(how, review) == [call EXCEPT !.got = [how |-> how, review |-> review]]
\* After a conflict an album is read again, whatever the dialog shows by then.
Reread(a) == /\ dialog.token < MaxReads /\ Hydrated(dialog, a)
             /\ call' = [kind |-> "reread", arg |-> dialog.token + 1, of |-> a, got |-> None]

Preview ==
    /\ dialog.entry # None /\ Chosen # {} /\ Len(plans) < MaxPlans
    /\ Ask("plan", [album |-> dialog.review.entry, picks |-> Chosen])
    /\ dialog' = [dialog EXCEPT !.error = FALSE]
    /\ UNCHANGED <<backendVars, reads>>

\* Every row must be as the user saw it.
PlanServed ==
    /\ Asked("plan")
    /\ IF \A s \in call.arg.picks :
            /\ Row(s.row).album = call.arg.album /\ found[s.row].scan # 0 /\ found[s.row].rev = s.rev
            /\ s.keep \in Row(s.row).pages /\ s.remove # {} /\ s.remove \subseteq Row(s.row).pages \ {s.keep}
       THEN plans' = Append(plans, call.arg) /\ call' = Answer("ok", None)
       ELSE call' = Answer("conflict", None) /\ UNCHANGED plans
    /\ UNCHANGED <<edition, found, records, scan, timers, generation, dialog, reads>>
PlanAnswered ==
    /\ Got("plan") /\ UNCHANGED backendVars
    /\ \/ /\ call.got.how = "ok" /\ dialog' = [dialog EXCEPT !.plan = call.arg] /\ call' = None /\ UNCHANGED reads
       \/ call.got.how = "conflict" /\ Reread(call.arg.album)

PlanIndex(p) == CHOOSE i \in DOMAIN plans : plans[i] = p /\ \A j \in DOMAIN plans : plans[j] = p => j <= i

----
(* Applying and undoing. *)

Apply == /\ dialog.entry # None /\ ActivePlan # None /\ Ask("apply", ActivePlan)
         /\ dialog' = [dialog EXCEPT !.error = FALSE]
         /\ UNCHANGED <<backendVars, reads>>

Bumped(ids, resolved) == [id \in AllIds |-> IF id \in ids THEN [found[id] EXCEPT !.rev = @ + 1, !.resolved = resolved]
                                            ELSE found[id]]
\* The plan is carried out as it was made, or has expired.
ApplyServed ==
    /\ Asked("apply")
    /\ \/ call' = Answer("refused", None) /\ UNCHANGED <<found, records>>
       \/ LET ids == {s.row : s \in call.arg.picks}
              made == UNION {{[page |-> p, album |-> call.arg.album, plan |-> PlanIndex(call.arg), state |-> "quarantined",
                               scan |-> found[s.row].scan, rev |-> found[s.row].rev] : p \in s.remove} : s \in call.arg.picks}
          IN  /\ found' = Bumped(ids, TRUE) /\ records' = records \cup made
              /\ call' = Answer("ok", Review(call.arg.album, Bumped(ids, TRUE), records \cup made))
    /\ UNCHANGED <<edition, plans, scan, timers, generation, dialog, reads>>

\* A refusal for a conflict of revisions has the album of the click read again.
Conflicts == call.got.how = "refused" /\ Reread(call.of)
\* Mutant: the plan is left to the dialog.
ApplyEndsKeeping == /\ call' = None /\ UNCHANGED reads
                    /\ dialog' = IF call.got.how = "refused" THEN [dialog EXCEPT !.error = TRUE]
                                 ELSE Shown(dialog, call.got.review)
ApplyEnds == /\ call' = None /\ UNCHANGED reads
             /\ dialog' = IF call.got.how = "refused" THEN [dialog EXCEPT !.error = TRUE]
                          ELSE [Shown(dialog, call.got.review) EXCEPT !.plan = None]
ApplyAnswered == Got("apply") /\ UNCHANGED backendVars /\ (Conflicts \/ ApplyEnds)

Active(rs) == {r \in rs : r.state = "quarantined"}
UndoAll == /\ dialog.entry # None /\ dialog.review # None /\ Active(dialog.review.records) # {}
           /\ Ask("undo", Active(dialog.review.records))
           /\ dialog' = [dialog EXCEPT !.error = FALSE]
           /\ UNCHANGED <<backendVars, reads>>
\* Whether the rows of a record are still those its page was taken from.
OfThisScan(r) == \A s \in plans[r.plan].picks : found[s.row].scan = r.scan
UndoServed ==
    LET back == call.arg \cap records
        ids == {s.row : s \in UNION {plans[r.plan].picks : r \in back}}
        after == (records \ back) \cup {[r EXCEPT !.state = IF OfThisScan(r) THEN "restored" ELSE "restored late"] : r \in back}
    IN  /\ Asked("undo")
        /\ IF back = {} THEN call' = Answer("refused", None) /\ UNCHANGED <<found, records>>
           ELSE /\ found' = Bumped(ids, FALSE) /\ records' = after
                /\ call' = Answer("ok", Review((CHOOSE r \in back : TRUE).album, Bumped(ids, FALSE), after))
        /\ UNCHANGED <<edition, plans, scan, timers, generation, dialog, reads>>
UndoAnswered ==
    /\ Got("undo") /\ call' = None /\ UNCHANGED <<backendVars, reads>>
    /\ dialog' = IF call.got.how = "refused" THEN [dialog EXCEPT !.error = TRUE] ELSE Shown(dialog, call.got.review)

----
Init ==
    /\ edition \in Evidence
    /\ found = [id \in AllIds |-> [rev |-> 0, resolved |-> FALSE, scan |-> 1]] /\ records = {} /\ plans = <<>>
    /\ scan = [state |-> "completed", albums |-> {}, progress |-> 0] /\ timers = <<0>> /\ generation = 1
    /\ dialog = [entry |-> None, review |-> None, plan |-> None, error |-> FALSE, token |-> 0,
                 keep |-> [id \in AllIds |-> Row(id).keep], chosen |-> [b \in {r.block : r \in Rows} |-> {}]]
    /\ reads = {} /\ call = None

Next ==
    \/ \E a \in Albums : StartScan({a}) \/ Open(a)
    \/ \E g \in DOMAIN timers : ScanStep(g)
    \/ \E r \in reads : ReadServed(r) \/ ReadAnswered(r)
    \/ \E r \in Rows, p \in DOMAIN edition : ToggleTrack(r.block, TrackOf(p)) \/ KeepPage(r.id, p)
    \/ CancelScan \/ Close \/ Retry \/ Preview \/ PlanServed \/ PlanAnswered
    \/ Apply \/ ApplyServed \/ ApplyAnswered \/ UndoAll \/ UndoServed \/ UndoAnswered

Spec == Init /\ [][Next]_vars

----
\* Neither what the dialog would ask for nor a plan the backend accepted takes every
\* page of a row, whichever editions are chosen and whichever scenes they miss ("a row
\* can never become an accidental 'remove everything' request").
RowsKeepAPage ==
    \A s \in Chosen \cup UNION {plans[i].picks : i \in DOMAIN plans} : Row(s.row).pages \ s.remove # {}

\* A page is put into quarantine once: a second time only after it was restored, or after
\* another scan found it again.  Revisions begin again with each scan, so that this is lost
\* once a record is restored after a further scan and counts one of its rows up.
QuarantinedOnce ==
    (\A r \in records : r.state # "restored late")
       => \A r, q \in Active(records) : r # q /\ r.page = q.page => r.scan # q.scan
====
