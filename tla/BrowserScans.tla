---- MODULE BrowserScans ----
(***************************************************************************)
(* The discovery half of BrowserMockBackend (src/src/api/backend.ts), the  *)
(* backend the app runs on outside Tauri: favourites, the auto-find run,   *)
(* manual exclusions, the duplicate scan with its one stored review, and   *)
(* the resets.  Runs advance by timers that outlive them; a generation     *)
(* number tells the timers of a replaced run from those of the current     *)
(* one.  A gallery is a number, so that the history cutoff can compare.    *)
(***************************************************************************)
EXTENDS Naturals, FiniteSets

CONSTANTS Favorites,      \* artist and group favourites the user may set
          Galleries,      \* gallery ids, positive numbers
          WorksOf,        \* favourite -> galleries the search fixture returns
          Library,        \* galleries with a completed download at the start
          Parent, Child,  \* the two galleries of the fixture's duplicate pair
          MaxRuns,        \* bound on the auto-find runs and scans together
          MaxDecisions,   \* bound on the duplicate decisions
          MaxResets       \* bound on the resets

VARIABLES favorites,      \* the favourites that are set
          owned,          \* galleries with a download entry
          library,        \* those whose download is completed
          afRun,          \* the auto-find run of the snapshot
          candidates,     \* gallery -> run that found it, 0 when no candidate
          cutoff,         \* favourite -> latest owned work, 0 when none
          afTimers,       \* timers armed by autoFindRefresh
          afGeneration,   \* autoFindGeneration
          exclusions,     \* autoFindExclusions
          saved,          \* excludedAutoFindCandidates, as candidates
          restored,       \* explorationRestoredGalleryIds
          hidden,         \* duplicateHiddenGalleryIds
          dupRun,         \* the duplicate scan of the snapshot
          dupTimers,      \* timers armed by duplicateScanStart
          dupGeneration,  \* duplicateGeneration
          dupShown,       \* the pair in the snapshot: its revision, or -
          review,         \* the stored review of the pair
          resets          \* resets so far

dvars == <<dupRun, dupTimers, dupGeneration, dupShown, review>>
avars == <<afRun, candidates, cutoff, afTimers, afGeneration, saved>>
vars == <<favorites, owned, library, avars, exclusions, restored, hidden, dvars, resets>>

----
(* States. *)

NoRun == [id |-> 0, state |-> "none", total |-> 0, done |-> 0, all |-> TRUE]

NoCandidates == [g \in Galleries |-> 0]

\* A pair that is not in the snapshot.
NotShown == MaxDecisions + 1

\* No review is stored until a scan completes; then its revision, the
\* galleries its decisions hid and the series members count.
NoReview == [stored |-> FALSE, revision |-> 0, hid |-> {}, series |-> {}, resolved |-> FALSE]

Init ==
  /\ favorites = {}
  /\ owned = Library /\ library = Library
  /\ afRun = NoRun /\ candidates = NoCandidates /\ saved = NoCandidates
  /\ cutoff = [f \in Favorites |-> 0]
  /\ afTimers = {} /\ afGeneration = 0
  /\ exclusions = {} /\ restored = {} /\ hidden = {}
  /\ dupRun = [id |-> 0, state |-> "none", ids |-> {}]
  /\ dupTimers = {} /\ dupGeneration = 0
  /\ dupShown = NotShown /\ review = NoReview
  /\ resets = 0

\* isDuplicateExplorationExcluded
IsDuplicateExplorationExcluded(g) == g \in hidden \ restored

Running(run) == run.state = "running"

----
(* Favourites and downloads. *)

\* favoriteSet: on and off.
FavoriteSet(f) ==
  /\ favorites' = IF f \in favorites THEN favorites \ {f} ELSE favorites \cup {f}
  /\ UNCHANGED <<owned, library, avars, exclusions, restored, hidden, dvars, resets>>

\* downloadQueueAdd makes an entry of any state; auto-find skips the gallery.
QueueDownload(g) ==
  /\ g \notin owned
  /\ owned' = owned \cup {g}
  /\ UNCHANGED <<favorites, library, avars, exclusions, restored, hidden, dvars, resets>>

----
(* The auto-find run. *)

\* The latest owned work of a favourite: only verified downloads count.
LatestOwned(f) ==
  LET works == WorksOf[f] \cap library
  IN  IF works = {} THEN 0 ELSE CHOOSE g \in works : \A h \in works : h <= g

\* historyModeAllows
HistoryModeAllows(g, f, all) == all \/ cutoff[f] = 0 \/ g > cutoff[f]

\* autoFindRefresh.  A running run is returned as it is.  Otherwise one timer
\* per favourite is armed, the last one marked; with no favourite the run is
\* completed at once.
AutoFindRefresh(all) ==
  /\ ~Running(afRun)
  /\ afRun.id + dupRun.id < MaxRuns
  /\ \E order \in [favorites -> 1..Cardinality(favorites)] :
       /\ \A f, g \in favorites : f # g => order[f] # order[g]
       /\ afTimers' = afTimers \cup
            { [gen |-> afGeneration + 1, fav |-> f, pos |-> order[f],
               last |-> order[f] = Cardinality(favorites)] : f \in favorites }
  /\ afGeneration' = afGeneration + 1
  /\ afRun' = [id |-> afRun.id + 1, total |-> Cardinality(favorites), done |-> 0, all |-> all,
               state |-> IF favorites = {} THEN "completed" ELSE "running"]
  /\ candidates' = NoCandidates
  /\ cutoff' = [f \in Favorites |-> IF f \in favorites THEN LatestOwned(f) ELSE 0]
  /\ UNCHANGED <<favorites, owned, library, exclusions, saved, restored, hidden, dvars, resets>>

\* Mutant: the timer only looks whether some run is going on.
SomeRunIsGoing(t) == Running(afRun)

\* runAutoFindFixture's first line: a timer of a replaced run does nothing.
IsCurrentTimer(t) == t.gen = afGeneration /\ Running(afRun)

\* The works the favourite adds.
Discovered(f) ==
  { g \in WorksOf[f] : /\ HistoryModeAllows(g, f, afRun.all)
                       /\ g \notin owned
                       /\ ~IsDuplicateExplorationExcluded(g)
                       /\ g \notin exclusions
                       /\ candidates[g] = 0 }

\* The timers of one run are due one after the other.
Due(t, timers) == \A u \in timers : u.gen = t.gen => t.pos <= u.pos

\* runAutoFindFixture
RunAutoFindFixture(t) ==
  /\ Due(t, afTimers)
  /\ afTimers' = afTimers \ {t}
  /\ \/ /\ IsCurrentTimer(t)
        /\ candidates' = [g \in Galleries |->
                            IF g \in Discovered(t.fav) THEN afRun.id ELSE candidates[g]]
        /\ afRun' = [afRun EXCEPT !.done = @ + 1,
                       !.state = IF t.last \/ afRun.done + 1 >= afRun.total
                                 THEN "completed" ELSE @]
     \/ ~IsCurrentTimer(t) /\ UNCHANGED <<candidates, afRun>>
  /\ UNCHANGED <<favorites, owned, library, cutoff, afGeneration, saved, exclusions, restored, hidden,
                 dvars, resets>>

\* autoFindCancel
AutoFindCancel ==
  /\ Running(afRun)
  /\ afRun' = [afRun EXCEPT !.state = "cancelled"]
  /\ afGeneration' = afGeneration + 1
  /\ UNCHANGED <<favorites, owned, library, candidates, cutoff, afTimers, saved, exclusions, restored,
                 hidden, dvars, resets>>

----
(* Manual exclusions. *)

\* autoFindExclude: from the candidates on screen, or by id.
AutoFindExclude(g) ==
  /\ saved' = IF candidates[g] # 0 THEN [saved EXCEPT ![g] = candidates[g]] ELSE saved
  /\ candidates' = [candidates EXCEPT ![g] = 0]
  /\ exclusions' = exclusions \cup {g}
  /\ restored' = restored \ {g}
  /\ UNCHANGED <<favorites, owned, library, afRun, cutoff, afTimers, afGeneration, hidden, dvars, resets>>

\* explorationExclusionsList: the galleries it names.
Listed == exclusions \cup (IF review.resolved THEN review.hid \ restored ELSE {})

\* explorationExclusionsRestore: offered for the listed galleries.
ExclusionsRestore(g) ==
  /\ g \in Listed
  /\ exclusions' = exclusions \ {g}
  /\ restored' = restored \cup {g}
  /\ candidates' = IF saved[g] # 0 /\ candidates[g] = 0
                   THEN [candidates EXCEPT ![g] = saved[g]] ELSE candidates
  /\ saved' = [saved EXCEPT ![g] = 0]
  /\ UNCHANGED <<favorites, owned, library, afRun, cutoff, afTimers, afGeneration, hidden, dvars, resets>>

----
(* The duplicate scan. *)

\* duplicateScanStart.  A scan of two chosen albums is refused while one runs
\* and unless both are completed and not excluded; the whole-library scan
\* returns the one that runs.
DuplicateScanStart(ids) ==
  /\ ~Running(dupRun)
  /\ afRun.id + dupRun.id < MaxRuns
  /\ \A g \in ids : g \in library /\ ~IsDuplicateExplorationExcluded(g)
  /\ dupGeneration' = dupGeneration + 1
  /\ dupRun' = [id |-> dupRun.id + 1, state |-> "running", ids |-> ids]
  /\ dupTimers' = dupTimers \cup
       { [gen |-> dupGeneration + 1, pos |-> p, complete |-> p = 2] : p \in 1..2 }
  /\ UNCHANGED <<favorites, owned, library, avars, exclusions, restored, hidden, dupShown, review, resets>>

\* advanceDuplicateScanFixture: the first timer only reports progress, the
\* second completes the scan and stores the review it had, or a fresh one.
AdvanceDuplicateScanFixture(t) ==
  /\ Due(t, dupTimers)
  /\ dupTimers' = dupTimers \ {t}
  /\ \/ /\ t.gen = dupGeneration /\ Running(dupRun)
        /\ dupRun' = [dupRun EXCEPT !.state = IF t.complete THEN "completed" ELSE @]
        /\ IF t.complete /\ dupRun.ids \subseteq {Parent, Child}
           THEN /\ review' = [review EXCEPT !.stored = TRUE]
                /\ dupShown' = IF review.resolved THEN NotShown ELSE review.revision
           ELSE UNCHANGED <<review, dupShown>>
     \/ /\ ~(t.gen = dupGeneration /\ Running(dupRun))
        /\ UNCHANGED <<dupRun, review, dupShown>>
  /\ UNCHANGED <<favorites, owned, library, avars, exclusions, restored, hidden, dupGeneration, resets>>

\* duplicateScanCancel
DuplicateScanCancel ==
  /\ Running(dupRun)
  /\ dupRun' = [dupRun EXCEPT !.state = "cancelled"]
  /\ dupGeneration' = dupGeneration + 1
  /\ UNCHANGED <<favorites, owned, library, avars, exclusions, restored, hidden, dupTimers, dupShown,
                 review, resets>>

\* What the snapshot shows of the pair after a decision.
ShownAfter(action, revision) ==
  IF action \in {"hide_parent", "hide_candidate", "exclude_pair"} \/ dupShown = NotShown
  THEN NotShown ELSE revision

\* duplicateDecisionApply, with the revision the review was read at.  A
\* review that was resolved before can be decided again; a request with an
\* older revision is refused, which changes nothing.
DuplicateDecisionApply(action, target) ==
  LET hides == CASE action = "hide_parent" -> {Parent}
                 [] action = "hide_candidate" -> {Child}
                 [] OTHER -> {}
  IN  /\ review.stored
      /\ review.revision < MaxDecisions
      /\ review' = [review EXCEPT
             !.revision = @ + 1,
             !.hid = @ \cup hides,
             !.resolved = @ \/ action \in {"hide_parent", "hide_candidate", "exclude_pair"},
             !.series = CASE action = "series_link" -> @ \cup {Parent, Child}
                          [] action = "series_unlink" -> @ \ {target}
                          [] OTHER -> @]
      /\ hidden' = hidden \cup hides
      /\ restored' = restored \ hides
      /\ dupShown' = ShownAfter(action, review.revision + 1)
      /\ UNCHANGED <<favorites, owned, library, avars, exclusions, dupRun, dupTimers, dupGeneration, resets>>

DecisionActions == {"hide_parent", "hide_candidate", "exclude_pair", "series_link", "series_unlink"}

----
(* Resets. *)

\* explorationDataReset: refused while auto-find runs.
ExplorationDataReset ==
  /\ ~Running(afRun) /\ resets < MaxResets
  /\ resets' = resets + 1
  /\ afGeneration' = afGeneration + 1
  /\ favorites' = {} /\ exclusions' = {} /\ restored' = {}
  /\ saved' = NoCandidates /\ candidates' = NoCandidates
  /\ cutoff' = [f \in Favorites |-> 0]
  /\ afRun' = [NoRun EXCEPT !.id = afRun.id]
  /\ UNCHANGED <<owned, library, afTimers, hidden, dvars>>

\* maintenanceExecute of a factory reset: also while a run is going on, and
\* without a new generation.  The duplicate reviews stay.
FactoryReset ==
  /\ resets < MaxResets
  /\ resets' = resets + 1
  /\ owned' = {} /\ library' = {}
  /\ favorites' = {} /\ exclusions' = {} /\ restored' = {}
  /\ saved' = NoCandidates /\ candidates' = NoCandidates
  /\ cutoff' = [f \in Favorites |-> 0]
  /\ afRun' = [NoRun EXCEPT !.id = afRun.id]
  /\ UNCHANGED <<afTimers, afGeneration, hidden, dvars>>

Next ==
  \/ \E f \in Favorites : FavoriteSet(f)
  \/ \E g \in Galleries : QueueDownload(g) \/ AutoFindExclude(g) \/ ExclusionsRestore(g)
  \/ \E all \in BOOLEAN : AutoFindRefresh(all)
  \/ \E t \in afTimers : RunAutoFindFixture(t)
  \/ AutoFindCancel
  \/ \E ids \in {{}} \cup {{g, h} : g, h \in Galleries} :
       Cardinality(ids) # 1 /\ DuplicateScanStart(ids)
  \/ \E t \in dupTimers : AdvanceDuplicateScanFixture(t)
  \/ DuplicateScanCancel
  \/ \E a \in DecisionActions, g \in {Parent, Child} : DuplicateDecisionApply(a, g)
  \/ ExplorationDataReset
  \/ FactoryReset

Spec == Init /\ [][Next]_vars

----
(* Properties. *)

\* A running auto-find run is exactly as far from its end as it has timers
\* left, whatever runs were started, cancelled or wiped before it: a timer
\* of an older run never advances it (backend.ts:3267).
RunOwnsItsTimers ==
  Running(afRun) =>
    /\ Cardinality({t \in afTimers : t.gen = afGeneration}) = afRun.total - afRun.done
    /\ \E t \in afTimers : t.gen = afGeneration /\ t.last

\* A work the user excluded by hand is not offered, also not by a timer of a
\* run that was under way, nor after another exclusion was taken back.
ExcludedIsNotOffered == \A g \in exclusions : candidates[g] = 0

\* What auto-find leaves out is what the list of exclusions names: a hidden
\* work is never missing from the list that can restore it.
HiddenIsListed == \A g \in Galleries : (g \in exclusions \/ IsDuplicateExplorationExcluded(g))
                                        <=> g \in Listed

\* The snapshot shows the pair only while it is undecided, and at the
\* revision a decision has to name to be accepted.
ShownPairIsCurrent == dupShown # NotShown => ~review.resolved /\ dupShown = review.revision
====
