---- MODULE Danbooru ----
(***************************************************************************)
(* The Danbooru workspace: one screen with two views, the search and the   *)
(* saved posts, over one counter that tells the latest load from those it  *)
(* overtook; two small caches; the way back to earlier searches; a random  *)
(* post; saving; and the detail window with the posts related to the one   *)
(* it shows.  A query is a set of terms, and the backend works on a        *)
(* request when it answers it.                                             *)
(***************************************************************************)
EXTENDS Integers, Sequences, FiniteSets

CONSTANTS
    Posts,
    Drafts,         \* what may be typed: sets of terms
    PostIds,        \* the drafts that are a post id
    Filters,        \* the conditions: sets of metatags
    MaxPage,        \* pages of an answer (bound)
    MaxLoads,       \* loads in a behaviour (bound)
    CacheSize,      \* 16 searches and 8 lists in the code
    HistorySize,    \* 12 in the code
    None

VARIABLES
    ui,         \* the state of the screen
    presented,  \* committedPresentation: [draft, filters]
    history,    \* earlier searches, the latest last
    cache,      \* per view, the requests answered, the oldest first
    sequence,   \* requestSequence
    calls,      \* loads under way: [view, query, page, seq]
    random,     \* a random post was asked for
    pending,    \* posts being saved, with the screen their button was drawn on
    ids,        \* downloadedIds
    saved,      \* the backend's records
    related     \* [of, shown]: the post whose relations are asked for, and those shown

vars == <<ui, presented, history, cache, sequence, calls, random, pending, ids, saved, related>>
searchVars == <<presented, history, cache, sequence, calls>>
saveVars == <<random, pending, ids, saved>>

Views == {"explore", "downloads"}
NoFilters == {}
Unlimited == {"rating", "date", "score"}

\* buildDanbooruSearchQuery: a post id is searched for as it is.
Query(draft, filters) == IF draft \in PostIds THEN draft ELSE draft \cup filters
LimitedTerms(query) == Cardinality(query \ Unlimited)

defaultState == [view |-> "explore", draft |-> [v \in Views |-> {}], committed |-> [v \in Views |-> {}],
                 page |-> [v \in Views |-> 1], filters |-> NoFilters, result |-> [v \in Views |-> None],
                 loading |-> FALSE, error |-> FALSE, detail |-> None, restored |-> FALSE]

Init ==
    /\ ui = defaultState
    /\ presented = [draft |-> {}, filters |-> NoFilters]
    /\ history = <<>> /\ cache = [v \in Views |-> <<>>]
    /\ sequence = 0 /\ calls = {} /\ random = FALSE
    /\ pending = {} /\ ids = {} /\ saved = {}
    /\ related = [of |-> None, shown |-> None]

----
(* Loads. *)

Hits(v, query, page) == {i \in 1..Len(cache[v]) : cache[v][i].query = query /\ cache[v][i].page = page}

\* loadExplore and loadDownloads, on a screen that `next` is the rest of.
Load(v, query, page, force, next) ==
    LET hits == IF force THEN {} ELSE Hits(v, query, page)
    IN  /\ sequence < MaxLoads
        /\ sequence' = sequence + 1
        /\ IF hits = {}
           THEN /\ calls' = calls \cup {[view |-> v, query |-> query, page |-> page, seq |-> sequence + 1]}
                /\ ui' = [next EXCEPT !.loading = TRUE, !.error = FALSE]
           ELSE LET answer == cache[v][CHOOSE i \in hits : TRUE].answer
                IN  /\ calls' = calls
                    /\ ui' = [next EXCEPT !.loading = FALSE, !.error = FALSE,
                                          !.result[v] = answer, !.page[v] = answer.page]

\* danbooruSearch gives the page that was asked for, danbooruDownloadsList the
\* nearest one there is.
Answers(c) ==
    [query : {c.query}, last : BOOLEAN, items : {IF c.view = "explore" THEN Posts ELSE saved},
     page : IF c.view = "explore" THEN {c.page} ELSE {c.page, 1}]

\* A key already held keeps its place among those to be evicted (Map.set).
Remembered(c, answer) ==
    LET entry == [query |-> c.query, page |-> c.page, answer |-> answer]
        at == {k \in DOMAIN cache[c.view] : cache[c.view][k].query = c.query /\ cache[c.view][k].page = c.page}
        all == IF at # {} THEN [k \in DOMAIN cache[c.view] |-> IF k \in at THEN entry ELSE cache[c.view][k]]
               ELSE Append(cache[c.view], entry)
    IN  IF Len(all) > CacheSize THEN Tail(all) ELSE all

LoadAnswered(c) ==
    /\ calls' = calls \ {c}
    /\ IF c.seq # sequence THEN UNCHANGED <<ui, cache, ids>>
       ELSE \/ \E answer \in Answers(c) :
                 /\ ui' = [ui EXCEPT !.loading = FALSE, !.result[c.view] = answer, !.page[c.view] = answer.page]
                 /\ cache' = [cache EXCEPT ![c.view] = Remembered(c, answer)]
                 /\ ids' = IF c.view = "downloads" THEN ids \cup answer.items ELSE ids
            \/ /\ ui' = [ui EXCEPT !.loading = FALSE, !.error = TRUE]
               /\ UNCHANGED <<cache, ids>>
    /\ UNCHANGED <<presented, history, sequence, random, pending, saved, related>>

Reload(force) == Load(ui.view, ui.committed[ui.view], ui.page[ui.view], force, ui)
                 /\ UNCHANGED <<presented, history, cache, saveVars, related>>

\* The page restored from storage is loaded once the grid is measured.
LoadRestored ==
    /\ ~ui.restored
    /\ Load(ui.view, ui.committed[ui.view], ui.page[ui.view], FALSE, [ui EXCEPT !.restored = TRUE])
    /\ UNCHANGED <<presented, history, cache, saveVars, related>>

RetryLoad == ui.error /\ Reload(TRUE)

Pager(step) ==
    LET shown == ui.result[ui.view]
        here == IF ui.view = "downloads" THEN (IF shown = None THEN 1 ELSE shown.page) ELSE ui.page.explore
    IN  /\ ~ui.loading
        /\ IF step = 1 THEN shown # None /\ ~shown.last /\ here < MaxPage ELSE here > 1
        /\ Load(ui.view, ui.committed[ui.view], here + step, FALSE, ui)
        /\ UNCHANGED <<presented, history, cache, saveVars, related>>

Navigate(v) ==
    /\ v # ui.view
    /\ Load(v, ui.committed[v], ui.page[v], FALSE, [ui EXCEPT !.view = v, !.error = FALSE])
    /\ UNCHANGED <<presented, history, cache, saveVars, related>>

----
(* Searches and the way back. *)

TypeDraft(draft) ==
    /\ ui' = [ui EXCEPT !.draft[ui.view] = draft]
    /\ UNCHANGED <<searchVars, saveVars, related>>

\* The panel of conditions, its reset, and the defaults saved by the settings.
SetFilters(filters) ==
    /\ ui' = [ui EXCEPT !.filters = filters]
    /\ UNCHANGED <<searchVars, saveVars, related>>

rememberSearch ==
    LET entry == [view |-> ui.view, draft |-> presented.draft, committed |-> ui.committed.explore,
                  page |-> ui.page.explore, filters |-> presented.filters, result |-> ui.result.explore]
        all == Append(history, entry)
    IN  IF Len(all) > HistorySize THEN Tail(all) ELSE all

SubmitSearch(draft, filters) ==
    LET query == Query(draft, filters)
        next == [ui EXCEPT !.draft.explore = draft, !.filters = filters]
    IN  /\ IF LimitedTerms(query) > 2
           THEN /\ ui' = [next EXCEPT !.error = TRUE]
                /\ UNCHANGED <<presented, history, sequence, calls>>
           ELSE /\ history' = IF ~ui.loading /\ ui.result.explore # None /\ query # ui.committed.explore
                              THEN rememberSearch ELSE history
                /\ presented' = [draft |-> draft, filters |-> filters]
                /\ Load("explore", query, 1, TRUE,
                        [next EXCEPT !.committed.explore = query, !.page.explore = 1])
        /\ UNCHANGED <<cache, saveVars, related>>

\* The form, the button of the panel of conditions, and the order, which is part of them.
Submit ==
    \/ ui.view = "explore" /\ SubmitSearch(ui.draft.explore, ui.filters)
    \/ ui.view = "explore" /\ \E f \in Filters : f # ui.filters /\ SubmitSearch(ui.draft.explore, f)
    \/ /\ ui.view = "downloads"
       /\ Load("downloads", ui.draft.downloads, 1, TRUE,
               [ui EXCEPT !.committed.downloads = ui.draft.downloads, !.page.downloads = 1])
       /\ UNCHANGED <<presented, history, cache, saveVars, related>>

Back(previous) ==
    [ui EXCEPT !.loading = FALSE, !.error = FALSE, !.detail = None, !.view = previous.view,
               !.draft.explore = previous.draft, !.committed.explore = previous.committed,
               !.page.explore = previous.page, !.filters = previous.filters,
               !.result.explore = previous.result]

\* A load under way is not told that its search was left.
RestoreSearchQuietly ==
    /\ history # <<>>
    /\ LET previous == history[Len(history)]
       IN  /\ ui' = Back(previous)
           /\ presented' = [draft |-> previous.draft, filters |-> previous.filters]
    /\ history' = SubSeq(history, 1, Len(history) - 1)
    /\ related' = [related EXCEPT !.of = None]
    /\ UNCHANGED <<cache, sequence, calls, saveVars>>

RestoreSearch ==
    /\ history # <<>> /\ sequence < MaxLoads
    /\ LET previous == history[Len(history)]
       IN  /\ ui' = Back(previous)
           /\ presented' = [draft |-> previous.draft, filters |-> previous.filters]
    /\ sequence' = sequence + 1
    /\ history' = SubSeq(history, 1, Len(history) - 1)
    /\ related' = [related EXCEPT !.of = None]
    /\ UNCHANGED <<cache, calls, saveVars>>

\* A tag or a pool of the detail window: its search is remembered, and sent
\* without counting its terms.
SearchTag(tag) ==
    /\ ui.detail # None
    /\ history' = rememberSearch
    /\ presented' = [draft |-> {tag}, filters |-> ui.filters]
    /\ related' = [related EXCEPT !.of = None]
    /\ LET query == Query({tag}, ui.filters)
       IN  Load("explore", query, 1, FALSE,
                [ui EXCEPT !.detail = None, !.view = "explore", !.draft.explore = {tag},
                           !.committed.explore = query, !.page.explore = 1])
    /\ UNCHANGED <<cache, saveVars>>

----
(* A post: its window, its relations, a random one, and saving it. *)

\* The window asks for the relations of each post it shows, and no longer for
\* those of the one before.
OpenDetail(post) ==
    /\ \/ ui.result[ui.view] # None /\ post \in ui.result[ui.view].items
       \/ ui.detail # None /\ related.shown # None
    /\ ui' = [ui EXCEPT !.detail = post]
    /\ related' = IF ui.detail = post THEN related ELSE [of |-> post, shown |-> None]
    /\ UNCHANGED <<searchVars, saveVars>>

CloseDetail ==
    /\ ui.detail # None
    /\ ui' = [ui EXCEPT !.detail = None]
    /\ related' = [of |-> None, shown |-> None]
    /\ UNCHANGED <<searchVars, saveVars>>

RelatedAnswered ==
    /\ related.of # None
    /\ \E ok \in BOOLEAN : related' = [of |-> None, shown |-> IF ok THEN related.of ELSE None]
    /\ UNCHANGED <<ui, searchVars, saveVars>>

OpenRandom ==
    /\ ui.view = "explore" /\ ~ui.loading
    /\ ui' = [ui EXCEPT !.loading = TRUE, !.error = FALSE]
    /\ random' = TRUE
    /\ UNCHANGED <<searchVars, pending, ids, saved, related>>

\* The answer is not compared with the loads that followed it.
RandomAnswered ==
    /\ random /\ random' = FALSE
    /\ \/ /\ ui' = [ui EXCEPT !.loading = FALSE, !.error = TRUE]
          /\ UNCHANGED related
       \/ \E post \in Posts : /\ ui' = [ui EXCEPT !.loading = FALSE, !.detail = post]
                              /\ related' = [of |-> post, shown |-> None]
    /\ UNCHANGED <<searchVars, pending, ids, saved>>

Download(post) ==
    /\ post \notin ids /\ \A p \in pending : p.post # post
    /\ ui.detail = post \/ (ui.result[ui.view] # None /\ post \in ui.result[ui.view].items)
    /\ pending' = pending \cup {[post |-> post, view |-> ui.view, page |-> ui.page.downloads,
                                 query |-> ui.committed.downloads]}
    /\ UNCHANGED <<ui, searchVars, random, ids, saved, related>>

\* danbooruDownload, and the reload of the list the button was drawn on.
Downloaded(p) ==
    /\ pending' = pending \ {p}
    /\ \/ UNCHANGED <<ui, sequence, calls, cache, ids, saved>>
       \/ /\ saved' = saved \cup {p.post}
          /\ ids' = ids \cup {p.post}
          /\ cache' = [cache EXCEPT !.downloads = <<>>]
          /\ IF p.view # "downloads" THEN UNCHANGED <<ui, sequence, calls>>
             ELSE Load("downloads", p.query, p.page, TRUE, ui)
    /\ UNCHANGED <<presented, history, random, related>>

\* The program is started again: storage keeps the searches, the settings the filters.
Restart ==
    /\ calls = {} /\ pending = {} /\ ~random /\ history # <<>>
    /\ \E filters \in Filters :
          /\ ui' = [defaultState EXCEPT !.view = ui.view, !.draft = ui.draft, !.committed = ui.committed,
                                        !.page = ui.page, !.filters = filters]
          /\ presented' = [draft |-> ui.draft.explore, filters |-> filters]
    /\ history' = <<>> /\ cache' = [v \in Views |-> <<>>] /\ ids' = {}
    /\ related' = [of |-> None, shown |-> None]
    /\ UNCHANGED <<sequence, calls, random, pending, saved>>

Loading ==
    \/ LoadRestored \/ RetryLoad \/ (\E step \in {-1, 1} : Pager(step))
    \/ (\E v \in Views : Navigate(v)) \/ (\E c \in calls : LoadAnswered(c))
Searching ==
    \/ (\E d \in Drafts : TypeDraft(d)) \/ (\E f \in Filters : SetFilters(f))
    \/ Submit \/ RestoreSearch \/ (\E tag \in UNION Drafts : SearchTag(tag)) \/ Restart
Viewing == (\E post \in Posts : OpenDetail(post)) \/ CloseDetail
Saving ==
    \/ RelatedAnswered \/ OpenRandom \/ RandomAnswered
    \/ (\E post \in Posts : Download(post)) \/ (\E p \in pending : Downloaded(p))

Next == Loading \/ Searching \/ Viewing \/ Saving

Spec == Init /\ [][Next]_vars

----
\* A search whose answer may still be shown is the one the screen is committed
\* to: going back, or on to another search, always overtakes the loads before it.
LateSearchIsDropped ==
    \A c \in calls : c.view = "explore" /\ c.seq = sequence => c.query = ui.committed.explore

\* No search with more than two limited conditions is sent, whichever way it was
\* made: typed, reordered, narrowed, repeated, restored or taken from a post.
SearchesWithinBudget == \A c \in calls : c.view = "explore" => LimitedTerms(c.query) <= 2
====
