---- MODULE MCLibrary ----
(****************************************************************************)
(* Small instances of what the library window shows: the search bar,       *)
(* explore tabs, discovery and its reviews, the download list, the grid of *)
(* albums, their tabs and their pages. Each component has its own instance *)
(* and runs alone from its own initial states; they share the variables of *)
(* this module, each taking as many as it has.                             *)
(*****************************************************************************)
EXTENDS Integers, Sequences, FiniteSets, TLC

CONSTANTS None, k1, k2

VARIABLES
  focus,  \* the component that runs
  \* its variables, in the order of its VARIABLES
  v1, v2, v3, v4, v5, v6, v7, v8, v9, v10, v11, v12, v13, v14, v15, v16, v17, v18

vars == <<focus, v1, v2, v3, v4, v5, v6, v7, v8, v9, v10, v11, v12, v13, v14, v15, v16, v17, v18>>

Two == {1, 2}
SymmetricKeys == Permutations({k1, k2})

Offered == [w \in {"a", "b"} |-> IF w = "a" THEN <<"a", "b">> ELSE <<"b">>]

Works == [f \in {"artist", "group"} |-> IF f = "artist" THEN Two ELSE {2}]

IncomingAlbum == "r1" :> "b" @@ "r2" :> "c" @@ "pair" :> "d"
ExistingAlbums == "r1" :> {"a"} @@ "r2" :> {"a", "b"} @@ "pair" :> {"a"}
Containments == {<<"r1", "a", "incoming">>, <<"r2", "a", "existing">>, <<"r2", "b", "existing">>}
CoveredSides == {<<"r1", "a", "existing">>, <<"r2", "b", "existing">>, <<"r2", "a", "incoming">>}

Download(a, s) == [album |-> a, state |-> s, rev |-> 0, attempt |-> 1]
SavedLists ==
  {<<Download(1, "working"), Download(2, "interrupted")>>, <<Download(1, "interrupted")>>}

\* Two tabs, two interchangeable searches submitted, one page load and one reload.
Explore == INSTANCE ExploreTabs WITH
  MaxSettledPages <- 5, Keys <- {k1, k2}, Total <- 2, MaxContexts <- 2, MaxIds <- 2,
  MaxSearches <- 2, MaxLoads <- 1, MaxReloads <- 1,
  ctx <- v1, tabs <- v2, active <- v3, view <- v4, shown <- v5, closed <- v6, calls <- v7,
  waits <- v8, queries <- v9, token <- v10, loads <- v11, saved <- v12, restored <- v13,
  reloads <- v14

\* Two tabs over one search, three page loads and one reload.
Paging == INSTANCE ExploreTabs WITH
  MaxSettledPages <- 1, Keys <- {k1, k2}, Total <- 2, MaxContexts <- 2, MaxIds <- 2,
  MaxSearches <- 1, MaxLoads <- 3, MaxReloads <- 1,
  ctx <- v1, tabs <- v2, active <- v3, view <- v4, shown <- v5, closed <- v6, calls <- v7,
  waits <- v8, queries <- v9, token <- v10, loads <- v11, saved <- v12, restored <- v13,
  reloads <- v14

\* Two favourites that share a work; the two works are also a duplicate pair.
Scans == INSTANCE BrowserScans WITH
  Favorites <- {"artist", "group"}, Galleries <- Two, WorksOf <- Works, Library <- {1},
  Parent <- 1, Child <- 2, MaxRuns <- 2, MaxDecisions <- 2, MaxResets <- 1,
  favorites <- v1, owned <- v2, library <- v3, afRun <- v4, candidates <- v5, cutoff <- v6,
  afTimers <- v7, afGeneration <- v8, exclusions <- v9, saved <- v10, restored <- v11,
  hidden <- v12, dupRun <- v13, dupTimers <- v14, dupGeneration <- v15, dupShown <- v16,
  review <- v17, resets <- v18

\* Two downloads that wait, one of them also matched by the other's review, and a pair.
Reviews == INSTANCE BrowserReviews WITH
  Entries <- {"a", "b", "c", "d"}, Reviews <- {"r1", "r2", "pair"}, Pairs <- {"pair"}, IncomingOf <- IncomingAlbum,
  ExistingOf <- ExistingAlbums, Contained <- Containments, Covered <- CoveredSides,
  Uncensored <- {<<"r2", "b", "existing">>}, NoOne <- "none",
  state <- v1, reviewOf <- v2, rstate <- v3, decision <- v4, revision <- v5, seen <- v6,
  hiddenIds <- v7, restoredIds <- v8, automated <- v9, merged <- v10

\* Two albums, a feed that holds one change, two readings of the list.
Downloads == INSTANCE DownloadBoard WITH
  Albums <- Two, Slots <- 1, Saved <- SavedLists, Name <- <<1, 2>>, FeedSize <- 1,
  MaxEntries <- 2, MaxRevision <- 2, MaxReads <- 2, MaxCalls <- 1,
  entries <- v1, timers <- v2, feed <- v3, batch <- v4, library <- v5, store <- v6, ids <- v7,
  reads <- v8, token <- v9, board <- v10, pending <- v11, bulk <- v12, calls <- v13,
  report <- v14, stopped <- v15, asked <- v16

\* Selecting among three albums of two artists, two on a page.
Choice == INSTANCE GalleryGrid WITH
  Albums <- {1, 2, 3}, Folder <- <<1, 1, 2>>, PageSize <- 2, Batch <- 1, MaxSteps <- 3,
  MaxReads <- 4,
  view <- v1, download <- v2, found <- v3, excluded <- v4, known <- v5, reads <- v6, grid <- v7,
  excluding <- v8, autos <- v9, undo <- v10, undoing <- v11, moving <- v12, covers <- v13,
  steps <- v14

\* Two albums that are excluded one call at a time, or whose covers are chosen.
Grid == INSTANCE GalleryGrid WITH
  Albums <- Two, Folder <- <<1, 1>>, PageSize <- 2, Batch <- 1, MaxSteps <- 4, MaxReads <- 4,
  view <- v1, download <- v2, found <- v3, excluded <- v4, known <- v5, reads <- v6, grid <- v7,
  excluding <- v8, autos <- v9, undo <- v10, undoing <- v11, moving <- v12, covers <- v13,
  steps <- v14

\* Two words, one of them long enough for suggestions.
Typing == INSTANCE SearchBar WITH
  Words <- {"a", "b"}, Askable <- {"a"}, Suggested <- Offered, Languages <- {"ko"}, MaxSteps <- 4,
  bar <- v1, tags <- v2, questions <- v3, searches <- v4, history <- v5, past <- v6, reads <- v7,
  removal <- v8, gone <- v9, saved <- v10, stars <- v11, intent <- v12, save <- v13, wish <- v14,
  starRead <- v15, steps <- v16

\* Searches of one word, their history, and favourites.
Search == INSTANCE SearchBar WITH
  Words <- {"a", "b"}, Askable <- {"a", "b"}, Suggested <- Offered, Languages <- {"ko"},
  MaxSteps <- 5,
  bar <- v1, tags <- v2, questions <- v3, searches <- v4, history <- v5, past <- v6, reads <- v7,
  removal <- v8, gone <- v9, saved <- v10, stars <- v11, intent <- v12, save <- v13, wish <- v14,
  starRead <- v15, steps <- v16

\* Three albums in tabs, two closings remembered.
Tabs == INSTANCE DetailTabs WITH
  Albums <- {1, 2, 3}, Views <- {"explore", "downloads"}, Workers <- 1, Remembered <- 2,
  MaxSteps <- 5,
  view <- v1, detail <- v2, origins <- v3, closed <- v4, asking <- v5, random <- v6,
  hydrated <- v7, hydrating <- v8, cards <- v9, queue <- v10, queued <- v11, artists <- v12,
  waiting <- v13, checkpoint <- v14, steps <- v15

\* Descriptions read by one worker.
Cards == INSTANCE DetailTabs WITH
  Albums <- {1, 2, 3}, Views <- {"explore", "downloads"}, Workers <- 1, Remembered <- 2,
  MaxSteps <- 3,
  view <- v1, detail <- v2, origins <- v3, closed <- v4, asking <- v5, random <- v6,
  hydrated <- v7, hydrating <- v8, cards <- v9, queue <- v10, queued <- v11, artists <- v12,
  waiting <- v13, checkpoint <- v14, steps <- v15

\* An album of three pages whose originals are prepared.
Originals == INSTANCE DetailViewer WITH
  Albums <- {1}, PageCount <- <<3>>, WindowSize <- 2, MaxSizes <- 1, MaxViews <- 3,
  shown <- v1, done <- v2, start <- v3, input <- v4, page <- v5, spread <- v6, rtl <- v7,
  bar <- v8, box <- v9, sizes <- v10, request <- v11, cover <- v12, viewers <- v13, calls <- v14,
  disposals <- v15, held <- v16, views <- v17

\* Turning its pages one and two at a time.
Pages == INSTANCE DetailViewer WITH
  Albums <- {1}, PageCount <- <<3>>, WindowSize <- 2, MaxSizes <- 1, MaxViews <- 5,
  shown <- v1, done <- v2, start <- v3, input <- v4, page <- v5, spread <- v6, rtl <- v7,
  bar <- v8, box <- v9, sizes <- v10, request <- v11, cover <- v12, viewers <- v13, calls <- v14,
  disposals <- v15, held <- v16, views <- v17

\* The variables the component that runs does not have, those after the n-th.
Idle(n) ==
  /\ n < 11 => v11 = 0
  /\ n < 12 => v12 = 0
  /\ n < 13 => v13 = 0
  /\ n < 14 => v14 = 0
  /\ n < 15 => v15 = 0
  /\ n < 16 => v16 = 0
  /\ n < 17 => v17 = 0
  /\ n < 18 => v18 = 0

Still(n) ==
  /\ n < 11 => UNCHANGED v11
  /\ n < 12 => UNCHANGED v12
  /\ n < 13 => UNCHANGED v13
  /\ n < 14 => UNCHANGED v14
  /\ n < 15 => UNCHANGED v15
  /\ n < 16 => UNCHANGED v16
  /\ n < 17 => UNCHANGED v17
  /\ n < 18 => UNCHANGED v18

Init ==
  \/ focus = "explore" /\ Explore!Init /\ Idle(14)
  \/ focus = "paging" /\ Paging!Init /\ Idle(14)
  \/ focus = "scans" /\ Scans!Init
  \/ focus = "reviews" /\ Reviews!Init /\ Idle(10)
  \/ focus = "downloads" /\ Downloads!Init /\ Idle(16)
  \/ focus = "choice" /\ Choice!Init /\ Idle(14)
  \/ focus \in {"exclusions", "covers"} /\ Grid!Init /\ Idle(14)
  \/ focus = "typing" /\ Typing!Init /\ Idle(16)
  \/ focus \in {"searches", "stars"} /\ Search!Init /\ Idle(16)
  \/ focus = "tabs" /\ Tabs!Init /\ Idle(15)
  \/ focus = "cards" /\ Cards!Init /\ Idle(15)
  \/ focus = "originals" /\ Originals!Init /\ Idle(17)
  \/ focus = "pages" /\ Pages!Init /\ Idle(17)

Next ==
  \/ /\ focus = "explore" /\ UNCHANGED focus /\ Still(14)
     /\ Explore!Next
  \/ /\ focus = "paging" /\ UNCHANGED focus /\ Still(14)
     /\ Paging!Next
  \/ /\ focus = "scans" /\ UNCHANGED focus
     /\ Scans!Next
  \/ /\ focus = "reviews" /\ UNCHANGED focus /\ Still(10)
     /\ Reviews!Next
  \/ /\ focus = "downloads" /\ UNCHANGED focus /\ Still(16)
     /\ Downloads!Next
  \/ /\ focus = "choice" /\ UNCHANGED focus /\ Still(14)
     /\ \/ Choice!Choosing \/ Choice!ExcludeExplore(Choice!Targets)
        \/ Choice!ExcludeCandidates(Choice!Targets)
        \/ \E c \in v9 : Choice!CandidatesServed(c) \/ Choice!CandidatesAnswered(c)
  \/ /\ focus = "exclusions" /\ UNCHANGED focus /\ Still(14)
     /\ Grid!Excluding \/ Grid!SelectAll \/ \E v \in Grid!Views : Grid!Navigate(v)
  \/ /\ focus = "covers" /\ UNCHANGED focus /\ Still(14)
     /\ Grid!Covering
  \/ /\ focus = "typing" /\ UNCHANGED focus /\ Still(16)
     /\ Typing!Typing \/ Typing!Submit
        \/ \E i \in Two, background \in BOOLEAN : Typing!Choose(i, background)
  \/ /\ focus = "searches" /\ UNCHANGED focus /\ Still(16)
     /\ Search!Searching \/ Search!Focus \/ Search!Type(<<>>)
        \/ \E w \in {"a", "b"} : Search!Type(<<[word |-> w, minus |-> FALSE]>>)
  \/ /\ focus = "stars" /\ UNCHANGED focus /\ Still(16)
     /\ Search!Starring
  \/ /\ focus = "tabs" /\ UNCHANGED focus /\ Still(15)
     /\ Tabs!Tabs
  \/ /\ focus = "cards" /\ UNCHANGED focus /\ Still(15)
     /\ Cards!Reading \/ (\E a \in {1, 2, 3} : Cards!OpenDetail(a, FALSE))
        \/ \E w \in {"explore", "downloads"} : Cards!Navigate(w)
  \/ /\ focus = "originals" /\ UNCHANGED focus /\ Still(17)
     /\ Originals!Paging \/ Originals!Originals
  \/ /\ focus = "pages" /\ UNCHANGED focus /\ Still(17)
     /\ Pages!Paging \/ Pages!Comforts

Spec == Init /\ [][Next]_vars

----
\* Explore: the viewport is the query of the selected tab, and what a tab shows and
\* caches answers its own search, however late the answers of earlier searches arrive.
TabsShowTheirSearch ==
  /\ focus = "explore" => Explore!ShowsActive /\ Explore!ShowsOwnSearch
  /\ focus = "paging" => Paging!ShowsActive /\ Paging!ShowsOwnSearch

\* Explore: a tab that says it is busy is waited for by a call whose answer will end it.
BusyIsServed ==
  /\ focus = "explore" => Explore!BusyIsServed
  /\ focus = "paging" => Paging!BusyIsServed

\* Explore: the covers held are those of the pages that own a warmup, none for a tab that
\* is parked or closed, and the cache stays within its window.
LeasesMatch ==
  /\ focus = "explore" => Explore!LeasesMatch
  /\ focus = "paging" => Paging!LeasesMatch

\* Discovery: timers of an older run never advance the run that goes on; excluded works
\* are not offered, hidden ones can be restored from the list, and a duplicate pair is
\* shown only undecided and at the revision a decision has to name.
DiscoveryIsConsistent ==
  focus = "scans" =>
    /\ Scans!RunOwnsItsTimers
    /\ Scans!ExcludedIsNotOffered
    /\ Scans!HiddenIsListed
    /\ Scans!ShownPairIsCurrent

\* Edition reviews: a download waits only for a pending review of its own, and no pending
\* review rests on pages a merge has changed.
WaitingHasReview ==
  focus = "reviews" =>
    /\ Reviews!WaitingHasReview
    /\ Reviews!MergeRetiresReviews

\* Downloads: a cancellation accounts for every download it was asked for and claims only
\* what the backend cancelled; a finished reading of the list shows every download.
DownloadListIsTrue ==
  focus = "downloads" =>
    /\ Downloads!CancelAccountsForAll
    /\ Downloads!FinishedListIsWhole

\* Grid: exclusions that count as read are the backend's, and the cover shown is the one
\* chosen last once every event and answer has arrived.
GridIsTrue ==
  /\ focus = "choice" => Choice!ExclusionsAreTrue
  /\ focus \in {"exclusions", "covers"} => Grid!ExclusionsAreTrue /\ Grid!CoverIsNewest

\* Search bar: the suggestions answer the last question, a removed search stays removed, and
\* the backend ends with the user's last wish for a favourite.
SearchBarIsTrue ==
  /\ focus = "typing" => Typing!SuggestionsAnswerTheLast
  /\ focus = "searches" => Search!RemovedStaysGone
  /\ focus = "stars" => Search!LastWishIsSaved

\* Album tabs: the album in front is one of the open tabs, and a card waits for its description
\* only while every worker is busy.
NoWorkerRests ==
  /\ focus = "tabs" => Tabs!FrontIsOpen
  /\ focus = "cards" => Cards!NoWorkerRests

\* Album page: every original the backend holds belongs to a page or will be disposed of, and
\* the enlarged view always shows a page.
NoOriginalIsLeaked ==
  /\ focus = "originals" => Originals!NoOriginalIsLeaked
  /\ focus = "pages" => Pages!PreviewShowsAPage
====
