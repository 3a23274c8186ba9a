---- MODULE MCReviewing ----
(****************************************************************************)
(* Small instances of the scan boards, the reviews of editions and of      *)
(* repeated pages, the drawer of what happened and the thumbnails. Each    *)
(* component has its own instance and runs alone from its own initial      *)
(* states; they share the variables of this module, each taking as many as *)
(* it has.                                                                 *)
(*****************************************************************************)
EXTENDS Integers, Sequences, FiniteSets

CONSTANT None

VARIABLES
  focus,  \* the component that runs
  \* its variables, in the order of its VARIABLES
  v1, v2, v3, v4, v5, v6, v7, v8, v9, v10, v11, v12, v13, v14, v15, v16

vars == <<focus, v1, v2, v3, v4, v5, v6, v7, v8, v9, v10, v11, v12, v13, v14, v15, v16>>

Two == {1, 2}

\* Repeated pages of two albums, and what is known of the editions of their pages.
Row(i, a, p, k) == [id |-> i, album |-> a, block |-> a, pages |-> p, keep |-> k]
Row1 == Row(1, 1, {1, 2}, 1)
BigRows == {Row1, Row(2, 1, {3, 4}, 3), Row(3, 1, {5, 6}, 5), Row(4, 2, {7, 8}, 7)}
SmallRows == {Row1, Row(2, 2, {3, 4}, 3)}
Edition(t, o) == [track |-> t, ordinal |-> o]
A == Edition("a", 0)
B == Edition("b", 1)
C == Edition("c", 2)
Unknown == Edition(None, 9)
BigEvidence ==
  {<<A, B, A, B, A, B, Unknown, Unknown>>, <<A, B, B, C, A, C, Unknown, Unknown>>,
   <<A, B, A, B, A, Unknown, Unknown, Unknown>>, <<A, B, A, A, B, B, Unknown, Unknown>>,
   <<A, B, A, B, A, Edition("b", 2), Unknown, Unknown>>}
SmallEvidence == {<<Unknown, Unknown, Unknown, Unknown>>}

\* Two runs of a scan, two readings of the board at once.
Boards == INSTANCE ScanBoards WITH
  MaxRuns <- 2, MaxRevision <- 2, MaxReads <- 2, MaxEvents <- 2, MaxWrites <- 1,
  board <- v1, srv <- v2, data <- v3, srvProgress <- v4, events <- v5, run <- v6, shown <- v7,
  loading <- v8, reads <- v9, again <- v10, call <- v11, progress <- v12, lookups <- v13,
  lost <- v14, writes <- v15

\* Albums of up to three and of one page against one of up to two.
Dialog == INSTANCE OverlapDialog WITH
  PageBound <- <<3, 1>>, IncomingBound <- 2, MaxRevision <- 2,
  incoming <- v1, existing <- v2, pairs <- v3, review <- v4, audits <- v5, gone <- v6, tab <- v7,
  selection <- v8, request <- v9

\* Two reviews, one of which the sweep merges; one sweep, two changes of a review.
Desk == INSTANCE OverlapDesk WITH
  Reviews <- Two, Candidates <- 2, Planned <- <<1, 2>>, Merging <- {1}, MaxRevision <- 2,
  MaxSweeps <- 1,
  reviews <- v1, listed <- v2, news <- v3, dialog <- v4, pairOpen <- v5, decision <- v6,
  records <- v7, session <- v8, sweep <- v9, rescan <- v10, wake <- v11, attempted <- v12,
  broken <- v13, sweeps <- v14

\* The same with two sweeps and one change.
Sweeps == INSTANCE OverlapDesk WITH
  Reviews <- Two, Candidates <- 2, Planned <- <<1, 2>>, Merging <- {1}, MaxRevision <- 1,
  MaxSweeps <- 2,
  reviews <- v1, listed <- v2, news <- v3, dialog <- v4, pairOpen <- v5, decision <- v6,
  records <- v7, session <- v8, sweep <- v9, rescan <- v10, wake <- v11, attempted <- v12,
  broken <- v13, sweeps <- v14

\* Repeated pages inside one album, whose editions miss scenes.
Editions == INSTANCE InternalReview WITH
  Albums <- {1}, Rows <- BigRows, Evidence <- BigEvidence, MaxPlans <- 1, MaxScans <- 1,
  MaxReads <- 1,
  edition <- v1, found <- v2, records <- v3, plans <- v4, scan <- v5, timers <- v6,
  generation <- v7, dialog <- v8, reads <- v9, call <- v10

\* Reviews of two albums whose readings cross.
Crossing == INSTANCE InternalReview WITH
  Albums <- Two, Rows <- SmallRows, Evidence <- SmallEvidence, MaxPlans <- 2, MaxScans <- 1,
  MaxReads <- 4,
  edition <- v1, found <- v2, records <- v3, plans <- v4, scan <- v5, timers <- v6,
  generation <- v7, dialog <- v8, reads <- v9, call <- v10

\* One album scanned again and again.
Rescans == INSTANCE InternalReview WITH
  Albums <- {1}, Rows <- {Row1}, Evidence <- {<<Unknown, Unknown>>}, MaxPlans <- 3, MaxScans <- 3,
  MaxReads <- 2,
  edition <- v1, found <- v2, records <- v3, plans <- v4, scan <- v5, timers <- v6,
  generation <- v7, dialog <- v8, reads <- v9, call <- v10

\* Two automatic decisions, two albums, a list of one row.
Recent == INSTANCE Activity WITH
  Albums <- Two, PageSize <- 1, FeedSize <- 1, MaxSteps <- 4, MaxDecisions <- 2,
  records <- v1, told <- v2, list <- v3, reads <- v4, acks <- v5, acked <- v6, counted <- v7,
  state <- v8, hidden <- v9, session <- v10, failed <- v11, unread <- v12, unreadIds <- v13,
  open <- v14, section <- v15, steps <- v16

\* One image, of each kind, that changes while a card and a page show it.
Kinds == {"gallery", "source-page", "overlap-review-page"}
Images(kind) == INSTANCE Thumbnails WITH
  Keys <- {1}, Consumers <- IF kind = "gallery" THEN {"card", "page", "warm"} ELSE {"card"},
  Kind <- <<kind>>, Cost <- <<1>>, Capacity <- 1, RetainBudget <- 1, PinCapacity <- 1,
  PinBudget <- 2, Concurrency <- 1, MaxRequests <- 2, MaxChanges <- 1,
  entry <- v1, pending <- v2, owner <- v3, urls <- v4, data <- v5, fence <- v6, retained <- v7,
  pins <- v8, visited <- v9, bytes <- v10, warm <- v11, active <- v12

\* Two covers that are loaded ahead and pinned: with room for one they are too many, with
\* room for two they are too large together.
Covers(room) == INSTANCE Thumbnails WITH
  Keys <- Two, Consumers <- {"pin", "warm", "page"}, Kind <- <<"gallery", "gallery">>, Cost <- <<1, 2>>,
  Capacity <- room, RetainBudget <- 4 - room, PinCapacity <- room,
  PinBudget <- 2, Concurrency <- 1, MaxRequests <- 2, MaxChanges <- 0,
  entry <- v1, pending <- v2, owner <- v3, urls <- v4, data <- v5, fence <- v6, retained <- v7,
  pins <- v8, visited <- v9, bytes <- v10, warm <- v11, active <- v12

\* The variables the component that runs does not have, those after the n-th.
Idle(n) ==
  /\ n < 10 => v10 = 0
  /\ n < 11 => v11 = 0
  /\ n < 12 => v12 = 0
  /\ n < 13 => v13 = 0
  /\ n < 14 => v14 = 0
  /\ n < 15 => v15 = 0
  /\ n < 16 => v16 = 0

Still(n) ==
  /\ n < 10 => UNCHANGED v10
  /\ n < 11 => UNCHANGED v11
  /\ n < 12 => UNCHANGED v12
  /\ n < 13 => UNCHANGED v13
  /\ n < 14 => UNCHANGED v14
  /\ n < 15 => UNCHANGED v15
  /\ n < 16 => UNCHANGED v16

Init ==
  \/ focus = "boards" /\ Boards!Init /\ Idle(15)
  \/ focus = "dialog" /\ Dialog!Init /\ Idle(9)
  \/ focus = "desk" /\ Desk!Init /\ Idle(14)
  \/ focus = "sweeps" /\ Sweeps!Init /\ Idle(14)
  \/ focus = "rows" /\ Editions!Init /\ Idle(10)
  \/ focus = "crossing" /\ Crossing!Init /\ Idle(10)
  \/ focus = "rescans" /\ Rescans!Init /\ Idle(10)
  \/ focus \in {"history", "session"} /\ Recent!Init
  \/ \E kind \in Kinds : focus = kind /\ Images(kind)!Init /\ Idle(12)
  \/ focus = "crowded" /\ Covers(1)!Init /\ Idle(12)
  \/ focus = "covers" /\ Covers(2)!Init /\ Idle(12)

Next ==
  \/ /\ focus = "boards" /\ UNCHANGED focus /\ Still(15)
     /\ Boards!Next
  \/ /\ focus = "dialog" /\ UNCHANGED focus /\ Still(9)
     /\ Dialog!Next
  \/ /\ focus = "desk" /\ UNCHANGED focus /\ Still(14)
     /\ Desk!Next
  \/ /\ focus = "sweeps" /\ UNCHANGED focus /\ Still(14)
     /\ Sweeps!Next
  \/ /\ focus = "rows" /\ UNCHANGED focus /\ Still(10)
     /\ Editions!Next
  \/ /\ focus = "crossing" /\ UNCHANGED focus /\ Still(10)
     /\ Crossing!Next
  \/ /\ focus = "rescans" /\ UNCHANGED focus /\ Still(10)
     /\ Rescans!Next
  \/ /\ focus = "history" /\ UNCHANGED focus
     /\ Recent!Drawer \/ Recent!History
  \/ /\ focus = "session" /\ UNCHANGED focus
     /\ Recent!Drawer \/ Recent!Session
  \/ \E kind \in Kinds :
       /\ focus = kind /\ UNCHANGED focus /\ Still(12)
       /\ Images(kind)!Next
  \/ /\ focus = "crowded" /\ UNCHANGED focus /\ Still(12)
     /\ Covers(1)!Next
  \/ /\ focus = "covers" /\ UNCHANGED focus /\ Still(12)
     /\ Covers(2)!Next

Spec == Init /\ [][Next]_vars

----
\* Boards: when nothing is under way the board shows the backend's run and, once that is
\* over, its results; the progress shown belongs to the run shown, and loading ends.
BoardsSettle ==
  focus = "boards" =>
    /\ Boards!QuietIsCurrent
    /\ Boards!ProgressBelongsToRun
    /\ Boards!LoadingEnds

\* Dialog: the merge of the selected pages has every page once.
MergeKeepsEveryPage == focus = "dialog" => Dialog!MergeKeepsEveryPage

\* Dialog: what it says became of the albums is what the decisions did, its alignment shows
\* every page, and the strict plan gives up no page but within its 95 % rule.
OutcomeIsTrue ==
  focus = "dialog" =>
    /\ Dialog!OutcomeIsTrue
    /\ Dialog!AlignmentIsComplete
    /\ Dialog!PlanKeepsToTheRule

\* Desk: once the sweep rests it has tried every review its plan covers, and it never decides
\* at the same time as the user.
NoReviewIsForgotten ==
  /\ focus = "desk" => Desk!NoReviewIsForgotten /\ Desk!OneDecides
  /\ focus = "sweeps" => Sweeps!NoReviewIsForgotten /\ Sweeps!OneDecides

\* Internal review: no row loses all its pages, and a page is put into quarantine once.
PagesAreKept ==
  /\ focus = "rows" => Editions!RowsKeepAPage /\ Editions!QuarantinedOnce
  /\ focus = "crossing" => Crossing!RowsKeepAPage /\ Crossing!QuarantinedOnce
  /\ focus = "rescans" => Rescans!RowsKeepAPage /\ Rescans!QuarantinedOnce

\* History: the count of unacknowledged decisions is the backend's once all is answered, and
\* an acknowledged decision stays so.
HistoryIsTrue ==
  focus \in {"history", "session"} =>
    /\ Recent!CountsAreTrue
    /\ Recent!AcknowledgedStays

\* Thumbnails: an image on screen is never older than the last change the client was told of,
\* and its URL has not been revoked.
ImageIsCurrent ==
  /\ \A kind \in Kinds : focus = kind => Images(kind)!ImageIsCurrent
  /\ focus = "crowded" => Covers(1)!ImageIsCurrent
  /\ focus = "covers" => Covers(2)!ImageIsCurrent

\* Thumbnails: no Blob URL is lost, and the preloader and the retainer keep count of their
\* slots and bytes.
NoUrlIsLost ==
  /\ \A kind \in Kinds : focus = kind => Images(kind)!NoUrlIsLost
  /\ focus = "crowded" => Covers(1)!NoUrlIsLost /\ Covers(1)!WarmersKeepCount
  /\ focus = "covers" => Covers(2)!NoUrlIsLost /\ Covers(2)!WarmersKeepCount
====
