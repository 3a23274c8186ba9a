---- MODULE MCApplication ----
(****************************************************************************)
(* Small instances of the settings, the shell, the other workspaces and    *)
(* the recorder. Each component has its own instance and runs alone from   *)
(* its own initial states; they share the variables of this module, each   *)
(* taking as many as it has.                                               *)
(*****************************************************************************)
EXTENDS Integers, Sequences, FiniteSets

CONSTANT None

VARIABLES
  focus,  \* the component that runs
  \* its variables, in the order of its VARIABLES
  v1, v2, v3, v4, v5, v6, v7, v8, v9, v10, v11, v12, v13, v14, v15, v16, v17, v18

vars == <<focus, v1, v2, v3, v4, v5, v6, v7, v8, v9, v10, v11, v12, v13, v14, v15, v16, v17, v18>>

Two == {1, 2}

\* One track of two fragments, two faults.
Capture == INSTANCE EncodedCapture WITH
  Tracks <- {1}, Room <- 2, MaxQueue <- 2, MaxTries <- 2, MaxPieces <- 4, MaxSources <- 1,
  MaxStarts <- 1, MaxReloads <- 0, MaxOrders <- 1, MaxFaults <- 2,
  src <- v1, cap <- v2, page <- v3, bridge <- v4, note <- v5, orders <- v6, native <- v7,
  disk <- v8, taken <- v9, used <- v10

\* Two tracks of one fragment, one fault.
TwoTracks == INSTANCE EncodedCapture WITH
  Tracks <- Two, Room <- 2, MaxQueue <- 2, MaxTries <- 2, MaxPieces <- 2, MaxSources <- 1,
  MaxStarts <- 1, MaxReloads <- 0, MaxOrders <- 1, MaxFaults <- 1,
  src <- v1, cap <- v2, page <- v3, bridge <- v4, note <- v5, orders <- v6, native <- v7,
  disk <- v8, taken <- v9, used <- v10

\* Two recordings and a reload of the page.
Leaving == INSTANCE EncodedCapture WITH
  Tracks <- {1}, Room <- 2, MaxQueue <- 2, MaxTries <- 2, MaxPieces <- 2, MaxSources <- 1,
  MaxStarts <- 2, MaxReloads <- 1, MaxOrders <- 1, MaxFaults <- 0,
  src <- v1, cap <- v2, page <- v3, bridge <- v4, note <- v5, orders <- v6, native <- v7,
  disk <- v8, taken <- v9, used <- v10

\* A recording whose media source is disturbed or replaced.
NewSource == INSTANCE EncodedCapture WITH
  Tracks <- {1}, Room <- 2, MaxQueue <- 2, MaxTries <- 2, MaxPieces <- 2, MaxSources <- 2,
  MaxStarts <- 1, MaxReloads <- 0, MaxOrders <- 1, MaxFaults <- 0,
  src <- v1, cap <- v2, page <- v3, bridge <- v4, note <- v5, orders <- v6, native <- v7,
  disk <- v8, taken <- v9, used <- v10

\* Two recordings one after the other, one message.
Chat == INSTANCE PageChat WITH
  BatchSize <- 2, MaxQueue <- 3, MaxTries <- 2, Room <- 2, MaxRecordings <- 2, MaxMessages <- 1,
  MaxSamples <- 0, MaxPulses <- 1, MaxFaults <- 1,
  chat <- v1, rec <- v2, lane <- v3, host <- v4, kept <- v5, got <- v6, used <- v7

\* Three messages through a queue of two.
Batches == INSTANCE PageChat WITH
  BatchSize <- 2, MaxQueue <- 2, MaxTries <- 2, Room <- 2, MaxRecordings <- 1, MaxMessages <- 3,
  MaxSamples <- 0, MaxPulses <- 0, MaxFaults <- 1,
  chat <- v1, rec <- v2, lane <- v3, host <- v4, kept <- v5, got <- v6, used <- v7

\* Two counts of the viewers.
Viewers == INSTANCE PageChat WITH
  BatchSize <- 2, MaxQueue <- 2, MaxTries <- 2, Room <- 2, MaxRecordings <- 1, MaxMessages <- 0,
  MaxSamples <- 2, MaxPulses <- 0, MaxFaults <- 1,
  chat <- v1, rec <- v2, lane <- v3, host <- v4, kept <- v5, got <- v6, used <- v7

\* Three edits of the settings and one failing call.
Edits == INSTANCE Settings WITH
  MaxEdits <- 3, MaxFaults <- 1,
  db <- v1, latest <- v2, news <- v3, open <- v4, draft <- v5, inputEdits <- v6, pending <- v7,
  inFlight <- v8, timer <- v9, save <- v10, prefs <- v11, shown <- v12, care <- v13, asked <- v14,
  edits <- v15, faults <- v16

\* The switch that starts the program with Windows.
Switch == INSTANCE SettingsPanels WITH
  Albums <- Two, Templates <- {"a", "b"}, MaxRequests <- 7,
  tab <- v1, os <- v2, auto <- v3, osCalls <- v4, abandoned <- v5, template <- v6, preview <- v7,
  previews <- v8, root <- v9, usage <- v10, excluded <- v11, known <- v12, manager <- v13,
  lists <- v14, batch <- v15

\* The preview of folder names and the size of the folder.
Preview == INSTANCE SettingsPanels WITH
  Albums <- Two, Templates <- {"a", "b"}, MaxRequests <- 5,
  tab <- v1, os <- v2, auto <- v3, osCalls <- v4, abandoned <- v5, template <- v6, preview <- v7,
  previews <- v8, root <- v9, usage <- v10, excluded <- v11, known <- v12, manager <- v13,
  lists <- v14, batch <- v15

\* The exclusion manager.
Restores == INSTANCE SettingsPanels WITH
  Albums <- Two, Templates <- {"a", "b"}, MaxRequests <- 3,
  tab <- v1, os <- v2, auto <- v3, osCalls <- v4, abandoned <- v5, template <- v6, preview <- v7,
  previews <- v8, root <- v9, usage <- v10, excluded <- v11, known <- v12, manager <- v13,
  lists <- v14, batch <- v15

\* The exit dialog and a tour.
Exit == INSTANCE Shell WITH
  Sources <- {"h", "d"}, MaxWork <- 2, MaxQuestions <- 4, MaxVisits <- 3, MaxInstalls <- 2,
  work <- v1, exit <- v2, status <- v3, reply <- v4, failed <- v5, gone <- v6, update <- v7,
  reserved <- v8, recording <- v9, leaked <- v10, installs <- v11, source <- v12, tour <- v13,
  dismissed <- v14, reports <- v15, earned <- v16, visits <- v17, start <- v18

\* The updater, the tours and the start.
Update == INSTANCE Shell WITH
  Sources <- {"h", "d"}, MaxWork <- 2, MaxQuestions <- 4, MaxVisits <- 4, MaxInstalls <- 2,
  work <- v1, exit <- v2, status <- v3, reply <- v4, failed <- v5, gone <- v6, update <- v7,
  reserved <- v8, recording <- v9, leaked <- v10, installs <- v11, source <- v12, tour <- v13,
  dismissed <- v14, reports <- v15, earned <- v16, visits <- v17, start <- v18

\* Two searches of two pages, a cache of one.
Danbooru == INSTANCE Danbooru WITH
  Posts <- {1}, Drafts <- {{"a"}, {"a", "b"}}, PostIds <- {}, Filters <- {{}, {"order"}},
  MaxPage <- 2, MaxLoads <- 3, CacheSize <- 1, HistorySize <- 1,
  ui <- v1, presented <- v2, history <- v3, cache <- v4, sequence <- v5, calls <- v6,
  random <- v7, pending <- v8, ids <- v9, saved <- v10, related <- v11

\* Five writes of one document, one of which fails.
Stage == INSTANCE StreamStage WITH
  MaxRequests <- 5, MaxFailures <- 1, MaxEpoch <- 0,
  screen <- v1, known <- v2, frame <- v3, desk <- v4, generation <- v5, flights <- v6,
  native <- v7, failures <- v8

\* Three writes of each of two documents.
Reload == INSTANCE StreamStage WITH
  MaxRequests <- 3, MaxFailures <- 1, MaxEpoch <- 1,
  screen <- v1, known <- v2, frame <- v3, desk <- v4, generation <- v5, flights <- v6,
  native <- v7, failures <- v8

\* One recording and two visits of the panel.
Stream == INSTANCE StreamPanel WITH
  Recordings <- {1}, MaxVisits <- 2, MaxActions <- 4,
  host <- v1, panel <- v2, shown <- v3, life <- v4, version <- v5, polls <- v6, calls <- v7,
  library <- v8, made <- v9, removed <- v10

\* Two broadcasts, two configurations.
Mado == INSTANCE Mado WITH
  Channels <- {"x", "y"}, MaxSteps <- 4, MaxEpoch <- 2, MaxSends <- 5,
  native <- v1, refused <- v2, shown <- v3, adopted <- v4, page <- v5, draft <- v6, applied <- v7,
  poll <- v8, calls <- v9, pane <- v10, flights <- v11, surface <- v12, sends <- v13, steps <- v14

\* Three sessions over two visits, no correction.
Sessions == INSTANCE RecordingReplay WITH
  Offsets <- {0}, MaxSessions <- 4, MaxTokens <- 3, MaxParts <- 2, MaxVisits <- 2, MaxSaves <- 0,
  host <- v1, dialog <- v2, frame <- v3, life <- v4, opens <- v5, saves <- v6, reads <- v7,
  closes <- v8, saved <- v9, mixed <- v10

\* Two sessions in one visit, one correction.
Replay == INSTANCE RecordingReplay WITH
  Offsets <- {0, 7}, MaxSessions <- 4, MaxTokens <- 2, MaxParts <- 2, MaxVisits <- 1, MaxSaves <- 1,
  host <- v1, dialog <- v2, frame <- v3, life <- v4, opens <- v5, saves <- v6, reads <- v7,
  closes <- v8, saved <- v9, mixed <- v10

\* Three positions: 0.2, 0.4 and 0.6 seconds; 0.6 - 0.4 is below 0.2 in floating point.
Following == INSTANCE ReplayChat WITH
  Times <- 1..3, Near <- {<<2, 3>>, <<3, 2>>}, Queries <- {"a"}, MaxGeneration <- 4, MaxCorrections <- 0,
  chat <- v1, page <- v2, generation <- v3, follow <- v4, search <- v5, time <- v6, correction <- v7,
  calls <- v8, seen <- v9

\* One position, a search, the log and a correction.
Browsing == INSTANCE ReplayChat WITH
  Times <- {1}, Near <- {}, Queries <- {"a"}, MaxGeneration <- 6, MaxCorrections <- 1,
  chat <- v1, page <- v2, generation <- v3, follow <- v4, search <- v5, time <- v6, correction <- v7,
  calls <- v8, seen <- v9

\* The drafts of a configuration that differ in what the properties tell apart.
SomeDrafts ==
  {Mado!Blank} \cup
  {d \in Mado!Drafts : /\ d.inputs[1] = "x" /\ d.inputs[2] \in {"x", "y"} /\ d.lead = 2
                       /\ d.single => d.mode = "paired"}

\* The variables the component that runs does not have, those after the n-th.
Idle(n) ==
  /\ n < 8 => v8 = 0
  /\ n < 9 => v9 = 0
  /\ n < 10 => v10 = 0
  /\ n < 11 => v11 = 0
  /\ n < 12 => v12 = 0
  /\ n < 13 => v13 = 0
  /\ n < 14 => v14 = 0
  /\ n < 15 => v15 = 0
  /\ n < 16 => v16 = 0
  /\ n < 17 => v17 = 0
  /\ n < 18 => v18 = 0

Still(n) ==
  /\ n < 8 => UNCHANGED v8
  /\ n < 9 => UNCHANGED v9
  /\ n < 10 => UNCHANGED v10
  /\ n < 11 => UNCHANGED v11
  /\ n < 12 => UNCHANGED v12
  /\ n < 13 => UNCHANGED v13
  /\ n < 14 => UNCHANGED v14
  /\ n < 15 => UNCHANGED v15
  /\ n < 16 => UNCHANGED v16
  /\ n < 17 => UNCHANGED v17
  /\ n < 18 => UNCHANGED v18

Init ==
  \/ focus = "capture" /\ Capture!Init /\ Idle(10)
  \/ focus = "tracks" /\ TwoTracks!Init /\ Idle(10)
  \/ focus = "leaving" /\ Leaving!Init /\ Idle(10)
  \/ focus = "sources" /\ NewSource!Init /\ Idle(10)
  \/ focus = "chat" /\ Chat!Init /\ Idle(7)
  \/ focus = "batches" /\ Batches!Init /\ Idle(7)
  \/ focus = "viewers" /\ Viewers!Init /\ Idle(7)
  \/ focus = "edits" /\ Edits!Init /\ Idle(16)
  \/ focus = "autostart" /\ Switch!Init /\ Idle(15)
  \/ focus = "preview" /\ Preview!Init /\ Idle(15)
  \/ focus = "restores" /\ Restores!Init /\ Idle(15)
  \/ focus = "exit" /\ Exit!Init
  \/ focus = "update" /\ Update!Init
  \/ focus \in {"search", "posts"} /\ Danbooru!Init /\ Idle(11)
  \/ focus = "stage" /\ Stage!Init /\ Idle(8)
  \/ focus = "reload" /\ Reload!Init /\ Idle(8)
  \/ focus = "stream" /\ Stream!Init /\ Idle(10)
  \/ focus \in {"watching", "placement"} /\ Mado!Init /\ Idle(14)
  \/ focus = "sessions" /\ Sessions!Init /\ Idle(10)
  \/ focus = "replay" /\ Replay!Init /\ Idle(10)
  \/ focus = "following" /\ Following!Init /\ Idle(9)
  \/ focus = "browsing" /\ Browsing!Init /\ Idle(9)

Next ==
  \/ /\ focus = "capture" /\ UNCHANGED focus /\ Still(10)
     /\ Capture!Feed \/ Capture!Page \/ Capture!Host
  \/ /\ focus = "tracks" /\ UNCHANGED focus /\ Still(10)
     /\ TwoTracks!Feed \/ TwoTracks!Page \/ TwoTracks!Host
  \/ /\ focus = "leaving" /\ UNCHANGED focus /\ Still(10)
     /\ Leaving!Feed \/ Leaving!Page \/ Leaving!Host \/ Leaving!Reload
  \/ /\ focus = "sources" /\ UNCHANGED focus /\ Still(10)
     /\ NewSource!Next
  \/ /\ focus = "chat" /\ UNCHANGED focus /\ Still(7)
     /\ Chat!Next
  \/ /\ focus = "batches" /\ UNCHANGED focus /\ Still(7)
     /\ Batches!Next
  \/ /\ focus = "viewers" /\ UNCHANGED focus /\ Still(7)
     /\ Viewers!Next
  \/ /\ focus = "edits" /\ UNCHANGED focus /\ Still(16)
     /\ Edits!Next
  \/ /\ focus = "autostart" /\ UNCHANGED focus /\ Still(15)
     /\ Switch!Autostart \/ \E t \in Switch!Tabs : Switch!SelectTab(t)
  \/ /\ focus = "preview" /\ UNCHANGED focus /\ Still(15)
     /\ Preview!PreviewAndUsage \/ \E t \in Preview!Tabs : Preview!SelectTab(t)
  \/ /\ focus = "restores" /\ UNCHANGED focus /\ Still(15)
     /\ Restores!Exclusions \/ \E t \in {"closed", "general", "hitomi"} : Restores!SelectTab(t)
  \/ /\ focus = "exit" /\ UNCHANGED focus
     /\ Exit!ExitStep \/ Exit!TourStep
  \/ /\ focus = "update" /\ UNCHANGED focus
     /\ Update!UpdateStep \/ Update!TourStep \/ Update!StartStep
  \/ /\ focus = "search" /\ UNCHANGED focus /\ Still(11)
     /\ Danbooru!Loading \/ Danbooru!Viewing \/ Danbooru!Searching
  \/ /\ focus = "posts" /\ UNCHANGED focus /\ Still(11)
     /\ Danbooru!Loading \/ Danbooru!Viewing \/ Danbooru!Saving
  \/ /\ focus = "stage" /\ UNCHANGED focus /\ Still(8)
     /\ Stage!Next
  \/ /\ focus = "reload" /\ UNCHANGED focus /\ Still(8)
     /\ Reload!Next
  \/ /\ focus = "stream" /\ UNCHANGED focus /\ Still(10)
     /\ Stream!Next
  \/ /\ focus = "watching" /\ UNCHANGED focus /\ Still(14)
     /\ Mado!Watching \/ \E d \in SomeDrafts : Mado!Edit(d)
  \/ /\ focus = "placement" /\ UNCHANGED focus /\ Still(14)
     /\ Mado!Placement
  \/ /\ focus = "sessions" /\ UNCHANGED focus /\ Still(10)
     /\ Sessions!Leasing
  \/ /\ focus = "replay" /\ UNCHANGED focus /\ Still(10)
     /\ Replay!Next
  \/ /\ focus = "following" /\ UNCHANGED focus /\ Still(9)
     /\ Following!Follow
  \/ /\ focus = "browsing" /\ UNCHANGED focus /\ Still(9)
     /\ Browsing!Next

Spec == Init /\ [][Next]_vars

----
\* Settings: the last value given to a key is stored or still held, an open dialog shows it,
\* and the two tag lists are written as one rule.
EditsSurvive ==
  focus = "edits" =>
    /\ Edits!EditsSurvive
    /\ Edits!RuleTravelsWhole

\* Panels: a status nothing is refreshing is the one Windows has, and exclusions that are said
\* to be known are the backend's.
PanelsAreCurrent ==
  /\ focus = "autostart" => Switch!SwitchShowsWindows
  /\ focus = "restores" => Restores!KnownExclusionsAreCurrent

\* Shell: the process ends only with the work the user was shown or by the forced quit, an
\* installation never runs beside a recording, and a tour goes on only after its operation.
ShellIsCareful ==
  /\ focus = "exit" => Exit!QuitIsInformed /\ Exit!TourStepIsEarned
  /\ focus = "update" => Update!UpdateExcludesRecording /\ Update!TourStepIsEarned

\* Danbooru: a search whose answer may still be shown is the one on screen, and none has more
\* than two limited conditions.
LateSearchIsDropped ==
  focus \in {"search", "posts"} =>
    /\ Danbooru!LateSearchIsDropped
    /\ Danbooru!SearchesWithinBudget

\* Official player: nothing asked for before a hide uncovers the surface again, and the surface
\* ends as the panel measured it.
HiddenStaysHidden ==
  /\ focus = "stage" => Stage!HiddenStaysHidden /\ Stage!StageIsSettled
  /\ focus = "reload" => Reload!HiddenStaysHidden /\ Reload!StageIsSettled

\* Recording from the page: neither a lost answer nor a retry, a stop, a reload or another source
\* repeats or skips a piece of the media or a message of the chat; "saved" is true, a recording
\* that nobody feeds ends, and a gap of the chat is told.  When it is watched again its files stay
\* open as long as the player uses them and no longer, and timeline and chat are those asked for last.
RecordingIsWhole ==
  /\ focus = "capture" => Capture!StoredInOrder /\ Capture!SavedIsTrue /\ Capture!OrphanEnds
  /\ focus = "tracks" => TwoTracks!StoredInOrder /\ TwoTracks!SavedIsTrue /\ TwoTracks!OrphanEnds
  /\ focus = "leaving" => Leaving!StoredInOrder /\ Leaving!SavedIsTrue /\ Leaving!OrphanEnds
  /\ focus = "sources" => NewSource!StoredInOrder /\ NewSource!SavedIsTrue /\ NewSource!OrphanEnds
  /\ focus = "chat" => Chat!ChatInOrder /\ Chat!LossIsTold /\ Chat!OneBroadcast
  /\ focus = "batches" => Batches!ChatInOrder /\ Batches!LossIsTold /\ Batches!OneBroadcast
  /\ focus = "viewers" => Viewers!ChatInOrder /\ Viewers!LossIsTold /\ Viewers!OneBroadcast
  /\ focus = "sessions" => Sessions!LeasesAreHeld
  /\ focus = "replay" => Replay!LeasesAreHeld /\ Replay!TimelineIsCurrent /\ Replay!OffsetIsTrue
  /\ focus = "following" => Following!PageAnswersTheAsk /\ Following!FollowsTheClock /\ Following!LoadingIsServed
  /\ focus = "browsing" => Browsing!PageAnswersTheAsk /\ Browsing!FollowsTheClock /\ Browsing!LoadingIsServed

\* Official player: a recording whose deletion the panel was told of does not come back.
NothingResurrects == focus = "stream" => Stream!NothingResurrects

\* Broadcasts: what is configured was shown by some page, and a pane that is gone covers
\* nothing.
NoOrphan ==
  /\ focus = "watching" => Mado!NoOrphan
  /\ focus = "placement" => Mado!GonePaneIsHidden
====
