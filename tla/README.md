# A TLA+ model of Atsumi

Atsumi is a desktop application (a Rust backend under `src-tauri/src`, a React
window under `src`) that searches galleries, downloads them page by page into a
managed library, reviews overlaps and duplicates, and records live streams.
This project models three parts of it:

* the **download core**: the path from a queued download to a complete artifact
  on disk, and the way a complete artifact is taken out of the library and put
  back.  Its mistakes cannot be undone by pressing a button again, so it is
  proved as well as model-checked;
* the **window**: what the user sees is put together from lists, events, answers
  and timers that overtake each other.  Together with it, the browser backend
  (`BrowserMockBackend`), the complete backend that the window runs on outside
  Tauri;
* the **recorder**: the scripts in the official player's page, the native end
  they talk to, the panels around them, and the window a recording is watched
  again in.

Paths below are relative to `src-tauri/src` for Rust files, to `src` for
TypeScript files, unless they start with `docs/`.  *Feature* is
`features/hitomi/HitomiFeature.tsx`.

## 1. The system

| Component | State it keeps | Operations | Works with |
|---|---|---|---|
| Job state machine (`domain/job.rs`) | the states of a job, which are active, which retryable | `allows_transition_to` | every transaction of the repository |
| Download supervisor (`application/download_supervisor.rs`, `download_workers.rs`) | pending queue and known keys, the map entry+attempt → cancellation token, the finalization queue, shutdown flags | `enqueue`, `worker_loop`, `claim_job`, `run_download`, `finalization_worker`, `handle_download_error`, `finish_job`, `cancel_entries`, `resume_interrupted`, `shutdown_and_wait` | repository, page pool, artifact store, overlap review, commands |
| Page pool (`download_workers.rs`, `infrastructure/artifact_store.rs`) | page task queue, tasks in flight, `NNNN.webp` and `.NNNN.webp.part` files | `download_pages`, `page_worker`, `download_one_page`, `verify_existing_page`, `store_page`, `verify_bundle_files` | remote source, repository checkpoints |
| Job and artifact repository (`infrastructure/sqlite_repository.rs`) | entry, job and attempt rows, artifact row, page rows, command ledger | one SQLite transaction per operation | all of them |
| Quarantine and restore (`download_supervisor.rs`) | `quarantine_records`, the original and the quarantine directory, the manifest | `quarantine_entries`, `restore_entries`, `reconcile_quarantine_saga`, `inspect_bundle` | repository, artifact store |
| Managed-work gate, quit, startup (`interface/commands.rs`, `lib.rs`, `startup.rs`) | accepted quit, startup phase | `ManagedWorkGate::run`, `request_graceful_quit`, `commit_ready`, `cancel` | starts and stops the supervisor |
| Overlap review and page merge (`application/download_overlap.rs`, `infrastructure/overlap_merge.rs`) | review rows, merge journal, artist locks | gate before completion, decisions, journalled merge | finalization, quarantine |
| Excluded-artifact relocation (`infrastructure/excluded_artifacts.rs`) | relocation rows | journalled move to and from the excluded folder | artifact rows |
| Request gate, adaptive concurrency (`infrastructure/hitomi_live`, `application/download_tuning.rs`) | permits, learned limit | acquire, release, probe, back off | every remote call |
| Thumbnail coordinator (`thumbnail`) | in-flight requests, cache; `CancellationToken` | coalesce, cancel | the token type is shared with downloads |
| Auto-find, duplicate and internal-duplicate supervisors (`application`) | one run each, its lease and results | start, cancel, apply | repository, processing pool |
| Processing pool and image budget (`application`) | permits | acquire, release | analysers, page workers |
| Stream recording (`streaming`) | recording sessions, part files, merge journal | record, stage, merge, clean up | own store, recorder in the page |
| Recorder in the page (`streaming/browser_encoded_capture.js`, `browser_capture.js`, `browser_page_chat.js`, `browser_encoded.rs`, `browser.rs`) | observed sources, capture queue, one-use arm, chat and viewer queues, native recording and log | observe, start, append, stop, reload; frames, batches, drain | the player, the panel |
| Player panels (`api/officialBrowser.ts`, `features/streaming`) | viewport writes, polls, actions, draft and panes of several broadcasts | show, mask, hide; open, record, delete; configure, place | native streaming |
| Replay (`features/streaming/RecordingReplay*.tsx`, `OriginalChzzkPlayer.tsx`, `public/original-player/runtime.js`, `streaming/replay.rs`) | sessions lent by the native side, the session on screen and the retired one, the frame's source and messages, timeline, correction of the chat's clock; the chat's page and its generation | open, refresh, close, save a correction; follow, search, turn pages | native streaming |
| Browser backend (`api/backend.ts`) | entries, runs and their timers, exclusions, reviews, settings | the commands of the interface | the window |
| Explore (Feature, `state/explorePageSession.ts`) | tabs, searches, page caches, warmup leases, checkpoint | search, page, park, close, reopen, reload | backend, thumbnails |
| Library of the window (Feature, `state/*Projection.ts`, `components`) | download list and feed, grid and selection, exclusions, album tabs and pages, search bar, favourites | select, exclude, undo, cancel, open, enlarge, submit | backend |
| Reviews in the window (Feature, `downloadOverlap`, `components/*Review*`) | scan boards, review dialogs, page selection, automatic sweep, activity and its history | decide, merge, batch, plan, apply, undo, acknowledge | backend |
| Thumbnail client (`thumbnail`) | subscriptions, requests, Blob URLs, retained images, pins | subscribe, resolve, invalidate, preload | coordinator |
| Settings and shell (`hooks`, `components/SettingsDialog.tsx`, `App.tsx`, `update`) | draft, pending and in-flight edits, panels; exit dialog, updater, tour | edit, save, retry; quit, update | backend |
| Danbooru (`components/DanbooruWorkspace.tsx`) | view, query, caches, way back, related posts | search, page, save, random | backend |

**How they interact.**  A command (queue, retry, cancel, overlap decision)
commits a row under the managed-work gate and then tells the supervisor, in a
second step.  An album coordinator pops a descriptor (entry and attempt), waits
until no other attempt owns the entry, registers a token, resolves the gallery,
hands pages to the shared page pool, and passes the album to a finalization
worker over a bounded queue.  The finalizer verifies the files, runs the overlap
gate and completes the row.  Nothing but the rows and the files survives a
crash; startup turns active rows into interrupted ones and resumes them with a
new attempt.  Quarantine and restore run on the command's own thread, beside all
of this.

**What is hard.**  A stop reaches a job on three ways (row, token, closed queue)
at different moments.  Two attempts of one entry share one directory.  A page
task outlives the decision to stop.  The remote gallery may be replaced between
two attempts.  A directory move, its journal row and the manifest inside it
cannot be changed together.  In the window almost nothing happens at once: a
list is read before a change and shown after it, a tab is closed while its
search is under way, a sweep decides beside the user, a timer belongs to a run
that is over, a dialog is left while its save fails.  The recorder sends every
piece over a bridge that may lose the answer, and the page may be reloaded
under it.  `PROJECT.json` lists these hazards one by one, at the line where
they bite.

**What makes each part correct.**  Rows move only along the domain relation; an
entry has one worker at a time; an asked-for stop is not a failure; every active
row has somebody working on it and ends; a quit reaches the exit; no page task
survives its run; only a whole album completes, of one edition; a journalled
move is always finished, and nothing it leaves behind is a dead end.  What the
window shows is what the backend has once everything is answered, an older
answer never wins, an edit, a deletion and a hide of the user are not taken
back, whatever is held (a lease, a URL, an original, a reservation) is given
back, and no review, page or piece of a recording is lost without being told.

## 2. The modules

| Module | Models |
|---|---|
| `JobState` | the states and the transition relation of `domain/job.rs` |
| `JobLifecycle` | abstract specification: a row is created, advances along the relation, and gets a new attempt exactly when it is queued again |
| `DownloadSupervisor` | coordinators, finalizers, commands, quit, crash, startup, over the rows |
| `PagePipeline` | one album over several attempts: plan, page pool, files, checkpoints, editions |
| `QuarantineSaga` | one completed download: the journalled move out and back, recovery, inspection |
| `DownloadSupervisorProofs`, `PagePipelineProofs`, `QuarantineSagaProofs` | the theorems about the backend |
| `PlayerProofs`, `CaptureProofs`, `BrowserProofs`, `WindowProofs`, `LibraryProofs` | the theorems about the window and the browser backend: `StreamPanel`, `Mado`, `StreamStage`, `RecordingReplay`, `ReplayChat`; `EncodedCapture`; `BrowserScans`, `BrowserReviews`, `InternalReview`; `Shell`, `Danbooru`, `Settings`, `SettingsPanels`; `DetailViewer`, `SearchBar`, `Thumbnails`, `Activity`, `OverlapDesk`, `DownloadBoard`, `GalleryGrid` |
| `ExploreSession`, `ExploreTabs` | the page cache of a search, as operators; the tabs over it, with late answers, parking, reopening and a reload from the checkpoint |
| `BrowserScans` | browser backend: favourites, auto-find run, exclusions, duplicate scan with its review, resets, and the timers of all runs |
| `BrowserReviews` | browser backend: edition reviews, decisions of a person, a batch and automation, merges, cancel and restore |
| `DownloadBoard` | browser backend and window: downloads, their feed, the list read page by page, queueing, cancelling, retrying |
| `SearchBar` | draft, suggestions, submitting, the history of searches, favourites |
| `GalleryGrid` | what a view shows, paging, selection, excluding, quarantine, undo, chosen covers |
| `DetailTabs`, `DetailViewer` | tabs of albums and the reading of descriptions; previews, enlarged page, originals |
| `ScanBoards` | the auto-find, duplicate and in-album duplicate boards over events, hydrations and answers |
| `OverlapDialog` | strict plan, page alignment and page selection of an edition review, decisions and outcomes |
| `OverlapDesk` | who decides reviews: the dialog, the batch, the sweep, the automation history |
| `InternalReview` | pages an album holds twice: scan, choice, plan, application, undo |
| `Activity` | session rows, the paged history of decisions, acknowledgements, the badge |
| `Thumbnails` | subscriptions, requests, Blob URLs, retained and pinned images, preloader |
| `Settings`, `SettingsPanels` | edits on their way to the backend; the panels that ask on their own |
| `Shell` | quit confirmation, updater and its reservation, tour, start |
| `Danbooru` | loads, caches, searches and the way back, related posts, saving |
| `StreamStage`, `StreamPanel`, `Mado` | place of the native player; its panel and the recordings; several broadcasts at once |
| `EncodedCapture`, `PageChat` | the recorder in the page with its native end; chat and viewers of a recording |
| `RecordingReplay`, `ReplayChat` | a recording watched again: sessions, player frame, timeline and correction; the chat beside it |
| `MCSupervisor`, `MCPagePipeline`, `MCQuarantineSaga` | symmetry sets for the runs |
| `MCDownloadBoard` | one instance of `DownloadBoard`, for `list_regress` |
| `MCLibrary`, `MCReviewing`, `MCApplication` | the instances of the window and the recorder, section 3 |

One action is one critical section, one SQLite transaction (all of them are
`IMMEDIATE`) or one file operation.

### DownloadSupervisor

* `job`, `artifact` are the durable rows.  A row keeps its state, its worker
  attempt and the class of its last error; progress, revisions and texts are
  left out.
* `pending`/`known` are `SupervisorQueue`, `owner` the keys of the map of active
  cancellations and `cancelled` the ones whose token is set, `finalizing` the
  finalization `WorkQueue`.
* `thread[t].pc` follows `run_download` and `finalize_download`; `"inpage"`
  stands for one page in the pool.  `cmd[u]` is the part of a command that comes
  after its transaction: `download_cancel` and `download_retry` release the gate
  in between.
* `phase` is the process: the flags of `shutdown_and_wait` are set once and in
  one order, so each flag is a function of the phase.
* `Crash` drops everything but the rows; `RecoverVolatile`, `ResumeInterrupted`,
  `LaunchResumed`, `CommitReady` are the startup, `CancelStartup` its
  interruption by the user.

Wider than the code: after `CancelStartup` commands that take no gate may still
run although the startup gate would hold them back; every eligible row is
resumed (the code rolls the whole resume back when one row cannot be).  Every
entry has its own gallery, so the checks for a gallery that is queued under
another entry do not occur.

### PagePipeline

* A page's source revision is its hash in the gallery's metadata; the model
  keeps which *edition* of the gallery it belongs to.  A page file is the
  edition its bytes come from, or `"damaged"`.
* `row` are the page checkpoints, `file` and `part` the disk, `run` the
  coordinator (and then the finalizer) with its plan, the checkpoints it read
  and the counter `inFlight`; `queue`, `worker`, `results` are the pool.
* `Received` is the condition under which `pipeline_received_snapshot` pins the
  stored edition instead of asking the source.
* `DiskFault` removes, changes or adds a page file from outside, until the files
  were verified for the last time; what happens to a file afterwards is for the
  reconcile of a later day.

Left to `DownloadSupervisor`: the fence, the quit, the hand-over to the
finalizer.  Left out: albums that share the pool (each has its own channel and
token, and a task is never dropped), pages composed from local files, the
guards against relocations.

### QuarantineSaga

* `rec` is `quarantine_records.state` per record, `job` and `art` the entry and
  artifact rows (the artifact with its revision, which the inspection compares),
  `dir` the directories: whether they are there, have the pages, and what the
  page paths of their manifest say.  A record's id stands for its quarantine
  directory.
* `Touch` is `resolve_managed_path` with `must_exist = false`: it creates the
  directory of the file it resolves.  Every lookup of a page or a manifest goes
  through it, which is why looking is an action on the disk.
* `proc[p]` is a thread that runs a command, `app_reconcile`, the quick repair
  or the startup recovery.  The threads share the steps of a move; `way` says in
  which direction.
* The existence test and the rename of `move_managed_directory` are one step.
  Between the two, somebody may create the target as an empty directory; the
  rename then fails or replaces an empty directory, and both outcomes are ones
  the model has from another order of the steps.
* A failed download is the end here: its retry belongs to `PagePipeline`, and
  `pipeline_received_snapshot` refuses it while a record is pending.
* The leftover `.manifest-*.json.part` of a crash is never read and is left out.

### The window and the browser backend

The window is single-threaded: an action is what happens between two awaits, a
callback, a timer or an effect.  A call to the backend is three actions: it is
sent, the backend works on it (what it reads is read then), and it is answered;
other actions come between.  It may also fail, before the backend worked on it
or after, when only its answer is lost.  Where the source keeps a token, a
generation or a revision to recognise a late answer, the model keeps it too.
Effects that React runs after a render are folded into the action that changes
what they depend on, unless an await lies between.  `None`-valued fields stand
for `null`.  Names of variables and fields follow the source's (`*Ref.current`
without the suffix).

* **Explore.**  A context is a number, so that a closed and reopened one keeps
  its identity.  `ExploreSession` is the class `ExplorePageSession`: pages in order
  of use, requests with the generation they belong to, warmup leases.  Keys and
  answers are sets; an answer is known by the search it was for.
* **BrowserScans.**  A timer is a record of the run it was armed for; the code
  compares the generation when it goes off.  The works of a favourite are the
  fixture's.
* **BrowserReviews.**  An entry and its gallery are one value.  A merge retires
  every review that has compared one of its albums.  A pair of completed albums
  is a review that no download waits for.
* **DownloadBoard.**  The feed keeps the newest change of each entry and asks for
  a new list when it is full.  The list is read page by page, each answered late;
  a page of the library that fails is read from the list of entries.
* **OverlapDialog.**  A candidate's evidence is the set of page pairs found; all
  sets over the page bounds are initial states.  The strict plan is checked on
  comparisons of up to 120 pages, which meet its thresholds (3 pages, 95 %, a
  difference of five or six) on both sides (`PlanSizes`).
* **OverlapDesk.**  A review is its revision, the candidates left and how many the
  strict plan would exclude.  Another window decides too.
* **InternalReview.**  A row is a set of look-alike pages; a page has a track and
  an ordinal in its edition, or none.
* **Thumbnails.**  A resolution, its request and its URL share a number; `fence`
  is the history of what the client has been told to drop.  The kind of a key
  decides whether its image is retained, within a number and a sum of costs.
* **Settings.**  One key stands for each kind of control.  `asked` is the history
  of what the user last gave to a key, against which `EditsSurvive` compares.
* **Shell, SettingsPanels, Danbooru, Activity, SearchBar, GalleryGrid, DetailTabs,
  DetailViewer.**  Layout, measurements, focus and texts are left out; each
  module's header says what is kept.

### The player and the recorder

* **StreamStage.**  A rectangle is shown, masked or hidden.  The native side takes
  writes in any order and drops those of an older sequence or document.
* **EncodedCapture.**  A fragment is two pieces, so that a stop, an overflow or a
  reload may fall inside one.  `bridge` is the queue of requests with the answer
  that may be lost; the native end recognises a piece by its sequence number.
  The muxer accepts whole fragments; its check of timestamps is left out, so no
  property relies on it.  `ALLOW_REENCODED_CAPTURE` is false and its branch is
  left out.
* **PageChat.**  Messages are numbered as the socket delivers them, the decode
  queue, the batch under way and the lanes are kept.  Of a status only matters
  whether it admits a gap.
* **RecordingReplay.**  A session is a number (its token) with the length that was
  saved when it was lent.  The frame and the window talk by two queues of
  messages, since `postMessage` keeps the order.  `mixed` is a history variable: it
  says that a correction and an opening were under way together.  The expiry of
  a session and the privacy mode are left out.
* **ReplayChat.**  A page is what it was asked for (a position, a text, the log) and
  the correction it was asked with.  Positions are steps of a fifth of a second;
  `Near` names the neighbours whose difference is below 0.2 in floating point
  (0.6 - 0.4), which `Math.abs(...) < .2` takes for the same.

## 3. The runs

| Run | Instance | Shows |
|---|---|---|
| `entry_fence` | 1 entry, 2 coordinators, 2 users, 3 attempts, 1 downtime | `ExclusiveArtifact`: one attempt at a time has the artifact; `StopIsNotFailure`; `ImplementsLifecycle`: the supervisor implements `JobLifecycle` |
| `jobs_end` | 1 entry, 2 coordinators, 1 user, 2 attempts, 2 downtimes, fair | `ActiveIsServed` when commands come one after the other; `ActiveJobsEnd`, `QuitEnds` |
| `full_queue` | 2 entries, 2 coordinators, queue of 1, fair | `ActiveJobsEnd` when the finalization queue is full |
| `page_pool` | 2 pages, 2 workers, 2 attempts, 1 replacement, 1 crash, 1 fault, fair | `NoOldPage`, `CompletesWhole`, `RunEnds` |
| `quarantine_overlap` | 2 threads, 2 records, all commands, 1 crash, 1 fault | `RecordMatchesRows`, `PagesInOnePlace` |
| `quarantine_crash` | 1 thread, 2 records, all commands, 2 crashes, fair | `Recoverable`, `PendingSettles` |
| `library` | `MCLibrary` | the table below |
| `reviewing` | `MCReviewing` | the table below |
| `application` | `MCApplication` | the table below |
| `stale_mark`, `mixed_edition`, `list_regress` | smallest instance that has the case | violations, section 5 |

The components of the window share nothing but the calls that the models have
as their environment.  `MCLibrary`, `MCReviewing` and `MCApplication` therefore
hold one or more instances of each, which run alone from their own initial
states; `focus` says which one runs, and a property is the conjunction of what
is claimed of each instance.

| Property | Claims, by module |
|---|---|
| `TabsShowTheirSearch` | ExploreTabs: the viewport is the selected tab's query; what a tab shows and caches answers its own search |
| `BusyIsServed` | ExploreTabs: a busy tab is waited for by a call whose answer ends it, also after a reload |
| `LeasesMatch` | ExploreTabs: leases held are those of pages that own a warmup; none for a parked or closed tab |
| `DiscoveryIsConsistent` | BrowserScans: an old run's timers never advance the new one; excluded works are not offered, hidden ones can be restored, a shown pair is undecided and at the backend's revision |
| `WaitingHasReview` | BrowserReviews: a download waits only for a pending review of its own; no pending review rests on merged pages |
| `DownloadListIsTrue` | DownloadBoard: a cancellation accounts for every download it was asked for; a finished reading from one list shows all |
| `GridIsTrue` | GalleryGrid: exclusions that count as read are the backend's, but for those of a lost answer; the cover shown is the one chosen last |
| `SearchBarIsTrue` | SearchBar: suggestions answer the last question, a removed search stays removed, the last wish for a favourite is saved |
| `NoWorkerRests` | DetailTabs: the album in front is open; a card waits only while all workers are busy |
| `NoOriginalIsLeaked` | DetailViewer: every original held belongs to a page or will be disposed of; the enlarged view shows a page |
| `BoardsSettle` | ScanBoards: with nothing under way a board shows the backend's run and results; progress belongs to its run; loading ends |
| `MergeKeepsEveryPage` | OverlapDialog: a merge of the selected pages has every page once |
| `OutcomeIsTrue` | OverlapDialog: outcomes shown are what the decisions did, the alignment is complete, the strict plan gives up a page only as its 95 % rule allows |
| `NoReviewIsForgotten` | OverlapDesk: a resting sweep has tried every review its plan covers; sweep and user never decide at once |
| `PagesAreKept` | InternalReview: no row loses all its pages; a page is quarantined once, until a record is restored after a further scan |
| `HistoryIsTrue` | Activity: counts are the backend's once all is answered and no answer to an acknowledgement was lost; an acknowledged decision stays so |
| `ImageIsCurrent`, `NoUrlIsLost` | Thumbnails: no image older than the last change told of, none revoked; no URL without an owner; slots and bytes are counted |
| `EditsSurvive` | Settings: the last value given to a key is stored or still held; the two tag lists travel together |
| `PanelsAreCurrent` | SettingsPanels: a status nothing refreshes is Windows'; known exclusions are the backend's |
| `ShellIsCareful` | Shell: the process ends only with the work the user was shown, or forced; no installation beside a recording; a tour goes on after its operation only |
| `LateSearchIsDropped` | Danbooru: a search whose answer may still be shown is the one on screen; at most two limited conditions |
| `HiddenStaysHidden` | StreamStage: nothing asked for before a hide uncovers the surface; the surface ends as measured |
| `RecordingIsWhole` | EncodedCapture: stored pieces are consecutive and not repeated, "saved" is true, a recording nobody feeds ends; PageChat: messages in order, a loss is told, counts of one broadcast; RecordingReplay: a session in use is open and one nobody knows of is given back, timeline and correction are the stored ones; ReplayChat: the page answers what the chat says it shows, a chat that follows shows the player's position, loading ends |
| `NothingResurrects` | StreamPanel: a recording whose deletion was answered does not come back |
| `NoOrphan` | Mado: what is configured was shown by some page; a pane that is gone covers nothing |

Every property has a mutant in `PROJECT.json`: a plausible mistake in the code,
under which TLC finds it violated.  `TypeOK` of the download core is not an
invariant of a run, since it is proved.  Deadlock is not checked: every model
has states in which nobody has to do anything.

**Bounds.**  `MaxAttempt`, `MaxDowntime`, `MaxReplace`, `MaxCrash`, `MaxFault`
and the set `Records` cap what would grow for ever; each is a guard of the
action it bounds.  The fence concerns two attempts of one entry, a third shows
that a finished one leaves nothing behind.  Two entries are needed where they
compete (a coordinator, room in the queue).  Two pages and two workers give
results out of order, a page that is stored after the other failed, and a
partly received album; three attempts are needed for the checkpoints of two
editions to meet.  Two records give a second quarantine after a restore, while
a recovery of the first may still be under way.  In the window a race has two
sides, so two runs, tabs, albums, reviews or requests are there wherever one can
be taken for the other, plus a third step where the first must have left
something behind; limits of the code (cache, feed, queue, workers, batch) are
set to 1 or 2 so that they are reached.  The instances of one component are
there because their bounds together would be too much: one has more data, the
other more steps (`MaxSteps`, `MaxReads`, `MaxRequests` and so on, all named).

**Fairness.**  Weak fairness per thread: the operating system schedules it, and
all waits in the code end by themselves or are polled (`POLL`, `wait_timeout`,
`recv_timeout`).  A command that began and a quit that was accepted run to
their end.  No fairness for starting a command, for a quit, a crash, a
replacement or a fault.  Remote calls are assumed to answer, with a result or
an error; the HTTP client's timeouts justify it.  The runs of the window and the
recorder check invariants and assume no fairness: what must happen eventually is
stated as "when nothing is under way, then ...", or as "somebody who is under
way will do it".

## 4. The proofs

The theorems hold for every value of the constants under the named assumptions
of the modules (`SupervisorAssumption`, `PipelineAssumption`,
`ProcessAssumption`, `PathAssumption`, `BoundAssumption`): disjoint sets of
threads, positive sizes, markers that are no members of the sets they mark.
What a single theorem needs beyond that is in its `ASSUME`, and is said below.
The modules of the window are instantiated by the runs and not extended, so
their assumptions stand in the theorems.

**DownloadSupervisorProofs.**  `TypeCorrect`, `Exclusive`,
`StopsAreNotFailures`, from `IInv == TypeOK /\ RowsInv /\ ThreadsInv /\ Fence
/\ Tokens`.
`ExclusiveArtifact` speaks of who holds an entry, the code only of who
registered a token; `Fence` connects the two (a holder owns its attempt, no two
owners belong to one entry, no attempt is held twice).  `StopIsNotFailure` needs
`Tokens`: whoever gave up as cancelled has a cancelled token, and once a quit is
past cancelling the tokens no thread past the re-check has one that is not.
This is where the order of `shutdown_and_wait` and the second look of
`worker_loop` after `claim_job` are used.  `RowsInv` bounds the attempt of a row
by the commands and restarts so far, without which a descriptor need not be one.

`NoJobIsLeftBehind` (`ActiveIsServed`) is stated for `OneUser`, at most one
command at a time.  With two, `cancel_entries` of one may come after the retry of
another and stop the new attempt, and the property fails.  Its invariant says
who has been told of each active row (`ToldOfRows`), that a cancelled or ended
attempt is over, and that at most one resume is under way.

`Refinement`: the supervisor implements `JobLifecycle`, with the state and attempt of each row as the refinement
mapping.  Every action either leaves a row alone or changes it by a lawful step;
`recover_volatile_downloads` changes many at once, so the abstract step allows
every row to move.

**PagePipelineProofs.**  `TypeCorrect`, `Drained` (`NoOldPage`) and
`CompletionsAreWhole` (`CompletesWhole`).  The coordinator knows of its tasks
only through a counter, so the invariant adds `Counted`: the counter equals
the tasks queued, being worked on and answered.  `VerifiedIsIntact` carries the
result of `verify_bundle_files` to the completion: only page workers write page
files, and by `NoOldPage` none has a task by then.

**QuarantineSagaProofs.**  `JournalAgrees` (`RecordMatchesRows`), `PagesKept`
(`PagesInOnePlace`) and `TypeCorrect`.  The conjunction is inductive as soon as
the type says that an inspection never starts from a quarantined artifact.

The theorems about crashes are stated for `Undisturbed`: one user, and no file
operation or transaction that is refused.  A second command, or a step that
failed, leaves a pending record beside commands that look for the artifact, and
looking makes the directory again: there `Recoverable` does not hold.
`EveryStepIsSettled` is the invariant: at each moment of a move, and after a
crash between two of its steps, the pages of a pending record are on exactly one
side.  `NothingStaysPending` adds that only a thread that is at work has a
pending record, because recovery comes first, and `CrashesAreRecovered`
(`Recoverable`) puts both together.

**PlayerProofs.**  `NothingComesBack` (`NothingResurrects` of `StreamPanel`):
a list that returns can only be an answer under way, so the invariant says of
each answer what it may still do: one that counts was asked after the last
action, and at most one call of a visit is out.  `NothingIsOrphaned` (`NoOrphan`
of `Mado`): a configuration no page has shown is accounted for by a call, whose
answer is still out or whose page is gone so that it is being closed.
`GonePanesAreHidden` (`GonePaneIsHidden`): the request made last is the one that
counts, and for a pane that is gone it is a hide.  `PrivacyHolds`
(`HiddenStaysHidden` of `StreamStage`), for any number of writes: requests of
an epoch have numbers of their own, and while the panel is not there the newest
is the hide, taken already or still on its way.
`TheReplayIsServed` (`LeasesAreHeld`, `TimelineIsCurrent`, `OffsetIsTrue` of
`RecordingReplay`), for any number of sessions, visits and corrections.  The
invariant `ReplayInv` is a map of where a session can be.  It is known in one
place only: owned by the window, being handed over, or being given back
(`OnePlace`); what the window owns is the session on screen and the one it has
left (`Owning`); whatever the player has or was told of is one of the two, the
newer after the older, and an acknowledgement of the newer means that the player
has moved on (`Playing`), which is why giving back the older is safe.  At most
one opening belongs to the visit (`OneOpening`), a correction belongs to the visit
of its session (`Corrections`), and a reading that still counts was made for the
session on screen (`TimelineInv`).  For the correction shown, `OffsetInv` follows
what the native side stores as long as corrections and openings keep apart.
Assumed is only that `None` is not one of the values it stands beside.
`TheChatAnswers` (`PageAnswersTheAsk`, `FollowsTheClock`, `LoadingIsServed` of
`ReplayChat`), for any times, searches and numbers of asks.  Following, searching
and browsing take over from one another by a number that is counted up, so
`ReplayChatInv` speaks of the calls under the present one: each was made for what
the chat shows and with the present correction (`AskedFor`), the clock has one at
most (`CallsAnswerTheAsk`), and a chat that follows with nothing under way and no
error is at the player's position (`AsksAgain`).  Assumed is that `None` is no
record (`NoneIsNoRecord`).

**CaptureProofs.**  `NothingIsSkipped` (`StoredInOrder`, `SavedIsTrue` of
`EncodedCapture`), for any number of tracks, pieces, recordings, repetitions,
reloads and faults: what is stored is the beginning of what the capture took,
without a gap or a repetition, and all of it when the recording is saved.  The
page sends a chunk again until it hears of it, so a copy may arrive when its
chunk is stored and the next is expected, or when its recording is over.  The
invariant `CaptureInv` says where both ends are.  Only copies of the chunk at the
head of the queue are on their way (`ChunkOK`, `OneChunk`); the native end has
the beginning of that append, or all of it, and knows the last chunk it stored
(`SessionOK`, `HeadContinues`); everything that waits continues what is stored,
by the numbers of the appends and by their pieces (`QueueContinues`); while
pieces are taken, the last one taken is the last one seen (`Taking`); and a
finish that saves is only sent when all that was taken is stored (`FinishOK`).
Assumed is that `None` is not a capture and that recordings are counted.

`OrphansEnd` (`OrphanEnds`), from the same assumptions: a recording nobody feeds
is about to end.  The invariant `OrphanInv` says that the page tends whatever the
native end records or may still begin: the start is the last the page has taken,
and the page captures it, has its begin on the way, or says `native_rejected`
(`Fed`, `BeginsAreTended`).  So a capture that ends when its begin is refused
leaves nothing behind, for a begin that comes late is one of an older document
or of a start no longer armed; a new start cannot overtake, because the native
end arms one at a time (`Latest`) and the page hears the commands in their order
(`OrdersUp`).

**BrowserProofs.**  `NobodyWaitsForNothing` (`WaitingHasReview`,
`MergeRetiresReviews` of `BrowserReviews`), for any albums, matches, reviews and
pairs: a review the window knows as pending, at the current revision, is
pending still, because whatever ends one counts its revision on.
`DiscoveryStaysConsistent` (the four invariants behind `DiscoveryIsConsistent`)
for any finite set of favourites (it is a stored list): a timer outlives its run,
so a run that goes on has all and only the timers of its generation.
`PagesAreKeptOnce` (`RowsKeepAPage`, `QuarantinedOnce` of `InternalReview`), for
any rows, editions and numbers of plans, scans and readings, under `RowsApart`
(rows have identifiers of their own and share no page, and recommend one of
theirs) and `NoneIsNoReview`.  `RemovalInv` rests on parity: a row is to be
decided while its revision is even, and a plan is accepted only at the revision
its rows have, so what waits to be applied (`Waiting`) is about undecided rows
whatever happens meanwhile, and of one scan a row is decided by one plan at a time
(`OnePlan`).  Records of a plan are read, and so restored, together
(`KnownRecords`).  All this is said until a record is restored after a further
scan (`Late`); section 5 says what happens then.

**WindowProofs.**  `TheShellIsCareful` (`QuitIsInformed`,
`UpdateExcludesRecording`, `TourStepIsEarned` of `Shell`): the questions of the
exit dialog have numbers, only the newest counts, and a forced quit is armed
only by a second one in vain.  `LateSearchesAreDropped` (`LateSearchIsDropped`,
`SearchesWithinBudget` of `Danbooru`) under `SearchesAreText`: what is typed is
finite, and the filters limit by at most one term, which is how
`searchPreferences.ts` builds them.  `NoEditIsLost` (`EditsSurvive`,
`RuleTravelsWhole` of `Settings`): each place an edit passes through covers the
next, from the typed text over the queue and the write under way to the stored
row.  A patch may be forgotten when the row has it, and a dialog may be opened
from a snapshot, because of `SnapshotsAgree`: a snapshot that is not older than
the window's agrees with the row on every key of the dialog, but for the keys
being written.  `ThePanelsAreCurrent` (`SwitchShowsWindows`,
`KnownExclusionsAreCurrent` of `SettingsPanels`): one change of the switch is
under way at most, a reading that still counts answers what Windows has, and what
is shown is true or its correcting call is under way; a list of exclusions that
counts was read after the last restore.

**LibraryProofs.**  `NoOriginalIsLost` (`NoOriginalIsLeaked` of
`DetailViewer`) for any number of calls: no identifier is used twice, and one
made by a saved cover, which is no move, belongs to a mounted page until the
next move.  `ThePreviewShowsAPage`
(`PreviewShowsAPage`) under `AlbumsHavePages`, page counts and the size of the
window being numbers.  `TheBarIsTrue` (`SuggestionsAnswerTheLast`,
`RemovedStaysGone`, `LastWishIsSaved` of `SearchBar`) under `NoneIsNothing`, that
the absent value is no truth value and none of the records it stands in for.  The
list of past searches may hold what was removed only while the removal is carried
out and not yet heard of, and then in no reading younger than the one that ends
it.  `ImagesAreTrue` (`ImageIsCurrent`, `NoUrlIsLost` of `Thumbnails`), for any
keys, consumers, capacity and number of requests and changes: `ImageInv` follows
each request from the change it is fenced by to the URL it makes (what an entry
waits for was asked for after the last change it was told of), each URL back to
the one entry that shows it, and says of the retained images that each is
resolved, without a consumer and in the list once, since evicting the oldest
revokes its URL unseen.  The accounts of the preloader and the retainer
(`WarmersKeepCount`) are sums over a set and stay with TLC.  What removing an
entry does to a list is the one thing here proved by induction (`Induct`, from
the well-foundedness of `<`): each `Without` is a recursive function, which the
prover can unfold once its solution is shown to exist (`FirstOnesExist`,
`FirstLeftExist`).
`TheHistoryIsTrue` (`CountsAreTrue`, `AcknowledgedStays` of `Activity`), for any
number of decisions, pages and readings: while no decision is untold and no
acknowledgement is carried out unheard of (`Steady`), the count shown, if it
counts, and the count in each answer that may still be shown are the backend's
(`CountsKnown`); and an answer that may still replace the page was read after
every acknowledgement the page knows of (`AcknowledgedKnown`).
`NoReviewIsLost` (`NoReviewIsForgotten`, `OneDecides` of `OverlapDesk`), without
any assumption: while no change is on its way to the effect of the sweep
(`Quiet`), each review its plan covers was tried at its revision, or the present
round has it before it or in hand (`Awaited`), or another round was asked for.
`TheDownloadListIsTrue` (`FinishedListIsWhole`, `CancelAccountsForAll` of
`DownloadBoard`) under `SavedAreRows`, that the program starts with downloads,
and `NamesApart`, that no two entries have one name:
the albums have the places 1, 2, ... without a gap (`RanksAre`), which no change
but a new download moves (`SameListing`), so a reading has gathered exactly the
albums of the places before its page, in the order of the list it reads
(`ReadKnown`).  `TheGridIsTrue`
(`ExclusionsAreTrue`, `CoverIsNewest` of `GalleryGrid`) under `GridAssumption`
(finitely many albums, a positive batch, `None` is no record): unless a change
that was carried out is still unheard of (`Behind`), the known exclusions and
each current reading are the backend's, but for the albums of a lost answer, and
an answer with an older token does not count (`KnownIsTrue`); an album with no event on its way shows its cover,
and otherwise the last event brings it (`CoversTrue`).

The runs check the same definitions inside `MCLibrary` and `MCApplication`, each
in the instances where the component is the one that moves; the theorems are
about the components themselves, for every value of their constants.

**Only model-checked:** the liveness properties (`ActiveJobsEnd`, `QuitEnds`,
`RunEnds`, `PendingSettles`), because fairness and `ENABLED` are beyond the
prover; and, not yet proved, `StageIsSettled`, the invariants of the explore tabs
(`TabsShowTheirSearch`, `BusyIsServed`, `LeasesMatch`) and of the album tabs
(`NoWorkerRests`), of the scan boards (`BoardsSettle`), of the edition review
dialog (`MergeKeepsEveryPage`, `OutcomeIsTrue`), and of the chat of a live stream.

## 5. Where the code and what it says differ

Shown by a run:

* **`stale_mark`** — an old attempt that drains after cancel and retry finds an
  ambiguous page and calls `pipeline_mark_artifact_issue(entry, None)`, which
  fails the *new* attempt.  `download_pipeline.rs` reserves `None` for "a current
  worker's checkpoint failure".
* **`mixed_edition`** — a complete map of checkpoints need not be of one edition.
  Two failed attempts around a replacement of the gallery leave page 1 of one
  and page 2 of the other; the third attempt pins and completes the mixture,
  where the documentation speaks of *the* saved edition.
* **`list_regress`** — `mergeDownloadLibraryPage` does not compare revisions: a
  page of the list read before a change and answered after its event puts the
  older state back.  The sibling `mergeDownloadEntries` compares them, and its
  test forbids just this.

The following came up while modelling.  The models have them, and the
properties are stated so as not to deny them.

*Download core.*  A retry that is committed and claimed between the commit of
`download_cancel` and its cancelling of the tokens loses its token, and its row
stays active with nobody working on it until a restart.  After a quarantine
failed between the move and its completion, giving the command again (or
opening or inspecting the album) creates the original directory, and the
recovery then finds both and declares a conflict at every start.  An inspection
overlapping a quarantine marks the artifact missing.  A page moved to recovery
keeps its present row, so that a page of a replaced edition can then never be
fetched.  A recovery that listed a record as pending may move the directory out
again after its command completed and a restore began.

*Explore, lists and grid.*  With three tabs or more, hidden ones may still hold
covers, which a comment in `explorePageSession.ts` excludes.  A reading of the
list under way when an album is queued drops it from `downloadIds` until the next
one, and a reading that falls back to the list of entries after some pages may
miss albums, because the two lists differ in order (`mixed`); retries and
quarantine are not marked pending; cancelling from the queue
panel does not read the list again.  A failed undo overwrites a newer undo
action (Feature 3485; the success branch at 3508 guards it), and Delete pressed
twice on candidates makes two calls and a stale undo.  Reopening the first of
several album tabs puts it last; closing the last one with an origin leaves
`minimized` set without tabs; a merge during the reading of a description keeps
the stale one.  After an IME composition that ends with the same caret the
suggestions are not asked for again, and the favourites read at the start may
overwrite a toggle.

*Reviews.*  Starting an in-album scan takes over the new run without clearing the
old progress, and the first empty snapshot can overwrite a run known from
events.  In strict mode the sweep goes round without effect while the dialog of
a completed pair is open.  The error of a batch may appear on another review's
dialog (Feature 2535).  An automatic merge that is refused by a revision conflict
is not tried again until the list is read.  Closing a page review and opening
another album's while apply or undo is under way lets the answer show the first
album's review in the second's dialog (Feature 2881, 2905).  In the browser
backend the revisions of look-alike rows begin again at 0 with every scan
(backend 2517): undoing the removal of an earlier scan counts its row up
although it was never decided in the present one, so that a choice made at that
revision is accepted after yet another scan and a page is quarantined a second
time (`QuarantinedOnce` leaves this out by "restored late"; without it TLC finds
the case with three plans).  The history's meta
reading removes only the newest decision from the unread ones, so one may count
twice in the badge until the drawer is opened.

*Settings, Danbooru.*  A patch the backend refuses stays pending and blocks later
saves; a list preference is dropped on a conflict with a toast only.  Changing
the folder while its usage is computed leaves the old folder's size.  The
exclusion manager, reloaded during a restore, can list a restored album.  A
random post's answer is not fenced, and the reload after saving uses the view it
was started in.

*Recorder.*  A stop between the two halves of a fragment makes the native finish
refuse the incomplete one, and the recording is marked interrupted.  A start
that arrives while the page is busy is dropped, and its arm stays until a stop.
`drainChat` reads the summary before the drain, and a report of a gap posted
when the drain is given up can be overtaken by the finish on the other lane, so
that a recording may be described without its gap.  `pulse` goes on sampling
after `stopViewers`, with null results.

*Replay.*  A correction saved while a longer session is being opened may be
overtaken by it: the window then shows the correction the session was lent with,
which is not the stored one (`OffsetIsTrue` excludes this by `mixed`; without it
TLC finds the case).  "The whole log", clicked while a page turned to is still on
its way, only clears the search field and leaves the search's page on screen.
A question for the chat is not repeated for a position one step away whose
difference happens to be below 0.2.

## 6. Not modelled, and the plan

In this order:

1. The Rust side of overlap review: chained reviews, the automatic restore when
   a decision fails after its quarantine, the artist locks that finalizers take
   one after the other (a common order, and no deadlock with the queue), the
   journalled page merge of `overlap_merge.rs` with its crash points.  Its rules
   are in `BrowserReviews` and `OverlapDialog`.
2. The command ledger: request ids, replayed answers, batch selection; the
   refusal of one row in `pipeline_resume_interrupted`, which aborts the resume
   of all.
3. Excluded-artifact relocation and the page quarantine of the internal
   duplicate supervisor: the same kind of journalled move as `QuarantineSaga`;
   worth an abstract specification that all three implement.
4. The request gate with its priorities and `Retry-After`, and the learned
   concurrency limit, as a bounded resource with a probe window.
5. The Rust supervisors for auto-find and duplicates (lease, cancel, apply
   against a corpus that changed).  The window's side is in `ScanBoards`.
6. Part files and merge journal of a recording, automatic recording.

Theorems to follow: the order of stored messages (`PageChat`) for every number
of messages and faults; the invariants of
`ExploreTabs` and `DetailTabs`; those of `ScanBoards`.

Left out for good: decoding, hashing and perceptual comparison of images
(numeric code over pixels; a digest is the content it identifies), parsers of
remote formats (a source call is a nondeterministic outcome), schema migrations
(the constraints appear where a transaction relies on them), drawing, layout and
texts of the window, the built player bundle under `public`, the window toolkit
under `vendor`, diagnostics and tray.
