---- MODULE DownloadBoard ----
(***************************************************************************)
(* The list of downloads on the screen.  The backend keeps the entries and *)
(* numbers their changes; the screen learns of them from three sides: the  *)
(* list, read page by page; the feed of changes, which keeps the newest    *)
(* change of each entry; and the answers to what the user asked for.  They *)
(* overtake each other.  Titles, tags and covers are left out, and so are  *)
(* albums hidden by duplicate review.                                      *)
(***************************************************************************)
EXTENDS Integers, Sequences, FiniteSetsExt, Functions

CONSTANTS
    Albums,
    Slots,          \* active downloads a bulk retry may fill up to (200)
    Saved,          \* downloads the backend may already have when the program starts
    Name,           \* where each entry stands in the list of entries
    FeedSize,       \* changes the feed can hold
    MaxEntries,     \* downloads ever begun (bound)
    MaxRevision,    \* changes of one download (bound)
    MaxReads,       \* times the list is read (bound)
    MaxCalls,       \* commands of the user (bound)
    None

VARIABLES
    entries,    \* the backend's downloads, a sequence of [album, state, rev, attempt]
    timers,     \* workers under way: <<entry, attempt>>
    feed,       \* [changed, resync]: changes not yet taken
    batch,      \* changes taken and on their way
    library,    \* the screen's map: what each album's download is, or None
    store,      \* the progress store: the newest event applied to each album
    ids,        \* downloadIds
    reads,      \* list reads under way: [token, page, acc, total, lists, answer]
    token,      \* downloadHydrationToken
    board,      \* [loading, error, moved, mixed]: moved says an entry was begun since the read
                \* began, mixed that the last read took pages from both lists
    pending,    \* pendingDownloadEntries
    bulk,       \* bulkRetryBusy
    calls,      \* commands under way
    report,     \* what the last cancellation told the user
    stopped,    \* entries the backend has ever cancelled
    asked       \* number of commands so far

vars == <<entries, timers, feed, batch, library, store, ids, reads, token, board,
          pending, bulk, calls, report, stopped, asked>>
backendVars == <<entries, timers, feed, stopped>>
listVars == <<ids, reads, token, board>>
deskVars == <<pending, bulk, calls, report, asked>>

Active == {"queued", "working"}
retryable == {"interrupted", "cancelled"}
cancellable == Active \cup retryable

Ids == DOMAIN entries
ShotOf(e, row) == [entry |-> e, state |-> row.state, rev |-> row.rev, attempt |-> row.attempt]
Shot(e) == ShotOf(e, entries[e])

Reading(t) == [token |-> t, page |-> 1, acc |-> {}, total |-> 0, lists |-> {}, answer |-> None]
Begun == [loading |-> TRUE, error |-> FALSE, moved |-> FALSE, mixed |-> FALSE]
NoReport == [asked |-> {}, cancelled |-> {}, skipped |-> {}, failed |-> {}]

Init ==
    /\ entries \in Saved
    /\ timers = {<<e, 1>> : e \in {o \in Ids : entries[o].state \in Active}}
    /\ feed = [changed |-> <<>>, resync |-> FALSE] /\ batch = None
    /\ library = [a \in Albums |-> None] /\ store = [a \in Albums |-> None]
    /\ ids = {} /\ token = 1
    /\ reads = {Reading(1)} /\ board = Begun
    /\ pending = {} /\ bulk = FALSE /\ calls = {} /\ report = NoReport /\ asked = 0
    /\ stopped = {e \in Ids : entries[e].state = "cancelled"}

----
(* The backend. *)

\* A change of an entry takes the place of the one the feed holds; a full feed
\* drops its oldest row and asks for a new reading of the list.
Pushed(e, f) ==
    IF e \in Range(f.changed) THEN f
    ELSE IF Len(f.changed) < FeedSize THEN [f EXCEPT !.changed = Append(@, e)]
    ELSE [changed |-> Append(Tail(f.changed), e), resync |-> TRUE]
Emitted(es) == FoldSet(Pushed, feed, es)

Become(e, state) == [entries[e] EXCEPT !.state = state, !.rev = @ + 1]

\* A worker of an earlier attempt finds another attempt, or another state, and stops.
Work(e, attempt) ==
    /\ <<e, attempt>> \in timers
    /\ IF entries[e].attempt # attempt \/ entries[e].state \notin Active
       THEN timers' = timers \ {<<e, attempt>>} /\ UNCHANGED <<entries, feed>>
       ELSE /\ entries[e].rev < MaxRevision
            /\ \E state \in IF entries[e].state = "queued" THEN {"working"} ELSE {"working", "interrupted", "completed"} :
                 /\ entries' = [entries EXCEPT ![e] = Become(e, state)]
                 /\ timers' = IF state = "working" THEN timers ELSE timers \ {<<e, attempt>>}
            /\ feed' = Emitted({e})
    /\ UNCHANGED <<batch, library, store, listVars, deskVars, stopped>>

\* One row per album: its newest entry; newest first, one row a page.
Newest(a) == CHOOSE e \in Ids : entries[e].album = a /\ \A o \in Ids : entries[o].album = a => o <= e
Listed == {a \in Albums : \E e \in Ids : entries[e].album = a}
Rank(a) == Cardinality({o \in Listed : Newest(o) >= Newest(a)})
PageOf(n) == {Shot(Newest(a)) : a \in {o \in Listed : Rank(o) = n}}

\* The list of entries has one row per entry, in the order of albums and identifiers,
\* which says nothing of when they were begun.
Place(e) == Cardinality({o \in Ids : Name[o] <= Name[e]})
EntryPage(n) == {Shot(e) : e \in {o \in Ids : Place(o) = n}}

----
(* Reading the list. *)

\* Another reading supersedes the one under way.
Refresh ==
    /\ token < MaxReads
    /\ token' = token + 1
    /\ reads' = reads \cup {Reading(token + 1)}
    /\ board' = Begun
    /\ UNCHANGED ids
NoRefresh == UNCHANGED listVars

\* A page of the library that cannot be read is taken from the list of entries.
ReadServed(r) ==
    /\ r.answer = None
    /\ \E list \in {"library", "entries"} :
         LET rows == IF list = "library" THEN PageOf(r.page) ELSE EntryPage(r.page)
             count == IF list = "library" THEN Cardinality(Listed) ELSE Len(entries)
         IN  reads' = (reads \ {r}) \cup
                 {[r EXCEPT !.answer = rows, !.total = count, !.lists = @ \cup {list}]}
    /\ UNCHANGED <<backendVars, batch, library, store, ids, token, board, deskVars>>

\* mergeDownloadLibraryPage: the row replaces what was known.
Put(known, shots) ==
    [a \in Albums |-> IF \E s \in shots : entries[s.entry].album = a
                      THEN CHOOSE s \in shots : entries[s.entry].album = a ELSE known[a]]

\* A page of the current reading is shown at once; the reading goes on until it
\* has as many rows as the backend counted, or fails.
PageArrives(r) ==
    /\ r.answer # None
    /\ IF r.token # token
       THEN reads' = reads \ {r} /\ UNCHANGED <<library, ids, board>>
       ELSE LET acc == r.acc \cup {entries[s.entry].album : s \in r.answer}
                more == r.answer # {} /\ r.page < r.total
            IN  /\ library' = Put(library, r.answer)
                /\ ids' = IF r.answer = {} THEN ids ELSE acc
                /\ board' = IF more THEN board
                            ELSE [board EXCEPT !.loading = FALSE, !.mixed = (r.lists = {"library", "entries"})]
                /\ reads' = (reads \ {r}) \cup
                     IF more THEN {[r EXCEPT !.page = @ + 1, !.acc = acc, !.answer = None]} ELSE {}
    /\ UNCHANGED <<backendVars, batch, store, token, deskVars>>

\* Neither list can be read.
ReadFails(r) ==
    /\ r.answer = None
    /\ reads' = reads \ {r}
    /\ board' = IF r.token = token THEN [board EXCEPT !.loading = FALSE, !.error = TRUE] ELSE board
    /\ UNCHANGED <<backendVars, batch, library, store, ids, token, deskVars>>

----
(* The feed. *)

\* One batch at a time.
Tick ==
    /\ batch = None /\ (feed.changed # <<>> \/ feed.resync)
    /\ batch' = [shots |-> {Shot(e) : e \in Range(feed.changed)}, resync |-> feed.resync]
    /\ feed' = [changed |-> <<>>, resync |-> FALSE]
    /\ UNCHANGED <<entries, timers, stopped, library, store, listVars, deskVars>>

\* What the card of an album shows: the progress store, when it is newer.
Newer(value, known) == value # None /\ known # None /\ value.entry = known.entry /\ value.rev > known.rev
Card(a) == IF Newer(store[a], library[a]) THEN store[a] ELSE library[a]

Known(a) == IF library[a] = None THEN store[a] ELSE Card(a)
Fresh(s) == LET known == Known(entries[s.entry].album)
            IN  known = None \/ known.entry # s.entry \/ known.rev < s.rev
\* The error and the review of a download change with its state.
Structural(s) == LET known == Known(entries[s.entry].album)
                 IN  \/ known = None \/ known.entry # s.entry
                     \/ known.state # s.state \/ known.attempt # s.attempt

\* applyDownloadChanged, when the albums of met are on the screen without a download.
Taken(s, met) ==
    LET a == entries[s.entry].album
    IN  a \in met \/ (library[a] # None /\ (library[a].entry # s.entry \/ library[a].rev < s.rev))

\* Changes of state reach the list, progress only the card; a stale one is
\* dropped, and so is one of an album the screen has not met.
Deliver ==
    /\ batch # None
    /\ \E met \in SUBSET {a \in Albums : library[a] = None} :
         LET fresh == {s \in batch.shots : Fresh(s)}
         IN  /\ store' = Put(store, fresh)
             /\ library' = Put(library, {s \in fresh : Structural(s) /\ Taken(s, met)})
    /\ batch' = None
    /\ IF batch.resync THEN Refresh ELSE NoRefresh
    /\ UNCHANGED <<backendVars, deskVars>>

----
(* Commands. *)

Command(c) == asked < MaxCalls /\ asked' = asked + 1 /\ calls' = calls \cup {c}
Call(kind, es) == [kind |-> kind, entries |-> es, albums |-> {}, all |-> es, answer |-> None,
                   rejected |-> {}, skipped |-> {}]

CanRetry(a) == library[a] # None /\ library[a].state \in retryable /\ library[a].entry \notin pending

\* queueGalleries: known albums are tried again first, then the others are added.
QueueGalleries(as) ==
    LET again == {library[a].entry : a \in {o \in as : CanRetry(o)}}
        new == {a \in as : library[a] = None}
    IN  /\ again # {} \/ new # {}
        /\ Command([Call(IF again = {} THEN "add" ELSE "retry then add", again) EXCEPT !.albums = new])
        /\ UNCHANGED <<backendVars, batch, library, store, listVars, pending, bulk, report>>

RetryGallery(a) ==
    /\ CanRetry(a) /\ Command(Call("retry", {library[a].entry}))
    /\ pending' = pending \cup {library[a].entry}
    /\ UNCHANGED <<backendVars, batch, library, store, listVars, bulk, report>>

RetryAvailableDownloads ==
    LET es == {library[a].entry : a \in {o \in ids : CanRetry(o)}}
    IN  /\ ~bulk /\ es # {} /\ Command(Call("fill", es))
        /\ bulk' = TRUE /\ pending' = pending \cup es
        /\ UNCHANGED <<backendVars, batch, library, store, listVars, report>>

CancelGalleries(as) ==
    LET es == {library[a].entry : a \in {o \in as : library[o] # None /\ library[o].state \in Active \cup {"interrupted"}}} \ pending
    IN  /\ es # {} /\ Command(Call("cancel", es))
        /\ pending' = pending \cup es
        /\ UNCHANGED <<backendVars, batch, library, store, listVars, bulk, report>>

\* The panel of the work queue knows the entries themselves; a row it showed as
\* running may have ended since.
Selectable == SUBSET (Ids \ pending)
CancelQueueEntries(es) ==
    /\ es # {} /\ Command(Call("cancel in queue", es))
    /\ pending' = pending \cup es
    /\ UNCHANGED <<backendVars, batch, library, store, listVars, bulk, report>>

Answered(c, shots, rejected) == calls' = (calls \ {c}) \cup {[c EXCEPT !.answer = shots, !.rejected = rejected]}
Unasked == UNCHANGED <<batch, library, store, ids, reads, token, pending, bulk, report, asked>>

\* downloadQueueAdd: an album with an active entry keeps it.
QueueAddServed(c) ==
    /\ c.kind = "add" /\ c.answer = None
    /\ LET held == {a \in c.albums : \E e \in Ids : entries[e].album = a /\ entries[e].state \in Active}
           fresh == c.albums \ held
       IN  /\ Len(entries) + Cardinality(fresh) <= MaxEntries /\ Cardinality(fresh) <= 1
           /\ entries' = IF fresh = {} THEN entries
                         ELSE Append(entries, [album |-> CHOOSE a \in fresh : TRUE, state |-> "queued", rev |-> 0, attempt |-> 1])
           /\ timers' = IF fresh = {} THEN timers ELSE timers \cup {<<Len(entries) + 1, 1>>}
           /\ board' = [board EXCEPT !.moved = @ \/ fresh # {}]
           /\ calls' = (calls \ {c}) \cup {[c EXCEPT !.answer =
                {ShotOf(e, entries'[e]) : e \in {o \in DOMAIN entries' :
                    entries'[o].album \in c.albums /\ entries'[o].state \in Active}}]}
    /\ Unasked /\ UNCHANGED <<feed, stopped>>

\* downloadRetry: all of them or none; those still active are left as they are.
RetryServed(c) ==
    /\ c.kind \in {"retry", "retry then add", "fill"} /\ c.answer = None
    /\ LET busy == Cardinality({e \in Ids : entries[e].state \in Active})
           room == IF Slots > busy THEN Slots - busy ELSE 0
           chosen == IF c.kind # "fill" THEN {c.entries} ELSE {es \in SUBSET c.entries : Cardinality(es) <= room}
       IN  \E es \in chosen :
             LET again == {e \in es : entries[e].state \in retryable}
             IN  IF \E e \in es : entries[e].state \notin cancellable
                 THEN Answered(c, {}, es) /\ UNCHANGED <<entries, timers, feed>>
                 ELSE /\ \A e \in again : entries[e].rev < MaxRevision
                      /\ entries' = [e \in Ids |-> IF e \notin again THEN entries[e]
                                       ELSE [Become(e, "queued") EXCEPT !.attempt = @ + 1]]
                      /\ timers' = timers \cup {<<e, entries[e].attempt + 1>> : e \in again}
                      /\ feed' = Emitted(again)
                      /\ Answered(c, {}, {})
    /\ Unasked /\ UNCHANGED <<stopped, board>>

\* downloadCancel: all of them or none; one that cannot be cancelled is named.
CancelServed(c) ==
    /\ c.kind \in {"cancel", "cancel in queue"} /\ c.answer = None
    /\ c.entries \subseteq Ids       \* DOWNLOAD_ENTRY_NOT_FOUND ends it, as any failure does
    /\ LET wrong == {e \in c.entries : entries[e].state \notin cancellable}
           hit == {e \in c.entries : entries[e].state # "cancelled"}
       IN  IF wrong # {}
           THEN (\E e \in wrong : Answered(c, {}, {e})) /\ UNCHANGED <<entries, feed, stopped>>
           ELSE /\ entries' = [e \in Ids |-> IF e \in hit THEN Become(e, "cancelled") ELSE entries[e]]
                /\ feed' = Emitted(hit)
                /\ stopped' = stopped \cup hit
                /\ Answered(c, {ShotOf(e, entries'[e]) : e \in c.entries}, {})
    /\ Unasked /\ UNCHANGED <<timers, board>>

\* mergeDownloadEntries: only what is newer.
Merged(shots) ==
    Put(library, {s \in shots : LET known == library[entries[s.entry].album]
                                IN  known = None \/ known.entry # s.entry \/ known.rev < s.rev})

\* Only the list's own cancellation reads the list again when something was skipped.
Reread(c) == IF c.kind = "cancel" THEN Refresh ELSE NoRefresh
Finished(c) == calls' = calls \ {c} /\ pending' = pending \ c.all

AddAnswered(c) ==
    /\ c.kind = "add" /\ c.answer # None
    /\ library' = Merged(c.answer)
    /\ ids' = ids \cup {entries[s.entry].album : s \in c.answer}
    /\ calls' = calls \ {c}
    /\ UNCHANGED <<backendVars, batch, store, reads, token, board, pending, bulk, report, asked>>

\* A retry reads the list again; in queueGalleries the albums to add come next.
RetryAnswered(c) ==
    /\ c.kind \in {"retry", "retry then add", "fill"} /\ c.answer # None
    /\ IF c.rejected = {} THEN Refresh ELSE NoRefresh
    /\ calls' = (calls \ {c}) \cup
         IF c.kind = "retry then add" /\ c.rejected = {} /\ c.albums # {}
         THEN {[Call("add", {}) EXCEPT !.albums = c.albums]} ELSE {}
    /\ pending' = IF c.kind = "retry then add" THEN pending ELSE pending \ c.all
    /\ bulk' = IF c.kind = "fill" THEN FALSE ELSE bulk
    /\ UNCHANGED <<backendVars, batch, library, store, report, asked>>

\* A stale entry ends the cancellation of the others.
CancelGivesUp(c) ==
    /\ c.kind \in {"cancel", "cancel in queue"} /\ c.answer # None
    /\ library' = Merged(c.answer)
    /\ report' = [asked |-> c.all, skipped |-> c.rejected, failed |-> {},
                  cancelled |-> {s.entry : s \in c.answer}]
    /\ Finished(c) /\ NoRefresh
    /\ UNCHANGED <<backendVars, batch, store, bulk, asked>>

\* cancelDownloads: a named entry is skipped and the others are asked for again;
\* any other failure ends it.
CancelAnswered(c) ==
    /\ c.kind \in {"cancel", "cancel in queue"} /\ c.answer # None
    /\ LET rejected == c.rejected
           left == c.entries \ rejected
           told(skipped, failed, done) ==
               report' = [asked |-> c.all, skipped |-> skipped, failed |-> failed, cancelled |-> done]
       IN  \/ /\ rejected # {} /\ left # {}
              /\ calls' = (calls \ {c}) \cup {[c EXCEPT !.entries = left, !.skipped = @ \cup rejected,
                                                           !.answer = None, !.rejected = {}]}
              /\ NoRefresh /\ UNCHANGED <<library, report, pending>>
           \/ /\ rejected # {} /\ left = {}
              /\ told(c.skipped \cup rejected, {}, {}) /\ Finished(c) /\ Reread(c) /\ UNCHANGED library
           \/ /\ rejected = {}
              /\ library' = Merged(c.answer) /\ told(c.skipped, {}, c.entries) /\ Finished(c)
              /\ IF c.skipped # {} THEN Reread(c) ELSE NoRefresh
    /\ UNCHANGED <<backendVars, batch, store, bulk, asked>>

\* A command is lost on the way.
CallFails(c) ==
    /\ c.answer = None
    /\ report' = IF c.kind \notin {"cancel", "cancel in queue"} THEN report
                 ELSE [asked |-> c.all, skipped |-> c.skipped, failed |-> c.entries, cancelled |-> {}]
    /\ Finished(c) /\ bulk' = (bulk /\ c.kind # "fill")
    /\ Reread(c)
    /\ UNCHANGED <<backendVars, batch, library, store, asked>>

\* The refresh button and the integrity check.
Reload == Refresh /\ UNCHANGED <<backendVars, batch, library, store, deskVars>>

Next ==
    \/ \E w \in timers : Work(w[1], w[2])
    \/ \E r \in reads : ReadServed(r) \/ PageArrives(r) \/ ReadFails(r)
    \/ Tick \/ Deliver \/ Reload
    \/ \E as \in SUBSET Albums : QueueGalleries(as) \/ CancelGalleries(as)
    \/ \E a \in Albums : RetryGallery(a)
    \/ RetryAvailableDownloads \/ (\E es \in Selectable : CancelQueueEntries(es))
    \/ \E c \in calls : \/ QueueAddServed(c) \/ RetryServed(c) \/ CancelServed(c)
                        \/ AddAnswered(c) \/ RetryAnswered(c) \/ CancelAnswered(c) \/ CallFails(c)

Spec == Init /\ [][Next]_vars

----
\* Every download that was to be cancelled is in exactly one part of what the
\* user is told, and what is said to be cancelled was cancelled, although
\* downloads end while the cancellation is under way.
CancelAccountsForAll ==
    /\ report.cancelled \cup report.skipped \cup report.failed = report.asked
    /\ report.cancelled \cap report.skipped = {} /\ report.failed \cap report.skipped = {}
    /\ report.cancelled \subseteq stopped

\* A reading that ended well, with no download begun since it began, shows every
\* album that has one, however many readings it overtook: whether its pages came
\* from the library or from the list of entries, but not if they came from both,
\* which have their rows in different orders.
FinishedListIsWhole ==
    ~board.loading /\ ~board.error /\ ~board.moved /\ ~board.mixed => ids = Listed

\* "does not let an older list snapshot overwrite a newer event projection": the
\* state the list holds for a download never goes back to an older revision.
OlderListNeverWins ==
    [][\A a \in Albums : library[a] # None /\ library'[a] # None /\ library'[a].entry = library[a].entry
          => library'[a].rev >= library[a].rev]_vars
====
