---- MODULE DetailTabs ----
(***************************************************************************)
(* The tabs of albums: how they open, close, reopen and lead back to where *)
(* they were opened from, and how the descriptions of the albums are read, *)
(* those of the tabs at once and those of the cards near the screen by a   *)
(* few workers.  The other views and search tabs appear as the view an     *)
(* album was opened from.                                                  *)
(***************************************************************************)
EXTENDS Integers, SequencesExt

CONSTANTS
    Albums,
    Views,
    Workers,        \* card descriptions read at a time (6)
    Remembered,     \* closings remembered (24)
    MaxSteps,       \* things the user does (bound)
    None

VARIABLES
    view,
    detail,     \* [tabs, active, minimized]
    origins,    \* detailOrigins: [view, tab] for each album, or None
    closed,     \* closedNavigation: [ids, active, before]
    asking,     \* the question before all tabs are closed
    random,     \* a random album is being looked for
    hydrated, hydrating,    \* descriptions of tabs
    cards,      \* [done, reading]: descriptions of cards
    queue, queued,          \* nearbyDetailQueue, nearbyDetailQueued
    artists,    \* [queue, wanted, tried]: albums grouped by artist whose tags are missing
    waiting,    \* openSelectedDetails: albums still to be read, three at a time
    checkpoint, \* the tabs saved for a reload
    steps

vars == <<view, detail, origins, closed, asking, random, hydrated, hydrating, cards, queue, queued,
          artists, waiting, checkpoint, steps>>
readVars == <<hydrated, hydrating, waiting>>
cardVars == <<cards, queue, queued, artists>>
tabVars == <<view, detail, origins, closed, asking>>

NoArtists == [queue |-> <<>>, wanted |-> {}, tried |-> {}]
NoTabs == [tabs |-> <<>>, active |-> None, minimized |-> FALSE]

Init ==
    /\ view \in Views /\ detail = NoTabs /\ origins = [a \in Albums |-> None] /\ closed = <<>>
    /\ asking = FALSE /\ random = FALSE /\ hydrated = {} /\ hydrating = {}
    /\ cards = [done |-> {}, reading |-> {}] /\ queue = <<>> /\ queued = {} /\ artists = NoArtists
    /\ waiting = <<>>
    /\ checkpoint = None /\ steps = 0

Step == steps < MaxSteps /\ steps' = steps + 1
IsOpen(d, a) == a \in Range(d.tabs)

----
(* uiReducer. *)

\* After its parent when there is one, else at the end; the first tab opened in
\* the background opens the workspace minimized.
Opened(d, a, parent, activate) ==
    IF IsOpen(d, a) THEN IF activate THEN [d EXCEPT !.active = a, !.minimized = FALSE] ELSE d
    ELSE LET tabs == IF parent # None /\ IsOpen(d, parent)
                     THEN InsertAt(d.tabs, 1 + CHOOSE i \in DOMAIN d.tabs : d.tabs[i] = parent, a)
                     ELSE Append(d.tabs, a)
         IN  IF activate THEN [tabs |-> tabs, active |-> a, minimized |-> FALSE]
             ELSE [tabs |-> tabs, active |-> IF d.active = None THEN a ELSE d.active,
                   minimized |-> d.active = None \/ d.minimized]

\* The right neighbour takes over, else the left one.
Without(d, a) ==
    LET i == CHOOSE j \in DOMAIN d.tabs : d.tabs[j] = a
        tabs == RemoveAt(d.tabs, i)
    IN  [tabs |-> tabs, minimized |-> tabs # <<>> /\ d.minimized,
         active |-> IF d.active # a THEN d.active
                    ELSE IF tabs = <<>> THEN None ELSE IF i <= Len(tabs) THEN tabs[i] ELSE tabs[Len(tabs)]]

----
(* Descriptions. *)

\* hydrateDetail: read once, never twice at a time.
Hydrate(as) == hydrating' = hydrating \cup (as \ hydrated)

HydrateAnswered(a) ==
    /\ a \in hydrating
    /\ \E ok \in BOOLEAN :
         /\ hydrated' = IF ok THEN hydrated \cup {a} ELSE hydrated
         /\ LET next == SelectSeq(waiting, LAMBDA b : b \notin hydrated' /\ b \notin hydrating)
            IN  IF next # <<>>
                THEN hydrating' = (hydrating \ {a}) \cup {Head(next)} /\ waiting' = Tail(next)
                ELSE hydrating' = hydrating \ {a} /\ waiting' = <<>>
    /\ UNCHANGED <<tabVars, random, cardVars, checkpoint, steps>>

\* refreshMergedGallery: a merged album is read again, unless it is being read.
RefreshMerged(a) ==
    /\ Step /\ hydrated' = hydrated \ {a} /\ hydrating' = hydrating \cup {a}
    /\ cards' = [cards EXCEPT !.done = @ \ {a}]
    /\ UNCHANGED <<tabVars, random, waiting, queue, queued, artists, checkpoint>>

Known(a) == a \in hydrated \cup hydrating \cup cards.done \cup cards.reading

\* pumpNearbyDownloadDetails: while a worker is free the cards near the screen
\* are taken from the head of their queue, then those grouped by artist; an album
\* that is no longer wanted, or is known, is passed over.
Pumped(near, wanted, art, reading) ==
    LET q == near \o art.queue
        asked(i) == IF i <= Len(near) THEN q[i] \in wanted ELSE q[i] \in art.wanted \ art.tried
        live(i) == /\ asked(i) /\ q[i] \notin hydrated \cup hydrating \cup cards.done \cup reading
                   /\ \A j \in 1..(i - 1) : q[j] = q[i] => ~asked(j)
        taken == {i \in DOMAIN q : live(i) /\ Cardinality(reading) + Cardinality({j \in 1..i : live(j)}) <= Workers}
        full == Cardinality(reading) + Cardinality(taken) >= Workers
        last == IF ~full THEN Len(q) ELSE IF taken = {} THEN 0 ELSE Max(taken)
    IN  [queue |-> SubSeq(near, last + 1, Len(near)),
         queued |-> wanted \ {near[i] : i \in 1..Min({last, Len(near)})},
         artists |-> [art EXCEPT !.queue = SubSeq(q, Max({last, Len(near)}) + 1, Len(q)),
                                 !.tried = @ \cup (art.wanted \cap {q[i] : i \in (Len(near) + 1)..last})],
         reading |-> reading \cup {q[i] : i \in taken}]

Pump(q, wanted, art, done, reading) ==
    LET p == Pumped(q, wanted, art, reading)
    IN  queue' = p.queue /\ queued' = p.queued /\ artists' = p.artists /\ cards' = [done |-> done, reading |-> p.reading]

\* The downloads are grouped by artist: those whose tags are missing are read when
\* no card near the screen waits, each of them once.
GroupByArtist(as) ==
    /\ Step /\ view = "downloads"
    /\ LET tried == IF as = {} THEN {} ELSE artists.tried
       IN  Pump(queue, queued,
                [queue |-> SetToSeq(as \ (tried \cup hydrated \cup cards.done)), wanted |-> as, tried |-> tried],
                cards.done, cards.reading)
    /\ UNCHANGED <<tabVars, random, readVars, checkpoint>>

\* Cards come near the screen and leave it again; what leaves stays in the queue.
Nearby(as) ==
    /\ Step /\ view = "downloads"
    /\ LET new == {a \in as : ~Known(a) /\ a \notin queued}
       IN  Pump(SetToSeq(new) \o queue, queued \cup new, artists, cards.done, cards.reading)
    /\ UNCHANGED <<tabVars, random, readVars, checkpoint>>
Discard(a) ==
    /\ Step /\ queued' = queued \ {a}
    /\ UNCHANGED <<tabVars, random, readVars, cards, queue, artists, checkpoint>>

\* The worker that ends is not replaced.
CardAnsweredAlone(a) ==
    /\ a \in cards.reading
    /\ \E ok \in BOOLEAN :
         cards' = [done |-> IF ok THEN cards.done \cup {a} ELSE cards.done, reading |-> cards.reading \ {a}]
    /\ UNCHANGED <<tabVars, random, readVars, queue, queued, artists, checkpoint, steps>>
CardAnswered(a) ==
    /\ a \in cards.reading
    /\ \E ok \in BOOLEAN :
         Pump(queue, queued, artists, IF ok THEN cards.done \cup {a} ELSE cards.done, cards.reading \ {a})
    /\ UNCHANGED <<tabVars, random, readVars, checkpoint, steps>>

----
(* Opening. *)

Origin(parent) == [view |-> view, tab |-> IF parent # None THEN parent
                                          ELSE IF detail.minimized THEN None ELSE detail.active]
OpenAs(as, parent, d) ==
    /\ detail' = d
    /\ origins' = [a \in Albums |-> IF a \in as /\ ~IsOpen(detail, a) THEN Origin(parent) ELSE origins[a]]

OpenDetail(a, background) ==
    /\ Step /\ OpenAs({a}, None, Opened(detail, a, None, ~background)) /\ Hydrate({a})
    /\ UNCHANGED <<view, closed, asking, random, hydrated, waiting, cardVars, checkpoint>>
OpenRelated(a, activate) ==
    /\ detail.active # None /\ ~detail.minimized /\ a # detail.active
    /\ Step /\ OpenAs({a}, detail.active, Opened(detail, a, detail.active, activate)) /\ Hydrate({a})
    /\ UNCHANGED <<view, closed, asking, random, hydrated, waiting, cardVars, checkpoint>>

\* A selection opens in order, the first in front; three are read at a time.
OpenSelected(as) ==
    LET order == SetToSeq(as)
        step(d, i) == Opened(d, order[i], None, i = 1)
        unread == SelectSeq(order, LAMBDA a : a \notin hydrated \cup hydrating)
    IN  /\ Step /\ Cardinality(as) > 1
        /\ OpenAs(as, None, FoldLeft(step, detail, [i \in 1..Len(order) |-> i]))
        /\ hydrating' = hydrating \cup ToSet(SubSeq(unread, 1, IF Len(unread) < 3 THEN Len(unread) ELSE 3))
        /\ waiting' = waiting \o SubSeq(unread, 4, Len(unread))
        /\ UNCHANGED <<view, closed, asking, random, hydrated, cardVars, checkpoint>>

\* A random album: at once from the lists, after a search in the explorer.
OpenRandom ==
    /\ ~random /\ Step
    /\ \/ view = "explore" /\ random' = TRUE /\ UNCHANGED <<detail, origins, hydrating>>
       \/ /\ view # "explore" /\ UNCHANGED random
          /\ \E a \in Albums : OpenAs({a}, None, Opened(detail, a, None, TRUE)) /\ Hydrate({a})
    /\ UNCHANGED <<view, closed, asking, hydrated, waiting, cardVars, checkpoint>>
RandomAnswered ==
    /\ random /\ random' = FALSE
    /\ \/ UNCHANGED <<detail, origins, hydrating>>
       \/ \E a \in Albums : OpenAs({a}, None, Opened(detail, a, None, TRUE)) /\ Hydrate({a})
    /\ UNCHANGED <<view, closed, asking, hydrated, waiting, cardVars, checkpoint, steps>>

----
(* Moving between tabs, closing and reopening. *)

Activate(a) == /\ IsOpen(detail, a) /\ Step /\ detail' = [detail EXCEPT !.active = a, !.minimized = FALSE]
               /\ UNCHANGED <<view, origins, closed, asking, random, readVars, cardVars, checkpoint>>
Minimize == /\ detail.tabs # <<>> /\ Step /\ detail' = [detail EXCEPT !.minimized = ~@]
            /\ UNCHANGED <<view, origins, closed, asking, random, readVars, cardVars, checkpoint>>

\* Outside the downloads no card waits.
LeaveDownloads(v) == IF v = "downloads" THEN UNCHANGED <<queue, queued, artists>>
                     ELSE queue' = <<>> /\ queued' = {} /\ artists' = NoArtists

Navigate(v) ==
    /\ v # view /\ Step /\ view' = v /\ asking' = FALSE
    /\ LeaveDownloads(v)
    /\ UNCHANGED <<detail, origins, closed, random, readVars, cards, checkpoint>>

Remember(item) == closed' = Append(IF Len(closed) < Remembered THEN closed ELSE Tail(closed), item)

\* returnToOrigin: the view and tab the album was opened from, if the tab is
\* still open; otherwise the workspace is minimized.
Returned(d, origin) ==
    IF origin = None THEN d
    ELSE IF origin.tab # None /\ IsOpen(detail, origin.tab) THEN [d EXCEPT !.active = origin.tab, !.minimized = FALSE]
    ELSE [d EXCEPT !.minimized = TRUE]

CloseDetail(a) ==
    LET front == detail.active = a /\ ~detail.minimized
    IN  /\ IsOpen(detail, a) /\ Step
        /\ Remember([ids |-> <<a>>, active |-> a, before |-> detail.tabs])
        /\ detail' = IF front THEN Returned(Without(detail, a), origins[a]) ELSE Without(detail, a)
        /\ view' = IF front /\ origins[a] # None THEN origins[a].view ELSE view
        /\ LeaveDownloads(view')
        /\ UNCHANGED <<origins, asking, random, readVars, cards, checkpoint>>

\* requestClose: more than one tab asks first.
AskCloseAll == /\ Len(detail.tabs) > 1 /\ ~asking /\ Step /\ asking' = TRUE
               /\ UNCHANGED <<view, detail, origins, closed, random, readVars, cardVars, checkpoint>>
CloseAll ==
    /\ detail.tabs # <<>> /\ asking = (Len(detail.tabs) > 1) /\ Step /\ asking' = FALSE
    /\ Remember([ids |-> detail.tabs, active |-> detail.active, before |-> detail.tabs])
    /\ detail' = NoTabs
    /\ UNCHANGED <<view, origins, random, readVars, cardVars, checkpoint>>

\* Each closed tab goes back after its former left neighbour.
Reopened(d, item) ==
    LET left(a) == LET i == CHOOSE j \in DOMAIN item.before : item.before[j] = a
                   IN  IF i = 1 THEN None ELSE item.before[i - 1]
        step(e, i) == Opened(e, item.ids[i], left(item.ids[i]), FALSE)
        open == FoldLeft(step, d, [i \in 1..Len(item.ids) |-> i])
    IN  IF item.active = None THEN open ELSE [open EXCEPT !.active = item.active, !.minimized = FALSE]

ReopenClosedNavigation ==
    /\ closed # <<>> /\ Step
    /\ detail' = Reopened(detail, Last(closed)) /\ closed' = Front(closed)
    /\ Hydrate(ToSet(Last(closed).ids))
    /\ UNCHANGED <<view, origins, asking, random, hydrated, waiting, cardVars, checkpoint>>

----
(* A reload of the page keeps the tabs and forgets the rest. *)

Save == /\ checkpoint = None /\ Step /\ checkpoint' = [detail |-> detail, origins |-> origins]
        /\ UNCHANGED <<tabVars, random, readVars, cardVars>>
Restart ==
    /\ checkpoint # None /\ Step
    /\ LET saved == checkpoint.detail
           step(d, a) == Opened(d, a, None, FALSE)
           open == FoldLeft(step, NoTabs, saved.tabs)
           order == SelectSeq(saved.tabs, LAMBDA a : a = saved.active) \o SelectSeq(saved.tabs, LAMBDA a : a # saved.active)
       IN  /\ detail' = [open EXCEPT !.active = saved.active, !.minimized = saved.minimized]
           /\ hydrating' = ToSet(SubSeq(order, 1, IF Len(order) < 3 THEN Len(order) ELSE 3))
           /\ waiting' = SubSeq(order, 4, Len(order))
    /\ origins' = checkpoint.origins /\ closed' = <<>> /\ asking' = FALSE /\ random' = FALSE
    /\ hydrated' = {} /\ cards' = [done |-> {}, reading |-> {}] /\ queue' = <<>> /\ queued' = {}
    /\ artists' = NoArtists /\ checkpoint' = None /\ UNCHANGED view

Reading ==
    \/ \E a \in Albums : HydrateAnswered(a) \/ RefreshMerged(a) \/ Discard(a) \/ CardAnswered(a)
    \/ \E as \in SUBSET Albums : Nearby(as) \/ GroupByArtist(as)
Tabs ==
    \/ \E a \in Albums : Activate(a) \/ CloseDetail(a)
    \/ \E a \in Albums, on \in BOOLEAN : OpenDetail(a, on) \/ OpenRelated(a, on)
    \/ \E as \in SUBSET Albums : OpenSelected(as)
    \/ \E v \in Views : Navigate(v)
    \/ OpenRandom \/ RandomAnswered \/ Minimize \/ AskCloseAll \/ CloseAll \/ ReopenClosedNavigation
    \/ Save \/ Restart

Next == Reading \/ Tabs

Spec == Init /\ [][Next]_vars

----
\* The album in front is one of the open tabs, there is one as long as a tab is
\* open, and no album has two tabs, whatever was closed, reopened or reloaded.
FrontIsOpen ==
    /\ detail.active = None <=> detail.tabs = <<>>
    /\ detail.active # None => IsOpen(detail, detail.active)
    /\ IsInjective(detail.tabs)

\* A card that waits to be described waits because every worker is busy.
NoWorkerRests ==
    /\ Cardinality(cards.reading) <= Workers
    /\ (\E a \in queued \cup ((ToSet(artists.queue) \cap artists.wanted) \ artists.tried) : ~Known(a)) => Cardinality(cards.reading) = Workers
====
