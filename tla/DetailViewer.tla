---- MODULE DetailViewer ----
(***************************************************************************)
(* The page of one album: the window of page previews, the enlarged page   *)
(* (one page or two side by side, in either reading direction), and the    *)
(* originals that replace the previews.  An original is prepared by the    *)
(* backend under a request of its own and held until it is disposed of,    *)
(* while the page that asked for it may be turned, closed, or given up.    *)
(* Sizes, animations and focus are left out.                               *)
(***************************************************************************)
EXTENDS Integers, Sequences, FiniteSetsExt, Functions

CONSTANTS
    Albums,
    PageCount,      \* pages of each album
    WindowSize,     \* previews in the window (8 or 9)
    MaxSizes,       \* page sizes remembered (32)
    MaxViews,       \* times the reader moves (bound)
    None

VARIABLES
    shown,      \* the album of the active tab, None when minimized
    done,       \* albums whose download is complete
    start,      \* previewWindowStarts
    input,      \* previewPageInput
    page,       \* previewPage; 0 is the empty place before the first page
    spread, rtl,    \* twoPageView, readingDirection
    bar,        \* [visible, pinned]: the controls of the enlarged page
    box,        \* [sized, dragging]: the enlarged page's own size
    sizes,      \* resolvedPreviewDimensions, oldest first
    request,    \* pageOpenRequest not yet consumed
    cover,      \* [page, saving, error]: the cover chosen, 0 when automatic
    viewers,    \* mounted originals: [target, id, kind]
    calls,      \* detailOriginalPrepare under way: [id, stage]
    disposals,  \* detailOriginalDispose under way
    held,       \* originals the backend holds
    views       \* moves so far

vars == <<shown, done, start, input, page, spread, rtl, bar, box, sizes, request, cover,
          viewers, calls, disposals, held, views>>
windowVars == <<start, input>>
previewVars == <<page, spread, rtl, bar, box, sizes>>
wireVars == <<viewers, calls, disposals, held>>

NoCover == [page |-> 0, saving |-> None, error |-> FALSE]

Init ==
    /\ shown = None /\ done \in SUBSET Albums /\ start = [a \in Albums |-> 1] /\ input = 1
    /\ page = None /\ spread = FALSE /\ rtl \in BOOLEAN
    /\ bar \in [visible : {FALSE}, pinned : BOOLEAN] /\ box = [sized |-> FALSE, dragging |-> FALSE]
    /\ sizes = <<>> /\ request = None /\ cover = [a \in Albums |-> NoCover]
    /\ viewers = {} /\ calls = {} /\ disposals = {} /\ held = {} /\ views = 0

Total == IF shown = None THEN 0 ELSE PageCount[shown]

----
(* The window of previews. *)

windowSize(a) == IF PageCount[a] < WindowSize THEN PageCount[a] ELSE WindowSize
windowStart(p, a) == ((p - 1) \div windowSize(a)) * windowSize(a) + 1
clampStart(s, a) == LET last == windowStart(PageCount[a], a)
                    IN  IF s < 1 THEN 1 ELSE IF s > last THEN last ELSE s
windowRange(a) == {p \in 1..PageCount[a] : start[a] <= p /\ p < start[a] + windowSize(a)}

SetStart(s) == start' = [start EXCEPT ![shown] = clampStart(s, shown)] /\ input' = start'[shown]

----
(* Originals: one for the cover, one for each enlarged page. *)

\* pagePreviewSlots: the pages on the screen; an empty place is left out.
Slots(p, both, total) == IF p = None THEN {} ELSE {q \in 1..total : q = p \/ (both /\ q = p + 1)}

CoverPage(a, complete, covers) == IF a \in complete /\ covers[a].page # 0 THEN covers[a].page ELSE 1
Targets(a, p, both, complete, covers) ==
    IF a = None THEN {}
    ELSE {<<"cover", a, CoverPage(a, complete, covers), a \in complete>>} \cup
         {<<"page", a, q, a \in complete>> : q \in Slots(p, both, PageCount[a])}

\* Only a complete download has originals of its pages.
Asks(target) == target[1] = "cover" \/ target[4]
Id(target) == <<target, views + 1>>

\* Unmounting disposes of what was asked for, whether it was answered or not.
Remount ==
    LET targets == Targets(shown', page', spread', done', cover')
        gone == {v \in viewers : v.target \notin targets}
        new == targets \ {v.target : v \in viewers}
    IN  /\ viewers' = (viewers \ gone) \cup
            {[target |-> t, id |-> Id(t), kind |-> IF Asks(t) THEN "preparing" ELSE "thumbnail"] : t \in new}
        /\ calls' = calls \cup {[id |-> Id(t), stage |-> "sent"] : t \in {n \in new : Asks(n)}}
        /\ disposals' = disposals \cup {v.id : v \in {g \in gone : g.kind # "thumbnail"}}
        /\ UNCHANGED held

Move == views < MaxViews /\ views' = views + 1

PrepareServed(c) ==
    /\ c.stage = "sent"
    /\ \E stage \in {"prepared", "refused"} :
         /\ calls' = (calls \ {c}) \cup {[c EXCEPT !.stage = stage]}
         /\ held' = IF stage = "prepared" THEN held \cup {c.id} ELSE held
    /\ UNCHANGED <<shown, done, windowVars, previewVars, request, cover, viewers, disposals, views>>

Becomes(v, kind) == viewers' = (viewers \ {v}) \cup {[v EXCEPT !.kind = kind]}
Quiet == UNCHANGED <<shown, done, windowVars, previewVars, request, cover, views>>

\* A late original is shown if its page is still there.
AnsweredLate(c) ==
    LET here == {v \in viewers : v.id = c.id}
    IN  /\ c.stage # "sent" /\ calls' = calls \ {c}
        /\ IF here # {} THEN \E v \in here : Becomes(v, "prepared") ELSE UNCHANGED viewers
        /\ UNCHANGED <<disposals, held>> /\ Quiet

\* An answer nobody waits for is disposed of.
PrepareAnswered(c) ==
    LET waiting == {v \in viewers : v.id = c.id /\ v.kind = "preparing"}
    IN  /\ c.stage # "sent" /\ calls' = calls \ {c}
        /\ \/ /\ waiting # {}
              /\ \E v \in waiting : Becomes(v, IF c.stage = "prepared" THEN "prepared" ELSE "failed")
              /\ UNCHANGED disposals
           \/ /\ waiting = {} /\ UNCHANGED viewers
              /\ disposals' = IF c.stage = "prepared" THEN disposals \cup {c.id} ELSE disposals
        /\ UNCHANGED held /\ Quiet

\* After a minute the page gives up, and the call may still be answered.
Timeout(v) ==
    /\ v.kind = "preparing" /\ Becomes(v, "failed") /\ disposals' = disposals \cup {v.id}
    /\ UNCHANGED <<calls, held>> /\ Quiet

ImageLoaded(v) == v.kind = "prepared" /\ Becomes(v, "displayed") /\ UNCHANGED <<calls, disposals, held>> /\ Quiet
ImageFails(v) ==
    /\ v.kind \in {"prepared", "displayed"} /\ Becomes(v, "failed") /\ disposals' = disposals \cup {v.id}
    /\ UNCHANGED <<calls, held>> /\ Quiet
DisposeServed(id) == /\ disposals' = disposals \ {id} /\ held' = held \ {id}
                     /\ UNCHANGED <<viewers, calls>> /\ Quiet

----
(* The album. *)

\* A failed save is told until the page is left.
ErrorGone == cover' = [a \in Albums |-> [cover[a] EXCEPT !.error = FALSE]]

\* The controls hide, a closed preview forgets its size, sizes and spread.
Closed == page' = None /\ spread' = FALSE /\ sizes' = <<>> /\ bar' = [bar EXCEPT !.visible = FALSE]
          /\ box' = [sized |-> FALSE, dragging |-> FALSE]

\* Another tab, or the workspace is minimized; not while a page is enlarged.
Show(a) ==
    /\ page = None /\ a # shown /\ Move /\ shown' = a
    /\ input' = IF a = None THEN input ELSE start[a]
    /\ ErrorGone
    /\ UNCHANGED <<start, done, previewVars, request>> /\ Remount

\* A saved page is asked for before its album is on the screen.
OpenRequest(a, p) == Move /\ request' = <<a, p>> /\ UNCHANGED <<shown, done, windowVars, previewVars, cover, wireVars>>
ConsumeRequest ==
    /\ request # None /\ request[1] = shown /\ request' = None
    /\ spread' = FALSE /\ page' = IF request[2] \in 1..Total THEN request[2] ELSE None
    /\ Move /\ ErrorGone /\ UNCHANGED <<shown, done, windowVars, rtl, bar, box, sizes>> /\ Remount

\* A completed download drops the sizes measured on its previews.
Complete(a) ==
    /\ a \notin done /\ Move /\ done' = done \cup {a}
    /\ sizes' = IF a = shown THEN <<>> ELSE sizes
    /\ UNCHANGED <<shown, windowVars, page, spread, rtl, bar, box, request, cover>> /\ Remount

ShiftWindow(direction) ==
    /\ shown # None /\ page = None /\ Move /\ SetStart(start[shown] + direction * windowSize(shown))
    /\ UNCHANGED <<shown, done, previewVars, request, cover, wireVars>>
TypePage(p) == /\ shown # None /\ page = None /\ Move /\ input' = p
               /\ UNCHANGED <<shown, done, start, previewVars, request, cover, wireVars>>
CommitInput ==
    /\ shown # None /\ input # start[shown]
    /\ IF input \in 1..Total THEN SetStart(windowStart(input, shown)) ELSE input' = start[shown] /\ UNCHANGED start
    /\ UNCHANGED <<shown, done, previewVars, request, cover, wireVars, views>>

----
(* The enlarged page. *)

OpenPage(p) ==
    /\ shown # None /\ page = None /\ p \in windowRange(shown) /\ Move /\ page' = p
    /\ ErrorGone /\ UNCHANGED <<shown, done, windowVars, spread, rtl, bar, box, sizes, request>> /\ Remount
ClosePage ==
    /\ page # None /\ Move /\ Closed
    /\ ErrorGone /\ UNCHANGED <<shown, done, windowVars, rtl, request>> /\ Remount

\* nextPagePreviewAnchor: two pages may begin with an empty place.
Anchor(direction) == page + direction * IF spread THEN 2 ELSE 1
\* The arrows follow the reading direction.
Direction(side) == IF (side = "left") = ~rtl THEN -1 ELSE 1
Turn(direction) ==
    /\ page # None /\ Anchor(direction) \in (IF spread THEN 0 ELSE 1)..Total
    /\ Move /\ page' = Anchor(direction)
    /\ ErrorGone
    /\ UNCHANGED <<shown, done, windowVars, spread, rtl, bar, box, sizes, request>> /\ Remount

ToggleSpread ==
    /\ page # None /\ Move /\ spread' = ~spread /\ page' = IF page = 0 THEN 1 ELSE page
    /\ UNCHANGED <<shown, done, windowVars, rtl, bar, box, sizes, request, cover>> /\ Remount

Reading == page # None /\ Move /\ UNCHANGED <<shown, done, windowVars, page, spread, request, wireVars>>
ToggleDirection == Reading /\ rtl' = ~rtl /\ UNCHANGED <<bar, box, sizes, cover>>
Controls ==
    /\ Reading /\ UNCHANGED <<rtl, box, sizes, cover>>
    /\ \/ bar' = [bar EXCEPT !.visible = ~@]
       \/ bar' = [visible |-> TRUE, pinned |-> ~bar.pinned]
\* Only a complete download can be given a size of its own.
Resize(dragging) == /\ Reading /\ shown \in done /\ box' = [sized |-> TRUE, dragging |-> dragging]
                    /\ UNCHANGED <<rtl, bar, sizes, cover>>
BeginResize == Resize(TRUE)
EndResize == box.dragging /\ Resize(FALSE)
ResizeByKey == ~box.dragging /\ Resize(FALSE)
\* An image that loads tells its size; the oldest are forgotten.
DimensionResolved(p) ==
    /\ Reading /\ p \in Slots(page, spread, Total) /\ p \notin Range(sizes) /\ UNCHANGED <<rtl, bar, box, cover>>
    /\ sizes' = IF Len(sizes) < MaxSizes THEN Append(sizes, p) ELSE Append(Tail(sizes), p)

\* setRepresentativePreview: one save at a time, of a complete download.
CoverChoices ==
    IF shown \in done /\ \A a \in Albums : cover[a].saving = None
    THEN {0, IF page = 0 THEN 1 ELSE page} \ {cover[shown].page} ELSE {}
SaveCover ==
    /\ Reading
    /\ \E p \in CoverChoices :
         cover' = [cover EXCEPT ![shown].saving = p, ![shown].error = FALSE]
    /\ UNCHANGED <<rtl, bar, box, sizes>>
CoverSaved(a) ==
    /\ cover[a].saving # None
    /\ \E ok \in BOOLEAN :
         cover' = [cover EXCEPT ![a] = [page |-> IF ok THEN @.saving ELSE @.page, saving |-> None, error |-> ~ok]]
    /\ UNCHANGED <<shown, done, windowVars, previewVars, request, views>> /\ Remount

Originals ==
    \/ \E c \in calls : PrepareServed(c) \/ PrepareAnswered(c)
    \/ \E v \in viewers : Timeout(v) \/ ImageLoaded(v) \/ ImageFails(v)
    \/ \E id \in disposals : DisposeServed(id)
Paging ==
    \/ \E a \in Albums \cup {None} : Show(a)
    \/ \E a \in Albums : Complete(a) \/ (\E p \in 0..PageCount[a] : OpenRequest(a, p))
    \/ \E side \in {"left", "right"} : Turn(Direction(side))
    \/ \E p \in 1..Total : OpenPage(p)
    \/ ConsumeRequest \/ ClosePage \/ ToggleSpread
Comforts ==
    \/ \E d \in {-1, 1} : ShiftWindow(d)
    \/ \E p \in 0..Total : TypePage(p) \/ DimensionResolved(p)
    \/ CommitInput \/ ToggleDirection \/ Controls \/ BeginResize \/ EndResize \/ ResizeByKey \/ SaveCover
    \/ \E a \in Albums : CoverSaved(a)

Next == Originals \/ Paging \/ Comforts

Spec == Init /\ [][Next]_vars

----
\* Every original the backend holds belongs to a mounted page, or a disposal of
\* it, or an answer that will lead to one, is on the way.
NoOriginalIsLeaked ==
    held \subseteq {v.id : v \in viewers} \cup disposals \cup {c.id : c \in calls}

\* The enlarged view always shows a page of the album, and the window of
\* previews begins at one, whatever mix of one page and two was turned through.
PreviewShowsAPage ==
    /\ page # None => Slots(page, spread, Total) # {}
    /\ \A a \in Albums : PageCount[a] > 0 => start[a] \in 1..PageCount[a] /\ (start[a] - 1) % windowSize(a) = 0
====
