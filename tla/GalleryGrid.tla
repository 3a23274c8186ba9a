---- MODULE GalleryGrid ----
(***************************************************************************)
(* The grid of albums in its three views: which albums are shown and on    *)
(* which page or in which folder, which are selected with mouse or         *)
(* keyboard, and what is done with them: they are excluded from            *)
(* exploration, moved to quarantine and brought back with one undo.  The   *)
(* exclusions the workspace knows are read again after each change; the    *)
(* chosen covers come from lists and from events.                          *)
(***************************************************************************)
EXTENDS Integers, SequencesExt

CONSTANTS
    Albums,         \* in the order of the lists
    Folder,         \* the artist an album is grouped under
    PageSize,
    Batch,          \* albums excluded or restored by one call (200)
    MaxSteps,       \* things the user does (bound)
    MaxReads,       \* readings of the exclusions (bound)
    None

Views == {"explore", "auto-find", "downloads"}

VARIABLES
    view,
    download,   \* of each album: "none", "working", "completed", "quarantined"
    found,      \* the candidates the workspace knows
    excluded,   \* the backend's exclusions
    known,      \* the workspace's: [ids, ready, token], and in doubt the albums of which the
                \* backend changed something since, and the answer was lost
    reads,      \* readings of the exclusions: [token, ids]
    grid,       \* [ids, anchor, cursor] and, per view, [page, folders, shut]
    excluding,  \* excludeExploreGalleries: [rest, done, at], or None
    autos,      \* excludeAutoFindCandidates: [ids, at]
    undo,       \* lastUndoAction: [kind, ids, at], or None
    undoing,    \* undoLastGalleryAction: [action, rest, done, at], or None
    moving,     \* quarantineGalleries: [ids, back], or None
    covers,     \* [saved, shown, asked, lists, events, saving]: the covers chosen for the albums
    steps

dataVars == <<excluded, known, reads>>
callVars == <<excluding, autos, undo, undoing, moving>>
vars == <<view, download, found, dataVars, grid, callVars, covers, steps>>

Step == steps < MaxSteps /\ steps' = steps + 1
Artists == {Folder[a] : a \in Albums}
Ordered(as) ==
    LET mine == as \cap Albums
    IN  [i \in 1..Cardinality(mine) |-> CHOOSE a \in mine : Cardinality({b \in mine : b < a}) = i - 1]

----
(* What is shown. *)

\* Exploring shows what a search found; the candidates are albums without a
\* download, the downloads those with one that is not in quarantine.
Visible(v, d, f) ==
    Ordered({a \in Albums : CASE v = "explore" -> TRUE
                              [] v = "auto-find" -> a \in f /\ d[a] = "none"
                              [] v = "downloads" -> d[a] \notin {"none", "quarantined"}})

\* isExplorationBlind: shown, but neither selected nor opened.
Blind(v, d, k, a) == v = "explore" /\ (d[a] = "quarantined" \/ a \in k.ids)
Actionable(v, d, k, f) == SelectSeq(Visible(v, d, f), LAMBDA a : d[a] # "quarantined" /\ ~Blind(v, d, k, a))

Pages(n) == IF n <= PageSize THEN 1 ELSE (n + PageSize - 1) \div PageSize
Clamp(page, n) == IF page > Pages(n) THEN Pages(n) ELSE page
Paged(v, folders) == v = "auto-find" \/ (v = "downloads" /\ ~folders)
OnPage(as, page) == SubSeq(as, (page - 1) * PageSize + 1, IF page * PageSize < Len(as) THEN page * PageSize ELSE Len(as))

\* The albums of an artist follow each other, the artists as their first albums do.
Grouped(as) == SortSeq(as, LAMBDA a, b : Folder[a] < Folder[b] \/ (Folder[a] = Folder[b] /\ a < b))

Rendered == LET all == Visible(view, download, found)
                listed == IF view = "auto-find" /\ grid.folders[view] THEN Grouped(all) ELSE all
            IN  IF Paged(view, grid.folders[view]) THEN OnPage(listed, Clamp(grid.page[view], Len(all))) ELSE all
RenderedActionable == SelectSeq(Rendered, LAMBDA a : download[a] # "quarantined" /\ ~Blind(view, download, known, a))

\* The arrow keys pass over what is folded away.
Navigable == IF ~grid.folders[view] THEN RenderedActionable
             ELSE SelectSeq(Grouped(Rendered), LAMBDA a : Folder[a] \notin grid.shut[view])
Cursor == IF grid.cursor \in ToSet(Navigable) THEN grid.cursor
          ELSE LET chosen == SelectSeq(Navigable, LAMBDA a : a \in grid.ids)
               IN  IF chosen # <<>> THEN Head(chosen) ELSE IF Navigable # <<>> THEN Head(Navigable) ELSE None

----
(* The selection. *)

Cleared(g) == [g EXCEPT !.ids = {}, !.anchor = None]

Between(as, a, b) ==
    IF a \in ToSet(as) /\ b \in ToSet(as)
    THEN LET i == IndexFirstSubSeq(<<a>>, as)
             j == IndexFirstSubSeq(<<b>>, as)
         IN  {as[k] : k \in (IF i < j THEN i..j ELSE j..i)}
    ELSE {}

\* selectFromClick.
Clicked(g, a, ctrl, shift) ==
    IF shift /\ g.anchor # None THEN [g EXCEPT !.ids = @ \cup Between(RenderedActionable, g.anchor, a)]
    ELSE IF ctrl THEN [g EXCEPT !.ids = IF a \in @ THEN @ \ {a} ELSE @ \cup {a}, !.anchor = a]
    ELSE IF g.ids = {a} THEN Cleared(g)
    ELSE [g EXCEPT !.ids = {a}, !.anchor = a]

\* Only what can be acted on stays selected.
Retained(g, act) == [g EXCEPT !.ids = @ \cap act, !.anchor = IF @ \in act THEN @ ELSE None]

\* Whatever changes what is shown also leads back from a page that is gone.
Show(g) ==
    LET kept == Retained(g, ToSet(Actionable(view', download', known', found')))
        page == Clamp(g.page[view'], Len(Visible(view', download', found')))
    IN  grid' = IF Paged(view', g.folders[view']) /\ page # g.page[view']
                THEN [kept EXCEPT !.page[view'] = page, !.cursor = None]
                ELSE kept

Select(a, ctrl, shift) ==
    /\ a \in ToSet(Rendered) /\ ~Blind(view, download, known, a) /\ Step
    /\ grid' = [Clicked(grid, a, ctrl, shift) EXCEPT !.cursor = a]
    /\ UNCHANGED <<view, download, found, dataVars, callVars, covers>>
\* The space bar and the box of a card.
Tick(a) ==
    /\ a \in ToSet(Rendered) /\ ~Blind(view, download, known, a) /\ Step
    /\ grid' = [Clicked(grid, a, TRUE, FALSE) EXCEPT !.cursor = a]
    /\ UNCHANGED <<view, download, found, dataVars, callVars, covers>>
ClearSelection ==
    /\ grid.ids # {} /\ Step /\ grid' = Cleared(grid)
    /\ UNCHANGED <<view, download, found, dataVars, callVars, covers>>
SelectAll ==
    /\ RenderedActionable # <<>> /\ Step
    /\ grid' = [grid EXCEPT !.ids = ToSet(RenderedActionable), !.anchor = Head(RenderedActionable)]
    /\ UNCHANGED <<view, download, found, dataVars, callVars, covers>>

\* An arrow key on the card in focus, with or without shift.
Move(delta, shift) ==
    /\ Cursor # None /\ Step
    /\ LET i == IndexFirstSubSeq(<<Cursor>>, Navigable) + delta
           next == Navigable[IF i < 1 THEN 1 ELSE IF i > Len(Navigable) THEN Len(Navigable) ELSE i]
           anchor == IF grid.anchor \in ToSet(Navigable) THEN grid.anchor ELSE Cursor
       IN  grid' = IF shift THEN [grid EXCEPT !.ids = @ \cup Between(Navigable, anchor, next), !.anchor = anchor,
                                              !.cursor = next]
                   ELSE [grid EXCEPT !.cursor = next]
    /\ UNCHANGED <<view, download, found, dataVars, callVars, covers>>

Navigate(v) ==
    /\ v # view /\ Step /\ view' = v
    /\ UNCHANGED <<download, found, dataVars, callVars, covers>> /\ Show(Cleared(grid))
ChangePage(p) ==
    /\ p \in 1..Pages(Len(Visible(view, download, found))) /\ Paged(view, grid.folders[view])
    /\ p # grid.page[view] /\ Step
    /\ grid' = [grid EXCEPT !.page[view] = p, !.cursor = None]
    /\ UNCHANGED <<view, download, found, dataVars, callVars, covers>>

\* Folders of artists or one list, from the first page; the folders of the downloads
\* are shut again.
Group ==
    /\ view # "explore" /\ Step
    /\ grid' = [grid EXCEPT !.folders[view] = ~@, !.page[view] = 1, !.cursor = None,
                            !.shut[view] = IF view = "downloads" THEN Artists ELSE @]
    /\ UNCHANGED <<view, download, found, dataVars, callVars, covers>>
ToggleFolder(f) ==
    /\ grid.folders[view] /\ Step
    /\ grid' = [grid EXCEPT !.shut[view] = IF f \in @ THEN @ \ {f} ELSE @ \cup {f}]
    /\ UNCHANGED <<view, download, found, dataVars, callVars, covers>>
ToggleAllFolders ==
    /\ grid.folders[view] /\ Step
    /\ LET all == {Folder[a] : a \in ToSet(Rendered)}
           kept == IF view = "downloads" THEN Artists ELSE grid.shut[view]
       IN  grid' = [grid EXCEPT !.shut[view] = IF all \subseteq @ THEN kept \ all ELSE kept \cup all]
    /\ UNCHANGED <<view, download, found, dataVars, callVars, covers>>

\* download:changed, and a search that finds candidates.
DownloadChanged(a, s) ==
    /\ <<download[a], s>> \in {<<"none", "working">>, <<"working", "completed">>} /\ Step
    /\ download' = [download EXCEPT ![a] = s]
    /\ UNCHANGED <<view, found, dataVars, callVars, covers>> /\ Show(grid)

----
(* The exclusions the workspace knows. *)

\* A new token: an answer to an older question no longer counts.
Asked(k) == [k EXCEPT !.token = @ + 1, !.ready = FALSE]

ReadExclusions ==
    /\ known.token < MaxReads /\ Step
    /\ known' = Asked(known) /\ reads' = reads \cup {[token |-> known.token + 1, ids |-> None]}
    /\ UNCHANGED <<view, download, found, excluded, grid, callVars, covers>>
ReadServed(r) ==
    /\ r.ids = None /\ reads' = (reads \ {r}) \cup {[r EXCEPT !.ids = excluded]}
    /\ known' = IF r.token = known.token THEN [known EXCEPT !.doubt = {}] ELSE known
    /\ UNCHANGED <<view, download, found, excluded, grid, callVars, covers, steps>>
ReadAnswered(r) ==
    /\ r.ids # None /\ reads' = reads \ {r}
    /\ \E ok \in BOOLEAN :
         known' = IF ok /\ r.token = known.token THEN [known EXCEPT !.ids = r.ids, !.ready = TRUE] ELSE known
    /\ UNCHANGED <<view, download, found, excluded, callVars, covers, steps>> /\ Show(grid)

\* A change is shown at once and the exclusions are read again.
Learn(ids) ==
    /\ known' = Asked([known EXCEPT !.ids = ids])
    /\ reads' = reads \cup {[token |-> known.token + 1, ids |-> None]}

Candidates == {a \in Albums : a \notin excluded /\ download[a] = "none"}
Targets == IF grid.ids # {} THEN grid.ids ELSE IF Cursor # None THEN {Cursor} ELSE {}
Head200(as) == SubSeq(as, 1, IF Len(as) < Batch THEN Len(as) ELSE Batch)
Tail200(as) == SubSeq(as, Batch + 1, Len(as))

----
(* Excluding. *)

\* The Delete key, the toolbar and the menu of a card.
ExcludeExplore(as) ==
    LET targets == Ordered(as \ known.ids)
    IN  /\ view = "explore" /\ excluding = None /\ targets # <<>> /\ known.token < MaxReads /\ Step
        /\ excluding' = [rest |-> targets, done |-> {}, at |-> "sent"]
        /\ UNCHANGED <<view, download, found, dataVars, grid, autos, undo, undoing, moving, covers>>

\* Done and answered, done with the answer lost, or not done.
ExcludeServed ==
    /\ excluding # None /\ excluding.at = "sent"
    /\ LET now == ToSet(Head200(excluding.rest))
       IN  \/ /\ excluding' = [excluding EXCEPT !.at = "ok"]
              /\ excluded' = excluded \cup now /\ UNCHANGED known
           \/ /\ excluding' = [excluding EXCEPT !.at = "failed"]
              /\ excluded' = excluded \cup now /\ known' = [known EXCEPT !.doubt = @ \cup now]
           \/ excluding' = [excluding EXCEPT !.at = "failed"] /\ UNCHANGED <<excluded, known>>
    /\ UNCHANGED <<view, download, found, reads, grid, autos, undo, undoing, moving, covers, steps>>

\* The reading under way is trusted to notice.
ExcludeAnsweredQuietly ==
    LET now == ToSet(Head200(excluding.rest))
        done == IF excluding.at = "ok" THEN excluding.done \cup now ELSE excluding.done
        over == excluding.at = "failed" \/ Tail200(excluding.rest) = <<>>
    IN  /\ excluding # None /\ excluding.at # "sent"
        /\ excluding' = IF over THEN None ELSE [rest |-> Tail200(excluding.rest), done |-> done, at |-> "sent"]
        /\ undo' = IF over /\ done # {} THEN [kind |-> "exclusion", ids |-> done, at |-> steps] ELSE undo
        /\ known' = IF excluding.at = "ok" THEN [known EXCEPT !.ids = @ \cup now] ELSE known
        /\ found' = IF excluding.at = "ok" THEN Candidates ELSE found
        /\ UNCHANGED <<view, download, excluded, reads, autos, undoing, moving, covers, steps>>
        /\ Show(IF over /\ done # {} THEN Cleared(grid) ELSE grid)

\* Batch after batch; what was excluded before one failed stays excluded and can
\* be undone, and only at the end the exclusions are read again.
ExcludeAnswered ==
    LET now == ToSet(Head200(excluding.rest))
        done == IF excluding.at = "ok" THEN excluding.done \cup now ELSE excluding.done
        over == excluding.at = "failed" \/ Tail200(excluding.rest) = <<>>
        ids == IF excluding.at = "ok" THEN known.ids \cup now ELSE known.ids
    IN  /\ excluding # None /\ excluding.at # "sent"
        /\ found' = IF excluding.at = "ok" THEN Candidates ELSE found
        /\ excluding' = IF over THEN None ELSE [rest |-> Tail200(excluding.rest), done |-> done, at |-> "sent"]
        /\ undo' = IF over /\ done # {} THEN [kind |-> "exclusion", ids |-> done, at |-> steps] ELSE undo
        /\ IF over /\ done # {} THEN Learn(ids)
           ELSE known' = [known EXCEPT !.ids = ids] /\ UNCHANGED reads
        /\ UNCHANGED <<view, download, excluded, autos, undoing, moving, covers, steps>>
        /\ Show(IF over /\ done # {} THEN Cleared(grid) ELSE grid)

\* Candidates are excluded in one call; nothing keeps a second one from starting.
ExcludeCandidates(as) ==
    /\ view = "auto-find" /\ as \cap found # {} /\ known.token < MaxReads /\ Step
    /\ autos' = autos \cup {[ids |-> as \cap found, at |-> "sent", n |-> steps]}
    /\ UNCHANGED <<view, download, found, dataVars, grid, excluding, undo, undoing, moving, covers>>
CandidatesServed(c) ==
    /\ c.at = "sent" /\ excluded' = excluded \cup c.ids
    /\ \/ autos' = (autos \ {c}) \cup {[c EXCEPT !.at = "ok"]} /\ UNCHANGED known
       \/ autos' = autos \ {c} /\ known' = [known EXCEPT !.doubt = @ \cup c.ids]
    /\ UNCHANGED <<view, download, found, reads, grid, excluding, undo, undoing, moving, covers, steps>>
CandidatesAnswered(c) ==
    /\ autos' = autos \ {c}
    /\ UNCHANGED <<view, download, excluded, excluding, undoing, moving, covers, steps>>
    /\ \/ c.at = "sent" /\ UNCHANGED <<found, known, reads, undo, grid>>
       \/ /\ c.at = "ok" /\ found' = Candidates /\ Learn(known.ids \cup c.ids)
          /\ undo' = [kind |-> "exclusion", ids |-> c.ids, at |-> steps] /\ Show(Cleared(grid))

----
(* Quarantine, and the undo. *)

\* Albums are moved away only when all of them are complete, back only when all
\* are away; the user confirms.
Quarantine(as) ==
    /\ view = "downloads" /\ as # {} /\ moving = None /\ Step
    /\ \E back \in BOOLEAN :
         /\ \A a \in as : download[a] = IF back THEN "quarantined" ELSE "completed"
         /\ moving' = [ids |-> as, back |-> back]
    /\ UNCHANGED <<view, download, found, dataVars, grid, excluding, autos, undo, undoing, covers>>
QuarantineAnswered ==
    /\ moving # None /\ moving' = None
    /\ UNCHANGED <<view, found, dataVars, excluding, autos, undoing, covers, steps>>
    /\ \/ UNCHANGED <<download, undo, grid>>
       \/ /\ download' = [a \in Albums |-> IF a \in moving.ids THEN IF moving.back THEN "completed" ELSE "quarantined"
                                           ELSE download[a]]
          /\ undo' = IF ~moving.back THEN [kind |-> "quarantine", ids |-> moving.ids, at |-> steps]
                     ELSE IF undo # None /\ undo.kind = "quarantine" /\ undo.ids \cap moving.ids # {} THEN None ELSE undo
          /\ Show(Cleared(grid))

Undo ==
    /\ undo # None /\ undoing = None /\ known.token < MaxReads /\ Step
    /\ undoing' = [action |-> undo, rest |-> Ordered(undo.ids), done |-> {}, at |-> "sent"]
    /\ UNCHANGED <<view, download, found, dataVars, grid, excluding, autos, undo, moving, covers>>
UndoServed ==
    /\ undoing # None /\ undoing.at = "sent"
    /\ LET now == IF undoing.action.kind = "exclusion" THEN ToSet(Head200(undoing.rest)) ELSE {}
       IN  \/ undoing' = [undoing EXCEPT !.at = "ok"] /\ excluded' = excluded \ now /\ UNCHANGED known
           \/ /\ undoing' = [undoing EXCEPT !.at = "failed"]
              /\ excluded' = excluded \ now /\ known' = [known EXCEPT !.doubt = @ \cup now]
           \/ undoing' = [undoing EXCEPT !.at = "failed"] /\ UNCHANGED <<excluded, known>>
    /\ UNCHANGED <<view, download, found, reads, grid, excluding, autos, undo, moving, covers, steps>>

\* A batch that is refused leaves the undo of what is still excluded, a call that is
\* lost the undo as it was.
UndoFailed ==
    /\ undoing # None /\ undoing.at = "failed" /\ undoing' = None
    /\ undo' \in {undo} \cup IF undoing.action.kind = "exclusion"
                              THEN {[undoing.action EXCEPT !.ids = @ \ undoing.done]} ELSE {}
    /\ UNCHANGED <<view, download, found, dataVars, grid, excluding, autos, moving, covers, steps>>

UndoAnswered ==
    LET now == ToSet(Head200(undoing.rest))
        rest == IF undoing.action.kind = "exclusion" THEN Tail200(undoing.rest) ELSE <<>>
    IN  /\ undoing # None /\ undoing.at = "ok"
        /\ IF undoing.action.kind = "exclusion"
           THEN found' = Candidates /\ Learn(known.ids \ now) /\ UNCHANGED download
           ELSE /\ download' = [a \in Albums |-> IF a \in undoing.action.ids THEN "completed" ELSE download[a]]
                /\ UNCHANGED <<found, known, reads>>
        /\ undoing' = IF rest = <<>> THEN None
                      ELSE [undoing EXCEPT !.rest = rest, !.done = @ \cup now, !.at = "sent"]
        /\ undo' = IF rest = <<>> /\ undo = undoing.action THEN None ELSE undo
        /\ UNCHANGED <<view, excluded, excluding, autos, moving, covers, steps>>
        /\ Show(grid)

----
(* Covers. *)

\* Saved selections are listed once per completed album, claimed before the call.
AskCovers ==
    LET missing == {a \in Albums : download[a] = "completed"} \ covers.asked
    IN  /\ missing # {}
        /\ covers' = [covers EXCEPT !.asked = @ \cup missing, !.lists = @ \cup {[ids |-> missing, got |-> None]}]
        /\ UNCHANGED <<view, download, found, dataVars, grid, callVars, steps>>
ListServed(l) ==
    /\ l.got = None
    /\ covers' = [covers EXCEPT !.lists = (@ \ {l}) \cup {[l EXCEPT !.got = covers.saved]}]
    /\ UNCHANGED <<view, download, found, dataVars, grid, callVars, steps>>

\* A list never replaces what an event brought; one that fails is asked for again.
ListAnswered(l) ==
    /\ l.got # None
    /\ covers' = [covers EXCEPT !.lists = @ \ {l},
                                !.shown = [a \in Albums |-> IF a \in l.ids /\ @[a] = 0 THEN l.got[a] ELSE @[a]]]
    /\ UNCHANGED <<view, download, found, dataVars, grid, callVars, steps>>
ListFails(l) ==
    /\ Step /\ covers' = [covers EXCEPT !.lists = @ \ {l}, !.asked = @ \ l.ids]
    /\ UNCHANGED <<view, download, found, dataVars, grid, callVars>>

\* One choice is saved at a time; the backend tells every window, and its answer
\* is shown at once.
CoverChosen(a) ==
    LET chosen == [album |-> a, cover |-> covers.saved[a] + 1]
    IN  /\ download[a] = "completed" /\ covers.saving = None /\ Step
        /\ covers' = [covers EXCEPT !.saved[a] = @ + 1, !.events = Append(@, chosen), !.saving = chosen]
        /\ UNCHANGED <<view, download, found, dataVars, grid, callVars>>
CoverSaved ==
    /\ covers.saving # None
    /\ covers' = [covers EXCEPT !.shown[covers.saving.album] = covers.saving.cover, !.saving = None]
    /\ UNCHANGED <<view, download, found, dataVars, grid, callVars, steps>>
CoverEvent ==
    /\ covers.events # <<>>
    /\ LET e == Head(covers.events)
       IN  covers' = [covers EXCEPT !.events = Tail(@), !.shown[e.album] = e.cover]
    /\ UNCHANGED <<view, download, found, dataVars, grid, callVars, steps>>

----
NoCovers == [saved |-> [a \in Albums |-> 1], shown |-> [a \in Albums |-> 0], asked |-> {}, lists |-> {},
             events |-> <<>>, saving |-> None]

Init ==
    /\ view \in Views /\ download \in [Albums -> {"none", "completed"}] /\ found = Albums
    /\ excluded = {} /\ known = [ids |-> {}, ready |-> TRUE, token |-> 0, doubt |-> {}] /\ reads = {}
    /\ grid = [ids |-> {}, anchor |-> None, cursor |-> None, page |-> [v \in Views |-> 1],
               folders |-> [v \in Views |-> FALSE],
               shut |-> [v \in Views |-> IF v = "downloads" THEN Artists ELSE {}]]
    /\ excluding = None /\ autos = {} /\ undo = None /\ undoing = None /\ moving = None
    /\ covers = NoCovers /\ steps = 0

Choosing ==
    \/ \E a \in Albums, ctrl, shift \in BOOLEAN : Select(a, ctrl, shift)
    \/ \E d \in {-2, -1, 1, 2}, shift \in BOOLEAN : Move(d, shift)
    \/ \E v \in Views : Navigate(v)
    \/ \E p \in 1..Cardinality(Albums) : ChangePage(p)
    \/ \E a \in Albums : ToggleFolder(Folder[a]) \/ DownloadChanged(a, "working") \/ DownloadChanged(a, "completed")
    \/ \E a \in Albums : Tick(a)
    \/ SelectAll \/ ClearSelection \/ Group \/ ToggleAllFolders
Excluding ==
    \/ \E r \in reads : ReadServed(r) \/ ReadAnswered(r)
    \/ \E c \in autos : CandidatesServed(c) \/ CandidatesAnswered(c)
    \/ ReadExclusions \/ ExcludeExplore(Targets) \/ ExcludeServed \/ ExcludeAnswered \/ ExcludeCandidates(Targets)
    \/ Quarantine(Targets) \/ QuarantineAnswered
    \/ Undo \/ UndoServed \/ UndoFailed \/ UndoAnswered
Covering ==
    \/ \E l \in covers.lists : ListServed(l) \/ ListAnswered(l) \/ ListFails(l)
    \/ \E a \in Albums : CoverChosen(a)
    \/ AskCovers \/ CoverEvent \/ CoverSaved

Next == Choosing \/ Excluding \/ Covering

Spec == Init /\ [][Next]_vars

----
\* Once the exclusions count as read they are the backend's, whatever was excluded
\* or undone meanwhile, except while an answer that says so is on its way, and but
\* for the albums of a call whose answer was lost since they were read.
ExclusionsAreTrue ==
    known.ready /\ excluding = None /\ (\A c \in autos : c.at = "sent") /\ (undoing = None \/ undoing.at # "ok")
    => known.ids \ known.doubt = excluded \ known.doubt

\* The cover shown is the one chosen last, once every event and answer has arrived.
CoverIsNewest ==
    covers.events = <<>> /\ covers.saving = None => \A a \in Albums : covers.shown[a] \in {0, covers.saved[a]}
====
