---- MODULE LibraryProofs ----
(***************************************************************************)
(* Proofs about the library's part of the window: the page of one album    *)
(* with its previews and its originals (DetailViewer), the search bar with *)
(* its suggestions, its history and the favourites (SearchBar), the images *)
(* on screen (Thumbnails), the history of automatic decisions (Activity),  *)
(* who decides edition reviews (OverlapDesk), the list of downloads        *)
(* (DownloadBoard), and the grid of albums (GalleryGrid).                  *)
(***************************************************************************)
EXTENDS Integers, Sequences, FiniteSets, FiniteSetTheorems, WellFoundedInduction, TLAPS

CONSTANTS Albums, PageCount, WindowSize, MaxSizes, MaxViews, Words, Askable, Suggested, Languages,
          MaxSteps, None

VARIABLES shown, done, start, input, page, spread, rtl, bar, box, sizes, request, cover, viewers,
          calls, disposals, held, views,
          field, tags, questions, searches, history, past, reads, removal, gone, saved, stars, intent,
          save, wish, starRead, steps

V == INSTANCE DetailViewer
B == INSTANCE SearchBar WITH bar <- field

----
(* Originals.  That an answer which comes too late still finds its way to a
   disposal rests on the identifiers: none is used twice.  An identifier is
   as old as the moves it was made after; the ones made by a saved cover,
   which is no move, belong to a mounted page until the next move. *)

ViewerTypes ==
  /\ views \in Nat
  /\ DOMAIN cover = Albums
  /\ \A a \in Albums : {"page", "saving", "error"} \subseteq DOMAIN cover[a]
  /\ \A v \in viewers : /\ {"target", "id", "kind"} \subseteq DOMAIN v
                        /\ v.id[1] = v.target /\ v.id[2] \in Nat
                        /\ v.kind = "thumbnail" => ~V!Asks(v.target)
  /\ \A c \in calls : /\ {"id", "stage"} \subseteq DOMAIN c
                      /\ V!Asks(c.id[1]) /\ c.id[2] \in Nat
  /\ \A i \in held : V!Asks(i[1]) /\ i[2] \in Nat

(* The identifiers in use. *)
Ids == held \cup {c.id : c \in calls}

OneSave == \A a, b \in Albums : cover[a].saving # None /\ cover[b].saving # None => a = b
NoSave == \A a \in Albums : cover[a].saving = None

Fresh ==
  \A i \in Ids :
    \/ i[2] <= views
    \/ i[2] = views + 1 /\ NoSave /\ \E v \in viewers : v.target = i[1]

(* One call for each identifier, and none of what was refused is held. *)
CallsApart ==
  \A c \in calls :
    /\ \A d \in calls : c.id = d.id => c = d
    /\ c.id \in held => c.stage = "prepared"

ViewerInv == ViewerTypes /\ OneSave /\ Fresh /\ CallsApart /\ V!NoOriginalIsLeaked

CoverTypes(c) == DOMAIN c = Albums
                 /\ \A a \in Albums : {"page", "saving", "error"} \subseteq DOMAIN c[a]

(* Pages come and go: what leaves with an original asked for is disposed of,
   and what comes asks under an identifier of its own. *)
LEMMA RemountKeeps ==
  ASSUME ViewerInv, V!Remount, CoverTypes(cover'), OneSave',
         views' = views + 1 \/ (views' = views /\ ~NoSave /\ NoSave')
  PROVE  ViewerInv'
<1> DEFINE targets == V!Targets(shown', page', spread', done', cover')
           leaving == {v \in viewers : v.target \notin targets}
           new == targets \ {v.target : v \in viewers}
           Mounted(t) == [target |-> t, id |-> V!Id(t),
                          kind |-> IF V!Asks(t) THEN "preparing" ELSE "thumbnail"]
           Asked(t) == [id |-> V!Id(t), stage |-> "sent"]
<1>1. /\ viewers' = (viewers \ leaving) \cup {Mounted(t) : t \in new}
      /\ calls' = calls \cup {Asked(t) : t \in {n \in new : V!Asks(n)}}
      /\ disposals' = disposals \cup {v.id : v \in {g \in leaving : g.kind # "thumbnail"}}
      /\ held' = held  BY DEF V!Remount
<1>2. \A t \in new : \A v \in viewers : v.target # t  OBVIOUS
<1> HIDE DEF targets, new
<1>3. \A t : /\ DOMAIN Mounted(t) = {"target", "id", "kind"} /\ Mounted(t).target = t
             /\ Mounted(t).id = <<t, views + 1>>
             /\ Mounted(t).kind = "thumbnail" => ~V!Asks(t)  BY DEF V!Id
<1>4. \A t : DOMAIN Asked(t) = {"id", "stage"} /\ Asked(t).id = <<t, views + 1>>
             /\ Asked(t).stage = "sent"  BY DEF V!Id
<1> HIDE DEF Mounted, Asked
<1>5. views \in Nat /\ views' \in Nat  BY DEF ViewerInv, ViewerTypes
<1>6. \A v \in viewers' : v \in viewers \/ \E t \in new : v = Mounted(t)  BY <1>1
<1>7. \A c \in calls' : c \in calls \/ \E t \in new : c = Asked(t) /\ V!Asks(t)  BY <1>1
<1>8. ViewerTypes'
  <2>1. \A v \in viewers' : /\ {"target", "id", "kind"} \subseteq DOMAIN v
                            /\ v.id[1] = v.target /\ v.id[2] \in Nat
                            /\ v.kind = "thumbnail" => ~V!Asks(v.target)
    BY <1>3, <1>5, <1>6 DEF ViewerInv, ViewerTypes
  <2>2. \A c \in calls' : /\ {"id", "stage"} \subseteq DOMAIN c
                          /\ V!Asks(c.id[1]) /\ c.id[2] \in Nat
    BY <1>4, <1>5, <1>7 DEF ViewerInv, ViewerTypes
  <2>3. \A i \in held' : V!Asks(i[1]) /\ i[2] \in Nat  BY <1>1 DEF ViewerInv, ViewerTypes
  <2> QED BY <1>5, <2>1, <2>2, <2>3 DEF ViewerTypes, CoverTypes, V!Asks
<1>9. \A i \in Ids : \A t \in new : i # <<t, views + 1>>
  <2> SUFFICES ASSUME NEW i \in Ids, NEW t \in new, i = <<t, views + 1>>
               PROVE  FALSE  OBVIOUS
  <2>1. i[1] = t /\ i[2] = views + 1  OBVIOUS
  <2> QED BY <1>2, <1>5, <2>1 DEF ViewerInv, Fresh
<1>10. CallsApart'
  <2> SUFFICES ASSUME NEW c \in calls'
               PROVE  /\ \A d \in calls' : c.id = d.id => c = d
                      /\ c.id \in held' => c.stage = "prepared"  BY DEF CallsApart
  <2>1. CASE c \in calls
    <3>1. c.id \in Ids  BY <2>1 DEF Ids
    <3>2. \A t \in new : c.id # Asked(t).id  BY <1>4, <1>9, <3>1
    <3>3. c.id \in held => c.stage = "prepared"  BY <2>1 DEF ViewerInv, CallsApart
    <3>4. \A d \in calls : c.id = d.id => c = d  BY <2>1 DEF ViewerInv, CallsApart
    <3> QED BY <1>1, <1>7, <3>2, <3>3, <3>4
  <2>2. CASE \E t \in new : c = Asked(t)
    <3> PICK t \in new : c = Asked(t)  BY <2>2
    <3>1. c.id \notin Ids /\ c.id = <<t, views + 1>>  BY <1>4, <1>9
    <3>2. \A s \in new : Asked(s).id = c.id => s = t  BY <1>4, <3>1
    <3> QED BY <1>1, <1>7, <3>1, <3>2 DEF Ids
  <2> QED BY <1>7, <2>1, <2>2
<1>11. Fresh'
  <2> SUFFICES ASSUME NEW i \in Ids'
               PROVE  \/ i[2] <= views'
                      \/ i[2] = views' + 1 /\ NoSave' /\ \E v \in viewers' : v.target = i[1]  BY DEF Fresh
  <2>1. i \in Ids \/ \E t \in new : i = <<t, views + 1>>  BY <1>1, <1>4, <1>7 DEF Ids
  <2>2. CASE i \in Ids
    <3>1. i[2] \in Nat  BY <2>2 DEF Ids, ViewerInv, ViewerTypes
    <3> QED BY <1>5, <2>2, <3>1 DEF ViewerInv, Fresh
  <2>3. CASE \E t \in new : i = <<t, views + 1>>
    <3> PICK t \in new : i = <<t, views + 1>>  BY <2>3
    <3>1. i[1] = t /\ i[2] = views + 1  OBVIOUS
    <3>2. Mounted(t) \in viewers' /\ Mounted(t).target = t  BY <1>1, <1>3
    <3>3. CASE views' = views + 1  BY <1>5, <3>1, <3>3
    <3>4. CASE views' = views /\ NoSave'  BY <3>1, <3>2, <3>4
    <3> QED BY <3>3, <3>4
  <2> QED BY <2>1, <2>2, <2>3
<1>12. V!NoOriginalIsLeaked'
  <2> SUFFICES ASSUME NEW i \in held'
               PROVE  i \in {v.id : v \in viewers'} \cup disposals' \cup {c.id : c \in calls'}
    BY DEF V!NoOriginalIsLeaked
  <2>1. i \in held /\ V!Asks(i[1])  BY <1>1 DEF ViewerInv, ViewerTypes
  <2>2. CASE \E v \in viewers : v.id = i
    <3> PICK v \in viewers : v.id = i  BY <2>2
    <3>1. v.kind # "thumbnail"  BY <2>1 DEF ViewerInv, ViewerTypes
    <3> QED BY <1>1, <3>1
  <2>3. CASE i \in disposals \/ \E c \in calls : c.id = i  BY <1>1, <2>3
  <2> QED BY <2>1, <2>2, <2>3 DEF ViewerInv, V!NoOriginalIsLeaked
<1> QED BY <1>8, <1>10, <1>11, <1>12 DEF ViewerInv

(* Steps that neither mount nor unmount a page. *)
LEMMA WireUntouched ==
  ASSUME ViewerInv, UNCHANGED <<viewers, calls, disposals, held>>, CoverTypes(cover'), OneSave',
         views' = views + 1 \/ (views' = views /\ (NoSave => NoSave'))
  PROVE  ViewerInv'
<1>1. views \in Nat /\ views' \in Nat /\ \A i \in Ids : i[2] \in Nat  BY DEF ViewerInv, ViewerTypes, Ids
<1>2. ViewerTypes'  BY <1>1 DEF ViewerInv, ViewerTypes, CoverTypes, V!Asks
<1>3. Ids' = Ids  BY DEF Ids
<1>4. Fresh'  BY <1>1, <1>3 DEF ViewerInv, Fresh
<1> QED BY <1>2, <1>4 DEF ViewerInv, CallsApart, V!NoOriginalIsLeaked

(* A save that was told is forgotten, not the save itself. *)
LEMMA ErrorGoneKeeps ==
  ASSUME ViewerInv, V!ErrorGone
  PROVE  CoverTypes(cover') /\ OneSave'
<1>1. \A a \in Albums : {"page", "saving", "error"} \subseteq DOMAIN cover[a]  BY DEF ViewerInv, ViewerTypes
<1>2. cover' = [a \in Albums |-> [cover[a] EXCEPT !.error = FALSE]]  BY DEF V!ErrorGone
<1>3. \A a \in Albums : DOMAIN cover'[a] = DOMAIN cover[a] /\ cover'[a].saving = cover[a].saving  BY <1>1, <1>2
<1> QED BY <1>1, <1>2, <1>3 DEF CoverTypes, ViewerInv, OneSave

LEMMA CoverUntouched ==
  ASSUME ViewerInv, cover' = cover
  PROVE  CoverTypes(cover') /\ OneSave' /\ (NoSave => NoSave')
BY DEF ViewerInv, ViewerTypes, CoverTypes, OneSave, NoSave

LEMMA PagingKeeps ==
  ASSUME ViewerInv, V!Paging
  PROVE  ViewerInv'
<1>1. CASE \E a \in Albums \cup {None} : V!Show(a)  BY <1>1, RemountKeeps, ErrorGoneKeeps DEF V!Show, V!Move
<1>2. CASE \E a \in Albums : V!Complete(a)
  <2>1. V!Remount /\ views' = views + 1 /\ cover' = cover  BY <1>2 DEF V!Complete, V!Move
  <2> QED BY <2>1, RemountKeeps, CoverUntouched
<1>3. CASE \E a \in Albums : \E p \in 0 .. PageCount[a] : V!OpenRequest(a, p)
  <2>1. UNCHANGED <<viewers, calls, disposals, held, cover>> /\ views' = views + 1
    BY <1>3 DEF V!OpenRequest, V!Move, V!wireVars
  <2> QED BY <2>1, WireUntouched, CoverUntouched
<1>4. CASE \E side \in {"left", "right"} : V!Turn(V!Direction(side))
  BY <1>4, RemountKeeps, ErrorGoneKeeps DEF V!Turn, V!Move
<1>5. CASE \E p \in 1 .. V!Total : V!OpenPage(p)  BY <1>5, RemountKeeps, ErrorGoneKeeps DEF V!OpenPage, V!Move
<1>6. CASE V!ConsumeRequest  BY <1>6, RemountKeeps, ErrorGoneKeeps DEF V!ConsumeRequest, V!Move
<1>7. CASE V!ClosePage  BY <1>7, RemountKeeps, ErrorGoneKeeps DEF V!ClosePage, V!Move
<1>8. CASE V!ToggleSpread
  <2>1. V!Remount /\ views' = views + 1 /\ cover' = cover  BY <1>8 DEF V!ToggleSpread, V!Move
  <2> QED BY <2>1, RemountKeeps, CoverUntouched
<1> QED BY <1>1, <1>2, <1>3, <1>4, <1>5, <1>6, <1>7, <1>8 DEF V!Paging

LEMMA ComfortsKeep ==
  ASSUME ViewerInv, V!Comforts
  PROVE  ViewerInv'
<1>1. CASE \/ \E d \in {-1, 1} : V!ShiftWindow(d)
           \/ \E p \in 0 .. V!Total : V!TypePage(p) \/ V!DimensionResolved(p)
           \/ V!CommitInput \/ V!ToggleDirection \/ V!Controls
           \/ V!BeginResize \/ V!EndResize \/ V!ResizeByKey
  <2>1. UNCHANGED <<viewers, calls, disposals, held, cover>> /\ (views' = views + 1 \/ views' = views)
    BY <1>1 DEF V!ShiftWindow, V!TypePage, V!DimensionResolved, V!CommitInput, V!ToggleDirection,
                V!Controls, V!BeginResize, V!EndResize, V!ResizeByKey, V!Resize, V!Reading, V!Move,
                V!wireVars
  <2> QED BY <2>1, WireUntouched, CoverUntouched
<1>2. CASE V!SaveCover
  <2>1. UNCHANGED <<viewers, calls, disposals, held>> /\ views' = views + 1
    BY <1>2 DEF V!SaveCover, V!Reading, V!Move, V!wireVars
  <2>2. PICK p \in V!CoverChoices :
          cover' = [cover EXCEPT ![shown].saving = p, ![shown].error = FALSE]  BY <1>2 DEF V!SaveCover
  <2>3. NoSave  BY <2>2 DEF V!CoverChoices, NoSave
  <2>4. CoverTypes(cover)  BY DEF ViewerInv, ViewerTypes, CoverTypes
  <2>5. /\ DOMAIN cover' = Albums
        /\ \A a \in Albums : DOMAIN cover'[a] = DOMAIN cover[a]
        /\ \A a \in Albums : a # shown => cover'[a] = cover[a]  BY <2>2, <2>4 DEF CoverTypes
  <2>6. CoverTypes(cover') /\ OneSave'  BY <2>3, <2>4, <2>5 DEF CoverTypes, OneSave, NoSave
  <2> QED BY <2>1, <2>6, WireUntouched
<1>3. CASE \E a \in Albums : V!CoverSaved(a)
  <2> PICK a \in Albums : V!CoverSaved(a)  BY <1>3
  <2>1. V!Remount /\ views' = views /\ cover[a].saving # None  BY DEF V!CoverSaved
  <2>2. PICK told : \E p : cover' = [cover EXCEPT ![a] = [page |-> p, saving |-> None, error |-> told]]
    BY DEF V!CoverSaved
  <2>3. CoverTypes(cover)  BY DEF ViewerInv, ViewerTypes, CoverTypes
  <2>4. /\ DOMAIN cover' = Albums /\ cover'[a].saving = None
        /\ DOMAIN cover'[a] = {"page", "saving", "error"}
        /\ \A b \in Albums : b # a => cover'[b] = cover[b]  BY <2>2, <2>3 DEF CoverTypes
  <2>5. CoverTypes(cover') /\ OneSave' /\ ~NoSave /\ NoSave'
    BY <2>1, <2>3, <2>4 DEF CoverTypes, ViewerInv, OneSave, NoSave
  <2> QED BY <2>1, <2>5, RemountKeeps
<1> QED BY <1>1, <1>2, <1>3 DEF V!Comforts

(* An original changes its kind: its page and its identifier stay. *)
LEMMA BecomesKeeps ==
  ASSUME ViewerInv, NEW v \in viewers, v.kind # "thumbnail", NEW kind, kind # "thumbnail",
         V!Becomes(v, kind)
  PROVE  /\ \A w \in viewers' :
              /\ {"target", "id", "kind"} \subseteq DOMAIN w /\ w.id[1] = w.target /\ w.id[2] \in Nat
              /\ w.kind = "thumbnail" => ~V!Asks(w.target)
         /\ \A w \in viewers : \E x \in viewers' : x.id = w.id /\ x.target = w.target
<1>1. PICK x : x = [v EXCEPT !.kind = kind]  OBVIOUS
<1>2. {"target", "id", "kind"} \subseteq DOMAIN v /\ v.id[1] = v.target /\ v.id[2] \in Nat
  BY DEF ViewerInv, ViewerTypes
<1>3. x.id = v.id /\ x.target = v.target /\ x.kind = kind /\ DOMAIN x = DOMAIN v  BY <1>1, <1>2
<1>4. viewers' = (viewers \ {v}) \cup {x}  BY <1>1 DEF V!Becomes
<1> QED BY <1>2, <1>3, <1>4 DEF ViewerInv, ViewerTypes

LEMMA OriginalsKeep ==
  ASSUME ViewerInv, V!Originals
  PROVE  ViewerInv'
<1>0. UNCHANGED <<cover, views>>
  BY DEF V!Originals, V!PrepareServed, V!PrepareAnswered, V!Timeout, V!ImageLoaded, V!ImageFails,
         V!DisposeServed, V!Quiet
<1>1. /\ OneSave' /\ (NoSave => NoSave') /\ views' \in Nat /\ DOMAIN cover' = Albums
      /\ \A a \in Albums : {"page", "saving", "error"} \subseteq DOMAIN cover'[a]
  BY <1>0, CoverUntouched DEF ViewerInv, ViewerTypes
<1> DEFINE Pages(w) ==
             \A v \in w :
               /\ {"target", "id", "kind"} \subseteq DOMAIN v /\ v.id[1] = v.target /\ v.id[2] \in Nat
               /\ v.kind = "thumbnail" => ~V!Asks(v.target)
           Kept == \A v \in viewers : \E x \in viewers' : x.id = v.id /\ x.target = v.target
<1>2. ASSUME Pages(viewers'), Kept, held' = held, calls' \subseteq calls,
             V!NoOriginalIsLeaked'
      PROVE  ViewerInv'
  <2>1. ViewerTypes'  BY <1>1, <1>2 DEF ViewerInv, ViewerTypes, V!Asks
  <2>2. Ids' \subseteq Ids  BY <1>2 DEF Ids
  <2>3. Fresh'  BY <1>0, <1>1, <1>2, <2>2 DEF ViewerInv, Fresh
  <2>4. CallsApart'  BY <1>2 DEF ViewerInv, CallsApart
  <2> QED BY <1>1, <1>2, <2>1, <2>3, <2>4 DEF ViewerInv
<1>3. Pages(viewers)  BY DEF ViewerInv, ViewerTypes
<1>4. CASE \E c \in calls : V!PrepareServed(c)
  <2> PICK c \in calls : V!PrepareServed(c)  BY <1>4
  <2>1. PICK stage \in {"prepared", "refused"} :
          /\ calls' = (calls \ {c}) \cup {[c EXCEPT !.stage = stage]}
          /\ held' = IF stage = "prepared" THEN held \cup {c.id} ELSE held  BY DEF V!PrepareServed
  <2>2. UNCHANGED <<viewers, disposals>> /\ c.stage = "sent"  BY DEF V!PrepareServed
  <2>3. PICK d : d = [c EXCEPT !.stage = stage]  OBVIOUS
  <2>4. {"id", "stage"} \subseteq DOMAIN c /\ V!Asks(c.id[1]) /\ c.id[2] \in Nat /\ c.id \notin held
    BY <2>2 DEF ViewerInv, ViewerTypes, CallsApart
  <2>5. d.id = c.id /\ d.stage = stage /\ DOMAIN d = DOMAIN c  BY <2>3, <2>4
  <2>6. calls' = (calls \ {c}) \cup {d}  BY <2>1, <2>3
  <2>7. ViewerTypes'
    <3>1. \A e \in calls' : {"id", "stage"} \subseteq DOMAIN e /\ V!Asks(e.id[1]) /\ e.id[2] \in Nat
      BY <2>4, <2>5, <2>6 DEF ViewerInv, ViewerTypes
    <3>2. \A i \in held' : V!Asks(i[1]) /\ i[2] \in Nat  BY <2>1, <2>4 DEF ViewerInv, ViewerTypes
    <3> QED BY <1>1, <1>3, <2>2, <3>1, <3>2 DEF ViewerTypes, V!Asks
  <2>8. Ids' \subseteq Ids  BY <2>1, <2>5, <2>6 DEF Ids
  <2>9. Fresh'  BY <1>0, <1>1, <2>2, <2>8 DEF ViewerInv, Fresh
  <2>10. CallsApart'  BY <2>1, <2>4, <2>5, <2>6 DEF ViewerInv, CallsApart
  <2>11. V!NoOriginalIsLeaked'
    <3>1. \A e \in calls : \E f \in calls' : f.id = e.id  BY <2>5, <2>6
    <3>2. held' \subseteq held \cup {c.id}  BY <2>1
    <3> QED BY <2>2, <3>1, <3>2 DEF ViewerInv, V!NoOriginalIsLeaked
  <2> QED BY <1>1, <2>7, <2>9, <2>10, <2>11 DEF ViewerInv
<1>5. CASE \E c \in calls : V!PrepareAnswered(c)
  <2> PICK c \in calls : V!PrepareAnswered(c)  BY <1>5
  <2>1. calls' = calls \ {c} /\ c.stage # "sent" /\ held' = held  BY DEF V!PrepareAnswered
  <2>2. \A i \in {e.id : e \in calls} : i = c.id \/ i \in {e.id : e \in calls'}  BY <2>1
  <2>3. CASE \E v \in viewers : /\ v.id = c.id /\ v.kind = "preparing" /\ UNCHANGED disposals
                                /\ V!Becomes(v, IF c.stage = "prepared" THEN "prepared" ELSE "failed")
    <3> PICK v \in viewers : /\ v.id = c.id /\ v.kind = "preparing" /\ UNCHANGED disposals
                             /\ V!Becomes(v, IF c.stage = "prepared" THEN "prepared" ELSE "failed")  BY <2>3
    <3>1. PICK kind : kind = IF c.stage = "prepared" THEN "prepared" ELSE "failed"  OBVIOUS
    <3>2. Pages(viewers') /\ Kept  BY <3>1, BecomesKeeps
    <3>3. V!NoOriginalIsLeaked'  BY <2>1, <2>2, <3>2 DEF ViewerInv, V!NoOriginalIsLeaked
    <3> QED BY <1>2, <2>1, <3>2, <3>3
  <2>4. CASE /\ UNCHANGED viewers
             /\ disposals' = IF c.stage = "prepared" THEN disposals \cup {c.id} ELSE disposals
    <3>1. c.id \in held => c.id \in disposals'  BY <2>4 DEF ViewerInv, CallsApart
    <3>2. disposals \subseteq disposals'  BY <2>4
    <3>3. V!NoOriginalIsLeaked'  BY <2>1, <2>2, <2>4, <3>1, <3>2 DEF ViewerInv, V!NoOriginalIsLeaked
    <3> QED BY <1>2, <1>3, <2>1, <2>4, <3>3
  <2> QED BY <2>3, <2>4 DEF V!PrepareAnswered
<1>6. CASE \E v \in viewers : V!Timeout(v) \/ V!ImageLoaded(v) \/ V!ImageFails(v)
  <2> PICK v \in viewers : V!Timeout(v) \/ V!ImageLoaded(v) \/ V!ImageFails(v)  BY <1>6
  <2>1. PICK kind \in {"failed", "displayed"} : V!Becomes(v, kind)  BY DEF V!Timeout, V!ImageLoaded, V!ImageFails
  <2>2. v.kind # "thumbnail" /\ UNCHANGED <<calls, held>> /\ disposals \subseteq disposals'
    BY DEF V!Timeout, V!ImageLoaded, V!ImageFails
  <2>3. Pages(viewers') /\ Kept  BY <2>1, <2>2, BecomesKeeps
  <2>4. V!NoOriginalIsLeaked'  BY <2>2, <2>3 DEF ViewerInv, V!NoOriginalIsLeaked
  <2> QED BY <1>2, <2>2, <2>3, <2>4
<1>7. CASE \E id \in disposals : V!DisposeServed(id)
  <2> PICK id \in disposals : V!DisposeServed(id)  BY <1>7
  <2>1. disposals' = disposals \ {id} /\ held' = held \ {id} /\ UNCHANGED <<viewers, calls>>  BY DEF V!DisposeServed
  <2>2. ViewerTypes'  BY <1>1, <2>1 DEF ViewerInv, ViewerTypes, V!Asks
  <2>3. Fresh'  BY <1>0, <1>1, <2>1 DEF ViewerInv, Fresh, Ids
  <2>4. CallsApart' /\ V!NoOriginalIsLeaked'  BY <2>1 DEF ViewerInv, CallsApart, V!NoOriginalIsLeaked
  <2> QED BY <1>1, <2>2, <2>3, <2>4 DEF ViewerInv
<1> QED BY <1>4, <1>5, <1>6, <1>7 DEF V!Originals

(* The album's enlarged page and its window of previews. *)
Reads == page # None =>
           /\ page \in Nat /\ shown # None /\ PageCount[shown] >= 1 /\ page <= PageCount[shown]
           /\ ~spread => page >= 1

BeginsAWindow(s, a) == \E k \in Nat : s = k * V!windowSize(a) + 1 /\ s <= PageCount[a]

PreviewInv ==
  /\ shown \in Albums \cup {None}
  /\ DOMAIN start = Albums
  /\ Reads
  /\ \A a \in Albums : PageCount[a] > 0 => BeginsAWindow(start[a], a)

AlbumsHavePages == PageCount \in [Albums -> Nat] /\ WindowSize \in Nat \ {0}

LEMMA DivisionRoundsDown ==
  ASSUME NEW n \in Nat, NEW w \in Nat, w > 0
  PROVE  n \div w \in Nat /\ (n \div w) * w <= n  BY SMTT(30)

LEMMA Multiples ==
  ASSUME NEW k \in Nat, NEW w \in Nat, w > 0
  PROVE  (k * w) % w = 0  BY SMTT(30)

LEMMA WindowSizes ==
  ASSUME AlbumsHavePages, NEW a \in Albums, PageCount[a] > 0
  PROVE  V!windowSize(a) \in Nat /\ V!windowSize(a) > 0 /\ PageCount[a] \in Nat
BY DEF AlbumsHavePages, V!windowSize

LEMMA WindowStarts ==
  ASSUME AlbumsHavePages, NEW a \in Albums, PageCount[a] > 0, NEW p \in 1 .. PageCount[a]
  PROVE  BeginsAWindow(V!windowStart(p, a), a)
<1> DEFINE w == V!windowSize(a)
<1>1. w \in Nat /\ w > 0 /\ PageCount[a] \in Nat  BY WindowSizes
<1> HIDE DEF w
<1>2. p - 1 \in Nat  BY <1>1
<1>3. PICK n \in Nat : n = p - 1  BY <1>2
<1>4. PICK k \in Nat : k = n \div w /\ k * w <= n  BY <1>1, DivisionRoundsDown
<1>5. k * w + 1 <= PageCount[a]
  <2>1. PICK m \in Nat : m = k * w  BY <1>1
  <2> QED BY <1>1, <1>3, <1>4, <2>1
<1>6. V!windowStart(p, a) = k * w + 1  BY <1>3, <1>4 DEF V!windowStart, w
<1> QED BY <1>5, <1>6 DEF BeginsAWindow, w

(* Wherever a window is moved to, it is clamped to one of the album. *)
LEMMA ClampsToAWindow ==
  ASSUME AlbumsHavePages, NEW a \in Albums, PageCount[a] > 0, NEW k \in Int, NEW s,
         s = k * V!windowSize(a) + 1
  PROVE  BeginsAWindow(V!clampStart(s, a), a)
<1> DEFINE w == V!windowSize(a)
           last == V!windowStart(PageCount[a], a)
<1>1. w \in Nat /\ w > 0 /\ PageCount[a] \in Nat  BY WindowSizes
<1>2. BeginsAWindow(last, a)  BY <1>1, WindowStarts
<1>3. PICK l \in Nat : last = l * w + 1 /\ last <= PageCount[a]  BY <1>2 DEF BeginsAWindow
<1> HIDE DEF w, last
<1>4. PICK m \in Int : m = k * w  BY <1>1
<1>5. PICK n \in Nat : n = l * w  BY <1>1
<1>6. CASE s < 1
  <2>1. V!clampStart(s, a) = 0 * w + 1  BY <1>1, <1>6 DEF V!clampStart
  <2> QED BY <1>1, <2>1 DEF BeginsAWindow, w
<1>7. CASE ~(s < 1) /\ s > last
  <2>1. V!clampStart(s, a) = last  BY <1>7 DEF V!clampStart, last
  <2> QED BY <1>2, <2>1 DEF last
<1>8. CASE ~(s < 1) /\ ~(s > last)
  <2>1. V!clampStart(s, a) = s  BY <1>8 DEF V!clampStart, last
  <2>2. m >= 0 /\ s = m + 1 /\ s <= PageCount[a]  BY <1>1, <1>3, <1>4, <1>5, <1>8 DEF w
  <2>3. k \in Nat  BY <1>1, <1>4, <2>2, SMTT(30)
  <2> QED BY <2>1, <2>2, <2>3 DEF BeginsAWindow
<1> QED BY <1>6, <1>7, <1>8

LEMMA PreviewUntouched ==
  ASSUME PreviewInv, UNCHANGED <<shown, start>>, Reads'
  PROVE  PreviewInv'  BY DEF PreviewInv, BeginsAWindow, V!windowSize

LEMMA SetStartKeeps ==
  ASSUME AlbumsHavePages, PreviewInv, shown # None, UNCHANGED <<shown, page, spread>>,
         NEW k \in Int, NEW s, s = k * V!windowSize(shown) + 1 \/ PageCount[shown] = 0,
         V!SetStart(s)
  PROVE  PreviewInv'
<1>1. shown \in Albums /\ PageCount[shown] \in Nat  BY DEF PreviewInv, AlbumsHavePages
<1>2. start' = [start EXCEPT ![shown] = V!clampStart(s, shown)]  BY DEF V!SetStart
<1>3. ASSUME NEW a \in Albums, PageCount[a] > 0
      PROVE  BeginsAWindow(start'[a], a)
  <2>1. CASE a = shown
    <3>1. start'[a] = V!clampStart(s, a)  BY <1>2, <2>1 DEF PreviewInv
    <3>2. PageCount[shown] # 0  BY <1>1, <1>3, <2>1
    <3> QED BY <1>3, <2>1, <3>1, <3>2, ClampsToAWindow
  <2>2. CASE a # shown  BY <1>2, <1>3, <2>2 DEF PreviewInv
  <2> QED BY <2>1, <2>2
<1>4. DOMAIN start' = Albums /\ Reads' /\ shown' \in Albums \cup {None}  BY <1>2 DEF PreviewInv, Reads
<1>5. \A a \in Albums : PageCount[a] > 0 => BeginsAWindow(start'[a], a)  BY <1>3
<1> QED BY <1>4, <1>5 DEF PreviewInv, BeginsAWindow, V!windowSize

LEMMA PreviewKept ==
  ASSUME AlbumsHavePages, PreviewInv, [V!Next]_V!vars
  PROVE  PreviewInv'
<1>0. \A a \in Albums : PageCount[a] \in Nat  BY DEF AlbumsHavePages
<1>1. CASE UNCHANGED <<shown, start, page, spread>>
  <2>1. Reads'  BY <1>1 DEF PreviewInv, Reads
  <2> QED BY <1>1, <2>1, PreviewUntouched
<1>2. CASE \E a \in Albums \cup {None} : V!Show(a)
  <2>1. shown' \in Albums \cup {None} /\ page = None /\ UNCHANGED <<start, page>>  BY <1>2 DEF V!Show, V!previewVars
  <2> QED BY <2>1 DEF PreviewInv, Reads, BeginsAWindow, V!windowSize
<1>3. CASE \E side \in {"left", "right"} : V!Turn(V!Direction(side))
  <2> PICK side \in {"left", "right"} : V!Turn(V!Direction(side))  BY <1>3
  <2>1. /\ page # None /\ UNCHANGED <<shown, start, spread>>
        /\ page' \in (IF spread THEN 0 ELSE 1) .. V!Total  BY DEF V!Turn, V!windowVars
  <2>2. shown \in Albums /\ shown # None /\ PageCount[shown] >= 1 /\ V!Total = PageCount[shown]
    BY <2>1 DEF PreviewInv, Reads, V!Total
  <2>3. Reads'  BY <1>0, <2>1, <2>2 DEF Reads
  <2> QED BY <2>1, <2>3, PreviewUntouched
<1>4. CASE \E p \in 1 .. V!Total : V!OpenPage(p)
  <2> PICK p \in 1 .. V!Total : V!OpenPage(p)  BY <1>4
  <2>1. shown # None /\ page' = p /\ UNCHANGED <<shown, start, spread>>  BY DEF V!OpenPage, V!windowVars
  <2>2. shown \in Albums /\ V!Total = PageCount[shown]  BY <2>1 DEF PreviewInv, V!Total
  <2>3. Reads'  BY <1>0, <2>1, <2>2 DEF Reads
  <2> QED BY <2>1, <2>3, PreviewUntouched
<1>5. CASE V!ConsumeRequest
  <2>1. /\ UNCHANGED <<shown, start>>
        /\ page' = IF request[2] \in 1 .. V!Total THEN request[2] ELSE None
    BY <1>5 DEF V!ConsumeRequest, V!windowVars
  <2>2. page' # None => page' \in 1 .. V!Total  BY <2>1
  <2>3. page' # None => shown \in Albums /\ shown # None /\ V!Total = PageCount[shown]
    BY <2>2 DEF PreviewInv, V!Total
  <2>4. Reads'  BY <1>0, <2>1, <2>2, <2>3 DEF Reads
  <2> QED BY <2>1, <2>4, PreviewUntouched
<1>6. CASE V!ClosePage
  <2>1. UNCHANGED <<shown, start>> /\ page' = None  BY <1>6 DEF V!ClosePage, V!Closed, V!windowVars
  <2>2. Reads'  BY <2>1 DEF Reads
  <2> QED BY <2>1, <2>2, PreviewUntouched
<1>7. CASE V!ToggleSpread
  <2>1. UNCHANGED <<shown, start>> /\ page # None /\ page' = IF page = 0 THEN 1 ELSE page
    BY <1>7 DEF V!ToggleSpread, V!windowVars
  <2>2. /\ page \in Nat /\ shown # None /\ PageCount[shown] >= 1 /\ page <= PageCount[shown]
        /\ shown \in Albums  BY <2>1 DEF PreviewInv, Reads
  <2>3. Reads'  BY <1>0, <2>1, <2>2 DEF Reads
  <2> QED BY <2>1, <2>3, PreviewUntouched
<1>8. CASE \E d \in {-1, 1} : V!ShiftWindow(d)
  <2> PICK d \in {-1, 1} : V!ShiftWindow(d)  BY <1>8
  <2>1. /\ shown # None /\ UNCHANGED <<shown, page, spread>>
        /\ V!SetStart(start[shown] + d * V!windowSize(shown))  BY DEF V!ShiftWindow, V!previewVars
  <2>2. PICK s : s = start[shown] + d * V!windowSize(shown)  OBVIOUS
  <2>3. shown \in Albums /\ PageCount[shown] \in Nat  BY <1>0, <2>1 DEF PreviewInv
  <2>4. CASE PageCount[shown] = 0  BY <2>1, <2>2, <2>4, SetStartKeeps
  <2>5. CASE PageCount[shown] > 0
    <3>1. V!windowSize(shown) \in Nat  BY <2>3, <2>5, WindowSizes
    <3>2. PICK k \in Nat : start[shown] = k * V!windowSize(shown) + 1  BY <2>3, <2>5 DEF PreviewInv, BeginsAWindow
    <3>3. PICK w \in Nat : w = V!windowSize(shown)  BY <3>1
    <3>4. s = (k + d) * w + 1 /\ k + d \in Int  BY <2>2, <3>2, <3>3
    <3> QED BY <2>1, <2>2, <3>3, <3>4, SetStartKeeps
  <2> QED BY <2>3, <2>4, <2>5
<1>9. CASE V!CommitInput
  <2>1. shown # None /\ UNCHANGED <<shown, page, spread>>  BY <1>9 DEF V!CommitInput, V!previewVars
  <2>2. shown \in Albums /\ V!Total = PageCount[shown] /\ PageCount[shown] \in Nat
    BY <1>0, <2>1 DEF PreviewInv, V!Total
  <2>3. CASE input \in 1 .. V!Total
    <3>1. V!SetStart(V!windowStart(input, shown))  BY <1>9, <2>3 DEF V!CommitInput
    <3>2. BeginsAWindow(V!windowStart(input, shown), shown)  BY <2>2, <2>3, WindowStarts
    <3>3. PICK k \in Nat : V!windowStart(input, shown) = k * V!windowSize(shown) + 1  BY <3>2 DEF BeginsAWindow
    <3> QED BY <2>1, <3>1, <3>3, SetStartKeeps
  <2>4. CASE input \notin 1 .. V!Total
    <3>1. UNCHANGED start  BY <1>9, <2>4 DEF V!CommitInput
    <3> QED BY <1>1, <2>1, <3>1
  <2> QED BY <2>3, <2>4
<1>10. CASE V!Originals \/ UNCHANGED V!vars
  BY <1>1, <1>10
  DEF V!Originals, V!PrepareServed, V!PrepareAnswered, V!Timeout, V!ImageLoaded, V!ImageFails,
      V!DisposeServed, V!Quiet, V!windowVars, V!previewVars, V!vars
<1>11. CASE \E a \in Albums : V!Complete(a) \/ (\E p \in 0 .. PageCount[a] : V!OpenRequest(a, p))
  BY <1>1, <1>11 DEF V!Complete, V!OpenRequest, V!windowVars, V!previewVars
<1>12. CASE \/ \E p \in 0 .. V!Total : V!TypePage(p) \/ V!DimensionResolved(p)
            \/ V!ToggleDirection \/ V!Controls \/ V!BeginResize \/ V!EndResize \/ V!ResizeByKey
            \/ V!SaveCover \/ \E a \in Albums : V!CoverSaved(a)
  BY <1>1, <1>12
  DEF V!TypePage, V!DimensionResolved, V!ToggleDirection, V!Controls, V!BeginResize, V!EndResize,
      V!ResizeByKey, V!Resize, V!SaveCover, V!CoverSaved, V!Reading, V!windowVars, V!previewVars
<1> QED BY <1>2, <1>3, <1>4, <1>5, <1>6, <1>7, <1>8, <1>9, <1>10, <1>11, <1>12
        DEF V!Next, V!Paging, V!Comforts

LEMMA PreviewShows ==
  ASSUME AlbumsHavePages, PreviewInv
  PROVE  V!PreviewShowsAPage
<1>0. \A a \in Albums : PageCount[a] \in Nat  BY DEF AlbumsHavePages
<1>1. ASSUME page # None
      PROVE  V!Slots(page, spread, V!Total) # {}
  <2>1. /\ page \in Nat /\ page <= V!Total /\ V!Total >= 1 /\ V!Total \in Nat
        /\ ~spread => page >= 1  BY <1>0, <1>1 DEF PreviewInv, Reads, V!Total
  <2>2. CASE page >= 1
    <3>1. page \in V!Slots(page, spread, V!Total)  BY <1>1, <2>1, <2>2 DEF V!Slots
    <3> QED BY <3>1
  <2>3. CASE page = 0
    <3>1. 1 \in V!Slots(page, spread, V!Total)  BY <1>1, <2>1, <2>3 DEF V!Slots
    <3> QED BY <3>1
  <2> QED BY <2>1, <2>2, <2>3
<1>2. ASSUME NEW a \in Albums, PageCount[a] > 0
      PROVE  start[a] \in 1 .. PageCount[a] /\ (start[a] - 1) % V!windowSize(a) = 0
  <2>1. PICK k \in Nat : start[a] = k * V!windowSize(a) + 1 /\ start[a] <= PageCount[a]
    BY <1>2 DEF PreviewInv, BeginsAWindow
  <2>2. V!windowSize(a) \in Nat /\ V!windowSize(a) > 0  BY <1>2, WindowSizes
  <2>3. (k * V!windowSize(a)) % V!windowSize(a) = 0  BY <2>2, Multiples
  <2>4. PICK m \in Nat : m = k * V!windowSize(a)  BY <2>2
  <2>5. start[a] = m + 1 /\ start[a] - 1 = m  BY <2>1, <2>4
  <2> QED BY <1>0, <1>2, <2>1, <2>3, <2>4, <2>5
<1> QED BY <1>1, <1>2 DEF V!PreviewShowsAPage

(* However answers, disposals, timeouts, turned pages, closed albums and
   saved covers interleave, every original the backend holds belongs to a
   mounted page, or a disposal of it, or an answer that leads to one, is on
   the way (ProgressiveDetailHero, ProgressivePagePreview). *)
THEOREM NoOriginalIsLost == V!Spec => []V!NoOriginalIsLeaked
<1>1. V!Init => ViewerInv
  <2> SUFFICES ASSUME V!Init
               PROVE  ViewerInv  OBVIOUS
  <2>1. /\ DOMAIN cover = Albums
        /\ \A a \in Albums : DOMAIN cover[a] = {"page", "saving", "error"} /\ cover[a].saving = None
    BY DEF V!Init, V!NoCover
  <2>2. viewers = {} /\ calls = {} /\ held = {} /\ views = 0  BY DEF V!Init
  <2> QED BY <2>1, <2>2 DEF ViewerInv, ViewerTypes, OneSave, Fresh, Ids, CallsApart,
                            V!NoOriginalIsLeaked
<1>2. ViewerInv /\ [V!Next]_V!vars => ViewerInv'
  <2> SUFFICES ASSUME ViewerInv, [V!Next]_V!vars
               PROVE  ViewerInv'  OBVIOUS
  <2>1. CASE V!Next  BY <2>1, OriginalsKeep, PagingKeeps, ComfortsKeep DEF V!Next
  <2>2. CASE UNCHANGED V!vars  BY <2>2, WireUntouched, CoverUntouched DEF V!vars
  <2> QED BY <2>1, <2>2
<1>3. ViewerInv => V!NoOriginalIsLeaked  BY DEF ViewerInv
<1> QED BY <1>1, <1>2, <1>3, PTL DEF V!Spec

(* Whatever mix of one page and two is turned through, in albums of any
   length and windows of any size, the enlarged view shows a page of its
   album and the window of previews begins at one of its places
   (nextPagePreviewAnchor, pagePreviewSlots, detailPreviewWindowClampStart). *)
THEOREM ThePreviewShowsAPage ==
  ASSUME AlbumsHavePages
  PROVE  V!Spec => []V!PreviewShowsAPage
<1>1. V!Init => PreviewInv
  <2> SUFFICES ASSUME V!Init
               PROVE  PreviewInv  OBVIOUS
  <2>1. shown = None /\ page = None /\ start = [a \in Albums |-> 1]  BY DEF V!Init
  <2>2. ASSUME NEW a \in Albums, PageCount[a] > 0
        PROVE  BeginsAWindow(start[a], a)
    <3>1. V!windowSize(a) \in Nat /\ PageCount[a] \in Nat  BY <2>2, WindowSizes
    <3>2. start[a] = 0 * V!windowSize(a) + 1 /\ start[a] <= PageCount[a]  BY <2>1, <2>2, <3>1
    <3> QED BY <3>2 DEF BeginsAWindow
  <2> QED BY <2>1, <2>2 DEF PreviewInv, Reads
<1>2. PreviewInv /\ [V!Next]_V!vars => PreviewInv'  BY PreviewKept
<1>3. PreviewInv => V!PreviewShowsAPage  BY PreviewShows
<1> QED BY <1>1, <1>2, <1>3, PTL DEF V!Spec

----
(* The search bar.  The answers to questions overtake each other, a search is
   removed while the list it is in is being read, and a favourite is toggled
   while it is being saved: a number, a marker and an intent tell what each
   answer still means. *)

(* Induction over the natural numbers, for a set. *)
LEMMA Induct ==
  ASSUME NEW S, 0 \in S, \A n \in Nat : n \in S => n + 1 \in S
  PROVE  \A n \in Nat : n \in S
<1>1. PICK R : R = OpToRel(<, Nat)  OBVIOUS
<1>2. IsWellFoundedOn(R, Nat) /\ \A x \in Nat : x >= 1 => <<x - 1, x>> \in R
  BY <1>1, NatLessThanWellFounded DEF OpToRel
<1>3. SUFFICES ASSUME Nat \ S # {} PROVE FALSE  OBVIOUS
<1>4. PICK x \in Nat \ S : \A y \in Nat \ S : ~(<<y, x>> \in R)  BY <1>2, <1>3, WFMin
<1>5. x \in Nat /\ x >= 1 /\ x - 1 \in Nat  BY <1>4
<1>6. x - 1 \in S  BY <1>2, <1>4, <1>5
<1> QED BY <1>4, <1>5, <1>6

(* What remains of a list. *)
LeftOf(s, ks) ==
  LET left[i \in 0 .. Len(s)] ==
        IF i = 0 THEN <<>> ELSE IF s[i] \notin ks THEN Append(left[i-1], s[i]) ELSE left[i-1]
  IN  left[Len(s)]

(* The recursion behind it has a solution, whatever the list. *)
FirstLeft(g, s, ks, m) ==
  g = [i \in 0 .. m |-> IF i = 0 THEN <<>> ELSE IF s[i] \notin ks THEN Append(g[i-1], s[i]) ELSE g[i-1]]

LEMMA FirstLeftExist ==
  ASSUME NEW s, NEW ks, NEW n \in Nat
  PROVE  \E g : FirstLeft(g, s, ks, n)
<1>1. PICK S : S = {m \in Nat : \E g : FirstLeft(g, s, ks, m)}  OBVIOUS
<1>2. 0 \in S
  <2>1. PICK g : g = [i \in 0 .. 0 |-> <<>>]  OBVIOUS
  <2>2. FirstLeft(g, s, ks, 0)  BY <2>1 DEF FirstLeft
  <2> QED BY <1>1, <2>2
<1>3. ASSUME NEW m \in Nat, m \in S
      PROVE  m + 1 \in S
  <2>1. PICK g : FirstLeft(g, s, ks, m)  BY <1>1, <1>3
  <2>2. PICK h : h = [i \in 0 .. m + 1 |-> IF i = m + 1 THEN IF s[i] \notin ks THEN Append(g[m], s[i]) ELSE g[m] ELSE g[i]]
    OBVIOUS
  <2>3. FirstLeft(h, s, ks, m + 1)
    <3>1. PICK k : k = [i \in 0 .. m + 1 |-> IF i = 0 THEN <<>> ELSE IF s[i] \notin ks THEN Append(h[i-1], s[i]) ELSE h[i-1]]
      OBVIOUS
    <3>2. ASSUME NEW i \in 0 .. m + 1
          PROVE  h[i] = k[i]
      <4>1. CASE i = m + 1  BY <4>1, <2>2, <3>1
      <4>2. CASE i \in 0 .. m
        <5>1. i = 0 \/ (i - 1 \in 0 .. m /\ h[i - 1] = g[i - 1])  BY <4>2, <2>2
        <5>2. h[i] = g[i]  BY <4>2, <2>2
        <5>3. g[i] = IF i = 0 THEN <<>> ELSE IF s[i] \notin ks THEN Append(g[i-1], s[i]) ELSE g[i-1]
          BY <4>2, <2>1 DEF FirstLeft
        <5>4. k[i] = IF i = 0 THEN <<>> ELSE IF s[i] \notin ks THEN Append(h[i-1], s[i]) ELSE h[i-1]  BY <3>1
        <5> QED BY <5>1, <5>2, <5>3, <5>4
      <4> QED BY <4>1, <4>2
    <3>3. h = k  BY <2>2, <3>1, <3>2
    <3> QED BY <3>1, <3>3 DEF FirstLeft
  <2> QED BY <1>1, <2>3
<1>4. n \in S  BY <1>2, <1>3, Induct
<1> QED BY <1>1, <1>4

(* A list in which nothing is twice. *)
Once(s) == \A i, j \in 1 .. Len(s) : s[i] = s[j] => i = j

(* What the first n places of a list leave, if none of ks may stay. *)
LeavesOf(g, s, ks, n, A) ==
  /\ g \in Seq(A) /\ (Once(s) => Once(g))
  /\ \A i \in 1 .. Len(g) : g[i] \notin ks /\ \E j \in 1 .. n : s[j] = g[i]

LEMMA LeftLeaves ==
  ASSUME NEW s, NEW ks, NEW A, s \in Seq(A)
  PROVE  LeavesOf(LeftOf(s, ks), s, ks, Len(s), A)
<1>1. PICK n \in Nat : n = Len(s)  OBVIOUS
<1>2. PICK f : f = (CHOOSE x : x = [i \in 0 .. Len(s) |->
                                     IF i = 0 THEN <<>> ELSE IF s[i] \notin ks THEN Append(x[i-1], s[i]) ELSE x[i-1]])
  OBVIOUS
<1>3. f = [i \in 0 .. Len(s) |-> IF i = 0 THEN <<>> ELSE IF s[i] \notin ks THEN Append(f[i-1], s[i]) ELSE f[i-1]]
  <2>1. \E x : x = [i \in 0 .. Len(s) |-> IF i = 0 THEN <<>> ELSE IF s[i] \notin ks THEN Append(x[i-1], s[i]) ELSE x[i-1]]
    <3>1. PICK x : FirstLeft(x, s, ks, n)  BY FirstLeftExist
    <3> QED BY <1>1, <3>1 DEF FirstLeft
  <2> QED BY <1>2, <2>1
<1>4. LeftOf(s, ks) = f[n]
  <2>1. LeftOf(s, ks) = (CHOOSE x : x = [i \in 0 .. Len(s) |->
                                     IF i = 0 THEN <<>> ELSE IF s[i] \notin ks THEN Append(x[i-1], s[i]) ELSE x[i-1]])[Len(s)]
    BY Zenon DEF LeftOf
  <2> QED BY <1>1, <1>2, <2>1
<1>5. PICK S : S = {m \in Nat : m <= n => LeavesOf(f[m], s, ks, m, A)}  OBVIOUS
<1>6. 0 \in S
  <2>1. f[0] = <<>>  BY <1>1, <1>3
  <2>2. f[0] \in Seq(A) /\ Len(f[0]) = 0  BY <2>1
  <2> QED BY <1>5, <2>2 DEF LeavesOf, Once
<1>7. ASSUME NEW m \in Nat, m \in S
      PROVE  m + 1 \in S
  <2> SUFFICES ASSUME m + 1 <= n
               PROVE  LeavesOf(f[m + 1], s, ks, m + 1, A)  BY <1>5
  <2>1. PICK g \in Seq(A) : g = f[m] /\ (Once(s) => Once(g)) /\ \A i \in 1 .. Len(g) : g[i] \notin ks /\ \E j \in 1 .. m : s[j] = g[i]
    <3>1. m <= n  OBVIOUS
    <3>2. LeavesOf(f[m], s, ks, m, A)  BY <1>5, <1>7, <3>1
    <3> QED BY <3>2 DEF LeavesOf
  <2>2. m + 1 \in 1 .. n /\ s[m + 1] \in A  BY <1>1
  <2>3. f[m + 1] = IF s[m + 1] \notin ks THEN Append(g, s[m + 1]) ELSE g
    <3>1. m + 1 \in 0 .. Len(s) /\ m + 1 # 0 /\ (m + 1) - 1 = m  BY <1>1, <2>2
    <3> QED BY <1>3, <2>1, <3>1
  <2>4. CASE s[m + 1] \in ks
    <3>1. \A j \in 1 .. m : j \in 1 .. m + 1  OBVIOUS
    <3> QED BY <2>1, <2>3, <2>4, <3>1 DEF LeavesOf
  <2>5. CASE s[m + 1] \notin ks
    <3>1. PICK h \in Seq(A) : h = f[m + 1] /\ h = Append(g, s[m + 1])
      <4>1. PICK h : h = Append(g, s[m + 1])  OBVIOUS
      <4>2. h \in Seq(A)  BY <2>1, <2>2, <4>1
      <4>3. h = f[m + 1]  BY <2>3, <2>5, <4>1
      <4> QED BY <4>1, <4>2, <4>3
    <3>2. Len(h) = Len(g) + 1 /\ h[Len(g) + 1] = s[m + 1] /\ \A i \in 1 .. Len(g) : h[i] = g[i]  BY <2>2, <3>1
    <3>3. \A i \in 1 .. Len(h) : i \in 1 .. Len(g) \/ i = Len(g) + 1  BY <3>2
    <3>4. ASSUME Once(s)
          PROVE  \A i \in 1 .. Len(g) : g[i] # s[m + 1]
      <4>1. \A j \in 1 .. m : j \in 1 .. Len(s) /\ m + 1 \in 1 .. Len(s) /\ j # m + 1  BY <1>1, <2>2
      <4>2. \A j \in 1 .. m : s[j] # s[m + 1]  BY <3>4, <4>1 DEF Once
      <4> QED BY <2>1, <4>2
    <3>5. ASSUME NEW i \in 1 .. Len(h)
          PROVE  h[i] \notin ks /\ \E j \in 1 .. m + 1 : s[j] = h[i]
      <4>1. \A j \in 1 .. m : j \in 1 .. m + 1  OBVIOUS
      <4>2. m + 1 \in 1 .. m + 1  OBVIOUS
      <4> QED BY <2>1, <2>5, <3>2, <3>3, <4>1, <4>2
    <3>6. ASSUME Once(s) PROVE Once(h)
      <4> SUFFICES ASSUME NEW i \in 1 .. Len(h), NEW j \in 1 .. Len(h), h[i] = h[j] PROVE i = j  BY DEF Once
      <4>1. Once(g) /\ \A k \in 1 .. Len(g) : g[k] # s[m + 1]  BY <2>1, <3>4, <3>6
      <4>2. CASE i \in 1 .. Len(g) /\ j \in 1 .. Len(g)  BY <3>2, <4>1, <4>2 DEF Once
      <4>3. CASE i = Len(g) + 1 \/ j = Len(g) + 1  BY <3>2, <3>3, <4>1, <4>3
      <4> QED BY <3>3, <4>2, <4>3
    <3> QED BY <3>1, <3>5, <3>6 DEF LeavesOf
  <2> QED BY <2>4, <2>5
<1>8. n \in S /\ n <= n  BY <1>6, <1>7, Induct
<1>9. LeavesOf(f[n], s, ks, n, A)  BY <1>5, <1>8
<1> QED BY <1>1, <1>4, <1>9

IsList(s) == \E T : s \in Seq(T)

(* Suggestions: every question has its number, and the last one its word. *)
TagsInv ==
  /\ DOMAIN tags = {"seq", "timer", "list", "last"} /\ tags.seq \in Nat
  /\ \A q \in questions : DOMAIN q = {"seq", "word"} /\ q.seq \in Nat /\ q.seq <= tags.seq
  /\ \A q \in questions : q.seq = tags.seq => q.word # None /\ tags.last = q.word
  /\ B!SuggestionsAnswerTheLast

(* A removal that has been carried out and not yet been heard of leaves what
   it removed in the lists read before. *)
Clean(list, out) == out \cap B!ToSet(list) = {}
ListOK(list, out, move) ==
  IF move # None /\ move.at = -2
  THEN move.all \/ out \cap B!ToSet(list) \subseteq {move.what}
  ELSE Clean(list, out)

PastInv ==
  /\ IsList(history) /\ Clean(history, gone)
  /\ DOMAIN past = {"list", "request"} /\ past.request \in Nat /\ IsList(past.list) /\ ListOK(past.list, gone, removal)
  /\ removal # None => DOMAIN removal = {"all", "what", "at"} /\ removal.at \in Nat \cup {-1, -2}
  /\ \A r \in reads :
       /\ DOMAIN r = {"request", "got"} /\ r.request \in Nat /\ r.request <= past.request
       /\ r.got = <<FALSE>> \/ \E h : r.got = <<TRUE, h>> /\ IsList(h)
       /\ r.request = past.request /\ Len(r.got) = 2 => ListOK(r.got[2], gone, removal)

(* What is being saved is a wish, and the last wish is known. *)
StarsInv ==
  /\ DOMAIN intent = Words /\ DOMAIN save = Words /\ DOMAIN wish = Words
  /\ \A w \in Words :
       \/ save[w] = None /\ intent[w] = None
       \/ /\ save[w] # None /\ DOMAIN save[w] = {"enabled", "at"} /\ save[w].enabled \in BOOLEAN
          /\ save[w].at \in {"sent", "ok", "failed"}
          /\ save[w].at = "ok" => (w \in saved) = save[w].enabled
          /\ intent[w] \in BOOLEAN /\ wish[w] = intent[w]
  /\ B!LastWishIsSaved

(* None is nothing that stands in its place. *)
NoneIsNothing ==
  /\ None \notin BOOLEAN
  /\ DOMAIN None # {"enabled", "at"} /\ DOMAIN None # {"all", "what", "at"}

BarInv == TagsInv /\ PastInv /\ StarsInv

(* Asking for suggestions. *)
LEMMA FieldKeeps ==
  ASSUME TagsInv, NEW b, B!Becomes(b)
  PROVE  TagsInv'
<1>1. questions' = questions  BY DEF B!Becomes
<1>2. \/ tags' = tags
      \/ \E t : tags' = [tags EXCEPT !.timer = t]
      \/ tags' = [tags EXCEPT !.timer = None, !.seq = @ + 1, !.list = <<>>, !.last = None]
  BY DEF B!Becomes, B!Asking
<1>3. CASE tags' = tags  BY <1>1, <1>3 DEF TagsInv, B!SuggestionsAnswerTheLast
<1>4. CASE \E t : tags' = [tags EXCEPT !.timer = t]
  <2>1. DOMAIN tags' = DOMAIN tags /\ tags'.seq = tags.seq /\ tags'.list = tags.list /\ tags'.last = tags.last
    BY <1>4 DEF TagsInv
  <2> QED BY <2>1, <1>1 DEF TagsInv, B!SuggestionsAnswerTheLast
<1>5. CASE tags' = [tags EXCEPT !.timer = None, !.seq = @ + 1, !.list = <<>>, !.last = None]
  <2>1. DOMAIN tags' = DOMAIN tags /\ tags'.seq = tags.seq + 1 /\ tags'.list = <<>>  BY <1>5 DEF TagsInv
  <2>2. tags.seq \in Nat /\ \A q \in questions : q.seq \in Nat /\ q.seq <= tags.seq  BY DEF TagsInv
  <2>3. \A q \in questions : q.seq <= tags'.seq /\ q.seq # tags'.seq  BY <2>1, <2>2
  <2> QED BY <2>1, <2>2, <2>3, <1>1 DEF TagsInv, B!SuggestionsAnswerTheLast
<1> QED BY <1>2, <1>3, <1>4, <1>5

LEMMA TimerKeeps ==
  ASSUME TagsInv, B!TimerFires
  PROVE  TagsInv'
<1>1. PICK w : w = tags.timer /\ w # None  BY DEF B!TimerFires
<1>2. PICK new : new = [seq |-> tags.seq + 1, word |-> w]  OBVIOUS
<1>3. questions' = questions \cup {new}  BY <1>1, <1>2 DEF B!TimerFires
<1>4. DOMAIN tags' = DOMAIN tags /\ tags'.seq = tags.seq + 1 /\ tags'.last = w  BY <1>1 DEF B!TimerFires, TagsInv
<1>5. tags.seq \in Nat /\ \A q \in questions : q.seq \in Nat /\ q.seq <= tags.seq  BY DEF TagsInv
<1>6. DOMAIN new = {"seq", "word"} /\ new.seq = tags.seq + 1 /\ new.word = w  BY <1>2
<1>7. \A q \in questions : q.seq <= tags'.seq /\ q.seq # tags'.seq  BY <1>4, <1>5
<1>8. \A q \in questions' : DOMAIN q = {"seq", "word"} /\ q.seq \in Nat /\ q.seq <= tags'.seq
  BY <1>3, <1>4, <1>5, <1>6, <1>7 DEF TagsInv
<1>9. \A q \in questions' : q.seq = tags'.seq => q.word # None /\ tags'.last = q.word  BY <1>1, <1>3, <1>4, <1>6, <1>7
<1>10. B!SuggestionsAnswerTheLast'  BY <1>3, <1>4, <1>6 DEF B!SuggestionsAnswerTheLast
<1> QED BY <1>4, <1>5, <1>8, <1>9, <1>10 DEF TagsInv

LEMMA AnswerKeeps ==
  ASSUME TagsInv, NEW q \in questions, B!TagsAnswered(q)
  PROVE  TagsInv'
<1>1. questions' = questions \ {q}  BY DEF B!TagsAnswered, B!Answered
<1>2. PICK list : list \in {Suggested[q.word], <<>>}
                  /\ tags' = IF q.seq = tags.seq THEN [tags EXCEPT !.list = list] ELSE tags
  BY DEF B!TagsAnswered, B!Answered
<1>3. CASE q.seq = tags.seq
  <2>1. DOMAIN tags' = DOMAIN tags /\ tags'.seq = tags.seq /\ tags'.list = list /\ tags'.last = tags.last
    BY <1>2, <1>3 DEF TagsInv
  <2>2. q.word # None /\ tags.last = q.word  BY <1>3 DEF TagsInv
  <2>3. list # <<>> => list = Suggested[tags.last]  BY <1>2, <2>2
  <2>4. B!SuggestionsAnswerTheLast'  BY <2>1, <2>2, <2>3 DEF B!SuggestionsAnswerTheLast
  <2> QED BY <1>1, <2>1, <2>4 DEF TagsInv
<1>4. CASE q.seq # tags.seq  BY <1>1, <1>2, <1>4 DEF TagsInv, B!SuggestionsAnswerTheLast
<1> QED BY <1>3, <1>4

(* A list without d has neither d nor anything new. *)
LEMMA WithoutDrops ==
  ASSUME NEW s, IsList(s), NEW d
  PROVE  /\ IsList(B!Without(s, {d}))
         /\ B!ToSet(B!Without(s, {d})) \subseteq B!ToSet(s) \ {d}
<1>1. PICK T : s \in Seq(T)  BY DEF IsList
<1>2. PICK r : r = B!Without(s, {d})  OBVIOUS
<1>3. r \in Seq(T) /\ \A i \in 1 .. Len(r) : r[i] # d /\ \E j \in 1 .. Len(s) : s[j] = r[i]
  <2>1. r = LeftOf(s, {d})  BY <1>2 DEF B!Without, LeftOf
  <2>2. LeavesOf(r, s, {d}, Len(s), T)  BY <1>1, <2>1, LeftLeaves
  <2> QED BY <2>2 DEF LeavesOf
<1>4. B!ToSet(r) \subseteq B!ToSet(s) \ {d}
  <2> SUFFICES ASSUME NEW x \in B!ToSet(r)
               PROVE  x \in B!ToSet(s) /\ x # d  OBVIOUS
  <2>1. PICK i \in 1 .. Len(r) : x = r[i]  BY <1>3 DEF B!ToSet
  <2>2. PICK j \in 1 .. Len(s) : s[j] = x  BY <1>3, <2>1
  <2>3. j \in DOMAIN s  BY <1>1
  <2> QED BY <1>3, <2>1, <2>2, <2>3 DEF B!ToSet
<1> QED BY <1>2, <1>3, <1>4 DEF IsList

(* A repeated search comes first. *)
LEMMA RepeatedIs ==
  ASSUME NEW s, IsList(s), NEW d
  PROVE  /\ IsList(<<d>> \o B!Without(s, {d}))
         /\ B!ToSet(<<d>> \o B!Without(s, {d})) \subseteq B!ToSet(s) \cup {d}
<1>1. PICK r : r = B!Without(s, {d})  OBVIOUS
<1>2. PICK T : r \in Seq(T)  BY <1>1, WithoutDrops DEF IsList
<1>3. PICK U : U = T \cup {d}  OBVIOUS
<1>4. r \in Seq(U) /\ <<d>> \in Seq(U)  BY <1>2, <1>3
<1>5. PICK l : l = <<d>> \o r  OBVIOUS
<1>6. l \in Seq(U) /\ Len(l) = Len(r) + 1 /\ l[1] = d /\ \A i \in 1 .. Len(r) : l[i + 1] = r[i]  BY <1>4, <1>5
<1>7. B!ToSet(l) \subseteq B!ToSet(r) \cup {d}
  <2> SUFFICES ASSUME NEW x \in B!ToSet(l)
               PROVE  x \in B!ToSet(r) \/ x = d  OBVIOUS
  <2>1. PICK i \in 1 .. Len(l) : x = l[i]  BY <1>6 DEF B!ToSet
  <2>2. Len(r) \in Nat  BY <1>4
  <2>3. CASE i = 1  BY <2>1, <2>3, <1>6
  <2>4. CASE i # 1
    <3>1. i - 1 \in 1 .. Len(r) /\ (i - 1) + 1 = i  BY <2>2, <2>4, <1>6
    <3>2. x = r[i - 1]  BY <3>1, <2>1, <1>6
    <3>3. i - 1 \in DOMAIN r  BY <3>1, <1>4
    <3> QED BY <3>2, <3>3 DEF B!ToSet
  <2> QED BY <2>3, <2>4
<1>8. B!ToSet(r) \subseteq B!ToSet(s)  BY <1>1, WithoutDrops
<1> QED BY <1>1, <1>5, <1>6, <1>7, <1>8 DEF IsList

LEMMA PastStays ==
  ASSUME PastInv, UNCHANGED <<history, past, reads, removal, gone>>
  PROVE  PastInv'  BY DEF PastInv, ListOK, Clean
(* A new reading outdates the ones before it. *)
LEMMA RereadKeeps ==
  ASSUME PastInv, UNCHANGED <<history, gone>>, NEW p, B!Reread(p),
         DOMAIN p = {"list", "request"}, p.request = past.request, IsList(p.list),
         NEW m, removal' = m, ListOK(p.list, gone, m),
         m # None => DOMAIN m = {"all", "what", "at"} /\ m.at \in Nat \cup {-1, -2}
  PROVE  PastInv'
<1>1. past.request \in Nat /\ \A r \in reads : r.request \in Nat /\ r.request <= past.request  BY DEF PastInv
<1>2. DOMAIN past' = {"list", "request"} /\ past'.request = past.request + 1 /\ past'.list = p.list  BY DEF B!Reread
<1>3. PICK new : new = [request |-> past.request + 1, got |-> <<FALSE>>]  OBVIOUS
<1>4. reads' = reads \cup {new}  BY <1>3 DEF B!Reread
<1>5. \A r \in reads : r.request <= past'.request /\ r.request # past'.request  BY <1>1, <1>2
<1>6. DOMAIN new = {"request", "got"} /\ new.request = past.request + 1 /\ new.got = <<FALSE>> /\ Len(new.got) = 1
  BY <1>3
<1>7. ASSUME NEW r \in reads'
      PROVE  /\ DOMAIN r = {"request", "got"} /\ r.request \in Nat /\ r.request <= past'.request
             /\ r.got = <<FALSE>> \/ \E h : r.got = <<TRUE, h>> /\ IsList(h)
             /\ ~(r.request = past'.request /\ Len(r.got) = 2)
  <2>1. CASE r \in reads
    <3>1. /\ DOMAIN r = {"request", "got"} /\ r.request \in Nat
          /\ r.got = <<FALSE>> \/ \E h : r.got = <<TRUE, h>> /\ IsList(h)  BY <2>1 DEF PastInv
    <3>2. r.request <= past'.request /\ r.request # past'.request  BY <2>1, <1>5
    <3> QED BY <3>1, <3>2
  <2>2. CASE r = new
    <3>1. 1 # 2 /\ past.request + 1 \in Nat /\ past.request + 1 <= past.request + 1  BY <1>1
    <3> QED BY <2>2, <1>2, <1>6, <3>1
  <2>3. r \in reads \/ r = new  BY <1>4
  <2> QED BY <2>1, <2>2, <2>3
<1>8. ListOK(past'.list, gone', removal')  BY <1>2
<1>9. IsList(history') /\ Clean(history', gone') /\ IsList(past'.list) /\ past'.request \in Nat
  BY <1>1, <1>2 DEF PastInv
<1>10. removal' # None => DOMAIN removal' = {"all", "what", "at"} /\ removal'.at \in Nat \cup {-1, -2}  OBVIOUS
<1>11. \A r \in reads' :
       /\ DOMAIN r = {"request", "got"} /\ r.request \in Nat /\ r.request <= past'.request
       /\ r.got = <<FALSE>> \/ \E h : r.got = <<TRUE, h>> /\ IsList(h)
       /\ r.request = past'.request /\ Len(r.got) = 2 => ListOK(r.got[2], gone', removal')  BY <1>7
<1> QED BY <1>2, <1>8, <1>9, <1>10, <1>11 DEF PastInv

LEMMA SearchKeeps ==
  ASSUME PastInv, NEW d, B!SearchServed(d) \/ B!SearchAnswered(d)
  PROVE  PastInv'
<1>1. CASE B!SearchServed(d)
  <2>1. /\ UNCHANGED <<past, reads, removal>> /\ gone' = gone \ {d.draft}
        /\ history' = <<d.draft>> \o B!Without(history, {d.draft})  BY <1>1 DEF B!SearchServed
  <2>2. IsList(history') /\ B!ToSet(history') \subseteq B!ToSet(history) \cup {d.draft}
    <3>1. PICK h, x : h = history /\ x = d.draft  OBVIOUS
    <3>2. IsList(h)  BY <3>1 DEF PastInv
    <3>3. IsList(<<x>> \o B!Without(h, {x})) /\ B!ToSet(<<x>> \o B!Without(h, {x})) \subseteq B!ToSet(h) \cup {x}
      BY <3>2, RepeatedIs
    <3> QED BY <2>1, <3>1, <3>3
  <2>3. Clean(history', gone')  BY <2>1, <2>2 DEF PastInv, Clean
  <2>4. \A l : ListOK(l, gone, removal) => ListOK(l, gone', removal')  BY <2>1 DEF ListOK, Clean
  <2> QED BY <2>1, <2>2, <2>3, <2>4 DEF PastInv
<1>2. CASE B!SearchAnswered(d)
  <2>1. UNCHANGED <<history, gone, removal>> /\ B!Reread(past)  BY <1>2 DEF B!SearchAnswered
  <2>2. PICK p, m : p = past /\ m = removal  OBVIOUS
  <2>3. /\ DOMAIN p = {"list", "request"} /\ p.request = past.request /\ IsList(p.list) /\ ListOK(p.list, gone, m)
        /\ m # None => DOMAIN m = {"all", "what", "at"} /\ m.at \in Nat \cup {-1, -2}  BY <2>2 DEF PastInv
  <2>4. B!Reread(p) /\ removal' = m  BY <2>1, <2>2
  <2> QED BY <2>1, <2>3, <2>4, RereadKeeps
<1> QED BY <1>1, <1>2

LEMMA ReadingKeeps ==
  ASSUME PastInv, NEW r \in reads, B!HistoryServed(r) \/ B!HistoryAnswered(r)
  PROVE  PastInv'
<1>1. CASE B!HistoryServed(r)
  <2>1. PICK new : new = [r EXCEPT !.got = <<TRUE, history>>]  OBVIOUS
  <2>2. UNCHANGED <<history, past, removal, gone>> /\ reads' = (reads \ {r}) \cup {new}
    BY <1>1, <2>1 DEF B!HistoryServed
  <2>3. DOMAIN new = DOMAIN r /\ new.request = r.request /\ new.got = <<TRUE, history>> /\ new.got[2] = history
    BY <2>1 DEF PastInv
  <2>4. ListOK(history, gone, removal)  BY DEF PastInv, ListOK, Clean
  <2>5. \A q \in reads' :
         /\ DOMAIN q = {"request", "got"} /\ q.request \in Nat /\ q.request <= past.request
         /\ q.got = <<FALSE>> \/ \E h : q.got = <<TRUE, h>> /\ IsList(h)
         /\ q.request = past.request /\ Len(q.got) = 2 => ListOK(q.got[2], gone, removal)
    BY <2>2, <2>3, <2>4 DEF PastInv
  <2> QED BY <2>2, <2>5 DEF PastInv
<1>2. CASE B!HistoryAnswered(r)
  <2>1. /\ Len(r.got) = 2 /\ UNCHANGED <<history, gone>> /\ reads' \subseteq reads
        /\ past' = past \/ (r.request = past.request /\ past' = [past EXCEPT !.list = r.got[2]])
        /\ removal' = IF removal # None /\ removal.at = r.request THEN None ELSE removal
    BY <1>2 DEF B!HistoryAnswered
  <2>2. r.request \in Nat /\ \E h : r.got = <<TRUE, h>> /\ IsList(h)
    <3>1. r.request \in Nat /\ (r.got = <<FALSE>> \/ \E h : r.got = <<TRUE, h>> /\ IsList(h))  BY DEF PastInv
    <3>2. Len(<<FALSE>>) = 1 /\ 1 # 2  OBVIOUS
    <3> QED BY <2>1, <3>1, <3>2
  <2>3. \A l : ListOK(l, gone, removal) => ListOK(l, gone', removal')  BY <2>1, <2>2 DEF ListOK
  <2>4. DOMAIN past' = {"list", "request"} /\ past'.request = past.request /\ IsList(past'.list)
        /\ ListOK(past'.list, gone, removal)
    <3>1. CASE past' = past  BY <3>1 DEF PastInv
    <3>2. CASE r.request = past.request /\ past' = [past EXCEPT !.list = r.got[2]]
      <4>1. PICK h : r.got = <<TRUE, h>> /\ IsList(h)  BY <2>2
      <4>2. ListOK(r.got[2], gone, removal)  BY <2>1, <3>2 DEF PastInv
      <4>3. r.got[2] = h  BY <4>1
      <4>4. DOMAIN past' = DOMAIN past /\ past'.request = past.request /\ past'.list = h  BY <3>2, <4>3 DEF PastInv
      <4> QED BY <4>1, <4>2, <4>3, <4>4 DEF PastInv
    <3> QED BY <2>1, <3>1, <3>2
  <2> QED BY <2>1, <2>3, <2>4 DEF PastInv
<1> QED BY <1>1, <1>2

LEMMA RemovalKeeps ==
  ASSUME PastInv, NoneIsNothing,
         (\E all \in BOOLEAN : \E d : B!RemoveHistory(all, d)) \/ B!RemoveServed \/ B!RemoveAnswered \/ B!RemoveFails
  PROVE  PastInv'
<1>1. ASSUME NEW all \in BOOLEAN, NEW d, B!RemoveHistory(all, d)
      PROVE  PastInv'
  <2>1. /\ removal = None /\ UNCHANGED <<history, reads, gone>>
        /\ removal' = [all |-> all, what |-> d, at |-> -1] /\ past' = [past EXCEPT !.request = @ + 1]
    BY <1>1 DEF B!RemoveHistory
  <2>2. DOMAIN removal' = {"all", "what", "at"} /\ removal'.at = -1 /\ -1 # -2  BY <2>1
  <2>3. DOMAIN past' = {"list", "request"} /\ past'.list = past.list /\ past'.request = past.request + 1
        /\ past.request \in Nat  BY <2>1 DEF PastInv
  <2>4. ListOK(past.list, gone', removal')  BY <2>1, <2>2 DEF PastInv, ListOK
  <2>5. \A r \in reads :
          /\ DOMAIN r = {"request", "got"} /\ r.request \in Nat /\ r.request <= past.request
          /\ r.got = <<FALSE>> \/ \E h : r.got = <<TRUE, h>> /\ IsList(h)  BY DEF PastInv
  <2>6. \A r \in reads : r.request <= past'.request /\ r.request # past'.request
    <3>1. PICK n \in Nat : n = past.request /\ past'.request = n + 1  BY <2>3
    <3>2. \A r \in reads : r.request \in Nat /\ r.request <= n  BY <2>5, <3>1
    <3>3. \A m \in Nat : m <= n => m <= n + 1 /\ m # n + 1  BY <3>1
    <3> QED BY <3>1, <3>2, <3>3
  <2>7. \A r \in reads :
          /\ DOMAIN r = {"request", "got"} /\ r.request \in Nat /\ r.request <= past'.request
          /\ r.got = <<FALSE>> \/ \E h : r.got = <<TRUE, h>> /\ IsList(h)
          /\ r.request = past'.request /\ Len(r.got) = 2 => ListOK(r.got[2], gone', removal')  BY <2>5, <2>6
  <2>8. /\ IsList(history') /\ Clean(history', gone') /\ IsList(past'.list) /\ past'.request \in Nat
        /\ ListOK(past'.list, gone', removal')  BY <2>1, <2>3, <2>4 DEF PastInv
  <2> QED BY <2>1, <2>2, <2>3, <2>7, <2>8 DEF PastInv
<1>2. CASE B!RemoveServed
  <2>1. /\ removal # None /\ removal.at = -1 /\ UNCHANGED <<past, reads>> /\ removal' = [removal EXCEPT !.at = -2]
        /\ history' = IF removal.all THEN <<>> ELSE B!Without(history, {removal.what})
        /\ gone' = gone \cup IF removal.all THEN B!ToSet(history) ELSE {removal.what}
    BY <1>2 DEF B!RemoveServed
  <2>2. DOMAIN removal' = {"all", "what", "at"} /\ removal'.at = -2 /\ removal'.all = removal.all
        /\ removal'.what = removal.what  BY <2>1 DEF PastInv
  <2>3. IsList(history') /\ Clean(history', gone')
    <3>1. CASE removal.all
      <4>1. history' = <<>> /\ <<>> \in Seq({}) /\ B!ToSet(<<>>) = {}  BY <2>1, <3>1 DEF B!ToSet
      <4> QED BY <4>1 DEF IsList, Clean
    <3>2. CASE ~removal.all
      <4>1. PICK h, x : h = history /\ x = removal.what  OBVIOUS
      <4>2. IsList(h) /\ Clean(h, gone)  BY <4>1 DEF PastInv
      <4>3. IsList(B!Without(h, {x})) /\ B!ToSet(B!Without(h, {x})) \subseteq B!ToSet(h) \ {x}  BY <4>2, WithoutDrops
      <4>4. history' = B!Without(h, {x}) /\ gone' = gone \cup {x}  BY <2>1, <3>2, <4>1
      <4> QED BY <4>2, <4>3, <4>4 DEF Clean
    <3> QED BY <3>1, <3>2
  <2>4. \A l : ListOK(l, gone, removal) => ListOK(l, gone', removal')  BY <2>1, <2>2 DEF ListOK, Clean, NoneIsNothing
  <2> QED BY <2>1, <2>2, <2>3, <2>4 DEF PastInv
<1>3. CASE B!RemoveAnswered
  <2>1. /\ removal # None /\ removal.at = -2 /\ UNCHANGED <<history, gone>> /\ B!Reread(B!Shortened)
        /\ removal' = [removal EXCEPT !.at = past'.request]  BY <1>3 DEF B!RemoveAnswered
  <2>2. PICK p, m : p = B!Shortened /\ m = [removal EXCEPT !.at = past.request + 1]  OBVIOUS
  <2>3. DOMAIN p = {"list", "request"} /\ p.request = past.request /\ past.request \in Nat
        /\ p.list = IF removal.all THEN <<>> ELSE B!Without(past.list, {removal.what})
    BY <2>2 DEF B!Shortened, PastInv
  <2>4. B!Reread(p)  BY <2>1, <2>2
  <2>5. past'.request = past.request + 1  BY <2>3, <2>4 DEF B!Reread
  <2>6. removal' = m /\ DOMAIN m = {"all", "what", "at"} /\ m.at = past.request + 1 /\ m.at \in Nat
    BY <2>1, <2>2, <2>3, <2>5 DEF PastInv
  <2>7. IsList(p.list) /\ Clean(p.list, gone)
    <3>1. CASE removal.all
      <4>1. p.list = <<>> /\ <<>> \in Seq({}) /\ B!ToSet(<<>>) = {}  BY <2>3, <3>1 DEF B!ToSet
      <4> QED BY <4>1 DEF IsList, Clean
    <3>2. CASE ~removal.all
      <4>1. PICK h, x : h = past.list /\ x = removal.what  OBVIOUS
      <4>2. IsList(h) /\ gone \cap B!ToSet(h) \subseteq {x}  BY <2>1, <3>2, <4>1 DEF PastInv, ListOK
      <4>3. IsList(B!Without(h, {x})) /\ B!ToSet(B!Without(h, {x})) \subseteq B!ToSet(h) \ {x}  BY <4>2, WithoutDrops
      <4>4. p.list = B!Without(h, {x})  BY <2>3, <3>2, <4>1
      <4> QED BY <4>2, <4>3, <4>4 DEF Clean
    <3> QED BY <3>1, <3>2
  <2>8. ListOK(p.list, gone, m)
    <3>1. m.at # -2  BY <2>6
    <3> QED BY <2>7, <3>1 DEF ListOK
  <2> QED BY <2>1, <2>3, <2>4, <2>6, <2>7, <2>8, RereadKeeps
<1>4. CASE B!RemoveFails
  <2>1. /\ removal # None /\ removal.at = -1 /\ removal' = None /\ UNCHANGED <<history, past, reads, gone>> /\ -1 # -2
    BY <1>4 DEF B!RemoveFails
  <2>2. \A l : ListOK(l, gone, removal) => ListOK(l, gone', removal')  BY <2>1 DEF ListOK
  <2> QED BY <2>1, <2>2 DEF PastInv
<1> QED BY <1>1, <1>2, <1>3, <1>4
(* Wishes and what is saved of them. *)
StarOK(w) ==
  \/ save[w] = None /\ intent[w] = None
  \/ /\ save[w] # None /\ DOMAIN save[w] = {"enabled", "at"} /\ save[w].enabled \in BOOLEAN
     /\ save[w].at \in {"sent", "ok", "failed"}
     /\ save[w].at = "ok" => (w \in saved) = save[w].enabled
     /\ intent[w] \in BOOLEAN /\ wish[w] = intent[w]
Done(w) == save[w] = None /\ wish[w] # None => (w \in saved) = wish[w]

LEMMA ByWord ==
  StarsInv <=> /\ DOMAIN intent = Words /\ DOMAIN save = Words /\ DOMAIN wish = Words
               /\ \A w \in Words : StarOK(w) /\ Done(w)  BY DEF StarsInv, StarOK, Done, B!LastWishIsSaved

LEMMA ToggleKeeps ==
  ASSUME StarsInv, NoneIsNothing, NEW w \in Words, NEW tutorial \in BOOLEAN, B!ToggleFavorite(w, tutorial)
  PROVE  StarsInv'
<1>1. PICK want : /\ want = (tutorial \/ ~(IF intent[w] # None THEN intent[w] ELSE w \in stars))
                  /\ intent' = [intent EXCEPT ![w] = want] /\ wish' = [wish EXCEPT ![w] = want]
                  /\ save' = IF save[w] # None THEN save ELSE [save EXCEPT ![w] = [enabled |-> want, at |-> "sent"]]
                  /\ UNCHANGED <<saved, stars>>  BY DEF B!ToggleFavorite
<1>2. want \in BOOLEAN  BY <1>1
<1>3. DOMAIN intent = Words /\ DOMAIN save = Words /\ DOMAIN wish = Words /\ \A v \in Words : StarOK(v) /\ Done(v)
  BY ByWord
<1>4. /\ DOMAIN intent' = Words /\ DOMAIN save' = Words /\ DOMAIN wish' = Words
      /\ intent'[w] = want /\ wish'[w] = want
      /\ \A v \in Words \ {w} : intent'[v] = intent[v] /\ wish'[v] = wish[v] /\ save'[v] = save[v]
  BY <1>1, <1>3
<1>5. PICK new : new = [enabled |-> want, at |-> "sent"]  OBVIOUS
<1>6. DOMAIN new = {"enabled", "at"} /\ new.enabled = want /\ new.at = "sent"  BY <1>5
<1>7. save'[w] = IF save[w] # None THEN save[w] ELSE new  BY <1>1, <1>3, <1>5
<1>8. new # None  BY <1>6 DEF NoneIsNothing
<1>9. StarOK(w)' /\ Done(w)'
  <2>1. CASE save[w] # None  BY <2>1, <1>1, <1>2, <1>3, <1>4, <1>7 DEF StarOK, Done
  <2>2. CASE save[w] = None  BY <2>2, <1>2, <1>4, <1>6, <1>7, <1>8 DEF StarOK, Done
  <2> QED BY <2>1, <2>2
<1>10. \A v \in Words \ {w} : StarOK(v)' /\ Done(v)'  BY <1>1, <1>3, <1>4 DEF StarOK, Done
<1>11. \A v \in Words : StarOK(v)' /\ Done(v)'  BY <1>9, <1>10
<1> QED BY <1>4, <1>11, ByWord DEF StarsInv, StarOK, Done, B!LastWishIsSaved

LEMMA ServedKeeps ==
  ASSUME StarsInv, NoneIsNothing, NEW w \in Words, B!SaveServed(w)
  PROVE  StarsInv'
<1>1. DOMAIN intent = Words /\ DOMAIN save = Words /\ DOMAIN wish = Words /\ \A v \in Words : StarOK(v) /\ Done(v)
  BY ByWord
<1>2. save[w] # None /\ save[w].at = "sent" /\ UNCHANGED <<intent, wish>>  BY DEF B!SaveServed
<1>3. /\ DOMAIN save[w] = {"enabled", "at"} /\ save[w].enabled \in BOOLEAN /\ intent[w] \in BOOLEAN
      /\ wish[w] = intent[w]  BY <1>1, <1>2 DEF StarOK
<1>4. PICK to \in {"ok", "failed"} : /\ save' = [save EXCEPT ![w].at = to]
                                     /\ to = "ok" => saved' = IF save[w].enabled THEN saved \cup {w} ELSE saved \ {w}
                                     /\ to = "failed" => saved' = saved  BY DEF B!SaveServed
<1>5. PICK new : new = [save[w] EXCEPT !.at = to]  OBVIOUS
<1>6. DOMAIN new = {"enabled", "at"} /\ new.enabled = save[w].enabled /\ new.at = to  BY <1>3, <1>5
<1>7. DOMAIN save' = Words /\ save'[w] = new /\ \A v \in Words \ {w} : save'[v] = save[v]  BY <1>1, <1>4, <1>5
<1>8. new # None  BY <1>6 DEF NoneIsNothing
<1>9. to = "ok" => (w \in saved') = save[w].enabled  BY <1>3, <1>4
<1>10. StarOK(w)' /\ Done(w)'  BY <1>2, <1>3, <1>6, <1>7, <1>8, <1>9 DEF StarOK, Done
<1>11. \A v \in Words \ {w} : (v \in saved') = (v \in saved)  BY <1>4
<1>12. \A v \in Words \ {w} : StarOK(v)' /\ Done(v)'  BY <1>1, <1>2, <1>7, <1>11 DEF StarOK, Done
<1>13. \A v \in Words : StarOK(v)' /\ Done(v)'  BY <1>10, <1>12
<1> QED BY <1>1, <1>2, <1>7, <1>13 DEF StarsInv, StarOK, Done, B!LastWishIsSaved

LEMMA SavedKeeps ==
  ASSUME StarsInv, NoneIsNothing, NEW w \in Words, B!SaveAnswered(w)
  PROVE  StarsInv'
<1>1. DOMAIN intent = Words /\ DOMAIN save = Words /\ DOMAIN wish = Words /\ \A v \in Words : StarOK(v) /\ Done(v)
  BY ByWord
<1>2. save[w] # None /\ save[w].at # "sent" /\ saved' = saved  BY DEF B!SaveAnswered
<1>3. /\ save[w].enabled \in BOOLEAN /\ intent[w] \in BOOLEAN /\ wish[w] = intent[w]
      /\ save[w].at \in {"ok", "failed"}
      /\ save[w].at = "ok" => (w \in saved) = save[w].enabled  BY <1>1, <1>2 DEF StarOK
<1>4. wish' = IF save[w].at = "failed" THEN [wish EXCEPT ![w] = None] ELSE wish  BY DEF B!SaveAnswered
<1>5. CASE save[w].at = "ok" /\ intent[w] # save[w].enabled
  <2>1. PICK new : new = [enabled |-> intent[w], at |-> "sent"]  OBVIOUS
  <2>2. DOMAIN new = {"enabled", "at"} /\ new.enabled = intent[w] /\ new.at = "sent"  BY <2>1
  <2>3. save' = [save EXCEPT ![w] = new] /\ intent' = intent /\ wish' = wish  BY <1>4, <1>5, <2>1 DEF B!SaveAnswered
  <2>4. DOMAIN save' = Words /\ save'[w] = new /\ \A v \in Words \ {w} : save'[v] = save[v]  BY <1>1, <2>3
  <2>5. new # None  BY <2>2 DEF NoneIsNothing
  <2>6. StarOK(w)' /\ Done(w)'  BY <1>3, <2>2, <2>3, <2>4, <2>5 DEF StarOK, Done
  <2>7. \A v \in Words \ {w} : StarOK(v)' /\ Done(v)'  BY <1>1, <1>2, <2>3, <2>4 DEF StarOK, Done
  <2>8. \A v \in Words : StarOK(v)' /\ Done(v)'  BY <2>6, <2>7
  <2> QED BY <1>1, <2>3, <2>4, <2>8 DEF StarsInv, StarOK, Done, B!LastWishIsSaved
<1>6. CASE ~(save[w].at = "ok" /\ intent[w] # save[w].enabled)
  <2>1. save' = [save EXCEPT ![w] = None] /\ intent' = [intent EXCEPT ![w] = None]  BY <1>6 DEF B!SaveAnswered
  <2>2. /\ DOMAIN save' = Words /\ DOMAIN intent' = Words /\ DOMAIN wish' = Words
        /\ save'[w] = None /\ intent'[w] = None /\ wish'[w] = IF save[w].at = "failed" THEN None ELSE wish[w]
        /\ \A v \in Words \ {w} : save'[v] = save[v] /\ intent'[v] = intent[v] /\ wish'[v] = wish[v]
    BY <1>1, <1>4, <2>1
  <2>3. StarOK(w)' /\ Done(w)'  BY <1>2, <1>3, <1>6, <2>2 DEF StarOK, Done
  <2>4. \A v \in Words \ {w} : StarOK(v)' /\ Done(v)'  BY <1>1, <1>2, <2>2 DEF StarOK, Done
  <2>5. \A v \in Words : StarOK(v)' /\ Done(v)'  BY <2>3, <2>4
  <2> QED BY <2>2, <2>5 DEF StarsInv, StarOK, Done, B!LastWishIsSaved
<1> QED BY <1>5, <1>6

LEMMA StarsStay ==
  ASSUME StarsInv, UNCHANGED <<saved, intent, save, wish>>
  PROVE  StarsInv'  BY DEF StarsInv, B!LastWishIsSaved

LEMMA TagsStay ==
  ASSUME TagsInv, UNCHANGED <<tags, questions>>
  PROVE  TagsInv'  BY DEF TagsInv, B!SuggestionsAnswerTheLast

LEMMA BarStarts ==
  ASSUME B!Init, NoneIsNothing
  PROVE  BarInv
<1>1. TagsInv  BY DEF B!Init, TagsInv, B!SuggestionsAnswerTheLast
<1>2. PastInv
  <2>1. <<>> \in Seq({}) /\ B!ToSet(<<>>) = {}  BY DEF B!ToSet
  <2> QED BY <2>1 DEF B!Init, PastInv, ListOK, Clean, IsList
<1>3. StarsInv  BY DEF B!Init, StarsInv, B!LastWishIsSaved
<1> QED BY <1>1, <1>2, <1>3 DEF BarInv

LEMMA BarKeeps ==
  ASSUME BarInv, [B!Next]_(B!vars), NoneIsNothing
  PROVE  BarInv'
<1>1. TagsInv /\ PastInv /\ StarsInv  BY DEF BarInv
<1> USE DEF B!typeVars, B!pastVars, B!starVars
<1>2. ASSUME UNCHANGED B!vars
      PROVE  BarInv'  BY <1>1, <1>2, TagsStay, PastStays, StarsStay DEF BarInv, B!vars
<1>3. ASSUME B!Typing
      PROVE  BarInv'
  <2>1. CASE \E b : B!Becomes(b) /\ UNCHANGED B!pastVars
    <3>1. UNCHANGED B!pastVars /\ UNCHANGED B!starVars  BY <2>1 DEF B!Becomes
    <3>2. TagsInv'  BY <1>1, <2>1, FieldKeeps
    <3> QED BY <1>1, <3>1, <3>2, PastStays, StarsStay DEF BarInv
  <2>2. CASE B!TimerFires
    <3>1. UNCHANGED B!pastVars /\ UNCHANGED B!starVars  BY <2>2 DEF B!TimerFires
    <3> QED BY <1>1, <2>2, <3>1, TimerKeeps, PastStays, StarsStay DEF BarInv
  <2>3. CASE \E q \in questions : B!TagsAnswered(q)
    <3>1. PICK q \in questions : B!TagsAnswered(q)  BY <2>3
    <3>2. UNCHANGED B!pastVars /\ UNCHANGED B!starVars  BY <3>1 DEF B!TagsAnswered, B!Answered
    <3>3. TagsInv'  BY <1>1, <3>1, AnswerKeeps
    <3> QED BY <1>1, <3>2, <3>3, PastStays, StarsStay DEF BarInv
  <2>4. CASE \E d \in B!Drafts : B!Type(d)  BY <2>1, <2>4 DEF B!Type
  <2>5. CASE \E c \in 1..2 : B!Caret(c)  BY <2>1, <2>5 DEF B!Caret
  <2>6. CASE \E down \in BOOLEAN : B!Arrow(down)  BY <2>1, <2>6 DEF B!Arrow
  <2>7. CASE \E l \in Languages : B!ToggleLanguage(l)  BY <2>1, <2>7 DEF B!ToggleLanguage
  <2>8. CASE B!Focus \/ B!CloseTransient \/ B!Compose \/ B!Complete
    BY <2>1, <2>8 DEF B!Focus, B!CloseTransient, B!Compose, B!Complete
  <2> QED BY <1>3, <2>2, <2>3, <2>4, <2>5, <2>6, <2>7, <2>8 DEF B!Typing
<1>4. ASSUME B!Searching
      PROVE  BarInv'
  <2>1. ASSUME \E d, background : B!Submitted(d, background)
        PROVE  BarInv'
    <3>1. PICK b : B!Becomes(b) /\ UNCHANGED <<history, past, reads, removal, gone>>  BY <2>1 DEF B!Submitted
    <3>2. UNCHANGED B!starVars  BY <3>1 DEF B!Becomes
    <3> QED BY <1>1, <3>1, <3>2, FieldKeeps, PastStays, StarsStay DEF BarInv
  <2>2. CASE \E i \in 1..2, background \in BOOLEAN : B!Choose(i, background)  BY <2>1, <2>2 DEF B!Choose
  <2>3. CASE B!Submit  BY <2>1, <2>3 DEF B!Submit
  <2>4. ASSUME NEW s \in searches, B!SearchServed(s) \/ B!SearchAnswered(s)
        PROVE  BarInv'
    <3>1. UNCHANGED <<tags, questions>> /\ UNCHANGED B!starVars  BY <2>4 DEF B!SearchServed, B!SearchAnswered
    <3>2. PastInv'  BY <1>1, <2>4, SearchKeeps
    <3> QED BY <1>1, <3>1, <3>2, TagsStay, StarsStay DEF BarInv
  <2>5. ASSUME NEW r \in reads, B!HistoryServed(r) \/ B!HistoryAnswered(r)
        PROVE  BarInv'
    <3>1. UNCHANGED <<tags, questions>> /\ UNCHANGED B!starVars  BY <2>5 DEF B!HistoryServed, B!HistoryAnswered
    <3>2. PastInv'  BY <1>1, <2>5, ReadingKeeps
    <3> QED BY <1>1, <3>1, <3>2, TagsStay, StarsStay DEF BarInv
  <2>6. ASSUME NEW all \in BOOLEAN, NEW d \in B!Drafts, B!RemoveHistory(all, d)
        PROVE  BarInv'
    <3>1. PICK b : B!Becomes(b)  BY <2>6 DEF B!RemoveHistory
    <3>2. UNCHANGED B!starVars  BY <3>1 DEF B!Becomes
    <3>3. PastInv'  BY <1>1, <2>6, RemovalKeeps
    <3> QED BY <1>1, <3>1, <3>2, <3>3, FieldKeeps, StarsStay DEF BarInv
  <2>7. CASE B!RemoveServed \/ B!RemoveAnswered \/ B!RemoveFails
    <3>1. UNCHANGED <<tags, questions>> /\ UNCHANGED B!starVars
      BY <2>7 DEF B!RemoveServed, B!RemoveAnswered, B!RemoveFails
    <3>2. PastInv'  BY <1>1, <2>7, RemovalKeeps
    <3> QED BY <1>1, <3>1, <3>2, TagsStay, StarsStay DEF BarInv
  <2> QED BY <1>4, <2>2, <2>3, <2>4, <2>5, <2>6, <2>7 DEF B!Searching
<1>5. ASSUME B!Starring
      PROVE  BarInv'
  <2>1. UNCHANGED <<tags, questions>> /\ UNCHANGED B!pastVars
    BY <1>5 DEF B!Starring, B!SaveServed, B!SaveAnswered, B!ToggleFavorite, B!FavoritesServed, B!FavoritesAnswered
  <2>2. StarsInv'
    <3>1. CASE B!FavoritesServed \/ B!FavoritesAnswered
      BY <1>1, <3>1, StarsStay DEF B!FavoritesServed, B!FavoritesAnswered
    <3>2. ASSUME NEW w \in Words, B!SaveServed(w)
          PROVE  StarsInv'  BY <1>1, <3>2, ServedKeeps
    <3>3. ASSUME NEW w \in Words, B!SaveAnswered(w)
          PROVE  StarsInv'  BY <1>1, <3>3, SavedKeeps
    <3>4. ASSUME NEW w \in Words, NEW tutorial \in BOOLEAN, B!ToggleFavorite(w, tutorial)
          PROVE  StarsInv'  BY <1>1, <3>4, ToggleKeeps
    <3> QED BY <1>5, <3>1, <3>2, <3>3, <3>4 DEF B!Starring
  <2> QED BY <1>1, <2>1, <2>2, TagsStay, PastStays DEF BarInv
<1> QED BY <1>2, <1>3, <1>4, <1>5 DEF B!Next

(* The search bar never shows the answer to an earlier question, a search
   removed from the history or, once nothing is being saved, a favourite the
   user did not wish for last. *)
THEOREM TheBarIsTrue ==
  ASSUME NoneIsNothing
  PROVE  B!Spec => [](B!SuggestionsAnswerTheLast /\ B!RemovedStaysGone /\ B!LastWishIsSaved)
<1>1. BarInv => B!SuggestionsAnswerTheLast /\ B!RemovedStaysGone /\ B!LastWishIsSaved
  BY DEF BarInv, TagsInv, PastInv, ListOK, Clean, StarsInv, B!RemovedStaysGone
<1>2. B!Init => BarInv  BY BarStarts
<1>3. BarInv /\ [B!Next]_(B!vars) => BarInv'  BY BarKeeps
<1> QED BY <1>1, <1>2, <1>3, PTL DEF B!Spec

----
(* Images on screen (Thumbnails).  An entry waits for one request or shows
   its image; a request brings nothing older than the change it was made
   after, and the client asks again whenever it is told of a change.  So the
   invariant follows each request from the change it is fenced by to the URL
   it makes, and each URL back to the one entry that shows it. *)

CONSTANTS Keys, Consumers, Kind, Cost, Capacity, RetainBudget, PinCapacity, PinBudget, Concurrency,
          MaxRequests, MaxChanges

VARIABLES entry, pending, owner, urls, data, fence, retained, pins, visited, bytes, warm, active

T == INSTANCE Thumbnails


EntryTypes == [on : BOOLEAN, subs : SUBSET (Consumers \cup {"card", "page", "pin", "warm"}),
               current : Nat, status : {"idle", "loading", "resolved", "error"}, retryable : BOOLEAN,
               hurried : BOOLEAN, failures : Nat, orphan : BOOLEAN, retry : BOOLEAN]
RequestTypes == [key : Keys, stage : {"asked", "wait", "read", "then", "reject", "done"},
                 cancelled : BOOLEAN, early : BOOLEAN, since : Nat, image : Nat,
                 failure : {"none", "retryable", "final"}]

ImageTypes == /\ entry \in [Keys -> EntryTypes] /\ pending \in Seq(RequestTypes)
              /\ data \in [Keys -> Nat] /\ fence \in [Keys -> Nat] /\ retained \in Seq(Keys)
              /\ warm \in [Keys -> {"out", "queued", "loading", "settled"}]

Busy == {"asked", "wait", "read"}

(* What a request brings is no older than change n. *)
Newer(r, n) == /\ r.stage \in Busy => r.since >= n
               /\ r.stage = "then" => r.image >= n

Shows(k, p) == entry[k].on /\ entry[k].status = "resolved" /\ entry[k].current = p

EntriesOK ==
  \A k \in Keys :
     /\ ~entry[k].on => entry[k].status = "idle"
     /\ entry[k].on => /\ entry[k].current \in 1 .. Len(pending)
                       /\ pending[entry[k].current].key = k
                       /\ Newer(pending[entry[k].current], fence[k])
     /\ entry[k].on /\ entry[k].status = "resolved"
        => /\ entry[k].current \in urls
           /\ pending[entry[k].current].stage = "done"
           /\ pending[entry[k].current].image >= fence[k]

RequestsOK ==
  \A p \in 1 .. Len(pending) :
     /\ pending[p].stage = "read" \/ (pending[p].stage = "asked" /\ pending[p].early)
        => pending[p].image >= pending[p].since
     /\ pending[p].stage = "then" => p \in urls

UrlsOK == \A p \in urls : /\ p \in 1 .. Len(pending)
                          /\ pending[p].stage = "then" \/ Shows(pending[p].key, p)

FencesOK == \A k \in Keys : fence[k] <= data[k]

(* What is kept without a consumer is an image, once each. *)
RetainedOK == /\ Once(retained)
              /\ \A i \in 1 .. Len(retained) :
                    /\ entry[retained[i]].on /\ entry[retained[i]].status = "resolved"
                    /\ entry[retained[i]].subs = {} /\ ~entry[retained[i]].orphan

WarmOK == \A k \in Keys : warm[k] = "loading" => "warm" \in entry[k].subs

ImageInv == ImageTypes /\ EntriesOK /\ RequestsOK /\ UrlsOK /\ FencesOK /\ RetainedOK /\ WarmOK

LEMMA ImagesAtFirst == T!Init => ImageInv
<1> SUFFICES ASSUME T!Init PROVE ImageInv  OBVIOUS
<1>1. pending \in Seq(RequestTypes) /\ Len(pending) = 0  BY DEF T!Init
<1>2. retained \in Seq(Keys) /\ Len(retained) = 0  BY DEF T!Init
<1>3. T!Absent \in EntryTypes /\ ~T!Absent.on /\ T!Absent.status = "idle"  BY DEF T!Absent, EntryTypes
<1>4. ImageTypes  BY <1>1, <1>2, <1>3 DEF T!Init, ImageTypes
<1>5. EntriesOK /\ UrlsOK /\ FencesOK  BY <1>3 DEF T!Init, EntriesOK, UrlsOK, FencesOK
<1>6. RequestsOK /\ RetainedOK  BY <1>1, <1>2 DEF RequestsOK, RetainedOK, Once
<1>7. WarmOK  BY DEF T!Init, WarmOK
<1> QED BY <1>4, <1>5, <1>6, <1>7 DEF ImageInv


(* A request that is cancelled brings nothing it would not have brought. *)
Softer(a, b) == /\ b.key = a.key /\ b.image = a.image
                /\ b.early => a.early
                /\ (b.stage = a.stage /\ b.since = a.since) \/ (a.stage = "wait" /\ b.stage = "done")

(* What a step of the client does to an entry: it stays, goes, asks again or
   loses its image. *)
Kept(k) == /\ entry'[k].on = entry[k].on /\ entry'[k].current = entry[k].current
           /\ entry'[k].status = entry[k].status /\ fence'[k] = fence[k]
Dropped(k) == entry'[k].on = FALSE /\ entry'[k].status = "idle"
Asked(k) == /\ entry'[k].on /\ entry'[k].status = "loading"
            /\ entry'[k].current \in 1 .. Len(pending')
            /\ pending'[entry'[k].current].key = k /\ pending'[entry'[k].current].stage = "asked"
            /\ pending'[entry'[k].current].since = data[k]
Errored(k) == /\ entry[k].on /\ entry'[k].on /\ entry'[k].current = entry[k].current
              /\ entry'[k].status = "error" /\ fence'[k] = fence[k]

ClientMoves ==
  /\ \A k \in Keys : Kept(k) \/ Dropped(k) \/ Asked(k) \/ Errored(k)
  /\ \A k \in Keys : data'[k] = data[k] /\ (fence'[k] = fence[k] \/ fence'[k] = data[k])
  /\ \A p \in 1 .. Len(pending) : p \in 1 .. Len(pending') /\ Softer(pending[p], pending'[p])
  /\ \A p \in 1 .. Len(pending') : \/ p \in 1 .. Len(pending)
                                   \/ pending'[p].stage = "asked" /\ ~pending'[p].early
  /\ \A p : p \in urls' <=> p \in urls /\ ~\E k \in Keys : Shows(k, p) /\ ~Kept(k)

LEMMA RequestsAre ==
  /\ ImageTypes => \A p \in 1 .. Len(pending) : /\ pending[p].key \in Keys
                                                /\ pending[p].since \in Nat /\ pending[p].image \in Nat
  /\ ImageTypes' => \A p \in 1 .. Len(pending') : /\ pending'[p].key \in Keys
                                                  /\ pending'[p].since \in Nat /\ pending'[p].image \in Nat
<1>1. ASSUME ImageTypes, NEW p \in 1 .. Len(pending)
      PROVE  pending[p].key \in Keys /\ pending[p].since \in Nat /\ pending[p].image \in Nat
  <2>1. pending[p] \in RequestTypes  BY <1>1 DEF ImageTypes
  <2> QED BY <2>1 DEF RequestTypes
<1>2. ASSUME ImageTypes', NEW p \in 1 .. Len(pending')
      PROVE  pending'[p].key \in Keys /\ pending'[p].since \in Nat /\ pending'[p].image \in Nat
  <2>1. pending'[p] \in RequestTypes  BY <1>2 DEF ImageTypes
  <2> QED BY <2>1 DEF RequestTypes
<1> QED BY <1>1, <1>2

LEMMA ClientKeeps ==
  ASSUME ImageInv, ImageTypes', ClientMoves
  PROVE  EntriesOK' /\ RequestsOK' /\ UrlsOK' /\ FencesOK'
<1>1. FencesOK'
  <2>1. \A k \in Keys : data[k] \in Nat /\ fence[k] \in Nat /\ fence[k] <= data[k]
    BY DEF ImageInv, ImageTypes, FencesOK
  <2>2. \A k \in Keys : data'[k] = data[k] /\ (fence'[k] = fence[k] \/ fence'[k] = data[k])  BY DEF ClientMoves
  <2> QED BY <2>1, <2>2 DEF FencesOK
<1>2. \A k \in Keys : \A p : Shows(k, p) => p \in urls /\ p \in 1 .. Len(pending) /\ pending[p].key = k /\ pending[p].stage = "done"
                                        /\ pending[p].image >= fence[k]  BY DEF ImageInv, EntriesOK, Shows
<1>3. ASSUME NEW k \in Keys
      PROVE  /\ ~entry'[k].on => entry'[k].status = "idle"
             /\ entry'[k].on => /\ entry'[k].current \in 1 .. Len(pending')
                                /\ pending'[entry'[k].current].key = k
                                /\ Newer(pending'[entry'[k].current], fence'[k])
             /\ entry'[k].on /\ entry'[k].status = "resolved"
                => /\ entry'[k].current \in urls'
                   /\ pending'[entry'[k].current].stage = "done"
                   /\ pending'[entry'[k].current].image >= fence'[k]
  <2>0. /\ ~entry[k].on => entry[k].status = "idle"
        /\ entry[k].on => /\ entry[k].current \in 1 .. Len(pending)
                          /\ pending[entry[k].current].key = k
                          /\ Newer(pending[entry[k].current], fence[k])  BY DEF ImageInv, EntriesOK
  <2>a. entry[k].on => Softer(pending[entry[k].current], pending'[entry[k].current]) /\ entry[k].current \in 1 .. Len(pending')
    BY <2>0 DEF ClientMoves
  <2>b. ASSUME entry[k].on
        PROVE  /\ pending'[entry[k].current].key = k
               /\ Newer(pending'[entry[k].current], fence[k])  BY <2>0, <2>a, <2>b DEF Softer, Newer, Busy
  <2>1. CASE Kept(k)
    <3>1. ASSUME entry[k].on, entry[k].status = "resolved"
          PROVE  /\ entry[k].current \in urls'
                 /\ pending'[entry[k].current].stage = "done"
                 /\ pending'[entry[k].current].image >= fence[k]
      <4>1. PICK p : p = entry[k].current /\ Shows(k, p)  BY <3>1 DEF Shows
      <4>2. p \in urls /\ pending[p].key = k /\ pending[p].stage = "done" /\ pending[p].image >= fence[k]
        BY <1>2, <4>1
      <4>3. ~\E j \in Keys : Shows(j, p) /\ ~Kept(j)  BY <1>2, <2>1, <4>2
      <4>4. p \in urls'  BY <4>2, <4>3 DEF ClientMoves
      <4>5. Softer(pending[p], pending'[p])  BY <2>a, <3>1, <4>1
      <4> QED BY <4>1, <4>2, <4>4, <4>5 DEF Softer
    <3> QED BY <2>0, <2>a, <2>b, <2>1, <3>1 DEF Kept
  <2>2. CASE Dropped(k)  BY <2>2 DEF Dropped
  <2>3. CASE Asked(k)
    <3>1. fence'[k] <= data[k]  BY <1>1 DEF ClientMoves, FencesOK
    <3>2. pending'[entry'[k].current].since >= fence'[k]
      <4>1. fence'[k] \in Nat /\ data[k] \in Nat  BY DEF ImageTypes, ImageInv
      <4> QED BY <2>3, <3>1, <4>1 DEF Asked
    <3> QED BY <2>3, <3>2 DEF Asked, Newer
  <2>4. CASE Errored(k)  BY <2>4, <2>a, <2>b DEF Errored
  <2> QED BY <2>1, <2>2, <2>3, <2>4 DEF ClientMoves
<1>4. EntriesOK'  BY <1>3 DEF EntriesOK
<1>5. RequestsOK'
  <2> SUFFICES ASSUME NEW p \in 1 .. Len(pending')
               PROVE  /\ pending'[p].stage = "read" \/ (pending'[p].stage = "asked" /\ pending'[p].early)
                         => pending'[p].image >= pending'[p].since
                      /\ pending'[p].stage = "then" => p \in urls'  BY DEF RequestsOK
  <2>1. CASE p \in 1 .. Len(pending)
    <3>1. Softer(pending[p], pending'[p])  BY <2>1 DEF ClientMoves
    <3>2. /\ pending[p].stage = "read" \/ (pending[p].stage = "asked" /\ pending[p].early)
             => pending[p].image >= pending[p].since
          /\ pending[p].stage = "then" => p \in urls  BY <2>1 DEF ImageInv, RequestsOK
    <3>3. pending[p].stage = "then" => p \in urls'  BY <1>2, <3>2 DEF ClientMoves
    <3> QED BY <3>1, <3>2, <3>3 DEF Softer
  <2>2. CASE p \notin 1 .. Len(pending)  BY <2>2 DEF ClientMoves
  <2> QED BY <2>1, <2>2
<1>6. UrlsOK'
  <2> SUFFICES ASSUME NEW p \in urls'
               PROVE  p \in 1 .. Len(pending') /\ (pending'[p].stage = "then" \/ (entry'[pending'[p].key].on /\ entry'[pending'[p].key].status = "resolved" /\ entry'[pending'[p].key].current = p))
    BY DEF UrlsOK, Shows
  <2>1. p \in urls /\ ~\E k \in Keys : Shows(k, p) /\ ~Kept(k)  BY DEF ClientMoves
  <2>2. p \in 1 .. Len(pending) /\ (pending[p].stage = "then" \/ Shows(pending[p].key, p))
    BY <2>1 DEF ImageInv, UrlsOK
  <2>3. p \in 1 .. Len(pending') /\ Softer(pending[p], pending'[p])  BY <2>2 DEF ClientMoves
  <2>4. CASE pending[p].stage = "then"  BY <2>3, <2>4 DEF Softer
  <2>5. CASE Shows(pending[p].key, p)
    <3>1. pending[p].key \in Keys  BY <2>2, RequestsAre DEF ImageInv
    <3>2. Kept(pending[p].key)  BY <2>1, <2>5, <3>1
    <3> QED BY <2>3, <2>5, <3>2 DEF Softer, Shows, Kept
  <2> QED BY <2>2, <2>4, <2>5
<1> QED BY <1>1, <1>4, <1>5, <1>6

(* A step of one request, which no entry shows yet. *)
RequestMoves(p) ==
  /\ p \in 1 .. Len(pending) /\ pending[p].stage \in Busy
  /\ entry' = entry /\ fence' = fence /\ data' = data
  /\ Len(pending') = Len(pending)
  /\ \A q \in 1 .. Len(pending) : q # p => pending'[q] = pending[q]
  /\ pending'[p].key = pending[p].key
  /\ pending'[p].stage \in Busy => pending'[p].since = pending[p].since
  /\ pending'[p].stage = "read" \/ (pending'[p].stage = "asked" /\ pending'[p].early)
     => pending'[p].image >= pending'[p].since
  /\ pending'[p].stage = "then" => pending'[p].image >= pending[p].since
  /\ pending'[p].stage = "then" <=> p \in urls'
  /\ \A q : q # p => (q \in urls' <=> q \in urls)

LEMMA RequestKeeps ==
  ASSUME ImageInv, ImageTypes', NEW p, RequestMoves(p)
  PROVE  EntriesOK' /\ RequestsOK' /\ UrlsOK' /\ FencesOK'
<1>0. p \in 1 .. Len(pending) /\ pending[p].stage \in Busy /\ Len(pending') = Len(pending) /\ entry' = entry /\ fence' = fence
  BY DEF RequestMoves
<1>1. FencesOK'  BY DEF RequestMoves, FencesOK, ImageInv
<1>2. ASSUME NEW k \in Keys
      PROVE  /\ ~entry[k].on => entry[k].status = "idle"
             /\ entry[k].on => /\ entry[k].current \in 1 .. Len(pending)
                               /\ pending'[entry[k].current].key = k
                               /\ Newer(pending'[entry[k].current], fence[k])
             /\ entry[k].on /\ entry[k].status = "resolved"
                => /\ entry[k].current \in urls'
                   /\ pending'[entry[k].current].stage = "done"
                   /\ pending'[entry[k].current].image >= fence[k]
  <2>0. /\ ~entry[k].on => entry[k].status = "idle"
        /\ entry[k].on => /\ entry[k].current \in 1 .. Len(pending)
                          /\ pending[entry[k].current].key = k
                          /\ Newer(pending[entry[k].current], fence[k])
        /\ entry[k].on /\ entry[k].status = "resolved"
                => /\ entry[k].current \in urls
                   /\ pending[entry[k].current].stage = "done"
                   /\ pending[entry[k].current].image >= fence[k]  BY DEF ImageInv, EntriesOK
  <2>1. CASE entry[k].current # p
    <3>1. entry[k].on => pending'[entry[k].current] = pending[entry[k].current] /\ (entry[k].current \in urls' <=> entry[k].current \in urls)
      BY <2>0, <2>1 DEF RequestMoves
    <3> QED BY <2>0, <3>1
  <2>2. CASE entry[k].current = p
    <3>1. pending[p].stage # "done"  BY <1>0 DEF Busy
    <3>2. pending[p].since \in Nat /\ fence[k] \in Nat /\ pending'[p].since \in Nat /\ pending'[p].image \in Nat
      BY <1>0, RequestsAre DEF ImageInv, ImageTypes
    <3>3. entry[k].on => pending[p].since >= fence[k]  BY <1>0, <2>0, <2>2 DEF Newer
    <3>4. entry[k].on => Newer(pending'[p], fence[k])  BY <3>2, <3>3 DEF Newer, RequestMoves
    <3>5. pending'[p].key = pending[p].key  BY DEF RequestMoves
    <3> QED BY <2>0, <2>2, <3>1, <3>4, <3>5
  <2> QED BY <2>1, <2>2
<1>3. EntriesOK'  BY <1>0, <1>2 DEF EntriesOK
<1>4. RequestsOK'
  <2>1. \A q \in 1 .. Len(pending) : q # p => pending'[q] = pending[q] /\ (q \in urls' <=> q \in urls)
    BY DEF RequestMoves
  <2>2. /\ pending'[p].stage = "read" \/ (pending'[p].stage = "asked" /\ pending'[p].early)
           => pending'[p].image >= pending'[p].since
        /\ pending'[p].stage = "then" => p \in urls'  BY DEF RequestMoves
  <2> QED BY <1>0, <2>1, <2>2 DEF RequestsOK, ImageInv
<1>5. UrlsOK'
  <2>1. \A q \in 1 .. Len(pending) : q # p => pending'[q] = pending[q]  BY DEF RequestMoves
  <2>2. \A q \in urls' : q = p \/ q \in urls  BY DEF RequestMoves
  <2>3. p \in urls' => pending'[p].stage = "then"  BY DEF RequestMoves
  <2> QED BY <1>0, <2>1, <2>2, <2>3 DEF UrlsOK, ImageInv, Shows
<1> QED BY <1>1, <1>3, <1>4, <1>5


(* The requests after a step of the client. *)
RequestsSoften ==
  /\ \A p \in 1 .. Len(pending) : p \in 1 .. Len(pending') /\ Softer(pending[p], pending'[p])
  /\ \A p \in 1 .. Len(pending') : \/ p \in 1 .. Len(pending)
                                   \/ pending'[p].stage = "asked" /\ ~pending'[p].early

(* Requests of which some may be cancelled. *)
Softened(before) ==
  /\ before \in Seq(RequestTypes) /\ Len(before) = Len(pending)
  /\ \A p \in 1 .. Len(pending) : Softer(pending[p], before[p])

LEMMA NothingSoftened == ImageTypes => Softened(pending)  BY DEF ImageTypes, Softened, Softer

LEMMA CancelSoftens ==
  ASSUME NEW r \in RequestTypes
  PROVE  T!Cancel(r) \in RequestTypes /\ Softer(r, T!Cancel(r))
<1>1. T!Done(r) \in RequestTypes  BY DEF T!Done, RequestTypes
<1>2. T!Done(r).key = r.key /\ T!Done(r).image = r.image /\ T!Done(r).early = FALSE /\ T!Done(r).stage = "done"
  BY DEF T!Done, RequestTypes
<1>3. CASE r.stage = "wait"  BY <1>1, <1>2, <1>3 DEF T!Cancel, Softer
<1>4. CASE r.stage # "wait"
  <2>1. PICK s \in RequestTypes : s = [r EXCEPT !.cancelled = TRUE, !.early = FALSE]  BY DEF RequestTypes
  <2>2. s.key = r.key /\ s.image = r.image /\ s.early = FALSE /\ s.stage = r.stage /\ s.since = r.since
    BY <2>1 DEF RequestTypes
  <2> QED BY <1>4, <2>1, <2>2 DEF T!Cancel, Softer
<1> QED BY <1>3, <1>4

LEMMA CancelledSoftens ==
  ASSUME ImageTypes
  PROVE  \A ks : Softened(T!Cancelled(ks))
<1> SUFFICES ASSUME NEW ks PROVE Softened(T!Cancelled(ks))  OBVIOUS
<1>1. PICK n \in Nat : n = Len(pending) /\ DOMAIN pending = 1 .. n  BY DEF ImageTypes
<1>2. \A p \in 1 .. n : pending[p] \in RequestTypes  BY <1>1 DEF ImageTypes
<1>3. PICK c : c = [p \in 1 .. n |-> IF \E k \in ks : p = owner[k] THEN T!Cancel(pending[p]) ELSE pending[p]]  OBVIOUS
<1>4. c = T!Cancelled(ks)  BY <1>1, <1>3 DEF T!Cancelled
<1>5. ASSUME NEW p \in 1 .. n
      PROVE  c[p] \in RequestTypes /\ Softer(pending[p], c[p])
  <2>1. PICK r \in RequestTypes : r = pending[p]  BY <1>2
  <2>2. T!Cancel(r) \in RequestTypes /\ Softer(r, T!Cancel(r))  BY CancelSoftens
  <2>3. Softer(r, r)  BY DEF Softer
  <2>4. c[p] = T!Cancel(r) \/ c[p] = r  BY <1>3, <2>1
  <2> QED BY <2>1, <2>2, <2>3, <2>4
<1>6. c \in [1 .. n -> RequestTypes]  BY <1>3, <1>5
<1>7. c \in Seq(RequestTypes) /\ Len(c) = n  BY <1>6
<1> QED BY <1>1, <1>4, <1>5, <1>7 DEF Softened

LEMMA SoftenedSoften ==
  ASSUME Softened(pending')
  PROVE  RequestsSoften  BY DEF Softened, RequestsSoften

(* A request of the client: the entry waits for it, nothing else is touched. *)
Requested(k, e) ==
  /\ entry' \in [Keys -> EntryTypes] /\ pending' \in Seq(RequestTypes)
  /\ RequestsSoften /\ Asked(k)
  /\ \A j \in Keys : j # k => entry'[j] = entry[j]
  /\ entry'[k].subs = e.subs

LEMMA AskedFor ==
  ASSUME ImageTypes, NEW k \in Keys, NEW before, Softened(before), pending' = Append(before, T!NewPending(k))
  PROVE  /\ pending' \in Seq(RequestTypes) /\ RequestsSoften
         /\ Len(before) + 1 \in 1 .. Len(pending')
         /\ pending'[Len(before) + 1].key = k /\ pending'[Len(before) + 1].stage = "asked"
         /\ pending'[Len(before) + 1].since = data[k]
<1>1. PICK n \in Nat : n = Len(pending)  BY DEF ImageTypes
<1>2. before \in Seq(RequestTypes) /\ Len(before) = n  BY <1>1 DEF Softened
<1>3. PICK r \in RequestTypes : r = T!NewPending(k)
  <2>1. data[k] \in Nat  BY DEF ImageTypes
  <2>2. T!NewPending(k) \in RequestTypes  BY <2>1 DEF T!NewPending, RequestTypes
  <2> QED BY <2>2
<1>4. r.key = k /\ r.stage = "asked" /\ r.since = data[k] /\ r.early = FALSE  BY <1>3 DEF T!NewPending
<1>5. pending' = Append(before, r)  BY <1>3
<1>6. /\ pending' \in Seq(RequestTypes) /\ Len(pending') = n + 1 /\ pending'[n + 1] = r
      /\ \A p \in 1 .. n : pending'[p] = before[p]  BY <1>2, <1>5
<1>7. RequestsSoften
  <2>1. \A p \in 1 .. n : p \in 1 .. n + 1 /\ Softer(pending[p], pending'[p])  BY <1>1, <1>6 DEF Softened
  <2>2. \A p \in 1 .. n + 1 : p \in 1 .. n \/ p = n + 1  OBVIOUS
  <2> QED BY <1>1, <1>4, <1>6, <2>1, <2>2 DEF RequestsSoften
<1>8. n + 1 \in 1 .. n + 1  OBVIOUS
<1> QED BY <1>2, <1>4, <1>6, <1>7, <1>8

LEMMA ResolveRequests ==
  ASSUME ImageTypes, NEW k \in Keys, NEW e \in EntryTypes, e.on, NEW before, Softened(before),
         T!Resolve(k, e, before)
  PROVE  Requested(k, e)
<1>1. PICK n \in Nat : n = Len(before)  BY DEF Softened
<1>2. /\ pending' \in Seq(RequestTypes) /\ RequestsSoften /\ n + 1 \in 1 .. Len(pending')
      /\ pending'[n + 1].key = k /\ pending'[n + 1].stage = "asked" /\ pending'[n + 1].since = data[k]
  BY <1>1, AskedFor DEF T!Resolve
<1>3. PICK f \in EntryTypes : f = [e EXCEPT !.status = "loading", !.current = n + 1, !.retry = FALSE]
  <2>1. n + 1 \in Nat  OBVIOUS
  <2>2. [e EXCEPT !.status = "loading", !.current = n + 1, !.retry = FALSE] \in EntryTypes  BY <2>1 DEF EntryTypes
  <2> QED BY <2>2
<1>4. f.on = e.on /\ f.status = "loading" /\ f.current = n + 1 /\ f.subs = e.subs  BY <1>3 DEF EntryTypes
<1>5. entry' = [entry EXCEPT ![k] = f]  BY <1>1, <1>3 DEF T!Resolve
<1>6. entry' \in [Keys -> EntryTypes] /\ entry'[k] = f /\ \A j \in Keys : j # k => entry'[j] = entry[j]
  BY <1>5 DEF ImageTypes
<1>7. Asked(k)  BY <1>2, <1>4, <1>6 DEF Asked
<1> QED BY <1>2, <1>4, <1>6, <1>7 DEF Requested

(* What is kept without a consumer, after a step. *)
Rests(k) == /\ entry[k].on /\ entry[k].status = "resolved"
            /\ entry[k].subs = {} /\ ~entry[k].orphan

LEMMA RestingStay ==
  ASSUME ImageInv, retained' = retained, \A k \in Keys : Rests(k) => Rests(k)'
  PROVE  RetainedOK'
<1>1. \A i \in 1 .. Len(retained) : retained[i] \in Keys  BY DEF ImageInv, ImageTypes
<1>2. \A i \in 1 .. Len(retained) : Rests(retained[i])  BY DEF ImageInv, RetainedOK, Rests
<1>3. \A i \in 1 .. Len(retained) : Rests(retained[i])'  BY <1>1, <1>2
<1> QED BY <1>3 DEF RetainedOK, ImageInv, Rests

LEMMA RestingLeave ==
  ASSUME NEW s, s \in Seq(Keys), Once(s), NEW ks, retained' = T!Without(s, ks),
         \A i \in 1 .. Len(s) : s[i] \in ks \/ Rests(s[i])'
  PROVE  RetainedOK' /\ retained' \in Seq(Keys)
<1>1. LeavesOf(T!Without(s, ks), s, ks, Len(s), Keys)  BY LeftLeaves DEF T!Without, LeftOf
<1>2. PICK g : g = retained' /\ LeavesOf(g, s, ks, Len(s), Keys)  BY <1>1
<1>3. \A i \in 1 .. Len(g) : Rests(g[i])'
  <2> SUFFICES ASSUME NEW i \in 1 .. Len(g) PROVE Rests(g[i])'  OBVIOUS
  <2>1. g[i] \notin ks  BY <1>2 DEF LeavesOf
  <2>2. PICK j \in 1 .. Len(s) : s[j] = g[i]  BY <1>2 DEF LeavesOf
  <2>3. PICK x : x = s[j]  OBVIOUS
  <2>4. Rests(x)'  BY <2>1, <2>2, <2>3
  <2> QED BY <2>2, <2>3, <2>4
<1> QED BY <1>2, <1>3 DEF LeavesOf, RetainedOK, Rests

(* The list itself. *)
LEMMA RetainedIs ==
  ASSUME ImageInv
  PROVE  /\ retained \in Seq(Keys) /\ Once(retained)
         /\ \A i \in 1 .. Len(retained) : retained[i] \in Keys /\ Rests(retained[i])
<1>1. retained \in Seq(Keys)  BY DEF ImageInv, ImageTypes
<1>2. \A i \in 1 .. Len(retained) : retained[i] \in Keys  BY <1>1
<1> QED BY <1>1, <1>2 DEF ImageInv, RetainedOK, Rests

LEMMA RetainedLeave ==
  ASSUME ImageInv, NEW ks, retained' = T!Without(retained, ks),
         \A k \in Keys : k \notin ks /\ Rests(k) => Rests(k)'
  PROVE  RetainedOK' /\ retained' \in Seq(Keys)
<1>1. PICK s : s = retained  OBVIOUS
<1>2. s \in Seq(Keys) /\ Once(s) /\ \A i \in 1 .. Len(s) : s[i] \in Keys /\ Rests(s[i])  BY <1>1, RetainedIs
<1>3. \A i \in 1 .. Len(s) : s[i] \in ks \/ Rests(s[i])'  BY <1>2
<1> QED BY <1>1, <1>2, <1>3, RestingLeave


WarmTypes == [Keys -> {"out", "queued", "loading", "settled"}]

LEMMA GoneKeeps ==
  ASSUME ImageInv, NEW ks \in SUBSET Keys, T!Gone(ks), \A k \in ks : "warm" \notin entry[k].subs,
         data' = data, warm' = warm, fence' \in [Keys -> Nat],
         \A k \in Keys : fence'[k] = fence[k] \/ (k \in ks /\ fence'[k] = data[k])
  PROVE  ImageInv'
<1>1. ImageTypes  BY DEF ImageInv
<1>2. PICK ls : pending' = T!Cancelled(ls)  BY DEF T!Gone
<1>3. Softened(pending')  BY <1>1, <1>2, CancelledSoftens
<1>4. RequestsSoften /\ pending' \in Seq(RequestTypes)  BY <1>3, SoftenedSoften DEF Softened
<1>5. T!Absent \in EntryTypes /\ T!Absent.on = FALSE /\ T!Absent.status = "idle"  BY DEF T!Absent, EntryTypes
<1>6. /\ entry' \in [Keys -> EntryTypes]
      /\ \A k \in ks : entry'[k].on = FALSE /\ entry'[k].status = "idle"
      /\ \A k \in Keys : k \notin ks => entry'[k] = entry[k]  BY <1>1, <1>5 DEF T!Gone, ImageTypes
<1>7. RetainedOK' /\ retained' \in Seq(Keys)
  <2>1. retained' = T!Without(retained, ks)  BY DEF T!Gone
  <2>2. \A k \in Keys : k \notin ks /\ Rests(k) => Rests(k)'  BY <1>6 DEF Rests
  <2> QED BY <2>1, <2>2, RetainedLeave
<1>8. ImageTypes'  BY <1>1, <1>4, <1>6, <1>7 DEF ImageTypes
<1>9. WarmOK'
  <2>1. \A k \in Keys : warm[k] = "loading" => k \notin ks /\ "warm" \in entry[k].subs  BY DEF ImageInv, WarmOK
  <2> QED BY <1>6, <2>1 DEF WarmOK
<1>10. ClientMoves
  <2>1. \A k \in Keys : Kept(k) \/ Dropped(k)  BY <1>6 DEF Kept, Dropped
  <2>2. \A k \in Keys : (k \in ks \/ Kept(k)) /\ (k \in ks => Dropped(k))  BY <1>6 DEF Kept, Dropped
  <2>3. \A p : p \in urls' <=> p \in urls /\ ~\E k \in ks : entry[k].status = "resolved" /\ entry[k].current = p
    BY Zenon DEF T!Gone
  <2>4. \A k \in Keys : entry[k].status = "resolved" => entry[k].on  BY DEF ImageInv, EntriesOK
  <2>5. \A k \in ks : \A p : Shows(k, p) => ~Kept(k)  BY <1>6 DEF Shows, Kept
  <2>6. \A p : p \in urls' <=> p \in urls /\ ~\E k \in Keys : Shows(k, p) /\ ~Kept(k)
    BY <2>2, <2>3, <2>4, <2>5 DEF Shows
  <2> QED BY <1>4, <2>1, <2>6 DEF ClientMoves, RequestsSoften
<1> QED BY <1>7, <1>8, <1>9, <1>10, ClientKeeps DEF ImageInv

(* A step that changes the consumers of an entry only. *)
LEMMA SubscribersChange ==
  ASSUME ImageInv, entry' \in [Keys -> EntryTypes], warm' \in WarmTypes,
         pending' = pending, urls' = urls, data' = data, fence' = fence, retained' = retained,
         \A k \in Keys : /\ entry'[k].on = entry[k].on /\ entry'[k].current = entry[k].current
                         /\ entry'[k].status = entry[k].status
                         /\ Rests(k) => Rests(k)'
                         /\ warm'[k] = "loading" => "warm" \in entry'[k].subs
  PROVE  ImageInv'
<1>1. ImageTypes'  BY DEF ImageInv, ImageTypes, WarmTypes
<1>2. RetainedOK'  BY RestingStay
<1>3. WarmOK'  BY DEF WarmOK
<1>4. EntriesOK'  BY DEF ImageInv, EntriesOK
<1>5. RequestsOK' /\ FencesOK'  BY DEF ImageInv, RequestsOK, FencesOK
<1>6. UrlsOK'
  <2>1. \A p \in 1 .. Len(pending) : pending[p].key \in Keys  BY RequestsAre DEF ImageInv
  <2> QED BY <2>1 DEF ImageInv, UrlsOK, Shows
<1> QED BY <1>1, <1>2, <1>3, <1>4, <1>5, <1>6 DEF ImageInv

LEMMA LeftIs ==
  ASSUME NEW e \in EntryTypes, NEW c
  PROVE  /\ T!Left(e, c) \in EntryTypes
         /\ T!Left(e, c).on = e.on /\ T!Left(e, c).current = e.current /\ T!Left(e, c).status = e.status
         /\ T!Left(e, c).subs = e.subs \ {c}
         /\ e.subs = {} /\ ~e.orphan => ~T!Left(e, c).orphan
<1>0. e.subs \in SUBSET (Consumers \cup {"card", "page", "pin", "warm"})  BY DEF EntryTypes
<1>1. PICK s : s = e.subs \ {c} /\ s \in SUBSET (Consumers \cup {"card", "page", "pin", "warm"})  BY <1>0
<1>2. PICK o \in BOOLEAN : o = ((e.subs = {c}) \/ e.orphan)  BY DEF EntryTypes
<1>3. PICK f \in EntryTypes : f = [e EXCEPT !.subs = s, !.orphan = o]  BY <1>1, <1>2 DEF EntryTypes
<1>4. f.on = e.on /\ f.current = e.current /\ f.status = e.status /\ f.subs = s /\ f.orphan = o
  BY <1>1, <1>2, <1>3 DEF EntryTypes
<1>5. f = T!Left(e, c)  BY <1>1, <1>2, <1>3 DEF T!Left
<1> QED BY <1>1, <1>2, <1>4, <1>5

LEMMA UnsubscribeKeeps ==
  ASSUME ImageInv, NEW k \in Keys, NEW c, c # "warm", T!Unsubscribe(k, c), UNCHANGED <<data, fence, warm>>
  PROVE  ImageInv'
<1>1. PICK e \in EntryTypes : e = entry[k]  BY DEF ImageInv, ImageTypes
<1>2. c \in e.subs  BY <1>1 DEF T!Unsubscribe
<1>3. CASE T!Gone({k}) /\ e.subs = {c}
  <2>1. \A j \in {k} : "warm" \notin entry[j].subs  BY <1>1, <1>3
  <2>2. fence' \in [Keys -> Nat] /\ data' = data /\ warm' = warm /\ fence' = fence  BY DEF ImageInv, ImageTypes
  <2> QED BY <1>3, <2>1, <2>2, GoneKeeps
<1>4. CASE ~(T!Gone({k}) /\ e.subs = {c})
  <2>1. PICK f \in EntryTypes : f = T!Left(e, c) /\ f.on = e.on /\ f.current = e.current /\ f.status = e.status /\ f.subs = e.subs \ {c}
    BY LeftIs
  <2>2. /\ entry' = [entry EXCEPT ![k] = T!Left(@, c)]
        /\ pending' = pending /\ urls' = urls /\ retained' = retained  BY <1>1, <1>4 DEF T!Unsubscribe
  <2>3. entry' = [entry EXCEPT ![k] = f]  BY <1>1, <2>1, <2>2
  <2>4. entry' \in [Keys -> EntryTypes] /\ entry'[k] = f /\ \A j \in Keys : j # k => entry'[j] = entry[j]
    BY <2>3 DEF ImageInv, ImageTypes
  <2>5. \A j \in Keys : warm[j] = "loading" => "warm" \in entry'[j].subs  BY <1>1, <2>1, <2>4 DEF ImageInv, WarmOK
  <2>6. \A j \in Keys : Rests(j) => Rests(j)'  BY <1>1, <1>2, <2>4 DEF Rests
  <2>7. \A j \in Keys : entry'[j].on = entry[j].on /\ entry'[j].current = entry[j].current /\ entry'[j].status = entry[j].status
    BY <1>1, <2>1, <2>4
  <2>8. warm' \in WarmTypes  BY DEF ImageInv, ImageTypes, WarmTypes
  <2> QED BY <2>2, <2>4, <2>5, <2>6, <2>7, <2>8, SubscribersChange
<1> QED BY <1>3, <1>4

(* An entry that some consumer may have left. *)
Lighter(f, e) ==
  /\ f \in EntryTypes /\ f.on = e.on /\ f.current = e.current /\ f.status = e.status
  /\ "warm" \in e.subs => "warm" \in f.subs
  /\ e.subs = {} /\ ~e.orphan => f.subs = {} /\ ~f.orphan

LEMMA ReleasedIs ==
  ASSUME NEW es \in [Keys -> EntryTypes], NEW ks
  PROVE  /\ T!Released(es, ks) \in [Keys -> EntryTypes]
         /\ \A k \in Keys : Lighter(T!Released(es, ks)[k], es[k])
<1>1. ASSUME NEW k \in Keys
      PROVE  Lighter(T!Released(es, ks)[k], es[k])
  <2>1. PICK e \in EntryTypes : e = es[k]  OBVIOUS
  <2>2. T!Released(es, ks)[k] = IF k \in ks THEN T!Left(e, "pin") ELSE e  BY <2>1 DEF T!Released
  <2>3. Lighter(T!Left(e, "pin"), e)  BY LeftIs DEF Lighter
  <2>4. Lighter(e, e)  BY DEF Lighter
  <2> QED BY <2>1, <2>2, <2>3, <2>4
<1>2. \A k \in Keys : T!Released(es, ks)[k] \in EntryTypes  BY <1>1 DEF Lighter
<1>3. T!Released(es, ks) = [k \in Keys |-> T!Released(es, ks)[k]]  BY DEF T!Released
<1>4. T!Released(es, ks) \in [Keys -> EntryTypes]  BY <1>2, <1>3
<1> QED BY <1>1, <1>4

LEMMA ReleasedKeeps ==
  ASSUME ImageInv, NEW ks, entry' = T!Released(entry, ks),
         pending' = pending, urls' = urls, data' = data, fence' = fence, retained' = retained, warm' = warm
  PROVE  ImageInv'
<1>1. entry \in [Keys -> EntryTypes]  BY DEF ImageInv, ImageTypes
<1>2. entry' \in [Keys -> EntryTypes] /\ \A k \in Keys : Lighter(entry'[k], entry[k])  BY <1>1, ReleasedIs
<1>3. \A k \in Keys : Rests(k) => Rests(k)'  BY <1>2 DEF Rests, Lighter
<1>4. \A k \in Keys : warm[k] = "loading" => "warm" \in entry'[k].subs  BY <1>2 DEF ImageInv, WarmOK, Lighter
<1>5. warm' \in WarmTypes  BY DEF ImageInv, ImageTypes, WarmTypes
<1>6. \A k \in Keys : entry'[k].on = entry[k].on /\ entry'[k].current = entry[k].current /\ entry'[k].status = entry[k].status
  BY <1>2 DEF Lighter
<1> QED BY <1>2, <1>3, <1>4, <1>5, <1>6, SubscribersChange

(* The entry with one more consumer. *)
LEMMA SubscribedIs ==
  ASSUME ImageTypes, NEW k \in Keys, NEW c \in Consumers
  PROVE  \E f \in EntryTypes :
            /\ f = T!Subscribed(k, c) /\ f.on /\ f.subs = entry[k].subs \cup {c}
            /\ IF ~entry[k].on \/ T!Hurries(k, c)
               THEN f.status = "loading" /\ f.current = Len(pending) + 1
               ELSE f.status = entry[k].status /\ f.current = entry[k].current
<1>1. PICK old \in EntryTypes : old = entry[k]  BY DEF ImageTypes
<1>2. PICK n \in Nat : n = Len(pending)  BY DEF ImageTypes
<1>3. PICK s : s = old.subs \cup {c} /\ s \in SUBSET (Consumers \cup {"card", "page", "pin", "warm"})
  <2>1. old.subs \in SUBSET (Consumers \cup {"card", "page", "pin", "warm"})  BY DEF EntryTypes
  <2>2. old.subs \cup {c} \in SUBSET (Consumers \cup {"card", "page", "pin", "warm"})  BY <2>1, Zenon
  <2> QED BY <2>2
<1>4. PICK e \in EntryTypes : e = T!Joined(k, c) /\ e.on /\ e.subs = s /\ e.status = old.status /\ e.current = old.current
  <2>1. PICK f \in EntryTypes : f = [old EXCEPT !.on = TRUE, !.subs = s, !.orphan = FALSE]  BY <1>3 DEF EntryTypes
  <2>2. f.on /\ f.subs = s /\ f.status = old.status /\ f.current = old.current  BY <1>3, <2>1 DEF EntryTypes
  <2>3. f = T!Joined(k, c)  BY <1>1, <1>3, <2>1 DEF T!Joined
  <2> QED BY <2>2, <2>3
<1>5. ASSUME NEW g \in EntryTypes
      PROVE  \E f \in EntryTypes : /\ f = T!Asking(k, g) /\ f.on = g.on /\ f.subs = g.subs
                                   /\ f.status = "loading" /\ f.current = n + 1
  <2>1. PICK m \in Nat : m = n + 1  OBVIOUS
  <2>2. PICK f \in EntryTypes : f = [g EXCEPT !.status = "loading", !.current = m, !.retry = FALSE]  BY DEF EntryTypes
  <2>3. f.on = g.on /\ f.subs = g.subs /\ f.status = "loading" /\ f.current = m  BY <2>2 DEF EntryTypes
  <2>4. f = T!Asking(k, g)  BY <1>2, <2>1, <2>2 DEF T!Asking
  <2> QED BY <2>1, <2>3, <2>4
<1>6. CASE ~entry[k].on
  <2>1. T!Subscribed(k, c) = T!Asking(k, e)  BY <1>4, <1>6 DEF T!Subscribed
  <2> QED BY <1>1, <1>2, <1>3, <1>4, <1>5, <1>6, <2>1
<1>7. CASE entry[k].on /\ T!Hurries(k, c)
  <2>1. PICK g \in EntryTypes : g = [e EXCEPT !.hurried = TRUE, !.retryable = FALSE]  BY DEF EntryTypes
  <2>2. g.on /\ g.subs = s  BY <1>4, <2>1 DEF EntryTypes
  <2>3. T!Subscribed(k, c) = T!Asking(k, g)  BY <1>4, <1>7, <2>1 DEF T!Subscribed
  <2> QED BY <1>1, <1>2, <1>3, <1>5, <1>7, <2>2, <2>3
<1>8. CASE entry[k].on /\ ~T!Hurries(k, c)
  <2>1. PICK b \in BOOLEAN : b = (T!Failing(k) \/ e.retry)  BY DEF EntryTypes
  <2>2. PICK f \in EntryTypes : f = [e EXCEPT !.retry = b]  BY DEF EntryTypes
  <2>3. f.on /\ f.current = e.current /\ f.status = e.status /\ f.subs = s  BY <1>4, <2>2 DEF EntryTypes
  <2>4. f = T!Subscribed(k, c)  BY <1>4, <1>8, <2>1, <2>2 DEF T!Subscribed
  <2> QED BY <1>1, <1>3, <1>4, <1>8, <2>3, <2>4
<1> QED BY <1>6, <1>7, <1>8

LEMMA SubscribeKeeps ==
  ASSUME ImageInv, NEW k \in Keys, NEW c, NEW out, T!SubscribeFor(k, c, out), UNCHANGED <<data, fence>>,
         warm' \in WarmTypes, \A j \in Keys : warm'[j] = "loading" => warm[j] = "loading" \/ (j = k /\ c = "warm")
  PROVE  ImageInv'
<1>1. ImageTypes  BY DEF ImageInv
<1>2. /\ c \in Consumers /\ retained' = T!Without(retained, {k}) /\ urls' = urls
      /\ entry' = T!Released([entry EXCEPT ![k] = T!Subscribed(k, c)], out)  BY DEF T!SubscribeFor
<1>3. PICK old \in EntryTypes : old = entry[k]  BY <1>1 DEF ImageTypes
<1>4. PICK f \in EntryTypes : /\ f = T!Subscribed(k, c) /\ f.on /\ f.subs = old.subs \cup {c}
                              /\ IF ~old.on \/ T!Hurries(k, c)
                                 THEN f.status = "loading" /\ f.current = Len(pending) + 1
                                 ELSE f.status = old.status /\ f.current = old.current
  BY <1>1, <1>2, <1>3, SubscribedIs
<1>5. PICK es \in [Keys -> EntryTypes] : /\ es = [entry EXCEPT ![k] = T!Subscribed(k, c)]
                                         /\ es[k] = f /\ \A j \in Keys : j # k => es[j] = entry[j]
  <2>1. PICK es \in [Keys -> EntryTypes] : es = [entry EXCEPT ![k] = f]  BY <1>1 DEF ImageTypes
  <2>2. es[k] = f /\ \A j \in Keys : j # k => es[j] = entry[j]  BY <1>1, <2>1 DEF ImageTypes
  <2> QED BY <1>4, <2>1, <2>2
<1>6. entry' \in [Keys -> EntryTypes] /\ \A j \in Keys : Lighter(entry'[j], es[j])  BY <1>2, <1>5, ReleasedIs
<1>7. pending' \in Seq(RequestTypes) /\ RequestsSoften /\ (Kept(k) \/ (Asked(k) /\ old.status # "resolved"))
  <2>1. Lighter(entry'[k], f)  BY <1>5, <1>6
  <2>2. ~old.on => old.status = "idle"  BY <1>3 DEF ImageInv, EntriesOK
  <2>3. CASE ~old.on \/ T!Hurries(k, c)
    <3>1. pending' = Append(pending, T!NewPending(k))  BY <1>3, <2>3 DEF T!SubscribeFor
    <3>2. /\ pending' \in Seq(RequestTypes) /\ RequestsSoften /\ Len(pending) + 1 \in 1 .. Len(pending')
          /\ pending'[Len(pending) + 1].key = k /\ pending'[Len(pending) + 1].stage = "asked"
          /\ pending'[Len(pending) + 1].since = data[k]  BY <1>1, <3>1, NothingSoftened, AskedFor
    <3>3. old.status # "resolved"  BY <1>3, <2>2, <2>3 DEF T!Hurries, T!Failing
    <3> QED BY <1>4, <2>1, <2>3, <3>2, <3>3 DEF Asked, Lighter
  <2>4. CASE ~(~old.on \/ T!Hurries(k, c))
    <3>1. pending' = pending  BY <1>3, <2>4 DEF T!SubscribeFor
    <3>2. RequestsSoften  BY <1>1, <3>1, NothingSoftened, SoftenedSoften
    <3>3. Kept(k)  BY <1>3, <1>4, <2>1, <2>4 DEF Kept, Lighter
    <3> QED BY <1>1, <3>1, <3>2, <3>3 DEF ImageTypes
  <2> QED BY <2>3, <2>4
<1>8. RetainedOK' /\ retained' \in Seq(Keys)
  <2>1. \A j \in Keys : j \notin {k} /\ Rests(j) => Rests(j)'  BY <1>5, <1>6 DEF Rests, Lighter
  <2> QED BY <1>2, <2>1, RetainedLeave
<1>9. ImageTypes'  BY <1>1, <1>6, <1>7, <1>8 DEF ImageTypes, WarmTypes
<1>10. WarmOK'  BY <1>3, <1>4, <1>5, <1>6 DEF ImageInv, WarmOK, Lighter
<1>11. ClientMoves
  <2>1. \A j \in Keys : j # k => Kept(j)  BY <1>5, <1>6 DEF Kept, Lighter
  <2>2. \A p : ~\E j \in Keys : Shows(j, p) /\ ~Kept(j)  BY <1>3, <1>7, <2>1 DEF Shows
  <2>3. \A j \in Keys : Kept(j) \/ Asked(j)  BY <1>7, <2>1
  <2> QED BY <1>2, <1>7, <2>2, <2>3 DEF ClientMoves, RequestsSoften
<1> QED BY <1>8, <1>9, <1>10, <1>11, ClientKeeps DEF ImageInv


LEMMA OrphanTimerKeeps ==
  ASSUME ImageInv, NEW k \in Keys, T!OrphanTimer(k)
  PROVE  ImageInv'
<1>1. entry[k].orphan /\ entry[k].subs = {} /\ data' = data /\ fence' = fence /\ warm' = warm
  BY DEF T!OrphanTimer, T!ClientOnly, T!consumers
<1>2. ImageTypes /\ fence' \in [Keys -> Nat]  BY <1>1 DEF ImageInv, ImageTypes
<1>3. CASE entry[k].status # "resolved" \/ ~T!RetainsDisplayHandle(k)
  <2>1. T!Gone({k})  BY <1>3 DEF T!OrphanTimer
  <2>2. \A j \in {k} : "warm" \notin entry[j].subs  BY <1>1
  <2> QED BY <1>1, <1>2, <2>1, <2>2, GoneKeeps
<1>4. CASE ~(entry[k].status # "resolved" \/ ~T!RetainsDisplayHandle(k))
  <2>1. PICK e \in EntryTypes : e = entry[k]  BY <1>2 DEF ImageTypes
  <2>2. PICK f \in EntryTypes : f = [e EXCEPT !.orphan = FALSE]  BY DEF EntryTypes
  <2>3. f.on = e.on /\ f.current = e.current /\ f.status = e.status /\ f.subs = e.subs /\ ~f.orphan
    BY <2>2 DEF EntryTypes
  <2>4. e.on /\ e.status = "resolved" /\ e.subs = {} /\ e.orphan  BY <1>1, <1>4, <2>1 DEF ImageInv, EntriesOK
  <2>5. PICK kept : kept = Append(retained, k)  OBVIOUS
  <2>6. PICK n \in Nat : n = Len(retained)  BY <1>2 DEF ImageTypes
  <2>7. /\ kept \in Seq(Keys) /\ Len(kept) = n + 1 /\ kept[n + 1] = k
        /\ \A i \in 1 .. n : kept[i] = retained[i]  BY <1>2, <2>5, <2>6 DEF ImageTypes
  <2>8. \A i \in 1 .. n : retained[i] # k  BY <1>1, <2>6 DEF ImageInv, RetainedOK
  <2>9. \A i \in 1 .. n + 1 : i \in 1 .. n \/ i = n + 1  OBVIOUS
  <2>10. Once(kept)  BY <2>6, <2>7, <2>8, <2>9 DEF Once, ImageInv, RetainedOK
  <2>11. \A i \in 1 .. n + 1 : kept[i] = k \/ Rests(kept[i])  BY <2>6, <2>7, <2>9 DEF ImageInv, RetainedOK, Rests
  <2>12. PICK out : out = T!Excess(kept)  OBVIOUS
  <2>13. \A j \in out : j \in Keys /\ entry[j].on /\ entry[j].status = "resolved" /\ entry[j].subs = {}
    <3>1. \A j \in out : \E i \in 1 .. Len(kept) : j = kept[i]  BY <2>12 DEF T!Excess
    <3> QED BY <2>1, <2>4, <2>7, <2>11, <3>1 DEF Rests
  <2>14. /\ entry' = [j \in Keys |-> IF j \in out THEN T!Absent ELSE IF j = k THEN f ELSE entry[j]]
         /\ retained' = T!Without(kept, out) /\ urls' = urls \ {entry[j].current : j \in out}
         /\ pending' = pending  BY <1>4, <2>1, <2>2, <2>5, <2>12 DEF T!OrphanTimer
  <2>15. T!Absent \in EntryTypes /\ T!Absent.on = FALSE /\ T!Absent.status = "idle"  BY DEF T!Absent, EntryTypes
  <2>16. /\ entry' \in [Keys -> EntryTypes] /\ \A j \in Keys : j \in out => entry'[j] = T!Absent
         /\ k \notin out => entry'[k] = f
         /\ \A j \in Keys : j # k /\ j \notin out => entry'[j] = entry[j]
    BY <1>2, <2>14, <2>15 DEF ImageTypes
  <2>17. RetainedOK' /\ retained' \in Seq(Keys)
    <3>1. \A j \in Keys : (j = k \/ Rests(j)) /\ j \notin out => Rests(j)'  BY <2>3, <2>4, <2>16 DEF Rests
    <3>2. \A i \in 1 .. Len(kept) : kept[i] \in Keys  BY <2>7
    <3>3. \A i \in 1 .. Len(kept) : kept[i] \in out \/ Rests(kept[i])'  BY <2>7, <2>11, <3>1, <3>2
    <3> QED BY <2>7, <2>10, <2>14, <3>3, RestingLeave
  <2>18. ImageTypes'  BY <1>1, <1>2, <2>14, <2>16, <2>17 DEF ImageTypes
  <2>19. WarmOK'  BY <1>1, <2>1, <2>3, <2>13, <2>16 DEF WarmOK, ImageInv
  <2>20. ClientMoves
    <3>1. \A j \in Keys : j \notin out => Kept(j)  BY <1>1, <2>1, <2>3, <2>16 DEF Kept
    <3>2. RequestsSoften  BY <1>2, <2>14, NothingSoftened, SoftenedSoften
    <3>3. \A j \in Keys : j \in out => Dropped(j) /\ ~Kept(j)  BY <2>13, <2>15, <2>16 DEF Dropped, Kept
    <3>4. \A p : \A j \in out : Shows(j, p) <=> p = entry[j].current  BY <2>13 DEF Shows
    <3>5. \A p : p \in urls' <=> p \in urls /\ ~\E j \in out : p = entry[j].current  BY <2>14
    <3>6. \A p : p \in urls' <=> p \in urls /\ ~\E j \in Keys : Shows(j, p) /\ ~Kept(j)
      BY <2>13, <3>1, <3>3, <3>4, <3>5
    <3>7. \A j \in Keys : Kept(j) \/ Dropped(j)  BY <3>1, <3>3
    <3> QED BY <1>1, <3>2, <3>6, <3>7, <2>14 DEF ClientMoves, RequestsSoften
  <2> QED BY <2>17, <2>18, <2>19, <2>20, ClientKeeps DEF ImageInv
<1> QED BY <1>3, <1>4

LEMMA RetryTimerKeeps ==
  ASSUME ImageInv, NEW k \in Keys, T!RetryTimer(k)
  PROVE  ImageInv'
<1>1. /\ entry[k].subs # {} /\ entry[k].status = "error"
      /\ data' = data /\ fence' = fence /\ warm' = warm /\ urls' = urls /\ retained' = retained
  BY DEF T!RetryTimer, T!ClientOnly, T!consumers
<1>2. ImageTypes  BY DEF ImageInv
<1>3. PICK e \in EntryTypes : e = entry[k]  BY <1>2 DEF ImageTypes
<1>4. PICK f \in EntryTypes : f = [e EXCEPT !.retryable = FALSE]  BY DEF EntryTypes
<1>5. f.on = e.on /\ f.subs = e.subs  BY <1>4 DEF EntryTypes
<1>6. f.on  BY <1>1, <1>3, <1>5 DEF ImageInv, EntriesOK
<1>7. T!Resolve(k, f, pending)  BY <1>3, <1>4 DEF T!RetryTimer, T!BeginRetry
<1>8. Requested(k, f)  BY <1>2, <1>6, <1>7, NothingSoftened, ResolveRequests
<1>9. entry'[k].subs = entry[k].subs /\ \A j \in Keys : j # k => entry'[j] = entry[j]
  BY <1>3, <1>5, <1>8 DEF Requested
<1>10. ImageTypes'  BY <1>1, <1>2, <1>8 DEF ImageTypes, Requested
<1>11. RetainedOK'
  <2>1. \A j \in Keys : Rests(j) => Rests(j)'  BY <1>1, <1>9 DEF Rests
  <2> QED BY <1>1, <2>1, RestingStay
<1>12. WarmOK'  BY <1>1, <1>9 DEF WarmOK, ImageInv
<1>13. ClientMoves
  <2>1. \A j \in Keys : Asked(j) \/ Kept(j)  BY <1>1, <1>8, <1>9 DEF Kept, Requested
  <2>2. \A p : ~\E j \in Keys : Shows(j, p) /\ ~Kept(j)  BY <1>1, <1>9 DEF Shows, Kept
  <2>3. RequestsSoften  BY <1>8 DEF Requested
  <2> QED BY <1>1, <2>1, <2>2, <2>3 DEF ClientMoves, RequestsSoften
<1> QED BY <1>10, <1>11, <1>12, <1>13, ClientKeeps DEF ImageInv


LEMMA InvalidateKeeps ==
  ASSUME ImageInv, NEW k \in Keys, T!Invalidate(k)
  PROVE  ImageInv'
<1>1. /\ entry[k].on /\ data' = data /\ warm' = warm /\ fence' = [fence EXCEPT ![k] = data[k]]
  BY DEF T!Invalidate, T!consumers
<1>2. ImageTypes  BY DEF ImageInv
<1>3. fence' \in [Keys -> Nat] /\ fence'[k] = data[k] /\ \A j \in Keys : j # k => fence'[j] = fence[j]
  BY <1>1, <1>2 DEF ImageTypes
<1>4. CASE entry[k].subs = {}
  <2>1. T!Gone({k})  BY <1>4 DEF T!Invalidate
  <2>2. \A j \in {k} : "warm" \notin entry[j].subs  BY <1>4
  <2>3. \A j \in Keys : fence'[j] = fence[j] \/ (j \in {k} /\ fence'[j] = data[j])  BY <1>3
  <2> QED BY <1>1, <1>3, <2>1, <2>2, <2>3, GoneKeeps
<1>5. CASE entry[k].subs # {}
  <2>1. PICK e \in EntryTypes : e = entry[k]  BY <1>2 DEF ImageTypes
  <2>2. PICK f \in EntryTypes : f = [e EXCEPT !.retryable = FALSE, !.hurried = FALSE, !.failures = 0]
    BY DEF EntryTypes
  <2>3. f.on = e.on /\ f.subs = e.subs  BY <2>2 DEF EntryTypes
  <2>4. PICK before : before = IF e.status = "loading" THEN T!Cancelled({k}) ELSE pending  OBVIOUS
  <2>5. /\ T!Resolve(k, f, before) /\ retained' = retained
        /\ urls' = IF e.status = "resolved" THEN urls \ {e.current} ELSE urls
    BY <1>5, <2>1, <2>2, <2>4 DEF T!Invalidate
  <2>6. Softened(before)
    <3>1. Softened(T!Cancelled({k})) /\ Softened(pending)  BY <1>2, CancelledSoftens, NothingSoftened
    <3> QED BY <2>4, <3>1
  <2>7. Requested(k, f)  BY <1>1, <1>2, <2>1, <2>3, <2>5, <2>6, ResolveRequests
  <2>8. entry'[k].subs = e.subs /\ \A j \in Keys : j # k => entry'[j] = entry[j]  BY <2>3, <2>7 DEF Requested
  <2>9. ImageTypes'  BY <1>1, <1>2, <1>3, <2>5, <2>7 DEF ImageTypes, Requested
  <2>10. RetainedOK'
    <3>1. \A j \in Keys : Rests(j) => Rests(j)'  BY <1>5, <2>8 DEF Rests
    <3> QED BY <2>5, <3>1, RestingStay
  <2>11. WarmOK'  BY <1>1, <2>1, <2>8 DEF WarmOK, ImageInv
  <2>12. ClientMoves
    <3>1. \A j \in Keys : j # k => Kept(j)  BY <1>3, <2>8 DEF Kept
    <3>2. Asked(k) /\ RequestsSoften  BY <2>7 DEF Requested
    <3>3. \A p : p \in urls' <=> p \in urls /\ ~\E j \in Keys : Shows(j, p) /\ ~Kept(j)
      <4>1. \A p : Shows(k, p) => ~Kept(k)  BY <3>2 DEF Shows, Kept, Asked
      <4>2. \A p : Shows(k, p) <=> e.status = "resolved" /\ e.current = p  BY <1>1, <2>1 DEF Shows
      <4>3. \A p : p \in urls' <=> p \in urls /\ ~Shows(k, p)  BY <2>5, <4>2
      <4> QED BY <3>1, <4>1, <4>3
    <3> QED BY <1>1, <1>3, <3>1, <3>2, <3>3 DEF ClientMoves, RequestsSoften
  <2> QED BY <2>9, <2>10, <2>11, <2>12, ClientKeeps DEF ImageInv
<1> QED BY <1>4, <1>5

LEMMA DisplayFailureKeeps ==
  ASSUME ImageInv, NEW k \in Keys, T!ReportDisplayFailure(k)
  PROVE  ImageInv'
<1>1. /\ entry[k].status \in {"loading", "resolved"} /\ "card" \in entry[k].subs
      /\ data' = data /\ fence' = fence /\ warm' = warm /\ pending' = pending /\ retained' = retained
      /\ urls' = IF entry[k].status = "resolved" THEN urls \ {entry[k].current} ELSE urls
  BY DEF T!ReportDisplayFailure, T!ClientOnly, T!consumers
<1>2. ImageTypes  BY DEF ImageInv
<1>3. PICK e \in EntryTypes : e = entry[k]  BY <1>2 DEF ImageTypes
<1>4. e.on  BY <1>1, <1>3 DEF ImageInv, EntriesOK
<1>5. PICK f \in EntryTypes : f = [e EXCEPT !.status = "error", !.failures = @ + 1,
                                            !.retryable = (e.failures = 0), !.retry = (e.failures = 0)]
  <2>1. e.failures + 1 \in Nat /\ (e.failures = 0) \in BOOLEAN  BY DEF EntryTypes
  <2>2. PICK n \in Nat : n = e.failures + 1  BY <2>1
  <2>3. PICK b \in BOOLEAN : b = (e.failures = 0)  BY <2>1
  <2>4. [e EXCEPT !.status = "error", !.failures = n, !.retryable = b, !.retry = b] \in EntryTypes  BY DEF EntryTypes
  <2> QED BY <2>2, <2>3, <2>4
<1>6. f.on = e.on /\ f.current = e.current /\ f.status = "error" /\ f.subs = e.subs  BY <1>5 DEF EntryTypes
<1>7. entry' = [entry EXCEPT ![k] = f]  BY <1>3, <1>5 DEF T!ReportDisplayFailure
<1>8. entry' \in [Keys -> EntryTypes] /\ entry'[k] = f /\ \A j \in Keys : j # k => entry'[j] = entry[j]
  BY <1>2, <1>7 DEF ImageTypes
<1>9. ImageTypes'  BY <1>1, <1>2, <1>8 DEF ImageTypes
<1>10. RetainedOK'
  <2>1. \A j \in Keys : Rests(j) => Rests(j)'  BY <1>1, <1>8 DEF Rests
  <2> QED BY <1>1, <2>1, RestingStay
<1>11. WarmOK'  BY <1>1, <1>3, <1>6, <1>8 DEF WarmOK, ImageInv
<1>12. ClientMoves
  <2>1. \A j \in Keys : j # k => Kept(j)  BY <1>1, <1>8 DEF Kept
  <2>2. Errored(k) /\ ~Kept(k)  BY <1>1, <1>3, <1>4, <1>6, <1>8 DEF Errored, Kept
  <2>3. RequestsSoften  BY <1>1, <1>2, NothingSoftened, SoftenedSoften
  <2>4. \A p : Shows(k, p) <=> entry[k].status = "resolved" /\ entry[k].current = p  BY <1>3, <1>4 DEF Shows
  <2>5. \A p : p \in urls' <=> p \in urls /\ ~Shows(k, p)  BY <1>1, <2>4
  <2>6. \A p : p \in urls' <=> p \in urls /\ ~\E j \in Keys : Shows(j, p) /\ ~Kept(j)  BY <2>1, <2>2, <2>5
  <2> QED BY <1>1, <2>1, <2>2, <2>3, <2>6 DEF ClientMoves, RequestsSoften
<1> QED BY <1>9, <1>10, <1>11, <1>12, ClientKeeps DEF ImageInv

(* A step of one request. *)
LEMMA SettleKeeps ==
  ASSUME ImageInv, NEW p \in 1 .. Len(pending), NEW r \in RequestTypes, NEW drop, T!Settle(p, r, drop),
         pending[p].stage \in Busy, r.key = pending[p].key,
         r.stage \in Busy => r.since = pending[p].since,
         r.stage = "read" \/ (r.stage = "asked" /\ r.early) => r.image >= r.since,
         r.stage = "then" => r.image >= pending[p].since,
         (r.stage = "then" /\ urls' = urls \cup {p}) \/ (r.stage # "then" /\ urls' = urls)
  PROVE  ImageInv'
<1>1. /\ pending' = [pending EXCEPT ![p] = r] /\ entry' = entry /\ retained' = retained
      /\ data' = data /\ fence' = fence /\ warm' = warm  BY DEF T!Settle, T!ClientOnly, T!consumers
<1>2. ImageTypes  BY DEF ImageInv
<1>3. /\ pending' \in Seq(RequestTypes) /\ Len(pending') = Len(pending) /\ pending'[p] = r
      /\ \A q \in 1 .. Len(pending) : q # p => pending'[q] = pending[q]  BY <1>1, <1>2 DEF ImageTypes
<1>4. ImageTypes'  BY <1>1, <1>2, <1>3 DEF ImageTypes
<1>5. p \notin urls
  <2>1. p \in urls => pending[p].stage = "then" \/ Shows(pending[p].key, p)  BY DEF ImageInv, UrlsOK
  <2>2. pending[p].key \in Keys  BY <1>2, RequestsAre
  <2>3. Shows(pending[p].key, p) => pending[p].stage = "done"  BY <2>2 DEF Shows, ImageInv, EntriesOK
  <2> QED BY <2>1, <2>3 DEF Busy
<1>6. RequestMoves(p)  BY <1>1, <1>3, <1>5 DEF RequestMoves
<1>7. RetainedOK' /\ WarmOK'  BY <1>1 DEF ImageInv, RetainedOK, WarmOK
<1> QED BY <1>4, <1>6, <1>7, RequestKeeps DEF ImageInv


LEMMA DoneIs ==
  ASSUME NEW r \in RequestTypes
  PROVE  /\ T!Done(r) \in RequestTypes
         /\ T!Done(r).key = r.key /\ T!Done(r).image = r.image /\ T!Done(r).stage = "done" /\ T!Done(r).early = FALSE
         /\ \A why \in {"retryable", "final"} :
               /\ T!Rejected(r, why) \in RequestTypes
               /\ T!Rejected(r, why).key = r.key /\ T!Rejected(r, why).stage = "reject"
<1>1. PICK d \in RequestTypes : d = T!Done(r)  BY DEF T!Done, RequestTypes
<1>2. d.key = r.key /\ d.image = r.image /\ d.stage = "done" /\ d.early = FALSE  BY <1>1 DEF T!Done, RequestTypes
<1>3. ASSUME NEW why \in {"retryable", "final"}
      PROVE  T!Rejected(r, why) \in RequestTypes /\ T!Rejected(r, why).key = r.key /\ T!Rejected(r, why).stage = "reject"
  <2>1. PICK x \in RequestTypes : x = [d EXCEPT !.stage = "reject", !.failure = why]  BY <1>3 DEF RequestTypes
  <2>2. x.key = d.key /\ x.stage = "reject"  BY <2>1 DEF RequestTypes
  <2> QED BY <1>1, <1>2, <2>1, <2>2 DEF T!Rejected
<1> QED BY <1>1, <1>2, <1>3

LEMMA TimeoutKeeps ==
  ASSUME ImageInv, NEW p \in 1 .. Len(pending), T!CompletionTimeout(p)
  PROVE  ImageInv'
<1>1. PICK r \in RequestTypes : r = pending[p]  BY DEF ImageInv, ImageTypes
<1>2. PICK x \in RequestTypes : x = T!Rejected(r, "retryable") /\ x.key = r.key /\ x.stage = "reject"  BY DoneIs
<1>3. r.stage \in Busy /\ T!Settle(p, x, TRUE) /\ urls' = urls  BY <1>1, <1>2 DEF T!CompletionTimeout, Busy
<1>4. x.stage \notin Busy /\ x.stage \notin {"read", "asked", "then"}  BY <1>2 DEF Busy
<1> QED BY <1>1, <1>2, <1>3, <1>4, SettleKeeps

LEMMA AnsweredKeeps ==
  ASSUME ImageInv, NEW p \in 1 .. Len(pending), T!RequestAnswered(p)
  PROVE  ImageInv'
<1>1. PICK r \in RequestTypes : r = pending[p]  BY DEF ImageInv, ImageTypes
<1>2. r.stage = "asked" /\ r.stage \in Busy /\ urls' = urls  BY <1>1 DEF T!RequestAnswered, Busy
<1>3. r.early => r.image >= r.since  BY <1>1, <1>2 DEF ImageInv, RequestsOK
<1>4. PICK x, y : x = T!Done(r) /\ y = T!Rejected(r, "final")  OBVIOUS
<1>5. x \in RequestTypes /\ y \in RequestTypes /\ x.key = r.key /\ y.key = r.key /\ x.stage = "done" /\ y.stage = "reject"
  BY <1>4, DoneIs
<1>6. PICK t \in {"read", "wait"} : t = (IF r.early THEN "read" ELSE "wait")  OBVIOUS
<1>7. PICK z \in RequestTypes : z = [r EXCEPT !.stage = t]  BY DEF RequestTypes
<1>8. z.key = r.key /\ z.stage = t /\ z.since = r.since /\ z.image = r.image  BY <1>7 DEF RequestTypes
<1>9. T!Settle(p, x, FALSE) \/ T!Settle(p, z, FALSE) \/ T!Settle(p, y, TRUE)
  BY <1>1, <1>4, <1>6, <1>7 DEF T!RequestAnswered
<1>10. CASE T!Settle(p, x, FALSE)
  <2>1. x.stage \notin Busy /\ x.stage \notin {"read", "asked", "then"}  BY <1>5 DEF Busy
  <2> QED BY <1>1, <1>2, <1>5, <1>10, <2>1, SettleKeeps
<1>11. CASE T!Settle(p, y, TRUE)
  <2>1. y.stage \notin Busy /\ y.stage \notin {"read", "asked", "then"}  BY <1>5 DEF Busy
  <2> QED BY <1>1, <1>2, <1>5, <1>11, <2>1, SettleKeeps
<1>12. CASE T!Settle(p, z, FALSE)
  <2>1. z.stage # "asked" /\ z.stage # "then" /\ (z.stage = "read" => z.image >= z.since)  BY <1>3, <1>6, <1>8
  <2> QED BY <1>1, <1>2, <1>7, <1>8, <1>12, <2>1, SettleKeeps
<1> QED BY <1>9, <1>10, <1>11, <1>12

LEMMA CompletedKeeps ==
  ASSUME ImageInv, NEW p \in 1 .. Len(pending), T!Completed(p)
  PROVE  ImageInv'
<1>1. PICK r \in RequestTypes : r = pending[p]  BY DEF ImageInv, ImageTypes
<1>2. r.stage \in {"asked", "wait"} /\ r.stage \in Busy /\ urls' = urls  BY <1>1 DEF T!Completed, Busy
<1>3. \/ \E image \in r.since .. data[r.key] :
            T!Settle(p, [r EXCEPT !.image = image, !.early = (r.stage = "asked"),
                                  !.stage = IF r.stage = "asked" THEN "asked" ELSE "read"], FALSE)
      \/ \E why \in {"retryable", "final"} : T!Settle(p, T!Rejected(r, why), TRUE)  BY <1>1 DEF T!Completed
<1>4. ASSUME NEW why \in {"retryable", "final"}, T!Settle(p, T!Rejected(r, why), TRUE)
      PROVE  ImageInv'
  <2>1. PICK y \in RequestTypes : y = T!Rejected(r, why) /\ y.key = r.key /\ y.stage = "reject"  BY DoneIs
  <2>2. y.stage \notin Busy /\ y.stage \notin {"read", "asked", "then"}  BY <2>1 DEF Busy
  <2>3. T!Settle(p, y, TRUE)  BY <1>4, <2>1
  <2> QED BY <1>1, <1>2, <2>1, <2>2, <2>3, SettleKeeps
<1>5. ASSUME NEW image \in r.since .. data[r.key],
             T!Settle(p, [r EXCEPT !.image = image, !.early = (r.stage = "asked"),
                                   !.stage = IF r.stage = "asked" THEN "asked" ELSE "read"], FALSE)
      PROVE  ImageInv'
  <2>1. r.since \in Nat /\ image \in Nat /\ image >= r.since
    <3>1. r.since \in Nat /\ r.key \in Keys  BY DEF RequestTypes
    <3>2. data[r.key] \in Nat  BY <3>1 DEF ImageInv, ImageTypes
    <3> QED BY <3>1, <3>2
  <2>2. PICK b \in BOOLEAN : b = (r.stage = "asked")  OBVIOUS
  <2>3. PICK t \in {"asked", "read"} : t = (IF r.stage = "asked" THEN "asked" ELSE "read")  OBVIOUS
  <2>4. PICK z \in RequestTypes : z = [r EXCEPT !.image = image, !.early = b, !.stage = t]  BY <2>1 DEF RequestTypes
  <2>5. z.key = r.key /\ z.stage = t /\ z.since = r.since /\ z.image = image  BY <2>4 DEF RequestTypes
  <2>6. T!Settle(p, z, FALSE)  BY <1>5, <2>2, <2>3, <2>4
  <2>7. z.stage # "then" /\ z.image >= z.since  BY <2>1, <2>3, <2>5
  <2> QED BY <1>1, <1>2, <2>4, <2>5, <2>6, <2>7, SettleKeeps
<1> QED BY <1>3, <1>4, <1>5

LEMMA BytesReadKeeps ==
  ASSUME ImageInv, NEW p \in 1 .. Len(pending), T!BytesRead(p)
  PROVE  ImageInv'
<1>1. PICK r \in RequestTypes : r = pending[p]  BY DEF ImageInv, ImageTypes
<1>2. r.stage = "read" /\ r.stage \in Busy  BY <1>1 DEF T!BytesRead, Busy
<1>3. r.image >= r.since  BY <1>1, <1>2 DEF ImageInv, RequestsOK
<1>4. PICK x, y : x = T!Done(r) /\ y = T!Rejected(r, "retryable")  OBVIOUS
<1>5. /\ x \in RequestTypes /\ y \in RequestTypes /\ x.key = r.key /\ y.key = r.key /\ x.stage = "done" /\ y.stage = "reject"
      /\ x.image = r.image  BY <1>4, DoneIs
<1>6. PICK z \in RequestTypes : z = [x EXCEPT !.stage = "then"]  BY <1>5 DEF RequestTypes
<1>7. z.key = r.key /\ z.stage = "then" /\ z.image = r.image  BY <1>5, <1>6 DEF RequestTypes
<1>8. \/ T!Settle(p, x, TRUE) /\ urls' = urls
      \/ T!Settle(p, y, TRUE) /\ urls' = urls
      \/ T!Settle(p, z, TRUE) /\ urls' = urls \cup {p}  BY <1>1, <1>4, <1>6 DEF T!BytesRead
<1>9. CASE T!Settle(p, x, TRUE) /\ urls' = urls
  <2>1. x.stage \notin Busy /\ x.stage \notin {"read", "asked", "then"}  BY <1>5 DEF Busy
  <2> QED BY <1>1, <1>2, <1>5, <1>9, <2>1, SettleKeeps
<1>10. CASE T!Settle(p, y, TRUE) /\ urls' = urls
  <2>1. y.stage \notin Busy /\ y.stage \notin {"read", "asked", "then"}  BY <1>5 DEF Busy
  <2> QED BY <1>1, <1>2, <1>5, <1>10, <2>1, SettleKeeps
<1>11. CASE T!Settle(p, z, TRUE) /\ urls' = urls \cup {p}
  <2>1. z.stage \notin Busy /\ z.stage \notin {"read", "asked"} /\ z.image >= r.since  BY <1>3, <1>7 DEF Busy
  <2> QED BY <1>1, <1>2, <1>6, <1>7, <1>11, <2>1, SettleKeeps
<1> QED BY <1>8, <1>9, <1>10, <1>11

(* The promise of a resolution settles: its request is done, its entry shows
   the image or the error, if it still waits for this one. *)
LEMMA FailedKeeps ==
  ASSUME ImageInv, NEW p \in 1 .. Len(pending), T!Failed(p)
  PROVE  ImageInv'
<1>1. ImageTypes  BY DEF ImageInv
<1>2. PICK r \in RequestTypes : r = pending[p]  BY <1>1 DEF ImageTypes
<1>3. PICK d \in RequestTypes : d = T!Done(r) /\ d.key = r.key /\ d.image = r.image /\ d.stage = "done" /\ d.early = FALSE
  BY DoneIs
<1>4. PICK k \in Keys : k = r.key  BY DEF RequestTypes
<1>5. /\ r.stage = "reject" /\ pending' = [pending EXCEPT ![p] = d]
      /\ urls' = urls /\ retained' = retained /\ data' = data /\ fence' = fence /\ warm' = warm
  BY <1>2, <1>3 DEF T!Failed, T!ClientOnly, T!consumers
<1>6. /\ pending' \in Seq(RequestTypes) /\ Len(pending') = Len(pending) /\ pending'[p] = d
      /\ \A q \in 1 .. Len(pending) : q # p => pending'[q] = pending[q]  BY <1>1, <1>5 DEF ImageTypes
<1>7. PICK e \in EntryTypes : e = entry[k]  BY <1>1 DEF ImageTypes
<1>8. PICK a \in BOOLEAN : a = (r.failure = "retryable")  OBVIOUS
<1>9. PICK b \in BOOLEAN : b = (a /\ e.subs # {})  OBVIOUS
<1>10. PICK f \in EntryTypes : f = [e EXCEPT !.status = "error", !.retryable = a, !.retry = b]  BY DEF EntryTypes
<1>11. f.on = e.on /\ f.current = e.current /\ f.status = "error" /\ f.subs = e.subs  BY <1>10 DEF EntryTypes
<1>12. entry' = IF e.on /\ e.current = p THEN [entry EXCEPT ![k] = f] ELSE entry
  BY <1>2, <1>4, <1>7, <1>8, <1>9, <1>10 DEF T!Failed
<1>13. /\ entry' \in [Keys -> EntryTypes] /\ \A j \in Keys : j # k => entry'[j] = entry[j]
       /\ entry'[k] = IF e.on /\ e.current = p THEN f ELSE e  BY <1>1, <1>7, <1>12 DEF ImageTypes
<1>14. ImageTypes'  BY <1>1, <1>5, <1>6, <1>13 DEF ImageTypes
<1>15. e.on /\ e.current = p => e.status # "resolved"  BY <1>2, <1>5, <1>7 DEF ImageInv, EntriesOK
<1>16. RetainedOK'
  <2>1. \A j \in Keys : Rests(j) => Rests(j)'  BY <1>7, <1>13, <1>15 DEF Rests
  <2> QED BY <1>5, <2>1, RestingStay
<1>17. WarmOK'  BY <1>5, <1>7, <1>11, <1>13 DEF WarmOK, ImageInv
<1>18. FencesOK'  BY <1>5 DEF FencesOK, ImageInv
<1>19. RequestsOK'  BY <1>3, <1>5, <1>6 DEF RequestsOK, ImageInv
<1>20. UrlsOK'
  <2>1. \A q \in urls : q # p
    <3>1. pending[p].key \in Keys  BY <1>2, <1>4
    <3>2. p \in urls => Shows(k, p)  BY <1>2, <1>4, <1>5 DEF ImageInv, UrlsOK
    <3> QED BY <1>7, <1>15, <3>2 DEF Shows
  <2>2. \A j \in Keys : \A q : Shows(j, q) => (Shows(j, q))'  BY <1>7, <1>13, <1>15 DEF Shows
  <2>3. \A q \in 1 .. Len(pending) : pending[q].key \in Keys  BY <1>1, RequestsAre
  <2>4. \A q \in urls : q \in 1 .. Len(pending) /\ pending'[q] = pending[q]  BY <1>6, <2>1 DEF ImageInv, UrlsOK
  <2>5. ASSUME NEW q \in urls
        PROVE  pending[q].stage = "then" \/ (entry'[pending[q].key].on /\ entry'[pending[q].key].status = "resolved" /\ entry'[pending[q].key].current = q)
    <3>1. pending[q].stage = "then" \/ Shows(pending[q].key, q)  BY DEF ImageInv, UrlsOK
    <3>2. pending[q].key \in Keys  BY <2>3, <2>4
    <3> QED BY <2>2, <3>1, <3>2 DEF Shows
  <2> QED BY <1>5, <1>6, <2>4, <2>5 DEF UrlsOK, Shows
<1>21. EntriesOK'
  <2> SUFFICES ASSUME NEW j \in Keys
               PROVE  /\ ~entry'[j].on => entry'[j].status = "idle"
                      /\ entry'[j].on => /\ entry'[j].current \in 1 .. Len(pending)
                                         /\ pending'[entry'[j].current].key = j
                                         /\ Newer(pending'[entry'[j].current], fence[j])
                      /\ entry'[j].on /\ entry'[j].status = "resolved"
                         => /\ entry'[j].current \in urls
                            /\ pending'[entry'[j].current].stage = "done"
                            /\ pending'[entry'[j].current].image >= fence[j]  BY <1>5, <1>6 DEF EntriesOK
  <2>1. /\ ~entry[j].on => entry[j].status = "idle"
        /\ entry[j].on => /\ entry[j].current \in 1 .. Len(pending)
                          /\ pending[entry[j].current].key = j
                          /\ Newer(pending[entry[j].current], fence[j])
        /\ entry[j].on /\ entry[j].status = "resolved"
           => /\ entry[j].current \in urls
              /\ pending[entry[j].current].stage = "done"
              /\ pending[entry[j].current].image >= fence[j]  BY DEF ImageInv, EntriesOK
  <2>2. CASE entry[j].on /\ entry[j].current = p
    <3>1. j = k  BY <1>2, <1>4, <2>1, <2>2
    <3>2. entry'[j] = f /\ f.on /\ f.current = p  BY <1>7, <1>11, <1>13, <2>2, <3>1
    <3>3. Newer(d, fence[j])  BY <1>3 DEF Newer, Busy
    <3> QED BY <1>3, <1>4, <1>6, <1>11, <3>1, <3>2, <3>3
  <2>3. CASE ~(entry[j].on /\ entry[j].current = p)
    <3>1. entry'[j] = entry[j]  BY <1>7, <1>13, <2>3
    <3>2. entry[j].on => pending'[entry[j].current] = pending[entry[j].current]  BY <1>6, <2>1, <2>3
    <3> QED BY <2>1, <3>1, <3>2
  <2> QED BY <2>2, <2>3
<1> QED BY <1>14, <1>16, <1>17, <1>18, <1>19, <1>20, <1>21 DEF ImageInv


LEMMA DeliveredKeeps ==
  ASSUME ImageInv, NEW p \in 1 .. Len(pending), T!Delivered(p)
  PROVE  ImageInv'
<1>1. ImageTypes  BY DEF ImageInv
<1>2. PICK r \in RequestTypes : r = pending[p]  BY <1>1 DEF ImageTypes
<1>3. PICK d \in RequestTypes : d = T!Done(r) /\ d.key = r.key /\ d.image = r.image /\ d.stage = "done" /\ d.early = FALSE
  BY DoneIs
<1>4. PICK k \in Keys : k = r.key  BY DEF RequestTypes
<1>5. /\ r.stage = "then" /\ pending' = [pending EXCEPT ![p] = d]
      /\ retained' = retained /\ data' = data /\ fence' = fence /\ warm' = warm
  BY <1>2, <1>3 DEF T!Delivered, T!ClientOnly, T!consumers
<1>6. /\ pending' \in Seq(RequestTypes) /\ Len(pending') = Len(pending) /\ pending'[p] = d
      /\ \A q \in 1 .. Len(pending) : q # p => pending'[q] = pending[q]  BY <1>1, <1>5 DEF ImageTypes
<1>7. PICK e \in EntryTypes : e = entry[k]  BY <1>1 DEF ImageTypes
<1>8. PICK f \in EntryTypes : f = [e EXCEPT !.status = "resolved", !.retryable = FALSE, !.retry = FALSE, !.hurried = FALSE]
  BY DEF EntryTypes
<1>9. f.on = e.on /\ f.current = e.current /\ f.status = "resolved" /\ f.subs = e.subs  BY <1>8 DEF EntryTypes
<1>10. /\ e.on /\ e.current = p => entry' = [entry EXCEPT ![k] = f] /\ urls' = urls
       /\ ~(e.on /\ e.current = p) => entry' = entry /\ urls' = urls \ {p}
  BY <1>2, <1>4, <1>7, <1>8 DEF T!Delivered
<1>11. /\ entry' \in [Keys -> EntryTypes] /\ \A j \in Keys : j # k => entry'[j] = entry[j]
       /\ entry'[k] = IF e.on /\ e.current = p THEN f ELSE e  BY <1>1, <1>7, <1>10 DEF ImageTypes
<1>12. ImageTypes'  BY <1>1, <1>5, <1>6, <1>11 DEF ImageTypes
<1>13. e.on /\ e.current = p => e.status # "resolved"  BY <1>2, <1>5, <1>7 DEF ImageInv, EntriesOK
<1>14. RetainedOK'
  <2>1. \A j \in Keys : Rests(j) => Rests(j)'  BY <1>7, <1>11, <1>13 DEF Rests
  <2> QED BY <1>5, <2>1, RestingStay
<1>15. WarmOK'  BY <1>5, <1>7, <1>9, <1>11 DEF WarmOK, ImageInv
<1>16. FencesOK'  BY <1>5 DEF FencesOK, ImageInv
<1>17. p \in urls /\ \A q : q # p => (q \in urls' <=> q \in urls)  BY <1>2, <1>5, <1>10 DEF ImageInv, RequestsOK
<1>18. RequestsOK'  BY <1>3, <1>5, <1>6, <1>17 DEF RequestsOK, ImageInv
<1>19. \A j \in Keys : entry[j].on /\ entry[j].current = p => j = k  BY <1>2, <1>4 DEF ImageInv, EntriesOK
<1>20. UrlsOK'
  <2>1. \A q \in 1 .. Len(pending) : pending[q].key \in Keys  BY <1>1, RequestsAre
  <2> SUFFICES ASSUME NEW q \in urls'
               PROVE  /\ q \in 1 .. Len(pending)
                      /\ pending'[q].stage = "then" \/ (entry'[pending'[q].key].on /\ entry'[pending'[q].key].status = "resolved" /\ entry'[pending'[q].key].current = q)
    BY <1>6 DEF UrlsOK, Shows
  <2>2. CASE q = p
    <3>1. e.on /\ e.current = p  BY <1>10, <2>2
    <3>2. entry'[k] = f  BY <1>11, <3>1
    <3> QED BY <1>3, <1>4, <1>6, <1>9, <2>2, <3>1, <3>2
  <2>3. CASE q # p
    <3>1. q \in 1 .. Len(pending) /\ (pending[q].stage = "then" \/ Shows(pending[q].key, q))
      BY <1>17, <2>3 DEF ImageInv, UrlsOK
    <3>2. pending'[q] = pending[q] /\ pending[q].key \in Keys  BY <1>6, <2>1, <2>3, <3>1
    <3>3. Shows(pending[q].key, q) => entry'[pending[q].key] = entry[pending[q].key]
      BY <1>7, <1>11, <1>13, <3>2 DEF Shows
    <3> QED BY <3>1, <3>2, <3>3 DEF Shows
  <2> QED BY <2>2, <2>3
<1>21. EntriesOK'
  <2> SUFFICES ASSUME NEW j \in Keys
               PROVE  /\ ~entry'[j].on => entry'[j].status = "idle"
                      /\ entry'[j].on => /\ entry'[j].current \in 1 .. Len(pending)
                                         /\ pending'[entry'[j].current].key = j
                                         /\ Newer(pending'[entry'[j].current], fence[j])
                      /\ entry'[j].on /\ entry'[j].status = "resolved"
                         => /\ entry'[j].current \in urls'
                            /\ pending'[entry'[j].current].stage = "done"
                            /\ pending'[entry'[j].current].image >= fence[j]  BY <1>5, <1>6 DEF EntriesOK
  <2>1. /\ ~entry[j].on => entry[j].status = "idle"
        /\ entry[j].on => /\ entry[j].current \in 1 .. Len(pending)
                          /\ pending[entry[j].current].key = j
                          /\ Newer(pending[entry[j].current], fence[j])
        /\ entry[j].on /\ entry[j].status = "resolved"
           => /\ entry[j].current \in urls
              /\ pending[entry[j].current].stage = "done"
              /\ pending[entry[j].current].image >= fence[j]  BY DEF ImageInv, EntriesOK
  <2>2. CASE entry[j].on /\ entry[j].current = p
    <3>1. j = k  BY <1>19, <2>2
    <3>2. e.on /\ e.current = p /\ entry'[j] = f  BY <1>7, <1>11, <2>2, <3>1
    <3>3. Newer(d, fence[j])  BY <1>3 DEF Newer, Busy
    <3>4. d.image >= fence[j]  BY <1>2, <1>3, <1>5, <2>1, <2>2 DEF Newer
    <3>5. p \in urls'  BY <1>10, <1>17, <3>2
    <3> QED BY <1>3, <1>4, <1>6, <1>9, <3>1, <3>2, <3>3, <3>4, <3>5
  <2>3. CASE ~(entry[j].on /\ entry[j].current = p)
    <3>1. entry'[j] = entry[j]  BY <1>7, <1>11, <2>3
    <3>2. entry[j].on => pending'[entry[j].current] = pending[entry[j].current]  BY <1>6, <2>1, <2>3
    <3>3. entry[j].on => (entry[j].current \in urls' <=> entry[j].current \in urls)  BY <1>17, <2>3
    <3> QED BY <2>1, <3>1, <3>2, <3>3
  <2> QED BY <2>2, <2>3
<1> QED BY <1>12, <1>14, <1>15, <1>16, <1>18, <1>20, <1>21 DEF ImageInv

(* The consumers that leave at once. *)
LEMMA LeaversKeep ==
  ASSUME ImageInv, NEW ks, NEW c,
         entry' = [k \in Keys |-> IF k \in ks THEN T!Left(entry[k], c) ELSE entry[k]],
         UNCHANGED <<pending, urls, data, fence, retained>>, warm' \in WarmTypes,
         \A k \in Keys : warm'[k] = "loading" => warm[k] = "loading" /\ (c = "warm" => k \notin ks)
  PROVE  ImageInv'
<1>1. \A k \in Keys : entry[k] \in EntryTypes  BY DEF ImageInv, ImageTypes
<1>2. ASSUME NEW k \in Keys
      PROVE  /\ T!Left(entry[k], c) \in EntryTypes
             /\ T!Left(entry[k], c).on = entry[k].on /\ T!Left(entry[k], c).current = entry[k].current
             /\ T!Left(entry[k], c).status = entry[k].status
             /\ T!Left(entry[k], c).subs = entry[k].subs \ {c}
             /\ entry[k].subs = {} /\ ~entry[k].orphan => ~T!Left(entry[k], c).orphan
  <2>1. PICK e \in EntryTypes : e = entry[k]  BY <1>1
  <2>2. /\ T!Left(e, c) \in EntryTypes
        /\ T!Left(e, c).on = e.on /\ T!Left(e, c).current = e.current /\ T!Left(e, c).status = e.status
        /\ T!Left(e, c).subs = e.subs \ {c}
        /\ e.subs = {} /\ ~e.orphan => ~T!Left(e, c).orphan  BY LeftIs
  <2> QED BY <2>1, <2>2
<1>3. entry' \in [Keys -> EntryTypes]  BY <1>1, <1>2
<1>4. ASSUME NEW k \in Keys
      PROVE  /\ entry'[k].on = entry[k].on /\ entry'[k].current = entry[k].current
             /\ entry'[k].status = entry[k].status
             /\ Rests(k) => Rests(k)'
             /\ warm'[k] = "loading" => "warm" \in entry'[k].subs
  <2>1. entry'[k] = IF k \in ks THEN T!Left(entry[k], c) ELSE entry[k]  OBVIOUS
  <2>2. warm[k] = "loading" => "warm" \in entry[k].subs  BY DEF ImageInv, WarmOK
  <2>3. CASE k \in ks  BY <1>2, <2>1, <2>2, <2>3 DEF Rests
  <2>4. CASE k \notin ks  BY <2>1, <2>2, <2>4 DEF Rests
  <2> QED BY <2>3, <2>4
<1> QED BY <1>3, <1>4, SubscribersChange

LEMMA WarmSettledKeeps ==
  ASSUME ImageInv, NEW k \in Keys, T!WarmSettled(k)
  PROVE  ImageInv'
<1>1. /\ warm[k] = "loading" /\ warm' = [warm EXCEPT ![k] = "settled"]
      /\ pending' = pending /\ urls' = urls /\ data' = data /\ fence' = fence /\ retained' = retained
  BY DEF T!WarmSettled
<1>2. PICK old \in EntryTypes : old = entry[k]  BY DEF ImageInv, ImageTypes
<1>3. PICK pinned \in EntryTypes : /\ pinned = [entry[k] EXCEPT !.subs = @ \cup {"pin"}, !.orphan = FALSE]
                                   /\ pinned.on = old.on /\ pinned.current = old.current /\ pinned.status = old.status
  <2>1. PICK s : s = old.subs \cup {"pin"} /\ s \in SUBSET (Consumers \cup {"card", "page", "pin", "warm"})
    <3>1. old.subs \in SUBSET (Consumers \cup {"card", "page", "pin", "warm"})  BY DEF EntryTypes
    <3>2. old.subs \cup {"pin"} \in SUBSET (Consumers \cup {"card", "page", "pin", "warm"})  BY <3>1, Zenon
    <3> QED BY <3>2
  <2>2. PICK f \in EntryTypes : f = [old EXCEPT !.subs = s, !.orphan = FALSE]  BY <2>1 DEF EntryTypes
  <2>3. f.on = old.on /\ f.current = old.current /\ f.status = old.status  BY <2>2 DEF EntryTypes
  <2>4. f = [entry[k] EXCEPT !.subs = @ \cup {"pin"}, !.orphan = FALSE]  BY <1>2, <2>1, <2>2
  <2> QED BY <2>3, <2>4
<1>4. \A e \in {old, pinned} : /\ T!Left(e, "warm") \in EntryTypes
                               /\ T!Left(e, "warm").on = old.on /\ T!Left(e, "warm").current = old.current
                               /\ T!Left(e, "warm").status = old.status
  <2>1. \A e \in EntryTypes : /\ T!Left(e, "warm") \in EntryTypes
                              /\ T!Left(e, "warm").on = e.on /\ T!Left(e, "warm").current = e.current
                              /\ T!Left(e, "warm").status = e.status  BY LeftIs
  <2> QED BY <1>3, <2>1
<1>5. ASSUME NEW g \in EntryTypes, g.on = old.on, g.current = old.current, g.status = old.status
      PROVE  \E es \in [Keys -> EntryTypes] : es = [entry EXCEPT ![k] = g] /\ es[k] = g /\ \A j \in Keys : j # k => es[j] = entry[j]
  <2>1. entry \in [Keys -> EntryTypes]  BY DEF ImageInv, ImageTypes
  <2>2. PICK es \in [Keys -> EntryTypes] : es = [entry EXCEPT ![k] = g]  BY <1>5, <2>1
  <2>3. es[k] = g /\ \A j \in Keys : j # k => es[j] = entry[j]  BY <2>1, <2>2
  <2> QED BY <2>2, <2>3
<1>6. PICK es \in [Keys -> EntryTypes] :
         /\ es[k].on = old.on /\ es[k].current = old.current /\ es[k].status = old.status
         /\ \A j \in Keys : j # k => es[j] = entry[j]
         /\ entry' = es \/ \E ks : entry' = T!Released(es, ks)
  <2>1. CASE entry[k].status = "error"
    <3>1. entry' = [entry EXCEPT ![k] = T!Left(old, "warm")]  BY <1>2, <2>1 DEF T!WarmSettled
    <3> QED BY <1>4, <1>5, <3>1
  <2>2. CASE entry[k].status # "error"
    <3>1. \E ks : entry' = T!Released([entry EXCEPT ![k] = T!Left(pinned, "warm")], ks)
      BY <1>3, <2>2 DEF T!WarmSettled
    <3> QED BY <1>4, <1>5, <3>1
  <2> QED BY <2>1, <2>2
<1>7. \A e \in EntryTypes : Lighter(e, e)  BY DEF Lighter
<1>8. entry' \in [Keys -> EntryTypes] /\ \A j \in Keys : Lighter(entry'[j], es[j])  BY <1>6, <1>7, ReleasedIs
<1>9. warm' \in WarmTypes /\ \A j \in Keys : warm'[j] = "loading" => j # k /\ warm[j] = "loading"
  BY <1>1 DEF ImageInv, ImageTypes, WarmTypes
<1>10. \A j \in Keys : warm[j] = "loading" => "warm" \in entry[j].subs  BY DEF ImageInv, WarmOK
<1>11. \A j \in Keys : Rests(j) => Rests(j)'  BY <1>1, <1>6, <1>8, <1>10 DEF Rests, Lighter
<1>12. \A j \in Keys : /\ entry'[j].on = entry[j].on /\ entry'[j].current = entry[j].current
                       /\ entry'[j].status = entry[j].status
                       /\ warm'[j] = "loading" => "warm" \in entry'[j].subs
  BY <1>2, <1>6, <1>8, <1>9, <1>10 DEF Lighter
<1> QED BY <1>1, <1>8, <1>9, <1>11, <1>12, SubscribersChange

LEMMA ImageSteps == ImageInv /\ [T!Next]_(T!vars) => ImageInv'
<1> SUFFICES ASSUME ImageInv, [T!Next]_(T!vars) PROVE ImageInv'  OBVIOUS
<1>1. warm \in WarmTypes /\ data \in [Keys -> Nat] /\ fence \in [Keys -> Nat]  BY DEF ImageInv, ImageTypes, WarmTypes
<1>2. ASSUME entry' = entry, pending' = pending, urls' = urls, fence' = fence, retained' = retained, warm' = warm,
             data' \in [Keys -> Nat], \A j \in Keys : data'[j] >= data[j]
      PROVE  ImageInv'
  <2>1. ImageTypes' /\ EntriesOK' /\ RequestsOK' /\ UrlsOK' /\ RetainedOK' /\ WarmOK'
    BY <1>2 DEF ImageInv, ImageTypes, EntriesOK, RequestsOK, UrlsOK, RetainedOK, WarmOK, Shows
  <2>2. FencesOK'
    <3>1. \A j \in Keys : fence[j] \in Nat /\ data[j] \in Nat /\ data'[j] \in Nat /\ fence[j] <= data[j] /\ data'[j] >= data[j]
      BY <1>1, <1>2 DEF ImageInv, FencesOK
    <3> QED BY <1>2, <3>1 DEF FencesOK
  <2> QED BY <2>1, <2>2 DEF ImageInv
<1>3. \A j \in Keys : data[j] >= data[j]  BY <1>1
<1>4. CASE UNCHANGED T!vars  BY <1>1, <1>2, <1>3, <1>4 DEF T!vars
<1>5. ASSUME NEW k \in Keys, T!OrphanTimer(k) \/ T!RetryTimer(k) \/ T!Invalidate(k)
                             \/ T!ReportDisplayFailure(k) \/ T!WarmSettled(k)
      PROVE  ImageInv'
  BY <1>5, OrphanTimerKeeps, RetryTimerKeeps, InvalidateKeeps, DisplayFailureKeeps, WarmSettledKeeps
<1>6. ASSUME NEW k \in Keys, T!RetainedTimer(k)
      PROVE  ImageInv'
  <2>1. /\ entry[k].subs = {} /\ T!Gone({k}) /\ data' = data /\ fence' = fence /\ warm' = warm
    BY <1>6 DEF T!RetainedTimer, T!ClientOnly, T!consumers
  <2>2. \A j \in {k} : "warm" \notin entry[j].subs  BY <2>1
  <2> QED BY <1>1, <2>1, <2>2, GoneKeeps
<1>7. ASSUME T!ClearRetainedCache
      PROVE  ImageInv'
  <2>1. PICK idle \in SUBSET Keys : idle = {k \in Keys : entry[k].on /\ entry[k].subs = {} /\ entry[k].status = "resolved"
                                                   /\ T!RetainsDisplayHandle(k)}  OBVIOUS
  <2>2. T!Gone(idle) /\ data' = data /\ fence' = fence /\ warm' = warm
    BY <1>7, <2>1 DEF T!ClearRetainedCache, T!ClientOnly, T!consumers
  <2>3. \A j \in idle : "warm" \notin entry[j].subs  BY <2>1
  <2> QED BY <1>1, <2>2, <2>3, GoneKeeps
<1>8. ASSUME NEW k \in Keys, T!Change(k)
      PROVE  ImageInv'
  <2>1. data[k] \in Nat /\ data' = [data EXCEPT ![k] = data[k] + 1]  BY <1>1, <1>8 DEF T!Change
  <2>2. data' \in [Keys -> Nat] /\ data'[k] = data[k] + 1 /\ \A j \in Keys : j # k => data'[j] = data[j]
    BY <1>1, <2>1
  <2>3. \A j \in Keys : data'[j] >= data[j]  BY <1>1, <2>1, <2>2
  <2>4. entry' = entry /\ pending' = pending /\ urls' = urls /\ fence' = fence /\ retained' = retained /\ warm' = warm
    BY <1>8 DEF T!Change, T!consumers
  <2> QED BY <1>2, <2>2, <2>3, <2>4
<1>9. ASSUME NEW k \in Keys, NEW c, T!Subscribe(k, c), T!ClientOnly
      PROVE  ImageInv'
  <2>1. data' = data /\ fence' = fence /\ warm' = warm  BY <1>9 DEF T!ClientOnly, T!consumers
  <2> QED BY <1>1, <1>9, <2>1, SubscribeKeeps DEF T!Subscribe
<1>10. ASSUME NEW k \in Keys, T!EnterView(k) \/ T!PrefetchPage(k)
       PROVE  ImageInv'
  <2>1. CASE T!EnterView(k)
    <3>1. T!Subscribe(k, "card") /\ T!ClientOnly  BY <2>1 DEF T!EnterView
    <3> QED BY <1>9, <3>1
  <2>2. CASE T!PrefetchPage(k)
    <3>1. T!Subscribe(k, "page") /\ T!ClientOnly  BY <2>2 DEF T!PrefetchPage
    <3> QED BY <1>9, <3>1
  <2> QED BY <1>10, <2>1, <2>2
<1>11. ASSUME NEW k \in Keys, T!LeaveView(k) \/ T!LeavePage(k)
       PROVE  ImageInv'
  <2>1. PICK c \in {"card", "page"} : T!Unsubscribe(k, c) /\ T!ClientOnly  BY <1>11 DEF T!LeaveView, T!LeavePage
  <2>2. data' = data /\ fence' = fence /\ warm' = warm /\ c # "warm"  BY <2>1 DEF T!ClientOnly, T!consumers
  <2> QED BY <2>1, <2>2, UnsubscribeKeeps
<1>12. ASSUME NEW k \in Keys, T!Visit(k)
       PROVE  ImageInv'
  <2>1. PICK out : T!SubscribeFor(k, "pin", out)  BY <1>12 DEF T!Visit
  <2>2. data' = data /\ fence' = fence /\ warm' = warm  BY <1>12 DEF T!Visit
  <2> QED BY <1>1, <2>1, <2>2, SubscribeKeeps
<1>13. ASSUME \/ \E k \in Keys : T!VisitAgain(k) \/ T!PinSettled(k)
              \/ T!ClearPins
       PROVE  ImageInv'
  <2>1. /\ pending' = pending /\ urls' = urls /\ data' = data /\ fence' = fence /\ retained' = retained /\ warm' = warm
        /\ \E ks : entry' = T!Released(entry, ks)  BY <1>13 DEF T!VisitAgain, T!PinSettled, T!ClearPins
  <2> QED BY <2>1, ReleasedKeeps
<1>14. ASSUME NEW items \in SUBSET Keys, T!Update(items)
       PROVE  ImageInv'
  <2>1. PICK out : out = {k \in Keys \ items : warm[k] # "out"}  OBVIOUS
  <2>2. PICK ks : ks = {k \in out : "warm" \in entry[k].subs}  OBVIOUS
  <2>3. /\ warm' = [k \in Keys |-> IF k \notin items THEN "out" ELSE IF warm[k] = "out" THEN "queued" ELSE warm[k]]
        /\ UNCHANGED <<pending, urls, data, fence, retained>>  BY <1>14 DEF T!Update
  <2>4. entry' = [k \in Keys |-> IF k \in out /\ "warm" \in entry[k].subs THEN T!Left(entry[k], "warm") ELSE entry[k]]
    BY <1>14, <2>1 DEF T!Update
  <2>5. entry' = [k \in Keys |-> IF k \in ks THEN T!Left(entry[k], "warm") ELSE entry[k]]  BY <2>2, <2>4
  <2>6. warm' \in WarmTypes  BY <1>1, <2>3 DEF WarmTypes
  <2>7. \A k \in Keys : warm'[k] = "loading" => warm[k] = "loading" /\ k \notin ks  BY <2>1, <2>2, <2>3
  <2> QED BY <2>3, <2>5, <2>6, <2>7, LeaversKeep
<1>15. ASSUME NEW k \in Keys, T!Pump(k)
       PROVE  ImageInv'
  <2>1. T!Subscribe(k, "warm") /\ data' = data /\ fence' = fence /\ warm' = [warm EXCEPT ![k] = "loading"]
    BY <1>15 DEF T!Pump
  <2>2. warm' \in WarmTypes /\ \A j \in Keys : warm'[j] = "loading" => warm[j] = "loading" \/ (j = k /\ "warm" = "warm")
    BY <1>1, <2>1 DEF WarmTypes
  <2> QED BY <2>1, <2>2, SubscribeKeeps DEF T!Subscribe
<1>16. ASSUME NEW p \in DOMAIN pending, T!RequestAnswered(p) \/ T!Completed(p) \/ T!BytesRead(p)
                                        \/ T!CompletionTimeout(p) \/ T!Delivered(p) \/ T!Failed(p)
       PROVE  ImageInv'
  <2>1. p \in 1 .. Len(pending)  BY DEF ImageInv, ImageTypes
  <2> QED BY <1>16, <2>1, AnsweredKeeps, CompletedKeeps, BytesReadKeeps, TimeoutKeeps, DeliveredKeeps, FailedKeeps
<1> QED BY <1>4, <1>5, <1>6, <1>7, <1>8, <1>10, <1>11, <1>12, <1>13, <1>14, <1>15, <1>16 DEF T!Next

(* Thumbnails: whatever completions arrive late, an image on screen is never
   older than the last change the client was told of and its URL is live; and
   every Blob URL is the image of an entry or about to be delivered
   (thumbnail/client.ts, thumbnail/backendAdapter.ts). *)
THEOREM ImagesAreTrue == T!Spec => [](T!ImageIsCurrent /\ T!NoUrlIsLost)
<1>1. ImageInv => T!ImageIsCurrent /\ T!NoUrlIsLost
  <2> SUFFICES ASSUME ImageInv PROVE T!ImageIsCurrent /\ T!NoUrlIsLost  OBVIOUS
  <2>1. T!ImageIsCurrent  BY DEF T!ImageIsCurrent, ImageInv, EntriesOK
  <2>2. ASSUME NEW p \in urls
        PROVE  \/ pending[p].stage = "then"
               \/ \E k \in Keys : entry[k].on /\ entry[k].status = "resolved" /\ entry[k].current = p
    <3>1. p \in 1 .. Len(pending) /\ (pending[p].stage = "then" \/ Shows(pending[p].key, p))  BY DEF ImageInv, UrlsOK
    <3>2. pending[p].key \in Keys  BY <3>1, RequestsAre DEF ImageInv
    <3> QED BY <3>1, <3>2 DEF Shows
  <2>3. T!NoUrlIsLost  BY <2>2 DEF T!NoUrlIsLost
  <2> QED BY <2>1, <2>3
<1> QED BY <1>1, ImagesAtFirst, ImageSteps, PTL DEF T!Spec

----
(* The history of automatic decisions (Activity).  The count that is shown is
   the backend's once nothing is left to be announced or answered, and what
   was acknowledged never comes back as unread: every answer that may still
   be shown was read after the acknowledgement, or is dropped for its number. *)

CONSTANTS PageSize, FeedSize, MaxDecisions

VARIABLES records, told, list, acks, acked, counted, state, hidden, session, failed, unread, unreadIds,
          open, section

A == INSTANCE Activity

ListFields == {"items", "page", "total", "unread", "loading", "error", "body", "count"}
ReadFields == {"page", "meta", "replace", "body", "count", "got"}

(* Each reading was begun before the next one of its kind was counted. *)
HistoryTypes ==
  /\ records \in Seq(BOOLEAN) /\ told \subseteq 1 .. Len(records)
  /\ ListFields \subseteq DOMAIN list /\ list.body \in Nat /\ list.count \in Nat
  /\ DOMAIN list.items \subseteq 1 .. Len(records)
  /\ \A r \in reads : /\ ReadFields \subseteq DOMAIN r /\ r.body \in Nat /\ r.count \in Nat
                      /\ ~r.meta => r.body <= list.body
                      /\ r.count <= list.count
                      /\ r.got # None => DOMAIN r.got.items \subseteq 1 .. Len(records)
  /\ DOMAIN acks \subseteq 1 .. Len(records)

(* An acknowledgement is in every page that may still be shown. *)
AcknowledgedKnown ==
  /\ acked \subseteq 1 .. Len(records)
  /\ \A i \in 1 .. Len(records) : i \in acked \/ (i \in DOMAIN acks /\ acks[i] = "served") => records[i]
  /\ \A i \in acked \cap DOMAIN list.items : list.items[i]
  /\ \A r \in reads : r.got # None /\ ~r.meta /\ r.body = list.body
                      => \A i \in acked \cap DOMAIN r.got.items : r.got.items[i]

(* Nothing has changed at the backend that the page will not ask about again. *)
Steady == told = 1 .. Len(records) /\ counted # "lost" /\ \A i \in DOMAIN acks : acks[i] # "served"

CountsKnown ==
  Steady => /\ counted = "yes" => list.unread = A!Unacknowledged
            /\ \A r \in reads : r.got # None /\ r.count = list.count => r.got.unread = A!Unacknowledged

HistoryInv == HistoryTypes /\ AcknowledgedKnown /\ CountsKnown

LEMMA HistoryAtFirst == A!Init => HistoryInv
<1> SUFFICES ASSUME A!Init PROVE HistoryInv  OBVIOUS
<1>1. records \in Seq(BOOLEAN) /\ DOMAIN records = 1 .. Len(records) /\ Len(records) \in Nat
  <2>1. records = <<>> \/ records = <<FALSE>>  BY DEF A!Init
  <2>2. <<>> \in Seq(BOOLEAN) /\ <<FALSE>> \in Seq(BOOLEAN)  OBVIOUS
  <2>3. records \in Seq(BOOLEAN)  BY <2>1, <2>2
  <2> QED BY <2>3
<1>2. /\ DOMAIN list = ListFields /\ list.body = 0 /\ list.count = 1 /\ list.items = <<>> /\ acks = <<>> /\ acked = {}
      /\ counted = "no"  BY DEF A!Init, ListFields
<1>3. DOMAIN list.items = {} /\ DOMAIN acks = {}  BY <1>2
<1>4. \A r \in reads : /\ DOMAIN r = ReadFields /\ r.body = 0 /\ r.count = 1 /\ r.meta /\ r.got = None
  BY DEF A!Init, ReadFields
<1>5. told = 1 .. Len(records)  BY <1>1 DEF A!Init
<1>6. HistoryTypes  BY <1>1, <1>2, <1>3, <1>4, <1>5 DEF HistoryTypes
<1>7. AcknowledgedKnown  BY <1>2, <1>3, <1>4 DEF AcknowledgedKnown
<1>8. CountsKnown  BY <1>2, <1>4 DEF CountsKnown
<1> QED BY <1>6, <1>7, <1>8 DEF HistoryInv

(* A step that leaves the backend's history and the page's knowledge alone. *)
LEMMA HistoryUntouched ==
  ASSUME HistoryInv, UNCHANGED A!historyVars
  PROVE  HistoryInv'
<1>1. HistoryTypes' /\ AcknowledgedKnown'  BY DEF HistoryInv, HistoryTypes, AcknowledgedKnown, A!historyVars
<1>2. A!Unacknowledged' = A!Unacknowledged  BY DEF A!Unacknowledged, A!historyVars
<1>3. CountsKnown'  BY <1>2 DEF HistoryInv, CountsKnown, Steady, A!historyVars
<1> QED BY <1>1, <1>3 DEF HistoryInv

(* A new reading: what was read for the count before is not shown any more. *)
Begun(r) == /\ ReadFields \subseteq DOMAIN r /\ r.got = None
            /\ r.body \in Nat /\ (~r.meta => r.body <= list'.body) /\ r.count = list'.count

LEMMA ReadingBegins ==
  ASSUME HistoryInv, NEW r, reads' = reads \cup {r}, Begun(r), counted' = "no",
         records' \in Seq(BOOLEAN), Len(records') = Len(records),
         \A i \in 1 .. Len(records) : records[i] => records'[i],
         told' \subseteq 1 .. Len(records),
         ListFields \subseteq DOMAIN list', list'.count = list.count + 1, list'.body \in Nat, list'.body >= list.body,
         DOMAIN list'.items \subseteq 1 .. Len(records), DOMAIN acks' \subseteq DOMAIN acks,
         \A i \in DOMAIN acks' : acks'[i] = acks[i],
         acked' = acked \/ (list'.body > list.body /\ \A i \in acked' : i \in acked \/ (i \in DOMAIN acks /\ acks[i] = "served")),
         \A i \in acked' \cap DOMAIN list'.items : list'.items[i]
  PROVE  HistoryInv'
<1>0. /\ records \in Seq(BOOLEAN) /\ list.count \in Nat /\ list.body \in Nat /\ Len(records) \in Nat
      /\ \A q \in reads : /\ ReadFields \subseteq DOMAIN q /\ q.body \in Nat /\ q.count \in Nat
                          /\ ~q.meta => q.body <= list.body
                          /\ q.count <= list.count
                          /\ q.got # None => DOMAIN q.got.items \subseteq 1 .. Len(records)
  BY DEF HistoryInv, HistoryTypes
<1>1. \A q \in reads' : q = r \/ q \in reads  OBVIOUS
<1>2. list'.count \in Nat  BY <1>0
<1>3. \A q \in reads' : /\ ReadFields \subseteq DOMAIN q /\ q.body \in Nat /\ q.count \in Nat
                        /\ ~q.meta => q.body <= list'.body
                        /\ q.count <= list'.count
                        /\ q.got # None => q \in reads /\ q.count < list'.count
                                           /\ DOMAIN q.got.items \subseteq 1 .. Len(records)
  BY <1>0, <1>1, <1>2 DEF Begun
<1>4. HistoryTypes'  BY <1>0, <1>2, <1>3 DEF HistoryTypes, HistoryInv
<1>5. /\ acked \subseteq 1 .. Len(records)
      /\ \A i \in 1 .. Len(records) : i \in acked \/ (i \in DOMAIN acks /\ acks[i] = "served") => records[i]
      /\ \A q \in reads : q.got # None /\ ~q.meta /\ q.body = list.body
                          => \A i \in acked \cap DOMAIN q.got.items : q.got.items[i]
  BY DEF HistoryInv, AcknowledgedKnown
<1>6. AcknowledgedKnown'
  <2>1. acked' \subseteq 1 .. Len(records')  BY <1>0, <1>5 DEF HistoryInv, HistoryTypes
  <2>2. \A i \in 1 .. Len(records') : i \in acked' \/ (i \in DOMAIN acks' /\ acks'[i] = "served") => records'[i]
    BY <1>5
  <2>3. ASSUME NEW q \in reads', q.got # None, ~q.meta, q.body = list'.body
        PROVE  \A i \in acked' \cap DOMAIN q.got.items : q.got.items[i]
    <3>1. q \in reads /\ q.body <= list.body /\ q.body \in Nat  BY <1>0, <1>3, <2>3
    <3>2. q.body = list.body /\ acked' = acked  BY <1>0, <2>3, <3>1
    <3> QED BY <1>5, <2>3, <3>1, <3>2
  <2> QED BY <2>1, <2>2, <2>3 DEF AcknowledgedKnown
<1>7. CountsKnown'  BY <1>0, <1>2, <1>3 DEF CountsKnown
<1> QED BY <1>4, <1>6, <1>7 DEF HistoryInv


LEMMA PageReadBegins ==
  ASSUME HistoryInv, NEW p, NEW replace, A!ReadPage(p, replace), records' = records,
         told' \subseteq 1 .. Len(records), acks' = acks, acked' = acked
  PROVE  HistoryInv'
<1>1. PICK r : r = [page |-> p, meta |-> FALSE, replace |-> replace, body |-> list.body + 1, count |-> list.count + 1, got |-> None]
  OBVIOUS
<1>2. /\ list' = [list EXCEPT !.body = @ + 1, !.count = @ + 1, !.loading = TRUE, !.error = FALSE]
      /\ reads' = reads \cup {r} /\ counted' = "no"  BY <1>1 DEF A!ReadPage
<1>3. ListFields \subseteq DOMAIN list /\ list.body \in Nat /\ list.count \in Nat /\ records \in Seq(BOOLEAN)
      /\ DOMAIN list.items \subseteq 1 .. Len(records) /\ \A i \in acked \cap DOMAIN list.items : list.items[i]
  BY DEF HistoryInv, HistoryTypes, AcknowledgedKnown
<1>4. /\ DOMAIN list' = DOMAIN list /\ list'.body = list.body + 1 /\ list'.count = list.count + 1
      /\ list'.items = list.items  BY <1>2, <1>3 DEF ListFields
<1>5. Begun(r)  BY <1>1, <1>3, <1>4 DEF Begun, ReadFields
<1>6. list'.body \in Nat /\ list'.body >= list.body  BY <1>3, <1>4
<1> QED BY <1>2, <1>3, <1>4, <1>5, <1>6, ReadingBegins

LEMMA MetaReadBegins ==
  ASSUME HistoryInv, A!ReadMeta(list), records' = records,
         told' \subseteq 1 .. Len(records), acks' = acks, acked' = acked
  PROVE  HistoryInv'
<1>1. PICK r : r = [page |-> 1, meta |-> TRUE, replace |-> FALSE, body |-> 0, count |-> list.count + 1, got |-> None]
  OBVIOUS
<1>2. /\ list' = [list EXCEPT !.count = @ + 1] /\ reads' = reads \cup {r} /\ counted' = "no"  BY <1>1 DEF A!ReadMeta
<1>3. ListFields \subseteq DOMAIN list /\ list.body \in Nat /\ list.count \in Nat /\ records \in Seq(BOOLEAN)
      /\ DOMAIN list.items \subseteq 1 .. Len(records) /\ \A i \in acked \cap DOMAIN list.items : list.items[i]
  BY DEF HistoryInv, HistoryTypes, AcknowledgedKnown
<1>4. /\ DOMAIN list' = DOMAIN list /\ list'.body = list.body /\ list'.count = list.count + 1
      /\ list'.items = list.items  BY <1>2, <1>3 DEF ListFields
<1>5. Begun(r)  BY <1>1, <1>3, <1>4 DEF Begun, ReadFields
<1>6. list'.body \in Nat /\ list'.body >= list.body  BY <1>3, <1>4
<1> QED BY <1>2, <1>3, <1>4, <1>5, <1>6, ReadingBegins

LEMMA AcknowledgementAnswered ==
  ASSUME HistoryInv, NEW i \in DOMAIN acks, A!AcknowledgeAnswered(i)
  PROVE  HistoryInv'
<1>1. /\ acks[i] = "served" /\ acks' = [j \in DOMAIN acks \ {i} |-> acks[j]] /\ acked' = acked \cup {i}
      /\ records' = records /\ told' = told /\ A!ReadMeta(A!Acked(i))  BY DEF A!AcknowledgeAnswered
<1>2. ListFields \subseteq DOMAIN list /\ list.body \in Nat /\ list.count \in Nat /\ records \in Seq(BOOLEAN)
      /\ DOMAIN list.items \subseteq 1 .. Len(records) /\ told \subseteq 1 .. Len(records)
      /\ \A j \in acked \cap DOMAIN list.items : list.items[j]
  BY DEF HistoryInv, HistoryTypes, AcknowledgedKnown
<1>3. PICK items : items = [j \in DOMAIN list.items |-> j = i \/ list.items[j]]  OBVIOUS
<1>4. PICK n : n = IF list.unread = 0 THEN 0 ELSE list.unread - 1  OBVIOUS
<1>5. PICK l : l = [list EXCEPT !.items = items, !.unread = n]  OBVIOUS
<1>6. l = A!Marked(list, i)  BY <1>3, <1>4, <1>5 DEF A!Marked
<1>7. DOMAIN l = DOMAIN list /\ l.items = items /\ l.body = list.body /\ l.count = list.count
  BY <1>2, <1>5 DEF ListFields
<1>8. PICK m : m = [l EXCEPT !.body = @ + 1, !.loading = FALSE]  OBVIOUS
<1>9. m = A!Acked(i)  BY <1>6, <1>8 DEF A!Acked
<1>10. DOMAIN m = DOMAIN list /\ m.items = items /\ m.body = list.body + 1 /\ m.count = list.count
  BY <1>2, <1>7, <1>8 DEF ListFields
<1>11. PICK r : r = [page |-> 1, meta |-> TRUE, replace |-> FALSE, body |-> 0, count |-> m.count + 1, got |-> None]
  OBVIOUS
<1>12. /\ list' = [m EXCEPT !.count = @ + 1] /\ reads' = reads \cup {r} /\ counted' = "no"
  BY <1>1, <1>9, <1>11 DEF A!ReadMeta
<1>13. /\ DOMAIN list' = DOMAIN list /\ list'.body = list.body + 1 /\ list'.count = list.count + 1
       /\ list'.items = items  BY <1>2, <1>10, <1>12 DEF ListFields
<1>14. Begun(r)  BY <1>2, <1>10, <1>11, <1>13 DEF Begun, ReadFields
<1>15. list'.body \in Nat /\ list'.body > list.body /\ list'.body >= list.body  BY <1>2, <1>13
<1>16. \A j \in acked' \cap DOMAIN list'.items : list'.items[j]  BY <1>1, <1>2, <1>3, <1>13
<1>17. DOMAIN list'.items \subseteq 1 .. Len(records)  BY <1>2, <1>3, <1>13
<1>18. \A j \in acked' : j \in acked \/ (j \in DOMAIN acks /\ acks[j] = "served")  BY <1>1
<1>19. DOMAIN acks' \subseteq DOMAIN acks /\ \A j \in DOMAIN acks' : acks'[j] = acks[j]  BY <1>1
<1>20. /\ \A j \in 1 .. Len(records) : records[j] => records'[j]
       /\ told' \subseteq 1 .. Len(records) /\ records' \in Seq(BOOLEAN) /\ Len(records') = Len(records)
       /\ ListFields \subseteq DOMAIN list'  BY <1>1, <1>2, <1>13
<1> QED BY <1>12, <1>13, <1>14, <1>15, <1>16, <1>17, <1>18, <1>19, <1>20, ReadingBegins

(* An answer of the backend is used or not; nothing else of the history changes. *)
LEMMA AnswerShown ==
  ASSUME HistoryInv, NEW r \in reads, r.got # None, reads' = reads \ {r},
         UNCHANGED <<records, told, acks, acked>>,
         ListFields \subseteq DOMAIN list', list'.body = list.body, list'.count = list.count,
         \A i \in DOMAIN list'.items :
            \/ i \in DOMAIN list.items /\ list'.items[i] = list.items[i]
            \/ ~r.meta /\ r.body = list.body /\ i \in DOMAIN r.got.items /\ list'.items[i] = r.got.items[i],
         (counted = "lost") = (counted' = "lost"),
         \/ counted' = counted /\ list'.unread = list.unread
         \/ r.count = list.count /\ list'.unread = r.got.unread
  PROVE  HistoryInv'
<1>1. DOMAIN r.got.items \subseteq 1 .. Len(records) /\ DOMAIN list.items \subseteq 1 .. Len(records)
  BY DEF HistoryInv, HistoryTypes
<1>2. HistoryTypes'
  <2>1. \A i \in DOMAIN list'.items : i \in 1 .. Len(records)  BY <1>1
  <2> QED BY <2>1 DEF HistoryInv, HistoryTypes
<1>3. AcknowledgedKnown'
  <2>1. /\ \A i \in acked \cap DOMAIN list.items : list.items[i]
        /\ \A q \in reads : q.got # None /\ ~q.meta /\ q.body = list.body
                      => \A i \in acked \cap DOMAIN q.got.items : q.got.items[i]
    BY DEF HistoryInv, AcknowledgedKnown
  <2>2. \A i \in acked \cap DOMAIN list'.items : list'.items[i]  BY <2>1
  <2> QED BY <2>1, <2>2 DEF HistoryInv, AcknowledgedKnown
<1>4. CountsKnown'
  <2>1. A!Unacknowledged' = A!Unacknowledged  BY DEF A!Unacknowledged
  <2> QED BY <2>1 DEF HistoryInv, CountsKnown, Steady
<1> QED BY <1>2, <1>3, <1>4 DEF HistoryInv

LEMMA MetaShown ==
  ASSUME HistoryInv, NEW r \in reads, A!MetaAnswered(r)
  PROVE  HistoryInv'
<1>1. r.got # None /\ reads' = reads \ {r} /\ UNCHANGED <<records, told, acks, acked>>
  BY DEF A!MetaAnswered, A!Answered
<1>2. ListFields \subseteq DOMAIN list  BY DEF HistoryInv, HistoryTypes
<1>3. CASE list' = list /\ counted' = counted  BY <1>1, <1>2, <1>3, AnswerShown
<1>4. CASE r.count = list.count /\ list' = A!Counted(list, r) /\ counted' = A!Known(r)
  <2>1. PICK t, u : t = r.got.total /\ u = r.got.unread  OBVIOUS
  <2>2. list' = [list EXCEPT !.total = t, !.unread = u]  BY <1>4, <2>1 DEF A!Counted
  <2>3. DOMAIN list' = DOMAIN list /\ list'.body = list.body /\ list'.count = list.count /\ list'.items = list.items /\ list'.unread = u
    BY <1>2, <2>2 DEF ListFields
  <2>4. (counted = "lost") = (counted' = "lost")  BY <1>4 DEF A!Known
  <2> QED BY <1>1, <1>2, <1>4, <2>1, <2>3, <2>4, AnswerShown
<1> QED BY <1>3, <1>4 DEF A!MetaAnswered

LEMMA PageShown ==
  ASSUME HistoryInv, NEW r \in reads, A!PageAnswered(r)
  PROVE  HistoryInv'
<1>1. r.got # None /\ ~r.meta /\ reads' = reads \ {r} /\ UNCHANGED <<records, told, acks, acked>>
  BY DEF A!PageAnswered, A!Answered
<1>2. ListFields \subseteq DOMAIN list  BY DEF HistoryInv, HistoryTypes
<1>3. CASE list' = list /\ counted' = counted  BY <1>1, <1>2, <1>3, AnswerShown
<1>4. CASE list' = [list EXCEPT !.error = TRUE, !.loading = FALSE] /\ counted' = counted
  <2>1. DOMAIN list' = DOMAIN list /\ list'.body = list.body /\ list'.count = list.count /\ list'.items = list.items /\ list'.unread = list.unread
    BY <1>2, <1>4 DEF ListFields
  <2> QED BY <1>1, <1>2, <1>4, <2>1, AnswerShown
<1>5. PICK known : known = IF r.replace THEN <<>> ELSE list.items  OBVIOUS
<1>6. PICK items : items = A!Over(r.got.items, known)  OBVIOUS
<1>7. PICK l : l = [list EXCEPT !.items = items, !.page = r.page, !.loading = FALSE]  OBVIOUS
<1>8. \/ list' = list /\ counted' = counted
      \/ list' = [list EXCEPT !.error = TRUE, !.loading = FALSE] /\ counted' = counted
      \/ /\ r.body = list.body /\ list' = (IF r.count = list.count THEN A!Counted(l, r) ELSE l)
         /\ counted' = A!Known(r)  BY <1>5, <1>6, <1>7 DEF A!PageAnswered
<1>9. DOMAIN l = DOMAIN list /\ l.body = list.body /\ l.count = list.count /\ l.items = items /\ l.unread = list.unread
  BY <1>2, <1>7 DEF ListFields
<1>10. \A i \in DOMAIN items : \/ i \in DOMAIN list.items /\ items[i] = list.items[i]
                               \/ i \in DOMAIN r.got.items /\ items[i] = r.got.items[i]
  <2>1. DOMAIN items = DOMAIN r.got.items \cup DOMAIN known
        /\ \A i \in DOMAIN items : items[i] = IF i \in DOMAIN r.got.items THEN r.got.items[i] ELSE known[i]
    BY <1>6 DEF A!Over
  <2>2. CASE r.replace
    <3>1. DOMAIN known = {}  BY <1>5, <2>2
    <3> QED BY <2>1, <3>1
  <2>3. CASE ~r.replace
    <3>1. known = list.items  BY <1>5, <2>3
    <3> QED BY <2>1, <3>1
  <2> QED BY <2>2, <2>3
<1>11. CASE r.body = list.body /\ r.count # list.count /\ list' = l /\ counted' = A!Known(r)
  <2>1. \A i \in DOMAIN list'.items :
            \/ i \in DOMAIN list.items /\ list'.items[i] = list.items[i]
            \/ ~r.meta /\ r.body = list.body /\ i \in DOMAIN r.got.items /\ list'.items[i] = r.got.items[i]
    BY <1>1, <1>9, <1>10, <1>11
  <2>2. counted' = counted  BY <1>11 DEF A!Known
  <2>3. ListFields \subseteq DOMAIN list' /\ list'.body = list.body /\ list'.count = list.count /\ list'.unread = list.unread
    BY <1>2, <1>9, <1>11
  <2> QED BY <1>1, <1>11, <2>1, <2>2, <2>3, AnswerShown
<1>12. CASE r.body = list.body /\ r.count = list.count /\ list' = A!Counted(l, r) /\ counted' = A!Known(r)
  <2>1. PICK t, u : t = r.got.total /\ u = r.got.unread  OBVIOUS
  <2>2. list' = [l EXCEPT !.total = t, !.unread = u]  BY <1>12, <2>1 DEF A!Counted
  <2>3. DOMAIN list' = DOMAIN list /\ list'.body = list.body /\ list'.count = list.count /\ list'.items = items /\ list'.unread = u
    BY <1>2, <1>9, <2>2 DEF ListFields
  <2>4. \A i \in DOMAIN list'.items :
            \/ i \in DOMAIN list.items /\ list'.items[i] = list.items[i]
            \/ ~r.meta /\ r.body = list.body /\ i \in DOMAIN r.got.items /\ list'.items[i] = r.got.items[i]
    BY <1>1, <1>10, <1>12, <2>3
  <2>5. (counted = "lost") = (counted' = "lost")  BY <1>12 DEF A!Known
  <2> QED BY <1>1, <1>2, <1>12, <2>1, <2>3, <2>4, <2>5, AnswerShown
<1> QED BY <1>3, <1>4, <1>8, <1>11, <1>12


LEMMA ReadingServed ==
  ASSUME HistoryInv, NEW r \in reads, A!ReadServed(r)
  PROVE  HistoryInv'
<1>1. /\ r.got = None /\ UNCHANGED <<records, told, list, acks, acked, counted>>  BY DEF A!ReadServed
<1>3. PICK g : g = [items |-> A!Page(r.page, IF r.meta THEN 1 ELSE PageSize), total |-> Len(records),
                    unread |-> A!Unacknowledged]  OBVIOUS
<1>4. PICK s : s = [r EXCEPT !.got = g]  OBVIOUS
<1>5. reads' = (reads \ {r}) \cup {s}  BY <1>3, <1>4 DEF A!ReadServed
<1>6. DOMAIN s = DOMAIN r /\ s.got = g /\ s.body = r.body /\ s.count = r.count /\ s.meta = r.meta
  BY <1>4 DEF HistoryInv, HistoryTypes, ReadFields
<1>7. \A p, size : /\ DOMAIN A!Page(p, size) \subseteq 1 .. Len(records)
                   /\ \A i \in DOMAIN A!Page(p, size) : A!Page(p, size)[i] = records[i]  BY DEF A!Page
<1>8. /\ DOMAIN g.items \subseteq 1 .. Len(records) /\ \A i \in DOMAIN g.items : g.items[i] = records[i]
      /\ g.unread = A!Unacknowledged  BY <1>3, <1>7
<1>9. HistoryTypes'  BY <1>1, <1>5, <1>6, <1>8 DEF HistoryInv, HistoryTypes
<1>10. AcknowledgedKnown'
  <2>1. \A i \in acked : i \in 1 .. Len(records) /\ records[i]  BY DEF HistoryInv, AcknowledgedKnown
  <2>2. \A i \in acked \cap DOMAIN s.got.items : s.got.items[i]  BY <1>6, <1>8, <2>1
  <2> QED BY <1>1, <1>5, <2>2 DEF HistoryInv, AcknowledgedKnown
<1>11. CountsKnown'
  <2>1. A!Unacknowledged' = A!Unacknowledged  BY <1>1 DEF A!Unacknowledged
  <2> QED BY <1>1, <1>5, <1>6, <1>8, <2>1 DEF HistoryInv, CountsKnown, Steady
<1> QED BY <1>9, <1>10, <1>11 DEF HistoryInv

(* Acknowledgements on their way. *)
LEMMA AcknowledgementMoves ==
  ASSUME HistoryInv, NEW i,
         \/ i \in DOMAIN list.items /\ A!Acknowledge(i)
         \/ i \in DOMAIN acks /\ (A!AcknowledgeServed(i) \/ A!AcknowledgeFails(i))
  PROVE  HistoryInv'
<1>1. CASE i \in DOMAIN list.items /\ A!Acknowledge(i)
  <2>1. /\ acks' = [j \in DOMAIN acks \cup {i} |-> IF j = i THEN "sent" ELSE acks[j]] /\ i \notin DOMAIN acks
        /\ UNCHANGED <<records, told, list, reads, acked, counted>>  BY <1>1 DEF A!Acknowledge
  <2>2. i \in 1 .. Len(records)  BY <1>1 DEF HistoryInv, HistoryTypes
  <2>3. /\ DOMAIN acks' = DOMAIN acks \cup {i} /\ acks'[i] = "sent"
        /\ \A j \in DOMAIN acks : acks'[j] = acks[j]  BY <2>1
  <2>4. HistoryTypes'  BY <2>1, <2>2, <2>3 DEF HistoryInv, HistoryTypes
  <2>5. AcknowledgedKnown'  BY <2>1, <2>3 DEF HistoryInv, AcknowledgedKnown
  <2>6. CountsKnown'
    <3>1. A!Unacknowledged' = A!Unacknowledged  BY <2>1 DEF A!Unacknowledged
    <3>2. Steady' => Steady  BY <2>1, <2>3 DEF Steady
    <3> QED BY <2>1, <3>1, <3>2 DEF HistoryInv, CountsKnown
  <2> QED BY <2>4, <2>5, <2>6 DEF HistoryInv
<1>2. CASE i \in DOMAIN acks /\ A!AcknowledgeServed(i)
  <2>1. /\ acks' = [acks EXCEPT ![i] = "served"] /\ records' = [records EXCEPT ![i] = TRUE]
        /\ UNCHANGED <<told, list, reads, acked, counted>>  BY <1>2 DEF A!AcknowledgeServed
  <2>2. i \in 1 .. Len(records) /\ records \in Seq(BOOLEAN)  BY <1>2 DEF HistoryInv, HistoryTypes
  <2>3. /\ DOMAIN acks' = DOMAIN acks /\ acks'[i] = "served"
        /\ \A j \in DOMAIN acks : j # i => acks'[j] = acks[j]  BY <1>2, <2>1
  <2>4. /\ records' \in Seq(BOOLEAN) /\ Len(records') = Len(records) /\ records'[i] = TRUE
        /\ \A j \in 1 .. Len(records) : j # i => records'[j] = records[j]  BY <2>1, <2>2
  <2>5. HistoryTypes'  BY <2>1, <2>3, <2>4 DEF HistoryInv, HistoryTypes
  <2>6. AcknowledgedKnown'  BY <2>1, <2>3, <2>4 DEF HistoryInv, AcknowledgedKnown
  <2>7. CountsKnown'  BY <1>2, <2>3 DEF CountsKnown, Steady
  <2> QED BY <2>5, <2>6, <2>7 DEF HistoryInv
<1>3. CASE i \in DOMAIN acks /\ A!AcknowledgeFails(i)
  <2>1. /\ acks' = [j \in DOMAIN acks \ {i} |-> acks[j]]
        /\ counted' = IF acks[i] = "served" THEN "lost" ELSE counted
        /\ UNCHANGED <<records, told, list, reads, acked>>  BY <1>3 DEF A!AcknowledgeFails
  <2>2. /\ DOMAIN acks' = DOMAIN acks \ {i} /\ \A j \in DOMAIN acks' : acks'[j] = acks[j]  BY <2>1
  <2>3. HistoryTypes'  BY <2>1, <2>2 DEF HistoryInv, HistoryTypes
  <2>4. AcknowledgedKnown'  BY <2>1, <2>2 DEF HistoryInv, AcknowledgedKnown
  <2>5. CountsKnown'
    <3>1. A!Unacknowledged' = A!Unacknowledged  BY <2>1 DEF A!Unacknowledged
    <3>2. Steady' => Steady /\ counted' = counted  BY <1>3, <2>1, <2>2 DEF Steady
    <3> QED BY <2>1, <3>1, <3>2 DEF HistoryInv, CountsKnown
  <2> QED BY <2>3, <2>4, <2>5 DEF HistoryInv
<1> QED BY <1>1, <1>2, <1>3

LEMMA DecisionStored ==
  ASSUME HistoryInv, A!Decide
  PROVE  HistoryInv'
<1>1. records' = Append(records, FALSE) /\ UNCHANGED <<told, list, reads, acks, acked, counted>>  BY DEF A!Decide
<1>2. PICK n \in Nat : n = Len(records)  BY DEF HistoryInv, HistoryTypes
<1>3. /\ records' \in Seq(BOOLEAN) /\ Len(records') = n + 1 /\ \A j \in 1 .. n : records'[j] = records[j] /\ j \in 1 .. n + 1
  BY <1>1, <1>2 DEF HistoryInv, HistoryTypes
<1>4. HistoryTypes'
  <2>1. 1 .. n \subseteq 1 .. n + 1  BY <1>3
  <2>2. /\ told \subseteq 1 .. n
        /\ ListFields \subseteq DOMAIN list /\ list.body \in Nat /\ list.count \in Nat
        /\ DOMAIN list.items \subseteq 1 .. n
        /\ \A r \in reads : /\ ReadFields \subseteq DOMAIN r /\ r.body \in Nat /\ r.count \in Nat
                            /\ ~r.meta => r.body <= list.body
                            /\ r.count <= list.count
                            /\ r.got # None => DOMAIN r.got.items \subseteq 1 .. n
        /\ DOMAIN acks \subseteq 1 .. n  BY <1>2 DEF HistoryInv, HistoryTypes
  <2>3. \A r \in reads : r.got # None => DOMAIN r.got.items \subseteq 1 .. n + 1  BY <2>1, <2>2
  <2>4. told \subseteq 1 .. n + 1 /\ DOMAIN list.items \subseteq 1 .. n + 1 /\ DOMAIN acks \subseteq 1 .. n + 1
    BY <2>1, <2>2
  <2> QED BY <1>1, <1>3, <2>2, <2>3, <2>4 DEF HistoryTypes
<1>5. AcknowledgedKnown'
  <2>1. \A i : i \in acked \/ (i \in DOMAIN acks /\ acks[i] = "served") => i \in 1 .. n /\ records[i]
    BY <1>2 DEF HistoryInv, HistoryTypes, AcknowledgedKnown
  <2>2. \A i : i \in acked \/ (i \in DOMAIN acks /\ acks[i] = "served") => i \in 1 .. n + 1 /\ records'[i]
    BY <1>3, <2>1
  <2> QED BY <1>1, <1>3, <2>2 DEF HistoryInv, AcknowledgedKnown
<1>6. CountsKnown'
  <2>1. told # 1 .. n + 1
    <3>1. told \subseteq 1 .. n  BY <1>2 DEF HistoryInv, HistoryTypes
    <3>2. n + 1 \in 1 .. n + 1 /\ n + 1 \notin 1 .. n  OBVIOUS
    <3> QED BY <3>1, <3>2
  <2> QED BY <1>1, <1>3, <2>1 DEF CountsKnown, Steady
<1> QED BY <1>4, <1>5, <1>6 DEF HistoryInv

LEMMA HistorySteps == HistoryInv /\ [A!Next]_(A!vars) => HistoryInv'
<1> SUFFICES ASSUME HistoryInv, [A!Next]_(A!vars) PROVE HistoryInv'  OBVIOUS
<1>1. told \subseteq 1 .. Len(records) /\ DOMAIN records = 1 .. Len(records)  BY DEF HistoryInv, HistoryTypes
<1>2. CASE UNCHANGED A!vars
  <2>1. UNCHANGED A!historyVars  BY <1>2 DEF A!vars
  <2> QED BY <2>1, HistoryUntouched
<1>3. ASSUME A!Refresh, records' = records, told' \subseteq 1 .. Len(records), acks' = acks, acked' = acked
      PROVE  HistoryInv'  BY <1>3, PageReadBegins, MetaReadBegins DEF A!Refresh
<1>4. CASE A!Drawer
  <2>1. CASE A!OpenActivity
    <3>1. A!ReadPage(1, TRUE) /\ UNCHANGED <<records, told, acks, acked>>  BY <2>1 DEF A!OpenActivity
    <3> QED BY <1>1, <3>1, PageReadBegins
  <2>2. CASE A!CloseActivity
    <3>1. UNCHANGED A!historyVars  BY <2>2 DEF A!CloseActivity
    <3> QED BY <3>1, HistoryUntouched
  <2>3. ASSUME NEW s, A!ShowSection(s)
        PROVE  HistoryInv'
    <3>1. UNCHANGED A!historyVars  BY <2>3 DEF A!ShowSection
    <3> QED BY <3>1, HistoryUntouched
  <2> QED BY <1>4, <2>1, <2>2, <2>3 DEF A!Drawer
<1>5. CASE A!History
  <2>1. ASSUME NEW r \in reads, A!ReadServed(r) \/ A!MetaAnswered(r) \/ A!PageAnswered(r)
        PROVE  HistoryInv'  BY <2>1, ReadingServed, MetaShown, PageShown
  <2>2. ASSUME NEW i \in DOMAIN list.items, A!Acknowledge(i)
        PROVE  HistoryInv'  BY <2>2, AcknowledgementMoves
  <2>3. ASSUME NEW i \in DOMAIN acks, A!AcknowledgeServed(i) \/ A!AcknowledgeFails(i) \/ A!AcknowledgeAnswered(i)
        PROVE  HistoryInv'  BY <2>3, AcknowledgementMoves, AcknowledgementAnswered
  <2>4. ASSUME NEW i \in DOMAIN records, A!DecisionTold(i)
        PROVE  HistoryInv'
    <3>1. A!Refresh /\ told' = told \cup {i} /\ UNCHANGED <<records, acks, acked>>  BY <2>4 DEF A!DecisionTold
    <3> QED BY <1>1, <1>3, <3>1
  <2>5. CASE A!LoadMore
    <3>1. A!ReadPage(list.page + 1, FALSE) /\ UNCHANGED <<records, told, acks, acked>>  BY <2>5 DEF A!LoadMore
    <3>2. PICK p : p = list.page + 1  OBVIOUS
    <3>3. A!ReadPage(p, FALSE)  BY <3>1, <3>2
    <3> QED BY <1>1, <3>1, <3>3, PageReadBegins
  <2>6. CASE A!RetryHistory
    <3>1. A!ReadPage(1, TRUE) /\ UNCHANGED <<records, told, acks, acked>>  BY <2>6 DEF A!RetryHistory
    <3> QED BY <1>1, <3>1, PageReadBegins
  <2>7. CASE A!DecisionFailed
    <3>1. A!Refresh /\ UNCHANGED <<records, told, acks, acked>>  BY <2>7 DEF A!DecisionFailed
    <3> QED BY <1>1, <1>3, <3>1
  <2> QED BY <1>5, <2>1, <2>2, <2>3, <2>4, <2>5, <2>6, <2>7, DecisionStored DEF A!History
<1>6. CASE A!Session
  <2>1. UNCHANGED A!historyVars
    BY <1>6 DEF A!Session, A!DownloadChanged, A!Excluded, A!RetryRow, A!CancelRow, A!Danbooru, A!Recorded
  <2> QED BY <2>1, HistoryUntouched
<1> QED BY <1>2, <1>4, <1>5, <1>6 DEF A!Next

(* Activity: whatever decisions, acknowledgements and readings overtake each
   other, once all is answered the count of decisions not acknowledged is the
   backend's, and no late page takes an acknowledgement back
   (ActivityDrawer.tsx, HitomiFeature.tsx). *)
THEOREM TheHistoryIsTrue == A!Spec => [](A!CountsAreTrue /\ A!AcknowledgedStays)
<1>1. HistoryInv => A!CountsAreTrue /\ A!AcknowledgedStays
  <2> SUFFICES ASSUME HistoryInv PROVE A!CountsAreTrue /\ A!AcknowledgedStays  OBVIOUS
  <2>1. DOMAIN records = 1 .. Len(records)  BY DEF HistoryInv, HistoryTypes
  <2>2. acks = <<>> => DOMAIN acks = {}  OBVIOUS
  <2>3. A!CountsAreTrue  BY <2>1, <2>2 DEF A!CountsAreTrue, HistoryInv, CountsKnown, Steady
  <2>4. A!AcknowledgedStays  BY DEF A!AcknowledgedStays, HistoryInv, AcknowledgedKnown
  <2> QED BY <2>3, <2>4
<1> QED BY <1>1, HistoryAtFirst, HistorySteps, PTL DEF A!Spec

----
(* Who decides edition reviews (OverlapDesk).  The sweep is started by an
   effect that some change has to wake, and it may stop in the middle for the
   user or for a failure.  So the invariant follows each review its plan
   covers: while no change is on its way to the effect, the review was tried
   at its revision, or the present round has it still before it, or another
   round was asked for. *)

CONSTANTS Reviews, Candidates, Planned, Merging, MaxRevision, MaxSweeps

VARIABLES reviews, listed, news, dialog, pairOpen, decision, sweep, rescan, wake, attempted, broken, sweeps

D == INSTANCE OverlapDesk

Stages == {"idle", "load", "pick", "merge", "step", "sent"}

(* A decision of the user waits for an answer only while the sweep rests. *)
SweepKnown ==
  /\ DOMAIN sweep = {"at", "todo", "read", "review", "revision", "first", "steps"} /\ sweep.at \in Stages
  /\ DOMAIN dialog = {"id", "shown", "loading"}
  /\ decision # None => sweep.at = "idle"
  /\ IF sweep.at = "idle" THEN rescan => broken ELSE ~broken

(* Nothing that has changed waits for the effect, and nothing keeps the effect from starting a round. *)
Quiet == ~wake /\ ~news /\ dialog.id = None /\ decision = None /\ session.at # "loading"

Due(r) == D!Pending(r) /\ reviews[r].auto > 0
Tried(r) == <<r, reviews[r].revision>> \in attempted

(* What the present round has still to look at, or has in hand. *)
Awaited(r) ==
  \/ sweep.at # "idle" /\ r \in sweep.todo
  \/ sweep.at = "load" /\ r \in sweep.read
  \/ sweep.at \in {"step", "sent"} /\ r = sweep.review

EveryReviewHasItsTurn ==
  /\ Quiet /\ sweep.at = "idle" /\ ~broken => \A r \in listed : Due(r) => Tried(r)
  /\ Quiet /\ sweep.at # "idle" /\ ~rescan => \A r \in listed : Due(r) => Tried(r) \/ Awaited(r)

DeskInv == SweepKnown /\ EveryReviewHasItsTurn

LEMMA DeskStarts == D!Init => DeskInv
<1> SUFFICES ASSUME D!Init PROVE DeskInv  OBVIOUS
<1>1. /\ sweep = [at |-> "idle", todo |-> {}, read |-> {}, review |-> None, revision |-> 0, first |-> 0, steps |-> 0]
      /\ dialog = [id |-> None, shown |-> None, loading |-> FALSE]
      /\ decision = None /\ rescan = FALSE /\ wake = TRUE  BY DEF D!Init, D!Idle, D!Closed
<1>2. SweepKnown  BY <1>1 DEF SweepKnown, Stages
<1> QED BY <1>1, <1>2 DEF DeskInv, EveryReviewHasItsTurn, Quiet

(* A step of the user: the sweep stays where it is, and what it changes the effect is told of. *)
LEMMA DeskChanges ==
  ASSUME DeskInv, UNCHANGED D!sweepVars, DOMAIN dialog' = {"id", "shown", "loading"},
         decision' # None => decision # None \/ sweep.at = "idle",
         \/ wake' = TRUE
         \/ news' = TRUE
         \/ UNCHANGED <<reviews, listed>> /\ (Quiet' => Quiet)
  PROVE  DeskInv'
<1>1. UNCHANGED <<sweep, rescan, attempted, broken>>  BY DEF D!sweepVars
<1>2. SweepKnown'  BY <1>1 DEF DeskInv, SweepKnown
<1>3. EveryReviewHasItsTurn'
  <2>1. CASE wake' = TRUE \/ news' = TRUE  BY <2>1 DEF EveryReviewHasItsTurn, Quiet
  <2>2. CASE UNCHANGED <<reviews, listed>> /\ (Quiet' => Quiet)
    BY <1>1, <2>2 DEF DeskInv, EveryReviewHasItsTurn, Due, Tried, Awaited, D!Pending
  <2> QED BY <2>1, <2>2
<1> QED BY <1>2, <1>3 DEF DeskInv

LEMMA DialogFields == DeskInv => DOMAIN dialog = {"id", "shown", "loading"} /\ (decision # None => sweep.at = "idle")
BY DEF DeskInv, SweepKnown

LEMMA UserKeeps ==
  ASSUME DeskInv,
         \/ D!DecidedElsewhere \/ D!ListDownloads
         \/ D!RetryReview \/ D!CloseReview
         \/ D!OpenPair \/ D!ClosePair \/ D!PairDecided
         \/ D!ApplyDecision \/ D!ApplyMerge \/ D!ApplyContainmentBatch \/ D!BatchEnds
         \/ D!StartSequence \/ D!SequenceLoaded \/ D!CloseActivity \/ D!Navigate
         \/ D!AcknowledgeReview \/ D!RestoreExclusions
         \/ \E r \in Reviews : \/ D!OpenReview(r) \/ D!DecisionAnswered(r) \/ D!MergeAnswered(r)
                               \/ D!BatchItem(r) \/ D!OpenRecord(r)
         \/ \E ok \in BOOLEAN : D!ReviewRead(ok)
         \/ \E r \in Reviews, ok \in BOOLEAN : D!AcknowledgeAnswered(r, ok),
         UNCHANGED news \/ D!DecidedElsewhere \/ D!ListDownloads
  PROVE  DeskInv'
<1>1. DOMAIN dialog = {"id", "shown", "loading"} /\ (decision # None => sweep.at = "idle")  BY DialogFields
<1>2. \A r : D!ShowReview(r) => DOMAIN dialog' = {"id", "shown", "loading"} /\ dialog'.id = r  BY DEF D!ShowReview
<1>3. dialog' = D!Closed => DOMAIN dialog' = {"id", "shown", "loading"}  BY DEF D!Closed
<1>4. CASE D!DecidedElsewhere  BY <1>1, <1>4, DeskChanges DEF D!DecidedElsewhere
<1>5. CASE D!ListDownloads  BY <1>1, <1>5, DeskChanges DEF D!ListDownloads
<1>6. CASE UNCHANGED news /\ D!RetryReview
  <2>1. PICK i : i = dialog.id  OBVIOUS
  <2>2. D!ShowReview(i) /\ UNCHANGED <<reviews, listed, decision, session, wake>> /\ UNCHANGED D!sweepVars
    BY <1>6, <2>1 DEF D!RetryReview
  <2>3. DOMAIN dialog' = {"id", "shown", "loading"} /\ dialog'.id = dialog.id  BY <1>2, <2>1, <2>2
  <2>4. Quiet' => Quiet  BY <1>6, <2>2, <2>3 DEF Quiet
  <2> QED BY <2>2, <2>3, <2>4, <1>1, DeskChanges
<1>7. CASE D!CloseReview \/ D!SequenceLoaded \/ D!CloseActivity \/ D!StartSequence \/ D!PairDecided
  <2>1. wake' = TRUE /\ UNCHANGED D!sweepVars /\ UNCHANGED decision
    BY <1>7 DEF D!CloseReview, D!SequenceLoaded, D!CloseActivity, D!StartSequence, D!PairDecided, D!Close
  <2>2. DOMAIN dialog' = {"id", "shown", "loading"}
    <3>1. dialog' = dialog \/ dialog' = D!Closed \/ \E r : D!ShowReview(r)
      BY <1>7 DEF D!CloseReview, D!SequenceLoaded, D!CloseActivity, D!StartSequence, D!PairDecided, D!Close
    <3> QED BY <1>1, <1>2, <1>3, <3>1
  <2> QED BY <1>1, <2>1, <2>2, DeskChanges
<1>8. CASE UNCHANGED news /\ (D!OpenPair \/ D!ClosePair)
  <2>1. /\ UNCHANGED <<reviews, listed, dialog, decision>> /\ UNCHANGED D!sweepVars
    BY <1>8 DEF D!OpenPair, D!ClosePair
  <2>2. Quiet' => Quiet  BY <1>8, <2>1 DEF Quiet, D!OpenPair, D!ClosePair
  <2> QED BY <1>1, <2>1, <2>2, DeskChanges
<1>9. CASE D!ApplyDecision \/ D!ApplyMerge \/ D!ApplyContainmentBatch
  <2>1. wake' = TRUE /\ UNCHANGED D!sweepVars /\ UNCHANGED dialog /\ sweep.at = "idle"
    BY <1>9 DEF D!ApplyDecision, D!ApplyMerge, D!ApplyContainmentBatch, D!Send, D!Decidable, D!Free
  <2> QED BY <1>1, <2>1, DeskChanges
<1>10. CASE D!BatchEnds
  <2>1. wake' = TRUE /\ UNCHANGED D!sweepVars /\ dialog' = [dialog EXCEPT !.loading = TRUE] /\ decision # None
    BY <1>10 DEF D!BatchEnds
  <2>2. DOMAIN dialog' = {"id", "shown", "loading"}  BY <1>1, <2>1
  <2> QED BY <2>1, <2>2, DeskChanges
<1>11. CASE D!Navigate
  <2>1. wake' = TRUE /\ UNCHANGED D!sweepVars /\ UNCHANGED decision /\ \E r : D!ShowReview(r)
    BY <1>11 DEF D!Navigate, D!Turn
  <2> QED BY <1>1, <1>2, <2>1, DeskChanges
<1>12. CASE UNCHANGED news /\ (D!AcknowledgeReview \/ D!RestoreExclusions)
  <2>1. UNCHANGED <<reviews, listed, dialog, decision, session, wake, news>> /\ UNCHANGED D!sweepVars
    BY <1>12 DEF D!AcknowledgeReview, D!RestoreExclusions, D!Acknowledge
  <2>2. Quiet' => Quiet  BY <2>1 DEF Quiet
  <2> QED BY <1>1, <2>1, <2>2, DeskChanges
<1>13. ASSUME NEW r \in Reviews, D!OpenReview(r) \/ D!OpenRecord(r) PROVE DeskInv'
  <2>1. wake' = TRUE /\ UNCHANGED D!sweepVars /\ UNCHANGED decision /\ D!ShowReview(r)
    BY <1>13 DEF D!OpenReview, D!OpenRecord
  <2> QED BY <1>1, <1>2, <2>1, DeskChanges
<1>14. ASSUME NEW r \in Reviews, D!DecisionAnswered(r) \/ D!MergeAnswered(r) PROVE DeskInv'
  <2>1. wake' = TRUE /\ UNCHANGED D!sweepVars /\ decision # None
    BY <1>14 DEF D!DecisionAnswered, D!MergeAnswered, D!Answered
  <2>2. D!ShowReview(r) \/ dialog' = D!Closed \/ dialog' = dialog \/ \E x : dialog' = [dialog EXCEPT !.shown = x]
    BY <1>14 DEF D!DecisionAnswered, D!MergeAnswered, D!Close
  <2>3. DOMAIN dialog' = {"id", "shown", "loading"}  BY <1>1, <1>2, <1>3, <2>2
  <2> QED BY <2>1, <2>3, DeskChanges
<1>15. ASSUME NEW r \in Reviews, D!BatchItem(r) PROVE DeskInv'
  <2>1. wake' = TRUE /\ UNCHANGED D!sweepVars /\ decision # None  BY <1>15 DEF D!BatchItem
  <2>2. dialog' = dialog \/ \E x : dialog' = [dialog EXCEPT !.shown = x]  BY <1>15 DEF D!BatchItem
  <2>3. DOMAIN dialog' = {"id", "shown", "loading"}  BY <1>1, <2>2
  <2> QED BY <2>1, <2>3, DeskChanges
<1>16. ASSUME UNCHANGED news, NEW ok \in BOOLEAN, D!ReviewRead(ok) PROVE DeskInv'
  <2>1. PICK x : dialog' = [dialog EXCEPT !.loading = FALSE, !.shown = x]  BY <1>16 DEF D!ReviewRead
  <2>2. DOMAIN dialog' = {"id", "shown", "loading"} /\ dialog'.id = dialog.id  BY <1>1, <2>1
  <2>3. /\ UNCHANGED <<reviews, listed, session>> /\ UNCHANGED D!sweepVars /\ decision' = None
        /\ wake' = (wake \/ decision # None)  BY <1>16 DEF D!ReviewRead
  <2>4. CASE decision # None  BY <2>2, <2>3, <2>4, DeskChanges
  <2>5. CASE decision = None
    <3>1. Quiet' => Quiet  BY <1>16, <2>2, <2>3, <2>5 DEF Quiet
    <3>2. wake' = TRUE \/ (~wake' /\ ~wake)  BY <2>3, <2>5
    <3>3. CASE wake' = TRUE  BY <1>1, <2>2, <2>3, <3>3, DeskChanges
    <3>4. CASE ~wake' /\ ~wake
      <4>1. SweepKnown' /\ EveryReviewHasItsTurn'
        BY <2>2, <2>3, <3>1, <3>4
           DEF DeskInv, SweepKnown, EveryReviewHasItsTurn, Due, Tried, Awaited, D!Pending, D!sweepVars
      <4> QED BY <4>1 DEF DeskInv
    <3> QED BY <3>2, <3>3, <3>4
  <2> QED BY <2>4, <2>5
<1>17. ASSUME NEW r \in Reviews, NEW ok \in BOOLEAN, D!AcknowledgeAnswered(r, ok) PROVE DeskInv'
  <2>1. wake' = TRUE /\ UNCHANGED D!sweepVars /\ UNCHANGED decision  BY <1>17 DEF D!AcknowledgeAnswered
  <2>2. dialog' = dialog \/ dialog' = D!Closed \/ \E i : D!ShowReview(i)
    BY <1>17 DEF D!AcknowledgeAnswered, D!Complete
  <2> QED BY <1>1, <1>2, <1>3, <2>1, <2>2, DeskChanges
<1> QED BY <1>4, <1>5, <1>6, <1>7, <1>8, <1>9, <1>10, <1>11, <1>12, <1>13, <1>14, <1>15, <1>16, <1>17


(* The list asks for reviews there are. *)
ReviewsKnown == DOMAIN reviews = Reviews /\ listed \subseteq Reviews

LEMMA ReviewsStay == ASSUME ReviewsKnown, D!Next PROVE ReviewsKnown'
<1>1. \A r : D!DecidePlanned(r) \/ (\E b \in BOOLEAN : D!Decide(r, b)) => DOMAIN reviews' = DOMAIN reviews
  BY DEF D!DecidePlanned, D!Decide
<1>2. CASE D!DecidedElsewhere \/ D!ListDownloads  BY <1>1, <1>2 DEF ReviewsKnown, D!DecidedElsewhere, D!ListDownloads
<1>3. CASE D!RetryReview \/ D!CloseReview \/ D!OpenPair \/ D!ClosePair \/ D!PairDecided
  BY <1>3 DEF ReviewsKnown, D!RetryReview, D!CloseReview, D!OpenPair, D!ClosePair, D!PairDecided
<1>4. CASE D!ApplyDecision \/ D!ApplyMerge \/ D!ApplyContainmentBatch \/ D!BatchEnds
  BY <1>1, <1>4 DEF ReviewsKnown, D!ApplyDecision, D!ApplyMerge, D!ApplyContainmentBatch, D!BatchEnds, D!Send
<1>5. CASE \/ D!StartSequence \/ D!SequenceLoaded \/ D!CloseActivity \/ D!Navigate
           \/ D!AcknowledgeReview \/ D!RestoreExclusions
  BY <1>5 DEF ReviewsKnown, D!StartSequence, D!SequenceLoaded, D!CloseActivity, D!Navigate,
              D!AcknowledgeReview, D!RestoreExclusions, D!Acknowledge
<1>6. CASE D!RunEffect \/ D!SweepLoad \/ D!SweepPick \/ D!SweepYields \/ D!SweepStep
  BY <1>6 DEF ReviewsKnown, D!RunEffect, D!SweepLoad, D!SweepPick, D!SweepYields, D!SweepStep, D!SweepUnchanged
<1>7. CASE D!SweepMerge \/ D!SweepStepAnswered \/ D!SweepPlanDone
  BY <1>1, <1>7 DEF ReviewsKnown, D!SweepMerge, D!SweepStepAnswered, D!SweepPlanDone
<1>8. ASSUME NEW r \in Reviews, D!OpenReview(r) \/ D!OpenRecord(r) PROVE ReviewsKnown'
  BY <1>8 DEF ReviewsKnown, D!OpenReview, D!OpenRecord
<1>9. ASSUME NEW r \in Reviews, D!DecisionAnswered(r) \/ D!MergeAnswered(r) \/ D!BatchItem(r) PROVE ReviewsKnown'
  BY <1>1, <1>9 DEF ReviewsKnown, D!DecisionAnswered, D!MergeAnswered, D!Unanswered, D!BatchItem
<1>10. ASSUME NEW ok \in BOOLEAN, D!ReviewRead(ok) PROVE ReviewsKnown'  BY <1>10 DEF ReviewsKnown, D!ReviewRead
<1>11. ASSUME NEW r \in Reviews, NEW ok \in BOOLEAN, D!AcknowledgeAnswered(r, ok) PROVE ReviewsKnown'
  BY <1>11 DEF ReviewsKnown, D!AcknowledgeAnswered
<1> QED BY <1>2, <1>3, <1>4, <1>5, <1>6, <1>7, <1>8, <1>9, <1>10, <1>11 DEF D!Next, D!Desk

(* How a round ends: another one is on its way, or it has failed, or nothing
   is left of it and nothing was asked for meanwhile. *)
LEMMA RoundEnds ==
  ASSUME DeskInv, D!SweepUnchanged, UNCHANGED news, sweep.at # "idle",
         \/ D!Finish(FALSE, TRUE)
         \/ D!Finish(TRUE, FALSE)
         \/ D!Finish(FALSE, FALSE) /\ sweep.at = "pick" /\ sweep.todo = {}
  PROVE  DeskInv'
<1>1. /\ sweep' = D!Idle /\ sweep'.at = "idle"
      /\ DOMAIN sweep' = {"at", "todo", "read", "review", "revision", "first", "steps"}
  BY DEF D!Finish, D!Idle
<1>2. UNCHANGED <<reviews, listed, dialog, decision, session>>  BY DEF D!SweepUnchanged
<1>3. rescan' => broken'  BY DEF D!Finish
<1>4. SweepKnown'  BY <1>1, <1>2, <1>3 DEF DeskInv, SweepKnown, Stages
<1>5. wake' = TRUE \/ broken' = TRUE \/ (D!Finish(FALSE, FALSE) /\ ~rescan /\ UNCHANGED wake)  BY DEF D!Finish
<1>6. EveryReviewHasItsTurn'
  <2>1. CASE wake' = TRUE \/ broken' = TRUE  BY <1>1, <2>1 DEF EveryReviewHasItsTurn, Quiet
  <2>2. CASE D!Finish(FALSE, FALSE) /\ ~rescan /\ UNCHANGED wake /\ ~(wake' = TRUE \/ broken' = TRUE)
    <3>1. sweep.at = "pick" /\ sweep.todo = {} /\ UNCHANGED attempted  BY <1>5, <2>2 DEF D!Finish
    <3>2. Quiet' => Quiet  BY <1>2, <2>2 DEF Quiet
    <3>3. Quiet => \A r \in listed : Due(r) => Tried(r)  BY <2>2, <3>1 DEF DeskInv, EveryReviewHasItsTurn, Awaited
    <3> QED BY <1>1, <1>2, <3>1, <3>2, <3>3 DEF EveryReviewHasItsTurn, Due, Tried, D!Pending
  <2> QED BY <1>5, <2>1, <2>2
<1> QED BY <1>4, <1>6 DEF DeskInv


(* A round that fails has nothing to answer for, whatever became of its call. *)
LEMMA RoundFails ==
  ASSUME DeskInv, UNCHANGED <<dialog, decision>>, sweep.at # "idle", D!Finish(TRUE, FALSE)
  PROVE  DeskInv'
<1>1. /\ sweep' = D!Idle /\ sweep'.at = "idle" /\ broken' = TRUE
      /\ DOMAIN sweep' = {"at", "todo", "read", "review", "revision", "first", "steps"}
  BY DEF D!Finish, D!Idle
<1>2. SweepKnown'  BY <1>1 DEF DeskInv, SweepKnown, Stages
<1> QED BY <1>1, <1>2 DEF DeskInv, EveryReviewHasItsTurn

SweepFields(s) == DOMAIN s = {"at", "todo", "read", "review", "revision", "first", "steps"}

LEMMA SweepIs == DeskInv => SweepFields(sweep) /\ sweep.at \in Stages /\ (sweep.at # "idle" => decision = None /\ ~broken)
BY DEF DeskInv, SweepKnown, SweepFields

(* The round goes on: what it lets go of was tried. *)
LEMMA RoundGoesOn ==
  ASSUME DeskInv, D!SweepUnchanged, UNCHANGED <<news, wake, rescan, broken>>, sweep.at # "idle",
         SweepFields(sweep'), sweep'.at \in Stages \ {"idle"},
         attempted \subseteq attempted',
         \A r : Awaited(r) => Awaited(r)' \/ ~Due(r) \/ Tried(r)'
  PROVE  DeskInv'
<1>1. UNCHANGED <<reviews, listed, dialog, decision, session>>  BY DEF D!SweepUnchanged
<1>2. SweepKnown'  BY <1>1 DEF DeskInv, SweepKnown, SweepFields
<1>3. Quiet' => Quiet  BY <1>1 DEF Quiet
<1>4. \A r : (Due(r)' <=> Due(r)) /\ (Tried(r) => Tried(r)')  BY <1>1 DEF Due, D!Pending, Tried
<1>5. EveryReviewHasItsTurn'  BY <1>1, <1>3, <1>4 DEF DeskInv, EveryReviewHasItsTurn, Stages
<1> QED BY <1>2, <1>5 DEF DeskInv

LEMMA SweepKeeps ==
  ASSUME DeskInv, ReviewsKnown, UNCHANGED news,
         \/ D!RunEffect \/ D!SweepLoad \/ D!SweepPick \/ D!SweepMerge \/ D!SweepYields \/ D!SweepStep
         \/ D!SweepStepAnswered \/ D!SweepPlanDone
  PROVE  DeskInv'
<1>1. /\ SweepFields(sweep) /\ sweep.at \in Stages /\ (sweep.at # "idle" => decision = None /\ ~broken)
      /\ DOMAIN dialog = {"id", "shown", "loading"}  BY SweepIs, DialogFields
<1>2. CASE D!RunEffect
  <2>1. UNCHANGED <<reviews, listed, dialog, decision, session, attempted>> /\ wake /\ ~wake'
    BY <1>2 DEF D!RunEffect, D!SweepUnchanged
  <2>2. CASE session.at = "loading" \/ dialog.id # None \/ decision # None \/ listed = {}
    <3>1. UNCHANGED <<sweep, rescan, broken>>  BY <1>2, <2>2 DEF D!RunEffect
    <3>2. SweepKnown'  BY <2>1, <3>1 DEF DeskInv, SweepKnown
    <3>3. ~Quiet' \/ listed' = {}  BY <2>1, <2>2 DEF Quiet
    <3> QED BY <3>2, <3>3 DEF DeskInv, EveryReviewHasItsTurn
  <2>3. CASE sweep.at # "idle" /\ ~(session.at = "loading" \/ dialog.id # None \/ decision # None \/ listed = {})
    <3>1. UNCHANGED <<sweep, broken>> /\ rescan' = TRUE  BY <1>2, <2>3 DEF D!RunEffect
    <3>2. SweepKnown'  BY <2>1, <2>3, <3>1 DEF DeskInv, SweepKnown
    <3> QED BY <2>3, <3>1, <3>2 DEF DeskInv, EveryReviewHasItsTurn
  <2>4. CASE sweep.at = "idle" /\ ~(session.at = "loading" \/ dialog.id # None \/ decision # None \/ listed = {})
    <3>1. sweep' = [D!Idle EXCEPT !.at = "load", !.todo = listed] /\ broken' = FALSE /\ UNCHANGED rescan
      BY <1>2, <2>4 DEF D!RunEffect
    <3>2. SweepFields(sweep') /\ sweep'.at = "load" /\ sweep'.todo = listed  BY <3>1 DEF D!Idle, SweepFields
    <3>3. SweepKnown'  BY <2>1, <2>4, <3>1, <3>2 DEF DeskInv, SweepKnown, SweepFields, Stages
    <3>4. \A r \in listed' : Awaited(r)'  BY <2>1, <3>2 DEF Awaited
    <3> QED BY <3>2, <3>3, <3>4 DEF DeskInv, EveryReviewHasItsTurn
  <2> QED BY <2>2, <2>3, <2>4
<1>3. CASE D!SweepLoad
  <2>1. sweep.at = "load" /\ D!SweepUnchanged  BY <1>3 DEF D!SweepLoad
  <2>2. CASE sweep.todo = {}
    <3>1. sweep' = [sweep EXCEPT !.at = "pick", !.todo = sweep.read] /\ UNCHANGED <<rescan, wake, attempted, broken>>
      BY <1>3, <2>2 DEF D!SweepLoad
    <3>2. SweepFields(sweep') /\ sweep'.at = "pick" /\ sweep'.todo = sweep.read  BY <1>1, <3>1 DEF SweepFields
    <3>3. \A r : Awaited(r) => Awaited(r)'  BY <2>1, <2>2, <3>2 DEF Awaited
    <3> QED BY <2>1, <3>1, <3>2, <3>3, RoundGoesOn DEF Stages
  <2>3. CASE D!Finish(FALSE, TRUE) \/ D!Finish(TRUE, FALSE)  BY <2>1, <2>3, RoundEnds
  <2>4. ASSUME NEW r \in sweep.todo,
               sweep' = [sweep EXCEPT !.todo = @ \ {r}, !.read = @ \cup {r}],
               UNCHANGED <<rescan, wake, attempted, broken, sweeps>>
        PROVE  DeskInv'
    <3>1. SweepFields(sweep') /\ sweep'.at = "load" /\ sweep'.todo = sweep.todo \ {r} /\ sweep'.read = sweep.read \cup {r}
      BY <1>1, <2>1, <2>4 DEF SweepFields
    <3>2. \A s : Awaited(s) => Awaited(s)'  BY <2>1, <3>1 DEF Awaited
    <3> QED BY <2>1, <2>4, <3>1, <3>2, RoundGoesOn DEF Stages
  <2>5. ASSUME NEW r \in sweep.todo, ~D!Pending(r), sweep' = [sweep EXCEPT !.todo = @ \ {r}],
               UNCHANGED <<rescan, wake, attempted, broken, sweeps>>
        PROVE  DeskInv'
    <3>1. SweepFields(sweep') /\ sweep'.at = "load" /\ sweep'.todo = sweep.todo \ {r} /\ sweep'.read = sweep.read
      BY <1>1, <2>1, <2>5 DEF SweepFields
    <3>2. \A s : Awaited(s) => Awaited(s)' \/ ~Due(s)  BY <2>1, <2>5, <3>1 DEF Awaited, Due
    <3> QED BY <2>1, <2>5, <3>1, <3>2, RoundGoesOn DEF Stages
  <2> QED BY <1>3, <2>2, <2>3, <2>4, <2>5 DEF D!SweepLoad
<1>4. CASE D!SweepPick
  <2>1. sweep.at = "pick" /\ D!SweepUnchanged  BY <1>4 DEF D!SweepPick
  <2>2. CASE \/ sweep.todo = {} /\ D!Finish(FALSE, FALSE)
             \/ D!Finish(FALSE, TRUE) \/ D!Finish(TRUE, FALSE)  BY <2>1, <2>2, RoundEnds
  <2>3. ASSUME NEW r \in sweep.todo, NEW key, NEW next, key = <<r, reviews[r].revision>>,
               next = [sweep EXCEPT !.todo = @ \ {r}, !.review = r, !.revision = key[2], !.first = key[2],
                                     !.steps = reviews[r].auto],
               attempted' = attempted \cup {key} \/ (~D!Pending(r) /\ UNCHANGED attempted),
               sweep' = IF key \in attempted \/ ~D!Pending(r) \/ reviews[r].auto = 0
                        THEN [sweep EXCEPT !.todo = @ \ {r}]
                        ELSE [next EXCEPT !.at = IF reviews[r].merge THEN "merge" ELSE "step"],
               UNCHANGED <<rescan, wake, broken, sweeps>>
        PROVE  DeskInv'
    <3>1. SweepFields(sweep') /\ sweep'.at \in {"pick", "merge", "step"} /\ sweep'.todo = sweep.todo \ {r}
      BY <1>1, <2>1, <2>3 DEF SweepFields
    <3>2. Tried(r)' \/ ~Due(r)  BY <2>1, <2>3 DEF Tried, Due, D!SweepUnchanged
    <3>3. \A s : Awaited(s) => Awaited(s)' \/ s = r  BY <2>1, <3>1 DEF Awaited
    <3>4. \A s : Awaited(s) => Awaited(s)' \/ ~Due(s) \/ Tried(s)'  BY <3>2, <3>3
    <3> QED BY <2>1, <2>3, <3>1, <3>4, RoundGoesOn DEF Stages
  <2> QED BY <1>4, <2>2, <2>3 DEF D!SweepPick
<1>5. CASE D!SweepMerge
  <2>1. /\ sweep.at = "merge" /\ UNCHANGED <<dialog, decision, session>>
        /\ \/ D!Finish(TRUE, FALSE)
           \/ /\ sweep' = [sweep EXCEPT !.at = "pick"] /\ UNCHANGED <<attempted, broken>>
              /\ wake' = TRUE \/ UNCHANGED <<reviews, listed, wake, rescan>>  BY <1>5 DEF D!SweepMerge
  <2>2. CASE D!Finish(TRUE, FALSE)  BY <2>1, <2>2, RoundFails
  <2>3. CASE /\ sweep' = [sweep EXCEPT !.at = "pick"] /\ UNCHANGED <<attempted, broken>>
             /\ wake' = TRUE \/ UNCHANGED <<reviews, listed, wake, rescan>>
    <3>1. SweepFields(sweep') /\ sweep'.at = "pick" /\ sweep'.todo = sweep.todo  BY <1>1, <2>3 DEF SweepFields
    <3>2. SweepKnown'  BY <1>1, <2>1, <2>3, <3>1 DEF SweepKnown, SweepFields, Stages
    <3>3. CASE wake' = TRUE  BY <3>2, <3>3 DEF DeskInv, EveryReviewHasItsTurn, Quiet
    <3>4. CASE UNCHANGED <<reviews, listed, wake, rescan>>
      <4>1. \A r : Awaited(r) => Awaited(r)'  BY <2>1, <3>1 DEF Awaited
      <4>2. Quiet' => Quiet  BY <2>1, <3>4 DEF Quiet
      <4> QED BY <2>1, <2>3, <3>1, <3>2, <3>4, <4>1, <4>2
                 DEF DeskInv, EveryReviewHasItsTurn, Due, Tried, D!Pending
    <3> QED BY <2>3, <3>3, <3>4
  <2> QED BY <2>1, <2>2, <2>3
<1>6. CASE D!SweepYields
  <2>1. /\ sweep.at = "step" /\ sweep' = D!Idle /\ broken' = FALSE /\ wake' = TRUE /\ rescan' = FALSE
        /\ UNCHANGED <<dialog, decision>>  BY <1>6 DEF D!SweepYields, D!SweepUnchanged
  <2>2. SweepFields(sweep') /\ sweep'.at = "idle"  BY <2>1 DEF SweepFields, D!Idle
  <2>3. SweepKnown'  BY <1>1, <2>1, <2>2 DEF SweepKnown, SweepFields, Stages
  <2> QED BY <2>1, <2>3 DEF DeskInv, EveryReviewHasItsTurn, Quiet
<1>7. CASE D!SweepStep
  <2>1. /\ sweep.at = "step" /\ sweep' = [sweep EXCEPT !.at = "sent"] /\ D!SweepUnchanged
        /\ UNCHANGED <<rescan, wake, attempted, broken>>  BY <1>7 DEF D!SweepStep
  <2>2. SweepFields(sweep') /\ sweep'.at = "sent" /\ sweep'.todo = sweep.todo /\ sweep'.review = sweep.review
    BY <1>1, <2>1 DEF SweepFields
  <2>3. \A r : Awaited(r) => Awaited(r)'  BY <2>1, <2>2 DEF Awaited
  <2> QED BY <2>1, <2>2, <2>3, RoundGoesOn DEF Stages
<1>8. CASE D!SweepStepAnswered
  <2>1. sweep.at = "sent" /\ UNCHANGED <<listed, dialog, decision, session>>  BY <1>8 DEF D!SweepStepAnswered
  <2>2. CASE D!Finish(TRUE, FALSE)  BY <2>1, <2>2, RoundFails
  <2>3. CASE sweep' = [sweep EXCEPT !.at = "pick"] /\ rescan' = TRUE /\ UNCHANGED broken
    <3>1. SweepFields(sweep') /\ sweep'.at = "pick"  BY <1>1, <2>3 DEF SweepFields
    <3>2. SweepKnown'  BY <1>1, <2>1, <2>3, <3>1 DEF SweepKnown, SweepFields, Stages
    <3> QED BY <2>3, <3>1, <3>2 DEF DeskInv, EveryReviewHasItsTurn
  <2>4. CASE /\ D!DecidePlanned(sweep.review)
             /\ sweep' = [sweep EXCEPT !.at = "step", !.revision = reviews'[sweep.review].revision, !.steps = @ - 1]
             /\ UNCHANGED <<rescan, wake, attempted, broken>>
    <3>1. SweepFields(sweep') /\ sweep'.at = "step" /\ sweep'.todo = sweep.todo /\ sweep'.review = sweep.review
      BY <1>1, <2>4 DEF SweepFields
    <3>2. SweepKnown'  BY <1>1, <2>1, <2>4, <3>1 DEF SweepKnown, SweepFields, Stages
    <3>3. \A r \in listed : r # sweep.review => reviews'[r] = reviews[r]  BY <2>4 DEF D!DecidePlanned, ReviewsKnown
    <3>4. \A r : Awaited(r) => Awaited(r)'  BY <2>1, <3>1 DEF Awaited
    <3>5. Awaited(sweep.review)'  BY <3>1 DEF Awaited
    <3>6. Quiet' => Quiet  BY <2>1, <2>4 DEF Quiet
    <3>7. \A r \in listed : r # sweep.review => (Due(r)' <=> Due(r)) /\ (Tried(r)' <=> Tried(r))
      BY <2>4, <3>3 DEF Due, Tried, D!Pending
    <3>8. ~rescan /\ Quiet => \A r \in listed : Due(r) => Tried(r) \/ Awaited(r)
      BY <2>1 DEF DeskInv, EveryReviewHasItsTurn
    <3>9. Quiet' /\ ~rescan' => \A r \in listed' : Due(r)' => Tried(r)' \/ Awaited(r)'
      <4> SUFFICES ASSUME Quiet', ~rescan', NEW r \in listed', Due(r)' PROVE Tried(r)' \/ Awaited(r)'  OBVIOUS
      <4>1. CASE r = sweep.review
        <5>1. sweep'.at \in {"step", "sent"} /\ r = sweep'.review  BY <4>1, <3>1
        <5> QED BY <5>1 DEF Awaited
      <4>2. CASE r # sweep.review  BY <2>1, <2>4, <3>4, <3>6, <3>7, <3>8, <4>2
      <4> QED BY <4>1, <4>2
    <3> QED BY <3>1, <3>2, <3>9 DEF DeskInv, EveryReviewHasItsTurn
  <2> QED BY <1>8, <2>2, <2>3, <2>4 DEF D!SweepStepAnswered
<1>9. CASE D!SweepPlanDone
  <2>1. /\ sweep.at = "step" /\ sweep' = [sweep EXCEPT !.at = "pick"] /\ wake' = TRUE
        /\ UNCHANGED <<dialog, decision, rescan, broken>>  BY <1>9 DEF D!SweepPlanDone
  <2>2. SweepFields(sweep') /\ sweep'.at = "pick"  BY <1>1, <2>1 DEF SweepFields
  <2>3. SweepKnown'  BY <1>1, <2>1, <2>2 DEF SweepKnown, SweepFields, Stages
  <2> QED BY <2>1, <2>3 DEF DeskInv, EveryReviewHasItsTurn, Quiet
<1> QED BY <1>2, <1>3, <1>4, <1>5, <1>6, <1>7, <1>8, <1>9

(* No review is forgotten between the sweep and the user (OverlapDesk, from
   HitomiFeature.tsx): when the sweep rests, no dialog is open and no change
   waits for its effect, it has tried every listed review its plan covers at
   the revision the review has; and the two never decide at the same time. *)
THEOREM NoReviewIsLost == D!Spec => [](D!NoReviewIsForgotten /\ D!OneDecides)
<1>1. D!Init => DeskInv /\ ReviewsKnown
  <2>1. D!Init => ReviewsKnown  BY DEF D!Init, ReviewsKnown
  <2> QED BY <2>1, DeskStarts
<1>2. DeskInv /\ ReviewsKnown /\ [D!Next]_D!vars => DeskInv' /\ ReviewsKnown'
  <2> SUFFICES ASSUME DeskInv, ReviewsKnown, [D!Next]_D!vars PROVE DeskInv' /\ ReviewsKnown'  OBVIOUS
  <2>1. CASE D!Next
    <3>1. DeskInv'  BY <2>1, UserKeeps, SweepKeeps DEF D!Next, D!Desk
    <3> QED BY <2>1, <3>1, ReviewsStay
  <2>2. CASE UNCHANGED D!vars
    <3>1. /\ UNCHANGED <<reviews, listed, news, dialog, decision, session>>
          /\ UNCHANGED <<sweep, rescan, wake, attempted, broken>>  BY <2>2 DEF D!vars
    <3>2. SweepKnown' /\ ReviewsKnown'  BY <3>1 DEF DeskInv, SweepKnown, ReviewsKnown
    <3>3. EveryReviewHasItsTurn'  BY <3>1 DEF DeskInv, EveryReviewHasItsTurn, Quiet, Due, Tried, Awaited, D!Pending
    <3> QED BY <3>2, <3>3 DEF DeskInv
  <2> QED BY <2>1, <2>2
<1>3. DeskInv => D!NoReviewIsForgotten /\ D!OneDecides
  <2> SUFFICES ASSUME DeskInv PROVE D!NoReviewIsForgotten /\ D!OneDecides  OBVIOUS
  <2>1. D!OneDecides  BY DEF DeskInv, SweepKnown, D!OneDecides
  <2>2. D!NoReviewIsForgotten
    BY DEF DeskInv, EveryReviewHasItsTurn, Quiet, Due, Tried, D!NoReviewIsForgotten, D!Pending, D!Overlay
  <2> QED BY <2>1, <2>2
<1> QED BY <1>1, <1>2, <1>3, PTL DEF D!Spec

----
(* The list of downloads (DownloadBoard).  The backend goes on while the list
   is read page by page, so a reading says something of the whole list only
   because the places of the albums are 1, 2, ... without a gap, stay the
   same until another download is begun, and each page is the album of its
   place; and so are those of the entries in the older list. *)

CONSTANTS Slots, Saved, Name, MaxEntries, MaxReads, MaxCalls

VARIABLES entries, timers, feed, batch, library, store, ids, token, board, bulk, report, stopped, asked

L == INSTANCE DownloadBoard

States == {"queued", "working", "interrupted", "completed", "cancelled"}
Rows == [album : Albums, state : States, rev : Nat, attempt : Nat]

(* What the backend already has when the program starts are downloads. *)
SavedAreRows == \A s \in Saved : s \in Seq(Rows)

(* No two entries stand at the same place. *)
NamesApart == Name \in [Nat -> Nat] /\ \A n, m \in Nat : Name[n] = Name[m] => n = m

(* The listing of downloads s: the newest of each album, and its place. *)
ListedIn(s) == {a \in Albums : \E e \in DOMAIN s : s[e].album = a}
NewestIn(s, a) == CHOOSE e \in DOMAIN s : s[e].album = a /\ \A o \in DOMAIN s : s[o].album = a => o <= e
RankIn(s, a) == Cardinality({o \in ListedIn(s) : NewestIn(s, o) >= NewestIn(s, a)})
PlaceIn(es, e) == Cardinality({o \in es : Name[o] <= Name[e]})

LEMMA NewestIs ==
  ASSUME NEW s \in Seq(Rows), NEW a \in ListedIn(s)
  PROVE  /\ NewestIn(s, a) \in DOMAIN s /\ s[NewestIn(s, a)].album = a
         /\ \A o \in DOMAIN s : s[o].album = a => o <= NewestIn(s, a)
<1>1. PICK n \in Nat : n = Len(s) /\ DOMAIN s = 1 .. n  OBVIOUS
<1> DEFINE Of(e) == e \in 1 .. n /\ s[e].album = a
           Last(e) == Of(e) /\ \A o \in 1 .. n : Of(o) => o <= e
           S == {k \in Nat : (\E e \in 1 .. n : Of(e) /\ e >= n - k) => \E e \in 1 .. n : Last(e)}
<1>2. 0 \in S  OBVIOUS
<1>3. \A k \in Nat : k \in S => k + 1 \in S
  <2> SUFFICES ASSUME NEW k \in Nat, k \in S, NEW e \in 1 .. n, Of(e), e >= n - (k + 1)
               PROVE  \E l \in 1 .. n : Last(l)  OBVIOUS
  <2>1. CASE \E o \in 1 .. n : Of(o) /\ o >= n - k  BY <2>1
  <2>2. CASE ~\E o \in 1 .. n : Of(o) /\ o >= n - k
    <3>1. \A o \in 1 .. n : Of(o) => o <= e  BY <2>2
    <3> QED BY <3>1
  <2> QED BY <2>1, <2>2
<1>4. n \in S
  <2> HIDE DEF S
  <2> QED BY <1>2, <1>3, Induct
<1>5. PICK e \in 1 .. n : Of(e)  BY <1>1 DEF ListedIn
<1>6. PICK l \in 1 .. n : Last(l)  BY <1>4, <1>5
<1> QED BY <1>1, <1>6 DEF NewestIn

LEMMA NewestApart ==
  ASSUME NEW s \in Seq(Rows), NEW a \in ListedIn(s), NEW b \in ListedIn(s), NewestIn(s, a) = NewestIn(s, b)
  PROVE  a = b  BY NewestIs

(* The members of a finite set, counted along a numbering of them, have the
   places 1, 2, ... *)
PlaceOf(shelf, f, a) == Cardinality({o \in shelf : f[o] >= f[a]})

LEMMA PlacesAre ==
  ASSUME NEW shelf, IsFiniteSet(shelf), NEW f \in [shelf -> Int],
         \A a, b \in shelf : f[a] = f[b] => a = b
  PROVE  /\ Cardinality(shelf) \in Nat /\ (Cardinality(shelf) = 0 <=> shelf = {})
         /\ \A a \in shelf : PlaceOf(shelf, f, a) \in 1 .. Cardinality(shelf)
         /\ \A k \in 1 .. Cardinality(shelf) : \E a \in shelf : PlaceOf(shelf, f, a) = k
<1>6. PICK N \in Nat : N = Cardinality(shelf)  BY FS_CardinalityType
<1> DEFINE Above(a) == {o \in shelf : f[o] >= f[a]}
           g == [a \in shelf |-> Cardinality(Above(a))]
<1>7. \A a \in shelf : /\ IsFiniteSet(Above(a)) /\ Cardinality(Above(a)) \in 1 .. N
  <2> SUFFICES ASSUME NEW a \in shelf PROVE IsFiniteSet(Above(a)) /\ Cardinality(Above(a)) \in 1 .. N  OBVIOUS
  <2>1. Above(a) \in SUBSET shelf /\ a \in Above(a)  OBVIOUS
  <2> HIDE DEF Above
  <2>2. IsFiniteSet(Above(a)) /\ Cardinality(Above(a)) <= N  BY <1>6, <2>1, FS_Subset
  <2>3. Cardinality(Above(a)) \in Nat /\ Cardinality(Above(a)) # 0  BY <2>1, <2>2, FS_CardinalityType, FS_EmptySet
  <2> QED BY <2>2, <2>3
<1>8. \A a, b \in shelf : Cardinality(Above(a)) = Cardinality(Above(b)) => a = b
  <2>1. \A a, b \in shelf : f[a] > f[b] => Cardinality(Above(a)) # Cardinality(Above(b))
    <3> SUFFICES ASSUME NEW a \in shelf, NEW b \in shelf, f[a] > f[b] PROVE Cardinality(Above(a)) # Cardinality(Above(b))
      OBVIOUS
    <3>1. Above(a) \in SUBSET Above(b) /\ b \in Above(b) /\ b \notin Above(a)  OBVIOUS
    <3>2. IsFiniteSet(Above(b))  BY <1>7
    <3> HIDE DEF Above
    <3> QED BY <3>1, <3>2, FS_Subset
  <2>2. \A a, b \in shelf : f[a] = f[b] \/ f[a] > f[b] \/ f[b] > f[a]  OBVIOUS
  <2> HIDE DEF Above
  <2> QED BY <2>1, <2>2
<1>9. \A a \in shelf : PlaceOf(shelf, f, a) = g[a]  BY DEF PlaceOf
<1> HIDE DEF Above
<1>11. g \in Injection(shelf, 1 .. N)  BY <1>7, <1>8 DEF Injection, IsInjective
<1>12. IsFiniteSet(1 .. N) /\ Cardinality(1 .. N) = N  BY FS_Interval
<1>13. g \in Surjection(shelf, 1 .. N)
  <2>1. PICK h : h = g  OBVIOUS
  <2>2. h \in Injection(shelf, 1 .. N)  BY <1>11, <2>1
  <2>3. h \in Surjection(shelf, 1 .. N)  BY <1>6, <1>12, <2>2, FS_Injection
  <2> QED BY <2>1, <2>3
<1>14. \A k \in 1 .. N : \E a \in shelf : g[a] = k  BY <1>13 DEF Surjection
<1>15. \A a \in shelf : g[a] \in 1 .. N  BY <1>7
<1> HIDE DEF g
<1>16. N = 0 <=> shelf = {}  BY <1>6, FS_EmptySet
<1> QED BY <1>6, <1>9, <1>14, <1>15, <1>16

(* One place for each album that has a download. *)
LEMMA RanksAre ==
  ASSUME NEW s \in Seq(Rows)
  PROVE  /\ Cardinality(ListedIn(s)) \in Nat
         /\ Cardinality(ListedIn(s)) = 0 <=> ListedIn(s) = {}
         /\ \A a \in ListedIn(s) : RankIn(s, a) \in 1 .. Cardinality(ListedIn(s))
         /\ \A k \in 1 .. Cardinality(ListedIn(s)) : \E a \in ListedIn(s) : RankIn(s, a) = k
<1>1. PICK shelf : shelf = ListedIn(s)  OBVIOUS
<1>2. PICK f : f = [a \in shelf |-> NewestIn(s, a)]  OBVIOUS
<1>3. /\ f \in [shelf -> 1 .. Len(s)] /\ f \in [shelf -> Int] /\ \A a, b \in shelf : f[a] = f[b] => a = b
      /\ Len(s) \in Nat  BY <1>1, <1>2, NewestIs, NewestApart
<1>4. f \in Injection(shelf, 1 .. Len(s)) /\ IsFiniteSet(1 .. Len(s))  BY <1>3, FS_Interval DEF Injection, IsInjective
<1>5. IsFiniteSet(shelf)  BY <1>4, FS_Injection
<1>6. \A a \in shelf : {o \in shelf : f[o] >= f[a]} = {o \in ListedIn(s) : NewestIn(s, o) >= NewestIn(s, a)}
  BY <1>1, <1>2
<1>7. \A a \in shelf : RankIn(s, a) = PlaceOf(shelf, f, a)  BY <1>6 DEF RankIn, PlaceOf
<1>8. /\ Cardinality(shelf) \in Nat /\ (Cardinality(shelf) = 0 <=> shelf = {})
      /\ \A a \in shelf : PlaceOf(shelf, f, a) \in 1 .. Cardinality(shelf)
      /\ \A k \in 1 .. Cardinality(shelf) : \E a \in shelf : PlaceOf(shelf, f, a) = k
  BY <1>3, <1>5, PlacesAre
<1> QED BY <1>1, <1>7, <1>8

(* One place for each entry. *)
LEMMA EntryPlacesAre ==
  ASSUME NamesApart, NEW s \in Seq(Rows)
  PROVE  /\ Len(s) \in Nat /\ (Len(s) = 0 <=> ListedIn(s) = {})
         /\ \A e \in DOMAIN s : PlaceIn(DOMAIN s, e) \in 1 .. Len(s)
         /\ \A k \in 1 .. Len(s) : \E e \in DOMAIN s : PlaceIn(DOMAIN s, e) = k
<1>1. PICK shelf, n : shelf = DOMAIN s /\ n = Len(s) /\ shelf = 1 .. n /\ n \in Nat  OBVIOUS
<1>2. IsFiniteSet(shelf) /\ Cardinality(shelf) = n
  <2>1. \A m \in Nat : IsFiniteSet(1 .. m) /\ Cardinality(1 .. m) = m  BY FS_Interval
  <2> QED BY <1>1, <2>1
<1>3. PICK f : f = [e \in shelf |-> 0 - Name[e]]  OBVIOUS
<1>4. f \in [shelf -> Int] /\ \A a, b \in shelf : f[a] = f[b] => a = b
  <2>1. \A e \in shelf : e \in Nat /\ Name[e] \in Nat /\ f[e] = 0 - Name[e]  BY <1>1, <1>3 DEF NamesApart
  <2>2. \A a, b \in shelf : f[a] = f[b] => Name[a] = Name[b]  BY <2>1
  <2> QED BY <1>3, <2>1, <2>2 DEF NamesApart
<1>5. \A e \in shelf : {o \in shelf : f[o] >= f[e]} = {o \in shelf : Name[o] <= Name[e]}
  <2>1. \A e \in shelf : Name[e] \in Nat /\ f[e] = 0 - Name[e]  BY <1>1, <1>3 DEF NamesApart
  <2>2. \A e, o \in shelf : f[o] >= f[e] <=> Name[o] <= Name[e]  BY <2>1
  <2> QED BY <2>2
<1>6. \A e \in shelf : PlaceIn(shelf, e) = PlaceOf(shelf, f, e)  BY <1>5 DEF PlaceIn, PlaceOf
<1>7. n = 0 <=> ListedIn(s) = {}
  <2>1. \A e \in shelf : s[e].album \in ListedIn(s)
    <3>1. \A e \in shelf : s[e] \in Rows  BY <1>1
    <3> QED BY <1>1, <3>1 DEF ListedIn, Rows
  <2> QED BY <1>1, <2>1 DEF ListedIn
<1>8. /\ \A a \in shelf : PlaceOf(shelf, f, a) \in 1 .. Cardinality(shelf)
      /\ \A k \in 1 .. Cardinality(shelf) : \E a \in shelf : PlaceOf(shelf, f, a) = k
  BY <1>2, <1>4, PlacesAre
<1> QED BY <1>1, <1>2, <1>6, <1>7, <1>8

LEMMA SameListing ==
  ASSUME NEW s \in Seq(Rows), NEW t \in Seq(Rows), DOMAIN t = DOMAIN s, \A e \in DOMAIN s : t[e].album = s[e].album
  PROVE  /\ ListedIn(t) = ListedIn(s)
         /\ \A a \in ListedIn(s) : NewestIn(t, a) = NewestIn(s, a) /\ RankIn(t, a) = RankIn(s, a)
<1>1. ListedIn(t) = ListedIn(s)  BY DEF ListedIn
<1>2. \A a \in ListedIn(s) : NewestIn(t, a) = NewestIn(s, a)
  <2> SUFFICES ASSUME NEW a \in ListedIn(s) PROVE NewestIn(t, a) = NewestIn(s, a)  OBVIOUS
  <2>1. /\ NewestIn(t, a) \in DOMAIN s /\ s[NewestIn(t, a)].album = a
        /\ \A o \in DOMAIN s : s[o].album = a => o <= NewestIn(t, a)  BY <1>1, NewestIs
  <2>2. /\ NewestIn(s, a) \in DOMAIN s /\ s[NewestIn(s, a)].album = a
        /\ \A o \in DOMAIN s : s[o].album = a => o <= NewestIn(s, a)  BY NewestIs
  <2>3. NewestIn(t, a) <= NewestIn(s, a) /\ NewestIn(s, a) <= NewestIn(t, a) /\ DOMAIN s \subseteq Int  BY <2>1, <2>2
  <2> QED BY <2>1, <2>2, <2>3
<1>3. ASSUME NEW a \in ListedIn(s) PROVE RankIn(t, a) = RankIn(s, a)
  <2>1. {o \in ListedIn(t) : NewestIn(t, o) >= NewestIn(t, a)} = {o \in ListedIn(s) : NewestIn(s, o) >= NewestIn(s, a)}
    BY <1>1, <1>2
  <2> QED BY <2>1 DEF RankIn
<1> QED BY <1>1, <1>2, <1>3


LEMMA ListingIs ==
  /\ L!Listed = ListedIn(entries)
  /\ \A n : \A a : (\E s \in L!PageOf(n) : s.entry \in DOMAIN entries /\ entries[s.entry].album = a)
                     <=> \E b \in ListedIn(entries) : /\ RankIn(entries, b) = n /\ NewestIn(entries, b) \in DOMAIN entries
                                                      /\ entries[NewestIn(entries, b)].album = a
  /\ \A n : \A s \in L!PageOf(n) : \E b \in ListedIn(entries) : s.entry = NewestIn(entries, b)
  /\ \A n : \A e : (\E s \in L!EntryPage(n) : s.entry = e) <=> e \in DOMAIN entries /\ PlaceIn(DOMAIN entries, e) = n
<1>1. L!Listed = ListedIn(entries)  BY DEF ListedIn, L!Listed, L!Ids
<1>2. \A a : L!Newest(a) = NewestIn(entries, a)  BY DEF NewestIn, L!Newest, L!Ids
<1>3. ASSUME NEW a PROVE L!Rank(a) = RankIn(entries, a)
  <2>1. {o \in L!Listed : L!Newest(o) >= L!Newest(a)} = {o \in ListedIn(entries) : NewestIn(entries, o) >= NewestIn(entries, a)}
    BY <1>1, <1>2
  <2>2. L!Rank(a) = Cardinality({o \in L!Listed : L!Newest(o) >= L!Newest(a)})
    <3>1. \A S : L!Cardinality(S) = Cardinality(S)  BY DEF L!Cardinality, Cardinality
    <3> QED BY <3>1 DEF L!Rank
  <2>3. RankIn(entries, a) = Cardinality({o \in ListedIn(entries) : NewestIn(entries, o) >= NewestIn(entries, a)})
    BY DEF RankIn
  <2> QED BY <2>1, <2>2, <2>3
<1>4. \A e : L!Shot(e).entry = e  BY DEF L!Shot, L!ShotOf
<1>5. \A e : L!Place(e) = PlaceIn(DOMAIN entries, e)
  <2>1. \A S : L!Cardinality(S) = Cardinality(S)  BY DEF L!Cardinality, Cardinality
  <2> QED BY <2>1 DEF L!Place, PlaceIn, L!Ids
<1>6. \A n : \A e : (\E s \in L!EntryPage(n) : s.entry = e) <=> e \in DOMAIN entries /\ PlaceIn(DOMAIN entries, e) = n
  BY <1>4, <1>5 DEF L!EntryPage, L!Ids
<1> QED BY <1>1, <1>2, <1>3, <1>4, <1>6 DEF L!PageOf

(* What the backend holds, and what it was asked. *)
RowsKnown == /\ entries \in Seq(Rows)
             /\ \A e \in DOMAIN entries : entries[e].state = "cancelled" => e \in stopped

Cancels(c) == c.kind \in {"cancel", "cancel in queue"}

(* A cancellation has each of its downloads before it, or skipped; what it is
   answered was cancelled. *)
CallKnown(c, known, ended) ==
  /\ DOMAIN c = {"kind", "entries", "albums", "all", "answer", "rejected", "skipped"}
  /\ c.albums \subseteq Albums
  /\ c.kind = "add" /\ c.answer # None => \A s \in c.answer : s.entry \in known
  /\ Cancels(c) => /\ c.entries \cup c.skipped = c.all /\ c.entries \cap c.skipped = {}
                   /\ c.answer # None => c.rejected \subseteq c.entries /\ (c.rejected = {} => c.entries \subseteq ended)

CallsKnown == \A c \in calls : CallKnown(c, DOMAIN entries, stopped)

(* A step of the backend begins one download at most, and says so. *)
RowsKept == /\ entries' \in Seq(Rows) /\ DOMAIN entries \subseteq DOMAIN entries'
            /\ \A e \in DOMAIN entries : entries'[e].album = entries[e].album
            /\ stopped \subseteq stopped'
            /\ DOMAIN entries' = DOMAIN entries \/ board' = [board EXCEPT !.moved = TRUE]

LEMMA Becomes ==
  ASSUME NEW e, e \in DOMAIN entries, entries \in Seq(Rows), NEW st \in States
  PROVE  /\ L!Become(e, st) \in Rows /\ L!Become(e, st).album = entries[e].album /\ L!Become(e, st).state = st
         /\ \A n \in Nat : [L!Become(e, st) EXCEPT !.attempt = n] \in Rows
         /\ \A n \in Nat : [L!Become(e, st) EXCEPT !.attempt = n].album = entries[e].album
         /\ \A n \in Nat : [L!Become(e, st) EXCEPT !.attempt = n].state = st
<1>1. PICK x \in Rows : x = entries[e]  OBVIOUS
<1>2. x = [album |-> x.album, state |-> x.state, rev |-> x.rev, attempt |-> x.attempt] /\ x.rev + 1 \in Nat
  BY DEF Rows
<1>3. PICK y : y = L!Become(e, st)  OBVIOUS
<1>4. y = [x EXCEPT !.state = st, !.rev = @ + 1]  BY <1>1, <1>3 DEF L!Become
<1>5. y = [album |-> x.album, state |-> st, rev |-> x.rev + 1, attempt |-> x.attempt]  BY <1>2, <1>4
<1>6. \A n \in Nat : [y EXCEPT !.attempt = n] = [album |-> x.album, state |-> st, rev |-> x.rev + 1, attempt |-> n]
  BY <1>5
<1>7. y \in Rows /\ \A n \in Nat : [y EXCEPT !.attempt = n] \in Rows  BY <1>2, <1>5, <1>6 DEF Rows
<1> QED BY <1>1, <1>3, <1>5, <1>6, <1>7

LEMMA RowSteps ==
  ASSUME RowsKnown, CallsKnown, [L!Next]_L!vars
  PROVE  RowsKnown' /\ RowsKept
<1>1. CASE UNCHANGED <<entries, stopped>>  BY <1>1 DEF RowsKnown, RowsKept
<1>2. ASSUME NEW w \in timers, L!Work(w[1], w[2]) PROVE RowsKnown' /\ RowsKept
  <2>1. UNCHANGED stopped  BY <1>2 DEF L!Work
  <2>2. CASE UNCHANGED entries  BY <1>1, <2>1, <2>2
  <2>3. ASSUME NEW st \in {"working", "interrupted", "completed"}, entries' = [entries EXCEPT ![w[1]] = L!Become(w[1], st)]
        PROVE  RowsKnown' /\ RowsKept
    <3>1. CASE w[1] \in DOMAIN entries
      <4>1. L!Become(w[1], st) \in Rows /\ L!Become(w[1], st).album = entries[w[1]].album /\ L!Become(w[1], st).state = st
        BY <3>1, Becomes DEF RowsKnown, States
      <4>2. entries' \in Seq(Rows)  BY <2>3, <3>1, <4>1 DEF RowsKnown
      <4>3. \A e \in DOMAIN entries : entries'[e] = IF e = w[1] THEN L!Become(w[1], st) ELSE entries[e]  BY <2>3
      <4>4. DOMAIN entries' = DOMAIN entries  BY <2>3
      <4> QED BY <2>1, <3>1, <4>1, <4>2, <4>3, <4>4 DEF RowsKnown, RowsKept
    <3>2. CASE w[1] \notin DOMAIN entries
      <4>1. entries' = entries  BY <2>3, <3>2 DEF RowsKnown
      <4> QED BY <1>1, <2>1, <4>1
    <3> QED BY <3>1, <3>2
  <2>4. (\E st \in {"working", "interrupted", "completed"} : entries' = [entries EXCEPT ![w[1]] = L!Become(w[1], st)])
        \/ UNCHANGED entries  BY <1>2 DEF L!Work
  <2> QED BY <2>2, <2>3, <2>4
<1>3. ASSUME NEW c \in calls, L!QueueAddServed(c) PROVE RowsKnown' /\ RowsKept
  <2>1. UNCHANGED stopped  BY <1>3 DEF L!QueueAddServed
  <2>2. UNCHANGED entries \/ \E a \in c.albums : /\ a \in c.albums
                                                 /\ entries' = Append(entries, [album |-> a, state |-> "queued", rev |-> 0, attempt |-> 1])
                                                 /\ board' = [board EXCEPT !.moved = TRUE]
    BY <1>3 DEF L!QueueAddServed
  <2>3. CASE UNCHANGED entries  BY <1>1, <2>1, <2>3
  <2>4. ASSUME NEW a \in c.albums, entries' = Append(entries, [album |-> a, state |-> "queued", rev |-> 0, attempt |-> 1]),
               board' = [board EXCEPT !.moved = TRUE]
        PROVE  RowsKnown' /\ RowsKept
    <3>1. PICK row : row = [album |-> a, state |-> "queued", rev |-> 0, attempt |-> 1]  OBVIOUS
    <3>2. row \in Rows /\ row.state = "queued"  BY <3>1 DEF CallsKnown, CallKnown, Rows, States
    <3>3. entries' = Append(entries, row) /\ entries \in Seq(Rows)  BY <2>4, <3>1 DEF RowsKnown
    <3>4. /\ entries' \in Seq(Rows) /\ DOMAIN entries' = 1 .. (Len(entries) + 1) /\ DOMAIN entries = 1 .. Len(entries)
          /\ Len(entries) \in Nat
          /\ \A e \in DOMAIN entries : entries'[e] = entries[e]
          /\ entries'[Len(entries) + 1] = row  BY <3>2, <3>3
    <3>5. \A e \in DOMAIN entries' : e \in DOMAIN entries \/ e = Len(entries) + 1  BY <3>4
    <3> QED BY <2>1, <2>4, <3>2, <3>4, <3>5 DEF RowsKnown, RowsKept
  <2> QED BY <2>2, <2>3, <2>4
<1>4. ASSUME NEW c \in calls, L!RetryServed(c) PROVE RowsKnown' /\ RowsKept
  <2>1. UNCHANGED stopped  BY <1>4 DEF L!RetryServed
  <2>2. UNCHANGED entries \/ \E again : entries' = [e \in L!Ids |-> IF e \notin again THEN entries[e]
                                            ELSE [L!Become(e, "queued") EXCEPT !.attempt = @ + 1]]
    BY <1>4, Zenon DEF L!RetryServed
  <2>3. CASE UNCHANGED entries  BY <1>1, <2>1, <2>3
  <2>4. ASSUME NEW again, entries' = [e \in L!Ids |-> IF e \notin again THEN entries[e]
                                            ELSE [L!Become(e, "queued") EXCEPT !.attempt = @ + 1]]
        PROVE  RowsKnown' /\ RowsKept
    <3>1. \A e \in DOMAIN entries : /\ [L!Become(e, "queued") EXCEPT !.attempt = @ + 1] \in Rows
                                    /\ [L!Become(e, "queued") EXCEPT !.attempt = @ + 1].album = entries[e].album
                                    /\ [L!Become(e, "queued") EXCEPT !.attempt = @ + 1].state = "queued"
      <4> SUFFICES ASSUME NEW e \in DOMAIN entries
                   PROVE  /\ [L!Become(e, "queued") EXCEPT !.attempt = @ + 1] \in Rows
                          /\ [L!Become(e, "queued") EXCEPT !.attempt = @ + 1].album = entries[e].album
                          /\ [L!Become(e, "queued") EXCEPT !.attempt = @ + 1].state = "queued"  OBVIOUS
      <4>1. PICK st : st = "queued"  OBVIOUS
      <4>2. st \in States /\ entries \in Seq(Rows)  BY <4>1 DEF States, RowsKnown
      <4>3. PICK y : y = L!Become(e, st)  OBVIOUS
      <4>4. /\ y \in Rows
            /\ \A n \in Nat : [y EXCEPT !.attempt = n] \in Rows
            /\ \A n \in Nat : [y EXCEPT !.attempt = n].album = entries[e].album
            /\ \A n \in Nat : [y EXCEPT !.attempt = n].state = st  BY <4>2, <4>3, Becomes
      <4>5. PICK n \in Nat : n = y.attempt + 1  BY <4>4 DEF Rows
      <4>6. [L!Become(e, "queued") EXCEPT !.attempt = @ + 1] = [y EXCEPT !.attempt = n]  BY <4>1, <4>3, <4>5
      <4> QED BY <4>1, <4>4, <4>6
    <3>2. \A e \in DOMAIN entries : entries'[e] = IF e \notin again THEN entries[e]
                                            ELSE [L!Become(e, "queued") EXCEPT !.attempt = @ + 1]
      BY <2>4 DEF L!Ids
    <3>3. DOMAIN entries' = DOMAIN entries  BY <2>4 DEF L!Ids
    <3>4. \A e \in DOMAIN entries : /\ entries'[e] \in Rows /\ entries'[e].album = entries[e].album
                                    /\ entries'[e].state = entries[e].state \/ entries'[e].state = "queued"
      <4> SUFFICES ASSUME NEW e \in DOMAIN entries
                   PROVE  /\ entries'[e] \in Rows /\ entries'[e].album = entries[e].album
                          /\ entries'[e].state = entries[e].state \/ entries'[e].state = "queued"  OBVIOUS
      <4>1. entries[e] \in Rows  BY DEF RowsKnown
      <4>2. CASE e \in again  BY <3>1, <3>2, <4>2
      <4>3. CASE e \notin again
        <5>1. entries'[e] = entries[e]  BY <3>2, <4>3
        <5> QED BY <4>1, <5>1
      <4> QED BY <4>2, <4>3
    <3>5. entries' \in Seq(Rows)
      <4>1. entries' = [e \in DOMAIN entries |-> entries'[e]]  BY <2>4, <3>2 DEF L!Ids
      <4>2. PICK n \in Nat : DOMAIN entries = 1 .. n  BY DEF RowsKnown
      <4> QED BY <3>4, <4>1, <4>2
    <3> QED BY <2>1, <3>3, <3>4, <3>5 DEF RowsKnown, RowsKept
  <2> QED BY <2>2, <2>3, <2>4
<1>5. ASSUME NEW c \in calls, L!CancelServed(c) PROVE RowsKnown' /\ RowsKept
  <2>1. UNCHANGED <<entries, stopped>> \/ \E hit : /\ entries' = [e \in L!Ids |-> IF e \in hit THEN L!Become(e, "cancelled") ELSE entries[e]]
                                                   /\ stopped' = stopped \cup hit
    BY <1>5, Zenon DEF L!CancelServed
  <2>2. ASSUME NEW hit, entries' = [e \in L!Ids |-> IF e \in hit THEN L!Become(e, "cancelled") ELSE entries[e]],
               stopped' = stopped \cup hit
        PROVE  RowsKnown' /\ RowsKept
    <3>1. \A e \in DOMAIN entries : L!Become(e, "cancelled") \in Rows /\ L!Become(e, "cancelled").album = entries[e].album
      <4> SUFFICES ASSUME NEW e \in DOMAIN entries
                   PROVE  L!Become(e, "cancelled") \in Rows /\ L!Become(e, "cancelled").album = entries[e].album
        OBVIOUS
      <4>1. PICK st : st = "cancelled"  OBVIOUS
      <4>2. st \in States /\ entries \in Seq(Rows)  BY <4>1 DEF States, RowsKnown
      <4> QED BY <4>1, <4>2, Becomes
    <3>2. \A e \in DOMAIN entries : entries'[e] = IF e \in hit THEN L!Become(e, "cancelled") ELSE entries[e]
      BY <2>2 DEF L!Ids
    <3>3. DOMAIN entries' = DOMAIN entries  BY <2>2 DEF L!Ids
    <3>4. \A e \in DOMAIN entries : /\ entries'[e] \in Rows /\ entries'[e].album = entries[e].album
                                    /\ e \notin hit => entries'[e].state = entries[e].state
      BY <3>1, <3>2 DEF RowsKnown
    <3>5. entries' \in Seq(Rows)
      <4>1. entries' = [e \in DOMAIN entries |-> entries'[e]]  BY <2>2, <3>2 DEF L!Ids
      <4>2. PICK n \in Nat : DOMAIN entries = 1 .. n  BY DEF RowsKnown
      <4> QED BY <3>4, <4>1, <4>2
    <3> QED BY <2>2, <3>3, <3>4, <3>5 DEF RowsKnown, RowsKept
  <2> QED BY <1>1, <2>1, <2>2
<1>6. \/ UNCHANGED <<entries, stopped>>
      \/ \E w \in timers : L!Work(w[1], w[2])
      \/ \E c \in calls : L!QueueAddServed(c) \/ L!RetryServed(c) \/ L!CancelServed(c)
  <2>1. CASE UNCHANGED L!vars  BY <2>1 DEF L!vars
  <2>2. CASE \E r \in reads : L!ReadServed(r) \/ L!PageArrives(r) \/ L!ReadFails(r)
    BY <2>2 DEF L!ReadServed, L!PageArrives, L!ReadFails, L!backendVars
  <2>3. CASE L!Tick \/ L!Deliver \/ L!Reload  BY <2>3 DEF L!Tick, L!Deliver, L!Reload, L!backendVars
  <2>4. CASE \/ \E as \in SUBSET Albums : L!QueueGalleries(as) \/ L!CancelGalleries(as)
             \/ \E a \in Albums : L!RetryGallery(a)
             \/ L!RetryAvailableDownloads
             \/ \E es \in L!Selectable : L!CancelQueueEntries(es)
    BY <2>4 DEF L!QueueGalleries, L!CancelGalleries, L!RetryGallery, L!RetryAvailableDownloads, L!CancelQueueEntries, L!backendVars
  <2>5. CASE \E c \in calls : L!AddAnswered(c) \/ L!RetryAnswered(c) \/ L!CancelAnswered(c) \/ L!CallFails(c)
    BY <2>5 DEF L!AddAnswered, L!RetryAnswered, L!CancelAnswered, L!CallFails, L!backendVars
  <2> QED BY <2>1, <2>2, <2>3, <2>4, <2>5 DEF L!Next
<1> QED BY <1>1, <1>2, <1>3, <1>4, <1>5, <1>6


ReportTrue == L!CancelAccountsForAll

LEMMA CallSteps ==
  ASSUME RowsKnown, CallsKnown, ReportTrue, [L!Next]_L!vars
  PROVE  CallsKnown' /\ ReportTrue'
<1>1. RowsKnown' /\ RowsKept  BY RowSteps
<1>2. \A c \in calls : CallKnown(c, DOMAIN entries', stopped')  BY <1>1 DEF RowsKept, CallsKnown, CallKnown
<1>3. UNCHANGED report => ReportTrue'  BY <1>1 DEF ReportTrue, L!CancelAccountsForAll, RowsKept
<1>4. \A x : CallKnown(x, DOMAIN entries', stopped') =>
        ((\A c \in calls' : c \in calls \/ c = x) /\ UNCHANGED report => CallsKnown' /\ ReportTrue')
  BY <1>2, <1>3 DEF CallsKnown
<1>5. (\A c \in calls' : c \in calls) /\ UNCHANGED report => CallsKnown' /\ ReportTrue'  BY <1>2, <1>3 DEF CallsKnown
<1>6. \A kind, es, as : as \subseteq Albums =>
        CallKnown([L!Call(kind, es) EXCEPT !.albums = as], DOMAIN entries', stopped')
  <2> SUFFICES ASSUME NEW kind, NEW es, NEW as, as \subseteq Albums
               PROVE  CallKnown([L!Call(kind, es) EXCEPT !.albums = as], DOMAIN entries', stopped')  OBVIOUS
  <2>1. PICK x : x = L!Call(kind, es)  OBVIOUS
  <2>2. x = [kind |-> kind, entries |-> es, albums |-> {}, all |-> es, answer |-> None,
             rejected |-> {}, skipped |-> {}]  BY <2>1 DEF L!Call
  <2>3. /\ DOMAIN x = {"kind", "entries", "albums", "all", "answer", "rejected", "skipped"}
        /\ x.kind = kind /\ x.entries = es /\ x.all = es /\ x.skipped = {} /\ x.answer = None  BY <2>2
  <2>4. PICK y : y = [x EXCEPT !.albums = as]  OBVIOUS
  <2>5. /\ DOMAIN y = {"kind", "entries", "albums", "all", "answer", "rejected", "skipped"} /\ y.albums = as
        /\ y.kind = kind /\ y.entries = es /\ y.all = es /\ y.skipped = {} /\ y.answer = None  BY <2>3, <2>4
  <2>6. CallKnown(y, DOMAIN entries', stopped')  BY <2>5 DEF CallKnown, Cancels
  <2> QED BY <2>1, <2>4, <2>6
<1>7. \A kind, es : CallKnown(L!Call(kind, es), DOMAIN entries', stopped') /\ L!Call(kind, es).answer = None
  BY DEF CallKnown, L!Call, Cancels
<1>8. \A x : L!Command(x) => \A c \in calls' : c \in calls \/ c = x  BY DEF L!Command
<1>9. CASE UNCHANGED L!vars  BY <1>5, <1>9 DEF L!vars
<1>10. CASE \/ \E w \in timers : L!Work(w[1], w[2])
            \/ \E r \in reads : L!ReadServed(r) \/ L!PageArrives(r) \/ L!ReadFails(r)
            \/ L!Tick \/ L!Deliver \/ L!Reload
  <2>1. UNCHANGED <<calls, report>>
    <3>1. CASE \E w \in timers : L!Work(w[1], w[2])  BY <3>1 DEF L!Work, L!deskVars
    <3>2. CASE \E r \in reads : L!ReadServed(r) \/ L!PageArrives(r) \/ L!ReadFails(r)
      BY <3>2 DEF L!ReadServed, L!PageArrives, L!ReadFails, L!deskVars
    <3>3. CASE L!Tick \/ L!Deliver \/ L!Reload  BY <3>3 DEF L!Tick, L!Deliver, L!Reload, L!deskVars
    <3> QED BY <1>10, <3>1, <3>2, <3>3
  <2> QED BY <1>5, <2>1
<1>11. ASSUME NEW as \in SUBSET Albums, L!QueueGalleries(as) PROVE CallsKnown' /\ ReportTrue'
  <2> DEFINE again == {library[a].entry : a \in {o \in as : L!CanRetry(o)}}
             fresh == {a \in as : library[a] = None}
  <2>0. L!Command([L!Call(IF again = {} THEN "add" ELSE "retry then add", again) EXCEPT !.albums = fresh])
    BY <1>11, Zenon DEF L!QueueGalleries
  <2>1. PICK kind, es, new : /\ L!Command([L!Call(kind, es) EXCEPT !.albums = new])
                             /\ new \subseteq Albums
    <3>1. PICK kind, es, new : kind = (IF again = {} THEN "add" ELSE "retry then add") /\ es = again /\ new = fresh
      OBVIOUS
    <3>2. new \subseteq Albums  BY <3>1
    <3> HIDE DEF again, fresh
    <3> QED BY <2>0, <3>1, <3>2
  <2>2. PICK x : x = [L!Call(kind, es) EXCEPT !.albums = new]  OBVIOUS
  <2>3. CallKnown(x, DOMAIN entries', stopped')  BY <1>6, <1>7, <2>1, <2>2
  <2>4. (\A c \in calls' : c \in calls \/ c = x) /\ UNCHANGED report  BY <1>8, <1>11, <2>1, <2>2 DEF L!QueueGalleries
  <2> QED BY <1>4, <2>3, <2>4
<1>12. CASE \/ \E as \in SUBSET Albums : L!CancelGalleries(as)
            \/ \E a \in Albums : L!RetryGallery(a)
            \/ L!RetryAvailableDownloads
            \/ \E es \in L!Selectable : L!CancelQueueEntries(es)
  <2>1. (\E kind, es : L!Command(L!Call(kind, es))) /\ UNCHANGED report
    <3>1. CASE \E as \in SUBSET Albums : L!CancelGalleries(as)  BY <3>1 DEF L!CancelGalleries
    <3>2. CASE \E a \in Albums : L!RetryGallery(a)  BY <3>2 DEF L!RetryGallery
    <3>3. CASE L!RetryAvailableDownloads  BY <3>3 DEF L!RetryAvailableDownloads
    <3>4. CASE \E es \in L!Selectable : L!CancelQueueEntries(es)  BY <3>4 DEF L!CancelQueueEntries
    <3> QED BY <1>12, <3>1, <3>2, <3>3, <3>4
  <2>2. PICK kind, es : L!Command(L!Call(kind, es))  BY <2>1
  <2>3. PICK x : x = L!Call(kind, es)  OBVIOUS
  <2> QED BY <1>4, <1>7, <1>8, <2>1, <2>2, <2>3
<1>13. ASSUME NEW c \in calls, L!QueueAddServed(c) PROVE CallsKnown' /\ ReportTrue'
  <2>1. PICK x, shots : /\ x = [c EXCEPT !.answer = shots] /\ calls' = (calls \ {c}) \cup {x}
                        /\ \A s \in shots : s.entry \in DOMAIN entries'
    <3> DEFINE taken == {L!ShotOf(e, entries'[e]) : e \in {o \in DOMAIN entries' : entries'[o].album \in c.albums /\ entries'[o].state \in L!Active}}
    <3>1. calls' = (calls \ {c}) \cup {[c EXCEPT !.answer = taken]}  BY <1>13, Zenon DEF L!QueueAddServed
    <3>2. PICK shots : shots = taken  OBVIOUS
    <3>3. \A s \in shots : s.entry \in DOMAIN entries'  BY <3>2 DEF L!ShotOf
    <3> HIDE DEF taken
    <3> QED BY <3>1, <3>2, <3>3
  <2>2. c.kind = "add" /\ UNCHANGED report  BY <1>13 DEF L!QueueAddServed, L!Unasked
  <2>3. CallKnown(x, DOMAIN entries', stopped')  BY <2>1, <2>2 DEF CallsKnown, CallKnown, Cancels
  <2> QED BY <1>4, <2>1, <2>2, <2>3
<1>14. ASSUME NEW c \in calls, L!RetryServed(c) PROVE CallsKnown' /\ ReportTrue'
  <2>1. PICK es : L!Answered(c, {}, es)  BY <1>14, Zenon DEF L!RetryServed
  <2>2. PICK x : x = [c EXCEPT !.answer = {}, !.rejected = es]  OBVIOUS
  <2>3. calls' = (calls \ {c}) \cup {x}  BY <2>1, <2>2 DEF L!Answered
  <2>4. ~Cancels(c) /\ c.kind # "add" /\ UNCHANGED report  BY <1>14 DEF L!RetryServed, L!Unasked, Cancels
  <2>5. CallKnown(x, DOMAIN entries', stopped')  BY <2>2, <2>4 DEF CallsKnown, CallKnown, Cancels
  <2> QED BY <1>4, <2>3, <2>4, <2>5
<1>15. ASSUME NEW c \in calls, L!CancelServed(c) PROVE CallsKnown' /\ ReportTrue'
  <2>1. PICK shots, rejected : /\ L!Answered(c, shots, rejected)
                               /\ rejected \subseteq c.entries
                               /\ rejected = {} => c.entries \subseteq stopped'
    <3>1. CASE \E e \in c.entries : L!Answered(c, {}, {e})  BY <3>1
    <3>2. ASSUME NEW hit, hit = {e \in c.entries : entries[e].state # "cancelled"}, stopped' = stopped \cup hit,
                 NEW shots, L!Answered(c, shots, {})
          PROVE  c.entries \subseteq stopped'
      <4>1. c.entries \subseteq DOMAIN entries  BY <1>15 DEF L!CancelServed, L!Ids
      <4> QED BY <3>2, <4>1 DEF RowsKnown
    <3> QED BY <1>15, <3>1, <3>2 DEF L!CancelServed
  <2>2. PICK x : x = [c EXCEPT !.answer = shots, !.rejected = rejected]  OBVIOUS
  <2>3. calls' = (calls \ {c}) \cup {x}  BY <2>1, <2>2 DEF L!Answered
  <2>4. c.kind # "add" /\ UNCHANGED report  BY <1>15 DEF L!CancelServed, L!Unasked
  <2>5. CallKnown(x, DOMAIN entries', stopped')  BY <2>1, <2>2, <2>4 DEF CallsKnown, CallKnown, Cancels
  <2> QED BY <1>4, <2>3, <2>4, <2>5
<1>16. ASSUME NEW c \in calls, L!AddAnswered(c) PROVE CallsKnown' /\ ReportTrue'  BY <1>5, <1>16 DEF L!AddAnswered
<1>17. ASSUME NEW c \in calls, L!RetryAnswered(c) PROVE CallsKnown' /\ ReportTrue'
  <2>1. UNCHANGED report /\ \A d \in calls' : d \in calls \/ d = [L!Call("add", {}) EXCEPT !.albums = c.albums]
    BY <1>17 DEF L!RetryAnswered
  <2>2. c.albums \subseteq Albums  BY DEF CallsKnown, CallKnown
  <2>3. PICK as, es, kind : as = c.albums /\ es = {} /\ kind = "add"  OBVIOUS
  <2>4. PICK x : x = [L!Call(kind, es) EXCEPT !.albums = as]  OBVIOUS
  <2>5. CallKnown(x, DOMAIN entries', stopped')  BY <1>6, <1>7, <2>2, <2>3, <2>4
  <2> QED BY <1>4, <2>1, <2>3, <2>4, <2>5
<1>18. ASSUME NEW c \in calls, L!CancelAnswered(c) PROVE CallsKnown' /\ ReportTrue'
  <2>1. /\ Cancels(c) /\ c.answer # None /\ CallKnown(c, DOMAIN entries, stopped) /\ CallKnown(c, DOMAIN entries', stopped')
        /\ stopped \subseteq stopped'
    BY <1>1, <1>2, <1>18 DEF L!CancelAnswered, Cancels, CallsKnown, RowsKept
  <2>2. ASSUME calls' = (calls \ {c}) \cup {[c EXCEPT !.entries = c.entries \ c.rejected, !.skipped = @ \cup c.rejected,
                                                      !.answer = None, !.rejected = {}]}, UNCHANGED report
        PROVE  CallsKnown' /\ ReportTrue'
    <3>1. PICK x : x = [c EXCEPT !.entries = c.entries \ c.rejected, !.skipped = @ \cup c.rejected,
                                                      !.answer = None, !.rejected = {}]  OBVIOUS
    <3>2. /\ DOMAIN x = DOMAIN c /\ x.entries = c.entries \ c.rejected /\ x.skipped = c.skipped \cup c.rejected
          /\ x.answer = None /\ x.all = c.all /\ x.kind = c.kind /\ x.albums = c.albums
      BY <2>1, <3>1 DEF CallKnown
    <3>3. CallKnown(x, DOMAIN entries', stopped')  BY <2>1, <3>2 DEF CallKnown, Cancels
    <3> QED BY <1>4, <2>2, <3>1, <3>3
  <2>3. ASSUME NEW sk, NEW hit,
               report' = [asked |-> c.all, skipped |-> sk, failed |-> {}, cancelled |-> hit],
               \/ sk = c.skipped \cup c.rejected /\ c.entries \ c.rejected = {} /\ hit = {}
               \/ c.rejected = {} /\ sk = c.skipped /\ hit = c.entries,
               calls' = calls \ {c}
        PROVE  CallsKnown' /\ ReportTrue'
    <3>1. CallsKnown'  BY <1>2, <2>3 DEF CallsKnown
    <3>2. report'.asked = c.all /\ report'.skipped = sk /\ report'.failed = {} /\ report'.cancelled = hit  BY <2>3
    <3>3. ReportTrue'  BY <2>1, <2>3, <3>2 DEF ReportTrue, L!CancelAccountsForAll, CallKnown
    <3> QED BY <3>1, <3>3
  <2> QED BY <1>18, <2>2, <2>3 DEF L!CancelAnswered, L!Finished
<1>19. ASSUME NEW c \in calls, L!CallFails(c) PROVE CallsKnown' /\ ReportTrue'
  <2>1. CallsKnown'  BY <1>2, <1>19 DEF CallsKnown, L!CallFails, L!Finished
  <2>2. CASE ~Cancels(c)
    <3>1. UNCHANGED report  BY <1>19, <2>2 DEF L!CallFails, Cancels
    <3> QED BY <1>3, <2>1, <3>1
  <2>3. CASE Cancels(c)
    <3>1. report' = [asked |-> c.all, skipped |-> c.skipped, failed |-> c.entries, cancelled |-> {}]
      BY <1>19, <2>3 DEF L!CallFails, Cancels
    <3>2. CallKnown(c, DOMAIN entries, stopped)  BY DEF CallsKnown
    <3>3. ReportTrue'  BY <2>3, <3>1, <3>2 DEF ReportTrue, L!CancelAccountsForAll, CallKnown
    <3> QED BY <2>1, <3>3
  <2> QED BY <2>2, <2>3
<1> QED BY <1>9, <1>10, <1>11, <1>12, <1>13, <1>14, <1>15, <1>16, <1>17, <1>18, <1>19 DEF L!Next


(* A reading of the list: it has gathered the albums of the places before its
   page, unless a download was begun since, or another reading, or its pages
   came from both lists. *)
LibraryRead(r, s) ==
  /\ \A a \in ListedIn(s) : a \in r.acc <=> RankIn(s, a) < r.page
  /\ r.page = 1 \/ r.page <= Cardinality(ListedIn(s))
  /\ r.answer # None =>
       /\ r.total = Cardinality(ListedIn(s))
       /\ \A a \in Albums : (\E x \in r.answer : s[x.entry].album = a) <=> a \in ListedIn(s) /\ RankIn(s, a) = r.page

EntriesRead(r, s) ==
  /\ \A a \in ListedIn(s) : a \in r.acc <=> \E e \in DOMAIN s : s[e].album = a /\ PlaceIn(DOMAIN s, e) < r.page
  /\ r.page = 1 \/ r.page <= Len(s)
  /\ r.answer # None =>
       /\ r.total = Len(s)
       /\ \A e : (\E x \in r.answer : x.entry = e) <=> e \in DOMAIN s /\ PlaceIn(DOMAIN s, e) = r.page

ReadKnown(r, s, last, moved) ==
  /\ DOMAIN r = {"token", "page", "acc", "total", "lists", "answer"}
  /\ r.token \in Nat /\ r.token <= last /\ r.page \in Nat /\ r.page >= 1
  /\ r.lists \subseteq {"library", "entries"}
  /\ r.acc \subseteq ListedIn(s)
  /\ r.answer # None => \A x \in r.answer : x.entry \in DOMAIN s
  /\ r.token = last /\ ~moved => /\ "entries" \notin r.lists => LibraryRead(r, s)
                                 /\ "library" \notin r.lists => EntriesRead(r, s)

ListKnown ==
  /\ token \in Nat /\ DOMAIN board = {"loading", "error", "moved", "mixed"}
  /\ ids \subseteq ListedIn(entries)
  /\ \A r \in reads : ReadKnown(r, entries, token, board.moved)
  /\ \A r, q \in reads : r.token = token /\ q.token = token => r = q
  /\ ~board.loading => \A r \in reads : r.token # token
  /\ ~board.loading /\ ~board.error /\ ~board.moved /\ ~board.mixed => ids = ListedIn(entries)

LEMMA ReadKept ==
  ASSUME NEW r, NEW s \in Seq(Rows), NEW t \in Seq(Rows), NEW last, NEW m, NEW n,
         DOMAIN s \subseteq DOMAIN t, \A e \in DOMAIN s : t[e].album = s[e].album,
         ReadKnown(r, s, last, m), ~n => ~m /\ DOMAIN t = DOMAIN s
  PROVE  ReadKnown(r, t, last, n) /\ ListedIn(s) \subseteq ListedIn(t)
<1>1. ListedIn(s) \subseteq ListedIn(t)  BY DEF ListedIn
<1>2. CASE n  BY <1>1, <1>2 DEF ReadKnown
<1>3. CASE ~n
  <2>1. /\ ListedIn(t) = ListedIn(s)
        /\ \A a \in ListedIn(s) : RankIn(t, a) = RankIn(s, a)  BY <1>3, SameListing
  <2>2. r.answer # None => \A x \in r.answer : t[x.entry].album = s[x.entry].album  BY DEF ReadKnown
  <2>3. (DOMAIN t = DOMAIN s) /\ Len(t) = Len(s)  BY <1>3
  <2>4. LibraryRead(r, s) => LibraryRead(r, t)  BY <2>1, <2>2 DEF LibraryRead
  <2>5. EntriesRead(r, s) => EntriesRead(r, t)  BY <1>3, <2>1, <2>3 DEF EntriesRead
  <2> QED BY <1>3, <2>1, <2>2, <2>4, <2>5 DEF ReadKnown
<1> QED BY <1>1, <1>2, <1>3

(* The backend goes on while the list is read. *)
LEMMA ListStays ==
  ASSUME RowsKnown, ListKnown, RowsKept, UNCHANGED <<reads, token>>, ids' \subseteq ListedIn(entries'), ids \subseteq ids',
         DOMAIN board' = DOMAIN board, board'.loading = board.loading, board'.error = board.error,
         board'.mixed = board.mixed, ~board'.moved => ~board.moved /\ DOMAIN entries' = DOMAIN entries
  PROVE  ListKnown'
<1>1. PICK s, t, m, n : s = entries /\ t = entries' /\ m = board.moved /\ n = board'.moved  OBVIOUS
<1>2. s \in Seq(Rows) /\ t \in Seq(Rows) /\ DOMAIN s \subseteq DOMAIN t /\ \A e \in DOMAIN s : t[e].album = s[e].album
  BY <1>1 DEF RowsKnown, RowsKept
<1>3. ~n => ~m /\ DOMAIN t = DOMAIN s  BY <1>1
<1>4. \A r \in reads : ReadKnown(r, t, token, n)
  <2> SUFFICES ASSUME NEW r \in reads PROVE ReadKnown(r, t, token, n)  OBVIOUS
  <2>1. PICK last : last = token  OBVIOUS
  <2>2. ReadKnown(r, s, last, m)  BY <1>1, <2>1 DEF ListKnown
  <2>3. ReadKnown(r, t, last, n)  BY <1>2, <1>3, <2>2, ReadKept
  <2> QED BY <2>1, <2>3
<1>5. ~board'.moved => ListedIn(t) = ListedIn(s)  BY <1>1, <1>2, <1>3, SameListing
<1>6. ListedIn(entries)' = ListedIn(t) /\ \A r : ReadKnown(r, entries, token, board.moved)' = ReadKnown(r, t, token, n)
  BY <1>1
<1>7. token' \in Nat /\ DOMAIN board' = {"loading", "error", "moved", "mixed"}  BY DEF ListKnown
<1>8. \A r \in reads' : ReadKnown(r, entries, token, board.moved)'  BY <1>4, <1>6
<1>9. ids' \subseteq ListedIn(entries)'  BY <1>1, <1>6
<1>10. ~board'.loading /\ ~board'.error /\ ~board'.moved /\ ~board'.mixed => ids' = ListedIn(entries)'
  <2>1. ~board'.loading /\ ~board'.error /\ ~board'.moved /\ ~board'.mixed => ids = ListedIn(s)
    BY <1>1, <1>3 DEF ListKnown
  <2> QED BY <1>5, <1>6, <1>9, <2>1
<1>11. /\ \A r, q \in reads' : r.token = token' /\ q.token = token' => r = q
       /\ ~board'.loading => \A r \in reads' : r.token # token'  BY DEF ListKnown
<1> QED BY <1>7, <1>8, <1>9, <1>10, <1>11 DEF ListKnown

LEMMA RefreshKeeps ==
  ASSUME NamesApart, RowsKnown, ListKnown, UNCHANGED entries, L!Refresh
  PROVE  ListKnown'
<1>1. PICK new : new = [token |-> token + 1, page |-> 1, acc |-> {}, total |-> 0, lists |-> {}, answer |-> None]
  OBVIOUS
<1>2. /\ token' = token + 1 /\ reads' = reads \cup {new} /\ UNCHANGED ids
      /\ board' = [loading |-> TRUE, error |-> FALSE, moved |-> FALSE, mixed |-> FALSE]
  BY <1>1 DEF L!Refresh, L!Reading, L!Begun
<1>3. token \in Nat /\ token' \in Nat /\ new.token = token'  BY <1>1, <1>2 DEF ListKnown
<1>4. \A r \in reads : r.token \in Nat /\ r.token <= token  BY DEF ListKnown, ReadKnown
<1>5. \A r \in reads : r.token # token'  BY <1>2, <1>3, <1>4
<1>6. PICK s, last : s = entries /\ last = token'  OBVIOUS
<1>7. s \in Seq(Rows)  BY <1>6 DEF RowsKnown
<1>8. /\ \A a \in ListedIn(s) : RankIn(s, a) >= 1 /\ RankIn(s, a) \in Int
      /\ \A e \in DOMAIN s : PlaceIn(DOMAIN s, e) >= 1 /\ PlaceIn(DOMAIN s, e) \in Int
  BY <1>7, RanksAre, EntryPlacesAre
<1>9. ReadKnown(new, s, last, FALSE)
  <2>1. /\ DOMAIN new = {"token", "page", "acc", "total", "lists", "answer"} /\ new.page = 1 /\ new.acc = {} /\ new.answer = None
        /\ new.lists = {}  BY <1>1
  <2>2. LibraryRead(new, s) /\ EntriesRead(new, s)  BY <1>8, <2>1 DEF LibraryRead, EntriesRead
  <2> QED BY <1>3, <1>6, <2>1, <2>2 DEF ReadKnown
<1>10. \A r \in reads : ReadKnown(r, s, last, FALSE)
  <2> SUFFICES ASSUME NEW r \in reads PROVE ReadKnown(r, s, last, FALSE)  OBVIOUS
  <2>1. ReadKnown(r, s, token, board.moved)  BY <1>6 DEF ListKnown
  <2>2. r.token # last /\ r.token <= last  BY <1>2, <1>3, <1>4, <1>5, <1>6
  <2> QED BY <2>1, <2>2 DEF ReadKnown
<1>11. board'.loading = TRUE /\ board'.moved = FALSE /\ DOMAIN board' = {"loading", "error", "moved", "mixed"}
  BY <1>2
<1>12. \A r \in reads' : ReadKnown(r, entries, token, board.moved)'
  <2>1. \A r : ReadKnown(r, entries, token, board.moved)' = ReadKnown(r, s, last, FALSE)  BY <1>6, <1>11
  <2> QED BY <1>2, <1>9, <1>10, <2>1
<1>13. ids' \subseteq ListedIn(entries)'  BY <1>2 DEF ListKnown
<1>14. \A r, q \in reads' : r.token = token' /\ q.token = token' => r = q  BY <1>2, <1>5
<1> QED BY <1>3, <1>11, <1>12, <1>13, <1>14 DEF ListKnown


LEMMA PageServedKeeps ==
  ASSUME RowsKnown, ListKnown, NEW r \in reads, L!ReadServed(r)
  PROVE  ListKnown'
<1>1. PICK l : /\ l \in {"library", "entries"}
               /\ reads' = (reads \ {r}) \cup
                    {[r EXCEPT !.answer = IF l = "library" THEN L!PageOf(r.page) ELSE L!EntryPage(r.page),
                               !.total = IF l = "library" THEN L!Cardinality(L!Listed) ELSE Len(entries),
                               !.lists = @ \cup {l}]}  BY Zenon DEF L!ReadServed
<1>2. PICK rows, n, lists :
        /\ rows = IF l = "library" THEN L!PageOf(r.page) ELSE L!EntryPage(r.page)
        /\ n = IF l = "library" THEN L!Cardinality(L!Listed) ELSE Len(entries)
        /\ lists = r.lists \cup {l}  OBVIOUS
<1>3. PICK q : q = [r EXCEPT !.answer = rows, !.total = n, !.lists = lists]  OBVIOUS
<1>4. reads' = (reads \ {r}) \cup {q} /\ UNCHANGED <<entries, ids, token, board>>
  <2>1. reads' = (reads \ {r}) \cup {q}  BY <1>1, <1>2, <1>3
  <2> QED BY <2>1 DEF L!ReadServed, L!backendVars
<1>5. ReadKnown(r, entries, token, board.moved) /\ r.answer = None  BY DEF ListKnown, L!ReadServed
<1>6. /\ DOMAIN q = DOMAIN r /\ q.token = r.token /\ q.page = r.page /\ q.acc = r.acc
      /\ q.answer = rows /\ q.total = n /\ q.lists = lists
  <2>1. DOMAIN r = {"token", "page", "acc", "total", "lists", "answer"}  BY <1>5 DEF ReadKnown
  <2> QED BY <1>3, <2>1
<1>7. PICK s, p : s = entries /\ p = r.page  OBVIOUS
<1>8. s \in Seq(Rows)  BY <1>7 DEF RowsKnown
<1>9. \A b \in ListedIn(s) : NewestIn(s, b) \in DOMAIN s /\ s[NewestIn(s, b)].album = b  BY <1>8, NewestIs
<1>10. l = "library" => /\ n = Cardinality(ListedIn(s)) /\ rows = L!PageOf(p)
                        /\ \A x \in rows : x.entry \in DOMAIN s
  <2>1. L!Cardinality(L!Listed) = Cardinality(ListedIn(s))
    <3>1. \A S : L!Cardinality(S) = Cardinality(S)  BY DEF L!Cardinality, Cardinality
    <3> QED BY <1>7, <3>1, ListingIs
  <2>2. \A x \in L!PageOf(p) : x.entry \in DOMAIN s  BY <1>7, <1>9, ListingIs
  <2> QED BY <1>2, <1>7, <2>1, <2>2
<1>11. l = "entries" => /\ n = Len(s)
                        /\ \A e : (\E x \in rows : x.entry = e) <=> e \in DOMAIN s /\ PlaceIn(DOMAIN s, e) = p
  BY <1>2, <1>7, ListingIs
<1>12. \A x \in rows : x.entry \in DOMAIN s  BY <1>1, <1>10, <1>11
<1>13. ASSUME l = "library"
       PROVE  \A a \in Albums : (\E x \in rows : s[x.entry].album = a) <=> a \in ListedIn(s) /\ RankIn(s, a) = p
  <2>1. \A a : (\E x \in L!PageOf(p) : x.entry \in DOMAIN s /\ s[x.entry].album = a)
                <=> \E b \in ListedIn(s) : /\ RankIn(s, b) = p /\ NewestIn(s, b) \in DOMAIN s
                                           /\ s[NewestIn(s, b)].album = a  BY <1>7, ListingIs
  <2>2. rows = L!PageOf(p)  BY <1>10, <1>13
  <2> QED BY <1>9, <1>12, <2>1, <2>2
<1>14. ReadKnown(q, s, token, board.moved)
  <2>1. r.token = token /\ ~board.moved /\ "entries" \notin lists => LibraryRead(q, s)
    <3> SUFFICES ASSUME r.token = token, ~board.moved, "entries" \notin lists PROVE LibraryRead(q, s)  OBVIOUS
    <3>1. l = "library" /\ "entries" \notin r.lists  BY <1>1, <1>2
    <3>2. LibraryRead(r, s)  BY <1>5, <1>7, <3>1 DEF ReadKnown
    <3> QED BY <1>6, <1>7, <1>10, <1>13, <3>1, <3>2 DEF LibraryRead
  <2>2. r.token = token /\ ~board.moved /\ "library" \notin lists => EntriesRead(q, s)
    <3> SUFFICES ASSUME r.token = token, ~board.moved, "library" \notin lists PROVE EntriesRead(q, s)  OBVIOUS
    <3>1. l = "entries" /\ "library" \notin r.lists  BY <1>1, <1>2
    <3>2. EntriesRead(r, s)  BY <1>5, <1>7, <3>1 DEF ReadKnown
    <3> QED BY <1>6, <1>7, <1>11, <3>1, <3>2 DEF EntriesRead
  <2>3. lists \subseteq {"library", "entries"}  BY <1>1, <1>2, <1>5 DEF ReadKnown
  <2> QED BY <1>5, <1>6, <1>7, <1>12, <2>1, <2>2, <2>3 DEF ReadKnown
<1>15. \A x \in reads' : ReadKnown(x, s, token, board.moved)  BY <1>4, <1>7, <1>14 DEF ListKnown
<1>16. /\ \A x, y \in reads' : x.token = token /\ y.token = token => x = y
       /\ ~board.loading => \A x \in reads' : x.token # token  BY <1>4, <1>6 DEF ListKnown
<1> QED BY <1>4, <1>7, <1>15, <1>16 DEF ListKnown

(* A page of the library, and what it leaves to be read. *)
LEMMA LibraryPage ==
  ASSUME NEW s \in Seq(Rows), NEW r, NEW acc, LibraryRead(r, s), r.answer # None, r.page \in Nat, r.page >= 1,
         \A x \in r.answer : x.entry \in DOMAIN s,
         \A a : a \in acc <=> a \in r.acc \/ \E x \in r.answer : s[x.entry].album = a,
         acc \subseteq ListedIn(s)
  PROVE  /\ \A a \in ListedIn(s) : a \in acc <=> RankIn(s, a) < r.page + 1
         /\ r.total = Cardinality(ListedIn(s))
         /\ r.answer = {} => ListedIn(s) = {}
         /\ r.answer # {} /\ ~(r.page < r.total) => acc = ListedIn(s)
<1>1. PICK N : N = Cardinality(ListedIn(s))  OBVIOUS
<1>2. /\ N \in Nat /\ (N = 0 <=> ListedIn(s) = {})
      /\ \A a \in ListedIn(s) : RankIn(s, a) \in 1 .. N
      /\ \A k \in 1 .. N : \E a \in ListedIn(s) : RankIn(s, a) = k  BY <1>1, RanksAre
<1>3. /\ r.total = N /\ (r.page = 1 \/ r.page <= N)
      /\ \A a \in ListedIn(s) : a \in r.acc <=> RankIn(s, a) < r.page
      /\ \A a \in Albums : (\E x \in r.answer : s[x.entry].album = a) <=> a \in ListedIn(s) /\ RankIn(s, a) = r.page
  BY <1>1 DEF LibraryRead
<1>4. \A a \in ListedIn(s) : a \in Albums  BY DEF ListedIn
<1>5. \A a \in ListedIn(s) : a \in acc <=> RankIn(s, a) < r.page + 1  BY <1>2, <1>3, <1>4
<1>6. r.answer = {} => ListedIn(s) = {}
  <2>1. r.answer = {} => \A a \in ListedIn(s) : RankIn(s, a) # r.page  BY <1>3, <1>4
  <2>2. r.answer = {} => r.page \notin 1 .. N  BY <1>2, <2>1
  <2> QED BY <1>2, <1>3, <2>2
<1>7. r.answer # {} /\ ~(r.page < r.total) => acc = ListedIn(s)
  <2>1. ~(r.page < r.total) => \A a \in ListedIn(s) : RankIn(s, a) < r.page + 1  BY <1>2, <1>3
  <2> QED BY <1>5, <2>1
<1> QED BY <1>1, <1>3, <1>5, <1>6, <1>7

(* A page of the list of entries. *)
LEMMA EntriesPage ==
  ASSUME NamesApart, NEW s \in Seq(Rows), NEW r, NEW acc, EntriesRead(r, s), r.answer # None, r.page \in Nat, r.page >= 1,
         \A a : a \in acc <=> a \in r.acc \/ \E x \in r.answer : s[x.entry].album = a,
         acc \subseteq ListedIn(s)
  PROVE  /\ \A a \in ListedIn(s) : a \in acc <=> \E e \in DOMAIN s : s[e].album = a /\ PlaceIn(DOMAIN s, e) < r.page + 1
         /\ r.total = Len(s)
         /\ r.answer = {} => ListedIn(s) = {}
         /\ r.answer # {} /\ ~(r.page < r.total) => acc = ListedIn(s)
<1>1. PICK N, es : N = Len(s) /\ es = DOMAIN s  OBVIOUS
<1>2. /\ N \in Nat /\ (N = 0 <=> ListedIn(s) = {})
      /\ \A e \in es : PlaceIn(es, e) \in 1 .. N
      /\ \A k \in 1 .. N : \E e \in es : PlaceIn(es, e) = k  BY <1>1, EntryPlacesAre
<1>3. /\ r.total = N /\ (r.page = 1 \/ r.page <= N)
      /\ \A a \in ListedIn(s) : a \in r.acc <=> \E e \in es : s[e].album = a /\ PlaceIn(es, e) < r.page
      /\ \A e : (\E x \in r.answer : x.entry = e) <=> e \in es /\ PlaceIn(es, e) = r.page
  BY <1>1 DEF EntriesRead
<1>4. \A a \in ListedIn(s) : \E e \in es : s[e].album = a  BY <1>1 DEF ListedIn
<1>5. \A a : (\E x \in r.answer : s[x.entry].album = a) <=> \E e \in es : s[e].album = a /\ PlaceIn(es, e) = r.page
  BY <1>3
<1>6. \A e \in es : PlaceIn(es, e) < r.page + 1 <=> PlaceIn(es, e) < r.page \/ PlaceIn(es, e) = r.page  BY <1>2
<1>7. \A a \in ListedIn(s) : a \in acc <=> \E e \in es : s[e].album = a /\ PlaceIn(es, e) < r.page + 1
  BY <1>3, <1>5, <1>6
<1>8. r.answer = {} => ListedIn(s) = {}
  <2>1. r.answer = {} => \A e \in es : PlaceIn(es, e) # r.page  BY <1>3
  <2>2. r.answer = {} => r.page \notin 1 .. N  BY <1>2, <2>1
  <2> QED BY <1>2, <1>3, <2>2
<1>9. r.answer # {} /\ ~(r.page < r.total) => acc = ListedIn(s)
  <2> SUFFICES ASSUME r.answer # {}, ~(r.page < r.total) PROVE acc = ListedIn(s)  OBVIOUS
  <2>1. \A e \in es : PlaceIn(es, e) < r.page + 1  BY <1>2, <1>3
  <2> QED BY <1>4, <1>7, <2>1
<1> QED BY <1>1, <1>3, <1>7, <1>8, <1>9

LEMMA PageArrivesKeeps ==
  ASSUME NamesApart, RowsKnown, ListKnown, NEW r \in reads, L!PageArrives(r)
  PROVE  ListKnown'
<1>1. UNCHANGED <<entries, token>> /\ r.answer # None  BY DEF L!PageArrives, L!backendVars
<1>2. CASE r.token # token  BY <1>1, <1>2 DEF L!PageArrives, ListKnown
<1>3. CASE r.token = token
  <2>1. PICK acc : acc = r.acc \cup {entries[s.entry].album : s \in r.answer}  OBVIOUS
  <2>2. PICK q : q = [r EXCEPT !.page = @ + 1, !.acc = acc, !.answer = None]  OBVIOUS
  <2>3. /\ ids' = IF r.answer = {} THEN ids ELSE acc
        /\ board' = IF r.answer # {} /\ r.page < r.total THEN board
                    ELSE [board EXCEPT !.loading = FALSE, !.mixed = (r.lists = {"library", "entries"})]
        /\ reads' = (reads \ {r}) \cup IF r.answer # {} /\ r.page < r.total THEN {q} ELSE {}
    BY <1>3, <2>1, <2>2, Zenon DEF L!PageArrives
  <2>4. ReadKnown(r, entries, token, board.moved)  BY DEF ListKnown
  <2>5. PICK s : s = entries  OBVIOUS
  <2>6. s \in Seq(Rows)  BY <2>5 DEF RowsKnown
  <2>7. \A x \in r.answer : x.entry \in DOMAIN s /\ s[x.entry].album \in ListedIn(s)
    <3>1. \A x \in r.answer : x.entry \in DOMAIN s  BY <1>1, <2>4, <2>5 DEF ReadKnown
    <3>2. \A e \in DOMAIN s : s[e].album \in Albums
      <4>1. \A e \in DOMAIN s : s[e] \in Rows  BY <2>6
      <4> QED BY <4>1 DEF Rows
    <3> QED BY <3>1, <3>2 DEF ListedIn
  <2>8. acc \subseteq ListedIn(s) /\ \A a : a \in acc <=> a \in r.acc \/ \E x \in r.answer : s[x.entry].album = a
    BY <2>1, <2>4, <2>5, <2>7 DEF ReadKnown
  <2>9. r.page \in Nat /\ r.page >= 1 /\ r.lists \subseteq {"library", "entries"}  BY <2>4 DEF ReadKnown
  <2>10. ~board.moved /\ "entries" \notin r.lists =>
           /\ \A a \in ListedIn(s) : a \in acc <=> RankIn(s, a) < r.page + 1
           /\ r.total = Cardinality(ListedIn(s))
           /\ r.answer = {} => ListedIn(s) = {}
           /\ r.answer # {} /\ ~(r.page < r.total) => acc = ListedIn(s)
    <3>1. ~board.moved /\ "entries" \notin r.lists => LibraryRead(r, s)  BY <1>3, <2>4, <2>5 DEF ReadKnown
    <3> QED BY <1>1, <2>6, <2>7, <2>8, <2>9, <3>1, LibraryPage
  <2>11. ~board.moved /\ "library" \notin r.lists =>
           /\ \A a \in ListedIn(s) : a \in acc <=> \E e \in DOMAIN s : s[e].album = a /\ PlaceIn(DOMAIN s, e) < r.page + 1
           /\ r.total = Len(s)
           /\ r.answer = {} => ListedIn(s) = {}
           /\ r.answer # {} /\ ~(r.page < r.total) => acc = ListedIn(s)
    <3>1. ~board.moved /\ "library" \notin r.lists => EntriesRead(r, s)  BY <1>3, <2>4, <2>5 DEF ReadKnown
    <3> QED BY <1>1, <2>6, <2>8, <2>9, <3>1, EntriesPage
  <2>12. ids' \subseteq ListedIn(s)  BY <2>3, <2>5, <2>8 DEF ListKnown
  <2>13. CASE r.answer # {} /\ r.page < r.total
    <3>1. board' = board /\ reads' = (reads \ {r}) \cup {q}  BY <2>3, <2>13
    <3>2. /\ DOMAIN q = {"token", "page", "acc", "total", "lists", "answer"} /\ q.token = r.token /\ q.page = r.page + 1
          /\ q.acc = acc /\ q.answer = None /\ q.lists = r.lists
      <4>1. DOMAIN r = {"token", "page", "acc", "total", "lists", "answer"}  BY <2>4 DEF ReadKnown
      <4> QED BY <2>2, <4>1
    <3>3. ~board.moved /\ "entries" \notin r.lists => LibraryRead(q, s)
      <4>1. Cardinality(ListedIn(s)) \in Nat  BY <2>6, RanksAre
      <4> QED BY <2>9, <2>10, <2>13, <3>2, <4>1 DEF LibraryRead
    <3>4. ~board.moved /\ "library" \notin r.lists => EntriesRead(q, s)
      <4>1. Len(s) \in Nat  BY <2>6
      <4> QED BY <2>9, <2>11, <2>13, <3>2, <4>1 DEF EntriesRead
    <3>5. ReadKnown(q, s, token, board.moved)
      <4>1. r.token \in Nat /\ r.token <= token /\ r.page + 1 \in Nat /\ r.page + 1 >= 1  BY <2>4, <2>9 DEF ReadKnown
      <4> QED BY <2>8, <2>9, <3>2, <3>3, <3>4, <4>1 DEF ReadKnown
    <3>6. \A x \in reads' : ReadKnown(x, s, token, board.moved)  BY <2>5, <3>1, <3>5 DEF ListKnown
    <3>7. \A x, y \in reads' : x.token = token /\ y.token = token => x = y  BY <1>3, <3>1, <3>2 DEF ListKnown
    <3>8. board.loading  BY <1>3 DEF ListKnown
    <3> QED BY <1>1, <2>5, <2>12, <3>1, <3>6, <3>7, <3>8 DEF ListKnown
  <2>14. CASE ~(r.answer # {} /\ r.page < r.total)
    <3>1. /\ board' = [board EXCEPT !.loading = FALSE, !.mixed = (r.lists = {"library", "entries"})]
          /\ reads' = reads \ {r}  BY <2>3, <2>14
    <3>2. /\ DOMAIN board' = {"loading", "error", "moved", "mixed"}
          /\ board'.moved = board.moved /\ board'.error = board.error
          /\ board'.loading = FALSE /\ board'.mixed = (r.lists = {"library", "entries"})
      <4>1. DOMAIN board = {"loading", "error", "moved", "mixed"}  BY DEF ListKnown
      <4>2. PICK m : m = (r.lists = {"library", "entries"})  OBVIOUS
      <4>3. board' = [board EXCEPT !.loading = FALSE, !.mixed = m]  BY <3>1, <4>2
      <4> QED BY <4>1, <4>2, <4>3
    <3>3. \A x \in reads' : x.token # token  BY <1>3, <3>1 DEF ListKnown
    <3>4. ~board.moved /\ ~board'.mixed => ids' = ListedIn(s)
      <4>1. ~board'.mixed => "entries" \notin r.lists \/ "library" \notin r.lists  BY <2>9, <3>2
      <4>2. r.answer = {} /\ ListedIn(s) = {} => ids' = ListedIn(s)  BY <2>12
      <4>3. r.answer # {} => ids' = acc  BY <2>3
      <4> QED BY <2>10, <2>11, <2>14, <4>1, <4>2, <4>3
    <3>5. \A x \in reads' : ReadKnown(x, s, token, board'.moved)  BY <2>5, <3>1, <3>2 DEF ListKnown
    <3> QED BY <1>1, <2>5, <2>12, <3>2, <3>3, <3>4, <3>5 DEF ListKnown
  <2> QED BY <2>13, <2>14
<1> QED BY <1>2, <1>3

LEMMA ReadFailsKeeps ==
  ASSUME RowsKnown, ListKnown, NEW r \in reads, L!ReadFails(r)
  PROVE  ListKnown'
<1>1. UNCHANGED <<entries, token, ids>> /\ reads' = reads \ {r}  BY DEF L!ReadFails, L!backendVars
<1>2. CASE r.token # token
  <2>1. UNCHANGED board  BY <1>2 DEF L!ReadFails
  <2> QED BY <1>1, <2>1 DEF ListKnown
<1>3. CASE r.token = token
  <2>1. board' = [board EXCEPT !.loading = FALSE, !.error = TRUE]  BY <1>3 DEF L!ReadFails
  <2>2. DOMAIN board' = {"loading", "error", "moved", "mixed"} /\ board'.moved = board.moved /\ board'.error = TRUE
    BY <2>1 DEF ListKnown
  <2>3. \A x \in reads' : x.token # token  BY <1>1, <1>3 DEF ListKnown
  <2> QED BY <1>1, <2>2, <2>3 DEF ListKnown
<1> QED BY <1>2, <1>3

LEMMA ListSteps ==
  ASSUME NamesApart, RowsKnown, CallsKnown, ListKnown, [L!Next]_L!vars
  PROVE  ListKnown'
<1>1. RowsKnown' /\ RowsKept  BY RowSteps
<1>2. CASE UNCHANGED L!vars  BY <1>2 DEF L!vars, ListKnown
<1>3. ASSUME UNCHANGED entries, L!Refresh \/ L!NoRefresh PROVE ListKnown'
  <2>1. CASE L!Refresh  BY <1>3, <2>1, RefreshKeeps
  <2>2. CASE L!NoRefresh  BY <1>3, <2>2 DEF L!NoRefresh, L!listVars, ListKnown
  <2> QED BY <1>3, <2>1, <2>2
<1>4. CASE UNCHANGED L!listVars /\ DOMAIN entries' = DOMAIN entries
  <2>1. ids \subseteq ListedIn(entries')
    <3>1. ids \subseteq ListedIn(entries)  BY DEF ListKnown
    <3>2. \A a \in ListedIn(entries) : a \in ListedIn(entries')  BY <1>1 DEF ListedIn, RowsKept
    <3> QED BY <3>1, <3>2
  <2> QED BY <1>1, <1>4, <2>1, ListStays DEF L!listVars
<1>5. ASSUME NEW w \in timers, L!Work(w[1], w[2]) PROVE ListKnown'
  <2>1. UNCHANGED L!listVars  BY <1>5 DEF L!Work
  <2>2. DOMAIN entries' = DOMAIN entries  BY <1>5 DEF L!Work
  <2> QED BY <1>4, <2>1, <2>2
<1>6. ASSUME NEW c \in calls, L!RetryServed(c) \/ L!CancelServed(c) PROVE ListKnown'
  <2>1. UNCHANGED <<ids, reads, token, board>>  BY <1>6 DEF L!RetryServed, L!CancelServed, L!Unasked
  <2>2. CASE DOMAIN entries' = DOMAIN entries  BY <1>4, <2>1, <2>2 DEF L!listVars
  <2>3. UNCHANGED entries \/ \E f : entries' = [e \in L!Ids |-> f[e]]
    <3>1. CASE L!RetryServed(c)
      <4>1. UNCHANGED entries \/ \E again : entries' = [e \in L!Ids |-> IF e \notin again THEN entries[e]
                                            ELSE [L!Become(e, "queued") EXCEPT !.attempt = @ + 1]]
        BY <3>1, Zenon DEF L!RetryServed
      <4> QED BY <4>1
    <3>2. CASE L!CancelServed(c)
      <4>1. UNCHANGED entries \/ \E hit : entries' = [e \in L!Ids |-> IF e \in hit THEN L!Become(e, "cancelled") ELSE entries[e]]
        BY <3>2, Zenon DEF L!CancelServed
      <4> QED BY <4>1
    <3> QED BY <1>6, <3>1, <3>2
  <2>4. DOMAIN entries' = DOMAIN entries  BY <2>3 DEF L!Ids
  <2> QED BY <2>2, <2>4
<1>7. ASSUME NEW c \in calls, L!QueueAddServed(c) PROVE ListKnown'
  <2>1. UNCHANGED <<ids, reads, token>>  BY <1>7 DEF L!QueueAddServed, L!Unasked
  <2>2. \/ UNCHANGED entries
        \/ board' = [board EXCEPT !.moved = TRUE]  BY <1>7 DEF L!QueueAddServed
  <2>3. \E m : board' = [board EXCEPT !.moved = m] /\ (~m => ~board.moved)
    <3>1. PICK fresh : board' = [board EXCEPT !.moved = board.moved \/ fresh # {}]  BY <1>7 DEF L!QueueAddServed
    <3>2. PICK m : m = (board.moved \/ fresh # {})  OBVIOUS
    <3> QED BY <3>1, <3>2
  <2>4. /\ DOMAIN board' = DOMAIN board /\ board'.loading = board.loading /\ board'.error = board.error
        /\ board'.mixed = board.mixed  BY <2>3 DEF ListKnown
  <2>5. ~board'.moved => ~board.moved /\ DOMAIN entries' = DOMAIN entries  BY <2>2, <2>3 DEF ListKnown
  <2>6. ids \subseteq ListedIn(entries')
    <3>1. ids \subseteq ListedIn(entries)  BY DEF ListKnown
    <3>2. \A a \in ListedIn(entries) : a \in ListedIn(entries')  BY <1>1 DEF ListedIn, RowsKept
    <3> QED BY <3>1, <3>2
  <2> QED BY <1>1, <2>1, <2>4, <2>5, <2>6, ListStays
<1>8. ASSUME NEW c \in calls, L!AddAnswered(c) PROVE ListKnown'
  <2>1. /\ UNCHANGED <<entries, reads, token, board>> /\ c.kind = "add" /\ c.answer # None
        /\ ids' = ids \cup {entries[s.entry].album : s \in c.answer}  BY <1>8 DEF L!AddAnswered, L!backendVars
  <2>2. \A s \in c.answer : entries[s.entry].album \in ListedIn(entries)
    <3>1. \A s \in c.answer : s.entry \in DOMAIN entries  BY <2>1 DEF CallsKnown, CallKnown
    <3>2. \A e \in DOMAIN entries : entries[e].album \in Albums
      <4>1. \A e \in DOMAIN entries : entries[e] \in Rows  BY DEF RowsKnown
      <4> QED BY <4>1 DEF Rows
    <3> QED BY <3>1, <3>2 DEF ListedIn
  <2>3. ids' \subseteq ListedIn(entries) /\ ids \subseteq ids'  BY <2>1, <2>2 DEF ListKnown
  <2>4. ids' \subseteq ListedIn(entries')  BY <2>1, <2>3
  <2> QED BY <1>1, <2>1, <2>3, <2>4, ListStays
<1>9. CASE L!Tick
  <2>1. UNCHANGED L!listVars /\ UNCHANGED entries  BY <1>9 DEF L!Tick
  <2> QED BY <1>4, <2>1
<1>10. CASE L!Deliver \/ L!Reload  BY <1>3, <1>10 DEF L!Deliver, L!Reload, L!backendVars
<1>11. CASE \/ \E as \in SUBSET Albums : L!QueueGalleries(as) \/ L!CancelGalleries(as)
            \/ \E a \in Albums : L!RetryGallery(a)
            \/ L!RetryAvailableDownloads
            \/ \E es \in L!Selectable : L!CancelQueueEntries(es)
  <2>1. UNCHANGED entries /\ UNCHANGED L!listVars
    BY <1>11 DEF L!QueueGalleries, L!CancelGalleries, L!RetryGallery, L!RetryAvailableDownloads, L!CancelQueueEntries, L!backendVars
  <2> QED BY <1>4, <2>1
<1>12. ASSUME NEW c \in calls, L!RetryAnswered(c) \/ L!CancelAnswered(c) \/ L!CallFails(c) PROVE ListKnown'
  <2>1. UNCHANGED entries  BY <1>12 DEF L!RetryAnswered, L!CancelAnswered, L!CallFails, L!backendVars
  <2>2. L!Refresh \/ L!NoRefresh  BY <1>12 DEF L!RetryAnswered, L!CancelAnswered, L!CallFails, L!Reread
  <2> QED BY <1>3, <2>1, <2>2
<1> QED BY <1>2, <1>5, <1>6, <1>7, <1>8, <1>9, <1>10, <1>11, <1>12, PageServedKeeps, PageArrivesKeeps, ReadFailsKeeps DEF L!Next

(* The list of downloads tells the truth (DownloadBoard): every download that
   was to be cancelled is in one part of what the user is told, and what is
   said to be cancelled was; and a reading of the list that ended well, with
   no download begun since it began, shows every album that has one. *)
THEOREM TheDownloadListIsTrue == SavedAreRows /\ NamesApart => (L!Spec => [](L!CancelAccountsForAll /\ L!FinishedListIsWhole))
<1> SUFFICES ASSUME SavedAreRows, NamesApart PROVE L!Spec => [](L!CancelAccountsForAll /\ L!FinishedListIsWhole)
  OBVIOUS
<1> DEFINE Inv == RowsKnown /\ CallsKnown /\ ReportTrue /\ ListKnown
<1>1. L!Init => Inv
  <2> SUFFICES ASSUME L!Init PROVE Inv  OBVIOUS
  <2>1. RowsKnown  BY DEF L!Init, L!Ids, RowsKnown, SavedAreRows
  <2>2. CallsKnown /\ ReportTrue  BY DEF L!Init, CallsKnown, ReportTrue, L!NoReport, L!CancelAccountsForAll
  <2>3. ListKnown
    <3>1. PICK new : new = [token |-> 1, page |-> 1, acc |-> {}, total |-> 0, lists |-> {}, answer |-> None]  OBVIOUS
    <3>2. /\ reads = {new} /\ token = 1 /\ ids = {}
          /\ board = [loading |-> TRUE, error |-> FALSE, moved |-> FALSE, mixed |-> FALSE]
      BY <3>1 DEF L!Init, L!Reading, L!Begun
    <3>3. /\ DOMAIN new = {"token", "page", "acc", "total", "lists", "answer"} /\ new.page = 1 /\ new.acc = {} /\ new.answer = None
          /\ new.token = 1 /\ new.lists = {}  BY <3>1
    <3>4. PICK s : s = entries  OBVIOUS
    <3>5. /\ \A a \in ListedIn(s) : RankIn(s, a) >= 1 /\ RankIn(s, a) \in Int
          /\ \A e \in DOMAIN s : PlaceIn(DOMAIN s, e) >= 1 /\ PlaceIn(DOMAIN s, e) \in Int
      BY <2>1, <3>4, RanksAre, EntryPlacesAre DEF RowsKnown
    <3>6. LibraryRead(new, s) /\ EntriesRead(new, s)  BY <3>3, <3>5 DEF LibraryRead, EntriesRead
    <3>7. ReadKnown(new, entries, token, board.moved)  BY <3>2, <3>3, <3>4, <3>6 DEF ReadKnown
    <3> QED BY <3>2, <3>7 DEF ListKnown
  <2> QED BY <2>1, <2>2, <2>3
<1>2. Inv /\ [L!Next]_L!vars => Inv'  BY RowSteps, CallSteps, ListSteps
<1>3. Inv => L!CancelAccountsForAll /\ L!FinishedListIsWhole
  <2> SUFFICES ASSUME Inv PROVE L!CancelAccountsForAll /\ L!FinishedListIsWhole  OBVIOUS
  <2> QED BY ListingIs DEF ReportTrue, ListKnown, L!FinishedListIsWhole
<1> HIDE DEF Inv
<1> QED BY <1>1, <1>2, <1>3, PTL DEF L!Spec

----
(* The grid of albums.  The covers come from events, from the answer to the
   choice and from lists that may be old: an album is settled when no event
   about it is on its way, and the last one there is brings the cover it has. *)

CONSTANTS Folder, Batch

VARIABLES view, download, found, excluded, known, grid, excluding, autos, undo, undoing, moving, covers

G == INSTANCE GalleryGrid

(* What is known of the covers, and what is still to be told. *)

CoversKnown ==
  /\ DOMAIN covers = {"saved", "shown", "asked", "lists", "events", "saving"}
  /\ covers.saved \in [Albums -> Nat \ {0}] /\ DOMAIN covers.shown = Albums
  /\ covers.events \in Seq([album : Albums, cover : Nat \ {0}])
  /\ covers.saving # None => covers.saving \in [album : Albums, cover : Nat \ {0}]
                             /\ covers.saving.cover = covers.saved[covers.saving.album]
  /\ \A l \in covers.lists : DOMAIN l = {"ids", "got"}

(* An event about a that is still to come. *)
Told(s, a) == \E i \in 1 .. Len(s) : s[i].album = a

(* The last event about an album brings the cover it has. *)
NewsIsTrue(s, has) ==
  \A i \in 1 .. Len(s) : s[i].cover = has[s[i].album] \/ \E j \in 1 .. Len(s) : j > i /\ s[j].album = s[i].album

CoversTrue ==
  /\ NewsIsTrue(covers.events, covers.saved)
  /\ \A a \in Albums : Told(covers.events, a) \/ covers.shown[a] \in {0, covers.saved[a]}
  /\ \A l \in covers.lists : l.got # None => \A a \in Albums :
       Told(covers.events, a) \/ covers.shown[a] # 0 \/ l.got[a] = covers.saved[a]

LEMMA CoverSteps ==
  ASSUME CoversKnown, CoversTrue, G!Next \/ UNCHANGED covers
  PROVE  CoversKnown' /\ CoversTrue'
<1>1. CASE UNCHANGED covers  BY <1>1 DEF CoversKnown, CoversTrue
<1>2. CASE G!AskCovers
  <2>1. PICK m : covers' = [covers EXCEPT !.asked = @ \cup m, !.lists = @ \cup {[ids |-> m, got |-> None]}]
    BY <1>2 DEF G!AskCovers
  <2>2. /\ DOMAIN covers' = DOMAIN covers /\ covers'.saved = covers.saved /\ covers'.shown = covers.shown
        /\ covers'.events = covers.events /\ covers'.saving = covers.saving
        /\ covers'.lists = covers.lists \cup {[ids |-> m, got |-> None]}  BY <2>1 DEF CoversKnown
  <2> QED BY <2>2 DEF CoversKnown, CoversTrue
<1>3. ASSUME NEW l \in covers.lists, G!ListServed(l)
      PROVE  CoversKnown' /\ CoversTrue'
  <2>1. PICK n : n = [l EXCEPT !.got = covers.saved]  OBVIOUS
  <2>2. covers' = [covers EXCEPT !.lists = (@ \ {l}) \cup {n}]  BY <1>3, <2>1 DEF G!ListServed
  <2>3. DOMAIN n = {"ids", "got"} /\ n.got = covers.saved  BY <2>1 DEF CoversKnown
  <2>4. /\ DOMAIN covers' = DOMAIN covers /\ covers'.saved = covers.saved /\ covers'.shown = covers.shown
        /\ covers'.events = covers.events /\ covers'.saving = covers.saving
        /\ covers'.lists = (covers.lists \ {l}) \cup {n}  BY <2>2 DEF CoversKnown
  <2> QED BY <2>3, <2>4 DEF CoversKnown, CoversTrue
<1>4. ASSUME NEW l \in covers.lists, G!ListAnswered(l)
      PROVE  CoversKnown' /\ CoversTrue'
  <2>1. PICK s : s = [a \in Albums |-> IF a \in l.ids /\ covers.shown[a] = 0 THEN l.got[a] ELSE covers.shown[a]]
    OBVIOUS
  <2>2. l.got # None /\ covers' = [covers EXCEPT !.lists = @ \ {l}, !.shown = s]
    BY <1>4, <2>1 DEF G!ListAnswered, CoversKnown
  <2>3. /\ DOMAIN covers' = DOMAIN covers /\ covers'.saved = covers.saved /\ covers'.shown = s
        /\ covers'.events = covers.events /\ covers'.saving = covers.saving
        /\ covers'.lists = covers.lists \ {l}  BY <2>2 DEF CoversKnown
  <2>4. \A a \in Albums : /\ Told(covers.events, a) \/ s[a] \in {0, covers.saved[a]}
                          /\ covers.shown[a] # 0 => s[a] # 0  BY <2>1, <2>2 DEF CoversTrue
  <2>5. DOMAIN s = Albums  BY <2>1
  <2> QED BY <2>3, <2>4, <2>5 DEF CoversKnown, CoversTrue
<1>5. ASSUME NEW l \in covers.lists, G!ListFails(l)
      PROVE  CoversKnown' /\ CoversTrue'
  <2>1. covers' = [covers EXCEPT !.lists = @ \ {l}, !.asked = @ \ l.ids]  BY <1>5 DEF G!ListFails
  <2>2. /\ DOMAIN covers' = DOMAIN covers /\ covers'.saved = covers.saved /\ covers'.shown = covers.shown
        /\ covers'.events = covers.events /\ covers'.saving = covers.saving
        /\ covers'.lists = covers.lists \ {l}  BY <2>1 DEF CoversKnown
  <2> QED BY <2>2 DEF CoversKnown, CoversTrue
<1>6. ASSUME NEW a \in Albums, G!CoverChosen(a)
      PROVE  CoversKnown' /\ CoversTrue'
  <2>1. PICK e : e = [album |-> a, cover |-> covers.saved[a] + 1]  OBVIOUS
  <2>2. covers' = [covers EXCEPT !.saved[a] = @ + 1, !.events = Append(@, e), !.saving = e]
    BY <1>6, <2>1 DEF G!CoverChosen
  <2>3. PICK s : s = [covers.saved EXCEPT ![a] = @ + 1]  OBVIOUS
  <2>4. PICK q : q = Append(covers.events, e)  OBVIOUS
  <2>5. /\ DOMAIN covers' = DOMAIN covers /\ covers'.saved = s /\ covers'.shown = covers.shown
        /\ covers'.events = q /\ covers'.saving = e /\ covers'.lists = covers.lists
    BY <2>2, <2>3, <2>4 DEF CoversKnown
  <2>6. /\ s \in [Albums -> Nat \ {0}] /\ s[a] = covers.saved[a] + 1
        /\ \A b \in Albums : b # a => s[b] = covers.saved[b]  BY <2>3 DEF CoversKnown
  <2>7. e \in [album : Albums, cover : Nat \ {0}] /\ e.album = a /\ e.cover = s[a]  BY <2>1, <2>6 DEF CoversKnown
  <2>8. PICK v : v = covers.events  OBVIOUS
  <2>9. /\ q \in Seq([album : Albums, cover : Nat \ {0}]) /\ Len(q) = Len(v) + 1 /\ q[Len(v) + 1] = e
        /\ \A i \in 1 .. Len(v) : q[i] = v[i] /\ v[i] \in [album : Albums, cover : Nat \ {0}]
        /\ Len(v) \in Nat
    <3>1. v \in Seq([album : Albums, cover : Nat \ {0}]) /\ q = Append(v, e)  BY <2>4, <2>8 DEF CoversKnown
    <3>2. PICK R : R = [album : Albums, cover : Nat \ {0}]  OBVIOUS
    <3>3. v \in Seq(R) /\ e \in R  BY <2>7, <3>1, <3>2
    <3>4. q \in Seq(R) /\ Len(q) = Len(v) + 1 /\ q[Len(v) + 1] = e /\ Len(v) \in Nat  BY <3>1, <3>3
    <3>5. \A i \in 1 .. Len(v) : q[i] = v[i] /\ v[i] \in R  BY <3>1, <3>3
    <3> QED BY <3>2, <3>4, <3>5
  <2>10. Told(q, a) /\ \A b \in Albums : Told(v, b) => Told(q, b)  BY <2>7, <2>9 DEF Told
  <2>11. NewsIsTrue(q, s)
    <3>1. NewsIsTrue(v, covers.saved)  BY <2>8 DEF CoversTrue
    <3>2. ASSUME NEW i \in 1 .. Len(q)
          PROVE  q[i].cover = s[q[i].album] \/ \E j \in 1 .. Len(q) : j > i /\ q[j].album = q[i].album
      <4>1. CASE i = Len(v) + 1  BY <4>1, <2>7, <2>9
      <4>2. CASE i \in 1 .. Len(v)
        <5>1. CASE v[i].album = a  BY <5>1, <4>2, <2>7, <2>9
        <5>2. CASE v[i].album # a
          <6>1. q[i] = v[i] /\ v[i].album \in Albums /\ s[v[i].album] = covers.saved[v[i].album]
            BY <5>2, <4>2, <2>6, <2>9
          <6>2. v[i].cover = covers.saved[v[i].album] \/ \E j \in 1 .. Len(v) : j > i /\ v[j].album = v[i].album
            BY <4>2, <3>1 DEF NewsIsTrue
          <6> QED BY <2>9, <6>1, <6>2
        <5> QED BY <5>1, <5>2
      <4> QED BY <4>1, <4>2, <2>9
    <3> QED BY <3>2 DEF NewsIsTrue
  <2>12. CoversKnown'  BY <2>5, <2>6, <2>7, <2>9 DEF CoversKnown
  <2>13. \A b \in Albums : Told(q, b) \/ covers.shown[b] \in {0, s[b]}  BY <2>6, <2>8, <2>10 DEF CoversTrue
  <2>14. \A l \in covers.lists : l.got # None => \A b \in Albums :
           Told(q, b) \/ covers.shown[b] # 0 \/ l.got[b] = s[b]  BY <2>6, <2>8, <2>10 DEF CoversTrue
  <2> QED BY <2>5, <2>11, <2>12, <2>13, <2>14 DEF CoversTrue
<1>7. CASE G!CoverSaved
  <2>1. PICK e : e = covers.saving  OBVIOUS
  <2>2. e \in [album : Albums, cover : Nat \ {0}] /\ e.cover = covers.saved[e.album] /\ e.album \in Albums
    BY <1>7, <2>1 DEF G!CoverSaved, CoversKnown
  <2>3. PICK s : s = [covers.shown EXCEPT ![e.album] = e.cover]  OBVIOUS
  <2>4. covers' = [covers EXCEPT !.shown[e.album] = e.cover, !.saving = None]  BY <1>7, <2>1 DEF G!CoverSaved
  <2>5. /\ DOMAIN covers' = DOMAIN covers /\ covers'.saved = covers.saved /\ covers'.shown = s
        /\ covers'.events = covers.events /\ covers'.saving = None /\ covers'.lists = covers.lists
    BY <2>3, <2>4 DEF CoversKnown
  <2>6. /\ DOMAIN s = Albums /\ s[e.album] = covers.saved[e.album] /\ s[e.album] # 0
        /\ \A b \in Albums : b # e.album => s[b] = covers.shown[b]  BY <2>2, <2>3 DEF CoversKnown
  <2>7. \A b \in Albums : /\ Told(covers.events, b) \/ s[b] \in {0, covers.saved[b]}
                          /\ covers.shown[b] # 0 => s[b] # 0  BY <2>6 DEF CoversTrue
  <2> QED BY <2>5, <2>6, <2>7 DEF CoversKnown, CoversTrue
<1>8. CASE G!CoverEvent
  <2>1. PICK v : v = covers.events  OBVIOUS
  <2>2. PICK e : e = Head(v)  OBVIOUS
  <2>3. PICK q : q = Tail(v)  OBVIOUS
  <2>4. v # <<>> /\ v \in Seq([album : Albums, cover : Nat \ {0}])  BY <1>8, <2>1 DEF G!CoverEvent, CoversKnown
  <2>5. /\ e \in [album : Albums, cover : Nat \ {0}] /\ e = v[1] /\ Len(v) \in Nat /\ Len(v) >= 1
        /\ Len(q) = Len(v) - 1 /\ q \in Seq([album : Albums, cover : Nat \ {0}])
        /\ \A i \in 1 .. Len(q) : q[i] = v[i + 1]
    <3>1. PICK R : R = [album : Albums, cover : Nat \ {0}]  OBVIOUS
    <3>2. v \in Seq(R) /\ v # <<>>  BY <2>4, <3>1
    <3>3. Len(v) \in Nat /\ Len(v) >= 1 /\ e = v[1] /\ e \in R  BY <2>2, <3>2
    <3>4. q \in Seq(R) /\ Len(q) = Len(v) - 1 /\ \A i \in 1 .. Len(q) : q[i] = v[i + 1]  BY <2>3, <3>2
    <3> QED BY <3>1, <3>3, <3>4
  <2>6. covers' = [covers EXCEPT !.events = q, !.shown[e.album] = e.cover]  BY <1>8, <2>1, <2>2, <2>3 DEF G!CoverEvent
  <2>7. PICK s : s = [covers.shown EXCEPT ![e.album] = e.cover]  OBVIOUS
  <2>8. /\ DOMAIN covers' = DOMAIN covers /\ covers'.saved = covers.saved /\ covers'.shown = s
        /\ covers'.events = q /\ covers'.saving = covers.saving /\ covers'.lists = covers.lists
    BY <2>6, <2>7 DEF CoversKnown
  <2>9. /\ DOMAIN s = Albums /\ s[e.album] = e.cover /\ s[e.album] # 0 /\ e.album \in Albums
        /\ \A b \in Albums : b # e.album => s[b] = covers.shown[b]  BY <2>5, <2>7 DEF CoversKnown
  <2>10. NewsIsTrue(v, covers.saved)  BY <2>1 DEF CoversTrue
  <2>11. NewsIsTrue(q, covers.saved)
    <3>1. ASSUME NEW i \in 1 .. Len(q)
          PROVE  q[i].cover = covers.saved[q[i].album] \/ \E j \in 1 .. Len(q) : j > i /\ q[j].album = q[i].album
      <4>1. i + 1 \in 1 .. Len(v) /\ q[i] = v[i + 1]  BY <2>5
      <4>2. CASE \E j \in 1 .. Len(v) : j > i + 1 /\ v[j].album = v[i + 1].album
        <5>1. PICK j \in 1 .. Len(v) : j > i + 1 /\ v[j].album = v[i + 1].album  BY <4>2
        <5>2. j - 1 \in 1 .. Len(q) /\ j - 1 > i /\ q[j - 1] = v[j]  BY <2>5, <5>1
        <5> QED BY <4>1, <5>1, <5>2
      <4> QED BY <4>1, <4>2, <2>10 DEF NewsIsTrue
    <3> QED BY <3>1 DEF NewsIsTrue
  <2>12. \A b \in Albums : b # e.album /\ Told(v, b) => Told(q, b)
    <3> SUFFICES ASSUME NEW b \in Albums, b # e.album, Told(v, b)
                 PROVE  Told(q, b)  OBVIOUS
    <3>1. PICK i \in 1 .. Len(v) : v[i].album = b  BY DEF Told
    <3>2. i - 1 \in 1 .. Len(q) /\ q[i - 1] = v[i]  BY <2>5, <3>1
    <3> QED BY <3>1, <3>2 DEF Told
  <2>13. Told(q, e.album) \/ s[e.album] = covers.saved[e.album]
    <3>1. CASE \E j \in 1 .. Len(v) : j > 1 /\ v[j].album = v[1].album
      <4>1. PICK j \in 1 .. Len(v) : j > 1 /\ v[j].album = v[1].album  BY <3>1
      <4>2. j - 1 \in 1 .. Len(q) /\ q[j - 1] = v[j]  BY <2>5, <4>1
      <4> QED BY <2>5, <4>1, <4>2 DEF Told
    <3> QED BY <2>5, <2>9, <2>10, <3>1 DEF NewsIsTrue
  <2>14. \A b \in Albums : Told(q, b) \/ s[b] \in {0, covers.saved[b]}  BY <2>1, <2>9, <2>12, <2>13 DEF CoversTrue
  <2>15. \A l \in covers.lists : l.got # None => \A b \in Albums :
           Told(q, b) \/ s[b] # 0 \/ l.got[b] = covers.saved[b]  BY <2>1, <2>9, <2>12 DEF CoversTrue
  <2> QED BY <2>5, <2>8, <2>9, <2>11, <2>14, <2>15 DEF CoversKnown, CoversTrue
<1>9. CASE G!Choosing
  BY <1>1, <1>9 DEF G!Choosing, G!Select, G!Tick, G!ClearSelection, G!SelectAll, G!Move, G!Navigate, G!ChangePage, G!Group,
     G!ToggleFolder, G!ToggleAllFolders, G!DownloadChanged
<1>10. CASE G!Excluding
  BY <1>1, <1>10 DEF G!Excluding, G!ReadServed, G!ReadAnswered, G!CandidatesServed, G!CandidatesAnswered, G!ReadExclusions,
     G!ExcludeExplore, G!ExcludeServed, G!ExcludeAnswered, G!ExcludeCandidates, G!Quarantine, G!QuarantineAnswered,
     G!Undo, G!UndoServed, G!UndoFailed, G!UndoAnswered
<1> QED BY <1>1, <1>2, <1>3, <1>4, <1>5, <1>6, <1>7, <1>8, <1>9, <1>10 DEF G!Next, G!Covering

(* The exclusions.  A change the workspace has made is behind an answer that
   is on its way, or in doubt because that answer was lost; a reading that was
   asked for before the last change learnt has an older token and does not
   count. *)

(* Nothing that is under way is taken for nothing. *)
NoneIsApart ==
  /\ \A r, d, w : [rest |-> r, done |-> d, at |-> w] # None
  /\ \A x, r, d, w : [action |-> x, rest |-> r, done |-> d, at |-> w] # None

GridAssumption == IsFiniteSet(Albums) /\ Batch \in Nat \ {0} /\ NoneIsApart

Row(s) == \E W : s \in Seq(W)

LEMMA OrderedIsRow ==
  ASSUME GridAssumption, NEW as
  PROVE  Row(G!Ordered(as))
<1>1. PICK S : S = as \cap Albums  OBVIOUS
<1>2. G!Cardinality(S) = Cardinality(S)  BY DEF G!Cardinality, Cardinality
<1>3. PICK n \in Nat : n = G!Cardinality(S)  BY <1>1, <1>2, FS_CardinalityType, FS_Intersection DEF GridAssumption
<1> DEFINE E(i) == CHOOSE a \in S : G!Cardinality({b \in S : b < a}) = i - 1
<1>4. G!Ordered(as) = [i \in 1 .. n |-> E(i)]  BY <1>1, <1>3 DEF G!Ordered
<1> HIDE DEF E
<1>5. PICK W : W = {E(i) : i \in 1 .. n}  OBVIOUS
<1>6. [i \in 1 .. n |-> E(i)] \in Seq(W)  BY <1>5
<1> QED BY <1>4, <1>6 DEF Row

(* The first batch of a row has something in it. *)
LEMMA BatchIs ==
  ASSUME GridAssumption, NEW s, Row(s), s # <<>>
  PROVE  /\ \E a : a \in G!ToSet(G!Head200(s))
         /\ Row(G!Tail200(s))
<1>1. PICK W : s \in Seq(W)  BY DEF Row
<1>2. PICK n \in Nat : n = Len(s) /\ n >= 1  BY <1>1
<1>3. PICK k : k = IF Len(s) < Batch THEN Len(s) ELSE Batch  OBVIOUS
<1>4. k \in 1 .. n  BY <1>2, <1>3 DEF GridAssumption
<1>5. PICK h : h = SubSeq(s, 1, k)  OBVIOUS
<1>6. DOMAIN h = 1 .. k  BY <1>1, <1>2, <1>4, <1>5
<1>7. h[1] \in G!ToSet(G!Head200(s))
  <2>1. G!Head200(s) = h  BY <1>3, <1>5 DEF G!Head200
  <2>2. 1 \in DOMAIN h  BY <1>4, <1>6
  <2> QED BY <2>1, <2>2, Zenon DEF G!ToSet
<1>8. SubSeq(s, Batch + 1, Len(s)) \in Seq(W)
  <2>1. CASE Batch + 1 <= n  BY <2>1, <1>1, <1>2 DEF GridAssumption
  <2>2. CASE Batch + 1 > n  BY <2>2, <1>1, <1>2 DEF GridAssumption
  <2> QED BY <1>2, <2>1, <2>2 DEF GridAssumption
<1> QED BY <1>7, <1>8 DEF G!Tail200, Row

(* The types of the calls. *)
ExclusionCalls ==
  /\ excluding # None => \E r, d, w : excluding = [rest |-> r, done |-> d, at |-> w] /\ Row(r) /\ r # <<>>
  /\ undoing # None => \E x, r, d, w : undoing = [action |-> x, rest |-> r, done |-> d, at |-> w]
  /\ \A c \in autos : DOMAIN c = {"ids", "at", "n"}
  /\ DOMAIN known = {"ids", "ready", "token", "doubt"} /\ known.token \in Nat
  /\ \A r \in reads : DOMAIN r = {"token", "ids"} /\ r.token \in Nat /\ r.token <= known.token
  /\ \A r \in reads : r.token = known.token => ~known.ready
  /\ \A r, q \in reads : r.token = known.token /\ q.token = known.token => r = q

(* The backend has changed its exclusions and the answer has not come yet. *)
BatchDone(x) == x # None /\ (x.at = "ok" \/ x.done # {})
AutosDone(s) == \E c \in s : c.at = "ok"
UndoDone(x) == x # None /\ x.at = "ok" /\ x.action.kind = "exclusion"
Behind == BatchDone(excluding) \/ AutosDone(autos) \/ UndoDone(undoing)

KnownIsTrue ==
  ~Behind =>
    /\ known.ready => known.ids \ known.doubt = excluded \ known.doubt
    /\ \A r \in reads : r.token = known.token /\ r.ids # None => r.ids \ known.doubt = excluded \ known.doubt

ExclusionInv == ExclusionCalls /\ KnownIsTrue

(* After a change is learnt no older reading counts. *)
LEMMA LearnKeeps ==
  ASSUME ExclusionCalls, NEW taken, G!Learn(taken)
  PROVE  /\ DOMAIN known' = {"ids", "ready", "token", "doubt"} /\ known'.token \in Nat /\ ~known'.ready
         /\ \A r \in reads' : /\ DOMAIN r = {"token", "ids"} /\ r.token \in Nat /\ r.token <= known'.token
                              /\ r.token = known'.token => r.ids = None
         /\ \A r, q \in reads' : r.token = known'.token /\ q.token = known'.token => r = q
<1>1. PICK n : n = [token |-> known.token + 1, ids |-> None]  OBVIOUS
<1>2. reads' = reads \cup {n}  BY <1>1 DEF G!Learn
<1>3. DOMAIN n = {"token", "ids"} /\ n.token = known.token + 1 /\ n.ids = None  BY <1>1
<1>4. DOMAIN known' = {"ids", "ready", "token", "doubt"} /\ known'.token = known.token + 1 /\ known'.ready = FALSE
  BY DEF G!Learn, G!Asked, ExclusionCalls
<1> QED BY <1>2, <1>3, <1>4 DEF ExclusionCalls

LEMMA LearntIsTrue ==
  ASSUME ExclusionCalls, NEW taken, G!Learn(taken)
  PROVE  KnownIsTrue'  BY LearnKeeps DEF KnownIsTrue

(* What leaves the exclusions alone, and what the workspace knows of them. *)
LEMMA OthersKeep ==
  ASSUME ExclusionInv, UNCHANGED <<excluded, known, reads>>, Behind => Behind',
         (excluding # None => \E r, d, w : excluding = [rest |-> r, done |-> d, at |-> w] /\ Row(r) /\ r # <<>>)',
         (undoing # None => \E x, r, d, w : undoing = [action |-> x, rest |-> r, done |-> d, at |-> w])',
         (\A c \in autos : DOMAIN c = {"ids", "at", "n"})'
  PROVE  ExclusionInv'
<1>1. ExclusionCalls'  BY DEF ExclusionInv, ExclusionCalls
<1>2. KnownIsTrue'  BY DEF ExclusionInv, KnownIsTrue
<1> QED BY <1>1, <1>2 DEF ExclusionInv

(* The same with every call left alone. *)
LEMMA QuietKeeps ==
  ASSUME ExclusionInv, UNCHANGED <<excluded, known, reads, excluding, autos, undoing>>
  PROVE  ExclusionInv'  BY DEF ExclusionInv, ExclusionCalls, KnownIsTrue, Behind


(* An answer is lost: what it was about is in doubt. *)
LEMMA LostKeeps ==
  ASSUME ExclusionInv, UNCHANGED reads, Behind => Behind', NEW now,
         known' = [known EXCEPT !.doubt = @ \cup now],
         excluded' = excluded \cup now \/ excluded' = excluded \ now,
         (excluding # None => \E r, d, w : excluding = [rest |-> r, done |-> d, at |-> w] /\ Row(r) /\ r # <<>>)',
         (undoing # None => \E x, r, d, w : undoing = [action |-> x, rest |-> r, done |-> d, at |-> w])',
         (\A c \in autos : DOMAIN c = {"ids", "at", "n"})'
  PROVE  ExclusionInv'
<1>1. /\ DOMAIN known' = {"ids", "ready", "token", "doubt"} /\ known'.token = known.token
      /\ known'.ids = known.ids /\ known'.ready = known.ready /\ known'.doubt = known.doubt \cup now
  BY DEF ExclusionInv, ExclusionCalls
<1>2. ExclusionCalls'  BY <1>1 DEF ExclusionInv, ExclusionCalls
<1>3. \A S : S \ known.doubt = excluded \ known.doubt => S \ known'.doubt = excluded' \ known'.doubt  BY <1>1
<1>4. KnownIsTrue'  BY <1>1, <1>3 DEF ExclusionInv, KnownIsTrue
<1> QED BY <1>2, <1>4 DEF ExclusionInv

LEMMA ExclusionSteps ==
  ASSUME GridAssumption, ExclusionInv, G!Next \/ UNCHANGED G!vars
  PROVE  ExclusionInv'
<1>1. CASE UNCHANGED G!vars  BY <1>1, QuietKeeps DEF G!vars, G!dataVars, G!callVars
<1>2. CASE G!Choosing
  <2>1. UNCHANGED <<excluded, known, reads, excluding, autos, undoing>>
    BY <1>2 DEF G!Choosing, G!Select, G!Tick, G!ClearSelection, G!SelectAll, G!Move, G!Navigate, G!ChangePage, G!Group,
       G!ToggleFolder, G!ToggleAllFolders, G!DownloadChanged, G!dataVars, G!callVars
  <2> QED BY <2>1, QuietKeeps
<1>3. CASE G!Covering
  <2>1. UNCHANGED <<excluded, known, reads, excluding, autos, undoing>>
    BY <1>3 DEF G!Covering, G!ListServed, G!ListAnswered, G!ListFails, G!CoverChosen, G!AskCovers, G!CoverEvent, G!CoverSaved,
       G!dataVars, G!callVars
  <2> QED BY <2>1, QuietKeeps
<1>4. CASE G!QuarantineAnswered \/ \E as : G!Quarantine(as)
  <2>1. UNCHANGED <<excluded, known, reads, excluding, autos, undoing>>
    BY <1>4 DEF G!QuarantineAnswered, G!Quarantine, G!dataVars
  <2> QED BY <2>1, QuietKeeps
<1>5. CASE G!ReadExclusions
  <2>1. UNCHANGED <<excluded, excluding, autos, undoing>> /\ G!Learn(known.ids)
    BY <1>5 DEF G!ReadExclusions, G!Learn, G!Asked, G!callVars, ExclusionInv, ExclusionCalls
  <2>2. KnownIsTrue'  BY <2>1, LearntIsTrue DEF ExclusionInv
  <2>3. ExclusionCalls'  BY <2>1, LearnKeeps DEF ExclusionInv, ExclusionCalls
  <2> QED BY <2>2, <2>3 DEF ExclusionInv
<1>6. ASSUME NEW r \in reads, G!ReadServed(r)
      PROVE  ExclusionInv'
  <2>1. PICK n : n = [r EXCEPT !.ids = excluded]  OBVIOUS
  <2>2. /\ reads' = (reads \ {r}) \cup {n} /\ UNCHANGED <<excluded, excluding, autos, undoing>>
        /\ known' = IF r.token = known.token THEN [known EXCEPT !.doubt = {}] ELSE known
    BY <1>6, <2>1 DEF G!ReadServed, G!callVars
  <2>3. DOMAIN n = {"token", "ids"} /\ n.token = r.token /\ n.ids = excluded  BY <2>1 DEF ExclusionInv, ExclusionCalls
  <2>4. /\ DOMAIN known' = {"ids", "ready", "token", "doubt"} /\ known'.token = known.token
        /\ known'.ids = known.ids /\ known'.ready = known.ready
        /\ r.token # known.token => known' = known  BY <2>2 DEF ExclusionInv, ExclusionCalls
  <2>5. ExclusionCalls'  BY <2>2, <2>3, <2>4 DEF ExclusionInv, ExclusionCalls
  <2>6. r.token = known.token => ~known.ready  BY DEF ExclusionInv, ExclusionCalls
  <2>7. \A q \in reads : q.token = known.token /\ r.token = known.token => q = r  BY DEF ExclusionInv, ExclusionCalls
  <2>8. KnownIsTrue'
    <3>1. CASE r.token = known.token
      <4>1. \A q \in reads' : q.token = known'.token => q = n  BY <2>2, <2>3, <2>4, <2>7, <3>1
      <4>2. ~known'.ready  BY <2>4, <2>6, <3>1
      <4> QED BY <2>2, <2>3, <4>1, <4>2 DEF KnownIsTrue
    <3>2. CASE r.token # known.token
      <4>1. Behind' <=> Behind  BY <2>2 DEF Behind
      <4> QED BY <2>2, <2>3, <2>4, <3>2, <4>1 DEF ExclusionInv, KnownIsTrue
    <3> QED BY <3>1, <3>2
  <2> QED BY <2>5, <2>8 DEF ExclusionInv
<1>7. ASSUME NEW r \in reads, G!ReadAnswered(r)
      PROVE  ExclusionInv'
  <2>1. /\ reads' = reads \ {r} /\ r.ids # None /\ UNCHANGED <<excluded, excluding, autos, undoing>>
        /\ \/ UNCHANGED known
           \/ r.token = known.token /\ known' = [known EXCEPT !.ids = r.ids, !.ready = TRUE]
    BY <1>7 DEF G!ReadAnswered, G!callVars
  <2>2. CASE UNCHANGED known  BY <2>1, <2>2 DEF ExclusionInv, ExclusionCalls, KnownIsTrue, Behind
  <2>3. CASE r.token = known.token /\ known' = [known EXCEPT !.ids = r.ids, !.ready = TRUE]
    <3>1. DOMAIN known' = {"ids", "ready", "token", "doubt"} /\ known'.token = known.token /\ known'.ids = r.ids
          /\ known'.doubt = known.doubt  BY <2>3 DEF ExclusionInv, ExclusionCalls
    <3>2. ExclusionCalls'  BY <2>1, <3>1 DEF ExclusionInv, ExclusionCalls
    <3>3. KnownIsTrue'  BY <2>1, <2>3, <3>1 DEF ExclusionInv, KnownIsTrue, Behind
    <3> QED BY <3>2, <3>3 DEF ExclusionInv
  <2> QED BY <2>1, <2>2, <2>3
<1>8. ASSUME NEW as, G!ExcludeExplore(as)
      PROVE  ExclusionInv'
  <2>1. PICK t : t = G!Ordered(as \ known.ids)  OBVIOUS
  <2>2. Row(t)
    <3>1. PICK S : S = as \ known.ids  OBVIOUS
    <3> QED BY <2>1, <3>1, OrderedIsRow
  <2>3. /\ t # <<>> /\ excluding = None /\ excluding' = [rest |-> t, done |-> {}, at |-> "sent"]
        /\ UNCHANGED <<excluded, known, reads, autos, undoing>>
    BY <1>8, <2>1 DEF G!ExcludeExplore, G!dataVars
  <2>4. ~BatchDone(excluding)  BY <2>3 DEF BatchDone
  <2>5. Behind => Behind'  BY <2>3, <2>4 DEF Behind
  <2>6. (excluding # None => \E r, d, w : excluding = [rest |-> r, done |-> d, at |-> w] /\ Row(r) /\ r # <<>>)'
    BY <2>2, <2>3
  <2> QED BY <2>3, <2>5, <2>6, OthersKeep DEF ExclusionInv, ExclusionCalls
<1>9. CASE G!ExcludeServed
  <2>1. PICK r, d, w : excluding = [rest |-> r, done |-> d, at |-> w] /\ Row(r) /\ r # <<>>
    BY <1>9 DEF G!ExcludeServed, ExclusionInv, ExclusionCalls
  <2>2. w = "sent" /\ excluding # None /\ UNCHANGED <<reads, autos, undoing>>  BY <1>9, <2>1 DEF G!ExcludeServed
  <2>5. PICK now : now = G!ToSet(G!Head200(r))  OBVIOUS
  <2>3. CASE excluding' = [rest |-> r, done |-> d, at |-> "ok"] /\ UNCHANGED known
    <3>1. excluding' # None  BY <2>3 DEF GridAssumption, NoneIsApart
    <3>2. Behind'  BY <2>3, <3>1 DEF Behind, BatchDone
    <3>3. ExclusionCalls'  BY <2>1, <2>2, <2>3 DEF ExclusionInv, ExclusionCalls
    <3> QED BY <3>2, <3>3 DEF ExclusionInv, KnownIsTrue
  <2>6. CASE /\ excluding' = [rest |-> r, done |-> d, at |-> "failed"]
             /\ excluded' = excluded \cup now /\ known' = [known EXCEPT !.doubt = @ \cup now]
    <3>1. excluding' # None  BY <2>6 DEF GridAssumption, NoneIsApart
    <3>2. BatchDone(excluding) => BatchDone(excluding')  BY <2>1, <2>2, <2>6, <3>1 DEF BatchDone
    <3>3. Behind => Behind'  BY <2>2, <3>2 DEF Behind
    <3> QED BY <2>1, <2>2, <2>6, <3>3, LostKeeps DEF ExclusionInv, ExclusionCalls
  <2>4. CASE excluding' = [rest |-> r, done |-> d, at |-> "failed"] /\ UNCHANGED <<excluded, known>>
    <3>1. excluding' # None  BY <2>4 DEF GridAssumption, NoneIsApart
    <3>2. BatchDone(excluding) => BatchDone(excluding')  BY <2>1, <2>2, <2>4, <3>1 DEF BatchDone
    <3>3. Behind => Behind'  BY <2>2, <3>2 DEF Behind
    <3>4. (excluding # None => \E x, y, z : excluding = [rest |-> x, done |-> y, at |-> z] /\ Row(x) /\ x # <<>>)'
      BY <2>1, <2>4
    <3> QED BY <2>2, <2>4, <3>3, <3>4, OthersKeep DEF ExclusionInv, ExclusionCalls
  <2> QED BY <1>9, <2>1, <2>3, <2>4, <2>5, <2>6 DEF G!ExcludeServed
<1>10. CASE G!ExcludeAnswered
  <2>1. PICK r, d, w : excluding = [rest |-> r, done |-> d, at |-> w] /\ Row(r) /\ r # <<>>
    BY <1>10 DEF G!ExcludeAnswered, ExclusionInv, ExclusionCalls
  <2>2. PICK now : now = G!ToSet(G!Head200(r))  OBVIOUS
  <2>3. PICK tail : tail = G!Tail200(r)  OBVIOUS
  <2>4. (\E a : a \in now) /\ Row(tail)  BY <2>1, <2>2, <2>3, BatchIs
  <2>5. PICK e : e = IF w = "ok" THEN d \cup now ELSE d  OBVIOUS
  <2>6. PICK taken : taken = IF w = "ok" THEN known.ids \cup now ELSE known.ids  OBVIOUS
  <2>7. w \notin {"sent"} /\ UNCHANGED <<excluded, autos, undoing>>  BY <1>10, <2>1 DEF G!ExcludeAnswered
  <2>8. /\ excluding' = IF w = "failed" \/ tail = <<>> THEN None ELSE [rest |-> tail, done |-> e, at |-> "sent"]
        /\ IF (w = "failed" \/ tail = <<>>) /\ e # {} THEN G!Learn(taken)
           ELSE known' = [known EXCEPT !.ids = taken] /\ UNCHANGED reads
    BY <1>10, <2>1, <2>2, <2>3, <2>5, <2>6 DEF G!ExcludeAnswered
  <2>9. (excluding # None => \E x, y, z : excluding = [rest |-> x, done |-> y, at |-> z] /\ Row(x) /\ x # <<>>)'
    BY <2>4, <2>8
  <2>10. CASE G!Learn(taken)
    <3>1. KnownIsTrue'  BY <2>10, LearntIsTrue DEF ExclusionInv
    <3>2. ExclusionCalls'  BY <2>7, <2>9, <2>10, LearnKeeps DEF ExclusionInv, ExclusionCalls
    <3> QED BY <3>1, <3>2 DEF ExclusionInv
  <2>11. CASE ~((w = "failed" \/ tail = <<>>) /\ e # {})
    <3>1. known' = [known EXCEPT !.ids = taken] /\ UNCHANGED reads  BY <2>8, <2>11
    <3>2. DOMAIN known' = {"ids", "ready", "token", "doubt"} /\ known'.token = known.token /\ known'.ids = taken
          /\ known'.ready = known.ready /\ known'.doubt = known.doubt
      BY <3>1 DEF ExclusionInv, ExclusionCalls
    <3>3. ExclusionCalls'  BY <2>7, <2>9, <3>1, <3>2 DEF ExclusionInv, ExclusionCalls
    <3>4. CASE w = "ok"
      <4>1. e # {} /\ tail # <<>>  BY <2>4, <2>5, <2>11, <3>4
      <4>2. excluding' = [rest |-> tail, done |-> e, at |-> "sent"] /\ excluding' # None
        BY <2>8, <3>4, <4>1 DEF GridAssumption, NoneIsApart
      <4>3. Behind'  BY <4>1, <4>2 DEF Behind, BatchDone
      <4> QED BY <3>3, <4>3 DEF ExclusionInv, KnownIsTrue
    <3>5. CASE w # "ok"
      <4>1. taken = known.ids /\ e = d  BY <2>5, <2>6, <3>5
      <4>2. CASE d = {}
        <5>1. ~BatchDone(excluding)  BY <2>1, <3>5, <4>2 DEF BatchDone
        <5>2. Behind => Behind'  BY <2>7, <5>1 DEF Behind
        <5> QED BY <2>7, <3>1, <3>2, <3>3, <4>1, <5>2 DEF ExclusionInv, KnownIsTrue
      <4>3. CASE d # {}
        <5>1. excluding' = [rest |-> tail, done |-> e, at |-> "sent"] /\ excluding' # None
          BY <2>8, <2>11, <4>1, <4>3 DEF GridAssumption, NoneIsApart
        <5>2. Behind'  BY <4>1, <4>3, <5>1 DEF Behind, BatchDone
        <5> QED BY <3>3, <5>2 DEF ExclusionInv, KnownIsTrue
      <4> QED BY <4>2, <4>3
    <3> QED BY <3>4, <3>5
  <2> QED BY <2>8, <2>10, <2>11
<1>11. ASSUME NEW as, G!ExcludeCandidates(as)
       PROVE  ExclusionInv'
  <2>1. PICK c : c = [ids |-> as \cap found, at |-> "sent", n |-> steps]  OBVIOUS
  <2>2. autos' = autos \cup {c} /\ UNCHANGED <<excluded, known, reads, excluding, undoing>>
    BY <1>11, <2>1 DEF G!ExcludeCandidates, G!dataVars
  <2>3. DOMAIN c = {"ids", "at", "n"}  BY <2>1
  <2>4. Behind => Behind'  BY <2>2 DEF Behind, AutosDone
  <2> QED BY <2>2, <2>3, <2>4, OthersKeep DEF ExclusionInv, ExclusionCalls
<1>12. ASSUME NEW c \in autos, G!CandidatesServed(c)
       PROVE  ExclusionInv'
  <2>1. PICK n : n = [c EXCEPT !.at = "ok"]  OBVIOUS
  <2>2. UNCHANGED <<reads, excluding, undoing>> /\ c.at = "sent" /\ excluded' = excluded \cup c.ids
    BY <1>12 DEF G!CandidatesServed
  <2>3. DOMAIN n = {"ids", "at", "n"} /\ n.at = "ok"  BY <2>1 DEF ExclusionInv, ExclusionCalls
  <2>4. CASE autos' = (autos \ {c}) \cup {n} /\ UNCHANGED known
    <3>1. Behind'  BY <2>3, <2>4 DEF Behind, AutosDone
    <3>2. ExclusionCalls'  BY <2>2, <2>3, <2>4 DEF ExclusionInv, ExclusionCalls
    <3> QED BY <3>1, <3>2 DEF ExclusionInv, KnownIsTrue
  <2>5. CASE autos' = autos \ {c} /\ known' = [known EXCEPT !.doubt = @ \cup c.ids]
    <3>1. Behind => Behind'  BY <2>2, <2>5 DEF Behind, AutosDone
    <3>2. PICK now : now = c.ids  OBVIOUS
    <3>3. excluded' = excluded \cup now /\ known' = [known EXCEPT !.doubt = @ \cup now]  BY <2>2, <2>5, <3>2
    <3> QED BY <2>2, <2>5, <3>1, <3>3, LostKeeps DEF ExclusionInv, ExclusionCalls
  <2> QED BY <1>12, <2>1, <2>4, <2>5 DEF G!CandidatesServed
<1>13. ASSUME NEW c \in autos, G!CandidatesAnswered(c)
       PROVE  ExclusionInv'
  <2>1. autos' = autos \ {c} /\ UNCHANGED <<excluded, excluding, undoing>>  BY <1>13 DEF G!CandidatesAnswered
  <2>2. CASE c.at = "sent" /\ UNCHANGED <<known, reads>>
    <3>1. Behind => Behind'  BY <2>1, <2>2 DEF Behind, AutosDone
    <3> QED BY <2>1, <2>2, <3>1, OthersKeep DEF ExclusionInv, ExclusionCalls
  <2>3. CASE G!Learn(known.ids \cup c.ids)
    <3>1. PICK taken : taken = known.ids \cup c.ids  OBVIOUS
    <3>2. G!Learn(taken)  BY <2>3, <3>1
    <3>3. KnownIsTrue'  BY <3>2, LearntIsTrue DEF ExclusionInv
    <3>4. ExclusionCalls'  BY <2>1, <3>2, LearnKeeps DEF ExclusionInv, ExclusionCalls
    <3> QED BY <3>3, <3>4 DEF ExclusionInv
  <2> QED BY <1>13, <2>2, <2>3 DEF G!CandidatesAnswered
<1>14. CASE G!Undo
  <2>1. PICK x : undoing' = x /\ x = [action |-> undo, rest |-> G!Ordered(undo.ids), done |-> {}, at |-> "sent"]
    BY <1>14 DEF G!Undo
  <2>2. undoing = None /\ UNCHANGED <<excluded, known, reads, excluding, autos>>  BY <1>14 DEF G!Undo, G!dataVars
  <2>3. Behind => Behind'  BY <2>2 DEF Behind, UndoDone
  <2>4. (undoing # None => \E y, r, d, w : undoing = [action |-> y, rest |-> r, done |-> d, at |-> w])'  BY <2>1
  <2> QED BY <2>2, <2>3, <2>4, OthersKeep DEF ExclusionInv, ExclusionCalls
<1>15. CASE G!UndoServed
  <2>1. PICK x, r, d, w : undoing = [action |-> x, rest |-> r, done |-> d, at |-> w]
    BY <1>15 DEF G!UndoServed, ExclusionInv, ExclusionCalls
  <2>2. w = "sent" /\ UNCHANGED <<reads, excluding, autos>>  BY <1>15, <2>1 DEF G!UndoServed
  <2>3. PICK now : now = IF x.kind = "exclusion" THEN G!ToSet(G!Head200(r)) ELSE {}  OBVIOUS
  <2>4. ~UndoDone(undoing)  BY <2>1, <2>2 DEF UndoDone
  <2>5. \E z : /\ undoing' = [action |-> x, rest |-> r, done |-> d, at |-> z]
               /\ \/ z = "ok" /\ excluded' = excluded \ now /\ UNCHANGED known
                  \/ excluded' = excluded \ now /\ known' = [known EXCEPT !.doubt = @ \cup now]
                  \/ UNCHANGED <<excluded, known>>
    <3>1. PICK un : un = undoing  OBVIOUS
    <3>2. un.action = x /\ un.rest = r /\ \A z : [un EXCEPT !.at = z] = [action |-> x, rest |-> r, done |-> d, at |-> z]
      BY <2>1, <3>1
    <3>3. now = IF un.action.kind = "exclusion" THEN G!ToSet(G!Head200(un.rest)) ELSE {}  BY <2>3, <3>2
    <3>4. \/ undoing' = [un EXCEPT !.at = "ok"] /\ excluded' = excluded \ now /\ UNCHANGED known
          \/ /\ undoing' = [un EXCEPT !.at = "failed"]
             /\ excluded' = excluded \ now /\ known' = [known EXCEPT !.doubt = @ \cup now]
          \/ undoing' = [un EXCEPT !.at = "failed"] /\ UNCHANGED <<excluded, known>>
      BY <1>15, <3>1, <3>3, Zenon DEF G!UndoServed
    <3> QED BY <3>2, <3>4
  <2>6. PICK z : /\ undoing' = [action |-> x, rest |-> r, done |-> d, at |-> z]
                 /\ \/ z = "ok" /\ excluded' = excluded \ now /\ UNCHANGED known
                    \/ excluded' = excluded \ now /\ known' = [known EXCEPT !.doubt = @ \cup now]
                    \/ UNCHANGED <<excluded, known>>  BY <2>5
  <2>7. (undoing # None => \E y, r1, d1, w1 : undoing = [action |-> y, rest |-> r1, done |-> d1, at |-> w1])'  BY <2>6
  <2>8. Behind => Behind'  BY <2>2, <2>4 DEF Behind
  <2>9. CASE UNCHANGED <<excluded, known>>  BY <2>2, <2>7, <2>8, <2>9, OthersKeep DEF ExclusionInv, ExclusionCalls
  <2>10. CASE excluded' = excluded \ now /\ known' = [known EXCEPT !.doubt = @ \cup now]
    BY <2>2, <2>7, <2>8, <2>10, LostKeeps DEF ExclusionInv, ExclusionCalls
  <2>11. CASE z = "ok" /\ excluded' = excluded \ now /\ UNCHANGED known
    <3>1. CASE x.kind = "exclusion"
      <4>1. undoing' # None  BY <2>6 DEF GridAssumption, NoneIsApart
      <4>2. Behind'  BY <2>6, <2>11, <3>1, <4>1 DEF Behind, UndoDone
      <4>3. ExclusionCalls'  BY <2>2, <2>7, <2>11 DEF ExclusionInv, ExclusionCalls
      <4> QED BY <4>2, <4>3 DEF ExclusionInv, KnownIsTrue
    <3>2. CASE x.kind # "exclusion"
      <4>1. UNCHANGED excluded  BY <2>3, <2>11, <3>2
      <4> QED BY <2>2, <2>7, <2>8, <2>11, <4>1, OthersKeep DEF ExclusionInv, ExclusionCalls
    <3> QED BY <3>1, <3>2
  <2> QED BY <2>6, <2>9, <2>10, <2>11
<1>16. CASE G!UndoFailed
  <2>1. undoing' = None /\ undoing.at = "failed" /\ UNCHANGED <<excluded, known, reads, excluding, autos>>
    BY <1>16 DEF G!UndoFailed, G!dataVars
  <2>2. Behind => Behind'  BY <2>1 DEF Behind, UndoDone
  <2> QED BY <2>1, <2>2, OthersKeep DEF ExclusionInv, ExclusionCalls
<1>17. CASE G!UndoAnswered
  <2>1. PICK x, r, d, w : undoing = [action |-> x, rest |-> r, done |-> d, at |-> w]
    BY <1>17 DEF G!UndoAnswered, ExclusionInv, ExclusionCalls
  <2>2. UNCHANGED <<excluded, excluding, autos>>  BY <1>17 DEF G!UndoAnswered
  <2>3. (undoing # None => \E y, r1, d1, w1 : undoing = [action |-> y, rest |-> r1, done |-> d1, at |-> w1])'
    BY <1>17, <2>1 DEF G!UndoAnswered
  <2>4. PICK taken : taken = known.ids \ G!ToSet(G!Head200(undoing.rest))  OBVIOUS
  <2>5. CASE x.kind = "exclusion"
    <3>1. G!Learn(taken)  BY <1>17, <2>1, <2>4, <2>5 DEF G!UndoAnswered
    <3>2. KnownIsTrue'  BY <3>1, LearntIsTrue DEF ExclusionInv
    <3>3. ExclusionCalls'  BY <2>2, <2>3, <3>1, LearnKeeps DEF ExclusionInv, ExclusionCalls
    <3> QED BY <3>2, <3>3 DEF ExclusionInv
  <2>6. CASE x.kind # "exclusion"
    <3>1. UNCHANGED <<known, reads>>  BY <1>17, <2>1, <2>6 DEF G!UndoAnswered
    <3>2. ~UndoDone(undoing)  BY <2>1, <2>6 DEF UndoDone
    <3>3. Behind => Behind'  BY <2>2, <3>2 DEF Behind
    <3> QED BY <2>2, <2>3, <3>1, <3>3, OthersKeep DEF ExclusionInv, ExclusionCalls
  <2> QED BY <2>5, <2>6
<1>18. CASE G!Excluding
  BY <1>4, <1>5, <1>6, <1>7, <1>8, <1>9, <1>10, <1>11, <1>12, <1>13, <1>14, <1>15, <1>16, <1>17, <1>18 DEF G!Excluding
<1> QED BY <1>1, <1>2, <1>3, <1>18 DEF G!Next

(* The grid is true to the backend (GalleryGrid): once the exclusions count
   as read they are the backend's, whatever was excluded or undone meanwhile,
   and an album shows no cover but the one it has, once the news is in. *)
THEOREM TheGridIsTrue == GridAssumption => (G!Spec => [](G!ExclusionsAreTrue /\ G!CoverIsNewest))
<1> SUFFICES ASSUME GridAssumption PROVE G!Spec => [](G!ExclusionsAreTrue /\ G!CoverIsNewest)  OBVIOUS
<1> DEFINE Inv == CoversKnown /\ CoversTrue /\ ExclusionInv
<1>1. G!Init => Inv
  <2> SUFFICES ASSUME G!Init PROVE Inv  OBVIOUS
  <2>1. /\ DOMAIN covers = {"saved", "shown", "asked", "lists", "events", "saving"}
        /\ covers.saved = [a \in Albums |-> 1] /\ covers.shown = [a \in Albums |-> 0]
        /\ covers.lists = {} /\ covers.events = <<>> /\ covers.saving = None  BY DEF G!Init, G!NoCovers
  <2>2. CoversKnown  BY <2>1 DEF CoversKnown
  <2>3. CoversTrue  BY <2>1 DEF CoversTrue, NewsIsTrue
  <2>4. ExclusionCalls  BY DEF G!Init, ExclusionCalls
  <2>5. KnownIsTrue  BY DEF G!Init, KnownIsTrue
  <2> QED BY <2>2, <2>3, <2>4, <2>5 DEF ExclusionInv
<1>2. Inv /\ [G!Next]_(G!vars) => Inv'  BY CoverSteps, ExclusionSteps DEF G!vars
<1>3. Inv => G!ExclusionsAreTrue /\ G!CoverIsNewest
  <2> SUFFICES ASSUME Inv PROVE G!ExclusionsAreTrue /\ G!CoverIsNewest  OBVIOUS
  <2>1. G!ExclusionsAreTrue
    BY DEF ExclusionInv, KnownIsTrue, Behind, BatchDone, AutosDone, UndoDone, G!ExclusionsAreTrue
  <2>2. G!CoverIsNewest
    <3>1. CASE covers.events = <<>>
      <4>1. \A a : ~Told(covers.events, a)  BY <3>1 DEF Told
      <4> QED BY <4>1 DEF CoversTrue, G!CoverIsNewest
    <3> QED BY <3>1 DEF G!CoverIsNewest
  <2> QED BY <2>1, <2>2
<1> HIDE DEF Inv
<1> QED BY <1>1, <1>2, <1>3, PTL DEF G!Spec

====
