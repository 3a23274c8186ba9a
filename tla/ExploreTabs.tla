---- MODULE ExploreTabs ----
(***************************************************************************)
(* The Explore tabs of the gallery controller (HitomiFeature.tsx): every   *)
(* tab owns a search, its page cache and its query state; the viewport     *)
(* shows one of them. Searches, page loads and restorations are answered   *)
(* in any order, or fail, while the user opens, closes, reopens, refreshes *)
(* and leaves tabs and while the page is reloaded from its checkpoint.     *)
(*                                                                         *)
(* A context object keeps its identity when it is closed and reopened, so  *)
(* a context is a number and ctx keeps the closed ones too. The identity   *)
(* of a "loading" query object is its serial number "load" (0: not one).   *)
(* Labels, scroll positions, keyboard focus and selection are left out.    *)
(***************************************************************************)
EXTENDS ExploreSession

CONSTANTS Keys,             \* search requests, up to searchRequestKey
          Total,            \* totalPages of every answer
          MaxContexts,      \* maximumExploreContexts
          MaxIds,           \* bound: contexts created
          MaxSearches,      \* bound: searches submitted
          MaxLoads,         \* bound: loading query objects and reloads
          MaxReloads        \* bound: reloads of the page

NoTab == 0
Ids == 1..MaxIds
Idle == [phase |-> "idle", token |-> 0, queryId |-> NoQuery, page |-> 0, of |-> NoQuery,
         pending |-> 0, load |-> 0]
NoContext == [key |-> "none", query |-> Idle, session |-> NewSession,
              resume |-> <<>>, origin |-> <<>>]
NoCheckpoint == [tabs |-> <<>>, active |-> NoTab, view |-> "explore"]

VARIABLES
  ctx, tabs, active,        \* exploreContexts, exploreContextIds, activeExploreContextId
  view, shown,              \* ui.view, and the query in queryRef and the reducer
  closed,                   \* closedNavigation: <<id, index>>
  calls, waits,             \* backend calls not answered, loads that wait for a request
  queries,                  \* the backend: the search behind every queryId
  token, loads,             \* searchToken, serial of loading objects
  saved, restored, reloads  \* the navigation checkpoint, checkpointRestored

vars == <<ctx, tabs, active, view, shown, closed, calls, waits, queries,
          token, loads, saved, restored, reloads>>

Opened == ToSet(tabs)
Created == {i \in Ids : ctx[i] # NoContext}

Init ==
  /\ ctx = [i \in Ids |-> NoContext] /\ tabs = <<>> /\ active = NoTab
  /\ view = "explore" /\ shown = Idle /\ closed = <<>>
  /\ calls = {} /\ waits = {} /\ queries = <<>> /\ token = 0 /\ loads = 0
  /\ saved = NoCheckpoint /\ restored = FALSE /\ reloads = 0

----
(* Steps shared by the handlers, on a copy of the contexts. *)

(* The page requests that a session has issued since it was old. *)
Issued(i, old, new) ==
  {[kind |-> "page", ctx |-> i, gen |-> new.gen, query |-> new.query,
    page |-> f.page, req |-> f.req] : f \in {g \in new.flight : g.req > old.seq}}

SnapshotActive(c, park) ==
  IF active = NoTab THEN c
  ELSE [c EXCEPT ![active].query = shown,
                 ![active].session = IF park THEN Park(@) ELSE @]

(* hydrateRestoredContext: the resume mark is taken and the tab loads. *)
Loading(q, p, n) == [Idle EXCEPT !.phase = "loading-page", !.queryId = q, !.pending = p, !.load = n]
Hydrating(c, i, n) ==
  [c EXCEPT ![i].resume = <<>>, ![i].query = Loading(c[i].resume[1], c[i].resume[2], n)]
HydrateCall(c, i, n) ==
  IF c[i].resume[1] = NoQuery
  THEN [kind |-> "resubmit", ctx |-> i, load |-> n, key |-> c[i].key, page |-> c[i].resume[2]]
  ELSE [kind |-> "get", ctx |-> i, load |-> n, query |-> c[i].resume[1],
        page |-> c[i].resume[2], first |-> TRUE]

(* restoreExploreContext: context i becomes the viewport of state s. *)
Now == [ctx |-> ctx, active |-> active, view |-> view, shown |-> shown,
        calls |-> calls, loads |-> loads]
Restore(s, i) ==
  LET r == [s.ctx EXCEPT ![i].session = Resume(@)]
      h == r[i].resume # <<>>
      d == IF h THEN Hydrating(r, i, s.loads + 1) ELSE r
  IN  [ctx |-> d, active |-> i, view |-> "explore", shown |-> d[i].query,
       calls |-> s.calls \cup (IF h THEN {HydrateCall(r, i, s.loads + 1)} ELSE {}),
       loads |-> IF h THEN s.loads + 1 ELSE s.loads]
Become(s) ==
  /\ s.loads <= MaxLoads
  /\ ctx' = s.ctx /\ active' = s.active /\ view' = s.view /\ shown' = s.shown
  /\ calls' = s.calls /\ loads' = s.loads

(* returnToOrigin: the tab or the view that a search was started from. *)
ReturnToOrigin(s, from, open) ==
  CASE from = <<>> -> s
    [] from # <<>> /\ from[1] = "explore" /\ from[2] \in open -> Restore(s, from[2])
    [] OTHER -> [s EXCEPT !.view = from[1]]

(* publishExploreContext: a background tab never touches the viewport. *)
Publish(c, i) == shown' = IF active = i THEN c[i].query ELSE shown

----
(* Searching. *)

Submitting(n) == [Idle EXCEPT !.phase = "submitting", !.token = n]
Origin == <<view, active>>

(* The tail of startExploreSearch: tab i of c starts over with the request. *)
Submit(c, i, key, background) ==
  LET d == [c EXCEPT ![i].session = Clear(@), ![i].key = key, ![i].query = Submitting(token + 1)]
  IN  /\ token < MaxSearches /\ token' = token + 1
      /\ ctx' = d
      /\ IF background THEN UNCHANGED <<active, view>> /\ Publish(d, i)
         ELSE active' = i /\ view' = "explore" /\ shown' = d[i].query
      /\ calls' = calls \cup {[kind |-> "submit", ctx |-> i, token |-> token + 1, key |-> key]}
      /\ UNCHANGED <<closed, waits, queries, loads, saved, restored, reloads>>

Existing(key) == {i \in Opened : ctx[i].key = key}
FirstIn(ids) == tabs[CHOOSE n \in 1..Len(tabs) : tabs[n] \in ids /\ \A m \in 1..(n-1) : tabs[m] \notin ids]

(* activateExploreContext *)
ActivateFrom(i) ==
  /\ Become(Restore([Now EXCEPT !.ctx = SnapshotActive(ctx, active # i)], i))
  /\ UNCHANGED <<tabs, closed, waits, queries, token, saved, restored, reloads>>

(* startExploreSearch without replace: a tab with the same request is shown,
   at the limit nothing happens, else a tab is created. *)
StartSearch(key, background) ==
  \/ /\ Existing(key) # {} /\ ~background
     /\ ActivateFrom(FirstIn(Existing(key)))
  \/ LET i == Cardinality(Created) + 1
     IN  /\ Existing(key) = {} /\ Len(tabs) < MaxContexts /\ i \in Ids
         /\ tabs' = Append(tabs, i)
         /\ Submit([SnapshotActive(ctx, ~background) EXCEPT ![i].origin = Origin], i, key, background)

(* refreshCurrentView, and the retry button of a failed search: replace. *)
Refresh ==
  /\ view = "explore" /\ active # NoTab /\ ctx[active].key # "none"
  /\ Submit(ctx, active, ctx[active].key, FALSE)
  /\ UNCHANGED tabs

(* The answer of searchSubmit; isCurrent is the guard of both outcomes. *)
ShownSearch(call) == call.ctx = active /\ ctx[call.ctx].query.token = call.token   \* mutant
IsCurrentSearch(call) == call.ctx \in Opened /\ ctx[call.ctx].query.token = call.token
SubmitAnswer(call, ok) ==
  LET i == call.ctx
      q == Len(queries) + 1
      s == Start(ctx[i].session, q, 1, Total)
      t == PrefetchAdjacent(IF active = i /\ view = "explore" THEN s ELSE Park(s))
      c == IF ok THEN [ctx EXCEPT ![i].session = t,
                        ![i].query = [Submitting(call.token) EXCEPT !.phase = "ready",
                                        !.queryId = q, !.page = 1, !.of = q]]
           ELSE [ctx EXCEPT ![i].query.phase = "error"]
  IN  /\ call.kind = "submit"
      /\ queries' = IF ok THEN Append(queries, call.key) ELSE queries
      /\ IF IsCurrentSearch(call)
         THEN /\ ctx' = c /\ Publish(c, i)
              /\ calls' = (calls \ {call}) \cup Issued(i, ctx[i].session, c[i].session)
         ELSE calls' = calls \ {call} /\ UNCHANGED <<ctx, shown>>
      /\ UNCHANGED <<tabs, active, view, closed, waits, token, loads, saved, restored, reloads>>

----
(* Paging. *)

(* The pager is there once a page is, and locked while one loads. *)
PagerOffers(p) ==
  /\ view = "explore" /\ shown.page # 0 /\ shown.phase # "loading-page"
  /\ p \in 1..Total /\ p # (IF shown.pending # 0 THEN shown.pending ELSE shown.page)

(* loadExplorePage up to the await, and past it when the page is settled or
   out of the session's range. *)
LoadPage(p) ==
  LET old == ctx[active].session
      s == Open(old, p)
      loading == [shown EXCEPT !.phase = "loading-page", !.pending = p, !.load = loads + 1]
      query == CASE OutOfRange(old, p)  -> [loading EXCEPT !.phase = "error", !.pending = 0, !.load = 0]
                 [] ~OutOfRange(old, p) /\ p \in Settled(old) ->
                      [loading EXCEPT !.phase = "ready", !.pending = 0, !.load = 0, !.page = p, !.of = old.query]
                 [] OTHER -> loading
  IN  /\ active # NoTab /\ shown.queryId # NoQuery /\ PagerOffers(p) /\ loads < MaxLoads
      /\ ctx' = [ctx EXCEPT ![active].session = s, ![active].query = query]
      /\ shown' = query /\ loads' = loads + 1
      /\ calls' = calls \cup Issued(active, old, s)
      /\ waits' = waits \cup {[ctx |-> active, gen |-> s.gen, req |-> f.req, load |-> loads + 1] :
                                f \in {g \in s.flight : g.page = p /\ query = loading}}
      /\ UNCHANGED <<tabs, active, view, closed, queries, token, saved, restored, reloads>>

(* A page request answers: the session settles it, then the load that waits
   for it goes on unless its tab is closed or shows something newer. *)
PageAnswer(call, ok) ==
  LET i == call.ctx
      old == ctx[i].session
      new == IF ok THEN PageSettled(old, call, Total) ELSE PageFailed(old, call)
      mine == {w \in waits : w.ctx = i /\ w.gen = call.gen /\ w.req = call.req}
      goes == i \in Opened /\ \E w \in mine : w.load = ctx[i].query.load
      query == [ctx[i].query EXCEPT !.phase = IF ok THEN "ready" ELSE "error", !.pending = 0,
                  !.load = 0, !.page = IF ok THEN call.page ELSE @, !.of = IF ok THEN call.query ELSE @]
      c == [ctx EXCEPT ![i].session = new, ![i].query = IF goes THEN query ELSE @]
  IN  /\ call.kind = "page"
      /\ IF IsCurrentRequest(old, call)
         THEN /\ ctx' = c /\ Publish(c, i)
              /\ calls' = (calls \ {call}) \cup Issued(i, old, new)
         ELSE calls' = calls \ {call} /\ UNCHANGED <<ctx, shown>>
      /\ waits' = waits \ mine
      /\ UNCHANGED <<tabs, active, view, closed, queries, token, loads, saved, restored, reloads>>

----
(* Tabs and views. *)

Activate(i) == i \in Opened /\ view = "explore" /\ ActivateFrom(i)

IndexOf(i) == CHOOSE n \in 1..Len(tabs) : tabs[n] = i
RememberClosed(i) == Append(SubSeq(closed, IF Len(closed) > 23 THEN Len(closed) - 22 ELSE 1, Len(closed)),
                            <<i, IndexOf(i)>>)

(* closeExploreContext: the tab to the left takes over, or the empty
   viewport; then the view or tab the search was started from is restored. *)
CloseTab(i) ==
  LET rest == SelectSeq(tabs, LAMBDA j : j # i)
      q == ctx[i].query
      c == [ctx EXCEPT ![i].session = Clear(@),
                       ![i].resume = IF ctx[i].key # "none"
                                     THEN <<q.queryId, IF q.page = 0 THEN 1 ELSE q.page>> ELSE @]
      left == rest[IF IndexOf(i) > 1 THEN IndexOf(i) - 1 ELSE 1]
      gone == [Now EXCEPT !.ctx = c]
      fall == IF rest # <<>> THEN Restore(gone, left) ELSE [gone EXCEPT !.active = NoTab, !.shown = Idle]
  IN  /\ i \in Opened /\ view = "explore"
      /\ tabs' = rest /\ closed' = RememberClosed(i)
      /\ Become(IF active # i THEN gone ELSE ReturnToOrigin(fall, ctx[i].origin, ToSet(rest)))
      /\ UNCHANGED <<waits, queries, token, saved, restored, reloads>>

(* reopenClosedNavigation: the tab last closed comes back at its old place. *)
Reopen ==
  LET item == closed[Len(closed)]
      at == IF item[2] <= Len(tabs) THEN item[2] ELSE Len(tabs) + 1
  IN  /\ closed # <<>> /\ Len(tabs) < MaxContexts
      /\ closed' = SubSeq(closed, 1, Len(closed) - 1)
      /\ tabs' = InsertAt(tabs, at, item[1])
      /\ Become(Restore([Now EXCEPT !.ctx = SnapshotActive(ctx, TRUE)], item[1]))
      /\ UNCHANGED <<waits, queries, token, saved, restored, reloads>>

(* navigateView: leaving Explore parks the tab, coming back restores it. *)
Navigate(to) ==
  LET s == [Now EXCEPT !.ctx = IF view = "explore" THEN SnapshotActive(ctx, TRUE) ELSE @]
  IN  /\ to # view
      /\ Become(IF to = "explore" /\ active # NoTab THEN Restore(s, active) ELSE [s EXCEPT !.view = to])
      /\ UNCHANGED <<tabs, closed, waits, queries, token, saved, restored, reloads>>

----
(* Restoration of a tab, and of all tabs after a reload of the page. *)

HydrateCurrent(call) == call.ctx \in Opened /\ ctx[call.ctx].query.load = call.load

(* A restored tab gets its page, or gives up. *)
Hydrated(call, q, ok) ==
  LET i == call.ctx
      s == Start(ctx[i].session, q, call.page, Total)
      c == IF ok THEN [ctx EXCEPT ![i].session = IF active = i THEN s ELSE Park(s),
                        ![i].query = [Idle EXCEPT !.phase = "ready", !.queryId = q, !.page = call.page, !.of = q]]
           ELSE [ctx EXCEPT ![i].query = [@ EXCEPT !.phase = "error", !.pending = 0, !.load = 0]]
  IN  IF HydrateCurrent(call) THEN ctx' = c /\ Publish(c, i) ELSE UNCHANGED <<ctx, shown>>

(* searchPageGet of a restoration; a query the backend no longer has is
   submitted again, once. *)
GetAnswer(call, answer) ==
  /\ call.kind = "get"
  /\ IF answer = "QUERY_NOT_FOUND" /\ call.first
     THEN /\ calls' = (calls \ {call}) \cup
              {[kind |-> "resubmit", ctx |-> call.ctx, load |-> call.load,
                key |-> ctx[call.ctx].key, page |-> call.page]}
          /\ UNCHANGED <<ctx, shown>>
     ELSE calls' = calls \ {call} /\ Hydrated(call, call.query, answer = "ok")
  /\ UNCHANGED <<tabs, active, view, closed, waits, queries, token, loads, saved, restored, reloads>>

ResubmitAnswer(call, ok) ==
  LET q == Len(queries) + 1
  IN  /\ call.kind = "resubmit"
      /\ queries' = IF ok THEN Append(queries, call.key) ELSE queries
      /\ IF ok /\ call.page > 1
         THEN /\ calls' = (calls \ {call}) \cup {[kind |-> "get", ctx |-> call.ctx, load |-> call.load,
                             query |-> q, page |-> call.page, first |-> FALSE]}
              /\ UNCHANGED <<ctx, shown>>
         ELSE calls' = calls \ {call} /\ Hydrated(call, q, ok)
      /\ UNCHANGED <<tabs, active, view, closed, waits, token, loads, saved, restored, reloads>>

(* save(): the tabs that have a request, with the page they would resume at. *)
SavedTab(i) ==
  LET c == ctx[i]
  IN  [id |-> i, key |-> c.key, origin |-> c.origin,
       queryId |-> IF c.resume # <<>> /\ c.resume[1] # NoQuery THEN c.resume[1] ELSE c.query.queryId,
       page |-> CASE c.resume # <<>> -> c.resume[2]
                  [] c.resume = <<>> /\ c.query.page # 0 -> c.query.page
                  [] OTHER -> 1]
Checkpoint ==
  LET with == SelectSeq(tabs, LAMBDA i : ctx[i].key # "none")
  IN  [tabs |-> [n \in 1..Len(with) |-> SavedTab(with[n])], view |-> view,
       active |-> active]

(* What writing and reading the checkpoint leaves of it: the first tabs up to
   the limit, and an active tab that is one of them. *)
Sanitize(v) ==
  LET kept == SubSeq(v.tabs, 1, IF Len(v.tabs) < MaxContexts THEN Len(v.tabs) ELSE MaxContexts)
  IN  [v EXCEPT !.tabs = kept,
                !.active = IF \E k \in 1..Len(kept) : kept[k].id = @ THEN @
                           ELSE IF kept # <<>> THEN kept[1].id ELSE NoTab]

(* The page is reloaded: beforeunload saves the checkpoint, then everything
   goes but the checkpoint and the backend. The timer that saves every two
   seconds writes the same value and is left out. *)
Reload ==
  /\ restored /\ reloads < MaxReloads /\ reloads' = reloads + 1
  /\ loads < MaxLoads /\ loads' = loads + 1
  /\ saved' = Sanitize(Checkpoint) /\ restored' = FALSE
  /\ ctx' = [i \in Ids |-> NoContext] /\ tabs' = <<>> /\ active' = NoTab /\ view' = view
  /\ shown' = Idle /\ closed' = <<>> /\ calls' = {} /\ waits' = {}
  /\ UNCHANGED <<queries, token>>

(* The checkpoint is applied once, before the user can open a tab: every tab
   gets a new id, the one that was shown is loaded at once. *)
RestoreCheckpoint ==
  LET n == Len(saved.tabs)
      newId(id) == IF \E k \in 1..n : saved.tabs[k].id = id
                   THEN CHOOSE k \in 1..n : saved.tabs[k].id = id ELSE NoTab
      moved(origin) == IF origin = <<>> THEN <<>> ELSE <<origin[1], newId(origin[2])>>
      c == [i \in Ids |-> IF i > n THEN NoContext
              ELSE [NoContext EXCEPT !.key = saved.tabs[i].key, !.origin = moved(saved.tabs[i].origin),
                                     !.resume = <<saved.tabs[i].queryId, saved.tabs[i].page>>]]
      s == [Now EXCEPT !.ctx = c, !.active = newId(saved.active)]
  IN  /\ ~restored /\ restored' = TRUE
      /\ tabs' = [k \in 1..n |-> k]
      /\ Become(IF newId(saved.active) # NoTab /\ saved.view = "explore"
                THEN Restore(s, newId(saved.active)) ELSE s)
      /\ saved' = NoCheckpoint
      /\ UNCHANGED <<closed, waits, queries, token, reloads>>

----
UserStep ==
  \/ \E key \in Keys, background \in BOOLEAN : StartSearch(key, background)
  \/ Refresh
  \/ \E p \in 1..Total : LoadPage(p)
  \/ \E i \in Ids : Activate(i) \/ CloseTab(i)
  \/ Reopen
  \/ \E to \in {"explore", "downloads"} : Navigate(to)

Answer(call) ==
  \/ \E ok \in BOOLEAN : SubmitAnswer(call, ok) \/ PageAnswer(call, ok) \/ ResubmitAnswer(call, ok)
  \/ \E answer \in {"ok", "QUERY_NOT_FOUND", "failed"} : GetAnswer(call, answer)

Next ==
  \/ RestoreCheckpoint
  \/ restored /\ UserStep
  \/ \E call \in calls : Answer(call)
  \/ Reload

Spec == Init /\ [][Next]_vars

----
Busy(q) == q.phase \in {"submitting", "loading-page"}

(* The viewport shows the selected tab: whichever of the answers to tabs in
   the background comes in, queryRef is the query of the active context. *)
ShowsActive == shown = IF active = NoTab THEN Idle ELSE ctx[active].query

(* What a tab shows and caches answers its own search: the query belongs to
   its request, and the page it shows and every settled page to that query,
   however late the answers of an earlier search of the tab arrive. *)
ShowsOwnSearch ==
  \A i \in Opened :
    LET q == ctx[i].query
        s == ctx[i].session
    IN  /\ q.queryId # NoQuery => queries[q.queryId] = ctx[i].key
        /\ q.page # 0 => q.of = q.queryId
        /\ s.query # NoQuery => s.query = q.queryId
        /\ \A e \in ToSet(s.pages) : e.of = s.query

(* A tab that says it is busy is waited for: a call whose answer will end
   its state is under way, so a tab cannot be left loading for ever. *)
BusyIsServed ==
  \A i \in Opened :
    LET q == ctx[i].query
    IN  /\ q.phase = "submitting" =>
             \E call \in calls : call.kind = "submit" /\ call.ctx = i /\ call.token = q.token
        /\ q.phase = "loading-page" =>
             \/ \E call \in calls : call.kind \in {"get", "resubmit"} /\ call.ctx = i /\ call.load = q.load
             \/ \E w \in waits, call \in calls :
                  /\ w.ctx = i /\ w.load = q.load /\ call.kind = "page" /\ call.ctx = i
                  /\ call.gen = w.gen /\ call.req = w.req /\ IsCurrentRequest(ctx[i].session, call)

(* No lease leaks: the thumbnail client holds the covers of exactly the
   pages that own a warmup, none for a hidden or closed tab, and the cache
   stays within its window and capacity. *)
LeasesMatch ==
  \A i \in Ids :
    LET s == ctx[i].session
    IN  /\ s.held = s.warm
        /\ s.parked \/ i \notin Opened => s.held = {}
        /\ Len(s.pages) <= MaxSettledPages
        /\ \A p \in Settled(s) : Distance(p, s.cur) <= Window

====
