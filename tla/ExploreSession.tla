---- MODULE ExploreSession ----
(***************************************************************************)
(* The page cache of one Explore tab (state/explorePageSession.ts), as     *)
(* operators that take a session and return the session the method leaves. *)
(*                                                                         *)
(* A session is a record:                                                  *)
(*   gen, intent, seq   the generation, foregroundIntent, requestSequence  *)
(*   query, cur, total  the query the cache belongs to (0: none), the page *)
(*                      the user is on and the number of pages             *)
(*   pages              the settled pages, the least recently used first;  *)
(*                      "of" is the query that the answer was for          *)
(*   fails              the pages whose prefetch failed, oldest first      *)
(*   flight             the requests under way; "fore" is the priority     *)
(*   warm, held         the settled pages that own a warmup lease, and the *)
(*                      leases the thumbnail client has not got back       *)
(*   parked             the tab is hidden                                  *)
(* Scroll positions, and the covers that a hidden tab retains until it is  *)
(* shown again, are presentation data and are left out.                    *)
(***************************************************************************)
EXTENDS Naturals, Sequences, FiniteSets, SequencesExt

CONSTANT MaxSettledPages      \* maxSettledPages

NoQuery == 0
Window == 2

NewSession ==
  [gen |-> 0, intent |-> 0, seq |-> 0, query |-> NoQuery, cur |-> 0, total |-> 0,
   pages |-> <<>>, fails |-> <<>>, flight |-> {}, warm |-> {}, held |-> {},
   parked |-> FALSE]

Distance(p, q) == IF p > q THEN p - q ELSE q - p
Settled(s) == {e.n : e \in ToSet(s.pages)}
Without(pages, ns) == SelectSeq(pages, LAMBDA e : e.n \notin ns)
Touch(s, p) ==
  [s EXCEPT !.pages = Without(@, {p}) \o SelectSeq(@, LAMBDA e : e.n = p)]

ForgetWarmups(s) == [s EXCEPT !.warm = {}]           \* mutant: the leases are dropped, not released
ReleaseWarmups(s) == [s EXCEPT !.held = @ \ s.warm, !.warm = {}]

Reset(s) ==
  [ReleaseWarmups(s) EXCEPT
     !.query = NoQuery, !.cur = 0, !.total = 0, !.pages = <<>>, !.fails = <<>>,
     !.flight = {}, !.parked = FALSE]

Clear(s) == [Reset(s) EXCEPT !.gen = @ + 1]

Start(s, query, p, total) ==
  [Reset(s) EXCEPT !.gen = @ + 1, !.query = query, !.cur = p, !.total = total,
                   !.pages = <<[n |-> p, of |-> query]>>]

Park(s) ==
  IF s.parked \/ s.query = NoQuery THEN s
  ELSE ReleaseWarmups([s EXCEPT !.parked = TRUE])

(* Neighbours of the current page hold a warmup lease, nothing else does. *)
SyncWarmups(s) ==
  LET wanted == {p \in Settled(s) : Distance(p, s.cur) = 1}
  IN  IF s.parked THEN s
      ELSE [s EXCEPT !.warm = wanted, !.held = (@ \ (s.warm \ wanted)) \cup (wanted \ s.warm)]

Resume(s) == IF s.parked THEN SyncWarmups([s EXCEPT !.parked = FALSE]) ELSE s

(* The settled pages that stay: those in the window, nearest first and then
   most recently used, up to the capacity. *)
EvictSettledPages(s) ==
  LET near == {i \in 1..Len(s.pages) : Distance(s.pages[i].n, s.cur) <= Window}
      rank(i) == Distance(s.pages[i].n, s.cur)
      better(i) == {j \in near : rank(j) < rank(i) \/ (rank(j) = rank(i) /\ j > i)}
      gone == {s.pages[i].n : i \in {k \in 1..Len(s.pages) :
                 k \notin near \/ Cardinality(better(k)) >= MaxSettledPages}} \ {s.cur}
  IN  IF s.cur = 0 THEN s
      ELSE [s EXCEPT !.pages = Without(@, gone), !.warm = @ \ gone,
                     !.fails = SelectSeq(@, LAMBDA p : p \notin gone),
                     !.held = @ \ (s.warm \cap gone)]

EvictFailures(s) ==
  LET near == SelectSeq(s.fails, LAMBDA p : Distance(p, s.cur) <= Window)
      over == IF Len(near) > MaxSettledPages THEN Len(near) - MaxSettledPages ELSE 0
  IN  [s EXCEPT !.fails = SubSeq(near, over + 1, Len(near))]

OutOfRange(s, p) == s.query = NoQuery \/ p < 1 \/ p > s.total
InFlight(s, p) == \E f \in s.flight : f.page = p

(* load() for a page that is not settled: a failed prefetch is retried only
   by the user, a request under way is shared and may be promoted. *)
Request(s, p, fore) ==
  LET failed == \E i \in 1..Len(s.fails) : s.fails[i] = p
      retry  == [s EXCEPT !.fails = SelectSeq(@, LAMBDA q : q # p)]
      shared == {IF f.page = p THEN [f EXCEPT !.fore = TRUE, !.intent = s.intent] ELSE f : f \in s.flight}
      fresh  == [page |-> p, req |-> s.seq + 1, fore |-> fore,
                 intent |-> IF fore THEN s.intent ELSE 0]
  IN  CASE failed /\ ~fore          -> [retry EXCEPT !.fails = Append(@, p)]
        [] InFlight(s, p) /\ fore   -> [retry EXCEPT !.flight = shared]
        [] InFlight(s, p) /\ ~fore  -> s
        [] OTHER -> [retry EXCEPT !.flight = @ \cup {fresh}, !.seq = @ + 1]

Prefetch(s, p) ==
  IF OutOfRange(s, p) THEN s
  ELSE IF p \in Settled(s) THEN Touch(s, p) ELSE Request(s, p, FALSE)

PrefetchAdjacent(s) ==
  IF s.query = NoQuery \/ s.cur \notin Settled(s) THEN s
  ELSE Prefetch(Prefetch(s, s.cur + 1), s.cur - 1)

ActivateForeground(s, p) ==
  PrefetchAdjacent(SyncWarmups(EvictSettledPages([Touch(s, p) EXCEPT !.cur = p])))

(* open(): the intent moves even when the page is out of range. *)
Open(s, p) ==
  LET t == [s EXCEPT !.intent = @ + 1]
  IN  CASE OutOfRange(t, p)     -> t
        [] ~OutOfRange(t, p) /\ p \in Settled(t)    -> ActivateForeground(t, p)
        [] ~OutOfRange(t, p) /\ p \notin Settled(t) -> Request(t, p, TRUE)

(* The part of resolvePage() after the fetch. A call is current when the
   generation, the query and the request object are still the session's. *)
FlightOf(s, call) == CHOOSE f \in s.flight : f.page = call.page
SamePageRequest(s, call) == InFlight(s, call.page)   \* mutant: any answer for the page counts
IsCurrentRequest(s, call) ==
  /\ call.gen = s.gen /\ call.query = s.query
  /\ \E f \in s.flight : f.req = call.req /\ f.page = call.page

PageFailed(s, call) ==
  LET f == FlightOf(s, call)
      t == [s EXCEPT !.flight = @ \ {f}]
  IN  IF f.fore THEN t ELSE EvictFailures([t EXCEPT !.fails = Append(@, f.page)])

PageSettled(s, call, total) ==
  LET f == FlightOf(s, call)
      t == [s EXCEPT !.flight = @ \ {f}, !.total = total,
                     !.fails = SelectSeq(@, LAMBDA p : p # f.page),
                     !.held = @ \ (s.warm \cap {f.page}), !.warm = @ \ {f.page},
                     !.pages = Append(Without(@, {f.page}), [n |-> f.page, of |-> call.query])]
  IN  IF f.fore /\ f.intent = s.intent THEN ActivateForeground(t, f.page)
      ELSE SyncWarmups(EvictSettledPages(t))
====
