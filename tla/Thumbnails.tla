---- MODULE Thumbnails ----
(***************************************************************************)
(* Images on screen: the subscription registry (thumbnail/client.ts), the  *)
(* adapter that fetches through the coordinator of the backend and makes   *)
(* Blob URLs (thumbnail/backendAdapter.ts), and the consumers: the cards   *)
(* on screen, the covers pinned for the session, the background preloader  *)
(* and the prefetch of the next page.                                      *)
(*                                                                         *)
(* A resolution is known by the number of its request; so is its URL.      *)
(***************************************************************************)
EXTENDS Integers, Sequences, FiniteSets, FiniteSetsExt, Functions

CONSTANTS Keys, Consumers, \* of {"card", "page", "pin", "warm"}
          Kind,        \* key -> "gallery", "source-page", "overlap-review-page"
          Cost,        \* key -> thumbnailMemoryCost of its image
          Capacity, RetainBudget, \* RETAINED_ASSET_CAPACITY, RETAINED_ASSET_BYTE_BUDGET
          PinCapacity, PinBudget, \* SESSION_GALLERY_COVER_CAPACITY, SESSION_GALLERY_COVER_BYTE_BUDGET
          Concurrency, \* of the preloader
          MaxRequests, \* bound on the resolutions started
          MaxChanges   \* bound on the changes of the backend's images

VARIABLES entry,    \* key -> Entry of the client
          pending,  \* request -> PendingResolution of the adapter
          owner,    \* key -> pendingByIdentity, or 0
          urls,     \* Blob URLs created and not revoked
          data,     \* backend: how often the image of a key has changed
          fence,    \* key -> data when the client was last told to drop its image
          retained, \* keys whose image is kept without a consumer, oldest first
          pins,     \* session retainer: key -> bytes accounted, or -1 when not pinned
          visited,  \* the pinned keys, the one visited last at the end
          bytes,    \* its retainedBytesValue
          warm,     \* preloader: key -> status
          active    \* its count of loading covers

vars == <<entry, pending, owner, urls, data, fence, retained, pins, visited, bytes, warm, active>>
consumers == <<pins, visited, bytes, warm, active>>

Absent == [on |-> FALSE, subs |-> {}, current |-> 0, status |-> "idle", retryable |-> FALSE,
           hurried |-> FALSE, failures |-> 0, orphan |-> FALSE, retry |-> FALSE]

Init == /\ entry = [k \in Keys |-> Absent] /\ pending = <<>> /\ owner = [k \in Keys |-> 0]
        /\ urls = {} /\ data = [k \in Keys |-> 0] /\ fence = data /\ retained = <<>>
        /\ pins = [k \in Keys |-> -1] /\ visited = <<>> /\ bytes = 0
        /\ warm = [k \in Keys |-> "out"] /\ active = 0

\* What remains of a list, in its order.
Without(s, ks) ==
  LET left[i \in 0 .. Len(s)] ==
        IF i = 0 THEN <<>> ELSE IF s[i] \notin ks THEN Append(left[i-1], s[i]) ELSE left[i-1]
  IN  left[Len(s)]

----
(* The adapter: what cancelling, releasing and resolving do to it. *)

NewPending(k) ==
  [key |-> k, stage |-> "asked", cancelled |-> FALSE, early |-> FALSE, since |-> data[k], image |-> 0,
   failure |-> "none"]

\* What is settled keeps its image only.
Done(rec) == [rec EXCEPT !.stage = "done", !.cancelled = FALSE, !.early = FALSE, !.since = 0,
                         !.failure = "none"]

\* cancel: a request that waits for its event forgets it; an answer or a read
\* that is under way finds it cancelled.
Cancel(rec) == IF rec.stage = "wait" THEN Done(rec)
               ELSE [rec EXCEPT !.cancelled = TRUE, !.early = FALSE]

Cancelled(ks) == [p \in DOMAIN pending |-> IF \E k \in ks : p = owner[k] THEN Cancel(pending[p])
                                           ELSE pending[p]]

\* adapter.resolve after what was under way is `before`.
Resolve(k, e, before) ==
  /\ Len(pending) < MaxRequests
  /\ pending' = Append(before, NewPending(k))
  /\ owner' = [owner EXCEPT ![k] = Len(before) + 1]
  /\ entry' = [entry EXCEPT ![k] = [e EXCEPT !.status = "loading", !.current = Len(before) + 1,
                                             !.retry = FALSE]]

----
(* The client. *)

\* cleanup: the entry goes, with its request or its image.
Gone(ks) ==
  LET loading == {k \in ks : entry[k].status = "loading"}
      resolved == {k \in ks : entry[k].status = "resolved"}
  IN  /\ entry' = [k \in Keys |-> IF k \in ks THEN Absent ELSE entry[k]]
      /\ pending' = Cancelled(loading)
      /\ owner' = [k \in Keys |-> IF k \in loading THEN 0 ELSE owner[k]]
      /\ urls' = urls \ {entry[k].current : k \in resolved}
      /\ retained' = Without(retained, ks)

ClientOnly == UNCHANGED <<data, fence>> /\ UNCHANGED consumers

BeginRetry(k, e) == Resolve(k, [e EXCEPT !.retryable = FALSE], pending)

\* The last one to leave starts the grace period.
Left(e, c) == [e EXCEPT !.subs = @ \ {c}, !.orphan = (e.subs = {c}) \/ @]

\* The entries when the pins of ks are let go.
Released(es, ks) == [k \in Keys |-> IF k \in ks THEN Left(es[k], "pin") ELSE es[k]]

\* The entry with one more consumer: a new one asks, one that failed is to ask again.
Joined(k, c) == [entry[k] EXCEPT !.on = TRUE, !.subs = @ \cup {c}, !.orphan = FALSE]
Failing(k) == entry[k].status = "error" /\ entry[k].retryable
Hurries(k, c) == Failing(k) /\ c = "card" /\ ~entry[k].hurried
Asking(k, e) == [e EXCEPT !.status = "loading", !.current = Len(pending) + 1, !.retry = FALSE]
Subscribed(k, c) ==
  IF ~entry[k].on THEN Asking(k, Joined(k, c))
  ELSE IF Hurries(k, c) THEN Asking(k, [Joined(k, c) EXCEPT !.hurried = TRUE, !.retryable = FALSE])
  ELSE [Joined(k, c) EXCEPT !.retry = Failing(k) \/ @]

\* A consumer that is no prefetch hurries the retry of a failed image, once.  The pins
\* of out are let go with it.
SubscribeFor(k, c, out) ==
  /\ c \in Consumers /\ c \notin entry[k].subs
  /\ entry' = Released([entry EXCEPT ![k] = Subscribed(k, c)], out)
  /\ IF ~entry[k].on \/ Hurries(k, c)
     THEN /\ Len(pending) < MaxRequests /\ pending' = Append(pending, NewPending(k))
          /\ owner' = [owner EXCEPT ![k] = Len(pending) + 1]
     ELSE UNCHANGED <<pending, owner>>
  /\ retained' = Without(retained, {k}) /\ UNCHANGED urls
Subscribe(k, c) == SubscribeFor(k, c, {})

\* A page of evidence goes with its last consumer.
Unsubscribe(k, c) ==
  /\ c \in entry[k].subs
  /\ IF entry[k].subs = {c} /\ Kind[k] = "overlap-review-page" THEN Gone({k})
     ELSE /\ entry' = [entry EXCEPT ![k] = Left(@, c)]
          /\ UNCHANGED <<pending, owner, urls, retained>>

RetainsDisplayHandle(k) == Kind[k] \notin {"source-page", "overlap-review-page"}

\* evictRetainedEntries: of what is kept without a consumer the oldest go, as far as there
\* are too many or they are too large together.
Weight(s, i) == FoldSet(LAMBDA j, acc : acc + Cost[s[j]], 0, i .. Len(s))
Excess(s) == {s[i] : i \in {j \in 1 .. Len(s) : Len(s) - j >= Capacity \/ Weight(s, j) > RetainBudget}}

\* After the grace period an image is retained; anything else is given up.
OrphanTimer(k) ==
  LET kept == Append(retained, k)
      out == Excess(kept)
  IN  /\ entry[k].orphan /\ entry[k].subs = {}
      /\ IF entry[k].status # "resolved" \/ ~RetainsDisplayHandle(k) THEN Gone({k})
         ELSE /\ entry' = [j \in Keys |-> IF j \in out THEN Absent
                                          ELSE IF j = k THEN [entry[k] EXCEPT !.orphan = FALSE] ELSE entry[j]]
              /\ retained' = Without(kept, out)
              /\ urls' = urls \ {entry[j].current : j \in out}
              /\ UNCHANGED <<pending, owner>>
      /\ ClientOnly

RetainedTimer(k) == k \in Range(retained) /\ entry[k].subs = {} /\ Gone({k}) /\ ClientOnly

RetryTimer(k) ==
  /\ entry[k].retry /\ entry[k].subs # {} /\ entry[k].retryable /\ entry[k].status = "error"
  /\ BeginRetry(k, entry[k]) /\ UNCHANGED <<urls, retained>> /\ ClientOnly

ClearRetainedCache ==
  LET idle == {k \in Keys : entry[k].on /\ entry[k].subs = {} /\ entry[k].status = "resolved"
                         /\ RetainsDisplayHandle(k)}
  IN  idle # {} /\ Gone(idle) /\ ClientOnly

\* The backend's image changes; once told, the client fences off what is under way.
Change(k) == /\ data[k] < MaxChanges /\ data' = [data EXCEPT ![k] = @ + 1]
             /\ UNCHANGED <<entry, pending, owner, urls, fence, retained>> /\ UNCHANGED consumers

\* Mutant: a request under way is left to finish with the image it asked for.
InvalidateShown(k) ==
  LET e == entry[k]
  IN  /\ e.on /\ fence[k] # data[k] /\ fence' = [fence EXCEPT ![k] = data[k]]
      /\ IF e.status = "loading" THEN UNCHANGED <<entry, pending, owner, urls, retained>>
         ELSE IF e.subs = {} THEN Gone({k})
         ELSE /\ Resolve(k, e, pending) /\ urls' = urls \ {e.current} /\ UNCHANGED retained
      /\ UNCHANGED data /\ UNCHANGED consumers

Invalidate(k) ==
  LET e == entry[k]
  IN  /\ e.on /\ fence[k] # data[k] /\ fence' = [fence EXCEPT ![k] = data[k]]
      /\ IF e.subs = {} THEN Gone({k})
         ELSE /\ Resolve(k, [e EXCEPT !.retryable = FALSE, !.hurried = FALSE, !.failures = 0],
                         IF e.status = "loading" THEN Cancelled({k}) ELSE pending)
              /\ urls' = IF e.status = "resolved" THEN urls \ {e.current} ELSE urls
              /\ UNCHANGED retained
      /\ UNCHANGED data /\ UNCHANGED consumers

\* The webview could not show it: the image goes, one retry is made.
ReportDisplayFailure(k) ==
  LET e == entry[k]
  IN  /\ e.status \in {"loading", "resolved"} /\ "card" \in e.subs /\ e.failures < 2
      /\ entry' = [entry EXCEPT ![k] = [e EXCEPT !.status = "error", !.failures = @ + 1,
                                                 !.retryable = (e.failures = 0), !.retry = (e.failures = 0)]]
      /\ urls' = IF e.status = "resolved" THEN urls \ {e.current} ELSE urls
      /\ UNCHANGED <<pending, owner, retained>> /\ ClientOnly

----
(* What comes back from the backend. *)

Settle(p, rec, drop) ==
  /\ pending' = [pending EXCEPT ![p] = rec]
  /\ owner' = IF drop /\ owner[rec.key] = p THEN [owner EXCEPT ![rec.key] = 0] ELSE owner
  /\ UNCHANGED <<entry, retained>> /\ ClientOnly

Rejected(rec, why) == [Done(rec) EXCEPT !.stage = "reject", !.failure = why]

\* thumbnailRequest answers with the id; a completion that was faster is taken up.
RequestAnswered(p) ==
  LET rec == pending[p]
  IN  /\ rec.stage = "asked" /\ UNCHANGED urls
      /\ \/ rec.cancelled /\ Settle(p, Done(rec), FALSE)
         \/ ~rec.cancelled /\ Settle(p, [rec EXCEPT !.stage = IF rec.early THEN "read" ELSE "wait"], FALSE)
         \/ ~rec.cancelled /\ Settle(p, Rejected(rec, "final"), TRUE)

\* thumbnail:ready, with the image as it was at some time since the request.
Completed(p) ==
  LET rec == pending[p]
  IN  /\ rec.stage \in {"asked", "wait"} /\ ~rec.cancelled /\ ~rec.early /\ UNCHANGED urls
      /\ rec.stage = "asked" => owner[rec.key] = p
      /\ \/ \E image \in rec.since..data[rec.key] :
              Settle(p, [rec EXCEPT !.image = image, !.early = (rec.stage = "asked"),
                                    !.stage = IF rec.stage = "asked" THEN "asked" ELSE "read"], FALSE)
         \/ rec.stage = "wait" /\ \E why \in {"retryable", "final"} : Settle(p, Rejected(rec, why), TRUE)

\* The bytes are read; only a request still wanted makes a URL of them.
BytesRead(p) ==
  LET rec == pending[p]
  IN  /\ rec.stage = "read"
      /\ \/ rec.cancelled /\ Settle(p, Done(rec), TRUE) /\ UNCHANGED urls
         \/ /\ ~rec.cancelled /\ urls' = urls \cup {p}
            /\ Settle(p, [Done(rec) EXCEPT !.stage = "then"], TRUE)
         \/ ~rec.cancelled /\ Settle(p, Rejected(rec, "retryable"), TRUE) /\ UNCHANGED urls

CompletionTimeout(p) ==
  LET rec == pending[p]
  IN  /\ rec.stage \in {"asked", "wait", "read"} /\ ~rec.cancelled
      /\ Settle(p, Rejected(rec, "retryable"), TRUE) /\ UNCHANGED urls

\* Mutant: an image nobody waits for is dropped without being released.
DeliveredOrDropped(p) ==
  LET rec == pending[p]
  IN  /\ rec.stage = "then" /\ pending' = [pending EXCEPT ![p] = Done(rec)]
      /\ entry' = IF entry[rec.key].on /\ entry[rec.key].current = p
                  THEN [entry EXCEPT ![rec.key].status = "resolved", ![rec.key].retryable = FALSE] ELSE entry
      /\ UNCHANGED <<owner, urls, retained>> /\ ClientOnly

\* The promise of a resolution: an image nobody waits for any more is released.
Delivered(p) ==
  LET rec == pending[p]
      wanted == entry[rec.key].on /\ entry[rec.key].current = p
  IN  /\ rec.stage = "then"
      /\ pending' = [pending EXCEPT ![p] = Done(rec)]
      /\ IF wanted
         THEN /\ entry' = [entry EXCEPT ![rec.key].status = "resolved", ![rec.key].retryable = FALSE,
                                        ![rec.key].retry = FALSE, ![rec.key].hurried = FALSE]
              /\ UNCHANGED urls
         ELSE urls' = urls \ {p} /\ UNCHANGED entry
      /\ UNCHANGED <<owner, retained>> /\ ClientOnly

Failed(p) ==
  LET rec == pending[p]
      again == rec.failure = "retryable"
  IN  /\ rec.stage = "reject"
      /\ pending' = [pending EXCEPT ![p] = Done(rec)]
      /\ entry' = IF entry[rec.key].on /\ entry[rec.key].current = p
                  THEN [entry EXCEPT ![rec.key].status = "error", ![rec.key].retryable = again,
                                     ![rec.key].retry = again /\ entry[rec.key].subs # {}]
                  ELSE entry
      /\ UNCHANGED <<owner, urls, retained>> /\ ClientOnly

----
(* The consumers.  A card subscribes while it is near the viewport. *)

EnterView(k) == Subscribe(k, "card") /\ ClientOnly
LeaveView(k) == Unsubscribe(k, "card") /\ ClientOnly

\* The current page is subscribed at once, the next one when all of it is settled.
PrefetchPage(k) ==
  /\ \A j \in Keys : j < k => entry[j].status \in {"resolved", "error"} /\ "page" \in entry[j].subs
  /\ Subscribe(k, "page") /\ ClientOnly
LeavePage(k) == Unsubscribe(k, "page") /\ ClientOnly

\* GalleryCoverSessionRetainer: the pins after the image of k, if there is one, is accounted
\* for, in the order of the visits; with an image go the oldest while they exceed the budget,
\* then any while there are too many.  One that failed is let go.
Held(k) == [pins EXCEPT ![k] = IF entry[k].status = "resolved" THEN Cost[k] ELSE Max({0, @})]
Bytes(k) == bytes - Max({0, pins[k]}) + Held(k)[k]
Sum(held, ks) == FoldSet(LAMBDA k, acc : acc + held[k], 0, ks)
Evicted(k, list) ==
  LET large == SelectSeq(list, LAMBDA j : Held(k)[j] > 0)
      heavy == {large[i] : i \in {j \in 1 .. Len(large) :
                                    Bytes(k) - Sum(Held(k), {large[m] : m \in 1 .. j - 1}) > PinBudget}}
      rest == Without(list, heavy)
  IN  IF entry[k].status = "error" THEN {k}
      ELSE heavy \cup {rest[i] : i \in {j \in 1 .. Len(rest) : Len(rest) - j >= PinCapacity}}
Retain(k, list) ==
  LET out == Evicted(k, list)
  IN  /\ pins' = [j \in Keys |-> IF j \in out THEN -1 ELSE Held(k)[j]]
      /\ visited' = Without(list, out)
      /\ bytes' = Max({0, Bytes(k) - Sum(Held(k), out)})

\* visit: the cover becomes the one visited last.
Latest(k) == Append(Without(visited, {k}), k)
Visit(k) ==
  /\ pins[k] = -1 /\ SubscribeFor(k, "pin", Evicted(k, Latest(k))) /\ Retain(k, Latest(k))
  /\ UNCHANGED <<data, fence, warm, active>>
VisitAgain(k) ==
  /\ pins[k] # -1 /\ Retain(k, Latest(k)) /\ entry' = Released(entry, Evicted(k, Latest(k)))
  /\ UNCHANGED <<pending, owner, urls, data, fence, retained, warm, active>>

\* settle, when an image or its failure comes later.
PinSettled(k) ==
  /\ pins[k] # -1 /\ (entry[k].status = "error" \/ (entry[k].status = "resolved" /\ pins[k] # Cost[k]))
  /\ Retain(k, visited) /\ entry' = Released(entry, Evicted(k, visited))
  /\ UNCHANGED <<pending, owner, urls, data, fence, retained, warm, active>>

ClearPins ==
  /\ visited # <<>> /\ entry' = Released(entry, Range(visited))
  /\ pins' = [k \in Keys |-> -1] /\ visited' = <<>> /\ bytes' = 0
  /\ UNCHANGED <<pending, owner, urls, data, fence, retained, warm, active>>

\* GalleryCoverBackgroundPreloader.update: covers that left the list stop counting.
Update(items) ==
  LET out == {k \in Keys \ items : warm[k] # "out"}
  IN  /\ warm' = [k \in Keys |-> IF k \notin items THEN "out" ELSE IF warm[k] = "out" THEN "queued" ELSE warm[k]]
      /\ warm' # warm
      /\ active' = active - Cardinality({k \in out : warm[k] = "loading"})
      /\ entry' = [k \in Keys |-> IF k \in out /\ "warm" \in entry[k].subs THEN Left(entry[k], "warm")
                                  ELSE entry[k]]
      /\ UNCHANGED <<pending, owner, urls, data, fence, retained, pins, visited, bytes>>

Pump(k) ==
  /\ active < Concurrency /\ warm[k] = "queued" /\ Subscribe(k, "warm")
  /\ warm' = [warm EXCEPT ![k] = "loading"] /\ active' = active + 1
  /\ UNCHANGED <<data, fence, pins, visited, bytes>>

\* settle: a loaded cover is visited by the retainer before it is let go.
WarmSettled(k) ==
  LET pinned == [entry[k] EXCEPT !.subs = @ \cup {"pin"}, !.orphan = FALSE]
  IN  /\ warm[k] = "loading" /\ entry[k].status \in {"resolved", "error"}
      /\ warm' = [warm EXCEPT ![k] = "settled"] /\ active' = active - 1
      /\ IF entry[k].status = "error"
         THEN entry' = [entry EXCEPT ![k] = Left(@, "warm")] /\ UNCHANGED <<pins, visited, bytes>>
         ELSE /\ entry' = Released([entry EXCEPT ![k] = Left(pinned, "warm")], Evicted(k, Latest(k)))
              /\ Retain(k, Latest(k))
      /\ UNCHANGED <<pending, owner, urls, data, fence, retained>>

Next == \/ \E k \in Keys :
             \/ OrphanTimer(k) \/ RetainedTimer(k) \/ RetryTimer(k) \/ Change(k) \/ Invalidate(k)
             \/ ReportDisplayFailure(k) \/ EnterView(k) \/ LeaveView(k)
             \/ PrefetchPage(k) \/ LeavePage(k) \/ Visit(k) \/ VisitAgain(k) \/ PinSettled(k) \/ Pump(k) \/ WarmSettled(k)
        \/ \E p \in DOMAIN pending :
             \/ RequestAnswered(p) \/ Completed(p) \/ BytesRead(p) \/ CompletionTimeout(p)
             \/ Delivered(p) \/ Failed(p)
        \/ \E items \in SUBSET Keys : Update(items)
        \/ ClearRetainedCache \/ ClearPins

Spec == Init /\ [][Next]_vars

----
\* An image on screen is never older than the last change the client was told
\* of, and its URL has not been revoked, whatever completions arrive late.
ImageIsCurrent ==
  \A k \in Keys : entry[k].on /\ entry[k].status = "resolved"
     => /\ entry[k].current \in urls
        /\ pending[entry[k].current].image >= fence[k]

\* No Blob URL is lost: each one not revoked is the image of an entry or is
\* about to be delivered.
NoUrlIsLost ==
  \A p \in urls : \/ pending[p].stage = "then"
                  \/ \E k \in Keys : entry[k].on /\ entry[k].status = "resolved" /\ entry[k].current = p

\* The background consumers keep count: the preloader's slots are the covers it loads,
\* the retainer's bytes those of the covers it pins, and neither of them is over its limits.
WarmersKeepCount ==
  /\ active = Cardinality({k \in Keys : warm[k] = "loading"}) /\ active <= Concurrency
  /\ bytes = FoldSet(LAMBDA k, acc : acc + Max({0, pins[k]}), 0, Keys) /\ bytes <= PinBudget
  /\ Len(visited) <= PinCapacity
  /\ \A k \in Keys : (pins[k] # -1 <=> "pin" \in entry[k].subs)
                      /\ (warm[k] = "loading" <=> "warm" \in entry[k].subs)
====
