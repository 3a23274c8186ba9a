---- MODULE Activity ----
(***************************************************************************)
(* The activity drawer: what happened in this session (downloads, automatic*)
(* decisions, Danbooru), the stored history of automatic decisions with its*)
(* pages, counts and acknowledgements, and the badge of what is unread.    *)
(***************************************************************************)
EXTENDS Integers, Sequences, FiniteSetsExt

CONSTANTS
    Albums,
    PageSize,       \* decisions on a page of the history
    FeedSize,       \* RECENT_ACTIVITY_LIMIT
    MaxSteps,       \* things recorded or done by the user (bound)
    MaxDecisions,   \* automatic decisions (bound)
    None

States == {"queued", "verifying", "review_required", "failed", "cancelled", "completed"}
Running == {"queued", "verifying"}
\* activityNotificationStates
Notified == States \ Running

VARIABLES
    records,    \* the backend's history, oldest first: is the decision acknowledged
    told,       \* decisions the page has had the answer of
    list,       \* [items, page, total, unread, loading, error, body, count]
    reads,      \* readings of the history: [page, meta, replace, body, count, got]
    acks,       \* acknowledgements: [decision -> "sent" or "served"]
    acked,      \* decisions acknowledged, as the page was told
    counted,    \* the last reading of the counts: "no" answer yet, "yes", or a change "lost" since
    state,      \* what is recorded of a download: [Albums -> States or None], None for unknown ones
    hidden,     \* albums excluded as duplicates
    session,    \* rows of this session: [kind, of, at]
    failed,     \* automatic decisions that failed: rows with no record
    unread,     \* unreadActivityCount
    unreadIds,  \* unreadAutomaticOverlapReviewIds
    open, section,
    steps

historyVars == <<records, told, list, reads, acks, acked, counted>>
sessionVars == <<state, hidden, session, failed, unread>>
panelVars == <<open, section>>
vars == <<historyVars, sessionVars, unreadIds, panelVars, steps>>

Step == steps < MaxSteps /\ steps' = steps + 1

----
(* The stored history. *)

\* What is read replaces what was known of the same decisions.
Over(f, g) == [i \in DOMAIN f \cup DOMAIN g |-> IF i \in DOMAIN f THEN f[i] ELSE g[i]]

\* The newest decisions are on the first page.
Page(p, size) ==
    LET n == Len(records)
    IN  [i \in {j \in 1..n : n - p * size < j /\ j <= n - (p - 1) * size} |-> records[i]]
Unacknowledged == Cardinality({i \in DOMAIN records : ~records[i]})

ReadMeta(l) ==
    /\ list' = [l EXCEPT !.count = @ + 1] /\ counted' = "no"
    /\ reads' = reads \cup {[page |-> 1, meta |-> TRUE, replace |-> FALSE, body |-> 0, count |-> l.count + 1, got |-> None]}
ReadPage(p, replace) ==
    /\ list' = [list EXCEPT !.body = @ + 1, !.count = @ + 1, !.loading = TRUE, !.error = FALSE] /\ counted' = "no"
    /\ reads' = reads \cup {[page |-> p, meta |-> FALSE, replace |-> replace, body |-> list.body + 1,
                             count |-> list.count + 1, got |-> None]}
\* refreshDownloadOverlapAutomationHistory
Refresh == IF open THEN ReadPage(1, TRUE) ELSE ReadMeta(list)

ReadServed(r) ==
    /\ r.got = None
    /\ reads' = (reads \ {r}) \cup
         {[r EXCEPT !.got = [items |-> Page(r.page, IF r.meta THEN 1 ELSE PageSize), total |-> Len(records),
                             unread |-> Unacknowledged]]}
    /\ UNCHANGED <<records, told, list, acks, acked, counted, sessionVars, unreadIds, panelVars, steps>>

Answered(r) == r.got # None /\ reads' = reads \ {r} /\ UNCHANGED <<records, told, acks, acked, sessionVars, panelVars, steps>>
Counted(l, r) == [l EXCEPT !.total = r.got.total, !.unread = r.got.unread]
\* Since a change whose answer was lost nothing says what the backend counts.
Known(r) == IF r.count = list.count /\ counted # "lost" THEN "yes" ELSE counted
\* The counts are shown whichever reading they come from.
MetaAnsweredInTurn(r) ==
    /\ r.meta /\ Answered(r) /\ counted' = Known(r)
    /\ list' = Counted(list, r) /\ unreadIds' = unreadIds \ DOMAIN r.got.items
\* Only the last reading of the counts is shown.
MetaAnswered(r) ==
    /\ r.meta /\ Answered(r)
    /\ \E ok \in BOOLEAN :
         IF ok /\ r.count = list.count
         THEN list' = Counted(list, r) /\ unreadIds' = unreadIds \ DOMAIN r.got.items /\ counted' = Known(r)
         ELSE UNCHANGED <<list, unreadIds, counted>>
PageAnswered(r) ==
    /\ ~r.meta /\ Answered(r)
    /\ \E ok \in BOOLEAN :
         IF r.body # list.body THEN UNCHANGED <<list, unreadIds, counted>>
         ELSE IF ~ok THEN list' = [list EXCEPT !.error = TRUE, !.loading = FALSE] /\ UNCHANGED <<unreadIds, counted>>
         ELSE LET known == IF r.replace THEN <<>> ELSE list.items
                  l == [list EXCEPT !.items = Over(r.got.items, known), !.page = r.page, !.loading = FALSE]
              IN  /\ list' = IF r.count = list.count THEN Counted(l, r) ELSE l
                  /\ counted' = Known(r)
                  /\ unreadIds' = unreadIds \ DOMAIN r.got.items

LoadMore ==
    /\ open /\ section = "automation" /\ ~list.loading /\ Cardinality(DOMAIN list.items) < list.total /\ Step
    /\ ReadPage(list.page + 1, FALSE)
    /\ UNCHANGED <<records, told, acks, acked, sessionVars, unreadIds, panelVars>>
RetryHistory ==
    /\ open /\ section = "automation" /\ list.error /\ Step /\ ReadPage(1, TRUE)
    /\ UNCHANGED <<records, told, acks, acked, sessionVars, unreadIds, panelVars>>

\* One acknowledgement of a decision at a time.
Acknowledge(i) ==
    /\ open /\ section = "automation" /\ i \in DOMAIN list.items /\ ~list.items[i] /\ i \notin DOMAIN acks /\ Step
    /\ acks' = [j \in DOMAIN acks \cup {i} |-> IF j = i THEN "sent" ELSE acks[j]]
    /\ UNCHANGED <<records, told, list, reads, acked, counted, sessionVars, unreadIds, panelVars>>
AcknowledgeServed(i) ==
    /\ acks[i] = "sent" /\ acks' = [acks EXCEPT ![i] = "served"] /\ records' = [records EXCEPT ![i] = TRUE]
    /\ UNCHANGED <<told, list, reads, acked, counted, sessionVars, unreadIds, panelVars, steps>>
\* Refused, or served with the answer lost: nothing is read again.
AcknowledgeFails(i) ==
    /\ acks' = [j \in DOMAIN acks \ {i} |-> acks[j]]
    /\ counted' = IF acks[i] = "served" THEN "lost" ELSE counted
    /\ UNCHANGED <<records, told, list, reads, acked, sessionVars, unreadIds, panelVars, steps>>

Marked(l, i) == [l EXCEPT !.items = [j \in DOMAIN @ |-> j = i \/ @[j]], !.unread = IF @ = 0 THEN 0 ELSE @ - 1]
\* What is being read of the pages is outdated.
Acked(i) == [Marked(list, i) EXCEPT !.body = @ + 1, !.loading = FALSE]
AcknowledgeAnswered(i) ==
    /\ acks[i] = "served" /\ acks' = [j \in DOMAIN acks \ {i} |-> acks[j]] /\ acked' = acked \cup {i}
    /\ ReadMeta(Acked(i)) /\ unreadIds' = unreadIds \ {i}
    /\ UNCHANGED <<records, told, sessionVars, panelVars, steps>>

----
(* This session. *)

Noted(row) == /\ session' = {s \in session : <<s.kind, s.of>> # <<row.kind, row.of>>} \cup {row}
              /\ unread' = IF open THEN unread ELSE unread + 1
\* recordSessionDownloadActivity: the first time, and every change to a state one should know of.
Recorded(a, s) ==
    LET known == \E row \in session : row.kind = "download" /\ row.of = a
    IN  /\ state' = [state EXCEPT ![a] = s]
        /\ IF known /\ (s \notin Notified \/ s = state[a]) THEN UNCHANGED <<session, unread>>
           ELSE Noted([kind |-> "download", of |-> a, at |-> steps])
        /\ UNCHANGED <<historyVars, failed, unreadIds, panelVars>>

DownloadChanged(a, s) == Step /\ Recorded(a, s) /\ UNCHANGED hidden
Excluded(a) == a \notin hidden /\ Step /\ Recorded(a, "cancelled") /\ hidden' = hidden \cup {a}
Danbooru == /\ Step /\ Noted([kind |-> "danbooru", of |-> steps, at |-> steps])
            /\ UNCHANGED <<historyVars, state, hidden, failed, unreadIds, panelVars>>

\* An automatic decision: stored by the backend, then told to the page, which reads the history again.
Decide == /\ Len(records) < MaxDecisions /\ records' = Append(records, FALSE)
          /\ UNCHANGED <<told, list, reads, acks, acked, counted, sessionVars, unreadIds, panelVars, steps>>
DecisionTold(i) ==
    /\ i \notin told /\ told' = told \cup {i} /\ Step
    /\ session' = session \cup {[kind |-> "decision", of |-> i, at |-> steps]}
    /\ unreadIds' = IF open THEN unreadIds ELSE unreadIds \cup {i}
    /\ Refresh /\ UNCHANGED <<records, acks, acked, state, hidden, failed, unread, panelVars>>
\* A decision that failed is shown although nothing is stored.
DecisionFailed ==
    /\ ~failed /\ failed' = TRUE /\ Step
    /\ session' = session \cup {[kind |-> "decision", of |-> 0, at |-> steps]}
    /\ unreadIds' = IF open THEN unreadIds ELSE unreadIds \cup {0}
    /\ Refresh /\ UNCHANGED <<records, told, acks, acked, state, hidden, unread, panelVars>>

----
(* The drawer. *)

OpenActivity ==
    /\ ~open /\ Step /\ open' = TRUE /\ unread' = 0 /\ unreadIds' = {} /\ ReadPage(1, TRUE)
    /\ UNCHANGED <<records, told, acks, acked, state, hidden, session, failed, section>>
CloseActivity == open /\ Step /\ open' = FALSE /\ UNCHANGED <<historyVars, sessionVars, unreadIds, section>>
ShowSection(s) ==
    open /\ s # section /\ Step /\ section' = s /\ UNCHANGED <<historyVars, sessionVars, unreadIds, open>>

\* The newest rows only, old unfinished ones not kept.
Feed == {r \in session : Cardinality({s \in session : s.at > r.at}) < FeedSize}
Processed(a) == a \in hidden /\ state[a] \notin Running
Row(a) == open /\ section = "session" /\ \E r \in Feed : r.kind = "download" /\ r.of = a
RetryRow(a) == Row(a) /\ ~Processed(a) /\ state[a] \in {"failed", "cancelled"} /\ DownloadChanged(a, "queued")
CancelRow(a) == /\ Row(a) /\ ~Processed(a) /\ state[a] \in Running \cup {"review_required", "failed"}
                /\ DownloadChanged(a, "cancelled")

----
Init ==
    /\ records \in {<<>>, <<FALSE>>} /\ told = DOMAIN records
    /\ list = [items |-> <<>>, page |-> 1, total |-> 0, unread |-> 0, loading |-> FALSE, error |-> FALSE, body |-> 0, count |-> 1]
    /\ reads = {[page |-> 1, meta |-> TRUE, replace |-> FALSE, body |-> 0, count |-> 1, got |-> None]}
    /\ acks = <<>> /\ acked = {} /\ counted = "no"
    /\ state = [a \in Albums |-> None] /\ hidden = {} /\ session = {} /\ failed = FALSE /\ unread = 0 /\ unreadIds = {}
    /\ open = FALSE /\ section = "session" /\ steps = 0

Drawer == OpenActivity \/ CloseActivity \/ \E s \in {"session", "automation", "queue"} : ShowSection(s)
History ==
    \/ \E r \in reads : ReadServed(r) \/ MetaAnswered(r) \/ PageAnswered(r)
    \/ \E i \in DOMAIN list.items : Acknowledge(i)
    \/ \E i \in DOMAIN acks : AcknowledgeServed(i) \/ AcknowledgeFails(i) \/ AcknowledgeAnswered(i)
    \/ \E i \in DOMAIN records : DecisionTold(i)
    \/ LoadMore \/ RetryHistory \/ Decide \/ DecisionFailed
Session ==
    \/ \E a \in Albums : (\E s \in States : DownloadChanged(a, s)) \/ Excluded(a) \/ RetryRow(a) \/ CancelRow(a)
    \/ Danbooru

Next == Drawer \/ History \/ Session

Spec == Init /\ [][Next]_vars

----
\* Once nothing is under way and the last reading of the counts was answered, the number
\* of unacknowledged decisions shown is the backend's, whatever overtook what; the answer of
\* an acknowledgement that was lost leaves it wrong only until the next reading begins.
CountsAreTrue ==
    reads = {} /\ acks = <<>> /\ told = DOMAIN records /\ counted = "yes" => list.unread = Unacknowledged

\* A decision the user acknowledged is not shown as unacknowledged again by a page that
\* was being read before.
AcknowledgedStays == \A i \in acked \cap DOMAIN list.items : list.items[i]
====
