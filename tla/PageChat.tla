---- MODULE PageChat ----
(***************************************************************************)
(* The chat that is recorded with a broadcast: the observer of the page's  *)
(* chat socket and of the number of viewers (browser_page_chat.js), the    *)
(* drain before a recording is finished (browser_capture.js) and the       *)
(* native log (browser.rs).                                                *)
(*                                                                         *)
(* Messages are numbered as the socket delivers them.  A sample of the     *)
(* viewers has the number of the broadcast it counts, or 0 when there is   *)
(* no count.  Of a status only matters whether it admits a gap.            *)
(***************************************************************************)
EXTENDS Naturals, Sequences, FiniteSets

CONSTANTS None,           \* no observation
          BatchSize,      \* MAX_BATCH_EVENTS
          MaxQueue,       \* what fits between the socket and the log
          MaxTries,       \* times a batch is sent
          Room,           \* capacity of the chat lane
          MaxRecordings,  \* bound: recordings
          MaxMessages,    \* bound: messages
          MaxSamples,     \* bound: viewer requests
          MaxPulses,      \* bound: repeated status reports
          MaxFaults       \* bound: timeouts, busy lanes, disk errors, interruptions

VARIABLES chat,  \* the observer's `active`
          rec,   \* the page's side of the recording that goes on
          lane,  \* batches and status reports on their way
          host,  \* the native recording and the state of its log
          kept,  \* what was stored for each recording, and how it is described
          got,   \* the messages the socket delivered while each was observed
          used   \* what has been used of the bounds

vars == <<chat, rec, lane, host, kept, got, used>>

Recordings == 1..MaxRecordings
Observing == chat # None
Message(n) == <<"message", n>>
Sample(b) == <<"viewers", b>>

Init ==
  /\ chat = None /\ lane = <<>>
  /\ rec = [number |-> 0, stage |-> "over", summary |-> FALSE, reply |-> "none"]
  /\ host = [recording |-> 0, gap |-> FALSE, last |-> <<0, <<>>>>, broken |-> FALSE]
  /\ kept = [r \in Recordings |-> [items |-> <<>>, gap |-> FALSE, finished |-> FALSE, untold |-> FALSE]]
  /\ got = [r \in Recordings |-> <<>>]
  /\ used = [messages |-> 0, samples |-> 0, pulses |-> 0, faults |-> 0]

Fault == used.faults < MaxFaults /\ used' = [used EXCEPT !.faults = @ + 1]

----
(* Reports. *)

Report(r, gap, live) == [kind |-> "status", recording |-> r, id |-> 0, items |-> <<>>, gap |-> gap, live |-> live]

\* The lane when nobody waits for the requests of a kind any more.
Abandoned(kind) == [i \in DOMAIN lane |-> [lane[i] EXCEPT !.live = @ /\ lane[i].kind # kind]]

\* notify(): a report nobody waits for; a full lane drops it, and a gap may remain untold.
Tell(r, gap) ==
  IF Len(lane) < Room
  THEN lane' = Append(lane, Report(r, gap, FALSE)) /\ UNCHANGED kept
  ELSE UNCHANGED lane /\ kept' = [kept EXCEPT ![r].untold = @ \/ gap]

\* fail(): the observation takes nothing more and drops what waits.
Failed(c) == [c EXCEPT !.failed = TRUE, !.accepting = FALSE, !.asked = FALSE, !.queue = <<>>]

\* pulse(), every 15 seconds: the last report again, or a gap when nothing has been stored
\* for 45 seconds although something waits.
Pulse ==
  /\ Observing /\ chat.accepting /\ used.pulses < MaxPulses
  /\ used' = [used EXCEPT !.pulses = @ + 1]
  /\ \E stalled \in BOOLEAN :
       /\ stalled => chat.queue \o chat.batch # <<>>
       /\ chat' = [chat EXCEPT !.gap = @ \/ stalled] /\ Tell(chat.recording, chat.gap \/ stalled)
  /\ UNCHANGED <<rec, host, got>>

----
(* The socket and the viewers. *)

Load(c) == Len(c.frames) + Len(c.queue) + Len(c.batch)

\* receive() of a frame of n messages; kind says what decoding it will show.
Receive(kind, n) ==
  LET new == [i \in 1..n |-> used.messages + i]
      c == [chat EXCEPT !.gap = TRUE]
  IN  /\ Observing /\ chat.accepting /\ used.messages + n <= MaxMessages
      /\ used' = [used EXCEPT !.messages = @ + n]
      /\ got' = [got EXCEPT ![chat.recording] = @ \o new]
      /\ \/ /\ kind = "unsupported" /\ chat' = c /\ Tell(chat.recording, TRUE)
         \/ /\ kind # "unsupported" /\ Load(chat) >= MaxQueue
            /\ chat' = Failed(chat) /\ Tell(chat.recording, TRUE)
         \/ /\ kind # "unsupported" /\ Load(chat) < MaxQueue
            /\ chat' = [chat EXCEPT !.frames =
                 Append(@, [kind |-> kind, items |-> [i \in 1..n |-> Message(new[i])]])]
            /\ UNCHANGED <<lane, kept>>
      /\ UNCHANGED <<rec, host>>

\* The socket closes while it is observed.
ConnectionGap ==
  /\ Observing /\ chat.accepting /\ ~chat.gap
  /\ chat' = [chat EXCEPT !.gap = TRUE] /\ Tell(chat.recording, TRUE)
  /\ UNCHANGED <<rec, host, got, used>>

\* The decode queue takes its frames in order.
Decode ==
  LET f == chat.frames[1]
      c == [chat EXCEPT !.frames = Tail(@)]
  IN  /\ Observing /\ chat.frames # <<>>
      /\ \/ chat.failed /\ chat' = c /\ UNCHANGED <<lane, kept>>
         \/ /\ ~chat.failed /\ f.kind = "messages"
            /\ IF Load(c) + Len(f.items) > MaxQueue
               THEN chat' = Failed(c) /\ Tell(c.recording, TRUE)
               ELSE \E truncated \in BOOLEAN :
                      LET gap == c.gap \/ truncated
                      IN  /\ chat' = [c EXCEPT !.queue = @ \o f.items, !.gap = gap, !.receiving = ~gap]
                          /\ IF ~truncated /\ (c.gap \/ c.receiving) THEN UNCHANGED <<lane, kept>>
                             ELSE Tell(c.recording, truncated)
         \/ /\ ~chat.failed /\ f.kind = "invalid"
            /\ chat' = [c EXCEPT !.gap = TRUE] /\ Tell(c.recording, TRUE)
         \/ /\ ~chat.failed /\ f.kind = "viewers"
            /\ chat' = IF Load(c) >= MaxQueue THEN c ELSE [c EXCEPT !.queue = @ \o f.items]
            /\ UNCHANGED <<lane, kept>>
      /\ UNCHANGED <<rec, host, got, used>>

\* sampleViewers(): one request at a time.
AskViewers ==
  /\ Observing /\ chat.accepting /\ ~chat.asked /\ used.samples < MaxSamples
  /\ used' = [used EXCEPT !.samples = @ + 1] /\ chat' = [chat EXCEPT !.asked = TRUE, !.moved = FALSE]
  /\ UNCHANGED <<rec, lane, host, kept, got>>

\* A seek, or another source: what is counted no longer belongs to the moment of the question.
SourceMoves ==
  /\ Observing /\ chat.asked /\ ~chat.moved /\ chat' = [chat EXCEPT !.moved = TRUE]
  /\ UNCHANGED <<rec, lane, host, kept, got, used>>

\* The count of broadcast b, or none (b = 0): only the broadcast counted first is kept.
ViewersAnswered(b) ==
  LET valid == b # 0 /\ ~chat.moved
      first == IF valid /\ chat.broadcast = 0 THEN b ELSE chat.broadcast
      counted == IF valid /\ first = b THEN b ELSE 0
  IN  /\ Observing /\ chat.asked
      /\ chat' = [chat EXCEPT !.asked = FALSE, !.moved = FALSE, !.broadcast = first,
                    !.frames = Append(@, [kind |-> "viewers", items |-> <<Sample(counted)>>])]
      /\ UNCHANGED <<rec, lane, host, kept, got, used>>

----
(* Batches. *)

\* pump(): one batch at a time, with the next number.
Pump ==
  LET n == IF Len(chat.queue) < BatchSize THEN Len(chat.queue) ELSE BatchSize
  IN  /\ Observing /\ chat.batch = <<>> /\ ~chat.failed /\ chat.queue # <<>>
      /\ chat' = [chat EXCEPT !.batch = SubSeq(chat.queue, 1, n), !.id = @ + 1, !.try = 1,
                    !.queue = SubSeq(chat.queue, n + 1, Len(chat.queue))]
      /\ UNCHANGED <<rec, lane, host, kept, got, used>>

SendBatch ==
  /\ Observing /\ chat.batch # <<>> /\ ~chat.sent /\ chat.reply = "none" /\ Len(lane) < Room
  /\ lane' = Append(lane, [kind |-> "batch", recording |-> chat.recording, id |-> chat.id,
                           items |-> chat.batch, gap |-> FALSE, live |-> TRUE])
  /\ chat' = [chat EXCEPT !.sent = TRUE]
  /\ UNCHANGED <<rec, host, kept, got, used>>

\* BRIDGE_BUSY, or BROWSER_ACK_TIMEOUT of a batch that may still be served.
BatchLost ==
  /\ Observing /\ chat.batch # <<>>
  /\ \/ ~chat.sent /\ chat.reply = "none" /\ (IF Len(lane) < Room THEN Fault ELSE UNCHANGED used) /\ UNCHANGED lane
     \/ /\ chat.sent /\ Fault
        /\ lane' = Abandoned("batch")
  /\ chat' = [chat EXCEPT !.sent = FALSE, !.reply = "lost"]
  /\ UNCHANGED <<rec, host, kept, got>>

BatchAnswered ==
  LET c == [chat EXCEPT !.sent = FALSE, !.reply = "none", !.batch = <<>>]
  IN  /\ Observing /\ chat.reply # "none"
      /\ \/ chat.reply = "ok" /\ chat' = c /\ UNCHANGED <<lane, kept>>
         \/ /\ chat.reply = "lost" /\ chat.try < MaxTries
            /\ chat' = [c EXCEPT !.batch = chat.batch, !.try = @ + 1] /\ UNCHANGED <<lane, kept>>
         \/ /\ chat.reply = "error" \/ (chat.reply = "lost" /\ chat.try = MaxTries)
            /\ chat' = Failed(c) /\ IF chat.failed THEN UNCHANGED <<lane, kept>> ELSE Tell(c.recording, TRUE)
      /\ UNCHANGED <<rec, host, got, used>>

----
(* The recording: begin, drain and finish. *)

\* The native begin and the page's start(): the observer takes one recording at a time.
Begin ==
  LET r == rec.number + 1 IN
  /\ rec.stage = "over" /\ host.recording = 0 /\ r <= MaxRecordings
  /\ host' = [recording |-> r, gap |-> FALSE, last |-> <<0, <<>>>>, broken |-> FALSE]
  /\ IF Observing
     THEN /\ rec' = [number |-> r, stage |-> "unobserved", summary |-> FALSE, reply |-> "none"]
          /\ Tell(r, TRUE) /\ UNCHANGED chat
     ELSE /\ rec' = [number |-> r, stage |-> "on", summary |-> FALSE, reply |-> "none"]
          /\ chat' = [recording |-> r, accepting |-> TRUE, stopping |-> FALSE, failed |-> FALSE, gap |-> FALSE, receiving |-> FALSE,
                      frames |-> <<>>, queue |-> <<>>, batch |-> <<>>, id |-> 0, try |-> 1, sent |-> FALSE,
                      reply |-> "none", asked |-> FALSE, moved |-> FALSE, broadcast |-> 0]
          /\ Tell(r, FALSE)
  /\ UNCHANGED <<got, used>>

\* drainChat(): the summary is read, then the observer stops taking messages.
StopChat ==
  /\ rec.stage = "on" /\ rec' = [rec EXCEPT !.stage = "stopping", !.summary = chat.failed \/ chat.gap]
  /\ chat' = [chat EXCEPT !.accepting = FALSE, !.stopping = TRUE, !.asked = FALSE]
  /\ UNCHANGED <<lane, host, kept, got, used>>

\* stop() has decoded and sent everything; the drain goes on unless it was given up.
StopEnds ==
  /\ Observing /\ chat.stopping /\ chat.frames = <<>> /\ chat.batch = <<>> /\ (chat.failed \/ chat.queue = <<>>)
  /\ chat' = None
  /\ rec' = IF rec.stage = "stopping" /\ rec.number = chat.recording THEN [rec EXCEPT !.stage = "stopped"] ELSE rec
  /\ IF chat.failed THEN UNCHANGED <<lane, kept>> ELSE Tell(chat.recording, chat.gap)
  /\ UNCHANGED <<host, got, used>>

\* The closing report of a drain is waited for.
SendSummary ==
  /\ rec.stage = "stopped"
  /\ IF Len(lane) < Room
     THEN lane' = Append(lane, Report(rec.number, rec.summary, TRUE)) /\ rec' = [rec EXCEPT !.stage = "reporting"]
     ELSE UNCHANGED lane /\ rec' = [rec EXCEPT !.stage = "reporting", !.reply = "error"]
  /\ UNCHANGED <<chat, host, kept, got, used>>

SummaryAnswered ==
  /\ rec.stage = "reporting" /\ rec.reply = "ok"
  /\ rec' = [rec EXCEPT !.stage = "drained", !.reply = "none"]
  /\ UNCHANGED <<chat, lane, host, kept, got, used>>

\* Two seconds are over or the report was refused: the drain is given up.  The gap is
\* reported, but the finish takes another lane and may come first.
DrainGivenUp ==
  /\ rec.stage \in {"stopping", "stopped", "reporting"}
  /\ rec' = [rec EXCEPT !.stage = "late", !.reply = "none"]
  /\ LET waiting == Abandoned("status")
     IN  lane' = IF Len(lane) < Room THEN Append(waiting, Report(rec.number, TRUE, FALSE)) ELSE waiting
  /\ kept' = [kept EXCEPT ![rec.number].untold = TRUE]
  /\ UNCHANGED <<chat, host, got, used>>

\* The native finish: the log is closed and described by the status so far, or as partial
\* when it was silent for 45 seconds or cannot be synced.
Finish ==
  /\ rec.stage \in {"drained", "late", "unobserved"} /\ rec' = [rec EXCEPT !.stage = "over"]
  /\ IF host.recording = rec.number
     THEN /\ \E partial \in BOOLEAN :
               kept' = [kept EXCEPT ![rec.number].finished = TRUE, ![rec.number].gap = host.gap \/ partial]
          /\ host' = [host EXCEPT !.recording = 0]
     ELSE UNCHANGED <<kept, host>>
  /\ UNCHANGED <<chat, lane, got, used>>

\* The native side interrupts the recording: its chat counts as partial.
Interrupt ==
  /\ host.recording # 0 /\ Fault
  /\ kept' = [kept EXCEPT ![host.recording].finished = TRUE, ![host.recording].gap = TRUE]
  /\ host' = [host EXCEPT !.recording = 0]
  /\ UNCHANGED <<chat, rec, lane, got>>

----
(* The chat worker. *)

Answer(m, outcome) ==
  /\ lane' = Tail(lane)
  /\ chat' = IF m.live /\ m.kind = "batch" THEN [chat EXCEPT !.reply = outcome] ELSE chat
  /\ rec' = IF m.live /\ m.kind = "status" THEN [rec EXCEPT !.reply = outcome] ELSE rec

ServeOld ==
  /\ lane # <<>> /\ lane[1].recording # host.recording /\ Answer(lane[1], "error")
  /\ UNCHANGED <<host, kept, got, used>>

ServeReport ==
  /\ lane # <<>> /\ lane[1].recording = host.recording /\ lane[1].kind = "status"
  /\ host' = [host EXCEPT !.gap = @ \/ lane[1].gap] /\ Answer(lane[1], "ok")
  /\ UNCHANGED <<kept, got, used>>

\* A batch: the one stored last is answered again, the next one is stored, any other refused.
IsRepeated(m) == host.last = <<m.id, m.items>>
IsNext(m) == m.id = host.last[1] + 1 /\ ~host.broken

StoreBatch(m) ==
  /\ kept' = [kept EXCEPT ![m.recording].items = @ \o m.items]
  /\ host' = [host EXCEPT !.last = <<m.id, m.items>>]

ServeBatch ==
  LET m == lane[1] IN
  /\ lane # <<>> /\ m.recording = host.recording /\ m.kind = "batch"
  /\ \/ IsRepeated(m) /\ Answer(m, "ok") /\ UNCHANGED <<host, kept>>
     \/ ~IsRepeated(m) /\ IsNext(m) /\ StoreBatch(m) /\ Answer(m, "ok")
     \/ ~IsRepeated(m) /\ ~IsNext(m) /\ host' = [host EXCEPT !.gap = TRUE] /\ Answer(m, "error") /\ UNCHANGED kept
  /\ UNCHANGED <<got, used>>

\* The log fails in the middle of a batch: what was written stays, and no batch is taken after it.
ServeBatchBreaks ==
  LET m == lane[1] IN
  /\ lane # <<>> /\ m.recording = host.recording /\ m.kind = "batch" /\ ~IsRepeated(m) /\ IsNext(m) /\ Fault
  /\ \E k \in 0..Len(m.items) : kept' = [kept EXCEPT ![m.recording].items = @ \o SubSeq(m.items, 1, k)]
  /\ host' = [host EXCEPT !.broken = TRUE, !.gap = TRUE] /\ Answer(m, "error")
  /\ UNCHANGED got

Talk ==
  \/ \E k \in {"messages", "invalid", "unsupported"}, n \in 1..2 : Receive(k, n)
  \/ ConnectionGap \/ Decode \/ AskViewers \/ SourceMoves \/ (\E b \in 0..2 : ViewersAnswered(b)) \/ Pulse

Transport ==
  \/ Pump \/ SendBatch \/ BatchLost \/ BatchAnswered
  \/ ServeOld \/ ServeReport \/ ServeBatch \/ ServeBatchBreaks

Course ==
  \/ Begin \/ StopChat \/ StopEnds \/ SendSummary \/ SummaryAnswered \/ DrainGivenUp \/ Finish \/ Interrupt

Next == Talk \/ Transport \/ Course

Spec == Init /\ [][Next]_vars

----
Messages(items) == SelectSeq(items, LAMBDA x : x[1] = "message")

\* Retries and late copies of a batch neither repeat nor reorder messages.
ChatInOrder ==
  \A r \in Recordings :
    LET s == Messages(kept[r].items) IN \A i, j \in DOMAIN s : i < j => s[i][2] < s[j][2]

\* A finished recording whose status admits no gap holds every message that was delivered,
\* unless the drain was given up or a full lane dropped the report of the gap.
LossIsTold ==
  \A r \in Recordings :
    kept[r].finished /\ ~kept[r].gap /\ ~kept[r].untold =>
      LET s == Messages(kept[r].items) IN [i \in DOMAIN s |-> s[i][2]] = got[r]

\* The counts of a recording are of one broadcast.
OneBroadcast ==
  \A r \in Recordings : \A i, j \in DOMAIN kept[r].items :
    LET a == kept[r].items[i]
        b == kept[r].items[j]
    IN  a[1] = "viewers" /\ b[1] = "viewers" /\ a[2] # 0 /\ b[2] # 0 => a[2] = b[2]
====
