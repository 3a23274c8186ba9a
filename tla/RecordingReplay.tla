---- MODULE RecordingReplay ----
(***************************************************************************)
(* The window in which a recording is watched again.  The native side      *)
(* lends it sessions, at most MaxSessions at a time: a session is a set of *)
(* open files, named by a token, over what was saved when it was opened.   *)
(* The window asks for a longer one while the recording goes on, moves the *)
(* player over to it, and only then gives the old one back.  The timeline  *)
(* under the player and the correction of the chat's clock belong to the   *)
(* session; every answer may come late.                                    *)
(*                                                                         *)
(* The rendering that follows a change of state is part of the step.  The  *)
(* expiry of a session after hours is left out, and so is the privacy      *)
(* mode, which only withholds refreshes that are then asked for later.     *)
(***************************************************************************)
EXTENDS Integers, Sequences, FiniteSets

CONSTANTS
    Offsets,        \* corrections the user may save
    MaxSessions,    \* sessions the native side lends at a time
    MaxTokens,      \* sessions opened in all (bound)
    MaxParts,       \* length the recording grows to (bound)
    MaxVisits,      \* times the window is opened (bound)
    MaxSaves,       \* corrections saved (bound)
    None

VARIABLES
    host,       \* the native side: [sessions, made, offset, length, whole]
    dialog,     \* the window: [up, session, owned, retired, refreshing, asked, timeline, saving]
    frame,      \* the player's frame: [shown, ready, url, inbox, outbox]
    life,       \* sessionGeneration
    opens,      \* sessions being opened: [life, refresh, length, answer]
    saves,      \* corrections being saved: [life, token, value, answer]
    reads,      \* timelines being read: [token, current, served, answer]
    closes,     \* sessions being given back
    saved,      \* corrections asked for so far
    mixed       \* a correction was under way together with an opening

vars == <<host, dialog, frame, life, opens, saves, reads, closes, saved, mixed>>

NoDialog == [up |-> FALSE, session |-> None, owned |-> {}, retired |-> {}, refreshing |-> FALSE,
             asked |-> FALSE, timeline |-> None, saving |-> FALSE]
NoFrame == [shown |-> FALSE, ready |-> FALSE, url |-> None, inbox |-> <<>>, outbox |-> <<>>]

\* What stands for no token: a refused opening, and the player's "tail".
Refused == 0
TailReached == 0

Init ==
    /\ host \in [sessions : {<<>>}, made : {0}, offset : Offsets, length : {1}, whole : BOOLEAN]
    /\ dialog = NoDialog /\ frame = NoFrame /\ life = 0
    /\ opens = {} /\ saves = {} /\ reads = {} /\ closes = {} /\ saved = 0 /\ mixed = FALSE

Lent == DOMAIN host.sessions

----
(* The native side. *)

\* A session holds what is saved at that moment; an index of its chat is then built.
Session == [length |-> host.length, whole |-> host.whole, offset |-> host.offset, ready |-> FALSE]

Lend(c) ==
    /\ Cardinality(Lent) < MaxSessions /\ host.made < MaxTokens
    /\ LET token == host.made + 1 IN
       /\ host' = [host EXCEPT !.made = token,
                               !.sessions = [t \in Lent \cup {token} |-> IF t = token THEN Session ELSE @[t]]]
       /\ opens' = (opens \ {c}) \cup {[c EXCEPT !.answer = token]}

RefuseToLend(c) ==
    /\ opens' = (opens \ {c}) \cup {[c EXCEPT !.answer = Refused]}
    /\ UNCHANGED host

OpenServed(c) ==
    /\ c.answer = None
    /\ Lend(c) \/ RefuseToLend(c)
    /\ UNCHANGED <<dialog, frame, life, saves, reads, closes, saved>>

CloseServed(t) ==
    /\ host' = [host EXCEPT !.sessions = [u \in Lent \ {t} |-> @[u]]]
    /\ closes' = closes \ {t}
    /\ UNCHANGED <<dialog, frame, life, opens, saves, reads, saved>>

\* The correction is stored for the recording, and for the session it was asked from.
SaveServed(c) ==
    /\ c.answer = None
    /\ \/ /\ c.token \in Lent
          /\ host' = [host EXCEPT !.offset = c.value, !.sessions[c.token].offset = c.value]
          /\ saves' = (saves \ {c}) \cup {[c EXCEPT !.answer = "stored"]}
       \/ /\ saves' = (saves \ {c}) \cup {[c EXCEPT !.answer = "failed"]}
          /\ UNCHANGED host
    /\ UNCHANGED <<dialog, frame, life, opens, reads, closes, saved>>

\* The buckets are counted with the session's own correction.
TimelineServed(r) ==
    /\ ~r.served
    /\ LET s == host.sessions[r.token] IN
       reads' = (reads \ {r}) \cup
         {[r EXCEPT !.served = TRUE,
                    !.answer = IF r.token \in Lent
                               THEN [token |-> r.token, offset |-> s.offset, ready |-> s.ready]
                               ELSE None]}
    /\ UNCHANGED <<host, dialog, frame, life, opens, saves, closes, saved>>

IndexBuilt(t) ==
    /\ ~host.sessions[t].ready
    /\ host' = [host EXCEPT !.sessions[t].ready = TRUE]
    /\ UNCHANGED <<dialog, frame, life, opens, saves, reads, closes, saved>>

\* The recording goes on, and becomes one file when it is over.
RecordingGoesOn ==
    /\ ~host.whole
    /\ \/ host.length < MaxParts /\ host' = [host EXCEPT !.length = @ + 1]
       \/ host' = [host EXCEPT !.whole = TRUE]
    /\ UNCHANGED <<dialog, frame, life, opens, saves, reads, closes, saved>>

----
(* The timeline: read once for a session whose index is ready.  A step of
   timelineGeneration makes every read under way late. *)

LateReads == {[r EXCEPT !.current = FALSE] : r \in reads}

loadTimeline(d, rs) ==
    IF d.session.ready /\ ~d.asked
    THEN /\ dialog' = [d EXCEPT !.asked = TRUE]
         /\ reads' = {[r EXCEPT !.current = FALSE] : r \in rs}
                       \cup {[token |-> d.session.token, current |-> TRUE, served |-> FALSE, answer |-> None]}
    ELSE dialog' = d /\ reads' = rs

TimelineAnswered(r) ==
    /\ r.served
    /\ reads' = reads \ {r}
    /\ dialog' = IF ~r.current THEN dialog
                 ELSE IF r.answer = None THEN [dialog EXCEPT !.asked = FALSE]
                 ELSE [dialog EXCEPT !.timeline = r.answer, !.asked = r.answer.ready]
    /\ UNCHANGED <<host, frame, life, opens, saves, closes, saved>>

\* indexReady: a page of the chat said that the index is built.
indexReady ==
    /\ dialog.session # None /\ dialog.session.token \in Lent
    /\ host.sessions[dialog.session.token].ready
    /\ ~dialog.session.ready \/ ~dialog.asked
    /\ loadTimeline([dialog EXCEPT !.session.ready = TRUE], reads)
    /\ UNCHANGED <<host, frame, life, opens, saves, closes, saved>>

----
(* Opening, refreshing and closing. *)

Show ==
    /\ ~dialog.up /\ life < MaxVisits
    /\ life' = life + 1
    /\ dialog' = [NoDialog EXCEPT !.up = TRUE]
    /\ opens' = opens \cup {[life |-> life', refresh |-> FALSE, length |-> 0, answer |-> None]}
    /\ reads' = LateReads
    /\ UNCHANGED <<host, frame, saves, closes, saved>>

\* The window goes: every session it owns is given back.
Hide ==
    /\ dialog.up
    /\ dialog' = NoDialog /\ frame' = NoFrame
    /\ closes' = closes \cup dialog.owned
    /\ reads' = LateReads
    /\ UNCHANGED <<host, life, opens, saves, saved>>

Mine(c) == dialog.up /\ c.life = life

\* The session as the window keeps it; nobody else knows the token, so it is as it was lent.
Taken(token) == [token |-> token, length |-> host.sessions[token].length, whole |-> host.sessions[token].whole,
                 offset |-> host.sessions[token].offset, ready |-> FALSE]

\* The first answer puts a session on screen; one for a window that is gone is given back.
Opened(c) ==
    /\ c.answer # None /\ ~c.refresh
    /\ opens' = opens \ {c}
    /\ IF c.answer = Refused THEN UNCHANGED <<dialog, frame, closes>>
       ELSE IF Mine(c)
       THEN /\ dialog' = [dialog EXCEPT !.session = Taken(c.answer), !.owned = @ \cup {c.answer}]
            /\ frame' = [NoFrame EXCEPT !.shown = TRUE]
            /\ UNCHANGED closes
       ELSE closes' = closes \cup {c.answer} /\ UNCHANGED <<dialog, frame>>
    /\ UNCHANGED <<host, life, saves, reads, saved>>

\* One refresh at a time, and none before the player has let go of the session before.
CanRefresh ==
    /\ dialog.session # None /\ ~dialog.session.whole
    /\ ~dialog.refreshing /\ dialog.retired = {}

AskRefresh ==
    /\ dialog' = [dialog EXCEPT !.refreshing = TRUE]
    /\ opens' = opens \cup
         {[life |-> life, refresh |-> TRUE, length |-> dialog.session.length, answer |-> None]}

refresh ==
    /\ CanRefresh /\ AskRefresh
    /\ UNCHANGED <<host, frame, life, saves, reads, closes, saved>>

\* The player's frame is told of the session on screen once it is ready.
Told(f, token) == IF f.ready THEN [f EXCEPT !.inbox = Append(@, token)] ELSE f

\* A session that is no longer than the one on screen is given back at once; a
\* longer one, or the finished file, takes its place, and the old one is retired.
Refreshed(c) ==
    /\ c.answer # None /\ c.refresh
    /\ opens' = opens \ {c}
    /\ IF c.answer = Refused
       THEN /\ dialog' = IF Mine(c) THEN [dialog EXCEPT !.refreshing = FALSE] ELSE dialog
            /\ UNCHANGED <<frame, reads, closes>>
       ELSE LET new == Taken(c.answer) IN
            IF ~Mine(c)
            THEN closes' = closes \cup {c.answer} /\ UNCHANGED <<dialog, frame, reads>>
            ELSE IF new.length <= c.length /\ ~new.whole
            THEN /\ closes' = closes \cup {c.answer}
                 /\ dialog' = [dialog EXCEPT !.refreshing = FALSE]
                 /\ UNCHANGED <<frame, reads>>
            ELSE /\ dialog' = [dialog EXCEPT !.session = new, !.owned = @ \cup {c.answer},
                                             !.retired = {dialog.session.token}, !.refreshing = FALSE,
                                             !.asked = FALSE, !.timeline = None]
                 /\ frame' = Told(frame, c.answer)
                 /\ reads' = LateReads
                 /\ UNCHANGED closes
    /\ UNCHANGED <<host, life, saves, saved>>

----
(* The correction of the chat's clock. *)

saveOffset(value) ==
    /\ dialog.session # None /\ ~dialog.saving /\ saved < MaxSaves
    /\ saved' = saved + 1
    /\ dialog' = [dialog EXCEPT !.saving = TRUE]
    /\ saves' = saves \cup {[life |-> life, token |-> dialog.session.token, value |-> value, answer |-> None]}
    /\ UNCHANGED <<host, frame, life, opens, reads, closes>>

\* A stored correction makes the timeline on screen, and those being read, old.
OffsetSaved(c) ==
    /\ c.answer # None
    /\ saves' = saves \ {c}
    /\ IF ~Mine(c) THEN UNCHANGED <<dialog, reads>>
       ELSE IF c.answer = "failed"
       THEN dialog' = [dialog EXCEPT !.saving = FALSE] /\ UNCHANGED reads
       ELSE loadTimeline([dialog EXCEPT !.session.offset = c.value, !.asked = FALSE, !.timeline = None,
                                        !.saving = FALSE],
                         LateReads)
    /\ UNCHANGED <<host, frame, life, opens, closes, saved>>

----
(* The player's frame, reached by messages in both directions. *)

FrameReady ==
    /\ frame.shown /\ ~frame.ready
    /\ frame' = Told([frame EXCEPT !.ready = TRUE], dialog.session.token)
    /\ UNCHANGED <<host, dialog, life, opens, saves, reads, closes, saved>>

\* mount: another source replaces the one that plays, and is acknowledged.
mount ==
    /\ frame.inbox # <<>>
    /\ LET token == Head(frame.inbox) IN
       frame' = IF token = frame.url THEN [frame EXCEPT !.inbox = Tail(@)]
                ELSE [frame EXCEPT !.inbox = Tail(@), !.url = token, !.outbox = Append(@, token)]
    /\ UNCHANGED <<host, dialog, life, opens, saves, reads, closes, saved>>

\* The end of what is saved was reached.
ReachTail ==
    /\ frame.url # None /\ frame.outbox = <<>>
    /\ frame' = [frame EXCEPT !.outbox = <<TailReached>>]
    /\ UNCHANGED <<host, dialog, life, opens, saves, reads, closes, saved>>

\* Only the acknowledgement of the session on screen lets the retired ones go.
sourceReady(token) ==
    IF token = dialog.session.token
    THEN /\ dialog' = [dialog EXCEPT !.owned = @ \ dialog.retired, !.retired = {}]
         /\ closes' = closes \cup (dialog.retired \cap dialog.owned)
    ELSE UNCHANGED <<dialog, closes>>

receive ==
    /\ frame.outbox # <<>>
    /\ frame' = [frame EXCEPT !.outbox = Tail(@)]
    /\ IF Head(frame.outbox) # TailReached
       THEN sourceReady(Head(frame.outbox)) /\ UNCHANGED opens
       ELSE /\ UNCHANGED closes
            /\ IF CanRefresh THEN AskRefresh ELSE UNCHANGED <<dialog, opens>>
    /\ UNCHANGED <<host, life, saves, reads, saved>>

----
Opening ==
    \/ Show \/ Hide \/ refresh \/ RecordingGoesOn
    \/ \E c \in opens : OpenServed(c) \/ Opened(c) \/ Refreshed(c)
    \/ \E t \in closes : CloseServed(t)
Player == FrameReady \/ mount \/ ReachTail \/ receive
Correcting == (\E v \in Offsets : saveOffset(v)) \/ \E c \in saves : SaveServed(c) \/ OffsetSaved(c)
Timeline == (\E t \in Lent : IndexBuilt(t)) \/ indexReady \/ \E r \in reads : TimelineServed(r) \/ TimelineAnswered(r)

\* A correction and an opening are together until both are over and the window is closed.
Mixing == mixed' = (\/ saves' # {} /\ opens' # {}
                    \/ mixed /\ (dialog'.up \/ saves' # {} \/ opens' # {}))

Leasing == (Opening \/ Player) /\ Mixing
Next == (Opening \/ Player \/ Correcting \/ Timeline) /\ Mixing

Spec == Init /\ [][Next]_vars

----
\* A session is open as long as the window shows it or the player plays it or was told of it, and no
\* longer than anyone knows of it: it is owned, being handed over, or being given back.  The window
\* holds two at most, so the native side's limit leaves room for another window.
LeasesAreHeld ==
    /\ dialog.session # None => dialog.session.token \in Lent
    /\ frame.url # None => frame.url \in Lent
    /\ \A i \in DOMAIN frame.inbox : frame.inbox[i] \in Lent
    /\ Lent \subseteq dialog.owned \cup closes \cup {c.answer : c \in opens}
    /\ Cardinality(dialog.owned) <= 2

\* The timeline under the player is that of the session on screen, counted with its correction, unless
\* a correction was stored that the window was not yet told of: an older answer never replaces it.
TimelineIsCurrent ==
    LET shown == dialog.timeline IN
    shown # None =>
      /\ shown.token = dialog.session.token
      /\ (\A c \in saves : c.answer = "stored" => c.token # shown.token) =>
           shown.offset = host.sessions[shown.token].offset

\* The correction on screen is the one stored, when none is being saved and none was saved while a
\* session was being opened.
OffsetIsTrue ==
    dialog.session # None /\ saves = {} /\ ~mixed => dialog.session.offset = host.offset
====
