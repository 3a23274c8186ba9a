---- MODULE Settings ----
(***************************************************************************)
(* How an edit in the settings dialog reaches the backend.  The dialog     *)
(* keeps typed text back until the field is left (inputEdits), the autosave*)
(* hook coalesces and serialises what it is given (pending, inFlight), the *)
(* settings store sends it with the newest revision it knows and retries a *)
(* revision conflict once, and the queue of list preferences writes to the *)
(* same row of the backend on its own.  A snapshot the backend announces   *)
(* may arrive long after the answer to the write that caused it.           *)
(*                                                                         *)
(* A patch is a function from the keys it changes to their values.  One    *)
(* key stands for each kind of control: "name" for the folder name and the *)
(* folder, "slots" for the typed numbers, "cols" for the sliders and       *)
(* switches, the two tag lists of the search rule, and "grouping" for what *)
(* the list views remember.                                                *)
(***************************************************************************)
EXTENDS Integers, Sequences

CONSTANTS
    MaxEdits,       \* edits of the user in a behaviour (bound)
    MaxFaults       \* calls that fail, or whose answer is lost (bound)

VARIABLES
    db,         \* the backend's snapshot: [rev, val]
    latest,     \* the newest snapshot the window has accepted
    news,       \* announced snapshots that have not arrived yet
    open,       \* the dialog is open
    draft,      \* the values the dialog shows
    inputEdits, \* typed values the dialog still holds back
    pending,    \* values the autosave has still to send
    inFlight,   \* values it is sending
    timer,      \* a delayed flush is scheduled
    save,       \* the store's write: [at, rev, and got: the snapshot returned]
    prefs,      \* the preference queue: [at, queued, desired, rev]
    shown,      \* the grouping the list view shows
    care,       \* a maintenance action: "none", "waiting", "running"
    asked,      \* the last value the user gave each key (history)
    edits, faults

dialogVars == <<open, draft, inputEdits>>
autosaveVars == <<pending, inFlight, timer, save>>
vars == <<db, latest, news, dialogVars, autosaveVars, prefs, shown, care,
          asked, edits, faults>>

Nothing == <<>>                     \* the empty patch
Over(new, old) ==                   \* { ...old, ...new }
    [k \in DOMAIN new \cup DOMAIN old |-> IF k \in DOMAIN new THEN new[k] ELSE old[k]]
Without(p, keys) == [k \in DOMAIN p \ keys |-> p[k]]

Blank == -1     \* an empty name, a number that is none: refused by the dialog
Odd == -2       \* a template with an unknown field: refused by the backend

fallback == [name |-> 0, slots |-> 0, cols |-> 0,
             include |-> {}, exclude |-> {}, grouping |-> 0]
PreferenceDefaults == [slots |-> 0, cols |-> 0]
NoWrite == [at |-> "idle", rev |-> 0, got |-> Nothing]
Sent(rev) == [NoWrite EXCEPT !.at = "sent", !.rev = rev]
NoPrefs == [at |-> "idle", queued |-> Nothing, desired |-> Nothing, rev |-> 0]

----
(* The backend's settings row. *)

Valid(val) ==
    /\ val.name >= 0
    /\ val.slots >= 0
    /\ val.include \cap val.exclude = {}

Verdict(patch, rev) ==
    IF rev # db.rev THEN "conflict"
    ELSE IF ~Valid(Over(patch, db.val)) THEN "refused" ELSE "ok"

\* settingsUpdate: the row is rewritten and announced, or left alone.
SettingsUpdate(patch, rev) ==
    IF Verdict(patch, rev) = "ok"
    THEN LET next == [rev |-> db.rev + 1, val |-> Over(patch, db.val)]
         IN  db' = next /\ news' = Append(news, next)
    ELSE UNCHANGED <<db, news>>

Fault == faults < MaxFaults /\ faults' = faults + 1

----
(* The store (useSettings) and what the list view takes from it. *)

PreferencesPending == prefs.at # "idle"

\* accept: an older snapshot is dropped.  A changed grouping is shown unless
\* a choice of the user is still being written.
Accept(snapshot) ==
    LET next == IF snapshot.rev >= latest.rev THEN snapshot ELSE latest
    IN  /\ latest' = next
        /\ shown' = IF next.val.grouping # latest.val.grouping /\ ~PreferencesPending
                    THEN next.val.grouping ELSE shown

NewsArrives ==
    /\ news # <<>>
    /\ Accept(Head(news))
    /\ news' = Tail(news)
    /\ UNCHANGED <<db, dialogVars, autosaveVars, prefs, care, asked, edits, faults>>

----
(* The autosave hook. *)

\* flush when p is pending: a write under way will take p with it.
Flush(p) ==
    /\ timer' = FALSE
    /\ IF save.at # "idle" \/ p = Nothing
       THEN pending' = p /\ UNCHANGED <<inFlight, save>>
       ELSE /\ pending' = Nothing
            /\ inFlight' = p
            /\ save' = Sent(latest.rev)

Enqueue(patch, delayed) ==
    IF delayed
    THEN /\ pending' = Over(patch, pending)
         /\ timer' = TRUE
         /\ UNCHANGED <<inFlight, save>>
    ELSE Flush(Over(patch, pending))

TimerFires ==
    /\ timer
    /\ Flush(pending)
    /\ UNCHANGED <<db, latest, news, dialogVars, prefs, shown, care, asked, edits, faults>>

\* The backend handles the store's write, or the call fails: on the way
\* there, or on the way back with the patch stored.
WriteServed ==
    /\ save.at \in {"sent", "resent"}
    /\ \/ /\ SettingsUpdate(inFlight, save.rev)
          /\ LET verdict == Verdict(inFlight, save.rev)
             IN  save' = [save EXCEPT
                    !.at = IF verdict = "conflict" /\ save.at = "sent" THEN "stale" ELSE verdict,
                    !.got = IF verdict = "ok" THEN db' ELSE Nothing]
          /\ UNCHANGED faults
       \/ /\ Fault
          /\ save' = [save EXCEPT !.at = "refused"]
          /\ UNCHANGED <<db, news>> \/ SettingsUpdate(inFlight, save.rev)
    /\ UNCHANGED <<latest, dialogVars, pending, inFlight, timer, prefs, shown,
                   care, asked, edits>>

\* REVISION_CONFLICT: the snapshot is read again and the same patch is sent
\* once more with its revision.
Refresh ==
    /\ save.at = "stale"
    /\ \/ /\ Accept(db)
          /\ save' = [NoWrite EXCEPT !.at = "resent", !.rev = latest'.rev]
          /\ UNCHANGED faults
       \/ /\ Fault
          /\ save' = [save EXCEPT !.at = "refused"]
          /\ UNCHANGED <<latest, shown>>
    /\ UNCHANGED <<db, news, dialogVars, pending, inFlight, timer, prefs, care,
                   asked, edits>>

\* A stored patch: the loop goes on with what was queued meanwhile.
Saved ==
    /\ save.at = "ok"
    /\ Accept(save.got)
    /\ inFlight' = pending
    /\ pending' = Nothing
    /\ save' = IF pending = Nothing THEN NoWrite
               ELSE Sent(latest'.rev)
    /\ care' = IF pending = Nothing /\ care = "waiting" THEN "running" ELSE care
    /\ UNCHANGED <<db, news, dialogVars, timer, prefs, asked, edits, faults>>

\* The failed patch overwrites the newer edits.
RefusedOverNewer ==
    /\ save.at \in {"refused", "conflict"}
    /\ pending' = Over(inFlight, pending)
    /\ inFlight' = Nothing
    /\ save' = NoWrite
    /\ care' = IF care = "waiting" THEN "none" ELSE care
    /\ UNCHANGED <<db, latest, news, dialogVars, timer, prefs, shown, asked, edits, faults>>

\* A patch that was not stored goes back under the newer edits.
Refused ==
    /\ save.at \in {"refused", "conflict"}
    /\ pending' = Over(pending, inFlight)
    /\ inFlight' = Nothing
    /\ save' = NoWrite
    /\ care' = IF care = "waiting" THEN "none" ELSE care
    /\ UNCHANGED <<db, latest, news, dialogVars, timer, prefs, shown, asked, edits, faults>>

Unsaved == Over(pending, inFlight)

Retry ==
    /\ open /\ save.at = "idle" /\ pending # Nothing
    /\ Flush(pending)
    /\ UNCHANGED <<db, latest, news, dialogVars, prefs, shown, care, asked, edits, faults>>

----
(* The dialog. *)

OpenDialog ==
    /\ ~open
    /\ open' = TRUE
    /\ draft' = Over(inputEdits, Over(Unsaved, latest.val))
    /\ UNCHANGED <<db, latest, news, inputEdits, autosaveVars, prefs, shown, care,
                   asked, edits, faults>>

\* What commitInputs hands on: each invalid value stays behind alone, the
\* two tag lists go together or not at all.
Committed ==
    LET bad == {k \in DOMAIN inputEdits \cap {"name", "slots"} : inputEdits[k] = Blank}
        rules == {"include", "exclude"}
        one == Without(inputEdits, bad \cup rules)
    IN  IF DOMAIN inputEdits \cap rules # {} /\ draft.include \cap draft.exclude = {}
        THEN Over([include |-> draft.include, exclude |-> draft.exclude], one)
        ELSE one

CommitInputs ==
    /\ inputEdits' = Without(inputEdits, DOMAIN Committed)
    /\ IF Committed = Nothing THEN UNCHANGED autosaveVars ELSE Flush(Over(Committed, pending))

\* commitInputs and autosave.flush
CommitAndFlush ==
    /\ inputEdits' = Without(inputEdits, DOMAIN Committed)
    /\ Flush(Over(Committed, pending))

InputsValid == DOMAIN inputEdits \subseteq DOMAIN Committed

Blur ==
    /\ open /\ inputEdits # Nothing
    /\ CommitInputs
    /\ UNCHANGED <<db, latest, news, open, draft, prefs, shown, care, asked, edits, faults>>

\* The close button, Escape, and a tutorial that closes the dialog.
CloseDialog ==
    /\ open
    /\ open' = FALSE
    /\ CommitAndFlush
    /\ UNCHANGED <<db, latest, news, draft, prefs, shown, care, asked, edits, faults>>

Edited(changes) ==
    /\ open /\ edits < MaxEdits
    /\ edits' = edits + 1
    /\ draft' = Over(changes, draft)
    /\ asked' = Over(changes, asked)
    /\ UNCHANGED <<db, latest, news, open, prefs, shown, care, faults>>

\* patch(..., deferred): a text or number field.
Typed(changes) ==
    /\ Edited(changes)
    /\ inputEdits' = Over(changes, inputEdits)
    /\ UNCHANGED autosaveVars

\* patch: a control that saves at once, a number after a pause.
Chosen(changes, delayed) ==
    /\ Edited(changes)
    /\ inputEdits' = Without(inputEdits, DOMAIN changes)
    /\ Enqueue(changes, delayed)

TypeName(v) == Typed([name |-> v])
ChooseName == Chosen([name |-> 0], FALSE)
ChooseDownloadRoot == Chosen([name |-> 1], FALSE)
TypeNumber(v) == Typed([slots |-> v])
Slide(v) == Chosen([cols |-> v], TRUE)
Switch(v) == Chosen([cols |-> v], FALSE)
TypeInclude(tags) == Typed([include |-> tags])
TypeExclude(tags) == Typed([exclude |-> tags])
RestorePreferenceDefaults == Chosen(PreferenceDefaults, FALSE)

\* A maintenance action waits for the edits; it is not run when one is
\* invalid or could not be saved.
RunMaintenance ==
    /\ open /\ care = "none"
    /\ IF InputsValid THEN CommitAndFlush ELSE CommitInputs
    /\ care' = IF ~InputsValid THEN "none"
               ELSE IF save'.at = "idle" THEN "running" ELSE "waiting"
    /\ UNCHANGED <<db, latest, news, open, draft, prefs, shown, asked, edits, faults>>

MaintenanceDone ==
    /\ care = "running"
    /\ care' = "none"
    /\ UNCHANGED <<db, latest, news, dialogVars, autosaveVars, prefs, shown, asked,
                   edits, faults>>

----
(* The list preferences. *)

\* The queue takes everything that is queued, or rests.
TakeNext(queued) ==
    IF queued = Nothing THEN NoPrefs
    ELSE [NoPrefs EXCEPT !.at = "reading", !.desired = queued]

PersistGalleryGrouping(g) ==
    /\ ~open /\ edits < MaxEdits
    /\ edits' = edits + 1
    /\ shown' = g
    /\ LET queued == Over([grouping |-> g], prefs.queued)
       IN  prefs' = IF PreferencesPending THEN [prefs EXCEPT !.queued = queued]
                    ELSE TakeNext(queued)
    /\ UNCHANGED <<db, latest, news, dialogVars, autosaveVars, care, asked, faults>>

PreferenceRead ==
    /\ prefs.at = "reading"
    /\ \/ prefs' = [prefs EXCEPT !.at = "writing", !.rev = db.rev] /\ UNCHANGED faults
       \/ Fault /\ prefs' = TakeNext(prefs.queued)
    /\ UNCHANGED <<db, latest, news, dialogVars, autosaveVars, shown, care, asked, edits>>

\* A preference that cannot be written is given up with a message (one whose
\* answer is lost only has the message).
PreferenceWritten ==
    /\ prefs.at = "writing"
    /\ \/ SettingsUpdate(prefs.desired, prefs.rev) /\ UNCHANGED faults
       \/ Fault /\ UNCHANGED <<db, news>>
    /\ prefs' = TakeNext(prefs.queued)
    /\ UNCHANGED <<latest, dialogVars, autosaveVars, shown, care, asked, edits>>

----
Init ==
    /\ db = [rev |-> 0, val |-> fallback]
    /\ latest = db
    /\ news = <<>>
    /\ open = FALSE /\ draft = fallback /\ inputEdits = Nothing
    /\ pending = Nothing /\ inFlight = Nothing /\ timer = FALSE /\ save = NoWrite
    /\ prefs = NoPrefs /\ shown = 0 /\ care = "none"
    /\ asked = Nothing /\ edits = 0 /\ faults = 0

Next ==
    \/ OpenDialog \/ CloseDialog \/ Blur \/ Retry \/ TimerFires
    \/ \E v \in {1, Blank, Odd} : TypeName(v)
    \/ \E v \in {1, Blank} : TypeNumber(v)
    \/ \E v \in {1, 2} : Slide(v) \/ Switch(v)
    \/ \E tags \in SUBSET {"t"} : TypeInclude(tags) \/ TypeExclude(tags)
    \/ ChooseName \/ ChooseDownloadRoot \/ RestorePreferenceDefaults
    \/ RunMaintenance \/ MaintenanceDone
    \/ WriteServed \/ Refresh \/ Saved \/ Refused \/ NewsArrives
    \/ \E g \in {0, 1} : PersistGalleryGrouping(g)
    \/ PreferenceRead \/ PreferenceWritten

Spec == Init /\ [][Next]_vars

----
(* Properties. *)

\* The last value the user gave a key is never lost: it is stored, or the
\* dialog or the autosave still holds it, whatever failed, conflicted or was
\* overtaken on the way; and an open dialog shows it
\* (useSettingsAutosave.ts "retain failed edits for an explicit retry").
EditsSurvive ==
    \A k \in DOMAIN asked :
        /\ Over(inputEdits, Over(Unsaved, db.val))[k] = asked[k]
        /\ open => draft[k] = asked[k]

\* The two tag lists "form one rule; never persist half of an edit"
\* (SettingsDialog.tsx commitInputs): no write carries one without the other,
\* nor a pair that excludes what it requires.
RuleTravelsWhole ==
    \A p \in {pending, inFlight} :
        DOMAIN p \cap {"include", "exclude"} # {} =>
            /\ {"include", "exclude"} \subseteq DOMAIN p
            /\ p.include \cap p.exclude = {}
====
