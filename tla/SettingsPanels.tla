---- MODULE SettingsPanels ----
(***************************************************************************)
(* The panels of the settings dialog that ask the backend on their own:    *)
(* the switch for starting with Windows, the folder-name preview, the      *)
(* storage usage and the manager of excluded albums, which shares what it  *)
(* reads with the gallery workspace.  Each keeps answers of an older       *)
(* question from being shown.                                              *)
(***************************************************************************)
EXTENDS Integers, TLC

CONSTANTS
    Albums,         \* galleries that may be excluded
    Templates,      \* folder name templates
    MaxRequests,    \* questions asked by each panel (bound)
    None

VARIABLES
    tab,        \* "closed" or the tab of the open dialog
    os,         \* Atsumi is registered to start with Windows
    auto,       \* AutostartSetting: what it shows, its flags and its counters; born is
                \* the epoch it was mounted in
    osCalls,    \* its calls: [kind, epoch, readId, want, state]
    abandoned,  \* a change was under way when its panel was unmounted (history)
    template,   \* the template in the draft
    preview,    \* [shown, request, due]
    previews,   \* its calls: [request, template]
    root,       \* the download folder that is set
    usage,      \* [shown, loading]: the folder whose size is shown and asked for
    excluded,   \* the backend's exclusions
    known,      \* the workspace's: [ids, ready, token]
    manager,    \* [open, request, list, selected, restoring]
    lists,      \* calls that list exclusions: [token, request, ids]
    batch       \* the batch that is being restored, with the ids still to come

autoVars == <<os, auto, osCalls, abandoned>>
previewVars == <<template, preview, previews>>
usageVars == <<root, usage>>
exclusionVars == <<excluded, known, manager, lists, batch>>
vars == <<tab, autoVars, previewVars, usageVars, exclusionVars>>

----
(* AutostartSetting. *)

NoAutostart == [status |-> None, failure |-> FALSE, reading |-> FALSE, changing |-> FALSE,
                again |-> FALSE, epoch |-> 0, readId |-> 0, born |-> 0]
Active == tab = "general"

\* refresh: a read is asked for, or owed once the change under way is over.
Refreshed(control) ==
    IF control.changing THEN [control EXCEPT !.again = TRUE]
    ELSE [control EXCEPT !.readId = @ + 1, !.reading = TRUE]
ReadCall(control) ==
    IF control.changing THEN {}
    ELSE {[kind |-> "read", epoch |-> control.epoch, readId |-> control.readId + 1,
           want |-> FALSE, state |-> None]}

\* The effect on `active`: leaving the tab ends the epoch, entering reads.
\* The Danbooru tab unmounts the panel, which forgets all but its calls.
AutostartSwitched(next) ==
    LET left == [auto EXCEPT !.epoch = @ + 1, !.readId = @ + 1]
        fresh == [NoAutostart EXCEPT !.epoch = left.epoch, !.readId = left.readId, !.born = left.epoch]
        kept == IF next = "danbooru" THEN fresh ELSE left
    IN  /\ auto' = IF next = "general" THEN Refreshed(kept) ELSE kept
        /\ osCalls' = IF next = "general" THEN osCalls \cup ReadCall(kept) ELSE osCalls
        /\ abandoned' = (abandoned \/ (next = "danbooru" /\ auto.changing))
        /\ UNCHANGED os

Focus ==
    /\ Active /\ auto.readId < MaxRequests
    /\ auto' = Refreshed(auto)
    /\ osCalls' = osCalls \cup ReadCall(auto)
    /\ UNCHANGED <<os, abandoned, tab, previewVars, usageVars, exclusionVars>>

Change(enabled) ==
    /\ Active /\ auto.status # None /\ ~auto.changing /\ ~auto.reading
    /\ auto.readId < MaxRequests
    /\ auto' = [auto EXCEPT !.changing = TRUE, !.readId = @ + 1, !.reading = FALSE, !.failure = FALSE]
    /\ osCalls' = osCalls \cup {[kind |-> "change", epoch |-> auto.epoch,
                                 readId |-> auto.readId + 1, want |-> enabled, state |-> None]}
    /\ UNCHANGED <<os, abandoned, tab, previewVars, usageVars, exclusionVars>>

\* Windows answers with the registration it ends up with; a change may be
\* refused.
OsServes(c) ==
    /\ c.state = None
    /\ os' \in IF c.kind = "change" THEN {c.want, os} ELSE {os}
    /\ osCalls' = (osCalls \ {c}) \cup {[c EXCEPT !.state = os']}
    /\ UNCHANGED <<auto, abandoned, tab, previewVars, usageVars, exclusionVars>>

CurrentRead(c) ==
    Active /\ auto.epoch = c.epoch /\ auto.readId = c.readId /\ ~auto.changing

ReadAnswered(c) ==
    /\ c.kind = "read" /\ c.state # None
    /\ osCalls' = osCalls \ {c}
    /\ \E ok \in BOOLEAN :
          auto' = IF ~CurrentRead(c) THEN auto
                  ELSE [auto EXCEPT !.status = IF ok THEN c.state ELSE @, !.failure = ~ok, !.reading = FALSE]
    /\ UNCHANGED <<os, abandoned, tab, previewVars, usageVars, exclusionVars>>

\* The change ends without the read that was put off.
ChangeAnsweredQuietly(c) ==
    /\ c.kind = "change" /\ c.state # None
    /\ auto' = IF c.epoch < auto.born THEN auto
               ELSE [auto EXCEPT !.changing = FALSE,
                        !.status = IF Active /\ auto.epoch = c.epoch THEN c.state ELSE @]
    /\ osCalls' = osCalls \ {c}
    /\ UNCHANGED <<os, abandoned, tab, previewVars, usageVars, exclusionVars>>

\* The change was refused, or its answer is lost (~ok).  A panel that was
\* reopened or asked to refresh meanwhile reads again.
ChangeAnswered(c) ==
    /\ c.kind = "change" /\ c.state # None
    /\ \E ok \in {o \in BOOLEAN : o => c.state = c.want} :
       LET here == Active /\ auto.epoch = c.epoch
           mine == c.epoch >= auto.born
           over == [auto EXCEPT !.changing = FALSE, !.again = FALSE,
                                !.status = IF here /\ ok THEN c.state ELSE @,
                                !.failure = @ \/ (here /\ ~ok)]
           read == mine /\ (auto.again \/ auto.epoch # c.epoch) /\ Active
       IN  /\ auto' = IF ~mine THEN auto ELSE IF read THEN Refreshed(over) ELSE over
           /\ osCalls' = (osCalls \ {c}) \cup (IF read THEN ReadCall(over) ELSE {})
    /\ UNCHANGED <<os, abandoned, tab, previewVars, usageVars, exclusionVars>>

----
(* The folder-name preview. *)

\* The effect on the template: the newest request owns the answer.
Asked == [preview EXCEPT !.request = @ + 1, !.due = TRUE]

EditTemplate(t) ==
    /\ tab = "hitomi" /\ t # template /\ preview.request < MaxRequests
    /\ template' = t
    /\ preview' = Asked
    /\ UNCHANGED <<previews, tab, autoVars, usageVars, exclusionVars>>

PreviewTimer ==
    /\ preview.due
    /\ preview' = [preview EXCEPT !.due = FALSE]
    /\ previews' = previews \cup {[request |-> preview.request, template |-> template]}
    /\ UNCHANGED <<template, tab, autoVars, usageVars, exclusionVars>>

PreviewAnswered(c) ==
    /\ previews' = previews \ {c}
    /\ \E ok \in BOOLEAN :
          preview' = IF c.request # preview.request THEN preview
                     ELSE [preview EXCEPT !.shown = IF ok THEN c.template ELSE None]
    /\ UNCHANGED <<template, tab, autoVars, usageVars, exclusionVars>>

----
(* The storage usage. *)

\* loadStorageUsage: one at a time, and only for a folder it does not know.
Loaded(folder, force) ==
    IF usage.loading # None \/ (usage.shown = folder /\ ~force) THEN usage
    ELSE [shown |-> IF usage.shown = folder THEN folder ELSE None, loading |-> folder]

RefreshUsage ==
    /\ Active /\ usage.loading = None
    /\ usage' = Loaded(root, TRUE)
    /\ UNCHANGED <<root, tab, autoVars, previewVars, exclusionVars>>

SetRoot(folder) ==
    /\ Active /\ folder # root
    /\ root' = folder
    /\ usage' = Loaded(folder, FALSE)
    /\ UNCHANGED <<tab, autoVars, previewVars, exclusionVars>>

UsageAnswered ==
    /\ usage.loading # None
    /\ \E ok \in BOOLEAN :
          usage' = [shown |-> IF ok THEN usage.loading ELSE usage.shown, loading |-> None]
    /\ UNCHANGED <<root, tab, autoVars, previewVars, exclusionVars>>

----
(* Excluded albums: the workspace's copy and the manager's list. *)

ClosedManager == [open |-> FALSE, list |-> {}, selected |-> {}]
Close(m) == [ClosedManager @@ m EXCEPT !.request = @ + 1]
NewList(request) == [token |-> known.token + 1, request |-> request, ids |-> None]
Hydrating(k) == [k EXCEPT !.token = @ + 1, !.ready = FALSE]

\* loadExplorationExclusionsAndSync, from the workspace itself.
Hydrate ==
    /\ known.token < MaxRequests
    /\ known' = Hydrating(known)
    /\ lists' = lists \cup {NewList(0)}
    /\ UNCHANGED <<excluded, manager, batch, tab, autoVars, previewVars, usageVars>>

LoadExclusionManager ==
    /\ tab = "hitomi" /\ known.token < MaxRequests
    /\ manager' = [Close(manager) EXCEPT !.open = TRUE]
    /\ known' = Hydrating(known)
    /\ lists' = lists \cup {NewList(manager.request + 1)}
    /\ UNCHANGED <<excluded, batch, tab, autoVars, previewVars, usageVars>>

CloseExclusionManager ==
    /\ manager.open
    /\ manager' = Close(manager)
    /\ UNCHANGED <<excluded, known, lists, batch, tab, autoVars, previewVars, usageVars>>

ListServed(c) ==
    /\ c.ids = None
    /\ lists' = (lists \ {c}) \cup {[c EXCEPT !.ids = excluded]}
    /\ UNCHANGED <<excluded, known, manager, batch, tab, autoVars, previewVars, usageVars>>

\* The workspace takes the answer to its newest question, the manager the
\* answer to its own.
ListAnswered(c) ==
    /\ c.ids # None
    /\ lists' = lists \ {c}
    /\ \E ok \in BOOLEAN :
          /\ known' = IF ok /\ c.token = known.token
                      THEN [known EXCEPT !.ids = c.ids, !.ready = TRUE] ELSE known
          /\ manager' = IF ok /\ c.request = manager.request
                        THEN [manager EXCEPT !.list = c.ids] ELSE manager
    /\ UNCHANGED <<excluded, batch, tab, autoVars, previewVars, usageVars>>

SelectExclusion(a) ==
    /\ manager.open /\ a \in manager.list
    /\ manager' = [manager EXCEPT !.selected = IF a \in @ THEN @ \ {a} ELSE @ \cup {a}]
    /\ UNCHANGED <<excluded, known, lists, batch, tab, autoVars, previewVars, usageVars>>

NoBatch == [at |-> "idle", now |-> None, rest |-> {}, done |-> {}]

\* restoreExclusions sends the selection in batches (of one, here).
NextBatch(rest, done) ==
    \E a \in rest : batch' = [at |-> "sent", now |-> a, rest |-> rest \ {a}, done |-> done]

RestoreExclusions ==
    /\ manager.open /\ manager.selected # {} /\ batch.at = "idle"
    /\ NextBatch(manager.selected, {})
    /\ UNCHANGED <<excluded, known, manager, lists, tab, autoVars, previewVars, usageVars>>

BatchServed ==
    /\ batch.at = "sent"
    /\ \E ok \in BOOLEAN :
          /\ excluded' = IF ok THEN excluded \ {batch.now} ELSE excluded
          /\ batch' = [batch EXCEPT !.at = IF ok THEN "ok" ELSE "failed"]
    /\ UNCHANGED <<known, manager, lists, tab, autoVars, previewVars, usageVars>>

\* When the batches are over the manager drops the albums that were restored.
Restored(done) ==
    /\ batch' = NoBatch
    /\ manager' = [manager EXCEPT !.list = @ \ done, !.selected = @ \ done]

\* restoreExplorationExclusionsAndSync: an older list is no longer wanted
\* and the exclusions are read again.
BatchRestored ==
    /\ batch.at = "ok"
    /\ known' = Hydrating([known EXCEPT !.ids = @ \ {batch.now}])
    /\ lists' = lists \cup {NewList(0)}
    /\ IF batch.rest # {}
       THEN NextBatch(batch.rest, batch.done \cup {batch.now}) /\ UNCHANGED manager
       ELSE Restored(batch.done \cup {batch.now})
    /\ UNCHANGED <<excluded, tab, autoVars, previewVars, usageVars>>

BatchFailed ==
    /\ batch.at = "failed"
    /\ Restored(batch.done)
    /\ UNCHANGED <<excluded, known, lists, tab, autoVars, previewVars, usageVars>>

----
Tabs == {"closed", "general", "hitomi", "danbooru"}

\* The dialog opens on the general tab; leaving a tab ends its panels.
SelectTab(t) ==
    /\ t # tab
    /\ tab = "closed" => t = "general"
    /\ auto.readId < MaxRequests /\ preview.request < MaxRequests
    /\ tab' = t
    /\ AutostartSwitched(t)
    /\ preview' = IF tab = "closed" THEN Asked ELSE IF t = "closed" THEN [preview EXCEPT !.due = FALSE] ELSE preview
    /\ usage' = IF tab = "closed" THEN Loaded(root, FALSE) ELSE usage
    /\ manager' = IF t = "hitomi" THEN manager ELSE Close(manager)
    /\ UNCHANGED <<template, previews, root, excluded, known, lists, batch>>

Init ==
    /\ tab = "closed"
    /\ os \in BOOLEAN /\ auto = NoAutostart /\ osCalls = {} /\ abandoned = FALSE
    /\ template = CHOOSE t \in Templates : TRUE
    /\ preview = [shown |-> None, request |-> 0, due |-> FALSE] /\ previews = {}
    /\ root = 1 /\ usage = [shown |-> None, loading |-> None]
    /\ excluded = Albums /\ known = [ids |-> {}, ready |-> FALSE, token |-> 0]
    /\ manager = ClosedManager @@ [request |-> 1] /\ lists = {} /\ batch = NoBatch

Autostart ==
    \/ Focus \/ \E enabled \in BOOLEAN : Change(enabled)
    \/ \E c \in osCalls : OsServes(c) \/ ReadAnswered(c) \/ ChangeAnswered(c)

PreviewAndUsage ==
    \/ \E t \in Templates : EditTemplate(t)
    \/ PreviewTimer \/ \E c \in previews : PreviewAnswered(c)
    \/ RefreshUsage \/ UsageAnswered \/ \E folder \in {1, 2} : SetRoot(folder)

Exclusions ==
    \/ Hydrate \/ LoadExclusionManager \/ CloseExclusionManager
    \/ \E c \in lists : ListServed(c) \/ ListAnswered(c)
    \/ \E a \in Albums : SelectExclusion(a)
    \/ RestoreExclusions \/ BatchServed \/ BatchRestored \/ BatchFailed

Next ==
    \/ \E t \in Tabs : SelectTab(t)
    \/ Autostart \/ PreviewAndUsage \/ Exclusions

Spec == Init /\ [][Next]_vars

----
(* Properties. *)

\* A status on screen without a failure message, that nothing is refreshing,
\* is what Windows has, although changes and reads overlap and fail and the
\* panel may have been left meanwhile (AutostartSetting.tsx: "must read the
\* final OS state, not an older response"); a panel that was unmounted during
\* a change is excepted.
SwitchShowsWindows ==
    Active /\ auto.status # None /\ ~auto.failure /\ osCalls = {} /\ ~abandoned
        => auto.status = os

\* Once the exclusions are said to be known they are the backend's, except
\* for a restore whose answer is still on its way: a list read before a
\* restore never brings the restored album back into the exclusions.
KnownExclusionsAreCurrent ==
    known.ready /\ batch.at # "ok" => known.ids = excluded
====
