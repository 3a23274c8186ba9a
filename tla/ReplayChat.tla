---- MODULE ReplayChat ----
(***************************************************************************)
(* The chat beside a recording that is watched again.  It follows the      *)
(* player's clock, or shows the answer of a search, or a page of the whole *)
(* log.  Each of the three asks the native side by itself; a number,       *)
(* `generation`, is raised by whoever takes over, and an answer to an      *)
(* older number is dropped.  The native side refuses a number lower than   *)
(* one it has seen.                                                        *)
(*                                                                         *)
(* The component lives as long as one session, and the rendering that      *)
(* follows a change of state is part of the step.  Positions of the player *)
(* are steps of a fifth of a second; a page is what it was asked for.      *)
(***************************************************************************)
EXTENDS Integers, FiniteSets

CONSTANTS
    Times,          \* positions of the player
    Near,           \* pairs of them whose floating-point difference is below a fifth
    Queries,        \* texts that may be searched for
    MaxGeneration,  \* value of the generation (bound)
    MaxCorrections, \* corrections of the chat's clock (bound)
    None

VARIABLES
    chat,       \* the component: [following, query, log, loading, error, paging]
    page,       \* what is shown: [what, at, query, correction] or None
    generation, \* generation.current
    follow,     \* the effect that follows: [version, asked, busy, retry] or None
    search,     \* the effect that searches: [version, timer] or None
    time,       \* the player's clock
    correction, \* corrections of the chat's clock so far
    calls,      \* requests under way: [version, wants, answer]
    seen        \* the highest number the native side has seen

vars == <<chat, page, generation, follow, search, time, correction, calls, seen>>

Blank == "blank"
Never == 0

searching == chat.query # Blank
SameTime(t, u) == t = u \/ <<t, u>> \in Near

Window(t, c) == [what |-> "window", at |-> t, query |-> Blank, correction |-> c]
Found(q, c) == [what |-> "search", at |-> Never, query |-> q, correction |-> c]
Log == [what |-> "log", at |-> Never, query |-> Blank, correction |-> correction]
Call(version, wants) == [version |-> version, wants |-> wants, answer |-> None]

FollowAt(version, t) == [version |-> version, asked |-> t, busy |-> TRUE, retry |-> FALSE]

Init ==
    /\ time \in Times
    /\ chat = [following |-> TRUE, query |-> Blank, log |-> FALSE, loading |-> TRUE, error |-> FALSE,
               paging |-> FALSE]
    /\ page = None /\ generation = 1 /\ correction = 0 /\ seen = 0
    /\ follow = FollowAt(1, time) /\ search = None
    /\ calls = {Call(1, Window(time, 0))}

\* Room for whoever takes over: two numbers at most.
Room == generation + 2 <= MaxGeneration

----
(* Following.  The effect is set up again, with a number of its own and no
   page, whenever what it depends on changes. *)

StartFollowing(raised, t, c) ==
    /\ generation' = raised + 1
    /\ chat' = [chat EXCEPT !.following = TRUE, !.query = Blank, !.log = FALSE, !.loading = TRUE, !.error = FALSE]
    /\ page' = None /\ search' = None
    /\ follow' = FollowAt(raised + 1, t)
    /\ calls' = calls \cup {Call(raised + 1, Window(t, c))}

\* query: one question at a time, and none for the time last asked for.
Ask(f, c, t, cs) ==
    IF f.busy \/ (f.asked # Never /\ SameTime(t, f.asked)) THEN follow' = f /\ chat' = c /\ calls' = cs
    ELSE /\ follow' = [f EXCEPT !.asked = t, !.busy = TRUE]
         /\ chat' = [c EXCEPT !.loading = TRUE]
         /\ calls' = cs \cup {Call(f.version, Window(t, correction))}

\* The player plays on, and the clock asks again.
Tick(t) ==
    /\ t # time /\ time' = t
    /\ IF follow = None THEN UNCHANGED <<chat, follow, calls>> ELSE Ask(follow, chat, t, calls)
    /\ UNCHANGED <<page, generation, search, correction, seen>>

\* The index was being built a second ago.
Retry ==
    /\ follow # None /\ follow.retry
    /\ Ask([follow EXCEPT !.retry = FALSE, !.asked = Never], chat, time, calls)
    /\ UNCHANGED <<page, generation, search, time, correction, seen>>

\* A jump of the player shows the chat there, unless a search is on screen.
Seek(t) ==
    /\ Room /\ time' = t
    /\ IF searching THEN UNCHANGED <<chat, page, generation, follow, search, calls>>
       ELSE StartFollowing(generation, t, correction)
    /\ UNCHANGED <<correction, seen>>

\* The user scrolls away from the newest message.
onScroll ==
    /\ chat.following /\ Room
    /\ generation' = generation + 1
    /\ chat' = [chat EXCEPT !.following = FALSE, !.loading = FALSE] /\ follow' = None
    /\ UNCHANGED <<page, search, time, correction, calls, seen>>

\* Back to the player's position, or to that of a message on screen.
resume(t) ==
    /\ Room
    /\ page # None \/ (t = time /\ (~chat.following \/ chat.error))
    /\ time' = t
    /\ StartFollowing(generation + 1, t, correction)
    /\ UNCHANGED <<correction, seen>>

\* The answer of the question under way; the clock may have gone on meanwhile.
WindowAnswered(c) ==
    /\ c.answer # None /\ c.wants.what = "window"
    /\ IF follow = None \/ follow.version # c.version \/ generation # c.version
       THEN calls' = calls \ {c} /\ UNCHANGED <<chat, page, follow>>
       ELSE LET answered == [follow EXCEPT !.busy = FALSE, !.retry = @ \/ c.answer = "building"]
                told == [chat EXCEPT !.loading = FALSE, !.error = c.answer = "failed"] IN
            /\ page' = IF c.answer = "failed" THEN page ELSE c.wants
            /\ IF SameTime(time, c.wants.at)
               THEN follow' = answered /\ chat' = told /\ calls' = calls \ {c}
               ELSE Ask(answered, told, time, calls \ {c})
    /\ UNCHANGED <<generation, search, time, correction, seen>>

----
(* Searching: the effect waits a moment, then asks; and asks again while
   the index is being built. *)

StartSearching(raised, query, c) ==
    /\ generation' = raised + 1
    /\ chat' = [chat EXCEPT !.following = FALSE, !.query = query, !.log = TRUE, !.loading = TRUE, !.error = FALSE]
    /\ page' = None /\ follow' = None
    /\ search' = [version |-> raised + 1, timer |-> TRUE]
    /\ UNCHANGED calls

changeQuery(value) ==
    /\ value # chat.query /\ Room
    /\ IF value = Blank THEN StartFollowing(generation + 1, time, correction)
       ELSE StartSearching(generation + 1, value, correction)
    /\ UNCHANGED <<time, correction, seen>>

load ==
    /\ search # None /\ search.timer
    /\ search' = [search EXCEPT !.timer = FALSE]
    /\ calls' = calls \cup {Call(search.version, Found(chat.query, correction))}
    /\ UNCHANGED <<chat, page, generation, follow, time, correction, seen>>

\* The first page of a search; a page browsed to is answered below.
SearchAnswered(c) ==
    /\ c.answer # None /\ c.wants.what = "search" /\ c.wants.at = Never
    /\ calls' = calls \ {c}
    /\ IF search = None \/ search.version # c.version \/ generation # c.version
       THEN UNCHANGED <<chat, page, search>>
       ELSE /\ chat' = [chat EXCEPT !.loading = FALSE, !.error = @ \/ c.answer = "failed"]
            /\ page' = IF c.answer = "failed" THEN page ELSE c.wants
            /\ search' = [search EXCEPT !.timer = c.answer = "building"]
    /\ UNCHANGED <<generation, follow, time, correction, seen>>

\* "Try again" after a search that failed.
SearchAgain ==
    /\ searching /\ chat.error /\ Room
    /\ StartSearching(generation, chat.query, correction)
    /\ UNCHANGED <<time, correction, seen>>

----
(* Browsing the log, or the pages of a search: one page at a time, and it
   takes over from whatever was asked before. *)

browse(query, searches) ==
    /\ generation' = generation + 2
    /\ chat' = [chat EXCEPT !.following = FALSE, !.query = query, !.log = TRUE, !.loading = TRUE, !.error = FALSE,
                            !.paging = TRUE]
    /\ follow' = None /\ search' = searches
    /\ calls' = calls \cup
         {Call(generation + 2, IF query = Blank THEN Log ELSE [Found(query, correction) EXCEPT !.what = "more"])}

\* A page before or after the one on screen.
Turn ==
    /\ page # None /\ Room /\ ~chat.paging
    /\ chat.log => ~chat.loading
    /\ browse(chat.query, search)
    /\ UNCHANGED <<page, time, correction, seen>>

\* The whole log; while a page is still on its way only the search is left.
AllLog ==
    /\ ~chat.loading /\ Room
    /\ IF chat.paging
       THEN chat' = [chat EXCEPT !.query = Blank] /\ search' = None /\ UNCHANGED <<generation, follow, calls>>
       ELSE browse(Blank, None)
    /\ UNCHANGED <<page, time, correction, seen>>

PageAnswered(c) ==
    /\ c.answer # None /\ c.wants.what \in {"log", "more"}
    /\ calls' = calls \ {c}
    /\ IF generation # c.version
       THEN chat' = [chat EXCEPT !.paging = FALSE] /\ UNCHANGED page
       ELSE /\ chat' = [chat EXCEPT !.paging = FALSE, !.loading = FALSE, !.error = @ \/ c.answer = "failed"]
            /\ page' = IF c.answer = "failed" THEN page ELSE c.wants
    /\ UNCHANGED <<generation, follow, search, time, correction, seen>>

----
\* A correction of the chat's clock was saved: what follows or searches starts again.
Correct ==
    /\ correction < MaxCorrections /\ Room
    /\ correction' = correction + 1
    /\ IF searching THEN StartSearching(generation, chat.query, correction')
       ELSE IF chat.following THEN StartFollowing(generation, time, correction')
       ELSE UNCHANGED <<chat, page, generation, follow, search, calls>>
    /\ UNCHANGED <<time, seen>>

\* The native side: a number lower than one it has seen is refused.
Served(c) ==
    /\ c.answer = None
    /\ \E a \in {"ready", "building", "failed"} :
         /\ c.version < seen => a = "failed"
         /\ calls' = (calls \ {c}) \cup {[c EXCEPT !.answer = a]}
    /\ seen' = IF c.version > seen THEN c.version ELSE seen
    /\ UNCHANGED <<chat, page, generation, follow, search, time, correction>>

Answered == \E c \in calls : Served(c) \/ WindowAnswered(c) \/ SearchAnswered(c) \/ PageAnswered(c)
Follow == (\E t \in Times : Tick(t) \/ Seek(t) \/ resume(t)) \/ Retry \/ onScroll \/ Answered
Searching == (\E q \in Queries \cup {Blank} : changeQuery(q)) \/ load \/ SearchAgain
Next == Follow \/ Searching \/ Turn \/ AllLog \/ Correct

Spec == Init /\ [][Next]_vars

----
\* The page on screen is one for what the chat says it shows: messages while it follows, the text in
\* the search field while there is one; and it was asked for with the present correction.
PageAnswersTheAsk ==
    page # None =>
      /\ chat.following => page.what = "window" /\ page.correction = correction
      /\ searching => page.what # "log" /\ page.query = chat.query /\ page.correction = correction

\* A chat that follows and asks nothing shows the player's position, or says that it could not.
FollowsTheClock ==
    follow # None /\ ~follow.busy /\ ~chat.error => page # None /\ SameTime(time, page.at)

\* "Loading" ends: something is under way whose answer ends it.
LoadingIsServed ==
    chat.loading =>
      \/ follow # None /\ follow.busy
      \/ search # None /\ search.version = generation /\ search.timer
      \/ \E c \in calls : c.version = generation
====
