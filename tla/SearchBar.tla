---- MODULE SearchBar ----
(***************************************************************************)
(* The search bar: a draft of words with a caret, the suggestions for the  *)
(* word under it (asked for after a pause) or the searches of the past,    *)
(* completing and submitting; the search history and its removal; and the  *)
(* favourites, which may be toggled faster than they are saved.            *)
(***************************************************************************)
EXTENDS Integers, SequencesExt

CONSTANTS
    Words,
    Askable,        \* words long enough to have suggestions, of a known kind
    Suggested,      \* the suggestions for a word: sequence of words
    Languages,
    MaxSteps,       \* things the user does (bound)
    None

Drafts == {<<>>} \cup {<<[word |-> w, minus |-> n]>> : w \in Words, n \in BOOLEAN}
          \cup {<<[word |-> w, minus |-> FALSE], [word |-> v, minus |-> n]>> : w, v \in Words, n \in BOOLEAN}

VARIABLES
    bar,        \* [draft, caret, open, active, composing, menu, languages]
    tags,       \* [seq, timer, list, last]: tagSuggestions and the last question asked
    questions,  \* tagSuggestionsSearch under way: [seq, word]
    searches,   \* searches under way: [draft, served]
    history,    \* the backend's, newest first: sequence of drafts
    past,       \* searchHistory: [list, request]
    reads,      \* readings of it: [request, got]
    removal,    \* removeSearchHistory: [what, at], or None
    gone,       \* searches removed and not repeated since
    saved,      \* the backend's favourites
    stars,      \* favoriteMetadata
    intent,     \* pendingFavoriteIntents: [Words -> BOOLEAN or None]
    save,       \* favoriteSet under way for a word: [enabled, at], or None
    wish,       \* what the user last wanted and was not told to have failed
    starRead,   \* favoritesList at the start: [at, got]
    steps

typeVars == <<bar, tags, questions>>
pastVars == <<searches, history, past, reads, removal, gone>>
starVars == <<saved, stars, intent, save, wish, starRead>>
vars == <<typeVars, pastVars, starVars, steps>>

Step == steps < MaxSteps /\ steps' = steps + 1

----
(* Typing. *)

ActiveWord(b) == IF b.caret = 0 THEN None ELSE b.draft[b.caret].word
\* A minus sign in front of the word stays.
Replaced(b, w) ==
    IF b.caret = 0 THEN <<[word |-> w, minus |-> FALSE]>> ELSE [b.draft EXCEPT ![b.caret].word = w]

\* Nothing typed yet: the searches of the past.
Listed == IF bar.draft = <<>> THEN past.list ELSE tags.list

\* A change of the word asks again after a pause; a word too short empties the list.
Asking(b) ==
    tags' = IF ~b.open \/ b.composing THEN [tags EXCEPT !.timer = None]
            ELSE IF ActiveWord(b) \in Askable THEN [tags EXCEPT !.timer = ActiveWord(b)]
            ELSE [tags EXCEPT !.timer = None, !.seq = @ + 1, !.list = <<>>, !.last = None]
Becomes(b) ==
    /\ bar' = b /\ UNCHANGED <<questions, starVars>>
    /\ IF <<b.draft, b.caret, b.open>> # <<bar.draft, bar.caret, bar.open>> THEN Asking(b) ELSE UNCHANGED tags

Type(d) == /\ d # bar.draft /\ Step /\ UNCHANGED pastVars
           /\ Becomes([bar EXCEPT !.draft = d, !.caret = Len(d), !.open = TRUE, !.active = None])
Caret(c) == /\ c \in 1..Len(bar.draft) /\ c # bar.caret /\ Step /\ UNCHANGED pastVars
            /\ Becomes([bar EXCEPT !.caret = c])
Focus == ~bar.open /\ Step /\ UNCHANGED pastVars /\ Becomes([bar EXCEPT !.open = TRUE, !.active = None])
\* A click elsewhere, or Escape.
CloseTransient == /\ (bar.open \/ bar.menu) /\ Step /\ UNCHANGED pastVars
                  /\ Becomes([bar EXCEPT !.open = FALSE, !.active = None, !.menu = FALSE])
Compose == Step /\ UNCHANGED pastVars /\ Becomes([bar EXCEPT !.composing = ~@])
Arrow(down) ==
    LET n == Len(Listed)
    IN  /\ n > 0 /\ ~bar.composing /\ Step /\ UNCHANGED pastVars
        /\ Becomes([bar EXCEPT !.open = TRUE,
                               !.active = IF @ = None THEN IF down THEN 1 ELSE n
                                          ELSE IF down THEN (@ % n) + 1 ELSE ((@ + n - 2) % n) + 1])
ToggleLanguage(l) ==
    /\ Step /\ UNCHANGED pastVars
    /\ Becomes([bar EXCEPT !.menu = TRUE, !.languages = IF l \in @ THEN @ \ {l} ELSE @ \cup {l}])

TimerFires ==
    /\ tags.timer # None
    /\ tags' = [tags EXCEPT !.timer = None, !.seq = @ + 1, !.last = tags.timer]
    /\ questions' = questions \cup {[seq |-> tags.seq + 1, word |-> tags.timer]}
    /\ UNCHANGED <<bar, pastVars, starVars, steps>>

\* The entry chosen in a list that became shorter is given up.
Kept(list) == [bar EXCEPT !.active = IF @ # None /\ @ > Len(list) THEN None ELSE @]
Answered(q, late) ==
    /\ questions' = questions \ {q}
    /\ \E list \in {Suggested[q.word], <<>>} :
         /\ tags' = IF q.seq = tags.seq \/ late THEN [tags EXCEPT !.list = list] ELSE tags
         /\ bar' = IF bar.draft = <<>> THEN bar ELSE Kept(tags'.list)
    /\ UNCHANGED <<pastVars, starVars, steps>>
\* Only the answer to the last question is shown.
TagsAnswered(q) == Answered(q, FALSE)

----
(* Submitting. *)

Submitted(d, background) ==
    /\ searches' = searches \cup {[draft |-> d, served |-> FALSE]}
    /\ Becomes(IF background THEN bar
               ELSE [bar EXCEPT !.draft = d, !.caret = Len(d), !.open = FALSE, !.active = None])
    /\ UNCHANGED <<history, past, reads, removal, gone>>

\* complete: a search of the past is repeated, a word put in place and searched for.
Choose(i, background) ==
    /\ bar.open /\ i \in DOMAIN Listed /\ Step
    /\ Submitted(IF bar.draft = <<>> THEN Listed[i] ELSE Replaced(bar, Listed[i]), background)
Submit ==
    /\ ~bar.composing /\ Step
    /\ IF bar.active # None /\ bar.active \in DOMAIN Listed
       THEN Submitted(IF bar.draft = <<>> THEN Listed[bar.active] ELSE Replaced(bar, Listed[bar.active]), FALSE)
       ELSE Submitted(bar.draft, FALSE)
\* The Tab key only puts the word in place.
Complete ==
    /\ bar.active # None /\ bar.active \in DOMAIN Listed /\ bar.draft # <<>> /\ Step /\ UNCHANGED pastVars
    /\ LET d == Replaced(bar, Listed[bar.active])
       IN  Becomes([bar EXCEPT !.draft = d, !.caret = Len(d), !.open = FALSE, !.active = None])

----
(* The searches of the past. *)

\* What remains of a list.
Without(list, ds) ==
    LET First[i \in 0..Len(list)] ==
          IF i = 0 THEN <<>> ELSE IF list[i] \notin ds THEN Append(First[i-1], list[i]) ELSE First[i-1]
    IN  First[Len(list)]
Reread(p) == /\ past' = [p EXCEPT !.request = @ + 1]
             /\ reads' = reads \cup {[request |-> p.request + 1, got |-> <<FALSE>>]}

SearchServed(s) ==
    /\ ~s.served /\ searches' = (searches \ {s}) \cup {[s EXCEPT !.served = TRUE]}
    /\ history' = <<s.draft>> \o Without(history, {s.draft}) /\ gone' = gone \ {s.draft}
    /\ UNCHANGED <<typeVars, past, reads, removal, starVars, steps>>
SearchAnswered(s) ==
    /\ s.served /\ searches' = searches \ {s} /\ Reread(past)
    /\ UNCHANGED <<typeVars, history, removal, gone, starVars, steps>>
HistoryServed(r) ==
    /\ r.got = <<FALSE>> /\ reads' = (reads \ {r}) \cup {[r EXCEPT !.got = <<TRUE, history>>]}
    /\ UNCHANGED <<typeVars, searches, history, past, removal, gone, starVars, steps>>
HistoryAnswered(r) ==
    /\ Len(r.got) = 2 /\ reads' = reads \ {r}
    /\ \E ok \in BOOLEAN : past' = IF ok /\ r.request = past.request THEN [past EXCEPT !.list = r.got[2]] ELSE past
    /\ bar' = IF bar.draft = <<>> THEN Kept(past'.list) ELSE bar
    /\ removal' = IF removal # None /\ removal.at = r.request THEN None ELSE removal
    /\ UNCHANGED <<tags, questions, searches, history, gone, starVars, steps>>

\* One removal at a time; what is being read is outdated already.
RemoveHistory(all, d) ==
    /\ bar.open /\ bar.draft = <<>> /\ d \in ToSet(past.list) /\ removal = None /\ Step
    /\ removal' = [all |-> all, what |-> d, at |-> -1] /\ past' = [past EXCEPT !.request = @ + 1]
    /\ Becomes([bar EXCEPT !.active = None])
    /\ UNCHANGED <<searches, history, reads, gone>>
RemoveServed ==
    /\ removal # None /\ removal.at = -1
    /\ history' = IF removal.all THEN <<>> ELSE Without(history, {removal.what})
    /\ gone' = gone \cup IF removal.all THEN ToSet(history) ELSE {removal.what}
    /\ removal' = [removal EXCEPT !.at = -2]
    /\ UNCHANGED <<typeVars, searches, past, reads, starVars, steps>>

Shortened == [past EXCEPT !.list = IF removal.all THEN <<>> ELSE Without(@, {removal.what})]
\* The shown list is shortened at once and read again.
RemoveAnswered ==
    /\ removal # None /\ removal.at = -2 /\ Reread(Shortened)
    /\ removal' = [removal EXCEPT !.at = past'.request]
    /\ bar' = IF bar.draft = <<>> THEN Kept(past'.list) ELSE bar
    /\ UNCHANGED <<tags, questions, searches, history, gone, starVars, steps>>
RemoveFails ==
    /\ removal # None /\ removal.at = -1 /\ removal' = None
    /\ UNCHANGED <<typeVars, searches, history, past, reads, gone, starVars, steps>>

----
(* Favourites. *)

\* Wishes made while one is being saved replace each other.
ToggleFavorite(w, tutorial) ==
    LET now == IF intent[w] # None THEN intent[w] ELSE w \in stars
        want == tutorial \/ ~now
    IN  /\ ~(tutorial /\ save[w] # None) /\ Step
        /\ intent' = [intent EXCEPT ![w] = want] /\ wish' = [wish EXCEPT ![w] = want]
        /\ save' = IF save[w] # None THEN save ELSE [save EXCEPT ![w] = [enabled |-> want, at |-> "sent"]]
        /\ UNCHANGED <<typeVars, pastVars, saved, stars, starRead>>
SaveServed(w) ==
    /\ save[w] # None /\ save[w].at = "sent"
    /\ \/ /\ save' = [save EXCEPT ![w].at = "ok"]
          /\ saved' = IF save[w].enabled THEN saved \cup {w} ELSE saved \ {w}
       \/ save' = [save EXCEPT ![w].at = "failed"] /\ UNCHANGED saved
    /\ UNCHANGED <<typeVars, pastVars, stars, intent, wish, starRead, steps>>

\* Saved once, whatever the wish has become.
SaveAnsweredOnce(w) ==
    /\ save[w] # None /\ save[w].at # "sent"
    /\ stars' = IF save[w].at = "failed" THEN stars ELSE IF save[w].enabled THEN stars \cup {w} ELSE stars \ {w}
    /\ save' = [save EXCEPT ![w] = None] /\ intent' = [intent EXCEPT ![w] = None]
    /\ wish' = IF save[w].at = "failed" THEN [wish EXCEPT ![w] = None] ELSE wish
    /\ UNCHANGED <<typeVars, pastVars, saved, starRead, steps>>
\* Saved again until what was saved is the wish; a failure drops it.
SaveAnswered(w) ==
    /\ save[w] # None /\ save[w].at # "sent"
    /\ stars' = IF save[w].at = "failed" THEN stars ELSE IF save[w].enabled THEN stars \cup {w} ELSE stars \ {w}
    /\ IF save[w].at = "ok" /\ intent[w] # save[w].enabled
       THEN save' = [save EXCEPT ![w] = [enabled |-> intent[w], at |-> "sent"]] /\ UNCHANGED intent
       ELSE save' = [save EXCEPT ![w] = None] /\ intent' = [intent EXCEPT ![w] = None]
    /\ wish' = IF save[w].at = "failed" THEN [wish EXCEPT ![w] = None] ELSE wish
    /\ UNCHANGED <<typeVars, pastVars, saved, starRead, steps>>

\* hydrateFavorites: nothing guards its answer.
FavoritesServed ==
    /\ starRead.at = "sent" /\ starRead' = [at |-> "served", got |-> saved]
    /\ UNCHANGED <<typeVars, pastVars, saved, stars, intent, save, wish, steps>>
FavoritesAnswered ==
    /\ starRead.at = "served" /\ starRead' = [at |-> "done", got |-> {}]
    /\ stars' \in {starRead.got, stars}
    /\ UNCHANGED <<typeVars, pastVars, saved, intent, save, wish, steps>>

----
Init ==
    /\ bar = [draft |-> <<>>, caret |-> 0, open |-> FALSE, active |-> None, composing |-> FALSE, menu |-> FALSE,
              languages |-> {}]
    /\ tags = [seq |-> 0, timer |-> None, list |-> <<>>, last |-> None] /\ questions = {}
    /\ searches = {} /\ history = <<>> /\ past = [list |-> <<>>, request |-> 0] /\ reads = {} /\ removal = None
    /\ gone = {}
    /\ saved \in SUBSET Words /\ stars = {} /\ intent = [w \in Words |-> None] /\ save = [w \in Words |-> None]
    /\ wish = [w \in Words |-> None] /\ starRead = [at |-> "sent", got |-> {}]
    /\ steps = 0

Typing ==
    \/ \E d \in Drafts : Type(d)
    \/ \E c \in 1..2 : Caret(c)
    \/ \E down \in BOOLEAN : Arrow(down)
    \/ \E l \in Languages : ToggleLanguage(l)
    \/ \E q \in questions : TagsAnswered(q)
    \/ Focus \/ CloseTransient \/ Compose \/ TimerFires \/ Complete
Searching ==
    \/ \E i \in 1..2, background \in BOOLEAN : Choose(i, background)
    \/ Submit
    \/ \E s \in searches : SearchServed(s) \/ SearchAnswered(s)
    \/ \E r \in reads : HistoryServed(r) \/ HistoryAnswered(r)
    \/ \E all \in BOOLEAN, d \in Drafts : RemoveHistory(all, d)
    \/ RemoveServed \/ RemoveAnswered \/ RemoveFails
Starring ==
    \/ \E w \in Words : SaveServed(w) \/ SaveAnswered(w) \/ \E tutorial \in BOOLEAN : ToggleFavorite(w, tutorial)
    \/ FavoritesServed \/ FavoritesAnswered

Next == Typing \/ Searching \/ Starring

Spec == Init /\ [][Next]_vars

----
\* The suggestions shown answer the question asked last, however the answers to the
\* ones before overtake each other.
SuggestionsAnswerTheLast ==
    tags.list # <<>> /\ (\A q \in questions : q.seq # tags.seq) => tags.last # None /\ tags.list = Suggested[tags.last]

\* A search removed from the history is not shown again by a reading that was under
\* way, once the removal is over, unless it is repeated.
RemovedStaysGone == removal = None => gone \cap ToSet(past.list) = {}

\* When nothing is being saved any more the backend has the user's last wish, unless
\* saving it failed.
LastWishIsSaved == \A w \in Words : save[w] = None /\ wish[w] # None => (w \in saved) = wish[w]
====
