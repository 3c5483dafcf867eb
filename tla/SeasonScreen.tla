----------------------------- MODULE SeasonScreen -----------------------------
(***************************************************************************)
(* Which season the organiser's page looks at, the lists it holds of it    *)
(* and the game it opens on: web/src/pages/AdminShell.tsx, Manage.tsx,     *)
(* GameDay.tsx, components/SeasonSection.tsx, NewSeasonPrompt.tsx,         *)
(* RecordPastGame.tsx and lib/defaultGame.ts, against the seasons and the  *)
(* games of the server.                                                    *)
(*                                                                         *)
(* What the page asks is a task: a request on its way and those that       *)
(* follow its answer.  A season is the year it starts in and a game its    *)
(* day, one a day.  What the page of a game shows is GameScreen's.         *)
(***************************************************************************)
EXTENDS Naturals, SequencesExt, FiniteSetsExt

CONSTANTS Seasons,       \* the years, those that may be created included
          FirstSeasons,  \* those created at the start
          SeasonOf,      \* the season each day falls in
          FirstGames, PlayedGames, \* the games there are, and those played
          Today,         \* the date of the clocks
          UtcToday,      \* and the one of UTC, which may still be the day before
          Patient,       \* the organiser presses nothing while an answer is awaited
          InOrder,       \* the network answers in the order it was asked
          Presses, Failures, \* how often (bounds)
          None

Days == DOMAIN SeasonOf

SeasonScreenAssumption ==
    /\ Seasons \subseteq Nat /\ IsFiniteSet(Seasons) /\ FirstSeasons \subseteq Seasons
    /\ Days \subseteq Nat /\ IsFiniteSet(Days) /\ SeasonOf \in [Days -> Seasons]
    /\ PlayedGames \subseteq FirstGames /\ FirstGames \subseteq Days
    /\ \A d \in FirstGames : SeasonOf[d] \in FirstSeasons
    /\ {Today, UtcToday} \subseteq Days /\ {Patient, InOrder} \subseteq BOOLEAN
    /\ {Presses, Failures} \subseteq Nat /\ None \notin Nat

VARIABLES seasons, games,     \* of the server
          season, listed,     \* of the page: the season looked at and those it may choose
          lists,              \* the lists read, and of which season they are
          missing,            \* the season the prompt offers to create
          tab, chosen,        \* the tab open, and the game of the game tab
          error, tasks, presses, failures

server == <<seasons, games>>
page   == <<season, listed, lists, missing, tab, chosen, error>>
bounds == <<presses, failures>>
vars   == <<server, page, tasks, bounds>>

Current(day) == IF SeasonOf[day] \in seasons THEN SeasonOf[day] ELSE None
GamesOf(s)   == {g \in games : SeasonOf[g] = s}

-----------------------------------------------------------------------------
(* The game the page opens on *)

\* The next game, or else the latest still to be closed.
Default(of) ==
    LET upcoming == {g \in of : g >= Today}
        waiting  == of \ PlayedGames
    IN IF upcoming # {} THEN Min(upcoming) ELSE IF waiting # {} THEN Max(waiting) ELSE None

NoGame == [day |-> None, byHand |-> FALSE]
Opened(of) == [day |-> Default(of), byHand |-> FALSE]

-----------------------------------------------------------------------------
(* Tasks *)

\* For the season looked at when it began; a day or a season is what it makes.
Task(steps, makes) ==
    [turn |-> 0, steps |-> steps, of |-> season, knew |-> listed, makes |-> makes,
     goes |-> None, here |-> tab = "game", answer |-> None]

Started(those, task) ==
    those \cup {[task EXCEPT !.turn = 1 + Max({0} \cup {t.turn : t \in those})]}

\* The lists of a season are read each time the page is told to look at it.
Looking(those, s) ==
    IF s = None THEN those ELSE Started(those, [Task(<<"data">>, None) EXCEPT !.of = s])

\* What is left of a task; there are no lists to read of no season.
Rest(t) == IF Tail(t.steps) = <<"data">> /\ t.of = None THEN <<>> ELSE Tail(t.steps)

\* The prompt's task will move the page to the season it was told is the current one.
Continued(t) ==
    IF Rest(t) = <<>> THEN tasks \ {t}
    ELSE Started(tasks \ {t},
            [t EXCEPT !.steps = Rest(t), !.answer = None,
                      !.goes = IF Head(t.steps) = "current" THEN t.answer.current ELSE t.goes])

Asks(t, step) == t.answer # None /\ Head(t.steps) = step

Init ==
    /\ seasons = FirstSeasons /\ games = FirstGames
    /\ season = None /\ listed = {} /\ lists = [of |-> None, games |-> {}] /\ missing = None
    /\ tab = "game" /\ chosen = NoGame /\ error = FALSE
    /\ tasks = Started({}, Task(<<"seasons">>, None))
    /\ presses = 0 /\ failures = 0

-----------------------------------------------------------------------------
(* What the organiser does *)

Waits == Patient => tasks = {}
Pressed(steps, makes) ==
    /\ Waits /\ presses < Presses /\ presses' = presses + 1
    /\ tasks' = Started(tasks, Task(steps, makes))
    /\ UNCHANGED <<server, page, failures>>

\* Another season in the list of Ajustes.
Choose(s) ==
    /\ Waits /\ presses < Presses /\ presses' = presses + 1
    /\ tab = "manage" /\ season # None /\ s \in listed \ {season}
    /\ season' = s /\ tasks' = Looking(tasks, s)
    /\ UNCHANGED <<server, listed, lists, missing, tab, chosen, error, failures>>

\* The page of the game is another one each time its tab is opened.
Open ==
    /\ Waits /\ season # None
    /\ \/ tab = "game" /\ tab' = "manage" /\ chosen' = NoGame
       \/ tab = "manage" /\ tab' = "game" /\ chosen' = Opened(lists.games)
    /\ tasks' = {[t EXCEPT !.here = FALSE] : t \in tasks}
    /\ UNCHANGED <<server, season, listed, lists, missing, error, bounds>>

Select(day) ==
    /\ Waits /\ tab = "game" /\ season # None /\ day \in lists.games \ {chosen.day}
    /\ chosen' = [day |-> day, byHand |-> TRUE]
    /\ UNCHANGED <<server, season, listed, lists, missing, tab, error, tasks, bounds>>

\* A game moved along, or a setting saved: what it may have changed is read again.
Save ==
    /\ season # None
    /\ Pressed(IF tab = "game" THEN <<"save", "data">> ELSE <<"save", "seasons", "data">>, None)

Record(day) ==
    /\ tab = "game" /\ season # None /\ day \notin games
    /\ \A t \in tasks : Head(t.steps) # "record"
    /\ Pressed(<<"record">>, day)

\* "+ Nueva temporada" of Ajustes, of the name typed.
CreateNamed(s) == tab = "manage" /\ season # None /\ Pressed(<<"create", "seasons", "data">>, s)

\* The prompt creates the season of today, and will move to it.
CreateMissing ==
    /\ missing # None /\ \A t \in tasks : Head(t.steps) # "prompt"
    /\ Pressed(<<"prompt", "current", "seasons", "data">>, missing)

-----------------------------------------------------------------------------
(* What the server answers *)

\* The current season is that of the date in UTC, the missing one that of the clock.
Answer(t) ==
    CASE Head(t.steps) = "seasons" ->
            [done |-> TRUE, all |-> seasons, current |-> Current(UtcToday),
             missing |-> IF Current(Today) = None THEN SeasonOf[Today] ELSE None]
      [] Head(t.steps) = "current" -> [done |-> TRUE, current |-> Current(UtcToday)]
      [] Head(t.steps) = "data" -> [done |-> TRUE, games |-> GamesOf(t.of)]
      [] Head(t.steps) \in {"create", "prompt"} -> [done |-> t.makes \notin seasons]
      [] Head(t.steps) = "record" -> [done |-> SeasonOf[t.makes] \in seasons]
      [] Head(t.steps) = "save" -> [done |-> TRUE]

InTurn(t) == InOrder => \A other \in tasks : t.turn <= other.turn

Perform ==
    \E t \in tasks :
        /\ t.answer = None /\ InTurn(t)
        /\ tasks' = (tasks \ {t}) \cup {[t EXCEPT !.answer = Answer(t)]}
        /\ seasons' = IF Head(t.steps) \in {"create", "prompt"} THEN seasons \cup {t.makes} ELSE seasons
        /\ games' = IF Head(t.steps) = "record" /\ SeasonOf[t.makes] \in seasons
                    THEN games \cup {t.makes} ELSE games
        /\ UNCHANGED <<page, bounds>>

-----------------------------------------------------------------------------
(* What the page does with the answers *)

\* A task that was to move the page to a season does it when it ends.
Moves(t) == Rest(t) = <<>> /\ t.goes # None


\* The season looked at is kept; the first time it is today's, or else the latest.
Kept(answer) ==
    IF season \in answer.all THEN season
    ELSE IF answer.current # None THEN answer.current
    ELSE IF answer.all # {} THEN Max(answer.all) ELSE None

SeasonsRead(t) ==
    /\ Asks(t, "seasons")
    /\ listed' = t.answer.all /\ missing' = t.answer.missing /\ error' = FALSE
    /\ season' = IF Moves(t) THEN t.goes ELSE Kept(t.answer)
    /\ tasks' = Looking(Continued(t), season')
    /\ UNCHANGED <<server, lists, tab, chosen, bounds>>

Moved(t) ==
    /\ season' = IF Moves(t) THEN t.goes ELSE season
    /\ tasks' = IF Moves(t) THEN Looking(Continued(t), t.goes) ELSE Continued(t)

\* The game the page opens on is fixed once there is one.
ListsRead(t) ==
    /\ Asks(t, "data")
    /\ lists' = [of |-> t.of, games |-> t.answer.games]
    /\ chosen' = IF tab = "game" /\ chosen.day = None THEN Opened(t.answer.games) ELSE chosen
    /\ Moved(t)
    /\ UNCHANGED <<server, listed, missing, tab, error, bounds>>

Saved(t) ==
    /\ Asks(t, "save") /\ tasks' = Continued(t)
    /\ UNCHANGED <<server, page, bounds>>

Created(t) ==
    /\ Asks(t, "create") /\ t.answer.done
    /\ season' = t.makes /\ tasks' = Looking(Continued(t), t.makes)
    /\ UNCHANGED <<server, listed, lists, missing, tab, chosen, error, bounds>>

PromptCreated(t) ==
    /\ Asks(t, "prompt") /\ t.answer.done /\ tasks' = Continued(t)
    /\ UNCHANGED <<server, page, bounds>>

CurrentRead(t) ==
    /\ Asks(t, "current") /\ tasks' = Continued(t)
    /\ UNCHANGED <<server, page, bounds>>

\* The page goes to the season of the game recorded, if it is one it lists.
GoesToTheGame(t) ==
    LET s == SeasonOf[t.makes]
    IN /\ season' = IF s # t.of /\ s \in t.knew THEN s ELSE season
       /\ tasks' = IF s = t.of THEN Looking(tasks \ {t}, t.of)
                   ELSE IF season' # season THEN Looking(tasks \ {t}, season') ELSE tasks \ {t}

Recorded(t) ==
    /\ Asks(t, "record") /\ t.answer.done
    /\ GoesToTheGame(t)
    /\ chosen' = IF t.here THEN [day |-> t.makes, byHand |-> TRUE] ELSE chosen
    /\ UNCHANGED <<server, listed, lists, missing, tab, error, bounds>>

Refused(t) ==
    /\ t.answer # None /\ ~t.answer.done
    /\ tasks' = tasks \ {t}
    /\ UNCHANGED <<server, page, bounds>>

Arrive ==
    \E t \in tasks :
        /\ InTurn(t)
        /\ \/ SeasonsRead(t) \/ ListsRead(t) \/ Saved(t) \/ Created(t)
           \/ PromptCreated(t) \/ CurrentRead(t) \/ Recorded(t) \/ Refused(t)

\* A request or its answer is lost: lists not read are told of and the task goes on,
\* anything else ends it.
Lose ==
    \E t \in tasks :
        /\ failures < Failures /\ failures' = failures + 1
        /\ \/ /\ Head(t.steps) \in {"seasons", "data"} /\ error' = TRUE
              /\ Moved(t)
           \/ /\ Head(t.steps) \notin {"seasons", "data"} /\ tasks' = tasks \ {t}
              /\ UNCHANGED <<season, error>>
        /\ UNCHANGED <<server, listed, lists, missing, tab, chosen, presses>>

Quiet == UNCHANGED vars   \* the organiser may always wait

Next ==
    \/ \E s \in Seasons : Choose(s) \/ CreateNamed(s)
    \/ \E d \in Days : Select(d) \/ Record(d)
    \/ Open \/ Save \/ CreateMissing \/ Perform \/ Arrive \/ Lose \/ Quiet

Spec == Init /\ [][Next]_vars

-----------------------------------------------------------------------------
(* What the code must satisfy *)

\* Everything is what it is said to be; the season looked at is one created, and each
\* request is of a turn of its own.
TypeOK ==
    /\ seasons \subseteq Seasons /\ games \subseteq Days /\ listed \subseteq seasons
    /\ season \in seasons \cup {None} /\ missing \in Seasons \cup {None}
    /\ lists.of \in seasons \cup {None} /\ lists.games \subseteq GamesOf(lists.of)
    /\ tab \in {"game", "manage"} /\ chosen.day \in games \cup {None}
    /\ error \in BOOLEAN /\ presses \in 0..Presses /\ failures \in 0..Failures
    /\ \A t \in tasks : t.steps # <<>> /\ \A other \in tasks \ {t} : t.turn # other.turn

\* "The players enrolled in the season": with nothing on its way and no failure told,
\* the players and games on the page are of the season it names, and all of them if no
\* answer was lost.
ListsAreOfTheSeason ==
    tasks = {} /\ ~error =>
        /\ lists.of = season
        /\ failures = 0 => lists.games = GamesOf(season)

\* "Move to the season just created, not the one being looked at": with nothing on its
\* way and no failure told, the game the page works on is of the season it names.
ChosenIsOfTheSeason ==
    tasks = {} /\ ~error /\ chosen.day # None => SeasonOf[chosen.day] = season

\* "Never simply the last game - that would quietly aim a paste at a long-finished game":
\* a game the organiser did not choose is not one already played in the past.
NeverAFinishedGame ==
    chosen.day # None /\ ~chosen.byHand => ~(chosen.day < Today /\ chosen.day \in PlayedGames)

\* "Keep the season being looked at": it changes only when a season is chosen, created
\* or gone to for its game, never by reading the lists again.
SeasonIsKept ==
    season \notin {None, season'} =>
        \/ tab = "manage" /\ presses' # presses
        \/ \E t \in tasks : t.makes # None /\ (t.answer # None \/ failures' # failures)
=============================================================================
