----------------------------- MODULE GameScreen -----------------------------
(***************************************************************************)
(* The screen that runs a game (web/src/pages/GameDay.tsx, with            *)
(* useGameDetail, useGameActions, usePayments, useDeleteGame, GameBar and  *)
(* the season's list of games AdminShell keeps): which game is chosen,     *)
(* which one is shown, what its buttons ask for and how the page is read   *)
(* again afterwards.  What the server does with a request is the table of  *)
(* GameLifecycle; everything else of a game is a count of its edits.       *)
(* Requests of one page are answered in any order, or never.               *)
(***************************************************************************)
EXTENDS Naturals, FiniteSets, FiniteSetsExt, GameLifecycle

CONSTANTS Games,      \* ids, in the order of the dates played
          Unrecorded, \* those not registered when the page is opened
          Deletable,  \* those that may be deleted (a bound)
          Today,      \* the first game not in the past
          MaxEdits,   \* edits of a game (a bound)
          MaxCalls,   \* requests on their way at once (a bound)
          Habits,     \* what is done without waiting: "chooses", "presses", "drags"
          LosesAnswers,
          None

VARIABLES server,  \* each game as it is stored, or None
          listed,  \* the status of each game of the season, as the page last read it
          lists,   \* the reads of that list on their way
          chosen,  \* the game chosen, or None
          detail,  \* the game shown, or None
          reads,   \* the reads a choice started and no later choice dropped
          calls,   \* the requests of the buttons, each until the page is read again
          busy     \* the buttons of the bar and of the convocatoria are disabled

vars == <<server, listed, lists, chosen, detail, reads, calls, busy>>

Slots == 1..MaxCalls

Moves == GameActions \cup {"move"}      \* useGameActions: one busy for all
Kinds == Moves \cup {"pay", "save", "teams", "delete", "record"}

Stored == [position : Positions, edits : 0..MaxEdits]
Detail == [game : Games, state : GameStates, edits : 0..MaxEdits]
Listing == [Games -> GameStates \cup {"none"}]

\* What GET /games/:gameId and GET /seasons/:id/games answer; no game is no question.
View(g) == IF g = None \/ server[g] = None THEN None
           ELSE [game |-> g, state |-> server[g].position.status, edits |-> server[g].edits]
Listed == [g \in Games |-> IF server[g] = None THEN "none" ELSE server[g].position.status]

Read == [game : Games, answered : BOOLEAN, view : Detail \cup {None}]
Call == [kind : Kinds, game : Games, back : Games \cup {None},
         stage : {"sent", "done", "reload", "answered"}, view : Detail \cup {None}]

GameScreenAssumption ==
    /\ Games \subseteq Nat \ {0} /\ IsFiniteSet(Games) /\ Unrecorded \cup Deletable \subseteq Games
    /\ Today \in Nat /\ MaxEdits \in Nat /\ MaxCalls \in Nat \ {0}
    /\ Habits \subseteq {"chooses", "presses", "drags"} /\ LosesAnswers \in BOOLEAN
    /\ None \notin Games \cup Stored \cup Detail \cup Call

\* Every part of the page is what it is said to be, no choice is read twice, and the
\* bar is not left disabled with nothing on its way.
TypeOK ==
    /\ server \in [Games -> Stored \cup {None}]
    /\ listed \in Listing
    /\ lists \subseteq [slot : Slots, answered : BOOLEAN, rows : Listing]
    /\ chosen \in Games \cup {None} /\ detail \in Detail \cup {None}
    /\ reads \subseteq Read /\ Cardinality(reads) <= 1
    /\ calls \in [Slots -> Call \cup {None}]
    /\ busy => \E s \in Slots : calls[s] # None /\ calls[s].kind \in Moves

NoRows == [g \in Games |-> "none"]
New == [position |-> At(Open), edits |-> 0]

Init ==
    /\ server = [g \in Games |-> IF g \in Unrecorded THEN None ELSE New]
    /\ listed = NoRows /\ lists = {[slot |-> 1, answered |-> FALSE, rows |-> NoRows]}
    /\ chosen = None /\ detail = None /\ reads = {}
    /\ calls = [s \in Slots |-> None] /\ busy = FALSE

NoCalls == \A s \in Slots : calls[s] = None
Quiet == reads = {} /\ NoCalls /\ lists = {}
Running(kind) == \E s \in Slots : calls[s] # None /\ calls[s].kind = kind
Asking(kind) == \E s \in Slots : calls[s] # None /\ calls[s].kind = kind /\ calls[s].stage \in {"sent", "done"}

-----------------------------------------------------------------------------
(* Which game *)

\* The next one that has not happened yet, else the latest one still to be played.
DefaultGame(rows) ==
    LET known    == {g \in Games : rows[g] # "none"}
        upcoming == {g \in known : g >= Today /\ rows[g] # Cancelled}
        waiting  == {g \in known : rows[g] \notin {Played, Cancelled}}
    IN IF upcoming # {} THEN Min(upcoming)
       ELSE IF waiting # {} THEN Max(waiting) ELSE None

\* The default is pinned once found; a change of game drops the read of the one before.
Choose(g, rows) ==
    LET to == IF g = None THEN DefaultGame(rows) ELSE g
    IN /\ chosen' = to
       /\ reads' = IF to = chosen THEN reads
                   ELSE IF to = None THEN {}
                   ELSE {[game |-> to, answered |-> FALSE, view |-> None]}

\* The two arrows and the list of the bar.
Select(g) ==
    /\ listed[g] # "none" /\ g # chosen
    /\ (NoCalls /\ lists = {}) \/ "chooses" \in Habits
    /\ Choose(g, listed)
    /\ UNCHANGED <<server, listed, lists, detail, calls, busy>>

-----------------------------------------------------------------------------
(* What the buttons ask for *)

\* The one next step (NextAction) and the menu of the bar.
NextStep == [open |-> "create", convocatoria_created |-> "confirm",
             convocatoria_confirmed |-> "play", cancelled |-> "uncancel"]
MenuItems(state) ==
    (IF state \in {Created, Confirmed} THEN {"create"} ELSE {})
    \cup (IF state = Played THEN {"reopen"} ELSE {})
    \cup (IF state # Cancelled THEN {"cancel"} ELSE {}) \cup {"delete"}

Patient == Quiet \/ "presses" \in Habits

Ask(kind, g, back) ==
    \E s \in Slots :
       /\ calls[s] = None /\ \A t \in Slots : t < s => calls[t] # None
       /\ calls' = [calls EXCEPT ![s] = [kind |-> kind, game |-> g, back |-> back,
                                         stage |-> "sent", view |-> None]]

\* A button of the bar acts on the game chosen; which ones there are, on the one shown.
\* The next step is not disabled while a game is being deleted.
PressBar(kind) ==
    /\ Patient /\ chosen # None /\ detail # None /\ ~busy
    /\ \/ detail.state \in DOMAIN NextStep /\ kind = NextStep[detail.state]
       \/ kind \in MenuItems(detail.state) /\ ~Running("delete")
    /\ kind = "delete" => chosen \in Deletable
    /\ Ask(kind, chosen, chosen)
    /\ busy' = (kind # "delete")
    /\ UNCHANGED <<server, listed, lists, chosen, detail, reads>>

\* What the part below the bar lets do in each state; a cancelled game is only read.
Offers == [open |-> {"save"}, convocatoria_created |-> {"save", "move"},
           convocatoria_confirmed |-> {"save", "move", "teams"},
           played |-> {"pay", "teams"}, cancelled |-> {}]

CanEdit(kind) == detail # None /\ kind \in Offers[detail.state] /\ detail.edits < MaxEdits

\* Somebody is moved across the line by a button, which is disabled while busy, ...
MoveMember ==
    /\ Patient /\ ~busy /\ chosen # None /\ CanEdit("move")
    /\ Ask("move", chosen, chosen) /\ busy' = TRUE
    /\ UNCHANGED <<server, listed, lists, chosen, detail, reads>>

\* ... or dragged, which nothing disables.
DragMember ==
    /\ "drags" \in Habits /\ chosen # None /\ CanEdit("move")
    /\ Ask("move", chosen, chosen) /\ busy' = TRUE
    /\ UNCHANGED <<server, listed, lists, chosen, detail, reads>>

\* A payment, which waits until the page is read again, acts on the game shown; ...
PayShare ==
    /\ Patient /\ CanEdit("pay") /\ ~Running("pay")
    /\ Ask("pay", detail.game, chosen)
    /\ UNCHANGED <<server, listed, lists, chosen, detail, reads, busy>>

\* ... so do the saved list and the pasted teams, which do not wait.
SaveBelow(kind) ==
    /\ Patient /\ CanEdit(kind) /\ ~Asking(kind)
    /\ Ask(kind, detail.game, chosen)
    /\ UNCHANGED <<server, listed, lists, chosen, detail, reads, busy>>

RecordGame(g) ==
    /\ Patient /\ server[g] = None /\ g \in Unrecorded /\ ~Running("record")
    /\ Ask("record", g, None)
    /\ UNCHANGED <<server, listed, lists, chosen, detail, reads, busy>>

-----------------------------------------------------------------------------
(* What the server does *)

Can(kind, g) ==
    IF server[g] = None THEN kind \in {"record", "delete"}
    ELSE LET position == server[g].position IN
         \/ kind \in GameActions /\ CanPerform(position, kind)
         \/ kind = "move" /\ Allows(position, "edit_convocatoria")
         \/ kind = "save" /\ Allows(position, "edit_apuntados")
         \/ kind \in {"pay", "teams"} /\ Allows(position, kind)
         \/ kind = "delete"

Done(kind, g) ==
    IF kind = "delete" THEN None
    ELSE IF kind = "record" THEN New
    ELSE IF kind \in GameActions
    THEN [server[g] EXCEPT !.position = NextPosition(@, kind)]
    ELSE [server[g] EXCEPT !.edits = IF @ < MaxEdits THEN @ + 1 ELSE @]

Perform(s) ==
    LET call == calls[s] IN
    /\ call # None /\ call.stage = "sent" /\ Can(call.kind, call.game)
    /\ server' = [server EXCEPT ![call.game] = Done(call.kind, call.game)]
    /\ calls' = [calls EXCEPT ![s].stage = "done"]
    /\ UNCHANGED <<listed, lists, chosen, detail, reads, busy>>

\* The games of the season are asked for again; nobody waits for the answer.
AskList ==
    /\ \E s \in Slots : (\A l \in lists : l.slot # s)
                        /\ lists' = lists \cup {[slot |-> s, answered |-> FALSE, rows |-> NoRows]}

FreeBusy(kind) == IF kind \in Moves THEN FALSE ELSE busy

\* Refused, for its state or for something else; or lost, before or after it was done.
\* The reason is shown and nothing is read again.
Refuse(s) ==
    LET call == calls[s] IN
    /\ call # None
    /\ \/ call.stage = "sent" /\ (~Can(call.kind, call.game) \/ call.kind = "create")
       \/ LosesAnswers /\ call.stage \in {"sent", "done"}
    /\ calls' = [calls EXCEPT ![s] = None] /\ busy' = FreeBusy(call.kind)
    /\ UNCHANGED <<server, listed, lists, chosen, detail, reads>>

AnswerRead(r) ==
    /\ ~r.answered
    /\ reads' = (reads \ {r}) \cup {[r EXCEPT !.answered = TRUE, !.view = View(r.game)]}
    /\ UNCHANGED <<server, listed, lists, chosen, detail, calls, busy>>

AnswerReload(s) ==
    /\ calls[s] # None /\ calls[s].stage = "reload"
    /\ calls' = [calls EXCEPT ![s].stage = "answered", ![s].view = View(calls[s].back)]
    /\ UNCHANGED <<server, listed, lists, chosen, detail, reads, busy>>

AnswerList(l) ==
    /\ ~l.answered
    /\ lists' = (lists \ {l}) \cup {[l EXCEPT !.answered = TRUE, !.rows = Listed]}
    /\ UNCHANGED <<server, listed, chosen, detail, reads, calls, busy>>

-----------------------------------------------------------------------------
(* What the page does with the answers *)

\* A fault: what was done is not read again.
FinishBlind(s) ==
    /\ calls[s] # None /\ calls[s].stage = "done" /\ calls[s].kind \notin {"delete", "record"}
    /\ calls' = [calls EXCEPT ![s] = None] /\ busy' = FreeBusy(calls[s].kind)
    /\ UNCHANGED <<server, listed, lists, chosen, detail, reads>>

\* The game is read again.
Reload(s) ==
    /\ calls[s] # None /\ calls[s].stage = "done" /\ calls[s].kind \notin {"delete", "record"}
    /\ calls' = [calls EXCEPT ![s].stage = "reload"]
    /\ UNCHANGED <<server, listed, lists, chosen, detail, reads, busy>>

\* A failed read leaves on screen what was there.
Shown(view) == IF view = None THEN detail ELSE view

\* The answer is shown whatever game is chosen by now; a change of state asks for the
\* list of games.
ShowReload(s, view) ==
    LET call == calls[s] IN
    /\ detail' = Shown(view)
    /\ IF call.kind \in GameActions THEN AskList ELSE UNCHANGED lists
    /\ calls' = [calls EXCEPT ![s] = None] /\ busy' = FreeBusy(call.kind)
    /\ UNCHANGED <<server, listed, chosen, reads>>

EndReload(s) ==
    /\ calls[s] # None /\ calls[s].stage = "answered" /\ ShowReload(s, calls[s].view)

LoseReload(s) ==
    /\ LosesAnswers /\ calls[s] # None /\ calls[s].stage \in {"reload", "answered"}
    /\ ShowReload(s, None)

\* The game deleted is no longer chosen nor shown, and the default is pinned again from
\* the list of games as it was.
EndDelete(s) ==
    /\ calls[s] # None /\ calls[s].stage = "done" /\ calls[s].kind = "delete"
    /\ detail' = None /\ Choose(None, listed) /\ AskList
    /\ calls' = [calls EXCEPT ![s] = None]
    /\ UNCHANGED <<server, listed, busy>>

EndRecord(s) ==
    /\ calls[s] # None /\ calls[s].stage = "done" /\ calls[s].kind = "record"
    /\ Choose(calls[s].game, listed) /\ AskList
    /\ calls' = [calls EXCEPT ![s] = None]
    /\ UNCHANGED <<server, listed, detail, busy>>

ShowRead(r) ==
    /\ r.answered
    /\ detail' = Shown(r.view) /\ reads' = reads \ {r}
    /\ UNCHANGED <<server, listed, lists, chosen, calls, busy>>

LoseRead(r) ==
    /\ LosesAnswers /\ reads' = reads \ {r}
    /\ UNCHANGED <<server, listed, lists, chosen, detail, calls, busy>>

\* The answer replaces the list whichever was asked for first.
ShowList(l) ==
    /\ l.answered
    /\ listed' = l.rows /\ lists' = lists \ {l}
    /\ Choose(chosen, l.rows)
    /\ UNCHANGED <<server, detail, calls, busy>>

LoseList(l) ==
    /\ LosesAnswers /\ lists' = lists \ {l}
    /\ UNCHANGED <<server, listed, chosen, detail, reads, calls, busy>>

-----------------------------------------------------------------------------
Press ==
    \/ \E g \in Games : Select(g) \/ RecordGame(g)
    \/ \E kind \in GameActions \cup {"delete"} : PressBar(kind)
    \/ MoveMember \/ DragMember \/ PayShare \/ \E kind \in {"save", "teams"} : SaveBelow(kind)

OfCall(s) == Perform(s) \/ Refuse(s) \/ Reload(s) \/ AnswerReload(s) \/ EndReload(s)
             \/ EndDelete(s) \/ EndRecord(s)

OfRead(g) == \E r \in reads : r.game = g /\ (AnswerRead(r) \/ ShowRead(r))
OfList(s) == \E l \in lists : l.slot = s /\ (AnswerList(l) \/ ShowList(l))

Losses == \/ \E r \in reads : LoseRead(r)
          \/ \E l \in lists : LoseList(l)
          \/ \E s \in Slots : LoseReload(s)

\* The page sits still when everything has been done.
Rest == Quiet /\ UNCHANGED vars

Next == \/ Press \/ Losses \/ Rest
        \/ \E s \in Slots : OfCall(s) \/ OfList(s)
        \/ \E g \in Games : OfRead(g)

Spec == Init /\ [][Next]_vars

-----------------------------------------------------------------------------
(* Properties *)

\* What is put on screen is an answer for the game chosen (useGameDetail, "an answer for
\* a game that is no longer chosen is dropped").
AnswersOfTheChosen ==
    detail' \notin {detail, None} => detail'.game = chosen'

\* A button acts on the game whose state and players are on screen when it is pressed
\* (GameBar, "which game, its state, its counters and the one next step").
ActsOnWhatIsShown ==
    \A s \in Slots : calls[s] = None /\ calls'[s] # None /\ calls'[s].kind # "record"
                        => calls'[s].game = detail.game

\* When nothing is on its way, the page shows the game and the season as they are stored
\* (useGameDetail, "kept fresh by reload").
SettledIsFresh ==
    Quiet => /\ detail # None => detail = View(detail.game)
             /\ listed = Listed

\* When nothing is on its way, the game chosen is one that exists (pickDefaultGame, "null
\* means the organiser has to choose or register one").
ChosenExists == Quiet /\ chosen # None => server[chosen] # None

\* One request of the bar or of the convocatoria at a time (useGuarded, "Runs one action
\* at a time").
OneAtATime ==
    Cardinality({s \in Slots : calls[s] # None /\ calls[s].kind \in Moves}) <= 1
=============================================================================
