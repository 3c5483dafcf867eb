---------------------------- MODULE GameLifecycle ----------------------------
(***************************************************************************)
(* The legal moves of a game and what each of its states lets someone do:  *)
(* the tables of server/src/domain/game-lifecycle.ts.  A position is a     *)
(* state together with the state a cancelled game remembers.  The refusal  *)
(* messages are left out: a move or a capability that is refused is one    *)
(* that is not in the table.                                               *)
(***************************************************************************)

Open      == "open"
Created   == "convocatoria_created"
Confirmed == "convocatoria_confirmed"
Played    == "played"
Cancelled == "cancelled"

LiveStates == {Open, Created, Confirmed, Played}
GameStates == LiveStates \union {Cancelled}

\* cancelled_from is null for every state but cancelled.
NotCancelled == "null"

At(state)            == [status |-> state, cancelledFrom |-> NotCancelled]
CancelledFrom(state) == [status |-> Cancelled, cancelledFrom |-> state]

\* CHECK ((status = 'cancelled') = (cancelled_from IS NOT NULL))
Positions == {At(s) : s \in LiveStates} \union {CancelledFrom(s) : s \in LiveStates}

GameActions == {"create", "confirm", "play", "reopen", "cancel", "uncancel"}

\* The states each action leaves from.
LeavesFrom ==
    [create   |-> {Open, Created, Confirmed},
     confirm  |-> {Created},
     play     |-> {Confirmed},
     reopen   |-> {Played},
     cancel   |-> LiveStates,
     uncancel |-> {Cancelled}]

\* Where it goes; uncancel goes back to whatever was remembered.
Destination ==
    [create   |-> Created,
     confirm  |-> Confirmed,
     play     |-> Played,
     reopen   |-> Confirmed,
     cancel   |-> Cancelled,
     uncancel |-> "remembered"]

CanPerform(position, action) == position.status \in LeavesFrom[action]

\* A fault: cancelling does not remember the state it left.
ForgetfulPosition(position, action) ==
    IF action = "uncancel" THEN At(position.cancelledFrom) ELSE At(Destination[action])

NextPosition(position, action) ==
    IF action = "uncancel" THEN At(position.cancelledFrom)
    ELSE IF action = "cancel" THEN CancelledFrom(position.status)
    ELSE At(Destination[action])

AllowedIn ==
    [edit_apuntados    |-> {Open, Created, Confirmed},
     edit_convocatoria |-> {Created, Confirmed},
     pay               |-> {Played},
     teams             |-> {Confirmed, Played}]

Allows(position, capability) == position.status \in AllowedIn[capability]
=============================================================================
