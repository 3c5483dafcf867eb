----------------------------- MODULE ShareLedger -----------------------------
(***************************************************************************)
(* What a game promises about its shares, whatever tables keep them.  A    *)
(* share is unbilled, owed or paid, and takes payments only while its game *)
(* does.  Entering that state bills shares and drops owed ones; leaving it *)
(* touches none; a paid share comes back only as an owed one, unless the   *)
(* whole game is forgotten.                                                *)
(***************************************************************************)
CONSTANTS Games, Members

VARIABLES taking,   \* the games that take payments
          share     \* what has become of each share

vars == <<taking, share>>

Stages == {"unbilled", "owed", "paid"}

TypeOK ==
    /\ taking \subseteq Games
    /\ share \in [Games -> [Members -> Stages]]

Init ==
    /\ taking = {}
    /\ share = [g \in Games |-> [m \in Members |-> "unbilled"]]

\* The shares of one game that go from one stage to another, the rest as they are.
Step(g, from, to, moved) ==
    /\ \A m \in moved : share[g][m] = from
    /\ share' = [share EXCEPT ![g] = [m \in Members |-> IF m \in moved THEN to ELSE @[m]]]

Start(g, billed, dropped) ==
    /\ g \notin taking
    /\ taking' = taking \union {g}
    /\ \A m \in billed : share[g][m] = "unbilled"
    /\ \A m \in dropped : share[g][m] = "owed"
    /\ share' = [share EXCEPT ![g] = [m \in Members |-> IF m \in billed THEN "owed"
                                                       ELSE IF m \in dropped THEN "unbilled"
                                                       ELSE @[m]]]

Stop(g) ==
    /\ g \in taking
    /\ taking' = taking \ {g}
    /\ UNCHANGED share

Pay(g, paid) ==
    /\ g \in taking
    /\ Step(g, "owed", "paid", paid)
    /\ UNCHANGED taking

Undo(g, undone) ==
    /\ g \in taking
    /\ Step(g, "paid", "owed", undone)
    /\ UNCHANGED taking

Forget(g) ==
    /\ taking' = taking \ {g}
    /\ share' = [share EXCEPT ![g] = [m \in Members |-> "unbilled"]]

Next ==
    \E g \in Games :
        \/ \E billed, dropped \in SUBSET Members : Start(g, billed, dropped)
        \/ Stop(g)
        \/ \E moved \in SUBSET Members : Pay(g, moved) \/ Undo(g, moved)
        \/ Forget(g)

Spec == Init /\ [][Next]_vars
=============================================================================
