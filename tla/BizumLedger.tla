---------------------------- MODULE BizumLedger ----------------------------
(***************************************************************************)
(* What the treasury promises about each transfer of the bank, whatever    *)
(* tables keep it.  A transfer is judged once: discarded for good, or kept *)
(* and then waiting or settled.  Only a settled one pays, never more than  *)
(* it is worth; it waits again only with all its money back; what is       *)
(* dismissed is over.  One transaction may move several transfers.         *)
(***************************************************************************)
EXTENDS Naturals

CONSTANTS Bizums, Amount

VARIABLES stage,   \* what has become of each transfer
          paid     \* how much of it is in payments

vars == <<stage, paid>>

Stages == {"unseen", "discarded", "waiting", "settled", "dismissed"}

TypeOK ==
    /\ stage \in [Bizums -> Stages]
    /\ paid \in [Bizums -> Nat]

Init ==
    /\ stage = [b \in Bizums |-> "unseen"]
    /\ paid = [b \in Bizums |-> 0]

Goes(b, from, to) == stage[b] \in from /\ stage'[b] = to

Discard(b) == Goes(b, {"unseen"}, "discarded") /\ paid'[b] = 0
Wait(b)    == Goes(b, {"unseen"}, "waiting") /\ paid'[b] = 0
Settle(b)  == Goes(b, {"unseen", "waiting"}, "settled") /\ paid'[b] \in 1..Amount[b]
Undo(b)    == Goes(b, {"settled"}, "waiting") /\ paid'[b] = 0
Dismiss(b) == Goes(b, {"waiting"}, "dismissed") /\ paid'[b] = 0

\* A game it paid for was forgotten, and its payments with it.
Lose(b) == Goes(b, {"settled"}, "settled") /\ paid'[b] < paid[b]

Stays(b) == stage'[b] = stage[b] /\ paid'[b] = paid[b]

Next ==
    \A b \in Bizums : \/ Discard(b) \/ Wait(b) \/ Settle(b) \/ Undo(b)
                      \/ Dismiss(b) \/ Lose(b) \/ Stays(b)

Spec == Init /\ [][Next]_vars
=============================================================================
