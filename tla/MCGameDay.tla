----------------------------- MODULE MCGameDay -----------------------------
EXTENDS GameDay, TLC
CONSTANTS g1, s1, ana, beto, caro
MCSeasonOf == [g \in Games |-> s1]
NoUsualHosts == [p \in Players |-> {}]
NoPlusOnes == [p \in Players |-> 0]
RegularsAlike == Permutations(Players)
BetoOfAna == [p \in Players |-> IF p = beto THEN {ana} ELSE {}]
OnePlusOneOfAna == [p \in Players |-> IF p = ana THEN 1 ELSE 0]
=============================================================================
