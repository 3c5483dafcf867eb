----------------------------- MODULE Selection ------------------------------
(***************************************************************************)
(* Who plays: server/src/domain/convocatoria.ts, exclusion-history.ts,     *)
(* points.ts and guest-slot-allocator.ts, and the choice between arrival   *)
(* and points of repo/convocatoria-service.ts.  A player is a number, in   *)
(* the alphabetical order that breaks ties; so is the arrival of a guest.  *)
(* Lists that the code sorts and cuts are here sets of those with few      *)
(* enough before them.                                                     *)
(***************************************************************************)
EXTENDS Integers, Sequences, FiniteSetsExt

CONSTANT Rules          \* the season's: see RulesType

RulesType == [slots : Nat \ {0}, mercySeats : Nat, gamesOutForMercy : Nat,
              mercyResetsCounter : BOOLEAN, bottomUp : BOOLEAN]

RulesAssumption == Rules \in RulesType

\* What a game leaves in a player's record: nothing, "none", or one of these.
Kinds == {"points", "demoted", "mercy"}
Scores(kind) == kind \in {"points", "demoted"}

-----------------------------------------------------------------------------
(* A player's record in the season: what each game left, in their order *)

Count(kinds, kind) == Cardinality({i \in DOMAIN kinds : kinds[i] = kind})

Waited(counter, kind) ==
    CASE kind = "none" -> counter
      [] Scores(kind) -> counter + 1
      [] kind = "mercy" /\ Rules.mercyResetsCounter -> 0
      [] kind = "mercy" /\ ~Rules.mercyResetsCounter -> counter - Rules.gamesOutForMercy

WaitCounter(kinds) ==
    LET after[n \in 0..Len(kinds)] == IF n = 0 THEN 0 ELSE Waited(after[n - 1], kinds[n])
    IN after[Len(kinds)]

Exclusions(kinds) == Cardinality({i \in DOMAIN kinds : Scores(kinds[i])})

\* Points are in hundredths.  What each season adds, 1 / (ln(n + 2) / ln 3), which
\* the code does not cut; no two sums that differ do so by a whole point.
Contribution == <<100, 79, 68, 61, 56, 53>>
SeniorityOf(seasons) ==
    LET upTo[n \in 0..seasons] == IF n = 0 THEN 0 ELSE upTo[n - 1] + Contribution[n]
    IN upTo[seasons]

Points(paidGames, kinds, seasons) ==
    100 * (paidGames + Exclusions(kinds)) + SeniorityOf(seasons)

-----------------------------------------------------------------------------
(* Regulars who overflow the slots: points, and the mercy rule *)

\* Those of S with fewer than n of S before them.
FirstOf(S, n, Before(_, _)) == {p \in S : Cardinality({q \in S : Before(q, p)}) < n}

Ahead(points, p, q) == points[p] > points[q] \/ (points[p] = points[q] /\ p < q)

\* Longest wait, then fewest mercy seats, then points.
Deserves(points, record, p, q) ==
    LET wait(r) == WaitCounter(record[r])
        mercies(r) == Count(record[r], "mercy")
    IN \/ wait(p) > wait(q)
       \/ wait(p) = wait(q) /\ mercies(p) < mercies(q)
       \/ wait(p) = wait(q) /\ mercies(p) = mercies(q) /\ Ahead(points, p, q)

\* A fault: the ones who have never been demoted are not preferred.
GivesWayByPoints(points, record, p, q) ==
    IF Rules.bottomUp THEN Ahead(points, q, p) ELSE Ahead(points, p, q)

\* Fewest demotions, then the end of the cut the season says.
GivesWay(points, record, p, q) ==
    LET demotions(r) == Count(record[r], "demoted")
    IN \/ demotions(p) < demotions(q)
       \/ /\ demotions(p) = demotions(q)
          /\ IF Rules.bottomUp THEN Ahead(points, q, p) ELSE Ahead(points, p, q)

Inside(S, points) == FirstOf(S, Rules.slots, LAMBDA p, q : Ahead(points, p, q))

Candidates(S, points, record) ==
    {p \in S \ Inside(S, points) : WaitCounter(record[p]) >= Rules.gamesOutForMercy}

\* A fault: the pairing of the two lists stops one short.
SwapsOneShort(S, points, record) ==
    Max({0, Min({Rules.mercySeats, Rules.slots, Cardinality(Candidates(S, points, record))}) - 1})

\* As many seats as there are rules, candidates and places for.
Swaps(S, points, record) ==
    Min({Rules.mercySeats, Rules.slots, Cardinality(Candidates(S, points, record))})

Promotees(S, points, record) ==
    FirstOf(Candidates(S, points, record), Swaps(S, points, record),
            LAMBDA p, q : Deserves(points, record, p, q))

Demotees(S, points, record) ==
    FirstOf(Inside(S, points), Swaps(S, points, record),
            LAMBDA p, q : GivesWay(points, record, p, q))

\* The seats when the regulars overflow the slots.  No guest plays.
ByPoints(S, points, record) ==
    LET mercy == Promotees(S, points, record)
        demoted == Demotees(S, points, record)
    IN [in |-> (Inside(S, points) \ demoted) \cup mercy, mercy |-> mercy, demoted |-> demoted]

\* The seats when they fit: guests fill what is left, in order of arrival.
ByArrival(S, guests) ==
    LET open == Max({0, Rules.slots - Cardinality(S)})
    IN [in |-> S \cup FirstOf(guests, open, LAMBDA g, h : g < h), mercy |-> {}, demoted |-> {}]

Selected(S, guests, points, record) ==
    IF Cardinality(S) <= Rules.slots THEN ByArrival(S, guests) ELSE ByPoints(S, points, record)
=============================================================================
