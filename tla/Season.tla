------------------------------- MODULE Season -------------------------------
(***************************************************************************)
(* A season of games, one after another: who signs up, whom the selection  *)
(* lets play, and the points each game leaves (server/src/repo/            *)
(* convocatoria-service.ts, standings-service.ts, exclusion-repository.ts  *)
(* and domain/played-derivation.ts).  Selection says who plays one game;   *)
(* what it is for, that everybody plays sooner or later, shows only over   *)
(* many, since each selection is made from the record the others left.     *)
(***************************************************************************)
EXTENDS Selection

CONSTANTS Players,      \* the regulars, as the numbers that order their names
          Guests,       \* guests who may come to a game, by arrival
          Seasons,      \* the seasons each regular has been in
          MaxAbsent,    \* regulars who may miss a game (a bound)
          LatePayers,   \* regulars who may pay later than the day
          Corrections,  \* how many of the games the organiser may correct (a bound)
          Games         \* games of the season (a bound)

SeasonAssumption ==
    /\ Players \subseteq Nat /\ Guests \subseteq Nat /\ Players \cap Guests = {}
    /\ IsFiniteSet(Players) /\ IsFiniteSet(Guests)
    /\ Seasons \in [Players -> 1..Len(Contribution)]
    /\ LatePayers \subseteq Players
    /\ MaxAbsent \in Nat /\ Corrections \in Nat /\ Games \in Nat

VARIABLES
    record,             \* of each regular, what each game of the season left
    unpaid,             \* of each regular, how many of the games they played are not paid
    game,               \* the last game
    corrected           \* how many games were corrected
vars == <<record, unpaid, game, corrected>>

NoGame == [signedUp |-> {}, guests |-> {}, playing |-> {},
         selection |-> [in |-> {}, mercy |-> {}, demoted |-> {}]]

Init ==
    /\ record = [p \in Players |-> <<>>]
    /\ unpaid = [p \in Players |-> 0]
    /\ game = NoGame
    /\ corrected = 0

-----------------------------------------------------------------------------
(* What a game leaves *)

\* A fault: a mercy seat the organiser takes away counts as one used.
KindAsChosen(selection, playing, p) ==
    CASE p \in selection.mercy -> "mercy"
      [] p \in playing \ selection.mercy -> "none"
      [] p \notin playing /\ p \in selection.demoted -> "demoted"
      [] p \notin playing \cup selection.mercy \cup selection.demoted -> "points"

\* Who plays is what the organiser settled, the kind what the selection chose.
KindOf(selection, playing, p) ==
    CASE p \in playing /\ p \in selection.mercy -> "mercy"
      [] p \in playing /\ p \notin selection.mercy -> "none"
      [] p \notin playing /\ p \in selection.demoted -> "demoted"
      [] p \notin playing /\ p \notin selection.demoted -> "points"

KindsOf(p) == [i \in DOMAIN record[p] |-> record[p][i].kind]

PaidGames(p) == Cardinality({i \in DOMAIN record[p] : record[p][i].playing}) - unpaid[p]

PointsNow == [p \in Players |-> Points(PaidGames(p), KindsOf(p), Seasons[p])]
KindsNow == [p \in Players |-> KindsOf(p)]

-----------------------------------------------------------------------------
(* A game *)

\* The organiser takes one out and puts another in, or leaves it.
Settled(selection, candidates) ==
    {selection.in}
    \cup IF corrected < Corrections
         THEN {(selection.in \ {p}) \cup {q} : p \in selection.in, q \in candidates \ selection.in}
         ELSE {}

\* A game leaves nothing of who did not sign up.
Away == [signedUp |-> FALSE, playing |-> FALSE, kind |-> "none"]

Played(signedUp, guests, selection, playing, late) ==
    /\ game' = [signedUp |-> signedUp, guests |-> guests,
                selection |-> selection, playing |-> playing]
    /\ record' = [p \in Players |->
                    Append(record[p],
                           IF p \in signedUp
                           THEN [signedUp |-> TRUE, playing |-> p \in playing,
                                 kind |-> KindOf(selection, playing, p)]
                           ELSE Away)]
    /\ unpaid' = [p \in Players |->
                    IF p \in late THEN unpaid[p] + 1 ELSE unpaid[p]]
    /\ corrected' = IF playing = selection.in THEN corrected ELSE corrected + 1

Play(signedUp, guests) ==
    /\ Cardinality(Players \ signedUp) <= MaxAbsent
    /\ \A p \in Players : Len(record[p]) < Games
    /\ \E points \in {PointsNow}, kinds \in {KindsNow} :
       \E selection \in {Selected(signedUp, guests, points, kinds)} :
       \E playing \in Settled(selection, signedUp \cup guests) :
       \E late \in SUBSET (playing \cap LatePayers) :
          Played(signedUp, guests, selection, playing, late)

\* Later on, a share left unpaid is paid.
Pay(p) ==
    /\ unpaid[p] > 0
    /\ unpaid' = [unpaid EXCEPT ![p] = @ - 1]
    /\ UNCHANGED <<record, game, corrected>>

Done ==
    /\ \A p \in Players : Len(record[p]) = Games
    /\ UNCHANGED vars

Next ==
    \/ \E signedUp \in SUBSET Players, guests \in SUBSET Guests : Play(signedUp, guests)
    \/ \E p \in Players : Pay(p)
    \/ Done

Spec == Init /\ [][Next]_vars

Seats == [in : SUBSET (Players \cup Guests), mercy : SUBSET Players, demoted : SUBSET Players]
TypeOK ==
    /\ \A p \in Players : /\ record[p] \in Seq([signedUp : BOOLEAN, playing : BOOLEAN,
                                              kind : Kinds \cup {"none"}])
                          /\ unpaid[p] \in 0..Len(record[p])
    /\ game \in [signedUp : SUBSET Players, guests : SUBSET Guests,
                 selection : Seats, playing : SUBSET (Players \cup Guests)]
    /\ corrected \in 0..Corrections

-----------------------------------------------------------------------------
(* Properties *)

\* Seats stay empty only when nobody waits for one, no guest plays while a regular
\* waits, and each mercy seat is taken from one who had theirs on points.
SeatsAreFair ==
    LET seats == game.selection.in
        waiting == (game.signedUp \cup game.guests) \ seats
    IN /\ Cardinality(seats) <= Rules.slots
       /\ waiting # {} => Cardinality(seats) = Rules.slots
       /\ waiting \cap Players # {} => seats \cap Guests = {}
       /\ Cardinality(game.selection.demoted) = Cardinality(game.selection.mercy)
       /\ game.selection.demoted \subseteq waiting

\* Each regular left out can be told why each other one plays: they have no fewer points;
\* or a mercy seat, after a wait no shorter than theirs; or whoever gave up a seat had
\* done it no more often.  Selection cuts two lists and swaps their heads: no line of it
\* compares one who plays with one who does not.
MayPlayBefore(selection, points, kinds, q, p) ==
    LET demotions(r) == Count(kinds[r], "demoted")
    IN CASE p \in selection.demoted /\ q \in selection.mercy -> points[p] >= points[q]
         [] p \in selection.demoted /\ q \notin selection.mercy -> demotions(p) <= demotions(q)
         [] p \notin selection.demoted /\ q \in selection.mercy ->
               WaitCounter(kinds[q]) >= Max({Rules.gamesOutForMercy, WaitCounter(kinds[p])})
         [] p \notin selection.demoted /\ q \notin selection.mercy -> points[q] >= points[p]

EachSeatIsJustified ==
    record' # record =>
      \A points \in {PointsNow}, kinds \in {KindsNow} :
      \A p \in game'.signedUp \ game'.selection.in :
      \A q \in game'.selection.in \cap Players :
         MayPlayBefore(game'.selection, points, kinds, q, p)

\* Every selection is fair, and none gives a seat that cannot be explained to whoever
\* stays out (convocatoria.ts).
NoEnvy == [][EachSeatIsJustified /\ SeatsAreFair']_vars

\* Whoever signs up to a game settles one point with it: by paying when they play, by
\* waiting when they do not, whatever seat they were given and whoever moved them.
OnePointPerGame ==
    \A p \in Players :
        LET signedUp == Cardinality({i \in DOMAIN record[p] : record[p][i].signedUp})
        IN PointsNow[p] = 100 * (signedUp - unpaid[p]) + SeniorityOf(Seasons[p])

\* The last games of a record, those they were left out of on points, one after another.
Streak(kinds) ==
    Cardinality({i \in DOMAIN kinds : \A j \in i..Len(kinds) : kinds[j] = "points"})

\* The mercy rule bounds the wait: with nobody moved by hand, nobody who keeps signing up
\* is left out on points longer than makes a candidate and once more for each other
\* regular, who takes the seat before them and starts to wait again.
StreakIsBounded ==
    corrected = 0 =>
      \A p \in Players :
         Streak(KindsOf(p)) < Rules.gamesOutForMercy + Cardinality(Players)

\* The games missed by the nth of a record, since the last mercy seat.
SinceMercy(kinds, n) ==
    {k \in 1..n : Scores(kinds[k]) /\ \A l \in k..n : kinds[l] # "mercy"}

\* A mercy seat is earned by waiting as many games as the season says since the last.
MercyIsEarned ==
    \A p \in Players : \A i \in DOMAIN record[p] :
       KindsOf(p)[i] = "mercy" =>
         Cardinality(SinceMercy(KindsOf(p), i - 1)) >= Rules.gamesOutForMercy

\* Both: nobody waits for ever, and nobody goes in before their wait
\* (exclusion-history.ts).
WaitIsBounded == StreakIsBounded /\ MercyIsEarned

\* docs/domain-model/README.md:41 keeps the mercy seats for those who "llevan al menos
\* 2 partidos seguidos sin entrar": the games before one in a mercy seat were missed
\* one after another.
MercyAfterStreak ==
    record' # record =>
      \A p \in game'.selection.mercy : \A i \in 0..(Rules.gamesOutForMercy - 1) :
         ~record[p][Len(record[p]) - i].playing
=============================================================================
