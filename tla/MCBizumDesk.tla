---------------------------- MODULE MCBizumDesk ----------------------------
(***************************************************************************)
(* The Bizum desk walked part by part: `walk` says which of the Bizums,    *)
(* the prices and the line-ups of the .cfg a behaviour keeps to.  A step   *)
(* is any step of BizumDesk that stays within them.                        *)
(***************************************************************************)
EXTENDS BizumDesk, TLC

CONSTANTS Walks,                  \* those that are walked
          Ana, Beto,              \* players
          Early, Late, Double     \* Bizums

VARIABLE walk

(* A year of two games, on days 1 and 3; Ana answers for Beto.  Two Bizums of a share in
   Ana's name, booked on days 2 and 3, and one of two shares from a phone. *)

NoPlusOnes   == [p \in Players |-> 0]
Year         == [s \in Seasons |-> 0]
YearEnds     == [s \in Seasons |-> 9]
OfTheYear    == [g \in Games |-> "year"]
OnDays1And3  == <<1, 3>>
WhoMayPlay   == <<{{Ana}, {Ana, Beto}}, {{Ana}}>>
AnaAnswers   == [p \in Players |-> Ana]

Oldest3      == <<Early, Late, Double>>
BookingDays  == [b \in Bizums |-> IF b = Early THEN 2 ELSE 3]
Amounts      == [b \in Bizums |-> IF b = Double THEN 4 ELSE 2]
Senders      == [b \in Bizums |-> IF b = Double THEN [name |-> None, phone |-> "600"]
                                                ELSE [name |-> "Ana", phone |-> None]]
NoWord       == [b \in Bizums |-> "none"]
AllIncoming  == [b \in Bizums |-> TRUE]

(* The same games in two seasons, and one Bizum, in the second. *)

SeasonStarts == [spring |-> 0, autumn |-> 2]
SeasonEnds   == [spring |-> 1, autumn |-> 9]
InTwoSeasons == <<"spring", "autumn">>
OnlyAna      == <<{{Ana}}, {{Ana}}>>
OnlyLate     == <<Late>>

ASSUME Assumptions == BizumDeskAssumption /\ BizumOrderAssumption

-----------------------------------------------------------------------------
Seen == {b \in Bizums : entry[b] # "unseen"}

\* The two equal Bizums, at one price.
InQueue == /\ Seen \subseteq {Early, Late}
           /\ shareCents = [s \in Seasons |-> 2]

\* The Bizum of two shares, or of one that became dearer, of a game of two.
InAmounts == /\ Seen \subseteq {Double}
             /\ names = [p \in Players |-> {}]
             /\ 1 \in played => <<1, Beto>> \in book.played

Within == /\ walk = "queue" => InQueue
          /\ walk = "amounts" => InAmounts

InitWalk == walk \in Walks /\ Init /\ Within
NextWalk == Next /\ UNCHANGED walk /\ Within'

SpecWalk == InitWalk /\ [][NextWalk]_<<walk, vars>>
=============================================================================
