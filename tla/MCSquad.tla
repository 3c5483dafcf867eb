------------------------------- MODULE MCSquad -------------------------------
(***************************************************************************)
(* The season and the lists, each walked by itself: `walk` says which, and *)
(* what belongs to the other stays as it starts, or is None.               *)
(***************************************************************************)
EXTENDS Season

CONSTANTS Walks,             \* those that are walked
          Ana, Bea, Javi,    \* players
          A, B, J,           \* and what a line may call them
          None

VARIABLES walk,
          db        \* of the lists

allVars == <<walk, vars, db>>

-----------------------------------------------------------------------------
(* Two places, one of them a mercy seat after two games out. *)

TwoSeats == [slots |-> 2, mercySeats |-> 1, gamesOutForMercy |-> 2,
             mercyResetsCounter |-> TRUE, bottomUp |-> TRUE]

OneMoreEach == [p \in 1..4 |-> p]

\* Four regulars over a season, of whom one may miss a game; they pay on the day and
\* nobody is moved by hand.
InWait == /\ game.guests = {} /\ Cardinality(Players \ game.signedUp) \in {0, 1, 4}
          /\ unpaid = [p \in Players |-> 0] /\ corrected = 0

\* Three of them for three games, and with guests, somebody who may pay late and a
\* correction by hand.
InPoints == /\ 4 \notin game.signedUp /\ game.guests \in {{}, {5}, {5, 6}}
            /\ Len(record[1]) <= 3

Within == /\ walk = "wait" => InWait
          /\ walk = "points" => InPoints

\* The games of a walk are over.
Over == walk = "points" /\ Len(record[1]) = 3

-----------------------------------------------------------------------------
(* What is pasted. *)

Written(kind, name, host) ==
    [kind |-> kind, name |-> name, host |-> host, nameLink |-> None, hostLink |-> None,
     introduced |-> FALSE]

JustAna    == Written("plain", A, None)
JustJavi   == Written("plain", J, None)
AnaPlusOne == Written("plusOne", None, A)
JaviOfAna  == Written("hosted", J, A)
JaviIsBea  == [JustJavi EXCEPT !.nameLink = Bea]

Named == [p \in {Ana, Bea, Javi} |-> CASE p = Ana -> A [] p = Bea -> B [] p = Javi -> J]

(* The list of a game and its convocatoria, while roles change and players are merged. *)

Entries == INSTANCE CandidateList WITH
    People <- {Ana, Bea, Javi}, Spellings <- {A, B, J}, Named <- Named,
    Known <- {Ana, Bea, Javi}, Before <- [p \in {Ana, Bea, Javi} |-> None],
    Games <- {1}, Texts <- {JustAna, JustJavi, AnaPlusOne, JaviIsBea},
    MaxLines <- 2, Slots <- 2, Operations <- {"create", "move", "role", "merge"}

(* Two games, one of them played or cancelled while roles change, or who introduced whom. *)

Roles == INSTANCE CandidateList WITH
    People <- {Ana, Javi}, Spellings <- {A, B, J}, Named <- [p \in {Ana, Javi} |-> Named[p]],
    Known <- {Ana, Javi}, Before <- [p \in {Ana, Javi} |-> IF p = Javi THEN "invitado" ELSE None],
    Games <- {1, 2}, Texts <- {JustJavi, JaviOfAna},
    MaxLines <- 1, Slots <- 2, Operations <- {"create", "play", "reopen", "cancel", "role", "introduce"}

(* Players registered, called by the same name, renamed, given hosts, merged and deleted; or
   signed up past the list. *)

Names == INSTANCE CandidateList WITH
    People <- {Ana, Bea, Javi}, Spellings <- {A, J},
    Named <- [p \in {Ana, Bea, Javi} |-> IF p = Ana THEN A ELSE J],
    Known <- {Ana}, Before <- [p \in {Ana, Bea, Javi} |-> None],
    Games <- {1}, Texts <- {JustJavi}, MaxLines <- 1, Slots <- 2,
    Operations <- {"register", "alias", "rename", "hosts", "delete", "merge"}

Direct == INSTANCE CandidateList WITH
    People <- {Ana, Bea, Javi}, Spellings <- {A, J},
    Named <- [p \in {Ana, Bea, Javi} |-> IF p = Ana THEN A ELSE J],
    Known <- {Ana, Bea}, Before <- [p \in {Ana, Bea, Javi} |-> None],
    Games <- {1}, Texts <- {JustJavi}, MaxLines <- 1, Slots <- 2,
    Operations <- {"direct", "delete", "merge"}

ASSUME Assumptions ==
    /\ SeasonAssumption /\ RulesAssumption
    /\ Entries!ListAssumption /\ Roles!ListAssumption /\ Names!ListAssumption
    /\ Direct!ListAssumption

-----------------------------------------------------------------------------
InitWalk ==
    /\ walk \in Walks
    /\ Init
    /\ \/ walk \in {"wait", "points"} /\ db = None
       \/ walk = "entries" /\ Entries!Init
       \/ walk = "roles" /\ Roles!Init
       \/ walk = "names" /\ Names!Init
       \/ walk = "direct" /\ Direct!Init

NextSeason  == walk \in {"wait", "points"} /\ Next /\ UNCHANGED <<walk, db>> /\ Within'
NextOver    == Over /\ UNCHANGED allVars
NextEntries == walk = "entries" /\ Entries!Next /\ UNCHANGED <<walk, vars>>
NextRoles   == walk = "roles" /\ Roles!Next /\ UNCHANGED <<walk, vars>>
NextNames   == walk = "names" /\ Names!Next /\ UNCHANGED <<walk, vars>>
NextDirect  == walk = "direct" /\ Direct!Next /\ UNCHANGED <<walk, vars>>

NextWalk == NextSeason \/ NextOver \/ NextEntries \/ NextRoles \/ NextNames \/ NextDirect

SpecWalk == InitWalk /\ [][NextWalk]_allVars

-----------------------------------------------------------------------------
(* Properties *)

\* WaitIsBounded, OnePointPerGame and NoEnvy are of Season.

\* The entries of a convocatoria are exactly those signed up and the anonymous guests,
\* whatever is saved, saved again or merged (convocatoria-edit-service.ts, "the entries
\* follow who is signed up"), and no list, role or host is left speaking of a player merged
\* or deleted.
EntriesFollowTheList ==
    /\ walk = "entries" => Entries!EntriesFollowTheList
    /\ walk = "names" => Names!TypeOK
    /\ walk = "direct" => Direct!TypeOK

\* A change of role or host leaves no fijo as a guest in a list that may still change, and
\* whoever played as a fijo stays one (player-directory-service.ts, season-role.ts).
RolesReachTheLists ==
    [][/\ walk = "roles" => Roles!RolesReachTheLists /\ Roles!PlayedAsFijoStays
       /\ walk = "names" => Names!RolesReachTheLists]_allVars

\* After a merge, whatever named one of the two names the one who stays
\* (player-merge-service.ts, "is kept as an alias so pasted lists keep matching").
MergeKeepsNames ==
    [][/\ walk = "names" => Names!MergeKeepsNames
       /\ walk = "direct" => Direct!MergeKeepsNames]_allVars
=============================================================================
