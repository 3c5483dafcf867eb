-------------------------------- MODULE Teams --------------------------------
(***************************************************************************)
(* The two teams of a game: the list pasted, read line by line             *)
(* (server/src/domain/team-list-parser.ts, repo/team-paste-service.ts), the *)
(* team stored of each player (team-assignment-service.ts) and what the    *)
(* Equipos panel keeps of its last paste (web/src/hooks/useTeamsPaste.ts). *)
(*                                                                         *)
(* The panel shows the answer of its own paste and never reads the teams   *)
(* again, while the convocatoria, the names known and the other            *)
(* organiser's panel go on changing what is stored.  A panel is left only  *)
(* with nothing on its way; a player's row removed with its team is left   *)
(* out (no page asks for it).                                              *)
(***************************************************************************)
EXTENDS Integers, FiniteSets, SequencesExt, GameLifecycle

CONSTANTS Players, Spellings,
          Fits,      \* the players each spelling is a name or a nickname of, at first
          Texts,     \* what is pasted: headings, separators and lines
          Pages,     \* the panels open on the game
          Pastes, Resolves, Changes, Failures, \* how often (bounds)
          Careful,   \* nobody already shown on a team is chosen for another line
          None

VARIABLES game,    \* its position, its convocatoria, the names known and how many pastes it had
          team,    \* the team stored of each player, and the paste it comes from
          pages,   \* of each page, what it shows and what it has asked
          pastes, resolves, changes, failures

vars == <<game, team, pages, pastes, resolves, changes, failures>>

Team == {"claros", "oscuros"}
Separator == "-----"
PlusOne == "+1"

Stored == [side : Team, paste : Nat]
MemberType == [position : Nat, team : Team, player : Players]
EntryType == [position : Nat, team : Team, text : Spellings, fits : SUBSET Players]
Result == [matched : SUBSET MemberType, outside : SUBSET MemberType,
           unresolved : SUBSET EntryType, paste : Nat]
Call == [op : {"paste"}, raw : Texts, answer : Result \cup {None}]
        \cup [op : {"resolve"}, entry : EntryType, of : Nat, player : Players,
              remember : BOOLEAN, answer : {None, "assigned"}]

TeamsAssumption ==
    /\ IsFiniteSet(Players) /\ Fits \in [Spellings -> SUBSET Players]
    /\ Texts \subseteq Seq(Spellings \cup Team \cup {Separator, PlusOne})
    /\ {Pastes, Resolves, Changes, Failures} \subseteq Nat /\ Careful \in BOOLEAN
    /\ None \notin Team \cup Stored \cup Result \cup Call \cup {"assigned"}

-----------------------------------------------------------------------------
(* Reading a paste *)

\* A heading switches the team, a separator is dropped, and a line before any
\* heading refuses the whole paste.
SplitByTeam(raw) ==
    FoldLeft(LAMBDA read, line :
                 CASE line \in Team -> [read EXCEPT !.team = line]
                   [] line = Separator -> read
                   [] line \notin Team \cup {Separator} /\ read.team = None ->
                         [read EXCEPT !.refused = TRUE]
                   [] OTHER -> [read EXCEPT !.lines = Append(@, [team |-> read.team, text |-> line])],
             [team |-> None, lines |-> <<>>, refused |-> FALSE], raw)

Matching(text) == Fits[text] \cup game.nicknames[text]

\* Pastes are numbered, to tell which one a team comes from; 0 is none yet.
Nothing == [matched |-> {}, outside |-> {}, unresolved |-> {}, paste |-> 0]

Member(i, line, p) == [position |-> i, team |-> line.team, player |-> p]
Entry(i, line)     == [position |-> i, team |-> line.team, text |-> line.text,
                       fits |-> Matching(line.text)]

\* A fault: a player named on several lines is matched on each of them.
MatchedAgain(result, member) ==
    IF member.player \in game.playing THEN [result EXCEPT !.matched = @ \cup {member}]
                                      ELSE [result EXCEPT !.outside = @ \cup {member}]

\* Only the first line that names a player counts.
Matched(result, member) ==
    CASE \E m \in result.matched \cup result.outside : m.player = member.player -> result
      [] \A m \in result.matched \cup result.outside : m.player # member.player ->
            IF member.player \in game.playing THEN [result EXCEPT !.matched = @ \cup {member}]
                                              ELSE [result EXCEPT !.outside = @ \cup {member}]

\* A `+1` names nobody; a name that fits nobody, or several, is kept as text.
ReadLine(result, lines, i) ==
    CASE lines[i].text = PlusOne -> result
      [] lines[i].text # PlusOne /\ Cardinality(Matching(lines[i].text)) # 1 ->
            [result EXCEPT !.unresolved = @ \cup {Entry(i, lines[i])}]
      [] lines[i].text # PlusOne /\ Cardinality(Matching(lines[i].text)) = 1 ->
            Matched(result, Member(i, lines[i], CHOOSE p \in Matching(lines[i].text) : TRUE))

ReadLines(lines) ==
    FoldLeft(LAMBDA result, i : ReadLine(result, lines, i),
             Nothing, [i \in DOMAIN lines |-> i])

-----------------------------------------------------------------------------
Init ==
    /\ game \in [position : {At(Confirmed)}, playing : SUBSET Players,
                 nicknames : {[s \in Spellings |-> {}]}, pasted : {0}]
    /\ team = [p \in Players |-> None]
    /\ pages = [g \in Pages |-> [shown |-> None, call |-> None]]
    /\ pastes = 0 /\ resolves = 0 /\ changes = 0 /\ failures = 0

Idle(g) == pages[g].call = None

\* "Registrar equipos".
Paste(g) ==
    /\ Idle(g) /\ pastes < Pastes
    /\ \E raw \in Texts :
          pages' = [pages EXCEPT ![g].call = [op |-> "paste", raw |-> raw, answer |-> None]]
    /\ pastes' = pastes + 1
    /\ UNCHANGED <<game, team, resolves, changes, failures>>

\* "Es este": one of the players an ambiguous name fitted when it was read, else anyone.
Choosable(entry) == IF entry.fits = {} THEN Players ELSE entry.fits

Resolve(g) ==
    /\ Idle(g) /\ resolves < Resolves /\ pages[g].shown # None
    /\ \E entry \in pages[g].shown.unresolved, remember \in BOOLEAN :
          \E p \in Choosable(entry) :
             /\ Careful => \A m \in pages[g].shown.matched : m.player # p
             /\ pages' = [pages EXCEPT ![g].call =
                    [op |-> "resolve", entry |-> entry, of |-> pages[g].shown.paste,
                     player |-> p, remember |-> remember, answer |-> None]]
    /\ resolves' = resolves + 1
    /\ UNCHANGED <<game, team, pastes, changes, failures>>

\* assign: every team is taken away, and those of the lines matched are set.
TeamsAssigned(result, number) ==
    [p \in Players |->
        LET m == {x \in result.matched : x.player = p}
        IN IF m = {} THEN None ELSE [side |-> (CHOOSE x \in m : TRUE).team, paste |-> number]]

PasteDone(g, raw) ==
    LET read == SplitByTeam(raw)
        result == ReadLines(read.lines)
    IN /\ Allows(game.position, "teams") /\ ~read.refused
       /\ team' = TeamsAssigned(result, game.pasted + 1)
       /\ game' = [game EXCEPT !.pasted = @ + 1]
       /\ pages' = [pages EXCEPT ![g].call.answer = [result EXCEPT !.paste = game.pasted + 1]]

\* The team of the line, for the player chosen.
Assigned(call) == [side |-> call.entry.team, paste |-> call.of]

ResolveDone(g, call) ==
    /\ Allows(game.position, "teams") /\ call.player \in game.playing
    /\ game' = IF call.remember
               THEN [game EXCEPT !.nicknames[call.entry.text] = @ \cup {call.player}]
               ELSE game
    /\ team' = [team EXCEPT ![call.player] = Assigned(call)]
    /\ pages' = [pages EXCEPT ![g].call.answer = "assigned"]

Refused(g, call) ==
    /\ \/ ~Allows(game.position, "teams")
       \/ call.op = "paste" /\ SplitByTeam(call.raw).refused
       \/ call.op = "resolve" /\ call.player \notin game.playing
    /\ pages' = [pages EXCEPT ![g].call = None]
    /\ UNCHANGED <<game, team>>

Perform(g) ==
    /\ ~Idle(g) /\ pages[g].call.answer = None
    /\ LET call == pages[g].call
       IN \/ Refused(g, call)
          \/ call.op = "paste" /\ PasteDone(g, call.raw)
          \/ call.op = "resolve" /\ ResolveDone(g, call)
    /\ UNCHANGED <<pastes, resolves, changes, failures>>

\* withSettled.
WithSettled(shown, call) ==
    [shown EXCEPT !.matched = @ \cup {Member(call.entry.position, call.entry, call.player)},
                  !.unresolved = @ \ {call.entry}]

\* The answer is shown; what else the page does with it is reading the game again.
Answered(g) ==
    LET call == pages[g].call
    IN /\ ~Idle(g) /\ call.answer # None
       /\ pages' = [pages EXCEPT ![g] =
             [shown |-> IF call.op = "paste" THEN call.answer ELSE WithSettled(@.shown, call),
              call |-> None]]
       /\ UNCHANGED <<game, team, pastes, resolves, changes, failures>>

Lose(g) ==
    /\ ~Idle(g) /\ failures < Failures
    /\ pages' = [pages EXCEPT ![g].call = None]
    /\ failures' = failures + 1
    /\ UNCHANGED <<game, team, pastes, resolves, changes>>

\* Another game or another tab is opened, or the game is shown played: the panel is new.
Leave(g) ==
    /\ Idle(g) /\ pages[g].shown # None
    /\ pages' = [pages EXCEPT ![g].shown = None]
    /\ UNCHANGED <<game, team, pastes, resolves, changes, failures>>

Move(p) ==
    /\ Allows(game.position, "edit_convocatoria") /\ changes < Changes
    /\ game' = [game EXCEPT !.playing = IF p \in @ THEN @ \ {p} ELSE @ \cup {p}]
    /\ changes' = changes + 1
    /\ UNCHANGED <<team, pages, pastes, resolves, failures>>

\* Creating the convocatoria again calls other players; nothing touches the teams.
Go(action) ==
    /\ CanPerform(game.position, action) /\ changes < Changes
    /\ \E called \in IF action = "create" THEN SUBSET Players ELSE {game.playing} :
          game' = [game EXCEPT !.position = NextPosition(@, action), !.playing = called]
    /\ changes' = changes + 1
    /\ UNCHANGED <<team, pages, pastes, resolves, failures>>

Quiet == UNCHANGED vars   \* the organisers may always wait

Next ==
    \/ \E g \in Pages : \/ Paste(g) \/ Resolve(g) \/ Perform(g) \/ Answered(g)
                        \/ Lose(g) \/ Leave(g)
    \/ \E p \in Players : Move(p)
    \/ \E action \in GameActions : Go(action)
    \/ Quiet

Spec == Init /\ [][Next]_vars

-----------------------------------------------------------------------------
(* What the code must satisfy *)

\* Everything kept is what it is said to be, and a name that fits exactly one
\* player is never left for the organiser.
TypeOK ==
    /\ game \in [position : Positions, playing : SUBSET Players,
                 nicknames : [Spellings -> SUBSET Players], pasted : 0..Pastes]
    /\ team \in [Players -> Stored \cup {None}]
    /\ \A p \in Players : team[p] # None => team[p].paste \in 1..Pastes
    /\ pages \in [Pages -> [shown : Result \cup {None}, call : Call \cup {None}]]
    /\ \A g \in Pages :
          /\ pages[g].shown # None =>
                /\ pages[g].shown.paste \in 1..Pastes
                /\ \A e \in pages[g].shown.unresolved : Cardinality(e.fits) # 1
    /\ pastes \in 0..Pastes /\ resolves \in 0..Resolves
    /\ changes \in 0..Changes /\ failures \in 0..Failures

\* Whoever the panel shows on a team has that team, as long as its paste is the
\* game's last; and without a lost answer nobody else has one.
ShownIsStored ==
    \A g \in Pages :
        LET shown == pages[g].shown
        IN Idle(g) /\ shown # None => (shown.paste = game.pasted =>
              /\ \A m \in shown.matched :
                    team[m.player] # None /\ team[m.player].side = m.team
              /\ failures = 0 =>
                    \A p \in Players : team[p] # None => \E m \in shown.matched : m.player = p)

\* "Volver a pegar sustituye los equipos anteriores": no team stored comes from a
\* paste before the last one.
OnePaste ==
    failures = 0 => \A p \in Players : team[p] # None => team[p].paste = game.pasted

\* "Who was on which team": nobody who does not play has a team.
OnTheTeamPlays == \A p \in Players : team[p] # None => p \in game.playing

\* The heading a line is under, counted from the end of what precedes it.
Heading(raw, i) ==
    LET above == {j \in 1..(i - 1) : raw[j] \in Team}
    IN IF above = {} THEN None ELSE raw[CHOOSE j \in above : \A k \in above : k <= j]

\* The lines of a paste whose name can only be p.
Naming(raw, p) ==
    {i \in DOMAIN raw : /\ raw[i] \notin Team \cup {Separator, PlusOne}
                        /\ Fits[raw[i]] \cup game.nicknames[raw[i]] = {p}}

\* What a paste stores: each player of the convocatoria that a line names, on the
\* team of the first line that does, and nobody else; with any line before the
\* headings, nothing at all.
FirstLineCounts ==
    \A g \in Pages :
       (/\ pages[g].call # None /\ pages[g].call.op = "paste"
        /\ pages[g].call.answer = None /\ game'.pasted > game.pasted
        /\ pages'[g].call # None /\ pages'[g].call.answer # None) =>
          LET raw == pages[g].call.raw
          IN /\ \A i \in DOMAIN raw :
                   raw[i] \notin Team \cup {Separator} => Heading(raw, i) # None
             /\ \A p \in Players :
                   LET lines == Naming(raw, p)
                   IN IF lines = {} \/ p \notin game.playing THEN team'[p] = None
                      ELSE /\ team'[p] # None
                           /\ team'[p].side =
                                 Heading(raw, CHOOSE i \in lines : \A j \in lines : i <= j)
=============================================================================
