---------------------------- MODULE CandidateList ----------------------------
(***************************************************************************)
(* Who is signed up to the games not played yet, and as what               *)
(* (server/src/repo/candidate-resolution-service.ts, line-resolver.ts,     *)
(* guest-role-service.ts, player-directory-service.ts and the services     *)
(* that edit, merge and delete players).                                   *)
(*                                                                         *)
(* A list is kept as the lines that were pasted, and read against the      *)
(* players known at the moment: their names and nicknames, whether they    *)
(* are a fijo or an invitado this season, and who usually brings them.     *)
(* Whatever changes one of those changes what a list already saved says.   *)
(* The database is one record, db, since changing a role saves every list  *)
(* again, one after another, and each save changes what the next one reads.*)
(***************************************************************************)
EXTENDS Integers, FiniteSets, SequencesExt

CONSTANTS People,       \* the players that may come to exist
          Spellings,    \* what a line may call somebody
          Named,        \* the name of each of them, for who is registered from the start
          Known,        \* who is registered from the start
          Before,       \* the role of each in their latest earlier season, or None
          Games,        \* games of the season, as numbers in the order they are played
          Texts,        \* the lines that are pasted
          MaxLines,     \* lines of a list (a bound)
          Slots,        \* players of a game
          Operations,   \* what the organiser does besides keeping the lists
          None

VARIABLE db

\* A line: what is written, the players chosen for its two names, and whether it
\* registered its name as its host's guest.
Line == [kind : {"plain", "hosted", "plusOne"},
         name : Spellings \cup {None}, host : Spellings \cup {None},
         nameLink : People \cup {None}, hostLink : People \cup {None},
         introduced : BOOLEAN]

ListAssumption ==
    /\ None \notin People \cup Spellings \cup {"fijo", "invitado"}
    /\ Known \subseteq People
    /\ Named \in [People -> Spellings]
    /\ Before \in [People -> {"fijo", "invitado", None}]
    /\ IsFiniteSet(Games) /\ Games = 1..Cardinality(Games)
    /\ Texts \subseteq Line /\ MaxLines \in Nat /\ Slots \in Nat \ {0}

Key == [player : People, host : {None}, ordinal : {0}]
       \cup [player : {None}, host : People, ordinal : 1..MaxLines]

Player(p) == [player |-> p, host |-> None, ordinal |-> 0]

Init ==
    db = [players |-> Known,
          name |-> Named,
          aliases |-> [p \in People |-> {}],
          introducedBy |-> [p \in People |-> None],
          roles |-> [p \in People |-> None],
          hosts |-> [p \in People |-> <<>>],
          status |-> [g \in Games |-> "open"],
          cancelled |-> {},
          lines |-> [g \in Games |-> <<>>],
          signedUp |-> [g \in Games |-> {}],
          guests |-> [g \in Games |-> {}],
          taken |-> [g \in Games |-> {}],
          entries |-> [g \in Games |-> {}],
          playing |-> [g \in Games |-> {}]]

\* A list of hosts without some of them.
Without(hosts, out) ==
    LET kept[n \in 0..Len(hosts)] ==
          IF n = 0 THEN <<>>
          ELSE IF hosts[n] \in out THEN kept[n - 1] ELSE Append(kept[n - 1], hosts[n])
    IN kept[Len(hosts)]

-----------------------------------------------------------------------------
(* Reading a line against the players there are *)

Matching(d, spelling) ==
    {p \in d.players : spelling = d.name[p] \/ spelling \in d.aliases[p]}

\* Never a guess: a name that fits several players matches none.
Match(d, spelling) ==
    IF Cardinality(Matching(d, spelling)) = 1
    THEN CHOOSE p \in Matching(d, spelling) : TRUE
    ELSE None

\* The organiser's choice for the line, as long as that player exists.
Read(d, spelling, chosen) == IF chosen \in d.players THEN chosen ELSE Match(d, spelling)

RoleOf(d, p) ==
    CASE d.roles[p] # None -> d.roles[p]
      [] d.roles[p] = None /\ Before[p] # None -> Before[p]
      [] d.roles[p] = None /\ Before[p] = None ->
            IF d.introducedBy[p] = None THEN "fijo" ELSE "invitado"

\* The host of an invitado: the line's, else the usual one, else who introduced them.
HostOf(d, p, lineHost) ==
    LET usual == Without(d.hosts[p], {p})
    IN CASE lineHost # None -> lineHost
         [] lineHost = None /\ usual # <<>> -> Head(usual)
         [] lineHost = None /\ usual = <<>> -> d.introducedBy[p]

Unresolved(line) ==
    [line |-> line, resolved |-> FALSE, player |-> None, host |-> None, guest |-> FALSE]
Resolved(line, player, host, guest) ==
    [line |-> line, resolved |-> TRUE, player |-> player, host |-> host, guest |-> guest]

\* Whether a named line is a guest's, and of whom.
AsGuest(d, line, p, lineHost) ==
    LET host == HostOf(d, p, lineHost)
    IN CASE line.introduced /\ lineHost # None -> Resolved(line, p, lineHost, TRUE)
         [] ~(line.introduced /\ lineHost # None) /\ RoleOf(d, p) = "fijo" ->
               Resolved(line, p, lineHost, FALSE)
         [] ~(line.introduced /\ lineHost # None) /\ RoleOf(d, p) = "invitado" ->
               IF host = None THEN Unresolved(line) ELSE Resolved(line, p, host, TRUE)

LineHost(d, line) ==
    CASE line.kind # "plain" -> Read(d, line.host, line.hostLink)
      [] line.kind = "plain" -> IF line.hostLink \in d.players THEN line.hostLink ELSE None

ResolveLine(d, line) ==
    LET p == IF line.kind = "plusOne" THEN None ELSE Read(d, line.name, line.nameLink)
        host == LineHost(d, line)
    IN IF \/ line.kind # "plusOne" /\ p = None
          \/ line.kind # "plain" /\ host = None
       THEN Unresolved(line)
       ELSE IF line.kind = "plusOne" THEN Resolved(line, None, host, TRUE)
                                     ELSE AsGuest(d, line, p, host)

\* The line that already lists p.
Listed(rows, p) == {i \in DOMAIN rows : rows[i].resolved /\ rows[i].player = p}

\* "Javi (Fer)" and "Javi (Caro)" are two people.
WithoutImpostors(rows, row) ==
    IF /\ row.resolved /\ row.line.kind = "hosted" /\ row.line.nameLink = None
       /\ \E i \in Listed(rows, row.player) : rows[i].host # row.host
    THEN Unresolved(row.line)
    ELSE row

Text(line) == <<line.kind, line.name, line.host>>

\* A player, or an unresolved text, stands in the list once; a plus-one every time.
Repeats(rows, row) ==
    IF row.resolved
    THEN row.line.kind # "plusOne" /\ Listed(rows, row.player) # {}
    ELSE \E i \in DOMAIN rows : ~rows[i].resolved /\ Text(rows[i].line) = Text(row.line)

ReadNext(d, rows, line) ==
    LET row == WithoutImpostors(rows, ResolveLine(d, line))
    IN IF Repeats(rows, row) THEN rows ELSE Append(rows, row)

Rows(d, lines) ==
    LET read[n \in 0..Len(lines)] ==
          IF n = 0 THEN <<>> ELSE ReadNext(d, read[n - 1], lines[n])
    IN read[Len(lines)]

-----------------------------------------------------------------------------
(* Saving a list *)

SignedUpBy(rows) ==
    {IF r.player # None THEN r.player ELSE r.host : r \in {x \in ToSet(rows) : x.resolved}}

GuestsOf(rows) ==
    {[position |-> i, player |-> rows[i].player, host |-> rows[i].host] :
        i \in {j \in DOMAIN rows : rows[j].guest}}

PlusOnes(guests, h) == Cardinality({r \in guests : r.player = None /\ r.host = h})

\* A host's anonymous guests are their first, their second, and so on.
GuestOrdinals(guests) ==
    UNION {{[player |-> None, host |-> h, ordinal |-> n] : n \in 1..PlusOnes(guests, h)} :
           h \in People}

Members(signed, guests) == {Player(p) : p \in signed} \cup GuestOrdinals(guests)

\* The members who lose their place must not be playing.
CanSave(d, g, members) ==
    /\ d.status[g] \in {"open", "called"} /\ g \notin d.cancelled
    /\ d.playing[g] \subseteq members

\* What a saved list teaches of whom it places: their role, the first time, and their host.
RecordSaved(d, rows) ==
    LET rowOf(p) == CHOOSE r \in ToSet(rows) : r.resolved /\ r.player = p
        placed   == {r.player : r \in {x \in ToSet(rows) : x.resolved}} \ {None}
        teaches(p) == /\ p \in placed /\ rowOf(p).guest
                      /\ rowOf(p).host # p /\ rowOf(p).host \notin ToSet(d.hosts[p])
    IN [d EXCEPT
          !.roles = [p \in People |->
              IF p \in placed /\ d.roles[p] = None
              THEN IF rowOf(p).guest THEN "invitado" ELSE "fijo"
              ELSE d.roles[p]],
          !.hosts = [p \in People |->
              IF teaches(p) THEN Append(d.hosts[p], rowOf(p).host) ELSE d.hosts[p]]]

\* A fault: only whoever is new is given an entry.
AlignNew(d, g, members) ==
    IF d.status[g] = "called" THEN [d EXCEPT !.entries[g] = @ \cup members] ELSE d

\* The entries follow the sign-ups: whoever is new waits below the line.
Align(d, g, members) ==
    IF d.status[g] = "called" THEN [d EXCEPT !.entries[g] = members] ELSE d

Saved(d, g, rows) ==
    LET signed == SignedUpBy(rows)
        guests == GuestsOf(rows)
        kept   == [d EXCEPT !.lines[g] = [i \in DOMAIN rows |-> rows[i].line],
                            !.signedUp[g] = signed,
                            !.taken[g] = @ \cup signed,
                            !.guests[g] = guests]
    IN Align(RecordSaved(kept, rows), g, Members(signed, guests))

\* The outcomes of saving: none where it is refused.
Save(d, g, lines) ==
    {Saved(d, g, rows) :
        rows \in {r \in {Rows(d, lines)} : CanSave(d, g, Members(SignedUpBy(r), GuestsOf(r)))}}

Unplayed(d) ==
    {g \in Games : /\ d.status[g] # "played" /\ g \notin d.cancelled
                   /\ d.lines[g] # <<>>}

\* The lists of some games saved again, in the order they are played, each as the one
\* before left the players; none of it is done where one of them is refused.
SavedAgain(d, games) ==
    LET after[g \in 0..Cardinality(Games)] ==
          IF g = 0 THEN {d}
          ELSE IF g \in games THEN UNION {Save(x, g, x.lines[g]) : x \in after[g - 1]}
          ELSE after[g - 1]
    IN after[Cardinality(Games)]

\* A fault: lists already called up are not saved again.
RefreshOpen(d) == SavedAgain(d, {g \in Unplayed(d) : d.status[g] = "open"})

\* Every list that may still change is saved again.
RefreshUnplayed(d) == SavedAgain(d, Unplayed(d))

Links(line) == {line.nameLink, line.hostLink} \ {None}

SaveList(g) ==
    \E lines \in BoundedSeq(Texts, MaxLines) :
        /\ \A line \in ToSet(lines) : Links(line) \subseteq db.players
        /\ db' \in Save(db, g, lines)

-----------------------------------------------------------------------------
(* The players *)

\* A name already somebody's, as their name or a nickname, is not registered again.
Register(p, spelling, by) ==
    /\ "register" \in Operations
    /\ p \notin db.players /\ Matching(db, spelling) = {}
    /\ by \in db.players \cup {None}
    /\ db' = [db EXCEPT !.players = @ \cup {p}, !.name[p] = spelling, !.introducedBy[p] = by]

AddAlias(p, spelling) ==
    /\ "alias" \in Operations /\ p \in db.players
    /\ db' = [db EXCEPT !.aliases[p] = @ \cup {spelling}]

RemoveAlias(p, spelling) ==
    /\ "alias" \in Operations /\ p \in db.players
    /\ db' = [db EXCEPT !.aliases[p] = @ \ {spelling}]

\* A principal name is never shared.
Rename(p, spelling, keepOld) ==
    /\ "rename" \in Operations /\ p \in db.players /\ spelling # db.name[p]
    /\ \A q \in db.players \ {p} : db.name[q] # spelling
    /\ db' = [db EXCEPT !.name[p] = spelling,
                        !.aliases[p] = (@ \ {spelling})
                                       \cup (IF keepOld THEN {db.name[p]} ELSE {})]

Introduce(p, by) ==
    /\ "introduce" \in Operations /\ p \in db.players
    /\ by \in (db.players \ {p}) \cup {None}
    /\ db' = [db EXCEPT !.introducedBy[p] = by]

\* Whether they played a game of the season as nobody's guest.
PlayedAsFijo(d, p) ==
    \E g \in Games : /\ d.status[g] = "played" /\ g \notin d.cancelled
                     /\ Player(p) \in d.playing[g]
                     /\ \A r \in d.guests[g] : r.player # p

SetRole(p, role) ==
    /\ "role" \in Operations /\ p \in db.players
    /\ ~(RoleOf(db, p) = "fijo" /\ role = "invitado" /\ PlayedAsFijo(db, p))
    /\ db' \in RefreshUnplayed([db EXCEPT !.roles[p] = role])

SetHosts(p, hosts) ==
    /\ "hosts" \in Operations /\ p \in db.players
    /\ ToSet(hosts) \subseteq db.players \ {p}
    /\ db' \in RefreshUnplayed([db EXCEPT !.hosts[p] = hosts])

-----------------------------------------------------------------------------
(* Two players who turn out to be one, and one registered by mistake *)

\* Took part in the same game: there is no telling whose row is right.
ShareAGame(d, p, q) ==
    \E g \in Games : \/ {p, q} \subseteq d.taken[g]
                     \/ {Player(p), Player(q)} \subseteq d.entries[g]

\* A fault: the absorbed player's name is forgotten.
MergedNicknames(d, into, from) ==
    [d.aliases EXCEPT ![into] = @ \cup d.aliases[from], ![from] = {}]

\* The absorbed player's name stays as a nickname.
MergedAliases(d, into, from) ==
    [d.aliases EXCEPT ![into] = @ \cup d.aliases[from] \cup {d.name[from]}, ![from] = {}]

\* The survivor's usual hosts, then the absorbed player's; whoever had the absorbed
\* player as host now has the survivor.
MergedHosts(d, into, from) ==
    LET added == Without(d.hosts[from], ToSet(d.hosts[into]) \cup {into})
        moved(hosts) ==
            IF into \in ToSet(hosts) THEN Without(hosts, {from})
            ELSE [i \in DOMAIN hosts |-> IF hosts[i] = from THEN into ELSE hosts[i]]
    IN [p \in People |-> CASE p = into -> Without(d.hosts[into] \o added, {from})
                           [] p = from -> <<>>
                           [] p \notin {into, from} -> moved(d.hosts[p])]

MergedIntroducers(d, into, from) ==
    LET known == [d.introducedBy EXCEPT ![into] = IF @ = None THEN d.introducedBy[from] ELSE @,
                                        ![from] = None]
        renamed == [p \in People |-> IF known[p] = from THEN into ELSE known[p]]
    IN [renamed EXCEPT ![into] = IF @ = into THEN None ELSE @]

Merged(d, into, from) ==
    LET to(p) == IF p = from THEN into ELSE p
        key(k)  == [k EXCEPT !.player = to(@), !.host = to(@)]
        line(l) == [l EXCEPT !.nameLink = to(@), !.hostLink = to(@)]
        each(f, op(_)) == [g \in Games |-> {op(x) : x \in f[g]}]
    IN [d EXCEPT
          !.players = @ \ {from}, !.name[from] = Named[from],
          !.aliases = MergedAliases(d, into, from),
          !.introducedBy = MergedIntroducers(d, into, from),
          !.roles = [@ EXCEPT ![into] = IF d.roles[into] = None THEN d.roles[from] ELSE d.roles[into],
                              ![from] = None],
          !.hosts = MergedHosts(d, into, from),
          !.lines = [g \in Games |-> [i \in DOMAIN d.lines[g] |-> line(d.lines[g][i])]],
          !.signedUp = each(d.signedUp, to),
          !.taken = each(d.taken, to),
          !.guests = each(d.guests, key),
          !.entries = each(d.entries, key),
          !.playing = each(d.playing, key)]

Merge(into, from) ==
    /\ "merge" \in Operations /\ into # from /\ {into, from} \subseteq db.players
    /\ ~ShareAGame(db, into, from)
    /\ db' = Merged(db, into, from)

\* Only one who has never taken part in anything is deleted.
Traces(d, p) ==
    \/ \E g \in Games :
          \/ p \in d.taken[g]
          \/ \E line \in ToSet(d.lines[g]) : p \in Links(line)
          \/ \E r \in d.guests[g] : p \in {r.player, r.host}
          \/ \E k \in d.entries[g] : p \in {k.player, k.host}
    \/ \E q \in d.players \ {p} : d.introducedBy[q] = p \/ p \in ToSet(d.hosts[q])

Delete(p) ==
    /\ "delete" \in Operations /\ p \in db.players /\ ~Traces(db, p)
    /\ db' = [db EXCEPT !.players = @ \ {p}, !.name[p] = Named[p], !.aliases[p] = {}, !.introducedBy[p] = None,
                        !.roles[p] = None, !.hosts[p] = <<>>]

-----------------------------------------------------------------------------
(* The games: calling up, playing, cancelling *)

\* Who plays is anyone's while it is the convocatoria's choice: here, any who fit.
CreateConvocatoria(g) ==
    /\ "create" \in Operations
    /\ db.status[g] \in {"open", "called"} /\ g \notin db.cancelled /\ db.signedUp[g] # {}
    /\ \E members \in {Members(db.signedUp[g], db.guests[g])} :
       \E playing \in SUBSET members :
          /\ Cardinality(playing) = IF Cardinality(members) < Slots THEN Cardinality(members)
                                                                    ELSE Slots
          /\ db' = [db EXCEPT !.status[g] = "called", !.entries[g] = members,
                              !.playing[g] = playing]

Move(g, k) ==
    /\ "move" \in Operations /\ db.status[g] = "called" /\ g \notin db.cancelled
    /\ k \in db.entries[g]
    /\ k \notin db.playing[g] => Cardinality(db.playing[g]) < Slots
    /\ db' = [db EXCEPT !.playing[g] = IF k \in @ THEN @ \ {k} ELSE @ \cup {k}]

Play(g) ==
    /\ "play" \in Operations /\ db.status[g] = "called" /\ g \notin db.cancelled
    /\ db' = [db EXCEPT !.status[g] = "played"]

Reopen(g) ==
    /\ "reopen" \in Operations /\ db.status[g] = "played" /\ g \notin db.cancelled
    /\ db' = [db EXCEPT !.status[g] = "called"]

Cancel(g) ==
    /\ "cancel" \in Operations /\ g \notin db.cancelled
    /\ db' = [db EXCEPT !.cancelled = @ \cup {g}]

Uncancel(g) ==
    /\ "cancel" \in Operations /\ g \in db.cancelled
    /\ db' = [db EXCEPT !.cancelled = @ \ {g}]

\* A sign-up edited by itself, past the list.
SignUpDirectly(g, p) ==
    /\ "direct" \in Operations /\ p \in db.players
    /\ db.status[g] \in {"open", "called"} /\ g \notin db.cancelled
    /\ db' = [db EXCEPT !.signedUp[g] = @ \cup {p}, !.taken[g] = @ \cup {p}]

-----------------------------------------------------------------------------
ChangePlayers ==
    \/ \E p \in People, spelling \in Spellings :
          \/ \E by \in People \cup {None} : Register(p, spelling, by)
          \/ AddAlias(p, spelling)
          \/ RemoveAlias(p, spelling)
          \/ \E keepOld \in BOOLEAN : Rename(p, spelling, keepOld)
    \/ \E p, q \in People : Merge(p, q)
    \/ \E p \in People, by \in People \cup {None} : Introduce(p, by)
    \/ \E p \in People : Delete(p)

ChangeRoles ==
    \/ \E p \in People, role \in {"fijo", "invitado"} : SetRole(p, role)
    \/ \E p \in People, hosts \in {<<>>} \cup {<<h>> : h \in People} : SetHosts(p, hosts)

ChangeGame(g) ==
    \/ SaveList(g) \/ CreateConvocatoria(g) \/ Play(g) \/ Reopen(g) \/ Cancel(g) \/ Uncancel(g)
    \/ \E k \in Key : Move(g, k)
    \/ \E p \in People : SignUpDirectly(g, p)

Next == ChangePlayers \/ ChangeRoles \/ \E g \in Games : ChangeGame(g)

Spec == Init /\ [][Next]_db

-----------------------------------------------------------------------------
(* Properties *)

\* Every player a game, a role or a host speaks of is one there is, and the guests of a
\* list are among its lines (the foreign keys of the schema).
TypeOK ==
    /\ db.players \subseteq People
    /\ db.roles \in [People -> {"fijo", "invitado", None}]
    /\ \A g \in Games :
          /\ db.signedUp[g] \subseteq db.taken[g] /\ db.taken[g] \subseteq db.players
          /\ db.entries[g] \subseteq Key /\ db.playing[g] \subseteq db.entries[g]
          /\ \A r \in db.guests[g] : {r.player, r.host} \subseteq db.players \cup {None}
          /\ \A line \in ToSet(db.lines[g]) : line \in Line /\ Links(line) \subseteq db.players
    /\ \A p \in db.players : ToSet(db.hosts[p]) \cup {db.introducedBy[p]}
                                \subseteq (db.players \ {p}) \cup {None}

\* The entries of a convocatoria are exactly who is signed up and the anonymous guests,
\* whatever lists are saved, saved again or moved from one player to another
\* (ConvocatoriaEditService.align, "the entries follow who is signed up").
EntriesFollowTheList ==
    \A g \in Games :
        db.status[g] # "open" =>
            db.entries[g] = {Player(p) : p \in db.signedUp[g]}
                \cup {k \in Key : k.player = None
                        /\ k.ordinal <= Cardinality({r \in db.guests[g] :
                                             r.player = None /\ r.host = k.host})}

\* The places of a game that a fijo took as one.
FijoPlaces(d, g) ==
    Cardinality({k \in d.playing[g] : /\ k.player # None /\ RoleOf(d, k.player) = "fijo"
                                      /\ \A r \in d.guests[g] : r.player # k.player})

IsPlayed(d, g) == d.status[g] = "played" /\ g \notin d.cancelled

\* As long as a game is played, whoever played it as a fijo is a fijo
\* (SeasonRolePolicy.checkChange, and the list that wrote the role).
PlayedAsFijoStays ==
    \A g \in Games : IsPlayed(db, g) /\ IsPlayed(db', g) =>
         FijoPlaces(db', g) >= FijoPlaces(db, g)

\* A change of role or host leaves no fijo as somebody's guest in any list that may still
\* change, save where the line itself registered the name
\* (PlayerDirectoryService.setRole, refreshUnplayed).
RolesReachTheLists ==
    ChangeRoles =>
      \A g \in Games : db'.status[g] # "played" /\ g \notin db'.cancelled =>
         \A r \in db'.guests[g] :
            r.player # None /\ ~db'.lines[g][r.position].introduced =>
               RoleOf(db', r.player) = "invitado"

\* A fijo is nobody's guest in a list that may still change, however the line is written.
FijoIsNeverGuest ==
    \A g \in Unplayed(db) : \A r \in db.guests[g] :
        r.player # None => RoleOf(db, r.player) = "invitado"

\* A guest comes with somebody else.
GuestComesWithSomeone ==
    \A g \in Games : \A r \in db.guests[g] : r.player # r.host

\* And an invitado signed up by a list is somebody's guest.
InvitadoIsAGuest ==
    \A g \in Unplayed(db) : \A p \in db.signedUp[g] :
        RoleOf(db, p) = "invitado" => \E r \in db.guests[g] : r.player = p

\* Nobody is signed up to a game, nor out of it, but by saving its list: changing a role
\* or a host changes as what they are signed up.
OnlySavingSignsUp ==
    ChangeRoles => db'.signedUp = db.signedUp

\* A merge leaves no name without its player: whatever named either of the two, and nobody
\* else, names the survivor (PlayerMergeService.merge, the absorbed name as an alias).
MergeKeepsNames ==
    \A into, from \in People :
      Merge(into, from) =>
         \A s \in Spellings :
            {p \in db.players : db.name[p] = s \/ s \in db.aliases[p]} \in
               (SUBSET {into, from}) \ {{}} => Match(db', s) = into

\* And a line that named one of them still places somebody when its list is read again.
MergeKeepsPlaces ==
    \A into, from \in People :
      Merge(into, from) =>
         \A g \in Unplayed(db) :
            \A p \in db'.signedUp[g] : p \in SignedUpBy(Rows(db', db'.lines[g]))
=============================================================================
