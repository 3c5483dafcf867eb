------------------------- MODULE CandidateList_proofs -------------------------
(***************************************************************************)
(* Proofs about CandidateList, for any players, names, lines, games and    *)
(* operations: what a list, a role or a host speaks of is always there;    *)
(* the entries of a convocatoria follow its list; a change of role or host *)
(* reaches every list that may still change; and a merge leaves no name    *)
(* without its player.  About the page a list is edited on, of             *)
(* CandidateDraft: what it shows as saved is saved, and what it saves      *)
(* drops nobody but who was taken off on it.  And about the teams of a     *)
(* game, of Teams: what a paste stores, and what their panel shows of it.  *)
(***************************************************************************)
EXTENDS CandidateList, FiniteSetTheorems, WellFoundedInduction, TLAPS

-----------------------------------------------------------------------------
(* Turns: what every turn keeps, all of them keep *)

\* A set of numbers has a least one.
LEMMA LeastNumber ==
    ASSUME NEW T \in SUBSET Nat, T # {}
    PROVE  \E x \in T : \A y \in T : x <= y
<1> DEFINE R == OpToRel(<, Nat)
<1>1. \A x, y \in Nat : y < x => <<y, x>> \in R
  BY DEF OpToRel
<1>2. IsWellFoundedOn(R, Nat)
  BY NatLessThanWellFounded
<1> HIDE DEF R
<1>3. PICK x \in T : \A y \in T : ~(<<y, x>> \in R)
  BY <1>2, WFMin
<1>4. \A y \in T : ~(y < x)
  BY <1>1, <1>3
<1> QED
  BY <1>4

\* f has the states of n turns over S, each made from the one before, starting with t.
IsTurns(f, n, S, t, turn) ==
    /\ f \in [0..n -> S]
    /\ f[0] = t /\ \A i \in 1..n : f[i] = turn[<<f[i - 1], i>>]

\* There are such states, when every turn leaves S within itself.
LEMMA TurnsExist ==
    ASSUME NEW n \in Nat, NEW S, NEW t \in S, NEW turn,
           \A u \in S, i \in 1..n : turn[<<u, i>>] \in S
    PROVE  \E f : IsTurns(f, n, S, t, turn)
<1> DEFINE Run(f, k) == /\ f \in [0..k -> S]
                        /\ f[0] = t /\ \A i \in 1..k : f[i] = turn[<<f[i - 1], i>>]
           Missing == {k \in 0..n : \A f : ~Run(f, k)}
<1>1. Missing = {}
  <2>0. Missing \in SUBSET Nat
    OBVIOUS
  <2>1. SUFFICES ASSUME NEW k \in Missing, \A l \in Missing : k <= l PROVE FALSE
    <3> HIDE DEF Missing
    <3> QED
      BY <2>0, LeastNumber
  <2>2. CASE k = 0
    <3>1. Run([i \in 0..0 |-> t], 0)
      OBVIOUS
    <3> QED
      BY <2>1, <2>2, <3>1
  <2>3. CASE k # 0
    <3>1. k \in 1..n /\ k - 1 \in 0..n /\ k - 1 \notin Missing
      BY <2>1, <2>3
    <3>2. PICK f : Run(f, k - 1)
      BY <3>1
    <3> DEFINE g == [i \in 0..k |-> IF i = k THEN turn[<<f[k - 1], k>>] ELSE f[i]]
    <3>3. f[k - 1] \in S /\ turn[<<f[k - 1], k>>] \in S
      BY <3>1, <3>2
    <3>4. g \in [0..k -> S] /\ g[0] = t
      BY <3>1, <3>2, <3>3
    <3>5. ASSUME NEW i \in 1..k PROVE g[i] = turn[<<g[i - 1], i>>]
      <4>1. CASE i = k
        <5>1. g[k - 1] = f[k - 1] /\ g[k] = turn[<<f[k - 1], k>>]
          BY <3>1
        <5> QED
          BY <4>1, <5>1
      <4>2. CASE i # k
        <5>1. i \in 1..(k - 1) /\ i - 1 \in 0..(k - 1)
          BY <3>1, <4>2
        <5>2. g[i] = f[i] /\ g[i - 1] = f[i - 1]
          BY <3>1, <4>2, <5>1
        <5> QED
          BY <3>2, <5>1, <5>2
      <4> QED
        BY <4>1, <4>2
    <3> HIDE DEF g
    <3>6. Run(g, k)
      BY <3>4, <3>5
    <3> QED
      BY <2>1, <3>6
  <2> QED
    BY <2>2, <2>3
<1>2. n \in 0..n
  OBVIOUS
<1> QED
  BY <1>1, <1>2 DEF IsTurns

\* What the first state has, and every turn passes on, the last state has.
LEMMA TurnsKeep ==
    ASSUME NEW n \in Nat, NEW f, NEW Good, f[0] \in Good[0],
           \A i \in 1..n : f[i - 1] \in Good[i - 1] => f[i] \in Good[i]
    PROVE  \A i \in 0..n : f[i] \in Good[i]
<1> DEFINE Bad == {i \in 0..n : f[i] \notin Good[i]}
<1>0. Bad \in SUBSET Nat
  OBVIOUS
<1>1. SUFFICES ASSUME NEW i \in Bad, \A j \in Bad : i <= j PROVE FALSE
  <2>1. Bad = {}
    <3> HIDE DEF Bad
    <3> QED
      BY <1>0, <1>1, LeastNumber
  <2> QED
    BY <2>1
<1>2. i # 0 /\ i \in 1..n
  OBVIOUS
<1>3. i - 1 \in 0..n /\ i - 1 \notin Bad
  BY <1>1, <1>2
<1> QED
  BY <1>2, <1>3

-----------------------------------------------------------------------------
(* What the database holds *)

Guest == [position : Nat \ {0}, player : People \cup {None}, host : People \cup {None}]

DB == [players : SUBSET People, name : [People -> Spellings],
       aliases : [People -> SUBSET Spellings], introducedBy : [People -> People \cup {None}],
       roles : [People -> {"fijo", "invitado", None}], hosts : [People -> Seq(People)],
       status : [Games -> {"open", "called", "played"}], cancelled : SUBSET Games,
       lines : [Games -> Seq(Line)],
       signedUp : [Games -> SUBSET People], guests : [Games -> SUBSET Guest],
       taken : [Games -> SUBSET People],
       entries : [Games -> SUBSET Key], playing : [Games -> SUBSET Key]]

\* Who brings a player is another one.
KnownHosts(d) ==
    \A p \in d.players : ToSet(d.hosts[p]) \cup {d.introducedBy[p]}
                            \subseteq (d.players \ {p}) \cup {None}

\* Nothing is kept of who is not registered.
AbsentAreBlank(d) ==
    \A p \in People \ d.players :
        d.roles[p] = None /\ d.hosts[p] = <<>> /\ d.introducedBy[p] = None

\* The lines of a list speak of players there are.
LinesInv(d, g) ==
    /\ Len(d.lines[g]) <= MaxLines
    /\ \A i \in DOMAIN d.lines[g] : Links(d.lines[g][i]) \subseteq d.players

\* A guest is one of the list's lines, each of them one guest at most, and whoever brings
\* an anonymous one is signed up.
GuestsInv(d, g) ==
    \A r \in d.guests[g] :
        /\ r.position \in DOMAIN d.lines[g]
        /\ {r.player, r.host} \subseteq d.players \cup {None}
        /\ r.player = None => r.host \in d.signedUp[g]
        /\ \A s \in d.guests[g] : s.position = r.position => s = r

\* Who is signed up has taken part, and only a convocatoria has entries.
PlacesInv(d, g) ==
    /\ d.signedUp[g] \subseteq d.taken[g] /\ d.taken[g] \subseteq d.players
    /\ d.playing[g] \subseteq d.entries[g]
    /\ d.status[g] = "open" => d.entries[g] = {}

ListInv(d, g) == LinesInv(d, g) /\ GuestsInv(d, g) /\ PlacesInv(d, g)

Good == {d \in DB : KnownHosts(d) /\ AbsentAreBlank(d) /\ \A g \in Games : ListInv(d, g)}

\* The entries are those signed up and their anonymous guests.
Following(d, g) ==
    d.status[g] # "open" => d.entries[g] = Members(d.signedUp[g], d.guests[g])

\* The inductive invariant: a sign-up past the list is the only thing that leaves the
\* entries behind.
IInv == /\ db \in Good
        /\ "direct" \notin Operations => \A g \in Games : Following(db, g)

LEMMA GamesAreNumbers ==
    ASSUME ListAssumption
    PROVE  Cardinality(Games) \in Nat /\ Games = 1..Cardinality(Games)
BY FS_CardinalityType DEF ListAssumption

-----------------------------------------------------------------------------
(* Hosts *)

\* One host more, unless they are left out.
WithHost(hosts, h, out) == IF h \in out THEN hosts ELSE Append(hosts, h)

\* What is left of a list of hosts is of them, and none of those left out.
LEMMA WithoutType ==
    ASSUME NEW S, NEW hosts \in Seq(S), NEW out
    PROVE  Without(hosts, out) \in Seq(ToSet(hosts) \ out)
<1> DEFINE n == Len(hosts)
           T == ToSet(hosts) \ out
           Is(f) == f = [i \in 0..n |-> IF i = 0 THEN <<>> ELSE WithHost(f[i - 1], hosts[i], out)]
           turn == [x \in Seq(T) \X (1..n) |-> WithHost(x[1], hosts[x[2]], out)]
           kept == CHOOSE f : Is(f)
<1>0. n \in Nat /\ \A i \in 1..n : hosts[i] \in ToSet(hosts)
  BY DEF ToSet
<1>1. \A u \in Seq(T), i \in 1..n : turn[<<u, i>>] = WithHost(u, hosts[i], out)
  OBVIOUS
<1>2. ASSUME NEW u \in Seq(T), NEW i \in 1..n PROVE WithHost(u, hosts[i], out) \in Seq(T)
  <2>1. hosts[i] \notin out => hosts[i] \in T
    BY <1>0
  <2> HIDE DEF T, n
  <2> QED
    BY <2>1 DEF WithHost
<1>3. Without(hosts, out) = kept[n]
  BY DEF Without, n, WithHost
<1>4. <<>> \in Seq(T)
  OBVIOUS
<1> HIDE DEF n, T, turn
<1>5. PICK f : IsTurns(f, n, Seq(T), <<>>, turn)
  BY <1>0, <1>1, <1>2, <1>4, TurnsExist
<1>6. Is(f)
  <2>1. f \in [0..n -> Seq(T)] /\ f[0] = <<>>
    BY <1>5 DEF IsTurns
  <2>2. ASSUME NEW i \in 1..n PROVE f[i] = WithHost(f[i - 1], hosts[i], out)
    <3>1. f[i - 1] \in Seq(T)
      BY <1>0, <2>1
    <3> QED
      BY <1>1, <1>5, <3>1 DEF IsTurns
  <2> QED
    BY <1>0, <2>1, <2>2
<1>7. Is(kept)
  BY <1>6
<1> HIDE DEF kept
<1> DEFINE Typed == [i \in 0..n |-> Seq(T)]
<1>8. kept[0] \in Typed[0]
  BY <1>0, <1>4, <1>7
<1>9. ASSUME NEW i \in 1..n, kept[i - 1] \in Typed[i - 1] PROVE kept[i] \in Typed[i]
  <2>1. kept[i - 1] \in Seq(T) /\ kept[i] = WithHost(kept[i - 1], hosts[i], out)
    BY <1>0, <1>7, <1>9
  <2> QED
    BY <1>0, <1>2, <2>1
<1>10. n \in 0..n
  BY <1>0
<1>11. \A i \in 0..n : kept[i] \in Typed[i]
  <2> HIDE DEF Typed
  <2> QED
    BY <1>0, <1>8, <1>9, TurnsKeep
<1> QED
  BY <1>3, <1>10, <1>11 DEF T

-----------------------------------------------------------------------------
(* Reading a list *)

Row == [line : Line, resolved : BOOLEAN, player : People \cup {None},
        host : People \cup {None}, guest : BOOLEAN]

\* What a line may be read as: somebody there is, and a guest of the one who brings them
\* only if they are an invitado, or the line says so.
RowIn(d) ==
    {r \in Row :
        /\ Links(r.line) \subseteq d.players
        /\ {r.player, r.host} \subseteq d.players \cup {None}
        /\ r.resolved /\ r.player = None => r.host # None
        /\ r.guest => r.resolved /\ r.host # None
        /\ r.guest /\ r.player # None /\ ~r.line.introduced => RoleOf(d, r.player) = "invitado"}

\* A list read: everybody stands in it once.
RowsIn(d) ==
    {rows \in Seq(RowIn(d)) :
        \A i, j \in DOMAIN rows :
            /\ rows[i].resolved /\ rows[j].resolved
            /\ rows[i].player = rows[j].player /\ rows[i].player # None
            => i = j}

LEMMA MatchType ==
    ASSUME NEW d, NEW spelling
    PROVE  Match(d, spelling) \in d.players \cup {None}
<1>1. CASE Cardinality(Matching(d, spelling)) = 1
  <2>1. Matching(d, spelling) # {}
    BY <1>1, FS_EmptySet
  <2>2. (CHOOSE p \in Matching(d, spelling) : TRUE) \in Matching(d, spelling)
    BY <2>1
  <2> QED
    BY <1>1, <2>2 DEF Match, Matching
<1>2. CASE Cardinality(Matching(d, spelling)) # 1
  BY <1>2 DEF Match
<1> QED
  BY <1>1, <1>2

LEMMA ReadType ==
    ASSUME NEW d, NEW spelling, NEW chosen
    PROVE  Read(d, spelling, chosen) \in d.players \cup {None}
BY MatchType DEF Read

LEMMA LineHostType ==
    ASSUME NEW d, NEW line \in Line
    PROVE  LineHost(d, line) \in d.players \cup {None}
BY ReadType DEF LineHost

LEMMA RoleType ==
    ASSUME ListAssumption, NEW d \in Good, NEW p \in People
    PROVE  /\ RoleOf(d, p) \in {"fijo", "invitado"}
           /\ d.roles[p] # None => RoleOf(d, p) = d.roles[p]
<1>1. d.roles[p] \in {"fijo", "invitado", None} /\ Before[p] \in {"fijo", "invitado", None}
  BY DEF Good, DB, ListAssumption
<1> QED
  BY <1>1 DEF RoleOf

LEMMA HostType ==
    ASSUME ListAssumption, NEW d \in Good, NEW p \in d.players,
           NEW lineHost \in d.players \cup {None}
    PROVE  HostOf(d, p, lineHost) \in d.players \cup {None}
<1> DEFINE usual == Without(d.hosts[p], {p})
<1>1. /\ p \in People /\ d.hosts[p] \in Seq(People)
      /\ ToSet(d.hosts[p]) \cup {d.introducedBy[p]} \subseteq (d.players \ {p}) \cup {None}
      /\ None \notin People
  BY DEF Good, DB, KnownHosts, ListAssumption
<1>2. usual \in Seq(ToSet(d.hosts[p]))
  <2>1. usual \in Seq(ToSet(d.hosts[p]) \ {p})
    BY <1>1, WithoutType
  <2> HIDE DEF usual
  <2> QED
    BY <2>1
<1> HIDE DEF usual
<1>3. usual # <<>> => Head(usual) \in ToSet(d.hosts[p])
  BY <1>2
<1> QED
  BY <1>1, <1>3 DEF HostOf, usual

LEMMA ResolveType ==
    ASSUME ListAssumption, NEW d \in Good, NEW line \in Line, Links(line) \subseteq d.players
    PROVE  ResolveLine(d, line) \in RowIn(d) /\ ResolveLine(d, line).line = line
<1> DEFINE p == IF line.kind = "plusOne" THEN None ELSE Read(d, line.name, line.nameLink)
           host == LineHost(d, line)
           row == ResolveLine(d, line)
<1>1. d.players \subseteq People /\ None \notin People
  BY DEF Good, DB, ListAssumption
<1>2. p \in d.players \cup {None} /\ host \in d.players \cup {None}
  BY ReadType, LineHostType
<1>3. Unresolved(line) \in RowIn(d) /\ Unresolved(line).line = line
  BY <1>1 DEF Unresolved, RowIn, Row
<1>4. ASSUME NEW q \in d.players \cup {None}, NEW h \in d.players \cup {None}, NEW guest \in BOOLEAN,
             q = None => h # None,
             guest => h # None,
             guest /\ q # None /\ ~line.introduced => RoleOf(d, q) = "invitado"
      PROVE  Resolved(line, q, h, guest) \in RowIn(d) /\ Resolved(line, q, h, guest).line = line
  BY <1>1, <1>4 DEF Resolved, RowIn, Row
<1> HIDE DEF p, host
<1>5. CASE \/ line.kind # "plusOne" /\ p = None
           \/ line.kind # "plain" /\ host = None
  BY <1>3, <1>5 DEF ResolveLine, p, host
<1>6. CASE line.kind = "plusOne" /\ host # None
  <2>1. row = Resolved(line, None, host, TRUE)
    BY <1>6 DEF ResolveLine, p, host
  <2> QED
    BY <1>2, <1>4, <1>6, <2>1
<1>7. CASE line.kind # "plusOne" /\ p # None /\ (line.kind # "plain" => host # None)
  <2>1. row = AsGuest(d, line, p, host)
    BY <1>7 DEF ResolveLine, p, host
  <2>2. p \in d.players /\ p \in People
    BY <1>1, <1>2, <1>7
  <2>3. HostOf(d, p, host) \in d.players \cup {None} /\ RoleOf(d, p) \in {"fijo", "invitado"}
    BY <1>2, <2>2, HostType, RoleType
  <2>4. CASE line.introduced /\ host # None
    <3>1. row = Resolved(line, p, host, TRUE)
      BY <2>1, <2>4 DEF AsGuest
    <3>2. ~(TRUE /\ p # None /\ ~line.introduced)
      BY <2>4
    <3> QED
      BY <1>2, <1>4, <1>7, <2>4, <3>1, <3>2
  <2>5. CASE ~(line.introduced /\ host # None) /\ RoleOf(d, p) = "fijo"
    <3>1. row = Resolved(line, p, host, FALSE)
      BY <2>1, <2>5 DEF AsGuest
    <3> QED
      BY <1>2, <1>4, <1>7, <3>1
  <2>6. CASE ~(line.introduced /\ host # None) /\ RoleOf(d, p) = "invitado"
    <3>1. row = IF HostOf(d, p, host) = None THEN Unresolved(line)
                ELSE Resolved(line, p, HostOf(d, p, host), TRUE)
      BY <2>1, <2>6 DEF AsGuest
    <3> QED
      BY <1>3, <1>4, <1>7, <2>3, <2>2, <2>6, <3>1
  <2> QED
    BY <2>3, <2>4, <2>5, <2>6
<1> QED
  BY <1>5, <1>6, <1>7

LEMMA ReadNextType ==
    ASSUME ListAssumption, NEW d \in Good, NEW rows \in RowsIn(d),
           NEW line \in Line, Links(line) \subseteq d.players
    PROVE  ReadNext(d, rows, line) \in RowsIn(d) /\ Len(ReadNext(d, rows, line)) <= Len(rows) + 1
<1> DEFINE row == WithoutImpostors(rows, ResolveLine(d, line))
<1>1. row \in RowIn(d)
  <2>1. ResolveLine(d, line) \in RowIn(d) /\ ResolveLine(d, line).line = line
    BY ResolveType
  <2>2. d.players \subseteq People
    BY DEF Good, DB
  <2>3. Unresolved(line) \in RowIn(d)
    BY <2>2 DEF Unresolved, RowIn, Row
  <2> QED
    BY <2>1, <2>3 DEF WithoutImpostors
<1> HIDE DEF row
<1>2. CASE Repeats(rows, row)
  <2>1. ReadNext(d, rows, line) = rows
    BY <1>2 DEF ReadNext, row
  <2> QED
    BY <2>1 DEF RowsIn
<1>3. CASE ~Repeats(rows, row)
  <2> DEFINE longer == Append(rows, row)
  <2>1. ReadNext(d, rows, line) = longer
    BY <1>3 DEF ReadNext, row
  <2>2. rows \in Seq(RowIn(d)) /\ Len(rows) \in Nat
    BY DEF RowsIn
  <2>3. /\ longer \in Seq(RowIn(d)) /\ Len(longer) = Len(rows) + 1
        /\ DOMAIN longer = 1..Len(rows) + 1 /\ DOMAIN rows = 1..Len(rows)
        /\ longer[Len(rows) + 1] = row
        /\ \A i \in 1..Len(rows) : longer[i] = rows[i]
    BY <1>1, <2>2
  <2> HIDE DEF longer
  <2>4. ASSUME NEW i \in DOMAIN longer, NEW j \in DOMAIN longer,
               longer[i].resolved, longer[j].resolved,
               longer[i].player = longer[j].player, longer[i].player # None
        PROVE  i = j
    <3>1. CASE i # Len(rows) + 1 /\ j # Len(rows) + 1
      <4>1. i \in DOMAIN rows /\ j \in DOMAIN rows
        BY <2>2, <2>3, <3>1
      <4> QED
        BY <2>3, <2>4, <4>1 DEF RowsIn
    <3>2. ASSUME NEW k \in 1..Len(rows), row.resolved, rows[k].resolved,
                 row.player = rows[k].player, row.player # None
          PROVE  FALSE
      <4>1. k \in Listed(rows, row.player)
        BY <2>3, <3>2 DEF Listed
      <4>2. row.line.kind # "plusOne"
        <5>1. CASE row = Unresolved(line)
          BY <3>2, <5>1 DEF Unresolved
        <5>2. CASE row = ResolveLine(d, line)
          <6>1. line.kind = "plusOne" => row \in {Unresolved(line),
                                                  Resolved(line, None, LineHost(d, line), TRUE)}
            BY <5>2 DEF ResolveLine
          <6>2. row.line = line
            BY <5>2, ResolveType
          <6> QED
            BY <3>2, <6>1, <6>2 DEF Unresolved, Resolved
        <5> QED
          BY <5>1, <5>2, ResolveType DEF WithoutImpostors, row
      <4> QED
        BY <1>3, <3>2, <4>1, <4>2 DEF Repeats
    <3> QED
      BY <2>2, <2>3, <2>4, <3>1, <3>2
  <2> QED
    BY <2>1, <2>2, <2>3, <2>4 DEF RowsIn
<1> QED
  BY <1>2, <1>3

\* A list read again is no longer than its lines, and everybody stands in it once.
LEMMA RowsType ==
    ASSUME ListAssumption, NEW d \in Good, NEW lines \in Seq(Line),
           \A i \in DOMAIN lines : Links(lines[i]) \subseteq d.players
    PROVE  Rows(d, lines) \in RowsIn(d) /\ Len(Rows(d, lines)) <= Len(lines)
<1> DEFINE n == Len(lines)
           S == RowsIn(d)
           Is(f) == f = [i \in 0..n |-> IF i = 0 THEN <<>> ELSE ReadNext(d, f[i - 1], lines[i])]
           turn == [x \in S \X (1..n) |-> ReadNext(d, x[1], lines[x[2]])]
           read == CHOOSE f : Is(f)
<1>0. n \in Nat /\ \A i \in 1..n : lines[i] \in Line /\ Links(lines[i]) \subseteq d.players
  OBVIOUS
<1>1. \A u \in S, i \in 1..n : turn[<<u, i>>] = ReadNext(d, u, lines[i])
  OBVIOUS
<1>2. ASSUME NEW u \in S, NEW i \in 1..n
      PROVE  ReadNext(d, u, lines[i]) \in S /\ Len(ReadNext(d, u, lines[i])) <= Len(u) + 1
  BY <1>0, ReadNextType
<1>3. Rows(d, lines) = read[n]
  BY DEF Rows, n
<1>4. <<>> \in S /\ \A u \in S : Len(u) \in Nat
  BY DEF RowsIn
<1> HIDE DEF n, S, turn
<1>5. PICK f : IsTurns(f, n, S, <<>>, turn)
  BY <1>0, <1>1, <1>2, <1>4, TurnsExist
<1>6. Is(f)
  <2>1. f \in [0..n -> S] /\ f[0] = <<>>
    BY <1>5 DEF IsTurns
  <2>2. ASSUME NEW i \in 1..n PROVE f[i] = ReadNext(d, f[i - 1], lines[i])
    <3>1. f[i - 1] \in S
      BY <1>0, <2>1
    <3> QED
      BY <1>1, <1>5, <3>1 DEF IsTurns
  <2> QED
    BY <1>0, <2>1, <2>2
<1>7. Is(read)
  BY <1>6
<1> HIDE DEF read
<1> DEFINE Short == [i \in 0..n |-> {u \in S : Len(u) <= i}]
<1>8. read[0] \in Short[0]
  <2>1. read[0] = <<>> /\ Len(<<>>) <= 0 /\ 0 \in 0..n
    BY <1>0, <1>7
  <2> QED
    BY <1>4, <2>1
<1>9. ASSUME NEW i \in 1..n, read[i - 1] \in Short[i - 1] PROVE read[i] \in Short[i]
  <2>1. /\ read[i - 1] \in S /\ Len(read[i - 1]) <= i - 1
        /\ read[i] = ReadNext(d, read[i - 1], lines[i])
    BY <1>0, <1>7, <1>9
  <2>2. read[i] \in S /\ Len(read[i]) <= Len(read[i - 1]) + 1
    BY <1>2, <2>1
  <2>3. Len(read[i]) <= i
    BY <1>0, <1>4, <2>1, <2>2
  <2> QED
    BY <1>0, <2>2, <2>3
<1>10. n \in 0..n
  BY <1>0
<1>11. \A i \in 0..n : read[i] \in Short[i]
  <2> HIDE DEF Short
  <2> QED
    BY <1>0, <1>8, <1>9, TurnsKeep
<1> QED
  BY <1>3, <1>10, <1>11 DEF n, S

-----------------------------------------------------------------------------
(* Saving a list *)

Signing(r) == IF r.player # None THEN r.player ELSE r.host

\* A list signs up players there are, and among them whoever brings an anonymous guest.
LEMMA SignedType ==
    ASSUME ListAssumption, NEW d \in Good, NEW rows \in RowsIn(d)
    PROVE  /\ SignedUpBy(rows) \subseteq d.players
           /\ \A i \in DOMAIN rows : rows[i].resolved => Signing(rows[i]) \in SignedUpBy(rows)
<1>1. rows \in Seq(RowIn(d))
  BY DEF RowsIn
<1>2. \A i \in DOMAIN rows : rows[i] \in RowIn(d)
  BY <1>1
<1>3. ToSet(rows) = {rows[i] : i \in DOMAIN rows}
  BY DEF ToSet
<1>4. SignedUpBy(rows) = {Signing(r) : r \in {x \in ToSet(rows) : x.resolved}}
  BY DEF SignedUpBy, Signing
<1>5. \A r \in RowIn(d) : r.resolved => Signing(r) \in d.players
  BY DEF RowIn, Signing
<1> QED
  BY <1>2, <1>3, <1>4, <1>5

LEMMA GuestsType ==
    ASSUME ListAssumption, NEW d \in Good, NEW rows \in RowsIn(d), NEW r \in GuestsOf(rows)
    PROVE  /\ r \in Guest
           /\ r.position \in DOMAIN rows
           /\ r.player = rows[r.position].player /\ r.host = rows[r.position].host
           /\ rows[r.position].guest
           /\ {r.player, r.host} \subseteq d.players \cup {None}
           /\ r.player = None => r.host \in SignedUpBy(rows)
           /\ \A s \in GuestsOf(rows) : s.position = r.position => s = r
<1>1. rows \in Seq(RowIn(d)) /\ d.players \subseteq People
  BY DEF RowsIn, Good, DB
<1>2. PICK i \in DOMAIN rows :
          rows[i].guest /\ r = [position |-> i, player |-> rows[i].player, host |-> rows[i].host]
  BY DEF GuestsOf
<1>3. i \in Nat \ {0} /\ rows[i] \in RowIn(d)
  BY <1>1
<1>4. r.player = None => r.host \in SignedUpBy(rows)
  <2>1. rows[i].resolved
    BY <1>2, <1>3 DEF RowIn
  <2> QED
    BY <1>2, <2>1, SignedType DEF Signing
<1>5. \A s \in GuestsOf(rows) : s.position = r.position => s = r
  BY <1>2 DEF GuestsOf
<1> QED
  BY <1>1, <1>2, <1>3, <1>4, <1>5 DEF RowIn, Guest

\* A host has no more anonymous guests in a list than it has lines.
LEMMA PlusOnesBounded ==
    ASSUME NEW n \in Nat, NEW guests \in SUBSET Guest, NEW h,
           \A r \in guests : r.position \in 1..n,
           \A r, s \in guests : s.position = r.position => s = r
    PROVE  /\ IsFiniteSet({r \in guests : r.player = None /\ r.host = h})
           /\ PlusOnes(guests, h) \in 0..n
<1> DEFINE S == {r \in guests : r.player = None /\ r.host = h}
           at == [r \in S |-> r.position]
<1>1. at \in Injection(S, 1..n)
  BY DEF Injection, IsInjective
<1>2. IsFiniteSet(1..n) /\ Cardinality(1..n) = n
  BY FS_Interval
<1>3. IsFiniteSet(S) /\ Cardinality(S) <= n
  <2> HIDE DEF S, at
  <2> QED
    BY <1>1, <1>2, FS_Injection
<1>4. Cardinality(S) \in Nat
  BY <1>3, FS_CardinalityType
<1> QED
  BY <1>3, <1>4 DEF PlusOnes

LEMMA MembersType ==
    ASSUME ListAssumption, NEW signed \in SUBSET People, NEW guests,
           \A h \in People : PlusOnes(guests, h) \in 0..MaxLines
    PROVE  Members(signed, guests) \subseteq Key
BY DEF ListAssumption, Members, GuestOrdinals, Player, Key

\* The row that places a player.
RowOf(rows, p) == CHOOSE r \in ToSet(rows) : r.resolved /\ r.player = p
Placed(rows)   == {r.player : r \in {x \in ToSet(rows) : x.resolved}} \ {None}

LEMMA RowOfIs ==
    ASSUME NEW d, NEW rows \in RowsIn(d), NEW i \in DOMAIN rows,
           rows[i].resolved, rows[i].player # None
    PROVE  rows[i].player \in Placed(rows) /\ RowOf(rows, rows[i].player) = rows[i]
<1> DEFINE p == rows[i].player
<1>1. rows[i] \in ToSet(rows) /\ p \in Placed(rows)
  BY DEF ToSet, Placed
<1>2. RowOf(rows, p) \in ToSet(rows) /\ RowOf(rows, p).resolved /\ RowOf(rows, p).player = p
  BY <1>1 DEF RowOf
<1>3. PICK j \in DOMAIN rows : RowOf(rows, p) = rows[j]
  BY <1>2 DEF ToSet
<1>4. i = j
  BY <1>2, <1>3 DEF RowsIn
<1> QED
  BY <1>1, <1>3, <1>4

LEMMA RowOfType ==
    ASSUME NEW d, NEW rows \in RowsIn(d), NEW p \in Placed(rows)
    PROVE  /\ RowOf(rows, p) \in RowIn(d) /\ RowOf(rows, p).resolved /\ RowOf(rows, p).player = p
           /\ p \in d.players
<1>1. PICK i \in DOMAIN rows : rows[i].resolved /\ rows[i].player = p
  BY DEF Placed, ToSet
<1>2. p # None /\ RowOf(rows, p) = rows[i]
  BY <1>1, RowOfIs DEF Placed
<1>3. rows[i] \in RowIn(d)
  BY DEF RowsIn
<1> QED
  BY <1>1, <1>2, <1>3 DEF RowIn

RolesTaught(d, rows) ==
    [p \in People |-> IF p \in Placed(rows) /\ d.roles[p] = None
                      THEN IF RowOf(rows, p).guest THEN "invitado" ELSE "fijo"
                      ELSE d.roles[p]]

Teaches(d, rows, p) ==
    /\ p \in Placed(rows) /\ RowOf(rows, p).guest
    /\ RowOf(rows, p).host # p /\ RowOf(rows, p).host \notin ToSet(d.hosts[p])

HostsTaught(d, rows) ==
    [p \in People |-> IF Teaches(d, rows, p) THEN Append(d.hosts[p], RowOf(rows, p).host)
                                             ELSE d.hosts[p]]

\* What saving a list changes.
LEMMA SavedIs ==
    ASSUME NEW d \in DB, NEW g \in Games, NEW rows
    PROVE  Saved(d, g, rows) =
               [players |-> d.players, name |-> d.name, aliases |-> d.aliases,
                introducedBy |-> d.introducedBy,
                roles |-> RolesTaught(d, rows), hosts |-> HostsTaught(d, rows),
                status |-> d.status, cancelled |-> d.cancelled,
                lines |-> [d.lines EXCEPT ![g] = [i \in DOMAIN rows |-> rows[i].line]],
                signedUp |-> [d.signedUp EXCEPT ![g] = SignedUpBy(rows)],
                guests |-> [d.guests EXCEPT ![g] = GuestsOf(rows)],
                taken |-> [d.taken EXCEPT ![g] = @ \cup SignedUpBy(rows)],
                entries |-> IF d.status[g] = "called"
                            THEN [d.entries EXCEPT ![g] = Members(SignedUpBy(rows), GuestsOf(rows))]
                            ELSE d.entries,
                playing |-> d.playing]
<1> DEFINE lined == [d.lines EXCEPT ![g] = [i \in DOMAIN rows |-> rows[i].line]]
           signed == [d.signedUp EXCEPT ![g] = SignedUpBy(rows)]
           took == [d.taken EXCEPT ![g] = @ \cup SignedUpBy(rows)]
           guested == [d.guests EXCEPT ![g] = GuestsOf(rows)]
           kept == [d EXCEPT !.lines[g] = [i \in DOMAIN rows |-> rows[i].line],
                             !.signedUp[g] = SignedUpBy(rows),
                             !.taken[g] = @ \cup SignedUpBy(rows),
                             !.guests[g] = GuestsOf(rows)]
           taught == RecordSaved(kept, rows)
<1>1. Saved(d, g, rows) = Align(taught, g, Members(SignedUpBy(rows), GuestsOf(rows)))
  BY DEF Saved
<1>2. kept = [d EXCEPT !.lines = lined, !.signedUp = signed, !.taken = took, !.guests = guested]
  BY DEF DB
<1> HIDE DEF lined, signed, took, guested, kept
<1>3. kept.roles = d.roles /\ kept.hosts = d.hosts
  BY <1>2 DEF DB
<1>4. taught = [kept EXCEPT !.roles = RolesTaught(d, rows), !.hosts = HostsTaught(d, rows)]
  BY <1>3 DEF RecordSaved, RolesTaught, HostsTaught, RowOf, Placed, Teaches
<1> HIDE DEF taught
<1>5. taught = [d EXCEPT !.lines = lined, !.signedUp = signed, !.taken = took, !.guests = guested,
                         !.roles = RolesTaught(d, rows), !.hosts = HostsTaught(d, rows)]
  BY <1>2, <1>4 DEF DB
<1>6. taught.status = d.status /\ taught.entries = d.entries
  BY <1>5 DEF DB
<1>7. CASE d.status[g] = "called"
  <2> DEFINE entered == [d.entries EXCEPT ![g] = Members(SignedUpBy(rows), GuestsOf(rows))]
  <2>1. Saved(d, g, rows) = [taught EXCEPT !.entries = entered]
    BY <1>1, <1>5, <1>6, <1>7 DEF Align, DB
  <2> HIDE DEF entered
  <2>2. Saved(d, g, rows).entries = entered
    BY <1>5, <2>1 DEF DB
  <2> QED
    BY <1>5, <1>7, <2>1, <2>2, ZenonT(60) DEF lined, signed, took, guested, entered, DB
<1>8. CASE d.status[g] # "called"
  <2>1. Saved(d, g, rows) = taught
    BY <1>1, <1>6, <1>8 DEF Align
  <2> QED
    BY <1>5, <1>8, <2>1 DEF lined, signed, took, guested, DB
<1> QED
  BY <1>7, <1>8

\* In games whose lists are as they were nothing is upset.
LEMMA SameList ==
    ASSUME NEW d, NEW e, NEW g \in Games, d.players \subseteq e.players, e.status = d.status,
           e.lines[g] = d.lines[g], e.signedUp[g] = d.signedUp[g], e.guests[g] = d.guests[g],
           e.taken[g] = d.taken[g], e.entries[g] = d.entries[g], e.playing[g] = d.playing[g]
    PROVE  (ListInv(d, g) => ListInv(e, g)) /\ (Following(d, g) => Following(e, g))
BY DEF ListInv, LinesInv, GuestsInv, PlacesInv, Following

LEMMA HostsTaughtType ==
    ASSUME ListAssumption, NEW d \in Good, NEW rows \in RowsIn(d), NEW p \in People
    PROVE  /\ HostsTaught(d, rows)[p] \in Seq(People)
           /\ p \in d.players => ToSet(HostsTaught(d, rows)[p]) \subseteq (d.players \ {p}) \cup {None}
           /\ p \notin d.players => HostsTaught(d, rows)[p] = <<>>
<1>1. /\ d.hosts[p] \in Seq(People) /\ d.players \subseteq People
      /\ p \in d.players => ToSet(d.hosts[p]) \subseteq (d.players \ {p}) \cup {None}
      /\ p \notin d.players => d.hosts[p] = <<>>
  BY DEF Good, DB, KnownHosts, AbsentAreBlank
<1>2. CASE ~Teaches(d, rows, p)
  BY <1>1, <1>2 DEF HostsTaught
<1>3. CASE Teaches(d, rows, p)
  <2> DEFINE h == RowOf(rows, p).host
  <2>1. p \in d.players /\ h \in d.players /\ h # p
    BY <1>3, RowOfType DEF Teaches, RowIn
  <2>2. HostsTaught(d, rows)[p] = Append(d.hosts[p], h)
    BY <1>3 DEF HostsTaught
  <2> HIDE DEF h
  <2>3. ToSet(Append(d.hosts[p], h)) \subseteq ToSet(d.hosts[p]) \cup {h}
    BY <1>1 DEF ToSet
  <2>4. h \in People /\ Append(d.hosts[p], h) \in Seq(People)
    BY <1>1, <2>1
  <2> QED
    BY <1>1, <2>1, <2>2, <2>3, <2>4
<1> QED
  BY <1>2, <1>3

\* Saving a list keeps everything in order, and its entries with it.
LEMMA SavedKeeps ==
    ASSUME ListAssumption, NEW d \in Good, NEW g \in Games, NEW rows \in RowsIn(d),
           Len(rows) <= MaxLines, CanSave(d, g, Members(SignedUpBy(rows), GuestsOf(rows)))
    PROVE  /\ Saved(d, g, rows) \in Good
           /\ Following(Saved(d, g, rows), g)
           /\ \A h \in Games \ {g} : Following(d, h) => Following(Saved(d, g, rows), h)
<1> DEFINE s == Saved(d, g, rows)
           signed == SignedUpBy(rows)
           guests == GuestsOf(rows)
<1>0. d \in DB /\ None \notin People /\ MaxLines \in Nat
  BY DEF Good, ListAssumption
<1>1. /\ rows \in Seq(RowIn(d)) /\ DOMAIN rows = 1..Len(rows) /\ Len(rows) \in Nat
      /\ \A i \in DOMAIN rows : rows[i] \in RowIn(d)
  BY DEF RowsIn
<1>2. /\ signed \subseteq d.players /\ guests \subseteq Guest
      /\ \A r \in guests : r.position \in 1..MaxLines
      /\ \A r, t \in guests : t.position = r.position => t = r
  <2>1. \A r \in guests : r.position \in 1..Len(rows)
    BY <1>1, GuestsType
  <2> QED
    BY <1>0, <1>1, <2>1, SignedType, GuestsType
<1>3. Members(signed, guests) \subseteq Key
  <2>1. signed \subseteq People
    BY <1>0, <1>2 DEF DB
  <2>2. \A h \in People : PlusOnes(guests, h) \in 0..MaxLines
    BY <1>0, <1>2, PlusOnesBounded
  <2> HIDE DEF signed, guests
  <2> QED
    BY <2>1, <2>2, MembersType
<1>4. /\ RolesTaught(d, rows) \in [People -> {"fijo", "invitado", None}]
      /\ HostsTaught(d, rows) \in [People -> Seq(People)]
  <2>1. HostsTaught(d, rows) = [p \in People |-> HostsTaught(d, rows)[p]]
    BY DEF HostsTaught
  <2> QED
    BY <1>0, <2>1, HostsTaughtType DEF DB, RolesTaught
<1>5. [i \in DOMAIN rows |-> rows[i].line] \in Seq(Line)
  BY <1>1 DEF RowIn, Row
<1> HIDE DEF signed, guests
<1> DEFINE called == d.status[g] = "called"
<1>6. s = [players |-> d.players, name |-> d.name, aliases |-> d.aliases,
           introducedBy |-> d.introducedBy,
           roles |-> RolesTaught(d, rows), hosts |-> HostsTaught(d, rows),
           status |-> d.status, cancelled |-> d.cancelled,
           lines |-> [d.lines EXCEPT ![g] = [i \in DOMAIN rows |-> rows[i].line]],
           signedUp |-> [d.signedUp EXCEPT ![g] = signed],
           guests |-> [d.guests EXCEPT ![g] = guests],
           taken |-> [d.taken EXCEPT ![g] = @ \cup signed],
           entries |-> IF called THEN [d.entries EXCEPT ![g] = Members(signed, guests)]
                                 ELSE d.entries,
           playing |-> d.playing]
  BY <1>0, SavedIs DEF signed, guests
<1> HIDE DEF s
<1>7. s \in DB
  <2>1. d.players \subseteq People
    BY <1>0 DEF DB
  <2>2. signed \subseteq People
    BY <1>2, <2>1
  <2> QED
    BY <1>0, <1>2, <1>3, <1>4, <1>5, <1>6, <2>2 DEF DB
<1>8. KnownHosts(s) /\ AbsentAreBlank(s)
  <2>1. s.players = d.players /\ s.introducedBy = d.introducedBy /\ s.hosts = HostsTaught(d, rows)
    BY <1>6
  <2>2. \A p \in People \ d.players : s.roles[p] = None
    <3>1. \A p \in People \ d.players : p \notin Placed(rows) /\ d.roles[p] = None
      BY RowOfType DEF Good, AbsentAreBlank
    <3> QED
      BY <1>6, <3>1 DEF RolesTaught
  <2>3. d.players \subseteq People /\ KnownHosts(d) /\ AbsentAreBlank(d)
    BY DEF Good, DB
  <2> QED
    BY <2>1, <2>2, <2>3, HostsTaughtType DEF KnownHosts, AbsentAreBlank
<1>9. ListInv(s, g) /\ Following(s, g)
  <2>1. /\ s.players = d.players /\ s.status = d.status /\ s.playing = d.playing
        /\ s.lines[g] = [i \in DOMAIN rows |-> rows[i].line]
        /\ s.signedUp[g] = signed /\ s.guests[g] = guests /\ s.taken[g] = d.taken[g] \cup signed
        /\ s.entries[g] = IF called THEN Members(signed, guests) ELSE d.entries[g]
    BY <1>0, <1>6 DEF DB
  <2>2. LinesInv(s, g)
    <3>1. DOMAIN s.lines[g] = 1..Len(rows) /\ Len(s.lines[g]) = Len(rows)
      BY <1>1, <2>1
    <3>2. \A i \in DOMAIN rows : Links(rows[i].line) \subseteq d.players
      BY <1>1 DEF RowIn
    <3> QED
      BY <1>1, <2>1, <3>1, <3>2 DEF LinesInv
  <2>3. GuestsInv(s, g)
    BY <2>1, GuestsType DEF GuestsInv, guests, signed
  <2>4. PlacesInv(s, g) /\ Following(s, g)
    <3>1. PlacesInv(d, g)
      BY DEF Good, ListInv
    <3>2. d.status[g] \in {"open", "called"} /\ d.playing[g] \subseteq Members(signed, guests)
      BY DEF CanSave, signed, guests
    <3> QED
      BY <1>2, <2>1, <3>1, <3>2 DEF PlacesInv, Following
  <2> QED
    BY <2>2, <2>3, <2>4 DEF ListInv
<1>10. ASSUME NEW h \in Games \ {g}
       PROVE  ListInv(s, h) /\ (Following(d, h) => Following(s, h))
  <2>1. /\ s.players = d.players /\ s.status = d.status
        /\ s.lines[h] = d.lines[h] /\ s.signedUp[h] = d.signedUp[h] /\ s.guests[h] = d.guests[h]
        /\ s.taken[h] = d.taken[h] /\ s.entries[h] = d.entries[h] /\ s.playing[h] = d.playing[h]
    BY <1>0, <1>6 DEF DB
  <2>2. ListInv(d, h)
    BY DEF Good
  <2> QED
    BY <2>1, <2>2, SameList
<1> QED
  BY <1>7, <1>8, <1>9, <1>10 DEF Good, s

\* In a list just saved a guest is an invitado, save one the line itself registered.
GuestsAreInvitados(d, g) ==
    \A r \in d.guests[g] :
        r.player # None /\ ~d.lines[g][r.position].introduced => d.roles[r.player] = "invitado"

\* What is kept while lists are saved one after another.
RolesStay(d, e) == \A p \in People : d.roles[p] # None => e.roles[p] = d.roles[p]

SavedFrom(d, e, g) ==
    /\ e \in Good /\ Following(e, g) /\ GuestsAreInvitados(e, g)
    /\ e.status = d.status /\ e.cancelled = d.cancelled /\ RolesStay(d, e)
    /\ \A h \in Games \ {g} : /\ Following(d, h) => Following(e, h)
                              /\ e.lines[h] = d.lines[h] /\ e.guests[h] = d.guests[h]

LEMMA SaveKeeps ==
    ASSUME ListAssumption, NEW d \in Good, NEW g \in Games, NEW lines \in Seq(Line),
           Len(lines) <= MaxLines, \A i \in DOMAIN lines : Links(lines[i]) \subseteq d.players,
           NEW e \in Save(d, g, lines)
    PROVE  SavedFrom(d, e, g)
<1> DEFINE rows == Rows(d, lines)
<1>1. rows \in RowsIn(d) /\ Len(rows) <= MaxLines
  <2>1. rows \in RowsIn(d) /\ Len(rows) <= Len(lines)
    BY RowsType
  <2>2. Len(rows) \in Nat /\ Len(lines) \in Nat /\ MaxLines \in Nat
    BY <2>1 DEF RowsIn, ListAssumption
  <2> QED
    BY <2>1, <2>2
<1>2. e = Saved(d, g, rows) /\ CanSave(d, g, Members(SignedUpBy(rows), GuestsOf(rows)))
  BY DEF Save
<1> HIDE DEF rows
<1>3. /\ e \in Good /\ Following(e, g)
      /\ \A h \in Games \ {g} : Following(d, h) => Following(e, h)
  BY <1>1, <1>2, SavedKeeps
<1>4. d \in DB /\ None \notin People
  BY DEF Good, ListAssumption
<1>5. /\ e.status = d.status /\ e.cancelled = d.cancelled
      /\ e.roles = RolesTaught(d, rows)
      /\ e.lines[g] = [i \in DOMAIN rows |-> rows[i].line] /\ e.guests[g] = GuestsOf(rows)
      /\ \A h \in Games \ {g} : e.lines[h] = d.lines[h] /\ e.guests[h] = d.guests[h]
  <2>1. /\ e.status = d.status /\ e.cancelled = d.cancelled /\ e.roles = RolesTaught(d, rows)
        /\ e.lines = [d.lines EXCEPT ![g] = [i \in DOMAIN rows |-> rows[i].line]]
        /\ e.guests = [d.guests EXCEPT ![g] = GuestsOf(rows)]
    BY <1>2, <1>4, SavedIs
  <2> QED
    BY <1>4, <2>1 DEF DB
<1>6. RolesStay(d, e)
  BY <1>5 DEF RolesStay, RolesTaught
<1>7. ASSUME NEW r \in GuestsOf(rows), r.player # None, ~e.lines[g][r.position].introduced
      PROVE  e.roles[r.player] = "invitado"
  <2> DEFINE i == r.position
             p == r.player
  <2>1. /\ i \in DOMAIN rows /\ rows[i].guest /\ p = rows[i].player /\ p \in d.players
    BY <1>1, <1>7, GuestsType
  <2>2. rows[i] \in RowIn(d) /\ ~rows[i].line.introduced /\ p \in People
    BY <1>1, <1>4, <1>5, <1>7, <2>1 DEF RowsIn, DB
  <2>3. rows[i].resolved /\ RoleOf(d, p) = "invitado"
    BY <1>7, <2>1, <2>2 DEF RowIn
  <2>4. p \in Placed(rows) /\ RowOf(rows, p) = rows[i]
    BY <1>1, <1>7, <2>1, <2>3, RowOfIs
  <2>5. d.roles[p] # None => d.roles[p] = "invitado"
    BY <2>2, <2>3, RoleType
  <2> QED
    BY <1>5, <2>1, <2>2, <2>4, <2>5 DEF RolesTaught
<1> QED
  BY <1>3, <1>5, <1>6, <1>7 DEF SavedFrom, GuestsAreInvitados

\* The lists of some games, saved one after another.
SavedUpTo(d, games, n) ==
    {e \in Good :
        /\ e.status = d.status /\ e.cancelled = d.cancelled /\ RolesStay(d, e)
        /\ (\A g \in Games : Following(d, g)) => \A g \in Games : Following(e, g)
        /\ \A g \in games : g <= n => GuestsAreInvitados(e, g)
        /\ \A g \in Games \ games : e.lines[g] = d.lines[g] /\ e.guests[g] = d.guests[g]}

\* One more of them.
LEMMA OneMoreSaved ==
    ASSUME ListAssumption, NEW d \in Good, NEW games \in SUBSET Games, NEW g \in games,
           NEW x \in SavedUpTo(d, games, g - 1), NEW y \in Save(x, g, x.lines[g])
    PROVE  y \in SavedUpTo(d, games, g)
<1>1. x \in Good /\ x.lines[g] \in Seq(Line) /\ LinesInv(x, g)
  BY DEF SavedUpTo, Good, DB, ListInv
<1>2. SavedFrom(x, y, g)
  BY <1>1, SaveKeeps DEF LinesInv
<1>3. y.status = d.status /\ y.cancelled = d.cancelled
  BY <1>2 DEF SavedFrom, SavedUpTo
<1>4. RolesStay(d, y)
  BY <1>2 DEF SavedFrom, SavedUpTo, RolesStay
<1>5. ASSUME \A h \in Games : Following(d, h) PROVE \A h \in Games : Following(y, h)
  BY <1>2, <1>5 DEF SavedFrom, SavedUpTo
<1>6. ASSUME NEW h \in games, h <= g PROVE GuestsAreInvitados(y, h)
  <2>1. CASE h = g
    BY <1>2, <2>1 DEF SavedFrom
  <2>2. CASE h # g
    <3>1. g \in Nat /\ h \in Nat
      BY GamesAreNumbers
    <3>2. h <= g - 1
      BY <1>6, <2>2, <3>1
    <3>3. GuestsAreInvitados(x, h) /\ ListInv(x, h)
      BY <3>2 DEF SavedUpTo, Good
    <3>4. y.lines[h] = x.lines[h] /\ y.guests[h] = x.guests[h] /\ RolesStay(x, y)
      BY <1>2, <2>2 DEF SavedFrom
    <3>5. \A r \in x.guests[h] : r.player \in People \cup {None}
      BY <1>1 DEF Good, DB, Guest
    <3> QED
      BY <3>3, <3>4, <3>5 DEF GuestsAreInvitados, RolesStay, ListAssumption
  <2> QED
    BY <2>1, <2>2
<1>7. ASSUME NEW h \in Games \ games
      PROVE  y.lines[h] = d.lines[h] /\ y.guests[h] = d.guests[h]
  BY <1>2 DEF SavedFrom, SavedUpTo
<1> QED
  BY <1>2, <1>3, <1>4, <1>5, <1>6, <1>7 DEF SavedFrom, SavedUpTo

\* One turn: the list of a game, where it is one of them, saved from every outcome there is.
SavedOnce(X, g, games) ==
    IF g \in games THEN UNION {Save(x, g, x.lines[g]) : x \in X} ELSE X

LEMMA SavedOnceKeeps ==
    ASSUME ListAssumption, NEW d \in Good, NEW games \in SUBSET Games, NEW g \in Games,
           NEW X \in SUBSET SavedUpTo(d, games, g - 1)
    PROVE  SavedOnce(X, g, games) \subseteq SavedUpTo(d, games, g)
<1>1. CASE g \in games
  <2>1. ASSUME NEW y \in SavedOnce(X, g, games) PROVE y \in SavedUpTo(d, games, g)
    <3>1. PICK x \in X : y \in Save(x, g, x.lines[g])
      BY <1>1, <2>1 DEF SavedOnce
    <3> QED
      BY <1>1, <3>1, OneMoreSaved
  <2> QED
    BY <2>1
<1>2. CASE g \notin games
  <2>1. ASSUME NEW h \in games, h <= g PROVE h <= g - 1
    <3>1. g \in Nat /\ h \in Nat /\ h # g
      BY <1>2, GamesAreNumbers
    <3> QED
      BY <2>1, <3>1
  <2> QED
    BY <1>2, <2>1 DEF SavedOnce, SavedUpTo
<1> QED
  BY <1>1, <1>2

\* From one set of outcomes to the next, saving leaves everything in order.
LEMMA SavedOnceType ==
    ASSUME ListAssumption, NEW games \in SUBSET Games, NEW g \in Games, NEW X \in SUBSET Good
    PROVE  SavedOnce(X, g, games) \subseteq Good
<1>1. ASSUME NEW x \in X, NEW y \in Save(x, g, x.lines[g]) PROVE y \in Good
  <2>1. x \in Good /\ x.lines[g] \in Seq(Line) /\ LinesInv(x, g)
    BY DEF Good, DB, ListInv
  <2> QED
    BY <1>1, <2>1, SaveKeeps DEF LinesInv, SavedFrom
<1> QED
  BY <1>1 DEF SavedOnce

LEMMA SavedAgainKeeps ==
    ASSUME ListAssumption, NEW d \in Good, NEW games \in SUBSET Games,
           NEW e \in SavedAgain(d, games)
    PROVE  e \in SavedUpTo(d, games, Cardinality(Games))
<1> DEFINE n == Cardinality(Games)
           Is(f) == f = [g \in 0..n |-> IF g = 0 THEN {d} ELSE SavedOnce(f[g - 1], g, games)]
           turn == [x \in (SUBSET Good) \X (1..n) |-> SavedOnce(x[1], x[2], games)]
           after == CHOOSE f : Is(f)
<1>0. n \in Nat /\ Games = 1..n
  BY GamesAreNumbers
<1>1. SavedAgain(d, games) = after[n]
  BY DEF SavedAgain, SavedOnce
<1>2. \A X \in SUBSET Good, g \in 1..n : turn[<<X, g>>] = SavedOnce(X, g, games)
  OBVIOUS
<1>3. \A X \in SUBSET Good, g \in 1..n : SavedOnce(X, g, games) \in SUBSET Good
  BY <1>0, SavedOnceType
<1> HIDE DEF n, turn
<1>4. PICK f : IsTurns(f, n, SUBSET Good, {d}, turn)
  <2>1. {d} \in SUBSET Good
    OBVIOUS
  <2> QED
    BY <1>0, <1>2, <1>3, <2>1, TurnsExist
<1>5. Is(f)
  <2>1. f \in [0..n -> SUBSET Good] /\ f[0] = {d}
    BY <1>4 DEF IsTurns
  <2>2. ASSUME NEW g \in 1..n PROVE f[g] = SavedOnce(f[g - 1], g, games)
    <3>1. f[g - 1] \in SUBSET Good
      BY <1>0, <2>1
    <3> QED
      BY <1>2, <1>4, <3>1 DEF IsTurns
  <2> QED
    BY <1>0, <2>1, <2>2
<1>6. Is(after)
  BY <1>5
<1> HIDE DEF after
<1> DEFINE UpTo == [g \in 0..n |-> SUBSET SavedUpTo(d, games, g)]
<1>7. after[0] \in UpTo[0]
  <2>1. after[0] = {d}
    BY <1>0, <1>6
  <2>2. \A g \in games : ~(g <= 0)
    BY <1>0
  <2>3. d \in SavedUpTo(d, games, 0)
    BY <2>2 DEF SavedUpTo, RolesStay
  <2> QED
    BY <1>0, <2>1, <2>3
<1>8. ASSUME NEW g \in 1..n, after[g - 1] \in UpTo[g - 1] PROVE after[g] \in UpTo[g]
  <2>1. after[g - 1] \in SUBSET SavedUpTo(d, games, g - 1)
    BY <1>0, <1>8
  <2>2. after[g] = SavedOnce(after[g - 1], g, games)
    <3>1. g \in 0..n /\ g # 0
      BY <1>0
    <3> QED
      BY <1>6, <3>1
  <2> QED
    BY <1>0, <2>1, <2>2, SavedOnceKeeps
<1>9. n \in 0..n
  BY <1>0
<1>10. \A g \in 0..n : after[g] \in UpTo[g]
  <2> HIDE DEF UpTo
  <2> QED
    BY <1>0, <1>7, <1>8, TurnsKeep
<1> QED
  BY <1>1, <1>9, <1>10 DEF n

\* Lists saved again keep everything in order, and place no fijo as a guest.
LEMMA RefreshKeeps ==
    ASSUME ListAssumption, NEW d \in Good, NEW e \in RefreshUnplayed(d)
    PROVE  /\ e \in Good /\ e.status = d.status /\ e.cancelled = d.cancelled
           /\ (\A g \in Games : Following(d, g)) => \A g \in Games : Following(e, g)
           /\ \A g \in Games : d.status[g] # "played" /\ g \notin d.cancelled =>
                 GuestsAreInvitados(e, g)
<1>1. Unplayed(d) \subseteq Games
  BY DEF Unplayed
<1>2. e \in SavedUpTo(d, Unplayed(d), Cardinality(Games))
  BY <1>1, SavedAgainKeeps DEF RefreshUnplayed
<1>3. ASSUME NEW g \in Games, d.status[g] # "played" /\ g \notin d.cancelled
      PROVE  GuestsAreInvitados(e, g)
  <2>1. CASE g \in Unplayed(d)
    <3>1. g <= Cardinality(Games)
      BY GamesAreNumbers
    <3> QED
      BY <1>2, <2>1, <3>1 DEF SavedUpTo
  <2>2. CASE g \notin Unplayed(d)
    <3>1. d.lines[g] = <<>>
      BY <1>3, <2>2 DEF Unplayed
    <3>2. e.lines[g] = <<>> /\ GuestsInv(e, g)
      BY <1>2, <2>2, <3>1 DEF SavedUpTo, Good, ListInv
    <3>3. e.guests[g] = {}
      BY <3>2 DEF GuestsInv
    <3> QED
      BY <3>3 DEF GuestsAreInvitados
  <2> QED
    BY <2>1, <2>2
<1> QED
  BY <1>2, <1>3 DEF SavedUpTo

-----------------------------------------------------------------------------
(* Each operation leaves everything in order *)

InOrder(d, e) ==
    e \in Good /\ ((\A g \in Games : Following(d, g)) => \A g \in Games : Following(e, g))

LEMMA InitGood == ASSUME ListAssumption, Init PROVE IInv
<1>1. db \in DB
  BY DEF Init, DB, ListAssumption
<1>2. KnownHosts(db) /\ AbsentAreBlank(db)
  BY DEF Init, KnownHosts, AbsentAreBlank, ToSet, ListAssumption
<1>3. \A g \in Games : ListInv(db, g) /\ Following(db, g)
  BY DEF Init, ListInv, LinesInv, GuestsInv, PlacesInv, Following, ListAssumption
<1> QED
  BY <1>1, <1>2, <1>3 DEF IInv, Good

LEMMA SaveListKeeps ==
    ASSUME ListAssumption, db \in Good, NEW g \in Games, SaveList(g)
    PROVE  InOrder(db, db')
<1>1. PICK lines \in BoundedSeq(Texts, MaxLines) :
          /\ \A line \in ToSet(lines) : Links(line) \subseteq db.players
          /\ db' \in Save(db, g, lines)
  BY DEF SaveList
<1>2. lines \in Seq(Line) /\ Len(lines) <= MaxLines
  BY DEF BoundedSeq, SeqOf, ListAssumption
<1>3. \A i \in DOMAIN lines : Links(lines[i]) \subseteq db.players
  BY <1>1 DEF ToSet
<1>4. SavedFrom(db, db', g)
  BY <1>1, <1>2, <1>3, SaveKeeps
<1> QED
  BY <1>4 DEF SavedFrom, InOrder

\* What changes only the players leaves the lists in order, as long as nobody leaves.
LEMMA PlayersChange ==
    ASSUME NEW d \in Good, NEW e \in DB, KnownHosts(e), AbsentAreBlank(e),
           d.players \subseteq e.players, e.status = d.status, e.lines = d.lines,
           e.signedUp = d.signedUp, e.guests = d.guests, e.taken = d.taken,
           e.entries = d.entries, e.playing = d.playing
    PROVE  InOrder(d, e)
BY SameList DEF InOrder, Good

LEMMA RegisterKeeps ==
    ASSUME ListAssumption, db \in Good, NEW p \in People, NEW spelling \in Spellings,
           NEW by \in People \cup {None}, Register(p, spelling, by)
    PROVE  InOrder(db, db')
<1>1. /\ p \notin db.players /\ by \in db.players \cup {None}
      /\ db' = [db EXCEPT !.players = @ \cup {p}, !.name[p] = spelling, !.introducedBy[p] = by]
  BY DEF Register
<1>2. db \in DB /\ KnownHosts(db) /\ AbsentAreBlank(db) /\ None \notin People
  BY DEF Good, ListAssumption
<1>3. /\ db' \in DB /\ db'.players = db.players \cup {p} /\ db'.hosts = db.hosts
      /\ db'.roles = db.roles
      /\ db'.introducedBy = [db.introducedBy EXCEPT ![p] = by]
      /\ db'.status = db.status /\ db'.lines = db.lines /\ db'.signedUp = db.signedUp
      /\ db'.guests = db.guests /\ db'.taken = db.taken /\ db'.entries = db.entries
      /\ db'.playing = db.playing
  BY <1>1, <1>2 DEF DB
<1>4. KnownHosts(db')
  <2>1. db.hosts[p] = <<>> /\ ToSet(<<>>) = {}
    BY <1>1, <1>2 DEF AbsentAreBlank, ToSet
  <2>2. \A q \in db.players : q # p /\ db'.introducedBy[q] = db.introducedBy[q]
    BY <1>1, <1>2, <1>3 DEF DB
  <2>3. db'.introducedBy[p] = by /\ by # p
    BY <1>1, <1>2, <1>3 DEF DB
  <2> QED
    BY <1>1, <1>2, <1>3, <2>1, <2>2, <2>3 DEF KnownHosts
<1>5. AbsentAreBlank(db')
  BY <1>2, <1>3 DEF AbsentAreBlank, DB
<1> QED
  BY <1>3, <1>4, <1>5, PlayersChange

\* Nicknames and names are of no list.
LEMMA NamesKeep ==
    ASSUME ListAssumption, db \in Good, NEW p \in People, NEW spelling \in Spellings,
           \/ AddAlias(p, spelling) \/ RemoveAlias(p, spelling)
           \/ \E keepOld \in BOOLEAN : Rename(p, spelling, keepOld)
    PROVE  InOrder(db, db')
<1>1. db \in DB /\ KnownHosts(db) /\ AbsentAreBlank(db)
  BY DEF Good
<1>2. PICK name \in [People -> Spellings], aliases \in [People -> SUBSET Spellings] :
          db' = [db EXCEPT !.name = name, !.aliases = aliases]
  <2>1. CASE AddAlias(p, spelling)
    <3>1. db' = [db EXCEPT !.name = db.name, !.aliases = [db.aliases EXCEPT ![p] = @ \cup {spelling}]]
      BY <1>1, <2>1 DEF AddAlias, DB
    <3>2. [db.aliases EXCEPT ![p] = @ \cup {spelling}] \in [People -> SUBSET Spellings]
      BY <1>1 DEF DB
    <3> QED
      BY <1>1, <3>1, <3>2 DEF DB
  <2>2. CASE RemoveAlias(p, spelling)
    <3>1. db' = [db EXCEPT !.name = db.name, !.aliases = [db.aliases EXCEPT ![p] = @ \ {spelling}]]
      BY <1>1, <2>2 DEF RemoveAlias, DB
    <3>2. [db.aliases EXCEPT ![p] = @ \ {spelling}] \in [People -> SUBSET Spellings]
      BY <1>1 DEF DB
    <3> QED
      BY <1>1, <3>1, <3>2 DEF DB
  <2>3. ASSUME NEW keepOld \in BOOLEAN, Rename(p, spelling, keepOld)
        PROVE  \E name \in [People -> Spellings], aliases \in [People -> SUBSET Spellings] :
                  db' = [db EXCEPT !.name = name, !.aliases = aliases]
    <3> DEFINE old == IF keepOld THEN {db.name[p]} ELSE {}
               name == [db.name EXCEPT ![p] = spelling]
               aliases == [db.aliases EXCEPT ![p] = (@ \ {spelling}) \cup old]
    <3>1. db' = [db EXCEPT !.name = name, !.aliases = aliases]
      BY <1>1, <2>3 DEF Rename, DB
    <3>2. name \in [People -> Spellings] /\ aliases \in [People -> SUBSET Spellings]
      BY <1>1 DEF DB
    <3> QED
      BY <3>1, <3>2
  <2> QED
    BY <2>1, <2>2, <2>3
<1>3. /\ db' \in DB /\ db'.players = db.players /\ db'.hosts = db.hosts /\ db'.roles = db.roles
      /\ db'.introducedBy = db.introducedBy
      /\ db'.status = db.status /\ db'.lines = db.lines /\ db'.signedUp = db.signedUp
      /\ db'.guests = db.guests /\ db'.taken = db.taken /\ db'.entries = db.entries
      /\ db'.playing = db.playing
  BY <1>1, <1>2 DEF DB
<1>4. KnownHosts(db') /\ AbsentAreBlank(db')
  BY <1>1, <1>3 DEF KnownHosts, AbsentAreBlank
<1> QED
  BY <1>3, <1>4, PlayersChange

LEMMA IntroduceKeeps ==
    ASSUME ListAssumption, db \in Good, NEW p \in People, NEW by \in People \cup {None},
           Introduce(p, by)
    PROVE  InOrder(db, db')
<1>1. /\ p \in db.players /\ by \in (db.players \ {p}) \cup {None}
      /\ db' = [db EXCEPT !.introducedBy[p] = by]
  BY DEF Introduce
<1>2. db \in DB /\ KnownHosts(db) /\ AbsentAreBlank(db)
  BY DEF Good
<1>3. /\ db' \in DB /\ db'.players = db.players /\ db'.hosts = db.hosts /\ db'.roles = db.roles
      /\ db'.introducedBy = [db.introducedBy EXCEPT ![p] = by]
      /\ db'.status = db.status /\ db'.lines = db.lines /\ db'.signedUp = db.signedUp
      /\ db'.guests = db.guests /\ db'.taken = db.taken /\ db'.entries = db.entries
      /\ db'.playing = db.playing
  BY <1>1, <1>2 DEF DB
<1>4. KnownHosts(db') /\ AbsentAreBlank(db')
  BY <1>1, <1>2, <1>3 DEF KnownHosts, AbsentAreBlank, DB
<1> QED
  BY <1>3, <1>4, PlayersChange

\* A role or a host changed, before the lists are saved again.
LEMMA RoleChanged ==
    ASSUME ListAssumption, db \in Good, NEW p \in People, NEW role \in {"fijo", "invitado"},
           SetRole(p, role)
    PROVE  LET d == [db EXCEPT !.roles[p] = role]
           IN InOrder(db, d) /\ d.status = db.status /\ d.cancelled = db.cancelled
<1> DEFINE d == [db EXCEPT !.roles[p] = role]
<1>1. p \in db.players /\ db \in DB /\ KnownHosts(db) /\ AbsentAreBlank(db)
  BY DEF SetRole, Good
<1>2. /\ d \in DB /\ d.players = db.players /\ d.hosts = db.hosts
      /\ d.roles = [db.roles EXCEPT ![p] = role] /\ d.introducedBy = db.introducedBy
      /\ d.status = db.status /\ d.lines = db.lines /\ d.signedUp = db.signedUp
      /\ d.guests = db.guests /\ d.taken = db.taken /\ d.entries = db.entries
      /\ d.playing = db.playing /\ d.cancelled = db.cancelled
  BY <1>1 DEF DB
<1>3. KnownHosts(d) /\ AbsentAreBlank(d)
  BY <1>1, <1>2 DEF KnownHosts, AbsentAreBlank, DB
<1> HIDE DEF d
<1>4. InOrder(db, d)
  BY <1>2, <1>3, PlayersChange
<1> QED
  BY <1>2, <1>4 DEF d

LEMMA HostsChanged ==
    ASSUME ListAssumption, db \in Good, NEW p \in People,
           NEW hosts \in {<<>>} \cup {<<h>> : h \in People}, SetHosts(p, hosts)
    PROVE  LET d == [db EXCEPT !.hosts[p] = hosts]
           IN InOrder(db, d) /\ d.status = db.status /\ d.cancelled = db.cancelled
<1> DEFINE d == [db EXCEPT !.hosts[p] = hosts]
<1>1. /\ p \in db.players /\ ToSet(hosts) \subseteq db.players \ {p}
      /\ db \in DB /\ KnownHosts(db) /\ AbsentAreBlank(db)
  BY DEF SetHosts, Good
<1>2. hosts \in Seq(People)
  <2>1. CASE hosts = <<>>
    BY <2>1
  <2>2. ASSUME NEW h \in People, hosts = <<h>> PROVE hosts \in Seq(People)
    BY <2>2
  <2> QED
    BY <2>1, <2>2
<1>3. /\ d \in DB /\ d.players = db.players /\ d.roles = db.roles
      /\ d.hosts = [db.hosts EXCEPT ![p] = hosts] /\ d.introducedBy = db.introducedBy
      /\ d.status = db.status /\ d.lines = db.lines /\ d.signedUp = db.signedUp
      /\ d.guests = db.guests /\ d.taken = db.taken /\ d.entries = db.entries
      /\ d.playing = db.playing /\ d.cancelled = db.cancelled
  BY <1>1, <1>2 DEF DB
<1>4. KnownHosts(d) /\ AbsentAreBlank(d)
  BY <1>1, <1>3 DEF KnownHosts, AbsentAreBlank, DB
<1> HIDE DEF d
<1>5. InOrder(db, d)
  BY <1>3, <1>4, PlayersChange
<1> QED
  BY <1>3, <1>5 DEF d

\* A change of role or host: the lists that may still change are saved again after it.
ListsReached(d, e) ==
    /\ InOrder(d, e) /\ e.status = d.status /\ e.cancelled = d.cancelled
    /\ \A g \in Games : d.status[g] # "played" /\ g \notin d.cancelled => GuestsAreInvitados(e, g)

LEMMA RolesKeep ==
    ASSUME ListAssumption, db \in Good, ChangeRoles
    PROVE  ListsReached(db, db')
<1>1. ASSUME NEW d \in Good, InOrder(db, d), d.status = db.status, d.cancelled = db.cancelled,
             db' \in RefreshUnplayed(d)
      PROVE  ListsReached(db, db')
  BY <1>1, RefreshKeeps DEF InOrder, ListsReached
<1>2. ASSUME NEW p \in People, NEW role \in {"fijo", "invitado"}, SetRole(p, role)
      PROVE  ListsReached(db, db')
  BY <1>1, <1>2, RoleChanged DEF SetRole, InOrder
<1>3. ASSUME NEW p \in People, NEW hosts \in {<<>>} \cup {<<h>> : h \in People}, SetHosts(p, hosts)
      PROVE  ListsReached(db, db')
  BY <1>1, <1>3, HostsChanged DEF SetHosts, InOrder
<1> QED
  BY <1>2, <1>3 DEF ChangeRoles

\* A game changed, its list and its guests apart.
GameAs(d, g, status, signed, taken, entries, playing) ==
    [d EXCEPT !.status = [d.status EXCEPT ![g] = status],
              !.signedUp = [d.signedUp EXCEPT ![g] = signed],
              !.taken = [d.taken EXCEPT ![g] = taken],
              !.entries = [d.entries EXCEPT ![g] = entries],
              !.playing = [d.playing EXCEPT ![g] = playing]]

\* What it may be changed to.
MayBe(d, g, status, signed, taken, entries, playing) ==
    /\ d \in Good /\ g \in Games /\ status \in {"open", "called", "played"}
    /\ d.signedUp[g] \subseteq signed /\ signed \subseteq taken /\ taken \subseteq d.players
    /\ entries \subseteq Key /\ playing \subseteq entries
    /\ status = "open" => entries = {}

\* That leaves the other games as they were.
LEMMA GameChange ==
    ASSUME NEW d, NEW g, NEW status, NEW signed, NEW taken, NEW entries, NEW playing,
           MayBe(d, g, status, signed, taken, entries, playing)
    PROVE  LET e == GameAs(d, g, status, signed, taken, entries, playing)
           IN /\ e \in Good
              /\ \A h \in Games \ {g} : Following(d, h) => Following(e, h)
              /\ e.status[g] = status /\ e.signedUp[g] = signed /\ e.guests[g] = d.guests[g]
              /\ e.entries[g] = entries
<1> DEFINE e == GameAs(d, g, status, signed, taken, entries, playing)
<1>0. /\ d \in Good /\ g \in Games /\ status \in {"open", "called", "played"}
      /\ d.signedUp[g] \subseteq signed /\ signed \subseteq taken /\ taken \subseteq d.players
      /\ entries \subseteq Key /\ playing \subseteq entries
      /\ status = "open" => entries = {}
  BY DEF MayBe
<1>1. d \in DB /\ d.players \subseteq People
  BY <1>0 DEF Good, DB
<1>2. /\ e.players = d.players /\ e.name = d.name /\ e.aliases = d.aliases
      /\ e.introducedBy = d.introducedBy /\ e.roles = d.roles /\ e.hosts = d.hosts
      /\ e.cancelled = d.cancelled /\ e.lines = d.lines /\ e.guests = d.guests
      /\ e.status = [d.status EXCEPT ![g] = status]
      /\ e.signedUp = [d.signedUp EXCEPT ![g] = signed]
      /\ e.taken = [d.taken EXCEPT ![g] = taken]
      /\ e.entries = [d.entries EXCEPT ![g] = entries]
      /\ e.playing = [d.playing EXCEPT ![g] = playing]
  BY <1>0, <1>1 DEF DB, GameAs
<1>3. e \in DB
  BY <1>0, <1>1 DEF DB, GameAs
<1> HIDE DEF e
<1>4. KnownHosts(e) /\ AbsentAreBlank(e)
  BY <1>0, <1>2 DEF Good, KnownHosts, AbsentAreBlank
<1>5. /\ e.status[g] = status /\ e.signedUp[g] = signed /\ e.guests[g] = d.guests[g]
      /\ e.entries[g] = entries /\ e.taken[g] = taken /\ e.playing[g] = playing
      /\ e.lines[g] = d.lines[g]
  BY <1>0, <1>1, <1>2 DEF DB
<1>6. ListInv(e, g)
  BY <1>0, <1>2, <1>5 DEF Good, ListInv, LinesInv, GuestsInv, PlacesInv
<1>7. ASSUME NEW h \in Games \ {g}
      PROVE  ListInv(e, h) /\ (Following(d, h) => Following(e, h))
  <2>1. /\ e.status[h] = d.status[h] /\ e.lines[h] = d.lines[h] /\ e.signedUp[h] = d.signedUp[h]
        /\ e.guests[h] = d.guests[h] /\ e.taken[h] = d.taken[h] /\ e.entries[h] = d.entries[h]
        /\ e.playing[h] = d.playing[h]
    BY <1>0, <1>1, <1>2 DEF DB
  <2> QED
    BY <1>0, <1>2, <2>1 DEF Good, ListInv, LinesInv, GuestsInv, PlacesInv, Following
<1> QED
  BY <1>3, <1>4, <1>5, <1>6, <1>7 DEF Good, e

\* In a database in order the members of a game are entries it may have.
LEMMA MembersFit ==
    ASSUME ListAssumption, NEW d \in Good, NEW g \in Games
    PROVE  /\ Members(d.signedUp[g], d.guests[g]) \subseteq Key
           /\ \A h \in People : PlusOnes(d.guests[g], h) \in 0..MaxLines
<1>1. /\ d \in DB /\ d.guests[g] \subseteq Guest /\ d.signedUp[g] \subseteq People
      /\ d.lines[g] \in Seq(Line) /\ MaxLines \in Nat
      /\ Len(d.lines[g]) <= MaxLines
      /\ \A r \in d.guests[g] :
            r.position \in DOMAIN d.lines[g]
            /\ \A s \in d.guests[g] : s.position = r.position => s = r
  BY DEF Good, DB, ListInv, LinesInv, GuestsInv, ListAssumption
<1>2. \A r \in d.guests[g] : r.position \in 1..MaxLines
  BY <1>1
<1>3. \A h \in People : PlusOnes(d.guests[g], h) \in 0..MaxLines
  BY <1>1, <1>2, PlusOnesBounded
<1> QED
  BY <1>1, <1>3, MembersType

LEMMA CreateKeeps ==
    ASSUME ListAssumption, db \in Good, NEW g \in Games, CreateConvocatoria(g)
    PROVE  InOrder(db, db')
<1> DEFINE members == Members(db.signedUp[g], db.guests[g])
<1>1. PICK playing \in SUBSET members :
          db' = [db EXCEPT !.status[g] = "called", !.entries[g] = members, !.playing[g] = playing]
  BY DEF CreateConvocatoria
<1>2. members \subseteq Key
  BY MembersFit
<1>3. db \in DB /\ db.signedUp[g] \subseteq db.taken[g] /\ db.taken[g] \subseteq db.players
  BY DEF Good, ListInv, PlacesInv
<1> DEFINE e == GameAs(db, g, "called", db.signedUp[g], db.taken[g], members, playing)
<1>4. db' = e
  <2> HIDE DEF members
  <2> QED
    BY <1>1, <1>3 DEF DB, GameAs
<1> HIDE DEF members, e
<1>5. MayBe(db, g, "called", db.signedUp[g], db.taken[g], members, playing)
  BY <1>2, <1>3 DEF MayBe
<1>6. /\ e \in Good /\ \A h \in Games \ {g} : Following(db, h) => Following(e, h)
      /\ e.status[g] = "called" /\ e.signedUp[g] = db.signedUp[g] /\ e.guests[g] = db.guests[g]
      /\ e.entries[g] = members
  BY <1>5, GameChange DEF e
<1>7. Following(e, g)
  BY <1>6 DEF Following, members
<1> QED
  BY <1>4, <1>6, <1>7 DEF InOrder

\* What leaves the sign-ups and the entries of a game alone, and does not open it again.
LEMMA StatusChange ==
    ASSUME db \in Good, NEW g \in Games, NEW status \in {"called", "played"},
           NEW playing \in SUBSET db.entries[g], db.status[g] # "open",
           db' = [db EXCEPT !.status[g] = status, !.playing[g] = playing]
    PROVE  InOrder(db, db')
<1>1. /\ db \in DB /\ db.signedUp[g] \subseteq db.taken[g] /\ db.taken[g] \subseteq db.players
      /\ db.entries[g] \subseteq Key
  BY DEF Good, DB, ListInv, PlacesInv
<1> DEFINE e == GameAs(db, g, status, db.signedUp[g], db.taken[g], db.entries[g], playing)
<1>2. db' = e
  BY <1>1 DEF DB, GameAs
<1> HIDE DEF e
<1>3. MayBe(db, g, status, db.signedUp[g], db.taken[g], db.entries[g], playing)
  BY <1>1 DEF MayBe
<1>4. /\ e \in Good /\ \A h \in Games \ {g} : Following(db, h) => Following(e, h)
      /\ e.status[g] = status /\ e.signedUp[g] = db.signedUp[g] /\ e.guests[g] = db.guests[g]
      /\ e.entries[g] = db.entries[g]
  BY <1>3, GameChange DEF e
<1> QED
  BY <1>2, <1>4 DEF InOrder, Following

LEMMA StatusKeeps ==
    ASSUME db \in Good, NEW g \in Games,
           Play(g) \/ Reopen(g) \/ \E k \in Key : Move(g, k)
    PROVE  InOrder(db, db')
<1>1. db \in DB /\ db.playing[g] \subseteq db.entries[g]
  BY DEF Good, ListInv, PlacesInv
<1>2. CASE Play(g)
  <2>1. db' = [db EXCEPT !.status[g] = "played", !.playing[g] = db.playing[g]] /\ db.status[g] # "open"
    BY <1>1, <1>2 DEF Play, DB
  <2> QED
    BY <1>1, <2>1, StatusChange
<1>3. CASE Reopen(g)
  <2>1. db' = [db EXCEPT !.status[g] = "called", !.playing[g] = db.playing[g]] /\ db.status[g] # "open"
    BY <1>1, <1>3 DEF Reopen, DB
  <2> QED
    BY <1>1, <2>1, StatusChange
<1>4. ASSUME NEW k \in Key, Move(g, k) PROVE InOrder(db, db')
  <2> DEFINE playing == IF k \in db.playing[g] THEN db.playing[g] \ {k} ELSE db.playing[g] \cup {k}
  <2>1. db.status[g] = "called" /\ db' = [db EXCEPT !.playing[g] = playing]
    BY <1>4 DEF Move
  <2>2. playing \subseteq db.entries[g]
    BY <1>1, <1>4 DEF Move
  <2> HIDE DEF playing
  <2>3. db' = [db EXCEPT !.status[g] = "called", !.playing[g] = playing]
    BY <1>1, <2>1 DEF DB
  <2> QED
    BY <2>1, <2>2, <2>3, StatusChange
<1> QED
  BY <1>2, <1>3, <1>4

LEMMA CancelKeeps ==
    ASSUME db \in Good, NEW g \in Games, Cancel(g) \/ Uncancel(g)
    PROVE  InOrder(db, db')
<1>1. PICK cancelled \in SUBSET Games : db' = [db EXCEPT !.cancelled = cancelled]
  BY DEF Cancel, Uncancel, Good, DB
<1>2. db \in DB /\ KnownHosts(db) /\ AbsentAreBlank(db)
  BY DEF Good
<1>3. /\ db' \in DB /\ db'.players = db.players /\ db'.hosts = db.hosts /\ db'.roles = db.roles
      /\ db'.introducedBy = db.introducedBy
      /\ db'.status = db.status /\ db'.lines = db.lines /\ db'.signedUp = db.signedUp
      /\ db'.guests = db.guests /\ db'.taken = db.taken /\ db'.entries = db.entries
      /\ db'.playing = db.playing
  BY <1>1, <1>2 DEF DB
<1>4. KnownHosts(db') /\ AbsentAreBlank(db')
  BY <1>2, <1>3 DEF KnownHosts, AbsentAreBlank
<1> QED
  BY <1>3, <1>4, PlayersChange

\* A sign-up past the list leaves the list's guests as they were.
LEMMA DirectKeeps ==
    ASSUME db \in Good, NEW g \in Games, NEW p \in People, SignUpDirectly(g, p)
    PROVE  db' \in Good
<1>1. /\ p \in db.players /\ db \in DB
      /\ db.signedUp[g] \subseteq db.taken[g] /\ db.taken[g] \subseteq db.players
      /\ db.entries[g] \subseteq Key /\ db.playing[g] \subseteq db.entries[g]
      /\ db.status[g] = "open" => db.entries[g] = {}
  BY DEF SignUpDirectly, Good, DB, ListInv, PlacesInv
<1> DEFINE signed == db.signedUp[g] \cup {p}
           taken == db.taken[g] \cup {p}
           e == GameAs(db, g, db.status[g], signed, taken, db.entries[g], db.playing[g])
<1>2. db' = e /\ db.status[g] \in {"open", "called", "played"}
  <2>1. db' = [db EXCEPT !.signedUp[g] = signed, !.taken[g] = taken]
    BY DEF SignUpDirectly
  <2> HIDE DEF signed, taken
  <2>2. db' = [db EXCEPT !.signedUp = [db.signedUp EXCEPT ![g] = signed],
                         !.taken = [db.taken EXCEPT ![g] = taken]]
    BY <1>1, <2>1 DEF DB
  <2>3. /\ db.status = [db.status EXCEPT ![g] = db.status[g]]
        /\ db.entries = [db.entries EXCEPT ![g] = db.entries[g]]
        /\ db.playing = [db.playing EXCEPT ![g] = db.playing[g]]
        /\ db.status[g] \in {"open", "called", "played"}
    BY <1>1 DEF DB
  <2> DEFINE signedUp == [db.signedUp EXCEPT ![g] = signed]
             took == [db.taken EXCEPT ![g] = taken]
  <2>4. e = [db EXCEPT !.status = db.status, !.signedUp = signedUp, !.taken = took,
                       !.entries = db.entries, !.playing = db.playing]
    BY <2>3 DEF GameAs
  <2>5. db' = [db EXCEPT !.signedUp = signedUp, !.taken = took]
    BY <2>2
  <2> HIDE DEF e, signedUp, took
  <2>6. db' = e
    BY <1>1, <2>4, <2>5 DEF DB
  <2> QED
    BY <2>3, <2>6
<1> HIDE DEF e
<1>3. MayBe(db, g, db.status[g], signed, taken, db.entries[g], db.playing[g])
  BY <1>1, <1>2 DEF MayBe
<1>4. e \in Good
  BY <1>3, GameChange DEF e
<1> QED
  BY <1>2, <1>4

LEMMA PeopleChange ==
    ASSUME db \in DB, NEW players \in SUBSET People, NEW name \in [People -> Spellings],
           NEW aliases \in [People -> SUBSET Spellings],
           NEW introducedBy \in [People -> People \cup {None}],
           NEW roles \in [People -> {"fijo", "invitado", None}],
           NEW hosts \in [People -> Seq(People)]
    PROVE  [db EXCEPT !.players = players, !.name = name, !.aliases = aliases,
                      !.introducedBy = introducedBy, !.roles = roles, !.hosts = hosts] \in DB
  BY DEF DB

\* Nothing is left speaking of a player deleted.
LEMMA DeleteKeeps ==
    ASSUME ListAssumption, db \in Good, NEW p \in People, Delete(p)
    PROVE  InOrder(db, db')
<1>1. /\ p \in db.players /\ ~Traces(db, p)
      /\ db' = [db EXCEPT !.players = @ \ {p}, !.name[p] = Named[p], !.aliases[p] = {},
                          !.introducedBy[p] = None, !.roles[p] = None, !.hosts[p] = <<>>]
  BY DEF Delete
<1>2. db \in DB /\ KnownHosts(db) /\ AbsentAreBlank(db) /\ Named \in [People -> Spellings]
  BY DEF Good, ListAssumption
<1>3. /\ db'.players = db.players \ {p} /\ db'.hosts = [db.hosts EXCEPT ![p] = <<>>]
      /\ db'.roles = [db.roles EXCEPT ![p] = None]
      /\ db'.introducedBy = [db.introducedBy EXCEPT ![p] = None]
      /\ db'.status = db.status /\ db'.lines = db.lines /\ db'.signedUp = db.signedUp
      /\ db'.guests = db.guests /\ db'.taken = db.taken /\ db'.entries = db.entries
      /\ db'.playing = db.playing
  BY <1>1, <1>2 DEF DB
<1>4. db' \in DB
  <2>1. /\ [db.name EXCEPT ![p] = Named[p]] \in [People -> Spellings]
        /\ [db.aliases EXCEPT ![p] = {}] \in [People -> SUBSET Spellings]
        /\ [db.hosts EXCEPT ![p] = <<>>] \in [People -> Seq(People)]
        /\ [db.roles EXCEPT ![p] = None] \in [People -> {"fijo", "invitado", None}]
        /\ [db.introducedBy EXCEPT ![p] = None] \in [People -> People \cup {None}]
    BY <1>2 DEF DB
  <2> DEFINE e == [db EXCEPT !.players = @ \ {p}, !.name = [@ EXCEPT ![p] = Named[p]],
                             !.aliases = [@ EXCEPT ![p] = {}],
                             !.introducedBy = [@ EXCEPT ![p] = None],
                             !.roles = [@ EXCEPT ![p] = None], !.hosts = [@ EXCEPT ![p] = <<>>]]
  <2>2. db' = e
    BY <1>1
  <2>3. db.players \ {p} \in SUBSET People
    BY <1>2 DEF DB
  <2>4. e \in DB
    BY <1>2, <2>1, <2>3, PeopleChange
  <2> QED
    BY <2>2, <2>4
<1>5. KnownHosts(db') /\ AbsentAreBlank(db')
  <2>1. \A q \in db.players \ {p} : db.introducedBy[q] # p /\ p \notin ToSet(db.hosts[q])
    BY <1>1 DEF Traces
  <2>2. \A q \in People \ {p} : db'.hosts[q] = db.hosts[q] /\ db'.roles[q] = db.roles[q]
                                /\ db'.introducedBy[q] = db.introducedBy[q]
    BY <1>2, <1>3 DEF DB
  <2>3. db'.hosts[p] = <<>> /\ db'.roles[p] = None /\ db'.introducedBy[p] = None
    BY <1>2, <1>3 DEF DB
  <2>4. db.players \subseteq People
    BY <1>2 DEF DB
  <2> QED
    BY <1>2, <1>3, <2>1, <2>2, <2>3, <2>4 DEF KnownHosts, AbsentAreBlank
<1>6. ASSUME NEW g \in Games
      PROVE  ListInv(db', g) /\ (Following(db, g) => Following(db', g))
  <2>1. ListInv(db, g)
    BY DEF Good
  <2>2. /\ p \notin db.taken[g]
        /\ \A r \in db.guests[g] : p # r.player /\ p # r.host
        /\ \A i \in DOMAIN db.lines[g] : p \notin Links(db.lines[g][i])
    BY <1>1 DEF Traces, ToSet
  <2> QED
    BY <1>3, <2>1, <2>2 DEF ListInv, LinesInv, GuestsInv, PlacesInv, Following
<1> QED
  BY <1>4, <1>5, <1>6 DEF InOrder, Good

-----------------------------------------------------------------------------
(* Two players who turn out to be one *)

To(into, from, p) == IF p = from THEN into ELSE p

KeyTo(into, from, k) ==
    [k EXCEPT !.player = To(into, from, k.player), !.host = To(into, from, k.host)]

LineTo(into, from, l) ==
    [l EXCEPT !.nameLink = To(into, from, l.nameLink), !.hostLink = To(into, from, l.hostLink)]

RolesTo(d, into, from) ==
    [d.roles EXCEPT ![into] = IF d.roles[into] = None THEN d.roles[from] ELSE d.roles[into],
                    ![from] = None]

\* What a merge changes.
LEMMA MergedIs ==
    ASSUME NEW d \in DB, NEW into \in People, NEW from \in People, into # from
    PROVE  Merged(d, into, from) =
               [players |-> d.players \ {from}, name |-> [d.name EXCEPT ![from] = Named[from]],
                aliases |-> MergedAliases(d, into, from),
                introducedBy |-> MergedIntroducers(d, into, from),
                roles |-> RolesTo(d, into, from), hosts |-> MergedHosts(d, into, from),
                status |-> d.status, cancelled |-> d.cancelled,
                lines |-> [g \in Games |->
                              [i \in DOMAIN d.lines[g] |-> LineTo(into, from, d.lines[g][i])]],
                signedUp |-> [g \in Games |-> {To(into, from, x) : x \in d.signedUp[g]}],
                guests |-> [g \in Games |-> {KeyTo(into, from, x) : x \in d.guests[g]}],
                taken |-> [g \in Games |-> {To(into, from, x) : x \in d.taken[g]}],
                entries |-> [g \in Games |-> {KeyTo(into, from, x) : x \in d.entries[g]}],
                playing |-> [g \in Games |-> {KeyTo(into, from, x) : x \in d.playing[g]}]]
<1> DEFINE named == [d.name EXCEPT ![from] = Named[from]]
           aliased == MergedAliases(d, into, from)
           introduced == MergedIntroducers(d, into, from)
           roled == RolesTo(d, into, from)
           hosted == MergedHosts(d, into, from)
           lined == [g \in Games |-> [i \in DOMAIN d.lines[g] |-> LineTo(into, from, d.lines[g][i])]]
           signed == [g \in Games |-> {To(into, from, x) : x \in d.signedUp[g]}]
           guested == [g \in Games |-> {KeyTo(into, from, x) : x \in d.guests[g]}]
           took == [g \in Games |-> {To(into, from, x) : x \in d.taken[g]}]
           entered == [g \in Games |-> {KeyTo(into, from, x) : x \in d.entries[g]}]
           played == [g \in Games |-> {KeyTo(into, from, x) : x \in d.playing[g]}]
<1>1. Merged(d, into, from) =
          [d EXCEPT !.players = @ \ {from}, !.name[from] = Named[from],
                    !.aliases = aliased, !.introducedBy = introduced, !.roles = roled,
                    !.hosts = hosted, !.lines = lined, !.signedUp = signed, !.taken = took,
                    !.guests = guested, !.entries = entered, !.playing = played]
  BY DEF Merged, To, KeyTo, LineTo, RolesTo
<1> HIDE DEF aliased, introduced, roled, hosted, lined, signed, guested, took, entered, played
<1>2. Merged(d, into, from) =
          [players |-> d.players \ {from}, name |-> named, aliases |-> aliased,
           introducedBy |-> introduced, roles |-> roled, hosts |-> hosted,
           status |-> d.status, cancelled |-> d.cancelled, lines |-> lined, signedUp |-> signed,
           guests |-> guested, taken |-> took, entries |-> entered, playing |-> played]
  BY <1>1, ZenonT(60) DEF DB
<1> QED
  BY <1>2 DEF aliased, introduced, roled, hosted, lined, signed, guested, took, entered, played

LEMMA HostsMerged ==
    ASSUME ListAssumption, NEW d \in Good, NEW into \in d.players, NEW from \in d.players,
           into # from, NEW p \in People
    PROVE  /\ MergedHosts(d, into, from)[p] \in Seq(People)
           /\ p \in d.players \ {from} =>
                 ToSet(MergedHosts(d, into, from)[p]) \subseteq d.players \ {from, p}
           /\ p \notin d.players \ {from} => MergedHosts(d, into, from)[p] = <<>>
<1> DEFINE M == MergedHosts(d, into, from)[p]
           Others(q) == d.players \ {from, q}
<1>1. /\ d.players \subseteq People /\ into \in People /\ from \in People
      /\ \A q \in People : d.hosts[q] \in Seq(People)
      /\ \A q \in d.players : ToSet(d.hosts[q]) \subseteq d.players \ {q}
      /\ \A q \in People \ d.players : d.hosts[q] = <<>>
  <2>1. \A q \in d.players : None \notin ToSet(d.hosts[q])
    BY DEF Good, DB, ToSet, ListAssumption
  <2> QED
    BY <2>1 DEF Good, DB, KnownHosts, AbsentAreBlank
<1>2. ASSUME NEW hosts \in Seq(People), ToSet(hosts) \subseteq Others(p)
      PROVE  hosts \in Seq(Others(p))
  <2>1. \A i \in 1..Len(hosts) : hosts[i] \in Others(p)
    BY <1>2 DEF ToSet
  <2> HIDE DEF Others
  <2> QED
    BY <2>1
<1>3. ASSUME NEW S, S \subseteq People, NEW hosts \in Seq(S)
      PROVE  hosts \in Seq(People) /\ ToSet(hosts) \subseteq S
  BY <1>3 DEF ToSet
<1>4. CASE p = into
  <2> DEFINE out == ToSet(d.hosts[into]) \cup {into}
             added == Without(d.hosts[from], out)
             both == d.hosts[into] \o added
  <2>1. M = Without(both, {from})
    BY <1>1, <1>4 DEF MergedHosts
  <2>2. added \in Seq(ToSet(d.hosts[from]) \ out)
    BY <1>1, WithoutType
  <2>3. added \in Seq(d.players \ {into}) /\ d.hosts[into] \in Seq(d.players \ {into})
    <3>1. \A i \in 1..Len(d.hosts[into]) : d.hosts[into][i] \in d.players \ {into}
      BY <1>1 DEF ToSet
    <3>2. ToSet(d.hosts[from]) \ out \subseteq d.players \ {into}
      BY <1>1
    <3> DEFINE T == ToSet(d.hosts[from]) \ out
    <3> HIDE DEF added, T
    <3>3. added \in Seq(d.players \ {into})
      BY <2>2, <3>2 DEF T
    <3>4. d.hosts[into] \in Seq(d.players \ {into})
      BY <1>1, <3>1
    <3> QED
      BY <3>3, <3>4
  <2> HIDE DEF added
  <2>4. both \in Seq(d.players \ {into})
    BY <2>3
  <2> HIDE DEF both
  <2>5. M \in Seq(ToSet(both) \ {from}) /\ ToSet(both) \subseteq d.players \ {into}
    BY <2>1, <2>4, WithoutType DEF ToSet
  <2>6. ToSet(both) \ {from} \subseteq Others(p)
    BY <1>4, <2>5
  <2> QED
    BY <1>1, <1>3, <1>4, <2>5, <2>6
<1>5. CASE p = from
  BY <1>1, <1>5 DEF MergedHosts, ToSet
<1>6. CASE p \notin {into, from}
  <2> DEFINE hosts == d.hosts[p]
             renamed == [i \in DOMAIN hosts |-> IF hosts[i] = from THEN into ELSE hosts[i]]
  <2>1. M = IF into \in ToSet(hosts) THEN Without(hosts, {from}) ELSE renamed
    BY <1>1, <1>6 DEF MergedHosts
  <2>2. CASE p \in d.players
    <3>1. Without(hosts, {from}) \in Seq(Others(p))
      <4>1. Without(hosts, {from}) \in Seq(ToSet(hosts) \ {from})
        BY <1>1, WithoutType
      <4>2. ToSet(hosts) \ {from} \subseteq Others(p)
        BY <1>1, <2>2
      <4> HIDE DEF Others, hosts
      <4> QED
        BY <4>1, <4>2
    <3>2. renamed \in Seq(Others(p))
      <4>1. hosts \in Seq(People) /\ \A i \in 1..Len(hosts) : hosts[i] \in d.players \ {p}
        BY <1>1, <2>2 DEF ToSet
      <4>2. into \in Others(p)
        BY <1>6
      <4> HIDE DEF hosts
      <4> QED
        BY <4>1, <4>2
    <3>3. Others(p) \subseteq People
      BY <1>1
    <3>4. M \in Seq(Others(p))
      BY <2>1, <3>1, <3>2
    <3> QED
      BY <1>3, <1>6, <2>2, <3>3, <3>4
  <2>3. CASE p \notin d.players
    <3>1. hosts = <<>> /\ ToSet(hosts) = {}
      BY <1>1, <2>3 DEF ToSet
    <3>2. renamed = <<>>
      BY <3>1
    <3> QED
      BY <2>1, <2>3, <3>1, <3>2
  <2> QED
    BY <2>2, <2>3
<1> QED
  BY <1>4, <1>5, <1>6

LEMMA IntroducersMerged ==
    ASSUME ListAssumption, NEW d \in Good, NEW into \in d.players, NEW from \in d.players,
           into # from, NEW p \in People
    PROVE  /\ MergedIntroducers(d, into, from) \in [People -> People \cup {None}]
           /\ p \in d.players \ {from} =>
                 MergedIntroducers(d, into, from)[p] \in (d.players \ {from, p}) \cup {None}
           /\ p \notin d.players \ {from} => MergedIntroducers(d, into, from)[p] = None
<1> DEFINE known == [d.introducedBy EXCEPT
                        ![into] = IF d.introducedBy[into] = None THEN d.introducedBy[from]
                                  ELSE d.introducedBy[into],
                        ![from] = None]
           renamed == [q \in People |-> IF known[q] = from THEN into ELSE known[q]]
<1>1. /\ d.players \subseteq People /\ None \notin People
      /\ d.introducedBy \in [People -> People \cup {None}]
      /\ \A q \in d.players : d.introducedBy[q] \in (d.players \ {q}) \cup {None}
      /\ \A q \in People \ d.players : d.introducedBy[q] = None
  BY DEF Good, DB, KnownHosts, AbsentAreBlank, ListAssumption
<1>2. MergedIntroducers(d, into, from) =
          [renamed EXCEPT ![into] = IF renamed[into] = into THEN None ELSE renamed[into]]
  BY <1>1 DEF MergedIntroducers
<1>3. /\ known \in [People -> People \cup {None}]
      /\ known[into] \in d.players \cup {None} /\ known[from] = None
      /\ \A q \in People \ {into, from} : known[q] = d.introducedBy[q]
  BY <1>1
<1> HIDE DEF known
<1>4. /\ renamed \in [People -> People \cup {None}]
      /\ renamed[into] \in (d.players \ {from}) \cup {None} /\ renamed[from] = None
      /\ \A q \in d.players \ {into, from} : renamed[q] \in (d.players \ {from, q}) \cup {None}
      /\ \A q \in People \ d.players : renamed[q] = None
  BY <1>1, <1>3
<1> HIDE DEF renamed
<1> QED
  BY <1>1, <1>2, <1>4

AnonymousOf(guests, h) == {r \in guests : r.player = None /\ r.host = h}

\* The two never took part in the same game, so at most one of them brings anonymous guests
\* to it, and the survivor keeps theirs.
LEMMA PlusOnesMerged ==
    ASSUME ListAssumption, NEW d \in Good, NEW into \in d.players, NEW from \in d.players,
           into # from, ~ShareAGame(d, into, from), NEW g \in Games
    PROVE  LET guests == d.guests[g]
               after  == {KeyTo(into, from, r) : r \in guests}
           IN /\ \A h \in People \ {into, from} : PlusOnes(after, h) = PlusOnes(guests, h)
              /\ PlusOnes(after, from) = 0
              /\ \/ PlusOnes(guests, into) = 0 /\ PlusOnes(after, into) = PlusOnes(guests, from)
                 \/ PlusOnes(guests, from) = 0 /\ PlusOnes(after, into) = PlusOnes(guests, into)
<1> DEFINE guests == d.guests[g]
           after == {KeyTo(into, from, r) : r \in guests}
           K(r) == KeyTo(into, from, r)
<1>1. /\ guests \subseteq Guest /\ into \in People /\ from \in People /\ None \notin People
      /\ GuestsInv(d, g) /\ d.signedUp[g] \subseteq d.taken[g]
  BY DEF Good, DB, ListInv, PlacesInv, ListAssumption
<1>2. ASSUME NEW r \in guests
      PROVE  /\ K(r).player = None <=> r.player = None
             /\ K(r).host = To(into, from, r.host) /\ K(r).position = r.position
             /\ r.player = None /\ r.host # from => K(r) = r
  BY <1>1 DEF KeyTo, To, Guest
<1>3. ASSUME NEW h, h # from, h # into PROVE AnonymousOf(after, h) = AnonymousOf(guests, h)
  <2>1. ASSUME NEW x \in AnonymousOf(after, h) PROVE x \in AnonymousOf(guests, h)
    <3>1. PICK r \in guests : x = K(r)
      BY DEF AnonymousOf
    <3>2. r.player = None /\ r.host = h
      BY <1>2, <1>3, <3>1 DEF AnonymousOf, To
    <3> QED
      BY <1>2, <1>3, <3>1, <3>2 DEF AnonymousOf
  <2>2. ASSUME NEW x \in AnonymousOf(guests, h) PROVE x \in AnonymousOf(after, h)
    <3>1. x \in guests /\ K(x) = x
      BY <1>2, <1>3 DEF AnonymousOf
    <3> QED
      BY <3>1 DEF AnonymousOf
  <2> QED
    BY <2>1, <2>2
<1>4. AnonymousOf(after, from) = {}
  <2>1. \A r \in guests : K(r).host # from
    BY <1>2 DEF To
  <2> QED
    BY <2>1 DEF AnonymousOf
<1>5. AnonymousOf(guests, into) = {} \/ AnonymousOf(guests, from) = {}
  <2>1. ASSUME NEW r \in AnonymousOf(guests, into), NEW s \in AnonymousOf(guests, from) PROVE FALSE
    <3>1. into \in d.taken[g] /\ from \in d.taken[g]
      BY <1>1 DEF AnonymousOf, GuestsInv
    <3> QED
      BY <3>1 DEF ShareAGame
  <2> QED
    BY <2>1
<1>6. CASE AnonymousOf(guests, from) = {}
  <2>1. ASSUME NEW x \in AnonymousOf(after, into) PROVE x \in AnonymousOf(guests, into)
    <3>1. PICK r \in guests : x = K(r)
      BY DEF AnonymousOf
    <3>2. r.player = None /\ r.host = into
      BY <1>2, <1>6, <3>1 DEF AnonymousOf, To
    <3> QED
      BY <1>2, <3>1, <3>2 DEF AnonymousOf
  <2>2. ASSUME NEW x \in AnonymousOf(guests, into) PROVE x \in AnonymousOf(after, into)
    <3>1. x \in guests /\ K(x) = x
      BY <1>2 DEF AnonymousOf
    <3> QED
      BY <3>1 DEF AnonymousOf
  <2>3. AnonymousOf(after, into) = AnonymousOf(guests, into)
    BY <2>1, <2>2
  <2> QED
    BY <1>3, <1>4, <1>6, <2>3, FS_EmptySet DEF PlusOnes, AnonymousOf
<1>7. CASE AnonymousOf(guests, into) = {}
  <2> DEFINE S == AnonymousOf(guests, from)
             T == AnonymousOf(after, into)
             f == [r \in S |-> K(r)]
  <2>1. IsFiniteSet(S)
    <3>1. /\ d.lines[g] \in Seq(Line)
          /\ \A r \in guests : r.position \in DOMAIN d.lines[g]
                               /\ \A s \in guests : s.position = r.position => s = r
      BY <1>1 DEF Good, DB, GuestsInv
    <3> DEFINE n == Len(d.lines[g])
    <3>2. n \in Nat /\ (\A r \in guests : r.position \in 1..n)
      BY <3>1
    <3>3. \A r, s \in guests : s.position = r.position => s = r
      BY <3>1
    <3>4. guests \in SUBSET Guest
      BY <1>1
    <3> HIDE DEF n, guests
    <3>5. IsFiniteSet({r \in guests : r.player = None /\ r.host = from})
      BY <3>2, <3>3, <3>4, PlusOnesBounded, ZenonT(60)
    <3> QED
      BY <3>5 DEF AnonymousOf
  <2>2. \A r \in S : K(r) \in T
    BY <1>2 DEF AnonymousOf, To
  <2>3. \A x \in T : \E r \in S : x = K(r)
    <3> SUFFICES ASSUME NEW x \in T PROVE \E r \in S : x = K(r)
      OBVIOUS
    <3>1. PICK r \in guests : x = K(r)
      BY DEF AnonymousOf
    <3>2. r.player = None /\ (r.host = from \/ r.host = into)
      BY <1>2, <3>1 DEF AnonymousOf, To
    <3> QED
      BY <1>7, <3>1, <3>2 DEF AnonymousOf
  <2>4. \A r, s \in S : K(r) = K(s) => r = s
    BY <1>1, <1>2 DEF AnonymousOf, GuestsInv
  <2> HIDE DEF S, T, K
  <2>5. f \in Bijection(S, T)
    BY <2>2, <2>3, <2>4 DEF Bijection, Injection, Surjection, IsInjective
  <2>6. Cardinality(T) = Cardinality(S)
    BY <2>1, <2>5, FS_Bijection DEF ExistsBijection
  <2> QED
    BY <1>3, <1>4, <1>7, <2>6, FS_EmptySet DEF PlusOnes, AnonymousOf, S, T
<1> QED
  BY <1>5, <1>6, <1>7

LEMMA KeyRenamed ==
    ASSUME NEW into, NEW from, NEW p, NEW h, NEW n
    PROVE  KeyTo(into, from, [player |-> p, host |-> h, ordinal |-> n]) =
               [player |-> To(into, from, p), host |-> To(into, from, h), ordinal |-> n]
<1> DEFINE k == [player |-> p, host |-> h, ordinal |-> n]
           x == To(into, from, k.player)
           y == To(into, from, k.host)
<1>1. x = To(into, from, p) /\ y = To(into, from, h)
  OBVIOUS
<1>2. KeyTo(into, from, k) = [k EXCEPT !.player = x, !.host = y]
  BY DEF KeyTo
<1>3. k \in [player : {p}, host : {h}, ordinal : {n}]
  OBVIOUS
<1> HIDE DEF k, x, y
<1>4. [k EXCEPT !.player = x, !.host = y] = [player |-> x, host |-> y, ordinal |-> n]
  <2> DEFINE e == [k EXCEPT !.player = x, !.host = y]
  <2>1. e \in [player : {x}, host : {y}, ordinal : {n}]
    BY <1>3
  <2> HIDE DEF e
  <2>2. e = [player |-> x, host |-> y, ordinal |-> n]
    BY <2>1
  <2> QED
    BY <2>2 DEF e
<1> QED
  BY <1>1, <1>2, <1>4 DEF k

\* The members of a game after a merge are those there were, by their new names.
LEMMA MembersMerged ==
    ASSUME ListAssumption, NEW d \in Good, NEW into \in d.players, NEW from \in d.players,
           into # from, ~ShareAGame(d, into, from), NEW g \in Games
    PROVE  {KeyTo(into, from, k) : k \in Members(d.signedUp[g], d.guests[g])} =
               Members({To(into, from, p) : p \in d.signedUp[g]},
                       {KeyTo(into, from, r) : r \in d.guests[g]})
<1> DEFINE guests == d.guests[g]
           after == {KeyTo(into, from, r) : r \in guests}
           Nth(h, n) == [player |-> None, host |-> h, ordinal |-> n]
           Moved == {KeyTo(into, from, k) : k \in Members(d.signedUp[g], guests)}
           New == Members({To(into, from, p) : p \in d.signedUp[g]}, after)
<1>1. /\ d.signedUp[g] \subseteq People /\ into \in People /\ from \in People /\ None \notin People
      /\ MaxLines \in Nat
  BY DEF Good, DB, ListAssumption
<1>2. /\ \A h \in People : PlusOnes(guests, h) \in 0..MaxLines
      /\ \A h \in People \ {into, from} : PlusOnes(after, h) = PlusOnes(guests, h)
      /\ PlusOnes(after, from) = 0
      /\ \/ PlusOnes(guests, into) = 0 /\ PlusOnes(after, into) = PlusOnes(guests, from)
         \/ PlusOnes(guests, from) = 0 /\ PlusOnes(after, into) = PlusOnes(guests, into)
  BY MembersFit, PlusOnesMerged
<1>3. \A p \in People : KeyTo(into, from, Player(p)) = Player(To(into, from, p))
  <2>1. \A p : KeyTo(into, from, Player(p)) =
                  [player |-> To(into, from, p), host |-> To(into, from, None), ordinal |-> 0]
    BY KeyRenamed DEF Player
  <2>2. To(into, from, None) = None
    BY <1>1 DEF To
  <2> QED
    BY <2>1, <2>2 DEF Player
<1>4. \A h, n : KeyTo(into, from, Nth(h, n)) = Nth(To(into, from, h), n)
  <2>1. \A h, n : KeyTo(into, from, Nth(h, n)) =
                     [player |-> To(into, from, None), host |-> To(into, from, h), ordinal |-> n]
    BY KeyRenamed
  <2>2. To(into, from, None) = None
    BY <1>1 DEF To
  <2> QED
    BY <2>1, <2>2
<1>5. ASSUME NEW gs, NEW k
      PROVE  k \in GuestOrdinals(gs) <=> \E h \in People : \E n \in 1..PlusOnes(gs, h) : k = Nth(h, n)
  BY DEF GuestOrdinals
<1> HIDE DEF guests, after, Nth
<1>6. ASSUME NEW k \in Moved PROVE k \in New
  <2>1. PICK m \in Members(d.signedUp[g], guests) : k = KeyTo(into, from, m)
    OBVIOUS
  <2>2. CASE \E p \in d.signedUp[g] : m = Player(p)
    BY <1>1, <1>3, <2>1, <2>2 DEF Members
  <2>3. CASE m \in GuestOrdinals(guests)
    <3>1. PICK h \in People : \E n \in 1..PlusOnes(guests, h) : m = Nth(h, n)
      BY <1>5, <2>3
    <3> PICK n \in 1..PlusOnes(guests, h) : m = Nth(h, n)
      BY <3>1
    <3>2. k = Nth(To(into, from, h), n) /\ To(into, from, h) \in People
      BY <1>1, <1>4, <2>1, <3>1 DEF To
    <3>3. n \in 1..PlusOnes(after, To(into, from, h))
      BY <1>1, <1>2, <3>1 DEF To
    <3>4. k \in GuestOrdinals(after)
      BY <1>5, <3>2, <3>3
    <3> QED
      BY <3>4 DEF Members
  <2> QED
    BY <2>1, <2>2, <2>3 DEF Members
<1>7. ASSUME NEW k \in New PROVE k \in Moved
  <2>1. CASE \E p \in d.signedUp[g] : k = Player(To(into, from, p))
    BY <1>1, <1>3, <2>1 DEF Members
  <2>2. CASE k \in GuestOrdinals(after)
    <3>1. PICK h \in People : \E n \in 1..PlusOnes(after, h) : k = Nth(h, n)
      BY <1>5, <2>2
    <3> PICK n \in 1..PlusOnes(after, h) : k = Nth(h, n)
      BY <3>1
    <3>2. PICK m \in People : To(into, from, m) = h /\ n \in 1..PlusOnes(guests, m)
      <4>1. h # from
        BY <1>2, <3>1
      <4>2. CASE h # into
        BY <1>2, <3>1, <4>1, <4>2 DEF To
      <4>3. CASE h = into
        <5>1. n \in 1..PlusOnes(guests, into) \/ n \in 1..PlusOnes(guests, from)
          BY <1>1, <1>2, <3>1, <4>3
        <5> QED
          BY <1>1, <4>3, <5>1 DEF To
      <4> QED
        BY <4>2, <4>3
    <3>3. Nth(m, n) \in Members(d.signedUp[g], guests) /\ k = KeyTo(into, from, Nth(m, n))
      BY <1>4, <1>5, <3>1, <3>2 DEF Members
    <3> QED
      BY <3>3
  <2>3. k \in GuestOrdinals(after) \/ \E p \in d.signedUp[g] : k = Player(To(into, from, p))
    BY DEF Members
  <2> QED
    BY <2>1, <2>2, <2>3
<1>8. Moved = New
  BY <1>6, <1>7
<1> QED
  BY <1>8 DEF guests, after

LEMMA MergeKeeps ==
    ASSUME ListAssumption, db \in Good, NEW into \in People, NEW from \in People, Merge(into, from)
    PROVE  InOrder(db, db')
<1> DEFINE to(p) == To(into, from, p)
           key(k) == KeyTo(into, from, k)
           line(l) == LineTo(into, from, l)
           e == Merged(db, into, from)
<1>1. /\ into # from /\ into \in db.players /\ from \in db.players
      /\ ~ShareAGame(db, into, from) /\ db' = e
  BY DEF Merge
<1>2. /\ db \in DB /\ None \notin People /\ db.players \subseteq People
      /\ Named \in [People -> Spellings]
  BY DEF Good, DB, ListAssumption
<1>3. \A p \in People \cup {None} : /\ to(p) \in People \cup {None} /\ to(p) = None <=> p = None
                                    /\ p \in People => to(p) \in People
                                    /\ p \in db.players => to(p) \in db.players \ {from}
  BY <1>1, <1>2 DEF To
<1>4. \A r \in Guest : /\ key(r) \in Guest /\ key(r).position = r.position
                       /\ key(r).player = to(r.player) /\ key(r).host = to(r.host)
  <2> SUFFICES ASSUME NEW r \in Guest
               PROVE  /\ key(r) \in Guest /\ key(r).position = r.position
                      /\ key(r).player = to(r.player) /\ key(r).host = to(r.host)
    OBVIOUS
  <2> DEFINE x == to(r.player)
             y == to(r.host)
  <2>1. key(r) = [r EXCEPT !.player = x, !.host = y]
    BY DEF KeyTo
  <2>2. x \in People \cup {None} /\ y \in People \cup {None}
    BY <1>3 DEF Guest
  <2> HIDE DEF x, y, key
  <2>3. /\ key(r) \in Guest /\ key(r).position = r.position
        /\ key(r).player = x /\ key(r).host = y
    BY <2>1, <2>2 DEF Guest
  <2> QED
    BY <2>3 DEF x, y
<1>5. \A k \in Key : key(k) \in Key
  <2> SUFFICES ASSUME NEW k \in Key PROVE key(k) \in Key
    OBVIOUS
  <2>1. CASE k \in [player : People, host : {None}, ordinal : {0}]
    <3>1. PICK p \in People : k = [player |-> p, host |-> None, ordinal |-> 0]
      BY <2>1
    <3>2. key(k) = [player |-> to(p), host |-> to(None), ordinal |-> 0]
      BY <3>1, KeyRenamed
    <3>3. to(p) \in People /\ to(None) = None
      BY <1>3
    <3> HIDE DEF key, to
    <3> QED
      BY <3>2, <3>3 DEF Key
  <2>2. CASE k \in [player : {None}, host : People, ordinal : 1..MaxLines]
    <3>1. PICK h \in People, n \in 1..MaxLines : k = [player |-> None, host |-> h, ordinal |-> n]
      BY <2>2
    <3>2. key(k) = [player |-> to(None), host |-> to(h), ordinal |-> n]
      BY <3>1, KeyRenamed
    <3>3. to(h) \in People /\ to(None) = None
      BY <1>3
    <3> HIDE DEF key, to
    <3> QED
      BY <3>2, <3>3 DEF Key
  <2> QED
    BY <2>1, <2>2 DEF Key
<1>6. \A l \in Line : line(l) \in Line /\ line(l).nameLink = to(l.nameLink)
                                       /\ line(l).hostLink = to(l.hostLink)
  <2> SUFFICES ASSUME NEW l \in Line
               PROVE  /\ line(l) \in Line /\ line(l).nameLink = to(l.nameLink)
                      /\ line(l).hostLink = to(l.hostLink)
    OBVIOUS
  <2> DEFINE x == to(l.nameLink)
             y == to(l.hostLink)
  <2>1. line(l) = [l EXCEPT !.nameLink = x, !.hostLink = y]
    BY DEF LineTo
  <2>2. x \in People \cup {None} /\ y \in People \cup {None}
    BY <1>3 DEF Line
  <2> HIDE DEF x, y, line
  <2>3. line(l) \in Line /\ line(l).nameLink = x /\ line(l).hostLink = y
    BY <2>1, <2>2 DEF Line
  <2> QED
    BY <2>3 DEF x, y
<1> HIDE DEF to, key, line
<1>7. e = [players |-> db.players \ {from}, name |-> [db.name EXCEPT ![from] = Named[from]],
           aliases |-> MergedAliases(db, into, from),
           introducedBy |-> MergedIntroducers(db, into, from),
           roles |-> RolesTo(db, into, from), hosts |-> MergedHosts(db, into, from),
           status |-> db.status, cancelled |-> db.cancelled,
           lines |-> [g \in Games |-> [i \in DOMAIN db.lines[g] |-> line(db.lines[g][i])]],
           signedUp |-> [g \in Games |-> {to(x) : x \in db.signedUp[g]}],
           guests |-> [g \in Games |-> {key(x) : x \in db.guests[g]}],
           taken |-> [g \in Games |-> {to(x) : x \in db.taken[g]}],
           entries |-> [g \in Games |-> {key(x) : x \in db.entries[g]}],
           playing |-> [g \in Games |-> {key(x) : x \in db.playing[g]}]]
  BY <1>1, <1>2, MergedIs DEF to, key, line
<1> HIDE DEF e
<1>8. /\ MergedAliases(db, into, from) \in [People -> SUBSET Spellings]
      /\ RolesTo(db, into, from) \in [People -> {"fijo", "invitado", None}]
      /\ [db.name EXCEPT ![from] = Named[from]] \in [People -> Spellings]
  <2> DEFINE names == db.aliases[into] \cup db.aliases[from] \cup {db.name[from]}
             role == IF db.roles[into] = None THEN db.roles[from] ELSE db.roles[into]
  <2>1. names \in SUBSET Spellings /\ role \in {"fijo", "invitado", None} /\ Named[from] \in Spellings
    BY <1>2 DEF DB
  <2>2. /\ MergedAliases(db, into, from) = [db.aliases EXCEPT ![into] = names, ![from] = {}]
        /\ RolesTo(db, into, from) = [db.roles EXCEPT ![into] = role, ![from] = None]
    BY DEF MergedAliases, RolesTo
  <2> HIDE DEF names, role
  <2>3. /\ db.aliases \in [People -> SUBSET Spellings] /\ db.name \in [People -> Spellings]
        /\ db.roles \in [People -> {"fijo", "invitado", None}]
    BY <1>2 DEF DB
  <2>4. MergedAliases(db, into, from) \in [People -> SUBSET Spellings]
    BY <2>1, <2>2, <2>3
  <2>5. RolesTo(db, into, from) \in [People -> {"fijo", "invitado", None}]
    BY <2>1, <2>2, <2>3
  <2>6. [db.name EXCEPT ![from] = Named[from]] \in [People -> Spellings]
    BY <2>1, <2>3
  <2> QED
    BY <2>4, <2>5, <2>6
<1>9. /\ MergedHosts(db, into, from) \in [People -> Seq(People)]
      /\ MergedIntroducers(db, into, from) \in [People -> People \cup {None}]
  <2>1. MergedHosts(db, into, from) = [p \in People |-> MergedHosts(db, into, from)[p]]
    BY DEF MergedHosts
  <2>2. \A p \in People : MergedHosts(db, into, from)[p] \in Seq(People)
    BY <1>1, HostsMerged
  <2> QED
    BY <1>1, <2>1, <2>2, IntroducersMerged
<1>10. ASSUME NEW g \in Games
       PROVE  /\ [i \in DOMAIN db.lines[g] |-> line(db.lines[g][i])] \in Seq(Line)
              /\ {to(x) : x \in db.signedUp[g]} \subseteq People
              /\ {to(x) : x \in db.taken[g]} \subseteq People
              /\ {key(x) : x \in db.guests[g]} \subseteq Guest
              /\ {key(x) : x \in db.entries[g]} \subseteq Key
              /\ {key(x) : x \in db.playing[g]} \subseteq Key
  <2>1. /\ db.lines[g] \in Seq(Line) /\ db.guests[g] \subseteq Guest /\ db.entries[g] \subseteq Key
        /\ db.playing[g] \subseteq Key /\ db.signedUp[g] \subseteq People
        /\ db.taken[g] \subseteq People
    BY <1>2 DEF DB
  <2>2. [i \in DOMAIN db.lines[g] |-> line(db.lines[g][i])] \in Seq(Line)
    BY <1>6, <2>1
  <2>3. {to(x) : x \in db.signedUp[g]} \subseteq People /\ {to(x) : x \in db.taken[g]} \subseteq People
    BY <1>2, <1>3, <2>1
  <2> QED
    BY <1>4, <1>5, <2>1, <2>2, <2>3
<1>11. e \in DB
  BY <1>2, <1>7, <1>8, <1>9, <1>10 DEF DB
<1>12. KnownHosts(e) /\ AbsentAreBlank(e)
  <2>1. /\ e.players = db.players \ {from} /\ e.hosts = MergedHosts(db, into, from)
        /\ e.introducedBy = MergedIntroducers(db, into, from) /\ e.roles = RolesTo(db, into, from)
    BY <1>7
  <2>2. \A p \in People \ e.players : e.roles[p] = None
    BY <1>1, <1>2, <2>1 DEF RolesTo, Good, AbsentAreBlank, DB
  <2>3. KnownHosts(e)
    BY <1>1, <1>2, <2>1, HostsMerged, IntroducersMerged DEF KnownHosts
  <2>4. \A p \in People \ e.players : e.hosts[p] = <<>> /\ e.introducedBy[p] = None
    BY <1>1, <2>1, HostsMerged, IntroducersMerged
  <2> QED
    BY <2>2, <2>3, <2>4 DEF AbsentAreBlank
<1>13. ASSUME NEW g \in Games
       PROVE  ListInv(e, g) /\ (Following(db, g) => Following(e, g))
  <2>1. /\ e.players = db.players \ {from} /\ e.status = db.status
        /\ e.lines[g] = [i \in DOMAIN db.lines[g] |-> line(db.lines[g][i])]
        /\ e.signedUp[g] = {to(x) : x \in db.signedUp[g]}
        /\ e.guests[g] = {key(x) : x \in db.guests[g]}
        /\ e.taken[g] = {to(x) : x \in db.taken[g]}
        /\ e.entries[g] = {key(x) : x \in db.entries[g]}
        /\ e.playing[g] = {key(x) : x \in db.playing[g]}
    BY <1>7
  <2>2. ListInv(db, g)
    BY DEF Good
  <2>3. db.lines[g] \in Seq(Line) /\ db.guests[g] \subseteq Guest /\ db.taken[g] \subseteq People
    BY <1>2 DEF DB
  <2>4. LinesInv(e, g)
    <3>1. DOMAIN e.lines[g] = DOMAIN db.lines[g] /\ Len(e.lines[g]) = Len(db.lines[g])
      BY <2>1, <2>3
    <3>2. ASSUME NEW i \in DOMAIN db.lines[g] PROVE Links(e.lines[g][i]) \subseteq e.players
      <4> DEFINE l == db.lines[g][i]
      <4>1. l \in Line /\ Links(l) \subseteq db.players /\ e.lines[g][i] = line(l)
        BY <2>1, <2>2, <2>3 DEF ListInv, LinesInv
      <4> HIDE DEF l
      <4>2. l.nameLink \in People \cup {None} /\ l.hostLink \in People \cup {None}
        BY <4>1 DEF Line
      <4> QED
        BY <1>3, <1>6, <2>1, <4>1, <4>2 DEF Links
    <3> QED
      BY <2>2, <3>1, <3>2 DEF ListInv, LinesInv
  <2>5. GuestsInv(e, g)
    <3>1. ASSUME NEW r \in db.guests[g]
          PROVE  /\ key(r).position \in DOMAIN e.lines[g]
                 /\ {key(r).player, key(r).host} \subseteq e.players \cup {None}
                 /\ key(r).player = None => key(r).host \in e.signedUp[g]
                 /\ \A s \in db.guests[g] : key(s).position = key(r).position => key(s) = key(r)
      <4>1. /\ r \in Guest /\ r.player \in People \cup {None} /\ r.host \in People \cup {None}
            /\ r.position \in DOMAIN db.lines[g]
            /\ {r.player, r.host} \subseteq db.players \cup {None}
            /\ r.player = None => r.host \in db.signedUp[g]
            /\ \A s \in db.guests[g] : s \in Guest /\ (s.position = r.position => s = r)
        BY <2>2, <2>3 DEF ListInv, GuestsInv, Guest
      <4>2. DOMAIN e.lines[g] = DOMAIN db.lines[g]
        BY <2>1
      <4> QED
        BY <1>3, <1>4, <2>1, <4>1, <4>2
    <3> QED
      BY <2>1, <3>1 DEF GuestsInv
  <2>6. PlacesInv(e, g)
    <3>1. \A x \in db.taken[g] : to(x) \in db.players \ {from}
      BY <1>3, <2>2, <2>3 DEF ListInv, PlacesInv
    <3> QED
      BY <2>1, <2>2, <3>1 DEF ListInv, PlacesInv
  <2>7. ASSUME Following(db, g) PROVE Following(e, g)
    BY <1>1, <2>1, <2>7, MembersMerged DEF Following, to, key
  <2> QED
    BY <2>4, <2>5, <2>6, <2>7 DEF ListInv
<1> QED
  BY <1>1, <1>11, <1>12, <1>13 DEF InOrder, Good

-----------------------------------------------------------------------------
(* The invariant, and what follows from it *)

\* Every operation leaves everything in order; a sign-up past the list, all but its entries.
LEMMA NextKeeps ==
    ASSUME ListAssumption, db \in Good, Next
    PROVE  db' \in Good /\ ("direct" \notin Operations => InOrder(db, db'))
<1>1. CASE ChangePlayers
  <2>1. ASSUME NEW p \in People, NEW spelling \in Spellings,
               \/ \E by \in People \cup {None} : Register(p, spelling, by)
               \/ AddAlias(p, spelling) \/ RemoveAlias(p, spelling)
               \/ \E keepOld \in BOOLEAN : Rename(p, spelling, keepOld)
        PROVE  InOrder(db, db')
    BY <2>1, RegisterKeeps, NamesKeep
  <2>2. ASSUME NEW p \in People, NEW q \in People, Merge(p, q) PROVE InOrder(db, db')
    BY <2>2, MergeKeeps
  <2>3. ASSUME NEW p \in People, NEW by \in People \cup {None}, Introduce(p, by)
        PROVE  InOrder(db, db')
    BY <2>3, IntroduceKeeps
  <2>4. ASSUME NEW p \in People, Delete(p) PROVE InOrder(db, db')
    BY <2>4, DeleteKeeps
  <2> QED
    BY <1>1, <2>1, <2>2, <2>3, <2>4 DEF ChangePlayers, InOrder
<1>2. CASE ChangeRoles
  BY <1>2, RolesKeep DEF ListsReached, InOrder
<1>3. ASSUME NEW g \in Games, ChangeGame(g)
      PROVE  db' \in Good /\ ("direct" \notin Operations => InOrder(db, db'))
  <2>1. CASE SaveList(g)
    BY <2>1, SaveListKeeps DEF InOrder
  <2>2. CASE CreateConvocatoria(g)
    BY <2>2, CreateKeeps DEF InOrder
  <2>3. CASE Play(g) \/ Reopen(g) \/ \E k \in Key : Move(g, k)
    BY <2>3, StatusKeeps DEF InOrder
  <2>4. CASE Cancel(g) \/ Uncancel(g)
    BY <2>4, CancelKeeps DEF InOrder
  <2>5. ASSUME NEW p \in People, SignUpDirectly(g, p)
        PROVE  db' \in Good /\ "direct" \in Operations
    BY <2>5, DirectKeeps DEF SignUpDirectly
  <2> QED
    BY <1>3, <2>1, <2>2, <2>3, <2>4, <2>5 DEF ChangeGame
<1> QED
  BY <1>1, <1>2, <1>3 DEF Next

LEMMA InvHolds == ASSUME ListAssumption PROVE Spec => []IInv
<1>1. Init => IInv
  BY InitGood
<1>2. IInv /\ [Next]_db => IInv'
  <2> SUFFICES ASSUME IInv, [Next]_db PROVE IInv'
    OBVIOUS
  <2>1. CASE Next
    BY <2>1, NextKeeps DEF IInv, InOrder
  <2>2. CASE UNCHANGED db
    BY <2>2 DEF IInv, Good, Following
  <2> QED
    BY <2>1, <2>2
<1> QED
  BY <1>1, <1>2, PTL DEF Spec

\* Whatever the organiser does, sign-ups past the list included, every player a game, a
\* role or a host speaks of is one there is (the foreign keys of the schema, kept through
\* player-merge-service.ts and player-deletion-service.ts).
THEOREM NothingDangles == ASSUME ListAssumption PROVE Spec => []TypeOK
<1>1. IInv => TypeOK
  <2> SUFFICES ASSUME IInv PROVE TypeOK
    OBVIOUS
  <2>1. db \in Good /\ db \in DB
    BY DEF IInv, Good
  <2>2. db.players \subseteq People /\ db.roles \in [People -> {"fijo", "invitado", None}]
    BY <2>1 DEF DB
  <2>3. ASSUME NEW g \in Games
        PROVE  /\ db.signedUp[g] \subseteq db.taken[g] /\ db.taken[g] \subseteq db.players
               /\ db.entries[g] \subseteq Key /\ db.playing[g] \subseteq db.entries[g]
               /\ \A r \in db.guests[g] : {r.player, r.host} \subseteq db.players \cup {None}
               /\ \A line \in ToSet(db.lines[g]) : line \in Line /\ Links(line) \subseteq db.players
    <3>1. db.lines[g] \in Seq(Line) /\ db.entries[g] \subseteq Key /\ ListInv(db, g)
      BY <2>1 DEF Good, DB
    <3>2. \A line \in ToSet(db.lines[g]) : line \in Line /\ Links(line) \subseteq db.players
      BY <3>1 DEF ListInv, LinesInv, ToSet
    <3> QED
      BY <3>1, <3>2 DEF ListInv, GuestsInv, PlacesInv
  <2> QED
    BY <2>1, <2>2, <2>3 DEF TypeOK, Good, KnownHosts
<1> QED
  BY <1>1, InvHolds, PTL

\* As long as nobody signs up past the list, the entries of a convocatoria are exactly who
\* is signed up and their anonymous guests, whatever lists are saved, saved again by a
\* change of role or host, or moved from one player to another by a merge
\* (ConvocatoriaEditService.align).
THEOREM EntriesFollow ==
    ASSUME ListAssumption, "direct" \notin Operations
    PROVE  Spec => []EntriesFollowTheList
<1>1. IInv => EntriesFollowTheList
  <2> SUFFICES ASSUME IInv, NEW g \in Games, db.status[g] # "open"
               PROVE  db.entries[g] = {Player(p) : p \in db.signedUp[g]}
                          \cup {k \in Key : k.player = None
                                  /\ k.ordinal <= PlusOnes(db.guests[g], k.host)}
    BY DEF EntriesFollowTheList, PlusOnes
  <2> DEFINE guests == db.guests[g]
             Anonymous == {k \in Key : k.player = None /\ k.ordinal <= PlusOnes(guests, k.host)}
  <2>1. db.entries[g] = {Player(p) : p \in db.signedUp[g]} \cup GuestOrdinals(guests)
    BY DEF IInv, Following, Members
  <2>2. MaxLines \in Nat /\ None \notin People /\ \A h \in People : PlusOnes(guests, h) \in 0..MaxLines
    BY MembersFit DEF IInv, ListAssumption
  <2> HIDE DEF guests
  <2>3. ASSUME NEW k \in GuestOrdinals(guests) PROVE k \in Anonymous
    <3>1. PICK h \in People : \E n \in 1..PlusOnes(guests, h) :
              k = [player |-> None, host |-> h, ordinal |-> n]
      BY DEF GuestOrdinals
    <3> PICK n \in 1..PlusOnes(guests, h) : k = [player |-> None, host |-> h, ordinal |-> n]
      BY <3>1
    <3>2. n \in 1..MaxLines /\ n <= PlusOnes(guests, h)
      BY <2>2
    <3> QED
      BY <3>2 DEF Key
  <2>4. ASSUME NEW k \in Anonymous PROVE k \in GuestOrdinals(guests)
    <3>1. k \in [player : {None}, host : People, ordinal : 1..MaxLines]
      BY <2>2 DEF Key
    <3>2. PICK h \in People, n \in 1..MaxLines : k = [player |-> None, host |-> h, ordinal |-> n]
      BY <3>1
    <3>3. n \in 1..PlusOnes(guests, h)
      BY <2>2, <3>2
    <3> QED
      BY <3>2, <3>3 DEF GuestOrdinals
  <2> QED
    BY <2>1, <2>3, <2>4 DEF guests
<1> QED
  BY <1>1, InvHolds, PTL

\* A change of role or host leaves no fijo as somebody's guest in any list that may still
\* change, however many lists there are and whatever each one saved again teaches the
\* next, save where the line itself registered the name
\* (PlayerDirectoryService.setRole, refreshUnplayed).
THEOREM RolesReach == ASSUME ListAssumption PROVE Spec => [][RolesReachTheLists]_db
<1>1. IInv /\ [Next]_db => [RolesReachTheLists]_db
  <2> SUFFICES ASSUME IInv, ChangeRoles, NEW g \in Games,
                      db'.status[g] # "played", g \notin db'.cancelled,
                      NEW r \in db'.guests[g], r.player # None,
                      ~db'.lines[g][r.position].introduced
               PROVE  RoleOf(db', r.player) = "invitado"
    BY DEF RolesReachTheLists
  <2>1. db' \in Good /\ GuestsAreInvitados(db', g)
    BY RolesKeep DEF IInv, ListsReached, InOrder
  <2>2. db'.roles[r.player] = "invitado" /\ r.player \in People
    BY <2>1 DEF GuestsAreInvitados, Good, DB, Guest
  <2> QED
    BY <2>1, <2>2, RoleType DEF ListAssumption
<1> QED
  BY <1>1, InvHolds, PTL DEF Spec

\* A merge leaves no name without its player: a name or nickname that only the two had is
\* afterwards the survivor's (PlayerMergeService.merge).
THEOREM NamesSurvive == ASSUME ListAssumption PROVE Spec => [][MergeKeepsNames]_db
<1>1. IInv /\ [Next]_db => [MergeKeepsNames]_db
  <2> SUFFICES ASSUME IInv, NEW into \in People, NEW from \in People, Merge(into, from),
                      NEW s \in Spellings,
                      {p \in db.players : db.name[p] = s \/ s \in db.aliases[p]} \in
                          (SUBSET {into, from}) \ {{}}
               PROVE  Match(db', s) = into
    BY DEF MergeKeepsNames
  <2>1. /\ into # from /\ into \in db.players /\ from \in db.players
        /\ db' = Merged(db, into, from) /\ db \in DB
    BY DEF Merge, IInv, Good
  <2>2. /\ db'.players = db.players \ {from} /\ db'.name = [db.name EXCEPT ![from] = Named[from]]
        /\ db'.aliases = MergedAliases(db, into, from)
    BY <2>1, MergedIs, SMTT(30)
  <2>3. /\ \A p \in People \ {from} : db'.name[p] = db.name[p]
        /\ \A p \in People \ {into, from} : db'.aliases[p] = db.aliases[p]
        /\ db'.aliases[into] = db.aliases[into] \cup db.aliases[from] \cup {db.name[from]}
    BY <2>1, <2>2 DEF MergedAliases, DB
  <2>4. db.players \subseteq People
    BY <2>1 DEF DB
  <2>5. Matching(db', s) = {into}
    BY <2>1, <2>2, <2>3, <2>4 DEF Matching
  <2> QED
    BY <2>5, FS_Singleton DEF Match
<1> QED
  BY <1>1, InvHolds, PTL DEF Spec

-----------------------------------------------------------------------------
(* Reading a list, line by line *)

CONSTANTS Names, WaitsForList, LosesAnswers, OtherTab
VARIABLES server, rows, savedLines, loaded, load, call, removed

Draft == INSTANCE CandidateDraft

CONSTANTS Fits, Pasted, Pages, Pastes, Resolves, Changes, Failures, Careful
VARIABLES game, team, pages, pastes, resolves, changes, failures

Sides == INSTANCE Teams WITH Players <- People, Texts <- Pasted

\* What a line adds to what was read before it: of a draft, of a paste split by its headings,
\* and of its lines matched to players.
First(what) == IF what = "draft" THEN << >>
               ELSE IF what = "split" THEN [team |-> None, lines |-> << >>, refused |-> FALSE]
               ELSE Sides!Nothing
OneMore(what, read, list, i) ==
    IF what = "draft"
    THEN IF Draft!Who(list[i]) \in Draft!Listed(read) THEN read ELSE Append(read, list[i])
    ELSE IF what = "split"
    THEN CASE list[i] \in Sides!Team -> [read EXCEPT !.team = list[i]]
           [] list[i] = Sides!Separator -> read
           [] list[i] \notin Sides!Team \cup {Sides!Separator} /\ read.team = None ->
                 [read EXCEPT !.refused = TRUE]
           [] OTHER -> [read EXCEPT !.lines = Append(@, [team |-> read.team, text |-> list[i]])]
    ELSE Sides!ReadLine(read, list, i)

\* Reading as FoldLeft does it: of every set of places, the last is taken last.
TakeLast(what, it, s, list) ==
    IF s = {} THEN First(what) ELSE OneMore(what, it[s \ {Max(s)}], list, Max(s))
Reading(what, it, list, n) == it = [s \in SUBSET (1..n) |-> TakeLast(what, it, s, list)]

\* Places have a last one.
LEMMA LastPlace ==
    ASSUME NEW n \in Nat, NEW s \in SUBSET (1..n), s # {}
    PROVE  Max(s) \in s /\ \A x \in s : x <= Max(s)
<1>1. {n - x : x \in s} \in SUBSET Nat /\ {n - x : x \in s} # {}
  <2>1. \A x \in s : n - x \in Nat
    OBVIOUS
  <2> QED
    BY <2>1
<1>2. PICK m \in {n - x : x \in s} : \A y \in {n - x : x \in s} : m <= y
  BY <1>1, LeastNumber
<1>3. PICK x \in s : m = n - x
  BY <1>2
<1>4. ASSUME NEW y \in s PROVE x >= y
  <2>1. n - x <= n - y
    BY <1>2, <1>3
  <2>2. x \in 1..n /\ y \in 1..n
    OBVIOUS
  <2> QED
    BY <2>1, <2>2
<1> QED
  BY <1>3, <1>4 DEF Max

\* There is such a function, of any lines.
LEMMA ReadingsExist ==
    ASSUME NEW list, NEW n \in Nat, NEW what
    PROVE  \E it : Reading(what, it, list, n)
<1> DEFINE UpTo(k) == {s \in SUBSET (1..n) : Cardinality(s) <= k}
           Reads(it, k) == it = [s \in UpTo(k) |-> TakeLast(what, it, s, list)]
           Missing == {k \in Nat : \A it : ~Reads(it, k)}
<1>0. /\ \A s \in SUBSET (1..n) : IsFiniteSet(s) /\ Cardinality(s) \in Nat
      /\ \A s \in SUBSET (1..n) : Cardinality(s) <= n
  <2>1. IsFiniteSet(1..n) /\ Cardinality(1..n) = n
    BY FS_Interval
  <2> QED
    BY <2>1, FS_Subset, FS_CardinalityType
<1>1. Missing = {}
  <2>0. Missing \in SUBSET Nat
    OBVIOUS
  <2>1. SUFFICES ASSUME NEW k \in Missing, \A m \in Missing : k <= m PROVE FALSE
    <3> HIDE DEF Missing
    <3> QED
      BY <2>0, LeastNumber
  <2>2. CASE k = 0
    <3>1. UpTo(0) = {{}}
      BY <1>0, FS_EmptySet
    <3>2. Reads([s \in UpTo(0) |-> First(what)], 0)
      BY <3>1 DEF TakeLast
    <3> QED
      BY <2>1, <2>2, <3>2
  <2>3. CASE k # 0
    <3>0. k \in Nat /\ \A m \in Missing : k <= m
      BY <2>0, <2>1
    <3>1. k - 1 \in Nat /\ k - 1 \notin Missing
      <4> HIDE DEF Missing
      <4> QED
        BY <2>3, <3>0
    <3>2. PICK below : Reads(below, k - 1)
      BY <3>1
    <3> DEFINE it == [s \in UpTo(k) |-> TakeLast(what, below, s, list)]
    <3>3. ASSUME NEW s \in UpTo(k), s # {}
          PROVE  it[s \ {Max(s)}] = below[s \ {Max(s)}]
      <4>1. Max(s) \in s
        BY <3>3, LastPlace
      <4>2. s \ {Max(s)} \in UpTo(k - 1) /\ s \ {Max(s)} \in UpTo(k)
        <5>1. IsFiniteSet(s) /\ Cardinality(s) \in Nat /\ Cardinality(s) <= k /\ k \in Nat
          BY <1>0, <3>0
        <5>2. Cardinality(s \ {Max(s)}) = Cardinality(s) - 1
          BY <4>1, <5>1, FS_RemoveElement
        <5>3. Cardinality(s) - 1 <= k - 1 /\ Cardinality(s) - 1 <= k
          BY <5>1
        <5>4. s \ {Max(s)} \in SUBSET (1..n)
          OBVIOUS
        <5> QED
          BY <5>2, <5>3, <5>4
      <4>3. below[s \ {Max(s)}] = TakeLast(what, below, s \ {Max(s)}, list)
        BY <3>2, <4>2
      <4> QED
        BY <4>2, <4>3
    <3>4. \A s \in UpTo(k) : TakeLast(what, below, s, list) = TakeLast(what, it, s, list)
      BY <3>3 DEF TakeLast
    <3>5. Reads(it, k)
      BY <3>4
    <3> QED
      BY <2>1, <3>5
  <2> QED
    BY <2>2, <2>3
<1>2. PICK it : Reads(it, n)
  BY <1>1
<1>3. UpTo(n) = SUBSET (1..n)
  BY <1>0
<1>4. it = [s \in SUBSET (1..n) |-> TakeLast(what, it, s, list)]
  BY <1>2, <1>3
<1> QED
  BY <1>4 DEF Reading

\* It reads place by place.
LEMMA OneByOne ==
    ASSUME NEW list, NEW n \in Nat, NEW what, NEW it,
           Reading(what, it, list, n)
    PROVE  /\ it[1..0] = First(what)
           /\ \A k \in 1..n : it[1..k] = OneMore(what, it[1..(k - 1)], list, k)
<1>1. it[1..0] = First(what)
  <2>1. 1..0 = {}
    OBVIOUS
  <2>2. it[{}] = TakeLast(what, it, {}, list)
    BY DEF Reading
  <2> QED
    BY <2>1, <2>2 DEF TakeLast
<1>2. ASSUME NEW k \in 1..n PROVE it[1..k] = OneMore(what, it[1..(k - 1)], list, k)
  <2>0. k \in Nat /\ 1 <= k /\ k <= n
    OBVIOUS
  <2>1. Max(1..k) = k
    <3>1. 1..k \in SUBSET (1..k) /\ 1..k # {} /\ k \in 1..k
      BY <2>0
    <3>2. Max(1..k) \in 1..k /\ \A x \in 1..k : x <= Max(1..k)
      BY <2>0, <3>1, LastPlace
    <3> QED
      BY <2>0, <3>1, <3>2
  <2>2. (1..k) \ {k} = 1..(k - 1) /\ 1..k # {} /\ 1..k \in SUBSET (1..n)
    <3>1. k \in 1..k
      BY <2>0
    <3>2. \A x \in 1..k : x \in 1..n
      BY <2>0
    <3>3. \A x : x \in (1..k) \ {k} <=> x \in 1..(k - 1)
      BY <2>0
    <3> QED
      BY <3>1, <3>2, <3>3
  <2>3. it[1..k] = TakeLast(what, it, 1..k, list)
    BY <2>2 DEF Reading
  <2> QED
    BY <2>1, <2>2, <2>3 DEF TakeLast
<1> QED
  BY <1>1, <1>2

-----------------------------------------------------------------------------
(* The draft of a list on the organiser's page, of CandidateDraft *)

\* No line names the player of another one.
Once(list) == \A i, j \in DOMAIN list : Draft!Who(list[i]) = Draft!Who(list[j]) => i = j

AddLine(it, s, list) ==
    IF s = {} THEN << >>
    ELSE LET l == list[Draft!Max(s)]
             kept == it[s \ {Draft!Max(s)}]
         IN IF Draft!Who(l) \in Draft!Listed(kept) THEN kept ELSE Append(kept, l)
ReadOver(list) == CHOOSE it : it = [s \in SUBSET DOMAIN list |-> AddLine(it, s, list)]

LEMMA ReadIs == \A list : Draft!Read(list) = ReadOver(list)[DOMAIN list]
  BY DEF Draft!Read, Draft!FoldLeft, Draft!MapThenFoldSet, ReadOver, AddLine

LEMMA ReadsExist ==
    ASSUME NEW list, NEW n \in Nat, DOMAIN list = 1..n
    PROVE  Reading("draft", ReadOver(list), list, n)
<1>1. \A it, s : AddLine(it, s, list) = TakeLast("draft", it, s, list)
  BY DEF AddLine, TakeLast, First, OneMore, Draft!Max, Max
<1>2. PICK it : Reading("draft", it, list, n)
  BY ReadingsExist
<1>3. it = [s \in SUBSET DOMAIN list |-> AddLine(it, s, list)]
  BY <1>1, <1>2 DEF Reading
<1>4. ReadOver(list) = [s \in SUBSET DOMAIN list |-> AddLine(ReadOver(list), s, list)]
  BY <1>3 DEF ReadOver
<1> QED
  BY <1>1, <1>4 DEF Reading

\* Lines read again are as many at most, of the same players, each once.
LEMMA ReadFacts ==
    ASSUME NEW list \in Seq(Draft!Line)
    PROVE  /\ Draft!Read(list) \in Seq(Draft!Line) /\ Len(Draft!Read(list)) <= Len(list)
           /\ Draft!Listed(Draft!Read(list)) = Draft!Listed(list) /\ Once(Draft!Read(list))
<1> DEFINE n == Len(list)
           it == ReadOver(list)
           Fine(k) == /\ it[1..k] \in Seq(Draft!Line) /\ Len(it[1..k]) <= k
                      /\ Draft!Listed(it[1..k]) = {Draft!Who(list[i]) : i \in 1..k}
                      /\ Once(it[1..k])
           Bad == {k \in 0..n : ~Fine(k)}
<1>1. n \in Nat /\ DOMAIN list = 1..n
  OBVIOUS
<1>2. /\ it[1..0] = First("draft")
      /\ \A k \in 1..n : it[1..k] = OneMore("draft", it[1..(k - 1)], list, k)
  <2>1. Reading("draft", it, list, n)
    BY <1>1, ReadsExist
  <2> HIDE DEF it
  <2> QED
    BY <1>1, <2>1, OneByOne
<1>3. Fine(0)
  <2>1. 1..0 = {} /\ it[1..0] = << >>
    BY <1>2 DEF First
  <2> HIDE DEF it
  <2> QED
    BY <2>1 DEF Draft!Listed, Draft!ToSet, Once
<1>4. ASSUME NEW k \in 1..n, Fine(k - 1) PROVE Fine(k)
  <2> DEFINE kept == it[1..(k - 1)]
             l == list[k]
  <2>4. it[1..k] = IF Draft!Who(l) \in Draft!Listed(kept) THEN kept ELSE Append(kept, l)
    <3> HIDE DEF it
    <3> QED
      BY <1>2 DEF OneMore
  <2>5. l \in Draft!Line
    BY <1>1
  <2>6. {Draft!Who(list[i]) : i \in 1..k}
            = {Draft!Who(list[i]) : i \in 1..(k - 1)} \cup {Draft!Who(l)}
    <3>1. 1..k = (1..(k - 1)) \cup {k}
      BY <1>1
    <3> QED
      BY <3>1
  <2>7. /\ kept \in Seq(Draft!Line) /\ Len(kept) <= k - 1 /\ Once(kept)
        /\ Draft!Listed(kept) = {Draft!Who(list[i]) : i \in 1..(k - 1)}
    BY <1>4
  <2>8. CASE Draft!Who(l) \in Draft!Listed(kept)
    <3>1. it[1..k] = kept
      BY <2>4, <2>8
    <3> QED
      BY <1>1, <2>6, <2>7, <2>8, <3>1
  <2>9. CASE Draft!Who(l) \notin Draft!Listed(kept)
    <3> DEFINE more == Append(kept, l)
    <3>1. it[1..k] = more
      BY <2>4, <2>9
    <3> HIDE DEF kept, l, it
    <3>2. /\ more \in Seq(Draft!Line) /\ Len(more) = Len(kept) + 1 /\ DOMAIN kept = 1..Len(kept)
          /\ DOMAIN more = DOMAIN kept \cup {Len(kept) + 1} /\ more[Len(kept) + 1] = l
          /\ \A i \in DOMAIN kept : more[i] = kept[i]
      BY <2>5, <2>7
    <3> HIDE DEF more
    <3>3. Draft!Listed(more) = Draft!Listed(kept) \cup {Draft!Who(l)}
      BY <3>2 DEF Draft!Listed, Draft!ToSet
    <3>4. \A i \in DOMAIN kept : Draft!Who(kept[i]) # Draft!Who(l)
      BY <2>9 DEF Draft!Listed, Draft!ToSet
    <3>5. Once(more)
      BY <2>7, <3>2, <3>4 DEF Once
    <3>6. Len(more) <= k
      BY <1>1, <2>7, <3>2
    <3> QED
      BY <2>6, <2>7, <3>1, <3>2, <3>3, <3>5, <3>6
  <2> QED
    BY <2>8, <2>9
<1>5. Bad = {}
  <2>1. Bad \in SUBSET Nat
    BY <1>1
  <2>2. SUFFICES ASSUME NEW k \in Bad, \A m \in Bad : k <= m PROVE FALSE
    <3> HIDE DEF Bad
    <3> QED
      BY <2>1, LeastNumber
  <2> HIDE DEF Fine
  <2>3. k \in 0..n /\ ~Fine(k) /\ k # 0
    BY <1>3
  <2>4. k \in 1..n /\ k - 1 \in 0..n /\ k - 1 \notin Bad
    BY <1>1, <2>2, <2>3
  <2>5. Fine(k - 1)
    BY <2>4
  <2> QED
    BY <1>4, <2>3, <2>4, <2>5
<1>6. Fine(n)
  <2> HIDE DEF Fine
  <2> QED
    BY <1>1, <1>5
<1>7. Draft!Read(list) = it[1..n]
  BY <1>1, ReadIs
<1>8. Draft!Listed(list) = {Draft!Who(list[i]) : i \in 1..n}
  BY <1>1 DEF Draft!Listed, Draft!ToSet
<1> HIDE DEF it
<1> QED
  BY <1>6, <1>7, <1>8

LEMMA ListsAre ==
    ASSUME MaxLines \in Nat, NEW list
    PROVE  list \in Draft!Lists <=> list \in Seq(Draft!Line) /\ Len(list) <= MaxLines
<1>1. ASSUME list \in Draft!Lists PROVE list \in Seq(Draft!Line) /\ Len(list) <= MaxLines
  <2>1. PICK m \in 0..MaxLines : list \in [1..m -> Draft!Line]
    BY <1>1 DEF Draft!Lists, Draft!BoundedSeq, Draft!SeqOf
  <2> QED
    BY <2>1
<1>2. ASSUME list \in Seq(Draft!Line), Len(list) <= MaxLines PROVE list \in Draft!Lists
  <2>1. Len(list) \in 0..MaxLines /\ list \in [1..Len(list) -> Draft!Line]
    BY <1>2
  <2> QED
    BY <2>1 DEF Draft!Lists, Draft!BoundedSeq, Draft!SeqOf
<1> QED
  BY <1>1, <1>2

\* The steps a button asks for, one by one.
LEMMA StepFacts ==
    ASSUME NEW steps \in Draft!Steps
    PROVE  /\ Len(steps) > 1 => steps = <<"players", "preview">> /\ Head(steps) = "players"
                                /\ Tail(steps) = <<"preview">>
           /\ Head(steps) = "save" => steps = <<"save">>
<1>1. CASE steps = <<"preview">>
  BY <1>1
<1>2. CASE steps = <<"save">>
  BY <1>2
<1>3. CASE steps = <<"players", "preview">>
  BY <1>3
<1> QED
  BY <1>1, <1>2, <1>3 DEF Draft!Steps

DraftTypes ==
    /\ server \in Draft!Lists /\ rows \in Draft!Lists /\ savedLines \in Draft!Lists
    /\ load \in [phase : {"asked", "answered", "done"}, answer : Draft!Lists]
    /\ loaded \in BOOLEAN /\ removed \subseteq Names
    /\ Once(server) /\ Once(rows) /\ Once(savedLines) /\ Once(load.answer)
    /\ call \in Draft!Call \cup {None}
    /\ call # None /\ call.answered => Once(call.lines)

\* The list is saved from this page alone, and nothing is pasted before it is shown.
Alone == WaitsForList /\ ~OtherTab

\* Whoever the saved list has is in the draft, and in what is asked, or was taken off here.
NobodyForgotten ==
    /\ loaded => load.phase = "done" /\ Draft!Listed(server) \subseteq Draft!Listed(rows) \cup removed
    /\ ~loaded => /\ rows = << >> /\ savedLines = << >> /\ call = None
                  /\ load.phase = "answered" => load.answer = server
    /\ call # None => Draft!Listed(server) \subseteq Draft!Listed(call.lines) \cup removed
    /\ call # None /\ Head(call.steps) = "save" => Draft!Listed(call.lines) = Draft!Listed(rows)

\* A list that has been saved and not been told so.
SaveOnItsWay == call # None /\ call.answered /\ Head(call.steps) = "save"

SavedIsKnown ==
    /\ call # None => ~call.lost
    /\ SaveOnItsWay => server = call.lines
    /\ loaded /\ ~SaveOnItsWay => savedLines = server

DraftInv ==
    /\ DraftTypes
    /\ Alone => NobodyForgotten
    /\ Alone /\ ~LosesAnswers => SavedIsKnown

LEMMA DraftAtFirst == ASSUME Draft!CandidateDraftAssumption, Draft!Init PROVE DraftInv
<1>1. MaxLines \in Nat /\ MaxLines >= 1
  BY DEF Draft!CandidateDraftAssumption
<1>2. << >> \in Draft!Lists /\ Once(<< >>) /\ Draft!Listed(<< >>) = {}
  <2>1. << >> \in Seq(Draft!Line) /\ Len(<< >>) = 0
    OBVIOUS
  <2>2. DOMAIN << >> = {}
    OBVIOUS
  <2> QED
    <3>0. 0 <= MaxLines
      BY <1>1
    <3>1. << >> \in Draft!Lists
      BY <1>1, <2>1, <3>0, ListsAre
    <3>2. Once(<< >>) /\ Draft!ToSet(<< >>) = {}
      BY <2>2 DEF Once, Draft!ToSet
    <3> QED
      BY <3>1, <3>2 DEF Draft!Listed
<1>3. ASSUME NEW n \in Names PROVE <<Draft!Text(n)>> \in Draft!Lists /\ Once(<<Draft!Text(n)>>)
  <2>1. Draft!Text(n) \in Draft!Line
    BY DEF Draft!Text, Draft!Line
  <2>2. <<Draft!Text(n)>> \in Seq(Draft!Line) /\ Len(<<Draft!Text(n)>>) = 1
        /\ DOMAIN <<Draft!Text(n)>> = {1}
    BY <2>1
  <2> QED
    BY <1>1, <2>2, ListsAre DEF Once
<1>4. server \in Draft!Lists /\ Once(server)
  BY <1>2, <1>3 DEF Draft!Init
<1>5. DraftTypes
  BY <1>2, <1>4 DEF Draft!Init, DraftTypes
<1>6. NobodyForgotten /\ SavedIsKnown
  BY DEF Draft!Init, NobodyForgotten, SavedIsKnown, SaveOnItsWay
<1> QED
  BY <1>5, <1>6 DEF DraftInv

\* Whatever a button asks has whoever the draft had, but for those it takes off.
LEMMA AskKeeps ==
    ASSUME Draft!CandidateDraftAssumption, DraftInv, NEW steps \in Draft!Steps,
           NEW list \in Draft!Lists, call = None, Alone => loaded, Draft!Ask(steps, list),
           removed \subseteq removed', removed' \subseteq Names,
           Draft!Listed(rows) \subseteq Draft!Listed(list) \cup removed',
           Head(steps) = "save" => list = rows
    PROVE  DraftInv'
<1>1. /\ call' = [steps |-> steps, lines |-> list, answered |-> FALSE, lost |-> FALSE]
      /\ UNCHANGED <<server, rows, savedLines, loaded, load>>
  BY DEF Draft!Ask
<1>2. call' \in Draft!Call /\ call' # None
  <2>1. call' \in Draft!Call
    BY <1>1 DEF Draft!Call
  <2> QED
    BY <2>1 DEF Draft!CandidateDraftAssumption
<1>3. ~call'.answered /\ ~call'.lost /\ call'.lines = list /\ call'.steps = steps
  BY <1>1
<1>4. DraftTypes'
  BY <1>1, <1>2, <1>3 DEF DraftInv, DraftTypes, Once, Draft!Who
<1>5. Alone => NobodyForgotten'
  BY <1>1, <1>2, <1>3 DEF DraftInv, NobodyForgotten, Draft!Listed, Draft!ToSet, Draft!Who
<1>6. Alone /\ ~LosesAnswers => SavedIsKnown'
  BY <1>1, <1>2, <1>3 DEF DraftInv, SavedIsKnown, SaveOnItsWay
<1> QED
  BY <1>4, <1>5, <1>6 DEF DraftInv, Alone

\* Each line names somebody.
LEMMA WhoType == ASSUME NEW l \in Draft!Line PROVE Draft!Who(l) \in Names
  BY DEF Draft!Line, Draft!Who

\* What a button asks of the lines: one more, one less, another player for one.
LEMMA OneMoreLine ==
    ASSUME MaxLines \in Nat, NEW list \in Draft!Lists, Len(list) < MaxLines, NEW name \in Names
    PROVE  /\ Append(list, Draft!Text(name)) \in Draft!Lists
           /\ Draft!Listed(list) \subseteq Draft!Listed(Append(list, Draft!Text(name)))
<1> DEFINE l == Draft!Text(name)
           more == Append(list, l)
<1>1. list \in Seq(Draft!Line)
  BY ListsAre
<1>2. l \in Draft!Line
  BY DEF Draft!Text, Draft!Line
<1> HIDE DEF l
<1>3. /\ more \in Seq(Draft!Line) /\ Len(more) <= MaxLines
      /\ DOMAIN list \subseteq DOMAIN more /\ \A i \in DOMAIN list : more[i] = list[i]
  BY <1>1, <1>2
<1> HIDE DEF more
<1>4. Draft!Listed(list) \subseteq Draft!Listed(more)
  BY <1>3 DEF Draft!Listed, Draft!ToSet
<1>5. more \in Draft!Lists
  BY <1>3, ListsAre
<1> QED
  BY <1>4, <1>5 DEF more, l

LEMMA OneLineLess ==
    ASSUME MaxLines \in Nat, NEW list \in Draft!Lists, NEW i \in DOMAIN list
    PROVE  /\ Draft!RemoveAt(list, i) \in Draft!Lists
           /\ Draft!Listed(list)
                  \subseteq Draft!Listed(Draft!RemoveAt(list, i)) \cup {Draft!Who(list[i])}
<1> DEFINE n == Len(list)
           less == Draft!RemoveAt(list, i)
<1>1. list \in Seq(Draft!Line) /\ n \in Nat /\ n <= MaxLines /\ i \in 1..n
      /\ DOMAIN list = 1..n
  BY ListsAre
<1>2. /\ less \in Seq(Draft!Line) /\ Len(less) = n - 1
      /\ \A j \in 1..(n - 1) : less[j] = IF j < i THEN list[j] ELSE list[j + 1]
  <2> DEFINE before == SubSeq(list, 1, i - 1)
             after == SubSeq(list, i + 1, n)
  <2>1. /\ before \in Seq(Draft!Line) /\ Len(before) = i - 1
        /\ \A j \in 1..(i - 1) : before[j] = list[j]
    BY <1>1
  <2>2. /\ after \in Seq(Draft!Line) /\ Len(after) = n - i
        /\ \A j \in 1..(n - i) : after[j] = list[j + i]
    BY <1>1
  <2>3. less = before \o after
    BY DEF Draft!RemoveAt
  <2> HIDE DEF before, after, less
  <2>4. /\ less \in Seq(Draft!Line) /\ Len(less) = n - 1
        /\ \A j \in 1..(i - 1) : less[j] = before[j]
        /\ \A j \in i..(n - 1) : less[j] = after[j - (i - 1)]
    <3> HIDE DEF n
    <3>1. /\ less \in Seq(Draft!Line) /\ Len(less) = Len(before) + Len(after)
          /\ \A j \in 1..Len(less) :
                less[j] = IF j <= Len(before) THEN before[j] ELSE after[j - Len(before)]
      <4>1. before \in Seq(Draft!Line) /\ after \in Seq(Draft!Line)
        BY <2>1, <2>2
      <4>2. before \o after \in Seq(Draft!Line) /\ Len(before \o after) = Len(before) + Len(after)
        BY <4>1
      <4>3. \A j \in 1..(Len(before) + Len(after)) : (before \o after)[j] =
                IF j <= Len(before) THEN before[j] ELSE after[j - Len(before)]
        BY <4>1
      <4> QED
        BY <2>3, <4>2, <4>3
    <3>2. Len(less) = n - 1
      BY <1>1, <2>1, <2>2, <3>1
    <3> QED
      BY <1>1, <2>1, <3>1, <3>2, SMTT(30)
  <2>5. ASSUME NEW j \in i..(n - 1) PROVE less[j] = list[j + 1]
    <3>1. j - (i - 1) \in 1..(n - i) /\ (j - (i - 1)) + i = j + 1
      BY <1>1
    <3> QED
      BY <2>2, <2>4, <3>1
  <2> QED
    BY <1>1, <2>1, <2>4, <2>5
<1> HIDE DEF less
<1>3. \A j \in DOMAIN list : j # i => \E k \in DOMAIN less : less[k] = list[j]
  <2>1. SUFFICES ASSUME NEW j \in DOMAIN list, j # i
                 PROVE  \E k \in DOMAIN less : less[k] = list[j]
    OBVIOUS
  <2>2. CASE j < i
    <3>1. j \in 1..(n - 1)
      BY <1>1, <2>2
    <3> QED
      BY <1>2, <2>2, <3>1
  <2>3. CASE j > i
    <3>1. j - 1 \in 1..(n - 1) /\ ~(j - 1 < i) /\ (j - 1) + 1 = j
      BY <1>1, <2>3
    <3> QED
      BY <1>2, <3>1
  <2> QED
    BY <1>1, <2>1, <2>2, <2>3
<1>4. Draft!Listed(list) \subseteq Draft!Listed(less) \cup {Draft!Who(list[i])}
  BY <1>3 DEF Draft!Listed, Draft!ToSet
<1>5. less \in Draft!Lists
  BY <1>1, <1>2, ListsAre
<1> QED
  BY <1>4, <1>5 DEF less

LEMMA OneLineResolved ==
    ASSUME MaxLines \in Nat, NEW list \in Draft!Lists, NEW i \in DOMAIN list, NEW p \in Names
    PROVE  /\ [list EXCEPT ![i].link = p] \in Draft!Lists
           /\ Draft!Listed(list)
                  \subseteq Draft!Listed([list EXCEPT ![i].link = p]) \cup {Draft!Who(list[i])}
<1> DEFINE other == [list EXCEPT ![i].link = p]
<1>1. list \in Seq(Draft!Line) /\ Len(list) <= MaxLines /\ list[i] \in Draft!Line
  BY ListsAre
<1>2. [list[i] EXCEPT !.link = p] \in Draft!Line
  BY <1>1 DEF Draft!Line
<1>3. /\ other \in Seq(Draft!Line) /\ Len(other) = Len(list) /\ DOMAIN other = DOMAIN list
      /\ \A j \in DOMAIN list : j # i => other[j] = list[j]
  BY <1>1, <1>2
<1> HIDE DEF other
<1>4. Draft!Listed(list) \subseteq Draft!Listed(other) \cup {Draft!Who(list[i])}
  BY <1>3 DEF Draft!Listed, Draft!ToSet
<1>5. other \in Draft!Lists
  BY <1>1, <1>3, ListsAre
<1> QED
  BY <1>4, <1>5 DEF other

LEMMA PressKeeps ==
    ASSUME Draft!CandidateDraftAssumption, DraftInv, Draft!Press PROVE DraftInv'
<1>0. /\ MaxLines \in Nat /\ rows \in Draft!Lists /\ removed \subseteq Names
      /\ \A i \in DOMAIN rows : Draft!Who(rows[i]) \in Names
      /\ <<"preview">> \in Draft!Steps /\ <<"save">> \in Draft!Steps
      /\ <<"players", "preview">> \in Draft!Steps
      /\ Head(<<"preview">>) # "save" /\ Head(<<"players", "preview">>) # "save"
  <2>1. MaxLines \in Nat /\ rows \in Draft!Lists /\ removed \subseteq Names
    BY DEF Draft!CandidateDraftAssumption, DraftInv, DraftTypes
  <2>2. rows \in Seq(Draft!Line)
    BY <2>1, ListsAre
  <2> QED
    BY <2>1, <2>2, WhoType DEF Draft!Steps
<1>1. Alone /\ (rows # << >> \/ rows # savedLines) => loaded
  BY DEF DraftInv, DraftTypes, NobodyForgotten
<1>2. ASSUME NEW name \in Names, Draft!Add(name) PROVE DraftInv'
  <2>1. /\ call = None /\ (Alone => loaded) /\ Len(rows) < MaxLines /\ removed' = removed
        /\ Draft!Ask(<<"preview">>, Append(rows, Draft!Text(name)))
    BY <1>2 DEF Draft!Add, Draft!PasteOffered, Draft!busy, Alone
  <2> QED
    BY <1>0, <2>1, OneMoreLine, AskKeeps
<1>3. ASSUME NEW i \in DOMAIN rows, Draft!TakeOff(i) PROVE DraftInv'
  <2>1. /\ call = None /\ rows # << >> /\ removed' = removed \cup {Draft!Who(rows[i])}
        /\ Draft!Ask(<<"preview">>, Draft!RemoveAt(rows, i))
    BY <1>3 DEF Draft!TakeOff, Draft!LineOffered, Draft!busy
  <2> QED
    BY <1>0, <1>1, <2>1, OneLineLess, AskKeeps
<1>4. ASSUME NEW i \in DOMAIN rows, NEW p \in Names, NEW steps \in Draft!Steps,
             Draft!Resolve(i, p, steps)
      PROVE  DraftInv'
  <2>1. /\ call = None /\ rows # << >> /\ removed' = removed \cup {Draft!Who(rows[i])}
        /\ Draft!Ask(steps, [rows EXCEPT ![i].link = p]) /\ Head(steps) # "save"
    BY <1>0, <1>4 DEF Draft!Resolve, Draft!LineOffered, Draft!busy
  <2> QED
    BY <1>0, <1>1, <2>1, OneLineResolved, AskKeeps
<1>5. CASE Draft!ChangePlayer
  <2>1. /\ call = None /\ rows # << >> /\ removed' = removed
        /\ Draft!Ask(<<"players", "preview">>, rows)
    BY <1>5 DEF Draft!ChangePlayer, Draft!LineOffered, Draft!busy
  <2> QED
    BY <1>0, <1>1, <2>1, AskKeeps
<1>6. CASE Draft!Save
  <2>1. /\ call = None /\ rows # savedLines /\ removed' = removed
        /\ Draft!Ask(<<"save">>, rows)
    BY <1>6 DEF Draft!Save, Draft!SaveOffered, Draft!unsaved, Draft!busy
  <2> QED
    BY <1>0, <1>1, <2>1, AskKeeps
<1>7. << >> \in Draft!Lists /\ Once(<< >>) /\ Draft!Listed(<< >>) = {}
  <2>1. << >> \in Seq(Draft!Line) /\ Len(<< >>) = 0 /\ DOMAIN << >> = {} /\ 0 <= MaxLines
    BY <1>0
  <2>2. << >> \in Draft!Lists
    BY <1>0, <2>1, ListsAre
  <2>3. Once(<< >>) /\ Draft!ToSet(<< >>) = {}
    BY <2>1 DEF Once, Draft!ToSet
  <2> QED
    BY <2>2, <2>3 DEF Draft!Listed
<1>8. CASE Draft!Clear
  <2>1. /\ call = None /\ rows # << >> /\ rows' = << >>
        /\ removed' = removed \cup Draft!Listed(rows)
        /\ UNCHANGED <<server, savedLines, loaded, load, call>>
    BY <1>8 DEF Draft!Clear, Draft!ClearOffered, Draft!busy
  <2>2. removed' \subseteq Names
    BY <1>0, <2>1 DEF Draft!Listed, Draft!ToSet
  <2>3. DraftTypes'
    BY <1>7, <2>1, <2>2 DEF DraftInv, DraftTypes, Once, Draft!Who
  <2>4. Alone => NobodyForgotten'
    <3>1. Draft!Listed(server)' = Draft!Listed(server)
      BY <2>1 DEF Draft!Listed, Draft!ToSet, Draft!Who
    <3> QED
      BY <1>1, <2>1, <3>1 DEF DraftInv, NobodyForgotten
  <2>5. Alone /\ ~LosesAnswers => SavedIsKnown'
    BY <2>1 DEF DraftInv, SavedIsKnown, SaveOnItsWay
  <2> QED
    BY <2>3, <2>4, <2>5 DEF DraftInv, Alone
<1>9. CASE Draft!Reopen
  <2>1. /\ call = None /\ rows' = << >> /\ savedLines' = << >> /\ loaded' = FALSE
        /\ load' = [phase |-> "asked", answer |-> << >>] /\ removed' = {}
        /\ UNCHANGED <<server, call>>
    BY <1>9 DEF Draft!Reopen, Draft!busy
  <2>2. DraftTypes'
    BY <1>7, <2>1 DEF DraftInv, DraftTypes, Once, Draft!Who
  <2>3. NobodyForgotten' /\ SavedIsKnown'
    BY <2>1 DEF NobodyForgotten, SavedIsKnown, SaveOnItsWay
  <2> QED
    BY <2>2, <2>3 DEF DraftInv
<1> QED
  BY <1>2, <1>3, <1>4, <1>5, <1>6, <1>8, <1>9 DEF Draft!Press

\* What the server reads again is a list, of the same players.
LEMMA ReadOfLists ==
    ASSUME MaxLines \in Nat, NEW list \in Draft!Lists
    PROVE  /\ Draft!Read(list) \in Draft!Lists /\ Once(Draft!Read(list))
           /\ Draft!Listed(Draft!Read(list)) = Draft!Listed(list)
<1>1. list \in Seq(Draft!Line) /\ Len(list) <= MaxLines
  BY ListsAre
<1>2. /\ Draft!Read(list) \in Seq(Draft!Line) /\ Len(Draft!Read(list)) <= Len(list)
      /\ Once(Draft!Read(list)) /\ Draft!Listed(Draft!Read(list)) = Draft!Listed(list)
  BY <1>1, ReadFacts
<1>3. Len(Draft!Read(list)) <= MaxLines
  BY <1>1, <1>2
<1>4. Draft!Read(list) \in Draft!Lists
  BY <1>2, <1>3, ListsAre
<1> QED
  BY <1>2, <1>4

LEMMA LoadKeeps ==
    ASSUME Draft!CandidateDraftAssumption, DraftInv,
           Draft!AnswerLoad \/ Draft!ShowLoad \/ Draft!FailLoad
    PROVE  DraftInv'
<1> USE DEF DraftInv
<1>0. << >> \in Draft!Lists /\ Once(<< >>)
  <2>1. << >> \in Seq(Draft!Line) /\ Len(<< >>) = 0 /\ DOMAIN << >> = {} /\ MaxLines \in Nat
    BY DEF Draft!CandidateDraftAssumption
  <2>2. 0 <= MaxLines
    BY <2>1
  <2> QED
    BY <2>1, <2>2, ListsAre DEF Once
<1>1. CASE Draft!AnswerLoad
  <2>1. /\ load.phase = "asked" /\ load' = [phase |-> "answered", answer |-> server]
        /\ UNCHANGED <<server, rows, savedLines, loaded, call, removed>>
    BY <1>1 DEF Draft!AnswerLoad
  <2>2. DraftTypes'
    BY <2>1 DEF DraftTypes, Once, Draft!Who
  <2>3. Alone => NobodyForgotten'
    BY <2>1 DEF NobodyForgotten, DraftTypes, Draft!Listed, Draft!ToSet, Draft!Who
  <2>4. Alone /\ ~LosesAnswers => SavedIsKnown'
    BY <2>1 DEF SavedIsKnown, SaveOnItsWay
  <2> QED
    BY <2>2, <2>3, <2>4 DEF Alone
<1>2. CASE Draft!ShowLoad
  <2>1. /\ load.phase = "answered" /\ rows' = load.answer /\ savedLines' = load.answer
        /\ loaded' = TRUE /\ load' = [phase |-> "done", answer |-> << >>]
        /\ UNCHANGED <<server, call, removed>>
    BY <1>2 DEF Draft!ShowLoad
  <2>2. DraftTypes'
    BY <1>0, <2>1 DEF DraftTypes, Once, Draft!Who
  <2>3. Alone => load.answer = server /\ call = None
    BY <2>1 DEF NobodyForgotten, DraftTypes
  <2>4. Alone => NobodyForgotten'
    BY <2>1, <2>3 DEF NobodyForgotten, Draft!Listed, Draft!ToSet, Draft!Who
  <2>5. Alone /\ ~LosesAnswers => SavedIsKnown'
    BY <2>1, <2>3 DEF SavedIsKnown, SaveOnItsWay
  <2> QED
    BY <2>2, <2>4, <2>5 DEF Alone
<1>3. CASE Draft!FailLoad
  <2>1. /\ LosesAnswers /\ load.phase # "done" /\ load' = [phase |-> "done", answer |-> << >>]
        /\ UNCHANGED <<server, rows, savedLines, loaded, call, removed>>
    BY <1>3 DEF Draft!FailLoad
  <2>2. DraftTypes'
    BY <1>0, <2>1 DEF DraftTypes, Once, Draft!Who
  <2>3. Alone => NobodyForgotten'
    BY <2>1 DEF NobodyForgotten, DraftTypes, Draft!Listed, Draft!ToSet, Draft!Who
  <2> QED
    BY <2>1, <2>2, <2>3 DEF Alone
<1> QED
  BY <1>1, <1>2, <1>3

LEMMA AnswerKeeps ==
    ASSUME Draft!CandidateDraftAssumption, DraftInv, Draft!Answer PROVE DraftInv'
<1> USE DEF DraftInv
<1> DEFINE again == Draft!Read(call.lines)
<1>1. /\ call # None /\ call \in Draft!Call /\ ~call.answered
      /\ call' = [call EXCEPT !.answered = TRUE, !.lines = again]
      /\ server' = IF Head(call.steps) = "save" THEN again ELSE server
      /\ UNCHANGED <<rows, savedLines, loaded, load, removed>>
  BY DEF Draft!Answer, Draft!busy, DraftTypes
<1>2. /\ again \in Draft!Lists /\ Once(again)
      /\ Draft!Listed(again) = Draft!Listed(call.lines)
  BY <1>1, ReadOfLists DEF Draft!Call, Draft!CandidateDraftAssumption
<1> HIDE DEF again
<1>3. /\ call' \in Draft!Call /\ call'.answered /\ call'.lines = again
      /\ call'.steps = call.steps /\ call'.lost = call.lost
  BY <1>1, <1>2 DEF Draft!Call
<1>4. call' # None
  BY <1>3 DEF Draft!CandidateDraftAssumption
<1>5. DraftTypes'
  BY <1>1, <1>2, <1>3, <1>4 DEF DraftTypes, Once, Draft!Who
<1>6. /\ Draft!Listed(call.lines)' = Draft!Listed(again) /\ Draft!Listed(rows)' = Draft!Listed(rows)
      /\ Draft!Listed(server)' = IF Head(call.steps) = "save" THEN Draft!Listed(again)
                                 ELSE Draft!Listed(server)
  BY <1>1, <1>3 DEF Draft!Listed, Draft!ToSet, Draft!Who
<1>7. Alone => NobodyForgotten'
  BY <1>1, <1>2, <1>3, <1>4, <1>6 DEF NobodyForgotten
<1>8. Alone /\ ~LosesAnswers => SavedIsKnown'
  BY <1>1, <1>3, <1>4 DEF SavedIsKnown, SaveOnItsWay
<1> QED
  BY <1>5, <1>7, <1>8 DEF Alone

LEMMA ArriveKeeps ==
    ASSUME Draft!CandidateDraftAssumption, DraftInv, Draft!Arrive PROVE DraftInv'
<1> USE DEF DraftInv
<1>1. /\ call # None /\ call \in Draft!Call /\ call.answered
      /\ call.steps \in Draft!Steps /\ call.lines \in Draft!Lists /\ Once(call.lines)
      /\ UNCHANGED <<server, loaded, load, removed>>
  BY DEF Draft!Arrive, Draft!busy, DraftTypes, Draft!Call
<1>2. CASE Len(call.steps) > 1
  <2>1. /\ call' = [call EXCEPT !.steps = Tail(@), !.answered = FALSE]
        /\ UNCHANGED <<rows, savedLines>>
    BY <1>2 DEF Draft!Arrive
  <2>2. /\ Head(call.steps) # "save" /\ Tail(call.steps) \in Draft!Steps
        /\ Head(Tail(call.steps)) # "save"
    <3>1. Head(call.steps) = "players" /\ Tail(call.steps) = <<"preview">>
      BY <1>1, <1>2, StepFacts
    <3>2. Head(<<"preview">>) = "preview" /\ <<"preview">> \in Draft!Steps
      BY DEF Draft!Steps
    <3> QED
      BY <3>1, <3>2
  <2>3. /\ call' \in Draft!Call /\ ~call'.answered /\ call'.lines = call.lines
        /\ call'.steps = Tail(call.steps) /\ call'.lost = call.lost
    BY <1>1, <2>1, <2>2 DEF Draft!Call
  <2>4. call' # None
    BY <2>3 DEF Draft!CandidateDraftAssumption
  <2>5. DraftTypes'
    BY <1>1, <2>1, <2>3, <2>4 DEF DraftTypes, Once, Draft!Who
  <2>6. Alone => NobodyForgotten'
    <3>1. /\ Draft!Listed(call.lines)' = Draft!Listed(call.lines)
          /\ Draft!Listed(rows)' = Draft!Listed(rows)
          /\ Draft!Listed(server)' = Draft!Listed(server)
      BY <1>1, <2>1, <2>3 DEF Draft!Listed, Draft!ToSet, Draft!Who
    <3> QED
      BY <1>1, <2>1, <2>2, <2>3, <2>4, <3>1 DEF NobodyForgotten
  <2>7. Alone /\ ~LosesAnswers => SavedIsKnown'
    BY <1>1, <2>1, <2>2, <2>3, <2>4 DEF SavedIsKnown, SaveOnItsWay
  <2> QED
    BY <2>5, <2>6, <2>7 DEF Alone
<1>3. CASE ~(Len(call.steps) > 1)
  <2>1. /\ call' = None /\ rows' = call.lines
        /\ savedLines' = IF Head(call.steps) = "save" THEN call.lines ELSE savedLines
    BY <1>3 DEF Draft!Arrive
  <2>2. DraftTypes'
    BY <1>1, <2>1 DEF DraftTypes, Once, Draft!Who
  <2>3. /\ Draft!Listed(rows)' = Draft!Listed(call.lines)
        /\ Draft!Listed(server)' = Draft!Listed(server)
    BY <1>1, <2>1 DEF Draft!Listed, Draft!ToSet, Draft!Who
  <2>4. Alone => NobodyForgotten'
    BY <1>1, <2>1, <2>3 DEF NobodyForgotten, DraftTypes
  <2>5. Alone /\ ~LosesAnswers => SavedIsKnown'
    BY <1>1, <2>1 DEF SavedIsKnown, SaveOnItsWay
  <2> QED
    BY <2>2, <2>4, <2>5 DEF Alone
<1> QED
  BY <1>2, <1>3

LEMMA LossKeeps ==
    ASSUME Draft!CandidateDraftAssumption, DraftInv, Draft!Lose \/ Draft!Fail PROVE DraftInv'
<1> USE DEF DraftInv
<1>1. CASE Draft!Lose
  <2>1. /\ LosesAnswers /\ call # None /\ call' = [call EXCEPT !.lost = TRUE]
        /\ call \in Draft!Call
        /\ UNCHANGED <<server, rows, savedLines, loaded, load, removed>>
    BY <1>1 DEF Draft!Lose, Draft!busy, DraftTypes
  <2>2. /\ call' \in Draft!Call /\ call'.answered = call.answered
        /\ call'.lines = call.lines /\ call'.steps = call.steps
    BY <2>1 DEF Draft!Call
  <2>3. call' # None
    BY <2>2 DEF Draft!CandidateDraftAssumption
  <2>4. DraftTypes'
    BY <2>1, <2>2, <2>3 DEF DraftTypes, Once, Draft!Who
  <2>5. Alone => NobodyForgotten'
    <3>1. /\ Draft!Listed(call.lines)' = Draft!Listed(call.lines)
          /\ Draft!Listed(rows)' = Draft!Listed(rows)
          /\ Draft!Listed(server)' = Draft!Listed(server)
      BY <2>1, <2>2 DEF Draft!Listed, Draft!ToSet, Draft!Who
    <3> QED
      BY <2>1, <2>2, <2>3, <3>1 DEF NobodyForgotten
  <2> QED
    BY <2>1, <2>4, <2>5 DEF Alone
<1>2. CASE Draft!Fail
  <2>1. /\ call # None /\ call.lost /\ call' = None
        /\ UNCHANGED <<server, rows, savedLines, loaded, load, removed>>
    BY <1>2 DEF Draft!Fail, Draft!busy
  <2>2. DraftTypes'
    BY <2>1 DEF DraftTypes, Once, Draft!Who
  <2>3. Alone => NobodyForgotten'
    BY <2>1 DEF NobodyForgotten, Draft!Listed, Draft!ToSet, Draft!Who
  <2>4. Alone /\ ~LosesAnswers => FALSE
    BY <2>1 DEF SavedIsKnown
  <2> QED
    BY <2>2, <2>3, <2>4 DEF Alone
<1> QED
  BY <1>1, <1>2

LEMMA ElsewhereKeeps ==
    ASSUME Draft!CandidateDraftAssumption, DraftInv, NEW name \in Names,
           Draft!SaveElsewhere(name)
    PROVE  DraftInv'
<1> DEFINE more == Append(server, Draft!Text(name))
<1>1. /\ OtherTab /\ Len(server) < MaxLines /\ server' = Draft!Read(more)
      /\ UNCHANGED <<rows, savedLines, loaded, load, call, removed>>
      /\ MaxLines \in Nat /\ server \in Draft!Lists
  BY DEF Draft!SaveElsewhere, DraftInv, DraftTypes, Draft!CandidateDraftAssumption
<1>2. more \in Draft!Lists
  BY <1>1, OneMoreLine
<1> HIDE DEF more
<1>3. server' \in Draft!Lists /\ Once(server')
  BY <1>1, <1>2, ReadOfLists
<1>4. DraftTypes'
  BY <1>1, <1>3 DEF DraftInv, DraftTypes, Once, Draft!Who
<1> QED
  BY <1>1, <1>4 DEF DraftInv, Alone

LEMMA DraftNext ==
    ASSUME Draft!CandidateDraftAssumption, DraftInv, [Draft!Next]_(Draft!vars) PROVE DraftInv'
<1>1. CASE Draft!Press
  BY <1>1, PressKeeps
<1>2. CASE Draft!Network
  BY <1>2, LoadKeeps, AnswerKeeps, ArriveKeeps, LossKeeps DEF Draft!Network
<1>3. ASSUME NEW name \in Names, Draft!SaveElsewhere(name) PROVE DraftInv'
  BY <1>3, ElsewhereKeeps
<1>4. CASE UNCHANGED Draft!vars
  <2>1. UNCHANGED <<server, rows, savedLines, loaded, load, call, removed>>
    BY <1>4 DEF Draft!vars
  <2>2. DraftTypes'
    BY <2>1 DEF DraftInv, DraftTypes, Once, Draft!Who
  <2>3. Alone => NobodyForgotten'
    BY <2>1, SMTT(30) DEF DraftInv, NobodyForgotten, Draft!Listed, Draft!ToSet, Draft!Who
  <2>4. Alone /\ ~LosesAnswers => SavedIsKnown'
    BY <2>1 DEF DraftInv, SavedIsKnown, SaveOnItsWay
  <2> QED
    BY <2>2, <2>3, <2>4 DEF DraftInv, Alone
<1> QED
  BY <1>1, <1>2, <1>3, <1>4 DEF Draft!Next

LEMMA DraftInvHolds == ASSUME Draft!CandidateDraftAssumption PROVE Draft!Spec => []DraftInv
<1>1. Draft!Init => DraftInv
  BY DraftAtFirst
<1>2. DraftInv /\ [Draft!Next]_(Draft!vars) => DraftInv'
  BY DraftNext
<1> QED
  BY <1>1, <1>2, PTL DEF Draft!Spec

\* The saved list and the draft on screen place a player once, whatever is pasted, resolved or
\* saved elsewhere, and whatever answers are lost.
THEOREM DraftsNameOnce ==
    ASSUME Draft!CandidateDraftAssumption PROVE Draft!Spec => []Draft!TypeOK
<1>1. DraftInv => Draft!TypeOK
  BY DEF DraftInv, DraftTypes, Once, Draft!TypeOK
<1> QED
  BY <1>1, DraftInvHolds, PTL

\* A page that says nothing is unsaved shows the list as it is saved, when no answer is lost
\* and the list is saved from no other page.
THEOREM SavedDraftIsSaved ==
    ASSUME Draft!CandidateDraftAssumption, Alone, ~LosesAnswers
    PROVE  Draft!Spec => []Draft!SavedIsSaved
<1>1. DraftInv => Draft!SavedIsSaved
  BY DEF DraftInv, SavedIsKnown, SaveOnItsWay, Draft!SavedIsSaved, Draft!busy, Draft!unsaved
<1> QED
  BY <1>1, DraftInvHolds, PTL

\* Saving signs out nobody but who was taken off the list on this page, though answers are
\* lost and the list is saved again.
THEOREM OnlyTakenOffAreDropped ==
    ASSUME Draft!CandidateDraftAssumption, Alone
    PROVE  Draft!Spec => [][Draft!OnlyRemovedAreDropped]_(Draft!vars)
<1>1. DraftInv /\ [Draft!Next]_(Draft!vars)
          => [Draft!OnlyRemovedAreDropped]_(Draft!vars)
  <2> SUFFICES ASSUME DraftInv, Draft!Answer
               PROVE  Draft!Listed(server) \ Draft!Listed(server') \subseteq removed
    BY DEF Draft!OnlyRemovedAreDropped
  <2>1. /\ call # None /\ call.lines \in Draft!Lists /\ MaxLines \in Nat
        /\ server' = IF Head(call.steps) = "save" THEN Draft!Read(call.lines) ELSE server
    BY DEF Draft!Answer, Draft!busy, DraftInv, DraftTypes, Draft!Call,
           Draft!CandidateDraftAssumption
  <2>2. Draft!Listed(server) \subseteq Draft!Listed(call.lines) \cup removed
    BY <2>1 DEF DraftInv, NobodyForgotten
  <2>3. Draft!Listed(Draft!Read(call.lines)) = Draft!Listed(call.lines)
    BY <2>1, ReadOfLists
  <2> QED
    BY <2>1, <2>2, <2>3
<1> QED
  BY <1>1, DraftInvHolds, PTL DEF Draft!Spec

-----------------------------------------------------------------------------
(* The two teams of a game and the panel that pastes them, of Teams *)

AddSplit(it, s, raw) ==
    IF s = {} THEN [team |-> None, lines |-> <<>>, refused |-> FALSE]
    ELSE LET line == raw[Sides!Max(s)]
             read == it[s \ {Sides!Max(s)}]
         IN CASE line \in Sides!Team -> [read EXCEPT !.team = line]
              [] line = Sides!Separator -> read
              [] line \notin Sides!Team \cup {Sides!Separator} /\ read.team = None ->
                    [read EXCEPT !.refused = TRUE]
              [] OTHER -> [read EXCEPT !.lines = Append(@, [team |-> read.team, text |-> line])]
SplitOver(raw) == CHOOSE it : it = [s \in SUBSET DOMAIN raw |-> AddSplit(it, s, raw)]

LEMMA SplitIs == \A raw : Sides!SplitByTeam(raw) = SplitOver(raw)[DOMAIN raw]
  BY DEF Sides!SplitByTeam, Sides!FoldLeft, Sides!MapThenFoldSet, SplitOver, AddSplit

LEMMA SplitsExist ==
    ASSUME NEW raw, NEW n \in Nat, DOMAIN raw = 1..n
    PROVE  Reading("split", SplitOver(raw), raw, n)
<1>1. \A it, s : AddSplit(it, s, raw) = TakeLast("split", it, s, raw)
  BY DEF AddSplit, TakeLast, First, OneMore, Sides!Max, Max
<1>2. PICK it : Reading("split", it, raw, n)
  BY ReadingsExist
<1>3. it = [s \in SUBSET DOMAIN raw |-> AddSplit(it, s, raw)]
  BY <1>1, <1>2 DEF Reading
<1>4. SplitOver(raw) = [s \in SUBSET DOMAIN raw |-> AddSplit(SplitOver(raw), s, raw)]
  BY <1>3 DEF SplitOver
<1> QED
  BY <1>1, <1>4 DEF Reading

Places(lines) == [i \in DOMAIN lines |-> i]
AddMatch(it, s, lines) ==
    IF s = {} THEN Sides!Nothing
    ELSE Sides!ReadLine(it[s \ {Sides!Max(s)}], lines, Places(lines)[Sides!Max(s)])
MatchOver(lines) ==
    CHOOSE it : it = [s \in SUBSET DOMAIN Places(lines) |-> AddMatch(it, s, lines)]

LEMMA MatchIs == \A lines : Sides!ReadLines(lines) = MatchOver(lines)[DOMAIN Places(lines)]
  BY DEF Sides!ReadLines, Sides!FoldLeft, Sides!MapThenFoldSet, MatchOver, AddMatch, Places

LEMMA MatchesExist ==
    ASSUME NEW lines, NEW n \in Nat, DOMAIN lines = 1..n
    PROVE  Reading("match", MatchOver(lines), lines, n)
<1>0. DOMAIN Places(lines) = 1..n /\ \A i \in 1..n : Places(lines)[i] = i
  BY DEF Places
<1>1. \A it : \A s \in SUBSET (1..n) : AddMatch(it, s, lines) = TakeLast("match", it, s, lines)
  <2>1. SUFFICES ASSUME NEW it, NEW s \in SUBSET (1..n)
                 PROVE  AddMatch(it, s, lines) = TakeLast("match", it, s, lines)
    OBVIOUS
  <2>2. CASE s = {}
    BY <2>2 DEF AddMatch, TakeLast, First
  <2>3. CASE s # {}
    <3>1. Sides!Max(s) = Max(s)
      BY DEF Sides!Max, Max
    <3>2. Max(s) \in 1..n
      BY <2>3, LastPlace
    <3>3. Places(lines)[Max(s)] = Max(s)
      BY <1>0, <3>2
    <3>4. AddMatch(it, s, lines) = Sides!ReadLine(it[s \ {Max(s)}], lines, Max(s))
      BY <2>3, <3>1, <3>3 DEF AddMatch
    <3>5. TakeLast("match", it, s, lines) = Sides!ReadLine(it[s \ {Max(s)}], lines, Max(s))
      BY <2>3 DEF TakeLast, OneMore
    <3> QED
      BY <3>4, <3>5
  <2> QED
    BY <2>2, <2>3
<1>2. PICK it : Reading("match", it, lines, n)
  BY ReadingsExist
<1>3. it = [s \in SUBSET DOMAIN Places(lines) |-> AddMatch(it, s, lines)]
  BY <1>0, <1>1, <1>2 DEF Reading
<1>4. MatchOver(lines) = [s \in SUBSET DOMAIN Places(lines) |-> AddMatch(MatchOver(lines), s, lines)]
  BY <1>3 DEF MatchOver
<1> QED
  BY <1>0, <1>1, <1>4 DEF Reading

Word == Spellings \cup {Sides!PlusOne}
Written == Spellings \cup Sides!Team \cup {Sides!Separator, Sides!PlusOne}
IsLine(raw, i) == raw[i] \notin Sides!Team \cup {Sides!Separator}

\* What a paste says after its first k lines: the lines kept are those that are lines, in
\* their order, each under the heading it has above it.
PlacesFit(place, read, raw, k) ==
    /\ place \in [1..Len(read.lines) -> 1..k]
    /\ \A i, j \in 1..Len(read.lines) : i < j => place[i] < place[j]
    /\ \A j \in 1..Len(read.lines) : /\ IsLine(raw, place[j])
                                     /\ read.lines[j].team = Sides!Heading(raw, place[j])
                                     /\ read.lines[j].text = raw[place[j]]
    /\ ~read.refused =>
          \A i \in 1..k : IsLine(raw, i) => \E j \in 1..Len(read.lines) : place[j] = i
SplitTrue(read, raw, k) ==
    /\ read \in [team : Sides!Team \cup {None}, lines : Seq([team : Sides!Team, text : Word]),
                 refused : BOOLEAN]
    /\ read.team = Sides!Heading(raw, k + 1)
    /\ ~read.refused => \A i \in 1..k : IsLine(raw, i) => Sides!Heading(raw, i) # None
    /\ \E place : PlacesFit(place, read, raw, k)

LEMMA HeadingStep ==
    ASSUME NEW raw, NEW k \in Nat \ {0}
    PROVE  Sides!Heading(raw, k + 1) = IF raw[k] \in Sides!Team THEN raw[k]
                                       ELSE Sides!Heading(raw, k)
<1> DEFINE Above(i) == {j \in 1..(i - 1) : raw[j] \in Sides!Team}
<1>1. Above(k + 1) = Above(k) \cup {j \in {k} : raw[j] \in Sides!Team}
  <2>1. 1..((k + 1) - 1) = (1..(k - 1)) \cup {k}
    OBVIOUS
  <2> QED
    BY <2>1
<1>2. CASE raw[k] \in Sides!Team
  <2>1. k \in Above(k + 1) /\ \A j \in Above(k + 1) : j \in Int /\ j <= k
    BY <1>1, <1>2
  <2>2. (CHOOSE j \in Above(k + 1) : \A x \in Above(k + 1) : x <= j) = k
    <3> HIDE DEF Above
    <3>1. \A j \in Above(k + 1) : (\A x \in Above(k + 1) : x <= j) => j = k
      BY <2>1
    <3> QED
      BY <2>1, <3>1
  <2>3. Above(k + 1) # {}
    BY <2>1
  <2> QED
    BY <1>2, <2>2, <2>3 DEF Sides!Heading
<1>3. CASE raw[k] \notin Sides!Team
  <2> DEFINE Top(S) == CHOOSE j \in S : \A x \in S : x <= j
  <2>1. Above(k + 1) = Above(k)
    BY <1>1, <1>3
  <2>2. \A i : Sides!Heading(raw, i) = IF Above(i) = {} THEN None ELSE raw[Top(Above(i))]
    BY DEF Sides!Heading
  <2> HIDE DEF Above, Top
  <2> QED
    BY <1>3, <2>1, <2>2
<1> QED
  BY <1>2, <1>3

LEMMA SplitOneMore ==
    ASSUME Sides!TeamsAssumption, NEW raw \in Seq(Written), NEW k \in 1..Len(raw), NEW read,
           SplitTrue(read, raw, k - 1)
    PROVE  SplitTrue(OneMore("split", read, raw, k), raw, k)
<1> DEFINE line == raw[k]
           next == OneMore("split", read, raw, k)
           was == Len(read.lines)
<1>0. k \in Nat \ {0} /\ (k - 1) + 1 = k /\ line \in Written
      /\ 1..k = (1..(k - 1)) \cup {k} /\ None \notin Sides!Team
  BY DEF Sides!TeamsAssumption
<1>1. /\ read \in [team : Sides!Team \cup {None}, lines : Seq([team : Sides!Team, text : Word]),
                   refused : BOOLEAN]
      /\ read.team = Sides!Heading(raw, k) /\ was \in Nat
  BY <1>0 DEF SplitTrue
<1>2. Sides!Heading(raw, k + 1) = IF line \in Sides!Team THEN line ELSE read.team
  BY <1>0, <1>1, HeadingStep
<1>3. PICK place : PlacesFit(place, read, raw, k - 1)
  BY DEF SplitTrue
<1>4. ~read.refused => \A i \in 1..(k - 1) : IsLine(raw, i) => Sides!Heading(raw, i) # None
  BY DEF SplitTrue
<1>5. ASSUME next \in [team : Sides!Team \cup {None}, lines : Seq([team : Sides!Team, text : Word]),
                       refused : BOOLEAN],
             next.team = Sides!Heading(raw, k + 1), next.lines = read.lines,
             next.refused \/ (~read.refused /\ ~IsLine(raw, k))
      PROVE  SplitTrue(next, raw, k)
  <2> HIDE DEF next
  <2>1. PlacesFit(place, next, raw, k)
    BY <1>0, <1>3, <1>5 DEF PlacesFit
  <2>2. ~next.refused => \A i \in 1..k : IsLine(raw, i) => Sides!Heading(raw, i) # None
    BY <1>0, <1>4, <1>5
  <2> QED
    BY <1>5, <2>1, <2>2 DEF SplitTrue
<1>6. ASSUME ~IsLine(raw, k)
      PROVE  SplitTrue(next, raw, k)
  <2>1. CASE line \in Sides!Team
    <3>1. next = [read EXCEPT !.team = line]
      BY <2>1 DEF OneMore, Sides!Team, Sides!Separator
    <3>2. /\ next.team = line /\ next.lines = read.lines /\ next.refused = read.refused
          /\ next \in [team : Sides!Team \cup {None}, lines : Seq([team : Sides!Team, text : Word]),
                       refused : BOOLEAN]
      BY <1>1, <2>1, <3>1
    <3> HIDE DEF next
    <3> QED
      BY <1>1, <1>2, <1>5, <1>6, <2>1, <3>2
  <2>2. CASE line \notin Sides!Team
    <3>1. line = Sides!Separator
      BY <1>6, <2>2 DEF IsLine
    <3>2. next = read
      BY <2>2, <3>1 DEF OneMore
    <3> HIDE DEF next
    <3> QED
      BY <1>1, <1>2, <1>5, <1>6, <2>2, <3>2
  <2> QED
    BY <2>1, <2>2
<1>7. ASSUME IsLine(raw, k), read.team = None
      PROVE  SplitTrue(next, raw, k)
  <2>1. line \notin Sides!Team \cup {Sides!Separator}
    BY <1>7 DEF IsLine
  <2>2. next = [read EXCEPT !.refused = TRUE]
    BY <1>7, <2>1 DEF OneMore
  <2>3. /\ next.team = read.team /\ next.lines = read.lines /\ next.refused
        /\ next \in [team : Sides!Team \cup {None}, lines : Seq([team : Sides!Team, text : Word]),
                     refused : BOOLEAN]
    BY <1>1, <2>2
  <2> HIDE DEF next
  <2> QED
    BY <1>2, <1>5, <2>1, <2>3
<1>8. ASSUME IsLine(raw, k), read.team # None
      PROVE  SplitTrue(next, raw, k)
  <2>1. line \notin Sides!Team \cup {Sides!Separator} /\ line \in Word
    BY <1>0, <1>8 DEF IsLine, Written, Word
  <2> DEFINE kept == [team |-> read.team, text |-> line]
             more == Append(read.lines, kept)
  <2>2. next = [read EXCEPT !.lines = more]
    BY <1>8, <2>1 DEF OneMore
  <2>3. kept \in [team : Sides!Team, text : Word] /\ kept.team = Sides!Heading(raw, k)
        /\ kept.text = line
    BY <1>1, <1>8, <2>1
  <2> HIDE DEF kept
  <2>4. /\ more \in Seq([team : Sides!Team, text : Word]) /\ Len(more) = was + 1
        /\ more[was + 1] = kept /\ \A j \in 1..was : more[j] = read.lines[j]
    BY <1>1, <2>3
  <2> HIDE DEF more
  <2>5. /\ next.team = read.team /\ next.lines = more /\ next.refused = read.refused
        /\ next \in [team : Sides!Team \cup {None}, lines : Seq([team : Sides!Team, text : Word]),
                     refused : BOOLEAN]
    BY <1>1, <2>2, <2>4
  <2> HIDE DEF next, was
  <2> DEFINE at == [j \in 1..(was + 1) |-> IF j = was + 1 THEN k ELSE place[j]]
  <2>14. place \in [1..was -> 1..(k - 1)] /\ \A i, j \in 1..was : i < j => place[i] < place[j]
    BY <1>3 DEF PlacesFit, was
  <2>15. \A j \in 1..was : /\ IsLine(raw, place[j])
                           /\ read.lines[j].team = Sides!Heading(raw, place[j])
                           /\ read.lines[j].text = raw[place[j]]
    BY <1>3 DEF PlacesFit, was
  <2>16. ~read.refused => \A i \in 1..(k - 1) : IsLine(raw, i) => \E j \in 1..was : place[j] = i
    BY <1>3 DEF PlacesFit, was
  <2>6. 1..(was + 1) = (1..was) \cup {was + 1} /\ \A j \in 1..was : j # was + 1
    BY <1>1
  <2>7. /\ at \in [1..(was + 1) -> 1..k] /\ at[was + 1] = k
        /\ \A j \in 1..was : at[j] = place[j] /\ place[j] < k
    BY <1>0, <1>1, <2>14, <2>6
  <2> HIDE DEF at
  <2>8. \A i, j \in 1..(was + 1) : i < j => at[i] < at[j]
    <3>1. SUFFICES ASSUME NEW i \in 1..(was + 1), NEW j \in 1..(was + 1), i < j PROVE at[i] < at[j]
      OBVIOUS
    <3>2. i \in 1..was
      BY <1>1, <3>1
    <3> QED
      BY <2>14, <2>6, <2>7, <3>1, <3>2
  <2>9. \A j \in 1..(was + 1) : /\ IsLine(raw, at[j])
                                /\ more[j].team = Sides!Heading(raw, at[j])
                                /\ more[j].text = raw[at[j]]
    <3>1. SUFFICES ASSUME NEW j \in 1..(was + 1)
                   PROVE  /\ IsLine(raw, at[j]) /\ more[j].team = Sides!Heading(raw, at[j])
                          /\ more[j].text = raw[at[j]]
      OBVIOUS
    <3>2. CASE j = was + 1
      <4>1. at[j] = k /\ more[j] = kept
        BY <2>4, <2>7, <3>2
      <4> QED
        BY <1>8, <2>3, <4>1
    <3>3. CASE j # was + 1
      <4>1. j \in 1..was
        BY <2>6, <3>3
      <4>2. at[j] = place[j] /\ more[j] = read.lines[j]
        BY <2>4, <2>7, <4>1
      <4> QED
        BY <2>15, <4>1, <4>2
    <3> QED
      BY <3>2, <3>3
  <2>10. ~read.refused => \A i \in 1..k : IsLine(raw, i) => \E j \in 1..(was + 1) : at[j] = i
    <3>1. SUFFICES ASSUME ~read.refused, NEW i \in 1..k, IsLine(raw, i)
                   PROVE  \E j \in 1..(was + 1) : at[j] = i
      OBVIOUS
    <3>2. CASE i = k
      BY <2>6, <2>7, <3>2
    <3>3. CASE i # k
      <4>1. i \in 1..(k - 1)
        BY <1>0, <3>3
      <4>2. PICK j \in 1..was : place[j] = i
        BY <2>16, <3>1, <4>1
      <4>3. j \in 1..(was + 1) /\ at[j] = i
        BY <2>6, <2>7, <4>2
      <4> QED
        BY <4>3
    <3> QED
      BY <3>2, <3>3
  <2>11. ~read.refused => \A i \in 1..k : IsLine(raw, i) => Sides!Heading(raw, i) # None
    BY <1>0, <1>1, <1>4, <1>8
  <2>12. next.team = Sides!Heading(raw, k + 1)
    BY <1>2, <2>1, <2>5
  <2>13. PlacesFit(at, next, raw, k)
    BY <2>4, <2>5, <2>7, <2>8, <2>9, <2>10 DEF PlacesFit
  <2> QED
    BY <2>5, <2>11, <2>12, <2>13 DEF SplitTrue
<1> QED
  BY <1>6, <1>7, <1>8

\* The whole paste.
LEMMA SplitFacts ==
    ASSUME Sides!TeamsAssumption, NEW raw \in Seq(Written)
    PROVE  SplitTrue(Sides!SplitByTeam(raw), raw, Len(raw))
<1> DEFINE n == Len(raw)
           it == SplitOver(raw)
           Bad == {k \in 0..n : ~SplitTrue(it[1..k], raw, k)}
<1>1. n \in Nat /\ DOMAIN raw = 1..n
  OBVIOUS
<1>2. /\ it[1..0] = First("split")
      /\ \A k \in 1..n : it[1..k] = OneMore("split", it[1..(k - 1)], raw, k)
  <2>1. Reading("split", it, raw, n)
    BY <1>1, SplitsExist
  <2> HIDE DEF it
  <2> QED
    BY <1>1, <2>1, OneByOne
<1> HIDE DEF it
<1>3. SplitTrue(it[1..0], raw, 0)
  <2> DEFINE none == [team |-> None, lines |-> << >>, refused |-> FALSE]
  <2>1. it[1..0] = none
    BY <1>2 DEF First
  <2>2. /\ none \in [team : Sides!Team \cup {None}, lines : Seq([team : Sides!Team, text : Word]),
                     refused : BOOLEAN]
        /\ none.team = None /\ none.lines = << >> /\ Len(none.lines) = 0 /\ 1..0 = {}
    OBVIOUS
  <2>3. Sides!Heading(raw, 0 + 1) = None
    BY DEF Sides!Heading
  <2>4. [x \in {} |-> 0] \in [{} -> {}]
    OBVIOUS
  <2> HIDE DEF none
  <2>5. PlacesFit([x \in {} |-> 0], none, raw, 0)
    BY <2>2, <2>4 DEF PlacesFit
  <2> QED
    BY <2>1, <2>2, <2>3, <2>5 DEF SplitTrue
<1>4. Bad = {}
  <2>1. Bad \in SUBSET Nat
    BY <1>1
  <2>2. SUFFICES ASSUME NEW k \in Bad, \A m \in Bad : k <= m PROVE FALSE
    <3> HIDE DEF Bad
    <3> QED
      BY <2>1, LeastNumber
  <2>3. k \in 0..n /\ k # 0 /\ ~SplitTrue(it[1..k], raw, k)
    BY <1>3
  <2>4. k \in 1..n /\ k - 1 \in 0..n /\ k - 1 \notin Bad
    BY <1>1, <2>2, <2>3
  <2>5. SplitTrue(it[1..(k - 1)], raw, k - 1)
    BY <2>4
  <2> QED
    BY <1>2, <2>3, <2>4, <2>5, SplitOneMore
<1>5. SplitTrue(it[1..n], raw, n)
  BY <1>1, <1>4
<1> QED
  BY <1>1, <1>5, SplitIs DEF it

\* The line i can only name p.
NamesOnly(lines, i, p) ==
    lines[i].text # Sides!PlusOne /\ Sides!Matching(lines[i].text) = {p}

\* What the first k lines match: nobody is placed twice or from a line that is not the first
\* of theirs, and whoever a line names is placed.
PlacedBy(m, lines, k) ==
    \E i \in 1..k : /\ NamesOnly(lines, i, m.player) /\ m.team = lines[i].team
                    /\ \A j \in 1..k : NamesOnly(lines, j, m.player) => i <= j
MatchTrue(result, lines, k) ==
    /\ result \in Sides!Result /\ result.paste = 0
    /\ \A e \in result.unresolved : Cardinality(e.fits) # 1
    /\ \A m \in result.matched : m.player \in game.playing
    /\ \A m \in result.outside : m.player \notin game.playing
    /\ \A m \in result.matched \cup result.outside : PlacedBy(m, lines, k)
    /\ \A i \in 1..k, p \in People :
          NamesOnly(lines, i, p) => \E m \in result.matched \cup result.outside : m.player = p

LEMMA SidesCount ==
    \A S : Sides!Cardinality(S) = Cardinality(S) /\ (Sides!IsFiniteSet(S) <=> IsFiniteSet(S))
  BY DEF Sides!Cardinality, Cardinality, Sides!IsFiniteSet, IsFiniteSet

LEMMA MatchOneMore ==
    ASSUME Sides!TeamsAssumption, game.nicknames \in [Spellings -> SUBSET People],
           NEW lines \in Seq([team : Sides!Team, text : Word]), NEW k \in 1..Len(lines),
           NEW result, MatchTrue(result, lines, k - 1)
    PROVE  MatchTrue(Sides!ReadLine(result, lines, k), lines, k)
<1> DEFINE line == lines[k]
           fits == Sides!Matching(line.text)
           next == Sides!ReadLine(result, lines, k)
<1>0. /\ k \in Nat /\ 1..k = (1..(k - 1)) \cup {k} /\ \A i \in 1..(k - 1) : i < k
      /\ line \in [team : Sides!Team, text : Word]
  <2>1. k \in Nat /\ 1 <= k
    OBVIOUS
  <2>2. \A i : i \in 1..k <=> i \in 1..(k - 1) \/ i = k
    BY <2>1
  <2>3. line \in [team : Sides!Team, text : Word]
    <3> DEFINE L == [team : Sides!Team, text : Word]
    <3>1. lines \in Seq(L)
      OBVIOUS
    <3> HIDE DEF L
    <3>2. line \in L
      BY <3>1
    <3> QED
      BY <3>2 DEF L
  <2> QED
    BY <2>1, <2>2, <2>3
<1>1. /\ result \in Sides!Result /\ result.paste = 0
      /\ \A e \in result.unresolved : Cardinality(e.fits) # 1
      /\ \A m \in result.matched : m.player \in game.playing
      /\ \A m \in result.outside : m.player \notin game.playing
  BY DEF MatchTrue
<1>2. \A m \in result.matched \cup result.outside : PlacedBy(m, lines, k - 1)
  BY DEF MatchTrue
<1>3. \A i \in 1..(k - 1), p \in People :
          NamesOnly(lines, i, p) => \E m \in result.matched \cup result.outside : m.player = p
  BY DEF MatchTrue
<1>4. \A m \in result.matched \cup result.outside : PlacedBy(m, lines, k)
  <2> SUFFICES ASSUME NEW m \in result.matched \cup result.outside
               PROVE  PlacedBy(m, lines, k)
    OBVIOUS
  <2>1. PICK i \in 1..(k - 1) :
           /\ NamesOnly(lines, i, m.player) /\ m.team = lines[i].team
           /\ \A j \in 1..(k - 1) : NamesOnly(lines, j, m.player) => i <= j
    BY <1>2 DEF PlacedBy
  <2>2. i \in 1..k /\ i <= k
    BY <1>0
  <2>3. \A j \in 1..k : NamesOnly(lines, j, m.player) => i <= j
    BY <1>0, <2>1, <2>2
  <2> QED
    BY <2>1, <2>2, <2>3 DEF PlacedBy
<1>5. fits \subseteq People \/ line.text = Sides!PlusOne
  BY <1>0 DEF Word, Sides!TeamsAssumption, Sides!Matching
<1>6. IsFiniteSet(People)
  BY SidesCount DEF Sides!TeamsAssumption
<1>7. ASSUME \A p \in People : ~NamesOnly(lines, k, p)
      PROVE  \A i \in 1..k, p \in People : NamesOnly(lines, i, p)
                => \E m \in result.matched \cup result.outside : m.player = p
  BY <1>0, <1>3, <1>7
<1> SUFFICES MatchTrue(next, lines, k)
  OBVIOUS
<1> HIDE DEF line, fits
<1>8. CASE line.text = Sides!PlusOne
  <2>1. next = result
    BY <1>8 DEF line, Sides!ReadLine
  <2>2. \A p \in People : ~NamesOnly(lines, k, p)
    BY <1>8 DEF NamesOnly, line
  <2> HIDE DEF next
  <2> QED
    BY <1>1, <1>4, <1>7, <2>1, <2>2 DEF MatchTrue
<1>9. CASE line.text # Sides!PlusOne /\ Cardinality(fits) # 1
  <2>1. \A p : Cardinality({p}) = 1
    BY FS_Singleton
  <2>2. \A p \in People : ~NamesOnly(lines, k, p)
    BY <1>9, <2>1 DEF NamesOnly, line, fits
  <2> DEFINE entry == Sides!Entry(k, line)
  <2>3. next = [result EXCEPT !.unresolved = @ \cup {entry}]
    BY <1>9, SidesCount DEF Sides!ReadLine, line, fits
  <2>4. entry \in Sides!EntryType /\ entry.fits = fits
    BY <1>0, <1>5, <1>9 DEF Sides!Entry, Sides!EntryType, Word, fits
  <2> HIDE DEF entry
  <2>5. /\ next.matched = result.matched /\ next.outside = result.outside
        /\ next.unresolved = result.unresolved \cup {entry} /\ next.paste = result.paste
        /\ next \in Sides!Result
    BY <1>1, <2>3, <2>4 DEF Sides!Result
  <2> HIDE DEF next
  <2>6. \A e \in next.unresolved : Cardinality(e.fits) # 1
    BY <1>1, <1>9, <2>4, <2>5
  <2> QED
    BY <1>1, <1>4, <1>7, <2>2, <2>5, <2>6 DEF MatchTrue
<1>10. CASE line.text # Sides!PlusOne /\ Cardinality(fits) = 1
  <2>1. IsFiniteSet(fits)
    BY <1>5, <1>6, <1>10, FS_Subset
  <2>2. PICK q : fits = {q}
    BY <1>10, <2>1, FS_Singleton
  <2>3. q \in People /\ (CHOOSE p \in fits : TRUE) = q /\ NamesOnly(lines, k, q)
        /\ \A p : NamesOnly(lines, k, p) => p = q
    BY <1>5, <1>10, <2>2 DEF NamesOnly, line, fits
  <2> DEFINE member == Sides!Member(k, line, q)
  <2>4. next = Sides!Matched(result, member)
    BY <1>10, <2>3, SidesCount DEF Sides!ReadLine, line, fits
  <2>5. member \in Sides!MemberType /\ member.player = q /\ member.team = line.team
    BY <1>0, <2>3 DEF Sides!Member, Sides!MemberType
  <2> HIDE DEF member, next
  <2>6. CASE \E m \in result.matched \cup result.outside : m.player = q
    <3>1. next = result
      BY <2>4, <2>5, <2>6 DEF Sides!Matched
    <3>2. \A i \in 1..k, p \in People : NamesOnly(lines, i, p)
                => \E m \in result.matched \cup result.outside : m.player = p
      BY <1>0, <1>3, <2>3, <2>6
    <3> QED
      BY <1>1, <1>4, <3>1, <3>2 DEF MatchTrue
  <2>7. CASE \A m \in result.matched \cup result.outside : m.player # q
    <3>1. next = IF q \in game.playing THEN [result EXCEPT !.matched = @ \cup {member}]
                                      ELSE [result EXCEPT !.outside = @ \cup {member}]
      BY <2>4, <2>5, <2>7 DEF Sides!Matched
    <3>2. /\ next \in Sides!Result /\ next.paste = 0 /\ next.unresolved = result.unresolved
          /\ next.matched = result.matched \cup {m \in {member} : q \in game.playing}
          /\ next.outside = result.outside \cup {m \in {member} : q \notin game.playing}
      BY <1>1, <2>5, <3>1 DEF Sides!Result
    <3>3. next.matched \cup next.outside = result.matched \cup result.outside \cup {member}
      BY <3>2
    <3>4. \A j \in 1..k : NamesOnly(lines, j, q) => k <= j
      BY <1>0, <1>3, <2>3, <2>7
    <3>5. PlacedBy(member, lines, k)
      BY <1>0, <2>3, <2>5, <3>4 DEF PlacedBy, line
    <3>6. \A m \in next.matched \cup next.outside : PlacedBy(m, lines, k)
      BY <1>4, <3>3, <3>5
    <3>7. \A i \in 1..k, p \in People : NamesOnly(lines, i, p)
                => \E m \in next.matched \cup next.outside : m.player = p
      BY <1>0, <1>3, <2>3, <2>5, <3>3
    <3>8. /\ \A m \in next.matched : m.player \in game.playing
          /\ \A m \in next.outside : m.player \notin game.playing
      BY <1>1, <2>5, <3>2
    <3> QED
      BY <1>1, <3>2, <3>6, <3>7, <3>8 DEF MatchTrue
  <2> QED
    BY <2>6, <2>7
<1> QED
  BY <1>8, <1>9, <1>10

LEMMA MatchedOneByOne ==
    ASSUME NEW lines, NEW n \in Nat, DOMAIN lines = 1..n
    PROVE  /\ MatchOver(lines)[1..0] = Sides!Nothing
           /\ \A k \in 1..n : MatchOver(lines)[1..k]
                                = Sides!ReadLine(MatchOver(lines)[1..(k - 1)], lines, k)
<1> DEFINE it == MatchOver(lines)
<1>1. Reading("match", it, lines, n)
  BY MatchesExist
<1> HIDE DEF it
<1>2. /\ it[1..0] = First("match")
      /\ \A k \in 1..n : it[1..k] = OneMore("match", it[1..(k - 1)], lines, k)
  <2>1. \A what, t : Reading(what, t, lines, n)
           => t[1..0] = First(what)
              /\ \A k \in 1..n : t[1..k] = OneMore(what, t[1..(k - 1)], lines, k)
    BY OneByOne
  <2> QED
    BY <1>1, <2>1
<1>3. First("match") = Sides!Nothing
      /\ \A x, k : OneMore("match", x, lines, k) = Sides!ReadLine(x, lines, k)
  BY DEF First, OneMore
<1> QED
  BY <1>2, <1>3 DEF it

\* All the lines.
LEMMA MatchFacts ==
    ASSUME Sides!TeamsAssumption, game.nicknames \in [Spellings -> SUBSET People],
           NEW lines \in Seq([team : Sides!Team, text : Word])
    PROVE  MatchTrue(Sides!ReadLines(lines), lines, Len(lines))
<1> DEFINE n == Len(lines)
           it == MatchOver(lines)
           Bad == {k \in 0..n : ~MatchTrue(it[1..k], lines, k)}
<1>1. n \in Nat /\ DOMAIN lines = 1..n /\ DOMAIN Places(lines) = 1..n
  BY DEF Places
<1>2. /\ it[1..0] = Sides!Nothing
      /\ \A k \in 1..n : it[1..k] = Sides!ReadLine(it[1..(k - 1)], lines, k)
  BY <1>1, MatchedOneByOne
<1> HIDE DEF it
<1>3. MatchTrue(it[1..0], lines, 0)
  <2>1. it[1..0] = Sides!Nothing
    BY <1>2
  <2>2. Sides!Nothing \in Sides!Result /\ 1..0 = {}
    BY DEF Sides!Nothing, Sides!Result
  <2> QED
    BY <2>1, <2>2 DEF MatchTrue, Sides!Nothing
<1>4. Bad = {}
  <2>1. Bad \in SUBSET Nat
    BY <1>1
  <2>2. SUFFICES ASSUME NEW k \in Bad, \A m \in Bad : k <= m PROVE FALSE
    <3> HIDE DEF Bad
    <3> QED
      BY <2>1, LeastNumber
  <2>3. k \in 0..n /\ k # 0 /\ ~MatchTrue(it[1..k], lines, k)
    BY <1>3
  <2>4. k \in 1..n /\ k - 1 \in 0..n /\ k - 1 \notin Bad
    BY <1>1, <2>2, <2>3
  <2>5. MatchTrue(it[1..(k - 1)], lines, k - 1)
    BY <2>4
  <2> QED
    BY <1>2, <2>3, <2>4, <2>5, MatchOneMore
<1>5. MatchTrue(it[1..n], lines, n)
  BY <1>1, <1>4
<1> QED
  BY <1>1, <1>5, MatchIs DEF it

\* What a paste that is not refused stores.
ByFirstLine(stored, raw) ==
    /\ \A i \in DOMAIN raw :
          raw[i] \notin Sides!Team \cup {Sides!Separator} => Sides!Heading(raw, i) # None
    /\ \A p \in People :
          LET lines == Sides!Naming(raw, p)
          IN IF lines = {} \/ p \notin game.playing THEN stored[p] = None
             ELSE /\ stored[p] # None
                  /\ stored[p].side = Sides!Heading(raw, CHOOSE i \in lines : \A j \in lines : i <= j)
LEMMA PasteStores ==
    ASSUME Sides!TeamsAssumption, game.nicknames \in [Spellings -> SUBSET People],
           NEW raw \in Pasted, NEW number \in Nat, ~Sides!SplitByTeam(raw).refused
    PROVE  LET result == Sides!ReadLines(Sides!SplitByTeam(raw).lines)
               stored == Sides!TeamsAssigned(result, number)
           IN /\ result \in Sides!Result
              /\ \A e \in result.unresolved : Cardinality(e.fits) # 1
              /\ stored \in [People -> Sides!Stored \cup {None}]
              /\ \A p \in People : stored[p] # None =>
                    stored[p].paste = number /\ \E m \in result.matched : m.player = p
              /\ \A m \in result.matched :
                    m.player \in People /\ stored[m.player] # None /\ stored[m.player].side = m.team
              /\ ByFirstLine(stored, raw)
<1> DEFINE read == Sides!SplitByTeam(raw)
           lines == read.lines
           result == Sides!ReadLines(lines)
           stored == Sides!TeamsAssigned(result, number)
           L == [team : Sides!Team, text : Word]
<1>1. raw \in Seq(Written)
  BY DEF Sides!TeamsAssumption, Written
<1>2. SplitTrue(read, raw, Len(raw)) /\ DOMAIN raw = 1..Len(raw) /\ Len(raw) \in Nat
  BY <1>1, SplitFacts
<1>3. ~read.refused
  OBVIOUS
<1> HIDE DEF read
<1>4. lines \in Seq(L)
  BY <1>2 DEF SplitTrue
<1>5. \A i \in DOMAIN raw :
         raw[i] \notin Sides!Team \cup {Sides!Separator} => Sides!Heading(raw, i) # None
  BY <1>2, <1>3 DEF SplitTrue, IsLine
<1>6. PICK place : PlacesFit(place, read, raw, Len(raw))
  BY <1>2 DEF SplitTrue
<1>7. MatchTrue(result, lines, Len(lines))
  BY <1>4, MatchFacts
<1>8. Len(lines) \in Nat /\ DOMAIN lines = 1..Len(lines)
  BY <1>4
<1>9. /\ place \in [1..Len(lines) -> 1..Len(raw)]
      /\ \A i, j \in 1..Len(lines) : i < j => place[i] < place[j]
  BY <1>6 DEF PlacesFit
<1>10. \A j \in 1..Len(lines) : /\ IsLine(raw, place[j])
                                /\ lines[j].team = Sides!Heading(raw, place[j])
                                /\ lines[j].text = raw[place[j]]
  BY <1>6 DEF PlacesFit
<1>11. \A i \in 1..Len(raw) : IsLine(raw, i) => \E j \in 1..Len(lines) : place[j] = i
  BY <1>3, <1>6 DEF PlacesFit
<1> HIDE DEF lines, result
<1>12. /\ result \in Sides!Result /\ result.paste = 0
       /\ \A e \in result.unresolved : Cardinality(e.fits) # 1
       /\ \A m \in result.matched : m.player \in game.playing
       /\ \A m \in result.outside : m.player \notin game.playing
  BY <1>7 DEF MatchTrue
<1>13. \A m \in result.matched \cup result.outside : PlacedBy(m, lines, Len(lines))
  BY <1>7 DEF MatchTrue
<1>14. \A i \in 1..Len(lines), p \in People :
          NamesOnly(lines, i, p) => \E m \in result.matched \cup result.outside : m.player = p
  BY <1>7 DEF MatchTrue
<1>15. \A j \in 1..Len(lines), p \in People : NamesOnly(lines, j, p) <=> place[j] \in Sides!Naming(raw, p)
  <2>1. TAKE j \in 1..Len(lines), p \in People
  <2>2. place[j] \in DOMAIN raw /\ lines[j].text = raw[place[j]]
        /\ raw[place[j]] \notin Sides!Team \cup {Sides!Separator}
    BY <1>2, <1>9, <1>10 DEF IsLine
  <2> QED
    BY <2>2 DEF NamesOnly, Sides!Naming, Sides!Matching
<1>16. \A p \in People : \A i \in Sides!Naming(raw, p) : \E j \in 1..Len(lines) : place[j] = i
  BY <1>2, <1>11 DEF Sides!Naming, IsLine
<1>17. ASSUME NEW p \in People, NEW m \in result.matched, m.player = p
       PROVE  /\ Sides!Naming(raw, p) # {} /\ p \in game.playing
              /\ m.team = Sides!Heading(raw,
                     CHOOSE i \in Sides!Naming(raw, p) : \A j \in Sides!Naming(raw, p) : i <= j)
  <2>1. PICK j \in 1..Len(lines) :
           /\ NamesOnly(lines, j, p) /\ m.team = lines[j].team
           /\ \A x \in 1..Len(lines) : NamesOnly(lines, x, p) => j <= x
    BY <1>13, <1>17 DEF PlacedBy
  <2>2. place[j] \in Sides!Naming(raw, p) /\ place[j] \in Nat
    BY <1>9, <1>15, <2>1
  <2>3. ASSUME NEW i \in Sides!Naming(raw, p) PROVE i \in Nat /\ place[j] <= i
    <3>1. PICK x \in 1..Len(lines) : place[x] = i
      BY <1>16
    <3>2. NamesOnly(lines, x, p)
      BY <1>15, <3>1
    <3>3. j <= x /\ x \in Nat /\ j \in Nat
      BY <1>8, <2>1, <3>2
    <3>4. place[x] \in Nat
      BY <1>9
    <3> QED
      BY <1>9, <2>2, <3>1, <3>3, <3>4
  <2> DEFINE lowest == CHOOSE i \in Sides!Naming(raw, p) : \A x \in Sides!Naming(raw, p) : i <= x
  <2>4. lowest \in Sides!Naming(raw, p) /\ \A x \in Sides!Naming(raw, p) : lowest <= x
    BY <2>2, <2>3
  <2>5. lowest = place[j]
    <3> HIDE DEF lowest
    <3> QED
      BY <2>2, <2>3, <2>4
  <2> QED
    BY <1>10, <1>12, <1>17, <2>1, <2>2, <2>5
<1>18. ASSUME NEW p \in People, Sides!Naming(raw, p) # {}, p \in game.playing
       PROVE  \E m \in result.matched : m.player = p
  <2>1. PICK j \in 1..Len(lines) : place[j] \in Sides!Naming(raw, p)
    BY <1>16, <1>18
  <2>2. PICK m \in result.matched \cup result.outside : m.player = p
    BY <1>14, <1>15, <2>1
  <2> QED
    BY <1>12, <1>18, <2>2
<1>19. ASSUME NEW p \in People, \A m \in result.matched : m.player # p PROVE stored[p] = None
  BY <1>19 DEF Sides!TeamsAssigned
<1>20. ASSUME NEW p \in People, \E m \in result.matched : m.player = p
       PROVE  /\ stored[p] # None /\ stored[p] \in Sides!Stored /\ stored[p].paste = number
              /\ \E m \in result.matched : m.player = p /\ stored[p].side = m.team
  <2> DEFINE own == {x \in result.matched : x.player = p}
             m == CHOOSE x \in own : TRUE
  <2>1. own # {} /\ m \in own
    BY <1>20
  <2>2. stored[p] = [side |-> m.team, paste |-> number]
    BY <2>1 DEF Sides!TeamsAssigned
  <2>3. m \in Sides!MemberType
    BY <1>12, <2>1 DEF Sides!Result
  <2> HIDE DEF m, stored
  <2>4. stored[p] \in Sides!Stored
    BY <2>2, <2>3 DEF Sides!MemberType, Sides!Stored
  <2>5. stored[p] # None /\ stored[p].side = m.team /\ stored[p].paste = number
    BY <2>2, <2>4 DEF Sides!TeamsAssumption
  <2> QED
    BY <2>1, <2>4, <2>5
<1> HIDE DEF stored
<1>21. /\ stored \in [People -> Sides!Stored \cup {None}]
       /\ \A p \in People : stored[p] # None =>
             stored[p].paste = number /\ \E m \in result.matched : m.player = p
  <2>1. \A p \in People : stored[p] \in Sides!Stored \cup {None}
    BY <1>19, <1>20
  <2>2. \E f : stored = [p \in People |-> f[p]]
    <3>1. stored = [p \in People |-> stored[p]]
      BY DEF stored, Sides!TeamsAssigned
    <3> QED
      BY <3>1
  <2> QED
    BY <1>19, <1>20, <2>1, <2>2
<1>23. \A m \in result.matched :
          m.player \in People /\ stored[m.player] # None /\ stored[m.player].side = m.team
  <2>1. TAKE m \in result.matched
  <2>2. m.player \in People
    BY <1>12 DEF Sides!Result, Sides!MemberType
  <2>3. PICK x \in result.matched : x.player = m.player /\ stored[m.player].side = x.team
    BY <1>20, <2>2
  <2> QED
    BY <1>17, <1>20, <2>2, <2>3
<1>22. ASSUME NEW p \in People
       PROVE  IF Sides!Naming(raw, p) = {} \/ p \notin game.playing THEN stored[p] = None
              ELSE /\ stored[p] # None
                   /\ stored[p].side = Sides!Heading(raw,
                          CHOOSE i \in Sides!Naming(raw, p) : \A j \in Sides!Naming(raw, p) : i <= j)
  <2>1. CASE Sides!Naming(raw, p) = {} \/ p \notin game.playing
    BY <1>17, <1>19, <2>1
  <2>2. CASE Sides!Naming(raw, p) # {} /\ p \in game.playing
    <3>1. PICK m \in result.matched : m.player = p /\ stored[p].side = m.team
      BY <1>18, <1>20, <2>2
    <3> QED
      BY <1>17, <1>20, <2>2, <3>1
  <2> QED
    BY <2>1, <2>2
<1>24. ByFirstLine(stored, raw)
  BY <1>5, <1>22 DEF ByFirstLine
<1> QED
  BY <1>5, <1>12, <1>21, <1>23, <1>24 DEF stored, result, lines, read

\* What is kept of a panel: no paste shown, answered or spoken of is later than the game's last.
PageType == [shown : Sides!Result \cup {None}, call : Sides!Call \cup {None}]
PasteCall == [op : {"paste"}, raw : Pasted, answer : Sides!Result \cup {None}]
ResolveCall == [op : {"resolve"}, entry : Sides!EntryType, of : Nat, player : People,
                remember : BOOLEAN, answer : {None, "assigned"}]
ShownFits(shown, last) ==
    shown \in Sides!Result /\ shown.paste \in 1..last /\ \A e \in shown.unresolved : Cardinality(e.fits) # 1
PanelFits(page, last) ==
    /\ page.shown # None => ShownFits(page.shown, last)
    /\ page.call # None => /\ page.call.op = "paste" /\ page.call.answer # None =>
                                 ShownFits(page.call.answer, last)
                           /\ page.call.op = "resolve" => page.shown # None /\ page.call.of \in 1..last
Waits(page) == page.call # None /\ page.call.op = "paste" /\ page.call.answer = None
Waiting == {g \in Pages : Waits(pages[g])}

GameType == [position : Sides!Positions, playing : SUBSET People,
             nicknames : [Spellings -> SUBSET People], pasted : Nat]
SidesTypes ==
    /\ game \in GameType
    /\ team \in [People -> Sides!Stored \cup {None}]
    /\ \A p \in People : team[p] # None => team[p].paste \in 1..game.pasted
    /\ pages \in [Pages -> PageType] /\ \A g \in Pages : PanelFits(pages[g], game.pasted)
    /\ pastes \in 0..Pastes /\ resolves \in 0..Resolves
    /\ changes \in 0..Changes /\ failures \in 0..Failures
    /\ IsFiniteSet(Waiting) /\ game.pasted + Cardinality(Waiting) <= pastes

LEMMA CallShapes ==
    \A c \in Sides!Call : /\ c.op \in {"paste", "resolve"}
                          /\ c.op = "paste" => c \in PasteCall
                          /\ c.op = "resolve" => c \in ResolveCall
  BY DEF Sides!Call, PasteCall, ResolveCall

LEMMA NoneIsNothing ==
    ASSUME Sides!TeamsAssumption
    PROVE  None \notin Sides!Result /\ None \notin Sides!Call /\ None \notin Sides!Stored
           /\ None # "assigned" /\ {Pastes, Resolves, Changes, Failures} \subseteq Nat
  BY DEF Sides!TeamsAssumption

\* One panel changes: the others stay as they are, and one more waits, or one less.
LEMMA OnePanelChanges ==
    ASSUME NEW g \in Pages, NEW page \in PageType, NEW last \in Nat, game.pasted \in Nat,
           game.pasted <= last, PanelFits(page, last), pages \in [Pages -> PageType],
           \A h \in Pages : PanelFits(pages[h], game.pasted),
           pages' = [pages EXCEPT ![g] = page], IsFiniteSet(Waiting)
    PROVE  /\ pages' \in [Pages -> PageType] /\ \A h \in Pages : PanelFits(pages'[h], last)
           /\ IsFiniteSet(Waiting') /\ Cardinality(Waiting) \in Nat /\ Cardinality(Waiting') \in Nat
           /\ Cardinality(Waiting') <= Cardinality(Waiting) + 1
           /\ ~Waits(page) => Cardinality(Waiting') <= Cardinality(Waiting)
           /\ ~Waits(page) /\ Waits(pages[g]) => Cardinality(Waiting') + 1 <= Cardinality(Waiting)
<1>1. /\ pages' \in [Pages -> PageType] /\ pages'[g] = page
      /\ \A h \in Pages : h # g => pages'[h] = pages[h]
  OBVIOUS
<1>2. \A h \in Pages : PanelFits(pages[h], last)
  BY DEF PanelFits, ShownFits
<1>3. \A h \in Pages : PanelFits(pages'[h], last)
  BY <1>1, <1>2
<1>4. Waiting' = IF Waits(page) THEN Waiting \cup {g} ELSE Waiting \ {g}
  BY <1>1 DEF Waiting, Waits
<1>5. Cardinality(Waiting) \in Nat
  BY FS_CardinalityType
<1>6. CASE Waits(page)
  <2>1. /\ IsFiniteSet(Waiting \cup {g})
        /\ Cardinality(Waiting \cup {g}) = IF g \in Waiting THEN Cardinality(Waiting)
                                           ELSE Cardinality(Waiting) + 1
    BY FS_AddElement
  <2> QED
    BY <1>1, <1>3, <1>4, <1>5, <1>6, <2>1
<1>7. CASE ~Waits(page)
  <2>1. /\ IsFiniteSet(Waiting \ {g})
        /\ Cardinality(Waiting \ {g}) = IF g \in Waiting THEN Cardinality(Waiting) - 1
                                        ELSE Cardinality(Waiting)
    BY FS_RemoveElement
  <2>2. Cardinality(Waiting \ {g}) \in Nat
    BY <2>1, FS_CardinalityType
  <2>3. Waits(pages[g]) <=> g \in Waiting
    BY DEF Waiting
  <2> QED
    BY <1>1, <1>3, <1>4, <1>5, <1>7, <2>1, <2>2, <2>3
<1> QED
  BY <1>6, <1>7

\* A panel that changes and asks for no paste, with nothing stored.
LEMMA PanelAlone ==
    ASSUME Sides!TeamsAssumption, SidesTypes, NEW g \in Pages, NEW page \in PageType,
           PanelFits(page, game.pasted), ~Waits(page), pages' = [pages EXCEPT ![g] = page],
           UNCHANGED <<game, team, pastes>>, resolves' \in 0..Resolves,
           changes' \in 0..Changes, failures' \in 0..Failures
    PROVE  SidesTypes'
<1>1. /\ game \in GameType /\ game.pasted \in Nat /\ pages \in [Pages -> PageType]
      /\ \A h \in Pages : PanelFits(pages[h], game.pasted)
      /\ pastes \in 0..Pastes /\ IsFiniteSet(Waiting)
      /\ game.pasted + Cardinality(Waiting) <= pastes
  BY DEF SidesTypes, GameType
<1>2. /\ pages' \in [Pages -> PageType] /\ \A h \in Pages : PanelFits(pages'[h], game.pasted)
      /\ IsFiniteSet(Waiting') /\ Cardinality(Waiting) \in Nat /\ Cardinality(Waiting') \in Nat
      /\ Cardinality(Waiting') <= Cardinality(Waiting)
  <2>1. game.pasted <= game.pasted
    BY <1>1
  <2> QED
    BY <1>1, <2>1, OnePanelChanges, ZenonT(40)
<1>3. Pastes \in Nat
  BY NoneIsNothing
<1>4. game'.pasted + Cardinality(Waiting') <= pastes'
  BY <1>1, <1>2, <1>3
<1> QED
  BY <1>1, <1>2, <1>4 DEF SidesTypes

LEMMA PasteTypes ==
    ASSUME Sides!TeamsAssumption, SidesTypes, NEW g \in Pages, Sides!Paste(g)
    PROVE  SidesTypes'
<1>1. PICK raw \in Pasted :
         pages' = [pages EXCEPT ![g].call = [op |-> "paste", raw |-> raw, answer |-> None]]
  BY DEF Sides!Paste
<1>2. /\ pastes < Pastes /\ pastes' = pastes + 1
      /\ UNCHANGED <<game, team, resolves, changes, failures>>
  BY DEF Sides!Paste
<1>3. /\ game \in GameType /\ game.pasted \in Nat /\ pages \in [Pages -> PageType]
      /\ \A h \in Pages : PanelFits(pages[h], game.pasted)
      /\ pastes \in 0..Pastes /\ IsFiniteSet(Waiting)
      /\ game.pasted + Cardinality(Waiting) <= pastes
  BY DEF SidesTypes, GameType
<1> DEFINE asked == [op |-> "paste", raw |-> raw, answer |-> None]
           page == [pages[g] EXCEPT !.call = asked]
<1>4. asked \in Sides!Call /\ asked.op = "paste" /\ asked.answer = None
  BY DEF Sides!Call
<1> HIDE DEF asked
<1>5. /\ page \in PageType /\ page.call = asked /\ page.shown = pages[g].shown
      /\ pages' = [pages EXCEPT ![g] = page]
  BY <1>1, <1>3, <1>4 DEF PageType, asked
<1> HIDE DEF page
<1>6. PanelFits(page, game.pasted)
  BY <1>3, <1>4, <1>5 DEF PanelFits
<1>7. /\ pages' \in [Pages -> PageType] /\ \A h \in Pages : PanelFits(pages'[h], game.pasted)
      /\ IsFiniteSet(Waiting') /\ Cardinality(Waiting) \in Nat /\ Cardinality(Waiting') \in Nat
      /\ Cardinality(Waiting') <= Cardinality(Waiting) + 1
  <2>1. game.pasted <= game.pasted
    BY <1>3
  <2> QED
    <3>1. pages' = [pages EXCEPT ![g] = page] /\ page \in PageType /\ game.pasted \in Nat
          /\ game.pasted <= game.pasted /\ PanelFits(page, game.pasted)
          /\ pages \in [Pages -> PageType] /\ (\A h \in Pages : PanelFits(pages[h], game.pasted))
          /\ IsFiniteSet(Waiting)
      BY <1>3, <1>5, <1>6, <2>1
    <3> QED
      BY <3>1, OnePanelChanges
<1>8. Pastes \in Nat
  BY NoneIsNothing
<1>9. game'.pasted + Cardinality(Waiting') <= pastes' /\ pastes' \in 0..Pastes
  BY <1>2, <1>3, <1>7, <1>8
<1> QED
  BY <1>2, <1>7, <1>9 DEF SidesTypes

LEMMA ResolveTypes ==
    ASSUME Sides!TeamsAssumption, SidesTypes, NEW g \in Pages, Sides!Resolve(g)
    PROVE  SidesTypes'
<1> DEFINE shown == pages[g].shown
<1>1. /\ resolves < Resolves /\ shown # None /\ resolves' = resolves + 1
      /\ UNCHANGED <<game, team, pastes, changes, failures>>
  BY DEF Sides!Resolve
<1>2. PICK entry \in shown.unresolved, remember \in BOOLEAN : \E p \in Sides!Choosable(entry) :
         pages' = [pages EXCEPT ![g].call = [op |-> "resolve", entry |-> entry, of |-> shown.paste,
                      player |-> p, remember |-> remember, answer |-> None]]
  BY DEF Sides!Resolve
<1>3. PICK p \in Sides!Choosable(entry) :
         pages' = [pages EXCEPT ![g].call = [op |-> "resolve", entry |-> entry, of |-> shown.paste,
                      player |-> p, remember |-> remember, answer |-> None]]
  BY <1>2
<1>4. /\ game.pasted \in Nat /\ pages \in [Pages -> PageType]
      /\ \A h \in Pages : PanelFits(pages[h], game.pasted)
      /\ resolves \in 0..Resolves /\ changes \in 0..Changes /\ failures \in 0..Failures
  BY DEF SidesTypes, GameType
<1>5. shown \in Sides!Result /\ shown.paste \in 1..game.pasted
  BY <1>1, <1>4 DEF PanelFits, ShownFits
<1>6. entry \in Sides!EntryType /\ p \in People
  BY <1>5 DEF Sides!Result, Sides!Choosable, Sides!EntryType
<1> DEFINE asked == [op |-> "resolve", entry |-> entry, of |-> shown.paste,
                     player |-> p, remember |-> remember, answer |-> None]
           page == [pages[g] EXCEPT !.call = asked]
<1>7. asked \in Sides!Call /\ asked.op = "resolve" /\ asked.of = shown.paste
  BY <1>4, <1>5, <1>6 DEF Sides!Call
<1> HIDE DEF asked
<1>8. /\ page \in PageType /\ page.call = asked /\ page.shown = shown
      /\ pages' = [pages EXCEPT ![g] = page]
  BY <1>3, <1>4, <1>7 DEF PageType, asked
<1> HIDE DEF page
<1>9. PanelFits(page, game.pasted) /\ ~Waits(page)
  BY <1>1, <1>4, <1>5, <1>7, <1>8 DEF PanelFits, Waits
<1>10. resolves' \in 0..Resolves /\ changes' \in 0..Changes /\ failures' \in 0..Failures
  BY <1>1, <1>4, NoneIsNothing
<1> QED
  BY <1>1, <1>8, <1>9, <1>10, PanelAlone

\* A panel whose call ends with nothing done.
LEMMA GivenUpTypes ==
    ASSUME Sides!TeamsAssumption, SidesTypes, NEW g \in Pages,
           pages' = [pages EXCEPT ![g].call = None], UNCHANGED <<game, team, pastes>>,
           resolves' \in 0..Resolves, changes' \in 0..Changes, failures' \in 0..Failures
    PROVE  SidesTypes'
<1> DEFINE page == [pages[g] EXCEPT !.call = None]
<1>1. pages \in [Pages -> PageType] /\ PanelFits(pages[g], game.pasted)
  BY DEF SidesTypes
<1>2. /\ page \in PageType /\ page.call = None /\ page.shown = pages[g].shown
      /\ pages' = [pages EXCEPT ![g] = page]
  BY <1>1 DEF PageType
<1> HIDE DEF page
<1>3. PanelFits(page, game.pasted) /\ ~Waits(page)
  BY <1>1, <1>2 DEF PanelFits, Waits
<1> QED
  BY <1>2, <1>3, PanelAlone

LEMMA LeaveTypes ==
    ASSUME Sides!TeamsAssumption, SidesTypes, NEW g \in Pages, Sides!Leave(g)
    PROVE  SidesTypes'
<1> DEFINE page == [pages[g] EXCEPT !.shown = None]
<1>1. /\ pages \in [Pages -> PageType] /\ PanelFits(pages[g], game.pasted)
      /\ resolves \in 0..Resolves /\ changes \in 0..Changes /\ failures \in 0..Failures
  BY DEF SidesTypes
<1>2. /\ page \in PageType /\ page.call = pages[g].call /\ page.shown = None
      /\ pages' = [pages EXCEPT ![g] = page] /\ pages[g].call = None
  BY <1>1 DEF PageType, Sides!Leave, Sides!Idle
<1> HIDE DEF page
<1>3. PanelFits(page, game.pasted) /\ ~Waits(page)
  BY <1>1, <1>2 DEF PanelFits, Waits
<1>4. UNCHANGED <<game, team, pastes, resolves, changes, failures>>
  BY DEF Sides!Leave
<1> QED
  BY <1>1, <1>2, <1>3, <1>4, PanelAlone

LEMMA AnsweredTypes ==
    ASSUME Sides!TeamsAssumption, SidesTypes, NEW g \in Pages, Sides!Answered(g)
    PROVE  SidesTypes'
<1> DEFINE asked == pages[g].call
           shown == pages[g].shown
           next == IF asked.op = "paste" THEN asked.answer ELSE Sides!WithSettled(shown, asked)
           page == [shown |-> next, call |-> None]
<1>1. /\ game.pasted \in Nat /\ pages \in [Pages -> PageType] /\ PanelFits(pages[g], game.pasted)
      /\ resolves \in 0..Resolves /\ changes \in 0..Changes /\ failures \in 0..Failures
  BY DEF SidesTypes, GameType
<1>2. /\ asked # None /\ asked.answer # None
      /\ pages' = [pages EXCEPT ![g] =
             [shown |-> IF asked.op = "paste" THEN asked.answer
                        ELSE Sides!WithSettled(@.shown, asked), call |-> None]]
      /\ UNCHANGED <<game, team, pastes, resolves, changes, failures>>
  BY DEF Sides!Answered, Sides!Idle
<1>3. pages' = [pages EXCEPT ![g] = page]
  BY <1>1, <1>2
<1>4. asked \in Sides!Call
  BY <1>1, <1>2 DEF PageType
<1>5. ShownFits(next, game.pasted)
  <2>1. CASE asked.op = "paste"
    BY <1>1, <1>2, <2>1 DEF PanelFits
  <2>2. CASE asked.op # "paste"
    <3>1. asked \in ResolveCall /\ ShownFits(shown, game.pasted)
      BY <1>1, <1>2, <1>4, <2>2, CallShapes DEF PanelFits
    <3> DEFINE member == Sides!Member(asked.entry.position, asked.entry, asked.player)
    <3>2. member \in Sides!MemberType
      BY <3>1 DEF Sides!Member, Sides!MemberType, ResolveCall, Sides!EntryType
    <3>3. next = [shown EXCEPT !.matched = @ \cup {member}, !.unresolved = @ \ {asked.entry}]
      BY <2>2 DEF Sides!WithSettled
    <3> HIDE DEF asked, shown, next, member
    <3>4. /\ next \in Sides!Result /\ next.unresolved \subseteq shown.unresolved
          /\ next.paste = shown.paste
      BY <3>1, <3>2, <3>3 DEF ShownFits, Sides!Result
    <3> QED
      BY <3>1, <3>4 DEF ShownFits
  <2> QED
    BY <2>1, <2>2
<1> HIDE DEF next
<1>6. page \in PageType /\ PanelFits(page, game.pasted) /\ ~Waits(page)
  BY <1>5 DEF PageType, PanelFits, Waits, ShownFits
<1> HIDE DEF page
<1> QED
  BY <1>1, <1>2, <1>3, <1>6, PanelAlone

\* What a call that is being carried out asks.
LEMMA CallCarriedOut ==
    ASSUME SidesTypes, NEW g \in Pages, ~Sides!Idle(g), pages[g].call.answer = None
    PROVE  /\ pages[g].call \in Sides!Call /\ pages[g].call # None
           /\ pages[g].call.op = "paste" => pages[g].call \in PasteCall /\ Waits(pages[g])
           /\ pages[g].call.op = "resolve" =>
                 pages[g].call \in ResolveCall /\ pages[g].call.of \in 1..game.pasted
<1>1. pages \in [Pages -> PageType] /\ PanelFits(pages[g], game.pasted) /\ pages[g].call # None
  BY DEF SidesTypes, Sides!Idle
<1>2. pages[g].call \in Sides!Call
  BY <1>1 DEF PageType
<1> QED
  BY <1>1, <1>2, CallShapes DEF Waits, PanelFits

LEMMA PasteDoneTypes ==
    ASSUME Sides!TeamsAssumption, SidesTypes, NEW g \in Pages, ~Sides!Idle(g),
           pages[g].call.answer = None, pages[g].call.op = "paste",
           Sides!PasteDone(g, pages[g].call.raw),
           UNCHANGED <<pastes, resolves, changes, failures>>
    PROVE  SidesTypes'
<1> DEFINE asked == pages[g].call
           read == Sides!SplitByTeam(asked.raw)
           result == Sides!ReadLines(read.lines)
           number == game.pasted + 1
           answer == [result EXCEPT !.paste = number]
           page == [pages[g] EXCEPT !.call.answer = answer]
<1>1. asked \in PasteCall /\ asked.raw \in Pasted /\ asked # None /\ Waits(pages[g])
  BY CallCarriedOut DEF PasteCall
<1>2. /\ game \in GameType /\ game.pasted \in Nat /\ pages \in [Pages -> PageType]
      /\ \A h \in Pages : PanelFits(pages[h], game.pasted)
      /\ pastes \in 0..Pastes /\ resolves \in 0..Resolves
      /\ changes \in 0..Changes /\ failures \in 0..Failures
      /\ IsFiniteSet(Waiting) /\ game.pasted + Cardinality(Waiting) <= pastes
  BY DEF SidesTypes, GameType
<1>3. /\ ~read.refused /\ team' = Sides!TeamsAssigned(result, number)
      /\ game' = [game EXCEPT !.pasted = @ + 1]
      /\ pages' = [pages EXCEPT ![g].call.answer = answer]
  BY DEF Sides!PasteDone
<1>4. number \in Nat /\ game.nicknames \in [Spellings -> SUBSET People]
  BY <1>2 DEF GameType
<1>5. /\ result \in Sides!Result /\ \A e \in result.unresolved : Cardinality(e.fits) # 1
      /\ team' \in [People -> Sides!Stored \cup {None}]
      /\ \A p \in People : team'[p] # None => team'[p].paste = number
  BY <1>1, <1>3, <1>4, PasteStores
<1> HIDE DEF read, result
<1>6. ShownFits(answer, number)
  BY <1>2, <1>4, <1>5 DEF ShownFits, Sides!Result
<1>7. game' \in GameType /\ game'.pasted = number
  BY <1>2, <1>3 DEF GameType
<1> HIDE DEF answer
<1>8. /\ page.shown = pages[g].shown /\ page.call = [asked EXCEPT !.answer = answer]
      /\ pages' = [pages EXCEPT ![g] = page]
  BY <1>2, <1>3 DEF PageType
<1>9. /\ page.call \in Sides!Call /\ page.call.op = "paste" /\ page.call.answer = answer
  BY <1>1, <1>6, <1>8 DEF PasteCall, Sides!Call, ShownFits
<1>10. page \in PageType
  BY <1>2, <1>9 DEF PageType
<1> HIDE DEF page
<1>11. ~Waits(page)
  BY <1>6, <1>9, NoneIsNothing DEF Waits, ShownFits
<1>12. PanelFits(page, number)
  BY <1>2, <1>4, <1>6, <1>8, <1>9 DEF PanelFits, ShownFits
<1>13. /\ pages' \in [Pages -> PageType] /\ \A h \in Pages : PanelFits(pages'[h], number)
       /\ IsFiniteSet(Waiting') /\ Cardinality(Waiting) \in Nat /\ Cardinality(Waiting') \in Nat
       /\ Cardinality(Waiting') + 1 <= Cardinality(Waiting)
  <2>1. game.pasted <= number
    BY <1>2
  <2> HIDE DEF number
  <2> QED
    BY <1>1, <1>2, <1>4, <1>8, <1>10, <1>11, <1>12, <2>1, OnePanelChanges, ZenonT(40)
<1>14. game'.pasted + Cardinality(Waiting') <= pastes'
  BY <1>2, <1>7, <1>13
<1>15. \A p \in People : team'[p] # None => team'[p].paste \in 1..game'.pasted
  BY <1>2, <1>4, <1>5, <1>7
<1> QED
  BY <1>2, <1>5, <1>7, <1>13, <1>14, <1>15 DEF SidesTypes

LEMMA ResolveDoneTypes ==
    ASSUME Sides!TeamsAssumption, SidesTypes, NEW g \in Pages, ~Sides!Idle(g),
           pages[g].call.answer = None, pages[g].call.op = "resolve",
           Sides!ResolveDone(g, pages[g].call),
           UNCHANGED <<pastes, resolves, changes, failures>>
    PROVE  SidesTypes'
<1> DEFINE asked == pages[g].call
           page == [pages[g] EXCEPT !.call.answer = "assigned"]
           stored == Sides!Assigned(asked)
<1>1. asked \in ResolveCall /\ asked \in Sides!Call /\ asked # None /\ asked.of \in 1..game.pasted
  BY CallCarriedOut
<1>2. /\ game \in GameType /\ game.pasted \in Nat /\ pages \in [Pages -> PageType]
      /\ \A h \in Pages : PanelFits(pages[h], game.pasted)
      /\ team \in [People -> Sides!Stored \cup {None}]
      /\ \A p \in People : team[p] # None => team[p].paste \in 1..game.pasted
      /\ pastes \in 0..Pastes /\ resolves \in 0..Resolves
      /\ changes \in 0..Changes /\ failures \in 0..Failures
      /\ IsFiniteSet(Waiting) /\ game.pasted + Cardinality(Waiting) <= pastes
  BY DEF SidesTypes, GameType
<1>3. /\ game' = IF asked.remember
                 THEN [game EXCEPT !.nicknames[asked.entry.text] = @ \cup {asked.player}]
                 ELSE game
      /\ team' = [team EXCEPT ![asked.player] = stored]
      /\ pages' = [pages EXCEPT ![g].call.answer = "assigned"]
  BY DEF Sides!ResolveDone
<1>4. asked.player \in People /\ asked.entry.text \in Spellings /\ stored \in Sides!Stored
      /\ stored.paste = asked.of
  BY <1>1 DEF ResolveCall, Sides!EntryType, Sides!Assigned, Sides!Stored
<1> HIDE DEF stored
<1>5. game' \in GameType /\ game'.pasted = game.pasted
  BY <1>2, <1>3, <1>4 DEF GameType
<1>6. /\ page.shown = pages[g].shown /\ page.call = [asked EXCEPT !.answer = "assigned"]
      /\ pages' = [pages EXCEPT ![g] = page]
  BY <1>2, <1>3 DEF PageType
<1>7. /\ page.call \in Sides!Call /\ page.call.op = "resolve" /\ page.call.of = asked.of
      /\ page.call.answer = "assigned"
  BY <1>1, <1>6 DEF ResolveCall, Sides!Call
<1>8. page \in PageType
  BY <1>2, <1>7 DEF PageType
<1> HIDE DEF page
<1>9. ~Waits(page) /\ PanelFits(page, game.pasted)
  BY <1>1, <1>2, <1>6, <1>7 DEF PanelFits, Waits
<1>10. /\ pages' \in [Pages -> PageType] /\ \A h \in Pages : PanelFits(pages'[h], game.pasted)
       /\ IsFiniteSet(Waiting') /\ Cardinality(Waiting) \in Nat /\ Cardinality(Waiting') \in Nat
       /\ Cardinality(Waiting') <= Cardinality(Waiting)
  <2>1. game.pasted <= game.pasted
    BY <1>2
  <2> QED
    BY <1>2, <1>6, <1>8, <1>9, <2>1, OnePanelChanges, ZenonT(40)
<1>11. game'.pasted + Cardinality(Waiting') <= pastes'
  BY <1>2, <1>5, <1>10
<1>12. /\ team' \in [People -> Sides!Stored \cup {None}]
       /\ \A p \in People : team'[p] # None => team'[p].paste \in 1..game'.pasted
  BY <1>1, <1>2, <1>3, <1>4, <1>5
<1> QED
  BY <1>2, <1>5, <1>10, <1>11, <1>12 DEF SidesTypes

\* The game changes, and what is pasted does not.
LEMMA GameAloneTypes ==
    ASSUME Sides!TeamsAssumption, SidesTypes, game' \in GameType, game'.pasted = game.pasted,
           UNCHANGED <<team, pages, pastes, resolves, failures>>, changes' \in 0..Changes
    PROVE  SidesTypes'
<1>1. Waiting' = Waiting
  BY DEF Waiting
<1> QED
  BY <1>1 DEF SidesTypes

LEMMA MoveTypes ==
    ASSUME Sides!TeamsAssumption, SidesTypes, NEW p \in People, Sides!Move(p)
    PROVE  SidesTypes'
<1>1. /\ game \in GameType /\ changes \in 0..Changes /\ Changes \in Nat
  BY NoneIsNothing DEF SidesTypes
<1>2. game' \in GameType /\ game'.pasted = game.pasted /\ changes' \in 0..Changes
  BY <1>1 DEF GameType, Sides!Move
<1>3. UNCHANGED <<team, pages, pastes, resolves, failures>>
  BY DEF Sides!Move
<1> QED
  BY <1>2, <1>3, GameAloneTypes

LEMMA GoTypes ==
    ASSUME Sides!TeamsAssumption, SidesTypes, NEW action \in Sides!GameActions, Sides!Go(action)
    PROVE  SidesTypes'
<1>1. /\ game \in GameType /\ game.position \in Sides!Positions
      /\ changes \in 0..Changes /\ Changes \in Nat
  BY NoneIsNothing DEF SidesTypes, GameType
<1>2. Sides!NextPosition(game.position, action) \in Sides!Positions
  <2>1. Sides!CanPerform(game.position, action)
    BY DEF Sides!Go
  <2> QED
    BY <1>1, <2>1 DEF Sides!GameActions, Sides!CanPerform, Sides!LeavesFrom, Sides!NextPosition,
       Sides!Destination, Sides!Positions, Sides!At, Sides!CancelledFrom, Sides!LiveStates,
       Sides!Open, Sides!Created, Sides!Confirmed, Sides!Played, Sides!Cancelled,
       Sides!NotCancelled
<1>3. PICK called \in IF action = "create" THEN SUBSET People ELSE {game.playing} :
         game' = [game EXCEPT !.position = Sides!NextPosition(@, action), !.playing = called]
  BY DEF Sides!Go
<1>4. called \in SUBSET People
  BY <1>1 DEF GameType
<1>5. game' \in GameType /\ game'.pasted = game.pasted
  BY <1>1, <1>2, <1>3, <1>4 DEF GameType
<1>6. changes' \in 0..Changes /\ UNCHANGED <<team, pages, pastes, resolves, failures>>
  BY <1>1 DEF Sides!Go
<1> QED
  BY <1>5, <1>6, GameAloneTypes

LEMMA SidesTypesAtFirst == ASSUME Sides!TeamsAssumption, Sides!Init PROVE SidesTypes
<1>1. game \in GameType /\ game.pasted = 0
  BY DEF Sides!Init, GameType, Sides!Positions, Sides!At, Sides!LiveStates, Sides!Confirmed
<1>2. pages = [g \in Pages |-> [shown |-> None, call |-> None]]
  BY DEF Sides!Init
<1>3. pages \in [Pages -> PageType] /\ \A g \in Pages : PanelFits(pages[g], 0)
  BY <1>2 DEF PageType, PanelFits
<1>4. Waiting = {}
  BY <1>2 DEF Waiting, Waits
<1>5. IsFiniteSet(Waiting) /\ Cardinality(Waiting) = 0
  BY <1>4, FS_EmptySet
<1>6. /\ team = [p \in People |-> None] /\ pastes = 0 /\ resolves = 0 /\ changes = 0 /\ failures = 0
  BY DEF Sides!Init
<1> QED
  BY <1>1, <1>3, <1>5, <1>6, NoneIsNothing DEF SidesTypes

LEMMA SidesTypesNext ==
    ASSUME Sides!TeamsAssumption, SidesTypes, [Sides!Next]_(Sides!vars) PROVE SidesTypes'
<1>1. /\ resolves \in 0..Resolves /\ changes \in 0..Changes /\ failures \in 0..Failures
      /\ Failures \in Nat
  BY NoneIsNothing DEF SidesTypes
<1>2. ASSUME NEW g \in Pages, Sides!Perform(g) PROVE SidesTypes'
  <2>1. /\ ~Sides!Idle(g) /\ pages[g].call.answer = None
        /\ UNCHANGED <<pastes, resolves, changes, failures>>
    BY <1>2 DEF Sides!Perform
  <2>2. CASE Sides!Refused(g, pages[g].call)
    BY <1>1, <2>1, <2>2, GivenUpTypes DEF Sides!Refused
  <2>3. CASE pages[g].call.op = "paste" /\ Sides!PasteDone(g, pages[g].call.raw)
    BY <2>1, <2>3, PasteDoneTypes
  <2>4. CASE pages[g].call.op = "resolve" /\ Sides!ResolveDone(g, pages[g].call)
    BY <2>1, <2>4, ResolveDoneTypes
  <2> QED
    BY <1>2, <2>2, <2>3, <2>4 DEF Sides!Perform
<1>3. ASSUME NEW g \in Pages, Sides!Lose(g) PROVE SidesTypes'
  <2>1. failures' \in 0..Failures
    BY <1>1, <1>3 DEF Sides!Lose
  <2> QED
    BY <1>1, <1>3, <2>1, GivenUpTypes DEF Sides!Lose
<1>4. CASE UNCHANGED Sides!vars
  <2>1. UNCHANGED <<game, team, pages, pastes, resolves, changes, failures>>
    BY <1>4 DEF Sides!vars
  <2>2. game \in GameType
    BY DEF SidesTypes
  <2> QED
    BY <1>1, <2>1, <2>2, GameAloneTypes
<1> QED
  BY <1>2, <1>3, <1>4, PasteTypes, ResolveTypes, AnsweredTypes, LeaveTypes, MoveTypes, GoTypes
     DEF Sides!Next, Sides!Quiet

LEMMA SidesTypesHold == ASSUME Sides!TeamsAssumption PROVE Sides!Spec => []SidesTypes
<1>1. Sides!Init => SidesTypes
  BY SidesTypesAtFirst
<1>2. SidesTypes /\ [Sides!Next]_(Sides!vars) => SidesTypes'
  BY SidesTypesNext
<1> QED
  BY <1>1, <1>2, PTL DEF Sides!Spec

\* Everything kept of the teams is what it is said to be, with any players, pastes and panels:
\* no panel shows a paste the game has not had, and no name that fits one player is left to
\* the organiser.
THEOREM PanelsAreTyped ==
    ASSUME Sides!TeamsAssumption PROVE Sides!Spec => []Sides!TypeOK
<1>1. SidesTypes => Sides!TypeOK
  <2> SUFFICES ASSUME SidesTypes PROVE Sides!TypeOK
    OBVIOUS
  <2>1. /\ game \in GameType /\ game.pasted \in Nat /\ pastes \in 0..Pastes /\ Pastes \in Nat
        /\ Cardinality(Waiting) \in Nat /\ game.pasted + Cardinality(Waiting) <= pastes
    BY FS_CardinalityType, NoneIsNothing DEF SidesTypes, GameType
  <2>2. game.pasted \in 0..Pastes /\ \A n \in 1..game.pasted : n \in 1..Pastes
    BY <2>1
  <2>3. game \in [position : Sides!Positions, playing : SUBSET People,
                  nicknames : [Spellings -> SUBSET People], pasted : 0..Pastes]
    BY <2>1, <2>2 DEF GameType
  <2>4. \A g \in Pages : pages[g].shown # None =>
                /\ pages[g].shown.paste \in 1..Pastes
                /\ \A e \in pages[g].shown.unresolved : Sides!Cardinality(e.fits) # 1
    BY <2>2, SidesCount DEF SidesTypes, PanelFits, ShownFits
  <2>5. \A p \in People : team[p] # None => team[p].paste \in 1..Pastes
    BY <2>2 DEF SidesTypes
  <2> QED
    BY <2>3, <2>4, <2>5 DEF SidesTypes, Sides!TypeOK, PageType
<1> QED
  BY <1>1, SidesTypesHold, PTL

LEMMA FirstLineStep ==
    ASSUME Sides!TeamsAssumption, SidesTypes, [Sides!Next]_(Sides!vars)
    PROVE  Sides!FirstLineCounts
<1> SUFFICES ASSUME NEW g \in Pages, pages[g].call # None, pages[g].call.op = "paste",
                    pages[g].call.answer = None, game'.pasted > game.pasted,
                    pages'[g].call # None, pages'[g].call.answer # None
             PROVE  ByFirstLine(team', pages[g].call.raw)
  BY DEF Sides!FirstLineCounts, ByFirstLine
<1>1. /\ game \in GameType /\ game.pasted \in Nat /\ pages \in [Pages -> PageType]
      /\ game.nicknames \in [Spellings -> SUBSET People]
  BY DEF SidesTypes, GameType
<1>2. game' # game /\ game'.pasted # game.pasted
  BY <1>1
<1>3. ASSUME NEW h \in Pages, Sides!ResolveDone(h, pages[h].call) PROVE FALSE
  BY <1>1, <1>2, <1>3 DEF Sides!ResolveDone, GameType
<1>4. ASSUME NEW p \in People, Sides!Move(p) PROVE FALSE
  BY <1>1, <1>2, <1>4 DEF Sides!Move, GameType
<1>5. ASSUME NEW action \in Sides!GameActions, Sides!Go(action) PROVE FALSE
  BY <1>1, <1>2, <1>5 DEF Sides!Go, GameType
<1>6. PICK h \in Pages : /\ ~Sides!Idle(h) /\ pages[h].call.answer = None
                         /\ pages[h].call.op = "paste" /\ Sides!PasteDone(h, pages[h].call.raw)
  <2>1. ASSUME NEW h \in Pages, Sides!Paste(h) \/ Sides!Resolve(h) \/ Sides!Answered(h)
                                \/ Sides!Lose(h) \/ Sides!Leave(h) PROVE FALSE
    BY <1>2, <2>1 DEF Sides!Paste, Sides!Resolve, Sides!Answered, Sides!Lose, Sides!Leave
  <2>2. ASSUME UNCHANGED Sides!vars PROVE FALSE
    BY <1>2, <2>2 DEF Sides!vars
  <2>3. PICK h \in Pages : Sides!Perform(h)
    BY <1>4, <1>5, <2>1, <2>2 DEF Sides!Next, Sides!Quiet
  <2>4. ~Sides!Refused(h, pages[h].call)
    BY <1>2 DEF Sides!Refused
  <2> QED
    BY <1>3, <2>3, <2>4 DEF Sides!Perform
<1>7. h = g
  <2>1. \E answer : pages' = [pages EXCEPT ![h].call.answer = answer]
    BY <1>6 DEF Sides!PasteDone
  <2> QED
    BY <1>1, <2>1
<1>8. pages[g].call \in PasteCall /\ pages[g].call.raw \in Pasted
  BY <1>6, <1>7, CallCarriedOut DEF PasteCall
<1>9. /\ ~Sides!SplitByTeam(pages[g].call.raw).refused
      /\ team' = Sides!TeamsAssigned(
                    Sides!ReadLines(Sides!SplitByTeam(pages[g].call.raw).lines), game.pasted + 1)
  BY <1>6, <1>7 DEF Sides!PasteDone
<1>10. game.pasted + 1 \in Nat
  BY <1>1
<1> DEFINE raw == pages[g].call.raw
           number == game.pasted + 1
           stored == Sides!TeamsAssigned(Sides!ReadLines(Sides!SplitByTeam(raw).lines), number)
<1>11. raw \in Pasted /\ number \in Nat /\ ~Sides!SplitByTeam(raw).refused /\ team' = stored
  BY <1>8, <1>9, <1>10
<1> HIDE DEF raw, number
<1>12. ByFirstLine(stored, raw)
  BY <1>1, <1>11, PasteStores
<1> QED
  BY <1>11, <1>12 DEF raw

\* What a paste stores: each player of the convocatoria a line names, on the team of the first
\* line that does, and nobody else; with any line before the headings, nothing at all.
THEOREM FirstLineWins ==
    ASSUME Sides!TeamsAssumption
    PROVE  Sides!Spec => [][Sides!FirstLineCounts]_(Sides!vars)
<1>1. SidesTypes /\ [Sides!Next]_(Sides!vars) => [Sides!FirstLineCounts]_(Sides!vars)
  BY FirstLineStep
<1> QED
  BY <1>1, SidesTypesHold, PTL DEF Sides!Spec

\* What one panel keeps true of the teams stored.  Those it shows are stored, if its paste is
\* still the game's last, and so are those of an answer on its way; with no answer lost it
\* shows them all, of the last paste, unless an answer that is on its way does.
OnePanel == \A g, h \in Pages : g = h
Held(shown, stored, last) ==
    shown.paste = last =>
        \A m \in shown.matched : stored[m.player] # None /\ stored[m.player].side = m.team
Whole(shown, stored, last) ==
    /\ shown.paste = last
    /\ \A p \in People : stored[p] # None => \E m \in shown.matched : m.player = p
OfTheLast(stored, last) == \A p \in People : stored[p] # None => stored[p].paste = last
PasteIn(asked) == asked # None /\ asked.op = "paste" /\ asked.answer # None
ShownStands(shown, asked, stored, last, lost) ==
    /\ shown.paste <= last /\ Held(shown, stored, last)
    /\ PasteIn(asked) => shown.paste < last
    /\ ~lost /\ ~PasteIn(asked) => shown.paste = last
    /\ ~lost /\ (asked = None \/ asked.answer = None) => Whole(shown, stored, last)
ResolveStands(shown, asked, stored, last, lost) ==
    /\ asked.of = shown.paste /\ \A m \in shown.matched : m.player # asked.player
    /\ asked.answer # None =>
          /\ Held(Sides!WithSettled(shown, asked), stored, last)
          /\ ~lost => Whole(Sides!WithSettled(shown, asked), stored, last)
PanelStands(page, stored, last, lost) ==
    /\ page.shown # None => ShownStands(page.shown, page.call, stored, last, lost)
    /\ PasteIn(page.call) => /\ Held(page.call.answer, stored, last)
                             /\ Whole(page.call.answer, stored, last)
    /\ page.call # None /\ page.call.op = "resolve" =>
          page.shown # None /\ ResolveStands(page.shown, page.call, stored, last, lost)
PanelInv ==
    /\ failures = 0 => OfTheLast(team, game.pasted)
    /\ \A g \in Pages : PanelStands(pages[g], team, game.pasted, failures # 0)

\* Nothing stored changes and no answer is lost: only the panel does.
LEMMA PanelMoves ==
    ASSUME OnePanel, PanelInv, NEW g \in Pages, NEW page,
           pages \in [Pages -> PageType], pages' = [pages EXCEPT ![g] = page],
           UNCHANGED <<game, team, failures>>,
           PanelStands(page, team, game.pasted, failures # 0)
    PROVE  PanelInv'
<1>1. \A h \in Pages : pages'[h] = page
  BY DEF OnePanel
<1> QED
  BY <1>1 DEF PanelInv

LEMMA PastePanel ==
    ASSUME SidesTypes, OnePanel, PanelInv, NEW g \in Pages, Sides!Paste(g) PROVE PanelInv'
<1>1. PICK raw \in Pasted :
         pages' = [pages EXCEPT ![g].call = [op |-> "paste", raw |-> raw, answer |-> None]]
  BY DEF Sides!Paste
<1> DEFINE asked == [op |-> "paste", raw |-> raw, answer |-> None]
           page == [pages[g] EXCEPT !.call = asked]
<1>2. pages \in [Pages -> PageType] /\ pages[g].call = None /\ UNCHANGED <<game, team, failures>>
  BY DEF SidesTypes, Sides!Paste, Sides!Idle
<1>3. asked.op = "paste" /\ asked.answer = None
  OBVIOUS
<1> HIDE DEF asked
<1>4. page.shown = pages[g].shown /\ page.call = asked /\ pages' = [pages EXCEPT ![g] = page]
  BY <1>1, <1>2 DEF PageType, asked
<1> HIDE DEF page
<1>5. PanelStands(pages[g], team, game.pasted, failures # 0)
  BY DEF PanelInv
<1>6. PanelStands(page, team, game.pasted, failures # 0)
  BY <1>2, <1>3, <1>4, <1>5 DEF PanelStands, ShownStands, PasteIn
<1> QED
  BY <1>2, <1>4, <1>6, PanelMoves

LEMMA ResolvePanel ==
    ASSUME SidesTypes, OnePanel, Careful, PanelInv, NEW g \in Pages, Sides!Resolve(g)
    PROVE  PanelInv'
<1> DEFINE shown == pages[g].shown
<1>1. pages \in [Pages -> PageType] /\ pages[g].call = None /\ UNCHANGED <<game, team, failures>>
      /\ shown # None
  BY DEF SidesTypes, Sides!Resolve, Sides!Idle
<1>2. PICK entry \in shown.unresolved, remember \in BOOLEAN : \E p \in Sides!Choosable(entry) :
         /\ Careful => \A m \in shown.matched : m.player # p
         /\ pages' = [pages EXCEPT ![g].call = [op |-> "resolve", entry |-> entry, of |-> shown.paste,
                         player |-> p, remember |-> remember, answer |-> None]]
  BY DEF Sides!Resolve
<1>3. PICK p \in Sides!Choosable(entry) :
         /\ Careful => \A m \in shown.matched : m.player # p
         /\ pages' = [pages EXCEPT ![g].call = [op |-> "resolve", entry |-> entry, of |-> shown.paste,
                         player |-> p, remember |-> remember, answer |-> None]]
  BY <1>2
<1> DEFINE asked == [op |-> "resolve", entry |-> entry, of |-> shown.paste,
                     player |-> p, remember |-> remember, answer |-> None]
           page == [pages[g] EXCEPT !.call = asked]
<1>4. asked.op = "resolve" /\ asked.of = shown.paste /\ asked.player = p /\ asked.answer = None
  OBVIOUS
<1> HIDE DEF asked
<1>5. page.shown = shown /\ page.call = asked /\ pages' = [pages EXCEPT ![g] = page]
  BY <1>1, <1>3 DEF PageType, asked
<1> HIDE DEF page
<1>6. PanelStands(pages[g], team, game.pasted, failures # 0)
  BY DEF PanelInv
<1>7. PanelStands(page, team, game.pasted, failures # 0)
  BY <1>1, <1>3, <1>4, <1>5, <1>6 DEF PanelStands, ShownStands, ResolveStands, PasteIn
<1> QED
  BY <1>1, <1>5, <1>7, PanelMoves

LEMMA RefusedPanel ==
    ASSUME SidesTypes, OnePanel, PanelInv, NEW g \in Pages, pages[g].call.answer = None,
           Sides!Refused(g, pages[g].call), UNCHANGED failures
    PROVE  PanelInv'
<1> DEFINE page == [pages[g] EXCEPT !.call = None]
<1>1. /\ pages \in [Pages -> PageType] /\ UNCHANGED <<game, team, failures>>
      /\ pages' = [pages EXCEPT ![g] = page]
  BY DEF SidesTypes, Sides!Refused
<1>2. page.shown = pages[g].shown /\ page.call = None
  BY <1>1 DEF PageType
<1> HIDE DEF page
<1>3. PanelStands(pages[g], team, game.pasted, failures # 0)
  BY DEF PanelInv
<1>4. PanelStands(page, team, game.pasted, failures # 0)
  BY <1>2, <1>3 DEF PanelStands, ShownStands, PasteIn
<1> QED
  BY <1>1, <1>4, PanelMoves

LEMMA LeavePanel ==
    ASSUME SidesTypes, OnePanel, PanelInv, NEW g \in Pages, Sides!Leave(g) PROVE PanelInv'
<1> DEFINE page == [pages[g] EXCEPT !.shown = None]
<1>1. /\ pages \in [Pages -> PageType] /\ UNCHANGED <<game, team, failures>>
      /\ pages' = [pages EXCEPT ![g] = page] /\ pages[g].call = None
  BY DEF SidesTypes, Sides!Leave, Sides!Idle
<1>2. page.shown = None /\ page.call = None
  BY <1>1 DEF PageType
<1> HIDE DEF page
<1>3. PanelStands(page, team, game.pasted, failures # 0)
  BY <1>2 DEF PanelStands, PasteIn
<1> QED
  BY <1>1, <1>3, PanelMoves

LEMMA AnsweredPanel ==
    ASSUME SidesTypes, OnePanel, PanelInv, NEW g \in Pages, Sides!Answered(g) PROVE PanelInv'
<1> DEFINE asked == pages[g].call
           shown == pages[g].shown
           next == IF asked.op = "paste" THEN asked.answer ELSE Sides!WithSettled(shown, asked)
           page == [shown |-> next, call |-> None]
<1>1. /\ game.pasted \in Nat /\ pages \in [Pages -> PageType] /\ PanelFits(pages[g], game.pasted)
      /\ UNCHANGED <<game, team, failures>> /\ asked # None /\ asked.answer # None
  BY DEF SidesTypes, GameType, Sides!Answered, Sides!Idle
<1>2. pages' = [pages EXCEPT ![g] = page]
  BY <1>1 DEF Sides!Answered
<1>3. asked.op \in {"paste", "resolve"}
  BY <1>1, CallShapes DEF PageType
<1>4. PanelStands(pages[g], team, game.pasted, failures # 0)
  BY DEF PanelInv
<1>5. ShownStands(next, None, team, game.pasted, failures # 0)
  <2>1. CASE asked.op = "paste"
    <3>1. next = asked.answer /\ PasteIn(asked)
      BY <1>1, <2>1 DEF PasteIn
    <3>2. Held(next, team, game.pasted) /\ Whole(next, team, game.pasted)
      BY <1>4, <3>1 DEF PanelStands
    <3> QED
      BY <1>1, <3>2 DEF ShownStands, PasteIn, Whole
  <2>2. CASE asked.op = "resolve"
    <3>1. next = Sides!WithSettled(shown, asked) /\ ~PasteIn(asked)
      BY <2>2 DEF PasteIn
    <3>2. /\ ShownStands(shown, asked, team, game.pasted, failures # 0)
          /\ ResolveStands(shown, asked, team, game.pasted, failures # 0) /\ shown \in Sides!Result
      BY <1>1, <1>4, <2>2 DEF PanelStands, PanelFits, ShownFits
    <3>3. next.paste = shown.paste
      BY <3>1, <3>2 DEF Sides!WithSettled, Sides!Result
    <3> HIDE DEF next, asked, shown
    <3> QED
      BY <1>1, <3>1, <3>2, <3>3 DEF ShownStands, ResolveStands, PasteIn
  <2> QED
    BY <1>3, <2>1, <2>2
<1> HIDE DEF next
<1>6. PanelStands(page, team, game.pasted, failures # 0)
  BY <1>5 DEF PanelStands, PasteIn
<1> HIDE DEF page
<1> QED
  BY <1>1, <1>2, <1>6, PanelMoves

LEMMA LosePanel ==
    ASSUME SidesTypes, OnePanel, PanelInv, NEW g \in Pages, Sides!Lose(g) PROVE PanelInv'
<1> DEFINE page == [pages[g] EXCEPT !.call = None]
<1>1. /\ pages \in [Pages -> PageType] /\ UNCHANGED <<game, team>>
      /\ pages' = [pages EXCEPT ![g] = page] /\ failures \in Nat /\ failures' = failures + 1
  BY DEF SidesTypes, Sides!Lose
<1>2. page.shown = pages[g].shown /\ page.call = None /\ failures' # 0
  BY <1>1 DEF PageType
<1> HIDE DEF page
<1>3. PanelStands(pages[g], team, game.pasted, failures # 0)
  BY DEF PanelInv
<1>4. PanelStands(page, team, game.pasted, TRUE)
  BY <1>2, <1>3 DEF PanelStands, ShownStands, PasteIn
<1>5. \A h \in Pages : pages'[h] = page
  BY <1>1 DEF OnePanel
<1>6. (failures # 0)' = TRUE
  BY <1>2
<1> QED
  BY <1>1, <1>2, <1>4, <1>5, <1>6 DEF PanelInv

LEMMA PasteDonePanel ==
    ASSUME Sides!TeamsAssumption, SidesTypes, OnePanel, PanelInv, NEW g \in Pages,
           ~Sides!Idle(g), pages[g].call.answer = None, pages[g].call.op = "paste",
           Sides!PasteDone(g, pages[g].call.raw), UNCHANGED failures
    PROVE  PanelInv'
<1> DEFINE asked == pages[g].call
           shown == pages[g].shown
           read == Sides!SplitByTeam(asked.raw)
           result == Sides!ReadLines(read.lines)
           number == game.pasted + 1
           answer == [result EXCEPT !.paste = number]
           page == [pages[g] EXCEPT !.call.answer = answer]
<1>1. asked \in PasteCall /\ asked.raw \in Pasted /\ asked # None
  BY CallCarriedOut DEF PasteCall
<1>2. /\ game \in GameType /\ game.pasted \in Nat /\ pages \in [Pages -> PageType]
      /\ game.nicknames \in [Spellings -> SUBSET People] /\ PanelFits(pages[g], game.pasted)
  BY DEF SidesTypes, GameType
<1>3. /\ ~read.refused /\ team' = Sides!TeamsAssigned(result, number)
      /\ game' = [game EXCEPT !.pasted = @ + 1]
      /\ pages' = [pages EXCEPT ![g].call.answer = answer]
  BY DEF Sides!PasteDone
<1>4. number \in Nat /\ game'.pasted = number
  BY <1>2, <1>3 DEF GameType
<1>5. /\ result \in Sides!Result
      /\ \A p \in People : team'[p] # None =>
            team'[p].paste = number /\ \E m \in result.matched : m.player = p
      /\ \A m \in result.matched : team'[m.player] # None /\ team'[m.player].side = m.team
  BY <1>1, <1>2, <1>3, <1>4, PasteStores
<1> HIDE DEF read, result
<1>6. answer \in Sides!Result /\ answer.paste = number /\ answer.matched = result.matched
  BY <1>4, <1>5 DEF Sides!Result
<1> HIDE DEF answer
<1>7. Held(answer, team', number) /\ Whole(answer, team', number) /\ OfTheLast(team', number)
  BY <1>5, <1>6 DEF Held, Whole, OfTheLast
<1>8. /\ page.shown = shown /\ page.call = [asked EXCEPT !.answer = answer]
      /\ pages' = [pages EXCEPT ![g] = page]
  BY <1>2, <1>3 DEF PageType
<1>9. page.call.op = "paste" /\ page.call.answer = answer /\ page.call \in Sides!Call
  BY <1>1, <1>6, <1>8 DEF PasteCall, Sides!Call
<1> HIDE DEF page
<1>10. PasteIn(page.call)
  BY <1>6, <1>9, NoneIsNothing DEF PasteIn
<1>11. shown # None => shown.paste \in Nat /\ shown.paste < number
  BY <1>2 DEF PanelFits, ShownFits
<1>12. PanelStands(page, team', number, failures # 0)
  <2> HIDE DEF number, shown
  <2> QED
    BY <1>4, <1>6, <1>7, <1>8, <1>9, <1>10, <1>11, NoneIsNothing
       DEF PanelStands, ShownStands, Held, PasteIn
<1>13. \A h \in Pages : pages'[h] = page
  BY <1>2, <1>8 DEF OnePanel
<1> HIDE DEF number
<1> QED
  BY <1>4, <1>7, <1>12, <1>13 DEF PanelInv

LEMMA ResolveDonePanel ==
    ASSUME Sides!TeamsAssumption, SidesTypes, OnePanel, PanelInv, NEW g \in Pages,
           ~Sides!Idle(g), pages[g].call.answer = None, pages[g].call.op = "resolve",
           Sides!ResolveDone(g, pages[g].call), UNCHANGED failures
    PROVE  PanelInv'
<1> DEFINE asked == pages[g].call
           shown == pages[g].shown
           last == game.pasted
           lost == failures # 0
           done == [asked EXCEPT !.answer = "assigned"]
           page == [pages[g] EXCEPT !.call.answer = "assigned"]
           stored == Sides!Assigned(asked)
           more == Sides!WithSettled(shown, asked)
           member == Sides!Member(asked.entry.position, asked.entry, asked.player)
<1>1. asked \in ResolveCall /\ asked # None
  BY CallCarriedOut
<1>2. /\ game \in GameType /\ pages \in [Pages -> PageType]
      /\ team \in [People -> Sides!Stored \cup {None}] /\ PanelFits(pages[g], last)
  BY DEF SidesTypes, GameType
<1>3. /\ game' = IF asked.remember
                 THEN [game EXCEPT !.nicknames[asked.entry.text] = @ \cup {asked.player}]
                 ELSE game
      /\ team' = [team EXCEPT ![asked.player] = stored]
      /\ pages' = [pages EXCEPT ![g].call.answer = "assigned"]
  BY DEF Sides!ResolveDone
<1>4. game'.pasted = last
  BY <1>2, <1>3 DEF GameType
<1>5. PanelStands(pages[g], team, last, lost) /\ (~lost => OfTheLast(team, last))
  BY DEF PanelInv
<1>6. /\ shown # None /\ shown \in Sides!Result /\ ~PasteIn(asked)
      /\ ShownStands(shown, asked, team, last, lost)
      /\ asked.of = shown.paste /\ \A m \in shown.matched : m.player # asked.player
  BY <1>1, <1>2, <1>5 DEF PanelStands, ResolveStands, PanelFits, ShownFits, PasteIn
<1>7. /\ asked.player \in People /\ stored \in Sides!Stored /\ stored # None
      /\ stored.side = asked.entry.team /\ stored.paste = shown.paste
  <2>1. asked.player \in People /\ asked.entry \in Sides!EntryType /\ asked.of \in Nat
    BY <1>1 DEF ResolveCall
  <2>2. stored = [side |-> asked.entry.team, paste |-> asked.of]
    BY DEF Sides!Assigned
  <2> HIDE DEF stored, asked
  <2>3. stored \in Sides!Stored
    BY <2>1, <2>2 DEF Sides!Stored, Sides!EntryType
  <2> QED
    BY <1>6, <2>1, <2>2, <2>3, NoneIsNothing
<1>8. /\ member.player = asked.player /\ member.team = asked.entry.team
      /\ more.matched = shown.matched \cup {member} /\ more.paste = shown.paste
  BY <1>6 DEF Sides!WithSettled, Sides!Member, Sides!Result
<1>9. /\ page.shown = shown /\ page.call = done /\ pages' = [pages EXCEPT ![g] = page]
  BY <1>2, <1>3 DEF PageType
<1>10. /\ done.op = "resolve" /\ done.answer = "assigned" /\ done.of = shown.paste
       /\ done.player = asked.player /\ Sides!WithSettled(shown, done) = more
  BY <1>1, <1>6 DEF ResolveCall, Sides!WithSettled
<1>11. /\ team'[asked.player] = stored /\ stored # None
       /\ \A p \in People : p # asked.player => team'[p] = team[p]
  BY <1>2, <1>3, <1>7
<1>12. \A m \in shown.matched : m.player \in People
  BY <1>6 DEF Sides!Result, Sides!MemberType
<1>13. done \in Sides!Call
  BY <1>1 DEF ResolveCall, Sides!Call
<1> HIDE DEF asked, shown, last, lost, done, page, stored, more, member
<1>14. Held(shown, team', last)
  <2>1. Held(shown, team, last)
    BY <1>6 DEF ShownStands
  <2> QED
    BY <1>6, <1>11, <1>12, <2>1 DEF Held
<1>15. Held(more, team', last)
  BY <1>7, <1>8, <1>11, <1>14 DEF Held
<1>16. ~lost => Whole(more, team', last) /\ OfTheLast(team', last) /\ shown.paste = last
  <2>1. pages[g].call.answer = None
    OBVIOUS
  <2>2. ~lost => Whole(shown, team, last)
    BY <1>6, <2>1 DEF ShownStands, asked
  <2> QED
    BY <1>5, <1>7, <1>8, <1>11, <2>2 DEF Whole, OfTheLast
<1>17. ShownStands(shown, done, team', last, lost)
  BY <1>6, <1>10, <1>14, <1>16, <1>13, NoneIsNothing DEF ShownStands, PasteIn
<1>18. ResolveStands(shown, done, team', last, lost)
  BY <1>6, <1>10, <1>15, <1>16 DEF ResolveStands
<1>19. PanelStands(page, team', last, lost)
  BY <1>6, <1>9, <1>10, <1>17, <1>18 DEF PanelStands, PasteIn
<1>20. \A h \in Pages : pages'[h] = page
  BY <1>2, <1>9 DEF OnePanel
<1> QED
  BY <1>4, <1>16, <1>19, <1>20 DEF PanelInv, lost

LEMMA PanelNext ==
    ASSUME Sides!TeamsAssumption, OnePanel, Careful, SidesTypes, PanelInv,
           [Sides!Next]_(Sides!vars)
    PROVE  PanelInv'
<1>1. game \in GameType
  BY DEF SidesTypes
<1>2. ASSUME game'.pasted = game.pasted, UNCHANGED <<team, pages, failures>> PROVE PanelInv'
  BY <1>2 DEF PanelInv
<1>3. ASSUME NEW g \in Pages, Sides!Perform(g) PROVE PanelInv'
  <2>1. ~Sides!Idle(g) /\ pages[g].call.answer = None /\ UNCHANGED failures
    BY <1>3 DEF Sides!Perform
  <2> QED
    BY <1>3, <2>1, RefusedPanel, PasteDonePanel, ResolveDonePanel DEF Sides!Perform
<1>4. ASSUME NEW p \in People, Sides!Move(p) PROVE PanelInv'
  <2>1. game'.pasted = game.pasted /\ UNCHANGED <<team, pages, failures>>
    BY <1>1, <1>4 DEF Sides!Move, GameType
  <2> QED
    BY <1>2, <2>1
<1>5. ASSUME NEW action \in Sides!GameActions, Sides!Go(action) PROVE PanelInv'
  <2>1. game'.pasted = game.pasted /\ UNCHANGED <<team, pages, failures>>
    BY <1>1, <1>5 DEF Sides!Go, GameType
  <2> QED
    BY <1>2, <2>1
<1>6. CASE UNCHANGED Sides!vars
  BY <1>2, <1>6 DEF Sides!vars
<1> QED
  BY <1>3, <1>4, <1>5, <1>6, PastePanel, ResolvePanel, AnsweredPanel, LosePanel, LeavePanel
     DEF Sides!Next, Sides!Quiet

LEMMA PanelHolds ==
    ASSUME Sides!TeamsAssumption, OnePanel, Careful
    PROVE  Sides!Spec => [](SidesTypes /\ PanelInv)
<1>1. Sides!Init => PanelInv
  BY DEF Sides!Init, PanelInv, PanelStands, OfTheLast, PasteIn
<1>2. SidesTypes /\ PanelInv /\ [Sides!Next]_(Sides!vars) => PanelInv'
  BY PanelNext
<1> QED
  BY <1>1, <1>2, SidesTypesHold, PTL DEF Sides!Spec

\* With one panel, whose organiser chooses nobody already shown on a team: whoever it shows on
\* a team has it stored, while its paste is the game's last; and unless an answer was lost
\* nobody else has a team.
THEOREM PanelShowsTheTeams ==
    ASSUME Sides!TeamsAssumption, OnePanel, Careful
    PROVE  Sides!Spec => []Sides!ShownIsStored
<1>1. SidesTypes /\ PanelInv => Sides!ShownIsStored
  <2> SUFFICES ASSUME SidesTypes, PanelInv, NEW g \in Pages, Sides!Idle(g), pages[g].shown # None,
                      pages[g].shown.paste = game.pasted
               PROVE  /\ \A m \in pages[g].shown.matched :
                            team[m.player] # None /\ team[m.player].side = m.team
                      /\ failures = 0 => \A p \in People : team[p] # None =>
                            \E m \in pages[g].shown.matched : m.player = p
    BY DEF Sides!ShownIsStored
  <2>1. ShownStands(pages[g].shown, None, team, game.pasted, failures # 0)
    BY DEF PanelInv, PanelStands, Sides!Idle
  <2> QED
    BY <2>1 DEF ShownStands, Held, Whole
<1> QED
  BY <1>1, PanelHolds, PTL

\* Under the same conditions, and while no answer is lost, no team stored comes from a paste
\* before the last one.
THEOREM TeamsAreOfOnePaste ==
    ASSUME Sides!TeamsAssumption, OnePanel, Careful
    PROVE  Sides!Spec => []Sides!OnePaste
<1>1. PanelInv => Sides!OnePaste
  BY DEF PanelInv, OfTheLast, Sides!OnePaste
<1> QED
  BY <1>1, PanelHolds, PTL
=============================================================================
