---------------------------- MODULE Season_proofs ----------------------------
(***************************************************************************)
(* Proofs about Season and Selection, for any regulars, guests and rules   *)
(* of a season: no seat is given that cannot be explained to whoever stays *)
(* out; a game is one point, whoever moved whom; and, when the rules have  *)
(* mercy seats that reset the wait, each is earned by waiting, and nobody  *)
(* waits for ever.  And about the page that looks at the seasons, of       *)
(* SeasonScreen: it stays at the one it looks at, its lists are of that    *)
(* one, and it opens on no game that is over.                              *)
(*                                                                         *)
(* They rest on two things the code does with sorted lists and loops: what *)
(* the first n of an order are, and what a count over a record becomes     *)
(* when a game is added to it.  A bounded wait takes a measure: past the   *)
(* games that make a candidate, each game one misses leaves one regular    *)
(* more who has waited less.                                               *)
(***************************************************************************)
EXTENDS Season, FiniteSetTheorems, WellFoundedInduction, TLAPS

-----------------------------------------------------------------------------
(* The first of an order *)

\* R orders S: of any two, one and only one goes before the other.
Orders(R, S) ==
    /\ \A p \in S : <<p, p>> \notin R
    /\ \A p, q \in S : p # q => <<p, q>> \in R \/ <<q, p>> \in R
    /\ \A p, q, r \in S : <<p, q>> \in R /\ <<q, r>> \in R => <<p, r>> \in R

Rank(S, R, p) == Cardinality({q \in S : <<q, p>> \in R})
First(S, n, R) == {p \in S : Rank(S, R, p) < n}

Least(m, n) == IF m <= n THEN m ELSE n

\* Ranks are in the order, and there are as many as members.
LEMMA RanksAreOrdered ==
    ASSUME NEW S, IsFiniteSet(S), NEW R, Orders(R, S)
    PROVE  /\ \A p \in S : Rank(S, R, p) \in 0..(Cardinality(S) - 1)
           /\ \A p, q \in S : <<p, q>> \in R => Rank(S, R, p) < Rank(S, R, q)
<1> DEFINE Below(p) == {q \in S : <<q, p>> \in R}
<1>0. Cardinality(S) \in Nat
  BY FS_CardinalityType
<1>1. ASSUME NEW T \in SUBSET S
      PROVE  /\ IsFiniteSet(T) /\ Cardinality(T) \in Nat
             /\ \A U \in SUBSET T : U # T => Cardinality(U) < Cardinality(T)
  <2>1. IsFiniteSet(T) /\ Cardinality(T) \in Nat
    BY FS_Subset, FS_CardinalityType
  <2>2. ASSUME NEW U \in SUBSET T, U # T PROVE Cardinality(U) < Cardinality(T)
    <3>1. IsFiniteSet(U) /\ Cardinality(U) \in Nat
      BY <2>1, FS_Subset, FS_CardinalityType
    <3> QED
      BY <2>1, <2>2, <3>1, FS_Subset
  <2> QED
    BY <2>1, <2>2
<1>2. ASSUME NEW p \in S PROVE Rank(S, R, p) \in 0..(Cardinality(S) - 1)
  <2>1. Below(p) \in SUBSET S /\ p \notin Below(p)
    BY DEF Orders
  <2>2. Cardinality(Below(p)) \in Nat /\ Cardinality(Below(p)) < Cardinality(S)
    BY <1>1, <2>1
  <2> QED
    BY <1>0, <2>2 DEF Rank
<1>3. ASSUME NEW p \in S, NEW q \in S, <<p, q>> \in R
      PROVE  Rank(S, R, p) < Rank(S, R, q)
  <2>1. Below(p) \in SUBSET Below(q) /\ Below(q) \in SUBSET S
    BY <1>3 DEF Orders
  <2>2. p \in Below(q) /\ p \notin Below(p)
    BY <1>3 DEF Orders
  <2> QED
    BY <1>1, <2>1, <2>2 DEF Rank
<1> QED
  BY <1>2, <1>3

\* Whoever is among the first goes before whoever is not.
LEMMA FirstGoBefore ==
    ASSUME NEW S, IsFiniteSet(S), NEW R, Orders(R, S), NEW n \in Int,
           NEW p \in First(S, n, R), NEW q \in S \ First(S, n, R)
    PROVE  <<p, q>> \in R
<1>1. p \in S /\ q \in S /\ p # q
  BY DEF First
<1>2. Rank(S, R, p) \in Int /\ Rank(S, R, q) \in Int
  BY <1>1, RanksAreOrdered
<1>3. Rank(S, R, p) < n /\ ~(Rank(S, R, q) < n)
  BY DEF First
<1>4. ~(Rank(S, R, q) < Rank(S, R, p))
  BY <1>2, <1>3
<1>5. <<q, p>> \notin R
  BY <1>1, <1>4, RanksAreOrdered
<1> QED
  BY <1>1, <1>5 DEF Orders

\* The first n are n, or all.
LEMMA FirstAreAsMany ==
    ASSUME NEW S, IsFiniteSet(S), NEW R, Orders(R, S), NEW n \in Nat
    PROVE  /\ IsFiniteSet(First(S, n, R))
           /\ Cardinality(First(S, n, R)) = Least(n, Cardinality(S))
<1> DEFINE size == Cardinality(S)
           F == First(S, n, R)
           m == Least(n, size)
           rank == [p \in S |-> Rank(S, R, p)]
           rankF == [p \in F |-> Rank(S, R, p)]
<1>0. size \in Nat /\ m \in Nat /\ m <= n /\ m <= size
  BY FS_CardinalityType DEF Least
<1>1. \A p \in S : Rank(S, R, p) \in 0..(size - 1)
  BY RanksAreOrdered
<1>2. ASSUME NEW p \in S, NEW q \in S, p # q PROVE Rank(S, R, p) # Rank(S, R, q)
  <2>1. Rank(S, R, p) < Rank(S, R, q) \/ Rank(S, R, q) < Rank(S, R, p)
    BY <1>2, RanksAreOrdered DEF Orders
  <2> QED
    BY <1>1, <2>1
<1>3. /\ IsFiniteSet(0..(size - 1)) /\ Cardinality(0..(size - 1)) = size
      /\ IsFiniteSet(0..(m - 1)) /\ Cardinality(0..(m - 1)) = m
  <2>1. ASSUME NEW k \in Nat PROVE IsFiniteSet(0..(k - 1)) /\ Cardinality(0..(k - 1)) = k
    <3>1. /\ IsFiniteSet(0..(k - 1))
          /\ Cardinality(0..(k - 1)) = IF 0 > k - 1 THEN 0 ELSE (k - 1) - 0 + 1
      BY FS_Interval
    <3> QED
      BY <3>1
  <2> HIDE DEF size, m
  <2> QED
    BY <1>0, <2>1
<1>4. rank \in Injection(S, 0..(size - 1))
  BY <1>1, <1>2 DEF Injection, IsInjective
<1>5. rank \in Surjection(S, 0..(size - 1))
  BY <1>3, <1>4, FS_Injection
<1>6. \A p \in S : p \in F <=> Rank(S, R, p) \in 0..(m - 1)
  BY <1>0, <1>1 DEF First, Least
<1>7. F \subseteq S
  BY DEF First
<1> HIDE DEF F, m
<1>8. rankF \in [F -> 0..(m - 1)]
  BY <1>6, <1>7
<1>9. rankF \in Injection(F, 0..(m - 1))
  BY <1>2, <1>7, <1>8 DEF Injection, IsInjective
<1>10. \A k \in 0..(m - 1) : \E p \in F : rankF[p] = k
  <2>1. ASSUME NEW k \in 0..(m - 1) PROVE \E p \in F : rankF[p] = k
    <3>1. k \in 0..(size - 1)
      BY <1>0, <2>1
    <3>2. PICK p \in S : rank[p] = k
      BY <1>5, <3>1 DEF Surjection
    <3> QED
      BY <1>6, <2>1, <3>2
  <2> QED
    BY <2>1
<1>11. rankF \in Surjection(F, 0..(m - 1))
  BY <1>8, <1>10 DEF Surjection
<1> HIDE DEF rankF
<1>12. IsFiniteSet(F) /\ Cardinality(F) = m
  BY <1>3, <1>9, <1>11, FS_Injection
<1> QED
  BY <1>12 DEF F, m

-----------------------------------------------------------------------------
(* Counters that a loop over a record keeps *)

\* Any set of numbers has a least one: an induction, as the absence of a first failure
\* (the library's theorems take the property as an operator, which the provers cannot
\* instantiate).
LEMMA LeastNumber ==
    ASSUME NEW T \in SUBSET Nat, T # {}
    PROVE  \E x \in T : \A y \in T : x <= y
<1> DEFINE R == OpToRel(<, Nat)
<1>1. \A x, y \in Nat : y < x => <<y, x>> \in R
  BY DEF OpToRel
<1>2. IsWellFoundedOn(R, Nat)
  BY NatLessThanWellFounded
<1> HIDE DEF R
<1>3. PICK x \in T : \A y \in T : ~(<<y, x>> \in R)
  BY <1>2, WFMin
<1>4. \A y \in T : ~(y < x)
  BY <1>1, <1>3
<1> QED
  BY <1>4

\* f counts from zero to n, each time as turn says.
Counts(f, n, turn) ==
    /\ f \in [0..n -> Int]
    /\ f[0] = 0 /\ \A i \in 1..n : f[i] = turn[<<f[i - 1], i>>]

\* There is such a count of whatever may be counted.
LEMMA CountsExist ==
    ASSUME NEW n \in Nat, NEW turn, \A c \in Int, i \in 1..n : turn[<<c, i>>] \in Int
    PROVE  \E f : Counts(f, n, turn)
<1> DEFINE Missing == {k \in 0..n : \A f : ~Counts(f, k, turn)}
<1>1. Missing = {}
  <2>0. Missing \in SUBSET Nat
    OBVIOUS
  <2>1. SUFFICES ASSUME NEW k \in Missing, \A l \in Missing : k <= l PROVE FALSE
    <3> HIDE DEF Missing
    <3> QED
      BY <2>0, LeastNumber
  <2>2. CASE k = 0
    <3>1. Counts([i \in 0..0 |-> 0], 0, turn)
      BY DEF Counts
    <3> QED
      BY <2>1, <2>2, <3>1
  <2>3. CASE k # 0
    <3>1. k \in 1..n /\ k - 1 \in 0..n /\ k - 1 \notin Missing
      BY <2>1, <2>3
    <3>2. PICK f : Counts(f, k - 1, turn)
      BY <3>1
    <3> DEFINE g == [i \in 0..k |-> IF i = k THEN turn[<<f[k - 1], k>>] ELSE f[i]]
    <3>3. f[k - 1] \in Int /\ turn[<<f[k - 1], k>>] \in Int
      BY <3>1, <3>2 DEF Counts
    <3>4. g \in [0..k -> Int] /\ g[0] = 0
      BY <3>1, <3>2, <3>3 DEF Counts
    <3>5. ASSUME NEW i \in 1..k PROVE g[i] = turn[<<g[i - 1], i>>]
      <4>1. CASE i = k
        <5>1. g[k - 1] = f[k - 1] /\ g[k] = turn[<<f[k - 1], k>>]
          BY <3>1
        <5> QED
          BY <4>1, <5>1
      <4>2. CASE i # k
        <5>1. i \in 1..(k - 1) /\ i - 1 \in 0..(k - 1)
          BY <3>1, <4>2
        <5>2. g[i] = f[i] /\ g[i - 1] = f[i - 1]
          BY <3>1, <4>2, <5>1
        <5> QED
          BY <3>2, <5>1, <5>2 DEF Counts
      <4> QED
        BY <4>1, <4>2
    <3> HIDE DEF g
    <3>6. Counts(g, k, turn)
      BY <3>4, <3>5 DEF Counts
    <3> QED
      BY <2>1, <3>6
  <2> QED
    BY <2>2, <2>3
<1>2. n \in 0..n
  OBVIOUS
<1> QED
  BY <1>1, <1>2

\* What the first count has, and each passes on, every count has.
LEMMA CountsKeep ==
    ASSUME NEW n \in Nat, NEW f, NEW Good, f[0] \in Good[0],
           \A i \in 1..n : f[i - 1] \in Good[i - 1] => f[i] \in Good[i]
    PROVE  \A i \in 0..n : f[i] \in Good[i]
<1> DEFINE Bad == {i \in 0..n : f[i] \notin Good[i]}
<1>0. Bad \in SUBSET Nat
  OBVIOUS
<1>1. SUFFICES ASSUME NEW i \in Bad, \A j \in Bad : i <= j PROVE FALSE
  <2>1. Bad = {}
    <3> HIDE DEF Bad
    <3> QED
      BY <1>0, <1>1, LeastNumber
  <2> QED
    BY <2>1
<1>2. i # 0 /\ i \in 1..n
  OBVIOUS
<1>3. i - 1 \in 0..n /\ i - 1 \notin Bad
  BY <1>1, <1>2
<1> QED
  BY <1>2, <1>3

Records == Seq(Kinds \cup {"none"})

\* The counter after each game of a record.
Waits(kinds) ==
    CHOOSE after : after = [n \in 0..Len(kinds) |->
                              IF n = 0 THEN 0 ELSE Waited(after[n - 1], kinds[n])]

\* The counter of a record is a number, for games in it, one more each.
LEMMA WaitsAreCounted ==
    ASSUME RulesAssumption, NEW kinds \in Records
    PROVE  /\ Waits(kinds) \in [0..Len(kinds) -> Int]
           /\ Waits(kinds)[0] = 0
           /\ \A i \in 1..Len(kinds) : Waits(kinds)[i] = Waited(Waits(kinds)[i - 1], kinds[i])
           /\ WaitCounter(kinds) = Waits(kinds)[Len(kinds)]
<1> DEFINE n == Len(kinds)
           Is(f) == f = [i \in 0..n |-> IF i = 0 THEN 0 ELSE Waited(f[i - 1], kinds[i])]
           turn == [x \in Int \X (1..n) |-> Waited(x[1], kinds[x[2]])]
<1>0. n \in Nat /\ \A i \in 1..n : kinds[i] \in Kinds \cup {"none"}
  BY DEF Records
<1>1. ASSUME NEW c \in Int, NEW i \in 1..n
      PROVE  Waited(c, kinds[i]) \in Int /\ turn[<<c, i>>] = Waited(c, kinds[i])
  <2>1. Rules.gamesOutForMercy \in Nat /\ Rules.mercyResetsCounter \in BOOLEAN
    BY DEF RulesAssumption, RulesType
  <2>2. kinds[i] \in {"points", "demoted", "mercy", "none"}
    BY <1>0 DEF Kinds
  <2> QED
    BY <1>1, <2>1, <2>2 DEF Waited, Scores
<1>2. \E f \in [0..n -> Int] : Is(f)
  <2>1. PICK f : Counts(f, n, turn)
    <3> HIDE DEF turn, n
    <3> QED
      BY <1>0, <1>1, CountsExist
  <2> HIDE DEF turn
  <2>2. ASSUME NEW i \in 1..n PROVE f[i] = Waited(f[i - 1], kinds[i])
    <3>1. f[i - 1] \in Int /\ f[i] = turn[<<f[i - 1], i>>]
      BY <1>0, <2>1, <2>2, SMTT(30) DEF Counts
    <3> HIDE DEF n
    <3> QED
      BY <1>1, <2>2, <3>1
  <2>3. f \in [0..n -> Int] /\ f[0] = 0
    BY <2>1 DEF Counts
  <2>4. Is(f)
    BY <1>0, <2>2, <2>3
  <2> QED
    BY <2>3, <2>4
<1>3. Is(Waits(kinds))
  BY <1>2 DEF Waits
<1> HIDE DEF turn
<1>4. \A i \in 1..n : Waits(kinds)[i] = Waited(Waits(kinds)[i - 1], kinds[i])
  BY <1>0, <1>3
<1>5. Waits(kinds)[0] = 0 /\ DOMAIN Waits(kinds) = 0..n
  BY <1>0, <1>3
<1> DEFINE Good == [i \in 0..n |-> Int]
           waits == Waits(kinds)
<1> HIDE DEF n, waits
<1>6. \A i \in 0..n : waits[i] \in Good[i]
  <2>1. waits[0] \in Good[0]
    BY <1>0, <1>5 DEF waits
  <2>2. ASSUME NEW i \in 1..n, waits[i - 1] \in Good[i - 1] PROVE waits[i] \in Good[i]
    <3>1. waits[i - 1] \in Int
      BY <1>0, <2>2
    <3>2. waits[i] \in Int
      BY <1>1, <1>4, <3>1 DEF waits
    <3> QED
      BY <1>0, <3>2
  <2> HIDE DEF Good
  <2> QED
    BY <1>0, <2>1, <2>2, CountsKeep
<1>7. waits \in [0..n -> Int]
  <2>1. \A i \in 0..n : waits[i] \in Int
    BY <1>6
  <2>2. waits = [i \in 0..n |-> IF i = 0 THEN 0 ELSE Waited(waits[i - 1], kinds[i])]
    BY <1>3 DEF waits
  <2> QED
    BY <2>1, <2>2
<1>8. WaitCounter(kinds) = waits[n]
  BY DEF WaitCounter, Waits, waits, n
<1> QED
  BY <1>4, <1>5, <1>7, <1>8 DEF waits, n
\* A game more in the record is a game more in the counter.
LEMMA OneMoreGame ==
    ASSUME RulesAssumption, NEW kinds \in Records, NEW kind \in Kinds \cup {"none"}
    PROVE  /\ Append(kinds, kind) \in Records
           /\ WaitCounter(Append(kinds, kind)) = Waited(WaitCounter(kinds), kind)
<1> DEFINE n == Len(kinds)
           long == Append(kinds, kind)
           short == Waits(kinds)
           waits == Waits(long)
           Good == [i \in 0..n |-> {waits[i]}]
<1>0. /\ n \in Nat /\ long \in Records /\ Len(long) = n + 1 /\ long[n + 1] = kind
      /\ \A i \in 1..n : long[i] = kinds[i]
  BY DEF Records
<1>1. /\ short[0] = 0 /\ \A i \in 1..n : short[i] = Waited(short[i - 1], kinds[i])
      /\ WaitCounter(kinds) = short[n]
  BY WaitsAreCounted
<1>2. /\ waits[0] = 0 /\ \A i \in 1..(n + 1) : waits[i] = Waited(waits[i - 1], long[i])
      /\ WaitCounter(long) = waits[n + 1]
  BY <1>0, WaitsAreCounted
<1> HIDE DEF n, long, short, waits
<1>3. \A i \in 0..n : short[i] \in Good[i]
  <2>1. short[0] \in Good[0]
    BY <1>0, <1>1, <1>2
  <2>2. ASSUME NEW i \in 1..n, short[i - 1] \in Good[i - 1] PROVE short[i] \in Good[i]
    <3>1. short[i - 1] = waits[i - 1]
      BY <1>0, <2>2
    <3>2. waits[i] = Waited(waits[i - 1], kinds[i])
      BY <1>0, <1>2
    <3> QED
      BY <1>0, <1>1, <3>1, <3>2
  <2> HIDE DEF Good
  <2> QED
    BY <1>0, <2>1, <2>2, CountsKeep
<1>4. short[n] = waits[n]
  BY <1>0, <1>3
<1>5. waits[n + 1] = Waited(waits[n], kind)
  <2>1. n + 1 \in 1..(n + 1) /\ (n + 1) - 1 = n
    BY <1>0
  <2> QED
    BY <1>0, <1>2, <2>1
<1> QED
  BY <1>0, <1>1, <1>2, <1>4, <1>5 DEF long

\* What each season adds is a number, and so is what some of them add.
LEMMA SeniorityType ==
    ASSUME NEW seasons \in 1..Len(Contribution)
    PROVE  SeniorityOf(seasons) \in Int
<1> DEFINE Is(f) == f = [i \in 0..seasons |-> IF i = 0 THEN 0 ELSE f[i - 1] + Contribution[i]]
           turn == [x \in Int \X (1..seasons) |-> x[1] + Contribution[x[2]]]
           sum == CHOOSE f : Is(f)
           Good == [i \in 0..seasons |-> Int]
<1>0. seasons \in Nat /\ \A i \in 1..seasons : Contribution[i] \in Int
  <2>1. Len(Contribution) = 6 /\ \A i \in 1..6 : Contribution[i] \in Int
    BY DEF Contribution
  <2> QED
    BY <2>1
<1>1. ASSUME NEW c \in Int, NEW i \in 1..seasons
      PROVE  c + Contribution[i] \in Int /\ turn[<<c, i>>] = c + Contribution[i]
  BY <1>0, <1>1
<1>2. \E f : Is(f)
  <2>1. PICK f : Counts(f, seasons, turn)
    <3> HIDE DEF turn
    <3> QED
      BY <1>0, <1>1, CountsExist
  <2> HIDE DEF turn
  <2>2. ASSUME NEW i \in 1..seasons PROVE f[i] = f[i - 1] + Contribution[i]
    <3>1. f[i - 1] \in Int /\ f[i] = turn[<<f[i - 1], i>>]
      BY <1>0, <2>1, <2>2 DEF Counts
    <3> QED
      BY <1>1, <2>2, <3>1
  <2>3. f \in [0..seasons -> Int] /\ f[0] = 0
    BY <2>1 DEF Counts
  <2>4. Is(f)
    BY <1>0, <2>2, <2>3
  <2> QED
    BY <2>4
<1>3. Is(sum)
  BY <1>2
<1>4. SeniorityOf(seasons) = sum[seasons]
  BY DEF SeniorityOf
<1> HIDE DEF sum, turn
<1>5. sum[0] = 0 /\ \A i \in 1..seasons : sum[i] = sum[i - 1] + Contribution[i]
  BY <1>0, <1>3
<1>6. \A i \in 0..seasons : sum[i] \in Good[i]
  <2>1. sum[0] \in Good[0]
    BY <1>0, <1>5
  <2>2. ASSUME NEW i \in 1..seasons, sum[i - 1] \in Good[i - 1] PROVE sum[i] \in Good[i]
    <3>1. sum[i - 1] \in Int
      BY <1>0, <2>2
    <3> QED
      BY <1>0, <1>1, <1>5, <3>1, SMTT(30)
  <2> HIDE DEF Good
  <2> QED
    BY <1>0, <2>1, <2>2, CountsKeep
<1> QED
  BY <1>0, <1>4, <1>6

\* The most and the least of a few numbers.
LEMMA MostOfTwo ==
    ASSUME NEW a \in Int, NEW b \in Int
    PROVE  Max({a, b}) = IF a >= b THEN a ELSE b
BY DEF Max

LEMMA LeastOfThree ==
    ASSUME NEW a \in Int, NEW b \in Int, NEW c \in Int
    PROVE  /\ Min({a, b, c}) \in {a, b, c}
           /\ Min({a, b, c}) <= a /\ Min({a, b, c}) <= b /\ Min({a, b, c}) <= c
<1>1. \E x \in {a, b, c} : \A y \in {a, b, c} : x <= y
  BY SMT
<1> QED
  BY <1>1 DEF Min

-----------------------------------------------------------------------------
(* The orders of a selection, among those of a set *)

AheadIn(S, points) == {x \in S \X S : Ahead(points, x[1], x[2])}
DeservesIn(S, points, kinds) == {x \in S \X S : Deserves(points, kinds, x[1], x[2])}
GivesWayIn(S, points, kinds) == {x \in S \X S : GivesWay(points, kinds, x[1], x[2])}
BeforeIn(S) == {x \in S \X S : x[1] < x[2]}

\* What a selection of regulars is made from: some of them, their points and records.
Ranked(S, points, kinds) ==
    /\ S \subseteq Nat /\ IsFiniteSet(S)
    /\ \A p \in S : points[p] \in Int /\ kinds[p] \in Records

\* How often a record has a kind is a number.
LEMMA CountType ==
    ASSUME NEW kinds \in Records, NEW kind
    PROVE  Count(kinds, kind) \in Nat
<1>1. IsFiniteSet(DOMAIN kinds)
  <2>1. DOMAIN kinds = 1..Len(kinds) /\ Len(kinds) \in Nat
    BY DEF Records
  <2> QED
    BY <2>1, FS_Interval
<1>2. {i \in DOMAIN kinds : kinds[i] = kind} \in SUBSET (DOMAIN kinds)
  OBVIOUS
<1> QED
  BY <1>1, <1>2, FS_Subset, FS_CardinalityType DEF Count

\* A counter is a number.
LEMMA WaitCounterType ==
    ASSUME RulesAssumption, NEW kinds \in Records
    PROVE  WaitCounter(kinds) \in Int
<1>1. Len(kinds) \in 0..Len(kinds)
  BY DEF Records
<1> QED
  BY <1>1, WaitsAreCounted

\* Each of the four is an order, ties and all.
LEMMA OrdersOfSelection ==
    ASSUME RulesAssumption, NEW S, NEW points, NEW kinds, Ranked(S, points, kinds)
    PROVE  /\ Orders(AheadIn(S, points), S)
           /\ Orders(DeservesIn(S, points, kinds), S)
           /\ Orders(GivesWayIn(S, points, kinds), S)
           /\ Orders(BeforeIn(S), S)
<1>1. /\ S \subseteq Nat
      /\ \A p \in S : /\ points[p] \in Int
                      /\ WaitCounter(kinds[p]) \in Int
                      /\ Count(kinds[p], "mercy") \in Int
                      /\ Count(kinds[p], "demoted") \in Int
  BY WaitCounterType, CountType DEF Ranked
<1>2. ASSUME NEW p \in S, NEW q \in S
      PROVE  /\ <<p, q>> \in AheadIn(S, points) <=> Ahead(points, p, q)
             /\ <<p, q>> \in DeservesIn(S, points, kinds) <=> Deserves(points, kinds, p, q)
             /\ <<p, q>> \in GivesWayIn(S, points, kinds) <=> GivesWay(points, kinds, p, q)
             /\ <<p, q>> \in BeforeIn(S) <=> p < q
  BY DEF AheadIn, DeservesIn, GivesWayIn, BeforeIn
<1>3. /\ \A p \in S : ~Ahead(points, p, p)
      /\ \A p, q \in S : p # q => Ahead(points, p, q) \/ Ahead(points, q, p)
      /\ \A p, q, r \in S :
            Ahead(points, p, q) /\ Ahead(points, q, r) => Ahead(points, p, r)
  BY <1>1 DEF Ahead
<1>4. /\ \A p \in S : ~Deserves(points, kinds, p, p)
      /\ \A p, q \in S :
            p # q => Deserves(points, kinds, p, q) \/ Deserves(points, kinds, q, p)
      /\ \A p, q, r \in S :
            Deserves(points, kinds, p, q) /\ Deserves(points, kinds, q, r)
            => Deserves(points, kinds, p, r)
  BY <1>1, <1>3 DEF Deserves
<1>5. /\ \A p \in S : ~GivesWay(points, kinds, p, p)
      /\ \A p, q \in S :
            p # q => GivesWay(points, kinds, p, q) \/ GivesWay(points, kinds, q, p)
      /\ \A p, q, r \in S :
            GivesWay(points, kinds, p, q) /\ GivesWay(points, kinds, q, r)
            => GivesWay(points, kinds, p, r)
  BY <1>1, <1>3 DEF GivesWay
<1>6. Orders(AheadIn(S, points), S)
  BY <1>2, <1>3 DEF Orders
<1>7. Orders(DeservesIn(S, points, kinds), S)
  BY <1>2, <1>4 DEF Orders
<1>8. Orders(GivesWayIn(S, points, kinds), S)
  BY <1>2, <1>5 DEF Orders
<1>9. Orders(BeforeIn(S), S)
  BY <1>1, <1>2 DEF Orders
<1> QED
  BY <1>6, <1>7, <1>8, <1>9

\* The lists a selection cuts are the first of those orders.
LEMMA CutsAreFirst ==
    ASSUME NEW S, NEW points, NEW kinds, NEW n
    PROVE  /\ Inside(S, points) = First(S, Rules.slots, AheadIn(S, points))
           /\ LET C == Candidates(S, points, kinds)
              IN Promotees(S, points, kinds)
                   = First(C, Swaps(S, points, kinds), DeservesIn(C, points, kinds))
           /\ LET I == Inside(S, points)
              IN Demotees(S, points, kinds)
                   = First(I, Swaps(S, points, kinds), GivesWayIn(I, points, kinds))
           /\ FirstOf(S, n, LAMBDA g, h : g < h) = First(S, n, BeforeIn(S))
<1>1. ASSUME NEW T, NEW m
      PROVE  FirstOf(T, m, LAMBDA p, q : Ahead(points, p, q)) = First(T, m, AheadIn(T, points))
  <2>1. ASSUME NEW p \in T
        PROVE  {q \in T : Ahead(points, q, p)} = {q \in T : <<q, p>> \in AheadIn(T, points)}
    BY DEF AheadIn
  <2>2. ASSUME NEW p \in T
        PROVE  Cardinality({q \in T : Ahead(points, q, p)}) = Rank(T, AheadIn(T, points), p)
    BY <2>1 DEF Rank
  <2>3. {p \in T : Cardinality({q \in T : Ahead(points, q, p)}) < m}
        = {p \in T : Rank(T, AheadIn(T, points), p) < m}
    BY <2>2, Zenon
  <2> QED
    BY <2>3 DEF FirstOf, First
<1>2. ASSUME NEW T, NEW m
      PROVE  FirstOf(T, m, LAMBDA p, q : Deserves(points, kinds, p, q))
               = First(T, m, DeservesIn(T, points, kinds))
  <2>1. ASSUME NEW p \in T
        PROVE  {q \in T : Deserves(points, kinds, q, p)}
                 = {q \in T : <<q, p>> \in DeservesIn(T, points, kinds)}
    BY DEF DeservesIn
  <2>2. ASSUME NEW p \in T
        PROVE  Cardinality({q \in T : Deserves(points, kinds, q, p)})
                 = Rank(T, DeservesIn(T, points, kinds), p)
    BY <2>1 DEF Rank
  <2>3. {p \in T : Cardinality({q \in T : Deserves(points, kinds, q, p)}) < m}
        = {p \in T : Rank(T, DeservesIn(T, points, kinds), p) < m}
    BY <2>2, Zenon
  <2> QED
    BY <2>3 DEF FirstOf, First
<1>3. ASSUME NEW T, NEW m
      PROVE  FirstOf(T, m, LAMBDA p, q : GivesWay(points, kinds, p, q))
               = First(T, m, GivesWayIn(T, points, kinds))
  <2>1. ASSUME NEW p \in T
        PROVE  {q \in T : GivesWay(points, kinds, q, p)}
                 = {q \in T : <<q, p>> \in GivesWayIn(T, points, kinds)}
    BY DEF GivesWayIn
  <2>2. ASSUME NEW p \in T
        PROVE  Cardinality({q \in T : GivesWay(points, kinds, q, p)})
                 = Rank(T, GivesWayIn(T, points, kinds), p)
    BY <2>1 DEF Rank
  <2>3. {p \in T : Cardinality({q \in T : GivesWay(points, kinds, q, p)}) < m}
        = {p \in T : Rank(T, GivesWayIn(T, points, kinds), p) < m}
    BY <2>2, Zenon
  <2> QED
    BY <2>3 DEF FirstOf, First
<1>4. FirstOf(S, n, LAMBDA g, h : g < h) = First(S, n, BeforeIn(S))
  <2>1. ASSUME NEW p \in S
        PROVE  {q \in S : q < p} = {q \in S : <<q, p>> \in BeforeIn(S)}
    BY DEF BeforeIn
  <2>2. ASSUME NEW p \in S
        PROVE  Cardinality({q \in S : q < p}) = Rank(S, BeforeIn(S), p)
    BY <2>1 DEF Rank
  <2>3. {p \in S : Cardinality({q \in S : q < p}) < n} = {p \in S : Rank(S, BeforeIn(S), p) < n}
    BY <2>2, Zenon
  <2> QED
    BY <2>3 DEF FirstOf, First
<1> QED
  BY <1>1, <1>2, <1>3, <1>4 DEF Inside, Promotees, Demotees

-----------------------------------------------------------------------------
(* A selection: its seats are fair, and each can be explained *)

\* The cut is as long as the slots; as many give up a seat as earn one by waiting.
LEMMA SwapsFit ==
    ASSUME RulesAssumption, NEW S, NEW points, NEW kinds, Ranked(S, points, kinds),
           Cardinality(S) > Rules.slots
    PROVE  LET I == Inside(S, points)
               C == Candidates(S, points, kinds)
               P == Promotees(S, points, kinds)
               D == Demotees(S, points, kinds)
           IN /\ I \subseteq S /\ IsFiniteSet(I) /\ Cardinality(I) = Rules.slots
              /\ C \subseteq S \ I /\ Ranked(C, points, kinds) /\ Ranked(I, points, kinds)
              /\ Swaps(S, points, kinds) \in Nat
              /\ P \subseteq C /\ IsFiniteSet(P) /\ Cardinality(P) = Swaps(S, points, kinds)
              /\ D \subseteq I /\ IsFiniteSet(D) /\ Cardinality(D) = Swaps(S, points, kinds)
<1> DEFINE I == Inside(S, points)
           C == Candidates(S, points, kinds)
           P == Promotees(S, points, kinds)
           D == Demotees(S, points, kinds)
           n == Swaps(S, points, kinds)
<1>1. Rules.slots \in Nat /\ Rules.mercySeats \in Nat
  BY DEF RulesAssumption, RulesType
<1>2. IsFiniteSet(S) /\ Cardinality(S) \in Nat
  BY FS_CardinalityType DEF Ranked
<1>3. I = First(S, Rules.slots, AheadIn(S, points)) /\ I \subseteq S
  <2>1. I = First(S, Rules.slots, AheadIn(S, points))
    BY CutsAreFirst
  <2> QED
    BY <2>1 DEF First
<1>4. IsFiniteSet(I) /\ Cardinality(I) = Rules.slots
  <2>1. Orders(AheadIn(S, points), S)
    BY OrdersOfSelection
  <2>2. /\ IsFiniteSet(I)
        /\ Cardinality(I) = Least(Rules.slots, Cardinality(S))
    BY <1>1, <1>2, <1>3, <2>1, FirstAreAsMany
  <2> QED
    BY <1>1, <1>2, <2>2 DEF Least
<1>5. C \subseteq S \ I
  BY DEF Candidates
<1>6. IsFiniteSet(C) /\ Cardinality(C) \in Nat
  BY <1>2, <1>5, FS_Subset, FS_CardinalityType
<1>7. Ranked(C, points, kinds) /\ Ranked(I, points, kinds)
  BY <1>3, <1>4, <1>5, <1>6 DEF Ranked
<1>8. n \in Nat /\ n <= Rules.slots /\ n <= Cardinality(C)
  <2>1. n = Min({Rules.mercySeats, Rules.slots, Cardinality(C)})
    BY DEF Swaps
  <2>2. ASSUME NEW a \in Nat, NEW b \in Nat, NEW c \in Nat
        PROVE  Min({a, b, c}) \in Nat /\ Min({a, b, c}) <= b /\ Min({a, b, c}) <= c
    <3>1. a \in Int /\ b \in Int /\ c \in Int
      OBVIOUS
    <3>2. /\ Min({a, b, c}) \in {a, b, c}
          /\ Min({a, b, c}) <= b /\ Min({a, b, c}) <= c
      BY <3>1, LeastOfThree, Zenon
    <3> QED
      BY <3>2
  <2> HIDE DEF n, C
  <2> QED
    BY <1>1, <1>6, <2>1, <2>2
<1>9. P \subseteq C /\ IsFiniteSet(P) /\ Cardinality(P) = n
  <2>1. Orders(DeservesIn(C, points, kinds), C)
    BY <1>7, OrdersOfSelection
  <2>2. P = First(C, n, DeservesIn(C, points, kinds))
    BY CutsAreFirst
  <2>3. IsFiniteSet(P) /\ Cardinality(P) = Least(n, Cardinality(C))
    BY <1>6, <1>8, <2>1, <2>2, FirstAreAsMany
  <2> QED
    BY <1>6, <1>8, <2>2, <2>3 DEF Least, First
<1>10. D \subseteq I /\ IsFiniteSet(D) /\ Cardinality(D) = n
  <2>1. Orders(GivesWayIn(I, points, kinds), I)
    BY <1>7, OrdersOfSelection
  <2>2. D = First(I, n, GivesWayIn(I, points, kinds))
    BY CutsAreFirst
  <2>3. IsFiniteSet(D) /\ Cardinality(D) = Least(n, Cardinality(I))
    BY <1>4, <1>8, <2>1, <2>2, FirstAreAsMany
  <2> QED
    BY <1>1, <1>4, <1>8, <2>2, <2>3 DEF Least, First
<1> QED
  BY <1>3, <1>4, <1>5, <1>7, <1>8, <1>9, <1>10

\* What SeatsAreFair says of a game, of any selection.
Fair(signedUp, guests, selection) ==
    LET seats == selection.in
        waiting == (signedUp \cup guests) \ seats
    IN /\ Cardinality(seats) <= Rules.slots
       /\ waiting # {} => Cardinality(seats) = Rules.slots
       /\ waiting \cap Players # {} => seats \cap Guests = {}
       /\ Cardinality(selection.demoted) = Cardinality(selection.mercy)
       /\ selection.demoted \subseteq waiting

\* What EachSeatIsJustified says of a step, of any selection.
Justified(signedUp, selection, points, kinds) ==
    \A p \in signedUp \ selection.in, q \in selection.in \cap Players :
       MayPlayBefore(selection, points, kinds, q, p)

\* Whose counter does not let them be a candidate has waited less than any candidate; and
\* a candidate without a mercy seat, no more than those who have one.
LEMMA MercyWaitedMore ==
    ASSUME RulesAssumption, NEW S, NEW points, NEW kinds, Ranked(S, points, kinds),
           Cardinality(S) > Rules.slots,
           NEW p \in S \ (Inside(S, points) \cup Promotees(S, points, kinds)),
           NEW q \in Promotees(S, points, kinds)
    PROVE  WaitCounter(kinds[q]) >= Max({Rules.gamesOutForMercy, WaitCounter(kinds[p])})
<1> DEFINE C == Candidates(S, points, kinds)
           n == Swaps(S, points, kinds)
<1>1. Rules.gamesOutForMercy \in Int
  BY DEF RulesAssumption, RulesType
<1>2. q \in C /\ Ranked(C, points, kinds) /\ n \in Nat /\ C \subseteq S
  BY SwapsFit
<1>3. WaitCounter(kinds[p]) \in Int /\ WaitCounter(kinds[q]) \in Int
  BY <1>2, WaitCounterType DEF Ranked
<1>4. WaitCounter(kinds[q]) >= Rules.gamesOutForMercy
  BY <1>2 DEF Candidates
<1>5. WaitCounter(kinds[q]) >= WaitCounter(kinds[p])
  <2>1. CASE p \in C
    <3>1. Promotees(S, points, kinds) = First(C, n, DeservesIn(C, points, kinds))
      BY CutsAreFirst
    <3>2. Orders(DeservesIn(C, points, kinds), C) /\ IsFiniteSet(C)
      BY <1>2, OrdersOfSelection DEF Ranked
    <3>3. q \in First(C, n, DeservesIn(C, points, kinds))
          /\ p \in C \ First(C, n, DeservesIn(C, points, kinds))
      BY <2>1, <3>1
    <3>4. <<q, p>> \in DeservesIn(C, points, kinds)
      BY <1>2, <3>2, <3>3, FirstGoBefore
    <3> QED
      BY <1>3, <3>4 DEF DeservesIn, Deserves
  <2>2. CASE p \notin C
    <3>1. ~(WaitCounter(kinds[p]) >= Rules.gamesOutForMercy)
      BY <2>2 DEF Candidates
    <3> QED
      BY <1>1, <1>3, <1>4, <3>1
  <2> QED
    BY <2>1, <2>2
<1> QED
  BY <1>1, <1>3, <1>4, <1>5, MostOfTwo

\* When the regulars overflow the slots.
LEMMA ByPointsIsFair ==
    ASSUME RulesAssumption, SeasonAssumption, NEW S \in SUBSET Players,
           NEW guests \in SUBSET Guests, NEW points, NEW kinds, Ranked(S, points, kinds),
           Cardinality(S) > Rules.slots
    PROVE  LET selection == ByPoints(S, points, kinds)
           IN /\ selection \in Seats /\ selection.in \subseteq S
              /\ Fair(S, guests, selection)
              /\ Justified(S, selection, points, kinds)
<1> DEFINE I == Inside(S, points)
           C == Candidates(S, points, kinds)
           P == Promotees(S, points, kinds)
           D == Demotees(S, points, kinds)
           n == Swaps(S, points, kinds)
           selection == ByPoints(S, points, kinds)
<1>1. /\ I \subseteq S /\ IsFiniteSet(I) /\ Cardinality(I) = Rules.slots
      /\ C \subseteq S \ I /\ Ranked(I, points, kinds) /\ n \in Nat
      /\ P \subseteq C /\ IsFiniteSet(P) /\ Cardinality(P) = n
      /\ D \subseteq I /\ IsFiniteSet(D) /\ Cardinality(D) = n
  BY SwapsFit
<1>2. selection = [in |-> (I \ D) \cup P, mercy |-> P, demoted |-> D]
  BY DEF ByPoints
<1> HIDE DEF I, C, P, D, n, selection
<1>3. selection.in = (I \ D) \cup P /\ selection.mercy = P /\ selection.demoted = D
  BY <1>2
<1>4. Rules.slots \in Nat
  BY DEF RulesAssumption, RulesType
<1>5. Cardinality(selection.in) = Rules.slots
  <2>1. IsFiniteSet(I \ D) /\ Cardinality(I \ D) = Cardinality(I) - Cardinality(I \cap D)
    BY <1>1, FS_Difference
  <2>2. I \cap D = D /\ (I \ D) \cap P = {}
    BY <1>1
  <2>3. Cardinality((I \ D) \cup P)
        = Cardinality(I \ D) + Cardinality(P) - Cardinality((I \ D) \cap P)
    BY <1>1, <2>1, FS_Union
  <2>4. Cardinality((I \ D) \cap P) = 0
    BY <2>2, FS_EmptySet
  <2>5. Cardinality(I \cap D) = n
    BY <1>1, <2>2
  <2>6. Cardinality(I \ D) = Rules.slots - n
    BY <1>1, <2>1, <2>5
  <2>7. Cardinality((I \ D) \cup P) = (Rules.slots - n) + n - 0
    BY <1>1, <2>3, <2>4, <2>6
  <2> QED
    BY <1>1, <1>3, <1>4, <2>7
<1>6. selection \in Seats /\ selection.in \subseteq S
  BY <1>1, <1>2 DEF Seats
<1>7. selection.in \cap Guests = {}
  BY <1>6 DEF SeasonAssumption
<1>8. Fair(S, guests, selection)
  <2>1. D \subseteq (S \cup guests) \ selection.in
    BY <1>1, <1>3
  <2> QED
    BY <1>1, <1>3, <1>4, <1>5, <1>7, <2>1 DEF Fair
<1>9. ASSUME NEW p \in S \ selection.in, NEW q \in selection.in \cap Players
      PROVE  MayPlayBefore(selection, points, kinds, q, p)
  <2>0. points[p] \in Int /\ points[q] \in Int
    BY <1>6 DEF Ranked
  <2>1. ASSUME NEW r \in I, NEW s \in S \ I PROVE points[r] >= points[s]
    <3>1. I = First(S, Rules.slots, AheadIn(S, points))
      BY CutsAreFirst DEF I
    <3>2. Orders(AheadIn(S, points), S) /\ IsFiniteSet(S)
      BY OrdersOfSelection DEF Ranked
    <3>3. <<r, s>> \in AheadIn(S, points)
      BY <1>4, <2>1, <3>1, <3>2, FirstGoBefore
    <3>4. points[r] \in Int /\ points[s] \in Int
      BY <1>1, <2>1 DEF Ranked
    <3> QED
      BY <3>3, <3>4 DEF AheadIn, Ahead
  <2>2. CASE p \in D /\ q \in P
    <3>1. points[p] >= points[q]
      BY <1>1, <2>1, <2>2
    <3> QED
      BY <1>3, <2>2, <3>1 DEF MayPlayBefore
  <2>3. CASE p \in D /\ q \notin P
    <3>1. D = First(I, n, GivesWayIn(I, points, kinds))
      BY CutsAreFirst DEF D, I, n
    <3>2. Orders(GivesWayIn(I, points, kinds), I)
      BY <1>1, OrdersOfSelection
    <3>3. p \in D /\ q \in I \ D
      BY <1>3, <2>3
    <3>4. <<p, q>> \in GivesWayIn(I, points, kinds)
      BY <1>1, <3>1, <3>2, <3>3, FirstGoBefore
    <3>5. Count(kinds[p], "demoted") \in Nat /\ Count(kinds[q], "demoted") \in Nat
      BY <1>1, <3>3, CountType DEF Ranked
    <3>6. Count(kinds[p], "demoted") <= Count(kinds[q], "demoted")
      BY <3>4, <3>5 DEF GivesWayIn, GivesWay
    <3> QED
      BY <1>3, <2>3, <3>6 DEF MayPlayBefore
  <2>4. CASE p \notin D /\ q \in P
    <3>1. p \in S \ (I \cup P)
      BY <1>3, <2>4
    <3>2. WaitCounter(kinds[q]) >= Max({Rules.gamesOutForMercy, WaitCounter(kinds[p])})
      BY <2>4, <3>1, MercyWaitedMore DEF I, P
    <3> QED
      BY <1>3, <2>4, <3>2 DEF MayPlayBefore
  <2>5. CASE p \notin D /\ q \notin P
    <3>1. q \in I /\ p \in S \ I
      BY <1>3, <2>5
    <3>2. points[q] >= points[p]
      BY <2>1, <3>1
    <3> QED
      BY <1>3, <2>5, <3>2 DEF MayPlayBefore
  <2> QED
    BY <2>2, <2>3, <2>4, <2>5
<1>10. Justified(S, selection, points, kinds)
  BY <1>9 DEF Justified
<1> QED
  BY <1>6, <1>8, <1>10 DEF selection

\* When they fit.
LEMMA ByArrivalIsFair ==
    ASSUME RulesAssumption, SeasonAssumption, NEW S \in SUBSET Players,
           NEW guests \in SUBSET Guests, NEW points, NEW kinds,
           Cardinality(S) <= Rules.slots
    PROVE  LET selection == ByArrival(S, guests)
           IN /\ selection \in Seats /\ selection.in \subseteq S \cup guests
              /\ Fair(S, guests, selection)
              /\ Justified(S, selection, points, kinds)
<1> DEFINE open == Max({0, Rules.slots - Cardinality(S)})
           G == First(guests, open, BeforeIn(guests))
           selection == ByArrival(S, guests)
<1>0. /\ IsFiniteSet(S) /\ Cardinality(S) \in Nat
      /\ IsFiniteSet(guests) /\ Cardinality(guests) \in Nat
      /\ guests \subseteq Nat /\ S \cap guests = {} /\ Rules.slots \in Nat
  BY FS_Subset, FS_CardinalityType DEF SeasonAssumption, RulesAssumption, RulesType
<1>1. open = Rules.slots - Cardinality(S) /\ open \in Nat
  <2>1. Rules.slots - Cardinality(S) \in Int /\ Rules.slots - Cardinality(S) >= 0
    BY <1>0
  <2> QED
    BY <2>1, MostOfTwo
<1>2. selection = [in |-> S \cup G, mercy |-> {}, demoted |-> {}]
  <2>1. FirstOf(guests, open, LAMBDA g, h : g < h) = G
    BY CutsAreFirst
  <2> QED
    BY <2>1 DEF ByArrival
<1>3. Orders(BeforeIn(guests), guests)
  BY <1>0 DEF Orders, BeforeIn
<1> HIDE DEF open, selection
<1>4. IsFiniteSet(G) /\ Cardinality(G) = Least(open, Cardinality(guests)) /\ G \subseteq guests
  <2>1. G \subseteq guests
    BY DEF First
  <2> QED
    BY <1>0, <1>1, <1>3, <2>1, FirstAreAsMany
<1> HIDE DEF G
<1>5. selection.in = S \cup G /\ selection.mercy = {} /\ selection.demoted = {}
  BY <1>2
<1>6. Cardinality(selection.in) = Cardinality(S) + Least(open, Cardinality(guests))
  <2>1. S \cap G = {} /\ Cardinality(S \cap G) = 0
    BY <1>0, <1>4, FS_EmptySet
  <2>2. Cardinality(S \cup G) = Cardinality(S) + Cardinality(G) - Cardinality(S \cap G)
    BY <1>0, <1>4, FS_Union
  <2>3. Least(open, Cardinality(guests)) \in Nat
    BY <1>0, <1>1 DEF Least
  <2> QED
    BY <1>0, <1>4, <1>5, <2>1, <2>2, <2>3
<1>7. Cardinality(selection.in) <= Rules.slots
  BY <1>0, <1>1, <1>6 DEF Least
<1>8. ASSUME (S \cup guests) \ selection.in # {} PROVE Cardinality(selection.in) = Rules.slots
  <2>1. Cardinality(G) # Cardinality(guests)
    BY <1>0, <1>4, <1>5, <1>8, FS_Subset
  <2>2. Least(open, Cardinality(guests)) = open
    BY <1>4, <2>1 DEF Least
  <2> QED
    BY <1>0, <1>1, <1>6, <2>2
<1>9. ((S \cup guests) \ selection.in) \cap Players = {}
  BY <1>5 DEF SeasonAssumption
<1>10. Fair(S, guests, selection)
  BY <1>5, <1>7, <1>8, <1>9 DEF Fair
<1>11. selection \in Seats /\ selection.in \subseteq S \cup guests
  BY <1>2, <1>4 DEF Seats
<1>12. Justified(S, selection, points, kinds)
  BY <1>5 DEF Justified
<1> QED
  BY <1>10, <1>11, <1>12 DEF selection

\* Whichever way, a selection is one: of those who came, fair, and each seat explained.
LEMMA SelectionIsFair ==
    ASSUME RulesAssumption, SeasonAssumption, NEW S \in SUBSET Players,
           NEW guests \in SUBSET Guests, NEW points \in [Players -> Int],
           NEW kinds \in [Players -> Records]
    PROVE  LET selection == Selected(S, guests, points, kinds)
           IN /\ selection \in Seats /\ selection.in \subseteq S \cup guests
              /\ Fair(S, guests, selection)
              /\ Justified(S, selection, points, kinds)
<1>1. Ranked(S, points, kinds)
  <2>1. IsFiniteSet(S) /\ S \subseteq Nat
    BY FS_Subset DEF SeasonAssumption
  <2> QED
    BY <2>1 DEF Ranked
<1>2. CASE Cardinality(S) <= Rules.slots
  <2>1. Selected(S, guests, points, kinds) = ByArrival(S, guests)
    BY <1>2 DEF Selected
  <2> QED
    BY <1>2, <2>1, ByArrivalIsFair
<1>3. CASE ~(Cardinality(S) <= Rules.slots)
  <2>1. Selected(S, guests, points, kinds) = ByPoints(S, points, kinds)
    BY <1>3 DEF Selected
  <2>2. Cardinality(S) > Rules.slots
    BY <1>1, <1>3, FS_CardinalityType DEF Ranked, RulesAssumption, RulesType
  <2>3. LET selection == ByPoints(S, points, kinds)
        IN /\ selection \in Seats /\ selection.in \subseteq S
           /\ Fair(S, guests, selection)
           /\ Justified(S, selection, points, kinds)
    BY <1>1, <2>2, ByPointsIsFair
  <2> QED
    BY <2>1, <2>3
<1> QED
  BY <1>2, <1>3

-----------------------------------------------------------------------------
(* The season: types, and what a game leaves *)

Mark == [signedUp : BOOLEAN, playing : BOOLEAN, kind : Kinds \cup {"none"}]

\* A game scores for exactly those who signed up and did not play.
Agrees(mark) ==
    /\ mark.signedUp => (mark.playing <=> ~Scores(mark.kind))
    /\ ~mark.signedUp => ~mark.playing /\ mark.kind = "none"

MarksAgree == \A p \in Players : \A i \in DOMAIN record[p] : Agrees(record[p][i])

\* What a game leaves of a regular.
MarkOf(signedUp, selection, playing, p) ==
    IF p \in signedUp
    THEN [signedUp |-> TRUE, playing |-> p \in playing, kind |-> KindOf(selection, playing, p)]
    ELSE Away

Typed == /\ TypeOK
         /\ record \in [Players -> Seq(Mark)]
         /\ unpaid \in [Players -> Nat]

Inv == Typed /\ MarksAgree /\ SeatsAreFair

\* What a selection is made from is of its type.
LEMMA StandingsType ==
    ASSUME SeasonAssumption, Typed
    PROVE  PointsNow \in [Players -> Int] /\ KindsNow \in [Players -> Records]
<1>1. ASSUME NEW p \in Players PROVE KindsOf(p) \in Records
  <2>1. /\ Len(record[p]) \in Nat /\ DOMAIN record[p] = 1..Len(record[p])
        /\ \A i \in 1..Len(record[p]) : record[p][i].kind \in Kinds \cup {"none"}
    <3>1. record[p] \in Seq(Mark)
      BY DEF Typed
    <3>2. \A i \in 1..Len(record[p]) : record[p][i] \in Mark
      BY <3>1
    <3>3. \A m \in Mark : m.kind \in Kinds \cup {"none"}
      BY DEF Mark
    <3> QED
      BY <3>1, <3>2, <3>3
  <2>2. KindsOf(p) \in [1..Len(record[p]) -> Kinds \cup {"none"}]
    BY <2>1 DEF KindsOf
  <2> QED
    BY <2>1, <2>2 DEF Records
<1>2. ASSUME NEW p \in Players
      PROVE  Points(PaidGames(p), KindsOf(p), Seasons[p]) \in Int
  <2>1. Len(record[p]) \in Nat /\ DOMAIN record[p] = 1..Len(record[p])
    BY DEF Typed
  <2>2. DOMAIN KindsOf(p) = 1..Len(record[p])
    BY <2>1 DEF KindsOf
  <2>3. IsFiniteSet(1..Len(record[p]))
    BY <2>1, FS_Interval
  <2>4. /\ Cardinality({i \in DOMAIN record[p] : record[p][i].playing}) \in Nat
        /\ Exclusions(KindsOf(p)) \in Nat
    BY <2>1, <2>2, <2>3, FS_Subset, FS_CardinalityType DEF Exclusions
  <2>5. SeniorityOf(Seasons[p]) \in Int
    BY SeniorityType DEF SeasonAssumption
  <2>6. unpaid[p] \in Nat
    BY DEF Typed
  <2> QED
    BY <2>4, <2>5, <2>6 DEF Points, PaidGames
<1> QED
  BY <1>1, <1>2 DEF PointsNow, KindsNow

\* The kind a game leaves: it scores for who did not play, and it is a mercy seat's only
\* for one the selection gave it to.
LEMMA KindsAreMarked ==
    ASSUME NEW selection, NEW playing, NEW p
    PROVE  /\ KindOf(selection, playing, p) \in Kinds \cup {"none"}
           /\ p \in playing <=> ~Scores(KindOf(selection, playing, p))
           /\ KindOf(selection, playing, p) = "mercy" => p \in selection.mercy
BY DEF KindOf, Kinds, Scores

\* Each record is a game longer.
LEMMA GameIsMarked ==
    ASSUME Typed, NEW signedUp, NEW guests, NEW selection, NEW playing, NEW late,
           Played(signedUp, guests, selection, playing, late), NEW p \in Players
    PROVE  LET n == Len(record[p])
               mark == MarkOf(signedUp, selection, playing, p)
           IN /\ n \in Nat /\ DOMAIN record[p] = 1..n
              /\ mark \in Mark /\ Agrees(mark)
              /\ mark.kind = "mercy" => p \in selection.mercy
              /\ record'[p] \in Seq(Mark) /\ Len(record'[p]) = n + 1
              /\ DOMAIN record'[p] = 1..(n + 1)
              /\ \A i \in 1..n : record'[p][i] = record[p][i]
              /\ record'[p][n + 1] = mark
<1> DEFINE mark == MarkOf(signedUp, selection, playing, p)
<1>1. record[p] \in Seq(Mark)
  BY DEF Typed
<1>2. mark \in Mark /\ Agrees(mark) /\ (mark.kind = "mercy" => p \in selection.mercy)
  <2>1. CASE p \in signedUp
    <3>1. mark = [signedUp |-> TRUE, playing |-> p \in playing,
                  kind |-> KindOf(selection, playing, p)]
      BY <2>1 DEF MarkOf
    <3>2. /\ KindOf(selection, playing, p) \in Kinds \cup {"none"}
          /\ p \in playing <=> ~Scores(KindOf(selection, playing, p))
          /\ KindOf(selection, playing, p) = "mercy" => p \in selection.mercy
      BY KindsAreMarked
    <3>3. (p \in playing) \in BOOLEAN
      OBVIOUS
    <3> HIDE DEF mark
    <3> QED
      BY <3>1, <3>2, <3>3 DEF Mark, Agrees
  <2>2. CASE p \notin signedUp
    BY <2>2 DEF MarkOf, Away, Mark, Agrees, Kinds
  <2> QED
    BY <2>1, <2>2
<1>3. record'[p] = Append(record[p], mark)
  BY DEF Played, MarkOf
<1> HIDE DEF mark
<1>4. /\ record'[p] \in Seq(Mark) /\ Len(record'[p]) = Len(record[p]) + 1
      /\ \A i \in 1..Len(record[p]) : record'[p][i] = record[p][i]
      /\ record'[p][Len(record[p]) + 1] = mark
  BY <1>1, <1>2, <1>3
<1>5. Len(record[p]) \in Nat /\ DOMAIN record[p] = 1..Len(record[p])
  BY <1>1
<1>6. DOMAIN record'[p] = 1..(Len(record[p]) + 1)
  BY <1>4
<1> QED
  BY <1>2, <1>4, <1>5, <1>6 DEF mark

\* A game settled: what it has of the selection, whom it may seat, and whose late payment
\* it leaves.
LEMMA PlayIsOfASelection ==
    ASSUME RulesAssumption, SeasonAssumption, Typed,
           NEW signedUp \in SUBSET Players, NEW guests \in SUBSET Guests,
           Play(signedUp, guests)
    PROVE  \E selection, playing, late :
              /\ Played(signedUp, guests, selection, playing, late)
              /\ selection = Selected(signedUp, guests, PointsNow, KindsNow)
              /\ selection \in Seats
              /\ Fair(signedUp, guests, selection)
              /\ Justified(signedUp, selection, PointsNow, KindsNow)
              /\ playing \subseteq signedUp \cup guests
              /\ playing # selection.in => corrected < Corrections
              /\ late \subseteq playing \cap LatePayers
<1> DEFINE sel == Selected(signedUp, guests, PointsNow, KindsNow)
<1>1. PICK playing \in Settled(sel, signedUp \cup guests) :
           \E late \in SUBSET (playing \cap LatePayers) :
              Played(signedUp, guests, sel, playing, late)
  BY DEF Play
<1>2. PICK late \in SUBSET (playing \cap LatePayers) :
              Played(signedUp, guests, sel, playing, late)
  BY <1>1
<1>3. /\ sel \in Seats /\ sel.in \subseteq signedUp \cup guests
      /\ Fair(signedUp, guests, sel)
      /\ Justified(signedUp, sel, PointsNow, KindsNow)
  BY StandingsType, SelectionIsFair
<1> HIDE DEF sel
<1>4. playing \subseteq signedUp \cup guests /\ (playing # sel.in => corrected < Corrections)
  BY <1>1, <1>3 DEF Settled
<1> QED
  BY <1>2, <1>3, <1>4 DEF sel

\* At first nobody has played, nor is anybody out.
LEMMA InitInv == ASSUME RulesAssumption, SeasonAssumption PROVE Init => Inv
<1> SUFFICES ASSUME Init PROVE Inv
  OBVIOUS
<1>1. Typed
  <2>1. record \in [Players -> Seq(Mark)] /\ \A p \in Players : record[p] = <<>>
    BY DEF Init
  <2>2. unpaid \in [Players -> Nat] /\ \A p \in Players : unpaid[p] \in 0..Len(record[p])
    BY DEF Init
  <2>3. game \in [signedUp : SUBSET Players, guests : SUBSET Guests,
                  selection : Seats, playing : SUBSET (Players \cup Guests)]
    BY DEF Init, NoGame, Seats
  <2>4. corrected \in 0..Corrections
    BY DEF Init, SeasonAssumption
  <2> QED
    BY <2>1, <2>2, <2>3, <2>4 DEF Typed, TypeOK, Mark
<1>2. MarksAgree
  BY DEF Init, MarksAgree
<1>3. SeatsAreFair
  <2>1. Cardinality({}) = 0 /\ 0 <= Rules.slots
    BY FS_EmptySet DEF RulesAssumption, RulesType
  <2> QED
    BY <2>1 DEF Init, NoGame, SeatsAreFair
<1> QED
  BY <1>1, <1>2, <1>3 DEF Inv

\* A game keeps the types.
LEMMA PlayType ==
    ASSUME RulesAssumption, SeasonAssumption, Typed,
           NEW signedUp \in SUBSET Players, NEW guests \in SUBSET Guests,
           Play(signedUp, guests)
    PROVE  Typed'
<1>1. PICK selection, playing, late :
              /\ Played(signedUp, guests, selection, playing, late)
              /\ selection \in Seats
              /\ playing \subseteq signedUp \cup guests
              /\ playing # selection.in => corrected < Corrections
              /\ late \subseteq playing \cap LatePayers
  BY PlayIsOfASelection
<1>2. game' \in [signedUp : SUBSET Players, guests : SUBSET Guests,
                 selection : Seats, playing : SUBSET (Players \cup Guests)]
  BY <1>1 DEF Played
<1>3. corrected' \in 0..Corrections
  BY <1>1 DEF Played, Typed, TypeOK, SeasonAssumption
<1>4. /\ \A p \in Players : record'[p] \in Seq(Mark)
      /\ \A p \in Players : Len(record'[p]) \in Nat /\ Len(record[p]) \in Nat
                            /\ Len(record'[p]) = Len(record[p]) + 1
  <2>1. ASSUME NEW p \in Players
        PROVE  /\ record'[p] \in Seq(Mark)
               /\ Len(record'[p]) \in Nat /\ Len(record[p]) \in Nat
               /\ Len(record'[p]) = Len(record[p]) + 1
    <3>1. /\ Len(record[p]) \in Nat
          /\ record'[p] \in Seq(Mark) /\ Len(record'[p]) = Len(record[p]) + 1
      BY <1>1, GameIsMarked
    <3> QED
      BY <3>1
  <2> QED
    BY <2>1
<1>5. record' \in [Players -> Seq(Mark)]
  <2>1. DOMAIN record' = Players /\ record' = [p \in Players |-> record'[p]]
    BY <1>1 DEF Played
  <2> QED
    BY <1>4, <2>1
<1>6. ASSUME NEW p \in Players
      PROVE  unpaid'[p] \in Nat /\ unpaid'[p] \in 0..Len(record'[p])
  <2>1. unpaid[p] \in 0..Len(record[p]) /\ unpaid'[p] = IF p \in late THEN unpaid[p] + 1 ELSE unpaid[p]
    BY <1>1 DEF Typed, TypeOK, Played
  <2> QED
    BY <1>4, <2>1
<1>7. unpaid' \in [Players -> Nat]
  BY <1>1, <1>6 DEF Played
<1> QED
  BY <1>2, <1>3, <1>4, <1>5, <1>6, <1>7 DEF Typed, TypeOK, Mark

\* A game is played by exactly those it does not score for, and its seats are fair.
LEMMA PlayInv ==
    ASSUME RulesAssumption, SeasonAssumption, Inv,
           NEW signedUp \in SUBSET Players, NEW guests \in SUBSET Guests,
           Play(signedUp, guests)
    PROVE  Inv' /\ EachSeatIsJustified
<1>0. Typed
  BY DEF Inv
<1>1. PICK selection, playing, late :
              /\ Played(signedUp, guests, selection, playing, late)
              /\ Fair(signedUp, guests, selection)
              /\ Justified(signedUp, selection, PointsNow, KindsNow)
  BY <1>0, PlayIsOfASelection
<1>2. Typed'
  BY <1>0, PlayType
<1>3. MarksAgree'
  <2>1. ASSUME NEW p \in Players, NEW i \in DOMAIN record'[p] PROVE Agrees(record'[p][i])
    <3> DEFINE n == Len(record[p])
    <3>1. /\ n \in Nat /\ DOMAIN record[p] = 1..n
          /\ Agrees(MarkOf(signedUp, selection, playing, p))
          /\ DOMAIN record'[p] = 1..(n + 1)
          /\ \A j \in 1..n : record'[p][j] = record[p][j]
          /\ record'[p][n + 1] = MarkOf(signedUp, selection, playing, p)
      BY <1>0, <1>1, GameIsMarked
    <3> HIDE DEF n
    <3>2. CASE i \in 1..n
      BY <3>1, <3>2 DEF Inv, MarksAgree
    <3>3. CASE i = n + 1
      BY <3>1, <3>3
    <3> QED
      BY <2>1, <3>1, <3>2, <3>3
  <2> QED
    BY <2>1 DEF MarksAgree
<1>4. game'.signedUp = signedUp /\ game'.guests = guests /\ game'.selection = selection
  BY <1>1 DEF Played
<1>5. SeatsAreFair'
  BY <1>1, <1>4 DEF Fair, SeatsAreFair
<1>6. EachSeatIsJustified
  BY <1>1, <1>4 DEF Justified, EachSeatIsJustified
<1> QED
  BY <1>2, <1>3, <1>5, <1>6 DEF Inv

\* Paying late is paying one of the games played.
LEMMA PayInv ==
    ASSUME Inv, NEW p \in Players, Pay(p)
    PROVE  Inv' /\ EachSeatIsJustified
<1>1. /\ record' = record /\ game' = game /\ corrected' = corrected
      /\ unpaid' \in [Players -> Nat]
      /\ \A q \in Players : unpaid'[q] \in 0..Len(record[q])
  <2>1. /\ unpaid \in [Players -> Nat] /\ \A q \in Players : unpaid[q] \in 0..Len(record[q])
        /\ \A q \in Players : Len(record[q]) \in Nat
    BY DEF Inv, Typed, TypeOK
  <2> QED
    BY <2>1 DEF Pay
<1>2. Typed'
  BY <1>1 DEF Inv, Typed, TypeOK
<1>3. MarksAgree' /\ SeatsAreFair'
  BY <1>1 DEF Inv, MarksAgree, SeatsAreFair
<1> QED
  BY <1>1, <1>2, <1>3 DEF Inv, EachSeatIsJustified

LEMMA NextInv ==
    ASSUME RulesAssumption, SeasonAssumption, Inv, [Next]_vars
    PROVE  Inv' /\ EachSeatIsJustified
<1>1. CASE \E signedUp \in SUBSET Players, guests \in SUBSET Guests : Play(signedUp, guests)
  BY <1>1, PlayInv
<1>2. CASE \E p \in Players : Pay(p)
  BY <1>2, PayInv
<1>3. CASE UNCHANGED vars
  <2>1. record' = record /\ unpaid' = unpaid /\ game' = game /\ corrected' = corrected
    BY <1>3 DEF vars
  <2> QED
    BY <2>1 DEF Inv, Typed, TypeOK, MarksAgree, SeatsAreFair, EachSeatIsJustified
<1> QED
  BY <1>1, <1>2, <1>3 DEF Next, Done

LEMMA InvHolds == ASSUME RulesAssumption, SeasonAssumption PROVE Spec => []Inv
<1>1. Init => Inv
  BY InitInv
<1>2. Inv /\ [Next]_vars => Inv'
  BY NextInv
<1> QED
  BY <1>1, <1>2, PTL DEF Spec

\* And so are the kinds of its games.
LEMMA LongerKinds ==
    ASSUME SeasonAssumption, Typed,
           NEW signedUp, NEW guests, NEW selection, NEW playing, NEW late,
           Played(signedUp, guests, selection, playing, late), NEW p \in Players
    PROVE  LET kind == MarkOf(signedUp, selection, playing, p).kind
           IN /\ KindsOf(p)' = Append(KindsOf(p), kind)
              /\ kind \in Kinds \cup {"none"}
<1> DEFINE kinds == KindsOf(p)
           n == Len(record[p])
           mark == MarkOf(signedUp, selection, playing, p)
           now == KindsOf(p)'
<1>1. /\ n \in Nat /\ DOMAIN record[p] = 1..n /\ mark \in Mark
      /\ DOMAIN record'[p] = 1..(n + 1)
      /\ \A i \in 1..n : record'[p][i] = record[p][i]
      /\ record'[p][n + 1] = mark
  BY GameIsMarked
<1>2. mark.kind \in Kinds \cup {"none"}
  BY <1>1 DEF Mark
<1>3. now = [i \in 1..(n + 1) |-> record'[p][i].kind]
  BY <1>1 DEF KindsOf
<1>4. \A i \in 1..n : kinds[i] = record[p][i].kind
  BY <1>1 DEF KindsOf
<1>5. kinds \in Records /\ Len(kinds) = n
  <2>1. kinds \in Records /\ DOMAIN kinds = 1..n
    <3>1. KindsNow \in [Players -> Records] /\ KindsNow[p] = kinds
      BY StandingsType DEF KindsNow
    <3> QED
      BY <1>1, <3>1 DEF KindsOf
  <2> HIDE DEF kinds, n
  <2> QED
    BY <1>1, <2>1 DEF Records
<1> HIDE DEF kinds, n, mark, now
<1>6. \A i \in 1..n : i \in 1..(n + 1) /\ now[i] = kinds[i]
  <2>1. \A i \in 1..n : i \in 1..(n + 1)
    BY <1>1
  <2> QED
    BY <1>1, <1>3, <1>4, <2>1
<1>7. n + 1 \in 1..(n + 1) /\ now[n + 1] = mark.kind
  BY <1>1, <1>3
<1>8. /\ Append(kinds, mark.kind) = [i \in 1..(n + 1) |-> Append(kinds, mark.kind)[i]]
      /\ \A i \in 1..n : Append(kinds, mark.kind)[i] = kinds[i]
      /\ Append(kinds, mark.kind)[n + 1] = mark.kind
  <2>1. /\ Append(kinds, mark.kind) \in Records /\ Len(Append(kinds, mark.kind)) = n + 1
        /\ \A i \in 1..n : Append(kinds, mark.kind)[i] = kinds[i]
        /\ Append(kinds, mark.kind)[n + 1] = mark.kind
    BY <1>2, <1>5 DEF Records
  <2>2. ASSUME NEW s \in Records PROVE s \in [1..Len(s) -> Kinds \cup {"none"}]
    BY DEF Records
  <2>3. Append(kinds, mark.kind) \in [1..(n + 1) -> Kinds \cup {"none"}]
    BY <2>1, <2>2
  <2> QED
    BY <2>1, <2>3
<1>9. \A i \in 1..(n + 1) : i \in 1..n \/ i = n + 1
  BY <1>1
<1>10. now = [i \in 1..(n + 1) |-> now[i]]
  BY <1>3
<1>11. now = Append(kinds, mark.kind)
  BY <1>6, <1>7, <1>8, <1>9, <1>10
<1> QED
  BY <1>2, <1>11 DEF now, kinds, mark

-----------------------------------------------------------------------------
(* Mercy seats, when they reset the wait: the counter is the games missed since the last *)

\* A mercy seat is given to candidates only.
LEMMA MercyIsOfCandidates ==
    ASSUME RulesAssumption, SeasonAssumption, NEW S \in SUBSET Players,
           NEW guests \in SUBSET Guests, NEW points \in [Players -> Int],
           NEW kinds \in [Players -> Records],
           NEW p \in Selected(S, guests, points, kinds).mercy
    PROVE  p \in S /\ WaitCounter(kinds[p]) >= Rules.gamesOutForMercy
<1>1. CASE Cardinality(S) <= Rules.slots
  <2>1. Selected(S, guests, points, kinds).mercy = {}
    BY <1>1 DEF Selected, ByArrival
  <2> QED
    BY <2>1
<1>2. CASE ~(Cardinality(S) <= Rules.slots)
  <2>1. Selected(S, guests, points, kinds).mercy = Promotees(S, points, kinds)
    BY <1>2 DEF Selected, ByPoints
  <2>2. Ranked(S, points, kinds) /\ Cardinality(S) > Rules.slots
    <3>1. IsFiniteSet(S) /\ S \subseteq Nat /\ Rules.slots \in Nat
      BY FS_Subset DEF SeasonAssumption, RulesAssumption, RulesType
    <3> QED
      BY <1>2, <3>1, FS_CardinalityType DEF Ranked
  <2>3. p \in Candidates(S, points, kinds)
    BY <2>1, <2>2, SwapsFit
  <2> QED
    BY <2>3 DEF Candidates
<1> QED
  BY <1>1, <1>2

\* A game more is a game more missed, or none, or the first of a new wait.
LEMMA OneMoreSinceMercy ==
    ASSUME NEW kinds \in Records, NEW kind \in Kinds \cup {"none"}
    PROVE  LET n == Len(kinds)
               long == Append(kinds, kind)
           IN /\ \A m \in 0..n : SinceMercy(long, m) = SinceMercy(kinds, m)
              /\ SinceMercy(long, n + 1)
                   = CASE kind = "mercy" -> {}
                       [] kind = "none" -> SinceMercy(kinds, n)
                       [] Scores(kind) -> SinceMercy(kinds, n) \cup {n + 1}
<1> DEFINE n == Len(kinds)
           long == Append(kinds, kind)
<1>0. n \in Nat /\ long[n + 1] = kind /\ \A i \in 1..n : long[i] = kinds[i]
  BY DEF Records
<1> HIDE DEF n, long
<1>1. ASSUME NEW m \in 0..n PROVE SinceMercy(long, m) = SinceMercy(kinds, m)
  BY <1>0, <1>1 DEF SinceMercy
<1>2. ASSUME kind = "mercy" PROVE SinceMercy(long, n + 1) = {}
  <2>1. ASSUME NEW k \in 1..(n + 1) PROVE n + 1 \in k..(n + 1)
    BY <1>0, <2>1
  <2> QED
    BY <1>0, <1>2, <2>1 DEF SinceMercy
<1>3. ASSUME kind # "mercy", NEW k \in 1..n
      PROVE  k \in SinceMercy(long, n + 1) <=> k \in SinceMercy(kinds, n)
  <2>1. \A l \in k..(n + 1) : l \in k..n \/ l = n + 1
    BY <1>0
  <2>2. \A l \in k..n : l \in k..(n + 1) /\ l \in 1..n
    BY <1>0
  <2>3. k \in 1..(n + 1)
    BY <1>0
  <2> QED
    BY <1>0, <1>3, <2>1, <2>2, <2>3 DEF SinceMercy
<1>4. ASSUME kind # "mercy" PROVE n + 1 \in SinceMercy(long, n + 1) <=> Scores(kind)
  <2>1. n + 1 \in 1..(n + 1) /\ (n + 1)..(n + 1) = {n + 1}
    BY <1>0
  <2> QED
    BY <1>0, <1>4, <2>1 DEF SinceMercy
<1>5. /\ SinceMercy(long, n + 1) \subseteq (1..n) \cup {n + 1}
      /\ SinceMercy(kinds, n) \subseteq 1..n
  BY <1>0 DEF SinceMercy
<1>6. ASSUME Scores(kind) PROVE SinceMercy(long, n + 1) = SinceMercy(kinds, n) \cup {n + 1}
  BY <1>3, <1>4, <1>5, <1>6 DEF Scores
<1>7. ASSUME kind = "none" PROVE SinceMercy(long, n + 1) = SinceMercy(kinds, n)
  BY <1>3, <1>4, <1>5, <1>7 DEF Scores
<1>8. kind \in {"points", "demoted", "mercy", "none"}
  BY DEF Kinds
<1> QED
  BY <1>1, <1>2, <1>6, <1>7, <1>8 DEF n, long, Scores

WaitsSinceMercy ==
    \A p \in Players :
       WaitCounter(KindsOf(p)) = Cardinality(SinceMercy(KindsOf(p), Len(record[p])))

\* A game more keeps the counter what was missed since the last mercy seat.
LEMMA WaitIsSinceMercy ==
    ASSUME RulesAssumption, Rules.mercyResetsCounter,
           NEW kinds \in Records, NEW kind \in Kinds \cup {"none"},
           WaitCounter(kinds) = Cardinality(SinceMercy(kinds, Len(kinds)))
    PROVE  LET long == Append(kinds, kind)
           IN WaitCounter(long) = Cardinality(SinceMercy(long, Len(kinds) + 1))
<1> DEFINE n == Len(kinds)
           long == Append(kinds, kind)
           since == SinceMercy(kinds, n)
<1>1. WaitCounter(long) = Waited(WaitCounter(kinds), kind)
  BY OneMoreGame
<1>2. n \in Nat /\ IsFiniteSet(since) /\ Cardinality(since) \in Nat /\ n + 1 \notin since
  <2>1. n \in Nat
    BY DEF Records
  <2>2. since \in SUBSET (1..n) /\ n + 1 \notin 1..n
    BY <2>1 DEF SinceMercy
  <2>3. IsFiniteSet(1..n)
    BY <2>1, FS_Interval
  <2> HIDE DEF n, since
  <2> QED
    BY <2>1, <2>2, <2>3, FS_Subset, FS_CardinalityType
<1>3. kind \in {"points", "demoted", "mercy", "none"}
  BY DEF Kinds
<1>4. SinceMercy(long, n + 1) = CASE kind = "mercy" -> {}
                                  [] kind = "none" -> since
                                  [] Scores(kind) -> since \cup {n + 1}
  BY OneMoreSinceMercy
<1> HIDE DEF n, long, since
<1>5. CASE kind = "mercy"
  <2>1. Waited(WaitCounter(kinds), kind) = 0
    BY <1>5 DEF Waited, Scores
  <2>2. SinceMercy(long, n + 1) = {}
    BY <1>4, <1>5 DEF Scores
  <2> QED
    BY <1>1, <2>1, <2>2, FS_EmptySet DEF n, long
<1>6. CASE kind = "none"
  <2>1. Waited(WaitCounter(kinds), kind) = WaitCounter(kinds)
    BY <1>6 DEF Waited, Scores
  <2>2. SinceMercy(long, n + 1) = since
    BY <1>4, <1>6 DEF Scores
  <2> QED
    BY <1>1, <2>1, <2>2 DEF n, long, since
<1>7. CASE Scores(kind)
  <2>1. Waited(WaitCounter(kinds), kind) = WaitCounter(kinds) + 1
    BY <1>7 DEF Waited, Scores
  <2>2. SinceMercy(long, n + 1) = since \cup {n + 1}
    BY <1>4, <1>7 DEF Scores
  <2>3. Cardinality(since \cup {n + 1}) = Cardinality(since) + 1
    BY <1>2, FS_AddElement
  <2> QED
    BY <1>1, <2>1, <2>2, <2>3 DEF n, long, since
<1> QED
  BY <1>3, <1>5, <1>6, <1>7 DEF Scores

Earned == WaitsSinceMercy /\ MercyIsEarned

\* A game keeps the counters, and gives its mercy seats to those who earned them.
LEMMA PlayKeepsEarned ==
    ASSUME RulesAssumption, Rules.mercyResetsCounter, SeasonAssumption, Typed, Earned,
           NEW signedUp \in SUBSET Players, NEW guests \in SUBSET Guests,
           Play(signedUp, guests)
    PROVE  Earned'
<1>1. PICK selection, playing, late :
              /\ Played(signedUp, guests, selection, playing, late)
              /\ selection = Selected(signedUp, guests, PointsNow, KindsNow)
  BY PlayIsOfASelection
<1>2. ASSUME NEW p \in Players
      PROVE  /\ WaitCounter(KindsOf(p)') = Cardinality(SinceMercy(KindsOf(p)', Len(record'[p])))
             /\ \A i \in DOMAIN record'[p] :
                   KindsOf(p)'[i] = "mercy" =>
                     Cardinality(SinceMercy(KindsOf(p)', i - 1)) >= Rules.gamesOutForMercy
  <2> DEFINE kinds == KindsOf(p)
             n == Len(record[p])
             kind == KindOf(selection, playing, p)
             now == KindsOf(p)'
  <2>0. now = [i \in DOMAIN record'[p] |-> record'[p][i].kind]
    BY DEF KindsOf
  <2>1. /\ n \in Nat /\ DOMAIN record[p] = 1..n /\ DOMAIN kinds = 1..n /\ Len(kinds) = n
        /\ kinds \in Records /\ PointsNow \in [Players -> Int]
        /\ KindsNow \in [Players -> Records] /\ KindsNow[p] = kinds
    <3>1. record[p] \in Seq(Mark)
      BY DEF Typed
    <3>2. PointsNow \in [Players -> Int] /\ KindsNow \in [Players -> Records] /\ KindsNow[p] = kinds
      BY StandingsType DEF KindsNow
    <3>3. n \in Nat /\ DOMAIN record[p] = 1..n
      BY <3>1
    <3>4. DOMAIN kinds = 1..n /\ kinds \in Records
      BY <3>2, <3>3 DEF KindsOf
    <3> HIDE DEF kinds, n
    <3>5. Len(kinds) = n
      BY <3>3, <3>4 DEF Records
    <3> QED
      BY <3>2, <3>3, <3>4, <3>5
  <2>2. /\ WaitCounter(kinds) = Cardinality(SinceMercy(kinds, n))
        /\ \A i \in 1..n : kinds[i] = "mercy" =>
              Cardinality(SinceMercy(kinds, i - 1)) >= Rules.gamesOutForMercy
    BY <2>1 DEF Earned, WaitsSinceMercy, MercyIsEarned
  <2> DEFINE mark == MarkOf(signedUp, selection, playing, p)
  <2>3. /\ DOMAIN record'[p] = 1..(n + 1) /\ Len(record'[p]) = n + 1
        /\ \A i \in 1..n : record'[p][i] = record[p][i]
        /\ record'[p][n + 1] = mark /\ mark \in Mark
        /\ mark.kind = "mercy" => p \in selection.mercy
    BY <1>1, GameIsMarked
  <2>4. now = Append(kinds, mark.kind) /\ mark.kind \in Kinds \cup {"none"}
    BY <1>1, LongerKinds
  <2>5. DOMAIN now = 1..(n + 1) /\ now[n + 1] = mark.kind /\ \A i \in 1..n : now[i] = kinds[i]
    <3> HIDE DEF kinds, n, now, mark
    <3> QED
      BY <2>1, <2>4 DEF Records
  <2> HIDE DEF kinds, n, now, mark
  <2>6. WaitCounter(now) = Cardinality(SinceMercy(now, n + 1))
    BY <2>1, <2>2, <2>4, WaitIsSinceMercy
  <2>7. \A m \in 0..n : SinceMercy(now, m) = SinceMercy(kinds, m)
    BY <2>1, <2>4, OneMoreSinceMercy, ZenonT(60)
  <2>8. ASSUME NEW i \in 1..(n + 1), now[i] = "mercy"
        PROVE  Cardinality(SinceMercy(now, i - 1)) >= Rules.gamesOutForMercy
    <3>1. SinceMercy(now, i - 1) = SinceMercy(kinds, i - 1)
      BY <2>1, <2>7
    <3>2. CASE i \in 1..n
      BY <2>2, <2>5, <2>8, <3>1, <3>2
    <3>3. CASE i = n + 1
      <4>1. p \in selection.mercy
        BY <2>3, <2>5, <2>8, <3>3
      <4>2. WaitCounter(kinds) >= Rules.gamesOutForMercy
        BY <1>1, <2>1, <4>1, MercyIsOfCandidates
      <4>3. i - 1 = n
        BY <2>1, <3>3
      <4> QED
        BY <2>2, <3>1, <4>2, <4>3
    <3> QED
      BY <2>1, <3>2, <3>3
  <2> QED
    BY <2>3, <2>6, <2>8 DEF now
<1> QED
  BY <1>2 DEF Earned, WaitsSinceMercy, MercyIsEarned

LEMMA EarnedHolds ==
    ASSUME RulesAssumption, Rules.mercyResetsCounter, SeasonAssumption
    PROVE  Spec => []Earned
<1>1. Init => Earned
  <2>1. ASSUME Init, NEW p \in Players
        PROVE  WaitCounter(KindsOf(p)) = 0 /\ SinceMercy(KindsOf(p), Len(record[p])) = {}
    <3>1. record[p] = <<>> /\ KindsOf(p) = <<>>
      BY <2>1 DEF Init, KindsOf
    <3>2. <<>> \in Records /\ Len(<<>>) = 0
      BY DEF Records
    <3>3. WaitCounter(<<>>) = 0
      BY <3>2, WaitsAreCounted
    <3> QED
      BY <3>1, <3>2, <3>3 DEF SinceMercy
  <2>2. ASSUME Init, NEW p \in Players PROVE DOMAIN record[p] = {}
    BY <2>2 DEF Init
  <2> QED
    BY <2>1, <2>2, FS_EmptySet DEF Earned, WaitsSinceMercy, MercyIsEarned
<1>2. Inv /\ Earned /\ [Next]_vars => Earned'
  <2> SUFFICES ASSUME Inv, Earned, [Next]_vars PROVE Earned'
    OBVIOUS
  <2>1. CASE \E signedUp \in SUBSET Players, guests \in SUBSET Guests : Play(signedUp, guests)
    BY <2>1, PlayKeepsEarned DEF Inv
  <2>2. CASE (\E p \in Players : Pay(p)) \/ UNCHANGED vars
    <3>1. record' = record
      BY <2>2 DEF Pay, vars
    <3> QED
      BY <3>1 DEF Earned, WaitsSinceMercy, MercyIsEarned, KindsOf
  <2> QED
    BY <2>1, <2>2 DEF Next, Done
<1>3. Spec => []Inv
  BY InvHolds
<1> QED
  BY <1>1, <1>2, <1>3, PTL DEF Spec

-----------------------------------------------------------------------------
(* The wait is bounded: whoever takes the seat one waits for starts to wait again *)

\* Missing a game on points makes a streak a game longer, anything else ends it.
LEMMA StreakGrows ==
    ASSUME NEW kinds \in Records, NEW kind \in Kinds \cup {"none"}
    PROVE  /\ Streak(kinds) \in Nat
           /\ Streak(Append(kinds, kind)) = IF kind = "points" THEN Streak(kinds) + 1 ELSE 0
<1> DEFINE n == Len(kinds)
           long == Append(kinds, kind)
           tail == {i \in 1..n : \A j \in i..n : kinds[j] = "points"}
           longer == {i \in 1..(n + 1) : \A j \in i..(n + 1) : long[j] = "points"}
<1>0. /\ n \in Nat /\ DOMAIN kinds = 1..n /\ long[n + 1] = kind /\ Len(long) = n + 1
      /\ DOMAIN long = 1..(n + 1) /\ \A i \in 1..n : long[i] = kinds[i]
  BY DEF Records
<1>1. Streak(kinds) = Cardinality(tail) /\ Streak(long) = Cardinality(longer)
  BY <1>0 DEF Streak
<1> HIDE DEF n, long
<1>2. IsFiniteSet(tail) /\ Cardinality(tail) \in Nat /\ n + 1 \notin tail
  <2>1. IsFiniteSet(1..n) /\ tail \in SUBSET (1..n) /\ n + 1 \notin 1..n
    BY <1>0, FS_Interval
  <2> HIDE DEF tail
  <2> QED
    BY <2>1, FS_Subset, FS_CardinalityType
<1>3. CASE kind = "points"
  <2>1. ASSUME NEW k \in 1..n PROVE k \in longer <=> k \in tail
    <3>1. \A l \in k..(n + 1) : l \in k..n \/ l = n + 1
      BY <1>0
    <3>2. \A l \in k..n : l \in k..(n + 1) /\ l \in 1..n
      BY <1>0
    <3>3. k \in 1..(n + 1)
      BY <1>0
    <3> QED
      BY <1>0, <1>3, <3>1, <3>2, <3>3
  <2>2. n + 1 \in longer
    <3>1. n + 1 \in 1..(n + 1) /\ (n + 1)..(n + 1) = {n + 1}
      BY <1>0
    <3> QED
      BY <1>0, <1>3, <3>1
  <2>3. longer \subseteq (1..n) \cup {n + 1} /\ tail \subseteq 1..n
    BY <1>0
  <2> HIDE DEF longer, tail
  <2>4. longer = tail \cup {n + 1}
    BY <2>1, <2>2, <2>3
  <2>5. Cardinality(longer) = Cardinality(tail) + 1
    BY <1>2, <2>4, FS_AddElement
  <2> QED
    BY <1>1, <1>2, <1>3, <2>5 DEF long
<1>4. CASE kind # "points"
  <2>1. ASSUME NEW k \in 1..(n + 1) PROVE n + 1 \in k..(n + 1)
    BY <1>0, <2>1
  <2>2. longer = {}
    BY <1>0, <1>4, <2>1
  <2> HIDE DEF longer, tail
  <2> QED
    BY <1>1, <1>2, <1>4, <2>2, FS_EmptySet DEF long
<1> QED
  BY <1>3, <1>4

\* While a candidate is left out, some mercy seat is of one who waited no less.
LEMMA PassedOver ==
    ASSUME RulesAssumption, Rules.mercySeats > 0, SeasonAssumption, NEW S \in SUBSET Players,
           NEW guests \in SUBSET Guests, NEW points \in [Players -> Int],
           NEW kinds \in [Players -> Records],
           NEW p \in S, WaitCounter(kinds[p]) >= Rules.gamesOutForMercy
    PROVE  LET selection == Selected(S, guests, points, kinds)
           IN p \notin selection.in \cup selection.demoted =>
                \E q \in selection.mercy : /\ q \in selection.in /\ q \in S
                                           /\ WaitCounter(kinds[q]) >= WaitCounter(kinds[p])
<1> DEFINE selection == Selected(S, guests, points, kinds)
           I == Inside(S, points)
           C == Candidates(S, points, kinds)
           P == Promotees(S, points, kinds)
           D == Demotees(S, points, kinds)
           n == Swaps(S, points, kinds)
<1> SUFFICES ASSUME p \notin selection.in \cup selection.demoted
             PROVE  \E q \in selection.mercy : /\ q \in selection.in /\ q \in S
                                               /\ WaitCounter(kinds[q]) >= WaitCounter(kinds[p])
  OBVIOUS
<1>1. Ranked(S, points, kinds) /\ IsFiniteSet(S) /\ Cardinality(S) \in Nat
  <2>1. IsFiniteSet(S) /\ S \subseteq Nat
    BY FS_Subset DEF SeasonAssumption
  <2> QED
    BY <2>1, FS_CardinalityType DEF Ranked
<1>2. Rules.slots \in Nat \ {0} /\ Rules.mercySeats \in Nat \ {0} /\ Rules.gamesOutForMercy \in Nat
  BY DEF RulesAssumption, RulesType
<1>3. ~(Cardinality(S) <= Rules.slots)
  <2>1. SUFFICES ASSUME Cardinality(S) <= Rules.slots PROVE p \in selection.in
    OBVIOUS
  <2> QED
    BY <2>1 DEF Selected, ByArrival
<1>4. Cardinality(S) > Rules.slots
  BY <1>1, <1>2, <1>3
<1>5. selection.in = (I \ D) \cup P /\ selection.mercy = P /\ selection.demoted = D
  <2>1. selection = [in |-> (I \ D) \cup P, mercy |-> P, demoted |-> D]
    BY <1>3 DEF Selected, ByPoints
  <2> HIDE DEF selection, I, D, P
  <2> QED
    BY <2>1
<1>6. /\ I \subseteq S /\ C \subseteq S \ I /\ Ranked(C, points, kinds) /\ n \in Nat
      /\ P \subseteq C /\ IsFiniteSet(P) /\ Cardinality(P) = n /\ D \subseteq I
  BY <1>1, <1>4, SwapsFit
<1>7. p \in C /\ p \notin P
  <2>1. p \in S \ I /\ p \notin P
    BY <1>5
  <2> HIDE DEF P
  <2> QED
    BY <2>1 DEF Candidates
<1>8. n # 0
  <2>1. Cardinality(C) \in Nat \ {0}
    <3>1. IsFiniteSet(C) /\ C # {}
      BY <1>6, <1>7 DEF Ranked
    <3> HIDE DEF C
    <3> QED
      BY <3>1, FS_CardinalityType, FS_EmptySet
  <2>2. n = Min({Rules.mercySeats, Rules.slots, Cardinality(C)})
    BY DEF Swaps
  <2>3. ASSUME NEW a \in Nat \ {0}, NEW b \in Nat \ {0}, NEW c \in Nat \ {0}
        PROVE  Min({a, b, c}) # 0
    <3>1. a \in Int /\ b \in Int /\ c \in Int
      OBVIOUS
    <3>2. Min({a, b, c}) \in {a, b, c}
      BY <3>1, LeastOfThree, Zenon
    <3> QED
      BY <3>2
  <2> HIDE DEF n, C
  <2> QED
    BY <1>2, <2>1, <2>2, <2>3
<1>9. PICK q : q \in P
  <2>1. P # {}
    BY <1>6, <1>8, FS_EmptySet
  <2> HIDE DEF P
  <2> QED
    BY <2>1
<1>10. WaitCounter(kinds[q]) >= WaitCounter(kinds[p])
  <2>1. /\ P = First(C, n, DeservesIn(C, points, kinds))
        /\ Orders(DeservesIn(C, points, kinds), C) /\ IsFiniteSet(C)
    BY <1>6, CutsAreFirst, OrdersOfSelection DEF Ranked
  <2>2. q \in First(C, n, DeservesIn(C, points, kinds))
        /\ p \in C \ First(C, n, DeservesIn(C, points, kinds))
    BY <1>7, <1>9, <2>1
  <2>3. <<q, p>> \in DeservesIn(C, points, kinds)
    BY <1>6, <2>1, <2>2, FirstGoBefore
  <2>4. WaitCounter(kinds[p]) \in Int /\ WaitCounter(kinds[q]) \in Int
    BY <1>6, <1>7, <1>9, WaitCounterType DEF Ranked
  <2> QED
    BY <2>3, <2>4 DEF DeservesIn, Deserves
<1> HIDE DEF selection, I, C, P, D, n
<1> QED
  BY <1>5, <1>6, <1>9, <1>10

\* The other regulars who have waited less.
Behind(p) ==
    {q \in Players : q # p /\ WaitCounter(KindsOf(q)) < WaitCounter(KindsOf(p))}

\* Each game of a streak was waited; and past those that make a candidate, each leaves one
\* regular more behind.
Bounded(p) ==
    /\ Streak(KindsOf(p)) <= WaitCounter(KindsOf(p))
    /\ Streak(KindsOf(p)) <= Rules.gamesOutForMercy + Cardinality(Behind(p))

StreaksAreBounded == corrected = 0 => \A p \in Players : Bounded(p)

\* Those behind are a number of regulars, who do not include oneself.
LEMMA BehindAreFew ==
    ASSUME SeasonAssumption, NEW p \in Players, NEW S \in SUBSET Players, p \notin S
    PROVE  IsFiniteSet(S) /\ Cardinality(S) \in Nat /\ Cardinality(S) < Cardinality(Players)
<1>1. IsFiniteSet(Players) /\ Cardinality(Players) \in Nat
  BY FS_CardinalityType DEF SeasonAssumption
<1>2. IsFiniteSet(S) /\ Cardinality(S) \in Nat /\ Cardinality(S) <= Cardinality(Players)
  BY <1>1, FS_Subset, FS_CardinalityType
<1>3. Cardinality(S) # Cardinality(Players)
  BY <1>1, FS_Subset
<1> QED
  BY <1>1, <1>2, <1>3

\* A game: one more to the streak of whoever is left out on points, and one more behind.
LEMMA PlayKeepsBounded ==
    ASSUME RulesAssumption, Rules.mercyResetsCounter, Rules.mercySeats > 0, SeasonAssumption,
           Inv, Earned, StreaksAreBounded,
           NEW signedUp \in SUBSET Players, NEW guests \in SUBSET Guests,
           Play(signedUp, guests)
    PROVE  StreaksAreBounded'
<1>0. Typed /\ corrected \in Nat
  <2>1. Typed
    BY DEF Inv
  <2>2. corrected \in 0..Corrections
    BY <2>1 DEF Typed, TypeOK
  <2> QED
    BY <2>1, <2>2
<1> SUFFICES ASSUME corrected' = 0, NEW p \in Players PROVE Bounded(p)'
  BY DEF StreaksAreBounded
<1>1. PICK selection, playing, late :
              /\ Played(signedUp, guests, selection, playing, late)
              /\ selection = Selected(signedUp, guests, PointsNow, KindsNow)
  BY <1>0, PlayIsOfASelection
<1>2. corrected = 0 /\ playing = selection.in
  BY <1>0, <1>1 DEF Played
<1> DEFINE wait == [q \in Players |-> WaitCounter(KindsOf(q))]
           later == [q \in Players |-> WaitCounter(KindsOf(q)')]
           kind == [q \in Players |-> MarkOf(signedUp, selection, playing, q).kind]
<1>3. ASSUME NEW q \in Players
      PROVE  /\ wait[q] \in Nat /\ later[q] = Waited(wait[q], kind[q])
             /\ kind[q] \in {"points", "demoted", "mercy", "none"}
  <2>1. /\ KindsOf(q)' = Append(KindsOf(q), kind[q]) /\ kind[q] \in Kinds \cup {"none"}
    BY <1>0, <1>1, LongerKinds
  <2>2. KindsOf(q) \in Records
    BY <1>0, StandingsType DEF KindsNow
  <2>3. WaitCounter(Append(KindsOf(q), kind[q])) = Waited(WaitCounter(KindsOf(q)), kind[q])
    BY <2>1, <2>2, OneMoreGame
  <2>4. wait[q] \in Nat
    <3>1. wait[q] = Cardinality(SinceMercy(KindsOf(q), Len(record[q])))
      BY DEF Earned, WaitsSinceMercy
    <3>2. IsFiniteSet(1..Len(record[q]))
      BY <1>0, FS_Interval DEF Typed
    <3>3. SinceMercy(KindsOf(q), Len(record[q])) \in SUBSET (1..Len(record[q]))
      BY DEF SinceMercy
    <3> QED
      BY <3>1, <3>2, <3>3, FS_Subset, FS_CardinalityType
  <2> QED
    BY <2>1, <2>3, <2>4 DEF Kinds
<1>4. ASSUME NEW q \in Players
      PROVE  later[q] \in Nat /\ later[q] <= wait[q] + 1 /\ (kind[q] = "mercy" => later[q] = 0)
             /\ (kind[q] = "points" => later[q] = wait[q] + 1)
  <2> HIDE DEF later, wait, kind
  <2> QED
    BY <1>3 DEF Waited, Scores
<1>5. /\ Streak(KindsOf(p)) \in Nat
      /\ Streak(KindsOf(p)') = IF kind[p] = "points" THEN Streak(KindsOf(p)) + 1 ELSE 0
  <2>1. /\ KindsOf(p)' = Append(KindsOf(p), kind[p]) /\ kind[p] \in Kinds \cup {"none"}
    BY <1>0, <1>1, LongerKinds
  <2>2. KindsOf(p) \in Records
    BY <1>0, StandingsType DEF KindsNow
  <2> QED
    BY <2>1, <2>2, StreakGrows
<1>6. /\ Streak(KindsOf(p)) <= wait[p]
      /\ Streak(KindsOf(p)) <= Rules.gamesOutForMercy + Cardinality(Behind(p))
  BY <1>2 DEF StreaksAreBounded, Bounded
<1>7. Rules.gamesOutForMercy \in Nat
  BY DEF RulesAssumption, RulesType
<1> DEFINE before == {q \in Players : q # p /\ wait[q] < wait[p]}
           after == {q \in Players : q # p /\ later[q] < later[p]}
<1>8. Behind(p) = before /\ Behind(p)' = after
  BY DEF Behind
<1>9. /\ IsFiniteSet(before) /\ Cardinality(before) \in Nat
      /\ IsFiniteSet(after) /\ Cardinality(after) \in Nat
  <2>1. before \in SUBSET Players /\ after \in SUBSET Players /\ p \notin before /\ p \notin after
    OBVIOUS
  <2> HIDE DEF before, after
  <2> QED
    BY <2>1, BehindAreFew
<1>10. /\ Streak(KindsOf(p)') <= later[p]
       /\ Streak(KindsOf(p)') <= Rules.gamesOutForMercy + Cardinality(after)
  <2>1. CASE kind[p] # "points"
    <3> HIDE DEF later, after, kind
    <3> QED
      BY <1>4, <1>5, <1>7, <1>9, <2>1
  <2>2. CASE kind[p] = "points" /\ Streak(KindsOf(p)) < Rules.gamesOutForMercy
    <3> HIDE DEF later, after, kind, wait
    <3> QED
      BY <1>3, <1>4, <1>5, <1>6, <1>7, <1>9, <2>2
  <2>3. CASE kind[p] = "points" /\ ~(Streak(KindsOf(p)) < Rules.gamesOutForMercy)
    <3>1. p \in signedUp /\ p \notin selection.in \cup selection.demoted
      <4>1. p \in signedUp
        BY <2>3 DEF MarkOf, Away
      <4>2. KindOf(selection, playing, p) = "points"
        BY <2>3, <4>1 DEF MarkOf
      <4> QED
        BY <1>2, <4>1, <4>2 DEF KindOf
    <3>2. /\ PointsNow \in [Players -> Int] /\ KindsNow \in [Players -> Records]
          /\ \A q \in Players : KindsNow[q] = KindsOf(q)
      BY <1>0, StandingsType DEF KindsNow
    <3>3. WaitCounter(KindsNow[p]) >= Rules.gamesOutForMercy
      <4>1. wait[p] >= Rules.gamesOutForMercy
        <5> HIDE DEF wait
        <5> QED
          BY <1>3, <1>5, <1>6, <1>7, <2>3
      <4> QED
        BY <3>2, <4>1
    <3>4. PICK q \in selection.mercy : /\ q \in selection.in /\ q \in signedUp
                                       /\ WaitCounter(KindsNow[q]) >= WaitCounter(KindsNow[p])
      BY <1>1, <3>1, <3>2, <3>3, PassedOver
    <3>5. q \in Players /\ q # p /\ wait[q] >= wait[p]
      BY <3>1, <3>2, <3>4
    <3>6. kind[q] = "mercy"
      BY <1>2, <3>4 DEF MarkOf, KindOf
    <3>7. q \notin before /\ before \cup {q} \subseteq after
      <4>1. later[p] = wait[p] + 1 /\ wait[p] \in Nat /\ wait[q] \in Nat /\ later[q] = 0
        BY <1>3, <1>4, <2>3, <3>5, <3>6
      <4>2. ASSUME NEW r \in before PROVE r \in after
        <5>1. later[r] \in Nat /\ wait[r] \in Nat /\ later[r] <= wait[r] + 1
          BY <1>3, <1>4
        <5>2. r \in Players /\ r # p /\ wait[r] < wait[p]
          OBVIOUS
        <5> HIDE DEF wait, later
        <5> QED
          BY <4>1, <5>1, <5>2
      <4>3. q \in after /\ q \notin before
        <5> HIDE DEF wait, later
        <5> QED
          BY <3>5, <4>1
      <4> QED
        BY <4>2, <4>3
    <3> HIDE DEF before, after
    <3>8. Cardinality(before \cup {q}) = Cardinality(before) + 1
      BY <1>9, <3>7, FS_AddElement
    <3>9. Cardinality(before \cup {q}) <= Cardinality(after)
      BY <1>9, <3>7, FS_Subset
    <3> HIDE DEF wait, later, kind
    <3> QED
      BY <1>3, <1>4, <1>5, <1>6, <1>7, <1>8, <1>9, <2>3, <3>8, <3>9
  <2> QED
    BY <2>1, <2>2, <2>3
<1> QED
  BY <1>8, <1>10 DEF Bounded

LEMMA BoundedHolds ==
    ASSUME RulesAssumption, Rules.mercyResetsCounter, Rules.mercySeats > 0, SeasonAssumption
    PROVE  Spec => []StreaksAreBounded
<1>1. Init => StreaksAreBounded
  <2>1. ASSUME Init, NEW p \in Players PROVE Bounded(p)
    <3>1. \A q \in Players : KindsOf(q) = <<>>
      BY <2>1 DEF Init, KindsOf
    <3>2. <<>> \in Records /\ Len(<<>>) = 0
      BY DEF Records
    <3>3. WaitCounter(<<>>) = 0
      BY <3>2, WaitsAreCounted
    <3>4. Streak(<<>>) = 0
      BY FS_EmptySet DEF Streak
    <3>5. Behind(p) \in SUBSET Players /\ p \notin Behind(p)
      BY DEF Behind
    <3>6. Cardinality(Behind(p)) \in Nat /\ Rules.gamesOutForMercy \in Nat
      BY <3>5, BehindAreFew DEF RulesAssumption, RulesType
    <3> QED
      BY <3>1, <3>3, <3>4, <3>6 DEF Bounded
  <2> QED
    BY <2>1 DEF StreaksAreBounded
<1>2. Inv /\ Earned /\ StreaksAreBounded /\ [Next]_vars => StreaksAreBounded'
  <2> SUFFICES ASSUME Inv, Earned, StreaksAreBounded, [Next]_vars PROVE StreaksAreBounded'
    OBVIOUS
  <2>1. CASE \E signedUp \in SUBSET Players, guests \in SUBSET Guests : Play(signedUp, guests)
    BY <2>1, PlayKeepsBounded
  <2>2. CASE (\E p \in Players : Pay(p)) \/ UNCHANGED vars
    <3>1. record' = record /\ corrected' = corrected
      BY <2>2 DEF Pay, vars
    <3> QED
      BY <3>1 DEF StreaksAreBounded, Bounded, Behind, KindsOf
  <2> QED
    BY <2>1, <2>2 DEF Next, Done
<1>3. Spec => []Inv
  BY InvHolds
<1>4. Spec => []Earned
  BY EarnedHolds
<1> QED
  BY <1>1, <1>2, <1>3, <1>4, PTL DEF Spec

-----------------------------------------------------------------------------
(* The theorems *)

\* Every record, pending payment and selection is of its type; in particular no more games
\* of one who pays late are unpaid than they signed up to.
THEOREM TypeCorrect ==
    ASSUME RulesAssumption, SeasonAssumption PROVE Spec => []TypeOK
<1>1. Inv => TypeOK
  BY DEF Inv, Typed
<1>2. Spec => []Inv
  BY InvHolds
<1> QED
  BY <1>1, <1>2, PTL

\* Every selection is fair, and gives no seat that cannot be explained to whoever stays
\* out, whatever the rules of the season, the points and the records (convocatoria.ts).
THEOREM NobodyEnviesASeat ==
    ASSUME RulesAssumption, SeasonAssumption PROVE Spec => NoEnvy
<1>1. Inv /\ [Next]_vars => EachSeatIsJustified /\ SeatsAreFair'
  BY NextInv DEF Inv
<1>2. Spec => []Inv
  BY InvHolds
<1> QED
  BY <1>1, <1>2, PTL DEF Spec, NoEnvy

\* Whoever signs up to a game settles one point with it, however often the organiser
\* moved them (played-derivation.ts, standings-service.ts).
THEOREM GamesAreOnePoint ==
    ASSUME RulesAssumption, SeasonAssumption PROVE Spec => []OnePointPerGame
<1>1. ASSUME Inv PROVE OnePointPerGame
  <2>1. ASSUME NEW p \in Players
        PROVE  PointsNow[p] = 100 * (Cardinality({i \in DOMAIN record[p] : record[p][i].signedUp})
                                     - unpaid[p]) + SeniorityOf(Seasons[p])
    <3> DEFINE games == {i \in DOMAIN record[p] : record[p][i].signedUp}
               played == {i \in DOMAIN record[p] : record[p][i].playing}
               scored == {i \in DOMAIN KindsOf(p) : Scores(KindsOf(p)[i])}
    <3>1. /\ Len(record[p]) \in Nat /\ DOMAIN record[p] = 1..Len(record[p]) /\ unpaid[p] \in Nat
          /\ \A i \in DOMAIN record[p] : Agrees(record[p][i]) /\ record[p][i] \in Mark
      BY <1>1 DEF Inv, Typed, MarksAgree
    <3>2. /\ IsFiniteSet(games) /\ Cardinality(games) \in Nat
          /\ IsFiniteSet(played) /\ Cardinality(played) \in Nat
          /\ IsFiniteSet(scored) /\ Cardinality(scored) \in Nat
      <4>1. IsFiniteSet(1..Len(record[p])) /\ DOMAIN KindsOf(p) = 1..Len(record[p])
        BY <3>1, FS_Interval DEF KindsOf
      <4>2. /\ games \in SUBSET (1..Len(record[p])) /\ played \in SUBSET (1..Len(record[p]))
            /\ scored \in SUBSET (1..Len(record[p]))
        BY <3>1, <4>1
      <4> HIDE DEF games, played, scored
      <4> QED
        BY <4>1, <4>2, FS_Subset, FS_CardinalityType
    <3>3. played \cup scored = games /\ played \cap scored = {}
      <4>1. \A i \in DOMAIN record[p] : KindsOf(p)[i] = record[p][i].kind
        BY DEF KindsOf
      <4>2. DOMAIN KindsOf(p) = DOMAIN record[p]
        BY DEF KindsOf
      <4>3. \A i \in DOMAIN record[p] :
               /\ i \in games <=> i \in played \/ i \in scored
               /\ ~(i \in played /\ i \in scored)
        <5>1. \A i \in DOMAIN record[p] :
                 record[p][i].playing \in BOOLEAN /\ record[p][i].signedUp \in BOOLEAN
          BY <3>1 DEF Mark
        <5> QED
          BY <3>1, <4>1, <4>2, <5>1 DEF Agrees, Scores
      <4>4. played \subseteq DOMAIN record[p] /\ scored \subseteq DOMAIN record[p]
            /\ games \subseteq DOMAIN record[p]
        BY <4>2
      <4> HIDE DEF games, played, scored
      <4> QED
        BY <4>3, <4>4
    <3> HIDE DEF games, played, scored
    <3>5. Cardinality(played) + Cardinality(scored) = Cardinality(games)
      <4>1. Cardinality(played \cup scored)
            = Cardinality(played) + Cardinality(scored) - Cardinality(played \cap scored)
        BY <3>2, FS_Union
      <4>2. Cardinality(played \cap scored) = 0
        BY <3>3, FS_EmptySet
      <4>3. Cardinality(played) + Cardinality(scored) - 0 = Cardinality(games)
        BY <3>3, <4>1, <4>2
      <4> QED
        BY <3>2, <4>3
    <3>6. PaidGames(p) + Exclusions(KindsOf(p)) = Cardinality(games) - unpaid[p]
      <4>1. PaidGames(p) = Cardinality(played) - unpaid[p]
        BY DEF PaidGames, played
      <4>2. Exclusions(KindsOf(p)) = Cardinality(scored)
        BY DEF Exclusions, scored
      <4> QED
        BY <3>1, <3>2, <3>5, <4>1, <4>2
    <3>7. PointsNow[p] = 100 * (PaidGames(p) + Exclusions(KindsOf(p))) + SeniorityOf(Seasons[p])
      BY DEF PointsNow, Points
    <3> QED
      BY <3>6, <3>7 DEF games
  <2> QED
    BY <2>1 DEF OnePointPerGame
<1>2. Spec => []Inv
  BY InvHolds
<1> QED
  BY <1>1, <1>2, PTL

\* When a mercy seat resets the wait, and there is one to give, each was earned by missing
\* as many games as the season says since the last one, whoever the organiser moved by hand
\* meanwhile; and when nobody was moved, nobody who keeps signing up is left out on points
\* for longer than that and once more for each other regular (exclusion-history.ts,
\* convocatoria.ts).
THEOREM WaitsAreBounded ==
    ASSUME RulesAssumption, Rules.mercyResetsCounter, Rules.mercySeats > 0, SeasonAssumption
    PROVE  Spec => []WaitIsBounded
<1>1. ASSUME Inv, Earned, StreaksAreBounded PROVE WaitIsBounded
  <2>1. ASSUME corrected = 0, NEW p \in Players
        PROVE  Streak(KindsOf(p)) < Rules.gamesOutForMercy + Cardinality(Players)
    <3>1. Behind(p) \in SUBSET Players /\ p \notin Behind(p)
      BY DEF Behind
    <3>2. /\ Cardinality(Behind(p)) \in Nat /\ Cardinality(Behind(p)) < Cardinality(Players)
          /\ Rules.gamesOutForMercy \in Nat /\ Cardinality(Players) \in Nat
      BY <3>1, BehindAreFew, FS_CardinalityType DEF RulesAssumption, RulesType, SeasonAssumption
    <3>3. Streak(KindsOf(p)) <= Rules.gamesOutForMercy + Cardinality(Behind(p))
      BY <1>1, <2>1 DEF StreaksAreBounded, Bounded
    <3>4. Streak(KindsOf(p)) \in Nat
      <4>1. KindsOf(p) \in Records
        BY <1>1, StandingsType DEF Inv, KindsNow
      <4>2. "none" \in Kinds \cup {"none"}
        OBVIOUS
      <4> QED
        BY <4>1, <4>2, StreakGrows
    <3> QED
      BY <3>2, <3>3, <3>4
  <2> QED
    BY <1>1, <2>1 DEF WaitIsBounded, StreakIsBounded, Earned
<1>2. Spec => []Inv
  BY InvHolds
<1>3. Spec => []Earned
  BY EarnedHolds
<1>4. Spec => []StreaksAreBounded
  BY BoundedHolds
<1> QED
  BY <1>1, <1>2, <1>3, <1>4, PTL

-----------------------------------------------------------------------------
(* The season looked at on the organiser's page, of SeasonScreen *)

CONSTANTS Years, FirstSeasons, SeasonOf, FirstGames, PlayedGames, Today, UtcToday,
          Patient, InOrder, Presses, Failures, Nobody
VARIABLES seasons, games, season, listed, lists, missing, tab, chosen, error, tasks,
          presses, failures

Screen == INSTANCE SeasonScreen WITH Seasons <- Years, None <- Nobody

\* Of finitely many numbers one is the highest.
LEMMA HighestNumber ==
    ASSUME NEW S \in SUBSET Nat, IsFiniteSet(S), S # {}
    PROVE  Screen!Max(S) \in S /\ \A x \in S : x <= Screen!Max(S)
<1> DEFINE Low(T) == T # {} /\ ~ \E m \in T : \A x \in T : x <= m
           Sizes == {Cardinality(T) : T \in {U \in SUBSET S : Low(U)}}
<1>0. \A T \in SUBSET S : IsFiniteSet(T) /\ Cardinality(T) \in Nat
  BY FS_Subset, FS_CardinalityType
<1>1. Sizes = {}
  <2>1. SUFFICES ASSUME Sizes # {} PROVE FALSE
    OBVIOUS
  <2>2. PICK n \in Sizes : \A m \in Sizes : n <= m
    <3>1. Sizes \in SUBSET Nat
      BY <1>0
    <3> QED
      BY <2>1, <3>1, LeastNumber
  <2>3. PICK T \in SUBSET S : Low(T) /\ n = Cardinality(T)
    BY <2>2
  <2>4. PICK y \in T : TRUE
    BY <2>3
  <2> DEFINE U == T \ {y}
  <2>5. U \in SUBSET S /\ Cardinality(U) = n - 1 /\ n \in Nat
    BY <1>0, <2>3, <2>4, FS_RemoveElement
  <2>6. ~Low(U)
    <3>1. n - 1 < n
      BY <2>5
    <3>2. Low(U) => n - 1 \in Sizes
      BY <2>5
    <3> QED
      BY <2>2, <2>5, <3>1, <3>2
  <2>7. CASE U = {}
    BY <2>3, <2>4, <2>7
  <2>8. CASE U # {}
    <3>1. PICK m \in U : \A x \in U : x <= m
      BY <2>6, <2>8
    <3>2. m \in Nat /\ y \in Nat /\ T = U \cup {y}
      BY <2>4
    <3> QED
      BY <2>3, <3>1, <3>2
  <2> QED
    BY <2>7, <2>8
<1>2. ~Low(S)
  BY <1>1
<1>3. PICK m \in S : \A x \in S : x <= m
  BY <1>2
<1>4. \A x \in S : m >= x
  BY <1>3
<1>5. Screen!Max(S) \in S /\ \A x \in S : Screen!Max(S) >= x
  BY <1>4 DEF Screen!Max
<1> QED
  BY <1>5

LEMMA LowestNumber ==
    ASSUME NEW S \in SUBSET Nat, S # {}
    PROVE  Screen!Min(S) \in S
  BY LeastNumber DEF Screen!Min

-----------------------------------------------------------------------------
(* Its tasks *)

\* What is left of a task at some time.
StepLists == {<<"seasons">>, <<"data">>, <<"save", "data">>, <<"save", "seasons", "data">>,
              <<"seasons", "data">>, <<"record">>, <<"create", "seasons", "data">>,
              <<"prompt", "current", "seasons", "data">>, <<"current", "seasons", "data">>}

Answers == [done : {TRUE}, all : SUBSET Years, current : Years \cup {Nobody},
            missing : Years \cup {Nobody}]
           \cup [done : {TRUE}, current : Years \cup {Nobody}]
           \cup [done : {TRUE}, games : SUBSET Screen!Days] \cup [done : BOOLEAN]
ScreenTask == [turn : Nat, steps : StepLists, of : Years \cup {Nobody}, knew : SUBSET Years,
               makes : Nat \cup {Nobody}, goes : Years \cup {Nobody}, here : BOOLEAN,
               answer : Answers \cup {Nobody}]

\* What a task knows of the seasons there are, and what it was told of them.
Fits(t, all) ==
    /\ t.of \in all \cup {Nobody} /\ t.knew \subseteq all /\ t.goes \in all \cup {Nobody}
    /\ t.goes # Nobody => t.makes # Nobody
    /\ Head(t.steps) \in {"create", "prompt"} => t.makes \in Years
    /\ Head(t.steps) = "current" => t.makes # Nobody
    /\ Head(t.steps) = "record" => t.makes \in Screen!Days
    /\ t.answer # Nobody =>
          /\ Head(t.steps) = "seasons" =>
                t.answer.all \subseteq all /\ (InOrder => t.answer.all = all)
                /\ t.answer.current \in all \cup {Nobody}
                /\ t.answer.missing \in Years \cup {Nobody}
          /\ Head(t.steps) = "current" => t.answer.current \in all \cup {Nobody}
          /\ Head(t.steps) = "data" => t.answer.games \subseteq Screen!Days
          /\ Head(t.steps) = "create" /\ t.answer.done => t.makes \in all

\* Each has a turn of its own, and what is answered was asked before the rest, if the
\* network keeps their order.
Fine(those, all) ==
    /\ IsFiniteSet(those) /\ those \subseteq ScreenTask
    /\ \A t, u \in those : t.turn = u.turn => t = u
    /\ \A t \in those : Fits(t, all)
    /\ InOrder => \A t, u \in those : t.answer # Nobody => t.turn <= u.turn

SeasonInv ==
    /\ Fine(tasks, seasons)
    /\ seasons \subseteq Years /\ games \subseteq Screen!Days
    /\ season \in seasons \cup {Nobody} /\ listed \subseteq seasons
    /\ missing \in Years \cup {Nobody} /\ lists.games \subseteq Screen!Days
    /\ tab \in {"game", "manage"} /\ presses \in Nat /\ failures \in Nat
    /\ chosen \in [day : Nat \cup {Nobody}, byHand : BOOLEAN] /\ Screen!NeverAFinishedGame

LEMMA StepFacts ==
    /\ \A s \in StepLists : Tail(s) \in StepLists \cup {<<>>}
    /\ \A s \in StepLists : Tail(s) # <<>> =>
          Head(Tail(s)) \in {"seasons", "data", "current"}
          /\ (Head(Tail(s)) = "current" => Head(s) = "prompt")
    /\ \A s \in StepLists : s # <<>> /\ Head(s) \in {"seasons", "data", "save", "record",
                                                     "create", "prompt", "current"}
  BY DEF StepLists

LEMMA FineAmong ==
    ASSUME NEW those, NEW all, Fine(those, all), NEW some \in SUBSET those
    PROVE  Fine(some, all)
  BY FS_Subset DEF Fine

\* A task started takes a turn after the others.
LEMMA StartedIsLast ==
    ASSUME NEW those, NEW all, Fine(those, all), NEW task \in ScreenTask
    PROVE  \E new \in ScreenTask :
              /\ Screen!Started(those, task) = those \cup {new}
              /\ new.steps = task.steps /\ new.of = task.of /\ new.makes = task.makes
              /\ new.goes = task.goes /\ new.knew = task.knew /\ new.answer = task.answer
              /\ \A t \in those : t.turn < new.turn
<1> DEFINE turns == {0} \cup {t.turn : t \in those}
           last == Screen!Max(turns)
           new == [task EXCEPT !.turn = 1 + last]
<1>1. turns \in SUBSET Nat /\ IsFiniteSet(turns)
  <2>1. IsFiniteSet({t.turn : t \in those})
    <3>1. [t \in those |-> t.turn] \in Surjection(those, {t.turn : t \in those})
      BY DEF Surjection
    <3> QED
      BY <3>1, FS_Surjection DEF Fine
  <2>2. IsFiniteSet(turns)
    BY <2>1, FS_Singleton, FS_Union
  <2> QED
    BY <2>2 DEF Fine, ScreenTask
<1>2. last \in Nat /\ \A t \in those : t.turn <= last
  BY <1>1, HighestNumber
<1>3. Screen!Started(those, task) = those \cup {new}
  BY DEF Screen!Started
<1> HIDE DEF last, turns
<1>4. /\ new \in ScreenTask /\ new.turn = 1 + last /\ new.steps = task.steps
      /\ new.of = task.of /\ new.makes = task.makes /\ new.goes = task.goes
      /\ new.knew = task.knew /\ new.answer = task.answer
  BY <1>2 DEF ScreenTask
<1> HIDE DEF new
<1>5. \A t \in those : t.turn < new.turn
  BY <1>2, <1>4 DEF Fine, ScreenTask
<1> QED
  BY <1>3, <1>4, <1>5

LEMMA StartedIsFine ==
    ASSUME NEW those, NEW all, Fine(those, all), NEW task \in ScreenTask,
           Fits(task, all), task.answer = Nobody
    PROVE  Fine(Screen!Started(those, task), all)
<1>1. PICK new \in ScreenTask :
         /\ Screen!Started(those, task) = those \cup {new}
         /\ new.steps = task.steps /\ new.of = task.of /\ new.makes = task.makes
         /\ new.goes = task.goes /\ new.knew = task.knew /\ new.answer = task.answer
         /\ \A t \in those : t.turn < new.turn
  BY StartedIsLast
<1>2. Fits(new, all) /\ new.answer = Nobody
  BY <1>1 DEF Fits
<1>3. new.turn \in Nat /\ \A t \in those : t.turn \in Nat
  BY DEF Fine, ScreenTask
<1>4. IsFiniteSet(those \cup {new})
  BY FS_AddElement DEF Fine
<1>5. \A t, u \in those \cup {new} : t.turn = u.turn => t = u
  BY <1>1, <1>3 DEF Fine
<1>6. ASSUME InOrder, NEW t \in those \cup {new}, NEW u \in those \cup {new}, t.answer # Nobody
      PROVE  t.turn <= u.turn
  <2>1. t \in those
    BY <1>2, <1>6
  <2>2. CASE u \in those
    BY <1>6, <2>1, <2>2 DEF Fine
  <2>3. CASE u = new
    BY <1>1, <1>3, <2>1, <2>3
  <2> QED
    BY <2>2, <2>3
<1>7. those \cup {new} \subseteq ScreenTask /\ (\A t \in those \cup {new} : Fits(t, all))
  BY <1>2 DEF Fine
<1> QED
  BY <1>1, <1>4, <1>5, <1>6, <1>7 DEF Fine

LEMMA TaskIsOne ==
    ASSUME Screen!SeasonScreenAssumption, SeasonInv, NEW steps \in StepLists,
           NEW makes \in Nat \cup {Nobody}, NEW s \in seasons \cup {Nobody},
           Head(steps) \in {"create", "prompt"} => makes \in Years,
           Head(steps) = "record" => makes \in Screen!Days, Head(steps) # "current"
    PROVE  LET t == [Screen!Task(steps, makes) EXCEPT !.of = s]
           IN t \in ScreenTask /\ Fits(t, seasons) /\ t.answer = Nobody
<1> DEFINE t == [turn |-> 0, steps |-> steps, of |-> s, knew |-> listed, makes |-> makes,
                 goes |-> Nobody, here |-> tab = "game", answer |-> Nobody]
<1>1. [Screen!Task(steps, makes) EXCEPT !.of = s] = t
  BY DEF Screen!Task
<1>2. t \in ScreenTask
  BY DEF ScreenTask, SeasonInv
<1>3. Fits(t, seasons)
  BY DEF Fits, SeasonInv
<1> QED
  BY <1>1, <1>2, <1>3

LEMMA LookingIsFine ==
    ASSUME Screen!SeasonScreenAssumption, SeasonInv, NEW those, Fine(those, seasons),
           NEW s \in seasons \cup {Nobody}
    PROVE  Fine(Screen!Looking(those, s), seasons)
<1>1. <<"data">> \in StepLists /\ Head(<<"data">>) = "data"
  BY DEF StepLists
<1>2. LET t == [Screen!Task(<<"data">>, Nobody) EXCEPT !.of = s]
      IN t \in ScreenTask /\ Fits(t, seasons) /\ t.answer = Nobody
  BY <1>1, TaskIsOne
<1> QED
  BY <1>2, StartedIsFine DEF Screen!Looking

\* What is left of a task asks what its season or what it was told allows.
LEMMA ContinuedIsFine ==
    ASSUME Screen!SeasonScreenAssumption, SeasonInv, NEW t \in tasks,
           Head(t.steps) = "current" => t.answer # Nobody
    PROVE  Fine(Screen!Continued(t), seasons)
<1> DEFINE goes == IF Head(t.steps) = "current" THEN t.answer.current ELSE t.goes
           rest == [t EXCEPT !.steps = Screen!Rest(t), !.answer = Nobody, !.goes = goes]
<1>0. t \in ScreenTask /\ Fits(t, seasons) /\ seasons \subseteq Years
  BY DEF SeasonInv, Fine
<1>1. Fine(tasks \ {t}, seasons)
  BY FineAmong DEF SeasonInv
<1>2. ASSUME Screen!Rest(t) # <<>> PROVE Fine(Screen!Started(tasks \ {t}, rest), seasons)
  <2>1. /\ Screen!Rest(t) = Tail(t.steps) /\ Tail(t.steps) \in StepLists
        /\ Head(Tail(t.steps)) \in {"seasons", "data", "current"}
        /\ (Head(Tail(t.steps)) = "current" => Head(t.steps) = "prompt")
    BY <1>0, <1>2, StepFacts DEF Screen!Rest, ScreenTask
  <2>2. goes \in seasons \cup {Nobody} /\ (goes # Nobody => t.makes # Nobody)
    BY <1>0 DEF Fits
  <2>3. Head(t.steps) = "prompt" => t.makes # Nobody
    BY <1>0 DEF Fits, Screen!SeasonScreenAssumption
  <2> HIDE DEF goes
  <2>4. rest \in ScreenTask /\ rest.answer = Nobody
    BY <1>0, <2>1, <2>2 DEF ScreenTask
  <2>5. /\ rest.of = t.of /\ rest.knew = t.knew /\ rest.makes = t.makes /\ rest.goes = goes
        /\ rest.steps = Tail(t.steps)
    BY <1>0, <2>1 DEF ScreenTask
  <2> HIDE DEF rest
  <2>6. Fits(rest, seasons)
    BY <1>0, <2>1, <2>2, <2>3, <2>4, <2>5 DEF Fits
  <2> QED
    BY <1>1, <2>4, <2>6, StartedIsFine
<1> QED
  BY <1>1, <1>2 DEF Screen!Continued

-----------------------------------------------------------------------------
(* What each step does to them *)

LEMMA ScreenAtFirst ==
    ASSUME Screen!SeasonScreenAssumption, Screen!Init PROVE SeasonInv
<1> DEFINE t == [turn |-> 0, steps |-> <<"seasons">>, of |-> Nobody, knew |-> {},
                 makes |-> Nobody, goes |-> Nobody, here |-> TRUE, answer |-> Nobody]
<1>1. t \in ScreenTask /\ t.answer = Nobody
  BY DEF ScreenTask, StepLists
<1>2. Fits(t, seasons)
  BY DEF Fits
<1>3. Fine({}, seasons)
  BY FS_EmptySet DEF Fine
<1>4. Screen!Task(<<"seasons">>, Nobody) = t
  BY DEF Screen!Task, Screen!Init
<1>5. Fine(tasks, seasons)
  BY <1>1, <1>2, <1>3, <1>4, StartedIsFine DEF Screen!Init
<1>6. FirstGames \subseteq Screen!Days /\ FirstSeasons \subseteq Years
  BY DEF Screen!SeasonScreenAssumption
<1> QED
  BY <1>5, <1>6 DEF SeasonInv, Screen!Init, Screen!NoGame, Screen!NeverAFinishedGame

LEMMA PressedKeeps ==
    ASSUME Screen!SeasonScreenAssumption, SeasonInv, NEW steps \in StepLists,
           NEW makes \in Nat \cup {Nobody}, Head(steps) \in {"create", "prompt"} => makes \in Years,
           Head(steps) = "record" => makes \in Screen!Days, Head(steps) # "current",
           Screen!Pressed(steps, makes)
    PROVE  SeasonInv'
<1> DEFINE t == [Screen!Task(steps, makes) EXCEPT !.of = season]
<1>0. season \in seasons \cup {Nobody} /\ Fine(tasks, seasons)
  BY DEF SeasonInv
<1>1. t \in ScreenTask /\ Fits(t, seasons) /\ t.answer = Nobody
  BY <1>0, TaskIsOne
<1>2. Screen!Task(steps, makes) = t
  BY DEF Screen!Task
<1> HIDE DEF t
<1>3. Fine(tasks', seasons)
  BY <1>0, <1>1, <1>2, StartedIsFine DEF Screen!Pressed
<1> QED
  BY <1>3 DEF SeasonInv, Screen!Pressed, Screen!server, Screen!page, Screen!NeverAFinishedGame

\* A game opened on is not one that is over, unless the organiser chose it.
OpensWell(one) ==
    /\ one \in [day : Nat \cup {Nobody}, byHand : BOOLEAN]
    /\ one.day # Nobody /\ ~one.byHand => ~(one.day < Today /\ one.day \in PlayedGames)

LEMMA OpenedIsADay ==
    ASSUME Screen!SeasonScreenAssumption, NEW of \in SUBSET Screen!Days
    PROVE  OpensWell(Screen!Opened(of))
<1> DEFINE upcoming == {g \in of : g >= Today}
           waiting  == of \ PlayedGames
<1>1. upcoming \in SUBSET Nat /\ waiting \in SUBSET Nat /\ IsFiniteSet(waiting) /\ Today \in Nat
  <2>1. IsFiniteSet(Screen!Days) /\ Screen!Days \subseteq Nat /\ {Today} \subseteq Screen!Days
    BY DEF Screen!SeasonScreenAssumption, Screen!IsFiniteSet, IsFiniteSet
  <2>2. waiting \in SUBSET Screen!Days
    OBVIOUS
  <2> QED
    BY <2>1, <2>2, FS_Subset
<1>2. CASE upcoming # {}
  <2>1. Screen!Default(of) = Screen!Min(upcoming) /\ Screen!Min(upcoming) \in upcoming
    BY <1>1, <1>2, LowestNumber DEF Screen!Default
  <2> QED
    BY <1>1, <2>1 DEF Screen!Opened, OpensWell
<1>3. CASE upcoming = {} /\ waiting # {}
  <2>1. Screen!Default(of) = Screen!Max(waiting) /\ Screen!Max(waiting) \in waiting
    BY <1>1, <1>3, HighestNumber DEF Screen!Default
  <2> QED
    BY <1>1, <2>1 DEF Screen!Opened, OpensWell
<1>4. CASE upcoming = {} /\ waiting = {}
  BY <1>4 DEF Screen!Default, Screen!Opened, OpensWell
<1> QED
  BY <1>2, <1>3, <1>4

LEMMA OrganiserKeeps ==
    ASSUME Screen!SeasonScreenAssumption, SeasonInv,
           \/ \E s \in Years : Screen!Choose(s) \/ Screen!CreateNamed(s)
           \/ \E d \in Screen!Days : Screen!Select(d) \/ Screen!Record(d)
           \/ Screen!Open \/ Screen!Save \/ Screen!CreateMissing
    PROVE  SeasonInv'
<1>0. Fine(tasks, seasons) /\ Years \subseteq Nat /\ Screen!Days \subseteq Nat /\ Nobody \notin Nat
  BY DEF SeasonInv, Screen!SeasonScreenAssumption
<1>1. ASSUME NEW s \in Years, Screen!Choose(s) PROVE SeasonInv'
  <2>1. s \in seasons \cup {Nobody}
    BY <1>1 DEF Screen!Choose, SeasonInv
  <2>2. Fine(tasks', seasons)
    BY <1>0, <1>1, <2>1, LookingIsFine DEF Screen!Choose
  <2> QED
    BY <1>1, <2>1, <2>2
    DEF SeasonInv, Screen!Choose, Screen!server, Screen!NeverAFinishedGame
<1>2. ASSUME NEW s \in Years, Screen!CreateNamed(s) PROVE SeasonInv'
  <2>1. <<"create", "seasons", "data">> \in StepLists
        /\ Head(<<"create", "seasons", "data">>) = "create"
    BY DEF StepLists
  <2>2. s \in Nat \cup {Nobody}
    BY <1>0
  <2> QED
    BY <1>2, <2>1, <2>2, PressedKeeps DEF Screen!CreateNamed
<1>3. ASSUME NEW d \in Screen!Days, Screen!Select(d) PROVE SeasonInv'
  BY <1>0, <1>3
  DEF SeasonInv, Screen!Select, Screen!server, Screen!bounds, Screen!NeverAFinishedGame
<1>4. ASSUME NEW d \in Screen!Days, Screen!Record(d) PROVE SeasonInv'
  <2>1. <<"record">> \in StepLists /\ Head(<<"record">>) = "record"
    BY DEF StepLists
  <2>2. d \in Nat \cup {Nobody}
    BY <1>0
  <2> QED
    BY <1>4, <2>1, <2>2, PressedKeeps DEF Screen!Record
<1>5. CASE Screen!Open
  <2> DEFINE Moved(t) == [t EXCEPT !.here = FALSE]
  <2>1. \A t \in tasks : /\ Moved(t) \in ScreenTask /\ Moved(t).turn = t.turn
                         /\ Moved(t).answer = t.answer
                         /\ Fits(Moved(t), seasons)
    <3>1. ASSUME NEW t \in tasks PROVE Moved(t) \in ScreenTask /\ Moved(t).turn = t.turn
                         /\ Moved(t).answer = t.answer /\ Fits(Moved(t), seasons)
      <4>1. t \in ScreenTask /\ Fits(t, seasons)
        BY <1>0 DEF Fine
      <4>2. /\ Moved(t) \in ScreenTask /\ Moved(t).turn = t.turn /\ Moved(t).answer = t.answer
            /\ Moved(t).of = t.of /\ Moved(t).knew = t.knew /\ Moved(t).goes = t.goes
            /\ Moved(t).makes = t.makes /\ Moved(t).steps = t.steps
        BY <4>1 DEF ScreenTask
      <4> QED
        BY <4>1, <4>2 DEF Fits
    <3> QED
      BY <3>1
  <2>2. tasks' = {Moved(t) : t \in tasks}
    BY <1>5 DEF Screen!Open
  <2> HIDE DEF Moved
  <2>3. IsFiniteSet(tasks')
    <3>1. [t \in tasks |-> Moved(t)] \in Surjection(tasks, {Moved(t) : t \in tasks})
      BY DEF Surjection
    <3> QED
      BY <1>0, <2>2, <3>1, FS_Surjection DEF Fine
  <2>4. Fine(tasks', seasons)
    BY <1>0, <2>1, <2>2, <2>3 DEF Fine
  <2>5. /\ chosen' \in [day : Nat \cup {Nobody}, byHand : BOOLEAN] /\ tab' \in {"game", "manage"}
        /\ Screen!NeverAFinishedGame'
    <3>1. OpensWell(Screen!Opened(lists.games))
      BY OpenedIsADay DEF SeasonInv
    <3>2. OpensWell(Screen!NoGame)
      BY DEF Screen!NoGame, OpensWell
    <3>3. \/ tab' = "manage" /\ chosen' = Screen!NoGame
          \/ tab' = "game" /\ chosen' = Screen!Opened(lists.games)
      BY <1>5 DEF Screen!Open
    <3> QED
      BY <3>1, <3>2, <3>3 DEF OpensWell, Screen!NeverAFinishedGame
  <2> QED
    BY <1>5, <2>4, <2>5 DEF SeasonInv, Screen!Open, Screen!server, Screen!bounds
<1>6. CASE Screen!Save
  <2> DEFINE steps == IF tab = "game" THEN <<"save", "data">> ELSE <<"save", "seasons", "data">>
  <2>1. steps \in StepLists /\ Head(steps) = "save"
    BY DEF StepLists
  <2>2. Screen!Pressed(steps, Nobody)
    BY <1>6 DEF Screen!Save
  <2> HIDE DEF steps
  <2> QED
    BY <2>1, <2>2, PressedKeeps
<1>7. CASE Screen!CreateMissing
  <2>1. <<"prompt", "current", "seasons", "data">> \in StepLists
        /\ Head(<<"prompt", "current", "seasons", "data">>) = "prompt"
    BY DEF StepLists
  <2>2. missing \in Years /\ missing \in Nat \cup {Nobody}
    BY <1>0, <1>7 DEF Screen!CreateMissing, SeasonInv
  <2> QED
    BY <1>7, <2>1, <2>2, PressedKeeps DEF Screen!CreateMissing
<1> QED
  BY <1>1, <1>2, <1>3, <1>4, <1>5, <1>6, <1>7

\* In order, what is answered is so as long as nothing else is done: it was asked first.
LEMMA PerformIsInTurn ==
    ASSUME Screen!SeasonScreenAssumption, SeasonInv, Screen!Perform PROVE SeasonInv'
<1>0. /\ Fine(tasks, seasons) /\ seasons \subseteq Years /\ games \subseteq Screen!Days
      /\ SeasonOf \in [Screen!Days -> Years] /\ Nobody \notin Nat /\ Years \subseteq Nat
      /\ Today \in Screen!Days /\ UtcToday \in Screen!Days
  BY DEF SeasonInv, Screen!SeasonScreenAssumption
<1>1. PICK t \in tasks :
         /\ t.answer = Nobody /\ Screen!InTurn(t)
         /\ tasks' = (tasks \ {t}) \cup {[t EXCEPT !.answer = Screen!Answer(t)]}
         /\ seasons' = IF Head(t.steps) \in {"create", "prompt"} THEN seasons \cup {t.makes}
                       ELSE seasons
         /\ games' = IF Head(t.steps) = "record" /\ SeasonOf[t.makes] \in seasons
                     THEN games \cup {t.makes} ELSE games
         /\ UNCHANGED <<season, listed, lists, missing, tab, chosen, error, presses, failures>>
  BY DEF Screen!Perform, Screen!page, Screen!bounds
<1> DEFINE told == [t EXCEPT !.answer = Screen!Answer(t)]
<1>2. /\ t \in ScreenTask /\ Fits(t, seasons) /\ t.steps \in StepLists
      /\ Head(t.steps) \in {"seasons", "data", "save", "record", "create", "prompt", "current"}
  BY <1>0, StepFacts DEF Fine, ScreenTask
<1>3. InOrder => \A u \in tasks : t.turn <= u.turn
  BY <1>1 DEF Screen!InTurn
<1>4. seasons \subseteq seasons' /\ seasons' \subseteq Years
  BY <1>0, <1>1, <1>2 DEF Fits
<1>5. games' \subseteq Screen!Days
  BY <1>0, <1>1, <1>2 DEF Fits
<1>6. InOrder => \A u \in tasks \ {t} : u.answer = Nobody
  BY <1>0, <1>3 DEF Fine, ScreenTask
<1>7. Screen!Answer(t) \in Answers /\ Fits(told, seasons')
  <2>0. /\ told.of = t.of /\ told.knew = t.knew /\ told.makes = t.makes /\ told.goes = t.goes
        /\ told.steps = t.steps /\ told.answer = Screen!Answer(t)
    BY <1>2 DEF ScreenTask
  <2> HIDE DEF told
  <2>1. \A d \in Screen!Days : Screen!Current(d) \in seasons \cup {Nobody}
    BY DEF Screen!Current
  <2>2. CASE Head(t.steps) = "seasons"
    <3> DEFINE answer == [done |-> TRUE, all |-> seasons, current |-> Screen!Current(UtcToday),
                          missing |-> IF Screen!Current(Today) = Nobody THEN SeasonOf[Today]
                                      ELSE Nobody]
    <3>1. Screen!Answer(t) = answer
      BY <2>2 DEF Screen!Answer
    <3>2. /\ Screen!Current(UtcToday) \in seasons \cup {Nobody}
          /\ SeasonOf[Today] \in Years
      BY <1>0, <2>1
    <3>3. answer \in Answers /\ answer.all = seasons /\ answer.current \in seasons \cup {Nobody}
          /\ answer.missing \in Years \cup {Nobody}
      BY <1>0, <3>2 DEF Answers
    <3>4. seasons' = seasons
      BY <1>1, <2>2
    <3> HIDE DEF answer
    <3> QED
      BY <1>2, <2>0, <2>2, <3>1, <3>3, <3>4 DEF Fits
  <2>3. CASE Head(t.steps) = "current"
    <3> DEFINE answer == [done |-> TRUE, current |-> Screen!Current(UtcToday)]
    <3>1. Screen!Answer(t) = answer
      BY <2>3 DEF Screen!Answer
    <3>2. answer \in Answers /\ answer.current \in seasons \cup {Nobody}
      BY <1>0, <2>1 DEF Answers
    <3> HIDE DEF answer
    <3> QED
      BY <1>2, <1>4, <2>0, <2>3, <3>1, <3>2 DEF Fits
  <2>4. CASE Head(t.steps) = "data"
    <3> DEFINE answer == [done |-> TRUE, games |-> Screen!GamesOf(t.of)]
    <3>1. Screen!Answer(t) = answer
      BY <2>4 DEF Screen!Answer
    <3>2. answer \in Answers /\ answer.games \subseteq Screen!Days
      BY <1>0 DEF Answers, Screen!GamesOf
    <3> HIDE DEF answer
    <3> QED
      BY <1>2, <1>4, <2>0, <2>4, <3>1, <3>2 DEF Fits
  <2>5. CASE Head(t.steps) \in {"create", "prompt", "record", "save"}
    <3>1. Screen!Answer(t) \in [done : BOOLEAN]
      BY <2>5 DEF Screen!Answer
    <3>2. Head(t.steps) = "create" => t.makes \in seasons'
      BY <1>1
    <3> QED
      BY <1>2, <1>4, <2>0, <2>5, <3>1, <3>2 DEF Fits, Answers
  <2> QED
    BY <1>2, <2>2, <2>3, <2>4, <2>5
<1>8. told \in ScreenTask /\ told.turn = t.turn
  BY <1>2, <1>7 DEF ScreenTask
<1>9. tasks' = (tasks \ {t}) \cup {told}
  BY <1>1
<1> HIDE DEF told
<1>10. \A u \in tasks \ {t} : Fits(u, seasons')
  <2>1. ASSUME NEW u \in tasks \ {t} PROVE Fits(u, seasons')
    <3>1. Fits(u, seasons) /\ (InOrder => u.answer = Nobody)
      BY <1>0, <1>6 DEF Fine
    <3> QED
      BY <1>4, <3>1 DEF Fits
  <2> QED
    BY <2>1
<1>11. IsFiniteSet(tasks')
  BY <1>0, <1>9, FS_Subset, FS_AddElement DEF Fine
<1>12. \A u, v \in tasks' : u.turn = v.turn => u = v
  BY <1>0, <1>1, <1>8, <1>9 DEF Fine
<1>13. InOrder => \A u, v \in tasks' : u.answer # Nobody => u.turn <= v.turn
  <2>1. t.turn \in Nat
    BY <1>2 DEF ScreenTask
  <2> QED
    BY <1>3, <1>6, <1>8, <1>9, <2>1
<1>14. tasks' \subseteq ScreenTask /\ (\A u \in tasks' : Fits(u, seasons'))
  BY <1>0, <1>7, <1>8, <1>9, <1>10 DEF Fine
<1>15. Fine(tasks', seasons')
  BY <1>11, <1>12, <1>13, <1>14 DEF Fine
<1> QED
  BY <1>1, <1>4, <1>5, <1>15 DEF SeasonInv, Screen!NeverAFinishedGame

\* A task that moves the page is one that was to make something.
LEMMA MovedKeeps ==
    ASSUME Screen!SeasonScreenAssumption, SeasonInv, NEW t \in tasks, Screen!Moved(t),
           Head(t.steps) \in {"seasons", "data"},
           UNCHANGED <<seasons, games, listed, missing, tab, presses>>,
           lists'.games \subseteq Screen!Days, failures' \in Nat,
           chosen' \in [day : Nat \cup {Nobody}, byHand : BOOLEAN], Screen!NeverAFinishedGame'
    PROVE  SeasonInv' /\ (season' # season => t.makes # Nobody)
<1>1. Fits(t, seasons) /\ Fine(Screen!Continued(t), seasons)
  BY ContinuedIsFine DEF SeasonInv, Fine
<1>2. CASE Screen!Moves(t)
  <2>1. season' = t.goes /\ t.goes \in seasons \cup {Nobody} /\ t.goes # Nobody
        /\ tasks' = Screen!Looking(Screen!Continued(t), t.goes)
    BY <1>1, <1>2 DEF Screen!Moved, Screen!Moves, Fits
  <2>2. Fine(tasks', seasons)
    BY <1>1, <2>1, LookingIsFine
  <2> QED
    BY <1>1, <2>1, <2>2 DEF SeasonInv, Fits
<1>3. CASE ~Screen!Moves(t)
  BY <1>1, <1>3 DEF Screen!Moved, SeasonInv
<1> QED
  BY <1>2, <1>3

\* The season that is kept is one there is, and the one looked at if it was.
LEMMA KeptIsThere ==
    ASSUME Screen!SeasonScreenAssumption, SeasonInv, NEW t \in tasks,
           t.answer # Nobody, Head(t.steps) = "seasons"
    PROVE  /\ Screen!Kept(t.answer) \in seasons \cup {Nobody}
           /\ InOrder /\ season # Nobody => Screen!Kept(t.answer) = season
<1>1. t.answer.all \subseteq seasons /\ (InOrder => t.answer.all = seasons)
      /\ t.answer.current \in seasons \cup {Nobody}
  BY DEF SeasonInv, Fine, Fits
<1>2. seasons \in SUBSET Nat /\ IsFiniteSet(seasons) /\ season \in seasons \cup {Nobody}
      /\ Nobody \notin Nat
  <2>1. Years \subseteq Nat /\ IsFiniteSet(Years) /\ Nobody \notin Nat
    BY DEF Screen!SeasonScreenAssumption, Screen!IsFiniteSet, IsFiniteSet
  <2>2. seasons \in SUBSET Years /\ season \in seasons \cup {Nobody}
    BY DEF SeasonInv
  <2> QED
    BY <2>1, <2>2, FS_Subset
<1>3. t.answer.all # {} => Screen!Max(t.answer.all) \in t.answer.all
  BY <1>1, <1>2, FS_Subset, HighestNumber
<1> QED
  BY <1>1, <1>2, <1>3 DEF Screen!Kept

LEMMA ArriveKeeps ==
    ASSUME Screen!SeasonScreenAssumption, SeasonInv, NEW t \in tasks, Screen!InTurn(t),
           \/ Screen!SeasonsRead(t) \/ Screen!ListsRead(t) \/ Screen!Saved(t) \/ Screen!Created(t)
           \/ Screen!PromptCreated(t) \/ Screen!CurrentRead(t) \/ Screen!Recorded(t)
           \/ Screen!Refused(t)
    PROVE  SeasonInv' /\ t.answer # Nobody
           /\ (InOrder /\ season # Nobody /\ season' # season => t.makes # Nobody)
<1>0. /\ Fine(tasks, seasons) /\ t \in ScreenTask /\ Fits(t, seasons) /\ Fine(tasks \ {t}, seasons)
      /\ season \in seasons \cup {Nobody}
      /\ (Head(t.steps) = "current" => t.answer # Nobody) => Fine(Screen!Continued(t), seasons)
  BY ContinuedIsFine, FineAmong DEF SeasonInv, Fine
<1>a. Nobody \notin Nat /\ Years \subseteq Nat /\ Screen!Days \subseteq Nat
      /\ SeasonOf \in [Screen!Days -> Years]
  BY DEF Screen!SeasonScreenAssumption
<1>1. CASE Screen!SeasonsRead(t)
  <2>1. t.answer # Nobody /\ Head(t.steps) = "seasons"
        /\ t.answer.all \subseteq seasons /\ t.answer.missing \in Years \cup {Nobody}
    BY <1>0, <1>1 DEF Screen!SeasonsRead, Screen!Asks, Fits
  <2>2. /\ season' \in seasons \cup {Nobody}
        /\ InOrder /\ season # Nobody /\ season' # season => t.makes # Nobody
    BY <1>0, <1>1, <2>1, KeptIsThere DEF Screen!SeasonsRead, Screen!Moves, Fits
  <2>3. Fine(tasks', seasons)
    BY <1>0, <1>1, <2>1, <2>2, LookingIsFine DEF Screen!SeasonsRead
  <2> QED
    BY <1>1, <2>1, <2>2, <2>3
    DEF SeasonInv, Screen!SeasonsRead, Screen!server, Screen!bounds, Screen!NeverAFinishedGame
<1>2. CASE Screen!ListsRead(t)
  <2>1. t.answer # Nobody /\ Head(t.steps) = "data" /\ t.answer.games \subseteq Screen!Days
    BY <1>0, <1>2 DEF Screen!ListsRead, Screen!Asks, Fits
  <2>2. OpensWell(Screen!Opened(t.answer.games))
    BY <2>1, OpenedIsADay
  <2>3. /\ chosen' \in [day : Nat \cup {Nobody}, byHand : BOOLEAN]
        /\ lists'.games \subseteq Screen!Days /\ failures' \in Nat /\ Screen!NeverAFinishedGame'
    BY <1>2, <2>1, <2>2
    DEF SeasonInv, Screen!ListsRead, Screen!bounds, OpensWell, Screen!NeverAFinishedGame
  <2> QED
    BY <1>2, <2>1, <2>3, MovedKeeps DEF Screen!ListsRead, Screen!server, Screen!bounds
<1>3. CASE Screen!Saved(t) \/ Screen!PromptCreated(t) \/ Screen!CurrentRead(t)
  <2>1. /\ t.answer # Nobody /\ tasks' = Screen!Continued(t)
        /\ UNCHANGED <<seasons, games, season, listed, lists, missing, tab, chosen, error,
                       presses, failures>>
    BY <1>3 DEF Screen!Saved, Screen!PromptCreated, Screen!CurrentRead, Screen!Asks,
                Screen!server, Screen!page, Screen!bounds
  <2> QED
    BY <1>0, <2>1 DEF SeasonInv, Screen!NeverAFinishedGame
<1>4. CASE Screen!Created(t)
  <2>1. t.answer # Nobody /\ Head(t.steps) = "create" /\ t.makes \in seasons
    BY <1>0, <1>4 DEF Screen!Created, Screen!Asks, Fits
  <2>2. Fine(tasks', seasons)
    BY <1>0, <1>4, <2>1, LookingIsFine DEF Screen!Created
  <2>3. t.makes # Nobody
    BY <1>a, <2>1 DEF SeasonInv
  <2> QED
    BY <1>4, <2>1, <2>2, <2>3
    DEF SeasonInv, Screen!Created, Screen!server, Screen!bounds, Screen!NeverAFinishedGame
<1>5. CASE Screen!Recorded(t)
  <2> DEFINE s == SeasonOf[t.makes]
  <2>1. t.answer # Nobody /\ t.makes \in Screen!Days /\ t.knew \subseteq seasons
        /\ t.of \in seasons \cup {Nobody}
    BY <1>0, <1>5 DEF Screen!Recorded, Screen!Asks, Fits
  <2>2. t.makes # Nobody /\ t.makes \in Nat
    BY <1>a, <2>1
  <2>3. /\ season' \in seasons \cup {Nobody}
        /\ tasks' \in {Screen!Looking(tasks \ {t}, t.of), Screen!Looking(tasks \ {t}, season'),
                       tasks \ {t}}
    BY <1>0, <1>5, <2>1 DEF Screen!Recorded, Screen!GoesToTheGame
  <2>4. Fine(tasks', seasons)
    BY <1>0, <2>1, <2>3, LookingIsFine
  <2>5. chosen' \in [day : Nat \cup {Nobody}, byHand : BOOLEAN] /\ Screen!NeverAFinishedGame'
    BY <1>5, <2>2 DEF SeasonInv, Screen!Recorded, Screen!NeverAFinishedGame
  <2> QED
    BY <1>5, <2>1, <2>2, <2>3, <2>4, <2>5
    DEF SeasonInv, Screen!Recorded, Screen!server, Screen!bounds
<1>6. CASE Screen!Refused(t)
  BY <1>0, <1>6
  DEF SeasonInv, Screen!Refused, Screen!server, Screen!page, Screen!bounds,
      Screen!NeverAFinishedGame
<1> QED
  BY <1>1, <1>2, <1>3, <1>4, <1>5, <1>6

LEMMA LossKeeps ==
    ASSUME Screen!SeasonScreenAssumption, SeasonInv, Screen!Lose
    PROVE  SeasonInv' /\ failures' # failures
           /\ (season' # season => \E t \in tasks : t.makes # Nobody)
<1>1. PICK t \in tasks :
         /\ failures' = failures + 1
         /\ \/ Head(t.steps) \in {"seasons", "data"} /\ Screen!Moved(t)
            \/ tasks' = tasks \ {t} /\ UNCHANGED season
         /\ UNCHANGED <<seasons, games, listed, lists, missing, tab, chosen, presses>>
  BY DEF Screen!Lose, Screen!server
<1>2. failures \in Nat /\ failures' \in Nat /\ failures' # failures
  BY <1>1 DEF SeasonInv
<1>3. CASE Head(t.steps) \in {"seasons", "data"} /\ Screen!Moved(t)
  <2>1. /\ lists'.games \subseteq Screen!Days /\ Screen!NeverAFinishedGame'
        /\ chosen' \in [day : Nat \cup {Nobody}, byHand : BOOLEAN]
    BY <1>1 DEF SeasonInv, Screen!NeverAFinishedGame
  <2> QED
    BY <1>1, <1>2, <1>3, <2>1, MovedKeeps
<1>4. CASE tasks' = tasks \ {t} /\ UNCHANGED season
  <2>1. Fine(tasks', seasons)
    BY <1>4, FineAmong DEF SeasonInv
  <2> QED
    BY <1>1, <1>2, <1>4, <2>1 DEF SeasonInv, Screen!NeverAFinishedGame
<1> QED
  BY <1>1, <1>3, <1>4

LEMMA SeasonInvHolds ==
    ASSUME Screen!SeasonScreenAssumption PROVE Screen!Spec => []SeasonInv
<1>1. Screen!Init => SeasonInv
  BY ScreenAtFirst
<1>2. SeasonInv /\ [Screen!Next]_(Screen!vars) => SeasonInv'
  <2> SUFFICES ASSUME SeasonInv, [Screen!Next]_(Screen!vars) PROVE SeasonInv'
    OBVIOUS
  <2>1. CASE Screen!Arrive
    BY <2>1, ArriveKeeps DEF Screen!Arrive
  <2>2. CASE UNCHANGED Screen!vars
    BY <2>2
    DEF SeasonInv, Screen!vars, Screen!server, Screen!page, Screen!bounds,
        Screen!NeverAFinishedGame
  <2> QED
    BY <2>1, <2>2, OrganiserKeeps, PerformIsInTurn, LossKeeps DEF Screen!Next, Screen!Quiet
<1> QED
  BY <1>1, <1>2, PTL DEF Screen!Spec

\* While the network answers in the order it was asked, reading the lists again, or failing to,
\* never moves the page to another season: it changes only when one is chosen, created or gone
\* to for its game (AdminShell.tsx, "Keep the season being looked at").
THEOREM TheSeasonIsKept ==
    ASSUME Screen!SeasonScreenAssumption, InOrder
    PROVE  Screen!Spec => [][Screen!SeasonIsKept]_(Screen!vars)
<1>1. SeasonInv /\ [Screen!Next]_(Screen!vars) => [Screen!SeasonIsKept]_(Screen!vars)
  <2> SUFFICES ASSUME SeasonInv, Screen!Next, season # Nobody, season' # season
               PROVE  \/ tab = "manage" /\ presses' # presses
                      \/ \E t \in tasks : t.makes # Nobody
                                          /\ (t.answer # Nobody \/ failures' # failures)
    BY DEF Screen!SeasonIsKept
  <2>1. ASSUME NEW s \in Years, Screen!Choose(s) PROVE tab = "manage" /\ presses' # presses
    BY <2>1 DEF Screen!Choose, SeasonInv
  <2>2. CASE Screen!Arrive
    BY <2>2, ArriveKeeps DEF Screen!Arrive
  <2>3. CASE Screen!Lose
    BY <2>3, LossKeeps
  <2>4. ~ \E s \in Years : Screen!CreateNamed(s)
    BY DEF Screen!CreateNamed, Screen!Pressed, Screen!page
  <2>5. ~ \E d \in Screen!Days : Screen!Select(d) \/ Screen!Record(d)
    BY DEF Screen!Select, Screen!Record, Screen!Pressed, Screen!page
  <2>6. ~Screen!Open /\ ~Screen!Save /\ ~Screen!CreateMissing /\ ~Screen!Perform /\ ~Screen!Quiet
    BY DEF Screen!Open, Screen!Save, Screen!CreateMissing, Screen!Perform, Screen!Quiet,
           Screen!Pressed, Screen!page, Screen!vars
  <2> QED
    BY <2>1, <2>2, <2>3, <2>4, <2>5, <2>6 DEF Screen!Next
<1> QED
  BY <1>1, SeasonInvHolds, PTL DEF Screen!Spec

\* Whatever order answers come in, the page opens on no game already played in the past
\* (defaultGame.ts, "that would quietly aim a paste at a long-finished game").
THEOREM OpensOnNoFinishedGame ==
    ASSUME Screen!SeasonScreenAssumption PROVE Screen!Spec => []Screen!NeverAFinishedGame
<1>1. SeasonInv => Screen!NeverAFinishedGame
  BY DEF SeasonInv
<1> QED
  BY <1>1, SeasonInvHolds, PTL
-----------------------------------------------------------------------------
(* The lists it holds *)

\* While the organiser waits for what was pressed and the network keeps the order, one task
\* at most is more than lists to be read, and what was pressed is alone until it is answered.
IsRead(t) == t.steps = <<"data">> /\ t.goes = Nobody
Acts(t)   == Head(t.steps) \in {"save", "record", "create", "prompt", "current"}

\* The lists are those of the season looked at, but for a game being recorded in it.
Recording(t) == Head(t.steps) = "record" /\ SeasonOf[t.makes] = t.of
Shown ==
    /\ lists.of = season
    /\ failures = 0 /\ ~(\E t \in tasks : Recording(t)) => lists.games = Screen!GamesOf(season)

\* Something on its way will ask for the lists of the season looked at, or already has and
\* nothing is asked after it.
Coming ==
    \/ \E t \in tasks : Head(t.steps) = "seasons" \/ t.goes # Nobody
    \/ /\ \A t \in tasks : IsRead(t)
       /\ \E t \in tasks : t.of = season /\ \A u \in tasks : u.turn <= t.turn

Answered(those) ==
    \A t \in those :
        /\ Head(t.steps) = "data" =>
              t.of # Nobody /\ (t.answer # Nobody => t.answer.games = Screen!GamesOf(t.of))
        /\ Head(t.steps) \in {"seasons", "data"} /\ t.answer # Nobody => t.answer.done
        /\ Head(t.steps) = "record" /\ t.answer # Nobody =>
              (t.answer.done <=> SeasonOf[t.makes] \in seasons)

ReadsInv ==
    /\ \A t, u \in tasks : IsRead(t) \/ IsRead(u) \/ t = u
    /\ \A t \in tasks : Acts(t) => tasks = {t} /\ t.of = season /\ t.goes = Nobody
    /\ Answered(tasks)
    /\ season = Nobody =>
          lists = [of |-> Nobody, games |-> {}] /\ \A t \in tasks : t.of = Nobody
    /\ error \/ Coming \/ (Shown /\ \A t \in tasks : Acts(t))

LEMMA TailFacts ==
    \A s \in StepLists :
        /\ Head(s) = "data" => s = <<"data">>
        /\ Head(s) = "seasons" => Tail(s) \in {<<>>, <<"data">>}
        /\ Head(s) = "create" => Tail(s) = <<"seasons", "data">>
<1>1. \A s \in StepLists : Head(s) = "data" => s = <<"data">>
  BY DEF StepLists
<1>2. \A s \in StepLists : Head(s) = "seasons" => s \in {<<"seasons">>, <<"seasons", "data">>}
  BY DEF StepLists
<1>3. \A s \in StepLists : Head(s) = "create" => s = <<"create", "seasons", "data">>
  BY DEF StepLists
<1>4. /\ Tail(<<"seasons">>) = <<>> /\ Tail(<<"seasons", "data">>) = <<"data">>
      /\ Tail(<<"create", "seasons", "data">>) = <<"seasons", "data">>
  OBVIOUS
<1> QED
  BY <1>1, <1>2, <1>3, <1>4

LEMMA NoStepIsNone == <<>> \notin StepLists
  BY DEF StepLists

\* Looking at a season asks for its lists after all else.
LEMMA LookingIsLast ==
    ASSUME Screen!SeasonScreenAssumption, SeasonInv, NEW those, Fine(those, seasons),
           NEW s \in seasons
    PROVE  \E new \in ScreenTask :
              /\ Screen!Looking(those, s) = those \cup {new}
              /\ IsRead(new) /\ new.of = s /\ new.answer = Nobody /\ Head(new.steps) = "data"
              /\ \A t \in those : t.turn < new.turn
<1> DEFINE t == [Screen!Task(<<"data">>, Nobody) EXCEPT !.of = s]
           task == [turn |-> 0, steps |-> <<"data">>, of |-> s, knew |-> listed,
                    makes |-> Nobody, goes |-> Nobody, here |-> tab = "game", answer |-> Nobody]
<1>1. t = task
  BY DEF Screen!Task
<1>2. task \in ScreenTask /\ s # Nobody
  BY DEF ScreenTask, StepLists, SeasonInv, Screen!SeasonScreenAssumption
<1>3. Screen!Looking(those, s) = Screen!Started(those, task)
  BY <1>1, <1>2 DEF Screen!Looking
<1>4. PICK new \in ScreenTask :
         /\ Screen!Started(those, task) = those \cup {new}
         /\ new.steps = task.steps /\ new.of = task.of /\ new.makes = task.makes
         /\ new.goes = task.goes /\ new.answer = task.answer
         /\ \A u \in those : u.turn < new.turn
  BY <1>2, StartedIsLast
<1>5. new.steps = <<"data">> /\ new.of = s /\ new.goes = Nobody /\ new.answer = Nobody
  BY <1>4
<1>6. Head(<<"data">>) = "data"
  OBVIOUS
<1> QED
  BY <1>3, <1>4, <1>5, <1>6 DEF IsRead

\* What is left of a task takes its place after all else.
LEMMA ContinuedIsLast ==
    ASSUME Screen!SeasonScreenAssumption, SeasonInv, NEW t \in tasks,
           Head(t.steps) = "current" => t.answer # Nobody
    PROVE  \/ Screen!Rest(t) = <<>> /\ Screen!Continued(t) = tasks \ {t}
           \/ \E new \in ScreenTask :
                 /\ Screen!Continued(t) = (tasks \ {t}) \cup {new}
                 /\ new.steps = Tail(t.steps) /\ Tail(t.steps) \in StepLists /\ new.of = t.of
                 /\ new.goes = IF Head(t.steps) = "current" THEN t.answer.current ELSE t.goes
                 /\ new.answer = Nobody /\ (Tail(t.steps) = <<"data">> => t.of # Nobody)
                 /\ Screen!Rest(t) # <<>>
                 /\ \A u \in tasks \ {t} : u.turn < new.turn
<1> DEFINE goes == IF Head(t.steps) = "current" THEN t.answer.current ELSE t.goes
           rest == [t EXCEPT !.steps = Screen!Rest(t), !.answer = Nobody, !.goes = goes]
<1>0. t \in ScreenTask /\ Fits(t, seasons) /\ seasons \subseteq Years
      /\ Fine(tasks \ {t}, seasons)
  BY FineAmong DEF SeasonInv, Fine
<1>1. CASE Screen!Rest(t) = <<>>
  BY <1>1 DEF Screen!Continued
<1>2. CASE Screen!Rest(t) # <<>>
  <2>1. /\ Screen!Rest(t) = Tail(t.steps) /\ Tail(t.steps) \in StepLists
        /\ (Tail(t.steps) = <<"data">> => t.of # Nobody)
    BY <1>0, <1>2, StepFacts DEF Screen!Rest, ScreenTask
  <2>2. goes \in Years \cup {Nobody}
    BY <1>0 DEF Fits
  <2>3. Screen!Continued(t) = Screen!Started(tasks \ {t}, rest)
    BY <1>2 DEF Screen!Continued
  <2> HIDE DEF goes
  <2>4. /\ rest \in ScreenTask /\ rest.answer = Nobody /\ rest.of = t.of /\ rest.goes = goes
        /\ rest.steps = Tail(t.steps)
    BY <1>0, <2>1, <2>2 DEF ScreenTask
  <2> HIDE DEF rest
  <2>5. PICK new \in ScreenTask :
           /\ Screen!Started(tasks \ {t}, rest) = (tasks \ {t}) \cup {new}
           /\ new.steps = rest.steps /\ new.of = rest.of /\ new.makes = rest.makes
           /\ new.goes = rest.goes /\ new.answer = rest.answer
           /\ \A u \in tasks \ {t} : u.turn < new.turn
    BY <1>0, <2>4, StartedIsLast
  <2>6. /\ new.steps = Tail(t.steps) /\ new.of = t.of /\ new.goes = goes
        /\ new.answer = Nobody
    BY <2>4, <2>5
  <2> QED
    BY <1>2, <2>1, <2>3, <2>5, <2>6 DEF goes
<1> QED
  BY <1>1, <1>2

LEMMA ReadsAtFirst ==
    ASSUME Screen!SeasonScreenAssumption, Screen!Init PROVE ReadsInv
<1> DEFINE t == [turn |-> 0, steps |-> <<"seasons">>, of |-> Nobody, knew |-> {},
                 makes |-> Nobody, goes |-> Nobody, here |-> TRUE, answer |-> Nobody]
<1>1. t \in ScreenTask /\ Fine({}, seasons) /\ Screen!Task(<<"seasons">>, Nobody) = t
  BY FS_EmptySet DEF ScreenTask, StepLists, Fine, Screen!Task, Screen!Init
<1>2. PICK new \in ScreenTask :
         /\ Screen!Started({}, t) = {} \cup {new}
         /\ new.steps = t.steps /\ new.of = t.of /\ new.goes = t.goes /\ new.answer = t.answer
  BY <1>1, StartedIsLast
<1>3. tasks = {new} /\ new.of = Nobody /\ Head(new.steps) = "seasons" /\ new.answer = Nobody
  <2>1. tasks = Screen!Started({}, t)
    BY <1>1 DEF Screen!Init
  <2>2. new.steps = <<"seasons">> /\ new.of = Nobody /\ new.answer = Nobody
    BY <1>2
  <2>3. Head(<<"seasons">>) = "seasons"
    OBVIOUS
  <2> HIDE DEF t
  <2>4. tasks = {new}
    BY <1>2, <2>1
  <2> QED
    BY <2>2, <2>3, <2>4
<1> QED
  BY <1>3 DEF ReadsInv, Screen!Init, Acts, Answered, Coming

\* With the lists of a season asked for after what may still be read, they will be those shown.
LEMMA LookingReads ==
    ASSUME Screen!SeasonScreenAssumption, SeasonInv, NEW those, Fine(those, seasons),
           NEW s \in seasons, season' = s, tasks' = Screen!Looking(those, s), UNCHANGED <<seasons, games>>,
           \A t, u \in those : IsRead(t) \/ IsRead(u) \/ t = u, \A t \in those : ~Acts(t),
           Answered(those)
    PROVE  ReadsInv'
<1>1. PICK new \in ScreenTask :
         /\ Screen!Looking(those, s) = those \cup {new}
         /\ IsRead(new) /\ new.of = s /\ new.answer = Nobody /\ Head(new.steps) = "data"
         /\ \A t \in those : t.turn < new.turn
  BY LookingIsLast
<1>2. s # Nobody /\ tasks' = those \cup {new}
  BY <1>1 DEF SeasonInv, Screen!SeasonScreenAssumption
<1>3. \A t, u \in tasks' : IsRead(t) \/ IsRead(u) \/ t = u
  BY <1>1, <1>2
<1>4. \A t \in tasks' : ~Acts(t)
  BY <1>1, <1>2 DEF Acts
<1>5. \A u \in tasks' : u.turn <= new.turn
  <2>1. new.turn \in Nat /\ \A t \in those : t.turn \in Nat
    BY DEF ScreenTask, Fine
  <2> QED
    BY <1>1, <1>2, <2>1
<1>6. Coming'
  <2>1. ASSUME NEW t \in those, ~IsRead(t) PROVE Head(t.steps) = "seasons" \/ t.goes # Nobody
    <3>1. t.steps \in StepLists
      BY DEF Fine, ScreenTask
    <3>2. Head(t.steps) \in {"seasons", "data"}
      BY <3>1, StepFacts DEF Acts
    <3>3. Head(t.steps) = "data" => t.steps = <<"data">>
      BY <3>1 DEF StepLists
    <3> QED
      BY <2>1, <3>2, <3>3 DEF IsRead
  <2>2. CASE \A t \in those : IsRead(t)
    BY <1>1, <1>2, <1>5, <2>2 DEF Coming
  <2>3. CASE \E t \in those : ~IsRead(t)
    BY <1>2, <2>1, <2>3 DEF Coming
  <2> QED
    BY <2>2, <2>3
<1>7. Answered(tasks)'
  BY <1>1, <1>2 DEF Answered, Screen!GamesOf
<1> QED
  BY <1>2, <1>3, <1>4, <1>6, <1>7 DEF ReadsInv

\* With nothing on its way, either a failure was told or what is shown is so.
LEMMA AtRest ==
    ASSUME ReadsInv, tasks = {} PROVE error \/ Shown
  BY DEF ReadsInv, Coming

LEMMA PressedReads ==
    ASSUME Screen!SeasonScreenAssumption, Patient, SeasonInv, ReadsInv, NEW steps \in StepLists,
           NEW makes \in Nat \cup {Nobody}, Head(steps) \in {"save", "record", "create", "prompt"},
           Head(steps) \in {"create", "prompt"} => makes \in Years,
           Head(steps) = "record" => makes \in Screen!Days, Screen!Pressed(steps, makes)
    PROVE  ReadsInv'
<1> DEFINE t == [Screen!Task(steps, makes) EXCEPT !.of = season]
           task == [turn |-> 0, steps |-> steps, of |-> season, knew |-> listed, makes |-> makes,
                    goes |-> Nobody, here |-> tab = "game", answer |-> Nobody]
<1>1. tasks = {} /\ Fine({}, seasons)
  BY DEF Screen!Pressed, Screen!Waits, SeasonInv
<1>2. task \in ScreenTask /\ Screen!Task(steps, makes) = task
  BY DEF ScreenTask, SeasonInv, Screen!Task
<1>3. PICK new \in ScreenTask :
         /\ Screen!Started({}, task) = {} \cup {new}
         /\ new.steps = task.steps /\ new.of = task.of /\ new.goes = task.goes
         /\ new.answer = task.answer
  BY <1>1, <1>2, StartedIsLast
<1>4. /\ tasks' = {new} /\ new.steps = steps /\ new.of = season /\ new.goes = Nobody
      /\ new.answer = Nobody
  BY <1>1, <1>2, <1>3 DEF Screen!Pressed
<1>5. UNCHANGED <<games, season, lists, error, failures>>
  BY DEF Screen!Pressed, Screen!server, Screen!page
<1>6. error \/ Shown
  BY <1>1, AtRest
<1>7. error' \/ Shown'
  BY <1>1, <1>4, <1>5, <1>6 DEF Shown, Recording, Screen!GamesOf
<1>8. Acts(new) /\ Head(new.steps) \notin {"seasons", "data"}
  BY <1>4 DEF Acts
<1> QED
  BY <1>1, <1>4, <1>5, <1>7, <1>8 DEF ReadsInv, Answered

LEMMA OrganiserReads ==
    ASSUME Screen!SeasonScreenAssumption, Patient, SeasonInv, ReadsInv,
           \/ \E s \in Years : Screen!Choose(s) \/ Screen!CreateNamed(s)
           \/ \E d \in Screen!Days : Screen!Select(d) \/ Screen!Record(d)
           \/ Screen!Open \/ Screen!Save \/ Screen!CreateMissing
    PROVE  ReadsInv'
<1>0. Fine(tasks, seasons) /\ Years \subseteq Nat /\ Screen!Days \subseteq Nat /\ Nobody \notin Nat
  BY DEF SeasonInv, Screen!SeasonScreenAssumption
<1>1. ASSUME NEW s \in Years, Screen!Choose(s) PROVE ReadsInv'
  <2>1. /\ tasks = {} /\ s \in seasons /\ season' = s /\ tasks' = Screen!Looking({}, s)
        /\ UNCHANGED <<seasons, games>>
    BY <1>1 DEF Screen!Choose, Screen!Waits, Screen!server, SeasonInv
  <2> QED
    BY <1>0, <2>1, LookingReads DEF Answered
<1>2. ASSUME NEW s \in Years, Screen!CreateNamed(s) PROVE ReadsInv'
  <2>1. <<"create", "seasons", "data">> \in StepLists
        /\ Head(<<"create", "seasons", "data">>) = "create"
    BY DEF StepLists
  <2>2. s \in Nat \cup {Nobody}
    BY <1>0
  <2> QED
    BY <1>2, <2>1, <2>2, PressedReads DEF Screen!CreateNamed
<1>3. ASSUME NEW d \in Screen!Days, Screen!Select(d) PROVE ReadsInv'
  BY <1>3
  DEF ReadsInv, Answered, Shown, Coming, Recording, Screen!GamesOf, Screen!Select, Screen!server,
      Screen!bounds
<1>4. ASSUME NEW d \in Screen!Days, Screen!Record(d) PROVE ReadsInv'
  <2>1. <<"record">> \in StepLists /\ Head(<<"record">>) = "record"
    BY DEF StepLists
  <2>2. d \in Nat \cup {Nobody}
    BY <1>0
  <2> QED
    BY <1>4, <2>1, <2>2, PressedReads DEF Screen!Record
<1>5. CASE Screen!Open
  <2>1. /\ tasks = {} /\ tasks' = {}
        /\ UNCHANGED <<games, season, lists, error, failures>>
    BY <1>5 DEF Screen!Open, Screen!Waits, Screen!server, Screen!bounds
  <2>2. error \/ Shown
    BY <2>1, AtRest
  <2> QED
    BY <2>1, <2>2 DEF ReadsInv, Answered, Shown, Recording, Screen!GamesOf
<1>6. CASE Screen!Save
  <2> DEFINE steps == IF tab = "game" THEN <<"save", "data">> ELSE <<"save", "seasons", "data">>
  <2>1. steps \in StepLists /\ Head(steps) = "save"
    BY DEF StepLists
  <2>2. Screen!Pressed(steps, Nobody)
    BY <1>6 DEF Screen!Save
  <2> QED
    BY <2>1, <2>2, PressedReads
<1>7. CASE Screen!CreateMissing
  <2>1. <<"prompt", "current", "seasons", "data">> \in StepLists
        /\ Head(<<"prompt", "current", "seasons", "data">>) = "prompt"
    BY DEF StepLists
  <2>2. missing \in Nat \cup {Nobody} /\ missing \in Years
    BY <1>0, <1>7 DEF Screen!CreateMissing, SeasonInv
  <2> QED
    BY <1>7, <2>1, <2>2, PressedReads DEF Screen!CreateMissing
<1> QED
  BY <1>1, <1>2, <1>3, <1>4, <1>5, <1>6, <1>7

LEMMA PerformReads ==
    ASSUME Screen!SeasonScreenAssumption, InOrder, SeasonInv, ReadsInv, Screen!Perform
    PROVE  ReadsInv'
<1>1. PICK t \in tasks :
         /\ t.answer = Nobody /\ Screen!InTurn(t)
         /\ tasks' = (tasks \ {t}) \cup {[t EXCEPT !.answer = Screen!Answer(t)]}
         /\ seasons' = IF Head(t.steps) \in {"create", "prompt"} THEN seasons \cup {t.makes}
                       ELSE seasons
         /\ games' = IF Head(t.steps) = "record" /\ SeasonOf[t.makes] \in seasons
                     THEN games \cup {t.makes} ELSE games
         /\ UNCHANGED <<season, lists, error, failures>>
  BY DEF Screen!Perform, Screen!page, Screen!bounds
<1> DEFINE told == [t EXCEPT !.answer = Screen!Answer(t)]
<1>2. /\ t \in ScreenTask /\ t.steps \in StepLists /\ Fits(t, seasons)
      /\ Head(t.steps) \in {"seasons", "data", "save", "record", "create", "prompt", "current"}
  BY <1>1, StepFacts DEF SeasonInv, Fine, ScreenTask
<1>3. \A u \in tasks \ {t} : u.answer = Nobody
  <2>1. \A u \in tasks : t.turn <= u.turn
    BY <1>1 DEF Screen!InTurn
  <2> QED
    BY <2>1 DEF SeasonInv, Fine, ScreenTask
<1>4. /\ told.steps = t.steps /\ told.of = t.of /\ told.goes = t.goes /\ told.turn = t.turn
      /\ told.makes = t.makes /\ told.answer = Screen!Answer(t)
  BY <1>2 DEF ScreenTask
<1>5. tasks' = (tasks \ {t}) \cup {told}
  BY <1>1
<1> HIDE DEF told
<1>6. Head(t.steps) = "data" => Screen!Answer(t) = [done |-> TRUE, games |-> Screen!GamesOf(t.of)]
  BY DEF Screen!Answer
<1>7. Head(t.steps) = "seasons" => Screen!Answer(t).done
  BY DEF Screen!Answer
<1>8. Head(t.steps) # "record" => games' = games
  BY <1>1
<1>9. Answered(tasks)'
  <2>1. ASSUME NEW u \in tasks',  Head(u.steps) = "data"
        PROVE  u.of # Nobody /\ ((u.answer # Nobody)' => u.answer.games = Screen!GamesOf(u.of)')
    <3>1. CASE u = told
      BY <1>1, <1>4, <1>6, <1>8, <2>1, <3>1 DEF ReadsInv, Answered, Screen!GamesOf
    <3>2. CASE u \in tasks \ {t}
      BY <1>3, <2>1, <3>2 DEF ReadsInv, Answered
    <3> QED
      BY <1>5, <3>1, <3>2
  <2>2. ASSUME NEW u \in tasks', Head(u.steps) \in {"seasons", "data"}, u.answer # Nobody
        PROVE  u.answer.done
    BY <1>3, <1>4, <1>5, <1>6, <1>7, <2>2
  <2>3. ASSUME NEW u \in tasks', Head(u.steps) = "record", u.answer # Nobody
        PROVE  u.answer.done <=> SeasonOf[u.makes] \in seasons'
    <3>1. u = told /\ Head(t.steps) = "record" /\ u.answer = Screen!Answer(t) /\ u.makes = t.makes
      BY <1>3, <1>4, <1>5, <2>3
    <3>2. Screen!Answer(t).done = (SeasonOf[t.makes] \in seasons)
      BY <3>1 DEF Screen!Answer
    <3>3. seasons' = seasons
      BY <1>1, <3>1
    <3> QED
      BY <3>1, <3>2, <3>3, Zenon
  <2> QED
    BY <2>1, <2>2, <2>3 DEF Answered
<1>10. \A u, v \in tasks' : IsRead(u) \/ IsRead(v) \/ u = v
  BY <1>4, <1>5 DEF ReadsInv, IsRead
<1>11. \A u \in tasks' : Acts(u) => tasks' = {u} /\ u.of = season' /\ u.goes = Nobody
  <2>1. ASSUME NEW u \in tasks \ {t} PROVE ~Acts(u)
    BY <1>1 DEF ReadsInv
  <2>2. Acts(told) => tasks = {t} /\ t.of = season /\ t.goes = Nobody
    BY <1>4 DEF ReadsInv, Acts
  <2> QED
    BY <1>1, <1>4, <1>5, <2>1, <2>2
<1>12. season' = Nobody => lists' = [of |-> Nobody, games |-> {}] /\ \A u \in tasks' : u.of = Nobody
  BY <1>1, <1>4, <1>5 DEF ReadsInv
<1>13. Coming => Coming'
  <2>1. ASSUME NEW u \in tasks, Head(u.steps) = "seasons" \/ u.goes # Nobody PROVE Coming'
    BY <1>4, <1>5, <2>1 DEF Coming
  <2>2. ASSUME \A u \in tasks : IsRead(u), NEW m \in tasks, m.of = season,
               \A u \in tasks : u.turn <= m.turn
        PROVE  Coming'
    <3>1. \A u \in tasks' : IsRead(u)
      BY <1>4, <1>5, <2>2 DEF IsRead
    <3>2. \A v \in tasks' : \E u \in tasks : u.turn = v.turn
      BY <1>4, <1>5
    <3>3. \E n \in tasks' : n.turn = m.turn /\ n.of = m.of
      BY <1>4, <1>5, <2>2
    <3> QED
      BY <1>1, <2>2, <3>1, <3>2, <3>3 DEF Coming
  <2> QED
    BY <2>1, <2>2 DEF Coming
<1>14. ASSUME Shown, \A u \in tasks : Acts(u) PROVE Shown' /\ \A u \in tasks' : Acts(u)
  <2>1. tasks = {t} /\ t.of = season /\ tasks' = {told} /\ Acts(told)
    BY <1>1, <1>4, <1>5, <1>14 DEF ReadsInv, Acts
  <2>2. lists.games = Screen!GamesOf(season) =>
           Recording(told) \/ lists.games = Screen!GamesOf(season)'
    <3>1. CASE games' = games
      BY <1>1, <3>1 DEF Screen!GamesOf
    <3>2. CASE games' # games
      <4>1. Head(t.steps) = "record" /\ SeasonOf[t.makes] \in seasons
            /\ games' = games \cup {t.makes}
        BY <1>1, <3>2
      <4>2. CASE SeasonOf[t.makes] = t.of
        BY <1>4, <4>1, <4>2 DEF Recording
      <4>3. CASE SeasonOf[t.makes] # t.of
        BY <1>1, <2>1, <4>1, <4>3 DEF Screen!GamesOf
      <4> QED
        BY <4>2, <4>3
    <3> QED
      BY <3>1, <3>2
  <2>3. Recording(told) <=> Recording(t)
    BY <1>4 DEF Recording
  <2> QED
    BY <1>1, <1>14, <2>1, <2>2, <2>3 DEF Shown
<1> QED
  BY <1>1, <1>9, <1>10, <1>11, <1>12, <1>13, <1>14 DEF ReadsInv

\* What is pressed is alone: with it done, what follows it is asked, and nothing else.
LEMMA ActedReads ==
    ASSUME Screen!SeasonScreenAssumption, SeasonInv, ReadsInv, NEW t \in tasks,
           Head(t.steps) \in {"save", "prompt", "current"},
           t.answer # Nobody, tasks' = Screen!Continued(t),
           UNCHANGED <<seasons, games, season, lists, error, failures>>
    PROVE  ReadsInv'
<1>1. /\ tasks = {t} /\ t.of = season /\ t.goes = Nobody /\ (error \/ Shown)
      /\ (season = Nobody => lists = [of |-> Nobody, games |-> {}])
  <2>1. tasks = {t} /\ t.of = season /\ t.goes = Nobody
    BY DEF ReadsInv, Acts
  <2>2. ~IsRead(t) /\ Head(t.steps) # "seasons"
    <3>1. Head(<<"data">>) = "data"
      OBVIOUS
    <3> QED
      BY <3>1 DEF IsRead
  <2> QED
    BY <2>1, <2>2 DEF ReadsInv, Coming
<1>2. t.steps \in StepLists
  BY DEF SeasonInv, Fine, ScreenTask
<1>3. ASSUME \A u \in tasks' : ~Recording(u) PROVE error' \/ Shown'
  BY <1>1, <1>3 DEF Shown, Recording, Screen!GamesOf
<1>4. CASE Screen!Continued(t) = tasks \ {t}
  BY <1>1, <1>3, <1>4 DEF ReadsInv, Answered
<1>5. ASSUME NEW new \in ScreenTask, tasks' = {new}, new.steps = Tail(t.steps),
             Tail(t.steps) \in StepLists, new.of = season, new.answer = Nobody,
             Tail(t.steps) = <<"data">> => new.of # Nobody,
             Head(t.steps) = "prompt" => new.goes = Nobody
      PROVE  ReadsInv'
  <2>1. /\ Head(new.steps) \in {"seasons", "data", "current"}
        /\ (Head(new.steps) = "current" => Head(t.steps) = "prompt")
        /\ (Head(new.steps) = "data" => new.steps = <<"data">>)
    BY <1>2, <1>5, StepFacts, TailFacts, NoStepIsNone
  <2>2. Answered(tasks)'
    BY <1>5, <2>1 DEF Answered
  <2>3. season' = Nobody => /\ lists' = [of |-> Nobody, games |-> {}]
                            /\ \A u \in tasks' : u.of = Nobody
    BY <1>1, <1>5
  <2>4. Acts(new) => new.goes = Nobody /\ Head(new.steps) = "current"
    BY <1>5, <2>1 DEF Acts
  <2>5. error' \/ Coming' \/ (Shown' /\ \A u \in tasks' : Acts(u))
    <3>1. CASE Head(new.steps) = "seasons"
      BY <1>5, <3>1 DEF Coming
    <3>2. CASE Head(new.steps) = "data"
      <4>1. new.turn <= new.turn
        BY <1>5 DEF ScreenTask
      <4> QED
        BY <1>5, <2>1, <3>2, <4>1 DEF Coming, IsRead
    <3>3. CASE Head(new.steps) = "current"
      BY <1>3, <1>5, <3>3 DEF Recording, Acts
    <3> QED
      BY <2>1, <3>1, <3>2, <3>3
  <2> QED
    BY <1>5, <2>2, <2>3, <2>4, <2>5 DEF ReadsInv
<1>6. ASSUME NEW new \in ScreenTask, Screen!Continued(t) = (tasks \ {t}) \cup {new},
             new.goes = IF Head(t.steps) = "current" THEN t.answer.current ELSE t.goes
      PROVE  tasks' = {new} /\ (Head(t.steps) = "prompt" => new.goes = Nobody)
  BY <1>1, <1>6
<1> QED
  BY <1>1, <1>4, <1>5, <1>6, ContinuedIsLast

\* The rest of a task that was reading, with the others.
LEMMA RestReads ==
    ASSUME Screen!SeasonScreenAssumption, SeasonInv, ReadsInv, NEW t \in tasks,
           Head(t.steps) \in {"seasons", "data"}
    PROVE  LET those == Screen!Continued(t)
           IN /\ \A u, v \in those : IsRead(u) \/ IsRead(v) \/ u = v
              /\ \A u \in those : ~Acts(u)
              /\ Answered(those)
              /\ season = Nobody => \A u \in those : u.of = Nobody
<1>1. t.steps \in StepLists
  BY DEF SeasonInv, Fine, ScreenTask
<1>2. \A u \in tasks \ {t} : ~Acts(u) /\ (IsRead(u) \/ IsRead(t))
  <2>1. ASSUME NEW u \in tasks \ {t} PROVE ~Acts(u)
    <3>1. Acts(u) => tasks = {u}
      BY <2>1 DEF ReadsInv
    <3> QED
      BY <2>1, <3>1
  <2>2. \A u \in tasks \ {t} : IsRead(u) \/ IsRead(t)
    BY DEF ReadsInv
  <2> QED
    BY <2>1, <2>2
<1>a. ~Acts(t)
  BY DEF Acts
<1>3. CASE Screen!Continued(t) = tasks \ {t}
  BY <1>2, <1>3 DEF ReadsInv, Answered
<1>4. ASSUME NEW new \in ScreenTask, Screen!Continued(t) = (tasks \ {t}) \cup {new},
             new.steps = Tail(t.steps), Tail(t.steps) \in StepLists, new.of = t.of,
             new.answer = Nobody, Tail(t.steps) = <<"data">> => t.of # Nobody
      PROVE  LET those == Screen!Continued(t)
             IN /\ \A u, v \in those : IsRead(u) \/ IsRead(v) \/ u = v
                /\ \A u \in those : ~Acts(u)
                /\ Answered(those)
                /\ season = Nobody => \A u \in those : u.of = Nobody
  <2>1. /\ Head(t.steps) = "seasons" /\ t.steps # <<"data">> /\ new.steps = <<"data">>
        /\ Head(new.steps) = "data"
    <3>1. Head(<<"data">>) = "data" /\ Tail(<<"data">>) = <<>>
      OBVIOUS
    <3>2. Tail(t.steps) # <<>>
      BY <1>4, NoStepIsNone
    <3> QED
      BY <1>1, <1>4, <3>1, <3>2, TailFacts
  <2>2. \A u \in tasks \ {t} : ~Acts(u) /\ IsRead(u)
    BY <1>2, <2>1 DEF IsRead
  <2>3. Answered(Screen!Continued(t))
    BY <1>4, <2>1 DEF ReadsInv, Answered
  <2>4. season = Nobody => new.of = Nobody /\ \A u \in tasks : u.of = Nobody
    BY <1>4 DEF ReadsInv
  <2>5. ~Acts(new)
    BY <2>1 DEF Acts
  <2> QED
    BY <1>4, <2>2, <2>3, <2>4, <2>5
<1> QED
  BY <1>3, <1>4, ContinuedIsLast

LEMMA SeasonsReads ==
    ASSUME Screen!SeasonScreenAssumption, InOrder, SeasonInv, ReadsInv, NEW t \in tasks,
           Screen!SeasonsRead(t)
    PROVE  ReadsInv'
<1>1. /\ t.answer # Nobody /\ Head(t.steps) = "seasons" /\ error' = FALSE
      /\ season' = (IF Screen!Moves(t) THEN t.goes ELSE Screen!Kept(t.answer))
      /\ tasks' = Screen!Looking(Screen!Continued(t), season')
      /\ UNCHANGED <<seasons, games, lists, failures>>
  BY DEF Screen!SeasonsRead, Screen!Asks, Screen!server, Screen!bounds
<1>2. /\ season' \in seasons \cup {Nobody} /\ (season' = Nobody => season = Nobody)
      /\ Fine(Screen!Continued(t), seasons)
  <2>1. Fits(t, seasons)
    BY DEF SeasonInv, Fine
  <2> QED
    BY <1>1, <2>1, KeptIsThere, ContinuedIsFine DEF Screen!Moves, Fits
<1> DEFINE those == Screen!Continued(t)
<1>3. /\ \A u, v \in those : IsRead(u) \/ IsRead(v) \/ u = v
      /\ \A u \in those : ~Acts(u)
      /\ Answered(those)
      /\ season = Nobody => \A u \in those : u.of = Nobody
  BY <1>1, RestReads
<1>4. CASE season' \in seasons
  BY <1>1, <1>2, <1>3, <1>4, LookingReads
<1>5. CASE season' = Nobody
  <2>1. tasks' = those /\ season = Nobody /\ lists' = [of |-> Nobody, games |-> {}]
    BY <1>1, <1>2, <1>5 DEF Screen!Looking, ReadsInv
  <2>2. those = tasks \ {t}
    <3>1. Tail(t.steps) \in StepLists => Tail(t.steps) = <<"data">>
      <4>1. t.steps \in StepLists
        BY DEF SeasonInv, Fine, ScreenTask
      <4> QED
        BY <1>1, <4>1, TailFacts, NoStepIsNone
    <3>2. t.of = Nobody
      BY <2>1 DEF ReadsInv
    <3> QED
      BY <1>1, <3>1, <3>2, ContinuedIsLast
  <2>3. ~IsRead(t)
    <3>1. Head(<<"data">>) = "data"
      OBVIOUS
    <3> QED
      BY <1>1, <3>1 DEF IsRead
  <2>4. ASSUME NEW u \in tasks \ {t} PROVE FALSE
    <3>1. IsRead(u) /\ u.of = Nobody
      BY <2>1, <2>3 DEF ReadsInv
    <3>2. Head(u.steps) = "data"
      BY <3>1 DEF IsRead
    <3> QED
      BY <3>1, <3>2 DEF ReadsInv, Answered
  <2>5. tasks' = {}
    BY <2>1, <2>2, <2>4
  <2>6. Screen!GamesOf(Nobody)' = {}
    BY <1>1 DEF Screen!GamesOf, SeasonInv, Screen!SeasonScreenAssumption
  <2>7. Shown'
    BY <1>5, <2>1, <2>6 DEF Shown
  <2> QED
    BY <2>1, <2>5, <2>7 DEF ReadsInv, Answered
<1> QED
  BY <1>2, <1>4, <1>5

\* Lists read or not, a task that was to move the page does.
LEMMA MovedReads ==
    ASSUME Screen!SeasonScreenAssumption, SeasonInv, ReadsInv, NEW t \in tasks, Screen!Moved(t),
           Head(t.steps) \in {"seasons", "data"}, Screen!Moves(t), UNCHANGED <<seasons, games>>
    PROVE  ReadsInv'
<1>1. t.goes \in seasons /\ season' = t.goes
      /\ tasks' = Screen!Looking(Screen!Continued(t), t.goes)
  BY DEF Screen!Moved, Screen!Moves, SeasonInv, Fine, Fits
<1>2. Fine(Screen!Continued(t), seasons)
  BY ContinuedIsFine
<1> QED
  BY <1>1, <1>2, RestReads, LookingReads

LEMMA ListsReads ==
    ASSUME Screen!SeasonScreenAssumption, InOrder, SeasonInv, ReadsInv, NEW t \in tasks,
           Screen!InTurn(t), Screen!ListsRead(t)
    PROVE  ReadsInv'
<1>1. /\ t.answer # Nobody /\ Head(t.steps) = "data" /\ Screen!Moved(t)
      /\ lists' = [of |-> t.of, games |-> t.answer.games]
      /\ UNCHANGED <<seasons, games, error, failures>>
  BY DEF Screen!ListsRead, Screen!Asks, Screen!server, Screen!bounds
<1>2. t.of # Nobody /\ t.answer.games = Screen!GamesOf(t.of) /\ season # Nobody
  BY <1>1 DEF ReadsInv, Answered
<1>3. t.steps = <<"data">> /\ Screen!Rest(t) = <<>>
  <2>1. t.steps \in StepLists
    BY DEF SeasonInv, Fine, ScreenTask
  <2>2. t.steps = <<"data">>
    BY <1>1, <2>1 DEF StepLists
  <2> QED
    BY <2>2 DEF Screen!Rest
<1>4. CASE t.goes # Nobody
  BY <1>1, <1>3, <1>4, MovedReads DEF Screen!Moves
<1>5. CASE t.goes = Nobody
  <2>1. tasks' = tasks \ {t} /\ season' = season
    BY <1>1, <1>3, <1>5 DEF Screen!Moved, Screen!Moves, Screen!Continued
  <2>2. ~Acts(t) /\ IsRead(t)
    BY <1>1, <1>3, <1>5 DEF Acts, IsRead
  <2>3. \A u \in tasks : ~Acts(u)
    BY <2>2 DEF ReadsInv
  <2>4. error \/ Coming
    BY <2>2 DEF ReadsInv
  <2>5. ASSUME NEW u \in tasks, Head(u.steps) = "seasons" \/ u.goes # Nobody PROVE Coming'
    BY <1>1, <1>5, <2>1, <2>5 DEF Coming
  <2>6. ASSUME \A u \in tasks : IsRead(u), NEW m \in tasks, m.of = season,
               \A u \in tasks : u.turn <= m.turn
        PROVE  Coming' \/ (tasks' = {} /\ Shown')
    <3>1. CASE m # t
      BY <2>1, <2>6, <3>1 DEF Coming
    <3>2. CASE m = t
      <4>1. \A u \in tasks : u.turn = t.turn
        <5>1. \A u \in tasks : t.turn <= u.turn /\ u.turn <= t.turn
          BY <2>6, <3>2 DEF Screen!InTurn
        <5>2. \A u \in tasks : u.turn \in Nat
          BY DEF SeasonInv, Fine, ScreenTask
        <5> QED
          BY <5>1, <5>2
      <4>2. tasks' = {}
        BY <2>1, <4>1 DEF SeasonInv, Fine
      <4>3. lists' = [of |-> season, games |-> Screen!GamesOf(season)]
        BY <1>1, <1>2, <2>6, <3>2
      <4>4. Screen!GamesOf(season)' = Screen!GamesOf(season)
        BY <1>1, <2>1 DEF Screen!GamesOf
      <4> QED
        BY <2>1, <4>2, <4>3, <4>4 DEF Shown
    <3> QED
      BY <3>1, <3>2
  <2>7. error' \/ Coming' \/ (Shown' /\ \A u \in tasks' : Acts(u))
    BY <1>1, <2>4, <2>5, <2>6 DEF Coming
  <2>8. Answered(tasks)'
    BY <1>1, <2>1 DEF ReadsInv, Answered, Screen!GamesOf
  <2> QED
    BY <1>2, <2>1, <2>3, <2>7, <2>8 DEF ReadsInv
<1> QED
  BY <1>4, <1>5

LEMMA ArriveReads ==
    ASSUME Screen!SeasonScreenAssumption, InOrder, SeasonInv, ReadsInv, NEW t \in tasks,
           Screen!InTurn(t),
           \/ Screen!SeasonsRead(t) \/ Screen!ListsRead(t) \/ Screen!Saved(t) \/ Screen!Created(t)
           \/ Screen!PromptCreated(t) \/ Screen!CurrentRead(t) \/ Screen!Recorded(t)
           \/ Screen!Refused(t)
    PROVE  ReadsInv'
<1>0. /\ t \in ScreenTask /\ Fits(t, seasons) /\ season \in seasons \cup {Nobody}
      /\ Nobody \notin seasons /\ t.steps \in StepLists
      /\ Head(t.steps) \in {"seasons", "data", "save", "record", "create", "prompt", "current"}
  <2>1. t \in ScreenTask /\ Fits(t, seasons) /\ season \in seasons \cup {Nobody}
        /\ Nobody \notin seasons
    BY DEF SeasonInv, Fine, Screen!SeasonScreenAssumption
  <2> QED
    BY <2>1, StepFacts DEF ScreenTask
<1>1. CASE Screen!Saved(t) \/ Screen!PromptCreated(t) \/ Screen!CurrentRead(t)
  <2>1. /\ t.answer # Nobody /\ tasks' = Screen!Continued(t)
        /\ Head(t.steps) \in {"save", "prompt", "current"}
        /\ UNCHANGED <<seasons, games, season, lists, error, failures>>
    BY <1>1 DEF Screen!Saved, Screen!PromptCreated, Screen!CurrentRead, Screen!Asks,
                Screen!server, Screen!page, Screen!bounds
  <2> QED
    BY <2>1, ActedReads
<1>2. ASSUME Acts(t)
      PROVE  /\ tasks = {t} /\ t.of = season /\ (error \/ Shown)
             /\ (season = Nobody => lists = [of |-> Nobody, games |-> {}])
  <2>1. tasks = {t} /\ t.of = season /\ t.goes = Nobody
    BY <1>2 DEF ReadsInv
  <2>2. ~IsRead(t) /\ Head(t.steps) # "seasons"
    <3>1. Head(<<"data">>) = "data"
      OBVIOUS
    <3> QED
      BY <1>2, <3>1 DEF Acts, IsRead
  <2> QED
    BY <2>1, <2>2 DEF ReadsInv, Coming
<1>3. ASSUME Acts(t), tasks' = {}, ~Recording(t),
             UNCHANGED <<games, season, lists, error, failures>>
      PROVE  ReadsInv'
  BY <1>2, <1>3 DEF ReadsInv, Answered, Shown, Screen!GamesOf
<1>4. CASE Screen!Created(t)
  <2>1. /\ t.answer # Nobody /\ Head(t.steps) = "create" /\ t.makes \in seasons
        /\ season' = t.makes /\ tasks' = Screen!Looking(Screen!Continued(t), t.makes)
        /\ UNCHANGED <<seasons, games>>
    BY <1>0, <1>4 DEF Screen!Created, Screen!Asks, Fits, Screen!server
  <2>2. Acts(t) /\ tasks \ {t} = {}
    BY <1>2, <2>1 DEF Acts
  <2>3. Fine(Screen!Continued(t), seasons)
    BY <2>1, ContinuedIsFine
  <2>4. \A u \in Screen!Continued(t) :
           Head(u.steps) = "seasons" /\ u.answer = Nobody
           /\ \A v \in Screen!Continued(t) : u = v
    <3>1. Tail(t.steps) = <<"seasons", "data">>
      BY <1>0, <2>1, TailFacts
    <3>2. Head(<<"seasons", "data">>) = "seasons"
      OBVIOUS
    <3>3. CASE Screen!Continued(t) = tasks \ {t}
      BY <2>2, <3>3
    <3>4. ASSUME NEW new \in ScreenTask, Screen!Continued(t) = (tasks \ {t}) \cup {new},
                 new.steps = Tail(t.steps), new.answer = Nobody
          PROVE  \A u \in Screen!Continued(t) : /\ Head(u.steps) = "seasons" /\ u.answer = Nobody
                                                /\ \A v \in Screen!Continued(t) : u = v
      BY <2>2, <3>1, <3>2, <3>4
    <3> QED
      BY <2>1, <3>3, <3>4, ContinuedIsLast
  <2> QED
    BY <2>1, <2>3, <2>4, LookingReads DEF Acts, Answered
<1>5. CASE Screen!Recorded(t)
  <2> DEFINE s == SeasonOf[t.makes]
  <2>1. /\ t.answer # Nobody /\ t.answer.done /\ Head(t.steps) = "record"
        /\ season' = (IF s # t.of /\ s \in t.knew THEN s ELSE season)
        /\ tasks' = IF s = t.of THEN Screen!Looking(tasks \ {t}, t.of)
                    ELSE IF season' # season THEN Screen!Looking(tasks \ {t}, season')
                         ELSE tasks \ {t}
        /\ UNCHANGED <<seasons, games, lists, error, failures>>
    BY <1>5 DEF Screen!Recorded, Screen!GoesToTheGame, Screen!Asks, Screen!server, Screen!bounds
  <2>2. s \in seasons /\ Acts(t) /\ tasks \ {t} = {} /\ t.of = season
    BY <1>2, <2>1 DEF ReadsInv, Answered, Acts
  <2>3. Fine({}, seasons) /\ Answered({})
    BY FS_EmptySet DEF Fine, Answered
  <2>4. CASE s = t.of
    BY <2>1, <2>2, <2>3, <2>4, LookingReads
  <2>5. CASE s # t.of /\ season' # season
    BY <2>1, <2>2, <2>3, <2>5, LookingReads
  <2>6. CASE s # t.of /\ season' = season
    BY <1>3, <2>1, <2>2, <2>6 DEF Recording
  <2> QED
    BY <2>4, <2>5, <2>6
<1>6. CASE Screen!Refused(t)
  <2>1. /\ t.answer # Nobody /\ ~t.answer.done /\ tasks' = tasks \ {t}
        /\ UNCHANGED <<games, season, lists, error, failures>>
    BY <1>6 DEF Screen!Refused, Screen!server, Screen!page, Screen!bounds
  <2>2. Acts(t)
    BY <1>0, <2>1 DEF ReadsInv, Answered, Acts
  <2>3. ~Recording(t)
    <3>1. SUFFICES ASSUME Head(t.steps) = "record", SeasonOf[t.makes] = t.of PROVE FALSE
      BY DEF Recording
    <3>2. SeasonOf[t.makes] \in Years /\ Nobody \notin Years
      BY <1>0, <3>1 DEF Fits, Screen!SeasonScreenAssumption
    <3>3. SeasonOf[t.makes] \notin seasons
      BY <2>1, <3>1 DEF ReadsInv, Answered
    <3> QED
      BY <1>0, <1>2, <2>2, <3>1, <3>2, <3>3
  <2> QED
    BY <1>2, <1>3, <2>1, <2>2, <2>3
<1> QED
  BY <1>1, <1>4, <1>5, <1>6, SeasonsReads, ListsReads

LEMMA LossReads ==
    ASSUME Screen!SeasonScreenAssumption, SeasonInv, ReadsInv, Screen!Lose
    PROVE  ReadsInv'
<1>1. PICK t \in tasks :
         /\ failures' = failures + 1
         /\ \/ Head(t.steps) \in {"seasons", "data"} /\ error' = TRUE /\ Screen!Moved(t)
            \/ /\ Head(t.steps) \notin {"seasons", "data"} /\ tasks' = tasks \ {t}
               /\ UNCHANGED <<season, error>>
         /\ UNCHANGED <<seasons, games, lists>>
  BY DEF Screen!Lose, Screen!server
<1>2. CASE Head(t.steps) \in {"seasons", "data"} /\ error' = TRUE /\ Screen!Moved(t)
  <2>1. CASE Screen!Moves(t)
    BY <1>1, <1>2, <2>1, MovedReads
  <2>2. CASE ~Screen!Moves(t)
    <3>1. tasks' = Screen!Continued(t) /\ season' = season
      BY <1>2, <2>2 DEF Screen!Moved
    <3>2. /\ \A u, v \in tasks' : IsRead(u) \/ IsRead(v) \/ u = v
          /\ \A u \in tasks' : ~Acts(u)
          /\ season = Nobody => \A u \in tasks' : u.of = Nobody
      BY <1>2, <3>1, RestReads
    <3>3. Answered(Screen!Continued(t))
      BY <1>2, RestReads
    <3>4. Answered(tasks)'
      BY <1>1, <3>1, <3>3 DEF Answered, Screen!GamesOf
    <3>5. season' = Nobody => lists' = [of |-> Nobody, games |-> {}]
      BY <1>1, <3>1 DEF ReadsInv
    <3> QED
      BY <1>2, <3>1, <3>2, <3>4, <3>5 DEF ReadsInv
  <2> QED
    BY <2>1, <2>2
<1>3. CASE /\ Head(t.steps) \notin {"seasons", "data"} /\ tasks' = tasks \ {t}
           /\ UNCHANGED <<season, error>>
  <2>1. Acts(t)
    <3>1. t.steps \in StepLists
      BY DEF SeasonInv, Fine, ScreenTask
    <3> QED
      BY <1>3, <3>1, StepFacts DEF Acts
  <2>2. tasks = {t} /\ t.goes = Nobody /\ ~IsRead(t)
    <3>1. Head(<<"data">>) = "data"
      OBVIOUS
    <3> QED
      BY <2>1, <1>3, <3>1 DEF ReadsInv, IsRead
  <2>3. error \/ Shown
    BY <1>3, <2>2 DEF ReadsInv, Coming
  <2>4. failures' # 0
    BY <1>1 DEF SeasonInv
  <2>5. tasks' = {} /\ (error' \/ Shown')
    BY <1>1, <1>3, <2>2, <2>3, <2>4 DEF Shown
  <2> QED
    BY <1>1, <1>3, <2>5 DEF ReadsInv, Answered
<1> QED
  BY <1>1, <1>2, <1>3

LEMMA ReadsInvHolds ==
    ASSUME Screen!SeasonScreenAssumption, Patient, InOrder PROVE Screen!Spec => []ReadsInv
<1>1. Screen!Init => ReadsInv
  BY ReadsAtFirst
<1>2. SeasonInv /\ ReadsInv /\ [Screen!Next]_(Screen!vars) => ReadsInv'
  <2> SUFFICES ASSUME SeasonInv, ReadsInv, [Screen!Next]_(Screen!vars) PROVE ReadsInv'
    OBVIOUS
  <2>1. CASE Screen!Arrive
    BY <2>1, ArriveReads DEF Screen!Arrive
  <2>2. CASE UNCHANGED Screen!vars
    BY <2>2
    DEF ReadsInv, Answered, Coming, Shown, Screen!GamesOf, Screen!vars, Screen!server,
        Screen!page, Screen!bounds
  <2> QED
    BY <2>1, <2>2, OrganiserReads, PerformReads, LossReads DEF Screen!Next, Screen!Quiet
<1> QED
  BY <1>1, <1>2, SeasonInvHolds, PTL DEF Screen!Spec

\* While the organiser waits for what was pressed and the network keeps the order, with nothing on
\* its way and no failure told the lists on the page are of the season it names, and nothing
\* recorded in it is missing unless an answer was lost.
THEOREM ListsAreOfItsSeason ==
    ASSUME Screen!SeasonScreenAssumption, Patient, InOrder
    PROVE  Screen!Spec => []Screen!ListsAreOfTheSeason
<1>1. ReadsInv => Screen!ListsAreOfTheSeason
  <2> SUFFICES ASSUME ReadsInv, tasks = {}, ~error
               PROVE  lists.of = season /\ (failures = 0 => lists.games = Screen!GamesOf(season))
    BY DEF Screen!ListsAreOfTheSeason
  <2> QED
    BY AtRest DEF Shown
<1> QED
  BY <1>1, ReadsInvHolds, PTL
=============================================================================
