-------------------------- MODULE BizumDesk_proofs --------------------------
(***************************************************************************)
(* Proofs about the Bizum desk, for any seasons, games, players, prices    *)
(* and transfers of the bank: a share stays one debt or one payment; the   *)
(* money of a Bizum is accounted for; the rules pay only the past; undoing *)
(* is of a whole Bizum; playing a game pays what waited for it; the oldest *)
(* pays first; and every transaction is a step of BizumLedger.             *)
(*                                                                         *)
(* The invariant is about the tables a transaction has so far: t stands    *)
(* for them between the turns of the Bizums that one read, or one request, *)
(* judges one after the other.                                             *)
(***************************************************************************)
EXTENDS BizumDesk, Shares_proofs, FiniteSetTheorems, WellFoundedInduction, TLAPS

-----------------------------------------------------------------------------
(* Induction, by the least counterexample: the library's induction theorems *)
(* take the property as an operator, which the provers cannot instantiate.  *)

\* Any set of numbers has a least one: an induction, as the absence of a first failure.
LEMMA LeastNumber ==
    ASSUME NEW T \in SUBSET Nat, T # {}
    PROVE  \E x \in T : \A y \in T : x <= y
<1> DEFINE R == OpToRel(<, Nat)
<1>1. \A x, y \in Nat : y < x => <<y, x>> \in R
  BY DEF OpToRel
<1>2. IsWellFoundedOn(R, Nat)
  BY NatLessThanWellFounded
<1> HIDE DEF R
<1>3. PICK x \in T : \A y \in T : ~(<<y, x>> \in R)
  BY <1>2, WFMin
<1>4. \A y \in T : ~(y < x)
  BY <1>1, <1>3
<1> QED
  BY <1>4

\* What holds of a subset whenever it does of those within it holds of every subset of a
\* finite set: induction, for a property given as the set of the subsets that have it.
LEMMA SubsetInduction ==
    ASSUME NEW S, IsFiniteSet(S), NEW Good,
           \A s \in SUBSET S : (\A u \in SUBSET s : u # s => u \in Good) => s \in Good
    PROVE  \A s \in SUBSET S : s \in Good
<1> DEFINE Odd == (SUBSET S) \ Good
<1>1. IsWellFoundedOn(StrictSubsetOrdering(S), FiniteSubsetsOf(S))
  BY FS_StrictSubsetOrderingWellFounded
<1>2. Odd \subseteq FiniteSubsetsOf(S)
  BY FS_Subset DEF FiniteSubsetsOf
<1>3. SUFFICES ASSUME Odd # {} PROVE FALSE
  OBVIOUS
<1>4. PICK s \in Odd : \A u \in Odd : ~(<<u, s>> \in StrictSubsetOrdering(S))
  <2> HIDE DEF Odd
  <2> QED
    BY <1>1, <1>2, <1>3, WFMin
<1>5. \A u \in SUBSET s : u # s => u \in Good
  BY <1>4 DEF StrictSubsetOrdering
<1> QED
  BY <1>4, <1>5

-----------------------------------------------------------------------------
(* Adding up amounts *)

\* The sum that MapThenSumSet takes: of every subset of D, one row at a time.
Some(s) == CHOOSE d \in s : TRUE
AddUp(sum, s) == IF s = {} THEN 0 ELSE Some(s).amount + sum[s \ {Some(s)}]
SumOver(D) == CHOOSE sum : sum = [s \in SUBSET D |-> AddUp(sum, s)]
SumsUp(f, D) == f = [s \in SUBSET D |-> AddUp(f, s)]

\* There is such a function, of any finite set.
LEMMA SumsExist ==
    ASSUME NEW D, IsFiniteSet(D)
    PROVE  SumOver(D) = [s \in SUBSET D |-> AddUp(SumOver(D), s)]
<1> DEFINE UpTo(n) == {s \in SUBSET D : Cardinality(s) <= n}
           Sums(sum, n) == sum = [s \in UpTo(n) |-> AddUp(sum, s)]
           Missing == {n \in Nat : \A sum : ~Sums(sum, n)}
<1>0. \A s \in SUBSET D : IsFiniteSet(s) /\ Cardinality(s) \in Nat
  BY FS_Subset, FS_CardinalityType
<1>1. Missing = {}
  <2>1. SUFFICES ASSUME NEW n \in Missing, \A m \in Missing : n <= m PROVE FALSE
    BY LeastNumber
  <2>2. CASE n = 0
    <3>1. UpTo(0) = {{}}
      BY <1>0, FS_EmptySet
    <3>2. Sums([s \in UpTo(0) |-> 0], 0)
      BY <3>1 DEF AddUp
    <3> QED
      BY <2>2, <3>2
  <2>3. CASE n # 0
    <3>1. n - 1 \in Nat /\ n - 1 \notin Missing
      BY <2>1, <2>3
    <3>2. PICK below : Sums(below, n - 1)
      BY <3>1
    <3> DEFINE sum == [s \in UpTo(n) |-> AddUp(below, s)]
    <3>3. ASSUME NEW s \in UpTo(n), s # {}
          PROVE  sum[s \ {Some(s)}] = below[s \ {Some(s)}]
      <4>1. Some(s) \in s
        BY <3>3 DEF Some
      <4>2. s \ {Some(s)} \in UpTo(n - 1) /\ s \ {Some(s)} \in UpTo(n)
        BY <1>0, <4>1, FS_RemoveElement
      <4>3. below[s \ {Some(s)}] = AddUp(below, s \ {Some(s)})
        BY <3>2, <4>2
      <4> QED
        BY <4>2, <4>3
    <3>4. \A s \in UpTo(n) : AddUp(below, s) = AddUp(sum, s)
      BY <3>3 DEF AddUp
    <3>5. Sums(sum, n)
      BY <3>4
    <3> QED
      BY <3>5
  <2> QED
    BY <2>2, <2>3
<1>2. Cardinality(D) \in Nat
  BY <1>0
<1>3. PICK sum : Sums(sum, Cardinality(D))
  BY <1>1, <1>2, ZenonT(60)
<1>4. UpTo(Cardinality(D)) = SUBSET D
  BY <1>0, FS_Subset
<1>5. sum = [s \in SUBSET D |-> AddUp(sum, s)]
  BY <1>3, <1>4
<1> QED
  BY <1>5 DEF SumOver

\* What a set adds up to does not depend on the set it is taken from.
LEMMA SumsAgree ==
    ASSUME NEW D, NEW S \in SUBSET D, IsFiniteSet(S), NEW f, NEW g,
           SumsUp(f, D), SumsUp(g, S)
    PROVE  f[S] = g[S]
<1> DEFINE Good == {s \in SUBSET S : f[s] = g[s]}
<1>1. ASSUME NEW s \in SUBSET S, \A u \in SUBSET s : u # s => u \in Good
      PROVE  s \in Good
  <2>2. f[s] = AddUp(f, s) /\ g[s] = AddUp(g, s)
    BY DEF SumsUp
  <2>3. CASE s = {}
    BY <2>2, <2>3 DEF AddUp
  <2>4. CASE s # {}
    <3>1. Some(s) \in s
      BY <2>4 DEF Some
    <3>2. f[s \ {Some(s)}] = g[s \ {Some(s)}]
      BY <1>1, <3>1
    <3> QED
      BY <2>2, <2>4, <3>2 DEF AddUp
  <2> QED
    BY <2>3, <2>4
<1>2. IsFiniteSet(S)
  OBVIOUS
<1>3. \A s \in SUBSET S : s \in Good
  <2> HIDE DEF Good
  <2> QED
    BY <1>1, <1>2, SubsetInduction
<1> QED
  BY <1>3

\* So a total is one of the rows' amount and the total of the rest.
LEMMA TotalStep ==
    /\ Total({}) = 0
    /\ \A D : IsFiniteSet(D) /\ D # {} =>
          Some(D) \in D /\ Total(D) = Some(D).amount + Total(D \ {Some(D)})
<1>1. \A D : Total(D) = SumOver(D)[D]
  BY DEF Total, MapThenSumSet, MapThenFoldSet, SumOver, AddUp, Some
<1>2. Total({}) = 0
  <2>1. PICK none : none = {} /\ IsFiniteSet(none)
    BY FS_EmptySet
  <2>2. SumOver(none) = [s \in SUBSET none |-> AddUp(SumOver(none), s)]
    BY <2>1, SumsExist
  <2>3. SumOver(none)[none] = AddUp(SumOver(none), none)
    BY <2>2
  <2> QED
    BY <1>1, <2>1, <2>3 DEF AddUp
<1>3. ASSUME NEW D, IsFiniteSet(D), D # {}
      PROVE  Some(D) \in D /\ Total(D) = Some(D).amount + Total(D \ {Some(D)})
  <2> DEFINE R == D \ {Some(D)}
  <2>1. Some(D) \in D
    BY <1>3 DEF Some
  <2>2. IsFiniteSet(R)
    BY <1>3, FS_RemoveElement
  <2>3. /\ SumOver(D) = [s \in SUBSET D |-> AddUp(SumOver(D), s)]
        /\ SumOver(R) = [s \in SUBSET R |-> AddUp(SumOver(R), s)]
    BY <1>3, <2>2, SumsExist
  <2>4. SumOver(D)[R] = SumOver(R)[R]
    <3> HIDE DEF R
    <3>1. R \in SUBSET D
      BY DEF R
    <3>2. SumsUp(SumOver(D), D) /\ SumsUp(SumOver(R), R)
      BY <2>3 DEF SumsUp
    <3> QED
      BY <2>2, <3>1, <3>2, SumsAgree
  <2>5. SumOver(D)[D] = AddUp(SumOver(D), D)
    BY <2>3
  <2> QED
    BY <1>1, <1>3, <2>1, <2>4, <2>5 DEF AddUp
<1> QED
  BY <1>2, <1>3

\* A finite set of rows with amounts.
IsMoney(D) == IsFiniteSet(D) /\ \A d \in D : d.amount \in Nat

\* A part of it is one too.
LEMMA MoneyOfSubset ==
    ASSUME NEW D, IsMoney(D), NEW s \in SUBSET D
    PROVE  IsMoney(s)
BY FS_Subset DEF IsMoney

\* Their total is an amount.
LEMMA TotalType ==
    ASSUME NEW D, IsMoney(D)
    PROVE  Total(D) \in Nat
<1> DEFINE Good == {s \in SUBSET D : Total(s) \in Nat}
<1>1. ASSUME NEW s \in SUBSET D, \A u \in SUBSET s : u # s => u \in Good
      PROVE  s \in Good
  <2>1. CASE s = {}
    BY <2>1, TotalStep
  <2>2. CASE s # {}
    <3>1. IsFiniteSet(s)
      BY MoneyOfSubset DEF IsMoney
    <3>2. Some(s) \in s /\ Total(s) = Some(s).amount + Total(s \ {Some(s)})
      BY <2>2, <3>1, TotalStep
    <3>3. Total(s \ {Some(s)}) \in Nat /\ Some(s).amount \in Nat
      BY <1>1, <3>2 DEF IsMoney
    <3> QED
      BY <3>2, <3>3
  <2> QED
    BY <2>1, <2>2
<1>2. IsFiniteSet(D)
  BY DEF IsMoney
<1>3. \A s \in SUBSET D : s \in Good
  <2> HIDE DEF Good
  <2> QED
    BY <1>1, <1>2, SubsetInduction
<1> QED
  BY <1>3

\* Whichever of its rows is taken out.
LEMMA TotalRemove ==
    ASSUME NEW D, IsMoney(D), NEW x \in D
    PROVE  Total(D) = x.amount + Total(D \ {x})
<1> DEFINE Good == {s \in SUBSET D : \A y \in s : Total(s) = y.amount + Total(s \ {y})}
<1>1. ASSUME NEW s \in SUBSET D, \A u \in SUBSET s : u # s => u \in Good
      PROVE  s \in Good
  <2> DEFINE c == Some(s)
  <2>1. SUFFICES ASSUME NEW y \in s PROVE Total(s) = y.amount + Total(s \ {y})
    OBVIOUS
  <2>3. IsMoney(s) /\ s # {} /\ IsFiniteSet(s)
    BY <2>1, MoneyOfSubset DEF IsMoney
  <2>4. c \in s /\ Total(s) = c.amount + Total(s \ {c})
    BY <2>3, TotalStep
  <2> HIDE DEF c
  <2>5. SUFFICES ASSUME y # c PROVE Total(s) = y.amount + Total(s \ {y})
    BY <2>4
  <2>0. ASSUME NEW z \in s, NEW w \in s, w # z
        PROVE  Total(s \ {z}) = w.amount + Total((s \ {z}) \ {w})
    <3>1. s \ {z} \in Good /\ w \in s \ {z}
      BY <1>1, <2>0
    <3> QED
      BY <3>1
  <2>6. Total(s \ {c}) = y.amount + Total((s \ {c}) \ {y})
    BY <2>4, <2>5, <2>0
  <2>7. Total(s \ {y}) = c.amount + Total((s \ {y}) \ {c})
    BY <2>4, <2>5, <2>0
  <2>8. (s \ {c}) \ {y} = (s \ {y}) \ {c}
    OBVIOUS
  <2>9. y.amount \in Nat /\ c.amount \in Nat /\ Total((s \ {y}) \ {c}) \in Nat
    <3>1. IsMoney((s \ {y}) \ {c})
      BY <2>3, MoneyOfSubset
    <3> QED
      BY <2>4, <3>1, <2>3, TotalType DEF IsMoney
  <2>10. \A t, u, v, w, r \in Nat : t = c.amount + u /\ u = y.amount + r /\ v = c.amount + r
                                    => t = y.amount + v
    BY <2>9
  <2>11. Total(s) \in Nat /\ Total(s \ {c}) \in Nat /\ Total(s \ {y}) \in Nat
    BY <2>3, MoneyOfSubset, TotalType
  <2>12. PICK r : r = Total((s \ {y}) \ {c}) /\ r = Total((s \ {c}) \ {y})
    BY <2>8
  <2> QED
    BY <2>4, <2>6, <2>7, <2>9, <2>10, <2>11, <2>12
<1>2. IsFiniteSet(D)
  BY DEF IsMoney
<1>3. \A s \in SUBSET D : s \in Good
  <2> HIDE DEF Good
  <2> QED
    BY <1>1, <1>2, SubsetInduction
<1> QED
  BY <1>3

\* Totals of separate rows add up.
LEMMA TotalUnion ==
    ASSUME NEW A, NEW B, IsMoney(A), IsMoney(B), A \cap B = {}
    PROVE  IsMoney(A \cup B) /\ Total(A \cup B) = Total(A) + Total(B)
<1>0. \A s \in SUBSET B : IsMoney(s) /\ IsMoney(A \cup s) /\ Total(A) \in Nat /\ Total(s) \in Nat
  <2>1. SUFFICES ASSUME NEW s \in SUBSET B
                 PROVE  /\ IsMoney(s) /\ IsMoney(A \cup s)
                        /\ Total(A) \in Nat /\ Total(s) \in Nat
    OBVIOUS
  <2>2. IsMoney(s)
    BY MoneyOfSubset
  <2>3. IsFiniteSet(A \cup s)
    BY <2>2, FS_Union DEF IsMoney
  <2> QED
    BY <2>2, <2>3, TotalType DEF IsMoney
<1> DEFINE Good == {s \in SUBSET B : Total(A \cup s) = Total(A) + Total(s)}
<1>1. ASSUME NEW s \in SUBSET B, \A u \in SUBSET s : u # s => u \in Good
      PROVE  s \in Good
  <2>2. CASE s = {}
    <3>1. A \cup s = A
      BY <2>2
    <3> QED
      BY <1>0, <2>2, <3>1, TotalStep
  <2>3. CASE s # {}
    <3>1. PICK x \in s : TRUE
      BY <2>3
    <3>2. Total(A \cup (s \ {x})) = Total(A) + Total(s \ {x})
      BY <1>1, <3>1
    <3>3. (A \cup s) \ {x} = A \cup (s \ {x})
      BY <3>1
    <3>4. Total(A \cup s) = x.amount + Total(A \cup (s \ {x}))
      BY <1>0, <3>1, <3>3, TotalRemove
    <3>5. Total(s) = x.amount + Total(s \ {x})
      BY <1>0, <3>1, TotalRemove
    <3>6. x.amount \in Nat /\ Total(s \ {x}) \in Nat
      BY <1>0, <3>1 DEF IsMoney
    <3>7. Total(A) \in Nat /\ Total(s) \in Nat
      BY <1>0
    <3>8. \A a, x1, t \in Nat : x1 + (a + t) = a + (x1 + t)
      OBVIOUS
    <3> QED
      BY <3>2, <3>4, <3>5, <3>6, <3>7, <3>8
  <2> QED
    BY <2>2, <2>3

<1>2. IsFiniteSet(B)
  BY DEF IsMoney
<1>3. \A s \in SUBSET B : s \in Good
  <2> HIDE DEF Good
  <2> QED
    BY <1>1, <1>2, SubsetInduction
<1> QED
  BY <1>0, <1>3

\* A part is never more than the whole.
LEMMA TotalOfSubset ==
    ASSUME NEW D, IsMoney(D), NEW s \in SUBSET D
    PROVE  Total(s) <= Total(D)
<1>1. IsMoney(s) /\ IsMoney(D \ s)
  BY MoneyOfSubset
<1>2. Total(D) = Total(s) + Total(D \ s)
  <2>1. s \cup (D \ s) = D /\ s \cap (D \ s) = {}
    OBVIOUS
  <2> QED
    BY <1>1, <2>1, TotalUnion
<1>3. Total(s) \in Nat /\ Total(D \ s) \in Nat
  BY <1>1, TotalType
<1> QED
  BY <1>2, <1>3

\* A row of some money makes a total of some.
LEMMA TotalPositive ==
    ASSUME NEW D, IsMoney(D), NEW x \in D, x.amount > 0
    PROVE  Total(D) > 0
<1>1. Total(D) = x.amount + Total(D \ {x}) /\ x.amount \in Nat /\ Total(D \ {x}) \in Nat
  BY TotalRemove, TotalType, MoneyOfSubset DEF IsMoney
<1> QED
  BY <1>1

\* The same amounts, kept in other rows, add up to the same.
LEMMA TotalOfImage ==
    ASSUME NEW D, IsMoney(D), NEW f, \A d, e \in D : f[d] = f[e] => d = e,
           \A d \in D : f[d].amount = d.amount
    PROVE  Total({f[d] : d \in D}) = Total(D)
<1> DEFINE Image(s) == {f[d] : d \in s}
<1>0. \A s \in SUBSET D : IsMoney(s) /\ IsMoney(Image(s))
  <2>1. SUFFICES ASSUME NEW s \in SUBSET D PROVE IsMoney(s) /\ IsMoney(Image(s))
    OBVIOUS
  <2>2. IsMoney(s)
    BY MoneyOfSubset
  <2>3. IsFiniteSet(Image(s))
    <3>1. [d \in s |-> f[d]] \in Surjection(s, Image(s))
      BY DEF Surjection
    <3> QED
      BY <2>2, <3>1, FS_Surjection DEF IsMoney
  <2> QED
    BY <2>2, <2>3 DEF IsMoney
<1> DEFINE Good == {s \in SUBSET D : Total(Image(s)) = Total(s)}
<1>1. ASSUME NEW s \in SUBSET D, \A u \in SUBSET s : u # s => u \in Good
      PROVE  s \in Good
  <2>2. CASE s = {}
    <3>1. Image(s) = {}
      BY <2>2
    <3> QED
      BY <2>2, <3>1
  <2>3. CASE s # {}
    <3>1. PICK x \in s : TRUE
      BY <2>3
    <3>2. Image(s) \ {f[x]} = Image(s \ {x}) /\ f[x] \in Image(s)
      BY <3>1
    <3>3. Total(Image(s)) = f[x].amount + Total(Image(s \ {x}))
      BY <1>0, <3>2, TotalRemove
    <3>4. Total(s) = x.amount + Total(s \ {x})
      BY <1>0, <3>1, TotalRemove
    <3>5. Total(Image(s \ {x})) = Total(s \ {x})
      BY <1>1, <3>1
    <3> QED
      BY <3>1, <3>3, <3>4, <3>5
  <2> QED
    BY <2>2, <2>3
<1>2. IsFiniteSet(D)
  BY DEF IsMoney
<1>3. \A s \in SUBSET D : s \in Good
  <2> HIDE DEF Good
  <2> QED
    BY <1>1, <1>2, SubsetInduction
<1> QED
  BY <1>3

-----------------------------------------------------------------------------
(* The nearest shares *)

\* The season of a day is a season, when there is one.
LEMMA SeasonForType ==
    ASSUME NEW b, SeasonFor(b) # None
    PROVE  SeasonFor(b) \in Seasons /\ BookedOn[b] \in Starts[SeasonFor(b)]..Ends[SeasonFor(b)]
BY DEF SeasonFor, SeasonAt

\* A debt's place within its game is a number.
LEMMA PlaceType ==
    ASSUME NEW p, NEW d \in Debts
    PROVE  Place(p, d) \in Nat
<1>1. d.member \notin Players => d.member.ordinal \in Nat
  <2>1. ASSUME d.member \notin Players PROVE d.member \in PlusOnes
    BY <2>1 DEF Debts, Members
  <2> QED
    BY <2>1, SharesAssumption DEF PlusOnes
<1> QED
  BY <1>1 DEF Place

\* How far the game of a debt is from the Bizum, among the debts of its kind.
Distance(b, d) ==
    CASE KindFor(b, d) = "near"   -> BookedOn[b] - PlayedOn[d.game]
      [] KindFor(b, d) = "later"  -> PlayedOn[d.game]
      [] KindFor(b, d) = "before" -> Starts[SeasonFor(b)] - PlayedOn[d.game]

\* A debt's distance is a number: the day it was of, counted the way its kind is.
LEMMA DistanceType ==
    ASSUME BizumDeskAssumption, NEW b \in Bizums, SeasonFor(b) # None,
           NEW d \in Debts, KindFor(b, d) \in Kinds
    PROVE  Distance(b, d) \in Nat
<1>1. PlayedOn[d.game] \in Nat /\ BookedOn[b] \in Nat /\ Starts[SeasonFor(b)] \in Nat
  BY SeasonForType DEF BizumDeskAssumption, Debts
<1> QED
  BY <1>1 DEF Distance, KindFor, Kinds

\* Of some debts one has no other nearer: the precedence, the distance and the place,
\* in that order, are numbers, and there is a least one of each.
LEMMA NearestOne ==
    ASSUME BizumDeskAssumption, NEW b \in Bizums, SeasonFor(b) # None, NEW p,
           NEW S \in SUBSET Debts, S # {}, \A d \in S : KindFor(b, d) \in Kinds
    PROVE  \E m \in S : \A e \in S : ~Nearer(b, p, e, m)
<1> DEFINE Rank(d) == Precedence[KindFor(b, d)]
<1>0. \A d \in S : Rank(d) \in Nat /\ Distance(b, d) \in Nat /\ Place(p, d) \in Nat
  BY DistanceType, PlaceType DEF Precedence, Kinds
<1>1. PICK d1 \in S : \A e \in S : Rank(d1) <= Rank(e)
  <2> DEFINE Ranks == {Rank(d) : d \in S}
  <2>1. Ranks \in SUBSET Nat /\ Ranks # {}
    BY <1>0
  <2> HIDE DEF Rank
  <2>2. PICK k \in Ranks : \A l \in Ranks : k <= l
    <3> HIDE DEF Ranks
    <3> QED
      BY <2>1, LeastNumber
  <2> QED
    BY <2>2
<1> DEFINE S1 == {d \in S : Rank(d) = Rank(d1)}
<1>2. PICK d2 \in S1 : \A e \in S1 : Distance(b, d2) <= Distance(b, e)
  <2> DEFINE Distances == {Distance(b, d) : d \in S1}
  <2>1. Distances \in SUBSET Nat /\ Distances # {}
    BY <1>0, <1>1
  <2>2. PICK k \in Distances : \A l \in Distances : k <= l
    <3> HIDE DEF Distances
    <3> QED
      BY <2>1, LeastNumber
  <2> HIDE DEF Rank
  <2> QED
    BY <2>2
<1> DEFINE S2 == {d \in S1 : d.game = d2.game}
<1>3. PICK m \in S2 : \A e \in S2 : Place(p, m) <= Place(p, e)
  <2> DEFINE Places == {Place(p, d) : d \in S2}
  <2>1. Places \in SUBSET Nat /\ Places # {}
    BY <1>0, <1>2
  <2>2. PICK k \in Places : \A l \in Places : k <= l
    <3> HIDE DEF Places
    <3> QED
      BY <2>1, LeastNumber
  <2> HIDE DEF Rank
  <2> QED
    BY <2>2
<1>4. m \in S /\ Rank(m) = Rank(d1) /\ m.game = d2.game
  BY <1>3
<1>5. ASSUME NEW e \in S, Nearer(b, p, e, m) PROVE FALSE
  <2>1. Rank(m) <= Rank(e)
    BY <1>1, <1>4
  <2>2. KindFor(b, e) = KindFor(b, m)
    BY <1>0, <1>4, <1>5, <2>1 DEF Nearer
  <2>3. e \in S1 /\ m \in S1
    BY <1>4, <2>2
  <2>4. Distance(b, m) <= Distance(b, e)
    <3>1. KindFor(b, d2) = KindFor(b, m)
      <4>1. Rank(d2) = Rank(m) /\ KindFor(b, d2) \in Kinds /\ KindFor(b, m) \in Kinds
        BY <1>2, <1>4
      <4> QED
        BY <4>1 DEF Precedence, Kinds
    <3>2. Distance(b, d2) = Distance(b, m)
      BY <1>4, <3>1 DEF Distance
    <3> QED
      BY <1>2, <2>3, <3>2
  <2>5. CASE e.game = m.game
    <3>1. e \in S2 /\ Place(p, m) <= Place(p, e)
      BY <1>3, <1>4, <2>3, <2>5
    <3>2. ~(Place(p, e) < Place(p, m))
      BY <1>0, <1>4, <3>1
    <3>3. PlayedOn[e.game] \in Nat
      BY DEF BizumDeskAssumption, Debts
    <3> QED
      BY <1>0, <1>4, <1>5, <2>2, <2>5, <3>2, <3>3 DEF Nearer
  <2>6. CASE e.game # m.game
    <3>1. /\ PlayedOn[e.game] \in Nat /\ PlayedOn[m.game] \in Nat /\ BookedOn[b] \in Nat
          /\ Starts[SeasonFor(b)] \in Nat
      BY <1>4, SeasonForType DEF BizumDeskAssumption, Debts
    <3>2. KindFor(b, m) \in Kinds
      BY <1>4
    <3>3. CASE KindFor(b, m) = "later"
      <4>1. PlayedOn[e.game] < PlayedOn[m.game]
        BY <1>0, <1>4, <1>5, <2>2, <2>6, <3>3 DEF Nearer
      <4> QED
        BY <2>2, <2>4, <3>1, <3>3, <4>1 DEF Distance
    <3>4. CASE KindFor(b, m) # "later"
      <4>1. PlayedOn[e.game] > PlayedOn[m.game]
        BY <1>0, <1>4, <1>5, <2>2, <2>6, <3>4 DEF Nearer
      <4> QED
        BY <2>2, <2>4, <3>1, <3>2, <3>4, <4>1 DEF Distance, Kinds
    <3> QED
      BY <3>3, <3>4
  <2> QED
    BY <2>5, <2>6
<1> QED
  BY <1>4, <1>5

\* So there are n nearest, as long as there are n: NearestOf finds what it looks for.
LEMMA NearestAreThere ==
    ASSUME BizumDeskAssumption, NEW b \in Bizums, NEW p, NEW S \in SUBSET Debts, IsFiniteSet(S),
           \A d \in S : SeasonFor(b) # None /\ KindFor(b, d) \in Kinds,
           NEW n \in Nat, n <= Cardinality(S)
    PROVE  /\ NearestOf(b, p, S, n) \in SUBSET S
           /\ Cardinality(NearestOf(b, p, S, n)) = n
           /\ \A d \in NearestOf(b, p, S, n), e \in S \ NearestOf(b, p, S, n) :
                 ~Nearer(b, p, e, d)
<1> DEFINE Are(chosen, k) == /\ Cardinality(chosen) = k
                             /\ \A d \in chosen, e \in S \ chosen : ~Nearer(b, p, e, d)
           Missing == {k \in Nat : k <= Cardinality(S) /\ \A chosen \in SUBSET S : ~Are(chosen, k)}
<1>0. \A s \in SUBSET S : IsFiniteSet(s) /\ Cardinality(s) \in Nat
  BY FS_Subset, FS_CardinalityType
<1>1. Missing = {}
  <2>0. Missing \in SUBSET Nat
    OBVIOUS
  <2>1. SUFFICES ASSUME NEW k \in Missing, \A l \in Missing : k <= l PROVE FALSE
    <3> HIDE DEF Missing
    <3> QED
      BY <2>0, LeastNumber
  <2>2. CASE k = 0
    <3>1. Are({}, 0)
      BY FS_EmptySet
    <3> QED
      BY <2>1, <2>2, <3>1
  <2>3. CASE k # 0
    <3>1. k - 1 \in Nat /\ k - 1 \notin Missing /\ k - 1 <= Cardinality(S) /\ k <= Cardinality(S)
      BY <1>0, <2>1, <2>3
    <3>2. PICK chosen \in SUBSET S : Are(chosen, k - 1)
      BY <3>1
    <3>3. S \ chosen # {}
      <4>1. Cardinality(chosen) # Cardinality(S)
        BY <1>0, <3>1, <3>2
      <4> QED
        BY <4>1
    <3>4. PICK m \in S \ chosen : \A e \in S \ chosen : ~Nearer(b, p, e, m)
      BY <3>3, NearestOne
    <3>5. Cardinality(chosen \union {m}) = k
      BY <1>0, <3>1, <3>2, FS_AddElement
    <3>6. Are(chosen \union {m}, k) /\ chosen \union {m} \in SUBSET S
      BY <3>2, <3>4, <3>5
    <3> QED
      BY <2>1, <3>6
  <2> QED
    BY <2>2, <2>3
<1>2. \E chosen \in SUBSET S : Are(chosen, n)
  BY <1>1
<1> QED
  BY <1>2 DEF NearestOf

-----------------------------------------------------------------------------
(* The invariant, of the tables a transaction has so far *)

PaymentsIn(t, b) == {p \in t.book.payments : p.bizum = b}
PaidIn(t, b)     == Total(PaymentsIn(t, b))

\* The rules pay the past of the Bizum's own season, and shares of the sender.
OfThePast(b, payer, share) ==
    /\ SeasonOf[share.game] = SeasonFor(b)
    /\ PlayedOn[share.game] <= BookedOn[b]
    /\ MayPay(payer, share)

\* Only a settled Bizum pays or has money left, and no more than it brought.
BizumInv(t, b) ==
    /\ t.handling[b].status # "settled" => /\ t.handling[b].how = None
                                           /\ t.handling[b].left = 0
                                           /\ PaymentsIn(t, b) = {}
    /\ PaidIn(t, b) + t.handling[b].left <= Amount[b]
    /\ t.handling[b].how = "automatic" => \A p \in PaymentsIn(t, b) : OfThePast(b, p.payer, p)

Contents ==
    [book : Books, played : SUBSET Games,
     entry : [Bizums -> {"unseen", "kept", "discarded", "dismissed"}],
     handling : [Bizums -> [status : {"none", "waiting", "settled"},
                            how : {None, "automatic", "organiser"}, left : Nat]],
     phone : [Players -> Phones \union {None}], names : [Players -> SUBSET SenderNames]]

BookInv(book_) ==
    OneTable(book_) /\ IsFiniteSet(book_.debts) /\ IsFiniteSet(book_.payments)

\* The tables between two turns of a transaction.
Sound == {t \in Contents : BookInv(t.book) /\ \A b \in Bizums : BizumInv(t, b)}

\* A Bizum is handled exactly when its entry is kept.
EntriesInv(t) == \A b \in Bizums : t.entry[b] = "kept" <=> t.handling[b].status # "none"

\* The tables between two transactions.
Committed == {t \in Sound : EntriesInv(t)}

IInv == Tables \in Committed /\ shareCents \in [Seasons -> ShareAmounts]

-----------------------------------------------------------------------------
(* What paying with a Bizum does *)

\* Debts and payments of a sound book are money.
LEMMA BookMoney ==
    ASSUME NEW t \in Sound
    PROVE  /\ IsMoney(t.book.debts) /\ IsMoney(t.book.payments)
           /\ \A b : IsMoney(PaymentsIn(t, b)) /\ PaidIn(t, b) \in Nat
<1>1. IsMoney(t.book.debts) /\ IsMoney(t.book.payments)
  BY DEF IsMoney, Sound, BookInv, Contents, Books, Debts, Payments, Cents
<1>2. ASSUME NEW b PROVE IsMoney(PaymentsIn(t, b)) /\ PaidIn(t, b) \in Nat
  <2>1. PaymentsIn(t, b) \in SUBSET t.book.payments
    BY DEF PaymentsIn
  <2> QED
    BY <1>1, <2>1, MoneyOfSubset, TotalType DEF PaidIn
<1> QED
  BY <1>1, <1>2

\* The payments made of some debts.
Paying(b, payer, debts) == {PaymentOf(d, payer, d.amount, b) : d \in debts}

\* They are payments, each of one of the debts, and come to what was owed.
LEMMA PayingType ==
    ASSUME NEW b \in Bizums \union {None}, NEW payer \in Players,
           NEW debts \in SUBSET Debts, IsFiniteSet(debts)
    PROVE  /\ Paying(b, payer, debts) \in SUBSET Payments
           /\ IsFiniteSet(Paying(b, payer, debts))
           /\ \A p \in Paying(b, payer, debts) :
                 p.payer = payer /\ p.bizum = b /\ \E d \in debts : /\ SameShare(d, p)
                                                                    /\ p.game = d.game
                                                                    /\ p.member = d.member
                                                                    /\ p.holder = d.holder
           /\ \A d \in debts : \E p \in Paying(b, payer, debts) : SameShare(d, p)
           /\ Total(Paying(b, payer, debts)) = Total(debts)
<1> DEFINE pay == [d \in debts |-> PaymentOf(d, payer, d.amount, b)]
<1>0. Paying(b, payer, debts) = {pay[d] : d \in debts}
  BY DEF Paying
<1>1. \A d \in debts : /\ pay[d] \in Payments /\ pay[d].amount = d.amount
                       /\ pay[d].game = d.game /\ pay[d].member = d.member
                       /\ pay[d].holder = d.holder /\ pay[d].payer = payer /\ pay[d].bizum = b
  BY DEF PaymentOf, Payments, Debts
<1>2. \A d, e \in debts : pay[d] = pay[e] => d = e
  <2>1. SUFFICES ASSUME NEW d \in debts, NEW e \in debts, pay[d] = pay[e] PROVE d = e
    OBVIOUS
  <2>2. /\ d.game = e.game /\ d.member = e.member /\ d.holder = e.holder
        /\ d.amount = e.amount
    <3> HIDE DEF pay
    <3> QED
      BY <1>1, <2>1
  <2> QED
    BY <2>2 DEF Debts
<1> HIDE DEF pay
<1>3. IsMoney(debts)
  BY DEF IsMoney, Debts, Cents
<1>4. Total({pay[d] : d \in debts}) = Total(debts)
  BY <1>1, <1>2, <1>3, TotalOfImage
<1>5. IsFiniteSet({pay[d] : d \in debts})
  <2>1. [d \in debts |-> pay[d]] \in Surjection(debts, {pay[d] : d \in debts})
    BY DEF Surjection
  <2> QED
    BY <2>1, FS_Surjection
<1>6. /\ Paying(b, payer, debts) \in SUBSET Payments
      /\ \A p \in Paying(b, payer, debts) :
            p.payer = payer /\ p.bizum = b /\ \E d \in debts : /\ SameShare(d, p)
                                                               /\ p.game = d.game
                                                               /\ p.member = d.member
                                                               /\ p.holder = d.holder
      /\ \A d \in debts : \E p \in Paying(b, payer, debts) : SameShare(d, p)
  BY <1>0, <1>1 DEF SameShare
<1> QED
  BY <1>0, <1>4, <1>5, <1>6

\* Settling debts of a sound book with them moves those debts, and leaves it sound.
LEMMA SettlingIsSound ==
    ASSUME NEW bk \in Books, BookInv(bk), NEW b \in Bizums \union {None}, NEW payer \in Players,
           NEW debts \in SUBSET bk.debts
    PROVE  LET ps == Paying(b, payer, debts)
               c  == Settle(bk, ps)
           IN /\ c \in Books /\ BookInv(c)
              /\ c.debts = bk.debts \ debts
              /\ c.payments = bk.payments \union ps
<1> DEFINE ps == Paying(b, payer, debts)
           c  == Settle(bk, ps)
<1>0. bk.debts \in SUBSET Debts /\ debts \in SUBSET Debts /\ IsFiniteSet(debts)
  BY FS_Subset DEF Books, BookInv
<1>1. /\ ps \in SUBSET Payments /\ IsFiniteSet(ps)
      /\ \A p \in ps : \E d \in debts : SameShare(d, p)
      /\ \A d \in debts : \E p \in ps : SameShare(d, p)
  BY <1>0, PayingType
<1>2. \A p, q \in ps : SameShare(p, q) => p = q
  <2>1. SUFFICES ASSUME NEW p \in ps, NEW q \in ps, SameShare(p, q) PROVE p = q
    OBVIOUS
  <2>2. PICK d \in debts : p = PaymentOf(d, payer, d.amount, b)
    BY DEF Paying
  <2>3. PICK e \in debts : q = PaymentOf(e, payer, e.amount, b)
    BY DEF Paying
  <2>4. SameShare(d, e)
    BY <2>1, <2>2, <2>3 DEF SameShare, PaymentOf
  <2> QED
    BY <2>2, <2>3, <2>4 DEF OneTable, BookInv
<1> HIDE DEF ps
<1>3. /\ c.debts = {d \in bk.debts : \A p \in ps : ~SameShare(d, p)}
      /\ c.payments = bk.payments \union ps
  BY DEF Settle, Upsert, Books
<1>4. c.debts = bk.debts \ debts
  <2>1. \A d \in bk.debts : (\E p \in ps : SameShare(d, p)) <=> d \in debts
    <3>1. SUFFICES ASSUME NEW d \in bk.debts, NEW p \in ps, SameShare(d, p) PROVE d \in debts
      BY <1>1
    <3>2. PICK e \in debts : SameShare(e, p)
      BY <1>1
    <3> QED
      BY <3>1, <3>2 DEF OneTable, BookInv, SameShare
  <2> QED
    BY <1>3, <2>1
<1>5. OneTable(c)
  BY <1>1, <1>2, SettleKeepsOneTable DEF BookInv
<1>6. c \in Books
  BY <1>1, SettleType
<1>7. IsFiniteSet(c.debts) /\ IsFiniteSet(c.payments)
  BY <1>1, <1>3, <1>4, FS_Subset, FS_Union DEF BookInv
<1> QED
  BY <1>3, <1>4, <1>5, <1>6, <1>7 DEF ps, BookInv

-----------------------------------------------------------------------------
(* What a turn does: b waits, or is settled; every other Bizum stays as it was *)

Judged(t, u, b) ==
    /\ u \in Sound
    /\ u.played = t.played /\ u.entry = t.entry /\ u.phone = t.phone /\ u.names = t.names
    /\ u.book.debts \subseteq t.book.debts
    /\ \A c \in Bizums \ {b} : /\ u.handling[c] = t.handling[c]
                               /\ PaymentsIn(u, c) = PaymentsIn(t, c)
    /\ \/ u.handling[b] = Waiting /\ u.book = t.book
       \/ u.handling[b].status = "settled" /\ PaidIn(u, b) \in 1..Amount[b]

\* A Bizum that pays nothing may wait.
LEMMA WaitJudges ==
    ASSUME BizumDeskAssumption, NEW t \in Sound, NEW b \in Bizums, PaymentsIn(t, b) = {}
    PROVE  Judged(t, Wait(t, b), b)
<1> DEFINE u == Wait(t, b)
<1>0. t \in Contents /\ BookInv(t.book) /\ \A c \in Bizums : BizumInv(t, c)
  BY DEF Sound
<1>1. /\ u.book = t.book /\ u.played = t.played /\ u.entry = t.entry
      /\ u.phone = t.phone /\ u.names = t.names
      /\ u.handling = [t.handling EXCEPT ![b] = Waiting]
  BY <1>0 DEF Wait, Contents
<1>2. u \in Contents
  <2>1. u.handling \in [Bizums -> [status : {"none", "waiting", "settled"},
                                   how : {None, "automatic", "organiser"}, left : Nat]]
    BY <1>0, <1>1 DEF Contents, Waiting
  <2> QED
    BY <1>0, <2>1 DEF Wait, Contents
<1>3. \A c \in Bizums \ {b} : u.handling[c] = t.handling[c]
  BY <1>0, <1>1 DEF Contents
<1>4. u.handling[b] = Waiting
  BY <1>0, <1>1 DEF Contents
<1>5. \A c : PaymentsIn(u, c) = PaymentsIn(t, c)
  BY <1>1 DEF PaymentsIn
<1> HIDE DEF u
<1>6. BizumInv(u, b)
  <2>1. PaidIn(u, b) = 0 /\ PaymentsIn(u, b) = {}
    BY <1>5, TotalStep DEF PaidIn
  <2>2. Amount[b] \in Nat
    BY DEF BizumDeskAssumption, Cents
  <2>3. None # "automatic"
    BY DEF None
  <2> QED
    BY <1>4, <2>1, <2>2, <2>3 DEF BizumInv, Waiting
<1>7. \A c \in Bizums \ {b} : BizumInv(u, c)
  BY <1>0, <1>3, <1>5 DEF BizumInv, PaidIn
<1>8. u \in Sound
  BY <1>0, <1>1, <1>2, <1>6, <1>7 DEF Sound
<1> QED
  BY <1>1, <1>3, <1>4, <1>5, <1>8 DEF Judged, u

\* A Bizum that pays nothing yet may pay some debts that are worth no more than it is.
LEMMA PayJudges ==
    ASSUME BizumDeskAssumption, NEW t \in Sound, NEW b \in Bizums, PaymentsIn(t, b) = {},
           NEW payer \in Players, NEW debts \in SUBSET t.book.debts, debts # {},
           Total(debts) <= Amount[b],
           NEW how \in {"automatic", "organiser"}, NEW rest,
           how = "automatic" => \A d \in debts : OfThePast(b, payer, d)
    PROVE  /\ Judged(t, Pay(t, b, payer, debts, how, rest), b)
           /\ Pay(t, b, payer, debts, how, rest).handling[b].status = "settled"
<1> DEFINE left == IF rest = "dismiss" THEN 0 ELSE Amount[b] - Total(debts)
           ps   == Paying(b, payer, debts)
           u    == [t EXCEPT !.book = Settle(@, ps), !.handling[b] = Settled(how, left)]
<1>0. t \in Contents /\ BookInv(t.book) /\ \A c \in Bizums : BizumInv(t, c)
  BY DEF Sound
<1>a. t.book \in Books /\ debts \in SUBSET Debts /\ IsFiniteSet(debts) /\ IsMoney(debts)
  <2>1. IsMoney(t.book.debts) /\ t.book \in Books
    BY <1>0, BookMoney DEF Contents
  <2>2. IsMoney(debts)
    BY <2>1, MoneyOfSubset
  <2> QED
    BY <2>1, <2>2 DEF IsMoney, Books
<1>b. Amount[b] \in Nat /\ Total(debts) \in Nat /\ Total(debts) > 0 /\ left \in Nat
  <2>1. PICK d \in debts : d.amount > 0
    BY <1>a DEF Debts, Cents
  <2>2. Total(debts) \in Nat /\ Total(debts) > 0
    BY <1>a, <2>1, TotalType, TotalPositive
  <2>3. Amount[b] \in Nat
    BY DEF BizumDeskAssumption, Cents
  <2> QED
    BY <2>2, <2>3
<1>c. Pay(t, b, payer, debts, how, rest) = u
  <2>1. ~(Total(debts) > Amount[b])
    BY <1>b
  <2> QED
    BY <2>1 DEF Pay, Paying
<1> DEFINE bk == Settle(t.book, ps)
<1>d. /\ bk \in Books /\ BookInv(bk)
      /\ bk.debts = t.book.debts \ debts
      /\ bk.payments = t.book.payments \union ps
  BY <1>0, <1>a, SettlingIsSound
<1>e. /\ Total(ps) = Total(debts)
      /\ \A p \in ps : p.payer = payer /\ p.bizum = b /\ \E d \in debts : /\ p.game = d.game
                                                                         /\ p.member = d.member
                                                                         /\ p.holder = d.holder
  BY <1>a, PayingType
<1>1. /\ u.book = bk /\ u.played = t.played /\ u.entry = t.entry
      /\ u.phone = t.phone /\ u.names = t.names
      /\ u.handling = [t.handling EXCEPT ![b] = Settled(how, left)]
  BY <1>0 DEF Contents
<1>2. u \in Contents
  <2> HIDE DEF left, ps, bk
  <2>1. u.handling \in [Bizums -> [status : {"none", "waiting", "settled"},
                                   how : {None, "automatic", "organiser"}, left : Nat]]
    BY <1>0, <1>1, <1>b DEF Contents, Settled
  <2> QED
    BY <1>0, <1>1, <1>d, <2>1 DEF Contents
<1>3. \A c \in Bizums \ {b} : u.handling[c] = t.handling[c]
  BY <1>0, <1>1 DEF Contents
<1>4. u.handling[b] = Settled(how, left)
  BY <1>0, <1>1 DEF Contents
<1> HIDE DEF left, ps, bk, u
<1>5. PaymentsIn(u, b) = ps /\ \A c \in Bizums \ {b} : PaymentsIn(u, c) = PaymentsIn(t, c)
  BY <1>1, <1>d, <1>e DEF PaymentsIn
<1>6. PaidIn(u, b) = Total(debts)
  BY <1>5, <1>e DEF PaidIn
<1>7. BizumInv(u, b)
  <2>1. PaidIn(u, b) + left <= Amount[b]
    BY <1>6, <1>b DEF left
  <2>2. how = "automatic" => \A p \in ps : OfThePast(b, p.payer, p)
    BY <1>e DEF OfThePast, MayPay
  <2> QED
    BY <1>4, <1>5, <2>1, <2>2 DEF BizumInv, Settled
<1>8. \A c \in Bizums \ {b} : BizumInv(u, c)
  BY <1>0, <1>3, <1>5 DEF BizumInv, PaidIn
<1>9. u \in Sound
  BY <1>1, <1>2, <1>7, <1>8, <1>d DEF Sound
<1>10. u.handling[b].status = "settled" /\ PaidIn(u, b) \in 1..Amount[b]
  BY <1>4, <1>6, <1>b DEF Settled
<1> QED
  BY <1>1, <1>3, <1>5, <1>9, <1>10, <1>c, <1>d DEF Judged

\* The shares a Bizum may pay are debts, of games that are played.
LEMMA SharesAreDebts ==
    ASSUME NEW t \in Sound, NEW b, NEW p, NEW kinds \in SUBSET Kinds
    PROVE  /\ SharesFor(t, b, p, kinds) \in SUBSET t.book.debts
           /\ SharesFor(t, b, p, kinds) \in SUBSET Debts
           /\ IsFiniteSet(SharesFor(t, b, p, kinds))
           /\ \A d \in SharesFor(t, b, p, kinds) : SeasonFor(b) # None /\ KindFor(b, d) \in Kinds
<1>1. SharesFor(t, b, p, kinds) \in SUBSET t.book.debts
  BY DEF SharesFor
<1>2. IsFiniteSet(t.book.debts) /\ t.book.debts \in SUBSET Debts
  BY DEF Sound, BookInv, Contents, Books
<1> QED
  BY <1>1, <1>2, FS_Subset DEF SharesFor

\* Whom and what the rules pay with a Bizum they settle.
PayerOf(t, b) == CHOOSE p \in PlayersBehind(t, b) : TRUE
RuledOf(t, b) == NearestOf(b, PayerOf(t, b), SharesFor(t, b, PayerOf(t, b), {"near"}),
                           Amount[b] \div Share(b))

\* Some shares of the sender, no dearer than the Bizum can be asked to be, of the past.
LEMMA RuledAreOfThePast ==
    ASSUME BizumDeskAssumption, NEW t \in Sound, NEW b \in Bizums, Settles(t, b)
    PROVE  /\ PlayersBehind(t, b) = {PayerOf(t, b)} /\ PayerOf(t, b) \in Players
           /\ SeasonFor(b) # None /\ Amount[b] \div Share(b) \in 1..7
           /\ Cardinality(SharesFor(t, b, PayerOf(t, b), {"near"})) >= Amount[b] \div Share(b)
           /\ RuledOf(t, b) \in SUBSET SharesFor(t, b, PayerOf(t, b), {"near"})
           /\ RuledOf(t, b) \in SUBSET t.book.debts
           /\ Cardinality(RuledOf(t, b)) = Amount[b] \div Share(b)
           /\ RuledOf(t, b) # {}
           /\ \A d \in RuledOf(t, b) : OfThePast(b, PayerOf(t, b), d)
<1> DEFINE behind == PlayersBehind(t, b)
           payer  == PayerOf(t, b)
           near   == SharesFor(t, b, payer, {"near"})
           n      == Amount[b] \div Share(b)
           ruled  == RuledOf(t, b)
<1>1. behind = {payer} /\ payer \in Players
  <2>1. behind \in SUBSET Players
    BY DEF PlayersBehind
  <2>2. IsFiniteSet(behind) /\ Cardinality(behind) = 1
    BY <2>1, FS_Subset DEF BizumDeskAssumption, Settles
  <2>3. PICK p : behind = {p}
    BY <2>2, FS_Singleton
  <2> QED
    BY <2>1, <2>3 DEF PayerOf
<1>2. SeasonFor(b) # None /\ n \in 1..7 /\ Cardinality(near) >= n
  BY <1>1 DEF Settles, Playable, Whole
<1>3. /\ near \in SUBSET t.book.debts /\ near \in SUBSET Debts /\ IsFiniteSet(near)
      /\ \A d \in near : KindFor(b, d) \in Kinds
  BY SharesAreDebts DEF Kinds
<1>4. n \in Nat /\ n <= Cardinality(near)
  BY <1>2, <1>3, FS_CardinalityType
<1>5. ruled \in SUBSET near /\ Cardinality(ruled) = n
  <2> HIDE DEF near, n, payer
  <2>1. /\ NearestOf(b, payer, near, n) \in SUBSET near
        /\ Cardinality(NearestOf(b, payer, near, n)) = n
    BY <1>2, <1>3, <1>4, NearestAreThere
  <2> QED
    BY <2>1 DEF RuledOf, near, n, payer
<1>6. ruled # {}
  <2> HIDE DEF n, ruled
  <2> QED
    BY <1>2, <1>5, FS_EmptySet
<1>7. \A d \in near : OfThePast(b, payer, d)
  BY <1>2 DEF SharesFor, KindFor, OfThePast, MayPay
<1> QED
  BY <1>1, <1>2, <1>3, <1>5, <1>6, <1>7

\* What the rules say of a Bizum that pays nothing: it waits, or it is settled.
LEMMA ApplyJudges ==
    ASSUME BizumDeskAssumption, NEW t \in Sound, NEW b \in Bizums, PaymentsIn(t, b) = {}
    PROVE  Judged(t, Apply(t, b), b)
<1>1. CASE ~Settles(t, b)
  BY <1>1, WaitJudges DEF Apply
<1>2. CASE Settles(t, b)
  <2>1. Apply(t, b) = Pay(t, b, PayerOf(t, b), RuledOf(t, b), "automatic", "keep")
    BY <1>2 DEF Apply, PayerOf, RuledOf
  <2>2. CASE Total(RuledOf(t, b)) > Amount[b]
    BY <2>1, <2>2, WaitJudges DEF Pay
  <2>3. CASE ~(Total(RuledOf(t, b)) > Amount[b])
    <3>1. Total(RuledOf(t, b)) <= Amount[b]
      <4>1. IsMoney(RuledOf(t, b))
        BY <1>2, RuledAreOfThePast, BookMoney, MoneyOfSubset
      <4>2. Total(RuledOf(t, b)) \in Nat /\ Amount[b] \in Nat
        BY <4>1, TotalType DEF BizumDeskAssumption, Cents
      <4> QED
        BY <2>3, <4>2
    <3> QED
      BY <1>2, <2>1, <3>1, RuledAreOfThePast, PayJudges
  <2> QED
    BY <2>2, <2>3
<1> QED
  BY <1>1, <1>2

-----------------------------------------------------------------------------
(* Turns: what every turn keeps, all of them keep *)

\* f has the states of n turns over S, each made from the one before, starting with t.
IsTurns(f, n, S, t, turn) ==
    /\ f \in [0..n -> S]
    /\ f[0] = t /\ \A i \in 1..n : f[i] = turn[<<f[i - 1], i>>]

\* There are such states, when every turn leaves S within itself.
LEMMA TurnsExist ==
    ASSUME NEW n \in Nat, NEW S, NEW t \in S, NEW turn,
           \A u \in S, i \in 1..n : turn[<<u, i>>] \in S
    PROVE  \E f : IsTurns(f, n, S, t, turn)
<1> DEFINE Run(f, k) == /\ f \in [0..k -> S]
                        /\ f[0] = t /\ \A i \in 1..k : f[i] = turn[<<f[i - 1], i>>]
           Missing == {k \in 0..n : \A f : ~Run(f, k)}
<1>1. Missing = {}
  <2>0. Missing \in SUBSET Nat
    OBVIOUS
  <2>1. SUFFICES ASSUME NEW k \in Missing, \A l \in Missing : k <= l PROVE FALSE
    <3> HIDE DEF Missing
    <3> QED
      BY <2>0, LeastNumber
  <2>2. CASE k = 0
    <3>1. Run([i \in 0..0 |-> t], 0)
      OBVIOUS
    <3> QED
      BY <2>1, <2>2, <3>1
  <2>3. CASE k # 0
    <3>1. k \in 1..n /\ k - 1 \in 0..n /\ k - 1 \notin Missing
      BY <2>1, <2>3
    <3>2. PICK f : Run(f, k - 1)
      BY <3>1
    <3> DEFINE g == [i \in 0..k |-> IF i = k THEN turn[<<f[k - 1], k>>] ELSE f[i]]
    <3>3. f[k - 1] \in S /\ turn[<<f[k - 1], k>>] \in S
      BY <3>1, <3>2
    <3>4. g \in [0..k -> S] /\ g[0] = t
      BY <3>1, <3>2, <3>3
    <3>5. ASSUME NEW i \in 1..k PROVE g[i] = turn[<<g[i - 1], i>>]
      <4>1. CASE i = k
        <5>1. g[k - 1] = f[k - 1] /\ g[k] = turn[<<f[k - 1], k>>]
          BY <3>1
        <5> QED
          BY <4>1, <5>1
      <4>2. CASE i # k
        <5>1. i \in 1..(k - 1) /\ i - 1 \in 0..(k - 1)
          BY <3>1, <4>2
        <5>2. g[i] = f[i] /\ g[i - 1] = f[i - 1]
          BY <3>1, <4>2, <5>1
        <5> QED
          BY <3>2, <5>1, <5>2
      <4> QED
        BY <4>1, <4>2
    <3> HIDE DEF g
    <3>6. Run(g, k)
      BY <3>4, <3>5
    <3> QED
      BY <2>1, <3>6
  <2> QED
    BY <2>2, <2>3
<1>2. n \in 0..n
  OBVIOUS
<1> QED
  BY <1>1, <1>2 DEF IsTurns

\* What the first state has, and every turn passes on, the last state has.
LEMMA TurnsKeep ==
    ASSUME NEW n \in Nat, NEW f, NEW Good, f[0] \in Good[0],
           \A i \in 1..n : f[i - 1] \in Good[i - 1] => f[i] \in Good[i]
    PROVE  \A i \in 0..n : f[i] \in Good[i]
<1> DEFINE Bad == {i \in 0..n : f[i] \notin Good[i]}
<1>0. Bad \in SUBSET Nat
  OBVIOUS
<1>1. SUFFICES ASSUME NEW i \in Bad, \A j \in Bad : i <= j PROVE FALSE
  <2>1. Bad = {}
    <3> HIDE DEF Bad
    <3> QED
      BY <1>0, <1>1, LeastNumber
  <2> QED
    BY <2>1
<1>2. i # 0 /\ i \in 1..n
  OBVIOUS
<1>3. i - 1 \in 0..n /\ i - 1 \notin Bad
  BY <1>1, <1>2
<1> QED
  BY <1>2, <1>3

\* One Bizum's turn to be judged again, and to be read.
JudgedAgain(u, b, bizums) ==
    IF b \in bizums /\ u.handling[b].status = "waiting" THEN Apply(u, b) ELSE u

ReadOf(u, b, given, from) == IF b \in given THEN Handle(u, b, from) ELSE u

\* Judging again ends with whatever each Bizum's turn passes on from the turn before.
LEMMA RejudgeKeeps ==
    ASSUME BizumOrderAssumption, NEW t \in Sound, NEW bizums, NEW Good, t \in Good[0],
           \A u \in Sound, b \in Bizums : JudgedAgain(u, b, bizums) \in Sound,
           \A i \in 1..Len(BizumOrder) : \A u \in Sound :
              u \in Good[i - 1] => JudgedAgain(u, BizumOrder[i], bizums) \in Good[i]
    PROVE  Rejudge(t, bizums) \in Sound /\ Rejudge(t, bizums) \in Good[Len(BizumOrder)]
<1> DEFINE n == Len(BizumOrder)
           Is(f) == f = [i \in 0..n |-> IF i = 0 THEN t
                                        ELSE JudgedAgain(f[i - 1], BizumOrder[i], bizums)]
           turn == [x \in Sound \X (1..n) |-> JudgedAgain(x[1], BizumOrder[x[2]], bizums)]
           after == CHOOSE f : Is(f)
<1>0. n \in Nat /\ \A i \in 1..n : BizumOrder[i] \in Bizums
  BY DEF BizumOrderAssumption
<1>1. \A u \in Sound, i \in 1..n : turn[<<u, i>>] = JudgedAgain(u, BizumOrder[i], bizums)
  OBVIOUS
<1> HIDE DEF n
<1>2. Is(after)
  <2>1. PICK f : IsTurns(f, n, Sound, t, turn)
    <3> HIDE DEF turn
    <3>1. \A u \in Sound, i \in 1..n : turn[<<u, i>>] \in Sound
      BY <1>0, <1>1
    <3> QED
      BY <1>0, <3>1, TurnsExist
  <2>2. ASSUME NEW i \in 1..n PROVE f[i] = JudgedAgain(f[i - 1], BizumOrder[i], bizums)
    <3>1. f[i - 1] \in Sound
      BY <1>0, <2>1 DEF IsTurns
    <3> QED
      BY <1>1, <2>1, <2>2, <3>1 DEF IsTurns
  <2>3. Is(f)
    BY <1>0, <2>1, <2>2 DEF IsTurns
  <2> QED
    BY <2>3
<1>3. Rejudge(t, bizums) = after[n]
  BY DEF Rejudge, InTurn, JudgedAgain, n
<1> HIDE DEF after
<1>4. after[0] = t /\ \A i \in 1..n : after[i] = JudgedAgain(after[i - 1], BizumOrder[i], bizums)
  BY <1>0, <1>2
<1>5. ASSUME NEW i \in 1..n,
             after[i - 1] \in Sound /\ after[i - 1] \in Good[i - 1]
      PROVE  after[i] \in Sound /\ after[i] \in Good[i]
  BY <1>0, <1>4, <1>5 DEF n
<1> DEFINE Both == [i \in 0..n |-> Good[i] \cap Sound]
<1>6. \A i \in 0..n : after[i] \in Both[i]
  <2>1. after[0] \in Both[0]
    BY <1>0, <1>4
  <2>2. \A i \in 1..n : after[i - 1] \in Both[i - 1] => after[i] \in Both[i]
    BY <1>0, <1>5
  <2> HIDE DEF Both
  <2> QED
    BY <1>0, <2>1, <2>2, TurnsKeep
<1> QED
  BY <1>0, <1>3, <1>6 DEF n

-----------------------------------------------------------------------------
(* What a transaction makes of a Bizum *)

StageIn(t, b) == IF t.entry[b] # "kept" THEN t.entry[b]
                 ELSE IF t.handling[b].status = "settled" THEN "settled" ELSE "waiting"

\* It stays, or is judged: discarded, kept waiting, or settled and paying something.
Advances(t, u, b) ==
    \/ StageIn(u, b) = StageIn(t, b) /\ PaidIn(u, b) = PaidIn(t, b)
    \/ StageIn(t, b) = "unseen" /\ StageIn(u, b) \in {"discarded", "waiting"} /\ PaidIn(u, b) = 0
    \/ /\ StageIn(t, b) \in {"unseen", "waiting"} /\ StageIn(u, b) = "settled"
       /\ PaidIn(u, b) \in 1..Amount[b]

\* Judging opens no debt, plays no game and writes nothing of the players.
Forward(t, u) == /\ u \in Committed
                 /\ u.played = t.played /\ u.phone = t.phone /\ u.names = t.names
                 /\ u.book.debts \subseteq t.book.debts
                 /\ \A b \in Bizums : Advances(t, u, b)

\* Judging twice is judging.
LEMMA ForwardIsTransitive ==
    ASSUME NEW t, NEW u, NEW v, Forward(t, u), Forward(u, v)
    PROVE  Forward(t, v)
BY DEF Forward, Advances

\* Judging nothing is judging.
LEMMA ForwardIsReflexive ==
    ASSUME NEW t \in Committed
    PROVE  Forward(t, t)
BY DEF Forward, Advances

\* Bizums that wait, or that no read has seen, pay nothing.
LEMMA NothingPaid ==
    ASSUME NEW t \in Sound, NEW b \in Bizums, t.handling[b].status # "settled"
    PROVE  PaymentsIn(t, b) = {} /\ PaidIn(t, b) = 0
BY TotalStep DEF Sound, BizumInv, PaidIn

\* A Bizum's turn to be judged again judges it and no other.
LEMMA JudgingGoesForward ==
    ASSUME BizumDeskAssumption, NEW t \in Committed, NEW b \in Bizums, NEW bizums
    PROVE  Forward(t, JudgedAgain(t, b, bizums))
<1> DEFINE u == JudgedAgain(t, b, bizums)
<1>1. CASE ~(b \in bizums /\ t.handling[b].status = "waiting")
  BY <1>1, ForwardIsReflexive DEF JudgedAgain
<1>2. CASE b \in bizums /\ t.handling[b].status = "waiting"
  <2>1. t \in Sound /\ EntriesInv(t) /\ PaymentsIn(t, b) = {} /\ PaidIn(t, b) = 0
    BY <1>2, NothingPaid DEF Committed
  <2>2. Judged(t, u, b)
    BY <1>2, <2>1, ApplyJudges DEF JudgedAgain
  <2> HIDE DEF u
  <2>3. t.entry[b] = "kept" /\ StageIn(t, b) = "waiting"
    BY <1>2, <2>1 DEF EntriesInv, StageIn
  <2>4. Advances(t, u, b)
    <3>1. CASE u.handling[b] = Waiting /\ u.book = t.book
      BY <2>2, <2>3, <3>1 DEF Judged, Advances, StageIn, PaidIn, PaymentsIn, Waiting
    <3>2. CASE u.handling[b].status = "settled" /\ PaidIn(u, b) \in 1..Amount[b]
      BY <2>2, <2>3, <3>2 DEF Judged, Advances, StageIn
    <3> QED
      BY <2>2, <3>1, <3>2 DEF Judged
  <2>5. \A c \in Bizums \ {b} : Advances(t, u, c)
    BY <2>2 DEF Judged, Advances, StageIn, PaidIn
  <2>6. EntriesInv(u)
    <3>1. u.handling[b].status # "none"
      BY <2>2 DEF Judged, Waiting
    <3> QED
      BY <2>1, <2>2, <2>3, <3>1 DEF Judged, EntriesInv
  <2>7. u \in Committed /\ u.played = t.played /\ u.phone = t.phone /\ u.names = t.names
      /\ u.book.debts \subseteq t.book.debts
    BY <2>2, <2>6 DEF Judged, Committed
  <2> QED
    BY <2>4, <2>5, <2>7 DEF Forward, u
<1> QED
  BY <1>1, <1>2

\* Writing what has become of an entry writes nothing else.
WithEntry(t, b, outcome) == [t EXCEPT !.entry[b] = outcome]

\* Only the entry of that Bizum changes.
LEMMA EntryWritten ==
    ASSUME NEW t \in Contents, NEW b \in Bizums,
           NEW outcome \in {"kept", "discarded", "dismissed"}
    PROVE  LET u == WithEntry(t, b, outcome)
           IN /\ u \in Contents
              /\ u.book = t.book /\ u.played = t.played /\ u.handling = t.handling
              /\ u.phone = t.phone /\ u.names = t.names
              /\ u.entry[b] = outcome /\ \A c \in Bizums \ {b} : u.entry[c] = t.entry[c]
<1> DEFINE u == WithEntry(t, b, outcome)
<1> USE DEF WithEntry
<1>1. /\ u.book = t.book /\ u.played = t.played /\ u.handling = t.handling
      /\ u.phone = t.phone /\ u.names = t.names
      /\ u.entry = [t.entry EXCEPT ![b] = outcome]
  BY DEF Contents
<1>2. u.entry \in [Bizums -> {"unseen", "kept", "discarded", "dismissed"}]
  BY <1>1 DEF Contents
<1>3. u \in Contents
  BY <1>2 DEF Contents
<1>4. u.entry[b] = outcome /\ \A c \in Bizums \ {b} : u.entry[c] = t.entry[c]
  BY <1>1 DEF Contents
<1> QED
  BY <1>1, <1>3, <1>4

\* Reading an entry judges its Bizum and no other, and keeps entries and handling in step.
LEMMA HandlingGoesForward ==
    ASSUME BizumDeskAssumption, NEW t \in Committed, NEW b \in Bizums, NEW from
    PROVE  Forward(t, Handle(t, b, from))
<1> DEFINE u == Handle(t, b, from)
<1>0. t \in Sound /\ EntriesInv(t) /\ t \in Contents
  BY DEF Committed, Sound
<1>1. CASE t.entry[b] # "unseen" \/ BookedOn[b] < from
  BY <1>1, ForwardIsReflexive DEF Handle
<1>2. CASE ~(t.entry[b] # "unseen" \/ BookedOn[b] < from)
  <2>1. /\ t.entry[b] = "unseen" /\ t.handling[b].status = "none"
        /\ PaymentsIn(t, b) = {} /\ PaidIn(t, b) = 0 /\ StageIn(t, b) = "unseen"
    <3>1. t.entry[b] = "unseen" /\ t.handling[b].status = "none"
      BY <1>0, <1>2 DEF EntriesInv, Contents
    <3> QED
      BY <1>0, <3>1, NothingPaid DEF StageIn
  <2>2. CASE ~Incoming[b] \/ Discards(b)
    <3>1. u = WithEntry(t, b, "discarded")
      BY <1>2, <2>2 DEF Handle, WithEntry
    <3>2. /\ u \in Contents /\ u.book = t.book /\ u.handling = t.handling
          /\ u.played = t.played /\ u.phone = t.phone /\ u.names = t.names
          /\ u.entry[b] = "discarded" /\ \A c \in Bizums \ {b} : u.entry[c] = t.entry[c]
      <4>1. LET w == WithEntry(t, b, "discarded")
            IN /\ w \in Contents /\ w.book = t.book /\ w.handling = t.handling
               /\ w.played = t.played /\ w.phone = t.phone /\ w.names = t.names
               /\ w.entry[b] = "discarded" /\ \A c \in Bizums \ {b} : w.entry[c] = t.entry[c]
        BY <1>0, EntryWritten
      <4> HIDE DEF u
      <4> QED
        BY <3>1, <4>1
    <3> HIDE DEF u
    <3>3. \A c : PaymentsIn(u, c) = PaymentsIn(t, c) /\ PaidIn(u, c) = PaidIn(t, c)
      BY <3>2 DEF PaymentsIn, PaidIn
    <3>4. u \in Sound
      BY <1>0, <3>2, <3>3 DEF Sound, BizumInv
    <3>6. u \in Committed
      BY <1>0, <2>1, <3>2, <3>4 DEF Committed, EntriesInv
    <3>7. Advances(t, u, b)
      BY <2>1, <3>2, <3>3 DEF Advances, StageIn
    <3>8. \A c \in Bizums \ {b} : Advances(t, u, c)
      BY <3>2, <3>3 DEF Advances, StageIn
    <3> QED
      BY <3>2, <3>6, <3>7, <3>8 DEF Forward, u
  <2>3. CASE ~(~Incoming[b] \/ Discards(b))
    <3> DEFINE v == Apply(t, b)
    <3>0. Judged(t, v, b)
      BY <1>0, <2>1, ApplyJudges
    <3>1. u = WithEntry(v, b, "kept")
      BY <1>2, <2>3 DEF Handle, WithEntry
    <3> HIDE DEF v
    <3>2. v \in Sound /\ v \in Contents
      BY <3>0 DEF Judged, Sound
    <3>3. /\ u \in Contents /\ u.book = v.book /\ u.handling = v.handling
          /\ u.played = v.played /\ u.phone = v.phone /\ u.names = v.names
          /\ u.entry[b] = "kept" /\ \A c \in Bizums \ {b} : u.entry[c] = v.entry[c]
      <4>1. LET w == WithEntry(v, b, "kept")
            IN /\ w \in Contents /\ w.book = v.book /\ w.handling = v.handling
               /\ w.played = v.played /\ w.phone = v.phone /\ w.names = v.names
               /\ w.entry[b] = "kept" /\ \A c \in Bizums \ {b} : w.entry[c] = v.entry[c]
        BY <3>2, EntryWritten
      <4> HIDE DEF u
      <4> QED
        BY <3>1, <4>1
    <3> HIDE DEF u
    <3>4. \A c : PaymentsIn(u, c) = PaymentsIn(v, c) /\ PaidIn(u, c) = PaidIn(v, c)
      BY <3>3 DEF PaymentsIn, PaidIn
    <3>5. u \in Sound
      BY <3>2, <3>3, <3>4 DEF Sound, BizumInv
    <3>6. u.entry[b] = "kept" /\ \A c \in Bizums \ {b} : u.entry[c] = t.entry[c]
      BY <3>0, <3>3 DEF Judged
    <3>7. u.handling[b].status # "none"
      BY <3>0, <3>3 DEF Judged, Waiting
    <3>8. \A c \in Bizums \ {b} : /\ u.handling[c] = t.handling[c]
                                  /\ PaidIn(u, c) = PaidIn(t, c)
      BY <3>0, <3>3, <3>4 DEF Judged, PaidIn
    <3>9. u \in Committed
      BY <1>0, <3>5, <3>6, <3>7, <3>8 DEF Committed, EntriesInv
    <3>10. Advances(t, u, b)
      <4>1. CASE v.handling[b] = Waiting /\ v.book = t.book
        <5>1. StageIn(u, b) = "waiting"
          BY <3>3, <3>6, <4>1 DEF StageIn, Waiting
        <5>2. PaidIn(u, b) = 0
          BY <2>1, <3>4, <4>1 DEF PaidIn, PaymentsIn
        <5> QED
          BY <2>1, <5>1, <5>2 DEF Advances
      <4>2. CASE v.handling[b].status = "settled" /\ PaidIn(v, b) \in 1..Amount[b]
        BY <2>1, <3>3, <3>4, <3>6, <4>2 DEF Advances, StageIn
      <4> QED
        BY <3>0, <4>1, <4>2 DEF Judged
    <3>11. \A c \in Bizums \ {b} : Advances(t, u, c)
      BY <3>6, <3>8 DEF Advances, StageIn
    <3>12. u.played = t.played /\ u.phone = t.phone /\ u.names = t.names
           /\ u.book.debts \subseteq t.book.debts
      BY <3>0, <3>3 DEF Judged
    <3> QED
      BY <3>9, <3>10, <3>11, <3>12 DEF Forward, u
  <2> QED
    BY <2>2, <2>3
<1> QED
  BY <1>1, <1>2

\* So does judging any Bizums again, one after the other.
LEMMA RejudgeGoesForward ==
    ASSUME BizumDeskAssumption, BizumOrderAssumption, NEW t \in Committed, NEW bizums
    PROVE  Forward(t, Rejudge(t, bizums))
<1> DEFINE n    == Len(BizumOrder)
           Good == [i \in 0..n |-> {u \in Sound : Forward(t, u)}]
<1>0. n \in Nat /\ \A i \in 1..n : BizumOrder[i] \in Bizums
  BY DEF BizumOrderAssumption
<1>1. t \in Sound /\ t \in Good[0]
  BY <1>0, ForwardIsReflexive DEF Committed
<1>2. ASSUME NEW u \in Sound, NEW b \in Bizums PROVE JudgedAgain(u, b, bizums) \in Sound
  <2>1. CASE b \in bizums /\ u.handling[b].status = "waiting"
    BY <2>1, NothingPaid, ApplyJudges DEF Judged, JudgedAgain
  <2>2. CASE ~(b \in bizums /\ u.handling[b].status = "waiting")
    BY <2>2 DEF JudgedAgain
  <2> QED
    BY <2>1, <2>2
<1>3. ASSUME NEW i \in 1..n, NEW u \in Sound, u \in Good[i - 1]
      PROVE  JudgedAgain(u, BizumOrder[i], bizums) \in Good[i]
  <2>1. Forward(t, u) /\ BizumOrder[i] \in Bizums
    BY <1>0, <1>3
  <2>2. Forward(u, JudgedAgain(u, BizumOrder[i], bizums))
    BY <2>1, JudgingGoesForward DEF Forward
  <2>3. Forward(t, JudgedAgain(u, BizumOrder[i], bizums))
    BY <2>1, <2>2, ForwardIsTransitive
  <2> QED
    BY <1>0, <2>3 DEF Forward, Committed
<1> HIDE DEF Good
<1>4. Rejudge(t, bizums) \in Good[n]
  BY <1>1, <1>2, <1>3, RejudgeKeeps
<1> QED
  BY <1>0, <1>4 DEF Good

\* The tables a read leaves, when it handles the first n Bizums.
ReadTables(given, from, n) ==
    LET handle(t, b) == IF b \in given THEN Handle(t, b, from) ELSE t
    IN InTurn(Tables, handle, n)

\* So does a read, wherever it stops.
LEMMA ReadGoesForward ==
    ASSUME BizumDeskAssumption, BizumOrderAssumption, Tables \in Committed,
           NEW given, NEW from, NEW n \in 0..Len(BizumOrder)
    PROVE  Forward(Tables, ReadTables(given, from, n))
<1> DEFINE Is(f) == f = [i \in 0..n |-> IF i = 0 THEN Tables
                                        ELSE ReadOf(f[i - 1], BizumOrder[i], given, from)]
           turn  == [x \in Committed \X (1..n) |-> ReadOf(x[1], BizumOrder[x[2]], given, from)]
           after == CHOOSE f : Is(f)
<1>0. n \in Nat /\ \A i \in 1..n : BizumOrder[i] \in Bizums
  BY DEF BizumOrderAssumption
<1>1. ASSUME NEW u \in Committed, NEW b \in Bizums
      PROVE  ReadOf(u, b, given, from) \in Committed /\ Forward(u, ReadOf(u, b, given, from))
  BY <1>1, HandlingGoesForward, ForwardIsReflexive DEF ReadOf, Forward
<1>2. Is(after)
  <2>0. \A u \in Committed, i \in 1..n : turn[<<u, i>>] = ReadOf(u, BizumOrder[i], given, from)
    OBVIOUS
  <2>1. PICK f : IsTurns(f, n, Committed, Tables, turn)
    <3> HIDE DEF turn
    <3>1. \A u \in Committed, i \in 1..n : turn[<<u, i>>] \in Committed
      BY <1>0, <1>1, <2>0
    <3> QED
      BY <1>0, <3>1, TurnsExist
  <2>2. ASSUME NEW i \in 1..n PROVE f[i] = ReadOf(f[i - 1], BizumOrder[i], given, from)
    <3>1. f[i - 1] \in Committed
      BY <1>0, <2>1 DEF IsTurns
    <3> QED
      BY <2>0, <2>1, <2>2, <3>1 DEF IsTurns
  <2>3. Is(f)
    BY <1>0, <2>1, <2>2 DEF IsTurns
  <2> QED
    BY <2>3
<1>3. ReadTables(given, from, n) = after[n]
  BY DEF ReadTables, InTurn, ReadOf
<1> HIDE DEF after
<1>4. after[0] = Tables
      /\ \A i \in 1..n : after[i] = ReadOf(after[i - 1], BizumOrder[i], given, from)
  BY <1>0, <1>2
<1> DEFINE Good == [i \in 0..n |-> {u \in Committed : Forward(Tables, u)}]
<1>5. after[0] \in Good[0]
  BY <1>0, <1>4, ForwardIsReflexive
<1>6. ASSUME NEW i \in 1..n, after[i - 1] \in Good[i - 1] PROVE after[i] \in Good[i]
  <2>1. after[i - 1] \in Committed /\ Forward(Tables, after[i - 1])
    BY <1>0, <1>6
  <2>2. Forward(after[i - 1], after[i])
    BY <1>0, <1>1, <1>4, <2>1
  <2>3. Forward(Tables, after[i])
    BY <2>1, <2>2, ForwardIsTransitive
  <2> QED
    BY <1>0, <2>3 DEF Forward
<1>7. after[n] \in Good[n]
  <2> HIDE DEF Good
  <2>1. \A i \in 0..n : after[i] \in Good[i]
    BY <1>0, <1>5, <1>6, TurnsKeep
  <2> QED
    BY <1>0, <2>1
<1> QED
  BY <1>0, <1>3, <1>7

-----------------------------------------------------------------------------
(* What a request may do to the Bizums *)

\* The steps of BizumLedger: forward, undone, dismissed, or a game it paid for forgotten.
Moves(t, u, b) ==
    \/ Advances(t, u, b)
    \/ StageIn(t, b) = "settled" /\ StageIn(u, b) = "waiting" /\ PaidIn(u, b) = 0
    \/ StageIn(t, b) = "waiting" /\ StageIn(u, b) = "dismissed" /\ PaidIn(u, b) = 0
    \/ StageIn(t, b) = "settled" /\ StageIn(u, b) = "settled" /\ PaidIn(u, b) < PaidIn(t, b)

\* A payment comes back as a debt only with every other one of its Bizum, which waits.
UndoneTogether(t, u) ==
    \A b \in Bizums :
       (\E p \in PaymentsIn(t, b), d \in u.book.debts : SameShare(p, d))
       => /\ PaymentsIn(u, b) = {}
          /\ \A p \in PaymentsIn(t, b) : \E d \in u.book.debts : SameShare(p, d)
          /\ u.handling[b] = Waiting

Sanctioned(u) == /\ u \in Committed
                 /\ \A b \in Bizums : Moves(Tables, u, b)
                 /\ UndoneTogether(Tables, u)

\* While the payments of t remain and no share of them is owed, nothing is undone.
LEMMA NothingUndone ==
    ASSUME NEW t, NEW u, NEW v, OneTable(u.book),
           t.book.payments \subseteq u.book.payments, v.book.debts \subseteq u.book.debts
    PROVE  UndoneTogether(t, v)
BY DEF UndoneTogether, PaymentsIn, OneTable, SameShare

\* With the entries and handling as they were, payments of Bizums can only be lost.
LEMMA FewerPayments ==
    ASSUME BizumDeskAssumption, NEW t \in Committed, NEW u \in Contents, BookInv(u.book),
           u.entry = t.entry, u.handling = t.handling,
           \A b \in Bizums : PaymentsIn(u, b) \subseteq PaymentsIn(t, b)
    PROVE  /\ u \in Committed
           /\ \A b \in Bizums : Moves(t, u, b)
           /\ \A b \in Bizums : PaymentsIn(u, b) = PaymentsIn(t, b) => Advances(t, u, b)
<1>0. t \in Sound /\ EntriesInv(t) /\ \A b \in Bizums : BizumInv(t, b)
  BY DEF Committed, Sound
<1>1. ASSUME NEW b \in Bizums
      PROVE  PaidIn(u, b) <= PaidIn(t, b) /\ PaidIn(u, b) \in Nat /\ PaidIn(t, b) \in Nat
  <2>1. IsMoney(PaymentsIn(t, b)) /\ PaymentsIn(u, b) \in SUBSET PaymentsIn(t, b)
    BY <1>0, BookMoney
  <2>2. IsMoney(PaymentsIn(u, b))
    BY <2>1, MoneyOfSubset
  <2> QED
    BY <2>1, <2>2, TotalOfSubset, TotalType DEF PaidIn
<1>2. \A b \in Bizums : StageIn(u, b) = StageIn(t, b)
  BY DEF StageIn
<1>3. ASSUME NEW b \in Bizums PROVE BizumInv(u, b)
  <2>1. BizumInv(t, b)
    BY <1>0
  <2>2. PaidIn(u, b) + u.handling[b].left <= Amount[b]
    <3>1. t.handling[b].left \in Nat /\ PaidIn(t, b) + t.handling[b].left <= Amount[b]
      BY <1>0, <2>1 DEF BizumInv, Sound, Contents
    <3>2. Amount[b] \in Nat
      BY DEF BizumDeskAssumption, Cents
    <3> QED
      BY <1>1, <3>1, <3>2
  <2> QED
    BY <2>1, <2>2 DEF BizumInv
<1>4. u \in Committed
  BY <1>0, <1>3 DEF Committed, Sound, EntriesInv
<1>5. ASSUME NEW b \in Bizums, PaidIn(u, b) # PaidIn(t, b) PROVE StageIn(t, b) = "settled"
  <2>1. t.handling[b].status = "settled"
    BY <1>0, <1>1, <1>5, NothingPaid
  <2>2. t.entry[b] = "kept"
    BY <1>0, <2>1 DEF EntriesInv
  <2> QED
    BY <2>1, <2>2 DEF StageIn
<1>6. \A b \in Bizums : Moves(t, u, b)
  BY <1>1, <1>2, <1>5 DEF Moves, Advances
<1>7. \A b \in Bizums : PaymentsIn(u, b) = PaymentsIn(t, b) => Advances(t, u, b)
  BY <1>2 DEF Advances, PaidIn
<1> QED
  BY <1>4, <1>6, <1>7

\* A step that leaves every Bizum as it was and opens no debt of what is paid, and what
\* judging makes of it, is sanctioned.
LEMMA ForwardIsSanctioned ==
    ASSUME Tables \in Committed, NEW t \in Committed,
           t.entry = entry, t.handling = handling,
           \A b \in Bizums : PaymentsIn(t, b) = PaymentsIn(Tables, b),
           book.payments \subseteq t.book.payments,
           NEW u, Forward(t, u)
    PROVE  Sanctioned(u)
<1>1. u \in Committed /\ u.book.debts \subseteq t.book.debts
  BY DEF Forward
<1>2. \A b \in Bizums : Advances(Tables, u, b)
  <2>1. \A b \in Bizums : StageIn(t, b) = StageIn(Tables, b) /\ PaidIn(t, b) = PaidIn(Tables, b)
    BY DEF StageIn, PaidIn, Tables
  <2> QED
    BY <2>1 DEF Forward, Advances
<1>3. UndoneTogether(Tables, u)
  <2>1. OneTable(t.book) /\ Tables.book.payments \subseteq t.book.payments
    BY DEF Committed, Sound, BookInv, Tables
  <2> QED
    BY <1>1, <2>1, NothingUndone
<1> QED
  BY <1>1, <1>2, <1>3 DEF Sanctioned, Moves

\* What a transaction commits are the tables that follow.
LEMMA CommitIs ==
    ASSUME NEW t \in Contents, Commit(t)
    PROVE  Tables' = t
BY DEF Commit, Tables, Contents

\* The tables are typed one by one.
LEMMA TablesType ==
    ASSUME Tables \in Committed
    PROVE  /\ Tables \in Sound /\ Tables \in Contents /\ EntriesInv(Tables) /\ BookInv(book)
           /\ book \in Books /\ played \in SUBSET Games
           /\ entry \in [Bizums -> {"unseen", "kept", "discarded", "dismissed"}]
           /\ handling \in [Bizums -> [status : {"none", "waiting", "settled"},
                                       how : {None, "automatic", "organiser"}, left : Nat]]
           /\ phone \in [Players -> Phones \union {None}]
           /\ names \in [Players -> SUBSET SenderNames]
<1>1. Tables \in Sound /\ Tables \in Contents /\ EntriesInv(Tables) /\ BookInv(Tables.book)
  BY DEF Committed, Sound
<1> QED
  BY <1>1 DEF Tables, Contents

-----------------------------------------------------------------------------
(* The requests, one by one *)

\* A transaction that has written the book and the played games, and nothing else.
WithBook(bk, pl) == [Tables EXCEPT !.book = bk, !.played = pl]

\* Writing the book alone is writing the same played games with it.
LEMMA OnlyTheBook ==
    \A bk : [Tables EXCEPT !.book = bk] = WithBook(bk, played) /\ Tables.book = book
<1> DEFINE R(bk, pl) == [book |-> bk, played |-> pl, entry |-> entry, handling |-> handling,
                         phone |-> phone, names |-> names]
<1>1. Tables = R(book, played)
  BY DEF Tables
<1>2. ASSUME NEW bk PROVE [Tables EXCEPT !.book = bk] = WithBook(bk, played)
  <2>1. [R(book, played) EXCEPT !.book = bk] = R(bk, played)
    OBVIOUS
  <2>2. [R(bk, played) EXCEPT !.played = played] = R(bk, played)
    OBVIOUS
  <2>3. [[R(book, played) EXCEPT !.book = bk] EXCEPT !.played = played] = R(bk, played)
    BY <2>1, <2>2
  <2>4. WithBook(bk, played) = [[R(book, played) EXCEPT !.book = bk] EXCEPT !.played = played]
    BY <1>1 DEF WithBook
  <2> QED
    BY <1>1, <2>1, <2>3, <2>4
<1>3. Tables.book = book
  BY DEF Tables
<1> QED
  BY <1>2, <1>3

\* What such a transaction has written, and what it has left.
LEMMA WithBookType ==
    ASSUME Tables \in Committed, NEW bk \in Books, NEW pl \in SUBSET Games
    PROVE  LET t == WithBook(bk, pl)
           IN /\ t \in Contents /\ t.book = bk /\ t.played = pl
              /\ t.entry = entry /\ t.handling = handling
              /\ t.phone = phone /\ t.names = names
BY TablesType DEF WithBook, Tables, Contents

\* Writing rows of players, and no other, leaves the Bizums as they were.
LEMMA SendersAreSanctioned ==
    ASSUME BizumDeskAssumption, Tables \in Committed,
           NEW t \in Contents, t.book = book, t.entry = entry, t.handling = handling
    PROVE  t \in Committed /\ Sanctioned(t) /\ \A u : Forward(t, u) => Sanctioned(u)
<1>1. Tables.entry = entry /\ Tables.handling = handling /\ Tables.book = book
  BY DEF Tables
<1>2. \A b \in Bizums : PaymentsIn(t, b) = PaymentsIn(Tables, b)
  BY <1>1 DEF PaymentsIn
<1>3. t \in Committed /\ book.payments \subseteq t.book.payments
  BY <1>1, <1>2, TablesType, FewerPayments
<1>4. ASSUME NEW u, Forward(t, u) PROVE Sanctioned(u)
  BY <1>2, <1>3, <1>4, ForwardIsSanctioned
<1> QED
  BY <1>3, <1>4, ForwardIsReflexive

\* So does writing a sound book that keeps the payments, and adds none of a Bizum.
LEMMA BookIsSanctioned ==
    ASSUME BizumDeskAssumption, Tables \in Committed,
           NEW bk \in Books, BookInv(bk), NEW pl \in SUBSET Games,
           book.payments \subseteq bk.payments,
           \A p \in bk.payments \ book.payments : p.bizum \notin Bizums
    PROVE  /\ WithBook(bk, pl) \in Committed
           /\ \A u : Forward(WithBook(bk, pl), u) => Sanctioned(u)
           /\ Sanctioned(WithBook(bk, pl))
<1> DEFINE t == WithBook(bk, pl)
<1>1. t \in Contents /\ t.book = bk /\ t.entry = entry /\ t.handling = handling
  BY WithBookType
<1>2. Tables.entry = entry /\ Tables.handling = handling /\ Tables.book = book
  BY DEF Tables
<1> HIDE DEF t
<1>3. \A b \in Bizums : PaymentsIn(t, b) = PaymentsIn(Tables, b)
  BY <1>1, <1>2 DEF PaymentsIn
<1>4. t \in Committed
  BY <1>1, <1>2, <1>3, FewerPayments
<1>5. ASSUME NEW u, Forward(t, u) PROVE Sanctioned(u)
  BY <1>1, <1>3, <1>4, <1>5, ForwardIsSanctioned
<1>6. Sanctioned(t)
  BY <1>4, <1>5, ForwardIsReflexive
<1> QED
  BY <1>4, <1>5, <1>6 DEF t

-----------------------------------------------------------------------------

\* A read of the bank may move the Bizums as it does.
LEMMA ReadIsSanctioned ==
    ASSUME BizumDeskAssumption, BizumOrderAssumption, IInv,
           NEW given, NEW from, NEW upTo \in 0..Len(BizumOrder), Read(given, from, upTo)
    PROVE  \E u : Sanctioned(u) /\ Commit(u)
<1> DEFINE u == ReadTables(given, from, upTo)
<1>1. Forward(Tables, u)
  BY ReadGoesForward DEF IInv
<1>2. Commit(u)
  BY DEF Read, ReadTables
<1> HIDE DEF u
<1>3. /\ Tables.entry = entry /\ Tables.handling = handling
      /\ book.payments \subseteq Tables.book.payments
  BY DEF Tables
<1>4. Sanctioned(u)
  BY <1>1, <1>3, ForwardIsSanctioned DEF IInv
<1> QED
  BY <1>2, <1>4

\* Billing a played game leaves a sound book, with the payments there were.
LEMMA BillingIsSound ==
    ASSUME BizumDeskAssumption, IInv, NEW g \in Games, NEW playing \in Lineups[g]
    PROVE  LET bk == Bill(SetPlayed(book, g, playing \intersect Players),
                          g, playing, HolderOf, shareCents[SeasonOf[g]])
           IN /\ bk \in Books /\ BookInv(bk) /\ bk.payments = book.payments
              /\ \A d \in bk.debts : \/ d \in book.debts
                                     \/ d.game = g /\ d.amount = shareCents[SeasonOf[g]]
<1> DEFINE marked == SetPlayed(book, g, playing \intersect Players)
           cents  == shareCents[SeasonOf[g]]
           bk     == Bill(marked, g, playing, HolderOf, cents)
<1>0. book \in Books /\ BookInv(book)
  BY TablesType DEF IInv
<1>1. /\ marked \in Books
      /\ marked.debts = book.debts /\ marked.payments = book.payments
  BY <1>0, SetPlayedType
<1>2. OneTable(marked)
  BY <1>0, <1>1 DEF OneTable, BookInv
<1>3. playing \in SUBSET Members /\ IsFiniteSet(playing) /\ HolderOf \in [Members -> Players]
  BY DEF BizumDeskAssumption
<1>4. cents \in Cents
  BY DEF BizumDeskAssumption, IInv
<1> HIDE DEF marked, cents
<1>5. bk \in Books /\ OneTable(bk)
  BY <1>1, <1>2, <1>3, <1>4, BillType, BillKeepsOneTable
<1> DEFINE new == [m \in playing \ BilledMembers(marked, g) |->
                     [game |-> g, member |-> m, holder |-> HolderOf[m], amount |-> cents]]
           of  == playing \ BilledMembers(marked, g)
           billed == {new[m] : m \in of}
           kept   == {d \in marked.debts : d.game = g => d.member \in playing}
<1>6. bk.payments = marked.payments /\ bk.debts = kept \union billed
  BY <1>1 DEF Bill, Books
<1>7. IsFiniteSet(billed)
  <2>1. IsFiniteSet(of)
    BY <1>3, FS_Subset
  <2>2. [m \in of |-> new[m]] \in Surjection(of, billed)
    BY DEF Surjection
  <2> HIDE DEF new, of
  <2> QED
    BY <2>1, <2>2, FS_Surjection
<1>8. IsFiniteSet(kept)
  BY <1>0, <1>1, FS_Subset DEF BookInv
<1>11. \A d \in kept \union billed : d \in book.debts \/ (d.game = g /\ d.amount = cents)
  <2>1. \A m \in of : new[m].game = g /\ new[m].amount = cents
    OBVIOUS
  <2> HIDE DEF of, new
  <2> QED
    BY <1>1, <2>1
<1> HIDE DEF billed, kept
<1>9. IsFiniteSet(bk.debts) /\ IsFiniteSet(bk.payments)
  BY <1>0, <1>1, <1>6, <1>7, <1>8, FS_Union DEF BookInv
<1> HIDE DEF bk
<1>10. bk \in Books /\ BookInv(bk) /\ bk.payments = book.payments
  BY <1>1, <1>5, <1>6, <1>9 DEF BookInv
<1>12. \A d \in bk.debts : d \in book.debts \/ (d.game = g /\ d.amount = cents)
  BY <1>6, <1>11
<1> QED
  BY <1>10, <1>12 DEF bk, marked, cents

\* Playing a game, and judging what waits for its debts, is sanctioned.
LEMMA PlayGameIsSanctioned ==
    ASSUME BizumDeskAssumption, BizumOrderAssumption, IInv,
           NEW g \in Games, NEW playing \in Lineups[g], PlayGame(g, playing)
    PROVE  \E u : Sanctioned(u) /\ Commit(u)
<1> DEFINE bk == Bill(SetPlayed(book, g, playing \intersect Players),
                      g, playing, HolderOf, shareCents[SeasonOf[g]])
           t  == WithBook(bk, played \union {g})
           u  == Rejudge(t, WaitingFrom(t, g))
<1>1. Commit(u)
  BY DEF PlayGame, WithBook, Tables
<1>2. bk \in Books /\ BookInv(bk) /\ bk.payments = book.payments
  BY BillingIsSound
<1>3. Tables \in Committed /\ played \union {g} \in SUBSET Games
  BY TablesType DEF IInv
<1> HIDE DEF bk
<1>4. t \in Committed /\ \A v : Forward(t, v) => Sanctioned(v)
  BY <1>2, <1>3, BookIsSanctioned
<1> HIDE DEF t
<1>5. Forward(t, u)
  BY <1>4, RejudgeGoesForward
<1> QED
  BY <1>1, <1>4, <1>5

\* Reopening a game writes nothing of any Bizum.
LEMMA ReopenGameIsSanctioned ==
    ASSUME BizumDeskAssumption, IInv, NEW g \in Games, ReopenGame(g)
    PROVE  \E u : Sanctioned(u) /\ Commit(u)
<1> DEFINE bk == SetPlayed(book, g, {})
<1>1. Commit(WithBook(bk, played \ {g}))
  BY DEF ReopenGame, WithBook, Tables
<1>2. /\ Tables \in Committed /\ book \in Books /\ BookInv(book)
      /\ played \ {g} \in SUBSET Games
  BY TablesType DEF IInv
<1>3. bk \in Books /\ bk.debts = book.debts /\ bk.payments = book.payments
  BY <1>2, SetPlayedType
<1> HIDE DEF bk
<1>4. BookInv(bk)
  BY <1>2, <1>3 DEF BookInv, OneTable
<1>5. Sanctioned(WithBook(bk, played \ {g}))
  BY <1>2, <1>3, <1>4, BookIsSanctioned
<1> QED
  BY <1>1, <1>5

\* A deleted game takes its payments with it: the Bizums that made them pay less.
LEMMA DeleteGameIsSanctioned ==
    ASSUME BizumDeskAssumption, IInv, NEW g \in Games, DeleteGame(g)
    PROVE  \E u : Sanctioned(u) /\ Commit(u)
<1> DEFINE bk == Forget(book, g)
           u  == WithBook(bk, played \ {g})
<1>1. Commit(u)
  BY DEF DeleteGame, WithBook, Tables
<1>2. /\ Tables \in Committed /\ book \in Books /\ BookInv(book)
      /\ played \ {g} \in SUBSET Games
  BY TablesType DEF IInv
<1>3. /\ bk \in Books /\ bk.debts \subseteq book.debts /\ bk.payments \subseteq book.payments
  BY <1>2, ForgetType DEF Forget
<1> HIDE DEF bk
<1>4. BookInv(bk)
  BY <1>2, <1>3, FS_Subset DEF BookInv, OneTable
<1>5. u \in Contents /\ u.book = bk /\ u.entry = entry /\ u.handling = handling
  BY <1>2, <1>3, WithBookType
<1> HIDE DEF u
<1>6. Tables.entry = entry /\ Tables.handling = handling /\ Tables.book = book
  BY DEF Tables
<1>7. \A b \in Bizums : PaymentsIn(u, b) \subseteq PaymentsIn(Tables, b)
  BY <1>3, <1>5, <1>6 DEF PaymentsIn
<1>8. u \in Committed /\ \A b \in Bizums : Moves(Tables, u, b)
  BY <1>2, <1>4, <1>5, <1>6, <1>7, FewerPayments
<1>9. UndoneTogether(Tables, u)
  BY <1>2, <1>3, <1>5, <1>6, NothingUndone DEF BookInv
<1> QED
  BY <1>1, <1>8, <1>9 DEF Sanctioned

\* Dismissing a Bizum that waits is sanctioned: it has paid nothing.
LEMMA DismissIsSanctioned ==
    ASSUME BizumDeskAssumption, IInv, NEW b \in Bizums, Dismiss(b)
    PROVE  \E u : Sanctioned(u) /\ Commit(u)
<1> DEFINE u == [Tables EXCEPT !.entry[b] = "dismissed", !.handling[b] = Unhandled]
<1>0. Tables \in Committed /\ Tables \in Sound /\ Tables \in Contents /\ EntriesInv(Tables)
  BY TablesType DEF IInv
<1>1. Commit(u) /\ handling[b].status = "waiting"
  BY DEF Dismiss
<1>2. /\ u.book = book /\ u.played = played /\ u.phone = phone /\ u.names = names
      /\ u.entry = [entry EXCEPT ![b] = "dismissed"]
      /\ u.handling = [handling EXCEPT ![b] = Unhandled]
  BY DEF Tables
<1>3. /\ u.entry \in [Bizums -> {"unseen", "kept", "discarded", "dismissed"}]
      /\ u.handling \in [Bizums -> [status : {"none", "waiting", "settled"},
                                    how : {None, "automatic", "organiser"}, left : Nat]]
      /\ u.entry[b] = "dismissed" /\ u.handling[b] = Unhandled
      /\ \A c \in Bizums \ {b} : u.entry[c] = entry[c] /\ u.handling[c] = handling[c]
  <2> HIDE DEF u
  <2> QED
    BY <1>0, <1>2, TablesType DEF Unhandled
<1>4. u \in Contents
  BY <1>0, <1>3 DEF Contents
<1> HIDE DEF u
<1>5. Tables.entry = entry /\ Tables.handling = handling /\ Tables.book = book
  BY DEF Tables
<1>6. \A c : PaymentsIn(u, c) = PaymentsIn(Tables, c) /\ PaidIn(u, c) = PaidIn(Tables, c)
  BY <1>2, <1>5 DEF PaymentsIn, PaidIn
<1>7. PaymentsIn(Tables, b) = {} /\ PaidIn(Tables, b) = 0
  BY <1>0, <1>1, <1>5, NothingPaid
<1>8. BizumInv(u, b)
  <2>1. Amount[b] \in Nat /\ None # "automatic"
    BY DEF BizumDeskAssumption, Cents, None
  <2> QED
    BY <1>3, <1>6, <1>7, <2>1 DEF BizumInv, Unhandled
<1>9. \A c \in Bizums \ {b} : BizumInv(u, c)
  BY <1>0, <1>3, <1>5, <1>6 DEF BizumInv, Sound
<1>10. u \in Committed
  <2>1. u \in Sound
    BY <1>0, <1>2, <1>4, <1>5, <1>8, <1>9 DEF Sound
  <2>2. EntriesInv(u)
    BY <1>0, <1>3, <1>5 DEF EntriesInv, Unhandled
  <2> QED
    BY <2>1, <2>2 DEF Committed
<1>11. \A c \in Bizums : Moves(Tables, u, c)
  <2>1. entry[b] = "kept"
    BY <1>0, <1>1, <1>5 DEF EntriesInv
  <2>2. Moves(Tables, u, b)
    BY <1>1, <1>3, <1>5, <1>6, <1>7, <2>1 DEF Moves, StageIn
  <2>3. \A c \in Bizums \ {b} : Moves(Tables, u, c)
    BY <1>3, <1>5, <1>6 DEF Moves, Advances, StageIn
  <2> QED
    BY <2>2, <2>3
<1>12. UndoneTogether(Tables, u)
  BY <1>0, <1>2, <1>5, NothingUndone DEF Sound, BookInv
<1> QED
  BY <1>1, <1>10, <1>11, <1>12 DEF Sanctioned

\* Pairing writes the phone or the name of the sender, and nothing else.
LEMMA PairWrites ==
    ASSUME BizumDeskAssumption, Tables \in Committed, NEW b \in Bizums, NEW p \in Players,
           Sender[b].phone # None \/ Sender[b].name # None
    PROVE  LET sender == Sender[b]
               t == IF sender.phone # None THEN [Tables EXCEPT !.phone[p] = sender.phone]
                    ELSE [Tables EXCEPT !.names[p] = @ \union {sender.name}]
           IN t \in Contents /\ t.book = book /\ t.entry = entry /\ t.handling = handling
<1>0. Tables \in Contents
  BY TablesType
<1>1. Sender[b].phone \in Phones \union {None} /\ Sender[b].name \in SenderNames \union {None}
  BY DEF BizumDeskAssumption
<1>2. Tables.entry = entry /\ Tables.handling = handling /\ Tables.book = book
  BY DEF Tables
<1>3. CASE Sender[b].phone # None
  <2> DEFINE t == [Tables EXCEPT !.phone[p] = Sender[b].phone]
  <2>1. t.phone \in [Players -> Phones \union {None}]
    BY <1>0, <1>1 DEF Contents
  <2>2. t \in Contents
    BY <1>0, <2>1 DEF Contents
  <2>3. t.book = book /\ t.entry = entry /\ t.handling = handling
    BY <1>0, <1>2 DEF Contents
  <2> QED
    BY <1>3, <2>2, <2>3
<1>4. CASE Sender[b].phone = None
  <2> DEFINE t == [Tables EXCEPT !.names[p] = @ \union {Sender[b].name}]
  <2>1. t.names \in [Players -> SUBSET SenderNames]
    BY <1>0, <1>1, <1>4 DEF Contents
  <2>2. t \in Contents
    BY <1>0, <2>1 DEF Contents
  <2>3. t.book = book /\ t.entry = entry /\ t.handling = handling
    BY <1>0, <1>2 DEF Contents
  <2> QED
    BY <1>4, <2>2, <2>3
<1> QED
  BY <1>3, <1>4

\* Pairing a sender, and judging again what waits of theirs, is sanctioned.
LEMMA PairIsSanctioned ==
    ASSUME BizumDeskAssumption, BizumOrderAssumption, IInv, NEW b \in Bizums, NEW p \in Players,
           Pair(b, p)
    PROVE  \E u : Sanctioned(u) /\ Commit(u)
<1> DEFINE sender == Sender[b]
           t == IF sender.phone # None THEN [Tables EXCEPT !.phone[p] = sender.phone]
                ELSE [Tables EXCEPT !.names[p] = @ \union {sender.name}]
<1>0. Tables \in Committed
  BY DEF IInv
<1>1. t \in Contents /\ t.book = book /\ t.entry = entry /\ t.handling = handling
  BY <1>0, PairWrites DEF Pair
<1>2. PICK again : Commit(Rejudge(t, again))
  BY DEF Pair
<1> HIDE DEF t
<1>3. t \in Committed /\ \A u : Forward(t, u) => Sanctioned(u)
  BY <1>0, <1>1, SendersAreSanctioned
<1>4. Forward(t, Rejudge(t, again))
  BY <1>3, RejudgeGoesForward
<1> QED
  BY <1>2, <1>3, <1>4

\* Editing a player's Bizum names writes nothing of any Bizum.
LEMMA BizumNamesAreSanctioned ==
    ASSUME BizumDeskAssumption, IInv, NEW p \in Players, NEW name \in SenderNames,
           AddBizumName(p, name) \/ RemoveBizumName(p, name)
    PROVE  \E u : Sanctioned(u) /\ Commit(u)
<1> DEFINE t(some) == [Tables EXCEPT !.names[p] = some]
<1>0. Tables \in Committed /\ Tables \in Contents
  BY TablesType DEF IInv
<1>1. Tables.entry = entry /\ Tables.handling = handling /\ Tables.book = book
  BY DEF Tables
<1>2. ASSUME NEW some \in SUBSET SenderNames PROVE Sanctioned(t(some))
  <2>1. t(some).names \in [Players -> SUBSET SenderNames]
    BY <1>0 DEF Contents
  <2>2. t(some) \in Contents
    BY <1>0, <2>1 DEF Contents
  <2>3. t(some).book = book /\ t(some).entry = entry /\ t(some).handling = handling
    BY <1>0, <1>1 DEF Contents
  <2> HIDE DEF t
  <2> QED
    BY <1>0, <2>2, <2>3, SendersAreSanctioned
<1>3. Tables.names[p] \in SUBSET SenderNames
  BY <1>0 DEF Contents
<1>4. \E some \in SUBSET SenderNames : Commit(t(some))
  <2>1. CASE AddBizumName(p, name)
    <3>1. Commit(t(Tables.names[p] \union {name}))
      BY <2>1 DEF AddBizumName
    <3> QED
      BY <1>3, <3>1
  <2>2. CASE RemoveBizumName(p, name)
    <3>1. Commit(t(Tables.names[p] \ {name}))
      BY <2>2 DEF RemoveBizumName
    <3> QED
      BY <1>3, <3>1
  <2> QED
    BY <2>1, <2>2
<1> QED
  BY <1>2, <1>4

\* What the organiser rules with are debts, and some.
LEMMA RuledAreDebts ==
    ASSUME BizumDeskAssumption, IInv, NEW b \in Bizums, NEW p \in Players,
           NEW S \in SUBSET SharesFor(Tables, b, p, Kinds),
           NEW n \in Counts, n <= Cardinality(S)
    PROVE  /\ NearestOf(b, p, S, n) \in SUBSET book.debts
           /\ n > 0 => NearestOf(b, p, S, n) # {}
<1>1. Tables \in Sound /\ Tables.book = book
  BY TablesType DEF IInv, Tables
<1>2. /\ S \in SUBSET book.debts /\ S \in SUBSET Debts /\ IsFiniteSet(S)
      /\ \A d \in S : SeasonFor(b) # None /\ KindFor(b, d) \in Kinds
  BY <1>1, SharesAreDebts, FS_Subset
<1>3. n \in Nat
  BY FS_CardinalityType DEF BizumDeskAssumption, Counts
<1>4. /\ NearestOf(b, p, S, n) \in SUBSET S
      /\ Cardinality(NearestOf(b, p, S, n)) = n
  BY <1>2, <1>3, NearestAreThere
<1>5. n > 0 => NearestOf(b, p, S, n) # {}
  BY <1>3, <1>4, FS_EmptySet
<1> QED
  BY <1>2, <1>4, <1>5

\* The organiser's ruling of a Bizum that waits is sanctioned: it pays something, and no more
\* than the Bizum brought, or leaves it waiting.
LEMMA RuleIsSanctioned ==
    ASSUME BizumDeskAssumption, IInv, NEW b \in Bizums, NEW payer \in Players,
           NEW n \in Counts, NEW others \in [Players -> Counts],
           NEW rest \in {"keep", "dismiss"}, Rule(b, payer, n, others, rest)
    PROVE  \E u : Sanctioned(u) /\ Commit(u)
<1> DEFINE open   == SharesFor(Tables, b, payer, Kinds)
           own(q) == {d \in SharesFor(Tables, b, q, Kinds) : d.member = q}
           helped == {q \in Players : others[q] > 0}
           chosen == NearestOf(b, payer, open, n)
                     \union UNION {NearestOf(b, q, own(q), others[q]) : q \in helped}
           u      == Pay(Tables, b, payer, chosen, "organiser", rest)
<1>0. /\ Tables \in Committed /\ Tables \in Sound /\ EntriesInv(Tables)
      /\ Tables.entry = entry /\ Tables.handling = handling /\ Tables.book = book
  BY TablesType DEF IInv, Tables
<1>1. /\ handling[b].status = "waiting"
      /\ n > 0 \/ helped # {}
      /\ n <= Cardinality(open) /\ \A q \in helped : others[q] <= Cardinality(own(q))
      /\ Total(chosen) <= Amount[b] /\ Commit(u)
  BY DEF Rule
<1>2. /\ NearestOf(b, payer, open, n) \in SUBSET book.debts
      /\ n > 0 => NearestOf(b, payer, open, n) # {}
  BY <1>1, RuledAreDebts
<1>3. ASSUME NEW q \in helped
      PROVE  /\ NearestOf(b, q, own(q), others[q]) \in SUBSET book.debts
             /\ NearestOf(b, q, own(q), others[q]) # {}
  <2>1. q \in Players /\ others[q] \in Counts /\ others[q] > 0
        /\ own(q) \in SUBSET SharesFor(Tables, b, q, Kinds)
    OBVIOUS
  <2>2. others[q] <= Cardinality(own(q))
    BY <1>1
  <2> HIDE DEF own
  <2> QED
    BY <2>1, <2>2, RuledAreDebts
<1>4. chosen \in SUBSET Tables.book.debts /\ chosen # {}
  <2> HIDE DEF open, own, helped
  <2> QED
    BY <1>0, <1>1, <1>2, <1>3
<1> HIDE DEF chosen
<1>5. /\ PaymentsIn(Tables, b) = {} /\ PaidIn(Tables, b) = 0
      /\ entry[b] = "kept" /\ StageIn(Tables, b) = "waiting"
  <2> HIDE DEF u, open, own, helped
  <2>1. PaymentsIn(Tables, b) = {} /\ PaidIn(Tables, b) = 0
    BY <1>0, <1>1, NothingPaid
  <2>2. entry[b] = "kept"
    BY <1>0, <1>1 DEF EntriesInv
  <2> QED
    BY <1>0, <1>1, <2>1, <2>2 DEF StageIn
<1>6. Judged(Tables, u, b) /\ u.handling[b].status = "settled"
  BY <1>0, <1>1, <1>4, <1>5, PayJudges
<1> HIDE DEF u
<1>7. u \in Committed
  <2>1. \A c \in Bizums : u.entry[c] = "kept" <=> u.handling[c].status # "none"
    BY <1>0, <1>5, <1>6 DEF Judged, EntriesInv
  <2> QED
    BY <1>6, <2>1 DEF Judged, EntriesInv, Committed
<1>8. \A c \in Bizums : Moves(Tables, u, c)
  <2>1. StageIn(u, b) = "settled" /\ PaidIn(u, b) \in 1..Amount[b]
    BY <1>0, <1>5, <1>6 DEF Judged, StageIn, Waiting
  <2>2. Moves(Tables, u, b)
    BY <1>5, <2>1 DEF Moves, Advances
  <2>3. \A c \in Bizums \ {b} : Moves(Tables, u, c)
    BY <1>6 DEF Judged, Moves, Advances, StageIn, PaidIn
  <2> QED
    BY <2>2, <2>3
<1>9. UndoneTogether(Tables, u)
  BY <1>0, <1>6, NothingUndone DEF Judged, Sound, BookInv
<1> QED
  BY <1>1, <1>7, <1>8, <1>9 DEF Sanctioned

\* A payment by hand is of no Bizum, and takes a debt of no other's.
LEMMA PayByHandIsSanctioned ==
    ASSUME BizumDeskAssumption, IInv, NEW debt \in book.debts, NEW payer \in Players,
           PayByHand(debt, payer)
    PROVE  \E u : Sanctioned(u) /\ Commit(u)
<1> DEFINE ps == Paying(None, payer, {debt})
           bk == Settle(book, ps)
<1>0. Tables \in Committed /\ book \in Books /\ BookInv(book) /\ played \in SUBSET Games
  BY TablesType DEF IInv
<1>1. ps = {PaymentOf(debt, payer, debt.amount, None)}
  BY DEF Paying
<1>2. Commit(WithBook(bk, played))
  <2>1. [Tables EXCEPT !.book = Settle(@, {PaymentOf(debt, payer, debt.amount, None)})]
          = WithBook(bk, played)
    BY <1>1, OnlyTheBook
  <2> QED
    BY <2>1 DEF PayByHand
<1>3. /\ bk \in Books /\ BookInv(bk)
      /\ bk.payments = book.payments \union ps
  BY <1>0, SettlingIsSound
<1>4. \A p \in ps : p.bizum \notin Bizums
  BY <1>1, SharesAssumption DEF PaymentOf
<1> HIDE DEF bk, ps
<1>5. Sanctioned(WithBook(bk, played))
  BY <1>0, <1>3, <1>4, BookIsSanctioned
<1> QED
  BY <1>2, <1>5

\* Passing a debt on leaves a sound book, with the payments there were.
LEMMA ReassigningIsSound ==
    ASSUME BizumDeskAssumption, IInv, NEW debt \in book.debts, NEW holder \in NewHolders
    PROVE  LET bk == SetHolder(book, debt, holder)
           IN /\ bk \in Books /\ BookInv(bk) /\ bk.payments = book.payments
              /\ WithBook(bk, played) \in Committed /\ WithBook(bk, played).played = played
              /\ \A u : Forward(WithBook(bk, played), u) => Sanctioned(u)
<1> DEFINE bk == SetHolder(book, debt, holder)
<1>0. Tables \in Committed /\ book \in Books /\ BookInv(book) /\ played \in SUBSET Games
  BY TablesType DEF IInv
<1>1. bk \in Books /\ OneTable(bk)
  BY <1>0, SetHolderType, SetHolderKeepsOneTable DEF BizumDeskAssumption, BookInv
<1>2. /\ bk.debts = (book.debts \ {debt}) \union {[debt EXCEPT !.holder = holder]}
      /\ bk.payments = book.payments
  BY <1>0 DEF SetHolder, Books
<1> HIDE DEF bk
<1>3. BookInv(bk)
  <2>1. IsFiniteSet(book.debts \ {debt})
    BY <1>0, FS_Subset DEF BookInv
  <2>2. IsFiniteSet(bk.debts)
    <3>1. PICK e, rest : /\ e = [debt EXCEPT !.holder = holder] /\ rest = book.debts \ {debt}
      OBVIOUS
    <3>2. IsFiniteSet(rest \union {e})
      BY <2>1, <3>1, FS_AddElement
    <3> QED
      BY <1>2, <3>1, <3>2
  <2> QED
    BY <1>0, <1>1, <1>2, <2>2 DEF BookInv
<1>4. /\ WithBook(bk, played) \in Committed /\ WithBook(bk, played).played = played
      /\ \A u : Forward(WithBook(bk, played), u) => Sanctioned(u)
  BY <1>0, <1>1, <1>2, <1>3, BookIsSanctioned, WithBookType
<1> QED
  BY <1>1, <1>2, <1>3, <1>4 DEF bk

\* Passing a debt on, and judging what waits for it, is sanctioned.
LEMMA ReassignIsSanctioned ==
    ASSUME BizumDeskAssumption, BizumOrderAssumption, IInv,
           NEW debt \in book.debts, NEW holder \in NewHolders, Reassign(debt, holder)
    PROVE  \E u : Sanctioned(u) /\ Commit(u)
<1> DEFINE t == WithBook(SetHolder(book, debt, holder), played)
<1>1. PICK again : Commit(Rejudge(t, again))
  <2>1. [Tables EXCEPT !.book = SetHolder(@, debt, holder)] = t
    BY OnlyTheBook
  <2> QED
    BY <2>1 DEF Reassign
<1>2. t \in Committed /\ \A u : Forward(t, u) => Sanctioned(u)
  BY ReassigningIsSound
<1> HIDE DEF t
<1>3. Forward(t, Rejudge(t, again))
  BY <1>2, RejudgeGoesForward
<1> QED
  BY <1>1, <1>2, <1>3

\* Undoing some payments leaves a sound book; their shares are owed again.
LEMMA UndoingIsSound ==
    ASSUME BizumDeskAssumption, IInv, NEW ps \in SUBSET book.payments
    PROVE  LET bk == Unsettle(book, ps, ShareCents)
           IN /\ bk \in Books /\ BookInv(bk) /\ bk.payments = book.payments \ ps
              /\ bk.debts = book.debts \union {DebtOf(p, ShareCents[p.game]) : p \in ps}
<1> DEFINE bk   == Unsettle(book, ps, ShareCents)
           debt == [p \in ps |-> DebtOf(p, ShareCents[p.game])]
           new  == {debt[p] : p \in ps}
<1>0. book \in Books /\ BookInv(book) /\ ps \in SUBSET Payments
  BY TablesType DEF IInv, Books
<1>1. ShareCents \in [Games -> Cents]
  BY DEF ShareCents, BizumDeskAssumption, IInv
<1>2. bk \in Books /\ OneTable(bk)
  BY <1>0, <1>1, UnsettleType, UnsettleKeepsOneTable DEF BookInv
<1>3. bk.payments = book.payments \ ps /\ bk.debts = book.debts \union new
  BY <1>0 DEF Unsettle, Upsert, Books
<1>4. IsFiniteSet(new)
  <2>1. IsFiniteSet(ps)
    BY <1>0, FS_Subset DEF BookInv
  <2>2. [p \in ps |-> debt[p]] \in Surjection(ps, new)
    BY DEF Surjection
  <2> HIDE DEF debt
  <2> QED
    BY <2>1, <2>2, FS_Surjection
<1>5. new = {DebtOf(p, ShareCents[p.game]) : p \in ps}
  OBVIOUS
<1> HIDE DEF new, bk
<1>6. IsFiniteSet(bk.debts) /\ IsFiniteSet(bk.payments)
  BY <1>0, <1>3, <1>4, FS_Subset, FS_Union DEF BookInv
<1> QED
  BY <1>2, <1>3, <1>5, <1>6 DEF BookInv, bk

\* Undoing a payment made by hand undoes none of a Bizum.
LEMMA UndoByHandIsSanctioned ==
    ASSUME BizumDeskAssumption, IInv, NEW payment \in book.payments, UndoByHand(payment)
    PROVE  \E u : Sanctioned(u) /\ Commit(u)
<1> DEFINE bk == Unsettle(book, {payment}, ShareCents)
           u  == WithBook(bk, played)
<1>0. Tables \in Committed /\ book \in Books /\ BookInv(book) /\ played \in SUBSET Games
  BY TablesType DEF IInv
<1>1. Commit(u) /\ payment.bizum \notin Bizums
  <2>1. [Tables EXCEPT !.book = Unsettle(@, {payment}, ShareCents)] = u
    BY OnlyTheBook
  <2> QED
    BY <2>1, SharesAssumption DEF UndoByHand
<1>2. /\ bk \in Books /\ BookInv(bk) /\ bk.payments = book.payments \ {payment}
      /\ bk.debts = book.debts \union {DebtOf(p, ShareCents[p.game]) : p \in {payment}}
  BY UndoingIsSound
<1> HIDE DEF bk
<1>3. u \in Contents /\ u.book = bk /\ u.entry = entry /\ u.handling = handling
  BY <1>0, <1>2, WithBookType
<1> HIDE DEF u
<1>4. Tables.entry = entry /\ Tables.handling = handling /\ Tables.book = book
  BY DEF Tables
<1>5. \A b \in Bizums : PaymentsIn(u, b) = PaymentsIn(Tables, b)
  BY <1>1, <1>2, <1>3, <1>4 DEF PaymentsIn
<1>6. u \in Committed /\ \A b \in Bizums : Moves(Tables, u, b)
  BY <1>0, <1>2, <1>3, <1>4, <1>5, FewerPayments
<1>7. UndoneTogether(Tables, u)
  <2>1. SUFFICES ASSUME NEW b \in Bizums, NEW p \in PaymentsIn(Tables, b), NEW d \in u.book.debts,
                        SameShare(p, d)
                 PROVE  FALSE
    BY DEF UndoneTogether
  <2>2. p \in book.payments /\ p # payment
    BY <1>1, <1>4, <2>1 DEF PaymentsIn
  <2>3. d \in book.debts \/ SameShare(payment, d)
    BY <1>2, <1>3 DEF DebtOf, SameShare
  <2> QED
    BY <1>0, <2>1, <2>2, <2>3 DEF BookInv, OneTable, SameShare
<1> QED
  BY <1>1, <1>6, <1>7 DEF Sanctioned

\* All the payments of the Bizum go back, and no other.
LEMMA UndoBizumIsSanctioned ==
    ASSUME BizumDeskAssumption, IInv, NEW payment \in book.payments, UndoBizum(payment)
    PROVE  \E u : Sanctioned(u) /\ Commit(u)
<1> DEFINE b  == payment.bizum
           bk == Unsettle(book, PaymentsFrom(b), ShareCents)
           t  == WithBook(bk, played)
           u  == Wait(t, b)
<1>0. /\ Tables \in Committed /\ Tables \in Sound /\ EntriesInv(Tables)
      /\ book \in Books /\ BookInv(book) /\ played \in SUBSET Games
  BY TablesType DEF IInv
<1>1. Commit(u) /\ b \in Bizums
  <2>1. Commit(u) /\ b # None
    <3>1. [Tables EXCEPT !.book = Unsettle(@, PaymentsFrom(b), ShareCents)] = t
      BY OnlyTheBook
    <3> QED
      BY <3>1 DEF UndoBizum
  <2>2. b \in Bizums \union {None}
    BY <1>0 DEF Books, Payments
  <2> QED
    BY <2>1, <2>2
<1> HIDE DEF b
<1>2. /\ bk \in Books /\ BookInv(bk) /\ bk.payments = book.payments \ PaymentsFrom(b)
      /\ bk.debts = book.debts \union {DebtOf(p, ShareCents[p.game]) : p \in PaymentsFrom(b)}
  <2>1. PaymentsFrom(b) \in SUBSET book.payments
    BY DEF PaymentsFrom
  <2> QED
    BY <2>1, UndoingIsSound
<1> HIDE DEF bk
<1>3. t \in Contents /\ t.book = bk /\ t.entry = entry /\ t.handling = handling
  BY <1>0, <1>2, WithBookType
<1> HIDE DEF t
<1>4. Tables.entry = entry /\ Tables.handling = handling /\ Tables.book = book
  BY DEF Tables
<1>5. /\ PaymentsFrom(b) = PaymentsIn(Tables, b) /\ payment \in PaymentsIn(Tables, b)
      /\ PaymentsIn(t, b) = {}
      /\ \A c \in Bizums \ {b} : PaymentsIn(t, c) = PaymentsIn(Tables, c)
  BY <1>2, <1>3, <1>4 DEF PaymentsIn, PaymentsFrom, b
<1>6. t \in Committed
  <2>1. \A c \in Bizums : PaymentsIn(t, c) \subseteq PaymentsIn(Tables, c)
    BY <1>5
  <2> QED
    BY <1>0, <1>2, <1>3, <1>4, <2>1, FewerPayments
<1>7. Judged(t, u, b) /\ u.book = t.book /\ u.handling[b] = Waiting
  <2>1. t \in Sound /\ t \in Contents
    BY <1>6 DEF Committed, Sound
  <2>2. Judged(t, u, b)
    BY <1>1, <1>5, <2>1, WaitJudges
  <2> QED
    BY <1>1, <2>1, <2>2 DEF Wait, Contents
<1> HIDE DEF u
<1>8. handling[b].status = "settled" /\ entry[b] = "kept" /\ StageIn(Tables, b) = "settled"
  <2>1. handling[b].status = "settled"
    BY <1>0, <1>1, <1>4, <1>5, NothingPaid
  <2> QED
    BY <1>0, <1>1, <1>4, <2>1 DEF EntriesInv, StageIn
<1>9. u \in Committed
  <2>1. \A c \in Bizums : u.entry[c] = "kept" <=> u.handling[c].status # "none"
    BY <1>0, <1>3, <1>4, <1>7, <1>8 DEF Judged, EntriesInv, Waiting
  <2> QED
    BY <1>7, <2>1 DEF Judged, EntriesInv, Committed
<1>10. \A c \in Bizums : PaymentsIn(u, c) = PaymentsIn(t, c)
  BY <1>7 DEF PaymentsIn
<1>11. \A c \in Bizums : Moves(Tables, u, c)
  <2>1. StageIn(u, b) = "waiting" /\ PaidIn(u, b) = 0
    <3>1. u.entry[b] = "kept"
      BY <1>3, <1>7, <1>8 DEF Judged
    <3>2. PaidIn(u, b) = 0
      BY <1>1, <1>5, <1>10, TotalStep DEF PaidIn
    <3> QED
      BY <1>7, <3>1, <3>2 DEF StageIn, Waiting
  <2>2. Moves(Tables, u, b)
    BY <1>8, <2>1 DEF Moves
  <2>3. \A c \in Bizums \ {b} : Moves(Tables, u, c)
    BY <1>3, <1>4, <1>5, <1>7, <1>10 DEF Judged, Moves, Advances, StageIn, PaidIn
  <2> QED
    BY <2>2, <2>3
<1>12. UndoneTogether(Tables, u)
  <2>1. \A p \in PaymentsIn(Tables, b) : \E d \in u.book.debts : SameShare(p, d)
    <3>1. SUFFICES ASSUME NEW p \in PaymentsIn(Tables, b)
                   PROVE  \E d \in u.book.debts : SameShare(p, d)
      OBVIOUS
    <3>2. DebtOf(p, ShareCents[p.game]) \in u.book.debts
      BY <1>2, <1>3, <1>5, <1>7
    <3> QED
      BY <3>2 DEF DebtOf, SameShare
  <2>2. ASSUME NEW c \in Bizums \ {b}, NEW p \in PaymentsIn(Tables, c),
               NEW d \in u.book.debts, SameShare(p, d)
        PROVE  FALSE
    <3>1. p \in book.payments /\ p.bizum = c
      BY <1>4 DEF PaymentsIn
    <3>2. d \in book.debts \/ \E q \in PaymentsFrom(b) : SameShare(q, d)
      BY <1>2, <1>3, <1>7 DEF DebtOf, SameShare
    <3>3. ASSUME NEW q \in PaymentsFrom(b), SameShare(q, d) PROVE FALSE
      <4>1. q \in book.payments /\ q.bizum = b /\ SameShare(p, q)
        BY <2>2, <3>3 DEF PaymentsFrom, SameShare
      <4> QED
        BY <1>0, <3>1, <4>1 DEF BookInv, OneTable
    <3> QED
      BY <1>0, <2>2, <3>1, <3>2, <3>3 DEF BookInv, OneTable, SameShare
  <2> QED
    BY <1>1, <1>5, <1>7, <1>10, <2>1, <2>2 DEF UndoneTogether
<1> QED
  BY <1>1, <1>9, <1>11, <1>12 DEF Sanctioned

-----------------------------------------------------------------------------
(* The invariant is inductive, and every step is sanctioned *)

\* With no rows and no Bizum seen, the invariant holds.
LEMMA InitIsSound ==
    ASSUME BizumDeskAssumption, Init
    PROVE  IInv
<1>1. book.debts = {} /\ book.payments = {} /\ book \in Books
  BY DEF Init, EmptyBook, Books
<1>2. BookInv(book)
  BY <1>1, FS_EmptySet DEF BookInv, OneTable
<1>3. Tables \in Contents
  BY <1>1 DEF Init, Tables, Contents, Unhandled
<1>4. ASSUME NEW b \in Bizums PROVE BizumInv(Tables, b)
  <2>1. /\ Tables.book = book /\ Tables.handling[b].status = "none"
        /\ Tables.handling[b].how = None /\ Tables.handling[b].left = 0
    BY DEF Init, Tables, Unhandled
  <2>2. PaymentsIn(Tables, b) = {} /\ PaidIn(Tables, b) = 0
    BY <1>1, <2>1, TotalStep DEF PaymentsIn, PaidIn
  <2>3. Amount[b] \in Nat /\ None # "automatic"
    BY DEF BizumDeskAssumption, Cents, None
  <2> QED
    BY <2>1, <2>2, <2>3 DEF BizumInv
<1>5. EntriesInv(Tables)
  BY DEF Init, EntriesInv, Tables, Unhandled
<1>6. Tables \in Committed
  <2>1. Tables.book = book
    BY DEF Tables
  <2> QED
    BY <1>2, <1>3, <1>4, <1>5, <2>1 DEF Committed, Sound
<1> QED
  BY <1>6 DEF IInv, Init

\* Whatever the step, the tables that follow are sound, and every Bizum has moved as it may.
LEMMA NextIsSanctioned ==
    ASSUME BizumDeskAssumption, BizumOrderAssumption, IInv, [Next]_vars
    PROVE  IInv' /\ Sanctioned(Tables')
<1>1. ASSUME NEW u, Sanctioned(u), Commit(u)
      PROVE  IInv' /\ Sanctioned(Tables')
  <2>1. u \in Contents /\ u \in Committed
    BY <1>1 DEF Sanctioned, Committed, Sound
  <2>2. Tables' = u
    BY <1>1, <2>1, CommitIs
  <2>3. shareCents' \in [Seasons -> ShareAmounts]
    BY <1>1 DEF Commit, IInv
  <2>4. IInv'
    BY <2>1, <2>2, <2>3 DEF IInv
  <2> QED
    BY <1>1, <2>2, <2>4
<1>2. ASSUME Tables' = Tables, shareCents' \in [Seasons -> ShareAmounts]
      PROVE  IInv' /\ Sanctioned(Tables')
  <2>1. Tables \in Committed
    BY DEF IInv
  <2>2. IInv'
    BY <1>2, <2>1 DEF IInv
  <2>3. Sanctioned(Tables)
    <3>1. Tables.entry = entry /\ Tables.handling = handling /\ Tables.book = book
      BY DEF Tables
    <3> QED
      BY <2>1, <3>1, ForwardIsReflexive, ForwardIsSanctioned
  <2> QED
    BY <1>2, <2>2, <2>3
<1>3. ASSUME NEW given \in SUBSET Bizums, NEW from \in StartDates,
             NEW upTo \in 0..Len(BizumOrder), Read(given, from, upTo)
      PROVE  IInv' /\ Sanctioned(Tables')
  BY <1>1, <1>3, ReadIsSanctioned
<1>4. ASSUME NEW g \in Games, NEW playing \in Lineups[g], PlayGame(g, playing)
      PROVE  IInv' /\ Sanctioned(Tables')
  BY <1>1, <1>4, PlayGameIsSanctioned
<1>5. ASSUME NEW g \in Games, ReopenGame(g) \/ DeleteGame(g)
      PROVE  IInv' /\ Sanctioned(Tables')
  BY <1>1, <1>5, ReopenGameIsSanctioned, DeleteGameIsSanctioned
<1>6. ASSUME NEW s \in Seasons, NEW cents \in ShareAmounts, EditSeason(s, cents)
      PROVE  IInv' /\ Sanctioned(Tables')
  <2>1. Tables' = Tables
    BY <1>6 DEF EditSeason, Tables
  <2>2. shareCents' \in [Seasons -> ShareAmounts]
    BY <1>6 DEF EditSeason, IInv
  <2> QED
    BY <1>2, <2>1, <2>2
<1>7. ASSUME NEW b \in Bizums, NEW p \in Players, Pair(b, p)
      PROVE  IInv' /\ Sanctioned(Tables')
  BY <1>1, <1>7, PairIsSanctioned
<1>8. ASSUME NEW b \in Bizums, NEW p \in Players, NEW n \in Counts,
             NEW others \in [Players -> Counts], NEW rest \in {"keep", "dismiss"},
             Rule(b, p, n, others, rest)
      PROVE  IInv' /\ Sanctioned(Tables')
  BY <1>1, <1>8, RuleIsSanctioned
<1>9. ASSUME NEW b \in Bizums, Dismiss(b)
      PROVE  IInv' /\ Sanctioned(Tables')
  BY <1>1, <1>9, DismissIsSanctioned
<1>10. ASSUME NEW p \in Players, NEW name \in SenderNames,
              AddBizumName(p, name) \/ RemoveBizumName(p, name)
       PROVE  IInv' /\ Sanctioned(Tables')
  BY <1>1, <1>10, BizumNamesAreSanctioned
<1>11. ASSUME NEW debt \in book.debts, NEW payer \in Players, PayByHand(debt, payer)
       PROVE  IInv' /\ Sanctioned(Tables')
  BY <1>1, <1>11, PayByHandIsSanctioned
<1>12. ASSUME NEW debt \in book.debts, NEW holder \in NewHolders, Reassign(debt, holder)
       PROVE  IInv' /\ Sanctioned(Tables')
  BY <1>1, <1>12, ReassignIsSanctioned
<1>13. ASSUME NEW payment \in book.payments, UndoBizum(payment) \/ UndoByHand(payment)
       PROVE  IInv' /\ Sanctioned(Tables')
  BY <1>1, <1>13, UndoBizumIsSanctioned, UndoByHandIsSanctioned
<1>14. CASE UNCHANGED vars
  <2>1. Tables' = Tables /\ shareCents' = shareCents
    BY <1>14 DEF vars, Tables
  <2> QED
    BY <1>2, <2>1 DEF IInv
<1> QED
  BY <1>3, <1>4, <1>5, <1>6, <1>7, <1>8, <1>9, <1>10, <1>11, <1>12, <1>13, <1>14 DEF Next

\* The strengthening holds in every state that can be reached.
LEMMA InvariantHolds ==
    ASSUME BizumDeskAssumption, BizumOrderAssumption
    PROVE  Spec => []IInv
<1>1. Init => IInv
  BY InitIsSound
<1>2. IInv /\ [Next]_vars => IInv'
  BY NextIsSanctioned
<1> QED
  BY <1>1, <1>2, PTL DEF Spec

-----------------------------------------------------------------------------
(* What follows for the desk *)

\* Every table keeps its type: no request or read leaves a row that is not of a Bizum, a share
\* or a player there is, and a Bizum never has a negative amount left.
THEOREM TypesAreKept ==
    ASSUME BizumDeskAssumption, BizumOrderAssumption
    PROVE  Spec => []TypeOK
<1>1. IInv => TypeOK
  <2> SUFFICES ASSUME IInv PROVE TypeOK
    OBVIOUS
  <2> QED
    BY TablesType DEF IInv, TypeOK
<1> QED
  BY <1>1, InvariantHolds, PTL

\* However Bizums are read, judged again, ruled, undone and judged once more, and whatever
\* requests compete for it, a share is one debt or one payment.
THEOREM SharesStayInOneTable ==
    ASSUME BizumDeskAssumption, BizumOrderAssumption
    PROVE  Spec => []ShareInOneTable
<1>1. IInv => ShareInOneTable
  <2> SUFFICES ASSUME IInv PROVE ShareInOneTable
    OBVIOUS
  <2> QED
    BY TablesType DEF IInv, ShareInOneTable, BookInv
<1> QED
  BY <1>1, InvariantHolds, PTL

\* The money of the invariant is the money of the desk.
LEMMA MoneyIsAccounted ==
    ASSUME BizumDeskAssumption, IInv
    PROVE  MoneyAccounted
<1>1. ASSUME NEW b \in Bizums
      PROVE  /\ PaidFrom(b) <= Amount[b]
             /\ PaidFrom(b) + handling[b].left <= Amount[b]
  <2>1. Tables \in Sound /\ Tables.book = book /\ Tables.handling = handling
    BY TablesType DEF IInv, Tables
  <2>2. PaidIn(Tables, b) = PaidFrom(b)
    BY <2>1 DEF PaidIn, PaymentsIn, PaidFrom, PaymentsFrom
  <2>3. PaidFrom(b) \in Nat /\ handling[b].left \in Nat /\ Amount[b] \in Nat
    <3>1. PaidFrom(b) \in Nat
      BY <2>1, <2>2, BookMoney
    <3>2. handling[b].left \in Nat
      BY TablesType DEF IInv
    <3> QED
      BY <3>1, <3>2 DEF BizumDeskAssumption, Cents
  <2>4. PaidFrom(b) + handling[b].left <= Amount[b]
    BY <2>1, <2>2 DEF Sound, BizumInv
  <2> QED
    BY <2>3, <2>4
<1> QED
  BY <1>1 DEF MoneyAccounted

\* What a Bizum paid and what it has left never add up to more than it brought, even after the
\* season's price changed between a payment and its undoing.
THEOREM MoneyStaysAccounted ==
    ASSUME BizumDeskAssumption, BizumOrderAssumption
    PROVE  Spec => []MoneyAccounted
<1>1. IInv => MoneyAccounted
  BY MoneyIsAccounted
<1> QED
  BY <1>1, InvariantHolds, PTL

\* The rules on their own pay only games of the season of the Bizum up to its day, and for a
\* share the sender answers for or is the one of, and nothing that comes later makes it untrue
\* of a payment they made (bizum-rules.ts).
THEOREM OnlyThePastIsPaid ==
    ASSUME BizumDeskAssumption, BizumOrderAssumption
    PROVE  Spec => []RulesPayOnlyThePast
<1>1. IInv => RulesPayOnlyThePast
  <2>1. SUFFICES ASSUME IInv, NEW p \in book.payments, p.bizum # None,
                        handling[p.bizum].how = "automatic"
                 PROVE  /\ SeasonOf[p.game] = SeasonFor(p.bizum)
                        /\ PlayedOn[p.game] <= BookedOn[p.bizum]
                        /\ MayPay(p.payer, p)
    BY DEF RulesPayOnlyThePast
  <2>2. Tables \in Sound /\ Tables.book = book /\ Tables.handling = handling
    BY <2>1, TablesType DEF IInv, Tables
  <2>3. p.bizum \in Bizums
    BY <2>1, <2>2 DEF Sound, Contents, Books, Payments
  <2>4. BizumInv(Tables, p.bizum) /\ p \in PaymentsIn(Tables, p.bizum)
    BY <2>1, <2>2, <2>3 DEF Sound, PaymentsIn
  <2> QED
    BY <2>1, <2>2, <2>4 DEF BizumInv, OfThePast
<1> QED
  BY <1>1, InvariantHolds, PTL

\* Undoing one payment of a Bizum undoes all of them, of any game, in one step, and what it
\* pays and has left never adds up to more than it brought (bizum-undo-service.ts).
THEOREM BizumsAreUndoneWhole ==
    ASSUME BizumDeskAssumption, BizumOrderAssumption
    PROVE  Spec => UndoAllOrNothing
<1>1. IInv /\ [Next]_vars => UndoesThemAll
  <2>1. SUFFICES ASSUME IInv, [Next]_vars PROVE UndoesThemAll
    OBVIOUS
  <2>2. UndoneTogether(Tables, Tables')
    BY <2>1, NextIsSanctioned DEF Sanctioned
  <2>3. /\ Tables.book = book /\ Tables'.book = book'
        /\ Tables'.handling = handling'
    BY DEF Tables
  <2>4. \A b : PaymentsIn(Tables, b) = PaymentsFrom(b) /\ PaymentsIn(Tables', b) = PaymentsFrom(b)'
    BY <2>3 DEF PaymentsIn, PaymentsFrom
  <2> QED
    BY <2>2, <2>3, <2>4 DEF UndoneTogether, UndoesThemAll
<1>2. IInv => MoneyAccounted
  BY MoneyIsAccounted
<1> QED
  BY <1>1, <1>2, InvariantHolds, PTL DEF Spec, UndoAllOrNothing

\* What happens to the Bizums in a step is a step of BizumLedger, or nothing.
LEMMA StepsAreOfTheTreasury ==
    ASSUME BizumDeskAssumption, BizumOrderAssumption, IInv, [Next]_vars
    PROVE  [Treasury!Next]_(Treasury!vars)
<1>1. \A b \in Bizums : Moves(Tables, Tables', b)
  BY NextIsSanctioned DEF Sanctioned
<1>2. /\ Tables.book = book /\ Tables'.book = book'
      /\ Tables.handling = handling /\ Tables'.handling = handling'
      /\ Tables.entry = entry /\ Tables'.entry = entry'
  BY DEF Tables
<1>3. \A b : StageIn(Tables, b) = StageOf(b) /\ StageIn(Tables', b) = StageOf(b)'
  BY <1>2 DEF StageIn, StageOf
<1>4. \A b : PaidIn(Tables, b) = PaidFrom(b) /\ PaidIn(Tables', b) = PaidFrom(b)'
  <2>1. \A b : PaymentsIn(Tables, b) = PaymentsFrom(b) /\ PaymentsIn(Tables', b) = PaymentsFrom(b)'
    BY <1>2 DEF PaymentsIn, PaymentsFrom
  <2> QED
    BY <2>1 DEF PaidIn, PaidFrom
<1>5. ASSUME NEW b \in Bizums
      PROVE  \/ Treasury!Discard(b) \/ Treasury!Wait(b) \/ Treasury!Settle(b) \/ Treasury!Undo(b)
             \/ Treasury!Dismiss(b) \/ Treasury!Lose(b) \/ Treasury!Stays(b)
  <2>1. \/ StageOf(b)' = StageOf(b) /\ PaidFrom(b)' = PaidFrom(b)
        \/ StageOf(b) = "unseen" /\ StageOf(b)' \in {"discarded", "waiting"} /\ PaidFrom(b)' = 0
        \/ /\ StageOf(b) \in {"unseen", "waiting"} /\ StageOf(b)' = "settled"
           /\ PaidFrom(b)' \in 1..Amount[b]
        \/ StageOf(b) = "settled" /\ StageOf(b)' = "waiting" /\ PaidFrom(b)' = 0
        \/ StageOf(b) = "waiting" /\ StageOf(b)' = "dismissed" /\ PaidFrom(b)' = 0
        \/ StageOf(b) = "settled" /\ StageOf(b)' = "settled" /\ PaidFrom(b)' < PaidFrom(b)
    BY <1>1, <1>3, <1>4 DEF Moves, Advances
  <2> QED
    BY <2>1 DEF Treasury!Discard, Treasury!Wait, Treasury!Settle, Treasury!Undo,
                Treasury!Dismiss, Treasury!Lose, Treasury!Stays, Treasury!Goes
<1> QED
  BY <1>5 DEF Treasury!Next

\* BizumDesk implements BizumLedger: every transaction, whatever it judges, pays, undoes or
\* forgets, moves each Bizum as the treasury promises, or not at all.
THEOREM TheTreasuryIsKept ==
    ASSUME BizumDeskAssumption, BizumOrderAssumption
    PROVE  Spec => KeepsTheTreasury
<1>1. Init => Treasury!Init
  <2>1. ASSUME Init, NEW b \in Bizums PROVE StageOf(b) = "unseen" /\ PaidFrom(b) = 0
    <3>1. PaymentsFrom(b) = {}
      BY <2>1 DEF Init, EmptyBook, PaymentsFrom
    <3> QED
      BY <2>1, <3>1, TotalStep DEF Init, StageOf, PaidFrom
  <2> QED
    BY <2>1 DEF Treasury!Init
<1>2. IInv /\ [Next]_vars => [Treasury!Next]_(Treasury!vars)
  BY StepsAreOfTheTreasury
<1> QED
  BY <1>1, <1>2, InvariantHolds, PTL DEF Spec, KeepsTheTreasury, Treasury!Spec

-----------------------------------------------------------------------------
(* Playing a game pays what waited for it *)

\* Equal amounts add up to as many times one of them.
LEMMA TotalOfEqual ==
    ASSUME NEW D, IsMoney(D), NEW c \in Nat, \A d \in D : d.amount = c
    PROVE  Total(D) = Cardinality(D) * c
<1> DEFINE Good == {s \in SUBSET D : Total(s) = Cardinality(s) * c}
<1>1. ASSUME NEW s \in SUBSET D, \A u \in SUBSET s : u # s => u \in Good
      PROVE  s \in Good
  <2>1. IsMoney(s) /\ IsFiniteSet(s)
    BY MoneyOfSubset DEF IsMoney
  <2>2. CASE s = {}
    <3>1. Total(s) = 0 /\ Cardinality(s) = 0
      BY <2>2, TotalStep, FS_EmptySet
    <3> QED
      BY <3>1
  <2>3. ASSUME NEW x \in s PROVE s \in Good
    <3> DEFINE r == s \ {x}
    <3>1. r \in Good
      BY <1>1
    <3>2. Total(r) = Cardinality(r) * c /\ IsFiniteSet(r)
      BY <2>1, <3>1, FS_Subset
    <3>3. Cardinality(s) = Cardinality(r) + 1 /\ Cardinality(r) \in Nat
      <4>1. Cardinality(r) = Cardinality(s) - 1
        BY <2>1, FS_RemoveElement
      <4>2. Cardinality(r) \in Nat /\ Cardinality(s) \in Nat
        BY <2>1, <3>2, FS_CardinalityType
      <4> QED
        BY <4>1, <4>2
    <3>4. Total(s) = c + Total(r)
      BY <2>1, TotalRemove
    <3> HIDE DEF r
    <3>5. (Cardinality(r) + 1) * c = c + Cardinality(r) * c
      BY <3>3
    <3> QED
      BY <3>2, <3>3, <3>4, <3>5
  <2> QED
    BY <2>2, <2>3
<1>2. \A s \in SUBSET D : s \in Good
  <2>1. IsFiniteSet(D)
    BY DEF IsMoney
  <2> HIDE DEF Good
  <2> QED
    BY <1>1, <2>1, SubsetInduction
<1> QED
  BY <1>2

\* Every debt is of the price its season has now.
AtOnePrice(t) == \A d \in t.book.debts : d.amount = shareCents[SeasonOf[d.game]]

\* Nothing but playing one makes a game played, and but for that and for pairing a sender, a step
\* leaves the players' phones and names, or the handling of every Bizum, as they were.
LEMMA StepsThatJudge ==
    ASSUME BizumDeskAssumption, BizumOrderAssumption, IInv, Next
    PROVE  \/ \E g \in Games : \E playing \in Lineups[g] : PlayGame(g, playing)
           \/ /\ played' \subseteq played
              /\ \/ \E b \in Bizums, p \in Players : Pair(b, p)
                 \/ UNCHANGED <<phone, names>>
                 \/ UNCHANGED handling
<1> DEFINE Judging == \/ \E b \in Bizums, p \in Players : Pair(b, p)
                      \/ UNCHANGED <<phone, names>>
                      \/ UNCHANGED handling
           Quiet   == played' \subseteq played /\ Judging
<1>0. /\ Tables \in Committed /\ Tables \in Contents
      /\ Tables.played = played /\ Tables.phone = phone /\ Tables.names = names
  BY TablesType DEF IInv, Tables
<1>1. ASSUME NEW u, Commit(u), u.played \subseteq played, u.phone = phone, u.names = names
      PROVE  Quiet
  BY <1>1 DEF Commit
<1>2. ASSUME NEW given \in SUBSET Bizums, NEW from \in StartDates,
             NEW upTo \in 0..Len(BizumOrder), Read(given, from, upTo)
      PROVE  Quiet
  <2>1. Commit(ReadTables(given, from, upTo))
    BY <1>2 DEF Read, ReadTables
  <2>2. Forward(Tables, ReadTables(given, from, upTo))
    BY <1>0, ReadGoesForward
  <2> HIDE DEF Quiet
  <2> QED
    BY <1>0, <1>1, <2>1, <2>2 DEF Forward
<1>3. ASSUME NEW h \in Games, ReopenGame(h) \/ DeleteGame(h) PROVE Quiet
  BY <1>3 DEF ReopenGame, DeleteGame, Commit, Tables
<1>4. ASSUME NEW s \in Seasons, NEW cents \in ShareAmounts, EditSeason(s, cents) PROVE Quiet
  BY <1>4 DEF EditSeason
<1>5. ASSUME NEW b \in Bizums, NEW p \in Players, Pair(b, p) PROVE Quiet
  <2> DEFINE sender == Sender[b]
             t == IF sender.phone # None THEN [Tables EXCEPT !.phone[p] = sender.phone]
                  ELSE [Tables EXCEPT !.names[p] = @ \union {sender.name}]
  <2>1. PICK again : Commit(Rejudge(t, again))
    BY <1>5 DEF Pair
  <2>2. t \in Contents /\ t.book = book /\ t.entry = entry /\ t.handling = handling
    BY <1>0, <1>5, PairWrites DEF Pair
  <2>3. t.played = played
    BY DEF Tables
  <2> HIDE DEF t
  <2>4. t \in Committed
    BY <1>0, <2>2, SendersAreSanctioned
  <2>5. Rejudge(t, again).played = played
    BY <2>3, <2>4, RejudgeGoesForward DEF Forward
  <2>6. played' = played
    BY <2>1, <2>5 DEF Commit
  <2> QED
    BY <1>5, <2>6
<1>6. ASSUME NEW u, NEW b, NEW payer, NEW debts, NEW how, NEW rest,
             u = Pay(Tables, b, payer, debts, how, rest), Commit(u)
      PROVE  Quiet
  <2>1. u.played = played /\ u.phone = phone /\ u.names = names
    BY <1>6 DEF Pay, Wait, Tables
  <2> HIDE DEF Quiet
  <2> QED
    BY <1>1, <1>6, <2>1
<1>7. ASSUME NEW b \in Bizums, NEW p \in Players, NEW n \in Counts,
             NEW others \in [Players -> Counts], NEW rest \in {"keep", "dismiss"},
             Rule(b, p, n, others, rest)
      PROVE  Quiet
  <2>1. \E debts : Commit(Pay(Tables, b, p, debts, "organiser", rest))
    BY <1>7 DEF Rule
  <2> HIDE DEF Quiet
  <2> QED
    BY <1>6, <2>1
<1>8. ASSUME NEW b \in Bizums, Dismiss(b) PROVE Quiet
  <2> DEFINE u == [Tables EXCEPT !.entry[b] = "dismissed", !.handling[b] = Unhandled]
  <2>1. Commit(u)
    BY <1>8 DEF Dismiss
  <2>2. u.played = played /\ u.phone = phone /\ u.names = names
    BY DEF Tables
  <2> HIDE DEF u, Quiet
  <2> QED
    BY <1>1, <2>1, <2>2
<1>9. ASSUME NEW p \in Players, NEW name \in SenderNames,
             AddBizumName(p, name) \/ RemoveBizumName(p, name)
      PROVE  Quiet
  BY <1>9 DEF AddBizumName, RemoveBizumName, Commit, Tables
<1>10. ASSUME NEW debt \in book.debts, NEW payer \in Players, PayByHand(debt, payer) PROVE Quiet
  BY <1>10 DEF PayByHand, Commit, Tables
<1>11. ASSUME NEW debt \in book.debts, NEW holder \in NewHolders, Reassign(debt, holder)
       PROVE  Quiet
  <2> DEFINE t == WithBook(SetHolder(book, debt, holder), played)
  <2>1. PICK again : Commit(Rejudge(t, again))
    <3>1. [Tables EXCEPT !.book = SetHolder(@, debt, holder)] = t
      BY OnlyTheBook
    <3> HIDE DEF t
    <3> QED
      BY <1>11, <3>1 DEF Reassign
  <2>2. t \in Committed /\ t.played = played /\ t.phone = phone /\ t.names = names
    <3>1. t \in Committed /\ t.played = played
      BY <1>11, ReassigningIsSound
    <3>2. t.phone = phone /\ t.names = names
      BY DEF WithBook, Tables
    <3> QED
      BY <3>1, <3>2
  <2> HIDE DEF t, Quiet
  <2>3. Forward(t, Rejudge(t, again))
    BY <2>2, RejudgeGoesForward
  <2> QED
    BY <1>1, <2>1, <2>2, <2>3 DEF Forward
<1>12. ASSUME NEW payment \in book.payments, UndoBizum(payment) PROVE Quiet
  <2> DEFINE b == payment.bizum
             t == [Tables EXCEPT !.book = Unsettle(@, PaymentsFrom(b), ShareCents)]
  <2>1. t.played = played /\ t.phone = phone /\ t.names = names
    BY DEF Tables
  <2>2. Commit(Wait(t, b))
    BY <1>12 DEF UndoBizum
  <2> HIDE DEF t, Quiet
  <2>3. /\ Wait(t, b).played = t.played /\ Wait(t, b).phone = t.phone
        /\ Wait(t, b).names = t.names
    BY DEF Wait
  <2> QED
    BY <1>1, <2>1, <2>2, <2>3
<1>13. ASSUME NEW payment \in book.payments, UndoByHand(payment) PROVE Quiet
  BY <1>13 DEF UndoByHand, Commit, Tables
<1> HIDE DEF Quiet
<1>14. Quiet \/ \E g \in Games : \E playing \in Lineups[g] : PlayGame(g, playing)
  BY <1>2, <1>3, <1>4, <1>5, <1>7, <1>8, <1>9, <1>10, <1>11, <1>12, <1>13 DEF Next
<1> QED
  BY <1>14 DEF Quiet

\* What playing a game leaves, before it judges the Bizums that wait for it.
LEMMA PlayedTables ==
    ASSUME BizumDeskAssumption, BizumOrderAssumption, IInv,
           NEW g \in Games, NEW playing \in Lineups[g], PlayGame(g, playing)
    PROVE  \E t \in Committed :
              /\ OnePrice => AtOnePrice(t)
              /\ t.handling = handling /\ t.phone = phone /\ t.names = names
              /\ t.played = played \union {g}
              /\ Tables' = Rejudge(t, WaitingFrom(t, g)) /\ shareCents' = shareCents
<1> DEFINE bk == Bill(SetPlayed(book, g, playing \intersect Players),
                      g, playing, HolderOf, shareCents[SeasonOf[g]])
           t  == WithBook(bk, played \union {g})
           S  == WaitingFrom(t, g)
<1>1. Commit(Rejudge(t, S)) /\ shareCents' = shareCents
  BY DEF PlayGame, WithBook, Tables, Commit
<1>2. /\ bk \in Books /\ BookInv(bk) /\ bk.payments = book.payments
      /\ \A d \in bk.debts : \/ d \in book.debts
                             \/ d.game = g /\ d.amount = shareCents[SeasonOf[g]]
  BY BillingIsSound
<1>3. Tables \in Committed /\ played \union {g} \in SUBSET Games
  BY TablesType DEF IInv
<1> HIDE DEF bk
<1>4. /\ t \in Committed /\ t.book = bk /\ t.handling = handling
      /\ t.played = played \union {g} /\ t.phone = phone /\ t.names = names
  BY <1>2, <1>3, BookIsSanctioned, WithBookType
<1> HIDE DEF t
<1>5. OnePrice => AtOnePrice(t)
  BY <1>2, <1>4 DEF AtOnePrice, OnePrice
<1>6. Tables' = Rejudge(t, S)
  <2> HIDE DEF S
  <2>1. Rejudge(t, S) \in Contents
    BY <1>4, RejudgeGoesForward DEF Forward, Committed, Sound
  <2> QED
    BY <1>1, <2>1, CommitIs
<1> QED
  BY <1>1, <1>4, <1>5, <1>6

\* What the rules would pay with b, if it waits.
Waits(u, b) == u.handling[b].status = "waiting" /\ Settles(u, b)

\* With fewer debts, the same played games and the same senders, no more can be settled.
LEMMA FewerDebtsSettleLess ==
    ASSUME NEW u \in Sound, NEW v \in Sound, NEW b,
           v.played = u.played, v.phone = u.phone, v.names = u.names,
           v.book.debts \subseteq u.book.debts, Settles(v, b)
    PROVE  Settles(u, b)
<1>1. PlayersBehind(v, b) = PlayersBehind(u, b)
  BY DEF PlayersBehind
<1>2. Cardinality(PlayersBehind(u, b)) = 1 /\ Playable(b)
  BY <1>1 DEF Settles
<1>3. PICK p \in PlayersBehind(u, b) :
         Cardinality(SharesFor(v, b, p, {"near"})) >= Amount[b] \div Share(b)
  BY <1>1 DEF Settles
<1>4. SharesFor(v, b, p, {"near"}) \subseteq SharesFor(u, b, p, {"near"})
  BY DEF SharesFor
<1>5. IsFiniteSet(SharesFor(u, b, p, {"near"})) /\ IsFiniteSet(SharesFor(v, b, p, {"near"}))
  BY SharesAreDebts DEF Kinds
<1>6. /\ Cardinality(SharesFor(v, b, p, {"near"})) <= Cardinality(SharesFor(u, b, p, {"near"}))
      /\ Cardinality(SharesFor(v, b, p, {"near"})) \in Nat
      /\ Cardinality(SharesFor(u, b, p, {"near"})) \in Nat
  BY <1>4, <1>5, FS_Subset, FS_CardinalityType
<1>7. Amount[b] \div Share(b) \in Int
  BY <1>2 DEF Playable
<1>8. Cardinality(SharesFor(u, b, p, {"near"})) >= Amount[b] \div Share(b)
  BY <1>3, <1>6, <1>7
<1> QED
  BY <1>2, <1>8 DEF Settles

\* At one price, what the rules choose is worth no more than the Bizum: it settles.
LEMMA OnePriceSettles ==
    ASSUME BizumDeskAssumption, shareCents \in [Seasons -> ShareAmounts],
           NEW u \in Sound, NEW b \in Bizums, AtOnePrice(u),
           PaymentsIn(u, b) = {}, Settles(u, b)
    PROVE  Apply(u, b).handling[b].status = "settled"
<1> DEFINE n     == Amount[b] \div Share(b)
           ruled == RuledOf(u, b)
<1>1. /\ PayerOf(u, b) \in Players /\ SeasonFor(b) # None /\ n \in 1..7
      /\ ruled \in SUBSET SharesFor(u, b, PayerOf(u, b), {"near"})
      /\ ruled \in SUBSET u.book.debts /\ ruled # {}
      /\ Cardinality(ruled) = n
      /\ \A d \in ruled : OfThePast(b, PayerOf(u, b), d)
  BY RuledAreOfThePast
<1>2. Share(b) \in Nat /\ Share(b) > 0 /\ Amount[b] \in Nat
  <2>1. SeasonFor(b) \in Seasons
    BY <1>1, SeasonForType
  <2>2. Share(b) \in Cents
    BY <2>1 DEF Share, BizumDeskAssumption
  <2> QED
    BY <2>2 DEF BizumDeskAssumption, Cents
<1>3. n * Share(b) <= Amount[b]
  <2>1. ASSUME NEW a \in Nat, NEW c \in Nat, c > 0 PROVE (a \div c) * c <= a
    BY <2>1
  <2> QED
    BY <1>2, <2>1
<1>4. Total(ruled) = n * Share(b)
  <2>1. IsMoney(ruled)
    BY <1>1, BookMoney, MoneyOfSubset
  <2>2. \A d \in ruled : d.amount = Share(b)
    BY <1>1 DEF AtOnePrice, OfThePast, Share
  <2> HIDE DEF ruled, n
  <2> QED
    BY <1>1, <1>2, <2>1, <2>2, TotalOfEqual
<1>5. Total(ruled) <= Amount[b]
  BY <1>3, <1>4
<1>6. Apply(u, b) = Pay(u, b, PayerOf(u, b), ruled, "automatic", "keep")
  BY DEF Apply, PayerOf, RuledOf
<1> HIDE DEF ruled, n
<1> QED
  BY <1>1, <1>5, <1>6, PayJudges

\* Judged again at one price, none of the Bizums is left waiting that the rules would pay: each
\* has had its turn, and the turns of the others only take debts away.
LEMMA NoneIsLeftWaiting ==
    ASSUME BizumDeskAssumption, BizumOrderAssumption,
           shareCents \in [Seasons -> ShareAmounts],
           NEW t \in Sound, AtOnePrice(t), NEW bizums
    PROVE  \A b \in Bizums : IF b \in bizums
                             THEN ~Waits(Rejudge(t, bizums), b)
                             ELSE Rejudge(t, bizums).handling[b] = t.handling[b]
<1> DEFINE n == Len(BizumOrder)
           Had(i) == {BizumOrder[j] : j \in 1..i}
           Good == [i \in 0..n |->
                      {u \in Sound : /\ u.played = t.played /\ u.phone = t.phone
                                     /\ u.names = t.names
                                     /\ u.book.debts \subseteq t.book.debts
                                     /\ \A b \in Had(i) : b \in bizums => ~Waits(u, b)
                                     /\ \A b \in Bizums \ bizums : u.handling[b] = t.handling[b]}]
<1>0. n \in Nat /\ \A i \in 1..n : BizumOrder[i] \in Bizums
  BY DEF BizumOrderAssumption
<1>1. t \in Good[0]
  BY <1>0
<1>2. ASSUME NEW u \in Sound, NEW b \in Bizums
      PROVE  JudgedAgain(u, b, bizums) \in Sound
  <2>1. CASE b \in bizums /\ u.handling[b].status = "waiting"
    BY <2>1, NothingPaid, ApplyJudges DEF Judged, JudgedAgain
  <2>2. CASE ~(b \in bizums /\ u.handling[b].status = "waiting")
    BY <2>2 DEF JudgedAgain
  <2> QED
    BY <2>1, <2>2
<1>3. ASSUME NEW i \in 1..n, NEW u \in Sound, u \in Good[i - 1]
      PROVE  JudgedAgain(u, BizumOrder[i], bizums) \in Good[i]
  <2> DEFINE b == BizumOrder[i]
             v == JudgedAgain(u, b, bizums)
  <2>1. b \in Bizums /\ v \in Sound /\ i - 1 \in 0..n /\ i \in 0..n
    BY <1>0, <1>2
  <2>2. /\ u.played = t.played /\ u.phone = t.phone /\ u.names = t.names
        /\ u.book.debts \subseteq t.book.debts
        /\ \A c \in Had(i - 1) : c \in bizums => ~Waits(u, c)
        /\ \A c \in Bizums \ bizums : u.handling[c] = t.handling[c]
    BY <1>3, <2>1
  <2>3. \A c \in Had(i) : c = b \/ (c # b /\ c \in Had(i - 1) /\ c \in Bizums)
    <3>1. SUFFICES ASSUME NEW j \in 1..i
                   PROVE  \/ BizumOrder[j] = b
                          \/ /\ BizumOrder[j] # b /\ BizumOrder[j] \in Had(i - 1)
                             /\ BizumOrder[j] \in Bizums
      OBVIOUS
    <3>2. CASE j = i
      BY <3>2
    <3>3. CASE j # i
      <4>1. j \in 1..(i - 1) /\ j \in 1..n
        BY <1>0, <3>3
      <4> QED
        BY <1>0, <4>1
    <3> QED
      BY <3>2, <3>3
  <2> HIDE DEF Had
  <2>4. CASE ~(b \in bizums /\ u.handling[b].status = "waiting")
    <3>1. v = u
      BY <2>4 DEF JudgedAgain
    <3>2. \A c \in Had(i) : c \in bizums => ~Waits(u, c)
      BY <2>2, <2>3, <2>4 DEF Waits
    <3> HIDE DEF v
    <3> QED
      BY <2>1, <2>2, <3>1, <3>2 DEF v
  <2>5. CASE b \in bizums /\ u.handling[b].status = "waiting"
    <3>0. v = Apply(u, b)
      BY <2>5 DEF JudgedAgain
    <3>1. PaymentsIn(u, b) = {}
      BY <2>1, <2>5, NothingPaid
    <3>2. Judged(u, v, b)
      BY <2>1, <3>0, <3>1, ApplyJudges
    <3>3. AtOnePrice(u)
      BY <2>2 DEF AtOnePrice
    <3>4. Settles(u, b) => v.handling[b].status = "settled"
      BY <2>1, <3>0, <3>1, <3>3, OnePriceSettles
    <3> HIDE DEF v
    <3>5. /\ v.played = u.played /\ v.phone = u.phone /\ v.names = u.names
          /\ v.book.debts \subseteq u.book.debts
          /\ \A c \in Bizums \ {b} : v.handling[c] = u.handling[c]
      BY <3>2 DEF Judged
    <3>6. \A c : Settles(v, c) => Settles(u, c)
      BY <2>1, <3>5, FewerDebtsSettleLess
    <3>7. ~Waits(v, b)
      BY <3>4, <3>6 DEF Waits
    <3>8. \A c \in Had(i) : c \in bizums => ~Waits(v, c)
      BY <2>2, <2>3, <3>5, <3>6, <3>7 DEF Waits
    <3>9. \A c \in Bizums \ bizums : v.handling[c] = t.handling[c]
      BY <2>2, <2>5, <3>5
    <3>10. v \in Good[i]
      BY <2>1, <2>2, <3>5, <3>8, <3>9
    <3> QED
      BY <3>10 DEF v
  <2> QED
    BY <2>4, <2>5
<1>4. Rejudge(t, bizums) \in Good[n]
  <2> HIDE DEF Good
  <2>1. t \in Sound
    OBVIOUS
  <2> QED
    BY <1>1, <1>2, <1>3, RejudgeKeeps
<1>5. \A b \in Bizums : b \in Had(n)
  BY DEF BizumOrderAssumption
<1> HIDE DEF Had
<1>6. n \in 0..n
  BY <1>0
<1> QED
  BY <1>4, <1>5, <1>6

\* The step: the debts of the game that is played are of the price of its season, like those
\* there were, so each Bizum that waits from its day on is settled or cannot be.
LEMMA PlayingPays ==
    ASSUME BizumDeskAssumption, BizumOrderAssumption, IInv, Next
    PROVE  WaitedIsPaid
<1>1. SUFFICES ASSUME NEW g \in played' \ played, NEW b \in Bizums, OnePrice,
                      SeasonFor(b) = SeasonOf[g], PlayedOn[g] <= BookedOn[b], Payable(b)'
               PROVE  FALSE
  BY DEF WaitedIsPaid
<1>2. g \in Games /\ \E playing \in Lineups[g] : PlayGame(g, playing)
  <2>1. PICK h \in Games : \E playing \in Lineups[h] : PlayGame(h, playing)
    BY <1>1, StepsThatJudge
  <2>2. played' = played \union {h}
    <3>1. PICK t \in Committed : /\ t.played = played \union {h}
                                 /\ Tables' = Rejudge(t, WaitingFrom(t, h))
      BY <2>1, PlayedTables
    <3>2. Tables'.played = played \union {h}
      BY <3>1, RejudgeGoesForward DEF Forward
    <3> QED
      BY <3>2 DEF Tables
  <2> QED
    BY <1>1, <2>1, <2>2
<1>3. PICK t \in Committed : /\ AtOnePrice(t)
                             /\ Tables' = Rejudge(t, WaitingFrom(t, g)) /\ shareCents' = shareCents
  BY <1>1, <1>2, PlayedTables
<1> DEFINE S == WaitingFrom(t, g)
           u == Rejudge(t, S)
<1>4. IF b \in S THEN ~Waits(u, b) ELSE u.handling[b] = t.handling[b]
  <2>1. t \in Sound
    BY DEF Committed
  <2> HIDE DEF S
  <2> QED
    BY <1>3, <2>1, NoneIsLeftWaiting DEF IInv
<1> HIDE DEF u
<1>5. u.handling[b].status = "waiting"
  <2>1. Tables'.handling = handling'
    BY DEF Tables
  <2> QED
    BY <1>1, <1>3, <2>1 DEF Payable, u
<1>6. Settles(u, b)
  BY <1>1, <1>3
     DEF Payable, Settles, Playable, Whole, Share, PlayersBehind, SharesFor, u
<1>7. b \in S
  BY <1>1, <1>4, <1>5 DEF WaitingFrom
<1> QED
  BY <1>4, <1>5, <1>6, <1>7 DEF Waits

\* Playing a game leaves no Bizum of its day or later waiting that the rules would pay, while
\* the open debts of each season are of one price: what arrived before its debts is not
\* forgotten (bizum-settlement-service.ts).
THEOREM WhatWaitedIsPaid ==
    ASSUME BizumDeskAssumption, BizumOrderAssumption
    PROVE  Spec => PlayingPaysWhatWaited
<1>1. IInv /\ Next => WaitedIsPaid
  BY PlayingPays
<1>2. UNCHANGED vars => WaitedIsPaid
  BY DEF vars, WaitedIsPaid
<1> QED
  BY <1>1, <1>2, InvariantHolds, PTL DEF Spec, PlayingPaysWhatWaited

-----------------------------------------------------------------------------
(* The oldest pays first *)

\* What the rules settle of b is paid in its games.
LEMMA RuledArePaid ==
    ASSUME BizumDeskAssumption, NEW u \in Sound, NEW b \in Bizums, Settles(u, b),
           Apply(u, b).handling[b].how = "automatic"
    PROVE  \A d \in RuledOf(u, b) : \E p \in PaymentsIn(Apply(u, b), b) : p.game = d.game
<1> DEFINE payer == PayerOf(u, b)
           ruled == RuledOf(u, b)
           ps    == Paying(b, payer, ruled)
           v     == Apply(u, b)
<1>0. u \in Contents /\ u.book \in Books /\ BookInv(u.book) /\ u.book.debts \in SUBSET Debts
  BY DEF Sound, Contents, Books
<1>1. payer \in Players /\ ruled \in SUBSET u.book.debts /\ ruled \in SUBSET Debts
      /\ IsFiniteSet(ruled)
  BY <1>0, RuledAreOfThePast, FS_Subset DEF BookInv
<1>2. v = Pay(u, b, payer, ruled, "automatic", "keep")
  BY DEF Apply, PayerOf, RuledOf
<1>3. ~(Total(ruled) > Amount[b])
  <2>1. SUFFICES ASSUME Total(ruled) > Amount[b] PROVE FALSE
    OBVIOUS
  <2>2. v = Wait(u, b)
    BY <1>2, <2>1 DEF Pay
  <2>3. v.handling[b] = Waiting
    BY <1>0, <2>2 DEF Wait, Contents
  <2> HIDE DEF v
  <2> QED
    BY <2>3 DEF Waiting, None, v
<1>4. v.book = Settle(u.book, ps)
  BY <1>0, <1>2, <1>3 DEF Pay, Paying, Contents
<1> HIDE DEF v, payer, ruled
<1>5. v.book.payments = u.book.payments \union ps
  BY <1>0, <1>1, <1>4, SettlingIsSound
<1>6. \A d \in ruled : \E p \in ps : p.bizum = b /\ p.game = d.game
  BY <1>1, PayingType DEF SameShare
<1> QED
  BY <1>5, <1>6 DEF PaymentsIn, v, payer, ruled

\* Two Bizums of which the rules would say the same, but for their days.
Alike(b, c) == Sender[b] = Sender[c] /\ Amount[b] = Amount[c] /\ SeasonFor(b) = SeasonFor(c)

\* When all that c would pay is of games up to the day of b, b could pay as well.
LEMMA TheOtherCouldPay ==
    ASSUME BizumDeskAssumption, NEW u \in Sound, NEW b \in Bizums, NEW c \in Bizums, Alike(b, c),
           Settles(u, c), \A d \in RuledOf(u, c) : PlayedOn[d.game] <= BookedOn[b]
    PROVE  Settles(u, b)
<1> DEFINE payer == PayerOf(u, c)
           n     == Amount[c] \div Share(c)
           ruled == RuledOf(u, c)
           near  == SharesFor(u, b, payer, {"near"})
<1>1. /\ PlayersBehind(u, c) = {payer} /\ SeasonFor(c) # None /\ n \in 1..7
      /\ ruled \in SUBSET SharesFor(u, c, payer, {"near"})
      /\ Cardinality(ruled) = n
  BY RuledAreOfThePast
<1>2. PlayersBehind(u, b) = PlayersBehind(u, c)
  BY DEF PlayersBehind, Alike
<1>3. ruled \subseteq near
  <2>1. SUFFICES ASSUME NEW d \in ruled PROVE d \in near
    OBVIOUS
  <2>2. /\ d \in u.book.debts /\ payer \in {d.holder, d.member} /\ d.game \in u.played
        /\ KindFor(c, d) = "near"
    BY <1>1, <2>1 DEF SharesFor
  <2>3. PlayedOn[d.game] <= BookedOn[b]
    BY <2>1
  <2>4. KindFor(b, d) = "near"
    BY <2>2, <2>3 DEF KindFor, Alike
  <2> HIDE DEF payer
  <2> QED
    BY <1>1, <2>2, <2>4 DEF SharesFor, Alike
<1>4. IsFiniteSet(near)
  BY SharesAreDebts DEF Kinds
<1>5. Cardinality(near) >= n
  <2>1. IsFiniteSet(ruled) /\ Cardinality(ruled) <= Cardinality(near)
        /\ Cardinality(near) \in Nat
    <3> HIDE DEF ruled, near
    <3> QED
      BY <1>3, <1>4, FS_Subset, FS_CardinalityType
  <2> HIDE DEF ruled, near, n
  <2> QED
    BY <1>1, <2>1
<1>6. Amount[b] \div Share(b) = n /\ Playable(b)
  BY DEF Settles, Alike, Share, Playable, Whole
<1> HIDE DEF n, near
<1>7. Cardinality(PlayersBehind(u, b)) = 1 /\ payer \in PlayersBehind(u, b)
  BY <1>1, <1>2 DEF Settles
<1> QED
  BY <1>5, <1>6, <1>7 DEF Settles, near

\* Judged again at one price, of two that are alike and wait the later never takes what the
\* earlier could have had: when the earlier had its turn it could not be settled, and if all
\* the later pays were of games up to the earlier's day, it could have been.
LEMMA TheOldestWentFirst ==
    ASSUME BizumDeskAssumption, BizumOrderAssumption,
           shareCents \in [Seasons -> ShareAmounts],
           NEW t \in Sound, AtOnePrice(t), NEW bizums,
           NEW b \in bizums, NEW c \in Bizums, b \in Bizums, Alike(b, c), IsBefore(b, c),
           t.handling[c].status = "waiting",
           Rejudge(t, bizums).handling[b].status = "waiting",
           Rejudge(t, bizums).handling[c].how = "automatic"
    PROVE  \E p \in PaymentsIn(Rejudge(t, bizums), c) : PlayedOn[p.game] > BookedOn[b]
<1> DEFINE n == Len(BizumOrder)
<1>0. n \in Nat /\ \A i \in 1..n : BizumOrder[i] \in Bizums
  BY DEF BizumOrderAssumption
<1>a. PICK ib, ic \in 1..n : ib < ic /\ BizumOrder[ib] = b /\ BizumOrder[ic] = c
  <2>1. DOMAIN BizumOrder = 1..n
    BY DEF BizumOrderAssumption
  <2> QED
    BY <2>1 DEF IsBefore
<1>b. /\ \A i \in 1..n : i # ib => BizumOrder[i] # b
      /\ \A i \in 1..n : i # ic => BizumOrder[i] # c
      /\ b # c
  <2>1. \A i, j \in 1..n : i # j => BizumOrder[i] # BizumOrder[j]
    <3>1. \A i, j \in 1..n : i < j => BizumOrder[i] # BizumOrder[j]
      BY DEF BizumOrderAssumption
    <3>2. \A i, j \in 1..n : i # j => i < j \/ j < i
      BY <1>0
    <3> QED
      BY <3>1, <3>2
  <2>2. ib # ic
    BY <1>0, <1>a
  <2> QED
    BY <1>a, <2>1, <2>2
<1> DEFINE Fair(v) == v.handling[b].status = "waiting" /\ v.handling[c].how = "automatic"
                        => \E p \in PaymentsIn(v, c) : PlayedOn[p.game] > BookedOn[b]
           Good == [i \in 0..n |->
                      {u \in Sound : /\ u.book.debts \subseteq t.book.debts
                                     /\ ib <= i => ~Waits(u, b)
                                     /\ i < ic => u.handling[c].status = "waiting"
                                     /\ ic <= i => Fair(u)}]
<1> HIDE DEF n, Fair
<1>1. t \in Good[0]
  BY <1>0, <1>a
<1>2. ASSUME NEW u \in Sound, NEW d \in Bizums
      PROVE  JudgedAgain(u, d, bizums) \in Sound
  <2>1. CASE d \in bizums /\ u.handling[d].status = "waiting"
    BY <2>1, NothingPaid, ApplyJudges DEF Judged, JudgedAgain
  <2>2. CASE ~(d \in bizums /\ u.handling[d].status = "waiting")
    BY <2>2 DEF JudgedAgain
  <2> QED
    BY <2>1, <2>2
<1>3. ASSUME NEW i \in 1..n, NEW u \in Sound, u \in Good[i - 1]
      PROVE  JudgedAgain(u, BizumOrder[i], bizums) \in Good[i]
  <2> DEFINE d == BizumOrder[i]
             v == JudgedAgain(u, d, bizums)
  <2>1. d \in Bizums /\ v \in Sound /\ i - 1 \in 0..n /\ i \in 0..n /\ i \in Nat
    BY <1>0, <1>2
  <2>2. /\ u.book.debts \subseteq t.book.debts
        /\ ib <= i - 1 => ~Waits(u, b)
        /\ i - 1 < ic => u.handling[c].status = "waiting"
        /\ ic <= i - 1 => Fair(u)
    BY <1>3, <2>1
  <2>3. ib \in Nat /\ ic \in Nat /\ ib < ic
    BY <1>0, <1>a
  <2>4. CASE ~(d \in bizums /\ u.handling[d].status = "waiting")
    <3>1. v = u
      BY <2>4 DEF JudgedAgain
    <3>2. ib <= i => ~Waits(u, b)
      <4>1. CASE i = ib
        BY <1>a, <2>4, <4>1 DEF Waits
      <4> QED
        BY <2>1, <2>2, <2>3, <4>1
    <3>3. i < ic => u.handling[c].status = "waiting"
      BY <2>1, <2>2, <2>3
    <3>4. ic <= i => Fair(u)
      <4>1. CASE i = ic
        <5>1. u.handling[c].status = "waiting"
          BY <2>1, <2>2, <2>3, <4>1
        <5>2. u.handling[c].how # "automatic"
          BY <5>1 DEF Sound, BizumInv, None
        <5> QED
          BY <5>2 DEF Fair
      <4> QED
        BY <2>1, <2>2, <2>3, <4>1
    <3>5. u \in Good[i]
      BY <2>1, <2>2, <3>2, <3>3, <3>4
    <3> QED
      BY <3>1, <3>5
  <2>5. CASE d \in bizums /\ u.handling[d].status = "waiting"
    <3>0. v = Apply(u, d)
      BY <2>5 DEF JudgedAgain
    <3>1. PaymentsIn(u, d) = {}
      BY <2>1, <2>5, NothingPaid
    <3>2. Judged(u, v, d)
      BY <2>1, <3>0, <3>1, ApplyJudges
    <3>3. AtOnePrice(u)
      BY <2>2 DEF AtOnePrice
    <3>4. Settles(u, d) => v.handling[d].status = "settled"
      BY <2>1, <3>0, <3>1, <3>3, OnePriceSettles
    <3> HIDE DEF v
    <3>5. /\ v.played = u.played /\ v.phone = u.phone /\ v.names = u.names
          /\ v.book.debts \subseteq u.book.debts
          /\ \A e \in Bizums \ {d} : /\ v.handling[e] = u.handling[e]
                                     /\ PaymentsIn(v, e) = PaymentsIn(u, e)
      BY <3>2 DEF Judged
    <3>6. \A e : Settles(v, e) => Settles(u, e)
      BY <2>1, <3>5, FewerDebtsSettleLess
    <3>7. ib <= i => ~Waits(v, b)
      <4>1. CASE i = ib
        BY <1>a, <3>4, <3>6, <4>1 DEF Waits
      <4>2. CASE i # ib
        BY <1>b, <2>1, <2>2, <2>3, <3>5, <3>6, <4>2 DEF Waits
      <4> QED
        BY <4>1, <4>2
    <3>8. i < ic => v.handling[c].status = "waiting"
      <4>1. i < ic => i - 1 < ic /\ d # c
        BY <1>b, <2>1, <2>3
      <4> QED
        BY <2>2, <3>5, <4>1
    <3>9. ic <= i => Fair(v)
      <4>1. CASE i = ic
        <5>1. SUFFICES ASSUME v.handling[b].status = "waiting", v.handling[c].how = "automatic"
                       PROVE  \E p \in PaymentsIn(v, c) : PlayedOn[p.game] > BookedOn[b]
          BY DEF Fair
        <5>2. d = c /\ u.handling[b].status = "waiting"
          BY <1>a, <1>b, <3>5, <4>1, <5>1
        <5>3. ~Settles(u, b)
          BY <2>1, <2>2, <2>3, <4>1, <5>2 DEF Waits
        <5>4. Settles(u, c)
          <6>1. SUFFICES ASSUME ~Settles(u, c) PROVE FALSE
            OBVIOUS
          <6>2. v = Wait(u, c)
            BY <3>0, <5>2, <6>1 DEF Apply
          <6>3. v.handling[c] = Waiting
            <7>1. u.handling = [e \in Bizums |-> u.handling[e]]
              BY DEF Sound, Contents
            <7> QED
              BY <6>2, <7>1 DEF Wait, Sound, Contents
          <6> QED
            BY <5>1, <6>3 DEF Waiting, None
        <5>5. PICK x \in RuledOf(u, c) : ~(PlayedOn[x.game] <= BookedOn[b])
          BY <5>3, <5>4, TheOtherCouldPay
        <5>6. PICK p \in PaymentsIn(v, c) : p.game = x.game
          BY <3>0, <5>1, <5>2, <5>4, RuledArePaid
        <5>7. PlayedOn[x.game] \in Nat /\ BookedOn[b] \in Nat
          <6>1. x \in Debts
            BY <5>4, RuledAreOfThePast, SharesAreDebts DEF Kinds
          <6> QED
            BY <6>1 DEF Debts, BizumDeskAssumption
        <5> QED
          BY <5>5, <5>6, <5>7
      <4>2. CASE i # ic
        <5>1. SUFFICES ASSUME ic <= i PROVE Fair(v)
          OBVIOUS
        <5>2. ic <= i - 1 /\ d # c /\ d # b
          BY <1>b, <2>1, <2>3, <4>2, <5>1
        <5>3. Fair(u) /\ v.handling[b] = u.handling[b] /\ v.handling[c] = u.handling[c]
              /\ PaymentsIn(v, c) = PaymentsIn(u, c)
          BY <2>2, <3>5, <5>2
        <5> QED
          BY <5>3 DEF Fair
      <4> QED
        BY <4>1, <4>2
    <3>10. v \in Good[i]
      BY <2>1, <2>2, <3>5, <3>7, <3>8, <3>9
    <3> QED
      BY <3>10 DEF v
  <2> QED
    BY <2>4, <2>5
<1>4. Rejudge(t, bizums) \in Good[n]
  <2> HIDE DEF Good
  <2>1. t \in Sound
    OBVIOUS
  <2> QED
    BY <1>1, <1>2, <1>3, RejudgeKeeps DEF n
<1>5. Fair(Rejudge(t, bizums))
  BY <1>0, <1>4, <1>a
<1> QED
  BY <1>5 DEF Fair

\* A step that judges two that are alike, and changes the later, judges again what one set of
\* Bizums has them both in.
LEMMA JudgesAreRejudged ==
    ASSUME BizumDeskAssumption, BizumOrderAssumption, IInv, Next, OnePrice,
           NEW b \in Bizums, NEW c \in Bizums, Alike(b, c), Judges(b),
           handling[b].status = "waiting", handling'[c] # handling[c]
    PROVE  \E t, bizums : /\ t \in Committed /\ AtOnePrice(t) /\ t.handling = handling
                          /\ c \in bizums => b \in bizums
                          /\ Tables' = Rejudge(t, bizums)
<1>1. ASSUME NEW a \in Bizums, NEW p \in Players, Pair(a, p)
      PROVE  \E t, bizums : /\ t \in Committed /\ AtOnePrice(t) /\ t.handling = handling
                            /\ c \in bizums => b \in bizums
                            /\ Tables' = Rejudge(t, bizums)
  <2> DEFINE sender == Sender[a]
             t == IF sender.phone # None THEN [Tables EXCEPT !.phone[p] = sender.phone]
                  ELSE [Tables EXCEPT !.names[p] = @ \union {sender.name}]
             S == {d \in Bizums : t.handling[d].status = "waiting" /\ SameSender(a, d)}
  <2>1. Commit(Rejudge(t, S))
    BY <1>1 DEF Pair
  <2>2. t \in Contents /\ t.book = book /\ t.entry = entry /\ t.handling = handling
    BY <1>1, PairWrites DEF Pair, IInv
  <2>3. c \in S => b \in S
    BY <2>2 DEF SameSender, Alike
  <2> HIDE DEF t, S
  <2>4. t \in Committed /\ AtOnePrice(t)
    BY <2>2, SendersAreSanctioned DEF AtOnePrice, OnePrice, IInv
  <2>5. Rejudge(t, S) \in Contents
    BY <2>4, RejudgeGoesForward DEF Forward, Committed, Sound
  <2>6. Tables' = Rejudge(t, S)
    BY <2>1, <2>5, CommitIs
  <2> QED
    BY <2>2, <2>3, <2>4, <2>6
<1>2. ASSUME NEW g \in Games, NEW playing \in Lineups[g], PlayGame(g, playing)
      PROVE  \E t, bizums : /\ t \in Committed /\ AtOnePrice(t) /\ t.handling = handling
                            /\ c \in bizums => b \in bizums
                            /\ Tables' = Rejudge(t, bizums)
  <2>1. PICK t \in Committed : /\ AtOnePrice(t) /\ t.handling = handling
                               /\ t.phone = phone /\ t.names = names
                               /\ t.played = played \union {g}
                               /\ Tables' = Rejudge(t, WaitingFrom(t, g))
    BY <1>2, PlayedTables
  <2>2. PlayedOn[g] <= BookedOn[b]
    <3>1. Forward(t, Tables')
      BY <2>1, RejudgeGoesForward
    <3>2. played' = played \union {g} /\ phone' = phone /\ names' = names
      BY <2>1, <3>1 DEF Forward, Tables
    <3> QED
      BY <3>2 DEF Judges
  <2>3. c \in WaitingFrom(t, g) => b \in WaitingFrom(t, g)
    BY <2>1, <2>2 DEF WaitingFrom, Alike, BizumDeskAssumption
  <2> QED
    BY <2>1, <2>3
<1> QED
  BY <1>1, <1>2, StepsThatJudge DEF Judges

\* Of two equal Bizums of one sender judged together, the later one never pays a share that the
\* earlier one could have paid, while the open debts of each season are of one price
\* (bizum-resolution-service.ts).
THEOREM TheOldestPaysFirst ==
    ASSUME BizumDeskAssumption, BizumOrderAssumption
    PROVE  Spec => OldestPaysFirst
<1>1. IInv /\ [Next]_vars => OlderIsPreferred
  <2>1. SUFFICES ASSUME IInv, [Next]_vars, NEW b \in Bizums, NEW c \in Bizums,
                        OnePrice, IsBefore(b, c), Alike(b, c), Judges(b),
                        handling[b].status = "waiting", handling[c].status = "waiting",
                        handling'[c].how = "automatic", handling'[b].status = "waiting"
                 PROVE  \E p \in PaymentsFrom(c)' : PlayedOn[p.game] > BookedOn[b]
    BY DEF OlderIsPreferred, Alike
  <2>2. Tables \in Sound /\ Tables.handling = handling
    BY <2>1, TablesType DEF IInv, Tables
  <2>3. handling[c].how # "automatic"
    BY <2>1, <2>2 DEF Sound, BizumInv, None
  <2>4. handling'[c] # handling[c] /\ Next
    BY <2>1, <2>3 DEF vars
  <2>5. PICK t, bizums : /\ t \in Committed /\ AtOnePrice(t) /\ t.handling = handling
                         /\ c \in bizums => b \in bizums
                         /\ Tables' = Rejudge(t, bizums)
    BY <2>1, <2>4, JudgesAreRejudged
  <2>6. Tables'.handling = handling' /\ Tables'.book = book'
    BY DEF Tables
  <2>7. t \in Sound /\ shareCents \in [Seasons -> ShareAmounts]
    BY <2>1, <2>5 DEF Committed, IInv
  <2>8. c \in bizums
    BY <2>4, <2>5, <2>6, <2>7, NoneIsLeftWaiting
  <2>9. \E p \in PaymentsIn(Rejudge(t, bizums), c) : PlayedOn[p.game] > BookedOn[b]
    <3>1. b \in bizums
      BY <2>5, <2>8
    <3>2. Rejudge(t, bizums).handling = handling'
      BY <2>5, <2>6
    <3> QED
      BY <2>1, <2>5, <2>7, <3>1, <3>2, TheOldestWentFirst
  <2>10. PaymentsIn(Rejudge(t, bizums), c) = PaymentsFrom(c)'
    BY <2>5, <2>6 DEF PaymentsIn, PaymentsFrom
  <2> QED
    BY <2>9, <2>10
<1> QED
  BY <1>1, InvariantHolds, PTL DEF Spec, OldestPaysFirst
=============================================================================
