----------------------------- MODULE TallyProofs ----------------------------
(***************************************************************************)
(* Theorems about Tally, for all finite sets of entries and gates, every    *)
(* width of the integers and every bound on the flows below their range.    *)
(*                                                                          *)
(* The sums come first: the community modules define SumFunctionOnSet by a  *)
(* recursive function over the subsets of a set, from which the theorems    *)
(* that start with Sum follow by induction on the size of these subsets.    *)
(* Then what the operators of Tally compute: integers that wrap, flows that *)
(* start again, the tally of a gate, of an entry and of the space.          *)
(*                                                                          *)
(* The argument for the invariants: an undisturbed register tells one       *)
(* crossing, at one gate of one entry, so all sums of it are that crossing  *)
(* or zero.  A tally that takes one crossing either adds it or overflows in *)
(* a way its sign betrays, and then starts again from its net flow.  What   *)
(* is pending is part of the balance (CountExplained) and of the bounds     *)
(* (NetsInBounds).                                                          *)
(***************************************************************************)
EXTENDS Tally, FiniteSetTheorems, WellFoundedInduction, TLAPS

-----------------------------------------------------------------------------

(* A set of natural numbers with 0 that has the successor of every element  *)
(* it has, has them all.                                                    *)
LEMMA SetInduction ==
    ASSUME NEW P, 0 \in P, \A n \in Nat : n \in P => n + 1 \in P
    PROVE  \A n \in Nat : n \in P
<1> DEFINE T == Nat \ P
<1>1. SUFFICES ASSUME T # {} PROVE FALSE
  OBVIOUS
<1>2. PICK n \in T : \A m \in T : <<m, n>> \notin OpToRel(<, Nat)
  BY <1>1, WFMin, NatLessThanWellFounded
<1>3. \A m \in T : ~ (m < n)
  BY <1>2 DEF OpToRel
<1>4. n # 0 /\ n - 1 \in Nat
  OBVIOUS
<1>5. n - 1 \in P
  BY <1>3, <1>4
<1> QED BY <1>5

(* g sums f over the sets in D as SumFunctionOnSet does.                    *)
Pick(s) == CHOOSE x \in s : TRUE
SumStep(g, f, s) == IF s = {} THEN 0 ELSE f[Pick(s)] + g[s \ {Pick(s)}]
Sums(g, f, D) == g = [s \in D |-> SumStep(g, f, s)]

(* SumFunctionOnSet chooses such a g.                                       *)
LEMMA SumIsChosen ==
    ASSUME NEW f, NEW S
    PROVE  SumFunctionOnSet(f, S) = (CHOOSE g : Sums(g, f, SUBSET S))[S]
BY DEF SumFunctionOnSet, FoldFunctionOnSet, MapThenFoldSet, Sums, SumStep, Pick

(* The pick of a set is in it.                                              *)
LEMMA PickIn == ASSUME NEW s, s # {} PROVE Pick(s) \in s
BY DEF Pick

(* g at a set follows from g at the set without its pick.                   *)
LEMMA SumsStep ==
    ASSUME NEW g, NEW f, NEW D, Sums(g, f, D), NEW s \in D, s # {}
    PROVE  g[s] = f[Pick(s)] + g[s \ {Pick(s)}]
<1>1. g[s] = SumStep(g, f, s)
  BY DEF Sums
<1> QED BY <1>1 DEF SumStep

(* A set without one of its n + 1 elements has n.                           *)
LEMMA OneLess ==
    ASSUME NEW s, IsFiniteSet(s), NEW n \in Nat, Cardinality(s) = n + 1, NEW y \in s
    PROVE  Cardinality(s \ {y}) = n
<1>1. Cardinality(s \ {y}) = Cardinality(s) - 1
  BY FS_RemoveElement
<1> QED BY <1>1

(* The subsets of S with at most n elements.                                *)
UpTo(S, n) == {s \in SUBSET S : Cardinality(s) <= n}

(* There is such a g over the subsets of a finite set.                      *)
LEMMA SumExists ==
    ASSUME NEW f, NEW S, IsFiniteSet(S)
    PROVE  \E g : Sums(g, f, SUBSET S)
<1> DEFINE P == {n \in Nat : \E g : Sums(g, f, UpTo(S, n))}
<1>0. \A s \in SUBSET S : IsFiniteSet(s) /\ Cardinality(s) \in Nat
  BY FS_Subset, FS_CardinalityType
<1>1. 0 \in P
  <2> DEFINE g == [s \in UpTo(S, 0) |-> 0]
  <2>1. \A s \in UpTo(S, 0) : s = {}
    BY <1>0, FS_EmptySet DEF UpTo
  <2>2. \A s \in UpTo(S, 0) : SumStep(g, f, s) = 0
    BY <2>1 DEF SumStep
  <2>3. Sums(g, f, UpTo(S, 0))
    BY <2>2 DEF Sums
  <2> QED BY <2>3
<1>2. ASSUME NEW n \in Nat, n \in P
      PROVE  n + 1 \in P
  <2>1. PICK h : Sums(h, f, UpTo(S, n))
    BY <1>2
  <2> HIDE DEF P
  <2> DEFINE g == [s \in UpTo(S, n + 1) |-> SumStep(h, f, s)]
  <2>2. ASSUME NEW s \in UpTo(S, n + 1), s # {}
        PROVE  s \ {Pick(s)} \in UpTo(S, n)
    <3>1. Pick(s) \in s /\ s \in SUBSET S
      BY <2>2, PickIn DEF UpTo
    <3>2. Cardinality(s \ {Pick(s)}) = Cardinality(s) - 1
      BY <3>1, <1>0, FS_RemoveElement
    <3> QED BY <3>1, <3>2, <1>0 DEF UpTo
  <2>3. \A s \in UpTo(S, n) : s \in UpTo(S, n + 1) /\ g[s] = h[s]
    <3>1. \A s \in UpTo(S, n) : s \in UpTo(S, n + 1)
      BY <1>0 DEF UpTo
    <3>2. \A s \in UpTo(S, n) : h[s] = SumStep(h, f, s)
      BY <2>1 DEF Sums
    <3> QED BY <3>1, <3>2
  <2>4. \A s \in UpTo(S, n + 1) : SumStep(h, f, s) = SumStep(g, f, s)
    BY <2>2, <2>3 DEF SumStep
  <2>5. Sums(g, f, UpTo(S, n + 1))
    BY <2>4 DEF Sums
  <2> QED BY <2>5 DEF P
<1>3. \A n \in Nat : n \in P
  BY <1>1, <1>2, SetInduction
<1>4. Cardinality(S) \in P
  BY <1>3, FS_CardinalityType
<1>5. UpTo(S, Cardinality(S)) = SUBSET S
  BY FS_Subset DEF UpTo
<1> QED BY <1>4, <1>5

(* What SumFunctionOnSet is made of.                                        *)
LEMMA SumIsSums ==
    ASSUME NEW f, NEW S, IsFiniteSet(S)
    PROVE  \E g : Sums(g, f, SUBSET S) /\ SumFunctionOnSet(f, S) = g[S]
<1> DEFINE g == CHOOSE g : Sums(g, f, SUBSET S)
<1>1. Sums(g, f, SUBSET S)
  BY SumExists
<1> QED BY <1>1, SumIsChosen

(* Such functions agree, whatever sets they are defined for.                *)
LEMMA SumsAgree ==
    ASSUME NEW f, NEW S, IsFiniteSet(S), NEW T \in SUBSET S,
           NEW g, Sums(g, f, SUBSET S), NEW h, Sums(h, f, SUBSET T)
    PROVE  h[T] = g[T]
<1> DEFINE P == {n \in Nat : \A s \in SUBSET T : Cardinality(s) = n => h[s] = g[s]}
<1>0. \A s \in SUBSET S : IsFiniteSet(s) /\ Cardinality(s) \in Nat
  BY FS_Subset, FS_CardinalityType
<1>1. 0 \in P
  <2>1. ASSUME NEW s \in SUBSET T, Cardinality(s) = 0 PROVE h[s] = g[s]
    <3>1. s = {}
      BY <2>1, <1>0, FS_EmptySet
    <3> QED BY <3>1 DEF Sums, SumStep
  <2> QED BY <2>1
<1>2. ASSUME NEW n \in Nat, n \in P
      PROVE  n + 1 \in P
  <2>0. \A s \in SUBSET T : Cardinality(s) = n => h[s] = g[s]
    BY <1>2
  <2> HIDE DEF P
  <2>1. ASSUME NEW s \in SUBSET T, Cardinality(s) = n + 1 PROVE h[s] = g[s]
    <3>1. s # {}
      BY <2>1, FS_EmptySet
    <3>2. Pick(s) \in s
      BY <3>1, PickIn
    <3>3. Cardinality(s \ {Pick(s)}) = n
      BY <2>1, <3>2, <1>0, OneLess
    <3>4. h[s \ {Pick(s)}] = g[s \ {Pick(s)}]
      BY <2>0, <3>3
    <3> QED BY <3>1, <3>4 DEF Sums, SumStep
  <2> QED BY <2>1 DEF P
<1>3. \A n \in Nat : n \in P
  BY <1>1, <1>2, SetInduction
<1> QED BY <1>0, <1>3

(* The sum over the empty set.                                              *)
LEMMA SumEmpty == ASSUME NEW f PROVE SumFunctionOnSet(f, {}) = 0
<1>1. PICK g : Sums(g, f, SUBSET {}) /\ SumFunctionOnSet(f, {}) = g[{}]
  BY SumIsSums, FS_EmptySet
<1>2. g = [s \in SUBSET {} |-> SumStep(g, f, s)]
  BY <1>1 DEF Sums
<1>3. g[{}] = SumStep(g, f, {})
  BY <1>2
<1> QED BY <1>1, <1>3 DEF SumStep

(* The sum is in every set that has 0, the summands and the sums of its     *)
(* elements.                                                                *)
LEMMA SumIn ==
    ASSUME NEW S, IsFiniteSet(S), NEW Z, 0 \in Z, \A a, b \in Z : a + b \in Z,
           NEW f, \A x \in S : f[x] \in Z
    PROVE  SumFunctionOnSet(f, S) \in Z
<1>1. PICK g : Sums(g, f, SUBSET S) /\ SumFunctionOnSet(f, S) = g[S]
  BY SumIsSums
<1> DEFINE P == {n \in Nat : \A s \in SUBSET S : Cardinality(s) = n => g[s] \in Z}
<1>0. \A s \in SUBSET S : IsFiniteSet(s) /\ Cardinality(s) \in Nat
  BY FS_Subset, FS_CardinalityType
<1>2. 0 \in P
  <2>1. ASSUME NEW s \in SUBSET S, Cardinality(s) = 0 PROVE g[s] \in Z
    <3>1. s = {}
      BY <2>1, <1>0, FS_EmptySet
    <3> QED BY <3>1, <1>1 DEF Sums, SumStep
  <2> QED BY <2>1
<1>3. ASSUME NEW n \in Nat, n \in P
      PROVE  n + 1 \in P
  <2>0. \A s \in SUBSET S : Cardinality(s) = n => g[s] \in Z
    BY <1>3
  <2> HIDE DEF P
  <2>1. ASSUME NEW s \in SUBSET S, Cardinality(s) = n + 1 PROVE g[s] \in Z
    <3>1. s # {}
      BY <2>1, FS_EmptySet
    <3>2. Pick(s) \in s
      BY <3>1, PickIn
    <3>3. Cardinality(s \ {Pick(s)}) = n
      BY <2>1, <3>2, <1>0, OneLess
    <3>4. g[s \ {Pick(s)}] \in Z /\ f[Pick(s)] \in Z
      BY <2>0, <3>2, <3>3
    <3>5. g[s] = f[Pick(s)] + g[s \ {Pick(s)}]
      BY <1>1, <3>1, SumsStep
    <3>6. f[Pick(s)] + g[s \ {Pick(s)}] \in Z
      BY <3>4, Zenon
    <3> QED BY <3>5, <3>6
  <2> QED BY <2>1 DEF P
<1>4. \A n \in Nat : n \in P
  BY <1>2, <1>3, SetInduction
<1> QED BY <1>0, <1>1, <1>4

(* The sum of integers is one; the sum of zeros is zero.                    *)
LEMMA SumType ==
    ASSUME NEW S, IsFiniteSet(S), NEW f, \A x \in S : f[x] \in Int
    PROVE  SumFunctionOnSet(f, S) \in Int
<1>1. 0 \in Int /\ \A a, b \in Int : a + b \in Int
  OBVIOUS
<1> QED BY <1>1, SumIn

(* The sum of zeros is zero.                                                *)
LEMMA SumZero ==
    ASSUME NEW S, IsFiniteSet(S), NEW f, \A x \in S : f[x] = 0
    PROVE  SumFunctionOnSet(f, S) = 0
<1>1. 0 \in {0} /\ \A a, b \in {0} : a + b \in {0}
  OBVIOUS
<1>2. \A x \in S : f[x] \in {0}
  OBVIOUS
<1>3. SumFunctionOnSet(f, S) \in {0}
  BY <1>1, <1>2, SumIn
<1> QED BY <1>3

(* Any element may be taken out of the sum, not only the pick.              *)
LEMMA SumSplit ==
    ASSUME NEW S, IsFiniteSet(S), NEW f, \A x \in S : f[x] \in Int, NEW x \in S
    PROVE  SumFunctionOnSet(f, S) = f[x] + SumFunctionOnSet(f, S \ {x})
<1>1. PICK g : Sums(g, f, SUBSET S) /\ SumFunctionOnSet(f, S) = g[S]
  BY SumIsSums
<1>2. \A s \in SUBSET S : g[s] = SumFunctionOnSet(f, s)
  <2> TAKE s \in SUBSET S
  <2>1. IsFiniteSet(s)
    BY FS_Subset
  <2>2. PICK h : Sums(h, f, SUBSET s) /\ SumFunctionOnSet(f, s) = h[s]
    BY <2>1, SumIsSums
  <2>3. Sums(g, f, SUBSET S) /\ Sums(h, f, SUBSET s) /\ s \in SUBSET S
    BY <1>1, <2>2
  <2>4. h[s] = g[s]
    BY <2>3, SumsAgree, Zenon
  <2> QED BY <2>2, <2>4
<1>3. \A s \in SUBSET S : g[s] \in Int
  <2> TAKE s \in SUBSET S
  <2>1. IsFiniteSet(s)
    BY FS_Subset
  <2> QED BY <1>2, <2>1, SumType
<1> DEFINE P == {n \in Nat : \A s \in SUBSET S : \A y \in s :
                    Cardinality(s) = n => g[s] = f[y] + g[s \ {y}]}
<1>0. \A s \in SUBSET S : IsFiniteSet(s) /\ Cardinality(s) \in Nat
  BY FS_Subset, FS_CardinalityType
<1>4. 0 \in P
  BY <1>0, FS_EmptySet
<1>5. ASSUME NEW n \in Nat, n \in P
      PROVE  n + 1 \in P
  <2>0. \A t \in SUBSET S : \A z \in t : Cardinality(t) = n => g[t] = f[z] + g[t \ {z}]
    BY <1>5
  <2> HIDE DEF P
  <2>1. ASSUME NEW s \in SUBSET S, NEW y \in s, Cardinality(s) = n + 1
        PROVE  g[s] = f[y] + g[s \ {y}]
    <3> DEFINE p == Pick(s)
    <3>1. p \in s
      BY PickIn
    <3>2. g[s] = f[p] + g[s \ {p}]
      BY <1>1, <3>1, SumsStep
    <3>3. CASE y = p
      BY <3>2, <3>3
    <3>4. CASE y # p
      <4>1. /\ Cardinality(s \ {p}) = n
            /\ Cardinality(s \ {y}) = n
        BY <2>1, <3>1, <1>0, OneLess
      <4>2. /\ g[s \ {p}] = f[y] + g[(s \ {p}) \ {y}]
            /\ g[s \ {y}] = f[p] + g[(s \ {y}) \ {p}]
        BY <2>0, <3>1, <3>4, <4>1
      <4>3. (s \ {p}) \ {y} = (s \ {y}) \ {p}
        OBVIOUS
      <4>4. f[p] \in Int /\ f[y] \in Int /\ g[(s \ {p}) \ {y}] \in Int
        BY <1>3, <3>1
      <4>5. \A a, b, c \in Int : a + (b + c) = b + (a + c)
        OBVIOUS
      <4>6. g[s] = f[p] + (f[y] + g[(s \ {p}) \ {y}])
        BY <3>2, <4>2
      <4>7. g[s \ {y}] = f[p] + g[(s \ {p}) \ {y}]
        BY <4>2, <4>3
      <4>8. f[p] + (f[y] + g[(s \ {p}) \ {y}]) = f[y] + (f[p] + g[(s \ {p}) \ {y}])
        BY <4>4, <4>5
      <4> QED BY <4>6, <4>7, <4>8, Zenon
    <3> QED BY <3>3, <3>4
  <2> QED BY <2>1 DEF P
<1>6. \A n \in Nat : n \in P
  BY <1>4, <1>5, SetInduction
<1>7. g[S] = f[x] + g[S \ {x}]
  BY <1>0, <1>6
<1> QED BY <1>1, <1>2, <1>7

(* The sum of what is zero but at x is what it is at x.                     *)
LEMMA SumOne ==
    ASSUME NEW S, IsFiniteSet(S), NEW f, NEW x \in S, f[x] \in Int,
           \A y \in S \ {x} : f[y] = 0
    PROVE  SumFunctionOnSet(f, S) = f[x]
<1>1. \A y \in S : f[y] \in Int
  OBVIOUS
<1>2. SumFunctionOnSet(f, S) = f[x] + SumFunctionOnSet(f, S \ {x})
  BY <1>1, SumSplit
<1>3. SumFunctionOnSet(f, S \ {x}) = 0
  BY SumZero, FS_Subset
<1> QED BY <1>2, <1>3

(* The sum of the sums of two functions is the sum of theirs.               *)
LEMMA SumAdd ==
    ASSUME NEW S, IsFiniteSet(S), NEW f, NEW h, NEW k,
           \A x \in S : f[x] \in Int /\ h[x] \in Int /\ k[x] = f[x] + h[x]
    PROVE  SumFunctionOnSet(k, S) = SumFunctionOnSet(f, S) + SumFunctionOnSet(h, S)
<1> DEFINE Sum(w, s) == SumFunctionOnSet(w, s)
           P == {n \in Nat : \A s \in SUBSET S : Cardinality(s) = n =>
                                Sum(k, s) = Sum(f, s) + Sum(h, s)}
<1>0. \A s \in SUBSET S : IsFiniteSet(s) /\ Cardinality(s) \in Nat
  BY FS_Subset, FS_CardinalityType
<1>1. \A x \in S : k[x] \in Int
  OBVIOUS
<1> HIDE DEF Sum
<1>2. 0 \in P
  <2>1. Sum(k, {}) = 0 /\ Sum(f, {}) = 0 /\ Sum(h, {}) = 0
    BY SumEmpty DEF Sum
  <2>2. ASSUME NEW s \in SUBSET S, Cardinality(s) = 0 PROVE Sum(k, s) = Sum(f, s) + Sum(h, s)
    <3>1. s = {}
      BY <1>0, <2>2, FS_EmptySet
    <3>2. 0 = 0 + 0
      OBVIOUS
    <3> QED BY <2>1, <3>1, <3>2, Zenon
  <2> QED BY <2>2
<1>3. ASSUME NEW n \in Nat, n \in P
      PROVE  n + 1 \in P
  <2>0. \A s \in SUBSET S : Cardinality(s) = n => Sum(k, s) = Sum(f, s) + Sum(h, s)
    BY <1>3
  <2> HIDE DEF P
  <2>1. ASSUME NEW s \in SUBSET S, Cardinality(s) = n + 1
        PROVE  Sum(k, s) = Sum(f, s) + Sum(h, s)
    <3>1. PICK x : x \in s
      BY <2>1, FS_EmptySet
    <3>2. Cardinality(s \ {x}) = n
      BY <2>1, <3>1, <1>0, OneLess
    <3> DEFINE r == s \ {x}
    <3>3. r \in SUBSET S /\ IsFiniteSet(r) /\ IsFiniteSet(s)
      BY <1>0
    <3>4. Sum(k, r) = Sum(f, r) + Sum(h, r)
      BY <2>0, <3>2
    <3>5. Sum(f, r) \in Int /\ Sum(h, r) \in Int
      BY <3>3, SumType DEF Sum
    <3>6. /\ Sum(k, s) = k[x] + Sum(k, r)
          /\ Sum(f, s) = f[x] + Sum(f, r)
          /\ Sum(h, s) = h[x] + Sum(h, r)
      BY <1>1, <3>1, <3>3, SumSplit DEF Sum
    <3>7. k[x] = f[x] + h[x] /\ f[x] \in Int /\ h[x] \in Int
      BY <3>1
    <3> HIDE DEF r
    <3>8. \A a, b, c, d \in Int : (a + b) + (c + d) = (a + c) + (b + d)
      OBVIOUS
    <3>9. (f[x] + h[x]) + (Sum(f, r) + Sum(h, r)) = (f[x] + Sum(f, r)) + (h[x] + Sum(h, r))
      BY <3>5, <3>7, <3>8
    <3> QED BY <3>4, <3>6, <3>7, <3>9, Zenon
  <2> QED BY <2>1 DEF P
<1>4. \A n \in Nat : n \in P
  BY <1>2, <1>3, SetInduction
<1>5. Sum(k, S) = Sum(f, S) + Sum(h, S)
  BY <1>0, <1>4
<1> QED BY <1>5 DEF Sum
(* Integers wrap around at Half: none of these changes, the others come out *)
(* with the other sign.                                                     *)
LEMMA WrapType == ASSUME NEW n \in Int PROVE Wrap(n) \in -Half .. Half - 1
<1>1. Half \in Nat \ {0}
  BY TallyAssumption
<1> HIDE DEF Half
<1> QED BY <1>1 DEF Wrap

(* What is in the range does not change.                                    *)
LEMMA WrapSame == ASSUME NEW n \in -Half .. Half - 1 PROVE Wrap(n) = n
<1>1. Half \in Nat \ {0}
  BY TallyAssumption
<1>2. n + Half \in Nat /\ n + Half < 2 * Half /\ 2 * Half \in Nat
  BY <1>1
<1>3. (n + Half) % (2 * Half) = n + Half
  BY <1>2
<1> QED BY <1>1, <1>3 DEF Wrap

(* One too many comes out negative ...                                      *)
LEMMA WrapOver == Wrap(Half) = -Half
<1>1. Half \in Nat \ {0}
  BY TallyAssumption
<1>2. (Half + Half) % (2 * Half) = 0
  BY <1>1
<1> QED BY <1>1, <1>2 DEF Wrap

(* ... and one too few positive.                                            *)
LEMMA WrapUnder == Wrap(-Half - 1) = Half - 1
<1>1. Half \in Nat \ {0}
  BY TallyAssumption
<1>2. -1 + 2 * Half \in 0 .. 2 * Half - 1
  BY <1>1
<1>3. (-1) % (2 * Half) = 2 * Half - 1
  BY <1>1
<1>4. -Half - 1 + Half = -1
  BY <1>1
<1> QED BY <1>1, <1>3, <1>4 DEF Wrap

(* The larger and the smaller of v and 0.                                   *)
Pos(v) == IF v >= 0 THEN v ELSE 0
Neg(v) == IF v <= 0 THEN v ELSE 0

(* They are the maximum and the minimum the flows are made of.              *)
LEMMA MaxIsPos == ASSUME NEW v \in Int PROVE Max({v, 0}) = Pos(v) /\ Pos(v) \in Int /\ Pos(v) >= 0
BY DEF Max, Pos

(* Only one of them is not zero.                                            *)
LEMMA MinIsNeg ==
    ASSUME NEW v \in Int
    PROVE  Min({v, 0}) = Neg(v) /\ Neg(v) \in Int /\ Neg(v) <= 0 /\ Pos(v) + Neg(v) = v
BY DEF Min, Pos, Neg

(* Whatever was added up, the flows end with the right signs.               *)
LEMMA RestartedType ==
    ASSUME NEW i \in -Half .. Half - 1, NEW o \in -Half .. Half - 1,
           NEW x \in -Half .. Half - 1
    PROVE  /\ Restarted([in |-> i, out |-> o, net |-> x], x) \in Tallies
           /\ Restarted([in |-> i, out |-> o, net |-> x], x).net = x
<1>1. Half \in Nat \ {0}
  BY TallyAssumption
<1> HIDE DEF Half
<1>2. CASE i >= 0 /\ o <= 0
  BY <1>1, <1>2 DEF Restarted, Tallies
<1>3. CASE ~(i >= 0 /\ o <= 0)
  <2>1. Restarted([in |-> i, out |-> o, net |-> x], x) = [in |-> Pos(x), out |-> Neg(x), net |-> x]
    BY <1>1, <1>3, MaxIsPos, MinIsNeg DEF Restarted
  <2>2. Pos(x) \in 0 .. Half - 1 /\ Neg(x) \in -Half .. 0
    BY <1>1 DEF Pos, Neg
  <2> QED BY <2>1, <2>2 DEF Tallies
<1> QED BY <1>2, <1>3

(* They balance if they did before they overflowed.                         *)
LEMMA RestartedBalances ==
    ASSUME NEW i \in -Half .. Half - 1, NEW o \in -Half .. Half - 1,
           NEW x \in -Half .. Half - 1, i >= 0 /\ o <= 0 => i + o = x
    PROVE  Balanced(Restarted([in |-> i, out |-> o, net |-> x], x))
<1>1. Half \in Nat \ {0}
  BY TallyAssumption
<1> HIDE DEF Half
<1>2. CASE i >= 0 /\ o <= 0
  BY <1>1, <1>2 DEF Restarted, Balanced
<1>3. CASE ~(i >= 0 /\ o <= 0)
  <2>1. Restarted([in |-> i, out |-> o, net |-> x], x) = [in |-> Pos(x), out |-> Neg(x), net |-> x]
    BY <1>1, <1>3, MaxIsPos, MinIsNeg DEF Restarted
  <2>2. x \in Int
    BY <1>1
  <2>3. Pos(x) >= 0 /\ Neg(x) <= 0 /\ Pos(x) + Neg(x) = x
    BY <2>2, MaxIsPos, MinIsNeg
  <2> HIDE DEF Restarted
  <2> QED BY <2>1, <2>3 DEF Balanced
<1> QED BY <1>2, <1>3

(* One in or out is in the range of the integers, if it occurs at all.      *)
LEMMA StepType ==
    ASSUME NEW v \in Steps
    PROVE  v \in {-1, 0, 1} /\ v \in Flows /\ (v # 0 => Half > 1)
BY TallyAssumption DEF Steps, Flows

(* What wraps after one more in or out.                                     *)
LEMMA StepWraps ==
    ASSUME NEW t \in Tallies, NEW v \in Steps
    PROVE  /\ Wrap(t.in + Pos(v)) \in {t.in + Pos(v), -Half}
           /\ Wrap(t.out + Neg(v)) = t.out + Neg(v) \/ Wrap(t.out + Neg(v)) > 0
<1>1. Half \in Nat \ {0} /\ (v # 0 => Half > 1) /\ v \in {-1, 0, 1}
  BY TallyAssumption, StepType
<1>2. t.in \in 0 .. Half - 1 /\ t.out \in -Half .. 0
  BY DEF Tallies
<1> HIDE DEF Half
<1>3. t.in + Pos(v) = Half \/ t.in + Pos(v) \in -Half .. Half - 1
  BY <1>1, <1>2 DEF Pos
<1>4. (t.out + Neg(v) = -Half - 1 /\ Half > 1) \/ t.out + Neg(v) \in -Half .. Half - 1
  BY <1>1, <1>2 DEF Neg
<1>5. Half - 1 > 0 \/ ~(Half > 1)
  BY <1>1
<1> QED BY <1>3, <1>4, <1>5, WrapSame, WrapOver, WrapUnder

(* One in or out leaves flows that balance balanced.                        *)
LEMMA StepBalances ==
    ASSUME NEW t \in Tallies, NEW v \in Steps, Balanced(t)
    PROVE  Balanced(Restarted(Credited(t, Pos(v), Neg(v), v), Wrap(t.net + v)))
<1> DEFINE i == Wrap(t.in + Pos(v))
           o == Wrap(t.out + Neg(v))
           x == Wrap(t.net + v)
<1>1. Half \in Nat \ {0} /\ v \in {-1, 0, 1}
  BY TallyAssumption, StepType
<1>2. t.in \in 0 .. Half - 1 /\ t.out \in -Half .. 0 /\ t.net = t.in + t.out
  BY DEF Tallies, Balanced
<1> HIDE DEF Half
<1>3. Pos(v) \in {0, 1} /\ Neg(v) \in {-1, 0} /\ Pos(v) + Neg(v) = v
  BY <1>1 DEF Pos, Neg
<1>4. i \in -Half .. Half - 1 /\ o \in -Half .. Half - 1 /\ x \in -Half .. Half - 1
  BY <1>1, <1>2, <1>3, WrapType
<1>5. i \in {t.in + Pos(v), -Half} /\ (o = t.out + Neg(v) \/ o > 0)
  BY StepWraps
<1>6. Wrap(t.net + v) = t.net + v \/ ~(t.net + v \in -Half .. Half - 1)
  BY WrapSame
<1> HIDE DEF i, o, x
<1>7. i >= 0 /\ o <= 0 => i + o = x
  <2> SUFFICES ASSUME i >= 0, o <= 0 PROVE i + o = x
    OBVIOUS
  <2>1. i = t.in + Pos(v) /\ o = t.out + Neg(v)
    BY <1>1, <1>4, <1>5
  <2>2. t.net + v = i + o
    BY <1>1, <1>2, <1>3, <2>1
  <2>3. i + o \in -Half .. Half - 1
    BY <1>1, <1>4
  <2> QED BY <1>6, <2>2, <2>3 DEF x
<1> QED BY <1>4, <1>7, RestartedBalances DEF Credited, i, o, x

(* Credited flows, started again if they overflowed, are flows.             *)
LEMMA CreditedType ==
    ASSUME NEW t \in Tallies, NEW in \in Int, NEW out \in Int, NEW v \in Int
    PROVE  /\ Restarted(Credited(t, in, out, v), Wrap(t.net + v)) \in Tallies
           /\ Restarted(Credited(t, in, out, v), Wrap(t.net + v)).net = Wrap(t.net + v)
<1>1. Half \in Nat \ {0}
  BY TallyAssumption
<1>2. t.in \in Int /\ t.out \in Int /\ t.net \in Int
  BY <1>1 DEF Tallies
<1>3. t.in + in \in Int /\ t.out + out \in Int /\ t.net + v \in Int
  BY <1>2
<1>4. /\ Wrap(t.in + in) \in -Half .. Half - 1
      /\ Wrap(t.out + out) \in -Half .. Half - 1
      /\ Wrap(t.net + v) \in -Half .. Half - 1
  BY <1>3, WrapType
<1> QED BY <1>4, RestartedType DEF Credited

(* The tally of what was never heard of.                                    *)
LEMMA ZeroType == Zero \in GateTallies
BY TallyAssumption DEF Zero, GateTallies, Tallies, Balanced

(* What a map over some of the gates has.                                   *)
LEMMA MapHas ==
    ASSUME NEW S, NEW f \in GateMaps(S)
    PROVE  /\ DOMAIN f \in SUBSET Gates /\ IsFiniteSet(DOMAIN f)
           /\ \A g \in DOMAIN f : f[g] \in S
           /\ f = [g \in DOMAIN f |-> f[g]]
BY TallyAssumption, FS_Subset DEF GateMaps

(* A map over some of the gates.                                            *)
LEMMA MapOf ==
    ASSUME NEW S, NEW D \in SUBSET Gates, NEW f, f = [g \in D |-> f[g]],
           \A g \in D : f[g] \in S
    PROVE  f \in GateMaps(S)
BY DEF GateMaps

(* A gate's tally before, and after its variation.                          *)
LEMMA BeforeType ==
    ASSUME NEW old \in GateMaps(GateTallies), NEW g
    PROVE  Before(old, g) \in GateTallies
BY MapHas, ZeroType DEF Before

(* And after it: it balances, and its net flow is the sum, if it fits.      *)
LEMMA GateTallyType ==
    ASSUME NEW old \in GateMaps(GateTallies), NEW g, NEW v \in Steps
    PROVE  /\ GateTally(old, g, v) \in GateTallies
           /\ GateTally(old, g, v).net = Wrap(Before(old, g).net + v)
<1> DEFINE b == Before(old, g)
<1>1. b \in Tallies /\ Balanced(b) /\ v \in Int
  BY BeforeType, StepType DEF GateTallies
<1>2. GateTally(old, g, v) = Restarted(Credited(b, Pos(v), Neg(v), v), Wrap(b.net + v))
  BY <1>1, MaxIsPos, MinIsNeg DEF GateTally, Credited
<1>3. Pos(v) \in Int /\ Neg(v) \in Int
  BY <1>1, MaxIsPos, MinIsNeg
<1> HIDE DEF b
<1>4. /\ GateTally(old, g, v) \in Tallies
      /\ GateTally(old, g, v).net = Wrap(b.net + v)
  BY <1>1, <1>2, <1>3, CreditedType
<1>5. Balanced(GateTally(old, g, v))
  BY <1>1, <1>2, StepBalances
<1> QED BY <1>4, <1>5 DEF GateTallies, b

(* What the flows of an entry add up to.                                    *)
LEMMA FlowsType ==
    ASSUME NEW state \in States
    PROVE  Ins(state.flows) \in Int /\ Outs(state.flows) \in Int
<1> DEFINE D == DOMAIN state.flows
           i == [g \in D |-> Max({state.flows[g], 0})]
           o == [g \in D |-> Min({state.flows[g], 0})]
<1>1. state.flows \in GateMaps(Steps)
  BY DEF States
<1>2. IsFiniteSet(D) /\ \A g \in D : state.flows[g] \in Int
  BY <1>1, MapHas, StepType
<1>3. \A g \in D : i[g] \in Int /\ o[g] \in Int
  BY <1>2, MaxIsPos, MinIsNeg
<1>4. SumFunctionOnSet(i, D) \in Int /\ SumFunctionOnSet(o, D) \in Int
  BY <1>2, <1>3, SumType
<1> QED BY <1>4 DEF Ins, Outs, SumFunction

(* One that varies at one gate comes in, goes out and nets that much.       *)
LEMMA OneGateFlows ==
    ASSUME NEW state \in States, AtOneGate(state)
    PROVE  /\ Ins(state.flows) = Pos(state.variation)
           /\ Outs(state.flows) = Neg(state.variation)
           /\ SumFunctionOnSet(state.flows, DOMAIN state.flows) = state.variation
<1> DEFINE D == DOMAIN state.flows
           i == [g \in D |-> Max({state.flows[g], 0})]
           o == [g \in D |-> Min({state.flows[g], 0})]
           Sums3(a, b, c) == /\ SumFunctionOnSet(i, D) = a
                             /\ SumFunctionOnSet(o, D) = b
                             /\ SumFunctionOnSet(state.flows, D) = c
<1>1. state.flows \in GateMaps(Steps) /\ state.variation \in Int
  BY StepType DEF States
<1>2. IsFiniteSet(D) /\ \A g \in D : state.flows[g] \in Int
  BY <1>1, MapHas, StepType
<1>3. \A g \in D : i[g] = Pos(state.flows[g]) /\ o[g] = Neg(state.flows[g])
  BY <1>2, MaxIsPos, MinIsNeg
<1>4. Pos(0) = 0 /\ Neg(0) = 0
  BY DEF Pos, Neg
<1> HIDE DEF i, o
<1>5. CASE state.variation = 0 /\ \A g \in D : state.flows[g] = 0
  <2>1. \A g \in D : i[g] = 0 /\ o[g] = 0
    BY <1>3, <1>4, <1>5
  <2>2. Sums3(0, 0, 0)
    BY <1>2, <1>5, <2>1, SumZero
  <2> QED BY <1>4, <1>5, <2>2 DEF Ins, Outs, SumFunction, i, o
<1>6. CASE \E g \in D : /\ state.flows[g] = state.variation
                        /\ \A h \in D \ {g} : state.flows[h] = 0
  <2>1. PICK g \in D : /\ state.flows[g] = state.variation
                       /\ \A h \in D \ {g} : state.flows[h] = 0
    BY <1>6
  <2>2. \A h \in D \ {g} : i[h] = 0 /\ o[h] = 0
    BY <1>3, <1>4, <2>1
  <2>3. i[g] \in Int /\ o[g] \in Int /\ state.flows[g] \in Int
    BY <1>2, <1>3, MaxIsPos, MinIsNeg
  <2>4. Sums3(i[g], o[g], state.flows[g])
    BY <1>2, <2>1, <2>2, <2>3, SumOne
  <2> QED BY <1>3, <2>1, <2>4 DEF Ins, Outs, SumFunction, i, o
<1> QED BY <1>5, <1>6 DEF AtOneGate

(* What the register of a space adds up to.                                 *)
LEMMA RegisterType ==
    ASSUME NEW register \in [Entries -> States]
    PROVE  AllIns(register) \in Int /\ AllOuts(register) \in Int /\ Variation(register) \in Int
<1> DEFINE i == [e \in Entries |-> Ins(register[e].flows)]
           o == [e \in Entries |-> Outs(register[e].flows)]
           v == [e \in Entries |-> register[e].variation]
<1>1. \A e \in Entries : i[e] \in Int /\ o[e] \in Int /\ v[e] \in Int
  <2> TAKE e \in Entries
  <2>1. register[e] \in States
    OBVIOUS
  <2>2. register[e].variation \in Steps
    BY <2>1 DEF States
  <2> QED BY <2>1, <2>2, FlowsType, StepType
<1>2. IsFiniteSet(Entries)
  BY TallyAssumption
<1>3. /\ SumFunctionOnSet(i, Entries) \in Int
      /\ SumFunctionOnSet(o, Entries) \in Int
      /\ SumFunctionOnSet(v, Entries) \in Int
  BY <1>1, <1>2, SumType
<1> QED BY <1>3 DEF AllIns, AllOuts, Variation, SumFunction

(* If one entry varies, so does the register.                               *)
LEMMA OneEntryTotals ==
    ASSUME NEW register \in [Entries -> States], OneEntry(register),
           \A e \in Entries : AtOneGate(register[e])
    PROVE  /\ Variation(register) \in Steps
           /\ AllIns(register) = Pos(Variation(register))
           /\ AllOuts(register) = Neg(Variation(register))
           /\ \A e \in Entries : register[e].variation # 0 =>
                Variation(register) = register[e].variation
           /\ (\A e \in Entries : register[e].variation = 0) => Variation(register) = 0
<1> DEFINE i == [e \in Entries |-> Ins(register[e].flows)]
           o == [e \in Entries |-> Outs(register[e].flows)]
           v == [e \in Entries |-> register[e].variation]
           Sums3(a, b, c) == /\ SumFunctionOnSet(i, Entries) = a
                             /\ SumFunctionOnSet(o, Entries) = b
                             /\ SumFunctionOnSet(v, Entries) = c
<1>1. \A e \in Entries : /\ v[e] \in Steps /\ v[e] \in Int
                         /\ i[e] = Pos(v[e]) /\ o[e] = Neg(v[e])
  <2> TAKE e \in Entries
  <2>1. register[e] \in States /\ AtOneGate(register[e])
    OBVIOUS
  <2>2. register[e].variation \in Steps
    BY <2>1 DEF States
  <2> QED BY <2>1, <2>2, OneGateFlows, StepType
<1>2. IsFiniteSet(Entries)
  BY TallyAssumption
<1>3. Pos(0) = 0 /\ Neg(0) = 0 /\ 0 \in Steps
  BY TallyAssumption DEF Pos, Neg, Steps, Flows
<1>4. AllIns(register) = SumFunctionOnSet(i, Entries)
      /\ AllOuts(register) = SumFunctionOnSet(o, Entries)
      /\ Variation(register) = SumFunctionOnSet(v, Entries)
  BY DEF AllIns, AllOuts, Variation, SumFunction
<1>5. \A e \in Entries : v[e] = register[e].variation
  OBVIOUS
<1> HIDE DEF i, o, v
<1>6. CASE \A e \in Entries : v[e] = 0
  <2>1. \A e \in Entries : i[e] = 0 /\ o[e] = 0
    BY <1>1, <1>3, <1>6
  <2>2. Sums3(0, 0, 0)
    BY <1>2, <1>6, <2>1, SumZero
  <2> QED BY <1>3, <1>4, <1>5, <1>6, <2>2
<1>7. CASE \E e \in Entries : v[e] # 0
  <2>1. PICK e \in Entries : v[e] # 0
    BY <1>7
  <2>2. \A f \in Entries \ {e} : v[f] = 0
    BY <1>5, <2>1 DEF OneEntry
  <2>3. \A f \in Entries \ {e} : i[f] = 0 /\ o[f] = 0
    BY <1>1, <1>3, <2>2
  <2>4. i[e] \in Int /\ o[e] \in Int /\ v[e] \in Int
    BY <1>1, MaxIsPos, MinIsNeg
  <2>5. Sums3(i[e], o[e], v[e])
    BY <1>2, <2>2, <2>3, <2>4, SumOne
  <2> QED BY <1>1, <1>4, <1>5, <2>1, <2>2, <2>5
<1> QED BY <1>6, <1>7

(* What an entry's tally becomes.                                           *)
LEMMA EntryTallyType ==
    ASSUME NEW old \in EntryTallies, NEW state \in States
    PROVE  /\ EntryTally(old, state) \in EntryTallies
           /\ EntryTally(old, state).own.net = Wrap(old.own.net + state.variation)
           /\ EntryTally(old, state).gate =
                [g \in DOMAIN state.flows |-> GateTally(old.gate, g, state.flows[g])]
<1> DEFINE own == Restarted(Credited(old.own, Ins(state.flows), Outs(state.flows), state.variation),
                            Wrap(old.own.net + state.variation))
           gate == [g \in DOMAIN state.flows |-> GateTally(old.gate, g, state.flows[g])]
<1>1. EntryTally(old, state) = [own |-> own, gate |-> gate]
  BY DEF EntryTally, Credited
<1>2. /\ old.own \in Tallies /\ old.gate \in GateMaps(GateTallies)
      /\ state.variation \in Steps /\ state.flows \in GateMaps(Steps)
  BY DEF EntryTallies, States
<1>3. Ins(state.flows) \in Int /\ Outs(state.flows) \in Int /\ state.variation \in Int
  BY <1>2, FlowsType, StepType
<1>4. own \in Tallies /\ own.net = Wrap(old.own.net + state.variation)
  BY <1>2, <1>3, CreditedType
<1>5. gate \in GateMaps(GateTallies)
  <2>1. /\ DOMAIN state.flows \in SUBSET Gates
        /\ \A g \in DOMAIN state.flows : state.flows[g] \in Steps
    BY <1>2, MapHas
  <2>2. \A g \in DOMAIN state.flows : gate[g] \in GateTallies
    BY <1>2, <2>1, GateTallyType
  <2>3. gate = [g \in DOMAIN state.flows |-> gate[g]]
    OBVIOUS
  <2> HIDE DEF gate
  <2> QED BY <2>1, <2>2, <2>3, MapOf
<1> HIDE DEF own, gate
<1>6. EntryTally(old, state) \in EntryTallies
  BY <1>1, <1>4, <1>5 DEF EntryTallies
<1> QED BY <1>1, <1>4, <1>6 DEF gate

(* It balances if the entry varied at one gate and balanced before.         *)
LEMMA EntryTallyBalances ==
    ASSUME NEW old \in EntryTallies, NEW state \in States, AtOneGate(state),
           Balanced(old.own)
    PROVE  Balanced(EntryTally(old, state).own)
<1>1. old.own \in Tallies /\ state.variation \in Steps
  BY DEF EntryTallies, States
<1>2. EntryTally(old, state).own =
        Restarted(Credited(old.own, Pos(state.variation), Neg(state.variation), state.variation),
                  Wrap(old.own.net + state.variation))
  BY OneGateFlows DEF EntryTally, Credited
<1> QED BY <1>1, <1>2, StepBalances

(* An entry whose net flow is that of its gates stays so, if neither leaves *)
(* the range of the integers, and no gate is dropped.                       *)
LEMMA EntryTallyIsItsGates ==
    ASSUME NEW old \in EntryTallies, NEW state \in States, AtOneGate(state),
           DOMAIN old.gate \in {{}, DOMAIN state.flows},
           old.own.net = NetOf(old.gate),
           old.own.net + state.variation \in Flows,
           \A g \in DOMAIN state.flows : Before(old.gate, g).net + state.flows[g] \in Flows
    PROVE  EntryTally(old, state).own.net = NetOf(EntryTally(old, state).gate)
<1> DEFINE D == DOMAIN state.flows
           b == [g \in D |-> Before(old.gate, g).net]
           n == [g \in D |-> EntryTally(old, state).gate[g].net]
<1>1. /\ old.own \in Tallies /\ old.gate \in GateMaps(GateTallies)
      /\ state.variation \in Steps /\ state.flows \in GateMaps(Steps)
  BY DEF EntryTallies, States
<1>2. IsFiniteSet(D) /\ \A g \in D : state.flows[g] \in Steps /\ state.flows[g] \in Int
  BY <1>1, MapHas, StepType
<1>3. \A k \in Flows : k \in Int /\ Wrap(k) = k
  <2>1. \A k \in Flows : k \in -Half .. Half - 1 /\ k \in Int
    BY TallyAssumption DEF Flows
  <2> QED BY <2>1, WrapSame
<1>4. \A g \in D : b[g] \in Int
  <2> TAKE g \in D
  <2>1. Before(old.gate, g) \in Tallies
    BY <1>1, BeforeType DEF GateTallies
  <2> QED BY <2>1, TallyAssumption DEF Tallies
<1>5. \A g \in D : n[g] = b[g] + state.flows[g]
  <2> TAKE g \in D
  <2>1. EntryTally(old, state).gate[g] = GateTally(old.gate, g, state.flows[g])
    BY EntryTallyType
  <2>2. n[g] = Wrap(b[g] + state.flows[g])
    BY <1>1, <1>2, <2>1, GateTallyType
  <2> QED BY <1>3, <2>2
<1>6. SumFunctionOnSet(b, D) = NetOf(old.gate)
  <2>1. CASE DOMAIN old.gate = D
    <3>1. b = [g \in DOMAIN old.gate |-> old.gate[g].net]
      BY <2>1 DEF Before
    <3> QED BY <2>1, <3>1 DEF NetOf, SumFunction
  <2>2. CASE DOMAIN old.gate = {}
    <3>1. \A g \in D : b[g] = 0
      BY <2>2 DEF Before, Zero
    <3>2. SumFunctionOnSet(b, D) = 0
      BY <1>2, <3>1, SumZero
    <3>3. NetOf(old.gate) = 0
      BY <2>2, SumEmpty DEF NetOf, SumFunction
    <3> QED BY <3>2, <3>3
  <2> QED BY <2>1, <2>2
<1>7. SumFunctionOnSet(state.flows, D) = state.variation
  BY OneGateFlows
<1>8. NetOf(EntryTally(old, state).gate) = SumFunctionOnSet(n, D)
  <2>1. EntryTally(old, state).gate =
            [g \in D |-> GateTally(old.gate, g, state.flows[g])]
    BY EntryTallyType, Zenon
  <2>2. DOMAIN EntryTally(old, state).gate = D
    BY <2>1
  <2> QED BY <2>2 DEF NetOf, SumFunction
<1> HIDE DEF n, b
<1>9. SumFunctionOnSet(n, D) = SumFunctionOnSet(b, D) + SumFunctionOnSet(state.flows, D)
  BY <1>2, <1>4, <1>5, SumAdd
<1>10. EntryTally(old, state).own.net = old.own.net + state.variation
  BY <1>3, EntryTallyType
<1> QED BY <1>6, <1>7, <1>8, <1>9, <1>10

(* What the tally of the space becomes.                                     *)
LEMMA SpaceTallyType ==
    ASSUME NEW old \in Tallies, NEW n \in Flows, NEW register \in [Entries -> States]
    PROVE  SpaceTally(old, n, register) \in Tallies
<1>1. Half \in Nat \ {0} /\ n \in -Half .. Half - 1
  BY TallyAssumption DEF Flows
<1>2. old.in + AllIns(register) \in Int /\ old.out + AllOuts(register) \in Int
  BY <1>1, RegisterType DEF Tallies
<1>3. /\ Wrap(old.in + AllIns(register)) \in -Half .. Half - 1
      /\ Wrap(old.out + AllOuts(register)) \in -Half .. Half - 1
  BY <1>2, WrapType
<1> QED BY <1>1, <1>3, RestartedType DEF SpaceTally

(* It explains its count up to the variation, or starts again from it.      *)
LEMMA SpaceTallyExplains ==
    ASSUME NEW register \in [Entries -> States], OneEntry(register),
           \A e \in Entries : AtOneGate(register[e]),
           snapshot.own \in Tallies, NEW n \in Flows
    PROVE  SpaceTally(snapshot.own, n, register).in + SpaceTally(snapshot.own, n, register).out =
             IF Restarts(register) THEN n
             ELSE snapshot.own.in + snapshot.own.out + Variation(register)
<1> DEFINE t == snapshot.own
           v == Variation(register)
           i == Wrap(t.in + Pos(v))
           o == Wrap(t.out + Neg(v))
<1>1. v \in Steps /\ AllIns(register) = Pos(v) /\ AllOuts(register) = Neg(v)
  BY OneEntryTotals
<1>2. SpaceTally(t, n, register) = Restarted([in |-> i, out |-> o, net |-> n], n)
  BY <1>1 DEF SpaceTally
<1>3. Restarts(register) <=> i < 0 \/ o > 0
  BY <1>1 DEF Restarts
<1>4. i \in {t.in + Pos(v), -Half} /\ (o = t.out + Neg(v) \/ o > 0)
  BY <1>1, StepWraps
<1>5. n \in Int /\ Half \in Nat \ {0} /\ v \in Int
  BY <1>1, TallyAssumption, StepType DEF Flows
<1>6. /\ t.in \in Int /\ t.out \in Int
      /\ Pos(v) \in Int /\ Neg(v) \in Int /\ Pos(v) + Neg(v) = v
  <2>1. t.in \in 0 .. Half - 1 /\ t.out \in -Half .. 0
    BY DEF Tallies
  <2>2. t.in \in Int /\ t.out \in Int
    BY <1>5, <2>1
  <2> QED BY <1>5, <2>2, MaxIsPos, MinIsNeg
<1>7. i \in Int /\ o \in Int
  <2>1. t.in + Pos(v) \in Int /\ t.out + Neg(v) \in Int
    BY <1>6
  <2>2. i \in -Half .. Half - 1 /\ o \in -Half .. Half - 1
    BY <2>1, WrapType
  <2> QED BY <1>5, <2>2
<1> HIDE DEF i, o, v, t
<1>8. CASE i < 0 \/ o > 0
  <2>1. Restarted([in |-> i, out |-> o, net |-> n], n) = [in |-> Pos(n), out |-> Neg(n), net |-> n]
    BY <1>5, <1>7, <1>8, MaxIsPos, MinIsNeg DEF Restarted
  <2>2. Pos(n) + Neg(n) = n
    BY <1>5, MinIsNeg
  <2> QED BY <1>2, <1>3, <1>8, <2>1, <2>2 DEF t
<1>9. CASE ~(i < 0 \/ o > 0)
  <2>1. i = t.in + Pos(v) /\ o = t.out + Neg(v)
    BY <1>4, <1>5, <1>9
  <2>2. Restarted([in |-> i, out |-> o, net |-> n], n) = [in |-> i, out |-> o, net |-> n]
    BY <1>7, <1>9 DEF Restarted
  <2>3. \A a, b, c, d \in Int : (a + c) + (b + d) = a + b + (c + d)
    OBVIOUS
  <2>4. (t.in + Pos(v)) + (t.out + Neg(v)) = t.in + t.out + (Pos(v) + Neg(v))
    BY <1>6, <2>3
  <2>5. i + o = t.in + t.out + v
    BY <1>6, <2>1, <2>4, Zenon
  <2> QED BY <1>2, <1>3, <1>9, <2>2, <2>5 DEF t, v
<1> QED BY <1>8, <1>9

(* What the snapshot becomes.                                               *)
LEMMA AccumulatedType ==
    ASSUME NEW s \in Snapshots, NEW n \in Flows, NEW register \in [Entries -> States]
    PROVE  Accumulated(s, n, register) \in Snapshots
<1>1. s.own \in Tallies /\ \A e \in Entries : s.entry[e] \in EntryTallies
  BY DEF Snapshots
<1>2. SpaceTally(s.own, n, register) \in Tallies
  BY <1>1, SpaceTallyType
<1>3. \A e \in Entries : EntryTally(s.entry[e], register[e]) \in EntryTallies
  BY <1>1, EntryTallyType
<1> QED BY <1>2, <1>3 DEF Accumulated, Snapshots

(* The empty register, and the snapshot a reset leaves.                     *)
LEMMA EmptiedRegister ==
    /\ Emptied \in [Entries -> States] /\ OneEntry(Emptied)
    /\ \A e \in Entries : AtOneGate(Emptied[e]) /\ DOMAIN Emptied[e].flows = {}
    /\ Variation(Emptied) = 0
<1>1. 0 \in Steps
  BY TallyAssumption DEF Steps, Flows
<1>2. \A S : NoGates \in GateMaps(S) /\ DOMAIN NoGates = {}
  BY DEF NoGates, GateMaps
<1>3. Emptied \in [Entries -> States] /\ OneEntry(Emptied)
  BY <1>1, <1>2 DEF Emptied, States, OneEntry
<1>4. \A e \in Entries : AtOneGate(Emptied[e]) /\ DOMAIN Emptied[e].flows = {}
  BY <1>2 DEF Emptied, AtOneGate
<1>5. \A e \in Entries : Emptied[e].variation = 0
  BY DEF Emptied
<1> QED BY <1>3, <1>4, <1>5, OneEntryTotals

(* The snapshot before there is any.                                        *)
LEMMA BlankSnapshot ==
    /\ Blank \in Snapshots /\ Blank.own.in = 0 /\ Blank.own.out = 0
    /\ \A e \in Entries : /\ Blank.entry[e] \in EntryTallies
                          /\ Blank.entry[e].own = Zero
                          /\ Blank.entry[e].gate = NoGates
                          /\ Blank.entry[e].own.net = NetOf(Blank.entry[e].gate)
<1>1. NoGates \in GateMaps(GateTallies) /\ DOMAIN NoGates = {}
  BY DEF NoGates, GateMaps
<1>2. Zero \in Tallies
  BY ZeroType DEF GateTallies
<1>3. NetOf(NoGates) = 0
  BY <1>1, SumEmpty DEF NetOf, SumFunction
<1>4. Blank \in Snapshots
  BY <1>1, <1>2 DEF Blank, Snapshots, EntryTallies
<1> QED BY <1>1, <1>2, <1>3, <1>4 DEF Blank, EntryTallies, Zero

(* What a reset makes of it.                                                *)
LEMMA Cleared ==
    /\ ClearedSnapshot \in Snapshots
    /\ ClearedSnapshot.own.in + ClearedSnapshot.own.out = 0
    /\ \A e \in Entries : /\ ClearedSnapshot.entry[e].own.net = 0
                          /\ Balanced(ClearedSnapshot.entry[e].own)
                          /\ DOMAIN ClearedSnapshot.entry[e].gate = {}
                          /\ ClearedSnapshot.entry[e].own.net = NetOf(ClearedSnapshot.entry[e].gate)
<1>1. 0 \in Flows /\ 0 \in -Half .. Half - 1
  BY TallyAssumption DEF Flows
<1>2. ClearedSnapshot \in Snapshots
  BY <1>1, BlankSnapshot, EmptiedRegister, AccumulatedType DEF ClearedSnapshot
<1>3. ClearedSnapshot.own.in + ClearedSnapshot.own.out = 0
  <2>1. AllIns(Emptied) = 0 /\ AllOuts(Emptied) = 0
    BY EmptiedRegister, OneEntryTotals DEF Pos, Neg
  <2>2. ClearedSnapshot.own = Restarted([in |-> 0, out |-> 0, net |-> 0], 0)
    BY <1>1, <2>1, BlankSnapshot, WrapSame DEF ClearedSnapshot, Accumulated, SpaceTally
  <2>3. ClearedSnapshot.own = [in |-> 0, out |-> 0, net |-> 0]
    BY <2>2 DEF Restarted
  <2> QED BY <2>3
<1>4. \A e \in Entries : ClearedSnapshot.entry[e] = EntryTally(Blank.entry[e], Emptied[e])
  BY DEF ClearedSnapshot, Accumulated
<1>5. \A e \in Entries : /\ Emptied[e] \in States
                         /\ Emptied[e].variation = 0 /\ Emptied[e].flows = NoGates
  BY EmptiedRegister DEF Emptied
<1>6. ASSUME NEW e \in Entries
      PROVE  /\ ClearedSnapshot.entry[e].own.net = 0
             /\ Balanced(ClearedSnapshot.entry[e].own)
             /\ DOMAIN ClearedSnapshot.entry[e].gate = {}
             /\ ClearedSnapshot.entry[e].own.net = NetOf(ClearedSnapshot.entry[e].gate)
  <2>1. /\ Blank.entry[e] \in EntryTallies /\ Emptied[e] \in States /\ AtOneGate(Emptied[e])
        /\ DOMAIN Emptied[e].flows = {} /\ Blank.entry[e].own = Zero
        /\ Blank.entry[e].own.net + Emptied[e].variation = 0
        /\ Emptied[e].variation = 0
    BY <1>5, BlankSnapshot, EmptiedRegister DEF Zero
  <2>2. Wrap(0) = 0
    BY <1>1, WrapSame
  <2>3. ClearedSnapshot.entry[e].own.net = 0 /\ DOMAIN ClearedSnapshot.entry[e].gate = {}
    BY <1>4, <2>1, <2>2, EntryTallyType
  <2>4. Balanced(Zero)
    BY ZeroType DEF GateTallies
  <2>5. Balanced(ClearedSnapshot.entry[e].own)
    BY <1>4, <2>1, <2>4, EntryTallyBalances
  <2>6. NetOf(ClearedSnapshot.entry[e].gate) = 0
    BY <2>3, SumEmpty DEF NetOf, SumFunction
  <2> QED BY <2>3, <2>5, <2>6
<1> QED BY <1>2, <1>3, <1>6

(* A crossing, corrected, is at one gate of one entry.                      *)
LEMMA CorrectedStep ==
    ASSUME TypeOK, NEW v \in {-1, 1}, count + v \in Flows
    PROVE  /\ Corrected(v) \in Steps /\ Corrected(v) \in {0, v} /\ v \in Steps
           /\ count + Corrected(v) \in Flows
           /\ ~AcceptNegatives => count + Corrected(v) >= 0
<1>1. MaxFlow \in Nat /\ count \in -MaxFlow .. MaxFlow /\ count + v \in -MaxFlow .. MaxFlow
  BY TallyAssumption DEF Flows, TypeOK
<1>2. v \in -MaxFlow .. MaxFlow /\ 0 \in -MaxFlow .. MaxFlow
  BY <1>1
<1>3. CASE ~AcceptNegatives /\ count + v < 0
  <2>1. count >= 0
    BY <1>3 DEF TypeOK
  <2>2. count = 0 /\ Corrected(v) = 0
    BY <1>1, <1>3, <2>1 DEF Corrected
  <2> QED BY <1>1, <1>2, <2>2 DEF Steps, Flows
<1>4. CASE ~(~AcceptNegatives /\ count + v < 0)
  <2>1. Corrected(v) = v
    BY <1>4 DEF Corrected
  <2>2. ~AcceptNegatives => count + v >= 0
    BY <1>1, <1>4
  <2> QED BY <1>1, <1>2, <2>1, <2>2 DEF Steps, Flows
<1> QED BY <1>3, <1>4

(* The register it leaves shows this crossing and no other.                 *)
LEMMA CrossedTellsOne ==
    ASSUME TypeOK, TellsOneCrossing, NEW e \in Entries, NEW g \in GatesOf[e], NEW c \in Steps
    PROVE  /\ Crossed(e, g, c) \in [Entries -> States]
           /\ OneEntry(Crossed(e, g, c)) /\ Variation(Crossed(e, g, c)) = c
           /\ \A f \in Entries :
                /\ AtOneGate(Crossed(e, g, c)[f])
                /\ DOMAIN Crossed(e, g, c)[f].flows \in {{}, GatesOf[f]}
                /\ DOMAIN shown[f].flows \in {{}, DOMAIN Crossed(e, g, c)[f].flows}
                /\ f # e => Crossed(e, g, c)[f].variation = 0
                /\ \A h \in DOMAIN Crossed(e, g, c)[f].flows :
                    Crossed(e, g, c)[f].flows[h] \in {0, Crossed(e, g, c)[f].variation}
<1> DEFINE r == Crossed(e, g, c)
           at == [h \in GatesOf[e] |-> IF h = g THEN c ELSE 0]
           off(f) == [h \in DOMAIN shown[f].flows |-> 0]
<1>1. r = [f \in Entries |-> IF f = e THEN [variation |-> c, flows |-> at]
                             ELSE [variation |-> 0, flows |-> off(f)]]
  BY DEF Crossed
<1>2. 0 \in Steps /\ GatesOf[e] \in SUBSET Gates
  BY TallyAssumption DEF Steps, Flows
<1>3. at \in GateMaps(Steps)
  BY <1>2 DEF GateMaps
<1>4. \A f \in Entries : DOMAIN shown[f].flows \in SUBSET Gates
  <2> TAKE f \in Entries
  <2>1. shown[f] \in States
    BY DEF TypeOK
  <2>2. shown[f].flows \in GateMaps(Steps)
    BY <2>1 DEF States
  <2> QED BY <2>2, MapHas
<1>5. \A f \in Entries : off(f) \in GateMaps(Steps)
  BY <1>2, <1>4 DEF GateMaps
<1>6. /\ r[e].variation = c /\ r[e].flows = at
      /\ \A f \in Entries \ {e} : r[f].variation = 0 /\ r[f].flows = off(f)
  BY <1>1
<1>7. \A f \in Entries : r[f] \in States
  BY <1>1, <1>2, <1>3, <1>5 DEF States
<1>8. r \in [Entries -> States]
  BY <1>1, <1>7
<1>9. OneEntry(r)
  BY <1>6 DEF OneEntry
<1>10. ASSUME NEW f \in Entries
       PROVE  /\ AtOneGate(r[f])
              /\ DOMAIN r[f].flows \in {{}, GatesOf[f]}
              /\ DOMAIN shown[f].flows \in {{}, DOMAIN r[f].flows}
              /\ \A h \in DOMAIN r[f].flows : r[f].flows[h] \in {0, r[f].variation}
  <2>1. DOMAIN shown[f].flows \in {{}, GatesOf[f]}
    BY DEF TellsOneCrossing
  <2>2. CASE f = e
    <3>1. DOMAIN at = GatesOf[e] /\ at[g] = c /\ \A h \in DOMAIN at \ {g} : at[h] = 0
      OBVIOUS
    <3> HIDE DEF at, r
    <3> QED BY <1>6, <2>1, <2>2, <3>1 DEF AtOneGate
  <2>3. CASE f # e
    <3>1. DOMAIN off(f) = DOMAIN shown[f].flows /\ \A h \in DOMAIN off(f) : off(f)[h] = 0
      OBVIOUS
    <3> HIDE DEF off, r
    <3> QED BY <1>6, <2>1, <2>3, <3>1 DEF AtOneGate
  <2> QED BY <2>2, <2>3
<1> HIDE DEF r
<1>11. Variation(r) = c
  <2>1. (\A f \in Entries : r[f].variation = 0) => Variation(r) = 0
    BY <1>8, <1>9, <1>10, OneEntryTotals
  <2>2. r[e].variation # 0 => Variation(r) = r[e].variation
    BY <1>8, <1>9, <1>10, OneEntryTotals
  <2> QED BY <1>6, <2>1, <2>2
<1> QED BY <1>6, <1>8, <1>9, <1>10, <1>11 DEF r

(* The space updates its register.                                          *)
LEMMA UpdateKeeps ==
    ASSUME TallyInv, NEW e \in Entries, NEW g \in Gates, NEW v \in {-1, 1}, Update(e, g, v)
    PROVE  /\ ~rushed /\ offer = "nothing" /\ offer' = "register"
           /\ count' \in Flows /\ (~AcceptNegatives => count' >= 0)
           /\ shown' \in [Entries -> States]
           /\ TellsOneCrossing'
           /\ count' = count + Variation(shown')
           /\ \A f \in Entries : DOMAIN shown[f].flows \in {{}, DOMAIN shown'[f].flows}
           /\ \A f \in Entries :
                /\ snapshot.entry[f].own.net + shown'[f].variation \in Flows
                /\ \A h \in DOMAIN shown'[f].flows :
                    Before(snapshot.entry[f].gate, h).net + shown'[f].flows[h] \in Flows
<1> DEFINE c == Corrected(v)
<1>1. /\ TypeOK /\ TellsOneCrossing /\ ~rushed /\ NetsInBounds
      /\ offer = "nothing" /\ g \in GatesOf[e] /\ count + v \in Flows
      /\ count' = count + c /\ shown' = Crossed(e, g, c) /\ offer' = "register"
  BY DEF TallyInv, Update, InBounds
<1>2. /\ c \in Steps /\ c \in {0, v} /\ v \in Steps
      /\ count + c \in Flows /\ (~AcceptNegatives => count + c >= 0)
  BY <1>1, CorrectedStep
<1> HIDE DEF c
<1>3. /\ shown' \in [Entries -> States] /\ OneEntry(shown') /\ Variation(shown') = c
      /\ \A f \in Entries :
           /\ AtOneGate(shown'[f])
           /\ DOMAIN shown'[f].flows \in {{}, GatesOf[f]}
           /\ DOMAIN shown[f].flows \in {{}, DOMAIN shown'[f].flows}
           /\ f # e => shown'[f].variation = 0
           /\ \A h \in DOMAIN shown'[f].flows : shown'[f].flows[h] \in {0, shown'[f].variation}
  BY <1>1, <1>2, CrossedTellsOne
<1>4. TellsOneCrossing'
  BY <1>3 DEF TellsOneCrossing
<1>5. shown'[e].variation = c
  BY <1>1 DEF Crossed
<1>6. 0 \in Flows /\ v \in Flows /\ \A k \in Flows : k \in Int /\ k + 0 = k /\ 0 + k = k
  BY <1>2, TallyAssumption, StepType DEF Flows
<1>7. ASSUME NEW f \in Entries
      PROVE  /\ snapshot.entry[f].own.net + shown'[f].variation \in Flows
             /\ \A h \in DOMAIN shown'[f].flows :
                 Before(snapshot.entry[f].gate, h).net + shown'[f].flows[h] \in Flows
  <2>1. shown'[f].variation \in {0, v}
    BY <1>2, <1>3, <1>5
  <2>2. /\ snapshot.entry[f].own.net \in Flows
        /\ \A t \in Range(snapshot.entry[f].gate) : t.net \in Flows
    BY <1>1 DEF NetsInBounds
  <2>3. /\ snapshot.entry[f].own.net + v \in Flows
        /\ \A t \in Range(snapshot.entry[f].gate) : t.net + v \in Flows
    BY DEF Update, InBounds
  <2>4. snapshot.entry[f].own.net + shown'[f].variation \in Flows
    BY <1>6, <2>1, <2>2, <2>3
  <2>5. ASSUME NEW h \in DOMAIN shown'[f].flows
        PROVE  Before(snapshot.entry[f].gate, h).net + shown'[f].flows[h] \in Flows
    <3>1. shown'[f].flows[h] \in {0, v}
      BY <1>3, <2>1
    <3>2. CASE h \in DOMAIN snapshot.entry[f].gate
      <4>1. Before(snapshot.entry[f].gate, h) \in Range(snapshot.entry[f].gate)
        BY <3>2 DEF Before, Range
      <4> QED BY <1>6, <2>2, <2>3, <3>1, <4>1
    <3>3. CASE h \notin DOMAIN snapshot.entry[f].gate
      <4>1. Before(snapshot.entry[f].gate, h).net = 0
        BY <3>3 DEF Before, Zero
      <4> QED BY <1>6, <3>1, <4>1
    <3> QED BY <3>2, <3>3
  <2> QED BY <2>4, <2>5
<1> QED BY <1>1, <1>2, <1>3, <1>4, <1>7

(* A copy the space disturbed is still made of variations.                  *)
LEMMA SightsType ==
    ASSUME NEW old \in States, NEW new \in States, NEW s \in Sights(old, new)
    PROVE  s \in States
<1>1. 0 \in Steps
  BY TallyAssumption DEF Steps, Flows
<1>2. DOMAIN old.flows \in SUBSET Gates
  <2>1. old.flows \in GateMaps(Steps)
    BY DEF States
  <2> QED BY <2>1, MapHas
<1>3. [h \in DOMAIN old.flows |-> 0] \in GateMaps(Steps)
  BY <1>1, <1>2 DEF GateMaps
<1>4. /\ old.variation \in Steps /\ new.variation \in Steps
      /\ old.flows \in GateMaps(Steps) /\ new.flows \in GateMaps(Steps)
  BY DEF States
<1> QED BY <1>1, <1>3, <1>4 DEF Sights, States

(* The flows of the space are integers.                                     *)
LEMMA OwnIsInt ==
    ASSUME NEW s \in Snapshots
    PROVE  s.own.in \in Int /\ s.own.out \in Int
<1>1. s.own.in \in 0 .. Half - 1 /\ s.own.out \in -Half .. 0
  BY DEF Snapshots, Tallies
<1> QED BY <1>1, TallyAssumption

(* Bounded flows do not wrap.                                               *)
LEMMA FlowsSame == \A k \in Flows : Wrap(k) = k
<1>1. \A k \in Flows : k \in -Half .. Half - 1
  BY TallyAssumption DEF Flows
<1> QED BY <1>1, WrapSame

(* What is not pending adds nothing.                                        *)
LEMMA OnlyAddsZero ==
    ASSUME TypeOK, CountExplained, ~Pending
    PROVE  snapshot.own.in + snapshot.own.out + adrift = count
<1>1. snapshot.own.in \in Int /\ snapshot.own.out \in Int /\ adrift \in Int
  BY OwnIsInt DEF TypeOK
<1>2. snapshot.own.in + snapshot.own.out + adrift \in Int
  BY <1>1
<1>3. snapshot.own.in + snapshot.own.out + adrift + 0 = count
  BY DEF CountExplained
<1> QED BY <1>2, <1>3

(* The crossing may come while the last register is being copied: then all  *)
(* that is claimed of the snapshot is that the flows of a gate balance.     *)
LEMMA CrossingStep ==
    ASSUME TallyInv, NEW e \in Entries, NEW g \in Gates, NEW v \in {-1, 1}, Crossing(e, g, v)
    PROVE  TallyInv'
<1> USE DEF TallyInv
<1>1. /\ Update(e, g, v) /\ rushed' = (taken # {})
      /\ UNCHANGED <<taken, snapshot, adrift, resetLost>>
  BY DEF Crossing, calculator
<1>2. /\ ~rushed /\ offer = "nothing" /\ offer' = "register"
      /\ count' \in Flows /\ (~AcceptNegatives => count' >= 0)
      /\ shown' \in [Entries -> States]
      /\ TellsOneCrossing'
      /\ count' = count + Variation(shown')
      /\ \A f \in Entries : DOMAIN shown[f].flows \in {{}, DOMAIN shown'[f].flows}
      /\ \A f \in Entries :
           /\ snapshot.entry[f].own.net + shown'[f].variation \in Flows
           /\ \A h \in DOMAIN shown'[f].flows :
               Before(snapshot.entry[f].gate, h).net + shown'[f].flows[h] \in Flows
  BY <1>1, UpdateKeeps
<1>3. TypeOK'
  BY <1>1, <1>2 DEF TypeOK
<1>4. EntriesBalance'
  BY <1>1, <1>2 DEF EntriesBalance
<1>5. ASSUME ~rushed' PROVE CountExplained' /\ NetsInBounds'
  <2>1. taken = {} /\ CountExplained /\ NetsInBounds
    BY <1>1, <1>2, <1>5
  <2>2. snapshot.own.in + snapshot.own.out + adrift = count
    BY <1>2, <2>1, OnlyAddsZero DEF CountExplained, Pending
  <2>3. CountExplained'
    BY <1>1, <1>2, <2>1, <2>2 DEF CountExplained, Pending
  <2>4. NetsInBounds'
    BY <1>1, <1>2, <2>1 DEF NetsInBounds
  <2> QED BY <2>3, <2>4
<1>6. (~rushed /\ ~resetLost => GatesInRegister)'
  BY <1>1, <1>2 DEF GatesInRegister
<1>7. EntryIsItsGates'
  BY <1>1, <1>2 DEF EntryIsItsGates
<1> QED BY <1>2, <1>3, <1>4, <1>5, <1>6, <1>7

(* One that does: the snapshot is made of what was seen.                    *)
LEMMA CrossingDuringCopyStep ==
    ASSUME TallyInv, NEW e \in Entries, NEW g \in Gates, NEW v \in {-1, 1},
           CrossingDuringCopy(e, g, v)
    PROVE  TallyInv'
<1> USE DEF TallyInv
<1>1. /\ Update(e, g, v) /\ rushed' = TRUE /\ taken' = {}
      /\ UNCHANGED <<adrift, resetLost>>
  BY DEF CrossingDuringCopy
<1>2. /\ offer' = "register" /\ count' \in Flows /\ (~AcceptNegatives => count' >= 0)
      /\ shown' \in [Entries -> States]
      /\ TellsOneCrossing'
  BY <1>1, UpdateKeeps
<1>3. PICK n \in taken,
           seen \in [Entries -> UNION {Sights(shown[f], shown'[f]) : f \in Entries}] :
        /\ \A f \in Entries : seen[f] \in Sights(shown[f], shown'[f])
        /\ snapshot' = Accumulated(snapshot, n, seen)
  BY DEF CrossingDuringCopy
<1>4. \A f \in Entries : seen[f] \in States
  <2> TAKE f \in Entries
  <2>1. shown[f] \in States /\ shown'[f] \in States
    BY <1>2 DEF TypeOK
  <2>2. seen[f] \in Sights(shown[f], shown'[f])
    BY <1>3
  <2> QED BY <2>1, <2>2, SightsType
<1>5. seen \in [Entries -> States]
  BY <1>4
<1>6. snapshot' \in Snapshots
  BY <1>3, <1>5, AccumulatedType DEF TypeOK
<1>7. TypeOK'
  BY <1>1, <1>2, <1>6 DEF TypeOK
<1>8. EntriesBalance' /\ EntryIsItsGates'
  BY <1>1 DEF EntriesBalance, EntryIsItsGates
<1> QED BY <1>1, <1>2, <1>7, <1>8

(* The register is taken: it is still pending.                              *)
LEMMA RegisterTakenStep ==
    ASSUME TallyInv, RegisterTaken
    PROVE  TallyInv'
<1> USE DEF TallyInv
<1>1. /\ offer = "register" /\ taken = {} /\ offer' = "nothing" /\ taken' = {count}
      /\ UNCHANGED <<count, shown, snapshot, adrift, resetLost, rushed>>
  BY DEF RegisterTaken, history
<1>2. TypeOK'
  BY <1>1 DEF TypeOK
<1>3. TellsOneCrossing' /\ EntriesBalance' /\ EntryIsItsGates'
  BY <1>1 DEF TellsOneCrossing, EntriesBalance, EntryIsItsGates
<1>4. Pending /\ Pending'
  BY <1>1 DEF Pending
<1>5. ~rushed => CountExplained' /\ NetsInBounds'
  BY <1>1, <1>4 DEF CountExplained, NetsInBounds
<1>6. (~rushed /\ ~resetLost => GatesInRegister)'
  BY <1>1 DEF GatesInRegister
<1> QED BY <1>1, <1>2, <1>3, <1>5, <1>6

(* The register is thrown away, and missing from now on.                    *)
LEMMA RegisterLateStep ==
    ASSUME TallyInv, RegisterLate
    PROVE  TallyInv'
<1> USE DEF TallyInv
<1>1. /\ offer = "register" /\ taken = {} /\ offer' = "nothing"
      /\ adrift' = adrift + Variation(shown)
      /\ UNCHANGED <<count, shown, taken, snapshot, resetLost, rushed>>
  BY DEF RegisterLate, calculator
<1>2. Variation(shown) \in Int
  BY RegisterType DEF TypeOK
<1>3. TypeOK'
  BY <1>1, <1>2 DEF TypeOK
<1>4. TellsOneCrossing' /\ EntriesBalance' /\ EntryIsItsGates'
  BY <1>1 DEF TellsOneCrossing, EntriesBalance, EntryIsItsGates
<1>5. Pending /\ ~Pending'
  BY <1>1 DEF Pending
<1>6. ~rushed => NetsInBounds'
  BY <1>1, <1>5 DEF NetsInBounds
<1>7. ~rushed => CountExplained'
  <2>1. ~rushed => snapshot.own.in + snapshot.own.out + adrift + Variation(shown) = count
    BY <1>5 DEF CountExplained
  <2>2. snapshot.own.in \in Int /\ snapshot.own.out \in Int /\ adrift \in Int
    BY OwnIsInt DEF TypeOK
  <2>3. \A a, b, c, d \in Int : a + b + (c + d) + 0 = a + b + c + d
    OBVIOUS
  <2>4. snapshot.own.in + snapshot.own.out + (adrift + Variation(shown)) + 0
          = snapshot.own.in + snapshot.own.out + adrift + Variation(shown)
    BY <1>2, <2>2, <2>3
  <2> QED BY <1>1, <1>5, <2>1, <2>4 DEF CountExplained
<1>8. (~rushed /\ ~resetLost => GatesInRegister)'
  BY <1>1 DEF GatesInRegister
<1> QED BY <1>1, <1>3, <1>4, <1>6, <1>7, <1>8

(* The register is accumulated.                                             *)
LEMMA CopyStep ==
    ASSUME TallyInv, Copy
    PROVE  TallyInv'
<1> USE DEF TallyInv
<1>1. PICK n \in taken : snapshot' = Accumulated(snapshot, n, shown)
  BY DEF Copy
<1>2. /\ taken' = {} /\ adrift' = IF Restarts(shown) THEN 0 ELSE adrift
      /\ UNCHANGED <<count, shown, offer, resetLost, rushed>>
  BY DEF Copy, space
<1>3. /\ n \in Flows /\ shown \in [Entries -> States] /\ OneEntry(shown)
      /\ \A f \in Entries : AtOneGate(shown[f])
      /\ snapshot \in Snapshots /\ snapshot.own \in Tallies
      /\ \A f \in Entries : shown[f] \in States /\ snapshot.entry[f] \in EntryTallies
  BY DEF TypeOK, TellsOneCrossing, Snapshots
<1>4. snapshot' \in Snapshots
  BY <1>1, <1>3, AccumulatedType
<1>5. TypeOK'
  BY <1>2, <1>4 DEF TypeOK
<1>6. /\ snapshot'.own = SpaceTally(snapshot.own, n, shown)
      /\ \A f \in Entries : snapshot'.entry[f] = EntryTally(snapshot.entry[f], shown[f])
  BY <1>1 DEF Accumulated
<1>7. TellsOneCrossing'
  BY <1>2 DEF TellsOneCrossing
<1>8. EntriesBalance'
  BY <1>2, <1>3, <1>6, EntryTallyBalances DEF EntriesBalance
<1>9. ASSUME ~rushed PROVE CountExplained'
  <2>1. taken = {count} /\ n = count /\ offer # "register" /\ Pending /\ ~Pending'
    BY <1>2, <1>9 DEF CountExplained, Pending
  <2>2. snapshot'.own.in + snapshot'.own.out =
          IF Restarts(shown) THEN count
          ELSE snapshot.own.in + snapshot.own.out + Variation(shown)
    BY <1>3, <1>6, <2>1, SpaceTallyExplains
  <2>3. snapshot.own.in + snapshot.own.out + adrift + Variation(shown) = count
    BY <1>9, <2>1 DEF CountExplained
  <2>4. /\ snapshot.own.in \in Int /\ snapshot.own.out \in Int /\ adrift \in Int
        /\ Variation(shown) \in Int /\ count \in Int
    BY <1>3, OwnIsInt, RegisterType, TallyAssumption DEF TypeOK, Flows
  <2>5. \A a, b, c, d \in Int : /\ a + b + d + c + 0 = a + b + c + d
                                /\ a + 0 + 0 = a
    OBVIOUS
  <2>6. /\ snapshot.own.in + snapshot.own.out + Variation(shown) + adrift + 0 = count
        /\ count + 0 + 0 = count
    BY <2>3, <2>4, <2>5
  <2>7. snapshot'.own.in + snapshot'.own.out + adrift' + 0 = count
    BY <1>2, <2>2, <2>6
  <2> QED BY <1>2, <2>1, <2>7 DEF CountExplained
<1>10. ASSUME ~rushed PROVE NetsInBounds'
  <2>1. Pending /\ ~Pending'
    BY <1>2, <1>9, <1>10 DEF CountExplained, Pending
  <2>2. ASSUME NEW f \in Entries
        PROVE  /\ snapshot'.entry[f].own.net \in Flows
               /\ \A t \in Range(snapshot'.entry[f].gate) : t.net \in Flows
    <3>1. /\ snapshot.entry[f].own.net + shown[f].variation \in Flows
          /\ \A g \in DOMAIN shown[f].flows :
                Before(snapshot.entry[f].gate, g).net + shown[f].flows[g] \in Flows
      BY <1>10, <2>1 DEF NetsInBounds
    <3>2. \A k \in Flows : Wrap(k) = k
      BY FlowsSame
    <3>3. /\ EntryTally(snapshot.entry[f], shown[f]).own.net =
                Wrap(snapshot.entry[f].own.net + shown[f].variation)
          /\ EntryTally(snapshot.entry[f], shown[f]).gate =
                [g \in DOMAIN shown[f].flows |->
                    GateTally(snapshot.entry[f].gate, g, shown[f].flows[g])]
      BY <1>3, EntryTallyType
    <3>4. /\ snapshot'.entry[f].own.net = Wrap(snapshot.entry[f].own.net + shown[f].variation)
          /\ snapshot'.entry[f].gate =
                [g \in DOMAIN shown[f].flows |->
                    GateTally(snapshot.entry[f].gate, g, shown[f].flows[g])]
      BY <1>6, <3>3
    <3>5. /\ snapshot.entry[f].gate \in GateMaps(GateTallies)
          /\ \A g \in DOMAIN shown[f].flows : shown[f].flows[g] \in Steps
      BY <1>3, MapHas DEF EntryTallies, States
    <3>6. \A g \in DOMAIN shown[f].flows : snapshot'.entry[f].gate[g].net \in Flows
      BY <3>1, <3>2, <3>4, <3>5, GateTallyType
    <3>7. \A t \in Range(snapshot'.entry[f].gate) : t.net \in Flows
      BY <3>4, <3>6 DEF Range
    <3> QED BY <3>1, <3>2, <3>4, <3>7
  <2> QED BY <2>1, <2>2 DEF NetsInBounds
<1>11. (~rushed /\ ~resetLost => GatesInRegister)'
  <2>1. \A f \in Entries : DOMAIN snapshot'.entry[f].gate = DOMAIN shown[f].flows
    <3> TAKE f \in Entries
    <3>1. EntryTally(snapshot.entry[f], shown[f]).gate =
            [g \in DOMAIN shown[f].flows |->
                GateTally(snapshot.entry[f].gate, g, shown[f].flows[g])]
      BY <1>3, EntryTallyType
    <3> QED BY <1>6, <3>1
  <2> QED BY <1>2, <2>1 DEF GatesInRegister
<1>12. EntryIsItsGates'
  <2> SUFFICES ASSUME ~resetLost, ~rushed, NEW f \in Entries
               PROVE  snapshot'.entry[f].own.net = NetOf(snapshot'.entry[f].gate)
    BY <1>2 DEF EntryIsItsGates
  <2>1. /\ DOMAIN snapshot.entry[f].gate \in {{}, DOMAIN shown[f].flows}
        /\ snapshot.entry[f].own.net = NetOf(snapshot.entry[f].gate)
    BY DEF GatesInRegister, EntryIsItsGates
  <2>2. Pending
    BY DEF Pending
  <2>3. /\ snapshot.entry[f].own.net + shown[f].variation \in Flows
        /\ \A g \in DOMAIN shown[f].flows :
              Before(snapshot.entry[f].gate, g).net + shown[f].flows[g] \in Flows
    BY <2>2 DEF NetsInBounds
  <2> QED BY <1>3, <1>6, <2>1, <2>3, EntryTallyIsItsGates
<1> QED BY <1>2, <1>5, <1>7, <1>8, <1>9, <1>10, <1>11, <1>12

(* The reset begins: what is pending stays pending.                         *)
LEMMA OfferResetStep ==
    ASSUME TallyInv, OfferReset
    PROVE  TallyInv'
<1> USE DEF TallyInv
<1>1. /\ offer = "nothing" /\ offer' = "reset"
      /\ UNCHANGED <<count, shown, taken, snapshot, adrift, resetLost, rushed>>
  BY DEF OfferReset, calculator, history
<1>2. Pending <=> Pending'
  BY <1>1 DEF Pending
<1>3. TypeOK' /\ TellsOneCrossing' /\ EntriesBalance' /\ EntryIsItsGates'
  BY <1>1 DEF TypeOK, TellsOneCrossing, EntriesBalance, EntryIsItsGates
<1>4. ~rushed => CountExplained' /\ NetsInBounds'
  BY <1>1, <1>2 DEF CountExplained, NetsInBounds
<1>5. (~rushed /\ ~resetLost => GatesInRegister)'
  BY <1>1 DEF GatesInRegister
<1> QED BY <1>1, <1>3, <1>4, <1>5

(* The space empties its register.                                          *)
LEMMA EmptyKeeps ==
    ASSUME TallyInv, Empty, taken = {}, taken' = {}
    PROVE  /\ offer = "reset" /\ offer' = "nothing" /\ count' = 0 /\ count' \in Flows
           /\ shown' \in [Entries -> States]
           /\ TellsOneCrossing'
           /\ ~Pending /\ ~Pending'
<1>1. offer = "reset" /\ offer' = "nothing" /\ count' = 0 /\ shown' = Emptied
  BY DEF Empty
<1>2. 0 \in Flows
  BY TallyAssumption DEF Flows
<1>3. TellsOneCrossing'
  BY <1>1, EmptiedRegister DEF TellsOneCrossing
<1> QED BY <1>1, <1>2, <1>3, EmptiedRegister DEF Pending

(* Once the reset is taken, all begins anew.                                *)
LEMMA ResetTakenStep ==
    ASSUME TallyInv, ResetTaken
    PROVE  TallyInv'
<1> USE DEF TallyInv
<1>1. /\ Empty /\ taken = {} /\ taken' = {} /\ snapshot' = ClearedSnapshot
      /\ adrift' = 0 /\ resetLost' = FALSE /\ rushed' = FALSE
  BY DEF ResetTaken
<1>2. /\ offer' = "nothing" /\ count' = 0 /\ count' \in Flows
      /\ shown' \in [Entries -> States] /\ TellsOneCrossing' /\ ~Pending'
  BY <1>1, EmptyKeeps
<1>3. TypeOK'
  <2>1. count' >= 0 /\ adrift' \in Int
    BY <1>1, <1>2
  <2>2. snapshot' \in Snapshots /\ taken' \in SUBSET Flows
    BY <1>1, Cleared
  <2>3. resetLost' \in BOOLEAN /\ rushed' \in BOOLEAN
    BY <1>1
  <2> QED BY <1>2, <2>1, <2>2, <2>3 DEF TypeOK
<1>4. EntriesBalance' /\ EntryIsItsGates' /\ GatesInRegister'
  BY <1>1, Cleared DEF EntriesBalance, EntryIsItsGates, GatesInRegister
<1>5. CountExplained'
  <2>1. ClearedSnapshot.own.in + ClearedSnapshot.own.out + 0 + 0 = 0
    BY Cleared
  <2> QED BY <1>1, <1>2, <2>1 DEF CountExplained
<1>6. NetsInBounds'
  <2>1. ASSUME NEW f \in Entries
        PROVE  /\ ClearedSnapshot.entry[f].own.net = 0
               /\ Range(ClearedSnapshot.entry[f].gate) = {}
    BY Cleared DEF Range
  <2> QED BY <1>1, <1>2, <2>1 DEF NetsInBounds
<1> QED BY <1>2, <1>3, <1>4, <1>5, <1>6

(* A reset that is not taken leaves the snapshot ahead by the whole count.  *)
LEMMA ResetLateStep ==
    ASSUME TallyInv, ResetLate
    PROVE  TallyInv'
<1> USE DEF TallyInv
<1>1. /\ Empty /\ taken = {} /\ adrift' = adrift - count /\ resetLost' = TRUE
      /\ UNCHANGED <<taken, snapshot, rushed>>
  BY DEF ResetLate, calculator
<1>2. /\ offer' = "nothing" /\ count' = 0 /\ count' \in Flows
      /\ shown' \in [Entries -> States] /\ TellsOneCrossing' /\ ~Pending /\ ~Pending'
  BY <1>1, EmptyKeeps
<1>3. count \in Int /\ adrift \in Int
  BY TallyAssumption DEF TypeOK, Flows
<1>4. adrift - count \in Int
  BY <1>3
<1>5. TypeOK'
  BY <1>1, <1>2, <1>4 DEF TypeOK
<1>6. EntriesBalance' /\ EntryIsItsGates'
  BY <1>1 DEF EntriesBalance, EntryIsItsGates
<1>7. ~rushed => NetsInBounds'
  BY <1>1, <1>2 DEF NetsInBounds
<1>8. ~rushed => CountExplained'
  <2>1. ~rushed => snapshot.own.in + snapshot.own.out + adrift = count
    BY <1>2, OnlyAddsZero
  <2>2. snapshot.own.in \in Int /\ snapshot.own.out \in Int
    BY OwnIsInt DEF TypeOK
  <2>3. \A a, b, c, d \in Int : a + b + c = d => a + b + (c - d) + 0 = 0
    OBVIOUS
  <2>4. ~rushed => snapshot.own.in + snapshot.own.out + (adrift - count) + 0 = 0
    BY <1>3, <2>1, <2>2, <2>3
  <2> QED BY <1>1, <1>2, <2>4 DEF CountExplained
<1> QED BY <1>1, <1>2, <1>5, <1>6, <1>7, <1>8

(* The space and its calculator begin empty.                                *)
LEMMA TallyInit == Init => TallyInv
<1> SUFFICES ASSUME Init PROVE TallyInv
  OBVIOUS
<1>1. /\ count = 0 /\ shown = Emptied /\ offer = "nothing" /\ taken = {}
      /\ snapshot = Blank /\ adrift = 0 /\ resetLost = FALSE /\ rushed = FALSE
  BY DEF Init
<1>2. 0 \in Flows
  BY TallyAssumption DEF Flows
<1>3. TypeOK
  <2>1. count \in Flows /\ count >= 0 /\ adrift \in Int
    BY <1>1, <1>2
  <2>2. snapshot \in Snapshots /\ taken \in SUBSET Flows /\ shown \in [Entries -> States]
    BY <1>1, BlankSnapshot, EmptiedRegister
  <2>3. resetLost \in BOOLEAN /\ rushed \in BOOLEAN
    BY <1>1
  <2> QED BY <1>1, <2>1, <2>2, <2>3 DEF TypeOK
<1>4. TellsOneCrossing
  BY <1>1, EmptiedRegister DEF TellsOneCrossing
<1>5. Balanced(Zero) /\ Zero.net = 0
  BY ZeroType DEF GateTallies, Zero
<1>6. EntriesBalance /\ EntryIsItsGates
  BY <1>1, <1>5, BlankSnapshot DEF EntriesBalance, EntryIsItsGates
<1>7. ~Pending
  BY <1>1 DEF Pending
<1>8. CountExplained
  <2>1. Blank.own.in + Blank.own.out + 0 + 0 = 0
    BY BlankSnapshot
  <2> QED BY <1>1, <1>7, <2>1 DEF CountExplained
<1>9. NetsInBounds /\ GatesInRegister
  <2>1. \A f \in Entries : /\ Blank.entry[f].own.net = 0
                           /\ DOMAIN Blank.entry[f].gate = {}
                           /\ Range(Blank.entry[f].gate) = {}
    BY <1>5, BlankSnapshot DEF NoGates, Range
  <2> QED BY <1>1, <1>2, <1>7, <2>1 DEF NetsInBounds, GatesInRegister
<1> QED BY <1>3, <1>4, <1>6, <1>8, <1>9 DEF TallyInv

(* A step that changes nothing.                                             *)
LEMMA TallyStutter ==
    ASSUME TallyInv, UNCHANGED vars
    PROVE  TallyInv'
<1> USE DEF TallyInv, vars, space, calculator, history
<1>1. TypeOK' /\ TellsOneCrossing' /\ EntriesBalance' /\ EntryIsItsGates'
  BY DEF TypeOK, TellsOneCrossing, EntriesBalance, EntryIsItsGates
<1>2. ~rushed => CountExplained' /\ NetsInBounds'
  BY DEF CountExplained, NetsInBounds, Pending
<1>3. (~rushed /\ ~resetLost => GatesInRegister)'
  BY DEF GatesInRegister
<1> QED BY <1>1, <1>2, <1>3

(* Every step preserves the invariant.                                      *)
LEMMA TallyStep ==
    ASSUME TallyInv, [Next]_vars
    PROVE  TallyInv'
<1>1. CASE \E e \in Entries, g \in Gates, v \in {-1, 1} :
             Crossing(e, g, v) \/ CrossingDuringCopy(e, g, v)
  BY <1>1, CrossingStep, CrossingDuringCopyStep
<1>2. CASE RegisterTaken \/ RegisterLate \/ Copy
  BY <1>2, RegisterTakenStep, RegisterLateStep, CopyStep
<1>3. CASE OfferReset \/ ResetTaken \/ ResetLate
  BY <1>3, OfferResetStep, ResetTakenStep, ResetLateStep
<1>4. CASE UNCHANGED vars
  BY <1>4, TallyStutter
<1> QED BY <1>1, <1>2, <1>3, <1>4 DEF Next

(* The inductive invariant holds in every state.                            *)
THEOREM TallyInvariant == Spec => []TallyInv
BY TallyInit, TallyStep, PTL DEF Spec

(* Every variable has its type.                                             *)
THEOREM TallyTypeCorrect == Spec => []TypeOK
<1>1. TallyInv => TypeOK
  BY DEF TallyInv
<1> QED BY <1>1, TallyInvariant, PTL

(* calculator.go:130-154: whichever of them overflow, the flows of a gate   *)
(* keep their signs and add up to its net flow, whatever happens while the  *)
(* register is copied; those of an entry do, if nothing does.               *)
THEOREM TallyElementsBalance == Spec => []ElementsBalance
<1>1. TallyInv => ElementsBalance
  <2> SUFFICES ASSUME TallyInv, NEW e \in Entries
               PROVE  /\ \A t \in Range(snapshot.entry[e].gate) : Balanced(t)
                      /\ ~rushed => Balanced(snapshot.entry[e].own)
    BY DEF ElementsBalance
  <2>1. snapshot.entry[e].gate \in GateMaps(GateTallies)
    BY DEF TallyInv, TypeOK, Snapshots, EntryTallies
  <2>2. \A g \in DOMAIN snapshot.entry[e].gate : snapshot.entry[e].gate[g] \in GateTallies
    BY <2>1, MapHas
  <2> QED BY <2>2 DEF Range, GateTallies, TallyInv, EntriesBalance
<1> QED BY <1>1, TallyInvariant, PTL

(* space.go:193-198, 322-334, calculator.go:159-169: the accumulated flows  *)
(* of a space differ from its count by what was thrown away, never by an    *)
(* overflow.                                                                *)
THEOREM TallyDriftIsLoss == Spec => []DriftIsLoss
<1>1. TallyInv => DriftIsLoss
  BY OnlyAddsZero DEF TallyInv, DriftIsLoss, Pending
<1> QED BY <1>1, TallyInvariant, PTL

(* calculator.go:80-142: the net flows of the gates of an entry add up to   *)
(* that of the entry.                                                       *)
THEOREM TallyEntryIsItsGates == Spec => []EntryIsItsGates
<1>1. TallyInv => EntryIsItsGates
  BY DEF TallyInv
<1> QED BY <1>1, TallyInvariant, PTL

=============================================================================
