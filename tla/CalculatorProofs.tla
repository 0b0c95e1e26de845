-------------------------- MODULE CalculatorProofs --------------------------
(***************************************************************************)
(* Theorems about Calculator, for all finite sets of measurements and every *)
(* tick, delay and horizon.                                                 *)
(*                                                                          *)
(* The sums come first, as in TallyProofs: SumFunctionOnSet by induction on *)
(* the size of a set, here also over intervals (Telescope).                 *)
(*                                                                          *)
(* The argument.  Samples arrive out of order and ahead of time, so none of *)
(* their differences is positive for sure and no sample alone says how long *)
(* its count held.  But what they add up to is right: there is a function h *)
(* of the samples that grows as a measurement does and is the area under    *)
(* the count at every sample that none before it follows (Tells), and what  *)
(* a sample says holds until the earliest of those after it (Lasts).  Both  *)
(* survive the slide of the window (SlideSlid, LastsSlid, TellsSlid) and a  *)
(* sample at its end.  All of a window, a window that begins at a sample    *)
(* and one that cuts a sample (WindowCases) then measure the area from      *)
(* their beginning, which is exact if the samples reach back to it          *)
(* (WindowExact, ReachBack).  They do unless a tick overtook the register   *)
(* that ends the window (Timely, InvReaches), and then lack no more than    *)
(* that register was late (InvIsLong).  A reference is never ended by such  *)
(* a register (DueIsTimely).                                                *)
(*                                                                          *)
(* The flow is counted the same way.  Every sample since the last reset is  *)
(* at the place of a register or of none (Places), whatever the order they  *)
(* came in, so the samples of a window count the registers from its         *)
(* beginning on once each (PlacesFlow, CountsFlow, WindowFlow).  Only the   *)
(* sample that a tick moved took its flow along (Moved, SlidFlow), and only *)
(* of a register from before that tick is it in a window (Cut, CutReaches). *)
(*                                                                          *)
(* The three actions that add a sample are one (AddsSample): what they do   *)
(* to the registers, the time and the area is all the invariant needs.      *)
(***************************************************************************)
EXTENDS Calculator, FiniteSetTheorems, SequenceTheorems, WellFoundedInduction, TLAPS

-----------------------------------------------------------------------------
(* A set of natural numbers with 0 that has the successor of every element  *)
(* it has, has them all.                                                    *)
LEMMA SetInduction ==
    ASSUME NEW P, 0 \in P, \A n \in Nat : n \in P => n + 1 \in P
    PROVE  \A n \in Nat : n \in P
<1> DEFINE T == Nat \ P
<1>1. SUFFICES ASSUME T # {} PROVE FALSE
  OBVIOUS
<1>2. PICK n \in T : \A m \in T : <<m, n>> \notin OpToRel(<, Nat)
  BY <1>1, WFMin, NatLessThanWellFounded
<1>3. \A m \in T : ~ (m < n)
  BY <1>2 DEF OpToRel
<1>4. n # 0 /\ n - 1 \in Nat
  OBVIOUS
<1>5. n - 1 \in P
  BY <1>3, <1>4
<1> QED BY <1>5

(* g sums f over the sets in D as SumFunctionOnSet does.                    *)
Pick(s) == CHOOSE x \in s : TRUE
SumStep(g, f, s) == IF s = {} THEN 0 ELSE f[Pick(s)] + g[s \ {Pick(s)}]
Sums(g, f, D) == g = [s \in D |-> SumStep(g, f, s)]

(* SumFunctionOnSet chooses such a g.                                       *)
LEMMA SumIsChosen ==
    ASSUME NEW f, NEW S
    PROVE  SumFunctionOnSet(f, S) = (CHOOSE g : Sums(g, f, SUBSET S))[S]
BY DEF SumFunctionOnSet, FoldFunctionOnSet, MapThenFoldSet, Sums, SumStep, Pick

(* The pick of a set is in it.                                              *)
LEMMA PickIn == ASSUME NEW s, s # {} PROVE Pick(s) \in s
BY DEF Pick

(* g at a set follows from g at the set without its pick.                   *)
LEMMA SumsStep ==
    ASSUME NEW g, NEW f, NEW D, Sums(g, f, D), NEW s \in D, s # {}
    PROVE  g[s] = f[Pick(s)] + g[s \ {Pick(s)}]
<1>1. g[s] = SumStep(g, f, s)
  BY DEF Sums
<1> QED BY <1>1 DEF SumStep

(* A set without one of its n + 1 elements has n.                           *)
LEMMA OneLess ==
    ASSUME NEW s, IsFiniteSet(s), NEW n \in Nat, Cardinality(s) = n + 1, NEW y \in s
    PROVE  Cardinality(s \ {y}) = n
<1>1. Cardinality(s \ {y}) = Cardinality(s) - 1
  BY FS_RemoveElement
<1> QED BY <1>1

(* The subsets of S with at most n elements.                                *)
UpTo(S, n) == {s \in SUBSET S : Cardinality(s) <= n}

(* There is such a g over the subsets of a finite set.                      *)
LEMMA SumExists ==
    ASSUME NEW f, NEW S, IsFiniteSet(S)
    PROVE  \E g : Sums(g, f, SUBSET S)
<1> DEFINE P == {n \in Nat : \E g : Sums(g, f, UpTo(S, n))}
<1>0. \A s \in SUBSET S : IsFiniteSet(s) /\ Cardinality(s) \in Nat
  BY FS_Subset, FS_CardinalityType
<1>1. 0 \in P
  <2> DEFINE g == [s \in UpTo(S, 0) |-> 0]
  <2>1. \A s \in UpTo(S, 0) : s = {}
    BY <1>0, FS_EmptySet DEF UpTo
  <2>2. \A s \in UpTo(S, 0) : SumStep(g, f, s) = 0
    BY <2>1 DEF SumStep
  <2>3. Sums(g, f, UpTo(S, 0))
    BY <2>2 DEF Sums
  <2> QED BY <2>3
<1>2. ASSUME NEW n \in Nat, n \in P
      PROVE  n + 1 \in P
  <2>1. PICK h : Sums(h, f, UpTo(S, n))
    BY <1>2
  <2> HIDE DEF P
  <2> DEFINE g == [s \in UpTo(S, n + 1) |-> SumStep(h, f, s)]
  <2>2. ASSUME NEW s \in UpTo(S, n + 1), s # {}
        PROVE  s \ {Pick(s)} \in UpTo(S, n)
    <3>1. Pick(s) \in s /\ s \in SUBSET S
      BY <2>2, PickIn DEF UpTo
    <3>2. Cardinality(s \ {Pick(s)}) = Cardinality(s) - 1
      BY <3>1, <1>0, FS_RemoveElement
    <3> QED BY <3>1, <3>2, <1>0 DEF UpTo
  <2>3. \A s \in UpTo(S, n) : s \in UpTo(S, n + 1) /\ g[s] = h[s]
    <3>1. \A s \in UpTo(S, n) : s \in UpTo(S, n + 1)
      BY <1>0 DEF UpTo
    <3>2. \A s \in UpTo(S, n) : h[s] = SumStep(h, f, s)
      BY <2>1 DEF Sums
    <3> QED BY <3>1, <3>2
  <2>4. \A s \in UpTo(S, n + 1) : SumStep(h, f, s) = SumStep(g, f, s)
    BY <2>2, <2>3 DEF SumStep
  <2>5. Sums(g, f, UpTo(S, n + 1))
    BY <2>4 DEF Sums
  <2> QED BY <2>5 DEF P
<1>3. \A n \in Nat : n \in P
  BY <1>1, <1>2, SetInduction
<1>4. Cardinality(S) \in P
  BY <1>3, FS_CardinalityType
<1>5. UpTo(S, Cardinality(S)) = SUBSET S
  BY FS_Subset DEF UpTo
<1> QED BY <1>4, <1>5

(* What SumFunctionOnSet is made of.                                        *)
LEMMA SumIsSums ==
    ASSUME NEW f, NEW S, IsFiniteSet(S)
    PROVE  \E g : Sums(g, f, SUBSET S) /\ SumFunctionOnSet(f, S) = g[S]
<1> DEFINE g == CHOOSE g : Sums(g, f, SUBSET S)
<1>1. Sums(g, f, SUBSET S)
  BY SumExists
<1> QED BY <1>1, SumIsChosen

(* Such functions agree, whatever sets they are defined for.                *)
LEMMA SumsAgree ==
    ASSUME NEW f, NEW S, IsFiniteSet(S), NEW T \in SUBSET S,
           NEW g, Sums(g, f, SUBSET S), NEW h, Sums(h, f, SUBSET T)
    PROVE  h[T] = g[T]
<1> DEFINE P == {n \in Nat : \A s \in SUBSET T : Cardinality(s) = n => h[s] = g[s]}
<1>0. \A s \in SUBSET S : IsFiniteSet(s) /\ Cardinality(s) \in Nat
  BY FS_Subset, FS_CardinalityType
<1>1. 0 \in P
  <2>1. ASSUME NEW s \in SUBSET T, Cardinality(s) = 0 PROVE h[s] = g[s]
    <3>1. s = {}
      BY <2>1, <1>0, FS_EmptySet
    <3> QED BY <3>1 DEF Sums, SumStep
  <2> QED BY <2>1
<1>2. ASSUME NEW n \in Nat, n \in P
      PROVE  n + 1 \in P
  <2>0. \A s \in SUBSET T : Cardinality(s) = n => h[s] = g[s]
    BY <1>2
  <2> HIDE DEF P
  <2>1. ASSUME NEW s \in SUBSET T, Cardinality(s) = n + 1 PROVE h[s] = g[s]
    <3>1. s # {}
      BY <2>1, FS_EmptySet
    <3>2. Pick(s) \in s
      BY <3>1, PickIn
    <3>3. Cardinality(s \ {Pick(s)}) = n
      BY <2>1, <3>2, <1>0, OneLess
    <3>4. h[s \ {Pick(s)}] = g[s \ {Pick(s)}]
      BY <2>0, <3>3
    <3> QED BY <3>1, <3>4 DEF Sums, SumStep
  <2> QED BY <2>1 DEF P
<1>3. \A n \in Nat : n \in P
  BY <1>1, <1>2, SetInduction
<1> QED BY <1>0, <1>3

(* The sum over the empty set.                                              *)
LEMMA SumEmpty == ASSUME NEW f PROVE SumFunctionOnSet(f, {}) = 0
<1>1. PICK g : Sums(g, f, SUBSET {}) /\ SumFunctionOnSet(f, {}) = g[{}]
  BY SumIsSums, FS_EmptySet
<1>2. g = [s \in SUBSET {} |-> SumStep(g, f, s)]
  BY <1>1 DEF Sums
<1>3. g[{}] = SumStep(g, f, {})
  BY <1>2
<1> QED BY <1>1, <1>3 DEF SumStep

(* The sum is in every set that has 0, the summands and the sums of its     *)
(* elements.                                                                *)
LEMMA SumIn ==
    ASSUME NEW S, IsFiniteSet(S), NEW Z, 0 \in Z, \A a, b \in Z : a + b \in Z,
           NEW f, \A x \in S : f[x] \in Z
    PROVE  SumFunctionOnSet(f, S) \in Z
<1>1. PICK g : Sums(g, f, SUBSET S) /\ SumFunctionOnSet(f, S) = g[S]
  BY SumIsSums
<1> DEFINE P == {n \in Nat : \A s \in SUBSET S : Cardinality(s) = n => g[s] \in Z}
<1>0. \A s \in SUBSET S : IsFiniteSet(s) /\ Cardinality(s) \in Nat
  BY FS_Subset, FS_CardinalityType
<1>2. 0 \in P
  <2>1. ASSUME NEW s \in SUBSET S, Cardinality(s) = 0 PROVE g[s] \in Z
    <3>1. s = {}
      BY <2>1, <1>0, FS_EmptySet
    <3> QED BY <3>1, <1>1 DEF Sums, SumStep
  <2> QED BY <2>1
<1>3. ASSUME NEW n \in Nat, n \in P
      PROVE  n + 1 \in P
  <2>0. \A s \in SUBSET S : Cardinality(s) = n => g[s] \in Z
    BY <1>3
  <2> HIDE DEF P
  <2>1. ASSUME NEW s \in SUBSET S, Cardinality(s) = n + 1 PROVE g[s] \in Z
    <3>1. s # {}
      BY <2>1, FS_EmptySet
    <3>2. Pick(s) \in s
      BY <3>1, PickIn
    <3>3. Cardinality(s \ {Pick(s)}) = n
      BY <2>1, <3>2, <1>0, OneLess
    <3>4. g[s \ {Pick(s)}] \in Z /\ f[Pick(s)] \in Z
      BY <2>0, <3>2, <3>3
    <3>5. g[s] = f[Pick(s)] + g[s \ {Pick(s)}]
      BY <1>1, <3>1, SumsStep
    <3>6. f[Pick(s)] + g[s \ {Pick(s)}] \in Z
      BY <3>4, Zenon
    <3> QED BY <3>5, <3>6
  <2> QED BY <2>1 DEF P
<1>4. \A n \in Nat : n \in P
  BY <1>2, <1>3, SetInduction
<1> QED BY <1>0, <1>1, <1>4

(* The sum of integers is one.                                              *)
LEMMA SumType ==
    ASSUME NEW S, IsFiniteSet(S), NEW f, \A x \in S : f[x] \in Int
    PROVE  SumFunctionOnSet(f, S) \in Int
<1>1. 0 \in Int /\ \A a, b \in Int : a + b \in Int
  OBVIOUS
<1> QED BY <1>1, SumIn

(* Any element may be taken out of the sum, not only the pick.              *)
LEMMA SumSplit ==
    ASSUME NEW S, IsFiniteSet(S), NEW f, \A x \in S : f[x] \in Int, NEW x \in S
    PROVE  SumFunctionOnSet(f, S) = f[x] + SumFunctionOnSet(f, S \ {x})
<1>1. PICK g : Sums(g, f, SUBSET S) /\ SumFunctionOnSet(f, S) = g[S]
  BY SumIsSums
<1>2. \A s \in SUBSET S : g[s] = SumFunctionOnSet(f, s)
  <2> TAKE s \in SUBSET S
  <2>1. IsFiniteSet(s)
    BY FS_Subset
  <2>2. PICK h : Sums(h, f, SUBSET s) /\ SumFunctionOnSet(f, s) = h[s]
    BY <2>1, SumIsSums
  <2>3. Sums(g, f, SUBSET S) /\ Sums(h, f, SUBSET s) /\ s \in SUBSET S
    BY <1>1, <2>2
  <2>4. h[s] = g[s]
    BY <2>3, SumsAgree, Zenon
  <2> QED BY <2>2, <2>4
<1>3. \A s \in SUBSET S : g[s] \in Int
  <2> TAKE s \in SUBSET S
  <2>1. IsFiniteSet(s)
    BY FS_Subset
  <2> QED BY <1>2, <2>1, SumType
<1> DEFINE P == {n \in Nat : \A s \in SUBSET S : \A y \in s :
                    Cardinality(s) = n => g[s] = f[y] + g[s \ {y}]}
<1>0. \A s \in SUBSET S : IsFiniteSet(s) /\ Cardinality(s) \in Nat
  BY FS_Subset, FS_CardinalityType
<1>4. 0 \in P
  BY <1>0, FS_EmptySet
<1>5. ASSUME NEW n \in Nat, n \in P
      PROVE  n + 1 \in P
  <2>0. \A t \in SUBSET S : \A z \in t : Cardinality(t) = n => g[t] = f[z] + g[t \ {z}]
    BY <1>5
  <2> HIDE DEF P
  <2>1. ASSUME NEW s \in SUBSET S, NEW y \in s, Cardinality(s) = n + 1
        PROVE  g[s] = f[y] + g[s \ {y}]
    <3> DEFINE p == Pick(s)
    <3>1. p \in s
      BY PickIn
    <3>2. g[s] = f[p] + g[s \ {p}]
      BY <1>1, <3>1, SumsStep
    <3>3. CASE y = p
      BY <3>2, <3>3
    <3>4. CASE y # p
      <4>1. /\ Cardinality(s \ {p}) = n
            /\ Cardinality(s \ {y}) = n
        BY <2>1, <3>1, <1>0, OneLess
      <4>2. /\ g[s \ {p}] = f[y] + g[(s \ {p}) \ {y}]
            /\ g[s \ {y}] = f[p] + g[(s \ {y}) \ {p}]
        BY <2>0, <3>1, <3>4, <4>1
      <4>3. (s \ {p}) \ {y} = (s \ {y}) \ {p}
        OBVIOUS
      <4>4. f[p] \in Int /\ f[y] \in Int /\ g[(s \ {p}) \ {y}] \in Int
        BY <1>3, <3>1
      <4>5. \A a, b, c \in Int : a + (b + c) = b + (a + c)
        OBVIOUS
      <4>6. g[s] = f[p] + (f[y] + g[(s \ {p}) \ {y}])
        BY <3>2, <4>2
      <4>7. g[s \ {y}] = f[p] + g[(s \ {p}) \ {y}]
        BY <4>2, <4>3
      <4>8. f[p] + (f[y] + g[(s \ {p}) \ {y}]) = f[y] + (f[p] + g[(s \ {p}) \ {y}])
        BY <4>4, <4>5
      <4> QED BY <4>6, <4>7, <4>8, Zenon
    <3> QED BY <3>3, <3>4
  <2> QED BY <2>1 DEF P
<1>6. \A n \in Nat : n \in P
  BY <1>4, <1>5, SetInduction
<1>7. g[S] = f[x] + g[S \ {x}]
  BY <1>0, <1>6
<1> QED BY <1>1, <1>2, <1>7


-----------------------------------------------------------------------------
(* The sum over an interval grows by its last summand.                      *)
LEMMA SumLast ==
    ASSUME NEW f, NEW a \in Int, NEW b \in Int, a <= b, \A t \in a .. b : f[t] \in Int
    PROVE  SumFunctionOnSet(f, a .. b) = SumFunctionOnSet(f, a .. b - 1) + f[b]
<1>1. IsFiniteSet(a .. b) /\ b \in a .. b
  BY FS_Interval
<1>2. SumFunctionOnSet(f, a .. b) = f[b] + SumFunctionOnSet(f, (a .. b) \ {b})
  BY <1>1, SumSplit
<1>3. (a .. b) \ {b} = a .. b - 1
  OBVIOUS
<1>4. SumFunctionOnSet(f, a .. b - 1) \in Int
  <2>1. \A t \in a .. b - 1 : f[t] \in Int
    OBVIOUS
  <2>2. IsFiniteSet(a .. b - 1)
    BY FS_Interval
  <2> QED BY <2>1, <2>2, SumType
<1>5. f[b] \in Int
  BY <1>1
<1> DEFINE S == SumFunctionOnSet(f, a .. b - 1)
<1>6. SumFunctionOnSet(f, a .. b) = f[b] + S
  BY <1>2, <1>3
<1> HIDE DEF S
<1>7. f[b] + S = S + f[b]
  BY <1>4, <1>5 DEF S
<1> QED BY <1>6, <1>7 DEF S

(* The sum of the steps of g over an interval is what it grows by.          *)
LEMMA Telescope ==
    ASSUME NEW f, NEW g, NEW a \in Int, NEW b \in Int, a <= b,
           \A t \in a .. b : g[t] \in Int,
           \A t \in a .. b - 1 : f[t] = g[t + 1] - g[t]
    PROVE  SumFunctionOnSet(f, a .. b - 1) = g[b] - g[a]
<1> DEFINE P == {n \in Nat : a + n <= b =>
                    SumFunctionOnSet(f, a .. a + n - 1) = g[a + n] - g[a]}
<1>1. 0 \in P
  <2>1. a .. a + 0 - 1 = {}
    OBVIOUS
  <2>2. SumFunctionOnSet(f, a .. a + 0 - 1) = 0
    BY <2>1, SumEmpty
  <2>3. g[a + 0] - g[a] = 0
    OBVIOUS
  <2> QED BY <2>2, <2>3
<1>2. ASSUME NEW n \in Nat, n \in P
      PROVE  n + 1 \in P
  <2> SUFFICES ASSUME a + (n + 1) <= b
               PROVE  SumFunctionOnSet(f, a .. a + (n + 1) - 1) = g[a + (n + 1)] - g[a]
    OBVIOUS
  <2>1. SumFunctionOnSet(f, a .. a + n - 1) = g[a + n] - g[a]
    BY <1>2
  <2> HIDE DEF P
  <2>2. a + (n + 1) - 1 = a + n /\ a <= a + n /\ a + n \in Int
    OBVIOUS
  <2>3. \A t \in a .. a + n : f[t] \in Int
    OBVIOUS
  <2>4. SumFunctionOnSet(f, a .. a + n) = SumFunctionOnSet(f, a .. a + n - 1) + f[a + n]
    BY <2>2, <2>3, SumLast
  <2>5. f[a + n] = g[a + (n + 1)] - g[a + n]
    <3>1. a + n \in a .. b - 1 /\ (a + n) + 1 = a + (n + 1)
      OBVIOUS
    <3> QED BY <3>1
  <2>6. g[a] \in Int /\ g[a + n] \in Int /\ g[a + (n + 1)] \in Int
    <3>1. a \in a .. b /\ a + n \in a .. b /\ a + (n + 1) \in a .. b
      OBVIOUS
    <3> QED BY <3>1
  <2>7. \A x, y, z \in Int : (y - x) + (z - y) = z - x
    OBVIOUS
  <2>8. (g[a + n] - g[a]) + (g[a + (n + 1)] - g[a + n]) = g[a + (n + 1)] - g[a]
    BY <2>6, <2>7
  <2> QED BY <2>1, <2>2, <2>4, <2>5, <2>8, Zenon
<1>3. \A n \in Nat : n \in P
  BY <1>1, <1>2, SetInduction
<1>4. b - a \in Nat /\ a + (b - a) = b
  OBVIOUS
<1>5. a + (b - a) <= b =>
        SumFunctionOnSet(f, a .. a + (b - a) - 1) = g[a + (b - a)] - g[a]
  BY <1>3, <1>4
<1> QED BY <1>4, <1>5

(* Sums of the same summands are the same.                                  *)
LEMMA SumSame ==
    ASSUME NEW f, NEW k, NEW a \in Int, NEW b \in Int,
           \A t \in a .. b : f[t] \in Int /\ k[t] = f[t]
    PROVE  SumFunctionOnSet(k, a .. b) = SumFunctionOnSet(f, a .. b)
<1> DEFINE P == {n \in Nat : a + n - 1 <= b =>
        SumFunctionOnSet(k, a .. a + n - 1) = SumFunctionOnSet(f, a .. a + n - 1)}
<1>1. 0 \in P
  <2>1. a .. a + 0 - 1 = {}
    OBVIOUS
  <2>2. SumFunctionOnSet(k, a .. a + 0 - 1) = 0 /\ SumFunctionOnSet(f, a .. a + 0 - 1) = 0
    BY <2>1, SumEmpty
  <2> QED BY <2>2
<1>2. ASSUME NEW n \in Nat, n \in P
      PROVE  n + 1 \in P
  <2> SUFFICES ASSUME a + (n + 1) - 1 <= b
               PROVE  SumFunctionOnSet(k, a .. a + (n + 1) - 1)
                        = SumFunctionOnSet(f, a .. a + (n + 1) - 1)
    OBVIOUS
  <2>1. SumFunctionOnSet(k, a .. a + n - 1) = SumFunctionOnSet(f, a .. a + n - 1)
    BY <1>2
  <2> HIDE DEF P
  <2>2. a + (n + 1) - 1 = a + n /\ a <= a + n /\ a + n \in Int
    OBVIOUS
  <2>3. \A t \in a .. a + n : f[t] \in Int /\ k[t] = f[t] /\ k[t] \in Int
    <3>1. \A t \in a .. a + n : t \in a .. b
      OBVIOUS
    <3> QED BY <3>1
  <2>4. SumFunctionOnSet(f, a .. a + n) = SumFunctionOnSet(f, a .. a + n - 1) + f[a + n]
    BY <2>2, <2>3, SumLast
  <2>5. SumFunctionOnSet(k, a .. a + n) = SumFunctionOnSet(k, a .. a + n - 1) + k[a + n]
    BY <2>2, <2>3, SumLast
  <2>6. a + n \in a .. a + n
    BY <2>2
  <2>7. k[a + n] = f[a + n]
    BY <2>3, <2>6
  <2> QED BY <2>1, <2>2, <2>4, <2>5, <2>7, Zenon
<1>3. \A n \in Nat : n \in P
  BY <1>1, <1>2, SetInduction
<1>4. CASE a <= b
  <2>1. b - a + 1 \in Nat /\ a + (b - a + 1) - 1 = b
    BY <1>4
  <2>2. a + (b - a + 1) - 1 <= b =>
          SumFunctionOnSet(k, a .. a + (b - a + 1) - 1)
            = SumFunctionOnSet(f, a .. a + (b - a + 1) - 1)
    BY <1>3, <2>1
  <2> QED BY <2>1, <2>2
<1>5. CASE b < a
  <2>1. a .. b = {}
    BY <1>5
  <2> QED BY <2>1, SumEmpty
<1> QED BY <1>4, <1>5

-----------------------------------------------------------------------------
(* A set of natural numbers that is not empty has a least element.          *)
LEMMA MinIn ==
    ASSUME NEW S \in SUBSET Nat, S # {}
    PROVE  Min(S) \in S /\ \A y \in S : Min(S) <= y
<1>1. PICK n \in S : \A m \in S : <<m, n>> \notin OpToRel(<, Nat)
  BY WFMin, NatLessThanWellFounded
<1>2. \A m \in S : n <= m
  <2> TAKE m \in S
  <2>1. ~ (m < n)
    BY <1>1 DEF OpToRel
  <2>2. m \in Nat /\ n \in Nat
    OBVIOUS
  <2> QED BY <2>1, <2>2
<1> QED BY <1>2 DEF Min

(* And one that is bounded has a largest.                                   *)
LEMMA MaxIn ==
    ASSUME NEW S \in SUBSET Nat, S # {}, NEW b \in Nat, \A y \in S : y <= b
    PROVE  Max(S) \in S /\ \A y \in S : y <= Max(S)
<1> DEFINE T == {b - y : y \in S}
<1>1. T \in SUBSET Nat /\ T # {}
  <2>1. \A y \in S : b - y \in Nat
    OBVIOUS
  <2> QED BY <2>1
<1>2. Min(T) \in T /\ \A z \in T : Min(T) <= z
  BY <1>1, MinIn
<1>3. PICK x \in S : Min(T) = b - x
  BY <1>2
<1>4. \A y \in S : x >= y
  <2> TAKE y \in S
  <2>1. b - x <= b - y
    BY <1>2, <1>3
  <2> QED BY <2>1
<1>5. Max(S) \in S /\ \A y \in S : Max(S) >= y
  BY <1>4 DEF Max
<1> QED BY <1>5

(* So has one that is finite.                                               *)
LEMMA FiniteMax ==
    ASSUME NEW S \in SUBSET Nat, S # {}, IsFiniteSet(S)
    PROVE  Max(S) \in S /\ \A y \in S : y <= Max(S)
<1> DEFINE Bounded(s) == \E b \in Nat : \A y \in s : y <= b
           P == {n \in Nat : \A s \in SUBSET S : Cardinality(s) = n => Bounded(s)}
<1>0. \A s \in SUBSET S : IsFiniteSet(s) /\ Cardinality(s) \in Nat
  BY FS_Subset, FS_CardinalityType
<1>1. 0 \in P
  <2>1. \A s \in SUBSET S : Cardinality(s) = 0 => s = {}
    BY <1>0, FS_EmptySet
  <2>2. \A y \in {} : y <= 0
    OBVIOUS
  <2> QED BY <2>1, <2>2
<1>2. ASSUME NEW n \in Nat, n \in P
      PROVE  n + 1 \in P
  <2>0. \A s \in SUBSET S : Cardinality(s) = n => Bounded(s)
    BY <1>2
  <2> HIDE DEF P
  <2>1. ASSUME NEW s \in SUBSET S, Cardinality(s) = n + 1
        PROVE  Bounded(s)
    <3>1. PICK x : x \in s
      BY <2>1, FS_EmptySet
    <3>2. Cardinality(s \ {x}) = n
      BY <2>1, <3>1, <1>0, OneLess
    <3>3. PICK b \in Nat : \A y \in s \ {x} : y <= b
      BY <2>0, <3>2
    <3>4. x \in Nat
      BY <3>1
    <3>5. \A y \in s : y <= b + x
      <4> TAKE y \in s
      <4>1. y \in Nat
        OBVIOUS
      <4>2. y = x \/ y <= b
        BY <3>3
      <4> QED BY <3>4, <4>1, <4>2
    <3>6. b + x \in Nat
      BY <3>4
    <3> QED BY <3>5, <3>6
  <2> HIDE DEF Bounded
  <2> QED BY <2>1 DEF P
<1>3. \A n \in Nat : n \in P
  BY <1>1, <1>2, SetInduction
<1>4. PICK b \in Nat : \A y \in S : y <= b
  BY <1>0, <1>3
<1> QED BY <1>4, MaxIn

(* The smaller of two numbers.                                              *)
LEMMA MinOfTwo ==
    ASSUME NEW a \in Int, NEW b \in Int
    PROVE  Min({a, b}) = IF a <= b THEN a ELSE b
<1> DEFINE m == IF a <= b THEN a ELSE b
<1>1. m \in {a, b} /\ \A y \in {a, b} : m <= y
  OBVIOUS
<1>2. Min({a, b}) \in {a, b} /\ \A y \in {a, b} : Min({a, b}) <= y
  BY <1>1 DEF Min
<1> QED BY <1>2

-----------------------------------------------------------------------------
(* The longest measurement is as long as any.                               *)
LEMMA Constants ==
    /\ Tick \in Nat \ {0} /\ MaxTick \in Nat \ {0} /\ Start \in Nat /\ Horizon \in Nat
    /\ MaxDelay \in Nat /\ MaxCount \in Nat /\ Start > 2 * MaxTick /\ Start <= Horizon
    /\ \A P \in Periods \cup References : P \in Nat \ {0} /\ P <= MaxTick
<1> DEFINE S == Periods \cup References
<1>1. S \in SUBSET Nat /\ S # {} /\ IsFiniteSet(S)
  BY CalculatorAssumption, FS_Union
<1>2. MaxTick \in S /\ \A P \in S : P <= MaxTick
  BY <1>1, FiniteMax DEF MaxTick
<1> QED BY <1>2, CalculatorAssumption

(* The fields of a sample.                                                  *)
LEMMA SampleType ==
    ASSUME NEW s \in Seq(Registers), NEW i \in DOMAIN s
    PROVE  /\ s[i] \in Registers /\ s[i].ts \in Nat
           /\ s[i].count \in 0 .. MaxCount /\ s[i].count \in Int
           /\ s[i].flow \in -1 .. 1 /\ s[i].flow \in Int
<1>1. s[i] \in Registers
  OBVIOUS
<1>2. s[i].ts \in Nat /\ s[i].count \in 0 .. MaxCount /\ s[i].flow \in -1 .. 1
  BY <1>1 DEF Registers
<1> QED BY <1>1, <1>2, Constants

(* The count at a time is a count.                                          *)
LEMMA CountType ==
    ASSUME NEW o \in Seq(Registers), NEW t \in Int
    PROVE  CountIn(o, t) \in 0 .. MaxCount /\ CountIn(o, t) \in Int
<1> DEFINE past == {i \in DOMAIN o : o[i].ts <= t}
<1>1. CASE past = {}
  BY <1>1, Constants DEF CountIn
<1>2. CASE past # {}
  <2>1. past \in SUBSET Nat /\ Len(o) \in Nat /\ \A i \in past : i <= Len(o)
    OBVIOUS
  <2>2. Max(past) \in past
    BY <1>2, <2>1, MaxIn
  <2>3. o[Max(past)] \in Registers
    BY <2>2
  <2>4. o[Max(past)].count \in 0 .. MaxCount /\ o[Max(past)].count \in Int
    BY <2>3, Constants DEF Registers
  <2>5. CountIn(o, t) = o[Max(past)].count
    BY <1>2 DEF CountIn
  <2> QED BY <2>4, <2>5, Zenon
<1> QED BY <1>1, <1>2

(* It is what the last register up to then says.                            *)
LEMMA CountLast ==
    ASSUME NEW o \in Seq(Registers), o # <<>>, NEW t \in Int, o[Len(o)].ts <= t
    PROVE  CountIn(o, t) = o[Len(o)].count
<1> DEFINE past == {i \in DOMAIN o : o[i].ts <= t}
<1>1. /\ Len(o) \in past /\ past \in SUBSET Nat /\ Len(o) \in Nat
      /\ \A i \in past : i <= Len(o)
  OBVIOUS
<1>2. Max(past) \in past /\ \A i \in past : i <= Max(past)
  BY <1>1, MaxIn
<1>3. Max(past) = Len(o)
  <2>1. Max(past) \in Nat /\ Max(past) <= Len(o) /\ Len(o) <= Max(past)
    BY <1>1, <1>2, Zenon
  <2> QED BY <1>1, <2>1
<1> QED BY <1>1, <1>3 DEF CountIn

(* A new register counts from its time on.                                  *)
LEMMA CountAppend ==
    ASSUME NEW o \in Seq(Registers), NEW r \in Registers, NEW t \in Int
    PROVE  CountIn(Append(o, r), t) = IF r.ts <= t THEN r.count ELSE CountIn(o, t)
<1> DEFINE q == Append(o, r)
<1>1. /\ q \in Seq(Registers) /\ q # <<>> /\ Len(q) = Len(o) + 1 /\ q[Len(q)] = r
      /\ DOMAIN q = 1 .. Len(o) + 1 /\ \A i \in DOMAIN o : q[i] = o[i]
  OBVIOUS
<1>2. CASE r.ts <= t
  <2>1. CountIn(q, t) = r.count
    BY <1>1, <1>2, CountLast
  <2> QED BY <1>2, <2>1
<1>3. CASE ~ (r.ts <= t)
  <2>1. {i \in DOMAIN q : q[i].ts <= t} = {i \in DOMAIN o : o[i].ts <= t}
    BY <1>1, <1>3
  <2>2. CountIn(q, t) = CountIn(o, t)
    <3>1. \A i \in DOMAIN o : q[i].count = o[i].count
      BY <1>1
    <3>2. {i \in DOMAIN o : o[i].ts <= t} # {} =>
                Max({i \in DOMAIN o : o[i].ts <= t}) \in DOMAIN o
      <4> DEFINE past == {i \in DOMAIN o : o[i].ts <= t}
      <4>1. past \in SUBSET Nat /\ Len(o) \in Nat /\ \A i \in past : i <= Len(o)
        OBVIOUS
      <4> QED BY <4>1, MaxIn
    <3> QED BY <2>1, <3>1, <3>2 DEF CountIn
  <2> QED BY <1>3, <2>2
<1> QED BY <1>2, <1>3

-----------------------------------------------------------------------------
(* The area is a number.                                                    *)
LEMMA AreaType ==
    ASSUME NEW o \in Seq(Registers), NEW a \in Nat
    PROVE  AreaIn(o, a) \in Int
<1> DEFINE f == [u \in Nat |-> CountIn(o, u)]
<1>1. \A t \in 0 .. a - 1 : f[t] \in Int
  BY CountType
<1>2. IsFiniteSet(0 .. a - 1)
  BY FS_Interval
<1> HIDE DEF f
<1>3. SumFunctionOnSet(f, 0 .. a - 1) \in Int
  BY <1>1, <1>2, SumType
<1> QED BY <1>3 DEF AreaIn, f

(* It grows by the count.                                                   *)
LEMMA AreaStep ==
    ASSUME NEW o \in Seq(Registers), NEW a \in Nat
    PROVE  AreaIn(o, a + 1) = AreaIn(o, a) + CountIn(o, a)
<1> DEFINE f == [u \in Nat |-> CountIn(o, u)]
<1>1. \A t \in 0 .. a : f[t] \in Int
  BY CountType
<1>2. f[a] = CountIn(o, a)
  OBVIOUS
<1> HIDE DEF f
<1>3. SumFunctionOnSet(f, 0 .. a) = SumFunctionOnSet(f, 0 .. a - 1) + f[a]
  BY <1>1, SumLast
<1>4. (a + 1) - 1 = a
  OBVIOUS
<1> QED BY <1>2, <1>3, <1>4 DEF AreaIn, f

(* The sum of the counts between two times is a difference of areas.        *)
LEMMA AreaBetween ==
    ASSUME NEW o \in Seq(Registers), NEW a \in Nat, NEW b \in Nat, a <= b
    PROVE  SumFunction([t \in a .. b - 1 |-> CountIn(o, t)]) = AreaIn(o, b) - AreaIn(o, a)
<1> DEFINE f == [t \in a .. b - 1 |-> CountIn(o, t)]
           g == [t \in Nat |-> AreaIn(o, t)]
<1>1. \A t \in a .. b : g[t] \in Int
  BY AreaType
<1>2. \A t \in a .. b - 1 : f[t] = g[t + 1] - g[t]
  <2> TAKE t \in a .. b - 1
  <2>1. t \in Nat /\ t + 1 \in Nat
    OBVIOUS
  <2>2. AreaIn(o, t + 1) = AreaIn(o, t) + CountIn(o, t)
    BY <2>1, AreaStep
  <2>3. AreaIn(o, t) \in Int /\ CountIn(o, t) \in Int
    <3>1. t \in Int
      OBVIOUS
    <3> QED BY <2>1, <3>1, AreaType, CountType
  <2>4. f[t] = CountIn(o, t) /\ g[t] = AreaIn(o, t) /\ g[t + 1] = AreaIn(o, t + 1)
    BY <2>1
  <2>5. \A x, y \in Int : (x + y) - x = y
    OBVIOUS
  <2> HIDE DEF f, g
  <2> QED BY <2>2, <2>3, <2>4, <2>5
<1>3. DOMAIN f = a .. b - 1
  OBVIOUS
<1>4. g[b] = AreaIn(o, b) /\ g[a] = AreaIn(o, a)
  OBVIOUS
<1> HIDE DEF f, g
<1>5. SumFunctionOnSet(f, a .. b - 1) = g[b] - g[a]
  <2>1. a \in Int /\ b \in Int
    OBVIOUS
  <2> QED BY <2>1, <1>1, <1>2, Telescope
<1>6. SumFunction(f) = AreaIn(o, b) - AreaIn(o, a)
  BY <1>3, <1>4, <1>5 DEF SumFunction
<1> QED BY <1>6 DEF f

(* While the count stays the same, the area grows evenly.                   *)
LEMMA AreaEven ==
    ASSUME NEW o \in Seq(Registers), NEW a \in Nat, NEW b \in Nat, a <= b, NEW c \in Int,
           \A t \in Nat : a <= t /\ t < b => CountIn(o, t) = c
    PROVE  AreaIn(o, b) = AreaIn(o, a) + c * (b - a)
<1> DEFINE P == {n \in Nat : a + n <= b => AreaIn(o, a + n) = AreaIn(o, a) + c * n}
<1>1. 0 \in P
  <2>1. AreaIn(o, a) \in Int
    BY AreaType
  <2>2. a + 0 = a /\ c * 0 = 0
    OBVIOUS
  <2> QED BY <2>1, <2>2
<1>2. ASSUME NEW n \in Nat, n \in P
      PROVE  n + 1 \in P
  <2> SUFFICES ASSUME a + (n + 1) <= b
               PROVE  AreaIn(o, a + (n + 1)) = AreaIn(o, a) + c * (n + 1)
    OBVIOUS
  <2>1. AreaIn(o, a + n) = AreaIn(o, a) + c * n
    BY <1>2
  <2> HIDE DEF P
  <2>2. a + n \in Nat /\ a + (n + 1) = (a + n) + 1 /\ a <= a + n /\ a + n < b
    OBVIOUS
  <2>3. AreaIn(o, (a + n) + 1) = AreaIn(o, a + n) + CountIn(o, a + n)
    BY <2>2, AreaStep
  <2>4. CountIn(o, a + n) = c
    BY <2>2
  <2>5. AreaIn(o, a) \in Int
    BY AreaType
  <2>6. \A x \in Int : (x + c * n) + c = x + c * (n + 1)
    OBVIOUS
  <2> QED BY <2>1, <2>2, <2>3, <2>4, <2>5, <2>6
<1>3. \A n \in Nat : n \in P
  BY <1>1, <1>2, SetInduction
<1>4. b - a \in Nat /\ a + (b - a) = b
  OBVIOUS
<1>5. a + (b - a) <= b => AreaIn(o, a + (b - a)) = AreaIn(o, a) + c * (b - a)
  BY <1>3, <1>4
<1> QED BY <1>4, <1>5

(* What is the same until b has the same area until then.                   *)
LEMMA AreaSame ==
    ASSUME NEW o \in Seq(Registers), NEW q \in Seq(Registers), NEW b \in Nat,
           \A t \in Nat : t < b => CountIn(q, t) = CountIn(o, t),
           NEW a \in Nat, a <= b
    PROVE  AreaIn(q, a) = AreaIn(o, a)
<1> DEFINE f == [u \in Nat |-> CountIn(o, u)]
           k == [u \in Nat |-> CountIn(q, u)]
<1>1. \A t \in 0 .. a - 1 : f[t] \in Int /\ k[t] = f[t]
  <2> TAKE t \in 0 .. a - 1
  <2>1. t \in Nat /\ t \in Int /\ t < b
    OBVIOUS
  <2>2. f[t] = CountIn(o, t) /\ k[t] = CountIn(q, t)
    BY <2>1
  <2>3. CountIn(o, t) \in Int /\ CountIn(q, t) = CountIn(o, t)
    BY <2>1, CountType
  <2> QED BY <2>2, <2>3
<1> HIDE DEF f, k
<1>2. SumFunctionOnSet(k, 0 .. a - 1) = SumFunctionOnSet(f, 0 .. a - 1)
  BY <1>1, SumSame
<1> QED BY <1>2 DEF AreaIn, f, k

-----------------------------------------------------------------------------
(* What Slide does, but for the flows: r are the samples s from the m-th on *)
(* of which the first may have been moved to edge.                          *)
Slid(r, s, edge, m) ==
    /\ s \in Seq(Registers) /\ edge \in Int /\ m \in DOMAIN s
    /\ r \in Seq(Registers) /\ Len(r) = Len(s) - m + 1
    /\ \A i \in 2 .. Len(r) : r[i] = s[m + i - 1]
    /\ r[1].count = s[m].count
    /\ \/ r[1].ts = s[m].ts
       \/ r[1].ts = edge /\ s[m].ts < edge /\ m < Len(s)
    /\ m > 1 => s[m].ts <= edge

(* What Slide does to the flow of the first sample: it loses it if it is    *)
(* moved, unless keep.                                                      *)
SlidFlow(r, s, edge, m, keep) ==
    \/ r[1] = s[m]
    \/ r[1].ts = edge /\ s[m].ts < edge /\ m < Len(s) /\ (keep \/ r[1].flow = 0)

(* Slide keeps at least the last sample, and moves the first one it keeps   *)
(* only if that one is not the last.                                        *)
LEMMA SlideSlid ==
    ASSUME NEW s \in Seq(Registers), s # <<>>, NEW edge \in Int, NEW keepFlow \in BOOLEAN
    PROVE  \E m \in DOMAIN s : /\ Slid(Slide(s, edge, keepFlow), s, edge, m)
                               /\ SlidFlow(Slide(s, edge, keepFlow), s, edge, m, keepFlow)
<1> DEFINE D == {i \in DOMAIN s : ~ Droppable(s, i, edge)}
           m == Min(D)
           rest == SubSeq(s, m, Len(s))
<1>1. D \in SUBSET Nat /\ Len(s) \in D /\ Len(s) \in Nat
  BY DEF Droppable
<1>2. m \in D /\ \A i \in D : m <= i
  BY <1>1, MinIn
<1>3. m \in DOMAIN s /\ m \in 1 .. Len(s)
  BY <1>2
<1> HIDE DEF m, D
<1>4. m > 1 => s[m].ts <= edge
  <2> SUFFICES ASSUME m > 1 PROVE s[m].ts <= edge
    OBVIOUS
  <2>0. m \in Nat /\ Len(s) \in Nat /\ m <= Len(s)
    BY <1>3
  <2>1. m - 1 \in DOMAIN s /\ m - 1 \notin D
    <3>1. m - 1 \in 1 .. Len(s) /\ ~ (m <= m - 1)
      BY <2>0
    <3> QED BY <1>2, <3>1
  <2>2. Droppable(s, m - 1, edge) /\ (m - 1) + 1 = m
    BY <2>0, <2>1 DEF D
  <2> QED BY <2>2 DEF Droppable
<1>5. /\ rest \in Seq(Registers) /\ Len(rest) = Len(s) - m + 1
      /\ \A i \in 1 .. Len(rest) : rest[i] = s[m + i - 1]
  BY <1>3
<1>6. rest[1] = s[m] /\ s[m] \in Registers /\ rest # <<>>
  BY <1>3, <1>5
<1>7. Slide(s, edge, keepFlow) =
        IF rest[1].ts < edge /\ Len(rest) > 1
        THEN [rest EXCEPT ![1].ts = edge, ![1].flow = IF keepFlow THEN @ ELSE 0]
        ELSE rest
  BY DEF Slide, m, D
<1> HIDE DEF rest
<1>8. CASE rest[1].ts < edge /\ Len(rest) > 1
  <2> DEFINE e == [rest[1] EXCEPT !.ts = edge, !.flow = IF keepFlow THEN @ ELSE 0]
             r == [rest EXCEPT ![1] = e]
  <2>1. Slide(s, edge, keepFlow) = r
    BY <1>7, <1>8
  <2>2. e \in Registers /\ e.ts = edge /\ e.count = s[m].count /\ (keepFlow \/ e.flow = 0)
    <3>1. edge \in Nat /\ rest[1] \in Registers
      BY <1>6, <1>8 DEF Registers
    <3>2. CASE keepFlow
      <4>1. e = [rest[1] EXCEPT !.ts = edge, !.flow = @]
        BY <3>2
      <4> QED BY <1>6, <3>1, <3>2, <4>1 DEF Registers
    <3>3. CASE ~ keepFlow
      <4>1. e = [rest[1] EXCEPT !.ts = edge, !.flow = 0]
        BY <3>3
      <4> HIDE DEF e
      <4>2. e = [ts |-> edge, count |-> rest[1].count, flow |-> 0]
        <5> DEFINE x == rest[1]
        <5>1. x \in [ts : Nat, count : 0 .. MaxCount, flow : -1 .. 1]
          BY <3>1 DEF Registers
        <5>2. e = [x EXCEPT !.ts = edge, !.flow = 0]
          BY <4>1
        <5> HIDE DEF x
        <5>3. e = [ts |-> edge, count |-> x.count, flow |-> 0]
          BY <5>1, <5>2
        <5> QED BY <5>3 DEF x
      <4>3. rest[1].count \in 0 .. MaxCount
        BY <3>1 DEF Registers
      <4> QED BY <1>6, <3>1, <4>2, <4>3 DEF Registers
    <3> QED BY <3>2, <3>3
  <2>3. m < Len(s)
    BY <1>3, <1>5, <1>8
  <2> HIDE DEF e
  <2>4. /\ r \in Seq(Registers) /\ Len(r) = Len(rest) /\ r[1] = e
        /\ \A i \in 2 .. Len(r) : r[i] = rest[i]
    BY <1>5, <1>6, <2>2
  <2> HIDE DEF r
  <2>5. Slid(r, s, edge, m)
    BY <1>3, <1>4, <1>5, <1>6, <1>8, <2>2, <2>3, <2>4 DEF Slid
  <2>6. SlidFlow(r, s, edge, m, keepFlow)
    BY <1>6, <1>8, <2>2, <2>3, <2>4 DEF SlidFlow
  <2> QED BY <1>3, <2>1, <2>5, <2>6
<1>9. CASE ~ (rest[1].ts < edge /\ Len(rest) > 1)
  <2>1. rest[1].count = s[m].count /\ rest[1].ts = s[m].ts
    BY <1>6
  <2>2. \A i \in 2 .. Len(rest) : rest[i] = s[m + i - 1]
    BY <1>5
  <2>3. Slid(rest, s, edge, m)
    BY <1>3, <1>4, <1>5, <2>1, <2>2 DEF Slid
  <2>4. SlidFlow(rest, s, edge, m, keepFlow)
    BY <1>6 DEF SlidFlow
  <2> QED BY <1>3, <1>7, <1>9, <2>3, <2>4
<1> QED BY <1>8, <1>9

(* What is always true of the samples that are left.                        *)
LEMMA SlidFacts ==
    ASSUME NEW s, NEW edge, NEW m, NEW r, Slid(r, s, edge, m)
    PROVE  /\ r \in Seq(Registers) /\ r # <<>> /\ Len(r) \in Nat \ {0} /\ m \in 1 .. Len(s)
           /\ DOMAIN r = 1 .. Len(r) /\ DOMAIN s = 1 .. Len(s)
           /\ \A i \in DOMAIN r : m + i - 1 \in DOMAIN s /\ r[i].count = s[m + i - 1].count
           /\ \A i \in DOMAIN r : s[m + i - 1].ts <= r[i].ts /\ r[i].ts \in Nat
           /\ Latest(r).count = Latest(s).count /\ Latest(r).ts = Latest(s).ts
<1>0. s \in Seq(Registers) /\ edge \in Int
  BY DEF Slid
<1>1. /\ r \in Seq(Registers) /\ m \in 1 .. Len(s) /\ Len(r) = Len(s) - m + 1
      /\ DOMAIN r = 1 .. Len(r) /\ DOMAIN s = 1 .. Len(s) /\ Len(s) \in Nat
  BY DEF Slid
<1>2. Len(r) \in Nat \ {0} /\ r # <<>>
  BY <1>1
<1>3. \A i \in DOMAIN r : r[i] \in Registers
  BY <1>1
<1>4. \A i \in DOMAIN s : s[i] \in Registers
  BY <1>0
<1>5. ASSUME NEW i \in DOMAIN r
      PROVE  /\ m + i - 1 \in DOMAIN s /\ r[i].count = s[m + i - 1].count
             /\ s[m + i - 1].ts <= r[i].ts /\ r[i].ts \in Nat
  <2>1. m + i - 1 \in DOMAIN s
    BY <1>1
  <2>2. r[i].ts \in Nat /\ s[m + i - 1].ts \in Nat
    BY <1>3, <1>4, <2>1 DEF Registers
  <2>3. CASE i = 1
    <3>1. m + i - 1 = m
      BY <1>1, <2>3
    <3>2. r[1].count = s[m].count
      BY DEF Slid
    <3>3. r[1].ts = s[m].ts \/ (r[1].ts = edge /\ s[m].ts < edge)
      BY Zenon DEF Slid
    <3> QED BY <1>0, <2>1, <2>2, <2>3, <3>1, <3>2, <3>3
  <2>4. CASE i # 1
    <3>1. i \in 2 .. Len(r)
      BY <1>1, <2>4
    <3>2. r[i] = s[m + i - 1]
      BY <3>1 DEF Slid
    <3> QED BY <2>1, <2>2, <3>2
  <2> QED BY <2>3, <2>4
<1>6. Latest(r).count = Latest(s).count /\ Latest(r).ts = Latest(s).ts
  <2>1. m + Len(r) - 1 = Len(s)
    BY <1>1
  <2>2. CASE Len(r) = 1
    <3>1. m = Len(s)
      <4>1. Len(s) \in Int /\ Len(r) = Len(s) - m + 1
        BY <1>1
      <4>2. m \in Int
        BY <1>1
      <4>3. \A l, x \in Int : 1 = l - x + 1 => x = l
        OBVIOUS
      <4> QED BY <2>2, <4>1, <4>2, <4>3, Zenon
    <3>2. r[1].count = s[m].count
      BY DEF Slid
    <3>3. r[1].ts = s[m].ts \/ m < Len(s)
      BY Zenon DEF Slid
    <3> QED BY <1>1, <2>2, <3>1, <3>2, <3>3 DEF Latest
  <2>3. CASE Len(r) # 1
    <3>1. Len(r) \in 2 .. Len(r)
      <4>1. \A n \in Nat \ {0} : n # 1 => n \in 2 .. n
        OBVIOUS
      <4> QED BY <1>2, <2>3, <4>1, Zenon
    <3>2. r[Len(r)] = s[m + Len(r) - 1]
      BY <3>1 DEF Slid
    <3> QED BY <2>1, <3>2 DEF Latest
  <2> QED BY <2>2, <2>3
<1> QED BY <1>1, <1>2, <1>5, <1>6

-----------------------------------------------------------------------------
(* A sample e that is added to s still holds when the registers go on as    *)
(* they were before its time and with its count after.                      *)
LEMMA LastsAppend ==
    ASSUME NEW s \in Seq(Registers), NEW e \in Registers, NEW o, NEW p, Lasts(s, o),
           \A t \in Nat : t < e.ts => CountIn(p, t) = CountIn(o, t),
           \A t \in Nat : e.ts <= t => CountIn(p, t) = e.count
    PROVE  Lasts(Append(s, e), p)
<1> DEFINE q == Append(s, e)
           n == Len(s)
<1>1. /\ n \in Nat /\ Len(q) = n + 1 /\ DOMAIN q = 1 .. n + 1 /\ DOMAIN s = 1 .. n
      /\ q[n + 1] = e /\ \A i \in 1 .. n : q[i] = s[i]
  OBVIOUS
<1> HIDE DEF q, n
<1>2. ASSUME NEW k \in DOMAIN q, NEW t \in Nat, q[k].ts <= t,
             \A j \in k + 1 .. Len(q) : t < q[j].ts
      PROVE  CountIn(p, t) = q[k].count
  <2>1. CASE k = n + 1
    BY <1>1, <1>2, <2>1
  <2>2. CASE k \in 1 .. n
    <3>1. n + 1 \in k + 1 .. Len(q)
      BY <1>1, <2>2
    <3>2. t < e.ts
      BY <1>1, <1>2, <3>1
    <3>3. q[k] = s[k] /\ k \in DOMAIN s
      BY <1>1, <2>2
    <3>4. \A j \in k + 1 .. n : t < s[j].ts
      <4> TAKE j \in k + 1 .. n
      <4>1. j \in k + 1 .. Len(q) /\ j \in 1 .. n
        BY <1>1, <2>2
      <4> QED BY <1>1, <1>2, <4>1
    <3>5. CountIn(o, t) = s[k].count
      BY <1>2, <3>3, <3>4 DEF Lasts, n
    <3> QED BY <3>2, <3>3, <3>5
  <2> QED BY <1>1, <2>1, <2>2
<1>3. Lasts(q, p)
  BY <1>2 DEF Lasts
<1> QED BY <1>3 DEF q

(* And its samples tell the area if the one before it leads to e.           *)
LEMMA TellsAppend ==
    ASSUME NEW s \in Seq(Registers), NEW e \in Registers,
           NEW o \in Seq(Registers), NEW p \in Seq(Registers),
           NEW h, Tells(h, s, o),
           \A t \in Nat : t < e.ts => CountIn(p, t) = CountIn(o, t),
           \/ e.ts = 0 \/ s = <<>>
           \/ AreaIn(o, e.ts) = h[Len(s)] + Latest(s).count * (e.ts - Latest(s).ts)
    PROVE  \E g : Tells(g, Append(s, e), p)
<1> DEFINE q == Append(s, e)
           n == Len(s)
           area == AreaIn(p, e.ts)
           g == [i \in 1 .. n + 1 |-> IF i = n + 1 THEN area ELSE h[i]]
<1>1. /\ n \in Nat /\ Len(q) = n + 1 /\ DOMAIN q = 1 .. n + 1 /\ DOMAIN s = 1 .. n
      /\ q[n + 1] = e /\ \A i \in 1 .. n : q[i] = s[i]
  OBVIOUS
<1>2. e.ts \in Nat /\ area \in Int
  <2>1. e.ts \in Nat
    BY DEF Registers
  <2> QED BY <2>1, AreaType
<1>3. s = <<>> \/ n \in 1 .. n
  OBVIOUS
<1>4. \A a \in Nat : a <= e.ts => AreaIn(p, a) = AreaIn(o, a)
  BY <1>2, AreaSame
<1>5. h \in [1 .. n -> Int]
  BY <1>1 DEF Tells
<1> HIDE DEF area
<1>6. /\ g \in [1 .. n + 1 -> Int] /\ g[n + 1] = area
      /\ \A i \in 1 .. n : g[i] = h[i]
  BY <1>1, <1>2, <1>5
<1> HIDE DEF g, q, n
<1>7. ASSUME NEW i \in 1 .. n, q[i + 1].ts # 0
      PROVE  g[i + 1] = g[i] + q[i].count * (q[i + 1].ts - q[i].ts)
  <2>1. CASE i = n
    <3>1. i + 1 = n + 1 /\ e.ts # 0 /\ s # <<>>
      BY <1>1, <1>7, <2>1
    <3>2. AreaIn(o, e.ts) = h[n] + s[n].count * (e.ts - s[n].ts)
      BY <3>1 DEF Latest, n
    <3>3. area = AreaIn(o, e.ts)
      BY <1>2, <1>4 DEF area
    <3> QED BY <1>1, <1>6, <2>1, <3>1, <3>2, <3>3
  <2>2. CASE i # n
    <3>1. i \in 1 .. n - 1 /\ i + 1 \in 1 .. n /\ i \in 1 .. n
      BY <1>1, <2>2
    <3>2. q[i + 1] = s[i + 1] /\ q[i] = s[i] /\ g[i] = h[i] /\ g[i + 1] = h[i + 1]
      BY <1>1, <1>6, <3>1
    <3>3. h[i + 1] = h[i] + s[i].count * (s[i + 1].ts - s[i].ts)
      BY <1>7, <3>1, <3>2 DEF Tells, n
    <3> QED BY <3>2, <3>3
  <2> QED BY <2>1, <2>2
<1>8. ASSUME NEW k \in DOMAIN q, Settled(q, k)
      PROVE  g[k] = AreaIn(p, q[k].ts)
  <2>1. CASE k = n + 1
    BY <1>1, <1>6, <2>1 DEF area
  <2>2. CASE k \in 1 .. n
    <3>1. \A j \in k + 1 .. n + 1 : q[j].ts # 0 /\ q[k].ts <= q[j].ts
      BY <1>1, <1>8 DEF Settled
    <3>2. n + 1 \in k + 1 .. n + 1 /\ \A j \in k + 1 .. n : j \in k + 1 .. n + 1 /\ j \in 1 .. n
      BY <1>1, <2>2
    <3>3. s[k].ts <= e.ts /\ s[k].ts \in Nat
      <4>1. s[k] \in Registers
        BY <1>1, <2>2
      <4>2. q[k] = s[k]
        BY <1>1, <2>2
      <4> QED BY <1>1, <3>1, <3>2, <4>1, <4>2 DEF Registers
    <3>4. Settled(s, k)
      <4> SUFFICES ASSUME NEW j \in k + 1 .. n
                   PROVE  s[j].ts # 0 /\ s[k].ts <= s[j].ts
        BY DEF Settled, n
      <4>1. q[j] = s[j] /\ q[k] = s[k]
        BY <1>1, <2>2, <3>2
      <4> QED BY <3>1, <3>2, <4>1
    <3>5. h[k] = AreaIn(o, s[k].ts)
      BY <1>1, <2>2, <3>4 DEF Tells
    <3>6. AreaIn(p, s[k].ts) = AreaIn(o, s[k].ts)
      BY <1>4, <3>3
    <3> QED BY <1>1, <1>6, <2>2, <3>5, <3>6
  <2> QED BY <1>1, <2>1, <2>2
<1>9. Len(q) - 1 = n
  BY <1>1
<1>10. Tells(g, q, p)
  BY <1>1, <1>6, <1>7, <1>8, <1>9 DEF Tells
<1> QED BY <1>10 DEF q

-----------------------------------------------------------------------------
(* Neither changes when the oldest samples go.                              *)
LEMMA LastsSlid ==
    ASSUME NEW s, NEW edge, NEW m, NEW r, Slid(r, s, edge, m), NEW o, Lasts(s, o)
    PROVE  Lasts(r, o)
<1>1. /\ Len(r) \in Nat /\ m \in 1 .. Len(s) /\ DOMAIN r = 1 .. Len(r)
      /\ DOMAIN s = 1 .. Len(s)
      /\ \A i \in DOMAIN r : m + i - 1 \in DOMAIN s /\ r[i].count = s[m + i - 1].count
      /\ \A i \in DOMAIN r : s[m + i - 1].ts <= r[i].ts /\ r[i].ts \in Nat
  BY SlidFacts
<1>2. /\ Len(r) = Len(s) - m + 1
      /\ \A i \in 2 .. Len(r) : r[i] = s[m + i - 1]
  BY DEF Slid
<1>3. \A i \in DOMAIN s : s[i].ts \in Nat
  BY SampleType DEF Slid
<1>4. ASSUME NEW k \in DOMAIN r, NEW t \in Nat, r[k].ts <= t,
             \A j \in k + 1 .. Len(r) : t < r[j].ts
      PROVE  CountIn(o, t) = r[k].count
  <2> DEFINE l == m + k - 1
  <2>1. l \in DOMAIN s /\ r[k].count = s[l].count
    BY <1>1
  <2>2. s[l].ts <= t
    <3>1. s[l].ts <= r[k].ts /\ r[k].ts \in Nat /\ s[l].ts \in Nat
      BY <1>1, <1>3, <2>1
    <3> QED BY <1>4, <3>1
  <2>3. ASSUME NEW j \in l + 1 .. Len(s) PROVE t < s[j].ts
    <3> DEFINE i == j - m + 1
    <3>1. i \in k + 1 .. Len(r) /\ i \in 2 .. Len(r) /\ m + i - 1 = j
      BY <1>1, <1>2
    <3>2. r[i] = s[j]
      BY <1>2, <3>1
    <3> QED BY <1>4, <3>1, <3>2
  <2>4. CountIn(o, t) = s[l].count
    BY <2>1, <2>2, <2>3 DEF Lasts
  <2> QED BY <2>1, <2>4
<1> QED BY <1>4 DEF Lasts

(* So do the samples that are left: the area grew evenly up to where the    *)
(* first of them was moved.                                                 *)
LEMMA TellsSlid ==
    ASSUME NEW s, NEW edge, NEW m, NEW r, Slid(r, s, edge, m),
           NEW o \in Seq(Registers), Lasts(s, o), NEW h, Tells(h, s, o)
    PROVE  \E g : Tells(g, r, o)
<1> DEFINE moved == h[m] + s[m].count * (r[1].ts - s[m].ts)
           g == [i \in 1 .. Len(r) |-> IF i = 1 THEN moved ELSE h[m + i - 1]]
<1>1. /\ r \in Seq(Registers) /\ r # <<>> /\ Len(r) \in Nat \ {0} /\ m \in 1 .. Len(s)
      /\ DOMAIN r = 1 .. Len(r) /\ DOMAIN s = 1 .. Len(s)
      /\ \A i \in DOMAIN r : m + i - 1 \in DOMAIN s /\ r[i].count = s[m + i - 1].count
      /\ \A i \in DOMAIN r : s[m + i - 1].ts <= r[i].ts /\ r[i].ts \in Nat
      /\ Latest(r).count = Latest(s).count /\ Latest(r).ts = Latest(s).ts
  BY SlidFacts
<1>2. /\ Len(r) = Len(s) - m + 1
      /\ \A i \in 2 .. Len(r) : r[i] = s[m + i - 1]
  BY DEF Slid
<1>3. \A i \in DOMAIN s : s[i].ts \in Nat /\ s[i].count \in Int
  BY SampleType DEF Slid
<1>4. h \in [DOMAIN s -> Int]
  BY DEF Tells
<1>5. /\ r[1].ts \in Nat /\ s[m].ts \in Nat /\ s[m].ts <= r[1].ts
      /\ r[1].count = s[m].count /\ s[m].count \in Int /\ h[m] \in Int
  <2>1. 1 \in DOMAIN r /\ m + 1 - 1 = m
    BY <1>1
  <2>2. s[m].ts <= r[1].ts /\ r[1].ts \in Nat /\ r[1].count = s[m].count /\ m \in DOMAIN s
    BY <1>1, <2>1
  <2> QED BY <1>3, <1>4, <2>2
<1>6. moved \in Int
  BY <1>5
<1>7. \A i \in 2 .. Len(r) : m + i - 1 \in DOMAIN s
  BY <1>1
<1> HIDE DEF moved
<1>8. /\ g \in [DOMAIN r -> Int] /\ g[1] = moved
      /\ \A i \in 2 .. Len(r) : g[i] = h[m + i - 1]
  BY <1>1, <1>4, <1>6, <1>7
<1> HIDE DEF g
<1>9. ASSUME NEW i \in 1 .. Len(r) - 1, r[i + 1].ts # 0
      PROVE  g[i + 1] = g[i] + r[i].count * (r[i + 1].ts - r[i].ts)
  <2> DEFINE l == m + i - 1
  <2>1. i + 1 \in 2 .. Len(r) /\ m + (i + 1) - 1 = l + 1 /\ l \in 1 .. Len(s) - 1
    BY <1>1, <1>2
  <2>2. r[i + 1] = s[l + 1] /\ g[i + 1] = h[l + 1]
    BY <1>2, <1>8, <2>1
  <2>3. h[l + 1] = h[l] + s[l].count * (s[l + 1].ts - s[l].ts)
    BY <1>9, <2>1, <2>2 DEF Tells
  <2>4. CASE i = 1
    <3>1. l = m
      BY <1>1, <2>4
    <3>2. s[m + 1].ts \in Nat
      <4>1. m + 1 \in DOMAIN s
        BY <1>1, <2>1, <3>1
      <4> QED BY <1>3, <4>1
    <3>3. \A a, c, x, y, z \in Int : a + c * (z - x) = (a + c * (y - x)) + c * (z - y)
      OBVIOUS
    <3>4. s[m + 1].ts \in Int /\ r[1].ts \in Int /\ s[m].ts \in Int
      BY <1>5, <3>2
    <3> HIDE DEF l
    <3>5. h[m] + s[m].count * (s[m + 1].ts - s[m].ts)
            = (h[m] + s[m].count * (r[1].ts - s[m].ts))
                + s[m].count * (s[m + 1].ts - r[1].ts)
      BY SMTT(60), <1>5, <3>3, <3>4
    <3>6. h[m] + s[m].count * (s[m + 1].ts - s[m].ts)
            = moved + s[m].count * (s[m + 1].ts - r[1].ts)
      BY <3>5, ZenonT(60) DEF moved
    <3> QED BY <1>5, <1>8, <2>2, <2>3, <2>4, <3>1, <3>6
  <2>5. CASE i # 1
    <3>1. i \in 2 .. Len(r)
      BY <1>1, <2>5
    <3>2. r[i] = s[l] /\ g[i] = h[l]
      BY <1>2, <1>8, <3>1
    <3> QED BY <2>2, <2>3, <3>2
  <2> QED BY <2>4, <2>5
<1>10. ASSUME NEW k \in DOMAIN r, Settled(r, k)
       PROVE  g[k] = AreaIn(o, r[k].ts)
  <2> DEFINE l == m + k - 1
  <2>1. l \in DOMAIN s /\ s[l].ts <= r[k].ts /\ r[k].ts \in Nat /\ s[l].ts \in Nat
    BY <1>1, <1>3
  <2>2. ASSUME NEW j \in l + 1 .. Len(s)
        PROVE  s[j].ts # 0 /\ r[k].ts <= s[j].ts /\ s[j].ts \in Nat
    <3> DEFINE i == j - m + 1
    <3>1. i \in k + 1 .. Len(r) /\ i \in 2 .. Len(r) /\ m + i - 1 = j /\ j \in DOMAIN s
      BY <1>1, <1>2
    <3>2. r[i] = s[j]
      BY <1>2, <3>1
    <3>3. r[i].ts # 0 /\ r[k].ts <= r[i].ts
      BY <1>10, <3>1 DEF Settled
    <3> QED BY <1>3, <3>1, <3>2, <3>3
  <2>3. Settled(s, l)
    BY <2>1, <2>2 DEF Settled
  <2>4. h[l] = AreaIn(o, s[l].ts)
    BY <2>1, <2>3 DEF Tells
  <2>5. CASE k = 1
    <3>1. l = m
      BY <1>1, <2>5
    <3>2. \A t \in Nat : s[m].ts <= t /\ t < r[1].ts => CountIn(o, t) = s[m].count
      <4> SUFFICES ASSUME NEW t \in Nat, s[m].ts <= t, t < r[1].ts
                   PROVE  CountIn(o, t) = s[m].count
        OBVIOUS
      <4>1. \A j \in m + 1 .. Len(s) : t < s[j].ts
        BY <1>5, <2>2, <2>5, <3>1
      <4>2. m \in DOMAIN s
        BY <1>1
      <4> QED BY <4>1, <4>2 DEF Lasts
    <3>3. AreaIn(o, r[1].ts) = AreaIn(o, s[m].ts) + s[m].count * (r[1].ts - s[m].ts)
      BY <1>5, <3>2, AreaEven
    <3> QED BY <1>8, <2>4, <2>5, <3>1, <3>3 DEF moved
  <2>6. CASE k # 1
    <3>1. k \in 2 .. Len(r)
      BY <1>1, <2>6
    <3> QED BY <1>2, <1>8, <2>4, <3>1
  <2> QED BY <2>5, <2>6
<1> QED BY <1>8, <1>9, <1>10 DEF Tells

-----------------------------------------------------------------------------
(* A reset leaves nothing to place.                                         *)
LEMMA PlacesReset ==
    ASSUME NEW s \in Seq(Registers), s # <<>>, Latest(s).ts = 0, NEW o \in Seq(Registers)
    PROVE  \E p : Places(p, s, o)
<1> DEFINE p == [i \in 1 .. Len(s) + 1 |-> Len(o)]
<1>1. p \in [1 .. Len(s) + 1 -> 0 .. Len(o)] /\ p[Len(s) + 1] = Len(o)
  OBVIOUS
<1>2. \A i \in DOMAIN s : ~SinceReset(s, i)
  <2> SUFFICES ASSUME NEW i \in DOMAIN s PROVE Len(s) \in i .. Len(s)
    BY DEF SinceReset, Latest
  <2> QED OBVIOUS
<1> QED BY <1>1, <1>2 DEF Places

(* A sample added for a register comes at its place, one of a tick between  *)
(* the registers.                                                           *)
LEMMA PlacesAppended ==
    ASSUME NEW s \in Seq(Registers), NEW o \in Seq(Registers),
           NEW e \in Registers, NEW q \in Seq(Registers),
           NEW p, Places(p, s, o),
           q = Append(o, e) \/ (q = o /\ e.flow = 0),
           \A j \in DOMAIN o : o[j].ts < e.ts,
           s # <<>> => \A j \in DOMAIN o : o[j].ts <= Latest(s).ts
    PROVE  \E g : Places(g, Append(s, e), q)
<1> DEFINE r == Append(s, e)
           n == Len(s)
           l == Len(o)
           g == [i \in 1 .. n + 2 |-> IF i = n + 2 THEN Len(q) ELSE p[i]]
<1>1. /\ n \in Nat /\ Len(r) = n + 1 /\ DOMAIN r = 1 .. n + 1 /\ DOMAIN s = 1 .. n
      /\ r[n + 1] = e /\ \A i \in 1 .. n : r[i] = s[i]
  OBVIOUS
<1>2. /\ l \in Nat /\ DOMAIN o = 1 .. l /\ Len(q) \in Nat
      /\ \A j \in 1 .. l : q[j] = o[j]
      /\ Len(q) = l \/ (Len(q) = l + 1 /\ q[l + 1] = e)
      /\ Len(q) = l => e.flow = 0
  OBVIOUS
<1>3. p \in [1 .. n + 1 -> 0 .. l] /\ p[n + 1] = l
  BY DEF Places
<1>4. /\ g \in [1 .. n + 2 -> 0 .. Len(q)] /\ g[n + 2] = Len(q)
      /\ \A i \in 1 .. n + 1 : g[i] = p[i]
  <2>1. \A i \in 1 .. n + 1 : i # n + 2
    BY <1>1
  <2>2. \A i \in 1 .. n + 2 : i = n + 2 \/ i \in 1 .. n + 1
    BY <1>1
  <2>3. \A i \in 1 .. n + 1 : p[i] \in 0 .. Len(q)
    BY <1>2, <1>3
  <2>4. n + 2 \in 1 .. n + 2 /\ Len(q) \in 0 .. Len(q)
    BY <1>1, <1>2
  <2> QED BY <2>1, <2>2, <2>3, <2>4
<1>5. s # <<>> => n # 0 /\ Latest(s) = s[n]
  BY DEF Latest
<1>6. \A j \in 1 .. l : o[j].ts < e.ts /\ (n # 0 => o[j].ts <= s[n].ts)
  BY <1>1, <1>2, <1>5
<1> HIDE DEF r, n, l, g
<1>7. ASSUME NEW i \in 1 .. n, SinceReset(r, i)
      PROVE  SinceReset(s, i) /\ (Moved(s) => Moved(r))
  <2>1. \A j \in i .. n : j \in i .. Len(r) /\ j \in 1 .. n
    BY <1>1
  <2>2. SinceReset(s, i)
    BY <1>1, <1>7, <2>1 DEF SinceReset, n
  <2>3. 1 \in 1 .. n /\ \A j \in 1 .. n : j \in DOMAIN r
    BY <1>1
  <2> QED BY <1>1, <2>2, <2>3 DEF Moved
<1>8. ASSUME NEW i \in 1 .. n + 1, SinceReset(r, i)
      PROVE  Placed(g, r, q, i) \/ (i = 1 /\ Moved(r) /\ g[2] = g[1])
  <2>1. CASE i = n + 1
    <3>1. g[i + 1] = Len(q) /\ g[i] = l /\ r[i] = e
      BY <1>1, <1>3, <1>4, <2>1
    <3> QED BY <1>2, <3>1 DEF Placed
  <2>2. CASE i # n + 1
    <3>1. i \in 1 .. n /\ i + 1 \in 1 .. n + 1 /\ i \in 1 .. n + 1
      BY <1>1, <2>2
    <3>2. g[i + 1] = p[i + 1] /\ g[i] = p[i] /\ r[i] = s[i]
      BY <1>1, <1>4, <3>1
    <3>3. Placed(p, s, o, i) \/ (i = 1 /\ Moved(s) /\ p[2] = p[1])
      BY <1>1, <1>7, <1>8, <3>1 DEF Places
    <3>4. p[i] \in 0 .. l /\ p[i + 1] \in 0 .. l
      BY <1>3, <3>1
    <3>5. CASE p[i + 1] = p[i] /\ s[i].flow = 0
      BY <3>2, <3>5 DEF Placed
    <3>6. CASE p[i + 1] = p[i] + 1 /\ s[i].flow = o[p[i + 1]].flow /\ s[i].ts = o[p[i + 1]].ts
      <4>1. p[i + 1] \in 1 .. l
        BY <1>2, <3>4, <3>6
      <4>2. q[p[i + 1]] = o[p[i + 1]]
        BY <1>2, <4>1
      <4> QED BY <3>2, <3>6, <4>2 DEF Placed
    <3>7. CASE i = 1 /\ Moved(s) /\ p[2] = p[1]
      <4>1. Moved(r)
        BY <1>7, <1>8, <3>1, <3>7
      <4>2. i + 1 = 2
        BY <3>7
      <4> QED BY <3>2, <3>7, <4>1, <4>2
    <3> QED BY <3>3, <3>5, <3>6, <3>7 DEF Placed
  <2> QED BY <2>1, <2>2
<1>9. ASSUME NEW i \in 1 .. n + 1, SinceReset(r, i), NEW j \in 1 .. g[i]
      PROVE  /\ \A k \in i .. Len(r) : q[j].ts < r[k].ts
             /\ i > 1 => q[j].ts <= r[i - 1].ts
  <2>1. g[i] = p[i] /\ p[i] \in 0 .. l
    BY <1>3, <1>4
  <2>2. j \in 1 .. l /\ q[j] = o[j] /\ j \in 1 .. p[i]
    BY <1>2, <2>1
  <2>3. CASE i = n + 1
    <3>1. \A k \in i .. Len(r) : k = n + 1
      BY <1>1, <2>3
    <3>2. i > 1 => n # 0 /\ i - 1 = n /\ n \in 1 .. n
      BY <1>1, <2>3
    <3> QED BY <1>1, <1>6, <2>2, <3>1, <3>2
  <2>4. CASE i # n + 1
    <3>1. i \in 1 .. n
      BY <1>1, <2>4
    <3>2. /\ \A k \in i .. n : o[j].ts < s[k].ts
          /\ i > 1 => o[j].ts <= s[i - 1].ts
      BY <1>1, <1>7, <1>9, <2>2, <3>1 DEF Places, n
    <3>3. \A k \in i .. Len(r) : k = n + 1 \/ (k \in i .. n /\ k \in 1 .. n)
      BY <1>1, <3>1
    <3>4. i > 1 => i - 1 \in 1 .. n
      BY <1>1, <3>1
    <3> QED BY <1>1, <1>6, <2>2, <3>2, <3>3, <3>4
  <2> QED BY <2>3, <2>4
<1>10. /\ g \in [1 .. Len(r) + 1 -> 0 .. Len(q)] /\ g[Len(r) + 1] = Len(q)
       /\ DOMAIN r = 1 .. n + 1
  <2>1. Len(r) + 1 = n + 2
    BY <1>1
  <2> QED BY <1>1, <1>4, <2>1
<1>11. Places(g, r, q)
  BY <1>8, <1>9, <1>10 DEF Places, Placed
<1> QED BY <1>11 DEF r

(* The samples that are left after a slide are at the same places.  Of the  *)
(* first one, if a tick moved it, that is not said.                         *)
LEMMA PlacesSlid ==
    ASSUME NEW s, NEW edge, NEW m, NEW r, NEW keep, Slid(r, s, edge, m),
           SlidFlow(r, s, edge, m, keep), keep => edge + MaxTick + Tick = Latest(s).ts,
           NEW o \in Seq(Registers), NEW p, Places(p, s, o)
    PROVE  \E g : Places(g, r, o)
<1> DEFINE n == Len(r)
           same == r[1] = s[m]
           g == [i \in 1 .. n + 1 |-> IF i = 1 /\ ~same THEN p[m + 1] ELSE p[m + i - 1]]
<1>1. /\ r \in Seq(Registers) /\ r # <<>> /\ n \in Nat \ {0} /\ m \in 1 .. Len(s)
      /\ DOMAIN r = 1 .. n /\ DOMAIN s = 1 .. Len(s) /\ Len(s) \in Nat
      /\ \A i \in DOMAIN r : s[m + i - 1].ts <= r[i].ts /\ r[i].ts \in Nat
      /\ Latest(r).ts = Latest(s).ts
  <2>1. s \in Seq(Registers)
    BY DEF Slid
  <2> QED BY <2>1, SlidFacts
<1>2. /\ n = Len(s) - m + 1 /\ edge \in Int
      /\ \A i \in 2 .. n : r[i] = s[m + i - 1]
  BY DEF Slid
<1>3. \A i \in DOMAIN s : s[i].ts \in Nat
  BY SampleType DEF Slid
<1>4. p \in [1 .. Len(s) + 1 -> 0 .. Len(o)] /\ p[Len(s) + 1] = Len(o)
  BY DEF Places
<1> HIDE DEF n, same
<1>5. /\ g \in [1 .. n + 1 -> 0 .. Len(o)]
      /\ g[1] = IF same THEN p[m] ELSE p[m + 1]
      /\ \A i \in 2 .. n + 1 : g[i] = p[m + i - 1]
  <2>1. \A i \in 1 .. n + 1 : m + i - 1 \in 1 .. Len(s) + 1
    BY <1>1, <1>2
  <2>2. m + 1 \in 1 .. Len(s) + 1 /\ 1 \in 1 .. n + 1 /\ m + 1 - 1 = m
    BY <1>1
  <2>3. \A i \in 2 .. n + 1 : i \in 1 .. n + 1 /\ i # 1
    BY <1>1
  <2> QED BY <1>4, <2>1, <2>2, <2>3
<1>6. g[n + 1] = Len(o)
  <2>1. n + 1 \in 2 .. n + 1 /\ m + (n + 1) - 1 = Len(s) + 1
    BY <1>1, <1>2
  <2> QED BY <1>4, <1>5, <2>1
<1> HIDE DEF g
<1>7. ASSUME NEW i \in 2 .. n, SinceReset(r, i)
      PROVE  /\ Placed(g, r, o, i)
             /\ \A j \in 1 .. g[i] : /\ \A k \in i .. n : o[j].ts < r[k].ts
                                     /\ o[j].ts <= r[i - 1].ts
  <2> DEFINE l == m + i - 1
  <2>1. /\ l \in DOMAIN s /\ l > 1 /\ i + 1 \in 2 .. n + 1 /\ i \in 2 .. n + 1
        /\ m + (i + 1) - 1 = l + 1 /\ i - 1 \in DOMAIN r /\ m + (i - 1) - 1 = l - 1
        /\ l - 1 \in DOMAIN s
    BY <1>1, <1>2
  <2>2. g[i] = p[l] /\ g[i + 1] = p[l + 1] /\ r[i] = s[l]
    BY <1>2, <1>5, <2>1
  <2> HIDE DEF l
  <2>3. SinceReset(s, l)
    <3> SUFFICES ASSUME NEW j \in l .. Len(s) PROVE s[j].ts # 0
      BY DEF SinceReset
    <3> DEFINE k == j - m + 1
    <3>1. k \in 2 .. n /\ k \in i .. n /\ m + k - 1 = j
      BY <1>1, <1>2 DEF l
    <3> QED BY <1>2, <1>7, <3>1 DEF SinceReset, n
  <2>4. /\ Placed(p, s, o, l)
        /\ \A j \in 1 .. p[l] : /\ \A k \in l .. Len(s) : o[j].ts < s[k].ts
                                /\ o[j].ts <= s[l - 1].ts
    BY <2>1, <2>3 DEF Places
  <2>5. Placed(g, r, o, i)
    BY <2>2, <2>4 DEF Placed
  <2>6. ASSUME NEW j \in 1 .. g[i]
        PROVE  /\ \A k \in i .. n : o[j].ts < r[k].ts
               /\ o[j].ts <= r[i - 1].ts
    <3>1. /\ \A k \in l .. Len(s) : o[j].ts < s[k].ts
          /\ o[j].ts <= s[l - 1].ts
      BY <2>2, <2>4
    <3>2. \A k \in i .. n : k \in 2 .. n /\ m + k - 1 \in l .. Len(s)
      BY <1>1, <1>2 DEF l
    <3>3. \A k \in i .. n : o[j].ts < r[k].ts
      BY <1>2, <3>1, <3>2
    <3>4. s[l - 1].ts <= r[i - 1].ts /\ r[i - 1].ts \in Nat /\ s[l - 1].ts \in Nat
      BY <1>1, <1>3, <2>1
    <3>5. o[j].ts \in Nat
      <4>1. g[i] \in 0 .. Len(o)
        BY <1>5, <2>1
      <4>2. j \in DOMAIN o
        BY <4>1
      <4> QED BY <4>2, SampleType
    <3> QED BY <3>1, <3>3, <3>4, <3>5
  <2> QED BY <2>5, <2>6
<1>8. ASSUME SinceReset(r, 1)
      PROVE  /\ Placed(g, r, o, 1) \/ (Moved(r) /\ g[2] = g[1])
             /\ \A j \in 1 .. g[1] : \A k \in 1 .. n : o[j].ts < r[k].ts
  <2>1. CASE same
    <3>1. \A k \in 1 .. n : r[k] = s[m + k - 1]
      <4> TAKE k \in 1 .. n
      <4>1. CASE k = 1
        <5>1. m + k - 1 = m
          BY <1>1, <4>1
        <5> QED BY <2>1, <4>1, <5>1 DEF same
      <4>2. CASE k # 1
        BY <1>1, <1>2, <4>2
      <4> QED BY <4>1, <4>2
    <3>2. SinceReset(s, m)
      <4> SUFFICES ASSUME NEW j \in m .. Len(s) PROVE s[j].ts # 0
        BY DEF SinceReset
      <4> DEFINE k == j - m + 1
      <4>1. k \in 1 .. n /\ m + k - 1 = j
        BY <1>1, <1>2
      <4> QED BY <1>8, <3>1, <4>1 DEF SinceReset, n
    <3>3. m \in DOMAIN s /\ 2 \in 2 .. n + 1 /\ m + 2 - 1 = m + 1
      BY <1>1
    <3>4. g[1] = p[m] /\ g[2] = p[m + 1] /\ r[1] = s[m]
      BY <1>5, <2>1, <3>3 DEF same
    <3>5. ASSUME m = 1, Moved(s) PROVE Moved(r)
      <4>1. PICK i \in DOMAIN s : s[1].ts + MaxTick + Tick <= s[i].ts
        BY <3>5 DEF Moved
      <4>2. i \in 1 .. n /\ m + i - 1 = i
        BY <1>1, <1>2, <3>5
      <4>3. r[i] = s[i] /\ r[1] = s[1] /\ i \in DOMAIN r
        BY <1>1, <3>1, <3>4, <3>5, <4>2
      <4> QED BY <4>1, <4>3 DEF Moved
    <3>6. Placed(g, r, o, 1) \/ (Moved(r) /\ g[2] = g[1])
      <4>1. Placed(p, s, o, m) \/ (m = 1 /\ Moved(s) /\ p[2] = p[1])
        BY <3>2, <3>3 DEF Places
      <4>2. 1 + 1 = 2
        OBVIOUS
      <4>3. ASSUME Placed(p, s, o, m) PROVE Placed(g, r, o, 1)
        BY <3>4, <4>2, <4>3 DEF Placed
      <4>4. ASSUME m = 1, Moved(s), p[2] = p[1] PROVE Moved(r) /\ g[2] = g[1]
        BY <3>4, <3>5, <4>2, <4>4
      <4> QED BY <4>1, <4>3, <4>4
    <3>7. \A k \in 1 .. n : m + k - 1 \in m .. Len(s)
      BY <1>1, <1>2
    <3>8. \A j \in 1 .. p[m] : \A k \in m .. Len(s) : o[j].ts < s[k].ts
      BY <3>2, <3>3 DEF Places
    <3> QED BY <3>1, <3>4, <3>6, <3>7, <3>8
  <2>2. CASE ~same
    <3>1. r[1].ts = edge /\ s[m].ts < edge /\ m < Len(s) /\ (keep \/ r[1].flow = 0)
      BY <2>2 DEF SlidFlow, same
    <3>2. m + 1 \in DOMAIN s /\ m \in DOMAIN s /\ m + 1 > 1 /\ (m + 1) - 1 = m
      BY <1>1, <3>1
    <3>3. SinceReset(s, m + 1)
      <4> SUFFICES ASSUME NEW j \in m + 1 .. Len(s) PROVE s[j].ts # 0
        BY DEF SinceReset
      <4> DEFINE k == j - m + 1
      <4>1. k \in 2 .. n /\ k \in 1 .. n /\ m + k - 1 = j
        BY <1>1, <1>2
      <4> QED BY <1>2, <1>8, <4>1 DEF SinceReset, n
    <3>4. 2 \in 2 .. n + 1 /\ m + 2 - 1 = m + 1
      BY <1>1
    <3>5. g[1] = p[m + 1] /\ g[2] = p[m + 1]
      BY <1>5, <2>2, <3>4
    <3>6. ASSUME keep PROVE Moved(r)
      <4>1. n \in DOMAIN r /\ r[n].ts = Latest(r).ts
        BY <1>1 DEF Latest, n
      <4>2. r[1].ts + MaxTick + Tick = r[n].ts
        BY <1>1, <3>1, <3>6, <4>1
      <4>3. r[1].ts + MaxTick + Tick <= r[n].ts
        BY <1>1, <4>1, <4>2
      <4> QED BY <4>1, <4>3 DEF Moved
    <3>7. Placed(g, r, o, 1) \/ (Moved(r) /\ g[2] = g[1])
      <4>1. r[1].flow = 0 => Placed(g, r, o, 1)
        <5>1. 1 + 1 = 2
          OBVIOUS
        <5> QED BY <3>5, <5>1 DEF Placed
      <4> QED BY <3>1, <3>5, <3>6, <4>1
    <3>8. ASSUME NEW j \in 1 .. g[1], NEW k \in 1 .. n PROVE o[j].ts < r[k].ts
      <4>1. j \in 1 .. p[m + 1]
        BY <3>5
      <4>2. /\ \A x \in m + 1 .. Len(s) : o[j].ts < s[x].ts
            /\ o[j].ts <= s[m].ts
        BY <3>2, <3>3, <4>1 DEF Places
      <4>3. CASE k = 1
        <5>1. o[j].ts \in Nat
          <6>1. m + 1 \in 1 .. Len(s) + 1
            BY <1>1
          <6>2. p[m + 1] \in 0 .. Len(o)
            BY <1>4, <6>1
          <6>3. j \in DOMAIN o
            BY <4>1, <6>2
          <6> QED BY <6>3, SampleType
        <5>2. s[m].ts \in Nat
          BY <1>3, <3>2
        <5> QED BY <1>2, <3>1, <4>2, <4>3, <5>1, <5>2
      <4>4. CASE k # 1
        <5>1. k \in 2 .. n /\ m + k - 1 \in m + 1 .. Len(s)
          BY <1>1, <1>2, <4>4
        <5> QED BY <1>2, <4>2, <5>1
      <4> QED BY <4>3, <4>4
    <3> QED BY <3>7, <3>8
  <2> QED BY <2>1, <2>2
<1>9. ASSUME NEW i \in DOMAIN r, SinceReset(r, i)
      PROVE  /\ Placed(g, r, o, i) \/ (i = 1 /\ Moved(r) /\ g[2] = g[1])
             /\ \A j \in 1 .. g[i] : /\ \A k \in i .. Len(r) : o[j].ts < r[k].ts
                                     /\ i > 1 => o[j].ts <= r[i - 1].ts
  <2>1. CASE i = 1
    BY <1>8, <1>9, <2>1 DEF n
  <2>2. CASE i # 1
    <3>1. i \in 2 .. n
      BY <1>1, <2>2
    <3> QED BY <1>7, <1>9, <3>1 DEF n
  <2> QED BY <2>1, <2>2
<1>10. Places(g, r, o)
  BY <1>5, <1>6, <1>9 DEF Places, n
<1> QED BY <1>10

-----------------------------------------------------------------------------
(* The window of length P over s is all of s, or s from a sample k at its   *)
(* beginning, or s from a sample k in it and what held before that one.     *)
AllOf(w, s, begin) == w = s /\ \A i \in DOMAIN s : begin <= s[i].ts
FromSample(w, s, begin, k) ==
    /\ w = SubSeq(s, k, Len(s))
    /\ s[k].ts = begin /\ \A i \in k .. Len(s) : begin <= s[i].ts
FromCut(w, s, begin, k) ==
    /\ w = <<[ts |-> begin, count |-> s[k - 1].count, flow |-> 0]>> \o SubSeq(s, k, Len(s))
    /\ s[k - 1].ts < begin /\ \A i \in k .. Len(s) : begin <= s[i].ts

(* Window has no other case.                                                *)
LEMMA WindowCases ==
    ASSUME NEW s \in Seq(Registers), s # <<>>, NEW P \in Nat
    PROVE  LET begin == Latest(s).ts - P
           IN  \/ AllOf(Window(s, P), s, begin)
               \/ \E k \in 2 .. Len(s) : \/ FromSample(Window(s, P), s, begin, k)
                                         \/ FromCut(Window(s, P), s, begin, k)
<1> DEFINE begin == Latest(s).ts - P
           outside == {i \in DOMAIN s : s[i].ts < begin}
           first == IF outside = {} THEN 1 ELSE Max(outside) + 1
           inside == SubSeq(s, first, Len(s))
           w == Window(s, P)
<1>1. /\ Len(s) \in Nat \ {0} /\ DOMAIN s = 1 .. Len(s)
      /\ \A i \in DOMAIN s : s[i].ts \in Nat
  BY SampleType
<1>2. begin \in Int /\ begin <= Latest(s).ts
  <2>1. Latest(s).ts \in Nat
    BY <1>1 DEF Latest
  <2> QED BY <2>1
<1>3. w = IF outside = {} \/ s[first].ts = begin THEN inside
          ELSE <<[ts |-> begin, count |-> s[first - 1].count, flow |-> 0]>> \o inside
  BY DEF Window
<1> HIDE DEF begin, w
<1>4. CASE outside = {}
  <2>1. w = SubSeq(s, 1, Len(s))
    BY <1>3, <1>4
  <2>2. w = s
    BY <2>1, SubSeqFull
  <2>3. \A i \in DOMAIN s : begin <= s[i].ts
    <3> TAKE i \in DOMAIN s
    <3>1. ~ (s[i].ts < begin) /\ s[i].ts \in Nat
      BY <1>1, <1>4
    <3> QED BY <1>2, <3>1
  <2>4. AllOf(w, s, begin)
    BY <2>2, <2>3 DEF AllOf
  <2> QED BY <2>4 DEF begin, w
<1>5. CASE outside # {}
  <2> DEFINE m == Max(outside)
  <2>1. outside \in SUBSET Nat /\ Len(s) \in Nat /\ \A i \in outside : i <= Len(s)
    BY <1>1
  <2>2. m \in outside /\ \A i \in outside : i <= m
    BY <1>5, <2>1, MaxIn
  <2>3. first = m + 1
    BY <1>5
  <2>4. m \in DOMAIN s /\ m \in Nat /\ s[m].ts < begin
    BY <1>1, <2>2
  <2> HIDE DEF m
  <2>5. \A i \in m + 1 .. Len(s) : begin <= s[i].ts
    <3> TAKE i \in m + 1 .. Len(s)
    <3>1. i \in DOMAIN s /\ ~ (i <= m)
      BY <1>1, <2>4
    <3>2. ~ (s[i].ts < begin) /\ s[i].ts \in Nat
      BY <1>1, <2>2, <3>1
    <3> QED BY <1>2, <3>2
  <2>6. m # Len(s)
    <3>1. Latest(s).ts \in Nat
      BY <1>1 DEF Latest
    <3> QED BY <1>2, <2>4, <3>1 DEF Latest
  <2> DEFINE k == m + 1
  <2>7. k \in 2 .. Len(s) /\ k - 1 = m
    BY <1>1, <2>4, <2>6
  <2>8. inside = SubSeq(s, k, Len(s)) /\ first = k
    BY <2>3
  <2> HIDE DEF k, first, outside
  <2>9. CASE s[k].ts = begin
    <3>1. w = SubSeq(s, k, Len(s))
      BY <1>3, <2>8, <2>9
    <3>2. FromSample(w, s, begin, k)
      BY <2>5, <2>9, <3>1 DEF FromSample, k
    <3> QED BY <2>7, <3>2 DEF begin, w
  <2>10. CASE s[k].ts # begin
    <3>1. w = <<[ts |-> begin, count |-> s[k - 1].count, flow |-> 0]>> \o SubSeq(s, k, Len(s))
      BY <1>3, <1>5, <2>8, <2>10
    <3>2. FromCut(w, s, begin, k)
      BY <2>4, <2>5, <2>7, <3>1 DEF FromCut, k
    <3> QED BY <2>7, <3>2 DEF begin, w
  <2> QED BY <2>9, <2>10
<1> QED BY <1>4, <1>5

(* The samples of a window that is not all of s.                            *)
LEMMA SampleWindow ==
    ASSUME NEW s \in Seq(Registers), NEW begin, NEW k \in 2 .. Len(s), NEW w,
           FromSample(w, s, begin, k)
    PROVE  /\ Len(w) = Len(s) - k + 1 /\ DOMAIN w = 1 .. Len(w)
           /\ \A i \in 1 .. Len(w) : w[i] = s[k + i - 1]
           /\ Latest(w) = Latest(s) /\ w[1] = s[k]
<1>1. w = SubSeq(s, k, Len(s))
  BY DEF FromSample
<1>2. /\ Len(w) = Len(s) - k + 1 /\ DOMAIN w = 1 .. Len(w) /\ Len(s) \in Nat
      /\ \A i \in 1 .. Len(w) : w[i] = s[k + i - 1]
  BY <1>1
<1>3. /\ 1 \in 1 .. Len(w) /\ k + 1 - 1 = k
      /\ Len(w) \in 1 .. Len(w) /\ k + Len(w) - 1 = Len(s)
  BY <1>2
<1> QED BY <1>2, <1>3 DEF Latest

(* The samples of a window that cuts one.                                   *)
LEMMA CutWindow ==
    ASSUME NEW s \in Seq(Registers), NEW begin \in Int, NEW k \in 2 .. Len(s), NEW w,
           FromCut(w, s, begin, k)
    PROVE  /\ Len(w) = Len(s) - k + 2 /\ DOMAIN w = 1 .. Len(w)
           /\ \A i \in 2 .. Len(w) : w[i] = s[k + i - 2]
           /\ Latest(w) = Latest(s)
           /\ w[1].ts = begin /\ w[1].count = s[k - 1].count /\ w[1].flow = 0
<1> DEFINE c == [ts |-> begin, count |-> s[k - 1].count, flow |-> 0]
           rest == SubSeq(s, k, Len(s))
<1>1. w = <<c>> \o rest
  BY DEF FromCut
<1>2. /\ Len(rest) = Len(s) - k + 1 /\ Len(s) \in Nat /\ rest \in Seq(Registers)
      /\ \A i \in 1 .. Len(rest) : rest[i] = s[k + i - 1]
  OBVIOUS
<1>3. c.ts = begin /\ c.count = s[k - 1].count /\ c.flow = 0
  OBVIOUS
<1> HIDE DEF c, rest
<1>4. /\ Len(w) = Len(rest) + 1 /\ DOMAIN w = 1 .. Len(w) /\ w[1] = c
      /\ \A i \in 2 .. Len(rest) + 1 : w[i] = rest[i - 1]
  <2> DEFINE S == Registers \cup {c}
             d == <<c>>
  <2>1. d \in Seq(S) /\ Len(d) = 1 /\ d[1] = c
    OBVIOUS
  <2>2. rest \in Seq(S)
    BY <1>2
  <2>3. w = d \o rest
    BY <1>1
  <2> HIDE DEF d, S
  <2>4. /\ w \in Seq(S) /\ Len(w) = Len(d) + Len(rest)
        /\ \A i \in 1 .. Len(d) + Len(rest) :
                w[i] = IF i <= Len(d) THEN d[i] ELSE rest[i - Len(d)]
    BY <2>1, <2>2, <2>3, ConcatProperties
  <2> QED BY <1>2, <2>1, <2>4
<1>5. Len(w) = Len(s) - k + 2
  BY <1>2, <1>4
<1>6. ASSUME NEW i \in 2 .. Len(w) PROVE w[i] = s[k + i - 2]
  <2>1. i - 1 \in 1 .. Len(rest) /\ k + (i - 1) - 1 = k + i - 2
    BY <1>2, <1>4
  <2> QED BY <1>2, <1>4, <2>1
<1>7. Len(w) \in 2 .. Len(w) /\ k + Len(w) - 2 = Len(s)
  BY <1>2, <1>5
<1>8. Latest(w) = Latest(s)
  BY <1>6, <1>7 DEF Latest
<1> QED BY <1>3, <1>4, <1>5, <1>6, <1>8

(* There is a measurement exactly when there is more than one sample.       *)
LEMMA MeasurableLong ==
    ASSUME NEW s \in Seq(Registers), s # <<>>, NEW P \in Nat \ {0}
    PROVE  Measurable(s, P) <=> Len(s) > 1
<1> DEFINE w == Window(s, P)
           begin == Latest(s).ts - P
<1>1. Len(s) \in Nat \ {0} /\ Latest(s).ts \in Nat /\ begin \in Int /\ begin < Latest(s).ts
  <2>1. Len(s) \in DOMAIN s
    OBVIOUS
  <2>2. Latest(s).ts \in Nat
    BY <2>1, SampleType DEF Latest
  <2> QED BY <2>2
<1>2. \/ AllOf(w, s, begin)
      \/ \E k \in 2 .. Len(s) : FromSample(w, s, begin, k) \/ FromCut(w, s, begin, k)
  BY WindowCases
<1> HIDE DEF w, begin
<1>3. CASE AllOf(w, s, begin)
  BY <1>3 DEF AllOf, Measurable, w
<1>4. ASSUME NEW k \in 2 .. Len(s), FromSample(w, s, begin, k)
      PROVE  Len(w) > 1 /\ Len(s) > 1
  <2>1. Len(w) = Len(s) - k + 1
    BY <1>4, SampleWindow
  <2>2. k # Len(s)
    BY <1>1, <1>4 DEF FromSample, Latest
  <2> QED BY <1>1, <2>1, <2>2
<1>5. ASSUME NEW k \in 2 .. Len(s), FromCut(w, s, begin, k)
      PROVE  Len(w) > 1 /\ Len(s) > 1
  <2>1. Len(w) = Len(s) - k + 2
    BY <1>1, <1>5, CutWindow
  <2> QED BY <1>1, <2>1
<1>6. CASE \E k \in 2 .. Len(s) : FromSample(w, s, begin, k) \/ FromCut(w, s, begin, k)
  <2>1. Len(w) > 1 /\ Len(s) > 1
    BY <1>4, <1>5, <1>6
  <2> QED BY <2>1 DEF Measurable, w
<1> QED BY <1>2, <1>3, <1>6

-----------------------------------------------------------------------------
(* The samples of a window, which may begin before the epoch.               *)
WindowSamples == [ts : Int, count : Int, flow : Int]

(* In each case a window begins inside the period and ends at the latest    *)
(* sample.                                                                  *)
LEMMA WindowType ==
    ASSUME NEW s \in Seq(Registers), s # <<>>, NEW P \in Nat
    PROVE  LET w == Window(s, P)
               begin == Latest(s).ts - P
           IN  /\ Len(w) \in Nat \ {0} /\ DOMAIN w = 1 .. Len(w)
               /\ \A i \in DOMAIN w : w[i] \in WindowSamples
               /\ Latest(w).ts = Latest(s).ts /\ Latest(s).ts \in Nat
               /\ begin <= w[1].ts /\ w[1].ts \in Int
               /\ w[1].ts = begin \/ AllOf(w, s, begin)
<1> DEFINE w == Window(s, P)
           begin == Latest(s).ts - P
<1>1. /\ Len(s) \in Nat \ {0} /\ DOMAIN s = 1 .. Len(s) /\ Latest(s).ts \in Nat
      /\ begin \in Int /\ begin <= Latest(s).ts
  <2>1. Len(s) \in DOMAIN s
    OBVIOUS
  <2>2. Latest(s).ts \in Nat
    BY <2>1, SampleType DEF Latest
  <2> QED BY <2>2
<1>2. \A i \in DOMAIN s : s[i] \in WindowSamples
  <2> TAKE i \in DOMAIN s
  <2>1. s[i] \in Registers
    OBVIOUS
  <2>2. \A n \in 0 .. MaxCount : n \in Int
    BY Constants
  <2> QED BY <2>1, <2>2 DEF Registers, WindowSamples
<1>3. \A i \in DOMAIN s : s[i].ts \in Int /\ s[i].count \in Int
  BY <1>2 DEF WindowSamples
<1>4. \/ AllOf(w, s, begin)
      \/ \E k \in 2 .. Len(s) : FromSample(w, s, begin, k) \/ FromCut(w, s, begin, k)
  BY WindowCases
<1> HIDE DEF w, begin
<1> DEFINE Typed == /\ Len(w) \in Nat \ {0} /\ DOMAIN w = 1 .. Len(w)
                    /\ \A i \in DOMAIN w : w[i] \in WindowSamples
                    /\ Latest(w).ts = Latest(s).ts
                    /\ begin <= w[1].ts
                    /\ w[1].ts = begin \/ AllOf(w, s, begin)
<1>5. ASSUME AllOf(w, s, begin) PROVE Typed
  <2>1. w = s /\ \A i \in DOMAIN s : begin <= s[i].ts
    BY <1>5 DEF AllOf
  <2>2. 1 \in DOMAIN s
    BY <1>1
  <2> QED BY <1>1, <1>2, <1>5, <2>1, <2>2
<1>6. ASSUME NEW k \in 2 .. Len(s), FromSample(w, s, begin, k)
      PROVE  Typed
  <2>1. /\ Len(w) = Len(s) - k + 1 /\ DOMAIN w = 1 .. Len(w)
        /\ \A i \in 1 .. Len(w) : w[i] = s[k + i - 1]
        /\ Latest(w) = Latest(s) /\ w[1] = s[k]
    BY <1>6, SampleWindow
  <2>2. Len(w) \in Nat \ {0} /\ \A i \in 1 .. Len(w) : k + i - 1 \in DOMAIN s
    BY <1>1, <2>1
  <2>3. s[k].ts = begin
    BY <1>6 DEF FromSample
  <2>4. Latest(w).ts = Latest(s).ts /\ w[1].ts = begin
    BY <2>1, <2>3
  <2>5. \A i \in DOMAIN w : w[i] \in WindowSamples
    BY <1>2, <2>1, <2>2
  <2> QED BY <1>1, <2>1, <2>2, <2>4, <2>5
<1>7. ASSUME NEW k \in 2 .. Len(s), FromCut(w, s, begin, k)
      PROVE  Typed
  <2>1. /\ Len(w) = Len(s) - k + 2 /\ DOMAIN w = 1 .. Len(w)
        /\ \A i \in 2 .. Len(w) : w[i] = s[k + i - 2]
        /\ Latest(w) = Latest(s) /\ w[1].ts = begin
    BY <1>1, <1>7, CutWindow
  <2>2. w[1] = [ts |-> begin, count |-> s[k - 1].count, flow |-> 0]
    <3> DEFINE c == [ts |-> begin, count |-> s[k - 1].count, flow |-> 0]
               rest == SubSeq(s, k, Len(s))
    <3>1. w = <<c>> \o rest
      BY <1>7 DEF FromCut
    <3>2. rest \in Seq(Registers)
      OBVIOUS
    <3> HIDE DEF c, rest
    <3>3. w[1] = c
      BY <3>1, <3>2
    <3> QED BY <3>3 DEF c
  <2>3. w[1] \in WindowSamples
    <3>1. k - 1 \in DOMAIN s
      BY <1>1
    <3> QED BY <1>1, <1>3, <2>2, <3>1 DEF WindowSamples
  <2>4. Len(w) \in Nat \ {0} /\ \A i \in 2 .. Len(w) : k + i - 2 \in DOMAIN s
    BY <1>1, <2>1
  <2>5. \A i \in 2 .. Len(w) : w[i] \in WindowSamples
    BY <1>2, <2>1, <2>4
  <2>6. \A i \in 1 .. Len(w) : i = 1 \/ i \in 2 .. Len(w)
    BY <2>4
  <2> QED BY <1>1, <2>1, <2>3, <2>4, <2>5, <2>6
<1> HIDE DEF Typed
<1>8. Typed
  BY <1>4, <1>5, <1>6, <1>7
<1>9. w[1].ts \in Int
  <2>1. 1 \in DOMAIN w
    BY <1>8 DEF Typed
  <2>2. w[1] \in WindowSamples
    BY <1>8, <2>1 DEF Typed
  <2> QED BY <2>2 DEF WindowSamples
<1> QED BY <1>1, <1>8, <1>9 DEF w, begin, Typed

-----------------------------------------------------------------------------
(* The sums of a measurement are numbers.                                   *)
LEMMA MeasureType ==
    ASSUME NEW w, Len(w) \in Nat \ {0}, DOMAIN w = 1 .. Len(w),
           \A i \in DOMAIN w : w[i] \in WindowSamples
    PROVE  Measure(w).total \in Int /\ Measure(w).flow \in Int
<1> DEFINE f == [i \in 1 .. Len(w) - 1 |-> w[i].count * (w[i + 1].ts - w[i].ts)]
           k == [i \in DOMAIN w |-> w[i].flow]
<1>1. \A i \in DOMAIN w : w[i].ts \in Int /\ w[i].count \in Int /\ w[i].flow \in Int
  BY DEF WindowSamples
<1>2. \A i \in 1 .. Len(w) - 1 : f[i] \in Int
  <2> TAKE i \in 1 .. Len(w) - 1
  <2>1. i \in DOMAIN w /\ i + 1 \in DOMAIN w
    OBVIOUS
  <2>2. w[i].count \in Int /\ w[i].ts \in Int /\ w[i + 1].ts \in Int
    BY <1>1, <2>1
  <2>3. \A x, y, z \in Int : x * (y - z) \in Int
    OBVIOUS
  <2>4. w[i].count * (w[i + 1].ts - w[i].ts) \in Int
    BY <2>2, <2>3
  <2> QED BY <2>4
<1>3. \A i \in DOMAIN w : k[i] \in Int
  BY <1>1
<1>4. IsFiniteSet(1 .. Len(w) - 1) /\ IsFiniteSet(DOMAIN w)
  BY FS_Interval
<1>5. DOMAIN f = 1 .. Len(w) - 1 /\ DOMAIN k = DOMAIN w
  OBVIOUS
<1>6. Measure(w).total = SumFunction(f) /\ Measure(w).flow = SumFunction(k)
  BY DEF Measure
<1> HIDE DEF f, k
<1>7. SumFunctionOnSet(f, 1 .. Len(w) - 1) \in Int /\ SumFunctionOnSet(k, DOMAIN w) \in Int
  BY <1>2, <1>3, <1>4, SumType
<1> QED BY <1>5, <1>6, <1>7 DEF SumFunction

(* A total is what a function grows by that grows as the samples say.       *)
LEMMA MeasureTotal ==
    ASSUME NEW w, Len(w) \in Nat \ {0}, NEW g \in [1 .. Len(w) -> Int],
           \A i \in 1 .. Len(w) - 1 : g[i + 1] = g[i] + w[i].count * (w[i + 1].ts - w[i].ts),
           \A i \in 1 .. Len(w) : w[i].count \in Int /\ w[i].ts \in Int
    PROVE  Measure(w).total = g[Len(w)] - g[1]
<1> DEFINE f == [i \in 1 .. Len(w) - 1 |-> w[i].count * (w[i + 1].ts - w[i].ts)]
           n == Len(w)
<1>1. n \in Int /\ 1 \in Int /\ 1 <= n /\ \A i \in 1 .. n : g[i] \in Int
  OBVIOUS
<1>2. \A i \in 1 .. n - 1 : f[i] = g[i + 1] - g[i]
  <2> TAKE i \in 1 .. n - 1
  <2> DEFINE d == w[i].count * (w[i + 1].ts - w[i].ts)
  <2>1. i \in 1 .. n /\ i + 1 \in 1 .. n
    OBVIOUS
  <2>2. d \in Int
    <3>1. \A x, y, z \in Int : x * (y - z) \in Int
      OBVIOUS
    <3>2. w[i].count \in Int /\ w[i].ts \in Int /\ w[i + 1].ts \in Int
      BY <2>1
    <3> QED BY <3>1, <3>2
  <2>3. f[i] = d /\ g[i + 1] = g[i] + d /\ g[i] \in Int
    BY <1>1, <2>1
  <2> HIDE DEF d, f
  <2> QED BY <2>2, <2>3
<1>3. Measure(w).total = SumFunction(f) /\ DOMAIN f = 1 .. n - 1
  BY DEF Measure
<1> HIDE DEF f, n
<1>4. SumFunctionOnSet(f, 1 .. n - 1) = g[n] - g[1]
  <2> DEFINE a == 1
  <2>1. a \in Int /\ a <= n /\ \A i \in a .. n : g[i] \in Int
    BY <1>1
  <2>2. \A i \in a .. n - 1 : f[i] = g[i + 1] - g[i]
    BY <1>2
  <2> HIDE DEF a
  <2>3. n \in Int /\ a \in Int /\ a <= n
    BY <1>1, <2>1
  <2>4. \A i \in a .. n : g[i] \in Int
    BY <2>1
  <2>5. SumFunctionOnSet(f, a .. n - 1) = g[n] - g[a]
    BY ONLY <2>2, <2>3, <2>4, Telescope, Zenon
  <2> QED BY <2>5 DEF a
<1> QED BY <1>3, <1>4, Zenon DEF SumFunction, n

(* What a window is exact for: it ends at the latest sample, reaches back   *)
(* over the period or to the first register, and adds up to an area.        *)
Reaches(w, s, P, o) ==
    \/ w[1].ts = Latest(s).ts - P /\ o[1].ts <= w[1].ts
    \/ w[1].ts = o[1].ts /\ Latest(s).ts - w[1].ts <= P
Adds(w, s, o) ==
    \E g \in [1 .. Len(w) -> Int] :
        /\ \A i \in 1 .. Len(w) - 1 :
                g[i + 1] = g[i] + w[i].count * (w[i + 1].ts - w[i].ts)
        /\ g[1] = AreaIn(o, w[1].ts) /\ g[Len(w)] = AreaIn(o, Latest(s).ts)

(* The measurement over such a window is exact.                             *)
LEMMA ExactFromArea ==
    ASSUME NEW s \in Seq(Registers), s # <<>>, NEW P \in Nat, NEW o \in Seq(Registers), o # <<>>,
           NEW w, w = Window(s, P), w[1].ts \in Nat, w[1].ts <= Latest(s).ts,
           Reaches(w, s, P, o), Adds(w, s, o)
    PROVE  ExactIn(Measure(w), P, o)
<1> DEFINE end == Latest(s).ts
           a == w[1].ts
           m == Measure(w)
<1>1. /\ Len(w) \in Nat \ {0} /\ DOMAIN w = 1 .. Len(w)
      /\ \A i \in DOMAIN w : w[i] \in WindowSamples
      /\ Latest(w).ts = end /\ end \in Nat
  BY WindowType
<1>2. m.ts = end /\ m.length = end - a
  BY <1>1 DEF Measure
<1>3. \A i \in 1 .. Len(w) : w[i].count \in Int /\ w[i].ts \in Int
  BY <1>1 DEF WindowSamples
<1>4. o[1].ts \in Nat
  <2>1. 1 \in DOMAIN o
    OBVIOUS
  <2> QED BY <2>1, SampleType
<1>5. m.total = AreaIn(o, end) - AreaIn(o, a)
  <2>1. PICK g \in [1 .. Len(w) -> Int] :
            /\ \A i \in 1 .. Len(w) - 1 :
                    g[i + 1] = g[i] + w[i].count * (w[i + 1].ts - w[i].ts)
            /\ g[1] = AreaIn(o, a) /\ g[Len(w)] = AreaIn(o, end)
    BY DEF Adds
  <2>2. m.total = g[Len(w)] - g[1]
    BY <1>1, <1>3, <2>1, MeasureTotal
  <2> HIDE DEF m, end, a
  <2> QED BY ONLY <2>1, <2>2
<1>6. a \in Nat /\ a <= end
  OBVIOUS
<1>7. (a = end - P /\ o[1].ts <= a) \/ (a = o[1].ts /\ end - a <= P)
  BY DEF Reaches
<1> HIDE DEF end, a, m
<1>8. m.length = Min({P, m.ts - o[1].ts})
  <2>1. Min({P, end - o[1].ts}) = IF P <= end - o[1].ts THEN P ELSE end - o[1].ts
    <3> DEFINE b == end - o[1].ts
    <3>1. b \in Int /\ P \in Int
      BY <1>1, <1>4
    <3> HIDE DEF b
    <3>2. Min({P, b}) = IF P <= b THEN P ELSE b
      BY <3>1, MinOfTwo
    <3> QED BY <3>2 DEF b
  <2>2. P \in Int /\ a \in Int /\ end \in Int /\ o[1].ts \in Int
    BY <1>1, <1>4, <1>6
  <2>3. CASE a = end - P /\ o[1].ts <= a
    <3>1. m.length = P /\ P <= end - o[1].ts
      BY <1>2, <2>2, <2>3
    <3> QED BY <1>2, <2>1, <3>1
  <2>4. CASE a = o[1].ts /\ end - a <= P
    <3>1. m.length = end - o[1].ts /\ end - o[1].ts <= P
      BY <1>2, <2>4
    <3> QED BY <1>2, <2>1, <2>2, <3>1
  <2> QED BY <1>7, <2>3, <2>4
<1>9. m.total = SumFunction([t \in (m.ts - m.length) .. (m.ts - 1) |-> CountIn(o, t)])
  <2>1. m.ts - m.length = a /\ m.ts - 1 = end - 1
    BY <1>1, <1>2, <1>6
  <2>2. SumFunction([t \in a .. end - 1 |-> CountIn(o, t)]) = AreaIn(o, end) - AreaIn(o, a)
    BY <1>1, <1>6, AreaBetween
  <2> QED BY <1>5, <2>1, <2>2
<1> QED BY <1>8, <1>9 DEF ExactIn, m

(* Samples that reach back far enough give exact measurements.              *)
ReachesBack(s, P, o) ==
    \/ \E i \in DOMAIN s : s[i].ts = 0
    \/ s[1].ts = o[1].ts
    \/ s[1].ts + P <= Latest(s).ts

(* In each case of the window the samples tell the area from its beginning  *)
(* on, and a window of all of them begins at the first register.            *)
LEMMA WindowExact ==
    ASSUME NEW s \in Seq(Registers), s # <<>>, NEW P \in Nat \ {0},
           NEW o \in Seq(Registers), o # <<>>,
           P < Latest(s).ts, \A i \in DOMAIN s : o[1].ts <= s[i].ts,
           Lasts(s, o), NEW h, Tells(h, s, o), ReachesBack(s, P, o)
    PROVE  ExactIn(Measure(Window(s, P)), P, o)
<1> DEFINE w == Window(s, P)
           end == Latest(s).ts
           begin == end - P
<1>1. /\ Len(s) \in Nat \ {0} /\ DOMAIN s = 1 .. Len(s)
      /\ \A i \in DOMAIN s : s[i].ts \in Nat /\ s[i].count \in Int
      /\ o[1].ts \in Nat /\ P \in Nat
  <2>1. 1 \in DOMAIN o
    OBVIOUS
  <2> QED BY <2>1, SampleType
<1>2. end \in Nat /\ begin \in Nat \ {0} /\ begin <= end
  <2>1. Latest(s).ts \in Nat
    BY <1>1 DEF Latest
  <2> QED BY <1>1, <2>1
<1>3. \/ AllOf(w, s, begin)
      \/ \E k \in 2 .. Len(s) : FromSample(w, s, begin, k) \/ FromCut(w, s, begin, k)
  BY <1>1, WindowCases
<1>4. /\ h \in [DOMAIN s -> Int]
      /\ \A i \in 1 .. Len(s) - 1 : s[i + 1].ts # 0 =>
                h[i + 1] = h[i] + s[i].count * (s[i + 1].ts - s[i].ts)
      /\ \A k \in DOMAIN s : Settled(s, k) => h[k] = AreaIn(o, s[k].ts)
  BY DEF Tells
<1>5. h[Len(s)] = AreaIn(o, end)
  <2>1. Len(s) \in DOMAIN s /\ Len(s) + 1 .. Len(s) = {}
    BY <1>1
  <2>2. Settled(s, Len(s))
    BY <2>1 DEF Settled
  <2> QED BY <1>4, <2>1, <2>2 DEF Latest
<1> DEFINE Good == w[1].ts \in Nat /\ w[1].ts <= end /\ Reaches(w, s, P, o) /\ Adds(w, s, o)
<1>6. ASSUME AllOf(w, s, begin) PROVE Good
  <2>1. w = s /\ \A i \in DOMAIN s : begin <= s[i].ts
    BY <1>6 DEF AllOf
  <2> HIDE DEF w, begin, end
  <2>2. 1 \in DOMAIN s /\ s[1].ts \in Nat /\ begin <= s[1].ts
    BY <1>1, <2>1
  <2>3. \A i \in DOMAIN s : s[i].ts # 0
    BY <1>1, <1>2, <2>1
  <2>4. s[1].ts = o[1].ts \/ s[1].ts + P <= end
    BY <2>3, Zenon DEF ReachesBack, end
  <2>5. s[1].ts = o[1].ts \/ s[1].ts = begin
    <3>1. ASSUME s[1].ts + P <= end PROVE s[1].ts = begin
      <4>1. s[1].ts <= begin
        BY <1>1, <1>2, <2>2, <3>1 DEF begin
      <4> QED BY <1>2, <2>2, <4>1
    <3> QED BY <2>4, <3>1
  <2>6. s[1].ts <= end /\ o[1].ts <= s[1].ts
    <3>1. o[1].ts <= end
      BY <1>1 DEF end, Latest
    <3> QED BY <1>1, <1>2, <2>2, <2>5, <3>1
  <2>7. Reaches(w, s, P, o)
    <3>1. CASE s[1].ts = begin
      BY <2>1, <2>6, <3>1 DEF Reaches, begin, end
    <3>2. CASE s[1].ts = o[1].ts
      <4>1. end - s[1].ts <= P
        BY <1>1, <1>2, <2>2 DEF begin
      <4> QED BY <2>1, <3>2, <4>1 DEF Reaches, end
    <3> QED BY <2>5, <3>1, <3>2
  <2>8. Settled(s, 1)
    <3> SUFFICES ASSUME NEW j \in 2 .. Len(s)
                 PROVE  s[j].ts # 0 /\ s[1].ts <= s[j].ts
      BY DEF Settled
    <3>1. j \in DOMAIN s
      BY <1>1
    <3>2. begin <= s[j].ts /\ o[1].ts <= s[j].ts /\ s[j].ts # 0
      BY <2>1, <2>3, <3>1
    <3> QED BY <2>5, <3>2
  <2>9. h[1] = AreaIn(o, s[1].ts)
    BY <1>4, <2>2, <2>8
  <2>10. \A i \in 1 .. Len(s) - 1 : h[i + 1] = h[i] + s[i].count * (s[i + 1].ts - s[i].ts)
    <3> TAKE i \in 1 .. Len(s) - 1
    <3>1. i + 1 \in DOMAIN s
      BY <1>1
    <3> QED BY <1>4, <2>3, <3>1
  <2>11. h \in [1 .. Len(s) -> Int]
    BY <1>1, <1>4
  <2>12. Adds(w, s, o)
    BY <1>5, <2>1, <2>9, <2>10, <2>11 DEF Adds, end
  <2> QED BY <2>1, <2>2, <2>6, <2>7, <2>12
<1>7. ASSUME NEW k \in 2 .. Len(s), FromSample(w, s, begin, k) PROVE Good
  <2>1. /\ Len(w) = Len(s) - k + 1 /\ DOMAIN w = 1 .. Len(w)
        /\ \A i \in 1 .. Len(w) : w[i] = s[k + i - 1]
        /\ Latest(w) = Latest(s) /\ w[1] = s[k]
    BY <1>7, SampleWindow
  <2>2. s[k].ts = begin /\ \A i \in k .. Len(s) : begin <= s[i].ts
    BY <1>7 DEF FromSample
  <2> HIDE DEF w, begin, end
  <2>3. k \in DOMAIN s /\ o[1].ts <= begin
    BY <1>1, <2>2
  <2>4. Reaches(w, s, P, o)
    BY <2>1, <2>2, <2>3 DEF Reaches, begin, end
  <2>5. \A i \in k .. Len(s) : s[i].ts # 0 /\ i \in DOMAIN s
    <3> TAKE i \in k .. Len(s)
    <3>1. i \in DOMAIN s
      BY <1>1
    <3> QED BY <1>1, <1>2, <2>2, <3>1
  <2>6. Settled(s, k)
    <3>1. \A j \in k + 1 .. Len(s) : j \in k .. Len(s)
      OBVIOUS
    <3> QED BY <2>2, <2>5, <3>1 DEF Settled
  <2>7. h[k] = AreaIn(o, begin)
    BY <1>4, <2>2, <2>3, <2>6
  <2> DEFINE g == [i \in 1 .. Len(w) |-> h[k + i - 1]]
  <2>8. \A i \in 1 .. Len(w) : k + i - 1 \in k .. Len(s)
    BY <1>1, <2>1
  <2>9. g \in [1 .. Len(w) -> Int] /\ \A i \in 1 .. Len(w) : g[i] = h[k + i - 1]
    BY <1>4, <2>5, <2>8
  <2> HIDE DEF g
  <2>10. ASSUME NEW i \in 1 .. Len(w) - 1
         PROVE  g[i + 1] = g[i] + w[i].count * (w[i + 1].ts - w[i].ts)
    <3> DEFINE l == k + i - 1
    <3>1. i \in 1 .. Len(w) /\ i + 1 \in 1 .. Len(w) /\ k + (i + 1) - 1 = l + 1
      BY <1>1, <2>1
    <3>2. l \in 1 .. Len(s) - 1 /\ l + 1 \in k .. Len(s)
      BY <1>1, <2>1
    <3>3. g[i] = h[l] /\ g[i + 1] = h[l + 1] /\ w[i] = s[l] /\ w[i + 1] = s[l + 1]
      BY <2>1, <2>9, <3>1
    <3>4. h[l + 1] = h[l] + s[l].count * (s[l + 1].ts - s[l].ts)
      BY <1>4, <2>5, <3>2
    <3> QED BY <3>3, <3>4
  <2>11. g[1] = AreaIn(o, w[1].ts) /\ g[Len(w)] = AreaIn(o, end)
    <3>1. 1 \in 1 .. Len(w) /\ Len(w) \in 1 .. Len(w) /\ k + 1 - 1 = k /\ k + Len(w) - 1 = Len(s)
      BY <1>1, <2>1
    <3> QED BY <1>5, <2>1, <2>2, <2>7, <2>9, <3>1
  <2>12. Adds(w, s, o)
    BY <2>9, <2>10, <2>11 DEF Adds, end
  <2> QED BY <1>2, <2>1, <2>2, <2>4, <2>12
<1>8. ASSUME NEW k \in 2 .. Len(s), FromCut(w, s, begin, k) PROVE Good
  <2>1. /\ Len(w) = Len(s) - k + 2 /\ DOMAIN w = 1 .. Len(w)
        /\ \A i \in 2 .. Len(w) : w[i] = s[k + i - 2]
        /\ Latest(w) = Latest(s)
        /\ w[1].ts = begin /\ w[1].count = s[k - 1].count
    BY <1>2, <1>8, CutWindow
  <2>2. s[k - 1].ts < begin /\ \A i \in k .. Len(s) : begin <= s[i].ts
    BY <1>8 DEF FromCut
  <2> HIDE DEF w, begin, end
  <2> DEFINE l == k - 1
  <2>3. l \in DOMAIN s /\ l \in 1 .. Len(s) - 1 /\ l + 1 = k /\ s[l].ts < begin
    BY <1>1, <2>2
  <2>4. s[l].ts \in Nat /\ s[l].count \in Int /\ o[1].ts <= s[l].ts
    BY <1>1, <2>3
  <2>5. o[1].ts <= begin
    BY <1>1, <1>2, <2>3, <2>4
  <2>6. Reaches(w, s, P, o)
    BY <2>1, <2>5 DEF Reaches, begin, end
  <2>7. \A i \in k .. Len(s) : s[i].ts # 0 /\ i \in DOMAIN s /\ s[i].ts \in Nat
    <3> TAKE i \in k .. Len(s)
    <3>1. i \in DOMAIN s
      BY <1>1
    <3> QED BY <1>1, <1>2, <2>2, <3>1
  <2>8. \A j \in l + 1 .. Len(s) : begin <= s[j].ts /\ s[j].ts # 0 /\ s[j].ts \in Nat
    BY <2>2, <2>3, <2>7
  <2> HIDE DEF l
  <2>9. Settled(s, l)
    <3> SUFFICES ASSUME NEW j \in l + 1 .. Len(s)
                 PROVE  s[j].ts # 0 /\ s[l].ts <= s[j].ts
      BY DEF Settled
    <3>1. begin <= s[j].ts /\ s[j].ts # 0 /\ s[j].ts \in Nat
      BY <2>8
    <3> QED BY <1>2, <2>3, <2>4, <3>1
  <2>10. h[l] = AreaIn(o, s[l].ts) /\ h[l] \in Int
    BY <1>4, <2>3, <2>9
  <2>11. \A t \in Nat : s[l].ts <= t /\ t < begin => CountIn(o, t) = s[l].count
    <3> SUFFICES ASSUME NEW t \in Nat, s[l].ts <= t, t < begin
                 PROVE  CountIn(o, t) = s[l].count
      OBVIOUS
    <3>1. \A j \in l + 1 .. Len(s) : t < s[j].ts
      <4> TAKE j \in l + 1 .. Len(s)
      <4>1. begin <= s[j].ts /\ s[j].ts \in Nat
        BY <2>8
      <4> QED BY <1>2, <4>1
    <3> QED BY <2>3, <3>1 DEF Lasts
  <2>12. AreaIn(o, begin) = h[l] + s[l].count * (begin - s[l].ts)
    <3>1. /\ s[l].ts \in Nat /\ begin \in Nat /\ s[l].ts <= begin /\ s[l].count \in Int
      BY <1>2, <2>3, <2>4
    <3>2. AreaIn(o, begin) = AreaIn(o, s[l].ts) + s[l].count * (begin - s[l].ts)
      BY ONLY <2>11, <3>1, AreaEven, o \in Seq(Registers), Zenon
    <3> QED BY <2>10, <3>2, Zenon
  <2>13. h[k] = AreaIn(o, begin) + s[l].count * (s[k].ts - begin)
    <3>1. h[l + 1] = h[l] + s[l].count * (s[l + 1].ts - s[l].ts)
      <4>1. l + 1 \in l + 1 .. Len(s)
        BY <1>1, <2>3
      <4>2. s[l + 1].ts # 0
        BY <2>8, <4>1
      <4> QED BY <1>4, <2>3, <4>2
    <3>2. s[k].ts \in Int /\ s[l].ts \in Int /\ begin \in Int
      BY <1>1, <1>2, <2>4
    <3>3. \A a, c, x, y, z \in Int : a + c * (z - x) = (a + c * (y - x)) + c * (z - y)
      OBVIOUS
    <3>4. h[l] + s[l].count * (s[k].ts - s[l].ts)
            = (h[l] + s[l].count * (begin - s[l].ts)) + s[l].count * (s[k].ts - begin)
      <4> DEFINE a == h[l]
                 c == s[l].count
                 x == s[l].ts
                 z == s[k].ts
      <4>1. a \in Int /\ c \in Int /\ x \in Int /\ z \in Int /\ begin \in Int
        BY <2>4, <2>10, <3>2
      <4> HIDE DEF a, c, x, z
      <4>2. a + c * (z - x) = (a + c * (begin - x)) + c * (z - begin)
        BY <3>3, <4>1
      <4> QED BY <4>2 DEF a, c, x, z
    <3> QED BY <2>3, <2>12, <3>1, <3>4
  <2> DEFINE g == [i \in 1 .. Len(w) |-> IF i = 1 THEN AreaIn(o, begin) ELSE h[k + i - 2]]
  <2>14. \A i \in 2 .. Len(w) : k + i - 2 \in k .. Len(s) /\ k + i - 2 \in DOMAIN s
    BY <1>1, <2>1
  <2>15. AreaIn(o, begin) \in Int
    BY <1>2, AreaType
  <2>16. Len(w) \in Nat /\ Len(w) >= 2
    BY <1>1, <2>1
  <2>17. /\ g \in [1 .. Len(w) -> Int] /\ g[1] = AreaIn(o, begin)
         /\ \A i \in 2 .. Len(w) : g[i] = h[k + i - 2]
    BY <1>4, <2>14, <2>15, <2>16
  <2> HIDE DEF g
  <2>18. ASSUME NEW i \in 1 .. Len(w) - 1
         PROVE  g[i + 1] = g[i] + w[i].count * (w[i + 1].ts - w[i].ts)
    <3> DEFINE j == k + i - 2
    <3>1. i + 1 \in 2 .. Len(w) /\ k + (i + 1) - 2 = j + 1
      BY <1>1, <2>16
    <3>2. g[i + 1] = h[j + 1] /\ w[i + 1] = s[j + 1]
      BY <2>1, <2>17, <3>1
    <3>3. CASE i = 1
      <4>1. j + 1 = k
        BY <3>3
      <4>2. w[1].count = s[l].count
        BY <2>1 DEF l
      <4> QED BY <2>1, <2>13, <2>17, <3>2, <3>3, <4>1, <4>2
    <3>4. CASE i # 1
      <4>1. i \in 2 .. Len(w) /\ j \in 1 .. Len(s) - 1 /\ j + 1 \in k .. Len(s)
        <5>1. i \in 2 .. Len(w) /\ i <= Len(w) - 1
          BY <2>16, <3>4
        <5>2. Len(w) = Len(s) - k + 2
          BY <2>1
        <5> HIDE DEF g
        <5>3. j \in Int /\ k <= j /\ j + 1 <= Len(s) /\ 2 <= k
          BY <1>1, <5>1, <5>2
        <5>4. j \in 1 .. Len(s) - 1 /\ j + 1 \in k .. Len(s)
          <6> HIDE DEF j
          <6> QED BY <1>1, <5>3
        <5> QED BY <5>1, <5>4
      <4>2. g[i] = h[j] /\ w[i] = s[j]
        BY <2>1, <2>17, <4>1
      <4>3. h[j + 1] = h[j] + s[j].count * (s[j + 1].ts - s[j].ts)
        BY <1>4, <2>7, <4>1
      <4> QED BY <3>2, <4>2, <4>3
    <3> QED BY <3>3, <3>4
  <2>19. g[Len(w)] = AreaIn(o, end)
    <3>1. Len(w) \in 2 .. Len(w) /\ k + Len(w) - 2 = Len(s)
      BY <1>1, <2>1, <2>16
    <3> QED BY <1>5, <2>17, <3>1
  <2>20. Adds(w, s, o)
    <3>1. g[1] = AreaIn(o, w[1].ts)
      BY <2>1, <2>17
    <3> QED BY <2>17, <2>18, <2>19, <3>1 DEF Adds, end
  <2> QED BY <1>2, <2>1, <2>6, <2>20
<1>9. Good
  <2> HIDE DEF Good, w, begin
  <2> QED BY <1>3, <1>6, <1>7, <1>8
<1> QED BY <1>1, <1>9, ExactFromArea

-----------------------------------------------------------------------------
(* The flow of the first k registers from a to b.                           *)
Passed(o, a, b) ==
    [j \in DOMAIN o |-> IF a <= o[j].ts /\ o[j].ts <= b THEN o[j].flow ELSE 0]
FlowTo(o, a, b, k) == SumFunctionOnSet(Passed(o, a, b), 1 .. k)

(* It is a number, and that of all registers is FlowIn.                     *)
LEMMA FlowType ==
    ASSUME NEW o \in Seq(Registers), NEW a, NEW b, NEW k \in 0 .. Len(o)
    PROVE  /\ FlowTo(o, a, b, k) \in Int
           /\ \A j \in 1 .. k : Passed(o, a, b)[j] \in Int
           /\ FlowIn(o, a, b) = FlowTo(o, a, b, Len(o))
<1> DEFINE f == Passed(o, a, b)
<1>1. DOMAIN f = 1 .. Len(o) /\ DOMAIN o = 1 .. Len(o) /\ Len(o) \in Nat
  BY DEF Passed
<1>2. \A j \in DOMAIN o : o[j].flow \in Int
  BY SampleType
<1>3. \A j \in 1 .. k : f[j] \in Int
  <2> SUFFICES ASSUME NEW j \in 1 .. k PROVE f[j] \in Int
    OBVIOUS
  <2>1. j \in DOMAIN o
    BY <1>1
  <2> QED BY <1>2, <2>1 DEF Passed
<1>4. FlowIn(o, a, b) = SumFunction(f)
  BY DEF FlowIn, Passed
<1> HIDE DEF f
<1>5. IsFiniteSet(1 .. k)
  BY FS_Interval
<1>6. SumFunctionOnSet(f, 1 .. k) \in Int
  BY <1>3, <1>5, SumType
<1> QED BY <1>1, <1>3, <1>4, <1>6 DEF FlowTo, SumFunction, f

(* It grows by the flow of a register that is from then.                    *)
LEMMA FlowStep ==
    ASSUME NEW o \in Seq(Registers), NEW a \in Int, NEW b \in Int, NEW k \in 1 .. Len(o),
           a <= o[k].ts, o[k].ts <= b
    PROVE  FlowTo(o, a, b, k) = FlowTo(o, a, b, k - 1) + o[k].flow
<1> DEFINE f == Passed(o, a, b)
<1>1. k \in DOMAIN o /\ k \in Int /\ 1 <= k /\ k \in 0 .. Len(o)
  OBVIOUS
<1>2. f[k] = o[k].flow
  BY <1>1 DEF Passed
<1>3. \A j \in 1 .. k : f[j] \in Int
  BY <1>1, FlowType
<1> HIDE DEF f
<1>4. SumFunctionOnSet(f, 1 .. k) = SumFunctionOnSet(f, 1 .. k - 1) + f[k]
  BY <1>1, <1>3, SumLast
<1> QED BY <1>2, <1>4 DEF FlowTo, f

(* Registers from before a have none.                                       *)
LEMMA FlowNone ==
    ASSUME NEW o \in Seq(Registers), NEW a \in Int, NEW b \in Int, NEW k \in 0 .. Len(o),
           \A j \in 1 .. k : o[j].ts < a
    PROVE  FlowTo(o, a, b, k) = 0
<1> DEFINE f == Passed(o, a, b)
<1>1. \A j \in 1 .. k : f[j] \in {0}
  <2> SUFFICES ASSUME NEW j \in 1 .. k PROVE f[j] = 0
    OBVIOUS
  <2>1. j \in DOMAIN o
    OBVIOUS
  <2>2. o[j].ts \in Nat
    BY <2>1, SampleType
  <2>3. ~ (a <= o[j].ts)
    BY <2>2
  <2> QED BY <2>1, <2>3 DEF Passed
<1>2. IsFiniteSet(1 .. k)
  BY FS_Interval
<1>3. 0 \in {0} /\ \A x, y \in {0} : x + y \in {0}
  OBVIOUS
<1> HIDE DEF f
<1>4. SumFunctionOnSet(f, 1 .. k) \in {0}
  BY <1>1, <1>2, <1>3, SumIn
<1> QED BY <1>4 DEF FlowTo, f

(* The flow of a measurement is what a function grows by that grows by the  *)
(* flow of every sample.                                                    *)
LEMMA MeasureFlow ==
    ASSUME NEW w, Len(w) \in Nat, DOMAIN w = 1 .. Len(w),
           NEW g, \A i \in 1 .. Len(w) + 1 : g[i] \in Int,
           \A i \in 1 .. Len(w) : w[i].flow = g[i + 1] - g[i]
    PROVE  Measure(w).flow = g[Len(w) + 1] - g[1]
<1> DEFINE f == [i \in DOMAIN w |-> w[i].flow]
           a == 1
           b == Len(w) + 1
<1>1. a \in Int /\ b \in Int /\ a <= b /\ b - 1 = Len(w)
  OBVIOUS
<1>2. \A i \in a .. b : g[i] \in Int
  OBVIOUS
<1>3. \A i \in a .. b - 1 : f[i] = g[i + 1] - g[i]
  BY <1>1
<1>4. Measure(w).flow = SumFunction(f) /\ DOMAIN f = a .. b - 1
  BY <1>1 DEF Measure
<1> HIDE DEF f, a, b
<1>5. SumFunctionOnSet(f, a .. b - 1) = g[b] - g[a]
  BY ONLY <1>1, <1>2, <1>3, Telescope, Zenon
<1> QED BY <1>4, <1>5, Zenon DEF SumFunction, a, b

(* From the k-th sample on the samples count every register from a to b     *)
(* once, and first less.                                                    *)
Counts(g, s, k, first, flow) ==
    /\ g \in [1 .. Len(s) + 1 -> Int]
    /\ \A i \in k .. Len(s) : s[i].flow = g[i + 1] - g[i]
    /\ g[k] = first /\ g[Len(s) + 1] = flow

(* They count it once if all of them are from then and the one before is    *)
(* not; but not the first one, if it is at the place of no register.        *)
LEMMA PlacesFlow ==
    ASSUME NEW s \in Seq(Registers), NEW o \in Seq(Registers), NEW p, Places(p, s, o),
           NEW a \in Nat \ {0}, NEW b \in Nat, NEW k \in DOMAIN s,
           \A i \in k .. Len(s) : a <= s[i].ts,
           \A j \in DOMAIN o : o[j].ts <= b,
           a = s[k].ts \/ (k > 1 /\ s[k - 1].ts < a)
    PROVE  \/ \E g : Counts(g, s, k, 0, FlowIn(o, a, b))
           \/ k = 1 /\ Moved(s) /\ \E g : Counts(g, s, 1, -s[1].flow, FlowIn(o, a, b))
<1> DEFINE n == Len(s)
           l == Len(o)
           g == [i \in 1 .. n + 1 |-> FlowTo(o, a, b, p[i])]
<1>1. n \in Nat /\ l \in Nat /\ DOMAIN s = 1 .. n /\ DOMAIN o = 1 .. l /\ k \in 1 .. n
  OBVIOUS
<1>2. p \in [1 .. n + 1 -> 0 .. l] /\ p[n + 1] = l
  BY DEF Places
<1>3. \A i \in k .. n : i \in DOMAIN s /\ i \in 1 .. n + 1 /\ i + 1 \in 1 .. n + 1
  BY <1>1
<1>4. g \in [1 .. n + 1 -> Int]
  BY <1>2, FlowType
<1>5. g[n + 1] = FlowIn(o, a, b)
  BY <1>1, <1>2, FlowType
<1>6. \A i \in k .. n : SinceReset(s, i)
  <2> SUFFICES ASSUME NEW i \in k .. n, NEW j \in i .. n PROVE s[j].ts # 0
    BY DEF SinceReset
  <2>1. j \in k .. n /\ j \in DOMAIN s
    BY <1>1
  <2>2. a <= s[j].ts /\ s[j].ts \in Nat
    BY <2>1, SampleType
  <2> QED BY <2>2
<1>7. ASSUME NEW i \in k .. n, Placed(p, s, o, i) PROVE s[i].flow = g[i + 1] - g[i]
  <2>1. p[i] \in 0 .. l /\ p[i + 1] \in 0 .. l
    BY <1>2, <1>3, <1>7
  <2>2. g[i] = FlowTo(o, a, b, p[i]) /\ g[i + 1] = FlowTo(o, a, b, p[i + 1])
    BY <1>3, <1>7
  <2>3. FlowTo(o, a, b, p[i]) \in Int
    BY <2>1, FlowType
  <2>4. CASE p[i + 1] = p[i] /\ s[i].flow = 0
    BY <2>2, <2>3, <2>4
  <2>5. CASE p[i + 1] = p[i] + 1 /\ s[i].flow = o[p[i + 1]].flow /\ s[i].ts = o[p[i + 1]].ts
    <3> DEFINE q == p[i + 1]
    <3>1. q \in 1 .. l /\ q - 1 = p[i] /\ q \in DOMAIN o
      BY <1>1, <2>1, <2>5
    <3>2. a <= o[q].ts /\ o[q].ts <= b
      BY <1>7, <2>5, <3>1
    <3>3. s[i].flow = o[q].flow /\ o[q].flow \in Int
      BY <2>5, <3>1, SampleType
    <3> HIDE DEF q
    <3>4. FlowTo(o, a, b, q) = FlowTo(o, a, b, q - 1) + o[q].flow
      <4>1. a \in Int /\ b \in Int /\ q \in 1 .. Len(o)
        BY <3>1
      <4> QED BY <3>2, <4>1, FlowStep, Zenon
    <3>5. g[i + 1] = g[i] + s[i].flow
      BY <2>2, <3>1, <3>3, <3>4, Zenon DEF q
    <3>6. g[i] \in Int /\ s[i].flow \in Int
      BY <2>2, <2>3, <3>3
    <3> HIDE DEF g
    <3> QED BY <3>5, <3>6
  <2> QED BY <1>7, <2>4, <2>5 DEF Placed
<1>8. g[k] = 0
  <2>1. k \in k .. n /\ k \in 1 .. n + 1
    BY <1>1
  <2>2. p[k] \in 0 .. l
    BY <1>2, <2>1
  <2>3. ASSUME NEW j \in 1 .. p[k] PROVE o[j].ts < a
    <3>1. o[j].ts < s[k].ts /\ (k > 1 => o[j].ts <= s[k - 1].ts)
      BY <1>6, <2>1 DEF Places
    <3>2. j \in DOMAIN o
      BY <1>1, <2>2
    <3>3. o[j].ts \in Nat
      BY <3>2, SampleType
    <3>4. CASE a = s[k].ts
      BY <3>1, <3>4
    <3>5. CASE k > 1 /\ s[k - 1].ts < a
      <4>1. k - 1 \in DOMAIN s
        BY <1>1, <3>5
      <4>2. s[k - 1].ts \in Nat
        BY <4>1, SampleType
      <4> QED BY <3>1, <3>3, <3>5, <4>2
    <3> QED BY <3>4, <3>5
  <2>4. FlowTo(o, a, b, p[k]) = 0
    BY <2>2, <2>3, FlowNone
  <2> QED BY <2>1, <2>4
<1>9. \A i \in k .. n : Placed(p, s, o, i) \/ (i = 1 /\ Moved(s) /\ p[2] = p[1])
  BY <1>3, <1>6 DEF Places
<1>10. ASSUME Placed(p, s, o, k) PROVE Counts(g, s, k, 0, FlowIn(o, a, b))
  <2>1. \A i \in k .. n : Placed(p, s, o, i)
    <3> TAKE i \in k .. n
    <3>1. i = k \/ i # 1
      BY <1>1
    <3> QED BY <1>9, <1>10, <3>1
  <2> HIDE DEF g
  <2> QED BY <1>4, <1>5, <1>7, <1>8, <2>1 DEF Counts
<1>11. ASSUME ~Placed(p, s, o, k)
       PROVE  k = 1 /\ Moved(s) /\ \E h : Counts(h, s, 1, -s[1].flow, FlowIn(o, a, b))
  <2>1. k \in k .. n
    BY <1>1
  <2>2. k = 1 /\ Moved(s) /\ p[2] = p[1]
    BY <1>9, <1>11, <2>1
  <2>3. \A i \in 2 .. n : Placed(p, s, o, i) /\ i \in k .. n
    <3> TAKE i \in 2 .. n
    <3>1. i # 1 /\ i \in k .. n
      BY <2>2
    <3> QED BY <1>9, <3>1
  <2>4. s[1].flow \in Int
    BY <2>2, SampleType
  <2>5. g[2] = g[1] /\ g[1] = 0
    <3>1. 2 \in 1 .. n + 1 /\ 1 \in 1 .. n + 1
      BY <1>1, <2>2
    <3> QED BY <1>8, <2>2, <3>1
  <2>6. \A i \in 2 .. n : s[i].flow = g[i + 1] - g[i]
    BY <1>7, <2>3
  <2> HIDE DEF g
  <2> DEFINE h == [i \in 1 .. n + 1 |-> IF i = 1 THEN -s[1].flow ELSE g[i]]
  <2>7. /\ h \in [1 .. n + 1 -> Int] /\ h[1] = -s[1].flow
        /\ \A i \in 2 .. n + 1 : h[i] = g[i]
    BY <1>1, <1>4, <2>4
  <2> HIDE DEF h
  <2>8. h[n + 1] = FlowIn(o, a, b)
    <3>1. n + 1 \in 2 .. n + 1
      BY <1>1, <2>2
    <3> QED BY <1>5, <2>7, <3>1
  <2>9. ASSUME NEW i \in 1 .. n PROVE s[i].flow = h[i + 1] - h[i]
    <3>1. i + 1 \in 2 .. n + 1
      BY <1>1
    <3>2. CASE i = 1
      <4>1. h[i + 1] = 0 /\ h[i] = -s[1].flow
        BY <2>5, <2>7, <3>1, <3>2
      <4> QED BY <2>4, <3>2, <4>1
    <3>3. CASE i # 1
      <4>1. i \in 2 .. n /\ i \in 2 .. n + 1
        BY <1>1, <3>3
      <4> QED BY <2>6, <2>7, <3>1, <4>1
    <3> QED BY <3>2, <3>3
  <2>10. Counts(h, s, 1, -s[1].flow, FlowIn(o, a, b))
    BY <2>7, <2>8, <2>9 DEF Counts
  <2> QED BY <2>2, <2>10
<1> QED BY <1>10, <1>11

(* w is s from the k-th sample on, behind one without flow if d is 2.       *)
From(w, s, k, d) ==
    /\ Len(w) = Len(s) - k + d /\ DOMAIN w = 1 .. Len(w)
    /\ d = 2 => w[1].flow = 0
    /\ \A i \in d .. Len(w) : w[i] = s[k + i - d]

(* What a window measures that is cut from such samples.                    *)
LEMMA CountsFlow ==
    ASSUME NEW s, Len(s) \in Nat, NEW k \in 1 .. Len(s), NEW g, NEW flow \in Int,
           Counts(g, s, k, 0, flow), NEW w, NEW d \in {1, 2}, From(w, s, k, d)
    PROVE  Measure(w).flow = flow
<1> USE DEF From
<1> DEFINE n == Len(w)
           h == [i \in 1 .. n + 1 |-> IF i < d THEN 0 ELSE g[k + i - d]]
<1>1. n \in Nat /\ d \in Int /\ k \in Int /\ d <= n /\ 1 <= d /\ d <= 2
  OBVIOUS
<1>2. g[k] = 0 /\ g[Len(s) + 1] = flow /\ g \in [1 .. Len(s) + 1 -> Int]
  BY DEF Counts
<1>3. \A i \in d .. n + 1 : k + i - d \in 1 .. Len(s) + 1 /\ i \in 1 .. n + 1 /\ ~ (i < d)
  BY <1>1
<1>4. \A i \in d .. n + 1 : h[i] = g[k + i - d] /\ h[i] \in Int
  BY <1>2, <1>3
<1>5. d = 2 => h[1] = 0
  BY <1>1
<1> HIDE DEF h
<1>6. h[d] = 0 /\ h[1] = 0 /\ h[n + 1] = flow
  <2>1. d \in d .. n + 1 /\ k + d - d = k /\ n + 1 \in d .. n + 1 /\ k + (n + 1) - d = Len(s) + 1
    BY <1>1
  <2>2. h[d] = 0 /\ h[n + 1] = flow
    BY <1>2, <1>4, <2>1
  <2> QED BY <1>5, <2>2
<1>7. \A i \in 1 .. n + 1 : h[i] \in Int
  <2>1. \A i \in 1 .. n + 1 : i = 1 \/ i \in d .. n + 1
    BY <1>1
  <2> QED BY <1>4, <1>6, <2>1
<1>8. ASSUME NEW i \in 1 .. n PROVE w[i].flow = h[i + 1] - h[i]
  <2>1. CASE i < d
    <3>1. i = 1 /\ d = 2 /\ i + 1 = d
      BY <2>1
    <3> QED BY <1>6, <3>1
  <2>2. CASE d <= i
    <3> DEFINE l == k + i - d
    <3>1. l \in k .. Len(s) /\ k + (i + 1) - d = l + 1
      BY <1>1, <2>2
    <3>2. i \in d .. n /\ i \in d .. n + 1 /\ i + 1 \in d .. n + 1
      BY <1>1, <2>2
    <3>3. h[i] = g[l] /\ h[i + 1] = g[l + 1] /\ w[i] = s[l]
      BY <1>4, <3>1, <3>2
    <3> HIDE DEF l
    <3> QED BY <3>1, <3>3 DEF Counts
  <2> QED BY <1>1, <2>1, <2>2
<1>9. Measure(w).flow = h[n + 1] - h[1]
  BY <1>1, <1>7, <1>8, MeasureFlow
<1> QED BY <1>6, <1>9

(* Samples that are not ahead of the latest reach back, whatever cut them.  *)
LEMMA CutReaches ==
    ASSUME NEW s \in Seq(Registers), s # <<>>, NEW P \in Nat, P <= MaxTick,
           NEW o \in Seq(Registers), o # <<>>, \A j \in DOMAIN o : o[j].ts <= Latest(s).ts,
           \A i \in DOMAIN s : s[i].ts - Tick < Latest(s).ts, Cut(s, o)
    PROVE  ReachesBack(s, P, o)
<1> DEFINE end == Latest(s).ts
           a == s[1].ts
<1>1. 1 \in DOMAIN s /\ Len(s) \in DOMAIN s /\ Len(o) \in DOMAIN o
  OBVIOUS
<1>2. end \in Nat /\ a \in Nat /\ Latest(o).ts \in Nat /\ Latest(o).ts <= end
  BY <1>1, SampleType DEF Latest
<1>3. MaxTick \in Nat /\ Tick \in Nat
  BY Constants
<1>4. \A i \in DOMAIN s : s[i].ts \in Nat /\ s[i].ts - Tick < end
  BY SampleType
<1>5. a = s[1].ts
  OBVIOUS
<1> HIDE DEF end, a
<1>6. ASSUME a + MaxTick <= Latest(o).ts PROVE a + P <= end
  BY <1>2, <1>3, <1>6
<1>7. ASSUME Moved(s) PROVE a + P <= end
  <2>1. PICK i \in DOMAIN s : a + MaxTick + Tick <= s[i].ts
    BY <1>5, <1>7 DEF Moved
  <2> DEFINE t == s[i].ts
  <2>2. t \in Nat /\ t - Tick < end /\ a + MaxTick + Tick <= t
    BY <1>4, <2>1
  <2> HIDE DEF t
  <2> QED BY <1>2, <1>3, <2>2
<1> QED BY <1>5, <1>6, <1>7 DEF Cut, ReachesBack, end

(* The flow of a window is exact, whichever of its cases it is, unless its  *)
(* first sample was moved: then it counts at most one register too many.    *)
LEMMA WindowFlow ==
    ASSUME NEW s \in Seq(Registers), s # <<>>, NEW P \in Nat \ {0}, P < Latest(s).ts,
           NEW o \in Seq(Registers), o # <<>>,
           \A i \in DOMAIN s : o[1].ts <= s[i].ts,
           \A j \in DOMAIN o : o[j].ts <= Latest(s).ts,
           NEW p, Places(p, s, o), ReachesBack(s, P, o)
    PROVE  LET w == Window(s, P)
               f == FlowIn(o, w[1].ts, Latest(s).ts)
           IN  /\ f \in Int
               /\ \/ Measure(w).flow = f
                  \/ /\ Moved(s) /\ AllOf(w, s, Latest(s).ts - P)
                     /\ Measure(w).flow = f + s[1].flow /\ s[1].flow \in -1 .. 1
<1> DEFINE w == Window(s, P)
           end == Latest(s).ts
           begin == end - P
           f == FlowIn(o, w[1].ts, end)
<1>1. /\ Len(s) \in Nat \ {0} /\ DOMAIN s = 1 .. Len(s) /\ Len(o) \in 0 .. Len(o)
      /\ \A i \in DOMAIN s : s[i].ts \in Nat
      /\ P \in Nat
  BY SampleType
<1>2. end \in Nat /\ begin \in Nat \ {0} /\ begin <= end
  <2>1. Latest(s).ts \in Nat
    BY <1>1 DEF Latest
  <2> QED BY <1>1, <2>1
<1>3. \/ AllOf(w, s, begin)
      \/ \E k \in 2 .. Len(s) : FromSample(w, s, begin, k) \/ FromCut(w, s, begin, k)
  BY <1>1, WindowCases
<1>4. \A j \in DOMAIN o : o[j].ts <= end
  OBVIOUS
<1>5. begin = end - P
  OBVIOUS
<1>6. FlowIn(o, w[1].ts, end) \in Int /\ FlowIn(o, begin, end) \in Int
  BY <1>1, FlowType
<1> DEFINE Good == \/ Measure(w).flow = f
                   \/ /\ Moved(s) /\ AllOf(w, s, begin)
                      /\ Measure(w).flow = f + s[1].flow /\ s[1].flow \in -1 .. 1
<1> HIDE DEF w, begin, end
<1>7. ASSUME AllOf(w, s, begin) PROVE Good
  <2>1. w = s /\ (\A i \in DOMAIN s : begin <= s[i].ts) /\ 1 \in DOMAIN s
    BY <1>1, <1>7 DEF AllOf
  <2> DEFINE a == s[1].ts
  <2>2. a \in Nat /\ begin <= a /\ a # 0
    BY <1>1, <1>2, <2>1
  <2>3. a = o[1].ts \/ a = begin
    <3>1. \A i \in DOMAIN s : s[i].ts # 0
      BY <1>1, <1>2, <2>1
    <3>2. a = o[1].ts \/ a + P <= end
      BY <3>1 DEF ReachesBack, end
    <3> HIDE DEF a
    <3>3. ASSUME a + P <= end PROVE a = begin
      BY <1>1, <1>2, <1>5, <2>2, <3>3
    <3> QED BY <3>2, <3>3
  <2>4. \A i \in 1 .. Len(s) : a <= s[i].ts
    BY <1>1, <2>1, <2>3
  <2>5. a \in Nat \ {0} /\ a = s[1].ts /\ s[1].flow \in -1 .. 1 /\ s[1].flow \in Int
    BY <2>1, <2>2, SampleType
  <2> HIDE DEF a
  <2>6. f \in Int /\ f = FlowIn(o, a, end)
    BY <1>6, <2>1, <2>5
  <2> HIDE DEF f
  <2>7. \/ \E g : Counts(g, s, 1, 0, f)
        \/ Moved(s) /\ \E g : Counts(g, s, 1, -s[1].flow, f)
    <3>1. end \in Nat /\ a \in Nat \ {0} /\ 1 \in DOMAIN s /\ a = s[1].ts
      BY <1>2, <2>1, <2>5
    <3>2. \/ \E g : Counts(g, s, 1, 0, FlowIn(o, a, end))
          \/ 1 = 1 /\ Moved(s) /\ \E g : Counts(g, s, 1, -s[1].flow, FlowIn(o, a, end))
      BY <1>4, <2>4, <3>1, PlacesFlow, Zenon
    <3> QED BY <2>6, <3>2
  <2>8. ASSUME NEW first, NEW g, Counts(g, s, 1, first, f)
        PROVE  Measure(s).flow = f - first
    <3>1. Measure(s).flow = g[Len(s) + 1] - g[1]
      BY <1>1, <2>8, MeasureFlow DEF Counts
    <3> QED BY <2>8, <3>1 DEF Counts
  <2>9. CASE \E g : Counts(g, s, 1, 0, f)
    <3>1. Measure(s).flow = f - 0
      BY <2>8, <2>9
    <3> QED BY <2>1, <2>6, <3>1
  <2>10. CASE Moved(s) /\ \E g : Counts(g, s, 1, -s[1].flow, f)
    <3>1. Measure(s).flow = f - (-s[1].flow)
      BY <2>8, <2>10
    <3>2. Measure(s).flow = f + s[1].flow
      BY <2>5, <2>6, <3>1
    <3> QED BY <1>7, <2>1, <2>5, <2>10, <3>2
  <2> QED BY <2>7, <2>9, <2>10
<1>8. ASSUME NEW k \in 2 .. Len(s), begin = s[k].ts \/ s[k - 1].ts < begin,
             \A i \in k .. Len(s) : begin <= s[i].ts
      PROVE  \E g : Counts(g, s, k, 0, FlowIn(o, begin, end))
  <2>1. k \in DOMAIN s /\ k > 1 /\ k # 1
    BY <1>1
  <2> QED BY <1>2, <1>4, <1>8, <2>1, PlacesFlow
<1>9. ASSUME NEW k \in 2 .. Len(s), FromSample(w, s, begin, k) PROVE Good
  <2>1. /\ Len(w) = Len(s) - k + 1 /\ DOMAIN w = 1 .. Len(w)
        /\ \A i \in 1 .. Len(w) : w[i] = s[k + i - 1]
        /\ w[1] = s[k]
    BY <1>9, SampleWindow
  <2>2. s[k].ts = begin /\ \A i \in k .. Len(s) : begin <= s[i].ts
    BY <1>9 DEF FromSample
  <2>3. PICK g : Counts(g, s, k, 0, FlowIn(o, begin, end))
    BY <1>8, <2>2
  <2>4. Measure(w).flow = FlowIn(o, begin, end)
    <3> DEFINE c == FlowIn(o, begin, end)
    <3>1. From(w, s, k, 1)
      BY <2>1 DEF From
    <3>2. k \in 1 .. Len(s) /\ Len(s) \in Nat /\ 1 \in {1, 2}
      BY <1>1
    <3>3. c \in Int /\ Counts(g, s, k, 0, c)
      BY <1>6, <2>3
    <3> HIDE DEF c
    <3>4. Measure(w).flow = c
      BY ONLY <3>1, <3>2, <3>3, CountsFlow, Zenon
    <3> QED BY <3>4 DEF c
  <2> QED BY <2>1, <2>2, <2>4
<1>10. ASSUME NEW k \in 2 .. Len(s), FromCut(w, s, begin, k) PROVE Good
  <2>1. /\ Len(w) = Len(s) - k + 2 /\ DOMAIN w = 1 .. Len(w)
        /\ \A i \in 2 .. Len(w) : w[i] = s[k + i - 2]
        /\ w[1].ts = begin /\ w[1].flow = 0
    BY <1>2, <1>10, CutWindow
  <2>2. s[k - 1].ts < begin /\ \A i \in k .. Len(s) : begin <= s[i].ts
    BY <1>10 DEF FromCut
  <2>3. PICK g : Counts(g, s, k, 0, FlowIn(o, begin, end))
    BY <1>8, <2>2
  <2>4. Measure(w).flow = FlowIn(o, begin, end)
    <3> DEFINE c == FlowIn(o, begin, end)
    <3>1. From(w, s, k, 2)
      BY <2>1 DEF From
    <3>2. k \in 1 .. Len(s) /\ Len(s) \in Nat /\ 2 \in {1, 2}
      BY <1>1
    <3>3. c \in Int /\ Counts(g, s, k, 0, c)
      BY <1>6, <2>3
    <3> HIDE DEF c
    <3>4. Measure(w).flow = c
      BY ONLY <3>1, <3>2, <3>3, CountsFlow, Zenon
    <3> QED BY <3>4 DEF c
  <2> QED BY <2>1, <2>4
<1>11. Good
  <2> HIDE DEF Good
  <2> QED BY <1>3, <1>7, <1>9, <1>10
<1> QED BY <1>6, <1>11 DEF Good, w, end, begin

-----------------------------------------------------------------------------
(* What follows a sample.  Either that is a reset, or it is late enough and *)
(* no reference waits for a window that begins after it.                    *)
LEMMA PostStep ==
    ASSUME NEW s \in Seq(Registers), s # <<>>, Post(s),
           reference \in [References -> Measurements],
           \A P \in References : reference[P].length <= P,
           \/ Latest(s).ts = 0
           \/ /\ MaxTick < Latest(s).ts
              /\ \/ \E i \in DOMAIN s : s[i].ts = 0
                 \/ s[1].ts <= Latest(s).ts
                 \/ \A P \in References : s[1].ts <= reference[P].ts + P
    PROVE  /\ reference' \in [References -> Measurements]
           /\ \A P \in References :
                /\ reference'[P].length <= P
                /\ reference[P].ts <= reference'[P].ts
                /\ Len(s) > 1 => Latest(s).ts <= reference'[P].ts + P
                /\ reference'[P] # reference[P] =>
                        Due(s, P) /\ reference'[P] = Measure(Window(s, P))
<1> DEFINE end == Latest(s).ts
<1>1. reference' = [P \in References |->
                        IF Due(s, P) THEN Measure(Window(s, P)) ELSE reference[P]]
  BY DEF Post
<1>2. ASSUME NEW P \in References
      PROVE  /\ reference'[P] \in Measurements
             /\ reference'[P].length <= P
             /\ reference[P].ts <= reference'[P].ts
             /\ Len(s) > 1 => end <= reference'[P].ts + P
             /\ reference'[P] # reference[P] =>
                     Due(s, P) /\ reference'[P] = Measure(Window(s, P))
  <2> DEFINE w == Window(s, P)
             m == Measure(w)
             begin == end - P
  <2>1. P \in Nat \ {0} /\ P \in Nat /\ P <= MaxTick /\ MaxTick \in Nat
    BY Constants
  <2>2. reference[P] \in Measurements /\ reference[P].ts \in Nat /\ reference[P].length <= P
    BY DEF Measurements
  <2>3. /\ Len(w) \in Nat \ {0} /\ DOMAIN w = 1 .. Len(w)
        /\ \A i \in DOMAIN w : w[i] \in WindowSamples
        /\ Latest(w).ts = end /\ end \in Nat
        /\ begin <= w[1].ts /\ w[1].ts \in Int
        /\ w[1].ts = begin \/ AllOf(w, s, begin)
    BY <2>1, WindowType
  <2>4. Due(s, P) <=> reference[P].ts + P < end /\ Len(s) > 1
    BY <2>1, MeasurableLong DEF Due
  <2>5. reference'[P] = IF Due(s, P) THEN m ELSE reference[P]
    BY <1>1
  <2>6. CASE Due(s, P)
    <3>1. reference'[P] = m
      BY <2>5, <2>6
    <3>2. m.ts = end /\ m.length = end - w[1].ts /\ m.total \in Int /\ m.flow \in Int
      BY <2>3, MeasureType DEF Measure
    <3>3. reference[P].ts + P < end /\ end # 0
      BY <2>1, <2>2, <2>3, <2>4, <2>6
    <3>4. w[1].ts <= end
      <4>1. CASE w[1].ts = begin
        BY <2>1, <2>3, <4>1
      <4>2. CASE AllOf(w, s, begin)
        <5>1. w = s /\ \A i \in DOMAIN s : begin <= s[i].ts
          BY <4>2 DEF AllOf
        <5>2. ~ \E i \in DOMAIN s : s[i].ts = 0
          <6>1. 0 < begin
            BY <2>1, <2>3, <3>3
          <6> QED BY <2>1, <2>3, <5>1, <6>1
        <5>3. s[1].ts <= end \/ s[1].ts <= reference[P].ts + P
          BY <3>3, <5>2
        <5> QED BY <2>1, <2>2, <2>3, <3>3, <5>1, <5>3
      <4> QED BY <2>3, <4>1, <4>2
    <3>5. m \in Measurements
      <4>1. end - w[1].ts \in Nat
        BY <2>3, <3>4
      <4>2. m = [ts |-> m.ts, length |-> m.length, total |-> m.total, flow |-> m.flow]
        BY DEF Measure
      <4> HIDE DEF m
      <4> QED BY <2>3, <3>2, <4>1, <4>2 DEF Measurements
    <3>6. m.length <= P /\ reference[P].ts <= m.ts /\ end <= m.ts + P
      <4> HIDE DEF m
      <4> QED BY <2>1, <2>2, <2>3, <3>2, <3>3
    <3> QED BY <2>6, <3>1, <3>5, <3>6
  <2>7. CASE ~ Due(s, P)
    <3>1. reference'[P] = reference[P]
      BY <2>5, <2>7
    <3>2. Len(s) > 1 => end <= reference[P].ts + P
      BY <2>1, <2>2, <2>3, <2>4, <2>7
    <3> QED BY <2>2, <3>1, <3>2
  <2> QED BY <2>6, <2>7
<1>3. reference' \in [References -> Measurements]
  BY <1>1, <1>2
<1> QED BY <1>2, <1>3

-----------------------------------------------------------------------------
(* The numbers that describe the latest register.                           *)
LEMMA LastType ==
    ASSUME TypeOK
    PROVE  LastTs \in Nat /\ Count \in 0 .. MaxCount /\ Count \in Int
<1>1. occupancy # <<>> => Len(occupancy) \in DOMAIN occupancy
  BY DEF TypeOK
<1>2. occupancy \in Seq(Registers)
  BY DEF TypeOK
<1>3. LastTs \in Nat
  BY <1>1, <1>2, SampleType DEF LastTs
<1>4. Count \in 0 .. MaxCount /\ Count \in Int
  BY <1>1, <1>2, SampleType, Constants DEF Count
<1> QED BY <1>3, <1>4

(* No register is after the last.                                           *)
LEMMA RegistersUpTo ==
    ASSUME TypeOK, HistoryOK, NEW j \in DOMAIN occupancy
    PROVE  occupancy[j].ts <= LastTs /\ occupancy[j].ts \in Nat
<1> DEFINE n == Len(occupancy)
<1>1. n \in DOMAIN occupancy /\ j \in 1 .. n /\ n \in Nat /\ occupancy # <<>>
  BY DEF TypeOK
<1>2. LastTs = occupancy[n].ts
  BY <1>1 DEF LastTs
<1>3. occupancy[j].ts \in Nat /\ LastTs \in Nat
  BY LastType, SampleType DEF TypeOK
<1> HIDE DEF n
<1>4. j = n \/ j < n
  BY <1>1
<1>5. j < n => occupancy[j].ts < occupancy[n].ts
  BY <1>1 DEF HistoryOK, Ordered
<1> QED BY <1>2, <1>3, <1>4, <1>5

-----------------------------------------------------------------------------
(* A sample is added for a register, or by a tick, which leaves the flow of *)
(* the sample it moves.                                                     *)
AddsFlow(e, edge, m) ==
    \/ /\ occupancy' = Append(occupancy, e) /\ edge + MaxTick = e.ts
       /\ SlidFlow(samples', Append(samples, e), edge, m, FALSE)
    \/ /\ occupancy' = occupancy /\ e.flow = 0 /\ edge + MaxTick + Tick = e.ts
       /\ SlidFlow(samples', Append(samples, e), edge, m, TRUE)

(* What Receive, ReceiveReset and TickSample have in common: they add a     *)
(* sample e and move the oldest samples up to edge.                         *)
AddsSample(e, edge, m) ==
    /\ e \in Registers /\ edge \in Int /\ edge < e.ts
    /\ Slid(samples', Append(samples, e), edge, m)
    /\ occupancy' \in Seq(Registers) /\ occupancy' # <<>> /\ Ordered(occupancy')
    /\ Latest(occupancy').ts <= e.ts /\ Latest(occupancy').count = e.count
    /\ Latest(occupancy').ts <= now /\ occupancy'[1].ts <= e.ts
    /\ samples = <<>> => occupancy' = <<e>>
    /\ \A t \in Nat : t < e.ts => CountIn(occupancy', t) = CountIn(occupancy, t)
    /\ e.ts # 0 =>
        /\ Start <= e.ts /\ LastTs < e.ts /\ now - MaxDelay <= e.ts
        /\ edge + MaxTick <= now /\ edge + MaxTick <= e.ts
        /\ AddsFlow(e, edge, m)
        /\ samples # <<>> =>
            /\ occupancy'[1] = occupancy[1]
            /\ AreaIn(occupancy, e.ts) = AreaIn(occupancy, Latest(samples).ts)
                                            + Latest(samples).count * (e.ts - Latest(samples).ts)
    /\ Post(samples')
    /\ now' = now /\ silence > 0 /\ silence' = 0

(* The samples that are left after one is added.                            *)
LEMMA AddedFacts ==
    ASSUME TypeOK, NEW e, NEW edge, NEW m, AddsSample(e, edge, m)
    PROVE  LET q == Append(samples, e)
               r == samples'
           IN  /\ q \in Seq(Registers) /\ Len(q) = Len(samples) + 1 /\ DOMAIN q = 1 .. Len(q)
               /\ q[Len(q)] = e /\ Latest(q) = e /\ Len(samples) \in Nat
               /\ \A i \in 1 .. Len(samples) : q[i] = samples[i]
               /\ r \in Seq(Registers) /\ r # <<>> /\ Len(r) \in Nat \ {0} /\ m \in 1 .. Len(q)
               /\ DOMAIN r = 1 .. Len(r) /\ Len(r) = Len(q) - m + 1
               /\ \A i \in DOMAIN r : m + i - 1 \in DOMAIN q /\ r[i].count = q[m + i - 1].count
               /\ \A i \in DOMAIN r : q[m + i - 1].ts <= r[i].ts /\ r[i].ts \in Nat
               /\ \A i \in 2 .. Len(r) : r[i] = q[m + i - 1]
               /\ Latest(r).count = e.count /\ Latest(r).ts = e.ts /\ e.ts \in Nat
               /\ samples = <<>> => Len(r) = 1 /\ m = 1
               /\ samples # <<>> => Len(r) > 1 /\ m <= Len(samples)
<1> DEFINE q == Append(samples, e)
           r == samples'
<1>1. samples \in Seq(Registers) /\ e \in Registers /\ Slid(r, q, edge, m)
  BY DEF TypeOK, AddsSample
<1>2. /\ q \in Seq(Registers) /\ Len(q) = Len(samples) + 1 /\ DOMAIN q = 1 .. Len(q)
      /\ q[Len(q)] = e /\ Len(samples) \in Nat
      /\ \A i \in 1 .. Len(samples) : q[i] = samples[i]
      /\ samples = <<>> <=> Len(samples) = 0
  BY <1>1
<1>3. Latest(q) = e
  BY <1>2 DEF Latest
<1>4. e.ts \in Nat
  BY <1>1 DEF Registers
<1> HIDE DEF q, r
<1>5. /\ r \in Seq(Registers) /\ r # <<>> /\ Len(r) \in Nat \ {0} /\ m \in 1 .. Len(q)
      /\ DOMAIN r = 1 .. Len(r)
      /\ \A i \in DOMAIN r : m + i - 1 \in DOMAIN q /\ r[i].count = q[m + i - 1].count
      /\ \A i \in DOMAIN r : q[m + i - 1].ts <= r[i].ts /\ r[i].ts \in Nat
      /\ Latest(r).count = Latest(q).count /\ Latest(r).ts = Latest(q).ts
  BY <1>1, SlidFacts
<1>6. /\ Len(r) = Len(q) - m + 1
      /\ \A i \in 2 .. Len(r) : r[i] = q[m + i - 1]
      /\ m > 1 => q[m].ts <= edge
  BY <1>1 DEF Slid
<1>7. ASSUME samples # <<>> PROVE Len(r) > 1 /\ m <= Len(samples)
  <2>1. edge < e.ts /\ edge \in Int
    BY DEF AddsSample
  <2>2. m # Len(q)
    <3> SUFFICES ASSUME m = Len(q) PROVE FALSE
      OBVIOUS
    <3>1. m > 1
      BY <1>2, <1>7
    <3> QED BY <1>2, <1>4, <1>6, <2>1, <3>1
  <2> QED BY <1>2, <1>5, <1>6, <2>2
<1>8. ASSUME samples = <<>> PROVE Len(r) = 1 /\ m = 1
  BY <1>2, <1>5, <1>6, <1>8
<1> QED BY <1>2, <1>3, <1>4, <1>5, <1>6, <1>7, <1>8 DEF q, r

(* What the samples say stays true ...                                      *)
LEMMA AddedLasts ==
    ASSUME TypeOK, Lasts(samples, occupancy), NEW e, NEW edge, NEW m, AddsSample(e, edge, m)
    PROVE  Lasts(Append(samples, e), occupancy') /\ Lasts(samples', occupancy')
<1> DEFINE p == occupancy'
<1>1. /\ samples \in Seq(Registers) /\ e \in Registers
      /\ Slid(samples', Append(samples, e), edge, m)
      /\ p \in Seq(Registers) /\ p # <<>>
      /\ Latest(p).ts <= e.ts /\ Latest(p).count = e.count
      /\ \A t \in Nat : t < e.ts => CountIn(p, t) = CountIn(occupancy, t)
  BY DEF TypeOK, AddsSample
<1>2. e.ts \in Nat /\ Latest(p).ts \in Nat
  <2>1. Len(p) \in DOMAIN p
    BY <1>1
  <2> QED BY <1>1, <2>1, SampleType DEF Registers, Latest
<1>3. ASSUME NEW t \in Nat, e.ts <= t PROVE CountIn(p, t) = e.count
  <2>1. p[Len(p)].ts <= t /\ t \in Int
    BY <1>1, <1>2, <1>3 DEF Latest
  <2>2. CountIn(p, t) = p[Len(p)].count
    BY <1>1, <2>1, CountLast
  <2> QED BY <1>1, <2>2 DEF Latest
<1> HIDE DEF p
<1>4. Lasts(Append(samples, e), p)
  BY <1>1, <1>3, LastsAppend
<1>5. Lasts(samples', p)
  BY <1>1, <1>4, LastsSlid
<1> QED BY <1>4, <1>5 DEF p

(* ... and what they add up to.                                             *)
LEMMA AddedTells ==
    ASSUME TypeOK, Lasts(samples, occupancy), \E h : Tells(h, samples, occupancy),
           NEW e, NEW edge, NEW m, AddsSample(e, edge, m)
    PROVE  \E h : Tells(h, samples', occupancy')
<1> DEFINE p == occupancy'
           q == Append(samples, e)
<1>1. /\ samples \in Seq(Registers) /\ occupancy \in Seq(Registers) /\ e \in Registers
      /\ Slid(samples', q, edge, m)
      /\ p \in Seq(Registers) /\ p # <<>>
      /\ Latest(p).ts <= e.ts /\ Latest(p).count = e.count
      /\ \A t \in Nat : t < e.ts => CountIn(p, t) = CountIn(occupancy, t)
      /\ e.ts # 0 /\ samples # <<>> =>
            AreaIn(occupancy, e.ts) = AreaIn(occupancy, Latest(samples).ts)
                                        + Latest(samples).count * (e.ts - Latest(samples).ts)
  BY DEF TypeOK, AddsSample
<1>2. PICK h : Tells(h, samples, occupancy)
  OBVIOUS
<1>3. samples # <<>> => h[Len(samples)] = AreaIn(occupancy, Latest(samples).ts)
  <2> SUFFICES ASSUME samples # <<>>
               PROVE  h[Len(samples)] = AreaIn(occupancy, Latest(samples).ts)
    OBVIOUS
  <2>1. Len(samples) \in DOMAIN samples /\ Len(samples) + 1 .. Len(samples) = {}
    BY <1>1
  <2>2. Settled(samples, Len(samples))
    BY <2>1 DEF Settled
  <2> QED BY <1>2, <2>1, <2>2 DEF Tells, Latest
<1>4. \/ e.ts = 0 \/ samples = <<>>
      \/ AreaIn(occupancy, e.ts) = h[Len(samples)]
                                     + Latest(samples).count * (e.ts - Latest(samples).ts)
  BY <1>1, <1>3
<1> HIDE DEF p
<1>5. \E g : Tells(g, q, p)
  BY <1>1, <1>2, <1>4, TellsAppend
<1> HIDE DEF q
<1>6. Lasts(q, p)
  BY AddedLasts DEF p, q
<1>7. \E g : Tells(g, samples', p)
  BY <1>1, <1>5, <1>6, TellsSlid
<1> QED BY <1>7 DEF p

(* The samples are at the places of the registers ...                       *)
LEMMA AddedPlaces ==
    ASSUME TypeOK, HistoryOK, NEW p, Places(p, samples, occupancy),
           NEW e, NEW edge, NEW m, AddsSample(e, edge, m)
    PROVE  \E g : Places(g, samples', occupancy')
<1> DEFINE q == Append(samples, e)
           r == samples'
<1>1. /\ q \in Seq(Registers) /\ Latest(q) = e /\ samples \in Seq(Registers)
      /\ r \in Seq(Registers) /\ r # <<>> /\ Latest(r).ts = e.ts /\ e.ts \in Nat
  BY AddedFacts DEF TypeOK
<1>2. /\ e \in Registers /\ Slid(r, q, edge, m)
      /\ occupancy \in Seq(Registers) /\ occupancy' \in Seq(Registers)
  BY DEF AddsSample, TypeOK
<1> HIDE DEF q, r
<1>3. CASE e.ts = 0
  BY <1>1, <1>2, <1>3, PlacesReset DEF r
<1>4. CASE e.ts # 0
  <2>1. LastTs < e.ts /\ AddsFlow(e, edge, m)
    BY <1>4 DEF AddsSample
  <2>2. \A j \in DOMAIN occupancy : occupancy[j].ts <= LastTs /\ occupancy[j].ts \in Nat
    BY RegistersUpTo
  <2>3. LastTs \in Nat /\ (samples # <<>> => LastTs <= Latest(samples).ts)
    BY LastType DEF HistoryOK
  <2>4. \A j \in DOMAIN occupancy : occupancy[j].ts < e.ts
    BY <1>1, <2>1, <2>2, <2>3
  <2>5. samples # <<>> => Latest(samples).ts \in Nat
    <3>1. samples # <<>> => Len(samples) \in DOMAIN samples
      BY <1>1
    <3> QED BY <1>1, <3>1, SampleType DEF Latest
  <2>6. samples # <<>> => \A j \in DOMAIN occupancy : occupancy[j].ts <= Latest(samples).ts
    BY <2>2, <2>3, <2>5
  <2>7. occupancy' = Append(occupancy, e) \/ (occupancy' = occupancy /\ e.flow = 0)
    BY <2>1 DEF AddsFlow
  <2>8. PICK g : Places(g, q, occupancy')
    BY <1>1, <1>2, <2>4, <2>6, <2>7, PlacesAppended DEF q
  <2>9. CASE SlidFlow(r, q, edge, m, FALSE)
    <3>1. \E h : Places(h, r, occupancy')
      BY <1>2, <2>8, <2>9, PlacesSlid
    <3> QED BY <3>1 DEF r
  <2>10. CASE SlidFlow(r, q, edge, m, TRUE) /\ edge + MaxTick + Tick = e.ts
    <3>1. edge + MaxTick + Tick = Latest(q).ts
      BY <1>1, <2>10
    <3>2. \E h : Places(h, r, occupancy')
      BY <1>2, <2>8, <2>10, <3>1, PlacesSlid
    <3> QED BY <3>2 DEF r
  <2> QED BY <2>1, <2>9, <2>10 DEF AddsFlow, q, r
<1> QED BY <1>3, <1>4

(* ... and were cut where it does not matter.                               *)
LEMMA AddedCut ==
    ASSUME TypeOK, HistoryOK, samples # <<>> => Cut(samples, occupancy),
           NEW e, NEW edge, NEW m, AddsSample(e, edge, m)
    PROVE  Cut(samples', occupancy')
<1> DEFINE q == Append(samples, e)
           r == samples'
           p == occupancy'
<1>1. /\ q \in Seq(Registers) /\ Len(q) = Len(samples) + 1 /\ DOMAIN q = 1 .. Len(q)
      /\ q[Len(q)] = e /\ Len(samples) \in Nat
      /\ \A i \in 1 .. Len(samples) : q[i] = samples[i]
      /\ r # <<>> /\ Len(r) \in Nat \ {0} /\ m \in 1 .. Len(q)
      /\ DOMAIN r = 1 .. Len(r) /\ Len(r) = Len(q) - m + 1
      /\ \A i \in DOMAIN r : r[i].ts \in Nat
      /\ \A i \in 2 .. Len(r) : r[i] = q[m + i - 1]
      /\ Latest(r).ts = e.ts /\ e.ts \in Nat
      /\ samples = <<>> => Len(r) = 1 /\ m = 1
  <2>1. /\ q \in Seq(Registers) /\ Len(q) = Len(samples) + 1 /\ DOMAIN q = 1 .. Len(q)
        /\ q[Len(q)] = e /\ Len(samples) \in Nat
        /\ \A i \in 1 .. Len(samples) : q[i] = samples[i]
    BY AddedFacts
  <2>2. /\ r # <<>> /\ Len(r) \in Nat \ {0} /\ m \in 1 .. Len(q)
        /\ DOMAIN r = 1 .. Len(r) /\ Len(r) = Len(q) - m + 1
        /\ \A i \in DOMAIN r : r[i].ts \in Nat
    BY AddedFacts
  <2>3. /\ \A i \in 2 .. Len(r) : r[i] = q[m + i - 1]
        /\ Latest(r).ts = e.ts /\ e.ts \in Nat
        /\ samples = <<>> => Len(r) = 1 /\ m = 1
    BY AddedFacts
  <2> QED BY ONLY <2>1, <2>2, <2>3
<1>2. /\ edge \in Int
      /\ samples = <<>> => p = <<e>>
      /\ e.ts # 0 => AddsFlow(e, edge, m) /\ LastTs < e.ts
      /\ e.ts # 0 /\ samples # <<>> => p[1] = occupancy[1]
  BY DEF AddsSample
<1>3. /\ \A i \in DOMAIN samples : samples[i].ts \in Nat
      /\ DOMAIN samples = 1 .. Len(samples)
  BY SampleType DEF TypeOK
<1>4. /\ r[1].ts = q[m].ts \/ r[1].ts = edge
      /\ m > 1 => q[m].ts <= edge
      /\ 1 \in DOMAIN r /\ Len(r) \in DOMAIN r /\ r[Len(r)].ts = e.ts
  <2>1. (r[1].ts = q[m].ts \/ (r[1].ts = edge /\ q[m].ts < edge /\ m < Len(q)))
            /\ (m > 1 => q[m].ts <= edge)
    BY Zenon DEF AddsSample, Slid
  <2>2. 1 \in DOMAIN r /\ Len(r) \in DOMAIN r
    BY <1>1
  <2>3. r[Len(r)].ts = e.ts
    BY <1>1 DEF Latest
  <2> QED BY <2>1, <2>2, <2>3
<1>5. MaxTick \in Nat /\ Tick \in Nat
  BY Constants
<1>6. CASE e.ts = 0
  BY <1>4, <1>6 DEF Cut
<1>7. CASE e.ts # 0 /\ samples = <<>>
  <2>1. r[1].ts = e.ts
    BY <1>1, <1>4, <1>7
  <2>2. p[1] = e
    BY <1>2, <1>7
  <2> QED BY <2>1, <2>2 DEF Cut
<1>8. CASE e.ts # 0 /\ samples # <<>>
  <2>1. \/ p = Append(occupancy, e) /\ edge + MaxTick = e.ts
        \/ p = occupancy /\ edge + MaxTick + Tick = e.ts
    BY <1>2, <1>8 DEF AddsFlow
  <2>2. /\ occupancy # <<>> /\ Latest(occupancy).ts = LastTs /\ LastTs \in Nat
        /\ p = Append(occupancy, e) => Latest(p).ts = e.ts
    <3>1. occupancy # <<>>
      BY <1>8 DEF HistoryOK
    <3>2. p = Append(occupancy, e) => Len(p) = Len(occupancy) + 1 /\ p[Len(occupancy) + 1] = e
      BY DEF TypeOK
    <3> QED BY <3>1, <3>2, LastType DEF Latest, LastTs
  <2>3. CASE r[1].ts = edge \/ m > 1
    <3>1. r[1].ts <= edge /\ r[1].ts \in Nat
      <4>1. m \in DOMAIN q
        BY <1>1
      <4>2. q[m].ts \in Nat
        BY <1>1, <4>1, SampleType
      <4> QED BY <1>1, <1>2, <1>4, <2>3, <4>2
    <3>2. CASE p = Append(occupancy, e) /\ edge + MaxTick = e.ts
      <4>1. r[1].ts + MaxTick <= Latest(p).ts
        BY <1>2, <1>5, <2>2, <3>1, <3>2
      <4> QED BY <4>1 DEF Cut
    <3>3. CASE p = occupancy /\ edge + MaxTick + Tick = e.ts
      <4>1. r[1].ts + MaxTick + Tick <= r[Len(r)].ts
        BY <1>2, <1>4, <1>5, <3>1, <3>3
      <4>2. Moved(r)
        BY <1>4, <4>1 DEF Moved
      <4> QED BY <4>2 DEF Cut
    <3> QED BY <2>1, <3>2, <3>3
  <2>4. CASE m = 1 /\ r[1].ts # edge
    <3>1. \A i \in DOMAIN samples : i \in DOMAIN r /\ r[i].ts = samples[i].ts
      <4> TAKE i \in DOMAIN samples
      <4>1. i \in 1 .. Len(samples) /\ i \in DOMAIN r /\ m + i - 1 = i
        BY <1>1, <1>3, <2>4
      <4>2. CASE i = 1
        BY <1>1, <1>4, <2>4, <4>1, <4>2
      <4>3. CASE i # 1
        <5>1. i \in 2 .. Len(r)
          BY <1>1, <4>1, <4>3
        <5> QED BY <1>1, <4>1, <5>1
      <4> QED BY <4>2, <4>3
    <3>2. 1 \in DOMAIN samples
      BY <1>1, <1>3, <1>8
    <3>3. Cut(samples, occupancy)
      BY <1>8
    <3>4. CASE \E i \in DOMAIN samples : samples[i].ts = 0
      BY <3>1, <3>4 DEF Cut
    <3>5. CASE samples[1].ts = occupancy[1].ts
      BY <1>2, <1>8, <3>1, <3>2, <3>5 DEF Cut
    <3>6. CASE samples[1].ts + MaxTick <= Latest(occupancy).ts
      <4>1. Latest(occupancy).ts <= Latest(p).ts /\ Latest(p).ts \in Nat
        BY <1>1, <1>2, <1>8, <2>1, <2>2
      <4>2. r[1].ts = samples[1].ts /\ samples[1].ts \in Nat
        BY <1>3, <3>1, <3>2
      <4>3. r[1].ts + MaxTick <= Latest(p).ts
        BY <1>5, <2>2, <3>6, <4>1, <4>2
      <4> QED BY <4>3 DEF Cut
    <3>7. CASE Moved(samples)
      <4>1. PICK i \in DOMAIN samples : samples[1].ts + MaxTick + Tick <= samples[i].ts
        BY <3>7 DEF Moved
      <4>2. i \in DOMAIN r /\ r[1].ts + MaxTick + Tick <= r[i].ts
        BY <3>1, <3>2, <4>1
      <4> QED BY <4>2 DEF Cut, Moved
    <3> QED BY <3>3, <3>4, <3>5, <3>6, <3>7 DEF Cut
  <2>5. m = 1 \/ m > 1
    BY <1>1
  <2> QED BY <2>3, <2>4, <2>5
<1> QED BY <1>6, <1>7, <1>8

(* The registers and the samples still belong together.                     *)
LEMMA AddedHistory ==
    ASSUME TypeOK, HistoryOK, NEW e, NEW edge, NEW m, AddsSample(e, edge, m)
    PROVE  HistoryOK'
<1> DEFINE q == Append(samples, e)
           r == samples'
           p == occupancy'
<1>1. /\ q \in Seq(Registers) /\ Len(q) = Len(samples) + 1 /\ DOMAIN q = 1 .. Len(q)
      /\ q[Len(q)] = e /\ Len(samples) \in Nat
      /\ \A i \in 1 .. Len(samples) : q[i] = samples[i]
      /\ r # <<>> /\ DOMAIN r = 1 .. Len(r) /\ m \in 1 .. Len(q)
      /\ \A i \in DOMAIN r : m + i - 1 \in DOMAIN q
      /\ \A i \in DOMAIN r : q[m + i - 1].ts <= r[i].ts /\ r[i].ts \in Nat
      /\ Latest(r).count = e.count /\ Latest(r).ts = e.ts /\ e.ts \in Nat
  <2>1. /\ q \in Seq(Registers) /\ Len(q) = Len(samples) + 1 /\ DOMAIN q = 1 .. Len(q)
        /\ q[Len(q)] = e /\ Len(samples) \in Nat
        /\ \A i \in 1 .. Len(samples) : q[i] = samples[i]
    BY AddedFacts
  <2>2. /\ r # <<>> /\ DOMAIN r = 1 .. Len(r) /\ m \in 1 .. Len(q)
        /\ \A i \in DOMAIN r : m + i - 1 \in DOMAIN q
        /\ \A i \in DOMAIN r : q[m + i - 1].ts <= r[i].ts /\ r[i].ts \in Nat
    BY AddedFacts
  <2>3. /\ Latest(r).count = e.count /\ Latest(r).ts = e.ts /\ e.ts \in Nat
    BY AddedFacts
  <2> QED BY ONLY <2>1, <2>2, <2>3
<1>2. /\ p \in Seq(Registers) /\ p # <<>> /\ Ordered(p)
      /\ Latest(p).ts <= e.ts /\ Latest(p).count = e.count
      /\ Latest(p).ts <= now /\ p[1].ts <= e.ts
      /\ samples = <<>> => p = <<e>>
      /\ e.ts # 0 => Start <= e.ts
      /\ e.ts # 0 /\ samples # <<>> => p[1] = occupancy[1]
      /\ now' = now
  BY DEF AddsSample
<1>3. Count' = Latest(p).count /\ LastTs' = Latest(p).ts
  BY <1>2 DEF Count, LastTs, Latest
<1>4. p[1].ts \in Nat
  <2>1. 1 \in DOMAIN p
    BY <1>2
  <2> QED BY <1>2, <2>1, SampleType
<1>5. \A i \in DOMAIN samples : samples[i].ts \in Nat /\ occupancy[1].ts <= samples[i].ts
  BY SampleType DEF TypeOK, HistoryOK
<1>6. DOMAIN samples = 1 .. Len(samples)
  BY DEF TypeOK
<1> HIDE DEF p, q, r
<1>7. ASSUME NEW i \in DOMAIN r PROVE p[1].ts <= r[i].ts
  <2> DEFINE l == m + i - 1
  <2>1. l \in DOMAIN q /\ q[l].ts <= r[i].ts /\ r[i].ts \in Nat
    BY <1>1
  <2>2. CASE l = Len(q)
    BY <1>1, <1>2, <1>4, <2>1, <2>2
  <2>3. CASE l # Len(q) /\ e.ts = 0
    BY <1>1, <1>2, <1>4, <2>1, <2>3
  <2>4. CASE l # Len(q) /\ e.ts # 0
    <3> HIDE DEF l
    <3>1. l \in 1 .. Len(samples) /\ samples # <<>>
      BY <1>1, <1>6, <2>1, <2>4
    <3>2. p[1] = occupancy[1] /\ q[l] = samples[l]
      BY <1>1, <1>2, <2>4, <3>1
    <3>3. samples[l].ts \in Nat /\ occupancy[1].ts <= samples[l].ts
      BY <1>5, <1>6, <3>1
    <3> QED BY <1>4, <2>1, <3>2, <3>3 DEF l
  <2> QED BY <2>2, <2>3, <2>4
<1>8. /\ Ordered(occupancy') /\ LastTs' <= now' /\ samples' # <<>> /\ occupancy' # <<>>
      /\ Latest(samples').count = Count' /\ LastTs' <= Latest(samples').ts
      /\ Latest(samples').ts = 0 \/ Start <= Latest(samples').ts
      /\ \A i \in DOMAIN samples' : occupancy'[1].ts <= samples'[i].ts
  BY <1>1, <1>2, <1>3, <1>7 DEF p, r
<1> QED BY <1>8 DEF HistoryOK

(* The samples still reach back.                                            *)
LEMMA AddedReachBack ==
    ASSUME TypeOK, HistoryOK, ReachBack, NEW e, NEW edge, NEW m, AddsSample(e, edge, m)
    PROVE  ReachBack'
<1> DEFINE q == Append(samples, e)
           r == samples'
<1>1. /\ q \in Seq(Registers) /\ Len(q) = Len(samples) + 1 /\ DOMAIN q = 1 .. Len(q)
      /\ q[Len(q)] = e /\ Len(samples) \in Nat
      /\ \A i \in 1 .. Len(samples) : q[i] = samples[i]
      /\ r # <<>> /\ Len(r) \in Nat \ {0} /\ m \in 1 .. Len(q)
      /\ DOMAIN r = 1 .. Len(r) /\ Len(r) = Len(q) - m + 1
      /\ \A i \in DOMAIN r : q[m + i - 1].ts <= r[i].ts /\ r[i].ts \in Nat
      /\ \A i \in 2 .. Len(r) : r[i] = q[m + i - 1]
      /\ Latest(r).ts = e.ts /\ e.ts \in Nat
      /\ samples = <<>> => Len(r) = 1 /\ m = 1
      /\ samples # <<>> => Len(r) > 1 /\ m <= Len(samples)
  <2>1. /\ q \in Seq(Registers) /\ Len(q) = Len(samples) + 1 /\ DOMAIN q = 1 .. Len(q)
        /\ q[Len(q)] = e /\ Len(samples) \in Nat
        /\ \A i \in 1 .. Len(samples) : q[i] = samples[i]
    BY AddedFacts
  <2>2. /\ r # <<>> /\ Len(r) \in Nat \ {0} /\ m \in 1 .. Len(q)
        /\ DOMAIN r = 1 .. Len(r) /\ Len(r) = Len(q) - m + 1
        /\ \A i \in DOMAIN r : q[m + i - 1].ts <= r[i].ts /\ r[i].ts \in Nat
    BY AddedFacts
  <2>3. /\ \A i \in 2 .. Len(r) : r[i] = q[m + i - 1]
        /\ Latest(r).ts = e.ts /\ e.ts \in Nat
        /\ samples = <<>> => Len(r) = 1 /\ m = 1
    BY AddedFacts
  <2>4. /\ samples # <<>> => Len(r) > 1 /\ m <= Len(samples)
    BY AddedFacts
  <2> QED BY ONLY <2>1, <2>2, <2>3, <2>4
<1>2. /\ edge \in Int
      /\ samples = <<>> => occupancy' = <<e>>
      /\ e.ts # 0 => /\ now - MaxDelay <= e.ts
                     /\ edge + MaxTick <= now /\ edge + MaxTick <= e.ts
      /\ e.ts # 0 /\ samples # <<>> => occupancy'[1] = occupancy[1]
      /\ now' = now /\ silence > 0 /\ silence' = 0
  BY DEF AddsSample
<1>3. now \in Nat /\ silence \in Nat /\ LastEvent \in Int /\ LastEvent <= now - 1 /\ LastEvent' = now
  BY <1>2, Constants DEF TypeOK, LastEvent
<1>4. /\ \A i \in DOMAIN samples : samples[i].ts \in Nat
      /\ DOMAIN samples = 1 .. Len(samples)
  BY SampleType DEF TypeOK
<1>5. /\ r[1].ts = q[m].ts \/ r[1].ts = edge
      /\ m > 1 => q[m].ts <= edge
      /\ m \in DOMAIN q /\ q[m].ts \in Nat
  <2>1. (r[1].ts = q[m].ts \/ (r[1].ts = edge /\ q[m].ts < edge /\ m < Len(q)))
            /\ (m > 1 => q[m].ts <= edge)
    BY Zenon DEF AddsSample, Slid
  <2>2. m \in DOMAIN q
    BY <1>1
  <2> QED BY <1>1, <2>1, <2>2, SampleType
<1>6. MaxTick \in Nat /\ MaxDelay \in Nat /\ Lateness \in Nat /\ MaxDelay <= Lateness + 1
  BY Constants DEF Lateness
<1> HIDE DEF q, r
<1>7. CASE e.ts = 0
  <2>1. Len(r) \in DOMAIN r /\ r[Len(r)].ts = 0
    BY <1>1, <1>7 DEF Latest
  <2> QED BY <1>1, <1>7, <2>1 DEF ReachBack, r
<1>8. CASE e.ts # 0 /\ samples = <<>>
  <2>1. m = 1 /\ Len(r) = 1 /\ r[Len(r)].ts = e.ts
    BY <1>1, <1>8 DEF Latest
  <2>2. occupancy'[1] = e
    BY <1>2, <1>8
  <2> QED BY <2>1, <2>2 DEF ReachBack, r
<1>9. CASE e.ts # 0 /\ samples # <<>>
  <2>1. CASE r[1].ts = edge \/ m > 1
    <3>1. r[1].ts <= edge /\ r[1].ts \in Nat
      <4>1. 1 \in DOMAIN r
        BY <1>1
      <4> QED BY <1>1, <1>2, <1>5, <2>1, <4>1
    <3>2. edge + MaxTick <= now /\ edge + MaxTick <= e.ts
      BY <1>2, <1>9
    <3>3. r[1].ts + MaxTick <= now
      BY <1>2, <1>3, <1>6, <3>1, <3>2
    <3>4. r[1].ts + MaxTick <= e.ts + Lateness
      <4>1. r[1].ts + MaxTick <= e.ts
        BY <1>1, <1>2, <1>6, <3>1, <3>2
      <4> QED BY <1>1, <1>6, <3>1, <4>1
    <3> QED BY <1>1, <1>3, <3>3, <3>4 DEF ReachBack, r
  <2>2. CASE m = 1 /\ r[1].ts # edge
    <3>1. 1 \in DOMAIN samples /\ 1 \in DOMAIN r /\ r[1].ts = samples[1].ts
      BY <1>1, <1>4, <1>5, <1>9, <2>2
    <3>2. CASE \E i \in DOMAIN samples : samples[i].ts = 0
      <4>1. PICK i \in DOMAIN samples : samples[i].ts = 0
        BY <3>2
      <4>2. i \in DOMAIN r /\ (i = 1 \/ i \in 2 .. Len(r)) /\ m + i - 1 = i
        BY <1>1, <1>4, <2>2
      <4>3. r[i].ts = 0
        BY <1>1, <1>4, <3>1, <4>1, <4>2
      <4> QED BY <4>2, <4>3 DEF ReachBack, r
    <3>3. CASE samples[1].ts = occupancy[1].ts
      BY <1>2, <1>9, <3>1, <3>3 DEF ReachBack, r
    <3>4. CASE samples[1].ts + MaxTick <= LastEvent
      <4>1. samples[1].ts \in Nat
        BY <1>4, <3>1
      <4>2. samples[1].ts + MaxTick <= now
        BY <1>3, <1>6, <3>4, <4>1
      <4>3. samples[1].ts + MaxTick <= e.ts + Lateness
        <5>1. samples[1].ts + MaxTick <= now - 1 /\ now - MaxDelay <= e.ts
          BY <1>2, <1>3, <1>6, <1>9, <3>4, <4>1
        <5> DEFINE a == samples[1].ts
                   b == e.ts
        <5>2. a + MaxTick <= now - 1 /\ now - MaxDelay <= b
          BY <5>1
        <5>3. a \in Nat /\ b \in Nat /\ now \in Nat /\ MaxTick \in Nat
              /\ MaxDelay \in Nat /\ Lateness \in Nat /\ MaxDelay <= Lateness + 1
          BY <1>1, <1>3, <1>6, <4>1
        <5> HIDE DEF a, b
        <5>4. a + MaxTick <= b + Lateness
          BY ONLY <5>2, <5>3
        <5> QED BY <5>4 DEF a, b
      <4> QED BY <1>1, <1>3, <3>1, <4>2, <4>3 DEF ReachBack, r
    <3> QED BY <1>9, <3>2, <3>3, <3>4 DEF ReachBack
  <2>3. m = 1 \/ m > 1
    BY <1>1
  <2> QED BY <2>1, <2>2, <2>3
<1> QED BY <1>7, <1>8, <1>9

(* The references that are due are posted, and are in time.                 *)
LEMMA AddedPost ==
    ASSUME TypeOK, Referenced, NEW e, NEW edge, NEW m, AddsSample(e, edge, m)
    PROVE  /\ reference' \in [References -> Measurements]
           /\ \A P \in References :
                /\ reference'[P].length <= P
                /\ reference[P].ts <= reference'[P].ts
                /\ Len(samples') > 1 => Latest(samples').ts <= reference'[P].ts + P
                /\ reference'[P] # reference[P] =>
                        Due(samples', P) /\ reference'[P] = Measure(Window(samples', P))
<1> DEFINE q == Append(samples, e)
           r == samples'
<1>1. /\ q \in Seq(Registers) /\ Len(q) = Len(samples) + 1 /\ DOMAIN q = 1 .. Len(q)
      /\ q[Len(q)] = e /\ Len(samples) \in Nat
      /\ \A i \in 1 .. Len(samples) : q[i] = samples[i]
      /\ r \in Seq(Registers) /\ r # <<>> /\ Len(r) \in Nat \ {0} /\ m \in 1 .. Len(q)
      /\ DOMAIN r = 1 .. Len(r) /\ Len(r) = Len(q) - m + 1
      /\ \A i \in 2 .. Len(r) : r[i] = q[m + i - 1]
      /\ Latest(r).ts = e.ts /\ e.ts \in Nat
      /\ samples = <<>> => Len(r) = 1 /\ m = 1
      /\ samples # <<>> => Len(r) > 1 /\ m <= Len(samples)
  <2>1. /\ q \in Seq(Registers) /\ Len(q) = Len(samples) + 1 /\ DOMAIN q = 1 .. Len(q)
        /\ q[Len(q)] = e /\ Len(samples) \in Nat
        /\ \A i \in 1 .. Len(samples) : q[i] = samples[i]
    BY AddedFacts
  <2>2. /\ r \in Seq(Registers) /\ r # <<>> /\ Len(r) \in Nat \ {0} /\ m \in 1 .. Len(q)
        /\ DOMAIN r = 1 .. Len(r) /\ Len(r) = Len(q) - m + 1
        /\ \A i \in 2 .. Len(r) : r[i] = q[m + i - 1]
    BY AddedFacts
  <2>3. /\ Latest(r).ts = e.ts /\ e.ts \in Nat
        /\ samples = <<>> => Len(r) = 1 /\ m = 1
        /\ samples # <<>> => Len(r) > 1 /\ m <= Len(samples)
    BY AddedFacts
  <2> QED BY ONLY <2>1, <2>2, <2>3
<1>2. /\ edge \in Int /\ edge < e.ts /\ Post(r)
      /\ e.ts # 0 => Start <= e.ts /\ LastTs < e.ts
  BY DEF AddsSample
<1>3. r[1].ts = q[m].ts \/ r[1].ts = edge
  <2>1. r[1].ts = q[m].ts \/ (r[1].ts = edge /\ q[m].ts < edge /\ m < Len(q))
    BY Zenon DEF AddsSample, Slid
  <2> QED BY <2>1
<1>4. reference \in [References -> Measurements] /\ \A P \in References : reference[P].length <= P
  BY DEF TypeOK
<1>5. e.ts # 0 => MaxTick < e.ts
  BY <1>1, <1>2, Constants
<1> HIDE DEF q, r
<1>6. ASSUME e.ts # 0, ~ \E i \in DOMAIN r : r[i].ts = 0
      PROVE  r[1].ts <= e.ts \/ \A P \in References : r[1].ts <= reference[P].ts + P
  <2>1. CASE samples = <<>>
    <3>1. r[1].ts = e.ts
      BY <1>1, <2>1 DEF Latest
    <3> QED BY <1>1, <3>1
  <2>2. CASE r[1].ts = edge
    BY <1>1, <1>2, <2>2
  <2>3. CASE samples # <<>> /\ r[1].ts = q[m].ts
    <3>1. m \in 1 .. Len(samples) /\ q[m] = samples[m] /\ DOMAIN samples = 1 .. Len(samples)
      BY <1>1, <2>3 DEF TypeOK
    <3>2. CASE Recent(samples, reference)
      <4>1. ASSUME NEW j \in m + 1 .. Len(samples) PROVE samples[j].ts # 0
        <5> DEFINE i == j - m + 1
        <5>1. i \in 2 .. Len(r) /\ m + i - 1 = j /\ j \in 1 .. Len(samples)
          BY <1>1, <3>1
        <5>2. r[i] = samples[j] /\ i \in DOMAIN r
          BY <1>1, <5>1
        <5> QED BY <1>6, <5>2
      <4>2. \A P \in References : samples[m].ts <= reference[P].ts + P
        BY <3>1, <3>2, <4>1 DEF Recent
      <4> QED BY <2>3, <3>1, <4>2
    <3>3. CASE Len(samples) = 1 /\ samples[1].ts <= LastTs
      <4>1. m = 1 /\ samples[1].ts \in Nat
        BY <3>1, <3>3, SampleType DEF TypeOK
      <4>2. LastTs \in Nat /\ LastTs <= e.ts
        <5>1. LastTs \in Nat
          <6>1. occupancy # <<>> => Len(occupancy) \in DOMAIN occupancy
            BY DEF TypeOK
          <6> QED BY <6>1, SampleType DEF TypeOK, LastTs
        <5> QED BY <1>1, <1>2, <1>6, <5>1
      <4> QED BY <1>1, <2>3, <3>1, <3>3, <4>1, <4>2
    <3> QED BY <3>2, <3>3 DEF Referenced
  <2> QED BY <1>3, <2>1, <2>2, <2>3
<1>7. \/ Latest(r).ts = 0
      \/ /\ MaxTick < Latest(r).ts
         /\ \/ \E i \in DOMAIN r : r[i].ts = 0
            \/ r[1].ts <= Latest(r).ts
            \/ \A P \in References : r[1].ts <= reference[P].ts + P
  BY <1>1, <1>5, <1>6
<1>8. r \in Seq(Registers) /\ r # <<>> /\ Post(r)
  BY <1>1, <1>2
<1> QED BY <1>4, <1>7, <1>8, PostStep DEF r

(* And none of them is left far behind.                                     *)
LEMMA AddedReferenced ==
    ASSUME TypeOK, Referenced, NEW e, NEW edge, NEW m, AddsSample(e, edge, m)
    PROVE  Referenced'
<1> DEFINE q == Append(samples, e)
           r == samples'
<1>1. /\ q \in Seq(Registers) /\ Len(q) = Len(samples) + 1 /\ DOMAIN q = 1 .. Len(q)
      /\ q[Len(q)] = e /\ Len(samples) \in Nat
      /\ \A i \in 1 .. Len(samples) : q[i] = samples[i]
      /\ r \in Seq(Registers) /\ r # <<>> /\ Len(r) \in Nat \ {0} /\ m \in 1 .. Len(q)
      /\ DOMAIN r = 1 .. Len(r) /\ Len(r) = Len(q) - m + 1
      /\ \A i \in 2 .. Len(r) : r[i] = q[m + i - 1]
      /\ \A i \in DOMAIN r : m + i - 1 \in DOMAIN q
      /\ Latest(r).ts = e.ts /\ e.ts \in Nat
      /\ samples = <<>> => Len(r) = 1 /\ m = 1
      /\ samples # <<>> => Len(r) > 1 /\ m <= Len(samples)
  <2>1. /\ q \in Seq(Registers) /\ Len(q) = Len(samples) + 1 /\ DOMAIN q = 1 .. Len(q)
        /\ q[Len(q)] = e /\ Len(samples) \in Nat
        /\ \A i \in 1 .. Len(samples) : q[i] = samples[i]
    BY AddedFacts
  <2>2. /\ r \in Seq(Registers) /\ r # <<>> /\ Len(r) \in Nat \ {0} /\ m \in 1 .. Len(q)
        /\ DOMAIN r = 1 .. Len(r) /\ Len(r) = Len(q) - m + 1
        /\ \A i \in 2 .. Len(r) : r[i] = q[m + i - 1]
    BY AddedFacts
  <2>3. /\ \A i \in DOMAIN r : m + i - 1 \in DOMAIN q
        /\ Latest(r).ts = e.ts /\ e.ts \in Nat
        /\ samples = <<>> => Len(r) = 1 /\ m = 1
    BY AddedFacts
  <2>4. /\ samples # <<>> => Len(r) > 1 /\ m <= Len(samples)
    BY AddedFacts
  <2> QED BY ONLY <2>1, <2>2, <2>3, <2>4
<1>2. /\ edge \in Int /\ edge < e.ts
      /\ e.ts # 0 => LastTs < e.ts
      /\ samples = <<>> => occupancy' = <<e>>
  BY DEF AddsSample
<1>3. r[1].ts = q[m].ts \/ r[1].ts = edge
  <2>1. r[1].ts = q[m].ts \/ (r[1].ts = edge /\ q[m].ts < edge /\ m < Len(q))
    BY Zenon DEF AddsSample, Slid
  <2> QED BY <2>1
<1>4. \A P \in References :
        /\ reference[P].ts \in Nat /\ reference'[P].ts \in Nat /\ P \in Nat
        /\ reference[P].ts <= reference'[P].ts
        /\ Len(r) > 1 => e.ts <= reference'[P].ts + P
  <2>1. \A P \in References : P \in Nat
    BY Constants
  <2>2. /\ reference \in [References -> Measurements]
        /\ reference' \in [References -> Measurements]
        /\ \A P \in References :
                /\ reference[P].ts <= reference'[P].ts
                /\ Len(samples') > 1 => Latest(samples').ts <= reference'[P].ts + P
    BY AddedPost DEF TypeOK
  <2>3. \A P \in References : reference[P].ts \in Nat /\ reference'[P].ts \in Nat
    BY <2>2 DEF Measurements
  <2> QED BY <1>1, <2>1, <2>2, <2>3 DEF r
<1>5. DOMAIN samples = 1 .. Len(samples) /\ \A i \in DOMAIN samples : samples[i].ts \in Nat
  BY SampleType DEF TypeOK
<1> HIDE DEF q, r
<1>6. CASE samples = <<>>
  <2>1. Len(r) = 1 /\ r[1].ts = e.ts
    BY <1>1, <1>6 DEF Latest
  <2>2. LastTs' = e.ts
    <3>1. occupancy' = <<e>>
      BY <1>2, <1>6
    <3>2. <<e>> # <<>> /\ Len(<<e>>) = 1 /\ <<e>>[1] = e
      OBVIOUS
    <3> QED BY <3>1, <3>2 DEF LastTs
  <2>3. Len(samples') = 1 /\ samples'[1].ts = e.ts
    BY <2>1 DEF r
  <2>4. e.ts <= e.ts
    BY <1>1
  <2>5. samples'[1].ts <= LastTs'
    BY <2>2, <2>3, <2>4, Zenon
  <2> QED BY <2>3, <2>5 DEF Referenced
<1>7. CASE samples # <<>>
  <2>1. ASSUME NEW i \in DOMAIN r, \A j \in i + 1 .. Len(r) : r[j].ts # 0, NEW P \in References
        PROVE  r[i].ts <= reference'[P].ts + P
    <3>1. /\ reference[P].ts \in Nat /\ reference'[P].ts \in Nat /\ P \in Nat
          /\ reference[P].ts <= reference'[P].ts /\ e.ts <= reference'[P].ts + P
      BY <1>1, <1>4, <1>7
    <3>2. CASE i = Len(r)
      BY <1>1, <3>1, <3>2 DEF Latest
    <3>3. CASE i # Len(r)
      <4> DEFINE l == m + i - 1
      <4>1. l \in 1 .. Len(samples) /\ Len(r) \in i + 1 .. Len(r) /\ i \in 1 .. Len(r)
        BY <1>1, <1>7, <3>3
      <4>2. e.ts # 0
        BY <1>1, <2>1, <4>1 DEF Latest
      <4>3. ASSUME NEW j \in l + 1 .. Len(samples) PROVE samples[j].ts # 0
        <5> DEFINE k == j - m + 1
        <5>1. k \in i + 1 .. Len(r) /\ k \in 2 .. Len(r) /\ m + k - 1 = j /\ j \in 1 .. Len(samples)
          BY <1>1, <1>7, <4>1
        <5>2. r[k] = samples[j]
          BY <1>1, <5>1
        <5> QED BY <2>1, <5>1, <5>2
      <4>4. r[i].ts = samples[l].ts \/ r[i].ts = edge
        <5>1. CASE i = 1
          <6>1. l = m
            BY <1>1, <5>1
          <6> QED BY <1>1, <1>3, <4>1, <5>1, <6>1
        <5>2. CASE i # 1
          <6>1. i \in 2 .. Len(r)
            BY <4>1, <5>2
          <6> QED BY <1>1, <4>1, <6>1
        <5> QED BY <5>1, <5>2
      <4> HIDE DEF l
      <4>5. l \in DOMAIN samples /\ samples[l].ts \in Nat
        BY <1>5, <4>1
      <4>6. samples[l].ts <= reference'[P].ts + P
        <5>1. CASE Recent(samples, reference)
          <6>1. samples[l].ts <= reference[P].ts + P
            BY <4>3, <4>5, <5>1 DEF Recent
          <6> QED BY <3>1, <4>5, <6>1
        <5>2. CASE Len(samples) = 1 /\ samples[1].ts <= LastTs
          <6>1. l = 1
            BY <4>1, <5>2
          <6>2. LastTs \in Nat
            <7>1. occupancy # <<>> => Len(occupancy) \in DOMAIN occupancy
              BY DEF TypeOK
            <7> QED BY <7>1, SampleType DEF TypeOK, LastTs
          <6> QED BY <1>1, <1>2, <3>1, <4>2, <4>5, <5>2, <6>1, <6>2
        <5> QED BY <5>1, <5>2 DEF Referenced
      <4>7. CASE r[i].ts = samples[l].ts
        BY <4>6, <4>7
      <4>8. CASE r[i].ts = edge
        <5>1. edge <= e.ts /\ edge \in Int /\ e.ts \in Int
          BY <1>1, <1>2
        <5>2. e.ts <= reference'[P].ts + P /\ reference'[P].ts + P \in Int
          BY <3>1
        <5> QED BY <4>8, <5>1, <5>2
      <4> QED BY <4>4, <4>7, <4>8
    <3> QED BY <3>2, <3>3
  <2>2. Recent(r, reference')
    BY <2>1 DEF Recent
  <2> QED BY <2>2 DEF Referenced, r
<1> QED BY <1>6, <1>7

(* The types of what is added.                                              *)
LEMMA AddedType ==
    ASSUME TypeOK, Referenced, NEW e, NEW edge, NEW m, AddsSample(e, edge, m)
    PROVE  TypeOK'
<1>1. now' \in Start .. Horizon /\ silence' \in 0 .. Tick
  BY Constants DEF TypeOK, AddsSample
<1>2. samples' \in Seq(Registers) /\ occupancy' \in Seq(Registers)
  BY DEF AddsSample, Slid
<1>3. /\ reference' \in [References -> Measurements]
      /\ \A P \in References : reference'[P].length <= P
  BY AddedPost
<1> QED BY <1>1, <1>2, <1>3 DEF TypeOK

-----------------------------------------------------------------------------
(* From the last register on, the count is that of the space.               *)
LEMMA CountAfter ==
    ASSUME TypeOK, NEW t \in Nat, LastTs <= t
    PROVE  CountIn(occupancy, t) = Count
<1>1. CASE occupancy = <<>>
  BY <1>1 DEF CountIn, Count
<1>2. CASE occupancy # <<>>
  <2>1. occupancy \in Seq(Registers) /\ t \in Int /\ occupancy[Len(occupancy)].ts <= t
    BY <1>2 DEF TypeOK, LastTs
  <2>2. CountIn(occupancy, t) = occupancy[Len(occupancy)].count
    BY <1>2, <2>1, CountLast
  <2> QED BY <1>2, <2>2 DEF Count
<1> QED BY <1>1, <1>2

(* So the area grows evenly then.                                           *)
LEMMA AreaAfter ==
    ASSUME TypeOK, NEW a \in Nat, NEW b \in Nat, LastTs <= a, LastTs <= b
    PROVE  AreaIn(occupancy, b) = AreaIn(occupancy, a) + Count * (b - a)
<1>1. occupancy \in Seq(Registers) /\ Count \in Int /\ LastTs \in Nat
  BY LastType DEF TypeOK
<1>2. \A t \in Nat : LastTs <= t => CountIn(occupancy, t) = Count
  BY CountAfter
<1>3. CASE a <= b
  <2>1. \A t \in Nat : a <= t /\ t < b => CountIn(occupancy, t) = Count
    BY <1>1, <1>2
  <2> QED BY <1>1, <1>3, <2>1, AreaEven
<1>4. CASE b <= a
  <2>1. \A t \in Nat : b <= t /\ t < a => CountIn(occupancy, t) = Count
    BY <1>1, <1>2
  <2>2. AreaIn(occupancy, a) = AreaIn(occupancy, b) + Count * (a - b)
    BY <1>1, <1>4, <2>1, AreaEven
  <2>3. AreaIn(occupancy, b) \in Int
    BY <1>1, AreaType
  <2>4. \A x, c, y, z \in Int : x = (x + c * (y - z)) + c * (z - y)
    OBVIOUS
  <2>5. AreaIn(occupancy, b)
            = (AreaIn(occupancy, b) + Count * (a - b)) + Count * (b - a)
    BY <1>1, <2>3, <2>4
  <2> QED BY <2>2, <2>5
<1> QED BY <1>3, <1>4

(* The same from the latest sample to any later time.                       *)
LEMMA AreaFromLatest ==
    ASSUME TypeOK, HistoryOK, samples # <<>>, NEW b \in Nat, LastTs <= b
    PROVE  AreaIn(occupancy, b) = AreaIn(occupancy, Latest(samples).ts)
                                    + Latest(samples).count * (b - Latest(samples).ts)
<1>1. Len(samples) \in DOMAIN samples
  BY DEF TypeOK
<1>2. Latest(samples).ts \in Nat
  BY <1>1, SampleType DEF TypeOK, Latest
<1>3. Latest(samples).count = Count /\ LastTs <= Latest(samples).ts
  BY DEF HistoryOK
<1> QED BY <1>2, <1>3, AreaAfter

(* Each of the three actions adds a sample in that way.                     *)
LEMMA ReceiveAdds ==
    ASSUME TypeOK, HistoryOK, NEW delay \in 0 .. MaxDelay, NEW v \in {-1, 1},
           Receive(now - delay, v)
    PROVE  \E e, edge, m : AddsSample(e, edge, m)
<1> DEFINE ts == now - delay
           e == [ts |-> ts, count |-> Count + v, flow |-> v]
           edge == ts - MaxTick
           q == Append(samples, e)
<1>1. /\ silence > 0 /\ ts > LastTs /\ ts >= Start /\ ts <= now
      /\ Count + v \in 0 .. MaxCount
      /\ samples' = Slide(q, edge, FALSE)
      /\ occupancy' = Append(occupancy, e)
      /\ Post(samples') /\ silence' = 0 /\ now' = now
  BY DEF Receive
<1>2. /\ MaxTick \in Nat \ {0} /\ MaxDelay \in Nat /\ Start \in Nat /\ Start > 2 * MaxTick
      /\ now \in Nat /\ delay \in Nat /\ delay <= MaxDelay
  BY Constants DEF TypeOK
<1>3. LastTs \in Nat /\ Count \in Int
  BY LastType
<1>4. ts \in Nat /\ edge \in Int /\ edge < ts /\ edge + MaxTick = ts /\ now - MaxDelay <= ts
  BY <1>1, <1>2
<1>5. v \in -1 .. 1
  OBVIOUS
<1> HIDE DEF ts
<1>6. e \in Registers /\ e.ts = ts /\ e.count = Count + v
  BY <1>1, <1>4, <1>5 DEF Registers
<1>7. samples \in Seq(Registers) /\ occupancy \in Seq(Registers)
  BY DEF TypeOK
<1> HIDE DEF e, edge
<1>8. q \in Seq(Registers) /\ q # <<>>
  BY <1>6, <1>7
<1>9. PICK m \in DOMAIN q : Slid(samples', q, edge, m) /\ SlidFlow(samples', q, edge, m, FALSE)
  BY <1>1, <1>4, <1>8, SlideSlid
<1> DEFINE p == Append(occupancy, e)
           n == Len(occupancy)
<1>10. /\ p \in Seq(Registers) /\ p # <<>> /\ Len(p) = n + 1 /\ DOMAIN p = 1 .. n + 1
       /\ n \in Nat /\ p[n + 1] = e /\ \A i \in 1 .. n : p[i] = occupancy[i]
       /\ DOMAIN occupancy = 1 .. n /\ n = Len(occupancy)
       /\ n = 0 => occupancy = <<>>
  BY <1>6, <1>7
<1>11. Latest(p) = e
  BY <1>10 DEF Latest
<1> HIDE DEF p, n
<1>12. \A i \in DOMAIN occupancy : occupancy[i].ts < ts /\ occupancy[i].ts \in Nat
  <2> TAKE i \in DOMAIN occupancy
  <2>1. occupancy[i].ts \in Nat /\ n \in DOMAIN occupancy
    BY <1>7, <1>10, SampleType
  <2>2. LastTs = occupancy[n].ts
    BY <1>10, <2>1 DEF LastTs, n
  <2>3. i = n \/ i < n
    BY <1>10
  <2>4. i < n => occupancy[i].ts < occupancy[n].ts
    BY <2>1 DEF HistoryOK, Ordered
  <2> QED BY <1>1, <1>3, <1>4, <2>1, <2>2, <2>3, <2>4
<1>13. Ordered(p)
  <2> SUFFICES ASSUME NEW i \in 1 .. n + 1, NEW j \in 1 .. n + 1, i < j
               PROVE  p[i].ts < p[j].ts
    BY <1>10 DEF Ordered
  <2>1. i \in 1 .. n /\ p[i] = occupancy[i] /\ i \in DOMAIN occupancy
    BY <1>10
  <2>2. CASE j = n + 1
    BY <1>6, <1>10, <1>12, <2>1, <2>2
  <2>3. CASE j # n + 1
    <3>1. j \in DOMAIN occupancy /\ p[j] = occupancy[j]
      BY <1>10, <2>3
    <3> QED BY <2>1, <3>1 DEF HistoryOK, Ordered
  <2> QED BY <2>2, <2>3
<1>14. p[1].ts <= ts
  <2>1. CASE n = 0
    BY <1>4, <1>6, <1>10, <2>1
  <2>2. CASE n # 0
    <3>1. 1 \in DOMAIN occupancy /\ p[1] = occupancy[1]
      BY <1>10, <2>2
    <3> QED BY <1>4, <1>12, <3>1
  <2> QED BY <2>1, <2>2
<1>15. samples = <<>> => p = <<e>>
  <2>1. samples = <<>> => occupancy = <<>>
    BY DEF HistoryOK
  <2>2. Append(<<>>, e) = <<e>>
    BY <1>6
  <2> QED BY <2>1, <2>2 DEF p
<1>16. \A t \in Nat : t < e.ts => CountIn(p, t) = CountIn(occupancy, t)
  <2> SUFFICES ASSUME NEW t \in Nat, t < e.ts
               PROVE  CountIn(p, t) = CountIn(occupancy, t)
    OBVIOUS
  <2>1. t \in Int /\ ~ (e.ts <= t)
    BY <1>4, <1>6
  <2> QED BY <1>6, <1>7, <2>1, CountAppend DEF p
<1>17. samples # <<>> =>
          /\ p[1] = occupancy[1]
          /\ AreaIn(occupancy, e.ts) = AreaIn(occupancy, Latest(samples).ts)
                                        + Latest(samples).count * (e.ts - Latest(samples).ts)
  <2> SUFFICES ASSUME samples # <<>>
               PROVE  /\ p[1] = occupancy[1]
                      /\ AreaIn(occupancy, e.ts) = AreaIn(occupancy, Latest(samples).ts)
                            + Latest(samples).count * (e.ts - Latest(samples).ts)
    OBVIOUS
  <2>1. n # 0
    <3>1. occupancy # <<>>
      BY DEF HistoryOK
    <3> QED BY <1>10, <3>1
  <2>2. p[1] = occupancy[1]
    BY <1>10, <2>1
  <2>3. LastTs <= ts
    BY <1>1, <1>3, <1>4
  <2> QED BY <1>4, <1>6, <2>2, <2>3, AreaFromLatest
<1>18. /\ Latest(p).ts <= e.ts /\ Latest(p).count = e.count /\ Latest(p).ts <= now
       /\ LastTs < e.ts /\ Start <= e.ts /\ now - MaxDelay <= e.ts /\ edge < e.ts
       /\ edge + MaxTick <= now /\ edge + MaxTick <= e.ts
  BY <1>1, <1>2, <1>3, <1>4, <1>6, <1>11
<1>19. occupancy' = p
  BY <1>1 DEF p
<1>20. AddsFlow(e, edge, m)
  BY <1>1, <1>4, <1>6, <1>9 DEF AddsFlow
<1> HIDE DEF q
<1>21. AddsSample(e, edge, m)
  BY <1>1, <1>4, <1>6, <1>9, <1>10, <1>13, <1>14, <1>15, <1>16, <1>17, <1>18, <1>19, <1>20
     DEF AddsSample, q
<1> QED BY <1>21

(* A reset adds the only sample without a time, and the registers start     *)
(* again from it.                                                           *)
LEMMA ResetAdds ==
    ASSUME TypeOK, HistoryOK, ReceiveReset
    PROVE  \E e, edge, m : AddsSample(e, edge, m)
<1> DEFINE q == Append(samples, Empty)
           edge == -MaxTick
           p == <<Empty>>
<1>1. /\ silence > 0 /\ samples' = Slide(q, edge, FALSE) /\ occupancy' = p
      /\ Post(samples') /\ silence' = 0 /\ now' = now
  BY DEF ReceiveReset
<1>2. MaxTick \in Nat \ {0} /\ MaxCount \in Nat /\ now \in Nat
  BY Constants DEF TypeOK
<1>3. edge \in Int /\ edge < 0
  BY <1>2
<1>4. Empty \in Registers /\ Empty.ts = 0 /\ Empty.count = 0
  BY <1>2 DEF Empty, Registers
<1>5. q \in Seq(Registers) /\ q # <<>>
  BY <1>4 DEF TypeOK
<1>6. p \in Seq(Registers) /\ p # <<>> /\ Len(p) = 1 /\ p[1] = Empty /\ DOMAIN p = 1 .. 1
  BY <1>4
<1> HIDE DEF edge, p
<1>7. PICK m \in DOMAIN q : Slid(samples', q, edge, m)
  BY <1>1, <1>3, <1>5, SlideSlid
<1>8. Latest(p) = Empty
  BY <1>6 DEF Latest
<1>9. Ordered(p)
  BY <1>6 DEF Ordered
<1> HIDE DEF q
<1>10. samples = <<>> => occupancy' = <<Empty>>
  BY <1>1 DEF p
<1>11. \A t \in Nat : t < Empty.ts => CountIn(p, t) = CountIn(occupancy, t)
  BY <1>4
<1>12. /\ Latest(p).ts <= Empty.ts /\ Latest(p).count = Empty.count /\ Latest(p).ts <= now
       /\ p[1].ts <= Empty.ts /\ edge < Empty.ts /\ ~ (Empty.ts # 0)
  BY <1>2, <1>3, <1>4, <1>6, <1>8
<1>13. AddsSample(Empty, edge, m)
  BY <1>1, <1>3, <1>4, <1>6, <1>7, <1>9, <1>10, <1>11, <1>12, Zenon DEF AddsSample, q
<1> QED BY <1>13

(* A tick adds the last sample at the end of the next tick, when the count  *)
(* is still the same.                                                       *)
LEMMA TickAdds ==
    ASSUME TypeOK, HistoryOK, TickSample, samples # <<>>
    PROVE  \E e, edge, m : AddsSample(e, edge, m)
<1> DEFINE last == Latest(samples)
           ts == now + Tick
           e == [last EXCEPT !.ts = ts, !.flow = 0]
           edge == now - MaxTick
           q == Append(samples, e)
<1>1. /\ silence = Tick /\ samples' = Slide(q, edge, TRUE) /\ occupancy' = occupancy
      /\ Post(samples') /\ silence' = 0 /\ now' = now
  BY DEF TickSample
<1>2. /\ MaxTick \in Nat \ {0} /\ Tick \in Nat \ {0} /\ MaxDelay \in Nat
      /\ Start \in Nat /\ Start <= now /\ now \in Nat
  BY Constants DEF TypeOK
<1>3. samples \in Seq(Registers) /\ occupancy \in Seq(Registers) /\ Len(samples) \in DOMAIN samples
  BY DEF TypeOK
<1>4. last \in Registers /\ last.count = Count /\ LastTs <= now /\ LastTs \in Nat
  BY <1>3, SampleType, LastType DEF HistoryOK, Latest
<1>5. /\ ts \in Nat /\ edge \in Int /\ edge < ts /\ edge + MaxTick = now /\ now < ts /\ 0 < ts
      /\ edge + MaxTick + Tick = ts
  BY <1>2
<1> HIDE DEF ts, edge, last
<1>6. e \in Registers /\ e.ts = ts /\ e.count = last.count /\ e.flow = 0
  <2>1. last.count \in 0 .. MaxCount /\ last \in [ts : Nat, count : 0 .. MaxCount, flow : -1 .. 1]
    BY <1>4 DEF Registers
  <2>2. e = [last EXCEPT !.ts = ts, !.flow = 0]
    OBVIOUS
  <2> HIDE DEF e
  <2>3. e = [ts |-> ts, count |-> last.count, flow |-> 0]
    BY <2>1, <2>2
  <2> QED BY <1>5, <2>1, <2>3 DEF Registers
<1> HIDE DEF e
<1>7. q \in Seq(Registers) /\ q # <<>>
  BY <1>3, <1>6
<1>8. PICK m \in DOMAIN q : Slid(samples', q, edge, m) /\ SlidFlow(samples', q, edge, m, TRUE)
  BY <1>1, <1>5, <1>7, SlideSlid
<1>9. occupancy # <<>> /\ Ordered(occupancy)
  BY DEF HistoryOK
<1>10. Latest(occupancy).ts = LastTs /\ Latest(occupancy).count = Count
  BY <1>9 DEF Latest, LastTs, Count
<1>11. occupancy[1].ts <= LastTs /\ occupancy[1].ts \in Nat
  <2>1. 1 \in DOMAIN occupancy
    BY <1>3, <1>9
  <2> QED BY <2>1, RegistersUpTo
<1>12. AreaIn(occupancy, ts) = AreaIn(occupancy, Latest(samples).ts)
                                    + Latest(samples).count * (ts - Latest(samples).ts)
  BY <1>4, <1>5, <1>2, AreaFromLatest
<1>13. /\ Latest(occupancy).ts <= ts /\ Latest(occupancy).ts <= now /\ occupancy[1].ts <= ts
       /\ Start <= ts /\ LastTs < ts /\ LastTs <= ts /\ now - MaxDelay <= ts
       /\ edge + MaxTick <= now /\ edge + MaxTick <= ts /\ silence > 0
  BY <1>1, <1>2, <1>4, <1>5, <1>10, <1>11
<1>14. AddsFlow(e, edge, m)
  BY <1>1, <1>5, <1>6, <1>8 DEF AddsFlow
<1> HIDE DEF q
<1>15. AddsSample(e, edge, m)
  BY <1>1, <1>3, <1>4, <1>5, <1>6, <1>8, <1>9, <1>10, <1>12, <1>13, <1>14 DEF AddsSample, q
<1> QED BY <1>15

-----------------------------------------------------------------------------
(* An added sample keeps the invariant.                                     *)
LEMMA AddedInv ==
    ASSUME CalculatorInv, NEW e, NEW edge, NEW m, AddsSample(e, edge, m)
    PROVE  CalculatorInv'
<1>1. /\ TypeOK /\ HistoryOK /\ ReachBack /\ Referenced
      /\ Lasts(samples, occupancy) /\ \E h : Tells(h, samples, occupancy)
      /\ \E p : Places(p, samples, occupancy)
      /\ samples # <<>> => Cut(samples, occupancy)
  BY DEF CalculatorInv
<1>2. TypeOK' /\ HistoryOK' /\ ReachBack' /\ Referenced'
  BY <1>1, AddedType, AddedHistory, AddedReachBack, AddedReferenced
<1>3. Lasts(samples', occupancy')
  BY <1>1, AddedLasts
<1>4. \E h : Tells(h, samples', occupancy')
  BY <1>1, AddedTells
<1>5. \E p : Places(p, samples', occupancy')
  BY <1>1, AddedPlaces
<1>6. Cut(samples', occupancy')
  BY <1>1, AddedCut
<1> QED BY <1>2, <1>3, <1>4, <1>5, <1>6 DEF CalculatorInv

(* The invariant holds when the server starts ...                           *)
LEMMA InitInv == Init => CalculatorInv
<1> SUFFICES ASSUME Init PROVE CalculatorInv
  OBVIOUS
<1>1. TypeOK
  <2>1. Nothing \in Measurements /\ Nothing.length = 0
    BY DEF Nothing, Measurements
  <2>2. \A P \in References : 0 <= P
    BY Constants
  <2>3. 0 \in 0 .. Tick /\ Start \in Start .. Horizon
    BY Constants
  <2>4. reference = [P \in References |-> Nothing]
    BY DEF Init
  <2>5. /\ reference \in [References -> Measurements]
        /\ \A P \in References : reference[P].length <= P
    BY <2>1, <2>2, <2>4
  <2> QED BY <2>3, <2>5 DEF Init, TypeOK
<1>2. samples = <<>> /\ occupancy = <<>> /\ now \in Nat /\ DOMAIN <<>> = {} /\ Len(<<>>) = 0
  BY Constants DEF Init
<1>3. HistoryOK
  <2>1. LastTs = 0 /\ 0 <= now
    BY <1>2 DEF LastTs
  <2>2. Ordered(<<>>)
    BY <1>2 DEF Ordered
  <2> QED BY <1>2, <2>1, <2>2 DEF HistoryOK
<1>4. ReachBack
  BY <1>2 DEF ReachBack
<1>5. Referenced
  BY <1>2 DEF Referenced, Recent
<1>6. Lasts(samples, occupancy)
  BY <1>2 DEF Lasts
<1>7. Tells(<<>>, samples, occupancy)
  <2>1. <<>> \in [DOMAIN samples -> Int] /\ 1 .. Len(samples) - 1 = {}
    BY <1>2
  <2> QED BY <1>2, <2>1 DEF Tells
<1>8. \E p : Places(p, samples, occupancy)
  <2> DEFINE p == [i \in 1 .. 1 |-> 0]
  <2>1. p \in [1 .. 1 -> 0 .. 0] /\ p[1] = 0
    OBVIOUS
  <2> HIDE DEF p
  <2>2. Places(p, samples, occupancy)
    BY <1>2, <2>1 DEF Places
  <2> QED BY <2>2
<1> QED BY <1>1, <1>2, <1>3, <1>4, <1>5, <1>6, <1>7, <1>8 DEF CalculatorInv

(* ... while nothing is received ...                                        *)
LEMMA QuietInv ==
    ASSUME CalculatorInv, UNCHANGED <<samples, reference, occupancy>>,
           now' \in Start .. Horizon, silence' \in 0 .. Tick, now <= now',
           samples # <<>> => LastEvent <= LastEvent'
    PROVE  CalculatorInv'
<1>1. /\ TypeOK /\ HistoryOK /\ ReachBack /\ Referenced
      /\ Lasts(samples, occupancy) /\ \E h : Tells(h, samples, occupancy)
      /\ \E p : Places(p, samples, occupancy)
      /\ samples # <<>> => Cut(samples, occupancy)
      /\ samples' = samples /\ reference' = reference /\ occupancy' = occupancy
  BY DEF CalculatorInv
<1>2. TypeOK'
  BY <1>1 DEF TypeOK
<1>3. now \in Nat /\ now' \in Nat /\ silence \in Nat /\ silence' \in Nat /\ LastTs \in Nat
  BY <1>1, Constants, LastType DEF TypeOK
<1>4. Count' = Count /\ LastTs' = LastTs
  BY <1>1 DEF Count, LastTs
<1>5. HistoryOK'
  <2>1. LastTs' <= now'
    BY <1>1, <1>3, <1>4 DEF HistoryOK
  <2> QED BY <1>1, <1>4, <2>1 DEF HistoryOK
<1>6. ReachBack'
  <2> SUFFICES ASSUME samples # <<>>, samples[1].ts + MaxTick <= LastEvent
               PROVE  samples[1].ts + MaxTick <= LastEvent'
    BY <1>1 DEF ReachBack
  <2>1. LastEvent \in Int /\ LastEvent' \in Int
    BY <1>3 DEF LastEvent
  <2>2. samples[1].ts \in Nat /\ MaxTick \in Nat
    <3>1. 1 \in DOMAIN samples
      BY <1>1 DEF TypeOK
    <3> QED BY <1>1, <3>1, SampleType, Constants DEF TypeOK
  <2> QED BY <2>1, <2>2
<1>7. Referenced'
  BY <1>1, <1>4 DEF Referenced
<1>8. /\ Lasts(samples', occupancy') /\ \E h : Tells(h, samples', occupancy')
      /\ \E p : Places(p, samples', occupancy')
      /\ samples' # <<>> => Cut(samples', occupancy')
  BY <1>1
<1> QED BY <1>2, <1>5, <1>6, <1>7, <1>8 DEF CalculatorInv

(* ... and at every step.                                                   *)
LEMMA StepInv == CalculatorInv /\ [Next]_vars => CalculatorInv'
<1> SUFFICES ASSUME CalculatorInv, [Next]_vars PROVE CalculatorInv'
  OBVIOUS
<1>1. TypeOK /\ HistoryOK
  BY DEF CalculatorInv
<1>2. /\ now \in Start .. Horizon /\ silence \in 0 .. Tick
      /\ Tick \in Nat \ {0} /\ Start \in Nat /\ Horizon \in Nat
  BY <1>1, Constants DEF TypeOK
<1>3. CASE Pass
  <2>1. /\ now' = now + 1 /\ silence' = silence + 1 /\ now < Horizon /\ silence < Tick
        /\ UNCHANGED <<samples, reference, occupancy>>
    BY <1>3 DEF Pass
  <2>2. now' \in Start .. Horizon /\ silence' \in 0 .. Tick /\ now <= now'
    BY <1>2, <2>1
  <2>3. LastEvent <= LastEvent'
    BY <1>2, <2>1 DEF LastEvent
  <2> QED BY <2>1, <2>2, <2>3, QuietInv
<1>4. ASSUME NEW delay \in 0 .. MaxDelay, NEW v \in {-1, 1}, Receive(now - delay, v)
      PROVE  CalculatorInv'
  <2>1. \E e, edge, m : AddsSample(e, edge, m)
    BY <1>1, <1>4, ReceiveAdds
  <2> QED BY <2>1, AddedInv
<1>5. CASE ReceiveReset
  <2>1. \E e, edge, m : AddsSample(e, edge, m)
    BY <1>1, <1>5, ResetAdds
  <2> QED BY <2>1, AddedInv
<1>6. CASE TickSample /\ samples # <<>>
  <2>1. \E e, edge, m : AddsSample(e, edge, m)
    BY <1>1, <1>6, TickAdds
  <2> QED BY <2>1, AddedInv
<1>7. CASE TickSample /\ samples = <<>>
  <2>1. silence' = 0 /\ now' = now /\ UNCHANGED <<samples, reference, occupancy>>
    BY <1>7 DEF TickSample
  <2>2. now' \in Start .. Horizon /\ silence' \in 0 .. Tick /\ now <= now'
    BY <1>2, <2>1
  <2> QED BY <1>7, <2>1, <2>2, QuietInv
<1>8. CASE UNCHANGED vars
  <2>1. silence' = silence /\ now' = now /\ UNCHANGED <<samples, reference, occupancy>>
    BY <1>8 DEF vars
  <2>2. now' \in Start .. Horizon /\ silence' \in 0 .. Tick /\ now <= now'
    BY <1>2, <2>1
  <2>3. LastEvent <= LastEvent'
    BY <1>2, <2>1 DEF LastEvent
  <2> QED BY <2>1, <2>2, <2>3, QuietInv
<1>9. Next \/ UNCHANGED vars
  OBVIOUS
<1> QED BY <1>3, <1>4, <1>5, <1>6, <1>7, <1>8, <1>9 DEF Next

(* The invariant always holds: registers, samples, the area under the count *)
(* and the last references fit together (calculator.go:237-556).            *)
THEOREM CalculatorInvariant == Spec => []CalculatorInv
<1>1. Init => CalculatorInv
  BY InitInv
<1>2. CalculatorInv /\ [Next]_vars => CalculatorInv'
  BY StepInv
<1> QED BY <1>1, <1>2, PTL DEF Spec

-----------------------------------------------------------------------------
(* calculator.go:346-541: counts and times stay in their ranges however     *)
(* late or early a sample comes, and a reference measurement, whose length  *)
(* is a difference of two times (calculator.go:479), is neither negative    *)
(* nor longer than its period.                                              *)
THEOREM CalculatorTypeCorrect == Spec => []TypeOK
<1>1. CalculatorInv => TypeOK
  BY DEF CalculatorInv
<1> QED BY <1>1, CalculatorInvariant, PTL

(* The samples and registers as the sums need them.                         *)
LEMMA InvFacts ==
    ASSUME CalculatorInv, samples # <<>>, ~AtReset, NEW P \in Periods \cup References
    PROVE  /\ TypeOK /\ HistoryOK /\ ReachBack /\ Cut(samples, occupancy)
           /\ Lasts(samples, occupancy) /\ \E h : Tells(h, samples, occupancy)
           /\ \E p : Places(p, samples, occupancy)
           /\ samples \in Seq(Registers) /\ occupancy \in Seq(Registers) /\ occupancy # <<>>
           /\ P \in Nat \ {0} /\ P <= MaxTick /\ P < Latest(samples).ts
           /\ Latest(samples).ts \in Nat
           /\ \A i \in DOMAIN samples : occupancy[1].ts <= samples[i].ts
           /\ \A j \in DOMAIN occupancy : occupancy[j].ts <= Latest(samples).ts
<1>1. /\ TypeOK /\ HistoryOK /\ ReachBack /\ Cut(samples, occupancy)
      /\ Lasts(samples, occupancy) /\ \E h : Tells(h, samples, occupancy)
      /\ \E p : Places(p, samples, occupancy)
  BY DEF CalculatorInv
<1>2. samples \in Seq(Registers) /\ occupancy \in Seq(Registers) /\ occupancy # <<>>
  BY <1>1 DEF TypeOK, HistoryOK
<1>3. P \in Nat \ {0} /\ P <= MaxTick /\ MaxTick \in Nat /\ Start \in Nat /\ Start > 2 * MaxTick
  BY Constants
<1>4. P < Latest(samples).ts /\ Latest(samples).ts \in Nat
  <2>1. Latest(samples).ts # 0
    BY DEF AtReset
  <2>2. Start <= Latest(samples).ts
    BY <1>1, <2>1 DEF HistoryOK
  <2>3. Len(samples) \in DOMAIN samples
    BY <1>2
  <2>4. Latest(samples).ts \in Nat
    BY <1>2, <2>3, SampleType DEF Latest
  <2> QED BY <1>3, <2>2, <2>4
<1>5. /\ \A i \in DOMAIN samples : occupancy[1].ts <= samples[i].ts
      /\ LastTs <= Latest(samples).ts /\ LastTs \in Nat
  BY <1>1, LastType DEF HistoryOK
<1>6. \A j \in DOMAIN occupancy : occupancy[j].ts <= Latest(samples).ts
  <2> TAKE j \in DOMAIN occupancy
  <2>1. occupancy[j].ts <= LastTs /\ occupancy[j].ts \in Nat
    BY <1>1, RegistersUpTo
  <2> QED BY <1>4, <1>5, <2>1
<1> QED BY <1>1, <1>2, <1>3, <1>4, <1>5, <1>6

(* What keeps a tick from cutting the samples further than a window begins: *)
(* a reset among them, or that it did not overtake the register at the end. *)
Timely == ~Overtaken \/ \E i \in DOMAIN samples : samples[i].ts = 0

(* The samples reach back over a window that is short enough for the delay  *)
(* of a register, and over any unless a tick overtook the register.         *)
LEMMA InvReaches ==
    ASSUME CalculatorInv, samples # <<>>, ~AtReset, NEW P \in Periods \cup References,
           Covered(P) \/ Timely
    PROVE  ReachesBack(samples, P, occupancy)
<1>1. CASE Covered(P)
  <2>1. ASSUME samples[1].ts + MaxTick <= Latest(samples).ts + Lateness
        PROVE  samples[1].ts + P <= Latest(samples).ts
    <3> DEFINE a == samples[1].ts
               end == Latest(samples).ts
    <3>1. 1 \in DOMAIN samples /\ samples \in Seq(Registers)
      BY InvFacts
    <3>2. a \in Nat /\ end \in Nat /\ P \in Nat /\ MaxTick \in Nat /\ Lateness \in Nat
      BY <3>1, InvFacts, SampleType, Constants DEF Lateness
    <3>3. a + MaxTick <= end + Lateness /\ P + Lateness <= MaxTick
      BY <1>1, <2>1 DEF Covered
    <3> HIDE DEF a, end
    <3>4. a + P <= end
      BY <3>2, <3>3
    <3> QED BY <3>4 DEF a, end
  <2> QED BY <2>1, InvFacts DEF ReachBack, ReachesBack
<1>2. CASE ~Overtaken
  <2>1. \A i \in DOMAIN samples : samples[i].ts - Tick < Latest(samples).ts
    <3> TAKE i \in DOMAIN samples
    <3>1. samples[i].ts \in Nat /\ Latest(samples).ts \in Nat /\ Tick \in Nat
      BY InvFacts, SampleType, Constants
    <3>2. ~ (Latest(samples).ts <= samples[i].ts - Tick)
      BY <1>2 DEF Overtaken
    <3> QED BY <3>1, <3>2
  <2> QED BY <2>1, InvFacts, CutReaches
<1>3. CASE \E i \in DOMAIN samples : samples[i].ts = 0
  BY <1>3 DEF ReachesBack
<1> QED BY <1>1, <1>2, <1>3 DEF Timely

(* What the samples give is exact, for real time and reference measurements.*)
SamplesAreExact ==
    samples # <<>> /\ ~AtReset =>
        \A P \in Periods \cup References :
            Covered(P) \/ Timely => Exact(Measure(Window(samples, P)), P)

(* The invariant says so.                                                   *)
LEMMA InvIsExact == CalculatorInv => SamplesAreExact
<1> SUFFICES ASSUME CalculatorInv, samples # <<>>, ~AtReset,
                    NEW P \in Periods \cup References, Covered(P) \/ Timely
             PROVE  Exact(Measure(Window(samples, P)), P)
  BY DEF SamplesAreExact
<1>1. ReachesBack(samples, P, occupancy)
  BY InvReaches
<1>2. PICK h : Tells(h, samples, occupancy)
  BY InvFacts
<1> QED BY <1>1, <1>2, InvFacts, WindowExact DEF Exact

(* A window that is cut short lacks no more than the register was late: it  *)
(* is all of the samples, which reach back over the longest window but for  *)
(* that.                                                                    *)
LEMMA InvIsLong ==
    ASSUME CalculatorInv, samples # <<>>, ~AtReset, NEW P \in Periods
    PROVE  Long(Measure(Window(samples, P)), P)
<1> DEFINE w == Window(samples, P)
           m == Measure(w)
           end == Latest(samples).ts
           a == samples[1].ts
           b == end - occupancy[1].ts
<1>1. /\ end \in Nat /\ P \in Nat /\ P <= MaxTick /\ MaxTick \in Nat /\ Lateness \in Nat
      /\ samples \in Seq(Registers) /\ occupancy \in Seq(Registers) /\ occupancy # <<>>
  BY InvFacts, Constants DEF Lateness
<1>2. 1 \in DOMAIN samples /\ 1 \in DOMAIN occupancy
  BY <1>1
<1>3. a \in Nat /\ occupancy[1].ts \in Nat /\ occupancy[1].ts <= a
  BY <1>1, <1>2, InvFacts, SampleType
<1>4. m.ts = end /\ m.length = end - w[1].ts /\ w[1].ts \in Int
  BY <1>1, WindowType DEF Measure
<1>5. FullLength(m, P) = IF P <= b THEN P ELSE b
  <2>1. b \in Int /\ P \in Int
    BY <1>1, <1>3
  <2> HIDE DEF m
  <2>2. FullLength(m, P) = Min({P, b})
    BY <1>4 DEF FullLength
  <2> HIDE DEF b
  <2> QED BY <2>1, <2>2, MinOfTwo
<1>6. CASE ReachesBack(samples, P, occupancy)
  <2>1. PICK h : Tells(h, samples, occupancy)
    BY InvFacts
  <2>2. Exact(m, P)
    BY <1>6, <2>1, InvFacts, WindowExact DEF Exact
  <2>3. m.length = FullLength(m, P)
    BY <2>2 DEF Exact, ExactIn, FullLength
  <2>4. b \in Int
    BY <1>1, <1>3
  <2> HIDE DEF m, b
  <2>5. FullLength(m, P) \in Int
    BY <1>1, <1>5, <2>4
  <2>6. Long(m, P)
    BY <1>1, <2>3, <2>5 DEF Long
  <2> QED BY <2>6 DEF m, w
<1>7. CASE ~ReachesBack(samples, P, occupancy)
  <2>1. /\ \A i \in DOMAIN samples : samples[i].ts # 0
        /\ a # occupancy[1].ts /\ ~ (a + P <= end)
    BY <1>7 DEF ReachesBack
  <2>2. a + MaxTick <= end + Lateness
    BY <2>1, InvFacts DEF ReachBack
  <2>3. AllOf(w, samples, end - P) => w[1].ts = a /\ end - P <= a
    BY <1>2 DEF AllOf
  <2>4. ASSUME NEW k \in 2 .. Len(samples),
               FromSample(w, samples, end - P, k) \/ FromCut(w, samples, end - P, k)
        PROVE  w[1].ts = end - P /\ occupancy[1].ts <= end - P
    <3> DEFINE begin == end - P
    <3>1. begin \in Int
      BY <1>1
    <3>2. k \in DOMAIN samples /\ k - 1 \in DOMAIN samples
      BY <1>1
    <3>3. /\ samples[k].ts \in Nat /\ samples[k - 1].ts \in Nat
          /\ occupancy[1].ts <= samples[k].ts /\ occupancy[1].ts <= samples[k - 1].ts
      BY <1>1, <3>2, InvFacts, SampleType
    <3> HIDE DEF begin, w
    <3>4. ASSUME FromSample(w, samples, begin, k)
          PROVE  w[1].ts = begin /\ occupancy[1].ts <= begin
      <4>1. w[1] = samples[k]
        BY <1>1, <3>4, SampleWindow
      <4> QED BY <3>3, <3>4, <4>1 DEF FromSample
    <3>5. ASSUME FromCut(w, samples, begin, k)
          PROVE  w[1].ts = begin /\ occupancy[1].ts <= begin
      <4>1. w[1].ts = begin
        BY <1>1, <3>1, <3>5, CutWindow
      <4>2. samples[k - 1].ts < begin
        BY <3>5 DEF FromCut
      <4> QED BY <1>3, <3>1, <3>3, <4>1, <4>2
    <3> QED BY <2>4, <3>4, <3>5 DEF begin
  <2>5. \/ w[1].ts = end - P /\ occupancy[1].ts <= end - P
        \/ w[1].ts = a /\ end - P <= a
    BY <1>1, <2>3, <2>4, WindowCases
  <2> HIDE DEF w, m, end, a
  <2>6. b = end - occupancy[1].ts
    BY DEF end
  <2>7. m.length <= FullLength(m, P) /\ FullLength(m, P) <= m.length + Lateness
    <3> HIDE DEF b
    <3>1. CASE w[1].ts = end - P /\ occupancy[1].ts <= end - P
      <4>1. m.length = P /\ P <= b
        BY <1>1, <1>3, <1>4, <2>6, <3>1
      <4> QED BY <1>1, <1>5, <4>1
    <3>2. CASE w[1].ts = a /\ end - P <= a
      <4>1. m.length = end - a /\ m.length <= P /\ m.length <= b /\ P <= m.length + Lateness
        BY <1>1, <1>3, <1>4, <2>2, <2>6, <3>2
      <4>2. b \in Int
        BY <1>1, <1>3, <2>6
      <4> QED BY <1>1, <1>3, <1>5, <4>1, <4>2
    <3> QED BY <2>5, <3>1, <3>2
  <2> QED BY <2>7 DEF Long, m, w
<1> QED BY <1>6, <1>7

(* calculator.go:346-441: whatever comes late, ahead of time or together    *)
(* with a reset, a real time measurement is the exact average over its      *)
(* window; one that a register ends which a tick overtook may be shorter.   *)
THEOREM CalculatorWindowIsExact == Spec => []WindowIsExact
<1>1. ASSUME CalculatorInv, SamplesAreExact, samples # <<>>, ~AtReset, NEW P \in Periods
      PROVE  /\ Long(Measure(Window(samples, P)), P)
             /\ Covered(P) \/ ~Overtaken => Exact(Measure(Window(samples, P)), P)
  BY <1>1, InvIsLong DEF SamplesAreExact, Timely
<1>2. CalculatorInv => WindowIsExact
  BY <1>1, InvIsExact DEF WindowIsExact
<1> QED BY <1>2, CalculatorInvariant, PTL

(* How much the flow of a measurement is too high.                          *)
FlowError(P) ==
    LET m == Measure(Window(samples, P))
    IN  m.flow - FlowIn(occupancy, m.ts - m.length, m.ts)

(* The flow is exact unless a tick overtook the register, and then it is    *)
(* off by one at most.                                                      *)
LEMMA InvFlow ==
    ASSUME CalculatorInv, samples # <<>>, ~AtReset, NEW P \in Periods \cup References,
           Covered(P) \/ ~Overtaken
    PROVE  FlowError(P) \in -1 .. 1 /\ (~Overtaken => FlowError(P) = 0)
<1> DEFINE w == Window(samples, P)
           end == Latest(samples).ts
           a == samples[1].ts
           f == FlowIn(occupancy, w[1].ts, end)
           m == Measure(w)
<1>1. end \in Nat /\ P \in Nat \ {0} /\ P <= MaxTick /\ MaxTick \in Nat /\ Tick \in Nat
  BY InvFacts, Constants
<1>2. m.ts = end /\ m.length = end - w[1].ts /\ w[1].ts \in Int
  <2>1. samples \in Seq(Registers) /\ P \in Nat
    BY <1>1, InvFacts
  <2> QED BY <2>1, WindowType DEF Measure
<1>3. /\ f \in Int
      /\ \/ m.flow = f
         \/ /\ Moved(samples) /\ AllOf(w, samples, end - P)
            /\ m.flow = f + samples[1].flow /\ samples[1].flow \in -1 .. 1
  <2>1. ReachesBack(samples, P, occupancy)
    BY InvReaches DEF Timely
  <2>2. PICK p : Places(p, samples, occupancy)
    BY InvFacts
  <2> QED BY <2>1, <2>2, InvFacts, WindowFlow
<1>4. ASSUME Moved(samples), AllOf(w, samples, end - P) PROVE Overtaken
  <2>1. PICK i \in DOMAIN samples : a + MaxTick + Tick <= samples[i].ts
    BY <1>4 DEF Moved
  <2>2. 1 \in DOMAIN samples /\ samples \in Seq(Registers)
    BY <2>1, InvFacts
  <2> DEFINE t == samples[i].ts
  <2>3. a \in Nat /\ t \in Nat /\ end - P <= a /\ a + MaxTick + Tick <= t
    BY <1>4, <2>1, <2>2, SampleType DEF AllOf
  <2> HIDE DEF a, end, t
  <2>4. end <= t - Tick
    BY <1>1, <2>3
  <2> QED BY <2>4 DEF Overtaken, end, t
<1>5. FlowError(P) = m.flow - FlowIn(occupancy, m.ts - m.length, m.ts)
  BY DEF FlowError
<1> DEFINE b == w[1].ts
<1>6. f = FlowIn(occupancy, b, end) /\ b \in Int /\ m.length = end - b
  BY <1>2
<1> HIDE DEF w, end, m, b, a
<1>7. m.ts - m.length = b
  BY <1>1, <1>2, <1>6
<1>8. FlowError(P) = m.flow - f
  BY <1>2, <1>5, <1>6, <1>7
<1> HIDE DEF f
<1>9. m.flow = f => FlowError(P) = 0
  BY <1>3, <1>8
<1>10. m.flow = f + samples[1].flow /\ samples[1].flow \in -1 .. 1 => FlowError(P) \in -1 .. 1
  BY <1>3, <1>8
<1> QED BY <1>3, <1>4, <1>9, <1>10

(* calculator.go:382-417, 505-535: it counts every crossing in its window   *)
(* once, and those of no other time.  Nothing is asked of the constants:    *)
(* only a tick cuts the samples further than the window of a register, and  *)
(* that tick overtook the register.                                         *)
THEOREM CalculatorFlowIsExact == Spec => []FlowIsExact
<1>1. ASSUME CalculatorInv, NEW P \in Periods \cup References,
             samples # <<>>, ~AtReset, ~Overtaken
      PROVE  LET m == Measure(Window(samples, P))
             IN  m.flow = FlowIn(occupancy, m.ts - m.length, m.ts)
  <2> DEFINE m == Measure(Window(samples, P))
             f == FlowIn(occupancy, m.ts - m.length, m.ts)
  <2>1. FlowError(P) = 0
    BY <1>1, InvFlow
  <2>2. FlowError(P) = m.flow - f
    BY DEF FlowError
  <2>3. m.flow \in Int /\ f \in Int
    <3>1. /\ samples \in Seq(Registers) /\ P \in Nat
          /\ occupancy \in Seq(Registers) /\ Len(occupancy) \in 0 .. Len(occupancy)
      BY <1>1, InvFacts
    <3>2. f \in Int
      BY <3>1, FlowType
    <3>3. m.flow \in Int
      BY <1>1, <3>1, WindowType, MeasureType
    <3> QED BY <3>2, <3>3
  <2> HIDE DEF m, f
  <2>4. m.flow = f
    BY <2>1, <2>2, <2>3
  <2> QED BY <2>4 DEF m, f
<1>2. CalculatorInv => FlowIsExact
  BY <1>1 DEF FlowIsExact
<1> QED BY <1>2, CalculatorInvariant, PTL

(* What a register that a tick overtook costs.                              *)
FlowIsNear ==
    samples # <<>> /\ ~AtReset =>
        \A P \in Periods \cup References : Covered(P) => FlowError(P) \in -1 .. 1

(* calculator.go:251: the flow of the sample the tick moved, which is one   *)
(* crossing at most, is all that the flow of a measurement is ever off by.  *)
THEOREM CalculatorFlowIsNear == Spec => []FlowIsNear
<1>1. CalculatorInv => FlowIsNear
  BY InvFlow DEF FlowIsNear
<1> QED BY <1>1, CalculatorInvariant, PTL

(* A step that posts a reference measurement.                               *)
LEMMA StepPosts ==
    ASSUME CalculatorInv, [Next]_vars, NEW P \in References, reference'[P] # reference[P]
    PROVE  \E e, edge, m : AddsSample(e, edge, m)
<1>1. TypeOK /\ HistoryOK
  BY DEF CalculatorInv
<1>2. ~UNCHANGED reference
  OBVIOUS
<1>3. Next /\ ~Pass /\ ~UNCHANGED vars /\ (TickSample => samples # <<>>)
  BY <1>2 DEF vars, Pass, TickSample
<1>4. ASSUME NEW delay \in 0 .. MaxDelay, NEW v \in {-1, 1}, Receive(now - delay, v)
      PROVE  \E e, edge, m : AddsSample(e, edge, m)
  BY <1>1, <1>4, ReceiveAdds
<1>5. ReceiveReset => \E e, edge, m : AddsSample(e, edge, m)
  BY <1>1, ResetAdds
<1>6. TickSample => \E e, edge, m : AddsSample(e, edge, m)
  BY <1>1, <1>3, TickAdds
<1> QED BY <1>3, <1>4, <1>5, <1>6 DEF Next

(* A reference is due only after a sample that no other is ahead of: the    *)
(* sample that is ahead has posted it already.                              *)
LEMMA DueIsTimely ==
    ASSUME TypeOK, Referenced, NEW e, NEW edge, NEW m, AddsSample(e, edge, m),
           NEW P \in References, Due(samples', P)
    PROVE  Timely'
<1> DEFINE q == Append(samples, e)
           r == samples'
<1>1. /\ q \in Seq(Registers) /\ Len(q) = Len(samples) + 1 /\ DOMAIN q = 1 .. Len(q)
      /\ q[Len(q)] = e /\ Len(samples) \in Nat
      /\ \A i \in 1 .. Len(samples) : q[i] = samples[i]
      /\ r \in Seq(Registers) /\ Len(r) \in Nat \ {0} /\ m \in 1 .. Len(q)
      /\ DOMAIN r = 1 .. Len(r) /\ Len(r) = Len(q) - m + 1
      /\ \A i \in 2 .. Len(r) : r[i] = q[m + i - 1]
      /\ \A i \in DOMAIN r : m + i - 1 \in DOMAIN q
      /\ \A i \in DOMAIN r : r[i].ts \in Nat
      /\ Latest(r).ts = e.ts /\ e.ts \in Nat
  <2>1. \A i \in DOMAIN r : r[i].ts \in Nat
    BY AddedFacts
  <2> QED BY <2>1, AddedFacts
<1>2. edge \in Int /\ edge < e.ts /\ (e.ts # 0 => LastTs < e.ts)
  BY DEF AddsSample
<1>3. r[1].ts = q[m].ts \/ r[1].ts = edge
  <2>1. r[1].ts = q[m].ts \/ (r[1].ts = edge /\ q[m].ts < edge /\ m < Len(q))
    BY Zenon DEF AddsSample, Slid
  <2> QED BY <2>1
<1>4. /\ reference[P].ts \in Nat /\ P \in Nat /\ Tick \in Nat \ {0}
      /\ reference[P].ts + P < e.ts
  <2>1. reference[P] \in Measurements
    BY DEF TypeOK
  <2>2. reference[P].ts + P < Latest(r).ts
    BY DEF Due
  <2> QED BY <1>1, <2>1, <2>2, Constants DEF Measurements
<1>5. DOMAIN samples = 1 .. Len(samples) /\ \A i \in DOMAIN samples : samples[i].ts \in Nat
  BY SampleType DEF TypeOK
<1>6. LastTs \in Nat
  <2>1. occupancy # <<>> => Len(occupancy) \in DOMAIN occupancy
    BY DEF TypeOK
  <2> QED BY <2>1, SampleType DEF TypeOK, LastTs
<1> HIDE DEF q, r
<1>7. ASSUME \A i \in DOMAIN r : r[i].ts # 0, NEW i \in DOMAIN r
      PROVE  r[i].ts <= e.ts
  <2> DEFINE l == m + i - 1
  <2>1. CASE i = Len(r)
    BY <1>1, <2>1 DEF Latest
  <2>2. CASE i # Len(r)
    <3>1. l \in 1 .. Len(samples) /\ Len(r) \in i + 1 .. Len(r) /\ i \in 1 .. Len(r)
      BY <1>1, <2>2
    <3>2. e.ts # 0
      <4>1. Len(r) \in DOMAIN r /\ r[Len(r)].ts = e.ts
        BY <1>1 DEF Latest
      <4> QED BY <1>7, <4>1
    <3>3. ASSUME NEW j \in l + 1 .. Len(samples) PROVE samples[j].ts # 0
      <4> DEFINE k == j - m + 1
      <4>1. k \in 2 .. Len(r) /\ k \in DOMAIN r /\ m + k - 1 = j /\ j \in 1 .. Len(samples)
        BY <1>1, <3>1
      <4>2. r[k] = samples[j]
        BY <1>1, <4>1
      <4> QED BY <1>7, <4>1, <4>2
    <3>4. r[i].ts = samples[l].ts \/ r[i].ts = edge
      <4>1. CASE i = 1
        <5>1. l = m
          BY <1>1, <4>1
        <5> QED BY <1>1, <1>3, <3>1, <4>1, <5>1
      <4>2. CASE i # 1
        <5>1. i \in 2 .. Len(r)
          BY <3>1, <4>2
        <5> QED BY <1>1, <3>1, <5>1
      <4> QED BY <4>1, <4>2
    <3> HIDE DEF l
    <3>5. l \in DOMAIN samples /\ samples[l].ts \in Nat
      BY <1>5, <3>1
    <3>6. samples[l].ts <= e.ts
      <4>1. CASE Recent(samples, reference)
        <5>1. samples[l].ts <= reference[P].ts + P
          BY <3>3, <3>5, <4>1 DEF Recent
        <5> DEFINE a == samples[l].ts
                   b == reference[P].ts
                   c == e.ts
        <5>2. a \in Nat /\ b \in Nat /\ c \in Nat /\ P \in Nat /\ a <= b + P /\ b + P < c
          BY <1>1, <1>4, <3>5, <5>1
        <5> HIDE DEF a, b, c
        <5>3. a <= c
          BY ONLY <5>2
        <5> QED BY <5>3 DEF a, c
      <4>2. CASE Len(samples) = 1 /\ samples[1].ts <= LastTs
        <5>1. l = 1
          BY <3>1, <4>2
        <5> QED BY <1>1, <1>2, <1>6, <3>2, <3>5, <4>2, <5>1
      <4> QED BY <4>1, <4>2 DEF Referenced
    <3> QED BY <1>1, <1>2, <3>4, <3>6
  <2> QED BY <2>1, <2>2
<1>8. ASSUME \A i \in DOMAIN r : r[i].ts # 0
      PROVE  ~ \E i \in DOMAIN r : Latest(r).ts <= r[i].ts - Tick
  <2> SUFFICES ASSUME NEW i \in DOMAIN r PROVE ~ (Latest(r).ts <= r[i].ts - Tick)
    OBVIOUS
  <2>1. r[i].ts <= e.ts /\ r[i].ts \in Nat
    BY <1>1, <1>7, <1>8
  <2> QED BY SMTT(30), <1>1, <1>4, <2>1
<1> QED BY <1>8 DEF r, Timely, Overtaken

(* calculator.go:456-541: a reference measurement is exact when it is       *)
(* stored, and begins after the one before it.  Nothing is asked of the     *)
(* constants: the longest reference is never ended by a register that a     *)
(* tick overtook, for that tick has posted it.                              *)
THEOREM CalculatorReferencesAreExact == Spec => ReferencesAreExact
<1> DEFINE Stored(P) == /\ Exact(reference[P], P)'
                        /\ reference[P].ts <= reference'[P].ts - reference'[P].length
<1>1. ASSUME CalculatorInv, CalculatorInv', SamplesAreExact', [Next]_vars,
             NEW P \in References, reference'[P] # reference[P]
      PROVE  Stored(P)
  <2>1. PICK e, edge, m : AddsSample(e, edge, m)
    BY <1>1, StepPosts
  <2>2. TypeOK /\ Referenced /\ TypeOK' /\ HistoryOK'
    BY <1>1 DEF CalculatorInv
  <2>3. /\ Due(samples', P) /\ reference'[P] = Measure(Window(samples', P))
        /\ reference'[P].length <= P
    BY <1>1, <2>1, <2>2, AddedPost
  <2>4. /\ reference[P] \in Measurements /\ reference'[P] \in Measurements
        /\ P \in Nat \ {0}
    BY <2>2, Constants DEF TypeOK
  <2>5. /\ reference[P].ts \in Nat /\ reference'[P].ts \in Nat
        /\ reference'[P].length \in Nat
    BY <2>4 DEF Measurements
  <2>6. reference[P].ts + P < Latest(samples').ts
    BY <2>3 DEF Due
  <2>7. reference'[P].ts = Latest(samples').ts
    <3>1. Latest(Window(samples', P)).ts = Latest(samples').ts
      <4>1. samples' \in Seq(Registers) /\ samples' # <<>> /\ P \in Nat
        BY <2>1, <2>2, <2>4, AddedFacts
      <4> QED BY <4>1, WindowType
    <3> QED BY <2>3, <3>1 DEF Measure
  <2>8. samples' # <<>> /\ ~AtReset'
    <3>1. samples' # <<>>
      BY <2>1, <2>2, AddedFacts
    <3>2. Latest(samples').ts # 0
      BY <2>4, <2>5, <2>6
    <3> QED BY <3>1, <3>2 DEF AtReset
  <2>9. Exact(Measure(Window(samples, P)), P)'
    <3>1. Timely'
      BY <2>1, <2>2, <2>3, DueIsTimely
    <3> QED BY <1>1, <2>8, <3>1 DEF SamplesAreExact
  <2>10. Exact(reference[P], P)'
    BY <2>3, <2>9 DEF Exact
  <2>11. reference[P].ts <= reference'[P].ts - reference'[P].length
    BY <2>3, <2>4, <2>5, <2>6, <2>7
  <2> QED BY <2>10, <2>11
<1>2. CalculatorInv /\ CalculatorInv' /\ SamplesAreExact' /\ [Next]_vars
        => [\A P \in References : reference'[P] # reference[P] => Stored(P)]_vars
  BY <1>1
<1>3. CalculatorInv => SamplesAreExact
  BY InvIsExact
<1>4. Spec => []CalculatorInv
  BY CalculatorInvariant
<1> QED BY <1>2, <1>3, <1>4, PTL DEF Spec, ReferencesAreExact
=============================================================================
