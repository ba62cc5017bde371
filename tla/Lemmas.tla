-------------------------------- MODULE Lemmas --------------------------------
(***************************************************************************)
(* What the proofs need of numbers and sequences.                          *)
(* Induction over the naturals is stated in a first-order form, for what   *)
(* recursive functions and folds compute.  The property is a set of        *)
(* numbers, not an operator: a proof defines the set of the numbers that   *)
(* have its property and cites the lemma for that set.                     *)
(***************************************************************************)
EXTENDS Integers, FiniteSetsExt, FiniteSetTheorems, SequenceTheorems, TLAPS

(* A set of naturals that is not empty has a least element: the initial    *)
(* segments are finite sets, which inclusion orders well.                  *)
LEMMA LeastElement ==
    ASSUME NEW T \in SUBSET Nat, T # {}
    PROVE  \E m \in T : \A k \in T : m <= k
<1> DEFINE Segments == {0 .. n : n \in T}
<1>1. Segments \subseteq FiniteSubsetsOf(Nat)
  <2> SUFFICES ASSUME NEW n \in T PROVE 0 .. n \in FiniteSubsetsOf(Nat)
    OBVIOUS
  <2>1. n \in Int /\ 0 \in Int /\ 0 .. n \subseteq Nat
    OBVIOUS
  <2>2. IsFiniteSet(0 .. n)
    BY <2>1, FS_Interval
  <2> QED
    BY <2>1, <2>2 DEF FiniteSubsetsOf
<1>2. Segments # {}
  OBVIOUS
<1>3. PICK x \in Segments :
          \A y \in Segments : ~ (<<y, x>> \in StrictSubsetOrdering(Nat))
  BY <1>1, <1>2, WFMin, FS_StrictSubsetOrderingWellFounded
<1>4. PICK m \in T : x = 0 .. m
  BY <1>3
<1>5. ASSUME NEW k \in T, k < m PROVE FALSE
  <2>1. 0 .. k \subseteq 0 .. m /\ 0 .. k # 0 .. m
    <3>1. m \in 0 .. m /\ m \notin 0 .. k
      BY <1>5
    <3>2. 0 .. k \subseteq 0 .. m
      BY <1>5
    <3> QED
      BY <3>1, <3>2
  <2>2. <<0 .. k, x>> \in StrictSubsetOrdering(Nat)
    <3>1. 0 .. k \subseteq Nat /\ 0 .. m \subseteq Nat
      OBVIOUS
    <3> QED
      BY <2>1, <1>4, <3>1 DEF StrictSubsetOrdering
  <2> QED
    BY <2>2, <1>3
<1> QED
  BY <1>5

(* A set that has zero, and with every number the next, has all of them.   *)
LEMMA SetInduction ==
    ASSUME NEW T \in SUBSET Nat, 0 \in T, \A n \in T : n + 1 \in T
    PROVE  T = Nat
<1> SUFFICES ASSUME Nat \ T # {} PROVE FALSE
  OBVIOUS
<1>1. PICK m \in Nat \ T : \A k \in Nat \ T : m <= k
  <2> DEFINE Missing == Nat \ T
  <2>1. Missing \in SUBSET Nat /\ Missing # {}
    OBVIOUS
  <2> HIDE DEF Missing
  <2>2. \E m \in Missing : \A k \in Missing : m <= k
    BY <2>1, LeastElement
  <2> QED
    BY <2>2 DEF Missing
<1>2. m # 0 /\ m - 1 \in Nat /\ m = (m - 1) + 1
  BY <1>1
<1>3. m - 1 \in T
  BY <1>1, <1>2
<1> QED
  BY <1>1, <1>2, <1>3
-----------------------------------------------------------------------------
\* Division, and that its result is the only one.
LEMMA Division ==
    ASSUME NEW a \in Int, NEW b \in Nat \ {0}
    PROVE  a \div b \in Int /\ a % b \in 0..(b - 1) /\ a = b * (a \div b) + (a % b)
  OBVIOUS

LEMMA Quotient ==
    ASSUME NEW a \in Int, NEW b \in Nat \ {0}, NEW q \in Int, NEW r \in 0..(b - 1),
           a = b * q + r
    PROVE  a \div b = q /\ a % b = r
  OBVIOUS

\* An offset that does not wrap is added to the residue.
LEMMA ModShift ==
    ASSUME NEW a \in Nat, NEW b \in Nat \ {0}, NEW k \in Nat, (a % b) + k < b
    PROVE  (a + k) % b = (a % b) + k
<1>1. a \div b \in Int /\ a % b \in 0..(b - 1) /\ a = b * (a \div b) + (a % b)
  BY Division
<1> DEFINE q == a \div b
           r == a % b
<1> HIDE DEF q, r
<1>2. r + k \in 0..(b - 1) /\ q \in Int /\ a + k = b * q + (r + k)
  BY <1>1 DEF q, r
<1>3. \A c \in Int, e \in 0..(b - 1) : c = b * q + e => c % b = e
  BY <1>2, Quotient
<1>4. a + k \in Int
  OBVIOUS
<1>5. (a + k) % b = r + k
  BY <1>2, <1>3, <1>4
<1> QED
  BY <1>5 DEF r
-----------------------------------------------------------------------------
\* Two sequences one after the other.
LEMMA Appended ==
    ASSUME NEW S, NEW s \in Seq(S), NEW t \in Seq(S)
    PROVE  /\ s \o t \in Seq(S)
           /\ Len(s \o t) = Len(s) + Len(t)
           /\ \A i \in 1 .. Len(s) : (s \o t)[i] = s[i]
           /\ \A i \in 1 .. Len(s) + Len(t) :
                i > Len(s) => (s \o t)[i] = t[i - Len(s)]
  OBVIOUS
-----------------------------------------------------------------------------
(* Folds from the left, which the library defines over the subsets of the  *)
(* positions, from the greatest element of each down.  FoldExists: a fold  *)
(* whose values stay in a set is well defined.  FoldChain: its value for   *)
(* the first k + 1 positions comes from that for the first k.              *)

LEMMA PrefixTop ==
    ASSUME NEW k \in Nat
    PROVE  1 .. k + 1 # {} /\ Max(1 .. k + 1) = k + 1 /\ (1 .. k + 1) \ {k + 1} = 1 .. k
<1>1. k + 1 \in 1 .. k + 1 /\ \A y \in 1 .. k + 1 : k + 1 >= y
  OBVIOUS
<1>2. \A x \in 1 .. k + 1 : (\A y \in 1 .. k + 1 : x >= y) => x = k + 1
  <2> SUFFICES ASSUME NEW x \in 1 .. k + 1, \A y \in 1 .. k + 1 : x >= y PROVE x = k + 1
    OBVIOUS
  <2>1. x >= k + 1 /\ x <= k + 1
    BY <1>1
  <2> QED
    BY <2>1
<1>3. Max(1 .. k + 1) = k + 1
  BY <1>1, <1>2 DEF Max
<1>4. (1 .. k + 1) \ {k + 1} = 1 .. k
  OBVIOUS
<1> QED
  BY <1>1, <1>3, <1>4

LEMMA Greatest ==
    ASSUME NEW n \in Nat, NEW s \in SUBSET (1 .. n), s # {}
    PROVE  Max(s) \in s /\ \A y \in s : Max(s) >= y
<1> DEFINE Below == {n - x : x \in s}
<1>1. Below \in SUBSET Nat /\ Below # {}
  <2>1. \A x \in s : n - x \in Nat
    OBVIOUS
  <2>2. PICK x \in s : TRUE
    OBVIOUS
  <2>3. n - x \in Below
    BY <2>2
  <2> QED
    BY <2>1, <2>3
<1>2. PICK m \in Below : \A k \in Below : m <= k
  <2> HIDE DEF Below
  <2> QED
    BY <1>1, LeastElement
<1>3. PICK x \in s : m = n - x
  BY <1>2
<1>4. ASSUME NEW y \in s PROVE x >= y
  <2>1. n - y \in Below
    OBVIOUS
  <2>2. n - x <= n - y
    BY <1>2, <1>3, <2>1
  <2> QED
    BY <2>2
<1> QED
  BY <1>4 DEF Max

FoldStep(n, V) == [(1 .. n) \X V -> V]

FoldOf(g, n, V, base, step) ==
    /\ g \in [SUBSET (1 .. n) -> V]
    /\ \A s \in SUBSET (1 .. n) :
          g[s] = IF s = {} THEN base ELSE step[<<Max(s), g[s \ {Max(s)}]>>]

LEMMA FoldExists ==
    ASSUME NEW n \in Nat, NEW V, NEW base \in V, NEW step \in FoldStep(n, V)
    PROVE  \E g : FoldOf(g, n, V, base, step)
<1> USE DEF FoldStep, FoldOf
<1> DEFINE Right(g, s) == IF s = {} THEN base ELSE step[<<Max(s), g[s \ {Max(s)}]>>]
           Solved(k) == \E g \in [SUBSET (1 .. n) -> V] :
                           \A s \in SUBSET (1 .. n) : s \subseteq 1 .. k => g[s] = Right(g, s)
           T == {k \in Nat : k <= n => Solved(k)}
<1> HIDE DEF Solved
<1>1. 0 \in T
  <2>1. [s \in SUBSET (1 .. n) |-> base] \in [SUBSET (1 .. n) -> V]
    OBVIOUS
  <2>2. \A s \in SUBSET (1 .. n) : s \subseteq 1 .. 0 => s = {}
    OBVIOUS
  <2> QED
    BY <2>1, <2>2 DEF Solved
<1>2. ASSUME NEW k \in T PROVE k + 1 \in T
  <2> SUFFICES ASSUME k + 1 <= n PROVE Solved(k + 1)
    OBVIOUS
  <2>1. k \in Nat /\ k + 1 \in 1 .. n /\ k <= n
    OBVIOUS
  <2>2. PICK g \in [SUBSET (1 .. n) -> V] :
              \A s \in SUBSET (1 .. n) : s \subseteq 1 .. k => g[s] = Right(g, s)
    BY <2>1 DEF Solved
  <2> DEFINE h == [s \in SUBSET (1 .. n) |->
                     IF s \subseteq 1 .. k THEN g[s] ELSE step[<<k + 1, g[s \ {k + 1}]>>]]
  <2>3. h \in [SUBSET (1 .. n) -> V]
    <3>1. \A s \in SUBSET (1 .. n) : g[s] \in V /\ g[s \ {k + 1}] \in V
      BY <2>2
    <3>2. \A v \in V : step[<<k + 1, v>>] \in V
      BY <2>1
    <3> QED
      BY <3>1, <3>2
  <2>4. ASSUME NEW s \in SUBSET (1 .. n), s \subseteq 1 .. k + 1 PROVE h[s] = Right(h, s)
    <3>1. CASE s \subseteq 1 .. k
      <4>1. h[s] = g[s] /\ g[s] = Right(g, s)
        BY <2>2, <3>1
      <4>2. h[s \ {Max(s)}] = g[s \ {Max(s)}]
        BY <3>1
      <4> QED
        BY <4>1, <4>2
    <3>2. CASE ~(s \subseteq 1 .. k)
      <4>1. k + 1 \in s /\ s \ {k + 1} \subseteq 1 .. k
        BY <2>1, <3>2, <2>4
      <4>2. Max(s) = k + 1
        <5>1. \A y \in s : y \in Nat /\ k + 1 >= y
          BY <2>1, <2>4
        <5>2. \A x \in s : (\A y \in s : x >= y) => x = k + 1
          <6> SUFFICES ASSUME NEW x \in s, \A y \in s : x >= y PROVE x = k + 1
            OBVIOUS
          <6>1. x \in Nat /\ x >= k + 1 /\ k + 1 >= x
            BY <4>1, <5>1
          <6> QED
            BY <2>1, <6>1
        <5> QED
          BY <4>1, <5>1, <5>2 DEF Max
      <4>3. h[s] = step[<<k + 1, g[s \ {k + 1}]>>] /\ h[s \ {k + 1}] = g[s \ {k + 1}]
        BY <3>2, <4>1
      <4> QED
        BY <4>1, <4>2, <4>3
    <3> QED
      BY <3>1, <3>2
  <2> HIDE DEF h, Right
  <2> QED
    BY <2>3, <2>4 DEF Solved
<1>3. n \in T
  <2>1. T \in SUBSET Nat
    OBVIOUS
  <2> HIDE DEF T
  <2> QED
    BY <1>1, <1>2, <2>1, SetInduction
<1>4. Solved(n)
  BY <1>3
<1> HIDE DEF T
<1>5. PICK g \in [SUBSET (1 .. n) -> V] :
            \A s \in SUBSET (1 .. n) : s \subseteq 1 .. n => g[s] = Right(g, s)
  BY <1>4 DEF Solved
<1> QED
  BY <1>5

FoldsBy(fold, n, V, base, step) ==
    /\ fold[{}] = base
    /\ \A s \in SUBSET (1 .. n) : s # {} /\ fold[s \ {Max(s)}] \in V =>
          fold[s] = step[<<Max(s), fold[s \ {Max(s)}]>>]

FoldChains(fold, n, V, base, step) ==
    /\ \A k \in 0 .. n : fold[1 .. k] \in V
    /\ fold[1 .. 0] = base
    /\ \A k \in 0 .. n - 1 : fold[1 .. k + 1] = step[<<k + 1, fold[1 .. k]>>]

LEMMA FoldChain ==
    ASSUME NEW n \in Nat, NEW V, NEW base \in V, NEW step \in FoldStep(n, V),
           NEW fold, FoldsBy(fold, n, V, base, step)
    PROVE  FoldChains(fold, n, V, base, step)
<1> USE DEF FoldStep, FoldsBy
<1> DEFINE Known(k) == fold[1 .. k] \in V
           T == {k \in Nat : k <= n => Known(k)}
<1>1. fold[1 .. 0] = base
  <2>1. 1 .. 0 = {}
    OBVIOUS
  <2> QED
    BY <2>1
<1>2. ASSUME NEW k \in 0 .. n - 1, Known(k)
      PROVE  fold[1 .. k + 1] = step[<<k + 1, fold[1 .. k]>>] /\ Known(k + 1)
  <2>1. k \in Nat /\ k + 1 \in 1 .. n /\ 1 .. k + 1 \in SUBSET (1 .. n)
    OBVIOUS
  <2>2. 1 .. k + 1 # {} /\ Max(1 .. k + 1) = k + 1 /\ (1 .. k + 1) \ {k + 1} = 1 .. k
    BY <2>1, PrefixTop
  <2>3. fold[1 .. k + 1] = step[<<k + 1, fold[1 .. k]>>]
    BY <1>2, <2>1, <2>2
  <2> QED
    BY <1>2, <2>1, <2>3
<1>3. 0 \in T
  BY <1>1
<1>4. ASSUME NEW k \in T PROVE k + 1 \in T
  <2> SUFFICES ASSUME k + 1 <= n PROVE Known(k + 1)
    OBVIOUS
  <2>1. k \in 0 .. n - 1 /\ Known(k)
    OBVIOUS
  <2> QED
    BY <1>2, <2>1
<1>5. \A k \in Nat : k \in T
  <2>1. T \in SUBSET Nat
    OBVIOUS
  <2> HIDE DEF T
  <2> QED
    BY <1>3, <1>4, <2>1, SetInduction
<1>6. \A k \in 0 .. n : Known(k)
  BY <1>5
<1> QED
  BY <1>1, <1>2, <1>6 DEF FoldChains
=============================================================================
