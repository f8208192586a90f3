------------------------------- MODULE Induction --------------------------------
(***************************************************************************)
(* Loops of the program are recursive functions over their index.  The     *)
(* lemmas that the proofs about them rest on: the least and the greatest   *)
(* element of a set of indexes, induction over an index, and that such a   *)
(* function exists.  They speak of sets and functions and not of           *)
(* predicates and operators, so that they can be cited for any of them.    *)
(***************************************************************************)
EXTENDS Integers, FiniteSets, TLAPS, WellFoundedInduction, FiniteSetTheorems

\* A set of numbers that is not empty has a least element.
LEMMA LeastNat ==
    ASSUME NEW S \in SUBSET Nat, S # {}
    PROVE  \E x \in S : \A y \in S : x <= y
<1>1. IsWellFoundedOn({ss \in Nat \X Nat : ss[1] < ss[2]}, Nat)
  BY NatLessThanWellFounded DEF OpToRel
<1>2. PICK x \in S : \A y \in S : ~(<<y, x>> \in {ss \in Nat \X Nat : ss[1] < ss[2]})
  BY <1>1, WFMin
<1>3. ASSUME NEW y \in S PROVE x <= y
  <2>1. <<y, x>> \in Nat \X Nat
    OBVIOUS
  <2>2. ~(y < x)
    BY <1>2, <2>1
  <2> QED
    BY <2>2
<1> QED
  BY <1>3

\* A set of indexes that is not empty has a greatest element.
LEMMA GreatestIndex ==
    ASSUME NEW n \in Nat, NEW S \in SUBSET (0 .. n), S # {}
    PROVE  \E x \in S : \A y \in S : y <= x
<1> DEFINE T == {n - x : x \in S}
<1>1. T \in SUBSET Nat /\ T # {}
  <2>1. \A x \in S : n - x \in Nat
    OBVIOUS
  <2>2. T \subseteq Nat
    BY <2>1
  <2>3. \E x \in S : n - x \in T
    OBVIOUS
  <2> QED
    BY <2>2, <2>3
<1>2. PICK m \in T : \A k \in T : m <= k
  BY <1>1, LeastNat
<1>3. PICK x \in S : m = n - x
  OBVIOUS
<1>4. \A y \in S : n - x <= n - y
  BY <1>2, <1>3
<1> QED
  BY <1>4

\* What holds of 0 and is handed on by each index to the next holds of all.
LEMMA IndexInduction ==
    ASSUME NEW n \in Nat, NEW S, 0 \in S, \A i \in 0 .. n : i < n /\ i \in S => i + 1 \in S
    PROVE  \A i \in 0 .. n : i \in S
<1> DEFINE bad == {i \in 0 .. n : i \notin S}
<1> SUFFICES ASSUME bad # {} PROVE FALSE
  OBVIOUS
<1>1. PICK x \in bad : \A y \in bad : x <= y
  <2>1. bad \in SUBSET Nat
    OBVIOUS
  <2> HIDE DEF bad
  <2> QED
    BY <2>1, LeastNat
<1>2. x # 0 /\ x - 1 \in 0 .. n /\ x - 1 \notin bad
  BY <1>1
<1> QED
  BY <1>1, <1>2

\* What holds of the last index and is handed on by each index to the one before it
\* holds of all.
LEMMA IndexInductionDown ==
    ASSUME NEW n \in Nat, NEW S, n \in S, \A i \in 0 .. n : i < n /\ i + 1 \in S => i \in S
    PROVE  \A i \in 0 .. n : i \in S
<1> DEFINE bad == {i \in 0 .. n : i \notin S}
<1> SUFFICES ASSUME bad # {} PROVE FALSE
  OBVIOUS
<1>1. PICK x \in bad : \A y \in bad : y <= x
  <2>1. bad \in SUBSET (0 .. n)
    OBVIOUS
  <2> HIDE DEF bad
  <2> QED
    BY <2>1, GreatestIndex
<1>2. x # n /\ x + 1 \in 0 .. n /\ x + 1 \notin bad
  BY <1>1
<1> QED
  BY <1>1, <1>2

\* f[i] is the state in X of a loop after i of its n iterations.
IsLoop(f, X, n, base, step) ==
    /\ f \in [0 .. n -> X] /\ f[0] = base
    /\ \A i \in 1 .. n : f[i] = step[<<i, f[i - 1]>>]

\* A loop with a state in X, whose step is a function, has a function of its index
\* that gives its state after every iteration.
LEMMA LoopExists ==
    ASSUME NEW X, NEW n \in Nat, NEW base \in X, NEW step \in [(1 .. n) \X X -> X]
    PROVE  \E f : IsLoop(f, X, n, base, step)
<1> DEFINE Loop(m, f) == f[0] = base /\ \A i \in 1 .. m : f[i] = step[<<i, f[i - 1]>>]
           S == {m \in 0 .. n : \E f \in [0 .. m -> X] : Loop(m, f)}
<1>1. 0 \in S
  <2> DEFINE f == [i \in 0 .. 0 |-> base]
  <2>1. f \in [0 .. 0 -> X] /\ Loop(0, f)
    OBVIOUS
  <2>2. \E h \in [0 .. 0 -> X] : Loop(0, h)
    <3> HIDE DEF f, Loop
    <3> QED
      BY <2>1
  <2> QED
    BY <2>2
<1>2. ASSUME NEW m \in 0 .. n, m < n, m \in S PROVE m + 1 \in S
  <2>1. PICK f \in [0 .. m -> X] : Loop(m, f)
    BY <1>2
  <2> DEFINE g == [i \in 0 .. m + 1 |-> IF i = m + 1 THEN step[<<i, f[m]>>] ELSE f[i]]
  <2>2. <<m + 1, f[m]>> \in (1 .. n) \X X
    BY <1>2
  <2>3. step[<<m + 1, f[m]>>] \in X
    BY <2>2
  <2>4. g \in [0 .. m + 1 -> X]
    BY <2>3
  <2>5. g[0] = base
    BY <2>1
  <2>6. ASSUME NEW i \in 1 .. m + 1 PROVE g[i] = step[<<i, g[i - 1]>>]
    <3>1. CASE i = m + 1
      BY <3>1
    <3>2. CASE i # m + 1
      BY <2>1, <3>2
    <3> QED
      BY <3>1, <3>2
  <2>7. Loop(m + 1, g)
    BY <2>5, <2>6
  <2>8. \E h \in [0 .. m + 1 -> X] : Loop(m + 1, h)
    <3> HIDE DEF g, Loop
    <3> QED
      BY <2>4, <2>7
  <2> QED
    BY <1>2, <2>8
<1>3. n \in S
  <2> HIDE DEF S
  <2> QED
    BY <1>1, <1>2, IndexInduction
<1>4. PICK f \in [0 .. n -> X] : Loop(n, f)
  BY <1>3
<1> QED
  BY <1>4 DEF IsLoop

\* Counting through a set of indexes in increasing order meets one for every count.
LEMMA RankExists ==
    ASSUME NEW n \in Nat, NEW S \in SUBSET (0 .. n), NEW i \in 1 .. Cardinality(S)
    PROVE  \E r \in S : Cardinality({o \in S : o < r}) = i - 1
<1> DEFINE Below(m) == {o \in S : o < m}
           Enough == {m \in 0 .. n + 1 : Cardinality(Below(m)) >= i}
<1>1. IsFiniteSet(S) /\ Cardinality(S) \in Nat
  <2>1. IsFiniteSet(0 .. n)
    BY FS_Interval
  <2>2. IsFiniteSet(S)
    BY <2>1, FS_Subset
  <2> QED
    BY <2>2, FS_CardinalityType
<1>2. ASSUME NEW m \in Int PROVE IsFiniteSet(Below(m)) /\ Cardinality(Below(m)) \in Nat
  <2>1. Below(m) \in SUBSET S
    OBVIOUS
  <2> HIDE DEF Below
  <2>2. IsFiniteSet(Below(m))
    BY <1>1, <2>1, FS_Subset
  <2> QED
    BY <2>2, FS_CardinalityType
<1>3. \A o \in S : o \in Int /\ 0 <= o /\ o <= n
  OBVIOUS
<1>4. n + 1 \in Enough
  <2>1. \A o \in S : o < n + 1
    BY <1>3
  <2>2. Below(n + 1) = S
    BY <2>1
  <2> HIDE DEF Below
  <2> QED
    BY <1>1, <2>2
<1>5. 0 \notin Enough
  <2>1. \A o \in S : ~(o < 0)
    BY <1>3
  <2>2. Below(0) = {}
    BY <2>1
  <2> HIDE DEF Below
  <2> QED
    BY <2>2, FS_EmptySet
<1>6. PICK m \in Enough : \A k \in Enough : m <= k
  <2>1. Enough \in SUBSET Nat
    OBVIOUS
  <2> HIDE DEF Enough
  <2> QED
    BY <1>4, <2>1, LeastNat
<1>7. m \in Int /\ m - 1 \in 0 .. n /\ m - 1 \notin Enough
  BY <1>5, <1>6
<1>8. Cardinality(Below(m - 1)) < i /\ Cardinality(Below(m)) >= i
  <2> HIDE DEF Below
  <2>1. Cardinality(Below(m - 1)) \in Nat
    BY <1>2, <1>7
  <2> QED
    BY <1>6, <1>7, <2>1
<1>9. CASE m - 1 \in S
  <2>1. Below(m) = Below(m - 1) \cup {m - 1} /\ m - 1 \notin Below(m - 1)
    <3>1. (\A o \in S : o < m <=> (o < m - 1 \/ o = m - 1)) /\ ~(m - 1 < m - 1)
      BY <1>3, <1>7
    <3> QED
      BY <1>9, <3>1
  <2>2. IsFiniteSet(Below(m - 1)) /\ Cardinality(Below(m - 1)) \in Nat
    BY <1>2, <1>7
  <2>3. Cardinality(Below(m)) = Cardinality(Below(m - 1)) + 1
    <3> HIDE DEF Below
    <3> QED
      BY <2>1, <2>2, FS_AddElement
  <2>4. Cardinality(Below(m - 1)) = i - 1
    <3> HIDE DEF Below
    <3> QED
      BY <1>8, <2>2, <2>3
  <2> QED
    BY <1>9, <2>4
<1>10. CASE m - 1 \notin S
  <2>1. Below(m) = Below(m - 1)
    <3>1. \A o \in S : o # m - 1 => (o < m <=> o < m - 1)
      BY <1>3, <1>7
    <3> QED
      BY <1>10, <3>1
  <2> HIDE DEF Below
  <2>2. Cardinality(Below(m - 1)) \in Nat
    BY <1>2, <1>7
  <2> QED
    BY <1>8, <2>1, <2>2
<1> QED
  BY <1>9, <1>10

================================================================================
