----------------------------- MODULE RankProofs ------------------------------
(***************************************************************************)
(* What the proofs about imports, the linker and dead code elimination     *)
(* share: ranks of positions, functions that are defined step by step, and *)
(* induction without an operator parameter: a set of numbers that is not   *)
(* empty has a least one.                                                  *)
(***************************************************************************)
EXTENDS Ranks, TLAPS, FiniteSetTheorems, FunctionTheorems, SequenceTheorems,
        WellFoundedInduction

LEMMA LeastNumber ==
  ASSUME NEW X \in SUBSET Nat, X # {}
  PROVE  \E i \in X : \A j \in X : i <= j
<1>1. \E x \in X : \A y \in X : ~ (<<y, x>> \in OpToRel(<, Nat))
  BY NatLessThanWellFounded, WFMin
<1>2. PICK x \in X : \A y \in X : ~ (<<y, x>> \in OpToRel(<, Nat))
  BY <1>1
<1>3. ASSUME NEW y \in X PROVE x <= y
  <2>1. x \in Nat /\ y \in Nat
    OBVIOUS
  <2>2. ~ (y < x)
    BY <1>2, <2>1 DEF OpToRel
  <2>3. QED
    BY <2>1, <2>2
<1>4. QED
  BY <1>3

LEMMA GreatestNumber ==
  ASSUME NEW n \in Nat, NEW X \in SUBSET (0..n), X # {}
  PROVE  \E i \in X : \A j \in X : j <= i
<1> DEFINE Y == {y \in Nat : n - y \in X}
<1>1. Y # {}
  <2>1. PICK x \in X : TRUE
    OBVIOUS
  <2>2. n - x \in Nat /\ n - (n - x) = x
    OBVIOUS
  <2>3. QED
    BY <2>2
<1>2. PICK i \in Y : \A j \in Y : i <= j
  BY <1>1, LeastNumber
<1>3. n - i \in X
  OBVIOUS
<1>4. ASSUME NEW j \in X PROVE j <= n - i
  <2>1. n - j \in Nat /\ n - (n - j) = j
    OBVIOUS
  <2>2. n - j \in Y
    BY <2>1
  <2>3. i <= n - j /\ i \in Nat /\ j \in Nat
    BY <1>2, <2>2
  <2>4. QED
    BY <2>3
<1>5. QED
  BY <1>3, <1>4

\* Induction: a set that holds 0 and with each number the next one.
LEMMA EveryNumber ==
  ASSUME NEW S, 0 \in S, \A n \in Nat : n \in S => n + 1 \in S
  PROVE  Nat \subseteq S
<1> SUFFICES ASSUME Nat \ S # {} PROVE FALSE
  OBVIOUS
<1>1. PICK i \in Nat \ S : \A j \in Nat \ S : i <= j
  <2>1. Nat \ S \in SUBSET Nat
    OBVIOUS
  <2>2. QED
    BY <2>1, LeastNumber
<1>2. i # 0 /\ i - 1 \in Nat /\ i - 1 + 1 = i
  BY <1>1
<1>3. i - 1 \in S
  BY <1>1, <1>2
<1>4. QED
  BY <1>2, <1>3

-----------------------------------------------------------------------------
(* Functions that are defined step by step along the numbers.              *)

\* The values that f goes through, from the first one in N steps.
Takes(f, N, S, first, step) ==
    /\ f \in [0..N -> S]
    /\ f[0] = first
    /\ \A n \in 1..N : f[n] = step[<<n, f[n - 1]>>]

LEMMA StepsExist ==
  ASSUME NEW N \in Nat, NEW S, NEW first \in S,
         NEW step, step \in [(1..N) \X S -> S]
  PROVE  \E f : Takes(f, N, S, first, step)
<1> DEFINE Good(f, m) == /\ f \in [0..m -> S] /\ f[0] = first
                         /\ \A n \in 1..m : f[n] = step[<<n, f[n - 1]>>]
           P == {m \in Nat : m <= N => \E f : Good(f, m)}
<1>1. 0 \in P
  <2>1. Good([n \in 0..0 |-> first], 0)
    OBVIOUS
  <2>2. QED
    BY <2>1
<1>2. ASSUME NEW m \in P PROVE m + 1 \in P
  <2> SUFFICES ASSUME m + 1 <= N PROVE \E f : Good(f, m + 1)
    OBVIOUS
  <2>1. m \in Nat /\ m <= N /\ m + 1 \in 1..N
    OBVIOUS
  <2>2. PICK f : Good(f, m)
    BY <2>1
  <2> DEFINE g == [n \in 0..(m + 1) |-> IF n = m + 1 THEN step[<<m + 1, f[m]>>] ELSE f[n]]
  <2>3. f[m] \in S
    BY <2>1, <2>2
  <2>4. step[<<m + 1, f[m]>>] \in S
    BY <2>1, <2>3
  <2>5. g \in [0..(m + 1) -> S]
    <3>1. \A n \in 0..(m + 1) : n = m + 1 \/ n \in 0..m
      BY <2>1
    <3>2. QED
      BY <2>2, <2>4, <3>1
  <2>6. g[0] = first
    BY <2>1, <2>2
  <2>7. ASSUME NEW n \in 1..(m + 1) PROVE g[n] = step[<<n, g[n - 1]>>]
    <3>1. CASE n = m + 1
      <4>1. g[n - 1] = f[m] /\ g[n] = step[<<m + 1, f[m]>>]
        BY <2>1, <3>1
      <4>2. QED
        BY <3>1, <4>1
    <3>2. CASE n # m + 1
      <4>1. n \in 1..m /\ g[n] = f[n] /\ g[n - 1] = f[n - 1]
        BY <2>1, <3>2
      <4>2. QED
        BY <2>2, <4>1
    <3>3. QED
      BY <3>1, <3>2
  <2> HIDE DEF g
  <2>8. QED
    BY <2>5, <2>6, <2>7
<1> HIDE DEF P
<1>3. \A m \in Nat : m \in P
  <2>1. P \in SUBSET Nat
    BY DEF P
  <2>2. QED
    BY <1>1, <1>2, <2>1, EveryNumber
<1>4. QED
  BY <1>3 DEF P, Takes

-----------------------------------------------------------------------------
(* Ranks. *)

LEMMA PositionsAreNumbers ==
  ASSUME NEW N \in Nat, NEW keep \in SUBSET (1..N), NEW i \in keep
  PROVE  i \in 1..N /\ i \in Int /\ 1 <= i /\ i <= N
<1>1. i \in 1..N
  OBVIOUS
<1>2. QED
  BY <1>1

LEMMA PositionsAreFinite ==
  ASSUME NEW N \in Nat, NEW keep \in SUBSET (1..N), NEW i
  PROVE  /\ IsFiniteSet(keep) /\ Cardinality(keep) \in Nat
         /\ IsFiniteSet({j \in keep : j <= i}) /\ Rank(keep, i) \in Nat
         /\ Rank(keep, i) <= Cardinality(keep)
<1>1. IsFiniteSet(1..N)
  BY FS_Interval
<1>2. IsFiniteSet(keep) /\ Cardinality(keep) \in Nat
  BY <1>1, FS_Subset, FS_CardinalityType
<1>3. {j \in keep : j <= i} \in SUBSET keep
  OBVIOUS
<1>4. /\ IsFiniteSet({j \in keep : j <= i})
      /\ Cardinality({j \in keep : j <= i}) <= Cardinality(keep)
  BY <1>2, <1>3, FS_Subset
<1>5. QED
  BY <1>2, <1>4, FS_CardinalityType DEF Rank

LEMMA RankType ==
  ASSUME NEW N \in Nat, NEW keep \in SUBSET (1..N), NEW i \in keep
  PROVE  Rank(keep, i) \in 1..Cardinality(keep)
<1> DEFINE S == {j \in keep : j <= i}
<1>1. IsFiniteSet(S) /\ i \in S /\ Rank(keep, i) = Cardinality(S)
  BY PositionsAreFinite DEF Rank
<1>2. Cardinality(S) # 0
  BY <1>1, FS_EmptySet
<1>3. /\ Rank(keep, i) \in Nat /\ Cardinality(keep) \in Nat
      /\ Rank(keep, i) <= Cardinality(keep)
  BY PositionsAreFinite
<1>4. Rank(keep, i) # 0
  BY <1>1, <1>2
<1> HIDE DEF S
<1>5. QED
  BY <1>3, <1>4

LEMMA RankOrder ==
  ASSUME NEW N \in Nat, NEW keep \in SUBSET (1..N), NEW i \in keep, NEW j \in keep, i < j
  PROVE  Rank(keep, i) < Rank(keep, j)
<1> DEFINE S == {k \in keep : k <= i}
           T == {k \in keep : k <= j}
<1>1. S \in SUBSET T /\ j \in T /\ j \notin S
  <2>1. i \in Int /\ j \in Int /\ \A k \in keep : k \in Int
    BY PositionsAreNumbers
  <2>2. ASSUME NEW k \in S PROVE k \in T
    BY <2>1
  <2>3. j \in T /\ j \notin S
    BY <2>1
  <2> HIDE DEF S, T
  <2>4. QED
    BY <2>2, <2>3
<1>2. IsFiniteSet(T) /\ Cardinality(S) \in Nat /\ Cardinality(T) \in Nat
  BY PositionsAreFinite DEF Rank
<1>3. Cardinality(S) <= Cardinality(T) /\ Cardinality(S) # Cardinality(T)
  BY <1>1, <1>2, FS_Subset
<1>4. QED
  BY <1>2, <1>3 DEF Rank

LEMMA RankInjective ==
  ASSUME NEW N \in Nat, NEW keep \in SUBSET (1..N), NEW i \in keep, NEW j \in keep
  PROVE  /\ Rank(keep, i) = Rank(keep, j) => i = j
         /\ Rank(keep, i) < Rank(keep, j) <=> i < j
<1>1. i \in Int /\ j \in Int /\ Rank(keep, i) \in Int /\ Rank(keep, j) \in Int
  <2>1. i \in Int /\ j \in Int
    BY PositionsAreNumbers
  <2>2. Rank(keep, i) \in Nat /\ Rank(keep, j) \in Nat
    BY PositionsAreFinite
  <2>3. QED
    BY <2>1, <2>2
<1>2. i < j => Rank(keep, i) < Rank(keep, j)
  BY RankOrder
<1>3. j < i => Rank(keep, j) < Rank(keep, i)
  BY RankOrder
<1>4. QED
  BY <1>1, <1>2, <1>3

\* Every place is taken.
LEMMA RankOnto ==
  ASSUME NEW N \in Nat, NEW keep \in SUBSET (1..N), NEW n \in 1..Cardinality(keep)
  PROVE  \E i \in keep : Rank(keep, i) = n
<1> DEFINE c == Cardinality(keep)
           f == [i \in keep |-> Rank(keep, i)]
<1>1. IsFiniteSet(keep) /\ c \in Nat
  BY PositionsAreFinite
<1>2. f \in [keep -> 1..c]
  BY RankType
<1>3. ASSUME NEW i \in keep, NEW j \in keep, f[i] = f[j] PROVE i = j
  BY <1>3, RankInjective
<1> HIDE DEF f
<1>6. f \in Injection(keep, 1..c)
  BY <1>2, <1>3 DEF Injection, IsInjective
<1>4. IsFiniteSet(1..c) /\ Cardinality(1..c) = c
  BY <1>1, FS_Interval
<1>5. f \in Surjection(keep, 1..c)
  BY <1>4, <1>6, FS_Injection
<1>7. QED
  BY <1>5 DEF Surjection, f

\* The elements kept, by their old position and by their new one.
LEMMA KeptAt ==
  ASSUME NEW N \in Nat, NEW keep \in SUBSET (1..N), NEW s, NEW i \in keep
  PROVE  /\ Rank(keep, i) \in DOMAIN Kept(s, keep)
         /\ Kept(s, keep)[Rank(keep, i)] = s[i]
<1>1. Rank(keep, i) \in 1..Cardinality(keep)
  BY RankType
<1>2. i = CHOOSE k \in keep : Rank(keep, k) = Rank(keep, i)
  BY RankInjective
<1>3. QED
  BY <1>1, <1>2 DEF Kept

LEMMA KeptFrom ==
  ASSUME NEW N \in Nat, NEW keep \in SUBSET (1..N), NEW s, NEW n \in 1..Cardinality(keep)
  PROVE  \E i \in keep : Rank(keep, i) = n /\ Kept(s, keep)[n] = s[i]
<1>1. PICK i \in keep : Rank(keep, i) = n
  BY RankOnto
<1>2. QED
  BY <1>1, KeptAt

\* A sequence, from what it holds at each position.
LEMMA SeqBy ==
  ASSUME NEW T, NEW n \in Nat, NEW f, f = [i \in 1..n |-> f[i]],
         \A i \in 1..n : f[i] \in T
  PROVE  f \in Seq(T) /\ Len(f) = n /\ DOMAIN f = 1..n
<1>1. f \in [1..n -> T]
  OBVIOUS
<1>2. f \in Seq(T)
  BY <1>1
<1>3. DOMAIN f = 1..n
  BY <1>1
<1>4. Len(f) = n
  BY <1>2, <1>3, LenProperties
<1>5. QED
  BY <1>2, <1>3, <1>4

LEMMA KeptType ==
  ASSUME NEW N \in Nat, NEW keep \in SUBSET (1..N), NEW s, NEW T,
         \A i \in keep : s[i] \in T
  PROVE  /\ Kept(s, keep) \in Seq(T)
         /\ Len(Kept(s, keep)) = Cardinality(keep)
         /\ DOMAIN Kept(s, keep) = 1..Cardinality(keep)
<1>1. Cardinality(keep) \in Nat
  BY PositionsAreFinite
<1>2. DOMAIN Kept(s, keep) = 1..Cardinality(keep)
  BY DEF Kept
<1>3. ASSUME NEW n \in 1..Cardinality(keep) PROVE Kept(s, keep)[n] \in T
  <2>1. PICK i \in keep : Kept(s, keep)[n] = s[i]
    BY KeptFrom
  <2>2. QED
    BY <2>1
<1>4. Kept(s, keep) = [n \in 1..Cardinality(keep) |-> Kept(s, keep)[n]]
  BY DEF Kept
<1> DEFINE k == Kept(s, keep)
<1> HIDE DEF k
<1>5. k \in [1..Cardinality(keep) -> T]
  BY <1>3, <1>4 DEF k
<1>6. k \in Seq(T) /\ Len(k) = Cardinality(keep)
  BY <1>1, <1>5
<1>7. QED
  BY <1>2, <1>6 DEF k

\* Nothing goes: nothing moves.
LEMMA RankOfAll ==
  ASSUME NEW N \in Nat, NEW i \in 1..N
  PROVE  Rank(1..N, i) = i
<1>1. {j \in 1..N : j <= i} = 1..i
  <2>1. i \in Int /\ i <= N
    OBVIOUS
  <2>2. \A j : j \in 1..N /\ j <= i <=> j \in 1..i
    BY <2>1
  <2>3. QED
    BY <2>2
<1>2. i \in Int /\ 1 \in Int /\ i >= 1
  OBVIOUS
<1>3. Cardinality(1..i) = i
  <2>1. Cardinality(1..i) = IF 1 > i THEN 0 ELSE i - 1 + 1
    BY <1>2, FS_Interval
  <2>2. QED
    BY <1>2, <2>1
<1>4. QED
  BY <1>1, <1>3 DEF Rank

LEMMA KeepAll ==
  ASSUME NEW T, NEW s \in Seq(T)
  PROVE  Kept(s, DOMAIN s) = s
<1>1. /\ DOMAIN s = 1..Len(s) /\ Len(s) \in Nat
      /\ s = [i \in 1..Len(s) |-> s[i]]
  BY LenProperties
<1>2. Cardinality(1..Len(s)) = Len(s)
  BY <1>1, FS_Interval
<1>3. \A i \in 1..Len(s) : Kept(s, 1..Len(s))[i] = s[i]
  BY <1>1, RankOfAll, KeptAt
<1>4. Kept(s, 1..Len(s)) = [i \in 1..Len(s) |-> Kept(s, 1..Len(s))[i]]
  BY <1>2 DEF Kept
<1>5. QED
  BY <1>1, <1>3, <1>4
=============================================================================
