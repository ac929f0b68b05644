----------------------------- MODULE LoopProofs ------------------------------
(***************************************************************************)
(* What proofs about loops need: induction over the naturals, and what     *)
(* FoldLeft computes.  Both are stated for a set or a function where they  *)
(* would usually be for an operator, so that a proof can cite them.        *)
(***************************************************************************)
EXTENDS SequencesExt, Integers, FiniteSetTheorems, SequenceTheorems, TLAPS

\* A set of naturals with 0 and with what follows each of its members has all.
LEMMA SetInduction ==
  ASSUME NEW S, 0 \in S, \A n \in Nat : n \in S => n + 1 \in S
  PROVE  Nat \subseteq S
  <1> DEFINE R == OpToRel(<, Nat)
             T == Nat \ S
  <1>1. R = {ss \in Nat \X Nat : ss[1] < ss[2]}
    BY DEF OpToRel
  <1>2. SUFFICES ASSUME T # {} PROVE FALSE
    OBVIOUS
  <1>3. IsWellFoundedOn(R, Nat)
    BY NatLessThanWellFounded, Zenon
  <1>4. T \subseteq Nat
    OBVIOUS
  <1> HIDE DEF R, T
  <1>5. PICK n \in T : \A m \in T : ~ (<<m, n>> \in R)
    BY <1>2, <1>3, <1>4, WFMin
  <1> USE DEF T
  <1>6. n \in Nat /\ n # 0
    OBVIOUS
  <1>7. n - 1 \in Nat /\ n = (n - 1) + 1
    BY <1>6
  <1>8. n - 1 \in T
    BY <1>6, <1>7
  <1>9. <<n - 1, n>> \in R
    BY <1>1, <1>6, <1>7
  <1> QED BY <1>5, <1>8, <1>9

\* The same up to a bound.
LEMMA BoundedInduction ==
  ASSUME NEW N \in Nat, NEW S, 0 \in S,
         \A n \in 0 .. N - 1 : n \in S => n + 1 \in S
  PROVE  0 .. N \subseteq S
  <1> DEFINE T == {n \in Nat : n <= N => n \in S}
  <1>1. 0 \in T
    OBVIOUS
  <1>2. \A n \in Nat : n \in T => n + 1 \in T
    OBVIOUS
  <1> HIDE DEF T
  <1>3. Nat \subseteq T
    BY <1>1, <1>2, SetInduction
  <1> QED BY <1>3 DEF T

\* A set of naturals that is not empty has a least member.
LEMMA LeastIsThere ==
  ASSUME NEW s \in SUBSET Nat, s # {}
  PROVE  \E m \in s : \A j \in s : m <= j
  <1> DEFINE R == OpToRel(<, Nat)
  <1>1. R = {ss \in Nat \X Nat : ss[1] < ss[2]}
    BY DEF OpToRel
  <1>2. IsWellFoundedOn(R, Nat)
    BY NatLessThanWellFounded, Zenon
  <1> HIDE DEF R
  <1>3. PICK m \in s : \A j \in s : ~ (<<j, m>> \in R)
    BY <1>2, WFMin
  <1>4. ASSUME NEW j \in s PROVE m <= j
    <2>1. ~ (j < m)
      BY <1>1, <1>3
    <2> QED BY <2>1
  <1> QED BY <1>4

-----------------------------------------------------------------------------
(* Folds.                                                                  *)

\* Max of a set of integers that has a greatest.
LEMMA MaxIs ==
  ASSUME NEW s \in SUBSET Int, NEW m \in s, \A i \in s : i <= m
  PROVE  Max(s) = m
  <1>1. \E x \in s : \A y \in s : x >= y
    OBVIOUS
  <1>2. Max(s) \in s /\ \A y \in s : Max(s) >= y
    BY <1>1 DEF Max
  <1> DEFINE x == Max(s)
  <1>3. x \in Int /\ m \in Int /\ x >= m /\ x <= m
    BY <1>2
  <1> HIDE DEF x
  <1>4. x = m
    BY <1>3
  <1> QED BY <1>4 DEF x

\* A set of naturals within a bound that is not empty has a greatest member.
LEMMA MaxIsThere ==
  ASSUME NEW N \in Nat, NEW s \in SUBSET (1 .. N), s # {}
  PROVE  Max(s) \in s
  <1> DEFINE S == {n \in 0 .. N : \A t \in SUBSET (1 .. n) : t # {} => Max(t) \in t}
  <1>1. 0 \in S
    <2>1. \A t \in SUBSET (1 .. 0) : t = {}
      OBVIOUS
    <2>2. \A t \in SUBSET (1 .. 0) : t # {} => Max(t) \in t
      BY <2>1
    <2> QED BY <2>2
  <1>2. ASSUME NEW n \in 0 .. N - 1, n \in S PROVE n + 1 \in S
    <2>1. ASSUME NEW t \in SUBSET (1 .. n + 1), t # {} PROVE Max(t) \in t
      <3>1. CASE n + 1 \in t
        BY <3>1, MaxIs
      <3>2. CASE n + 1 \notin t
        <4>1. t \in SUBSET (1 .. n)
          BY <3>2
        <4> QED BY <1>2, <2>1, <4>1
      <3> QED BY <3>1, <3>2
    <2> QED BY <2>1
  <1> HIDE DEF S
  <1>3. 0 .. N \subseteq S
    BY <1>1, <1>2, BoundedInduction
  <1> QED BY <1>3 DEF S

\* The greatest of the first n is n, and n - 1 are left without it.
LEMMA MaxOfInterval ==
  ASSUME NEW n \in Nat \ {0}
  PROVE  Max(1 .. n) = n /\ (1 .. n) \ {n} = 1 .. n - 1 /\ 1 .. n # {}
  <1>1. Max(1 .. n) = n
    BY MaxIs
  <1>2. (1 .. n) \ {n} = 1 .. n - 1
    OBVIOUS
  <1>3. n \in 1 .. n
    OBVIOUS
  <1> QED BY <1>1, <1>2, <1>3

\* The equation FoldLeft is defined by has a solution, whatever the step.
IsFold(g, T, base, step, N, seq) ==
  /\ g \in [SUBSET (1 .. N) -> T]
  /\ g = [s \in SUBSET (1 .. N) |->
            IF s = {} THEN base ELSE step[<<g[s \ {Max(s)}], seq[Max(s)]>>]]

LEMMA FoldExists ==
  ASSUME NEW T, NEW C, NEW base \in T, NEW step \in [T \X C -> T],
         NEW N \in Nat, NEW seq \in [1 .. N -> C]
  PROVE  \E g : IsFold(g, T, base, step, N, seq)
  <1> DEFINE Solves(g, k) ==
               \A s \in SUBSET (1 .. k) :
                 g[s] = IF s = {} THEN base ELSE step[<<g[s \ {Max(s)}], seq[Max(s)]>>]
             Solvable(k) == \E g \in [SUBSET (1 .. k) -> T] : Solves(g, k)
             S == {k \in 0 .. N : Solvable(k)}
  <1>1. Solvable(0)
    <2>1. 1 .. 0 = {}
      OBVIOUS
    <2> DEFINE g == [s \in SUBSET (1 .. 0) |-> base]
    <2>2. g \in [SUBSET (1 .. 0) -> T] /\ Solves(g, 0)
      BY <2>1
    <2> QED BY <2>2
  <1>2. ASSUME NEW k \in 0 .. N - 1, Solvable(k) PROVE Solvable(k + 1)
    <2>1. PICK g \in [SUBSET (1 .. k) -> T] : Solves(g, k)
      BY <1>2
    <2> DEFINE h == [s \in SUBSET (1 .. k + 1) |->
                       IF k + 1 \in s THEN step[<<g[s \ {k + 1}], seq[k + 1]>>] ELSE g[s]]
    <2>2. h \in [SUBSET (1 .. k + 1) -> T]
      <3> SUFFICES ASSUME NEW s \in SUBSET (1 .. k + 1) PROVE h[s] \in T
        OBVIOUS
      <3>1. CASE k + 1 \in s
        <4>1. s \ {k + 1} \in SUBSET (1 .. k)
          OBVIOUS
        <4>2. seq[k + 1] \in C /\ g[s \ {k + 1}] \in T
          BY <1>2, <4>1
        <4> QED BY <3>1, <4>2
      <3>2. CASE k + 1 \notin s
        <4>1. s \in SUBSET (1 .. k)
          BY <3>2
        <4> QED BY <3>2, <4>1
      <3> QED BY <3>1, <3>2
    <2>3. ASSUME NEW s \in SUBSET (1 .. k + 1)
          PROVE  h[s] = IF s = {} THEN base ELSE step[<<h[s \ {Max(s)}], seq[Max(s)]>>]
      <3>1. CASE k + 1 \in s
        <4>1. Max(s) = k + 1
          BY <3>1, MaxIs
        <4>2. /\ s \ {k + 1} \in SUBSET (1 .. k) /\ s \ {k + 1} \in SUBSET (1 .. k + 1)
              /\ k + 1 \notin s \ {k + 1}
          OBVIOUS
        <4>3. h[s \ {k + 1}] = g[s \ {k + 1}]
          BY <4>2
        <4> QED BY <3>1, <4>1, <4>3
      <3>2. CASE k + 1 \notin s
        <4>1. s \in SUBSET (1 .. k) /\ h[s] = g[s]
          BY <3>2
        <4>2. s \ {Max(s)} \in SUBSET (1 .. k) /\ h[s \ {Max(s)}] = g[s \ {Max(s)}]
          <5> DEFINE r == s \ {Max(s)}
          <5>0. r \subseteq s
            OBVIOUS
          <5> HIDE DEF r, h
          <5>1. r \in SUBSET (1 .. k) /\ r \in SUBSET (1 .. k + 1) /\ k + 1 \notin r
            BY <4>1, <5>0
          <5> USE DEF h
          <5>2. h[r] = g[r]
            BY <5>1
          <5> QED BY <5>1, <5>2 DEF r
        <4>3. g[s] = IF s = {} THEN base ELSE step[<<g[s \ {Max(s)}], seq[Max(s)]>>]
          BY <2>1, <4>1
        <4> QED BY <4>1, <4>2, <4>3, Zenon
      <3> QED BY <3>1, <3>2
    <2> HIDE DEF h
    <2> QED BY <2>2, <2>3
  <1> HIDE DEF Solvable
  <1>3. Solvable(N)
    <2>1. 0 \in S /\ \A n \in 0 .. N - 1 : n \in S => n + 1 \in S
      BY <1>1, <1>2
    <2> HIDE DEF S
    <2>2. 0 .. N \subseteq S
      BY <2>1, BoundedInduction
    <2> QED BY <2>2 DEF S
  <1>4. PICK g \in [SUBSET (1 .. N) -> T] : Solves(g, N)
    BY <1>3 DEF Solvable
  <1>5. g = [s \in SUBSET (1 .. N) |->
               IF s = {} THEN base ELSE step[<<g[s \ {Max(s)}], seq[Max(s)]>>]]
    BY <1>4
  <1> QED BY <1>5 DEF IsFold

\* What Append does, for a set of elements with a name.
LEMMA AppendIs ==
  ASSUME NEW S, NEW seq \in Seq(S), NEW e \in S
  PROVE  /\ Append(seq, e) \in Seq(S)
         /\ Len(Append(seq, e)) = Len(seq) + 1
         /\ \A k \in 1 .. Len(seq) : Append(seq, e)[k] = seq[k]
         /\ Append(seq, e)[Len(seq) + 1] = e
  BY AppendProperties

-----------------------------------------------------------------------------
(* Counting.                                                               *)

\* How many of P there are among the first n.
Count(P, n) == Cardinality(P \cap (1 .. n))

\* What is counted is finite.
LEMMA CountedIsFinite ==
  ASSUME NEW P, NEW a \in Int, NEW b \in Int
  PROVE  /\ IsFiniteSet(P \cap (a .. b))
         /\ Cardinality(P \cap (a .. b)) \in Nat
  <1>1. IsFiniteSet(a .. b)
    BY FS_Interval
  <1>2. P \cap (a .. b) \in SUBSET (a .. b)
    OBVIOUS
  <1>3. IsFiniteSet(P \cap (a .. b))
    BY <1>1, <1>2, FS_Subset
  <1> QED BY <1>3, FS_CardinalityType

\* One more is counted or not.
LEMMA CountSteps ==
  ASSUME NEW P
  PROVE  /\ Count(P, 0) = 0
         /\ \A n \in Nat : Count(P, n) \in Nat
         /\ \A n \in Nat : Count(P, n + 1) = Count(P, n) + (IF n + 1 \in P THEN 1 ELSE 0)
  <1>1. ASSUME NEW n \in Nat
        PROVE  /\ IsFiniteSet(P \cap (1 .. n))
               /\ Count(P, n) \in Nat
    <2>1. 1 \in Int /\ n \in Int
      OBVIOUS
    <2> QED BY <2>1, CountedIsFinite DEF Count
  <1>2. Count(P, 0) = 0
    <2>1. P \cap (1 .. 0) = {}
      OBVIOUS
    <2> QED BY <2>1, FS_EmptySet DEF Count
  <1>3. ASSUME NEW n \in Nat
        PROVE  Count(P, n + 1) = Count(P, n) + (IF n + 1 \in P THEN 1 ELSE 0)
    <2>1. CASE n + 1 \in P
      <3>1. P \cap (1 .. n + 1) = (P \cap (1 .. n)) \cup {n + 1}
        BY <2>1
      <3>2. n + 1 \notin P \cap (1 .. n)
        OBVIOUS
      <3> QED BY <1>1, <2>1, <3>1, <3>2, FS_AddElement DEF Count
    <2>2. CASE n + 1 \notin P
      <3>1. P \cap (1 .. n + 1) = P \cap (1 .. n)
        BY <2>2
      <3>2. Count(P, n + 1) = Count(P, n) /\ Count(P, n) \in Nat
        BY <1>1, <3>1 DEF Count
      <3> QED BY <2>2, <3>2
    <2> QED BY <2>1, <2>2
  <1> QED BY <1>1, <1>2, <1>3

\* What is counted between two places.
LEMMA CountBetween ==
  ASSUME NEW P, NEW i \in Nat, NEW j \in Nat, i <= j
  PROVE  /\ Cardinality(P \cap (i + 1 .. j)) = Count(P, j) - Count(P, i)
         /\ IsFiniteSet(P \cap (i + 1 .. j))
  <1> DEFINE S == {n \in 0 .. j - i :
                     Cardinality(P \cap (i + 1 .. i + n)) = Count(P, i + n) - Count(P, i)}
  <1>0. ASSUME NEW n \in Nat PROVE IsFiniteSet(P \cap (i + 1 .. i + n))
    BY CountedIsFinite
  <1>1. 0 \in S
    <2>1. P \cap (i + 1 .. i + 0) = {} /\ i + 0 = i
      OBVIOUS
    <2>2. Count(P, i) \in Nat
      BY CountSteps
    <2> QED BY <2>1, <2>2, FS_EmptySet
  <1>2. ASSUME NEW n \in 0 .. (j - i) - 1, n \in S PROVE n + 1 \in S
    <2> DEFINE A == P \cap (i + 1 .. i + n)
               m == i + n
    <2>1. m \in Nat /\ i + (n + 1) = m + 1 /\ n + 1 \in 0 .. j - i
      OBVIOUS
    <2>2. Cardinality(A) = Count(P, m) - Count(P, i) /\ IsFiniteSet(A)
      BY <1>0, <1>2
    <2>3. Count(P, m + 1) = Count(P, m) + (IF m + 1 \in P THEN 1 ELSE 0)
      BY <2>1, CountSteps
    <2>4. Count(P, m) \in Nat /\ Count(P, i) \in Nat
      BY <2>1, CountSteps
    <2>5. CASE m + 1 \in P
      <3>1. P \cap (i + 1 .. m + 1) = A \cup {m + 1} /\ m + 1 \notin A
        BY <2>5
      <3>2. Cardinality(A \cup {m + 1}) = Cardinality(A) + 1
        BY <2>2, <3>1, FS_AddElement
      <3> HIDE DEF A, m
      <3>3. Cardinality(P \cap (i + 1 .. m + 1)) = Count(P, m + 1) - Count(P, i)
        BY <2>2, <2>3, <2>4, <2>5, <3>1, <3>2
      <3> QED BY <2>1, <3>3
    <2>6. CASE m + 1 \notin P
      <3>1. P \cap (i + 1 .. m + 1) = A
        BY <2>6
      <3> HIDE DEF A, m
      <3>2. Cardinality(P \cap (i + 1 .. m + 1)) = Count(P, m + 1) - Count(P, i)
        BY <2>2, <2>3, <2>4, <2>6, <3>1
      <3> QED BY <2>1, <3>2
    <2> QED BY <2>5, <2>6
  <1> HIDE DEF S
  <1>3. j - i \in Nat /\ i + (j - i) = j
    OBVIOUS
  <1>4. 0 .. j - i \subseteq S
    BY <1>1, <1>2, <1>3, BoundedInduction
  <1>5. j - i \in S
    BY <1>3, <1>4
  <1>6. Cardinality(P \cap (i + 1 .. i + (j - i))) = Count(P, i + (j - i)) - Count(P, i)
    BY <1>5 DEF S
  <1> QED BY <1>0, <1>3, <1>6

\* pos lists the h members of S in their order.
Enumerates(pos, h, S) ==
  /\ pos \in [1 .. h -> Nat]
  /\ S = {pos[k] : k \in 1 .. h}
  /\ \A k, m \in 1 .. h : k < m => pos[k] < pos[m]

\* In such a list each member stands as far as it has members before it.
LEMMA Ranked ==
  ASSUME NEW S, NEW h \in Nat, NEW pos, Enumerates(pos, h, S)
  PROVE  /\ Cardinality(S) = h
         /\ \A k \in 1 .. h : Cardinality({j \in S : j < pos[k]}) = k - 1
  <1>0. /\ pos \in [1 .. h -> Nat]
        /\ S = {pos[k] : k \in 1 .. h}
        /\ \A k, m \in 1 .. h : k < m => pos[k] < pos[m]
    BY DEF Enumerates
  <1> USE <1>0
  <1>1. ASSUME NEW n \in 0 .. h PROVE Cardinality({pos[m] : m \in 1 .. n}) = n
    <2> DEFINE T == {pos[m] : m \in 1 .. n}
               f == [m \in 1 .. n |-> pos[m]]
    <2>1. f \in [1 .. n -> T]
      OBVIOUS
    <2>2. \A a, b \in 1 .. n : f[a] = f[b] => a = b
      <3> SUFFICES ASSUME NEW a \in 1 .. n, NEW b \in 1 .. n, pos[a] = pos[b] PROVE a = b
        OBVIOUS
      <3>1. a \in 1 .. h /\ b \in 1 .. h /\ pos[a] \in Nat /\ pos[b] \in Nat
        OBVIOUS
      <3>2. ~ (a < b) /\ ~ (b < a)
        BY <3>1
      <3> QED BY <3>1, <3>2
    <2>3. \A t \in T : \E m \in 1 .. n : f[m] = t
      OBVIOUS
    <2> HIDE DEF f, T
    <2>4. f \in Bijection(1 .. n, T)
      BY <2>1, <2>2, <2>3 DEF Bijection, Injection, Surjection, IsInjective
    <2>5. ExistsBijection(1 .. n, T) /\ n \in Nat
      BY <2>4 DEF ExistsBijection
    <2>6. Cardinality(T) = n
      BY <2>5, FS_CountingElements
    <2> QED BY <2>6 DEF T
  <1>2. ASSUME NEW k \in 1 .. h PROVE Cardinality({j \in S : j < pos[k]}) = k - 1
    <2>1. {j \in S : j < pos[k]} \subseteq {pos[m] : m \in 1 .. k - 1}
      <3> SUFFICES ASSUME NEW m \in 1 .. h, pos[m] < pos[k] PROVE m \in 1 .. k - 1
        OBVIOUS
      <3>1. ~ (k < m) /\ k # m
        OBVIOUS
      <3> QED BY <3>1
    <2>2. {pos[m] : m \in 1 .. k - 1} \subseteq {j \in S : j < pos[k]}
      OBVIOUS
    <2>3. k - 1 \in 0 .. h
      OBVIOUS
    <2> QED BY <1>1, <2>1, <2>2, <2>3
  <1>3. Cardinality({pos[k] : k \in 1 .. h}) = h
    BY <1>1
  <1> QED BY <1>2, <1>3
=============================================================================
