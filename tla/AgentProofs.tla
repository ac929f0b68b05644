----------------------------- MODULE AgentProofs ----------------------------
(***************************************************************************)
(* What the agent filter's pattern matcher computes, and the filter's      *)
(* invariant and what follows from it, for any number of clients, keys,    *)
(* comments and lists.                                                     *)
(***************************************************************************)
EXTENDS AgentProperties, LoopProofs

-----------------------------------------------------------------------------
(* The pattern matcher: what its loop computes, for every pattern and      *)
(* every text.  First what the definition says, character by character.    *)

\* Do the first n characters of the pattern make the first j of the text?
Reach(p, t, n, j) ==
  \E u \in [0 .. n -> 0 .. Len(t)] : Makes(u, p, t, n) /\ u[n] = j

\* Nothing makes nothing, and each further character a run or itself.
LEMMA ReachSteps ==
  ASSUME NEW S, NEW p \in Seq(S), NEW t \in Seq(S)
  PROVE  /\ \A j \in 0 .. Len(t) : Reach(p, t, 0, j) <=> j = 0
         /\ \A n \in 1 .. Len(p), j \in 0 .. Len(t) :
              Reach(p, t, n, j) <=>
                IF p[n] = Star THEN \E i \in 0 .. j : Reach(p, t, n - 1, i)
                ELSE j >= 1 /\ Reach(p, t, n - 1, j - 1) /\ t[j] = p[n]
  <1>0. Len(p) \in Nat /\ Len(t) \in Nat
    OBVIOUS
  <1>1. ASSUME NEW j \in 0 .. Len(t) PROVE Reach(p, t, 0, j) <=> j = 0
    <2>1. ASSUME Reach(p, t, 0, j) PROVE j = 0
      BY <2>1 DEF Reach, Makes
    <2>2. ASSUME j = 0 PROVE Reach(p, t, 0, j)
      <3> DEFINE u == [i \in 0 .. 0 |-> 0]
      <3>1. u \in [0 .. 0 -> 0 .. Len(t)] /\ u[0] = 0 /\ 1 .. 0 = {}
        BY <1>0
      <3> HIDE DEF u
      <3> QED BY <2>2, <3>1 DEF Reach, Makes
    <2> QED BY <2>1, <2>2
  <1>2. ASSUME NEW n \in 0 .. Len(p) - 1, NEW j \in 0 .. Len(t), Reach(p, t, n + 1, j)
        PROVE  IF p[n + 1] = Star THEN \E i \in 0 .. j : Reach(p, t, n, i)
               ELSE j >= 1 /\ Reach(p, t, n, j - 1) /\ t[j] = p[n + 1]
    <2>1. PICK u \in [0 .. n + 1 -> 0 .. Len(t)] :
            Makes(u, p, t, n + 1) /\ u[n + 1] = j
      BY <1>2 DEF Reach
    <2> DEFINE v == [i \in 0 .. n |-> u[i]]
    <2>2. v \in [0 .. n -> 0 .. Len(t)] /\ v[n] = u[n] /\ u[n] \in 0 .. Len(t)
      OBVIOUS
    <2>3. Makes(v, p, t, n)
      <3>1. v[0] = 0
        BY <2>1 DEF Makes
      <3>2. ASSUME NEW i \in 1 .. n
            PROVE  IF p[i] = Star THEN v[i - 1] <= v[i]
                   ELSE v[i] = v[i - 1] + 1 /\ t[v[i]] = p[i]
        <4>1. i \in 1 .. n + 1 /\ v[i] = u[i] /\ v[i - 1] = u[i - 1]
          OBVIOUS
        <4> HIDE DEF v
        <4> QED BY <2>1, <4>1 DEF Makes
      <3> HIDE DEF v
      <3> QED BY <3>1, <3>2 DEF Makes
    <2>4. Reach(p, t, n, u[n])
      <3> HIDE DEF v
      <3> QED BY <2>2, <2>3 DEF Reach
    <2>5. IF p[n + 1] = Star THEN u[n] <= j ELSE j = u[n] + 1 /\ t[j] = p[n + 1]
      <3>1. n + 1 \in 1 .. n + 1 /\ (n + 1) - 1 = n
        OBVIOUS
      <3> QED BY <2>1, <3>1 DEF Makes
    <2>6. CASE p[n + 1] = Star
      <3>1. u[n] \in 0 .. j
        BY <2>2, <2>5, <2>6
      <3> QED BY <2>4, <2>6, <3>1
    <2>7. CASE p[n + 1] # Star
      <3>1. j >= 1 /\ u[n] = j - 1 /\ t[j] = p[n + 1]
        BY <1>0, <2>2, <2>5, <2>7, SMTT(30)
      <3> QED BY <2>4, <2>7, <3>1
    <2> QED BY <2>6, <2>7
  <1>3. ASSUME NEW n \in 0 .. Len(p) - 1, NEW j \in 0 .. Len(t), NEW i \in 0 .. Len(t),
               Reach(p, t, n, i),
               IF p[n + 1] = Star THEN i <= j ELSE j = i + 1 /\ t[j] = p[n + 1]
        PROVE  Reach(p, t, n + 1, j)
    <2>1. PICK u \in [0 .. n -> 0 .. Len(t)] : Makes(u, p, t, n) /\ u[n] = i
      BY <1>3 DEF Reach
    <2> DEFINE v == [k \in 0 .. n + 1 |-> IF k = n + 1 THEN j ELSE u[k]]
    <2>2. v \in [0 .. n + 1 -> 0 .. Len(t)] /\ v[n + 1] = j /\ v[n] = i
      BY <2>1
    <2>3. Makes(v, p, t, n + 1)
      <3>1. v[0] = 0
        BY <2>1 DEF Makes
      <3>2. ASSUME NEW k \in 1 .. n + 1
            PROVE  IF p[k] = Star THEN v[k - 1] <= v[k]
                   ELSE v[k] = v[k - 1] + 1 /\ t[v[k]] = p[k]
        <4>1. CASE k = n + 1
          <5>1. (n + 1) - 1 = n
            OBVIOUS
          <5> HIDE DEF v
          <5> QED BY <1>3, <2>2, <4>1, <5>1
        <4>2. CASE k \in 1 .. n
          <5>1. v[k] = u[k] /\ v[k - 1] = u[k - 1]
            BY <4>2
          <5> HIDE DEF v
          <5> QED BY <2>1, <4>2, <5>1 DEF Makes
        <4> QED BY <4>1, <4>2
      <3> HIDE DEF v
      <3> QED BY <3>1, <3>2 DEF Makes
    <2> HIDE DEF v
    <2> QED BY <2>2, <2>3 DEF Reach
  <1>4. ASSUME NEW n \in 0 .. Len(p) - 1, NEW j \in 0 .. Len(t),
               IF p[n + 1] = Star THEN \E i \in 0 .. j : Reach(p, t, n, i)
               ELSE j >= 1 /\ Reach(p, t, n, j - 1) /\ t[j] = p[n + 1]
        PROVE  Reach(p, t, n + 1, j)
    <2>1. CASE p[n + 1] = Star
      <3>1. PICK i \in 0 .. j : Reach(p, t, n, i)
        BY <1>4, <2>1
      <3>2. i \in 0 .. Len(t) /\ i <= j
        BY <1>0
      <3> QED BY <1>3, <2>1, <3>1, <3>2
    <2>2. CASE p[n + 1] # Star
      <3>1. j >= 1 /\ Reach(p, t, n, j - 1) /\ t[j] = p[n + 1]
        BY <1>4, <2>2
      <3>2. j - 1 \in 0 .. Len(t) /\ j = (j - 1) + 1
        BY <1>0, <3>1
      <3> QED BY <1>3, <2>2, <3>1, <3>2
    <2> QED BY <2>1, <2>2
  <1>5. ASSUME NEW n \in 1 .. Len(p), NEW j \in 0 .. Len(t)
        PROVE  Reach(p, t, n, j) <=>
                 IF p[n] = Star THEN \E i \in 0 .. j : Reach(p, t, n - 1, i)
                 ELSE j >= 1 /\ Reach(p, t, n - 1, j - 1) /\ t[j] = p[n]
    <2> DEFINE k == n - 1
    <2>1. k \in 0 .. Len(p) - 1 /\ k + 1 = n
      BY <1>0
    <2> HIDE DEF k
    <2>2. Reach(p, t, k + 1, j) <=>
            IF p[k + 1] = Star THEN \E i \in 0 .. j : Reach(p, t, k, i)
            ELSE j >= 1 /\ Reach(p, t, k, j - 1) /\ t[j] = p[k + 1]
      BY <1>2, <1>4, <2>1
    <2> QED BY <2>1, <2>2 DEF k
  <1> QED BY <1>1, <1>5

\* The part stands in the pattern behind its first n characters.
StandsAt(p, n, part) ==
  \A i \in 1 .. Len(part) : part[i] = p[n + i] /\ part[i] # Star

\* A run without a star makes itself.
LEMMA ReachPart ==
  ASSUME NEW S, NEW p \in Seq(S), NEW t \in Seq(S), NEW part \in Seq(S),
         NEW n \in Nat, StandsAt(p, n, part),
         NEW m, m = n + Len(part), m <= Len(p),
         NEW j \in 0 .. Len(t)
  PROVE  Reach(p, t, m, j) <=>
           /\ j >= Len(part) /\ Reach(p, t, n, j - Len(part))
           /\ \A i \in 1 .. Len(part) : t[(j - Len(part)) + i] = part[i]
  <1> DEFINE l == Len(part)
  <1>9. l \in Nat /\ \A i \in 1 .. l : part[i] = p[n + i] /\ p[n + i] # Star
    BY LenProperties DEF StandsAt
  <1> HIDE DEF l
  <1> DEFINE Fits(k, a) == /\ a >= k /\ Reach(p, t, n, a - k)
                           /\ \A i \in 1 .. k : t[(a - k) + i] = p[n + i]
             T == {k \in 0 .. l : \A a \in 0 .. Len(t) : Reach(p, t, n + k, a) <=> Fits(k, a)}
  <1>0. /\ Len(p) \in Nat /\ Len(t) \in Nat
        /\ m = n + l /\ l \in Nat /\ n + l <= Len(p)
    BY <1>9 DEF l
  <1>1. 0 \in T
    BY <1>0
  <1>2. ASSUME NEW k \in 0 .. l - 1, k \in T PROVE k + 1 \in T
    <2> SUFFICES ASSUME NEW a \in 0 .. Len(t)
                 PROVE  Reach(p, t, n + (k + 1), a) <=> Fits(k + 1, a)
      BY <1>0
    <2>1. /\ n + k \in 0 .. Len(p) - 1 /\ n + (k + 1) = (n + k) + 1
          /\ k + 1 \in 1 .. l /\ p[n + (k + 1)] # Star
      <3>1. k \in Nat /\ k + 1 \in 1 .. l
        BY <1>0
      <3>2. n + k \in 0 .. Len(p) - 1 /\ n + (k + 1) = (n + k) + 1
        BY <1>0, <3>1
      <3> QED BY <1>9, <3>1, <3>2
    <2>2. Reach(p, t, n + (k + 1), a) <=>
            a >= 1 /\ Reach(p, t, n + k, a - 1) /\ t[a] = p[n + (k + 1)]
      <3> DEFINE b == n + (k + 1)
      <3>1. b \in 1 .. Len(p) /\ b - 1 = n + k /\ p[b] # Star
        BY <1>0, <2>1
      <3> HIDE DEF b
      <3>2. Reach(p, t, b, a) <=> a >= 1 /\ Reach(p, t, b - 1, a - 1) /\ t[a] = p[b]
        BY <3>1, ReachSteps
      <3> QED BY <3>1, <3>2 DEF b
    <2>3. CASE ~ (a >= 1)
      BY <2>2, <2>3
    <2>4. CASE a >= 1
      <3>1. a - 1 \in 0 .. Len(t)
        BY <2>4
      <3>2. Reach(p, t, n + k, a - 1) <=> Fits(k, a - 1)
        BY <1>2, <3>1
      <3>3. (a - 1) - k = a - (k + 1) /\ (a - 1 >= k <=> a >= k + 1)
        BY <1>2
      <3>4. ASSUME a >= k + 1
            PROVE  (\A i \in 1 .. k : t[(a - (k + 1)) + i] = p[n + i])
                     /\ t[a] = p[n + (k + 1)]
                   <=> \A i \in 1 .. k + 1 : t[(a - (k + 1)) + i] = p[n + i]
        <4>1. (a - (k + 1)) + (k + 1) = a
          BY <1>2
        <4>2. 1 .. k + 1 = (1 .. k) \cup {k + 1}
          BY <1>2
        <4> QED BY <4>1, <4>2
      <3> QED BY <2>2, <2>4, <3>2, <3>3, <3>4
    <2> QED BY <2>3, <2>4
  <1> HIDE DEF T
  <1>3. 0 .. l \subseteq T
    BY <1>0, <1>1, <1>2, BoundedInduction
  <1>4. l \in T
    BY <1>0, <1>3
  <1>5. Reach(p, t, m, j) <=> Fits(l, j)
    BY <1>0, <1>4 DEF T
  <1> QED BY <1>5, <1>9 DEF l

\* What Split has in hand after each character.
LEMMA SplitLoop ==
  ASSUME NEW S, NEW p \in Seq(S)
  PROVE  \E out \in [0 .. Len(p) -> Seq(Seq(S)) \ {<<>>}] :
           /\ out[0] = << <<>> >>
           /\ \A n \in 1 .. Len(p) : out[n] = Cut(out[n - 1], p[n])
           /\ Split(p) = out[Len(p)]
  <1> DEFINE Cuts == Seq(Seq(S)) \ {<<>>}
             base == << <<>> >>
             N == Len(p)
             step == [oc \in (Cuts) \X S |-> Cut(oc[1], oc[2])]
  <1>1. N \in Nat /\ p \in [1 .. N -> S] /\ DOMAIN p = 1 .. N
    BY DEF Cuts
  <1>2. ASSUME NEW o \in Cuts, NEW c \in S PROVE Cut(o, c) \in Cuts
    <2>1. o \in Seq(Seq(S)) /\ Len(o) \in Nat \ {0} /\ o # <<>>
      BY EmptySeq DEF Cuts
    <2>2. CASE c = Star
      <3>1. <<>> \in Seq(S)
        OBVIOUS
      <3>2. Append(o, <<>>) \in Seq(Seq(S)) /\ Len(Append(o, <<>>)) = Len(o) + 1
        BY <2>1, <3>1, AppendProperties
      <3> DEFINE a == Append(o, <<>>)
      <3>3. a # <<>>
        <4> HIDE DEF a
        <4>1. Len(a) = Len(o) + 1
          BY <3>2, Zenon DEF a
        <4>2. Len(a) # 0
          BY <2>1, <4>1
        <4>3. Len(<<>>) = 0
          OBVIOUS
        <4> QED BY <4>2, <4>3, Zenon
      <3> QED BY <2>2, <3>2, <3>3 DEF Cut, Cuts
    <2>3. CASE c # Star
      <3>1. o[Len(o)] \in Seq(S)
        BY <2>1
      <3>2. Append(o[Len(o)], c) \in Seq(S)
        BY <3>1, AppendProperties
      <3>3. [o EXCEPT ![Len(o)] = Append(@, c)] \in Seq(Seq(S))
        BY <2>1, <3>2, ExceptSeq
      <3>4. Len([o EXCEPT ![Len(o)] = Append(@, c)]) = Len(o)
        BY <2>1, <3>2, ExceptSeq
      <3>5. [o EXCEPT ![Len(o)] = Append(@, c)] # <<>>
        BY <2>1, <3>4
      <3> QED BY <2>3, <3>3, <3>5 DEF Cut, Cuts
    <2> QED BY <2>2, <2>3
  <1>3. step \in [(Cuts) \X S -> Cuts]
    BY <1>2
  <1>4. base \in Cuts
    BY DEF Cuts
  <1> DEFINE Eq(g) == g = [s \in SUBSET (DOMAIN p) |->
                       IF s = {} THEN base ELSE Cut(g[s \ {Max(s)}], p[Max(s)])]
             it == CHOOSE g : Eq(g)
  <1>5. Split(p) = it[DOMAIN p]
    BY DEF Split, FoldLeft, MapThenFoldSet
  <1>6. \E g : Eq(g)
    <2>0. PICK g : IsFold(g, Cuts, base, step, N, p)
      <3> HIDE DEF N, step
      <3> QED BY <1>1, <1>3, <1>4, FoldExists
    <2>1. /\ g \in [SUBSET (1 .. N) -> Cuts]
          /\ g = [s \in SUBSET (1 .. N) |->
                   IF s = {} THEN base ELSE step[<<g[s \ {Max(s)}], p[Max(s)]>>]]
      <3> HIDE DEF N, step
      <3> QED BY <2>0 DEF IsFold
    <2>2. ASSUME NEW s \in SUBSET (1 .. N), s # {}
          PROVE  step[<<g[s \ {Max(s)}], p[Max(s)]>>] = Cut(g[s \ {Max(s)}], p[Max(s)])
      <3>1. Max(s) \in 1 .. N
        BY <1>1, <2>2, MaxIsThere
      <3>2. p[Max(s)] \in S /\ g[s \ {Max(s)}] \in Cuts
        <4> DEFINE r == s \ {Max(s)}
        <4>1. r \in SUBSET (1 .. N)
          OBVIOUS
        <4> HIDE DEF N, step, r
        <4>2. g[r] \in Cuts
          BY <2>1, <4>1
        <4> QED BY <1>1, <3>1, <4>2 DEF r
      <3> QED BY <3>2
    <2> HIDE DEF step, N
    <2>3. Eq(g)
      BY <1>1, <2>1, <2>2
    <2> QED BY <2>3
  <1>7. Eq(it)
    <2> HIDE DEF Eq
    <2> QED BY <1>6
  <1> HIDE DEF it, step, N, Cuts, base
  <1> DEFINE out == [n \in 0 .. N |-> it[1 .. n]]
  <1>8. out[0] = base
    <2>1. 1 .. 0 = {}
      OBVIOUS
    <2> QED BY <1>1, <1>7, <2>1
  <1>9. ASSUME NEW n \in 1 .. N PROVE out[n] = Cut(out[n - 1], p[n])
    <2>1. Max(1 .. n) = n /\ (1 .. n) \ {n} = 1 .. n - 1 /\ 1 .. n # {}
      <3>1. n \in Nat \ {0}
        BY <1>1
      <3> QED BY <3>1, MaxOfInterval
    <2>2. 1 .. n \in SUBSET (DOMAIN p) /\ n - 1 \in 0 .. N
      BY <1>1
    <2>3. it[1 .. n] = Cut(it[(1 .. n) \ {Max(1 .. n)}], p[Max(1 .. n)])
      BY <1>7, <2>1, <2>2
    <2>4. out[n] = it[1 .. n] /\ out[n - 1] = it[1 .. n - 1]
      BY <2>2
    <2> QED BY <2>1, <2>3, <2>4
  <1>10. Split(p) = out[N]
    BY <1>1, <1>5
  <1> DEFINE G == {n \in 0 .. N : out[n] \in Cuts}
  <1>11. 0 .. N \subseteq G
    <2> HIDE DEF out
    <2>1. 0 \in G
      BY <1>1, <1>4, <1>8
    <2>2. ASSUME NEW n \in 0 .. N - 1, n \in G PROVE n + 1 \in G
      <3>1. n + 1 \in 1 .. N /\ (n + 1) - 1 = n /\ p[n + 1] \in S
        BY <1>1
      <3>2. out[n + 1] = Cut(out[n], p[n + 1])
        BY <1>9, <3>1
      <3>3. out[n + 1] \in Cuts
        BY <1>2, <2>2, <3>1, <3>2
      <3> QED BY <3>1, <3>3, <1>1
    <2> HIDE DEF G
    <2> QED BY <1>1, <2>1, <2>2, BoundedInduction
  <1>12. out \in [0 .. N -> Cuts]
    BY <1>11
  <1> HIDE DEF out
  <1> QED BY <1>8, <1>9, <1>10, <1>12 DEF N, Cuts, base

\* What the loop over the parts has in hand after each.
LEMMA AfterLoop ==
  ASSUME NEW S, NEW parts \in Seq(Seq(S)), NEW base \in [matched : BOOLEAN, rest : Seq(S)]
  PROVE  \E out \in [0 .. Len(parts) -> [matched : BOOLEAN, rest : Seq(S)]] :
           /\ out[0] = base
           /\ \A n \in 1 .. Len(parts) : out[n] = After(out[n - 1], parts[n])
           /\ AfterAll(base, parts) = out[Len(parts)]
  <1> DEFINE States == [matched : BOOLEAN, rest : Seq(S)]
             N == Len(parts)
             step == [oc \in (States) \X Seq(S) |-> After(oc[1], oc[2])]
  <1>1. N \in Nat /\ parts \in [1 .. N -> Seq(S)] /\ DOMAIN parts = 1 .. N
    OBVIOUS
  <1>2. ASSUME NEW o \in States, NEW c \in Seq(S) PROVE After(o, c) \in States
    <2>1. NoMatch \in States
      BY DEF NoMatch, States
    <2>2. \A i \in Nat : [matched |-> TRUE, rest |-> SubSeq(o.rest, i + Len(c) + 1, Len(o.rest))] \in States
      OBVIOUS
    <2>3. ASSUME Places(o.rest, c) # {}
          PROVE  (CHOOSE i \in Places(o.rest, c) : \A j \in Places(o.rest, c) : i <= j) \in Nat
      <3>1. Len(o.rest) \in Nat /\ Len(c) \in Nat
        OBVIOUS
      <3>2. Places(o.rest, c) \in SUBSET Nat
        BY <3>1 DEF Places
      <3>3. \E i \in Places(o.rest, c) : \A j \in Places(o.rest, c) : i <= j
        BY <2>3, <3>2, LeastIsThere
      <3> QED BY <3>2, <3>3
    <2> HIDE DEF States
    <2> QED BY <2>1, <2>2, <2>3 DEF After
  <1>3. step \in [(States) \X Seq(S) -> States]
    BY <1>2
  <1>4. base \in States
    OBVIOUS
  <1> DEFINE Eq(g) == g = [s \in SUBSET (DOMAIN parts) |->
                       IF s = {} THEN base ELSE After(g[s \ {Max(s)}], parts[Max(s)])]
             it == CHOOSE g : Eq(g)
  <1>5. AfterAll(base, parts) = it[DOMAIN parts]
    BY DEF AfterAll, FoldLeft, MapThenFoldSet
  <1>6. \E g : Eq(g)
    <2>0. PICK g : IsFold(g, States, base, step, N, parts)
      <3> HIDE DEF N, step
      <3> QED BY <1>1, <1>3, <1>4, FoldExists
    <2>1. /\ g \in [SUBSET (1 .. N) -> States]
          /\ g = [s \in SUBSET (1 .. N) |->
                   IF s = {} THEN base ELSE step[<<g[s \ {Max(s)}], parts[Max(s)]>>]]
      <3> HIDE DEF N, step
      <3> QED BY <2>0 DEF IsFold
    <2>2. ASSUME NEW s \in SUBSET (1 .. N), s # {}
          PROVE  step[<<g[s \ {Max(s)}], parts[Max(s)]>>] = After(g[s \ {Max(s)}], parts[Max(s)])
      <3>1. Max(s) \in 1 .. N
        BY <1>1, <2>2, MaxIsThere
      <3>2. parts[Max(s)] \in Seq(S) /\ g[s \ {Max(s)}] \in States
        <4> DEFINE r == s \ {Max(s)}
        <4>1. r \in SUBSET (1 .. N)
          OBVIOUS
        <4> HIDE DEF N, step, r
        <4>2. g[r] \in States
          BY <2>1, <4>1
        <4> QED BY <1>1, <3>1, <4>2 DEF r
      <3> QED BY <3>2
    <2> HIDE DEF step, N
    <2>3. Eq(g)
      BY <1>1, <2>1, <2>2
    <2> QED BY <2>3
  <1>7. Eq(it)
    <2> HIDE DEF Eq
    <2> QED BY <1>6
  <1> HIDE DEF it, step, N, States
  <1> DEFINE out == [n \in 0 .. N |-> it[1 .. n]]
  <1>8. out[0] = base
    <2>1. 1 .. 0 = {}
      OBVIOUS
    <2> QED BY <1>1, <1>7, <2>1
  <1>9. ASSUME NEW n \in 1 .. N PROVE out[n] = After(out[n - 1], parts[n])
    <2>1. Max(1 .. n) = n /\ (1 .. n) \ {n} = 1 .. n - 1 /\ 1 .. n # {}
      <3>1. n \in Nat \ {0}
        BY <1>1
      <3> QED BY <3>1, MaxOfInterval
    <2>2. 1 .. n \in SUBSET (DOMAIN parts) /\ n - 1 \in 0 .. N
      BY <1>1
    <2>3. it[1 .. n] = After(it[(1 .. n) \ {Max(1 .. n)}], parts[Max(1 .. n)])
      BY <1>7, <2>1, <2>2
    <2>4. out[n] = it[1 .. n] /\ out[n - 1] = it[1 .. n - 1]
      BY <2>2
    <2> QED BY <2>1, <2>3, <2>4
  <1>10. AfterAll(base, parts) = out[N]
    BY <1>1, <1>5
  <1> DEFINE G == {n \in 0 .. N : out[n] \in States}
  <1>11. 0 .. N \subseteq G
    <2> HIDE DEF out
    <2>1. 0 \in G
      BY <1>1, <1>4, <1>8
    <2>2. ASSUME NEW n \in 0 .. N - 1, n \in G PROVE n + 1 \in G
      <3>1. n + 1 \in 1 .. N /\ (n + 1) - 1 = n /\ parts[n + 1] \in Seq(S)
        BY <1>1
      <3>2. out[n + 1] = After(out[n], parts[n + 1])
        BY <1>9, <3>1
      <3>3. out[n + 1] \in States
        BY <1>2, <2>2, <3>1, <3>2
      <3> QED BY <3>1, <3>3, <1>1
    <2> HIDE DEF G
    <2> QED BY <1>1, <2>1, <2>2, BoundedInduction
  <1>12. out \in [0 .. N -> States]
    BY <1>11
  <1> HIDE DEF out
  <1> QED BY <1>8, <1>9, <1>10, <1>12 DEF N, States

\* begin tells where each part is in the pattern: how much is before it.
IsSplit(begin, parts, p, n) ==
  /\ begin \in [1 .. Len(parts) -> Nat]
  /\ begin[1] = 0
  /\ begin[Len(parts)] + Len(parts[Len(parts)]) = n
  /\ \A k \in 1 .. Len(parts) : StandsAt(p, begin[k], parts[k])
  /\ \A k \in 1 .. Len(parts) : begin[k] + Len(parts[k]) <= n
  /\ \A k \in 1 .. Len(parts) - 1 :
       begin[k + 1] = begin[k] + Len(parts[k]) + 1 /\ p[begin[k + 1]] = Star

\* The parts are the pattern's, from star to star.
LEMMA SplitIs ==
  ASSUME NEW S, NEW p \in Seq(S)
  PROVE  /\ Split(p) \in Seq(Seq(S)) \ {<<>>}
         /\ \E begin : IsSplit(begin, Split(p), p, Len(p))
  <1>1. PICK out \in [0 .. Len(p) -> Seq(Seq(S)) \ {<<>>}] :
          /\ out[0] = << <<>> >>
          /\ \A n \in 1 .. Len(p) : out[n] = Cut(out[n - 1], p[n])
          /\ Split(p) = out[Len(p)]
    BY SplitLoop
  <1>2. Len(p) \in Nat
    OBVIOUS
  <1> DEFINE N == Len(p)
             G == {n \in 0 .. N : \E begin : IsSplit(begin, out[n], p, n)}
  <1>3. 0 \in G
    <2> DEFINE begin == [k \in 1 .. 1 |-> 0]
               parts == << <<>> >>
    <2>1. Len(parts) = 1 /\ Len(parts[1]) = 0 /\ begin \in [1 .. 1 -> Nat] /\ begin[1] = 0
      OBVIOUS
    <2> HIDE DEF begin, parts
    <2>2. 1 .. 0 = {} /\ 1 .. 1 - 1 = {} /\ \A k \in 1 .. 1 : k = 1
      OBVIOUS
    <2>3. IsSplit(begin, parts, p, 0)
      BY <2>1, <2>2 DEF IsSplit, StandsAt
    <2>4. IsSplit(begin, out[0], p, 0)
      BY <1>1, <2>3 DEF parts
    <2>5. 0 \in 0 .. N
      BY <1>2
    <2> HIDE DEF N
    <2> QED BY <2>4, <2>5
  <1>4. ASSUME NEW n \in 0 .. N - 1, n \in G PROVE n + 1 \in G
    <2> DEFINE parts == out[n]
               next == out[n + 1]
               L == Len(parts)
               c == p[n + 1]
    <2>1. PICK begin : IsSplit(begin, parts, p, n)
      BY <1>4
    <2>2. /\ parts \in Seq(Seq(S)) /\ L \in Nat \ {0} /\ next = Cut(parts, c)
          /\ n \in Nat /\ c \in S /\ n + 1 \in 0 .. N
          /\ L = Len(parts)
          /\ \A k \in 1 .. L : parts[k] \in Seq(S) /\ Len(parts[k]) \in Nat
      <3>1. n + 1 \in 1 .. N /\ n \in 0 .. N /\ (n + 1) - 1 = n
        BY <1>2
      <3>2. parts \in Seq(Seq(S)) /\ parts # <<>>
        BY <1>1, <3>1
      <3>3. L \in Nat \ {0}
        BY <3>2, EmptySeq
      <3>4. next = Cut(parts, c)
        BY <1>1, <3>1
      <3>5. ASSUME NEW k \in 1 .. L PROVE parts[k] \in Seq(S) /\ Len(parts[k]) \in Nat
        <4>1. parts[k] \in Seq(S)
          <5> HIDE DEF parts
          <5> QED BY <3>2
        <4> HIDE DEF parts
        <4> QED BY <4>1, LenProperties
      <3> HIDE DEF parts
      <3> QED BY <1>2, <3>1, <3>2, <3>3, <3>4, <3>5
    <2> HIDE DEF parts, next, L, c, N
    <2>3. /\ begin \in [1 .. L -> Nat] /\ begin[1] = 0
          /\ \A k \in 1 .. L : begin[k] + Len(parts[k]) <= n
          /\ begin[L] + Len(parts[L]) = n
          /\ \A k \in 1 .. L : \A i \in 1 .. Len(parts[k]) :
               parts[k][i] = p[begin[k] + i] /\ parts[k][i] # Star
          /\ \A k \in 1 .. L - 1 :
               begin[k + 1] = begin[k] + Len(parts[k]) + 1 /\ p[begin[k + 1]] = Star
      BY <2>1, <2>2 DEF IsSplit, StandsAt
    <2>4. CASE c = Star
      <3> DEFINE after == [k \in 1 .. L + 1 |-> IF k = L + 1 THEN n + 1 ELSE begin[k]]
      <3>1. next = Append(parts, <<>>)
        BY <2>2, <2>4 DEF Cut
      <3>2. <<>> \in Seq(S)
        OBVIOUS
      <3>3. /\ Len(next) = L + 1 /\ next[L + 1] = <<>> /\ Len(next[L + 1]) = 0
            /\ \A k \in 1 .. L : next[k] = parts[k]
        BY <2>2, <3>1, <3>2, AppendProperties
      <3>4. /\ after \in [1 .. L + 1 -> Nat] /\ after[L + 1] = n + 1
            /\ \A k \in 1 .. L : after[k] = begin[k]
        BY <2>2, <2>3
      <3> HIDE DEF after
      <3>5. after[1] = 0 /\ after[L + 1] + Len(next[L + 1]) = n + 1
        BY <2>2, <2>3, <3>3, <3>4
      <3>6. ASSUME NEW k \in 1 .. L + 1, NEW i \in 1 .. Len(next[k])
            PROVE  next[k][i] = p[after[k] + i] /\ next[k][i] # Star
        <4>1. k # L + 1
          BY <3>3, <3>6
        <4>2. k \in 1 .. L
          BY <2>2, <4>1
        <4> QED BY <2>3, <3>3, <3>4, <3>6, <4>2
      <3>7. ASSUME NEW k \in 1 .. (L + 1) - 1
            PROVE  after[k + 1] = after[k] + Len(next[k]) + 1 /\ p[after[k + 1]] = Star
        <4>1. k \in 1 .. L
          BY <2>2
        <4>2. CASE k = L
          <5>1. Len(parts[L]) \in Nat /\ begin[L] \in Nat
            BY <2>2, <2>3
          <5>2. after[k + 1] = n + 1 /\ after[k] = begin[L] /\ next[k] = parts[L]
            BY <3>3, <3>4, <4>1, <4>2
          <5> QED BY <2>2, <2>3, <2>4, <5>1, <5>2 DEF c
        <4>3. CASE k \in 1 .. L - 1
          <5>1. k + 1 \in 1 .. L
            BY <2>2, <4>3
          <5> QED BY <2>3, <3>3, <3>4, <4>1, <4>3, <5>1
        <4> QED BY <2>2, <4>1, <4>2, <4>3
      <3>8. ASSUME NEW k \in 1 .. L + 1 PROVE after[k] + Len(next[k]) <= n + 1
        <4>1. CASE k = L + 1
          BY <2>2, <3>5, <4>1
        <4>2. CASE k \in 1 .. L
          <5> DEFINE before == begin[k]
                     length == Len(parts[k])
          <5>1. before + length <= n /\ before \in Nat /\ length \in Nat
            BY <2>2, <2>3, <4>2
          <5>2. after[k] = before /\ Len(next[k]) = length
            BY <3>3, <3>4, <4>2
          <5> HIDE DEF before, length
          <5>3. before + length <= n + 1
            BY <2>2, <5>1
          <5> QED BY <5>2, <5>3
        <4> QED BY <2>2, <4>1, <4>2
      <3>9. IsSplit(after, next, p, n + 1)
        BY <3>3, <3>4, <3>5, <3>6, <3>7, <3>8 DEF IsSplit, StandsAt
      <3> QED BY <2>2, <3>9 DEF next
    <2>5. CASE c # Star
      <3> DEFINE l == Len(parts[L])
                 longer == Append(parts[L], c)
      <3>1. /\ parts[L] \in Seq(S) /\ l \in Nat /\ L \in 1 .. L /\ begin[L] \in Nat
            /\ l = Len(parts[L]) /\ L \in Nat \ {0} /\ n \in Nat
        BY <2>2, <2>3
      <3>2. /\ longer \in Seq(S) /\ Len(longer) = l + 1 /\ longer[l + 1] = c
            /\ \A i \in 1 .. l : longer[i] = parts[L][i]
        BY <2>2, <3>1, AppendProperties
      <3>3. next = [parts EXCEPT ![L] = longer]
        BY <2>2, <2>5 DEF Cut
      <3> HIDE DEF longer, l
      <3>9. begin[L] + l = n
        BY <2>3, <3>1
      <3>10. \A i \in 1 .. l : parts[L][i] = p[begin[L] + i] /\ parts[L][i] # Star
        BY <2>3, <3>1
      <3>4. /\ Len(next) = L /\ next[L] = longer
            /\ \A k \in 1 .. L - 1 : next[k] = parts[k]
        <4>1. L \in 1 .. Len(parts)
          BY <2>2, <3>1
        <4>2. /\ Len(next) = L
              /\ \A k \in 1 .. L : next[k] = IF k = L THEN longer ELSE parts[k]
          BY <2>2, <3>2, <3>3, <4>1, ExceptSeq
        <4> QED BY <3>1, <4>2
      <3>5. begin[L] + Len(next[L]) = n + 1
        <4> DEFINE before == begin[L]
                   length == Len(next[L])
        <4>1. length = l + 1 /\ before + l = n /\ before \in Nat /\ l \in Nat
          BY <3>1, <3>2, <3>4, <3>9
        <4> HIDE DEF before, length
        <4>2. before + length = n + 1
          BY <4>1
        <4> QED BY <4>2 DEF before, length
      <3>6. ASSUME NEW k \in 1 .. L, NEW i \in 1 .. Len(next[k])
            PROVE  next[k][i] = p[begin[k] + i] /\ next[k][i] # Star
        <4>1. CASE k \in 1 .. L - 1
          <5>1. k \in 1 .. L /\ next[k] = parts[k]
            BY <3>4, <4>1
          <5> QED BY <2>3, <5>1
        <4>2. CASE k = L /\ i \in 1 .. l
          BY <3>2, <3>4, <3>10, <4>2
        <4>3. CASE k = L /\ i = l + 1
          <5>1. begin[k] + i = n + 1
            BY <3>1, <3>9, <4>3, SMTT(30)
          <5> QED BY <2>5, <3>2, <3>4, <4>3, <5>1 DEF c
        <4> QED BY <2>2, <3>1, <3>2, <3>4, <4>1, <4>2, <4>3, SMTT(30)
      <3>7. \A k \in 1 .. L - 1 :
              begin[k + 1] = begin[k] + Len(next[k]) + 1 /\ p[begin[k + 1]] = Star
        BY <2>3, <3>4
      <3>8. ASSUME NEW k \in 1 .. L PROVE begin[k] + Len(next[k]) <= n + 1
        <4>1. CASE k = L
          BY <3>1, <3>5, <4>1
        <4>2. CASE k \in 1 .. L - 1
          <5> DEFINE before == begin[k]
                     length == Len(parts[k])
          <5>1. before + length <= n /\ before \in Nat /\ length \in Nat
            BY <2>2, <2>3
          <5>2. Len(next[k]) = length
            BY <3>4, <4>2
          <5> HIDE DEF length
          <5>3. begin[k] + length <= n + 1
            <6> HIDE DEF before
            <6>1. before + length <= n + 1
              BY <3>1, <5>1
            <6> QED BY <6>1 DEF before
          <5> QED BY <5>2, <5>3
        <4> QED BY <3>1, <4>1, <4>2
      <3>11. IsSplit(begin, next, p, n + 1)
        BY <2>3, <3>4, <3>5, <3>6, <3>7, <3>8 DEF IsSplit, StandsAt
      <3> QED BY <2>2, <3>11 DEF next
    <2> QED BY <2>4, <2>5
  <1> HIDE DEF G
  <1>5. 0 .. N \subseteq G
    <2>1. N \in Nat
      BY <1>2
    <2> HIDE DEF N
    <2> QED BY <1>3, <1>4, <2>1, BoundedInduction
  <1>6. N \in G
    BY <1>2, <1>5
  <1> QED BY <1>1, <1>2, <1>6 DEF G

\* The part fits in front of the j-th place, behind the e-th.
FitsAt(t, e, part, j) ==
  /\ j - Len(part) >= e
  /\ \A i \in 1 .. Len(part) : t[(j - Len(part)) + i] = part[i]

\* One part further: it is found in what is left, leftmost, or it is not there.
LEMMA AfterIs ==
  ASSUME NEW S, NEW t \in Seq(S), NEW part \in Seq(S), NEW e \in 0 .. Len(t),
         NEW left, left = [matched |-> TRUE, rest |-> SubSeq(t, e + 1, Len(t))]
  PROVE  IF After(left, part).matched
         THEN \E f \in 0 .. Len(t) :
                /\ After(left, part).rest = SubSeq(t, f + 1, Len(t))
                /\ FitsAt(t, e, part, f)
                /\ \A j \in 0 .. Len(t) : FitsAt(t, e, part, j) => f <= j
         ELSE \A j \in 0 .. Len(t) : ~ FitsAt(t, e, part, j)
  <1> DEFINE l == Len(part)
             N == Len(t)
             Fits(j) == j - l >= e /\ \A i \in 1 .. l : t[(j - l) + i] = part[i]
             next == After(left, part)
             rest == SubSeq(t, e + 1, N)
             places == Places(rest, part)
  <1>1. l \in Nat /\ N \in Nat /\ e \in Nat /\ e <= N
    OBVIOUS
  <1>2. /\ rest \in Seq(S) /\ Len(rest) = N - e
        /\ \A i \in 1 .. N - e : rest[i] = t[e + i]
    <2>1. e + 1 \in 1 .. N + 1 /\ N \in (e + 1) - 1 .. N
      BY <1>1
    <2>2. rest \in Seq(S) /\ Len(rest) = (N - (e + 1)) + 1
      BY <2>1, SubSeqProperties
    <2>3. \A i \in 1 .. (N - (e + 1)) + 1 : rest[i] = t[(e + 1) + i - 1]
      BY <2>1, SubSeqProperties
    <2> HIDE DEF rest, N
    <2>4. (N - (e + 1)) + 1 = N - e
      BY <1>1
    <2>5. ASSUME NEW i \in 1 .. N - e PROVE rest[i] = t[e + i]
      <3>1. (e + 1) + i - 1 = e + i
        BY <1>1
      <3> QED BY <2>3, <2>4, <3>1
    <2> QED BY <2>2, <2>4, <2>5
  <1>3. ASSUME NEW i \in 0 .. (N - e) - l
        PROVE  i \in places <=> Fits(e + i + l)
    <2>1. i + 1 \in 1 .. Len(rest) + 1 /\ i + l \in (i + 1) - 1 .. Len(rest)
      <3> HIDE DEF rest, N, l
      <3>1. i + 1 \in 1 .. (N - e) + 1 /\ i + l \in (i + 1) - 1 .. N - e
        BY <1>1
      <3> QED BY <1>2, <3>1
    <2> DEFINE run == SubSeq(rest, i + 1, i + l)
    <2>2. /\ run \in Seq(S) /\ Len(run) = l
          /\ \A k \in 1 .. l : run[k] = t[e + i + k]
      <3>1. /\ run \in Seq(S) /\ Len(run) = ((i + l) - (i + 1)) + 1
            /\ \A k \in 1 .. ((i + l) - (i + 1)) + 1 : run[k] = rest[(i + 1) + k - 1]
        <4> HIDE DEF rest, N, l
        <4> QED BY <1>2, <2>1, SubSeqProperties
      <3> HIDE DEF run, rest, N, l
      <3>2. ((i + l) - (i + 1)) + 1 = l
        BY <1>1
      <3>3. ASSUME NEW k \in 1 .. l PROVE run[k] = t[e + i + k]
        <4>1. (i + 1) + k - 1 = i + k /\ i + k \in 1 .. N - e /\ e + (i + k) = e + i + k
          BY <1>1
        <4> QED BY <1>2, <3>1, <3>2, <4>1
      <3> QED BY <3>1, <3>2, <3>3
    <2>3. run = part <=> \A k \in 1 .. l : run[k] = part[k]
      <3>1. ASSUME \A k \in 1 .. l : run[k] = part[k] PROVE run = part
        <4> HIDE DEF run
        <4> QED BY <2>2, <3>1, SeqEqual
      <3> QED BY <3>1
    <2>4. i \in places <=> run = part
      <3>1. i \in 0 .. Len(rest) - Len(part)
        <4> HIDE DEF rest, N
        <4> QED BY <1>2
      <3> QED BY <3>1 DEF Places
    <2>5. (e + i + l) - l = e + i /\ e + i >= e
      BY <1>1
    <2> HIDE DEF run, rest, N, l, places
    <2> QED BY <2>2, <2>3, <2>4, <2>5
  <1>4. places \subseteq 0 .. (N - e) - l
    <2> HIDE DEF rest, N
    <2> QED BY <1>2 DEF Places
  <1>5. ASSUME NEW j \in 0 .. N, Fits(j)
        PROVE  (j - l) - e \in places
    <2>1. (j - l) - e \in 0 .. (N - e) - l /\ e + ((j - l) - e) + l = j
      <3>1. j - l >= e
        BY <1>5
      <3> HIDE DEF rest, N, l, Fits
      <3> QED BY <1>1, <3>1
    <2> HIDE DEF rest, N, l, places, Fits
    <2> QED BY <1>3, <1>5, <2>1
  <1>6. left.matched /\ left.rest = rest
    OBVIOUS
  <1> HIDE DEF rest, N, l, places, Fits
  <1>7. CASE places = {}
    <2>1. next = NoMatch /\ ~ next.matched
      BY <1>6, <1>7 DEF After, places, NoMatch
    <2>2. \A j \in 0 .. N : ~ Fits(j)
      BY <1>5, <1>7
    <2> QED BY <2>1, <2>2 DEF Fits, N, l, FitsAt
  <1>8. CASE places # {}
    <2> DEFINE first == CHOOSE i \in places : \A j \in places : i <= j
    <2>1. places \in SUBSET Nat
      BY <1>1, <1>4
    <2>2. first \in places /\ \A j \in places : first <= j
      <3>1. \E i \in places : \A j \in places : i <= j
        BY <1>8, <2>1, LeastIsThere
      <3> QED BY <3>1
    <2>3. next = [matched |-> TRUE, rest |-> SubSeq(rest, first + l + 1, Len(rest))]
      BY <1>6, <1>8 DEF After, places, l
    <2> HIDE DEF first, next
    <2> DEFINE f == e + first + l
    <2>4. /\ first \in 0 .. (N - e) - l /\ first \in Nat
          /\ f \in 0 .. N
      BY <1>1, <1>4, <2>2
    <2>5. Fits(f)
      BY <1>3, <2>2, <2>4
    <2>6. ASSUME NEW j \in 0 .. N, Fits(j) PROVE f <= j
      <3>1. first <= (j - l) - e
        BY <1>5, <2>2, <2>6
      <3> QED BY <1>1, <2>4, <3>1
    <2>7. SubSeq(rest, first + l + 1, Len(rest)) = SubSeq(t, f + 1, N)
      <3> DEFINE i == first + l + 1
                 r == Len(rest)
                 a == SubSeq(rest, i, r)
                 b == SubSeq(t, f + 1, N)
      <3>1. first + l + 1 \in 1 .. Len(rest) + 1
            /\ Len(rest) \in (first + l + 1) - 1 .. Len(rest)
        <4>1. Len(rest) = N - e
          BY <1>2
        <4> HIDE DEF i, r, a, b, f
        <4> QED BY <1>1, <2>4, <4>1, SMTT(30)
      <3>2. f + 1 \in 1 .. N + 1 /\ N \in (f + 1) - 1 .. N
        BY <1>1, <2>4
      <3>3. /\ a \in Seq(S) /\ Len(a) = (r - i) + 1
            /\ \A k \in 1 .. (r - i) + 1 : a[k] = rest[i + k - 1]
        <4>1. i \in 1 .. r + 1 /\ r \in i - 1 .. r
          BY <3>1
        <4>2. r \in Int /\ i \in Int /\ i <= r + 1
          BY <1>1, <1>2, <4>1
        <4>3. ASSUME NEW x \in i .. r PROVE rest[x] \in S
          <5>1. x \in 1 .. r
            BY <4>1, <4>2
          <5> QED BY <1>2, <5>1
        <4> HIDE DEF i, r
        <4>4. /\ a \in Seq(S) /\ Len(a) = (IF i <= r THEN r - i + 1 ELSE 0)
              /\ \A k \in 1 .. r - i + 1 : a[k] = rest[i + k - 1]
          BY <4>2, <4>3, SubSeqProperties
        <4> HIDE DEF a
        <4> QED BY <4>2, <4>4
      <3>4. /\ b \in Seq(S) /\ Len(b) = (N - (f + 1)) + 1
            /\ \A k \in 1 .. (N - (f + 1)) + 1 : b[k] = t[(f + 1) + k - 1]
        BY <3>2, SubSeqProperties DEF N
      <3>5. Len(a) = N - f /\ Len(b) = N - f /\ N - f \in Nat
        <4>1. r = N - e
          BY <1>2
        <4>2. (r - i) + 1 = N - f /\ (N - (f + 1)) + 1 = N - f /\ N - f \in Nat
          <5> HIDE DEF r
          <5> QED BY <1>1, <2>4, <4>1
        <4> HIDE DEF a, b, r, i, f
        <4> QED BY <3>3, <3>4, <4>2
      <3>6. ASSUME NEW k \in 1 .. N - f PROVE a[k] = b[k]
        <4>1. (f + 1) + k - 1 = f + k /\ (first + l + 1) + k - 1 = first + l + k
          BY <1>1, <2>4
        <4>2. first + l + k \in 1 .. N - e /\ e + (first + l + k) = f + k
          BY <1>1, <2>4
        <4>3. a[k] = rest[first + l + k]
          <5> HIDE DEF a, b
          <5> QED BY <3>3, <3>5, <4>1
        <4>4. b[k] = t[f + k]
          <5> HIDE DEF a, b
          <5> QED BY <3>4, <3>5, <4>1
        <4> HIDE DEF a, b
        <4> QED BY <1>2, <4>2, <4>3, <4>4
      <3> HIDE DEF a, b
      <3>7. a = b
        BY <3>3, <3>4, <3>5, <3>6, SeqEqual
      <3> QED BY <3>7 DEF a, b
    <2>8. next.matched /\ next.rest = SubSeq(t, f + 1, N)
      BY <2>3, <2>7
    <2> HIDE DEF f
    <2> QED BY <2>4, <2>5, <2>6, <2>8 DEF Fits, N, l, next, FitsAt
  <1> QED BY <1>7, <1>8

\* A star and the run after it: as far behind as the star likes.
LEMMA ReachStarPart ==
  ASSUME NEW S, NEW p \in Seq(S), NEW t \in Seq(S), NEW part \in Seq(S),
         NEW n \in Nat, NEW m, m = n + 1 + Len(part), m <= Len(p), p[n + 1] = Star,
         StandsAt(p, n + 1, part),
         NEW j \in 0 .. Len(t)
  PROVE  Reach(p, t, m, j) <=>
           /\ \E i \in 0 .. j - Len(part) : Reach(p, t, n, i)
           /\ \A i \in 1 .. Len(part) : t[(j - Len(part)) + i] = part[i]
  <1> DEFINE l == Len(part)
             b == n + 1
  <1>1. l \in Nat /\ b \in Nat /\ m = b + l /\ m <= Len(p) /\ n \in 0 .. Len(p) - 1
    BY LenProperties
  <1>2. StandsAt(p, b, part)
    OBVIOUS
  <1> HIDE DEF l, b
  <1>4. Reach(p, t, m, j) <=>
          j >= l /\ Reach(p, t, b, j - l) /\ \A i \in 1 .. l : t[(j - l) + i] = part[i]
    BY <1>1, <1>2, ReachPart DEF l
  <1>5. ASSUME j >= l PROVE Reach(p, t, b, j - l) <=> \E i \in 0 .. j - l : Reach(p, t, n, i)
    <2>1. j - l \in 0 .. Len(t)
      BY <1>1, <1>5
    <2>2. b \in 1 .. Len(p) /\ b - 1 = n /\ p[b] = Star
      BY <1>1 DEF b
    <2> QED BY <1>1, <2>1, <2>2, ReachSteps
  <1>6. ~ (j >= l) => 0 .. j - l = {}
    BY <1>1
  <1>7. Reach(p, t, m, j) <=>
           /\ \E i \in 0 .. j - l : Reach(p, t, n, i)
           /\ \A i \in 1 .. l : t[(j - l) + i] = part[i]
    BY <1>4, <1>5, <1>6
  <1> QED BY <1>7 DEF l

\* What is left of the text when n characters of the pattern are matched as
\* early as they can be; or there is no match.
Leftmost(left, p, t, n) ==
  IF left.matched
  THEN \E e \in 0 .. Len(t) :
         /\ left.rest = SubSeq(t, e + 1, Len(t))
         /\ Reach(p, t, n, e)
         /\ \A j \in 0 .. Len(t) : Reach(p, t, n, j) => e <= j
  ELSE \A j \in 0 .. Len(t) : ~ Reach(p, t, n, j)

States(S) == [matched : BOOLEAN, rest : Seq(S)]

\* The first part is where the text begins.
LEMMA FirstIsLeftmost ==
  ASSUME NEW S, NEW p \in Seq(S), NEW t \in Seq(S), NEW part \in Seq(S),
         Len(part) <= Len(p), StandsAt(p, 0, part)
  PROVE  LET left == [matched |-> IsPrefix(part, t),
                      rest |-> SubSeq(t, Len(part) + 1, Len(t))]
         IN  left \in States(S) /\ Leftmost(left, p, t, Len(part))
  <1> DEFINE l == Len(part)
             N == Len(t)
             rest == SubSeq(t, l + 1, N)
             left == [matched |-> IsPrefix(part, t), rest |-> rest]
  <1>1. l \in Nat /\ N \in Nat /\ Len(p) \in Nat
    BY LenProperties
  <1>2. IsPrefix(part, t) <=> l <= N /\ \A i \in 1 .. l : t[i] = part[i]
    <2> DEFINE a == SubSeq(part, 1, l)
               b == SubSeq(t, 1, l)
    <2>0. IsPrefix(part, t) <=> l <= N /\ a = b
      BY DEF IsPrefix
    <2>1. ASSUME l <= N PROVE a = b <=> \A i \in 1 .. l : t[i] = part[i]
      <3> HIDE DEF l
      <3>1. \A i \in 1 .. l : part[i] \in S /\ t[i] \in S
        BY <1>1, <2>1 DEF l
      <3>2. /\ a \in Seq(S) /\ b \in Seq(S) /\ Len(a) = l /\ Len(b) = l
            /\ \A i \in 1 .. l : a[i] = part[i] /\ b[i] = t[i]
        <4>1. l - 1 + 1 = l /\ (IF 1 <= l THEN l - 1 + 1 ELSE 0) = l
              /\ \A i \in 1 .. l : 1 + i - 1 = i
          BY <1>1
        <4>2. /\ a \in Seq(S) /\ Len(a) = (IF 1 <= l THEN l - 1 + 1 ELSE 0)
              /\ \A i \in 1 .. l - 1 + 1 : a[i] = part[1 + i - 1]
          BY <1>1, <3>1, SubSeqProperties
        <4>3. /\ b \in Seq(S) /\ Len(b) = (IF 1 <= l THEN l - 1 + 1 ELSE 0)
              /\ \A i \in 1 .. l - 1 + 1 : b[i] = t[1 + i - 1]
          BY <1>1, <3>1, SubSeqProperties
        <4> HIDE DEF a, b
        <4> QED BY <4>1, <4>2, <4>3
      <3> HIDE DEF a, b
      <3>3. ASSUME \A i \in 1 .. l : t[i] = part[i] PROVE a = b
        BY <3>2, <3>3, SeqEqual
      <3>4. ASSUME a = b PROVE \A i \in 1 .. l : t[i] = part[i]
        BY <3>2, <3>4
      <3> QED BY <3>3, <3>4
    <2> HIDE DEF a, b
    <2> QED BY <2>0, <2>1
  <1>3. left \in States(S)
    <2>1. IsPrefix(part, t) \in BOOLEAN
      BY DEF IsPrefix
    <2>2. rest \in Seq(S)
      <3>1. \A i \in l + 1 .. N : t[i] \in S
        BY <1>1
      <3> HIDE DEF l, N
      <3>2. l + 1 \in Int /\ N \in Int
        BY <1>1
      <3> QED BY <3>1, <3>2, SubSeqProperties
    <2> QED BY <2>1, <2>2 DEF States
  <1>4. ASSUME NEW j \in 0 .. N
        PROVE  Reach(p, t, l, j) <=> j = l /\ \A i \in 1 .. l : t[i] = part[i]
    <2>2. Reach(p, t, l, j) <=>
            j >= l /\ Reach(p, t, 0, j - l) /\ \A i \in 1 .. l : t[(j - l) + i] = part[i]
      <3>1. l = 0 + l /\ 0 \in Nat
        BY <1>1
      <3> QED BY <3>1, ReachPart
    <2> HIDE DEF l
    <2>3. j >= l => (Reach(p, t, 0, j - l) <=> j = l)
      <3>1. ASSUME j >= l PROVE j - l \in 0 .. Len(t) /\ (j - l = 0 <=> j = l)
        BY <1>1, <3>1
      <3> QED BY <1>1, <3>1, ReachSteps
    <2>4. CASE j = l
      <3>1. ASSUME NEW i \in 1 .. l PROVE (j - l) + i = i
        BY <1>1, <2>4
      <3>2. j >= l
        BY <1>1, <2>4
      <3> QED BY <2>2, <2>3, <2>4, <3>1, <3>2
    <2>5. CASE j # l
      BY <2>2, <2>3, <2>5
    <2> QED BY <2>4, <2>5
  <1> HIDE DEF rest
  <1>5. Leftmost(left, p, t, l)
    <2> HIDE DEF l, N
    <2>1. left.matched = IsPrefix(part, t) /\ left.rest = rest
      OBVIOUS
    <2>2. CASE IsPrefix(part, t)
      <3>1. l \in 0 .. N /\ \A i \in 1 .. l : t[i] = part[i]
        BY <1>1, <1>2, <2>2
      <3>2. Reach(p, t, l, l) /\ \A j \in 0 .. N : Reach(p, t, l, j) => l <= j
        BY <1>1, <1>4, <3>1
      <3> HIDE DEF left
      <3> QED BY <2>1, <2>2, <3>1, <3>2 DEF Leftmost, N, rest
    <2>3. CASE ~ IsPrefix(part, t)
      <3>1. \A j \in 0 .. N : ~ Reach(p, t, l, j)
        BY <1>1, <1>2, <1>4, <2>3
      <3> HIDE DEF left
      <3> QED BY <2>1, <2>3, <3>1 DEF Leftmost, N
    <2> QED BY <2>2, <2>3
  <1> QED BY <1>3, <1>5 DEF rest

\* And so is every part after a star.
LEMMA NextIsLeftmost ==
  ASSUME NEW S, NEW p \in Seq(S), NEW t \in Seq(S), NEW part \in Seq(S),
         NEW n \in Nat, NEW m, m = n + 1 + Len(part), m <= Len(p), p[n + 1] = Star,
         StandsAt(p, n + 1, part),
         NEW left \in States(S), Leftmost(left, p, t, n)
  PROVE  Leftmost(After(left, part), p, t, m)
  <1> DEFINE l == Len(part)
             next == After(left, part)
  <1>1. l \in Nat /\ m \in Nat /\ Len(t) \in Nat
    BY LenProperties
  <1>2. \A j \in 0 .. Len(t) :
          Reach(p, t, m, j) <=>
           /\ \E i \in 0 .. j - l : Reach(p, t, n, i)
           /\ \A i \in 1 .. l : t[(j - l) + i] = part[i]
    BY ReachStarPart
  <1>3. CASE ~ left.matched
    <2>1. ~ next.matched
      BY <1>3 DEF After, NoMatch
    <2>2. \A j \in 0 .. Len(t) : ~ Reach(p, t, n, j)
      BY <1>3 DEF Leftmost
    <2>3. ASSUME NEW j \in 0 .. Len(t) PROVE ~ Reach(p, t, m, j)
      <3>1. \A i \in 0 .. j - l : i \in 0 .. Len(t)
        BY <1>1
      <3> HIDE DEF l
      <3> QED BY <1>2, <2>2, <3>1
    <2> HIDE DEF next
    <2>4. Leftmost(next, p, t, m)
      BY <2>1, <2>3 DEF Leftmost
    <2> QED BY <2>4 DEF next
  <1>4. CASE left.matched
    <2>1. PICK e \in 0 .. Len(t) :
            /\ left.rest = SubSeq(t, e + 1, Len(t))
            /\ Reach(p, t, n, e)
            /\ \A j \in 0 .. Len(t) : Reach(p, t, n, j) => e <= j
      BY <1>4 DEF Leftmost
    <2>2. left = [matched |-> TRUE, rest |-> SubSeq(t, e + 1, Len(t))]
      <3>1. left.matched = TRUE
        BY <1>4 DEF States
      <3> QED BY <2>1, <3>1 DEF States
    <2>3. IF next.matched
          THEN \E f \in 0 .. Len(t) :
                 /\ next.rest = SubSeq(t, f + 1, Len(t))
                 /\ FitsAt(t, e, part, f)
                 /\ \A j \in 0 .. Len(t) : FitsAt(t, e, part, j) => f <= j
          ELSE \A j \in 0 .. Len(t) : ~ FitsAt(t, e, part, j)
      BY <2>2, AfterIs
    <2>4. ASSUME NEW j \in 0 .. Len(t) PROVE Reach(p, t, m, j) <=> FitsAt(t, e, part, j)
      <3>1. (\E i \in 0 .. j - l : Reach(p, t, n, i)) <=> j - l >= e
        <4>1. ASSUME NEW i \in 0 .. j - l, Reach(p, t, n, i) PROVE j - l >= e
          <5>1. i \in 0 .. Len(t) /\ e <= i
            BY <1>1, <2>1, <4>1
          <5> HIDE DEF l
          <5> QED BY <1>1, <5>1
        <4>2. ASSUME j - l >= e PROVE e \in 0 .. j - l
          <5> HIDE DEF l
          <5> QED BY <1>1, <4>2
        <4> QED BY <2>1, <4>1, <4>2
      <3> QED BY <1>2, <3>1 DEF FitsAt
    <2> HIDE DEF next
    <2>5. Leftmost(next, p, t, m)
      BY <2>3, <2>4 DEF Leftmost
    <2> QED BY <2>5 DEF next
  <1> QED BY <1>3, <1>4

\* So the matcher finds the leftmost place, over the whole pattern.
LEMMA GlobLoop ==
  ASSUME NEW S, NEW p \in Seq(S), NEW t \in Seq(S)
  PROVE  LET parts == Split(p)
             L == Len(parts)
         IN  /\ parts \in Seq(Seq(S)) /\ L \in Nat \ {0}
             /\ \E begin : IsSplit(begin, parts, p, Len(p))
             /\ \E left \in States(S) :
                  /\ Leftmost(left, p, t, Len(p))
                  /\ Glob(p, t) <=> /\ left.matched
                                    /\ left.rest = <<>> \/ (L > 1 /\ parts[L] = <<>>)
  <1> DEFINE parts == Split(p)
             L == Len(parts)
             first == parts[1]
             base == [matched |-> IsPrefix(first, t),
                      rest |-> SubSeq(t, Len(first) + 1, Len(t))]
             others == Tail(parts)
  <1>1. parts \in Seq(Seq(S)) /\ L \in Nat \ {0}
    <2>1. parts \in Seq(Seq(S)) /\ parts # <<>>
      BY SplitIs
    <2> HIDE DEF parts
    <2> QED BY <2>1, EmptySeq
  <1>2. PICK begin : IsSplit(begin, parts, p, Len(p))
    BY SplitIs
  <1>3. /\ begin \in [1 .. L -> Nat] /\ begin[1] = 0
        /\ begin[L] + Len(parts[L]) = Len(p)
        /\ \A k \in 1 .. L : StandsAt(p, begin[k], parts[k])
        /\ \A k \in 1 .. L : begin[k] + Len(parts[k]) <= Len(p)
        /\ \A k \in 1 .. L - 1 :
             begin[k + 1] = begin[k] + Len(parts[k]) + 1 /\ p[begin[k + 1]] = Star
    <2> HIDE DEF parts
    <2> QED BY <1>2 DEF IsSplit
  <1>4. ASSUME NEW k \in 1 .. L PROVE parts[k] \in Seq(S) /\ Len(parts[k]) \in Nat
    <2>1. parts[k] \in Seq(S)
      <3> HIDE DEF parts
      <3> QED BY <1>1
    <2> HIDE DEF parts
    <2> QED BY <2>1, LenProperties
  <1>5. Len(p) \in Nat
    OBVIOUS
  <1>6. Glob(p, t) = LET left == AfterAll(base, others)
                     IN  left.matched /\ (left.rest = <<>> \/ (L > 1 /\ Last(parts) = <<>>))
    BY DEF Glob
  <1> HIDE DEF parts
  <1>7. Last(parts) = parts[L]
    BY DEF Last
  <1>8. others \in Seq(Seq(S)) /\ Len(others) = L - 1
        /\ \A k \in 1 .. L - 1 : others[k] = parts[k + 1]
    <2>1. parts # <<>>
      BY <1>1
    <2> QED BY <1>1, <2>1, HeadTailProperties
  <1>9. base \in States(S) /\ Leftmost(base, p, t, Len(first))
    <2>1. 1 \in 1 .. L
      BY <1>1
    <2>2. Len(first) <= Len(p) /\ StandsAt(p, 0, first) /\ first \in Seq(S)
      <3> DEFINE length == Len(first)
      <3>1. length \in Nat /\ begin[1] = 0 /\ begin[1] + length <= Len(p)
        BY <1>3, <1>4, <2>1
      <3>2. length <= Len(p)
        <4> HIDE DEF length
        <4> QED BY <1>5, <3>1
      <3> QED BY <1>3, <1>4, <2>1, <3>2
    <2> HIDE DEF first
    <2> QED BY <2>2, FirstIsLeftmost
  <1> HIDE DEF base, others
  <1>10. PICK out \in [0 .. L - 1 -> States(S)] :
           /\ out[0] = base
           /\ \A n \in 1 .. L - 1 : out[n] = After(out[n - 1], others[n])
           /\ AfterAll(base, others) = out[L - 1]
    <2>1. base \in [matched : BOOLEAN, rest : Seq(S)]
      BY <1>9 DEF States
    <2>2. \E out \in [0 .. Len(others) -> [matched : BOOLEAN, rest : Seq(S)]] :
           /\ out[0] = base
           /\ \A n \in 1 .. Len(others) : out[n] = After(out[n - 1], others[n])
           /\ AfterAll(base, others) = out[Len(others)]
      BY <1>8, <2>1, AfterLoop
    <2> QED BY <1>8, <2>2 DEF States
  <1> DEFINE Matched(k) == Leftmost(out[k], p, t, begin[k + 1] + Len(parts[k + 1]))
             G == {k \in 0 .. L - 1 : Matched(k)}
  <1>11. 0 \in G
    <2>1. begin[0 + 1] + Len(parts[0 + 1]) = Len(first)
      <3> DEFINE length == Len(parts[1])
      <3>1. length \in Nat /\ begin[1] = 0
        BY <1>1, <1>3, <1>4
      <3> HIDE DEF length
      <3>2. begin[1] + length = length
        BY <3>1
      <3> QED BY <3>2 DEF length
    <2> HIDE DEF first
    <2> QED BY <1>1, <1>9, <1>10, <2>1
  <1>12. ASSUME NEW k \in 0 .. (L - 1) - 1, k \in G PROVE k + 1 \in G
    <2> DEFINE part == parts[k + 2]
               n == begin[k + 1] + Len(parts[k + 1])
               m == begin[k + 2] + Len(part)
    <2>1. /\ k + 1 \in 1 .. L - 1 /\ k + 1 \in 1 .. L /\ k + 2 \in 1 .. L
          /\ (k + 1) + 1 = k + 2 /\ (k + 1) - 1 = k /\ k \in 0 .. L - 1
      BY <1>1
    <2>2. /\ part \in Seq(S) /\ Len(part) \in Nat
          /\ n \in Nat /\ m \in Nat /\ begin[k + 2] \in Nat
      <3>1. /\ begin[k + 1] \in Nat /\ begin[k + 2] \in Nat
            /\ Len(parts[k + 1]) \in Nat /\ Len(part) \in Nat /\ part \in Seq(S)
        BY <1>3, <1>4, <2>1
      <3>2. \A x, y \in Nat : x + y \in Nat
        OBVIOUS
      <3> HIDE DEF part
      <3> QED BY <3>1, <3>2, SMTT(30)
    <2>3. begin[k + 2] = n + 1 /\ p[n + 1] = Star /\ m <= Len(p)
      BY <1>3, <2>1
    <2>4. StandsAt(p, n + 1, part)
      <3>1. StandsAt(p, begin[k + 2], part)
        BY <1>3, <2>1
      <3> HIDE DEF n, part
      <3> QED BY <2>3, <3>1
    <2>5. m = n + 1 + Len(part)
      <3> DEFINE length == Len(part)
      <3>1. m = begin[k + 2] + length
        OBVIOUS
      <3> HIDE DEF n, m, length
      <3> QED BY <2>3, <3>1 DEF length
    <2>6. out[k + 1] = After(out[k], part) /\ out[k] \in States(S) /\ Leftmost(out[k], p, t, n)
      <3>1. out[k + 1] = After(out[k], others[k + 1])
        BY <1>10, <2>1
      <3>2. others[k + 1] = part
        BY <1>8, <2>1
      <3> QED BY <1>10, <1>12, <2>1, <3>1, <3>2
    <2>7. Leftmost(out[k + 1], p, t, m)
      <3>1. Leftmost(After(out[k], part), p, t, m)
        <4> HIDE DEF part, n, m
        <4> QED BY <2>2, <2>3, <2>4, <2>5, <2>6, NextIsLeftmost
      <3> QED BY <2>6, <3>1
    <2> QED BY <2>1, <2>7
  <1> HIDE DEF G
  <1>13. 0 .. L - 1 \subseteq G
    <2>1. L - 1 \in Nat
      BY <1>1
    <2> HIDE DEF L
    <2> QED BY <1>11, <1>12, <2>1, BoundedInduction
  <1>14. Leftmost(out[L - 1], p, t, Len(p)) /\ out[L - 1] \in States(S)
    <2>1. L - 1 \in 0 .. L - 1 /\ (L - 1) + 1 = L
      BY <1>1
    <2>2. Matched(L - 1)
      BY <1>13, <2>1 DEF G
    <2> QED BY <1>3, <1>10, <2>1, <2>2
  <1>15. Glob(p, t) <=> /\ out[L - 1].matched
                        /\ out[L - 1].rest = <<>> \/ (L > 1 /\ parts[L] = <<>>)
    BY <1>6, <1>7, <1>10
  <1> QED BY <1>1, <1>2, <1>14, <1>15 DEF parts

\* What is documented is that the pattern makes the text.
LEMMA MeansReaches ==
  ASSUME NEW S, NEW p \in Seq(S), NEW t \in Seq(S)
  PROVE  GlobMeans(p, t) <=> Reach(p, t, Len(p), Len(t))
  BY DEF GlobMeans, Reach

\* The matcher never says that a pattern matches a text it does not mean
\* (policy.rs:107-132), for every pattern and every text.
THEOREM GlobIsSound ==
  ASSUME NEW S, NEW p \in Seq(S), NEW t \in Seq(S), Glob(p, t)
  PROVE  GlobMeans(p, t)
  <1> DEFINE parts == Split(p)
             L == Len(parts)
             N == Len(t)
  <1>1. /\ parts \in Seq(Seq(S)) /\ L \in Nat \ {0} /\ N \in Nat /\ Len(p) \in Nat
        /\ \E begin : IsSplit(begin, parts, p, Len(p))
    BY GlobLoop
  <1>2. PICK left \in States(S) :
          /\ Leftmost(left, p, t, Len(p))
          /\ Glob(p, t) <=> /\ left.matched
                            /\ left.rest = <<>> \/ (L > 1 /\ parts[L] = <<>>)
    BY GlobLoop
  <1> HIDE DEF parts
  <1>3. left.matched /\ (left.rest = <<>> \/ (L > 1 /\ parts[L] = <<>>))
    BY <1>2
  <1>4. PICK e \in 0 .. N : left.rest = SubSeq(t, e + 1, N) /\ Reach(p, t, Len(p), e)
    BY <1>2, <1>3 DEF Leftmost
  <1>5. CASE left.rest = <<>>
    <2>1. e = N
      <3>1. ASSUME e < N PROVE FALSE
        <4>1. \A i \in e + 1 .. N : t[i] \in S
          BY <1>1
        <4> HIDE DEF N
        <4>2. e + 1 \in Int /\ N \in Int /\ e + 1 <= N
          BY <1>1, <3>1
        <4>3. Len(left.rest) = N - (e + 1) + 1
          BY <1>4, <4>1, <4>2, SubSeqProperties
        <4>4. Len(left.rest) = 0
          BY <1>5
        <4> QED BY <1>1, <3>1, <4>3, <4>4
      <3> HIDE DEF N
      <3> QED BY <1>1, <3>1
    <2> QED BY <1>4, <2>1, MeansReaches
  <1>6. CASE L > 1 /\ parts[L] = <<>>
    <2>1. PICK begin : IsSplit(begin, parts, p, Len(p))
      BY <1>1
    <2>2. /\ begin \in [1 .. L -> Nat] /\ begin[L] + Len(parts[L]) = Len(p)
          /\ \A k \in 1 .. L - 1 :
               begin[k + 1] = begin[k] + Len(parts[k]) + 1 /\ p[begin[k + 1]] = Star
      BY <2>1 DEF IsSplit
    <2>3. L - 1 \in 1 .. L - 1 /\ L - 1 \in 1 .. L /\ (L - 1) + 1 = L /\ L \in 1 .. L
      BY <1>1, <1>6
    <2>4. begin[L] = Len(p)
      <3>1. begin[L] \in Nat /\ Len(parts[L]) = 0
        BY <1>6, <2>2, <2>3
      <3> QED BY <2>2, <3>1
    <2>5. p[Len(p)] = Star /\ Len(p) \in 1 .. Len(p)
      <3>1. /\ begin[L] = begin[L - 1] + Len(parts[L - 1]) + 1 /\ p[begin[L]] = Star
            /\ begin[L - 1] \in Nat
        BY <2>2, <2>3
      <3>2. Len(parts[L - 1]) \in Nat
        <4>1. parts[L - 1] \in Seq(S)
          BY <1>1, <2>3
        <4> QED BY <4>1, LenProperties
      <3>3. Len(p) > 0
        <4> DEFINE length == Len(parts[L - 1])
        <4>1. Len(p) = begin[L - 1] + length + 1 /\ length \in Nat
          BY <2>4, <3>1, <3>2
        <4> HIDE DEF length
        <4> QED BY <3>1, <4>1
      <3> QED BY <1>1, <2>4, <3>1, <3>3
    <2>6. \A j \in 0 .. N : Reach(p, t, Len(p), j) <=> \E i \in 0 .. j : Reach(p, t, Len(p) - 1, i)
      BY <2>5, ReachSteps
    <2>7. PICK i \in 0 .. e : Reach(p, t, Len(p) - 1, i)
      BY <1>4, <2>6
    <2>8. i \in 0 .. N /\ N \in 0 .. N
      BY <1>1
    <2>9. Reach(p, t, Len(p), N)
      BY <2>6, <2>7, <2>8
    <2> QED BY <2>9, MeansReaches
  <1> QED BY <1>3, <1>5, <1>6

\* And where the pattern has no star, or ends in one, it says so of every text
\* that the pattern means; only a pattern that goes on after its last star can
\* miss one.
THEOREM GlobIsExact ==
  ASSUME NEW S, NEW p \in Seq(S), NEW t \in Seq(S),
         (\A i \in 1 .. Len(p) : p[i] # Star) \/ p[Len(p)] = Star
  PROVE  Glob(p, t) <=> GlobMeans(p, t)
  <1> DEFINE parts == Split(p)
             L == Len(parts)
             N == Len(t)
  <1>1. /\ parts \in Seq(Seq(S)) /\ L \in Nat \ {0} /\ N \in Nat /\ Len(p) \in Nat
        /\ \E begin : IsSplit(begin, parts, p, Len(p))
    BY GlobLoop
  <1>2. PICK left \in States(S) :
          /\ Leftmost(left, p, t, Len(p))
          /\ Glob(p, t) <=> /\ left.matched
                            /\ left.rest = <<>> \/ (L > 1 /\ parts[L] = <<>>)
    BY GlobLoop
  <1> HIDE DEF parts
  <1>3. SUFFICES ASSUME Reach(p, t, Len(p), N) PROVE Glob(p, t)
    BY GlobIsSound, MeansReaches
  <1>4. N \in 0 .. N
    BY <1>1
  <1>5. left.matched
    BY <1>2, <1>3, <1>4 DEF Leftmost
  <1>6. PICK e \in 0 .. N :
          left.rest = SubSeq(t, e + 1, N) /\ Reach(p, t, Len(p), e)
    BY <1>2, <1>5 DEF Leftmost
  <1>7. PICK begin : IsSplit(begin, parts, p, Len(p))
    BY <1>1
  <1>8. /\ begin \in [1 .. L -> Nat] /\ begin[1] = 0
        /\ begin[L] + Len(parts[L]) = Len(p)
        /\ \A k \in 1 .. L : StandsAt(p, begin[k], parts[k])
        /\ \A k \in 1 .. L : begin[k] + Len(parts[k]) <= Len(p)
        /\ \A k \in 1 .. L - 1 :
             begin[k + 1] = begin[k] + Len(parts[k]) + 1 /\ p[begin[k + 1]] = Star
    BY <1>7 DEF IsSplit
  <1>9. ASSUME NEW k \in 1 .. L PROVE parts[k] \in Seq(S) /\ Len(parts[k]) \in Nat
    <2>1. parts[k] \in Seq(S)
      BY <1>1
    <2> QED BY <2>1, LenProperties
  <1>10. CASE L = 1
    <2>1. parts[1] \in Seq(S) /\ StandsAt(p, 0, parts[1]) /\ Len(p) = 0 + Len(parts[1])
      BY <1>1, <1>8, <1>9, <1>10
    <2>2. ASSUME NEW j \in 0 .. N, Reach(p, t, Len(p), j)
          PROVE  j >= Len(p) /\ Reach(p, t, 0, j - Len(p))
      <3> DEFINE m == Len(p)
                 first == parts[1]
      <3>1. /\ 0 \in Nat /\ m <= m /\ Len(first) = m
            /\ first \in Seq(S) /\ StandsAt(p, 0, first) /\ m = 0 + Len(first)
        BY <1>1, <1>9, <1>10, <2>1
      <3>2. m <= Len(p) /\ j \in 0 .. Len(t) /\ Reach(p, t, m, j)
        BY <1>1, <2>2
      <3> HIDE DEF m, first
      <3>3. j >= Len(first) /\ Reach(p, t, 0, j - Len(first))
        BY <3>1, <3>2, ReachPart
      <3> QED BY <3>1, <3>3 DEF m
    <2>3. ASSUME NEW j \in 0 .. N, Reach(p, t, Len(p), j) PROVE j = Len(p)
      <3>1. j - Len(p) \in 0 .. N /\ Reach(p, t, 0, j - Len(p))
        BY <1>1, <2>2, <2>3
      <3>2. j - Len(p) = 0
        BY <3>1, ReachSteps
      <3> QED BY <1>1, <3>2
    <2>4. e = N
      BY <1>3, <1>4, <1>6, <2>3
    <2>5. left.rest = <<>>
      <3>1. N < N + 1 /\ N + 1 \in Int /\ N \in Int
        BY <1>1
      <3> HIDE DEF N
      <3> QED BY <1>6, <2>4, <3>1, SubSeqEmpty
    <2> QED BY <1>2, <1>5, <2>5
  <1>11. CASE L # 1
    <2>1. L > 1 /\ L \in 1 .. L /\ L - 1 \in 1 .. L - 1 /\ (L - 1) + 1 = L
      <3> HIDE DEF L
      <3> QED BY <1>1, <1>11
    <2>2. begin[L] \in 1 .. Len(p) /\ p[begin[L]] = Star
      <3> DEFINE before == begin[L - 1]
                 length == Len(parts[L - 1])
                 last == Len(parts[L])
      <3>1. L - 1 \in 1 .. L
        BY <2>1
      <3>2. /\ begin[L] = before + length + 1 /\ begin[L] + last = Len(p)
            /\ before \in Nat /\ length \in Nat /\ last \in Nat /\ p[begin[L]] = Star
        BY <1>8, <1>9, <2>1, <3>1
      <3> HIDE DEF before, length, last
      <3> QED BY <1>1, <3>2
    <2>3. p[Len(p)] = Star
      BY <2>2
    <2>4. parts[L] = <<>>
      <3>1. ASSUME parts[L] # <<>> PROVE FALSE
        <4> DEFINE last == Len(parts[L])
        <4>1. parts[L] \in Seq(S) /\ last \in Nat \ {0} /\ last \in 1 .. last
          BY <1>9, <2>1, <3>1, EmptySeq
        <4>2. parts[L][last] = p[begin[L] + last] /\ parts[L][last] # Star
          BY <1>8, <2>1, <4>1 DEF StandsAt
        <4>3. begin[L] + last = Len(p)
          BY <1>8
        <4> HIDE DEF last
        <4> QED BY <2>3, <4>2, <4>3
      <3> QED BY <3>1
    <2> QED BY <1>2, <1>5, <2>1, <2>4
  <1> QED BY <1>10, <1>11

\* The pattern with stars only means every text; it is the only one that may
\* mean the empty text.
LEMMA EmptyIsStars ==
  ASSUME NEW S, NEW p \in Seq(S), NEW t \in Seq(S), p # <<>>, Glob(p, <<>>)
  PROVE  Glob(p, t)
  <1>1. Len(p) \in Nat \ {0} /\ Len(t) \in Nat /\ Len(p) \in 1 .. Len(p)
    BY EmptySeq
  <1>2. \A i \in 1 .. Len(p) : p[i] = Star
    <2>1. <<>> \in Seq(S) /\ Len(<<>>) = 0
      OBVIOUS
    <2>2. PICK upto \in [0 .. Len(p) -> 0 .. 0] : Makes(upto, p, <<>>, Len(p))
      BY <2>1, GlobIsSound DEF GlobMeans
    <2> SUFFICES ASSUME NEW i \in 1 .. Len(p) PROVE p[i] = Star
      OBVIOUS
    <2>3. i \in 0 .. Len(p) /\ i - 1 \in 0 .. Len(p)
      BY <1>1
    <2>4. upto[i] = 0 /\ upto[i - 1] = 0
      BY <2>2, <2>3
    <2> QED BY <2>2, <2>4 DEF Makes
  <1>3. GlobMeans(p, t)
    <2> DEFINE upto == [i \in 0 .. Len(p) |-> IF i = 0 THEN 0 ELSE Len(t)]
    <2>1. /\ upto \in [0 .. Len(p) -> 0 .. Len(t)]
          /\ upto[0] = 0 /\ upto[Len(p)] = Len(t)
      BY <1>1
    <2>2. ASSUME NEW i \in 1 .. Len(p) PROVE upto[i - 1] <= upto[i]
      <3>1. i \in 0 .. Len(p) /\ i - 1 \in 0 .. Len(p) /\ i # 0
        BY <1>1
      <3>2. upto[i] = Len(t) /\ upto[i - 1] \in 0 .. Len(t)
        BY <2>1, <3>1
      <3> HIDE DEF upto
      <3> QED BY <1>1, <3>2
    <2> HIDE DEF upto
    <2> QED BY <1>2, <2>1, <2>2 DEF GlobMeans, Makes
  <1> QED BY <1>1, <1>2, <1>3, GlobIsExact

\* A text that is the pattern itself is one that it means, stars or not.
LEMMA MeansItself ==
  ASSUME NEW S, NEW p \in Seq(S)
  PROVE  GlobMeans(p, p)
  <1> DEFINE upto == [i \in 0 .. Len(p) |-> i]
  <1>1. Len(p) \in Nat
    OBVIOUS
  <1>2. /\ upto \in [0 .. Len(p) -> 0 .. Len(p)]
        /\ upto[0] = 0 /\ upto[Len(p)] = Len(p)
    BY <1>1
  <1>3. ASSUME NEW i \in 1 .. Len(p)
        PROVE  upto[i - 1] = i - 1 /\ upto[i] = i /\ i = (i - 1) + 1 /\ i - 1 <= i
    BY <1>1
  <1> HIDE DEF upto
  <1> QED BY <1>2, <1>3 DEF GlobMeans, Makes

\* A pattern without a star means itself only.
LEMMA MeansOnlyItself ==
  ASSUME NEW S, NEW p \in Seq(S), NEW t \in Seq(S),
         \A i \in 1 .. Len(p) : p[i] # Star, GlobMeans(p, t)
  PROVE  p = t
  <1>1. Len(p) \in Nat /\ Len(t) \in Nat
    OBVIOUS
  <1>2. PICK upto \in [0 .. Len(p) -> 0 .. Len(t)] :
          Makes(upto, p, t, Len(p)) /\ upto[Len(p)] = Len(t)
    BY DEF GlobMeans
  <1>3. /\ upto[0] = 0
        /\ \A i \in 1 .. Len(p) : upto[i] = upto[i - 1] + 1 /\ t[upto[i]] = p[i]
    BY <1>2 DEF Makes
  <1> DEFINE G == {n \in 0 .. Len(p) : upto[n] = n}
  <1>4. 0 .. Len(p) \subseteq G
    <2>1. 0 \in G
      BY <1>1, <1>3
    <2>2. ASSUME NEW n \in 0 .. Len(p) - 1, n \in G PROVE n + 1 \in G
      <3>1. n + 1 \in 1 .. Len(p) /\ (n + 1) - 1 = n /\ n + 1 \in 0 .. Len(p)
        BY <1>1
      <3>2. upto[n + 1] = n + 1
        BY <1>3, <2>2, <3>1
      <3> QED BY <3>1, <3>2
    <2> HIDE DEF G
    <2> QED BY <1>1, <2>1, <2>2, BoundedInduction
  <1>5. \A i \in 0 .. Len(p) : upto[i] = i
    BY <1>4
  <1>6. Len(p) = Len(t) /\ \A i \in 1 .. Len(p) : t[i] = p[i]
    <2>1. Len(p) \in 0 .. Len(p) /\ \A i \in 1 .. Len(p) : i \in 0 .. Len(p)
      BY <1>1
    <2> QED BY <1>2, <1>3, <1>5, <2>1
  <1> QED BY <1>6, SeqEqual

\* Two texts are sequences over one set.
LEMMA TextsTogether ==
  ASSUME NEW p, NEW t, IsText(p), IsText(t)
  PROVE  \E S : p \in Seq(S) /\ t \in Seq(S)
  <1> DEFINE A == {p[i] : i \in DOMAIN p}
             B == {t[i] : i \in DOMAIN t}
  <1>1. p \in Seq(A) /\ t \in Seq(B)
    BY DEF IsText
  <1> HIDE DEF A, B
  <1>2. p \in Seq(A \cup B) /\ t \in Seq(A \cup B)
    BY <1>1
  <1> QED BY <1>2

-----------------------------------------------------------------------------
(* The filter.                                                             *)

\* What is in force is a pair of lists it may be started with, or nothing.
PolicyInv ==
  \/ policy = [mode |-> "PassAll", specs |-> {}]
  \/ \E lists \in Lists : Startable(lists) /\ policy = Policy(lists)

\* The agent, as the threads know it.
HadInv ==
  /\ IsFiniteSet(keys)
  /\ keys \subseteq had
  /\ \A c \in Client : known[c] \subseteq had

\* A request on its way has been ruled on; without the filter there is none.
RuledOf(c) ==
  phase[c] = "forward" =>
    /\ ~ Refused(request[c].kind)
    /\ request[c].kind = SignRequest =>
         \A b \in request[c].blob :
           PermitsBlob(b, known[c]) /\ (asked[c] \/ Named(b, known[c]))

RuledInv == \A c \in Client : (~ up => phase[c] = "closed") /\ RuledOf(c)

AgentInv == TypeOK /\ PolicyInv /\ HadInv /\ RuledInv

-----------------------------------------------------------------------------

\* What the agent's answers hold when they parse is what it shows.
LEMMA AnswersParse ==
  ASSUME IsFiniteSet(keys), NEW p \in Answers, NEW ids \in ParseIdentities(p)
  PROVE  ids = Shown
<1>1. IsFiniteSet(Shown)
  BY FS_EmptySet DEF Shown
<1>2. CASE p = BuildIdentities(Shown)
  BY <1>2 DEF ParseIdentities, BuildIdentities
<1>3. ASSUME NEW id \in Shown,
             p = [BuildIdentities(Shown) EXCEPT !.ids = Shown \ {id}]
      PROVE  FALSE
  <2>1. p.count = Cardinality(Shown) /\ p.ids = Shown \ {id}
    BY <1>3 DEF BuildIdentities
  <2>2. Cardinality(Shown \ {id}) = Cardinality(Shown) - 1 /\ Cardinality(Shown) \in Nat
    BY <1>1, FS_RemoveElement, FS_CardinalityType
  <2>. QED BY <2>1, <2>2 DEF ParseIdentities
<1>. QED BY <1>2, <1>3 DEF Answers, BuildIdentities

\* The agent's own steps keep what is said of its keys.
LEMMA TakesKeep ==
  ASSUME keys \subseteq Identity, had \subseteq Identity, locked \in BOOLEAN,
         IsFiniteSet(keys), keys \subseteq had,
         NEW kind, AgentTakes(kind)
  PROVE  /\ keys' \subseteq Identity /\ had' \subseteq Identity
         /\ locked' \in BOOLEAN
         /\ IsFiniteSet(keys') /\ keys' \subseteq had' /\ had \subseteq had'
<1>1. /\ locked' \in BOOLEAN
      /\ had' = had \cup keys'
  BY DEF AgentTakes
<1>2. \A b \in Blob : Without(b) \subseteq keys /\ IsFiniteSet(Without(b))
  <2>. SUFFICES ASSUME NEW b \in Blob
                PROVE  Without(b) \subseteq keys /\ IsFiniteSet(Without(b))
    OBVIOUS
  <2>1. Without(b) \subseteq keys
    BY DEF Without
  <2>. QED BY <2>1, FS_Subset
<1>3. CASE keys' = keys
  BY <1>1, <1>3
<1>4. CASE keys' \in {{}} \cup {Without(b) : b \in Blob}
  BY <1>1, <1>2, <1>4, FS_EmptySet
<1>5. ASSUME NEW b \in Blob, NEW m \in Comment, keys' = Without(b) \cup {<<b, m>>}
      PROVE  keys' \subseteq Identity /\ IsFiniteSet(keys')
  <2>1. <<b, m>> \in Identity
    BY DEF Identity
  <2>. QED BY <1>2, <1>5, <2>1, FS_AddElement
<1>. QED BY <1>1, <1>3, <1>4, <1>5 DEF AgentTakes

LEMMA AgentInit == Init => AgentInv
<1>. SUFFICES ASSUME Init PROVE AgentInv
  OBVIOUS
<1>1. NoRequest \in Request /\ NoAnswer \in Answer
  BY DEF NoRequest, Request, Answer
<1>2. TypeOK
  BY <1>1 DEF Init, TypeOK
<1>. QED BY <1>2, FS_EmptySet DEF Init, AgentInv, PolicyInv, HadInv, RuledInv, RuledOf

\* A ruling stands while the policy and what the thread knows do.
LEMMA RulingStands ==
  ASSUME policy' = policy, NEW c, known'[c] = known[c], NEW b, PermitsBlob(b, known[c])
  PROVE  PermitsBlob(b, known[c])'
<1>. DEFINE m == CommentOf(b, known[c])
<1>1. m' = m
  BY DEF CommentOf, Named
<1>2. Permits(b, m)
  BY DEF PermitsBlob
<1>. HIDE DEF m
<1>3. Permits(b, m)'
  BY <1>1, <1>2 DEF Permits, Matches
<1>. QED BY <1>3 DEF PermitsBlob, m

LEMMA OthersStand ==
  ASSUME RuledInv, NEW d \in Client, policy' = policy,
         phase'[d] = phase[d], request'[d] = request[d],
         known'[d] = known[d], asked'[d] = asked[d]
  PROVE  RuledOf(d)'
<1>1. ASSUME phase[d] = "forward", request[d].kind = SignRequest,
             NEW b \in request[d].blob
      PROVE  PermitsBlob(b, known[d])' /\ (asked[d] \/ Named(b, known[d]))
  BY <1>1, RulingStands DEF RuledInv, RuledOf
<1>. QED BY <1>1 DEF RuledInv, RuledOf

\* Nothing is on its way when a request has been answered.
LEMMA ReplyKeeps ==
  ASSUME AgentInv, NEW c \in Client, NEW a \in Answer, Reply(c, a),
         UNCHANGED <<up, policy>>, up,
         keys' \subseteq Identity, had' \subseteq Identity, locked' \in BOOLEAN,
         IsFiniteSet(keys'), keys' \subseteq had', had \subseteq had',
         NEW ids \in SUBSET Identity, ids \subseteq had',
         known' = [known EXCEPT ![c] = ids] \/ known' = known
  PROVE  AgentInv'
<1>. USE DEF AgentInv
<1>1. NoRequest \in Request
  BY DEF NoRequest, Request
<1>2. TypeOK'
  BY <1>1 DEF TypeOK, Reply, Between
<1>3. PolicyInv'
  BY DEF PolicyInv
<1>4. HadInv'
  BY DEF TypeOK, HadInv
<1>5. RuledInv'
  <2>. SUFFICES ASSUME NEW d \in Client PROVE RuledOf(d)'
    BY DEF RuledInv
  <2>1. CASE d = c
    BY <2>1 DEF TypeOK, Reply, Between, RuledOf
  <2>2. CASE d # c
    BY <2>2, OthersStand DEF TypeOK, Reply, Between
  <2>. QED BY <2>1, <2>2
<1>. QED BY <1>2, <1>3, <1>4, <1>5

\* Nor when the connection has been closed.
LEMMA CloseKeeps ==
  ASSUME AgentInv, NEW c \in Client, Close(c), UNCHANGED <<agentVars, up, policy>>
  PROVE  AgentInv'
<1>. USE DEF AgentInv
<1>1. NoRequest \in Request /\ NoAnswer \in Answer
  BY DEF NoRequest, Request, Answer
<1>2. TypeOK'
  BY <1>1 DEF TypeOK, Close, Between, agentVars
<1>3. PolicyInv'
  BY DEF PolicyInv
<1>4. HadInv'
  BY DEF TypeOK, HadInv, Close, agentVars
<1>5. RuledInv'
  <2>. SUFFICES ASSUME NEW d \in Client
                PROVE  (~ up => phase'[d] = "closed") /\ RuledOf(d)'
    BY DEF RuledInv
  <2>1. CASE d = c
    BY <2>1 DEF TypeOK, Close, Between, RuledOf
  <2>2. CASE d # c
    BY <2>2, OthersStand DEF TypeOK, Close, Between, RuledInv
  <2>. QED BY <2>1, <2>2
<1>. QED BY <1>2, <1>3, <1>4, <1>5

\* A request goes on only when it is ruled on.
LEMMA AsksKeeps ==
  ASSUME AgentInv, NEW c \in Client, NEW p \in {"fetch", "forward"},
         NEW kind \in Kind, NEW blob \in {{}} \cup {{b} : b \in Blob},
         Is(c, "read"), Asks(c, p, kind, blob),
         ~ Refused(kind), p = "fetch" => kind = SignRequest,
         p = "forward" /\ kind = SignRequest =>
           \A b \in blob : PermitsBlob(b, known[c]) /\ Named(b, known[c]),
         UNCHANGED <<agentVars, up, policy, known>>
  PROVE  AgentInv'
<1>. USE DEF AgentInv
<1>1. [kind |-> kind, blob |-> blob] \in Request
  BY DEF Request
<1>2. TypeOK'
  BY <1>1 DEF TypeOK, Asks, agentVars
<1>3. PolicyInv'
  BY DEF PolicyInv
<1>4. HadInv'
  BY DEF HadInv, agentVars
<1>5. RuledInv'
  <2>1. up
    BY DEF RuledInv, Is
  <2>. SUFFICES ASSUME NEW d \in Client PROVE RuledOf(d)'
    BY <2>1 DEF RuledInv
  <2>2. CASE d = c
    <3>1. phase'[d] = p /\ request'[d] = [kind |-> kind, blob |-> blob]
      BY <2>2 DEF TypeOK, Asks
    <3>2. ASSUME NEW b \in blob, p = "forward", kind = SignRequest
          PROVE  PermitsBlob(b, known[d])' /\ Named(b, known[d])'
      BY <2>2, <3>2, RulingStands DEF Named
    <3>. QED BY <3>1, <3>2 DEF RuledOf, Refused, IsMutating
  <2>3. CASE d # c
    BY <2>3, OthersStand DEF TypeOK, Asks
  <2>. QED BY <2>2, <2>3
<1>. QED BY <1>2, <1>3, <1>4, <1>5

-----------------------------------------------------------------------------

LEMMA AgentNext == AgentInv /\ [Next]_vars => AgentInv'
<1>. SUFFICES ASSUME AgentInv, [Next]_vars PROVE AgentInv'
  OBVIOUS
<1>0. /\ Failure \in Answer /\ Other \in Answer /\ NoAnswer \in Answer
      /\ \A b \in Blob : Signature(b) \in Answer
      /\ \A ids \in SUBSET Identity : Identities(ids) \in Answer
  BY DEF Answer
<1>1. \A c \in Client : phase[c] # "closed" => up
  BY DEF AgentInv, RuledInv
<1>2. \A ids \in Heard : ids \subseteq keys
  <2>1. Shown \subseteq keys
    BY DEF Shown
  <2>. QED BY <2>1, AnswersParse DEF Heard, AgentInv, HadInv
<1>3. CASE UNCHANGED vars
  <2>1. TypeOK' /\ PolicyInv' /\ HadInv'
    BY <1>3 DEF vars, agentVars, connVars, AgentInv, TypeOK, PolicyInv, HadInv
  <2>2. RuledInv'
    BY <1>3, OthersStand DEF vars, connVars, AgentInv, RuledInv
  <2>. QED BY <2>1, <2>2 DEF AgentInv
<1>4. ASSUME NEW lists \in Lists, Start(lists) PROVE AgentInv'
  <2>1. TypeOK'
    BY <1>4 DEF AgentInv, TypeOK, Start, Policy, agentVars, connVars
  <2>2. PolicyInv'
    BY <1>4 DEF PolicyInv, Start, Policy, Startable
  <2>3. HadInv' /\ RuledInv'
    BY <1>4 DEF AgentInv, HadInv, RuledInv, RuledOf, Start, agentVars, connVars
  <2>. QED BY <2>1, <2>2, <2>3 DEF AgentInv
<1>5. CASE Stop
  <2>1. NoRequest \in Request
    BY DEF NoRequest, Request
  <2>2. TypeOK'
    BY <1>0, <1>5, <2>1 DEF AgentInv, TypeOK, Stop, Fresh, agentVars
  <2>3. PolicyInv' /\ HadInv' /\ RuledInv'
    BY <1>5 DEF AgentInv, PolicyInv, HadInv, RuledInv, RuledOf, Stop, Fresh, agentVars
  <2>. QED BY <2>2, <2>3 DEF AgentInv
<1>6. ASSUME NEW c \in Client, Connect(c) PROVE AgentInv'
  <2>1. TypeOK' /\ PolicyInv' /\ HadInv'
    BY <1>6 DEF AgentInv, TypeOK, PolicyInv, HadInv, Connect, agentVars
  <2>2. RuledInv'
    <3>. SUFFICES ASSUME NEW d \in Client PROVE RuledOf(d)'
      BY <1>6 DEF RuledInv, Connect
    <3>1. CASE d = c
      BY <1>6, <3>1 DEF AgentInv, TypeOK, Connect, RuledOf
    <3>2. CASE d # c
      BY <1>6, <3>2, OthersStand DEF AgentInv, TypeOK, Connect
    <3>. QED BY <3>1, <3>2
  <2>. QED BY <2>1, <2>2 DEF AgentInv
<1>7. ASSUME NEW c \in Client, HangUp(c) \/ Abandon(c) PROVE AgentInv'
  BY <1>7, CloseKeeps DEF HangUp, Abandon
<1>8. ASSUME NEW c \in Client, Fetch(c) PROVE AgentInv'
  <2>1. PICK b \in request[c].blob, ids \in Heard :
          /\ known' = [known EXCEPT ![c] = ids]
          /\ IF PermitsBlob(b, ids)
             THEN /\ phase' = [phase EXCEPT ![c] = "forward"]
                  /\ asked' = [asked EXCEPT ![c] = TRUE]
                  /\ UNCHANGED <<request, answer>>
             ELSE Reply(c, Failure)
    BY <1>8 DEF Fetch
  <2>2. up /\ UNCHANGED <<agentVars, up, policy>>
    BY <1>1, <1>8 DEF Fetch, Is
  <2>3. ids \in SUBSET Identity /\ ids \subseteq had'
    BY <1>2, <2>2 DEF AgentInv, TypeOK, HadInv, agentVars
  <2>4. CASE ~ PermitsBlob(b, ids)
    BY <1>0, <2>1, <2>2, <2>3, <2>4, ReplyKeeps DEF AgentInv, TypeOK, HadInv, agentVars
  <2>5. CASE PermitsBlob(b, ids)
    <3>1. TypeOK'
      BY <2>1, <2>2, <2>3, <2>5 DEF AgentInv, TypeOK, agentVars
    <3>2. PolicyInv' /\ HadInv'
      BY <2>1, <2>2, <2>3 DEF AgentInv, TypeOK, PolicyInv, HadInv, agentVars
    <3>3. RuledInv'
      <4>. SUFFICES ASSUME NEW d \in Client PROVE RuledOf(d)'
        BY <2>2 DEF RuledInv
      <4>1. CASE d = c
        <5>1. /\ request'[d] = request[d] /\ request[d].kind = SignRequest
              /\ request[d].blob = {b} /\ known'[d] = ids /\ asked'[d]
          BY <1>8, <2>1, <2>5, <4>1 DEF AgentInv, TypeOK, Request, Fetch, Is
        <5>2. PermitsBlob(b, known[d])'
          <6>1. Permits(b, CommentOf(b, ids))'
            BY <2>2, <2>5 DEF PermitsBlob, Permits, Matches
          <6>. QED BY <5>1, <6>1 DEF PermitsBlob, CommentOf, Named
        <5>. QED BY <5>1, <5>2 DEF RuledOf, Refused, IsMutating, SignRequest, Extension
      <4>2. CASE d # c
        BY <2>1, <2>2, <2>5, <4>2, OthersStand DEF AgentInv, TypeOK
      <4>. QED BY <4>1, <4>2
    <3>. QED BY <3>1, <3>2, <3>3 DEF AgentInv
  <2>. QED BY <2>4, <2>5
<1>9. ASSUME NEW c \in Client, Forward(c) PROVE AgentInv'
  <2>1. up /\ UNCHANGED <<up, policy>>
    BY <1>1, <1>9 DEF Forward, Is
  <2>2. ASSUME request[c].kind = RequestIdentities, NEW p \in Answers, Listed(c, p),
               UNCHANGED agentVars
        PROVE  AgentInv'
    <3>1. CASE Reply(c, Failure) /\ UNCHANGED known
      BY <1>0, <2>1, <2>2, <3>1, ReplyKeeps DEF AgentInv, TypeOK, HadInv, agentVars
    <3>2. ASSUME NEW ids \in ParseIdentities(p), Reply(c, Identities(Permitted(ids))),
                 known' = [known EXCEPT ![c] = ids]
          PROVE  AgentInv'
      <4>1. ids \in Heard
        BY DEF Heard
      <4>2. ids \in SUBSET Identity /\ ids \subseteq had' /\ Permitted(ids) \in SUBSET Identity
        BY <1>2, <2>2, <4>1 DEF AgentInv, TypeOK, HadInv, agentVars, Permitted
      <4>3. Identities(Permitted(ids)) \in Answer
        BY <1>0, <4>2
      <4>. QED BY <2>1, <2>2, <3>2, <4>2, <4>3, ReplyKeeps
               DEF AgentInv, TypeOK, HadInv, agentVars
    <3>. QED BY <2>2, <3>1, <3>2 DEF Listed
  <2>3. ASSUME NEW b \in request[c].blob, Reply(c, Signature(b)), UNCHANGED <<agentVars, known>>
        PROVE  AgentInv'
    <3>1. b \in Blob
      BY DEF AgentInv, TypeOK, Request
    <3>. QED BY <1>0, <2>1, <2>3, <3>1, ReplyKeeps DEF AgentInv, TypeOK, HadInv, agentVars
  <2>4. ASSUME AgentTakes(request[c].kind) \/ UNCHANGED agentVars,
               Reply(c, Other) \/ Reply(c, Failure), UNCHANGED known
        PROVE  AgentInv'
    <3>1. /\ keys' \subseteq Identity /\ had' \subseteq Identity /\ locked' \in BOOLEAN
          /\ IsFiniteSet(keys') /\ keys' \subseteq had' /\ had \subseteq had'
      BY <2>4, TakesKeep DEF AgentInv, TypeOK, HadInv, agentVars
    <3>. QED BY <1>0, <2>1, <2>4, <3>1, ReplyKeeps
  <2>. QED BY <1>9, <2>2, <2>3, <2>4 DEF Forward
<1>10. ASSUME NEW c \in Client, NEW kind \in Kind,
              NEW blob \in {{}} \cup {{b} : b \in Blob}, Read(c, kind, blob)
       PROVE  AgentInv'
  <2>1. up /\ UNCHANGED <<agentVars, up, policy, known>> /\ Is(c, "read")
    BY <1>1, <1>10 DEF Read, Is
  <2>2. CASE Reply(c, Failure)
    BY <1>0, <2>1, <2>2, ReplyKeeps DEF AgentInv, TypeOK, HadInv, agentVars
  <2>3. CASE ~ Refused(kind) /\ kind # SignRequest /\ Asks(c, "forward", kind, blob)
    BY <2>1, <2>3, AsksKeeps
  <2>4. ASSUME ~ Refused(kind), kind = SignRequest, NEW b \in blob,
               Asks(c, "fetch", kind, blob)
        PROVE  AgentInv'
    BY <2>1, <2>4, AsksKeeps
  <2>5. ASSUME ~ Refused(kind), kind = SignRequest, NEW b \in blob,
               ~ NeedsListing(c, b), PermitsBlob(b, known[c]),
               Asks(c, "forward", kind, blob)
        PROVE  AgentInv'
    <3>1. blob = {b}
      OBVIOUS
    <3>2. Named(b, known[c])
      BY <2>5 DEF NeedsListing
    <3>3. \A x \in blob : PermitsBlob(x, known[c]) /\ Named(x, known[c])
      BY <2>5, <3>1, <3>2
    <3>. QED BY <2>1, <2>5, <3>3, AsksKeeps
  <2>. QED BY <1>10, <2>2, <2>3, <2>4, <2>5 DEF Read
<1>11. CASE Own
  <2>1. /\ keys' \subseteq Identity /\ had' \subseteq Identity /\ locked' \in BOOLEAN
        /\ IsFiniteSet(keys') /\ keys' \subseteq had' /\ had \subseteq had'
    BY <1>11, TakesKeep DEF Own, AgentInv, TypeOK, HadInv
  <2>2. TypeOK' /\ PolicyInv' /\ HadInv'
    BY <1>11, <2>1 DEF Own, connVars, AgentInv, TypeOK, PolicyInv, HadInv
  <2>3. RuledInv'
    BY <1>11, OthersStand DEF Own, connVars, AgentInv, RuledInv
  <2>. QED BY <2>2, <2>3 DEF AgentInv
<1>. QED BY <1>3, <1>4, <1>5, <1>6, <1>7, <1>8, <1>9, <1>10, <1>11 DEF Next, Serve

LEMMA AgentInvariant == Spec => []AgentInv
<1>. QED BY AgentInit, AgentNext, PTL DEF Spec

-----------------------------------------------------------------------------

\* Whatever the clients send, the filter's state stays well formed.
THEOREM AgentTypes == Spec => []TypeOK
<1>. QED BY AgentInvariant, PTL DEF AgentInv

\* Only a connection's own step changes where it is.
LEMMA OwnStep ==
  ASSUME AgentInv, [Next]_vars, NEW c \in Client, Is(c, "forward"), phase'[c] = "read"
  PROVE  Forward(c)
<1>1. ASSUME NEW d \in Client, d # c, phase' = [phase EXCEPT ![d] = phase'[d]]
      PROVE  FALSE
  BY <1>1 DEF AgentInv, TypeOK, Is
<1>2. ~ UNCHANGED vars /\ ~ Stop /\ ~ Own
      /\ \A lists \in Lists : ~ Start(lists)
  BY DEF vars, connVars, Stop, Fresh, Own, Start, Is
<1>3. ASSUME NEW d \in Client, d # c PROVE ~ Connect(d) /\ ~ HangUp(d) /\ ~ Serve(d)
  BY <1>1, <1>3 DEF Connect, HangUp, Serve, Fetch, Forward, Abandon, Reply, Close,
     Between, Listed, AgentInv, TypeOK
<1>4. ASSUME NEW d \in Client, NEW kind, NEW blob, d # c PROVE ~ Read(d, kind, blob)
  BY <1>1, <1>4 DEF Read, Reply, Asks, Between, AgentInv, TypeOK
<1>5. ~ Connect(c) /\ ~ HangUp(c) /\ ~ Fetch(c) /\ \A kind, blob : ~ Read(c, kind, blob)
  BY DEF Connect, HangUp, Fetch, Read, Is
<1>6. ~ Abandon(c)
  BY DEF Abandon, Close, Between, AgentInv, TypeOK
<1>. QED BY <1>2, <1>3, <1>4, <1>5, <1>6 DEF Next, Serve

\* No message of a client changes the agent.
THEOREM AgentIsReadOnly == Spec => ReadOnlyAgent
<1>1. AgentInv /\ [Next]_vars => (connVars' # connVars => UNCHANGED agentVars)
  <2>. SUFFICES ASSUME AgentInv, Next, connVars' # connVars PROVE UNCHANGED agentVars
    BY DEF vars
  <2>1. ASSUME NEW c \in Client, Forward(c) PROVE UNCHANGED agentVars
    <3>1. ~ IsMutating(request[c].kind)
      BY <2>1 DEF AgentInv, RuledInv, RuledOf, Forward, Is, Refused
    <3>2. ~ AgentTakes(request[c].kind)
      BY <3>1 DEF AgentTakes, IsMutating
    <3>. QED BY <2>1, <3>2 DEF Forward
  <2>. QED BY <2>1 DEF Next, Start, Stop, Connect, HangUp, Serve, Fetch, Abandon, Read, Own
<1>. QED BY <1>1, AgentInvariant, PTL DEF Spec, ReadOnlyAgent

\* Every comment a key may have is a text, the empty one too.
LEMMA CommentsAreTexts == \A m \in Comment \cup {NoComment} : IsText(m)
  <1>1. IsText(NoComment)
    BY DEF IsText, NoComment
  <1> QED BY <1>1, AgentAssumption

\* A signature that was not asked for is judged by a comment the key had.
THEOREM SignaturesArePermitted == Spec => SignedAsPermitted
<1>1. ASSUME AgentInv, [Next]_vars, NEW c \in Client, NEW b \in Blob, Signs(c, b)
      PROVE  \/ \E m \in Comment \cup {NoComment} : <<b, m>> \in had /\ Permits(b, m)
             \/ policy.mode = "Deny" /\ asked[c] /\ ~ Named(b, known[c])
  <2>1. Forward(c)
    BY <1>1, OwnStep DEF Signs
  <2>2. request[c].kind = SignRequest /\ b \in request[c].blob /\ Named(b, Shown)
    <3>1. answer'[c] = Signature(b)
      BY <1>1 DEF Signs
    <3>2. \A a : Reply(c, a) => answer'[c] = a
      BY <1>1 DEF Reply, AgentInv, TypeOK
    <3>3. ~ Reply(c, Other) /\ ~ Reply(c, Failure) /\ \A ids : ~ Reply(c, Identities(ids))
      BY <3>1, <3>2 DEF Other, Failure, Identities, Signature
    <3>4. \A x : Reply(c, Signature(x)) => x = b
      BY <3>1, <3>2 DEF Signature
    <3>. QED BY <2>1, <3>3, <3>4 DEF Forward, Listed
  <2>3. PermitsBlob(b, known[c]) /\ (asked[c] \/ Named(b, known[c]))
    BY <1>1, <2>2 DEF AgentInv, RuledInv, RuledOf, Signs, Is
  <2>4. PICK mine \in Comment \cup {NoComment} : <<b, mine>> \in had
    BY <1>1, <2>2 DEF AgentInv, TypeOK, HadInv, Named, Shown, Identity
  <2>5. CASE Named(b, known[c])
    <3>1. \E id \in known[c] : id[1] = b
      BY <2>5 DEF Named
    <3>. DEFINE id == CHOOSE id \in known[c] : id[1] = b
    <3>2. id \in known[c] /\ id[1] = b
      BY <3>1
    <3>3. id \in had /\ id \in Identity /\ CommentOf(b, known[c]) = id[2]
      BY <1>1, <2>5, <3>2 DEF AgentInv, TypeOK, HadInv, CommentOf
    <3>. HIDE DEF id
    <3>4. <<b, id[2]>> \in had /\ id[2] \in Comment \cup {NoComment}
      BY <3>2, <3>3 DEF Identity
    <3>. QED BY <2>3, <3>3, <3>4 DEF PermitsBlob
  <2>6. CASE ~ Named(b, known[c]) /\ policy.mode # "Deny"
    <3>1. Permits(b, NoComment)
      BY <2>3, <2>6 DEF PermitsBlob, CommentOf
    <3>2. CASE policy.mode = "PassAll"
      BY <2>4, <3>2 DEF Permits
    <3>3. CASE policy.mode = "Allow"
      <4>1. PICK lists \in Lists : Startable(lists) /\ policy = Policy(lists)
        BY <1>1, <3>3 DEF AgentInv, PolicyInv
      <4>2. policy.specs = lists.allow
        BY <3>3, <4>1 DEF Policy, Startable
      <4>3. PICK s \in lists.allow :
              \/ s = Fingerprint(b)
              \/ <<"SHA256:">> \o s = Fingerprint(b)
              \/ Star \in {s[i] : i \in DOMAIN s} /\ Glob(s, NoComment)
              \/ s = NoComment
        BY <3>1, <3>3, <4>2 DEF Permits, Matches
      <4>4. s # NoComment /\ (Glob(s, NoComment) => Glob(s, mine))
        <5>1. s # <<>> /\ IsText(s)
          BY AgentAssumption DEF NoComment
        <5>2. IsText(mine)
          BY CommentsAreTexts
        <5>3. PICK S : s \in Seq(S) /\ mine \in Seq(S)
          BY <5>1, <5>2, TextsTogether
        <5> QED BY <5>1, <5>3, EmptyIsStars DEF NoComment
      <4>5. Matches(b, mine)
        BY <4>2, <4>3, <4>4 DEF Matches
      <4>. QED BY <2>4, <3>3, <4>5 DEF Permits
    <3>. QED BY <1>1, <2>6, <3>2, <3>3 DEF AgentInv, TypeOK
  <2>. QED BY <2>3, <2>5, <2>6
<1>2. AgentInv /\ [Next]_vars =>
        \A c \in Client, b \in Blob : Signs(c, b) =>
          \/ \E m \in Comment \cup {NoComment} : <<b, m>> \in had /\ Permits(b, m)
          \/ policy.mode = "Deny" /\ asked[c] /\ ~ Named(b, known[c])
  BY <1>1
<1>. QED BY <1>2, AgentInvariant, PTL DEF Spec, SignedAsPermitted

\* What a client is shown is what the policy leaves of what the agent has.
THEOREM ListingsAreExact == Spec => ListsExactlyPermitted
<1>1. ASSUME AgentInv, [Next]_vars, NEW c \in Client, ShowsKeys(c)
      PROVE  answer'[c].ids = Permitted(Shown) /\ known'[c] = Shown
  <2>1. Forward(c)
    BY <1>1, OwnStep DEF ShowsKeys
  <2>2. \A a : Reply(c, a) => a.type = "identities"
    BY <1>1 DEF Reply, ShowsKeys, AgentInv, TypeOK
  <2>3. ~ Reply(c, Other) /\ ~ Reply(c, Failure) /\ \A x : ~ Reply(c, Signature(x))
    BY <2>2 DEF Other, Failure, Signature
  <2>4. PICK p \in Answers : Listed(c, p)
    BY <2>1, <2>3 DEF Forward
  <2>5. PICK ids \in ParseIdentities(p) :
          Reply(c, Identities(Permitted(ids))) /\ known' = [known EXCEPT ![c] = ids]
    BY <2>3, <2>4 DEF Listed
  <2>6. ids = Shown
    BY <1>1, AnswersParse DEF AgentInv, HadInv
  <2>. QED BY <1>1, <2>5, <2>6 DEF Reply, Identities, AgentInv, TypeOK
<1>2. AgentInv /\ [Next]_vars =>
        \A c \in Client : ShowsKeys(c) =>
          /\ answer'[c].ids = Permitted(Shown)
          /\ known'[c] = Shown
  BY <1>1
<1>. QED BY <1>2, AgentInvariant, PTL DEF Spec, ListsExactlyPermitted

-----------------------------------------------------------------------------
(* What the lists mean.                                                    *)

\* The specs in force are texts.
LEMMA SpecsAreTexts == ASSUME PolicyInv PROVE \A s \in policy.specs : IsText(s)
  <1>1. CASE policy = [mode |-> "PassAll", specs |-> {}]
    BY <1>1
  <1>2. ASSUME NEW lists \in Lists, policy = Policy(lists)
        PROVE  \A s \in policy.specs : IsText(s)
    BY <1>2, AgentAssumption DEF Policy
  <1> QED BY <1>1, <1>2 DEF PolicyInv

\* What the list matches is what its documentation says it names.
LEMMA MatchIsDocumented ==
  ASSUME PolicyInv, NEW b, NEW m \in Comment \cup {NoComment}, Matches(b, m)
  PROVE  NamedAsDocumented(b, m)
  <1>1. PICK s \in policy.specs :
          \/ s = Fingerprint(b)
          \/ <<"SHA256:">> \o s = Fingerprint(b)
          \/ Star \in {s[i] : i \in DOMAIN s} /\ Glob(s, m)
          \/ s = m
    BY DEF Matches
  <1>2. PICK S : s \in Seq(S) /\ m \in Seq(S)
    BY SpecsAreTexts, CommentsAreTexts, TextsTogether
  <1>3. Glob(s, m) \/ s = m => GlobMeans(s, m)
    BY <1>2, GlobIsSound, MeansItself
  <1> QED BY <1>1, <1>3 DEF NamedAsDocumented

\* An allow list is never wider than documented, whatever its patterns: a
\* client's signature is made with a key that the documentation says the list
\* names, under a comment the agent really gave it (policy.rs:107-132,
\* lib.rs:40-66).
SignedAsDocumented ==
  [][\A c \in Client, b \in Blob : Signs(c, b) /\ policy.mode = "Allow" =>
       \E m \in Comment \cup {NoComment} : <<b, m>> \in had /\ NamedAsDocumented(b, m)]_vars

\* So it is with every pattern that an allow list may have.
THEOREM AllowListsAreDocumented == Spec => SignedAsDocumented
  <1>1. ASSUME AgentInv,
               \A c \in Client, b \in Blob : Signs(c, b) =>
                 \/ \E m \in Comment \cup {NoComment} : <<b, m>> \in had /\ Permits(b, m)
                 \/ policy.mode = "Deny" /\ asked[c] /\ ~ Named(b, known[c])
        PROVE  \A c \in Client, b \in Blob : Signs(c, b) /\ policy.mode = "Allow" =>
                 \E m \in Comment \cup {NoComment} :
                   <<b, m>> \in had /\ NamedAsDocumented(b, m)
    <2> SUFFICES ASSUME NEW c \in Client, NEW b \in Blob, Signs(c, b), policy.mode = "Allow"
                 PROVE  \E m \in Comment \cup {NoComment} :
                          <<b, m>> \in had /\ NamedAsDocumented(b, m)
      OBVIOUS
    <2>1. PICK m \in Comment \cup {NoComment} : <<b, m>> \in had /\ Permits(b, m)
      BY <1>1
    <2>2. Matches(b, m) /\ PolicyInv
      BY <1>1, <2>1 DEF Permits, AgentInv
    <2> QED BY <2>1, <2>2, MatchIsDocumented
  <1> QED BY <1>1, AgentInvariant, SignaturesArePermitted, PTL
         DEF SignedAsPermitted, SignedAsDocumented

\* A list whose patterns have no star or end in one matches exactly the keys
\* it is documented to name: only a pattern that goes on after its last star
\* can do what the agent_glob run shows.
THEOREM EndingStarsAreDocumented ==
  ASSUME \A lists \in Lists : \A s \in lists.allow \cup lists.deny :
           (\A i \in 1 .. Len(s) : s[i] # Star) \/ s[Len(s)] = Star
  PROVE  Spec => []PolicyAsDocumented
  <1>1. ASSUME AgentInv PROVE PolicyAsDocumented
    <2> SUFFICES ASSUME NEW id \in keys, NamedAsDocumented(id[1], id[2])
                 PROVE  Matches(id[1], id[2])
      <3>1. \A id \in keys : id[2] \in Comment \cup {NoComment}
        BY <1>1 DEF AgentInv, TypeOK, Identity
      <3> QED BY <1>1, <3>1, MatchIsDocumented DEF AgentInv, PolicyAsDocumented
    <2> DEFINE b == id[1]
               m == id[2]
    <2>1. m \in Comment \cup {NoComment} /\ PolicyInv
      BY <1>1 DEF AgentInv, TypeOK, Identity
    <2>2. PICK s \in policy.specs :
            \/ s = Fingerprint(b) \/ <<"SHA256:">> \o s = Fingerprint(b)
            \/ GlobMeans(s, m)
      BY DEF NamedAsDocumented
    <2>3. (\A i \in 1 .. Len(s) : s[i] # Star) \/ s[Len(s)] = Star
      BY <2>1, <2>2 DEF PolicyInv, Policy
    <2>4. PICK S : s \in Seq(S) /\ m \in Seq(S)
      BY <2>1, SpecsAreTexts, CommentsAreTexts, TextsTogether
    <2> HIDE DEF b, m
    <2>5. ASSUME GlobMeans(s, m) PROVE Matches(b, m)
      <3>1. CASE Star \in {s[i] : i \in DOMAIN s}
        <4>1. Glob(s, m)
          BY <2>3, <2>4, <2>5, GlobIsExact
        <4> QED BY <2>2, <3>1, <4>1 DEF Matches
      <3>2. CASE Star \notin {s[i] : i \in DOMAIN s}
        <4>1. \A i \in 1 .. Len(s) : s[i] # Star
          BY <2>4, <3>2
        <4>2. s = m
          BY <2>4, <2>5, <4>1, MeansOnlyItself
        <4> QED BY <2>2, <4>2 DEF Matches
      <3> QED BY <3>1, <3>2
    <2>6. Matches(b, m)
      BY <2>2, <2>5 DEF Matches
    <2> QED BY <2>6 DEF b, m
  <1> QED BY <1>1, AgentInvariant, PTL
=============================================================================
