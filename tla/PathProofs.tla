----------------------------- MODULE PathProofs ------------------------------
(***************************************************************************)
(* Proofs about the path logic of the shared store file system: what the   *)
(* loop over the components of a path computes, for every path.            *)
(***************************************************************************)
EXTENDS StoreProperties, LoopProofs

\* A path's components are strings.
Path == Seq(STRING)

-----------------------------------------------------------------------------
(* The loop.                                                               *)

\* What Normalize has in hand after each component.
LEMMA NormalizeLoop ==
  ASSUME NEW path \in Path
  PROVE  \E out \in [0 .. Len(path) -> Path] :
           /\ out[0] = <<>>
           /\ \A n \in 1 .. Len(path) : out[n] = Walk(out[n - 1], path[n])
           /\ Normalize(path) = out[Len(path)]
  <1> DEFINE N == Len(path)
             step == [oc \in Path \X STRING |-> Walk(oc[1], oc[2])]
  <1>1. N \in Nat /\ path \in [1 .. N -> STRING] /\ DOMAIN path = 1 .. N
    BY DEF Path
  <1>2. ASSUME NEW o \in Path, NEW c \in STRING PROVE Walk(o, c) \in Path
    <2>1. Append(o, c) \in Path
      BY AppendProperties DEF Path
    <2>2. ASSUME o # <<>> PROVE Front(o) \in Path
      <3>1. Len(o) \in Nat \ {0} /\ Len(o) - 1 \in 0 .. Len(o)
        BY <2>2, LenProperties, EmptySeq DEF Path
      <3> QED BY <3>1, SubSeqProperties DEF Path, Front
    <2> QED BY <2>1, <2>2 DEF Walk
  <1>3. step \in [Path \X STRING -> Path]
    BY <1>2
  <1>4. <<>> \in Path
    BY DEF Path
  <1> DEFINE Eq(g) == g = [s \in SUBSET (DOMAIN path) |->
                       IF s = {} THEN <<>> ELSE Walk(g[s \ {Max(s)}], path[Max(s)])]
             it == CHOOSE g : Eq(g)
  <1>5. Normalize(path) = it[DOMAIN path]
    BY DEF Normalize, FoldLeft, MapThenFoldSet
  <1>6. \E g : Eq(g)
    <2>0. PICK g : IsFold(g, Path, <<>>, step, N, path)
      <3> HIDE DEF N, step
      <3> QED BY <1>1, <1>3, <1>4, FoldExists
    <2>1. /\ g \in [SUBSET (1 .. N) -> Path]
          /\ g = [s \in SUBSET (1 .. N) |->
                   IF s = {} THEN <<>> ELSE step[<<g[s \ {Max(s)}], path[Max(s)]>>]]
      <3> HIDE DEF N, step
      <3> QED BY <2>0 DEF IsFold
    <2>2. ASSUME NEW s \in SUBSET (1 .. N), s # {}
          PROVE  step[<<g[s \ {Max(s)}], path[Max(s)]>>] = Walk(g[s \ {Max(s)}], path[Max(s)])
      <3>1. Max(s) \in 1 .. N
        BY <1>1, <2>2, MaxIsThere
      <3>2. path[Max(s)] \in STRING /\ g[s \ {Max(s)}] \in Path
        <4> DEFINE r == s \ {Max(s)}
        <4>1. r \in SUBSET (1 .. N)
          OBVIOUS
        <4> HIDE DEF N, step, r
        <4>2. g[r] \in Path
          BY <2>1, <4>1
        <4> QED BY <1>1, <3>1, <4>2 DEF r
      <3> QED BY <3>2
    <2> HIDE DEF step, N
    <2>3. Eq(g)
      BY <1>1, <2>1, <2>2
    <2> QED BY <2>3
  <1>7. Eq(it)
    <2> HIDE DEF Eq
    <2> QED BY <1>6
  <1> HIDE DEF it, step, N
  <1> DEFINE out == [n \in 0 .. N |-> it[1 .. n]]
  <1>8. out[0] = <<>>
    <2>1. 1 .. 0 = {}
      OBVIOUS
    <2> QED BY <1>1, <1>7, <2>1
  <1>9. ASSUME NEW n \in 1 .. N PROVE out[n] = Walk(out[n - 1], path[n])
    <2>1. Max(1 .. n) = n /\ (1 .. n) \ {n} = 1 .. n - 1 /\ 1 .. n # {}
      <3>1. n \in Nat \ {0}
        BY <1>1
      <3> QED BY <3>1, MaxOfInterval
    <2>2. 1 .. n \in SUBSET (DOMAIN path) /\ n - 1 \in 0 .. N
      BY <1>1
    <2>3. it[1 .. n] = Walk(it[(1 .. n) \ {Max(1 .. n)}], path[Max(1 .. n)])
      BY <1>7, <2>1, <2>2
    <2>4. out[n] = it[1 .. n] /\ out[n - 1] = it[1 .. n - 1]
      BY <2>2
    <2> QED BY <2>1, <2>3, <2>4
  <1>10. Normalize(path) = out[N]
    BY <1>1, <1>5
  <1> DEFINE S == {n \in 0 .. N : out[n] \in Path}
  <1>11. 0 .. N \subseteq S
    <2> HIDE DEF out
    <2>1. 0 \in S
      BY <1>1, <1>4, <1>8
    <2>2. ASSUME NEW n \in 0 .. N - 1, n \in S PROVE n + 1 \in S
      <3>1. n + 1 \in 1 .. N /\ (n + 1) - 1 = n /\ path[n + 1] \in STRING
        BY <1>1
      <3>2. out[n + 1] = Walk(out[n], path[n + 1])
        BY <1>9, <3>1
      <3>3. out[n + 1] \in Path
        BY <1>2, <2>2, <3>1, <3>2
      <3> QED BY <3>1, <3>3, <1>1
    <2> HIDE DEF S
    <2> QED BY <1>1, <2>1, <2>2, BoundedInduction
  <1>12. out \in [0 .. N -> Path]
    BY <1>11
  <1> HIDE DEF out
  <1> QED BY <1>8, <1>9, <1>10, <1>12 DEF N

-----------------------------------------------------------------------------
(* The loop computes what the documentation means: how deep each component *)
(* of a path is says which names are left.                                 *)

Names(path) == {k \in 1 .. Len(path) : path[k] \notin {Here, Up}}
Ups(path) == {k \in 1 .. Len(path) : path[k] = Up}

\* How deep a path is after its first n components; below zero above the root.
Level(path, n) == Count(Names(path), n) - Count(Ups(path), n)

\* The names of the first n components that are left after them.
Left(path, n) ==
  {i \in 1 .. n : path[i] \notin {Here, Up}
                  /\ \A j \in i .. n : Level(path, j) >= Level(path, i)}

\* Where each name that the loop has in hand after n components came from.
IsTrail(pos, path, n, out) ==
  /\ pos \in [1 .. Len(out) -> 1 .. n]
  /\ \A k \in 1 .. Len(out) : out[k] = path[pos[k]]
  /\ \A k, m \in 1 .. Len(out) : k < m => pos[k] < pos[m]
  /\ Left(path, n) = {pos[k] : k \in 1 .. Len(out)}
  /\ \A k \in 1 .. Len(out) : Level(path, pos[k]) = Level(path, n) - (Len(out) - k)

\* Each component moves the level by what Walk does with it.
LEMMA LevelSteps ==
  ASSUME NEW path \in Path
  PROVE  /\ \A n \in Nat : Level(path, n) \in Int
         /\ \A n \in 0 .. Len(path) - 1 :
              Level(path, n + 1) =
                Level(path, n) + (CASE path[n + 1] = Here -> 0
                                    [] path[n + 1] = Up -> -1
                                    [] OTHER -> 1)
  <1>1. Len(path) \in Nat
    BY LenProperties DEF Path
  <1>2. \A n \in Nat : Count(Names(path), n) \in Nat /\ Count(Ups(path), n) \in Nat
    BY CountSteps
  <1>3. ASSUME NEW n \in 0 .. Len(path) - 1
        PROVE  Level(path, n + 1) =
                 Level(path, n) + (CASE path[n + 1] = Here -> 0
                                     [] path[n + 1] = Up -> -1
                                     [] OTHER -> 1)
    <2>1. n \in Nat /\ n + 1 \in 1 .. Len(path)
      BY <1>1
    <2>2. n + 1 \in Names(path) <=> path[n + 1] \notin {Here, Up}
      BY <2>1 DEF Names
    <2>3. n + 1 \in Ups(path) <=> path[n + 1] = Up
      BY <2>1 DEF Ups
    <2>4. /\ Count(Names(path), n + 1) = Count(Names(path), n) + (IF n + 1 \in Names(path) THEN 1 ELSE 0)
          /\ Count(Ups(path), n + 1) = Count(Ups(path), n) + (IF n + 1 \in Ups(path) THEN 1 ELSE 0)
      BY <2>1, CountSteps
    <2>5. /\ Count(Names(path), n) \in Nat /\ Count(Ups(path), n) \in Nat
      BY <1>2, <2>1
    <2>6. CASE path[n + 1] = Here
      <3>1. path[n + 1] # Up /\ path[n + 1] \in {Here, Up}
        BY <2>6 DEF Here, Up
      <3> QED BY <2>2, <2>3, <2>4, <2>5, <2>6, <3>1 DEF Level
    <2>7. CASE path[n + 1] = Up
      <3>1. path[n + 1] # Here /\ path[n + 1] \in {Here, Up}
        BY <2>7 DEF Here, Up
      <3> QED BY <2>2, <2>3, <2>4, <2>5, <2>7, <3>1 DEF Level
    <2>8. CASE path[n + 1] \notin {Here, Up}
      BY <2>2, <2>3, <2>4, <2>5, <2>8 DEF Level
    <2> QED BY <2>6, <2>7, <2>8
  <1> QED BY <1>2, <1>3 DEF Level

\* What is left in the end, by levels.
LEMMA StaysIsLeft ==
  ASSUME NEW path \in Path
  PROVE  {i \in 1 .. Len(path) : Stays(path, i)} = Left(path, Len(path))
  <1>1. Len(path) \in Nat
    BY LenProperties DEF Path
  <1>2. ASSUME NEW i \in 1 .. Len(path), NEW j \in i .. Len(path)
        PROVE  (Cardinality({k \in i + 1 .. j : path[k] = Up})
                 <= Cardinality({k \in i + 1 .. j : path[k] \notin {Here, Up}}))
               <=> Level(path, j) >= Level(path, i)
    <2>1. i \in Nat /\ j \in Nat /\ i <= j /\ i + 1 .. j \subseteq 1 .. Len(path)
      BY <1>1
    <2>2. {k \in i + 1 .. j : path[k] = Up} = Ups(path) \cap (i + 1 .. j)
      BY <2>1 DEF Ups
    <2>3. {k \in i + 1 .. j : path[k] \notin {Here, Up}} = Names(path) \cap (i + 1 .. j)
      BY <2>1 DEF Names
    <2>4. /\ Cardinality(Ups(path) \cap (i + 1 .. j)) = Count(Ups(path), j) - Count(Ups(path), i)
          /\ Cardinality(Names(path) \cap (i + 1 .. j)) = Count(Names(path), j) - Count(Names(path), i)
      BY <2>1, CountBetween
    <2>5. /\ Count(Ups(path), j) \in Nat /\ Count(Ups(path), i) \in Nat
          /\ Count(Names(path), j) \in Nat /\ Count(Names(path), i) \in Nat
      BY <2>1, CountSteps
    <2> DEFINE uj == Count(Ups(path), j)
               ui == Count(Ups(path), i)
               nj == Count(Names(path), j)
               ni == Count(Names(path), i)
    <2>6. Level(path, j) = nj - uj /\ Level(path, i) = ni - ui
      BY DEF Level
    <2> HIDE DEF uj, ui, nj, ni
    <2>7. uj - ui <= nj - ni <=> Level(path, j) >= Level(path, i)
      BY <2>5, <2>6 DEF uj, ui, nj, ni
    <2>8. /\ Cardinality({k \in i + 1 .. j : path[k] = Up}) = uj - ui
          /\ Cardinality({k \in i + 1 .. j : path[k] \notin {Here, Up}}) = nj - ni
      BY <2>2, <2>3, <2>4 DEF uj, ui, nj, ni
    <2> QED BY <2>7, <2>8
  <1>3. ASSUME NEW i \in 1 .. Len(path)
        PROVE  Stays(path, i) <=> path[i] \notin {Here, Up}
                                  /\ \A j \in i .. Len(path) : Level(path, j) >= Level(path, i)
    <2>1. Level(path, i) \in Int
      BY <1>1, LevelSteps
    <2>2. (\A j \in i .. Len(path) : Level(path, j) >= Level(path, i))
            <=> (\A j \in i + 1 .. Len(path) : Level(path, j) >= Level(path, i))
      BY <1>1, <2>1
    <2>3. (\A j \in i + 1 .. Len(path) :
             Cardinality({k \in i + 1 .. j : path[k] = Up})
               <= Cardinality({k \in i + 1 .. j : path[k] \notin {Here, Up}}))
            <=> (\A j \in i + 1 .. Len(path) : Level(path, j) >= Level(path, i))
      <3>1. i + 1 .. Len(path) \subseteq i .. Len(path)
        BY <1>1
      <3> QED BY <1>2, <3>1
    <2> QED BY <2>2, <2>3 DEF Stays
  <1> QED BY <1>3 DEF Left

\* A component leaves the names it does not go below, and its own.
LEMMA LeftSteps ==
  ASSUME NEW path \in Path, NEW n \in 0 .. Len(path) - 1
  PROVE  Left(path, n + 1) =
           {i \in Left(path, n) : Level(path, n + 1) >= Level(path, i)}
           \cup (IF path[n + 1] \notin {Here, Up} THEN {n + 1} ELSE {})
  <1>1. n \in Nat /\ Len(path) \in Nat
    BY LenProperties DEF Path
  <1>2. ASSUME NEW i \in 1 .. n
        PROVE  i \in Left(path, n + 1)
                 <=> i \in Left(path, n) /\ Level(path, n + 1) >= Level(path, i)
    <2>1. i \in 1 .. n + 1 /\ i .. n + 1 = (i .. n) \cup {n + 1}
      BY <1>1
    <2> QED BY <2>1 DEF Left
  <1>3. n + 1 \in Left(path, n + 1) <=> path[n + 1] \notin {Here, Up}
    <2>1. n + 1 \in 1 .. n + 1 /\ n + 1 .. n + 1 = {n + 1}
      BY <1>1
    <2>2. Level(path, n + 1) >= Level(path, n + 1)
      BY <1>1, LevelSteps
    <2> QED BY <2>1, <2>2 DEF Left
  <1>4. Left(path, n) \subseteq 1 .. n /\ Left(path, n + 1) \subseteq 1 .. n + 1
    BY DEF Left
  <1>5. 1 .. n + 1 = (1 .. n) \cup {n + 1} /\ n + 1 \notin 1 .. n
    BY <1>1
  <1> HIDE DEF Left
  <1> QED BY <1>2, <1>3, <1>4, <1>5

\* The loop keeps the trail of the names it has in hand.
LEMMA WalkKeepsTrail ==
  ASSUME NEW path \in Path, NEW n \in 0 .. Len(path) - 1,
         NEW out \in Path, NEW pos, IsTrail(pos, path, n, out)
  PROVE  \E q : IsTrail(q, path, n + 1, Walk(out, path[n + 1]))
  <1> DEFINE h == Len(out)
             c == path[n + 1]
  <1>1. n \in Nat /\ Len(path) \in Nat /\ h \in Nat /\ out \in [1 .. h -> STRING]
        /\ n + 1 \in 1 .. Len(path) /\ c \in STRING
    BY LenProperties DEF Path
  <1>2. /\ pos \in [1 .. h -> 1 .. n]
        /\ \A k \in 1 .. h : out[k] = path[pos[k]]
        /\ \A k, m \in 1 .. h : k < m => pos[k] < pos[m]
        /\ Left(path, n) = {pos[k] : k \in 1 .. h}
        /\ \A k \in 1 .. h : Level(path, pos[k]) = Level(path, n) - (h - k)
    BY DEF IsTrail
  <1>3. Level(path, n) \in Int /\ Level(path, n + 1) \in Int
    BY <1>1, LevelSteps
  <1>4. Level(path, n + 1) =
          Level(path, n) + (CASE c = Here -> 0 [] c = Up -> -1 [] OTHER -> 1)
    BY LevelSteps
  <1>5. Left(path, n + 1) =
          {i \in Left(path, n) : Level(path, n + 1) >= Level(path, i)}
          \cup (IF c \notin {Here, Up} THEN {n + 1} ELSE {})
    BY LeftSteps
  <1>6. Here # Up
    BY DEF Here, Up
  <1> HIDE DEF h, c
  <1>7. CASE c = Here
    <2>1. Walk(out, c) = out /\ Level(path, n + 1) = Level(path, n)
      BY <1>3, <1>4, <1>6, <1>7 DEF Walk
    <2>2. \A k \in 1 .. h : Level(path, pos[k]) <= Level(path, n + 1)
      BY <1>1, <1>2, <1>3, <2>1
    <2>3. Left(path, n + 1) = Left(path, n)
      BY <1>2, <1>5, <1>7, <2>2
    <2>4. pos \in [1 .. h -> 1 .. n + 1]
      BY <1>1, <1>2
    <2>5. IsTrail(pos, path, n + 1, out)
      BY <1>2, <2>1, <2>3, <2>4 DEF IsTrail, h
    <2> QED BY <2>1, <2>5 DEF c
  <1>8. CASE c = Up /\ out = <<>>
    <2>1. Walk(out, c) = out /\ h = 0
      BY <1>6, <1>8 DEF Walk, h
    <2>2. Left(path, n) = {} /\ 1 .. h = {}
      BY <1>2, <2>1
    <2>3. Left(path, n + 1) = {}
      BY <1>5, <1>8, <2>2
    <2>4. pos \in [1 .. h -> 1 .. n + 1]
      BY <1>1, <1>2
    <2>5. IsTrail(pos, path, n + 1, out)
      BY <1>2, <2>2, <2>3, <2>4 DEF IsTrail, h
    <2> QED BY <2>1, <2>5 DEF c
  <1>9. CASE c = Up /\ out # <<>>
    <2> DEFINE q == [k \in 1 .. h - 1 |-> pos[k]]
               f == Front(out)
    <2>1. h \in Nat \ {0} /\ h - 1 \in 0 .. h
      BY <1>9, EmptySeq DEF h, Path
    <2>2. Walk(out, c) = f /\ Level(path, n + 1) = Level(path, n) - 1
      BY <1>3, <1>4, <1>6, <1>9 DEF Walk
    <2>3. /\ f \in Path /\ Len(f) = h - 1
          /\ \A k \in 1 .. h - 1 : f[k] = out[k]
      <3>1. f = SubSeq(out, 1, h - 1)
        BY DEF Front, h
      <3>2. \A k \in 1 .. h - 1 : out[k] \in STRING
        BY <1>1, <2>1
      <3> HIDE DEF f
      <3>3. /\ f \in Seq(STRING)
            /\ Len(f) = IF 1 <= h - 1 THEN (h - 1) - 1 + 1 ELSE 0
            /\ \A i \in 1 .. (h - 1) - 1 + 1 : f[i] = out[1 + i - 1]
        BY <2>1, <3>1, <3>2, SubSeqProperties
      <3> QED BY <2>1, <3>3 DEF Path
    <2>4. \A k \in 1 .. h - 1 : Level(path, pos[k]) <= Level(path, n + 1)
      BY <1>1, <1>2, <1>3, <2>1, <2>2
    <2>5. ~ (Level(path, pos[h]) <= Level(path, n + 1))
      BY <1>1, <1>2, <1>3, <2>1, <2>2
    <2>6. Left(path, n + 1) = {q[k] : k \in 1 .. h - 1}
      <3>1. 1 .. h = (1 .. h - 1) \cup {h}
        BY <2>1
      <3>2. Left(path, n + 1) = {i \in Left(path, n) : Level(path, n + 1) >= Level(path, i)}
        BY <1>5, <1>9
      <3>3. \A k \in 1 .. h - 1 : q[k] = pos[k]
        OBVIOUS
      <3> HIDE DEF q, f
      <3>4. {pos[k] : k \in 1 .. h} = {q[k] : k \in 1 .. h - 1} \cup {pos[h]}
        BY <3>1, <3>3
      <3>5. \A i \in {q[k] : k \in 1 .. h - 1} : Level(path, n + 1) >= Level(path, i)
        BY <2>4, <3>3
      <3>6. ~ (Level(path, n + 1) >= Level(path, pos[h]))
        BY <2>5
      <3>7. Left(path, n) = {q[k] : k \in 1 .. h - 1} \cup {pos[h]}
        BY <1>2, <3>4
      <3> QED BY <3>2, <3>5, <3>6, <3>7
    <2>7. q \in [1 .. h - 1 -> 1 .. n + 1]
      BY <1>1, <1>2, <2>1
    <2>8. \A k \in 1 .. h - 1 : /\ f[k] = path[q[k]]
                                /\ Level(path, q[k]) = Level(path, n + 1) - ((h - 1) - k)
      <3> SUFFICES ASSUME NEW k \in 1 .. h - 1
                   PROVE  /\ f[k] = path[q[k]]
                          /\ Level(path, q[k]) = Level(path, n + 1) - ((h - 1) - k)
        OBVIOUS
      <3>1. k \in 1 .. h /\ q[k] = pos[k] /\ k \in Int /\ h \in Int
        BY <2>1
      <3>2. Level(path, pos[k]) = Level(path, n) - (h - k)
        BY <1>2, <3>1
      <3> HIDE DEF f, q
      <3> QED BY <1>2, <1>3, <2>2, <2>3, <3>1, <3>2
    <2>9. \A k, m \in 1 .. h - 1 : k < m => q[k] < q[m]
      BY <1>2, <2>1
    <2> HIDE DEF q, f
    <2>10. IsTrail(q, path, n + 1, f)
      BY <2>3, <2>6, <2>7, <2>8, <2>9 DEF IsTrail
    <2> QED BY <2>2, <2>10 DEF c
  <1>10. CASE c \notin {Here, Up}
    <2> DEFINE q == [k \in 1 .. h + 1 |-> IF k = h + 1 THEN n + 1 ELSE pos[k]]
               f == Append(out, c)
    <2>1. Walk(out, c) = f /\ Level(path, n + 1) = Level(path, n) + 1
      BY <1>3, <1>4, <1>10 DEF Walk
    <2>2. /\ f \in Path /\ Len(f) = h + 1 /\ f[h + 1] = c
          /\ \A k \in 1 .. h : f[k] = out[k]
      <3>1. out \in Seq(STRING) /\ c \in STRING
        BY <1>1 DEF Path
      <3> HIDE DEF f
      <3>2. /\ f \in Seq(STRING) /\ Len(f) = Len(out) + 1 /\ f[Len(out) + 1] = c
            /\ \A k \in 1 .. Len(out) : f[k] = out[k]
        <4>1. /\ Append(out, c) \in Seq(STRING)
              /\ Len(Append(out, c)) = Len(out) + 1
              /\ \A k \in 1 .. Len(out) : Append(out, c)[k] = out[k]
              /\ Append(out, c)[Len(out) + 1] = c
          BY <3>1, AppendIs
        <4> QED BY <4>1, Zenon DEF f
      <3> QED BY <3>2 DEF Path, h
    <2>3. \A k \in 1 .. h : Level(path, pos[k]) <= Level(path, n + 1)
      BY <1>1, <1>2, <1>3, <2>1
    <2>4. 1 .. h + 1 = (1 .. h) \cup {h + 1} /\ h + 1 \notin 1 .. h
      BY <1>1
    <2>5. q[h + 1] = n + 1 /\ \A k \in 1 .. h : q[k] = pos[k]
      BY <2>4
    <2>6. q \in [1 .. h + 1 -> 1 .. n + 1]
      BY <1>1, <1>2, <2>4
    <2> HIDE DEF q, f
    <2>7. Left(path, n + 1) = {q[k] : k \in 1 .. h + 1}
      <3>1. Left(path, n + 1) = Left(path, n) \cup {n + 1}
        BY <1>2, <1>5, <1>10, <2>3
      <3> QED BY <1>2, <2>4, <2>5, <3>1
    <2>8. \A k \in 1 .. h + 1 : /\ f[k] = path[q[k]]
                                /\ Level(path, q[k]) = Level(path, n + 1) - ((h + 1) - k)
      <3>1. ASSUME NEW k \in 1 .. h
            PROVE  /\ f[k] = path[q[k]]
                   /\ Level(path, q[k]) = Level(path, n + 1) - ((h + 1) - k)
        <4>1. Level(path, pos[k]) = Level(path, n) - (h - k) /\ k \in Int
          BY <1>2
        <4>2. Level(path, n) - (h - k) = Level(path, n + 1) - ((h + 1) - k)
          BY <1>1, <1>3, <2>1, <4>1
        <4> QED BY <1>2, <2>2, <2>5, <4>1, <4>2
      <3>2. f[h + 1] = path[q[h + 1]]
        BY <2>2, <2>5 DEF c
      <3>3. Level(path, q[h + 1]) = Level(path, n + 1) - ((h + 1) - (h + 1))
        BY <1>1, <1>3, <2>5
      <3> QED BY <2>4, <3>1, <3>2, <3>3
    <2>9. \A k, m \in 1 .. h + 1 : k < m => q[k] < q[m]
      <3> SUFFICES ASSUME NEW k \in 1 .. h + 1, NEW m \in 1 .. h + 1, k < m
                   PROVE  q[k] < q[m]
        OBVIOUS
      <3>1. k \in 1 .. h
        BY <1>1
      <3>2. CASE m \in 1 .. h
        BY <1>2, <2>5, <3>1, <3>2
      <3>3. CASE m = h + 1
        <4>1. pos[k] \in 1 .. n /\ q[k] = pos[k] /\ q[m] = n + 1
          BY <1>2, <2>5, <3>1, <3>3
        <4> QED BY <1>1, <4>1
      <3> QED BY <2>4, <3>2, <3>3
    <2>10. IsTrail(q, path, n + 1, f)
      BY <2>2, <2>6, <2>7, <2>8, <2>9 DEF IsTrail
    <2> QED BY <2>1, <2>10 DEF c
  <1> QED BY <1>7, <1>8, <1>9, <1>10

\* So at the end it has the names that the whole path leaves, in their order.
LEMMA NormalizeHasTrail ==
  ASSUME NEW path \in Path
  PROVE  /\ Normalize(path) \in Path
         /\ \E pos : IsTrail(pos, path, Len(path), Normalize(path))
  <1> DEFINE N == Len(path)
  <1>1. N \in Nat
    BY LenProperties DEF Path
  <1>2. PICK out \in [0 .. N -> Path] :
          /\ out[0] = <<>>
          /\ \A n \in 1 .. N : out[n] = Walk(out[n - 1], path[n])
          /\ Normalize(path) = out[N]
    BY NormalizeLoop
  <1> DEFINE S == {n \in 0 .. N : \E pos : IsTrail(pos, path, n, out[n])}
  <1>3. 0 \in S
    <2>1. Len(out[0]) = 0 /\ 1 .. 0 = {}
      BY <1>2
    <2>2. Left(path, 0) = {}
      BY <2>1 DEF Left
    <2> DEFINE pos == [k \in 1 .. 0 |-> 0]
    <2>3. pos \in [1 .. 0 -> 1 .. 0]
      BY <2>1
    <2> HIDE DEF pos
    <2>4. {pos[k] : k \in 1 .. 0} = {}
      BY <2>1
    <2>5. IsTrail(pos, path, 0, out[0])
      BY <2>1, <2>2, <2>3, <2>4 DEF IsTrail
    <2> QED BY <1>1, <2>5
  <1>4. ASSUME NEW n \in 0 .. N - 1, n \in S PROVE n + 1 \in S
    <2>1. PICK pos : IsTrail(pos, path, n, out[n])
      BY <1>4
    <2>2. n \in 0 .. N /\ n + 1 \in 1 .. N /\ n + 1 \in 0 .. N /\ (n + 1) - 1 = n
      BY <1>1
    <2>3. out[n] \in Path /\ out[n + 1] = Walk(out[n], path[n + 1])
      BY <1>2, <2>2
    <2>4. \E q : IsTrail(q, path, n + 1, Walk(out[n], path[n + 1]))
      BY <2>1, <2>3, WalkKeepsTrail
    <2> QED BY <2>2, <2>3, <2>4
  <1> HIDE DEF S
  <1>5. 0 .. N \subseteq S
    <2> HIDE DEF N
    <2> QED BY <1>1, <1>3, <1>4, BoundedInduction
  <1>6. N \in S /\ out[N] \in Path
    BY <1>1, <1>2, <1>5
  <1> QED BY <1>2, <1>6 DEF S

\* Normalize is what README.md's realization rule means by a target, for every
\* path: the loop and the meaning without one are the same.
THEOREM NormalizeIsMeant == \A path \in Path : Normalize(path) = Meant(path)
  <1> SUFFICES ASSUME NEW path \in Path PROVE Normalize(path) = Meant(path)
    OBVIOUS
  <1> DEFINE out == Normalize(path)
             h == Len(out)
             left == {i \in 1 .. Len(path) : Stays(path, i)}
  <1>1. Len(path) \in Nat /\ out \in Path
    BY NormalizeHasTrail, LenProperties DEF Path
  <1>2. PICK pos : IsTrail(pos, path, Len(path), out)
    BY NormalizeHasTrail
  <1>3. h \in Nat /\ out \in [1 .. h -> STRING] /\ DOMAIN out = 1 .. h
    BY <1>1, LenProperties DEF Path
  <1>4. left = {pos[k] : k \in 1 .. h}
    BY <1>2, StaysIsLeft DEF IsTrail
  <1>5. /\ pos \in [1 .. h -> Nat]
        /\ \A k, m \in 1 .. h : k < m => pos[k] < pos[m]
        /\ \A k \in 1 .. h : out[k] = path[pos[k]]
    BY <1>1, <1>2 DEF IsTrail
  <1> HIDE DEF left, out, h
  <1>6. /\ Cardinality(left) = h
        /\ \A k \in 1 .. h : Cardinality({j \in left : j < pos[k]}) = k - 1
    <2>1. Enumerates(pos, h, left)
      BY <1>4, <1>5 DEF Enumerates
    <2> QED BY <1>3, <2>1, Ranked
  <1>7. ASSUME NEW n \in 1 .. h
        PROVE  (CHOOSE i \in left : Cardinality({j \in left : j < i}) = n - 1) = pos[n]
    <2>1. pos[n] \in left /\ Cardinality({j \in left : j < pos[n]}) = n - 1
      BY <1>4, <1>6
    <2>2. ASSUME NEW i \in left, Cardinality({j \in left : j < i}) = n - 1
          PROVE  i = pos[n]
      <3>1. PICK k \in 1 .. h : i = pos[k]
        BY <1>4
      <3>2. k - 1 = n - 1
        BY <1>6, <2>2, <3>1
      <3>3. k = n
        BY <1>3, <3>2
      <3> QED BY <3>1, <3>3
    <2> QED BY <2>1, <2>2
  <1>8. Meant(path) = [n \in 1 .. h |-> out[n]]
    <2>1. Meant(path) = [n \in 1 .. h |->
             path[CHOOSE i \in left : Cardinality({j \in left : j < i}) = n - 1]]
      BY <1>6 DEF Meant, left
    <2>2. \A n \in 1 .. h :
             path[CHOOSE i \in left : Cardinality({j \in left : j < i}) = n - 1] = out[n]
      BY <1>5, <1>7
    <2> QED BY <2>1, <2>2
  <1>9. out = Meant(path)
    BY <1>3, <1>8
  <1> QED BY <1>9 DEF out

-----------------------------------------------------------------------------
(* Canonical paths.                                                        *)

\* Normalize leaves names only.
LEMMA NormalizeIsCanonical ==
  ASSUME NEW path \in Path
  PROVE  Canonical(Normalize(path))
  <1> DEFINE out == Normalize(path)
  <1>1. PICK pos : IsTrail(pos, path, Len(path), out)
    BY NormalizeHasTrail
  <1>2. out \in Path
    BY NormalizeHasTrail
  <1> HIDE DEF out
  <1>3. \A k \in 1 .. Len(out) : pos[k] \in Left(path, Len(path)) /\ out[k] = path[pos[k]]
    BY <1>1 DEF IsTrail
  <1>4. \A i \in Left(path, Len(path)) : path[i] \notin {Here, Up}
    BY DEF Left
  <1>5. Canonical(out)
    BY <1>2, <1>3, <1>4 DEF Canonical, Path
  <1> QED BY <1>5 DEF out

\* And it leaves a path of names alone.
LEMMA CanonicalStays ==
  ASSUME NEW path, Canonical(path)
  PROVE  Normalize(path) = path
  <1> DEFINE N == Len(path)
  <1>0. path \in Seq(STRING) /\ path \in Path /\ N \in Nat
    BY LenProperties DEF Canonical, Path
  <1>1. PICK out \in [0 .. N -> Path] :
          /\ out[0] = <<>>
          /\ \A n \in 1 .. N : out[n] = Walk(out[n - 1], path[n])
          /\ Normalize(path) = out[N]
    BY <1>0, NormalizeLoop
  <1> DEFINE S == {n \in 0 .. N : out[n] = SubSeq(path, 1, n)}
  <1>2. 0 \in S
    BY <1>0, <1>1, SubSeqEmpty
  <1>3. ASSUME NEW n \in 0 .. N - 1, n \in S PROVE n + 1 \in S
    <2>1. n + 1 \in 1 .. N /\ (n + 1) - 1 = n /\ n + 1 \in 0 .. N /\ n \in 0 .. N
      BY <1>0
    <2>2. out[n + 1] = Walk(out[n], path[n + 1])
      BY <1>1, <2>1
    <2>3. path[n + 1] # Here /\ path[n + 1] # Up /\ path[n + 1] \in STRING
      BY <1>0, <2>1 DEF Canonical
    <2>4. out[n + 1] = Append(out[n], path[n + 1])
      BY <2>2, <2>3 DEF Walk
    <2>5. out[n] = SubSeq(path, 1, n)
      BY <1>3
    <2>6. Append(SubSeq(path, 1, n), path[n + 1]) = SubSeq(path, 1, n + 1)
      BY <1>0, <2>1
    <2> QED BY <2>1, <2>4, <2>5, <2>6
  <1> HIDE DEF S
  <1>4. 0 .. N \subseteq S
    <2> HIDE DEF N
    <2> QED BY <1>0, <1>2, <1>3, BoundedInduction
  <1>5. N \in S
    BY <1>0, <1>4
  <1>6. out[N] = SubSeq(path, 1, N)
    BY <1>5 DEF S
  <1>7. SubSeq(path, 1, N) = path
    BY <1>0, SubSeqFull
  <1> QED BY <1>1, <1>6, <1>7

\* What the code asks of a target is what the first two rules say of it.
LEMMA RealizesIsDocumented ==
  ASSUME NEW target, Canonical(target)
  PROVE  /\ Realizes(target)
              <=> IsPrefix(ResolutionRoot, target) /\ ~ IsPrefix(BindTarget, target)
         /\ RealizedRel(target) = SubSeq(target, Len(ResolutionRoot) + 1, Len(target))
         /\ Realizes(target) => ResolutionRoot \o RealizedRel(target) = target
  <1>1. /\ Normalize(target) = target
        /\ Normalize(ResolutionRoot) = ResolutionRoot
        /\ Normalize(BindTarget) = BindTarget
    BY StorePathsAssumption, CanonicalStays DEF StorePathsAssumption
  <1>2. Realizes(target) <=> IsPrefix(ResolutionRoot, target) /\ ~ IsPrefix(BindTarget, target)
    BY <1>1 DEF Realizes, IsInside
  <1>3. RealizedRel(target) = SubSeq(target, Len(ResolutionRoot) + 1, Len(target))
    BY <1>1 DEF RealizedRel
  <1>4. ASSUME IsPrefix(ResolutionRoot, target)
        PROVE  ResolutionRoot \o SubSeq(target, Len(ResolutionRoot) + 1, Len(target)) = target
    <2> DEFINE r == Len(ResolutionRoot)
               N == Len(target)
    <2>1. target \in Seq(STRING) /\ ResolutionRoot \in Seq(STRING)
      BY StorePathsAssumption DEF Canonical, StorePathsAssumption
    <2>2. r \in Nat /\ N \in Nat /\ r <= N
      BY <1>4, <2>1, LenProperties DEF IsPrefix
    <2>3. ResolutionRoot = SubSeq(target, 1, r)
      <3>1. SubSeq(ResolutionRoot, 1, r) = SubSeq(target, 1, r)
        BY <1>4 DEF IsPrefix
      <3>2. SubSeq(ResolutionRoot, 1, r) = ResolutionRoot
        BY <2>1, SubSeqFull
      <3> QED BY <3>1, <3>2
    <2>4. SubSeq(target, 1, r) \o SubSeq(target, r + 1, N) = SubSeq(target, 1, N)
      <3> HIDE DEF r
      <3>1. 1 \in 1 .. Len(target) + 1 /\ r \in 1 - 1 .. Len(target) /\ N \in r .. Len(target)
        BY <2>2
      <3> QED BY <2>1, <3>1, ConcatAdjacentSubSeq
    <2>5. SubSeq(target, 1, N) = target
      BY <2>1, SubSeqFull
    <2> QED BY <2>3, <2>4, <2>5
  <1> QED BY <1>2, <1>3, <1>4
=============================================================================
