---------------------------- MODULE StoreProofs -----------------------------
(***************************************************************************)
(* Proofs about the shared store file system, for every farm, every store, *)
(* every limit on open files, and changes of both at any moment.           *)
(***************************************************************************)
EXTENDS PathProofs

(* A backing id is the open that made it: the inode's id is that of its    *)
(* handles, and no id is younger than the last handle given out.           *)
BackingInv ==
  /\ DOMAIN backingByHandle = DOMAIN opened
  /\ \A h \in DOMAIN opened :
       /\ opened[h] \in DOMAIN backingByInode
       /\ backingByInode[opened[h]] = backingByHandle[h]
  /\ \A ino \in DOMAIN backingByInode :
       backingByInode[ino].by \in Nat /\ backingByInode[ino].by <= nextFh
  /\ \A i, j \in DOMAIN backingByInode : backingByInode[i] = backingByInode[j] => i = j
  /\ IsFiniteSet(DOMAIN opened)
  /\ Cardinality(DOMAIN opened) <= MaxOpenFiles

StoreInv ==
  /\ TypeOK
  /\ InodesNamed
  /\ BackingInv

-----------------------------------------------------------------------------
(* Helpers.                                                                *)

\* What a name resolves to is a node, if it resolves to anything.
LEMMA ChildIsNode ==
  ASSUME NEW parent, NEW name, ResolveChild(parent, name) # NoNode
  PROVE  IsNode(ResolveChild(parent, name))
  <1>1. ASSUME NEW object PROVE KindOf(object) \in {"Dir", "File", "Symlink", "none"}
    BY DEF KindOf
  <1>2. ASSUME NEW target PROVE RealizedKind(target) \in {"RealizedDir", "File", "none"}
    BY DEF RealizedKind
  <1>3. ASSUME NEW b \in {"Bind", "Redirect"}, NEW rel, NEW k \in Kinds
        PROVE  IsNode(Node(b, rel, k))
    BY DEF IsNode, Node
  <1>4. CASE parent.backing = "Bind"
    <2> DEFINE rel == Append(parent.rel, name)
               object == At(farm, rel)
               target == ResolveTarget(BindTarget \o parent.rel, object)
    <2>1. KindOf(object) # "none"
      BY <1>4 DEF ResolveChild, ResolveBindChild
    <2>2. CASE object.type = "link" /\ RealizedKind(target) # "none"
      <3>1. ResolveChild(parent, name) = Node("Redirect", RealizedRel(target), RealizedKind(target))
        BY <1>4, <2>1, <2>2 DEF ResolveChild, ResolveBindChild
      <3> HIDE DEF target
      <3>2. RealizedKind(target) \in Kinds
        BY <1>2, <2>2 DEF Kinds
      <3> QED BY <1>3, <3>1, <3>2
    <2>3. CASE ~ (object.type = "link" /\ RealizedKind(target) # "none")
      <3>1. ResolveChild(parent, name) = Node("Bind", rel, KindOf(object))
        BY <1>4, <2>1, <2>3 DEF ResolveChild, ResolveBindChild
      <3> HIDE DEF object, rel
      <3>2. KindOf(object) \in Kinds
        BY <1>1, <2>1 DEF Kinds
      <3> QED BY <1>3, <3>1, <3>2
    <2> QED BY <2>2, <2>3
  <1>5. CASE parent.backing # "Bind"
    <2> DEFINE rel == Append(parent.rel, name)
               object == At(store, rel)
    <2>1. /\ KindOf(object) # "none"
          /\ ResolveChild(parent, name) = Node("Redirect", rel, KindOf(object))
      BY <1>5 DEF ResolveChild, ResolveRedirectChild
    <2> HIDE DEF object, rel
    <2>2. KindOf(object) \in Kinds
      BY <1>1, <2>1 DEF Kinds
    <2> QED BY <1>3, <2>1, <2>2
  <1> QED BY <1>4, <1>5

\* Of the names of a directory only finitely many are new.
LEMMA NewIsFinite ==
  ASSUME NEW names \in SUBSET Name, NEW new \in SUBSET names
  PROVE  Cardinality(new) \in Nat
  BY StoreViewAssumption, FS_Subset, FS_CardinalityType DEF StoreViewAssumption

-----------------------------------------------------------------------------
(* Numbers.                                                                *)

\* A lookup numbers its name, and moves nothing that is numbered.
LEMMA InternNumbers ==
  ASSUME TypeOK, InodesNamed, request # Idle, IsNode(request.node),
         Intern(request.parent, request.name, request.node)
  PROVE  /\ \A ino \in DOMAIN nodes' : ino \in Nat /\ IsNode(nodes'[ino])
         /\ DOMAIN lookupCache' \subseteq (DOMAIN nodes') \X Name
         /\ nextIno' \in Nat
         /\ DOMAIN nodes \subseteq DOMAIN nodes'
         /\ InodesNamed'
         /\ DOMAIN lookupCache \subseteq DOMAIN lookupCache'
         /\ \A k \in DOMAIN lookupCache : lookupCache'[k] = lookupCache[k]
  <1> DEFINE key == <<request.parent, request.name>>
             ino == InodeOf(key)
             node == request.node
  <1>1. /\ nodes' = Put(nodes, ino, node)
        /\ lookupCache' = Put(lookupCache, key, ino)
        /\ nextIno' = IF key \in DOMAIN lookupCache THEN nextIno ELSE nextIno + 1
        /\ key \in (DOMAIN nodes) \X Name
    BY DEF Intern, Numbered, TypeOK
  <1>2. /\ DOMAIN nodes' = DOMAIN nodes \cup {ino}
        /\ nodes'[ino] = node
        /\ \A i \in DOMAIN nodes : i # ino => nodes'[i] = nodes[i]
        /\ DOMAIN lookupCache' = DOMAIN lookupCache \cup {key}
        /\ lookupCache'[key] = ino
        /\ \A k \in DOMAIN lookupCache : k # key => lookupCache'[k] = lookupCache[k]
    BY <1>1 DEF Put
  <1> HIDE DEF key
  <1>3. CASE key \in DOMAIN lookupCache
    <2>1. ino = lookupCache[key] /\ nextIno' = nextIno
      BY <1>1, <1>3 DEF InodeOf
    <2>2. ino \in DOMAIN nodes \ {Root}
      BY <1>3, <2>1 DEF InodesNamed
    <2>3. DOMAIN nodes' = DOMAIN nodes /\ DOMAIN lookupCache' = DOMAIN lookupCache
      BY <1>2, <1>3, <2>2
    <2>4. \A k \in DOMAIN lookupCache : lookupCache'[k] = lookupCache[k]
      BY <1>2, <2>1
    <2> HIDE DEF ino
    <2> QED
      BY <1>2, <2>1, <2>2, <2>3, <2>4 DEF TypeOK, InodesNamed
  <1>4. CASE key \notin DOMAIN lookupCache
    <2>1. ino = nextIno /\ nextIno' = nextIno + 1
      BY <1>1, <1>4 DEF InodeOf
    <2> HIDE DEF ino
    <2>2. ino \notin DOMAIN nodes /\ ino # Root
      BY <2>1 DEF InodesNamed, TypeOK
    <2>3. \A k \in DOMAIN lookupCache : lookupCache'[k] = lookupCache[k] /\ lookupCache[k] # ino
      BY <1>2, <1>4, <2>2 DEF InodesNamed
    <2>4. InodesNamed'
      <3>1. \A k, l \in DOMAIN lookupCache' : lookupCache'[k] = lookupCache'[l] => k = l
        BY <1>2, <2>3 DEF InodesNamed
      <3>2. {lookupCache'[k] : k \in DOMAIN lookupCache'}
              = {lookupCache[k] : k \in DOMAIN lookupCache} \cup {ino}
        BY <1>2, <2>3
      <3>3. {lookupCache'[k] : k \in DOMAIN lookupCache'} = DOMAIN nodes' \ {Root}
        BY <1>2, <2>2, <3>2 DEF InodesNamed
      <3>4. Root \in DOMAIN nodes' /\ \A i \in DOMAIN nodes' : i < nextIno'
        BY <1>2, <2>1 DEF InodesNamed, TypeOK
      <3> QED BY <3>1, <3>3, <3>4 DEF InodesNamed
    <2> QED
      BY <1>1, <1>2, <2>1, <2>3, <2>4 DEF TypeOK
  <1> QED BY <1>3, <1>4

\* So does a page of a directory, for all its entries at once.
LEMMA InternAllNumbers ==
  ASSUME TypeOK, InodesNamed, NEW ino \in DOMAIN nodes,
         NEW names \in SUBSET Name,
         \A n \in names : ResolveChild(nodes[ino], n) # NoNode,
         InternAll(ino, names)
  PROVE  /\ \A i \in DOMAIN nodes' : i \in Nat /\ IsNode(nodes'[i])
         /\ DOMAIN lookupCache' \subseteq (DOMAIN nodes') \X Name
         /\ nextIno' \in Nat
         /\ DOMAIN nodes \subseteq DOMAIN nodes'
         /\ InodesNamed'
         /\ DOMAIN lookupCache \subseteq DOMAIN lookupCache'
         /\ \A k \in DOMAIN lookupCache : lookupCache'[k] = lookupCache[k]
  <1> DEFINE new == {n \in names : <<ino, n>> \notin DOMAIN lookupCache}
             last == nextIno + Cardinality(new) - 1
             inoOf(number) ==
               [n \in names |-> IF n \in new THEN number[n] ELSE lookupCache[<<ino, n>>]]
  <1>0. Cardinality(new) \in Nat
    BY NewIsFinite
  <1>1. PICK number \in [new -> nextIno .. last] :
          /\ \A m, n \in new : number[m] = number[n] => m = n
          /\ nodes' = [i \in DOMAIN nodes \cup {inoOf(number)[n] : n \in names} |->
                        IF \E n \in names : inoOf(number)[n] = i
                        THEN ResolveChild(nodes[ino], CHOOSE n \in names : inoOf(number)[n] = i)
                        ELSE nodes[i]]
          /\ lookupCache' = [k \in DOMAIN lookupCache \cup ({ino} \X names) |->
                              IF k \in {ino} \X names THEN inoOf(number)[k[2]] ELSE lookupCache[k]]
          /\ nextIno' = nextIno + Cardinality(new)
    BY DEF InternAll
  <1> DEFINE of == inoOf(number)
  <1>2. \A n \in names : of[n] = IF n \in new THEN number[n] ELSE lookupCache[<<ino, n>>]
    OBVIOUS
  <1>3. /\ DOMAIN nodes' = DOMAIN nodes \cup {of[n] : n \in names}
        /\ DOMAIN lookupCache' = DOMAIN lookupCache \cup ({ino} \X names)
        /\ \A n \in names : lookupCache'[<<ino, n>>] = of[n]
        /\ \A k \in DOMAIN lookupCache : k \notin {ino} \X names => lookupCache'[k] = lookupCache[k]
    BY <1>1
  <1>4. nextIno' \in Nat /\ nextIno' = nextIno + Cardinality(new)
    BY <1>0, <1>1 DEF TypeOK
  <1>5. \A n \in new : number[n] \in nextIno .. nextIno' - 1
    BY <1>0, <1>1, <1>4 DEF TypeOK
  <1>6. \A n \in names \ new : of[n] \in DOMAIN nodes \ {Root}
    BY <1>2 DEF InodesNamed
  <1>7. \A i \in DOMAIN nodes' : IsNode(nodes'[i])
    <2>1. ASSUME NEW i \in DOMAIN nodes', NEW m \in names, of[m] = i
          PROVE  IsNode(nodes'[i])
      <3> DEFINE n == CHOOSE n \in names : of[n] = i
      <3>1. n \in names
        BY <2>1
      <3>2. nodes'[i] = ResolveChild(nodes[ino], n)
        BY <1>1, <2>1
      <3> QED BY <3>1, <3>2, ChildIsNode
    <2>2. ASSUME NEW i \in DOMAIN nodes', ~ \E n \in names : of[n] = i
          PROVE  IsNode(nodes'[i])
      <3>1. i \in DOMAIN nodes /\ nodes'[i] = nodes[i]
        BY <1>1, <1>3, <2>2
      <3> QED BY <3>1 DEF TypeOK
    <2> QED BY <2>1, <2>2
  <1> HIDE DEF of, inoOf, last
  <1>8. \A k \in DOMAIN lookupCache : lookupCache'[k] = lookupCache[k]
    <2> SUFFICES ASSUME NEW k \in DOMAIN lookupCache, k \in {ino} \X names
                 PROVE  lookupCache'[k] = lookupCache[k]
      BY <1>3
    <2>1. PICK n \in names : k = <<ino, n>>
      OBVIOUS
    <2> QED BY <1>2, <1>3, <2>1
  <1>9. \A k \in DOMAIN lookupCache' \ DOMAIN lookupCache :
          \E n \in new : k = <<ino, n>> /\ lookupCache'[k] = number[n]
    <2> SUFFICES ASSUME NEW k \in DOMAIN lookupCache', k \notin DOMAIN lookupCache
                 PROVE  \E n \in new : k = <<ino, n>> /\ lookupCache'[k] = number[n]
      OBVIOUS
    <2>1. PICK n \in names : k = <<ino, n>>
      BY <1>3
    <2> QED BY <1>2, <1>3, <2>1
  <1>10. \A n \in new : <<ino, n>> \in DOMAIN lookupCache' /\ lookupCache'[<<ino, n>>] = number[n]
    BY <1>2, <1>3
  <1>11. DOMAIN nodes' = DOMAIN nodes \cup {number[n] : n \in new}
    <2>1. new \subseteq names /\ \A n \in new : of[n] = number[n]
      BY <1>2
    <2> HIDE DEF new
    <2>2. {of[n] : n \in names} \subseteq DOMAIN nodes \cup {number[n] : n \in new}
      BY <1>6, <2>1
    <2>3. {number[n] : n \in new} \subseteq {of[n] : n \in names}
      BY <2>1
    <2> QED BY <1>3, <2>2, <2>3
  <1> HIDE DEF new
  <1>12. InodesNamed'
    <2>1. \A k \in DOMAIN lookupCache : lookupCache[k] < nextIno /\ lookupCache[k] \in Nat /\ lookupCache[k] # Root
      BY DEF InodesNamed, TypeOK
    <2>2. \A k, l \in DOMAIN lookupCache' : lookupCache'[k] = lookupCache'[l] => k = l
      <3> SUFFICES ASSUME NEW k \in DOMAIN lookupCache', NEW l \in DOMAIN lookupCache',
                          lookupCache'[k] = lookupCache'[l]
                   PROVE  k = l
        OBVIOUS
      <3>1. CASE k \in DOMAIN lookupCache /\ l \in DOMAIN lookupCache
        BY <1>8, <3>1 DEF InodesNamed
      <3>2. CASE k \notin DOMAIN lookupCache /\ l \notin DOMAIN lookupCache
        <4>1. PICK m \in new : k = <<ino, m>> /\ lookupCache'[k] = number[m]
          BY <1>9, <3>2
        <4>2. PICK n \in new : l = <<ino, n>> /\ lookupCache'[l] = number[n]
          BY <1>9, <3>2
        <4> QED BY <1>1, <4>1, <4>2
      <3>3. CASE k \in DOMAIN lookupCache /\ l \notin DOMAIN lookupCache
        BY <1>5, <1>8, <1>9, <2>1, <3>3 DEF TypeOK
      <3>4. CASE k \notin DOMAIN lookupCache /\ l \in DOMAIN lookupCache
        BY <1>5, <1>8, <1>9, <2>1, <3>4 DEF TypeOK
      <3> QED BY <3>1, <3>2, <3>3, <3>4
    <2>3. Root < nextIno
      BY DEF InodesNamed
    <2>4. \A n \in new : number[n] # Root
      BY <1>5, <2>3 DEF TypeOK, Root
    <2>5. DOMAIN lookupCache \subseteq DOMAIN lookupCache'
      BY <1>3
    <2>6. {lookupCache'[k] : k \in DOMAIN lookupCache'}
            = {lookupCache[k] : k \in DOMAIN lookupCache} \cup {number[n] : n \in new}
      <3>1. \A k \in DOMAIN lookupCache' :
              lookupCache'[k] \in {lookupCache[l] : l \in DOMAIN lookupCache} \cup {number[n] : n \in new}
        BY <1>8, <1>9
      <3>2. \A k \in DOMAIN lookupCache : lookupCache[k] \in {lookupCache'[l] : l \in DOMAIN lookupCache'}
        BY <1>8, <2>5
      <3>3. \A n \in new : number[n] \in {lookupCache'[l] : l \in DOMAIN lookupCache'}
        BY <1>10
      <3> QED BY <3>1, <3>2, <3>3
    <2>7. {lookupCache'[k] : k \in DOMAIN lookupCache'} = DOMAIN nodes' \ {Root}
      BY <1>11, <2>4, <2>6 DEF InodesNamed
    <2>8. Root \in DOMAIN nodes' /\ \A i \in DOMAIN nodes' : i < nextIno'
      BY <1>0, <1>4, <1>5, <1>11 DEF InodesNamed, TypeOK
    <2> QED BY <2>2, <2>7, <2>8 DEF InodesNamed
  <1>13. \A i \in DOMAIN nodes' : i \in Nat
    BY <1>4, <1>5, <1>11 DEF TypeOK
  <1>14. DOMAIN lookupCache' \subseteq (DOMAIN nodes') \X Name
    BY <1>3, <1>11 DEF TypeOK
  <1> QED BY <1>3, <1>4, <1>7, <1>8, <1>11, <1>12, <1>13, <1>14

-----------------------------------------------------------------------------
(* Open files.                                                             *)

\* A handle handed out for an inode, with the backing id that is the inode's.
LEMMA HandKeeps ==
  ASSUME BackingInv, nextFh \in Nat, ~ AtLimit,
         \A h \in DOMAIN opened : h \in 1 .. nextFh,
         NEW ino, NEW id, NEW byInode,
         nextFh' = nextFh + 1,
         Hand(nextFh', ino, id),
         backingByInode' = byInode,
         ino \in DOMAIN byInode, byInode[ino] = id,
         \A h \in DOMAIN opened : opened[h] \in DOMAIN byInode /\ byInode[opened[h]] = backingByInode[opened[h]],
         \A i \in DOMAIN byInode : byInode[i].by \in Nat /\ byInode[i].by <= nextFh',
         \A i, j \in DOMAIN byInode : byInode[i] = byInode[j] => i = j
  PROVE  BackingInv'
  <1> DEFINE fh == nextFh'
  <1>1. /\ DOMAIN opened' = DOMAIN opened \cup {fh}
        /\ DOMAIN backingByHandle' = DOMAIN opened'
        /\ opened'[fh] = ino /\ backingByHandle'[fh] = id
        /\ \A h \in DOMAIN opened \ {fh} :
             opened'[h] = opened[h] /\ backingByHandle'[h] = backingByHandle[h]
    BY DEF Hand, Put, BackingInv
  <1>2. fh \notin DOMAIN opened
    OBVIOUS
  <1>3. IsFiniteSet(DOMAIN opened') /\ Cardinality(DOMAIN opened') = Cardinality(DOMAIN opened) + 1
    BY <1>1, <1>2, FS_AddElement DEF BackingInv
  <1>4. Cardinality(DOMAIN opened') <= MaxOpenFiles
    <2>1. Cardinality(DOMAIN opened) \in Nat /\ Cardinality(DOMAIN opened) < MaxOpenFiles
      BY FS_CardinalityType, StoreViewAssumption DEF BackingInv, AtLimit, StoreViewAssumption
    <2> QED BY <1>3, <2>1, StoreViewAssumption DEF StoreViewAssumption
  <1>5. \A h \in DOMAIN opened' :
          opened'[h] \in DOMAIN byInode /\ byInode[opened'[h]] = backingByHandle'[h]
    BY <1>1, <1>2 DEF BackingInv
  <1> QED BY <1>1, <1>3, <1>4, <1>5 DEF BackingInv

\* What an open may do to the files.
Opens(ino) ==
  /\ BackingInv'
  /\ nextFh' \in Nat
  /\ \A fh \in DOMAIN opened' : fh \in 1 .. nextFh' /\ opened'[fh] \in DOMAIN nodes
  /\ \/ UNCHANGED <<opened, backingByHandle>>
     \/ \E fh \in DOMAIN opened' : Service!Open(fh)
  /\ \A fh \in DOMAIN opened' \ DOMAIN opened :
       \/ \E h \in DOMAIN opened : opened[h] = opened'[fh]
       \/ /\ backingByHandle'[fh].file = Named(nodes[opened'[fh]])
          /\ backingByHandle'[fh].file.object.type = "file"

\* An open leaves the files as they were, or hands out one handle; and the
\* file of an inode that had no handle is the one its node names now.
LEMMA OpenKeeps ==
  ASSUME StoreInv, NEW ino \in DOMAIN nodes, Open(ino)
  PROVE  Opens(ino)
  <1> DEFINE fh == nextFh + 1
             id == [by |-> fh, file |-> Named(nodes[ino])]
  <1>0. /\ fh \in Nat /\ nextFh \in Nat
        /\ \A h \in DOMAIN opened : h \in 1 .. nextFh /\ opened[h] \in DOMAIN nodes
        /\ BackingInv
        /\ fh \notin DOMAIN opened
        /\ UNCHANGED lookupCache
    BY DEF Open, StoreInv, TypeOK, nodeVars
  <1>1. CASE UNCHANGED fileVars
    BY <1>0, <1>1 DEF Opens, BackingInv, fileVars
  <1>2. CASE nodes[ino].kind = "File" /\ ~ AtLimit /\ BackingGetOr(ino, nodes[ino])
    <2>0. nextFh' = fh
      BY <1>2 DEF BackingGetOr
    <2>1. ASSUME NEW k, Hand(fh, ino, k), BackingInv',
                 \A h \in DOMAIN opened : k = backingByHandle[h] <=> ino = opened[h],
                 \/ \E h \in DOMAIN opened : opened[h] = ino
                 \/ k = id /\ Named(nodes[ino]).object.type = "file"
          PROVE  Opens(ino)
      <3>1. /\ DOMAIN opened' = DOMAIN opened \cup {fh}
            /\ DOMAIN backingByHandle' = DOMAIN opened'
            /\ opened'[fh] = ino /\ backingByHandle'[fh] = k
            /\ \A h \in DOMAIN opened :
                 opened'[h] = opened[h] /\ backingByHandle'[h] = backingByHandle[h]
        BY <1>0, <2>1 DEF Hand, Put, BackingInv
      <3>3. Service!Open(fh)
        <4>1. /\ fh \notin DOMAIN opened
              /\ DOMAIN opened' = DOMAIN opened \cup {fh}
              /\ DOMAIN backingByHandle' = DOMAIN opened'
              /\ UNCHANGED lookupCache
          BY <1>0, <3>1
        <4>2. \A g \in DOMAIN opened :
                /\ opened'[g] = opened[g]
                /\ backingByHandle'[g] = backingByHandle[g]
                /\ backingByHandle'[fh] = backingByHandle[g] <=> opened'[fh] = opened[g]
          BY <2>1, <3>1
        <4> HIDE DEF fh, id
        <4> QED BY <4>1, <4>2 DEF Service!Open
      <3>4. \A h \in DOMAIN opened' : h \in 1 .. nextFh' /\ opened'[h] \in DOMAIN nodes
        BY <1>0, <2>0, <3>1
      <3> QED BY <1>0, <2>0, <2>1, <3>1, <3>3, <3>4 DEF Opens
    <2>2. CASE Shared(ino) /\ Hand(fh, ino, backingByInode[ino]) /\ UNCHANGED backingByInode
      <3>1. BackingInv'
        BY <1>0, <1>2, <2>0, <2>2, HandKeeps DEF BackingInv, Shared
      <3>2. \A h \in DOMAIN opened : backingByInode[ino] = backingByHandle[h] <=> ino = opened[h]
        BY <1>0, <2>2 DEF BackingInv, Shared
      <3>3. \E h \in DOMAIN opened : opened[h] = ino
        BY <1>0, <2>2, <3>2 DEF BackingInv, Shared
      <3> QED BY <2>1, <2>2, <3>1, <3>2, <3>3
    <2>3. CASE /\ ~ Shared(ino)
               /\ Named(nodes[ino]).object.type = "file"
               /\ backingByInode' = Put(backingByInode, ino, id)
               /\ Hand(fh, ino, id)
      <3> DEFINE byInode == Put(backingByInode, ino, id)
      <3>1. /\ DOMAIN byInode = DOMAIN backingByInode \cup {ino}
            /\ byInode[ino] = id
            /\ \A i \in DOMAIN backingByInode \ {ino} : byInode[i] = backingByInode[i]
        BY DEF Put
      <3>2. id.by = fh
        OBVIOUS
      <3>3. \A h \in DOMAIN opened : opened[h] # ino
        BY <1>0, <2>3 DEF BackingInv, Shared
      <3>4. \A h \in DOMAIN opened : backingByHandle[h].by <= nextFh /\ backingByHandle[h].by \in Nat
        BY <1>0 DEF BackingInv
      <3>5. \A h \in DOMAIN opened :
              opened[h] \in DOMAIN byInode /\ byInode[opened[h]] = backingByInode[opened[h]]
        BY <1>0, <3>1, <3>3 DEF BackingInv
      <3>6. \A i \in DOMAIN byInode : byInode[i].by \in Nat /\ byInode[i].by <= fh
        BY <1>0, <3>1, <3>2 DEF BackingInv
      <3>7. \A i, j \in DOMAIN byInode : byInode[i] = byInode[j] => i = j
        <4>1. \A i \in DOMAIN backingByInode : backingByInode[i].by # id.by
          BY <1>0, <3>2 DEF BackingInv
        <4> HIDE DEF id
        <4> QED BY <1>0, <3>1, <4>1 DEF BackingInv
      <3> HIDE DEF id, byInode
      <3>8. BackingInv'
        BY <1>0, <1>2, <2>0, <2>3, <3>1, <3>5, <3>6, <3>7, HandKeeps DEF byInode
      <3>9. \A h \in DOMAIN opened : id = backingByHandle[h] <=> ino = opened[h]
        BY <1>0, <3>2, <3>3, <3>4
      <3> QED BY <2>1, <2>3, <3>8, <3>9
    <2>4. CASE ~ Shared(ino) /\ Refuse(ino)
      BY <1>0, <2>0, <2>4 DEF Refuse, Opens, BackingInv
    <2> QED BY <1>2, <2>0, <2>2, <2>3, <2>4 DEF BackingGetOr
  <1> QED BY <1>1, <1>2 DEF Open

\* A release takes one handle away and nothing else.
LEMMA ReleaseKeeps ==
  ASSUME StoreInv, NEW fh \in DOMAIN opened, Release(fh)
  PROVE  BackingInv' /\ Service!Close(fh)
  <1>1. /\ BackingInv /\ nextFh' = nextFh /\ UNCHANGED <<backingByInode, lookupCache>>
        /\ opened' = [h \in DOMAIN opened \ {fh} |-> opened[h]]
        /\ backingByHandle' = [h \in DOMAIN opened \ {fh} |-> backingByHandle[h]]
    BY DEF StoreInv, Release, nodeVars, BackingInv
  <1>2. /\ IsFiniteSet(DOMAIN opened')
        /\ Cardinality(DOMAIN opened') <= MaxOpenFiles
    <2>1. /\ IsFiniteSet(DOMAIN opened \ {fh})
          /\ Cardinality(DOMAIN opened \ {fh}) = Cardinality(DOMAIN opened) - 1
      BY <1>1, FS_RemoveElement DEF BackingInv
    <2>2. Cardinality(DOMAIN opened) \in Nat
      BY <1>1, FS_CardinalityType DEF BackingInv
    <2> QED BY <1>1, <2>1, <2>2, StoreViewAssumption DEF BackingInv, StoreViewAssumption
  <1>3. BackingInv'
    BY <1>1, <1>2 DEF BackingInv
  <1> QED BY <1>1, <1>3 DEF Service!Close

-----------------------------------------------------------------------------
(* The invariant.                                                          *)

LEMMA StoreInit == Init => StoreInv
  <1> SUFFICES ASSUME Init PROVE StoreInv
    OBVIOUS
  <1>1. DOMAIN nodes = {Root} /\ nodes[Root] = Node("Bind", <<>>, "Dir")
    BY DEF Init, Put
  <1>2. IsNode(nodes[Root])
    BY <1>1 DEF Node, IsNode, Kinds
  <1>3. /\ DOMAIN lookupCache = {} /\ DOMAIN opened = {} /\ DOMAIN backingByHandle = {}
        /\ DOMAIN backingByInode = {}
    BY DEF Init
  <1>4. TypeOK
    BY <1>1, <1>2, <1>3 DEF Init, TypeOK, Root, Idle, NoScan
  <1>5. InodesNamed
    BY <1>1, <1>3 DEF Init, InodesNamed, Root
  <1>6. BackingInv
    BY <1>3, FS_EmptySet, StoreViewAssumption DEF BackingInv, StoreViewAssumption
  <1> QED BY <1>4, <1>5, <1>6 DEF StoreInv

\* The lookups and the pages: how the numbers move.
Numbers ==
  /\ TypeOK'
  /\ InodesNamed'
  /\ Service!Number
  /\ UNCHANGED fileVars

\* What a step does: it numbers names, or opens, or closes, or neither.
StoreStep ==
  \/ Numbers
  \/ /\ TypeOK' /\ UNCHANGED nodeVars
     /\ \/ UNCHANGED fileVars
        \/ \E ino \in DOMAIN nodes : Opens(ino)
        \/ \E fh \in DOMAIN opened : BackingInv' /\ Service!Close(fh)

LEMMA StepIsOne == StoreInv /\ [Next]_vars => StoreStep
  <1> SUFFICES ASSUME StoreInv, [Next]_vars PROVE StoreStep
    OBVIOUS
  <1>t. TypeOK /\ InodesNamed /\ BackingInv
    BY DEF StoreInv
  <1>1. ASSUME NEW ino \in DOMAIN nodes, NEW n \in Name, Lookup(ino, n) PROVE StoreStep
    <2>1. UNCHANGED <<nodeVars, fileVars, scan>>
      BY <1>1 DEF Lookup
    <2>2. CASE UNCHANGED request
      BY <1>t, <2>1, <2>2 DEF StoreStep, TypeOK, nodeVars, fileVars
    <2>3. CASE /\ ResolveChild(nodes[ino], n) # NoNode
               /\ request' = [name |-> n, parent |-> ino, node |-> ResolveChild(nodes[ino], n)]
      <3>1. IsNode(ResolveChild(nodes[ino], n))
        BY <2>3, ChildIsNode
      <3> DEFINE child == ResolveChild(nodes[ino], n)
      <3> HIDE DEF child
      <3>2. /\ DOMAIN request' = {"name", "parent", "node"}
            /\ request'.parent = ino /\ request'.name = n /\ request'.node = child
        BY <2>3 DEF child
      <3>3. TypeOK'
        BY <1>t, <2>1, <3>1, <3>2 DEF TypeOK, nodeVars, fileVars, child
      <3> QED BY <2>1, <3>3 DEF StoreStep
    <2> QED BY <1>1, <2>2, <2>3 DEF Lookup
  <1>2. CASE LookupAttr
    <2>1. /\ UNCHANGED fileVars /\ request' = Idle /\ request # Idle /\ IsNode(request.node)
      BY <1>2, <1>t DEF LookupAttr, TypeOK
    <2>2. CASE Intern(request.parent, request.name, request.node)
      <3>1. /\ \A i \in DOMAIN nodes' : i \in Nat /\ IsNode(nodes'[i])
            /\ DOMAIN lookupCache' \subseteq (DOMAIN nodes') \X Name
            /\ nextIno' \in Nat
            /\ DOMAIN nodes \subseteq DOMAIN nodes'
            /\ InodesNamed'
            /\ DOMAIN lookupCache \subseteq DOMAIN lookupCache'
            /\ \A k \in DOMAIN lookupCache : lookupCache'[k] = lookupCache[k]
        BY <1>t, <2>1, <2>2, InternNumbers
      <3>2. scan' # NoScan => scan'.ino \in DOMAIN nodes'
        <4>1. scan' = scan \/ (scan # NoScan /\ scan' = [scan EXCEPT !.calm = FALSE])
          BY <2>2 DEF Intern, Numbered, Seen
        <4>2. scan # NoScan => scan.ino \in DOMAIN nodes'
          BY <1>t, <3>1 DEF TypeOK
        <4>3. scan' = [scan EXCEPT !.calm = FALSE] => scan'.ino = scan.ino
          OBVIOUS
        <4>4. scan' # NoScan => scan # NoScan /\ scan'.ino = scan.ino
          BY <4>1, <4>3
        <4> QED BY <4>2, <4>4
      <3>3. TypeOK'
        BY <1>t, <2>1, <3>1, <3>2 DEF TypeOK, fileVars
      <3>4. Service!Number
        BY <2>1, <3>1 DEF Service!Number, InodesNamed, fileVars
      <3> QED BY <2>1, <3>1, <3>3, <3>4 DEF StoreStep, Numbers
    <2>3. CASE UNCHANGED <<nodeVars, scan>>
      BY <1>t, <2>1, <2>3 DEF StoreStep, TypeOK, nodeVars, fileVars
    <2> QED BY <1>2, <2>2, <2>3 DEF LookupAttr
  <1>3. ASSUME NEW size, ReadDir(size) PROVE StoreStep
    <2>1. /\ UNCHANGED <<fileVars, request>> /\ scan # NoScan /\ scan.ino \in DOMAIN nodes
      BY <1>3, <1>t DEF ReadDir, TypeOK
    <2>2. CASE UNCHANGED <<nodeVars, scan>>
      BY <1>t, <2>1, <2>2 DEF StoreStep, TypeOK, nodeVars, fileVars
    <2>3. CASE \E names \in {Listed(nodes[scan.ino])} : InternAll(scan.ino, names) /\ Page(names, size)
      <3>1. PICK names \in {Listed(nodes[scan.ino])} : InternAll(scan.ino, names) /\ Page(names, size)
        BY <2>3
      <3>2. names \in SUBSET Name /\ \A n \in names : ResolveChild(nodes[scan.ino], n) # NoNode
        BY <3>1 DEF Listed, Entries
      <3>3. /\ \A i \in DOMAIN nodes' : i \in Nat /\ IsNode(nodes'[i])
            /\ DOMAIN lookupCache' \subseteq (DOMAIN nodes') \X Name
            /\ nextIno' \in Nat
            /\ DOMAIN nodes \subseteq DOMAIN nodes'
            /\ InodesNamed'
            /\ DOMAIN lookupCache \subseteq DOMAIN lookupCache'
            /\ \A k \in DOMAIN lookupCache : lookupCache'[k] = lookupCache[k]
        BY <1>t, <2>1, <3>1, <3>2, InternAllNumbers
      <3>4. scan'.ino = scan.ino
        BY <3>1 DEF Page
      <3>5. TypeOK'
        BY <1>t, <2>1, <3>3, <3>4 DEF TypeOK, fileVars
      <3>6. Service!Number
        BY <2>1, <3>3 DEF Service!Number, InodesNamed, fileVars
      <3> QED BY <2>1, <3>3, <3>5, <3>6 DEF StoreStep, Numbers
    <2> QED BY <1>3, <2>2, <2>3 DEF ReadDir
  <1>4. ASSUME NEW ino \in DOMAIN nodes, Open(ino) PROVE StoreStep
    <2>1. Opens(ino)
      BY <1>4, OpenKeeps
    <2>2. UNCHANGED <<nodeVars, request, scan>>
      BY <1>4 DEF Open
    <2>3. TypeOK'
      BY <1>t, <2>1, <2>2 DEF TypeOK, nodeVars, Opens
    <2> QED BY <2>1, <2>2, <2>3 DEF StoreStep
  <1>5. ASSUME NEW fh \in DOMAIN opened, Release(fh) PROVE StoreStep
    <2>1. BackingInv' /\ Service!Close(fh)
      BY <1>5, ReleaseKeeps
    <2>2. UNCHANGED <<nodeVars, nextFh, request, scan>>
      BY <1>5 DEF Release
    <2>3. TypeOK'
      BY <1>t, <2>1, <2>2 DEF TypeOK, nodeVars, Service!Close
    <2> QED BY <2>1, <2>2, <2>3 DEF StoreStep
  <1>6. ASSUME UNCHANGED <<nodeVars, fileVars, request>>,
               \/ scan' = scan
               \/ scan' = NoScan
               \/ scan # NoScan /\ scan' = [scan EXCEPT !.calm = FALSE]
               \/ \E ino \in DOMAIN nodes : scan'.ino = ino
        PROVE  StoreStep
    <2>1. scan' # NoScan => scan'.ino \in DOMAIN nodes
      <3>1. scan # NoScan => scan.ino \in DOMAIN nodes
        BY <1>t DEF TypeOK
      <3>2. scan' = [scan EXCEPT !.calm = FALSE] => scan'.ino = scan.ino
        OBVIOUS
      <3> QED BY <1>6, <3>1, <3>2
    <2>2. TypeOK'
      BY <1>t, <1>6, <2>1 DEF TypeOK, nodeVars, fileVars
    <2> QED BY <1>6, <2>2 DEF StoreStep
  <1>7. ASSUME NEW ino \in DOMAIN nodes, GetAttr(ino) \/ ReadLink(ino) \/ Modify(ino) \/ OpenDir(ino)
        PROVE  StoreStep
    <2>1. CASE GetAttr(ino) \/ ReadLink(ino) \/ Modify(ino)
      BY <1>6, <2>1 DEF GetAttr, ReadLink, Modify
    <2>2. CASE OpenDir(ino)
      <3>1. UNCHANGED <<nodeVars, fileVars, request>>
        BY <2>2 DEF OpenDir
      <3>2. scan' = scan \/ scan'.ino = ino
        <4> DEFINE new == [ino |-> ino, offset |-> 0, got |-> {}, twice |-> FALSE,
                           calm |-> TRUE, done |-> FALSE]
        <4>1. new.ino = ino
          OBVIOUS
        <4> HIDE DEF new
        <4>2. scan' = scan \/ scan' = new
          BY <2>2 DEF OpenDir, new
        <4> QED BY <4>1, <4>2
      <3> QED BY <1>6, <3>1, <3>2
    <2> QED BY <1>7, <2>1, <2>2
  <1>8. CASE ReleaseDir
    BY <1>6, <1>8 DEF ReleaseDir
  <1>9. ASSUME NEW p, NEW o, ChangeFarm(p, o) \/ ChangeStore(p, o) PROVE StoreStep
    <2>1. UNCHANGED <<nodeVars, fileVars, request>> /\ Unsettle
      BY <1>9 DEF ChangeFarm, ChangeStore
    <2>2. scan' = scan \/ (scan # NoScan /\ scan' = [scan EXCEPT !.calm = FALSE])
      BY <2>1 DEF Unsettle
    <2> QED BY <1>6, <2>1, <2>2
  <1>10. CASE UNCHANGED vars
    BY <1>6, <1>10 DEF vars
  <1> QED
    BY <1>1, <1>2, <1>3, <1>4, <1>5, <1>7, <1>8, <1>9, <1>10 DEF Next, Serve

LEMMA StoreNext == StoreInv /\ [Next]_vars => StoreInv'
  <1> SUFFICES ASSUME StoreInv, [Next]_vars PROVE StoreInv'
    OBVIOUS
  <1>1. StoreStep
    BY StepIsOne
  <1>2. TypeOK /\ InodesNamed /\ BackingInv
    BY DEF StoreInv
  <1>3. CASE Numbers
    <2>1. BackingInv'
      BY <1>2, <1>3 DEF Numbers, BackingInv, fileVars
    <2> QED BY <1>3, <2>1 DEF StoreInv, Numbers
  <1>4. CASE TypeOK' /\ UNCHANGED nodeVars
    <2>1. InodesNamed'
      BY <1>2, <1>4 DEF InodesNamed, nodeVars
    <2>2. UNCHANGED fileVars => BackingInv'
      BY <1>2 DEF BackingInv, fileVars
    <2>3. BackingInv' \/ Numbers
      BY <1>1, <2>2 DEF StoreStep, Opens
    <2> QED BY <1>3, <1>4, <2>1, <2>3 DEF StoreInv
  <1> QED BY <1>1, <1>3, <1>4 DEF StoreStep

-----------------------------------------------------------------------------
(* What follows for every behaviour.                                       *)

\* StoreInv holds throughout, so the types do and no device is ever a node.
THEOREM StoreTypes == Spec => []TypeOK
  <1>1. StoreInv => TypeOK
    BY DEF StoreInv
  <1> QED BY <1>1, StoreInit, StoreNext, PTL DEF Spec

\* Two names never share an inode, and every inode given out has its node.
THEOREM InodesAreNamed == Spec => []InodesNamed
  <1>1. StoreInv => InodesNamed
    BY DEF StoreInv
  <1> QED BY <1>1, StoreInit, StoreNext, PTL DEF Spec

\* The handles of an inode share a backing file, no two inodes do, and there
\* are never more handles than the limit.
THEOREM BackingsAreShared == Spec => []OneBackingPerInode
  <1>1. StoreInv => OneBackingPerInode
    BY DEF StoreInv, BackingInv, OneBackingPerInode
  <1> QED BY <1>1, StoreInit, StoreNext, PTL DEF Spec

\* A file is never served from handles long closed, whatever changed since.
THEOREM OpensAreFresh == Spec => FreshAfterClose
  <1> DEFINE Fresh ==
        \A fh \in DOMAIN opened' \ DOMAIN opened :
          \/ \E h \in DOMAIN opened : opened[h] = opened'[fh]
          \/ /\ backingByHandle'[fh].file = Named(nodes[opened'[fh]])
             /\ backingByHandle'[fh].file.object.type = "file"
  <1>1. ASSUME StoreInv, [Next]_vars PROVE Fresh
    <2>1. StoreStep
      BY <1>1, StepIsOne
    <2>2. UNCHANGED fileVars => DOMAIN opened' = DOMAIN opened
      BY DEF fileVars
    <2>3. ASSUME NEW fh, Service!Close(fh) PROVE DOMAIN opened' \subseteq DOMAIN opened
      BY <2>3 DEF Service!Close
    <2> QED BY <2>1, <2>2, <2>3 DEF StoreStep, Numbers, Opens
  <1>2. StoreInv /\ [Next]_vars => [Fresh]_vars
    BY <1>1
  <1> QED BY <1>2, StoreInit, StoreNext, PTL DEF Spec, FreshAfterClose

\* The daemon implements the file service the kernel relies on.
THEOREM StoreIsFileService == Spec => IsFileService
  <1>1. Init => Service!Init
    BY DEF Init, Service!Init
  <1>2. StoreInv /\ [Next]_vars => [Service!Next]_Service!vars
    <2> SUFFICES ASSUME StoreInv, [Next]_vars PROVE [Service!Next]_Service!vars
      OBVIOUS
    <2>1. StoreStep
      BY StepIsOne
    <2>2. UNCHANGED <<nodeVars, fileVars>> => UNCHANGED Service!vars
      BY DEF nodeVars, fileVars, Service!vars
    <2>3. UNCHANGED nodeVars /\ UNCHANGED <<opened, backingByHandle>> => UNCHANGED Service!vars
      BY DEF nodeVars, Service!vars
    <2> QED BY <2>1, <2>2, <2>3 DEF StoreStep, Numbers, Opens, Service!Next
  <1> QED BY <1>1, <1>2, StoreInit, StoreNext, PTL DEF Spec, IsFileService, Service!Spec

-----------------------------------------------------------------------------
(* What is realized.                                                       *)

(* Where the paths that a lookup resolves come from.                       *)
PathInv ==
  /\ DOMAIN farm = FarmPath
  /\ \A p \in FarmPath : farm[p] \in FarmObjects[p]
  /\ \A ino \in DOMAIN nodes : nodes[ino].backing = "Bind" => nodes[ino].rel \in Path
  /\ request # Idle /\ request.node.backing = "Bind" => request.node.rel \in Path

\* A name is a string, and neither of the two that mean another directory.
LEMMA NamesAreNames == \A n \in Name : n \in STRING /\ n \notin {Here, Up}
  <1> SUFFICES ASSUME NEW n \in Name PROVE n \in STRING /\ n \notin {Here, Up}
    OBVIOUS
  <1>1. PICK p \in FarmPath \cup StorePath : n = p[Len(p)]
    BY DEF Name
  <1>2. Canonical(p) /\ Len(p) > 0
    BY StoreViewAssumption DEF StoreViewAssumption
  <1>3. p \in Seq(STRING) /\ Len(p) \in Nat
    BY <1>2, LenProperties DEF Canonical
  <1>4. Len(p) \in 1 .. Len(p)
    BY <1>2, <1>3
  <1>5. p[Len(p)] \in STRING
    BY <1>3, <1>4, ElementOfSeq
  <1> QED BY <1>1, <1>2, <1>4, <1>5 DEF Canonical

\* Whatever is at a path of a tree is an object of the tree, or the tree.
LEMMA AtIsThere ==
  ASSUME NEW tree, NEW path
  PROVE  At(tree, path) \in {Directory, None} \cup {tree[p] : p \in DOMAIN tree}
  <1>1. ASSUME NEW q
        PROVE  Plain(tree, q) \in {Directory, None} \cup {tree[p] : p \in DOMAIN tree}
    BY DEF Plain
  <1>2. ASSUME NEW dir, NEW link, NEW rest
        PROVE  Through(tree, dir, link, rest)
                 \in {Directory, None} \cup {tree[p] : p \in DOMAIN tree}
    BY <1>1 DEF Through
  <1> HIDE DEF Plain, Through
  <1> QED BY <1>1, <1>2 DEF At

\* A link of the farm has the target that was written into it.
LEMMA LinksAreWritten ==
  ASSUME PathInv, NEW path, At(farm, path).type = "link"
  PROVE  At(farm, path).to \in Path
  <1> DEFINE o == At(farm, path)
  <1>1. o \in {Directory, None} \cup {farm[p] : p \in DOMAIN farm}
    BY AtIsThere
  <1> HIDE DEF o
  <1>2. o.type = "link"
    BY DEF o
  <1>3. o # Directory /\ o # None
    BY <1>2 DEF Directory, None
  <1>4. PICK p \in FarmPath : o = farm[p] /\ farm[p] \in FarmObjects[p]
    BY <1>1, <1>3 DEF PathInv
  <1> QED BY <1>2, <1>4, StoreViewAssumption DEF StoreViewAssumption, Path, o

\* The root of a tree is a directory.
LEMMA RootIsDirectory == ASSUME NEW tree PROVE Follow(tree, <<>>) = Directory
  <1>0. Plain(tree, <<>>) = Directory
    BY DEF Plain
  <1>1. {i \in 1 .. Len(<<>>) - 1 : Plain(tree, SubSeq(<<>>, 1, i)).type = "link"} = {}
    <2>1. 1 .. Len(<<>>) - 1 = {}
      OBVIOUS
    <2> QED BY <2>1
  <1>2. At(tree, <<>>) = Directory
    BY <1>0, <1>1 DEF At
  <1> QED BY <1>2 DEF Follow, Directory

\* What a lookup in the farm shows of a link, by the three rules.
LEMMA BindLinkShown ==
  ASSUME PathInv, NEW rel \in Path, NEW name \in Name,
         At(farm, Append(rel, name)).type = "link"
  PROVE  LET child == ResolveBindChild(rel, name)
             target == MeantBy(At(farm, Append(rel, name)), BindTarget \o rel)
         IN  IF Documented(target)
             THEN child.backing = "Redirect" /\ ResolutionRoot \o child.rel = target
             ELSE child.backing = "Bind" /\ child.kind = "Symlink"
  <1> DEFINE object == At(farm, Append(rel, name))
             dir == BindTarget \o rel
             path == IF object.abs THEN object.to ELSE dir \o object.to
             target == ResolveTarget(dir, object)
             child == ResolveBindChild(rel, name)
  <1>1. object.to \in Path /\ object.type = "link"
    BY LinksAreWritten
  <1>2. dir \in Path
    BY StorePathsAssumption, ConcatProperties DEF StorePathsAssumption, Canonical, Path
  <1> HIDE DEF object, dir
  <1>3. path \in Path
    BY <1>1, <1>2, ConcatProperties DEF Path
  <1>4. target = MeantBy(object, dir)
    BY <1>3, NormalizeIsMeant DEF ResolveTarget, MeantBy
  <1>5. Canonical(target)
    BY <1>3, NormalizeIsCanonical DEF ResolveTarget
  <1>6. KindOf(object) = "Symlink"
    BY <1>1 DEF KindOf
  <1>7. child = IF RealizedKind(target) # "none"
                THEN Node("Redirect", RealizedRel(target), RealizedKind(target))
                ELSE Node("Bind", Append(rel, name), "Symlink")
    BY <1>1, <1>6 DEF ResolveBindChild, object, dir
  <1> HIDE DEF target, child
  <1>8. RealizedKind(target) # "none" <=> Documented(target)
    <2> DEFINE below == RealizedRel(target)
    <2>1. below = <<>> => Follow(store, below).type = "dir"
      BY RootIsDirectory DEF Directory
    <2>2. below = SubSeq(target, Len(ResolutionRoot) + 1, Len(target))
      BY <1>5, RealizesIsDocumented
    <2>3. Realizes(target)
            <=> IsPrefix(ResolutionRoot, target) /\ ~ IsPrefix(BindTarget, target)
      BY <1>5, RealizesIsDocumented
    <2>4. Documented(target) <=> Realizes(target) /\ Follow(store, below).type \in {"dir", "file"}
      BY <2>2, <2>3 DEF Documented
    <2>5. RealizedKind(target) # "none"
            <=> Realizes(target) /\ (below = <<>> \/ Follow(store, below).type \in {"dir", "file"})
      BY DEF RealizedKind
    <2> QED BY <2>1, <2>4, <2>5
  <1>9. CASE Documented(target)
    <2>1. child.backing = "Redirect" /\ child.rel = RealizedRel(target)
      BY <1>7, <1>8, <1>9 DEF Node
    <2>2. ResolutionRoot \o RealizedRel(target) = target
      BY <1>5, <1>9, RealizesIsDocumented DEF Documented
    <2> QED BY <1>4, <1>9, <2>1, <2>2 DEF child, object, dir
  <1>10. CASE ~ Documented(target)
    <2>1. child.backing = "Bind" /\ child.kind = "Symlink"
      BY <1>7, <1>8, <1>10 DEF Node
    <2> QED BY <1>4, <1>10, <2>1 DEF child, object, dir
  <1> QED BY <1>9, <1>10

\* A child in the farm has a path again.
LEMMA ChildHasPath ==
  ASSUME NEW parent, parent.backing = "Bind" => parent.rel \in Path,
         NEW name \in Name, ResolveChild(parent, name) # NoNode,
         ResolveChild(parent, name).backing = "Bind"
  PROVE  ResolveChild(parent, name).rel \in Path
  <1> DEFINE child == ResolveChild(parent, name)
  <1>1. ASSUME NEW b, NEW r, NEW k PROVE Node(b, r, k).backing = b /\ Node(b, r, k).rel = r
    BY DEF Node
  <1>2. CASE parent.backing = "Bind"
    <2> DEFINE rel == Append(parent.rel, name)
    <2>1. rel \in Path
      BY <1>2, NamesAreNames, AppendIs DEF Path
    <2>2. \/ \E r, k : child = Node("Redirect", r, k)
          \/ \E k : child = Node("Bind", rel, k)
      BY <1>2 DEF ResolveChild, ResolveBindChild
    <2> HIDE DEF rel, child
    <2>3. child.backing = "Bind"
      BY DEF child
    <2> QED BY <1>1, <2>1, <2>2, <2>3 DEF child
  <1>3. CASE parent.backing # "Bind"
    <2>1. \E r, k : child = Node("Redirect", r, k)
      BY <1>3 DEF ResolveChild, ResolveRedirectChild
    <2> QED BY <1>1, <2>1
  <1> QED BY <1>2, <1>3

LEMMA PathInit == Init => PathInv
  <1> SUFFICES ASSUME Init PROVE PathInv
    OBVIOUS
  <1>1. DOMAIN nodes = {Root} /\ nodes[Root] = Node("Bind", <<>>, "Dir")
    BY DEF Init, Put
  <1>2. <<>> \in Path
    BY EmptySeq DEF Path
  <1>3. \A ino \in DOMAIN nodes : nodes[ino].rel \in Path
    BY <1>1, <1>2 DEF Node
  <1> QED BY <1>3 DEF Init, PathInv

LEMMA PathNext == StoreInv /\ PathInv /\ [Next]_vars => PathInv'
  <1> SUFFICES ASSUME StoreInv, PathInv, [Next]_vars PROVE PathInv'
    OBVIOUS
  <1>1. ASSUME UNCHANGED <<treeVars, nodes, request>> PROVE PathInv'
    BY <1>1 DEF PathInv, treeVars
  <1>2. ASSUME NEW ino \in DOMAIN nodes, NEW n \in Name, Lookup(ino, n) PROVE PathInv'
    <2> DEFINE child == ResolveChild(nodes[ino], n)
    <2>1. UNCHANGED <<treeVars, nodes>>
      BY <1>2 DEF Lookup, nodeVars
    <2>2. CASE UNCHANGED request
      BY <1>1, <2>1, <2>2
    <2>3. CASE child # NoNode /\ request' = [name |-> n, parent |-> ino, node |-> child]
      <3>1. nodes[ino].backing = "Bind" => nodes[ino].rel \in Path
        BY DEF PathInv
      <3>2. child.backing = "Bind" => child.rel \in Path
        BY <2>3, <3>1, ChildHasPath
      <3> HIDE DEF child
      <3>3. request'.node = child
        BY <2>3
      <3> QED BY <2>1, <3>2, <3>3 DEF PathInv, treeVars
    <2> QED BY <1>2, <2>2, <2>3 DEF Lookup
  <1>3. CASE LookupAttr
    <2>1. request' = Idle /\ UNCHANGED treeVars /\ request # Idle
      BY <1>3 DEF LookupAttr
    <2>2. CASE Intern(request.parent, request.name, request.node)
      <3>1. PICK ino : nodes' = Put(nodes, ino, request.node)
        BY <2>2 DEF Intern, Numbered
      <3>2. \A i \in DOMAIN nodes' : \/ nodes'[i] = request.node
                                     \/ i \in DOMAIN nodes /\ nodes'[i] = nodes[i]
        BY <3>1 DEF Put
      <3> QED BY <2>1, <3>2 DEF PathInv, treeVars
    <2>3. CASE UNCHANGED nodeVars
      BY <2>1, <2>3 DEF PathInv, treeVars, nodeVars
    <2> QED BY <1>3, <2>2, <2>3 DEF LookupAttr
  <1>4. ASSUME NEW size, ReadDir(size) PROVE PathInv'
    <2> DEFINE node == nodes[scan.ino]
    <2>1. UNCHANGED <<treeVars, request>> /\ scan.ino \in DOMAIN nodes
      BY <1>4 DEF ReadDir, StoreInv, TypeOK
    <2>2. CASE UNCHANGED nodeVars
      BY <1>1, <2>1, <2>2 DEF nodeVars
    <2>3. ASSUME NEW names, names = Listed(node), InternAll(scan.ino, names) PROVE PathInv'
      <3>1. \A n \in names : n \in Name /\ ResolveChild(node, n) # NoNode
        BY <2>3 DEF Listed, Entries
      <3>2. \A i \in DOMAIN nodes' :
              \/ \E n \in names : nodes'[i] = ResolveChild(node, n)
              \/ i \in DOMAIN nodes /\ nodes'[i] = nodes[i]
        <4> DEFINE new == {n \in names : <<scan.ino, n>> \notin DOMAIN lookupCache}
                   last == nextIno + Cardinality(new) - 1
                   of(number) ==
                     [n \in names |-> IF n \in new THEN number[n] ELSE lookupCache[<<scan.ino, n>>]]
        <4>0. PICK number \in [new -> nextIno .. last] :
                nodes' = [i \in DOMAIN nodes \cup {of(number)[n] : n \in names} |->
                           IF \E n \in names : of(number)[n] = i
                           THEN ResolveChild(node, CHOOSE n \in names : of(number)[n] = i)
                           ELSE nodes[i]]
          BY <2>3 DEF InternAll
        <4> DEFINE inoOf == of(number)
        <4>1. nodes' = [i \in DOMAIN nodes \cup {inoOf[n] : n \in names} |->
                         IF \E n \in names : inoOf[n] = i
                         THEN ResolveChild(node, CHOOSE n \in names : inoOf[n] = i)
                         ELSE nodes[i]]
          BY <4>0
        <4> HIDE DEF inoOf, of
        <4>2. ASSUME NEW i, \E n \in names : inoOf[n] = i
              PROVE  (CHOOSE n \in names : inoOf[n] = i) \in names
          BY <4>2
        <4> HIDE DEF node
        <4> QED BY <4>1, <4>2
      <3>3. node.backing = "Bind" => node.rel \in Path
        BY <2>1 DEF PathInv
      <3> HIDE DEF node
      <3>4. \A n \in names : ResolveChild(node, n).backing = "Bind" => ResolveChild(node, n).rel \in Path
        BY <3>1, <3>3, ChildHasPath
      <3> QED BY <2>1, <3>2, <3>4 DEF PathInv, treeVars
    <2> QED BY <1>4, <2>2, <2>3 DEF ReadDir
  <1>5. ASSUME NEW p \in FarmPath, NEW o \in FarmObjects[p], ChangeFarm(p, o) PROVE PathInv'
    <2>1. farm' = [farm EXCEPT ![p] = o] /\ UNCHANGED <<nodes, request>>
      BY <1>5 DEF ChangeFarm, nodeVars
    <2>2. DOMAIN farm' = FarmPath /\ \A q \in FarmPath : farm'[q] \in FarmObjects[q]
      BY <2>1 DEF PathInv
    <2> QED BY <2>1, <2>2 DEF PathInv
  <1>6. ASSUME NEW p, NEW o, ChangeStore(p, o) PROVE PathInv'
    BY <1>6 DEF ChangeStore, PathInv, nodeVars
  <1>7. ASSUME NEW ino, GetAttr(ino) \/ ReadLink(ino) \/ Modify(ino) \/ OpenDir(ino) \/ Open(ino)
        PROVE  PathInv'
    BY <1>1, <1>7 DEF GetAttr, ReadLink, Modify, OpenDir, Open, nodeVars
  <1>8. ASSUME ReleaseDir \/ (\E fh : Release(fh)) \/ UNCHANGED vars PROVE PathInv'
    BY <1>1, <1>8 DEF ReleaseDir, Release, nodeVars, vars
  <1> QED BY <1>2, <1>3, <1>4, <1>5, <1>6, <1>7, <1>8 DEF Next, Serve

\* A lookup shows a link of the farm as README.md's realization rule says, for
\* every path, every target and every state of farm and store.
THEOREM LinksAreRealized == Spec => RealizedAsDocumented
  <1> DEFINE Shown ==
        (request = Idle /\ request' # Idle) =>
          LET parent == nodes[request'.parent]
              node == request'.node
              object == At(farm, Append(parent.rel, request'.name))
              target == MeantBy(object, BindTarget \o parent.rel)
          IN  (parent.backing = "Bind" /\ object.type = "link") =>
                IF Documented(target)
                THEN node.backing = "Redirect" /\ ResolutionRoot \o node.rel = target
                ELSE node.backing = "Bind" /\ node.kind = "Symlink"
  <1>1. ASSUME StoreInv, PathInv, [Next]_vars, request = Idle, request' # Idle
        PROVE  \E ino \in DOMAIN nodes, n \in Name :
                 /\ Lookup(ino, n)
                 /\ request' = [name |-> n, parent |-> ino, node |-> ResolveChild(nodes[ino], n)]
    <2>1. request' # request
      BY <1>1
    <2>2. \E ino \in DOMAIN nodes, n \in Name : Lookup(ino, n)
      BY <1>1, <2>1 DEF Next, Serve, LookupAttr, GetAttr, ReadLink, Modify, OpenDir, Open,
        ReadDir, ReleaseDir, Release, ChangeFarm, ChangeStore, vars
    <2> QED BY <2>1, <2>2 DEF Lookup
  <1>2. ASSUME StoreInv, PathInv, [Next]_vars PROVE Shown
    <2> SUFFICES ASSUME request = Idle, request' # Idle PROVE Shown
      OBVIOUS
    <2>1. PICK ino \in DOMAIN nodes, n \in Name :
            request' = [name |-> n, parent |-> ino, node |-> ResolveChild(nodes[ino], n)]
      BY <1>1, <1>2
    <2> DEFINE child == ResolveChild(nodes[ino], n)
    <2>2. request'.parent = ino /\ request'.name = n /\ request'.node = child
      BY <2>1
    <2> SUFFICES ASSUME nodes[ino].backing = "Bind",
                        At(farm, Append(nodes[ino].rel, n)).type = "link"
                 PROVE  LET target == MeantBy(At(farm, Append(nodes[ino].rel, n)),
                                              BindTarget \o nodes[ino].rel)
                        IN  IF Documented(target)
                            THEN child.backing = "Redirect" /\ ResolutionRoot \o child.rel = target
                            ELSE child.backing = "Bind" /\ child.kind = "Symlink"
      <3> HIDE DEF child
      <3> QED BY <2>2
    <2>3. nodes[ino].rel \in Path /\ child = ResolveBindChild(nodes[ino].rel, n)
      BY <1>2 DEF PathInv, ResolveChild
    <2> QED BY <1>2, <2>3, BindLinkShown
  <1>3. StoreInv /\ PathInv /\ [Next]_vars => [Shown]_vars
    BY <1>2
  <1> HIDE DEF Shown
  <1>4. Spec => [][Shown]_vars
    BY <1>3, StoreInit, StoreNext, PathInit, PathNext, PTL DEF Spec
  <1> QED BY <1>4 DEF Shown, RealizedAsDocumented

-----------------------------------------------------------------------------
(* Pages.                                                                  *)

(* What the kernel has of a directory while nothing changes it: the listing *)
(* up to its offset.  A page never renumbers the directory it lists, since  *)
(* an entry's inode is younger than its directory's.                        *)
ParentsFirst == \A k \in DOMAIN lookupCache : k[1] < lookupCache[k]

Pages(listing) ==
  /\ scan.offset \in 0 .. Len(listing)
  /\ scan.got = {listing[i] : i \in 1 .. scan.offset} \ {Here, Up}
  /\ ~ scan.twice
  /\ scan.done => scan.offset = Len(listing)

ScanInv ==
  scan # NoScan =>
    /\ DOMAIN scan = {"ino", "offset", "got", "twice", "calm", "done"}
    /\ scan.calm => Pages(Listing(Listed(nodes[scan.ino])))

PagesInv == ParentsFirst /\ ScanInv

\* A listing has the two that every directory has, and each name once.
LEMMA ListingIs ==
  ASSUME NEW names \in SUBSET Name
  PROVE  /\ Len(Listing(names)) \in Nat
         /\ {Listing(names)[i] : i \in 1 .. Len(Listing(names))} = {Here, Up} \cup names
         /\ \A i, j \in 1 .. Len(Listing(names)) : Listing(names)[i] = Listing(names)[j] => i = j
  <1> DEFINE n == Cardinality(names)
             f == SetToSeq(names)
             T == {Here, Up} \cup names
             L == Listing(names)
  <1>1. IsFiniteSet(names)
    BY StoreViewAssumption, FS_Subset DEF StoreViewAssumption
  <1>2. n \in Nat /\ ExistsBijection(1 .. n, names)
    BY <1>1, FS_CardinalityType
  <1>3. \E g \in [1 .. n -> names] : IsInjective(g)
    BY <1>2 DEF ExistsBijection, Bijection, Injection
  <1>4. f \in [1 .. n -> names] /\ IsInjective(f)
    BY <1>3 DEF SetToSeq
  <1>5. \A x \in names : \E i \in 1 .. n : f[i] = x
    <2>1. f \in Injection(1 .. n, names)
      BY <1>4 DEF Injection
    <2>2. Cardinality(1 .. n) = n
      BY <1>2, FS_Interval
    <2> HIDE DEF f
    <2>3. f \in Surjection(1 .. n, names)
      BY <1>1, <2>1, <2>2, FS_Injection
    <2> QED BY <2>3 DEF Surjection
  <1>6. f \in Seq(T) /\ Len(f) = n
    BY <1>2, <1>4
  <1>7. <<Here, Up>> \in Seq(T) /\ Len(<<Here, Up>>) = 2
    OBVIOUS
  <1>8. /\ Len(L) = n + 2
        /\ \A i \in 1 .. n + 2 : L[i] = IF i <= 2 THEN <<Here, Up>>[i] ELSE f[i - 2]
    <2> HIDE DEF f, T
    <2>1. L = <<Here, Up>> \o f
      BY DEF Listing, f
    <2> HIDE DEF L
    <2>2. /\ Len(<<Here, Up>> \o f) = Len(<<Here, Up>>) + Len(f)
          /\ \A i \in 1 .. Len(<<Here, Up>>) + Len(f) : (<<Here, Up>> \o f)[i] =
               IF i <= Len(<<Here, Up>>) THEN <<Here, Up>>[i] ELSE f[i - Len(<<Here, Up>>)]
      BY <1>6, <1>7, ConcatProperties
    <2> QED BY <1>2, <1>6, <1>7, <2>1, <2>2
  <1>9. L[1] = Here /\ L[2] = Up /\ \A i \in 3 .. n + 2 : L[i] = f[i - 2] /\ i - 2 \in 1 .. n
    BY <1>2, <1>8
  <1>10. \A i \in 1 .. n + 2 : i = 1 \/ i = 2 \/ i \in 3 .. n + 2
    BY <1>2
  <1>11. Here \notin names /\ Up \notin names /\ Here # Up
    BY NamesAreNames DEF Here, Up
  <1> HIDE DEF f, L, n
  <1>12. {L[i] : i \in 1 .. n + 2} = {Here, Up} \cup names
    <2>1. \A i \in 1 .. n + 2 : L[i] \in {Here, Up} \cup names
      BY <1>4, <1>9, <1>10
    <2>2. ASSUME NEW x \in names PROVE \E i \in 1 .. n + 2 : L[i] = x
      <3>1. PICK i \in 1 .. n : f[i] = x
        BY <1>5
      <3>2. i + 2 \in 3 .. n + 2 /\ (i + 2) - 2 = i /\ i + 2 \in 1 .. n + 2
        BY <1>2
      <3>3. L[i + 2] = x
        BY <1>9, <3>1, <3>2
      <3> QED BY <3>2, <3>3
    <2>3. 1 \in 1 .. n + 2 /\ 2 \in 1 .. n + 2
      BY <1>2
    <2> QED BY <1>9, <2>1, <2>2, <2>3
  <1>13. \A i, j \in 1 .. n + 2 : L[i] = L[j] => i = j
    <2> SUFFICES ASSUME NEW i \in 1 .. n + 2, NEW j \in 1 .. n + 2, L[i] = L[j] PROVE i = j
      OBVIOUS
    <2>1. CASE i \in 3 .. n + 2 /\ j \in 3 .. n + 2
      <3>1. f[i - 2] = f[j - 2] /\ i - 2 \in 1 .. n /\ j - 2 \in 1 .. n
        BY <1>9, <2>1
      <3>2. i - 2 = j - 2
        BY <1>4, <3>1 DEF IsInjective
      <3> QED BY <1>2, <3>2
    <2>2. \A k \in 3 .. n + 2 : L[k] \in names
      BY <1>4, <1>9
    <2> QED BY <1>9, <1>10, <1>11, <2>1, <2>2
  <1>14. Len(L) = n + 2 /\ n + 2 \in Nat
    BY <1>2, <1>8
  <1> QED BY <1>12, <1>13, <1>14 DEF L

\* A directory that stays what it is, in trees that do, has the same entries.
LEMMA ListedKept ==
  ASSUME UNCHANGED treeVars, nodes'[scan'.ino] = nodes[scan.ino]
  PROVE  Listed(nodes[scan.ino])' = Listed(nodes[scan.ino])
  <1>1. Entries(Tree(nodes[scan.ino].backing), nodes[scan.ino].rel)'
          = Entries(Tree(nodes[scan.ino].backing), nodes[scan.ino].rel)
    BY DEF Tree, treeVars
  <1>2. ASSUME NEW n
        PROVE  ResolveChild(nodes[scan.ino], n)' = ResolveChild(nodes[scan.ino], n)
    BY DEF ResolveChild, ResolveBindChild, ResolveRedirectChild, RealizedKind, treeVars
  <1> QED BY <1>1, <1>2 DEF Listed

\* What the kernel has is as good as before when neither it nor the directory
\* changes, and it counts no more when the directory may have changed.
LEMMA ScanKept ==
  ASSUME ScanInv,
         \/ scan' = NoScan
         \/ scan # NoScan /\ scan' = [scan EXCEPT !.calm = FALSE]
         \/ /\ UNCHANGED <<treeVars, scan>>
            /\ scan # NoScan => nodes'[scan.ino] = nodes[scan.ino]
  PROVE  ScanInv'
  <1>1. CASE scan' = NoScan
    BY <1>1 DEF ScanInv
  <1>2. CASE scan # NoScan /\ scan' = [scan EXCEPT !.calm = FALSE]
    <2>1. DOMAIN scan = {"ino", "offset", "got", "twice", "calm", "done"}
      BY <1>2 DEF ScanInv
    <2>2. DOMAIN scan' = DOMAIN scan /\ scan'.calm = FALSE
      BY <1>2, <2>1
    <2> QED BY <2>1, <2>2 DEF ScanInv
  <1>3. CASE /\ UNCHANGED <<treeVars, scan>>
             /\ scan # NoScan => nodes'[scan.ino] = nodes[scan.ino]
    <2> SUFFICES ASSUME scan # NoScan PROVE ScanInv'
      BY <1>3 DEF ScanInv
    <2>1. scan' = scan /\ Listed(nodes[scan.ino])' = Listed(nodes[scan.ino])
      BY <1>3, ListedKept
    <2> QED BY <2>1 DEF ScanInv, Pages
  <1> QED BY <1>1, <1>2, <1>3

\* A page extends what the kernel has, by entries it did not have.
LEMMA PageExtends ==
  ASSUME NEW names \in SUBSET Name, NEW size \in Nat \ {0},
         DOMAIN scan = {"ino", "offset", "got", "twice", "calm", "done"},
         Page(names, size)
  PROVE  /\ scan' # NoScan
         /\ DOMAIN scan' = DOMAIN scan
         /\ scan'.ino = scan.ino /\ scan'.calm = scan.calm
         /\ Pages(Listing(names)) =>
              /\ scan'.offset \in 0 .. Len(Listing(names))
              /\ scan'.got = {Listing(names)[i] : i \in 1 .. scan'.offset} \ {Here, Up}
              /\ ~ scan'.twice
              /\ scan'.done => scan'.offset = Len(Listing(names))
  <1> DEFINE L == Listing(names)
             o == scan.offset
             until == IF o + size <= Len(L) THEN o + size ELSE Len(L)
             page == {L[i] : i \in o + 1 .. until} \ {Here, Up}
  <1>1. /\ DOMAIN scan' = DOMAIN scan
        /\ scan'.ino = scan.ino /\ scan'.calm = scan.calm
        /\ scan'.offset = IF until > o THEN until ELSE o
        /\ scan'.got = scan.got \cup page
        /\ scan'.twice = (scan.twice \/ page \cap scan.got # {})
        /\ scan'.done = (o >= Len(L))
    <2> HIDE DEF L
    <2> QED BY DEF Page, L
  <1>2. scan' # NoScan
    <2>1. DOMAIN NoScan = {"ino"} /\ "offset" \in DOMAIN scan'
      BY <1>1 DEF NoScan
    <2> QED BY <2>1
  <1>3. ASSUME Pages(L)
        PROVE  /\ scan'.offset \in 0 .. Len(L)
               /\ scan'.got = {L[i] : i \in 1 .. scan'.offset} \ {Here, Up}
               /\ ~ scan'.twice
               /\ scan'.done => scan'.offset = Len(L)
    <2>1. /\ o \in 0 .. Len(L) /\ ~ scan.twice
          /\ scan.got = {L[i] : i \in 1 .. o} \ {Here, Up}
      BY <1>3 DEF Pages
    <2>2. /\ Len(L) \in Nat
          /\ \A i, j \in 1 .. Len(L) : L[i] = L[j] => i = j
      BY ListingIs
    <2> HIDE DEF L
    <2>3. o \in Nat /\ until \in o .. Len(L) /\ (o < Len(L) => until > o)
      BY <2>1, <2>2
    <2>4. scan'.offset = until
      BY <1>1, <2>2, <2>3
    <2> HIDE DEF until
    <2>5. 1 .. until = (1 .. o) \cup (o + 1 .. until)
      BY <2>2, <2>3
    <2>6. scan.got \cup page = {L[i] : i \in 1 .. until} \ {Here, Up}
      BY <2>1, <2>5
    <2>7. page \cap scan.got = {}
      <3> SUFFICES ASSUME NEW i \in o + 1 .. until, NEW j \in 1 .. o, L[i] = L[j] PROVE FALSE
        BY <2>1
      <3>1. i \in 1 .. Len(L) /\ j \in 1 .. Len(L) /\ i # j
        BY <2>2, <2>3
      <3> QED BY <2>2, <3>1
    <2>8. o >= Len(L) => until = Len(L)
      BY <2>1, <2>2, <2>3
    <2> HIDE DEF page
    <2>9. scan'.offset \in 0 .. Len(L)
      BY <2>2, <2>3, <2>4
    <2>10. ~ scan'.twice
      BY <1>1, <2>1, <2>7
    <2>11. scan'.done => scan'.offset = Len(L)
      BY <1>1, <2>4, <2>8
    <2>12. scan'.got = {L[i] : i \in 1 .. scan'.offset} \ {Here, Up}
      BY <1>1, <2>4, <2>6
    <2> QED BY <2>9, <2>10, <2>11, <2>12
  <1> QED BY <1>1, <1>2, <1>3

\* A lookup numbers its name after its directory.
LEMMA InternAfterParent ==
  ASSUME StoreInv, ParentsFirst, request # Idle,
         Intern(request.parent, request.name, request.node)
  PROVE  ParentsFirst'
  <1> DEFINE key == <<request.parent, request.name>>
             ino == InodeOf(key)
  <1>1. /\ lookupCache' = Put(lookupCache, key, ino)
        /\ request.parent \in DOMAIN nodes
    BY DEF Intern, Numbered, StoreInv, TypeOK
  <1>2. \A k \in DOMAIN lookupCache' :
          \/ k = key /\ lookupCache'[k] = ino
          \/ k \in DOMAIN lookupCache /\ lookupCache'[k] = lookupCache[k]
    BY <1>1 DEF Put
  <1>3. request.parent < nextIno
    BY <1>1 DEF StoreInv, InodesNamed
  <1>4. key[1] < ino
    BY <1>3 DEF InodeOf, ParentsFirst
  <1> HIDE DEF key, ino
  <1> QED BY <1>2, <1>4 DEF ParentsFirst

\* So does a page, which leaves the directory's own node alone.
LEMMA InternAllAfterParent ==
  ASSUME StoreInv, ParentsFirst, NEW ino \in DOMAIN nodes, NEW names \in SUBSET Name,
         InternAll(ino, names)
  PROVE  ParentsFirst' /\ nodes'[ino] = nodes[ino]
  <1> DEFINE new == {n \in names : <<ino, n>> \notin DOMAIN lookupCache}
             last == nextIno + Cardinality(new) - 1
             of(number) ==
               [n \in names |-> IF n \in new THEN number[n] ELSE lookupCache[<<ino, n>>]]
  <1>1. PICK number \in [new -> nextIno .. last] :
          /\ nodes' = [i \in DOMAIN nodes \cup {of(number)[n] : n \in names} |->
                        IF \E n \in names : of(number)[n] = i
                        THEN ResolveChild(nodes[ino], CHOOSE n \in names : of(number)[n] = i)
                        ELSE nodes[i]]
          /\ lookupCache' = [k \in DOMAIN lookupCache \cup ({ino} \X names) |->
                              IF k \in {ino} \X names THEN of(number)[k[2]] ELSE lookupCache[k]]
    BY DEF InternAll
  <1>2. ino \in Nat /\ nextIno \in Nat /\ ino < nextIno /\ Cardinality(new) \in Nat
    BY NewIsFinite DEF StoreInv, TypeOK, InodesNamed
  <1>3. \A n \in new : number[n] > ino
    BY <1>1, <1>2
  <1>4. \A n \in names \ new : lookupCache[<<ino, n>>] > ino
    <2> SUFFICES ASSUME NEW n \in names, <<ino, n>> \in DOMAIN lookupCache
                 PROVE  lookupCache[<<ino, n>>] > ino
      OBVIOUS
    <2>1. lookupCache[<<ino, n>>] \in DOMAIN nodes
      BY DEF StoreInv, InodesNamed
    <2>2. <<ino, n>>[1] < lookupCache[<<ino, n>>]
      BY DEF ParentsFirst
    <2> QED BY <1>2, <2>1, <2>2 DEF StoreInv, TypeOK
  <1>5. \A n \in names : of(number)[n] > ino
    BY <1>3, <1>4
  <1> DEFINE inoOf == of(number)
  <1>6. /\ DOMAIN nodes' = DOMAIN nodes \cup {inoOf[n] : n \in names}
        /\ (~ \E n \in names : inoOf[n] = ino) => nodes'[ino] = nodes[ino]
    BY <1>1
  <1>7. \A k \in DOMAIN lookupCache' :
          \/ k \in DOMAIN lookupCache /\ lookupCache'[k] = lookupCache[k]
          \/ \E n \in names : k = <<ino, n>> /\ lookupCache'[k] = inoOf[n]
    <2>1. lookupCache' = [k \in DOMAIN lookupCache \cup ({ino} \X names) |->
                           IF k \in {ino} \X names THEN inoOf[k[2]] ELSE lookupCache[k]]
      BY <1>1
    <2> HIDE DEF inoOf
    <2> SUFFICES ASSUME NEW k \in DOMAIN lookupCache', k \in {ino} \X names
                 PROVE  \E n \in names : k = <<ino, n>> /\ lookupCache'[k] = inoOf[n]
      BY <2>1
    <2>2. PICK n \in names : k = <<ino, n>>
      OBVIOUS
    <2> QED BY <2>1, <2>2
  <1> HIDE DEF inoOf, of
  <1>8. \A n \in names : inoOf[n] > ino
    BY <1>5 DEF inoOf
  <1>9. nodes'[ino] = nodes[ino]
    <2>1. ~ (ino > ino)
      BY <1>2
    <2> QED BY <1>6, <1>8, <2>1
  <1>10. ParentsFirst'
    <2>1. ASSUME NEW n \in names PROVE <<ino, n>>[1] < inoOf[n]
      BY <1>8
    <2> QED BY <1>7, <2>1 DEF ParentsFirst
  <1> QED BY <1>9, <1>10

LEMMA PagesInit == Init => PagesInv
  BY DEF Init, PagesInv, ParentsFirst, ScanInv

LEMMA PagesNext == StoreInv /\ PagesInv /\ [Next]_vars => PagesInv'
  <1> SUFFICES ASSUME StoreInv, PagesInv, [Next]_vars PROVE PagesInv'
    OBVIOUS
  <1>t. ParentsFirst /\ ScanInv
    BY DEF PagesInv
  <1>1. ASSUME UNCHANGED nodeVars,
               \/ scan' = NoScan
               \/ scan # NoScan /\ scan' = [scan EXCEPT !.calm = FALSE]
               \/ UNCHANGED <<treeVars, scan>>
        PROVE  PagesInv'
    <2>1. ParentsFirst'
      BY <1>t, <1>1 DEF ParentsFirst, nodeVars
    <2>2. ScanInv'
      BY <1>t, <1>1, ScanKept DEF nodeVars
    <2> QED BY <2>1, <2>2 DEF PagesInv
  <1>2. ASSUME NEW ino,
               \/ \E n \in Name : Lookup(ino, n)
               \/ GetAttr(ino) \/ ReadLink(ino) \/ Modify(ino) \/ Open(ino)
        PROVE  PagesInv'
    <2>1. UNCHANGED <<nodeVars, treeVars, scan>>
      BY <1>2 DEF Lookup, GetAttr, ReadLink, Modify, Open
    <2> QED BY <1>1, <2>1
  <1>3. CASE LookupAttr
    <2>1. UNCHANGED treeVars /\ request # Idle
      BY <1>3 DEF LookupAttr
    <2>2. CASE Intern(request.parent, request.name, request.node)
      <3>1. ParentsFirst'
        BY <1>t, <2>1, <2>2, InternAfterParent
      <3>2. \/ scan # NoScan /\ scan' = [scan EXCEPT !.calm = FALSE]
            \/ scan' = scan /\ (scan # NoScan => nodes'[scan.ino] = nodes[scan.ino])
        BY <2>2 DEF Intern, Numbered, Seen
      <3>3. ScanInv'
        BY <1>t, <2>1, <3>2, ScanKept
      <3> QED BY <3>1, <3>3 DEF PagesInv
    <2>3. CASE UNCHANGED <<nodeVars, scan>>
      BY <1>1, <2>1, <2>3
    <2> QED BY <1>3, <2>2, <2>3 DEF LookupAttr
  <1>4. ASSUME NEW size \in 1 .. Cardinality(Name) + 2, ReadDir(size) PROVE PagesInv'
    <2> DEFINE names == Listed(nodes[scan.ino])
    <2>1. UNCHANGED treeVars /\ scan # NoScan /\ scan.ino \in DOMAIN nodes
      BY <1>4 DEF ReadDir, StoreInv, TypeOK
    <2>2. CASE UNCHANGED <<nodeVars, scan>>
      BY <1>1, <2>1, <2>2
    <2>3. CASE InternAll(scan.ino, names) /\ Page(names, size)
      <3>1. names \in SUBSET Name /\ size \in Nat \ {0}
        <4>1. Cardinality(Name) \in Nat
          BY StoreViewAssumption, FS_CardinalityType DEF StoreViewAssumption
        <4> QED BY <4>1 DEF Listed, Entries
      <3>2. DOMAIN scan = {"ino", "offset", "got", "twice", "calm", "done"}
        BY <1>t, <2>1 DEF ScanInv
      <3>3. ParentsFirst' /\ nodes'[scan.ino] = nodes[scan.ino]
        BY <1>t, <2>1, <2>3, <3>1, InternAllAfterParent
      <3>4. /\ scan' # NoScan
            /\ DOMAIN scan' = DOMAIN scan
            /\ scan'.ino = scan.ino /\ scan'.calm = scan.calm
            /\ Pages(Listing(names)) =>
                 /\ scan'.offset \in 0 .. Len(Listing(names))
                 /\ scan'.got = {Listing(names)[i] : i \in 1 .. scan'.offset} \ {Here, Up}
                 /\ ~ scan'.twice
                 /\ scan'.done => scan'.offset = Len(Listing(names))
        BY <2>3, <3>1, <3>2, PageExtends
      <3>5. Listed(nodes[scan.ino])' = names
        BY <2>1, <3>3, <3>4, ListedKept
      <3>6. scan.calm => Pages(Listing(names))
        BY <1>t, <2>1 DEF ScanInv
      <3> HIDE DEF names
      <3>7. ScanInv'
        BY <3>2, <3>4, <3>5, <3>6 DEF ScanInv, Pages
      <3> QED BY <3>3, <3>7 DEF PagesInv
    <2> QED BY <1>4, <2>2, <2>3 DEF ReadDir
  <1>5. ASSUME NEW ino \in DOMAIN nodes, OpenDir(ino) PROVE PagesInv'
    <2>1. UNCHANGED <<treeVars, nodeVars>>
      BY <1>5 DEF OpenDir
    <2>2. CASE UNCHANGED scan
      BY <1>1, <2>1, <2>2
    <2> DEFINE new == [ino |-> ino, offset |-> 0, got |-> {}, twice |-> FALSE,
                       calm |-> TRUE, done |-> FALSE]
    <2>3. CASE scan' = new
      <3>1. /\ DOMAIN new = {"ino", "offset", "got", "twice", "calm", "done"}
            /\ new.offset = 0 /\ new.got = {} /\ ~ new.twice /\ ~ new.done
        OBVIOUS
      <3> DEFINE names == Listed(nodes[scan.ino])'
      <3>2. names \in SUBSET Name
        BY DEF Listed, Entries
      <3> HIDE DEF names, new
      <3>3. Len(Listing(names)) \in Nat
        BY <3>2, ListingIs
      <3>4. {Listing(names)[i] : i \in 1 .. 0} = {} /\ 0 \in 0 .. Len(Listing(names))
        BY <3>3
      <3>5. ScanInv'
        BY <2>3, <3>1, <3>4 DEF ScanInv, Pages, names
      <3>6. ParentsFirst'
        BY <1>t, <2>1 DEF ParentsFirst, nodeVars
      <3> QED BY <3>5, <3>6 DEF PagesInv
    <2> QED BY <1>5, <2>2, <2>3 DEF OpenDir
  <1>6. CASE ReleaseDir
    BY <1>1, <1>6 DEF ReleaseDir
  <1>7. ASSUME NEW fh, Release(fh) PROVE PagesInv'
    BY <1>1, <1>7 DEF Release
  <1>8. ASSUME NEW p, NEW o, ChangeFarm(p, o) \/ ChangeStore(p, o) PROVE PagesInv'
    <2>1. UNCHANGED nodeVars /\ Unsettle
      BY <1>8 DEF ChangeFarm, ChangeStore
    <2>2. \/ scan' = NoScan
          \/ scan # NoScan /\ scan' = [scan EXCEPT !.calm = FALSE]
      BY <2>1 DEF Unsettle
    <2> QED BY <1>1, <2>1, <2>2
  <1>9. CASE UNCHANGED vars
    BY <1>1, <1>9 DEF vars
  <1> QED BY <1>2, <1>3, <1>4, <1>5, <1>6, <1>7, <1>8, <1>9 DEF Next, Serve

\* A directory that stays what it is while it is read in pages, of whatever
\* sizes, is read whole and no entry twice.
THEOREM ScansAreComplete == Spec => []ScanComplete
  <1>1. PagesInv => ScanComplete
    <2> SUFFICES ASSUME PagesInv, scan # NoScan, scan.done, scan.calm
                 PROVE  scan.got = Listed(nodes[scan.ino]) /\ ~ scan.twice
      BY DEF ScanComplete
    <2> DEFINE names == Listed(nodes[scan.ino])
    <2>1. Pages(Listing(names))
      BY DEF PagesInv, ScanInv
    <2>2. names \in SUBSET Name
      BY DEF Listed, Entries
    <2> HIDE DEF names
    <2>3. scan.got = ({Here, Up} \cup names) \ {Here, Up}
      BY <2>1, <2>2, ListingIs DEF Pages
    <2>4. names \cap {Here, Up} = {}
      BY <2>2, NamesAreNames
    <2> QED BY <2>1, <2>3, <2>4 DEF Pages, names
  <1> QED BY <1>1, StoreInit, StoreNext, PagesInit, PagesNext, PTL DEF Spec
=============================================================================
