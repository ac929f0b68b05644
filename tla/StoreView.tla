------------------------------ MODULE StoreView ------------------------------
(***************************************************************************)
(* The shared store file system (nix-store-shared-fuse): a farm of         *)
(* symlinks served as the store paths they point at.  The daemon answers   *)
(* one request of the kernel at a time; the farm and the store change      *)
(* whenever somebody else changes them, also while a lookup is under way.  *)
(***************************************************************************)
EXTENDS StorePaths, FiniteSets

CONSTANTS
  FarmObjects,   \* what each path of the farm may be, a set of objects per path
  StoreObjects,  \* the same for the store below the redirect root
  MaxOpenFiles,  \* --max-open-files
  MaxIno, MaxFh  \* bounds of the model on inodes and on file handles

Root == 1
Inode == Root .. MaxIno
Handle == 1 .. MaxFh

FarmPath == DOMAIN FarmObjects
StorePath == DOMAIN StoreObjects
Name == {p[Len(p)] : p \in FarmPath \cup StorePath}

None == [type |-> "none"]
Directory == [type |-> "dir"]

ASSUME StoreViewAssumption ==
  /\ MaxOpenFiles \in Nat \ {0}
  /\ MaxIno \in Nat \ {0}
  /\ MaxFh \in Nat
  /\ IsFiniteSet(Name)
  /\ \A paths \in {FarmPath, StorePath} :
       \A p \in paths :
         Canonical(p) /\ Len(p) > 0 /\ (Len(p) > 1 => Front(p) \in paths)
  /\ \A p \in FarmPath : \A o \in FarmObjects[p] : o.type = "link" => o.to \in Seq(STRING)

VARIABLES
  farm,         \* what the farm holds, an object per path
  store,        \* what the store holds
  nodes,        \* inode -> node
  lookupCache,  \* <<parent, name>> -> inode
  nextIno,
  backingByHandle,  \* file handle -> backing id, a strong reference
  backingByInode,   \* inode -> backing id, a weak reference
  nextFh,
  request,      \* the lookup that has resolved its name and not yet its attributes
  reply,        \* the answer to the last request
  opened,       \* the kernel's open files: file handle -> inode
  scan          \* a directory the kernel reads page by page

treeVars == <<farm, store>>
nodeVars == <<nodes, lookupCache, nextIno>>
fileVars == <<backingByHandle, backingByInode, nextFh, opened>>
vars == <<treeVars, nodeVars, fileVars, request, reply, scan>>

Idle == [name |-> "idle"]
NoNode == [kind |-> "none"]
NoScan == [ino |-> 0]

\* An answer is what was asked for or an error: which errno is left out.
Reply(ok) == reply' = IF ok THEN "ok" ELSE "error"

Put(f, key, value) ==
  [k \in DOMAIN f \cup {key} |-> IF k = key THEN value ELSE f[k]]

IsDir(node) == node.kind \in {"Dir", "RealizedDir"}

-----------------------------------------------------------------------------
(* The two capability directories, as cap-std shows them.                  *)

Tree(backing) == IF backing = "Bind" THEN farm ELSE store

\* What is at a path none of whose parents is a link.
Plain(tree, path) ==
  IF path = <<>> THEN Directory
  ELSE IF /\ path \in DOMAIN tree
          /\ \A i \in 1 .. Len(path) - 1 : tree[SubSeq(path, 1, i)] = Directory
  THEN tree[path]
  ELSE None

\* Does a path that starts at the root of the directory leave it?
Escapes(path) ==
  \E n \in 1 .. Len(path) :
     Cardinality({i \in 1 .. n : path[i] = Up})
       > Cardinality({i \in 1 .. n : path[i] \notin {Here, Up}})

\* Where a link found in directory dir leads, and rest below it.
Through(tree, dir, link, rest) ==
  LET path == dir \o link.to \o rest
  IN  IF link.abs \/ Escapes(path) THEN None ELSE Plain(tree, Normalize(path))

\* What is at a path: a link on the way is followed, the last component is not.
At(tree, path) ==
  LET links == {i \in 1 .. Len(path) - 1 : Plain(tree, SubSeq(path, 1, i)).type = "link"}
  IN  IF links = {} THEN Plain(tree, path)
      ELSE LET i == CHOOSE i \in links : \A j \in links : i <= j
           IN  Through(tree, SubSeq(path, 1, i - 1), Plain(tree, SubSeq(path, 1, i)),
                       SubSeq(path, i + 1, Len(path)))

\* The same, and the last component is followed too.
Follow(tree, path) ==
  LET there == At(tree, path)
  IN  IF there.type = "link"
      THEN LET end == Through(tree, Front(path), there, <<>>)
           IN  IF end.type = "link" THEN None ELSE end
      ELSE there

Entries(tree, path) == {n \in Name : At(tree, Append(path, n)) # None}

-----------------------------------------------------------------------------
(* Which node a name stands for.                                           *)

Node(backing, rel, kind) == [backing |-> backing, rel |-> rel, kind |-> kind]

KindOf(object) ==
  CASE object.type = "dir" -> "Dir"
    [] object.type = "file" -> "File"
    [] object.type = "link" -> "Symlink"
    [] OTHER -> "none"

\* The kind a realized link is shown as; "none" when it stays a link.
RealizedKind(target) ==
  IF ~ Realizes(target) THEN "none"
  ELSE LET rel == RealizedRel(target)
           end == Follow(store, rel)
       IN  CASE rel = <<>> \/ end.type = "dir" -> "RealizedDir"
             [] end.type = "file" -> "File"
             [] OTHER -> "none"

ResolveBindChild(parentRel, name) ==
  LET rel == Append(parentRel, name)
      object == At(farm, rel)
      target == ResolveTarget(BindTarget \o parentRel, object)
  IN  IF KindOf(object) = "none" THEN NoNode
      ELSE IF object.type = "link" /\ RealizedKind(target) # "none"
      THEN Node("Redirect", RealizedRel(target), RealizedKind(target))
      ELSE Node("Bind", rel, KindOf(object))

\* Mutant of ResolveRedirectChild: sockets and devices are shown as well.
ResolveAnyRedirectChild(parentRel, name) ==
  LET rel == Append(parentRel, name)
  IN  IF At(store, rel) = None THEN NoNode
      ELSE Node("Redirect", rel, KindOf(At(store, rel)))

ResolveRedirectChild(parentRel, name) ==
  LET rel == Append(parentRel, name)
      object == At(store, rel)
  IN  IF KindOf(object) = "none" THEN NoNode ELSE Node("Redirect", rel, KindOf(object))

ResolveChild(parent, name) ==
  IF parent.backing = "Bind" THEN ResolveBindChild(parent.rel, name)
  ELSE ResolveRedirectChild(parent.rel, name)

\* Has the node attributes?  Only a symlink is not followed.
HasAttr(node) ==
  IF node.kind = "Symlink" THEN At(Tree(node.backing), node.rel) # None
  ELSE Follow(Tree(node.backing), node.rel) # None

-----------------------------------------------------------------------------
(* Requests about names.                                                   *)

Seen(newNodes) ==
  scan' = IF scan # NoScan /\ newNodes[scan.ino] # nodes[scan.ino]
          THEN [scan EXCEPT !.calm = FALSE] ELSE scan

\* The inode of a child: the one its name has, or the next.
InodeOf(key) == IF key \in DOMAIN lookupCache THEN lookupCache[key] ELSE nextIno

Numbered(key, ino, node) ==
  LET newNodes == Put(nodes, ino, node)
  IN  /\ ino \in Inode
      /\ nodes' = newNodes
      /\ lookupCache' = Put(lookupCache, key, ino)
      /\ Seen(newNodes)
      /\ Reply(TRUE)

\* Mutant of Intern: the child is resolved anew, so it is numbered anew.
InternAnew(parent, name, node) ==
  /\ Numbered(<<parent, name>>, nextIno, node)
  /\ nextIno' = nextIno + 1

\* Mutant of Intern: the counter is moved for a name that is known.
InternSwapped(parent, name, node) ==
  LET key == <<parent, name>>
  IN  /\ Numbered(key, InodeOf(key), node)
      /\ nextIno' = IF key \in DOMAIN lookupCache THEN nextIno + 1 ELSE nextIno

Intern(parent, name, node) ==
  LET key == <<parent, name>>
  IN  /\ Numbered(key, InodeOf(key), node)
      /\ nextIno' = IF key \in DOMAIN lookupCache THEN nextIno ELSE nextIno + 1

Lookup(parent, name) ==
  LET child == ResolveChild(nodes[parent], name)
  IN  /\ request = Idle
      /\ IF ~ IsDir(nodes[parent]) \/ child = NoNode
         THEN Reply(FALSE) /\ UNCHANGED request
         ELSE /\ request' = [name |-> name, parent |-> parent, node |-> child]
              /\ UNCHANGED reply
      /\ UNCHANGED <<treeVars, nodeVars, fileVars, scan>>

LookupAttr ==
  /\ request # Idle
  /\ request' = Idle
  /\ \/ /\ HasAttr(request.node)
        /\ Intern(request.parent, request.name, request.node)
     \/ /\ ~ HasAttr(request.node)
        /\ Reply(FALSE)
        /\ UNCHANGED <<nodeVars, scan>>
  /\ UNCHANGED <<treeVars, fileVars>>

GetAttr(ino) ==
  /\ request = Idle
  /\ Reply(HasAttr(nodes[ino]))
  /\ UNCHANGED <<treeVars, nodeVars, fileVars, request, scan>>

ReadLink(ino) ==
  /\ request = Idle
  /\ Reply(/\ nodes[ino].kind = "Symlink"
           /\ At(Tree(nodes[ino].backing), nodes[ino].rel).type = "link")
  /\ UNCHANGED <<treeVars, nodeVars, fileVars, request, scan>>

\* setattr, mknod, mkdir, unlink and the rest, and an open for writing.
Modify(ino) ==
  /\ request = Idle
  /\ Reply(FALSE)
  /\ UNCHANGED <<treeVars, nodeVars, fileVars, request, scan>>

-----------------------------------------------------------------------------
(* Reading a directory.  The daemon keeps nothing between two pages: it    *)
(* lists the directory again and skips as many entries as the kernel has.  *)

OpenDir(ino) ==
  /\ request = Idle
  /\ scan = NoScan
  /\ IF IsDir(nodes[ino])
     THEN /\ Reply(TRUE)
          /\ scan' = [ino |-> ino, offset |-> 0, got |-> {}, twice |-> FALSE,
                      calm |-> TRUE, done |-> FALSE]
     ELSE Reply(FALSE) /\ UNCHANGED scan
  /\ UNCHANGED <<treeVars, nodeVars, fileVars, request>>

Listed(node) ==
  {n \in Entries(Tree(node.backing), node.rel) : ResolveChild(node, n) # NoNode}

\* What a listing returns, in some order that a directory with these names has.
Listing(names) == <<Here, Up>> \o SetToSeq(names)

\* Every entry of every page gets an inode: its own, or one of the next.
InternAll(ino, names) ==
  LET new == {n \in names : <<ino, n>> \notin DOMAIN lookupCache}
      last == nextIno + Cardinality(new) - 1
  IN  /\ last <= MaxIno
      /\ \E number \in [new -> nextIno .. last] :
           LET inoOf == [n \in names |-> IF n \in new THEN number[n] ELSE lookupCache[<<ino, n>>]]
           IN  /\ \A m, n \in new : number[m] = number[n] => m = n
               /\ nodes' = [i \in DOMAIN nodes \cup {inoOf[n] : n \in names} |->
                             IF \E n \in names : inoOf[n] = i
                             THEN ResolveChild(nodes[ino], CHOOSE n \in names : inoOf[n] = i)
                             ELSE nodes[i]]
               /\ lookupCache' = [k \in DOMAIN lookupCache \cup ({ino} \X names) |->
                                   IF k \in {ino} \X names THEN inoOf[k[2]] ELSE lookupCache[k]]
               /\ nextIno' = nextIno + Cardinality(new)

\* Mutant of Page: an entry's offset is its own and not the next one's.
PageOwnOffset(names, size) ==
  LET listing == Listing(names)
      until == IF scan.offset + size <= Len(listing) THEN scan.offset + size ELSE Len(listing)
      page == {listing[i] : i \in scan.offset + 1 .. until} \ {Here, Up}
  IN  scan' = [scan EXCEPT
                 !.offset = IF until > @ THEN until - 1 ELSE @,
                 !.got = @ \cup page,
                 !.twice = @ \/ page \cap scan.got # {},
                 !.done = until >= Len(listing)]

\* The next page holds at least one entry, unless there is none.
Page(names, size) ==
  LET listing == Listing(names)
      until == IF scan.offset + size <= Len(listing) THEN scan.offset + size ELSE Len(listing)
      page == {listing[i] : i \in scan.offset + 1 .. until} \ {Here, Up}
  IN  scan' = [scan EXCEPT
                 !.offset = IF until > @ THEN until ELSE @,
                 !.got = @ \cup page,
                 !.twice = @ \/ page \cap scan.got # {},
                 !.done = scan.offset >= Len(listing)]

Readable(node) == IsDir(node) /\ Follow(Tree(node.backing), node.rel) = Directory

ReadDir(size) ==
  LET node == nodes[scan.ino]
  IN  /\ request = Idle
      /\ scan # NoScan
      /\ ~ scan.done
      /\ \/ /\ ~ Readable(node)
            /\ Reply(FALSE)
            /\ UNCHANGED <<nodeVars, scan>>
         \/ /\ Readable(node)
            /\ \E names \in {Listed(node)} : InternAll(scan.ino, names) /\ Page(names, size)
            /\ Reply(TRUE)
      /\ UNCHANGED <<treeVars, fileVars, request>>

ReleaseDir ==
  /\ request = Idle
  /\ scan # NoScan
  /\ scan' = NoScan
  /\ Reply(TRUE)
  /\ UNCHANGED <<treeVars, nodeVars, fileVars, request>>

-----------------------------------------------------------------------------
(* Open files.  One backing id per inode, shared by its handles.           *)

\* Mutant of Shared: the inode's backing id is kept after its last handle.
SharedForever(ino) == ino \in DOMAIN backingByInode

\* Weak::upgrade: some handle still has the backing id of the inode.
Shared(ino) ==
  /\ ino \in DOMAIN backingByInode
  /\ \E h \in DOMAIN backingByHandle : backingByHandle[h] = backingByInode[ino]

\* The file an inode's node names now, opened without following a link.
Named(node) ==
  [root |-> node.backing, rel |-> node.rel, object |-> At(Tree(node.backing), node.rel)]

Hand(fh, ino, id) ==
  /\ backingByHandle' = Put(backingByHandle, fh, id)
  /\ opened' = Put(opened, fh, ino)
  /\ Reply(TRUE)

\* The file cannot be opened, or the kernel refuses it as a backing file.
Refuse(ino) ==
  /\ Reply(FALSE)
  /\ UNCHANGED <<backingByHandle, backingByInode, opened>>

\* open_readonly opens whatever the name has come to mean; the kernel takes
\* only a regular file as a backing file.
BackingGetOr(ino, node) ==
  LET fh == nextFh + 1
      id == [by |-> fh, file |-> Named(node)]
  IN  /\ nextFh < MaxFh
      /\ nextFh' = fh
      /\ \/ /\ Shared(ino)
            /\ Hand(fh, ino, backingByInode[ino])
            /\ UNCHANGED backingByInode
         \/ /\ ~ Shared(ino)
            /\ Named(node).object.type = "file"
            /\ backingByInode' = Put(backingByInode, ino, id)
            /\ Hand(fh, ino, id)
         \/ /\ ~ Shared(ino)
            /\ Refuse(ino)

\* Mutant of AtLimit: one handle too many.
PastLimit == Cardinality(DOMAIN backingByHandle) > MaxOpenFiles

AtLimit == Cardinality(DOMAIN backingByHandle) >= MaxOpenFiles

Open(ino) ==
  LET node == nodes[ino]
  IN  /\ request = Idle
      /\ \/ /\ node.kind # "File" \/ AtLimit
            /\ Reply(FALSE)
            /\ UNCHANGED fileVars
         \/ /\ node.kind = "File" /\ ~ AtLimit
            /\ BackingGetOr(ino, node)
      /\ UNCHANGED <<treeVars, nodeVars, request, scan>>

\* backing_put: the handle's reference goes, and the last one closes the file.
Release(fh) ==
  LET others == DOMAIN backingByHandle \ {fh}
  IN  /\ request = Idle
      /\ backingByHandle' = [h \in others |-> backingByHandle[h]]
      /\ opened' = [h \in DOMAIN opened \ {fh} |-> opened[h]]
      /\ Reply(TRUE)
      /\ UNCHANGED <<treeVars, nodeVars, backingByInode, nextFh, request, scan>>

-----------------------------------------------------------------------------
(* Whoever writes the farm and the store.                                  *)

Unsettle == scan' = IF scan = NoScan THEN scan ELSE [scan EXCEPT !.calm = FALSE]

ChangeFarm(path, object) ==
  /\ object # farm[path]
  /\ farm' = [farm EXCEPT ![path] = object]
  /\ Unsettle
  /\ UNCHANGED <<store, nodeVars, fileVars, request, reply>>

ChangeStore(path, object) ==
  /\ object # store[path]
  /\ store' = [store EXCEPT ![path] = object]
  /\ Unsettle
  /\ UNCHANGED <<farm, nodeVars, fileVars, request, reply>>

-----------------------------------------------------------------------------

Init ==
  /\ farm \in [FarmPath -> UNION {FarmObjects[p] : p \in FarmPath}]
  /\ \A p \in FarmPath : farm[p] \in FarmObjects[p]
  /\ store \in [StorePath -> UNION {StoreObjects[p] : p \in StorePath}]
  /\ \A p \in StorePath : store[p] \in StoreObjects[p]
  /\ nodes = Put(<<>>, Root, Node("Bind", <<>>, "Dir"))
  /\ lookupCache = <<>>
  /\ nextIno = Root + 1
  /\ backingByHandle = <<>>
  /\ backingByInode = <<>>
  /\ nextFh = 0
  /\ request = Idle
  /\ reply = "ok"
  /\ opened = <<>>
  /\ scan = NoScan

Serve(ino) ==
  \/ \E n \in Name : Lookup(ino, n)
  \/ GetAttr(ino) \/ ReadLink(ino) \/ Modify(ino)
  \/ OpenDir(ino) \/ Open(ino)

Next ==
  \/ \E ino \in DOMAIN nodes : Serve(ino)
  \/ LookupAttr
  \/ \E size \in 1 .. Cardinality(Name) + 2 : ReadDir(size)
  \/ ReleaseDir
  \/ \E fh \in DOMAIN opened : Release(fh)
  \/ \E p \in FarmPath : \E o \in FarmObjects[p] : ChangeFarm(p, o)
  \/ \E p \in StorePath : \E o \in StoreObjects[p] : ChangeStore(p, o)

Spec == Init /\ [][Next]_vars
=============================================================================
