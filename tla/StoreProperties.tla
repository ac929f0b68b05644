-------------------------- MODULE StoreProperties ---------------------------
(***************************************************************************)
(* What the shared store file system has to keep, with the hazards each    *)
(* property is about.                                                      *)
(***************************************************************************)
EXTENDS StoreView

Kinds == {"Dir", "File", "Symlink", "RealizedDir"}
IsNode(node) ==
  /\ DOMAIN node = {"backing", "rel", "kind"}
  /\ node.backing \in {"Bind", "Redirect"}
  /\ node.kind \in Kinds

\* Every variable has its type: in particular no socket and no device is ever
\* a node (nodes.rs: "Never pass sockets, devices or FIFOs through").
TypeOK ==
  /\ \A ino \in DOMAIN nodes : ino \in Nat /\ IsNode(nodes[ino])
  /\ DOMAIN lookupCache \subseteq (DOMAIN nodes) \X Name
  /\ nextIno \in Nat
  /\ nextFh \in Nat
  /\ \A fh \in DOMAIN opened : fh \in 1 .. nextFh /\ opened[fh] \in DOMAIN nodes
  /\ \/ request = Idle
     \/ /\ DOMAIN request = {"name", "parent", "node"}
        /\ request.parent \in DOMAIN nodes
        /\ request.name \in Name
        /\ IsNode(request.node)
  /\ scan # NoScan => scan.ino \in DOMAIN nodes

\* An inode is what the kernel keeps a file by: two names never share one, the
\* root's is nobody else's, and every inode given out has its node.  Inodes are
\* given out by lookups and by pages of a directory, in any order.
InodesNamed ==
  /\ \A k, l \in DOMAIN lookupCache : lookupCache[k] = lookupCache[l] => k = l
  /\ {lookupCache[k] : k \in DOMAIN lookupCache} = DOMAIN nodes \ {Root}
  /\ Root \in DOMAIN nodes
  /\ \A ino \in DOMAIN nodes : ino < nextIno

\* All handles of an inode share one backing file, no two inodes do, no handle
\* is kept that the kernel does not have, and there are never more than
\* --max-open-files, whichever opens failed on the way.
OneBackingPerInode ==
  /\ DOMAIN backingByHandle = DOMAIN opened
  /\ \A f, g \in DOMAIN opened :
       opened[f] = opened[g] <=> backingByHandle[f] = backingByHandle[g]
  /\ Cardinality(DOMAIN opened) <= MaxOpenFiles

\* The first handle of an inode gets the file its node names at that moment:
\* never one that was opened for handles long closed, however often the store
\* changed in between.
FreshAfterClose ==
  [][\A fh \in DOMAIN opened' \ DOMAIN opened :
        \/ \E h \in DOMAIN opened : opened[h] = opened'[fh]
        \/ /\ backingByHandle'[fh].file = Named(nodes[opened'[fh]])
           /\ backingByHandle'[fh].file.object.type = "file"]_vars

\* A directory read in pages to its end, over which nothing changed, was read
\* whole and no entry twice, though every page lists it anew.
ScanComplete ==
  (scan # NoScan /\ scan.done /\ scan.calm) =>
     /\ scan.got = Listed(nodes[scan.ino])
     /\ ~ scan.twice

-----------------------------------------------------------------------------
(* README.md, "Realization rule", without the code's loop over components. *)

\* The name at i is left when no later `..` takes it away.
Stays(path, i) ==
  /\ path[i] \notin {Here, Up}
  /\ \A j \in i + 1 .. Len(path) :
       Cardinality({k \in i + 1 .. j : path[k] = Up})
         <= Cardinality({k \in i + 1 .. j : path[k] \notin {Here, Up}})

Meant(path) ==
  LET left == {i \in 1 .. Len(path) : Stays(path, i)}
  IN  [n \in 1 .. Cardinality(left) |->
         path[CHOOSE i \in left : Cardinality({j \in left : j < i}) = n - 1]]

MeantBy(link, dir) == Meant(IF link.abs THEN link.to ELSE dir \o link.to)

Documented(target) ==
  /\ IsPrefix(ResolutionRoot, target)
  /\ ~ IsPrefix(BindTarget, target)
  /\ Follow(store, SubSeq(target, Len(ResolutionRoot) + 1, Len(target))).type
       \in {"dir", "file"}

\* A lookup that meets a link of the farm shows it as the store path it means
\* exactly when the README's three rules hold, and as that path.
RealizedAsDocumented ==
  [][(request = Idle /\ request' # Idle) =>
       LET parent == nodes[request'.parent]
           node == request'.node
           object == At(farm, Append(parent.rel, request'.name))
           target == MeantBy(object, BindTarget \o parent.rel)
       IN  (parent.backing = "Bind" /\ object.type = "link") =>
             IF Documented(target)
             THEN node.backing = "Redirect" /\ ResolutionRoot \o node.rel = target
             ELSE node.backing = "Bind" /\ node.kind = "Symlink"]_vars

-----------------------------------------------------------------------------
Service == INSTANCE FileService
             WITH table <- lookupCache, file <- backingByHandle

\* The daemon keeps what the kernel relies on (FileService): an inode stays its
\* name's while lookups, pages, opens, failures and changes interleave, and the
\* handles of an inode have one file of their own.
IsFileService == Service!Spec
=============================================================================
