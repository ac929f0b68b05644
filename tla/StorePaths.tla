----------------------------- MODULE StorePaths -----------------------------
(***************************************************************************)
(* The path logic of nix-store-shared-fuse (realize.rs): which symlinks of *)
(* the farm are shown as what they point at.  A path is the sequence of    *)
(* its components; all paths here are absolute and logical, and nothing is *)
(* opened.                                                                 *)
(***************************************************************************)
EXTENDS Integers, Sequences, SequencesExt

CONSTANTS
  ResolutionRoot,  \* the prefix a link's target must have to be realized
  BindTarget       \* where the farm is, in the same name space

Here == "."
Up == ".."

\* A path of names only, as main makes of the two with normalize.
Canonical(path) ==
  /\ path \in Seq(STRING)
  /\ \A i \in 1 .. Len(path) : path[i] \notin {Here, Up}

ASSUME StorePathsAssumption == Canonical(ResolutionRoot) /\ Canonical(BindTarget)

\* One component: `..` takes the last name away, and stays at the root.
Walk(out, component) ==
  CASE component = Here -> out
    [] component = Up -> IF out = <<>> THEN out ELSE Front(out)
    [] OTHER -> Append(out, component)

Normalize(path) == FoldLeft(Walk, <<>>, path)

IsInside(candidate, base) == IsPrefix(Normalize(base), Normalize(candidate))

\* A link is [abs, to]; a relative one starts at the directory it is in.
ResolveTarget(linkDir, link) ==
  Normalize(IF link.abs THEN link.to ELSE linkDir \o link.to)

\* Mutant of Realizes: the loop guard is forgotten.
RealizesLoops(target) == IsInside(target, ResolutionRoot)

\* Inside the resolution root and not back in the farm.
Realizes(target) ==
  /\ IsInside(target, ResolutionRoot)
  /\ ~ IsInside(target, BindTarget)

\* The path below the redirect root that stands for the target.
RealizedRel(target) ==
  SubSeq(Normalize(target), Len(Normalize(ResolutionRoot)) + 1, Len(Normalize(target)))
=============================================================================
