-------------------------- MODULE HolderProperties --------------------------
(***************************************************************************)
(* What the lease on an app's network holder is for.                       *)
(***************************************************************************)
EXTENDS HolderLease

(* Every variable of the launches, of their two locks and of podman's      *)
(* record of the holder has its type.                                      *)
TypeOK ==
  /\ pc \in [Runner -> Phase]
  /\ guard \in Runner \cup {Nobody}
  /\ excl \in Runner \cup {Nobody}
  /\ shared \subseteq Runner
  /\ holder \in HolderState
  /\ lost \in BOOLEAN
  /\ apps \subseteq Runner
  /\ orphans \subseteq Call
  /\ stray \in BOOLEAN

(* The container of an entry whose runner is alive is never taken away     *)
(* with a holder that another launch replaces (acquire_lease removes the   *)
(* holder "and with it every container that had joined it"), as long as no call   *)
(* of podman that a killed runner left behind does so.                     *)
AppKept == \A r \in Runner : pc[r] = "run" => r \in apps \/ stray

(* From its claim to its end an entry has a holder to join: no launch and  *)
(* no release of another entry removes it in between, a call that a killed *)
(* runner left behind excepted.                                            *)
HolderThere == \A r \in Runner : pc[r] \in Claimed => holder # "absent" \/ stray

(* Whatever leftover a launch met, and whichever of podman's calls failed, *)
(* an entry is started on a holder that can be joined, unless the holder's *)
(* process died after it was last started, or a stray call took it away.   *)
Joinable ==
  \A r \in Runner : pc[r] \in {"launch", "run"} => holder = "running" \/ lost \/ stray

(* runner.rs, release_lease: the last entry to end removes the holder - if *)
(* every launch made so far has ended well, none is left.                  *)
LastRemoves ==
  (/\ \A r \in Runner : pc[r] \in {"idle", "done"}
   /\ \E r \in Runner : pc[r] = "done") => holder = "absent"

(* The two locks keep the promise of SharedHolder, up to the first stray   *)
(* removal.                                                                *)
Shared == INSTANCE SharedHolder WITH
  users <- shared, made <- holder # "absent" \/ stray
SharedSpec == Shared!Spec

(* Nobody waits for the guard forever, however many launches fail, and     *)
(* whatever happens to the holder.                                         *)
GuardAnswered ==
  \A r \in Runner : pc[r] \in {"guard", "endGuard"} ~> pc[r] \notin {"guard", "endGuard"}

-----------------------------------------------------------------------------

(* runner.rs, lock_paths: "The guard serialises the moments the holder is  *)
(* made or removed" - so an entry that has a claim never loses its holder  *)
(* to a removal.                                                           *)
GuardSerialises == \A r \in Runner : pc[r] \in Claimed => holder # "absent"
=============================================================================
