---------------------------- MODULE HolderProofs ----------------------------
(***************************************************************************)
(* Proofs about the lease on an app's network holder, for any number of    *)
(* launches, with podman failing and runners killed at any point.          *)
(***************************************************************************)
EXTENDS HolderProperties, TLAPS

(* The inductive invariant.  The phase of a launch tells which locks it    *)
(* has; a holder that was verified, or that is claimed, is there; and once *)
(* a launch has ended well, whoever left a holder is still under way; and  *)
(* only a killed runner leaves calls behind.                               *)
LockInv ==
  /\ \A r \in Runner : pc[r] \in Guarded <=> guard = r
  /\ \A r \in Runner : pc[r] \in Exclusive \cup {"remove"} => excl = r
  /\ \A r \in Runner : excl = r =>
       pc[r] \in Exclusive \cup Making \cup {"verify", "unlock", "remove"}
  /\ \A r \in Runner : pc[r] \in Claimed <=> r \in shared
  /\ excl # Nobody => shared = {}

HeldInv ==
  \A r \in Runner :
    pc[r] \in Claimed \cup Verified => holder # "absent" \/ stray

AliveInv ==
  \A r \in Runner :
    pc[r] \in {"unlock", "convert", "launch", "run"} => holder = "running" \/ lost \/ stray

LastInv ==
  /\ (holder # "absent" /\ \E r \in Runner : pc[r] = "done") =>
       \E r \in Runner : pc[r] \notin {"idle", "done"}
  /\ orphans # {} => \E r \in Runner : pc[r] = "killed"

HolderInv ==
  /\ TypeOK
  /\ LockInv
  /\ HeldInv
  /\ AliveInv
  /\ AppKept
  /\ LastInv

-----------------------------------------------------------------------------

(* Every variable has its type to begin with ...                           *)
LEMMA TypeInit == Init => TypeOK
  BY HolderAssumption DEF Init, TypeOK, Phase, HolderState

(* ... and every step keeps it.                                            *)
LEMMA TypeNext == TypeOK /\ [Next]_vars => TypeOK'
  <1> SUFFICES ASSUME TypeOK, [Next]_vars PROVE TypeOK'
    OBVIOUS
  <1> USE HolderAssumption
      DEF TypeOK, HolderState, locks, world, left, Goto, Unlock, GiveUp
  <1>0. ASSUME NEW r \in Runner, NEW p \in Phase, Goto(r, p)
        PROVE  pc' \in [Runner -> Phase]
    BY <1>0
  <1> USE DEF Phase, Guarded, Exclusive, Making, Verified, Claimed, Removing, Ended
  <1>1. ASSUME NEW r \in Runner, Launch(r) \/ Acquire(r) PROVE TypeOK'
    <2>1. CASE Launch(r) BY <2>1 DEF Launch
    <2>2. CASE TakeGuard(r) BY <2>2 DEF TakeGuard
    <2>3. CASE TryClaim(r) BY <2>3 DEF TryClaim
    <2>4. CASE Exists(r) BY <2>4 DEF Exists
    <2>5. CASE Inspect(r) BY <2>5 DEF Inspect
    <2>6. CASE Replace(r) BY <2>6 DEF Replace, RemoveWithDependents
    <2>7. CASE Ensure(r) BY <2>7 DEF Ensure
    <2>8. CASE Create(r) BY <2>8 DEF Create, MakeHolder
    <2>9. CASE Start(r) BY <2>9 DEF Start
    <2>10. CASE StartRefused(r) BY <2>10 DEF StartRefused
    <2>11. CASE Verify(r) BY <2>11 DEF Verify
    <2>12. CASE UnlockLease(r) BY <2>12 DEF UnlockLease
    <2>13. CASE Share(r) BY <2>13 DEF Share
    <2> QED
      BY <1>1, <2>1, <2>2, <2>3, <2>4, <2>5, <2>6, <2>7, <2>8, <2>9, <2>10, <2>11,
         <2>12, <2>13 DEF Acquire
  <1>2. ASSUME NEW r \in Runner, Release(r) PROVE TypeOK'
    <2>1. CASE RunApp(r) BY <2>1 DEF RunApp
    <2>2. CASE DropClaim(r) BY <2>2 DEF DropClaim
    <2>3. CASE TakeGuardToEnd(r) BY <2>3 DEF TakeGuardToEnd
    <2>4. CASE Probe(r) BY <2>4 DEF Probe
    <2>5. CASE Remove(r) BY <2>5 DEF Remove, RemoveHolder
    <2> QED BY <1>2, <2>1, <2>2, <2>3, <2>4, <2>5 DEF Release
  <1>3. ASSUME NEW r \in Runner,
               AppEnds(r) \/ GuardTimeout(r) \/ EndGuardTimeout(r) \/ RunFails(r)
                 \/ LeftoverEnds(r)
        PROVE  TypeOK'
    BY <1>3 DEF AppEnds, GuardTimeout, EndGuardTimeout, RunFails, LeftoverEnds
  <1>4. ASSUME NEW r \in Runner, Stall(r) PROVE TypeOK'
    BY <1>4 DEF Stall, MakeHolder
  <1>5. ASSUME NEW r \in Runner, Kill(r) PROVE TypeOK'
    BY <1>5 DEF Kill
  <1>6. ASSUME NEW o \in Call, OrphanEnds(o) PROVE TypeOK'
    BY <1>6 DEF OrphanEnds, RemoveWithDependents, RemoveHolder, MakeHolder
  <1>7. CASE HolderDies \/ RecordCatchesUp \/ UNCHANGED vars
    BY <1>7 DEF HolderDies, RecordCatchesUp, vars
  <1> QED
    BY <1>1, <1>2, <1>3, <1>4, <1>5, <1>6, <1>7 DEF Next

(* Every variable keeps its type, whatever podman answers.                 *)
THEOREM TypeCorrect == Spec => []TypeOK
  BY TypeInit, TypeNext, PTL DEF Spec

-----------------------------------------------------------------------------

(* A step of one launch.                                                   *)
RunnerStep(r) ==
  \/ Launch(r) \/ Acquire(r) \/ Release(r) \/ AppEnds(r)
  \/ GuardTimeout(r) \/ EndGuardTimeout(r) \/ Stall(r) \/ RunFails(r)
  \/ Kill(r) \/ LeftoverEnds(r)

(* The locks after a step of a launch: whoever has the guard is the only   *)
(* one that prepares, verifies or removes.                                 *)
LEMMA LocksKept ==
  ASSUME HolderInv, NEW r \in Runner, RunnerStep(r)
  PROVE  LockInv'
  <1> USE HolderAssumption
      DEF HolderInv, TypeOK, LockInv, RunnerStep, Goto, Unlock, GiveUp, locks, world,
          Guarded, Exclusive, Making, Verified, Claimed, Removing, Ended
  <1>1. CASE TakeGuard(r) BY <1>1 DEF TakeGuard
  <1>2. CASE TryClaim(r) BY <1>2 DEF TryClaim
  <1>3. CASE Exists(r) BY <1>3 DEF Exists
  <1>4. CASE Inspect(r) BY <1>4 DEF Inspect
  <1>5. CASE Replace(r) BY <1>5 DEF Replace, RemoveWithDependents
  <1>6. CASE Ensure(r) BY <1>6 DEF Ensure
  <1>7. CASE Create(r) BY <1>7 DEF Create, MakeHolder
  <1>8. CASE Start(r) BY <1>8 DEF Start
  <1>9. CASE StartRefused(r) BY <1>9 DEF StartRefused
  <1>10. CASE Verify(r) BY <1>10 DEF Verify, HolderAlive
  <1>11. CASE UnlockLease(r) BY <1>11 DEF UnlockLease
  <1>12. CASE Share(r) BY <1>12 DEF Share
  <1>13. CASE RunApp(r) BY <1>13 DEF RunApp
  <1>14. CASE DropClaim(r) BY <1>14 DEF DropClaim
  <1>15. CASE TakeGuardToEnd(r) BY <1>15 DEF TakeGuardToEnd
  <1>16. CASE Probe(r) BY <1>16 DEF Probe
  <1>17. CASE Remove(r) BY <1>17 DEF Remove, RemoveHolder
  <1>18. CASE AppEnds(r) BY <1>18 DEF AppEnds
  <1>19. CASE GuardTimeout(r) BY <1>19 DEF GuardTimeout
  <1>20. CASE EndGuardTimeout(r) BY <1>20 DEF EndGuardTimeout
  <1>21. CASE Stall(r) BY <1>21 DEF Stall, MakeHolder
  <1>22. CASE RunFails(r) BY <1>22 DEF RunFails
  <1>23. CASE Kill(r) BY <1>23 DEF Kill
  <1>24. CASE LeftoverEnds(r) BY <1>24 DEF LeftoverEnds
  <1>25. CASE Launch(r) BY <1>25 DEF Launch
  <1> QED
    BY <1>1, <1>2, <1>3, <1>4, <1>5, <1>6, <1>7, <1>8, <1>9, <1>10, <1>11, <1>12,
       <1>13, <1>14, <1>15, <1>16, <1>17, <1>18, <1>19, <1>20, <1>21, <1>22, <1>23,
       <1>24, <1>25 DEF Acquire, Release

(* The holder after a step of a launch.                                    *)
LEMMA HolderKept ==
  ASSUME HolderInv, NEW r \in Runner, RunnerStep(r)
  PROVE  HeldInv' /\ AliveInv' /\ AppKept' /\ LastInv'
  <1> USE HolderAssumption
      DEF HolderInv, TypeOK, LockInv, HeldInv, AliveInv, AppKept, LastInv, RunnerStep,
          Goto, Unlock, GiveUp, locks, world, left,
          Guarded, Exclusive, Making, Verified, Claimed, Removing, Ended
  <1>1. CASE TakeGuard(r) BY <1>1 DEF TakeGuard
  <1>2. CASE TryClaim(r) BY <1>2 DEF TryClaim
  <1>3. CASE Exists(r) BY <1>3 DEF Exists
  <1>4. CASE Inspect(r) BY <1>4 DEF Inspect
  <1>5. CASE Replace(r) BY <1>5 DEF Replace, RemoveWithDependents
  <1>6. CASE Ensure(r) BY <1>6 DEF Ensure
  <1>7. CASE Create(r) BY <1>7 DEF Create, MakeHolder
  <1>8. CASE Start(r) BY <1>8 DEF Start
  <1>9. CASE StartRefused(r) BY <1>9 DEF StartRefused
  <1>10. CASE Verify(r) BY <1>10 DEF Verify, HolderAlive
  <1>11. CASE UnlockLease(r) BY <1>11 DEF UnlockLease
  <1>12. CASE Share(r) BY <1>12 DEF Share
  <1>13. CASE RunApp(r) BY <1>13 DEF RunApp
  <1>14. CASE DropClaim(r) BY <1>14 DEF DropClaim
  <1>15. CASE TakeGuardToEnd(r) BY <1>15 DEF TakeGuardToEnd
  <1>16. CASE Probe(r) BY <1>16 DEF Probe
  <1>17. CASE Remove(r) BY <1>17 DEF Remove, RemoveHolder
  <1>18. CASE AppEnds(r) BY <1>18 DEF AppEnds
  <1>19. CASE GuardTimeout(r) BY <1>19 DEF GuardTimeout
  <1>20. CASE EndGuardTimeout(r) BY <1>20 DEF EndGuardTimeout
  <1>21. CASE Stall(r) BY <1>21 DEF Stall, MakeHolder
  <1>22. CASE RunFails(r) BY <1>22 DEF RunFails
  <1>23. CASE Kill(r) BY <1>23 DEF Kill
  <1>24. CASE LeftoverEnds(r) BY <1>24 DEF LeftoverEnds
  <1>25. CASE Launch(r) BY <1>25 DEF Launch
  <1> QED
    BY <1>1, <1>2, <1>3, <1>4, <1>5, <1>6, <1>7, <1>8, <1>9, <1>10, <1>11, <1>12,
       <1>13, <1>14, <1>15, <1>16, <1>17, <1>18, <1>19, <1>20, <1>21, <1>22, <1>23,
       <1>24, <1>25 DEF Acquire, Release

(* Initially nobody has a lock, and a leftover holder hurts nobody.        *)
LEMMA HolderInit == Init => HolderInv
  BY TypeInit, HolderAssumption
     DEF Init, HolderInv, LockInv, HeldInv, AliveInv, AppKept, LastInv,
         Guarded, Exclusive, Making, Verified, Claimed, Removing

(* Every step keeps the invariant: one of a launch, of a call that a       *)
(* killed runner left behind, or of the holder itself.                     *)
LEMMA HolderNext == HolderInv /\ [Next]_vars => HolderInv'
  <1> SUFFICES ASSUME HolderInv, [Next]_vars
               PROVE  LockInv' /\ HeldInv' /\ AliveInv' /\ AppKept' /\ LastInv'
    BY TypeNext DEF HolderInv
  <1>1. ASSUME NEW r \in Runner, RunnerStep(r)
        PROVE  LockInv' /\ HeldInv' /\ AliveInv' /\ AppKept' /\ LastInv'
    BY <1>1, LocksKept, HolderKept
  <1> USE DEF HolderInv, TypeOK, LockInv, HeldInv, AliveInv, AppKept, LastInv, HolderState
  <1>2. ASSUME NEW o \in Call, OrphanEnds(o)
        PROVE  LockInv' /\ HeldInv' /\ AliveInv' /\ AppKept' /\ LastInv'
    <2>1. pc' = pc /\ guard' = guard /\ excl' = excl /\ shared' = shared
      BY <1>2 DEF OrphanEnds, locks
    <2>2. LockInv' BY <2>1
    <2>3. ASSUME stray \/ (holder # "absent" /\ holder' = "absent")
          PROVE  HeldInv' /\ AliveInv' /\ AppKept'
      <3>1. stray'
        BY <1>2, <2>3 DEF OrphanEnds
      <3> QED BY <2>1, <3>1
    <2>4. ASSUME ~ stray, holder = "absent" \/ holder' # "absent"
          PROVE  HeldInv' /\ AliveInv' /\ AppKept'
      <3>1. CASE holder = "absent"
        BY <1>2, <2>1, <2>4, <3>1
           DEF OrphanEnds, RemoveWithDependents, RemoveHolder, MakeHolder, Claimed, Verified
      <3>2. CASE holder # "absent" /\ holder' # "absent"
        <4>1. holder' = holder /\ lost' = lost /\ apps' = apps
          BY <1>2, <3>2 DEF OrphanEnds, RemoveWithDependents, RemoveHolder, MakeHolder
        <4> QED BY <2>1, <2>4, <3>2, <4>1
      <3> QED BY <2>4, <3>1, <3>2
    <2>5. \E r \in Runner : pc[r] = "killed"
      BY <1>2 DEF OrphanEnds
    <2>6. LastInv' BY <2>1, <2>5
    <2>7. HeldInv' /\ AliveInv' /\ AppKept' BY <2>3, <2>4
    <2> QED BY <2>2, <2>6, <2>7
  <1>3. CASE HolderDies \/ RecordCatchesUp
    BY <1>3 DEF HolderDies, RecordCatchesUp, locks, left
  <1>4. CASE UNCHANGED vars
    BY <1>4 DEF vars, locks, world, left
  <1> QED
    BY <1>1, <1>2, <1>3, <1>4 DEF Next, RunnerStep

(* Whatever leftovers a launch meets, and wherever podman fails or a       *)
(* runner is killed: an entry keeps its container and its holder, is only  *)
(* ever started on one that can be joined, and the last entry to end well  *)
(* leaves none.                                                            *)
THEOREM HolderSafe == Spec => [](AppKept /\ HolderThere /\ Joinable /\ LastRemoves)
  <1>1. HolderInv => AppKept /\ HolderThere /\ Joinable /\ LastRemoves
    BY DEF HolderInv, HeldInv, AliveInv, LastInv, HolderThere, Joinable, LastRemoves
  <1> QED
    BY <1>1, HolderInit, HolderNext, PTL DEF Spec

(* Each on its own: the app of a runner that is alive is not removed.      *)
COROLLARY AppsAreKept == Spec => []AppKept
  BY HolderSafe, PTL

(* An entry is started on a holder that can be joined.                     *)
COROLLARY EntriesCanJoin == Spec => []Joinable
  BY HolderSafe, PTL

(* The last entry to end well leaves no holder.                            *)
COROLLARY LastEntryRemoves == Spec => []LastRemoves
  BY HolderSafe, PTL

(* The lease implements the shared holder: an entry is let onto a holder   *)
(* that is there, and it is removed only while no entry has a claim.       *)
THEOREM HolderIsShared == Spec => SharedSpec
  <1> DEFINE made == holder # "absent" \/ stray
  <1>1. Init => Shared!Init
    BY DEF Init, Shared!Init
  <1>2. ASSUME HolderInv, [Next]_vars
        PROVE  [Shared!Next]_<<shared, made>>
    <2> USE DEF HolderInv, TypeOK
    <2>1. ASSUME NEW r \in Runner, RunnerStep(r)
          PROVE  [Shared!Next]_<<shared, made>>
      <3>1. CASE Share(r)
        <4>1. made BY <1>2, <3>1 DEF HeldInv, Share, Verified
        <4>2. shared' = shared \cup {r} /\ made' = made
          BY <3>1 DEF Share, world, left
        <4> QED BY <4>1, <4>2 DEF Shared!Next, Shared!Enter
      <3>2. CASE Replace(r) \/ Remove(r)
        <4>1. shared = {}
          BY <1>2, <3>2, HolderAssumption DEF LockInv, Replace, Remove, Exclusive
        <4>2. shared' = {}
          BY <3>2, <4>1 DEF Replace, Remove, Unlock, locks
        <4>3. stray' = stray /\ (holder' = "absent" \/ holder' = holder)
          BY <3>2 DEF Replace, Remove, RemoveWithDependents, RemoveHolder, left
        <4>4. made' = FALSE \/ made' = made BY <4>3
        <4> QED BY <4>1, <4>2, <4>4 DEF Shared!Next, Shared!Remove
      <3>3. CASE Create(r) \/ Start(r) \/ Stall(r)
        <4>1. pc[r] \notin Claimed
          BY <3>3 DEF Create, Start, Stall, Claimed
        <4>2. shared' = shared
          BY <1>2, <3>3, <4>1 DEF Create, Start, Stall, GiveUp, Unlock, locks, LockInv
        <4>3. stray' = stray /\ (holder' = "absent" => holder = "absent")
          BY <3>3 DEF Create, Start, Stall, MakeHolder, left
        <4>4. made' = TRUE \/ made' = made BY <4>3
        <4> QED BY <4>2, <4>4 DEF Shared!Next, Shared!Make
      <3>4. CASE DropClaim(r) \/ Kill(r) \/ StartRefused(r) \/ Verify(r)
        <4>1. made' = made
          BY <3>4 DEF DropClaim, Kill, StartRefused, Verify, world, left
        <4>2. shared' = shared \/ shared' = shared \ {r}
          BY <3>4 DEF DropClaim, Kill, StartRefused, Verify, GiveUp, Unlock, locks
        <4> QED BY <4>1, <4>2 DEF Shared!Next, Shared!Leave
      <3>5. CASE \/ Launch(r) \/ TakeGuard(r) \/ TryClaim(r) \/ Exists(r) \/ Inspect(r)
                 \/ Ensure(r) \/ UnlockLease(r) \/ RunApp(r) \/ TakeGuardToEnd(r)
                 \/ Probe(r) \/ AppEnds(r) \/ GuardTimeout(r) \/ EndGuardTimeout(r)
                 \/ RunFails(r) \/ LeftoverEnds(r)
        BY <3>5 DEF Launch, TakeGuard, TryClaim, Exists, Inspect, Ensure, UnlockLease,
                    RunApp, TakeGuardToEnd, Probe, AppEnds, GuardTimeout,
                    EndGuardTimeout, RunFails, LeftoverEnds, locks, world, left
      <3> QED
        BY <2>1, <3>1, <3>2, <3>3, <3>4, <3>5 DEF RunnerStep, Acquire, Release
    <2>2. ASSUME NEW o \in Call, OrphanEnds(o)
          PROVE  [Shared!Next]_<<shared, made>>
      <3>1. shared' = shared BY <2>2 DEF OrphanEnds, locks
      <3>2. made => made'
        BY <1>2, <2>2 DEF OrphanEnds
      <3>3. made' = TRUE \/ made' = made
        BY <3>2
      <3> QED BY <3>1, <3>3 DEF Shared!Next, Shared!Make
    <2>3. CASE HolderDies \/ RecordCatchesUp \/ UNCHANGED vars
      BY <2>3 DEF HolderDies, RecordCatchesUp, vars, locks, world, left
    <2> QED
      BY <1>2, <2>1, <2>2, <2>3 DEF Next, RunnerStep
  <1>3. Spec => []HolderInv
    BY HolderInit, HolderNext, PTL DEF Spec
  <1> QED
    BY <1>1, <1>2, <1>3, PTL DEF Spec, SharedSpec, Shared!Spec
=============================================================================
