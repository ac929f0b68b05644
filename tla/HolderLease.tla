----------------------------- MODULE HolderLease ----------------------------
(***************************************************************************)
(* The app runner's lease on the network holder of an app.                 *)
(*                                                                         *)
(* Each member of Runner is one launch of an entry of the app.  Two files  *)
(* in the runtime directory are its locks: the guard serialises the        *)
(* preparation and the removal of the holder, and on the lease file every  *)
(* running entry has a shared lock, its claim, which the kernel drops when *)
(* the runner ends.  Whoever gets the lease file exclusively knows that no *)
(* entry runs.  A call of podman is one step; a runner that may be killed  *)
(* during the call leaves that call behind, still to take effect.          *)
(***************************************************************************)
EXTENDS Naturals, FiniteSets

CONSTANTS
  Runner,       \* the launches of the app, each made once
  Nobody,       \* no owner of a lock
  CanFail,      \* may podman stall or fail, and may a wait time out?
  CanKill       \* may a runner be killed?

ASSUME HolderAssumption ==
  /\ Nobody \notin Runner
  /\ {CanFail, CanKill} \subseteq BOOLEAN

VARIABLES
  pc,      \* where each launch is
  guard,   \* who holds <holder>.guard
  excl,    \* who holds <holder>.lease exclusively
  shared,  \* who holds <holder>.lease shared
  holder,  \* the holder: podman's record of it and its process
  lost,    \* has the holder's process died since it was last started?
  apps,    \* the launches whose container has joined the holder
  orphans, \* the calls of podman that killed runners have left behind
  stray    \* has one of those taken a holder away?

locks == <<guard, excl, shared>>
left == <<orphans, stray>>
world == <<holder, lost, apps, left>>
vars == <<pc, locks, world>>

\* A launch takes the guard, tries for the lease, replaces a holder that
\* cannot be joined, makes and starts one, looks at it again, and turns its
\* lock on the lease into a claim.
Exclusive == {"exists", "inspect", "replace"}
Making == {"ensure", "create", "start"}
Verified == {"verify", "unlock", "convert"}
Claimed == {"launch", "run", "end"}
Removing == {"probe", "remove"}
Guarded == {"claim"} \cup Exclusive \cup Making \cup Verified \cup Removing
Ended == {"done", "left", "failed", "killed"}
Phase == {"idle", "guard", "endGuard"} \cup Guarded \cup Claimed \cup Ended

\* "stopped" is a container podman knows not to run; "stale" one that podman
\* lists as running while its process is dead.
HolderState == {"absent", "stopped", "stale", "running"}
Call == {"create", "rm", "rm --depend"}

\* Any leftover of an earlier use may be there.
Init ==
  /\ pc = [r \in Runner |-> "idle"]
  /\ guard = Nobody /\ excl = Nobody /\ shared = {}
  /\ holder \in HolderState
  /\ lost = FALSE
  /\ apps = {} /\ orphans = {} /\ stray = FALSE

Goto(r, phase) == pc' = [pc EXCEPT ![r] = phase]

\* The kernel drops the locks of a runner that ends, or whose files go out of
\* scope.
Unlock(r) ==
  /\ guard' = IF guard = r THEN Nobody ELSE guard
  /\ excl' = IF excl = r THEN Nobody ELSE excl
  /\ shared' = shared \ {r}

GiveUp(r) == Goto(r, "failed") /\ Unlock(r)

-----------------------------------------------------------------------------
(* acquire_lease                                                           *)

Launch(r) ==
  /\ pc[r] = "idle"
  /\ Goto(r, "guard")
  /\ UNCHANGED <<locks, world>>

\* lock_within the guard, for at most GUARD_TIMEOUT.
TakeGuard(r) ==
  /\ pc[r] = "guard"
  /\ guard = Nobody
  /\ guard' = r
  /\ Goto(r, "claim")
  /\ UNCHANGED <<excl, shared, world>>

GuardTimeout(r) ==
  /\ CanFail
  /\ pc[r] = "guard"
  /\ guard # Nobody
  /\ Goto(r, "failed")
  /\ UNCHANGED <<locks, world>>

\* Mutant of TryClaim: takes an entry that runs for nobody.
TryClaimBlind(r) ==
  /\ pc[r] = "claim"
  /\ excl' = r
  /\ Goto(r, "exists")
  /\ UNCHANGED <<guard, shared, world>>

\* try_lock on the lease: without it, an entry runs and its holder is kept.
TryClaim(r) ==
  /\ pc[r] = "claim"
  /\ IF excl = Nobody /\ shared = {}
     THEN excl' = r /\ Goto(r, "exists")
     ELSE UNCHANGED excl /\ Goto(r, "ensure")
  /\ UNCHANGED <<guard, shared, world>>

\* podman container exists
Exists(r) ==
  /\ pc[r] = "exists"
  /\ Goto(r, IF holder = "absent" THEN "ensure" ELSE "inspect")
  /\ UNCHANGED <<locks, world>>

\* Mutant of HolderAlive: believes podman's record.
HolderListed == holder \in {"running", "stale"}

\* holder_alive: podman has it running, and its process is there.
HolderAlive == holder = "running"

Inspect(r) ==
  /\ pc[r] = "inspect"
  /\ Goto(r, IF HolderAlive THEN "ensure" ELSE "replace")
  /\ UNCHANGED <<locks, world>>

\* podman rm -f --depend: the holder goes, and whatever had joined it.
RemoveWithDependents ==
  /\ holder' = "absent"
  /\ apps' = {}
  /\ UNCHANGED lost

\* What podman answers is ignored, a stalled call included.
Replace(r) ==
  /\ pc[r] = "replace"
  /\ \/ RemoveWithDependents
     \/ CanFail /\ UNCHANGED <<holder, apps, lost>>
  /\ Goto(r, "ensure")
  /\ UNCHANGED <<locks, left>>

\* start_holder: create it if it does not exist ...
Ensure(r) ==
  /\ pc[r] = "ensure"
  /\ Goto(r, IF holder = "absent" THEN "create" ELSE "start")
  /\ UNCHANGED <<locks, world>>

\* podman run, which fails if there is a container of that name by now.
MakeHolder ==
  IF holder = "absent" THEN holder' = "running" /\ lost' = FALSE
                       ELSE UNCHANGED <<holder, lost>>

\* A `run` that failed is no error if the container is there all the same.
Create(r) ==
  /\ pc[r] = "create"
  /\ \/ MakeHolder
     \/ CanFail /\ holder = "absent" /\ holder' = "stopped" /\ UNCHANGED lost
  /\ Goto(r, "start")
  /\ UNCHANGED <<locks, apps, left>>

\* ... and start it, which changes nothing for one that is listed as running.
Start(r) ==
  /\ pc[r] = "start"
  /\ holder # "absent"
  /\ IF holder = "stopped"
     THEN holder' = "running" /\ lost' = FALSE
     ELSE UNCHANGED <<holder, lost>>
  /\ Goto(r, "verify")
  /\ UNCHANGED <<locks, apps, left>>

\* The app was told its holder cannot be brought up.
StartRefused(r) ==
  /\ pc[r] = "start"
  /\ holder = "absent" \/ CanFail
  /\ GiveUp(r)
  /\ UNCHANGED world

Verify(r) ==
  /\ pc[r] = "verify"
  /\ IF HolderAlive
     THEN Goto(r, "unlock") /\ UNCHANGED locks
     ELSE GiveUp(r)
  /\ UNCHANGED world

\* A podman call is given MANAGE_TIMEOUT; without an answer the launch fails.
Stall(r) ==
  /\ CanFail
  /\ pc[r] \in {"exists", "inspect", "ensure", "create", "verify"}
  /\ \/ UNCHANGED <<holder, lost>>
     \/ pc[r] = "create" /\ MakeHolder
  /\ GiveUp(r)
  /\ UNCHANGED <<apps, left>>

\* lock_shared.  flock converts a lock in two steps, and between them nobody
\* has the lease.
UnlockLease(r) ==
  /\ pc[r] = "unlock"
  /\ excl' = IF excl = r THEN Nobody ELSE excl
  /\ Goto(r, "convert")
  /\ UNCHANGED <<guard, shared, world>>

\* Mutant of Share: the guard stays locked.
ShareGuarded(r) ==
  /\ pc[r] = "convert"
  /\ excl = Nobody
  /\ shared' = shared \cup {r}
  /\ Goto(r, "launch")
  /\ UNCHANGED <<guard, excl, world>>

Share(r) ==
  /\ pc[r] = "convert"
  /\ excl = Nobody
  /\ shared' = shared \cup {r}
  /\ guard' = Nobody
  /\ Goto(r, "launch")
  /\ UNCHANGED <<excl, world>>

Acquire(r) ==
  \/ TakeGuard(r) \/ TryClaim(r) \/ Exists(r) \/ Inspect(r) \/ Replace(r)
  \/ Ensure(r) \/ Create(r) \/ Start(r) \/ StartRefused(r) \/ Verify(r)
  \/ UnlockLease(r) \/ Share(r)

-----------------------------------------------------------------------------
(* launch and release_lease                                                *)

\* podman run: a container that joins the holder, if that can be joined.
RunApp(r) ==
  /\ pc[r] = "launch"
  /\ IF holder = "running"
     THEN apps' = apps \cup {r} /\ Goto(r, "run")
     ELSE UNCHANGED apps /\ Goto(r, "end")
  /\ UNCHANGED <<locks, holder, lost, left>>

\* The entry cannot be started for another reason.
RunFails(r) ==
  /\ CanFail
  /\ pc[r] = "launch"
  /\ Goto(r, "end")
  /\ UNCHANGED <<locks, world>>

AppEnds(r) ==
  /\ pc[r] = "run"
  /\ apps' = apps \ {r}
  /\ Goto(r, "end")
  /\ UNCHANGED <<locks, holder, lost, left>>

DropClaim(r) ==
  /\ pc[r] = "end"
  /\ shared' = shared \ {r}
  /\ Goto(r, "endGuard")
  /\ UNCHANGED <<guard, excl, world>>

TakeGuardToEnd(r) ==
  /\ pc[r] = "endGuard"
  /\ guard = Nobody
  /\ guard' = r
  /\ Goto(r, "probe")
  /\ UNCHANGED <<excl, shared, world>>

\* Whoever is at work has to deal with the holder.
EndGuardTimeout(r) ==
  /\ CanFail
  /\ pc[r] = "endGuard"
  /\ guard # Nobody
  /\ Goto(r, "left")
  /\ UNCHANGED <<locks, world>>

\* Mutant of Probe: an entry that runs does not keep the holder.
ProbeBlind(r) ==
  /\ pc[r] = "probe"
  /\ excl' = r
  /\ Goto(r, "remove")
  /\ UNCHANGED <<guard, shared, world>>

\* try_lock on the lease again: was this the last entry?
Probe(r) ==
  /\ pc[r] = "probe"
  /\ IF excl = Nobody /\ shared = {}
     THEN excl' = r /\ Goto(r, "remove") /\ UNCHANGED guard
     ELSE guard' = Nobody /\ Goto(r, "done") /\ UNCHANGED excl
  /\ UNCHANGED <<shared, world>>

\* podman rm -f, which is refused while a container joins the holder.
RemoveHolder ==
  /\ apps = {}
  /\ holder' = "absent"
  /\ UNCHANGED <<lost, apps>>

\* Mutant of Remove: leaves the holder to the next launch.
RemoveNothing(r) ==
  /\ pc[r] = "remove"
  /\ Goto(r, "done")
  /\ UNCHANGED world
  /\ Unlock(r)

Remove(r) ==
  /\ pc[r] = "remove"
  /\ \/ RemoveHolder /\ Goto(r, "done")
     \/ /\ apps # {} \/ CanFail
        /\ Goto(r, "left")
        /\ UNCHANGED <<holder, lost, apps>>
  /\ Unlock(r)
  /\ UNCHANGED left

Release(r) ==
  \/ RunApp(r) \/ DropClaim(r) \/ TakeGuardToEnd(r) \/ Probe(r) \/ Remove(r)

-----------------------------------------------------------------------------
(* What happens to a launch, and to the holder.                            *)

CalledIn == [o \in Call |->
  CASE o = "create" -> "create" [] o = "rm" -> "remove" [] OTHER -> "replace"]

\* kill -9: the locks go with the process, its container stays or still comes
\* up, and a call of podman it was waiting for goes on.
Kill(r) ==
  /\ CanKill
  /\ pc[r] \notin {"idle"} \cup Ended
  /\ Goto(r, "killed")
  /\ Unlock(r)
  /\ orphans' = orphans \cup {o \in Call : pc[r] = CalledIn[o]}
  /\ \/ UNCHANGED apps
     \/ pc[r] = "launch" /\ holder = "running" /\ apps' = apps \cup {r}
  /\ UNCHANGED <<holder, lost, stray>>

\* A call left behind takes effect, or comes to nothing.
OrphanEnds(o) ==
  /\ o \in orphans
  /\ orphans' = orphans \ {o}
  /\ \/ o = "rm --depend" /\ RemoveWithDependents
     \/ o = "rm" /\ RemoveHolder
     \/ o = "create" /\ MakeHolder /\ UNCHANGED apps
     \/ UNCHANGED <<holder, lost, apps>>
  /\ stray' = (stray \/ (holder # "absent" /\ holder' = "absent"))
  /\ UNCHANGED <<pc, locks>>

\* The app of a runner that was killed ends by itself.
LeftoverEnds(r) ==
  /\ pc[r] = "killed"
  /\ r \in apps
  /\ apps' = apps \ {r}
  /\ UNCHANGED <<pc, locks, holder, lost, left>>

\* A crash, the OOM killer: podman may notice at once, later, or never.
HolderDies ==
  /\ holder = "running"
  /\ holder' \in {"stale", "stopped"}
  /\ lost' = TRUE
  /\ UNCHANGED <<pc, locks, apps, left>>

\* Mutant of RecordCatchesUp: puts podman's own word where a state belongs.
RecordExited ==
  /\ holder = "stale"
  /\ holder' = "exited"
  /\ UNCHANGED <<pc, locks, lost, apps, left>>

RecordCatchesUp ==
  /\ holder = "stale"
  /\ holder' = "stopped"
  /\ UNCHANGED <<pc, locks, lost, apps, left>>

Next ==
  \/ \E r \in Runner :
       \/ Launch(r) \/ Acquire(r) \/ Release(r) \/ AppEnds(r)
       \/ GuardTimeout(r) \/ EndGuardTimeout(r) \/ Stall(r) \/ RunFails(r)
       \/ Kill(r) \/ LeftoverEnds(r)
  \/ \E o \in Call : OrphanEnds(o)
  \/ HolderDies \/ RecordCatchesUp

\* Runners are scheduled.  Nothing makes a user start or close an app.
Fairness == \A r \in Runner : WF_vars(Acquire(r)) /\ WF_vars(Release(r))

Spec == Init /\ [][Next]_vars
FairSpec == Spec /\ Fairness
=============================================================================
