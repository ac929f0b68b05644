-------------------------- MODULE CheckProperties ---------------------------
(***************************************************************************)
(* What the freshness check and the start wrapper of a prison's services   *)
(* promise.                                                                *)
(***************************************************************************)
EXTENDS StoreCheck

\* A check looks at one view at a time, and leaves nothing behind.
OneAtATime(s) ==
  /\ svc[s] # "starting" => podman[s] = "none"
  /\ \A v \in View : held[s][v] # "no" =>
       /\ svc[s] = "checking" /\ v \in todo[s]
       /\ \A w \in View : held[s][w] # "no" => w = v

\* The type invariant.  A check looks at one view at a time (lib.rs:151-164),
\* and what it found is its own: nothing is left of it once it has ended.
TypeOK ==
  /\ file \in 1 .. LastFile \cup {1}
  /\ serves \in [View -> Nat]
  /\ svc \in [Service -> {"down", "checking", "starting", "up", "skipped", "failed"}]
  /\ version \in [Service -> Nat]
  /\ stopping \in [Service -> BOOLEAN]
  /\ job \in [Service -> SUBSET View]
  /\ timer \in [Service -> {"off", "waiting", "running", "deciding", "ending"}]
  /\ place \in [Service -> {"views", "counted", "queued", "arming", "armed", "relying"}]
  /\ todo \in [Service -> SUBSET View]
  /\ held \in [Service -> [View -> {"no", "pid", "gone"}]]
  /\ stale \in [Service -> SUBSET View]
  /\ skips \in [Service -> Nat] /\ row \in [Service -> Nat]
  /\ missed \in [Service -> BOOLEAN] /\ term \in [Service -> BOOLEAN]
  /\ podman \in [Service -> {"none", "running", "ok", "failed", "killed"}]
  /\ \A s \in Service : OneAtATime(s)

\* A service that was let through, and that is not being stopped, runs
\* against views that serve the very version its unit file named
\* (lib.rs:179-219), although views die, restart and are replaced while the
\* check reads them one after the other, in two reads each.
RunsOnItsStore ==
  \A s \in Service : svc[s] \in {"starting", "up"} /\ ~ stopping[s] =>
    \A v \in ViewsOf[s] : serves[v] = version[s]

\* A recheck that will still look, or has looked and will start the unit.
RecheckToCome(s) == timer[s] \in {"waiting", "running", "deciding"}

\* A start that was skipped is looked at again, whatever became of the queued
\* restart: its recheck is still to come (lib.rs:14-19, 215-217), unless that
\* recheck failed, or had looked at the unit, and found it activating, after
\* arm_recheck saw its timer (lib.rs:296) and before the start was skipped.
NotForgotten ==
  \A s \in Service : svc[s] = "skipped" => RecheckToCome(s) \/ missed[s]

\* No more than MaxSkips starts in a row are skipped in silence, however
\* they are interrupted, cancelled, rechecked or failed (lib.rs:28, 211-214).
SkipsInARow == \A s \in Service : row[s] <= MaxSkips

\* A start that ends because the unit is stopped is not a failure, and one
\* that fails has a podman that failed of itself (prison-start main.rs:4-9).
StopIsNoFailure ==
  [][\A s \in Service : svc[s] = "starting" /\ svc'[s] = "failed" =>
       podman[s] = "failed" /\ ~ term[s]]_vars

\* A skipped start does not stay skipped, unless its recheck fails or came to
\* its end before the skip (lib.rs:14-19, 220-230).
LooksAgain ==
  \A s \in Service : svc[s] = "skipped" /\ ~ missed[s] ~> svc[s] # "skipped" \/ missed[s]

-----------------------------------------------------------------------------

\* lib.rs:14-18: a queued restart can be cancelled, "and then the unit sits
\* inactive with nothing to report it. So every skip also arms a recheck timer
\* that starts the unit again if it is still not running" - so a skip whose
\* restart is gone has one to come.
EverySkipRechecked ==
  \A s \in Service : svc[s] = "skipped" /\ job[s] = {} => RecheckToCome(s)
=============================================================================
