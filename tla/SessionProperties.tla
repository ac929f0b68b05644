------------------------- MODULE SessionProperties --------------------------
(***************************************************************************)
(* What a develop session is supposed to keep, whatever the order in which *)
(* its invocations and its watchdogs run.                                  *)
(***************************************************************************)
EXTENDS SessionLifecycle

(* Every variable has its type: the phases, the lock's owner, the markers  *)
(* and scopes of dispatch.nix and inner-watchdog.sh.                       *)
TypeOK ==
  /\ pc \in [Shell -> ShellPhase]
  /\ idx \in [Shell -> Idx]
  /\ joinState \in [Shell -> {"none", "new", "joined"}]
  /\ lock \in Shell \cup {Watchdog, Nobody}
  /\ live \in BOOLEAN
  /\ markers \subseteq Idx
  /\ aged \subseteq markers
  /\ scopes \subseteq Idx
  /\ home \subseteq HomePart
  /\ stuck \subseteq HomePart
  /\ inner \in InnerPhase
  /\ host \subseteq HostPart
  /\ hw \in [Shell -> HostPhase]
  /\ hwPid \in Shell \cup {Nobody}
  /\ sock \in Shell \cup {Nobody}

(* An invocation that has joined and not yet handed over to its scope is   *)
(* never in a session that is being dismantled: the teardown decision of   *)
(* inner-watchdog.sh and the joiner markers of dispatch.nix exclude each   *)
(* other.                                                                  *)
JoinerSafe == inner \in Tearing => \A s \in Shell : pc[s] \notin Joining

(* An invocation that is told "new" really builds the session: while no    *)
(* `live` file exists and the watchdog is not at work, nobody is setting a *)
(* session up, and the container holds nothing of an older one that its    *)
(* teardown did not try to remove.  What it could not remove stays: a busy *)
(* mount, the home that a mount keeps, a user that userdel refused.        *)
FreshSession ==
  (~ live /\ inner \notin Tearing) =>
    home \subseteq stuck /\ \A s \in Shell : pc[s] \notin Joining

(* rm -rf never goes through a mount into the host's files: the home is    *)
(* only ever removed when nothing is mounted below it, neither what the    *)
(* unmounts of inner-watchdog.sh have left nor what a shell that sets the  *)
(* session up has put there since.                                         *)
ProjectKept ==
  [][("dir" \in home /\ "dir" \notin home') => home \cap Mount = {}]_vars

(* A scope is never opened without an inner watchdog that will see it end: *)
(* once an invocation is past its check of the unit, the watchdog runs and *)
(* has not decided to dismantle, until the marker is dropped.              *)
Attended ==
  \A s \in Shell :
    pc[s] \in {"openScope", "handOver"} => inner \notin {"off"} \cup Tearing

(* No two invocations that are setting up hold the same shell index, so no *)
(* one drops the other's joiner marker.                                    *)
DistinctMarkers ==
  \A s, t \in Shell :
    (s # t /\ pc[s] \in Joining /\ pc[t] \in Joining) => idx[s] # idx[t]

(* The session keeps the promise of JoinGate: its lock, its markers and    *)
(* its scopes together are a gate that admits nobody during a teardown.    *)
Gate == INSTANCE JoinGate WITH
  joining <- {s \in Shell : pc[s] \in Joining},
  tearing <- inner \in Tearing
GateSpec == Gate!Spec

-----------------------------------------------------------------------------

NoneUnderWay == \A s \in Shell : pc[s] \in {"idle"} \cup Over

(* The inner watchdog never outlives its session: when no invocation is    *)
(* under way any more, dead ones included, it ends, and what the container *)
(* held of the session it watched is gone, but for what could not be       *)
(* removed.                                                                *)
InnerEnds ==
  inner # "off" ~> (inner = "off" /\ home \subseteq stuck) \/ ~ NoneUnderWay

(* Nobody waits for the session's lock forever.                            *)
JoinAnswered == \A s \in Shell : pc[s] = "lock" ~> pc[s] # "lock"

-----------------------------------------------------------------------------
(* What the documentation says beyond that.                                *)

(* container-module.nix: "no live scope and no joiner", evaluated while    *)
(* holding the lock, "is a decision no joiner can invalidate" - so no      *)
(* shell runs in a session that is being dismantled.                       *)
LiveShellSafe == inner \in Tearing => \A s \in Shell : pc[s] # "shell"

(* nixct.md: a shell that arrives while the last one leaves "waits for     *)
(* teardown to finish and gets a new session" - so when it sets the        *)
(* session up, the project it was started for is there to be mounted.      *)
SetupFindsProject ==
  \A s \in Shell : pc[s] = "mount" => "dev" \in home \/ "bind" \in host

(* nixct.md: "The session, with its forwards, home and user, is removed    *)
(* when its last shell exits" - so once every invocation has ended well,   *)
(* the host comes to hold nothing for the session any more, if no teardown *)
(* in the container was ever unable to let go of something.                *)
LastShellRemoves ==
  [](stuck = {}) => ((\A s \in Shell : pc[s] = "done") ~> host = {})
=============================================================================
