-------------------------- MODULE SessionLifecycle --------------------------
(***************************************************************************)
(* One develop session of nixct: all `develop` invocations on one project  *)
(* path, the in-container (inner) watchdog that dismantles the session     *)
(* when its last shell is gone, and the host watchdogs that drop what the  *)
(* host holds for it.                                                      *)
(*                                                                         *)
(* Each member of Shell is one invocation of `develop`.  It binds the      *)
(* project on the host, joins the session under the per-session flock,     *)
(* sets the session up, makes sure both watchdogs run, opens its scope,    *)
(* drops its joiner marker from inside the scope, and ends.  A process     *)
(* that only reads or tests something before it acts takes two steps, so   *)
(* that others can act in between, exactly where the code does.            *)
(***************************************************************************)
EXTENDS Naturals, FiniteSets

CONSTANTS
  Shell,      \* the invocations of `develop` on this path, each made once
  MaxIdx,     \* shell indices a session can hand out (64 in the code)
  Watchdog,   \* the inner watchdog, as an owner of the session's lock
  Nobody,     \* no owner: a free lock, no pid in the pid file, no socket
  CanDie,     \* may an invocation die, or be killed, while it sets up?
  SlowSetup   \* may the set-up outlive the five minutes a marker counts for?

ASSUME SessionAssumption ==
  /\ MaxIdx \in Nat \ {0}
  /\ Watchdog \notin Shell
  /\ Nobody \notin Shell \cup {Watchdog}
  /\ CanDie \in BOOLEAN
  /\ SlowSetup \in BOOLEAN

Idx == 1 .. MaxIdx

VARIABLES
  pc,        \* where each invocation of `develop` is
  idx,       \* the shell index each invocation looks at, then holds
  joinState, \* what the join answered: "new", "joined", or "none" so far
  lock,      \* who holds /run/nixct-sessions/<id>/lock
  live,      \* does /run/nixct-sessions/<id>/live exist?
  markers,   \* the joiner markers that exist
  aged,      \* the markers that are older than five minutes
  scopes,    \* the indices i whose session-<id>-<i>.scope exists
  home,      \* what the container holds for the session
  stuck,     \* what of it the last teardown could not remove (for the
             \* properties only)
  inner,     \* where the inner watchdog is, "off" when its unit is inactive
  host,      \* what the host holds for the session
  hw,        \* the host watchdog each invocation spawned, if it did
  hwPid,     \* whose host watchdog the pid file names
  sock       \* whose host watchdog listens on the notification socket

shellVars == <<pc, idx, joinState>>
gateVars == <<lock, live, markers, aged, scopes>>
homeVars == <<home, stuck>>
hostVars == <<host, hw, hwPid, sock>>
vars == <<shellVars, gateVars, homeVars, inner, hostVars>>

-----------------------------------------------------------------------------
(* The phases of an invocation, and of the two kinds of watchdog.          *)

\* From the creation of the marker to its removal inside the scope.
Joining == {"setup", "mount", "forward", "checkHost", "spawnHost", "checkInner",
            "runInner", "openScope", "handOver"}
Scanning == {"scanScope", "scanMarker"}
Over == {"done", "failed"}
ShellPhase == {"idle", "bind", "lock"} \cup Scanning \cup Joining
                \cup {"shell"} \cup Over

\* The inner watchdog has decided, under the lock, that nobody is left.
Tearing == {"unmount", "wipe", "keep", "delUser", "notify"}
Deciding == {"checkScopes", "checkJoiners"}
InnerPhase == {"off", "poll", "pollJoiners", "wait"} \cup Deciding \cup Tearing

\* A host watchdog that runs: it listens, or drops the host side piece by piece.
HostRunning == {"listen", "dropRelays", "dropBind", "dropServices", "leave"}
HostPhase == {"none", "gone"} \cup HostRunning
HostPart == {"bind", "relays", "services"}

\* The user, its home directory, and the mounts below it: ~/dev, and any
\* --template or --share directory.
Mount == {"dev", "extra"}
HomePart == {"user", "dir"} \cup Mount

\* Earlier invocations that died right after their join may have left markers,
\* and `live` with them.
Init ==
  /\ pc = [s \in Shell |-> "idle"]
  /\ idx = [s \in Shell |-> 1]
  /\ joinState = [s \in Shell |-> "none"]
  /\ lock = Nobody
  /\ markers \in SUBSET Idx /\ live = (markers # {})
  /\ aged = {} /\ scopes = {}
  /\ home = {} /\ stuck = {}
  /\ inner = "off"
  /\ host = {}
  /\ hw = [s \in Shell |-> "none"]
  /\ hwPid = Nobody
  /\ sock = Nobody

Goto(s, phase) == pc' = [pc EXCEPT ![s] = phase]

-----------------------------------------------------------------------------
(* `develop`, up to and including the join.                                *)

\* The path is resolved and the container is running (ensure_running).
Begin(s) ==
  /\ pc[s] = "idle"
  /\ Goto(s, "bind")
  /\ UNCHANGED <<idx, joinState, gateVars, homeVars, inner, hostVars>>

\* bind_workdir: a directory that is mounted already is left as it is.  This
\* runs before the session's lock is asked for.
BindWorkdir(s) ==
  /\ pc[s] = "bind"
  /\ host' = host \cup {"bind"}
  /\ Goto(s, "lock")
  /\ UNCHANGED <<idx, joinState, gateVars, homeVars, inner, hw, hwPid, sock>>

\* Mutant of TakeLock: forgets to create `live`.
TakeLockUnmarked(s) ==
  /\ pc[s] = "lock"
  /\ lock = Nobody
  /\ lock' = s
  /\ joinState' = [joinState EXCEPT ![s] = IF live THEN "joined" ELSE "new"]
  /\ idx' = [idx EXCEPT ![s] = 1]
  /\ Goto(s, "scanScope")
  /\ UNCHANGED <<live, markers, aged, scopes, homeVars, inner, hostVars>>

\* flock, then note whether the session was live and make it so.
TakeLock(s) ==
  /\ pc[s] = "lock"
  /\ lock = Nobody
  /\ lock' = s
  /\ joinState' = [joinState EXCEPT ![s] = IF live THEN "joined" ELSE "new"]
  /\ live' = TRUE
  /\ idx' = [idx EXCEPT ![s] = 1]
  /\ Goto(s, "scanScope")
  /\ UNCHANGED <<markers, aged, scopes, homeVars, inner, hostVars>>

\* Mutant of SkipIndex: one index too many.
SkipIndexPastEnd(s) ==
  IF idx[s] <= MaxIdx
  THEN /\ idx' = [idx EXCEPT ![s] = @ + 1]
       /\ Goto(s, "scanScope")
       /\ UNCHANGED lock
  ELSE Goto(s, "failed") /\ lock' = Nobody /\ UNCHANGED idx

\* The next index, or none left: the script ends, and the lock with it.
SkipIndex(s) ==
  IF idx[s] < MaxIdx
  THEN /\ idx' = [idx EXCEPT ![s] = @ + 1]
       /\ Goto(s, "scanScope")
       /\ UNCHANGED lock
  ELSE /\ Goto(s, "failed")
       /\ lock' = Nobody
       /\ UNCHANGED idx

\* systemctl show -p LoadState: is there a scope of this index?
ScanScope(s) ==
  /\ pc[s] = "scanScope"
  /\ IF idx[s] \in scopes
     THEN SkipIndex(s)
     ELSE Goto(s, "scanMarker") /\ UNCHANGED <<idx, lock>>
  /\ UNCHANGED <<joinState, live, markers, aged, scopes, homeVars, inner, hostVars>>

\* Mutant of ScanMarker: takes an index without a look at its marker.
ScanMarkerBlind(s) ==
  /\ pc[s] = "scanMarker"
  /\ markers' = markers \cup {idx[s]}
  /\ lock' = Nobody
  /\ Goto(s, "setup")
  /\ UNCHANGED <<idx, joinState, live, aged, scopes, homeVars, inner, hostVars>>

\* ... and then: is there a marker of this index?  If not it is ours, and the
\* script's end lets the lock go.
ScanMarker(s) ==
  /\ pc[s] = "scanMarker"
  /\ IF idx[s] \in markers
     THEN SkipIndex(s) /\ UNCHANGED markers
     ELSE /\ markers' = markers \cup {idx[s]}
          /\ lock' = Nobody
          /\ Goto(s, "setup")
          /\ UNCHANGED idx
  /\ UNCHANGED <<joinState, live, aged, scopes, homeVars, inner, hostVars>>

-----------------------------------------------------------------------------
(* `develop`, from the join to the shell's end.                            *)

\* useradd, unless there is such a user; the home directory and its files.
MakeHome(s) ==
  /\ pc[s] = "setup"
  /\ home' = home \cup {"user", "dir"}
  /\ Goto(s, "mount")
  /\ UNCHANGED <<idx, joinState, gateVars, stuck, inner, hostVars>>

\* What is a mountpoint is left alone.  ~/dev is otherwise made from the host's
\* bind, and without that the invocation fails; the options may ask for more.
MountHome(s) ==
  /\ pc[s] = "mount"
  /\ IF "dev" \in home \/ "bind" \in host
     THEN /\ \E asked \in SUBSET {"extra"} : home' = home \cup {"dev"} \cup asked
          /\ Goto(s, "forward")
     ELSE UNCHANGED home /\ Goto(s, "failed")
  /\ UNCHANGED <<idx, joinState, gateVars, stuck, inner, hostVars>>

\* The forwards this shell asks for, if it asks for any: relays and binds of
\* sockets, and the services on the host behind them (agent filter, git
\* server, ACLs).
SetupForwards(s) ==
  /\ pc[s] = "forward"
  /\ \E parts \in {{}, {"relays", "services"}} : host' = host \cup parts
  /\ Goto(s, "checkHost")
  /\ UNCHANGED <<idx, joinState, gateVars, homeVars, inner, hw, hwPid, sock>>

\* session_watchdog_running: does the pid file name a live process?
HostWatchdogRuns == hwPid # Nobody /\ hw[hwPid] \in HostRunning

CheckHostWatchdog(s) ==
  /\ pc[s] = "checkHost"
  /\ Goto(s, IF HostWatchdogRuns THEN "checkInner" ELSE "spawnHost")
  /\ UNCHANGED <<idx, joinState, gateVars, homeVars, inner, hostVars>>

\* start_session_watchdog: the new process removes the socket that is there
\* and listens on its own; its pid replaces the one in the file.
SpawnHostWatchdog(s) ==
  /\ pc[s] = "spawnHost"
  /\ hw' = [hw EXCEPT ![s] = "listen"]
  /\ hwPid' = s
  /\ sock' = s
  /\ Goto(s, "checkInner")
  /\ UNCHANGED <<idx, joinState, gateVars, homeVars, inner, host>>

\* Mutant of CheckInnerWatchdog: takes it for granted that the unit runs.
CheckInnerAssumed(s) ==
  /\ pc[s] = "checkInner"
  /\ Goto(s, "openScope")
  /\ UNCHANGED <<idx, joinState, gateVars, homeVars, inner, hostVars>>

\* systemctl is-active watchdog-<id>.service
CheckInnerWatchdog(s) ==
  /\ pc[s] = "checkInner"
  /\ Goto(s, IF inner = "off" THEN "runInner" ELSE "openScope")
  /\ UNCHANGED <<idx, joinState, gateVars, homeVars, inner, hostVars>>

\* systemd-run --unit=watchdog-<id>.service: fails when the unit exists by now.
RunInnerWatchdog(s) ==
  /\ pc[s] = "runInner"
  /\ IF inner = "off"
     THEN inner' = "poll" /\ Goto(s, "openScope")
     ELSE UNCHANGED inner /\ Goto(s, "failed")
  /\ UNCHANGED <<idx, joinState, gateVars, homeVars, hostVars>>

\* systemd-run --scope --unit=session-<id>-<i>.scope: fails when it exists.
OpenScope(s) ==
  /\ pc[s] = "openScope"
  /\ IF idx[s] \in scopes
     THEN UNCHANGED scopes /\ Goto(s, "failed")
     ELSE scopes' = scopes \cup {idx[s]} /\ Goto(s, "handOver")
  /\ UNCHANGED <<idx, joinState, lock, live, markers, aged, homeVars, inner, hostVars>>

\* The first thing the shell does inside its scope: rm -f <marker>.
HandOver(s) ==
  /\ pc[s] = "handOver"
  /\ markers' = markers \ {idx[s]}
  /\ aged' = aged \ {idx[s]}
  /\ Goto(s, "shell")
  /\ UNCHANGED <<idx, joinState, lock, live, scopes, homeVars, inner, hostVars>>

\* The last process of the scope ends, and --collect removes the unit.
ExitShell(s) ==
  /\ pc[s] = "shell"
  /\ scopes' = scopes \ {idx[s]}
  /\ Goto(s, "done")
  /\ UNCHANGED <<idx, joinState, lock, live, markers, aged, homeVars, inner, hostVars>>

\* A refused option, a failed command under `set -e`, Ctrl-C: the invocation
\* ends before its shell.  A lock or a scope it has ends with it, its marker
\* and `live` stay.
Die(s) ==
  /\ CanDie
  /\ pc[s] \in {"bind", "lock"} \cup Scanning \cup Joining
  /\ lock' = IF lock = s THEN Nobody ELSE lock
  /\ scopes' = IF pc[s] = "handOver" THEN scopes \ {idx[s]} ELSE scopes
  /\ Goto(s, "failed")
  /\ UNCHANGED <<idx, joinState, live, markers, aged, homeVars, inner, hostVars>>

Develop(s) ==
  \/ BindWorkdir(s) \/ TakeLock(s) \/ ScanScope(s) \/ ScanMarker(s)
  \/ MakeHome(s) \/ MountHome(s) \/ SetupForwards(s)
  \/ CheckHostWatchdog(s) \/ SpawnHostWatchdog(s)
  \/ CheckInnerWatchdog(s) \/ RunInnerWatchdog(s)
  \/ OpenScope(s) \/ HandOver(s)

-----------------------------------------------------------------------------
(* The inner watchdog.                                                     *)

\* live_shells, before the lock is asked for.
PollScopes ==
  /\ inner = "poll"
  /\ scopes = {}
  /\ inner' = "pollJoiners"
  /\ UNCHANGED <<shellVars, gateVars, homeVars, hostVars>>

\* Mutant of Kept: no marker is ever too old.
KeptForever == markers

\* joiners: the markers older than five minutes are deleted, the others count.
Kept == markers \ aged
Sweep == markers' = Kept /\ aged' = aged \cap Kept

PollJoiners ==
  /\ inner = "pollJoiners"
  /\ Sweep
  /\ inner' = IF Kept = {} THEN "wait" ELSE "poll"
  /\ UNCHANGED <<shellVars, lock, live, scopes, homeVars, hostVars>>

\* Mutant of LockInner: does not wait for whoever holds the lock.
LockInnerImpatient ==
  /\ inner = "wait"
  /\ lock' = Watchdog
  /\ inner' = "checkScopes"
  /\ UNCHANGED <<shellVars, live, markers, aged, scopes, homeVars, hostVars>>

\* flock 9
LockInner ==
  /\ inner = "wait"
  /\ lock = Nobody
  /\ lock' = Watchdog
  /\ inner' = "checkScopes"
  /\ UNCHANGED <<shellVars, live, markers, aged, scopes, homeVars, hostVars>>

\* Mutant of CheckScopes: goes back to polling without flock -u.
CheckScopesStillLocked ==
  /\ inner = "checkScopes"
  /\ inner' = IF scopes = {} THEN "checkJoiners" ELSE "poll"
  /\ UNCHANGED <<shellVars, gateVars, homeVars, hostVars>>

\* Under the lock, live_shells again ...
CheckScopes ==
  /\ inner = "checkScopes"
  /\ IF scopes = {}
     THEN inner' = "checkJoiners" /\ UNCHANGED lock
     ELSE inner' = "poll" /\ lock' = Nobody
  /\ UNCHANGED <<shellVars, live, markers, aged, scopes, homeVars, hostVars>>

\* Mutant of CheckJoiners: does not look at the joiners again.
CheckJoinersUnseen ==
  /\ inner = "checkJoiners"
  /\ inner' = "unmount"
  /\ live' = FALSE
  /\ UNCHANGED <<shellVars, lock, markers, aged, scopes, homeVars, hostVars>>

\* ... and then joiners again; with neither, the session is over.
CheckJoiners ==
  /\ inner = "checkJoiners"
  /\ Sweep
  /\ IF Kept = {}
     THEN inner' = "unmount" /\ live' = FALSE /\ UNCHANGED lock
     ELSE inner' = "poll" /\ lock' = Nobody /\ UNCHANGED live
  /\ UNCHANGED <<shellVars, scopes, homeVars, hostVars>>

\* Mutant of StillBound: only the project's mount keeps the home.
DevStillBound(left) == "dev" \in left

\* Is anything below the home still mounted after the last attempt?
StillBound(left) == left # {}

\* Ten attempts to unmount everything below the home, the last one lazily;
\* what is busy may stay for all that.
Unmount ==
  /\ inner = "unmount"
  /\ \E left \in SUBSET (home \cap Mount) :
       /\ home' = (home \ Mount) \cup left
       /\ stuck' = left
       /\ inner' = IF StillBound(left) THEN "keep" ELSE "wipe"
  /\ UNCHANGED <<shellVars, gateVars, hostVars>>

\* rm -rf of the home, which may fail and is not tried again.
Wipe ==
  /\ inner = "wipe"
  /\ \/ home' = home \ {"dir"} /\ UNCHANGED stuck
     \/ UNCHANGED home /\ stuck' = stuck \cup (home \cap {"dir"})
  /\ inner' = "delUser"
  /\ UNCHANGED <<shellVars, gateVars, hostVars>>

\* The home is left, with what is mounted below it.
Keep ==
  /\ inner = "keep"
  /\ stuck' = stuck \cup (home \cap {"dir"})
  /\ inner' = "delUser"
  /\ UNCHANGED <<shellVars, gateVars, home, hostVars>>

\* The session's proxies and services are stopped and its user is deleted,
\* if userdel can.  The lock stays held.
DeleteUser ==
  /\ inner = "delUser"
  /\ \/ home' = home \ {"user"} /\ UNCHANGED stuck
     \/ UNCHANGED home /\ stuck' = stuck \cup (home \cap {"user"})
  /\ inner' = "notify"
  /\ UNCHANGED <<shellVars, gateVars, hostVars>>

\* Tell whoever listens on the socket, and end, which frees the lock.
Notify ==
  /\ inner = "notify"
  /\ hw' = IF sock # Nobody /\ hw[sock] = "listen"
           THEN [hw EXCEPT ![sock] = "dropRelays"] ELSE hw
  /\ inner' = "off"
  /\ lock' = Nobody
  /\ UNCHANGED <<shellVars, live, markers, aged, scopes, homeVars, host, hwPid, sock>>

InnerStep ==
  \/ PollScopes \/ PollJoiners \/ LockInner
  \/ CheckScopes \/ CheckJoiners
  \/ Unmount \/ Wipe \/ Keep \/ DeleteUser \/ Notify

-----------------------------------------------------------------------------
(* A host watchdog, woken by the inner one; h is the invocation that        *)
(* spawned it.                                                             *)

DropRelays(h) ==
  /\ hw[h] = "dropRelays"
  /\ host' = host \ {"relays"}
  /\ hw' = [hw EXCEPT ![h] = "dropBind"]
  /\ UNCHANGED <<shellVars, gateVars, homeVars, inner, hwPid, sock>>

\* umount and rmdir.  While a session's ~/dev is mounted from the bind the
\* umount may be refused (bindfs keeps it busy) or not (a native mount).
DropBind(h) ==
  /\ hw[h] = "dropBind"
  /\ \/ host' = host \ {"bind"}
     \/ "dev" \in home /\ UNCHANGED host
  /\ hw' = [hw EXCEPT ![h] = "dropServices"]
  /\ UNCHANGED <<shellVars, gateVars, homeVars, inner, hwPid, sock>>

DropServices(h) ==
  /\ hw[h] = "dropServices"
  /\ host' = host \ {"services"}
  /\ hw' = [hw EXCEPT ![h] = "leave"]
  /\ UNCHANGED <<shellVars, gateVars, homeVars, inner, hwPid, sock>>

\* rm -f the socket, whoever listens on it, and exit; the pid file stays.
Leave(h) ==
  /\ hw[h] = "leave"
  /\ sock' = Nobody
  /\ hw' = [hw EXCEPT ![h] = "gone"]
  /\ UNCHANGED <<shellVars, gateVars, homeVars, inner, host, hwPid>>

HostStep(h) == DropRelays(h) \/ DropBind(h) \/ DropServices(h) \/ Leave(h)

-----------------------------------------------------------------------------
(* Time.                                                                   *)

\* A marker gets older than five minutes: one nobody will drop any more or,
\* with SlowSetup, one whose invocation is still setting up.
Age(i) ==
  /\ i \in markers \ aged
  /\ SlowSetup \/ \A s \in Shell : pc[s] \in Joining => idx[s] # i
  /\ aged' = aged \cup {i}
  /\ UNCHANGED <<shellVars, lock, live, markers, scopes, homeVars, inner, hostVars>>

Next ==
  \/ \E s \in Shell : Begin(s) \/ Develop(s) \/ ExitShell(s) \/ Die(s)
  \/ InnerStep
  \/ \E h \in Shell : HostStep(h)
  \/ \E i \in Idx : Age(i)

\* Processes that run are scheduled, and minutes pass.  Nothing makes a user
\* start a develop or leave its shell.
Fairness ==
  /\ \A s \in Shell : WF_vars(Develop(s))
  /\ WF_vars(InnerStep)
  /\ \A h \in Shell : WF_vars(HostStep(h))
  /\ \A i \in Idx : WF_vars(Age(i))

Spec == Init /\ [][Next]_vars
FairSpec == Spec /\ Fairness

=============================================================================
