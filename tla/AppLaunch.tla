------------------------------ MODULE AppLaunch -----------------------------
(***************************************************************************)
(* One launch of an entry by app-runner: its D-Bus proxy, the mounts it    *)
(* resolves, podman as its child or in its place, the signals it passes on *)
(* and what it ends when the app has ended.  Its claim on the holder is    *)
(* one flag here; HolderLease has what several runners do with theirs.     *)
(***************************************************************************)
EXTENDS Integers, FiniteSets, Sequences

CONSTANTS
  Path,       \* paths of the host, numbered as they sort
  Unsafe,     \* those with a comma in their name
  Plan,       \* the mounts of the [run] section, in order
  MaxBinds,
  MaxSent     \* bound: signals sent to one launch

Content == {"dir", "file", "device"}
Kind == {"absent", "socket"} \cup Content
Rule ==
  [rule : {"own", "mount-as"}, source : Path, destination : Path]
    \cup [rule : {"mount"}, wild : BOOLEAN, pattern : SUBSET Path]

ASSUME LaunchAssumption ==
  /\ Path \subseteq Nat /\ Unsafe \subseteq Path
  /\ Plan \in [DOMAIN Plan -> Rule] /\ DOMAIN Plan \subseteq Nat
  /\ MaxBinds \in Nat /\ MaxSent \in Nat

Signal == {"HUP", "INT", "QUIT", "TERM"}
Order == <<"HUP", "INT", "QUIT", "TERM">>
NoSignal == "none"

VARIABLES
  foreground,\* is the runner's group the terminal's foreground group?
  leased,    \* does the plan name a holder?
  pc,        \* where the runner is
  handled,   \* how many of the handlers are installed
  pending,   \* the signals on their way to the runner
  child,     \* CHILD: does it hold podman's pid?
  early,     \* EARLY
  taken,     \* what supervise took out of EARLY
  podman,    \* "none" | "running" | "ended"
  resolved,  \* what the plan's rules came to
  rest,      \* the mounts among them drop_duplicate_mounts has yet to look at
  seen,      \* the destinations it has met
  argv,      \* the mounts podman is given
  proxy,     \* "none" | "running" | "dead"
  socket,    \* the proxy's socket: "none" | "old" | "own"
  told,      \* is {dbus_socket} set?
  claim,     \* on the holder: "none" | "held" | "released"
  sent,      \* how often a signal was sent to the runner or to its group
  heard      \* how often podman got it

given == <<foreground, leased>>
signalVars == <<handled, pending, child, early, taken>>
busVars == <<proxy, socket, told>>
mountVars == <<resolved, rest, seen, argv>>
countVars == <<sent, heard>>
vars == <<given, pc, signalVars, podman, mountVars, busVars, claim, countVars>>

-----------------------------------------------------------------------------
(* The mounts.                                                             *)

Bindable(host, p) == host[p] \in Content
Exists(host, p) == host[p] # "absent"

Mount(i, source, destination) ==
  [at |-> <<i, source>>, source |-> source, destination |-> destination]

Found(host, rule) ==
  IF rule.wild THEN {p \in rule.pattern : Bindable(host, p)}
               ELSE {p \in rule.pattern : Exists(host, p)}

\* expand_rule, or a mount the plan has of its own.
Expanded(host, i) ==
  LET rule == Plan[i] IN
  CASE rule.rule = "mount" -> {Mount(i, p, p) : p \in Found(host, rule)}
    [] rule.rule = "own" -> {Mount(i, rule.source, rule.destination)}
    [] rule.rule = "mount-as" ->
         {m \in {Mount(i, rule.source, rule.destination)} : Exists(host, m.source)}

MountSafe(m) == m.source \notin Unsafe /\ m.destination \notin Unsafe

Refuses(host, i) ==
  /\ Plan[i].rule # "own"
  /\ \/ Plan[i].rule = "mount" /\ Cardinality(Expanded(host, i)) > MaxBinds
     \/ \E m \in Expanded(host, i) : ~ MountSafe(m)

Mounts(host) == UNION {Expanded(host, i) : i \in DOMAIN Plan}

Before(m, n) == m.at[1] < n.at[1] \/ (m.at[1] = n.at[1] /\ m.at[2] < n.at[2])

-----------------------------------------------------------------------------

Init ==
  /\ foreground \in BOOLEAN /\ leased \in BOOLEAN
  /\ pc = "start"
  /\ handled = 0 /\ pending = {}
  /\ child = FALSE /\ early = NoSignal /\ taken = NoSignal
  /\ podman = "none"
  /\ resolved = {} /\ rest = {} /\ seen = {} /\ argv = {}
  /\ proxy = "none" /\ socket \in {"none", "old"} /\ told = FALSE
  /\ claim = "none"
  /\ sent = [s \in Signal |-> 0] /\ heard = [s \in Signal |-> 0]

At(here) == pc = here
Goto(there) == pc' = there

Over == {"ended", "dead", "replaced"}

\* Where the end of a launch begins: the guard is dropped first.
End == IF told THEN "drop" ELSE "release"

\* `run` up to the claim, any step of which may end it.
Acquire ==
  /\ At("start")
  /\ \/ Goto("ended") /\ UNCHANGED claim
     \/ Goto("bus") /\ claim' = (IF leased THEN "held" ELSE "none")
  /\ UNCHANGED <<given, signalVars, podman, mountVars, busVars, countVars>>

-----------------------------------------------------------------------------
(* The session bus.                                                        *)

\* The plan has no [dbus], or there is no session bus.
NoBus ==
  /\ At("bus")
  /\ Goto("resolve")
  /\ UNCHANGED busVars

\* remove_file is taken to do it: what it answers is ignored.
ClearSocket ==
  /\ At("bus")
  /\ socket' = "none"
  /\ Goto("proxy")
  /\ UNCHANGED <<proxy, told>>

\* An unsafe path, a directory that cannot be made, no such program.
BusFails ==
  /\ pc \in {"bus", "proxy"}
  /\ Goto("release")
  /\ UNCHANGED busVars

SpawnProxy ==
  /\ At("proxy")
  /\ proxy' = "running"
  /\ Goto("await")
  /\ UNCHANGED <<socket, told>>

BusIsUp ==
  /\ At("await")
  /\ socket # "none"
  /\ told' = TRUE
  /\ Goto("resolve")
  /\ UNCHANGED <<proxy, socket>>

\* Mutant of GiveUp: the proxy that did not come up is not stopped.
GiveUpOnly ==
  /\ At("await")
  /\ Goto("resolve")
  /\ UNCHANGED busVars

\* After 50 looks.  The guard goes out of scope.
GiveUp ==
  /\ At("await")
  /\ Goto("drop")
  /\ UNCHANGED busVars

\* Dropping the guard: kill and wait, then the socket.
DropProxy ==
  /\ At("drop")
  /\ proxy' = "dead"
  /\ Goto("unlink")
  /\ UNCHANGED <<socket, told>>

\* ... and here as well.
Unlink ==
  /\ At("unlink")
  /\ socket' = "none"
  /\ Goto(IF told THEN "release" ELSE "resolve")
  /\ UNCHANGED <<proxy, told>>

Bus ==
  /\ \/ NoBus \/ ClearSocket \/ BusFails \/ SpawnProxy \/ BusIsUp \/ GiveUp
     \/ DropProxy \/ Unlink
  /\ UNCHANGED <<given, signalVars, podman, mountVars, claim, countVars>>

-----------------------------------------------------------------------------
(* podman.                                                                 *)

\* `resolve`, on what the host has at that moment.
Resolve ==
  /\ At("resolve")
  /\ \E host \in [Path -> Kind] :
       IF \E i \in DOMAIN Plan : Refuses(host, i)
         THEN Goto(End) /\ UNCHANGED mountVars
         ELSE /\ Goto("dedupe")
              /\ resolved' = Mounts(host) /\ rest' = resolved'
              /\ seen' = {} /\ argv' = {}
  /\ UNCHANGED <<given, signalVars, podman, busVars, claim, countVars>>

\* Mutant of Accepted: the last mount of a destination wins.
AcceptedLast(m) == {n \in argv : n.destination # m.destination} \cup {m}

\* With m, unless its destination was met before.
Accepted(m) == IF m.destination \in seen THEN argv ELSE argv \cup {m}

\* drop_duplicate_mounts: one turn of its loop, or its end.
DropDuplicateMount ==
  /\ At("dedupe")
  /\ \/ \E m \in rest :
          /\ \A n \in rest \ {m} : Before(m, n)
          /\ rest' = rest \ {m}
          /\ seen' = seen \cup {m.destination}
          /\ argv' = Accepted(m)
          /\ UNCHANGED <<pc, resolved>>
     \/ rest = {} /\ Goto("podman") /\ UNCHANGED mountVars
  /\ UNCHANGED <<given, signalVars, podman, busVars, claim, countVars>>

\* Mutant of CleansUp: the claim on the holder is forgotten.
StopsProxy == told

\* Is there anything to end when the app has ended?
CleansUp == told \/ leased

\* podman takes the runner's place, and what it had open; or cannot be run.
Exec ==
  /\ At("podman")
  /\ ~ CleansUp
  /\ \/ Goto("replaced") /\ podman' = "running" /\ claim' = "none"
     \/ Goto("release") /\ UNCHANGED <<podman, claim>>
  /\ UNCHANGED <<given, signalVars, mountVars, busVars, countVars>>

\* Mutant of MustForward: nobody asks who else has the signal.
MustAlways(s) == s \in Signal

\* What the terminal sends its foreground group podman has already.
MustForward(s) == s = "TERM" \/ ~ foreground

Tell(s) ==
  heard' = IF podman = "running" /\ MustForward(s)
             THEN [heard EXCEPT ![s] = @ + 1] ELSE heard

\* Mutant of InstallHandler: one turn of the loop too many.
InstallAnother ==
  /\ At("podman")
  /\ CleansUp
  /\ handled <= Len(Order)
  /\ handled' = handled + 1
  /\ UNCHANGED <<pc, child, early, taken, podman, heard>>

InstallHandler ==
  /\ At("podman")
  /\ CleansUp
  /\ handled < Len(Order)
  /\ handled' = handled + 1
  /\ UNCHANGED <<pc, child, early, taken, podman, heard>>

SpawnPodman ==
  /\ At("podman")
  /\ CleansUp
  /\ handled = Len(Order)
  /\ \/ Goto("spawned") /\ podman' = "running"
     \/ Goto(End) /\ UNCHANGED podman
  /\ UNCHANGED <<handled, child, early, taken, heard>>

\* Mutant of StoreChild: EARLY is reset for the child that starts.
StoreAfresh ==
  /\ At("spawned")
  /\ child' = TRUE
  /\ early' = NoSignal
  /\ Goto("stored")
  /\ UNCHANGED <<handled, taken, podman, heard>>

StoreChild ==
  /\ At("spawned")
  /\ child' = TRUE
  /\ Goto("stored")
  /\ UNCHANGED <<handled, early, taken, podman, heard>>

SwapEarly ==
  /\ At("stored")
  /\ taken' = early /\ early' = NoSignal
  /\ Goto("forward")
  /\ UNCHANGED <<handled, child, podman, heard>>

ForwardEarly ==
  /\ At("forward")
  /\ IF taken = NoSignal THEN UNCHANGED heard ELSE Tell(taken)
  /\ taken' = NoSignal
  /\ Goto("wait")
  /\ UNCHANGED <<handled, child, early, podman>>

Wait ==
  /\ At("wait")
  /\ podman = "ended"
  /\ Goto("reaped")
  /\ UNCHANGED <<handled, child, early, taken, podman, heard>>

ForgetChild ==
  /\ At("reaped")
  /\ child' = FALSE
  /\ Goto(End)
  /\ UNCHANGED <<handled, early, taken, podman, heard>>

Supervise ==
  /\ \/ InstallHandler \/ SpawnPodman \/ StoreChild \/ SwapEarly
     \/ ForwardEarly \/ Wait \/ ForgetChild
  /\ UNCHANGED <<given, pending, mountVars, busVars, claim, sent>>

\* release_lease, whatever became of the launch; then exit.
Release ==
  /\ At("release")
  /\ claim' = (IF claim = "held" THEN "released" ELSE claim)
  /\ Goto("ended")
  /\ UNCHANGED <<given, signalVars, podman, mountVars, busVars, countVars>>

-----------------------------------------------------------------------------
(* What happens to a launch.                                               *)

\* The runner is gone, its lock on the lease with it.
Die ==
  /\ Goto("dead")
  /\ claim' = "none"
  /\ UNCHANGED <<child, early, heard>>

\* The handler.
Relay(s) ==
  /\ IF child THEN Tell(s) /\ UNCHANGED early
              ELSE early' = s /\ UNCHANGED heard
  /\ UNCHANGED <<pc, child, claim>>

Installed(s) == \E i \in 1 .. handled : Order[i] = s

Deliver(s) ==
  /\ s \in pending /\ pc \notin Over
  /\ pending' = pending \ {s}
  /\ IF Installed(s) THEN Relay(s) ELSE Die
  /\ UNCHANGED <<given, handled, taken, podman, mountVars, busVars, sent>>

\* kill -9
Kill ==
  /\ pc \notin Over
  /\ Die
  /\ UNCHANGED <<given, handled, pending, taken, podman, mountVars, busVars, sent>>

MaySend ==
  /\ pc \notin Over
  /\ sent["HUP"] + sent["INT"] + sent["QUIT"] + sent["TERM"] < MaxSent

\* Somebody signals the runner alone.
SendRunner(s) ==
  /\ MaySend
  /\ sent' = [sent EXCEPT ![s] = @ + 1]
  /\ pending' = pending \cup {s}
  /\ UNCHANGED heard

\* The terminal signals its foreground group.
SendGroup(s) ==
  /\ MaySend
  /\ foreground /\ s # "TERM"
  /\ sent' = [sent EXCEPT ![s] = @ + 1]
  /\ pending' = pending \cup {s}
  /\ heard' = IF podman = "running" THEN [heard EXCEPT ![s] = @ + 1] ELSE heard

Send(s) ==
  /\ SendRunner(s) \/ SendGroup(s)
  /\ UNCHANGED <<given, pc, handled, child, early, taken,
                 podman, mountVars, busVars, claim>>

PodmanEnds ==
  /\ podman = "running"
  /\ podman' = "ended"
  /\ UNCHANGED <<given, pc, signalVars, mountVars, busVars, claim, countVars>>

\* The proxy listens, or ends: of itself, or as its stdin is closed.
ProxyListens ==
  /\ proxy = "running" /\ socket = "none"
  /\ socket' = "own"
  /\ UNCHANGED <<given, pc, signalVars, podman, mountVars, proxy, told,
                 claim, countVars>>

ProxyEnds ==
  /\ proxy = "running"
  /\ proxy' = "dead"
  /\ UNCHANGED <<given, pc, signalVars, podman, mountVars, socket, told,
                 claim, countVars>>

Runner == Acquire \/ Bus \/ Resolve \/ DropDuplicateMount \/ Exec \/ Supervise \/ Release

Next ==
  \/ Runner
  \/ \E s \in Signal : Deliver(s) \/ Send(s)
  \/ Kill \/ PodmanEnds \/ ProxyListens \/ ProxyEnds

Spec == Init /\ [][Next]_vars

\* The runner is scheduled; it waits for podman as long as that takes.
LiveSpec == Spec /\ WF_vars(Runner)
=============================================================================
