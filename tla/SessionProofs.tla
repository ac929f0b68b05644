--------------------------- MODULE SessionProofs ----------------------------
(***************************************************************************)
(* Proofs about the join and the teardown of a develop session, for any    *)
(* number of invocations and of shell indices.                             *)
(***************************************************************************)
EXTENDS SessionProperties, TLAPS

(* The inductive invariant.  The lock tells who scans and who decides; an  *)
(* invocation that sets up has a marker of its own which no sweep removes; *)
(* a watchdog that tears down has seen the last marker go; and what it has *)
(* dealt with so far is either gone or known to be stuck.                  *)
LockInv ==
  /\ \A s \in Shell : pc[s] \in Scanning <=> lock = s
  /\ inner \in Deciding \cup Tearing <=> lock = Watchdog
  /\ \A s \in Shell : pc[s] \in Scanning => live

MarkerInv ==
  /\ \A s \in Shell : pc[s] \in Joining => idx[s] \in markers \ aged
  /\ DistinctMarkers
  /\ inner \in Tearing => markers = {}

TeardownInv ==
  /\ inner = "wipe" => home \cap Mount = {}
  /\ inner \in {"keep", "delUser", "notify"} => home \cap Mount \subseteq stuck
  /\ inner \in {"delUser", "notify"} => home \cap {"dir"} \subseteq stuck
  /\ inner = "notify" => home \cap {"user"} \subseteq stuck

SessionInv ==
  /\ TypeOK
  /\ LockInv
  /\ MarkerInv
  /\ TeardownInv
  /\ FreshSession
  /\ Attended

-----------------------------------------------------------------------------

(* Every variable keeps its type, whatever the invocations do.             *)
LEMMA TypeInit == Init => TypeOK
  <1> SUFFICES ASSUME Init PROVE TypeOK
    OBVIOUS
  <1>1. 1 \in Idx
    BY SessionAssumption DEF Idx
  <1> QED
    BY <1>1 DEF Init, TypeOK, ShellPhase, InnerPhase, HostPhase

LEMMA TypeNext == TypeOK /\ [Next]_vars => TypeOK'
  <1> SUFFICES ASSUME TypeOK, [Next]_vars PROVE TypeOK'
    OBVIOUS
  <1> USE SessionAssumption DEF TypeOK, Idx, ShellPhase, InnerPhase, HostPhase, HostPart,
          Joining, Scanning, Over, Tearing, Deciding, HostRunning,
          HomePart, Mount, shellVars, gateVars, homeVars, hostVars, Goto
  <1>1. ASSUME NEW s \in Shell, Begin(s) \/ ExitShell(s) \/ Die(s) PROVE TypeOK'
    BY <1>1 DEF Begin, ExitShell, Die
  <1>2. ASSUME NEW s \in Shell, Develop(s) PROVE TypeOK'
    <2>1. CASE BindWorkdir(s) BY <2>1 DEF BindWorkdir
    <2>2. CASE TakeLock(s)
      <3>1. pc' \in [Shell -> ShellPhase] BY <2>2 DEF TakeLock
      <3>2. joinState' \in [Shell -> {"none", "new", "joined"}] BY <2>2 DEF TakeLock
      <3>3. idx' \in [Shell -> Idx]
        <4>1. 1 \in Idx OBVIOUS
        <4> QED BY ONLY <2>2, <4>1, idx \in [Shell -> Idx] DEF TakeLock
      <3> QED BY <2>2, <3>1, <3>2, <3>3 DEF TakeLock
    <2>0. ASSUME SkipIndex(s)
          PROVE  /\ pc' \in [Shell -> ShellPhase]
                 /\ idx' \in [Shell -> Idx]
                 /\ lock' \in Shell \cup {Watchdog, Nobody}
      BY <2>0 DEF SkipIndex
    <2>3. CASE ScanScope(s) BY <2>3, <2>0 DEF ScanScope
    <2>4. CASE ScanMarker(s)
      <3>1. CASE idx[s] \in markers BY <2>4, <3>1, <2>0 DEF ScanMarker
      <3>2. CASE idx[s] \notin markers
        <4>1. idx[s] \in Idx OBVIOUS
        <4>2. /\ markers' \subseteq Idx
              /\ aged' \subseteq markers'
          BY <2>4, <3>2, <4>1 DEF ScanMarker
        <4>3. pc' \in [Shell -> ShellPhase] BY <2>4, <3>2 DEF ScanMarker
        <4> QED BY <2>4, <3>2, <4>2, <4>3 DEF ScanMarker
      <3> QED BY <3>1, <3>2
    <2>5. CASE MakeHome(s) BY <2>5 DEF MakeHome
    <2>13. CASE MountHome(s) BY <2>13 DEF MountHome
    <2>6. CASE SetupForwards(s) BY <2>6 DEF SetupForwards
    <2>7. CASE CheckHostWatchdog(s) BY <2>7 DEF CheckHostWatchdog
    <2>8. CASE SpawnHostWatchdog(s) BY <2>8 DEF SpawnHostWatchdog
    <2>9. CASE CheckInnerWatchdog(s) BY <2>9 DEF CheckInnerWatchdog
    <2>10. CASE RunInnerWatchdog(s) BY <2>10 DEF RunInnerWatchdog
    <2>11. CASE OpenScope(s)
      <3>1. CASE idx[s] \in scopes BY <2>11, <3>1 DEF OpenScope
      <3>2. CASE idx[s] \notin scopes
        <4>1. idx[s] \in Idx OBVIOUS
        <4>2. scopes' \subseteq Idx BY <2>11, <3>2, <4>1 DEF OpenScope
        <4>3. pc' \in [Shell -> ShellPhase] BY <2>11, <3>2 DEF OpenScope
        <4> QED BY <2>11, <3>2, <4>2, <4>3 DEF OpenScope
      <3> QED BY <3>1, <3>2
    <2>12. CASE HandOver(s) BY <2>12 DEF HandOver
    <2> QED
      BY <1>2, <2>1, <2>2, <2>3, <2>4, <2>5, <2>6, <2>7, <2>8, <2>9, <2>10, <2>11, <2>12,
         <2>13 DEF Develop
  <1>3. ASSUME InnerStep PROVE TypeOK'
    BY <1>3 DEF InnerStep, PollScopes, PollJoiners, LockInner, CheckScopes,
                CheckJoiners, Unmount, Wipe, Keep, DeleteUser, Notify, Sweep, Kept
  <1>4. ASSUME NEW h \in Shell, HostStep(h) PROVE TypeOK'
    BY <1>4 DEF HostStep, DropRelays, DropBind, DropServices, Leave
  <1>5. ASSUME NEW i \in Idx, Age(i) PROVE TypeOK'
    BY <1>5 DEF Age
  <1>6. CASE UNCHANGED vars
    BY <1>6 DEF vars
  <1> QED
    BY <1>1, <1>2, <1>3, <1>4, <1>5, <1>6 DEF Next

THEOREM TypeCorrect == Spec => []TypeOK
  BY TypeInit, TypeNext, PTL DEF Spec

-----------------------------------------------------------------------------

LEMMA SessionInit == Init => SessionInv
  BY TypeInit, SessionAssumption
     DEF Init, SessionInv, LockInv, MarkerInv, TeardownInv, FreshSession, Attended, DistinctMarkers,
         Joining, Scanning, Deciding, Tearing

(* A step of an invocation of `develop`.                                   *)
LEMMA DevelopKeeps ==
  ASSUME SessionInv, NEW s \in Shell, Begin(s) \/ Develop(s) \/ ExitShell(s) \/ Die(s)
  PROVE  LockInv' /\ MarkerInv' /\ TeardownInv' /\ FreshSession' /\ Attended'
  <1> USE SessionAssumption
      DEF SessionInv, TypeOK, LockInv, MarkerInv, TeardownInv, FreshSession, Attended,
          DistinctMarkers, Joining, Scanning, Deciding, Tearing, gateVars, homeVars,
          hostVars, Goto
  <1>1. CASE Begin(s) BY <1>1 DEF Begin
  <1>2. CASE ExitShell(s) BY <1>2 DEF ExitShell
  <1>3. CASE Die(s) BY <1>3 DEF Die
  <1>4. CASE BindWorkdir(s) BY <1>4 DEF BindWorkdir
  <1>5. CASE TakeLock(s) BY <1>5 DEF TakeLock
  <1>6. CASE ScanScope(s) BY <1>6 DEF ScanScope, SkipIndex
  <1>7. CASE ScanMarker(s)
    <2>1. CASE idx[s] \in markers BY <1>7, <2>1 DEF ScanMarker, SkipIndex
    <2>2. CASE idx[s] \notin markers BY <1>7, <2>2 DEF ScanMarker
    <2> QED BY <2>1, <2>2
  <1>8. CASE MakeHome(s) BY <1>8 DEF MakeHome
  <1>16. CASE MountHome(s) BY <1>16 DEF MountHome
  <1>9. CASE SetupForwards(s) BY <1>9 DEF SetupForwards
  <1>10. CASE CheckHostWatchdog(s) BY <1>10 DEF CheckHostWatchdog
  <1>11. CASE SpawnHostWatchdog(s) BY <1>11 DEF SpawnHostWatchdog
  <1>12. CASE CheckInnerWatchdog(s) BY <1>12 DEF CheckInnerWatchdog
  <1>13. CASE RunInnerWatchdog(s) BY <1>13 DEF RunInnerWatchdog
  <1>14. CASE OpenScope(s) BY <1>14 DEF OpenScope
  <1>15. CASE HandOver(s) BY <1>15 DEF HandOver
  <1> QED
    BY <1>1, <1>2, <1>3, <1>4, <1>5, <1>6, <1>7, <1>8, <1>9, <1>10, <1>11, <1>12,
       <1>13, <1>14, <1>15, <1>16 DEF Develop

(* A step of the inner watchdog.                                           *)
LEMMA InnerKeeps ==
  ASSUME SessionInv, InnerStep
  PROVE  LockInv' /\ MarkerInv' /\ TeardownInv' /\ FreshSession' /\ Attended'
  <1> USE SessionAssumption
      DEF SessionInv, TypeOK, LockInv, MarkerInv, TeardownInv, FreshSession, Attended,
          DistinctMarkers, Joining, Scanning, Deciding, Tearing, HomePart, Mount,
          shellVars, gateVars, homeVars, hostVars, Sweep, Kept
  <1>1. CASE PollScopes BY <1>1 DEF PollScopes
  <1>2. CASE PollJoiners BY <1>2 DEF PollJoiners
  <1>3. CASE LockInner BY <1>3 DEF LockInner
  <1>4. CASE CheckScopes BY <1>4 DEF CheckScopes
  <1>5. CASE CheckJoiners BY <1>5 DEF CheckJoiners
  <1>6. CASE Unmount BY <1>6 DEF Unmount, StillBound
  <1>7. CASE Wipe BY <1>7 DEF Wipe
  <1>8. CASE Keep BY <1>8 DEF Keep
  <1>9. CASE DeleteUser BY <1>9 DEF DeleteUser
  <1>10. CASE Notify BY <1>10 DEF Notify
  <1> QED
    BY <1>1, <1>2, <1>3, <1>4, <1>5, <1>6, <1>7, <1>8, <1>9, <1>10 DEF InnerStep

LEMMA SessionNext ==
  ASSUME ~ SlowSetup
  PROVE  SessionInv /\ [Next]_vars => SessionInv'
  <1> SUFFICES ASSUME SessionInv, [Next]_vars
               PROVE  LockInv' /\ MarkerInv' /\ TeardownInv' /\ FreshSession' /\ Attended'
    BY TypeNext DEF SessionInv
  <1>1. ASSUME NEW s \in Shell, Begin(s) \/ Develop(s) \/ ExitShell(s) \/ Die(s)
        PROVE  LockInv' /\ MarkerInv' /\ TeardownInv' /\ FreshSession' /\ Attended'
    BY <1>1, DevelopKeeps
  <1>2. CASE InnerStep
    BY <1>2, InnerKeeps
  <1> USE DEF SessionInv, LockInv, MarkerInv, TeardownInv, FreshSession, Attended,
              DistinctMarkers
  <1>3. ASSUME NEW h \in Shell, HostStep(h)
        PROVE  LockInv' /\ MarkerInv' /\ TeardownInv' /\ FreshSession' /\ Attended'
    BY <1>3 DEF HostStep, DropRelays, DropBind, DropServices, Leave, shellVars, gateVars,
                homeVars
  <1>4. ASSUME NEW i \in Idx, Age(i)
        PROVE  LockInv' /\ MarkerInv' /\ TeardownInv' /\ FreshSession' /\ Attended'
    BY <1>4 DEF Age, shellVars, homeVars, hostVars
  <1>5. CASE UNCHANGED vars
    BY <1>5 DEF vars, shellVars, gateVars, homeVars, hostVars
  <1> QED
    BY <1>1, <1>2, <1>3, <1>4, <1>5 DEF Next

(* As long as no set-up outlives the five minutes a marker counts for, no  *)
(* invocation that has joined is in a session being dismantled, one that   *)
(* is told "new" finds of an older session only what its teardown could    *)
(* not remove, a scope is opened only under a watchdog that will see it    *)
(* end, and nobody drops the marker of another.                            *)
THEOREM SessionSafe ==
  ASSUME ~ SlowSetup
  PROVE  Spec => [](JoinerSafe /\ FreshSession /\ Attended /\ DistinctMarkers)
  <1>1. SessionInv => JoinerSafe /\ FreshSession /\ Attended /\ DistinctMarkers
    BY DEF SessionInv, MarkerInv, JoinerSafe
  <1> QED
    BY <1>1, SessionInit, SessionNext, PTL DEF Spec

(* Under the same assumption, each on its own: a session that is not live  *)
(* has nobody setting it up, and every part of an older one that its       *)
(* container still holds is one the teardown tried to remove and could     *)
(* not: none is passed over, on the path that keeps the home either.       *)
COROLLARY SessionsAreFresh ==
  ASSUME ~ SlowSetup
  PROVE  Spec => []FreshSession
  BY SessionSafe, PTL

(* A scope is opened only under a watchdog that will see it end.           *)
COROLLARY ScopesAreAttended ==
  ASSUME ~ SlowSetup
  PROVE  Spec => []Attended
  BY SessionSafe, PTL

(* Two invocations that set up have an index each.                         *)
COROLLARY MarkersAreDistinct ==
  ASSUME ~ SlowSetup
  PROVE  Spec => []DistinctMarkers
  BY SessionSafe, PTL

(* The step behind it: only the watchdog's rm -rf takes the home away, and *)
(* it comes to it under the lock, with nothing mounted.                    *)
LEMMA WipesUnmounted ==
  ASSUME SessionInv, [Next]_vars, "dir" \in home, "dir" \notin home'
  PROVE  home \cap Mount = {}
  <1>1. ASSUME NEW s \in Shell, Begin(s) \/ Develop(s) \/ ExitShell(s) \/ Die(s)
        PROVE  home \subseteq home'
    BY <1>1 DEF Develop, Begin, ExitShell, Die, BindWorkdir, TakeLock, ScanScope, ScanMarker,
           SkipIndex, MakeHome, MountHome, SetupForwards, CheckHostWatchdog,
           SpawnHostWatchdog, CheckInnerWatchdog, RunInnerWatchdog, OpenScope, HandOver,
           homeVars
  <1>2. CASE InnerStep
    <2>1. Wipe
      BY <1>2 DEF InnerStep, PollScopes, PollJoiners, LockInner, CheckScopes, CheckJoiners,
                  Unmount, Keep, DeleteUser, Notify, Mount, homeVars
    <2> QED
      BY <2>1 DEF Wipe, SessionInv, TeardownInv
  <1>3. CASE \/ \E h \in Shell : HostStep(h)
             \/ \E i \in Idx : Age(i)
             \/ UNCHANGED vars
    BY <1>3 DEF HostStep, DropRelays, DropBind, DropServices, Leave, Age, vars, homeVars
  <1> QED
    BY <1>1, <1>2, <1>3 DEF Next

(* Under the same assumption, rm -rf never runs into a mount, whatever an  *)
(* unmount leaves and whoever mounts what in the meantime.                 *)
THEOREM ProjectIsKept ==
  ASSUME ~ SlowSetup
  PROVE  Spec => ProjectKept
  <1>1. SessionInv /\ [Next]_vars
          => [("dir" \in home /\ "dir" \notin home') => home \cap Mount = {}]_vars
    BY WipesUnmounted
  <1> QED
    BY <1>1, SessionInit, SessionNext, PTL DEF Spec, ProjectKept

-----------------------------------------------------------------------------

(* A step of an invocation either leaves the set of those on their way in  *)
(* as it is, or admits one, outside a teardown, or lets one depart.        *)
LEMMA DevelopMapped ==
  ASSUME SessionInv, NEW s \in Shell, Begin(s) \/ Develop(s) \/ ExitShell(s) \/ Die(s)
  PROVE  /\ inner' \in Tearing <=> inner \in Tearing
         /\ \/ Gate!Enter(s) \/ Gate!Depart(s)
            \/ UNCHANGED {t \in Shell : pc[t] \in Joining}
  <1> DEFINE J == {t \in Shell : pc[t] \in Joining}
  <1>1. pc \in [Shell -> ShellPhase]
    BY DEF SessionInv, TypeOK
  <1>2. ASSUME NEW p, Goto(s, p) PROVE J' = IF p \in Joining THEN J \cup {s} ELSE J \ {s}
    BY <1>1, <1>2 DEF Goto
  <1>3. \E p : Goto(s, p) /\ (p \in Joining /\ pc[s] \notin Joining => ScanMarker(s))
    BY DEF Develop, Begin, ExitShell, Die, BindWorkdir, TakeLock, ScanScope, ScanMarker,
           SkipIndex, MakeHome, MountHome, SetupForwards, CheckHostWatchdog,
           SpawnHostWatchdog, CheckInnerWatchdog, RunInnerWatchdog, OpenScope, HandOver, Joining
  <1>4. inner' \in Tearing <=> inner \in Tearing
    BY DEF Develop, Begin, ExitShell, Die, BindWorkdir, TakeLock, ScanScope, ScanMarker,
           SkipIndex, MakeHome, MountHome, SetupForwards, CheckHostWatchdog,
           SpawnHostWatchdog, CheckInnerWatchdog, RunInnerWatchdog, OpenScope, HandOver, gateVars, hostVars,
           Tearing
  <1>5. ScanMarker(s) => inner \notin Tearing
    BY SessionAssumption DEF ScanMarker, SessionInv, LockInv, Scanning
  <1>6. PICK p : Goto(s, p) /\ (p \in Joining /\ pc[s] \notin Joining => ScanMarker(s))
    BY <1>3
  <1>7. CASE p \in Joining /\ s \notin J
    <2>1. J' = J \cup {s} BY <1>2, <1>6, <1>7
    <2>2. inner \notin Tearing BY <1>5, <1>6, <1>7
    <2> QED BY <1>4, <2>1, <2>2 DEF Gate!Enter
  <1>8. CASE p \notin Joining /\ s \in J
    <2>1. J' = J \ {s} BY <1>2, <1>6, <1>8
    <2> QED BY <1>4, <1>8, <2>1 DEF Gate!Depart
  <1>9. CASE (p \in Joining) <=> (s \in J)
    <2>1. J' = J BY <1>2, <1>6, <1>9
    <2> QED BY <1>4, <2>1
  <1> QED BY <1>7, <1>8, <1>9

(* The session implements its gate: a teardown begins only when nobody is  *)
(* on its way in, and until it ends nobody gets in.                        *)
THEOREM SessionIsGate ==
  ASSUME ~ SlowSetup
  PROVE  Spec => GateSpec
  <1> DEFINE J == {s \in Shell : pc[s] \in Joining}
  <1>1. Init => Gate!Init
    BY DEF Init, Gate!Init, Joining, Tearing
  <1>2. ASSUME SessionInv, [Next]_vars
        PROVE  [Gate!Next]_<<J, inner \in Tearing>>
    <2>1. ASSUME NEW s \in Shell, Begin(s) \/ Develop(s) \/ ExitShell(s) \/ Die(s)
          PROVE  [Gate!Next]_<<J, inner \in Tearing>>
      BY <1>2, <2>1, DevelopMapped DEF Gate!Next
    <2>2. CASE InnerStep
      <3>1. J' = J
        BY <2>2 DEF InnerStep, PollScopes, PollJoiners, LockInner, CheckScopes,
                    CheckJoiners, Unmount, Wipe, Keep, DeleteUser, Notify, shellVars
      <3>2. CASE CheckJoiners /\ Kept = {}
        <4>1. J = {} BY <1>2, <3>2 DEF SessionInv, MarkerInv, Kept
        <4>2. inner' \in Tearing BY <3>2 DEF CheckJoiners, Tearing
        <4> QED BY <3>1, <4>1, <4>2 DEF Gate!Next, Gate!BeginTeardown
      <3>3. CASE Notify
        <4>1. inner' \notin Tearing BY <3>3 DEF Notify, Tearing
        <4> QED BY <3>1, <4>1 DEF Gate!Next, Gate!EndTeardown
      <3>4. CASE ~ Notify /\ ~ (CheckJoiners /\ Kept = {})
        <4>1. inner' \in Tearing <=> inner \in Tearing
          BY <2>2, <3>4 DEF InnerStep, PollScopes, PollJoiners, LockInner, CheckScopes,
                            CheckJoiners, Unmount, Wipe, Keep, DeleteUser, Tearing
        <4> QED BY <3>1, <4>1
      <3> QED BY <3>2, <3>3, <3>4
    <2>3. CASE \/ \E h \in Shell : HostStep(h)
               \/ \E i \in Idx : Age(i)
               \/ UNCHANGED vars
      BY <2>3 DEF HostStep, DropRelays, DropBind, DropServices, Leave, Age, vars,
                  shellVars, gateVars, homeVars, hostVars
    <2> QED BY <1>2, <2>1, <2>2, <2>3 DEF Next
  <1>3. Spec => []SessionInv
    BY SessionInit, SessionNext, PTL DEF Spec
  <1> QED
    BY <1>1, <1>2, <1>3, PTL DEF Spec, GateSpec, Gate!Spec
=============================================================================
