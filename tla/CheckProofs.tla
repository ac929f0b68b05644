----------------------------- MODULE CheckProofs ----------------------------
(***************************************************************************)
(* The invariant of the freshness check, for any services, views and       *)
(* number of skips, and what follows from it.                              *)
(***************************************************************************)
EXTENDS CheckProperties, TLAPS

\* A view that was looked at and found right serves the start's version, as
\* long as the service is not being stopped.
SoFar(s) ==
  /\ stopping[s] => Runs(s)
  /\ Runs(s) => version[s] # 0
  /\ svc[s] = "checking" /\ ~ stopping[s] =>
       \A v \in ViewsOf[s] \ (todo[s] \cup stale[s]) : serves[v] = version[s]
  /\ svc[s] \in {"starting", "up"} /\ ~ stopping[s] =>
       \A v \in ViewsOf[s] : serves[v] = version[s]

\* Every skip was counted before.
Tally(s) ==
  /\ row[s] <= skips[s] /\ row[s] <= MaxSkips
  /\ place[s] # "views" => svc[s] = "checking" /\ row[s] < skips[s]
  /\ place[s] \in {"queued", "arming", "armed", "relying"} => skips[s] <= MaxSkips

\* podman is killed after prison-start was told.
Told(s) ==
  /\ term[s] => svc[s] = "starting"
  /\ podman[s] = "killed" => term[s]

\* A check that is about to skip the start has its recheck, as the skip has.
Awaited(s) ==
  svc[s] = "skipped" \/ place[s] \in {"armed", "relying"} => RecheckToCome(s) \/ missed[s]

CheckInv ==
  /\ TypeOK
  /\ \A s \in Service : SoFar(s) /\ Tally(s) /\ Told(s) /\ Awaited(s)

Sound(s) == OneAtATime(s) /\ SoFar(s) /\ Tally(s) /\ Told(s) /\ Awaited(s)

\* The types alone.
Types ==
  /\ file \in Nat /\ file # 0 /\ file \in 1 .. LastFile \cup {1}
  /\ serves \in [View -> Nat]
  /\ svc \in [Service -> {"down", "checking", "starting", "up", "skipped", "failed"}]
  /\ version \in [Service -> Nat]
  /\ stopping \in [Service -> BOOLEAN]
  /\ job \in [Service -> SUBSET View]
  /\ timer \in [Service -> {"off", "waiting", "running", "deciding", "ending"}]
  /\ place \in [Service -> {"views", "counted", "queued", "arming", "armed", "relying"}]
  /\ todo \in [Service -> SUBSET View]
  /\ held \in [Service -> [View -> {"no", "pid", "gone"}]]
  /\ stale \in [Service -> SUBSET View]
  /\ skips \in [Service -> Nat] /\ row \in [Service -> Nat]
  /\ missed \in [Service -> BOOLEAN] /\ term \in [Service -> BOOLEAN]
  /\ podman \in [Service -> {"none", "running", "ok", "failed", "killed"}]

LEMMA CheckParts == CheckInv <=> Types /\ \A s \in Service : Sound(s)
<1>1. TypeOK <=> Types /\ \A s \in Service : OneAtATime(s)
  BY CheckAssumption DEF TypeOK, Types
<1>. QED BY <1>1 DEF CheckInv, Sound

-----------------------------------------------------------------------------

LEMMA CheckInit == Init => CheckInv
<1>. SUFFICES ASSUME Init PROVE Types /\ \A s \in Service : Sound(s)
  BY CheckParts
<1>1. Types
  BY CheckAssumption DEF Init, Types
<1>2. ASSUME NEW s \in Service PROVE Sound(s)
  <2>1. OneAtATime(s) /\ SoFar(s) /\ Told(s) /\ Awaited(s)
    BY DEF Init, OneAtATime, SoFar, Told, Awaited, RecheckToCome, Runs
  <2>2. Tally(s)
    BY CheckAssumption DEF Init, Tally
  <2>. QED BY <2>1, <2>2 DEF Sound
<1>. QED BY <1>1, <1>2

\* What a step of another service, or of a view, leaves alone.
Same(t) ==
  /\ svc'[t] = svc[t] /\ version'[t] = version[t] /\ todo'[t] = todo[t]
  /\ stale'[t] = stale[t] /\ place'[t] = place[t] /\ skips'[t] = skips[t]
  /\ row'[t] = row[t] /\ timer'[t] = timer[t] /\ missed'[t] = missed[t]
  /\ podman'[t] = podman[t] /\ term'[t] = term[t]

\* The views that were found right stay, or the service is stopped.
Kept(t) ==
  /\ \/ stopping'[t] = stopping[t]
     \/ stopping'[t] = TRUE /\ Runs(t)
  /\ ~ stopping'[t] /\ Runs(t) =>
       \A v \in ViewsOf[t] : serves'[v] = serves[v] \/ serves[v] = 0
  /\ \A v \in View : held'[t][v] # "no" => held[t][v] # "no"

LEMMA Untouched ==
  ASSUME Types, NEW t \in Service, Sound(t), Same(t), Kept(t)
  PROVE  Sound(t)'
<1>1. OneAtATime(t)' /\ Tally(t)' /\ Told(t)' /\ Awaited(t)'
  BY DEF Sound, Same, Kept, OneAtATime, Tally, Told, Awaited, RecheckToCome
<1>2. SoFar(t)'
  <2>1. SoFar(t) /\ stopping[t] \in BOOLEAN
    BY DEF Types, Sound
  <2>2. stopping'[t] => Runs(t)'
    BY <2>1 DEF SoFar, Runs, Same, Kept
  <2>3. (Runs(t) => version[t] # 0)'
    BY <2>1 DEF SoFar, Runs, Same
  <2>4. ASSUME Runs(t), ~ stopping'[t], NEW v \in ViewsOf[t], serves[v] = version[t]
        PROVE  serves'[v] = version'[t]
    BY <2>1, <2>4 DEF SoFar, Same, Kept
  <2>5. ~ stopping'[t] => ~ stopping[t]
    BY <2>1 DEF Kept
  <2>. QED BY <2>1, <2>2, <2>3, <2>4, <2>5 DEF SoFar, Runs, Same
<1>. QED BY <1>1, <1>2 DEF Sound

-----------------------------------------------------------------------------

LEMMA CheckNext == CheckInv /\ [Next]_vars => CheckInv'
<1>0. CheckInv' <=> Types' /\ \A s \in Service : Sound(s)'
  BY CheckAssumption DEF CheckInv, TypeOK, Types, Sound
<1>. SUFFICES ASSUME Types, \A s \in Service : Sound(s), [Next]_vars
              PROVE  Types' /\ \A s \in Service : Sound(s)'
  BY <1>0, CheckParts
<1>. USE CheckAssumption
<1>1. ASSUME NEW s \in Service, NEW v \in View, MainPid(s, v) PROVE Types' /\ \A x \in Service : Sound(x)'
  <2>1. Types'
    <3>1. held' \in [Service -> [View -> {"no", "pid", "gone"}]]
      <4>1. CASE UNCHANGED held
        BY <4>1 DEF Types
      <4>2. CASE held' = [held EXCEPT ![s][v] = "pid"]
        <5>1. held' = [held EXCEPT ![s] = [held[s] EXCEPT ![v] = "pid"]]
          BY <4>2
        <5>2. [held[s] EXCEPT ![v] = "pid"] \in [View -> {"no", "pid", "gone"}]
          BY DEF Types
        <5>. QED BY <5>1, <5>2 DEF Types
      <4>. QED BY <1>1, <4>1, <4>2 DEF MainPid
    <3>2. todo' \in [Service -> SUBSET View] /\ stale' \in [Service -> SUBSET View]
      <4>1. CASE UNCHANGED <<todo, stale>>
        BY <4>1 DEF Types
      <4>2. CASE /\ todo' = [todo EXCEPT ![s] = @ \ {v}]
                 /\ stale' = [stale EXCEPT ![s] = @ \cup {v}]
        BY <4>2 DEF Types
      <4>. QED BY <1>1, <4>1, <4>2 DEF MainPid
    <3>3. UNCHANGED <<file, serves, svc, version, stopping, job, timer, place, skips, row,
                      missed, term, podman>>
      BY <1>1 DEF MainPid, hostVars, unitVars, checkVars, skipVars, startVars
    <3>. QED BY <3>1, <3>2, <3>3 DEF Types
  <2>2. ASSUME NEW t \in Service, t # s PROVE Sound(t)'
    <3>1. Same(t)
      BY <1>1, <2>2 DEF Types, Same, MainPid, Looking, hostVars, unitVars, checkVars, skipVars, startVars
    <3>2. Kept(t)
      BY <1>1, <2>2 DEF Types, Kept, MainPid, Looking, hostVars, unitVars, checkVars, skipVars, startVars
    <3>. QED BY <3>1, <3>2, Untouched
  <2>3. Sound(s)'
    <3>1. OneAtATime(s)'
      BY <1>1 DEF Types, Sound, OneAtATime, MainPid, Looking, hostVars, unitVars, checkVars, skipVars, startVars
    <3>2. SoFar(s)'
      BY <1>1 DEF Types, Sound, SoFar, Runs, MainPid, Looking, hostVars, unitVars, checkVars, skipVars, startVars
    <3>3. Tally(s)'
      BY <1>1 DEF Types, Sound, Tally, MainPid, Looking, hostVars, unitVars, checkVars, skipVars, startVars
    <3>4. Told(s)'
      BY <1>1 DEF Types, Sound, Told, MainPid, Looking, hostVars, unitVars, checkVars, skipVars, startVars
    <3>5. Awaited(s)'
      BY <1>1 DEF Types, Sound, Awaited, RecheckToCome, Tally, MainPid, Looking, hostVars, unitVars, checkVars, skipVars, startVars
    <3>. QED BY <3>1, <3>2, <3>3, <3>4, <3>5 DEF Sound
  <2>. QED BY <2>1, <2>2, <2>3
<1>2. ASSUME NEW s \in Service, NEW v \in View, Cmdline(s, v) PROVE Types' /\ \A x \in Service : Sound(x)'
  <2>1. Types'
    BY <1>2 DEF Types, Cmdline, Looking, Expected, hostVars, unitVars, checkVars, skipVars, startVars
  <2>2. ASSUME NEW t \in Service, t # s PROVE Sound(t)'
    <3>1. Same(t)
      BY <1>2, <2>2 DEF Types, Same, Cmdline, Looking, Expected, hostVars, unitVars, checkVars, skipVars, startVars
    <3>2. Kept(t)
      BY <1>2, <2>2 DEF Types, Kept, Cmdline, Looking, Expected, hostVars, unitVars, checkVars, skipVars, startVars
    <3>. QED BY <3>1, <3>2, Untouched
  <2>3. Sound(s)'
    <3>1. OneAtATime(s)'
      BY <1>2 DEF Types, Sound, OneAtATime, Cmdline, Looking, Expected, hostVars, unitVars, checkVars, skipVars, startVars
    <3>2. SoFar(s)'
      BY <1>2 DEF Types, Sound, SoFar, Runs, Cmdline, Looking, Expected, hostVars, unitVars, checkVars, skipVars, startVars
    <3>3. Tally(s)'
      BY <1>2 DEF Types, Sound, Tally, Cmdline, Looking, Expected, hostVars, unitVars, checkVars, skipVars, startVars
    <3>4. Told(s)'
      BY <1>2 DEF Types, Sound, Told, Cmdline, Looking, Expected, hostVars, unitVars, checkVars, skipVars, startVars
    <3>5. Awaited(s)'
      BY <1>2 DEF Types, Sound, Awaited, RecheckToCome, Tally, Cmdline, Looking, Expected, hostVars, unitVars, checkVars, skipVars, startVars
    <3>. QED BY <3>1, <3>2, <3>3, <3>4, <3>5 DEF Sound
  <2>. QED BY <2>1, <2>2, <2>3
<1>3. ASSUME NEW s \in Service, Fresh(s) PROVE Types' /\ \A x \in Service : Sound(x)'
  <2>1. Types'
    BY <1>3 DEF Types, Fresh, Looked, Becomes, Forget, hostVars, unitVars, checkVars, skipVars, startVars
  <2>2. ASSUME NEW t \in Service, t # s PROVE Sound(t)'
    <3>1. Same(t)
      BY <1>3, <2>2 DEF Types, Same, Fresh, Looked, Becomes, Forget, hostVars, unitVars, checkVars, skipVars, startVars
    <3>2. Kept(t)
      BY <1>3, <2>2 DEF Types, Kept, Fresh, Looked, Becomes, Forget, hostVars, unitVars, checkVars, skipVars, startVars
    <3>. QED BY <3>1, <3>2, Untouched
  <2>3. Sound(s)'
    <3>1. OneAtATime(s)'
      BY <1>3 DEF Types, Sound, OneAtATime, Fresh, Looked, Becomes, Forget, hostVars, unitVars, checkVars, skipVars, startVars
    <3>2. SoFar(s)'
      BY <1>3 DEF Types, Sound, SoFar, Runs, Fresh, Looked, Becomes, Forget, hostVars, unitVars, checkVars, skipVars, startVars
    <3>3. Tally(s)'
      BY <1>3 DEF Types, Sound, Tally, Fresh, Looked, Becomes, Forget, hostVars, unitVars, checkVars, skipVars, startVars
    <3>4. Told(s)'
      BY <1>3 DEF Types, Sound, Told, Fresh, Looked, Becomes, Forget, hostVars, unitVars, checkVars, skipVars, startVars
    <3>5. Awaited(s)'
      BY <1>3 DEF Types, Sound, Awaited, RecheckToCome, Tally, Fresh, Looked, Becomes, Forget, hostVars, unitVars, checkVars, skipVars, startVars
    <3>. QED BY <3>1, <3>2, <3>3, <3>4, <3>5 DEF Sound
  <2>. QED BY <2>1, <2>2, <2>3
<1>4. ASSUME NEW s \in Service, Bump(s) PROVE Types' /\ \A x \in Service : Sound(x)'
  <2>1. Types'
    BY <1>4 DEF Types, Bump, Looked, Counted, hostVars, unitVars, checkVars, skipVars, startVars
  <2>2. ASSUME NEW t \in Service, t # s PROVE Sound(t)'
    <3>1. Same(t)
      BY <1>4, <2>2 DEF Types, Same, Bump, Looked, Counted, hostVars, unitVars, checkVars, skipVars, startVars
    <3>2. Kept(t)
      BY <1>4, <2>2 DEF Types, Kept, Bump, Looked, Counted, hostVars, unitVars, checkVars, skipVars, startVars
    <3>. QED BY <3>1, <3>2, Untouched
  <2>3. Sound(s)'
    <3>1. OneAtATime(s)'
      BY <1>4 DEF Types, Sound, OneAtATime, Bump, Looked, Counted, hostVars, unitVars, checkVars, skipVars, startVars
    <3>2. SoFar(s)'
      BY <1>4 DEF Types, Sound, SoFar, Runs, Bump, Looked, Counted, hostVars, unitVars, checkVars, skipVars, startVars
    <3>3. Tally(s)'
      BY <1>4 DEF Types, Sound, Tally, Bump, Looked, Counted, hostVars, unitVars, checkVars, skipVars, startVars
    <3>4. Told(s)'
      BY <1>4 DEF Types, Sound, Told, Bump, Looked, Counted, hostVars, unitVars, checkVars, skipVars, startVars
    <3>5. Awaited(s)'
      BY <1>4 DEF Types, Sound, Awaited, RecheckToCome, Tally, Bump, Looked, Counted, hostVars, unitVars, checkVars, skipVars, startVars
    <3>. QED BY <3>1, <3>2, <3>3, <3>4, <3>5 DEF Sound
  <2>. QED BY <2>1, <2>2, <2>3
<1>5. ASSUME NEW s \in Service, Restart(s) PROVE Types' /\ \A x \in Service : Sound(x)'
  <2>1. Types'
    <3>1. CASE skips[s] > MaxSkips
      <4>1. /\ svc' \in [Service -> {"down", "checking", "starting", "up", "skipped", "failed"}]
            /\ stopping' \in [Service -> BOOLEAN]
        BY <1>5, <3>1 DEF Types, Restart, Becomes
      <4>2. /\ place' \in [Service -> {"views", "counted", "queued", "arming", "armed", "relying"}]
            /\ todo' \in [Service -> SUBSET View] /\ stale' \in [Service -> SUBSET View]
            /\ held' \in [Service -> [View -> {"no", "pid", "gone"}]]
        <5>1. Forget(s)
          BY <1>5, <3>1 DEF Restart
        <5>2. [v \in View |-> "no"] \in [View -> {"no", "pid", "gone"}]
          OBVIOUS
        <5>. QED BY <5>1, <5>2 DEF Types, Forget
      <4>3. job' \in [Service -> SUBSET View]
        BY <1>5 DEF Types, Restart
      <4>. QED BY <1>5, <4>1, <4>2, <4>3 DEF Types, Restart, hostVars, skipVars, startVars
    <3>2. CASE ~ skips[s] > MaxSkips
      BY <1>5, <3>2 DEF Types, Restart, hostVars, skipVars, startVars
    <3>. QED BY <3>1, <3>2
  <2>2. ASSUME NEW t \in Service, t # s PROVE Sound(t)'
    <3>1. Same(t)
      BY <1>5, <2>2 DEF Types, Same, Restart, Becomes, Forget, hostVars, unitVars, checkVars, skipVars, startVars
    <3>2. Kept(t)
      BY <1>5, <2>2 DEF Types, Kept, Restart, Becomes, Forget, hostVars, unitVars, checkVars, skipVars, startVars
    <3>. QED BY <3>1, <3>2, Untouched
  <2>3. Sound(s)'
    <3>1. OneAtATime(s)'
      BY <1>5 DEF Types, Sound, OneAtATime, Restart, Becomes, Forget, hostVars, unitVars, checkVars, skipVars, startVars
    <3>2. SoFar(s)'
      BY <1>5 DEF Types, Sound, SoFar, Runs, Restart, Becomes, Forget, hostVars, unitVars, checkVars, skipVars, startVars
    <3>3. Tally(s)'
      BY <1>5 DEF Types, Sound, Tally, Restart, Becomes, Forget, hostVars, unitVars, checkVars, skipVars, startVars
    <3>4. Told(s)'
      BY <1>5 DEF Types, Sound, Told, Restart, Becomes, Forget, hostVars, unitVars, checkVars, skipVars, startVars
    <3>5. Awaited(s)'
      BY <1>5 DEF Types, Sound, Awaited, RecheckToCome, Tally, Restart, Becomes, Forget, hostVars, unitVars, checkVars, skipVars, startVars
    <3>. QED BY <3>1, <3>2, <3>3, <3>4, <3>5 DEF Sound
  <2>. QED BY <2>1, <2>2, <2>3
<1>6. ASSUME NEW s \in Service, Skip(s) PROVE Types' /\ \A x \in Service : Sound(x)'
  <2>1. Types'
    BY <1>6 DEF Types, Skip, Becomes, Forget, hostVars, unitVars, checkVars, skipVars, startVars
  <2>2. ASSUME NEW t \in Service, t # s PROVE Sound(t)'
    <3>1. Same(t)
      BY <1>6, <2>2 DEF Types, Same, Skip, Becomes, Forget, hostVars, unitVars, checkVars, skipVars, startVars
    <3>2. Kept(t)
      BY <1>6, <2>2 DEF Types, Kept, Skip, Becomes, Forget, hostVars, unitVars, checkVars, skipVars, startVars
    <3>. QED BY <3>1, <3>2, Untouched
  <2>3. Sound(s)'
    <3>1. OneAtATime(s)'
      BY <1>6 DEF Types, Sound, OneAtATime, Skip, Becomes, Forget, hostVars, unitVars, checkVars, skipVars, startVars
    <3>2. SoFar(s)'
      BY <1>6 DEF Types, Sound, SoFar, Runs, Skip, Becomes, Forget, hostVars, unitVars, checkVars, skipVars, startVars
    <3>3. Tally(s)'
      <4>1. row[s] \in Nat /\ skips[s] \in Nat /\ MaxSkips \in Nat
        BY DEF Types
      <4>3. row[s] < skips[s] /\ skips[s] <= MaxSkips
        BY <1>6 DEF Sound, Tally, Skip
      <4>2. place'[s] = "views" /\ row'[s] = row[s] + 1 /\ skips'[s] = skips[s]
        BY <1>6 DEF Types, Skip, Forget
      <4>. QED BY <4>1, <4>2, <4>3 DEF Tally
    <3>4. Told(s)'
      BY <1>6 DEF Types, Sound, Told, Skip, Becomes, Forget, hostVars, unitVars, checkVars, skipVars, startVars
    <3>5. Awaited(s)'
      BY <1>6 DEF Types, Sound, Awaited, RecheckToCome, Skip, Becomes, Forget, Runs, Tally, hostVars, unitVars, checkVars, skipVars, startVars
    <3>. QED BY <3>1, <3>2, <3>3, <3>4, <3>5 DEF Sound
  <2>. QED BY <2>1, <2>2, <2>3
<1>7. ASSUME NEW s \in Service, CheckFails(s) PROVE Types' /\ \A x \in Service : Sound(x)'
  <2>1. Types'
    BY <1>7 DEF Types, CheckFails, Becomes, Forget, hostVars, unitVars, checkVars, skipVars, startVars
  <2>2. ASSUME NEW t \in Service, t # s PROVE Sound(t)'
    <3>1. Same(t)
      BY <1>7, <2>2 DEF Types, Same, CheckFails, Becomes, Forget, hostVars, unitVars, checkVars, skipVars, startVars
    <3>2. Kept(t)
      BY <1>7, <2>2 DEF Types, Kept, CheckFails, Becomes, Forget, hostVars, unitVars, checkVars, skipVars, startVars
    <3>. QED BY <3>1, <3>2, Untouched
  <2>3. Sound(s)'
    <3>1. OneAtATime(s)'
      BY <1>7 DEF Types, Sound, OneAtATime, CheckFails, Becomes, Forget, hostVars, unitVars, checkVars, skipVars, startVars
    <3>2. SoFar(s)'
      BY <1>7 DEF Types, Sound, SoFar, Runs, CheckFails, Becomes, Forget, hostVars, unitVars, checkVars, skipVars, startVars
    <3>3. Tally(s)'
      BY <1>7 DEF Types, Sound, Tally, CheckFails, Becomes, Forget, hostVars, unitVars, checkVars, skipVars, startVars
    <3>4. Told(s)'
      BY <1>7 DEF Types, Sound, Told, CheckFails, Becomes, Forget, hostVars, unitVars, checkVars, skipVars, startVars
    <3>5. Awaited(s)'
      BY <1>7 DEF Types, Sound, Awaited, RecheckToCome, Tally, CheckFails, Becomes, Forget, hostVars, unitVars, checkVars, skipVars, startVars
    <3>. QED BY <3>1, <3>2, <3>3, <3>4, <3>5 DEF Sound
  <2>. QED BY <2>1, <2>2, <2>3
<1>8. ASSUME NEW s \in Service, PodmanEnds(s) PROVE Types' /\ \A x \in Service : Sound(x)'
  <2>1. Types'
    BY <1>8 DEF Types, PodmanEnds, hostVars, unitVars, checkVars, skipVars, startVars
  <2>2. ASSUME NEW t \in Service, t # s PROVE Sound(t)'
    <3>1. Same(t)
      BY <1>8, <2>2 DEF Types, Same, PodmanEnds, hostVars, unitVars, checkVars, skipVars, startVars
    <3>2. Kept(t)
      BY <1>8, <2>2 DEF Types, Kept, PodmanEnds, hostVars, unitVars, checkVars, skipVars, startVars
    <3>. QED BY <3>1, <3>2, Untouched
  <2>3. Sound(s)'
    <3>1. OneAtATime(s)'
      BY <1>8 DEF Types, Sound, OneAtATime, PodmanEnds, hostVars, unitVars, checkVars, skipVars, startVars
    <3>2. SoFar(s)'
      BY <1>8 DEF Types, Sound, SoFar, Runs, PodmanEnds, hostVars, unitVars, checkVars, skipVars, startVars
    <3>3. Tally(s)'
      BY <1>8 DEF Types, Sound, Tally, PodmanEnds, hostVars, unitVars, checkVars, skipVars, startVars
    <3>4. Told(s)'
      BY <1>8 DEF Types, Sound, Told, PodmanEnds, hostVars, unitVars, checkVars, skipVars, startVars
    <3>5. Awaited(s)'
      BY <1>8 DEF Types, Sound, Awaited, RecheckToCome, Tally, PodmanEnds, hostVars, unitVars, checkVars, skipVars, startVars
    <3>. QED BY <3>1, <3>2, <3>3, <3>4, <3>5 DEF Sound
  <2>. QED BY <2>1, <2>2, <2>3
<1>9. ASSUME NEW s \in Service, SignalStart(s) PROVE Types' /\ \A x \in Service : Sound(x)'
  <2>1. Types'
    BY <1>9 DEF Types, SignalStart, hostVars, unitVars, checkVars, skipVars, startVars
  <2>2. ASSUME NEW t \in Service, t # s PROVE Sound(t)'
    <3>1. Same(t)
      BY <1>9, <2>2 DEF Types, Same, SignalStart, hostVars, unitVars, checkVars, skipVars, startVars
    <3>2. Kept(t)
      BY <1>9, <2>2 DEF Types, Kept, SignalStart, hostVars, unitVars, checkVars, skipVars, startVars
    <3>. QED BY <3>1, <3>2, Untouched
  <2>3. Sound(s)'
    <3>1. OneAtATime(s)'
      BY <1>9 DEF Types, Sound, OneAtATime, SignalStart, hostVars, unitVars, checkVars, skipVars, startVars
    <3>2. SoFar(s)'
      BY <1>9 DEF Types, Sound, SoFar, Runs, SignalStart, hostVars, unitVars, checkVars, skipVars, startVars
    <3>3. Tally(s)'
      BY <1>9 DEF Types, Sound, Tally, SignalStart, hostVars, unitVars, checkVars, skipVars, startVars
    <3>4. Told(s)'
      BY <1>9 DEF Types, Sound, Told, SignalStart, hostVars, unitVars, checkVars, skipVars, startVars
    <3>5. Awaited(s)'
      BY <1>9 DEF Types, Sound, Awaited, RecheckToCome, Tally, SignalStart, hostVars, unitVars, checkVars, skipVars, startVars
    <3>. QED BY <3>1, <3>2, <3>3, <3>4, <3>5 DEF Sound
  <2>. QED BY <2>1, <2>2, <2>3
<1>10. ASSUME NEW s \in Service, SignalPodman(s) PROVE Types' /\ \A x \in Service : Sound(x)'
  <2>1. Types'
    BY <1>10 DEF Types, SignalPodman, hostVars, unitVars, checkVars, skipVars, startVars
  <2>2. ASSUME NEW t \in Service, t # s PROVE Sound(t)'
    <3>1. Same(t)
      BY <1>10, <2>2 DEF Types, Same, SignalPodman, hostVars, unitVars, checkVars, skipVars, startVars
    <3>2. Kept(t)
      BY <1>10, <2>2 DEF Types, Kept, SignalPodman, hostVars, unitVars, checkVars, skipVars, startVars
    <3>. QED BY <3>1, <3>2, Untouched
  <2>3. Sound(s)'
    <3>1. OneAtATime(s)'
      BY <1>10 DEF Types, Sound, OneAtATime, SignalPodman, hostVars, unitVars, checkVars, skipVars, startVars
    <3>2. SoFar(s)'
      BY <1>10 DEF Types, Sound, SoFar, Runs, SignalPodman, hostVars, unitVars, checkVars, skipVars, startVars
    <3>3. Tally(s)'
      BY <1>10 DEF Types, Sound, Tally, SignalPodman, hostVars, unitVars, checkVars, skipVars, startVars
    <3>4. Told(s)'
      BY <1>10 DEF Types, Sound, Told, SignalPodman, hostVars, unitVars, checkVars, skipVars, startVars
    <3>5. Awaited(s)'
      BY <1>10 DEF Types, Sound, Awaited, RecheckToCome, Tally, SignalPodman, hostVars, unitVars, checkVars, skipVars, startVars
    <3>. QED BY <3>1, <3>2, <3>3, <3>4, <3>5 DEF Sound
  <2>. QED BY <2>1, <2>2, <2>3
<1>11. ASSUME NEW s \in Service, PrisonStart(s) PROVE Types' /\ \A x \in Service : Sound(x)'
  <2>1. Types'
    BY <1>11, ZenonT(60) DEF Types, PrisonStart, StartEnds, Ends, Becomes, hostVars, unitVars, checkVars, skipVars, startVars
  <2>2. ASSUME NEW t \in Service, t # s PROVE Sound(t)'
    <3>1. Same(t)
      BY <1>11, <2>2 DEF Types, Same, PrisonStart, StartEnds, Ends, Becomes, hostVars, unitVars, checkVars, skipVars, startVars
    <3>2. Kept(t)
      BY <1>11, <2>2 DEF Types, Kept, PrisonStart, StartEnds, Ends, Becomes, hostVars, unitVars, checkVars, skipVars, startVars
    <3>. QED BY <3>1, <3>2, Untouched
  <2>3. Sound(s)'
    <3>1. PICK state \in {"up", "down", "failed"} :
            StartEnds(s, state) /\ (state = "up" => podman[s] = "ok")
      BY <1>11 DEF PrisonStart, Ends
    <3>2. svc[s] = "starting" /\ place[s] = "views"
      BY <1>11 DEF PrisonStart, Sound, OneAtATime, Tally
    <3>3. /\ svc'[s] = state /\ podman'[s] = "none" /\ term'[s] = FALSE
          /\ stopping'[s] = (stopping[s] /\ state = "up")
      BY <3>1 DEF Types, StartEnds, Becomes
    <3>4. UNCHANGED <<serves, version, todo, held, stale, place, skips, row, timer, missed>>
      BY <3>1 DEF StartEnds, hostVars, unitVars, checkVars, skipVars, startVars
    <3>5. OneAtATime(s)' /\ Told(s)' /\ Awaited(s)' /\ Tally(s)'
      BY <3>2, <3>3, <3>4 DEF Sound, OneAtATime, Told, Awaited, Tally
    <3>6. SoFar(s)'
      BY <3>2, <3>3, <3>4 DEF Sound, SoFar, Runs
    <3>. QED BY <3>5, <3>6 DEF Sound
  <2>. QED BY <2>1, <2>2, <2>3
<1>12. ASSUME NEW s \in Service, Start(s) PROVE Types' /\ \A x \in Service : Sound(x)'
  <2>1. Types'
    BY <1>12 DEF Types, Start, Served, Checks, Becomes, Runs, hostVars, unitVars, checkVars, skipVars, startVars
  <2>2. ASSUME NEW t \in Service, t # s PROVE Sound(t)'
    <3>1. Same(t)
      BY <1>12, <2>2 DEF Types, Same, Start, Served, Checks, Becomes, Runs, hostVars, unitVars, checkVars, skipVars, startVars
    <3>2. Kept(t)
      BY <1>12, <2>2 DEF Types, Kept, Start, Served, Checks, Becomes, Runs, hostVars, unitVars, checkVars, skipVars, startVars
    <3>. QED BY <3>1, <3>2, Untouched
  <2>3. Sound(s)'
    <3>1. OneAtATime(s)'
      BY <1>12 DEF Types, Sound, OneAtATime, Start, Served, Checks, Becomes, Runs, hostVars, unitVars, checkVars, skipVars, startVars
    <3>2. SoFar(s)'
      BY <1>12 DEF Types, Sound, SoFar, Start, Served, Checks, Becomes, Runs, hostVars, unitVars, checkVars, skipVars, startVars
    <3>3. Tally(s)'
      BY <1>12 DEF Types, Sound, Tally, Start, Served, Checks, Becomes, Runs, hostVars, unitVars, checkVars, skipVars, startVars
    <3>4. Told(s)'
      BY <1>12 DEF Types, Sound, Told, Start, Served, Checks, Becomes, Runs, hostVars, unitVars, checkVars, skipVars, startVars
    <3>5. Awaited(s)'
      BY <1>12 DEF Types, Sound, Awaited, RecheckToCome, Tally, Start, Served, Checks, Becomes, Runs, hostVars, unitVars, checkVars, skipVars, startVars
    <3>. QED BY <3>1, <3>2, <3>3, <3>4, <3>5 DEF Sound
  <2>. QED BY <2>1, <2>2, <2>3
<1>13. ASSUME NEW s \in Service, RunJob(s) PROVE Types' /\ \A x \in Service : Sound(x)'
  <2>1. Types'
    BY <1>13 DEF Types, RunJob, Checks, Becomes, Bound, Runs, hostVars, unitVars, checkVars, skipVars, startVars
  <2>2. ASSUME NEW t \in Service, t # s PROVE Sound(t)'
    <3>1. Same(t)
      BY <1>13, <2>2 DEF Types, Same, RunJob, Checks, Becomes, Bound, Runs, hostVars, unitVars, checkVars, skipVars, startVars
    <3>2. Kept(t)
      BY <1>13, <2>2 DEF Types, Kept, RunJob, Checks, Becomes, Bound, Runs, hostVars, unitVars, checkVars, skipVars, startVars
    <3>. QED BY <3>1, <3>2, Untouched
  <2>3. Sound(s)'
    <3>1. OneAtATime(s)'
      BY <1>13 DEF Types, Sound, OneAtATime, RunJob, Checks, Becomes, Bound, Runs, hostVars, unitVars, checkVars, skipVars, startVars
    <3>2. SoFar(s)'
      BY <1>13 DEF Types, Sound, SoFar, RunJob, Checks, Becomes, Bound, Runs, hostVars, unitVars, checkVars, skipVars, startVars
    <3>3. Tally(s)'
      BY <1>13 DEF Types, Sound, Tally, RunJob, Checks, Becomes, Bound, Runs, hostVars, unitVars, checkVars, skipVars, startVars
    <3>4. Told(s)'
      BY <1>13 DEF Types, Sound, Told, RunJob, Checks, Becomes, Bound, Runs, hostVars, unitVars, checkVars, skipVars, startVars
    <3>5. Awaited(s)'
      BY <1>13 DEF Types, Sound, Awaited, RecheckToCome, Tally, RunJob, Checks, Becomes, Bound, Runs, hostVars, unitVars, checkVars, skipVars, startVars
    <3>. QED BY <3>1, <3>2, <3>3, <3>4, <3>5 DEF Sound
  <2>. QED BY <2>1, <2>2, <2>3
<1>14. ASSUME NEW s \in Service, CancelJob(s) PROVE Types' /\ \A x \in Service : Sound(x)'
  <2>1. Types'
    BY <1>14 DEF Types, CancelJob, hostVars, unitVars, checkVars, skipVars, startVars
  <2>2. ASSUME NEW t \in Service, t # s PROVE Sound(t)'
    <3>1. Same(t)
      BY <1>14, <2>2 DEF Types, Same, CancelJob, hostVars, unitVars, checkVars, skipVars, startVars
    <3>2. Kept(t)
      BY <1>14, <2>2 DEF Types, Kept, CancelJob, hostVars, unitVars, checkVars, skipVars, startVars
    <3>. QED BY <3>1, <3>2, Untouched
  <2>3. Sound(s)'
    <3>1. OneAtATime(s)'
      BY <1>14 DEF Types, Sound, OneAtATime, CancelJob, hostVars, unitVars, checkVars, skipVars, startVars
    <3>2. SoFar(s)'
      BY <1>14 DEF Types, Sound, SoFar, Runs, CancelJob, hostVars, unitVars, checkVars, skipVars, startVars
    <3>3. Tally(s)'
      BY <1>14 DEF Types, Sound, Tally, CancelJob, hostVars, unitVars, checkVars, skipVars, startVars
    <3>4. Told(s)'
      BY <1>14 DEF Types, Sound, Told, CancelJob, hostVars, unitVars, checkVars, skipVars, startVars
    <3>5. Awaited(s)'
      BY <1>14 DEF Types, Sound, Awaited, RecheckToCome, Tally, CancelJob, hostVars, unitVars, checkVars, skipVars, startVars
    <3>. QED BY <3>1, <3>2, <3>3, <3>4, <3>5 DEF Sound
  <2>. QED BY <2>1, <2>2, <2>3
<1>15. ASSUME NEW s \in Service, Stop(s) PROVE Types' /\ \A x \in Service : Sound(x)'
  <2>1. Types'
    BY <1>15 DEF Types, Stop, Runs, hostVars, unitVars, checkVars, skipVars, startVars
  <2>2. ASSUME NEW t \in Service, t # s PROVE Sound(t)'
    <3>1. Same(t)
      BY <1>15, <2>2 DEF Types, Same, Stop, Runs, hostVars, unitVars, checkVars, skipVars, startVars
    <3>2. Kept(t)
      BY <1>15, <2>2 DEF Types, Kept, Stop, Runs, hostVars, unitVars, checkVars, skipVars, startVars
    <3>. QED BY <3>1, <3>2, Untouched
  <2>3. Sound(s)'
    <3>1. OneAtATime(s)'
      BY <1>15 DEF Types, Sound, OneAtATime, Stop, Runs, hostVars, unitVars, checkVars, skipVars, startVars
    <3>2. SoFar(s)'
      BY <1>15 DEF Types, Sound, SoFar, Stop, Runs, hostVars, unitVars, checkVars, skipVars, startVars
    <3>3. Tally(s)'
      BY <1>15 DEF Types, Sound, Tally, Stop, Runs, hostVars, unitVars, checkVars, skipVars, startVars
    <3>4. Told(s)'
      BY <1>15 DEF Types, Sound, Told, Stop, Runs, hostVars, unitVars, checkVars, skipVars, startVars
    <3>5. Awaited(s)'
      BY <1>15 DEF Types, Sound, Awaited, RecheckToCome, Tally, Stop, Runs, hostVars, unitVars, checkVars, skipVars, startVars
    <3>. QED BY <3>1, <3>2, <3>3, <3>4, <3>5 DEF Sound
  <2>. QED BY <2>1, <2>2, <2>3
<1>16. ASSUME NEW s \in Service, Stopped(s) PROVE Types' /\ \A x \in Service : Sound(x)'
  <2>1. Types'
    BY <1>16 DEF Types, Stopped, Becomes, Forget, hostVars, unitVars, checkVars, skipVars, startVars
  <2>2. ASSUME NEW t \in Service, t # s PROVE Sound(t)'
    <3>1. Same(t)
      BY <1>16, <2>2 DEF Types, Same, Stopped, Becomes, Forget, hostVars, unitVars, checkVars, skipVars, startVars
    <3>2. Kept(t)
      BY <1>16, <2>2 DEF Types, Kept, Stopped, Becomes, Forget, hostVars, unitVars, checkVars, skipVars, startVars
    <3>. QED BY <3>1, <3>2, Untouched
  <2>3. Sound(s)'
    <3>1. OneAtATime(s)'
      BY <1>16 DEF Types, Sound, OneAtATime, Stopped, Becomes, Forget, hostVars, unitVars, checkVars, skipVars, startVars
    <3>2. SoFar(s)'
      BY <1>16 DEF Types, Sound, SoFar, Runs, Stopped, Becomes, Forget, hostVars, unitVars, checkVars, skipVars, startVars
    <3>3. Tally(s)'
      BY <1>16 DEF Types, Sound, Tally, Stopped, Becomes, Forget, hostVars, unitVars, checkVars, skipVars, startVars
    <3>4. Told(s)'
      BY <1>16 DEF Types, Sound, Told, Stopped, Becomes, Forget, hostVars, unitVars, checkVars, skipVars, startVars
    <3>5. Awaited(s)'
      BY <1>16 DEF Types, Sound, Awaited, RecheckToCome, Tally, Stopped, Becomes, Forget, hostVars, unitVars, checkVars, skipVars, startVars
    <3>. QED BY <3>1, <3>2, <3>3, <3>4, <3>5 DEF Sound
  <2>. QED BY <2>1, <2>2, <2>3
<1>17. ASSUME NEW s \in Service, Dies(s) PROVE Types' /\ \A x \in Service : Sound(x)'
  <2>1. Types'
    BY <1>17 DEF Types, Dies, Becomes, hostVars, unitVars, checkVars, skipVars, startVars
  <2>2. ASSUME NEW t \in Service, t # s PROVE Sound(t)'
    <3>1. Same(t)
      BY <1>17, <2>2 DEF Types, Same, Dies, Becomes, hostVars, unitVars, checkVars, skipVars, startVars
    <3>2. Kept(t)
      BY <1>17, <2>2 DEF Types, Kept, Dies, Becomes, hostVars, unitVars, checkVars, skipVars, startVars
    <3>. QED BY <3>1, <3>2, Untouched
  <2>3. Sound(s)'
    <3>1. OneAtATime(s)'
      BY <1>17 DEF Types, Sound, OneAtATime, Dies, Becomes, hostVars, unitVars, checkVars, skipVars, startVars
    <3>2. SoFar(s)'
      BY <1>17 DEF Types, Sound, SoFar, Runs, Dies, Becomes, hostVars, unitVars, checkVars, skipVars, startVars
    <3>3. Tally(s)'
      BY <1>17 DEF Types, Sound, Tally, Dies, Becomes, hostVars, unitVars, checkVars, skipVars, startVars
    <3>4. Told(s)'
      BY <1>17 DEF Types, Sound, Told, Dies, Becomes, hostVars, unitVars, checkVars, skipVars, startVars
    <3>5. Awaited(s)'
      BY <1>17 DEF Types, Sound, Awaited, RecheckToCome, Tally, Dies, Becomes, hostVars, unitVars, checkVars, skipVars, startVars
    <3>. QED BY <3>1, <3>2, <3>3, <3>4, <3>5 DEF Sound
  <2>. QED BY <2>1, <2>2, <2>3
<1>18. ASSUME NEW s \in Service, Elapse(s) PROVE Types' /\ \A x \in Service : Sound(x)'
  <2>1. Types'
    BY <1>18 DEF Types, Elapse, hostVars, unitVars, checkVars, skipVars, startVars
  <2>2. ASSUME NEW t \in Service, t # s PROVE Sound(t)'
    <3>1. Same(t)
      BY <1>18, <2>2 DEF Types, Same, Elapse, hostVars, unitVars, checkVars, skipVars, startVars
    <3>2. Kept(t)
      BY <1>18, <2>2 DEF Types, Kept, Elapse, hostVars, unitVars, checkVars, skipVars, startVars
    <3>. QED BY <3>1, <3>2, Untouched
  <2>3. Sound(s)'
    <3>1. OneAtATime(s)'
      BY <1>18 DEF Types, Sound, OneAtATime, Elapse, hostVars, unitVars, checkVars, skipVars, startVars
    <3>2. SoFar(s)'
      BY <1>18 DEF Types, Sound, SoFar, Runs, Elapse, hostVars, unitVars, checkVars, skipVars, startVars
    <3>3. Tally(s)'
      BY <1>18 DEF Types, Sound, Tally, Elapse, hostVars, unitVars, checkVars, skipVars, startVars
    <3>4. Told(s)'
      BY <1>18 DEF Types, Sound, Told, Elapse, hostVars, unitVars, checkVars, skipVars, startVars
    <3>5. Awaited(s)'
      BY <1>18 DEF Types, Sound, Awaited, RecheckToCome, Tally, Elapse, hostVars, unitVars, checkVars, skipVars, startVars
    <3>. QED BY <3>1, <3>2, <3>3, <3>4, <3>5 DEF Sound
  <2>. QED BY <2>1, <2>2, <2>3
<1>19. ASSUME NEW s \in Service, RecheckStarts(s) PROVE Types' /\ \A x \in Service : Sound(x)'
  <2>1. Types'
    <3>1. CASE Runs(s)
      BY <1>19, <3>1 DEF Types, RecheckStarts, LeavesAlone, hostVars, checkVars, startVars
    <3>2. CASE ~ Runs(s)
      <4>1. Served(s) \in [View -> Nat]
        BY DEF Types, Served
      <4>2. Checks(s, Served(s)) /\ UNCHANGED <<file, held, stopping, job, skips, row, missed>>
        BY <1>19, <3>2 DEF RecheckStarts
      <4>3. timer' = [timer EXCEPT ![s] = "ending"]
        BY <1>19, <3>2 DEF RecheckStarts
      <4>4. timer' \in [Service -> {"off", "waiting", "running", "deciding", "ending"}]
        BY <4>3 DEF Types
      <4>. QED BY <4>1, <4>2, <4>4 DEF Types, Checks, Becomes
    <3>. QED BY <3>1, <3>2
  <2>2. ASSUME NEW t \in Service, t # s PROVE Sound(t)'
    <3>1. Same(t)
      BY <1>19, <2>2 DEF Types, Same, RecheckStarts, LeavesAlone, Served, Checks, Becomes, Runs, hostVars, unitVars, checkVars, skipVars, startVars
    <3>2. Kept(t)
      BY <1>19, <2>2 DEF Types, Kept, RecheckStarts, LeavesAlone, Served, Checks, Becomes, Runs, hostVars, unitVars, checkVars, skipVars, startVars
    <3>. QED BY <3>1, <3>2, Untouched
  <2>3. Sound(s)'
    <3>1. OneAtATime(s)'
      BY <1>19 DEF Types, Sound, OneAtATime, RecheckStarts, LeavesAlone, Served, Checks, Becomes, Runs, hostVars, unitVars, checkVars, skipVars, startVars
    <3>2. SoFar(s)'
      BY <1>19 DEF Types, Sound, SoFar, RecheckStarts, LeavesAlone, Served, Checks, Becomes, Runs, hostVars, unitVars, checkVars, skipVars, startVars
    <3>3. Tally(s)'
      BY <1>19 DEF Types, Sound, Tally, RecheckStarts, LeavesAlone, Served, Checks, Becomes, Runs, hostVars, unitVars, checkVars, skipVars, startVars
    <3>4. Told(s)'
      BY <1>19 DEF Types, Sound, Told, RecheckStarts, LeavesAlone, Served, Checks, Becomes, Runs, hostVars, unitVars, checkVars, skipVars, startVars
    <3>5. Awaited(s)'
      <4>1. CASE Runs(s)
        <5>1. LeavesAlone(s) /\ svc'[s] = svc[s] /\ place'[s] = place[s]
          BY <1>19, <4>1 DEF RecheckStarts, checkVars
        <5>2. svc[s] = "checking" => missed'[s]
          BY <5>1 DEF Types, LeavesAlone
        <5>. QED BY <4>1, <5>1, <5>2 DEF Awaited, Sound, Tally, Runs
      <4>2. CASE ~ Runs(s)
        <5>1. svc'[s] = "checking" /\ place'[s] = "views"
          BY <1>19, <4>2 DEF Types, RecheckStarts, Checks, Becomes
        <5>. QED BY <5>1 DEF Awaited
      <4>. QED BY <4>1, <4>2
    <3>. QED BY <3>1, <3>2, <3>3, <3>4, <3>5 DEF Sound
  <2>. QED BY <2>1, <2>2, <2>3
<1>20. ASSUME NEW s \in Service, RecheckEnds(s) PROVE Types' /\ \A x \in Service : Sound(x)'
  <2>1. Types'
    BY <1>20 DEF Types, RecheckEnds, hostVars, unitVars, checkVars, skipVars, startVars
  <2>2. ASSUME NEW t \in Service, t # s PROVE Sound(t)'
    <3>1. Same(t)
      BY <1>20, <2>2 DEF Types, Same, RecheckEnds, hostVars, unitVars, checkVars, skipVars, startVars
    <3>2. Kept(t)
      BY <1>20, <2>2 DEF Types, Kept, RecheckEnds, hostVars, unitVars, checkVars, skipVars, startVars
    <3>. QED BY <3>1, <3>2, Untouched
  <2>3. Sound(s)'
    <3>1. OneAtATime(s)'
      BY <1>20 DEF Types, Sound, OneAtATime, RecheckEnds, hostVars, unitVars, checkVars, skipVars, startVars
    <3>2. SoFar(s)'
      BY <1>20 DEF Types, Sound, SoFar, Runs, RecheckEnds, hostVars, unitVars, checkVars, skipVars, startVars
    <3>3. Tally(s)'
      BY <1>20 DEF Types, Sound, Tally, RecheckEnds, hostVars, unitVars, checkVars, skipVars, startVars
    <3>4. Told(s)'
      BY <1>20 DEF Types, Sound, Told, RecheckEnds, hostVars, unitVars, checkVars, skipVars, startVars
    <3>5. Awaited(s)'
      BY <1>20 DEF Types, Sound, Awaited, RecheckToCome, Tally, RecheckEnds, hostVars, unitVars, checkVars, skipVars, startVars
    <3>. QED BY <3>1, <3>2, <3>3, <3>4, <3>5 DEF Sound
  <2>. QED BY <2>1, <2>2, <2>3
<1>21. ASSUME NEW v \in View, ViewChanges(v) PROVE Types' /\ \A x \in Service : Sound(x)'
  <2>1. Types'
    <3>1. serves' \in [View -> Nat]
      BY <1>21 DEF Types, ViewChanges
    <3>2. held' \in [Service -> [View -> {"no", "pid", "gone"}]]
      BY <1>21 DEF Types, ViewChanges, Lost
    <3>3. stopping' \in [Service -> BOOLEAN]
      BY <1>21, ZenonT(60) DEF Types, ViewChanges, Bound, Runs
    <3>4. UNCHANGED <<file, svc, version, job, timer, place, todo, stale, skipVars, startVars>>
      BY <1>21 DEF ViewChanges
    <3>. QED BY <3>1, <3>2, <3>3, <3>4 DEF Types, skipVars, startVars
  <2>2. ASSUME NEW t \in Service PROVE Sound(t)'
    <3>1. Same(t)
      BY <1>21 DEF Types, Same, ViewChanges, Lost, Bound, Runs, hostVars, unitVars, checkVars, skipVars, startVars
    <3>2. CASE serves[v] = 0
      <4>1. UNCHANGED <<stopping, held>> /\ \A w \in View : serves'[w] = serves[w] \/ serves[w] = 0
        BY <1>21, <3>2 DEF Types, ViewChanges
      <4>. QED BY <3>1, <4>1, Untouched DEF Kept
    <3>3. CASE serves[v] # 0
      <4>1. stopping'[t] = (stopping[t] \/ (Runs(t) /\ ViewsOf[t] \cap {v} # {}))
        BY <1>21, <3>3 DEF ViewChanges, Bound
      <4>2. \A w \in View : held'[t][w] # "no" => held[t][w] # "no"
        BY <1>21, <3>3 DEF Types, ViewChanges, Lost
      <4>3. \A w \in View : w # v => serves'[w] = serves[w]
        BY <1>21 DEF Types, ViewChanges
      <4>4. stopping[t] \in BOOLEAN /\ ViewsOf[t] \subseteq View /\ (stopping[t] => Runs(t))
        BY DEF Types, Sound, SoFar
      <4>5. CASE v \in ViewsOf[t] /\ Runs(t)
        <5>1. stopping'[t] = TRUE
          BY <4>1, <4>5
        <5>2. Kept(t)
          BY <4>2, <4>5, <5>1 DEF Kept
        <5>. QED BY <3>1, <5>2, Untouched
      <4>6. CASE ~ (v \in ViewsOf[t] /\ Runs(t))
        <5>1. stopping'[t] = stopping[t]
          BY <4>1, <4>4, <4>6
        <5>2. Runs(t) => \A w \in ViewsOf[t] : serves'[w] = serves[w]
          BY <4>3, <4>4, <4>6
        <5>3. Kept(t)
          BY <4>2, <5>1, <5>2 DEF Kept
        <5>. QED BY <3>1, <5>3, Untouched
      <4>. QED BY <4>5, <4>6
    <3>. QED BY <3>2, <3>3
  <2>. QED BY <2>1, <2>2
<1>22. CASE DaemonReload
  <2>1. Types'
    BY <1>22 DEF Types, DaemonReload, hostVars, unitVars, checkVars, skipVars, startVars
  <2>2. ASSUME NEW t \in Service PROVE Sound(t)'
    <3>1. Same(t)
      BY <1>22 DEF Types, Same, DaemonReload, hostVars, unitVars, checkVars, skipVars, startVars
    <3>2. Kept(t)
      BY <1>22 DEF Types, Kept, DaemonReload, hostVars, unitVars, checkVars, skipVars, startVars
    <3>. QED BY <3>1, <3>2, Untouched
  <2>. QED BY <2>1, <2>2
<1>23. CASE UNCHANGED vars
  <2>1. Types'
    BY <1>23 DEF Types, vars, hostVars, unitVars, checkVars, skipVars, startVars
  <2>2. ASSUME NEW t \in Service PROVE Sound(t)'
    <3>1. Same(t)
      BY <1>23 DEF Types, Same, vars, hostVars, unitVars, checkVars, skipVars, startVars
    <3>2. Kept(t)
      BY <1>23 DEF Types, Kept, vars, hostVars, unitVars, checkVars, skipVars, startVars
    <3>. QED BY <3>1, <3>2, Untouched
  <2>. QED BY <2>1, <2>2
<1>24. ASSUME NEW s \in Service, QueryTimer(s) PROVE Types' /\ \A x \in Service : Sound(x)'
  <2>1. Types'
    BY <1>24 DEF Types, QueryTimer, hostVars, unitVars, checkVars, skipVars, startVars
  <2>2. ASSUME NEW t \in Service, t # s PROVE Sound(t)'
    <3>1. Same(t)
      BY <1>24, <2>2 DEF Types, Same, QueryTimer, hostVars, unitVars, checkVars, skipVars, startVars
    <3>2. Kept(t)
      BY <1>24, <2>2 DEF Types, Kept, QueryTimer, hostVars, unitVars, checkVars, skipVars, startVars
    <3>. QED BY <3>1, <3>2, Untouched
  <2>3. Sound(s)'
    <3>1. OneAtATime(s)'
      BY <1>24 DEF Types, Sound, OneAtATime, QueryTimer, hostVars, unitVars, checkVars, skipVars, startVars
    <3>2. SoFar(s)'
      BY <1>24 DEF Types, Sound, SoFar, Runs, QueryTimer, hostVars, unitVars, checkVars, skipVars, startVars
    <3>3. Tally(s)'
      BY <1>24 DEF Types, Sound, Tally, QueryTimer, hostVars, unitVars, checkVars, skipVars, startVars
    <3>4. Told(s)'
      BY <1>24 DEF Types, Sound, Told, QueryTimer, hostVars, unitVars, checkVars, skipVars, startVars
    <3>5. Awaited(s)'
      BY <1>24 DEF Types, Sound, Awaited, RecheckToCome, QueryTimer, Runs, Tally, hostVars, unitVars, checkVars, skipVars, startVars
    <3>. QED BY <3>1, <3>2, <3>3, <3>4, <3>5 DEF Sound
  <2>. QED BY <2>1, <2>2, <2>3
<1>25. ASSUME NEW s \in Service, ArmTimer(s) PROVE Types' /\ \A x \in Service : Sound(x)'
  <2>1. Types'
    BY <1>25 DEF Types, ArmTimer, Armed, hostVars, unitVars, checkVars, skipVars, startVars
  <2>2. ASSUME NEW t \in Service, t # s PROVE Sound(t)'
    <3>1. Same(t)
      BY <1>25, <2>2 DEF Types, Same, ArmTimer, Armed, hostVars, unitVars, checkVars, skipVars, startVars
    <3>2. Kept(t)
      BY <1>25, <2>2 DEF Types, Kept, ArmTimer, Armed, hostVars, unitVars, checkVars, skipVars, startVars
    <3>. QED BY <3>1, <3>2, Untouched
  <2>3. Sound(s)'
    <3>1. OneAtATime(s)'
      BY <1>25 DEF Types, Sound, OneAtATime, ArmTimer, Armed, hostVars, unitVars, checkVars, skipVars, startVars
    <3>2. SoFar(s)'
      BY <1>25 DEF Types, Sound, SoFar, Runs, ArmTimer, Armed, hostVars, unitVars, checkVars, skipVars, startVars
    <3>3. Tally(s)'
      BY <1>25 DEF Types, Sound, Tally, ArmTimer, Armed, hostVars, unitVars, checkVars, skipVars, startVars
    <3>4. Told(s)'
      BY <1>25 DEF Types, Sound, Told, ArmTimer, Armed, hostVars, unitVars, checkVars, skipVars, startVars
    <3>5. Awaited(s)'
      BY <1>25 DEF Types, Sound, Awaited, RecheckToCome, ArmTimer, Armed, Runs, Tally, hostVars, unitVars, checkVars, skipVars, startVars
    <3>. QED BY <3>1, <3>2, <3>3, <3>4, <3>5 DEF Sound
  <2>. QED BY <2>1, <2>2, <2>3
<1>26. ASSUME NEW s \in Service, RecheckLooks(s) PROVE Types' /\ \A x \in Service : Sound(x)'
  <2>1. Types'
    BY <1>26 DEF Types, RecheckLooks, Restarts, LeavesAlone, Runs, hostVars, unitVars, checkVars, skipVars, startVars
  <2>2. ASSUME NEW t \in Service, t # s PROVE Sound(t)'
    <3>1. Same(t)
      BY <1>26, <2>2 DEF Types, Same, RecheckLooks, Restarts, LeavesAlone, Runs, hostVars, unitVars, checkVars, skipVars, startVars
    <3>2. Kept(t)
      BY <1>26, <2>2 DEF Types, Kept, RecheckLooks, Restarts, LeavesAlone, Runs, hostVars, unitVars, checkVars, skipVars, startVars
    <3>. QED BY <3>1, <3>2, Untouched
  <2>3. Sound(s)'
    <3>1. OneAtATime(s)'
      BY <1>26 DEF Types, Sound, OneAtATime, RecheckLooks, Restarts, LeavesAlone, Runs, hostVars, unitVars, checkVars, skipVars, startVars
    <3>2. SoFar(s)'
      BY <1>26 DEF Types, Sound, SoFar, RecheckLooks, Restarts, LeavesAlone, Runs, hostVars, unitVars, checkVars, skipVars, startVars
    <3>3. Tally(s)'
      BY <1>26 DEF Types, Sound, Tally, RecheckLooks, Restarts, LeavesAlone, Runs, hostVars, unitVars, checkVars, skipVars, startVars
    <3>4. Told(s)'
      BY <1>26 DEF Types, Sound, Told, RecheckLooks, Restarts, LeavesAlone, Runs, hostVars, unitVars, checkVars, skipVars, startVars
    <3>5. Awaited(s)'
      <4>1. CASE timer'[s] = "deciding"
        BY <4>1 DEF Awaited, RecheckToCome
      <4>2. CASE LeavesAlone(s) /\ svc[s] = "checking"
        <5>1. missed'[s]
          BY <4>2 DEF Types, LeavesAlone
        <5>. QED BY <5>1 DEF Awaited
      <4>3. CASE svc[s] # "checking" /\ ~ Restarts(s)
        <5>1. svc'[s] = svc[s] /\ place'[s] = place[s] /\ svc[s] # "skipped"
          BY <1>26, <4>3 DEF RecheckLooks, Restarts, Runs, checkVars
        <5>. QED BY <4>3, <5>1 DEF Awaited, Sound, Tally
      <4>4. Restarts(s) => timer'[s] = "deciding"
        BY <1>26 DEF Types, RecheckLooks
      <4>5. ~ Restarts(s) => LeavesAlone(s)
        BY <1>26 DEF RecheckLooks
      <4>. QED BY <4>1, <4>2, <4>3, <4>4, <4>5
    <3>. QED BY <3>1, <3>2, <3>3, <3>4, <3>5 DEF Sound
  <2>. QED BY <2>1, <2>2, <2>3
<1>27. ASSUME NEW s \in Service, RecheckFails(s) PROVE Types' /\ \A x \in Service : Sound(x)'
  <2>1. Types'
    BY <1>27 DEF Types, RecheckFails, hostVars, unitVars, checkVars, skipVars, startVars
  <2>2. ASSUME NEW t \in Service, t # s PROVE Sound(t)'
    <3>1. Same(t)
      BY <1>27, <2>2 DEF Types, Same, RecheckFails, hostVars, unitVars, checkVars, skipVars, startVars
    <3>2. Kept(t)
      BY <1>27, <2>2 DEF Types, Kept, RecheckFails, hostVars, unitVars, checkVars, skipVars, startVars
    <3>. QED BY <3>1, <3>2, Untouched
  <2>3. Sound(s)'
    <3>1. OneAtATime(s)'
      BY <1>27 DEF Types, Sound, OneAtATime, RecheckFails, hostVars, unitVars, checkVars, skipVars, startVars
    <3>2. SoFar(s)'
      BY <1>27 DEF Types, Sound, SoFar, Runs, RecheckFails, hostVars, unitVars, checkVars, skipVars, startVars
    <3>3. Tally(s)'
      BY <1>27 DEF Types, Sound, Tally, RecheckFails, hostVars, unitVars, checkVars, skipVars, startVars
    <3>4. Told(s)'
      BY <1>27 DEF Types, Sound, Told, RecheckFails, hostVars, unitVars, checkVars, skipVars, startVars
    <3>5. Awaited(s)'
      BY <1>27 DEF Types, Sound, Awaited, RecheckToCome, RecheckFails, Runs, Tally, hostVars, unitVars, checkVars, skipVars, startVars
    <3>. QED BY <3>1, <3>2, <3>3, <3>4, <3>5 DEF Sound
  <2>. QED BY <2>1, <2>2, <2>3
<1>. QED
  BY <1>1, <1>2, <1>3, <1>4, <1>5, <1>6, <1>7, <1>8, <1>9, <1>10, <1>11, <1>12, <1>13, <1>14, <1>15, <1>16, <1>17, <1>18, <1>19, <1>20, <1>21, <1>22, <1>23,
     <1>24, <1>25, <1>26, <1>27
  DEF Next, Check, Recheck

LEMMA CheckInvariant == Spec => []CheckInv
<1>. QED BY CheckInit, CheckNext, PTL DEF Spec

-----------------------------------------------------------------------------

\* The check's state stays well formed, and no check leaves a view behind.
THEOREM CheckTypes == Spec => []TypeOK
<1>1. CheckInv => TypeOK
  BY DEF CheckInv
<1>. QED BY <1>1, CheckInvariant, PTL

\* What is let through runs on the store it was built for.
THEOREM ServicesRunOnTheirStore == Spec => []RunsOnItsStore
<1>1. CheckInv => RunsOnItsStore
  BY DEF CheckInv, SoFar, RunsOnItsStore
<1>. QED BY <1>1, CheckInvariant, PTL

\* A skipped start has its recheck to come, unless that one failed or had
\* looked already while the start was being checked.
THEOREM SkipsAreRechecked == Spec => []NotForgotten
<1>1. CheckInv => NotForgotten
  BY DEF CheckInv, Awaited, NotForgotten, RecheckToCome
<1>. QED BY <1>1, CheckInvariant, PTL

\* The skips in a row are bounded.
THEOREM SkipsAreBounded == Spec => []SkipsInARow
<1>1. CheckInv => SkipsInARow
  BY DEF CheckInv, Tally, SkipsInARow
<1>. QED BY <1>1, CheckInvariant, PTL

\* A stop that interrupts a start is no failure of it.
THEOREM StopsAreClean == Spec => StopIsNoFailure
<1>1. ASSUME CheckInv, [Next]_vars, NEW s \in Service,
             svc[s] = "starting", svc'[s] = "failed"
      PROVE  podman[s] = "failed" /\ ~ term[s]
  <2>1. ASSUME NEW state, NEW t \in Service, Becomes(t, state), t # s \/ state # "failed"
        PROVE  FALSE
    BY <1>1, <2>1 DEF CheckInv, TypeOK, Becomes
  <2>2. ASSUME NEW t \in Service, Check(t) PROVE FALSE
    <3>1. svc[t] = "checking"
      BY <2>2 DEF Check, MainPid, Cmdline, Looking, Fresh, Bump, Looked, Restart,
         QueryTimer, ArmTimer, Skip, CheckFails
    <3>2. t # s
      BY <1>1, <3>1
    <3>3. ~ UNCHANGED svc
      BY <1>1
    <3>. QED BY <2>1, <2>2, <3>2, <3>3
         DEF Check, MainPid, Cmdline, Fresh, Bump, Restart, QueryTimer, ArmTimer, Skip, CheckFails, unitVars
  <2>3. ~ UNCHANGED svc
    BY <1>1
  <2>4. ASSUME NEW t \in Service, NEW served, Checks(t, served) PROVE FALSE
    BY <2>1, <2>4 DEF Checks
  <2>5. ASSUME NEW t \in Service, Stop(t) PROVE FALSE
    BY <1>1, <2>5 DEF CheckInv, TypeOK, Stop, Runs
  <2>6. ASSUME NEW t \in Service, Stopped(t) \/ Dies(t) PROVE FALSE
    <3>1. t # s \/ Stopped(t)
      BY <1>1, <2>6 DEF Dies
    <3>. QED BY <2>1, <2>6, <3>1 DEF Stopped, Dies
  <2>7. PICK t \in Service : PrisonStart(t)
    BY <1>1, <2>2, <2>3, <2>4, <2>5, <2>6
       DEF Next, vars, unitVars, PodmanEnds, SignalStart, SignalPodman, Start, RunJob,
           CancelJob, Elapse, Recheck, RecheckLooks, RecheckStarts, RecheckFails,
           RecheckEnds, ViewChanges, DaemonReload
  <2>8. t = s /\ podman[s] \in {"failed", "killed"} /\ StartEnds(s, Ends(s)) /\ Ends(s) = "failed"
    BY <2>1, <2>7 DEF PrisonStart, StartEnds
  <2>9. ~ term[s]
    BY <2>8 DEF Ends
  <2>. QED BY <1>1, <2>8, <2>9 DEF CheckInv, Told
<1>2. CheckInv /\ [Next]_vars =>
        \A s \in Service : svc[s] = "starting" /\ svc'[s] = "failed" =>
          podman[s] = "failed" /\ ~ term[s]
  BY <1>1
<1>. QED BY <1>2, CheckInvariant, PTL DEF Spec, StopIsNoFailure
=============================================================================
