----------------------------- MODULE StoreCheck -----------------------------
(***************************************************************************)
(* The freshness check of a prison's service units (prison-store-check)    *)
(* and the start it guards (prison-start), among what systemd may do in    *)
(* between.  A view's daemon serves the closure its unit file named when   *)
(* it started; a service's start runs the unit file systemd then held, and *)
(* expects that closure of every view it runs against.                     *)
(***************************************************************************)
EXTENDS Integers

CONSTANTS
  Service,   \* service units
  View,      \* store views
  ViewsOf,   \* the views a service runs against
  MaxSkips,
  HostFails, \* may a call of systemctl or systemd-run fail?
  SlowCheck, \* may a timer elapse before the check that has set it ends?
  MaxCount,  \* bound: where the count of skips stops
  LastFile   \* bound: the last version of the unit files

ASSUME CheckAssumption ==
  /\ ViewsOf \in [Service -> SUBSET View]
  /\ MaxSkips \in Nat /\ MaxCount \in Nat
  /\ LastFile \in Nat
  /\ HostFails \in BOOLEAN /\ SlowCheck \in BOOLEAN

VARIABLES
  file,      \* the version of the unit files systemd holds
  serves,    \* the version a view's daemon serves, 0 when there is none
  svc,       \* "down" | "checking" | "starting" | "up" | "skipped" | "failed"
  version,   \* of the unit file a start runs
  stopping,  \* is a stop of the service under way?
  job,       \* the views of the restart that is queued for the service
  timer,     \* its recheck: "off" | "waiting" | "running", up to its look, |
             \* "deciding", up to its start, | "ending"
  place,     \* how far its check is: "views" | "counted" | "queued" |
             \* "arming" | "armed", by itself, | "relying", on an older timer
  todo,      \* the views it has yet to look at
  held,      \* for each view, is its main PID read? "no" | "pid" | "gone"
  stale,     \* the views found to serve something else
  skips,     \* the count kept in the runtime directory
  row,       \* starts skipped since the last one that was not
  missed,    \* did the recheck that the last skip counts on come to its end
             \* before that skip, or fail?  (for the properties only)
  podman,    \* the `podman run` of a start: "none" | "running" | "ok" |
             \* "failed", of itself, | "killed", by the stop
  term       \* STOPPING, of prison-start

hostVars == <<file, serves>>
checkVars == <<place, todo, held, stale>>
skipVars == <<skips, row, missed>>
startVars == <<podman, term>>
unitVars == <<svc, version, stopping, job, timer>>
vars == <<hostVars, unitVars, checkVars, skipVars, startVars>>

Runs(s) == svc[s] \in {"checking", "starting", "up"}

-----------------------------------------------------------------------------
(* The check.                                                              *)

Becomes(s, state) == svc' = [svc EXCEPT ![s] = state]

\* Mutant of Forget: what a check had read stays for the next.
ForgetViews(s) ==
  /\ place' = [place EXCEPT ![s] = "views"]
  /\ todo' = [todo EXCEPT ![s] = {}]
  /\ stale' = [stale EXCEPT ![s] = {}]
  /\ UNCHANGED held

\* The check's process is gone, with all it remembered.
Forget(s) ==
  /\ place' = [place EXCEPT ![s] = "views"]
  /\ todo' = [todo EXCEPT ![s] = {}]
  /\ held' = [held EXCEPT ![s] = [v \in View |-> "no"]]
  /\ stale' = [stale EXCEPT ![s] = {}]

Looking(s, v) == svc[s] = "checking" /\ place[s] = "views" /\ v \in todo[s]

\* The view's MainPID, 0 when it does not run.
MainPid(s, v) ==
  /\ Looking(s, v)
  /\ \A w \in View : held[s][w] = "no"
  /\ \/ /\ serves[v] = 0
        /\ todo' = [todo EXCEPT ![s] = @ \ {v}]
        /\ stale' = [stale EXCEPT ![s] = @ \cup {v}]
        /\ UNCHANGED held
     \/ /\ serves[v] # 0
        /\ held' = [held EXCEPT ![s][v] = "pid"]
        /\ UNCHANGED <<todo, stale>>
  /\ UNCHANGED <<hostVars, unitVars, place, skipVars, startVars>>

\* Mutant of Expected: any store view that runs will do.
AnyServed(s, v) == held[s][v] = "pid"

\* The process may have gone; what it serves is in its arguments.
Expected(s, v) == held[s][v] = "pid" /\ serves[v] = version[s]

Cmdline(s, v) ==
  /\ Looking(s, v)
  /\ held[s][v] # "no"
  /\ held' = [held EXCEPT ![s][v] = "no"]
  /\ todo' = [todo EXCEPT ![s] = @ \ {v}]
  /\ stale' = [stale EXCEPT ![s] = IF Expected(s, v) THEN @ ELSE @ \cup {v}]
  /\ UNCHANGED <<hostVars, unitVars, place, skipVars, startVars>>

Looked(s) == svc[s] = "checking" /\ place[s] = "views" /\ todo[s] = {}

\* Fresh: the count is cleared and the start goes on.
Fresh(s) ==
  /\ Looked(s)
  /\ stale[s] = {}
  /\ skips' = [skips EXCEPT ![s] = 0]
  /\ row' = [row EXCEPT ![s] = 0]
  /\ Becomes(s, "starting")
  /\ podman' = [podman EXCEPT ![s] = "running"]
  /\ Forget(s)
  /\ UNCHANGED <<hostVars, version, stopping, job, timer, missed, term>>

\* Mutant of Counted: the count of an earlier start is not read back.
CountedAnew(s) == 1

Counted(s) == skips[s] + 1

Bump(s) ==
  /\ Looked(s)
  /\ stale[s] # {}
  /\ skips[s] < MaxCount
  /\ skips' = [skips EXCEPT ![s] = Counted(s)]
  /\ place' = [place EXCEPT ![s] = "counted"]
  /\ UNCHANGED <<hostVars, unitVars, todo, held, stale, row, missed, startVars>>

\* The restart is queued without waiting; too many skips fail the start.
Restart(s) ==
  /\ svc[s] = "checking" /\ place[s] = "counted"
  /\ job' = [job EXCEPT ![s] = stale[s]]
  /\ IF skips[s] > MaxSkips
     THEN Becomes(s, "failed") /\ Forget(s) /\ stopping' = [stopping EXCEPT ![s] = FALSE]
     ELSE /\ place' = [place EXCEPT ![s] = "queued"]
          /\ UNCHANGED <<svc, stopping, todo, held, stale>>
  /\ UNCHANGED <<hostVars, version, timer, skipVars, startVars>>

\* Is the recheck's timer active?  It is as long as what it started has not
\* ended, and a recheck that has looked already does not look again.
QueryTimer(s) ==
  /\ svc[s] = "checking" /\ place[s] = "queued"
  /\ place' = [place EXCEPT ![s] = IF timer[s] = "off" THEN "arming" ELSE "relying"]
  /\ missed' = [missed EXCEPT ![s] = timer[s] = "ending"]
  /\ UNCHANGED <<hostVars, unitVars, todo, held, stale, skips, row, startVars>>

\* Mutant of Armed: a skip does not wait for its recheck.
NotArmed(s) == timer[s]

\* systemd-run --on-active
Armed(s) == "waiting"

ArmTimer(s) ==
  /\ svc[s] = "checking" /\ place[s] = "arming"
  /\ timer' = [timer EXCEPT ![s] = Armed(s)]
  /\ place' = [place EXCEPT ![s] = "armed"]
  /\ UNCHANGED <<hostVars, svc, version, stopping, job, todo, held, stale, skipVars, startVars>>

\* The check ends with 1, and systemd skips the start.
Skip(s) ==
  /\ svc[s] = "checking" /\ place[s] \in {"armed", "relying"}
  /\ row' = [row EXCEPT ![s] = @ + 1]
  /\ Becomes(s, "skipped")
  /\ stopping' = [stopping EXCEPT ![s] = FALSE]
  /\ Forget(s)
  /\ UNCHANGED <<hostVars, version, job, timer, skips, missed, startVars>>

\* Whatever the check asks of its host may fail, and then the start does.
CheckFails(s) ==
  /\ HostFails
  /\ svc[s] = "checking" /\ place[s] \notin {"armed", "relying"}
  /\ Becomes(s, "failed")
  /\ stopping' = [stopping EXCEPT ![s] = FALSE]
  /\ Forget(s)
  /\ UNCHANGED <<hostVars, version, job, timer, skipVars, startVars>>

Check(s) ==
  \/ \E v \in View : MainPid(s, v) \/ Cmdline(s, v)
  \/ Fresh(s) \/ Bump(s) \/ Restart(s) 
  \/ QueryTimer(s) \/ ArmTimer(s) \/ Skip(s) \/ CheckFails(s)

-----------------------------------------------------------------------------
(* The start.                                                              *)

StartEnds(s, state) ==
  /\ Becomes(s, state)
  /\ podman' = [podman EXCEPT ![s] = "none"]
  /\ term' = [term EXCEPT ![s] = FALSE]
  /\ stopping' = [stopping EXCEPT ![s] = @ /\ state = "up"]
  /\ UNCHANGED <<hostVars, version, job, timer, checkVars, skipVars>>

PodmanEnds(s) ==
  /\ podman[s] = "running"
  /\ \E status \in {"ok", "failed"} : podman' = [podman EXCEPT ![s] = status]
  /\ UNCHANGED <<hostVars, unitVars, checkVars, skipVars, term>>

\* systemd signals prison-start first, and podman after it.
SignalStart(s) ==
  /\ svc[s] = "starting" /\ stopping[s]
  /\ term' = [term EXCEPT ![s] = TRUE]
  /\ UNCHANGED <<hostVars, unitVars, checkVars, skipVars, podman>>

SignalPodman(s) ==
  /\ svc[s] = "starting" /\ stopping[s] /\ term[s]
  /\ podman[s] = "running"
  /\ podman' = [podman EXCEPT ![s] = "killed"]
  /\ UNCHANGED <<hostVars, unitVars, checkVars, skipVars, term>>

\* Mutant of Ends: podman's status is passed on, whoever caused it.
EndsAsPodman(s) == "failed"

\* A start that the unit's stop interrupted is no failure.
Ends(s) == IF term[s] THEN "down" ELSE "failed"

PrisonStart(s) ==
  \/ podman[s] = "ok" /\ StartEnds(s, "up")
  \/ podman[s] \in {"failed", "killed"} /\ StartEnds(s, Ends(s))

-----------------------------------------------------------------------------
(* systemd.                                                                *)

\* A start runs the unit file of its time, from the check on, and brings up
\* the views the service's owner is bound to.
Checks(s, served) ==
  /\ Becomes(s, "checking")
  /\ serves' = served
  /\ version' = [version EXCEPT ![s] = file]
  /\ place' = [place EXCEPT ![s] = "views"]
  /\ todo' = [todo EXCEPT ![s] = ViewsOf[s]]
  /\ stale' = [stale EXCEPT ![s] = {}]
  /\ podman' = [podman EXCEPT ![s] = "none"]
  /\ term' = [term EXCEPT ![s] = FALSE]

\* The views of a service that starts: those that do not run are started.
Served(s) == [v \in View |-> IF v \in ViewsOf[s] /\ serves[v] = 0 THEN file ELSE serves[v]]

Start(s) ==
  /\ ~ Runs(s)
  /\ Checks(s, Served(s))
  /\ UNCHANGED <<file, stopping, job, timer, held, skipVars>>

\* What has run against a view is bound to it, and is stopped with it.
Lost(views) ==
  held' = [s \in Service |-> [v \in View |->
             IF v \in views /\ held[s][v] = "pid" THEN "gone" ELSE held[s][v]]]

Bound(views) ==
  [s \in Service |-> stopping[s] \/ (Runs(s) /\ ViewsOf[s] \cap views # {})]

\* The queued restart: of the stale views, and of the service itself.
RunJob(s) ==
  LET views == job[s]
  IN  /\ views # {}
      /\ Checks(s, [v \in View |-> IF v \in views \/ (v \in ViewsOf[s] /\ serves[v] = 0)
                                   THEN file ELSE serves[v]])
      /\ job' = [job EXCEPT ![s] = {}]
      /\ stopping' = [Bound(views) EXCEPT ![s] = FALSE]
      /\ held' = [t \in Service |-> [v \in View |->
                    IF t = s THEN "no"
                    ELSE IF v \in views /\ held[t][v] = "pid" THEN "gone" ELSE held[t][v]]]
      /\ UNCHANGED <<file, timer, skipVars>>

CancelJob(s) ==
  /\ job[s] # {}
  /\ job' = [job EXCEPT ![s] = {}]
  /\ UNCHANGED <<hostVars, svc, version, stopping, timer, checkVars, skipVars, startVars>>

\* A stop that somebody asks for; it takes the place of a queued restart.
Stop(s) ==
  /\ svc[s] \notin {"down", "failed"}
  /\ job' = [job EXCEPT ![s] = {}]
  /\ stopping' = [stopping EXCEPT ![s] = Runs(s)]
  /\ svc' = [svc EXCEPT ![s] = IF Runs(s) THEN @ ELSE "down"]
  /\ UNCHANGED <<hostVars, version, timer, checkVars, skipVars, startVars>>

Stopped(s) ==
  /\ stopping[s]
  /\ svc[s] \in {"checking", "up"}
  /\ Becomes(s, "down")
  /\ stopping' = [stopping EXCEPT ![s] = FALSE]
  /\ Forget(s)
  /\ UNCHANGED <<hostVars, version, job, timer, skipVars, startVars>>

Dies(s) ==
  /\ svc[s] = "up"
  /\ Becomes(s, "failed")
  /\ stopping' = [stopping EXCEPT ![s] = FALSE]
  /\ UNCHANGED <<hostVars, version, job, timer, checkVars, skipVars, startVars>>

\* A view's daemon ends, or is started again with the unit file of the time.
ViewChanges(v) ==
  /\ \E to \in {0, file} :
       /\ to # 0 \/ serves[v] # 0
       /\ serves' = [serves EXCEPT ![v] = to]
  /\ IF serves[v] = 0 THEN UNCHANGED <<stopping, held>>
     ELSE Lost({v}) /\ stopping' = Bound({v})
  /\ UNCHANGED <<file, svc, version, job, timer, place, todo, stale, skipVars, startVars>>

\* A switch's daemon-reload.  What it restarts comes later, if ever.
DaemonReload ==
  /\ file < LastFile
  /\ file' = file + 1
  /\ UNCHANGED <<serves, unitVars, checkVars, skipVars, startVars>>

\* The timer elapses and starts the recheck, two minutes after it was set.
Elapse(s) ==
  /\ timer[s] = "waiting"
  /\ SlowCheck \/ place[s] # "armed"
  /\ timer' = [timer EXCEPT ![s] = "running"]
  /\ UNCHANGED <<hostVars, svc, version, stopping, job, checkVars, skipVars, startVars>>

\* Mutant of Restarts: a start that was skipped has not failed.
RestartsFailed(s) == svc[s] = "failed"

\* What the recheck starts: whatever does not run, or is being stopped.
Restarts(s) == ~ Runs(s) \/ stopping[s]

\* The recheck is over; a check under way may have counted on it.
LeavesAlone(s) ==
  /\ timer' = [timer EXCEPT ![s] = "ending"]
  /\ missed' = [missed EXCEPT ![s] = @ \/ svc[s] = "checking"]

\* ActiveState, read once ...
RecheckLooks(s) ==
  /\ timer[s] = "running"
  /\ \/ /\ Restarts(s)
        /\ timer' = [timer EXCEPT ![s] = "deciding"]
        /\ UNCHANGED missed
     \/ ~ Restarts(s) /\ LeavesAlone(s)
  /\ UNCHANGED <<hostVars, svc, version, stopping, job, checkVars, skips, row, startVars>>

\* ... and the start, by when it may have become another.  What runs already
\* is left alone; what is being stopped starts after that (Start).
RecheckStarts(s) ==
  /\ timer[s] = "deciding"
  /\ \/ /\ Runs(s)
        /\ LeavesAlone(s)
        /\ UNCHANGED <<hostVars, svc, version, checkVars, startVars>>
     \/ /\ ~ Runs(s)
        /\ timer' = [timer EXCEPT ![s] = "ending"]
        /\ Checks(s, Served(s))
        /\ UNCHANGED <<file, held, missed>>
  /\ UNCHANGED <<stopping, job, skips, row>>

\* systemctl may fail in either, and then the recheck does; nobody tries again.
RecheckFails(s) ==
  /\ HostFails
  /\ timer[s] \in {"running", "deciding"}
  /\ timer' = [timer EXCEPT ![s] = "ending"]
  /\ missed' = [missed EXCEPT ![s] = TRUE]
  /\ UNCHANGED <<hostVars, svc, version, stopping, job, checkVars, skips, row, startVars>>

Recheck(s) == RecheckLooks(s) \/ RecheckStarts(s) \/ RecheckFails(s)

RecheckEnds(s) ==
  /\ timer[s] = "ending"
  /\ timer' = [timer EXCEPT ![s] = "off"]
  /\ UNCHANGED <<hostVars, svc, version, stopping, job, checkVars, skipVars, startVars>>

-----------------------------------------------------------------------------

Init ==
  /\ file = 1
  /\ serves = [v \in View |-> 0]
  /\ svc = [s \in Service |-> "down"]
  /\ version = [s \in Service |-> 0]
  /\ stopping = [s \in Service |-> FALSE]
  /\ job = [s \in Service |-> {}]
  /\ timer = [s \in Service |-> "off"]
  /\ place = [s \in Service |-> "views"]
  /\ todo = [s \in Service |-> {}]
  /\ held = [s \in Service |-> [v \in View |-> "no"]]
  /\ stale = [s \in Service |-> {}]
  /\ skips = [s \in Service |-> 0]
  /\ row = [s \in Service |-> 0]
  /\ missed = [s \in Service |-> FALSE]
  /\ podman = [s \in Service |-> "none"]
  /\ term = [s \in Service |-> FALSE]

Next ==
  \/ \E s \in Service :
       \/ Check(s)
       \/ PodmanEnds(s) \/ SignalStart(s) \/ SignalPodman(s) \/ PrisonStart(s)
       \/ Start(s) \/ RunJob(s) \/ CancelJob(s) \/ Stop(s) \/ Stopped(s) \/ Dies(s)
       \/ Elapse(s) \/ Recheck(s) \/ RecheckEnds(s)
  \/ \E v \in View : ViewChanges(v)
  \/ DaemonReload

Spec == Init /\ [][Next]_vars

\* A timer elapses, and a process that was started gets to run.
LiveSpec ==
  Spec /\ \A s \in Service : WF_vars(Elapse(s)) /\ WF_vars(Recheck(s)) /\ WF_vars(RecheckEnds(s))
=============================================================================
