--------------------------- MODULE LaunchProperties -------------------------
(***************************************************************************)
(* What one launch of an entry promises.                                   *)
(***************************************************************************)
EXTENDS AppLaunch

Arg == {Mount(i, p, q) : i \in DOMAIN Plan, p \in Path, q \in Path}

\* Types; no handler is installed before the launch is resolved.
TypeOK ==
  /\ foreground \in BOOLEAN /\ leased \in BOOLEAN
  /\ pc \in {"start", "bus", "proxy", "await", "resolve", "podman", "spawned",
             "dedupe", "stored", "forward", "wait", "reaped", "drop", "unlink",
             "release"} \cup Over
  /\ handled \in 0 .. Len(Order) /\ pending \subseteq Signal
  /\ child \in BOOLEAN
  /\ early \in Signal \cup {NoSignal} /\ taken \in Signal \cup {NoSignal}
  /\ podman \in {"none", "running", "ended"}
  /\ resolved \subseteq Arg /\ rest \subseteq Arg /\ argv \subseteq Arg
  /\ seen \subseteq Path
  /\ proxy \in {"none", "running", "dead"}
  /\ socket \in {"none", "old", "own"} /\ told \in BOOLEAN
  /\ claim \in {"none", "held", "released"}
  /\ sent \in [Signal -> Nat] /\ heard \in [Signal -> Nat]

\* podman refuses to start with two mounts at one destination: whatever the
\* host has where the rules overlap, it is never given two, and what it runs
\* with has for every mount the rules came to the first of that destination in
\* the plan's order, and nothing else (drop_duplicate_mounts).
MountedOnce ==
  /\ \A m, n \in argv : m.destination = n.destination => m = n
  /\ podman # "none" =>
       /\ argv \subseteq resolved
       /\ \A n \in resolved : \E m \in argv :
            m.destination = n.destination /\ (m = n \/ Before(m, n))

\* The app never gets a signal more often than it was sent: what the terminal
\* sends to the group is not passed on, and what was remembered in EARLY is
\* passed on once (must_forward, relay, supervise).
NotTwice == \A s \in Signal : heard[s] <= sent[s]

\* A signal for the runner that comes before podman's pid is known and that
\* must_forward would pass on reaches podman all the same, unless another one
\* takes its place in EARLY, or there is no app to tell (CHILD is stored before
\* EARLY is looked at).  It says nothing of an INT, a HUP or a QUIT sent to the
\* runner alone while its group is the terminal's foreground group: the code
\* takes it for the terminal's, which podman would have got too, and drops it.
Relayed ==
  \A s \in Signal :
    (early = s /\ MustForward(s)) ~>
       \/ heard[s] > 0
       \/ podman = "ended" \/ pc \in Over
       \/ early \in Signal \ {s}

\* The app is told of a bus only when the launch's own proxy made the socket,
\* not when one was left there by a launch that was killed; and that connection
\* never outlives the app: a launch that is over, however it failed, has no
\* proxy and no socket of one, unless it was killed.
BusIsOwn ==
  /\ told => socket # "old"
  /\ pc \in {"ended", "replaced"} => proxy # "running" /\ socket # "own"

\* The claim on the holder lasts as long as podman does, and a launch that
\* fails or ends gives it back, unless the runner is killed.
ClaimCovers ==
  /\ leased /\ podman = "running" /\ pc # "dead" => claim = "held"
  /\ pc = "ended" => claim # "held"
=============================================================================
