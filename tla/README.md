# A TLA+ model of nixct

`nixct` runs NixOS in a podman container on any Linux host. Most of it is
configuration; what is hard to get right is a handful of protocols between shell
scripts, systemd units, watchdogs and podman that share locks, marker files and
mounts, and four small Rust programs that sit between the kernel, an agent, a
terminal or systemd and something that changes under them. This directory models
those, checks them with TLC on small instances and proves the most important
results for every size with TLAPS.

All commands run in this directory:

    tlc -config MCSession_develop.cfg MCSession
    tlc -config MCStore_view.cfg MCStore
    tlapm SessionProofs.tla

`PROJECT.json` lists the runs, what they check, which source lines each
definition models, the hazards the properties are aimed at, and the theorems.

## The system

| part | state it keeps | operations | talks to |
|---|---|---|---|
| **develop sessions** (`scripts/run/dispatch.nix`, `container-module.nix`, `scripts/host-watchdog.nix`, `scripts/lib/watchdog.nix`) | `/run/nixct-sessions/<id>/{lock,live,joiners/}`, `session-<id>-<n>.scope` units, the session's user, home and mounts; on the host the project's bind, relays, services, the host watchdog's pid file and socket | `develop` joins or creates, the inner watchdog dismantles, the host watchdog drops the host's part | the lock and the markers inside the container; a unix socket from the inner to the host watchdog |
| **container lifecycle** (`scripts/run/container.nix`, `session.nix`, `dispatch.nix`) | podman's container, an activity mark, the idle monitor | `up`, `down`, `boot`, `switch`, `purge`, `__idle-monitor` | stops all sessions with the container; `develop` starts it |
| **store mounts** (`scripts/lib/store.nix`, `run/state.nix`) | a stack of overlays and binds in podman's user namespace | mount all, undo on failure, unmount | needed before the container starts |
| **forwarding** (`scripts/lib/forwarding.nix`, `wprs.nix`, `dbus.nix`) | relay processes, pid files, socket binds, ACLs | set up by `develop`, dropped by the host watchdog | the session's lifetime |
| **app runner** (`app/runner.rs`) | the guard and lease files, the holder container; the D-Bus proxy and its socket, podman's pid and an early signal | acquire, launch, release; mounts resolved, signals relayed to podman | podman; other launches of the app through the locks; the terminal |
| **GC-root keeper** (`container-module.nix`) | GC-root links of a session | scan, register, end with the session | the host's nix daemon, the host watchdog |
| **shared store file system** (`nix-store-shared-fuse`) | inodes and their nodes, names looked up, open handles, backing files | lookup, getattr, readlink, readdir in pages, open, release | the kernel; whoever writes the farm and the store |
| **prisons** (`prison-store-check`, `prison-start`, `nix/prison`) | a count of skips, a recheck timer, the units' states; what a view's daemon serves | check the views, queue a restart, skip or fail or start; tell a stop from a failure | systemd, podman, the store views' daemons |
| **ssh-agent filter** (`ssh-agent-filter`) | the policy; identities known per connection | list, sign, forward, refuse | the host's agent and its owner |

Hard behaviours: shells that join while the session is torn down; a develop that
dies half-way; two watchdogs in different namespaces, one told by the other once
and asynchronously; launches that race for a holder while podman stalls; kill -9
at any point; records that outlive what they describe; a directory that changes
between two pages; a key renamed between a listing and a signature; a daemon
replaced between two reads of one check; a signal between a spawn and the store of
its pid.

What makes each part correct:

- *sessions*: a joiner and a teardown exclude each other; a session called new has
  nothing of an older one that its teardown passed over; `rm -rf` never runs into a
  mount; every scope has a watchdog that sees it end; a dead develop pins nothing;
  what the host holds goes when the session goes.
- *container lifecycle*: the container is not stopped under a session, and is
  stopped when idle.
- *store mounts*: a failed mount leaves nothing mounted; the order is undone in
  reverse.
- *app runner*: an entry keeps its holder while it runs, is started only on a
  holder that can be joined, and the last entry removes it.
- *a launch*: the app gets every signal and none twice; its bus ends with it and is
  one that somebody serves; its claim lasts as long as it does.
- *shared store*: an inode keeps its name; handles share a backing file and leak
  none; a directory is read whole; a link is realized exactly by the README's rule.
- *prisons*: nothing runs against a store view of another version; a skipped start
  is looked at again, and not skipped for ever.
- *agent filter*: nothing changes the agent; a key is used only under a comment
  that permits it; a listing is exactly what is permitted.

## Modules

| module | what it models |
|---|---|
| `SessionLifecycle` | one develop session: invocations, inner watchdog, host watchdogs |
| `SessionProperties` | what it should keep, and what the documentation says of it |
| `JoinGate` | abstract specification: nobody is on its way in during a teardown |
| `SessionProofs` | TLAPS proofs about `SessionLifecycle` |
| `HolderLease` | the app runner's lease on the network holder |
| `HolderProperties` | what the lease is for |
| `SharedHolder` | abstract specification: a holder is removed only while unused |
| `HolderProofs` | TLAPS proofs about `HolderLease` |
| `AppLaunch`, `LaunchProperties` | one launch of an entry: bus, mounts, podman, signals; what it promises |
| `LaunchProofs` | TLAPS proofs about `AppLaunch` |
| `StorePaths` | the path logic of the shared store file system: which links are realized |
| `StoreView`, `StoreProperties` | the file system's daemon, the kernel's requests and changes underneath; what it keeps |
| `FileService` | abstract specification: names keep numbers, numbers keep files |
| `LoopProofs` | lemmas for proofs about loops: induction over numbers, what a fold computes, counting |
| `PathProofs` | TLAPS proofs about `StorePaths`: what normalizing a path computes |
| `StoreProofs` | TLAPS proofs about `StoreView` |
| `StoreCheck`, `CheckProperties` | a prison's freshness check and start among systemd's jobs; what they promise |
| `CheckProofs` | TLAPS proofs about `StoreCheck` |
| `Globs` | the agent filter's pattern matcher, and what its comment says of it |
| `AgentFilter`, `AgentProperties` | the agent filter, its clients and the agent's owner; what it promises |
| `AgentProofs` | TLAPS proofs about `Globs` and `AgentFilter` |
| `MCSession`, `MCHolder`, `MCLaunch`, `MCStore`, `MCCheck`, `MCAgent` | instances for TLC |

The components do not share variables; where one relies on another the module says
so: `AppLaunch` has its claim on the holder as one flag, whose meaning is
`HolderLease`, and `StoreCheck` has a view's daemon as the version it serves, whose
inside is `StoreView`.

Definitions named `...` after a comment "Mutant of" are deliberate mistakes. They
are not part of any specification; substituting one for the definition it mutates
must make TLC find the property it is paired with violated.

### SessionLifecycle

A member of `Shell` is one invocation of `develop` on one path. Its phases follow
`dispatch.nix`:

| phase | code |
|---|---|
| `bind` | `bind_workdir`, before the lock |
| `lock`, `scanScope`, `scanMarker` | the join script: `flock`, `live`, the scan for an index no scope and no marker has |
| `setup` | the user, the home directory and its files |
| `mount` | `~/dev` from the host's bind; templates and shares |
| `forward` | agent, sockets, X11, Wayland, git server, ports |
| `checkHost`, `spawnHost` | `start_session_watchdog`, its test and its spawn |
| `checkInner`, `runInner` | `systemctl is-active`, then `systemd-run` of the inner watchdog |
| `openScope`, `handOver` | `systemd-run --scope`; then `rm -f <marker>` inside it |
| `shell` | the shell runs |

A test and the act that relies on it are two steps wherever the code does them by
two commands and no lock covers both. The scan reads scope and marker in two steps
too: it holds the lock, but the shells it looks at do not.

The inner watchdog (`inner`) polls without the lock, waits for it, reads the
scopes, then the markers, dismantles and notifies. What the container holds is
`home`: the user, the home directory (`dir`), and what is mounted below it, the
project (`dev`) and anything else (`extra`). The teardown takes its parts one after
the other and each may fail, as the code lets it: `Unmount` may leave any of the
mounts, and then `Keep` leaves the home; otherwise `Wipe` removes it, or cannot; and
`DeleteUser` may be refused. `stuck` remembers what a teardown tried to remove and
could not, to tell that from what it would have forgotten; it exists only for the
properties. Every invocation may die from its bind to its scope (`Die`), and the
initial states have any markers that earlier invocations left in that way, with `live`
beside them.

Each invocation may have spawned a host watchdog (`hw`), which listens until it is told
and then drops relays, bind and services. `Leave` removes the socket's path whoever listens on it by then, as
`rm -f "$SOCK"` does.

Time appears once: a marker can become older than five minutes (`Age`). With
`SlowSetup = FALSE` this happens only to the marker of an invocation that is gone.
That is the assumption of the code's comment ("its window is seconds; five minutes
is a generous backstop"); with `SlowSetup = TRUE` TLC finds
`JoinerSafe` violated, and `ProjectKept` by a set-up that mounts between the last
unmount and the `rm -rf`, so the assumption is needed, and it is the one the theorems
name.

Abstractions: a unit is inactive as soon as its process has ended; a host watchdog
listens as soon as it is spawned (the code waits up to two seconds for it); each
invocation runs once; templates and shares are one mount, `extra`, and what the host
binds for a share is not told from the project's bind; mounts stacked on one directory
count as one; copied dotfiles and git config are part of the home's files;
`ensure_running` always succeeds, because the container's own lifecycle is another
module; a session of `--git-serve`, which binds no project, is not modelled; whether
the host's `umount` is refused while the session has it mounted (bindfs) or not (a
native mount) is left open.

### HolderLease

A member of `Runner` is one launch. `guard` and `excl`/`shared` are the two `flock`
files; `holder` is podman's record together with the process behind it, where
`stale` is a record that says running and a process that is dead. `Exists`,
`Inspect`, `Replace`, `Ensure`, `Create`, `Start`, `Verify` are the calls of podman
`acquire_lease` and `start_holder` make, in order. `lock_shared` is two steps,
`UnlockLease` and `Share`, because `flock` converts a lock in two. `RunApp` and
`AppEnds` are the entry, `DropClaim` to `Remove` is `release_lease`.

Failure: any podman call may stall or fail (`Stall`, the second disjuncts of
`Replace`, `Create`, `Remove`, `StartRefused`), a wait for the guard may time out, a
runner may be killed anywhere (`Kill`), and the holder's process may die
(`HolderDies`). A killed runner's locks go at once. The podman process it waited for
does not go with it: it is kept in `orphans` and takes effect later or never
(`OrphanEnds`). `stray` remembers that such a call took a holder away and `lost` that
a holder's process died; both exist only to state the properties.

Abstractions: a podman call takes effect at one instant; durations are left out, so
a timeout may strike whenever there is something to wait for; entries without a
holder take no part; each launch happens once.

### AppLaunch

`pc` follows `run`, `launch`, `start_dbus_proxy` and `supervise`:

| `pc` | code |
|---|---|
| `start` | `run` up to the lease; any of its steps may end the launch |
| `bus`, `proxy`, `await` | `start_dbus_proxy`: remove an old socket, spawn, wait for the socket |
| `drop`, `unlink` | `ProxyGuard::drop`: kill and wait, then remove the socket |
| `resolve` | `resolve`, on what the host has at that moment |
| `dedupe` | `drop_duplicate_mounts`, one mount after the other |
| `podman` | `exec`, or the four handlers of `supervise` one by one, then the spawn |
| `spawned`, `stored`, `forward` | the pid stored in `CHILD`, `EARLY` swapped out, the early signal passed on |
| `wait`, `reaped` | `wait`; `CHILD` reset |
| `release` | `release_lease` and exit |

The handler (`Relay`) may run between any two of these. `Resolve` chooses what each
path of the host is and makes podman's mounts from the plan's: rules expand to what
exists, a comma or too many matches refuse the launch. The loop that drops duplicate
mounts (`pc = "dedupe"`) then looks at them one by one (`DropDuplicateMount`): `rest`
is what it has yet to look at, `seen` its set of destinations, `argv` what it lets
through, and `resolved` remembers what the rules came to, so that `MountedOnce` can
compare the two. A signal goes to the runner alone (`SendRunner`) or to its whole
group (`SendGroup`, Ctrl-C); podman is in the group once it is spawned. A runner
without a handler for a signal dies of it, and kill -9 always works.

Abstractions: whether the runner is in the terminal's foreground does not change
during a launch; the handler is atomic; a pid is not reused between `wait` and the
reset of `CHILD`; a removal of the proxy's socket succeeds, where the code ignores what
`remove_file` answers (`runner.rs:798`, `817`); the plan's text, templates and directories only decide whether a
launch reaches its claim; paths are numbers in the order they sort in.

### StoreView and StorePaths

One action per request: `Lookup` and `LookupAttr` (the name resolved, then its
attributes; the farm may change in between), `GetAttr`, `ReadLink`, `OpenDir`,
`ReadDir`, `ReleaseDir`, `Open`, `Release`, and `Modify` for everything that is
refused. The daemon answers one request at a time, as `fuser`'s loop does; nothing
else is atomic with the tree. `nodes`, `lookupCache`, `nextIno`,
`backingByHandle`, `backingByInode` and `nextFh` are the fields of `StoreFs`;
`opened` and `scan` are what the kernel holds. A backing id is the open and the
file it was opened for; a weak reference is one that no handle holds any more.
`ReadDir` takes pages of any size and lists the directory anew for each, in an
order of the directory's own, which is the same as long as its names are; new
entries get the next inodes in any order.
`ChangeFarm` and `ChangeStore` put any of a path's objects in its place at any time,
so a name can become another kind of node.

`StorePaths` has `realize.rs`: normalizing a path component by component, and the
two prefix tests. The file system underneath (`Plain`, `Through`, `At`, `Follow`) is
external: cap-std, which follows links inside its directory and refuses to leave
it. Both modules assume of their constants what `main` makes of its arguments: the
resolution root and the bind target are `Canonical`, because `main` normalizes them
(`main.rs:112-113`). A path of the farm or of the store is a path of names whose
parents are there too, because the trees are trees, and a farm link's target is a
sequence of strings.

Abstractions: errnos and attribute values; a link is followed once, not in chains;
one listing is one step; `read`, `statfs` and `access` change nothing and are left
out; inodes and file handles are bounded (`MaxIno`, `MaxFh`), the code's are 64
bits wide.

### StoreCheck

A start of a service (`Checks`) takes the version of its unit file, looks at its
views one after the other, each in two reads (`MainPid`, `Cmdline`), and then lets
the start go on (`Fresh`) or counts, queues a restart, arms a recheck and skips it, or
fails. Counting and queueing are `Bump` and `Restart`. Arming is three
steps, because the timer may elapse and its recheck look between any two of them:
`QueryTimer` asks whether the timer is active, `ArmTimer` starts one if it was not, and
`Skip` is the exit with 1 that makes systemd skip the start. `CheckFails` stands for
every call that can fail in between. The recheck reads the unit's state
(`RecheckLooks`), starts it if that said so (`RecheckStarts`), by when it may have
become another, and fails when `systemctl` does (`RecheckFails`). A unit that is being
stopped (`deactivating`) is one it starts: that start waits for the stop, and is then
one of systemd's (`Start`). `PrisonStart` is `prison-start`: it has podman's status and
whether its own SIGTERM came (`term`).

The rest is systemd, external to the code and modelled as the units use it: what a
start brings up, `BindsTo` stopping what a view is lost to (`Bound`), a restart that
is queued, run or cancelled, stops at any point, daemon-reloads that change the
version, the timer. `row` counts the skips since a start that was not one and exists
only to state `SkipsInARow`; `missed` remembers that the recheck a skip counts on
failed, or had looked at the unit and left it alone before the skip. With
`HostFails = FALSE` no call fails, and with `SlowCheck = FALSE` a timer of two minutes
does not elapse between its arming and the exit that follows; both are TRUE in the run
`prison`, and the theorems hold for either.

Abstractions: a version stands for the closure a unit file names; an automatic
restart of a unit is a `Start`; a daemon-reload does not fall between a unit's
check and its own start.

### AgentFilter and Globs

A client's thread is `closed`, reading (`read`), waiting for the list it asked for
itself (`fetch`) or for the agent's answer (`forward`). `Read` has `serve`'s
decisions in their order; `known` is its list of blobs and comments. A blob that
does not parse is `{}`. The agent may answer with identities that are whole or cut
short, with something else or not at all. Its owner adds, renames, removes, locks
and unlocks whenever he likes, and `had` remembers every identity there ever was, to
state `SignedAsPermitted`. The filter may be killed and started again with other
lists.

`Globs` has `glob` as it is written, and `GlobMeans`, the meaning its comment gives:
some run of the text for every star. It says so without a loop: a function tells how
much of the text the first characters of the pattern make, each of them. Comments and
specs are assumed to be texts (`IsText`), and no spec of an allow list is empty: an
empty one would name every key whose comment is not known.

Abstractions: a fingerprint is its blob; a comment is a short sequence of characters;
one request is in flight per connection, as in `serve`; a client that has asked and
hangs up is seen when its thread reads again.

## Runs

| run | instance | shows |
|---|---|---|
| `session_develop` | 2 invocations, 2 indices, leftover markers, deaths, failing teardowns; fair | the safety properties, that the session implements `JoinGate`, that the inner watchdog ends and the lock is answered |
| `holder_lease` | 3 launches, failures, kills | the safety properties, `SharedHolder`, and that the guard is answered |
| `launch` | a plan of 4 mounts on 4 paths, 2 signals, every host | mounts, signals, bus and claim of one launch |
| `storefs` | 2 names in the farm, 3 paths in the store, 3 inodes, 3 handles of which 2 open | inodes, handles, paged directories, realization, and that it implements `FileService` |
| `prison` | 1 service, 2 views, 3 versions, `MaxSkips` 3, failing calls, slow checks | nothing runs on another store; skips are rechecked and bounded |
| `agent` | 1 client, 2 keys, 2 comments, 6 pairs of lists, all message types | read-only, signatures and listings as permitted, every request answered |
| `session_toctou` | 2 invocations | violates "a decision no joiner can invalidate" |
| `session_rejoin` | 2 invocations | violates "waits for teardown to finish and gets a new session" |
| `session_leftover` | 2 invocations, fair | violates "removed when its last shell exits" |
| `prison_recheck` | as `prison`, but no call fails and no check is slow | violates "every skip also arms a recheck timer" |
| `holder_orphan` | 2 launches | violates "the guard serialises" |
| `agent_glob` | 1 key, the pattern `*ab` | violates "`*` matches any run" |

**Bounds.** Two invocations are one that leaves or dies and one that joins; markers of
earlier ones that died stand for any more, since a dead invocation does nothing else.
With two indices the scan skips those that a scope or a marker has, and runs out of
them (the code has 64). `SessionProofs` has any number of both. Three launches allow one running entry, one
being released and one being acquired. The launch's plan has two rules and an own
mount that overlap, one path with a comma and more matches than `MaxBinds`; two
signals are one that is remembered and one that takes its place or doubles it. Three
inodes and three opens with two open at once reach the limit, an open after a close
and an open of a file that has changed; the farm's links are one that climbs out and
back and one that leads back to the farm, and `p` is a file, another file or a
directory. One service with two views has a check that sees the first before and the
second after a change; `MaxCount` lies above `MaxSkips`, so giving up is reached and
passed. One client is enough because connections share nothing but the agent, which
its owner changes as any other client could not. The proofs have no such bounds,
other than those on inodes and handles that the module itself names.

**Deadlock** is not checked for sessions, holders and launches: every run ends with
all of them over, or with a user who never starts or leaves. It is checked for the
file system, the agent filter and the prison, which always have something to do.

**Fairness.** `session_develop` assumes weak fairness of every step of a started
invocation, of the watchdogs, and of markers growing old: processes are scheduled and
minutes pass. It assumes nothing of `Begin` and `ExitShell` (users) or `Die`.
`JoinAnswered` needs no strong fairness because only finitely many invocations
compete. `holder_lease` assumes weak fairness of the runner's own steps, not of the
app's end, of kills or of timeouts. `launch` assumes it of the runner, not of podman,
the proxy or signals; `agent` of a thread that waits for the agent, which answers or
hangs up; `prison` of a timer that elapses and of the process it starts. `storefs`
has no liveness property: each request is answered in the step or two it takes.

## What was found

- *session_toctou.* The inner watchdog reads the scopes, then the markers. A shell
  opens its scope, then drops its marker, without the lock. If both happen between
  the two reads, neither read sees the shell and its session is dismantled. Reading
  the markers first would close it.
- *session_rejoin.* `bind_workdir` runs before the join. When it finds the old
  session's bind and the develop then waits for the lock, the host watchdog of the old
  session unmounts the bind after the lock is free, and `~/dev` cannot be made.
- *session_leftover.* `start_session_watchdog` is content with any live process in the
  pid file. The old session's watchdog is alive while it drops that session; a new
  session that finds it there gets none of its own, and what the host holds for the
  new session stays.
- *prison_recheck.* `arm_recheck` arms no timer when it finds one active, and a timer is
  active until what it started has ended. A check's own queued restart begins a new
  check while the first one's timer still runs; when that elapses, its recheck finds
  the unit activating and leaves it alone; the new check sees the timer still active,
  arms none, and skips. If its restart is cancelled, nobody looks again.
- *holder_orphan.* The guard is released when a runner dies; the `podman rm` it
  started is not stopped. It can then remove a holder another launch has a claim on.
- *agent_glob.* `glob` takes the leftmost place of each part of a pattern. When text is
  left over after the last part it answers no, although a later place may reach the
  end: `*ab` does not match `abab`. On a deny list the key gets through.

Properties that hold only with an exception say so in their statement. These are the
places where the code does something its reader might not expect:

- `FreshSession` and `InnerEnds` leave out what a teardown tried to remove and could
  not: a mount that stays bound keeps the home (`container-module.nix:310-337`), and a
  failed `userdel` is ignored (`container-module.nix:362`). `live` is gone by then, so
  the next session is told it is new and finds them.
- `NotForgotten` and `LooksAgain` leave out a skip whose recheck failed
  (`prison-store-check/src/main.rs:70-75`), or looked at the unit while it was still
  activating, after `arm_recheck` saw or armed its timer and before the skip
  (`prison-store-check/src/lib.rs:225`, `296`).
- `SignedAsPermitted` leaves out a deny list whose fetch of the comments went
  unanswered: the key is judged by an empty comment and passes (`lib.rs:49`).
- `Relayed` leaves out a signal that another one replaces in `EARLY`, and every INT,
  HUP or QUIT while the runner is in the terminal's foreground, which `must_forward`
  takes for the terminal's: a Ctrl-C between the handlers and the spawn is neither
  passed on nor in podman's group (`runner.rs:778`), and one of the three that somebody
  sends to the runner alone is dropped, although the comment at `runner.rs:741` counts
  it among what "reaches only this process".
- `FreshAfterClose` relies on the kernel: `open_readonly` opens whatever a name means by
  then (`backing.rs:11-19`), and passthrough takes only regular files.
- `FreshAfterClose` is about the first handle of an inode only: while one is open,
  every open of the inode gets the file it was opened for, though the name may mean
  another by now. The comment at `fs/mod.rs:187` ("kind/path are stable") is not
  true of a store that changes, which `InodesNamed` and `IsFileService` do not need.
- A stopped service whose start had been skipped is started again by its recheck,
  which asks only whether it runs.

## Proofs

`SessionProofs` proves, for any set of invocations and any number of indices,
`TypeCorrect`, `SessionSafe` (`JoinerSafe`, `FreshSession`, `Attended`,
`DistinctMarkers`), `ProjectIsKept` and `SessionIsGate` (the refinement of `JoinGate`),
all but the first under `~ SlowSetup`. None of these is inductive alone. `SessionInv` adds who has the
lock (`LockInv`: exactly the invocation that scans or the watchdog that decides or
dismantles), that every invocation that sets up has a marker of its own which is not
old, that a dismantling watchdog has seen no marker (`MarkerInv`), and, for each phase
of the teardown, that the parts it has dealt with are gone or stuck, and that it comes
to its `rm -rf` with nothing mounted (`TeardownInv`). From the last follows
`ProjectIsKept`, the step property `ProjectKept`. The key step of the others is
`CheckJoiners`: every joiner has a marker that the sweep keeps, so a watchdog that
finds none may dismantle, and until it is done the lock keeps everybody out.

`HolderProofs` proves, for any set of launches and with failures, kills and stray
calls, `TypeCorrect`, `HolderSafe` (`AppKept`, `HolderThere`, `Joinable`,
`LastRemoves`) and `HolderIsShared` (the refinement of `SharedHolder`). `HolderInv`
adds which phase has which lock (`LockInv`), that a verified holder is there and was
alive (`HeldInv`, `AliveInv`), and that someone is still under way while there is a
holder that an ended launch has left (`LastInv`). The step that matters is `Share`:
between verifying a holder and claiming it a launch has the guard, so no other can be
removing it, although the lease file itself is free for an instant.

`StoreProofs` proves, for any farm, store, limit and bounds, `StoreTypes`,
`InodesAreNamed`, `BackingsAreShared`, `OpensAreFresh` and `StoreIsFileService` (the
refinement of `FileService`). The invariant adds that every handle's file was opened
by a handle no later than the last, so that a new one is nobody else's, and that the
weak reference of an inode, where some handle still has it, belongs to the handles
of that inode alone; what is left in the table after the last handle is closed may
be anything. `InternAll` numbers any finite set of names at once, so its case needs
that the numbers it chooses are new, distinct and as many as the names.

Two properties of the file system compare a loop with a meaning, and need induction
over the loop. The library's induction theorems cannot be used here, because they
take an operator as a parameter, but their instances for a set can: `SetInduction`
and `BoundedInduction` of `LoopProofs` say that a set of numbers that has 0 and the
next of each of its members has all, and follow from `<` being well-founded.
`FoldExists` shows by them that the equation that a fold of the community modules
chooses a solution of has one, so that a fold's steps can be taken one by one.

- `NormalizeIsMeant` (`PathProofs`): what `Normalize` leaves of a path, component by
  component, is what `Meant` says of the whole path at once, for every path. The loop
  keeps what is in hand with its places in the path (`IsTrail`). A name is left if
  the path never goes above it again, which is a statement about its depth after each
  component (`Level`); each `..` at the root has the depth go below zero, which the
  loop does not see. With it, `LinksAreRealized` is `RealizedAsDocumented` for any
  farm, store, root and target. Its invariant (`PathInv`) says that the farm
  has an object for each of its paths, and that the path of a bind node is made of
  strings.
- `ScansAreComplete` is `ScanComplete`. The invariant (`ScanInv`) says that a scan over
  which nothing changed has got exactly the entries before its offset, in the listing
  as it is now; the listing is the same for every page because its names are
  (`ListedKept`), although a page may intern new inodes in between. That needs
  `ParentsFirst`: an inode's entries have greater numbers than it, so that no entry
  takes the place of the directory that is read.

`AgentProofs` proves `AgentTypes`, `AgentIsReadOnly`, `SignaturesArePermitted` and
`ListingsAreExact`. The invariant says where a request that is about to be forwarded
came from: it is of no refused kind, and if it is a signature its blob was judged by
a comment in `known`, all of which the agent once had, or by none after asking. That
an allow list fails closed on the empty comment of `permits_blob` rests on
`EmptyIsStars`: a pattern that matches the empty text has stars only and matches
every text.

It also proves what the pattern matcher computes, for every pattern and text.
`Reach` says that the first characters of a pattern make the first of the text;
`SplitIs` finds the parts in the pattern, and after each part the loop has the
shortest piece of text that the pattern reaches so far, or there is none
(`Leftmost`). From this follow `GlobIsSound`, that `glob` matches nothing it should
not, and `GlobIsExact`, that it matches everything it should where the pattern has no
star or ends in one: the shortest piece is as good as any when a star comes next, and
only at the end of the pattern it may be too short. So the disagreement that
`agent_glob` shows is of the only kind there is, and it has one direction:
`AllowListsAreDocumented` says that an allow list never lets through a key that its
documentation does not, and `EndingStarsAreDocumented` that lists whose patterns end
in a star, or have none, mean what they say. What is left is a key that a pattern such
as `*ab` misses: refused by an allow list, let through by a deny list.

`CheckProofs` proves `CheckTypes`, `ServicesRunOnTheirStore`, `SkipsAreRechecked`,
`SkipsAreBounded` and `StopsAreClean`. For the first of the safety results, the
invariant says of a view that a check has already passed, or whose PID it holds,
that it serves the version asked for or the service is being stopped: every change of
a view stops what is bound to it, and that closes the gap between the two reads and
between one view and the next. For the count, it says how `row` and `skips` differ
at each place of the check, and for the recheck, that from the arming of a timer or the
sight of one on, either it has yet to look or start the unit, or `missed` says that it
did not (`Awaited`).

`LaunchProofs` proves `LaunchTypes`, `MountsAreSingle`, `SignalsAreSingle`,
`BusesAreOwn` and `ClaimsCover`. For the mounts the invariant (`MountInv`) says what the
loop has done so far: every mount it has left behind is in `argv` or has an earlier one
of its destination there, `seen` has the destinations of `argv` and no others, and what
is left comes later in the plan's order than all of that. For the signals the invariant counts:
what podman has heard, and what is pending, in `EARLY` or taken out of it, was sent
that often, less what the terminal gave podman itself.

Only model-checked: the liveness properties (`InnerEnds`, `JoinAnswered`,
`GuardAnswered`, `Relayed`, `Answered`, `LooksAgain`), which are out of the proof
system's reach. Every other property of a passing run is a theorem.

## Not modelled

- *Container lifecycle and idle monitor* (`up`, `down`, `boot`, `switch`, `purge`,
  `ensure_running`, `__idle-monitor`). `SessionLifecycle` takes the container as
  running. Its steps take no common lock, so what could be said of it are
  counterexamples: the monitor reads the scopes and the activity mark, and a develop
  that has found the container running marks its activity after that; a monitor that
  is spawned while another one tears down finds the lock taken and ends
  (`dispatch.nix:113`), and the new container has none; `tear_down` stops and then
  removes by name (`session.nix:432-433`), and so removes a container that was made
  in between. It comes first in the plan.
- *Host store mounts*, a stack that is set up and undone in order, belong to it.
- *GC-root keeper*; units of one session are not told apart either, nor are sockets,
  X11, Wayland and wprs.
- *Reading a plan*: text, templates, variables. Straight-line code, folded into
  `Acquire`.
- *Prison configuration and firewall*, *command line, podman options, environment
  checks*, *packaging*: they write configuration or probe the host once, and have no
  state that a model would follow. *Tests* are not part of the program.

## Plan

1. *Container lifecycle*: the commands, the monitor and its mark, time as what is
   older than the timeout; abstract specification: the container runs while someone
   uses it. To be composed with the session through `ensure_running`; then the store
   mounts as a stack with partial failure.
2. *Session*: the GC-root keeper, which waits for a scope by a name no shell uses;
   sessions of `--git-serve`, whose TCP proxy no teardown stops (`forwarding.nix:179`).
3. *Prison*: what a unit mounts and which network it joins; a daemon-reload between a
   check and its own start.
4. *Launches together*: several `AppLaunch` over one `HolderLease`.
