----------------------------- MODULE LaunchProofs ---------------------------
(***************************************************************************)
(* The invariant of one launch and what follows from it, for any plan, any *)
(* host and any number of signals.                                         *)
(***************************************************************************)
EXTENDS LaunchProperties, TLAPS

Working == {"spawned", "stored", "forward", "wait", "reaped"}

\* A signal that has to be passed on is in one of four places.
Once(b) == IF b THEN 1 ELSE 0
Due(s) == Once(s \in pending) + Once(early = s) + Once(taken = s)
CountOf(s) ==
  IF MustForward(s) THEN heard[s] + Due(s) <= sent[s] ELSE heard[s] <= sent[s]
CountInv == \A s \in Signal : CountOf(s)

\* Where the proxy may still run, and its socket be.
ProxyInv ==
  /\ pc \in {"start", "bus", "proxy"} => proxy = "none" /\ socket # "own"
  /\ pc \in {"proxy", "await", "drop", "unlink"} => socket # "old"
  /\ pc = "unlink" => proxy = "dead"
  /\ pc \in {"resolve", "dedupe", "podman", "replaced"} \cup Working /\ ~ told =>
       proxy # "running" /\ socket # "own"
  /\ pc \in {"release", "ended"} => proxy # "running" /\ socket # "own"
  /\ pc = "replaced" => ~ told
  /\ told => socket # "old" /\ pc \notin {"start", "bus", "proxy", "await"}

\* Where podman may run, and what the claim is there.
ClaimInv ==
  /\ podman = "running" => pc \in (Working \ {"reaped"}) \cup {"replaced", "dead"}
  /\ pc = "start" => claim = "none"
  /\ leased /\ pc \notin {"start"} \cup Over => claim = "held"
  /\ pc = "replaced" => ~ leased
  /\ pc = "ended" => claim # "held"

\* What the loop over the mounts has done so far.  Those it has left behind come
\* before those it has not come to, and are mounted or have an earlier one of
\* their destination that is; `seen` is what it knows of them.
Placed(mounts) ==
  /\ mounts \subseteq Arg
  /\ \A m \in mounts : m.at \in Nat \X Nat
  /\ \A m, n \in mounts : m.at = n.at => m = n
MountInv ==
  /\ Placed(resolved)
  /\ rest \subseteq resolved /\ argv \subseteq resolved \ rest
  /\ \A m \in resolved \ rest, n \in rest : Before(m, n)
  /\ \A m \in argv : m.destination \in seen
  /\ \A d \in seen : \E m \in argv : m.destination = d
  /\ \A m, n \in argv : m.destination = n.destination => m = n
  /\ \A n \in resolved \ rest : \E m \in argv :
       m.destination = n.destination /\ (m = n \/ Before(m, n))

\* podman is there only once the loop has ended.
DoneInv ==
  /\ pc \in {"start", "bus", "proxy", "await", "resolve", "dedupe", "podman"}
       => podman = "none"
  /\ pc \in {"drop", "unlink"} /\ ~ told => podman = "none"
  /\ pc = "podman" \/ podman # "none" => rest = {}

LaunchInv == TypeOK /\ MountInv /\ DoneInv /\ CountInv /\ ProxyInv /\ ClaimInv

-----------------------------------------------------------------------------
(* The mounts.                                                             *)

\* What the rules come to are mounts, each at a place of its own.
LEMMA MountsArePlaced ==
  ASSUME NEW host \in [Path -> Kind]
  PROVE  Placed(Mounts(host))
<1>1. ASSUME NEW i \in DOMAIN Plan, NEW m \in Expanded(host, i)
      PROVE  \E p, q \in Path :
               /\ m = Mount(i, p, q)
               /\ Plan[i].rule = "mount" => p = q
               /\ Plan[i].rule # "mount" =>
                    p = Plan[i].source /\ q = Plan[i].destination
  <2>1. Plan[i] \in Rule
    BY LaunchAssumption
  <2>2. CASE Plan[i].rule = "mount"
    BY <1>1, <2>1, <2>2 DEF Expanded, Found, Rule
  <2>3. CASE Plan[i].rule = "own"
    BY <1>1, <2>1, <2>3 DEF Expanded, Rule
  <2>4. CASE Plan[i].rule = "mount-as"
    BY <1>1, <2>1, <2>4 DEF Expanded, Rule
  <2>. QED BY <2>1, <2>2, <2>3, <2>4 DEF Rule
<1>2. ASSUME NEW m \in Mounts(host)
      PROVE  \E i \in DOMAIN Plan : m \in Expanded(host, i)
  BY DEF Mounts
<1>3. ASSUME NEW m \in Mounts(host)
      PROVE  m \in Arg /\ m.at \in Nat \X Nat
  BY <1>1, <1>2, LaunchAssumption DEF Arg, Mount
<1>4. ASSUME NEW m \in Mounts(host), NEW n \in Mounts(host), m.at = n.at
      PROVE  m = n
  <2>1. PICK i \in DOMAIN Plan : m \in Expanded(host, i)
    BY <1>2
  <2>2. PICK j \in DOMAIN Plan : n \in Expanded(host, j)
    BY <1>2
  <2>3. PICK p, q \in Path :
          /\ m = Mount(i, p, q)
          /\ Plan[i].rule = "mount" => p = q
          /\ Plan[i].rule # "mount" =>
               p = Plan[i].source /\ q = Plan[i].destination
    BY <1>1, <2>1
  <2>4. PICK r, t \in Path :
          /\ n = Mount(j, r, t)
          /\ Plan[j].rule = "mount" => r = t
          /\ Plan[j].rule # "mount" =>
               r = Plan[j].source /\ t = Plan[j].destination
    BY <1>1, <2>2
  <2>5. i = j /\ p = r
    BY <1>4, <2>3, <2>4 DEF Mount
  <2>. QED BY <2>3, <2>4, <2>5
<1>. QED BY <1>3, <1>4 DEF Placed

\* An order of the mounts, for as long as no two of them have one place.
LEMMA BeforeOrders ==
  ASSUME NEW m, NEW n, NEW k,
         m.at \in Nat \X Nat, n.at \in Nat \X Nat, k.at \in Nat \X Nat
  PROVE  /\ Before(m, n) /\ Before(n, k) => Before(m, k)
         /\ ~ (Before(m, n) /\ Before(n, m))
BY DEF Before

\* A turn of the loop leaves one more mount behind.
LEMMA TurnKeeps ==
  ASSUME MountInv, NEW m \in rest, \A n \in rest \ {m} : Before(m, n),
         UNCHANGED resolved,
         rest' = rest \ {m}, seen' = seen \cup {m.destination}, argv' = Accepted(m)
  PROVE  MountInv'
<1>1. /\ m \in resolved /\ m \notin argv
      /\ \A k \in argv : k \in resolved \ rest /\ Before(k, m)
  BY DEF MountInv
<1>2. \A n \in resolved : n \in resolved' \ rest' <=> n \in resolved \ rest \/ n = m
  BY <1>1
<1>3. Placed(resolved)' /\ rest' \subseteq resolved'
  BY DEF MountInv, Placed, Arg, Mount
<1>4. \A k \in resolved' \ rest', n \in rest' : Before(k, n)'
  BY <1>2 DEF MountInv, Before
<1>5. CASE m.destination \in seen
  <2>1. argv' = argv /\ seen' = seen
    BY <1>5 DEF Accepted
  <2>2. \E k \in argv : k.destination = m.destination /\ Before(k, m)
    BY <1>1, <1>5 DEF MountInv
  <2>3. \A n \in resolved' \ rest' : \E k \in argv' :
          k.destination = n.destination /\ (k = n \/ Before(k, n))
    BY <1>2, <2>1, <2>2 DEF MountInv
  <2>4. argv' \subseteq resolved' \ rest'
    BY <1>1, <2>1
  <2>. QED BY <1>3, <1>4, <2>1, <2>3, <2>4 DEF MountInv, Before
<1>6. CASE m.destination \notin seen
  <2>1. argv' = argv \cup {m}
    BY <1>6 DEF Accepted
  <2>2. \A k \in argv : k.destination # m.destination
    BY <1>6 DEF MountInv
  <2>3. \A n \in resolved' \ rest' : \E k \in argv' :
          k.destination = n.destination /\ (k = n \/ Before(k, n))
    BY <1>2, <2>1 DEF MountInv
  <2>4. argv' \subseteq resolved' \ rest'
    BY <1>1, <2>1
  <2>5. /\ \A k \in argv' : k.destination \in seen'
        /\ \A d \in seen' : \E k \in argv' : k.destination = d
    BY <2>1 DEF MountInv
  <2>6. \A k, n \in argv' : k.destination = n.destination => k = n
    BY <2>1, <2>2 DEF MountInv
  <2>. QED BY <1>3, <1>4, <2>3, <2>4, <2>5, <2>6 DEF MountInv, Before
<1>. QED BY <1>5, <1>6

-----------------------------------------------------------------------------
(* The invariant.                                                          *)

LEMMA LaunchStarts == Init => LaunchInv
<1>. SUFFICES ASSUME Init PROVE LaunchInv
  OBVIOUS
<1>1. TypeOK
  <2>1. 0 \in 0 .. Len(Order)
    BY DEF Order
  <2>. QED BY <2>1 DEF Init, TypeOK
<1>2. MountInv /\ DoneInv /\ ProxyInv /\ ClaimInv
  BY DEF Init, MountInv, Placed, DoneInv, ProxyInv, ClaimInv, Working, Over
<1>3. CountInv
  BY DEF Init, CountInv, CountOf, Due, Once, Signal, NoSignal
<1>. QED BY <1>1, <1>2, <1>3 DEF LaunchInv

\* What the mounts are at every step.
LEMMA MountsStay ==
  ASSUME TypeOK, MountInv, [Next]_vars
  PROVE  MountInv'
<1>1. ASSUME UNCHANGED mountVars PROVE MountInv'
  BY <1>1 DEF mountVars, MountInv, Placed, Before, Arg, Mount
<1>2. CASE Resolve
  <2>1. ASSUME NEW host \in [Path -> Kind],
               resolved' = Mounts(host), rest' = Mounts(host), seen' = {}, argv' = {}
        PROVE  MountInv'
    <3>1. Placed(resolved)'
      BY <2>1, MountsArePlaced DEF Placed, Arg, Mount
    <3>. QED BY <2>1, <3>1 DEF MountInv
  <2>. QED BY <1>1, <1>2, <2>1 DEF Resolve
<1>3. CASE DropDuplicateMount
  BY <1>1, <1>3, TurnKeeps DEF DropDuplicateMount
<1>4. CASE Acquire \/ Bus \/ Exec \/ Supervise \/ Release
  BY <1>1, <1>4 DEF Acquire, Bus, Exec, Supervise, Release
<1>5. ASSUME NEW s \in Signal, Deliver(s) \/ Send(s) PROVE MountInv'
  BY <1>1, <1>5 DEF Deliver, Send
<1>6. CASE Kill \/ PodmanEnds \/ ProxyListens \/ ProxyEnds \/ UNCHANGED vars
  BY <1>1, <1>6 DEF Kill, PodmanEnds, ProxyListens, ProxyEnds, vars
<1>. QED BY <1>2, <1>3, <1>4, <1>5, <1>6 DEF Next, Runner

LEMMA DoneStays ==
  ASSUME TypeOK, DoneInv, ProxyInv, ClaimInv, [Next]_vars
  PROVE  DoneInv'
<1>. USE DEF TypeOK, DoneInv, ProxyInv, ClaimInv, Working, Over, At, Goto,
         given, signalVars, mountVars, busVars, countVars
<1>1. CASE Acquire
  BY <1>1 DEF Acquire
<1>2. CASE Bus
  <2>. USE <1>2 DEF Bus
  <2>1. CASE NoBus \/ ClearSocket \/ BusFails \/ SpawnProxy
    BY <2>1 DEF NoBus, ClearSocket, BusFails, SpawnProxy
  <2>2. CASE BusIsUp \/ GiveUp \/ DropProxy
    BY <2>2 DEF BusIsUp, GiveUp, DropProxy
  <2>3. CASE Unlink
    BY <2>3 DEF Unlink
  <2>. QED BY <2>1, <2>2, <2>3
<1>3. CASE Resolve \/ DropDuplicateMount
  BY <1>3 DEF Resolve, DropDuplicateMount, End
<1>4. CASE Exec
  BY <1>4 DEF Exec
<1>5. CASE Supervise
  BY <1>5 DEF Supervise, InstallHandler, SpawnPodman, StoreChild, SwapEarly,
              ForwardEarly, Wait, ForgetChild, End
<1>6. CASE Release
  BY <1>6 DEF Release
<1>7. ASSUME NEW s \in Signal, Deliver(s)
      PROVE  DoneInv'
  BY <1>7 DEF Deliver, Relay, Die
<1>8. ASSUME NEW s \in Signal, Send(s)
      PROVE  DoneInv'
  BY <1>8 DEF Send
<1>9. CASE Kill
  BY <1>9 DEF Kill, Die
<1>10. CASE PodmanEnds \/ ProxyListens \/ ProxyEnds
  BY <1>10 DEF PodmanEnds, ProxyListens, ProxyEnds
<1>11. CASE UNCHANGED vars
  BY <1>11 DEF vars
<1>. QED BY <1>1, <1>2, <1>3, <1>4, <1>5, <1>6, <1>7, <1>8, <1>9, <1>10, <1>11
         DEF Next, Runner

\* Passing a signal on counts it.
LEMMA TellsSignals ==
  ASSUME TypeOK, NEW s \in Signal, Tell(s)
  PROVE  heard' \in [Signal -> Nat]
BY DEF TypeOK, Tell

LEMMA TypesStay ==
  ASSUME TypeOK, MountInv, [Next]_vars
  PROVE  TypeOK'
<1>. USE DEF TypeOK, Over, At, Goto, given, signalVars, mountVars, busVars, countVars
<1>1. CASE Acquire
  BY <1>1 DEF Acquire
<1>2. CASE Bus
  <2>. USE <1>2 DEF Bus
  <2>2. CASE NoBus \/ ClearSocket \/ BusFails \/ SpawnProxy
    BY <2>2 DEF NoBus, ClearSocket, BusFails, SpawnProxy
  <2>3. CASE BusIsUp
    BY <2>3 DEF BusIsUp
  <2>4. CASE GiveUp
    BY <2>4 DEF GiveUp
  <2>5. CASE DropProxy
    BY <2>5 DEF DropProxy
  <2>6. CASE Unlink
    BY <2>6 DEF Unlink
  <2>. QED BY <2>2, <2>3, <2>4, <2>5, <2>6
<1>3. CASE Resolve
  <2>1. ASSUME NEW host \in [Path -> Kind] PROVE Mounts(host) \subseteq Arg
    BY <2>1, MountsArePlaced DEF Placed
  <2>. QED BY <1>3, <2>1 DEF Resolve, End
<1>12. CASE DropDuplicateMount
  <2>1. \A m \in rest : m.destination \in Path
    BY DEF Arg, Mount
  <2>2. \A m \in rest : Accepted(m) \subseteq Arg
    BY DEF Accepted
  <2>. QED BY <1>12, <2>1, <2>2 DEF DropDuplicateMount
<1>4. CASE Exec
  BY <1>4 DEF Exec
<1>5. CASE Supervise
  <2>. USE <1>5 DEF Supervise
  <2>2. CASE InstallHandler
    <3>1. handled' \in 0 .. Len(Order)
      BY <2>2 DEF InstallHandler, Order
    <3>. QED BY <2>2, <3>1 DEF InstallHandler
  <2>3. CASE SpawnPodman
    BY <2>3 DEF SpawnPodman, End
  <2>4. CASE StoreChild
    BY <2>4 DEF StoreChild
  <2>5. CASE SwapEarly
    BY <2>5 DEF SwapEarly
  <2>6. CASE Wait
    BY <2>6 DEF Wait
  <2>7. CASE ForgetChild
    BY <2>7, ZenonT(60) DEF ForgetChild, End
  <2>8. CASE ForwardEarly
    <3>1. heard' \in [Signal -> Nat]
      BY <2>8, TellsSignals DEF ForwardEarly
    <3>. QED BY <2>8, <3>1 DEF ForwardEarly
  <2>. QED BY <2>2, <2>3, <2>4, <2>5, <2>6, <2>7, <2>8
<1>6. CASE Release
  BY <1>6 DEF Release
<1>7. ASSUME NEW s \in Signal, Deliver(s)
      PROVE  TypeOK'
  BY <1>7, TellsSignals, SMTT(30) DEF Deliver, Relay, Die
<1>8. ASSUME NEW s \in Signal, Send(s)
      PROVE  TypeOK'
  BY <1>8 DEF Send, SendRunner, SendGroup
<1>9. CASE Kill
  BY <1>9 DEF Kill, Die
<1>10. CASE PodmanEnds \/ ProxyListens \/ ProxyEnds
  BY <1>10 DEF PodmanEnds, ProxyListens, ProxyEnds
<1>11. CASE UNCHANGED vars
  BY <1>11 DEF vars
<1>. QED BY <1>1, <1>2, <1>3, <1>4, <1>5, <1>6, <1>7, <1>8, <1>9, <1>10, <1>11, <1>12
         DEF Next, Runner

LEMMA CountsStay ==
  ASSUME TypeOK, CountInv, [Next]_vars
  PROVE  CountInv'
<1>. SUFFICES ASSUME NEW t \in Signal PROVE CountOf(t)'
  BY DEF CountInv
<1>0. CountOf(t)
  BY DEF CountInv
<1>. USE <1>0 DEF TypeOK, CountOf, Due, Once, MustForward,
         given, signalVars, mountVars, busVars, countVars
<1>1. CASE \/ Acquire \/ Bus \/ Resolve \/ DropDuplicateMount
           \/ Exec \/ Release
  BY <1>1 DEF Acquire, Bus, Resolve, DropDuplicateMount, Exec, Release
<1>2. CASE Supervise
  <2>. USE <1>2 DEF Supervise
  <2>1. CASE InstallHandler \/ SpawnPodman \/ StoreChild \/ Wait \/ ForgetChild
    BY <2>1 DEF InstallHandler, SpawnPodman, StoreChild, Wait, ForgetChild
  <2>2. CASE SwapEarly
    BY <2>2, SMTT(30) DEF SwapEarly, NoSignal, Signal
  <2>3. CASE ForwardEarly
    <3>. HIDE DEF CountOf, Due, Once, MustForward
    <3>1. /\ UNCHANGED <<foreground, pending, early, sent>>
          /\ taken' = NoSignal
      BY <2>3 DEF ForwardEarly
    <3>2. taken' # t
      BY <3>1 DEF NoSignal, Signal
    <3>3. MustForward(t)' = MustForward(t)
      BY <3>1 DEF MustForward
    <3>4. heard[t] \in Nat /\ sent[t] \in Nat
      OBVIOUS
    <3>5. CASE taken = t
      <4>1. \/ heard'[t] = heard[t]
            \/ MustForward(t) /\ heard'[t] = heard[t] + 1
        BY <2>3, <3>5 DEF ForwardEarly, Tell
      <4>. QED BY <3>1, <3>2, <3>3, <3>4, <3>5, <4>1 DEF CountOf, Due, Once
    <3>6. CASE taken # t
      <4>1. heard'[t] = heard[t]
        BY <2>3, <3>6 DEF ForwardEarly, Tell
      <4>. QED BY <3>1, <3>2, <3>3, <3>4, <3>6, <4>1 DEF CountOf, Due, Once
    <3>. QED BY <3>5, <3>6
  <2>. QED BY <2>1, <2>2, <2>3
<1>3. ASSUME NEW s \in Signal, Deliver(s)
      PROVE  CountOf(t)'
  <2>. HIDE DEF CountOf, Due, Once, MustForward
  <2>1. /\ UNCHANGED <<foreground, taken, sent>>
        /\ s \in pending /\ pending' = pending \ {s}
    BY <1>3 DEF Deliver
  <2>2. MustForward(t)' = MustForward(t)
    BY <2>1 DEF MustForward
  <2>3. heard[t] \in Nat /\ sent[t] \in Nat
    OBVIOUS
  <2>4. \/ heard'[t] = heard[t] /\ early' = early
        \/ /\ s = t /\ MustForward(t) /\ early' = early
           /\ heard'[t] = heard[t] + 1
        \/ heard'[t] = heard[t] /\ early' = s
    BY <1>3 DEF Deliver, Relay, Tell, Die
  <2>5. CASE s = t
    BY <2>1, <2>2, <2>3, <2>4, <2>5 DEF CountOf, Due, Once
  <2>6. CASE s # t
    BY <2>1, <2>2, <2>3, <2>4, <2>6 DEF CountOf, Due, Once
  <2>. QED BY <2>5, <2>6
<1>4. ASSUME NEW s \in Signal, Send(s)
      PROVE  CountOf(t)'
  <2>. HIDE DEF CountOf, Due, Once, MustForward
  <2>1. /\ UNCHANGED <<foreground, early, taken>>
        /\ pending' = pending \cup {s}
    BY <1>4 DEF Send, SendRunner, SendGroup
  <2>2. MustForward(t)' = MustForward(t)
    BY <2>1 DEF MustForward
  <2>3. heard[t] \in Nat /\ sent[t] \in Nat
    OBVIOUS
  <2>4. CASE s = t
    <3>1. /\ sent'[t] = sent[t] + 1
          /\ \/ heard'[t] = heard[t]
             \/ ~ MustForward(t) /\ heard'[t] = heard[t] + 1
      BY <1>4, <2>4 DEF Send, SendRunner, SendGroup, MustForward
    <3>. QED BY <2>1, <2>2, <2>3, <2>4, <3>1 DEF CountOf, Due, Once
  <2>5. CASE s # t
    <3>1. sent'[t] = sent[t] /\ heard'[t] = heard[t]
      BY <1>4, <2>5 DEF Send, SendRunner, SendGroup
    <3>. QED BY <2>1, <2>2, <2>3, <2>5, <3>1 DEF CountOf, Due, Once
  <2>. QED BY <2>4, <2>5
<1>5. CASE Kill \/ PodmanEnds \/ ProxyListens \/ ProxyEnds
  BY <1>5 DEF Kill, Die, PodmanEnds, ProxyListens, ProxyEnds
<1>6. CASE UNCHANGED vars
  BY <1>6 DEF vars
<1>. QED BY <1>1, <1>2, <1>3, <1>4, <1>5, <1>6 DEF Next, Runner

LEMMA ProxyStays ==
  ASSUME TypeOK, ProxyInv, [Next]_vars
  PROVE  ProxyInv'
<1>. USE DEF TypeOK, ProxyInv, Working, Over, At, Goto,
         given, signalVars, mountVars, busVars, countVars
<1>1. CASE Acquire
  BY <1>1 DEF Acquire
<1>2. CASE Bus
  <2>. USE <1>2 DEF Bus
  <2>1. CASE NoBus \/ ClearSocket \/ BusFails \/ SpawnProxy
    BY <2>1 DEF NoBus, ClearSocket, BusFails, SpawnProxy
  <2>2. CASE BusIsUp \/ GiveUp \/ DropProxy
    BY <2>2 DEF BusIsUp, GiveUp, DropProxy
  <2>3. CASE Unlink
    BY <2>3 DEF Unlink
  <2>. QED BY <2>1, <2>2, <2>3
<1>3. CASE Resolve \/ DropDuplicateMount
  BY <1>3 DEF Resolve, DropDuplicateMount, End
<1>4. CASE Exec
  BY <1>4 DEF Exec, CleansUp
<1>5. CASE Supervise
  BY <1>5 DEF Supervise, InstallHandler, SpawnPodman, StoreChild, SwapEarly,
              ForwardEarly, Wait, ForgetChild, End
<1>6. CASE Release
  BY <1>6 DEF Release
<1>7. ASSUME NEW s \in Signal, Deliver(s)
      PROVE  ProxyInv'
  BY <1>7 DEF Deliver, Relay, Die
<1>8. ASSUME NEW s \in Signal, Send(s)
      PROVE  ProxyInv'
  BY <1>8 DEF Send
<1>9. CASE Kill
  BY <1>9 DEF Kill, Die
<1>10. CASE PodmanEnds \/ ProxyListens \/ ProxyEnds
  BY <1>10 DEF PodmanEnds, ProxyListens, ProxyEnds
<1>11. CASE UNCHANGED vars
  BY <1>11 DEF vars
<1>. QED BY <1>1, <1>2, <1>3, <1>4, <1>5, <1>6, <1>7, <1>8, <1>9, <1>10, <1>11
         DEF Next, Runner

LEMMA ClaimStays ==
  ASSUME TypeOK, ClaimInv, [Next]_vars
  PROVE  ClaimInv'
<1>. USE DEF TypeOK, ClaimInv, Working, Over, At, Goto,
         given, signalVars, mountVars, busVars, countVars
<1>1. CASE Acquire
  BY <1>1 DEF Acquire
<1>2. CASE Bus
  BY <1>2 DEF Bus, NoBus, ClearSocket, BusFails, SpawnProxy, BusIsUp, GiveUp,
              DropProxy, Unlink
<1>3. CASE Resolve \/ DropDuplicateMount
  BY <1>3 DEF Resolve, DropDuplicateMount, End
<1>4. CASE Exec
  BY <1>4 DEF Exec, CleansUp
<1>5. CASE Supervise
  BY <1>5 DEF Supervise, InstallHandler, SpawnPodman, StoreChild, SwapEarly,
              ForwardEarly, Wait, ForgetChild, End
<1>6. CASE Release
  BY <1>6 DEF Release
<1>7. ASSUME NEW s \in Signal, Deliver(s)
      PROVE  ClaimInv'
  BY <1>7 DEF Deliver, Relay, Die
<1>8. ASSUME NEW s \in Signal, Send(s)
      PROVE  ClaimInv'
  BY <1>8 DEF Send
<1>9. CASE Kill
  BY <1>9 DEF Kill, Die
<1>10. CASE PodmanEnds \/ ProxyListens \/ ProxyEnds
  BY <1>10 DEF PodmanEnds, ProxyListens, ProxyEnds
<1>11. CASE UNCHANGED vars
  BY <1>11 DEF vars
<1>. QED BY <1>1, <1>2, <1>3, <1>4, <1>5, <1>6, <1>7, <1>8, <1>9, <1>10, <1>11
         DEF Next, Runner

LEMMA LaunchInvariant == Spec => []LaunchInv
<1>1. LaunchInv /\ [Next]_vars => LaunchInv'
  BY TypesStay, MountsStay, DoneStays, CountsStay, ProxyStays, ClaimStays DEF LaunchInv
<1>. QED BY LaunchStarts, <1>1, PTL DEF Spec

-----------------------------------------------------------------------------

\* The state of a launch stays well-formed.
THEOREM LaunchTypes == Spec => []TypeOK
<1>1. LaunchInv => TypeOK
  BY DEF LaunchInv
<1>. QED BY <1>1, LaunchInvariant, PTL

\* Whatever the plan's rules find on the host, podman has for each destination
\* one mount, the first in the plan's order.
THEOREM MountsAreSingle == Spec => []MountedOnce
<1>1. LaunchInv => MountedOnce
  BY DEF LaunchInv, MountInv, DoneInv, MountedOnce
<1>. QED BY <1>1, LaunchInvariant, PTL

\* However many signals are sent, and whenever, the app gets none twice.
THEOREM SignalsAreSingle == Spec => []NotTwice
<1>1. LaunchInv => NotTwice
  BY DEF LaunchInv, TypeOK, CountInv, CountOf, Due, Once, NotTwice
<1>. QED BY <1>1, LaunchInvariant, PTL

\* The bus an app is told of is the one its own proxy serves, and a launch that
\* is over has left no connection to it.
THEOREM BusesAreOwn == Spec => []BusIsOwn
<1>1. LaunchInv => BusIsOwn
  BY DEF LaunchInv, ProxyInv, BusIsOwn, Over
<1>. QED BY <1>1, LaunchInvariant, PTL

\* podman never runs without its runner's claim, and no claim is kept.
THEOREM ClaimsCover == Spec => []ClaimCovers
<1>1. LaunchInv => ClaimCovers
  BY DEF LaunchInv, TypeOK, ClaimInv, ClaimCovers, Working, Over
<1>. QED BY <1>1, LaunchInvariant, PTL
=============================================================================
