-------------------------- MODULE AgentProperties ---------------------------
(***************************************************************************)
(* What ssh-agent-filter promises its owner and its clients.               *)
(***************************************************************************)
EXTENDS AgentFilter

Request ==
  [kind : {0} \cup Kind, blob : {{}} \cup {{b} : b \in Blob}]

Answer ==
  {NoAnswer, Failure, Other} \cup {Signature(b) : b \in Blob}
    \cup {Identities(ids) : ids \in SUBSET Identity}

\* The type invariant.  A thread that waits for the agent's list has a
\* signature to make (lib.rs:40-51), and a new connection knows nothing of
\* what an earlier one was told (lib.rs:27).
TypeOK ==
  /\ keys \subseteq Identity /\ had \subseteq Identity
  /\ locked \in BOOLEAN /\ up \in BOOLEAN
  /\ policy.mode \in {"PassAll", "Allow", "Deny"}
  /\ phase \in [Client -> {"closed", "read", "fetch", "forward"}]
  /\ request \in [Client -> Request]
  /\ known \in [Client -> SUBSET Identity]
  /\ asked \in [Client -> BOOLEAN]
  /\ answer \in [Client -> Answer]
  /\ \A c \in Client :
       /\ phase[c] = "fetch" => request[c].kind = SignRequest
       /\ phase[c] = "closed" => known[c] = {}

\* What a client does through the filter changes nothing of the agent,
\* whatever it sends and whatever the policy is (proto.rs:16-31): only the
\* owner adds, removes or locks.
ReadOnlyAgent == [][connVars' # connVars => UNCHANGED agentVars]_vars

Signs(c, b) == Is(c, "forward") /\ phase'[c] = "read" /\ answer'[c] = Signature(b)

\* A signature is made only with a key that the policy permits under a
\* comment the agent really gave it (lib.rs:40-66), however stale the list
\* the thread has is.  The one way around is a deny list's: when the filter
\* has asked, and the agent's answer did not name the key, the key is judged
\* by the empty comment (policy.rs:186-194).
SignedAsPermitted ==
  [][\A c \in Client, b \in Blob : Signs(c, b) =>
       \/ \E m \in Comment \cup {NoComment} : <<b, m>> \in had /\ Permits(b, m)
       \/ policy.mode = "Deny" /\ asked[c] /\ ~ Named(b, known[c])]_vars

ShowsKeys(c) == Is(c, "forward") /\ phase'[c] = "read" /\ answer'[c].type = "identities"

\* A client that lists the keys is shown the permitted ones among those the
\* agent has at that moment, every one and no other, and the thread then
\* knows the comments of all of them, the hidden ones included
\* (lib.rs:73-103).
ListsExactlyPermitted ==
  [][\A c \in Client : ShowsKeys(c) =>
       /\ answer'[c].ids = Permitted(Shown)
       /\ known'[c] = Shown]_vars

\* Every request that was read is answered, or the connection is closed
\* (lib.rs:29-107), as long as the agent answers or hangs up.
Answered ==
  \A c \in Client : phase[c] \in {"fetch", "forward"} ~> phase[c] \in {"read", "closed"}

\* What policy.rs:105 ("`*` matches any run, including empty") says that a
\* list names: some runs for the stars of a spec make the comment.
NamedAsDocumented(blob, comment) ==
  \E s \in policy.specs :
    \/ s = Fingerprint(blob)
    \/ <<"SHA256:">> \o s = Fingerprint(blob)
    \/ GlobMeans(s, comment)

\* So a key the agent has is matched by the list exactly when that is so.
PolicyAsDocumented ==
  \A id \in keys : Matches(id[1], id[2]) <=> NamedAsDocumented(id[1], id[2])
=============================================================================
