----------------------------- MODULE AgentFilter ----------------------------
(***************************************************************************)
(* ssh-agent-filter: a proxy between clients and an ssh-agent that shows   *)
(* and uses only the keys a policy permits.  Every connection has a thread *)
(* and an upstream connection of its own; the owner of the agent adds,     *)
(* renames, removes and locks keys whenever he likes.                      *)
(***************************************************************************)
EXTENDS Globs, FiniteSets

CONSTANTS
  Client,   \* who connects
  Blob,     \* keys
  Comment,  \* the comments a key may have, texts
  Lists,    \* the pairs of lists the filter may be started with
  Kind,     \* the message types clients send
  AllowExtensions

NoComment == <<>>
Identity == Blob \X (Comment \cup {NoComment})

(* The specs of an allow list are matched against the empty comment when   *)
(* the comment is not known: none of them is empty.                        *)
ASSUME AgentAssumption ==
  /\ Kind \subseteq Nat
  /\ AllowExtensions \in BOOLEAN
  /\ \A m \in Comment : IsText(m)
  /\ \A lists \in Lists :
       /\ \A s \in lists.allow \cup lists.deny : IsText(s)
       /\ NoComment \notin lists.allow

RequestIdentities == 11
SignRequest == 13
Extension == 27

\* Mutant of IsMutating: a smartcard with constraints is forgotten.
IsMostlyMutating(kind) == kind \in {17, 25, 18, 19, 20, 21, 22, 23}

IsMutating(kind) == kind \in {17, 25, 18, 19, 20, 21, 26, 22, 23}

VARIABLES
  keys,      \* the agent's: a set of identities, one per blob
  locked,    \* is the agent locked?
  had,       \* every identity the agent ever had
  up,        \* does the filter run?
  policy,    \* what it was last started with
  phase,     \* where a client's thread is; "closed" when there is none
  request,   \* the request it is at
  known,     \* what it was last told the agent has
  asked,     \* did it ask for itself, for this request?
  answer     \* the last answer the client got

agentVars == <<keys, locked, had>>
connVars == <<phase, request, known, asked, answer>>
vars == <<agentVars, up, policy, connVars>>

NoRequest == [kind |-> 0, blob |-> {}]
NoAnswer == [type |-> "none"]
Failure == [type |-> "failure"]
Other == [type |-> "other"]
Signature(b) == [type |-> "signature", blob |-> b]
Identities(ids) == [type |-> "identities", ids |-> ids]

-----------------------------------------------------------------------------
(* The policy.                                                             *)

\* One text per blob, as `ssh-add -l` prints it.
Fingerprint(blob) == <<"SHA256:", blob>>

\* Both lists at once are an error, and the filter does not start.
Startable(lists) == lists.allow = {} \/ lists.deny = {}

Policy(lists) ==
  [mode |-> IF lists.allow # {} THEN "Allow"
            ELSE IF lists.deny # {} THEN "Deny" ELSE "PassAll",
   specs |-> lists.allow \cup lists.deny]

Matches(blob, comment) ==
  \E s \in policy.specs :
    \/ s = Fingerprint(blob)
    \/ <<"SHA256:">> \o s = Fingerprint(blob)
    \/ Star \in {s[i] : i \in DOMAIN s} /\ Glob(s, comment)
    \/ s = comment

Permits(blob, comment) ==
  \/ policy.mode = "PassAll"
  \/ policy.mode = "Allow" /\ Matches(blob, comment)
  \/ policy.mode = "Deny" /\ ~ Matches(blob, comment)

Permitted(ids) == {id \in ids : Permits(id[1], id[2])}

Named(blob, ids) == \E id \in ids : id[1] = blob

\* A blob that was never listed is judged by the empty comment.
CommentOf(blob, ids) ==
  IF Named(blob, ids) THEN (CHOOSE id \in ids : id[1] = blob)[2] ELSE NoComment

PermitsBlob(blob, ids) == Permits(blob, CommentOf(blob, ids))

-----------------------------------------------------------------------------
(* The agent's answers say how many identities they have; one that is cut  *)
(* short has fewer.                                                        *)

BuildIdentities(ids) == [count |-> Cardinality(ids), ids |-> ids]

ParseIdentities(payload) ==
  IF payload.count > Cardinality(payload.ids) THEN {} ELSE {payload.ids}

\* A locked agent has nothing to show.
Shown == IF locked THEN {} ELSE keys

Answers ==
  LET whole == BuildIdentities(Shown)
  IN  {whole} \cup {[whole EXCEPT !.ids = @ \ {id}] : id \in Shown}

-----------------------------------------------------------------------------
(* A connection.                                                           *)

Is(c, p) == phase[c] = p

\* What a thread holds for one request is gone when it is answered.
Between(c, p) ==
  /\ phase' = [phase EXCEPT ![c] = p]
  /\ request' = [request EXCEPT ![c] = NoRequest]
  /\ asked' = [asked EXCEPT ![c] = FALSE]

Reply(c, a) ==
  /\ Between(c, "read")
  /\ answer' = [answer EXCEPT ![c] = a]

\* Mutant of Close: what was known outlives the connection.
CloseKeepsKnown(c) ==
  /\ Between(c, "closed")
  /\ answer' = [answer EXCEPT ![c] = NoAnswer]
  /\ UNCHANGED known

Close(c) ==
  /\ Between(c, "closed")
  /\ known' = [known EXCEPT ![c] = {}]
  /\ answer' = [answer EXCEPT ![c] = NoAnswer]

Asks(c, p, kind, blob) ==
  /\ phase' = [phase EXCEPT ![c] = p]
  /\ request' = [request EXCEPT ![c] = [kind |-> kind, blob |-> blob]]
  /\ UNCHANGED <<answer, asked>>

\* A connection whose upstream cannot be reached ends at once.
Connect(c) ==
  /\ up
  /\ Is(c, "closed")
  /\ phase' = [phase EXCEPT ![c] = "read"]
  /\ UNCHANGED <<agentVars, up, policy, request, known, asked, answer>>

\* Refused whatever the policy is.
Refused(kind) == IsMutating(kind) \/ (kind = Extension /\ ~ AllowExtensions)

\* Mutant of NeedsListing: judges a blob without asking for its comment.
NeedsNoListing(c, blob) == FALSE

\* The filter asks for the comment of a blob it was never told of.
NeedsListing(c, blob) == ~ Named(blob, known[c])

\* A message of the client, whose blob is {} when it has none that parses.
Read(c, kind, blob) ==
  /\ Is(c, "read")
  /\ \/ /\ Refused(kind) \/ (kind = SignRequest /\ blob = {})
        /\ Reply(c, Failure)
     \/ /\ ~ Refused(kind) /\ kind # SignRequest
        /\ Asks(c, "forward", kind, blob)
     \/ /\ ~ Refused(kind) /\ kind = SignRequest
        /\ \E b \in blob :
             \/ NeedsListing(c, b) /\ Asks(c, "fetch", kind, blob)
             \/ /\ ~ NeedsListing(c, b)
                /\ IF PermitsBlob(b, known[c]) THEN Asks(c, "forward", kind, blob)
                   ELSE Reply(c, Failure)
  /\ UNCHANGED <<agentVars, up, policy, known>>

\* The client hangs up, or sends a length no message has.
HangUp(c) ==
  /\ Is(c, "read")
  /\ Close(c)
  /\ UNCHANGED <<agentVars, up, policy>>

\* What fetch_identities makes of the agent: nothing, when the answer does
\* not parse or is none.
Heard == {{}} \cup UNION {ParseIdentities(p) : p \in Answers}

\* Mutant of Fetch: asks until the blob is named.
FetchUntilNamed(c) ==
  /\ Is(c, "fetch")
  /\ \E b \in request[c].blob, ids \in Heard :
       /\ known' = [known EXCEPT ![c] = ids]
       /\ \/ ~ Named(b, ids) /\ UNCHANGED <<phase, request, asked, answer>>
          \/ /\ Named(b, ids) /\ PermitsBlob(b, ids)
             /\ phase' = [phase EXCEPT ![c] = "forward"]
             /\ asked' = [asked EXCEPT ![c] = TRUE]
             /\ UNCHANGED <<request, answer>>
          \/ Named(b, ids) /\ ~ PermitsBlob(b, ids) /\ Reply(c, Failure)
  /\ UNCHANGED <<agentVars, up, policy>>

Fetch(c) ==
  /\ Is(c, "fetch")
  /\ \E b \in request[c].blob, ids \in Heard :
       /\ known' = [known EXCEPT ![c] = ids]
       /\ IF PermitsBlob(b, ids)
          THEN /\ phase' = [phase EXCEPT ![c] = "forward"]
               /\ asked' = [asked EXCEPT ![c] = TRUE]
               /\ UNCHANGED <<request, answer>>
          ELSE Reply(c, Failure)
  /\ UNCHANGED <<agentVars, up, policy>>

\* Mutant of Listed: filters by what was known before.
ListedByOld(c, payload) ==
  \/ /\ ParseIdentities(payload) = {}
     /\ Reply(c, Failure)
     /\ UNCHANGED known
  \/ \E ids \in ParseIdentities(payload) :
       /\ Reply(c, Identities({id \in ids : PermitsBlob(id[1], known[c])}))
       /\ known' = [known EXCEPT ![c] = ids]

\* The filter's answer to a list of identities; known is what was there
\* before the filtering.
Listed(c, payload) ==
  \/ /\ ParseIdentities(payload) = {}
     /\ Reply(c, Failure)
     /\ UNCHANGED known
  \/ \E ids \in ParseIdentities(payload) :
       /\ Reply(c, Identities(Permitted(ids)))
       /\ known' = [known EXCEPT ![c] = ids]

\* What an agent does with a message of a kind that changes it.
Without(b) == {id \in keys : id[1] # b}

AgentTakes(kind) ==
  /\ \/ /\ kind \in {17, 25, 20, 26}
        /\ \E b \in Blob, m \in Comment : keys' = Without(b) \cup {<<b, m>>}
        /\ UNCHANGED locked
     \/ /\ kind \in {18, 19, 21}
        /\ keys' \in {{}} \cup {Without(b) : b \in Blob}
        /\ UNCHANGED locked
     \/ /\ kind \in {22, 23}
        /\ locked' = (kind = 22)
        /\ UNCHANGED keys
  /\ had' = had \cup keys'

\* The request goes to the agent as it is, and its answer to the client.
Forward(c) ==
  /\ Is(c, "forward")
  /\ \/ /\ request[c].kind = RequestIdentities
        /\ \E p \in Answers : Listed(c, p)
        /\ UNCHANGED agentVars
     \/ /\ request[c].kind = SignRequest
        /\ \E b \in request[c].blob : Named(b, Shown) /\ Reply(c, Signature(b))
        /\ UNCHANGED <<agentVars, known>>
     \/ /\ AgentTakes(request[c].kind) \/ UNCHANGED agentVars
        /\ Reply(c, Other) \/ Reply(c, Failure)
        /\ UNCHANGED known
  /\ UNCHANGED <<up, policy>>

\* The agent closes the connection, and so does the filter.
Abandon(c) ==
  /\ Is(c, "forward")
  /\ Close(c)
  /\ UNCHANGED <<agentVars, up, policy>>

-----------------------------------------------------------------------------
(* The filter's process, and the agent's owner.                            *)

\* Its socket may be there from an earlier run: it is replaced.
Start(lists) ==
  /\ ~ up
  /\ Startable(lists)
  /\ up' = TRUE
  /\ policy' = Policy(lists)
  /\ UNCHANGED <<agentVars, connVars>>

Fresh ==
  /\ phase' = [c \in Client |-> "closed"]
  /\ request' = [c \in Client |-> NoRequest]
  /\ known' = [c \in Client |-> {}]
  /\ asked' = [c \in Client |-> FALSE]
  /\ answer' = [c \in Client |-> NoAnswer]

\* The process is killed, and every thread with it.
Stop ==
  /\ up
  /\ up' = FALSE
  /\ Fresh
  /\ UNCHANGED <<agentVars, policy>>

Own ==
  /\ \E kind \in {17, 18, 22, 23} : AgentTakes(kind)
  /\ UNCHANGED <<up, policy, connVars>>

-----------------------------------------------------------------------------

Init ==
  /\ keys = {}
  /\ locked = FALSE
  /\ had = {}
  /\ up = FALSE
  /\ policy = [mode |-> "PassAll", specs |-> {}]
  /\ phase = [c \in Client |-> "closed"]
  /\ request = [c \in Client |-> NoRequest]
  /\ known = [c \in Client |-> {}]
  /\ asked = [c \in Client |-> FALSE]
  /\ answer = [c \in Client |-> NoAnswer]

Serve(c) == Fetch(c) \/ Forward(c) \/ Abandon(c)

Next ==
  \/ \E lists \in Lists : Start(lists)
  \/ Stop
  \/ \E c \in Client :
       \/ Connect(c) \/ HangUp(c) \/ Serve(c)
       \/ \E kind \in Kind : \E blob \in {{}} \cup {{b} : b \in Blob} : Read(c, kind, blob)
  \/ Own

Spec == Init /\ [][Next]_vars

LiveSpec == Spec /\ \A c \in Client : WF_vars(Serve(c))
=============================================================================
