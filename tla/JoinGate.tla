------------------------------ MODULE JoinGate ------------------------------
(***************************************************************************)
(* What joining a develop session and dismantling it promise each other    *)
(* (nixct.md, "Joining and teardown take the same per-session lock"):      *)
(* while someone is on its way into the session it is not dismantled, and  *)
(* while it is dismantled nobody gets in.                                  *)
(***************************************************************************)
CONSTANT Shell

VARIABLES
  joining,   \* the invocations that have joined and have no scope to show yet
  tearing    \* is the session being dismantled?

Init == joining = {} /\ tearing = FALSE

Enter(s) ==
  /\ ~ tearing
  /\ joining' = joining \cup {s}
  /\ UNCHANGED tearing

\* Into its own scope, or out again because the set-up failed.
Depart(s) ==
  /\ s \in joining
  /\ joining' = joining \ {s}
  /\ UNCHANGED tearing

BeginTeardown ==
  /\ joining = {}
  /\ tearing' = TRUE
  /\ UNCHANGED joining

EndTeardown ==
  /\ tearing' = FALSE
  /\ UNCHANGED joining

Next ==
  \/ \E s \in Shell : Enter(s) \/ Depart(s)
  \/ BeginTeardown \/ EndTeardown

Spec == Init /\ [][Next]_<<joining, tearing>>
=============================================================================
