---------------------------- MODULE SharedHolder ----------------------------
(***************************************************************************)
(* What the launches of one app and their network holder promise each      *)
(* other (nix/app/README.md, "One private loopback per app"): an entry is  *)
(* only ever let onto a holder that is there, and while an entry uses the  *)
(* holder nobody takes it away.                                            *)
(***************************************************************************)
CONSTANT Runner

VARIABLES
  users,   \* the launches that have a claim on the holder
  made     \* is there a holder?

Init == users = {} /\ made \in BOOLEAN

Make == made' = TRUE /\ UNCHANGED users

Enter(r) ==
  /\ made
  /\ users' = users \cup {r}
  /\ UNCHANGED made

Leave(r) ==
  /\ users' = users \ {r}
  /\ UNCHANGED made

Remove ==
  /\ users = {}
  /\ made' = FALSE
  /\ UNCHANGED users

Next == Make \/ Remove \/ \E r \in Runner : Enter(r) \/ Leave(r)

Spec == Init /\ [][Next]_<<users, made>>
=============================================================================
