---------------------------- MODULE FileService -----------------------------
(***************************************************************************)
(* What a file server promises the kernel, whatever the files are: a name  *)
(* keeps its number and shares it with no other, and the open handles of a *)
(* number all have one file, which no other number has.                    *)
(***************************************************************************)

VARIABLES
  table,   \* name -> number
  opened,  \* open handle -> number
  file     \* open handle -> file

vars == <<table, opened, file>>

Init ==
  /\ DOMAIN table = {}
  /\ DOMAIN opened = {}
  /\ DOMAIN file = {}

\* Numbers are handed out; those handed out before stay.
Number ==
  /\ DOMAIN table \subseteq DOMAIN table'
  /\ \A k \in DOMAIN table : table'[k] = table[k]
  /\ \A k, l \in DOMAIN table' : table'[k] = table'[l] => k = l
  /\ UNCHANGED <<opened, file>>

Open(h) ==
  /\ h \notin DOMAIN opened
  /\ DOMAIN opened' = DOMAIN opened \cup {h}
  /\ DOMAIN file' = DOMAIN opened'
  /\ \A g \in DOMAIN opened :
       /\ opened'[g] = opened[g]
       /\ file'[g] = file[g]
       /\ file'[h] = file[g] <=> opened'[h] = opened[g]
  /\ UNCHANGED table

Close(h) ==
  /\ opened' = [g \in DOMAIN opened \ {h} |-> opened[g]]
  /\ file' = [g \in DOMAIN opened \ {h} |-> file[g]]
  /\ UNCHANGED table

Next ==
  \/ Number
  \/ \E h \in DOMAIN opened' : Open(h)
  \/ \E h \in DOMAIN opened : Close(h)

Spec == Init /\ [][Next]_vars
=============================================================================
