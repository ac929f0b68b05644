------------------------------ MODULE MCLaunch ------------------------------
(***************************************************************************)
(* Four paths, one with a comma in its name; a mount of the plan's own,    *)
(* rules that overlap with it and with each other.                         *)
(***************************************************************************)
EXTENDS LaunchProperties

MCPlan == <<
  [rule |-> "own", source |-> 1, destination |-> 2],
  [rule |-> "mount", wild |-> TRUE, pattern |-> Path],
  [rule |-> "mount-as", source |-> 2, destination |-> 2],
  [rule |-> "mount", wild |-> FALSE, pattern |-> {1}] >>
=============================================================================
