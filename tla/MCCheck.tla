------------------------------ MODULE MCCheck -------------------------------
(***************************************************************************)
(* A service, its own view and the one of its namespace's owner.           *)
(***************************************************************************)
EXTENDS CheckProperties

MCViewsOf == [s \in Service |-> View]
=============================================================================
