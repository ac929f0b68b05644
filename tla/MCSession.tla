----------------------------- MODULE MCSession ------------------------------
(* Small instances of SessionLifecycle for TLC.                            *)
EXTENDS SessionProperties
=============================================================================
