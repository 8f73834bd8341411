---------------------------- MODULE MCGraphSync ----------------------------
(* Instances of module GraphSync for TLC.                                   *)
EXTENDS GraphSync
=============================================================================
