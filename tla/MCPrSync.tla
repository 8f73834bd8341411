------------------------------ MODULE MCPrSync ------------------------------
(* Instances of module PrSync for TLC.                                      *)
EXTENDS PrSync
=============================================================================
