-------------------------- MODULE MCClientSession --------------------------
(* Instances of ClientSession for TLC: the configurations choose the build *)
(* (CloseWakes) and what the server may do.                                *)
EXTENDS ClientSession
=============================================================================
