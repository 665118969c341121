-------------------------- MODULE MCServerMessages --------------------------
(* Instances of ServerMessages for TLC: the configurations give the number *)
(* of clients, of packets and of operator commands.                        *)
EXTENDS ServerMessages
=============================================================================
