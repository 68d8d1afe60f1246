--------------------------- MODULE MCTCPClient ---------------------------
(* Instances of TCPClient for TLC: its state space is small. *)
EXTENDS TCPClient
==========================================================================
