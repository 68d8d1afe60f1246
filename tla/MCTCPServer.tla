--------------------------- MODULE MCTCPServer ---------------------------
(* Small instances of TCPServer for TLC.  Its runs have liveness           *)
(* properties, so no symmetry is used.                                     *)
EXTENDS TCPServer
==========================================================================
