----------------------- MODULE MCConnectionHandler -----------------------
(* Small instances of ConnectionHandler for TLC. *)
EXTENDS ConnectionHandler

\* INFO, QUIT and the delimiter; INFO and QUIT on one line are an unknown
\* command.
ThreeCharacters == {"INFO", "QUIT", "nl"}
==========================================================================
