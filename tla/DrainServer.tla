--------------------------- MODULE DrainServer ---------------------------
(***************************************************************************)
(* What a gracefully stopping server promises, without sockets, events or  *)
(* registries: it admits connections only while it is up, a drain admits   *)
(* nobody, and it goes down in good order only when nobody is connected.   *)
(* A drain may be cut short (Abort), and a server that is up may crash.    *)
(* TCPServer implements this specification.                                *)
(***************************************************************************)
EXTENDS Naturals, FiniteSets

CONSTANTS
    Client,   \* connections, each admitted at most once
    Limit     \* how many may be connected at the same time

VARIABLES
    mode,     \* "new", "up", "draining", "drained", "aborted" or "crashed"
    waiting,  \* connections not admitted yet
    live      \* connections admitted and not over

vars == <<mode, waiting, live>>

Init == mode = "new" /\ waiting = Client /\ live = {}

Open == mode = "new" /\ mode' = "up" /\ UNCHANGED <<waiting, live>>

Admit(c) ==
    /\ mode = "up"
    /\ c \in waiting
    /\ Cardinality(live) < Limit
    /\ waiting' = waiting \ {c}
    /\ live' = live \cup {c}
    /\ UNCHANGED mode

Leave(c) ==
    /\ mode \in {"up", "draining"}
    /\ c \in live
    /\ live' = live \ {c}
    /\ UNCHANGED <<mode, waiting>>

Drain == mode = "up" /\ mode' = "draining" /\ UNCHANGED <<waiting, live>>

Drained ==
    /\ mode = "draining"
    /\ live = {}
    /\ mode' = "drained"
    /\ UNCHANGED <<waiting, live>>

Abort == mode = "draining" /\ mode' = "aborted" /\ UNCHANGED <<waiting, live>>

Crash == mode \in {"new", "up"} /\ mode' = "crashed" /\ UNCHANGED <<waiting, live>>

Next == \/ Open \/ Drain \/ Drained \/ Abort \/ Crash
        \/ \E c \in Client : Admit(c) \/ Leave(c)

Spec == Init /\ [][Next]_vars
==========================================================================
