---------------------------- MODULE NetSocket ----------------------------
(***************************************************************************)
(* What the server relies on from a Node.js net.Socket accepted with the   *)
(* default options (allowHalfOpen = false, autoDestroy = true).  Node is   *)
(* not part of the repository: the operators below are written from the    *)
(* calls src/src/server makes (write, end(msg), destroy, the 'data',       *)
(* 'end', 'timeout' and 'close' events) and hold no state of their own.    *)
(* A socket is a record:                                                   *)
(*   phase     "idle"      no connection yet                               *)
(*             "open"      accepted and not destroyed                      *)
(*             "destroyed" destroy() done, 'close' event not emitted yet   *)
(*             "closed"    'close' event emitted                           *)
(*   ending    end() was called: a later write or end(msg) is an error     *)
(*   finished  everything written is flushed and our FIN is sent           *)
(*   eof       the peer's FIN was read                                     *)
(***************************************************************************)
EXTENDS Naturals

Phases == {"idle", "open", "destroyed", "closed"}

SocketStates == [phase : Phases, ending : BOOLEAN, finished : BOOLEAN,
                 eof : BOOLEAN]

\* A socket object before the kernel hands it a connection.
Idle == [phase |-> "idle", ending |-> FALSE, finished |-> FALSE, eof |-> FALSE]

\* The socket passed to the 'connection' listener.
Accepted == [Idle EXCEPT !.phase = "open"]

Open(k) == k.phase = "open"

\* Between destroy() and the 'close' event.
Destroyed(k) == k.phase = "destroyed"

\* The connection was accepted and its 'close' event has not been emitted.
Tracked(k) == Open(k) \/ Destroyed(k)

\* write() is accepted: neither destroyed nor past end().
CanWrite(k) == Open(k) /\ ~k.ending

\* destroy(): a no-op unless the socket is open.
Destroy(k) == IF Open(k) THEN [k EXCEPT !.phase = "destroyed"] ELSE k

\* write(msg): after end() it raises ERR_STREAM_WRITE_AFTER_END, and
\* autoDestroy destroys the socket with that error.
Write(k) == IF CanWrite(k) THEN k ELSE Destroy(k)

\* end(msg): writes msg, then refuses further writes; a second end(msg) is a
\* write after end.
EndWith(k) == IF CanWrite(k) THEN [k EXCEPT !.ending = TRUE] ELSE Destroy(k)

\* The peer's FIN is read: 'end' is emitted and allowHalfOpen = false calls
\* end(); a socket that has already sent its own FIN is done and destroyed.
Eof(k) == IF k.finished THEN Destroy([k EXCEPT !.eof = TRUE])
                        ELSE [k EXCEPT !.eof = TRUE, !.ending = TRUE]

\* The last written byte and the FIN have left: a socket that has already
\* read the peer's FIN is done and destroyed.
Finish(k) == IF k.eof THEN Destroy([k EXCEPT !.finished = TRUE])
                      ELSE [k EXCEPT !.finished = TRUE]

\* The 'close' event.
EmitClose(k) == [k EXCEPT !.phase = "closed"]
==========================================================================
