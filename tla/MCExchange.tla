---------------------------- MODULE MCExchange ----------------------------
(* Small instances of Exchange for TLC. *)
EXTENDS Exchange

\* A command with and without white space around it, ECHO with nothing, with
\* a text and with a text that begins with a space, QUIT in both cases and
\* with an argument, unknown commands within and at the limit, and a request
\* above it, whose tail may be taken for an unknown command.
SomeLines ==
    { <<"sp", "PING">>, <<"ECHO">>, <<"echo", "sp", "a">>,
      <<"ECHO", "sp", "sp", "a">>, <<"QUIT">>, <<"quit", "sp">>,
      <<"QUIT", "sp", "a">>, <<"a">>, <<"a", "sp", "a", "a">>,
      <<"PING", "sp", "a", "a", "a", "a", "a">> }
==========================================================================
