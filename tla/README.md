# raw-tcp-server: TLA+ specifications

Specifications, model-checking configurations and proofs for the line-based
TCP server and client in `src/src` (TypeScript on Node.js). Every definition
is written from the source; `PROJECT.json` maps each to the lines it models.
`tlc -config X.cfg M` checks a run, `tlapm M.tla` the proofs of each module M
whose name ends in `Proofs`, and of `SequenceLemmas`.

## 1. The system

One server process and any number of client processes talk over TCP in lines
ended by `\n`. Node runs every callback to completion on one thread, so a
callback is the unit of atomicity. What is concurrent is the order of the
callbacks: socket events, timers, signals, the user at the prompt, and one
`await` that leaves `shutdown()` suspended in the middle.

| Component | State | Operations |
|---|---|---|
| `server/tcp-server.ts`, class `TCPServer` | `activeConnections`, `connectionCounter`, `isShuttingDown`, the `net.Server` and its `maxConnections` | `start`, `onConnection`, `'close'` listener, `'error'` listener, `shutdown` |
| `server/index.ts` | the process | `SIGINT`, `SIGTERM`, `uncaughtException`, exit codes |
| `server/handler.ts` | one closure per socket: `parser`, `connectionId`, the idle timeout | `'data'`, `'end'`, `'timeout'`, `'error'`, `'close'`, `executeCommand` |
| `server/metrics.ts`, `MetricsTracker` | map from id to counters, `totalConnectionsServed` | `addConnection`, `recordReceived`, `recordSent`, `removeConnection`, INFO text |
| `protocol/parser.ts`, `MessageParser` | `buffer` | `feed`, `reset`, `hasPartialData`; `parseRequest` keeps no state |
| `protocol/protocol.ts` | none | delimiter, length limit, response and event lines |
| `client/tcp-client.ts`, `TCPClient` | `socket`, `parser`, `rl`, `isConnected`, `isQuitting` | `connect` and its listeners, `startPrompt` and its listeners, `disconnect` |
| `client/reconnect.ts`, `ReconnectManager` | `attempt`, `timer` | `scheduleReconnect`, `reset`, `cancel` |
| `client/index.ts` | the process | first `connect()`, `SIGINT` and the one-second exit |

How they interact:

- `TCPServer` hands a new socket to `handleConnection`. Both put a `'close'`
  listener on it: the first removes it from `activeConnections`, the second
  from the metrics map. Two registries describe the same connections.
- `handler.ts` feeds decoded chunks to its `MessageParser`, which returns
  complete lines or throws; each line is answered by `write()`, QUIT by
  `end(msg)`. Neither result is looked at.
- `shutdown()` clears the way with `server.close()`, whose callback is awaited
  before the remaining sockets are told goodbye. `index.ts` exits behind it.
- `TCPClient` gives its `ReconnectManager` a callback that calls `connect()`
  again; `connect()` succeeding calls `startPrompt()`, which closes the old
  readline interface, whose own `'close'` listener calls `disconnect()`.

What is hard, and what correctness means for each component:

- **Server lifecycle.** Admission, close, timeouts and repeated signals
  interleave with the suspended `shutdown()`. The registries must agree; nobody
  may be admitted after the flag is set; a completed shutdown leaves nobody
  connected; a shutdown should end, and silent clients should be evicted.
- **Connection handler.** Requests cut anywhere, requests behind QUIT,
  a timeout on a socket already ended or with output queued, FIN and RST at any
  moment. Answers must follow the requests one by one; a farewell must be the
  last message; counters must match; the connection must close.
- **Message parser.** Chunk boundaries anywhere, also inside a multi-byte
  character; lines at and above the limit; an exception after messages have
  been extracted. Framing must not depend on chunking, and what an overflow
  destroys must stay with the overlong line and what is in front of it.
- **Client.** The user quits while a connection is being lost, retried or made;
  several events follow one failure. There must be one chain of attempts,
  quitting must be final, a loss must be retried, a reconnect must work, and
  the backoff must grow with failures and start over after a connection.
- **Both together.** Two parsers, two opinions on what QUIT is, and two views
  of one connection that a cut network or a restart makes differ. Replies are
  matched to lines only by their order; a place at the server must be freed
  when its client is gone; a client should learn that its server is gone.

`PROJECT.json` lists each hazard at its line with the properties about it, or
with a note where no property applies.

## 2. The modules

| Module | Models | Notes |
|---|---|---|
| `NetSocket` | the part of Node's `net.Socket` the sources use (external) | operators on a record; no state of its own |
| `DrainServer` | what a gracefully stopping server promises | abstract specification |
| `TCPServer` | `tcp-server.ts`, `server/index.ts`, the socket side of `handler.ts`, the registry of `metrics.ts` | implements `DrainServer` |
| `TCPServerProofs` | theorems about `TCPServer` | checked by TLAPS |
| `MessageParser` | `parser.ts` as pure operators, with its callers' `toString("utf-8")` | no variables |
| `Framing` | what framing means, independently of the code: lines, messages, the unfinished rest | reference definitions |
| `FramingProofs` | `feed()` and decoding against `Framing` | checked by TLAPS |
| `MessageStream` | one direction of a connection: bytes, chunks, `feed()` | uses `MessageParser` and `Framing` |
| `MessageStreamProofs` | theorems about `MessageStream` | checked by TLAPS |
| `Requests` | `parseRequest`, `executeCommand` and `formatResponse` as pure operators | extends `MessageParser` |
| `ConnectionHandler` | one connection: `handler.ts`, its counters in `metrics.ts`, the output queue | uses `NetSocket`, `Requests`, `Framing` |
| `ConnectionHandlerProofs` | theorems about `ConnectionHandler` | checked by TLAPS |
| `ReconnectManager` | `reconnect.ts`: attempts, giving up, backoff, the timer | variables and operators, no `Next` of its own |
| `TCPClient` | `tcp-client.ts`, `client/index.ts` | extends `NetSocket`, `ReconnectManager` |
| `TCPClientProofs` | theorems about `TCPClient` | checked by TLAPS |
| `Exchange` | a conversation end to end: what is typed, both parsers, what is displayed | extends `Requests` |
| `ExchangeProofs` | theorems about `Exchange` | checked by TLAPS |
| `System` | `TCPServer` and one `TCPClient` over a network with faults | instantiates both |
| `SystemProofs` | theorems about `System` | instantiates `TCPServerProofs`, `TCPClientProofs` |
| `Subsequences` | the elements of a sequence at some positions, without recursion | operators |
| `SequenceLemmas` | induction on sets of numbers and of sequences; facts about subsequences and `FlattenSeq` | checked by TLAPS |
| `MC...` | small instances for TLC | alphabets and the lines typed |

### NetSocket

A socket is a record of `phase` (idle, open, destroyed, closed), `ending`
(`end()` was called), `finished` (our FIN is out) and `eof` (the peer's FIN was
read). Sockets have Node's default `allowHalfOpen = false` and
`autoDestroy = true`: the peer's FIN ends our side, both FINs destroy the
socket, and a write after `end()` destroys it with an error. Between
`destroy()` and `'close'` there is a state of its own, because other callbacks
run in it.

### TCPServer

`Socket` is the set of connections that will ever be attempted; each has a
`net.Socket` record, an idle timer and the id its closures captured. Actions:
`Start`, `ServerError`, `Connection` (`onConnection` with `handleConnection`'s
set-up), `Data` (only what the lines of a chunk do to the socket: nothing,
writes, or the `end()` of QUIT), `End`, `Flushed`, `SocketError`, `Timeout`,
`Close` (both `'close'` listeners), `Tick`, `Signal`, `NotifyConnections` and
`ShutdownDone`. `shutdown()` is three actions, as its two awaits cut it:
`Signal` runs up to `server.close()`, `NotifyConnections` is the callback and
step 2, `ShutdownDone` is `Promise.all` and the exit.

Choices worth knowing:

- `maxConnections` is enforced by Node before `onConnection` runs, and counts
  sockets that are not destroyed. A limit of 0 is never set, so it means none.
- The listening handle goes in the same step as `isShuttingDown` is set, so
  the branch of `onConnection` that rejects while shutting down
  (`RejectConnection`) is never taken.
- Node defers the `server.close()` callback by one tick; here it may come any
  number of steps late, which only adds behaviours.
- The 5-second force-close of step 2 has no action. `NoForceClose`, checked and
  proved, says that step 2 never meets a socket that is not destroyed, so its
  guard is never true.
- The idle timer is re-armed by reads and completed writes. Whether the
  timeout's own message re-arms it depends on a write being in flight, so
  `TCPServer` allows both, and `ConnectionHandler` decides by its queue.

### ConnectionHandler

A request is a line over INFO, QUIT and the delimiter; INFO and QUIT on one
line make an unknown command. Of an answer only its kind is kept, and for INFO
the two counters it reports (`reports`), because `Record` counts the messages
of a chunk before its loop runs and the answers inside the loop. `out` is everything the socket
accepted, `taken` how much the peer has read, and `Window` how many messages the
kernel holds beyond that; the rest is queued in user space. `Data(n)` is the
whole `'data'` listener: decode, feed, the caught exception, the loop with its
`return` at QUIT, and the counters, which are updated whether or not the socket
accepted the answer (`CountersMatch` says how far they may part). `Close` is the `'close'` listener. `Answered` and `Infos`
pick the answers, and those to INFO, out of `out` with `Subsequences`.

### MessageParser, Framing, MessageStream

Characters are tokens: plain ones, a space, the delimiter, and one of two
bytes. `Decode` turns a chunk into characters as `toString("utf-8")` does with
each chunk on its own. `Extract` is the `while` loop as a recursive function,
`Feed` adds the length check and the exception. `Framing` defines lines by the
positions of the delimiters, with no buffer and no loop; `Salvaged` says what
may be left of a text once lines have been refused. `StreamAssumption`
keeps the two bytes of a wide character apart from the characters of a text;
without it a text could contain what only the encoding of another produces.

### TCPClient

One socket is enough, since `connect()` overwrites `this.socket` only when the
last one is closed (`SingleChain` checks that). `scheduled` counts the timeouts
Node has armed, `handle` is what `ReconnectManager.timer` says: they could
disagree, because `scheduleReconnect()` overwrites its timer. `Connected` has
the synchronous chain `reset()`, `startPrompt()`, `rl.close()`, the old
interface's `'close'` listener and `disconnect()` in one step. A `feed()` that
throws is uncaught on this side and ends the process. `Interrupt` may come any
number of times, as each SIGINT calls `disconnect()` again. `ConnectedSocket` is
what keeps the prompt from writing to a socket past its end: the server's FIN
clears `isConnected` before the runtime ends the socket, and `disconnect()` is
only called by a client that quits. What it cannot exclude, because it happens,
is a line typed between `destroy()` and `'close'`, which is lost.

### ReconnectManager

`scheduleReconnect`, `reset` and `cancel` as operators on `attempt`, `handle`,
`scheduled` and `backoff` (the `exponentialDelay` computed last). Jitter makes
a delay anything between 0 and `backoff`, and time is not modelled, so an armed
timeout fires whenever it likes. The attempt counter stops at `AttemptBound`,
from where `ReconnectAssumption` says the delay is at its cap. The entry point
sets no `maxAttempts`, so the runs leave it 0; `GivesUp` is translated, and the
theorems hold with any limit.

### Requests and Exchange

A command name counts as one character, and so does each fixed text of the
server. What is kept of lengths is what matters for the limit: ECHO's answer
has no more characters than its request, and the answer to an unknown command,
which quotes it in full, has more. `Exchange` has the bytes of both directions
in flight and delivers any part of them at each step: `TypeLine` is the
prompt's `'line'` listener, `ServerData` the server's whole `'data'` listener,
`ClientData` the client's, which shows events and responses apart. The server's
first message is its welcome event. A line that reaches the server behind QUIT
makes it write after `end()` (`Answer`): that destroys the socket, and what it
has still queued is lost from any point on. `RepliesFollowRequests` therefore
asks that no reply is missing in the end unless this has happened. Timeouts, whose
ERROR line the client displays as a response too, resets and reconnects are in
the other modules. `ExchangeAssumption` says that a line holds no delimiter, which
readline guarantees, and that the limit has room for the two tokens of the
welcome.

### System

`TCPServer` and `TCPClient` are instantiated, not rewritten; `System` only adds
what joins them: `peer` (which socket of the server the client's connection
is), `up` (the lines in flight to it, by how each side understands them),
`cut` (connections whose packets are lost) and `goodbye` (the line that made
the server say goodbye). Joint steps are:

- `Accepts`: `'connect'` at the client with `onConnection` at the server;
  `Drops`: the kernel completes a handshake that Node then drops for
  `maxConnections`, or that nobody accepts any more; `Refuses`: nobody listens.
- `Line`, then `ServerData`, which takes any number of lines as one chunk.
- `ServerEnd` and `ClientEnd` need the FIN of the other side, `SocketError` of
  either a reset or an unanswered packet. The server asks for keep-alive
  probes and notices a client that is gone. The client does not, so it needs
  to have sent something.
- `ClientCrash`: a `feed()` that throws; `Cut`: packets are lost from now on;
  `Restart`: a new server process, whose kernel knows nothing of old connections.

Bytes to the client are not kept (`Exchange` has them). The client's `Interrupt`
and `Exit` are left out: `disconnect()` is reached through `ClosePrompt`.

## 3. The runs

| Run | Instance | Shows |
|---|---|---|
| `server` | 3 connections, limit 2, fair | types, `RegistriesAgree`, `NoForceClose`, `CleanExit`, `NoAdmissionWhileDraining`, that `TCPServer` implements `DrainServer`; `SilentClientEvicted`: only a client that goes on sending stays; `DrainCompletes`: shutdown ends once clients fall silent |
| `parser` | all texts up to 5 characters of 4, all chunkings, limit 2 | `BufferBounded`; `FramingExact` within the limit; `OverflowContained`: beyond it each message is what is left of a line of its own, in order, and no line behind the last overlong one is lost |
| `handler` | all texts up to 5 characters, all chunkings, fair, the client reads | `AnswersFollowRequests`, `FarewellIsLast`, `CountersMatch`, `InfoIsConsistent`, `ConnectionCloses`, `GoodbyeArrives` |
| `client` | delays 1, 2, 4, 5, 5, ..., fair | `SingleChain`, `QuitIsFinal`, `FreshBuffer`, `ConnectedSocket`, `LossIsRetried`, `BackoffGrows` |
| `exchange` | up to 3 of 10 lines, limit 4, all chunkings of both directions | `RepliesFollowRequests`: none missing unless a line behind QUIT breaks the connection; `EchoIntact`; `QuitUnderstood`: the client's QUIT is always the server's; `OnlyLongRepliesKill`: the client dies only of an overlong line of its user's, or of an unknown command whose answer is beyond the limit |
| `system` | 2 server sockets, limit 1, one client, cuts and restarts, fair | `GoodbyeNotRetried`: after a goodbye the client only comes back for QUIT with an argument; `PlaceIsFreed`: a client that goes frees its place without the idle timeout; `PhantomNeedsSilence`: only a client that is cut off and sends nothing can go on believing in a dead connection |

Every property of these runs has a mutant in `PROJECT.json`: an operator with a
plausible bug in it (an off-by-one in the limit, a record not deleted, a timer
not cleared, a `return` forgotten) under which TLC finds the property violated.
The mutants stand next to the definitions they replace, marked `Mutant:`.

Six runs check what a comment or the repository's README says and find that
the code does otherwise:

| Run | Property | What the counterexample shows |
|---|---|---|
| `server_chatty` | `ShutdownTerminates` | `shutdown()` awaits `server.close()`, which waits for all connections, before it tells them goodbye and arms its force-close. A client that keeps sending keeps the process alive. |
| `parser_torn` | `ChunkingInvisible` | A character whose two bytes arrive in two chunks becomes two U+FFFD. |
| `handler_abandoned` | `AbandonedConnectionCloses` | The timeout's `end(msg)` queues behind answers the client does not read; the timer is not re-armed; the connection stays. |
| `handler_quit` | `QuitIsGraceful` | A request arriving after QUIT, in a later chunk, is answered by a write after end, which destroys the socket. |
| `client_reconnect` | `ReconnectDoesNotQuit` | A successful reconnect closes the old prompt, whose listener takes this for the user leaving and ends the new connection. |
| `exchange_chunks` | `ChunksAreHarmless` | An unknown command within the limit is quoted in an answer beyond it. If that answer arrives in two chunks the client's `feed()` throws, nothing catches it, and the client dies. |

Four more can be read off the definitions and have no run of their own. A
second signal returns from `shutdown()` at once and goes on to
`process.exit(0)` with connections open (`index.ts:41`; the mode "forced" of
`TCPServer`, "aborted" of `DrainServer`). An overlong unfinished line takes the
complete messages of the same chunk with it (`parser.ts:84`; `Feed` returns no
messages when it throws). The length limit is compared
with the unfinished rest only, so a line of any length passes if its delimiter
is in the same chunk; and after an overflow the rest of the refused line is
read as a message of its own (`OverflowContained` says how far the damage goes).

### Bounds, and why they suffice

- `server`: `Socket` 3 and `MaxConnections` 2. One connection is refused while
  the server is full, admitted once a socket is destroyed, and then overlaps
  with one whose `'close'` is pending. The proofs cover every number. No
  symmetry, since the run has liveness properties.
- `IdleTicks` 1 (2 in `server_chatty`): the timer is only compared with 0 and
  re-armed; one tick separates armed from expired.
- `MaxMessageLength` 2, `MaxText` 5 (4 where a counterexample is shorter): a
  text holds a line at the limit, one above it, several lines, blank ones, and
  something behind an overflow. `MaxText` 5 in `handler` allows QUIT between
  two other requests.
- `Window` 1: one message in flight and one queued is the first case of a
  write that must wait.
- `client`: `InitialDelay` 1, `MaxDelay` 5 and `AttemptBound` 4 give the delays
  1, 2, 4, 5, 5: doubling, a cap that is not a power of two, and a second
  delay at the cap. The rest of `TCPClient` is finite.
- `exchange`: limit 4 has an unknown command within the limit whose answer is
  above it, and ECHO of a text with a leading space. The one line above the
  limit is a PING with an argument: its beginning may be refused and its tail
  taken for an unknown command, whose answer is too long for the client. Three
  lines allow one in front of and one behind a QUIT.
- `system`: two server sockets, so that the client's next connection can meet
  its last one half open; `MaxConnections` 1, so that this one keeps it out;
  `Pipeline` 1, that is one line in flight, and more once it is read.
  `Restart` forgets the old sockets, so restarts are unlimited; reconnects
  within one server process are limited by `Socket`. The backoff, which only
  lengthens timers, is reduced to one value.

Deadlock is not an error: processes exit, connections close, and a text that
has been delivered ends.

### Fairness, and what justifies it

- Node's event loop runs every due callback: weak fairness of `Timeout`,
  `Close`, `NotifyConnections`, `ShutdownDone`, `Finished`, `Reconnect`, `Exit`.
- Time passes: `Tick`.
- A connection attempt has an outcome: `Connected \/ ConnectFails`.
- `Flushed` in `TCPServer` and `Take` in `ReadingClientSpec` assume a peer that
  reads. `AnyClientSpec` drops it, and `handler_abandoned` shows what then fails.
- `System` keeps less: the network delivers what is not cut and reports what
  is, and each side handles what is due on its sockets (`ServerDue`,
  `ClientDue`). Nothing is assumed of clocks, timers, users and signals, so
  none of its properties rests on the idle timeout.
- No client has to send, leave, be silent or answer a FIN; no user has to type;
  no signal has to come. `DrainCompletes` states its assumption about clients
  as an antecedent.

## 4. The proofs

Every invariant that a passing run checks is also a theorem, for all values of
the constants that satisfy the named assumptions of the modules; so are the
action properties `NoAdmissionWhileDraining`, `QuitIsFinal` and `BackoffGrows`
and the refinement of `DrainServer`. `PROJECT.json` lists the theorems with their
properties. In each module the argument is an inductive invariant `IInv`, with
`InitIInv` (or `InitType`), a lemma per step, and the theorems read off it.

**`TCPServerProofs`** rests on `ServerAssumption` (finitely many connections, a
natural limit, a positive timeout). `IInv == TypeOK /\ RegistryInv /\ DrainInv`.

- `RegistriesAgree` is not inductive: removing one id from the metrics map keeps
  the others only if ids are unique, and a new id is fresh only if the counter
  bounds the old ones. `RegistryInv` adds that bound.
- `NoForceClose` and `CleanExit` need the history of `shutdown()`. `DrainInv`
  says that the listener is gone while the flag is set, that the flag is set
  while a step of `shutdown()` is pending, and that nobody is live in step 2.
  Nobody can become live again, as admission needs the listener.

Five events (data, FIN, flush, error, timeout) do the same thing to everything
but one socket: it stays tracked, and nothing else changes but its timer.
`SocketResults` shows this of the operators of `NetSocket`, `QuietActions` of
the actions, and `NextCases` folds them into one case of the later proofs. The
refinement maps the process and its flag to a mode, live sockets to `live` and
sockets not yet accepted to `waiting`; a step that destroys a socket is a
`Leave`, and everything else between admission and exit stutters.

**`TCPClientProofs`** rests on `ReconnectAssumption` (natural delays and limits,
and a bound at which the delay is at its cap). Its invariant adds to `TypeOK`,
`SingleChain` and `ConnectedPhase` two facts: the parser is clean before a
connection starts and after one is closed, and a client that quits has no
timeout armed. `ConnectedPhase` is the part of `ConnectedSocket` that is
inductive by itself; the rest follows step by step from what `EndingInv` says of
a socket past its end. `FreshBuffer` is not inductive without the first: a timeout that
fires makes a new socket from a closed one. `QuitIsFinal` needs the second,
because `'close'` may come behind `disconnect()`. That a delay lies between 0
and `MaxDelay` rests on powers of two being natural numbers, which `PowerIsNat`
takes from the number of subsets of `1 .. n`.

`BackoffGrows` needs `PowerDoubles`, which counts the subsets with and without
one more element, and that at `AttemptBound` the delay is at its cap, so that
no longer counting changes no delay (`BackoffDoubles`). Attempts are counted in
one handler and reset in another; `BackoffInv` ties them to the socket. One that
was connected shows it by `isConnected` or `eof` until its `'close'`, and its
`'connect'` has reset the attempts; as long as the client is connecting, failed
to, or waits, the last delay is that of the last attempt. Only `'close'` arms
a timeout, so these two cases are all there is.

**`SequenceLemmas`**. The library's induction theorems take an operator, which
the provers cannot instantiate. Here induction is over sets: `SetInduction` (a
set that has 0 and the successors of its numbers has all of `Nat`) follows from
the well-foundedness of `<`, whose theorem speaks of sets, and `SeqInduction`
does the same for sequences and `Append`. A fact `P` is proved for all by
applying them to `{n \in Nat : P(n)}`. With them come the ranks behind
`Subsequences` and what `FlattenSeq` gives on appended and joined sequences.

**`FramingProofs`** proves `ExtractExact`: the loop of `feed()` returns exactly
the non-blank lines that `Framing` finds in a text, and leaves its unfinished
line, for texts of any length. `Extract` is a recursive function, so it has a
value only once a function with its recursion equation is shown to exist and to
be unique: `FramedTurns` shows that `Framing` gives one, `TurnsUnique`, by
induction on the length, that there is no other. `FramingConcat` is what makes
chunks invisible: feeding a second text behind the unfinished line of a first
gives what both give as one. `DecodeConcat` says the same of decoding, for a cut
that is not inside a character. `Salvaged` asks for a map from messages to
lines, strictly increasing, that misses only lines an overflow may cost.
`SalvagedConcat` extends the map over the next chunk, whatever part of the
unfinished line an earlier overflow dropped, by induction on the characters of
the chunk: `SalvagedGrows` for one inside a line, `SalvagedLine` for one that
ends a line, whose message the map then takes to it. A chunk that is refused
adds no message, but every line in front of its overlong end may be missing
(`RefusedSalvaged`).

**`MessageStreamProofs`** proves `TypeOK`, `BufferBounded`, `FramingExact` and
`OverflowContained` under `StreamAssumption` and `ParserAssumption`. Two conjuncts
are added: `CutClean` (an untorn cut lies between characters), which lets the
chunks be decoded one by one, and `BufferIsEnd` (the buffer is the unfinished
line, or an end of it if the line is beyond the limit), without which an
overflow would allow any later message. `BufferBounded` needs neither and holds for torn characters too.

**`ConnectionHandlerProofs`** proves `TypeOK`, `AnswersFollowRequests`,
`FarewellIsLast`, `CountersMatch` and `InfoIsConsistent` under
`HandlerAssumption` and `ParserAssumption`. It adds:

- `NoFarewell`: while the server can write it has said no farewell. This makes
  `FarewellIsLast` inductive, and with it the answers of a chunk are the ones
  due behind those already sent;
- `BufferIsEnd`: the buffer of an open connection is an end of the unfinished
  line, and the whole of it within the limit, so that `FramingConcat` applies;
- `BrokenIsDestroyed`: a write after end leaves no open socket, so that it is
  the last to be counted and `CountersMatch` can say by how much the counters
  are wrong then;
- `ReceivedBounded`: no request is counted before it has arrived. INFO reports
  the counters, so `InfoIsConsistent` needs it and `CountersMatch`.

**`ExchangeProofs`** proves all five invariants of `Exchange`, from
`ExchangeAssumption`, `ParserAssumption` and `TextAssumption` (the fixed texts
are strings, which the provers cannot know of literals). None but `TypeOK` is
inductive. As long as the server has refused nothing there are texts `d` and
`c`, what the server and the client have read, and a `rest` the client has not,
with `Conversation(d, c, rest)`: the lines typed are `d` and what is on its way,
the responses to the messages of `d` are `c` and `rest`, each buffer is the
unfinished line of what was read, the server has ended if there is a QUIT in
`d`, what is on its way to the client is `rest` (or, of a broken server, which
has read something behind that QUIT, the beginning of it), and the replies displayed are the responses in `c`. The properties are then
facts about two texts. Once a line is refused only the length of what was typed
matters.

The proof changed one property. `OnlyLongRepliesKill` used to say that the client
dies only of an unknown command with a long answer. That is false: a server that
has dropped the beginning of an overlong PING takes its tail for an unknown
command, and may answer beyond the limit. The property now allows for overlong
lines, and the run has such a line.

**`SystemProofs`** proves `TypeOK` and `GoodbyeNotRetried` from
`SystemAssumption`, which joins the assumptions of the two programs. Nothing of
the two is proved again. `Sides` shows that each step of `System` is a step of
`TCPServer`, or a restart, or leaves the server alone, and likewise for
`TCPClient`; `SameServer` and `SameClient` that these are the steps the two
proof modules speak of; so the server's `TypeStep` and the client's `StepIInv`
apply. The added conjunct is `QuitKnown`: as long as the client is not quitting,
no line that both sides take for QUIT is on the way or was answered. With the
client's own invariant (a client that quits has no timeout armed) it gives
`GoodbyeNotRetried`, through any cuts and restarts.

Only model-checked: all liveness (`SilentClientEvicted`, `DrainCompletes`,
`LossIsRetried`, `ConnectionCloses`, `GoodbyeArrives`, `PlaceIsFreed`,
`PhantomNeedsSilence`), as the prover handles neither fairness nor ENABLED here.

## 5. Not modelled

- Displayed text, log lines, durations, memory figures, the keep-alive and
  no-delay options, environment variables other than the connection limit.
- Bytes out and timestamps of the metrics, and the wording of what INFO and
  TIME answer: they follow the exact texts.
- The exact lengths of the server's texts: `Requests` keeps only which answers
  are longer than their requests.
- Jitter and the length of delays: timers fire whenever they like.
- `maxAttempts` in the runs: the only place that makes a manager leaves it 0.
- In `System`: bytes to the client, the client's SIGINT, several clients. The
  server's other clients are in `TCPServer`, where they may do anything.
- The standard input of a prompt whose interface is closed, and terminal
  editing.
- Docs and build files, which hold no state.

## 6. Plan

Done: the server with its refinement, the parser, request parsing, the
connection handler, the reconnect manager, the client, the end-to-end exchange,
client and server together under faults, and proofs of all their invariants.

1. An abstract specification of `Exchange` (a queue of requests and one of
   replies) and the refinement that shows it, which `Conversation` prepares.
2. `RegistriesAgree` and `CleanExit` in `System`, which `Sides` makes
   available for every server process between two restarts.
