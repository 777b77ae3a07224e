# Verification of ws-benchmark

ws-benchmark measures WebSocket libraries: a client process keeps a set of
connections busy with ping-pong messages, an echo server sends every message
back, and both write rows of throughput and latency figures that a script
collects. This directory holds TLA+ models of those programs, their TLC
configurations and TLAPS proofs. Paths are relative to the repository's root.

What has to be right for the figures to mean anything is the subject of the
models: the client measures every round trip of every connection exactly once,
each sample is timed from the write of its own message, echoes are whole and in
order, the servers' counters neither lose nor repeat a byte, the one row of
results describes a complete run, and the processes end.


## 1. Inventory

### 1.1 The parts

| Part | Files | State it keeps | Operations |
|---|---|---|---|
| flashws echo client, the benchmark driver | `src/flashws/echo_client.cpp`, `src/flashws/test_def.h` | per connection a `ClientCtx` (`reborn_cnt`, `msg_cnt`, `temp_buf`, `start_write_tick`); per process `rtt_hist`, `loop_cnt`, `send_bytes_sum`, `recv_bytes_sum`, `out_fp`, the `FLoop` | `TestWsClient` (start), `NewWSClient`, on_open/`WriteFirstMsg`, on_read (piece, whole message, reborn, last life), on_close, `EndClient` |
| flashws echo server | `src/flashws/echo_server.cpp` | per connection a `ConnectCtx` (`io_buf`); per process the `last_interval_*` counters and the export file | on_new_connection, on_read (piece, whole message), on_close, `CountStats` |
| flashws library, TCP | submodule, not in the repository | sockets, frames under way | `WriteFrame`, `Close`, `AddSocket`, `StopRun`, callbacks |
| uSockets TCP/TLS echo server | `src/usockets-tcp/echo_server.cpp` | per connection one `Buffer` (`start_pos`, `size`) and `active_conns_in_ctx`; the interval counters, `active_connections`, `dup_act_conns` | on_open, on_data (whole read, partial read), on_writable, on_end, on_close, on_timeout, `CountStats` |
| uSockets HTTPS client | `src/usockets-tcp/https_client.cpp` | `has_written_bytes`, `received_bytes` | `try_request` from on_open and on_writable, on_data, on_end, on_close |
| uWebSockets echo server | `src/uwebsockets/echo_server.cpp` | interval counters, `active_connections` | open, message, close, `count_stats` |
| uWebSockets echo client | `src/uwebsockets/echo_client.cpp` | `msg_cnt`, `start_ns` per connection | declared "not usable now" by its own comment (line 7) |
| websocketpp echo server | `src/websocketpp/echo_server.cpp` | interval counters, `active_connections` | on_open, on_message (with its exception path), on_close, `count_stats` |
| Boost.Beast echo server | `src/boost-beast/echo_server.cpp` | a chain of asynchronous operations per session, `buffer_` | do_accept/on_accept, on_run, do_read/on_read, on_write |
| Orchestrator | `tools/bench_ws.py` | the list of processes of one message size | start the primary, wait 2 s, start the secondaries, wait for all in reverse, next size |
| Hash map | `src/usockets-tcp/flat_hash_map.h` | third-party `ska::flat_hash_map`; included, used only by commented-out code | - |
| Plots, build, configuration | `tools/plot_data.ipynb`, `CMakeLists.txt` files, `configs/`, `certs/` | none | - |

### 1.2 How they interact

A run is one or more client processes against one server process. Every process
is one thread in an event loop and its state changes only in callbacks, each of
which runs to completion (Beast may run several threads, but every session is on
a strand of its own). Interleaving therefore happens between processes, between
connections of a process, and between the two ends of a connection: TCP may cut
a message anywhere, and the client's next callback of one connection may come
before or after any of the others.

### 1.3 What is hard, and what makes each part correct

* **Client.** The buffer an echo was collected in is the buffer that is sent
  next, and is moved from connection to connection when a client is reborn;
  on_read appends to it without a bound check (echo_client.cpp:201). It is right
  only if exactly one message is under way on a connection. The end of the run
  is detected in three places (on_read of a message, on_read of the last message
  of the last life, on_close), and `EndClient` closes the file without clearing
  `out_fp` and may run twice: whatever callbacks come after it must not change the
  figures. A latency sample is right only if the tick it
  is taken against was set by the write of the same message, across rebirths.
* **Server.** on_read appends without a bound check and relies on a fresh buffer
  after every echo. `CountStats` clears the process-wide byte counters in the
  middle of other connections' messages: bytes received and bytes echoed must
  still balance over all rows.
* **Loss.** A connection that is lost is not opened again: its client stays
  short of its round trips, so no row may ever be written, while every other
  client goes on and the server frees what the connection held.
* **uSockets server.** One buffer holds both bytes waiting for the rest of a
  message and bytes the socket did not accept, and on_writable does not ask which.
  It is right only if the library calls it for the second; that is assumed
  (section 3.2).
* **uWebSockets, websocketpp.** Counting happens next to a `send` that may be
  refused or throw: what is counted must be off by exactly those messages. The
  clock is read twice per row, before and after it is printed: a message must be
  counted in the row in whose interval it came.
* **Beast.** A session must read only after its write finished, and clear the
  buffer in between, on whichever thread the handlers run; the one outstanding
  operation is also all that keeps a session alive. The listener accepts again
  after every error.
* **Orchestrator.** All processes of a size must have exited before the next
  size starts; the primary process owns resources of the secondaries.

PROJECT.json lists these one by one under "hazards", each at its line, with the
properties that look at it.


## 2. Plan

Order of work, most important behaviour first.

1. **flashws client + server** (done): `FwsWire`, `IntervalStats`,
   `FwsEchoServer`, `FwsEchoClient`, their composition `FwsBench`, the abstract
   specification `BenchmarkRun` it implements, the server alone under clients
   that pipeline `FwsServerLoad`; the inductive invariant and six theorems in
   `FwsBenchProofs`.
2. **uSockets server** (done): `UsTcpEchoServer`, with the identity of every
   byte, against ping-pong clients and against one that pipelines.
3. **Orchestrator** (done): `BenchWs`, for clients and for servers.
4. **uWebSockets and websocketpp servers** (done): `LibEchoServer` over
   `IntervalStats`, with the send that is refused and the send that throws.
5. **Beast server** (done): `BeastEchoServer`, sessions on strands over several
   threads. With it `EchoService`, the abstract specification of an echo server,
   which the flashws, uSockets and Beast servers are shown to implement.
6. **Proofs** (done, section 5): every safety invariant and action property the
   passing runs check, and the refinements of `BenchmarkRun` and `EchoService`
   without their fairness: `FwsBenchProofs` and `FwsRunProofs` for the benchmark,
   `FwsServerProofs`, `UsTcpProofs`, `LibEchoProofs` and `BeastProofs` for the
   servers, `BenchWsProofs` for the orchestrator, over the lemmas of `SumProofs`.

## 3. Modules

### 3.1 The flashws benchmark

| Module | Models |
|---|---|
| `FwsWire` | what both programs see of the library and TCP: a socket state per end, a FIFO of frames per direction, links that break |
| `IntervalStats` | the interval counters and `CountStats` as operators on a record |
| `FwsEchoServer` | echo_server.cpp |
| `FwsEchoClient` | echo_client.cpp |
| `FwsBench` | one client process and one server process; properties; the inductive invariants `IInv` and `BenchInv` |
| `BenchmarkRun` | abstract: the samples of a run in the order a reader of the results may rely on, and the one report |
| `FwsServerLoad` | echo_server.cpp under clients that pipeline messages of different sizes, none longer than the server's buffer: on_read does not check the length (:200), and what a longer message does is undefined |
| `EchoService` | abstract: what every echo server promises (section 3.6) |
| `Sums` | sums over connections and over the frames of a channel, which the properties compare counters with |
| `FwsBenchProofs`, `FwsRunProofs`, `FwsServerProofs` | the proofs; likewise `UsTcpProofs`, `LibEchoProofs`, `BeastProofs`, `BenchWsProofs`; `SumProofs` holds the lemmas they share |
| `MCFwsBench`, `MCFwsServerLoad` | instances for TLC; likewise `MCUsTcp`, `MCLibEcho`, `MCBeast` |

**Connections.** A client is reborn as a new connection, so a connection is a
pair `<<client, n>>`. Its `ClientCtx` becomes one function per field over
connections; `temp_buf` and the server's `con_buf` hold the buffer's size, and
-1 where there is no context. The payload is not modelled: TCP neither alters
nor reorders it and the programs never look into it except to compare a hash, so
an echo is right iff its size is. A data frame under way is the number of its
bytes not yet handed to the reader; a callback takes any number of them, and
`is_msg_end` comes with the last.

**Actions.** One per way through a callback. on_read of the client is
`CliOnReadPiece`, `CliOnReadMessage` (end of the run or next message),
`CliOnReadReborn`, `CliOnReadLast`, and `CliOnReadAborts`, `CliRebornAborts` for
its calls to `std::abort`; on_open is `CliOnOpen` and `CliOnOpenAborts`; on_close
is `CliOnClose`, or part of the on_read that closed. `EndClient` is an operator
that the callbacks apply. The server has `SrvOnNewConnection`, `SrvOnReadPiece`,
`SrvOnReadMessage` (which includes `CountStats`), `SrvAbort`, `SrvOnClose`. An
abort of a process breaks all its links, as the kernel does.

**What the library may do.** Its source is not in the repository, so two points
are constants of the client. `CLOSE_MODES`: `Close` runs on_close before it
returns ("sync") or the loop runs it later ("deferred"); the code supports both,
since it tests `socket_count() == 0` after Close (:243) and the total in
on_close (:180). `RUN_ON`: after `StopRun` the loop may still deliver events it
has already polled.

**Samples.** `start_write_tick` is the message whose write the tick belongs to,
0 when it belongs to none (a fresh context, or the `read_end_tick` a reborn one
starts with), and a sample in `rtt_hist` is `<<connection, that message>>`. A
duration that spans two messages or a reconnection shows as a wrong pair.

**Left out.** Ping and pong (both programs ignore them), a message in several
frames (the server echoes by message, the client sends one frame), clock values,
printed text, `last_msg_size`, `connection_cnt` and `interval_start_ns` (printed
only), socket setup failures before the loop runs (the process returns at once,
nothing is under way). The mask 0x3fff of both programs is `HASH_PERIOD` in the
client and `INTERVAL` in the server.

### 3.2 The uSockets server

`UsTcpEchoServer` has one action per way through a callback: `OnDataWhole` for a
read of exactly MAX_DATA_LEN bytes, which is written without the Buffer,
`OnDataPart` and `OnDataLast` for reads that are collected, `OnWritable`,
`OnOpen`, `OnClose` (also for on_end, which closes). A client sends the bytes 1,
2, 3...; `data`, `start_pos` and `size` are the Buffer's fields, `got` is what
the socket accepted. `us_socket_write` accepts any number of bytes. on_writable
(:107) has no check of its own; the model takes the library to call it only after a
write that was not accepted in full (`want_write`). Whether the TLS layer of the
library (`SSL` is 1) may call it otherwise is not in the repository. If it did while a
message is collected, the part would be echoed at once and the rest kept for ever, and
with an empty Buffer an echo would be counted that never was: every result about this
server rests on this assumption. A read
the Buffer has no room for, or a write beyond its end, is undefined behaviour and
no step of the model: `InBounds` says that there is none with ping-pong clients,
by counting the bytes that may still arrive. The counters are those of
`IntervalStats`; here a message is counted received at every read and sent when
its last byte is out. on_timeout is not modelled: every call that would arm a
timeout is commented out.

### 3.3 The orchestrator

`BenchWs` is `bench_ws.py`. A child process is a pair `<<size, i>>`; it runs, may
append its row (`Report`, the client's `EndClient`) and exits, in any order and
with or without a row. `StartProc`, `StartFails` (Popen raises) and `Wait` are the
script's loop. `is_server`, chosen once, is its first argument: for servers there
is one size and no row. The two seconds after the primary's start order nothing by
themselves and are left out.

### 3.4 The uWebSockets and websocketpp servers

The two programs have the same counters and the same handlers, and their libraries
give them whole messages; `LibEchoServer` is both, and `lib`, chosen once, says
which. The ways through the message handler are `OnMessage` (send takes the
message), `OnMessageDropped` (uWS: too much waits on the connection, the result is
ignored) and `OnMessageThrows` (websocketpp: the exception skips the sent counters
and `count_stats`). `count_stats` differs in when a row is due (`NoRow`): uWS's
trigger by bytes is commented out. `accepted` and `refused` are ghosts: the
messages and bytes each connection's `send` took, or did not. That `send` drops
only if more than `maxBackpressure` bytes wait on its own connection, and then not
always (what waits may leave meanwhile), is how uWS is used with
`closeOnBackpressureLimit` off. What a client has not read is what waits, a header
per frame (`FRAME_HEADER`) included.

Clock values are counted in messages and the times between them: the n-th message is
received at `Clock(n)`, an odd tick. `count_stats` reads the clock when it begins, for
the end of the row's interval (`now_ns`), and again after printing, for the start of
the next; the model lets the second reading be the same tick or the next one, but no
later than the next message, because a handler runs to completion. Handlers run to completion on the one
thread of either library. A message longer than `maxPayloadLength`, an idle timeout
and a lost client all end in `OnClose`. An exception that leaves websocketpp's
`run()` ends the server and is left out.

### 3.5 The Beast server

`BeastEchoServer` is the listener and a session per connection as chains of
asynchronous operations. An operation is outstanding in `ops` (`accepting` for the
listener); its completion posts a handler (`Post`), which goes to the
io_context's FIFO `queue`, or to `waiting` if another handler of the session is
queued or running, as the session's strand has it; the first idle thread takes the
head of the queue. A handler's effect happens when it is taken, and its end is a
step of its own (`Return`): what two threads may do at the same time is between
the two. A message is cut into `MSG_LEN` pieces on its way into `buffer_`
(`ReadPiece`) and out of it (`WritePiece`), numbered by the client, so that an echo
of anything else than what was sent shows in `got`. Every operation may fail at any
time, `async_accept` any number of times, and always if the acceptor could not be
set up (`listening`, chosen once). `session::run` dispatches on_run to the session's
strand, which may queue it (`RunQueued`) or run it within on_accept, before the next
accept is started (`RunInline`).

### 3.6 What an echo server promises

`EchoService` has, per client, the number of messages sent and the messages got
back, and three steps: a request, a reply, which is always the oldest message not
yet replied to, and the failure of some connections: of one when its link is
lost, of all when the server process dies. Its fairness is that a connection which
never fails gets a reply to every request. `FwsServerLoad`, `UsTcpEchoServer`
and `BeastEchoServer` implement it (`ImplementsEcho`), each with its own mapping: a
reply is complete when the last of its bytes is with the client. An echo that is
cut, mixed with another or out of order maps to a reply that `EchoService` has no
step for. `LibEchoServer` does not implement it: its `send` may refuse.

## 4. Runs

All bounds are constants of the cfg files. For the flashws benchmark: two clients, two lives each, two
messages per life, messages of two bytes (so a message can be cut), rows every 3
messages (so rows end in the middle of lives and of other connections'
messages), hash check every 2 messages. Two of each is what the hazards need:
they are about one connection against another, one life after another, one
message after another, one piece after another; and one fault is enough to make
the two ends of a connection disagree.

| Run | Question | What it shows |
|---|---|---|
| `bench` | Without faults, and for every choice of the library, is the run right? | ping-pong, sound samples, complete row, one life at a time, no abort, equal ledgers; it implements `BenchmarkRun` without its fairness; the processes never wait on each other for ever (deadlock is checked: only `Over` may stop) |
| `bench_fair` | At most one fault, under fairness, with on_close run by the loop and a loop that stops at once: does the run finish? | it implements `BenchmarkRun` with its fairness; the client exits unless there was a fault, and with one every other client finishes |
| `bench_faults` | One lost link or failing call anywhere, for every choice of the library | types, buffers, the inductive invariant `BenchInv` of the proofs, and figures that are final once `EndClient` has been called (`ReportIsFinal`) |
| `server_load` | The server under pipelining clients | echoes whole, once, in order, and under fairness all of them (`EchoService`); byte balance; rows of whole intervals; contexts of closed and lost connections freed, half-received messages included |
| `us_tcp` | The uSockets server with two ping-pong clients | bytes in order and in one place, Buffer within bounds, counters balance, echoes counted once; `EchoService` |
| `us_tcp_order` | ... with a client that has two messages under way | violation of `EchoInOrder` (line 1, "a basic TCP/TLS echo server") |
| `us_tcp_ctx_count` | Is "active_cnt in ctx" the number of connections? | violation of `CtxCountIsActive` (lines 37 and 92): the counter is per socket |
| `us_tcp_msg_count` | Does the printed message rate count messages? | violation of `ReceivedMessagesCounted` (line 91): it counts reads |
| `bench_ws` | Three processes, three sizes or as servers, any exits and failures | sizes apart, rows in order, no orphans, no deadlock |
| `bench_ws_primary` | Does the primary exit last? | violation of `PrimaryExitsLast` (bench_ws.py:146): waiting in reverse does not order exits |
| `lib_servers` | uWS and websocketpp with a ping-pong and a pipelining client, sends dropped and throwing | counters balance up to exactly those; every message is in the row in whose interval it came; a row is overdue by count only if a send threw, by echoed bytes never |
| `beast` | Two sessions on two threads, any operation failing | no chain breaks or forks, handlers of a session never overlap, a buffer is untouched while written from; `EchoService`; failed sessions are freed; no deadlock |

`us_tcp` has messages of three bytes, so that a message can be collected in three
reads and an echo leave in three writes, and two messages per connection, so that
the Buffer is used again; rows come every two reads.

`bench_fair` has messages of one byte: its questions are about messages, lives and
clients, and the cuts of a message are in the other two.

`lib_servers` has messages of 1, 2 and 3 bytes, the last of them longer than uWS
accepts, rows due after two messages or more than three bytes, and a limit of two
bytes to what may wait on a connection, headers of one byte included: one with three
messages outstanding exceeds it. `beast` has two threads, without which
nothing overlaps, messages of two pieces, so that a write can be interrupted, two
messages per client, so that the buffer is used again, and one client that sends
its second message before it has the first back, so that a read can complete at
once.

`bench_fair` and `bench_faults` do not check deadlock: after a lost link the
client process really waits for ever, because it never opens the connection
again and its total is never reached. That is how the program is written and
`SurvivorsFinish` says how much still happens. `server_load` stops when its
clients have sent all they may (`MAX_SENDS`), and so do `us_tcp` and `lib_servers`
(`MAX_MSGS`). `beast` never stops: its listener may fail to accept at any time.
`SurvivorsFinish` excuses a client whose link was lost only while the client
process ran: its exit drops all links and would excuse everything.

**What depends on the library.** If `Close` runs on_close before it returns, the last
read of a run ends it twice, in on_close (:180) and by `socket_count() == 0` (:243); if
the loop goes on delivering after `StopRun`, two on_close may each end it.
`wait_shutdown` (:74) is set and never read, and `out_fp` is closed without being
cleared, so nothing in the program keeps `EndClient` from running twice, and no property
says that it runs once. What the program does ensure, in every mode and with any
faults, is `ReportIsFinal`: the first `EndClient` has the last word, since by then no
connection is left that could measure or send anything. That a second one prints to a
closed file is undefined behaviour and stays outside the model.

And if `Close` runs on_close at once and another client's link was lost before, the test
of `socket_count()` reports an incomplete run. `RowIsComplete` and `ImplementsRun` are
therefore checked in both modes without faults (`bench`), and with faults where on_close
is run by the loop (`bench_fair`, as the safety part of `ImplementsFairRun`). There
the run is ended by on_close (:180) alone; what ends it in the other mode is checked for
safety only. Which of the two happens is for the library to say.

**Fairness.** Weak fairness of every connection's callbacks at each end, and of
the client's exit. Each process is a level-triggered epoll loop that handles
every ready socket in a round, so a ready connection is not starved; TCP delivers
while the link is up; `StopRun` ends the loop. Nothing is assumed about faults.
For the uSockets server, weak fairness of a connection's reads and writes
(`Serve`); a socket the library reports writable accepts at least one byte. For the
flashws server under load, weak fairness of each connection's callbacks and of its
client's reading. For Beast, weak fairness of each thread (`io_context::run`) and of
each session's network (`Progress`); the accept errors, which never end, are not
among what is fair, and the FIFO queue is what keeps them from starving sessions.
These runs use no symmetry, since they check temporal properties.


## 5. Proofs

TLAPS checks what follows for every value of the constants that satisfies the
named assumptions of the modules. TLC evaluates the assumptions on the instances
of the runs; they say what the programs check of their arguments (lengths and
limits are positive), that the sets of connections, clients and threads are finite,
that a connection of the benchmark is a client and a life, that the server was
started with room for the client's messages, and that the names the Beast model
gives the listener and an idle thread are not connections. Where a theorem needs
more, its ASSUME says so; each of these hypotheses names a condition
the property really depends on:

| Theorems | Hypothesis | Why |
|---|---|---|
| `RowComplete`, `RunImplementsBenchmark` | `CLOSE_MODES = {"deferred"} \/ MAX_FAULTS = 0` | with an on_close inside `Close` and a lost link, `socket_count() == 0` (:243) ends an incomplete run |
| all of `UsTcpProofs` | `PIPELINE = 1` | a client with two messages under way gets its bytes out of order: the run `us_tcp_order` |

### 5.1 Sums (`SumProofs`)

Counters are compared with sums over connections and over frames under way. A sum
is the cardinality of a set of numbered units (`Sums`), so that what the library
proves of finite sets applies: a sum over equal numbers is equal (`SumOfEqual`),
changes by what one connection changes by (`SumChange`), is a product if all are
the same (`SumOfConstant`). `RowsKeepTotals` says that `CountStats` loses nothing
of rows and counters taken together. `FullInterval`, `DivGrows` and `DivOfSum` are
the arithmetic of rows due at multiples and of bytes that make up whole messages,
which the solver does not find: it has no induction, and products and remainders
of variables are reduced here to `MulStep` and the uniqueness of quotients.

### 5.2 The flashws benchmark (`FwsBenchProofs`, `FwsRunProofs`)

| Theorem | Statement |
|---|---|
| `Invariance` | `Spec => []IInv` |
| `TypeCorrect` | `Spec => []TypeOK` |
| `PingPong` | `Spec => []OneMessageUnderWay` |
| `BufferSafety` | `Spec => []NoOverrun` |
| `LivesInOrder` | `Spec => []OneLifeAtATime` |
| `SamplesSound` | `Spec => []SamplesAreRoundTrips` |
| `RunInvariance`, `BenchInvariance` | `Spec => []RunInv`, `Spec => []BenchInv` |
| `NothingAborts` | `Spec => []NoAbort` |
| `RowComplete` | `Spec => []RowIsComplete` |
| `ReportFinal` | `Spec => ReportIsFinal` |
| `BytesOnLedger`, `LedgerHolds` | `Spec => [](SentBytes /\ EchoedBytes)`, `Spec => []Ledger` |
| `RunImplementsBenchmark` | `Spec => ImplementsRun` |

None of the first four properties is inductive. `OneMessageUnderWay` says nothing
of a connection one end of which has closed, yet the other end may still read from
it. `IInv` therefore puts every connection, at every moment, in one of
four phases: nothing under way, a request partly read by the server, an echo
partly read by the client, or the client's close frame; in each the buffer of an
end that is still up is fixed by what is left of the frame, and an end that is
closed has none (`Phases`). `SrvCtx` and `CliCtx` tie the contexts to the sockets
and, for an open connection, the tick to the message under way, which makes
`SamplesAreRoundTrips` inductive: a new sample is the next message of its
connection. That the total is not reached before the last message of the last
life is a counting argument (`TotalIsAll`, `MissingSample`): the samples are a
subset of `Conns \X Messages`, which has `TOTAL_MSG_CNT` elements, and one is
still missing. There is one lemma per action; each shows the types, the phase of
the connection the action is about, and by `Frame` that no other one changes.

`FwsRunProofs` adds what the end of the run rests on. `CurrentLife`: a client whose
lives are not all measured is in one of them, so that no socket being left means
that everything is measured (`NoSocketLeft`) - unless a link was lost. `Ended`: the
loop stops only after `EndClient`. `Settled`: after an `EndClient` no connection is
connecting or open at the client, because the last life of the run was closed before it
or none was left; so no callback that measures or sends can follow, which is
`ReportIsFinal` (`EndSettles`, `SettledNext`). `Unhurt`: without faults nothing aborts and no
connection is closed before its limit, which is `NoAbort`. `SentInv` and
`ReceivedInv`: the bytes sent are MSG_LEN times the sum of the ticks, and the bytes
received those of the samples and of the echoes partly read, so that at the end both
are what the row must say (`RowInv`). The refinement then is a case split: the
callback that measures adds the next sample of its connection, the first
`EndClient` is the report, and everything else stutters. For `Ledger` the
corresponding pair, `SentBytes` and `EchoedBytes`, is inductive over `IInv`, with
frames under way counted by `SumSeq`.

### 5.3 The flashws server under load (`FwsServerProofs`)

| Theorem | Statement |
|---|---|
| `ServerInvariance` | `Spec => []LoadInv` |
| `EchoesKeepOrder` | `Spec => []EchoesInOrder` |
| `ServerBytesBalanced` | `Spec => []BytesBalance` |
| `RowsAreWhole` | `Spec => []RowsAreWholeIntervals` |
| `FwsServerEchoes` | `Spec => Service!Spec` |

`EchoesInOrder` concatenates sequences; the proof says the same by positions, which
is what the solver can use. `Follows(s, n, q)`: q is what follows the first n
entries of s. `Flow(c)`: the echoes under way follow those that arrived, and what
is unechoed of the frames under way to the server (with the buffered part of the
first) follows both and ends with the last message sent; after the server's end is
gone only the first half is left, and before it is there nothing has been sent.
`Frames` is why the buffer is empty when no frame is under way, even with a close
frame at the end. With the types, the balance and the rows this is inductive.

### 5.4 The uSockets server (`UsTcpProofs`)

| Theorem | Statement |
|---|---|
| `UsInvariance`, `UsTypeCorrect` | `Spec => []UsInv`, `Spec => []UsTypeOK` |
| `NoBufferOverflows` | `Spec => []InBounds` |
| `StreamIsKept` | `Spec => []EchoStream` |
| `UsBytesBalanced` | `Spec => []UsBytesBalance` |
| `EchoesAreCounted` | `Spec => []EchoesCounted` |
| `UsTcpEchoes` | `Spec => Service!Spec` |

Nothing in the code checks the sizes at :111 and :180; why they fit is the
invariant `Placed`: bytes echoed, buffered and unread make up what was sent, at most one
message of it is not echoed, and `start_pos` is not 0 only while the end of the last
message waits for room. That the client sends nothing before its echo is complete
(`PIPELINE = 1`) is used in exactly one place, the client's step, and without it
that clause is false. `InOrder` is the content: the Buffer, from `start_pos` on,
holds the bytes that follow the echoed ones. `EchoesCounted` needs that a write
finishes at most one echo, which is `DivOfSum` with `Placed`.

### 5.5 The uWebSockets and websocketpp servers (`LibEchoProofs`)

| Theorem | Statement |
|---|---|
| `StatInvariance` | `Spec => []StatInv` |
| `RowsOfIntervals` | `Spec => []RowsMatchIntervals` |
| `RowsInTime` | `Spec => []NoRowOverdue` |
| `LibInvariance`, `LibTypeCorrect` | `Spec => []LibInv`, `Spec => []LibTypeOK` |
| `LibBalanced` | `Spec => []LibBalance` |

The properties about rows become inductive together with the counters' types and
"no more is counted as sent than as received": if the counts are equal after a
message, they were equal before it and short of the interval, so the count has not
stepped over the multiple a row is due at (`FullInterval`). `LibBalance` is a sum over
connections (`Balanced`) and needs that a row keeps the totals. That a websocketpp
server never has more echoed bytes outside its rows than a row is due by, whatever
throws, is why the second trigger is needed: the first may be stepped over.

### 5.6 The Beast server (`BeastProofs`)

| Theorem | Statement |
|---|---|
| `BeastInvariance`, `BeastTypeCorrect` | `Spec => []BeastInv`, `Spec => []BeastTypeOK` |
| `ChainsAreUnbroken` | `Spec => []ChainUnbroken` |
| `HandlersAreSerial` | `Spec => []HandlersSerial` |
| `WritesOwnTheirBuffer` | `Spec => WriteOwnsBuffer` |
| `BeastEchoes` | `Spec => Service!Spec` |

`ChainUnbroken` counts; the invariant says where. A session's chain (`Chain`) is in
one of six places: there is no session yet; an operation is outstanding; a handler is
queued; one is held back by the strand because its predecessor has not returned;
after an error the last handler has not returned; or it has and the session is
freed. In each all the other places are empty, of the queue by `NoneOf` and
`OnlyOf`, which `AppendOther`, `TailOwn` and the like carry through its changes. A thread takes a handler only
from the queue, where it is the session's only one, so no two threads have the same
session's (`HandlersSerial`). A session whose on_run the strand runs at once begins its
chain with the handshake outstanding, the others with on_run queued. `Stream` ties the buffer to the client's bytes:
`buffer_` is the stretch between what is echoed and what is read, whole messages
while a write is outstanding. The refinement follows from it: a piece written is
the next byte, and the last piece of a message is the next reply.

### 5.7 The orchestrator (`BenchWsProofs`)

| Theorem | Statement |
|---|---|
| `WsInvariance`, `WsTypeCorrect` | `Spec => []WsInv`, `Spec => []BenchWsTypeOK` |
| `SizesApart` | `Spec => []OneSizeAtATime` |
| `FilesInOrder` | `Spec => []RowsInOrder` |
| `NobodyLeft` | `Spec => []NoOrphans` |

The properties are about processes in pairs and rows in files; what makes them
inductive is where the script is. `Grid` says that the processes of earlier sizes,
and those of this size already waited for, have exited, and that later ones have not
been started, so that a running process is of the current size; `Rows` says that a
file whose process still runs has only rows of earlier sizes, so that a new row is
the largest; `Place` ties the script's counters to its step.

### 5.8 What the proofs changed, and what stays with TLC

`EchoService` at first let connections fail one at a time. A flashws server that
aborts takes all of them down in one step. It does so at a write to a connection
that is lost already, so that with the two connections of the run `server_load` only
one is newly lost and TLC finds nothing; with three the step is none of
`EchoService`'s, and so its `Fail` takes a set.

Only model-checked: what is temporal under fairness (`Exits`, `SurvivorsFinish`,
`ServerForgets`, `ImplementsFairRun`, `FailedAreFreed`, and the fairness half of
`ImplementsEcho`, whose safety half is `Service!Spec` above), because the prover has
no rules for liveness and no ENABLED; that the systems do not deadlock; and the four
runs that expect a violation, which are about single behaviours.


## 6. Not modelled

The notebook, the build files, `configs/` and `certs/` have no behaviour.
`src/uwebsockets/echo_client.cpp` declares itself unusable and is not part of a
benchmark. `flat_hash_map.h` is third-party and no code that is compiled calls
it. `https_client.cpp` is a manual probe: one connection to a fixed port, one fixed
request, and what comes back is printed; no part of the benchmark starts it. That
its request, when accepted in parts, goes on where the last write ended
(`try_request`, :38) is listed as a hazard without a property.

The clock of the uSockets server is not modelled: its first interval starts at 0, in
1970, so the first row's rates are close to 0. The other two servers with an
`interval_start_ns` take the time of the first message (section 3.4).
