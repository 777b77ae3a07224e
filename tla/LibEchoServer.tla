--------------------------- MODULE LibEchoServer ---------------------------
(***************************************************************************)
(* src/uwebsockets/echo_server.cpp ("uws") and                             *)
(* src/websocketpp/echo_server.cpp ("tpp"): echo servers whose library     *)
(* hands them whole messages.  Their handlers are the same but for two     *)
(* points: what may become of the echo, and when a row is due.             *)
(*                                                                         *)
(*   - uWS's send may drop a message when more than maxBackpressure bytes  *)
(*     wait on the connection; its result is ignored and the echo counted. *)
(*   - websocketpp's send may throw; on_message has counted the message as *)
(*     received by then, and does not come to count_stats.                 *)
(*   - websocketpp's rows are also due by bytes.                           *)
(*                                                                         *)
(* Which of the two runs is the value of lib, chosen once.  One action per *)
(* handler, run to completion by the one thread of the loop.  Time is in   *)
(* ticks, two for each message: it is received in the first, and the row   *)
(* it may complete is printed by the second.                               *)
(***************************************************************************)
EXTENDS IntervalStats, Sequences, Sums

CONSTANTS
    Conns,            \* the connections
    Window,           \* how many echoes each client lets outstanding
    Sizes,            \* the sizes of the clients' messages
    MAX_DATA_LEN,     \* the argument max_msg_len
    MAX_BYTES,        \* 4096 * MAX_DATA_LEN, the bytes a tpp row is due by
    MAX_BACKPRESSURE, \* 100 MB, maxBackpressure of the uws server
    FRAME_HEADER,     \* the most bytes a WebSocket frame has before its payload
    MAX_MSGS          \* bound: messages a client sends

ASSUME LibAssumption ==
    /\ IsFiniteSet(Conns)
    /\ Window \in [Conns -> Nat \ {0}]
    /\ Sizes \subseteq Nat \ {0}
    /\ {MAX_DATA_LEN, MAX_BYTES, MAX_BACKPRESSURE, MAX_MSGS} \subseteq Nat
    /\ FRAME_HEADER \in Nat

VARIABLES
    lib,                 \* "uws" or "tpp"
    sock,                \* "none", "open" or "closed"
    inbox,               \* the sizes of the messages the server has not seen yet
    unread,              \* the sizes of the echoes the client has not read yet
    sends,               \* how many messages the client has sent
    accepted, refused,   \* the messages and bytes the library took, or did not
    stats,               \* the last_interval_* counters
    rows,                \* the totals of the exported rows
    interval_start_ns,   \* when the current interval began, 0 before the first
    now_ns,              \* when the interval of the last row ended, 0 before
    active_connections

connVars == <<sock, inbox, unread, sends>>
tallyVars == <<accepted, refused>>
statVars == <<stats, rows, interval_start_ns, now_ns>>
vars == <<lib, connVars, tallyVars, statVars, active_connections>>

Tally == [msg : Nat, bytes : Nat]
Tallied(t, size) == [msg |-> t.msg + 1, bytes |-> t.bytes + size]

LibTypeOK ==
    /\ lib \in {"uws", "tpp"}
    /\ sock \in [Conns -> {"none", "open", "closed"}]
    /\ inbox \in [Conns -> Seq(Sizes)]
    /\ unread \in [Conns -> Seq(Sizes)]
    /\ sends \in [Conns -> 0..MAX_MSGS]
    /\ accepted \in [Conns -> Tally]
    /\ refused \in [Conns -> Tally]
    /\ stats \in Counters
    /\ rows \in Counters
    /\ interval_start_ns \in Nat
    /\ now_ns \in Nat
    /\ active_connections = Cardinality({c \in Conns : sock[c] = "open"})

Init ==
    /\ lib \in {"uws", "tpp"}
    /\ sock = [c \in Conns |-> "none"]
    /\ inbox = [c \in Conns |-> <<>>]
    /\ unread = [c \in Conns |-> <<>>]
    /\ sends = [c \in Conns |-> 0]
    /\ accepted = [c \in Conns |-> [msg |-> 0, bytes |-> 0]]
    /\ refused = [c \in Conns |-> [msg |-> 0, bytes |-> 0]]
    /\ stats = NoTraffic
    /\ rows = NoTraffic
    /\ interval_start_ns = 0
    /\ now_ns = 0
    /\ active_connections = 0

-----------------------------------------------------------------------------
\* The clients: at most Window[c] of their messages have neither been read back
\* nor refused.
ClientSends(c, size) ==
    /\ sock[c] = "open"
    /\ sends[c] < MAX_MSGS
    /\ Len(inbox[c]) + Len(unread[c]) < Window[c]
    /\ inbox' = [inbox EXCEPT ![c] = Append(@, size)]
    /\ sends' = [sends EXCEPT ![c] = @ + 1]
    /\ UNCHANGED <<lib, sock, unread, tallyVars, statVars, active_connections>>

ClientReads(c) ==
    /\ sock[c] = "open"
    /\ unread[c] # <<>>
    /\ unread' = [unread EXCEPT ![c] = Tail(@)]
    /\ UNCHANGED <<lib, sock, inbox, sends, tallyVars, statVars, active_connections>>

-----------------------------------------------------------------------------
\* .open, on_open
OnOpen(c) ==
    /\ sock[c] = "none"
    /\ sock' = [sock EXCEPT ![c] = "open"]
    /\ active_connections' = active_connections + 1
    /\ UNCHANGED <<lib, inbox, unread, sends, tallyVars, statVars>>

\* A variant with a bug, for the runs' mutants: the connection is not counted off.
StaysCounted(n) == n
OneLess(n) == n - 1

\* .close, on_close: the client has closed or is lost, was idle for too long or,
\* with uws, has sent a message longer than maxPayloadLength.
OnClose(c) ==
    /\ sock[c] = "open"
    /\ sock' = [sock EXCEPT ![c] = "closed"]
    /\ inbox' = [inbox EXCEPT ![c] = <<>>]
    /\ unread' = [unread EXCEPT ![c] = <<>>]
    /\ active_connections' = OneLess(active_connections)
    /\ UNCHANGED <<lib, sends, tallyVars, statVars>>

\* high_resolution_clock::now() when the n-th message is received: never 0.
Clock(n) == 2 * n - 1
Received == rows.recv_msg + stats.recv_msg

\* count_stats writes no row.  A variant with a bug, for the runs' mutants: rows
\* are due by count alone.
DueByCountOnly(s) == Quiet(s)
NoRow(s) ==
    \/ Quiet(s) /\ (lib = "tpp" => s.recv_bytes <= MAX_BYTES)
    \/ s.recv_msg = 0

\* The rest of count_stats.  The row's interval ends when count_stats begins; the
\* clock is read again for the start of the next one, after the row is printed,
\* which takes some time or hardly any.  Variants with a bug, for the runs'
\* mutants: a counter is not cleared; the next interval does not begin.
RowKeepsSent(s, start, now) ==
    /\ rows' = WithRow(rows, s)
    /\ stats' = [NoTraffic EXCEPT !.send_msg = s.send_msg]
    /\ now_ns' = now
    /\ interval_start_ns' = now
RowKeepsStart(s, start, now) ==
    /\ rows' = WithRow(rows, s)
    /\ stats' = NoTraffic
    /\ now_ns' = now
    /\ interval_start_ns' = start
WriteRow(s, start, now) ==
    /\ rows' = WithRow(rows, s)
    /\ stats' = NoTraffic
    /\ now_ns' = now
    /\ interval_start_ns' \in {now, now + 1}

count_stats(s, start, now) ==
    \/ /\ NoRow(s)
       /\ stats' = s
       /\ interval_start_ns' = start
       /\ UNCHANGED <<rows, now_ns>>
    \/ /\ ~NoRow(s)
       /\ WriteRow(s, start, now)

\* What on_message and .message begin with: the message is counted as received,
\* and the first one of all starts the first interval.
Counted(size) ==
    [ReceivedBytes(stats, size) EXCEPT !.recv_msg = @ + 1]
Started ==
    IF interval_start_ns = 0 THEN Clock(Received + 1) ELSE interval_start_ns

\* uWS may drop a message only if more than maxBackpressure bytes wait on its
\* connection, headers of the frames and what the kernel has taken included.
Full(c) == SumSeq(unread[c]) + FRAME_HEADER * Len(unread[c]) > MAX_BACKPRESSURE

Arrives(c, size) ==
    /\ sock[c] = "open"
    /\ inbox[c] # <<>> /\ size = Head(inbox[c])
    /\ lib = "uws" => size <= MAX_DATA_LEN
    /\ inbox' = [inbox EXCEPT ![c] = Tail(@)]
    /\ UNCHANGED <<lib, sock, sends, active_connections>>

\* send takes the message, or (uws) drops it without the handler's noticing.
CountsEcho(size) ==
    count_stats(EchoedMessage(ReceivedBytes(stats, size), size),
                Started, Clock(Received + 1))

OnMessage(c, size) ==
    /\ Arrives(c, size)
    /\ unread' = [unread EXCEPT ![c] = Append(@, size)]
    /\ accepted' = [accepted EXCEPT ![c] = Tallied(@, size)]
    /\ CountsEcho(size)
    /\ UNCHANGED refused

OnMessageDropped(c, size) ==
    /\ Arrives(c, size)
    /\ lib = "uws" /\ Full(c)
    /\ refused' = [refused EXCEPT ![c] = Tallied(@, size)]
    /\ CountsEcho(size)
    /\ UNCHANGED <<unread, accepted>>

\* send throws: caught, reported, and nothing else.
OnMessageThrows(c, size) ==
    /\ Arrives(c, size)
    /\ lib = "tpp"
    /\ refused' = [refused EXCEPT ![c] = Tallied(@, size)]
    /\ stats' = Counted(size)
    /\ interval_start_ns' = Started
    /\ UNCHANGED <<unread, accepted, rows, now_ns>>

Step(c) ==
    \/ OnOpen(c)
    \/ OnClose(c)
    \/ ClientReads(c)
    \/ \E size \in Sizes :
         \/ ClientSends(c, size)
         \/ OnMessage(c, size)
         \/ OnMessageDropped(c, size)
         \/ OnMessageThrows(c, size)

Next == \E c \in Conns : Step(c)

Spec == Init /\ [][Next]_vars

-----------------------------------------------------------------------------
Total(tally) ==
    [msg |-> SumOver([c \in Conns |-> tally[c].msg], Conns),
     bytes |-> SumOver([c \in Conns |-> tally[c].bytes], Conns)]

\* Over all rows and the current interval, what is counted as received and not as
\* sent is what send threw for; a uws server also counts what send dropped.
LibBalance ==
    LET a == Total(accepted)
        r == Total(refused)
        all == WithRow(rows, stats)
        uncounted == IF lib = "tpp" THEN r ELSE [msg |-> 0, bytes |-> 0]
    IN  /\ all.recv_msg = a.msg + r.msg
        /\ all.recv_bytes = a.bytes + r.bytes
        /\ all.send_msg = all.recv_msg - uncounted.msg
        /\ all.send_bytes = all.recv_bytes - uncounted.bytes

\* The rates of a row are those of its interval: every message is counted in the
\* row in whose interval it is received.  The rows' messages came before the end
\* of the last row's interval, those in the counters since the current one began.
\* Intervals do not overlap, and in the time between two of them, which printing
\* the row takes, no message is received.
RowsMatchIntervals ==
    /\ interval_start_ns = 0 => Received = 0 /\ now_ns = 0
    /\ interval_start_ns # 0 =>
         /\ Clock(rows.recv_msg) <= now_ns
         /\ now_ns <= interval_start_ns
         /\ interval_start_ns <= Clock(rows.recv_msg + 1)

\* An interval goes on past its number of messages only if send threw in it: then
\* count_stats is not called and may be stepped over the multiple it waits for.
\* Past the bytes a websocketpp row is due by it goes on only until the next echo,
\* so what throws never keeps more than that many echoed bytes out of a row.
NoRowOverdue ==
    /\ stats.recv_msg = stats.send_msg => stats.recv_msg < INTERVAL
    /\ lib = "tpp" =>
         /\ stats.recv_msg = stats.send_msg => stats.recv_bytes <= MAX_BYTES
         /\ stats.send_bytes <= MAX_BYTES
=============================================================================
