-------------------------- MODULE UsTcpEchoServer --------------------------
(***************************************************************************)
(* src/usockets-tcp/echo_server.cpp: an echo server on plain TCP or TLS    *)
(* that cuts the byte stream into messages of MAX_DATA_LEN.  Its one       *)
(* Buffer per connection has two uses: it collects a message whose bytes   *)
(* arrive in several reads, and it keeps what the socket did not accept of *)
(* an echo.  Whether both can be needed at once depends on the clients,    *)
(* so bytes have an identity here: a client sends the bytes 1, 2, 3...     *)
(*                                                                         *)
(* One action per callback, run to completion by the one thread of the     *)
(* loop.  us_socket_write accepts any part of what it is given; if that is *)
(* not all, the library calls on_writable when the socket has room again.  *)
(***************************************************************************)
EXTENDS IntervalStats, Sequences, SequencesExt, Sums

CONSTANTS
    Conns,          \* the connections
    MAX_DATA_LEN,   \* 64 in test_def.h
    PIPELINE,       \* how many messages a client has under way at most
    MAX_MSGS        \* bound: messages a client sends on a connection

ASSUME UsAssumption ==
    /\ IsFiniteSet(Conns)
    /\ MAX_DATA_LEN \in Nat \ {0}
    /\ PIPELINE \in Nat \ {0}
    /\ MAX_MSGS \in Nat

VARIABLES
    sock,                 \* "none", "open" or "closed"
    sent,                 \* how many bytes the client has sent
    taken,                \* how many of them on_data has been given
    got,                  \* the bytes the socket has accepted for the client
    data,                 \* Buffer.data
    start_pos, size,      \* Buffer.start_pos, Buffer.size
    want_write,           \* the library watches for room to write
    active_conns_in_ctx,  \* echo_socket.active_conns_in_ctx
    active_connections,
    dup_act_conns,
    stats,                \* the last_interval_* counters
    rows,                 \* the totals of the lines CountStats printed
    lost_bytes            \* buffered bytes whose connection closed

bufVars == <<data, start_pos, size>>
connVars == <<active_conns_in_ctx, active_connections, dup_act_conns>>
statVars == <<stats, rows, lost_bytes>>
vars == <<sock, sent, taken, got, bufVars, want_write, connVars, statVars>>

Cells == 0..(MAX_DATA_LEN - 1)

UsTypeOK ==
    /\ sock \in [Conns -> {"none", "open", "closed"}]
    /\ sent \in [Conns -> Nat]
    /\ taken \in [Conns -> Nat]
    /\ got \in [Conns -> Seq(Nat)]
    /\ data \in [Conns -> [Cells -> Nat]]
    /\ start_pos \in [Conns -> Nat]
    /\ size \in [Conns -> Nat]
    /\ want_write \in [Conns -> BOOLEAN]
    /\ active_conns_in_ctx \in [Conns -> Int]
    /\ active_connections \in Int
    /\ dup_act_conns \in Int
    /\ stats \in Counters
    /\ rows \in Counters
    /\ lost_bytes \in Nat

Init ==
    /\ sock = [c \in Conns |-> "none"]
    /\ sent = [c \in Conns |-> 0]
    /\ taken = [c \in Conns |-> 0]
    /\ got = [c \in Conns |-> <<>>]
    /\ data = [c \in Conns |-> [i \in Cells |-> 0]]
    /\ start_pos = [c \in Conns |-> 0]
    /\ size = [c \in Conns |-> 0]
    /\ want_write = [c \in Conns |-> FALSE]
    /\ active_conns_in_ctx = [c \in Conns |-> 0]
    /\ active_connections = 0
    /\ dup_act_conns = 0
    /\ stats = NoTraffic
    /\ rows = NoTraffic
    /\ lost_bytes = 0

-----------------------------------------------------------------------------
\* The client: whole messages, at most PIPELINE of them not echoed yet.
ClientSends(c) ==
    /\ sock[c] = "open"
    /\ sent[c] < MAX_MSGS * MAX_DATA_LEN
    /\ sent[c] - Len(got[c]) <= (PIPELINE - 1) * MAX_DATA_LEN
    /\ sent' = [sent EXCEPT ![c] = @ + MAX_DATA_LEN]
    /\ UNCHANGED <<sock, taken, got, bufVars, want_write, connVars, statVars>>

-----------------------------------------------------------------------------
\* on_echo_socket_open
OnOpen(c) ==
    /\ sock[c] = "none"
    /\ sock' = [sock EXCEPT ![c] = "open"]
    /\ start_pos' = [start_pos EXCEPT ![c] = 0]
    /\ size' = [size EXCEPT ![c] = 0]
    /\ active_conns_in_ctx' = [active_conns_in_ctx EXCEPT ![c] = 1]
    /\ dup_act_conns' = 1
    /\ active_connections' = active_connections + 1
    /\ UNCHANGED <<sent, taken, got, data, want_write, statVars>>

\* on_echo_socket_close, after a reset by the client, or from on_echo_socket_end
\* when the client has shut down its side: whatever is buffered is dropped.
OnClose(c) ==
    /\ sock[c] = "open"
    /\ sock' = [sock EXCEPT ![c] = "closed"]
    /\ active_connections' = active_connections - 1
    /\ active_conns_in_ctx' = [active_conns_in_ctx EXCEPT ![c] = @ - 1]
    /\ dup_act_conns' = active_conns_in_ctx[c] - 1
    /\ lost_bytes' = lost_bytes + size[c]
    /\ UNCHANGED <<sent, taken, got, bufVars, want_write, stats, rows>>

\* Counting, in the order of the callbacks.
CountRead(s, length) == [ReceivedBytes(s, length) EXCEPT !.recv_msg = @ + 1]
CountWritten(s, written) == [s EXCEPT !.send_bytes = @ + written]
CountEcho(s) == [s EXCEPT !.send_msg = @ + 1]

\* Once counters s hold what was written: an echo that is out is counted, and
\* CountStats looks at the counters.  A variant with a bug, for the runs'
\* mutants: an echo is counted although some of it is left.
CountPartialEcho(s, left) ==
    /\ stats' = CountStats(CountEcho(s))
    /\ rows' = Exported(rows, CountEcho(s))
AfterWrite(s, left) ==
    IF left = 0
    THEN /\ stats' = CountStats(CountEcho(s))
         /\ rows' = Exported(rows, CountEcho(s))
    ELSE /\ stats' = s
         /\ UNCHANGED rows

\* memcpy of bytes to data + at, and the n bytes from data + at on.
Copied(cells, at, bytes) ==
    [i \in Cells |-> IF i - at + 1 \in DOMAIN bytes THEN bytes[i - at + 1]
                                                    ELSE cells[i]]
Held(cells, at, n) == [i \in 1..n |-> cells[at + i - 1]]

Delivered(c, length) ==
    /\ sock[c] = "open"
    /\ length \in 1..(sent[c] - taken[c])
    /\ taken' = [taken EXCEPT ![c] = @ + length]
Arriving(c, length) == [i \in 1..length |-> taken[c] + i]

\* What is left of n bytes.  A variant with a bug, for the runs' mutants: the
\* operands are swapped.
LeftSwapped(n, written) == written - n
Left(n, written) == n - written

\* on_echo_socket_data, length == MAX_DATA_LEN: the read is a whole message and
\* is written straight from the library's buffer; the rest goes to the Buffer.
OnDataWhole(c, written) ==
    LET bytes == Arriving(c, MAX_DATA_LEN)
        left == Left(MAX_DATA_LEN, written)
    IN  /\ Delivered(c, MAX_DATA_LEN)
        /\ got' = [got EXCEPT ![c] = @ \o SubSeq(bytes, 1, written)]
        /\ IF left > 0
           THEN /\ data' = [data EXCEPT ![c] =
                              Copied(@, 0, SubSeq(bytes, written + 1, MAX_DATA_LEN))]
                /\ size' = [size EXCEPT ![c] = left]
           ELSE UNCHANGED <<data, size>>
        /\ AfterWrite(CountWritten(CountRead(stats, MAX_DATA_LEN), written), left)
        /\ want_write' = [want_write EXCEPT ![c] = @ \/ left > 0]
        /\ UNCHANGED <<sock, sent, start_pos, connVars, lost_bytes>>

\* Otherwise the read is appended to the Buffer.  A read it has no room for is
\* undefined behaviour, and no step here: see InBounds.  A variant with a bug, for the
\* runs' mutants: it always goes to the front.
AppendAtFront(c) == 0
AppendAt(c) == size[c]
\* When the Buffer is full the message is complete.  A variant with a bug, for the
\* runs' mutants: a byte early.
CompletesEarly(c, length) == size[c] + length = MAX_DATA_LEN - 1
Completes(c, length) == size[c] + length = MAX_DATA_LEN

OnDataPart(c, length) ==
    /\ Delivered(c, length)
    /\ size[c] + length < MAX_DATA_LEN
    /\ data' = [data EXCEPT ![c] = Copied(@, AppendAt(c), Arriving(c, length))]
    /\ size' = [size EXCEPT ![c] = @ + length]
    /\ stats' = CountRead(stats, length)
    /\ UNCHANGED <<sock, sent, got, start_pos, want_write, connVars, rows,
                   lost_bytes>>

\* Where the unsent bytes start after a write.  A variant with a bug, for the
\* runs' mutants: the position is not reset once all is written.
KeptPos(pos, written, left) == pos + written
NextPos(pos, written, left) == IF left = 0 THEN 0 ELSE pos + written

OnDataLast(c, length, written) ==
    LET full == Copied(data[c], AppendAt(c), Arriving(c, length))
        left == Left(MAX_DATA_LEN, written)
    IN  /\ Delivered(c, length)
        /\ length # MAX_DATA_LEN
        /\ Completes(c, length)
        /\ data' = [data EXCEPT ![c] = full]
        /\ got' = [got EXCEPT ![c] = @ \o Held(full, 0, written)]
        /\ start_pos' = [start_pos EXCEPT ![c] = NextPos(@, written, left)]
        /\ size' = [size EXCEPT ![c] = left]
        /\ AfterWrite(CountWritten(CountRead(stats, length), written), left)
        /\ want_write' = [want_write EXCEPT ![c] = @ \/ left > 0]
        /\ UNCHANGED <<sock, sent, connVars, lost_bytes>>

\* on_echo_socket_writable: there is room for a byte at least.  That the library calls
\* it only after an unfinished write is assumed; the handler itself does not check.
OnWritable(c, written) ==
    LET left == Left(size[c], written)
    IN  /\ sock[c] = "open"
        /\ want_write[c]
        /\ start_pos[c] + size[c] <= MAX_DATA_LEN
        /\ written \in 0..size[c] /\ (written = 0 => size[c] = 0)
        /\ got' = [got EXCEPT ![c] = @ \o Held(data[c], start_pos[c], written)]
        /\ size' = [size EXCEPT ![c] = left]
        /\ start_pos' = [start_pos EXCEPT ![c] = NextPos(@, written, left)]
        /\ AfterWrite(CountWritten(stats, written), left)
        /\ want_write' = [want_write EXCEPT ![c] = left > 0]
        /\ UNCHANGED <<sock, sent, taken, data, connVars, lost_bytes>>

\* The reads and writes of a connection: the only callbacks that must happen.
Serve(c) ==
    \/ \E written \in 0..MAX_DATA_LEN : OnDataWhole(c, written)
    \/ \E length \in 1..sent[c] :
         \/ OnDataPart(c, length)
         \/ \E written \in 0..MAX_DATA_LEN : OnDataLast(c, length, written)
    \/ \E written \in 0..MAX_DATA_LEN : OnWritable(c, written)

ConnStep(c) == ClientSends(c) \/ OnOpen(c) \/ OnClose(c)

Next == \E c \in Conns : ConnStep(c) \/ Serve(c)

Spec == Init /\ [][Next]_vars

\* The loop is level-triggered epoll, and a client reads its echoes: a socket with
\* something to read or room to write is served.
FairSpec == Spec /\ \A c \in Conns : WF_vars(Serve(c))

-----------------------------------------------------------------------------
Bytes(m, n) == [i \in 1..(n - m) |-> m + i]
BufferBytes == SumOver([c \in Conns |-> IF sock[c] = "open" THEN size[c] ELSE 0], Conns)

\* Every byte of an open connection is in one place and in order: echoed, in the
\* Buffer from start_pos on, or not read yet.  The Buffer's two uses, collecting
\* a message and keeping what the socket refused, never mix.
EchoStream ==
    \A c \in Conns :
        sock[c] = "open" =>
            got[c] \o Held(data[c], start_pos[c], size[c]) \o Bytes(taken[c], sent[c])
                = Bytes(0, sent[c])

\* No memcpy and no write leaves a Buffer, though nothing checks the sizes at :180
\* and :111: there is room for every byte that may still arrive.
InBounds ==
    \A c \in Conns :
        /\ start_pos[c] + size[c] <= MAX_DATA_LEN
        /\ sock[c] = "open" => size[c] + sent[c] - taken[c] <= MAX_DATA_LEN

\* Bytes received are echoed, buffered, or lost with their connection, also when
\* CountStats clears the counters in between.
UsBytesBalance ==
    rows.recv_bytes + stats.recv_bytes
        = rows.send_bytes + stats.send_bytes + BufferBytes + lost_bytes

\* An echo is counted once, when its last byte is out, on whichever of the three
\* paths that happens.
EchoesCounted ==
    rows.send_msg + stats.send_msg
        = SumOver([c \in Conns |-> Len(got[c]) \div MAX_DATA_LEN], Conns)

\* The messages a client has got back: 0 for one that is not what it sent.
Replies(c) ==
    [i \in 1..(Len(got[c]) \div MAX_DATA_LEN) |->
        IF \A k \in ((i - 1) * MAX_DATA_LEN + 1)..(i * MAX_DATA_LEN) : got[c][k] = k
        THEN i ELSE 0]

Service == INSTANCE EchoService WITH
    requests <- [c \in Conns |-> sent[c] \div MAX_DATA_LEN],
    replies <- [c \in Conns |-> Replies(c)],
    down <- {c \in Conns : sock[c] = "closed"}

\* Every message of a client is echoed to its last byte, once and in order, unless
\* its connection closes first: however the reads and writes cut it.
ImplementsEcho == Service!FairSpec

\* What a reader of the source or of the output takes the program to do:
\* line 1, "a basic TCP/TLS echo server": the client gets its own bytes in order.
EchoInOrder == \A c \in Conns : IsPrefix(got[c], Bytes(0, sent[c]))

\* Lines 37 and 92, "socket context extension", "active_cnt in ctx": the count of
\* the context's connections.
CtxCountIsActive == dup_act_conns = active_connections

\* Line 91, "10^6 msg/sec": the receive side counts messages.
ReceivedMessagesCounted ==
    rows.recv_msg + stats.recv_msg
        <= SumOver([c \in Conns |-> sent[c] \div MAX_DATA_LEN], Conns)
=============================================================================
