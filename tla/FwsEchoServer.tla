--------------------------- MODULE FwsEchoServer ---------------------------
(***************************************************************************)
(* src/flashws/echo_server.cpp: one process, one FLoop, one ConnectCtx per *)
(* connection that collects the pieces of a message until it is complete   *)
(* and is then echoed.  Each action is one callback, run to completion.    *)
(***************************************************************************)
EXTENDS FwsWire, IntervalStats, Sums

CONSTANT SRV_MAX_LEN   \* MAX_DATA_LEN of the server: the room of a buffer

ASSUME SrvAssumption == SRV_MAX_LEN \in Nat \ {0}

VARIABLES
    con_buf,      \* con_ctx.io_buf.size of each connection, NoCtx without one
    stats,        \* the last_interval_* counters
    rows,         \* the totals of the rows written to the export file
    lost_bytes,   \* bytes of incomplete messages whose connection closed
    srv_proc      \* "running", or "aborted" by an assertion

srvVars == <<con_buf, stats, rows, lost_bytes, srv_proc>>

NoCtx == -1

SrvTypeOK ==
    /\ con_buf \in [Conns -> Nat \cup {NoCtx}]
    /\ stats \in Counters
    /\ rows \in Counters
    /\ lost_bytes \in Nat
    /\ srv_proc \in {"running", "aborted"}

SrvInit ==
    /\ con_buf = [c \in Conns |-> NoCtx]
    /\ stats = NoTraffic
    /\ rows = NoTraffic
    /\ lost_bytes = 0
    /\ srv_proc = "running"

-----------------------------------------------------------------------------
\* SetOnNewConnection: the handshake request arrived; the context is constructed.
SrvOnNewConnection(c) ==
    /\ srv_proc = "running"
    /\ srv_link[c] = "none"
    /\ cli_link[c] = "connecting"
    /\ c \notin broken
    /\ srv_link' = [srv_link EXCEPT ![c] = "open"]
    /\ con_buf' = [con_buf EXCEPT ![c] = 0]
    /\ UNCHANGED <<cli_link, c2s, s2c, broken, faults,
                   stats, rows, lost_bytes, srv_proc>>

SrvReadable(c, n) ==
    /\ srv_proc = "running"
    /\ srv_link[c] = "open"
    /\ Piece(c2s, c, n)

\* SetOnRead, !is_msg_end: the piece is appended to the buffer and counted.
SrvOnReadPiece(c, n) ==
    /\ SrvReadable(c, n)
    /\ n # Head(c2s[c])
    /\ c2s' = Take(c2s, c, n)
    /\ con_buf' = [con_buf EXCEPT ![c] = @ + n]
    /\ stats' = ReceivedBytes(stats, n)
    /\ UNCHANGED <<cli_link, srv_link, s2c, broken, faults,
                   rows, lost_bytes, srv_proc>>

\* Variants with a bug, for the runs' mutants: only the last piece is echoed; the
\* buffer is not replaced; the context is not destroyed.
LastPieceSize(c) == Head(c2s[c])
TargetSize(c) == con_buf[c] + Head(c2s[c])
UsedBuffer(c) == [con_buf EXCEPT ![c] = TargetSize(c)]
LeakedCtx(c) == con_buf
FreshBuffer(c) == [con_buf EXCEPT ![c] = 0]
NoMoreCtx(c) == [con_buf EXCEPT ![c] = NoCtx]

\* SetOnRead, is_msg_end: the whole message goes back, CountStats looks at the
\* counters, and the context gets a fresh buffer.
SrvOnReadMessage(c) ==
    LET n == Head(c2s[c])
        target_size == TargetSize(c)
        counted == EchoedMessage(ReceivedBytes(stats, n), target_size)
    IN  /\ SrvReadable(c, n)
        /\ c2s' = Take(c2s, c, n)
        /\ s2c' = Put(s2c, c, target_size)
        /\ con_buf' = FreshBuffer(c)
        /\ stats' = CountStats(counted)
        /\ rows' = Exported(rows, counted)
        /\ UNCHANGED <<cli_link, srv_link, broken, faults, lost_bytes, srv_proc>>

\* FWS_ASSERT(write_ret >= 0) fails on a link that is gone: the process dies and
\* the kernel drops all its connections.
SrvAbort(c) ==
    /\ SrvReadable(c, Head(c2s[c]))
    /\ c \in broken
    /\ srv_proc' = "aborted"
    /\ broken' = Conns
    /\ UNCHANGED <<cli_link, srv_link, c2s, s2c, faults,
                   con_buf, stats, rows, lost_bytes>>

\* SetOnClose, on the client's close frame or on the loss of the link.
SrvOnClose(c) ==
    /\ srv_proc = "running"
    /\ srv_link[c] = "open"
    /\ \/ /\ c2s[c] # <<>> /\ Head(c2s[c]) = CLOSE
          /\ c2s' = [c2s EXCEPT ![c] = Tail(@)]
       \/ /\ c \in broken
          /\ UNCHANGED c2s
    /\ srv_link' = [srv_link EXCEPT ![c] = "closed"]
    /\ con_buf' = NoMoreCtx(c)
    /\ lost_bytes' = lost_bytes + con_buf[c]
    /\ UNCHANGED <<cli_link, s2c, broken, faults, stats, rows, srv_proc>>

SrvStep(c) ==
    \/ SrvOnNewConnection(c)
    \/ \E n \in 1..SRV_MAX_LEN : SrvOnReadPiece(c, n)
    \/ SrvOnReadMessage(c)
    \/ SrvAbort(c)
    \/ SrvOnClose(c)

-----------------------------------------------------------------------------
\* Bytes received of messages that are still incomplete.
PendingBytes ==
    SumOver([c \in Conns |-> IF con_buf[c] = NoCtx THEN 0 ELSE con_buf[c]], Conns)

\* Every byte received is in exactly one place: echoed, waiting in a buffer for
\* the rest of its message, or lost with its connection.  A row clears the
\* counters of all connections at once, in the middle of other connections'
\* messages, and must not lose or repeat any of those bytes.
BytesBalance ==
    rows.recv_bytes + stats.recv_bytes
        = rows.send_bytes + stats.send_bytes + PendingBytes + lost_bytes

\* Rows come every INTERVAL messages, none is skipped, and a row counts as many
\* echoes as messages.
RowsAreWholeIntervals ==
    /\ stats.recv_msg < INTERVAL
    /\ rows.recv_msg % INTERVAL = 0
    /\ stats.send_msg = stats.recv_msg
    /\ rows.send_msg = rows.recv_msg
=============================================================================
