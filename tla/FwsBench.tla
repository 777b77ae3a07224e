------------------------------ MODULE FwsBench ------------------------------
(***************************************************************************)
(* A flashws benchmark run: one echo_client process against one            *)
(* echo_server process over TCP links that may fail.                       *)
(***************************************************************************)
EXTENDS FwsEchoClient, FwsEchoServer

\* The server is started with room for the messages the client will send.
ASSUME RoomAssumption == MSG_LEN <= SRV_MAX_LEN

vars == <<wireVars, srvVars, cliVars>>

Init ==
    /\ cli_link = [c \in Conns |-> IF First(c) THEN "connecting" ELSE "none"]
    /\ srv_link = [c \in Conns |-> "none"]
    /\ c2s = [c \in Conns |-> <<>>]
    /\ s2c = [c \in Conns |-> <<>>]
    /\ broken = {}
    /\ faults = 0
    /\ SrvInit
    /\ CliInit

ClientStep(c) == CliStep(c) /\ UNCHANGED srvVars
ClientExit == CliLoopExit /\ UNCHANGED srvVars
ServerStep(c) == SrvStep(c) /\ UNCHANGED cliVars
LinkFails(c) == BreakLink(c) /\ UNCHANGED <<srvVars, cliVars>>

\* The run is over: the client process is gone and the server, which never
\* stops, has no connection left.
Over ==
    /\ proc \in {"exited", "aborted"}
    /\ srv_proc = "running" => \A c \in Conns : srv_link[c] # "open"
    /\ \A c \in Conns \ broken :
         ~(srv_link[c] = "none" /\ cli_link[c] = "connecting")
Terminated == Over /\ UNCHANGED vars

Next ==
    \/ \E c \in Conns : ClientStep(c) \/ ServerStep(c) \/ LinkFails(c)
    \/ ClientExit
    \/ Terminated

Spec == Init /\ [][Next]_vars

\* Both processes are single-threaded loops over epoll: a socket that has an
\* event stays ready until its callback runs, so no connection is starved, and
\* a loop that was told to stop does stop.
Fairness ==
    /\ \A c \in Conns : WF_vars(ClientStep(c)) /\ WF_vars(ServerStep(c))
    /\ WF_vars(ClientExit)
FairSpec == Spec /\ Fairness

TypeOK == WireTypeOK /\ SrvTypeOK /\ CliTypeOK
-----------------------------------------------------------------------------
\* Ping-pong: while both ends of a connection are up, exactly one message is on
\* it, wherever its bytes are - in the one frame under way or in one of the two
\* buffers.  The memcpy's of both OnRead handlers rely on it.
OneMessageUnderWay ==
    \A c \in Conns :
        cli_link[c] = "open" /\ srv_link[c] = "open" =>
            LET frames == c2s[c] \o s2c[c]
            IN  /\ Len(frames) = 1
                /\ temp_buf[c] + con_buf[c] + frames[1] = MSG_LEN

\* Neither OnRead copies past the end of its buffer (echo_client.cpp:201,
\* echo_server.cpp:200 have no check), whatever links fail.
NoOverrun ==
    \A c \in Conns : temp_buf[c] <= MSG_LEN /\ con_buf[c] <= SRV_MAX_LEN

\* Every counted round trip is a sample of its own, timed from the write of
\* just that message, in order: the histogram has no sample that spans two
\* messages, a reconnection, or nothing.
SamplesAreRoundTrips ==
    /\ loop_cnt = Cardinality(rtt_hist)
    /\ rtt_hist = {s \in Conns \X Messages : s[2] <= msg_cnt[s[1]]}

\* A row of results is only written for a complete run: all samples of all
\* lives of all clients are in the histogram, and every byte went both ways.
RowIsComplete ==
    end_calls > 0 =>
        /\ row.hist = Conns \X Messages
        /\ row.sent = TOTAL_MSG_CNT * MSG_LEN
        /\ row.received = row.sent

\* Once EndClient has been called - from any of its three places, by a complete
\* run or by one that a fault has left without sockets - the figures are final:
\* whatever callbacks still run, before or after the loop heeds StopRun, no round
\* trip is measured and no byte is sent or counted any more.  EndClient may be
\* called again (nothing prevents it); each call would print the same row.
ReportIsFinal == [][end_calls > 0 => UNCHANGED sumVars]_vars

\* A client has one connection at work, and is reborn only after the life
\* before it has made all its round trips.
OneLifeAtATime ==
    \A c, d \in Conns :
        c[1] = d[1] /\ c[2] < d[2] /\ cli_link[d] # "none" =>
            /\ cli_link[c] \in {"closing", "closed"}
            /\ msg_cnt[c] = MSG_LIMIT_PER_CLIENT

\* Neither process ever aborts if no link fails and no call returns an error:
\* the assertions and the hash comparison hold.
NoAbort == faults = 0 => proc # "aborted" /\ srv_proc = "running"

\* The bytes of the frames under way in a direction.
BytesUnderWay(channel) == SumOver([c \in Conns |-> SumSeq(channel[c])], Conns)

\* What the client has sent is what the server has counted, over all rows and
\* the current interval, or still under way; and the same on the way back.
Ledger ==
    faults = 0 /\ proc # "exited" =>
        /\ send_bytes_sum = rows.recv_bytes + stats.recv_bytes
                            + BytesUnderWay(c2s)
        /\ recv_bytes_sum = rows.send_bytes + stats.send_bytes
                            - BytesUnderWay(s2c)
-----------------------------------------------------------------------------
\* The run implements BenchmarkRun: the histogram is its samples, and the first
\* EndClient its report.
Results == INSTANCE BenchmarkRun WITH
    Lives <- Conns, LIMIT <- MSG_LIMIT_PER_CLIENT,
    samples <- rtt_hist, reported <- end_calls > 0, failed <- faults > 0

\* No row before every life of every client is measured, in order - even when
\* links and calls fail.
ImplementsRun == Results!Spec

\* Without faults the measuring goes on until the row is written.
ImplementsFairRun == Results!FairSpec

\* The client process ends by itself after a run without faults.
Exits == <>(proc = "exited" \/ faults > 0)

\* A fault stops the client whose connection it hits (its lives are not taken
\* up again and the process never reports), but no other client: unless a
\* process aborts, every other one is measured to the end.
SurvivorsFinish ==
    \A k \in Clients :
        <>(\/ \A c \in Conns : c[1] = k => msg_cnt[c] = MSG_LIMIT_PER_CLIENT
           \/ proc = "running" /\ \E c \in broken : c[1] = k
           \/ proc = "aborted"
           \/ srv_proc = "aborted")
-----------------------------------------------------------------------------
(***************************************************************************)
(* The inductive invariant.  A connection is in one of four phases, by     *)
(* what is under way on it: nothing, a request (partly read by the server),*)
(* an echo (partly read by the client) or the client's close frame.  An    *)
(* end that has closed, or never opened, has no buffer.                    *)
(***************************************************************************)
SrvHolds(c, n) == con_buf[c] \in {n, NoCtx}

Nothing(c) ==
    /\ c2s[c] = <<>> /\ s2c[c] = <<>>
    /\ SrvHolds(c, 0)
    /\ \/ cli_link[c] = "connecting" /\ temp_buf[c] = MSG_LEN
       \/ cli_link[c] = "closing" /\ temp_buf[c] = 0
       \/ cli_link[c] \in {"none", "closed"} /\ temp_buf[c] = NoBuf

Request(c) ==
    \E left \in 1..MSG_LEN :
        /\ c2s[c] = <<left>> /\ s2c[c] = <<>>
        /\ SrvHolds(c, MSG_LEN - left)
        /\ \/ cli_link[c] = "open" /\ temp_buf[c] = 0
           \/ cli_link[c] = "closed" /\ temp_buf[c] = NoBuf

Echo(c) ==
    \E left \in 1..MSG_LEN :
        /\ c2s[c] = <<>> /\ s2c[c] = <<left>>
        /\ SrvHolds(c, 0)
        /\ \/ cli_link[c] = "open" /\ temp_buf[c] = MSG_LEN - left
           \/ cli_link[c] = "closed" /\ temp_buf[c] = NoBuf

Goodbye(c) ==
    /\ c2s[c] = <<CLOSE>> /\ s2c[c] = <<>>
    /\ SrvHolds(c, 0)
    /\ \/ cli_link[c] = "closing" /\ temp_buf[c] = 0
       \/ cli_link[c] = "closed" /\ temp_buf[c] = NoBuf

Phases(c) == Nothing(c) \/ Request(c) \/ Echo(c) \/ Goodbye(c)

\* The server's context lives as long as its socket is open.
SrvCtx(c) == srv_link[c] = "open" <=> con_buf[c] # NoCtx

\* The client's context follows the life of its socket.
CliCtx(c) ==
    /\ cli_link[c] # "none" => reborn_cnt[c] = c[2]
    /\ cli_link[c] = "open" => srv_link[c] # "none"
    /\ cli_link[c] \in {"none", "connecting"} => msg_cnt[c] = 0
    /\ cli_link[c] = "open" => /\ msg_cnt[c] < MSG_LIMIT_PER_CLIENT
                               /\ start_write_tick[c] = msg_cnt[c] + 1
    /\ cli_link[c] = "closing" => msg_cnt[c] = MSG_LIMIT_PER_CLIENT

ConnOK(c) == Phases(c) /\ SrvCtx(c) /\ CliCtx(c)

ConnInv == \A c \in Conns : ConnOK(c)

IInv == TypeOK /\ ConnInv /\ OneLifeAtATime /\ SamplesAreRoundTrips
-----------------------------------------------------------------------------
(***************************************************************************)
(* What the results rest on, besides: when the run may end, whose lives    *)
(* are still to come, what a run without faults looks like, and what the   *)
(* byte counters have counted.                                             *)
(***************************************************************************)
\* Every round trip of every life of every client is measured.
Complete == \A c \in Conns : msg_cnt[c] = MSG_LIMIT_PER_CLIENT

\* The client's loop stops only at the end of the run; and, unless on_close runs
\* inside Close while a fault has thinned out the sockets, that is at Complete.
EndsInOrder == CLOSE_MODES = {"deferred"} \/ faults = 0
Ended ==
    /\ proc \in {"stopping", "exited"} => end_calls > 0
    /\ EndsInOrder /\ end_calls > 0 => Complete

\* A client whose lives are not all measured is in one of them.
CurrentLife ==
    \A k \in Clients :
        \E n \in 1..REBORN_LIMIT_FOR_CLIENT :
            /\ cli_link[<<k, n>>] # "none"
            /\ msg_cnt[<<k, n>>] = MSG_LIMIT_PER_CLIENT => n = REBORN_LIMIT_FOR_CLIENT

\* What holds as long as nothing has failed.
Unhurt ==
    /\ srv_proc = "running"
    /\ proc # "aborted"
    /\ proc # "exited" => broken = {}
    /\ \A c \in Conns :
         cli_link[c] = "closed" => /\ msg_cnt[c] = MSG_LIMIT_PER_CLIENT
                                   /\ c2s[c] \in {<<>>, <<CLOSE>>}

RunInv == Ended /\ CurrentLife /\ (faults = 0 => Unhurt)

\* The bytes the client has counted as sent are those of the messages whose write
\* was timed.
SentInv ==
    /\ send_bytes_sum = MSG_LEN * SumOver(start_write_tick, Conns)
    /\ \A c \in Conns :
         /\ msg_cnt[c] <= start_write_tick[c]
         /\ cli_link[c] \in {"none", "connecting"} => start_write_tick[c] = 0

\* Those it has counted as received are of the measured messages and of the ones
\* it is collecting, unless a connection was lost with part of a message.
Collected == [c \in Conns |-> IF cli_link[c] = "open" THEN temp_buf[c] ELSE 0]
ClosedInOrder ==
    \A c \in Conns : cli_link[c] = "closed" => msg_cnt[c] = MSG_LIMIT_PER_CLIENT
ReceivedInv ==
    ClosedInOrder =>
        recv_bytes_sum = MSG_LEN * loop_cnt + SumOver(Collected, Conns)

RowInv ==
    EndsInOrder /\ end_calls > 0 =>
        /\ row.hist = Conns \X Messages
        /\ row.sent = MSG_LEN * TOTAL_MSG_CNT
        /\ row.received = MSG_LEN * TOTAL_MSG_CNT

\* A run that has ended has no connection left on which a message could still go
\* out or come in.
Settled ==
    end_calls > 0 => \A c \in Conns : cli_link[c] \notin {"connecting", "open"}

BenchInv == IInv /\ RunInv /\ SentInv /\ ReceivedInv /\ RowInv /\ Settled
=============================================================================
