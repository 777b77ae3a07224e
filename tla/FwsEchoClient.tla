--------------------------- MODULE FwsEchoClient ---------------------------
(***************************************************************************)
(* src/flashws/echo_client.cpp: one benchmark process.  It keeps           *)
(* Cardinality(Clients) connections busy with ping-pong: a connection has  *)
(* one message under way, and sends the buffer the echo came back in as    *)
(* the next message.  After MSG_LIMIT_PER_CLIENT round trips it is closed  *)
(* and reborn as a new connection; a connection is <<client, n>>, the n-th *)
(* life of a client.  When TOTAL_MSG_CNT round trips are measured the      *)
(* process writes one row of results and stops its loop.                   *)
(*                                                                         *)
(* Each action is one callback, run to completion.  Two things the program *)
(* relies on depend on the library, and are parameters: whether Close runs *)
(* the on_close callback before it returns ("sync") or the loop runs it    *)
(* later ("deferred"), and whether a loop that was told to stop still      *)
(* delivers the rest of the events it has polled.                          *)
(***************************************************************************)
EXTENDS FwsWire

CONSTANTS
    Clients,                  \* CON_CLIENT_NUM of them
    MSG_LEN,                  \* MAX_DATA_LEN of the client
    MSG_LIMIT_PER_CLIENT,     \* round trips of one connection
    REBORN_LIMIT_FOR_CLIENT,  \* connections in the life of a client
    HASH_PERIOD,              \* 0x4000: how often the echo's hash is compared
    CLOSE_MODES,              \* when the on_close of a Close may run
    RUN_ON                    \* may polled events be delivered after StopRun

\* TestWsClient rejects arguments that are not positive.
ASSUME ClientAssumption ==
    /\ Clients # {} /\ IsFiniteSet(Clients)
    /\ MSG_LEN \in Nat \ {0}
    /\ MSG_LIMIT_PER_CLIENT \in Nat \ {0}
    /\ REBORN_LIMIT_FOR_CLIENT \in Nat \ {0}
    /\ HASH_PERIOD \in Nat \ {0}
    /\ CLOSE_MODES \in (SUBSET {"sync", "deferred"}) \ {{}}
    /\ RUN_ON \in BOOLEAN

ASSUME ConnsAssumption == Conns = Clients \X (1..REBORN_LIMIT_FOR_CLIENT)

\* A variant with a bug, for the runs' mutants: reborn connections not counted.
TotalWithoutReborn == MSG_LIMIT_PER_CLIENT * Cardinality(Clients)
TOTAL_MSG_CNT ==
    MSG_LIMIT_PER_CLIENT * Cardinality(Clients) * REBORN_LIMIT_FOR_CLIENT

VARIABLES
    temp_buf,          \* ClientCtx.temp_buf.size, NoBuf when there is no ClientCtx
    reborn_cnt,        \* ClientCtx.reborn_cnt
    msg_cnt,           \* ClientCtx.msg_cnt
    start_write_tick,  \* the message whose write the tick timestamps, 0 if none
    rtt_hist,          \* the samples <<connection, timed message>>
    loop_cnt,
    send_bytes_sum,
    recv_bytes_sum,
    row,               \* what the first EndClient printed
    end_calls,         \* how often EndClient has run
    proc               \* "running", "stopping", "exited" or "aborted"

ctxVars == <<temp_buf, reborn_cnt, msg_cnt, start_write_tick>>
sumVars == <<rtt_hist, loop_cnt, send_bytes_sum, recv_bytes_sum>>
endVars == <<row, end_calls, proc>>
cliVars == <<ctxVars, sumVars, endVars>>

NoBuf == -1
Messages == 1..MSG_LIMIT_PER_CLIENT

CliTypeOK ==
    /\ temp_buf \in [Conns -> Nat \cup {NoBuf}]
    /\ reborn_cnt \in [Conns -> 0..REBORN_LIMIT_FOR_CLIENT]
    /\ msg_cnt \in [Conns -> 0..MSG_LIMIT_PER_CLIENT]
    /\ start_write_tick \in [Conns -> 0..MSG_LIMIT_PER_CLIENT]
    /\ rtt_hist \in SUBSET (Conns \X (0..MSG_LIMIT_PER_CLIENT))
    /\ loop_cnt \in Nat
    /\ send_bytes_sum \in Nat
    /\ recv_bytes_sum \in Nat
    /\ row \in [hist : SUBSET (Conns \X (0..MSG_LIMIT_PER_CLIENT)),
                sent : Nat, received : Nat]
    /\ end_calls \in Nat
    /\ proc \in {"running", "stopping", "exited", "aborted"}

\* TestWsClient added the first connection of every client; the loop runs.
First(c) == c[2] = 1
CliInit ==
    /\ temp_buf = [c \in Conns |-> IF First(c) THEN MSG_LEN ELSE NoBuf]
    /\ reborn_cnt = [c \in Conns |-> IF First(c) THEN 1 ELSE 0]
    /\ msg_cnt = [c \in Conns |-> 0]
    /\ start_write_tick = [c \in Conns |-> 0]
    /\ rtt_hist = {}
    /\ loop_cnt = 0
    /\ send_bytes_sum = 0
    /\ recv_bytes_sum = 0
    /\ row = [hist |-> {}, sent |-> 0, received |-> 0]
    /\ end_calls = 0
    /\ proc = "running"

LoopDelivers == proc = "running" \/ (RUN_ON /\ proc = "stopping")
-----------------------------------------------------------------------------
\* A variant with a bug, for the runs' mutants: StopRun is not called.
EndWithoutStop(times) ==
    /\ end_calls' = end_calls + times
    /\ UNCHANGED <<proc, row>>

\* EndClient, run `times` times by one callback: StopRun, the row, fclose.
\* The row shows the sums as the callback left them.
EndClient(times) ==
    /\ end_calls' = end_calls + times
    /\ proc' = IF times > 0 THEN "stopping" ELSE proc
    /\ row' = IF times > 0 /\ end_calls = 0
              THEN [hist |-> rtt_hist', sent |-> send_bytes_sum',
                    received |-> recv_bytes_sum']
              ELSE row

\* std::abort or a failed assertion; the kernel drops the connections.
Abort ==
    /\ proc' = "aborted"
    /\ broken' = Conns
    /\ UNCHANGED <<cli_link, srv_link, c2s, s2c, ctxVars, sumVars, row, end_calls>>

\* Variants with a bug, for the runs' mutants: the size is taken after the move;
\* the moved-from buffer is kept; the timer is not restarted.
WriteCountsMovedBuffer(c, target_size) ==
    /\ c2s' = Put(c2s, c, target_size)
    /\ temp_buf' = [temp_buf EXCEPT ![c] = 0]
    /\ UNCHANGED send_bytes_sum
WriteKeepsBuffer(c, target_size) ==
    /\ c2s' = Put(c2s, c, target_size)
    /\ send_bytes_sum' = send_bytes_sum + target_size
    /\ UNCHANGED temp_buf
TimerKeepsRunning(c, message) == start_write_tick

\* cpu_timer.Start before the write of a message.
StartTimer(c, message) == [start_write_tick EXCEPT ![c] = message]

\* WriteFrame hands the whole buffer over, and a fresh one takes its place.
WriteFrame(c, target_size) ==
    /\ c2s' = Put(c2s, c, target_size)
    /\ send_bytes_sum' = send_bytes_sum + target_size
    /\ temp_buf' = [temp_buf EXCEPT ![c] = 0]

\* SetOnOpen and WriteFirstMsg: a full buffer starts the timer and goes out.
CliOnOpen(c) ==
    /\ LoopDelivers
    /\ cli_link[c] = "connecting" /\ srv_link[c] # "none"
    /\ cli_link' = [cli_link EXCEPT ![c] = "open"]
    /\ start_write_tick' = IF temp_buf[c] = MSG_LEN
                           THEN StartTimer(c, msg_cnt[c] + 1)
                           ELSE start_write_tick
    /\ WriteFrame(c, temp_buf[c])
    /\ UNCHANGED <<srv_link, s2c, broken, faults, reborn_cnt, msg_cnt,
                   rtt_hist, loop_cnt, recv_bytes_sum, endVars>>

\* WriteFirstMsg on a link that is gone.
CliOnOpenAborts(c) ==
    /\ LoopDelivers
    /\ cli_link[c] = "connecting" /\ srv_link[c] # "none"
    /\ c \in broken
    /\ Abort
    /\ UNCHANGED faults

CliReadable(c, n) ==
    /\ LoopDelivers
    /\ cli_link[c] = "open"
    /\ Piece(s2c, c, n)

\* SetOnRead, !is_msg_end.
CliOnReadPiece(c, n) ==
    /\ CliReadable(c, n)
    /\ n # Head(s2c[c])
    /\ s2c' = Take(s2c, c, n)
    /\ temp_buf' = [temp_buf EXCEPT ![c] = @ + n]
    /\ recv_bytes_sum' = recv_bytes_sum + n
    /\ UNCHANGED <<cli_link, srv_link, c2s, broken, faults,
                   reborn_cnt, msg_cnt, start_write_tick,
                   rtt_hist, loop_cnt, send_bytes_sum, endVars>>

\* The part of SetOnRead with is_msg_end that precedes its case split: append
\* the last piece, record the round trip, count it.
EchoSize(c) == temp_buf[c] + Head(s2c[c])
\* Variants with a bug, for the runs' mutants: one round trip short, one too many.
LastIsOneShort(c) == msg_cnt[c] + 2 >= MSG_LIMIT_PER_CLIENT
LastIsOneLate(c) == msg_cnt[c] = MSG_LIMIT_PER_CLIENT
LastOfConn(c) == msg_cnt[c] + 1 = MSG_LIMIT_PER_CLIENT
Measure(c) ==
    /\ s2c' = Take(s2c, c, Head(s2c[c]))
    /\ recv_bytes_sum' = recv_bytes_sum + Head(s2c[c])
    /\ rtt_hist' = rtt_hist \cup {<<c, start_write_tick[c]>>}
    /\ loop_cnt' = loop_cnt + 1
    /\ msg_cnt' = [msg_cnt EXCEPT ![c] = @ + 1]

\* The read that completes this round trip measures the last one of the run.
LastOfRun == loop_cnt + 1 >= TOTAL_MSG_CNT

\* The assertion on the last echo of a connection, and the hash comparison of
\* every HASH_PERIOD-th echo that is sent again: with the payload abstracted, an
\* echo is what was sent iff it has the right size.
EchoRefused(c) ==
    /\ EchoSize(c) # MSG_LEN
    /\ LastOfConn(c) \/ (~LastOfRun /\ (loop_cnt + 1) % HASH_PERIOD = 0)

\* SetOnRead with is_msg_end, not the last message of the connection: end the
\* run if everything is measured, else start the timer and send the echo again.
CliOnReadMessage(c) ==
    /\ CliReadable(c, Head(s2c[c]))
    /\ ~LastOfConn(c) /\ ~EchoRefused(c)
    /\ Measure(c)
    /\ IF LastOfRun
       THEN /\ temp_buf' = [temp_buf EXCEPT ![c] = EchoSize(c)]
            /\ UNCHANGED <<c2s, send_bytes_sum, start_write_tick>>
            /\ EndClient(1)
       ELSE /\ start_write_tick' = StartTimer(c, msg_cnt'[c] + 1)
            /\ WriteFrame(c, EchoSize(c))
            /\ UNCHANGED endVars
    /\ UNCHANGED <<cli_link, srv_link, broken, faults, reborn_cnt>>

\* ws_socket.Close; in the "sync" mode on_close destroys the context and runs
\* its EndClient before Close returns.
ClosedLink(mode) == IF mode = "sync" THEN "closed" ELSE "closing"
ClosedBuf(mode) == IF mode = "sync" THEN NoBuf ELSE 0
\* on_close ends the run once everything is measured.  Variants with a bug, for
\* the runs' mutants: it does so at any close; it never does.
EndAtAnyClose(count) == 1
EndAtNoClose(count) == 0
EndAtClose(count) == IF count >= TOTAL_MSG_CNT THEN 1 ELSE 0
EndsInClose(mode) == IF mode = "sync" THEN EndAtClose(loop_cnt') ELSE 0

\* SetOnRead with is_msg_end, the last message of a connection that is reborn:
\* the buffer moves into the context of the new connection, with the tick of
\* this read, which times no write.
CliOnReadReborn(c, mode) ==
    LET next == <<c[1], reborn_cnt[c] + 1>>
    IN  /\ CliReadable(c, Head(s2c[c]))
        /\ LastOfConn(c) /\ ~EchoRefused(c)
        /\ reborn_cnt[c] < REBORN_LIMIT_FOR_CLIENT
        /\ Measure(c)
        /\ c2s' = Put(c2s, c, CLOSE)
        /\ cli_link' = [cli_link EXCEPT ![c] = ClosedLink(mode),
                                        ![next] = "connecting"]
        /\ temp_buf' = [temp_buf EXCEPT ![c] = ClosedBuf(mode),
                                        ![next] = EchoSize(c)]
        /\ reborn_cnt' = [reborn_cnt EXCEPT ![next] = reborn_cnt[c] + 1]
        /\ UNCHANGED <<srv_link, broken, faults, start_write_tick, send_bytes_sum>>
        /\ EndClient(EndsInClose(mode))

\* The same for a connection in its last life: end the run if no socket is left.
SocketCount(links) ==
    Cardinality({c \in Conns : links[c] \in {"connecting", "open", "closing"}})
CliOnReadLast(c, mode) ==
    /\ CliReadable(c, Head(s2c[c]))
    /\ LastOfConn(c) /\ ~EchoRefused(c)
    /\ reborn_cnt[c] >= REBORN_LIMIT_FOR_CLIENT
    /\ Measure(c)
    /\ c2s' = Put(c2s, c, CLOSE)
    /\ cli_link' = [cli_link EXCEPT ![c] = ClosedLink(mode)]
    /\ temp_buf' = [temp_buf EXCEPT ![c] = ClosedBuf(mode)]
    /\ UNCHANGED <<srv_link, broken, faults, reborn_cnt, start_write_tick,
                   send_bytes_sum>>
    /\ EndClient(EndsInClose(mode) + (IF SocketCount(cli_link') = 0 THEN 1 ELSE 0))

\* SetOnRead gives up: the echo is not what was sent, or WriteFrame fails.
CliOnReadAborts(c) ==
    /\ CliReadable(c, Head(s2c[c]))
    /\ EchoRefused(c) \/ (c \in broken /\ ~LastOfConn(c) /\ ~LastOfRun)
    /\ Abort
    /\ UNCHANGED faults

\* NewWSClient or AddSocket fails for the next life of the connection.
CliRebornAborts(c) ==
    /\ CliReadable(c, Head(s2c[c]))
    /\ LastOfConn(c) /\ reborn_cnt[c] < REBORN_LIMIT_FOR_CLIENT
    /\ faults < MAX_FAULTS
    /\ faults' = faults + 1
    /\ Abort

\* SetOnClose from the loop: after a deferred Close, or when the link is gone.
CliOnClose(c) ==
    /\ LoopDelivers
    /\ \/ cli_link[c] = "closing"
       \/ cli_link[c] \in {"connecting", "open"} /\ c \in broken
    /\ cli_link' = [cli_link EXCEPT ![c] = "closed"]
    /\ temp_buf' = [temp_buf EXCEPT ![c] = NoBuf]
    /\ UNCHANGED <<srv_link, c2s, s2c, broken, faults, reborn_cnt, msg_cnt,
                   start_write_tick, sumVars>>
    /\ EndClient(EndAtClose(loop_cnt))

\* loop.Run returns and so does main; the kernel closes what is still open.
CliLoopExit ==
    /\ proc = "stopping"
    /\ proc' = "exited"
    /\ broken' = Conns
    /\ UNCHANGED <<cli_link, srv_link, c2s, s2c, faults, ctxVars, sumVars,
                   row, end_calls>>

CliStep(c) ==
    \/ CliOnOpen(c)
    \/ CliOnOpenAborts(c)
    \/ \E n \in 1..MSG_LEN : CliOnReadPiece(c, n)
    \/ CliOnReadMessage(c)
    \/ \E mode \in CLOSE_MODES : CliOnReadReborn(c, mode) \/ CliOnReadLast(c, mode)
    \/ CliOnReadAborts(c)
    \/ CliRebornAborts(c)
    \/ CliOnClose(c)
=============================================================================
