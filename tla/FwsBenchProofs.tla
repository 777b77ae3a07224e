--------------------------- MODULE FwsBenchProofs ---------------------------
(***************************************************************************)
(* Proofs about FwsBench for any clients, message lengths, limits, faults, *)
(* close modes and row intervals: IInv is inductive, so the types, the     *)
(* ping-pong, the bounds of the buffers, the order of a client's lives and *)
(* the soundness of the samples hold in every reachable state.             *)
(***************************************************************************)
EXTENDS FwsBench, SumProofs

-----------------------------------------------------------------------------
\* Frames of a channel that holds at most one.
LEMMA OneFrame ==
    ASSUME NEW n \in Int, NEW m \in Int
    PROVE  /\ <<n>> # <<>>
           /\ Head(<<n>>) = n
           /\ Tail(<<n>>) = <<>>
           /\ Append(<<>>, n) = <<n>>
           /\ <<m>> \o <<>> = <<m>>
           /\ <<>> \o <<n>> = <<n>>
           /\ Len(<<n>>) = 1
           /\ <<n>>[1] = n
           /\ (n = m <=> <<n>> = <<m>>)
OBVIOUS

\* The frames of a channel stay numbers.
LEMMA SingletonFrame == \A n \in Nat : <<n>> \in Seq(Nat)
OBVIOUS

\* What a connection's part of the invariant is about; it holds after a step
\* that leaves all that alone.
Untouched(d) ==
    /\ cli_link'[d] = cli_link[d] /\ srv_link'[d] = srv_link[d]
    /\ c2s'[d] = c2s[d] /\ s2c'[d] = s2c[d]
    /\ con_buf'[d] = con_buf[d] /\ temp_buf'[d] = temp_buf[d]
    /\ reborn_cnt'[d] = reborn_cnt[d] /\ msg_cnt'[d] = msg_cnt[d]
    /\ start_write_tick'[d] = start_write_tick[d]

LEMMA Frame ==
    ASSUME NEW d \in Conns, ConnOK(d), Untouched(d)
    PROVE  ConnOK(d)'
BY DEF ConnOK, Untouched, Phases, Nothing, Request, Echo, Goodbye, SrvHolds,
       SrvCtx, CliCtx

\* The same for the parts about the order of lives and about the samples.
LEMMA FrameClient ==
    ASSUME OneLifeAtATime, SamplesAreRoundTrips,
           UNCHANGED <<cli_link, msg_cnt, rtt_hist, loop_cnt>>
    PROVE  OneLifeAtATime' /\ SamplesAreRoundTrips'
BY DEF OneLifeAtATime, SamplesAreRoundTrips

\* What the assumptions say of the constants, in one place.
LEMMA ConstantsOK ==
    /\ MSG_LEN \in Nat \ {0} /\ SRV_MAX_LEN \in Nat \ {0} /\ INTERVAL \in Nat \ {0}
    /\ MSG_LIMIT_PER_CLIENT \in Nat \ {0} /\ REBORN_LIMIT_FOR_CLIENT \in Nat \ {0}
    /\ MSG_LEN <= SRV_MAX_LEN /\ MAX_FAULTS \in Nat
    /\ Conns = Clients \X (1..REBORN_LIMIT_FOR_CLIENT)
BY ClientAssumption, SrvAssumption, IntervalAssumption, RoomAssumption,
   ConnsAssumption, FaultsAssumption

-----------------------------------------------------------------------------
\* The server's callbacks, one lemma each.  A new connection has an empty buffer.
LEMMA StepSrvOnNewConnection ==
    ASSUME IInv, NEW c \in Conns, SrvOnNewConnection(c), UNCHANGED cliVars
    PROVE  IInv'
<1> USE DEF IInv
<1>1. TypeOK'
  BY DEF TypeOK, WireTypeOK, SrvTypeOK, CliTypeOK, SrvOnNewConnection, cliVars,
         ctxVars, sumVars, endVars, SrvLinks
<1>2. ConnInv'
  <2> SUFFICES ASSUME NEW d \in Conns PROVE ConnOK(d)'
    BY DEF ConnInv
  <2>1. ConnOK(d)
    BY DEF ConnInv
  <2>2. CASE d # c
    BY <2>1, <2>2, Frame DEF Untouched, SrvOnNewConnection, cliVars, ctxVars,
       TypeOK, WireTypeOK, SrvTypeOK
  <2>3. CASE d = c
    BY <2>1, <2>3, ConstantsOK, OneFrame DEF ConnOK, Phases, Nothing, Request,
       Echo, Goodbye, SrvHolds, SrvCtx, CliCtx, SrvOnNewConnection, cliVars,
       ctxVars, TypeOK, WireTypeOK,
       SrvTypeOK, CLOSE, NoCtx, NoBuf
  <2> QED
    BY <2>2, <2>3
<1>3. OneLifeAtATime' /\ SamplesAreRoundTrips'
  BY FrameClient DEF SrvOnNewConnection, cliVars, ctxVars, sumVars
<1> QED
  BY <1>1, <1>2, <1>3

\* The server can read data only in the phase of a request.
LEMMA ServerReads ==
    ASSUME TypeOK, NEW c \in Conns, ConnOK(c), NEW n, SrvReadable(c, n)
    PROVE  \E left \in 1..MSG_LEN :
               /\ c2s[c] = <<left>> /\ s2c[c] = <<>>
               /\ con_buf[c] = MSG_LEN - left
               /\ n \in 1..left
               /\ \/ cli_link[c] = "open" /\ temp_buf[c] = 0
                  \/ cli_link[c] = "closed" /\ temp_buf[c] = NoBuf
<1>1. con_buf[c] # NoCtx /\ c2s[c] # <<>> /\ n \in 1..Head(c2s[c])
  BY DEF SrvReadable, Piece, ConnOK, SrvCtx
<1>2. ~Nothing(c) /\ ~Echo(c)
  BY <1>1 DEF Nothing, Echo
<1>3. ~Goodbye(c)
  BY <1>1, OneFrame DEF Goodbye, CLOSE
<1>4. PICK left \in 1..MSG_LEN :
          /\ c2s[c] = <<left>> /\ s2c[c] = <<>>
          /\ SrvHolds(c, MSG_LEN - left)
          /\ \/ cli_link[c] = "open" /\ temp_buf[c] = 0
             \/ cli_link[c] = "closed" /\ temp_buf[c] = NoBuf
  BY <1>2, <1>3 DEF ConnOK, Phases, Request
<1>5. Head(c2s[c]) = left
  BY <1>4, OneFrame
<1>6. con_buf[c] = MSG_LEN - left
  BY <1>1, <1>4 DEF SrvHolds
<1> QED
  BY <1>1, <1>4, <1>5, <1>6

\* A piece moves its bytes from the request into the server's buffer.
LEMMA StepSrvOnReadPiece ==
    ASSUME IInv, NEW c \in Conns, NEW n \in 1..SRV_MAX_LEN, SrvOnReadPiece(c, n),
           UNCHANGED cliVars
    PROVE  IInv'
<1> USE DEF IInv
<1>1. PICK left \in 1..MSG_LEN :
          /\ c2s[c] = <<left>> /\ s2c[c] = <<>>
          /\ con_buf[c] = MSG_LEN - left
          /\ n \in 1..left
          /\ \/ cli_link[c] = "open" /\ temp_buf[c] = 0
             \/ cli_link[c] = "closed" /\ temp_buf[c] = NoBuf
  BY ServerReads DEF SrvOnReadPiece, ConnInv
<1>2. n # left /\ left - n \in 1..MSG_LEN
  BY <1>1, OneFrame, ConstantsOK DEF SrvOnReadPiece
<1>3. c2s' = [c2s EXCEPT ![c] = <<left - n>>]
  BY <1>1, <1>2, OneFrame DEF SrvOnReadPiece, Take
<1>4. TypeOK'
  <2>1. stats' \in Counters
    BY CountersOK DEF SrvOnReadPiece, TypeOK, SrvTypeOK
  <2>2. c2s' \in [Conns -> Seq(Nat)]
    BY <1>2, <1>3, SingletonFrame DEF TypeOK, WireTypeOK
  <2>3. con_buf' \in [Conns -> Nat \cup {NoCtx}]
    BY <1>1, ConstantsOK DEF TypeOK, SrvTypeOK, SrvOnReadPiece
  <2>4. WireTypeOK' /\ SrvTypeOK'
    BY <2>1, <2>2, <2>3
    DEF TypeOK, WireTypeOK, SrvTypeOK, SrvOnReadPiece
  <2>5. CliTypeOK'
    BY DEF TypeOK, CliTypeOK, cliVars, ctxVars, sumVars, endVars
  <2> QED
    BY <2>4, <2>5 DEF TypeOK
<1>5. ConnInv'
  <2> SUFFICES ASSUME NEW d \in Conns PROVE ConnOK(d)'
    BY DEF ConnInv
  <2>1. ConnOK(d)
    BY DEF ConnInv
  <2>2. CASE d # c
    BY <2>1, <2>2, <1>3, Frame DEF Untouched, SrvOnReadPiece, cliVars, ctxVars,
       TypeOK, WireTypeOK, SrvTypeOK
  <2>3. CASE d = c
    <3>1. Request(c)'
      BY <1>1, <1>2, <1>3, ConstantsOK, SMTT(30)
      DEF Request, SrvHolds, SrvOnReadPiece, cliVars, ctxVars, TypeOK,
          WireTypeOK, SrvTypeOK
    <3>2. SrvCtx(c)' /\ CliCtx(c)'
      BY <2>1, <2>3, <1>1, ConstantsOK
      DEF ConnOK, SrvCtx, CliCtx, SrvOnReadPiece, cliVars, ctxVars, TypeOK,
          SrvTypeOK, NoCtx
    <3> QED
      BY <2>3, <3>1, <3>2 DEF ConnOK, Phases
  <2> QED
    BY <2>2, <2>3
<1>6. OneLifeAtATime' /\ SamplesAreRoundTrips'
  BY FrameClient DEF SrvOnReadPiece, cliVars, ctxVars, sumVars
<1> QED
  BY <1>4, <1>5, <1>6

\* The last piece turns the request into an echo of the whole message.
LEMMA StepSrvOnReadMessage ==
    ASSUME IInv, NEW c \in Conns, SrvOnReadMessage(c), UNCHANGED cliVars
    PROVE  IInv'
<1> USE DEF IInv
<1>1. SrvReadable(c, Head(c2s[c]))
  BY DEF SrvOnReadMessage
<1>2. PICK left \in 1..MSG_LEN :
          /\ c2s[c] = <<left>> /\ s2c[c] = <<>>
          /\ con_buf[c] = MSG_LEN - left
          /\ \/ cli_link[c] = "open" /\ temp_buf[c] = 0
             \/ cli_link[c] = "closed" /\ temp_buf[c] = NoBuf
  BY <1>1, ServerReads DEF ConnInv
<1>3. Head(c2s[c]) = left /\ TargetSize(c) = MSG_LEN
  BY <1>2, OneFrame, ConstantsOK DEF TargetSize
<1>4. /\ c2s' = [c2s EXCEPT ![c] = <<>>]
      /\ s2c' = [s2c EXCEPT ![c] = <<MSG_LEN>>]
  BY <1>2, <1>3, OneFrame, ConstantsOK DEF SrvOnReadMessage, Take, Put
<1>5. TypeOK'
  <2> DEFINE counted == EchoedMessage(ReceivedBytes(stats, left), MSG_LEN)
  <2>1. stats' = CountStats(counted) /\ rows' = Exported(rows, counted)
    BY <1>3 DEF SrvOnReadMessage
  <2>2. ReceivedBytes(stats, left) \in Counters
    BY CountersOK, ConstantsOK DEF TypeOK, SrvTypeOK
  <2>3. counted \in Counters
    BY <2>2, CountersOK, ConstantsOK
  <2>4. stats' \in Counters /\ rows' \in Counters
    BY <2>1, <2>3, CountersOK, ConstantsOK DEF TypeOK, SrvTypeOK
  <2>5. c2s' \in [Conns -> Seq(Nat)] /\ s2c' \in [Conns -> Seq(Nat)]
    BY <1>4, SingletonFrame, ConstantsOK DEF TypeOK, WireTypeOK
  <2>6. WireTypeOK' /\ SrvTypeOK'
    BY <2>4, <2>5
    DEF TypeOK, WireTypeOK, SrvTypeOK, SrvOnReadMessage, FreshBuffer
  <2>7. CliTypeOK'
    BY DEF TypeOK, CliTypeOK, cliVars, ctxVars, sumVars, endVars
  <2> QED
    BY <2>6, <2>7 DEF TypeOK
<1>6. ConnInv'
  <2> SUFFICES ASSUME NEW d \in Conns PROVE ConnOK(d)'
    BY DEF ConnInv
  <2>1. ConnOK(d)
    BY DEF ConnInv
  <2>2. CASE d # c
    BY <2>1, <2>2, <1>4, Frame DEF Untouched, SrvOnReadMessage, FreshBuffer,
       cliVars, ctxVars, TypeOK, WireTypeOK, SrvTypeOK
  <2>3. CASE d = c
    <3>1. Echo(c)'
      BY <1>2, <1>4, ConstantsOK
      DEF Echo, SrvHolds, SrvOnReadMessage, FreshBuffer, cliVars, ctxVars,
          TypeOK, WireTypeOK, SrvTypeOK
    <3>2. SrvCtx(c)' /\ CliCtx(c)'
      BY <2>1, <2>3, <1>2, ConstantsOK
      DEF ConnOK, SrvCtx, CliCtx, SrvOnReadMessage, FreshBuffer, cliVars,
          ctxVars, TypeOK, SrvTypeOK, NoCtx
    <3> QED
      BY <2>3, <3>1, <3>2 DEF ConnOK, Phases
  <2> QED
    BY <2>2, <2>3
<1>7. OneLifeAtATime' /\ SamplesAreRoundTrips'
  BY FrameClient DEF SrvOnReadMessage, cliVars, ctxVars, sumVars
<1> QED
  BY <1>5, <1>6, <1>7

\* Closing drops the server's buffer, and the close frame if that was the cause.
LEMMA StepSrvOnClose ==
    ASSUME IInv, NEW c \in Conns, SrvOnClose(c), UNCHANGED cliVars
    PROVE  IInv'
<1> USE DEF IInv
<1>1. con_buf[c] \in Nat /\ srv_link[c] = "open"
  BY DEF SrvOnClose, ConnInv, ConnOK, SrvCtx, TypeOK, SrvTypeOK
<1>2. \/ c2s' = c2s
      \/ /\ c2s[c] # <<>> /\ Head(c2s[c]) = CLOSE
         /\ c2s' = [c2s EXCEPT ![c] = Tail(@)]
  BY DEF SrvOnClose
<1>3. CASE c2s' # c2s
  <2>1. Goodbye(c)
    <3>1. ConnOK(c) /\ c2s[c] # <<>> /\ Head(c2s[c]) = CLOSE
      BY <1>2, <1>3 DEF ConnInv
    <3>2. ~Request(c)
      BY <3>1, OneFrame DEF Request, CLOSE
    <3> QED
      BY <3>1, <3>2 DEF ConnOK, Phases, Nothing, Echo
  <2>2. c2s' = [c2s EXCEPT ![c] = <<>>]
    BY <1>2, <1>3, <2>1, OneFrame DEF Goodbye, CLOSE
  <2>3. TypeOK'
    <3>1. c2s' \in [Conns -> Seq(Nat)]
      BY <2>2 DEF TypeOK, WireTypeOK
    <3>2. WireTypeOK'
      BY <3>1 DEF SrvOnClose, TypeOK, WireTypeOK, SrvLinks
    <3>3. SrvTypeOK'
      BY <1>1 DEF SrvOnClose, NoMoreCtx, TypeOK, SrvTypeOK
    <3>4. CliTypeOK'
      BY DEF TypeOK, CliTypeOK, cliVars, ctxVars, sumVars, endVars
    <3> QED
      BY <3>2, <3>3, <3>4 DEF TypeOK
  <2>4. ConnInv'
    <3> SUFFICES ASSUME NEW d \in Conns PROVE ConnOK(d)'
      BY DEF ConnInv
    <3>1. ConnOK(d)
      BY DEF ConnInv
    <3>2. CASE d # c
      BY <3>1, <3>2, <2>2, Frame DEF Untouched, SrvOnClose, NoMoreCtx, cliVars,
         ctxVars, TypeOK, WireTypeOK, SrvTypeOK
    <3>3. CASE d = c
      <4>1. Nothing(c)'
        BY <2>1, <2>2 DEF Goodbye, Nothing, SrvHolds, SrvOnClose, NoMoreCtx,
           cliVars, ctxVars, TypeOK, WireTypeOK, SrvTypeOK
      <4>2. SrvCtx(c)' /\ CliCtx(c)'
        BY <3>1, <3>3 DEF ConnOK, SrvCtx, CliCtx, SrvOnClose, NoMoreCtx, cliVars,
           ctxVars, TypeOK, WireTypeOK, SrvTypeOK
      <4> QED
        BY <3>3, <4>1, <4>2 DEF ConnOK, Phases
    <3> QED
      BY <3>2, <3>3
  <2> QED
    BY <2>3, <2>4, FrameClient DEF SrvOnClose, cliVars, ctxVars, sumVars
<1>4. CASE c2s' = c2s
  <2>1. TypeOK'
    <3>1. WireTypeOK'
      BY <1>4 DEF SrvOnClose, TypeOK, WireTypeOK, SrvLinks
    <3>2. SrvTypeOK'
      BY <1>1 DEF SrvOnClose, NoMoreCtx, TypeOK, SrvTypeOK
    <3>3. CliTypeOK'
      BY DEF TypeOK, CliTypeOK, cliVars, ctxVars, sumVars, endVars
    <3> QED
      BY <3>1, <3>2, <3>3 DEF TypeOK
  <2>2. ConnInv'
    <3> SUFFICES ASSUME NEW d \in Conns PROVE ConnOK(d)'
      BY DEF ConnInv
    <3>1. ConnOK(d)
      BY DEF ConnInv
    <3>2. CASE d # c
      BY <3>1, <3>2, <1>4, Frame DEF Untouched, SrvOnClose, NoMoreCtx, cliVars,
         ctxVars, TypeOK, WireTypeOK, SrvTypeOK
    <3>3. CASE d = c
      <4>1. Phases(c)'
        BY <3>1, <3>3, <1>4 DEF ConnOK, Phases, Nothing, Request, Echo, Goodbye,
           SrvHolds, SrvOnClose, NoMoreCtx, cliVars, ctxVars, TypeOK, SrvTypeOK
      <4>2. SrvCtx(c)' /\ CliCtx(c)'
        BY <3>1, <3>3 DEF ConnOK, SrvCtx, CliCtx, SrvOnClose, NoMoreCtx, cliVars,
           ctxVars, TypeOK, WireTypeOK, SrvTypeOK
      <4> QED
        BY <3>3, <4>1, <4>2 DEF ConnOK
    <3> QED
      BY <3>2, <3>3
  <2> QED
    BY <2>1, <2>2, FrameClient DEF SrvOnClose, cliVars, ctxVars, sumVars
<1> QED
  BY <1>3, <1>4

\* Losing a link, an abort of either process and the end of the client's loop
\* change nothing the connections' invariants speak of.
LEMMA StepProcess ==
    ASSUME IInv,
           UNCHANGED <<cli_link, srv_link, c2s, s2c, con_buf, stats, rows,
                       lost_bytes, ctxVars, sumVars, row, end_calls>>,
           broken' \in SUBSET Conns, faults' \in 0..MAX_FAULTS,
           srv_proc' \in {"running", "aborted"},
           proc' \in {"running", "stopping", "exited", "aborted"}
    PROVE  IInv'
<1> USE DEF IInv, ctxVars, sumVars
<1>1. TypeOK'
  BY DEF TypeOK, WireTypeOK, SrvTypeOK, CliTypeOK
<1>2. ConnInv'
  <2> SUFFICES ASSUME NEW d \in Conns PROVE ConnOK(d)'
    BY DEF ConnInv
  <2> QED
    BY Frame DEF ConnInv, Untouched
<1> QED
  BY <1>1, <1>2, FrameClient
-----------------------------------------------------------------------------
\* EndClient keeps the types of what it writes.
LEMMA EndClientOK ==
    ASSUME CliTypeOK, NEW times \in Nat, EndClient(times),
           rtt_hist' \in SUBSET (Conns \X (0..MSG_LIMIT_PER_CLIENT)),
           send_bytes_sum' \in Nat, recv_bytes_sum' \in Nat
    PROVE  /\ row' \in [hist : SUBSET (Conns \X (0..MSG_LIMIT_PER_CLIENT)),
                        sent : Nat, received : Nat]
           /\ end_calls' \in Nat
           /\ proc' \in {"running", "stopping", "exited", "aborted"}
BY DEF CliTypeOK, EndClient

\* The client can read only in the phase of an echo, and then times the message
\* the echo is of.
LEMMA ClientReads ==
    ASSUME TypeOK, NEW c \in Conns, ConnOK(c), NEW n, CliReadable(c, n)
    PROVE  /\ cli_link[c] = "open" /\ srv_link[c] # "none"
           /\ msg_cnt[c] \in 0..(MSG_LIMIT_PER_CLIENT - 1)
           /\ start_write_tick[c] = msg_cnt[c] + 1
           /\ reborn_cnt[c] = c[2]
           /\ SrvHolds(c, 0)
           /\ \E left \in 1..MSG_LEN :
                  /\ c2s[c] = <<>> /\ s2c[c] = <<left>>
                  /\ temp_buf[c] = MSG_LEN - left
                  /\ n \in 1..left
                  /\ Head(s2c[c]) = left
                  /\ EchoSize(c) = MSG_LEN
<1>1. cli_link[c] = "open" /\ s2c[c] # <<>> /\ n \in 1..Head(s2c[c])
  BY DEF CliReadable, Piece
<1>2. Echo(c)
  BY <1>1 DEF ConnOK, Phases, Nothing, Request, Goodbye
<1>3. PICK left \in 1..MSG_LEN :
          /\ c2s[c] = <<>> /\ s2c[c] = <<left>>
          /\ temp_buf[c] = MSG_LEN - left
  BY <1>1, <1>2 DEF Echo
<1>4. Head(s2c[c]) = left /\ EchoSize(c) = MSG_LEN
  BY <1>3, OneFrame, ConstantsOK DEF EchoSize
<1>5. CliCtx(c) /\ SrvHolds(c, 0)
  BY <1>2 DEF ConnOK, Echo
<1>6. /\ msg_cnt[c] \in 0..(MSG_LIMIT_PER_CLIENT - 1)
      /\ start_write_tick[c] = msg_cnt[c] + 1
      /\ reborn_cnt[c] = c[2]
      /\ srv_link[c] # "none"
  BY <1>1, <1>5, ConstantsOK DEF CliCtx, TypeOK, CliTypeOK
<1> QED
  BY <1>1, <1>3, <1>4, <1>5, <1>6

\* There are finitely many round trips to measure.
LEMMA ConnsFinite == IsFiniteSet(Conns \X Messages)
<1>1. IsFiniteSet(1..REBORN_LIMIT_FOR_CLIENT) /\ IsFiniteSet(Messages)
  BY FS_Interval, ConstantsOK DEF Messages
<1>2. IsFiniteSet(Conns)
  BY <1>1, FS_Product, ClientAssumption, ConnsAssumption
<1> QED
  BY <1>1, <1>2, FS_Product

\* A measured round trip is a new sample.
LEMMA MeasureAddsSample ==
    ASSUME TypeOK, SamplesAreRoundTrips, NEW c \in Conns, Measure(c),
           msg_cnt[c] \in 0..(MSG_LIMIT_PER_CLIENT - 1),
           start_write_tick[c] = msg_cnt[c] + 1
    PROVE  /\ SamplesAreRoundTrips'
           /\ rtt_hist' \in SUBSET (Conns \X (0..MSG_LIMIT_PER_CLIENT))
           /\ msg_cnt' = [msg_cnt EXCEPT ![c] = msg_cnt[c] + 1]
           /\ msg_cnt' \in [Conns -> 0..MSG_LIMIT_PER_CLIENT]
           /\ loop_cnt' \in Nat
<1> DEFINE new == <<c, msg_cnt[c] + 1>>
<1>1. /\ rtt_hist' = rtt_hist \cup {new}
      /\ loop_cnt' = loop_cnt + 1
      /\ msg_cnt' = [msg_cnt EXCEPT ![c] = msg_cnt[c] + 1]
  BY DEF Measure
<1>2. new \in Conns \X Messages /\ new \notin rtt_hist
  BY ConstantsOK DEF SamplesAreRoundTrips, Messages, TypeOK, CliTypeOK
<1>3. IsFiniteSet(rtt_hist)
  BY ConnsFinite, FS_Subset DEF SamplesAreRoundTrips
<1>4. loop_cnt' = Cardinality(rtt_hist')
  BY <1>1, <1>2, <1>3, FS_AddElement DEF SamplesAreRoundTrips
<1>5. rtt_hist' = {s \in Conns \X Messages : s[2] <= msg_cnt'[s[1]]}
  <2>1. ASSUME NEW s \in Conns \X Messages
        PROVE  s \in rtt_hist' <=> s[2] <= msg_cnt'[s[1]]
    <3>1. CASE s[1] = c
      BY <1>1, <1>2, <3>1, ConstantsOK
      DEF SamplesAreRoundTrips, Messages, TypeOK, CliTypeOK
    <3>2. CASE s[1] # c
      BY <1>1, <1>2, <3>2 DEF SamplesAreRoundTrips, TypeOK, CliTypeOK
    <3> QED
      BY <3>1, <3>2
  <2>2. rtt_hist' \subseteq Conns \X Messages
    BY <1>1, <1>2 DEF SamplesAreRoundTrips
  <2> QED
    BY <2>1, <2>2
<1>6. msg_cnt' \in [Conns -> 0..MSG_LIMIT_PER_CLIENT] /\ loop_cnt' \in Nat
  BY <1>1, ConstantsOK DEF TypeOK, CliTypeOK
<1>7. rtt_hist' \in SUBSET (Conns \X (0..MSG_LIMIT_PER_CLIENT))
  BY <1>5, ConstantsOK DEF Messages
<1> QED
  BY <1>1, <1>4, <1>5, <1>6, <1>7 DEF SamplesAreRoundTrips

\* The client's callbacks.  The first write fills the wire from a full buffer.
LEMMA OpenEffect ==
    ASSUME IInv, NEW c \in Conns, CliOnOpen(c)
    PROVE  /\ ConnOK(c) /\ cli_link[c] = "connecting" /\ srv_link[c] # "none"
           /\ Nothing(c) /\ temp_buf[c] = MSG_LEN /\ msg_cnt[c] = 0
           /\ c2s' = [c2s EXCEPT ![c] = <<MSG_LEN>>]
           /\ temp_buf' = [temp_buf EXCEPT ![c] = 0]
           /\ send_bytes_sum' = send_bytes_sum + MSG_LEN
           /\ start_write_tick' = [start_write_tick EXCEPT ![c] = 1]
           /\ cli_link' = [cli_link EXCEPT ![c] = "open"]
<1> USE DEF IInv
<1>1. /\ ConnOK(c) /\ cli_link[c] = "connecting" /\ srv_link[c] # "none"
      /\ Nothing(c) /\ temp_buf[c] = MSG_LEN /\ msg_cnt[c] = 0
  BY ConstantsOK
  DEF CliOnOpen, ConnInv, ConnOK, Phases, Nothing, Request, Echo, Goodbye, CliCtx
<1> QED
  BY <1>1, OneFrame, ConstantsOK
  DEF CliOnOpen, WriteFrame, Put, StartTimer, Nothing

\* The connection goes from Nothing to Request.
LEMMA StepCliOnOpen ==
    ASSUME IInv, NEW c \in Conns, CliOnOpen(c), UNCHANGED srvVars
    PROVE  IInv'
<1> USE DEF IInv, srvVars
<1>1. /\ ConnOK(c) /\ cli_link[c] = "connecting" /\ srv_link[c] # "none"
      /\ Nothing(c) /\ temp_buf[c] = MSG_LEN /\ msg_cnt[c] = 0
  BY OpenEffect
<1>2. /\ c2s' = [c2s EXCEPT ![c] = <<MSG_LEN>>]
      /\ temp_buf' = [temp_buf EXCEPT ![c] = 0]
      /\ send_bytes_sum' = send_bytes_sum + MSG_LEN
      /\ start_write_tick' = [start_write_tick EXCEPT ![c] = 1]
      /\ cli_link' = [cli_link EXCEPT ![c] = "open"]
  BY OpenEffect
<1>3. TypeOK'
  <2>1. c2s' \in [Conns -> Seq(Nat)]
    BY <1>2, SingletonFrame, ConstantsOK DEF TypeOK, WireTypeOK
  <2>2. WireTypeOK'
    BY <1>2, <2>1 DEF TypeOK, WireTypeOK, CliLinks, CliOnOpen
  <2>3. CliTypeOK'
    BY <1>2, ConstantsOK DEF TypeOK, CliTypeOK, CliOnOpen, endVars
  <2> QED
    BY <2>2, <2>3 DEF TypeOK, SrvTypeOK
<1>4. ConnInv'
  <2> SUFFICES ASSUME NEW d \in Conns PROVE ConnOK(d)'
    BY DEF ConnInv
  <2>1. ConnOK(d)
    BY DEF ConnInv
  <2>2. CASE d # c
    BY <2>1, <2>2, <1>2, Frame
    DEF Untouched, CliOnOpen, TypeOK, WireTypeOK, CliTypeOK
  <2>3. CASE d = c
    <3>1. Request(c)'
      <4>1. /\ c2s'[c] = <<MSG_LEN>> /\ s2c'[c] = <<>> /\ SrvHolds(c, 0)'
            /\ cli_link'[c] = "open" /\ temp_buf'[c] = 0
        BY <1>1, <1>2
        DEF Nothing, SrvHolds, CliOnOpen, TypeOK, WireTypeOK, CliTypeOK
      <4>2. MSG_LEN \in 1..MSG_LEN /\ MSG_LEN - MSG_LEN = 0
        BY ConstantsOK
      <4> QED
        BY <4>1, <4>2 DEF Request, SrvHolds
    <3>2. SrvCtx(c)' /\ CliCtx(c)'
      BY <1>1, <1>2, ConstantsOK
      DEF ConnOK, SrvCtx, CliCtx, CliOnOpen, TypeOK, WireTypeOK, CliTypeOK
    <3> QED
      BY <2>3, <3>1, <3>2 DEF ConnOK, Phases
  <2> QED
    BY <2>2, <2>3
<1>5. OneLifeAtATime'
  BY <1>1, <1>2 DEF OneLifeAtATime, CliOnOpen, TypeOK, WireTypeOK
<1>6. SamplesAreRoundTrips'
  BY DEF SamplesAreRoundTrips, CliOnOpen
<1> QED
  BY <1>3, <1>4, <1>5, <1>6

\* A piece moves its bytes from the echo into the client's buffer.
LEMMA PieceEffect ==
    ASSUME IInv, NEW c \in Conns, NEW n \in 1..MSG_LEN, CliOnReadPiece(c, n)
    PROVE  /\ cli_link[c] = "open" /\ SrvHolds(c, 0)
           /\ \E left \in 1..MSG_LEN :
                  /\ c2s[c] = <<>> /\ s2c[c] = <<left>>
                  /\ temp_buf[c] = MSG_LEN - left
                  /\ n \in 1..left
                  /\ left - n \in 1..MSG_LEN
                  /\ s2c' = [s2c EXCEPT ![c] = <<left - n>>]
                  /\ temp_buf' = [temp_buf EXCEPT ![c] = MSG_LEN - (left - n)]
<1> USE DEF IInv
<1>1. ConnOK(c) /\ CliReadable(c, n)
  BY DEF CliOnReadPiece, ConnInv
<1>2. cli_link[c] = "open" /\ SrvHolds(c, 0)
  BY <1>1, ClientReads
<1>3. PICK left \in 1..MSG_LEN :
          /\ c2s[c] = <<>> /\ s2c[c] = <<left>>
          /\ temp_buf[c] = MSG_LEN - left
          /\ n \in 1..left
          /\ Head(s2c[c]) = left
  BY <1>1, ClientReads
<1>4. left - n \in 1..MSG_LEN
  BY <1>3, ConstantsOK DEF CliOnReadPiece
<1>5. s2c' = [s2c EXCEPT ![c] = <<left - n>>]
  BY <1>3, <1>4, OneFrame DEF CliOnReadPiece, Take
<1>6. temp_buf' = [temp_buf EXCEPT ![c] = MSG_LEN - (left - n)]
  BY <1>3, ConstantsOK DEF CliOnReadPiece
<1> QED
  BY <1>2, <1>3, <1>4, <1>5, <1>6

\* The connection stays in Echo.
LEMMA StepCliOnReadPiece ==
    ASSUME IInv, NEW c \in Conns, NEW n \in 1..MSG_LEN, CliOnReadPiece(c, n),
           UNCHANGED srvVars
    PROVE  IInv'
<1> USE DEF IInv, srvVars
<1>1. ConnOK(c) /\ CliReadable(c, n)
  BY DEF CliOnReadPiece, ConnInv
<1>2. cli_link[c] = "open" /\ SrvHolds(c, 0)
  BY PieceEffect
<1>3. PICK left \in 1..MSG_LEN :
          /\ c2s[c] = <<>> /\ s2c[c] = <<left>>
          /\ temp_buf[c] = MSG_LEN - left
          /\ n \in 1..left
          /\ left - n \in 1..MSG_LEN
          /\ s2c' = [s2c EXCEPT ![c] = <<left - n>>]
          /\ temp_buf' = [temp_buf EXCEPT ![c] = MSG_LEN - (left - n)]
  BY PieceEffect
<1>4. TypeOK'
  <2>1. s2c' \in [Conns -> Seq(Nat)]
    BY <1>3, SingletonFrame DEF TypeOK, WireTypeOK
  <2>2. temp_buf' \in [Conns -> Nat \cup {NoBuf}]
    BY <1>3, ConstantsOK DEF TypeOK, CliTypeOK
  <2>3. recv_bytes_sum' \in Nat
    BY ConstantsOK DEF TypeOK, CliTypeOK, CliOnReadPiece
  <2>4. WireTypeOK'
    BY <2>1 DEF TypeOK, WireTypeOK, CliOnReadPiece
  <2>5. CliTypeOK'
    BY <2>2, <2>3 DEF TypeOK, CliTypeOK, CliOnReadPiece, endVars
  <2> QED
    BY <2>4, <2>5 DEF TypeOK, SrvTypeOK
<1>5. ConnInv'
  <2> SUFFICES ASSUME NEW d \in Conns PROVE ConnOK(d)'
    BY DEF ConnInv
  <2>1. ConnOK(d)
    BY DEF ConnInv
  <2>2. CASE d # c
    BY <2>1, <2>2, <1>3, Frame
    DEF Untouched, CliOnReadPiece, TypeOK, WireTypeOK, CliTypeOK
  <2>3. CASE d = c
    <3>1. Echo(c)'
      BY <1>2, <1>3, ConstantsOK
      DEF Echo, SrvHolds, CliOnReadPiece, TypeOK, WireTypeOK, CliTypeOK
    <3>2. SrvCtx(c)' /\ CliCtx(c)'
      BY <1>1 DEF ConnOK, SrvCtx, CliCtx, CliOnReadPiece
    <3> QED
      BY <2>3, <3>1, <3>2 DEF ConnOK, Phases
  <2> QED
    BY <2>2, <2>3
<1>6. OneLifeAtATime' /\ SamplesAreRoundTrips'
  BY FrameClient DEF CliOnReadPiece
<1> QED
  BY <1>4, <1>5, <1>6

\* on_close ends the client's part in a connection and nothing else.
LEMMA StepCliOnClose ==
    ASSUME IInv, NEW c \in Conns, CliOnClose(c), UNCHANGED srvVars
    PROVE  IInv'
<1> USE DEF IInv, srvVars
<1>1. /\ ConnOK(c) /\ cli_link[c] \in {"closing", "connecting", "open"}
      /\ cli_link' = [cli_link EXCEPT ![c] = "closed"]
      /\ temp_buf' = [temp_buf EXCEPT ![c] = NoBuf]
  BY DEF CliOnClose, ConnInv
<1>2. TypeOK'
  <2>1. WireTypeOK'
    BY <1>1 DEF TypeOK, WireTypeOK, CliLinks, CliOnClose
  <2>2. EndAtClose(loop_cnt) \in Nat
    BY DEF EndAtClose
  <2>3. CliTypeOK'
    BY <1>1, <2>2, EndClientOK DEF TypeOK, CliTypeOK, CliOnClose, sumVars
  <2> QED
    BY <2>1, <2>3 DEF TypeOK, SrvTypeOK
<1>3. ConnInv'
  <2> SUFFICES ASSUME NEW d \in Conns PROVE ConnOK(d)'
    BY DEF ConnInv
  <2>1. ConnOK(d)
    BY DEF ConnInv
  <2>2. CASE d # c
    BY <2>1, <2>2, <1>1, Frame
    DEF Untouched, CliOnClose, TypeOK, WireTypeOK, CliTypeOK
  <2>3. CASE d = c
    <3>1. Phases(c)'
      BY <1>1 DEF ConnOK, Phases, Nothing, Request, Echo, Goodbye, SrvHolds,
         CliOnClose, TypeOK, WireTypeOK, CliTypeOK
    <3>2. SrvCtx(c)' /\ CliCtx(c)'
      BY <1>1 DEF ConnOK, SrvCtx, CliCtx, CliOnClose, TypeOK, WireTypeOK
    <3> QED
      BY <2>3, <3>1, <3>2 DEF ConnOK
  <2> QED
    BY <2>2, <2>3
<1>4. OneLifeAtATime'
  <2> SUFFICES ASSUME NEW a \in Conns, NEW b \in Conns, a[1] = b[1], a[2] < b[2],
                      cli_link'[b] # "none"
               PROVE  /\ cli_link'[a] \in {"closing", "closed"}
                      /\ msg_cnt'[a] = MSG_LIMIT_PER_CLIENT
    BY DEF OneLifeAtATime
  <2>1. cli_link[b] # "none"
    BY <1>1 DEF TypeOK, WireTypeOK
  <2>2. cli_link[a] \in {"closing", "closed"} /\ msg_cnt[a] = MSG_LIMIT_PER_CLIENT
    BY <2>1 DEF OneLifeAtATime
  <2> QED
    BY <2>2, <1>1 DEF CliOnClose, TypeOK, WireTypeOK
<1>5. SamplesAreRoundTrips'
  BY DEF SamplesAreRoundTrips, CliOnClose, sumVars
<1> QED
  BY <1>2, <1>3, <1>4, <1>5

\* TOTAL_MSG_CNT is the number of all round trips of all lives of all clients.
LEMMA TotalIsAll == Cardinality(Conns \X Messages) = TOTAL_MSG_CNT
<1>1. /\ IsFiniteSet(1..REBORN_LIMIT_FOR_CLIENT)
      /\ Cardinality(1..REBORN_LIMIT_FOR_CLIENT) = REBORN_LIMIT_FOR_CLIENT
      /\ IsFiniteSet(Messages)
      /\ Cardinality(Messages) = MSG_LIMIT_PER_CLIENT
  BY FS_Interval, ConstantsOK DEF Messages
<1>2. /\ IsFiniteSet(Conns)
      /\ Cardinality(Conns) = Cardinality(Clients) * REBORN_LIMIT_FOR_CLIENT
  BY <1>1, FS_Product, ClientAssumption, ConnsAssumption
<1>3. Cardinality(Conns \X Messages) = Cardinality(Conns) * MSG_LIMIT_PER_CLIENT
  BY <1>1, <1>2, FS_Product
<1>4. Cardinality(Clients) \in Nat
  BY FS_CardinalityType, ClientAssumption
<1>5. \A k, m, r \in Nat : (k * r) * m = m * k * r
  OBVIOUS
<1> QED
  BY <1>2, <1>3, <1>4, <1>5, ConstantsOK DEF TOTAL_MSG_CNT

\* TOTAL_MSG_CNT is a number.
LEMMA TotalIsNat == TOTAL_MSG_CNT \in Nat
  BY TotalIsAll, ConnsFinite, FS_CardinalityType

\* A histogram that lacks a sample has fewer than TOTAL_MSG_CNT of them.
LEMMA MissingSample ==
    ASSUME NEW H, H \subseteq Conns \X Messages,
           NEW s \in Conns \X Messages, s \notin H
    PROVE  Cardinality(H) < TOTAL_MSG_CNT
<1>1. H # Conns \X Messages
  OBVIOUS
<1>2. /\ IsFiniteSet(H)
      /\ Cardinality(H) <= Cardinality(Conns \X Messages)
      /\ Cardinality(H) # Cardinality(Conns \X Messages)
  BY <1>1, ConnsFinite, FS_Subset
<1>3. Cardinality(H) \in Nat
  BY <1>2, FS_CardinalityType
<1> QED
  BY <1>2, <1>3, TotalIsAll, TotalIsNat

\* A round trip that is not the last of its connection starts the next one.  Its
\* branch that ends the run is never taken: the connection's last sample is missing.
LEMMA MessageEffect ==
    ASSUME IInv, NEW c \in Conns, CliOnReadMessage(c)
    PROVE  /\ ConnOK(c) /\ cli_link[c] = "open" /\ SrvHolds(c, 0)
           /\ msg_cnt[c] \in 0..(MSG_LIMIT_PER_CLIENT - 1)
           /\ start_write_tick[c] = msg_cnt[c] + 1
           /\ SamplesAreRoundTrips'
           /\ rtt_hist' = rtt_hist \cup {<<c, msg_cnt[c] + 1>>}
           /\ rtt_hist' \in SUBSET (Conns \X (0..MSG_LIMIT_PER_CLIENT))
           /\ msg_cnt' = [msg_cnt EXCEPT ![c] = msg_cnt[c] + 1]
           /\ msg_cnt' \in [Conns -> 0..MSG_LIMIT_PER_CLIENT]
           /\ msg_cnt'[c] = msg_cnt[c] + 1
           /\ msg_cnt'[c] < MSG_LIMIT_PER_CLIENT
           /\ loop_cnt' \in Nat /\ loop_cnt' = loop_cnt + 1
           /\ loop_cnt' < TOTAL_MSG_CNT
           /\ c2s[c] = <<>>
           /\ s2c' = [s2c EXCEPT ![c] = <<>>]
           /\ c2s' = [c2s EXCEPT ![c] = <<MSG_LEN>>]
           /\ temp_buf' = [temp_buf EXCEPT ![c] = 0]
           /\ send_bytes_sum' = send_bytes_sum + MSG_LEN
           /\ start_write_tick' = [start_write_tick EXCEPT ![c] = msg_cnt'[c] + 1]
           /\ UNCHANGED <<cli_link, srv_link, broken, faults, reborn_cnt, endVars>>
           /\ \E left \in 1..MSG_LEN :
                  /\ s2c[c] = <<left>>
                  /\ temp_buf[c] = MSG_LEN - left
                  /\ recv_bytes_sum' = recv_bytes_sum + left
<1> USE DEF IInv
<1>1. ConnOK(c) /\ CliReadable(c, Head(s2c[c])) /\ ~LastOfConn(c) /\ Measure(c)
  BY DEF CliOnReadMessage, ConnInv
<1>2. /\ cli_link[c] = "open" /\ SrvHolds(c, 0)
      /\ msg_cnt[c] \in 0..(MSG_LIMIT_PER_CLIENT - 1)
      /\ start_write_tick[c] = msg_cnt[c] + 1
      /\ c2s[c] = <<>> /\ EchoSize(c) = MSG_LEN
  BY <1>1, ClientReads
<1>3. PICK left \in 1..MSG_LEN :
          s2c[c] = <<left>> /\ temp_buf[c] = MSG_LEN - left /\ Head(s2c[c]) = left
  BY <1>1, ClientReads
<1>4. /\ SamplesAreRoundTrips'
      /\ rtt_hist' \in SUBSET (Conns \X (0..MSG_LIMIT_PER_CLIENT))
      /\ msg_cnt' = [msg_cnt EXCEPT ![c] = msg_cnt[c] + 1]
      /\ msg_cnt' \in [Conns -> 0..MSG_LIMIT_PER_CLIENT]
      /\ loop_cnt' \in Nat
  BY <1>1, <1>2, MeasureAddsSample
<1>5. /\ msg_cnt'[c] = msg_cnt[c] + 1
      /\ msg_cnt'[c] < MSG_LIMIT_PER_CLIENT
  BY <1>1, <1>2, <1>4, ConstantsOK DEF LastOfConn, TypeOK, CliTypeOK
<1>6. loop_cnt' < TOTAL_MSG_CNT
  <2> DEFINE last == <<c, MSG_LIMIT_PER_CLIENT>>
  <2>1. last \in Conns \X Messages /\ last \notin rtt_hist'
    BY <1>4, <1>5, ConstantsOK DEF SamplesAreRoundTrips, Messages
  <2>2. rtt_hist' \subseteq Conns \X Messages
    BY <1>4 DEF SamplesAreRoundTrips
  <2> QED
    BY <1>4, <2>1, <2>2, MissingSample DEF SamplesAreRoundTrips
<1>7. /\ s2c' = [s2c EXCEPT ![c] = <<>>]
      /\ c2s' = [c2s EXCEPT ![c] = <<MSG_LEN>>]
      /\ temp_buf' = [temp_buf EXCEPT ![c] = 0]
      /\ send_bytes_sum' = send_bytes_sum + MSG_LEN
      /\ recv_bytes_sum' = recv_bytes_sum + left
      /\ start_write_tick' = [start_write_tick EXCEPT ![c] = msg_cnt'[c] + 1]
      /\ UNCHANGED <<cli_link, srv_link, broken, faults, reborn_cnt, endVars>>
  <2>1. ~LastOfRun
    BY <1>1, <1>4, <1>6, TotalIsNat DEF LastOfRun, Measure, TypeOK, CliTypeOK
  <2>2. WriteFrame(c, MSG_LEN)
        /\ start_write_tick' = [start_write_tick EXCEPT ![c] = msg_cnt'[c] + 1]
        /\ UNCHANGED <<cli_link, srv_link, broken, faults, reborn_cnt, endVars>>
    BY <1>2, <2>1 DEF CliOnReadMessage, StartTimer
  <2>3. s2c' = [s2c EXCEPT ![c] = <<>>] /\ recv_bytes_sum' = recv_bytes_sum + left
    BY <1>1, <1>3, OneFrame DEF Measure, Take
  <2> QED
    BY <1>2, <2>2, <2>3, OneFrame, ConstantsOK DEF WriteFrame, Put
<1>8. rtt_hist' = rtt_hist \cup {<<c, msg_cnt[c] + 1>>} /\ loop_cnt' = loop_cnt + 1
  BY <1>1, <1>2 DEF Measure
<1> QED
  BY <1>1, <1>2, <1>3, <1>4, <1>5, <1>6, <1>7, <1>8

\* The connection goes from Echo back to Request.
LEMMA StepCliOnReadMessage ==
    ASSUME IInv, NEW c \in Conns, CliOnReadMessage(c), UNCHANGED srvVars
    PROVE  IInv'
<1> USE DEF IInv, srvVars
<1>1. /\ ConnOK(c) /\ cli_link[c] = "open" /\ SrvHolds(c, 0)
      /\ msg_cnt[c] \in 0..(MSG_LIMIT_PER_CLIENT - 1)
      /\ start_write_tick[c] = msg_cnt[c] + 1
      /\ SamplesAreRoundTrips'
      /\ rtt_hist' \in SUBSET (Conns \X (0..MSG_LIMIT_PER_CLIENT))
      /\ msg_cnt' = [msg_cnt EXCEPT ![c] = msg_cnt[c] + 1]
      /\ msg_cnt' \in [Conns -> 0..MSG_LIMIT_PER_CLIENT]
      /\ msg_cnt'[c] = msg_cnt[c] + 1
      /\ msg_cnt'[c] < MSG_LIMIT_PER_CLIENT
      /\ loop_cnt' \in Nat
  BY MessageEffect
<1>2. /\ s2c' = [s2c EXCEPT ![c] = <<>>]
      /\ c2s' = [c2s EXCEPT ![c] = <<MSG_LEN>>]
      /\ temp_buf' = [temp_buf EXCEPT ![c] = 0]
      /\ send_bytes_sum' = send_bytes_sum + MSG_LEN
      /\ start_write_tick' = [start_write_tick EXCEPT ![c] = msg_cnt'[c] + 1]
      /\ UNCHANGED <<cli_link, srv_link, broken, faults, reborn_cnt, endVars>>
  BY MessageEffect
<1>3. PICK left \in 1..MSG_LEN : recv_bytes_sum' = recv_bytes_sum + left
  BY MessageEffect
<1>4. TypeOK'
  <2>1. c2s' \in [Conns -> Seq(Nat)] /\ s2c' \in [Conns -> Seq(Nat)]
    BY <1>2, <1>3, ConstantsOK, SingletonFrame DEF TypeOK, WireTypeOK
  <2>2. WireTypeOK'
    BY <1>2, <1>3, <2>1 DEF TypeOK, WireTypeOK
  <2>3. send_bytes_sum' \in Nat /\ recv_bytes_sum' \in Nat
    BY <1>2, <1>3, ConstantsOK DEF TypeOK, CliTypeOK
  <2>4. temp_buf' \in [Conns -> Nat \cup {NoBuf}]
    BY <1>2, <1>3 DEF TypeOK, CliTypeOK
  <2>5. msg_cnt'[c] + 1 \in 0..MSG_LIMIT_PER_CLIENT
    BY <1>1, ConstantsOK
  <2>6. start_write_tick' \in [Conns -> 0..MSG_LIMIT_PER_CLIENT]
    BY <1>2, <1>3, <2>5 DEF TypeOK, CliTypeOK
  <2>7. CliTypeOK'
    BY <1>1, <1>2, <1>3, <2>3, <2>4, <2>6 DEF TypeOK, CliTypeOK, endVars
  <2> QED
    BY <2>2, <2>7 DEF TypeOK, SrvTypeOK
<1>5. ConnInv'
  <2> SUFFICES ASSUME NEW d \in Conns PROVE ConnOK(d)'
    BY DEF ConnInv
  <2>1. ConnOK(d)
    BY DEF ConnInv
  <2>2. CASE d # c
    BY <1>1, <1>2, <1>3, <2>1, <2>2, Frame
    DEF Untouched, TypeOK, WireTypeOK, CliTypeOK
  <2>3. CASE d = c
    <3>1. Request(c)'
      <4>1. /\ c2s'[c] = <<MSG_LEN>> /\ s2c'[c] = <<>> /\ SrvHolds(c, 0)'
            /\ cli_link'[c] = "open" /\ temp_buf'[c] = 0
        BY <1>1, <1>2
        DEF SrvHolds, TypeOK, WireTypeOK, CliTypeOK
      <4>2. MSG_LEN \in 1..MSG_LEN /\ MSG_LEN - MSG_LEN = 0
        BY ConstantsOK
      <4> QED
        BY <4>1, <4>2 DEF Request, SrvHolds
    <3>2. SrvCtx(c)' /\ CliCtx(c)'
      BY <1>1, <1>2, <1>3
      DEF ConnOK, SrvCtx, CliCtx, TypeOK, WireTypeOK, CliTypeOK
    <3> QED
      BY <2>3, <3>1, <3>2 DEF ConnOK, Phases
  <2> QED
    BY <2>2, <2>3
<1>6. OneLifeAtATime'
  BY <1>1, <1>2, <1>3 DEF OneLifeAtATime, TypeOK, CliTypeOK
<1> QED
  BY <1>1, <1>4, <1>5, <1>6

\* What the last message of a connection does to that connection, whether it is
\* reborn or not and whenever its on_close runs.
ClosesAfterLast(c, mode) ==
    /\ CliReadable(c, Head(s2c[c]))
    /\ LastOfConn(c)
    /\ Measure(c)
    /\ c2s' = Put(c2s, c, CLOSE)
    /\ cli_link'[c] = ClosedLink(mode)
    /\ temp_buf'[c] = ClosedBuf(mode)
    /\ UNCHANGED <<srv_link, con_buf, send_bytes_sum, start_write_tick>>
    /\ reborn_cnt'[c] = reborn_cnt[c]

\* The last round trip of a connection leaves just a close frame on it.
LEMMA ClosedConn ==
    ASSUME IInv, NEW c \in Conns, NEW mode \in CLOSE_MODES, ClosesAfterLast(c, mode)
    PROVE  /\ ConnOK(c)'
           /\ cli_link[c] = "open" /\ reborn_cnt[c] = c[2]
           /\ cli_link'[c] \in {"closing", "closed"}
           /\ temp_buf'[c] \in {0, NoBuf}
           /\ c2s' = [c2s EXCEPT ![c] = <<CLOSE>>]
           /\ s2c' = [s2c EXCEPT ![c] = <<>>]
           /\ EchoSize(c) = MSG_LEN /\ temp_buf[c] \in 0..MSG_LEN
           /\ start_write_tick[c] = MSG_LIMIT_PER_CLIENT
           /\ msg_cnt[c] + 1 = MSG_LIMIT_PER_CLIENT
           /\ rtt_hist' = rtt_hist \cup {<<c, MSG_LIMIT_PER_CLIENT>>}
           /\ loop_cnt' = loop_cnt + 1
           /\ recv_bytes_sum' = recv_bytes_sum + (MSG_LEN - temp_buf[c])
           /\ SamplesAreRoundTrips'
           /\ rtt_hist' \in SUBSET (Conns \X (0..MSG_LIMIT_PER_CLIENT))
           /\ msg_cnt' = [msg_cnt EXCEPT ![c] = MSG_LIMIT_PER_CLIENT]
           /\ loop_cnt' \in Nat /\ send_bytes_sum' \in Nat /\ recv_bytes_sum' \in Nat
<1> USE DEF IInv
<1>1. ConnOK(c) /\ CliReadable(c, Head(s2c[c])) /\ LastOfConn(c) /\ Measure(c)
  BY DEF ClosesAfterLast, ConnInv
<1>2. /\ cli_link[c] = "open" /\ srv_link[c] # "none"
      /\ SrvHolds(c, 0) /\ reborn_cnt[c] = c[2]
      /\ msg_cnt[c] \in 0..(MSG_LIMIT_PER_CLIENT - 1)
      /\ start_write_tick[c] = msg_cnt[c] + 1
      /\ c2s[c] = <<>> /\ EchoSize(c) = MSG_LEN
  BY <1>1, ClientReads
<1>3. PICK left \in 1..MSG_LEN :
          s2c[c] = <<left>> /\ temp_buf[c] = MSG_LEN - left /\ Head(s2c[c]) = left
  BY <1>1, ClientReads
<1>4. /\ SamplesAreRoundTrips'
      /\ rtt_hist' \in SUBSET (Conns \X (0..MSG_LIMIT_PER_CLIENT))
      /\ msg_cnt' = [msg_cnt EXCEPT ![c] = msg_cnt[c] + 1]
      /\ loop_cnt' \in Nat
  BY <1>1, <1>2, MeasureAddsSample
<1>5. msg_cnt' = [msg_cnt EXCEPT ![c] = MSG_LIMIT_PER_CLIENT]
  BY <1>1, <1>4 DEF LastOfConn
<1>6. /\ c2s' = [c2s EXCEPT ![c] = <<CLOSE>>]
      /\ s2c' = [s2c EXCEPT ![c] = <<>>]
      /\ recv_bytes_sum' = recv_bytes_sum + left
  BY <1>1, <1>2, <1>3, OneFrame DEF ClosesAfterLast, Put, CLOSE, Measure, Take
<1>7. send_bytes_sum' \in Nat /\ recv_bytes_sum' \in Nat
  BY <1>6, ConstantsOK DEF ClosesAfterLast, TypeOK, CliTypeOK
<1>8. \/ cli_link'[c] = "closing" /\ temp_buf'[c] = 0
      \/ cli_link'[c] = "closed" /\ temp_buf'[c] = NoBuf
  BY ClientAssumption DEF ClosesAfterLast, ClosedLink, ClosedBuf
<1>9. Goodbye(c)'
  BY <1>2, <1>6, <1>8
  DEF Goodbye, SrvHolds, ClosesAfterLast, TypeOK, WireTypeOK
<1>10. SrvCtx(c)' /\ CliCtx(c)'
  BY <1>1, <1>2, <1>5, <1>8
  DEF ConnOK, SrvCtx, CliCtx, ClosesAfterLast, TypeOK, CliTypeOK
<1>11. ConnOK(c)'
  BY <1>9, <1>10 DEF ConnOK, Phases
<1>12. /\ temp_buf[c] \in 0..MSG_LEN
       /\ recv_bytes_sum' = recv_bytes_sum + (MSG_LEN - temp_buf[c])
  BY <1>3, <1>6, ConstantsOK
<1>13. /\ start_write_tick[c] = MSG_LIMIT_PER_CLIENT
       /\ msg_cnt[c] + 1 = MSG_LIMIT_PER_CLIENT
       /\ rtt_hist' = rtt_hist \cup {<<c, MSG_LIMIT_PER_CLIENT>>}
       /\ loop_cnt' = loop_cnt + 1
  BY <1>1, <1>2 DEF LastOfConn, Measure
<1> QED
  BY <1>2, <1>4, <1>5, <1>6, <1>7, <1>8, <1>11, <1>12, <1>13

\* The last round trip of a connection in its last life.
LEMMA LastEffect ==
    ASSUME IInv, NEW c \in Conns, NEW mode \in CLOSE_MODES, CliOnReadLast(c, mode),
           UNCHANGED srvVars
    PROVE  /\ ClosesAfterLast(c, mode)
           /\ cli_link' = [cli_link EXCEPT ![c] = ClosedLink(mode)]
           /\ temp_buf' = [temp_buf EXCEPT ![c] = ClosedBuf(mode)]
           /\ UNCHANGED <<srv_link, broken, faults, reborn_cnt, start_write_tick,
                          send_bytes_sum>>
<1> USE DEF IInv, srvVars
<1>1. /\ cli_link' = [cli_link EXCEPT ![c] = ClosedLink(mode)]
      /\ temp_buf' = [temp_buf EXCEPT ![c] = ClosedBuf(mode)]
      /\ UNCHANGED <<srv_link, broken, faults, reborn_cnt, start_write_tick,
                     send_bytes_sum>>
  BY DEF CliOnReadLast
<1>2. ClosesAfterLast(c, mode)
  BY <1>1 DEF CliOnReadLast, ClosesAfterLast, TypeOK, WireTypeOK, CliTypeOK
<1> QED
  BY <1>1, <1>2

\* That connection goes to Goodbye.
LEMMA StepCliOnReadLast ==
    ASSUME IInv, NEW c \in Conns, NEW mode \in CLOSE_MODES, CliOnReadLast(c, mode),
           UNCHANGED srvVars
    PROVE  IInv'
<1> USE DEF IInv, srvVars
<1>1. /\ cli_link' = [cli_link EXCEPT ![c] = ClosedLink(mode)]
      /\ temp_buf' = [temp_buf EXCEPT ![c] = ClosedBuf(mode)]
      /\ UNCHANGED <<srv_link, broken, faults, reborn_cnt, start_write_tick>>
  BY LastEffect
<1>2. ClosesAfterLast(c, mode)
  BY LastEffect
<1>3. /\ ConnOK(c)'
      /\ cli_link[c] = "open"
      /\ cli_link'[c] \in {"closing", "closed"}
      /\ temp_buf'[c] \in {0, NoBuf}
      /\ c2s' = [c2s EXCEPT ![c] = <<CLOSE>>]
      /\ s2c' = [s2c EXCEPT ![c] = <<>>]
      /\ SamplesAreRoundTrips'
      /\ rtt_hist' \in SUBSET (Conns \X (0..MSG_LIMIT_PER_CLIENT))
      /\ msg_cnt' = [msg_cnt EXCEPT ![c] = MSG_LIMIT_PER_CLIENT]
      /\ loop_cnt' \in Nat /\ send_bytes_sum' \in Nat /\ recv_bytes_sum' \in Nat
  BY <1>2, ClosedConn
<1>4. TypeOK'
  <2>1. c2s' \in [Conns -> Seq(Nat)] /\ s2c' \in [Conns -> Seq(Nat)]
    BY <1>3, SingletonFrame DEF TypeOK, WireTypeOK, CLOSE
  <2>2. cli_link' \in [Conns -> CliLinks]
    BY <1>1, <1>3 DEF TypeOK, WireTypeOK, CliLinks
  <2>3. WireTypeOK'
    BY <1>1, <2>1, <2>2 DEF TypeOK, WireTypeOK
  <2>4. temp_buf' \in [Conns -> Nat \cup {NoBuf}]
    BY <1>1, <1>3 DEF TypeOK, CliTypeOK
  <2>5. EndsInClose(mode) + (IF SocketCount(cli_link') = 0 THEN 1 ELSE 0) \in Nat
    BY DEF EndsInClose, EndAtClose
  <2>6. /\ row' \in [hist : SUBSET (Conns \X (0..MSG_LIMIT_PER_CLIENT)),
                     sent : Nat, received : Nat]
        /\ end_calls' \in Nat
        /\ proc' \in {"running", "stopping", "exited", "aborted"}
    BY <1>3, <2>5, EndClientOK DEF CliOnReadLast, TypeOK
  <2>7. msg_cnt' \in [Conns -> 0..MSG_LIMIT_PER_CLIENT]
    BY <1>3, ConstantsOK DEF TypeOK, CliTypeOK
  <2>8. CliTypeOK'
    BY <1>1, <1>3, <2>4, <2>6, <2>7 DEF TypeOK, CliTypeOK
  <2> QED
    BY <2>3, <2>8 DEF TypeOK, SrvTypeOK
<1>5. ConnInv'
  <2> SUFFICES ASSUME NEW d \in Conns, d # c PROVE ConnOK(d)'
    BY <1>3 DEF ConnInv
  <2> QED
    BY <1>1, <1>3, Frame DEF ConnInv, Untouched, TypeOK, WireTypeOK, CliTypeOK
<1>6. OneLifeAtATime'
  <2> SUFFICES ASSUME NEW a \in Conns, NEW b \in Conns, a[1] = b[1], a[2] < b[2],
                      cli_link'[b] # "none"
               PROVE  /\ cli_link'[a] \in {"closing", "closed"}
                      /\ msg_cnt'[a] = MSG_LIMIT_PER_CLIENT
    BY DEF OneLifeAtATime
  <2>1. cli_link[b] # "none"
    BY <1>1, <1>3 DEF TypeOK, WireTypeOK
  <2>2. cli_link[a] \in {"closing", "closed"} /\ msg_cnt[a] = MSG_LIMIT_PER_CLIENT
    BY <2>1 DEF OneLifeAtATime
  <2> QED
    BY <2>2, <1>1, <1>3 DEF TypeOK, WireTypeOK, CliTypeOK
<1> QED
  BY <1>3, <1>4, <1>5, <1>6

\* The last round trip of a connection that is reborn: the next life was unused,
\* and takes over a full buffer.
LEMMA RebornEffect ==
    ASSUME IInv, NEW c \in Conns, NEW mode \in CLOSE_MODES, CliOnReadReborn(c, mode),
           UNCHANGED srvVars
    PROVE  /\ ClosesAfterLast(c, mode)
           /\ reborn_cnt[c] = c[2] /\ reborn_cnt[c] < REBORN_LIMIT_FOR_CLIENT
           /\ \E next \in Conns :
                  /\ next = <<c[1], reborn_cnt[c] + 1>>
                  /\ next # c /\ next[1] = c[1] /\ next[2] = c[2] + 1
                  /\ cli_link[next] = "none"
                  /\ cli_link' = [cli_link EXCEPT ![c] = ClosedLink(mode),
                                                  ![next] = "connecting"]
                  /\ temp_buf' = [temp_buf EXCEPT ![c] = ClosedBuf(mode),
                                                  ![next] = EchoSize(c)]
                  /\ reborn_cnt' = [reborn_cnt EXCEPT ![next] = reborn_cnt[c] + 1]
           /\ UNCHANGED <<srv_link, broken, faults, start_write_tick, send_bytes_sum>>
<1> USE DEF IInv, srvVars
<1>1. reborn_cnt[c] < REBORN_LIMIT_FOR_CLIENT
  BY DEF CliOnReadReborn
<1>2. reborn_cnt[c] = c[2] /\ cli_link[c] = "open" /\ c[1] \in Clients
      /\ c[2] \in 1..REBORN_LIMIT_FOR_CLIENT
  BY ClientReads, ConstantsOK DEF CliOnReadReborn, ConnInv
<1>3. PICK next \in Conns : /\ next = <<c[1], reborn_cnt[c] + 1>>
                            /\ next # c /\ next[1] = c[1] /\ next[2] = c[2] + 1
  <2> DEFINE n == <<c[1], reborn_cnt[c] + 1>>
  <2>1. n[1] = c[1] /\ n[2] = c[2] + 1
    BY <1>2
  <2>2. n[2] \in 1..REBORN_LIMIT_FOR_CLIENT
    BY <1>1, <1>2, <2>1, ConstantsOK
  <2>3. n \in Conns
    BY <1>2, <2>1, <2>2, ConnsAssumption
  <2>4. n # c
    BY <1>2, <2>1
  <2> QED
    BY <2>1, <2>3, <2>4
<1>4. /\ cli_link' = [cli_link EXCEPT ![c] = ClosedLink(mode),
                                       ![next] = "connecting"]
       /\ temp_buf' = [temp_buf EXCEPT ![c] = ClosedBuf(mode),
                                       ![next] = EchoSize(c)]
       /\ reborn_cnt' = [reborn_cnt EXCEPT ![next] = reborn_cnt[c] + 1]
       /\ UNCHANGED <<srv_link, broken, faults, start_write_tick, send_bytes_sum>>
  BY <1>3 DEF CliOnReadReborn
<1>5. cli_link[next] = "none"
  BY <1>2, <1>3, ConstantsOK DEF OneLifeAtATime
<1>6. ClosesAfterLast(c, mode)
  BY <1>4, <1>3 DEF CliOnReadReborn, ClosesAfterLast, TypeOK, WireTypeOK, CliTypeOK
<1> QED
  BY <1>1, <1>2, <1>3, <1>5, <1>4, <1>6

\* That connection goes to Goodbye, the next one to Nothing.
LEMMA StepCliOnReadReborn ==
    ASSUME IInv, NEW c \in Conns, NEW mode \in CLOSE_MODES, CliOnReadReborn(c, mode),
           UNCHANGED srvVars
    PROVE  IInv'
<1> USE DEF IInv, srvVars
<1>1. reborn_cnt[c] = c[2] /\ reborn_cnt[c] < REBORN_LIMIT_FOR_CLIENT
  BY RebornEffect
<1>2. cli_link[c] = "open" /\ c[1] \in Clients /\ c[2] \in 1..REBORN_LIMIT_FOR_CLIENT
  BY ClientReads, ConstantsOK DEF CliOnReadReborn, ConnInv
<1>3. PICK next \in Conns :
          /\ next = <<c[1], reborn_cnt[c] + 1>>
          /\ next # c /\ next[1] = c[1] /\ next[2] = c[2] + 1
          /\ cli_link[next] = "none"
          /\ cli_link' = [cli_link EXCEPT ![c] = ClosedLink(mode),
                                          ![next] = "connecting"]
          /\ temp_buf' = [temp_buf EXCEPT ![c] = ClosedBuf(mode),
                                          ![next] = EchoSize(c)]
          /\ reborn_cnt' = [reborn_cnt EXCEPT ![next] = reborn_cnt[c] + 1]
  BY RebornEffect
<1>4. UNCHANGED <<srv_link, broken, faults, start_write_tick>>
  BY RebornEffect
<1>5. ClosesAfterLast(c, mode)
  BY RebornEffect
<1>6. /\ ConnOK(c)'
      /\ cli_link'[c] \in {"closing", "closed"}
      /\ temp_buf'[c] \in {0, NoBuf}
      /\ c2s' = [c2s EXCEPT ![c] = <<CLOSE>>]
      /\ s2c' = [s2c EXCEPT ![c] = <<>>]
      /\ EchoSize(c) = MSG_LEN
      /\ SamplesAreRoundTrips'
      /\ rtt_hist' \in SUBSET (Conns \X (0..MSG_LIMIT_PER_CLIENT))
      /\ msg_cnt' = [msg_cnt EXCEPT ![c] = MSG_LIMIT_PER_CLIENT]
      /\ loop_cnt' \in Nat /\ send_bytes_sum' \in Nat /\ recv_bytes_sum' \in Nat
  BY <1>5, ClosedConn
<1>7. TypeOK'
  <2>1. c2s' \in [Conns -> Seq(Nat)] /\ s2c' \in [Conns -> Seq(Nat)]
    BY <1>6, SingletonFrame DEF TypeOK, WireTypeOK, CLOSE
  <2>2. cli_link' \in [Conns -> CliLinks]
    BY <1>1, <1>3, <1>4 DEF TypeOK, WireTypeOK, CliLinks, ClosedLink
  <2>3. WireTypeOK'
    BY <1>1, <1>4, <2>1, <2>2 DEF TypeOK, WireTypeOK
  <2>4. temp_buf' \in [Conns -> Nat \cup {NoBuf}]
    BY <1>1, <1>3, <1>4, <1>6, ConstantsOK DEF TypeOK, CliTypeOK, ClosedBuf
  <2>5. EndsInClose(mode) \in Nat
    BY DEF EndsInClose, EndAtClose
  <2>6. /\ row' \in [hist : SUBSET (Conns \X (0..MSG_LIMIT_PER_CLIENT)),
                     sent : Nat, received : Nat]
        /\ end_calls' \in Nat
        /\ proc' \in {"running", "stopping", "exited", "aborted"}
    BY <1>6, <2>5, EndClientOK DEF CliOnReadReborn, TypeOK
  <2>7. msg_cnt' \in [Conns -> 0..MSG_LIMIT_PER_CLIENT]
    BY <1>6, ConstantsOK DEF TypeOK, CliTypeOK
  <2>8. reborn_cnt' \in [Conns -> 0..REBORN_LIMIT_FOR_CLIENT]
    BY <1>1, <1>4, <1>2, <1>3, ConstantsOK DEF TypeOK, CliTypeOK
  <2>9. CliTypeOK'
    BY <1>1, <1>4, <1>6, <2>4, <2>6, <2>7, <2>8 DEF TypeOK, CliTypeOK
  <2> QED
    BY <2>3, <2>9 DEF TypeOK, SrvTypeOK
<1>8. ConnInv'
  <2> SUFFICES ASSUME NEW d \in Conns, d # c PROVE ConnOK(d)'
    BY <1>6 DEF ConnInv
  <2>1. CASE d = next
    <3>1. ConnOK(next) /\ Nothing(next)
      BY <1>3, <1>4 DEF ConnInv, ConnOK, Phases, Request, Echo, Goodbye
    <3>2. cli_link'[next] = "connecting" /\ temp_buf'[next] = MSG_LEN
          /\ reborn_cnt'[next] = next[2]
      BY <1>1, <1>4, <1>2, <1>3, <1>6 DEF TypeOK, WireTypeOK, CliTypeOK
    <3>3. Nothing(next)'
      BY <1>1, <1>3, <1>4, <1>6, <3>1, <3>2 DEF Nothing, SrvHolds, TypeOK, WireTypeOK
    <3>4. SrvCtx(next)' /\ CliCtx(next)'
      BY <1>1, <1>3, <1>4, <1>6, <3>1, <3>2
      DEF ConnOK, SrvCtx, CliCtx, TypeOK, CliTypeOK
    <3> QED
      BY <2>1, <3>3, <3>4 DEF ConnOK, Phases
  <2>2. CASE d # next
    BY <1>1, <1>3, <1>4, <1>6, <2>2, Frame
    DEF ConnInv, Untouched, TypeOK, WireTypeOK, CliTypeOK
  <2> QED
    BY <2>1, <2>2
<1>9. OneLifeAtATime'
  <2> SUFFICES ASSUME NEW a \in Conns, NEW b \in Conns, a[1] = b[1], a[2] < b[2],
                      cli_link'[b] # "none"
               PROVE  /\ cli_link'[a] \in {"closing", "closed"}
                      /\ msg_cnt'[a] = MSG_LIMIT_PER_CLIENT
    BY DEF OneLifeAtATime
  <2>1. CASE a = c
    BY <1>6, <2>1 DEF TypeOK, CliTypeOK
  <2>2. CASE a # c /\ b = next
    <3>1. a[2] < c[2] /\ a[1] = c[1]
      BY <1>3, <2>2, ConstantsOK
    <3>2. cli_link[a] \in {"closing", "closed"} /\ msg_cnt[a] = MSG_LIMIT_PER_CLIENT
      BY <1>2, <3>1 DEF OneLifeAtATime
    <3> QED
      BY <1>1, <1>3, <1>4, <1>6, <2>2, <3>2 DEF TypeOK, WireTypeOK, CliTypeOK
  <2>3. CASE a # c /\ b # next
    <3>1. cli_link[b] # "none"
      BY <1>1, <1>4, <1>2, <1>3, <2>3 DEF TypeOK, WireTypeOK
    <3>2. cli_link[a] \in {"closing", "closed"} /\ msg_cnt[a] = MSG_LIMIT_PER_CLIENT
      BY <3>1 DEF OneLifeAtATime
    <3> QED
      BY <1>1, <1>3, <1>4, <1>6, <2>3, <3>2 DEF TypeOK, WireTypeOK, CliTypeOK
  <2> QED
    BY <2>1, <2>2, <2>3
<1> QED
  BY <1>6, <1>7, <1>8, <1>9

-----------------------------------------------------------------------------
\* The invariant holds when the loop starts.
LEMMA InitIInv == Init => IInv
<1> SUFFICES ASSUME Init PROVE IInv
  OBVIOUS
<1> USE DEF Init, CliInit, SrvInit
<1>1. TypeOK
  <2>1. WireTypeOK
    BY ConstantsOK DEF WireTypeOK, CliLinks, SrvLinks
  <2>2. SrvTypeOK
    BY DEF SrvTypeOK, Counters, NoTraffic
  <2>3. CliTypeOK
    BY ConstantsOK DEF CliTypeOK, First
  <2> QED
    BY <2>1, <2>2, <2>3 DEF TypeOK
<1>2. ConnInv
  BY ConstantsOK DEF ConnInv, ConnOK, Phases, Nothing, SrvHolds, SrvCtx, CliCtx, First
<1>3. OneLifeAtATime
  <2>1. \A b \in Conns : cli_link[b] # "none" => b[2] = 1
    BY DEF First
  <2>2. \A a \in Conns : a[2] \in 1..REBORN_LIMIT_FOR_CLIENT
    BY ConnsAssumption
  <2> QED
    BY <2>1, <2>2, ConstantsOK DEF OneLifeAtATime
<1>4. SamplesAreRoundTrips
  <2>1. {s \in Conns \X Messages : s[2] <= msg_cnt[s[1]]} = {}
    BY ConstantsOK DEF Messages
  <2>2. Cardinality({}) = 0
    BY FS_EmptySet
  <2> QED
    BY <2>1, <2>2 DEF SamplesAreRoundTrips
<1> QED
  BY <1>1, <1>2, <1>3, <1>4 DEF IInv

\* Every step of the two processes and of the network preserves the invariant.
LEMMA NextIInv == IInv /\ [Next]_vars => IInv'
<1> SUFFICES ASSUME IInv, [Next]_vars PROVE IInv'
  OBVIOUS
<1>0. /\ broken \in SUBSET Conns /\ faults \in 0..MAX_FAULTS
      /\ srv_proc \in {"running", "aborted"}
      /\ proc \in {"running", "stopping", "exited", "aborted"}
  BY DEF IInv, TypeOK, WireTypeOK, SrvTypeOK, CliTypeOK
<1>1. ASSUME NEW c \in Conns, ServerStep(c)
      PROVE  IInv'
  <2> USE <1>1 DEF ServerStep
  <2>1. CASE SrvOnNewConnection(c)
    BY <2>1, StepSrvOnNewConnection
  <2>2. ASSUME NEW n \in 1..SRV_MAX_LEN, SrvOnReadPiece(c, n)
        PROVE  IInv'
    BY <2>2, StepSrvOnReadPiece
  <2>3. CASE SrvOnReadMessage(c)
    BY <2>3, StepSrvOnReadMessage
  <2>4. CASE SrvAbort(c)
    BY <1>0, <2>4, StepProcess DEF SrvAbort, cliVars, endVars
  <2>5. CASE SrvOnClose(c)
    BY <2>5, StepSrvOnClose
  <2> QED
    BY <2>1, <2>2, <2>3, <2>4, <2>5 DEF SrvStep
<1>2. ASSUME NEW c \in Conns, ClientStep(c)
      PROVE  IInv'
  <2> USE <1>2 DEF ClientStep
  <2>1. CASE CliOnOpen(c)
    BY <2>1, StepCliOnOpen
  <2>2. ASSUME NEW n \in 1..MSG_LEN, CliOnReadPiece(c, n)
        PROVE  IInv'
    BY <2>2, StepCliOnReadPiece
  <2>3. CASE CliOnReadMessage(c)
    BY <2>3, StepCliOnReadMessage
  <2>4. ASSUME NEW mode \in CLOSE_MODES, CliOnReadReborn(c, mode)
        PROVE  IInv'
    BY <2>4, StepCliOnReadReborn
  <2>5. ASSUME NEW mode \in CLOSE_MODES, CliOnReadLast(c, mode)
        PROVE  IInv'
    BY <2>5, StepCliOnReadLast
  <2>6. CASE CliOnOpenAborts(c)
    BY <1>0, <2>6, StepProcess DEF CliOnOpenAborts, Abort, srvVars
  <2>7. CASE CliOnReadAborts(c)
    BY <1>0, <2>7, StepProcess DEF CliOnReadAborts, Abort, srvVars
  <2>8. CASE CliRebornAborts(c)
    <3>1. faults' \in 0..MAX_FAULTS
      BY <1>0, <2>8, ConstantsOK DEF CliRebornAborts
    <3> QED
      BY <1>0, <2>8, <3>1, StepProcess DEF CliRebornAborts, Abort, srvVars
  <2>9. CASE CliOnClose(c)
    BY <2>9, StepCliOnClose
  <2> QED
    BY <2>1, <2>2, <2>3, <2>4, <2>5, <2>6, <2>7, <2>8, <2>9 DEF CliStep
<1>3. ASSUME NEW c \in Conns, LinkFails(c)
      PROVE  IInv'
  <2>1. faults' \in 0..MAX_FAULTS
    BY <1>0, <1>3, ConstantsOK DEF LinkFails, BreakLink
  <2> QED
    BY <1>0, <1>3, <2>1, StepProcess
    DEF LinkFails, BreakLink, srvVars, cliVars, endVars
<1>4. CASE ClientExit
  BY <1>0, <1>4, StepProcess DEF ClientExit, CliLoopExit, srvVars
<1>5. CASE UNCHANGED vars
  BY <1>0, <1>5, StepProcess DEF vars, wireVars, srvVars, cliVars, endVars
<1> QED
  BY <1>1, <1>2, <1>3, <1>4, <1>5 DEF Next, Terminated

\* The inductive invariant holds in every reachable state, whatever the clients,
\* the lengths, the limits, the faults and the library's close mode.
THEOREM Invariance == Spec => []IInv
  BY InitIInv, NextIInv, PTL DEF Spec

\* Every variable of both echo processes and of the wire keeps its type.
THEOREM TypeCorrect == Spec => []TypeOK
<1>1. IInv => TypeOK
  BY DEF IInv
<1> QED
  BY <1>1, Invariance, PTL

\* Echo client and server always have exactly one message between them on a
\* connection both have open.
THEOREM PingPong == Spec => []OneMessageUnderWay
<1>1. ASSUME IInv PROVE OneMessageUnderWay
  <2> SUFFICES ASSUME NEW c \in Conns, cli_link[c] = "open", srv_link[c] = "open"
               PROVE  /\ Len(c2s[c] \o s2c[c]) = 1
                      /\ temp_buf[c] + con_buf[c] + (c2s[c] \o s2c[c])[1] = MSG_LEN
    BY DEF OneMessageUnderWay
  <2>1. ConnOK(c) /\ con_buf[c] # NoCtx
    BY <1>1 DEF IInv, ConnInv, ConnOK, SrvCtx
  <2>2. Request(c) \/ Echo(c)
    BY <2>1 DEF ConnOK, Phases, Nothing, Goodbye
  <2>3. CASE Request(c)
    BY <2>1, <2>3, OneFrame, ConstantsOK DEF Request, SrvHolds
  <2>4. CASE Echo(c)
    BY <2>1, <2>4, OneFrame, ConstantsOK DEF Echo, SrvHolds
  <2> QED
    BY <2>2, <2>3, <2>4
<1> QED
  BY <1>1, Invariance, PTL

\* Neither memcpy of the two OnRead callbacks writes past its buffer, even when
\* links fail, calls fail and processes abort.
THEOREM BufferSafety == Spec => []NoOverrun
<1>1. ASSUME IInv PROVE NoOverrun
  <2> SUFFICES ASSUME NEW c \in Conns
               PROVE  temp_buf[c] <= MSG_LEN /\ con_buf[c] <= SRV_MAX_LEN
    BY DEF NoOverrun
  <2>1. Phases(c)
    BY <1>1 DEF IInv, ConnInv, ConnOK
  <2> QED
    BY <2>1, ConstantsOK DEF Phases, Nothing, Request, Echo, Goodbye, SrvHolds,
       NoCtx, NoBuf
<1> QED
  BY <1>1, Invariance, PTL

\* A client of the benchmark never has two connections at work, and is reborn
\* only when the life before is fully measured.
THEOREM LivesInOrder == Spec => []OneLifeAtATime
<1>1. IInv => OneLifeAtATime
  BY DEF IInv
<1> QED
  BY <1>1, Invariance, PTL

\* Every counted round trip is one sample of its own in the histogram.
THEOREM SamplesSound == Spec => []SamplesAreRoundTrips
<1>1. IInv => SamplesAreRoundTrips
  BY DEF IInv
<1> QED
  BY <1>1, Invariance, PTL
=============================================================================
