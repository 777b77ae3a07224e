---------------------------- MODULE LibEchoProofs ----------------------------
(***************************************************************************)
(* Proofs about the rows of the uWebSockets and websocketpp servers, for   *)
(* any connections, windows, sizes and limits, and whatever send refuses.  *)
(***************************************************************************)
EXTENDS LibEchoServer, SumProofs

\* A message is counted as sent only after it was counted as received; the rest is
\* the two properties of the rows.
StatInv ==
    /\ lib \in {"uws", "tpp"}
    /\ stats \in Counters
    /\ rows \in Counters
    /\ interval_start_ns \in Nat
    /\ now_ns \in Nat
    /\ stats.send_msg <= stats.recv_msg
    /\ stats.send_bytes <= stats.recv_bytes
    /\ RowsMatchIntervals
    /\ NoRowOverdue

\* The initial counters satisfy the invariant.
LEMMA StatInit == Init => StatInv
BY IntervalAssumption, LibAssumption
   DEF Init, StatInv, NoTraffic, Counters, RowsMatchIntervals, NoRowOverdue, Received

\* When a message is received the current interval has begun, with that message if
\* it is the first, and after all messages of the rows.
LEMMA StartedRange ==
    ASSUME StatInv
    PROVE  /\ Started \in Nat \ {0}
           /\ Clock(rows.recv_msg) <= now_ns
           /\ now_ns <= Started
           /\ Started <= Clock(rows.recv_msg + 1)
<1>1. rows.recv_msg \in Nat /\ stats.recv_msg \in Nat
  BY DEF StatInv, Counters
<1>2. CASE interval_start_ns = 0
  <2>1. rows.recv_msg = 0 /\ Received = 0 /\ Started = 1
    BY <1>1, <1>2 DEF StatInv, RowsMatchIntervals, Received, Started, Clock
  <2>2. now_ns = 0
    BY <1>2 DEF StatInv, RowsMatchIntervals
  <2> QED
    BY <2>1, <2>2 DEF Clock
<1>3. CASE interval_start_ns # 0
  BY <1>3 DEF StatInv, Started, RowsMatchIntervals
<1> QED
  BY <1>2, <1>3

\* What a message adds to the counters when it arrives.
LEMMA CountedRange ==
    ASSUME StatInv, NEW size \in Nat
    PROVE  /\ Counted(size) = [recv_bytes |-> stats.recv_bytes + size,
                               send_bytes |-> stats.send_bytes,
                               recv_msg |-> stats.recv_msg + 1,
                               send_msg |-> stats.send_msg]
           /\ EchoedMessage(ReceivedBytes(stats, size), size) =
                 [recv_bytes |-> stats.recv_bytes + size,
                  send_bytes |-> stats.send_bytes + size,
                  recv_msg |-> stats.recv_msg + 1,
                  send_msg |-> stats.send_msg + 1]
<1>1. PICK rb \in Nat, sb \in Nat, rm \in Nat, sm \in Nat :
         stats = [recv_bytes |-> rb, send_bytes |-> sb,
                  recv_msg |-> rm, send_msg |-> sm]
  BY DEF StatInv, Counters
<1> DEFINE r == [recv_bytes |-> rb + size, send_bytes |-> sb,
                 recv_msg |-> rm, send_msg |-> sm]
<1>2. ReceivedBytes(stats, size) = r
  BY <1>1 DEF ReceivedBytes
<1>3. Counted(size) = [r EXCEPT !.recv_msg = @ + 1]
  BY <1>2 DEF Counted
<1>4. EchoedMessage(r, size) =
         [recv_bytes |-> rb + size, send_bytes |-> sb + size,
          recv_msg |-> rm + 1, send_msg |-> sm + 1]
  BY DEF EchoedMessage
<1> QED
  BY <1>1, <1>2, <1>3, <1>4

\* A step of count_stats: the counters of an echoed message stay within the
\* interval or end it.
LEMMA RowKeeps ==
    ASSUME StatInv, lib' = lib, NEW s \in Counters,
           s.recv_msg = stats.recv_msg + 1, s.send_msg = stats.send_msg + 1,
           s.send_bytes <= s.recv_bytes,
           count_stats(s, Started, Clock(Received + 1))
    PROVE  StatInv'
<1> DEFINE now == Clock(Received + 1)
<1>1. /\ s.recv_msg \in Nat /\ s.send_msg \in Nat /\ s.send_msg <= s.recv_msg
      /\ stats.recv_msg \in Nat /\ stats.send_msg \in Nat
  BY DEF StatInv, Counters
<1>2. /\ Started \in Nat \ {0}
      /\ Clock(rows.recv_msg) <= now_ns
      /\ now_ns <= Started
      /\ Started <= Clock(rows.recv_msg + 1)
  BY StartedRange
<1>3. count_stats(s, Started, now)
  OBVIOUS
<1>4. CASE NoRow(s)
  <2>1. /\ stats' = s /\ interval_start_ns' = Started /\ rows' = rows
        /\ now_ns' = now_ns
    BY <1>3, <1>4 DEF count_stats
  <2>2. RowsMatchIntervals'
    BY <1>2, <2>1 DEF RowsMatchIntervals, Clock
  <2>3. NoRowOverdue'
    <3>1. s.recv_msg # 0 /\ s.recv_msg % INTERVAL # 0
            /\ (lib = "tpp" => s.recv_bytes <= MAX_BYTES)
      BY <1>1, <1>4 DEF NoRow, Quiet
    <3>2. s.send_bytes \in Nat /\ s.recv_bytes \in Nat
      BY DEF Counters
    <3>3. lib = "tpp" => s.send_bytes <= MAX_BYTES
      BY <3>1, <3>2, LibAssumption
    <3>4. ASSUME s.recv_msg = s.send_msg PROVE s.recv_msg < INTERVAL
      <4>1. stats.recv_msg < INTERVAL
        BY <1>1, <3>4 DEF StatInv, NoRowOverdue
      <4>2. s.recv_msg \in 1..INTERVAL
        BY <1>1, <4>1, IntervalAssumption
      <4> QED
        BY <3>1, <4>2, FullInterval
    <3> QED
      BY <2>1, <3>1, <3>3, <3>4 DEF NoRowOverdue
  <2> QED
    BY <1>1, <1>2, <2>1, <2>2, <2>3 DEF StatInv, Counters
<1>5. CASE ~NoRow(s)
  <2>1. /\ stats' = NoTraffic /\ rows' = WithRow(rows, s)
        /\ now_ns' = now /\ interval_start_ns' \in {now, now + 1}
    BY <1>3, <1>5 DEF count_stats, WriteRow
  <2>2. /\ rows' \in Counters /\ rows'.recv_msg = Received + 1
        /\ Received \in Nat
    <3>1. rows \in Counters /\ stats \in Counters /\ s \in Counters
      BY DEF StatInv
    <3>2. rows' = [recv_bytes |-> rows.recv_bytes + s.recv_bytes,
                   send_bytes |-> rows.send_bytes + s.send_bytes,
                   recv_msg |-> rows.recv_msg + s.recv_msg,
                   send_msg |-> rows.send_msg + s.send_msg]
      BY <2>1 DEF WithRow
    <3> QED
      BY <1>1, <3>1, <3>2 DEF Counters, Received
  <2>3. stats' \in Counters /\ stats'.recv_msg = 0 /\ stats'.send_msg = 0
          /\ stats'.recv_bytes = 0 /\ stats'.send_bytes = 0
    BY <2>1 DEF NoTraffic, Counters
  <2>4. RowsMatchIntervals' /\ now_ns' \in Nat /\ interval_start_ns' \in Nat
    BY <2>1, <2>2 DEF RowsMatchIntervals, Clock
  <2>5. NoRowOverdue'
    BY <2>3, IntervalAssumption, LibAssumption DEF NoRowOverdue
  <2> QED
    BY <2>1, <2>2, <2>3, <2>4, <2>5 DEF StatInv, Clock
<1> QED
  BY <1>4, <1>5

\* The echo of a message is counted, and ends the interval if it is full.
LEMMA EchoKeeps ==
    ASSUME StatInv, NEW size \in Nat \ {0}, CountsEcho(size), lib' = lib
    PROVE  StatInv'
<1>1. PICK s : s = EchoedMessage(ReceivedBytes(stats, size), size)
  OBVIOUS
<1>2. s = [recv_bytes |-> stats.recv_bytes + size,
           send_bytes |-> stats.send_bytes + size,
           recv_msg |-> stats.recv_msg + 1,
           send_msg |-> stats.send_msg + 1]
  BY <1>1, CountedRange
<1>3. /\ s \in Counters /\ s.recv_msg = stats.recv_msg + 1
      /\ s.send_msg = stats.send_msg + 1 /\ s.send_bytes <= s.recv_bytes
  <2>1. stats.recv_bytes \in Nat /\ stats.send_bytes \in Nat
          /\ stats.recv_msg \in Nat /\ stats.send_msg \in Nat
          /\ stats.send_bytes <= stats.recv_bytes
    BY DEF StatInv, Counters
  <2> QED
    BY <1>2, <2>1 DEF Counters
<1>4. count_stats(s, Started, Clock(Received + 1))
  BY <1>1 DEF CountsEcho
<1> QED
  BY <1>3, <1>4, RowKeeps

\* A send that throws leaves an interval in which more is received than sent.
LEMMA ThrowKeeps ==
    ASSUME NEW c \in Conns, NEW size \in Nat \ {0}, StatInv, OnMessageThrows(c, size)
    PROVE  StatInv'
<1>1. /\ stats' = Counted(size) /\ interval_start_ns' = Started
      /\ rows' = rows /\ now_ns' = now_ns /\ lib' = lib
  BY DEF OnMessageThrows, Arrives
<1>2. /\ stats' \in Counters /\ stats'.recv_msg = stats.recv_msg + 1
      /\ stats'.send_msg = stats.send_msg
      /\ stats'.recv_bytes = stats.recv_bytes + size
      /\ stats'.send_bytes = stats.send_bytes
  <2>1. stats.recv_bytes \in Nat /\ stats.send_bytes \in Nat
          /\ stats.recv_msg \in Nat /\ stats.send_msg \in Nat
    BY DEF StatInv, Counters
  <2> QED
    BY <1>1, <2>1, CountedRange DEF Counters
<1>3. /\ Started \in Nat \ {0}
      /\ Clock(rows.recv_msg) <= now_ns
      /\ now_ns <= Started
      /\ Started <= Clock(rows.recv_msg + 1)
  BY StartedRange
<1>4. RowsMatchIntervals'
  BY <1>1, <1>3 DEF RowsMatchIntervals, Clock
<1>5. stats.send_msg \in Nat /\ stats.recv_msg \in Nat
        /\ stats.send_bytes \in Nat /\ stats.recv_bytes \in Nat
  BY DEF StatInv, Counters
<1>6. NoRowOverdue'
  BY <1>1, <1>2, <1>5 DEF StatInv, NoRowOverdue
<1>7. stats'.send_msg <= stats'.recv_msg /\ stats'.send_bytes <= stats'.recv_bytes
  BY <1>2, <1>5 DEF StatInv
<1> QED
  BY <1>1, <1>2, <1>3, <1>4, <1>6, <1>7 DEF StatInv

\* The rest of the server and its clients does not touch the counters.
LEMMA StatFrame == ASSUME StatInv, UNCHANGED <<lib, statVars>>
                   PROVE  StatInv'
BY DEF statVars, StatInv, RowsMatchIntervals, NoRowOverdue, Received

\* Every step keeps the invariant.
LEMMA StatNext == ASSUME StatInv, [Next]_vars
                  PROVE  StatInv'
<1>1. ASSUME NEW c \in Conns, NEW size \in Sizes, OnMessage(c, size) PROVE StatInv'
  BY <1>1, EchoKeeps, LibAssumption DEF OnMessage, Arrives
<1>2. ASSUME NEW c \in Conns, NEW size \in Sizes, OnMessageDropped(c, size)
      PROVE  StatInv'
  BY <1>2, EchoKeeps, LibAssumption DEF OnMessageDropped, Arrives
<1>3. ASSUME NEW c \in Conns, NEW size \in Sizes, OnMessageThrows(c, size)
      PROVE  StatInv'
  BY <1>3, ThrowKeeps, LibAssumption
<1>4. ASSUME NEW c \in Conns, NEW size \in Sizes, ClientSends(c, size)
      PROVE  StatInv'
  BY <1>4, StatFrame DEF ClientSends
<1>5. ASSUME NEW c \in Conns, OnOpen(c) \/ OnClose(c) \/ ClientReads(c)
      PROVE  StatInv'
  BY <1>5, StatFrame DEF OnOpen, OnClose, ClientReads
<1>6. CASE UNCHANGED vars
  BY <1>6, StatFrame DEF vars
<1> QED
  BY <1>1, <1>2, <1>3, <1>4, <1>5, <1>6 DEF Next, Step

\* The invariant holds in every reachable state of either server.
THEOREM StatInvariance == Spec => []StatInv
<1>1. Init => StatInv
  BY StatInit
<1>2. StatInv /\ [Next]_vars => StatInv'
  BY StatNext
<1> QED
  BY <1>1, <1>2, PTL DEF Spec

\* Every message is counted in the row in whose interval it is received, though the
\* clock is read twice between the last message of a row and the first of the next.
THEOREM RowsOfIntervals == Spec => []RowsMatchIntervals
<1>1. StatInv => RowsMatchIntervals
  BY DEF StatInv
<1> QED
  BY <1>1, StatInvariance, PTL

\* No row is late by count unless send threw in its interval, and none by the bytes
\* it has echoed, whatever send throws.
THEOREM RowsInTime == Spec => []NoRowOverdue
<1>1. StatInv => NoRowOverdue
  BY DEF StatInv
<1> QED
  BY <1>1, StatInvariance, PTL

-----------------------------------------------------------------------------
(* What the totals count.                                                  *)

\* What is counted by a tally of each connection.
Messages(t) == SumOver([c \in Conns |-> t[c].msg], Conns)
Bytes(t) == SumOver([c \in Conns |-> t[c].bytes], Conns)

\* A sum with a greater term.
LEMMA SumGrows ==
    ASSUME NEW f \in [Conns -> Nat], NEW g \in [Conns -> Nat], NEW c \in Conns,
           \A d \in Conns : d # c => g[d] = f[d], NEW n \in Nat, g[c] = f[c] + n
    PROVE  SumOver(g, Conns) = SumOver(f, Conns) + n /\ SumOver(f, Conns) \in Nat
<1>1. IsFiniteSet(Conns)
  BY LibAssumption
<1>2. /\ SumOver(g, Conns) = SumOver(f, Conns) - f[c] + g[c]
      /\ SumOver(f, Conns) \in Nat
  BY <1>1, SumChange
<1>3. f[c] \in Nat
  OBVIOUS
<1> QED
  BY <1>2, <1>3

\* A message more on one connection.
Grown(t, c, size) == [t EXCEPT ![c] = Tallied(@, size)]

\* It is one more in the total, and its bytes are.
LEMMA TallyGrows ==
    ASSUME NEW t \in [Conns -> Tally], NEW c \in Conns, NEW size \in Nat,
           NEW u, u = Grown(t, c, size)
    PROVE  /\ u \in [Conns -> Tally]
           /\ Messages(t) \in Nat /\ Bytes(t) \in Nat
           /\ Messages(u) = Messages(t) + 1
           /\ Bytes(u) = Bytes(t) + size
<1>1. /\ t[c].msg \in Nat /\ t[c].bytes \in Nat
      /\ Tallied(t[c], size) = [msg |-> t[c].msg + 1, bytes |-> t[c].bytes + size]
  BY DEF Tally, Tallied
<1>2. u \in [Conns -> Tally]
  BY <1>1 DEF Tally, Grown
<1>3. /\ u[c].msg = t[c].msg + 1 /\ u[c].bytes = t[c].bytes + size
      /\ \A d \in Conns : d # c => u[d] = t[d]
  BY <1>1 DEF Grown
<1> DEFINE fm == [d \in Conns |-> t[d].msg]
           gm == [d \in Conns |-> u[d].msg]
           fb == [d \in Conns |-> t[d].bytes]
           gb == [d \in Conns |-> u[d].bytes]
<1>4. /\ fm \in [Conns -> Nat] /\ gm \in [Conns -> Nat]
      /\ fb \in [Conns -> Nat] /\ gb \in [Conns -> Nat]
  <2>1. \A d \in Conns : /\ t[d].msg \in Nat /\ t[d].bytes \in Nat
                         /\ u[d].msg \in Nat /\ u[d].bytes \in Nat
    BY <1>2 DEF Tally
  <2> QED
    BY <2>1
<1>5. /\ \A d \in Conns : d # c => gm[d] = fm[d]
      /\ \A d \in Conns : d # c => gb[d] = fb[d]
      /\ gm[c] = fm[c] + 1 /\ gb[c] = fb[c] + size /\ fm[c] \in Nat /\ fb[c] \in Nat
  BY <1>1, <1>3
<1>6. /\ Messages(t) = SumOver(fm, Conns) /\ Messages(u) = SumOver(gm, Conns)
      /\ Bytes(t) = SumOver(fb, Conns) /\ Bytes(u) = SumOver(gb, Conns)
  BY DEF Messages, Bytes
<1> HIDE DEF fm, gm, fb, gb
<1>8. SumOver(gm, Conns) = SumOver(fm, Conns) + 1 /\ SumOver(fm, Conns) \in Nat
  BY <1>4, <1>5, 1 \in Nat, SumGrows, ZenonT(60)
<1>9. SumOver(gb, Conns) = SumOver(fb, Conns) + size /\ SumOver(fb, Conns) \in Nat
  BY <1>4, <1>5, SumGrows, ZenonT(60)
<1> QED
  BY <1>2, <1>6, <1>8, <1>9

\* The totals of a tally are numbers.
LEMMA TallyTypes ==
    ASSUME NEW t \in [Conns -> Tally]
    PROVE  Messages(t) \in Nat /\ Bytes(t) \in Nat
<1> DEFINE fm == [d \in Conns |-> t[d].msg]
           fb == [d \in Conns |-> t[d].bytes]
<1>1. fm \in [Conns -> Nat] /\ fb \in [Conns -> Nat] /\ IsFiniteSet(Conns)
  BY LibAssumption DEF Tally
<1>2. SumOver(fm, Conns) \in Nat /\ SumOver(fb, Conns) \in Nat
  BY <1>1, SumType
<1> QED
  BY <1>2 DEF Messages, Bytes

\* What is counted and exported so far.
RecvMsg == rows.recv_msg + stats.recv_msg
RecvBytes == rows.recv_bytes + stats.recv_bytes
SendMsg == rows.send_msg + stats.send_msg
SendBytes == rows.send_bytes + stats.send_bytes

\* count_stats keeps the totals.
LEMMA TotalsKept ==
    ASSUME rows \in Counters, NEW s \in Counters, NEW start, NEW now,
           count_stats(s, start, now)
    PROVE  /\ stats' \in Counters /\ rows' \in Counters
           /\ RecvMsg' = rows.recv_msg + s.recv_msg
           /\ RecvBytes' = rows.recv_bytes + s.recv_bytes
           /\ SendMsg' = rows.send_msg + s.send_msg
           /\ SendBytes' = rows.send_bytes + s.send_bytes
<1> USE DEF RecvMsg, RecvBytes, SendMsg, SendBytes
<1>1. CASE NoRow(s)
  <2>1. stats' = s /\ rows' = rows
    BY <1>1 DEF count_stats
  <2> QED
    BY <2>1
<1>2. CASE ~NoRow(s)
  <2>1. stats' = NoTraffic /\ rows' = WithRow(rows, s)
    BY <1>2 DEF count_stats, WriteRow
  <2>2. /\ rows.recv_msg \in Nat /\ rows.recv_bytes \in Nat
        /\ rows.send_msg \in Nat /\ rows.send_bytes \in Nat
        /\ s.recv_msg \in Nat /\ s.recv_bytes \in Nat
        /\ s.send_msg \in Nat /\ s.send_bytes \in Nat
    BY DEF Counters
  <2>3. /\ rows'.recv_msg = rows.recv_msg + s.recv_msg
        /\ rows'.recv_bytes = rows.recv_bytes + s.recv_bytes
        /\ rows'.send_msg = rows.send_msg + s.send_msg
        /\ rows'.send_bytes = rows.send_bytes + s.send_bytes
        /\ rows' \in Counters
    BY <2>1, <2>2 DEF WithRow, Counters
  <2>4. /\ stats' \in Counters /\ stats'.recv_msg = 0 /\ stats'.recv_bytes = 0
        /\ stats'.send_msg = 0 /\ stats'.send_bytes = 0
    BY <2>1 DEF NoTraffic, Counters
  <2> QED
    BY <2>2, <2>3, <2>4
<1> QED
  BY <1>1, <1>2

\* The totals are what the library took and refused.
Balanced ==
    /\ RecvMsg = Messages(accepted) + Messages(refused)
    /\ RecvBytes = Bytes(accepted) + Bytes(refused)
    /\ lib = "uws" => SendMsg = RecvMsg /\ SendBytes = RecvBytes
    /\ lib = "tpp" => SendMsg = Messages(accepted) /\ SendBytes = Bytes(accepted)

\* The invariant: the types are part of it, and what the rows are bounded by.
LibInv ==
    /\ StatInv
    /\ LibTypeOK
    /\ Balanced

\* The initial state.
LEMMA LibInit == Init => LibInv
<1> SUFFICES ASSUME Init PROVE LibInv
  OBVIOUS
<1>1. StatInv
  BY StatInit
<1>2. /\ <<>> \in Seq(Sizes) /\ Len(<<>>) = 0 /\ MAX_MSGS \in Nat
      /\ NoTraffic \in Counters
  BY LibAssumption DEF NoTraffic, Counters
<1>3. {c \in Conns : sock[c] = "open"} = {}
  BY DEF Init
<1>4. active_connections = Cardinality({c \in Conns : sock[c] = "open"})
  BY <1>3, FS_EmptySet DEF Init
<1>5. LibTypeOK
  BY <1>2, <1>4 DEF Init, LibTypeOK, Tally
<1>6. /\ Messages(accepted) = 0 /\ Messages(refused) = 0
      /\ Bytes(accepted) = 0 /\ Bytes(refused) = 0
  <2> DEFINE zero == [c \in Conns |-> 0]
  <2>1. SumOver(zero, Conns) = 0
    <3>1. /\ IsFiniteSet(Conns) /\ Cardinality(Conns) \in Nat
          /\ \A c \in Conns : zero[c] = 0
      BY LibAssumption, FS_CardinalityType
    <3> HIDE DEF zero
    <3>2. SumOver(zero, Conns) = Cardinality(Conns) * 0
      BY <3>1, 0 \in Nat, SumOfConstant
    <3> QED
      BY <3>1, <3>2
  <2>2. /\ \A c \in Conns : accepted[c].msg = 0
        /\ \A c \in Conns : accepted[c].bytes = 0
        /\ \A c \in Conns : refused[c].msg = 0
        /\ \A c \in Conns : refused[c].bytes = 0
    BY DEF Init
  <2>3. /\ [c \in Conns |-> accepted[c].msg] = zero
        /\ [c \in Conns |-> accepted[c].bytes] = zero
        /\ [c \in Conns |-> refused[c].msg] = zero
        /\ [c \in Conns |-> refused[c].bytes] = zero
    BY <2>2
  <2> QED
    BY <2>1, <2>3 DEF Messages, Bytes
<1>7. /\ RecvMsg = 0 /\ RecvBytes = 0 /\ SendMsg = 0 /\ SendBytes = 0
  BY DEF Init, NoTraffic, RecvMsg, RecvBytes, SendMsg, SendBytes
<1>8. Balanced
  BY <1>6, <1>7 DEF Balanced
<1> QED
  BY <1>1, <1>5, <1>8 DEF LibInv

\* What the totals are when a message's echo is counted.
LEMMA EchoTotals ==
    ASSUME StatInv, NEW size \in Nat \ {0}, CountsEcho(size)
    PROVE  /\ RecvMsg' = RecvMsg + 1 /\ RecvBytes' = RecvBytes + size
           /\ SendMsg' = SendMsg + 1 /\ SendBytes' = SendBytes + size
           /\ stats' \in Counters /\ rows' \in Counters
<1>1. PICK s : s = EchoedMessage(ReceivedBytes(stats, size), size)
  OBVIOUS
<1>2. s = [recv_bytes |-> stats.recv_bytes + size,
           send_bytes |-> stats.send_bytes + size,
           recv_msg |-> stats.recv_msg + 1,
           send_msg |-> stats.send_msg + 1]
  BY <1>1, CountedRange
<1>3. /\ stats.recv_bytes \in Nat /\ stats.send_bytes \in Nat
      /\ stats.recv_msg \in Nat /\ stats.send_msg \in Nat
      /\ rows.recv_bytes \in Nat /\ rows.send_bytes \in Nat
      /\ rows.recv_msg \in Nat /\ rows.send_msg \in Nat /\ rows \in Counters
  BY DEF StatInv, Counters
<1>4. s \in Counters
  BY <1>2, <1>3 DEF Counters
<1>5. count_stats(s, Started, Clock(Received + 1))
  BY <1>1 DEF CountsEcho
<1>6. /\ stats' \in Counters /\ rows' \in Counters
      /\ RecvMsg' = rows.recv_msg + s.recv_msg
      /\ RecvBytes' = rows.recv_bytes + s.recv_bytes
      /\ SendMsg' = rows.send_msg + s.send_msg
      /\ SendBytes' = rows.send_bytes + s.send_bytes
  BY <1>3, <1>4, <1>5, TotalsKept
<1>7. /\ s.recv_msg = stats.recv_msg + 1 /\ s.send_msg = stats.send_msg + 1
      /\ s.recv_bytes = stats.recv_bytes + size
      /\ s.send_bytes = stats.send_bytes + size
  BY <1>2
<1> QED
  BY <1>3, <1>6, <1>7 DEF RecvMsg, RecvBytes, SendMsg, SendBytes

\* What a message leaves of the inbox it arrives from.
LEMMA ArrivalLeaves ==
    ASSUME LibTypeOK, NEW c \in Conns, NEW size \in Sizes, Arrives(c, size)
    PROVE  inbox' \in [Conns -> Seq(Sizes)]
<1>1. inbox \in [Conns -> Seq(Sizes)] /\ inbox[c] \in Seq(Sizes) /\ inbox[c] # <<>>
  BY DEF LibTypeOK, Arrives
<1>2. inbox' = [inbox EXCEPT ![c] = Tail(@)]
  BY DEF Arrives
<1>3. Tail(inbox[c]) \in Seq(Sizes)
  BY <1>1
<1> QED
  BY <1>1, <1>2, <1>3

\* A message that is echoed is counted both ways.
LEMMA MessageKeeps ==
    ASSUME LibInv, NEW c \in Conns, NEW size \in Sizes, OnMessage(c, size), StatInv'
    PROVE  LibInv'
<1>1. LibTypeOK /\ StatInv /\ Balanced
  BY DEF LibInv
<1>2. /\ Arrives(c, size) /\ CountsEcho(size) /\ refused' = refused
      /\ unread' = [unread EXCEPT ![c] = Append(@, size)]
      /\ accepted' = Grown(accepted, c, size)
  BY DEF OnMessage, Grown
<1>3. /\ lib' = lib /\ sock' = sock /\ sends' = sends
      /\ active_connections' = active_connections
      /\ lib = "uws" => size <= MAX_DATA_LEN
  BY <1>2 DEF Arrives
<1>4. size \in Nat \ {0}
  BY LibAssumption
<1>5. /\ RecvMsg' = RecvMsg + 1 /\ RecvBytes' = RecvBytes + size
      /\ SendMsg' = SendMsg + 1 /\ SendBytes' = SendBytes + size
      /\ stats' \in Counters /\ rows' \in Counters
  BY <1>1, <1>2, <1>4, EchoTotals
<1>6. inbox' \in [Conns -> Seq(Sizes)]
  BY <1>1, <1>2, ArrivalLeaves
<1>7. unread \in [Conns -> Seq(Sizes)] /\ unread[c] \in Seq(Sizes)
  BY <1>1 DEF LibTypeOK
<1>0. accepted \in [Conns -> Tally] /\ refused \in [Conns -> Tally]
  BY <1>1 DEF LibTypeOK
<1>8. /\ accepted' \in [Conns -> Tally]
      /\ Messages(accepted) \in Nat /\ Bytes(accepted) \in Nat
      /\ Messages(accepted') = Messages(accepted) + 1
      /\ Bytes(accepted') = Bytes(accepted) + size
  BY <1>0, <1>2, <1>4, size \in Nat, TallyGrows
<1>9. Messages(refused) \in Nat /\ Bytes(refused) \in Nat
  BY <1>0, TallyTypes
<1>10. LibTypeOK'
  <2>1. unread' \in [Conns -> Seq(Sizes)]
    BY <1>2, <1>7
  <2>2. interval_start_ns' \in Nat /\ now_ns' \in Nat
    BY DEF StatInv
  <2> QED
    BY <1>1, <1>2, <1>3, <1>5, <1>6, <1>8, <2>1, <2>2 DEF LibTypeOK
<1>11. Balanced'
  <2>1. /\ RecvMsg' = Messages(accepted') + Messages(refused')
        /\ RecvBytes' = Bytes(accepted') + Bytes(refused')
    BY <1>1, <1>2, <1>4, <1>5, <1>8, <1>9, SMTT(30) DEF Balanced
  <2>2. lib' = "uws" => SendMsg' = RecvMsg' /\ SendBytes' = RecvBytes'
    BY <1>1, <1>3, <1>5 DEF Balanced
  <2>3. lib' = "tpp" =>
           SendMsg' = Messages(accepted') /\ SendBytes' = Bytes(accepted')
    BY <1>1, <1>3, <1>5, <1>8 DEF Balanced
  <2> QED
    BY <2>1, <2>2, <2>3 DEF Balanced, Messages, Bytes
<1> QED
  BY <1>10, <1>11 DEF LibInv

\* A message whose echo uWS drops is counted both ways too.
LEMMA DropKeeps ==
    ASSUME LibInv, NEW c \in Conns, NEW size \in Sizes, OnMessageDropped(c, size),
           StatInv'
    PROVE  LibInv'
<1>1. LibTypeOK /\ StatInv /\ Balanced
  BY DEF LibInv
<1>2. /\ Arrives(c, size) /\ CountsEcho(size) /\ lib = "uws" /\ Full(c)
      /\ unread' = unread /\ accepted' = accepted
      /\ refused' = Grown(refused, c, size)
  BY DEF OnMessageDropped, Grown
<1>3. /\ lib' = lib /\ sock' = sock /\ sends' = sends
      /\ active_connections' = active_connections
  BY <1>2 DEF Arrives
<1>4. size \in Nat \ {0}
  BY LibAssumption
<1>5. /\ RecvMsg' = RecvMsg + 1 /\ RecvBytes' = RecvBytes + size
      /\ SendMsg' = SendMsg + 1 /\ SendBytes' = SendBytes + size
      /\ stats' \in Counters /\ rows' \in Counters
  BY <1>1, <1>2, <1>4, EchoTotals
<1>6. inbox' \in [Conns -> Seq(Sizes)]
  BY <1>1, <1>2, ArrivalLeaves
<1>7. /\ accepted \in [Conns -> Tally] /\ refused \in [Conns -> Tally]
  BY <1>1 DEF LibTypeOK
<1>8. /\ refused' \in [Conns -> Tally]
      /\ Messages(refused) \in Nat /\ Bytes(refused) \in Nat
      /\ Messages(refused') = Messages(refused) + 1
      /\ Bytes(refused') = Bytes(refused) + size
  BY <1>2, <1>4, <1>7, size \in Nat, TallyGrows
<1>9. Messages(accepted) \in Nat /\ Bytes(accepted) \in Nat
  BY <1>7, TallyTypes
<1>10. LibTypeOK'
  <2>1. interval_start_ns' \in Nat /\ now_ns' \in Nat
    BY DEF StatInv
  <2> QED
    BY <1>1, <1>2, <1>3, <1>5, <1>6, <1>8, <2>1 DEF LibTypeOK
<1>11. Balanced'
  <2>1. /\ RecvMsg' = Messages(accepted') + Messages(refused')
        /\ RecvBytes' = Bytes(accepted') + Bytes(refused')
    BY <1>1, <1>2, <1>4, <1>5, <1>8, <1>9 DEF Balanced
  <2>2. SendMsg' = RecvMsg' /\ SendBytes' = RecvBytes' /\ lib' # "tpp"
    BY <1>1, <1>2, <1>3, <1>5 DEF Balanced
  <2> QED
    BY <2>1, <2>2 DEF Balanced, Messages, Bytes
<1> QED
  BY <1>10, <1>11 DEF LibInv

\* A message for which send throws is counted as received, and not as sent.
LEMMA ThrowKeepsAll ==
    ASSUME LibInv, NEW c \in Conns, NEW size \in Sizes, OnMessageThrows(c, size),
           StatInv'
    PROVE  LibInv'
<1>1. LibTypeOK /\ StatInv /\ Balanced
  BY DEF LibInv
<1>2. /\ Arrives(c, size) /\ lib = "tpp"
      /\ unread' = unread /\ accepted' = accepted /\ rows' = rows
      /\ stats' = Counted(size)
      /\ refused' = Grown(refused, c, size)
  BY DEF OnMessageThrows, Grown
<1>3. /\ lib' = lib /\ sock' = sock /\ sends' = sends
      /\ active_connections' = active_connections
  BY <1>2 DEF Arrives
<1>4. size \in Nat \ {0}
  BY LibAssumption
<1>5. /\ RecvMsg' = RecvMsg + 1 /\ RecvBytes' = RecvBytes + size
      /\ SendMsg' = SendMsg /\ SendBytes' = SendBytes
  <2>1. stats' = [recv_bytes |-> stats.recv_bytes + size,
                  send_bytes |-> stats.send_bytes,
                  recv_msg |-> stats.recv_msg + 1,
                  send_msg |-> stats.send_msg]
    BY <1>1, <1>2, <1>4, CountedRange
  <2>2. /\ stats'.recv_bytes = stats.recv_bytes + size
        /\ stats'.send_bytes = stats.send_bytes
        /\ stats'.recv_msg = stats.recv_msg + 1
        /\ stats'.send_msg = stats.send_msg
    BY <2>1
  <2>3. /\ stats.recv_bytes \in Nat /\ stats.recv_msg \in Nat
        /\ rows.recv_bytes \in Nat /\ rows.recv_msg \in Nat
    BY <1>1 DEF StatInv, Counters
  <2> QED
    BY <1>2, <1>4, <2>2, <2>3 DEF RecvMsg, RecvBytes, SendMsg, SendBytes
<1>6. inbox' \in [Conns -> Seq(Sizes)]
  BY <1>1, <1>2, ArrivalLeaves
<1>7. accepted \in [Conns -> Tally] /\ refused \in [Conns -> Tally]
  BY <1>1 DEF LibTypeOK
<1>8. /\ refused' \in [Conns -> Tally]
      /\ Messages(refused) \in Nat /\ Bytes(refused) \in Nat
      /\ Messages(refused') = Messages(refused) + 1
      /\ Bytes(refused') = Bytes(refused) + size
  BY <1>2, <1>4, <1>7, size \in Nat, TallyGrows
<1>9. Messages(accepted) \in Nat /\ Bytes(accepted) \in Nat
  BY <1>7, TallyTypes
<1>10. LibTypeOK'
  <2>1. /\ stats' \in Counters /\ rows' \in Counters
        /\ interval_start_ns' \in Nat /\ now_ns' \in Nat
    BY DEF StatInv
  <2> QED
    BY <1>1, <1>2, <1>3, <1>6, <1>8, <2>1 DEF LibTypeOK
<1>11. Balanced'
  <2>1. /\ RecvMsg' = Messages(accepted') + Messages(refused')
        /\ RecvBytes' = Bytes(accepted') + Bytes(refused')
    BY <1>1, <1>2, <1>4, <1>5, <1>8, <1>9 DEF Balanced
  <2>2. /\ SendMsg' = Messages(accepted') /\ SendBytes' = Bytes(accepted')
        /\ lib' # "uws"
    BY <1>1, <1>2, <1>3, <1>5 DEF Balanced
  <2> QED
    BY <2>1, <2>2 DEF Balanced, Messages, Bytes
<1> QED
  BY <1>10, <1>11 DEF LibInv

\* What does not touch the counters and the tallies keeps their balance.
LEMMA BalanceFrame ==
    ASSUME LibInv, lib' = lib, UNCHANGED <<tallyVars, statVars>>
    PROVE  Balanced'
<1>1. /\ accepted' = accepted /\ refused' = refused /\ stats' = stats /\ rows' = rows
  BY DEF tallyVars, statVars
<1>2. /\ RecvMsg' = RecvMsg /\ RecvBytes' = RecvBytes
      /\ SendMsg' = SendMsg /\ SendBytes' = SendBytes
  BY <1>1 DEF RecvMsg, RecvBytes, SendMsg, SendBytes
<1>3. /\ Messages(accepted)' = Messages(accepted)
      /\ Messages(refused)' = Messages(refused)
      /\ Bytes(accepted)' = Bytes(accepted)
      /\ Bytes(refused)' = Bytes(refused)
  BY <1>1 DEF Messages, Bytes
<1> QED
  BY <1>2, <1>3 DEF LibInv, Balanced

\* A client sends.
LEMMA SendKeeps ==
    ASSUME LibInv, NEW c \in Conns, NEW size \in Sizes, ClientSends(c, size), StatInv'
    PROVE  LibInv'
<1>1. LibTypeOK
  BY DEF LibInv
<1>2. /\ sends[c] < MAX_MSGS
      /\ inbox' = [inbox EXCEPT ![c] = Append(@, size)]
      /\ sends' = [sends EXCEPT ![c] = @ + 1]
      /\ lib' = lib /\ sock' = sock /\ unread' = unread
      /\ active_connections' = active_connections
      /\ UNCHANGED <<tallyVars, statVars>>
  BY DEF ClientSends
<1>3. /\ inbox \in [Conns -> Seq(Sizes)] /\ inbox[c] \in Seq(Sizes)
      /\ sends \in [Conns -> 0..MAX_MSGS] /\ sends[c] \in 0..MAX_MSGS
      /\ MAX_MSGS \in Nat
  BY <1>1, LibAssumption DEF LibTypeOK
<1>4. Append(inbox[c], size) \in Seq(Sizes)
  BY <1>3
<1>5. inbox' \in [Conns -> Seq(Sizes)]
  BY <1>2, <1>3, <1>4
<1>6. sends' \in [Conns -> 0..MAX_MSGS]
  BY <1>2, <1>3
<1>7. LibTypeOK'
  BY <1>1, <1>2, <1>5, <1>6 DEF LibTypeOK, tallyVars, statVars
<1>8. Balanced'
  BY <1>2, BalanceFrame
<1> QED
  BY <1>7, <1>8 DEF LibInv

\* A client reads an echo.
LEMMA ReadKeeps ==
    ASSUME LibInv, NEW c \in Conns, ClientReads(c), StatInv'
    PROVE  LibInv'
<1>1. LibTypeOK
  BY DEF LibInv
<1>2. /\ unread[c] # <<>>
      /\ unread' = [unread EXCEPT ![c] = Tail(@)]
      /\ lib' = lib /\ sock' = sock /\ inbox' = inbox /\ sends' = sends
      /\ active_connections' = active_connections
      /\ UNCHANGED <<tallyVars, statVars>>
  BY DEF ClientReads
<1>3. unread \in [Conns -> Seq(Sizes)] /\ unread[c] \in Seq(Sizes)
  BY <1>1 DEF LibTypeOK
<1>4. Tail(unread[c]) \in Seq(Sizes)
  BY <1>2, <1>3
<1>5. unread' \in [Conns -> Seq(Sizes)]
  BY <1>2, <1>3, <1>4
<1>6. LibTypeOK'
  BY <1>1, <1>2, <1>5 DEF LibTypeOK, tallyVars, statVars
<1>7. Balanced'
  BY <1>2, BalanceFrame
<1> QED
  BY <1>6, <1>7 DEF LibInv

\* The connections counted as active.
Open(s) == {c \in Conns : s[c] = "open"}

\* One more is open, or one less.
LEMMA OpenCount ==
    ASSUME NEW s \in [Conns -> {"none", "open", "closed"}], NEW c \in Conns
    PROVE  /\ Cardinality(Open(s)) \in Nat
           /\ s[c] # "open" =>
                Cardinality(Open([s EXCEPT ![c] = "open"])) = Cardinality(Open(s)) + 1
           /\ s[c] = "open" =>
                Cardinality(Open([s EXCEPT ![c] = "closed"])) = Cardinality(Open(s)) - 1
<1>1. IsFiniteSet(Open(s)) /\ Cardinality(Open(s)) \in Nat
  BY LibAssumption, FS_Subset, FS_CardinalityType DEF Open
<1>2. Open([s EXCEPT ![c] = "open"]) = Open(s) \cup {c}
  BY DEF Open
<1>3. Open([s EXCEPT ![c] = "closed"]) = Open(s) \ {c}
  BY DEF Open
<1>4. s[c] = "open" <=> c \in Open(s)
  BY DEF Open
<1>5. CASE c \in Open(s)
  <2>1. Cardinality(Open(s) \ {c}) = Cardinality(Open(s)) - 1
    BY <1>1, <1>5, FS_RemoveElement
  <2> QED
    BY <1>1, <1>3, <1>4, <1>5, <2>1
<1>6. CASE c \notin Open(s)
  <2>1. Cardinality(Open(s) \cup {c}) = Cardinality(Open(s)) + 1
    BY <1>1, <1>6, FS_AddElement
  <2> QED
    BY <1>1, <1>2, <1>4, <1>6, <2>1
<1> QED
  BY <1>5, <1>6

\* A connection that opens is counted.
LEMMA OpenKeeps ==
    ASSUME LibInv, NEW c \in Conns, OnOpen(c), StatInv'
    PROVE  LibInv'
<1>1. LibTypeOK
  BY DEF LibInv
<1>2. /\ sock[c] = "none" /\ sock' = [sock EXCEPT ![c] = "open"]
      /\ active_connections' = active_connections + 1
      /\ lib' = lib /\ inbox' = inbox /\ unread' = unread /\ sends' = sends
      /\ UNCHANGED <<tallyVars, statVars>>
  BY DEF OnOpen
<1>3. sock \in [Conns -> {"none", "open", "closed"}]
        /\ active_connections = Cardinality(Open(sock))
  BY <1>1 DEF LibTypeOK, Open
<1>4. Cardinality(Open(sock')) = Cardinality(Open(sock)) + 1
  BY <1>2, <1>3, OpenCount
<1>5. sock' \in [Conns -> {"none", "open", "closed"}]
  BY <1>2, <1>3
<1>6. LibTypeOK'
  <2>1. active_connections' = Cardinality({d \in Conns : sock'[d] = "open"})
    BY <1>2, <1>3, <1>4 DEF Open
  <2> QED
    BY <1>1, <1>2, <1>5, <2>1 DEF LibTypeOK, tallyVars, statVars
<1>7. Balanced'
  BY <1>2, BalanceFrame
<1> QED
  BY <1>6, <1>7 DEF LibInv

\* A connection that closes is counted off, once, and takes with it what is under
\* way.
LEMMA CloseKeeps ==
    ASSUME LibInv, NEW c \in Conns, OnClose(c), StatInv'
    PROVE  LibInv'
<1>1. LibTypeOK
  BY DEF LibInv
<1>2. /\ sock[c] = "open" /\ sock' = [sock EXCEPT ![c] = "closed"]
      /\ active_connections' = active_connections - 1
      /\ inbox' = [inbox EXCEPT ![c] = <<>>]
      /\ unread' = [unread EXCEPT ![c] = <<>>]
      /\ lib' = lib /\ sends' = sends
      /\ UNCHANGED <<tallyVars, statVars>>
  BY DEF OnClose, OneLess
<1>3. /\ sock \in [Conns -> {"none", "open", "closed"}]
      /\ active_connections = Cardinality(Open(sock))
      /\ inbox \in [Conns -> Seq(Sizes)] /\ unread \in [Conns -> Seq(Sizes)]
  BY <1>1 DEF LibTypeOK, Open
<1>4. Cardinality(Open(sock')) = Cardinality(Open(sock)) - 1
  BY <1>2, <1>3, OpenCount
<1>5. sock' \in [Conns -> {"none", "open", "closed"}]
  BY <1>2, <1>3
<1>6. <<>> \in Seq(Sizes)
  OBVIOUS
<1>7. inbox' \in [Conns -> Seq(Sizes)] /\ unread' \in [Conns -> Seq(Sizes)]
  BY <1>2, <1>3, <1>6
<1>8. LibTypeOK'
  <2>1. active_connections' = Cardinality({d \in Conns : sock'[d] = "open"})
    BY <1>2, <1>3, <1>4 DEF Open
  <2> QED
    BY <1>1, <1>2, <1>5, <1>7, <2>1 DEF LibTypeOK, tallyVars, statVars
<1>9. Balanced'
  BY <1>2, BalanceFrame
<1> QED
  BY <1>8, <1>9 DEF LibInv

\* Nothing happens.
LEMMA StutterKeeps ==
    ASSUME LibInv, UNCHANGED vars, StatInv'
    PROVE  LibInv'
<1>1. /\ lib' = lib /\ sock' = sock /\ inbox' = inbox /\ unread' = unread
      /\ sends' = sends /\ active_connections' = active_connections
      /\ UNCHANGED <<tallyVars, statVars>>
  BY DEF vars, connVars
<1>2. LibTypeOK'
  BY <1>1 DEF LibInv, LibTypeOK, tallyVars, statVars
<1>3. Balanced'
  BY <1>1, BalanceFrame
<1> QED
  BY <1>2, <1>3 DEF LibInv

\* The types and the balance of the counters hold in every reachable state of either
\* server.
THEOREM LibInvariance == Spec => []LibInv
<1>1. Init => LibInv
  BY LibInit
<1>2. LibInv /\ [Next]_vars => LibInv'
  <2> SUFFICES ASSUME LibInv, [Next]_vars PROVE LibInv'
    OBVIOUS
  <2>1. StatInv'
    BY StatNext DEF LibInv
  <2>2. ASSUME NEW c \in Conns, NEW size \in Sizes, OnMessage(c, size) PROVE LibInv'
    BY <2>1, <2>2, MessageKeeps
  <2>3. ASSUME NEW c \in Conns, NEW size \in Sizes, OnMessageDropped(c, size)
        PROVE  LibInv'
    BY <2>1, <2>3, DropKeeps
  <2>4. ASSUME NEW c \in Conns, NEW size \in Sizes, OnMessageThrows(c, size)
        PROVE  LibInv'
    BY <2>1, <2>4, ThrowKeepsAll
  <2>5. ASSUME NEW c \in Conns, NEW size \in Sizes, ClientSends(c, size)
        PROVE  LibInv'
    BY <2>1, <2>5, SendKeeps
  <2>6. ASSUME NEW c \in Conns, OnOpen(c) PROVE LibInv'
    BY <2>1, <2>6, OpenKeeps
  <2>7. ASSUME NEW c \in Conns, OnClose(c) PROVE LibInv'
    BY <2>1, <2>7, CloseKeeps
  <2>8. ASSUME NEW c \in Conns, ClientReads(c) PROVE LibInv'
    BY <2>1, <2>8, ReadKeeps
  <2>9. CASE UNCHANGED vars
    BY <2>1, <2>9, StutterKeeps
  <2> QED
    BY <2>2, <2>3, <2>4, <2>5, <2>6, <2>7, <2>8, <2>9 DEF Next, Step
<1> QED
  BY <1>1, <1>2, PTL DEF Spec

\* The variables keep their types, and active_connections counts the open connections:
\* no handler of either library counts one twice or misses one.
THEOREM LibTypeCorrect == Spec => []LibTypeOK
<1>1. LibInv => LibTypeOK
  BY DEF LibInv
<1> QED
  BY <1>1, LibInvariance, PTL

\* Over all rows, what a server counts as received is what arrived, and as sent what
\* send took; a uws server counts what send dropped as well.
THEOREM LibBalanced == Spec => []LibBalance
<1>1. LibInv => LibBalance
  <2> SUFFICES ASSUME LibInv PROVE LibBalance
    OBVIOUS
  <2>1. Balanced /\ lib \in {"uws", "tpp"}
    BY DEF LibInv, LibTypeOK
  <2> DEFINE a == Total(accepted)
             r == Total(refused)
             all == WithRow(rows, stats)
             uncounted == IF lib = "tpp" THEN r ELSE [msg |-> 0, bytes |-> 0]
  <2>2. /\ all.recv_msg = RecvMsg /\ all.recv_bytes = RecvBytes
        /\ all.send_msg = SendMsg /\ all.send_bytes = SendBytes
    BY DEF WithRow, RecvMsg, RecvBytes, SendMsg, SendBytes
  <2>3. /\ a.msg = Messages(accepted) /\ a.bytes = Bytes(accepted)
        /\ r.msg = Messages(refused) /\ r.bytes = Bytes(refused)
    BY DEF Total, Messages, Bytes
  <2>4. /\ Messages(accepted) \in Nat /\ Bytes(accepted) \in Nat
        /\ Messages(refused) \in Nat /\ Bytes(refused) \in Nat
    BY TallyTypes DEF LibInv, LibTypeOK
  <2>5. /\ uncounted.msg = IF lib = "tpp" THEN r.msg ELSE 0
        /\ uncounted.bytes = IF lib = "tpp" THEN r.bytes ELSE 0
    OBVIOUS
  <2>6. /\ all.recv_msg = a.msg + r.msg
        /\ all.recv_bytes = a.bytes + r.bytes
    BY <2>1, <2>2, <2>3 DEF Balanced
  <2> HIDE DEF a, r, all, uncounted
  <2>7. CASE lib = "uws"
    <3>1. uncounted.msg = 0 /\ uncounted.bytes = 0
      BY <2>5, <2>7
    <3>2. all.send_msg = all.recv_msg /\ all.send_bytes = all.recv_bytes
      BY <2>1, <2>2, <2>7 DEF Balanced
    <3>3. all.recv_msg \in Nat /\ all.recv_bytes \in Nat
      BY <2>3, <2>4, <2>6
    <3>4. /\ all.send_msg = all.recv_msg - uncounted.msg
          /\ all.send_bytes = all.recv_bytes - uncounted.bytes
      BY <3>1, <3>2, <3>3
    <3> QED
      BY <2>6, <3>4 DEF LibBalance, a, r, all, uncounted
  <2>8. CASE lib = "tpp"
    <3>1. uncounted.msg = r.msg /\ uncounted.bytes = r.bytes
      BY <2>5, <2>8
    <3>2. all.send_msg = a.msg /\ all.send_bytes = a.bytes
      BY <2>1, <2>2, <2>3, <2>8 DEF Balanced
    <3>3. /\ a.msg \in Nat /\ a.bytes \in Nat /\ r.msg \in Nat /\ r.bytes \in Nat
      BY <2>3, <2>4
    <3>4. /\ all.send_msg = all.recv_msg - uncounted.msg
          /\ all.send_bytes = all.recv_bytes - uncounted.bytes
      BY <2>6, <3>1, <3>2, <3>3
    <3> QED
      BY <2>6, <3>4 DEF LibBalance, a, r, all, uncounted
  <2> QED
    BY <2>1, <2>7, <2>8
<1> QED
  BY <1>1, LibInvariance, PTL
=============================================================================
