---------------------------- MODULE FwsRunProofs ----------------------------
(***************************************************************************)
(* Proofs about the results of a benchmark run: when the row is written    *)
(* and what is in it, that a run without faults aborts nowhere, that the   *)
(* byte counters of the two processes agree, and that a run implements     *)
(* BenchmarkRun.  They rest on the invariant of FwsBenchProofs.            *)
(***************************************************************************)
EXTENDS FwsBenchProofs

-----------------------------------------------------------------------------
\* There are finitely many connections.
LEMMA ConnsAreFinite == IsFiniteSet(Conns)
<1>1. IsFiniteSet(1..REBORN_LIMIT_FOR_CLIENT)
  BY FS_Interval, ConstantsOK
<1> QED
  BY <1>1, FS_Product, ClientAssumption, ConnsAssumption

\* Three ways to say that everything is measured.
LEMMA MeasuredAll ==
    ASSUME NEW counts \in [Conns -> 0..MSG_LIMIT_PER_CLIENT],
           NEW H, H = {s \in Conns \X Messages : s[2] <= counts[s[1]]}
    PROVE  LET all == \A c \in Conns : counts[c] = MSG_LIMIT_PER_CLIENT
           IN  /\ all <=> H = Conns \X Messages
               /\ all <=> Cardinality(H) >= TOTAL_MSG_CNT
               /\ all => Cardinality(H) = TOTAL_MSG_CNT
<1> DEFINE all == \A c \in Conns : counts[c] = MSG_LIMIT_PER_CLIENT
<1>1. CASE all
  <2>1. H = Conns \X Messages
    BY <1>1, ConstantsOK DEF Messages
  <2> QED
    BY <1>1, <2>1, TotalIsAll, TotalIsNat
<1>2. CASE ~all
  <2>1. PICK c \in Conns : counts[c] # MSG_LIMIT_PER_CLIENT
    BY <1>2
  <2> DEFINE last == <<c, MSG_LIMIT_PER_CLIENT>>
  <2>2. last \in Conns \X Messages /\ last \notin H
    BY <2>1, ConstantsOK DEF Messages
  <2>3. H \subseteq Conns \X Messages
    OBVIOUS
  <2>4. IsFiniteSet(H) /\ Cardinality(H) \in Nat
    BY <2>3, ConnsFinite, FS_Subset, FS_CardinalityType
  <2>5. Cardinality(H) < TOTAL_MSG_CNT
    BY <2>2, <2>3, MissingSample
  <2> QED
    BY <1>2, <2>2, <2>4, <2>5, TotalIsNat
<1> QED
  BY <1>1, <1>2

\* The same for the histogram and the counter of the client.
LEMMA AllMeasured ==
    ASSUME IInv
    PROVE  /\ Complete <=> rtt_hist = Conns \X Messages
           /\ Complete <=> loop_cnt >= TOTAL_MSG_CNT
           /\ Complete => loop_cnt = TOTAL_MSG_CNT
<1>1. msg_cnt \in [Conns -> 0..MSG_LIMIT_PER_CLIENT]
  BY DEF IInv, TypeOK, CliTypeOK
<1> QED
  BY <1>1, MeasuredAll DEF IInv, SamplesAreRoundTrips, Complete

\* When everything is measured the client has no open connection and nothing but
\* close frames on the way to the server.
LEMMA CompleteIsQuiet ==
    ASSUME IInv, Complete, NEW c \in Conns
    PROVE  cli_link[c] \in {"closing", "closed"}
<1>1. CliCtx(c) /\ msg_cnt[c] = MSG_LIMIT_PER_CLIENT
  BY DEF IInv, ConnInv, ConnOK, Complete
<1> QED
  BY <1>1, ConstantsOK DEF CliCtx, IInv, TypeOK, WireTypeOK, CliLinks

-----------------------------------------------------------------------------
\* RunInv.  It holds when the loop starts.
LEMMA RunInit == Init => RunInv
<1> SUFFICES ASSUME Init PROVE RunInv
  OBVIOUS
<1> USE DEF Init, CliInit, SrvInit
<1>1. Ended
  BY DEF Ended
<1>2. CurrentLife
  <2> SUFFICES ASSUME NEW k \in Clients
               PROVE  \E n \in 1..REBORN_LIMIT_FOR_CLIENT :
                          /\ cli_link[<<k, n>>] # "none"
                          /\ msg_cnt[<<k, n>>] = MSG_LIMIT_PER_CLIENT
                               => n = REBORN_LIMIT_FOR_CLIENT
    BY DEF CurrentLife
  <2>1. 1 \in 1..REBORN_LIMIT_FOR_CLIENT /\ <<k, 1>> \in Conns
    BY ConstantsOK
  <2>2. cli_link[<<k, 1>>] # "none" /\ msg_cnt[<<k, 1>>] = 0
    BY <2>1 DEF First
  <2> QED
    BY <2>1, <2>2, ConstantsOK
<1>3. Unhurt
  BY DEF Unhurt, First
<1> QED
  BY <1>1, <1>2, <1>3 DEF RunInv

\* The server changes nothing RunInv speaks of, except that it takes requests and
\* close frames off the wire; and it aborts only after a fault.
LEMMA RunServer ==
    ASSUME IInv, RunInv, NEW c \in Conns, ServerStep(c)
    PROVE  RunInv'
<1> USE DEF ServerStep, cliVars, ctxVars, endVars
<1>1. UNCHANGED <<cli_link, msg_cnt, proc, end_calls, faults>>
  BY DEF SrvStep, SrvOnNewConnection, SrvOnReadPiece, SrvOnReadMessage, SrvAbort,
         SrvOnClose
<1>2. Ended' /\ CurrentLife'
  BY <1>1 DEF RunInv, Ended, EndsInOrder, Complete, CurrentLife
<1>3. ASSUME faults = 0, NEW d \in Conns, cli_link[d] = "closed",
             NEW n, SrvReadable(d, n)
      PROVE  FALSE
  <2>1. ConnOK(d) /\ TypeOK /\ c2s[d] \in {<<>>, <<CLOSE>>}
    BY <1>3 DEF RunInv, Unhurt, IInv, ConnInv
  <2>2. PICK left \in 1..MSG_LEN : c2s[d] = <<left>>
    BY <1>3, <2>1, ServerReads
  <2> QED
    BY <2>1, <2>2, OneFrame DEF CLOSE
<1>4. ASSUME faults' = 0 PROVE Unhurt'
  <2>0. faults = 0 /\ Unhurt
    BY <1>1, <1>4 DEF RunInv
  <2>1. ~SrvAbort(c)
    <3> SUFFICES ASSUME SrvAbort(c) PROVE FALSE
      OBVIOUS
    <3>1. SrvReadable(c, Head(c2s[c])) /\ broken # {}
      BY DEF SrvAbort
    <3>2. Complete
      BY <2>0, <3>1 DEF Unhurt, RunInv, Ended, EndsInOrder
    <3>3. cli_link[c] \in {"closing", "closed"}
      BY <3>2, CompleteIsQuiet
    <3>4. cli_link[c] = "closed"
      BY <3>1, <3>3, ServerReads DEF IInv, ConnInv
    <3> QED
      BY <1>3, <2>0, <3>1, <3>4
  <2>2. srv_proc' = srv_proc /\ broken' = broken
    BY <2>1 DEF SrvStep, SrvOnNewConnection, SrvOnReadPiece, SrvOnReadMessage,
                SrvOnClose
  <2>3. ASSUME NEW d \in Conns, cli_link'[d] = "closed"
        PROVE  c2s'[d] \in {<<>>, <<CLOSE>>}
    <3>1. cli_link[d] = "closed" /\ c2s[d] \in {<<>>, <<CLOSE>>}
      BY <1>1, <2>0, <2>3 DEF Unhurt
    <3>2. CASE c2s'[d] = c2s[d]
      BY <3>1, <3>2
    <3>3. CASE c2s'[d] # c2s[d]
      <4>1. \/ \E n : SrvReadable(d, n)
            \/ SrvOnClose(d) /\ c2s' = [c2s EXCEPT ![d] = Tail(@)] /\ c2s[d] # <<>>
        BY <2>1, <3>3
        DEF SrvStep, SrvOnNewConnection, SrvOnReadPiece, SrvOnReadMessage,
            SrvOnClose, Take, IInv, TypeOK, WireTypeOK
      <4>2. c2s[d] = <<CLOSE>> /\ c2s'[d] = Tail(c2s[d])
        BY <1>3, <2>0, <3>1, <4>1 DEF IInv, TypeOK, WireTypeOK
      <4> QED
        BY <4>2, OneFrame DEF CLOSE
    <3> QED
      BY <3>2, <3>3
  <2> QED
    BY <1>1, <2>0, <2>2, <2>3 DEF Unhurt
<1> QED
  BY <1>2, <1>4 DEF RunInv

\* A step of the client that ends no connection and writes no row.
LEMMA RunClientGoesOn ==
    ASSUME IInv, RunInv, NEW c \in Conns, cli_link[c] \in {"connecting", "open"},
           cli_link' = [cli_link EXCEPT ![c] = "open"],
           msg_cnt' \in [Conns -> Nat], \A d \in Conns \ {c} : msg_cnt'[d] = msg_cnt[d],
           msg_cnt'[c] < MSG_LIMIT_PER_CLIENT,
           \A d \in Conns \ {c} : c2s'[d] = c2s[d],
           UNCHANGED <<end_calls, proc, broken, faults, srv_proc>>
    PROVE  RunInv'
<1>0. /\ cli_link \in [Conns -> CliLinks] /\ msg_cnt \in [Conns -> Nat]
      /\ cli_link'[c] = "open"
      /\ \A d \in Conns \ {c} : cli_link'[d] = cli_link[d]
  BY ConstantsOK DEF IInv, TypeOK, WireTypeOK, CliTypeOK
<1>1. ~Complete
  BY CompleteIsQuiet
<1>2. Ended'
  BY <1>1 DEF RunInv, Ended, EndsInOrder
<1>3. CurrentLife'
  <2> SUFFICES ASSUME NEW k \in Clients
               PROVE  \E n \in 1..REBORN_LIMIT_FOR_CLIENT :
                          /\ cli_link'[<<k, n>>] # "none"
                          /\ msg_cnt'[<<k, n>>] = MSG_LIMIT_PER_CLIENT
                               => n = REBORN_LIMIT_FOR_CLIENT
    BY DEF CurrentLife
  <2>1. PICK n \in 1..REBORN_LIMIT_FOR_CLIENT :
            /\ cli_link[<<k, n>>] # "none"
            /\ msg_cnt[<<k, n>>] = MSG_LIMIT_PER_CLIENT => n = REBORN_LIMIT_FOR_CLIENT
    BY DEF RunInv, CurrentLife
  <2>2. <<k, n>> \in Conns
    BY ConnsAssumption
  <2>3. CASE <<k, n>> = c
    BY <1>0, <2>3, ConstantsOK, SMTT(30)
  <2>4. CASE <<k, n>> # c
    BY <1>0, <2>1, <2>2, <2>4
  <2> QED
    BY <2>3, <2>4
<1>4. faults' = 0 => Unhurt'
  BY <1>0 DEF RunInv, Unhurt
<1> QED
  BY <1>2, <1>3, <1>4 DEF RunInv

\* No socket is left only when every life of every client is measured, unless
\* something has failed.
LEMMA NoSocketLeft ==
    ASSUME NEW links \in [Conns -> CliLinks],
           NEW counts \in [Conns -> 0..MSG_LIMIT_PER_CLIENT],
           SocketCount(links) = 0,
           \A c \in Conns : links[c] = "closed" => counts[c] = MSG_LIMIT_PER_CLIENT,
           \A c, d \in Conns :
               c[1] = d[1] /\ c[2] < d[2] /\ links[d] # "none"
                   => counts[c] = MSG_LIMIT_PER_CLIENT,
           \A k \in Clients :
               \E n \in 1..REBORN_LIMIT_FOR_CLIENT :
                   /\ links[<<k, n>>] # "none"
                   /\ counts[<<k, n>>] = MSG_LIMIT_PER_CLIENT
                        => n = REBORN_LIMIT_FOR_CLIENT
    PROVE  \A c \in Conns : counts[c] = MSG_LIMIT_PER_CLIENT
<1> DEFINE sockets == {c \in Conns : links[c] \in {"connecting", "open", "closing"}}
<1>1. sockets = {}
  <2>1. IsFiniteSet(sockets)
    BY ConnsAreFinite, FS_Subset
  <2> QED
    BY <2>1, FS_EmptySet DEF SocketCount
<1>2. \A c \in Conns : links[c] \in {"none", "closed"}
  BY <1>1 DEF CliLinks
<1> SUFFICES ASSUME NEW c \in Conns PROVE counts[c] = MSG_LIMIT_PER_CLIENT
  OBVIOUS
<1>3. c[1] \in Clients /\ c[2] \in 1..REBORN_LIMIT_FOR_CLIENT /\ c = <<c[1], c[2]>>
  BY ConnsAssumption
<1>4. PICK n \in 1..REBORN_LIMIT_FOR_CLIENT :
          /\ links[<<c[1], n>>] # "none"
          /\ counts[<<c[1], n>>] = MSG_LIMIT_PER_CLIENT => n = REBORN_LIMIT_FOR_CLIENT
  BY <1>3
<1> DEFINE e == <<c[1], n>>
<1>5. e \in Conns /\ e[1] = c[1] /\ e[2] = n
  BY <1>3, ConnsAssumption
<1>6. counts[e] = MSG_LIMIT_PER_CLIENT /\ n = REBORN_LIMIT_FOR_CLIENT
  BY <1>2, <1>4, <1>5
<1>7. CASE c[2] < n
  BY <1>4, <1>5, <1>7
<1>8. CASE c[2] = n
  BY <1>3, <1>6, <1>8
<1> QED
  BY <1>3, <1>6, <1>7, <1>8, ConstantsOK, SMTT(30)

\* The last echo of a connection: the run ends with it only if everything is
\* measured, or if a fault has closed other sockets in the "sync" mode.
LEMMA RunClientFinishes ==
    ASSUME IInv, IInv', RunInv, NEW c \in Conns, NEW mode \in CLOSE_MODES,
           ClosesAfterLast(c, mode),
           NEW times \in Nat, EndClient(times),
           times > 0 => \/ mode = "sync" /\ loop_cnt' >= TOTAL_MSG_CNT
                        \/ SocketCount(cli_link') = 0,
           CurrentLife',
           \A d \in Conns \ {c} :
               \/ cli_link'[d] = cli_link[d]
               \/ cli_link'[d] = "connecting",
           UNCHANGED <<broken, faults, srv_proc>>
    PROVE  RunInv'
<1>1. /\ cli_link[c] = "open"
      /\ c2s' = [c2s EXCEPT ![c] = <<CLOSE>>]
      /\ msg_cnt' = [msg_cnt EXCEPT ![c] = MSG_LIMIT_PER_CLIENT]
  BY ClosedConn
<1>2. /\ proc \in {"running", "stopping"}
      /\ cli_link'[c] = ClosedLink(mode)
  BY DEF ClosesAfterLast, CliReadable, LoopDelivers
<1>3. /\ cli_link' \in [Conns -> CliLinks]
      /\ msg_cnt' \in [Conns -> 0..MSG_LIMIT_PER_CLIENT]
      /\ rtt_hist' = {s \in Conns \X Messages : s[2] <= msg_cnt'[s[1]]}
      /\ loop_cnt' = Cardinality(rtt_hist')
      /\ msg_cnt \in [Conns -> 0..MSG_LIMIT_PER_CLIENT]
      /\ c2s \in [Conns -> Seq(Nat)]
  BY DEF IInv, TypeOK, WireTypeOK, CliTypeOK, SamplesAreRoundTrips
<1>4. faults' = 0 => Unhurt'
  <2>1. ASSUME faults' = 0, NEW d \in Conns, cli_link'[d] = "closed"
        PROVE  msg_cnt'[d] = MSG_LIMIT_PER_CLIENT /\ c2s'[d] \in {<<>>, <<CLOSE>>}
    BY <1>1, <1>3, <2>1 DEF RunInv, Unhurt
  <2>2. proc' \in {"running", "stopping"}
    BY <1>2 DEF EndClient
  <2> QED
    BY <1>2, <2>1, <2>2 DEF RunInv, Unhurt
<1>5. Ended'
  <2>1. proc' \in {"stopping", "exited"} => end_calls' > 0
    BY <1>2 DEF EndClient, RunInv, Ended, IInv, TypeOK, CliTypeOK
  <2>2. ASSUME EndsInOrder', end_calls' > 0 PROVE Complete'
    <3>1. EndsInOrder
      BY <2>2 DEF EndsInOrder
    <3>2. ~Complete
      BY <1>1, CompleteIsQuiet
    <3>3. end_calls = 0
      BY <3>1, <3>2 DEF RunInv, Ended, IInv, TypeOK, CliTypeOK
    <3>4. times > 0
      BY <2>2, <3>3 DEF EndClient
    <3>5. CASE loop_cnt' >= TOTAL_MSG_CNT
      BY <1>3, <3>5, MeasuredAll DEF Complete
    <3>6. CASE SocketCount(cli_link') = 0
      <4> DEFINE sockets ==
                   {d \in Conns : cli_link'[d] \in {"connecting", "open", "closing"}}
      <4>1. sockets = {}
        <5>1. IsFiniteSet(sockets)
          BY ConnsAreFinite, FS_Subset
        <5> QED
          BY <3>6, <5>1, FS_EmptySet DEF SocketCount
      <4>2. mode = "sync"
        BY <1>2, <4>1, ClientAssumption DEF ClosedLink
      <4>3. faults' = 0
        BY <2>2, <4>2 DEF EndsInOrder
      <4>4. \A d \in Conns :
               cli_link'[d] = "closed" => msg_cnt'[d] = MSG_LIMIT_PER_CLIENT
        BY <1>4, <4>3 DEF Unhurt
      <4>5. \A a, b \in Conns :
               a[1] = b[1] /\ a[2] < b[2] /\ cli_link'[b] # "none"
                   => msg_cnt'[a] = MSG_LIMIT_PER_CLIENT
        BY DEF IInv, OneLifeAtATime
      <4>6. \A k \in Clients :
               \E n \in 1..REBORN_LIMIT_FOR_CLIENT :
                   /\ cli_link'[<<k, n>>] # "none"
                   /\ msg_cnt'[<<k, n>>] = MSG_LIMIT_PER_CLIENT
                        => n = REBORN_LIMIT_FOR_CLIENT
        BY DEF CurrentLife
      <4> QED
        BY <1>3, <3>6, <4>4, <4>5, <4>6, NoSocketLeft DEF Complete
    <3> QED
      BY <3>4, <3>5, <3>6
  <2> QED
    BY <2>1, <2>2 DEF Ended
<1> QED
  BY <1>4, <1>5 DEF RunInv

\* The client's callbacks, one lemma each.  The last echo of a connection in its
\* last life.
LEMMA RunCliOnReadLast ==
    ASSUME IInv, IInv', RunInv, NEW c \in Conns, NEW mode \in CLOSE_MODES,
           CliOnReadLast(c, mode), UNCHANGED srvVars
    PROVE  RunInv'
<1> DEFINE times == EndsInClose(mode) + (IF SocketCount(cli_link') = 0 THEN 1 ELSE 0)
<1>1. /\ ClosesAfterLast(c, mode)
      /\ cli_link' = [cli_link EXCEPT ![c] = ClosedLink(mode)]
      /\ UNCHANGED <<broken, faults, srv_proc>>
  BY LastEffect DEF srvVars
<1>2. times \in Nat /\ EndClient(times)
  BY DEF CliOnReadLast, EndsInClose, EndAtClose
<1>3. times > 0 => \/ mode = "sync" /\ loop_cnt' >= TOTAL_MSG_CNT
                   \/ SocketCount(cli_link') = 0
  BY DEF EndsInClose, EndAtClose
<1>4. /\ cli_link[c] = "open" /\ reborn_cnt[c] = c[2]
      /\ cli_link'[c] \in {"closing", "closed"}
      /\ msg_cnt' = [msg_cnt EXCEPT ![c] = MSG_LIMIT_PER_CLIENT]
      /\ c2s' = [c2s EXCEPT ![c] = <<CLOSE>>]
  BY <1>1, ClosedConn
<1>5. c[2] = REBORN_LIMIT_FOR_CLIENT
  BY <1>4, ConnsAssumption, ConstantsOK DEF CliOnReadLast
<1>6. CurrentLife'
  <2> SUFFICES ASSUME NEW k \in Clients
               PROVE  \E n \in 1..REBORN_LIMIT_FOR_CLIENT :
                          /\ cli_link'[<<k, n>>] # "none"
                          /\ msg_cnt'[<<k, n>>] = MSG_LIMIT_PER_CLIENT
                               => n = REBORN_LIMIT_FOR_CLIENT
    BY DEF CurrentLife
  <2>1. PICK n \in 1..REBORN_LIMIT_FOR_CLIENT :
            /\ cli_link[<<k, n>>] # "none"
            /\ msg_cnt[<<k, n>>] = MSG_LIMIT_PER_CLIENT => n = REBORN_LIMIT_FOR_CLIENT
    BY DEF RunInv, CurrentLife
  <2>2. <<k, n>> \in Conns
    BY ConnsAssumption
  <2>3. CASE <<k, n>> = c
    <3>1. n = REBORN_LIMIT_FOR_CLIENT
      BY <1>5, <2>3
    <3> QED
      BY <1>4, <2>3, <3>1
  <2>4. CASE <<k, n>> # c
    BY <1>1, <1>4, <2>1, <2>2, <2>4 DEF IInv, TypeOK, WireTypeOK, CliTypeOK
  <2> QED
    BY <2>3, <2>4
<1>7. \A d \in Conns \ {c} : cli_link'[d] = cli_link[d]
  BY <1>1 DEF IInv, TypeOK, WireTypeOK
<1> HIDE DEF times
<1> QED
  BY <1>1, <1>2, <1>3, <1>6, <1>7, RunClientFinishes

\* The last echo of a connection that is reborn: the client goes on in the next
\* life.
LEMMA RunCliOnReadReborn ==
    ASSUME IInv, IInv', RunInv, NEW c \in Conns, NEW mode \in CLOSE_MODES,
           CliOnReadReborn(c, mode), UNCHANGED srvVars
    PROVE  RunInv'
<1> DEFINE times == EndsInClose(mode)
<1>1. /\ ClosesAfterLast(c, mode)
      /\ UNCHANGED <<broken, faults, srv_proc>>
  BY RebornEffect DEF srvVars
<1>2. PICK next \in Conns :
          /\ next # c /\ next[1] = c[1] /\ next[2] = c[2] + 1
          /\ cli_link[next] = "none"
          /\ cli_link' = [cli_link EXCEPT ![c] = ClosedLink(mode),
                                          ![next] = "connecting"]
  BY RebornEffect
<1>3. times \in Nat /\ EndClient(times)
  BY DEF CliOnReadReborn, EndsInClose, EndAtClose
<1>4. times > 0 => \/ mode = "sync" /\ loop_cnt' >= TOTAL_MSG_CNT
                   \/ SocketCount(cli_link') = 0
  BY DEF EndsInClose, EndAtClose
<1>5. /\ cli_link'[c] \in {"closing", "closed"}
      /\ msg_cnt' = [msg_cnt EXCEPT ![c] = MSG_LIMIT_PER_CLIENT]
  BY <1>1, ClosedConn
<1>6. /\ cli_link'[next] = "connecting"
      /\ \A d \in Conns \ {c, next} : cli_link'[d] = cli_link[d]
      /\ msg_cnt'[next] = 0
  <2>1. CliCtx(next) /\ msg_cnt[next] = 0
    BY <1>2 DEF IInv, ConnInv, ConnOK, CliCtx
  <2> QED
    BY <1>2, <1>5, <2>1 DEF IInv, TypeOK, WireTypeOK, CliTypeOK
<1>7. CurrentLife'
  <2> SUFFICES ASSUME NEW k \in Clients
               PROVE  \E n \in 1..REBORN_LIMIT_FOR_CLIENT :
                          /\ cli_link'[<<k, n>>] # "none"
                          /\ msg_cnt'[<<k, n>>] = MSG_LIMIT_PER_CLIENT
                               => n = REBORN_LIMIT_FOR_CLIENT
    BY DEF CurrentLife
  <2>1. CASE k = c[1]
    <3>1. next[2] \in 1..REBORN_LIMIT_FOR_CLIENT /\ next = <<k, next[2]>>
      BY <1>2, <2>1, ConnsAssumption
    <3> QED
      BY <1>6, <3>1, ConstantsOK
  <2>2. CASE k # c[1]
    <3>1. PICK n \in 1..REBORN_LIMIT_FOR_CLIENT :
              /\ cli_link[<<k, n>>] # "none"
              /\ msg_cnt[<<k, n>>] = MSG_LIMIT_PER_CLIENT
                   => n = REBORN_LIMIT_FOR_CLIENT
      BY DEF RunInv, CurrentLife
    <3> DEFINE e == <<k, n>>
    <3>2. e \in Conns /\ e # c /\ e # next
      BY <1>2, <2>2, ConnsAssumption
    <3> QED
      BY <1>5, <1>6, <3>1, <3>2 DEF IInv, TypeOK, CliTypeOK
  <2> QED
    BY <2>1, <2>2
<1>8. \A d \in Conns \ {c} : \/ cli_link'[d] = cli_link[d]
                             \/ cli_link'[d] = "connecting"
  BY <1>6
<1> HIDE DEF times
<1> QED
  BY <1>1, <1>3, <1>4, <1>7, <1>8, RunClientFinishes

\* on_close: it ends the run only when everything is measured; without a fault it
\* comes only after the last echo of the connection.
LEMMA RunCliOnClose ==
    ASSUME IInv, IInv', RunInv, NEW c \in Conns, CliOnClose(c), UNCHANGED srvVars
    PROVE  RunInv'
<1> USE DEF srvVars, sumVars
<1>1. /\ proc \in {"running", "stopping"}
      /\ cli_link[c] \in {"closing", "connecting", "open"}
      /\ cli_link[c] # "closing" => c \in broken
      /\ cli_link' = [cli_link EXCEPT ![c] = "closed"]
      /\ UNCHANGED <<c2s, broken, faults, msg_cnt, loop_cnt, rtt_hist, srv_proc>>
      /\ EndClient(EndAtClose(loop_cnt))
  BY DEF CliOnClose, LoopDelivers
<1>2. /\ cli_link'[c] = "closed"
      /\ \A d \in Conns \ {c} : cli_link'[d] = cli_link[d]
  BY <1>1 DEF IInv, TypeOK, WireTypeOK
<1>3. Ended'
  <2>1. proc' \in {"stopping", "exited"} => end_calls' > 0
    BY <1>1 DEF EndClient, EndAtClose, RunInv, Ended, IInv, TypeOK, CliTypeOK
  <2>2. ASSUME EndsInOrder', end_calls' > 0 PROVE Complete'
    <3>1. CASE loop_cnt >= TOTAL_MSG_CNT
      BY <1>1, <3>1, AllMeasured DEF Complete
    <3>2. CASE ~(loop_cnt >= TOTAL_MSG_CNT)
      <4>1. end_calls' = end_calls
        BY <1>1, <3>2 DEF EndClient, EndAtClose, IInv, TypeOK, CliTypeOK
      <4> QED
        BY <1>1, <2>2, <4>1 DEF RunInv, Ended, EndsInOrder, Complete
    <3> QED
      BY <3>1, <3>2
  <2> QED
    BY <2>1, <2>2 DEF Ended
<1>4. CurrentLife'
  <2>1. \A d \in Conns : cli_link[d] # "none" => cli_link'[d] # "none"
    BY <1>2
  <2>2. \A k \in Clients, n \in 1..REBORN_LIMIT_FOR_CLIENT : <<k, n>> \in Conns
    BY ConnsAssumption
  <2> QED
    BY <1>1, <2>1, <2>2 DEF RunInv, CurrentLife
<1>5. ASSUME faults' = 0 PROVE Unhurt'
  <2>1. Unhurt /\ broken = {}
    BY <1>1, <1>5 DEF RunInv, Unhurt
  <2>2. cli_link[c] = "closing"
    BY <1>1, <2>1
  <2>3. msg_cnt[c] = MSG_LIMIT_PER_CLIENT /\ c2s[c] \in {<<>>, <<CLOSE>>}
    BY <2>2 DEF IInv, ConnInv, ConnOK, CliCtx, Phases, Nothing, Request, Echo, Goodbye
  <2>4. proc' \in {"running", "stopping"}
    BY <1>1 DEF EndClient
  <2> QED
    BY <1>1, <1>2, <2>1, <2>3, <2>4 DEF Unhurt
<1> QED
  BY <1>3, <1>4, <1>5 DEF RunInv

\* A step that changes only the processes, the links and the faults.
LEMMA RunProcess ==
    ASSUME RunInv,
           UNCHANGED <<cli_link, c2s, msg_cnt, end_calls>>,
           faults' # 0 \/ faults' = faults,
           proc' = "exited" => proc \in {"stopping", "exited"},
           proc' = "stopping" => proc = "stopping",
           faults' = 0 => /\ srv_proc' = srv_proc
                          /\ proc' # "aborted" \/ proc' = proc
                          /\ broken' = broken \/ proc' = "exited",
           faults' = 0 /\ proc = "exited" => proc' = "exited"
    PROVE  RunInv'
<1>1. Ended'
  BY DEF RunInv, Ended, EndsInOrder, Complete
<1>2. CurrentLife'
  BY DEF RunInv, CurrentLife
<1>3. faults' = 0 => Unhurt'
  BY DEF RunInv, Unhurt
<1> QED
  BY <1>1, <1>2, <1>3 DEF RunInv

\* The client aborts only after a fault.
LEMMA AbortsOnlyAfterFault ==
    ASSUME IInv, RunInv, NEW c \in Conns,
           CliOnOpenAborts(c) \/ CliOnReadAborts(c)
    PROVE  faults # 0
<1> SUFFICES ASSUME faults = 0 PROVE FALSE
  BY DEF IInv, TypeOK, WireTypeOK
<1>1. proc \in {"running", "stopping"}
  BY DEF CliOnOpenAborts, CliOnReadAborts, CliReadable, LoopDelivers
<1>2. broken = {}
  BY <1>1 DEF RunInv, Unhurt
<1>3. CASE CliOnOpenAborts(c)
  BY <1>2, <1>3 DEF CliOnOpenAborts
<1>4. CASE CliOnReadAborts(c)
  <2>1. EchoSize(c) = MSG_LEN
    BY <1>4, ClientReads DEF CliOnReadAborts, IInv, ConnInv
  <2> QED
    BY <1>2, <1>4, <2>1 DEF CliOnReadAborts, EchoRefused
<1> QED
  BY <1>3, <1>4

\* Every step of the client's callbacks preserves RunInv.
LEMMA RunClient ==
    ASSUME IInv, IInv', RunInv, NEW c \in Conns, ClientStep(c)
    PROVE  RunInv'
<1> USE DEF ClientStep
<1>1. CASE CliOnOpen(c)
  <2>1. /\ cli_link[c] = "connecting" /\ msg_cnt[c] = 0
        /\ cli_link' = [cli_link EXCEPT ![c] = "open"]
        /\ c2s' = [c2s EXCEPT ![c] = <<MSG_LEN>>]
    BY <1>1, OpenEffect
  <2>2. UNCHANGED <<msg_cnt, end_calls, proc, broken, faults, srv_proc>>
    BY <1>1 DEF CliOnOpen, endVars, srvVars
  <2>3. /\ msg_cnt' \in [Conns -> Nat] /\ msg_cnt'[c] < MSG_LIMIT_PER_CLIENT
        /\ \A d \in Conns \ {c} : msg_cnt'[d] = msg_cnt[d] /\ c2s'[d] = c2s[d]
    BY <2>1, <2>2, ConstantsOK, SMTT(30) DEF IInv, TypeOK, CliTypeOK, WireTypeOK
  <2> QED
    BY <2>1, <2>2, <2>3, RunClientGoesOn
<1>2. ASSUME NEW n \in 1..MSG_LEN, CliOnReadPiece(c, n)
      PROVE  RunInv'
  <2>1. cli_link[c] = "open" /\ cli_link' = cli_link /\ c2s' = c2s /\ msg_cnt' = msg_cnt
    BY <1>2, PieceEffect DEF CliOnReadPiece
  <2>2. UNCHANGED <<end_calls, proc, broken, faults, srv_proc>>
    BY <1>2 DEF CliOnReadPiece, endVars, srvVars
  <2>3. /\ msg_cnt \in [Conns -> Nat] /\ msg_cnt[c] < MSG_LIMIT_PER_CLIENT
        /\ cli_link' = [cli_link EXCEPT ![c] = "open"]
    BY <2>1, ConstantsOK
    DEF IInv, ConnInv, ConnOK, CliCtx, TypeOK, CliTypeOK, WireTypeOK
  <2> QED
    BY <2>1, <2>2, <2>3, RunClientGoesOn
<1>3. CASE CliOnReadMessage(c)
  <2>1. /\ cli_link[c] = "open" /\ cli_link' = cli_link
        /\ msg_cnt' = [msg_cnt EXCEPT ![c] = msg_cnt[c] + 1]
        /\ msg_cnt' \in [Conns -> 0..MSG_LIMIT_PER_CLIENT]
        /\ msg_cnt'[c] < MSG_LIMIT_PER_CLIENT
        /\ c2s' = [c2s EXCEPT ![c] = <<MSG_LEN>>]
        /\ UNCHANGED <<end_calls, proc, broken, faults, srv_proc>>
    BY <1>3, MessageEffect DEF endVars, srvVars
  <2>2. /\ msg_cnt' \in [Conns -> Nat]
        /\ \A d \in Conns \ {c} : msg_cnt'[d] = msg_cnt[d] /\ c2s'[d] = c2s[d]
        /\ cli_link' = [cli_link EXCEPT ![c] = "open"]
    BY <2>1, ConstantsOK DEF IInv, TypeOK, CliTypeOK, WireTypeOK
  <2> QED
    BY <2>1, <2>2, RunClientGoesOn
<1>4. ASSUME NEW mode \in CLOSE_MODES, CliOnReadReborn(c, mode)
      PROVE  RunInv'
  BY <1>4, RunCliOnReadReborn
<1>5. ASSUME NEW mode \in CLOSE_MODES, CliOnReadLast(c, mode)
      PROVE  RunInv'
  BY <1>5, RunCliOnReadLast
<1>6. CASE CliOnOpenAborts(c) \/ CliOnReadAborts(c)
  <2>1. faults # 0
    BY <1>6, AbortsOnlyAfterFault
  <2> QED
    BY <1>6, <2>1, RunProcess
    DEF CliOnOpenAborts, CliOnReadAborts, Abort, ctxVars
<1>7. CASE CliRebornAborts(c)
  <2>1. faults' # 0
    BY <1>7 DEF CliRebornAborts, IInv, TypeOK, WireTypeOK
  <2> QED
    BY <1>7, <2>1, RunProcess DEF CliRebornAborts, Abort, ctxVars
<1>8. CASE CliOnClose(c)
  BY <1>8, RunCliOnClose
<1> QED
  BY <1>1, <1>2, <1>3, <1>4, <1>5, <1>6, <1>7, <1>8 DEF CliStep

\* Every step of a run preserves RunInv.
LEMMA RunNext == IInv /\ IInv' /\ RunInv /\ [Next]_vars => RunInv'
<1> SUFFICES ASSUME IInv, IInv', RunInv, [Next]_vars PROVE RunInv'
  OBVIOUS
<1>1. ASSUME NEW c \in Conns, ClientStep(c) PROVE RunInv'
  BY <1>1, RunClient
<1>2. ASSUME NEW c \in Conns, ServerStep(c) PROVE RunInv'
  BY <1>2, RunServer
<1>3. ASSUME NEW c \in Conns, LinkFails(c) PROVE RunInv'
  <2>1. faults' # 0
    BY <1>3 DEF LinkFails, BreakLink, IInv, TypeOK, WireTypeOK
  <2> QED
    BY <1>3, <2>1, RunProcess
    DEF LinkFails, BreakLink, srvVars, cliVars, ctxVars, endVars
<1>4. CASE ClientExit
  BY <1>4, RunProcess DEF ClientExit, CliLoopExit, srvVars, ctxVars
<1>5. CASE UNCHANGED vars
  BY <1>5, RunProcess DEF vars, wireVars, srvVars, cliVars, ctxVars, endVars
<1> QED
  BY <1>1, <1>2, <1>3, <1>4, <1>5 DEF Next, Terminated

\* The run ends at the right time, a client that is not done is at work, and while
\* nothing has failed nothing is aborted, broken or cut short.
THEOREM RunInvariance == Spec => []RunInv
  BY RunInit, RunNext, Invariance, PTL DEF Spec

\* Without a fault neither process ever aborts: no write finds its link gone, and
\* no echo is refused.
THEOREM NothingAborts == Spec => []NoAbort
<1>1. RunInv => NoAbort
  BY DEF RunInv, Unhurt, NoAbort
<1> QED
  BY <1>1, RunInvariance, PTL

-----------------------------------------------------------------------------
\* The byte counters.  Steps that leave alone what SentInv and ReceivedInv speak of.
LEMMA SumsFrame ==
    ASSUME SentInv, ReceivedInv,
           UNCHANGED <<cli_link, temp_buf, msg_cnt, start_write_tick, loop_cnt,
                       send_bytes_sum, recv_bytes_sum>>
    PROVE  SentInv' /\ ReceivedInv'
<1>1. Collected' = Collected
  BY DEF Collected
<1> QED
  BY <1>1 DEF SentInv, ReceivedInv, ClosedInOrder

\* When the client writes a message, or writes none.
LEMMA SentStep ==
    ASSUME IInv, IInv', SentInv, NEW c \in Conns,
           \/ /\ send_bytes_sum' = send_bytes_sum + MSG_LEN
              /\ start_write_tick' =
                   [start_write_tick EXCEPT ![c] = start_write_tick[c] + 1]
           \/ UNCHANGED <<send_bytes_sum, start_write_tick>>,
           \A d \in Conns :
             /\ msg_cnt'[d] <= start_write_tick'[d]
             /\ cli_link'[d] \in {"none", "connecting"} => start_write_tick'[d] = 0
    PROVE  SentInv'
<1>1. /\ start_write_tick \in [Conns -> Nat] /\ start_write_tick' \in [Conns -> Nat]
      /\ send_bytes_sum \in Nat
  BY ConstantsOK DEF IInv, TypeOK, CliTypeOK
<1>2. CASE UNCHANGED <<send_bytes_sum, start_write_tick>>
  BY <1>2 DEF SentInv
<1>3. CASE /\ send_bytes_sum' = send_bytes_sum + MSG_LEN
           /\ start_write_tick' =
                [start_write_tick EXCEPT ![c] = start_write_tick[c] + 1]
  <2>1. /\ start_write_tick'[c] = start_write_tick[c] + 1
        /\ \A d \in Conns : d # c => start_write_tick'[d] = start_write_tick[d]
    BY <1>1, <1>3
  <2>2. /\ SumOver(start_write_tick', Conns)
             = SumOver(start_write_tick, Conns) - start_write_tick[c]
                 + start_write_tick'[c]
        /\ SumOver(start_write_tick, Conns) \in Nat
    BY <1>1, <2>1, ConnsAreFinite, SumChange
  <2>3. start_write_tick[c] \in Nat
    BY <1>1
  <2>4. SumOver(start_write_tick', Conns) = SumOver(start_write_tick, Conns) + 1
    BY <2>1, <2>2, <2>3
  <2>5. \A s \in Nat : MSG_LEN * (s + 1) = MSG_LEN * s + MSG_LEN
    BY ConstantsOK
  <2>6. send_bytes_sum' = MSG_LEN * SumOver(start_write_tick', Conns)
    BY <1>3, <2>2, <2>4, <2>5 DEF SentInv
  <2> QED
    BY <2>6 DEF SentInv
<1> QED
  BY <1>2, <1>3

\* When one connection's collected bytes change along with the counters.
LEMMA ReceivedStep ==
    ASSUME IInv, IInv', ReceivedInv, NEW c \in Conns,
           ClosedInOrder' => ClosedInOrder,
           \A d \in Conns : d # c => Collected'[d] = Collected[d],
           \/ /\ loop_cnt' = loop_cnt
              /\ recv_bytes_sum' = recv_bytes_sum + (Collected'[c] - Collected[c])
           \/ /\ loop_cnt' = loop_cnt + 1
              /\ recv_bytes_sum' =
                   recv_bytes_sum + MSG_LEN + (Collected'[c] - Collected[c])
    PROVE  ReceivedInv'
<1> SUFFICES ASSUME ClosedInOrder'
             PROVE  recv_bytes_sum' = MSG_LEN * loop_cnt' + SumOver(Collected', Conns)
  BY DEF ReceivedInv
<1>1. /\ Collected \in [Conns -> Nat] /\ Collected' \in [Conns -> Nat]
      /\ loop_cnt \in Nat /\ recv_bytes_sum \in Nat
  <2>1. ASSUME NEW d \in Conns, cli_link[d] = "open" PROVE temp_buf[d] \in Nat
    <3>1. Phases(d)
      BY DEF IInv, ConnInv, ConnOK
    <3>2. CASE Request(d)
      BY <2>1, <3>2 DEF Request
    <3>3. CASE Echo(d)
      <4>1. PICK left \in 1..MSG_LEN : temp_buf[d] = MSG_LEN - left
        BY <2>1, <3>3 DEF Echo
      <4> QED
        BY <4>1, ConstantsOK
    <3> QED
      BY <2>1, <3>1, <3>2, <3>3 DEF Phases, Nothing, Goodbye
  <2>2. ASSUME NEW d \in Conns, cli_link'[d] = "open" PROVE temp_buf'[d] \in Nat
    <3>1. Phases(d)'
      BY DEF IInv, ConnInv, ConnOK
    <3>2. CASE Request(d)'
      BY <2>2, <3>2 DEF Request
    <3>3. CASE Echo(d)'
      <4>1. PICK left \in 1..MSG_LEN : temp_buf'[d] = MSG_LEN - left
        BY <2>2, <3>3 DEF Echo
      <4> QED
        BY <4>1, ConstantsOK
    <3> QED
      BY <2>2, <3>1, <3>2, <3>3 DEF Phases, Nothing, Goodbye
  <2> QED
    BY <2>1, <2>2 DEF Collected, IInv, TypeOK, CliTypeOK
<1>2. /\ SumOver(Collected', Conns)
           = SumOver(Collected, Conns) - Collected[c] + Collected'[c]
      /\ SumOver(Collected, Conns) \in Nat
  BY <1>1, ConnsAreFinite, SumChange
<1>3. Collected[c] \in Nat /\ Collected'[c] \in Nat
  BY <1>1
<1>4. recv_bytes_sum = MSG_LEN * loop_cnt + SumOver(Collected, Conns)
  BY DEF ReceivedInv
<1>5. MSG_LEN * (loop_cnt + 1) = MSG_LEN * loop_cnt + MSG_LEN
      /\ MSG_LEN * loop_cnt \in Nat /\ MSG_LEN \in Nat
  BY <1>1, ConstantsOK
<1> QED
  BY <1>1, <1>2, <1>3, <1>4, <1>5

\* The last echo of a connection completes a message and leaves nothing collected.
LEMMA SumsClientFinishes ==
    ASSUME IInv, IInv', SentInv, ReceivedInv, NEW c \in Conns,
           NEW mode \in CLOSE_MODES, ClosesAfterLast(c, mode),
           \A d \in Conns \ {c} :
               \/ cli_link'[d] = cli_link[d] /\ temp_buf'[d] = temp_buf[d]
               \/ cli_link[d] = "none" /\ cli_link'[d] = "connecting"
    PROVE  SentInv' /\ ReceivedInv'
<1>1. /\ cli_link[c] = "open"
      /\ cli_link'[c] \in {"closing", "closed"}
      /\ temp_buf[c] \in 0..MSG_LEN
      /\ start_write_tick[c] = MSG_LIMIT_PER_CLIENT
      /\ msg_cnt' = [msg_cnt EXCEPT ![c] = MSG_LIMIT_PER_CLIENT]
      /\ loop_cnt' = loop_cnt + 1
      /\ recv_bytes_sum' = recv_bytes_sum + (MSG_LEN - temp_buf[c])
  BY ClosedConn
<1>2. UNCHANGED <<send_bytes_sum, start_write_tick>>
  BY DEF ClosesAfterLast
<1>3. /\ msg_cnt'[c] = MSG_LIMIT_PER_CLIENT
      /\ \A d \in Conns \ {c} : msg_cnt'[d] = msg_cnt[d]
  BY <1>1 DEF IInv, TypeOK, CliTypeOK
<1>4. SentInv'
  <2>1. ASSUME NEW d \in Conns
        PROVE  /\ msg_cnt'[d] <= start_write_tick'[d]
               /\ cli_link'[d] \in {"none", "connecting"} => start_write_tick'[d] = 0
    BY <1>1, <1>2, <1>3, ConstantsOK DEF SentInv
  <2> QED
    BY <1>2, <2>1, SentStep
<1>5. ReceivedInv'
  <2>1. Collected[c] = temp_buf[c] /\ Collected'[c] = 0
    BY <1>1 DEF Collected
  <2>2. \A d \in Conns : d # c => Collected'[d] = Collected[d]
    BY DEF Collected
  <2>3. ClosedInOrder' => ClosedInOrder
    BY <1>1, <1>3 DEF ClosedInOrder
  <2>4. recv_bytes_sum' = recv_bytes_sum + MSG_LEN + (Collected'[c] - Collected[c])
    BY <1>1, <2>1, ConstantsOK DEF IInv, TypeOK, CliTypeOK
  <2> QED
    BY <1>1, <2>2, <2>3, <2>4, ReceivedStep
<1> QED
  BY <1>4, <1>5

\* on_close counts nothing; a connection it takes away before its last echo makes
\* ReceivedInv say nothing any more.
LEMMA SumsCliOnClose ==
    ASSUME IInv, IInv', SentInv, ReceivedInv, NEW c \in Conns, CliOnClose(c)
    PROVE  SentInv' /\ ReceivedInv'
<1>1. /\ cli_link[c] \in {"closing", "connecting", "open"}
      /\ cli_link' = [cli_link EXCEPT ![c] = "closed"]
      /\ temp_buf' = [temp_buf EXCEPT ![c] = NoBuf]
      /\ UNCHANGED <<msg_cnt, start_write_tick, loop_cnt, send_bytes_sum,
                     recv_bytes_sum>>
  BY DEF CliOnClose, sumVars
<1>2. /\ cli_link'[c] = "closed"
      /\ \A d \in Conns \ {c} : /\ cli_link'[d] = cli_link[d]
                                /\ temp_buf'[d] = temp_buf[d]
  BY <1>1 DEF IInv, TypeOK, WireTypeOK, CliTypeOK
<1>3. SentInv'
  <2>1. ASSUME NEW d \in Conns
        PROVE  /\ msg_cnt'[d] <= start_write_tick'[d]
               /\ cli_link'[d] \in {"none", "connecting"} => start_write_tick'[d] = 0
    BY <1>1, <1>2 DEF SentInv
  <2> QED
    BY <1>1, <2>1, SentStep
<1>4. ReceivedInv'
  <2> SUFFICES ASSUME ClosedInOrder' PROVE ReceivedInv'
    BY DEF ReceivedInv
  <2>1. msg_cnt[c] = MSG_LIMIT_PER_CLIENT
    BY <1>1, <1>2 DEF ClosedInOrder
  <2>2. cli_link[c] = "closing"
    BY <1>1, <2>1, ConstantsOK DEF IInv, ConnInv, ConnOK, CliCtx
  <2>3. ClosedInOrder
    BY <1>1, <1>2, <2>1 DEF ClosedInOrder
  <2>4. Collected' = Collected
    BY <1>2, <2>2 DEF Collected
  <2> QED
    BY <1>1, <2>3, <2>4 DEF ReceivedInv
<1> QED
  BY <1>3, <1>4

\* Every step of the client's callbacks keeps its counters right.
LEMMA SumsClient ==
    ASSUME IInv, IInv', SentInv, ReceivedInv, NEW c \in Conns, ClientStep(c)
    PROVE  SentInv' /\ ReceivedInv'
<1> USE DEF ClientStep
<1>0. /\ cli_link \in [Conns -> CliLinks] /\ temp_buf \in [Conns -> Int]
      /\ start_write_tick \in [Conns -> Nat] /\ msg_cnt \in [Conns -> Nat]
      /\ recv_bytes_sum \in Nat
  <2>1. temp_buf \in [Conns -> Nat \cup {NoBuf}]
    BY DEF IInv, TypeOK, CliTypeOK
  <2>2. Nat \cup {NoBuf} \subseteq Int
    BY DEF NoBuf
  <2>3. temp_buf \in [Conns -> Int]
    BY <2>1, <2>2
  <2>4. start_write_tick \in [Conns -> Nat] /\ msg_cnt \in [Conns -> Nat]
    BY ConstantsOK DEF IInv, TypeOK, CliTypeOK
  <2> QED
    BY <2>3, <2>4 DEF IInv, TypeOK, WireTypeOK, CliTypeOK
<1>1. CASE CliOnOpen(c)
  <2>1. /\ cli_link[c] = "connecting" /\ msg_cnt[c] = 0
        /\ send_bytes_sum' = send_bytes_sum + MSG_LEN
        /\ start_write_tick' = [start_write_tick EXCEPT ![c] = 1]
        /\ temp_buf' = [temp_buf EXCEPT ![c] = 0]
        /\ cli_link' = [cli_link EXCEPT ![c] = "open"]
        /\ UNCHANGED <<msg_cnt, loop_cnt, recv_bytes_sum>>
    BY <1>1, OpenEffect DEF CliOnOpen
  <2>2. start_write_tick[c] = 0
    BY <2>1 DEF SentInv
  <2>3. ASSUME NEW d \in Conns
        PROVE  /\ msg_cnt'[d] <= start_write_tick'[d]
               /\ cli_link'[d] \in {"none", "connecting"} => start_write_tick'[d] = 0
    BY <1>0, <2>1 DEF SentInv
  <2>4. start_write_tick' = [start_write_tick EXCEPT ![c] = start_write_tick[c] + 1]
    BY <2>1, <2>2
  <2>5. SentInv'
    BY <2>1, <2>3, <2>4, SentStep
  <2>6. Collected' = Collected /\ (ClosedInOrder' => ClosedInOrder)
    BY <1>0, <2>1 DEF Collected, ClosedInOrder
  <2> QED
    BY <2>1, <2>5, <2>6 DEF ReceivedInv
<1>2. ASSUME NEW n \in 1..MSG_LEN, CliOnReadPiece(c, n)
      PROVE  SentInv' /\ ReceivedInv'
  <2>1. /\ cli_link[c] = "open"
        /\ temp_buf' = [temp_buf EXCEPT ![c] = temp_buf[c] + n]
        /\ recv_bytes_sum' = recv_bytes_sum + n
        /\ UNCHANGED <<cli_link, msg_cnt, start_write_tick, loop_cnt, send_bytes_sum>>
    BY <1>2, PieceEffect DEF CliOnReadPiece
  <2>2. SentInv'
    BY <2>1 DEF SentInv
  <2>3. /\ Collected[c] = temp_buf[c] /\ Collected'[c] = temp_buf[c] + n
        /\ \A d \in Conns : d # c => Collected'[d] = Collected[d]
        /\ ClosedInOrder' => ClosedInOrder
    BY <1>0, <2>1 DEF Collected, ClosedInOrder
  <2>4. recv_bytes_sum' = recv_bytes_sum + (Collected'[c] - Collected[c])
    BY <1>0, <2>1, <2>3
  <2> QED
    BY <2>1, <2>2, <2>3, <2>4, ReceivedStep
<1>3. CASE CliOnReadMessage(c)
  <2>1. PICK left \in 1..MSG_LEN :
            /\ temp_buf[c] = MSG_LEN - left
            /\ recv_bytes_sum' = recv_bytes_sum + left
    BY <1>3, MessageEffect
  <2>2. /\ cli_link[c] = "open" /\ cli_link' = cli_link
        /\ start_write_tick[c] = msg_cnt[c] + 1
        /\ msg_cnt' = [msg_cnt EXCEPT ![c] = msg_cnt[c] + 1]
        /\ loop_cnt' = loop_cnt + 1
        /\ temp_buf' = [temp_buf EXCEPT ![c] = 0]
        /\ send_bytes_sum' = send_bytes_sum + MSG_LEN
        /\ start_write_tick' = [start_write_tick EXCEPT ![c] = msg_cnt'[c] + 1]
    BY <1>3, MessageEffect
  <2>3. start_write_tick' = [start_write_tick EXCEPT ![c] = start_write_tick[c] + 1]
    BY <1>0, <2>2
  <2>4. ASSUME NEW d \in Conns
        PROVE  /\ msg_cnt'[d] <= start_write_tick'[d]
               /\ cli_link'[d] \in {"none", "connecting"} => start_write_tick'[d] = 0
    BY <1>0, <2>2 DEF SentInv
  <2>5. SentInv'
    BY <2>2, <2>3, <2>4, SentStep
  <2>6. /\ Collected[c] = temp_buf[c] /\ Collected'[c] = 0
        /\ \A d \in Conns : d # c => Collected'[d] = Collected[d]
    BY <1>0, <2>2 DEF Collected
  <2>7. ClosedInOrder' => ClosedInOrder
    BY <1>0, <2>2 DEF ClosedInOrder
  <2>8. recv_bytes_sum' = recv_bytes_sum + MSG_LEN + (Collected'[c] - Collected[c])
    BY <1>0, <2>1, <2>6, ConstantsOK
  <2> QED
    BY <2>2, <2>5, <2>6, <2>7, <2>8, ReceivedStep
<1>4. ASSUME NEW mode \in CLOSE_MODES, CliOnReadReborn(c, mode)
      PROVE  SentInv' /\ ReceivedInv'
  <2>1. PICK next \in Conns :
            /\ next # c /\ cli_link[next] = "none"
            /\ cli_link' = [cli_link EXCEPT ![c] = ClosedLink(mode),
                                            ![next] = "connecting"]
            /\ temp_buf' = [temp_buf EXCEPT ![c] = ClosedBuf(mode),
                                            ![next] = EchoSize(c)]
    BY <1>4, RebornEffect
  <2>2. \A d \in Conns \ {c} :
            \/ cli_link'[d] = cli_link[d] /\ temp_buf'[d] = temp_buf[d]
            \/ cli_link[d] = "none" /\ cli_link'[d] = "connecting"
    BY <1>0, <2>1
  <2>3. ClosesAfterLast(c, mode)
    BY <1>4, RebornEffect
  <2> QED
    BY <2>2, <2>3, SumsClientFinishes
<1>5. ASSUME NEW mode \in CLOSE_MODES, CliOnReadLast(c, mode)
      PROVE  SentInv' /\ ReceivedInv'
  <2>1. /\ ClosesAfterLast(c, mode)
        /\ cli_link' = [cli_link EXCEPT ![c] = ClosedLink(mode)]
        /\ temp_buf' = [temp_buf EXCEPT ![c] = ClosedBuf(mode)]
    BY <1>5, LastEffect
  <2>2. \A d \in Conns \ {c} :
            cli_link'[d] = cli_link[d] /\ temp_buf'[d] = temp_buf[d]
    BY <1>0, <2>1
  <2> QED
    BY <2>1, <2>2, SumsClientFinishes
<1>6. CASE CliOnOpenAborts(c) \/ CliOnReadAborts(c) \/ CliRebornAborts(c)
  BY <1>6, SumsFrame
  DEF CliOnOpenAborts, CliOnReadAborts, CliRebornAborts, Abort, ctxVars, sumVars
<1>7. CASE CliOnClose(c)
  BY <1>7, SumsCliOnClose
<1> QED
  BY <1>1, <1>2, <1>3, <1>4, <1>5, <1>6, <1>7 DEF CliStep

\* A row is written when everything is measured, from the sums as they are then.
LEMMA RowStep ==
    ASSUME IInv, IInv', RunInv', SentInv', ReceivedInv', RowInv,
           EndsInOrder' => EndsInOrder, NEW times \in Nat, EndClient(times)
    PROVE  RowInv'
<1> SUFFICES ASSUME EndsInOrder', end_calls' > 0
             PROVE  /\ row'.hist = Conns \X Messages
                    /\ row'.sent = MSG_LEN * TOTAL_MSG_CNT
                    /\ row'.received = MSG_LEN * TOTAL_MSG_CNT
  BY DEF RowInv
<1>1. CASE end_calls > 0
  BY <1>1 DEF RowInv, EndClient
<1>2. CASE ~(end_calls > 0)
  <2>1. times > 0 /\ end_calls = 0
    BY <1>2 DEF EndClient, IInv, TypeOK, CliTypeOK
  <2>2. /\ row'.hist = rtt_hist'
        /\ row'.sent = send_bytes_sum'
        /\ row'.received = recv_bytes_sum'
    BY <2>1 DEF EndClient
  <2>3. \A c \in Conns : msg_cnt'[c] = MSG_LIMIT_PER_CLIENT
    BY DEF RunInv, Ended, Complete
  <2>4. /\ msg_cnt' \in [Conns -> 0..MSG_LIMIT_PER_CLIENT]
        /\ start_write_tick' \in [Conns -> 0..MSG_LIMIT_PER_CLIENT]
        /\ rtt_hist' = {s \in Conns \X Messages : s[2] <= msg_cnt'[s[1]]}
        /\ loop_cnt' = Cardinality(rtt_hist')
    BY DEF IInv, TypeOK, CliTypeOK, SamplesAreRoundTrips
  <2>5. rtt_hist' = Conns \X Messages /\ loop_cnt' = TOTAL_MSG_CNT
    BY <2>3, <2>4, MeasuredAll
  <2>6. send_bytes_sum' = MSG_LEN * TOTAL_MSG_CNT
    <3>1. \A c \in Conns : start_write_tick'[c] = MSG_LIMIT_PER_CLIENT
      BY <2>3, <2>4, ConstantsOK DEF SentInv
    <3>2. SumOver(start_write_tick', Conns)
            = Cardinality(Conns) * MSG_LIMIT_PER_CLIENT
      BY <3>1, ConnsAreFinite, ConstantsOK, SumOfConstant
    <3>3. IsFiniteSet(Messages) /\ Cardinality(Messages) = MSG_LIMIT_PER_CLIENT
      BY IntervalCount, ConstantsOK DEF Messages
    <3>4. Cardinality(Conns) * MSG_LIMIT_PER_CLIENT = TOTAL_MSG_CNT
      BY <3>3, ConnsAreFinite, FS_Product, TotalIsAll
    <3> QED
      BY <3>2, <3>4 DEF SentInv
  <2>7. recv_bytes_sum' = MSG_LEN * TOTAL_MSG_CNT
    <3>1. ASSUME NEW c \in Conns PROVE cli_link'[c] # "open"
      <4>1. CliCtx(c)' /\ msg_cnt'[c] = MSG_LIMIT_PER_CLIENT
        BY <2>3 DEF IInv, ConnInv, ConnOK
      <4>2. cli_link'[c] = "open" => msg_cnt'[c] < MSG_LIMIT_PER_CLIENT
        BY <4>1 DEF CliCtx
      <4> QED
        BY <4>1, <4>2, ConstantsOK
    <3>2. \A c \in Conns : Collected'[c] = 0
      BY <3>1 DEF Collected
    <3>3. SumOver(Collected', Conns) = Cardinality(Conns) * 0
      BY <3>2, ConnsAreFinite, SumOfConstant
    <3>4. SumOver(Collected', Conns) = 0
      BY <3>3, ConnsAreFinite, FS_CardinalityType
    <3>5. MSG_LEN * TOTAL_MSG_CNT \in Nat
      BY ConstantsOK, TotalIsNat
    <3> QED
      BY <2>3, <2>5, <3>4, <3>5 DEF ReceivedInv, ClosedInOrder
  <2> QED
    BY <2>2, <2>5, <2>6, <2>7
<1> QED
  BY <1>1, <1>2

\* Every step of a run keeps the client's byte counters right.
LEMMA SumsNext == IInv /\ IInv' /\ SentInv /\ ReceivedInv /\ [Next]_vars
                    => SentInv' /\ ReceivedInv'
<1> SUFFICES ASSUME IInv, IInv', SentInv, ReceivedInv, [Next]_vars
             PROVE  SentInv' /\ ReceivedInv'
  OBVIOUS
<1>1. ASSUME NEW c \in Conns, ClientStep(c) PROVE SentInv' /\ ReceivedInv'
  BY <1>1, SumsClient
<1>2. ASSUME NEW c \in Conns, ServerStep(c) PROVE SentInv' /\ ReceivedInv'
  <2>1. cli_link' = cli_link
    BY <1>2
    DEF ServerStep, SrvStep, SrvOnNewConnection, SrvOnReadPiece, SrvOnReadMessage,
        SrvAbort, SrvOnClose
  <2> QED
    BY <1>2, <2>1, SumsFrame DEF ServerStep, cliVars, ctxVars, sumVars
<1>3. ASSUME NEW c \in Conns, LinkFails(c) PROVE SentInv' /\ ReceivedInv'
  BY <1>3, SumsFrame DEF LinkFails, BreakLink, cliVars, ctxVars, sumVars
<1>4. CASE ClientExit
  BY <1>4, SumsFrame DEF ClientExit, CliLoopExit, ctxVars, sumVars
<1>5. CASE UNCHANGED vars
  BY <1>5, SumsFrame DEF vars, wireVars, cliVars, ctxVars, sumVars
<1> QED
  BY <1>1, <1>2, <1>3, <1>4, <1>5 DEF Next, Terminated

\* Steps that write no row.
LEMMA RowFrame ==
    ASSUME RowInv, EndsInOrder' => EndsInOrder, UNCHANGED <<row, end_calls>>
    PROVE  RowInv'
BY DEF RowInv

\* Faults only become more.
LEMMA EndsInOrderBefore == IInv /\ IInv' /\ [Next]_vars => (EndsInOrder' => EndsInOrder)
<1> SUFFICES ASSUME IInv, [Next]_vars, faults' = 0 PROVE faults = 0
  BY DEF EndsInOrder
<1>1. faults' = faults \/ faults' = faults + 1
  BY ZenonT(30)
     DEF Next, ClientStep, ServerStep, LinkFails, ClientExit, Terminated, vars,
         wireVars, BreakLink, CliLoopExit, CliStep, CliOnOpen, CliOnOpenAborts,
         CliOnReadPiece, CliOnReadMessage, CliOnReadReborn, CliOnReadLast,
         CliOnReadAborts, CliRebornAborts, CliOnClose, SrvStep,
         SrvOnNewConnection, SrvOnReadPiece, SrvOnReadMessage, SrvAbort,
         SrvOnClose
<1> QED
  BY <1>1 DEF IInv, TypeOK, WireTypeOK

\* Every step of a run keeps the row right.
LEMMA RowNext == IInv /\ IInv' /\ RunInv' /\ SentInv' /\ ReceivedInv' /\ RowInv
                   /\ [Next]_vars => RowInv'
<1> SUFFICES ASSUME IInv, IInv', RunInv', SentInv', ReceivedInv', RowInv, [Next]_vars
             PROVE  RowInv'
  OBVIOUS
<1>1. EndsInOrder' => EndsInOrder
  BY EndsInOrderBefore
<1>2. ASSUME NEW c \in Conns, ClientStep(c) PROVE RowInv'
  <2> USE DEF ClientStep
  <2>1. CASE CliOnReadMessage(c)
    BY <1>1, <1>2, <2>1, MessageEffect, RowFrame DEF endVars
  <2>2. ASSUME NEW mode \in CLOSE_MODES, CliOnReadReborn(c, mode) PROVE RowInv'
    <3>1. EndClient(EndsInClose(mode)) /\ EndsInClose(mode) \in Nat
      BY <2>2 DEF CliOnReadReborn, EndsInClose, EndAtClose
    <3> QED
      BY <1>1, <3>1, RowStep
  <2>3. ASSUME NEW mode \in CLOSE_MODES, CliOnReadLast(c, mode) PROVE RowInv'
    <3> DEFINE times ==
                 EndsInClose(mode) + (IF SocketCount(cli_link') = 0 THEN 1 ELSE 0)
    <3>1. EndClient(times) /\ times \in Nat
      BY <2>3 DEF CliOnReadLast, EndsInClose, EndAtClose
    <3> HIDE DEF times
    <3> QED
      BY <1>1, <3>1, RowStep
  <2>4. CASE CliOnClose(c)
    <3>1. EndClient(EndAtClose(loop_cnt)) /\ EndAtClose(loop_cnt) \in Nat
      BY <2>4 DEF CliOnClose, EndAtClose
    <3> QED
      BY <1>1, <3>1, RowStep
  <2>5. CASE \/ CliOnOpen(c) \/ CliOnOpenAborts(c)
             \/ \E n \in 1..MSG_LEN : CliOnReadPiece(c, n)
             \/ CliOnReadAborts(c) \/ CliRebornAborts(c)
    BY <1>1, <2>5, RowFrame
    DEF CliOnOpen, CliOnOpenAborts, CliOnReadPiece, CliOnReadAborts,
        CliRebornAborts, Abort, endVars
  <2> QED
    BY <1>2, <2>1, <2>2, <2>3, <2>4, <2>5 DEF CliStep
<1>3. ASSUME NEW c \in Conns, ServerStep(c) \/ LinkFails(c) PROVE RowInv'
  BY <1>1, <1>3, RowFrame DEF ServerStep, LinkFails, cliVars, endVars
<1>4. CASE ClientExit
  BY <1>1, <1>4, RowFrame DEF ClientExit, CliLoopExit
<1>5. CASE UNCHANGED vars
  BY <1>1, <1>5, RowFrame DEF vars, cliVars, endVars
<1> QED
  BY <1>2, <1>3, <1>4, <1>5 DEF Next, Terminated

\* Nothing is counted before the loop runs.
LEMMA SumsInit == Init => SentInv /\ ReceivedInv /\ RowInv
<1> SUFFICES ASSUME Init PROVE SentInv /\ ReceivedInv /\ RowInv
  OBVIOUS
<1> USE DEF Init, CliInit
<1>1. Cardinality(Conns) * 0 = 0
  BY ConnsAreFinite, FS_CardinalityType
<1>2. SumOver(start_write_tick, Conns) = 0
  <2>1. \A c \in Conns : start_write_tick[c] = 0
    OBVIOUS
  <2> QED
    BY <1>1, <2>1, ConnsAreFinite, SumOfConstant
<1>3. SumOver(Collected, Conns) = 0
  <2>1. \A c \in Conns : Collected[c] = 0
    BY DEF Collected
  <2> QED
    BY <1>1, <2>1, ConnsAreFinite, SumOfConstant
<1>4. MSG_LEN * 0 = 0
  BY ConstantsOK
<1> QED
  BY <1>2, <1>3, <1>4 DEF SentInv, ReceivedInv, RowInv

\* EndClient is called when everything is measured or when no socket is left: in
\* both cases no connection is at work any more.
LEMMA EndSettles ==
    ASSUME IInv',
           loop_cnt' >= TOTAL_MSG_CNT \/ SocketCount(cli_link') = 0
    PROVE  \A c \in Conns : cli_link'[c] \notin {"connecting", "open"}
<1>1. CASE loop_cnt' >= TOTAL_MSG_CNT
  <2>1. \A c \in Conns : msg_cnt'[c] = MSG_LIMIT_PER_CLIENT
    <3>1. msg_cnt' \in [Conns -> 0..MSG_LIMIT_PER_CLIENT]
      BY DEF IInv, TypeOK, CliTypeOK
    <3> QED
      BY <1>1, <3>1, MeasuredAll DEF IInv, SamplesAreRoundTrips
  <2>2. \A c \in Conns : CliCtx(c)'
    BY DEF IInv, ConnInv, ConnOK
  <2> QED
    BY <2>1, <2>2, ConstantsOK DEF CliCtx
<1>2. CASE SocketCount(cli_link') = 0
  <2> DEFINE sockets ==
        {c \in Conns : cli_link'[c] \in {"connecting", "open", "closing"}}
  <2>1. IsFiniteSet(sockets)
    BY ConnsAreFinite, FS_Subset
  <2>2. sockets = {}
    BY <1>2, <2>1, FS_EmptySet DEF SocketCount
  <2> QED
    BY <2>2
<1> QED
  BY <1>1, <1>2

\* The last echo of a connection.
LEMMA SettledFinishes ==
    ASSUME IInv, IInv', Settled, NEW c \in Conns, NEW mode \in CLOSE_MODES,
           CliOnReadReborn(c, mode) \/ CliOnReadLast(c, mode)
    PROVE  Settled' /\ end_calls = 0
<1>1. end_calls = 0
  BY DEF Settled, CliOnReadReborn, CliOnReadLast, CliReadable, IInv, TypeOK, CliTypeOK
<1>2. end_calls' # 0 => loop_cnt' >= TOTAL_MSG_CNT \/ SocketCount(cli_link') = 0
  <2>1. CASE CliOnReadReborn(c, mode)
    BY <1>1, <2>1 DEF CliOnReadReborn, EndClient, EndsInClose, EndAtClose
  <2>2. CASE CliOnReadLast(c, mode)
    <3>1. SUFFICES ASSUME ~(loop_cnt' >= TOTAL_MSG_CNT), SocketCount(cli_link') # 0
                   PROVE  end_calls' = 0
      OBVIOUS
    <3>2. end_calls' = end_calls + (EndsInClose(mode) + 0)
      BY <2>2, <3>1 DEF CliOnReadLast, EndClient
    <3>3. EndsInClose(mode) = 0
      BY <3>1 DEF EndsInClose, EndAtClose
    <3> QED
      BY <1>1, <3>2, <3>3
  <2> QED
    BY <2>1, <2>2
<1> QED
  BY <1>1, <1>2, EndSettles DEF Settled

\* A callback of the client: the sums change only while the run has not ended.
LEMMA SettledClient ==
    ASSUME IInv, IInv', Settled, NEW c \in Conns, CliStep(c)
    PROVE  Settled' /\ (end_calls > 0 => UNCHANGED sumVars)
<1>0. end_calls \in Nat
  BY DEF IInv, TypeOK, CliTypeOK
<1>1. CASE CliOnOpen(c) \/ \E n \in 1..MSG_LEN : CliOnReadPiece(c, n)
  <2>1. end_calls = 0 /\ UNCHANGED end_calls
    BY <1>0, <1>1
    DEF Settled, CliOnOpen, CliOnReadPiece, CliReadable, endVars
  <2> QED
    BY <2>1 DEF Settled
<1>2. CASE CliOnReadMessage(c)
  BY <1>0, <1>2, MessageEffect DEF Settled, endVars
<1>3. ASSUME NEW mode \in CLOSE_MODES,
             CliOnReadReborn(c, mode) \/ CliOnReadLast(c, mode)
      PROVE  Settled' /\ end_calls = 0
  BY <1>3, SettledFinishes
<1>4. CASE CliOnOpenAborts(c) \/ CliOnReadAborts(c) \/ CliRebornAborts(c)
  BY <1>4 DEF CliOnOpenAborts, CliOnReadAborts, CliRebornAborts, Abort, Settled
<1>5. CASE CliOnClose(c)
  <2>1. /\ cli_link' = [cli_link EXCEPT ![c] = "closed"]
        /\ UNCHANGED sumVars
        /\ EndClient(EndAtClose(loop_cnt))
    BY <1>5 DEF CliOnClose
  <2>2. CASE loop_cnt >= TOTAL_MSG_CNT
    <3>1. loop_cnt' >= TOTAL_MSG_CNT /\ EndClient(1)
      BY <2>1, <2>2 DEF EndAtClose, sumVars
    <3> QED
      BY <2>1, <3>1, EndSettles DEF Settled
  <2>3. CASE ~(loop_cnt >= TOTAL_MSG_CNT)
    <3>1. end_calls' = end_calls
      BY <1>0, <2>1, <2>3 DEF EndAtClose, EndClient
    <3>2. cli_link \in [Conns -> CliLinks]
      BY DEF IInv, TypeOK, WireTypeOK
    <3> QED
      BY <2>1, <3>1, <3>2 DEF Settled
  <2> QED
    BY <2>2, <2>3
<1> QED
  BY <1>0, <1>1, <1>2, <1>3, <1>4, <1>5 DEF CliStep

\* Every step keeps a run that has ended at rest, and its figures with it.
LEMMA SettledNext ==
    ASSUME IInv, IInv', Settled, [Next]_vars
    PROVE  Settled' /\ (end_calls > 0 => UNCHANGED sumVars)
<1>1. ASSUME NEW c \in Conns, ClientStep(c)
      PROVE  Settled' /\ (end_calls > 0 => UNCHANGED sumVars)
  BY <1>1, SettledClient DEF ClientStep
<1>2. ASSUME NEW c \in Conns, ServerStep(c) PROVE UNCHANGED <<cli_link, cliVars>>
  BY <1>2
  DEF ServerStep, SrvStep, SrvOnNewConnection, SrvOnReadPiece, SrvOnReadMessage,
      SrvAbort, SrvOnClose
<1>3. CASE \/ \E c \in Conns : ServerStep(c) \/ LinkFails(c)
           \/ UNCHANGED vars
  <2>1. UNCHANGED <<cli_link, cliVars>>
    BY <1>2, <1>3 DEF LinkFails, BreakLink, vars, wireVars
  <2> QED
    BY <2>1 DEF Settled, cliVars, endVars
<1>4. CASE ClientExit
  BY <1>4 DEF ClientExit, CliLoopExit, Settled
<1> QED
  BY <1>1, <1>3, <1>4 DEF Next, Terminated

\* All that is invariant of a run.
THEOREM BenchInvariance == Spec => []BenchInv
<1>1. Init => BenchInv
  <2>1. Init => Settled
    BY DEF Init, CliInit, Settled
  <2> QED
    BY <2>1, InitIInv, RunInit, SumsInit DEF BenchInv
<1>2. BenchInv /\ [Next]_vars => BenchInv'
  <2> SUFFICES ASSUME BenchInv, [Next]_vars PROVE BenchInv'
    OBVIOUS
  <2>1. IInv /\ IInv' /\ RunInv'
    BY NextIInv, RunNext DEF BenchInv
  <2>2. SentInv' /\ ReceivedInv'
    BY <2>1, SumsNext DEF BenchInv
  <2>3. Settled'
    BY <2>1, SettledNext DEF BenchInv
  <2> QED
    BY <2>1, <2>2, <2>3, RowNext DEF BenchInv
<1> QED
  BY <1>1, <1>2, PTL DEF Spec

\* A row of results is written only for a complete run, with every sample of every
\* life of every client in it and all bytes both ways - if no on_close runs inside
\* Close, or if no fault can happen.  (With both a client that a fault has stopped is
\* missing from the row of the others.)
THEOREM RowComplete ==
    ASSUME CLOSE_MODES = {"deferred"} \/ MAX_FAULTS = 0
    PROVE  Spec => []RowIsComplete
<1>1. BenchInv => RowIsComplete
  <2> SUFFICES ASSUME BenchInv, end_calls > 0
               PROVE  /\ row.hist = Conns \X Messages
                      /\ row.sent = TOTAL_MSG_CNT * MSG_LEN
                      /\ row.received = row.sent
    BY DEF RowIsComplete
  <2>1. EndsInOrder
    BY DEF EndsInOrder, BenchInv, IInv, TypeOK, WireTypeOK
  <2>2. MSG_LEN * TOTAL_MSG_CNT = TOTAL_MSG_CNT * MSG_LEN
    BY ConstantsOK, TotalIsNat
  <2> QED
    BY <2>1, <2>2 DEF BenchInv, RowInv
<1> QED
  BY <1>1, BenchInvariance, PTL

\* The figures are final once EndClient has been called, by a complete run or not,
\* in whatever order the library delivers what is left: a second EndClient, which
\* nothing prevents, has nothing else to report.
THEOREM ReportFinal == Spec => ReportIsFinal
<1>1. BenchInv /\ BenchInv' /\ [Next]_vars
        => [end_calls > 0 => UNCHANGED sumVars]_vars
  BY SettledNext DEF BenchInv
<1> QED
  BY <1>1, BenchInvariance, PTL DEF Spec, ReportIsFinal

-----------------------------------------------------------------------------
\* The refinement of BenchmarkRun.  A measured round trip is the next one of its
\* life, after all those of the lives before it, and before the report.
LEMMA MeasureRefines ==
    ASSUME BenchInv, BenchInv', EndsInOrder, faults' = faults, NEW c \in Conns,
           cli_link[c] = "open", msg_cnt[c] + 1 \in Messages,
           rtt_hist' = rtt_hist \cup {<<c, msg_cnt[c] + 1>>}
    PROVE  Results!Measure(c, msg_cnt[c] + 1)
<1> USE DEF BenchInv
<1>1. EndsInOrder'
  BY DEF EndsInOrder
<1>2. ~Complete
  BY CompleteIsQuiet
<1>3. ~(end_calls > 0)
  BY <1>2 DEF RunInv, Ended
<1>4. /\ rtt_hist = {s \in Conns \X Messages : s[2] <= msg_cnt[s[1]]}
      /\ msg_cnt \in [Conns -> 0..MSG_LIMIT_PER_CLIENT]
  BY DEF IInv, SamplesAreRoundTrips, TypeOK, CliTypeOK
<1>5. \A j \in Messages : <<c, j>> \in rtt_hist <=> j < msg_cnt[c] + 1
  BY <1>4 DEF Messages
<1>6. ASSUME NEW d \in Conns, d[1] = c[1], d[2] < c[2], NEW j \in Messages
      PROVE  <<d, j>> \in rtt_hist
  <2>1. msg_cnt[d] = MSG_LIMIT_PER_CLIENT
    BY <1>6 DEF IInv, OneLifeAtATime
  <2> QED
    BY <1>4, <2>1, ConstantsOK DEF Messages
<1>7. Results!Earlier(c) \X Messages \subseteq rtt_hist
  BY <1>6 DEF Results!Earlier
<1>8. end_calls' > 0 => rtt_hist' = Conns \X Messages
  <2>1. /\ msg_cnt' \in [Conns -> 0..MSG_LIMIT_PER_CLIENT]
        /\ rtt_hist' = {s \in Conns \X Messages : s[2] <= msg_cnt'[s[1]]}
    BY DEF IInv, SamplesAreRoundTrips, TypeOK, CliTypeOK
  <2> QED
    BY <1>1, <2>1, MeasuredAll DEF RunInv, Ended, Complete
<1>9. (end_calls' > 0) \in {FALSE, rtt_hist' = Conns \X Messages}
  <2>1. CASE end_calls' > 0
    <3>1. (end_calls' > 0) = TRUE /\ (rtt_hist' = Conns \X Messages) = TRUE
      BY <1>8, <2>1
    <3> QED
      BY <3>1
  <2>2. CASE ~(end_calls' > 0)
    <3>1. (end_calls' > 0) = FALSE
      BY <2>2
    <3> QED
      BY <3>1
  <2> QED
    BY <2>1, <2>2
<1>10. (faults' > 0) = (faults > 0)
  OBVIOUS
<1> QED
  BY <1>3, <1>5, <1>7, <1>9, <1>10
  DEF Results!Measure, Results!AllSamples, Messages

\* A step of the client's callbacks measures, reports, fails or is not seen.
LEMMA ClientRefines ==
    ASSUME BenchInv, BenchInv', EndsInOrder, EndsInOrder', NEW c \in Conns,
           ClientStep(c)
    PROVE  Results!Progress \/ Results!Fail \/ UNCHANGED Results!vars
<1> USE DEF BenchInv, ClientStep
<1>0. \A i \in Messages : Results!Measure(c, i) => Results!Progress
  BY DEF Results!Progress, Messages
<1>1. CASE CliOnReadMessage(c)
  <2>1. /\ cli_link[c] = "open" /\ msg_cnt[c] \in 0..(MSG_LIMIT_PER_CLIENT - 1)
        /\ rtt_hist' = rtt_hist \cup {<<c, msg_cnt[c] + 1>>}
        /\ faults' = faults
    BY <1>1, MessageEffect
  <2>2. msg_cnt[c] + 1 \in Messages
    BY <2>1, ConstantsOK DEF Messages
  <2> QED
    BY <1>0, <2>1, <2>2, MeasureRefines
<1>2. ASSUME NEW mode \in CLOSE_MODES, ClosesAfterLast(c, mode), faults' = faults
      PROVE  Results!Progress
  <2>1. /\ cli_link[c] = "open" /\ msg_cnt[c] + 1 = MSG_LIMIT_PER_CLIENT
        /\ rtt_hist' = rtt_hist \cup {<<c, msg_cnt[c] + 1>>}
    BY <1>2, ClosedConn
  <2>2. msg_cnt[c] + 1 \in Messages
    BY <2>1, ConstantsOK DEF Messages
  <2> QED
    BY <1>0, <1>2, <2>1, <2>2, MeasureRefines
<1>3. ASSUME NEW mode \in CLOSE_MODES,
             CliOnReadReborn(c, mode) \/ CliOnReadLast(c, mode)
      PROVE  Results!Progress
  BY <1>2, <1>3, RebornEffect, LastEffect
<1>4. CASE CliOnClose(c)
  <2>1. /\ EndClient(EndAtClose(loop_cnt))
        /\ rtt_hist' = rtt_hist /\ loop_cnt' = loop_cnt /\ faults' = faults
    BY <1>4 DEF CliOnClose, sumVars
  <2>2. end_calls \in Nat
    BY DEF IInv, TypeOK, CliTypeOK
  <2>3. CASE loop_cnt >= TOTAL_MSG_CNT /\ end_calls = 0
    <3>1. rtt_hist = Conns \X Messages
      BY <2>3, AllMeasured
    <3>2. ~(end_calls > 0) /\ end_calls' > 0
      BY <2>1, <2>3 DEF EndClient, EndAtClose
    <3>3. (end_calls' > 0) = TRUE
      BY <3>2
    <3> QED
      BY <2>1, <3>1, <3>2, <3>3
      DEF Results!Progress, Results!Report, Results!AllSamples, Messages
  <2>4. CASE ~(loop_cnt >= TOTAL_MSG_CNT /\ end_calls = 0)
    <3>1. end_calls' > 0 <=> end_calls > 0
      BY <2>1, <2>2, <2>4 DEF EndClient, EndAtClose
    <3> QED
      BY <2>1, <3>1 DEF Results!vars
  <2> QED
    BY <2>3, <2>4
<1>5. CASE CliRebornAborts(c)
  <2>1. UNCHANGED <<rtt_hist, end_calls>> /\ faults' > 0
    BY <1>5 DEF CliRebornAborts, Abort, sumVars, IInv, TypeOK, WireTypeOK
  <2> QED
    BY <2>1 DEF Results!Fail
<1>6. CASE \/ CliOnOpen(c) \/ CliOnOpenAborts(c)
           \/ \E n \in 1..MSG_LEN : CliOnReadPiece(c, n)
           \/ CliOnReadAborts(c)
  <2>1. UNCHANGED <<rtt_hist, end_calls, faults>>
    BY <1>6
    DEF CliOnOpen, CliOnOpenAborts, CliOnReadPiece, CliOnReadAborts, Abort,
        sumVars, endVars
  <2> QED
    BY <2>1 DEF Results!vars
<1> QED
  BY <1>1, <1>3, <1>4, <1>5, <1>6 DEF CliStep

\* A run implements BenchmarkRun: no life is measured out of order, and nothing is
\* reported before everything is measured, whatever links and calls fail - under
\* the condition of RowComplete.
THEOREM RunImplementsBenchmark ==
    ASSUME CLOSE_MODES = {"deferred"} \/ MAX_FAULTS = 0
    PROVE  Spec => ImplementsRun
<1>1. BenchInv => EndsInOrder
  BY DEF EndsInOrder, BenchInv, IInv, TypeOK, WireTypeOK
<1>2. Init => Results!Init
  BY DEF Init, CliInit, Results!Init
<1>3. BenchInv /\ BenchInv' /\ EndsInOrder /\ EndsInOrder' /\ [Next]_vars
        => [Results!Progress \/ Results!Fail]_(Results!vars)
  <2> SUFFICES ASSUME BenchInv, BenchInv', EndsInOrder, EndsInOrder', [Next]_vars
               PROVE  Results!Progress \/ Results!Fail \/ UNCHANGED Results!vars
    OBVIOUS
  <2>1. ASSUME NEW c \in Conns, ClientStep(c)
        PROVE  Results!Progress \/ Results!Fail \/ UNCHANGED Results!vars
    BY <2>1, ClientRefines
  <2>2. ASSUME NEW c \in Conns, ServerStep(c) PROVE UNCHANGED Results!vars
    BY <2>2
    DEF ServerStep, SrvStep, SrvOnNewConnection, SrvOnReadPiece, SrvOnReadMessage,
        SrvAbort, SrvOnClose, cliVars, sumVars, endVars, Results!vars
  <2>3. ASSUME NEW c \in Conns, LinkFails(c) PROVE Results!Fail
    BY <2>3
    DEF LinkFails, BreakLink, cliVars, sumVars, endVars, Results!Fail, BenchInv,
        IInv, TypeOK, WireTypeOK
  <2>4. CASE ClientExit
    BY <2>4 DEF ClientExit, CliLoopExit, sumVars, Results!vars
  <2>5. CASE UNCHANGED vars
    BY <2>5 DEF vars, wireVars, cliVars, sumVars, endVars, Results!vars
  <2> QED
    BY <2>1, <2>2, <2>3, <2>4, <2>5 DEF Next, Terminated
<1> QED
  BY <1>1, <1>2, <1>3, BenchInvariance, PTL DEF Spec, ImplementsRun, Results!Spec

-----------------------------------------------------------------------------
\* The ledger of bytes.  A sum over the connections changes with one of its terms.
LEMMA ConnsChange ==
    ASSUME NEW old \in [Conns -> Nat], NEW new \in [Conns -> Nat], NEW c \in Conns,
           \A d \in Conns : d # c => new[d] = old[d]
    PROVE  /\ SumOver(new, Conns) = SumOver(old, Conns) - old[c] + new[c]
           /\ SumOver(old, Conns) \in Nat
BY ConnsAreFinite, SumChange

\* When one connection's frames change, the bytes under way change by as much.
LEMMA UnderWay ==
    ASSUME NEW before \in [Conns -> Seq(Nat)], NEW after \in [Conns -> Seq(Nat)],
           NEW c \in Conns, \A d \in Conns : d # c => after[d] = before[d]
    PROVE  /\ BytesUnderWay(after)
                = BytesUnderWay(before) - SumSeq(before[c]) + SumSeq(after[c])
           /\ BytesUnderWay(before) \in Nat
<1> DEFINE old == [d \in Conns |-> SumSeq(before[d])]
           new == [d \in Conns |-> SumSeq(after[d])]
<1>1. old[c] = SumSeq(before[c]) /\ new[c] = SumSeq(after[c])
  OBVIOUS
<1>2. \A d \in Conns : d # c => new[d] = old[d]
  OBVIOUS
<1>3. old \in [Conns -> Nat] /\ new \in [Conns -> Nat]
  <2>1. \A seq \in Seq(Nat) : SumSeq(seq) \in Nat
    BY SumSeqType
  <2> QED
    BY <2>1
<1>4. BytesUnderWay(after) = SumOver(new, Conns)
      /\ BytesUnderWay(before) = SumOver(old, Conns)
  BY DEF BytesUnderWay
<1> HIDE DEF old, new
<1>5. SumOver(new, Conns) = SumOver(old, Conns) - old[c] + new[c]
      /\ SumOver(old, Conns) \in Nat
  BY <1>2, <1>3, ConnsChange
<1> QED
  BY <1>1, <1>4, <1>5

\* Nothing is under way on channels without frames.
LEMMA NothingUnderWay ==
    ASSUME NEW channel \in [Conns -> Seq(Nat)], \A c \in Conns : channel[c] = <<>>
    PROVE  BytesUnderWay(channel) = 0
<1> DEFINE f == [c \in Conns |-> SumSeq(channel[c])]
<1>1. \A c \in Conns : f[c] = 0
  BY SumOfFrames
<1>2. SumOver(f, Conns) = Cardinality(Conns) * 0
  BY <1>1, ConnsAreFinite, SumOfConstant
<1> QED
  BY <1>2, ConnsAreFinite, FS_CardinalityType DEF BytesUnderWay

\* What the two equations of the ledger come to.
SentBytes == send_bytes_sum = rows.recv_bytes + stats.recv_bytes + BytesUnderWay(c2s)
EchoedBytes ==
    recv_bytes_sum = rows.send_bytes + stats.send_bytes - BytesUnderWay(s2c)

\* The types the ledger's arithmetic needs.
LEMMA LedgerTypes ==
    ASSUME TypeOK
    PROVE  /\ c2s \in [Conns -> Seq(Nat)] /\ s2c \in [Conns -> Seq(Nat)]
           /\ stats \in Counters /\ rows \in Counters
           /\ stats.recv_bytes \in Nat /\ stats.send_bytes \in Nat
           /\ rows.recv_bytes \in Nat /\ rows.send_bytes \in Nat
           /\ send_bytes_sum \in Nat /\ recv_bytes_sum \in Nat
BY DEF TypeOK, WireTypeOK, SrvTypeOK, CliTypeOK, Counters

\* The server's callbacks keep both equations.
LEMMA LedgerServer ==
    ASSUME IInv, SentBytes, EchoedBytes, NEW c \in Conns, ServerStep(c)
    PROVE  SentBytes' /\ EchoedBytes'
<1> USE DEF ServerStep
<1>1. UNCHANGED <<send_bytes_sum, recv_bytes_sum>>
  BY DEF cliVars, sumVars
<1>2. TypeOK /\ ConnInv
  BY DEF IInv
<1>0. /\ c2s \in [Conns -> Seq(Nat)] /\ s2c \in [Conns -> Seq(Nat)]
      /\ stats.recv_bytes \in Nat /\ stats.send_bytes \in Nat
      /\ rows.recv_bytes \in Nat /\ rows.send_bytes \in Nat
      /\ send_bytes_sum \in Nat /\ recv_bytes_sum \in Nat
  BY <1>2, LedgerTypes
<1>3. ASSUME NEW n \in 1..SRV_MAX_LEN, SrvOnReadPiece(c, n)
      PROVE  SentBytes' /\ EchoedBytes'
  <2>1. PICK left \in 1..MSG_LEN : c2s[c] = <<left>> /\ n \in 1..left
    BY <1>2, <1>3, ServerReads DEF SrvOnReadPiece, ConnInv
  <2>2. left \in Nat /\ n \in Nat /\ left - n \in Nat /\ n # left
    BY <1>3, <2>1, OneFrame, ConstantsOK DEF SrvOnReadPiece
  <2>3. c2s' = [c2s EXCEPT ![c] = <<left - n>>]
    BY <1>3, <2>1, <2>2, OneFrame DEF SrvOnReadPiece, Take
  <2>4. /\ BytesUnderWay(c2s') = BytesUnderWay(c2s) - left + (left - n)
        /\ BytesUnderWay(c2s) \in Nat
    <3>1. <<left - n>> \in Seq(Nat)
      BY <2>2
    <3>2. /\ c2s' \in [Conns -> Seq(Nat)]
          /\ \A d \in Conns : d # c => c2s'[d] = c2s[d]
          /\ SumSeq(c2s[c]) = left /\ SumSeq(c2s'[c]) = left - n
      BY <1>0, <2>1, <2>2, <2>3, <3>1, SumOfFrames
    <3>3. /\ BytesUnderWay(c2s')
               = BytesUnderWay(c2s) - SumSeq(c2s[c]) + SumSeq(c2s'[c])
          /\ BytesUnderWay(c2s) \in Nat
      BY <1>0, <3>2, UnderWay
    <3> QED
      BY <3>2, <3>3
  <2>5. /\ stats'.recv_bytes = stats.recv_bytes + n
        /\ stats'.send_bytes = stats.send_bytes
        /\ rows' = rows /\ s2c' = s2c
    BY <1>2, <1>3, LedgerTypes DEF SrvOnReadPiece, ReceivedBytes, Counters
  <2> QED
    BY <1>0, <1>1, <2>2, <2>4, <2>5, SMTT(30) DEF SentBytes, EchoedBytes
<1>4. CASE SrvOnReadMessage(c)
  <2>1. PICK left \in 1..MSG_LEN :
            c2s[c] = <<left>> /\ s2c[c] = <<>> /\ con_buf[c] = MSG_LEN - left
    BY <1>2, <1>4, ServerReads DEF SrvOnReadMessage, ConnInv
  <2>2. left \in Nat /\ Head(c2s[c]) = left /\ TargetSize(c) = MSG_LEN
        /\ MSG_LEN \in Nat
    BY <2>1, OneFrame, ConstantsOK DEF TargetSize
  <2>3. /\ c2s' = [c2s EXCEPT ![c] = <<>>]
        /\ s2c' = [s2c EXCEPT ![c] = <<MSG_LEN>>]
    BY <1>4, <2>1, <2>2, OneFrame DEF SrvOnReadMessage, Take, Put
  <2>4. /\ BytesUnderWay(c2s') = BytesUnderWay(c2s) - left + 0
        /\ BytesUnderWay(c2s) \in Nat
    <3>1. /\ c2s' \in [Conns -> Seq(Nat)]
          /\ \A d \in Conns : d # c => c2s'[d] = c2s[d]
          /\ SumSeq(c2s[c]) = left /\ SumSeq(c2s'[c]) = 0
      BY <1>0, <2>1, <2>2, <2>3, SumOfFrames
    <3>2. /\ BytesUnderWay(c2s')
               = BytesUnderWay(c2s) - SumSeq(c2s[c]) + SumSeq(c2s'[c])
          /\ BytesUnderWay(c2s) \in Nat
      BY <1>0, <3>1, UnderWay
    <3> QED
      BY <3>1, <3>2
  <2>5. /\ BytesUnderWay(s2c') = BytesUnderWay(s2c) - 0 + MSG_LEN
        /\ BytesUnderWay(s2c) \in Nat
    <3>1. <<MSG_LEN>> \in Seq(Nat)
      BY <2>2
    <3>2. /\ s2c' \in [Conns -> Seq(Nat)]
          /\ \A d \in Conns : d # c => s2c'[d] = s2c[d]
          /\ SumSeq(s2c[c]) = 0 /\ SumSeq(s2c'[c]) = MSG_LEN
      BY <1>0, <2>1, <2>2, <2>3, <3>1, SumOfFrames
    <3>3. /\ BytesUnderWay(s2c')
               = BytesUnderWay(s2c) - SumSeq(s2c[c]) + SumSeq(s2c'[c])
          /\ BytesUnderWay(s2c) \in Nat
      BY <1>0, <3>2, UnderWay
    <3> QED
      BY <3>2, <3>3
  <2> DEFINE received == ReceivedBytes(stats, left)
             counted == EchoedMessage(received, MSG_LEN)
  <2>6. stats' = CountStats(counted) /\ rows' = Exported(rows, counted)
    BY <1>4, <2>2 DEF SrvOnReadMessage
  <2>7. /\ received \in Counters
        /\ received.recv_bytes = stats.recv_bytes + left
        /\ received.send_bytes = stats.send_bytes
    BY <1>2, <2>2, LedgerTypes, CountersOK DEF ReceivedBytes, Counters
  <2>8. /\ counted \in Counters
        /\ counted.recv_bytes = stats.recv_bytes + left
        /\ counted.send_bytes = stats.send_bytes + MSG_LEN
    BY <2>2, <2>7, CountersOK DEF EchoedMessage
  <2> HIDE DEF received, counted
  <2>9. /\ rows'.recv_bytes + stats'.recv_bytes
             = rows.recv_bytes + (stats.recv_bytes + left)
        /\ rows'.send_bytes + stats'.send_bytes
             = rows.send_bytes + (stats.send_bytes + MSG_LEN)
    BY <1>2, <2>6, <2>8, LedgerTypes, RowsKeepTotals
  <2>10. SentBytes'
    BY <1>0, <1>1, <2>2, <2>4, <2>9, SMTT(30) DEF SentBytes
  <2>11. EchoedBytes'
    <3>1. /\ BytesUnderWay(s2c') = BytesUnderWay(s2c) + MSG_LEN
          /\ BytesUnderWay(s2c) \in Nat /\ MSG_LEN \in Nat
          /\ stats.send_bytes \in Nat /\ rows.send_bytes \in Nat
      BY <1>0, <2>2, <2>5
    <3>2. recv_bytes_sum = rows.send_bytes + stats.send_bytes - BytesUnderWay(s2c)
      BY DEF EchoedBytes
    <3>3. stats'.send_bytes \in Nat /\ rows'.send_bytes \in Nat
      <4>1. stats' \in Counters /\ rows' \in Counters
        BY <1>2, <2>6, <2>8, LedgerTypes, CountersOK
      <4> QED
        BY <4>1 DEF Counters
    <3>4. rows'.send_bytes + stats'.send_bytes
            = rows.send_bytes + (stats.send_bytes + MSG_LEN)
      BY <2>9
    <3>5. recv_bytes_sum
            = rows'.send_bytes + stats'.send_bytes - BytesUnderWay(s2c')
      BY <3>1, <3>2, <3>3, <3>4
    <3> QED
      BY <1>1, <3>5 DEF EchoedBytes
  <2> QED
    BY <2>10, <2>11
<1>5. CASE SrvOnClose(c)
  <2>1. UNCHANGED <<stats, rows, s2c>>
    BY <1>5 DEF SrvOnClose
  <2>2. CASE c2s' = c2s
    BY <1>1, <2>1, <2>2 DEF SentBytes, EchoedBytes
  <2>3. CASE c2s' # c2s
    <3>1. c2s[c] # <<>> /\ Head(c2s[c]) = CLOSE /\ c2s' = [c2s EXCEPT ![c] = Tail(@)]
      BY <1>5, <2>3 DEF SrvOnClose
    <3>2. ConnOK(c) /\ ~Request(c)
      BY <1>2, <3>1, OneFrame DEF Request, CLOSE, ConnInv
    <3>3. c2s[c] = <<CLOSE>>
      BY <3>1, <3>2 DEF ConnOK, Phases, Nothing, Echo, Goodbye
    <3>4. c2s' = [c2s EXCEPT ![c] = <<>>]
      BY <3>1, <3>3, OneFrame DEF CLOSE
    <3>5. /\ BytesUnderWay(c2s') = BytesUnderWay(c2s) - 0 + 0
          /\ BytesUnderWay(c2s) \in Nat
      <4>1. /\ c2s' \in [Conns -> Seq(Nat)]
            /\ \A d \in Conns : d # c => c2s'[d] = c2s[d]
            /\ SumSeq(c2s[c]) = 0 /\ SumSeq(c2s'[c]) = 0
        BY <1>0, <3>3, <3>4, SumOfFrames DEF CLOSE
      <4>2. /\ BytesUnderWay(c2s')
                 = BytesUnderWay(c2s) - SumSeq(c2s[c]) + SumSeq(c2s'[c])
            /\ BytesUnderWay(c2s) \in Nat
        BY <1>0, <4>1, UnderWay
      <4> QED
        BY <4>1, <4>2
    <3> QED
      BY <1>1, <2>1, <3>5 DEF SentBytes, EchoedBytes
  <2> QED
    BY <2>2, <2>3
<1>6. CASE SrvOnNewConnection(c) \/ SrvAbort(c)
  BY <1>1, <1>6 DEF SrvOnNewConnection, SrvAbort, SentBytes, EchoedBytes
<1> QED
  BY <1>3, <1>4, <1>5, <1>6 DEF SrvStep

\* And so do the client's.
LEMMA LedgerClient ==
    ASSUME IInv, SentBytes, EchoedBytes, NEW c \in Conns, ClientStep(c)
    PROVE  SentBytes' /\ EchoedBytes'
<1> USE DEF ClientStep
<1>1. UNCHANGED <<stats, rows>>
  BY DEF srvVars
<1>2. TypeOK /\ ConnInv
  BY DEF IInv
<1>0. /\ c2s \in [Conns -> Seq(Nat)] /\ s2c \in [Conns -> Seq(Nat)]
      /\ stats.recv_bytes \in Nat /\ stats.send_bytes \in Nat
      /\ rows.recv_bytes \in Nat /\ rows.send_bytes \in Nat
      /\ send_bytes_sum \in Nat /\ recv_bytes_sum \in Nat
  BY <1>2, LedgerTypes
<1>3. MSG_LEN \in Nat /\ <<MSG_LEN>> \in Seq(Nat) /\ <<CLOSE>> \in Seq(Nat)
  BY ConstantsOK DEF CLOSE
<1>4. CASE CliOnOpen(c)
  <2>1. /\ c2s[c] = <<>> /\ c2s' = [c2s EXCEPT ![c] = <<MSG_LEN>>]
        /\ send_bytes_sum' = send_bytes_sum + MSG_LEN
        /\ UNCHANGED <<s2c, recv_bytes_sum>>
    BY <1>4, OpenEffect DEF Nothing, CliOnOpen
  <2>2. /\ BytesUnderWay(c2s') = BytesUnderWay(c2s) - 0 + MSG_LEN
        /\ BytesUnderWay(c2s) \in Nat
    <3>1. /\ c2s' \in [Conns -> Seq(Nat)]
          /\ \A d \in Conns : d # c => c2s'[d] = c2s[d]
          /\ SumSeq(c2s[c]) = 0 /\ SumSeq(c2s'[c]) = MSG_LEN
      BY <1>0, <1>3, <2>1, SumOfFrames
    <3>2. /\ BytesUnderWay(c2s')
               = BytesUnderWay(c2s) - SumSeq(c2s[c]) + SumSeq(c2s'[c])
          /\ BytesUnderWay(c2s) \in Nat
      BY <1>0, <3>1, UnderWay
    <3> QED
      BY <3>1, <3>2
  <2> QED
    BY <1>0, <1>1, <1>3, <2>1, <2>2, SMTT(30) DEF SentBytes, EchoedBytes
<1>5. ASSUME NEW n \in 1..MSG_LEN, CliOnReadPiece(c, n)
      PROVE  SentBytes' /\ EchoedBytes'
  <2>1. PICK left \in 1..MSG_LEN :
            /\ s2c[c] = <<left>> /\ left - n \in 1..MSG_LEN
            /\ s2c' = [s2c EXCEPT ![c] = <<left - n>>]
    BY <1>5, PieceEffect
  <2>2. left \in Nat /\ n \in Nat /\ left - n \in Nat /\ <<left - n>> \in Seq(Nat)
    BY <1>3, <2>1
  <2>3. /\ BytesUnderWay(s2c') = BytesUnderWay(s2c) - left + (left - n)
        /\ BytesUnderWay(s2c) \in Nat
    <3>1. /\ s2c' \in [Conns -> Seq(Nat)]
          /\ \A d \in Conns : d # c => s2c'[d] = s2c[d]
          /\ SumSeq(s2c[c]) = left /\ SumSeq(s2c'[c]) = left - n
      BY <1>0, <2>1, <2>2, SumOfFrames
    <3>2. /\ BytesUnderWay(s2c')
               = BytesUnderWay(s2c) - SumSeq(s2c[c]) + SumSeq(s2c'[c])
          /\ BytesUnderWay(s2c) \in Nat
      BY <1>0, <3>1, UnderWay
    <3> QED
      BY <3>1, <3>2
  <2>4. recv_bytes_sum' = recv_bytes_sum + n /\ UNCHANGED <<c2s, send_bytes_sum>>
    BY <1>5 DEF CliOnReadPiece
  <2>5. SentBytes'
    BY <1>1, <2>4 DEF SentBytes
  <2>6. EchoedBytes'
    BY <1>0, <1>1, <2>2, <2>3, <2>4, SMTT(30) DEF EchoedBytes
  <2> QED
    BY <2>5, <2>6
<1>6. CASE CliOnReadMessage(c)
  <2>1. /\ c2s[c] = <<>> /\ s2c' = [s2c EXCEPT ![c] = <<>>]
        /\ c2s' = [c2s EXCEPT ![c] = <<MSG_LEN>>]
        /\ send_bytes_sum' = send_bytes_sum + MSG_LEN
    BY <1>6, MessageEffect
  <2>2. PICK left \in 1..MSG_LEN :
            s2c[c] = <<left>> /\ recv_bytes_sum' = recv_bytes_sum + left
    BY <1>6, MessageEffect
  <2>3. /\ BytesUnderWay(c2s') = BytesUnderWay(c2s) - 0 + MSG_LEN
        /\ BytesUnderWay(c2s) \in Nat
    <3>1. /\ c2s' \in [Conns -> Seq(Nat)]
          /\ \A d \in Conns : d # c => c2s'[d] = c2s[d]
          /\ SumSeq(c2s[c]) = 0 /\ SumSeq(c2s'[c]) = MSG_LEN
      BY <1>0, <1>3, <2>1, SumOfFrames
    <3>2. /\ BytesUnderWay(c2s')
               = BytesUnderWay(c2s) - SumSeq(c2s[c]) + SumSeq(c2s'[c])
          /\ BytesUnderWay(c2s) \in Nat
      BY <1>0, <3>1, UnderWay
    <3> QED
      BY <3>1, <3>2
  <2>4. /\ BytesUnderWay(s2c') = BytesUnderWay(s2c) - left + 0
        /\ BytesUnderWay(s2c) \in Nat /\ left \in Nat
    <3>1. /\ s2c' \in [Conns -> Seq(Nat)]
          /\ \A d \in Conns : d # c => s2c'[d] = s2c[d]
          /\ SumSeq(s2c[c]) = left /\ SumSeq(s2c'[c]) = 0
      BY <1>0, <1>3, <2>1, <2>2, SumOfFrames
    <3>2. /\ BytesUnderWay(s2c')
               = BytesUnderWay(s2c) - SumSeq(s2c[c]) + SumSeq(s2c'[c])
          /\ BytesUnderWay(s2c) \in Nat
      BY <1>0, <3>1, UnderWay
    <3> QED
      BY <3>1, <3>2
  <2>5. SentBytes'
    BY <1>0, <1>1, <1>3, <2>1, <2>3 DEF SentBytes
  <2>6. EchoedBytes'
    BY <1>0, <1>1, <1>3, <2>1, <2>2, <2>4, SMTT(30) DEF EchoedBytes
  <2> QED
    BY <2>5, <2>6
<1>7. ASSUME NEW mode \in CLOSE_MODES, ClosesAfterLast(c, mode)
      PROVE  SentBytes' /\ EchoedBytes'
  <2>1. /\ c2s' = [c2s EXCEPT ![c] = <<CLOSE>>] /\ s2c' = [s2c EXCEPT ![c] = <<>>]
        /\ recv_bytes_sum' = recv_bytes_sum + (MSG_LEN - temp_buf[c])
        /\ send_bytes_sum' = send_bytes_sum
    BY <1>7, ClosedConn DEF ClosesAfterLast
  <2>2. PICK left \in 1..MSG_LEN :
            c2s[c] = <<>> /\ s2c[c] = <<left>> /\ temp_buf[c] = MSG_LEN - left
    BY <1>2, <1>7, ClientReads DEF ClosesAfterLast, ConnInv
  <2>3. /\ BytesUnderWay(c2s') = BytesUnderWay(c2s) - 0 + 0
        /\ BytesUnderWay(c2s) \in Nat
    <3>1. /\ c2s' \in [Conns -> Seq(Nat)]
          /\ \A d \in Conns : d # c => c2s'[d] = c2s[d]
          /\ SumSeq(c2s[c]) = 0 /\ SumSeq(c2s'[c]) = 0
      BY <1>0, <1>3, <2>1, <2>2, SumOfFrames DEF CLOSE
    <3>2. /\ BytesUnderWay(c2s')
               = BytesUnderWay(c2s) - SumSeq(c2s[c]) + SumSeq(c2s'[c])
          /\ BytesUnderWay(c2s) \in Nat
      BY <1>0, <3>1, UnderWay
    <3> QED
      BY <3>1, <3>2
  <2>4. /\ BytesUnderWay(s2c') = BytesUnderWay(s2c) - left + 0
        /\ BytesUnderWay(s2c) \in Nat /\ left \in Nat
    <3>1. /\ s2c' \in [Conns -> Seq(Nat)]
          /\ \A d \in Conns : d # c => s2c'[d] = s2c[d]
          /\ SumSeq(s2c[c]) = left /\ SumSeq(s2c'[c]) = 0
      BY <1>0, <1>3, <2>1, <2>2, SumOfFrames
    <3>2. /\ BytesUnderWay(s2c')
               = BytesUnderWay(s2c) - SumSeq(s2c[c]) + SumSeq(s2c'[c])
          /\ BytesUnderWay(s2c) \in Nat
      BY <1>0, <3>1, UnderWay
    <3> QED
      BY <3>1, <3>2
  <2>5. SentBytes'
    BY <1>0, <1>1, <1>3, <2>1, <2>3 DEF SentBytes
  <2>6. EchoedBytes'
    BY <1>0, <1>1, <1>3, <2>1, <2>2, <2>4, SMTT(30) DEF EchoedBytes
  <2> QED
    BY <2>5, <2>6
<1>8. ASSUME NEW mode \in CLOSE_MODES,
             CliOnReadReborn(c, mode) \/ CliOnReadLast(c, mode)
      PROVE  SentBytes' /\ EchoedBytes'
  BY <1>7, <1>8, RebornEffect, LastEffect
<1>9. CASE \/ CliOnOpenAborts(c) \/ CliOnReadAborts(c) \/ CliRebornAborts(c)
           \/ CliOnClose(c)
  BY <1>1, <1>9
  DEF CliOnOpenAborts, CliOnReadAborts, CliRebornAborts, CliOnClose, Abort,
      sumVars, SentBytes, EchoedBytes
<1> QED
  BY <1>4, <1>5, <1>6, <1>8, <1>9 DEF CliStep

\* What the client has sent the server has counted, over all rows and the current
\* interval, or it is still under way; and the same on the way back.  The bytes of
\* a lost link stay in its channel, so this holds whatever fails.
THEOREM BytesOnLedger == Spec => [](SentBytes /\ EchoedBytes)
<1>1. Init => SentBytes /\ EchoedBytes
  <2> SUFFICES ASSUME Init PROVE SentBytes /\ EchoedBytes
    OBVIOUS
  <2>0. /\ c2s \in [Conns -> Seq(Nat)] /\ s2c \in [Conns -> Seq(Nat)]
        /\ \A c \in Conns : c2s[c] = <<>> /\ s2c[c] = <<>>
    BY DEF Init
  <2>1. BytesUnderWay(c2s) = 0 /\ BytesUnderWay(s2c) = 0
    BY <2>0, NothingUnderWay
  <2> QED
    BY <2>1 DEF Init, SrvInit, CliInit, NoTraffic, SentBytes, EchoedBytes
<1>2. IInv /\ SentBytes /\ EchoedBytes /\ [Next]_vars => SentBytes' /\ EchoedBytes'
  <2> SUFFICES ASSUME IInv, SentBytes, EchoedBytes, [Next]_vars
               PROVE  SentBytes' /\ EchoedBytes'
    OBVIOUS
  <2>1. ASSUME NEW c \in Conns, ClientStep(c) \/ ServerStep(c)
        PROVE  SentBytes' /\ EchoedBytes'
    BY <2>1, LedgerClient, LedgerServer
  <2>2. CASE (\E c \in Conns : LinkFails(c)) \/ ClientExit \/ UNCHANGED vars
    BY <2>2
    DEF LinkFails, BreakLink, ClientExit, CliLoopExit, vars, wireVars, srvVars,
        cliVars, sumVars, SentBytes, EchoedBytes
  <2> QED
    BY <2>1, <2>2 DEF Next, Terminated
<1> QED
  BY <1>1, <1>2, Invariance, PTL DEF Spec

\* The property bench_ok checks.
THEOREM LedgerHolds == Spec => []Ledger
<1>1. SentBytes /\ EchoedBytes => Ledger
  BY DEF SentBytes, EchoedBytes, Ledger
<1> QED
  BY <1>1, BytesOnLedger, PTL
=============================================================================
