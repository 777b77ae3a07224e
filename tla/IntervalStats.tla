--------------------------- MODULE IntervalStats ---------------------------
(***************************************************************************)
(* The four last_interval_* counters every echo server of the benchmark    *)
(* keeps, and CountStats, which exports them as a row of the output file   *)
(* and clears them.  Pure operators: each server module keeps the counters *)
(* in a variable of its own and applies these to it.                       *)
(***************************************************************************)
EXTENDS Integers

CONSTANT INTERVAL   \* messages per row: 0x4000 in flashws, a power of two

ASSUME IntervalAssumption == INTERVAL \in Nat \ {0}

Counters == [recv_bytes : Nat, send_bytes : Nat, recv_msg : Nat, send_msg : Nat]

NoTraffic == [recv_bytes |-> 0, send_bytes |-> 0, recv_msg |-> 0, send_msg |-> 0]

ReceivedBytes(s, n) == [s EXCEPT !.recv_bytes = @ + n]

\* A message is complete, and its echo of the given size handed to the library.
EchoedMessage(s, size) ==
    [recv_bytes |-> s.recv_bytes, send_bytes |-> s.send_bytes + size,
     recv_msg |-> s.recv_msg + 1, send_msg |-> s.send_msg + 1]

\* (cnt & (INTERVAL - 1)) || cnt == 0: CountStats returns without a row.
Quiet(s) == s.recv_msg % INTERVAL # 0 \/ s.recv_msg = 0

\* Variants with a bug, for the runs' mutants: a counter is not cleared.
KeepsSentBytes(s) ==
    IF Quiet(s) THEN s ELSE [NoTraffic EXCEPT !.send_bytes = s.send_bytes]
KeepsMessages(s) ==
    IF Quiet(s) THEN s ELSE [NoTraffic EXCEPT !.recv_msg = s.recv_msg]

CountStats(s) == IF Quiet(s) THEN s ELSE NoTraffic

\* The totals of all exported rows, once counters s are exported too, and once
\* CountStats has seen them.
WithRow(rows, s) ==
    [recv_bytes |-> rows.recv_bytes + s.recv_bytes,
     send_bytes |-> rows.send_bytes + s.send_bytes,
     recv_msg   |-> rows.recv_msg + s.recv_msg,
     send_msg   |-> rows.send_msg + s.send_msg]
Exported(rows, s) == IF Quiet(s) THEN rows ELSE WithRow(rows, s)
=============================================================================
