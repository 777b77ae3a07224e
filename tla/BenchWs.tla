------------------------------ MODULE BenchWs ------------------------------
(***************************************************************************)
(* tools/bench_ws.py: for one message size after the other it starts       *)
(* process_cnt processes, the primary first, and waits for all of them,    *)
(* the primary last.  Run for clients, process i appends its row of        *)
(* results to file i, which the script has emptied at the start; run for   *)
(* servers there is one size, and no rows, which the servers write to      *)
(* files they open themselves.                                             *)
(***************************************************************************)
EXTENDS Integers, Sequences

CONSTANTS
    process_cnt,   \* processes of one message size
    SIZE_CNT       \* message sizes of the clients: 64 to 8192, 8 of them

ASSUME BenchWsAssumption == process_cnt \in Nat \ {0} /\ SIZE_CNT \in Nat \ {0}

\* The script numbers processes and sizes from 0.
Procs == 0..(process_cnt - 1)
Children == (0..(SIZE_CNT - 1)) \X Procs

VARIABLES
    is_server,
    step,        \* "start", "wait", "done", or "failed" by an exception
    msg_size,    \* the position in msg_size_list
    started,     \* len(process_list)
    waited,      \* how many wait()s of this size have returned
    child,       \* what process <<size, i>> is doing
    files        \* the message sizes of the rows in each output file

vars == <<is_server, step, msg_size, started, waited, child, files>>

\* len(msg_size_list)
SizeCnt == IF is_server THEN 1 ELSE SIZE_CNT

BenchWsTypeOK ==
    /\ is_server \in BOOLEAN
    /\ step \in {"start", "wait", "done", "failed"}
    /\ msg_size \in 0..SizeCnt
    /\ started \in 0..process_cnt
    /\ waited \in 0..process_cnt
    /\ child \in [Children -> {"none", "running", "reported", "exited"}]
    /\ files \in [Procs -> Seq(0..(SIZE_CNT - 1))]

Init ==
    /\ is_server \in BOOLEAN
    /\ step = "start"
    /\ msg_size = 0
    /\ started = 0
    /\ waited = 0
    /\ child = [p \in Children |-> "none"]
    /\ files = [i \in Procs |-> <<>>]

-----------------------------------------------------------------------------
\* subprocess.Popen of the next process of this size; after the last one the
\* waiting begins.  The sleep after the primary orders nothing by itself.
StartProc ==
    /\ step = "start"
    /\ child' = [child EXCEPT ![<<msg_size, started>>] = "running"]
    /\ started' = started + 1
    /\ step' = IF started' = process_cnt THEN "wait" ELSE "start"
    /\ UNCHANGED <<is_server, msg_size, waited, files>>

\* Popen raises: the script ends with the traceback, its children go on.
StartFails ==
    /\ step = "start"
    /\ step' = "failed"
    /\ UNCHANGED <<is_server, msg_size, started, waited, child, files>>

\* reversed(process_list).  Variants with a bug, for the runs' mutants: the last
\* wait is left out; process_list goes on growing with the next size.
Waited == <<msg_size, process_cnt - 1 - waited>>
SkipsPrimary == waited + 2 >= process_cnt
LastWait == waited + 1 = process_cnt
KeepsList == started
EmptyList == 0

\* proc.wait returns; after the last one, the next message size.
Wait ==
    /\ step = "wait"
    /\ child[Waited] = "exited"
    /\ IF LastWait
       THEN /\ waited' = 0
            /\ started' = EmptyList
            /\ msg_size' = msg_size + 1
            /\ step' = IF msg_size' = SizeCnt THEN "done" ELSE "start"
       ELSE /\ waited' = waited + 1
            /\ UNCHANGED <<step, msg_size, started>>
    /\ UNCHANGED <<is_server, child, files>>

\* A client process ends its run and appends its row ...
Report(p) ==
    /\ ~is_server
    /\ child[p] = "running"
    /\ child' = [child EXCEPT ![p] = "reported"]
    /\ files' = [files EXCEPT ![p[2]] = Append(@, p[1])]
    /\ UNCHANGED <<is_server, step, msg_size, started, waited>>

\* ... and exits, or exits without a row when it fails; a server when it is stopped.
Alive(p) == child[p] \in {"running", "reported"}
Exit(p) ==
    /\ Alive(p)
    /\ child' = [child EXCEPT ![p] = "exited"]
    /\ UNCHANGED <<is_server, step, msg_size, started, waited, files>>

Ended == step \in {"done", "failed"} /\ \A p \in Children : ~Alive(p)

Next ==
    \/ StartProc \/ StartFails \/ Wait
    \/ \E p \in Children : Report(p) \/ Exit(p)
    \/ Ended /\ UNCHANGED vars

Spec == Init /\ [][Next]_vars

-----------------------------------------------------------------------------
\* Message sizes are measured apart: processes that run at the same time
\* run with the same size.
OneSizeAtATime ==
    \A p, q \in Children : Alive(p) /\ Alive(q) => p[1] = q[1]

\* A file has at most one row per size, in the order of the sizes, whichever
\* process fails in whichever size.
RowsInOrder ==
    \A i \in Procs : \A j, k \in 1..Len(files[i]) :
        j < k => files[i][j] < files[i][k]

\* When the script ends by itself it leaves no process behind.
NoOrphans == step = "done" => \A p \in Children : ~Alive(p)

\* Line 146, "reversed to make sure primary proc exit at last".
PrimaryExitsLast ==
    \A i \in Procs :
        step = "wait" /\ child[<<msg_size, 0>>] = "exited"
            => child[<<msg_size, i>>] = "exited"
=============================================================================
