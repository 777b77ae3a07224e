---------------------------- MODULE BenchWsProofs ----------------------------
(***************************************************************************)
(* Proofs about the orchestrator, for any number of processes and message  *)
(* sizes.  The inductive invariant says where the script is in the grid of *)
(* sizes and processes: what is behind it has exited, what is ahead of it  *)
(* has not been started, and no file has a row of a process still running. *)
(***************************************************************************)
EXTENDS BenchWs, TLAPS

\* The script's own counters belong to the step it is at.
Place ==
    /\ step = "start" \/ step = "failed" =>
          waited = 0 /\ started < process_cnt /\ msg_size < SizeCnt
    /\ step = "wait" =>
          waited < process_cnt /\ started = process_cnt /\ msg_size < SizeCnt
    /\ step = "done" => waited = 0 /\ started = 0 /\ msg_size = SizeCnt

\* The processes of earlier sizes, and those waited for, have exited; those of
\* later sizes, and those the loop has not come to, have not been started.
Grid ==
    \A p \in Children :
        /\ p[1] < msg_size => child[p] = "exited"
        /\ p[1] = msg_size /\ p[2] >= process_cnt - waited => child[p] = "exited"
        /\ p[1] > msg_size => child[p] = "none"
        /\ p[1] = msg_size /\ p[2] >= started => child[p] = "none"

\* A row of the current size is there only after its process has reported.
Rows ==
    \A i \in Procs : \A j \in 1..Len(files[i]) :
        /\ files[i][j] <= msg_size
        /\ files[i][j] = msg_size => child[<<msg_size, i>>] \in {"reported", "exited"}

WsInv == BenchWsTypeOK /\ Place /\ Grid /\ Rows /\ RowsInOrder

USE BenchWsAssumption

\* The script runs at least one size.
LEMMA SizeCntRange == ASSUME is_server \in BOOLEAN
                      PROVE  SizeCnt \in 1..SIZE_CNT
BY DEF SizeCnt

\* The initial state satisfies the invariant: nothing has been started.
LEMMA WsInit == Init => WsInv
<1> SUFFICES ASSUME Init PROVE WsInv
  OBVIOUS
<1>1. SizeCnt \in 1..SIZE_CNT
  BY SizeCntRange DEF Init
<1>2. BenchWsTypeOK
  BY <1>1 DEF Init, BenchWsTypeOK
<1>3. Place
  BY <1>1 DEF Init, Place
<1>4. Grid
  BY DEF Init, Grid, Children, Procs
<1>5. Rows /\ RowsInOrder
  BY DEF Init, Rows, RowsInOrder
<1> QED
  BY <1>2, <1>3, <1>4, <1>5 DEF WsInv

\* StartProc moves one process from ahead of the script to under way.
LEMMA StartProcKeeps == WsInv /\ StartProc => WsInv'
<1> SUFFICES ASSUME WsInv, StartProc PROVE WsInv'
  OBVIOUS
<1> USE DEF WsInv, StartProc
<1>1. SizeCnt \in 1..SIZE_CNT /\ SizeCnt' = SizeCnt
  BY SizeCntRange DEF BenchWsTypeOK, SizeCnt
<1>2. /\ msg_size \in 0..(SizeCnt - 1) /\ started \in 0..(process_cnt - 1)
      /\ waited = 0
  BY <1>1 DEF BenchWsTypeOK, Place
<1>3. <<msg_size, started>> \in Children
  BY <1>1, <1>2 DEF Children, Procs
<1>4. BenchWsTypeOK'
  BY <1>1, <1>2, <1>3 DEF BenchWsTypeOK
<1>5. Place'
  BY <1>1, <1>2 DEF Place
<1>6. Grid'
  <2> SUFFICES ASSUME NEW p \in Children
               PROVE  /\ p[1] < msg_size => child'[p] = "exited"
                      /\ p[1] = msg_size /\ p[2] >= process_cnt => child'[p] = "exited"
                      /\ p[1] > msg_size => child'[p] = "none"
                      /\ p[1] = msg_size /\ p[2] >= started + 1 => child'[p] = "none"
    BY <1>2 DEF Grid
  <2>1. p[1] \in Int /\ p[2] \in 0..(process_cnt - 1)
    BY DEF Children, Procs
  <2>2. CASE p = <<msg_size, started>>
    BY <2>1, <2>2, <1>2
  <2>3. CASE p # <<msg_size, started>>
    BY <2>1, <2>3, <1>2 DEF Grid, BenchWsTypeOK
  <2> QED
    BY <2>2, <2>3
<1>7. Rows'
  <2> SUFFICES ASSUME NEW i \in Procs, NEW j \in 1..Len(files[i])
               PROVE  /\ files[i][j] <= msg_size
                      /\ files[i][j] = msg_size =>
                            child'[<<msg_size, i>>] \in {"reported", "exited"}
    BY DEF Rows
  <2>1. child[<<msg_size, started>>] = "none"
    BY <1>2, <1>3 DEF Grid
  <2>2. <<msg_size, i>> \in Children
    BY <1>1, <1>2 DEF Children
  <2> QED
    BY <2>1, <2>2 DEF Rows, BenchWsTypeOK
<1>8. RowsInOrder'
  BY DEF RowsInOrder
<1> QED
  BY <1>4, <1>5, <1>6, <1>7, <1>8

\* StartFails only ends the script.
LEMMA StartFailsKeeps == WsInv /\ StartFails => WsInv'
<1> SUFFICES ASSUME WsInv, StartFails PROVE WsInv'
  OBVIOUS
<1> USE DEF WsInv, StartFails
<1>1. SizeCnt' = SizeCnt
  BY DEF SizeCnt
<1>2. BenchWsTypeOK' /\ Place'
  BY <1>1 DEF BenchWsTypeOK, Place
<1>3. Grid' /\ Rows' /\ RowsInOrder'
  BY DEF Grid, Rows, RowsInOrder
<1> QED
  BY <1>2, <1>3

\* Wait puts a process that has exited behind the script: the last of its size takes
\* the whole size with it, and the rows of the next one are still to come.
LEMMA WaitKeeps == WsInv /\ Wait => WsInv'
<1> SUFFICES ASSUME WsInv, Wait PROVE WsInv'
  OBVIOUS
<1> USE DEF WsInv
<1>1. SizeCnt \in 1..SIZE_CNT /\ SizeCnt' = SizeCnt
  BY SizeCntRange DEF BenchWsTypeOK, SizeCnt, Wait
<1>2. /\ msg_size \in 0..(SizeCnt - 1) /\ started = process_cnt
      /\ waited \in 0..(process_cnt - 1)
  BY <1>1 DEF BenchWsTypeOK, Place, Wait
<1>3. child[<<msg_size, process_cnt - 1 - waited>>] = "exited"
  BY DEF Wait, Waited
<1>4. \A p \in Children : p[1] = msg_size /\ p[2] >= process_cnt - 1 - waited
                            => child[p] = "exited"
  <2> SUFFICES ASSUME NEW p \in Children, p[1] = msg_size,
                      p[2] >= process_cnt - 1 - waited
               PROVE  child[p] = "exited"
    OBVIOUS
  <2>1. p[2] \in 0..(process_cnt - 1) /\ p = <<p[1], p[2]>>
    BY DEF Children, Procs
  <2>2. CASE p[2] = process_cnt - 1 - waited
    BY <2>1, <2>2, <1>3
  <2>3. CASE p[2] >= process_cnt - waited
    BY <2>3 DEF Grid
  <2> QED
    BY <2>1, <2>2, <2>3, <1>2
<1>5. CASE LastWait
  <2>1. /\ waited' = 0 /\ started' = 0 /\ msg_size' = msg_size + 1
        /\ step' = IF msg_size' = SizeCnt THEN "done" ELSE "start"
        /\ waited = process_cnt - 1
    BY <1>1, <1>2, <1>5 DEF Wait, EmptyList, LastWait
  <2>2. UNCHANGED <<is_server, child, files>>
    BY DEF Wait
  <2>3. BenchWsTypeOK' /\ Place'
    BY <1>1, <1>2, <2>1, <2>2 DEF BenchWsTypeOK, Place
  <2>4. Grid'
    <3> SUFFICES ASSUME NEW p \in Children
                 PROVE  /\ p[1] < msg_size + 1 => child[p] = "exited"
                        /\ p[1] >= msg_size + 1 => child[p] = "none"
                        /\ p[2] < process_cnt
      BY <2>1, <2>2, <1>2 DEF Grid, Children, Procs
    <3>1. p[1] \in 0..(SIZE_CNT - 1) /\ p[2] \in 0..(process_cnt - 1)
      BY DEF Children, Procs
    <3> QED
      BY <3>1, <1>2, <1>4, <2>1 DEF Grid
  <2>5. Rows'
    <3> SUFFICES ASSUME NEW i \in Procs, NEW j \in 1..Len(files[i])
                 PROVE  files[i][j] < msg_size + 1
      BY <2>1, <2>2, <1>2 DEF Rows, BenchWsTypeOK
    <3>1. files[i] \in Seq(0..(SIZE_CNT - 1))
      BY DEF BenchWsTypeOK
    <3>2. files[i][j] \in Int
      BY <3>1
    <3>3. files[i][j] <= msg_size
      BY DEF Rows
    <3> QED
      BY <3>2, <3>3, <1>2
  <2>6. RowsInOrder'
    BY <2>2 DEF RowsInOrder
  <2> QED
    BY <2>3, <2>4, <2>5, <2>6
<1>6. CASE ~LastWait
  <2>1. waited' = waited + 1 /\ waited + 1 < process_cnt
    BY <1>2, <1>6 DEF Wait, LastWait
  <2>2. UNCHANGED <<is_server, step, msg_size, started, child, files>>
    BY <1>6 DEF Wait
  <2>3. BenchWsTypeOK' /\ Place'
    BY <1>1, <1>2, <2>1, <2>2 DEF BenchWsTypeOK, Place, Wait
  <2>4. Grid'
    BY <1>2, <1>4, <2>1, <2>2 DEF Grid
  <2>5. Rows' /\ RowsInOrder'
    BY <2>2 DEF Rows, RowsInOrder
  <2> QED
    BY <2>3, <2>4, <2>5
<1> QED
  BY <1>5, <1>6

\* A process that runs is one of the current size the loop has started.
LEMMA AliveIsCurrent == ASSUME WsInv, NEW p \in Children, Alive(p)
                        PROVE  /\ p = <<msg_size, p[2]>> /\ p[2] \in Procs
                               /\ p[2] < started /\ p[2] < process_cnt - waited
<1>1. p = <<p[1], p[2]>> /\ p[1] \in Int /\ p[2] \in Procs
  BY DEF Children, Procs
<1>2. msg_size \in Int /\ started \in Int /\ waited \in Int /\ p[2] \in Int
  BY <1>1 DEF WsInv, BenchWsTypeOK, Procs
<1>3. child[p] # "none" /\ child[p] # "exited"
  BY DEF Alive
<1> QED
  BY <1>1, <1>2, <1>3 DEF WsInv, Grid

\* Report appends to a file whose rows are all of earlier sizes.
LEMMA ReportKeeps == ASSUME NEW p \in Children, WsInv, Report(p)
                     PROVE  WsInv'
<1> USE DEF WsInv, Report
<1>1. SizeCnt' = SizeCnt /\ SizeCnt \in 1..SIZE_CNT
  BY SizeCntRange DEF SizeCnt, BenchWsTypeOK
<1>2. /\ p = <<msg_size, p[2]>> /\ p[2] \in Procs
      /\ p[2] < started /\ p[2] < process_cnt - waited
  BY AliveIsCurrent DEF Alive
<1>3. msg_size \in 0..(SIZE_CNT - 1)
  BY <1>2 DEF Children
<1> DEFINE f == files[p[2]]
<1>4. f \in Seq(0..(SIZE_CNT - 1)) /\ files'[p[2]] = Append(f, msg_size)
  BY <1>2 DEF BenchWsTypeOK
<1>5. \A i \in Procs : i # p[2] => files'[i] = files[i]
  BY DEF BenchWsTypeOK
<1>6. \A j \in 1..Len(f) : f[j] \in Int /\ f[j] < msg_size
  <2> SUFFICES ASSUME NEW j \in 1..Len(f) PROVE f[j] \in Int /\ f[j] < msg_size
    OBVIOUS
  <2>1. f[j] \in Int
    BY <1>4
  <2>2. f[j] <= msg_size /\ f[j] # msg_size
    BY <1>2 DEF Rows
  <2> QED
    BY <2>1, <2>2, <1>3
<1>7. BenchWsTypeOK'
  <2>1. files' \in [Procs -> Seq(0..(SIZE_CNT - 1))]
    BY <1>2, <1>3, <1>4 DEF BenchWsTypeOK
  <2>2. child' \in [Children -> {"none", "running", "reported", "exited"}]
    BY DEF BenchWsTypeOK
  <2> QED
    BY <2>1, <2>2, <1>1 DEF BenchWsTypeOK
<1>8. Place'
  BY <1>1 DEF Place
<1>9. Grid'
  <2> SUFFICES ASSUME NEW q \in Children, q # p
               PROVE  child'[q] = child[q]
    <3>1. msg_size \in Int /\ started \in Int /\ waited \in Int
      BY DEF BenchWsTypeOK
    <3>2. p[2] \in Int /\ p[1] = msg_size
      BY <1>2 DEF Procs
    <3> QED
      BY <3>1, <3>2, <1>2 DEF Grid
  <2> QED
    BY DEF BenchWsTypeOK
<1>10. Rows'
  <2> SUFFICES ASSUME NEW i \in Procs, NEW j \in 1..Len(files'[i])
               PROVE  /\ files'[i][j] <= msg_size
                      /\ files'[i][j] = msg_size =>
                            child'[<<msg_size, i>>] \in {"reported", "exited"}
    BY DEF Rows
  <2>1. CASE i = p[2]
    <3>1. files'[i][j] \in Int /\ files'[i][j] <= msg_size
      BY <2>1, <1>3, <1>4, <1>6
    <3>2. child'[<<msg_size, i>>] = "reported"
      BY <2>1, <1>2 DEF BenchWsTypeOK
    <3> QED
      BY <3>1, <3>2
  <2>2. CASE i # p[2]
    <3>1. <<msg_size, i>> # p /\ <<msg_size, i>> \in Children
      BY <2>2, <1>2, <1>3 DEF Children
    <3>2. child'[<<msg_size, i>>] = child[<<msg_size, i>>]
      BY <3>1 DEF BenchWsTypeOK
    <3> QED
      BY <2>2, <3>2, <1>5 DEF Rows
  <2> QED
    BY <2>1, <2>2
<1>11. RowsInOrder'
  <2> SUFFICES ASSUME NEW i \in Procs, NEW j \in 1..Len(files'[i]),
                      NEW k \in 1..Len(files'[i]), j < k
               PROVE  files'[i][j] < files'[i][k]
    BY DEF RowsInOrder
  <2>1. CASE i = p[2]
    <3>1. j \in 1..Len(f) /\ files'[i][j] = f[j]
      BY <2>1, <1>3, <1>4
    <3>2. CASE k \in 1..Len(f)
      BY <2>1, <3>1, <3>2, <1>2, <1>3, <1>4 DEF RowsInOrder
    <3>3. CASE k = Len(f) + 1
      BY <2>1, <3>1, <3>3, <1>3, <1>4, <1>6
    <3> QED
      BY <2>1, <3>2, <3>3, <1>3, <1>4
  <2>2. CASE i # p[2]
    BY <2>2, <1>5 DEF RowsInOrder
  <2> QED
    BY <2>1, <2>2
<1> QED
  BY <1>7, <1>8, <1>9, <1>10, <1>11

\* Exit of a process of the current size, with or without a row.
LEMMA ExitKeeps == ASSUME NEW p \in Children, WsInv, Exit(p)
                   PROVE  WsInv'
<1> USE DEF WsInv, Exit
<1>1. SizeCnt' = SizeCnt
  BY DEF SizeCnt
<1>2. /\ p = <<msg_size, p[2]>> /\ p[2] \in Procs
      /\ p[2] < started /\ p[2] < process_cnt - waited
  BY AliveIsCurrent
<1>3. BenchWsTypeOK' /\ Place'
  BY <1>1 DEF BenchWsTypeOK, Place
<1>4. \A q \in Children : child'[q] = IF q = p THEN "exited" ELSE child[q]
  BY DEF BenchWsTypeOK
<1>5. Grid'
  <2>1. msg_size \in Int /\ started \in Int /\ waited \in Int
    BY DEF BenchWsTypeOK
  <2>2. p[2] \in Int /\ p[1] = msg_size
    BY <1>2 DEF Procs
  <2> QED
    BY <2>1, <2>2, <1>2, <1>4 DEF Grid
<1>6. Rows'
  <2> SUFFICES ASSUME NEW i \in Procs, NEW j \in 1..Len(files[i])
               PROVE  /\ files[i][j] <= msg_size
                      /\ files[i][j] = msg_size =>
                            child'[<<msg_size, i>>] \in {"reported", "exited"}
    BY DEF Rows
  <2>1. <<msg_size, i>> \in Children
    BY <1>2 DEF Children
  <2> QED
    BY <2>1, <1>4 DEF Rows
<1>7. RowsInOrder'
  BY DEF RowsInOrder
<1> QED
  BY <1>3, <1>5, <1>6, <1>7

\* The invariant holds in every reachable state of the script and its processes.
THEOREM WsInvariance == Spec => []WsInv
<1>1. Init => WsInv
  BY WsInit
<1>2. WsInv /\ [Next]_vars => WsInv'
  <2> SUFFICES ASSUME WsInv, [Next]_vars PROVE WsInv'
    OBVIOUS
  <2>1. CASE StartProc
    BY <2>1, StartProcKeeps
  <2>2. CASE StartFails
    BY <2>2, StartFailsKeeps
  <2>3. CASE Wait
    BY <2>3, WaitKeeps
  <2>4. CASE \E p \in Children : Report(p) \/ Exit(p)
    BY <2>4, ReportKeeps, ExitKeeps
  <2>5. CASE UNCHANGED vars
    BY <2>5 DEF vars, WsInv, BenchWsTypeOK, SizeCnt, Place, Grid, Rows, RowsInOrder
  <2> QED
    BY <2>1, <2>2, <2>3, <2>4, <2>5 DEF Next
<1> QED
  BY <1>1, <1>2, PTL DEF Spec

\* Every variable of the script keeps its type: no process is waited for twice and
\* none of a size that is not in the list is started.
THEOREM WsTypeCorrect == Spec => []BenchWsTypeOK
<1>1. WsInv => BenchWsTypeOK
  BY DEF WsInv
<1> QED
  BY <1>1, WsInvariance, PTL

\* However many processes and sizes, whichever of them fail and in whatever order
\* they exit: processes that run at the same time measure the same message size.
THEOREM SizesApart == Spec => []OneSizeAtATime
<1>1. WsInv => OneSizeAtATime
  BY AliveIsCurrent DEF OneSizeAtATime
<1> QED
  BY <1>1, WsInvariance, PTL

\* Every output file has at most one row per size, in the order of the sizes.
THEOREM FilesInOrder == Spec => []RowsInOrder
<1>1. WsInv => RowsInOrder
  BY DEF WsInv
<1> QED
  BY <1>1, WsInvariance, PTL

\* A script that ends by itself leaves no process behind.
THEOREM NobodyLeft == Spec => []NoOrphans
<1>1. WsInv => NoOrphans
  <2> SUFFICES ASSUME WsInv, step = "done", NEW p \in Children, Alive(p)
               PROVE  FALSE
    BY DEF NoOrphans
  <2>1. p[2] \in Procs /\ p[2] < started /\ started = 0
    BY AliveIsCurrent DEF WsInv, Place
  <2> QED
    BY <2>1 DEF Procs
<1> QED
  BY <1>1, WsInvariance, PTL
=============================================================================
