------------------------------ MODULE MCBeast ------------------------------
(***************************************************************************)
(* A small instance of BeastEchoServer for TLC.                            *)
(***************************************************************************)
EXTENDS BeastEchoServer

CONSTANTS k1, k2, t1, t2

MCConns == {k1, k2}
MCWindow == [s \in MCConns |-> IF s = k1 THEN 1 ELSE 2]
MCThreads == {t1, t2}
=============================================================================
