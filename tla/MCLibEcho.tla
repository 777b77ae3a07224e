----------------------------- MODULE MCLibEcho -----------------------------
(***************************************************************************)
(* A small instance of LibEchoServer for TLC: a ping-pong client and one   *)
(* that lets several messages outstanding.                                 *)
(***************************************************************************)
EXTENDS LibEchoServer

CONSTANTS k1, k2

MCConns == {k1, k2}
MCWindow == [c \in MCConns |-> IF c = k1 THEN 1 ELSE 3]
=============================================================================
