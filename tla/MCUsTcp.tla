------------------------------ MODULE MCUsTcp ------------------------------
(***************************************************************************)
(* Small instances of UsTcpEchoServer for TLC.                             *)
(***************************************************************************)
EXTENDS UsTcpEchoServer

CONSTANTS k1, k2

MCConns == {k1, k2}
MCOneConn == {k1}
=============================================================================
