-------------------------- MODULE MCFwsServerLoad --------------------------
(***************************************************************************)
(* Small instances of FwsServerLoad for TLC.                               *)
(***************************************************************************)
EXTENDS FwsServerLoad

CONSTANTS k1, k2

MCConns == {k1, k2}
=============================================================================
