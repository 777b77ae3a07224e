---------------------------- MODULE MCFwsBench ----------------------------
(***************************************************************************)
(* Small instances of FwsBench for TLC.                                    *)
(***************************************************************************)
EXTENDS FwsBench, TLC

CONSTANTS k1, k2

MCClients == {k1, k2}
MCConns == MCClients \X (1..REBORN_LIMIT_FOR_CLIENT)
=============================================================================
