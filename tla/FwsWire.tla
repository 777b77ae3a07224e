------------------------------ MODULE FwsWire ------------------------------
(***************************************************************************)
(* What echo_client.cpp and echo_server.cpp see of the flashws library and *)
(* of the TCP connections below it.  The library is a git submodule whose  *)
(* sources are not part of the repository, so everything here is modelled  *)
(* from the way the two programs call it.                                  *)
(*                                                                         *)
(* A direction of a connection is a FIFO of WebSocket frames.  A data      *)
(* frame is the number of its payload bytes that the reader has not been   *)
(* handed yet (the payload itself is abstracted: TCP neither alters nor    *)
(* reorders it); the close frame is CLOSE.  The reader's callback is given *)
(* a data frame in one or more pieces, and is_msg_end comes with the piece *)
(* that empties it.  Ping and pong frames, which both programs ignore, are *)
(* left out.                                                               *)
(***************************************************************************)
EXTENDS Integers, Sequences, FiniteSets

CONSTANTS
    Conns,       \* the connections the client process ever opens
    MAX_FAULTS   \* how many links may fail, and library calls return an error

ASSUME FaultsAssumption == MAX_FAULTS \in Nat

VARIABLES
    cli_link,    \* the client's socket of each connection
    srv_link,    \* the server's socket of each connection
    c2s, s2c,    \* the frames under way in the two directions
    broken,      \* the connections whose TCP link is gone
    faults       \* how many faults have happened

wireVars == <<cli_link, srv_link, c2s, s2c, broken, faults>>

CLOSE == 0

CliLinks == {"none", "connecting", "open", "closing", "closed"}
SrvLinks == {"none", "open", "closed"}

WireTypeOK ==
    /\ cli_link \in [Conns -> CliLinks]
    /\ srv_link \in [Conns -> SrvLinks]
    /\ c2s \in [Conns -> Seq(Nat)]
    /\ s2c \in [Conns -> Seq(Nat)]
    /\ broken \in SUBSET Conns
    /\ faults \in 0..MAX_FAULTS

\* A frame of n bytes written to, or n bytes read from, a direction of c.
Put(channel, c, n) == [channel EXCEPT ![c] = Append(@, n)]
Take(channel, c, n) ==
    [channel EXCEPT ![c] = IF n = Head(@) THEN Tail(@)
                                          ELSE <<Head(@) - n>> \o Tail(@)]

\* A piece of n bytes can be handed to the reader.
Piece(channel, c, n) == channel[c] # <<>> /\ n \in 1..Head(channel[c])

\* The link of one connection fails: each end learns of it on its own.
BreakLink(c) ==
    /\ faults < MAX_FAULTS
    /\ c \notin broken
    /\ cli_link[c] \in {"connecting", "open"}
    /\ broken' = broken \cup {c}
    /\ faults' = faults + 1
    /\ UNCHANGED <<cli_link, srv_link, c2s, s2c>>
=============================================================================
