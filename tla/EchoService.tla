---------------------------- MODULE EchoService ----------------------------
(***************************************************************************)
(* What an echo server promises its clients: every connection gets its     *)
(* messages back, each of them once and in the order they were sent; and   *)
(* unless the connection fails, it gets all of them.                       *)
(***************************************************************************)
EXTENDS Integers, Sequences

CONSTANT Conns

VARIABLES
    requests,   \* how many messages each client has sent: 1, 2, 3...
    replies,    \* the messages each client has got back
    down        \* the connections that have failed or are closed

vars == <<requests, replies, down>>

Init ==
    /\ requests = [c \in Conns |-> 0]
    /\ replies = [c \in Conns |-> <<>>]
    /\ down = {}

Request(c) ==
    /\ requests' = [requests EXCEPT ![c] = @ + 1]
    /\ UNCHANGED <<replies, down>>

Reply(c) ==
    /\ Len(replies[c]) < requests[c]
    /\ replies' = [replies EXCEPT ![c] = Append(@, Len(@) + 1)]
    /\ UNCHANGED <<requests, down>>

\* Some connections fail: all of them if the server dies.
Fail(lost) ==
    /\ down' = down \cup lost
    /\ UNCHANGED <<requests, replies>>

Next ==
    \/ \E c \in Conns : Request(c) \/ Reply(c)
    \/ \E lost \in SUBSET Conns : Fail(lost)

Spec == Init /\ [][Next]_vars
FairSpec == Spec /\ \A c \in Conns : WF_vars(c \notin down /\ Reply(c))
=============================================================================
