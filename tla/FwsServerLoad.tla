--------------------------- MODULE FwsServerLoad ---------------------------
(***************************************************************************)
(* The flashws echo server under other WebSocket clients than the          *)
(* ping-pong client of the benchmark: messages of different sizes,         *)
(* several of them under way on a connection, closes and lost links in the *)
(* middle of a message.  The clients keep to what the server is started    *)
(* for: no message is longer than its buffer (SRV_MAX_LEN); OnRead does    *)
(* not check that, and nothing here says what a longer one would do.       *)
(***************************************************************************)
EXTENDS FwsEchoServer, SequencesExt

CONSTANT MAX_SENDS   \* bound: messages a client sends on a connection

ASSUME LoadAssumption == IsFiniteSet(Conns)

VARIABLES
    sent,     \* the sizes of the messages sent on each connection
    arrived   \* the sizes of the echoes that came back

loadVars == <<sent, arrived>>
vars == <<wireVars, srvVars, loadVars>>

Init ==
    /\ cli_link = [c \in Conns |-> "none"]
    /\ srv_link = [c \in Conns |-> "none"]
    /\ c2s = [c \in Conns |-> <<>>]
    /\ s2c = [c \in Conns |-> <<>>]
    /\ broken = {}
    /\ faults = 0
    /\ sent = [c \in Conns |-> <<>>]
    /\ arrived = [c \in Conns |-> <<>>]
    /\ SrvInit

Connect(c) ==
    /\ cli_link[c] = "none"
    /\ cli_link' = [cli_link EXCEPT ![c] = "connecting"]
    /\ UNCHANGED <<srv_link, c2s, s2c, broken, faults, loadVars>>

Send(c, size) ==
    /\ cli_link[c] \in {"connecting", "open"} /\ srv_link[c] # "none"
    /\ Len(sent[c]) < MAX_SENDS
    /\ cli_link' = [cli_link EXCEPT ![c] = "open"]
    /\ c2s' = Put(c2s, c, size)
    /\ sent' = [sent EXCEPT ![c] = Append(@, size)]
    /\ UNCHANGED <<srv_link, s2c, broken, faults, arrived>>

Receive(c) ==
    /\ cli_link[c] \in {"open", "closing"} /\ s2c[c] # <<>>
    /\ s2c' = [s2c EXCEPT ![c] = Tail(@)]
    /\ arrived' = [arrived EXCEPT ![c] = Append(@, Head(s2c[c]))]
    /\ UNCHANGED <<cli_link, srv_link, c2s, broken, faults, sent>>

CloseConn(c) ==
    /\ cli_link[c] = "open"
    /\ cli_link' = [cli_link EXCEPT ![c] = "closing"]
    /\ c2s' = Put(c2s, c, CLOSE)
    /\ UNCHANGED <<srv_link, s2c, broken, faults, loadVars>>

LoadStep(c) ==
    /\ \/ Connect(c)
       \/ \E size \in 1..SRV_MAX_LEN : Send(c, size)
       \/ Receive(c)
       \/ CloseConn(c)
       \/ BreakLink(c) /\ UNCHANGED loadVars
    /\ UNCHANGED srvVars

ServerStep(c) == SrvStep(c) /\ UNCHANGED loadVars

Next == \E c \in Conns : LoadStep(c) \/ ServerStep(c)

Spec == Init /\ [][Next]_vars

\* The server's loop is level-triggered epoll, and the clients read their echoes.
FairSpec ==
    /\ Spec
    /\ \A c \in Conns :
         /\ WF_vars(ServerStep(c))
         /\ WF_vars(Receive(c) /\ UNCHANGED srvVars)

-----------------------------------------------------------------------------
\* The messages of c the server has not echoed yet, the one it is collecting
\* put together again.  A client sends nothing behind its close.
Waiting(c) ==
    LET n == Len(c2s[c])
    IN  IF n > 0 /\ c2s[c][n] = CLOSE THEN n - 1 ELSE n
Unechoed(c) ==
    [j \in 1..Waiting(c) |-> c2s[c][j] + IF j = 1 THEN con_buf[c] ELSE 0]

\* Each connection gets its own messages back, whole, once and in order, however
\* the pieces of different connections interleave; when a connection is lost, it
\* got the echoes of its first messages.
EchoesInOrder ==
    \A c \in Conns :
        LET echoed == arrived[c] \o s2c[c]
        IN  IF srv_link[c] = "open" THEN echoed \o Unechoed(c) = sent[c]
                                    ELSE IsPrefix(echoed, sent[c])

Service == INSTANCE EchoService WITH
    requests <- [c \in Conns |-> Len(sent[c])],
    replies <- [c \in Conns |->
                 [i \in DOMAIN arrived[c] |-> IF arrived[c][i] = sent[c][i] THEN i ELSE 0]],
    down <- broken

\* Whatever a client sends before it closes is echoed to it, unless its link is
\* lost: a client's close waits its turn behind its messages.
ImplementsEcho == Service!FairSpec

\* The server frees the context of every connection that is closed or lost, also
\* of one that is lost with part of a message in its buffer or with messages it
\* has not read; unless it dies first, of an echo to a link that is gone.
ServerForgets ==
    \A c \in Conns :
        (c \in broken \/ cli_link[c] = "closing")
            ~> (con_buf[c] = NoCtx \/ srv_proc = "aborted")
=============================================================================
