-------------------------- MODULE BeastEchoServer --------------------------
(***************************************************************************)
(* src/boost-beast/echo_server.cpp: an asynchronous echo server whose      *)
(* io_context is run by several threads.  A session is a chain of          *)
(* operations, each started by the completion handler of the one before:   *)
(*                                                                         *)
(*   run - handshake - read - write - read - write - ...                   *)
(*                                                                         *)
(* Nothing but the chain keeps a session's buffer_ from being read into    *)
(* while it is written from, and nothing but the shared_ptr in the next    *)
(* operation keeps the session alive.  The listener is a chain of its own: *)
(* accept - accept - ...                                                   *)
(*                                                                         *)
(* An operation completes in the network's time; its handler is then       *)
(* queued, through the session's strand, and run by the first thread that  *)
(* gets to it.  A handler does what it does when it is taken from the      *)
(* queue; that it takes time is the step in which its thread returns.      *)
(***************************************************************************)
EXTENDS Integers, Sequences, FiniteSets

CONSTANTS
    Conns,      \* the connections clients open, each with a session
    Threads,    \* std::max(1, threads) threads in ioc.run()
    MSG_LEN,    \* pieces a message can be cut into on its way in and out
    Window,     \* how many messages each client lets unanswered at most
    MAX_MSGS,   \* bound: messages a client sends
    Listener    \* the handler chain that is no session's

ASSUME BeastAssumption ==
    /\ IsFiniteSet(Conns)
    /\ Threads # {} /\ IsFiniteSet(Threads)
    /\ MSG_LEN \in Nat \ {0}
    /\ Window \in [Conns -> Nat \ {0}]
    /\ MAX_MSGS \in Nat
    /\ Listener \notin Conns /\ "idle" \notin Conns \cup {Listener}

VARIABLES
    listening,  \* whether open, bind and listen have succeeded
    accepting,  \* the acceptor's async_accept is outstanding
    session,    \* "none", "connecting", "live", or "freed"
    ops,        \* the session's outstanding operations
    failed,     \* the sessions one of whose operations ended in an error
    buffer_,    \* session::buffer_, its pieces numbered as the client sent them
    written,    \* how many of them the outstanding write has sent
    sent, taken,\* pieces sent by the client, and read from it
    got,        \* the pieces the client has got
    queue,      \* the io_context's queue of handlers ready to run
    waiting,    \* the handlers a session's strand holds back
    running     \* the handler each thread is in

acceptVars == <<listening, accepting>>
streamVars == <<buffer_, written, sent, taken, got>>
execVars == <<queue, waiting, running>>
vars == <<acceptVars, session, ops, failed, streamVars, execVars>>

Ops == {"handshake", "read", "write"}

\* A completion handler: whose it is, of what, and how that ended.  For the
\* listener it ends with the connection accepted, or with Listener.
Handlers ==
    [of : Conns, done : Ops \cup {"run"}, ok : BOOLEAN]
        \cup [of : {Listener}, accepted : Conns \cup {Listener}]
Idle == [of |-> "idle"]

BeastTypeOK ==
    /\ listening \in BOOLEAN
    /\ accepting \in BOOLEAN
    /\ session \in [Conns -> {"none", "connecting", "live", "freed"}]
    /\ ops \in [Conns -> SUBSET Ops]
    /\ failed \in SUBSET Conns
    /\ buffer_ \in [Conns -> Seq(Nat)]
    /\ written \in [Conns -> 0..MSG_LEN]
    /\ sent \in [Conns -> Nat]
    /\ taken \in [Conns -> Nat]
    /\ got \in [Conns -> Seq(Nat)]
    /\ \A s \in Conns : written[s] <= Len(buffer_[s]) /\ Len(buffer_[s]) <= MSG_LEN
    /\ queue \in Seq(Handlers)
    /\ waiting \in [Conns -> Seq(Handlers)]
    /\ running \in [Threads -> Handlers \cup {Idle}]

\* main: the listener is set up, or not, and run() in either case; then the
\* threads are started.
Init ==
    /\ listening \in BOOLEAN
    /\ accepting = TRUE
    /\ session = [s \in Conns |-> "none"]
    /\ ops = [s \in Conns |-> {}]
    /\ failed = {}
    /\ buffer_ = [s \in Conns |-> <<>>]
    /\ written = [s \in Conns |-> 0]
    /\ sent = [s \in Conns |-> 0]
    /\ taken = [s \in Conns |-> 0]
    /\ got = [s \in Conns |-> <<>>]
    /\ queue = <<>>
    /\ waiting = [s \in Conns |-> <<>>]
    /\ running = [t \in Threads |-> Idle]

-----------------------------------------------------------------------------
(* The executor.                                                           *)

\* The session's strand is taken: one of its handlers is queued or running.
Locked(s) ==
    \/ \E i \in DOMAIN queue : queue[i].of = s
    \/ \E t \in Threads : running[t].of = s

\* net::make_strand: a handler goes to the queue only after those before it have
\* returned.  A variant with a bug, for the runs' mutants: without a strand.
PostAtOnce(h) == queue' = Append(queue, h) /\ UNCHANGED waiting
Post(h) ==
    IF Locked(h.of)
    THEN waiting' = [waiting EXCEPT ![h.of] = Append(@, h)] /\ UNCHANGED queue
    ELSE queue' = Append(queue, h) /\ UNCHANGED waiting

Completes(s, op, ok) ==
    /\ op \in ops[s]
    /\ ops' = [ops EXCEPT ![s] = @ \ {op}]
    /\ failed' = IF ok THEN failed ELSE failed \cup {s}
    /\ Post([of |-> s, done |-> op, ok |-> ok])
    /\ UNCHANGED running

\* A thread has come to the end of its handler; of a session whose chain has ended
\* nobody holds the shared_ptr any more.
Return(t) ==
    LET s == running[t].of
    IN  /\ running[t] # Idle
        /\ running' = [running EXCEPT ![t] = Idle]
        /\ IF s \in Conns /\ waiting[s] # <<>>
           THEN /\ queue' = Append(queue, Head(waiting[s]))
                /\ waiting' = [waiting EXCEPT ![s] = Tail(@)]
           ELSE UNCHANGED <<queue, waiting>>
        /\ session' = IF s \in Conns /\ ops[s] = {} /\ waiting[s] = <<>>
                      THEN [session EXCEPT ![s] = "freed"] ELSE session
        /\ UNCHANGED <<acceptVars, ops, failed, streamVars>>

-----------------------------------------------------------------------------
(* The network and the operations under way.                               *)

ClientConnects(s) ==
    /\ listening
    /\ session[s] = "none"
    /\ session' = [session EXCEPT ![s] = "connecting"]
    /\ UNCHANGED <<acceptVars, ops, failed, streamVars, execVars>>

ClientSends(s) ==
    /\ session[s] = "live"
    /\ s \notin failed
    /\ sent[s] < MAX_MSGS * MSG_LEN
    /\ sent[s] - Len(got[s]) <= (Window[s] - 1) * MSG_LEN
    /\ sent' = [sent EXCEPT ![s] = @ + MSG_LEN]
    /\ UNCHANGED <<acceptVars, session, ops, failed, buffer_, written, taken, got,
                   execVars>>

\* async_accept ends with a connection, or with an error: always, if the acceptor
\* could not be set up.
AcceptCompletes(s) ==
    /\ accepting
    /\ s \in Conns => session[s] = "connecting"
    /\ accepting' = FALSE
    /\ queue' = Append(queue, [of |-> Listener, accepted |-> s])
    /\ UNCHANGED <<listening, session, ops, failed, streamVars, waiting, running>>

HandshakeCompletes(s) ==
    /\ Completes(s, "handshake", TRUE)
    /\ UNCHANGED <<acceptVars, session, streamVars>>

\* A message is read piece by piece into buffer_.
ReadPiece(s) ==
    /\ "read" \in ops[s]
    /\ taken[s] < sent[s]
    /\ taken' = [taken EXCEPT ![s] = @ + 1]
    /\ buffer_' = [buffer_ EXCEPT ![s] = Append(@, taken[s] + 1)]
    /\ IF taken'[s] % MSG_LEN = 0
       THEN Completes(s, "read", TRUE)
       ELSE UNCHANGED <<ops, failed, execVars>>
    /\ UNCHANGED <<acceptVars, session, written, sent, got>>

\* What buffer_.data() spans is sent piece by piece.
WritePiece(s) ==
    /\ "write" \in ops[s]
    /\ written' = [written EXCEPT ![s] = @ + 1]
    /\ got' = [got EXCEPT ![s] = Append(@, buffer_[s][written[s] + 1])]
    /\ IF written'[s] = Len(buffer_[s])
       THEN Completes(s, "write", TRUE)
       ELSE UNCHANGED <<ops, failed, execVars>>
    /\ UNCHANGED <<acceptVars, session, buffer_, sent, taken>>

\* The client closes or is lost, or an operation times out.
OpFails(s) ==
    /\ \E op \in ops[s] : Completes(s, op, FALSE)
    /\ UNCHANGED <<acceptVars, session, streamVars>>

-----------------------------------------------------------------------------
(* The handlers: what each does, after which the operation it starts (or   *)
(* none) is outstanding.                                                   *)

Runs(t, h) ==
    /\ running[t] = Idle
    /\ queue # <<>> /\ h = Head(queue)
    /\ running' = [running EXCEPT ![t] = h]

Starts(s, started) == ops' = [ops EXCEPT ![s] = @ \cup started]

\* A variant with a bug, for the runs' mutants: after an error no other connection
\* is accepted.
StopAccepting(s) == accepting' = (s \in Conns)
do_accept(s) == accepting' = TRUE

\* session::run: on_run is dispatched to the new strand, which may run it at once.
RunQueued(s) ==
    /\ queue' = Append(Tail(queue), [of |-> s, done |-> "run", ok |-> TRUE])
    /\ UNCHANGED ops
RunInline(s) ==
    /\ queue' = Tail(queue)
    /\ Starts(s, {"handshake"})

\* listener::on_accept
ListenerOnAccept(t, s) ==
    /\ Runs(t, [of |-> Listener, accepted |-> s])
    /\ \/ /\ s \in Conns
          /\ session' = [session EXCEPT ![s] = "live"]
          /\ RunQueued(s) \/ RunInline(s)
       \/ /\ s = Listener
          /\ queue' = Tail(queue)
          /\ UNCHANGED <<session, ops>>
    /\ do_accept(s)
    /\ UNCHANGED <<listening, failed, streamVars, waiting>>

SessionRuns(t, s, done, ok) ==
    /\ Runs(t, [of |-> s, done |-> done, ok |-> ok])
    /\ queue' = Tail(queue)
    /\ UNCHANGED <<acceptVars, session, failed, sent, taken, got, waiting>>

OnRun(t, s) ==
    /\ SessionRuns(t, s, "run", TRUE)
    /\ Starts(s, {"handshake"})
    /\ UNCHANGED <<buffer_, written>>

\* session::on_accept
OnAccept(t, s) ==
    /\ SessionRuns(t, s, "handshake", TRUE)
    /\ Starts(s, {"read"})
    /\ UNCHANGED <<buffer_, written>>

\* Variants with a bug, for the runs' mutants: the next read is started with the
\* write.
EchoAndRead(s) == {"write", "read"}
EchoOps(s) == {"write"}

OnRead(t, s) ==
    /\ SessionRuns(t, s, "read", TRUE)
    /\ Starts(s, EchoOps(s))
    /\ written' = [written EXCEPT ![s] = 0]
    /\ UNCHANGED buffer_

\* buffer_.consume.  A variant with a bug, for the runs' mutants: it is left out.
Unconsumed(s) == buffer_
Consumed(s) == [buffer_ EXCEPT ![s] = <<>>]

OnWrite(t, s) ==
    /\ SessionRuns(t, s, "write", TRUE)
    /\ buffer_' = Consumed(s)
    /\ written' = [written EXCEPT ![s] = 0]
    /\ Starts(s, {"read"})

\* Any of them with an error: reported, if at all, and the chain ends.  A variant
\* with a bug, for the runs' mutants: the read is started again.
AfterErrorRead(s) == {"read"}
AfterError(s) == {}
OnError(t, s) ==
    /\ \E op \in Ops : SessionRuns(t, s, op, FALSE)
    /\ Starts(s, AfterError(s))
    /\ UNCHANGED <<buffer_, written>>

-----------------------------------------------------------------------------
\* What a thread does, and what goes on without one.
ThreadStep(t) ==
    \/ Return(t)
    \/ \E s \in Conns \cup {Listener} : ListenerOnAccept(t, s)
    \/ \E s \in Conns :
         OnRun(t, s) \/ OnAccept(t, s) \/ OnRead(t, s) \/ OnWrite(t, s) \/ OnError(t, s)

Progress(s) == HandshakeCompletes(s) \/ ReadPiece(s) \/ WritePiece(s)

Next ==
    \/ \E t \in Threads : ThreadStep(t)
    \/ \E s \in Conns :
         Progress(s) \/ OpFails(s) \/ ClientConnects(s) \/ ClientSends(s)
    \/ \E s \in Conns \cup {Listener} : AcceptCompletes(s)

Spec == Init /\ [][Next]_vars

\* Every thread goes on, and the network delivers.
FairSpec ==
    /\ Spec
    /\ \A t \in Threads : WF_vars(ThreadStep(t))
    /\ \A s \in Conns : WF_vars(Progress(s))

-----------------------------------------------------------------------------
\* What is outstanding of a chain: the handlers that are queued, completions nobody
\* has looked at yet, and besides, those held back and the operations of a session.
Queued(s) == Cardinality({i \in DOMAIN queue : queue[i].of = s})
Links(s) == Queued(s) + Len(waiting[s]) + Cardinality(ops[s])

\* Each chain has exactly one thing outstanding, an operation or its completion: a
\* second one would be a race, and none the end of the session or, with every
\* error of accept, of the server.  Only an error ends a session's chain.
ChainUnbroken ==
    /\ Queued(Listener) = IF accepting THEN 0 ELSE 1
    /\ \A s \in Conns :
         /\ session[s] = "live" => \/ Links(s) = 1
                                   \/ Links(s) = 0 /\ s \in failed
         /\ session[s] = "freed" => Links(s) = 0 /\ s \in failed

\* No two threads are in handlers of the same session.
HandlersSerial ==
    \A t, u \in Threads :
        t # u /\ running[t].of \in Conns => running[t].of # running[u].of

\* While a write is outstanding, nothing touches the buffer it sends from.
WriteOwnsBuffer ==
    [][\A s \in Conns : "write" \in ops[s] => buffer_'[s] = buffer_[s]]_vars

\* The messages a client has got back: 0 for one that is not what it sent.
Replies(s) ==
    [i \in 1..(Len(got[s]) \div MSG_LEN) |->
        IF \A k \in ((i - 1) * MSG_LEN + 1)..(i * MSG_LEN) : got[s][k] = k
        THEN i ELSE 0]

Service == INSTANCE EchoService WITH
    requests <- [s \in Conns |-> sent[s] \div MSG_LEN],
    replies <- [s \in Conns |-> Replies(s)],
    down <- failed

\* Every client gets its messages back, once, in order and, unless its session
\* fails, all of them: whatever the threads and the other sessions do, and also
\* while the listener fails to accept time and again.
ImplementsEcho == Service!FairSpec

\* The session whose chain an error has ended is freed.
FailedAreFreed == \A s \in Conns : s \in failed ~> session[s] = "freed"
=============================================================================
