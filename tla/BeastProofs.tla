---------------------------- MODULE BeastProofs ----------------------------
(***************************************************************************)
(* Proofs about the session and listener chains of BeastEchoServer, for    *)
(* any number of sessions and threads.  The inductive invariant says where *)
(* a session's chain is, of six places it can be in, and what the buffer   *)
(* holds there; of the queue it speaks only by the handlers of one chain   *)
(* at a time, so that a step of one session leaves what is said of the     *)
(* others as it was.                                                       *)
(***************************************************************************)
EXTENDS BeastEchoServer, SumProofs

-----------------------------------------------------------------------------
(* The queue, as one chain sees it.                                        *)

\* No handler of s is in the queue.
NoneOf(q, s) == \A i \in DOMAIN q : q[i].of # s

\* The handler h of s is in the queue, and no other of s.
OnlyOf(q, s, h) ==
    \E i \in DOMAIN q : q[i] = h /\ \A j \in DOMAIN q : q[j].of = s <=> j = i

\* A handler of another chain enters the queue.
LEMMA AppendOther ==
    ASSUME NEW H, NEW q \in Seq(H), NEW h \in H, NEW s, h.of # s
    PROVE  /\ NoneOf(q, s) => NoneOf(Append(q, h), s)
           /\ \A k : OnlyOf(q, s, k) => OnlyOf(Append(q, h), s, k)
<1> DEFINE r == Append(q, h)
<1>1. /\ DOMAIN q = 1..Len(q) /\ DOMAIN r = 1..(Len(q) + 1) /\ Len(q) \in Nat
      /\ \A i \in 1..Len(q) : r[i] = q[i]
      /\ r[Len(q) + 1] = h
  OBVIOUS
<1>2. \A j \in DOMAIN r : (j \in DOMAIN q /\ r[j] = q[j]) \/ r[j].of # s
  BY <1>1
<1>3. DOMAIN q \subseteq DOMAIN r
  BY <1>1
<1> HIDE DEF r
<1>4. NoneOf(q, s) => NoneOf(r, s)
  BY <1>2 DEF NoneOf
<1>5. ASSUME NEW k, OnlyOf(q, s, k) PROVE OnlyOf(r, s, k)
  <2>1. PICK i \in DOMAIN q : q[i] = k /\ \A j \in DOMAIN q : q[j].of = s <=> j = i
    BY <1>5 DEF OnlyOf
  <2>2. i \in DOMAIN r /\ r[i] = k
    BY <1>1, <2>1
  <2>3. \A j \in DOMAIN r : r[j].of = s <=> j = i
    BY <1>1, <1>2, <2>1, <2>2
  <2> QED
    BY <2>2, <2>3 DEF OnlyOf
<1> QED
  BY <1>4, <1>5 DEF r

\* A handler of s enters the queue: it is the only one.
LEMMA AppendOwn ==
    ASSUME NEW H, NEW q \in Seq(H), NEW h \in H, NoneOf(q, h.of)
    PROVE  OnlyOf(Append(q, h), h.of, h)
<1> DEFINE r == Append(q, h)
           n == Len(q) + 1
<1>1. /\ DOMAIN q = 1..Len(q) /\ DOMAIN r = 1..n /\ Len(q) \in Nat
      /\ \A i \in 1..Len(q) : r[i] = q[i]
      /\ r[n] = h
  OBVIOUS
<1>2. n \in DOMAIN r /\ \A j \in DOMAIN r : r[j].of = h.of <=> j = n
  BY <1>1 DEF NoneOf
<1> QED
  BY <1>1, <1>2 DEF OnlyOf

\* A handler of another chain leaves the queue.
LEMMA TailOther ==
    ASSUME NEW H, NEW q \in Seq(H), q # <<>>, NEW s, Head(q).of # s
    PROVE  /\ NoneOf(q, s) => NoneOf(Tail(q), s)
           /\ \A k : OnlyOf(q, s, k) => OnlyOf(Tail(q), s, k)
<1> DEFINE r == Tail(q)
<1>1. /\ DOMAIN q = 1..Len(q) /\ DOMAIN r = 1..(Len(q) - 1) /\ Len(q) \in Nat \ {0}
      /\ \A i \in 1..(Len(q) - 1) : r[i] = q[i + 1]
      /\ q[1].of # s
  OBVIOUS
<1> HIDE DEF r
<1>2. NoneOf(q, s) => NoneOf(r, s)
  BY <1>1 DEF NoneOf
<1>3. ASSUME NEW k, OnlyOf(q, s, k) PROVE OnlyOf(r, s, k)
  <2>1. PICK i \in DOMAIN q : q[i] = k /\ \A j \in DOMAIN q : q[j].of = s <=> j = i
    BY <1>3 DEF OnlyOf
  <2>2. i # 1
    BY <1>1, <2>1
  <2>3. i - 1 \in DOMAIN r /\ r[i - 1] = k
    BY <1>1, <2>1, <2>2
  <2>4. ASSUME NEW j \in DOMAIN r PROVE r[j].of = s <=> j = i - 1
    <3>1. j + 1 \in DOMAIN q /\ r[j] = q[j + 1]
      BY <1>1
    <3>2. q[j + 1].of = s <=> j + 1 = i
      BY <2>1, <3>1
    <3> QED
      BY <1>1, <3>1, <3>2, SMTT(30)
  <2> QED
    BY <2>3, <2>4 DEF OnlyOf
<1> QED
  BY <1>2, <1>3 DEF r

\* The only handler of s leaves the queue.
LEMMA TailOwn ==
    ASSUME NEW H, NEW q \in Seq(H), q # <<>>, NEW s, Head(q).of = s
    PROVE  /\ ~NoneOf(q, s)
           /\ \A k : OnlyOf(q, s, k) => Head(q) = k /\ NoneOf(Tail(q), s)
<1>1. /\ DOMAIN q = 1..Len(q) /\ DOMAIN Tail(q) = 1..(Len(q) - 1)
      /\ Len(q) \in Nat \ {0} /\ 1 \in DOMAIN q
      /\ \A i \in 1..(Len(q) - 1) : Tail(q)[i] = q[i + 1]
      /\ q[1] = Head(q) /\ q[1].of = s
  OBVIOUS
<1>2. ~NoneOf(q, s)
  BY <1>1 DEF NoneOf
<1>3. ASSUME NEW k, OnlyOf(q, s, k) PROVE Head(q) = k /\ NoneOf(Tail(q), s)
  <2>1. PICK i \in DOMAIN q : q[i] = k /\ \A j \in DOMAIN q : q[j].of = s <=> j = i
    BY <1>3 DEF OnlyOf
  <2>2. i = 1
    BY <1>1, <2>1
  <2> QED
    BY <1>1, <2>1, <2>2 DEF NoneOf
<1> QED
  BY <1>2, <1>3

\* How many handlers of s that makes.
LEMMA QueuedIs ==
    ASSUME NEW s
    PROVE  /\ NoneOf(queue, s) => Queued(s) = 0
           /\ \A h : OnlyOf(queue, s, h) => Queued(s) = 1
<1> DEFINE own == {i \in DOMAIN queue : queue[i].of = s}
<1>1. NoneOf(queue, s) => own = {}
  BY DEF NoneOf
<1>2. ASSUME NEW h, OnlyOf(queue, s, h) PROVE Cardinality(own) = 1
  <2>1. PICK i \in DOMAIN queue : own = {i}
    BY <1>2 DEF OnlyOf
  <2> QED
    BY <2>1, SingletonCount
<1> QED
  BY <1>1, <1>2, FS_EmptySet DEF Queued

-----------------------------------------------------------------------------
(* The inductive invariant.                                                *)

\* A thread is in a handler of s.
InHandler(s) == \E t \in Threads : running[t].of = s

\* Nothing of the session's chain is queued, held back or under way.
NothingQueued(s) == NoneOf(queue, s) /\ waiting[s] = <<>>

\* The six places the chain of a session can be in: there is no session yet; the
\* operation op is outstanding; the handler h is queued, or held back by the strand
\* because its predecessor has not returned; the last handler has not returned; it
\* has, and the session is freed.
Absent(s) ==
    /\ session[s] \in {"none", "connecting"} /\ s \notin failed
    /\ ops[s] = {} /\ NothingQueued(s) /\ ~InHandler(s)
Outstanding(s, op) ==
    session[s] = "live" /\ s \notin failed /\ ops[s] = {op} /\ NothingQueued(s)
Due(s, h) ==
    /\ session[s] = "live" /\ ops[s] = {}
    /\ OnlyOf(queue, s, h) /\ waiting[s] = <<>> /\ ~InHandler(s)
HeldBack(s, h) ==
    /\ session[s] = "live" /\ ops[s] = {}
    /\ NoneOf(queue, s) /\ waiting[s] = <<h>> /\ InHandler(s)
Ending(s) ==
    /\ session[s] = "live" /\ s \in failed
    /\ ops[s] = {} /\ NothingQueued(s) /\ InHandler(s)
Freed(s) ==
    /\ session[s] = "freed" /\ s \in failed
    /\ ops[s] = {} /\ NothingQueued(s) /\ ~InHandler(s)

Completion(s, op, ok) == [of |-> s, done |-> op, ok |-> ok]
Completed(s, op, ok) ==
    /\ s \in failed <=> ~ok
    /\ Due(s, Completion(s, op, ok)) \/ HeldBack(s, Completion(s, op, ok))

\* What the buffer holds while op is outstanding, and once it has succeeded.
Fresh(s) == Len(buffer_[s]) = 0 /\ written[s] = 0 /\ taken[s] = 0
Whole(s) == Len(buffer_[s]) = MSG_LEN /\ taken[s] % MSG_LEN = 0
During(s, op) ==
    /\ op = "handshake" => Fresh(s)
    /\ op = "read" => written[s] = 0 /\ Len(buffer_[s]) = taken[s] % MSG_LEN
    /\ op = "write" => Whole(s) /\ written[s] < MSG_LEN
After(s, op) ==
    /\ op \in {"run", "handshake"} => Fresh(s)
    /\ op = "read" => Whole(s) /\ written[s] = 0
    /\ op = "write" => Whole(s) /\ written[s] = MSG_LEN

Chain(s) ==
    \/ Absent(s) /\ Fresh(s)
    \/ \E op \in Ops : Outstanding(s, op) /\ During(s, op)
    \/ \E op \in Ops \cup {"run"} : Completed(s, op, TRUE) /\ After(s, op)
    \/ \E op \in Ops : Completed(s, op, FALSE)
    \/ Ending(s)
    \/ Freed(s)

\* Every piece taken from the client is in the buffer b or sent back, and the pieces
\* are in order: those the client has got, g, and those in the buffer after them.
StreamOf(g, b, w, read, provided) ==
    /\ Len(g) + Len(b) = read + w
    /\ read <= provided
    /\ \A i \in 1..Len(g) : g[i] = i
    /\ \A j \in 1..Len(b) : b[j] + w = Len(g) + j
Stream(s) == StreamOf(got[s], buffer_[s], written[s], taken[s], sent[s])

\* The listener's chain: either the accept is outstanding, or its handler is queued.
Accepted(s) == [of |-> Listener, accepted |-> s]
ListenerChain ==
    /\ accepting => NoneOf(queue, Listener)
    /\ ~accepting =>
         \E s \in Conns \cup {Listener} :
            /\ OnlyOf(queue, Listener, Accepted(s))
            /\ s \in Conns => session[s] = "connecting"

BeastInv ==
    /\ BeastTypeOK
    /\ HandlersSerial
    /\ ListenerChain
    /\ \A s \in Conns : Chain(s) /\ Stream(s)

-----------------------------------------------------------------------------
(* What a step leaves alone.                                               *)

QueueKeeps(s) ==
    /\ NoneOf(queue, s) => NoneOf(queue', s)
    /\ \A k : OnlyOf(queue, s, k) => OnlyOf(queue', s, k)
ExecKeeps(s) == QueueKeeps(s) /\ (InHandler(s)' <=> InHandler(s))
Unmoved(s) ==
    /\ ExecKeeps(s)
    /\ session'[s] = session[s] /\ ops'[s] = ops[s] /\ waiting'[s] = waiting[s]
    /\ s \in failed' <=> s \in failed
SameBytes(s) ==
    /\ buffer_'[s] = buffer_[s] /\ written'[s] = written[s]
    /\ sent'[s] = sent[s] /\ taken'[s] = taken[s] /\ got'[s] = got[s]

\* A chain that does not move stays where it is.
LEMMA PlacesKept ==
    ASSUME NEW s, Unmoved(s)
    PROVE  /\ Absent(s) => Absent(s)'
           /\ \A op : Outstanding(s, op) => Outstanding(s, op)'
           /\ \A op, ok : Completed(s, op, ok) => Completed(s, op, ok)'
           /\ Ending(s) => Ending(s)'
           /\ Freed(s) => Freed(s)'
<1> USE DEF Unmoved, ExecKeeps, QueueKeeps, NothingQueued
<1>1. Absent(s) => Absent(s)'
  BY DEF Absent
<1>2. ASSUME NEW op, Outstanding(s, op) PROVE Outstanding(s, op)'
  BY <1>2 DEF Outstanding
<1>3. ASSUME NEW op, NEW ok, Completed(s, op, ok) PROVE Completed(s, op, ok)'
  <2> DEFINE h == Completion(s, op, ok)
  <2>1. Due(s, h) => Due(s, h)'
    BY DEF Due, Completion
  <2>2. HeldBack(s, h) => HeldBack(s, h)'
    BY DEF HeldBack, Completion
  <2> QED
    BY <1>3, <2>1, <2>2 DEF Completed
<1>4. Ending(s) => Ending(s)'
  BY DEF Ending
<1>5. Freed(s) => Freed(s)'
  BY DEF Freed
<1> QED
  BY <1>1, <1>2, <1>3, <1>4, <1>5

\* Nor does anything change in its buffer.
LEMMA BytesKept ==
    ASSUME NEW s, SameBytes(s)
    PROVE  /\ Fresh(s) => Fresh(s)'
           /\ \A op : During(s, op) => During(s, op)'
           /\ \A op : After(s, op) => After(s, op)'
           /\ Stream(s) => Stream(s)'
BY DEF SameBytes, Fresh, During, After, Whole, Stream, StreamOf

\* The invariant's part about a session that a step does not touch.
LEMMA ChainFrame ==
    ASSUME NEW s \in Conns, Chain(s), Stream(s), Unmoved(s), SameBytes(s)
    PROVE  Chain(s)' /\ Stream(s)'
BY PlacesKept, BytesKept DEF Chain

\* A step of one session: what is left to show of it.
LEMMA SessionStep ==
    ASSUME BeastInv, NEW s \in Conns,
           BeastTypeOK', HandlersSerial',
           accepting' = accepting, QueueKeeps(Listener),
           session[s] = "connecting" => session'[s] = "connecting",
           \A r \in Conns : r # s => Unmoved(r) /\ SameBytes(r),
           Chain(s)', Stream(s)'
    PROVE  BeastInv'
<1>1. ASSUME NEW r \in Conns PROVE Chain(r)' /\ Stream(r)'
  BY <1>1, ChainFrame DEF BeastInv
<1>2. \A r \in Conns : session[r] = "connecting" => session'[r] = "connecting"
  BY DEF Unmoved
<1>3. ListenerChain'
  BY <1>2 DEF BeastInv, ListenerChain, QueueKeeps, Accepted
<1> QED
  BY <1>1, <1>3 DEF BeastInv

-----------------------------------------------------------------------------
(* The executor.                                                           *)

\* Of whom a handler can be.
LEMMA HandlersAre ==
    /\ \A h \in Handlers : h.of \in Conns \cup {Listener} /\ h # Idle
    /\ Idle.of \notin Conns \cup {Listener}
    /\ \A s \in Conns \cup {Listener} :
         Accepted(s) \in Handlers /\ Accepted(s).of = Listener
    /\ \A s \in Conns, op \in Ops \cup {"run"}, ok \in BOOLEAN :
         Completion(s, op, ok) \in Handlers /\ Completion(s, op, ok).of = s
BY BeastAssumption DEF Handlers, Idle, Accepted, Completion

\* Which completions are the same.
LEMMA CompletionsDiffer ==
    ASSUME NEW s, NEW op, NEW ok, NEW p, NEW k,
           Completion(s, op, ok) = Completion(s, p, k)
    PROVE  op = p /\ ok = k
<1>1. /\ Completion(s, op, ok).done = op /\ Completion(s, op, ok).ok = ok
      /\ Completion(s, p, k).done = p /\ Completion(s, p, k).ok = k
  BY DEF Completion
<1> QED
  BY <1>1

\* A thread takes a handler, of a chain no thread is in a handler of.
LEMMA ThreadTakes ==
    ASSUME BeastInv, NEW t \in Threads, NEW h \in Handlers, Runs(t, h),
           h.of \in Conns => ~InHandler(h.of)
    PROVE  /\ running' \in [Threads -> Handlers \cup {Idle}]
           /\ HandlersSerial'
           /\ InHandler(h.of)'
           /\ \A r \in Conns \cup {Listener} :
                r # h.of => (InHandler(r)' <=> InHandler(r))
<1>1. running \in [Threads -> Handlers \cup {Idle}] /\ HandlersSerial
  BY DEF BeastInv, BeastTypeOK
<1>2. /\ running[t] = Idle /\ running' = [running EXCEPT ![t] = h]
      /\ running'[t] = h
      /\ \A u \in Threads : u # t => running'[u] = running[u]
  BY <1>1 DEF Runs
<1>3. running' \in [Threads -> Handlers \cup {Idle}]
  BY <1>1, <1>2
<1>4. InHandler(h.of)'
  BY <1>2 DEF InHandler
<1>5. ASSUME NEW r \in Conns \cup {Listener}, r # h.of
      PROVE  InHandler(r)' <=> InHandler(r)
  <2>1. running[t].of # r /\ running'[t].of # r
    BY <1>2, <1>5, HandlersAre
  <2> QED
    BY <1>2, <2>1 DEF InHandler
<1>6. HandlersSerial'
  BY <1>1, <1>2 DEF HandlersSerial, InHandler
<1> QED
  BY <1>3, <1>4, <1>5, <1>6

\* A session with a handler in the queue is where it is due, and it is that one.
LEMMA HeadIsDue ==
    ASSUME BeastInv, queue # <<>>, NEW s \in Conns, Head(queue).of = s
    PROVE  \E op \in Ops \cup {"run"}, ok \in BOOLEAN :
             /\ Head(queue) = Completion(s, op, ok)
             /\ Due(s, Completion(s, op, ok))
             /\ s \in failed <=> ~ok
             /\ ok => After(s, op)
             /\ NoneOf(Tail(queue), s)
<1>1. queue \in Seq(Handlers) /\ Chain(s)
  BY DEF BeastInv, BeastTypeOK
<1>2. ~NoneOf(queue, s)
      /\ \A k : OnlyOf(queue, s, k) => Head(queue) = k /\ NoneOf(Tail(queue), s)
  BY <1>1, TailOwn
<1>3. ASSUME NEW op \in Ops \cup {"run"}, NEW ok \in BOOLEAN, Completed(s, op, ok),
             ok => After(s, op)
      PROVE  /\ Head(queue) = Completion(s, op, ok)
             /\ Due(s, Completion(s, op, ok))
             /\ s \in failed <=> ~ok
             /\ NoneOf(Tail(queue), s)
  <2>1. Due(s, Completion(s, op, ok)) /\ (s \in failed <=> ~ok)
    BY <1>2, <1>3 DEF Completed, HeldBack
  <2>2. OnlyOf(queue, s, Completion(s, op, ok))
    BY <2>1 DEF Due
  <2> QED
    BY <1>2, <2>1, <2>2
<1>4. \/ \E op \in Ops \cup {"run"} : Completed(s, op, TRUE) /\ After(s, op)
      \/ \E op \in Ops : Completed(s, op, FALSE)
  BY <1>1, <1>2 DEF Chain, Absent, Outstanding, Ending, Freed, NothingQueued
<1>5. CASE \E op \in Ops \cup {"run"} : Completed(s, op, TRUE) /\ After(s, op)
  <2>1. PICK op \in Ops \cup {"run"} : Completed(s, op, TRUE) /\ After(s, op)
    BY <1>5
  <2>2. TRUE \in BOOLEAN
    OBVIOUS
  <2> QED
    BY <2>1, <2>2, <1>3
<1>6. CASE \E op \in Ops : Completed(s, op, FALSE)
  <2>1. PICK op \in Ops : Completed(s, op, FALSE)
    BY <1>6
  <2>2. FALSE \in BOOLEAN
    OBVIOUS
  <2> QED
    BY <2>1, <2>2, <1>3
<1> QED
  BY <1>4, <1>5, <1>6

\* A handler of a session is run: it was due, with what its operation left, and
\* now nothing of its session is queued, and its thread is the only one in it.
LEMMA HandlerRuns ==
    ASSUME BeastInv, NEW t \in Threads, NEW s \in Conns,
           NEW op \in Ops \cup {"run"}, NEW ok \in BOOLEAN, SessionRuns(t, s, op, ok)
    PROVE  /\ session[s] = "live" /\ ops[s] = {} /\ waiting[s] = <<>>
           /\ s \in failed <=> ~ok
           /\ ok => After(s, op)
           /\ NoneOf(queue', s) /\ InHandler(s)'
           /\ queue' \in Seq(Handlers)
           /\ running' \in [Threads -> Handlers \cup {Idle}]
           /\ HandlersSerial'
           /\ \A r \in Conns \cup {Listener} : r # s => ExecKeeps(r)
<1> DEFINE h == Completion(s, op, ok)
<1>1. h \in Handlers /\ h.of = s
  BY HandlersAre
<1>2. queue \in Seq(Handlers)
  BY DEF BeastInv, BeastTypeOK
<1>3. Runs(t, h) /\ queue' = Tail(queue) /\ queue # <<>> /\ Head(queue) = h
  BY DEF SessionRuns, Runs, Completion
<1>4. PICK p \in Ops \cup {"run"}, k \in BOOLEAN :
         /\ Head(queue) = Completion(s, p, k)
         /\ Due(s, Completion(s, p, k))
         /\ s \in failed <=> ~k
         /\ k => After(s, p)
         /\ NoneOf(Tail(queue), s)
  BY <1>1, <1>3, HeadIsDue
<1>5. op = p /\ ok = k
  BY <1>3, <1>4, CompletionsDiffer
<1>6. /\ session[s] = "live" /\ ops[s] = {} /\ waiting[s] = <<>> /\ ~InHandler(s)
  BY <1>4 DEF Due
<1>7. /\ running' \in [Threads -> Handlers \cup {Idle}]
      /\ HandlersSerial'
      /\ InHandler(s)'
      /\ \A r \in Conns \cup {Listener} : r # s => (InHandler(r)' <=> InHandler(r))
  BY <1>1, <1>3, <1>6, ThreadTakes
<1>8. queue' \in Seq(Handlers)
  BY <1>2, <1>3
<1>9. ASSUME NEW r \in Conns \cup {Listener}, r # s PROVE ExecKeeps(r)
  <2>1. QueueKeeps(r)
    BY <1>1, <1>2, <1>3, <1>9, TailOther DEF QueueKeeps
  <2> QED
    BY <1>7, <1>9, <2>1 DEF ExecKeeps
<1> QED
  BY <1>3, <1>4, <1>5, <1>6, <1>7, <1>8, <1>9

\* The constants the buffer's arithmetic needs.
LEMMA LenOK == MSG_LEN \in Nat \ {0}
BY BeastAssumption

\* What the type invariant says of one session.
LEMMA SessionTypes ==
    ASSUME BeastTypeOK, NEW s \in Conns
    PROVE  /\ ops[s] \in SUBSET Ops
           /\ buffer_[s] \in Seq(Nat) /\ got[s] \in Seq(Nat)
           /\ Len(buffer_[s]) \in Nat /\ Len(got[s]) \in Nat
           /\ written[s] \in Nat /\ sent[s] \in Nat /\ taken[s] \in Nat
           /\ written[s] <= Len(buffer_[s]) /\ Len(buffer_[s]) <= MSG_LEN
BY LenOK DEF BeastTypeOK

-----------------------------------------------------------------------------
(* The handlers.                                                           *)

\* A handler that starts an operation, or after an error none, keeps the invariant
\* if what it leaves in its buffer is in order.
LEMMA HandlerStep ==
    ASSUME BeastInv, NEW t \in Threads, NEW s \in Conns,
           NEW op \in Ops \cup {"run"}, NEW ok \in BOOLEAN, SessionRuns(t, s, op, ok),
           NEW started \in SUBSET Ops, Starts(s, started),
           buffer_' \in [Conns -> Seq(Nat)], written' \in [Conns -> 0..MSG_LEN],
           written'[s] <= Len(buffer_'[s]), Len(buffer_'[s]) <= MSG_LEN,
           \A r \in Conns :
             r # s => buffer_'[r] = buffer_[r] /\ written'[r] = written[r],
           ok => \E next \in Ops : started = {next} /\ During(s, next)',
           ~ok => started = {},
           Stream(s)'
    PROVE  BeastInv'
<1> USE DEF SessionRuns, acceptVars
<1>1. /\ session[s] = "live" /\ ops[s] = {} /\ waiting[s] = <<>>
      /\ s \in failed <=> ~ok
      /\ NoneOf(queue', s) /\ InHandler(s)'
      /\ queue' \in Seq(Handlers)
      /\ running' \in [Threads -> Handlers \cup {Idle}]
      /\ HandlersSerial'
      /\ \A r \in Conns \cup {Listener} : r # s => ExecKeeps(r)
  BY HandlerRuns
<1>2. BeastTypeOK /\ ops \in [Conns -> SUBSET Ops]
  BY DEF BeastInv, BeastTypeOK
<1>3. /\ ops' \in [Conns -> SUBSET Ops] /\ ops'[s] = started
      /\ \A r \in Conns : r # s => ops'[r] = ops[r]
  BY <1>1, <1>2 DEF Starts
<1>4. ASSUME NEW r \in Conns
      PROVE  written'[r] <= Len(buffer_'[r]) /\ Len(buffer_'[r]) <= MSG_LEN
  BY <1>2 DEF BeastTypeOK
<1>5. BeastTypeOK'
  BY <1>1, <1>2, <1>3, <1>4 DEF BeastTypeOK
<1>6. ASSUME NEW r \in Conns, r # s PROVE Unmoved(r) /\ SameBytes(r)
  BY <1>1, <1>3, <1>6 DEF Unmoved, SameBytes
<1>7. QueueKeeps(Listener)
  BY <1>1, BeastAssumption DEF ExecKeeps
<1>8. Chain(s)'
  <2>1. CASE ok
    <3>1. PICK next \in Ops : started = {next} /\ During(s, next)'
      BY <2>1
    <3>2. Outstanding(s, next)'
      BY <1>1, <1>3, <2>1, <3>1 DEF Outstanding, NothingQueued
    <3> QED
      BY <3>1, <3>2 DEF Chain
  <2>2. CASE ~ok
    <3>1. Ending(s)'
      BY <1>1, <1>3, <2>2 DEF Ending, NothingQueued
    <3> QED
      BY <3>1 DEF Chain
  <2> QED
    BY <2>1, <2>2
<1> QED
  BY <1>1, <1>5, <1>6, <1>7, <1>8, SessionStep

\* session::on_run and on_accept: the handshake is started, then the first read.
LEMMA OnRunStep ==
    ASSUME BeastInv, NEW t \in Threads, NEW s \in Conns,
           OnRun(t, s) \/ OnAccept(t, s)
    PROVE  BeastInv'
<1>1. /\ BeastTypeOK /\ Stream(s)
      /\ buffer_ \in [Conns -> Seq(Nat)] /\ written \in [Conns -> 0..MSG_LEN]
  BY DEF BeastInv, BeastTypeOK
<1>2. written[s] <= Len(buffer_[s]) /\ Len(buffer_[s]) <= MSG_LEN
  BY <1>1, SessionTypes
<1>3. PICK op \in {"run", "handshake"}, next \in {"handshake", "read"} :
         SessionRuns(t, s, op, TRUE) /\ Starts(s, {next})
         /\ UNCHANGED <<buffer_, written>>
  BY DEF OnRun, OnAccept
<1>4. op \in Ops \cup {"run"} /\ next \in Ops /\ TRUE \in BOOLEAN /\ {next} \in SUBSET Ops
  BY DEF Ops
<1>5. Fresh(s)
  <2>1. After(s, op)
    BY <1>3, <1>4, HandlerRuns
  <2> QED
    BY <2>1 DEF After
<1>6. Stream(s)' /\ Fresh(s)'
  BY <1>1, <1>3, <1>5 DEF Stream, StreamOf, Fresh, SessionRuns
<1>7. During(s, next)'
  <2>1. 0 % MSG_LEN = 0
    BY LenOK
  <2> QED
    BY <1>3, <1>6, <2>1 DEF During, Fresh
<1>8. /\ buffer_' \in [Conns -> Seq(Nat)] /\ written' \in [Conns -> 0..MSG_LEN]
      /\ written'[s] <= Len(buffer_'[s]) /\ Len(buffer_'[s]) <= MSG_LEN
      /\ \A r \in Conns :
           r # s => buffer_'[r] = buffer_[r] /\ written'[r] = written[r]
      /\ \E op2 \in Ops : {next} = {op2} /\ During(s, op2)'
  BY <1>1, <1>2, <1>3, <1>4, <1>7
<1> QED
  BY <1>3, <1>4, <1>6, <1>8, HandlerStep

\* session::on_read: the message in the buffer is whole, and is written.
LEMMA OnReadStep ==
    ASSUME BeastInv, NEW t \in Threads, NEW s \in Conns, OnRead(t, s)
    PROVE  BeastInv'
<1>1. /\ BeastTypeOK /\ Stream(s)
      /\ buffer_ \in [Conns -> Seq(Nat)] /\ written \in [Conns -> 0..MSG_LEN]
  BY DEF BeastInv, BeastTypeOK
<1>2. /\ SessionRuns(t, s, "read", TRUE) /\ Starts(s, {"write"})
      /\ buffer_' = buffer_ /\ written' = [written EXCEPT ![s] = 0]
  BY DEF OnRead, EchoOps
<1>3. "read" \in Ops \cup {"run"} /\ "write" \in Ops /\ TRUE \in BOOLEAN
  BY DEF Ops
<1>4. Whole(s) /\ written[s] = 0
  BY <1>2, <1>3, HandlerRuns DEF After
<1>5. /\ written' \in [Conns -> 0..MSG_LEN] /\ written'[s] = 0
      /\ \A r \in Conns : r # s => written'[r] = written[r]
  BY <1>1, <1>2, LenOK
<1>6. taken' = taken /\ sent' = sent /\ got' = got
  BY <1>2 DEF SessionRuns
<1>7. Stream(s)' /\ Whole(s)'
  BY <1>1, <1>2, <1>4, <1>5, <1>6 DEF Stream, StreamOf, Whole
<1>8. During(s, "write")'
  BY <1>5, <1>7, LenOK DEF During
<1>9. /\ buffer_' \in [Conns -> Seq(Nat)]
      /\ written'[s] <= Len(buffer_'[s]) /\ Len(buffer_'[s]) <= MSG_LEN
      /\ \A r \in Conns :
           r # s => buffer_'[r] = buffer_[r] /\ written'[r] = written[r]
      /\ {"write"} \in SUBSET Ops
      /\ \E op \in Ops : {"write"} = {op} /\ During(s, op)'
  <2>1. 0 <= Len(buffer_[s]) /\ Len(buffer_[s]) <= MSG_LEN
    BY <1>1, SessionTypes
  <2> QED
    BY <1>1, <1>2, <1>3, <1>5, <1>8, <2>1
<1> QED
  BY <1>2, <1>3, <1>5, <1>7, <1>9, HandlerStep

\* session::on_write: what was written is consumed, and the next message read.
LEMMA OnWriteStep ==
    ASSUME BeastInv, NEW t \in Threads, NEW s \in Conns, OnWrite(t, s)
    PROVE  BeastInv'
<1>1. /\ BeastTypeOK /\ Stream(s)
      /\ buffer_ \in [Conns -> Seq(Nat)] /\ written \in [Conns -> 0..MSG_LEN]
      /\ Len(got[s]) \in Nat /\ taken[s] \in Nat
  BY SessionTypes DEF BeastInv, BeastTypeOK
<1>2. /\ SessionRuns(t, s, "write", TRUE) /\ Starts(s, {"read"})
      /\ buffer_' = [buffer_ EXCEPT ![s] = <<>>]
      /\ written' = [written EXCEPT ![s] = 0]
  BY DEF OnWrite, Consumed
<1>3. "write" \in Ops \cup {"run"} /\ "read" \in Ops /\ TRUE \in BOOLEAN
  BY DEF Ops
<1>4. Whole(s) /\ written[s] = MSG_LEN
  BY <1>2, <1>3, HandlerRuns DEF After
<1>5. /\ written' \in [Conns -> 0..MSG_LEN] /\ written'[s] = 0
      /\ buffer_' \in [Conns -> Seq(Nat)] /\ buffer_'[s] = <<>>
      /\ \A r \in Conns :
           r # s => buffer_'[r] = buffer_[r] /\ written'[r] = written[r]
  BY <1>1, <1>2, LenOK
<1>6. taken' = taken /\ sent' = sent /\ got' = got
  BY <1>2 DEF SessionRuns
<1>7. Len(got[s]) = taken[s]
  <2>1. Len(got[s]) + MSG_LEN = taken[s] + MSG_LEN
    BY <1>1, <1>4 DEF Stream, StreamOf, Whole
  <2> QED
    BY <1>1, <2>1, LenOK
<1>8. Stream(s)'
  BY <1>1, <1>5, <1>6, <1>7 DEF Stream, StreamOf
<1>9. During(s, "read")'
  BY <1>4, <1>5, <1>6 DEF During, Whole
<1>10. /\ written'[s] <= Len(buffer_'[s]) /\ Len(buffer_'[s]) <= MSG_LEN
       /\ {"read"} \in SUBSET Ops
       /\ \E op \in Ops : {"read"} = {op} /\ During(s, op)'
  BY <1>3, <1>5, <1>9, LenOK
<1> QED
  BY <1>2, <1>3, <1>5, <1>8, <1>10, HandlerStep

\* Any of them with an error: nothing is started.
LEMMA OnErrorStep ==
    ASSUME BeastInv, NEW t \in Threads, NEW s \in Conns, OnError(t, s)
    PROVE  BeastInv'
<1>1. /\ BeastTypeOK /\ Stream(s)
      /\ buffer_ \in [Conns -> Seq(Nat)] /\ written \in [Conns -> 0..MSG_LEN]
  BY DEF BeastInv, BeastTypeOK
<1>2. PICK op \in Ops : SessionRuns(t, s, op, FALSE) /\ Starts(s, {})
                        /\ buffer_' = buffer_ /\ written' = written
  BY DEF OnError, AfterError
<1>3. op \in Ops \cup {"run"} /\ FALSE \in BOOLEAN /\ {} \in SUBSET Ops
  OBVIOUS
<1>4. Stream(s)'
  BY <1>1, <1>2 DEF Stream, StreamOf, SessionRuns
<1>5. written[s] <= Len(buffer_[s]) /\ Len(buffer_[s]) <= MSG_LEN
  BY <1>1, SessionTypes
<1> QED
  BY <1>1, <1>2, <1>3, <1>4, <1>5, HandlerStep

\* session "connecting" is a session whose chain has not begun.
LEMMA ConnectingIsAbsent ==
    ASSUME NEW s \in Conns, Chain(s), session[s] = "connecting"
    PROVE  Absent(s) /\ Fresh(s)
BY DEF Chain, Outstanding, Completed, Due, HeldBack, Ending, Freed

\* listener::on_accept: with a connection a session begins, its on_run queued or run
\* already; in any case the next accept is outstanding, and no other handler of the
\* listener is queued.
LEMMA ListenerStep ==
    ASSUME BeastInv, NEW t \in Threads, NEW s \in Conns \cup {Listener},
           ListenerOnAccept(t, s)
    PROVE  BeastInv'
<1> DEFINE h == Accepted(s)
           rest == Tail(queue)
           first == Completion(s, "run", TRUE)
<1>1. h \in Handlers /\ h.of = Listener /\ Listener \notin Conns
  BY HandlersAre, BeastAssumption
<1>2. BeastTypeOK /\ queue \in Seq(Handlers) /\ ListenerChain
      /\ session \in [Conns -> {"none", "connecting", "live", "freed"}]
  BY DEF BeastInv, BeastTypeOK
<1>3. /\ Runs(t, h) /\ queue # <<>> /\ Head(queue) = h
      /\ accepting' = TRUE
      /\ UNCHANGED <<listening, failed, streamVars, waiting>>
      /\ \/ /\ s \in Conns
            /\ session' = [session EXCEPT ![s] = "live"]
            /\ \/ queue' = Append(rest, first) /\ ops' = ops
               \/ queue' = rest /\ Starts(s, {"handshake"})
         \/ s \notin Conns /\ session' = session /\ queue' = rest /\ ops' = ops
  BY <1>1
     DEF ListenerOnAccept, RunQueued, RunInline, Runs, Accepted, Completion, do_accept
<1>4. /\ running' \in [Threads -> Handlers \cup {Idle}]
      /\ HandlersSerial'
      /\ \A r \in Conns : InHandler(r)' <=> InHandler(r)
  BY <1>1, <1>3, ThreadTakes
<1>5. /\ NoneOf(rest, Listener)
      /\ s \in Conns => session[s] = "connecting"
  <2>1. ~NoneOf(queue, Listener)
        /\ \A k : OnlyOf(queue, Listener, k) => h = k /\ NoneOf(rest, Listener)
    BY <1>1, <1>2, <1>3, TailOwn
  <2>2. PICK c \in Conns \cup {Listener} :
           /\ OnlyOf(queue, Listener, Accepted(c))
           /\ c \in Conns => session[c] = "connecting"
    BY <1>2, <2>1 DEF ListenerChain
  <2>3. h.accepted = s /\ Accepted(c).accepted = c
    BY DEF Accepted
  <2> QED
    BY <2>1, <2>2, <2>3
<1>6. /\ rest \in Seq(Handlers)
      /\ \A r \in Conns : /\ NoneOf(queue, r) => NoneOf(rest, r)
                          /\ \A k : OnlyOf(queue, r, k) => OnlyOf(rest, r, k)
  BY <1>1, <1>2, <1>3, TailOther
<1>7. \A r \in Conns : SameBytes(r)
  BY <1>3 DEF SameBytes, streamVars
<1> HIDE DEF h, rest, first
<1>8. CASE s \in Conns /\ queue' = Append(rest, first) /\ ops' = ops
  <2>1. first \in Handlers /\ first.of = s
    BY <1>8, HandlersAre DEF first
  <2>2. Absent(s) /\ Fresh(s)
    BY <1>5, <1>8, ConnectingIsAbsent DEF BeastInv
  <2>3. OnlyOf(queue', s, first) /\ queue' \in Seq(Handlers)
    <3>1. NoneOf(rest, s)
      BY <1>6, <1>8, <2>2 DEF Absent, NothingQueued
    <3>2. NoneOf(rest, first.of)
      BY <2>1, <3>1
    <3>3. OnlyOf(Append(rest, first), first.of, first)
      BY <1>6, <2>1, <3>2, AppendOwn
    <3>4. Append(rest, first) \in Seq(Handlers)
      BY <1>6, <2>1
    <3> QED
      BY <1>3, <1>8, <2>1, <3>3, <3>4
  <2>4. ASSUME NEW r \in Conns, r # s PROVE QueueKeeps(r)
    <3>1. /\ NoneOf(rest, r) => NoneOf(Append(rest, first), r)
          /\ \A k : OnlyOf(rest, r, k) => OnlyOf(Append(rest, first), r, k)
      BY <1>6, <2>1, <2>4, AppendOther
    <3> QED
      BY <1>3, <1>6, <1>8, <3>1 DEF QueueKeeps
  <2>5. NoneOf(queue', Listener)
    <3>1. first.of # Listener
      BY <1>1, <1>8, <2>1
    <3>2. NoneOf(Append(rest, first), Listener)
      BY <1>5, <1>6, <2>1, <3>1, AppendOther
    <3> QED
      BY <1>3, <1>8, <3>2
  <2>6. /\ session' \in [Conns -> {"none", "connecting", "live", "freed"}]
        /\ session'[s] = "live"
        /\ \A r \in Conns : r # s => session'[r] = session[r]
    BY <1>2, <1>3, <1>8
  <2>7. BeastTypeOK'
    BY <1>2, <1>3, <1>4, <1>8, <2>3, <2>6 DEF BeastTypeOK, streamVars
  <2>8. ASSUME NEW r \in Conns, r # s PROVE Unmoved(r)
    BY <1>3, <1>4, <1>8, <2>4, <2>6, <2>8 DEF Unmoved, ExecKeeps
  <2>9. Chain(s)' /\ Stream(s)'
    <3>1. Due(s, first)'
      BY <1>3, <1>4, <1>8, <2>2, <2>3, <2>6
         DEF Due, Absent, NothingQueued, first, Completion
    <3>2. Completed(s, "run", TRUE)'
      BY <1>3, <2>2, <3>1 DEF Completed, Absent, first, Completion
    <3>3. Fresh(s)' /\ Stream(s)'
      BY <1>7, <1>8, <2>2, BytesKept DEF BeastInv
    <3>4. After(s, "run")'
      BY <3>3 DEF After
    <3> QED
      BY <3>2, <3>3, <3>4 DEF Chain
  <2>10. ListenerChain'
    BY <1>3, <2>5 DEF ListenerChain
  <2>11. \A r \in Conns : Chain(r)' /\ Stream(r)'
    BY <1>7, <2>8, <2>9, ChainFrame DEF BeastInv
  <2> QED
    BY <1>4, <2>7, <2>10, <2>11 DEF BeastInv
<1>9. CASE s \in Conns /\ queue' = rest /\ Starts(s, {"handshake"})
  <2>1. Absent(s) /\ Fresh(s)
    BY <1>5, <1>9, ConnectingIsAbsent DEF BeastInv
  <2>2. /\ session' \in [Conns -> {"none", "connecting", "live", "freed"}]
        /\ session'[s] = "live"
        /\ \A r \in Conns : r # s => session'[r] = session[r]
    BY <1>2, <1>3, <1>9
  <2>3. /\ ops' \in [Conns -> SUBSET Ops] /\ ops'[s] = {"handshake"}
        /\ \A r \in Conns : r # s => ops'[r] = ops[r]
    BY <1>2, <1>9, <2>1 DEF Starts, Absent, BeastTypeOK, Ops
  <2>4. BeastTypeOK'
    BY <1>2, <1>3, <1>4, <1>6, <1>9, <2>2, <2>3 DEF BeastTypeOK, streamVars
  <2>5. ASSUME NEW r \in Conns, r # s PROVE Unmoved(r)
    BY <1>3, <1>4, <1>6, <1>9, <2>2, <2>3, <2>5 DEF Unmoved, ExecKeeps, QueueKeeps
  <2>6. Chain(s)' /\ Stream(s)'
    <3>1. Outstanding(s, "handshake")'
      BY <1>3, <1>6, <1>9, <2>1, <2>2, <2>3 DEF Outstanding, Absent, NothingQueued
    <3>2. Fresh(s)' /\ Stream(s)'
      BY <1>7, <1>9, <2>1, BytesKept DEF BeastInv
    <3>3. During(s, "handshake")'
      BY <3>2 DEF During
    <3> QED
      BY <3>1, <3>2, <3>3 DEF Chain, Ops
  <2>7. ListenerChain'
    BY <1>3, <1>5, <1>9 DEF ListenerChain
  <2>8. \A r \in Conns : Chain(r)' /\ Stream(r)'
    BY <1>7, <2>5, <2>6, ChainFrame DEF BeastInv
  <2> QED
    BY <1>4, <2>4, <2>7, <2>8 DEF BeastInv
<1>10. CASE s \notin Conns
  <2>1. session' = session /\ queue' = rest /\ ops' = ops
    BY <1>3, <1>10
  <2>2. BeastTypeOK'
    BY <1>2, <1>3, <1>4, <1>6, <2>1 DEF BeastTypeOK, streamVars
  <2>3. ASSUME NEW r \in Conns PROVE Unmoved(r)
    BY <1>3, <1>4, <1>6, <2>1 DEF Unmoved, ExecKeeps, QueueKeeps
  <2>4. ListenerChain'
    BY <1>3, <1>5, <2>1 DEF ListenerChain
  <2>5. \A r \in Conns : Chain(r)' /\ Stream(r)'
    BY <1>7, <2>3, ChainFrame DEF BeastInv
  <2> QED
    BY <1>4, <2>2, <2>4, <2>5 DEF BeastInv
<1> QED
  BY <1>3, <1>8, <1>9, <1>10

\* async_accept ends: its handler is the listener's only one.
LEMMA AcceptStep ==
    ASSUME BeastInv, NEW s \in Conns \cup {Listener}, AcceptCompletes(s)
    PROVE  BeastInv'
<1> DEFINE h == Accepted(s)
<1>1. h \in Handlers /\ h.of = Listener /\ Listener \notin Conns
  BY HandlersAre, BeastAssumption
<1>2. BeastTypeOK /\ queue \in Seq(Handlers) /\ HandlersSerial
      /\ NoneOf(queue, Listener)
  BY DEF BeastInv, BeastTypeOK, AcceptCompletes, ListenerChain
<1>3. /\ accepting' = FALSE /\ queue' = Append(queue, h)
      /\ s \in Conns => session[s] = "connecting"
      /\ UNCHANGED <<listening, session, ops, failed, streamVars, waiting, running>>
  BY DEF AcceptCompletes, Accepted
<1>4. OnlyOf(queue', Listener, h) /\ queue' \in Seq(Handlers)
  BY <1>1, <1>2, <1>3, AppendOwn
<1>5. \A r \in Conns : QueueKeeps(r)
  BY <1>1, <1>2, <1>3, AppendOther DEF QueueKeeps
<1>6. BeastTypeOK' /\ HandlersSerial'
  BY <1>2, <1>3, <1>4 DEF BeastTypeOK, HandlersSerial, streamVars
<1>7. \A r \in Conns : Unmoved(r) /\ SameBytes(r)
  BY <1>3, <1>5 DEF Unmoved, ExecKeeps, InHandler, SameBytes, streamVars
<1>8. ListenerChain'
  BY <1>3, <1>4 DEF ListenerChain, Accepted
<1> QED
  BY <1>6, <1>7, <1>8, ChainFrame DEF BeastInv

-----------------------------------------------------------------------------
(* The operations.                                                         *)

\* A session with an operation outstanding has only that one.
LEMMA OperationIsOutstanding ==
    ASSUME BeastInv, NEW s \in Conns, NEW op \in ops[s]
    PROVE  op \in Ops /\ Outstanding(s, op) /\ During(s, op)
<1>1. Chain(s)
  BY DEF BeastInv
<1>2. PICK p \in Ops : Outstanding(s, p) /\ During(s, p)
  BY <1>1 DEF Chain, Absent, Completed, Due, HeldBack, Ending, Freed
<1>3. p = op
  BY <1>2 DEF Outstanding
<1> QED
  BY <1>2, <1>3

\* It ends: its handler is queued, or held back while the handler that started it
\* has not returned.
LEMMA OperationEnds ==
    ASSUME BeastInv, NEW s \in Conns, NEW op, NEW ok \in BOOLEAN,
           Completes(s, op, ok), session' = session
    PROVE  /\ op \in Ops /\ Outstanding(s, op) /\ During(s, op)
           /\ Completed(s, op, ok)'
           /\ queue' \in Seq(Handlers) /\ waiting' \in [Conns -> Seq(Handlers)]
           /\ ops' \in [Conns -> SUBSET Ops] /\ failed' \in SUBSET Conns
           /\ running' = running
           /\ QueueKeeps(Listener)
           /\ \A r \in Conns : r # s => Unmoved(r)
<1> DEFINE h == Completion(s, op, ok)
<1>1. op \in Ops /\ Outstanding(s, op) /\ During(s, op)
  BY OperationIsOutstanding DEF Completes
<1>2. h \in Handlers /\ h.of = s
  BY <1>1, HandlersAre
<1>3. /\ queue \in Seq(Handlers) /\ waiting \in [Conns -> Seq(Handlers)]
      /\ ops \in [Conns -> SUBSET Ops] /\ failed \in SUBSET Conns
  BY DEF BeastInv, BeastTypeOK
<1>4. /\ ops' = [ops EXCEPT ![s] = @ \ {op}]
      /\ failed' = IF ok THEN failed ELSE failed \cup {s}
      /\ Post(h) /\ running' = running
  BY DEF Completes, Completion
<1>5. /\ session[s] = "live" /\ s \notin failed /\ ops[s] = {op}
      /\ NoneOf(queue, s) /\ waiting[s] = <<>>
  BY <1>1 DEF Outstanding, NothingQueued
<1>6. Locked(s) <=> InHandler(s)
  BY <1>5 DEF Locked, InHandler, NoneOf
<1>7. /\ ops' \in [Conns -> SUBSET Ops] /\ failed' \in SUBSET Conns
      /\ ops'[s] = {}
      /\ s \in failed' <=> ~ok
      /\ \A r \in Conns : r # s => /\ ops'[r] = ops[r]
                                   /\ r \in failed' <=> r \in failed
  BY <1>3, <1>4, <1>5
<1>8. \A r : InHandler(r)' <=> InHandler(r)
  BY <1>4 DEF InHandler
<1> HIDE DEF h
<1>9. CASE InHandler(s)
  <2>1. queue' = queue /\ waiting' = [waiting EXCEPT ![s] = Append(@, h)]
    BY <1>2, <1>4, <1>6, <1>9 DEF Post
  <2>2. /\ waiting' \in [Conns -> Seq(Handlers)] /\ waiting'[s] = <<h>>
        /\ \A r \in Conns : r # s => waiting'[r] = waiting[r]
    BY <1>2, <1>3, <1>5, <2>1
  <2>3. HeldBack(s, h)'
    BY <1>2, <1>5, <1>7, <1>8, <1>9, <2>1, <2>2 DEF HeldBack, h, Completion
  <2>4. Completed(s, op, ok)'
    BY <1>7, <2>3 DEF Completed, h, Completion
  <2>5. \A r \in Conns : r # s => Unmoved(r)
    BY <1>7, <1>8, <2>1, <2>2 DEF Unmoved, ExecKeeps, QueueKeeps
  <2> QED
    BY <1>1, <1>3, <1>4, <1>7, <2>1, <2>2, <2>4, <2>5 DEF QueueKeeps
<1>10. CASE ~InHandler(s)
  <2>1. queue' = Append(queue, h) /\ waiting' = waiting
    BY <1>2, <1>4, <1>6, <1>10 DEF Post
  <2>2. OnlyOf(queue', s, h) /\ queue' \in Seq(Handlers)
    <3>1. NoneOf(queue, h.of)
      BY <1>2, <1>5
    <3>2. OnlyOf(Append(queue, h), h.of, h)
      BY <1>2, <1>3, <3>1, AppendOwn
    <3> QED
      BY <1>2, <1>3, <2>1, <3>2
  <2>3. Due(s, h)'
    BY <1>2, <1>5, <1>7, <1>8, <1>10, <2>1, <2>2 DEF Due, h, Completion
  <2>4. Completed(s, op, ok)'
    BY <1>7, <2>3 DEF Completed, h, Completion
  <2>5. ASSUME NEW r, r # s PROVE QueueKeeps(r)
    <3>1. /\ NoneOf(queue, r) => NoneOf(Append(queue, h), r)
          /\ \A k : OnlyOf(queue, r, k) => OnlyOf(Append(queue, h), r, k)
      BY <1>2, <1>3, <2>5, AppendOther
    <3> QED
      BY <2>1, <3>1 DEF QueueKeeps
  <2>6. \A r \in Conns : r # s => Unmoved(r)
    BY <1>7, <1>8, <2>1, <2>5 DEF Unmoved, ExecKeeps
  <2>7. QueueKeeps(Listener)
    BY <2>5, BeastAssumption
  <2> QED
    BY <1>1, <1>3, <1>4, <1>7, <2>1, <2>2, <2>4, <2>6, <2>7
<1> QED
  BY <1>9, <1>10

\* An operation of s ends, or takes or sends another piece.
LEMMA OperationStep ==
    ASSUME BeastInv, NEW s \in Conns, session' = session,
           UNCHANGED acceptVars, sent' = sent,
           \/ \E op \in Ops, ok \in BOOLEAN : Completes(s, op, ok) /\ (ok => After(s, op)')
           \/ /\ UNCHANGED <<ops, failed, execVars>>
              /\ \E op \in ops[s] : During(s, op)',
           taken' \in [Conns -> Nat], got' \in [Conns -> Seq(Nat)],
           buffer_' \in [Conns -> Seq(Nat)], written' \in [Conns -> 0..MSG_LEN],
           written'[s] <= Len(buffer_'[s]), Len(buffer_'[s]) <= MSG_LEN,
           \A r \in Conns : r # s => SameBytes(r),
           Stream(s)'
    PROVE  BeastInv'
<1> USE DEF acceptVars
<1>1. BeastTypeOK
  BY DEF BeastInv
<1>2. ASSUME NEW r \in Conns
      PROVE  written'[r] <= Len(buffer_'[r]) /\ Len(buffer_'[r]) <= MSG_LEN
  BY <1>1 DEF BeastTypeOK, SameBytes
<1>3. CASE \E op \in Ops, ok \in BOOLEAN : Completes(s, op, ok) /\ (ok => After(s, op)')
  <2>1. PICK op \in Ops, ok \in BOOLEAN : Completes(s, op, ok) /\ (ok => After(s, op)')
    BY <1>3
  <2>2. /\ op \in Ops /\ Completed(s, op, ok)'
        /\ queue' \in Seq(Handlers) /\ waiting' \in [Conns -> Seq(Handlers)]
        /\ ops' \in [Conns -> SUBSET Ops] /\ failed' \in SUBSET Conns
        /\ running' = running
        /\ QueueKeeps(Listener)
        /\ \A r \in Conns : r # s => Unmoved(r)
    BY <2>1, OperationEnds
  <2>3. BeastTypeOK'
    BY <1>1, <1>2, <2>2 DEF BeastTypeOK
  <2>4. HandlersSerial'
    BY <2>2 DEF BeastInv, HandlersSerial
  <2>5. Chain(s)'
    <3>1. CASE ok = TRUE
      BY <2>1, <2>2, <3>1 DEF Chain
    <3>2. CASE ok = FALSE
      BY <2>2, <3>2 DEF Chain
    <3> QED
      BY <3>1, <3>2
  <2> QED
    BY <2>2, <2>3, <2>4, <2>5, SessionStep
<1>4. CASE /\ UNCHANGED <<ops, failed, execVars>>
           /\ \E op \in ops[s] : During(s, op)'
  <2>1. PICK op \in ops[s] : During(s, op)'
    BY <1>4
  <2>2. \A r \in Conns : Unmoved(r)
    BY <1>4 DEF Unmoved, ExecKeeps, QueueKeeps, InHandler, execVars
  <2>3. op \in Ops /\ Outstanding(s, op)
    BY OperationIsOutstanding
  <2>4. Chain(s)'
    <3>1. Outstanding(s, op)'
      BY <2>2, <2>3, PlacesKept
    <3> QED
      BY <2>1, <2>3, <3>1 DEF Chain
  <2>5. BeastTypeOK'
    BY <1>1, <1>2, <1>4 DEF BeastTypeOK, execVars
  <2>6. HandlersSerial' /\ QueueKeeps(Listener)
    BY <1>4 DEF BeastInv, HandlersSerial, execVars, QueueKeeps
  <2> QED
    BY <2>2, <2>4, <2>5, <2>6, SessionStep
<1> QED
  BY <1>3, <1>4

\* A piece is read into the buffer, and one of the buffer written.
LEMMA PieceRead ==
    ASSUME NEW g \in Seq(Nat), NEW b \in Seq(Nat), NEW n \in Nat, NEW m \in Nat,
           StreamOf(g, b, 0, n, m), n < m
    PROVE  StreamOf(g, Append(b, n + 1), 0, n + 1, m)
<1> DEFINE c == Append(b, n + 1)
<1>1. Len(b) \in Nat /\ Len(g) \in Nat /\ Len(g) + Len(b) = n
  BY DEF StreamOf
<1>2. Len(c) = Len(b) + 1
  OBVIOUS
<1>3. c[Len(b) + 1] = n + 1 /\ \A j \in 1..Len(b) : c[j] = b[j]
  OBVIOUS
<1>4. \A j \in 1..Len(b) : b[j] + 0 = Len(g) + j
  BY DEF StreamOf
<1> HIDE DEF c
<1>5. ASSUME NEW j \in 1..Len(c) PROVE c[j] + 0 = Len(g) + j
  <2>1. CASE j = Len(b) + 1
    <3>1. n + 1 + 0 = Len(g) + j
      BY <1>1, <2>1, SMTT(30)
    <3> QED
      BY <1>3, <2>1, <3>1
  <2>2. CASE j \in 1..Len(b)
    BY <1>3, <1>4, <2>2
  <2> QED
    BY <1>1, <1>2, <2>1, <2>2
<1>6. Len(g) + Len(c) = (n + 1) + 0 /\ n + 1 <= m
  BY <1>1, <1>2
<1>7. \A i \in 1..Len(g) : g[i] = i
  BY DEF StreamOf
<1> QED
  BY <1>5, <1>6, <1>7 DEF StreamOf, c

\* A piece of the buffer is written: the client gets the next of the stream.
LEMMA PieceWritten ==
    ASSUME NEW g \in Seq(Nat), NEW b \in Seq(Nat), NEW n \in Nat, NEW m \in Nat,
           NEW w \in Nat, w < Len(b), StreamOf(g, b, w, n, m)
    PROVE  /\ b[w + 1] \in Nat
           /\ StreamOf(Append(g, b[w + 1]), b, w + 1, n, m)
<1> DEFINE f == Append(g, b[w + 1])
<1>1. Len(b) \in Nat /\ Len(g) \in Nat /\ Len(g) + Len(b) = n + w /\ n <= m
  BY DEF StreamOf
<1>2. \A j \in 1..Len(b) : b[j] \in Nat /\ b[j] + w = Len(g) + j
  BY DEF StreamOf
<1>3. \A i \in 1..Len(g) : g[i] = i
  BY DEF StreamOf
<1>4. b[w + 1] = Len(g) + 1
  <2>1. w + 1 \in 1..Len(b)
    BY <1>1
  <2>2. b[w + 1] \in Nat /\ b[w + 1] + w = Len(g) + (w + 1)
    BY <1>2, <2>1
  <2> QED
    BY <1>1, <2>2
<1>5. Len(f) = Len(g) + 1
  BY <1>1, <1>4
<1>6. f[Len(g) + 1] = Len(g) + 1 /\ \A i \in 1..Len(g) : f[i] = g[i]
  BY <1>1, <1>4
<1> HIDE DEF f
<1>7. ASSUME NEW i \in 1..Len(f) PROVE f[i] = i
  <2>1. i = Len(g) + 1 \/ i \in 1..Len(g)
    BY <1>1, <1>5
  <2> QED
    BY <1>3, <1>6, <2>1
<1>8. ASSUME NEW j \in 1..Len(b) PROVE b[j] + (w + 1) = Len(f) + j
  <2>1. b[j] \in Nat /\ b[j] + w = Len(g) + j /\ j \in Nat
    BY <1>1, <1>2
  <2> QED
    BY <1>1, <1>5, <2>1, SMTT(30)
<1>9. Len(f) + Len(b) = n + (w + 1) /\ n <= m
  BY <1>1, <1>5, SMTT(30)
<1> QED
  BY <1>1, <1>4, <1>7, <1>8, <1>9 DEF StreamOf, f

\* The handshake ends, or an operation fails: no piece moves.
LEMMA EndStep ==
    ASSUME BeastInv, NEW s \in Conns, HandshakeCompletes(s) \/ OpFails(s)
    PROVE  BeastInv'
<1>1. BeastTypeOK /\ Stream(s)
  BY DEF BeastInv
<1>2. /\ UNCHANGED <<acceptVars, session, streamVars>>
      /\ \E op \in Ops, ok \in BOOLEAN :
           Completes(s, op, ok) /\ (ok = TRUE => op = "handshake")
  <2>1. "handshake" \in Ops /\ TRUE \in BOOLEAN /\ FALSE \in BOOLEAN
    BY DEF Ops
  <2>2. \A op \in ops[s] : op \in Ops
    BY SessionTypes DEF BeastInv
  <2>3. CASE HandshakeCompletes(s)
    BY <2>1, <2>3 DEF HandshakeCompletes
  <2>4. CASE OpFails(s)
    <3>1. PICK op \in ops[s] : Completes(s, op, FALSE)
      BY <2>4 DEF OpFails
    <3>2. FALSE # TRUE
      OBVIOUS
    <3> QED
      BY <2>1, <2>2, <2>4, <3>1, <3>2 DEF OpFails
  <2> QED
    BY <2>3, <2>4
<1>3. PICK op \in Ops, ok \in BOOLEAN :
         Completes(s, op, ok) /\ (ok = TRUE => op = "handshake")
  BY <1>2
<1>4. \A r : SameBytes(r)
  BY <1>2 DEF SameBytes, streamVars
<1>5. During(s, op)
  BY <1>2, <1>3, OperationEnds
<1>6. ok => After(s, op)'
  <2>1. ok = TRUE => Fresh(s)'
    BY <1>3, <1>4, <1>5, BytesKept DEF During
  <2>2. CASE ok = TRUE
    BY <1>3, <2>1, <2>2 DEF After
  <2> QED
    BY <2>2
<1>7. Stream(s)'
  BY <1>1, <1>4, BytesKept
<1>8. /\ taken' \in [Conns -> Nat] /\ got' \in [Conns -> Seq(Nat)]
      /\ buffer_' \in [Conns -> Seq(Nat)] /\ written' \in [Conns -> 0..MSG_LEN]
      /\ written'[s] <= Len(buffer_'[s]) /\ Len(buffer_'[s]) <= MSG_LEN
  BY <1>1, <1>2 DEF BeastTypeOK, streamVars
<1>9. session' = session /\ UNCHANGED acceptVars /\ sent' = sent
  BY <1>2 DEF streamVars
<1> QED
  BY <1>3, <1>4, <1>6, <1>7, <1>8, <1>9, OperationStep

\* A piece is read: with the last of a message the read ends.
LEMMA ReadStep ==
    ASSUME BeastInv, NEW s \in Conns, ReadPiece(s)
    PROVE  BeastInv'
<1>1. /\ BeastTypeOK /\ Stream(s)
      /\ buffer_ \in [Conns -> Seq(Nat)] /\ taken \in [Conns -> Nat]
      /\ written \in [Conns -> 0..MSG_LEN] /\ got \in [Conns -> Seq(Nat)]
  BY DEF BeastInv, BeastTypeOK
<1>2. /\ buffer_[s] \in Seq(Nat) /\ Len(buffer_[s]) \in Nat /\ got[s] \in Seq(Nat)
      /\ taken[s] \in Nat /\ sent[s] \in Nat
  BY <1>1, SessionTypes
<1>3. "read" \in ops[s] /\ written[s] = 0 /\ Len(buffer_[s]) = taken[s] % MSG_LEN
  BY OperationIsOutstanding DEF ReadPiece, During
<1>4. /\ taken[s] < sent[s]
      /\ taken' \in [Conns -> Nat] /\ taken'[s] = taken[s] + 1
      /\ buffer_' \in [Conns -> Seq(Nat)]
      /\ buffer_'[s] = Append(buffer_[s], taken[s] + 1)
      /\ \A r \in Conns : r # s => taken'[r] = taken[r] /\ buffer_'[r] = buffer_[r]
      /\ UNCHANGED <<acceptVars, session, written, sent, got>>
  BY <1>1 DEF ReadPiece
<1>5. /\ Len(buffer_'[s]) = Len(buffer_[s]) + 1
      /\ \A j \in 1..Len(buffer_[s]) : buffer_'[s][j] = buffer_[s][j]
      /\ buffer_'[s][Len(buffer_[s]) + 1] = taken[s] + 1
  BY <1>2, <1>4
<1>6. Stream(s)'
  <2>1. StreamOf(got[s], buffer_[s], 0, taken[s], sent[s])
    BY <1>1, <1>3 DEF Stream
  <2>2. StreamOf(got[s], Append(buffer_[s], taken[s] + 1), 0, taken[s] + 1, sent[s])
    BY <1>2, <1>4, <2>1, PieceRead
  <2> QED
    BY <1>3, <1>4, <2>2 DEF Stream
<1>7. /\ Len(buffer_'[s]) = (taken[s] % MSG_LEN) + 1 /\ taken[s] % MSG_LEN \in 0..(MSG_LEN - 1)
      /\ taken'[s] % MSG_LEN = IF taken[s] % MSG_LEN = MSG_LEN - 1 THEN 0
                                                        ELSE (taken[s] % MSG_LEN) + 1
  <2>1. /\ taken[s] % MSG_LEN \in 0..(MSG_LEN - 1)
        /\ (taken[s] + 1) % MSG_LEN = IF taken[s] % MSG_LEN = MSG_LEN - 1 THEN 0
                                                        ELSE (taken[s] % MSG_LEN) + 1
    BY <1>2, LenOK, DivMod, ModStep
  <2> QED
    BY <1>3, <1>4, <1>5, <2>1
<1>8. \/ \E op \in Ops, ok \in BOOLEAN : Completes(s, op, ok) /\ (ok => After(s, op)')
      \/ /\ UNCHANGED <<ops, failed, execVars>>
         /\ \E op \in ops[s] : During(s, op)'
  <2>1. CASE taken'[s] % MSG_LEN = 0
    <3>1. Completes(s, "read", TRUE)
      BY <2>1 DEF ReadPiece
    <3>2. Len(buffer_'[s]) = MSG_LEN
      BY <1>7, <2>1, LenOK
    <3>3. After(s, "read")'
      BY <1>3, <1>4, <2>1, <3>2 DEF After, Whole
    <3>4. TRUE \in BOOLEAN /\ "read" \in Ops
      BY DEF Ops
    <3> QED
      BY <3>1, <3>3, <3>4
  <2>2. CASE taken'[s] % MSG_LEN # 0
    <3>1. UNCHANGED <<ops, failed, execVars>>
      BY <2>2 DEF ReadPiece
    <3>2. Len(buffer_'[s]) = taken'[s] % MSG_LEN
      BY <1>7, <2>2
    <3>3. During(s, "read")'
      BY <1>3, <1>4, <3>2 DEF During
    <3> QED
      BY <1>3, <3>1, <3>3
  <2> QED
    BY <2>1, <2>2
<1>9. written'[s] <= Len(buffer_'[s]) /\ Len(buffer_'[s]) <= MSG_LEN
  BY <1>3, <1>4, <1>7, LenOK
<1>10. \A r \in Conns : r # s => SameBytes(r)
  BY <1>4 DEF SameBytes
<1>11. /\ session' = session /\ UNCHANGED acceptVars /\ sent' = sent
       /\ got' \in [Conns -> Seq(Nat)] /\ written' \in [Conns -> 0..MSG_LEN]
  BY <1>1, <1>4
<1> QED
  BY <1>4, <1>6, <1>8, <1>9, <1>10, <1>11, OperationStep

\* A piece of the buffer is sent: with the last of them the write ends.
LEMMA WriteStep ==
    ASSUME BeastInv, NEW s \in Conns, WritePiece(s)
    PROVE  BeastInv'
<1>1. /\ BeastTypeOK /\ Stream(s)
      /\ buffer_ \in [Conns -> Seq(Nat)] /\ taken \in [Conns -> Nat]
      /\ written \in [Conns -> 0..MSG_LEN] /\ got \in [Conns -> Seq(Nat)]
  BY DEF BeastInv, BeastTypeOK
<1>2. /\ buffer_[s] \in Seq(Nat) /\ Len(got[s]) \in Nat /\ got[s] \in Seq(Nat)
      /\ taken[s] \in Nat /\ sent[s] \in Nat /\ written[s] \in Nat
  BY <1>1, SessionTypes
<1>3. "write" \in ops[s] /\ Whole(s) /\ written[s] < MSG_LEN
  BY OperationIsOutstanding DEF WritePiece, During
<1>4. Len(buffer_[s]) = MSG_LEN /\ taken[s] % MSG_LEN = 0
  BY <1>3 DEF Whole
<1> DEFINE piece == buffer_[s][written[s] + 1]
<1>5. /\ piece \in Nat
      /\ StreamOf(Append(got[s], piece), buffer_[s], written[s] + 1, taken[s], sent[s])
  <2>1. StreamOf(got[s], buffer_[s], written[s], taken[s], sent[s])
    BY <1>1 DEF Stream
  <2> QED
    BY <1>2, <1>3, <1>4, <2>1, PieceWritten
<1>6. /\ written' = [written EXCEPT ![s] = @ + 1]
      /\ got' = [got EXCEPT ![s] = Append(@, piece)]
      /\ UNCHANGED <<acceptVars, session, buffer_, sent, taken>>
  BY DEF WritePiece
<1> HIDE DEF piece
<1>7. /\ written' \in [Conns -> 0..MSG_LEN] /\ written'[s] = written[s] + 1
      /\ got' \in [Conns -> Seq(Nat)] /\ got'[s] = Append(got[s], piece)
      /\ \A r \in Conns : r # s => written'[r] = written[r] /\ got'[r] = got[r]
  BY <1>1, <1>2, <1>3, <1>5, <1>6, LenOK
<1>8. Stream(s)'
  BY <1>5, <1>6, <1>7 DEF Stream
<1>9. Whole(s)'
  BY <1>4, <1>6 DEF Whole
<1>10. \/ \E op \in Ops, ok \in BOOLEAN : Completes(s, op, ok) /\ (ok => After(s, op)')
       \/ /\ UNCHANGED <<ops, failed, execVars>>
          /\ \E op \in ops[s] : During(s, op)'
  <2>1. CASE written'[s] = Len(buffer_[s])
    <3>1. Completes(s, "write", TRUE)
      BY <2>1 DEF WritePiece
    <3>2. After(s, "write")'
      BY <1>4, <1>9, <2>1 DEF After
    <3>3. TRUE \in BOOLEAN /\ "write" \in Ops
      BY DEF Ops
    <3> QED
      BY <3>1, <3>2, <3>3
  <2>2. CASE written'[s] # Len(buffer_[s])
    <3>1. UNCHANGED <<ops, failed, execVars>>
      BY <2>2 DEF WritePiece
    <3>2. written'[s] < MSG_LEN
      BY <1>2, <1>3, <1>4, <1>7, <2>2, LenOK
    <3>3. During(s, "write")'
      BY <1>9, <3>2 DEF During
    <3> QED
      BY <1>3, <3>1, <3>3
  <2> QED
    BY <2>1, <2>2
<1>11. written'[s] <= Len(buffer_'[s]) /\ Len(buffer_'[s]) <= MSG_LEN
  BY <1>2, <1>3, <1>4, <1>6, <1>7, LenOK
<1>12. \A r \in Conns : r # s => SameBytes(r)
  BY <1>6, <1>7 DEF SameBytes
<1>13. /\ session' = session /\ UNCHANGED acceptVars /\ sent' = sent
       /\ taken' \in [Conns -> Nat] /\ buffer_' \in [Conns -> Seq(Nat)]
  BY <1>1, <1>6
<1> QED
  BY <1>7, <1>8, <1>10, <1>11, <1>12, <1>13, OperationStep

-----------------------------------------------------------------------------
(* The other steps.                                                        *)

\* A thread that returns is in no handler, and the others are where they were.
LEMMA ReturnIsSerial ==
    ASSUME HandlersSerial, NEW t \in Threads, running'[t] = Idle,
           \A u \in Threads : u # t => running'[u] = running[u]
    PROVE  HandlersSerial'
<1> SUFFICES ASSUME NEW u \in Threads, NEW v \in Threads,
                    u # v, running'[u].of \in Conns
             PROVE  running'[u].of # running'[v].of
  BY DEF HandlersSerial
<1>1. u # t /\ running'[u] = running[u]
  BY HandlersAre
<1>2. CASE v = t
  BY <1>2, HandlersAre
<1>3. CASE v # t
  BY <1>1, <1>3 DEF HandlersSerial
<1> QED
  BY <1>2, <1>3

\* A thread returns from a handler of the session s: the handler held back is
\* queued, or else, if no operation is outstanding, the session is freed.
LEMMA SessionReturns ==
    ASSUME BeastInv, NEW t \in Threads, Return(t), NEW s \in Conns, running[t].of = s
    PROVE  BeastInv'
<1>1. /\ BeastTypeOK /\ HandlersSerial /\ Chain(s) /\ Stream(s)
      /\ queue \in Seq(Handlers) /\ waiting \in [Conns -> Seq(Handlers)]
      /\ running \in [Threads -> Handlers \cup {Idle}]
      /\ session \in [Conns -> {"none", "connecting", "live", "freed"}]
  BY DEF BeastInv, BeastTypeOK
<1>2. /\ running' \in [Threads -> Handlers \cup {Idle}] /\ running'[t] = Idle
      /\ \A u \in Threads : u # t => running'[u] = running[u]
      /\ UNCHANGED <<acceptVars, ops, failed, streamVars>>
  BY <1>1 DEF Return
<1>3. IF waiting[s] # <<>>
      THEN /\ queue' = Append(queue, Head(waiting[s]))
           /\ waiting' = [waiting EXCEPT ![s] = Tail(@)]
      ELSE UNCHANGED <<queue, waiting>>
  BY DEF Return
<1>4. session' = IF ops[s] = {} /\ waiting[s] = <<>>
                 THEN [session EXCEPT ![s] = "freed"] ELSE session
  BY DEF Return
<1>5. InHandler(s) /\ ~InHandler(s)'
  <2>1. InHandler(s)
    BY DEF InHandler
  <2>2. running'[t].of # s
    BY <1>2, HandlersAre
  <2>3. \A u \in Threads : u # t => running[u].of # s
    BY <1>1 DEF HandlersSerial
  <2> QED
    BY <1>2, <2>1, <2>2, <2>3 DEF InHandler
<1>6. ASSUME NEW r \in Conns, r # s PROVE InHandler(r)' <=> InHandler(r)
  BY <1>2, <1>6, HandlersAre DEF InHandler
<1>7. HandlersSerial'
  BY <1>1, <1>2, ReturnIsSerial
<1>8. \A r : SameBytes(r)
  BY <1>2 DEF SameBytes, streamVars
<1>9. Stream(s)'
  BY <1>1, <1>8, BytesKept
<1>10. Listener \notin Conns
  BY BeastAssumption
<1> USE DEF acceptVars, streamVars
<1>11. CASE \E op \in Ops : Outstanding(s, op) /\ During(s, op)
  <2>1. PICK op \in Ops : Outstanding(s, op) /\ During(s, op)
    BY <1>11
  <2>2. UNCHANGED <<queue, waiting, session>>
    BY <1>3, <1>4, <2>1 DEF Outstanding, NothingQueued
  <2>3. BeastTypeOK'
    BY <1>1, <1>2, <2>2 DEF BeastTypeOK
  <2>4. \A r \in Conns : r # s => Unmoved(r)
    BY <1>2, <1>6, <2>2 DEF Unmoved, ExecKeeps, QueueKeeps
  <2>5. Chain(s)'
    <3>1. Outstanding(s, op)'
      BY <1>2, <2>1, <2>2 DEF Outstanding, NothingQueued
    <3>2. During(s, op)'
      BY <1>8, <2>1, BytesKept
    <3> QED
      BY <3>1, <3>2 DEF Chain
  <2>6. QueueKeeps(Listener)
    BY <2>2 DEF QueueKeeps
  <2> QED
    BY <1>2, <1>7, <1>8, <1>9, <2>2, <2>3, <2>4, <2>5, <2>6, SessionStep
<1>12. CASE \E op \in Ops \cup {"run"}, ok \in BOOLEAN :
              Completed(s, op, ok) /\ (ok => After(s, op)) /\ (~ok => op \in Ops)
  <2>1. PICK op \in Ops \cup {"run"}, ok \in BOOLEAN :
           Completed(s, op, ok) /\ (ok => After(s, op)) /\ (~ok => op \in Ops)
    BY <1>12
  <2> DEFINE h == Completion(s, op, ok)
  <2>2. h \in Handlers /\ h.of = s
    BY HandlersAre
  <2>3. /\ session[s] = "live" /\ ops[s] = {} /\ NoneOf(queue, s)
        /\ waiting[s] = <<h>> /\ (s \in failed <=> ~ok)
    BY <1>5, <2>1 DEF Completed, Due, HeldBack
  <2> HIDE DEF h
  <2>4. waiting[s] # <<>> /\ Head(waiting[s]) = h /\ Tail(waiting[s]) = <<>>
    BY <2>3
  <2>5. /\ session' = session /\ queue' = Append(queue, h)
        /\ waiting' \in [Conns -> Seq(Handlers)] /\ waiting'[s] = <<>>
        /\ \A r \in Conns : r # s => waiting'[r] = waiting[r]
    <3>1. queue' = Append(queue, h) /\ waiting' = [waiting EXCEPT ![s] = <<>>]
      BY <1>3, <2>4
    <3>2. session' = session
      BY <1>4, <2>4
    <3>3. <<>> \in Seq(Handlers)
      OBVIOUS
    <3> QED
      BY <1>1, <3>1, <3>2, <3>3
  <2>6. OnlyOf(queue', s, h) /\ queue' \in Seq(Handlers)
    <3>1. NoneOf(queue, h.of)
      BY <2>2, <2>3
    <3>2. OnlyOf(Append(queue, h), h.of, h)
      BY <1>1, <2>2, <3>1, AppendOwn
    <3> QED
      BY <1>1, <2>2, <2>5, <3>2
  <2>7. ASSUME NEW r, r # s PROVE QueueKeeps(r)
    <3>1. /\ NoneOf(queue, r) => NoneOf(Append(queue, h), r)
          /\ \A k : OnlyOf(queue, r, k) => OnlyOf(Append(queue, h), r, k)
      BY <1>1, <2>2, <2>7, AppendOther
    <3> QED
      BY <2>5, <3>1 DEF QueueKeeps
  <2>8. \A r \in Conns : r # s => Unmoved(r)
    BY <1>2, <1>6, <2>5, <2>7 DEF Unmoved, ExecKeeps
  <2>9. BeastTypeOK'
    BY <1>1, <1>2, <2>5, <2>6 DEF BeastTypeOK
  <2>10. Chain(s)'
    <3>1. Due(s, h)'
      BY <1>2, <1>5, <2>3, <2>5, <2>6 DEF Due, h, Completion
    <3>2. Completed(s, op, ok)'
      BY <1>2, <2>3, <3>1 DEF Completed, h, Completion
    <3>3. ok => After(s, op)'
      BY <1>8, <2>1, BytesKept
    <3>4. CASE ok = TRUE
      BY <3>2, <3>3, <3>4 DEF Chain
    <3>5. CASE ok = FALSE
      BY <2>1, <3>2, <3>5 DEF Chain
    <3> QED
      BY <3>4, <3>5
  <2>11. QueueKeeps(Listener)
    BY <1>10, <2>2, <2>7
  <2> QED
    BY <1>2, <1>7, <1>8, <1>9, <2>2, <2>5, <2>8, <2>9, <2>10, <2>11, SessionStep
<1>13. CASE Ending(s)
  <2>1. session[s] # "connecting"
    BY <1>13 DEF Ending
  <2>2. UNCHANGED <<queue, waiting>> /\ session' = [session EXCEPT ![s] = "freed"]
    BY <1>3, <1>4, <1>13 DEF Ending, NothingQueued
  <2>3. /\ session' \in [Conns -> {"none", "connecting", "live", "freed"}]
        /\ session'[s] = "freed"
        /\ \A r \in Conns : r # s => session'[r] = session[r]
    BY <1>1, <2>1, <2>2
  <2>4. BeastTypeOK'
    BY <1>1, <1>2, <2>2, <2>3 DEF BeastTypeOK
  <2>5. \A r \in Conns : r # s => Unmoved(r)
    BY <1>2, <1>6, <2>2, <2>3 DEF Unmoved, ExecKeeps, QueueKeeps
  <2>6. Chain(s)'
    <3>1. Freed(s)'
      BY <1>2, <1>5, <1>13, <2>2, <2>3 DEF Ending, Freed, NothingQueued
    <3> QED
      BY <3>1 DEF Chain
  <2>7. QueueKeeps(Listener)
    BY <2>2 DEF QueueKeeps
  <2> QED
    BY <1>2, <1>7, <1>8, <1>9, <2>1, <2>4, <2>5, <2>6, <2>7, SessionStep
<1>14. \/ \E op \in Ops : Outstanding(s, op) /\ During(s, op)
       \/ \E op \in Ops \cup {"run"}, ok \in BOOLEAN :
              Completed(s, op, ok) /\ (ok => After(s, op)) /\ (~ok => op \in Ops)
       \/ Ending(s)
  <2>1. ~Absent(s) /\ ~Freed(s)
    BY <1>5 DEF Absent, Freed
  <2>2. TRUE \in BOOLEAN /\ FALSE \in BOOLEAN
    OBVIOUS
  <2> QED
    BY <1>1, <2>1, <2>2 DEF Chain
<1> QED
  BY <1>11, <1>12, <1>13, <1>14

\* A thread returns from a handler of the listener.
LEMMA ListenerReturns ==
    ASSUME BeastInv, NEW t \in Threads, Return(t), running[t].of \notin Conns
    PROVE  BeastInv'
<1>1. /\ BeastTypeOK /\ HandlersSerial
      /\ running \in [Threads -> Handlers \cup {Idle}]
  BY DEF BeastInv, BeastTypeOK
<1>2. /\ running' \in [Threads -> Handlers \cup {Idle}] /\ running'[t] = Idle
      /\ \A u \in Threads : u # t => running'[u] = running[u]
      /\ UNCHANGED <<acceptVars, ops, failed, streamVars, queue, waiting, session>>
  BY <1>1 DEF Return
<1>3. BeastTypeOK'
  BY <1>1, <1>2 DEF BeastTypeOK, acceptVars, streamVars
<1>4. HandlersSerial'
  BY <1>1, <1>2, ReturnIsSerial
<1>5. ASSUME NEW r \in Conns PROVE Unmoved(r) /\ SameBytes(r)
  <2>1. InHandler(r)' <=> InHandler(r)
    BY <1>2, HandlersAre DEF InHandler
  <2> QED
    BY <1>2, <2>1 DEF Unmoved, ExecKeeps, QueueKeeps, SameBytes, streamVars
<1>6. ListenerChain'
  BY <1>2 DEF BeastInv, ListenerChain, Accepted, acceptVars
<1> QED
  BY <1>3, <1>4, <1>5, <1>6, ChainFrame DEF BeastInv

\* A client connects, or sends a message.
LEMMA ClientStep ==
    ASSUME BeastInv, NEW s \in Conns, ClientConnects(s) \/ ClientSends(s)
    PROVE  BeastInv'
<1>1. BeastTypeOK /\ HandlersSerial /\ Chain(s) /\ Stream(s)
  BY DEF BeastInv
<1>2. /\ taken[s] \in Nat /\ sent[s] \in Nat /\ sent \in [Conns -> Nat]
      /\ session \in [Conns -> {"none", "connecting", "live", "freed"}]
  BY <1>1 DEF BeastTypeOK
<1>3. QueueKeeps(Listener)
  BY DEF ClientConnects, ClientSends, execVars, QueueKeeps
<1>4. HandlersSerial' /\ accepting' = accepting
  BY <1>1 DEF ClientConnects, ClientSends, execVars, acceptVars, HandlersSerial
<1>5. CASE ClientConnects(s)
  <2>1. /\ session' \in [Conns -> {"none", "connecting", "live", "freed"}]
        /\ session[s] = "none" /\ session'[s] = "connecting"
        /\ \A r \in Conns : r # s => session'[r] = session[r]
        /\ UNCHANGED <<acceptVars, ops, failed, streamVars, execVars>>
    BY <1>2, <1>5 DEF ClientConnects
  <2>2. BeastTypeOK'
    BY <1>1, <2>1 DEF BeastTypeOK, acceptVars, streamVars, execVars
  <2>3. \A r \in Conns : r # s => Unmoved(r)
    BY <2>1 DEF Unmoved, ExecKeeps, QueueKeeps, InHandler, execVars
  <2>4. \A r : SameBytes(r)
    BY <2>1 DEF SameBytes, streamVars
  <2>5. Absent(s) /\ Fresh(s)
    BY <1>1, <2>1 DEF Chain, Outstanding, Completed, Due, HeldBack, Ending, Freed
  <2>6. Absent(s)'
    BY <2>1, <2>5 DEF Absent, NothingQueued, InHandler, execVars
  <2>7. Chain(s)' /\ Stream(s)'
    BY <1>1, <2>4, <2>5, <2>6, BytesKept DEF Chain
  <2> QED
    BY <1>3, <1>4, <2>1, <2>2, <2>3, <2>4, <2>7, SessionStep
<1>6. CASE ClientSends(s)
  <2>1. /\ sent' \in [Conns -> Nat] /\ sent'[s] = sent[s] + MSG_LEN
        /\ \A r \in Conns : r # s => sent'[r] = sent[r]
        /\ UNCHANGED <<acceptVars, session, ops, failed, buffer_, written, taken, got,
                       execVars>>
    BY <1>2, <1>6, LenOK DEF ClientSends
  <2>2. BeastTypeOK'
    BY <1>1, <2>1 DEF BeastTypeOK, acceptVars, execVars
  <2>3. \A r \in Conns : Unmoved(r)
    BY <2>1 DEF Unmoved, ExecKeeps, QueueKeeps, InHandler, execVars
  <2>4. \A r \in Conns : r # s => SameBytes(r)
    BY <2>1 DEF SameBytes
  <2>5. /\ Fresh(s) => Fresh(s)'
        /\ \A op : During(s, op) => During(s, op)'
        /\ \A op : After(s, op) => After(s, op)'
    BY <2>1 DEF Fresh, During, After, Whole
  <2>6. Chain(s)'
    BY <1>1, <2>3, <2>5, PlacesKept DEF Chain
  <2>7. taken[s] <= sent[s] => taken[s] <= sent[s] + MSG_LEN
    BY <1>2, LenOK
  <2>8. Stream(s)'
    BY <1>1, <2>1, <2>7 DEF Stream, StreamOf
  <2> QED
    BY <1>3, <1>4, <2>1, <2>2, <2>3, <2>4, <2>6, <2>8, SessionStep
<1> QED
  BY <1>5, <1>6

-----------------------------------------------------------------------------
(* The theorems.                                                           *)

\* At first no session has begun and the first accept is outstanding.
LEMMA InitBeast == Init => BeastInv
<1> SUFFICES ASSUME Init PROVE BeastInv
  OBVIOUS
<1> USE DEF Init
<1>1. /\ Len(<<>>) = 0 /\ <<>> \in Seq(Nat) /\ <<>> \in Seq(Handlers)
      /\ \A s : NoneOf(queue, s)
  BY DEF NoneOf
<1>2. BeastTypeOK
  BY <1>1, LenOK DEF BeastTypeOK
<1>3. HandlersSerial /\ \A s \in Conns : ~InHandler(s)
  BY HandlersAre DEF HandlersSerial, InHandler
<1>4. ListenerChain
  BY <1>1 DEF ListenerChain
<1>5. ASSUME NEW s \in Conns PROVE Chain(s) /\ Stream(s)
  <2>1. Absent(s) /\ Fresh(s)
    BY <1>1, <1>3 DEF Absent, Fresh, NothingQueued
  <2>2. Stream(s)
    BY <1>1 DEF Stream, StreamOf
  <2> QED
    BY <2>1, <2>2 DEF Chain
<1> QED
  BY <1>2, <1>3, <1>4, <1>5 DEF BeastInv

\* Every step of a thread, a client or the network keeps the invariant.
LEMMA NextBeast == BeastInv /\ [Next]_vars => BeastInv'
<1> SUFFICES ASSUME BeastInv, [Next]_vars PROVE BeastInv'
  OBVIOUS
<1>1. ASSUME NEW t \in Threads, Return(t) PROVE BeastInv'
  <2>1. CASE running[t].of \in Conns
    BY <1>1, <2>1, SessionReturns
  <2>2. CASE running[t].of \notin Conns
    BY <1>1, <2>2, ListenerReturns
  <2> QED
    BY <2>1, <2>2
<1>2. ASSUME NEW t \in Threads, NEW s \in Conns \cup {Listener}, ListenerOnAccept(t, s)
      PROVE  BeastInv'
  BY <1>2, ListenerStep
<1>3. ASSUME NEW t \in Threads, NEW s \in Conns,
             OnRun(t, s) \/ OnAccept(t, s) \/ OnRead(t, s) \/ OnWrite(t, s)
                \/ OnError(t, s)
      PROVE  BeastInv'
  BY <1>3, OnRunStep, OnReadStep, OnWriteStep, OnErrorStep
<1>4. ASSUME NEW s \in Conns,
             Progress(s) \/ OpFails(s) \/ ClientConnects(s) \/ ClientSends(s)
      PROVE  BeastInv'
  BY <1>4, EndStep, ReadStep, WriteStep, ClientStep DEF Progress
<1>5. ASSUME NEW s \in Conns \cup {Listener}, AcceptCompletes(s) PROVE BeastInv'
  BY <1>5, AcceptStep
<1>6. CASE UNCHANGED vars
  <2> USE <1>6 DEF vars, acceptVars, streamVars, execVars
  <2>1. BeastTypeOK'
    BY DEF BeastInv, BeastTypeOK
  <2>2. HandlersSerial' /\ ListenerChain'
    BY DEF BeastInv, HandlersSerial, ListenerChain
  <2>3. \A r : Unmoved(r) /\ SameBytes(r)
    BY DEF Unmoved, ExecKeeps, QueueKeeps, InHandler, SameBytes
  <2> QED
    BY <2>1, <2>2, <2>3, ChainFrame DEF BeastInv
<1> QED
  BY <1>1, <1>2, <1>3, <1>4, <1>5, <1>6 DEF Next, ThreadStep

\* The chains are where the invariant says, whatever the number of sessions and
\* threads.
THEOREM BeastInvariance == Spec => []BeastInv
<1> QED
  BY InitBeast, NextBeast, PTL DEF Spec

\* The variables stay of their types; the buffer holds a message at most.
THEOREM BeastTypeCorrect == Spec => []BeastTypeOK
<1>1. BeastInv => BeastTypeOK
  BY DEF BeastInv
<1> QED
  BY <1>1, BeastInvariance, PTL

\* One thread at most is in a handler of a session: make_strand on accept, and the
\* one operation a handler starts.
THEOREM HandlersAreSerial == Spec => []HandlersSerial
<1>1. BeastInv => HandlersSerial
  BY DEF BeastInv
<1> QED
  BY <1>1, BeastInvariance, PTL

\* A chain has one link at a time.
LEMMA LinksAre ==
    ASSUME BeastInv, NEW s \in Conns
    PROVE  /\ session[s] = "live" => Links(s) = 1 \/ (Links(s) = 0 /\ s \in failed)
           /\ session[s] = "freed" => Links(s) = 0 /\ s \in failed
<1>1. Chain(s)
  BY DEF BeastInv
<1>2. Cardinality({}) = 0 /\ Len(<<>>) = 0 /\ \A h : Len(<<h>>) = 1
  BY FS_EmptySet
<1>3. CASE Absent(s)
  BY <1>3 DEF Absent
<1>4. ASSUME NEW op, Outstanding(s, op)
      PROVE  Links(s) = 1 /\ session[s] = "live"
  <2>1. ops[s] = {op} /\ waiting[s] = <<>> /\ Queued(s) = 0
    BY <1>4, QueuedIs DEF Outstanding, NothingQueued
  <2>2. Cardinality({op}) = 1
    BY SingletonCount
  <2> QED
    BY <1>2, <1>4, <2>1, <2>2 DEF Links, Outstanding
<1>5. ASSUME NEW op, NEW ok, Completed(s, op, ok)
      PROVE  Links(s) = 1 /\ session[s] = "live"
  <2> DEFINE h == Completion(s, op, ok)
  <2>1. CASE Due(s, h)
    <3>1. ops[s] = {} /\ waiting[s] = <<>> /\ Queued(s) = 1
      BY <2>1, QueuedIs DEF Due
    <3> QED
      BY <1>2, <2>1, <3>1 DEF Links, Due
  <2>2. CASE HeldBack(s, h)
    <3>1. ops[s] = {} /\ Queued(s) = 0 /\ Len(waiting[s]) = 1
      BY <1>2, <2>2, QueuedIs DEF HeldBack
    <3> QED
      BY <1>2, <2>2, <3>1 DEF Links, HeldBack
  <2> QED
    BY <1>5, <2>1, <2>2 DEF Completed
<1>6. ASSUME Ending(s) \/ Freed(s)
      PROVE  Links(s) = 0 /\ s \in failed
  <2>1. ops[s] = {} /\ waiting[s] = <<>> /\ Queued(s) = 0
    BY <1>6, QueuedIs DEF Ending, Freed, NothingQueued
  <2> QED
    BY <1>2, <1>6, <2>1 DEF Links, Ending, Freed
<1>7. CASE Links(s) = 1 /\ session[s] = "live"
  BY <1>7
<1>8. CASE Links(s) = 0 /\ s \in failed
  BY <1>8
<1>9. \/ Absent(s) \/ Ending(s) \/ Freed(s)
      \/ \E op : Outstanding(s, op) \/ \E ok : Completed(s, op, ok)
  BY <1>1 DEF Chain
<1>10. CASE \E op : Outstanding(s, op) \/ \E ok : Completed(s, op, ok)
  BY <1>4, <1>5, <1>7, <1>10
<1> QED
  BY <1>3, <1>6, <1>8, <1>9, <1>10

\* Of the listener and of every session exactly one thing is outstanding, an
\* operation or its completion; only an error ends a session's chain, and none the
\* listener's.
THEOREM ChainsAreUnbroken == Spec => []ChainUnbroken
<1>1. ASSUME BeastInv PROVE Queued(Listener) = IF accepting THEN 0 ELSE 1
  <2>1. accepting \in BOOLEAN /\ ListenerChain
    BY <1>1 DEF BeastInv, BeastTypeOK
  <2> QED
    BY <2>1, QueuedIs DEF ListenerChain
<1>2. BeastInv => ChainUnbroken
  BY <1>1, LinksAre DEF ChainUnbroken
<1> QED
  BY <1>2, BeastInvariance, PTL

\* While a write is outstanding nothing touches the buffer it sends from, though
\* several threads run the handlers: the read that fills it and the consume that
\* empties it are other links of the same chain.
THEOREM WritesOwnTheirBuffer == Spec => WriteOwnsBuffer
<1> DEFINE Owns == \A s \in Conns : "write" \in ops[s] => buffer_'[s] = buffer_[s]
<1>1. ASSUME BeastInv, [Next]_vars PROVE Owns
  <2> SUFFICES ASSUME NEW s \in Conns, "write" \in ops[s]
               PROVE  buffer_'[s] = buffer_[s]
    OBVIOUS
  <2>1. Outstanding(s, "write") /\ buffer_ \in [Conns -> Seq(Nat)]
    BY <1>1, OperationIsOutstanding DEF BeastInv, BeastTypeOK
  <2>2. ASSUME NEW r \in Conns, ReadPiece(r) PROVE buffer_'[s] = buffer_[s]
    <3>1. s # r
      BY <2>1, <2>2 DEF ReadPiece, Outstanding
    <3> QED
      BY <2>1, <2>2, <3>1 DEF ReadPiece
  <2>3. ASSUME NEW t \in Threads, NEW r \in Conns, OnWrite(t, r)
        PROVE  buffer_'[s] = buffer_[s]
    <3>1. "write" \in Ops \cup {"run"} /\ TRUE \in BOOLEAN
      BY DEF Ops
    <3>2. ops[r] = {}
      BY <1>1, <2>3, <3>1, HandlerRuns DEF OnWrite
    <3> QED
      BY <2>1, <2>3, <3>2 DEF OnWrite, Consumed
  <2>4. CASE Next
    BY <2>2, <2>3, <2>4
       DEF Next, ThreadStep, Return, ListenerOnAccept, OnRun, OnAccept, OnRead, OnError,
           Progress, HandshakeCompletes, WritePiece, OpFails, ClientConnects,
           ClientSends, AcceptCompletes, streamVars
  <2>5. CASE UNCHANGED vars
    BY <2>5 DEF vars, streamVars
  <2> QED
    BY <1>1, <2>4, <2>5
<1> QED
  BY <1>1, BeastInvariance, PTL DEF Spec, WriteOwnsBuffer

-----------------------------------------------------------------------------
(* The refinement of EchoService, its fairness apart.                      *)

\* The messages of the abstract service.
Requested(s) == sent[s] \div MSG_LEN
Replied(s) == Len(got[s]) \div MSG_LEN

\* What the client has got back are its first messages, in order.
RepliesOK ==
    \A s \in Conns :
        /\ Replies(s) = [i \in 1..Replied(s) |-> i]
        /\ Replied(s) \in Nat /\ Requested(s) \in Nat
        /\ Len(Replies(s)) = Replied(s) /\ Replied(s) <= Requested(s)

\* A client has got no more than it has sent.
LEMMA GotIsSent ==
    ASSUME NEW g \in Nat, NEW b \in Nat, NEW n \in Nat, NEW w \in Nat, NEW m \in Nat,
           g + b = n + w, w <= b, n <= m
    PROVE  g <= m
OBVIOUS

\* The messages a client has got back are its first ones, in order.
LEMMA RepliesAre == BeastInv => RepliesOK
<1> SUFFICES ASSUME BeastInv, NEW s \in Conns
             PROVE  /\ Replies(s) = [i \in 1..Replied(s) |-> i]
                    /\ Replied(s) \in Nat /\ Requested(s) \in Nat
                    /\ Len(Replies(s)) = Replied(s) /\ Replied(s) <= Requested(s)
  BY DEF RepliesOK
<1>1. BeastTypeOK /\ Stream(s)
  BY DEF BeastInv
<1>2. /\ Len(got[s]) \in Nat /\ Len(buffer_[s]) \in Nat /\ written[s] \in Nat
      /\ taken[s] \in Nat /\ sent[s] \in Nat /\ written[s] <= Len(buffer_[s])
  BY <1>1, SessionTypes
<1>3. Len(got[s]) + Len(buffer_[s]) = taken[s] + written[s] /\ taken[s] <= sent[s]
  BY <1>1 DEF Stream, StreamOf
<1>4. Len(got[s]) <= sent[s]
  BY <1>2, <1>3, GotIsSent
<1>5. Replied(s) \in Nat /\ Requested(s) \in Nat /\ Replied(s) <= Requested(s)
  BY <1>2, <1>4, LenOK, DivMod, DivGrows DEF Replied, Requested
<1>6. Replies(s) = [i \in 1..Replied(s) |-> i]
  <2>1. \A i \in 1..Len(got[s]) : got[s][i] = i
    BY <1>1 DEF Stream, StreamOf
  <2>2. \A i \in 1..(Len(got[s]) \div MSG_LEN) :
          \A k \in ((i - 1) * MSG_LEN + 1)..(i * MSG_LEN) : got[s][k] = k
    BY <1>2, <2>1, LenOK, RepliesInOrder
  <2> QED
    BY <2>2 DEF Replies, Replied
<1> QED
  BY <1>5, <1>6, CountingUp

\* A piece that reaches the client completes the next message or none.
LEMMA PieceIsReply ==
    ASSUME BeastInv, RepliesOK, RepliesOK', NEW s \in Conns, WritePiece(s),
           failed' = failed
    PROVE  Service!Reply(s) \/ UNCHANGED Service!vars
<1>1. /\ Replies(s) = [i \in 1..Replied(s) |-> i] /\ Replied(s) \in Nat
      /\ Len(Replies(s)) = Replied(s)
  BY DEF RepliesOK
<1>2. /\ Replies(s)' = [i \in 1..Replied(s)' |-> i]
      /\ Replied(s)' \in Nat /\ Requested(s)' \in Nat /\ Replied(s)' <= Requested(s)'
  BY DEF RepliesOK
<1>3. /\ sent' = sent /\ Len(got[s]) \in Nat /\ Len(got'[s]) = Len(got[s]) + 1
      /\ \A r \in Conns : r # s => got'[r] = got[r]
  <2>1. got \in [Conns -> Seq(Nat)]
    BY DEF BeastInv, BeastTypeOK
  <2>2. got' = [got EXCEPT ![s] = Append(@, buffer_[s][written[s] + 1])]
    BY DEF WritePiece
  <2>3. Len(got[s]) \in Nat /\ got'[s] = Append(got[s], buffer_[s][written[s] + 1])
    BY <2>1, <2>2
  <2>4. Len(got'[s]) = Len(got[s]) + 1
    BY <2>1, <2>3
  <2> QED
    BY <2>1, <2>2, <2>3, <2>4 DEF WritePiece
<1>4. Requested(s)' = Requested(s)
  BY <1>3 DEF Requested
<1>5. Replied(s)' \in {Replied(s), Replied(s) + 1}
  <2>1. Len(got[s]) <= Len(got[s]) + 1 /\ Len(got[s]) + 1 <= Len(got[s]) + MSG_LEN
    BY <1>3, LenOK
  <2>2. (Len(got[s]) + 1) \div MSG_LEN
          \in {Len(got[s]) \div MSG_LEN, (Len(got[s]) \div MSG_LEN) + 1}
    BY <1>3, <2>1, LenOK, Len(got[s]) + 1 \in Nat, DivGrows
  <2> QED
    BY <1>3, <2>2 DEF Replied
<1>6. \A r \in Conns : r # s => Replies(r)' = Replies(r)
  BY <1>3 DEF Replies
<1> DEFINE requests == [r \in Conns |-> sent[r] \div MSG_LEN]
           replies == [r \in Conns |-> Replies(r)]
<1>7. requests' = requests
  BY <1>3
<1>8. CASE Replied(s)' = Replied(s)
  <2>1. Replies(s)' = Replies(s)
    BY <1>1, <1>2, <1>8
  <2>2. replies' = replies
    BY <1>6, <2>1
  <2> QED
    BY <1>7, <2>2 DEF Service!vars
<1>9. CASE Replied(s)' = Replied(s) + 1
  <2>1. Replies(s)' = Append(Replies(s), Len(Replies(s)) + 1)
    BY <1>1, <1>2, <1>9, CountingUp
  <2>2. replies' = [replies EXCEPT ![s] = Append(@, Len(@) + 1)]
    BY <1>6, <2>1
  <2>3. Len(replies[s]) < requests[s]
    BY <1>1, <1>2, <1>4, <1>9 DEF Requested
  <2> QED
    BY <1>7, <2>2, <2>3 DEF Service!Reply
<1> QED
  BY <1>5, <1>8, <1>9

\* A client sends the next message.
LEMMA SendIsRequest ==
    ASSUME BeastInv, NEW s \in Conns, ClientSends(s)
    PROVE  Service!Request(s)
<1>1. sent \in [Conns -> Nat] /\ sent[s] \in Nat
  BY DEF BeastInv, BeastTypeOK
<1>2. sent' = [sent EXCEPT ![s] = @ + MSG_LEN] /\ got' = got /\ failed' = failed
  BY DEF ClientSends
<1> DEFINE requests == [r \in Conns |-> sent[r] \div MSG_LEN]
           replies == [r \in Conns |-> Replies(r)]
<1>3. (sent[s] + MSG_LEN) \div MSG_LEN = (sent[s] \div MSG_LEN) + 1
  BY <1>1, LenOK, DivOfSum
<1>4. requests' = [requests EXCEPT ![s] = @ + 1]
  BY <1>1, <1>2, <1>3
<1>5. replies' = replies
  BY <1>2 DEF Replies
<1> QED
  BY <1>2, <1>4, <1>5 DEF Service!Request

\* Completions change what the service is only by the sessions they fail.
LEMMA CompletionIsFailure ==
    ASSUME NEW s \in Conns, NEW op, NEW ok \in BOOLEAN, Completes(s, op, ok),
           sent' = sent, got' = got
    PROVE  Service!Fail({s}) \/ UNCHANGED Service!vars
<1>1. failed' = IF ok THEN failed ELSE failed \cup {s}
  BY DEF Completes
<1>2. \A r : Replies(r)' = Replies(r)
  BY DEF Replies
<1> QED
  BY <1>1, <1>2 DEF Service!Fail, Service!vars

\* Each client gets its messages back once, in order and only what it sent: the
\* safety part of EchoService, whatever the threads and the other sessions do.
THEOREM BeastEchoes == Spec => Service!Spec
<1>1. Init => Service!Init
  <2> SUFFICES ASSUME Init PROVE Service!Init
    OBVIOUS
  <2>1. 0 \div MSG_LEN = 0 /\ Len(<<>>) = 0
    BY LenOK
  <2>2. \A s \in Conns : sent[s] = 0 /\ got[s] = <<>> /\ Replies(s) = <<>>
    BY <2>1 DEF Init, Replies
  <2>3. /\ [s \in Conns |-> sent[s] \div MSG_LEN] = [s \in Conns |-> 0]
        /\ [s \in Conns |-> Replies(s)] = [s \in Conns |-> <<>>]
    BY <2>1, <2>2
  <2> QED
    BY <2>3 DEF Init, Service!Init
<1>2. ASSUME BeastInv, RepliesOK, RepliesOK', [Next]_vars
      PROVE  [Service!Next]_(Service!vars)
  <2>1. ASSUME sent' = sent, got' = got, failed' = failed
        PROVE  UNCHANGED Service!vars
    BY <2>1 DEF Service!vars, Replies
  <2>2. ASSUME NEW s \in Conns, ClientSends(s) PROVE [Service!Next]_(Service!vars)
    BY <1>2, <2>2, SendIsRequest DEF Service!Next
  <2>3. ASSUME NEW s \in Conns, WritePiece(s) PROVE [Service!Next]_(Service!vars)
    <3>1. failed' = failed
      BY <2>3 DEF WritePiece, Completes
    <3> QED
      BY <1>2, <2>3, <3>1, PieceIsReply DEF Service!Next
  <2>4. ASSUME NEW s \in Conns, HandshakeCompletes(s) \/ ReadPiece(s) \/ OpFails(s)
        PROVE  [Service!Next]_(Service!vars)
    <3>1. sent' = sent /\ got' = got
      BY <2>4 DEF HandshakeCompletes, ReadPiece, OpFails, streamVars
    <3>2. \/ failed' = failed
          \/ \E op : Completes(s, op, TRUE) \/ Completes(s, op, FALSE)
      BY <2>4 DEF HandshakeCompletes, ReadPiece, OpFails
    <3>3. Service!Fail({s}) \/ UNCHANGED Service!vars
      BY <2>1, <3>1, <3>2, CompletionIsFailure
    <3> QED
      BY <3>3 DEF Service!Next
  <2>5. ASSUME NEW t \in Threads, ThreadStep(t)
        PROVE  [Service!Next]_(Service!vars)
    <3>1. sent' = sent /\ got' = got /\ failed' = failed
      BY <2>5 DEF ThreadStep, Return, ListenerOnAccept, OnRun, OnAccept, OnRead,
                  OnWrite, OnError, SessionRuns, streamVars
    <3> QED
      BY <2>1, <3>1
  <2>6. ASSUME \/ \E s \in Conns : ClientConnects(s)
               \/ \E s \in Conns \cup {Listener} : AcceptCompletes(s)
               \/ UNCHANGED vars
        PROVE  [Service!Next]_(Service!vars)
    <3>1. sent' = sent /\ got' = got /\ failed' = failed
      BY <2>6 DEF ClientConnects, AcceptCompletes, vars, streamVars
    <3> QED
      BY <2>1, <3>1
  <2> QED
    BY <1>2, <2>2, <2>3, <2>4, <2>5, <2>6 DEF Next, Progress
<1> QED
  BY <1>1, <1>2, RepliesAre, BeastInvariance, PTL DEF Spec, Service!Spec
=============================================================================
