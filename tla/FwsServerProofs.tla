--------------------------- MODULE FwsServerProofs ---------------------------
(***************************************************************************)
(* Proofs about the flashws server under any WebSocket clients, for any    *)
(* number of them, message sizes, faults and row intervals: the echoes of  *)
(* a connection are its messages, the bytes balance, the rows are of whole *)
(* intervals, and the server is an EchoService as far as safety goes.      *)
(***************************************************************************)
EXTENDS FwsServerLoad, SumProofs

-----------------------------------------------------------------------------
(* The messages of a direction of a connection.                            *)

\* How many messages the frames q hold, and what is unechoed of them when b bytes of
\* the first are in the server's buffer.
Behind(q) == IF Len(q) > 0 /\ q[Len(q)] = CLOSE THEN Len(q) - 1 ELSE Len(q)
Rest(q, b) == [j \in 1..Behind(q) |-> q[j] + IF j = 1 THEN b ELSE 0]

\* A message's frame is not empty, and the buffer is if there is no message.
Frames(q, b) ==
    /\ q \in Seq(Nat) /\ b \in Nat
    /\ \A j \in 1..Behind(q) : q[j] # CLOSE
    /\ Behind(q) = 0 => b = 0

\* How many they are.
LEMMA BehindIs ==
    ASSUME NEW q \in Seq(Nat)
    PROVE  /\ Len(q) \in Nat /\ Behind(q) \in Nat /\ Behind(q) <= Len(q)
           /\ Len(q) <= Behind(q) + 1
           /\ Behind(q) < Len(q) <=> Len(q) > 0 /\ q[Len(q)] = CLOSE
BY DEF Behind

\* What is unechoed of them.
LEMMA RestIs ==
    ASSUME NEW q, NEW b, Frames(q, b)
    PROVE  /\ Rest(q, b) \in Seq(Nat) /\ Len(Rest(q, b)) = Behind(q)
           /\ \A j \in 1..Behind(q) :
                Rest(q, b)[j] = q[j] + IF j = 1 THEN b ELSE 0
<1>1. q \in Seq(Nat) /\ b \in Nat
  BY DEF Frames
<1>2. Behind(q) \in Nat /\ Behind(q) <= Len(q) /\ Len(q) \in Nat
  BY <1>1, BehindIs
<1>3. \A j \in 1..Behind(q) : q[j] \in Nat
  BY <1>1, <1>2
<1>4. Rest(q, b) \in [1..Behind(q) -> Nat]
  BY <1>1, <1>3 DEF Rest
<1> QED
  BY <1>2, <1>4 DEF Rest

\* A message more.
LEMMA RestSent ==
    ASSUME NEW q, NEW b, Frames(q, b), Behind(q) = Len(q), NEW n \in Nat \ {0}
    PROVE  /\ Frames(Append(q, n), b)
           /\ Behind(Append(q, n)) = Len(Append(q, n))
           /\ Rest(Append(q, n), b) = Append(Rest(q, b), n)
<1> DEFINE p == Append(q, n)
<1>1. q \in Seq(Nat) /\ b \in Nat /\ Len(q) \in Nat
  BY DEF Frames
<1>2. /\ p \in Seq(Nat) /\ Len(p) = Len(q) + 1 /\ p[Len(q) + 1] = n
      /\ \A j \in 1..Len(q) : p[j] = q[j]
  BY <1>1
<1> HIDE DEF p
<1>3. Behind(p) = Len(q) + 1
  BY <1>1, <1>2 DEF Behind, CLOSE
<1>4. Frames(p, b)
  BY <1>1, <1>2, <1>3 DEF Frames, CLOSE
<1>5. /\ Rest(p, b) \in Seq(Nat) /\ Len(Rest(p, b)) = Len(q) + 1
      /\ \A j \in 1..(Len(q) + 1) : Rest(p, b)[j] = p[j] + IF j = 1 THEN b ELSE 0
  BY <1>3, <1>4, RestIs
<1>6. /\ Rest(q, b) \in Seq(Nat) /\ Len(Rest(q, b)) = Len(q)
      /\ \A j \in 1..Len(q) : Rest(q, b)[j] = q[j] + IF j = 1 THEN b ELSE 0
  BY RestIs
<1> DEFINE r == Append(Rest(q, b), n)
<1>7. /\ r \in Seq(Nat) /\ Len(r) = Len(q) + 1 /\ r[Len(q) + 1] = n
      /\ \A j \in 1..Len(q) : r[j] = Rest(q, b)[j]
  BY <1>1, <1>6
<1>8. ASSUME NEW j \in 1..(Len(q) + 1) PROVE Rest(p, b)[j] = r[j]
  <2>1. j \in 1..Len(q) \/ j = Len(q) + 1
    <3>1. Len(q) \in Nat
      BY <1>1
    <3> QED
      BY <3>1
  <2>2. Rest(p, b)[j] = p[j] + IF j = 1 THEN b ELSE 0
    BY <1>5
  <2>3. CASE j \in 1..Len(q)
    <3>1. p[j] = q[j] /\ r[j] = Rest(q, b)[j]
      BY <1>2, <1>7, <2>3
    <3>2. Rest(q, b)[j] = q[j] + IF j = 1 THEN b ELSE 0
      BY <1>6, <2>3
    <3> QED
      BY <2>2, <3>1, <3>2
  <2>4. CASE j = Len(q) + 1
    <3>1. j = 1 => b = 0
      <4>1. j = 1 => Len(q) = 0
        BY <1>1, <2>4
      <4> QED
        BY <4>1 DEF Frames
    <3>2. p[j] = n /\ r[j] = n
      BY <1>2, <1>7, <2>4
    <3> QED
      BY <2>2, <3>1, <3>2
  <2> QED
    BY <2>1, <2>3, <2>4
<1> HIDE DEF r
<1>9. Rest(p, b) = r
  BY <1>5, <1>7, <1>8
<1> QED
  BY <1>2, <1>3, <1>4, <1>9 DEF p, r

\* A close.
LEMMA RestClosed ==
    ASSUME NEW q, NEW b, Frames(q, b), Behind(q) = Len(q)
    PROVE  /\ Frames(Append(q, CLOSE), b)
           /\ Rest(Append(q, CLOSE), b) = Rest(q, b)
<1> DEFINE p == Append(q, CLOSE)
<1>1. q \in Seq(Nat) /\ b \in Nat /\ Len(q) \in Nat
  BY DEF Frames
<1>2. /\ p \in Seq(Nat) /\ Len(p) = Len(q) + 1 /\ p[Len(q) + 1] = CLOSE
      /\ \A j \in 1..Len(q) : p[j] = q[j]
  BY <1>1 DEF CLOSE
<1> HIDE DEF p
<1>3. Behind(p) = Len(q)
  BY <1>1, <1>2 DEF Behind
<1>4. Frames(p, b)
  BY <1>1, <1>2, <1>3 DEF Frames
<1>5. Rest(p, b) = Rest(q, b)
  BY <1>2, <1>3 DEF Rest
<1> QED
  BY <1>4, <1>5 DEF p

\* A piece goes into the buffer.
LEMMA RestPiece ==
    ASSUME NEW q, NEW b, Frames(q, b), q # <<>>, NEW n \in 1..Head(q), n # Head(q),
           NEW p, p = <<Head(q) - n>> \o Tail(q)
    PROVE  /\ Frames(p, b + n)
           /\ Behind(p) = Behind(q) /\ Len(p) = Len(q)
           /\ Rest(p, b + n) = Rest(q, b)
<1>1. q \in Seq(Nat) /\ b \in Nat /\ Len(q) \in Nat /\ Len(q) > 0 /\ Head(q) = q[1]
  BY DEF Frames
<1>2. q[1] \in Nat /\ n \in Nat /\ n > 0 /\ n < q[1]
  BY <1>1
<1>3. /\ p \in Seq(Nat) /\ Len(p) = Len(q) /\ p[1] = q[1] - n
      /\ \A j \in 2..Len(q) : p[j] = q[j]
  BY <1>1, <1>2
<1>4. p[Len(p)] = CLOSE <=> q[Len(q)] = CLOSE
  <2>1. CASE Len(q) = 1
    <3>1. p[Len(p)] = q[1] - n /\ q[Len(q)] = q[1]
      BY <1>3, <2>1
    <3>2. q[1] - n # 0 /\ q[1] # 0
      BY <1>2
    <3> QED
      BY <3>1, <3>2 DEF CLOSE
  <2>2. CASE Len(q) > 1
    BY <1>1, <1>3, <2>2
  <2>3. Len(q) = 1 \/ Len(q) > 1
    BY <1>1
  <2> QED
    BY <2>1, <2>2, <2>3
<1>5. Behind(p) = Behind(q)
  BY <1>3, <1>4 DEF Behind
<1>6. Behind(q) \in Nat /\ Behind(q) <= Len(q) /\ Behind(q) # 0
  BY <1>1, <1>2 DEF Behind, CLOSE
<1>7. Frames(p, b + n)
  <2>1. ASSUME NEW j \in 1..Behind(q) PROVE p[j] # CLOSE
    <3>1. CASE j = 1
      BY <1>2, <1>3, <3>1 DEF CLOSE
    <3>2. CASE j # 1
      <4>1. p[j] = q[j]
        BY <1>1, <1>3, <1>6, <3>2
      <4> QED
        BY <4>1 DEF Frames
    <3> QED
      BY <3>1, <3>2
  <2> QED
    BY <1>1, <1>2, <1>3, <1>5, <1>6, <2>1 DEF Frames
<1>8. ASSUME NEW j \in 1..Behind(q)
      PROVE  p[j] + (IF j = 1 THEN b + n ELSE 0) = q[j] + (IF j = 1 THEN b ELSE 0)
  <2>1. CASE j = 1
    BY <1>1, <1>2, <1>3, <2>1
  <2>2. CASE j # 1
    <3>1. p[j] = q[j]
      BY <1>1, <1>3, <1>6, <2>2
    <3> QED
      BY <2>2, <3>1
  <2> QED
    BY <2>1, <2>2
<1>9. Rest(p, b + n) = Rest(q, b)
  BY <1>5, <1>8 DEF Rest
<1> QED
  BY <1>3, <1>5, <1>7, <1>9

\* A whole message leaves, with what is in the buffer.
LEMMA RestEchoed ==
    ASSUME NEW q, NEW b, Frames(q, b), q # <<>>, Head(q) # CLOSE
    PROVE  /\ Rest(q, b) # <<>> /\ Head(Rest(q, b)) = b + Head(q)
           /\ Frames(Tail(q), 0)
           /\ Behind(Tail(q)) = Behind(q) - 1 /\ Len(Tail(q)) = Len(q) - 1
           /\ Rest(Tail(q), 0) = Tail(Rest(q, b))
<1> DEFINE p == Tail(q)
           r == Rest(q, b)
<1>1. q \in Seq(Nat) /\ b \in Nat /\ Len(q) \in Nat /\ Len(q) > 0 /\ Head(q) = q[1]
  BY DEF Frames
<1>2. /\ p \in Seq(Nat) /\ Len(p) = Len(q) - 1
      /\ \A j \in 1..(Len(q) - 1) : p[j] = q[j + 1]
  BY <1>1
<1>3. Behind(q) \in Nat /\ Behind(q) <= Len(q) /\ Behind(q) # 0
  BY <1>1 DEF Behind
<1>4. r \in Seq(Nat) /\ Len(r) = Behind(q)
      /\ \A j \in 1..Behind(q) : r[j] = q[j] + IF j = 1 THEN b ELSE 0
  BY RestIs
<1> HIDE DEF p, r
<1>5. r # <<>> /\ Head(r) = b + Head(q)
  <2>1. q[1] \in Nat
    BY <1>1
  <2> QED
    BY <1>1, <1>3, <1>4, <2>1
<1>6. Behind(p) = Behind(q) - 1
  <2>1. CASE Len(q) = 1
    <3>1. Len(p) = 0 /\ Behind(q) = 1
      BY <1>1, <1>2, <1>3, <2>1
    <3> QED
      BY <1>2, <3>1 DEF Behind
  <2>2. CASE Len(q) > 1
    <3>1. Len(q) - 1 \in 1..(Len(q) - 1) /\ (Len(q) - 1) + 1 = Len(q)
      BY <1>1, <2>2
    <3>2. p[Len(p)] = q[Len(q)] /\ Len(p) > 0
      BY <1>2, <2>2, <3>1
    <3> QED
      BY <1>1, <1>2, <3>2 DEF Behind
  <2>3. Len(q) = 1 \/ Len(q) > 1
    <3>1. Len(q) \in Nat /\ Len(q) > 0
      BY <1>1
    <3> QED
      BY <3>1
  <2> QED
    BY <2>1, <2>2, <2>3
<1>7. ASSUME NEW j \in 1..(Behind(q) - 1)
      PROVE  p[j] = q[j + 1] /\ j + 1 \in 1..Behind(q)
  <2>1. Behind(q) \in Nat /\ Len(q) \in Nat /\ Behind(q) <= Len(q)
    BY <1>1, <1>3
  <2>2. j \in 1..(Len(q) - 1) /\ j + 1 \in 1..Behind(q)
    BY <2>1
  <2> QED
    BY <1>2, <2>2
<1>8. Frames(p, 0)
  BY <1>2, <1>6, <1>7 DEF Frames
<1>9. /\ Rest(p, 0) \in Seq(Nat) /\ Len(Rest(p, 0)) = Behind(q) - 1
      /\ \A j \in 1..(Behind(q) - 1) : Rest(p, 0)[j] = p[j] + IF j = 1 THEN 0 ELSE 0
  BY <1>6, <1>8, RestIs
<1>10. /\ Tail(r) \in Seq(Nat) /\ Len(Tail(r)) = Behind(q) - 1
       /\ \A j \in 1..(Behind(q) - 1) : Tail(r)[j] = r[j + 1]
  BY <1>3, <1>4, <1>5
<1>11. ASSUME NEW j \in 1..(Behind(q) - 1) PROVE Rest(p, 0)[j] = Tail(r)[j]
  <2>1. q[j + 1] \in Nat /\ j + 1 # 1 /\ j + 1 \in 1..Behind(q)
    BY <1>1, <1>3, <1>7
  <2>2. r[j + 1] = q[j + 1]
    BY <1>4, <2>1
  <2>3. Rest(p, 0)[j] = q[j + 1]
    BY <1>7, <1>9, <2>1
  <2> QED
    BY <1>10, <2>2, <2>3
<1>12. Rest(p, 0) = Tail(r)
  BY <1>9, <1>10, <1>11
<1> QED
  BY <1>2, <1>5, <1>6, <1>8, <1>12 DEF p, r

-----------------------------------------------------------------------------
(* Entries of a sequence that follow its first n.                          *)

\* The sequence q is what follows the first n entries of s, as far as it goes.
Follows(s, n, q) ==
    /\ n + Len(q) <= Len(s)
    /\ \A j \in 1..Len(q) : q[j] = s[n + j]

\* It still is when s grows.
LEMMA FollowsLonger ==
    ASSUME NEW s \in Seq(Nat), NEW n \in Nat, NEW q \in Seq(Nat), Follows(s, n, q),
           NEW x \in Nat
    PROVE  Follows(Append(s, x), n, q)
<1>1. Len(s) \in Nat /\ Len(q) \in Nat /\ n + Len(q) <= Len(s)
  BY DEF Follows
<1>2. /\ Len(Append(s, x)) = Len(s) + 1
      /\ \A i \in 1..Len(s) : Append(s, x)[i] = s[i]
  OBVIOUS
<1>3. ASSUME NEW j \in 1..Len(q) PROVE q[j] = Append(s, x)[n + j]
  <2>1. n + j \in 1..Len(s)
    BY <1>1
  <2> QED
    BY <1>2, <2>1 DEF Follows
<1> QED
  BY <1>1, <1>2, <1>3 DEF Follows

\* The next entry of s is its next one.
LEMMA FollowsMore ==
    ASSUME NEW s \in Seq(Nat), NEW n \in Nat, NEW q \in Seq(Nat), Follows(s, n, q),
           NEW x \in Nat, NEW m, m = n + Len(q) + 1, m <= Len(s), s[m] = x
    PROVE  Follows(s, n, Append(q, x))
<1>1. Len(s) \in Nat /\ Len(q) \in Nat
  OBVIOUS
<1>2. /\ Len(Append(q, x)) = Len(q) + 1 /\ Append(q, x)[Len(q) + 1] = x
      /\ \A i \in 1..Len(q) : Append(q, x)[i] = q[i]
  OBVIOUS
<1>3. ASSUME NEW j \in 1..(Len(q) + 1) PROVE Append(q, x)[j] = s[n + j]
  <2>1. CASE j = Len(q) + 1
    <3>1. n + j = m
      BY <1>1, <2>1
    <3> QED
      BY <1>2, <2>1, <3>1
  <2>2. CASE j \in 1..Len(q)
    BY <1>2, <2>2 DEF Follows
  <2>3. j \in 1..Len(q) \/ j = Len(q) + 1
    BY <1>1
  <2> QED
    BY <2>1, <2>2, <2>3
<1>4. n + (Len(q) + 1) <= Len(s)
  BY <1>1
<1> QED
  BY <1>2, <1>3, <1>4 DEF Follows

\* What follows the last entry of s is nothing, and an entry more of s follows that.
LEMMA FollowsNew ==
    ASSUME NEW s \in Seq(Nat), NEW n \in Nat, NEW q \in Seq(Nat), Follows(s, n, q),
           n + Len(q) = Len(s), NEW x \in Nat
    PROVE  /\ Follows(Append(s, x), n, Append(q, x))
           /\ n + Len(Append(q, x)) = Len(Append(s, x))
<1>1. Len(s) \in Nat /\ Len(q) \in Nat
  OBVIOUS
<1>2. /\ Append(s, x) \in Seq(Nat) /\ Len(Append(s, x)) = Len(s) + 1
      /\ Append(s, x)[Len(s) + 1] = x
      /\ Append(q, x) \in Seq(Nat) /\ Len(Append(q, x)) = Len(q) + 1
  OBVIOUS
<1>3. Follows(Append(s, x), n, q)
  BY FollowsLonger
<1>4. Len(s) + 1 = n + Len(q) + 1 /\ Len(s) + 1 <= Len(Append(s, x))
  BY <1>1, <1>2
<1>5. Follows(Append(s, x), n, Append(q, x))
  BY <1>2, <1>3, <1>4, FollowsMore
<1>6. n + Len(Append(q, x)) = Len(Append(s, x))
  BY <1>1, <1>2
<1> QED
  BY <1>5, <1>6

\* The first of q is the next of s, and the rest follows it.
LEMMA FollowsTail ==
    ASSUME NEW s \in Seq(Nat), NEW n \in Nat, NEW q \in Seq(Nat), Follows(s, n, q),
           q # <<>>
    PROVE  /\ n + 1 <= Len(s) /\ s[n + 1] = Head(q)
           /\ Follows(s, n + 1, Tail(q))
           /\ (n + 1) + Len(Tail(q)) = n + Len(q)
<1> DEFINE m == n + 1
<1>1. Len(s) \in Nat /\ Len(q) \in Nat /\ Len(q) > 0 /\ n + Len(q) <= Len(s)
  BY DEF Follows
<1>2. /\ Len(Tail(q)) = Len(q) - 1 /\ Head(q) = q[1]
      /\ \A j \in 1..(Len(q) - 1) : Tail(q)[j] = q[j + 1]
  OBVIOUS
<1>3. m <= Len(s) /\ m + Len(Tail(q)) = n + Len(q)
  BY <1>1, <1>2
<1>4. s[m] = Head(q)
  <2>1. 1 \in 1..Len(q)
    BY <1>1
  <2> QED
    BY <1>2, <2>1 DEF Follows
<1>5. ASSUME NEW j \in 1..(Len(q) - 1) PROVE Tail(q)[j] = s[m + j]
  <2>1. j + 1 \in 1..Len(q) /\ n + (j + 1) = m + j
    BY <1>1
  <2>2. q[j + 1] = s[n + (j + 1)]
    BY <2>1 DEF Follows
  <2> QED
    BY <1>2, <2>1, <2>2
<1> QED
  BY <1>1, <1>2, <1>3, <1>4, <1>5 DEF Follows

\* What follows twice is together the sequence, or a beginning of it.
LEMMA FollowsJoined ==
    ASSUME NEW s \in Seq(Nat), NEW f \in Seq(Nat), NEW g \in Seq(Nat),
           Follows(s, 0, f), Follows(s, Len(f), g)
    PROVE  f \o g \in Seq(Nat) /\ Len(f \o g) = Len(f) + Len(g)
             /\ Follows(s, 0, f \o g)
<1>1. /\ f \o g \in Seq(Nat) /\ Len(f \o g) = Len(f) + Len(g)
      /\ \A i \in 1..Len(f) : (f \o g)[i] = f[i]
      /\ \A j \in 1..Len(g) : (f \o g)[Len(f) + j] = g[j]
  BY JoinedIs
<1>2. Len(f) \in Nat /\ Len(g) \in Nat /\ Len(s) \in Nat
  OBVIOUS
<1> DEFINE e == f \o g
<1> HIDE DEF e
<1>3. ASSUME NEW i \in 1..(Len(f) + Len(g)) PROVE e[i] = s[0 + i]
  <2>1. 0 + i = i
    OBVIOUS
  <2>2. CASE i \in 1..Len(f)
    BY <1>1, <2>1, <2>2 DEF Follows, e
  <2>3. CASE i \notin 1..Len(f)
    <3>1. i - Len(f) \in 1..Len(g) /\ Len(f) + (i - Len(f)) = i
      BY <1>2, <2>3
    <3>2. e[Len(f) + (i - Len(f))] = g[i - Len(f)]
      BY <1>1, <3>1 DEF e
    <3>3. g[i - Len(f)] = s[Len(f) + (i - Len(f))]
      BY <3>1 DEF Follows
    <3> QED
      BY <2>1, <3>1, <3>2, <3>3
  <2> QED
    BY <2>2, <2>3
<1>4. 0 + (Len(f) + Len(g)) <= Len(s)
  BY <1>2 DEF Follows
<1> QED
  BY <1>1, <1>3, <1>4 DEF Follows, e

\* What follows nothing and is as long is the sequence itself.
LEMMA FollowsAll ==
    ASSUME NEW s \in Seq(Nat), NEW q \in Seq(Nat), Follows(s, 0, q), Len(q) = Len(s)
    PROVE  q = s
<1>1. ASSUME NEW j \in 1..Len(q) PROVE q[j] = s[j]
  <2>1. 0 + j = j
    OBVIOUS
  <2> QED
    BY <2>1 DEF Follows
<1> QED
  BY <1>1

-----------------------------------------------------------------------------
(* The inductive invariant: what a connection has got back, what is on its *)
(* way back, and what the server has not echoed are together what its      *)
(* client sent, in this order.                                             *)

LoadTypeOK ==
    /\ WireTypeOK /\ SrvTypeOK
    /\ sent \in [Conns -> Seq(Nat)]
    /\ arrived \in [Conns -> Seq(Nat)]

\* The echoes of c, and what is to be echoed.
Echoes(c) ==
    /\ Follows(sent[c], 0, arrived[c])
    /\ Follows(sent[c], Len(arrived[c]), s2c[c])
ToEcho(c) ==
    /\ Frames(c2s[c], con_buf[c])
    /\ cli_link[c] # "closing" => Behind(c2s[c]) = Len(c2s[c])
    /\ Follows(sent[c], Len(arrived[c]) + Len(s2c[c]), Rest(c2s[c], con_buf[c]))
    /\ (Len(arrived[c]) + Len(s2c[c])) + Len(Rest(c2s[c], con_buf[c])) = Len(sent[c])
Flow(c) ==
    /\ Echoes(c)
    /\ srv_link[c] = "open" => ToEcho(c)
    /\ srv_link[c] # "open" => con_buf[c] = NoCtx
    /\ srv_link[c] = "none" =>
         /\ c2s[c] = <<>> /\ s2c[c] = <<>> /\ sent[c] = <<>> /\ arrived[c] = <<>>
         /\ cli_link[c] # "open"

LoadInv ==
    /\ LoadTypeOK
    /\ \A c \in Conns : Flow(c)
    /\ BytesBalance
    /\ RowsAreWholeIntervals

\* What the parts of a connection are.
LEMMA FlowTypes ==
    ASSUME LoadTypeOK, NEW c \in Conns
    PROVE  /\ sent[c] \in Seq(Nat) /\ arrived[c] \in Seq(Nat)
           /\ c2s[c] \in Seq(Nat) /\ s2c[c] \in Seq(Nat)
           /\ Len(sent[c]) \in Nat /\ Len(arrived[c]) \in Nat
           /\ Len(c2s[c]) \in Nat /\ Len(s2c[c]) \in Nat
           /\ con_buf[c] \in Nat \cup {NoCtx}
BY DEF LoadTypeOK, WireTypeOK, SrvTypeOK

\* A connection that a step leaves alone.
Still(d) ==
    /\ cli_link'[d] = cli_link[d] /\ srv_link'[d] = srv_link[d]
    /\ c2s'[d] = c2s[d] /\ s2c'[d] = s2c[d] /\ con_buf'[d] = con_buf[d]
    /\ sent'[d] = sent[d] /\ arrived'[d] = arrived[d]

\* A connection the step leaves alone keeps its invariant.
LEMMA FlowFrame ==
    ASSUME NEW d \in Conns, Flow(d), Still(d)
    PROVE  Flow(d)'
BY DEF Flow, Still, Echoes, ToEcho

\* What a client does does not concern the counters.
LEMMA CountersFrame ==
    ASSUME LoadInv, UNCHANGED srvVars
    PROVE  BytesBalance' /\ RowsAreWholeIntervals' /\ SrvTypeOK'
<1>1. /\ con_buf' = con_buf /\ stats' = stats /\ rows' = rows
      /\ lost_bytes' = lost_bytes /\ srv_proc' = srv_proc
  BY DEF srvVars
<1>2. PendingBytes' = PendingBytes
  BY <1>1 DEF PendingBytes
<1>3. BytesBalance'
  BY <1>1, <1>2 DEF LoadInv, BytesBalance
<1>4. RowsAreWholeIntervals' /\ SrvTypeOK'
  BY <1>1 DEF LoadInv, LoadTypeOK, RowsAreWholeIntervals, SrvTypeOK
<1> QED
  BY <1>3, <1>4

\* A client connects, or its link is lost.
LEMMA LinkSteps ==
    ASSUME LoadInv, NEW c \in Conns,
           Connect(c) \/ (BreakLink(c) /\ UNCHANGED loadVars), UNCHANGED srvVars
    PROVE  LoadInv'
<1>1. LoadTypeOK /\ \A d \in Conns : Flow(d)
  BY DEF LoadInv
<1>2. /\ srv_link' = srv_link /\ c2s' = c2s /\ s2c' = s2c /\ con_buf' = con_buf
      /\ sent' = sent /\ arrived' = arrived
      /\ cli_link' = cli_link \/ cli_link' = [cli_link EXCEPT ![c] = "connecting"]
      /\ cli_link' = cli_link \/ cli_link[c] = "none"
  BY DEF Connect, BreakLink, srvVars, loadVars
<1>3. BytesBalance' /\ RowsAreWholeIntervals' /\ SrvTypeOK'
  BY CountersFrame
<1>4. LoadTypeOK'
  <2>1. cli_link' \in [Conns -> CliLinks]
    BY <1>1, <1>2 DEF LoadTypeOK, WireTypeOK, CliLinks
  <2>2. broken' \in SUBSET Conns /\ faults' \in 0..MAX_FAULTS
    BY <1>1, FaultsAssumption DEF LoadTypeOK, WireTypeOK, Connect, BreakLink
  <2> QED
    BY <1>1, <1>2, <1>3, <2>1, <2>2 DEF LoadTypeOK, WireTypeOK
<1>5. ASSUME NEW d \in Conns PROVE Flow(d)'
  <2>1. /\ cli_link'[d] # "closing" => cli_link[d] # "closing"
        /\ cli_link'[d] = "open" => cli_link[d] = "open"
    BY <1>1, <1>2 DEF LoadTypeOK, WireTypeOK
  <2>2. Flow(d)
    BY <1>1
  <2> QED
    BY <1>2, <2>1, <2>2 DEF Flow, Echoes, ToEcho
<1> QED
  BY <1>3, <1>4, <1>5 DEF LoadInv

\* A client sends a message: the last of what is to be echoed.
LEMMA SendStep ==
    ASSUME LoadInv, NEW c \in Conns, NEW size \in 1..SRV_MAX_LEN, Send(c, size),
           UNCHANGED srvVars
    PROVE  LoadInv'
<1>1. LoadTypeOK /\ \A d \in Conns : Flow(d)
  BY DEF LoadInv
<1>2. /\ srv_link' = srv_link /\ s2c' = s2c /\ con_buf' = con_buf
      /\ arrived' = arrived /\ broken' = broken /\ faults' = faults
      /\ cli_link' = [cli_link EXCEPT ![c] = "open"]
      /\ cli_link[c] # "closing" /\ srv_link[c] # "none"
      /\ c2s' = [c2s EXCEPT ![c] = Append(@, size)]
      /\ sent' = [sent EXCEPT ![c] = Append(@, size)]
  BY DEF Send, srvVars, Put
<1>3. BytesBalance' /\ RowsAreWholeIntervals' /\ SrvTypeOK'
  BY CountersFrame
<1>4. size \in Nat \ {0}
  BY SrvAssumption
<1>5. /\ sent[c] \in Seq(Nat) /\ arrived[c] \in Seq(Nat) /\ c2s[c] \in Seq(Nat)
      /\ s2c[c] \in Seq(Nat) /\ Len(arrived[c]) \in Nat /\ Len(s2c[c]) \in Nat
      /\ Append(c2s[c], size) \in Seq(Nat) /\ Append(sent[c], size) \in Seq(Nat)
  BY <1>1, <1>4, FlowTypes
<1>6. LoadTypeOK'
  <2>1. cli_link' \in [Conns -> CliLinks]
    BY <1>1, <1>2 DEF LoadTypeOK, WireTypeOK, CliLinks
  <2>2. c2s' \in [Conns -> Seq(Nat)] /\ sent' \in [Conns -> Seq(Nat)]
    BY <1>1, <1>2, <1>5 DEF LoadTypeOK, WireTypeOK
  <2> QED
    BY <1>1, <1>2, <1>3, <2>1, <2>2 DEF LoadTypeOK, WireTypeOK
<1>7. /\ c2s'[c] = Append(c2s[c], size) /\ sent'[c] = Append(sent[c], size)
      /\ cli_link'[c] = "open"
  BY <1>1, <1>2 DEF LoadTypeOK, WireTypeOK
<1>8. Flow(c)'
  <2>1. Echoes(c)
    BY <1>1 DEF Flow
  <2>2. /\ Follows(sent'[c], 0, arrived[c])
        /\ Follows(sent'[c], Len(arrived[c]), s2c[c])
    BY <1>4, <1>5, <1>7, <2>1, FollowsLonger DEF Echoes
  <2>3. ASSUME srv_link[c] = "open" PROVE ToEcho(c)'
    <3> DEFINE r == Rest(c2s[c], con_buf[c])
               n == Len(arrived[c]) + Len(s2c[c])
    <3>1. ToEcho(c)
      BY <1>1, <2>3 DEF Flow
    <3>2. /\ Frames(c2s[c], con_buf[c]) /\ Behind(c2s[c]) = Len(c2s[c])
          /\ Follows(sent[c], n, r) /\ n + Len(r) = Len(sent[c])
      BY <1>2, <3>1 DEF ToEcho
    <3>3. /\ Frames(Append(c2s[c], size), con_buf[c])
          /\ Behind(Append(c2s[c], size)) = Len(Append(c2s[c], size))
          /\ Rest(Append(c2s[c], size), con_buf[c]) = Append(r, size)
      BY <1>4, <3>2, RestSent
    <3>4. /\ r \in Seq(Nat) /\ n \in Nat
          /\ sent[c] \in Seq(Nat) /\ size \in Nat
      <4>1. r \in Seq(Nat)
        BY <3>2, RestIs
      <4>2. n \in Nat
        <5>1. Len(arrived[c]) \in Nat /\ Len(s2c[c]) \in Nat
          BY <1>5
        <5>2. \A a \in Nat, b \in Nat : a + b \in Nat
          OBVIOUS
        <5> QED
          BY <5>1, <5>2
      <4> QED
        BY <1>4, <1>5, <4>1, <4>2
    <3> HIDE DEF r, n
    <3>5. /\ Follows(Append(sent[c], size), n, Append(r, size))
          /\ n + Len(Append(r, size)) = Len(Append(sent[c], size))
      BY <3>2, <3>4, FollowsNew
    <3>6. /\ c2s'[c] = Append(c2s[c], size) /\ con_buf'[c] = con_buf[c]
          /\ sent'[c] = Append(sent[c], size)
          /\ Rest(c2s'[c], con_buf'[c]) = Append(r, size)
          /\ Len(arrived'[c]) + Len(s2c'[c]) = n
      BY <1>2, <1>7, <3>3 DEF n
    <3> QED
      BY <3>3, <3>5, <3>6 DEF ToEcho
  <2>4. srv_link[c] # "open" => con_buf[c] = NoCtx
    BY <1>1 DEF Flow
  <2> QED
    BY <1>2, <2>2, <2>3, <2>4 DEF Flow, Echoes
<1>9. ASSUME NEW d \in Conns, d # c PROVE Flow(d)'
  <2>1. Still(d)
    BY <1>1, <1>2, <1>9 DEF Still, LoadTypeOK, WireTypeOK
  <2> QED
    BY <1>1, <2>1, FlowFrame
<1> QED
  BY <1>3, <1>6, <1>8, <1>9 DEF LoadInv

\* A client gets the next echo.
LEMMA ReceiveStep ==
    ASSUME LoadInv, NEW c \in Conns, Receive(c), UNCHANGED srvVars
    PROVE  LoadInv'
<1>1. LoadTypeOK /\ \A d \in Conns : Flow(d)
  BY DEF LoadInv
<1>2. /\ srv_link' = srv_link /\ c2s' = c2s /\ con_buf' = con_buf
      /\ sent' = sent /\ broken' = broken /\ faults' = faults
      /\ cli_link' = cli_link /\ s2c[c] # <<>>
      /\ s2c' = [s2c EXCEPT ![c] = Tail(@)]
      /\ arrived' = [arrived EXCEPT ![c] = Append(@, Head(s2c[c]))]
  BY DEF Receive, srvVars
<1>3. BytesBalance' /\ RowsAreWholeIntervals' /\ SrvTypeOK'
  BY CountersFrame
<1>4. /\ sent[c] \in Seq(Nat) /\ arrived[c] \in Seq(Nat) /\ s2c[c] \in Seq(Nat)
      /\ Len(arrived[c]) \in Nat /\ Len(s2c[c]) \in Nat /\ Len(sent[c]) \in Nat
  BY <1>1, FlowTypes
<1>5. /\ Head(s2c[c]) \in Nat /\ Tail(s2c[c]) \in Seq(Nat)
      /\ Len(Tail(s2c[c])) = Len(s2c[c]) - 1
      /\ Append(arrived[c], Head(s2c[c])) \in Seq(Nat)
      /\ Len(Append(arrived[c], Head(s2c[c]))) = Len(arrived[c]) + 1
  BY <1>2, <1>4
<1>6. LoadTypeOK'
  <2>1. s2c' \in [Conns -> Seq(Nat)] /\ arrived' \in [Conns -> Seq(Nat)]
    BY <1>1, <1>2, <1>5 DEF LoadTypeOK, WireTypeOK
  <2> QED
    BY <1>1, <1>2, <1>3, <2>1 DEF LoadTypeOK, WireTypeOK
<1>7. s2c'[c] = Tail(s2c[c]) /\ arrived'[c] = Append(arrived[c], Head(s2c[c]))
  BY <1>1, <1>2 DEF LoadTypeOK, WireTypeOK
<1>8. Flow(c)'
  <2> DEFINE m == Len(arrived[c]) + 1
             x == Head(s2c[c])
  <2>1. /\ Follows(sent[c], 0, arrived[c])
        /\ Follows(sent[c], Len(arrived[c]), s2c[c])
    BY <1>1 DEF Flow, Echoes
  <2>2. m = 0 + Len(arrived[c]) + 1 /\ 0 \in Nat
    BY <1>4
  <2>3. /\ m <= Len(sent[c]) /\ sent[c][m] = x
        /\ Follows(sent[c], m, Tail(s2c[c]))
        /\ m + Len(Tail(s2c[c])) = Len(arrived[c]) + Len(s2c[c])
    <3>1. s2c[c] # <<>> /\ Follows(sent[c], Len(arrived[c]), s2c[c])
      BY <1>2, <2>1
    <3> HIDE DEF Follows
    <3> QED
      BY ONLY <1>4, <3>1, FollowsTail
  <2> HIDE DEF m
  <2>4. Follows(sent[c], 0, Append(arrived[c], x))
    BY <1>4, <1>5, <2>1, <2>3, <2>2, FollowsMore
  <2>5. Len(arrived'[c]) = m /\ sent'[c] = sent[c]
    BY <1>2, <1>5, <1>7 DEF m
  <2>6. Echoes(c)'
    BY <1>7, <2>3, <2>4, <2>5 DEF Echoes
  <2>7. Len(arrived'[c]) + Len(s2c'[c]) = Len(arrived[c]) + Len(s2c[c])
    BY <1>7, <2>3, <2>5
  <2>8. srv_link[c] = "open" => ToEcho(c)'
    BY <1>1, <1>2, <2>7 DEF Flow, ToEcho
  <2>9. srv_link[c] # "none"
    BY <1>1, <1>2 DEF Flow
  <2> QED
    BY <1>1, <1>2, <2>6, <2>8, <2>9 DEF Flow
<1>9. ASSUME NEW d \in Conns, d # c PROVE Flow(d)'
  <2>1. Still(d)
    BY <1>1, <1>2, <1>9 DEF Still, LoadTypeOK, WireTypeOK
  <2> QED
    BY <1>1, <2>1, FlowFrame
<1> QED
  BY <1>3, <1>6, <1>8, <1>9 DEF LoadInv

\* A client closes: nothing more is to be echoed.
LEMMA CloseConnStep ==
    ASSUME LoadInv, NEW c \in Conns, CloseConn(c), UNCHANGED srvVars
    PROVE  LoadInv'
<1>1. LoadTypeOK /\ \A d \in Conns : Flow(d)
  BY DEF LoadInv
<1>2. /\ srv_link' = srv_link /\ s2c' = s2c /\ con_buf' = con_buf
      /\ sent' = sent /\ arrived' = arrived /\ broken' = broken /\ faults' = faults
      /\ cli_link[c] = "open"
      /\ cli_link' = [cli_link EXCEPT ![c] = "closing"]
      /\ c2s' = [c2s EXCEPT ![c] = Append(@, CLOSE)]
  BY DEF CloseConn, srvVars, loadVars, Put
<1>3. BytesBalance' /\ RowsAreWholeIntervals' /\ SrvTypeOK'
  BY CountersFrame
<1>4. Append(c2s[c], CLOSE) \in Seq(Nat)
  BY <1>1, FlowTypes DEF CLOSE
<1>5. LoadTypeOK'
  <2>1. cli_link' \in [Conns -> CliLinks]
    BY <1>1, <1>2 DEF LoadTypeOK, WireTypeOK, CliLinks
  <2>2. c2s' \in [Conns -> Seq(Nat)]
    BY <1>1, <1>2, <1>4 DEF LoadTypeOK, WireTypeOK
  <2> QED
    BY <1>1, <1>2, <1>3, <2>1, <2>2 DEF LoadTypeOK, WireTypeOK
<1>6. c2s'[c] = Append(c2s[c], CLOSE) /\ cli_link'[c] = "closing"
  BY <1>1, <1>2 DEF LoadTypeOK, WireTypeOK
<1>7. Flow(c)'
  <2>1. Flow(c)
    BY <1>1
  <2>2. srv_link[c] # "none"
    BY <1>2, <2>1 DEF Flow
  <2>3. ASSUME srv_link[c] = "open" PROVE ToEcho(c)'
    <3>1. /\ Frames(c2s[c], con_buf[c]) /\ Behind(c2s[c]) = Len(c2s[c])
          /\ ToEcho(c)
      BY <1>2, <2>1, <2>3 DEF Flow, ToEcho
    <3>2. /\ Frames(Append(c2s[c], CLOSE), con_buf[c])
          /\ Rest(Append(c2s[c], CLOSE), con_buf[c]) = Rest(c2s[c], con_buf[c])
      BY <3>1, RestClosed
    <3> QED
      BY <1>2, <1>6, <3>1, <3>2 DEF ToEcho
  <2> QED
    BY <1>2, <2>1, <2>2, <2>3 DEF Flow, Echoes
<1>8. ASSUME NEW d \in Conns, d # c PROVE Flow(d)'
  <2>1. Still(d)
    BY <1>1, <1>2, <1>8 DEF Still, LoadTypeOK, WireTypeOK
  <2> QED
    BY <1>1, <2>1, FlowFrame
<1> QED
  BY <1>3, <1>5, <1>7, <1>8 DEF LoadInv

-----------------------------------------------------------------------------
(* The server's callbacks.                                                 *)

\* What a buffer adds to the bytes of incomplete messages.
Buffered(b) == IF b = NoCtx THEN 0 ELSE b

\* The sum of the buffers, when one of them changes.
LEMMA PendingChange ==
    ASSUME SrvTypeOK, NEW c \in Conns, NEW b \in Nat \cup {NoCtx},
           con_buf' = [con_buf EXCEPT ![c] = b]
    PROVE  /\ PendingBytes' = PendingBytes - Buffered(con_buf[c]) + Buffered(b)
           /\ PendingBytes \in Nat /\ PendingBytes' \in Nat
           /\ Buffered(con_buf[c]) \in Nat /\ Buffered(b) \in Nat
<1> DEFINE f == [d \in Conns |-> IF con_buf[d] = NoCtx THEN 0 ELSE con_buf[d]]
           g == [d \in Conns |-> IF con_buf'[d] = NoCtx THEN 0 ELSE con_buf'[d]]
<1>1. con_buf \in [Conns -> Nat \cup {NoCtx}] /\ con_buf' \in [Conns -> Nat \cup {NoCtx}]
  BY DEF SrvTypeOK
<1>2. f \in [Conns -> Nat] /\ g \in [Conns -> Nat] /\ IsFiniteSet(Conns)
  BY <1>1, LoadAssumption
<1>3. /\ f[c] = Buffered(con_buf[c]) /\ g[c] = Buffered(b)
      /\ \A d \in Conns : d # c => g[d] = f[d]
  BY <1>1 DEF Buffered
<1>4. PendingBytes = SumOver(f, Conns) /\ PendingBytes' = SumOver(g, Conns)
  BY DEF PendingBytes
<1>5. f[c] \in Nat /\ g[c] \in Nat
  BY <1>2
<1> HIDE DEF f, g
<1>6. /\ SumOver(g, Conns) = SumOver(f, Conns) - f[c] + g[c]
      /\ SumOver(f, Conns) \in Nat /\ SumOver(g, Conns) \in Nat
  BY <1>2, <1>3, SumChange
<1> QED
  BY <1>3, <1>4, <1>5, <1>6

\* A message counted keeps the rows whole.
LEMMA RowsKept ==
    ASSUME SrvTypeOK, RowsAreWholeIntervals, NEW s \in Counters,
           s.recv_msg = stats.recv_msg + 1, s.send_msg = stats.send_msg + 1,
           stats' = CountStats(s), rows' = Exported(rows, s)
    PROVE  RowsAreWholeIntervals'
<1>1. /\ stats.recv_msg \in Nat /\ rows.recv_msg \in Nat /\ s.recv_msg \in Nat
      /\ stats.send_msg \in Nat /\ rows.send_msg \in Nat
      /\ INTERVAL \in Nat \ {0}
  BY IntervalAssumption DEF SrvTypeOK, Counters
<1>2. /\ stats.recv_msg < INTERVAL /\ rows.recv_msg % INTERVAL = 0
      /\ s.send_msg = s.recv_msg /\ rows.send_msg = rows.recv_msg
  BY DEF RowsAreWholeIntervals
<1>3. s.recv_msg \in 1..INTERVAL
  BY <1>1, <1>2
<1>4. CASE Quiet(s)
  <2>1. stats' = s /\ rows' = rows
    BY <1>4 DEF CountStats, Exported
  <2>2. s.recv_msg % INTERVAL # 0
    BY <1>3, <1>4 DEF Quiet
  <2>3. s.recv_msg < INTERVAL
    BY <1>3, <2>2, FullInterval
  <2> QED
    BY <1>2, <2>1, <2>3 DEF RowsAreWholeIntervals
<1>5. CASE ~Quiet(s)
  <2>1. s.recv_msg = INTERVAL
    <3>1. s.recv_msg % INTERVAL = 0
      BY <1>5 DEF Quiet
    <3> QED
      BY <1>3, <3>1, FullInterval
  <2>2. /\ stats'.recv_msg = 0 /\ stats'.send_msg = 0
        /\ rows'.recv_msg = rows.recv_msg + INTERVAL
        /\ rows'.send_msg = rows.send_msg + INTERVAL
    BY <1>2, <1>5, <2>1 DEF CountStats, Exported, WithRow, NoTraffic
  <2>3. (rows.recv_msg + INTERVAL) % INTERVAL = 0
    BY <1>1, <1>2, DivOfSum
  <2> QED
    BY <1>1, <1>2, <2>2, <2>3 DEF RowsAreWholeIntervals
<1> QED
  BY <1>4, <1>5

\* A new connection has an empty buffer, and its client has sent nothing.
LEMMA NewConnectionStep ==
    ASSUME LoadInv, NEW c \in Conns, SrvOnNewConnection(c), UNCHANGED loadVars
    PROVE  LoadInv'
<1>1. LoadTypeOK /\ SrvTypeOK /\ \A d \in Conns : Flow(d)
  BY DEF LoadInv, LoadTypeOK
<1>2. /\ srv_link[c] = "none" /\ cli_link[c] = "connecting"
      /\ srv_link' = [srv_link EXCEPT ![c] = "open"]
      /\ con_buf' = [con_buf EXCEPT ![c] = 0]
      /\ cli_link' = cli_link /\ c2s' = c2s /\ s2c' = s2c /\ broken' = broken
      /\ faults' = faults /\ stats' = stats /\ rows' = rows
      /\ lost_bytes' = lost_bytes /\ srv_proc' = srv_proc
      /\ sent' = sent /\ arrived' = arrived
  BY DEF SrvOnNewConnection, loadVars
<1>3. /\ c2s[c] = <<>> /\ s2c[c] = <<>> /\ sent[c] = <<>> /\ arrived[c] = <<>>
      /\ con_buf[c] = NoCtx
  BY <1>1, <1>2 DEF Flow
<1>4. LoadTypeOK'
  BY <1>1, <1>2 DEF LoadTypeOK, WireTypeOK, SrvTypeOK, SrvLinks
<1>5. /\ srv_link'[c] = "open" /\ con_buf'[c] = 0
  BY <1>1, <1>2 DEF LoadTypeOK, WireTypeOK, SrvTypeOK
<1>6. Flow(c)'
  <2>1. <<>> \in Seq(Nat) /\ Len(<<>>) = 0
    OBVIOUS
  <2>2. Behind(<<>>) = 0 /\ Frames(<<>>, 0)
    BY <2>1 DEF Behind, Frames
  <2>3. Rest(<<>>, 0) \in Seq(Nat) /\ Len(Rest(<<>>, 0)) = 0
    BY <2>2, RestIs
  <2>4. Follows(<<>>, 0, <<>>) /\ Follows(<<>>, 0 + 0, Rest(<<>>, 0))
    BY <2>1, <2>3 DEF Follows
  <2>5. 0 + 0 = 0
    OBVIOUS
  <2>6. Echoes(c)'
    BY <1>2, <1>3, <2>1, <2>4 DEF Echoes
  <2>7. ToEcho(c)'
    BY <1>2, <1>3, <1>5, <2>1, <2>2, <2>3, <2>4, <2>5 DEF ToEcho
  <2> QED
    BY <1>5, <2>6, <2>7 DEF Flow
<1>7. ASSUME NEW d \in Conns, d # c PROVE Flow(d)'
  <2>1. Still(d)
    BY <1>1, <1>2, <1>7 DEF Still, LoadTypeOK, WireTypeOK, SrvTypeOK
  <2> QED
    BY <1>1, <2>1, FlowFrame
<1>8. BytesBalance'
  <2>1. PendingBytes' = PendingBytes - Buffered(con_buf[c]) + Buffered(0)
          /\ PendingBytes \in Nat
    BY <1>1, <1>2, 0 \in Nat \cup {NoCtx}, PendingChange
  <2>2. Buffered(con_buf[c]) = 0 /\ Buffered(0) = 0
    BY <1>3 DEF Buffered
  <2>3. PendingBytes' = PendingBytes
    BY <2>1, <2>2
  <2> QED
    BY <1>2, <2>3 DEF LoadInv, BytesBalance
<1>9. RowsAreWholeIntervals'
  BY <1>2 DEF LoadInv, RowsAreWholeIntervals
<1> QED
  BY <1>4, <1>6, <1>7, <1>8, <1>9 DEF LoadInv

\* There is something to echo when there is data to read.
LEMMA DataIsMessage ==
    ASSUME LoadInv, NEW c \in Conns, NEW n, SrvReadable(c, n)
    PROVE  /\ srv_link[c] = "open" /\ ToEcho(c)
           /\ c2s[c] \in Seq(Nat) /\ c2s[c] # <<>> /\ Head(c2s[c]) \in Nat
           /\ Head(c2s[c]) # CLOSE /\ n \in 1..Head(c2s[c]) /\ n \in Nat
           /\ con_buf[c] \in Nat
<1>1. /\ srv_link[c] = "open" /\ c2s[c] # <<>> /\ n \in 1..Head(c2s[c])
  BY DEF SrvReadable, Piece
<1>2. ToEcho(c) /\ c2s[c] \in Seq(Nat)
  BY <1>1, FlowTypes DEF LoadInv, Flow
<1>3. Head(c2s[c]) \in Nat /\ con_buf[c] \in Nat
  BY <1>1, <1>2 DEF ToEcho, Frames
<1>4. Head(c2s[c]) # 0 /\ n \in Nat
  BY <1>1, <1>3
<1> QED
  BY <1>1, <1>2, <1>3, <1>4 DEF CLOSE

\* A piece of a message is counted and buffered.
LEMMA PieceStep ==
    ASSUME LoadInv, NEW c \in Conns, NEW n, SrvOnReadPiece(c, n), UNCHANGED loadVars
    PROVE  LoadInv'
<1>1. LoadTypeOK /\ SrvTypeOK /\ \A d \in Conns : Flow(d)
  BY DEF LoadInv, LoadTypeOK
<1>2. /\ SrvReadable(c, n) /\ n # Head(c2s[c])
      /\ c2s' = Take(c2s, c, n)
      /\ con_buf' = [con_buf EXCEPT ![c] = @ + n]
      /\ stats' = ReceivedBytes(stats, n)
      /\ srv_link' = srv_link /\ cli_link' = cli_link /\ s2c' = s2c
      /\ broken' = broken /\ faults' = faults /\ rows' = rows
      /\ lost_bytes' = lost_bytes /\ srv_proc' = srv_proc
      /\ sent' = sent /\ arrived' = arrived
  BY DEF SrvOnReadPiece, loadVars
<1>3. /\ srv_link[c] = "open" /\ ToEcho(c) /\ c2s[c] \in Seq(Nat) /\ c2s[c] # <<>>
      /\ Head(c2s[c]) \in Nat /\ n \in 1..Head(c2s[c]) /\ n \in Nat
      /\ con_buf[c] \in Nat
  BY <1>2, DataIsMessage
<1> DEFINE p == <<Head(c2s[c]) - n>> \o Tail(c2s[c])
<1>4. c2s' = [c2s EXCEPT ![c] = p]
  BY <1>2 DEF Take
<1>5. /\ Frames(p, con_buf[c] + n)
      /\ Behind(p) = Behind(c2s[c]) /\ Len(p) = Len(c2s[c])
      /\ Rest(p, con_buf[c] + n) = Rest(c2s[c], con_buf[c])
  <2>1. Frames(c2s[c], con_buf[c])
    BY <1>3 DEF ToEcho
  <2> QED
    BY <1>2, <1>3, <2>1, RestPiece
<1>6. p \in Seq(Nat) /\ con_buf[c] + n \in Nat
  BY <1>5 DEF Frames
<1> HIDE DEF p
<1>7. stats' \in Counters
  BY <1>1, <1>2, <1>3, CountersOK DEF SrvTypeOK
<1>8. LoadTypeOK'
  <2>1. c2s' \in [Conns -> Seq(Nat)]
    BY <1>1, <1>4, <1>6 DEF LoadTypeOK, WireTypeOK
  <2>2. con_buf' \in [Conns -> Nat \cup {NoCtx}]
    BY <1>1, <1>2, <1>6 DEF SrvTypeOK
  <2> QED
    BY <1>1, <1>2, <1>7, <2>1, <2>2 DEF LoadTypeOK, WireTypeOK, SrvTypeOK
<1>9. c2s'[c] = p /\ con_buf'[c] = con_buf[c] + n
  BY <1>1, <1>2, <1>4 DEF LoadTypeOK, WireTypeOK, SrvTypeOK
<1>10. Flow(c)'
  <2>1. ToEcho(c)'
    BY <1>2, <1>3, <1>5, <1>9 DEF ToEcho
  <2>2. Echoes(c)'
    BY <1>1, <1>2 DEF Flow, Echoes
  <2> QED
    BY <1>2, <1>3, <2>1, <2>2 DEF Flow
<1>11. ASSUME NEW d \in Conns, d # c PROVE Flow(d)'
  <2>1. Still(d)
    BY <1>1, <1>2, <1>4, <1>11 DEF Still, LoadTypeOK, WireTypeOK, SrvTypeOK
  <2> QED
    BY <1>1, <2>1, FlowFrame
<1>12. BytesBalance'
  <2>1. /\ PendingBytes' =
             PendingBytes - Buffered(con_buf[c]) + Buffered(con_buf[c] + n)
        /\ PendingBytes \in Nat
    BY <1>1, <1>2, <1>6, PendingChange
  <2>2. Buffered(con_buf[c]) = con_buf[c] /\ Buffered(con_buf[c] + n) = con_buf[c] + n
    BY <1>3, <1>6 DEF Buffered, NoCtx
  <2>3. PendingBytes' = PendingBytes + n
    BY <1>3, <2>1, <2>2
  <2>4. /\ stats.recv_bytes \in Nat /\ stats.send_bytes \in Nat
        /\ rows.recv_bytes \in Nat /\ rows.send_bytes \in Nat /\ lost_bytes \in Nat
    BY <1>1 DEF SrvTypeOK, Counters
  <2>5. stats'.recv_bytes = stats.recv_bytes + n /\ stats'.send_bytes = stats.send_bytes
    BY <1>1, <1>2 DEF ReceivedBytes, SrvTypeOK, Counters
  <2>6. rows.recv_bytes + stats.recv_bytes
           = rows.send_bytes + stats.send_bytes + PendingBytes + lost_bytes
    BY DEF LoadInv, BytesBalance
  <2>7. rows.recv_bytes + (stats.recv_bytes + n)
           = rows.send_bytes + stats.send_bytes + (PendingBytes + n) + lost_bytes
    <3>1. n \in Nat /\ PendingBytes \in Nat
      BY <1>3, <2>1
    <3>2. \A a \in Nat, b \in Nat, s \in Nat, t \in Nat, e \in Nat, l \in Nat :
             a + b = s + t + e + l => a + (b + n) = s + t + (e + n) + l
      BY <3>1
    <3> QED
      BY <2>4, <2>6, <3>1, <3>2
  <2>8. /\ rows'.recv_bytes = rows.recv_bytes /\ rows'.send_bytes = rows.send_bytes
        /\ lost_bytes' = lost_bytes
    BY <1>2
  <2> QED
    BY <2>3, <2>5, <2>7, <2>8 DEF BytesBalance
<1>13. RowsAreWholeIntervals'
  <2>1. stats'.recv_msg = stats.recv_msg /\ stats'.send_msg = stats.send_msg
    BY <1>1, <1>2 DEF ReceivedBytes, SrvTypeOK, Counters
  <2> QED
    BY <1>2, <2>1 DEF LoadInv, RowsAreWholeIntervals
<1> QED
  BY <1>8, <1>10, <1>11, <1>12, <1>13 DEF LoadInv

\* What the counters are when a message of m bytes, n of them new, is echoed.
LEMMA EchoCounted ==
    ASSUME SrvTypeOK, NEW n \in Nat, NEW m \in Nat, NEW s,
           s = EchoedMessage(ReceivedBytes(stats, n), m),
           stats' = CountStats(s), rows' = Exported(rows, s)
    PROVE  /\ s \in Counters /\ stats' \in Counters /\ rows' \in Counters
           /\ s.recv_msg = stats.recv_msg + 1 /\ s.send_msg = stats.send_msg + 1
           /\ rows'.recv_bytes + stats'.recv_bytes
                = rows.recv_bytes + stats.recv_bytes + n
           /\ rows'.send_bytes + stats'.send_bytes
                = rows.send_bytes + stats.send_bytes + m
<1>1. stats \in Counters /\ rows \in Counters
  BY DEF SrvTypeOK
<1>2. ReceivedBytes(stats, n) \in Counters
  BY <1>1, CountersOK
<1>3. s \in Counters /\ stats' \in Counters /\ rows' \in Counters
  BY <1>1, <1>2, CountersOK
<1>4. /\ ReceivedBytes(stats, n).recv_msg = stats.recv_msg
      /\ ReceivedBytes(stats, n).send_msg = stats.send_msg
      /\ ReceivedBytes(stats, n).recv_bytes = stats.recv_bytes + n
      /\ ReceivedBytes(stats, n).send_bytes = stats.send_bytes
  BY <1>1 DEF ReceivedBytes, Counters
<1>5. /\ s.recv_msg = stats.recv_msg + 1 /\ s.send_msg = stats.send_msg + 1
      /\ s.recv_bytes = stats.recv_bytes + n /\ s.send_bytes = stats.send_bytes + m
  <2> DEFINE t == ReceivedBytes(stats, n)
  <2>1. s = EchoedMessage(t, m)
    OBVIOUS
  <2> HIDE DEF t
  <2>2. /\ s.recv_msg = t.recv_msg + 1 /\ s.send_msg = t.send_msg + 1
        /\ s.recv_bytes = t.recv_bytes /\ s.send_bytes = t.send_bytes + m
    BY <2>1 DEF EchoedMessage
  <2> QED
    BY <1>4, <2>2 DEF t
<1>6. /\ rows'.recv_bytes + stats'.recv_bytes = rows.recv_bytes + s.recv_bytes
      /\ rows'.send_bytes + stats'.send_bytes = rows.send_bytes + s.send_bytes
  BY <1>1, <1>3, RowsKeepTotals
<1>7. /\ rows.recv_bytes \in Nat /\ rows.send_bytes \in Nat
      /\ stats.recv_bytes \in Nat /\ stats.send_bytes \in Nat
  BY <1>1 DEF Counters
<1> QED
  BY <1>3, <1>5, <1>6, <1>7

\* A message is echoed whole: the next of what is to be echoed.
LEMMA MessageStep ==
    ASSUME LoadInv, NEW c \in Conns, SrvOnReadMessage(c), UNCHANGED loadVars
    PROVE  LoadInv'
<1>1. LoadTypeOK /\ SrvTypeOK /\ \A d \in Conns : Flow(d)
  BY DEF LoadInv, LoadTypeOK
<1> DEFINE n == Head(c2s[c])
           m == con_buf[c] + Head(c2s[c])
<1>2. /\ SrvReadable(c, n)
      /\ c2s' = [c2s EXCEPT ![c] = Tail(@)]
      /\ s2c' = [s2c EXCEPT ![c] = Append(@, m)]
      /\ con_buf' = [con_buf EXCEPT ![c] = 0]
      /\ srv_link' = srv_link /\ cli_link' = cli_link
      /\ broken' = broken /\ faults' = faults
      /\ lost_bytes' = lost_bytes /\ srv_proc' = srv_proc
      /\ sent' = sent /\ arrived' = arrived
  BY <1>1 DEF SrvOnReadMessage, loadVars, Take, Put, FreshBuffer, TargetSize,
              LoadTypeOK, WireTypeOK
<1>3. /\ srv_link[c] = "open" /\ ToEcho(c) /\ c2s[c] \in Seq(Nat) /\ c2s[c] # <<>>
      /\ n \in Nat /\ n # CLOSE /\ con_buf[c] \in Nat
  BY <1>2, DataIsMessage
<1>4. m \in Nat
  BY <1>3
<1>5. PICK s : /\ s = EchoedMessage(ReceivedBytes(stats, n), m)
               /\ stats' = CountStats(s) /\ rows' = Exported(rows, s)
  BY DEF SrvOnReadMessage, TargetSize
<1>6. /\ s \in Counters /\ stats' \in Counters /\ rows' \in Counters
      /\ s.recv_msg = stats.recv_msg + 1 /\ s.send_msg = stats.send_msg + 1
      /\ rows'.recv_bytes + stats'.recv_bytes = rows.recv_bytes + stats.recv_bytes + n
      /\ rows'.send_bytes + stats'.send_bytes = rows.send_bytes + stats.send_bytes + m
  BY <1>1, <1>3, <1>4, <1>5, EchoCounted
<1> DEFINE r == Rest(c2s[c], con_buf[c])
           p == Tail(c2s[c])
           k == Len(arrived[c]) + Len(s2c[c])
<1>7. /\ Frames(c2s[c], con_buf[c]) /\ Follows(sent[c], k, r)
      /\ k + Len(r) = Len(sent[c])
      /\ cli_link[c] # "closing" => Behind(c2s[c]) = Len(c2s[c])
  BY <1>3 DEF ToEcho
<1>8. /\ r # <<>> /\ Head(r) = m /\ Frames(p, 0)
      /\ Behind(p) = Behind(c2s[c]) - 1 /\ Len(p) = Len(c2s[c]) - 1
      /\ Rest(p, 0) = Tail(r)
  BY <1>3, <1>7, RestEchoed
<1>9. r \in Seq(Nat) /\ p \in Seq(Nat) /\ sent[c] \in Seq(Nat) /\ s2c[c] \in Seq(Nat)
        /\ Append(s2c[c], m) \in Seq(Nat)
        /\ Len(Append(s2c[c], m)) = Len(s2c[c]) + 1
  <2>1. r \in Seq(Nat)
    BY <1>7, RestIs
  <2>2. sent[c] \in Seq(Nat) /\ s2c[c] \in Seq(Nat) /\ p \in Seq(Nat)
    BY <1>1, <1>3, FlowTypes
  <2> HIDE DEF m
  <2> QED
    BY <1>4, <2>1, <2>2
<1>10. k \in Nat /\ Len(arrived[c]) \in Nat /\ Len(s2c[c]) \in Nat
  <2>1. Len(arrived[c]) \in Nat /\ Len(s2c[c]) \in Nat
    BY <1>1, FlowTypes
  <2>2. \A a \in Nat, b \in Nat : a + b \in Nat
    OBVIOUS
  <2> QED
    BY <2>1, <2>2
<1>11. /\ c2s'[c] = p /\ con_buf'[c] = 0 /\ s2c'[c] = Append(s2c[c], m)
  BY <1>1, <1>2 DEF LoadTypeOK, WireTypeOK, SrvTypeOK
<1>12. LoadTypeOK'
  <2>1. c2s' \in [Conns -> Seq(Nat)] /\ s2c' \in [Conns -> Seq(Nat)]
    BY <1>1, <1>2, <1>9 DEF LoadTypeOK, WireTypeOK
  <2>2. con_buf' \in [Conns -> Nat \cup {NoCtx}]
    BY <1>1, <1>2 DEF SrvTypeOK
  <2> QED
    BY <1>1, <1>2, <1>6, <2>1, <2>2 DEF LoadTypeOK, WireTypeOK, SrvTypeOK
<1>13. k = Len(arrived[c]) + Len(s2c[c])
  OBVIOUS
<1> HIDE DEF r, p, k, m, n
<1>14. /\ k + 1 <= Len(sent[c]) /\ sent[c][k + 1] = Head(r)
       /\ Follows(sent[c], k + 1, Tail(r))
       /\ (k + 1) + Len(Tail(r)) = k + Len(r)
  BY <1>7, <1>8, <1>9, <1>10, FollowsTail
<1>15. Flow(c)'
  <2>1. Echoes(c)'
    <3>1. /\ Follows(sent[c], 0, arrived[c])
          /\ Follows(sent[c], Len(arrived[c]), s2c[c])
      BY <1>1 DEF Flow, Echoes
    <3>2. k + 1 = Len(arrived[c]) + Len(s2c[c]) + 1 /\ sent[c][k + 1] = m
      BY <1>8, <1>10, <1>13, <1>14
    <3>3. Follows(sent[c], Len(arrived[c]), Append(s2c[c], m))
      BY <1>4, <1>9, <1>10, <1>14, <3>1, <3>2, FollowsMore
    <3> QED
      BY <1>2, <1>11, <3>1, <3>3 DEF Echoes
  <2>2. ToEcho(c)'
    <3>1. Len(arrived'[c]) + Len(s2c'[c]) = k + 1
      <4>1. Len(arrived'[c]) = Len(arrived[c]) /\ Len(s2c'[c]) = Len(s2c[c]) + 1
        BY <1>2, <1>9, <1>11
      <4>2. \A a \in Nat, b \in Nat : a + (b + 1) = (a + b) + 1
        OBVIOUS
      <4> QED
        BY <1>10, <1>13, <4>1, <4>2
    <3>2. Rest(c2s'[c], con_buf'[c]) = Tail(r) /\ Frames(c2s'[c], con_buf'[c])
      BY <1>8, <1>11
    <3>3. cli_link'[c] # "closing" => Behind(c2s'[c]) = Len(c2s'[c])
      BY <1>2, <1>7, <1>8, <1>11
    <3>4. (k + 1) + Len(Tail(r)) = Len(sent[c])
      BY <1>7, <1>14
    <3>5. sent'[c] = sent[c]
      BY <1>2
    <3> QED
      BY <1>14, <3>1, <3>2, <3>3, <3>4, <3>5 DEF ToEcho
  <2> QED
    BY <1>2, <1>3, <2>1, <2>2 DEF Flow
<1>16. ASSUME NEW d \in Conns, d # c PROVE Flow(d)'
  <2>1. Still(d)
    BY <1>1, <1>2, <1>16 DEF Still, LoadTypeOK, WireTypeOK, SrvTypeOK
  <2> QED
    BY <1>1, <2>1, FlowFrame
<1>17. BytesBalance'
  <2>1. /\ PendingBytes' = PendingBytes - Buffered(con_buf[c]) + Buffered(0)
        /\ PendingBytes \in Nat /\ PendingBytes' \in Nat
    BY <1>1, <1>2, 0 \in Nat \cup {NoCtx}, PendingChange
  <2>2. Buffered(con_buf[c]) = con_buf[c] /\ Buffered(0) = 0
    BY <1>3 DEF Buffered, NoCtx
  <2>3. PendingBytes' = PendingBytes - con_buf[c]
    BY <1>3, <2>1, <2>2
  <2>4. /\ stats.recv_bytes \in Nat /\ stats.send_bytes \in Nat
        /\ rows.recv_bytes \in Nat /\ rows.send_bytes \in Nat /\ lost_bytes \in Nat
    BY <1>1 DEF SrvTypeOK, Counters
  <2>5. rows.recv_bytes + stats.recv_bytes
           = rows.send_bytes + stats.send_bytes + PendingBytes + lost_bytes
    BY DEF LoadInv, BytesBalance
  <2>6. rows.recv_bytes + stats.recv_bytes + n
           = (rows.send_bytes + stats.send_bytes + (con_buf[c] + n))
               + (PendingBytes - con_buf[c]) + lost_bytes
    BY <1>3, <2>1, <2>4, <2>5, SMTT(30)
  <2>7. lost_bytes' = lost_bytes /\ m = con_buf[c] + n
    BY <1>2 DEF m, n
  <2> QED
    BY <1>6, <2>3, <2>6, <2>7 DEF BytesBalance
<1>18. RowsAreWholeIntervals'
  BY <1>1, <1>5, <1>6, RowsKept DEF LoadInv
<1> QED
  BY <1>12, <1>15, <1>16, <1>17, <1>18 DEF LoadInv

\* The server's end of a connection closes: what it held of a message is lost.
LEMMA SrvCloseStep ==
    ASSUME LoadInv, NEW c \in Conns, SrvOnClose(c), UNCHANGED loadVars
    PROVE  LoadInv'
<1>1. LoadTypeOK /\ SrvTypeOK /\ \A d \in Conns : Flow(d)
  BY DEF LoadInv, LoadTypeOK
<1>2. /\ srv_link[c] = "open"
      /\ srv_link' = [srv_link EXCEPT ![c] = "closed"]
      /\ con_buf' = [con_buf EXCEPT ![c] = NoCtx]
      /\ c2s' = c2s \/ (c2s[c] # <<>> /\ c2s' = [c2s EXCEPT ![c] = Tail(@)])
      /\ lost_bytes' = lost_bytes + con_buf[c]
      /\ cli_link' = cli_link /\ s2c' = s2c
      /\ broken' = broken /\ faults' = faults
      /\ stats' = stats /\ rows' = rows /\ srv_proc' = srv_proc
      /\ sent' = sent /\ arrived' = arrived
  BY DEF SrvOnClose, NoMoreCtx, loadVars
<1>3. ToEcho(c) /\ con_buf[c] \in Nat
  BY <1>1, <1>2 DEF Flow, ToEcho, Frames
<1>4. LoadTypeOK'
  <2>1. c2s' \in [Conns -> Seq(Nat)]
    <3>1. c2s[c] # <<>> => Tail(c2s[c]) \in Seq(Nat)
      BY <1>1, FlowTypes
    <3> QED
      BY <1>1, <1>2, <3>1 DEF LoadTypeOK, WireTypeOK
  <2>2. con_buf' \in [Conns -> Nat \cup {NoCtx}] /\ lost_bytes' \in Nat
    BY <1>1, <1>2, <1>3 DEF SrvTypeOK
  <2> QED
    BY <1>1, <1>2, <2>1, <2>2 DEF LoadTypeOK, WireTypeOK, SrvTypeOK, SrvLinks
<1>5. srv_link'[c] = "closed" /\ con_buf'[c] = NoCtx
  BY <1>1, <1>2 DEF LoadTypeOK, WireTypeOK, SrvTypeOK
<1>6. Flow(c)'
  BY <1>1, <1>2, <1>5 DEF Flow, Echoes
<1>7. ASSUME NEW d \in Conns, d # c PROVE Flow(d)'
  <2>1. Still(d)
    BY <1>1, <1>2, <1>7 DEF Still, LoadTypeOK, WireTypeOK, SrvTypeOK
  <2> QED
    BY <1>1, <2>1, FlowFrame
<1>8. BytesBalance'
  <2>1. /\ PendingBytes' = PendingBytes - Buffered(con_buf[c]) + Buffered(NoCtx)
        /\ PendingBytes \in Nat
    BY <1>1, <1>2, NoCtx \in Nat \cup {NoCtx}, PendingChange
  <2>2. Buffered(con_buf[c]) = con_buf[c] /\ Buffered(NoCtx) = 0
    BY <1>3 DEF Buffered, NoCtx
  <2>3. PendingBytes' = PendingBytes - con_buf[c]
    BY <1>3, <2>1, <2>2
  <2>4. /\ stats.recv_bytes \in Nat /\ stats.send_bytes \in Nat
        /\ rows.recv_bytes \in Nat /\ rows.send_bytes \in Nat /\ lost_bytes \in Nat
    BY <1>1 DEF SrvTypeOK, Counters
  <2>5. rows.recv_bytes + stats.recv_bytes
           = rows.send_bytes + stats.send_bytes + PendingBytes + lost_bytes
    BY DEF LoadInv, BytesBalance
  <2>6. rows.recv_bytes + stats.recv_bytes
           = rows.send_bytes + stats.send_bytes
               + (PendingBytes - con_buf[c]) + (lost_bytes + con_buf[c])
    BY <1>3, <2>1, <2>4, <2>5
  <2> QED
    BY <1>2, <2>3, <2>6 DEF BytesBalance
<1>9. RowsAreWholeIntervals'
  BY <1>2 DEF LoadInv, RowsAreWholeIntervals
<1> QED
  BY <1>4, <1>6, <1>7, <1>8, <1>9 DEF LoadInv

\* The server aborts: nothing else changes; or nothing happens at all.
LEMMA ProcessStep ==
    ASSUME LoadInv,
           \/ \E c \in Conns : SrvAbort(c) /\ UNCHANGED loadVars
           \/ UNCHANGED vars
    PROVE  LoadInv'
<1>1. LoadTypeOK /\ SrvTypeOK /\ \A d \in Conns : Flow(d)
  BY DEF LoadInv, LoadTypeOK
<1>2. /\ srv_link' = srv_link /\ cli_link' = cli_link /\ c2s' = c2s /\ s2c' = s2c
      /\ con_buf' = con_buf /\ faults' = faults /\ stats' = stats /\ rows' = rows
      /\ lost_bytes' = lost_bytes /\ sent' = sent /\ arrived' = arrived
      /\ broken' \in SUBSET Conns /\ srv_proc' \in {"running", "aborted"}
  BY <1>1 DEF SrvAbort, vars, wireVars, srvVars, loadVars, LoadTypeOK, WireTypeOK,
              SrvTypeOK
<1>3. LoadTypeOK'
  BY <1>1, <1>2 DEF LoadTypeOK, WireTypeOK, SrvTypeOK
<1>4. ASSUME NEW d \in Conns PROVE Flow(d)'
  BY <1>1, <1>2, FlowFrame DEF Still
<1>5. PendingBytes' = PendingBytes
  BY <1>2 DEF PendingBytes
<1>6. BytesBalance' /\ RowsAreWholeIntervals'
  BY <1>2, <1>5 DEF LoadInv, BytesBalance, RowsAreWholeIntervals
<1> QED
  BY <1>3, <1>4, <1>6 DEF LoadInv

-----------------------------------------------------------------------------
\* The initial state.
LEMMA LoadInit == Init => LoadInv
<1> SUFFICES ASSUME Init PROVE LoadInv
  OBVIOUS
<1>1. <<>> \in Seq(Nat) /\ Len(<<>>) = 0 /\ NoTraffic \in Counters
        /\ INTERVAL \in Nat \ {0} /\ 0 % INTERVAL = 0
  BY IntervalAssumption DEF NoTraffic, Counters
<1>2. LoadTypeOK
  BY <1>1, FaultsAssumption DEF Init, SrvInit, LoadTypeOK, WireTypeOK, SrvTypeOK,
     CliLinks, SrvLinks
<1>3. ASSUME NEW c \in Conns PROVE Flow(c)
  <2>1. /\ sent[c] = <<>> /\ arrived[c] = <<>> /\ c2s[c] = <<>> /\ s2c[c] = <<>>
        /\ srv_link[c] = "none" /\ cli_link[c] = "none" /\ con_buf[c] = NoCtx
    BY DEF Init, SrvInit
  <2>2. Follows(<<>>, 0, <<>>)
    BY <1>1 DEF Follows
  <2> QED
    BY <1>1, <2>1, <2>2 DEF Flow, Echoes
<1>4. PendingBytes = 0
  <2> DEFINE zero == [c \in Conns |-> IF con_buf[c] = NoCtx THEN 0 ELSE con_buf[c]]
  <2>1. /\ IsFiniteSet(Conns) /\ Cardinality(Conns) \in Nat
        /\ \A c \in Conns : zero[c] = 0
    BY LoadAssumption, FS_CardinalityType DEF Init, SrvInit
  <2>2. PendingBytes = SumOver(zero, Conns)
    BY DEF PendingBytes
  <2> HIDE DEF zero
  <2>3. SumOver(zero, Conns) = Cardinality(Conns) * 0
    BY <2>1, 0 \in Nat, SumOfConstant
  <2> QED
    BY <2>1, <2>2, <2>3
<1>5. BytesBalance
  BY <1>4 DEF Init, SrvInit, NoTraffic, BytesBalance
<1>6. RowsAreWholeIntervals
  BY <1>1 DEF Init, SrvInit, NoTraffic, RowsAreWholeIntervals
<1> QED
  BY <1>2, <1>3, <1>5, <1>6 DEF LoadInv

\* Every step of a client or of the server keeps the invariant.
LEMMA LoadNext == LoadInv /\ [Next]_vars => LoadInv'
<1> SUFFICES ASSUME LoadInv, [Next]_vars PROVE LoadInv'
  OBVIOUS
<1>1. ASSUME NEW c \in Conns, LoadStep(c) PROVE LoadInv'
  <2>1. UNCHANGED srvVars
    BY <1>1 DEF LoadStep
  <2>2. CASE Connect(c)
    BY <2>1, <2>2, LinkSteps
  <2>3. ASSUME NEW size \in 1..SRV_MAX_LEN, Send(c, size) PROVE LoadInv'
    BY <2>1, <2>3, SendStep
  <2>4. CASE Receive(c)
    BY <2>1, <2>4, ReceiveStep
  <2>5. CASE CloseConn(c)
    BY <2>1, <2>5, CloseConnStep
  <2>6. CASE BreakLink(c) /\ UNCHANGED loadVars
    BY <2>1, <2>6, LinkSteps
  <2> QED
    BY <1>1, <2>2, <2>3, <2>4, <2>5, <2>6 DEF LoadStep
<1>2. ASSUME NEW c \in Conns, ServerStep(c) PROVE LoadInv'
  <2>1. UNCHANGED loadVars
    BY <1>2 DEF ServerStep
  <2>2. CASE SrvOnNewConnection(c)
    BY <2>1, <2>2, NewConnectionStep
  <2>3. ASSUME NEW n \in 1..SRV_MAX_LEN, SrvOnReadPiece(c, n) PROVE LoadInv'
    BY <2>1, <2>3, PieceStep
  <2>4. CASE SrvOnReadMessage(c)
    BY <2>1, <2>4, MessageStep
  <2>5. CASE SrvAbort(c)
    BY <2>1, <2>5, ProcessStep
  <2>6. CASE SrvOnClose(c)
    BY <2>1, <2>6, SrvCloseStep
  <2> QED
    BY <1>2, <2>2, <2>3, <2>4, <2>5, <2>6 DEF ServerStep, SrvStep
<1>3. CASE UNCHANGED vars
  BY <1>3, ProcessStep
<1> QED
  BY <1>1, <1>2, <1>3 DEF Next

\* The invariant holds in every reachable state, whatever the clients send, the
\* pieces the library delivers and the links that fail.
THEOREM ServerInvariance == Spec => []LoadInv
BY LoadInit, LoadNext, PTL DEF Spec

\* Every byte the server receives is echoed, waiting for the rest of its message, or
\* lost with its connection; no row loses or repeats one.
THEOREM ServerBytesBalanced == Spec => []BytesBalance
<1>1. LoadInv => BytesBalance
  BY DEF LoadInv
<1> QED
  BY <1>1, ServerInvariance, PTL

\* Every row is of INTERVAL messages, with as many echoes.
THEOREM RowsAreWhole == Spec => []RowsAreWholeIntervals
<1>1. LoadInv => RowsAreWholeIntervals
  BY DEF LoadInv
<1> QED
  BY <1>1, ServerInvariance, PTL

\* What follows nothing is a prefix.
LEMMA FollowsPrefix ==
    ASSUME NEW s \in Seq(Nat), NEW q \in Seq(Nat), Follows(s, 0, q)
    PROVE  IsPrefix(q, s)
<1> DEFINE n == Len(q)
           f == SubSeq(q, 0 + 1, n)
           g == SubSeq(s, 0 + 1, n)
<1>1. n \in Nat /\ Len(s) \in Nat /\ 0 \in Nat
  OBVIOUS
<1>2. n <= Len(s)
  BY <1>1 DEF Follows
<1>3. /\ f \in Seq(Nat) /\ Len(f) = n - 0
      /\ \A j \in 1..(n - 0) : f[j] = q[0 + j]
  BY <1>1, PartIs
<1>4. /\ g \in Seq(Nat) /\ Len(g) = n - 0
      /\ \A j \in 1..(n - 0) : g[j] = s[0 + j]
  BY <1>1, <1>2, PartIs
<1>5. \A j \in 1..n : q[j] = s[0 + j]
  BY DEF Follows
<1>6. SubSeq(q, 1, n) = f /\ SubSeq(s, 1, n) = g
  <2>1. 0 + 1 = 1
    OBVIOUS
  <2> QED
    BY <2>1
<1> HIDE DEF f, g, n
<1>7. ASSUME NEW j \in 1..n PROVE f[j] = g[j]
  <2>1. 0 + j = j /\ n - 0 = n
    BY <1>1
  <2> QED
    BY <1>3, <1>4, <1>5, <2>1
<1>8. f = g
  <2>1. f \in Seq(Nat) /\ g \in Seq(Nat) /\ Len(f) = n /\ Len(g) = n
    <3>1. n - 0 = n
      BY <1>1
    <3> QED
      BY <1>3, <1>4, <3>1
  <2> QED
    BY <1>7, <2>1
<1> QED
  BY <1>2, <1>6, <1>8 DEF IsPrefix, n

\* A connection's echoes and what is to be echoed, in order.
LEMMA FlowIsOrder ==
    ASSUME LoadInv, NEW c \in Conns
    PROVE  IF srv_link[c] = "open"
           THEN (arrived[c] \o s2c[c]) \o Unechoed(c) = sent[c]
           ELSE IsPrefix(arrived[c] \o s2c[c], sent[c])
<1> DEFINE e == arrived[c] \o s2c[c]
           r == Rest(c2s[c], con_buf[c])
<1>1. /\ sent[c] \in Seq(Nat) /\ arrived[c] \in Seq(Nat) /\ s2c[c] \in Seq(Nat)
  BY FlowTypes DEF LoadInv
<1>2. /\ Follows(sent[c], 0, arrived[c])
      /\ Follows(sent[c], Len(arrived[c]), s2c[c])
  BY DEF LoadInv, Flow, Echoes
<1>3. /\ e \in Seq(Nat) /\ Len(e) = Len(arrived[c]) + Len(s2c[c])
      /\ Follows(sent[c], 0, e)
  BY <1>1, <1>2, FollowsJoined
<1>4. CASE srv_link[c] = "open"
  <2>1. ToEcho(c)
    BY <1>4 DEF LoadInv, Flow
  <2>2. /\ Frames(c2s[c], con_buf[c])
        /\ Follows(sent[c], Len(arrived[c]) + Len(s2c[c]), r)
        /\ (Len(arrived[c]) + Len(s2c[c])) + Len(r) = Len(sent[c])
    BY <2>1 DEF ToEcho
  <2>3. r \in Seq(Nat)
    BY <2>2, RestIs
  <2>4. Unechoed(c) = r
    BY DEF Unechoed, Waiting, Rest, Behind
  <2> HIDE DEF e, r
  <2>5. /\ e \o r \in Seq(Nat) /\ Len(e \o r) = Len(e) + Len(r)
        /\ Follows(sent[c], 0, e \o r)
    BY <1>1, <1>3, <2>2, <2>3, FollowsJoined
  <2>6. Len(e \o r) = Len(sent[c])
    BY <1>3, <2>2, <2>5
  <2>7. e \o r = sent[c]
    BY <1>1, <2>5, <2>6, FollowsAll
  <2> QED
    BY <1>4, <2>4, <2>7 DEF e
<1>5. CASE srv_link[c] # "open"
  BY <1>1, <1>3, <1>5, FollowsPrefix
<1> QED
  BY <1>4, <1>5

\* Each connection gets its own messages back, whole, once and in order, however the
\* pieces of different connections interleave.
THEOREM EchoesKeepOrder == Spec => []EchoesInOrder
<1>1. LoadInv => EchoesInOrder
  BY FlowIsOrder DEF EchoesInOrder
<1> QED
  BY <1>1, ServerInvariance, PTL

-----------------------------------------------------------------------------
(* The server as an EchoService.                                           *)

\* The messages c has got back, as EchoService numbers them.
Replies(c) ==
    [i \in DOMAIN arrived[c] |-> IF arrived[c][i] = sent[c][i] THEN i ELSE 0]

\* They are the first messages of c, in order.
RepliesOK ==
    \A c \in Conns :
        /\ Len(sent[c]) \in Nat /\ Len(arrived[c]) \in Nat
        /\ Len(arrived[c]) <= Len(sent[c])
        /\ Replies(c) = [i \in 1..Len(arrived[c]) |-> i]

\* Because the echoes follow what was sent.
LEMMA RepliesAre == LoadInv => RepliesOK
<1> SUFFICES ASSUME LoadInv, NEW c \in Conns
             PROVE  /\ Len(sent[c]) \in Nat /\ Len(arrived[c]) \in Nat
                    /\ Len(arrived[c]) <= Len(sent[c])
                    /\ Replies(c) = [i \in 1..Len(arrived[c]) |-> i]
  BY DEF RepliesOK
<1>1. /\ sent[c] \in Seq(Nat) /\ arrived[c] \in Seq(Nat)
      /\ Len(sent[c]) \in Nat /\ Len(arrived[c]) \in Nat
  BY FlowTypes DEF LoadInv
<1>2. Follows(sent[c], 0, arrived[c])
  BY DEF LoadInv, Flow, Echoes
<1>3. ASSUME NEW i \in 1..Len(arrived[c]) PROVE arrived[c][i] = sent[c][i]
  <2>1. 0 + i = i
    BY <1>1
  <2> QED
    BY <1>2, <2>1 DEF Follows
<1>4. Len(arrived[c]) <= Len(sent[c])
  BY <1>1, <1>2 DEF Follows
<1>5. DOMAIN arrived[c] = 1..Len(arrived[c])
  BY <1>1
<1>6. Replies(c) = [i \in 1..Len(arrived[c]) |-> i]
  BY <1>3, <1>5 DEF Replies
<1> QED
  BY <1>1, <1>4, <1>6

\* A message sent is a request.
LEMMA SendIsRequest ==
    ASSUME LoadInv, RepliesOK, RepliesOK', NEW c \in Conns,
           NEW size \in 1..SRV_MAX_LEN, Send(c, size)
    PROVE  Service!Request(c)
<1> DEFINE requests == [d \in Conns |-> Len(sent[d])]
           replies == [d \in Conns |-> Replies(d)]
<1>1. /\ sent' = [sent EXCEPT ![c] = Append(@, size)]
      /\ arrived' = arrived /\ broken' = broken
  BY DEF Send
<1>2. sent \in [Conns -> Seq(Nat)] /\ sent[c] \in Seq(Nat) /\ size \in Nat
  BY SrvAssumption DEF LoadInv, LoadTypeOK
<1>3. Len(Append(sent[c], size)) = Len(sent[c]) + 1
  BY <1>2
<1>4. requests' = [requests EXCEPT ![c] = @ + 1]
  <2>1. /\ Len(sent'[c]) = Len(sent[c]) + 1
        /\ \A d \in Conns : d # c => sent'[d] = sent[d]
    BY <1>1, <1>2, <1>3
  <2> QED
    BY <2>1
<1>5. replies' = replies
  <2>1. \A d \in Conns : Replies(d)' = Replies(d)
    BY <1>1 DEF RepliesOK
  <2> QED
    BY <2>1
<1> QED
  BY <1>1, <1>4, <1>5 DEF Service!Request, Replies

\* An echo that arrives is the reply to the oldest message not yet replied to.
LEMMA ReceiveIsReply ==
    ASSUME LoadInv, RepliesOK, RepliesOK', NEW c \in Conns, Receive(c)
    PROVE  Service!Reply(c)
<1> DEFINE requests == [d \in Conns |-> Len(sent[d])]
           replies == [d \in Conns |-> Replies(d)]
           n == Len(arrived[c])
           x == Head(s2c[c])
<1>1. /\ arrived' = [arrived EXCEPT ![c] = Append(@, x)]
      /\ sent' = sent /\ broken' = broken /\ s2c[c] # <<>>
  BY DEF Receive
<1>2. /\ arrived \in [Conns -> Seq(Nat)] /\ arrived[c] \in Seq(Nat)
      /\ s2c[c] \in Seq(Nat) /\ n \in Nat
  BY FlowTypes DEF LoadInv, LoadTypeOK
<1>3. x \in Nat
  BY <1>1, <1>2
<1> HIDE DEF x
<1>4. /\ Len(arrived'[c]) = n + 1
      /\ \A d \in Conns : d # c => arrived'[d] = arrived[d]
  BY <1>1, <1>2, <1>3
<1>5. Replies(c) = [i \in 1..n |-> i] /\ Len(sent[c]) \in Nat
  BY DEF RepliesOK
<1>6. /\ Replies(c)' = [i \in 1..(n + 1) |-> i]
      /\ n + 1 <= Len(sent[c])
  <2>1. /\ Replies(c)' = [i \in 1..Len(arrived'[c]) |-> i]
        /\ Len(arrived'[c]) <= Len(sent'[c])
    BY DEF RepliesOK
  <2> QED
    BY <1>1, <1>4, <2>1
<1> HIDE DEF n
<1>7. /\ Len(Replies(c)) = n
      /\ Replies(c)' = Append(Replies(c), n + 1)
  BY <1>2, <1>5, <1>6, CountingUp
<1>8. replies' = [replies EXCEPT ![c] = Append(@, Len(@) + 1)]
  <2>1. \A d \in Conns : d # c => Replies(d)' = Replies(d)
    BY <1>1, <1>4 DEF Replies
  <2> QED
    BY <1>7, <2>1
<1>9. Len(replies[c]) < requests[c]
  BY <1>2, <1>5, <1>6, <1>7
<1>10. requests' = requests
  BY <1>1
<1> QED
  BY <1>1, <1>8, <1>9, <1>10 DEF Service!Reply, Replies

\* Under any clients whose messages fit the buffer (SRV_MAX_LEN) each connection gets
\* its messages back once, in order and whole: the safety part of EchoService.  A lost
\* link fails its connection, and a server that aborts fails all of them at once.
THEOREM FwsServerEchoes == Spec => Service!Spec
<1>1. Init => Service!Init
  <2> SUFFICES ASSUME Init PROVE Service!Init
    OBVIOUS
  <2>1. Len(<<>>) = 0 /\ DOMAIN <<>> = {} /\ <<>> \in Seq(Nat)
    OBVIOUS
  <2>2. \A c \in Conns : sent[c] = <<>> /\ arrived[c] = <<>> /\ Replies(c) = <<>>
    <3>1. \A c \in Conns : sent[c] = <<>> /\ arrived[c] = <<>>
      BY DEF Init
    <3>2. RepliesOK
      BY LoadInit, RepliesAre
    <3>3. \A c \in Conns : Replies(c) = [i \in 1..0 |-> i]
      BY <2>1, <3>1, <3>2 DEF RepliesOK
    <3>4. [i \in 1..0 |-> i] = <<>>
      OBVIOUS
    <3> QED
      BY <3>1, <3>3, <3>4
  <2>3. /\ [c \in Conns |-> Len(sent[c])] = [c \in Conns |-> 0]
        /\ [c \in Conns |-> Replies(c)] = [c \in Conns |-> <<>>]
        /\ broken = {}
    BY <2>1, <2>2 DEF Init
  <2> QED
    BY <2>3 DEF Service!Init, Replies
<1>2. ASSUME LoadInv, RepliesOK, RepliesOK', [Next]_vars
      PROVE  [Service!Next]_(Service!vars)
  <2>1. ASSUME sent' = sent, arrived' = arrived, broken' = broken
        PROVE  UNCHANGED Service!vars
    BY <2>1 DEF Service!vars
  <2>2. ASSUME sent' = sent, arrived' = arrived, NEW lost \in SUBSET Conns,
               broken' = broken \cup lost
        PROVE  Service!Next
    <3>1. Service!Fail(lost)
      BY <2>2 DEF Service!Fail
    <3> QED
      BY <3>1 DEF Service!Next
  <2>3. ASSUME NEW c \in Conns, LoadStep(c) PROVE [Service!Next]_(Service!vars)
    <3>1. CASE Connect(c) \/ CloseConn(c)
      BY <2>1, <3>1 DEF Connect, CloseConn, loadVars
    <3>2. ASSUME NEW size \in 1..SRV_MAX_LEN, Send(c, size) PROVE Service!Next
      BY <1>2, <3>2, SendIsRequest DEF Service!Next
    <3>3. CASE Receive(c)
      BY <1>2, <3>3, ReceiveIsReply DEF Service!Next
    <3>4. CASE BreakLink(c) /\ UNCHANGED loadVars
      <4>1. broken' = broken \cup {c} /\ {c} \in SUBSET Conns
        BY <3>4 DEF BreakLink
      <4> QED
        BY <2>2, <3>4, <4>1 DEF loadVars
    <3> QED
      BY <2>3, <3>1, <3>2, <3>3, <3>4 DEF LoadStep
  <2>4. ASSUME NEW c \in Conns, ServerStep(c) PROVE [Service!Next]_(Service!vars)
    <3>1. sent' = sent /\ arrived' = arrived
      BY <2>4 DEF ServerStep, loadVars
    <3>2. CASE SrvAbort(c)
      <4>1. broken' = broken \cup Conns
        BY <1>2, <3>2 DEF SrvAbort, LoadInv, LoadTypeOK, WireTypeOK
      <4> QED
        BY <2>2, <3>1, <4>1
    <3>3. CASE ~SrvAbort(c)
      <4>1. broken' = broken
        BY <2>4, <3>3 DEF ServerStep, SrvStep, SrvOnNewConnection, SrvOnReadPiece,
                          SrvOnReadMessage, SrvOnClose
      <4> QED
        BY <2>1, <3>1, <4>1
    <3> QED
      BY <3>2, <3>3
  <2>5. CASE UNCHANGED vars
    BY <2>1, <2>5 DEF vars, wireVars, loadVars
  <2> QED
    BY <1>2, <2>3, <2>4, <2>5 DEF Next
<1> QED
  BY <1>1, <1>2, RepliesAre, ServerInvariance, PTL DEF Spec, Service!Spec
=============================================================================
