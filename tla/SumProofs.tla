----------------------------- MODULE SumProofs -----------------------------
(***************************************************************************)
(* What the proofs need to know of the counters: of SumOver its type, its  *)
(* value for a constant function, and how it changes with one of its       *)
(* terms; of CountStats that it keeps the totals; of division how it goes  *)
(* with the number of bytes in messages of one length; and of the streams  *)
(* of bytes and messages, parts of a sequence and two of them together.    *)
(***************************************************************************)
EXTENDS Sums, IntervalStats, Sequences, FiniteSetTheorems,
        SequenceTheorems, TLAPS

\* A unit belongs to one element of S and has a number below that element's value.
LEMMA UnitsAre ==
    ASSUME NEW S, NEW f
    PROVE  \A u : u \in Units(f, S)
                    <=> \E x \in S : \E i \in 1..f[x] : u = <<x, i>>
BY DEF Units

\* The sets units are made of.
LEMMA IntervalCount ==
    ASSUME NEW n \in Nat
    PROVE  IsFiniteSet(1..n) /\ Cardinality(1..n) = n
<1>1. IsFiniteSet(1..n) /\ Cardinality(1..n) = IF 1 > n THEN 0 ELSE n - 1 + 1
  BY FS_Interval
<1> QED
  BY <1>1

\* A set of one element.
LEMMA SingletonCount ==
    ASSUME NEW x
    PROVE  IsFiniteSet({x}) /\ Cardinality({x}) = 1
BY FS_Singleton

\* There are finitely many units.
LEMMA UnitsFinite ==
    ASSUME NEW S, IsFiniteSet(S), NEW f \in [S -> Nat]
    PROVE  IsFiniteSet(Units(f, S))
<1> DEFINE part == [x \in S |-> {x} \X (1..f[x])]
           T == {{x} \X (1..f[x]) : x \in S}
<1>1. part \in Surjection(S, T)
  BY DEF Surjection
<1>2. IsFiniteSet(T)
  BY <1>1, FS_Surjection
<1>3. ASSUME NEW t \in T PROVE IsFiniteSet(t)
  <2>1. PICK x \in S : t = {x} \X (1..f[x])
    BY <1>3
  <2>2. f[x] \in Nat
    OBVIOUS
  <2>3. IsFiniteSet({x}) /\ IsFiniteSet(1..f[x])
    BY <2>2, SingletonCount, IntervalCount
  <2> QED
    BY <2>1, <2>3, FS_Product
<1> QED
  BY <1>2, <1>3, FS_UNION DEF Units

\* A sum is a number.
LEMMA SumType ==
    ASSUME NEW S, IsFiniteSet(S), NEW f \in [S -> Nat]
    PROVE  SumOver(f, S) \in Nat
BY UnitsFinite, FS_CardinalityType DEF SumOver

\* The sum of a constant function.
LEMMA SumOfConstant ==
    ASSUME NEW S, IsFiniteSet(S), NEW n \in Nat, NEW f, \A x \in S : f[x] = n
    PROVE  SumOver(f, S) = Cardinality(S) * n
<1>1. Units(f, S) = S \X (1..n)
  BY UnitsAre
<1>2. IsFiniteSet(1..n) /\ Cardinality(1..n) = n
  BY IntervalCount
<1> QED
  BY <1>1, <1>2, FS_Product DEF SumOver

\* Functions that agree on S have the same sum.
LEMMA SumOfEqual ==
    ASSUME NEW S, NEW f, NEW g, \A x \in S : f[x] = g[x]
    PROVE  SumOver(f, S) = SumOver(g, S)
<1>1. {{x} \X (1..f[x]) : x \in S} = {{x} \X (1..g[x]) : x \in S}
  OBVIOUS
<1>2. Units(f, S) = Units(g, S)
  BY <1>1 DEF Units
<1> QED
  BY <1>2 DEF SumOver

\* The sum over S is its term for c and the sum over the rest.
LEMMA SumSplit ==
    ASSUME NEW S, IsFiniteSet(S), NEW f \in [S -> Nat], NEW c \in S
    PROVE  /\ SumOver(f, S) = f[c] + SumOver(f, S \ {c})
           /\ SumOver(f, S \ {c}) \in Nat
<1> DEFINE R == S \ {c}
           own == {c} \X (1..f[c])
<1>1. Units(f, S) = own \cup Units(f, R) /\ own \cap Units(f, R) = {}
  BY UnitsAre
<1>2. f[c] \in Nat
  OBVIOUS
<1>3. /\ IsFiniteSet(1..f[c]) /\ Cardinality(1..f[c]) = f[c]
      /\ IsFiniteSet({c}) /\ Cardinality({c}) = 1
  BY <1>2, SingletonCount, IntervalCount
<1>4. IsFiniteSet(own) /\ Cardinality(own) = f[c]
  BY <1>2, <1>3, FS_Product
<1>5. IsFiniteSet(Units(f, R)) /\ Cardinality(Units(f, R)) \in Nat
  <2> DEFINE g == [x \in R |-> f[x]]
  <2>1. IsFiniteSet(R) /\ g \in [R -> Nat]
    BY FS_RemoveElement
  <2>2. {{x} \X (1..g[x]) : x \in R} = {{x} \X (1..f[x]) : x \in R}
    OBVIOUS
  <2>3. Units(g, R) = Units(f, R)
    BY <2>2 DEF Units
  <2> QED
    BY <2>1, <2>3, UnitsFinite, FS_CardinalityType
<1>6. Cardinality(own \cap Units(f, R)) = 0
  BY <1>1, FS_EmptySet
<1>7. Cardinality(Units(f, S))
        = Cardinality(own) + Cardinality(Units(f, R)) - Cardinality(own \cap Units(f, R))
  BY <1>1, <1>4, <1>5, FS_Union
<1> QED
  BY <1>2, <1>4, <1>5, <1>6, <1>7 DEF SumOver

\* When one term changes, the sum changes by as much.
LEMMA SumChange ==
    ASSUME NEW S, IsFiniteSet(S), NEW f \in [S -> Nat], NEW g \in [S -> Nat],
           NEW c \in S, \A x \in S : x # c => g[x] = f[x]
    PROVE  /\ SumOver(g, S) = SumOver(f, S) - f[c] + g[c]
           /\ SumOver(f, S) \in Nat
           /\ SumOver(g, S) \in Nat
<1>1. SumOver(f, S \ {c}) = SumOver(g, S \ {c})
  BY SumOfEqual
<1>2. f[c] \in Nat /\ g[c] \in Nat
  OBVIOUS
<1> QED
  BY <1>1, <1>2, SumSplit, SumType

\* The sum of the empty sequence and of a sequence of one number.
LEMMA SumOfFrames ==
    /\ SumSeq(<<>>) = 0
    /\ \A n \in Nat : SumSeq(<<n>>) = n
<1>1. SumSeq(<<>>) = 0
  <2>1. Units(<<>>, DOMAIN <<>>) = {}
    BY UnitsAre
  <2> QED
    BY <2>1, FS_EmptySet DEF SumSeq, SumOver
<1>2. ASSUME NEW n \in Nat PROVE SumSeq(<<n>>) = n
  <2>1. DOMAIN <<n>> = {1} /\ <<n>>[1] = n
    OBVIOUS
  <2>2. IsFiniteSet({1}) /\ Cardinality({1}) = 1
    BY FS_Singleton
  <2>3. SumOver(<<n>>, {1}) = 1 * n
    BY <2>1, <2>2, SumOfConstant
  <2> QED
    BY <2>1, <2>3 DEF SumSeq
<1> QED
  BY <1>1, <1>2

\* The sum of a sequence of numbers is a number.
LEMMA SumSeqType ==
    ASSUME NEW seq \in Seq(Nat)
    PROVE  SumSeq(seq) \in Nat
<1>1. DOMAIN seq = 1..Len(seq) /\ Len(seq) \in Nat /\ seq \in [1..Len(seq) -> Nat]
  OBVIOUS
<1>2. IsFiniteSet(1..Len(seq))
  BY <1>1, IntervalCount
<1> QED
  BY <1>1, <1>2, SumType DEF SumSeq

-----------------------------------------------------------------------------
\* Counters stay counters.
LEMMA CountersOK ==
    ASSUME NEW s \in Counters, NEW t \in Counters, NEW n \in Nat, NEW size \in Nat
    PROVE  /\ ReceivedBytes(s, n) \in Counters
           /\ EchoedMessage(s, size) \in Counters
           /\ CountStats(s) \in Counters
           /\ Exported(t, s) \in Counters
<1>1. ReceivedBytes(s, n) \in Counters
  BY DEF Counters, ReceivedBytes
<1>2. EchoedMessage(s, size) \in Counters
  BY DEF Counters, EchoedMessage
<1>3. CountStats(s) \in Counters
  BY DEF Counters, CountStats, NoTraffic
<1>4. Exported(t, s) \in Counters
  BY DEF Counters, Exported, WithRow
<1> QED
  BY <1>1, <1>2, <1>3, <1>4

\* A row and the counters it leaves are together what was counted before.
LEMMA RowsKeepTotals ==
    ASSUME NEW s \in Counters, NEW t \in Counters
    PROVE  /\ Exported(t, s).recv_bytes + CountStats(s).recv_bytes
                = t.recv_bytes + s.recv_bytes
           /\ Exported(t, s).send_bytes + CountStats(s).send_bytes
                = t.send_bytes + s.send_bytes
           /\ Exported(t, s).recv_msg + CountStats(s).recv_msg
                = t.recv_msg + s.recv_msg
           /\ Exported(t, s).send_msg + CountStats(s).send_msg
                = t.send_msg + s.send_msg
<1>1. CASE Quiet(s)
  BY <1>1 DEF Exported, CountStats
<1>2. CASE ~Quiet(s)
  BY <1>2 DEF Exported, CountStats, WithRow, NoTraffic, Counters
<1> QED
  BY <1>1, <1>2

-----------------------------------------------------------------------------
\* The multiples of m are m apart.
LEMMA MulStep ==
    ASSUME NEW m \in Nat \ {0}, NEW a \in Nat, NEW b \in Nat, a < b
    PROVE  m * a + m <= m * b
<1>1. m * a \in Nat /\ m * b \in Nat /\ m * (b - a) \in Nat
  OBVIOUS
<1>2. m * b = m * a + m * (b - a)
  OBVIOUS
<1>3. m * (b - a) >= m
  OBVIOUS
<1> QED
  BY <1>1, <1>2, <1>3

\* The quotient and the remainder.
LEMMA DivMod ==
    ASSUME NEW m \in Nat \ {0}, NEW n \in Nat
    PROVE  /\ n \div m \in Nat
           /\ n % m \in 0..(m - 1)
           /\ n = m * (n \div m) + (n % m)
OBVIOUS

\* They are the only ones.
LEMMA DivModUnique ==
    ASSUME NEW m \in Nat \ {0}, NEW q \in Nat, NEW r \in 0..(m - 1)
    PROVE  /\ (m * q + r) \div m = q
           /\ (m * q + r) % m = r
OBVIOUS

\* A number between two multiples: its quotient and its remainder.
LEMMA DivModIs ==
    ASSUME NEW m \in Nat \ {0}, NEW n \in Nat, NEW q \in Nat,
           m * q <= n, n < m * q + m
    PROVE  n \div m = q /\ n % m = n - m * q
<1> DEFINE r == n - m * q
<1>1. m * q \in Nat
  OBVIOUS
<1>2. r \in 0..(m - 1) /\ n = m * q + r
  BY <1>1
<1>3. (m * q + r) \div m = q /\ (m * q + r) % m = r
  BY <1>2, DivModUnique
<1> QED
  BY <1>2, <1>3

\* What the next number does to them.
LEMMA ModStep ==
    ASSUME NEW m \in Nat \ {0}, NEW n \in Nat
    PROVE  /\ (n + 1) % m = IF n % m = m - 1 THEN 0 ELSE (n % m) + 1
           /\ (n + 1) \div m = IF n % m = m - 1 THEN (n \div m) + 1 ELSE n \div m
<1> DEFINE q == n \div m
           r == n % m
<1>1. q \in Nat /\ r \in 0..(m - 1) /\ n = m * q + r
  BY DivMod
<1>2. m * (q + 1) = m * q + m /\ m * q \in Nat
  BY <1>1
<1> HIDE DEF q, r
<1>3. CASE r = m - 1
  <2>1. (n + 1) \div m = q + 1 /\ (n + 1) % m = (n + 1) - m * (q + 1)
    <3>1. m * (q + 1) <= n + 1 /\ n + 1 < m * (q + 1) + m
      BY <1>1, <1>2, <1>3
    <3> QED
      BY <3>1, <1>1, DivModIs
  <2>2. (n + 1) % m = 0
    BY <2>1, <1>1, <1>2, <1>3
  <2> QED
    BY <2>1, <2>2, <1>3 DEF q, r
<1>4. CASE r # m - 1
  <2>1. (n + 1) \div m = q /\ (n + 1) % m = (n + 1) - m * q
    <3>1. m * q <= n + 1 /\ n + 1 < m * q + m
      BY <1>1, <1>2, <1>4
    <3> QED
      BY <3>1, <1>1, n + 1 \in Nat, q \in Nat, DivModIs
  <2>2. (n + 1) % m = r + 1
    BY <2>1, <1>1, <1>2
  <2> QED
    BY <2>1, <2>2, <1>4 DEF q, r
<1> QED
  BY <1>3, <1>4

\* Only a full interval is a multiple of INTERVAL messages.
LEMMA FullInterval ==
    ASSUME NEW n \in 1..INTERVAL
    PROVE  /\ n % INTERVAL # 0 => n < INTERVAL
           /\ n % INTERVAL = 0 => n = INTERVAL
<1>1. INTERVAL \in Nat \ {0}
  BY IntervalAssumption
<1>2. INTERVAL % INTERVAL = 0
  BY <1>1
<1>3. n < INTERVAL => n % INTERVAL = n
  BY <1>1
<1> QED
  BY <1>1, <1>2, <1>3

\* A larger number has no smaller quotient, and one that is at most a message
\* longer has the same quotient or the next.
LEMMA DivGrows ==
    ASSUME NEW m \in Nat \ {0}, NEW n \in Nat, NEW k \in Nat, n <= k
    PROVE  /\ n \div m <= k \div m
           /\ k <= n + m => k \div m \in {n \div m, (n \div m) + 1}
<1> DEFINE q == n \div m
           p == k \div m
<1>1. /\ q \in Nat /\ n % m \in 0..(m - 1) /\ n = m * q + (n % m)
      /\ p \in Nat /\ k % m \in 0..(m - 1) /\ k = m * p + (k % m)
  BY DivMod
<1>2. m * q \in Nat /\ m * p \in Nat
  BY <1>1
<1>3. m * q <= n /\ n < m * q + m /\ m * p <= k /\ k < m * p + m
  BY <1>1, <1>2
<1> HIDE DEF q, p
<1>4. q <= p
  <2>1. ASSUME p < q PROVE FALSE
    <3>1. m * p + m <= m * q
      BY <1>1, <2>1, MulStep
    <3> QED
      BY <1>2, <1>3, <3>1
  <2> QED
    BY <1>1, <2>1
<1>5. ASSUME k <= n + m PROVE p \in {q, q + 1}
  <2>1. ASSUME q + 1 < p PROVE FALSE
    <3>1. m * (q + 1) + m <= m * p /\ m * (q + 1) = m * q + m
      BY <1>1, <2>1, q + 1 \in Nat, MulStep
    <3> QED
      BY <1>2, <1>3, <1>5, <3>1
  <2> QED
    BY <1>1, <1>4, <2>1
<1> QED
  BY <1>4, <1>5 DEF q, p

\* A message more is one more.
LEMMA DivOfSum ==
    ASSUME NEW m \in Nat \ {0}, NEW n \in Nat
    PROVE  /\ (n + m) \div m = (n \div m) + 1
           /\ (n + m) % m = n % m
<1> DEFINE q == n \div m
<1>1. q \in Nat /\ n % m \in 0..(m - 1) /\ n = m * q + (n % m)
  BY DivMod
<1>2. m * q \in Nat /\ m * (q + 1) = m * q + m
  BY <1>1
<1>3. m * (q + 1) <= n + m /\ n + m < m * (q + 1) + m
  BY <1>1, <1>2
<1> HIDE DEF q
<1>4. (n + m) \div m = q + 1 /\ (n + m) % m = (n + m) - m * (q + 1)
  BY <1>1, <1>3, n + m \in Nat, q + 1 \in Nat, DivModIs
<1>5. (n + m) - m * (q + 1) = n % m
  BY <1>1, <1>2
<1> QED
  BY <1>4, <1>5 DEF q

-----------------------------------------------------------------------------
\* A part of a sequence.
LEMMA PartIs ==
    ASSUME NEW seq \in Seq(Nat), NEW from \in Nat, NEW to \in Nat, from <= to,
           to <= Len(seq)
    PROVE  /\ SubSeq(seq, from + 1, to) \in Seq(Nat)
           /\ Len(SubSeq(seq, from + 1, to)) = to - from
           /\ \A j \in 1..(to - from) : SubSeq(seq, from + 1, to)[j] = seq[from + j]
<1>1. \A i \in (from + 1)..to : seq[i] \in Nat
  OBVIOUS
<1>2. /\ SubSeq(seq, from + 1, to) \in Seq(Nat)
      /\ Len(SubSeq(seq, from + 1, to)) = IF from + 1 <= to THEN to - (from + 1) + 1 ELSE 0
      /\ \A i \in 1..(to - (from + 1) + 1) :
           SubSeq(seq, from + 1, to)[i] = seq[(from + 1) + i - 1]
  BY <1>1, from + 1 \in Int, to \in Int, SubSeqProperties
<1>3. to - (from + 1) + 1 = to - from
  OBVIOUS
<1>4. \A i \in 1..(to - from) : (from + 1) + i - 1 = from + i
  OBVIOUS
<1> QED
  BY <1>2, <1>3, <1>4

\* Two sequences together.
LEMMA JoinedIs ==
    ASSUME NEW f \in Seq(Nat), NEW g \in Seq(Nat)
    PROVE  /\ f \o g \in Seq(Nat) /\ Len(f \o g) = Len(f) + Len(g)
           /\ \A i \in 1..Len(f) : (f \o g)[i] = f[i]
           /\ \A j \in 1..Len(g) : (f \o g)[Len(f) + j] = g[j]
<1>1. f \o g \in Seq(Nat) /\ Len(f \o g) = Len(f) + Len(g)
  OBVIOUS
<1>2. \A i \in 1..Len(f) : (f \o g)[i] = f[i]
  OBVIOUS
<1>3. ASSUME NEW j \in 1..Len(g) PROVE (f \o g)[Len(f) + j] = g[j]
  <2>1. Len(f) + j \in 1..(Len(f) + Len(g)) /\ Len(f) + j > Len(f)
    OBVIOUS
  <2>2. (Len(f) + j) - Len(f) = j
    OBVIOUS
  <2> QED
    BY <2>1, <2>2
<1> QED
  BY <1>1, <1>2, <1>3

\* The sequence 1, 2, 3...
LEMMA CountingUp ==
    ASSUME NEW n \in Nat, NEW seq, seq = [i \in 1..n |-> i]
    PROVE  /\ seq \in Seq(Nat) /\ Len(seq) = n
           /\ [i \in 1..(n + 1) |-> i] = Append(seq, n + 1)
<1>1. seq \in Seq(Nat) /\ Len(seq) = n
  OBVIOUS
<1> DEFINE longer == [i \in 1..(n + 1) |-> i]
<1>2. longer \in Seq(Nat) /\ Append(seq, n + 1) \in Seq(Nat)
      /\ Len(longer) = n + 1 /\ Len(Append(seq, n + 1)) = n + 1
  BY <1>1
<1>3. \A i \in 1..(n + 1) : longer[i] = Append(seq, n + 1)[i]
  BY <1>1
<1> QED
  BY <1>1, <1>2, <1>3

\* A client that has got 1, 2, 3... has the pieces of its messages, m of them each, in
\* their places.
LEMMA RepliesInOrder ==
    ASSUME NEW m \in Nat \ {0}, NEW n \in Nat, NEW g, \A i \in 1..n : g[i] = i
    PROVE  \A i \in 1..(n \div m) : \A k \in ((i - 1) * m + 1)..(i * m) : g[k] = k
<1>1. n \div m \in Nat /\ n % m \in 0..(m - 1) /\ n = m * (n \div m) + (n % m)
  BY DivMod
<1>2. ASSUME NEW i \in 1..(n \div m), NEW k \in ((i - 1) * m + 1)..(i * m)
      PROVE  g[k] = k
  <2>1. i \in Nat /\ i - 1 \in Nat /\ i <= n \div m
    BY <1>1
  <2>2. (i - 1) * m \in Nat /\ i * m = m * i /\ m * i \in Nat
    BY <2>1
  <2>3. m * i <= m * (n \div m) /\ m * (n \div m) \in Nat
    <3>1. CASE i = n \div m
      BY <1>1, <3>1
    <3>2. CASE i < n \div m
      <4>1. m * i + m <= m * (n \div m)
        BY <1>1, <2>1, <3>2, MulStep
      <4> QED
        BY <1>1, <2>2, <4>1
    <3> QED
      BY <1>1, <2>1, <3>1, <3>2
  <2>4. k \in 1..n
    BY <1>1, <2>2, <2>3
  <2> QED
    BY <2>4
<1> QED
  BY <1>2
=============================================================================
