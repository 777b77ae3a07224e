---------------------------- MODULE UsTcpProofs ----------------------------
(***************************************************************************)
(* Proofs about UsTcpEchoServer with clients that wait for an echo before  *)
(* they send the next message, as both clients of the repository do        *)
(* (PIPELINE = 1; with more, echoes go out of order: run us_tcp_order).    *)
(* Then the Buffer's two uses exclude each other: while it keeps what the  *)
(* socket refused, everything the client has sent is read.                 *)
(***************************************************************************)
EXTENDS UsTcpEchoServer, SumProofs

-----------------------------------------------------------------------------
(* The buffer.                                                             *)

\* What is assumed of the constants, as far as it is used everywhere.
LEMMA LenOK == MAX_DATA_LEN \in Nat \ {0} /\ IsFiniteSet(Conns)
BY UsAssumption

\* memcpy of bytes to where they fit.
LEMMA CopiedIs ==
    ASSUME NEW cells \in [Cells -> Nat], NEW at \in Nat, NEW bytes \in Seq(Nat)
    PROVE  /\ Copied(cells, at, bytes) \in [Cells -> Nat]
           /\ \A i \in Cells : i < at => Copied(cells, at, bytes)[i] = cells[i]
           /\ \A i \in Cells : \A j \in 1..Len(bytes) :
                i = at + j - 1 => Copied(cells, at, bytes)[i] = bytes[j]
<1> DEFINE d == Copied(cells, at, bytes)
<1>1. DOMAIN bytes = 1..Len(bytes) /\ Len(bytes) \in Nat /\ Cells \subseteq Nat
  BY LenOK DEF Cells
<1>2. d \in [Cells -> Nat]
  BY <1>1 DEF Copied
<1>3. ASSUME NEW i \in Cells, i < at PROVE d[i] = cells[i]
  <2>1. i - at + 1 \notin DOMAIN bytes
    BY <1>1, <1>3
  <2> QED
    BY <2>1 DEF Copied
<1>4. ASSUME NEW i \in Cells, NEW j \in 1..Len(bytes), i = at + j - 1
      PROVE  d[i] = bytes[j]
  <2>1. i - at + 1 = j
    BY <1>1, <1>4
  <2> QED
    BY <1>1, <2>1 DEF Copied
<1> QED
  BY <1>2, <1>3, <1>4

\* n bytes of the buffer.
LEMMA HeldIs ==
    ASSUME NEW cells \in [Cells -> Nat], NEW at \in Nat, NEW n \in Nat,
           at + n <= MAX_DATA_LEN
    PROVE  /\ Held(cells, at, n) \in Seq(Nat) /\ Len(Held(cells, at, n)) = n
           /\ \A j \in 1..n : Held(cells, at, n)[j] = cells[at + j - 1]
<1>1. \A j \in 1..n : at + j - 1 \in Cells
  BY LenOK DEF Cells
<1>2. Held(cells, at, n) \in [1..n -> Nat]
  BY <1>1 DEF Held
<1>3. \A j \in 1..n : Held(cells, at, n)[j] = cells[at + j - 1]
  BY DEF Held
<1>4. Held(cells, at, n) \in Seq(Nat) /\ Len(Held(cells, at, n)) = n
  BY <1>2
<1> QED
  BY <1>3, <1>4

\* What arrives.
LEMMA ArrivingIs ==
    ASSUME NEW c \in Conns, taken[c] \in Nat, NEW n \in Nat
    PROVE  /\ Arriving(c, n) \in Seq(Nat) /\ Len(Arriving(c, n)) = n
           /\ \A i \in 1..n : Arriving(c, n)[i] = taken[c] + i
<1>1. Arriving(c, n) \in [1..n -> Nat]
  BY DEF Arriving
<1> QED
  BY <1>1 DEF Arriving

-----------------------------------------------------------------------------
(* The inductive invariant: of one connection.                             *)

\* Of the bytes a client has sent, n are echoed, the next z are in the buffer from
\* p on, and read of them are read.  At most a message is not echoed; the buffer
\* is filled from its front, unless it holds the end of the last message sent.
Placed(n, p, z, read, provided) ==
    /\ n + z = read /\ read <= provided /\ provided <= n + MAX_DATA_LEN
    /\ provided % MAX_DATA_LEN = 0
    /\ p + z <= MAX_DATA_LEN
    /\ p > 0 => (z > 0 /\ read = provided)

\* The bytes are the client's, in order: the echoed ones and those in the buffer.
InOrder(g, d, p, z) ==
    /\ \A i \in 1..Len(g) : g[i] = i
    /\ \A j \in 1..z : d[p + j - 1] = Len(g) + j

\* While the socket refuses bytes, they are the last the client has sent.
Conn(c) ==
    /\ Placed(Len(got[c]), start_pos[c], size[c], taken[c], sent[c])
    /\ InOrder(got[c], data[c], start_pos[c], size[c])
    /\ want_write[c] => size[c] > 0 /\ taken[c] = sent[c]
    /\ sock[c] = "none" => sent[c] = 0

\* A client whose messages are all echoed sends the next.
LEMMA PlacedSent ==
    ASSUME NEW n \in Nat, NEW p \in Nat, NEW z \in Nat, NEW a \in Nat, NEW s \in Nat,
           Placed(n, p, z, a, s), s - n <= 0, NEW r, r = s + MAX_DATA_LEN
    PROVE  z = 0 /\ Placed(n, p, z, a, r)
<1>1. n + z = a /\ a <= s /\ p + z <= MAX_DATA_LEN /\ (p > 0 => z > 0)
  BY DEF Placed
<1>2. s % MAX_DATA_LEN = 0
  BY DEF Placed
<1>3. s = n /\ z = 0 /\ a = s
  BY <1>1
<1>4. r % MAX_DATA_LEN = 0
  <2>1. (s + MAX_DATA_LEN) % MAX_DATA_LEN = s % MAX_DATA_LEN
    BY LenOK, DivOfSum
  <2> QED
    BY <1>2, <2>1
<1>5. a <= r /\ r <= n + MAX_DATA_LEN /\ ~(p > 0)
  BY <1>1, <1>3, LenOK
<1> QED
  BY <1>1, <1>3, <1>4, <1>5 DEF Placed

\* While a byte is not read, the buffer is filled from its front, a byte is not
\* echoed, and there is room for what may arrive.
LEMMA PlacedUnread ==
    ASSUME NEW n \in Nat, NEW p \in Nat, NEW z \in Nat, NEW a \in Nat, NEW s \in Nat,
           Placed(n, p, z, a, s), a < s
    PROVE  p = 0 /\ n < s /\ z + (s - a) <= MAX_DATA_LEN
BY LenOK DEF Placed

\* A whole message is read: nothing was in the buffer.
LEMMA PlacedWhole ==
    ASSUME NEW n \in Nat, NEW p \in Nat, NEW z \in Nat, NEW a \in Nat, NEW s \in Nat,
           Placed(n, p, z, a, s), MAX_DATA_LEN <= s - a
    PROVE  n = a /\ z = 0 /\ p = 0 /\ a + MAX_DATA_LEN = s /\ n < s
BY LenOK DEF Placed

\* What is written of a message read whole leaves the rest in the buffer.
LEMMA PlacedRest ==
    ASSUME NEW s \in Nat, s % MAX_DATA_LEN = 0,
           NEW n \in Nat, NEW left \in Nat, n + left = s, left <= MAX_DATA_LEN
    PROVE  Placed(n, 0, left, s, s)
BY LenOK DEF Placed

\* A part of a message is read: it is appended.
LEMMA PlacedPart ==
    ASSUME NEW n \in Nat, NEW p \in Nat, NEW z \in Nat, NEW a \in Nat, NEW s \in Nat,
           Placed(n, p, z, a, s), NEW y \in Nat, NEW r \in Nat, a < r, r <= s,
           n + y = r
    PROVE  Placed(n, p, y, r, s)
<1>1. n + z = a /\ s <= n + MAX_DATA_LEN /\ s % MAX_DATA_LEN = 0
  BY DEF Placed
<1>2. p = 0 /\ z + (s - a) <= MAX_DATA_LEN
  <2>1. a < s
    OBVIOUS
  <2> QED
    BY <2>1, PlacedUnread
<1>3. p + y <= MAX_DATA_LEN /\ ~(p > 0)
  BY <1>1, <1>2, LenOK
<1> QED
  BY <1>1, <1>3 DEF Placed

\* A buffer's last bytes, or some of them, are written: b of them from p on, after
\* which the position is the next one's.
LEMMA PlacedWritten ==
    ASSUME NEW n \in Nat, NEW p \in Nat, NEW z \in Nat, NEW s \in Nat,
           Placed(n, p, z, s, s), NEW b \in 0..z, NEW m, m = n + b,
           NEW left, left = z - b, NEW q, q = NextPos(p, b, left)
    PROVE  Placed(m, q, left, s, s)
<1>1. n + z = s /\ s <= n + MAX_DATA_LEN /\ p + z <= MAX_DATA_LEN
  BY DEF Placed
<1>2. s % MAX_DATA_LEN = 0
  BY DEF Placed
<1>3. left \in Nat /\ b \in Nat
  OBVIOUS
<1>4. m + left = s /\ s <= m + MAX_DATA_LEN
  BY <1>1, <1>3, LenOK
<1>5. q + left <= MAX_DATA_LEN
  BY <1>1, <1>3, LenOK DEF NextPos
<1>6. q > 0 => left > 0
  BY <1>3 DEF NextPos
<1> QED
  BY <1>2, <1>3, <1>4, <1>5, <1>6 DEF Placed

\* The echoes a client has got, when b bytes more reach it: one more if that is
\* all it has sent.
LEMMA EchoCompletes ==
    ASSUME NEW n \in Nat, NEW s \in Nat, NEW b \in Nat, s % MAX_DATA_LEN = 0,
           n < s, s <= n + MAX_DATA_LEN, n + b <= s
    PROVE  /\ n + b = s => (n + b) \div MAX_DATA_LEN = (n \div MAX_DATA_LEN) + 1
           /\ n + b # s => (n + b) \div MAX_DATA_LEN = n \div MAX_DATA_LEN
<1> DEFINE m == MAX_DATA_LEN
           q == s \div m
<1>1. q \in Nat /\ s = m * q /\ m \in Nat \ {0}
  BY LenOK, DivMod
<1>2. q # 0
  BY <1>1
<1>3. PICK r \in Nat : q = r + 1 /\ m * q = m * r + m /\ m * r \in Nat
  <2>1. q - 1 \in Nat /\ q = (q - 1) + 1
    BY <1>1, <1>2
  <2>2. m * q = m * (q - 1) + m /\ m * (q - 1) \in Nat
    BY <1>1, <2>1
  <2> QED
    BY <2>1, <2>2
<1> HIDE DEF m, q
<1>4. n \div m = r
  <2>1. m * r <= n /\ n < m * r + m
    BY <1>1, <1>3 DEF m
  <2>2. m \in Nat \ {0}
    BY <1>1
  <2> QED
    BY <2>1, <2>2, DivModIs, ZenonT(60)
<1>5. CASE n + b = s
  <2> DEFINE k == n + b
  <2>1. k \in Nat /\ m * q <= k /\ k < m * q + m
    BY <1>1, <1>3, <1>5
  <2>2. m \in Nat \ {0} /\ q \in Nat
    BY <1>1
  <2> HIDE DEF k
  <2>3. k \div m = q
    BY <2>1, <2>2, DivModIs, ZenonT(60)
  <2> QED
    BY <1>3, <1>4, <1>5, <2>3 DEF m, k
<1>6. CASE n + b # s
  <2> DEFINE k == n + b
  <2>1. k \in Nat /\ m * r <= k /\ k < m * r + m
    BY <1>1, <1>3, <1>6 DEF m
  <2>2. m \in Nat \ {0}
    BY <1>1
  <2> HIDE DEF k
  <2>3. k \div m = r
    BY <2>1, <2>2, DivModIs, ZenonT(60)
  <2> QED
    BY <1>4, <1>6, <2>3 DEF m, k
<1> QED
  BY <1>5, <1>6

\* The place of a byte, counted from the front and from the last one echoed.
LEMMA SumAssociates ==
    ASSUME NEW n \in Nat, NEW b \in Nat, NEW j \in Nat, NEW m, m = n + b
    PROVE  m + j = n + (b + j)
OBVIOUS

\* What a client has got, with the first b bytes of a message.
Accepted(g, bytes, b) == g \o SubSeq(bytes, 1, b)

\* It is b bytes longer.
LEMMA AcceptedIs ==
    ASSUME NEW g \in Seq(Nat), NEW bytes \in Seq(Nat), NEW b \in Nat, b <= Len(bytes)
    PROVE  /\ Accepted(g, bytes, b) \in Seq(Nat)
           /\ Len(Accepted(g, bytes, b)) = Len(g) + b
<1> DEFINE first == SubSeq(bytes, 0 + 1, b)
<1>1. first \in Seq(Nat) /\ Len(first) = b
  <2>1. first \in Seq(Nat) /\ Len(first) = b - 0
    BY PartIs
  <2> QED
    BY <2>1
<1>2. Accepted(g, bytes, b) = g \o first
  <2>1. 0 + 1 = 1
    OBVIOUS
  <2> QED
    BY <2>1 DEF Accepted
<1> HIDE DEF first
<1> QED
  BY <1>1, <1>2, JoinedIs

\* A message read whole: what is written of it follows what the client has got, and
\* the rest, in the buffer, follows that.
LEMMA OrderWhole ==
    ASSUME NEW g \in Seq(Nat), NEW d \in [Cells -> Nat], NEW bytes \in Seq(Nat),
           Len(bytes) = MAX_DATA_LEN,
           \A i \in 1..Len(bytes) : bytes[i] = Len(g) + i,
           \A i \in 1..Len(g) : g[i] = i,
           NEW b \in 0..MAX_DATA_LEN, NEW left, left = MAX_DATA_LEN - b,
           NEW f, f = Accepted(g, bytes, b),
           NEW e, e = Copied(d, 0, SubSeq(bytes, b + 1, MAX_DATA_LEN))
    PROVE  /\ f \in Seq(Nat) /\ Len(f) = Len(g) + b
           /\ e \in [Cells -> Nat]
           /\ InOrder(f, e, 0, left)
           /\ left = 0 => InOrder(f, d, 0, left)
<1> DEFINE first == SubSeq(bytes, 1, b)
           rest == SubSeq(bytes, b + 1, MAX_DATA_LEN)
<1>1. b \in Nat /\ left \in Nat /\ b + left = MAX_DATA_LEN
  BY LenOK
<1>2. /\ first \in Seq(Nat) /\ Len(first) = b
      /\ \A j \in 1..b : first[j] = bytes[j]
  <2>1. /\ SubSeq(bytes, 0 + 1, b) \in Seq(Nat)
        /\ Len(SubSeq(bytes, 0 + 1, b)) = b - 0
        /\ \A j \in 1..(b - 0) : SubSeq(bytes, 0 + 1, b)[j] = bytes[0 + j]
    BY <1>1, LenOK, PartIs
  <2>2. 0 + 1 = 1 /\ b - 0 = b /\ \A j \in 1..b : 0 + j = j
    BY <1>1
  <2> QED
    BY <2>1, <2>2
<1>3. /\ rest \in Seq(Nat) /\ Len(rest) = left
      /\ \A j \in 1..left : rest[j] = bytes[b + j]
  <2>1. /\ rest \in Seq(Nat) /\ Len(rest) = MAX_DATA_LEN - b
        /\ \A j \in 1..(MAX_DATA_LEN - b) : rest[j] = bytes[b + j]
    BY <1>1, LenOK, PartIs
  <2> QED
    BY <2>1
<1> HIDE DEF first, rest
<1>4. /\ f \in Seq(Nat) /\ Len(f) = Len(g) + b
      /\ \A i \in 1..Len(g) : f[i] = g[i]
      /\ \A j \in 1..b : f[Len(g) + j] = first[j]
  <2>1. /\ g \o first \in Seq(Nat) /\ Len(g \o first) = Len(g) + Len(first)
        /\ \A i \in 1..Len(g) : (g \o first)[i] = g[i]
        /\ \A j \in 1..Len(first) : (g \o first)[Len(g) + j] = first[j]
    BY <1>2, JoinedIs
  <2> QED
    BY <1>2, <2>1 DEF first, Accepted
<1>5. ASSUME NEW i \in 1..Len(f) PROVE f[i] = i
  <2>1. CASE i \in 1..Len(g)
    BY <1>4, <2>1
  <2>2. CASE i \notin 1..Len(g)
    <3>1. Len(g) \in Nat /\ i - Len(g) \in 1..b /\ i = Len(g) + (i - Len(g))
      BY <1>1, <1>4, <2>2
    <3>2. f[Len(g) + (i - Len(g))] = first[i - Len(g)]
      BY <1>4, <3>1
    <3>3. first[i - Len(g)] = bytes[i - Len(g)] /\ i - Len(g) \in 1..Len(bytes)
      BY <1>1, <1>2, <3>1
    <3> QED
      BY <3>1, <3>2, <3>3
  <2> QED
    BY <2>1, <2>2
<1>6. /\ e \in [Cells -> Nat]
      /\ \A i \in Cells : \A j \in 1..left : i = 0 + j - 1 => e[i] = rest[j]
  <2>1. 0 \in Nat
    OBVIOUS
  <2>2. /\ Copied(d, 0, rest) \in [Cells -> Nat]
        /\ \A i \in Cells : \A j \in 1..Len(rest) :
             i = 0 + j - 1 => Copied(d, 0, rest)[i] = rest[j]
    BY <1>3, <2>1, CopiedIs, ZenonT(30)
  <2> QED
    BY <1>3, <2>2 DEF rest
<1>7. ASSUME NEW j \in 1..left PROVE e[0 + j - 1] = Len(f) + j
  <2>1. 0 + j - 1 \in Cells
    BY <1>1, LenOK DEF Cells
  <2>2. e[0 + j - 1] = bytes[b + j]
    BY <1>3, <1>6, <2>1
  <2>3. b + j \in 1..Len(bytes)
    BY <1>1, LenOK
  <2>4. bytes[b + j] = Len(g) + (b + j)
    BY <2>3
  <2>5. Len(f) + j = Len(g) + (b + j)
    <3>1. Len(f) = Len(g) + b /\ Len(g) \in Nat /\ b \in Nat /\ j \in Nat
      BY <1>1, <1>4
    <3> QED
      BY <3>1, SumAssociates
  <2> QED
    BY <2>2, <2>4, <2>5
<1> QED
  BY <1>4, <1>5, <1>6, <1>7 DEF InOrder

\* What is appended follows what was in the buffer.
LEMMA OrderPart ==
    ASSUME NEW g \in Seq(Nat), NEW d \in [Cells -> Nat], NEW bytes \in Seq(Nat),
           NEW z \in Nat, z + Len(bytes) <= MAX_DATA_LEN,
           \A i \in 1..Len(bytes) : bytes[i] = (Len(g) + z) + i,
           InOrder(g, d, 0, z), NEW e, e = Copied(d, z, bytes)
    PROVE  /\ e \in [Cells -> Nat]
           /\ InOrder(g, e, 0, z + Len(bytes))
<1> DEFINE k == Len(bytes)
<1>1. k \in Nat /\ Len(g) \in Nat
  OBVIOUS
<1>2. /\ e \in [Cells -> Nat]
      /\ \A i \in Cells : i < z => e[i] = d[i]
      /\ \A i \in Cells : \A j \in 1..k : i = z + j - 1 => e[i] = bytes[j]
  <2>1. /\ Copied(d, z, bytes) \in [Cells -> Nat]
        /\ \A i \in Cells : i < z => Copied(d, z, bytes)[i] = d[i]
        /\ \A i \in Cells : \A j \in 1..Len(bytes) :
             i = z + j - 1 => Copied(d, z, bytes)[i] = bytes[j]
    BY CopiedIs, ZenonT(30)
  <2> QED
    BY <2>1
<1> HIDE DEF k
<1>3. ASSUME NEW j \in 1..(z + k) PROVE e[0 + j - 1] = Len(g) + j
  <2>1. 0 + j - 1 \in Cells /\ j \in Nat
    BY <1>1, LenOK DEF Cells, k
  <2>2. CASE j <= z
    <3>1. j \in 1..z /\ 0 + j - 1 < z
      BY <1>1, <2>1, <2>2
    <3> QED
      BY <1>2, <2>1, <3>1 DEF InOrder
  <2>3. CASE z < j
    <3>1. j - z \in 1..k /\ 0 + j - 1 = z + (j - z) - 1
      BY <1>1, <2>1, <2>3
    <3>2. e[0 + j - 1] = bytes[j - z]
      BY <1>2, <2>1, <3>1
    <3>3. bytes[j - z] = (Len(g) + z) + (j - z)
      BY <3>1 DEF k
    <3> QED
      BY <1>1, <2>1, <3>2, <3>3
  <2> QED
    BY <2>1, <2>2, <2>3
<1> QED
  BY <1>2, <1>3 DEF InOrder, k

\* What a client has got, with b bytes of the buffer.
Echo(g, d, p, b) == g \o Held(d, p, b)

\* What is written of the buffer follows what the client has got.
LEMMA OrderWritten ==
    ASSUME NEW g \in Seq(Nat), NEW d \in [Cells -> Nat], NEW p \in Nat, NEW z \in Nat,
           p + z <= MAX_DATA_LEN, InOrder(g, d, p, z), NEW b \in 0..z,
           NEW left, left = z - b, NEW q, q = NextPos(p, b, left),
           NEW f, f = Echo(g, d, p, b)
    PROVE  InOrder(f, d, q, left)
<1> DEFINE held == Held(d, p, b)
<1>1. b \in Nat /\ left \in Nat /\ Len(g) \in Nat /\ b + left = z
  OBVIOUS
<1>2. /\ held \in Seq(Nat) /\ Len(held) = b
      /\ \A j \in 1..b : held[j] = d[p + j - 1]
  <2>1. p + b <= MAX_DATA_LEN
    BY <1>1, LenOK
  <2> QED
    BY <1>1, <2>1, HeldIs
<1> HIDE DEF held
<1>3. /\ f \in Seq(Nat) /\ Len(f) = Len(g) + b
      /\ \A i \in 1..Len(g) : f[i] = g[i]
      /\ \A j \in 1..b : f[Len(g) + j] = held[j]
  <2>1. /\ g \o held \in Seq(Nat) /\ Len(g \o held) = Len(g) + Len(held)
        /\ \A i \in 1..Len(g) : (g \o held)[i] = g[i]
        /\ \A j \in 1..Len(held) : (g \o held)[Len(g) + j] = held[j]
    BY <1>2, JoinedIs
  <2> QED
    BY <1>2, <2>1 DEF held, Echo
<1>4. ASSUME NEW i \in 1..Len(f) PROVE f[i] = i
  <2>1. CASE i \in 1..Len(g)
    BY <1>3, <2>1 DEF InOrder
  <2>2. CASE i \notin 1..Len(g)
    <3>0. i \in 1..(Len(g) + b)
      BY <1>3
    <3>1. i - Len(g) \in 1..b /\ i = Len(g) + (i - Len(g)) /\ i - Len(g) \in 1..z
      BY <1>1, <2>2, <3>0
    <3>2. f[Len(g) + (i - Len(g))] = held[i - Len(g)]
      BY <1>3, <3>1
    <3>3. held[i - Len(g)] = d[p + (i - Len(g)) - 1]
      BY <1>2, <3>1
    <3>4. d[p + (i - Len(g)) - 1] = Len(g) + (i - Len(g))
      BY <3>1 DEF InOrder
    <3> QED
      BY <3>1, <3>2, <3>3, <3>4
  <2> QED
    BY <2>1, <2>2
<1>5. ASSUME NEW j \in 1..left PROVE d[q + j - 1] = Len(f) + j
  <2>1. q = p + b /\ j \in Nat /\ b + j \in 1..z
    BY <1>1 DEF NextPos
  <2>2. d[p + (b + j) - 1] = Len(g) + (b + j)
    BY <2>1 DEF InOrder
  <2>3. (p + b) + j - 1 = p + (b + j) - 1 /\ Len(f) + j = Len(g) + (b + j)
    BY <1>1, <1>3, <2>1
  <2> QED
    BY <2>1, <2>2, <2>3
<1> QED
  BY <1>3, <1>4, <1>5 DEF InOrder

\* What is written of the last bytes a client has sent, from p on.
LEMMA Flushed ==
    ASSUME NEW g \in Seq(Nat), NEW d \in [Cells -> Nat], NEW p \in Nat, NEW z \in Nat,
           NEW s \in Nat, Placed(Len(g), p, z, s, s), InOrder(g, d, p, z),
           NEW b \in 0..z, NEW left, left = z - b, NEW q, q = NextPos(p, b, left),
           NEW f, f = Echo(g, d, p, b)
    PROVE  /\ Len(f) = Len(g) + b
           /\ Placed(Len(f), q, left, s, s)
           /\ InOrder(f, d, q, left)
<1>1. p + z <= MAX_DATA_LEN
  BY DEF Placed
<1>2. Len(f) = Len(g) + b /\ InOrder(f, d, q, left)
  <2>1. Len(f) = Len(g) + b
    <3> DEFINE held == Held(d, p, b)
    <3>1. b \in Nat /\ p + b <= MAX_DATA_LEN
      BY <1>1, LenOK
    <3>2. held \in Seq(Nat) /\ Len(held) = b
      BY <3>1, HeldIs
    <3>3. f = g \o held
      BY DEF Echo
    <3> HIDE DEF held
    <3> QED
      BY <3>2, <3>3, JoinedIs
  <2>2. InOrder(f, d, q, left)
    BY <1>1, OrderWritten
  <2> QED
    BY <2>1, <2>2
<1>3. Len(g) \in Nat
  OBVIOUS
<1>4. Placed(Len(f), q, left, s, s)
  BY <1>2, <1>3, PlacedWritten
<1> QED
  BY <1>2, <1>4

-----------------------------------------------------------------------------
(* The counters.                                                           *)

\* What the callbacks count.
LEMMA CountsOK ==
    ASSUME NEW s \in Counters, NEW n \in Nat
    PROVE  /\ CountRead(s, n) \in Counters
           /\ CountRead(s, n).recv_bytes = s.recv_bytes + n
           /\ CountRead(s, n).send_bytes = s.send_bytes
           /\ CountRead(s, n).send_msg = s.send_msg
           /\ CountWritten(s, n) \in Counters
           /\ CountWritten(s, n).recv_bytes = s.recv_bytes
           /\ CountWritten(s, n).send_bytes = s.send_bytes + n
           /\ CountWritten(s, n).send_msg = s.send_msg
           /\ CountEcho(s) \in Counters
           /\ CountEcho(s).recv_bytes = s.recv_bytes
           /\ CountEcho(s).send_bytes = s.send_bytes
           /\ CountEcho(s).send_msg = s.send_msg + 1
<1>1. /\ CountRead(s, n) \in Counters
      /\ CountRead(s, n).recv_bytes = s.recv_bytes + n
      /\ CountRead(s, n).send_bytes = s.send_bytes
      /\ CountRead(s, n).send_msg = s.send_msg
  <2> DEFINE r == ReceivedBytes(s, n)
  <2>1. /\ r \in Counters /\ r.recv_bytes = s.recv_bytes + n
        /\ r.send_bytes = s.send_bytes /\ r.send_msg = s.send_msg
    BY DEF Counters, ReceivedBytes
  <2> HIDE DEF r
  <2>2. CountRead(s, n) = [r EXCEPT !.recv_msg = @ + 1]
    BY DEF CountRead, r
  <2> QED
    BY <2>1, <2>2 DEF Counters
<1>2. /\ CountWritten(s, n) \in Counters
      /\ CountWritten(s, n).recv_bytes = s.recv_bytes
      /\ CountWritten(s, n).send_bytes = s.send_bytes + n
      /\ CountWritten(s, n).send_msg = s.send_msg
  BY DEF Counters, CountWritten
<1>3. /\ CountEcho(s) \in Counters
      /\ CountEcho(s).recv_bytes = s.recv_bytes
      /\ CountEcho(s).send_bytes = s.send_bytes
      /\ CountEcho(s).send_msg = s.send_msg + 1
  BY DEF Counters, CountEcho
<1> QED
  BY <1>1, <1>2, <1>3

\* The fields of counters are numbers.
LEMMA CountersAre ==
    ASSUME NEW s \in Counters
    PROVE  /\ s.recv_bytes \in Nat /\ s.send_bytes \in Nat
           /\ s.recv_msg \in Nat /\ s.send_msg \in Nat
BY DEF Counters

\* What is counted and exported so far.
Received == rows.recv_bytes + stats.recv_bytes
Written == rows.send_bytes + stats.send_bytes
Echoed == rows.send_msg + stats.send_msg

\* A write counts an echo if it leaves nothing, and CountStats keeps the totals.
LEMMA AfterWriteCounts ==
    ASSUME rows \in Counters, NEW s \in Counters, NEW left \in Nat, AfterWrite(s, left)
    PROVE  /\ stats' \in Counters /\ rows' \in Counters
           /\ Received' = rows.recv_bytes + s.recv_bytes
           /\ Written' = rows.send_bytes + s.send_bytes
           /\ Echoed' = rows.send_msg + (s.send_msg + (IF left = 0 THEN 1 ELSE 0))
<1> USE DEF Received, Written, Echoed
<1>1. s.send_msg \in Nat /\ 0 \in Nat
  BY CountersAre
<1>2. CASE left = 0
  <2> DEFINE r == CountEcho(s)
  <2>1. /\ r \in Counters /\ r.recv_bytes = s.recv_bytes
        /\ r.send_bytes = s.send_bytes /\ r.send_msg = s.send_msg + 1
    BY <1>1, CountsOK
  <2>2. stats' = CountStats(r) /\ rows' = Exported(rows, r)
    BY <1>2 DEF AfterWrite
  <2> HIDE DEF r
  <2>3. CountStats(r) \in Counters /\ Exported(rows, r) \in Counters
    BY <1>1, <2>1, CountersOK
  <2>4. /\ Exported(rows, r).recv_bytes + CountStats(r).recv_bytes
             = rows.recv_bytes + r.recv_bytes
        /\ Exported(rows, r).send_bytes + CountStats(r).send_bytes
             = rows.send_bytes + r.send_bytes
        /\ Exported(rows, r).send_msg + CountStats(r).send_msg
             = rows.send_msg + r.send_msg
    BY <2>1, RowsKeepTotals
  <2> QED
    BY <1>2, <2>1, <2>2, <2>3, <2>4
<1>3. CASE left # 0
  <2>1. stats' = s /\ rows' = rows
    BY <1>3 DEF AfterWrite
  <2>2. s.send_msg + 0 = s.send_msg
    BY <1>1
  <2> QED
    BY <1>3, <2>1, <2>2
<1> QED
  BY <1>2, <1>3

-----------------------------------------------------------------------------
(* The inductive invariant, and the steps.                                 *)

UsInv ==
    /\ UsTypeOK
    /\ \A c \in Conns : Conn(c)
    /\ UsBytesBalance
    /\ EchoesCounted

\* What the type invariant says of one connection.
LEMMA ConnTypes ==
    ASSUME UsTypeOK, NEW c \in Conns
    PROVE  /\ sent[c] \in Nat /\ taken[c] \in Nat /\ size[c] \in Nat
           /\ start_pos[c] \in Nat /\ want_write[c] \in BOOLEAN
           /\ got[c] \in Seq(Nat) /\ Len(got[c]) \in Nat
           /\ data[c] \in [Cells -> Nat]
BY DEF UsTypeOK

\* The same of the counters.
LEMMA CounterTypes ==
    ASSUME UsTypeOK
    PROVE  /\ stats \in Counters /\ rows \in Counters /\ lost_bytes \in Nat
           /\ Received \in Nat /\ Written \in Nat /\ Echoed \in Nat
<1>1. stats \in Counters /\ rows \in Counters /\ lost_bytes \in Nat
  BY DEF UsTypeOK
<1>2. /\ stats.recv_bytes \in Nat /\ stats.send_bytes \in Nat /\ stats.send_msg \in Nat
      /\ rows.recv_bytes \in Nat /\ rows.send_bytes \in Nat /\ rows.send_msg \in Nat
  BY <1>1, CountersAre
<1> QED
  BY <1>1, <1>2 DEF Received, Written, Echoed

\* A connection a step does not touch.
Same(c) ==
    /\ sock'[c] = sock[c] /\ sent'[c] = sent[c] /\ taken'[c] = taken[c]
    /\ got'[c] = got[c] /\ data'[c] = data[c] /\ want_write'[c] = want_write[c]
    /\ start_pos'[c] = start_pos[c] /\ size'[c] = size[c]

\* It keeps its part of the invariant.
LEMMA ConnFrame ==
    ASSUME NEW c \in Conns, NEW d \in Conns, d # c => Same(d), Conn(d), Conn(c)'
    PROVE  Conn(d)'
<1>1. CASE d = c
  BY <1>1
<1>2. CASE d # c
  BY <1>2 DEF Same, Conn
<1> QED
  BY <1>1, <1>2

\* The bytes a connection keeps in the Buffer.
OwnBytes(c) == IF sock[c] = "open" THEN size[c] ELSE 0

\* The sum over the Buffers changes by what the Buffer of one connection does.
LEMMA BufferChange ==
    ASSUME UsTypeOK, UsTypeOK', NEW c \in Conns, \A d \in Conns : d # c => Same(d)
    PROVE  /\ BufferBytes' = BufferBytes - OwnBytes(c) + OwnBytes(c)'
           /\ BufferBytes \in Nat /\ BufferBytes' \in Nat
           /\ OwnBytes(c) \in Nat /\ OwnBytes(c)' \in Nat
<1> DEFINE f == [d \in Conns |-> IF sock[d] = "open" THEN size[d] ELSE 0]
           g == [d \in Conns |-> IF sock'[d] = "open" THEN size'[d] ELSE 0]
<1>1. f \in [Conns -> Nat] /\ g \in [Conns -> Nat]
  BY DEF UsTypeOK
<1>2. \A d \in Conns : d # c => g[d] = f[d]
  BY DEF Same
<1>3. f[c] = OwnBytes(c) /\ g[c] = OwnBytes(c)' /\ f[c] \in Nat /\ g[c] \in Nat
  BY <1>1 DEF OwnBytes
<1>4. BufferBytes = SumOver(f, Conns) /\ BufferBytes' = SumOver(g, Conns)
  BY DEF BufferBytes
<1> HIDE DEF f, g
<1>5. /\ SumOver(g, Conns) = SumOver(f, Conns) - f[c] + g[c]
      /\ SumOver(f, Conns) \in Nat /\ SumOver(g, Conns) \in Nat
  BY <1>1, <1>2, LenOK, SumChange
<1> QED
  BY <1>3, <1>4, <1>5

\* The echoes of one connection, and the sum over all of them.
LEMMA EchoesChange ==
    ASSUME UsTypeOK, UsTypeOK', NEW c \in Conns, \A d \in Conns : d # c => got'[d] = got[d],
           EchoesCounted, NEW k \in Nat, Echoed' = Echoed + k,
           Len(got'[c]) \div MAX_DATA_LEN = (Len(got[c]) \div MAX_DATA_LEN) + k
    PROVE  EchoesCounted'
<1> DEFINE f == [d \in Conns |-> Len(got[d]) \div MAX_DATA_LEN]
           g == [d \in Conns |-> Len(got'[d]) \div MAX_DATA_LEN]
<1>1. f \in [Conns -> Nat] /\ g \in [Conns -> Nat]
  <2>1. \A d \in Conns : Len(got[d]) \in Nat /\ Len(got'[d]) \in Nat
    <3>1. got \in [Conns -> Seq(Nat)] /\ got' \in [Conns -> Seq(Nat)]
      BY DEF UsTypeOK
    <3> QED
      BY <3>1
  <2>2. \A n \in Nat : n \div MAX_DATA_LEN \in Nat
    BY LenOK, DivMod
  <2> QED
    BY <2>1, <2>2
<1>2. \A d \in Conns : d # c => g[d] = f[d]
  OBVIOUS
<1>3. g[c] = f[c] + k /\ f[c] \in Nat
  BY <1>1
<1>4. Echoed = SumOver(f, Conns)
  BY DEF EchoesCounted, Echoed
<1>5. EchoesCounted' <=> Echoed' = SumOver(g, Conns)
  BY DEF EchoesCounted, Echoed
<1> HIDE DEF f, g
<1>6. /\ SumOver(g, Conns) = SumOver(f, Conns) - f[c] + g[c]
      /\ SumOver(f, Conns) \in Nat /\ SumOver(g, Conns) \in Nat
  BY <1>1, <1>2, LenOK, SumChange
<1>7. SumOver(g, Conns) = SumOver(f, Conns) + k
  BY <1>3, <1>6
<1> QED
  BY <1>4, <1>5, <1>7

\* What is read, n, and written, b, on an open connection changes its Buffer.
LEMMA BalanceChange ==
    ASSUME UsTypeOK, UsTypeOK', UsBytesBalance, NEW c \in Conns,
           \A d \in Conns : d # c => Same(d),
           sock[c] = "open", sock'[c] = "open", lost_bytes' = lost_bytes,
           NEW n \in Nat, NEW b \in Nat, size[c] + n = size'[c] + b,
           Received' = Received + n, Written' = Written + b
    PROVE  UsBytesBalance'
<1>1. /\ BufferBytes' = BufferBytes - OwnBytes(c) + OwnBytes(c)'
      /\ BufferBytes \in Nat /\ BufferBytes' \in Nat
      /\ OwnBytes(c) \in Nat /\ OwnBytes(c)' \in Nat
  BY BufferChange
<1>2. OwnBytes(c) + n = OwnBytes(c)' + b
  BY DEF OwnBytes
<1>3. Received \in Nat /\ Written \in Nat /\ lost_bytes \in Nat
  BY CounterTypes
<1>4. Received = Written + BufferBytes + lost_bytes
  BY DEF UsBytesBalance, Received, Written
<1>5. UsBytesBalance' <=> Received' = Written' + BufferBytes' + lost_bytes'
  BY DEF UsBytesBalance, Received, Written
<1>6. BufferBytes' + b = BufferBytes + n
  BY <1>1, <1>2
<1> HIDE DEF Received, Written
<1>7. Received + n = (Written + b) + BufferBytes' + lost_bytes
  BY <1>1, <1>3, <1>4, <1>6
<1> QED
  BY <1>5, <1>7

\* What is counted next adds to the totals.
LEMMA TotalsGrow ==
    ASSUME rows \in Counters, stats \in Counters, NEW n \in Nat
    PROVE  /\ Received + n = rows.recv_bytes + (stats.recv_bytes + n)
           /\ Written + n = rows.send_bytes + (stats.send_bytes + n)
           /\ Echoed + n = rows.send_msg + (stats.send_msg + n)
<1>1. /\ rows.recv_bytes \in Nat /\ stats.recv_bytes \in Nat
      /\ rows.send_bytes \in Nat /\ stats.send_bytes \in Nat
      /\ rows.send_msg \in Nat /\ stats.send_msg \in Nat
  BY CountersAre
<1>2. Received + n = rows.recv_bytes + (stats.recv_bytes + n)
  BY <1>1, SumAssociates DEF Received
<1>3. Written + n = rows.send_bytes + (stats.send_bytes + n)
  BY <1>1, SumAssociates DEF Written
<1>4. Echoed + n = rows.send_msg + (stats.send_msg + n)
  BY <1>1, SumAssociates DEF Echoed
<1> QED
  BY <1>2, <1>3, <1>4

\* A callback that writes: b bytes of the n read and of those in the Buffer are
\* accepted, and the Buffer keeps the others, of everything the client has sent.
LEMMA WriteStep ==
    ASSUME UsInv, NEW c \in Conns, sock[c] = "open",
           UNCHANGED <<sock, sent, connVars, lost_bytes>>,
           \A d \in Conns : d # c => Same(d),
           taken' \in [Conns -> Nat], got' \in [Conns -> Seq(Nat)],
           data' \in [Conns -> [Cells -> Nat]], start_pos' \in [Conns -> Nat],
           size' \in [Conns -> Nat], want_write' \in [Conns -> BOOLEAN],
           NEW n \in Nat, NEW b \in Nat, NEW left \in Nat, size'[c] = left,
           size[c] + n = left + b, Len(got'[c]) = Len(got[c]) + b,
           Len(got[c]) < sent[c], taken'[c] = sent[c],
           NEW s \in Counters, AfterWrite(s, left),
           s.recv_bytes = stats.recv_bytes + n,
           s.send_bytes = stats.send_bytes + b,
           s.send_msg = stats.send_msg,
           Conn(c)'
    PROVE  UsInv'
<1>1. UsTypeOK /\ \A d \in Conns : Conn(d)
  BY DEF UsInv
<1>2. /\ stats \in Counters /\ rows \in Counters
      /\ rows.recv_bytes \in Nat /\ stats.recv_bytes \in Nat
      /\ rows.send_bytes \in Nat /\ stats.send_bytes \in Nat
      /\ rows.send_msg \in Nat /\ stats.send_msg \in Nat
  BY <1>1, CounterTypes, CountersAre
<1> DEFINE k == IF left = 0 THEN 1 ELSE 0
<1>3. /\ stats' \in Counters /\ rows' \in Counters
      /\ Received' = rows.recv_bytes + s.recv_bytes
      /\ Written' = rows.send_bytes + s.send_bytes
      /\ Echoed' = rows.send_msg + (s.send_msg + k)
  BY <1>2, AfterWriteCounts
<1>4. k \in Nat
  OBVIOUS
<1> HIDE DEF k
<1>5. Received' = Received + n /\ Written' = Written + b /\ Echoed' = Echoed + k
  <2>1. Received' = rows.recv_bytes + (stats.recv_bytes + n)
    BY <1>3
  <2>2. Written' = rows.send_bytes + (stats.send_bytes + b)
    BY <1>3
  <2>3. Echoed' = rows.send_msg + (stats.send_msg + k)
    BY <1>3
  <2>4. Received + n = rows.recv_bytes + (stats.recv_bytes + n)
    BY <1>2, TotalsGrow
  <2>5. Written + b = rows.send_bytes + (stats.send_bytes + b)
    BY <1>2, TotalsGrow
  <2>6. Echoed + k = rows.send_msg + (stats.send_msg + k)
    BY <1>2, <1>4, TotalsGrow
  <2> QED
    BY <2>1, <2>2, <2>3, <2>4, <2>5, <2>6
<1>6. UsTypeOK'
  BY <1>1, <1>3 DEF UsTypeOK, connVars
<1>7. UsBytesBalance'
  BY <1>1, <1>5, <1>6, BalanceChange DEF UsInv
<1>8. EchoesCounted'
  <2>1. /\ Len(got[c]) \in Nat /\ sent[c] \in Nat /\ sent'[c] = sent[c]
    BY <1>1, ConnTypes
  <2>2. Placed(Len(got[c]), start_pos[c], size[c], taken[c], sent[c])
    BY <1>1 DEF Conn
  <2>3. sent[c] % MAX_DATA_LEN = 0 /\ sent[c] <= Len(got[c]) + MAX_DATA_LEN
    BY <2>2 DEF Placed
  <2>4. (Len(got[c]) + b) + left = sent[c]
    <3>1. Placed(Len(got'[c]), start_pos'[c], size'[c], taken'[c], sent'[c])
      BY DEF Conn
    <3> QED
      BY <2>1, <3>1 DEF Placed
  <2>5. /\ Len(got[c]) + b <= sent[c]
        /\ Len(got[c]) + b = sent[c] <=> left = 0
    BY <2>1, <2>4
  <2>6. /\ Len(got[c]) + b = sent[c] =>
             (Len(got[c]) + b) \div MAX_DATA_LEN = (Len(got[c]) \div MAX_DATA_LEN) + 1
        /\ Len(got[c]) + b # sent[c] =>
             (Len(got[c]) + b) \div MAX_DATA_LEN = Len(got[c]) \div MAX_DATA_LEN
    BY <2>1, <2>3, <2>5, EchoCompletes
  <2>7. Len(got'[c]) \div MAX_DATA_LEN = (Len(got[c]) \div MAX_DATA_LEN) + k
    <3>1. Len(got[c]) \div MAX_DATA_LEN \in Nat
      BY <2>1, LenOK, DivMod
    <3>2. CASE left = 0
      BY <2>5, <2>6, <3>2 DEF k
    <3>3. CASE left # 0
      BY <2>5, <2>6, <3>1, <3>3 DEF k
    <3> QED
      BY <3>2, <3>3
  <2>8. \A d \in Conns : d # c => got'[d] = got[d]
    BY DEF Same
  <2> QED
    BY <1>1, <1>4, <1>5, <1>6, <2>7, <2>8, EchoesChange DEF UsInv
<1>9. \A d \in Conns : Conn(d)'
  BY <1>1, ConnFrame
<1> QED
  BY <1>6, <1>7, <1>8, <1>9 DEF UsInv

\* A message read whole is written from where it is.
LEMMA WholeStep ==
    ASSUME UsInv, NEW c \in Conns, NEW b \in 0..MAX_DATA_LEN, OnDataWhole(c, b)
    PROVE  UsInv'
<1> DEFINE left == MAX_DATA_LEN - b
           bytes == Arriving(c, MAX_DATA_LEN)
           e == Copied(data[c], 0, SubSeq(bytes, b + 1, MAX_DATA_LEN))
           f == Accepted(got[c], bytes, b)
           s == CountWritten(CountRead(stats, MAX_DATA_LEN), b)
<1>1. UsTypeOK /\ Conn(c)
  BY DEF UsInv
<1>2. /\ sent[c] \in Nat /\ taken[c] \in Nat /\ size[c] \in Nat
      /\ start_pos[c] \in Nat /\ want_write[c] \in BOOLEAN
      /\ got[c] \in Seq(Nat) /\ Len(got[c]) \in Nat
      /\ data[c] \in [Cells -> Nat]
  BY <1>1, ConnTypes
<1>3. left \in Nat /\ b \in Nat /\ MAX_DATA_LEN \in Nat \ {0}
  BY LenOK
<1>4. /\ sock[c] = "open" /\ MAX_DATA_LEN <= sent[c] - taken[c]
      /\ taken' = [taken EXCEPT ![c] = @ + MAX_DATA_LEN]
  BY <1>2, <1>3 DEF OnDataWhole, Delivered
<1>5. /\ got' = [got EXCEPT ![c] = f]
      /\ left > 0 => data' = [data EXCEPT ![c] = e] /\ size' = [size EXCEPT ![c] = left]
      /\ ~(left > 0) => data' = data /\ size' = size
      /\ AfterWrite(s, left)
      /\ want_write' = [want_write EXCEPT ![c] = @ \/ left > 0]
      /\ UNCHANGED <<sock, sent, start_pos, connVars, lost_bytes>>
  BY DEF OnDataWhole, Left, Accepted
<1> HIDE DEF left
<1>w. want_write' \in [Conns -> BOOLEAN] /\ (want_write'[c] => want_write[c] \/ left > 0)
  BY <1>1, <1>5 DEF UsTypeOK
<1>6. /\ Len(got[c]) = taken[c] /\ size[c] = 0 /\ start_pos[c] = 0
      /\ taken[c] + MAX_DATA_LEN = sent[c] /\ Len(got[c]) < sent[c]
  <2>1. Placed(Len(got[c]), start_pos[c], size[c], taken[c], sent[c])
    BY <1>1 DEF Conn
  <2>2. MAX_DATA_LEN <= sent[c] - taken[c]
    BY <1>4
  <2> QED
    BY <1>2, <2>1, <2>2, PlacedWhole
<1>7. /\ bytes \in Seq(Nat) /\ Len(bytes) = MAX_DATA_LEN
      /\ \A i \in 1..Len(bytes) : bytes[i] = Len(got[c]) + i
  <2>1. MAX_DATA_LEN \in Nat
    BY <1>3
  <2>2. /\ bytes \in Seq(Nat) /\ Len(bytes) = MAX_DATA_LEN
        /\ \A i \in 1..MAX_DATA_LEN : bytes[i] = taken[c] + i
    BY <1>2, <2>1, ArrivingIs
  <2> QED
    BY <1>6, <2>2
<1> HIDE DEF bytes
<1>8. /\ f \in Seq(Nat) /\ Len(f) = Len(got[c]) + b
      /\ e \in [Cells -> Nat]
      /\ InOrder(f, e, 0, left)
      /\ left = 0 => InOrder(f, data[c], 0, left)
  <2>1. \A i \in 1..Len(got[c]) : got[c][i] = i
    BY <1>1 DEF Conn, InOrder
  <2>2. left = MAX_DATA_LEN - b
    BY DEF left
  <2>3. f = Accepted(got[c], bytes, b)
    OBVIOUS
  <2>4. e = Copied(data[c], 0, SubSeq(bytes, b + 1, MAX_DATA_LEN))
    OBVIOUS
  <2> HIDE DEF e, f
  <2> QED
    <3>1. f \in Seq(Nat) /\ Len(f) = Len(got[c]) + b
      <4>1. b \in Nat /\ b <= Len(bytes)
        BY <1>3, <1>7
      <4>2. /\ Accepted(got[c], bytes, b) \in Seq(Nat)
            /\ Len(Accepted(got[c], bytes, b)) = Len(got[c]) + b
        BY <1>2, <1>7, <4>1, AcceptedIs
      <4> QED
        BY <2>3, <4>2
    <3>e. e \in [Cells -> Nat]
      BY <1>2, <1>7, <2>1, <2>2, <2>3, <2>4, OrderWhole
    <3>2. InOrder(f, e, 0, left)
      BY <1>2, <1>7, <2>1, <2>2, <2>3, <2>4, OrderWhole, ZenonT(90)
    <3>3. left = 0 => InOrder(f, data[c], 0, left)
      BY <1>2, <1>7, <2>1, <2>2, <2>3, <2>4, OrderWhole
    <3> QED
      BY <3>1, <3>e, <3>2, <3>3
<1> HIDE DEF e, f
<1>9. /\ got' \in [Conns -> Seq(Nat)] /\ got'[c] = f
      /\ taken' \in [Conns -> Nat] /\ taken'[c] = taken[c] + MAX_DATA_LEN
      /\ start_pos' \in [Conns -> Nat] /\ start_pos'[c] = start_pos[c]
      /\ sent'[c] = sent[c] /\ sock'[c] = "open"
  BY <1>1, <1>2, <1>3, <1>4, <1>5, <1>8, SMTT(30) DEF UsTypeOK
<1>10. /\ data' \in [Conns -> [Cells -> Nat]] /\ size' \in [Conns -> Nat]
       /\ size'[c] = left
       /\ left > 0 => data'[c] = e
       /\ left = 0 => data'[c] = data[c]
  <2>1. CASE left > 0
    <3>1. data \in [Conns -> [Cells -> Nat]] /\ size \in [Conns -> Nat]
      BY <1>1 DEF UsTypeOK
    <3>2. data' = [data EXCEPT ![c] = e] /\ size' = [size EXCEPT ![c] = left]
      BY <1>5, <2>1
    <3> QED
      BY <1>3, <1>8, <2>1, <3>1, <3>2
  <2>2. CASE left = 0
    BY <1>1, <1>3, <1>5, <1>6, <2>2 DEF UsTypeOK
  <2> QED
    BY <1>3, <2>1, <2>2
<1>11. Conn(c)'
  <2>1. InOrder(got'[c], data'[c], start_pos'[c], size'[c])
    BY <1>3, <1>6, <1>8, <1>9, <1>10
  <2>2. Placed(Len(got'[c]), start_pos'[c], size'[c], taken'[c], sent'[c])
    <3>1. sent[c] % MAX_DATA_LEN = 0
      BY <1>1 DEF Conn, Placed
    <3>2. (Len(got[c]) + b) + left = sent[c] /\ left <= MAX_DATA_LEN
      BY <1>2, <1>3, <1>6 DEF left
    <3>3. Len(f) \in Nat /\ Len(f) + left = sent[c]
      BY <1>2, <1>3, <1>8, <3>2
    <3>4. Placed(Len(f), 0, left, sent[c], sent[c])
      BY <1>2, <1>3, <3>1, <3>2, <3>3, PlacedRest
    <3> QED
      BY <1>6, <1>9, <1>10, <3>4
  <2>3. ~want_write[c]
    <3>1. taken[c] # sent[c]
      BY <1>2, <1>3, <1>6
    <3> QED
      BY <1>1, <3>1 DEF Conn
  <2>4. taken'[c] = sent'[c] /\ size'[c] = left
    BY <1>6, <1>9, <1>10
  <2>5. want_write'[c] => size'[c] > 0 /\ taken'[c] = sent'[c]
    BY <1>w, <2>3, <2>4
  <2>6. sock'[c] # "none"
    BY <1>9
  <2> QED
    BY <2>1, <2>2, <2>5, <2>6 DEF Conn
<1>12. /\ s \in Counters
       /\ s.recv_bytes = stats.recv_bytes + MAX_DATA_LEN
       /\ s.send_bytes = stats.send_bytes + b
       /\ s.send_msg = stats.send_msg
  <2> DEFINE r == CountRead(stats, MAX_DATA_LEN)
  <2>1. /\ r \in Counters /\ r.recv_bytes = stats.recv_bytes + MAX_DATA_LEN
        /\ r.send_bytes = stats.send_bytes /\ r.send_msg = stats.send_msg
    BY <1>1, <1>3, CounterTypes, CountsOK
  <2> HIDE DEF r
  <2>2. /\ CountWritten(r, b) \in Counters
        /\ CountWritten(r, b).recv_bytes = r.recv_bytes
        /\ CountWritten(r, b).send_bytes = r.send_bytes + b
        /\ CountWritten(r, b).send_msg = r.send_msg
    BY <1>3, <2>1, CountsOK
  <2> QED
    BY <2>1, <2>2 DEF r
<1> HIDE DEF s
<1>13. \A d \in Conns : d # c => Same(d)
  <2>1. CASE left > 0
    BY <1>1, <1>4, <1>5, <2>1 DEF Same, UsTypeOK
  <2>2. CASE ~(left > 0)
    BY <1>1, <1>4, <1>5, <2>2 DEF Same, UsTypeOK
  <2> QED
    BY <2>1, <2>2
<1>14. /\ size[c] + MAX_DATA_LEN = left + b
       /\ Len(got'[c]) = Len(got[c]) + b
       /\ Len(got[c]) < sent[c] /\ taken'[c] = sent[c]
  <2>1. left = MAX_DATA_LEN - b
    BY DEF left
  <2> QED
    BY <1>2, <1>3, <1>6, <1>8, <1>9, <2>1
<1>15. UNCHANGED <<sock, sent, connVars, lost_bytes>>
  BY <1>5
<1> QED
  BY <1>3, <1>4, <1>5, <1>9, <1>10, <1>11, <1>12, <1>13, <1>14, <1>15,
     <1>w, WriteStep

\* The Buffer holds z bytes, the last the client has sent and n of them just read;
\* the first b of them are written.
Flushes(c, n, z, b, left, s) ==
    /\ taken'[c] = sent[c] /\ z = size[c] + n
    /\ Placed(Len(got[c]), start_pos[c], z, sent[c], sent[c])
    /\ InOrder(got[c], data'[c], start_pos[c], z)
    /\ left = z - b
    /\ got'[c] = Echo(got[c], data'[c], start_pos[c], b)
    /\ start_pos'[c] = NextPos(start_pos[c], b, left)
    /\ size'[c] = left
    /\ want_write'[c] => left > 0
    /\ s.recv_bytes = stats.recv_bytes + n
    /\ s.send_bytes = stats.send_bytes + b
    /\ s.send_msg = stats.send_msg
    /\ AfterWrite(s, left)

\* What a callback leaves alone on the other connections, and the types of what it
\* assigns.
Callback(c) ==
    /\ sock[c] = "open"
    /\ UNCHANGED <<sock, sent, connVars, lost_bytes>>
    /\ \A d \in Conns : d # c => Same(d)
    /\ taken' \in [Conns -> Nat] /\ got' \in [Conns -> Seq(Nat)]
    /\ data' \in [Conns -> [Cells -> Nat]] /\ start_pos' \in [Conns -> Nat]
    /\ size' \in [Conns -> Nat] /\ want_write' \in [Conns -> BOOLEAN]

\* It keeps the invariant.
LEMMA FlushStep ==
    ASSUME UsInv, NEW c \in Conns, Callback(c), Len(got[c]) < sent[c],
           NEW n \in Nat, NEW z \in Nat, NEW b \in 0..z, NEW left, NEW s \in Counters,
           Flushes(c, n, z, b, left, s)
    PROVE  UsInv'
<1>1. UsTypeOK /\ Conn(c)
  BY DEF UsInv
<1>2. /\ sent[c] \in Nat /\ size[c] \in Nat /\ start_pos[c] \in Nat
      /\ got[c] \in Seq(Nat) /\ Len(got[c]) \in Nat
  BY <1>1, ConnTypes
<1>3. /\ sent'[c] = sent[c] /\ sock'[c] = "open" /\ data'[c] \in [Cells -> Nat]
  BY DEF Callback
<1>4. left = z - b /\ b \in Nat /\ left \in Nat /\ z = size[c] + n
  BY DEF Flushes
<1>5. /\ Len(got'[c]) = Len(got[c]) + b
      /\ Placed(Len(got'[c]), start_pos'[c], left, sent[c], sent[c])
      /\ InOrder(got'[c], data'[c], start_pos'[c], left)
  <2> DEFINE g == got[c]
             p == start_pos[c]
             t == sent[c]
             d == data'[c]
             f == got'[c]
             q == start_pos'[c]
  <2>1. /\ Placed(Len(g), p, z, t, t) /\ InOrder(g, d, p, z)
        /\ f = Echo(g, d, p, b) /\ q = NextPos(p, b, left)
    BY DEF Flushes
  <2>2. g \in Seq(Nat) /\ p \in Nat /\ t \in Nat /\ d \in [Cells -> Nat]
    BY <1>2, <1>3
  <2>3. left = z - b
    BY <1>4
  <2> HIDE DEF g, p, t, d, f, q
  <2>4. Len(f) = Len(g) + b
    BY <2>1, <2>2, <2>3, Flushed, SMTT(30)
  <2>5. Placed(Len(f), q, left, t, t)
    <3>1. Len(g) \in Nat
      BY <2>2
    <3> QED
      BY <2>1, <2>2, <2>3, <2>4, <3>1, PlacedWritten, SMTT(30)
  <2>6. InOrder(f, d, q, left)
    <3>1. p + z <= MAX_DATA_LEN
      BY <2>1 DEF Placed
    <3> QED
      BY <2>1, <2>2, <2>3, <3>1, OrderWritten, SMTT(30)
  <2> QED
    BY <2>4, <2>5, <2>6 DEF g, p, t, d, f, q
<1>6. taken'[c] = sent[c] /\ size'[c] = left /\ (want_write'[c] => left > 0)
  BY DEF Flushes
<1>7. Conn(c)'
  <2>1. want_write'[c] => size'[c] > 0 /\ taken'[c] = sent'[c]
    BY <1>3, <1>6
  <2>2. sock'[c] # "none"
    BY <1>3
  <2>3. Placed(Len(got'[c]), start_pos'[c], size'[c], taken'[c], sent'[c])
    BY <1>3, <1>5, <1>6
  <2>4. InOrder(got'[c], data'[c], start_pos'[c], size'[c])
    BY <1>5, <1>6
  <2> QED
    BY <2>1, <2>2, <2>3, <2>4 DEF Conn
<1>8. size[c] + n = left + b
  BY <1>2, <1>4
<1>9. /\ AfterWrite(s, left)
      /\ s.recv_bytes = stats.recv_bytes + n
      /\ s.send_bytes = stats.send_bytes + b
      /\ s.send_msg = stats.send_msg
  BY DEF Flushes
<1> QED
  BY <1>4, <1>5, <1>6, <1>7, <1>8, <1>9, WriteStep DEF Callback

\* What the socket has refused is written when there is room.
LEMMA WritableStep ==
    ASSUME UsInv, NEW c \in Conns, NEW b \in 0..MAX_DATA_LEN, OnWritable(c, b)
    PROVE  UsInv'
<1> DEFINE left == size[c] - b
           s == CountWritten(stats, b)
<1>1. UsTypeOK /\ Conn(c)
  BY DEF UsInv
<1>2. /\ sent[c] \in Nat /\ taken[c] \in Nat /\ size[c] \in Nat
      /\ start_pos[c] \in Nat /\ got[c] \in Seq(Nat) /\ Len(got[c]) \in Nat
      /\ data[c] \in [Cells -> Nat]
  BY <1>1, ConnTypes
<1>3. /\ sock[c] = "open" /\ want_write[c]
      /\ start_pos[c] + size[c] <= MAX_DATA_LEN /\ b \in 0..size[c]
  BY DEF OnWritable
<1>4. left \in Nat /\ b \in Nat
  BY <1>2, <1>3
<1>5. /\ got' = [got EXCEPT ![c] = @ \o Held(data[c], start_pos[c], b)]
      /\ size' = [size EXCEPT ![c] = left]
      /\ start_pos' = [start_pos EXCEPT ![c] = NextPos(@, b, left)]
      /\ AfterWrite(s, left)
      /\ want_write' = [want_write EXCEPT ![c] = left > 0]
      /\ UNCHANGED <<sock, sent, taken, data, connVars, lost_bytes>>
  BY DEF OnWritable, Left
<1> HIDE DEF left, s
<1>6. size[c] > 0 /\ taken[c] = sent[c]
  BY <1>1, <1>3 DEF Conn
<1>7. Placed(Len(got[c]), start_pos[c], size[c], sent[c], sent[c])
  BY <1>1, <1>6 DEF Conn
<1>8. Len(got[c]) < sent[c]
  BY <1>2, <1>6, <1>7 DEF Placed
<1>9. Held(data[c], start_pos[c], b) \in Seq(Nat)
  <2>1. start_pos[c] + b <= MAX_DATA_LEN
    BY <1>2, <1>3, <1>4, LenOK
  <2> QED
    BY <1>2, <1>4, <2>1, HeldIs
<1>10. got[c] \o Held(data[c], start_pos[c], b) \in Seq(Nat)
  BY <1>2, <1>9
<1>11. NextPos(start_pos[c], b, left) \in Nat
  BY <1>2, <1>4 DEF NextPos
<1>12. Callback(c)
  <2>1. /\ got' \in [Conns -> Seq(Nat)] /\ size' \in [Conns -> Nat]
        /\ start_pos' \in [Conns -> Nat] /\ want_write' \in [Conns -> BOOLEAN]
        /\ taken' \in [Conns -> Nat] /\ data' \in [Conns -> [Cells -> Nat]]
    BY <1>1, <1>4, <1>5, <1>10, <1>11 DEF UsTypeOK
  <2>2. \A d \in Conns : d # c => Same(d)
    BY <1>1, <1>5 DEF Same, UsTypeOK
  <2> QED
    BY <1>3, <1>5, <2>1, <2>2 DEF Callback
<1>13. /\ s \in Counters
       /\ s.recv_bytes = stats.recv_bytes + 0
       /\ s.send_bytes = stats.send_bytes + b
       /\ s.send_msg = stats.send_msg
  <2>1. stats \in Counters /\ stats.recv_bytes \in Nat
    BY <1>1, CounterTypes, CountersAre
  <2>2. /\ s \in Counters
        /\ s.recv_bytes = stats.recv_bytes
        /\ s.send_bytes = stats.send_bytes + b
        /\ s.send_msg = stats.send_msg
    BY <1>4, <2>1, CountsOK DEF s
  <2> QED
    BY <2>1, <2>2
<1>14. Flushes(c, 0, size[c], b, left, s)
  <2>1. InOrder(got[c], data'[c], start_pos[c], size[c])
    BY <1>1, <1>5 DEF Conn
  <2>2. got'[c] = Echo(got[c], data'[c], start_pos[c], b)
    BY <1>1, <1>5 DEF Echo, UsTypeOK
  <2>3. /\ start_pos'[c] = NextPos(start_pos[c], b, left)
        /\ size'[c] = left /\ taken'[c] = sent[c]
        /\ want_write'[c] => left > 0
    BY <1>1, <1>5, <1>6 DEF UsTypeOK
  <2>4. left = size[c] - b /\ size[c] = size[c] + 0
    BY <1>2 DEF left
  <2> QED
    BY <1>5, <1>7, <1>13, <2>1, <2>2, <2>3, <2>4 DEF Flushes
<1>15. 0 \in Nat
  OBVIOUS
<1> QED
  BY <1>2, <1>3, <1>8, <1>12, <1>13, <1>14, <1>15, FlushStep

\* A read that goes to the Buffer: it follows what is there.
LEMMA Appended ==
    ASSUME UsTypeOK, NEW c \in Conns, Conn(c), NEW length \in 1..(sent[c] - taken[c]),
           NEW e, e = Copied(data[c], size[c], Arriving(c, length))
    PROVE  /\ start_pos[c] = 0 /\ Len(got[c]) < sent[c]
           /\ size[c] + length <= MAX_DATA_LEN
           /\ size[c] + (sent[c] - taken[c]) <= MAX_DATA_LEN
           /\ taken[c] + length <= sent[c]
           /\ e \in [Cells -> Nat]
           /\ Placed(Len(got[c]), 0, size[c] + length, taken[c] + length, sent[c])
           /\ InOrder(got[c], e, 0, size[c] + length)
<1>1. /\ sent[c] \in Nat /\ taken[c] \in Nat /\ size[c] \in Nat
      /\ start_pos[c] \in Nat /\ got[c] \in Seq(Nat) /\ Len(got[c]) \in Nat
      /\ data[c] \in [Cells -> Nat] /\ length \in Nat /\ length > 0
  BY ConnTypes
<1>2. /\ Placed(Len(got[c]), start_pos[c], size[c], taken[c], sent[c])
      /\ InOrder(got[c], data[c], start_pos[c], size[c])
  BY DEF Conn
<1>3. length <= sent[c] - taken[c] /\ taken[c] < sent[c] /\ taken[c] + length <= sent[c]
  BY <1>1
<1>4. /\ start_pos[c] = 0 /\ Len(got[c]) < sent[c]
      /\ size[c] + (sent[c] - taken[c]) <= MAX_DATA_LEN
  BY <1>1, <1>2, <1>3, PlacedUnread
<1>5. size[c] + length <= MAX_DATA_LEN
  BY <1>1, <1>3, <1>4, LenOK
<1>6. Len(got[c]) + size[c] = taken[c]
  BY <1>2 DEF Placed
<1>7. Placed(Len(got[c]), 0, size[c] + length, taken[c] + length, sent[c])
  <2> DEFINE y == size[c] + length
             r == taken[c] + length
             n == Len(got[c])
  <2>1. y \in Nat /\ r \in Nat /\ taken[c] < r /\ r <= sent[c] /\ n + y = r /\ n \in Nat
    BY <1>1, <1>3, <1>6, SMTT(30)
  <2>2. Placed(n, start_pos[c], size[c], taken[c], sent[c])
    BY <1>2
  <2> HIDE DEF y, r, n
  <2>3. Placed(n, start_pos[c], y, r, sent[c])
    BY <1>1, <2>1, <2>2, PlacedPart
  <2> QED
    BY <1>4, <2>3 DEF y, r, n
<1>8. e \in [Cells -> Nat] /\ InOrder(got[c], e, 0, size[c] + length)
  <2> DEFINE bytes == Arriving(c, length)
  <2>1. bytes \in Seq(Nat) /\ Len(bytes) = length
    BY <1>1, ArrivingIs
  <2>2. \A i \in 1..Len(bytes) : bytes[i] = (Len(got[c]) + size[c]) + i
    BY <1>1, <1>6, <2>1, ArrivingIs, SMTT(30)
  <2>3. InOrder(got[c], data[c], 0, size[c])
    BY <1>2, <1>4
  <2>4. size[c] + Len(bytes) <= MAX_DATA_LEN
    BY <1>5, <2>1
  <2>5. e = Copied(data[c], size[c], bytes)
    OBVIOUS
  <2> HIDE DEF bytes
  <2>6. e \in [Cells -> Nat]
    BY <1>1, <2>1, <2>5, CopiedIs
  <2>7. InOrder(got[c], e, 0, size[c] + Len(bytes))
    BY <1>1, <2>1, <2>2, <2>3, <2>4, <2>5, OrderPart
  <2> QED
    BY <2>1, <2>6, <2>7
<1> QED
  BY <1>3, <1>4, <1>5, <1>7, <1>8

\* A read that fills the Buffer leaves nothing to read.
LEMMA ReadsAll ==
    ASSUME NEW z \in Nat, NEW a \in Nat, NEW s \in Nat, NEW k \in Nat, NEW m,
           z + (s - a) <= m, z + k = m, k <= s - a, k > 0
    PROVE  a + k = s
OBVIOUS

\* The read that completes a message: the Buffer is written from its front.
LEMMA LastStep ==
    ASSUME UsInv, NEW c \in Conns, NEW length \in 1..sent[c], NEW b \in 0..MAX_DATA_LEN,
           OnDataLast(c, length, b)
    PROVE  UsInv'
<1> DEFINE left == MAX_DATA_LEN - b
           e == Copied(data[c], size[c], Arriving(c, length))
           s == CountWritten(CountRead(stats, length), b)
<1>1. UsTypeOK /\ Conn(c)
  BY DEF UsInv
<1>2. /\ sent[c] \in Nat /\ taken[c] \in Nat /\ size[c] \in Nat
      /\ start_pos[c] \in Nat /\ got[c] \in Seq(Nat) /\ Len(got[c]) \in Nat
      /\ data[c] \in [Cells -> Nat]
  BY <1>1, ConnTypes
<1>3. left \in Nat /\ b \in Nat /\ MAX_DATA_LEN \in Nat /\ length \in Nat
  BY <1>2, LenOK
<1>4. /\ sock[c] = "open" /\ length \in 1..(sent[c] - taken[c])
      /\ taken' = [taken EXCEPT ![c] = @ + length]
      /\ size[c] + length = MAX_DATA_LEN
  BY DEF OnDataLast, Delivered, Completes
<1>5. /\ data' = [data EXCEPT ![c] = e]
      /\ got' = [got EXCEPT ![c] = @ \o Held(e, 0, b)]
      /\ start_pos' = [start_pos EXCEPT ![c] = NextPos(@, b, left)]
      /\ size' = [size EXCEPT ![c] = left]
      /\ AfterWrite(s, left)
      /\ want_write' = [want_write EXCEPT ![c] = @ \/ left > 0]
      /\ UNCHANGED <<sock, sent, connVars, lost_bytes>>
  BY DEF OnDataLast, Left, AppendAt
<1>6. /\ start_pos[c] = 0 /\ Len(got[c]) < sent[c]
      /\ size[c] + (sent[c] - taken[c]) <= MAX_DATA_LEN
      /\ e \in [Cells -> Nat]
      /\ Placed(Len(got[c]), 0, size[c] + length, taken[c] + length, sent[c])
      /\ InOrder(got[c], e, 0, size[c] + length)
  BY <1>1, <1>4, Appended
<1> HIDE DEF left, s, e
<1>7. taken[c] + length = sent[c] /\ taken[c] # sent[c]
  <2>1. /\ size[c] + (sent[c] - taken[c]) <= MAX_DATA_LEN
        /\ size[c] + length = MAX_DATA_LEN
    BY <1>4, <1>6
  <2>2. length <= sent[c] - taken[c] /\ length > 0
    BY <1>2, <1>4
  <2> QED
    <3>1. taken[c] + length = sent[c]
      BY <1>2, <1>3, <2>1, <2>2, ReadsAll
    <3>2. taken[c] # sent[c]
      BY <1>2, <2>2
    <3> QED
      BY <3>1, <3>2
<1>8. Held(e, 0, b) \in Seq(Nat)
  <2>1. 0 + b <= MAX_DATA_LEN /\ 0 \in Nat
    BY <1>3
  <2> QED
    BY <1>3, <1>6, <2>1, HeldIs
<1>9. got[c] \o Held(e, 0, b) \in Seq(Nat)
  BY <1>2, <1>8
<1>10. NextPos(start_pos[c], b, left) \in Nat
  BY <1>2, <1>3 DEF NextPos
<1>11. Callback(c)
  <2>1. /\ got' \in [Conns -> Seq(Nat)] /\ size' \in [Conns -> Nat]
        /\ start_pos' \in [Conns -> Nat] /\ want_write' \in [Conns -> BOOLEAN]
        /\ data' \in [Conns -> [Cells -> Nat]]
    BY <1>1, <1>3, <1>5, <1>6, <1>9, <1>10 DEF UsTypeOK
  <2>2. taken' \in [Conns -> Nat]
    BY <1>1, <1>2, <1>3, <1>4 DEF UsTypeOK
  <2>3. \A d \in Conns : d # c => Same(d)
    BY <1>1, <1>4, <1>5 DEF Same, UsTypeOK
  <2> QED
    BY <1>4, <1>5, <2>1, <2>2, <2>3 DEF Callback
<1>12. /\ s \in Counters
       /\ s.recv_bytes = stats.recv_bytes + length
       /\ s.send_bytes = stats.send_bytes + b
       /\ s.send_msg = stats.send_msg
  <2> DEFINE r == CountRead(stats, length)
  <2>1. /\ r \in Counters /\ r.recv_bytes = stats.recv_bytes + length
        /\ r.send_bytes = stats.send_bytes /\ r.send_msg = stats.send_msg
    BY <1>1, <1>3, CounterTypes, CountsOK
  <2>2. s = CountWritten(r, b)
    BY DEF s
  <2> HIDE DEF r
  <2>3. /\ CountWritten(r, b) \in Counters
        /\ CountWritten(r, b).recv_bytes = r.recv_bytes
        /\ CountWritten(r, b).send_bytes = r.send_bytes + b
        /\ CountWritten(r, b).send_msg = r.send_msg
    BY <1>3, <2>1, CountsOK
  <2> QED
    BY <2>1, <2>2, <2>3
<1>13. Flushes(c, length, MAX_DATA_LEN, b, left, s)
  <2>1. data'[c] = e /\ start_pos'[c] = NextPos(start_pos[c], b, left)
    BY <1>1, <1>5 DEF UsTypeOK
  <2>2. got'[c] = Echo(got[c], data'[c], start_pos[c], b)
    <3>1. got'[c] = got[c] \o Held(e, 0, b)
      BY <1>1, <1>5 DEF UsTypeOK
    <3> QED
      BY <1>6, <2>1, <3>1 DEF Echo
  <2>3. size'[c] = left
    BY <1>1, <1>5 DEF UsTypeOK
  <2>4. taken'[c] = sent[c]
    BY <1>1, <1>4, <1>7 DEF UsTypeOK
  <2>5. want_write'[c] => left > 0
    <3>1. ~want_write[c]
      BY <1>1, <1>7 DEF Conn
    <3> QED
      BY <1>1, <1>5, <3>1 DEF UsTypeOK
  <2>6. Placed(Len(got[c]), start_pos[c], MAX_DATA_LEN, sent[c], sent[c])
    BY <1>4, <1>6, <1>7
  <2>7. InOrder(got[c], data'[c], start_pos[c], MAX_DATA_LEN)
    BY <1>4, <1>6, <2>1
  <2>8. left = MAX_DATA_LEN - b
    BY DEF left
  <2> QED
    BY <1>4, <1>5, <1>12, <2>1, <2>2, <2>3, <2>4, <2>5, <2>6, <2>7, <2>8 DEF Flushes
<1> QED
  BY <1>3, <1>6, <1>11, <1>12, <1>13, FlushStep

\* A read that completes none: nothing is written and no echo is counted.
LEMMA PartStep ==
    ASSUME UsInv, NEW c \in Conns, NEW length \in 1..sent[c], OnDataPart(c, length)
    PROVE  UsInv'
<1> DEFINE e == Copied(data[c], size[c], Arriving(c, length))
           s == CountRead(stats, length)
<1>1. UsTypeOK /\ Conn(c)
  BY DEF UsInv
<1>2. /\ sent[c] \in Nat /\ taken[c] \in Nat /\ size[c] \in Nat
      /\ start_pos[c] \in Nat /\ got[c] \in Seq(Nat) /\ Len(got[c]) \in Nat
  BY <1>1, ConnTypes
<1>3. length \in Nat /\ length > 0
  BY <1>2
<1>4. /\ sock[c] = "open" /\ length \in 1..(sent[c] - taken[c])
      /\ taken' = [taken EXCEPT ![c] = @ + length]
      /\ data' = [data EXCEPT ![c] = e]
      /\ size' = [size EXCEPT ![c] = @ + length]
      /\ stats' = s
      /\ UNCHANGED <<sock, sent, got, start_pos, want_write, connVars, rows,
                     lost_bytes>>
  BY DEF OnDataPart, Delivered, AppendAt
<1>5. /\ start_pos[c] = 0
      /\ e \in [Cells -> Nat]
      /\ Placed(Len(got[c]), 0, size[c] + length, taken[c] + length, sent[c])
      /\ InOrder(got[c], e, 0, size[c] + length)
  BY <1>1, <1>4, Appended
<1> HIDE DEF e
<1>6. /\ s \in Counters /\ s.recv_bytes = stats.recv_bytes + length
      /\ s.send_bytes = stats.send_bytes /\ s.send_msg = stats.send_msg
  BY <1>1, <1>3, CounterTypes, CountsOK
<1> HIDE DEF s
<1>7. UsTypeOK'
  BY <1>1, <1>2, <1>3, <1>4, <1>5, <1>6 DEF UsTypeOK, connVars
<1>8. \A d \in Conns : d # c => Same(d)
  BY <1>1, <1>4 DEF Same, UsTypeOK
<1>9. /\ taken'[c] = taken[c] + length /\ data'[c] = e /\ size'[c] = size[c] + length
      /\ got'[c] = got[c] /\ sent'[c] = sent[c] /\ start_pos'[c] = start_pos[c]
      /\ want_write'[c] = want_write[c] /\ sock'[c] = "open"
  BY <1>1, <1>4 DEF UsTypeOK
<1>10. Conn(c)'
  <2>1. ~want_write[c]
    <3>1. taken[c] # sent[c]
      BY <1>2, <1>4
    <3> QED
      BY <1>1, <3>1 DEF Conn
  <2>2. Placed(Len(got'[c]), start_pos'[c], size'[c], taken'[c], sent'[c])
    BY <1>5, <1>9
  <2>3. InOrder(got'[c], data'[c], start_pos'[c], size'[c])
    BY <1>5, <1>9
  <2>4. sock'[c] # "none" /\ ~want_write'[c]
    BY <1>9, <2>1
  <2> QED
    BY <2>2, <2>3, <2>4 DEF Conn
<1>11. \A d \in Conns : Conn(d)'
  <2>1. \A d \in Conns : Conn(d)
    BY DEF UsInv
  <2> QED
    BY <1>8, <1>10, <2>1, ConnFrame
<1>12. Received' = Received + length /\ Written' = Written + 0 /\ Echoed' = Echoed + 0
  <2>1. stats \in Counters /\ rows \in Counters
    BY <1>1, CounterTypes
  <2>2. 0 \in Nat /\ stats.send_bytes + 0 = stats.send_bytes
                  /\ stats.send_msg + 0 = stats.send_msg
    BY <2>1, CountersAre
  <2>3. /\ Received + length = rows.recv_bytes + (stats.recv_bytes + length)
        /\ Written + 0 = rows.send_bytes + (stats.send_bytes + 0)
        /\ Echoed + 0 = rows.send_msg + (stats.send_msg + 0)
    BY <1>3, <2>1, <2>2, TotalsGrow
  <2>4. /\ Received' = rows.recv_bytes + s.recv_bytes
        /\ Written' = rows.send_bytes + s.send_bytes
        /\ Echoed' = rows.send_msg + s.send_msg
    BY <1>4 DEF Received, Written, Echoed
  <2> QED
    BY <1>6, <2>2, <2>3, <2>4
<1>13. UsBytesBalance'
  <2>1. 0 \in Nat /\ size[c] + length = size'[c] + 0
    BY <1>2, <1>3, <1>9
  <2>2. UsBytesBalance /\ lost_bytes' = lost_bytes
    BY <1>4 DEF UsInv
  <2> QED
    BY <1>1, <1>3, <1>4, <1>7, <1>8, <1>9, <1>12, <2>1, <2>2, BalanceChange
<1>14. EchoesCounted'
  <2>1. Len(got'[c]) \div MAX_DATA_LEN = (Len(got[c]) \div MAX_DATA_LEN) + 0
    <3>1. Len(got[c]) \div MAX_DATA_LEN \in Nat
      BY <1>2, LenOK, DivMod
    <3> QED
      BY <1>9, <3>1
  <2>2. EchoesCounted /\ 0 \in Nat /\ \A d \in Conns : d # c => got'[d] = got[d]
    BY <1>4 DEF UsInv
  <2> QED
    BY <1>1, <1>7, <1>12, <2>1, <2>2, EchoesChange
<1> QED
  BY <1>7, <1>11, <1>13, <1>14 DEF UsInv

\* A step that counts nothing and moves no byte keeps the totals.
LEMMA QuietTotals ==
    ASSUME UsInv, UsTypeOK', NEW c \in Conns, \A d \in Conns : d # c => Same(d),
           stats' = stats, rows' = rows, got' = got,
           OwnBytes(c)' + lost_bytes' = OwnBytes(c) + lost_bytes
    PROVE  UsBytesBalance' /\ EchoesCounted'
<1>1. UsTypeOK /\ UsBytesBalance /\ EchoesCounted
  BY DEF UsInv
<1>2. UsBytesBalance'
  <2>1. /\ BufferBytes' = BufferBytes - OwnBytes(c) + OwnBytes(c)'
        /\ BufferBytes \in Nat /\ BufferBytes' \in Nat
        /\ OwnBytes(c) \in Nat /\ OwnBytes(c)' \in Nat
    BY <1>1, BufferChange
  <2>2. Received \in Nat /\ Written \in Nat /\ lost_bytes \in Nat
    BY <1>1, CounterTypes
  <2>3. lost_bytes' \in Nat
    BY DEF UsTypeOK
  <2>4. Received = Written + BufferBytes + lost_bytes
    BY <1>1 DEF UsBytesBalance, Received, Written
  <2>5. UsBytesBalance' <=> Received = Written + BufferBytes' + lost_bytes'
    BY DEF UsBytesBalance, Received, Written
  <2> HIDE DEF Received, Written
  <2>6. BufferBytes' + lost_bytes' = BufferBytes + lost_bytes
    BY <2>1, <2>2, <2>3
  <2>7. Received = Written + BufferBytes' + lost_bytes'
    BY <2>1, <2>2, <2>3, <2>4, <2>6
  <2> QED
    BY <2>5, <2>7
<1>3. EchoesCounted'
  BY <1>1 DEF EchoesCounted
<1> QED
  BY <1>2, <1>3

\* A client waits for its echo, so that it sends when nothing is under way.
LEMMA ClientStep ==
    ASSUME PIPELINE = 1, UsInv, NEW c \in Conns, ClientSends(c)
    PROVE  UsInv'
<1>1. UsTypeOK /\ Conn(c) /\ \A d \in Conns : Conn(d)
  BY DEF UsInv
<1>2. /\ sent[c] \in Nat /\ taken[c] \in Nat /\ size[c] \in Nat
      /\ start_pos[c] \in Nat /\ got[c] \in Seq(Nat) /\ Len(got[c]) \in Nat
  BY <1>1, ConnTypes
<1>3. /\ sock[c] = "open" /\ sent' = [sent EXCEPT ![c] = @ + MAX_DATA_LEN]
      /\ UNCHANGED <<sock, taken, got, bufVars, want_write, connVars, statVars>>
      /\ sent[c] - Len(got[c]) <= (PIPELINE - 1) * MAX_DATA_LEN
  BY DEF ClientSends
<1>4. sent[c] - Len(got[c]) <= 0
  <2>1. (1 - 1) * MAX_DATA_LEN = 0
    BY LenOK
  <2> QED
    BY <1>3, <2>1
<1>5. UsTypeOK'
  BY <1>1, <1>2, <1>3, LenOK DEF UsTypeOK, bufVars, connVars, statVars
<1>6. \A d \in Conns : d # c => Same(d)
  BY <1>1, <1>3 DEF Same, UsTypeOK, bufVars
<1>7. sent'[c] = sent[c] + MAX_DATA_LEN
  BY <1>1, <1>3 DEF UsTypeOK
<1>8. size[c] = 0 /\ Placed(Len(got[c]), start_pos[c], size[c], taken[c], sent'[c])
  <2>1. Placed(Len(got[c]), start_pos[c], size[c], taken[c], sent[c])
    BY <1>1 DEF Conn
  <2> QED
    BY <1>2, <1>4, <1>7, <2>1, PlacedSent
<1>9. Conn(c)'
  <2>1. ~want_write[c]
    BY <1>1, <1>8 DEF Conn
  <2> QED
    BY <1>1, <1>3, <1>8, <2>1 DEF Conn, bufVars
<1>10. \A d \in Conns : Conn(d)'
  BY <1>1, <1>6, <1>9, ConnFrame
<1>11. OwnBytes(c)' + lost_bytes' = OwnBytes(c) + lost_bytes
  BY <1>3 DEF OwnBytes, bufVars, statVars
<1>12. UsBytesBalance' /\ EchoesCounted'
  BY <1>3, <1>5, <1>6, <1>11, QuietTotals DEF statVars
<1> QED
  BY <1>5, <1>10, <1>12 DEF UsInv

\* A connection opens with an empty Buffer.
LEMMA OpenStep ==
    ASSUME UsInv, NEW c \in Conns, OnOpen(c)
    PROVE  UsInv'
<1>1. UsTypeOK /\ Conn(c) /\ \A d \in Conns : Conn(d)
  BY DEF UsInv
<1>2. /\ sent[c] \in Nat /\ taken[c] \in Nat /\ size[c] \in Nat
      /\ start_pos[c] \in Nat /\ got[c] \in Seq(Nat) /\ Len(got[c]) \in Nat
  BY <1>1, ConnTypes
<1>3. /\ sock[c] = "none" /\ sock' = [sock EXCEPT ![c] = "open"]
      /\ start_pos' = [start_pos EXCEPT ![c] = 0]
      /\ size' = [size EXCEPT ![c] = 0]
      /\ active_conns_in_ctx' = [active_conns_in_ctx EXCEPT ![c] = 1]
      /\ dup_act_conns' = 1
      /\ active_connections' = active_connections + 1
      /\ UNCHANGED <<sent, taken, got, data, want_write, statVars>>
  BY DEF OnOpen
<1>4. Placed(Len(got[c]), start_pos[c], size[c], taken[c], sent[c]) /\ sent[c] = 0
  BY <1>1, <1>3 DEF Conn
<1>5. size[c] = 0 /\ start_pos[c] = 0
  BY <1>2, <1>4 DEF Placed
<1>6. start_pos' = start_pos /\ size' = size
  BY <1>1, <1>3, <1>5 DEF UsTypeOK
<1>7. UsTypeOK'
  BY <1>1, <1>3, <1>6 DEF UsTypeOK, statVars
<1>8. \A d \in Conns : d # c => Same(d)
  BY <1>1, <1>3, <1>6 DEF Same, UsTypeOK
<1>9. sock'[c] = "open"
  BY <1>1, <1>3 DEF UsTypeOK
<1>10. Conn(c)'
  BY <1>1, <1>3, <1>6, <1>9 DEF Conn
<1>11. \A d \in Conns : Conn(d)'
  BY <1>1, <1>8, <1>10, ConnFrame
<1>12. OwnBytes(c)' + lost_bytes' = OwnBytes(c) + lost_bytes
  BY <1>3, <1>5, <1>6, <1>9 DEF OwnBytes, statVars
<1>13. UsBytesBalance' /\ EchoesCounted'
  BY <1>3, <1>7, <1>8, <1>12, QuietTotals DEF statVars
<1> QED
  BY <1>7, <1>11, <1>13 DEF UsInv

\* A connection closes, and what is in its Buffer is lost.
LEMMA CloseStep ==
    ASSUME UsInv, NEW c \in Conns, OnClose(c)
    PROVE  UsInv'
<1>1. UsTypeOK /\ Conn(c) /\ \A d \in Conns : Conn(d)
  BY DEF UsInv
<1>2. size[c] \in Nat /\ lost_bytes \in Nat
  BY <1>1, ConnTypes, CounterTypes
<1>3. /\ sock[c] = "open" /\ sock' = [sock EXCEPT ![c] = "closed"]
      /\ active_connections' = active_connections - 1
      /\ active_conns_in_ctx' = [active_conns_in_ctx EXCEPT ![c] = @ - 1]
      /\ dup_act_conns' = active_conns_in_ctx[c] - 1
      /\ lost_bytes' = lost_bytes + size[c]
      /\ UNCHANGED <<sent, taken, got, bufVars, want_write, stats, rows>>
  BY DEF OnClose
<1>4. UsTypeOK'
  <2>1. active_conns_in_ctx[c] \in Int /\ active_connections \in Int
    BY <1>1 DEF UsTypeOK
  <2> QED
    BY <1>1, <1>2, <1>3, <2>1, SMTT(30) DEF UsTypeOK, bufVars
<1>5. \A d \in Conns : d # c => Same(d)
  BY <1>1, <1>3 DEF Same, UsTypeOK, bufVars
<1>6. sock'[c] = "closed"
  BY <1>1, <1>3 DEF UsTypeOK
<1>7. Conn(c)'
  BY <1>1, <1>3, <1>6 DEF Conn, bufVars
<1>8. \A d \in Conns : Conn(d)'
  BY <1>1, <1>5, <1>7, ConnFrame
<1>9. OwnBytes(c)' + lost_bytes' = OwnBytes(c) + lost_bytes
  <2>1. OwnBytes(c) = size[c] /\ OwnBytes(c)' = 0
    BY <1>3, <1>6 DEF OwnBytes
  <2> QED
    BY <1>2, <1>3, <2>1
<1>10. UsBytesBalance' /\ EchoesCounted'
  BY <1>3, <1>4, <1>5, <1>9, QuietTotals
<1> QED
  BY <1>4, <1>8, <1>10 DEF UsInv

\* A sum of nothing.
LEMMA SumOfZeros ==
    ASSUME NEW S, IsFiniteSet(S), NEW f, \A x \in S : f[x] = 0
    PROVE  SumOver(f, S) = 0
<1>1. SumOver(f, S) = Cardinality(S) * 0 /\ Cardinality(S) \in Nat
  BY 0 \in Nat, SumOfConstant, FS_CardinalityType
<1> QED
  BY <1>1

\* Before the first connection the invariant holds.
LEMMA InitUs == Init => UsInv
<1> SUFFICES ASSUME Init PROVE UsInv
  OBVIOUS
<1>1. UsTypeOK
  BY LenOK DEF Init, UsTypeOK, Counters, NoTraffic
<1>2. ASSUME NEW c \in Conns PROVE Conn(c)
  <2>1. /\ got[c] = <<>> /\ start_pos[c] = 0 /\ size[c] = 0 /\ taken[c] = 0
        /\ sent[c] = 0 /\ ~want_write[c] /\ Len(<<>>) = 0
    BY <1>2 DEF Init
  <2>2. 0 % MAX_DATA_LEN = 0
    BY LenOK
  <2>3. Placed(0, 0, 0, 0, 0)
    BY <2>2, LenOK DEF Placed
  <2>4. InOrder(<<>>, data[c], 0, 0)
    BY DEF InOrder
  <2> QED
    BY <2>1, <2>3, <2>4 DEF Conn
<1>3. UsBytesBalance
  <2>1. BufferBytes = 0
    <3> DEFINE f == [c \in Conns |-> IF sock[c] = "open" THEN size[c] ELSE 0]
    <3>1. \A c \in Conns : f[c] = 0
      BY DEF Init
    <3>2. BufferBytes = SumOver(f, Conns)
      BY DEF BufferBytes
    <3> HIDE DEF f
    <3> QED
      BY <3>1, <3>2, LenOK, SumOfZeros
  <2> QED
    BY <2>1 DEF Init, UsBytesBalance, NoTraffic
<1>4. EchoesCounted
  <2> DEFINE f == [c \in Conns |-> Len(got[c]) \div MAX_DATA_LEN]
  <2>1. 0 \div MAX_DATA_LEN = 0 /\ Len(<<>>) = 0
    BY LenOK
  <2>2. \A c \in Conns : f[c] = 0
    BY <2>1 DEF Init
  <2>3. EchoesCounted <=> rows.send_msg + stats.send_msg = SumOver(f, Conns)
    BY DEF EchoesCounted
  <2> HIDE DEF f
  <2>4. SumOver(f, Conns) = 0
    BY <2>2, LenOK, SumOfZeros
  <2> QED
    BY <2>3, <2>4 DEF Init, NoTraffic
<1> QED
  BY <1>1, <1>2, <1>3, <1>4 DEF UsInv

\* Every callback, and every step of a client that waits for its echo, keeps it.
LEMMA NextUs ==
    ASSUME PIPELINE = 1
    PROVE  UsInv /\ [Next]_vars => UsInv'
<1> SUFFICES ASSUME UsInv, [Next]_vars PROVE UsInv'
  OBVIOUS
<1>1. ASSUME NEW c \in Conns, ConnStep(c) PROVE UsInv'
  BY <1>1, ClientStep, OpenStep, CloseStep DEF ConnStep
<1>2. ASSUME NEW c \in Conns, Serve(c) PROVE UsInv'
  BY <1>2, WholeStep, PartStep, LastStep, WritableStep DEF Serve
<1>3. ASSUME UNCHANGED vars PROVE UsInv'
  <2>1. /\ sock' = sock /\ sent' = sent /\ taken' = taken /\ got' = got /\ data' = data
        /\ start_pos' = start_pos /\ size' = size /\ want_write' = want_write
        /\ active_conns_in_ctx' = active_conns_in_ctx
        /\ active_connections' = active_connections
        /\ dup_act_conns' = dup_act_conns /\ stats' = stats /\ rows' = rows
        /\ lost_bytes' = lost_bytes
    BY <1>3 DEF vars, bufVars, connVars, statVars
  <2>2. UsTypeOK /\ UsBytesBalance /\ EchoesCounted /\ \A c \in Conns : Conn(c)
    BY DEF UsInv
  <2>3. UsTypeOK'
    BY <2>1, <2>2 DEF UsTypeOK
  <2>4. UsBytesBalance' /\ EchoesCounted'
    BY <2>1, <2>2 DEF UsBytesBalance, EchoesCounted, BufferBytes
  <2>5. \A c \in Conns : Conn(c)'
    BY <2>1, <2>2 DEF Conn
  <2> QED
    BY <2>3, <2>4, <2>5 DEF UsInv
<1> QED
  BY <1>1, <1>2, <1>3 DEF Next

-----------------------------------------------------------------------------
(* The theorems.                                                           *)

\* The inductive invariant holds, however the reads and writes cut the messages and
\* whichever connections close.
THEOREM UsInvariance ==
    ASSUME PIPELINE = 1
    PROVE  Spec => []UsInv
BY InitUs, NextUs, PTL DEF Spec

\* The variables stay of their types.
THEOREM UsTypeCorrect ==
    ASSUME PIPELINE = 1
    PROVE  Spec => []UsTypeOK
<1>1. UsInv => UsTypeOK
  BY DEF UsInv
<1> QED
  BY <1>1, UsInvariance, PTL

\* No memcpy and no write leaves a Buffer, :180 and :111: the client's waiting is
\* what the missing checks rely on.
THEOREM NoBufferOverflows ==
    ASSUME PIPELINE = 1
    PROVE  Spec => []InBounds
<1>1. UsInv => InBounds
  <2> SUFFICES ASSUME UsInv, NEW c \in Conns
               PROVE  /\ start_pos[c] + size[c] <= MAX_DATA_LEN
                      /\ size[c] + sent[c] - taken[c] <= MAX_DATA_LEN
    BY DEF InBounds
  <2>1. UsTypeOK /\ Conn(c)
    BY DEF UsInv
  <2>2. /\ sent[c] \in Nat /\ taken[c] \in Nat /\ size[c] \in Nat
        /\ Len(got[c]) \in Nat
    BY <2>1, ConnTypes
  <2>3. /\ start_pos[c] + size[c] <= MAX_DATA_LEN
        /\ Len(got[c]) + size[c] = taken[c] /\ sent[c] <= Len(got[c]) + MAX_DATA_LEN
    BY <2>1 DEF Conn, Placed
  <2>4. size[c] + sent[c] - taken[c] <= MAX_DATA_LEN
    BY <2>2, <2>3, LenOK
  <2> QED
    BY <2>3, <2>4
<1> QED
  BY <1>1, UsInvariance, PTL

\* Bytes received are echoed, in the Buffer, or lost with their connection.
THEOREM UsBytesBalanced ==
    ASSUME PIPELINE = 1
    PROVE  Spec => []UsBytesBalance
<1>1. UsInv => UsBytesBalance
  BY DEF UsInv
<1> QED
  BY <1>1, UsInvariance, PTL

\* send_msg counts the whole messages that are out, on each of the three paths.
THEOREM EchoesAreCounted ==
    ASSUME PIPELINE = 1
    PROVE  Spec => []EchoesCounted
<1>1. UsInv => EchoesCounted
  BY DEF UsInv
<1> QED
  BY <1>1, UsInvariance, PTL

\* Two pieces of the client's stream, one after the other, are in order.
LEMMA JoinedInOrder ==
    ASSUME NEW f \in Seq(Nat), NEW g \in Seq(Nat), \A i \in 1..Len(f) : f[i] = i,
           \A j \in 1..Len(g) : g[j] = Len(f) + j
    PROVE  \A i \in 1..Len(f \o g) : (f \o g)[i] = i
<1> DEFINE h == f \o g
<1>1. /\ Len(h) = Len(f) + Len(g) /\ Len(f) \in Nat /\ Len(g) \in Nat
      /\ \A i \in 1..Len(f) : h[i] = f[i]
      /\ \A j \in 1..Len(g) : h[Len(f) + j] = g[j]
  BY JoinedIs
<1> HIDE DEF h
<1>2. ASSUME NEW i \in 1..Len(h) PROVE h[i] = i
  <2>1. CASE i \in 1..Len(f)
    BY <1>1, <2>1
  <2>2. CASE i \notin 1..Len(f)
    <3>1. i \in 1..(Len(f) + Len(g))
      BY <1>1
    <3>2. i - Len(f) \in 1..Len(g) /\ i = Len(f) + (i - Len(f))
      BY <1>1, <2>2, <3>1
    <3> QED
      BY <1>1, <3>2
  <2> QED
    BY <2>1, <2>2
<1> QED
  BY <1>2 DEF h

\* The whole stream.
LEMMA StreamIs ==
    ASSUME NEW g \in Seq(Nat), NEW h \in Seq(Nat), NEW t \in Nat, NEW s \in Nat, t <= s,
           Len(g) + Len(h) = t, \A i \in 1..Len(g) : g[i] = i,
           \A j \in 1..Len(h) : h[j] = Len(g) + j
    PROVE  g \o h \o Bytes(t, s) = Bytes(0, s)
<1> DEFINE x == g \o h
           r == Bytes(t, s)
           y == x \o r
<1>1. x \in Seq(Nat) /\ Len(x) = t /\ \A i \in 1..Len(x) : x[i] = i
  BY JoinedIs, JoinedInOrder
<1>2. r \in Seq(Nat) /\ Len(r) = s - t /\ \A j \in 1..Len(r) : r[j] = t + j
  <2> DEFINE k == s - t
  <2>1. r \in [1..k -> Nat] /\ k \in Nat /\ \A j \in 1..k : r[j] = t + j
    BY DEF Bytes
  <2> HIDE DEF k, r
  <2>2. r \in Seq(Nat) /\ Len(r) = k
    BY <2>1
  <2> QED
    BY <2>1, <2>2 DEF k
<1> HIDE DEF x, r
<1>3. y \in Seq(Nat) /\ Len(y) = s
  <2>1. y \in Seq(Nat) /\ Len(y) = Len(x) + Len(r)
    BY <1>1, <1>2, JoinedIs
  <2> QED
    BY <1>1, <1>2, <2>1
<1>4. \A i \in 1..Len(y) : y[i] = i
  <2>1. \A j \in 1..Len(r) : r[j] = Len(x) + j
    BY <1>1, <1>2
  <2> QED
    BY <1>1, <1>2, <2>1, JoinedInOrder
<1> HIDE DEF y
<1>5. Bytes(0, s) \in [1..s -> Nat] /\ \A i \in 1..s : Bytes(0, s)[i] = i
  BY DEF Bytes
<1>6. y = Bytes(0, s)
  BY <1>3, <1>4, <1>5
<1> QED
  BY <1>6 DEF x, r, y

\* Every byte of an open connection is echoed, in the Buffer or not read yet, in
\* order: collecting a message and keeping what the socket refused never mix.
THEOREM StreamIsKept ==
    ASSUME PIPELINE = 1
    PROVE  Spec => []EchoStream
<1>1. UsInv => EchoStream
  <2> SUFFICES ASSUME UsInv, NEW c \in Conns
               PROVE  got[c] \o Held(data[c], start_pos[c], size[c])
                             \o Bytes(taken[c], sent[c]) = Bytes(0, sent[c])
    BY DEF EchoStream
  <2> DEFINE h == Held(data[c], start_pos[c], size[c])
  <2>1. UsTypeOK /\ Conn(c)
    BY DEF UsInv
  <2>2. /\ sent[c] \in Nat /\ taken[c] \in Nat /\ size[c] \in Nat
        /\ start_pos[c] \in Nat /\ got[c] \in Seq(Nat) /\ Len(got[c]) \in Nat
        /\ data[c] \in [Cells -> Nat]
    BY <2>1, ConnTypes
  <2>3. /\ start_pos[c] + size[c] <= MAX_DATA_LEN
        /\ Len(got[c]) + size[c] = taken[c] /\ taken[c] <= sent[c]
    BY <2>1 DEF Conn, Placed
  <2>4. /\ \A i \in 1..Len(got[c]) : got[c][i] = i
        /\ \A j \in 1..size[c] : data[c][start_pos[c] + j - 1] = Len(got[c]) + j
    BY <2>1 DEF Conn, InOrder
  <2>5. /\ h \in Seq(Nat) /\ Len(h) = size[c]
        /\ \A j \in 1..size[c] : h[j] = data[c][start_pos[c] + j - 1]
    BY <2>2, <2>3, HeldIs
  <2> HIDE DEF h
  <2>6. Len(got[c]) + Len(h) = taken[c] /\ \A j \in 1..Len(h) : h[j] = Len(got[c]) + j
    BY <2>3, <2>4, <2>5
  <2>7. got[c] \o h \o Bytes(taken[c], sent[c]) = Bytes(0, sent[c])
    BY <2>2, <2>3, <2>4, <2>5, <2>6, StreamIs
  <2> QED
    BY <2>7 DEF h
<1> QED
  BY <1>1, UsInvariance, PTL

-----------------------------------------------------------------------------
(* The refinement of EchoService, its fairness apart.                      *)

\* The messages of the abstract service, and its failed connections.
Requested(c) == sent[c] \div MAX_DATA_LEN
Replied(c) == Len(got[c]) \div MAX_DATA_LEN
Closed == {c \in Conns : sock[c] = "closed"}

\* What the client has got back are its first messages, in order.
RepliesOK ==
    \A c \in Conns :
        /\ Replies(c) = [i \in 1..Replied(c) |-> i]
        /\ Replied(c) \in Nat /\ Requested(c) \in Nat
        /\ Len(Replies(c)) = Replied(c) /\ Replied(c) <= Requested(c)

\* It follows from the invariant.
LEMMA RepliesAre == UsInv => RepliesOK
<1> SUFFICES ASSUME UsInv, NEW c \in Conns
             PROVE  /\ Replies(c) = [i \in 1..Replied(c) |-> i]
                    /\ Replied(c) \in Nat /\ Requested(c) \in Nat
                    /\ Len(Replies(c)) = Replied(c) /\ Replied(c) <= Requested(c)
  BY DEF RepliesOK
<1>1. UsTypeOK /\ Conn(c)
  BY DEF UsInv
<1>2. /\ Len(got[c]) \in Nat /\ sent[c] \in Nat /\ size[c] \in Nat /\ taken[c] \in Nat
  BY <1>1, ConnTypes
<1>3. Len(got[c]) + size[c] = taken[c] /\ taken[c] <= sent[c]
  BY <1>1 DEF Conn, Placed
<1>4. Len(got[c]) <= sent[c]
  BY <1>2, <1>3
<1>5. Replied(c) \in Nat /\ Requested(c) \in Nat /\ Replied(c) <= Requested(c)
  BY <1>2, <1>4, LenOK, DivMod, DivGrows DEF Replied, Requested
<1>6. Replies(c) = [i \in 1..Replied(c) |-> i]
  <2>1. \A i \in 1..Len(got[c]) : got[c][i] = i
    BY <1>1 DEF Conn, InOrder
  <2>2. \A i \in 1..(Len(got[c]) \div MAX_DATA_LEN) :
          \A k \in ((i - 1) * MAX_DATA_LEN + 1)..(i * MAX_DATA_LEN) : got[c][k] = k
    BY <1>2, <2>1, LenOK, RepliesInOrder
  <2> QED
    BY <2>2 DEF Replies, Replied
<1> QED
  BY <1>5, <1>6, CountingUp

\* What a callback writes completes the next echo of its client or none.
LEMMA WriteIsReply ==
    ASSUME UsInv, UsInv', RepliesOK, RepliesOK', NEW c \in Conns,
           sent' = sent, sock' = sock, \A d \in Conns : d # c => got'[d] = got[d],
           NEW seq \in Seq(Nat), got'[c] = got[c] \o seq
    PROVE  Service!Reply(c) \/ UNCHANGED Service!vars
<1>1. /\ Replies(c) = [i \in 1..Replied(c) |-> i] /\ Replied(c) \in Nat
      /\ Len(Replies(c)) = Replied(c)
  BY DEF RepliesOK
<1>2. /\ Replies(c)' = [i \in 1..Replied(c)' |-> i]
      /\ Replied(c)' \in Nat /\ Requested(c)' \in Nat /\ Replied(c)' <= Requested(c)'
  BY DEF RepliesOK
<1>3. /\ Len(got[c]) \in Nat /\ Len(got'[c]) \in Nat /\ Len(got[c]) <= Len(got'[c])
      /\ Len(got'[c]) <= Len(got[c]) + MAX_DATA_LEN
  <2>1. /\ UsTypeOK /\ UsTypeOK' /\ Conn(c) /\ Conn(c)'
    BY DEF UsInv
  <2>2. /\ got[c] \in Seq(Nat) /\ Len(got[c]) \in Nat /\ sent[c] \in Nat
        /\ taken[c] \in Nat /\ size[c] \in Nat
    BY <2>1, ConnTypes
  <2>3. Len(got'[c]) = Len(got[c]) + Len(seq) /\ Len(seq) \in Nat
    BY <2>2, JoinedIs
  <2>4. size'[c] \in Nat /\ taken'[c] \in Nat
    BY <2>1 DEF UsTypeOK
  <2>5. sent[c] <= Len(got[c]) + MAX_DATA_LEN
    BY <2>1 DEF Conn, Placed
  <2>6. Len(got'[c]) + size'[c] = taken'[c] /\ taken'[c] <= sent[c]
    BY <2>1 DEF Conn, Placed
  <2>7. Len(got'[c]) <= sent[c]
    BY <2>2, <2>3, <2>4, <2>6
  <2> QED
    BY <2>2, <2>3, <2>5, <2>7, LenOK
<1>4. Requested(c)' = Requested(c)
  BY DEF Requested
<1>5. Replied(c)' \in {Replied(c), Replied(c) + 1}
  <2>1. Len(got'[c]) \div MAX_DATA_LEN
          \in {Len(got[c]) \div MAX_DATA_LEN, (Len(got[c]) \div MAX_DATA_LEN) + 1}
    BY <1>3, LenOK, DivGrows
  <2> QED
    BY <2>1 DEF Replied
<1>6. \A d \in Conns : d # c => Replies(d)' = Replies(d)
  BY DEF Replies
<1> DEFINE requests == [d \in Conns |-> sent[d] \div MAX_DATA_LEN]
           replies == [d \in Conns |-> Replies(d)]
           down == {d \in Conns : sock[d] = "closed"}
<1>7. requests' = requests /\ down' = down
  OBVIOUS
<1>8. CASE Replied(c)' = Replied(c)
  <2>1. Replies(c)' = Replies(c)
    BY <1>1, <1>2, <1>8
  <2>2. replies' = replies
    BY <1>6, <2>1
  <2> QED
    BY <1>7, <2>2 DEF Service!vars
<1>9. CASE Replied(c)' = Replied(c) + 1
  <2>1. Replies(c)' = Append(Replies(c), Len(Replies(c)) + 1)
    BY <1>1, <1>2, <1>9, CountingUp
  <2>2. replies' = [replies EXCEPT ![c] = Append(@, Len(@) + 1)]
    BY <1>6, <2>1
  <2>3. Len(replies[c]) < requests[c]
    BY <1>1, <1>2, <1>4, <1>9 DEF Requested
  <2> QED
    BY <1>7, <2>2, <2>3 DEF Service!Reply
<1> QED
  BY <1>5, <1>8, <1>9

\* The bytes of the three paths that write.
LEMMA WritesAppend ==
    ASSUME UsInv, NEW c \in Conns, Serve(c)
    PROVE  /\ sent' = sent /\ sock' = sock
           /\ \A d \in Conns : d # c => got'[d] = got[d]
           /\ \E seq \in Seq(Nat) : got'[c] = got[c] \o seq
<1>1. UsTypeOK /\ Conn(c)
  BY DEF UsInv
<1>2. /\ got \in [Conns -> Seq(Nat)] /\ got[c] \in Seq(Nat) /\ data[c] \in [Cells -> Nat]
      /\ taken[c] \in Nat /\ size[c] \in Nat /\ start_pos[c] \in Nat /\ sent[c] \in Nat
  BY <1>1, ConnTypes DEF UsTypeOK
<1>3. ASSUME NEW seq \in Seq(Nat), got' = [got EXCEPT ![c] = @ \o seq]
      PROVE  /\ \A d \in Conns : d # c => got'[d] = got[d]
             /\ got'[c] = got[c] \o seq
  BY <1>2, <1>3
<1>4. ASSUME NEW b \in 0..MAX_DATA_LEN, OnDataWhole(c, b)
      PROVE  /\ sent' = sent /\ sock' = sock
             /\ \E seq \in Seq(Nat) : got' = [got EXCEPT ![c] = @ \o seq]
  <2> DEFINE bytes == Arriving(c, MAX_DATA_LEN)
             seq == SubSeq(bytes, 1, b)
  <2>1. MAX_DATA_LEN \in Nat /\ b \in Nat /\ b <= MAX_DATA_LEN
    BY LenOK
  <2>2. bytes \in Seq(Nat) /\ Len(bytes) = MAX_DATA_LEN
    BY <1>2, <2>1, ArrivingIs
  <2>3. /\ got' = [got EXCEPT ![c] = @ \o seq] /\ sent' = sent /\ sock' = sock
    BY <1>4 DEF OnDataWhole
  <2> HIDE DEF bytes
  <2>4. seq \in Seq(Nat)
    <3>1. SubSeq(bytes, 0 + 1, b) \in Seq(Nat)
      BY <2>1, <2>2, 0 \in Nat, PartIs
    <3>2. 0 + 1 = 1
      OBVIOUS
    <3> QED
      BY <3>1, <3>2
  <2> HIDE DEF seq
  <2> QED
    BY <2>3, <2>4
<1>5. ASSUME NEW length \in 1..sent[c], OnDataPart(c, length)
      PROVE  sent' = sent /\ sock' = sock /\ got' = got
  BY <1>5 DEF OnDataPart
<1>6. ASSUME NEW length \in 1..sent[c], NEW b \in 0..MAX_DATA_LEN,
             OnDataLast(c, length, b)
      PROVE  /\ sent' = sent /\ sock' = sock
             /\ \E seq \in Seq(Nat) : got' = [got EXCEPT ![c] = @ \o seq]
  <2> DEFINE full == Copied(data[c], size[c], Arriving(c, length))
             seq == Held(full, 0, b)
  <2>1. length \in 1..(sent[c] - taken[c])
    BY <1>6 DEF OnDataLast, Delivered
  <2>2. full \in [Cells -> Nat]
    BY <1>1, <2>1, Appended
  <2>3. got' = [got EXCEPT ![c] = @ \o seq] /\ sent' = sent /\ sock' = sock
    BY <1>6 DEF OnDataLast, AppendAt
  <2> HIDE DEF full
  <2>4. seq \in Seq(Nat)
    <3>1. 0 \in Nat /\ b \in Nat /\ 0 + b <= MAX_DATA_LEN
      BY LenOK
    <3> QED
      BY <2>2, <3>1, HeldIs
  <2> HIDE DEF seq
  <2> QED
    BY <2>3, <2>4
<1>7. ASSUME NEW b \in 0..MAX_DATA_LEN, OnWritable(c, b)
      PROVE  /\ sent' = sent /\ sock' = sock
             /\ \E seq \in Seq(Nat) : got' = [got EXCEPT ![c] = @ \o seq]
  <2> DEFINE seq == Held(data[c], start_pos[c], b)
  <2>1. b \in Nat /\ start_pos[c] + b <= MAX_DATA_LEN
    BY <1>2, <1>7, LenOK DEF OnWritable
  <2>2. seq \in Seq(Nat)
    BY <1>2, <2>1, HeldIs
  <2>3. got' = [got EXCEPT ![c] = @ \o seq] /\ sent' = sent /\ sock' = sock
    BY <1>7 DEF OnWritable
  <2> HIDE DEF seq
  <2> QED
    BY <2>2, <2>3
<1>8. <<>> \in Seq(Nat) /\ got[c] \o <<>> = got[c]
  BY <1>2
<1> QED
  BY <1>3, <1>4, <1>5, <1>6, <1>7, <1>8 DEF Serve

\* A client sends the next message.
LEMMA SendIsRequest ==
    ASSUME UsInv, NEW c \in Conns, ClientSends(c)
    PROVE  Service!Request(c)
<1>1. sent \in [Conns -> Nat] /\ sent[c] \in Nat
  BY DEF UsInv, UsTypeOK
<1>2. sent' = [sent EXCEPT ![c] = @ + MAX_DATA_LEN] /\ got' = got /\ sock' = sock
  BY DEF ClientSends
<1> DEFINE requests == [d \in Conns |-> sent[d] \div MAX_DATA_LEN]
           replies == [d \in Conns |-> Replies(d)]
<1>3. (sent[c] + MAX_DATA_LEN) \div MAX_DATA_LEN = (sent[c] \div MAX_DATA_LEN) + 1
  BY <1>1, LenOK, DivOfSum
<1>4. requests' = [requests EXCEPT ![c] = @ + 1]
  BY <1>1, <1>2, <1>3
<1>5. replies' = replies
  BY <1>2 DEF Replies
<1> QED
  BY <1>2, <1>4, <1>5 DEF Service!Request

\* Each client gets its messages back once, in order and only what it sent: the
\* safety part of EchoService, however reads and writes cut the messages.
THEOREM UsTcpEchoes ==
    ASSUME PIPELINE = 1
    PROVE  Spec => Service!Spec
<1>1. Init => Service!Init
  <2> SUFFICES ASSUME Init PROVE Service!Init
    OBVIOUS
  <2>1. 0 \div MAX_DATA_LEN = 0 /\ Len(<<>>) = 0
    BY LenOK
  <2>2. \A c \in Conns : /\ sent[c] = 0 /\ got[c] = <<>> /\ Replies(c) = <<>>
                         /\ sock[c] # "closed"
    BY <2>1 DEF Init, Replies
  <2>3. /\ [c \in Conns |-> sent[c] \div MAX_DATA_LEN] = [c \in Conns |-> 0]
        /\ [c \in Conns |-> Replies(c)] = [c \in Conns |-> <<>>]
        /\ {c \in Conns : sock[c] = "closed"} = {}
    BY <2>1, <2>2
  <2> QED
    BY <2>3 DEF Service!Init
<1>2. ASSUME UsInv, UsInv', RepliesOK, RepliesOK', [Next]_vars
      PROVE  [Service!Next]_(Service!vars)
  <2>1. ASSUME NEW c \in Conns, ClientSends(c) PROVE [Service!Next]_(Service!vars)
    BY <1>2, <2>1, SendIsRequest DEF Service!Next
  <2>2. ASSUME NEW c \in Conns, OnOpen(c) PROVE UNCHANGED Service!vars
    <3>1. sent' = sent /\ got' = got /\ Closed' = Closed
      <4>1. sock \in [Conns -> {"none", "open", "closed"}]
        BY <1>2 DEF UsInv, UsTypeOK
      <4>2. \A d \in Conns : sock'[d] = "closed" <=> sock[d] = "closed"
        BY <2>2, <4>1 DEF OnOpen
      <4> QED
        BY <2>2, <4>2 DEF OnOpen, Closed
    <3> QED
      BY <3>1 DEF Service!vars, Replies, Closed
  <2>3. ASSUME NEW c \in Conns, OnClose(c) PROVE Service!Fail({c})
    <3>1. sent' = sent /\ got' = got /\ Closed' = Closed \cup {c}
      <4>1. sock \in [Conns -> {"none", "open", "closed"}]
        BY <1>2 DEF UsInv, UsTypeOK
      <4>2. sock' = [sock EXCEPT ![c] = "closed"] /\ sent' = sent /\ got' = got
        BY <2>3 DEF OnClose
      <4> QED
        BY <4>1, <4>2 DEF Closed
    <3> QED
      BY <3>1 DEF Service!Fail, Replies, Closed
  <2>4. ASSUME NEW c \in Conns, Serve(c) PROVE [Service!Next]_(Service!vars)
    <3>1. /\ sent' = sent /\ sock' = sock
          /\ \A d \in Conns : d # c => got'[d] = got[d]
          /\ \E seq \in Seq(Nat) : got'[c] = got[c] \o seq
      BY <1>2, <2>4, WritesAppend
    <3>2. PICK seq \in Seq(Nat) : got'[c] = got[c] \o seq
      BY <3>1
    <3>3. Service!Reply(c) \/ UNCHANGED Service!vars
      BY <1>2, <3>1, <3>2, WriteIsReply
    <3> QED
      BY <3>3 DEF Service!Next
  <2>5. ASSUME UNCHANGED vars PROVE UNCHANGED Service!vars
    <3>1. sent' = sent /\ got' = got /\ sock' = sock
      BY <2>5 DEF vars
    <3> QED
      BY <3>1 DEF Service!vars, Replies
  <2> QED
    BY <1>2, <2>1, <2>2, <2>3, <2>4, <2>5 DEF Next, ConnStep, Service!Next
<1> QED
  BY <1>1, <1>2, RepliesAre, UsInvariance, PTL DEF Spec, Service!Spec
=============================================================================
