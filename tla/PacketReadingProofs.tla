------------------------ MODULE PacketReadingProofs ------------------------
(***************************************************************************)
(* Theorems about the reading side of PacketStream, for any layers, packet *)
(* lengths, base and number of length bytes, and bounds.                   *)
(*                                                                         *)
(* The argument: there is a function f from numbers to places (byte at of  *)
(* packet of) along which the bytes of readbuf, received and coming lie,   *)
(* one after the other, and which runs through the broker's packets in     *)
(* order (Along).  Reading, and the arrival of chunks, do not change f;    *)
(* what readPacket has decoded (Hand) follows from how far along f it is.  *)
(***************************************************************************)
EXTENDS PacketStreamProofs, FiniteSetTheorems, WellFoundedInduction

\* A set of numbers has a least one.
LEMMA LeastNumber ==
    ASSUME NEW T \in SUBSET Nat, T # {}
    PROVE  \E m \in T : \A n \in T : m <= n
<1> DEFINE R == OpToRel(<, Nat)
<1>1. IsWellFoundedOn(R, Nat)
  BY NatLessThanWellFounded
<1>2. \A m, n \in Nat : <<n, m>> \in R <=> n < m
  BY DEF OpToRel
<1> HIDE DEF R
<1>3. PICK m \in T : \A n \in T : ~ <<n, m>> \in R
  BY <1>1, WFMin
<1>4. ASSUME NEW n \in T PROVE m <= n
  <2>1. m \in Nat /\ n \in Nat
    OBVIOUS
  <2>2. ~ (n < m)
    BY <1>2, <1>3, <2>1, Zenon
  <2>3. QED
    BY <2>1, <2>2
<1>5. QED
  BY <1>4

\* Induction over the numbers, for a set.
LEMMA Induction ==
    ASSUME NEW S, 0 \in S, \A n \in Nat : n \in S => n + 1 \in S
    PROVE  \A n \in Nat : n \in S
<1> DEFINE T == Nat \ S
<1> SUFFICES ASSUME T # {} PROVE FALSE
  OBVIOUS
<1>1. PICK m \in T : \A n \in T : m <= n
  BY LeastNumber, Zenon
<1>2. m \in Nat /\ m # 0 /\ m - 1 \in Nat /\ m - 1 \notin T
  BY <1>1
<1>3. QED
  BY <1>2

-----------------------------------------------------------------------------
\* The recursive function Power is what its definition says.
LEMMA PowerStep ==
    /\ DOMAIN Power = 0..LengthBytes
    /\ Power[0] = 1
    /\ \A k \in 1..LengthBytes : Power[k] = Base * Power[k - 1]
<1> DEFINE Value(g, k) == IF k = 0 THEN 1 ELSE Base * g[k - 1]
           S == {n \in Nat : \E g \in [0..n -> Nat] : \A k \in 0..n : g[k] = Value(g, k)}
           P(g) == g = [k \in 0..LengthBytes |-> Value(g, k)]
<1>1. Base \in Nat /\ LengthBytes \in Nat \ {0}
  BY LengthAssumption
<1>2. 0 \in S
  <2> DEFINE g == [k \in 0..0 |-> 1]
  <2>1. g \in [0..0 -> Nat] /\ \A k \in 0..0 : g[k] = Value(g, k)
    OBVIOUS
  <2>2. QED
    BY <2>1
<1>3. ASSUME NEW n \in Nat, n \in S PROVE n + 1 \in S
  <2>1. PICK g \in [0..n -> Nat] : \A k \in 0..n : g[k] = Value(g, k)
    BY <1>3
  <2> DEFINE h == [k \in 0..(n + 1) |-> IF k = n + 1 THEN Base * g[n] ELSE g[k]]
  <2>2. h \in [0..(n + 1) -> Nat]
    <3>1. Base * g[n] \in Nat
      BY <1>1
    <3>2. \A k \in 0..(n + 1) : k # n + 1 => g[k] \in Nat
      OBVIOUS
    <3>3. QED
      BY <3>1, <3>2
  <2>3. \A k \in 0..(n + 1) : h[k] = Value(h, k)
    <3>1. \A k \in 0..n : h[k] = g[k]
      OBVIOUS
    <3>2. h[n + 1] = Base * g[n] /\ n + 1 # 0 /\ n \in 0..n /\ (n + 1) - 1 = n
      OBVIOUS
    <3>3. \A k \in 0..n : k # 0 => k - 1 \in 0..n
      OBVIOUS
    <3>4. \A k \in 0..(n + 1) : k \in 0..n \/ k = n + 1
      OBVIOUS
    <3> HIDE DEF h
    <3>5. QED
      BY <2>1, <3>1, <3>2, <3>3, <3>4
  <2> HIDE DEF h
  <2>4. n + 1 \in Nat /\ \E g1 \in [0..(n + 1) -> Nat] : \A k \in 0..(n + 1) : g1[k] = Value(g1, k)
    BY <2>2, <2>3
  <2>5. QED
    BY <2>4
<1> HIDE DEF S
<1>4. LengthBytes \in S
  BY <1>1, <1>2, <1>3, Induction
<1> USE DEF S
<1>5. \E g : P(g)
  <2>1. PICK g \in [0..LengthBytes -> Nat] : \A k \in 0..LengthBytes : g[k] = Value(g, k)
    BY <1>4
  <2>2. QED
    BY <2>1
<1>6. Power = CHOOSE g : P(g)
  BY DEF Power
<1> HIDE DEF P
<1>7. P(Power)
  BY <1>5, <1>6
<1> USE DEF P
<1>8. DOMAIN Power = 0..LengthBytes /\ \A k \in 0..LengthBytes : Power[k] = Value(Power, k)
  <2> DEFINE w == Power
  <2>1. w = [k \in 0..LengthBytes |-> Value(w, k)]
    BY <1>7
  <2> HIDE DEF w
  <2>2. DOMAIN w = 0..LengthBytes /\ \A k \in 0..LengthBytes : w[k] = Value(w, k)
    BY <2>1
  <2>3. QED
    BY <2>2 DEF w
<1>9. QED
  BY <1>1, <1>8

\* A factor is at most the product.
LEMMA Factor ==
    ASSUME NEW m \in Nat \ {0}, NEW b \in Nat \ {0, 1}
    PROVE  b * m \in Nat \ {0} /\ m <= b * m
  OBVIOUS

\* The powers are positive and none is above the last.
LEMMA PowerIs ==
    /\ \A k \in 0..LengthBytes : Power[k] \in Nat \ {0} /\ Power[k] <= Power[LengthBytes]
    /\ Power[0] = 1
    /\ \A k \in 1..LengthBytes : Power[k] = Base * Power[k - 1]
<1>1. Base \in Nat \ {0, 1} /\ LengthBytes \in Nat \ {0}
  BY LengthAssumption
<1> DEFINE S == {n \in Nat : n <= LengthBytes => Power[n] \in Nat \ {0}}
           T == {n \in Nat : n <= LengthBytes =>
                                Power[LengthBytes - n] <= Power[LengthBytes]}
<1>2. 0 \in S
  BY PowerStep
<1>3. ASSUME NEW n \in Nat, n \in S PROVE n + 1 \in S
  <2> SUFFICES ASSUME n + 1 <= LengthBytes PROVE Power[n + 1] \in Nat \ {0}
    OBVIOUS
  <2>1. Power[n] \in Nat \ {0} /\ Power[n + 1] = Base * Power[n]
    BY <1>1, <1>3, PowerStep
  <2>2. QED
    BY <1>1, <2>1, Factor
<1>4. \A n \in Nat : n \in S
  <2> HIDE DEF S
  <2>1. QED
    BY <1>2, <1>3, Induction
<1>5. 0 \in T
  <2>1. Power[LengthBytes] \in Nat
    BY <1>1, <1>4
  <2>2. QED
    BY <1>1, <2>1
<1>6. ASSUME NEW n \in Nat, n \in T PROVE n + 1 \in T
  <2> SUFFICES ASSUME n + 1 <= LengthBytes PROVE Power[LengthBytes - (n + 1)] <= Power[LengthBytes]
    OBVIOUS
  <2> DEFINE k == LengthBytes - (n + 1)
             p == Power[k]
             q == Power[k + 1]
             r == Power[LengthBytes]
  <2>1. k \in Nat /\ k + 1 = LengthBytes - n /\ k + 1 \in 1..LengthBytes /\ (k + 1) - 1 = k
    BY <1>1
  <2>2. p \in Nat \ {0} /\ r \in Nat /\ q = Base * p /\ q <= r
    BY <1>1, <1>4, <1>6, <2>1, PowerStep
  <2> HIDE DEF p, q, r
  <2>3. p <= q /\ q \in Nat
    BY <1>1, <2>2, Factor
  <2>4. p <= r
    BY <2>2, <2>3
  <2>5. QED
    BY <2>4 DEF p, q, r
<1>7. \A n \in Nat : n \in T
  <2> HIDE DEF T
  <2>1. QED
    BY <1>5, <1>6, Induction
<1>8. \A k \in 0..LengthBytes : Power[k] <= Power[LengthBytes]
  <2> TAKE k \in 0..LengthBytes
  <2>1. /\ LengthBytes - k \in Nat /\ LengthBytes - (LengthBytes - k) = k
        /\ LengthBytes - k <= LengthBytes
    BY <1>1
  <2>2. QED
    BY <1>7, <2>1
<1>9. \A k \in 0..LengthBytes : Power[k] \in Nat \ {0}
  BY <1>1, <1>4
<1>10. QED
  BY <1>8, <1>9, PowerStep

-----------------------------------------------------------------------------
\* How many bytes encode a length.
LEMMA LengthSizeIs ==
    ASSUME NEW n \in 0..(Power[LengthBytes] - 1)
    PROVE  LengthSize(n) \in 1..LengthBytes /\ n < Power[LengthSize(n)]
<1> DEFINE P(k) == n < Power[k] /\ (k = 1 \/ n >= Power[k - 1])
           T == {k \in 1..LengthBytes : n < Power[k]}
<1>1. LengthBytes \in Nat \ {0} /\ Power[LengthBytes] \in Nat /\ n \in Nat
  BY LengthAssumption, PowerIs
<1>2. T \in SUBSET Nat /\ LengthBytes \in T
  BY <1>1
<1>3. PICK k \in T : \A j \in T : k <= j
  <2> HIDE DEF T
  <2>1. QED
    BY <1>2, LeastNumber
<1>4. k \in 1..LengthBytes /\ P(k)
  <2>1. k = 1 \/ (k - 1 \in 1..LengthBytes /\ k - 1 \notin T /\ Power[k - 1] \in Nat)
    BY <1>1, <1>3, PowerIs
  <2>2. QED
    BY <1>1, <1>3, <2>1
<1> HIDE DEF P
<1>5. LengthSize(n) = CHOOSE i \in 1..LengthBytes : P(i)
  BY DEF LengthSize, P
<1>6. LengthSize(n) \in 1..LengthBytes /\ P(LengthSize(n))
  BY <1>4, <1>5
<1>7. QED
  BY <1>6 DEF P

\* Where the first chunk of a stream ends.
LEMMA FirstChunkIs ==
    ASSUME NEW S, NEW s \in Seq(S), s # <<>>, s[Len(s)].ends
    PROVE  /\ FirstChunk(s) \in 1..Len(s) /\ s[FirstChunk(s)].ends
           /\ \A j \in 1..(FirstChunk(s) - 1) : ~s[j].ends
<1> DEFINE P(k) == s[k].ends /\ \A j \in 1..(k - 1) : ~s[j].ends
           T == {k \in 1..Len(s) : s[k].ends}
<1>1. T \in SUBSET Nat /\ Len(s) \in T /\ DOMAIN s = 1..Len(s) /\ Len(s) \in Nat
  OBVIOUS
<1>2. PICK k \in T : \A j \in T : k <= j
  <2> HIDE DEF T
  <2>1. QED
    BY <1>1, LeastNumber
<1>3. k \in 1..Len(s) /\ P(k)
  <2>1. \A j \in 1..(k - 1) : j \in 1..Len(s) /\ j \notin T
    BY <1>1, <1>2
  <2>2. QED
    BY <1>2, <2>1
<1> HIDE DEF P
<1>4. FirstChunk(s) = CHOOSE i \in DOMAIN s : P(i)
  BY DEF FirstChunk, P
<1>5. FirstChunk(s) \in 1..Len(s) /\ P(FirstChunk(s))
  BY <1>1, <1>3, <1>4
<1>6. QED
  BY <1>5 DEF P

-----------------------------------------------------------------------------
\* Quotient and remainder.
LEMMA Division ==
    ASSUME NEW x \in Nat, NEW n \in Nat \ {0}
    PROVE  /\ x \div n \in Nat /\ x % n \in 0..(n - 1)
           /\ x = n * (x \div n) + (x % n)
  OBVIOUS

\* A multiple of b below b is 0.
LEMMA SmallMultiple ==
    ASSUME NEW n \in Nat \ {0}, NEW a \in Int, n * a < n, -n < n * a
    PROVE  a = 0
  OBVIOUS

\* The remainder is the only small number that differs by a multiple.
LEMMA RemainderIs ==
    ASSUME NEW n \in Nat \ {0}, NEW x \in Nat, NEW q \in Int, NEW r \in 0..(n - 1), x = n * q + r
    PROVE  x % n = r
<1> DEFINE d == x \div n
           e == x % n
<1>1. d \in Nat /\ e \in 0..(n - 1) /\ x = n * d + e
  BY Division
<1> HIDE DEF d, e
<1> DEFINE a == d - q
<1>2. n * d - n * q = n * a
  BY <1>1
<1>3. a \in Int /\ n * d \in Int /\ n * q \in Int /\ n * a \in Int
  BY <1>1
<1> HIDE DEF a
<1>4. n * a < n /\ -n < n * a
  BY <1>1, <1>2, <1>3
<1>5. a = 0
  BY <1>3, <1>4, SmallMultiple
<1>6. d = q
  BY <1>1, <1>5 DEF a
<1>7. QED
  BY <1>1, <1>6 DEF e

\* One digit more of a number.
LEMMA NextDigit ==
    ASSUME NEW x \in Nat, NEW m \in Nat \ {0}, NEW b \in Nat \ {0, 1}
    PROVE  x % (b * m) = (x % m) + ((x \div m) % b) * m
<1> DEFINE q == x \div m
           r == x % m
           p == q \div b
           d == q % b
<1>1. q \in Nat /\ r \in 0..(m - 1) /\ x = m * q + r
  BY Division
<1>2. p \in Nat /\ d \in 0..(b - 1) /\ q = b * p + d
  <2> HIDE DEF q
  <2>1. QED
    BY <1>1, Division
<1> HIDE DEF q, r, p, d
<1>3. m * q = m * (b * p) + m * d
  BY <1>1, <1>2
<1>4. m * (b * p) = (b * m) * p /\ m * d = d * m
  BY <1>1, <1>2
<1>5. d * m <= (b - 1) * m
  BY <1>2
<1>6. (b - 1) * m = b * m - m
  OBVIOUS
<1> DEFINE bm == b * m
           dm == d * m
           e == r + dm
<1>7. bm \in Nat \ {0} /\ dm \in Nat
  BY <1>2, Factor
<1>8. x = bm * p + e /\ e \in 0..(bm - 1)
  <2>1. x = bm * p + e
    <3>1. bm * p \in Nat
      BY <1>2, <1>7
    <3>2. x = (bm * p + dm) + r
      BY <1>1, <1>3, <1>4
    <3> HIDE DEF bm, dm
    <3>3. QED
      BY <1>1, <1>7, <3>1, <3>2
  <2>2. dm <= bm - m
    BY <1>5, <1>6
  <2> HIDE DEF bm, dm
  <2>3. QED
    BY <1>1, <1>7, <2>1, <2>2
<1> HIDE DEF bm, e
<1>9. x % bm = e
  BY <1>2, <1>7, <1>8, RemainderIs
<1>10. QED
  BY <1>9 DEF bm, e, dm, q, r, d

\* Facts about sequences, in the form the proofs cite them.
LEMMA Element ==
    ASSUME NEW S, NEW s \in Seq(S), NEW i \in 1..Len(s)
    PROVE  s[i] \in S
  OBVIOUS

\* The first elements of a sequence, ...
LEMMA Prefix ==
    ASSUME NEW S, NEW s \in Seq(S), NEW n \in 0..Len(s)
    PROVE  /\ SubSeq(s, 1, n) \in Seq(S) /\ Len(SubSeq(s, 1, n)) = n
           /\ \A k \in 1..n : SubSeq(s, 1, n)[k] = s[k]
  OBVIOUS

\* ... the ones after them, ...
LEMMA Suffix ==
    ASSUME NEW S, NEW s \in Seq(S), NEW n \in 0..Len(s)
    PROVE  LET t == SubSeq(s, n + 1, Len(s))
           IN  /\ t \in Seq(S) /\ Len(t) = Len(s) - n
               /\ \A k \in 1..(Len(s) - n) : t[k] = s[n + k]
  OBVIOUS

\* ... and one sequence after another.
LEMMA Joined ==
    ASSUME NEW S, NEW s \in Seq(S), NEW t \in Seq(S)
    PROVE  /\ s \o t \in Seq(S) /\ Len(s \o t) = Len(s) + Len(t)
           /\ \A k \in 1..Len(s) : (s \o t)[k] = s[k]
           /\ \A k \in 1..Len(t) : (s \o t)[Len(s) + k] = t[k]
  OBVIOUS

-----------------------------------------------------------------------------
\* A byte without what TCP adds to it; a byte of a packet that was sent; a stream whose
\* last byte ends a chunk.
At(b) == [of |-> b.of, at |-> b.at]
IsByte(b) == b.of \in 1..Len(sent) /\ b.at \in 1..Size(b.of)
AreBytes(s) == \A k \in 1..Len(s) : IsByte(s[k])
Ended(s) == s # <<>> => s[Len(s)].ends

\* The types, the bytes of known packets, the chunks, and how many bytes readbuf holds.
Types ==
    /\ layer \in Layers /\ conn \in Nat
    /\ sent \in Seq([conn : Nat, length : Lengths]) /\ Len(sent) <= MaxPackets
    /\ coming \in Stream /\ received \in Stream /\ prepend \in BOOLEAN
    /\ AreBytes(coming) /\ AreBytes(received) /\ AreBytes(readbuf)
    /\ pc \in {"header", "length", "body", "dispatch"}
    /\ readbuf \in Seq(Bytes) /\ accepted \in Seq(Seq(Bytes))
    /\ mishaps \subseteq Mishaps
Chunks ==
    /\ Ended(coming) /\ Ended(received)
    /\ prepend /\ layer # "w5500" => received # <<>>
Count ==
    /\ pc = "header" <=> readbuf = <<>>
    /\ pc = "length" => /\ Len(readbuf) \in 1..(LengthBytes + 1)
                        /\ rem_len \in 0..(Power[Len(readbuf) - 1] - 1)
    /\ rem_len \in 0..(Power[LengthBytes] - 1)

\* The size of a packet is a number, and its length is encoded in LengthSize digits.
LEMMA SizeIs ==
    ASSUME Types, NEW i \in 1..Len(sent)
    PROVE  /\ sent[i].length \in Nat /\ LengthSize(sent[i].length) \in 1..LengthBytes
           /\ sent[i].length < Power[LengthSize(sent[i].length)]
           /\ Size(i) \in Nat /\ Size(i) = 1 + LengthSize(sent[i].length) + sent[i].length
<1>1. sent[i].length \in 0..(Power[LengthBytes] - 1)
  <2>1. sent[i].length \in Lengths
    <3>1. sent \in Seq([conn : Nat, length : Lengths])
      BY DEF Types
    <3>2. sent[i] \in [conn : Nat, length : Lengths]
      BY <3>1, Element
    <3>3. QED
      BY <3>2
  <2>2. QED
    BY <2>1, LengthAssumption
<1> DEFINE l == sent[i].length
<1> HIDE DEF l
<1>2. LengthSize(l) \in 1..LengthBytes /\ l < Power[LengthSize(l)] /\ l \in Nat
  BY <1>1, LengthSizeIs, PowerIs, LengthAssumption DEF l
<1>3. QED
  BY <1>2, LengthAssumption DEF Size, l

\* g bytes have gone from received to readbuf.
Took(g) ==
    /\ g \in 0..Len(received)
    /\ readbuf' \in Seq(Bytes) /\ received' \in Stream
    /\ Len(readbuf') = Len(readbuf) + g /\ Len(received') = Len(received) - g
    /\ \A k \in 1..Len(readbuf) : readbuf'[k] = readbuf[k]
    /\ \A k \in 1..g : readbuf'[Len(readbuf) + k] = At(received[k])
    /\ \A k \in 1..(Len(received) - g) : received'[k] = received[g + k]

\* What a read can reach is no more than the stream has.
LEMMA ReachIs ==
    ASSUME Types, Chunks
    PROVE  /\ Reach \in 0..Len(received) /\ Len(received) \in Nat
           /\ (layer # "tls" => Reach = Len(received))
           /\ (received # <<>> => Reach > 0)
           /\ (layer = "tls" /\ received # <<>> => received[Reach].ends)
<1>1. CASE layer = "tls" /\ received # <<>>
  <2>1. FirstChunk(received) \in 1..Len(received) /\ received[FirstChunk(received)].ends
    BY <1>1, FirstChunkIs DEF Types, Chunks, Stream, Ended
  <2>2. QED
    BY <1>1, <2>1 DEF Reach, Types, Stream
<1>2. CASE ~(layer = "tls" /\ received # <<>>)
  BY <1>2 DEF Reach, Types, Stream
<1>3. QED
  BY <1>1, <1>2

\* mqttread takes bytes from the front of received, fewer than asked only with a mishap.
LEMMA ReadTakes ==
    ASSUME Types, Chunks, NEW len \in Nat, NEW mishap \in {"short", "cut"}, mqttread(len, mishap)
    PROVE  /\ Got(len) \in 0..len /\ Took(Got(len))
           /\ mishaps' \subseteq Mishaps /\ mishaps \subseteq mishaps'
           /\ mishaps' \subseteq mishaps \cup {mishap, "late"}
           /\ mishap \notin mishaps' => Got(len) = len
           /\ (Len(received) >= len /\ layer # "tls" => Got(len) = len)
<1> DEFINE g == Got(len)
           t == [k \in 1..g |-> [of |-> received[k].of, at |-> received[k].at]]
<1>1. g \in 0..len /\ g \in 0..Len(received) /\ Len(received) \in Nat
      /\ (Len(received) >= len /\ layer # "tls" => g = len)
  BY ReachIs DEF Got
<1>2. /\ readbuf' = readbuf \o t /\ received' = SubSeq(received, g + 1, Len(received))
      /\ mishaps' = mishaps \cup (IF g < len THEN {mishap} ELSE {})
                            \cup (IF InTime(len) THEN {} ELSE {"late"})
  BY DEF mqttread
<1> HIDE DEF g
<1>3. t \in Seq(Bytes) /\ Len(t) = g /\ \A k \in 1..g : t[k] = At(received[k])
  <2>1. \A k \in 1..g : received[k].of \in 1..MaxPackets /\ received[k].at \in Nat \ {0}
    <3>1. \A k \in 1..g : received[k] \in [of : 1..MaxPackets, at : Nat \ {0}, ends : BOOLEAN]
      <4>1. received \in Seq([of : 1..MaxPackets, at : Nat \ {0}, ends : BOOLEAN])
        BY DEF Types, Stream
      <4>2. \A k \in 1..g : k \in 1..Len(received)
        BY <1>1
      <4>3. QED
        BY <4>1, <4>2, Element
    <3>2. QED
      BY <3>1
  <2>2. QED
    BY <1>1, <2>1 DEF Bytes, At
<1> HIDE DEF t
<1>4. Took(g)
  <2>1. readbuf \in Seq(Bytes)
    BY DEF Types
  <2>2. /\ readbuf' \in Seq(Bytes) /\ Len(readbuf') = Len(readbuf) + g
        /\ \A k \in 1..Len(readbuf) : readbuf'[k] = readbuf[k]
        /\ \A k \in 1..g : readbuf'[Len(readbuf) + k] = At(received[k])
    <3> DEFINE c == readbuf \o t
    <3>1. /\ c \in Seq(Bytes) /\ Len(c) = Len(readbuf) + Len(t)
          /\ \A k \in 1..Len(readbuf) : c[k] = readbuf[k]
          /\ \A k \in 1..Len(t) : c[Len(readbuf) + k] = t[k]
      <4>1. t \in Seq(Bytes)
        BY <1>3
      <4>2. QED
        BY <2>1, <4>1, Joined, SMTT(30)
    <3>2. readbuf' = c
      BY <1>2
    <3> HIDE DEF c
    <3>3. QED
      BY <1>3, <3>1, <3>2
  <2>3. /\ received' \in Stream /\ Len(received') = Len(received) - g
        /\ \A k \in 1..(Len(received) - g) : received'[k] = received[g + k]
    <3>1. received \in Stream
      BY DEF Types
    <3>2. QED
      BY <1>1, <1>2, <3>1, Suffix DEF Stream
  <2>4. QED
    BY <1>1, <2>2, <2>3 DEF Took
<1>5. /\ mishaps' \subseteq Mishaps /\ mishaps \subseteq mishaps'
      /\ mishaps' \subseteq mishaps \cup {mishap, "late"}
  BY <1>2 DEF Types, Mishaps
<1>6. mishap \notin mishaps' => g = len
  BY <1>1, <1>2
<1>7. QED
  BY <1>1, <1>4, <1>5, <1>6 DEF g

\* Having taken bytes, the three parts of the stream are still bytes of known packets.
LEMMA AfterTaking ==
    ASSUME Types, Chunks, NEW g \in Nat, Took(g), UNCHANGED <<layer, sent, coming>>
    PROVE  /\ AreBytes(coming)' /\ AreBytes(received)' /\ AreBytes(readbuf)'
           /\ Ended(coming)' /\ Ended(received)'
<1>1. /\ AreBytes(coming)' <=> \A k \in 1..Len(coming) : IsByte(coming[k])
      /\ AreBytes(received)' <=> \A k \in 1..Len(received') : IsByte(received'[k])
      /\ AreBytes(readbuf)' <=> \A k \in 1..Len(readbuf') : IsByte(readbuf'[k])
  BY DEF AreBytes, IsByte, Size
<1>2. AreBytes(coming)'
  BY <1>1 DEF AreBytes, Types
<1>3. AreBytes(received)'
  <2>1. \A k \in 1..Len(received') : g + k \in 1..Len(received) /\ received'[k] = received[g + k]
    BY DEF Took, Types, Stream
  <2>2. QED
    BY <1>1, <2>1 DEF AreBytes, Types
<1>4. AreBytes(readbuf)'
  <2>1. ASSUME NEW k \in 1..Len(readbuf') PROVE IsByte(readbuf'[k])
    <3>1. CASE k \in 1..Len(readbuf)
      BY <3>1 DEF AreBytes, Types, Took
    <3>2. CASE k \notin 1..Len(readbuf)
      <4> DEFINE j == k - Len(readbuf)
      <4>1. j \in 1..g /\ j \in 1..Len(received) /\ k = Len(readbuf) + j
        BY <3>2 DEF Took, Types
      <4> HIDE DEF j
      <4>2. readbuf'[k] = At(received[j]) /\ IsByte(received[j])
        BY <4>1 DEF Took, Types, AreBytes
      <4>3. IsByte(At(received[j]))
        BY <4>2 DEF IsByte, At
      <4>4. QED
        BY <4>2, <4>3
    <3>3. QED
      BY <3>1, <3>2
  <2>2. QED
    BY <1>1, <2>1
<1>5. Ended(coming)'
  BY DEF Ended, Chunks
<1>6. Ended(received)'
  <2> SUFFICES ASSUME received' # <<>> PROVE received'[Len(received')].ends
    BY DEF Ended
  <2>1. /\ Len(received') \in 1..(Len(received) - g) /\ received # <<>>
        /\ g + Len(received') = Len(received)
    BY DEF Took, Types, Stream
  <2>2. received'[Len(received')] = received[Len(received)]
    BY <2>1 DEF Took
  <2>3. QED
    BY <2>1, <2>2 DEF Chunks, Ended
<1>7. QED
  BY <1>2, <1>3, <1>4, <1>5, <1>6

\* mqttread keeps types and chunks.
LEMMA ReadStays ==
    ASSUME Types, Chunks, NEW len \in Nat, NEW mishap \in {"short", "cut"}, mqttread(len, mishap),
           UNCHANGED <<layer, sent, coming>>
    PROVE  /\ AreBytes(coming)' /\ AreBytes(received)' /\ AreBytes(readbuf)'
           /\ received' \in Stream /\ readbuf' \in Seq(Bytes) /\ mishaps' \subseteq Mishaps
           /\ Chunks' /\ prepend' \in BOOLEAN
           /\ Len(readbuf') = Len(readbuf) + Got(len)
<1> DEFINE g == Got(len)
<1>1. g \in 0..len /\ g \in Nat /\ Took(g) /\ mishaps' \subseteq Mishaps
  BY ReadTakes
<1>2. prepend' = IF g = 0 THEN prepend ELSE ~received[g].ends
  BY DEF mqttread
<1> HIDE DEF g
<1>3. /\ AreBytes(coming)' /\ AreBytes(received)' /\ AreBytes(readbuf)'
      /\ Ended(coming)' /\ Ended(received)'
  BY <1>1, AfterTaking
<1>4. prepend' \in BOOLEAN
  BY <1>2 DEF Types
<1>5. prepend' /\ layer' # "w5500" => received' # <<>>
  <2> SUFFICES ASSUME prepend', layer # "w5500", received' = <<>> PROVE FALSE
    OBVIOUS
  <2>1. CASE g = 0
    <3>1. prepend /\ received # <<>>
      BY <1>2, <2>1 DEF Chunks
    <3>2. Len(received') = Len(received) /\ Len(received) \in Nat /\ Len(received) # 0
      BY <1>1, <2>1, <3>1 DEF Took, Types, Stream
    <3>3. QED
      BY <3>2
  <2>2. CASE g # 0
    <3>1. ~received[g].ends
      BY <1>2, <2>2
    <3>2. g = Len(received) /\ Len(received) \in Nat
      BY <1>1 DEF Took, Types, Stream
    <3>3. received # <<>>
      BY <2>2, <3>2
    <3>4. QED
      BY <3>1, <3>2, <3>3 DEF Chunks, Ended
  <2>3. QED
    BY <2>1, <2>2
<1>6. QED
  BY <1>1, <1>3, <1>4, <1>5 DEF Chunks, Took, g

\* The digit a byte stands for.
LEMMA DigitIs ==
    ASSUME Types, NEW b, IsByte(b), b.at \in Nat \ {0}, NEW d \in Digit(b)
    PROVE  d.value \in 0..(Base - 1) /\ d.more \in BOOLEAN
<1>1. Base \in Nat \ {0, 1} /\ LengthBytes \in Nat \ {0}
  BY LengthAssumption
<1>2. CASE IsLength(b)
  <2> DEFINE l == sent[b.of].length
             p == Power[b.at - 2]
  <2>1. l \in Nat /\ LengthSize(l) \in 1..LengthBytes
    BY SizeIs DEF IsByte
  <2>2. b.at - 2 \in 0..LengthBytes
    BY <1>1, <1>2, <2>1 DEF IsLength
  <2>3. p \in Nat \ {0}
    BY <2>2, PowerIs
  <2>4. d = [value |-> (l \div p) % Base, more |-> b.at < 1 + LengthSize(l)]
    BY <1>2 DEF Digit
  <2> HIDE DEF l, p
  <2>5. l \div p \in Nat
    BY <2>1, <2>3, Division
  <2>6. (l \div p) % Base \in 0..(Base - 1)
    BY <1>1, <2>5, Division
  <2>7. QED
    BY <2>4, <2>6
<1>3. CASE ~IsLength(b)
  BY <1>3 DEF Digit
<1>4. QED
  BY <1>2, <1>3

\* A digit and the digits below it make a number of one digit more.
LEMMA WeightedIs ==
    ASSUME NEW k \in 1..LengthBytes, NEW v \in 0..(Power[k - 1] - 1), NEW d \in 0..(Base - 1)
    PROVE  Weighted(v, d, k - 1) \in 0..(Power[k] - 1)
<1> DEFINE p == Power[k - 1]
           q == Power[k]
<1>1. Base \in Nat \ {0, 1} /\ LengthBytes \in Nat
  BY LengthAssumption
<1>2. k - 1 \in 0..LengthBytes
  BY <1>1
<1>3. p \in Nat \ {0} /\ q = Base * p
  BY <1>2, PowerIs
<1> HIDE DEF p, q
<1> DEFINE dp == d * p
<1>4. dp \in Nat /\ dp <= Base * p - p
  BY <1>1, <1>3
<1>5. Weighted(v, d, k - 1) = v + dp
  BY DEF Weighted, p
<1>6. v \in 0..(p - 1)
  BY DEF p
<1> HIDE DEF dp
<1>7. q \in Nat
  BY <1>1, <1>3
<1>8. v + dp \in 0..(q - 1)
  BY <1>3, <1>4, <1>6, <1>7
<1>9. QED
  BY <1>5, <1>8 DEF q

\* The constants, from the assumptions of PacketStream.
LEMMA Constants ==
    Base \in Nat \ {0, 1} /\ LengthBytes \in Nat \ {0} /\ MaxPackets \in Nat
  BY LengthAssumption, StreamBoundsAssumption

\* A function on 1..n is a sequence.
LEMMA Mapped ==
    ASSUME NEW S, NEW n \in Nat, NEW f, f \in [1..n -> S]
    PROVE  f \in Seq(S) /\ Len(f) = n
  OBVIOUS

\* A sequence with one element changed.
LEMMA Changed ==
    ASSUME NEW S, NEW s \in Seq(S), NEW n \in 1..Len(s), NEW b \in S
    PROVE  /\ [s EXCEPT ![n] = b] \in Seq(S) /\ Len([s EXCEPT ![n] = b]) = Len(s)
           /\ \A k \in 1..Len(s) : [s EXCEPT ![n] = b][k] = IF k = n THEN b ELSE s[k]
<1> DEFINE t == [s EXCEPT ![n] = b]
<1>1. Len(s) \in Nat /\ DOMAIN s = 1..Len(s) /\ \A k \in 1..Len(s) : s[k] \in S
  BY Element
<1>2. t \in [1..Len(s) -> S] /\ \A k \in 1..Len(s) : t[k] = IF k = n THEN b ELSE s[k]
  BY <1>1
<1> HIDE DEF t
<1>3. QED
  BY <1>1, <1>2, Mapped DEF t

\* The size of a packet in the next state.
NewSize(i) == 1 + LengthSize(sent'[i].length) + sent'[i].length

\* The broker sends one packet more; the ones before keep their sizes.
LEMMA SentGrows ==
    ASSUME Types, NEW length \in Lengths, sent' = Append(sent, [conn |-> conn, length |-> length])
    PROVE  /\ sent' \in Seq([conn : Nat, length : Lengths])
           /\ Len(sent') = Len(sent) + 1 /\ Len(sent) \in Nat
           /\ \A i \in 1..Len(sent) : sent'[i] = sent[i] /\ NewSize(i) = Size(i)
           /\ sent'[Len(sent')] = [conn |-> conn, length |-> length]
<1> DEFINE new == [conn |-> conn, length |-> length]
           S == [conn : Nat, length : Lengths]
<1>1. new \in S
  BY DEF Types
<1>2. sent \in Seq(S) /\ sent' = Append(sent, new)
  BY DEF Types
<1> HIDE DEF new, S
<1>3. /\ sent' \in Seq(S) /\ Len(sent') = Len(sent) + 1 /\ Len(sent) \in Nat
      /\ \A i \in 1..Len(sent) : sent'[i] = sent[i]
      /\ sent'[Len(sent')] = new
  BY <1>1, <1>2
<1>4. \A i \in 1..Len(sent) : NewSize(i) = Size(i)
  BY <1>3 DEF Size, NewSize
<1>5. QED
  BY <1>3, <1>4 DEF new, S

\* Its bytes follow those under way, and one chunk may join the next.
LEMMA ComingGrows ==
    ASSUME Types, NEW length \in Lengths, NEW cutAt \in Nat, NEW joins \in BOOLEAN,
           BrokerSends(length, cutAt, joins)
    PROVE  LET size == 1 + LengthSize(length) + length
           IN  /\ NewSize(Len(sent) + 1) = size /\ size \in Nat \ {0}
               /\ coming' \in Stream /\ Len(coming') = Len(coming) + size
               /\ \A k \in 1..Len(coming) : /\ At(coming'[k]) = At(coming[k])
                                            /\ coming'[k].ends => coming[k].ends
               /\ \A k \in 1..size : coming'[Len(coming) + k] =
                     [of |-> Len(sent) + 1, at |-> k, ends |-> k \in {cutAt, size}]
               /\ mishaps' = IF cutAt = size THEN mishaps ELSE mishaps \cup {"split"}
<1> DEFINE size == 1 + LengthSize(length) + length
           i == Len(sent')
           before == IF joins THEN [coming EXCEPT ![Len(coming)].ends = FALSE] ELSE coming
           new == [k \in 1..size |-> [of |-> i, at |-> k, ends |-> k \in {cutAt, size}]]
           Chunked == [of : 1..MaxPackets, at : Nat \ {0}, ends : BOOLEAN]
<1>1. /\ sent' = Append(sent, [conn |-> conn, length |-> length]) /\ Len(sent) < MaxPackets
      /\ (joins => coming # <<>>) /\ coming' = before \o new
      /\ mishaps' = IF cutAt = size THEN mishaps ELSE mishaps \cup {"split"}
  BY DEF BrokerSends
<1>2. i = Len(sent) + 1 /\ i \in 1..MaxPackets
  BY <1>1, SentGrows, Constants
<1>3. size \in Nat \ {0}
  <2>1. length \in 0..(Power[LengthBytes] - 1)
    BY LengthAssumption
  <2>2. LengthSize(length) \in Nat /\ length \in Nat
    BY <2>1, LengthSizeIs, PowerIs, Constants
  <2>3. QED
    BY <2>2
<1>4. NewSize(Len(sent) + 1) = size
  <2>1. sent'[Len(sent) + 1] = [conn |-> conn, length |-> length]
    BY <1>1, <1>2, SentGrows
  <2>2. QED
    BY <2>1 DEF NewSize
<1>5. coming \in Seq(Chunked)
  BY DEF Types, Stream
<1> HIDE DEF i
<1>6. new \in Seq(Chunked) /\ Len(new) = size
      /\ \A k \in 1..size : new[k] = [of |-> i, at |-> k, ends |-> k \in {cutAt, size}]
  <2> HIDE DEF size
  <2>1. \A k \in 1..size : [of |-> i, at |-> k, ends |-> k \in {cutAt, size}] \in Chunked
    BY <1>2, <1>3
  <2> HIDE DEF Chunked
  <2>2. new \in [1..size -> Chunked]
    BY <2>1
  <2>3. QED
    BY <1>3, <2>2, Mapped
<1> HIDE DEF size
<1>7. /\ before \in Seq(Chunked) /\ Len(before) = Len(coming)
      /\ \A k \in 1..Len(coming) : /\ At(before[k]) = At(coming[k])
                                   /\ before[k].ends => coming[k].ends
  <2>1. CASE joins
    <3> DEFINE n == Len(coming)
    <3>1. n \in Nat /\ n \in 1..n /\ coming[n] \in Chunked
      <4> HIDE DEF Chunked
      <4>1. n \in 1..n
        BY <1>1, <1>5, <2>1
      <4>2. QED
        BY <1>5, <4>1, Element
    <3> DEFINE b == [coming[n] EXCEPT !.ends = FALSE]
    <3>2. before = [coming EXCEPT ![n] = b]
      BY <2>1
    <3>3. b \in Chunked /\ At(b) = At(coming[n]) /\ ~b.ends
      BY <3>1 DEF At
    <3> HIDE DEF b, Chunked
    <3>4. before \in Seq(Chunked) /\ Len(before) = n
          /\ \A k \in 1..n : before[k] = IF k = n THEN b ELSE coming[k]
      <4> DEFINE e == [coming EXCEPT ![n] = b]
      <4>1. /\ e \in Seq(Chunked) /\ Len(e) = Len(coming)
            /\ \A k \in 1..Len(coming) : e[k] = IF k = n THEN b ELSE coming[k]
        BY <1>5, <3>1, <3>3, Changed
      <4>2. QED
        BY <3>2, <4>1
    <3> HIDE DEF before
    <3>5. QED
      BY <3>3, <3>4
  <2>2. CASE ~joins
    BY <1>5, <2>2
  <2>3. QED
    BY <2>1, <2>2
<1> HIDE DEF before, new
<1>8. /\ coming' \in Seq(Chunked) /\ Len(coming') = Len(coming) + size
      /\ \A k \in 1..Len(coming) : coming'[k] = before[k]
      /\ \A k \in 1..size : coming'[Len(coming) + k] = new[k]
  <2> HIDE DEF Chunked
  <2>1. /\ before \o new \in Seq(Chunked) /\ Len(before \o new) = Len(before) + Len(new)
        /\ \A k \in 1..Len(before) : (before \o new)[k] = before[k]
        /\ \A k \in 1..Len(new) : (before \o new)[Len(before) + k] = new[k]
    <3>1. before \in Seq(Chunked) /\ new \in Seq(Chunked)
      BY <1>6, <1>7
    <3>2. QED
      BY <3>1, Joined
  <2>2. QED
    BY <1>1, <1>6, <1>7, <2>1
<1>9. QED
  BY <1>1, <1>2, <1>3, <1>4, <1>6, <1>7, <1>8 DEF size, Stream

-----------------------------------------------------------------------------
\* Types, chunks and counts hold initially, ...
LEMMA FirstTypes == Init => Types /\ Chunks /\ Count
<1> SUFFICES ASSUME Init PROVE Types /\ Chunks /\ Count
  OBVIOUS
<1>1. Power[LengthBytes] \in Nat \ {0}
  BY PowerIs, Constants
<1>2. \A S : <<>> \in Seq(S)
  OBVIOUS
<1>3. Types
  <2>1. sent = <<>> /\ coming = <<>> /\ received = <<>> /\ readbuf = <<>> /\ accepted = <<>>
    BY DEF Init
  <2>2. Len(sent) = 0 /\ Len(coming) = 0 /\ Len(received) = 0 /\ Len(readbuf) = 0
    BY <2>1
  <2>3. AreBytes(coming) /\ AreBytes(received) /\ AreBytes(readbuf)
    BY <2>2 DEF AreBytes
  <2>4. /\ sent \in Seq([conn : Nat, length : Lengths]) /\ coming \in Stream /\ received \in Stream
        /\ readbuf \in Seq(Bytes) /\ accepted \in Seq(Seq(Bytes))
    BY <1>2, <2>1 DEF Stream
  <2>5. QED
    <3>1. layer \in Layers /\ conn = 1 /\ prepend = FALSE /\ pc = "header" /\ mishaps = {}
      BY DEF Init
    <3>2. Len(sent) <= MaxPackets
      BY <2>2, Constants
    <3>3. QED
      BY <2>3, <2>4, <3>1, <3>2 DEF Types
<1>4. Chunks /\ Count
  BY <1>1 DEF Init, Chunks, Count, Ended
<1>5. QED
  BY <1>3, <1>4

\* ... when the broker sends a packet, ...
LEMMA SendTypes ==
    ASSUME Types, Chunks, Count, NEW length \in Lengths, NEW cutAt \in Nat, NEW joins \in BOOLEAN,
           BrokerSends(length, cutAt, joins)
    PROVE  Types' /\ Chunks' /\ Count'
<1> DEFINE size == 1 + LengthSize(length) + length
<1>1. /\ NewSize(Len(sent) + 1) = size /\ size \in Nat \ {0}
      /\ coming' \in Stream /\ Len(coming') = Len(coming) + size
      /\ \A k \in 1..Len(coming) : /\ At(coming'[k]) = At(coming[k])
                                   /\ coming'[k].ends => coming[k].ends
      /\ \A k \in 1..size : coming'[Len(coming) + k] =
            [of |-> Len(sent) + 1, at |-> k, ends |-> k \in {cutAt, size}]
      /\ mishaps' = IF cutAt = size THEN mishaps ELSE mishaps \cup {"split"}
  BY ComingGrows
<1>2. /\ sent' = Append(sent, [conn |-> conn, length |-> length]) /\ Len(sent) < MaxPackets
      /\ UNCHANGED <<layer, conn, received, prepend, pc, readbuf, rem_len, accepted>>
  BY DEF BrokerSends
<1> HIDE DEF size
<1>3. /\ sent' \in Seq([conn : Nat, length : Lengths])
      /\ Len(sent') = Len(sent) + 1 /\ Len(sent) \in Nat
      /\ \A i \in 1..Len(sent) : sent'[i] = sent[i] /\ NewSize(i) = Size(i)
  BY <1>2, SentGrows
<1>4. \A b : IsByte(b) => b.of \in 1..Len(sent') /\ b.at \in 1..NewSize(b.of)
  BY <1>3 DEF IsByte
<1>5. AreBytes(received)' /\ AreBytes(readbuf)'
  <2>1. /\ AreBytes(received)' <=> \A k \in 1..Len(received) :
                received[k].of \in 1..Len(sent') /\ received[k].at \in 1..NewSize(received[k].of)
        /\ AreBytes(readbuf)' <=> \A k \in 1..Len(readbuf) :
                readbuf[k].of \in 1..Len(sent') /\ readbuf[k].at \in 1..NewSize(readbuf[k].of)
    BY <1>2 DEF AreBytes, IsByte, Size, NewSize
  <2>2. QED
    BY <1>4, <2>1 DEF Types, AreBytes
<1>6. AreBytes(coming)'
  <2> SUFFICES ASSUME NEW k \in 1..Len(coming')
               PROVE  coming'[k].of \in 1..Len(sent') /\ coming'[k].at \in 1..NewSize(coming'[k].of)
    BY DEF AreBytes, IsByte, Size, NewSize
  <2>0. Len(coming) \in Nat
    BY DEF Types, Stream
  <2>1. CASE k \in 1..Len(coming)
    <3>1. coming'[k].of = coming[k].of /\ coming'[k].at = coming[k].at
      BY <1>1, <2>1 DEF At
    <3>2. IsByte(coming[k])
      BY <2>1 DEF Types, AreBytes
    <3>3. QED
      BY <1>4, <3>1, <3>2
  <2>2. CASE k \notin 1..Len(coming)
    <3> DEFINE j == k - Len(coming)
    <3>1. j \in 1..size /\ k = Len(coming) + j
      BY <1>1, <2>0, <2>2
    <3> HIDE DEF j
    <3>2. coming'[k].of = Len(sent) + 1 /\ coming'[k].at = j
      <4>1. coming'[k] = [of |-> Len(sent) + 1, at |-> j, ends |-> j \in {cutAt, size}]
        BY <1>1, <3>1
      <4>2. QED
        BY <4>1
    <3>3. QED
      BY <1>1, <1>3, <3>1, <3>2
  <2>3. QED
    BY <2>1, <2>2
<1>7. mishaps' \subseteq Mishaps
  BY <1>1 DEF Types, Mishaps
<1>8. Types'
  <2>1. Len(sent') <= MaxPackets
    BY <1>2, <1>3, Constants
  <2>2. layer \in Layers /\ conn \in Nat /\ received \in Stream /\ prepend \in BOOLEAN
        /\ pc \in {"header", "length", "body", "dispatch"}
        /\ readbuf \in Seq(Bytes) /\ accepted \in Seq(Seq(Bytes))
    BY DEF Types
  <2>3. QED
   BY <2>1, <2>2, <1>1, <1>2, <1>3, <1>5, <1>6, <1>7 DEF Types
<1>9. Ended(coming)'
  <2>1. size \in 1..size
    BY <1>1
  <2>2. coming'[Len(coming) + size] =
            [of |-> Len(sent) + 1, at |-> size, ends |-> size \in {cutAt, size}]
    BY <1>1, <2>1
  <2>3. coming'[Len(coming) + size].ends /\ Len(coming') = Len(coming) + size
    <3> DEFINE e == size \in {cutAt, size}
    <3>1. e
      OBVIOUS
    <3>2. coming'[Len(coming) + size] = [of |-> Len(sent) + 1, at |-> size, ends |-> e]
      BY <2>2
    <3> HIDE DEF e
    <3>3. coming'[Len(coming) + size].ends = e
      BY <3>2
    <3>4. QED
      BY <1>1, <3>1, <3>3
  <2>4. QED
    BY <2>3 DEF Ended
<1>10. Chunks' /\ Count'
  BY <1>2, <1>9 DEF Chunks, Count, Ended
<1>11. QED
  BY <1>8, <1>10

\* What the first chunk of the stream holds.
LEMMA FirstOf ==
    ASSUME NEW s \in Stream, AreBytes(s), Ended(s), s # <<>>
    PROVE  LET t == SubSeq(s, 1, FirstChunk(s))
           IN  /\ t \in Stream /\ AreBytes(t) /\ Ended(t) /\ t # <<>>
               /\ Len(t) \in 1..Len(s) /\ \A k \in 1..Len(t) : t[k] = s[k]
<1> DEFINE n == FirstChunk(s)
           t == SubSeq(s, 1, n)
<1>1. n \in 1..Len(s) /\ s[n].ends
  BY FirstChunkIs DEF Stream, Ended
<1> HIDE DEF n
<1>2. t \in Stream /\ Len(t) = n /\ \A k \in 1..n : t[k] = s[k]
  <2>1. n \in 0..Len(s) /\ s \in Stream
    BY <1>1
  <2>2. QED
    BY <2>1, Prefix DEF Stream
<1> HIDE DEF t
<1>3. n \in 1..n /\ Len(s) \in Nat /\ t # <<>>
  BY <1>1, <1>2 DEF Stream
<1>4. AreBytes(t) /\ Ended(t)
  BY <1>1, <1>2, <1>3 DEF AreBytes, Ended
<1>5. QED
  BY <1>1, <1>2, <1>3, <1>4 DEF t, n

\* The chunk that arrives is the beginning of what is under way.
LEMMA ChunkMoves ==
    ASSUME Types, Chunks, ChunkArrives
    PROVE  \E n \in 1..Len(coming) :
              /\ received' \in Stream /\ coming' \in Stream /\ coming[n].ends
              /\ Len(received') = Len(received) + n /\ Len(coming') = Len(coming) - n
              /\ \A k \in 1..Len(received) : received'[k] = received[k]
              /\ \A k \in 1..n : received'[Len(received) + k] = coming[k]
              /\ \A k \in 1..(Len(coming) - n) : coming'[k] = coming[n + k]
<1> DEFINE n == FirstChunk(coming)
           first == SubSeq(coming, 1, n)
           rest == SubSeq(coming, n + 1, Len(coming))
<1>1. received' = received \o first /\ coming' = rest /\ coming # <<>>
  BY DEF ChunkArrives
<1>2. coming \in Stream /\ received \in Stream
  BY DEF Types
<1>3. n \in 1..Len(coming) /\ coming[n].ends
  BY <1>1, <1>2, FirstChunkIs DEF Stream, Chunks, Ended
<1> HIDE DEF n
<1>4. n \in 0..Len(coming) /\ Len(coming) \in Nat
  BY <1>2, <1>3 DEF Stream
<1>5. first \in Stream /\ Len(first) = n /\ \A k \in 1..n : first[k] = coming[k]
  BY <1>2, <1>4, Prefix DEF Stream
<1>6. /\ rest \in Stream /\ Len(rest) = Len(coming) - n
      /\ \A k \in 1..(Len(coming) - n) : rest[k] = coming[n + k]
  BY <1>2, <1>4, Suffix DEF Stream
<1> HIDE DEF first, rest
<1>7. /\ received' \in Stream /\ Len(received') = Len(received) + n
      /\ \A k \in 1..Len(received) : received'[k] = received[k]
      /\ \A k \in 1..n : received'[Len(received) + k] = coming[k]
  <2> DEFINE c == received \o first
  <2>1. /\ c \in Stream /\ Len(c) = Len(received) + Len(first)
        /\ \A k \in 1..Len(received) : c[k] = received[k]
        /\ \A k \in 1..Len(first) : c[Len(received) + k] = first[k]
    <3>1. first \in Stream /\ received \in Stream
      BY <1>2, <1>5
    <3>2. QED
      BY <3>1, Joined DEF Stream
  <2>2. received' = c
    BY <1>1
  <2> HIDE DEF c
  <2>3. QED
    BY <1>5, <2>1, <2>2
<1>8. QED
  BY <1>1, <1>3, <1>6, <1>7

\* ... when a chunk arrives, ...
LEMMA ArriveTypes ==
    ASSUME Types, Chunks, Count, ChunkArrives
    PROVE  Types' /\ Chunks' /\ Count'
<1>1. /\ coming # <<>>
      /\ UNCHANGED <<layer, conn, sent, prepend, pc, readbuf, rem_len, accepted, mishaps>>
  BY DEF ChunkArrives
<1>2. PICK n \in 1..Len(coming) :
          /\ received' \in Stream /\ coming' \in Stream /\ coming[n].ends
          /\ Len(received') = Len(received) + n /\ Len(coming') = Len(coming) - n
          /\ \A k \in 1..Len(received) : received'[k] = received[k]
          /\ \A k \in 1..n : received'[Len(received) + k] = coming[k]
          /\ \A k \in 1..(Len(coming) - n) : coming'[k] = coming[n + k]
  BY ChunkMoves
<1>3. Len(coming) \in Nat /\ Len(received) \in Nat /\ AreBytes(coming) /\ AreBytes(received)
  BY DEF Types, Stream
<1>4. /\ AreBytes(coming)' <=> AreBytes(coming')
      /\ AreBytes(received)' <=> AreBytes(received')
      /\ AreBytes(readbuf)' <=> AreBytes(readbuf)
  BY <1>1 DEF AreBytes, IsByte, Size
<1>5. AreBytes(coming')
  <2>1. \A k \in 1..Len(coming') : k \in 1..(Len(coming) - n) /\ n + k \in 1..Len(coming)
    BY <1>2, <1>3
  <2>2. QED
    BY <1>2, <1>3, <2>1 DEF AreBytes
<1>6. AreBytes(received')
  <2> SUFFICES ASSUME NEW k \in 1..Len(received') PROVE IsByte(received'[k])
    BY DEF AreBytes
  <2>1. CASE k \in 1..Len(received)
    BY <1>2, <1>3, <2>1 DEF AreBytes
  <2>2. CASE k \notin 1..Len(received)
    <3> DEFINE j == k - Len(received)
    <3>1. j \in 1..n /\ j \in 1..Len(coming) /\ k = Len(received) + j
      BY <1>2, <1>3, <2>2
    <3> HIDE DEF j
    <3>2. QED
      BY <1>2, <1>3, <3>1 DEF AreBytes
  <2>3. QED
    BY <2>1, <2>2
<1>7. Ended(coming')
  <2> SUFFICES ASSUME coming' # <<>> PROVE coming'[Len(coming')].ends
    BY DEF Ended
  <2>1. Len(coming') \in 1..(Len(coming) - n) /\ n + Len(coming') = Len(coming)
    BY <1>2, <1>3 DEF Stream
  <2>2. QED
    BY <1>1, <1>2, <2>1 DEF Chunks, Ended
<1>8. Ended(received') /\ received' # <<>>
  <2>1. n \in 1..n /\ Len(received') # 0
    BY <1>2, <1>3
  <2>2. received'[Len(received')] = coming[n]
    BY <1>2, <2>1
  <2>3. QED
    BY <1>2, <2>1, <2>2 DEF Ended
<1>9. Types'
  BY <1>1, <1>2, <1>4, <1>5, <1>6 DEF Types
<1>10. Chunks' /\ Count'
  BY <1>1, <1>7, <1>8 DEF Chunks, Count, Ended
<1>11. QED
  BY <1>9, <1>10

\* The empty stream is well formed.
LEMMA Nothing == AreBytes(<<>>) /\ Ended(<<>>) /\ <<>> \in Stream
<1>1. Len(<<>>) = 0 /\ \A S : <<>> \in Seq(S)
  OBVIOUS
<1>2. QED
  BY <1>1 DEF AreBytes, Ended, Stream

\* The layer keeps the first chunk of what it has, or nothing.
LEMMA KeptTypes ==
    ASSUME Types, Chunks, Count, received' \in {<<>>, SubSeq(received, 1, FirstChunk(received))},
           received' # <<>> => received # <<>>,
           coming' = <<>>, UNCHANGED <<layer, sent, pc, readbuf, rem_len>>,
           conn' \in Nat, accepted' \in Seq(Seq(Bytes)), mishaps' \subseteq Mishaps,
           prepend' \in BOOLEAN, prepend' /\ layer # "w5500" => received' # <<>>
    PROVE  Types' /\ Chunks' /\ Count'
<1>1. received' \in Stream /\ AreBytes(received') /\ Ended(received')
  BY Nothing, FirstOf DEF Types, Chunks
<1>2. /\ AreBytes(coming)' <=> AreBytes(coming')
      /\ AreBytes(received)' <=> AreBytes(received')
      /\ AreBytes(readbuf)' <=> AreBytes(readbuf)
  BY DEF AreBytes, IsByte, Size
<1>3. coming' \in Stream /\ AreBytes(coming') /\ Ended(coming')
  BY Nothing
<1>4. Types'
  BY <1>1, <1>2, <1>3 DEF Types
<1>5. Chunks' /\ Count'
  BY <1>1, <1>3 DEF Chunks, Count, Ended
<1>6. QED
  BY <1>4, <1>5

\* ... when the connection is lost, ...
LEMMA LostTypes ==
    ASSUME Types, Chunks, Count, ConnectionLost
    PROVE  Types' /\ Chunks' /\ Count'
<1>1. /\ mishaps' = mishaps \cup {"closed"} /\ coming' = <<>>
      /\ received' = IF layer # "w5500" /\ prepend
                   THEN SubSeq(received, 1, FirstChunk(received)) ELSE <<>>
      /\ UNCHANGED <<layer, conn, sent, prepend, pc, readbuf, rem_len, accepted>>
  BY DEF ConnectionLost
<1>2. received' # <<>> => received # <<>>
  BY <1>1 DEF Chunks
<1>3. prepend /\ layer # "w5500" => received' # <<>>
  BY <1>1, FirstOf DEF Chunks, Types
<1>4. mishaps' \subseteq Mishaps
  BY <1>1 DEF Types, Mishaps
<1>5. conn' \in Nat /\ accepted' \in Seq(Seq(Bytes)) /\ prepend' \in BOOLEAN
  BY <1>1 DEF Types
<1>6. QED
  BY <1>1, <1>2, <1>3, <1>4, <1>5, KeptTypes

\* ... when a new one is made, ...
LEMMA ReconnectTypes ==
    ASSUME Types, Chunks, Count, Reconnect
    PROVE  Types' /\ Chunks' /\ Count'
<1>1. /\ coming' = <<>> /\ received' = KeptBytes /\ prepend' = (KeptBytes # <<>>)
      /\ accepted' = <<>> /\ conn' = conn + 1
      /\ mishaps' = IF KeptBytes = <<>> THEN {} ELSE {"stale"}
      /\ UNCHANGED <<layer, sent, pc, readbuf, rem_len>>
  BY DEF Reconnect
<1>2. /\ received' \in {<<>>, SubSeq(received, 1, FirstChunk(received))}
      /\ received' # <<>> => received # <<>>
  BY <1>1 DEF KeptBytes, Chunks
<1>3. /\ conn' \in Nat /\ accepted' \in Seq(Seq(Bytes))
      /\ prepend' \in BOOLEAN /\ mishaps' \subseteq Mishaps
  <2>1. <<>> \in Seq(Seq(Bytes))
    OBVIOUS
  <2>2. QED
    BY <1>1, <2>1 DEF Types, Mishaps
<1>4. prepend' /\ layer # "w5500" => received' # <<>>
  BY <1>1
<1>5. QED
  BY <1>1, <1>2, <1>3, <1>4, KeptTypes

\* ... a byte of the remaining length is read, ...
LEMMA DecodeTypes ==
    ASSUME Types, Chunks, Count, DecodeByte
    PROVE  Types' /\ Chunks' /\ Count'
<1>1. /\ pc = "length" /\ Len(readbuf) <= LengthBytes /\ mqttread(1, "short")
      /\ UNCHANGED <<layer, conn, sent, coming, accepted>>
  BY DEF DecodeByte, LengthByteLeft
<1>2. /\ AreBytes(coming)' /\ AreBytes(received)' /\ AreBytes(readbuf)'
      /\ received' \in Stream /\ readbuf' \in Seq(Bytes) /\ mishaps' \subseteq Mishaps
      /\ Chunks' /\ prepend' \in BOOLEAN
      /\ Len(readbuf') = Len(readbuf) + Got(1)
  BY <1>1, ReadStays
<1>3. Len(readbuf) \in 1..LengthBytes /\ rem_len \in 0..(Power[Len(readbuf) - 1] - 1)
  BY <1>1, Constants DEF Count
<1>4. Got(1) \in 0..1 /\ (received # <<>> => Got(1) = 1)
  BY ReachIs DEF Got
<1>5. /\ Count'
      /\ pc' \in {"length", "body"}
  <2> DEFINE l == Len(readbuf)
  <2>1. CASE received = <<>>
    <3>1. pc' = "body" /\ rem_len' = rem_len
      BY <2>1 DEF DecodeByte
    <3>2. readbuf' # <<>>
      BY <1>2, <1>3, <1>4
    <3>3. QED
      BY <3>1, <3>2 DEF Count
  <2>2. CASE received # <<>>
    <3>1. PICK d \in Digit(received[1]) :
              /\ rem_len' = Weighted(rem_len, d.value, l - 1)
              /\ pc' = IF d.more THEN "length" ELSE "body"
      BY <2>2 DEF DecodeByte
    <3>2. d.value \in 0..(Base - 1)
      <4>1. /\ 1 \in 1..Len(received)
            /\ received \in Seq([of : 1..MaxPackets, at : Nat \ {0}, ends : BOOLEAN])
        BY <2>2 DEF Types, Stream
      <4>2. received[1].at \in Nat \ {0}
        <5>1. received[1] \in [of : 1..MaxPackets, at : Nat \ {0}, ends : BOOLEAN]
          BY <4>1, Element
        <5>2. QED
          BY <5>1
      <4>3. IsByte(received[1])
        BY <4>1 DEF Types, AreBytes
      <4>4. QED
        BY <4>2, <4>3, DigitIs
    <3>3. rem_len' \in 0..(Power[l] - 1) /\ Power[l] \in Nat \ {0} /\ Power[l] <= Power[LengthBytes]
          /\ Power[LengthBytes] \in Nat
      <4> HIDE DEF l
      <4>1. l \in 0..LengthBytes /\ LengthBytes \in 0..LengthBytes
        BY <1>3, Constants DEF l
      <4>2. Weighted(rem_len, d.value, l - 1) \in 0..(Power[l] - 1)
        BY <1>3, <3>2, WeightedIs DEF l
      <4>3. QED
        BY <3>1, <4>1, <4>2, PowerIs
    <3>4. Len(readbuf') = l + 1 /\ l \in 1..LengthBytes
      BY <1>2, <1>3, <1>4, <2>2
    <3>5. rem_len' \in 0..(Power[LengthBytes] - 1)
      <4> DEFINE p == Power[l]
                 q == Power[LengthBytes]
      <4> HIDE DEF p, q
      <4>1. rem_len' \in 0..(p - 1) /\ p \in Nat \ {0} /\ q \in Nat /\ p <= q
        BY <3>3 DEF p, q
      <4>2. rem_len' \in 0..(q - 1)
        BY <4>1
      <4>3. QED
        BY <4>2 DEF q
    <3>6. Len(readbuf') - 1 = l /\ Len(readbuf') \in 1..(LengthBytes + 1) /\ readbuf' # <<>>
      BY <3>4, Constants
    <3>7. pc' \in {"length", "body"}
      BY <3>1
    <3>8. QED
      BY <3>3, <3>5, <3>6, <3>7 DEF Count
  <2>3. QED
    BY <2>1, <2>2
<1>6. Types'
  BY <1>1, <1>2, <1>5 DEF Types
<1>7. QED
  BY <1>2, <1>5, <1>6

\* ... the header is read, ...
LEMMA HeaderTypes ==
    ASSUME Types, Chunks, Count, ReadHeader
    PROVE  Types' /\ Chunks' /\ Count'
<1>1. /\ pc = "header" /\ mqttread(1, "short") /\ received # <<>> /\ rem_len' = 0 /\ pc' = "length"
      /\ UNCHANGED <<layer, conn, sent, coming, accepted>>
  BY DEF ReadHeader
<1>2. /\ AreBytes(coming)' /\ AreBytes(received)' /\ AreBytes(readbuf)'
      /\ received' \in Stream /\ readbuf' \in Seq(Bytes) /\ mishaps' \subseteq Mishaps
      /\ Chunks' /\ prepend' \in BOOLEAN
      /\ Len(readbuf') = Len(readbuf) + Got(1)
  BY <1>1, ReadStays
<1>3. Len(readbuf') = 1 /\ readbuf' # <<>>
  <2>1. Got(1) = 1 /\ readbuf = <<>>
    BY <1>1, ReachIs DEF Got, Count
  <2>2. QED
    BY <1>2, <2>1
<1>4. Count'
  <2>1. Power[0] = 1 /\ Power[LengthBytes] \in Nat \ {0} /\ 1 \in 1..(LengthBytes + 1) /\ 1 - 1 = 0
    BY PowerIs, Constants
  <2>2. 0 \in 0..(1 - 1) /\ 0 \in 0..(Power[LengthBytes] - 1)
    BY <2>1
  <2>3. QED
    BY <1>1, <1>3, <2>1, <2>2 DEF Count
<1>5. Types'
  BY <1>1, <1>2 DEF Types
<1>6. QED
  BY <1>2, <1>4, <1>5

\* ... and the rest of the packet.
LEMMA BodyTypes ==
    ASSUME Types, Chunks, Count, ReadBody
    PROVE  Types' /\ Chunks' /\ Count'
<1>1. /\ pc = "body" /\ mqttread(rem_len, "cut") /\ pc' = "dispatch" /\ rem_len' = rem_len
      /\ UNCHANGED <<layer, conn, sent, coming>>
      /\ accepted' = IF BodyComplete THEN Append(accepted, readbuf') ELSE accepted
  BY DEF ReadBody
<1>2. rem_len \in Nat
  BY Constants, PowerIs DEF Count
<1>3. /\ AreBytes(coming)' /\ AreBytes(received)' /\ AreBytes(readbuf)'
      /\ received' \in Stream /\ readbuf' \in Seq(Bytes) /\ mishaps' \subseteq Mishaps
      /\ Chunks' /\ prepend' \in BOOLEAN
      /\ Len(readbuf') = Len(readbuf) + Got(rem_len)
  BY <1>1, <1>2, ReadStays
<1>4. accepted' \in Seq(Seq(Bytes))
  <2>1. accepted \in Seq(Seq(Bytes))
    BY DEF Types
  <2>2. QED
    BY <1>1, <1>3, <2>1
<1>5. readbuf' # <<>>
  <2>1. readbuf # <<>> /\ Got(rem_len) \in Nat
    BY <1>1, <1>2, ReachIs DEF Count, Got
  <2>2. Len(readbuf) \in Nat \ {0}
    BY <2>1 DEF Types
  <2>3. QED
    BY <1>3, <2>1, <2>2
<1>6. Types' /\ Count'
  BY <1>1, <1>3, <1>4, <1>5 DEF Types, Count
<1>7. QED
  BY <1>3, <1>6

\* Every step keeps types, chunks and counts.
LEMMA TypesStay == Types /\ Chunks /\ Count /\ [Next]_vars => Types' /\ Chunks' /\ Count'
<1> SUFFICES ASSUME Types, Chunks, Count, [Next]_vars PROVE Types' /\ Chunks' /\ Count'
  OBVIOUS
<1>1. CASE Network
  <2>1. CASE \E length \in Lengths, joins \in BOOLEAN :
                \E cutAt \in 1..(1 + LengthBytes + length) : BrokerSends(length, cutAt, joins)
    <3>1. PICK length \in Lengths, joins \in BOOLEAN :
              \E cutAt \in 1..(1 + LengthBytes + length) : BrokerSends(length, cutAt, joins)
      BY <2>1
    <3>2. PICK cutAt \in 1..(1 + LengthBytes + length) : BrokerSends(length, cutAt, joins)
      BY <3>1
    <3>3. cutAt \in Nat
      OBVIOUS
    <3>4. QED
      BY <3>2, <3>3, SendTypes
  <2>2. QED
    BY <1>1, <2>1, ArriveTypes, LostTypes DEF Network
<1>2. CASE ReadHeader \/ DecodeByte \/ ReadBody
  BY <1>2, HeaderTypes, DecodeTypes, BodyTypes
<1>3. CASE BadLength \/ CycleEnds \/ sendPacket \/ UNCHANGED vars
  <2>1. /\ UNCHANGED <<layer, conn, sent, coming, received, prepend, accepted>>
        /\ mishaps' \subseteq Mishaps
    BY <1>3 DEF BadLength, CycleEnds, sendPacket, SendPlain, SendRecord, SendWaiting, Writing, vars,
                readVars, Types, Mishaps
  <2>2. /\ readbuf' = readbuf \/ readbuf' = <<>>
        /\ pc' \in {"header", "length", "body", "dispatch"}
        /\ Count'
    <3>1. CASE BadLength
      BY <3>1 DEF BadLength, Count
    <3>2. CASE CycleEnds
      <4>1. 0 \in 0..(Power[LengthBytes] - 1)
        BY PowerIs, Constants
      <4>2. QED
        BY <3>2, <4>1 DEF CycleEnds, Count
    <3>3. CASE sendPacket \/ UNCHANGED vars
      BY <3>3 DEF sendPacket, SendPlain, SendRecord, SendWaiting, Writing,
                  vars, readVars, Types, Count
    <3>4. QED
      BY <1>3, <3>1, <3>2, <3>3
  <2>3. readbuf' \in Seq(Bytes) /\ AreBytes(readbuf') /\ AreBytes(received') /\ AreBytes(coming')
    <3>1. <<>> \in Seq(Bytes)
      OBVIOUS
    <3>2. QED
      BY <2>1, <2>2, <3>1, Nothing DEF Types
  <2>4. /\ AreBytes(coming)' <=> AreBytes(coming')
        /\ AreBytes(received)' <=> AreBytes(received')
        /\ AreBytes(readbuf)' <=> AreBytes(readbuf')
    BY <2>1 DEF AreBytes, IsByte, Size
  <2>5. Types' /\ Chunks'
    BY <2>1, <2>2, <2>3, <2>4 DEF Types, Chunks, Ended
  <2>6. QED
    BY <2>2, <2>5
<1>4. CASE Reconnect
  BY <1>4, ReconnectTypes
<1>5. QED
  BY <1>1, <1>2, <1>3, <1>4 DEF Next, readPacket

\* The byte at of packet of; the place after it; how many bytes there are.
Place == [of : Nat, at : Nat]
Start(i) == [of |-> i, at |-> 1]
After(p) == IF p.at = Size(p.of) THEN Start(p.of + 1) ELSE [of |-> p.of, at |-> p.at + 1]
Ahead == Len(readbuf) + Len(received) + Len(coming)

\* f is where the bytes lie, from the first one of readbuf on, ...
Lies(f) ==
    /\ f \in [Nat -> Place]
    /\ \A k \in 1..Len(readbuf) : readbuf[k] = f[k]
    /\ \A k \in 1..Len(received) : At(received[k]) = f[Len(readbuf) + k]
    /\ \A k \in 1..Len(coming) : At(coming[k]) = f[Len(readbuf) + Len(received) + k]
\* ... and its first n bytes are consecutive bytes of packets of this connection.
Runs(f, n) ==
    \A k \in 1..n : /\ f[k].of \in 1..Len(sent) /\ f[k].at \in 1..Size(f[k].of)
                    /\ sent[f[k].of].conn = conn
                    /\ f[k + 1] = After(f[k])
Along(f) ==
    /\ Lies(f) /\ Runs(f, Ahead)
    /\ ~Closed => f[Ahead + 1] = Start(Len(sent) + 1)

\* The lengths of the parts of the stream.
LEMMA Lengths3 ==
    ASSUME Types
    PROVE  Len(readbuf) \in Nat /\ Len(received) \in Nat /\ Len(coming) \in Nat /\ Len(sent) \in Nat
           /\ Ahead \in Nat
<1>1. Len(readbuf) \in Nat /\ Len(received) \in Nat /\ Len(coming) \in Nat /\ Len(sent) \in Nat
  BY DEF Types, Stream
<1>2. QED
  BY <1>1 DEF Ahead

\* From the start of a packet on, byte after byte of it.
LEMMA Straight ==
    ASSUME Types, NEW f \in [Nat -> Place], NEW n \in Nat, Runs(f, n),
           NEW i \in Nat, f[1] = Start(i)
    PROVE  /\ \A j \in 1..(n + 1) : j <= Size(i) => f[j] = [of |-> i, at |-> j]
           /\ Size(i) \in 1..n => f[Size(i) + 1] = Start(i + 1)
<1> DEFINE S == {j \in Nat : j + 1 <= n + 1 /\ j + 1 <= Size(i) =>
                                f[j + 1] = [of |-> i, at |-> j + 1]}
<1>1. 0 \in S
  BY DEF Start
<1>2. ASSUME NEW j \in Nat, j \in S PROVE j + 1 \in S
  <2> SUFFICES ASSUME (j + 1) + 1 <= n + 1, (j + 1) + 1 <= Size(i)
               PROVE  f[(j + 1) + 1] = [of |-> i, at |-> (j + 1) + 1]
    OBVIOUS
  <2> DEFINE k == j + 1
  <2>1. k \in 1..n /\ j + 1 <= n + 1 /\ 1 <= n
    OBVIOUS
  <2>2. Size(i) \in Nat
    <3>1. 1 \in 1..n
      BY <2>1
    <3>2. f[1].of \in 1..Len(sent)
      BY <3>1 DEF Runs
    <3>3. i \in 1..Len(sent)
      BY <3>2 DEF Start
    <3>4. QED
      BY <3>3, SizeIs
  <2>3. f[k] = [of |-> i, at |-> k] /\ k < Size(i)
    BY <1>2, <2>1, <2>2
  <2>4. f[k + 1] = After(f[k])
    BY <2>1 DEF Runs
  <2> HIDE DEF k
  <2>5. After([of |-> i, at |-> k]) = [of |-> i, at |-> k + 1]
    BY <2>1, <2>2, <2>3 DEF After
  <2>6. QED
    BY <2>3, <2>4, <2>5 DEF k
<1>3. \A j \in Nat : j \in S
  <2> HIDE DEF S
  <2>1. QED
    BY <1>1, <1>2, Induction
<1>4. \A j \in 1..(n + 1) : j <= Size(i) => f[j] = [of |-> i, at |-> j]
  <2> TAKE j \in 1..(n + 1)
  <2>1. j - 1 \in Nat /\ (j - 1) + 1 = j
    OBVIOUS
  <2>2. QED
    BY <1>3, <2>1
<1>5. Size(i) \in 1..n => f[Size(i) + 1] = Start(i + 1)
  <2> SUFFICES ASSUME Size(i) \in 1..n PROVE f[Size(i) + 1] = Start(i + 1)
    OBVIOUS
  <2> DEFINE m == Size(i)
  <2>1. f[m] = [of |-> i, at |-> m]
    BY <1>4
  <2>2. f[m + 1] = After(f[m])
    BY DEF Runs
  <2>3. After([of |-> i, at |-> m]) = Start(i + 1)
    BY DEF After
  <2>4. QED
    BY <2>1, <2>2, <2>3
<1>6. QED
  BY <1>4, <1>5

-----------------------------------------------------------------------------
\* The places stay when bytes are read, ...
LEMMA TakeAlong ==
    ASSUME Types, NEW f, Along(f), NEW g \in Nat, Took(g), UNCHANGED <<conn, sent, coming>>,
           Closed' = Closed
    PROVE  Along(f)'
<1>1. Len(readbuf) \in Nat /\ Len(received) \in Nat /\ Len(coming) \in Nat
  BY Lengths3
<1>2. g <= Len(received) /\ Len(readbuf') = Len(readbuf) + g /\ Len(received') = Len(received) - g
  BY DEF Took
<1>3. Ahead' = Ahead
  BY <1>1, <1>2 DEF Ahead
<1>4. \A k \in 1..Len(readbuf') : readbuf'[k] = f[k]
  <2> TAKE k \in 1..Len(readbuf')
  <2>1. CASE k \in 1..Len(readbuf)
    BY <2>1 DEF Took, Along, Lies
  <2>2. CASE k \notin 1..Len(readbuf)
    <3> DEFINE j == k - Len(readbuf)
    <3>1. j \in 1..g /\ j \in 1..Len(received) /\ k = Len(readbuf) + j
      BY <1>1, <1>2, <2>2
    <3> HIDE DEF j
    <3>2. readbuf'[k] = At(received[j]) /\ At(received[j]) = f[Len(readbuf) + j]
      BY <3>1 DEF Took, Along, Lies
    <3>3. QED
      BY <3>1, <3>2
  <2>3. QED
    BY <2>1, <2>2
<1>5. \A k \in 1..Len(received') : At(received'[k]) = f[Len(readbuf') + k]
  <2> TAKE k \in 1..Len(received')
  <2>1. g + k \in 1..Len(received) /\ k \in 1..(Len(received) - g)
    BY <1>1, <1>2
  <2>2. received'[k] = received[g + k] /\ At(received[g + k]) = f[Len(readbuf) + (g + k)]
    BY <2>1 DEF Took, Along, Lies
  <2>3. Len(readbuf) + (g + k) = Len(readbuf') + k
    BY <1>1, <1>2
  <2>4. QED
    BY <2>2, <2>3
<1>6. \A k \in 1..Len(coming) : At(coming[k]) = f[Len(readbuf') + Len(received') + k]
  <2>1. Len(readbuf') + Len(received') = Len(readbuf) + Len(received)
    BY <1>1, <1>2
  <2>2. QED
    BY <2>1 DEF Along, Lies
<1>7. Lies(f)'
  BY <1>4, <1>5, <1>6 DEF Lies, Along, At
<1>8. Runs(f, Ahead)'
  BY <1>3 DEF Along, Runs, After, Start, Size
<1>9. QED
  BY <1>3, <1>7, <1>8 DEF Along, Start

\* ... when a chunk arrives, ...
LEMMA ArriveAlong ==
    ASSUME Types, Chunks, NEW f, Along(f), ChunkArrives
    PROVE  Along(f)'
<1>1. UNCHANGED <<conn, sent, readbuf, mishaps>>
  BY DEF ChunkArrives
<1>2. PICK n \in 1..Len(coming) :
          /\ Len(received') = Len(received) + n /\ Len(coming') = Len(coming) - n
          /\ \A k \in 1..Len(received) : received'[k] = received[k]
          /\ \A k \in 1..n : received'[Len(received) + k] = coming[k]
          /\ \A k \in 1..(Len(coming) - n) : coming'[k] = coming[n + k]
  BY ChunkMoves
<1>3. Len(readbuf) \in Nat /\ Len(received) \in Nat /\ Len(coming) \in Nat
  BY Lengths3
<1>4. Ahead' = Ahead
  BY <1>1, <1>2, <1>3 DEF Ahead
<1>5. \A k \in 1..Len(received') : At(received'[k]) = f[Len(readbuf) + k]
  <2> TAKE k \in 1..Len(received')
  <2>1. CASE k \in 1..Len(received)
    BY <1>2, <2>1 DEF Along, Lies
  <2>2. CASE k \notin 1..Len(received)
    <3> DEFINE j == k - Len(received)
    <3>1. j \in 1..n /\ j \in 1..Len(coming) /\ k = Len(received) + j
      BY <1>2, <1>3, <2>2
    <3> HIDE DEF j
    <3>2. received'[k] = coming[j] /\ At(coming[j]) = f[Len(readbuf) + Len(received) + j]
      BY <1>2, <3>1 DEF Along, Lies
    <3>3. Len(readbuf) + Len(received) + j = Len(readbuf) + k
      BY <1>3, <3>1
    <3>4. QED
      BY <3>2, <3>3
  <2>3. QED
    BY <2>1, <2>2
<1>6. \A k \in 1..Len(coming') : At(coming'[k]) = f[Len(readbuf) + Len(received') + k]
  <2> TAKE k \in 1..Len(coming')
  <2>1. k \in 1..(Len(coming) - n) /\ n + k \in 1..Len(coming)
    BY <1>2, <1>3
  <2>2. coming'[k] = coming[n + k] /\ At(coming[n + k]) = f[Len(readbuf) + Len(received) + (n + k)]
    BY <1>2, <2>1 DEF Along, Lies
  <2>3. Len(readbuf) + Len(received) + (n + k) = Len(readbuf) + Len(received') + k
    BY <1>2, <1>3, <2>1
  <2>4. QED
    BY <2>2, <2>3
<1>7. Lies(f)'
  BY <1>1, <1>5, <1>6 DEF Lies, Along, At
<1>8. Runs(f, Ahead)'
  BY <1>1, <1>4 DEF Along, Runs, After, Start, Size
<1>9. QED
  BY <1>1, <1>4, <1>7, <1>8 DEF Along, Start, Closed

\* ... and when the connection is lost with what comes last.
LEMMA LostAlong ==
    ASSUME Types, Chunks, NEW f, Along(f), ConnectionLost
    PROVE  Along(f)'
<1>1. /\ mishaps' = mishaps \cup {"closed"} /\ coming' = <<>>
      /\ received' = IF layer # "w5500" /\ prepend
                   THEN SubSeq(received, 1, FirstChunk(received)) ELSE <<>>
      /\ UNCHANGED <<conn, sent, readbuf>>
  BY DEF ConnectionLost
<1>2. Len(received') \in 0..Len(received) /\ \A k \in 1..Len(received') : received'[k] = received[k]
  <2>1. CASE layer # "w5500" /\ prepend
    <3>1. received \in Stream /\ AreBytes(received) /\ Ended(received) /\ received # <<>>
      BY <2>1 DEF Types, Chunks
    <3> DEFINE t == SubSeq(received, 1, FirstChunk(received))
    <3>2. Len(t) \in 1..Len(received) /\ \A k \in 1..Len(t) : t[k] = received[k]
      BY <3>1, FirstOf
    <3>3. received' = t
      BY <1>1, <2>1
    <3> HIDE DEF t
    <3>4. QED
      BY <3>2, <3>3
  <2>2. CASE ~(layer # "w5500" /\ prepend)
    <3>1. Len(received') = 0 /\ Len(received) \in Nat
      BY <1>1, <2>2, Lengths3
    <3>2. QED
      BY <3>1
  <2>3. QED
    BY <2>1, <2>2
<1>3. Len(coming') = 0 /\ Len(readbuf) \in Nat /\ Len(received) \in Nat /\ Len(coming) \in Nat
  BY <1>1, Lengths3
<1>4. Ahead' \in 0..Ahead
  <2>1. Len(readbuf') = Len(readbuf)
    BY <1>1
  <2>2. QED
    BY <1>2, <1>3, <2>1 DEF Ahead
<1>5. Lies(f)'
  <2>1. \A k \in 1..Len(coming') : FALSE
    BY <1>3
  <2>2. \A k \in 1..Len(received') : k \in 1..Len(received)
    BY <1>2, <1>3
  <2>3. \A k \in 1..Len(received') : At(received'[k]) = f[Len(readbuf) + k]
    BY <1>2, <2>2 DEF Along, Lies
  <2>4. readbuf' = readbuf
    BY <1>1
  <2>5. QED
    BY <2>1, <2>3, <2>4 DEF Along, Lies, At
<1>6. Runs(f, Ahead)'
  <2>1. \A k \in 1..Ahead' : k \in 1..Ahead
    BY <1>3, <1>4 DEF Ahead
  <2>2. QED
    BY <1>1, <2>1 DEF Along, Runs, After, Start, Size
<1>7. QED
  BY <1>1, <1>5, <1>6 DEF Along, Closed

\* ... and go on when the broker sends a packet.
LEMMA SendsAlong ==
    ASSUME Types, NEW f, Along(f), NEW length \in Lengths, NEW cutAt \in Nat, NEW joins \in BOOLEAN,
           BrokerSends(length, cutAt, joins)
    PROVE  \E g : Along(g)' /\ \A k \in 1..(Ahead + 1) : g[k] = f[k]
<1> DEFINE size == 1 + LengthSize(length) + length
           new == Len(sent) + 1
           h == [k \in Nat |-> IF k <= Ahead THEN f[k]
                               ELSE IF k <= Ahead + size THEN [of |-> new, at |-> k - Ahead]
                               ELSE Start(new + 1)]
<1>1. /\ NewSize(new) = size /\ size \in Nat \ {0}
      /\ Len(coming') = Len(coming) + size
      /\ \A k \in 1..Len(coming) : At(coming'[k]) = At(coming[k])
      /\ \A k \in 1..size : coming'[Len(coming) + k] =
            [of |-> new, at |-> k, ends |-> k \in {cutAt, size}]
  BY ComingGrows
<1>2. /\ sent' = Append(sent, [conn |-> conn, length |-> length]) /\ ~Closed
      /\ UNCHANGED <<conn, received, readbuf>>
  BY DEF BrokerSends
<1> HIDE DEF size
<1>3. /\ Len(sent') = Len(sent) + 1 /\ Len(sent) \in Nat
      /\ \A i \in 1..Len(sent) : sent'[i] = sent[i] /\ NewSize(i) = Size(i)
      /\ sent'[new].conn = conn
  <2>1. /\ Len(sent') = Len(sent) + 1 /\ Len(sent) \in Nat
        /\ \A i \in 1..Len(sent) : sent'[i] = sent[i] /\ NewSize(i) = Size(i)
        /\ sent'[Len(sent')] = [conn |-> conn, length |-> length]
    BY <1>2, SentGrows
  <2>2. QED
    BY <2>1
<1>4. /\ Len(readbuf) \in Nat /\ Len(received) \in Nat /\ Len(coming) \in Nat /\ Ahead \in Nat
      /\ Ahead = Len(readbuf) + Len(received) + Len(coming)
  BY Lengths3 DEF Ahead
<1>5. Ahead' = Ahead + size
  <2>1. Ahead' = Len(readbuf) + Len(received) + Len(coming')
    BY <1>2 DEF Ahead
  <2>2. QED
    BY <1>1, <1>4, <2>1
<1> DEFINE n == Ahead
<1> HIDE DEF n
<1>6. n = Ahead /\ n \in Nat /\ f \in [Nat -> Place] /\ f[n + 1] = Start(new)
  BY <1>2, <1>4 DEF n, Along, Lies
<1>7. PICK g \in [Nat -> Place] :
         /\ \A k \in 1..n : g[k] = f[k]
         /\ \A k \in 1..size : g[n + k] = [of |-> new, at |-> k]
         /\ g[n + size + 1] = Start(new + 1)
  <2>1. \A k \in Nat : k <= n => h[k] = f[k]
    BY <1>6
  <2>2. \A k \in 1..size : h[n + k] = [of |-> new, at |-> k]
    <3>1. \A k \in 1..size : n + k \in Nat /\ ~(n + k <= n) /\ n + k <= n + size /\ (n + k) - n = k
      BY <1>1, <1>6
    <3>2. QED
      BY <1>6, <3>1
  <2>3. h[n + size + 1] = Start(new + 1)
    <3>1. n + size + 1 \in Nat /\ ~(n + size + 1 <= n) /\ ~(n + size + 1 <= n + size)
      BY <1>1, <1>6
    <3>2. QED
      BY <1>6, <3>1
  <2>4. \A k \in Nat : h[k] \in Place
    <3> TAKE k \in Nat
    <3>1. CASE k <= n
      BY <1>6, <3>1
    <3>2. CASE ~(k <= n) /\ k <= n + size
      <4>1. new \in Nat /\ k - n \in Nat
        BY <1>3, <1>6, <3>2
      <4>2. h[k] = [of |-> new, at |-> k - n]
        BY <1>6, <3>2
      <4>3. QED
        BY <4>1, <4>2 DEF Place
    <3>3. CASE ~(k <= n) /\ ~(k <= n + size)
      BY <1>3, <1>6, <3>3 DEF Place, Start
    <3>4. QED
      BY <3>1, <3>2, <3>3
  <2>5. h \in [Nat -> Place]
    BY <2>4
  <2> HIDE DEF h
  <2>6. QED
    BY <2>1, <2>2, <2>3, <2>5
<1>8. \A k \in 1..(n + 1) : g[k] = f[k]
  <2>1. g[n + 1] = f[n + 1]
    <3>1. 1 \in 1..size
      BY <1>1
    <3>2. QED
      BY <1>6, <1>7, <3>1 DEF Start
  <2>2. \A k \in 1..(n + 1) : k \in 1..n \/ k = n + 1
    BY <1>6
  <2>3. QED
    BY <1>7, <2>1, <2>2
<1>9. Lies(g)'
  <2>1. \A k \in 1..Len(readbuf) : readbuf[k] = g[k]
    <3>1. \A k \in 1..Len(readbuf) : k \in 1..n
      BY <1>4, <1>6
    <3>2. QED
      BY <1>7, <3>1 DEF Along, Lies
  <2>2. \A k \in 1..Len(received) : At(received[k]) = g[Len(readbuf) + k]
    <3>1. \A k \in 1..Len(received) : Len(readbuf) + k \in 1..n
      BY <1>4, <1>6
    <3>2. QED
      BY <1>7, <3>1 DEF Along, Lies
  <2>3. \A k \in 1..Len(coming') : At(coming'[k]) = g[Len(readbuf) + Len(received) + k]
    <3> TAKE k \in 1..Len(coming')
    <3>1. CASE k \in 1..Len(coming)
      <4>1. Len(readbuf) + Len(received) + k \in 1..n
        BY <1>4, <1>6, <3>1
      <4>2. QED
        BY <1>1, <1>7, <3>1, <4>1 DEF Along, Lies
    <3>2. CASE k \notin 1..Len(coming)
      <4> DEFINE j == k - Len(coming)
      <4>1. j \in 1..size /\ k = Len(coming) + j /\ Len(readbuf) + Len(received) + k = n + j
        BY <1>1, <1>4, <1>6, <3>2
      <4> HIDE DEF j
      <4>2. coming'[k] = [of |-> new, at |-> j, ends |-> j \in {cutAt, size}]
        BY <1>1, <4>1
      <4>3. At(coming'[k]) = [of |-> new, at |-> j]
        BY <4>2 DEF At
      <4>4. QED
        BY <1>7, <4>1, <4>3
    <3>3. QED
      BY <3>1, <3>2
  <2>4. QED
    BY <1>2, <1>7, <2>1, <2>2, <2>3 DEF Lies, At
<1>10. Runs(g, Ahead)'
  <2> DEFINE Good(k) == /\ g[k].of \in 1..Len(sent') /\ g[k].at \in 1..NewSize(g[k].of)
                        /\ sent'[g[k].of].conn = conn
                        /\ g[k + 1] = IF g[k].at = NewSize(g[k].of) THEN Start(g[k].of + 1)
                                      ELSE [of |-> g[k].of, at |-> g[k].at + 1]
  <2>1. Runs(g, Ahead)' <=> \A k \in 1..(n + size) : Good(k)
    BY <1>2, <1>5, <1>6 DEF Runs, After, Start, Size, NewSize
  <2>2. ASSUME NEW k \in 1..n PROVE Good(k)
    <3>1. /\ f[k].of \in 1..Len(sent) /\ f[k].at \in 1..Size(f[k].of) /\ sent[f[k].of].conn = conn
          /\ f[k + 1] = After(f[k])
      BY <1>6, <2>2 DEF Along, Runs
    <3>2. g[k] = f[k] /\ g[k + 1] = f[k + 1]
      BY <1>6, <1>8, <2>2
    <3>3. f[k].of \in 1..Len(sent')
      BY <1>3, <3>1
    <3>4. QED
      BY <1>3, <3>1, <3>2, <3>3 DEF After
  <2>3. ASSUME NEW j \in 1..size PROVE Good(n + j)
    <3>1. g[n + j] = [of |-> new, at |-> j]
      BY <1>7, <2>3
    <3>2. j # size => g[n + j + 1] = [of |-> new, at |-> j + 1]
      <4>1. j # size => j + 1 \in 1..size /\ n + (j + 1) = n + j + 1
        BY <1>1, <1>6, <2>3
      <4>2. QED
        BY <1>7, <4>1
    <3>3. j = size => g[n + j + 1] = Start(new + 1)
      BY <1>7
    <3>4. new \in 1..Len(sent')
      BY <1>3
    <3>5. j \in 1..NewSize(new)
      BY <1>1
    <3> HIDE DEF new
    <3>6. QED
      BY <1>1, <1>3, <3>1, <3>2, <3>3, <3>4, <3>5
  <2>4. \A k \in 1..(n + size) : k \in 1..n \/ (k - n \in 1..size /\ n + (k - n) = k)
    BY <1>1, <1>6
  <2> HIDE DEF Good
  <2>5. \A k \in 1..(n + size) : Good(k)
    <3> TAKE k \in 1..(n + size)
    <3>1. CASE k \in 1..n
      BY <2>2, <3>1
    <3>2. CASE k - n \in 1..size /\ n + (k - n) = k
      <4>1. Good(n + (k - n))
        BY <2>3, <3>2
      <4>2. QED
        BY <3>2, <4>1
    <3>3. QED
      BY <2>4, <3>1, <3>2
  <2>6. QED
    BY <2>1, <2>5
<1>11. g[Ahead' + 1] = Start(Len(sent') + 1)
  BY <1>3, <1>5, <1>6, <1>7
<1>12. Along(g)'
  BY <1>9, <1>10, <1>11 DEF Along, Start
<1>13. QED
  BY <1>6, <1>8, <1>12

\* When readbuf is given up the places begin with the next byte.
LEMMA ForgetAlong ==
    ASSUME Types, NEW f, Along(f), readbuf' = <<>>,
           UNCHANGED <<conn, sent, coming, received, mishaps>>
    PROVE  \E g : Along(g)' /\ g[1] = f[Len(readbuf) + 1]
<1> DEFINE b == Len(readbuf)
           h == [k \in Nat |-> f[b + k]]
<1>1. /\ b \in Nat /\ Len(received) \in Nat /\ Len(coming) \in Nat /\ Len(readbuf') = 0
      /\ Ahead = b + Len(received) + Len(coming)
  BY Lengths3 DEF Ahead
<1>2. Ahead' = Len(received) + Len(coming)
  <2>1. Ahead' = Len(readbuf') + Len(received) + Len(coming)
    BY DEF Ahead
  <2>2. QED
    BY <1>1, <2>1
<1> HIDE DEF b
<1>3. f \in [Nat -> Place]
  BY DEF Along, Lies
<1>4. PICK g \in [Nat -> Place] : \A k \in Nat : g[k] = f[b + k]
  <2>1. h \in [Nat -> Place] /\ \A k \in Nat : h[k] = f[b + k]
    BY <1>1, <1>3
  <2> HIDE DEF h
  <2>2. QED
    BY <2>1
<1>5. Lies(g)'
  <2>1. \A k \in 1..Len(readbuf') : readbuf'[k] = g[k]
    BY <1>1
  <2>2. \A k \in 1..Len(received) : At(received[k]) = g[Len(readbuf') + k]
    <3> TAKE k \in 1..Len(received)
    <3>1. Len(readbuf') + k = k /\ k \in Nat
      BY <1>1
    <3>2. At(received[k]) = f[b + k]
      BY DEF Along, Lies, b
    <3>3. QED
      BY <1>4, <3>1, <3>2
  <2>3. \A k \in 1..Len(coming) : At(coming[k]) = g[Len(readbuf') + Len(received) + k]
    <3> TAKE k \in 1..Len(coming)
    <3>1. Len(readbuf') + Len(received) + k = Len(received) + k /\ Len(received) + k \in Nat
          /\ b + (Len(received) + k) = b + Len(received) + k
      BY <1>1
    <3>2. At(coming[k]) = f[b + Len(received) + k]
      BY DEF Along, Lies, b
    <3>3. QED
      BY <1>4, <3>1, <3>2
  <2>4. QED
    BY <1>4, <2>1, <2>2, <2>3 DEF Lies, At
<1>6. Runs(g, Ahead)'
  <2>1. \A k \in 1..Ahead' : /\ b + k \in 1..Ahead /\ b + (k + 1) = (b + k) + 1
                             /\ k \in Nat /\ k + 1 \in Nat
    BY <1>1, <1>2
  <2>2. \A k \in 1..Ahead' : g[k] = f[b + k] /\ g[k + 1] = f[(b + k) + 1]
    BY <1>4, <2>1
  <2> DEFINE Good(h1, k) == /\ h1[k].of \in 1..Len(sent) /\ h1[k].at \in 1..Size(h1[k].of)
                            /\ sent[h1[k].of].conn = conn
                            /\ h1[k + 1] = After(h1[k])
  <2>3. \A k \in 1..Ahead : Good(f, k)
    BY DEF Along, Runs
  <2>4. \A k \in 1..Ahead' : Good(g, k)
    <3> TAKE k \in 1..Ahead'
    <3>1. Good(f, b + k)
      BY <2>1, <2>3
    <3>2. QED
      BY <2>2, <3>1
  <2>5. Runs(g, Ahead)' <=> \A k \in 1..Ahead' : Good(g, k)
    BY DEF Runs, After, Start, Size
  <2>6. QED
    BY <2>4, <2>5
<1>7. g[1] = f[b + 1] /\ (~Closed => g[Ahead' + 1] = Start(Len(sent) + 1))
  <2>1. b + (Ahead' + 1) = Ahead + 1 /\ Ahead' + 1 \in Nat
    BY <1>1, <1>2
  <2>2. g[Ahead' + 1] = f[Ahead + 1]
    BY <1>4, <2>1
  <2>3. QED
    BY <1>4, <2>2 DEF Along
<1>8. Along(g)'
  BY <1>5, <1>6, <1>7 DEF Along, Closed, Start
<1>9. QED
  BY <1>7, <1>8 DEF b

\* A new connection without old bytes begins with the broker's next packet.
LEMMA FreshAlong ==
    ASSUME Types, readbuf' = <<>>, received' = <<>>, coming' = <<>>, sent' = sent
    PROVE  \E g : Along(g)' /\ g[1] = Start(Len(sent) + 1)
<1> DEFINE h == [k \in Nat |-> Start(Len(sent) + 1)]
<1>1. Len(readbuf') = 0 /\ Len(received') = 0 /\ Len(coming') = 0 /\ Len(sent) \in Nat
  BY Lengths3
<1>2. Ahead' = 0
  BY <1>1 DEF Ahead
<1>3. PICK g \in [Nat -> Place] : g[1] = Start(Len(sent) + 1)
  <2>1. h \in [Nat -> Place] /\ h[1] = Start(Len(sent) + 1)
    BY <1>1 DEF Place, Start
  <2> HIDE DEF h
  <2>2. QED
    BY <2>1
<1>4. Lies(g)' /\ Runs(g, Ahead)'
  BY <1>1, <1>2, <1>3 DEF Lies, Runs
<1>5. Along(g)'
  BY <1>2, <1>3, <1>4 DEF Along, Start
<1>6. QED
  BY <1>3, <1>5

\* Where the next packet that readPacket returns begins.
NextStart == Start(Cardinality(Earlier) + Len(accepted) + 1)

\* No read was cut short and no byte is old; the same for the reads of the length alone.
Untouched == "short" \notin mishaps /\ "cut" \notin mishaps /\ "stale" \notin mishaps
Decoded == "short" \notin mishaps /\ "stale" \notin mishaps

\* readPacket stands where the next packet begins.
Frame(f) ==
    Untouched => f[IF pc \in {"length", "body"} THEN 1 ELSE Len(readbuf) + 1] = NextStart
OnCourse == "stale" \notin mishaps => \E f : Along(f) /\ Frame(f)
\* The packets of earlier connections come first; only NetX leaves old bytes.
Old ==
    /\ "stale" \in mishaps => layer = "netx"
    /\ Earlier = 1..Cardinality(Earlier) /\ Cardinality(Earlier) \in 0..Len(sent)
    /\ \A i \in 1..Len(sent) : sent[i].conn <= conn
\* What decodePacket has of the length of the packet it reads.
Hand ==
    Decoded /\ readbuf # <<>> /\ readbuf[1].at = 1 =>
        LET length == sent[readbuf[1].of].length
        IN  /\ pc = "length" => /\ Len(readbuf) <= LengthSize(length)
                                /\ rem_len = length % Power[Len(readbuf) - 1]
            /\ pc = "body" => Len(readbuf) = 1 + LengthSize(length) /\ rem_len = length
\* A chunk ends with a packet, unless one was split.
EndWhole(s) == \A k \in 1..Len(s) : s[k].ends => s[k].at = Size(s[k].of)
Split ==
    "split" \notin mishaps /\ "stale" \notin mishaps => EndWhole(received) /\ EndWhole(coming)
\* s is packet i; the packets in accepted, from any header on and in their order.
IsPacket(s, i) == Len(s) = Size(i) /\ \A j \in 1..Len(s) : s[j] = [of |-> i, at |-> j]
Answers ==
    Decoded => \A k \in 1..Len(accepted) :
        /\ accepted[k] # <<>> /\ accepted[k][1].of \in 1..Len(sent)
        /\ accepted[k][1].at = 1 => IsPacket(accepted[k], accepted[k][1].of)
Framing ==
    Untouched => \A k \in 1..Len(accepted) :
        /\ Cardinality(Earlier) + k <= Len(sent)
        /\ IsPacket(accepted[k], Cardinality(Earlier) + k)
\* What cuts a read short.
Cuts ==
    "short" \in mishaps \/ "cut" \in mishaps =>
        "late" \in mishaps \/ (layer = "tls" /\ "split" \in mishaps)
Course == OnCourse /\ Old /\ Hand /\ Split /\ Answers /\ Framing /\ Cuts

-----------------------------------------------------------------------------
\* The packets of earlier connections stay the same within a connection.
LEMMA OldStays ==
    ASSUME Types, Old, UNCHANGED <<layer, conn, sent>>, "stale" \in mishaps' => "stale" \in mishaps
    PROVE  Old' /\ Earlier' = Earlier /\ Cardinality(Earlier)' = Cardinality(Earlier)
<1>1. Earlier' = Earlier
  BY DEF Earlier
<1>2. Cardinality(Earlier)' = Cardinality(Earlier)
  BY <1>1
<1>3. QED
  BY <1>1, <1>2 DEF Old

\* What was accepted stays what it was.
LEMMA AcceptedStays ==
    ASSUME Types, Old, Answers, Framing, UNCHANGED <<layer, conn, sent, accepted>>,
           mishaps \subseteq mishaps'
    PROVE  Answers' /\ Framing'
<1>1. Cardinality(Earlier)' = Cardinality(Earlier)
  BY DEF Earlier
<1>2. Answers'
  BY DEF Answers, Decoded, IsPacket, Size
<1>3. Framing'
  BY <1>1 DEF Framing, Untouched, IsPacket, Size
<1>4. QED
  BY <1>2, <1>3

\* The steps that read nothing: the places stay.
LEMMA IdleCourse ==
    ASSUME Types, Chunks, Count, Course,
           UNCHANGED <<layer, conn, sent, pc, readbuf, rem_len, accepted>>,
           mishaps \subseteq mishaps', mishaps' \subseteq mishaps \cup {"stalled", "closed"},
           \A f : Along(f) => Along(f)',
           Split => Split'
    PROVE  Course'
<1>1. "stale" \in mishaps' <=> "stale" \in mishaps
  OBVIOUS
<1>2. Old' /\ Cardinality(Earlier)' = Cardinality(Earlier)
  BY <1>1, OldStays DEF Course
<1>3. Answers' /\ Framing'
  BY AcceptedStays DEF Course
<1>4. OnCourse'
  <2> SUFFICES ASSUME "stale" \notin mishaps' PROVE \E f : Along(f)' /\ Frame(f)'
    BY DEF OnCourse
  <2>1. PICK f : Along(f) /\ Frame(f)
    BY <1>1 DEF Course, OnCourse
  <2>2. Frame(f)'
    BY <1>2, <2>1 DEF Frame, Untouched, NextStart, Start
  <2>3. QED
    BY <2>1, <2>2
<1>5. Hand'
  BY DEF Course, Hand, Decoded
<1>6. Split' /\ Cuts'
  BY DEF Course, Cuts
<1>7. QED
  BY <1>2, <1>3, <1>4, <1>5, <1>6 DEF Course

\* Each step keeps the course: a chunk arrives, ...
LEMMA ArriveCourse ==
    ASSUME Types, Chunks, Count, Course, ChunkArrives
    PROVE  Course'
<1>1. UNCHANGED <<layer, conn, sent, pc, readbuf, rem_len, accepted, mishaps>>
  BY DEF ChunkArrives
<1>2. \A f : Along(f) => Along(f)'
  BY ArriveAlong
<1>3. Split => Split'
  <2> SUFFICES ASSUME EndWhole(received), EndWhole(coming)
               PROVE  EndWhole(received)' /\ EndWhole(coming)'
    BY <1>1 DEF Split
  <2>1. PICK n \in 1..Len(coming) :
          /\ Len(received') = Len(received) + n /\ Len(coming') = Len(coming) - n
          /\ \A k \in 1..Len(received) : received'[k] = received[k]
          /\ \A k \in 1..n : received'[Len(received) + k] = coming[k]
          /\ \A k \in 1..(Len(coming) - n) : coming'[k] = coming[n + k]
    BY ChunkMoves
  <2>2. Len(coming) \in Nat /\ Len(received) \in Nat
    BY Lengths3
  <2> DEFINE Good(b) == b.ends => b.at = Size(b.of)
  <2>3. /\ EndWhole(received)' <=> \A k \in 1..Len(received') : Good(received'[k])
        /\ EndWhole(coming)' <=> \A k \in 1..Len(coming') : Good(coming'[k])
        /\ \A k \in 1..Len(received) : Good(received[k])
        /\ \A k \in 1..Len(coming) : Good(coming[k])
    BY <1>1 DEF EndWhole, Size
  <2> HIDE DEF Good
  <2>4. \A k \in 1..Len(received') : Good(received'[k])
    <3> TAKE k \in 1..Len(received')
    <3>1. CASE k \in 1..Len(received)
      BY <2>1, <2>3, <3>1
    <3>2. CASE k \notin 1..Len(received)
      <4> DEFINE j == k - Len(received)
      <4>1. j \in 1..n /\ j \in 1..Len(coming) /\ k = Len(received) + j
        BY <2>1, <2>2, <3>2
      <4> HIDE DEF j
      <4>2. received'[k] = coming[j]
        BY <2>1, <4>1
      <4>3. QED
        BY <2>3, <4>1, <4>2
    <3>3. QED
      BY <3>1, <3>2
  <2>5. \A k \in 1..Len(coming') : Good(coming'[k])
    <3> TAKE k \in 1..Len(coming')
    <3>1. k \in 1..(Len(coming) - n) /\ n + k \in 1..Len(coming)
      BY <2>1, <2>2
    <3>2. coming'[k] = coming[n + k]
      BY <2>1, <3>1
    <3>3. QED
      BY <2>3, <3>1, <3>2
  <2>6. QED
    BY <2>3, <2>4, <2>5
<1>4. mishaps \subseteq mishaps' /\ mishaps' \subseteq mishaps \cup {"stalled", "closed"}
  BY <1>1
<1>5. QED
  BY <1>1, <1>2, <1>3, <1>4, IdleCourse

\* ... the connection is lost, ...
LEMMA LostCourse ==
    ASSUME Types, Chunks, Count, Course, ConnectionLost
    PROVE  Course'
<1>1. /\ mishaps' = mishaps \cup {"closed"} /\ coming' = <<>>
      /\ received' = IF layer # "w5500" /\ prepend
                   THEN SubSeq(received, 1, FirstChunk(received)) ELSE <<>>
      /\ UNCHANGED <<layer, conn, sent, pc, readbuf, rem_len, accepted>>
  BY DEF ConnectionLost
<1>2. \A f : Along(f) => Along(f)'
  BY LostAlong
<1>3. Split => Split'
  <2> SUFFICES ASSUME EndWhole(received) PROVE EndWhole(received)' /\ EndWhole(coming)'
    BY <1>1 DEF Split
  <2>1. Len(coming') = 0
    BY <1>1
  <2>2. EndWhole(coming)'
    BY <2>1 DEF EndWhole
  <2>3. \A k \in 1..Len(received') : k \in 1..Len(received) /\ received'[k] = received[k]
    <3>1. CASE layer # "w5500" /\ prepend
      <4>1. received \in Stream /\ AreBytes(received) /\ Ended(received) /\ received # <<>>
        BY <3>1 DEF Types, Chunks
      <4> DEFINE t == SubSeq(received, 1, FirstChunk(received))
      <4>2. Len(t) \in 1..Len(received) /\ \A k \in 1..Len(t) : t[k] = received[k]
        BY <4>1, FirstOf
      <4>3. received' = t
        BY <1>1, <3>1
      <4> HIDE DEF t
      <4>4. \A k \in 1..Len(t) : k \in 1..Len(received)
        BY <4>2, Lengths3
      <4>5. QED
        BY <4>2, <4>3, <4>4
    <3>2. CASE ~(layer # "w5500" /\ prepend)
      <4>1. Len(received') = 0
        BY <1>1, <3>2
      <4>2. QED
        BY <4>1
    <3>3. QED
      BY <3>1, <3>2
  <2>4. EndWhole(received)'
    BY <1>1, <2>3 DEF EndWhole, Size
  <2>5. QED
    BY <2>2, <2>4
<1>4. mishaps \subseteq mishaps' /\ mishaps' \subseteq mishaps \cup {"stalled", "closed"}
  BY <1>1
<1>5. UNCHANGED <<layer, conn, sent, pc, readbuf, rem_len, accepted>>
  BY <1>1
<1>6. QED
  BY <1>2, <1>3, <1>4, <1>5, IdleCourse

\* ... the broker sends a packet, ...
LEMMA SendsCourse ==
    ASSUME Types, Chunks, Count, Course,
           NEW length \in Lengths, NEW cutAt \in Nat, NEW joins \in BOOLEAN,
           BrokerSends(length, cutAt, joins)
    PROVE  Course'
<1> DEFINE size == 1 + LengthSize(length) + length
           new == Len(sent) + 1
<1>1. /\ NewSize(Len(sent) + 1) = size /\ size \in Nat \ {0}
      /\ coming' \in Stream /\ Len(coming') = Len(coming) + size
      /\ \A k \in 1..Len(coming) : /\ At(coming'[k]) = At(coming[k])
                                   /\ coming'[k].ends => coming[k].ends
      /\ \A k \in 1..size : coming'[Len(coming) + k] =
            [of |-> Len(sent) + 1, at |-> k, ends |-> k \in {cutAt, size}]
      /\ mishaps' = IF cutAt = size THEN mishaps ELSE mishaps \cup {"split"}
  BY ComingGrows
<1>2. /\ sent' = Append(sent, [conn |-> conn, length |-> length]) /\ ~Closed
      /\ UNCHANGED <<layer, conn, received, pc, readbuf, rem_len, accepted>>
  BY DEF BrokerSends
<1> HIDE DEF size
<1>3. /\ Len(sent') = new /\ Len(sent) \in Nat
      /\ \A i \in 1..Len(sent) : sent'[i] = sent[i] /\ NewSize(i) = Size(i)
      /\ sent'[new].conn = conn
  <2>1. /\ Len(sent') = Len(sent) + 1 /\ Len(sent) \in Nat
        /\ \A i \in 1..Len(sent) : sent'[i] = sent[i] /\ NewSize(i) = Size(i)
        /\ sent'[Len(sent')] = [conn |-> conn, length |-> length]
    BY <1>2, SentGrows
  <2>2. QED
    BY <2>1
<1>4. /\ "short" \in mishaps' <=> "short" \in mishaps
      /\ "cut" \in mishaps' <=> "cut" \in mishaps
      /\ "stale" \in mishaps' <=> "stale" \in mishaps
      /\ "late" \in mishaps' <=> "late" \in mishaps
      /\ "closed" \in mishaps' <=> "closed" \in mishaps
      /\ ("split" \in mishaps => "split" \in mishaps') /\ (cutAt # size => "split" \in mishaps')
  BY <1>1
<1>5. Earlier' = Earlier /\ Cardinality(Earlier)' = Cardinality(Earlier)
  <2>1. DOMAIN sent = 1..Len(sent) /\ DOMAIN sent' = 1..new
    <3>1. DOMAIN sent' = 1..Len(sent')
      BY <1>2, SentGrows
    <3>2. QED
      BY <1>3, <3>1 DEF Types
  <2>2. 1..new = (1..Len(sent)) \cup {new}
    BY <1>3
  <2>3. ~(conn < conn)
    BY DEF Types
  <2>4. Earlier' = {i \in DOMAIN sent' : sent'[i].conn < conn}
    BY <1>2 DEF Earlier
  <2> HIDE DEF new
  <2>5. Earlier' = Earlier
    BY <1>3, <2>1, <2>2, <2>3, <2>4 DEF Earlier
  <2>6. QED
    BY <2>5
<1>6. Old'
  <2>1. \A i \in 1..Len(sent') : sent'[i].conn <= conn
    <3>1. \A i \in 1..Len(sent') : i \in 1..Len(sent) \/ i = new
      BY <1>3
    <3>2. conn <= conn
      BY DEF Types
    <3>3. QED
      BY <1>3, <3>1, <3>2 DEF Course, Old
  <2>2. Cardinality(Earlier) \in 0..Len(sent')
    BY <1>3 DEF Course, Old
  <2>3. QED
    BY <1>2, <1>4, <1>5, <2>1, <2>2 DEF Course, Old
<1>7. OnCourse'
  <2> SUFFICES ASSUME "stale" \notin mishaps' PROVE \E f : Along(f)' /\ Frame(f)'
    BY DEF OnCourse
  <2>1. PICK f : Along(f) /\ Frame(f)
    BY <1>4 DEF Course, OnCourse
  <2>2. PICK g : Along(g)' /\ \A k \in 1..(Ahead + 1) : g[k] = f[k]
    BY <2>1, SendsAlong
  <2>3. 1 \in 1..(Ahead + 1) /\ Len(readbuf) + 1 \in 1..(Ahead + 1)
    BY Lengths3 DEF Ahead
  <2>4. g[1] = f[1] /\ g[Len(readbuf) + 1] = f[Len(readbuf) + 1]
    BY <2>2, <2>3
  <2>5. Frame(g)'
    BY <1>2, <1>4, <1>5, <2>1, <2>4 DEF Frame, Untouched, NextStart, Start
  <2>6. QED
    BY <2>2, <2>5
<1>8. Hand'
  <2> SUFFICES ASSUME Decoded, readbuf # <<>>, readbuf[1].at = 1
               PROVE  Hand'
    BY <1>2, <1>4 DEF Hand, Decoded
  <2>1. 1 \in 1..Len(readbuf)
    BY DEF Types
  <2>2. readbuf[1].of \in 1..Len(sent)
    BY <2>1 DEF Types, AreBytes, IsByte
  <2>3. sent'[readbuf[1].of] = sent[readbuf[1].of]
    BY <1>3, <2>2
  <2>4. QED
    BY <1>2, <2>3 DEF Course, Hand, Decoded
<1>9. Split'
  <2> SUFFICES ASSUME "split" \notin mishaps', "stale" \notin mishaps'
               PROVE  EndWhole(received)' /\ EndWhole(coming)'
    BY DEF Split
  <2> DEFINE Good(b) == b.ends => b.at = NewSize(b.of)
  <2>1. /\ EndWhole(received)' <=> \A k \in 1..Len(received) : Good(received[k])
        /\ EndWhole(coming)' <=> \A k \in 1..Len(coming') : Good(coming'[k])
    BY <1>2 DEF EndWhole, Size, NewSize
  <2>2. EndWhole(received) /\ EndWhole(coming) /\ cutAt = size
    BY <1>4 DEF Course, Split
  <2>3. \A k \in 1..Len(received) : Good(received[k])
    BY <1>3, <2>2 DEF EndWhole, Types, AreBytes, IsByte
  <2>4. \A k \in 1..Len(coming') : Good(coming'[k])
    <3> TAKE k \in 1..Len(coming')
    <3>1. CASE k \in 1..Len(coming)
      <4>1. /\ coming'[k].of = coming[k].of /\ coming'[k].at = coming[k].at
            /\ coming'[k].ends => coming[k].ends
        BY <1>1, <3>1 DEF At
      <4>2. coming[k].of \in 1..Len(sent) /\ (coming[k].ends => coming[k].at = Size(coming[k].of))
        BY <2>2, <3>1 DEF EndWhole, Types, AreBytes, IsByte
      <4>3. QED
        BY <1>3, <4>1, <4>2
    <3>2. CASE k \notin 1..Len(coming)
      <4> DEFINE j == k - Len(coming)
      <4>1. j \in 1..size /\ k = Len(coming) + j
        BY <1>1, <3>2, Lengths3
      <4> HIDE DEF j
      <4> DEFINE e == j \in {cutAt, size}
      <4>2. coming'[k] = [of |-> new, at |-> j, ends |-> e]
        BY <1>1, <4>1
      <4>3. e => j = size
        BY <2>2
      <4> HIDE DEF e
      <4>4. coming'[k].of = new /\ coming'[k].at = j /\ coming'[k].ends = e
        BY <4>2
      <4>5. QED
        BY <1>1, <4>3, <4>4
    <3>3. QED
      BY <3>1, <3>2
  <2>5. QED
    BY <2>1, <2>3, <2>4
<1> DEFINE IsNew(s, i) == Len(s) = NewSize(i) /\ \A j \in 1..Len(s) : s[j] = [of |-> i, at |-> j]
<1>10. \A i \in 1..Len(sent) : i \in 1..Len(sent') /\ \A s : IsPacket(s, i) => IsNew(s, i)
  BY <1>3 DEF IsPacket
<1>11. Answers'
  <2>1. Answers' <=> (Decoded => \A k \in 1..Len(accepted) :
                        /\ accepted[k] # <<>> /\ accepted[k][1].of \in 1..Len(sent')
                        /\ accepted[k][1].at = 1 => IsNew(accepted[k], accepted[k][1].of))
    BY <1>2, <1>4 DEF Answers, Decoded, IsPacket, Size, NewSize
  <2> HIDE DEF IsNew
  <2>2. \A i \in 1..Len(sent) : i \in 1..Len(sent') /\ \A s : IsPacket(s, i) => IsNew(s, i)
    BY <1>10 DEF IsNew
  <2>3. Decoded => \A k \in 1..Len(accepted) :
            /\ accepted[k] # <<>> /\ accepted[k][1].of \in 1..Len(sent)
            /\ accepted[k][1].at = 1 => IsPacket(accepted[k], accepted[k][1].of)
    BY DEF Course, Answers
  <2>4. ASSUME Decoded, NEW k \in 1..Len(accepted)
        PROVE  /\ accepted[k] # <<>> /\ accepted[k][1].of \in 1..Len(sent')
               /\ accepted[k][1].at = 1 => IsNew(accepted[k], accepted[k][1].of)
    <3> DEFINE i == accepted[k][1].of
    <3>1. /\ accepted[k] # <<>> /\ i \in 1..Len(sent)
          /\ accepted[k][1].at = 1 => IsPacket(accepted[k], i)
      BY <2>3, <2>4
    <3> HIDE DEF i
    <3>2. i \in 1..Len(sent') /\ (IsPacket(accepted[k], i) => IsNew(accepted[k], i))
      BY <2>2, <3>1
    <3>3. QED
      BY <3>1, <3>2 DEF i
  <2>5. QED
    BY <2>1, <2>4
<1>12. Framing'
  <2> DEFINE e == Cardinality(Earlier)
  <2>1. Framing' <=> (Untouched => \A k \in 1..Len(accepted) :
                        e + k <= Len(sent') /\ IsNew(accepted[k], e + k))
    BY <1>2, <1>4, <1>5 DEF Framing, Untouched, IsPacket, Size, NewSize
  <2>2. \A i \in 1..Len(sent) : \A s : IsPacket(s, i) => IsNew(s, i)
    BY <1>10
  <2>3. e \in Nat
    BY DEF Course, Old
  <2> HIDE DEF IsNew, e
  <2>4. Untouched => \A k \in 1..Len(accepted) : e + k <= Len(sent) /\ IsPacket(accepted[k], e + k)
    BY DEF Course, Framing, e
  <2>5. \A k \in 1..Len(accepted) :
            e + k <= Len(sent) => e + k \in 1..Len(sent) /\ e + k <= Len(sent')
    BY <1>3, <2>3 DEF Types
  <2>6. ASSUME Untouched, NEW k \in 1..Len(accepted)
        PROVE  e + k <= Len(sent') /\ IsNew(accepted[k], e + k)
    <3>1. e + k <= Len(sent) /\ IsPacket(accepted[k], e + k)
      BY <2>4, <2>6
    <3>2. e + k \in 1..Len(sent) /\ e + k <= Len(sent')
      BY <2>5, <3>1
    <3>3. QED
      BY <2>2, <3>1, <3>2
  <2>7. QED
    BY <2>1, <2>6
<1>13. Cuts'
  BY <1>2, <1>4 DEF Course, Cuts
<1>14. QED
  BY <1>6, <1>7, <1>8, <1>9, <1>11, <1>12, <1>13 DEF Course

-----------------------------------------------------------------------------
\* ... a cycle ends, ...
LEMMA GivenUpCourse ==
    ASSUME Types, Chunks, Count, Course, CycleEnds
    PROVE  Course'
<1>1. /\ pc = "dispatch" /\ pc' = "header" /\ readbuf' = <<>>
      /\ UNCHANGED <<layer, conn, sent, coming, received, accepted, mishaps>>
  BY DEF CycleEnds
<1>2. Old' /\ Cardinality(Earlier)' = Cardinality(Earlier)
  BY <1>1, OldStays DEF Course
<1>3. Answers' /\ Framing'
  BY <1>1, AcceptedStays DEF Course
<1>4. OnCourse'
  <2> SUFFICES ASSUME "stale" \notin mishaps PROVE \E f : Along(f)' /\ Frame(f)'
    BY <1>1 DEF OnCourse
  <2>1. PICK f : Along(f) /\ Frame(f)
    BY DEF Course, OnCourse
  <2>2. PICK g : Along(g)' /\ g[1] = f[Len(readbuf) + 1]
    BY <1>1, <2>1, ForgetAlong
  <2>3. Len(readbuf') + 1 = 1 /\ pc' \notin {"length", "body"} /\ pc \notin {"length", "body"}
    BY <1>1
  <2>4. Frame(g)' <=> (Untouched => g[1] = NextStart)
    BY <1>1, <1>2, <2>3 DEF Frame, Untouched, NextStart, Start
  <2>5. QED
    BY <2>1, <2>2, <2>3, <2>4 DEF Frame
<1>5. Hand' /\ Split' /\ Cuts'
  BY <1>1 DEF Course, Hand, Split, EndWhole, Size, Cuts
<1>6. QED
  BY <1>2, <1>3, <1>4, <1>5 DEF Course

\* ... a new connection is made, ...
LEMMA ReconnectCourse ==
    ASSUME Types, Chunks, Count, Course, Reconnect
    PROVE  Course'
<1>1. /\ pc = "header" /\ coming' = <<>> /\ received' = KeptBytes
      /\ accepted' = <<>> /\ conn' = conn + 1
      /\ mishaps' = IF KeptBytes = <<>> THEN {} ELSE {"stale"}
      /\ UNCHANGED <<layer, sent, pc, readbuf, rem_len>>
  BY DEF Reconnect
<1>2. readbuf' = <<>> /\ Len(readbuf') = 0 /\ Len(accepted') = 0
  BY <1>1 DEF Count
<1>3. Earlier' = 1..Len(sent) /\ Len(sent) \in Nat
  <2>1. \A i \in 1..Len(sent) : sent[i].conn < conn + 1
    <3>1. \A i \in 1..Len(sent) : sent[i].conn \in Nat
      <4>1. sent \in Seq([conn : Nat, length : Lengths])
        BY DEF Types
      <4>2. \A i \in 1..Len(sent) : sent[i] \in [conn : Nat, length : Lengths]
        BY <4>1, Element
      <4>3. QED
        BY <4>2
    <3>2. QED
      BY <3>1 DEF Course, Old, Types
  <2>2. Earlier' = {i \in DOMAIN sent : sent[i].conn < conn + 1}
    BY <1>1 DEF Earlier
  <2>3. DOMAIN sent = 1..Len(sent) /\ Len(sent) \in Nat
    BY DEF Types
  <2>4. QED
    BY <2>1, <2>2, <2>3
<1>4. Cardinality(Earlier)' = Len(sent)
  <2>1. Cardinality(1..Len(sent)) = Len(sent)
    <3> DEFINE n == Len(sent)
    <3>1. n \in Nat
      BY <1>3
    <3> HIDE DEF n
    <3>2. Cardinality(1..n) = IF 1 > n THEN 0 ELSE n - 1 + 1
      BY <3>1, FS_Interval
    <3>3. Cardinality(1..n) = n
      BY <3>1, <3>2
    <3>4. QED
      BY <3>3 DEF n
  <2>2. QED
    BY <1>3, <2>1
<1>5. Old'
  <2>1. Earlier' = 1..Cardinality(Earlier)' /\ Cardinality(Earlier)' \in 0..Len(sent')
    BY <1>1, <1>3, <1>4
  <2>2. \A i \in 1..Len(sent') : sent'[i].conn <= conn'
    <3>1. \A i \in 1..Len(sent) : sent[i] \in [conn : Nat, length : Lengths] /\ sent[i].conn <= conn
      <4>1. sent \in Seq([conn : Nat, length : Lengths])
        BY DEF Types
      <4>2. QED
        BY <4>1, Element DEF Course, Old
    <3>2. \A i \in 1..Len(sent) : sent[i].conn \in Nat
      BY <3>1
    <3>3. conn \in Nat
      BY DEF Types
    <3>4. QED
      BY <1>1, <3>1, <3>2, <3>3
  <2>3. "stale" \in mishaps' => layer' = "netx"
    BY <1>1 DEF KeptBytes
  <2>4. QED
    BY <2>1, <2>2, <2>3 DEF Old
<1>6. OnCourse'
  <2> SUFFICES ASSUME "stale" \notin mishaps' PROVE \E f : Along(f)' /\ Frame(f)'
    BY DEF OnCourse
  <2>1. received' = <<>>
    BY <1>1
  <2>2. PICK g : Along(g)' /\ g[1] = Start(Len(sent) + 1)
    BY <1>1, <1>2, <2>1, FreshAlong
  <2>3. Frame(g)'
    <3>1. NextStart' = Start(Len(sent) + 0 + 1)
      BY <1>2, <1>4 DEF NextStart, Start
    <3>2. Len(sent) + 0 + 1 = Len(sent) + 1 /\ Len(readbuf') + 1 = 1
      BY <1>2, <1>3
    <3>3. QED
      BY <2>2, <3>1, <3>2 DEF Frame
  <2>4. QED
    BY <2>2, <2>3
<1>7. Hand' /\ Answers' /\ Framing'
  BY <1>2 DEF Hand, Answers, Framing
<1>8. Split' /\ Cuts'
  <2>1. "stale" \notin mishaps' => Len(received') = 0 /\ Len(coming') = 0
    BY <1>1
  <2>2. "short" \notin mishaps' /\ "cut" \notin mishaps'
    BY <1>1
  <2>3. QED
    BY <2>1, <2>2 DEF Split, EndWhole, Cuts
<1>9. QED
  BY <1>5, <1>6, <1>7, <1>8 DEF Course

\* What a read may record.
LEMMA ReadMishaps ==
    ASSUME Types, Chunks, NEW len \in Nat, NEW mishap \in {"short", "cut"}, mqttread(len, mishap)
    PROVE  /\ mishaps \subseteq mishaps' /\ mishaps' \subseteq mishaps \cup {mishap, "late"}
           /\ Got(len) = len => (mishap \in mishaps' <=> mishap \in mishaps)
           /\ Got(len) # len =>
                 /\ mishap \in mishaps'
                 /\ "late" \in mishaps' \/ (/\ layer = "tls" /\ received # <<>>
                                            /\ Got(len) \in 1..(len - 1) /\ received[Got(len)].ends)
<1>1. mishaps' = mishaps \cup (IF Got(len) < len THEN {mishap} ELSE {})
                         \cup (IF InTime(len) THEN {} ELSE {"late"})
  BY DEF mqttread
<1>2. /\ Reach \in 0..Len(received) /\ Len(received) \in Nat
      /\ (layer # "tls" => Reach = Len(received))
      /\ (received # <<>> => Reach > 0)
      /\ (layer = "tls" /\ received # <<>> => received[Reach].ends)
  BY ReachIs
<1>3. Got(len) = IF len <= Reach THEN len ELSE Reach
  BY DEF Got
<1> DEFINE g == Got(len)
<1> HIDE DEF g
<1>4. g = IF len <= Reach THEN len ELSE Reach
  BY <1>3 DEF g
<1>5. mishaps' = mishaps \cup (IF g < len THEN {mishap} ELSE {})
                         \cup (IF InTime(len) THEN {} ELSE {"late"})
  BY <1>1 DEF g
<1>6. ASSUME g # len
      PROVE  /\ mishap \in mishaps'
             /\ "late" \in mishaps' \/ (/\ layer = "tls" /\ received # <<>>
                                        /\ g \in 1..(len - 1) /\ received[g].ends)
  <2>1. g = Reach /\ g < len
    BY <1>2, <1>4, <1>6
  <2>2. mishap \in mishaps'
    BY <1>5, <2>1
  <2>3. CASE InTime(len)
    <3>1. layer = "tls" /\ received # <<>>
      BY <1>2, <2>1, <2>3 DEF InTime
    <3>2. QED
      BY <1>2, <2>1, <2>2, <3>1
  <2>4. CASE ~InTime(len)
    BY <1>5, <2>2, <2>4
  <2>5. QED
    BY <2>3, <2>4
<1>7. g = len => (mishap \in mishaps' <=> mishap \in mishaps)
  BY <1>2, <1>5
<1>8. QED
  BY <1>5, <1>6, <1>7 DEF g

\* A read keeps what holds of the stream.
LEMMA ReadCourse ==
    ASSUME Types, Chunks, Course, NEW len \in Nat, NEW mishap \in {"short", "cut"},
           mqttread(len, mishap), UNCHANGED <<layer, conn, sent, coming>>
    PROVE  /\ Old' /\ Split' /\ \A f : Along(f) => Along(f)'
           /\ Cardinality(Earlier)' = Cardinality(Earlier)
           /\ "stale" \in mishaps' <=> "stale" \in mishaps
           /\ Took(Got(len)) /\ Got(len) \in 0..len
<1> DEFINE g == Got(len)
<1>1. g \in 0..len /\ Took(g) /\ g \in Nat
  BY ReadTakes
<1> HIDE DEF g
<1>2. mishaps \subseteq mishaps' /\ mishaps' \subseteq mishaps \cup {mishap, "late"}
  BY ReadMishaps
<1>3. /\ "stale" \in mishaps' <=> "stale" \in mishaps
      /\ "split" \in mishaps' <=> "split" \in mishaps
      /\ Closed' = Closed
  BY <1>2 DEF Closed
<1>4. Old' /\ Cardinality(Earlier)' = Cardinality(Earlier)
  BY <1>3, OldStays DEF Course
<1>5. \A f : Along(f) => Along(f)'
  BY <1>1, <1>3, TakeAlong
<1>6. Split'
  <2> SUFFICES ASSUME EndWhole(received), EndWhole(coming)
               PROVE  EndWhole(received)' /\ EndWhole(coming)'
    BY <1>3 DEF Split, Course
  <2>1. \A k \in 1..Len(received') : g + k \in 1..Len(received) /\ received'[k] = received[g + k]
    BY <1>1, Lengths3 DEF Took
  <2> DEFINE Good(b) == b.ends => b.at = Size(b.of)
  <2>2. /\ EndWhole(received)' <=> \A k \in 1..Len(received') : Good(received'[k])
        /\ EndWhole(coming)' <=> EndWhole(coming)
        /\ \A k \in 1..Len(received) : Good(received[k])
    BY DEF EndWhole, Size
  <2> HIDE DEF Good
  <2>3. QED
    BY <2>1, <2>2
<1>7. QED
  BY <1>1, <1>3, <1>4, <1>5, <1>6 DEF g

\* ... the header byte is read, ...
LEMMA HeaderCourse ==
    ASSUME Types, Chunks, Count, Course, ReadHeader
    PROVE  Course'
<1>1. /\ pc = "header" /\ mqttread(1, "short") /\ received # <<>> /\ rem_len' = 0 /\ pc' = "length"
      /\ UNCHANGED <<layer, conn, sent, coming, accepted>> /\ readbuf = <<>>
  BY DEF ReadHeader, Count
<1>2. Got(1) = 1
  BY <1>1, ReachIs DEF Got
<1>3. /\ Old' /\ Split' /\ \A f : Along(f) => Along(f)'
      /\ Cardinality(Earlier)' = Cardinality(Earlier)
      /\ "stale" \in mishaps' <=> "stale" \in mishaps
      /\ Took(1)
  BY <1>1, <1>2, ReadCourse
<1>4. /\ mishaps \subseteq mishaps' /\ mishaps' \subseteq mishaps \cup {"short", "late"}
      /\ ("short" \in mishaps' <=> "short" \in mishaps)
  BY <1>1, <1>2, ReadMishaps
<1>5. "cut" \in mishaps' <=> "cut" \in mishaps
  BY <1>4
<1>6. Answers' /\ Framing'
  BY <1>1, <1>4, AcceptedStays DEF Course
<1>7. OnCourse'
  <2> SUFFICES ASSUME "stale" \notin mishaps' PROVE \E f : Along(f)' /\ Frame(f)'
    BY DEF OnCourse
  <2>1. PICK f : Along(f) /\ Frame(f)
    BY <1>3 DEF Course, OnCourse
  <2>2. Untouched' <=> Untouched
    BY <1>3, <1>4, <1>5 DEF Untouched
  <2>3. Untouched => f[1] = NextStart
    <3>1. Len(readbuf) + 1 = 1
      BY <1>1
    <3>2. QED
      BY <1>1, <2>1, <3>1 DEF Frame
  <2>4. NextStart' = NextStart
    BY <1>1, <1>3 DEF NextStart, Start
  <2>5. Frame(f)'
    BY <1>1, <2>2, <2>3, <2>4 DEF Frame
  <2>6. QED
    BY <1>3, <2>1, <2>5
<1>8. Hand'
  <2>1. Len(readbuf') = 1 /\ readbuf' # <<>> /\ AreBytes(readbuf)' /\ Types'
    <3>1. Len(readbuf') = 1 /\ readbuf' # <<>>
      <4>1. Len(readbuf) = 0
        BY <1>1
      <4>2. Len(readbuf') = 1
        BY <1>3, <4>1 DEF Took
      <4>3. QED
        BY <4>2
    <3>2. Types'
      BY HeaderTypes
    <3>3. QED
      BY <3>1, <3>2 DEF Types
  <2> DEFINE i == readbuf'[1].of
             l == sent[i].length
  <2>2. i \in 1..Len(sent)
    <3>1. 1 \in 1..Len(readbuf')
      BY <2>1
    <3>2. AreBytes(readbuf)' => \A k \in 1..Len(readbuf') : readbuf'[k].of \in 1..Len(sent')
      BY DEF AreBytes, IsByte
    <3>3. QED
      BY <1>1, <2>1, <3>1, <3>2
  <2>3. LengthSize(l) \in 1..LengthBytes /\ l \in Nat
    BY <2>2, SizeIs
  <2>4. Len(readbuf') <= LengthSize(l) /\ rem_len' = l % Power[Len(readbuf') - 1]
    <3>1. Power[0] = 1
      BY PowerIs
    <3>2. l % 1 = 0
      <4> HIDE DEF l
      <4>1. l % 1 \in 0..(1 - 1)
        BY <2>3, Division
      <4>2. QED
        BY <4>1
    <3>3. Len(readbuf') - 1 = 0
      BY <2>1
    <3>4. QED
      BY <1>1, <2>1, <2>3, <3>1, <3>2, <3>3, Constants
  <2>5. sent' = sent /\ pc' = "length"
    BY <1>1
  <2> HIDE DEF i, l
  <2>6. l = sent'[readbuf'[1].of].length
    BY <2>5 DEF i, l
  <2>7. QED
    BY <2>4, <2>5, <2>6 DEF Hand
<1>9. Cuts'
  BY <1>1, <1>4, <1>5 DEF Course, Cuts
<1>10. QED
  BY <1>3, <1>6, <1>7, <1>8, <1>9 DEF Course

\* Having read the first bytes of a packet, what comes next is its next byte.
LEMMA InPacket ==
    ASSUME Types, NEW f, Along(f), readbuf # <<>>, readbuf[1].at = 1
    PROVE  LET i == readbuf[1].of
           IN  /\ i \in 1..Len(sent) /\ f[1] = Start(i)
               /\ \A j \in 1..(Ahead + 1) : j <= Size(i) => f[j] = [of |-> i, at |-> j]
               /\ Size(i) \in 1..Ahead => f[Size(i) + 1] = Start(i + 1)
<1> DEFINE i == readbuf[1].of
<1>1. 1 \in 1..Len(readbuf) /\ Ahead \in Nat
  BY Lengths3
<1>2. i \in 1..Len(sent) /\ i \in Nat
  BY <1>1 DEF Types, AreBytes, IsByte
<1>3. f[1] = Start(i)
  <2>1. readbuf[1] = f[1] /\ f \in [Nat -> Place]
    BY <1>1 DEF Along, Lies
  <2>2. f[1] \in Place
    BY <2>1
  <2>3. QED
    BY <2>1, <2>2 DEF Place, Start
<1>4. f \in [Nat -> Place] /\ Runs(f, Ahead)
  BY DEF Along, Lies
<1> HIDE DEF i
<1>5. /\ \A j \in 1..(Ahead + 1) : j <= Size(i) => f[j] = [of |-> i, at |-> j]
      /\ Size(i) \in 1..Ahead => f[Size(i) + 1] = Start(i + 1)
  BY <1>1, <1>2, <1>3, <1>4, Straight
<1>6. QED
  BY <1>2, <1>3, <1>5 DEF i

\* ... a byte of the remaining length is read, ...
LEMMA DecodeCourse ==
    ASSUME Types, Chunks, Count, Course, DecodeByte
    PROVE  Course'
<1>1. /\ pc = "length" /\ Len(readbuf) <= LengthBytes /\ mqttread(1, "short")
      /\ UNCHANGED <<layer, conn, sent, coming, accepted>>
  BY DEF DecodeByte, LengthByteLeft
<1> DEFINE n == Len(readbuf)
<1>2. n \in 1..LengthBytes /\ readbuf # <<>>
  BY <1>1, Constants DEF Count
<1>3. /\ Old' /\ Split' /\ \A f : Along(f) => Along(f)'
      /\ Cardinality(Earlier)' = Cardinality(Earlier)
      /\ "stale" \in mishaps' <=> "stale" \in mishaps
      /\ Took(Got(1))
  BY <1>1, ReadCourse
<1>4. /\ mishaps \subseteq mishaps' /\ mishaps' \subseteq mishaps \cup {"short", "late"}
      /\ Got(1) = 1 => ("short" \in mishaps' <=> "short" \in mishaps)
      /\ Got(1) # 1 => "short" \in mishaps' /\ ("late" \in mishaps' \/ Got(1) \in 1..(1 - 1))
  BY <1>1, ReadMishaps
<1>5. /\ "cut" \in mishaps' <=> "cut" \in mishaps
      /\ Got(1) # 1 => "short" \in mishaps' /\ "late" \in mishaps'
  BY <1>4
<1>6. Answers' /\ Framing'
  BY <1>1, <1>4, AcceptedStays DEF Course
<1>7. Cuts'
  BY <1>1, <1>4, <1>5 DEF Course, Cuts
<1>8. pc' \in {"length", "body"}
  BY DEF DecodeByte
<1>9. OnCourse'
  <2> SUFFICES ASSUME "stale" \notin mishaps' PROVE \E f : Along(f)' /\ Frame(f)'
    BY DEF OnCourse
  <2>1. PICK f : Along(f) /\ Frame(f)
    BY <1>3 DEF Course, OnCourse
  <2>2. Untouched' => Untouched
    BY <1>3, <1>4 DEF Untouched
  <2>3. Untouched => f[1] = NextStart
    BY <1>1, <2>1 DEF Frame
  <2>4. NextStart' = NextStart
    BY <1>1, <1>3 DEF NextStart, Start
  <2>5. Frame(f)'
    BY <1>8, <2>2, <2>3, <2>4 DEF Frame
  <2>6. QED
    BY <1>3, <2>1, <2>5
<1>10. Hand'
  <2> SUFFICES ASSUME Decoded', readbuf'[1].at = 1 PROVE Hand'
    BY DEF Hand
  <2>1. Got(1) = 1 /\ received # <<>>
    <3>1. Got(1) = 1
      BY <1>5 DEF Decoded
    <3>2. QED
      BY <3>1, ReachIs DEF Got
  <2>2. Took(1)
    BY <1>3, <2>1
  <2>3. readbuf'[1] = readbuf[1] /\ Len(readbuf') = n + 1 /\ 1 \in 1..Len(received)
    <3>1. 1 \in 1..n
      BY <1>2
    <3>2. QED
      BY <2>1, <2>2, <3>1, Lengths3 DEF Took
  <2>4. "stale" \notin mishaps /\ "short" \notin mishaps
    BY <1>3, <1>4 DEF Decoded
  <2>5. PICK f : Along(f)
    BY <2>4 DEF Course, OnCourse
  <2> DEFINE i == readbuf[1].of
             l == sent[i].length
             s == LengthSize(l)
  <2>6. /\ i \in 1..Len(sent) /\ f[1] = Start(i)
        /\ \A j \in 1..(Ahead + 1) : j <= Size(i) => f[j] = [of |-> i, at |-> j]
    BY <1>2, <2>3, <2>5, InPacket
  <2>7. l \in Nat /\ s \in 1..LengthBytes /\ l < Power[s] /\ Size(i) = 1 + s + l
    BY <2>6, SizeIs
  <2>8. n <= s /\ rem_len = l % Power[n - 1]
    BY <1>1, <1>2, <2>3, <2>4 DEF Course, Hand, Decoded
  <2> DEFINE b == received[1]
  <2>9. b.of = i /\ b.at = n + 1
    <3>1. At(b) = f[n + 1]
      BY <2>3, <2>5 DEF Along, Lies
    <3>2. n + 1 \in 1..(Ahead + 1) /\ n + 1 <= Size(i)
      <4>1. Ahead \in Nat /\ n <= Ahead
        BY <1>2, Lengths3 DEF Ahead
      <4> HIDE DEF i, l, s, n
      <4>2. QED
        BY <1>2, <2>7, <2>8, <4>1
    <3>3. f[n + 1] = [of |-> i, at |-> n + 1]
      BY <2>6, <3>2
    <3>4. At(b) = [of |-> i, at |-> n + 1]
      BY <3>1, <3>3
    <3> HIDE DEF i, b
    <3>5. QED
      BY <3>4 DEF At
  <2>10. n - 1 \in 0..LengthBytes /\ n \in 0..LengthBytes /\ (n + 1) - 2 = n - 1
    <3> HIDE DEF n
    <3>1. QED
      BY <1>2, Constants
  <2> DEFINE m == Power[n - 1]
             v == (l \div m) % Base
  <2>11. Digit(b) = {[value |-> v, more |-> n + 1 < 1 + s]}
    <3>1. sent[b.of].length = l /\ b.at - 2 = n - 1
      BY <2>9, <2>10
    <3>2. n + 1 \in 2..(1 + s)
      <4> HIDE DEF s, n
      <4>1. QED
        BY <1>2, <2>7, <2>8
    <3>3. IsLength(b)
      BY <2>9, <3>1, <3>2 DEF IsLength
    <3> HIDE DEF b, l, n
    <3>4. QED
      BY <2>9, <3>1, <3>3 DEF Digit
  <2>12. /\ rem_len' = rem_len + v * m
         /\ pc' = IF n + 1 < 1 + s THEN "length" ELSE "body"
    <3>1. PICK d \in Digit(b) : /\ rem_len' = Weighted(rem_len, d.value, n - 1)
                                /\ pc' = IF d.more THEN "length" ELSE "body"
      BY <2>1 DEF DecodeByte
    <3> DEFINE more == n + 1 < 1 + s
    <3>2. d = [value |-> v, more |-> more]
      BY <2>11, <3>1
    <3> HIDE DEF v, more, b
    <3>3. d.value = v /\ d.more = more
      BY <3>2
    <3>4. QED
      BY <3>1, <3>3 DEF Weighted, more
  <2>13. rem_len' = l % Power[n] /\ m \in Nat \ {0}
    <3>1. m \in Nat \ {0} /\ Power[n] = Base * m
      BY <1>2, <2>10, PowerIs
    <3>2. l % (Base * m) = (l % m) + ((l \div m) % Base) * m
      <4> HIDE DEF l, m
      <4>1. QED
        BY <2>7, <3>1, NextDigit, Constants
    <3>3. QED
      BY <2>8, <2>12, <3>1, <3>2
  <2>14. pc' = "length" => n + 1 <= s
    <3> HIDE DEF n, s
    <3>1. QED
      BY <1>2, <2>7, <2>12
  <2>15. pc' = "body" => n + 1 = 1 + s /\ rem_len' = l
    <3> SUFFICES ASSUME pc' = "body" PROVE n + 1 = 1 + s /\ rem_len' = l
      OBVIOUS
    <3>1. n = s
      <4> HIDE DEF n, s
      <4>1. QED
        BY <1>2, <2>7, <2>8, <2>12
    <3> DEFINE p == Power[n]
    <3>2. p \in Nat \ {0} /\ l < p
      BY <2>7, <2>10, <3>1, PowerIs
    <3>3. l % p = l
      <4> HIDE DEF l, p
      <4>1. l = p * 0 + l /\ l \in 0..(p - 1)
        BY <2>7, <3>2
      <4>2. QED
        BY <2>7, <3>2, <4>1, RemainderIs
    <3>4. QED
      BY <2>13, <3>1, <3>3
  <2>16. /\ Len(readbuf') - 1 = n /\ sent'[readbuf'[1].of].length = l
    BY <1>1, <1>2, <2>3
  <2> HIDE DEF n, l, s
  <2>17. QED
    BY <2>3, <2>13, <2>14, <2>15, <2>16 DEF Hand, s
<1>11. QED
  BY <1>3, <1>6, <1>7, <1>9, <1>10 DEF Course

\* ... the length does not fit the buffer, ...
LEMMA BadLengthCourse ==
    ASSUME Types, Chunks, Count, Course, BadLength
    PROVE  Course'
<1>1. /\ pc = "length" /\ ~(Len(readbuf) <= LengthBytes) /\ pc' = "body"
      /\ UNCHANGED <<layer, conn, sent, coming, received, prepend>>
      /\ UNCHANGED <<readbuf, rem_len, accepted, mishaps>>
  BY DEF BadLength, LengthByteLeft
<1>2. Old' /\ Cardinality(Earlier)' = Cardinality(Earlier)
  BY <1>1, OldStays DEF Course
<1>3. Answers' /\ Framing'
  BY <1>1, AcceptedStays DEF Course
<1>4. OnCourse'
  <2> SUFFICES ASSUME "stale" \notin mishaps PROVE \E f : Along(f)' /\ Frame(f)'
    BY <1>1 DEF OnCourse
  <2>1. PICK f : Along(f) /\ Frame(f)
    BY DEF Course, OnCourse
  <2>2. NextStart' = NextStart
    BY <1>1, <1>2 DEF NextStart, Start
  <2>3. Along(f)'
    BY <1>1, <2>1 DEF Along, Lies, Runs, Ahead, After, Start, Size, Closed, At
  <2>4. Frame(f)'
    BY <1>1, <2>1, <2>2 DEF Frame, Untouched
  <2>5. QED
    BY <2>3, <2>4
<1>5. Hand'
  <2> SUFFICES ASSUME Decoded, readbuf # <<>>, readbuf[1].at = 1 PROVE FALSE
    BY <1>1 DEF Hand, Decoded
  <2>1. 1 \in 1..Len(readbuf)
    BY DEF Types
  <2>2. readbuf[1].of \in 1..Len(sent)
    BY <2>1 DEF Types, AreBytes, IsByte
  <2>3. LengthSize(sent[readbuf[1].of].length) \in 1..LengthBytes
    BY <2>2, SizeIs
  <2>4. Len(readbuf) <= LengthSize(sent[readbuf[1].of].length)
    BY <1>1 DEF Course, Hand
  <2>5. QED
    BY <1>1, <2>3, <2>4, Constants, Lengths3
<1>6. Split' /\ Cuts'
  BY <1>1 DEF Course, Split, EndWhole, Size, Cuts
<1>7. QED
  BY <1>2, <1>3, <1>4, <1>5, <1>6 DEF Course

\* ... and the rest of the packet is read.
LEMMA BodyCourse ==
    ASSUME Types, Chunks, Count, Course, ReadBody
    PROVE  Course'
<1>1. /\ pc = "body" /\ mqttread(rem_len, "cut") /\ pc' = "dispatch"
      /\ UNCHANGED <<layer, conn, sent, coming>>
      /\ accepted' = IF Got(rem_len) = rem_len THEN Append(accepted, readbuf') ELSE accepted
  BY DEF ReadBody, BodyComplete
<1> DEFINE n == Len(readbuf)
           len == rem_len
           g == Got(len)
<1>2. len \in Nat /\ readbuf # <<>> /\ n \in Nat \ {0}
  <2>1. len \in Nat /\ readbuf # <<>>
    BY <1>1, Constants, PowerIs DEF Count
  <2>2. QED
    BY <2>1 DEF Types
<1>3. /\ Old' /\ Split' /\ \A f : Along(f) => Along(f)'
      /\ Cardinality(Earlier)' = Cardinality(Earlier)
      /\ "stale" \in mishaps' <=> "stale" \in mishaps
      /\ Took(g) /\ g \in 0..len
  BY <1>1, <1>2, ReadCourse
<1>4. /\ mishaps \subseteq mishaps' /\ mishaps' \subseteq mishaps \cup {"cut", "late"}
      /\ g = len => ("cut" \in mishaps' <=> "cut" \in mishaps)
      /\ g # len =>
             /\ "cut" \in mishaps'
             /\ "late" \in mishaps' \/ (/\ layer = "tls" /\ received # <<>>
                                        /\ g \in 1..(len - 1) /\ received[g].ends)
  BY <1>1, <1>2, ReadMishaps
<1>5. "short" \in mishaps' <=> "short" \in mishaps
  BY <1>4
<1> HIDE DEF g
<1>6. /\ Len(readbuf') = n + g /\ readbuf'[1] = readbuf[1] /\ readbuf' \in Seq(Bytes)
      /\ g \in 0..Len(received) /\ Len(received) \in Nat
  <2>1. 1 \in 1..n
    BY <1>2
  <2>2. QED
    BY <1>3, <2>1, Lengths3 DEF Took
<1>7. accepted \in Seq(Seq(Bytes)) /\ Len(accepted) \in Nat
  BY DEF Types
\* What is read of a packet whose first byte is that of readbuf.
<1>8. ASSUME Decoded, readbuf[1].at = 1, NEW f, Along(f)
      PROVE  LET i == readbuf[1].of
             IN  /\ i \in 1..Len(sent) /\ f[1] = Start(i) /\ Size(i) = n + len
                 /\ \A j \in 1..(Ahead + 1) : j <= Size(i) => f[j] = [of |-> i, at |-> j]
                 /\ Size(i) \in 1..Ahead => f[Size(i) + 1] = Start(i + 1)
  <2> DEFINE i == readbuf[1].of
             l == sent[i].length
  <2>1. /\ i \in 1..Len(sent) /\ f[1] = Start(i)
        /\ \A j \in 1..(Ahead + 1) : j <= Size(i) => f[j] = [of |-> i, at |-> j]
        /\ Size(i) \in 1..Ahead => f[Size(i) + 1] = Start(i + 1)
    BY <1>2, <1>8, InPacket
  <2>2. n = 1 + LengthSize(l) /\ len = l
    BY <1>1, <1>2, <1>8 DEF Course, Hand
  <2>3. Size(i) = 1 + LengthSize(l) + l
    BY <2>1, SizeIs
  <2> HIDE DEF i, l, n
  <2>4. Size(i) = n + len
    BY <2>2, <2>3
  <2>5. QED
    BY <2>1, <2>4 DEF i, n
\* A whole packet is what it takes.
<1>9. ASSUME Decoded, readbuf[1].at = 1, g = len, NEW f, Along(f)
      PROVE  /\ readbuf[1].of \in 1..Len(sent) /\ IsPacket(readbuf', readbuf[1].of)
             /\ f[1] = Start(readbuf[1].of) /\ f[Len(readbuf') + 1] = Start(readbuf[1].of + 1)
  <2> DEFINE i == readbuf[1].of
  <2>1. /\ i \in 1..Len(sent) /\ f[1] = Start(i) /\ Size(i) = n + len
        /\ \A j \in 1..(Ahead + 1) : j <= Size(i) => f[j] = [of |-> i, at |-> j]
        /\ Size(i) \in 1..Ahead => f[Size(i) + 1] = Start(i + 1)
    BY <1>8, <1>9
  <2> HIDE DEF i
  <2>2. Len(readbuf') = Size(i) /\ Size(i) \in Nat
    BY <1>2, <1>6, <1>9, <2>1
  <2>3. Size(i) \in 1..Ahead /\ Ahead \in Nat
    BY <1>2, <1>6, <1>9, <2>1, Lengths3 DEF Ahead
  <2>4. \A j \in 1..Len(readbuf') : readbuf'[j] = f[j]
    <3>1. Along(f)'
      BY <1>3, <1>9
    <3>2. QED
      BY <3>1 DEF Along, Lies
  <2>5. \A j \in 1..Len(readbuf') : readbuf'[j] = [of |-> i, at |-> j]
    <3>1. \A j \in 1..Len(readbuf') : j \in 1..(Ahead + 1) /\ j <= Size(i)
      BY <2>2, <2>3
    <3>2. QED
      BY <2>1, <2>4, <3>1
  <2>6. QED
    BY <2>1, <2>2, <2>3, <2>5 DEF IsPacket, i
<1>10. Answers'
  <2> SUFFICES ASSUME Decoded' PROVE Answers'
    BY DEF Answers
  <2>1. Decoded
    BY <1>3, <1>5 DEF Decoded
  <2>2. CASE g # len
    <3>1. accepted' = accepted
      BY <1>1, <2>2 DEF g
    <3>2. QED
      BY <1>1, <1>4, <3>1, AcceptedStays DEF Course
  <2>3. CASE g = len
    <3> DEFINE Good(a) == /\ a # <<>> /\ a[1].of \in 1..Len(sent)
                          /\ a[1].at = 1 => IsPacket(a, a[1].of)
    <3>1. accepted' = Append(accepted, readbuf')
      BY <1>1, <2>3 DEF g
    <3>2. Good(readbuf')
      <4>1. readbuf' # <<>>
        BY <1>2, <1>6
      <4>2. readbuf[1].of \in 1..Len(sent)
        <5>1. 1 \in 1..n
          BY <1>2
        <5>2. QED
          BY <5>1 DEF Types, AreBytes, IsByte
      <4>3. PICK f : Along(f)
        BY <2>1 DEF Decoded, Course, OnCourse
      <4>4. readbuf[1].at = 1 => IsPacket(readbuf', readbuf[1].of)
        BY <1>9, <2>1, <2>3, <4>3
      <4>5. QED
        BY <1>6, <4>1, <4>2, <4>4
    <3>3. \A k \in 1..Len(accepted) : Good(accepted[k])
      BY <2>1 DEF Course, Answers
    <3>4. Answers' <=> \A k \in 1..Len(accepted') : Good(accepted'[k])
      BY <1>1 DEF Answers, IsPacket, Size
    <3> HIDE DEF Good
    <3>5. /\ Len(accepted') = Len(accepted) + 1
          /\ \A k \in 1..Len(accepted) : accepted'[k] = accepted[k]
          /\ accepted'[Len(accepted) + 1] = readbuf'
      <4> DEFINE r == readbuf'
      <4>1. r \in Seq(Bytes) /\ accepted' = Append(accepted, r)
        BY <1>6, <3>1
      <4> HIDE DEF r
      <4>2. /\ Len(accepted') = Len(accepted) + 1
            /\ \A k \in 1..Len(accepted) : accepted'[k] = accepted[k]
            /\ accepted'[Len(accepted) + 1] = r
        BY <1>7, <4>1
      <4>3. QED
        BY <4>2 DEF r
    <3>6. \A k \in 1..Len(accepted') : k \in 1..Len(accepted) \/ k = Len(accepted) + 1
      BY <1>7, <3>5
    <3>7. QED
      BY <3>2, <3>3, <3>4, <3>5, <3>6
  <2>4. QED
    BY <2>2, <2>3
\* As long as nothing went wrong that packet is the one whose turn it is.
<1>11. ASSUME Untouched', NEW f, Along(f), Frame(f)
       PROVE  /\ g = len /\ Untouched /\ Decoded
              /\ f[1] = NextStart /\ readbuf[1] = NextStart
  <2>1. g = len
    BY <1>4, <1>11 DEF Untouched
  <2>2. Untouched /\ Decoded
    BY <1>3, <1>4, <1>5, <1>11, <2>1 DEF Untouched, Decoded
  <2>3. f[1] = NextStart
    BY <1>1, <1>11, <2>2 DEF Frame
  <2>4. readbuf[1] = f[1]
    <3>1. 1 \in 1..n
      BY <1>2
    <3>2. QED
      BY <1>11, <3>1 DEF Along, Lies
  <2>5. QED
    BY <2>1, <2>2, <2>3, <2>4
<1> DEFINE e == Cardinality(Earlier)
<1>12. ASSUME Untouched'
       PROVE  \E f : /\ Along(f) /\ g = len /\ Untouched
                     /\ e + Len(accepted) + 1 <= Len(sent)
                     /\ IsPacket(readbuf', e + Len(accepted) + 1)
                     /\ f[Len(readbuf') + 1] = Start(e + Len(accepted) + 1 + 1)
  <2>1. PICK f : Along(f) /\ Frame(f)
    BY <1>3, <1>12 DEF Course, OnCourse, Untouched
  <2>2. g = len /\ Untouched /\ Decoded /\ readbuf[1] = NextStart
    BY <1>11, <1>12, <2>1
  <2>3. readbuf[1].at = 1 /\ readbuf[1].of = e + Len(accepted) + 1
    BY <2>2 DEF NextStart, Start
  <2>4. /\ readbuf[1].of \in 1..Len(sent) /\ IsPacket(readbuf', readbuf[1].of)
        /\ f[Len(readbuf') + 1] = Start(readbuf[1].of + 1)
    BY <1>9, <2>1, <2>2, <2>3
  <2>5. readbuf[1].of <= Len(sent)
    BY <2>4, Lengths3
  <2>6. QED
    BY <2>1, <2>2, <2>3, <2>4, <2>5
<1>13. g = len => /\ Len(accepted') = Len(accepted) + 1
                  /\ \A k \in 1..Len(accepted) : accepted'[k] = accepted[k]
                  /\ accepted'[Len(accepted) + 1] = readbuf'
  <2> SUFFICES ASSUME g = len
               PROVE  /\ Len(accepted') = Len(accepted) + 1
                      /\ \A k \in 1..Len(accepted) : accepted'[k] = accepted[k]
                      /\ accepted'[Len(accepted) + 1] = readbuf'
    OBVIOUS
  <2> DEFINE r == readbuf'
  <2>1. r \in Seq(Bytes) /\ accepted' = Append(accepted, r)
    BY <1>1, <1>6 DEF g
  <2> HIDE DEF r
  <2>2. /\ Len(accepted') = Len(accepted) + 1
        /\ \A k \in 1..Len(accepted) : accepted'[k] = accepted[k]
        /\ accepted'[Len(accepted) + 1] = r
    BY <1>7, <2>1
  <2>3. QED
    BY <2>2 DEF r
<1>14. e' = e /\ e \in Nat
  BY <1>3 DEF Course, Old
<1>15. Framing'
  <2> SUFFICES ASSUME Untouched', NEW k \in 1..Len(accepted')
               PROVE  e + k <= Len(sent) /\ IsPacket(accepted'[k], e + k)
    BY <1>1, <1>14 DEF Framing, IsPacket, Size
  <2>1. /\ g = len /\ Untouched
        /\ e + Len(accepted) + 1 <= Len(sent)
        /\ IsPacket(readbuf', e + Len(accepted) + 1)
    BY <1>12
  <2> HIDE DEF e
  <2>2. CASE k \in 1..Len(accepted)
    <3>1. e + k <= Len(sent) /\ IsPacket(accepted[k], e + k)
      BY <2>1, <2>2 DEF Course, Framing, e
    <3>2. QED
      BY <1>13, <2>1, <2>2, <3>1
  <2>3. CASE k \notin 1..Len(accepted)
    <3>1. k = Len(accepted) + 1 /\ e + k = e + Len(accepted) + 1
      BY <1>7, <1>13, <1>14, <2>1, <2>3
    <3>2. QED
      BY <1>13, <2>1, <3>1
  <2>4. QED
    BY <2>2, <2>3
<1>16. OnCourse'
  <2> SUFFICES ASSUME "stale" \notin mishaps' PROVE \E f : Along(f)' /\ Frame(f)'
    BY DEF OnCourse
  <2>1. CASE ~Untouched'
    <3>1. PICK f : Along(f)
      BY <1>3 DEF Course, OnCourse
    <3>2. QED
      BY <1>3, <2>1, <3>1 DEF Frame
  <2>2. CASE Untouched'
    <3>1. PICK f : /\ Along(f) /\ g = len
                   /\ f[Len(readbuf') + 1] = Start(e + Len(accepted) + 1 + 1)
      BY <1>12, <2>2
    <3>2. Len(accepted') = Len(accepted) + 1
      BY <1>13, <3>1
    <3>3. NextStart' = Start(e + Len(accepted) + 1 + 1)
      <4>1. NextStart' = Start(e' + Len(accepted') + 1)
        BY DEF NextStart, Start
      <4> HIDE DEF e
      <4>2. e + Len(accepted') + 1 = e + Len(accepted) + 1 + 1
        BY <1>7, <1>14, <3>2
      <4>3. QED
        BY <1>14, <4>1, <4>2
    <3>4. Frame(f)'
      BY <1>1, <3>1, <3>3 DEF Frame
    <3>5. QED
      BY <1>3, <3>1, <3>4
  <2>3. QED
    BY <2>1, <2>2
<1>17. Cuts'
  <2>1. CASE g = len
    BY <1>1, <1>4, <1>5, <2>1 DEF Course, Cuts
  <2>2. CASE g # len /\ "late" \notin mishaps' /\ "split" \notin mishaps
    <3>1. /\ layer = "tls" /\ received # <<>> /\ g \in 1..(len - 1) /\ received[g].ends
          /\ "late" \notin mishaps
      BY <1>4, <2>2
    <3>2. "stale" \notin mishaps /\ "short" \notin mishaps /\ "cut" \notin mishaps
      BY <2>2, <3>1 DEF Course, Old, Cuts
    <3>3. PICK f : Along(f) /\ Frame(f)
      BY <3>2 DEF Course, OnCourse
    <3>4. readbuf[1] = NextStart /\ Decoded
      <4>1. f[1] = NextStart
        BY <1>1, <3>2, <3>3 DEF Frame, Untouched
      <4>2. 1 \in 1..n
        BY <1>2
      <4>3. readbuf[1] = f[1]
        BY <3>3, <4>2 DEF Along, Lies
      <4>4. QED
        BY <3>2, <4>1, <4>3 DEF Decoded
    <3>5. readbuf[1].at = 1
      BY <3>4 DEF NextStart, Start
    <3> DEFINE i == readbuf[1].of
    <3>6. /\ Size(i) = n + len
          /\ \A j \in 1..(Ahead + 1) : j <= Size(i) => f[j] = [of |-> i, at |-> j]
      BY <1>8, <3>3, <3>4, <3>5
    <3> HIDE DEF i
    <3>7. /\ g \in 1..Len(received) /\ n + g \in 1..(Ahead + 1)
          /\ n + g < Size(i) /\ n + g <= Size(i)
      BY <1>2, <1>6, <3>1, <3>6, Lengths3 DEF Ahead
    <3>8. At(received[g]) = [of |-> i, at |-> n + g]
      <4>1. At(received[g]) = f[n + g]
        BY <3>3, <3>7 DEF Along, Lies
      <4>2. f[n + g] = [of |-> i, at |-> n + g]
        BY <3>6, <3>7
      <4>3. QED
        BY <4>1, <4>2
    <3>9. received[g].of = i /\ received[g].at = n + g
      BY <3>8 DEF At
    <3>10. received[g].at = Size(received[g].of)
      BY <2>2, <3>1, <3>2, <3>7 DEF Course, Split, EndWhole
    <3>11. QED
      BY <3>6, <3>7, <3>9, <3>10, <1>2, <1>6
  <2>3. CASE "late" \in mishaps' \/ (g # len /\ "split" \in mishaps)
    <3>1. CASE "late" \in mishaps'
      BY <3>1 DEF Cuts
    <3>2. CASE "late" \notin mishaps' /\ g # len /\ "split" \in mishaps
      BY <1>1, <1>4, <3>2 DEF Cuts
    <3>3. QED
      BY <2>3, <3>1, <3>2
  <2>4. QED
    BY <2>1, <2>2, <2>3
<1>18. Hand'
  BY <1>1 DEF Hand
<1>19. QED
  BY <1>3, <1>10, <1>15, <1>16, <1>17, <1>18 DEF Course

\* The course holds initially.
LEMMA CourseFirst == Init => Course
<1> SUFFICES ASSUME Init PROVE Course
  OBVIOUS
<1>1. /\ sent = <<>> /\ coming = <<>> /\ received = <<>> /\ readbuf = <<>> /\ accepted = <<>>
      /\ mishaps = {} /\ pc = "header" /\ conn = 1
  BY DEF Init
<1>2. Len(sent) = 0 /\ Len(coming) = 0 /\ Len(received) = 0 /\ Len(readbuf) = 0 /\ Len(accepted) = 0
  BY <1>1
<1>3. Earlier = {} /\ Cardinality(Earlier) = 0
  <2>1. DOMAIN sent = {}
    BY <1>1
  <2>2. Earlier = {}
    BY <2>1 DEF Earlier
  <2>3. QED
    BY <2>2, FS_EmptySet
<1>4. Old
  BY <1>1, <1>2, <1>3 DEF Old
<1>5. OnCourse
  <2> DEFINE h == [k \in Nat |-> [of |-> 1, at |-> 1]]
  <2>1. h \in [Nat -> Place] /\ h[1] = Start(1)
    BY DEF Place, Start
  <2> HIDE DEF h
  <2>2. Ahead = 0
    BY <1>2 DEF Ahead
  <2>3. Lies(h) /\ Runs(h, Ahead)
    BY <1>2, <2>1, <2>2 DEF Lies, Runs
  <2>4. Along(h)
    BY <1>2, <2>1, <2>2, <2>3 DEF Along
  <2>5. NextStart = Start(1)
    BY <1>2, <1>3 DEF NextStart
  <2>6. Frame(h)
    BY <1>1, <1>2, <2>1, <2>5 DEF Frame
  <2>7. QED
    BY <2>4, <2>6 DEF OnCourse
<1>6. Hand /\ Split /\ Answers /\ Framing /\ Cuts
  BY <1>1, <1>2 DEF Hand, Split, Answers, Framing, Cuts, EndWhole
<1>7. QED
  BY <1>4, <1>5, <1>6 DEF Course

\* Every step keeps the course.
LEMMA CourseStays == Types /\ Chunks /\ Count /\ Course /\ [Next]_vars => Course'
<1> SUFFICES ASSUME Types, Chunks, Count, Course, [Next]_vars PROVE Course'
  OBVIOUS
<1>1. CASE Network
  <2>1. CASE \E length \in Lengths, joins \in BOOLEAN :
                \E cutAt \in 1..(1 + LengthBytes + length) : BrokerSends(length, cutAt, joins)
    <3>1. PICK length \in Lengths, joins \in BOOLEAN :
              \E cutAt \in 1..(1 + LengthBytes + length) : BrokerSends(length, cutAt, joins)
      BY <2>1
    <3>2. PICK cutAt \in 1..(1 + LengthBytes + length) : BrokerSends(length, cutAt, joins)
      BY <3>1
    <3>3. cutAt \in Nat
      OBVIOUS
    <3>4. QED
      BY <3>2, <3>3, SendsCourse
  <2>2. QED
    BY <1>1, <2>1, ArriveCourse, LostCourse DEF Network
<1>2. CASE readPacket
  BY <1>2, HeaderCourse, DecodeCourse, BadLengthCourse, BodyCourse, GivenUpCourse DEF readPacket
<1>3. CASE sendPacket \/ UNCHANGED vars
  <2>1. /\ UNCHANGED <<layer, conn, sent, coming, received, prepend>>
        /\ UNCHANGED <<pc, readbuf, rem_len, accepted>>
        /\ mishaps \subseteq mishaps' /\ mishaps' \subseteq mishaps \cup {"stalled"}
    BY <1>3 DEF sendPacket, SendPlain, SendRecord, SendWaiting, Writing, vars, readVars
  <2>2. Closed' = Closed /\ ("stale" \in mishaps' <=> "stale" \in mishaps)
        /\ ("split" \in mishaps' <=> "split" \in mishaps)
    BY <2>1 DEF Closed
  <2>3. \A f : Along(f) => Along(f)'
    BY <2>1, <2>2 DEF Along, Lies, Runs, Ahead, After, Start, Size, At
  <2>4. Split => Split'
    BY <2>1, <2>2 DEF Split, EndWhole, Size
  <2>5. /\ mishaps \subseteq mishaps' /\ mishaps' \subseteq mishaps \cup {"stalled", "closed"}
        /\ UNCHANGED <<layer, conn, sent, pc, readbuf, rem_len, accepted>>
    BY <2>1
  <2>6. QED
    BY <2>3, <2>4, <2>5, IdleCourse
<1>4. CASE Reconnect
  BY <1>4, ReconnectCourse
<1>5. QED
  BY <1>1, <1>2, <1>3, <1>4 DEF Next

\* The inductive invariant of the reading side.
Reading == Types /\ Chunks /\ Count /\ Course

\* Reading is an invariant.
LEMMA ReadingAlways == Spec => []Reading
<1>1. Init => Reading
  BY FirstTypes, CourseFirst DEF Reading
<1>2. Reading /\ [Next]_vars => Reading'
  BY TypesStay, CourseStays DEF Reading
<1>3. QED
  BY <1>1, <1>2, PTL DEF Spec

\* The reports name calls that were made.
LEMMA ReportsFirst == Init => reported \subseteq 1..writes
  BY DEF Init

\* They do so after every step.
LEMMA ReportsStay ==
    Order /\ reported \subseteq 1..writes /\ [Next]_vars => (reported \subseteq 1..writes)'
<1> SUFFICES ASSUME Order, reported \subseteq 1..writes, [Next]_vars
             PROVE  reported' \subseteq 1..writes'
  OBVIOUS
<1>1. writes \in Nat
  BY DEF Order
<1>2. /\ writes' = writes \/ writes' = writes + 1
      /\ \/ reported' = reported \/ reported' = {}
         \/ writes' = writes + 1 /\ reported' = reported \cup {writes'}
  <2>1. CASE sendPacket
    BY <2>1 DEF sendPacket, SendPlain, SendRecord, SendWaiting, Writing, NotSent
  <2>2. CASE ~sendPacket
    BY <2>2 DEF Next, Network, ChunkArrives, ConnectionLost, BrokerSends, readPacket, ReadHeader,
                DecodeByte, BadLength, ReadBody, CycleEnds, Reconnect, vars, writeVars
  <2>3. QED
    BY <2>1, <2>2
<1>3. 1..writes \subseteq 1..writes' /\ (writes' = writes + 1 => writes' \in 1..writes')
  BY <1>1, <1>2
<1>4. QED
  <2>1. CASE reported' = reported \/ reported' = {}
    BY <1>3, <2>1
  <2>2. CASE writes' = writes + 1 /\ reported' = reported \cup {writes'}
    BY <1>3, <2>2
  <2>3. QED
    BY <1>2, <2>1, <2>2

\* No more than MaxWrites calls are made.
LEMMA WritesBounded == Spec => [](writes <= MaxWrites)
<1>1. Init => writes <= MaxWrites
  BY StreamBoundsAssumption DEF Init
<1>2. Order /\ writes <= MaxWrites /\ [Next]_vars => (writes <= MaxWrites)'
  <2> SUFFICES ASSUME Order, writes <= MaxWrites, [Next]_vars PROVE writes' <= MaxWrites
    OBVIOUS
  <2>1. CASE sendPacket
    BY <2>1, StreamBoundsAssumption
       DEF sendPacket, SendPlain, SendRecord, SendWaiting, Writing, Order
  <2>2. CASE ~sendPacket
    BY <2>2 DEF Next, Network, ChunkArrives, ConnectionLost, BrokerSends, readPacket, ReadHeader,
                DecodeByte, BadLength, ReadBody, CycleEnds, Reconnect, vars, writeVars
  <2>3. QED
    BY <2>1, <2>2
<1>3. QED
  BY <1>1, <1>2, WritingAlways, PTL DEF Spec

\* The state of reading and writing has the shape of TypeOK: in particular rem_len stays
\* below Base^LengthBytes, because decodePacket reads at most LengthBytes digits.
THEOREM TypeCorrect == Spec => []TypeOK
<1>1. Spec => [](reported \subseteq 1..writes)
  BY ReportsFirst, ReportsStay, WritingAlways, PTL DEF Spec
<1>2. Reading /\ Order /\ reported \subseteq 1..writes /\ writes <= MaxWrites => TypeOK
  <2> SUFFICES ASSUME Reading, Order, reported \subseteq 1..writes, writes <= MaxWrites PROVE TypeOK
    OBVIOUS
  <2>1. writes \in 0..MaxWrites
    BY StreamBoundsAssumption DEF Order
  <2>2. QED
    BY <2>1 DEF TypeOK, Reading, Types, Count, Order
<1>3. QED
  BY <1>1, <1>2, ReadingAlways, WritingAlways, WritesBounded, PTL

\* A sequence that is packet i byte for byte is Whole(i).
LEMMA AreWhole ==
    ASSUME NEW a \in Seq(Bytes), NEW i, IsPacket(a, i)
    PROVE  a = Whole(i)
<1>1. a = [j \in 1..Len(a) |-> a[j]]
  OBVIOUS
<1>2. QED
  BY <1>1 DEF IsPacket, Whole

\* As long as no read was cut short, cycle returns the packets the broker sent, whole and
\* in order, however TCP and the records of TLS cut the stream (readPacket, decodePacket).
THEOREM PacketsAsSent == Spec => []FramingKept
<1>1. Reading => FramingKept
  <2> SUFFICES ASSUME Reading, mishaps \cap {"short", "cut", "stale"} = {},
                      NEW k \in DOMAIN accepted
               PROVE  /\ Cardinality(Earlier) + k <= Len(sent)
                      /\ accepted[k] = Whole(Cardinality(Earlier) + k)
    BY DEF FramingKept
  <2>1. Untouched
    BY DEF Untouched
  <2>2. accepted \in Seq(Seq(Bytes)) /\ k \in 1..Len(accepted)
    BY DEF Reading, Types
  <2>3. accepted[k] \in Seq(Bytes)
    BY <2>2, Element
  <2>4. /\ Cardinality(Earlier) + k <= Len(sent)
        /\ IsPacket(accepted[k], Cardinality(Earlier) + k)
    BY <2>1, <2>2 DEF Reading, Course, Framing
  <2>5. QED
    BY <2>3, <2>4, AreWhole
<1>2. QED
  BY <1>1, ReadingAlways, PTL

\* What readPacket reads from a header on it returns whole or not at all, also after the
\* framing was lost, unless decodePacket once got no byte in time.
THEOREM WholeOrNotAtAll == Spec => []AcceptedWhole
<1>1. Reading => AcceptedWhole
  <2> SUFFICES ASSUME Reading, mishaps \cap {"short", "stale"} = {}, NEW k \in DOMAIN accepted,
                      accepted[k][1].at = 1
               PROVE  accepted[k] = Whole(accepted[k][1].of)
    BY DEF AcceptedWhole
  <2>1. Decoded
    BY DEF Decoded
  <2>2. accepted \in Seq(Seq(Bytes)) /\ k \in 1..Len(accepted)
    BY DEF Reading, Types
  <2>3. accepted[k] \in Seq(Bytes)
    BY <2>2, Element
  <2>4. IsPacket(accepted[k], accepted[k][1].of)
    BY <2>1, <2>2 DEF Reading, Course, Answers
  <2>5. QED
    BY <2>3, <2>4, AreWhole
<1>2. QED
  BY <1>1, ReadingAlways, PTL

\* Only a timer, or with mbed TLS a record that ends within the packet, cuts a read short
\* (the read loops of the four network layers).
THEOREM OnlyTimersAndRecordsCut == Spec => []CutsExplained
<1>1. Reading => CutsExplained
  BY DEF Reading, Course, Cuts, CutsExplained
<1>2. QED
  BY <1>1, ReadingAlways, PTL

\* On every layer bytes of an older connection are the only cause for HeaderHasType to
\* fail: a connection that kept none, and on which no read was cut short, takes only
\* headers for headers (readPacket after mqttread of any of the layers).
THEOREM OnlyStaleBytesMislead == Spec => []("stale" \notin mishaps => HeaderHasType)
<1>1. Reading => ("stale" \notin mishaps => HeaderHasType)
  <2> SUFFICES ASSUME Reading, "stale" \notin mishaps,
                      mishaps \cap {"short", "cut"} = {}, pc \in {"length", "body"}
               PROVE  readbuf[1].at = 1
    BY DEF HeaderHasType
  <2>1. Untouched
    BY DEF Untouched
  <2>2. PICK f : Along(f) /\ Frame(f)
    BY DEF Reading, Course, OnCourse
  <2>3. f[1] = NextStart
    BY <2>1, <2>2 DEF Frame
  <2>4. 1 \in 1..Len(readbuf)
    <3>1. readbuf # <<>> /\ readbuf \in Seq(Bytes)
      BY DEF Reading, Count, Types
    <3>2. QED
      BY <3>1
  <2>5. readbuf[1] = f[1]
    BY <2>2, <2>4 DEF Along, Lies
  <2>6. QED
    BY <2>3, <2>5 DEF NextStart, Start
<1>2. QED
  BY <1>1, ReadingAlways, PTL
=============================================================================
