---------------------------- MODULE NtpClientProofs ----------------------------
(***************************************************************************)
(* Theorems about NtpClient: the arithmetic of NTPClient.c in unsigned     *)
(* integers, for every range of the time stamps and resolution of the      *)
(* clocks.                                                                 *)
(***************************************************************************)
EXTENDS NtpClient, TLAPS

-----------------------------------------------------------------------------
(* Arithmetic. *)

LEMMA Division ==
    ASSUME NEW x \in Int, NEW n \in Nat \ {0}
    PROVE  x \div n \in Int /\ n * (x \div n) <= x /\ x < n * (x \div n) + n
  OBVIOUS

LEMMA Remainder ==
    ASSUME NEW x \in Int, NEW n \in Nat \ {0}
    PROVE  x % n \in 0..(n - 1) /\ x = n * (x \div n) + (x % n)
  OBVIOUS

LEMMA Distribute ==
    ASSUME NEW n \in Int, NEW a \in Int, NEW b \in Int
    PROVE  n * (a - b) = n * a - n * b /\ n * (a + b) = n * a + n * b
  OBVIOUS

\* A product with a number between -1 and 1 that is 0.
LEMMA SmallMultiple ==
    ASSUME NEW n \in Nat \ {0}, NEW a \in Int, n * a < n, -n < n * a
    PROVE  a = 0
  OBVIOUS

LEMMA RemainderIs ==
    ASSUME NEW n \in Nat \ {0}, NEW x \in Int, NEW q \in Int, NEW r \in 0..(n - 1), x = n * q + r
    PROVE  x % n = r
<1> DEFINE d == x \div n
<1>1. d \in Int /\ x % n \in 0..(n - 1) /\ x = n * d + (x % n)
  BY Division, Remainder
<1> HIDE DEF d
<1>2. n * (q - d) = n * q - n * d
  BY <1>1, Distribute
<1>3. n * (q - d) < n /\ -n < n * (q - d)
  BY <1>1, <1>2
<1>4. q - d = 0
  BY <1>1, <1>3, SmallMultiple
<1>5. q = d
  BY <1>1, <1>4
<1>6. QED
  BY <1>1, <1>5

-----------------------------------------------------------------------------
(* What the code computes, on time stamps that do not differ by half of their range. *)

LEMMA Ranges == Range \in Nat \ {0} /\ Range = 2 * Half /\ Half \in Nat \ {0} /\ Second \in Nat \ {0}
  BY NtpAssumption DEF Range

LEMMA SecondsOf ==
    ASSUME NEW x \in Int
    PROVE  /\ x \div Second \in Int /\ (x \div Second) \div Range \in Int
           /\ Seconds(x) \in Int
           /\ x \div Second = Range * ((x \div Second) \div Range) + Seconds(x)
<1>1. x \div Second \in Int
  BY Ranges, Division
<1>2. Seconds(x) = (x \div Second) % Range
  BY DEF Seconds
<1> DEFINE m == x \div Second
           n == Range
<1>0. m \in Int /\ n \in Nat \ {0}
  BY <1>1, Ranges
<1> HIDE DEF m, n
<1>3. m \div n \in Int /\ m % n \in 0..(n - 1) /\ m = n * (m \div n) + (m % n)
  BY <1>0, Division, Remainder
<1>4. QED
  BY <1>0, <1>1, <1>2, <1>3 DEF m, n

\* How a number looks in unsigned integers.
Unsigned(d) == IF d >= 0 THEN d ELSE d + Range

\* The difference of two time stamps is that of the times, in unsigned integers.
LEMMA DifferenceOf ==
    ASSUME NEW x \in Int, NEW y \in Int,
           NEW d \in Int, d = (x \div Second) - (y \div Second), -Half < d, d < Half
    PROVE  Difference(Seconds(x), Seconds(y)) = Unsigned(d)
<1> DEFINE q == (x \div Second) \div Range
           p == (y \div Second) \div Range
           a == Seconds(x)
           b == Seconds(y)
<1>1. /\ q \in Int /\ p \in Int /\ a \in Int /\ b \in Int
      /\ x \div Second = Range * q + a /\ y \div Second = Range * p + b
      /\ x \div Second \in Int /\ y \div Second \in Int
  BY SecondsOf
<1> HIDE DEF q, p, a, b
<1>2. Range * (p - q) = Range * p - Range * q /\ Range * (p - q - 1) = Range * p - Range * q - Range
  BY <1>1, Ranges
<1>3. a - b = Range * (p - q) + d /\ a - b = Range * (p - q - 1) + (d + Range)
  <2>1. Range * q \in Int /\ Range * p \in Int
    BY <1>1, Ranges
  <2>2. QED
    BY <1>1, <1>2, <2>1, Ranges
<1>4. CASE d >= 0
  <2>1. d \in 0..(Range - 1)
    BY <1>4, Ranges
  <2> DEFINE z == a - b
             k == p - q
  <2>0. z \in Int /\ k \in Int /\ z = Range * k + d /\ d \in 0..(Range - 1) /\ Range \in Nat \ {0}
    BY <1>1, <1>3, <2>1, Ranges
  <2> HIDE DEF z, k
  <2>3. z % Range = d
    BY <2>0, RemainderIs
  <2>2. (a - b) % Range = d
    BY <2>3 DEF z
  <2>4. QED
    BY <1>4, <2>2 DEF Difference, Unsigned, a, b
<1>5. CASE d < 0
  <2>1. d + Range \in 0..(Range - 1)
    BY <1>5, Ranges
  <2> DEFINE z == a - b
             k == p - q - 1
             r == d + Range
  <2>0. z \in Int /\ k \in Int /\ z = Range * k + r /\ r \in 0..(Range - 1) /\ Range \in Nat \ {0}
    BY <1>1, <1>3, <2>1, Ranges
  <2> HIDE DEF z, k, r
  <2>3. z % Range = r
    BY <2>0, RemainderIs
  <2>2. (a - b) % Range = d + Range
    BY <2>3 DEF z, r
  <2>4. QED
    BY <1>5, <2>2 DEF Difference, Unsigned, a, b
<1>6. QED
  BY <1>4, <1>5

\* The conversion to int undoes one wrap.
LEMMA ToIntOf ==
    ASSUME NEW d \in Int, -Half <= d, d < Half
    PROVE  ToInt(d) = d /\ ToInt(d + Range) = d
<1>1. CASE d >= 0
  <2>1. d = Range * 0 + d /\ d + Range = Range * 1 + d /\ d \in 0..(Range - 1)
    BY <1>1, Ranges
  <2>2. d % Range = d /\ (d + Range) % Range = d
    BY <2>1, RemainderIs, Ranges
  <2>3. QED
    BY <2>2 DEF ToInt
<1>2. CASE d < 0
  <2>1. d = Range * (-1) + (d + Range) /\ d + Range = Range * 0 + (d + Range) /\ d + Range \in 0..(Range - 1)
    BY <1>2, Ranges
  <2>2. d % Range = d + Range /\ (d + Range) % Range = d + Range
    BY <2>1, RemainderIs, Ranges
  <2>3. QED
    BY <2>2, <1>2, Ranges DEF ToInt
<1>3. QED
  BY <1>1, <1>2

\* An int is what comes out.
LEMMA ToIntType == ASSUME NEW x \in Int PROVE ToInt(x) \in -Half..(Half - 1)
<1>1. x % Range \in 0..(Range - 1)
  BY Ranges, Remainder
<1>2. QED
  BY <1>1, Ranges DEF ToInt

\* Half of a sum of which both parts wrapped, or none.
LEMMA HalfSum ==
    ASSUME NEW d \in Int, NEW e \in Int, -Half < d, d < Half, -Half < e, e < Half, (d < 0) = (e < 0)
    PROVE  ToInt((Unsigned(d) + Unsigned(e)) \div 2) = (d + e) \div 2
<1> DEFINE h == (d + e) \div 2
<1>1. h \in Int /\ 2 * h <= d + e /\ d + e < 2 * h + 2
  BY Division
<1> HIDE DEF h
<1>2. -Half <= h /\ h < Half
  BY <1>1, Ranges
<1>3. CASE d < 0
  <2>1. Unsigned(d) + Unsigned(e) = d + e + 2 * Range
    BY <1>3, Ranges DEF Unsigned
  <2>2. (d + e + 2 * Range) \div 2 = h + Range
    BY Ranges DEF h
  <2>3. QED
    BY <1>1, <1>2, <2>1, <2>2, ToIntOf DEF h
<1>4. CASE ~(d < 0)
  <2>1. Unsigned(d) + Unsigned(e) = d + e
    BY <1>4 DEF Unsigned
  <2>2. QED
    BY <1>1, <1>2, <2>1, ToIntOf DEF h
<1>5. QED
  BY <1>3, <1>4

-----------------------------------------------------------------------------
(* The offset. *)

\* Two times that near are near in seconds.
LEMMA SecondsApart ==
    ASSUME NEW x \in Int, NEW y \in Int, NEW m \in Int, m <= (Half - 1) * Second, -m <= x - y, x - y <= m
    PROVE  /\ (x \div Second) - (y \div Second) \in Int
           /\ (x \div Second) - (y \div Second) < Half
           /\ -Half < (x \div Second) - (y \div Second)
           /\ Second * ((x \div Second) - (y \div Second)) < x - y + Second
           /\ x - y - Second < Second * ((x \div Second) - (y \div Second))
<1> DEFINE a == x \div Second
           b == y \div Second
<1>1. /\ a \in Int /\ Second * a <= x /\ x < Second * a + Second
      /\ b \in Int /\ Second * b <= y /\ y < Second * b + Second
  BY Division, Ranges
<1> HIDE DEF a, b
<1>2. Second * (a - b) = Second * a - Second * b
  BY <1>1, Ranges, Distribute
<1>3. Second * (a - b) < x - y + Second /\ x - y - Second < Second * (a - b)
  <2>1. Second * a \in Int /\ Second * b \in Int
    BY <1>1, Ranges
  <2>2. QED
    BY <1>1, <1>2, <2>1, Ranges
<1>4. Second * (a - b) < Half * Second /\ -(Half * Second) < Second * (a - b)
  <2>1. Half * Second \in Int /\ (Half - 1) * Second = Half * Second - Second /\ Second * (a - b) \in Int
    BY Ranges, <1>1
  <2>2. QED
    BY <1>3, <2>1, Ranges
<1>5. a - b < Half /\ -Half < a - b
  <2>1. a - b \in Int
    BY <1>1
  <2>2. \A k \in Int : k >= Half => Second * k >= Half * Second
    BY Ranges
  <2>3. \A k \in Int : k <= -Half => Second * k <= -(Half * Second)
    BY Ranges
  <2>4. Half * Second \in Int /\ Second * (a - b) \in Int
    BY <2>1, Ranges
  <2>5. QED
    BY <1>4, <2>1, <2>2, <2>3, <2>4, Ranges
<1>6. QED
  BY <1>1, <1>3, <1>5 DEF a, b

\* The offset of a reply whose request left at time at, was received at r, answered at s
\* and read at d, unless the differences straddle; then the clock was nearly right.
LEMMA OffsetOf ==
    ASSUME ClocksAgree, NEW b \in Nat, NEW k \in -MaxSkew..MaxSkew,
           NEW at \in 0..MaxTime, NEW r \in at..MaxTime, NEW s \in r..MaxTime, NEW d \in s..MaxTime,
           NEW p, p.origTm = Seconds(b + at),
           p.rxTm = Seconds(b + r + k), p.txTm = Seconds(b + s + k)
    PROVE  IF Straddles(p, Seconds(b + d)) THEN Distance(k, 0) < (d - at) + Second
           ELSE 2 * Distance(Offset(p, Seconds(b + d)) * Second, k) <= (d - at) + 3 * Second
<1> DEFINE e == ((b + r + k) \div Second) - ((b + at) \div Second)
           f == ((b + s + k) \div Second) - ((b + d) \div Second)
           o == (e + f) \div 2
<1>0. /\ b + r + k \in Int /\ b + at \in Int /\ b + s + k \in Int /\ b + d \in Int
      /\ k \in Int /\ r \in Int /\ at \in Int /\ s \in Int /\ d \in Int /\ b \in Int
      /\ at <= r /\ r <= s /\ s <= d
      /\ MaxSkew + MaxTime \in Int /\ MaxSkew + MaxTime <= (Half - 1) * Second
      /\ -(MaxSkew + MaxTime) <= (b + r + k) - (b + at) /\ (b + r + k) - (b + at) <= MaxSkew + MaxTime
      /\ -(MaxSkew + MaxTime) <= (b + s + k) - (b + d) /\ (b + s + k) - (b + d) <= MaxSkew + MaxTime
  BY NtpAssumption DEF ClocksAgree
<1>1. /\ e \in Int /\ -Half < e /\ e < Half
      /\ Second * e < (b + r + k) - (b + at) + Second /\ (b + r + k) - (b + at) - Second < Second * e
  BY <1>0, SecondsApart
<1>2. /\ f \in Int /\ -Half < f /\ f < Half
      /\ Second * f < (b + s + k) - (b + d) + Second /\ (b + s + k) - (b + d) - Second < Second * f
  BY <1>0, SecondsApart
<1>3. /\ Difference(p.rxTm, p.origTm) = Unsigned(e)
      /\ Difference(p.txTm, Seconds(b + d)) = Unsigned(f)
  BY <1>0, <1>1, <1>2, DifferenceOf
<1> HIDE DEF e, f
<1>4. \A v \in Int : -Half < v /\ v < Half => ToInt(Unsigned(v)) = v
  BY ToIntOf, Ranges DEF Unsigned
<1>5. Straddles(p, Seconds(b + d)) <=> (e < 0) # (f < 0)
  BY <1>1, <1>2, <1>3, <1>4 DEF Straddles
<1> DEFINE se == Second * e
           sf == Second * f
<1>6. se \in Int /\ sf \in Int
  BY <1>1, <1>2, Ranges
<1>7. /\ se < r + k - at + Second /\ r + k - at - Second < se
      /\ sf < s + k - d + Second /\ s + k - d - Second < sf
  <2>1. /\ se < (b + r + k) - (b + at) + Second /\ (b + r + k) - (b + at) - Second < se
        /\ sf < (b + s + k) - (b + d) + Second /\ (b + s + k) - (b + d) - Second < sf
    BY <1>1, <1>2
  <2>2. QED
    BY <1>0, <1>6, <2>1, Ranges
<1>8. \A x, y \in Int : x <= y => Second * x <= Second * y
  BY Ranges
<1>9. CASE (e < 0) # (f < 0)
  <2>1. \A x \in Int : (x < 0 => Second * x <= -Second) /\ (~(x < 0) => Second * x >= 0)
    BY Ranges
  <2>2. (e < 0 => se <= -Second) /\ (~(e < 0) => se >= 0) /\ (f < 0 => sf <= -Second) /\ (~(f < 0) => sf >= 0)
    BY <1>1, <1>2, <2>1
  <2> HIDE DEF se, sf
  <2>3. k < (d - at) + Second /\ -k < (d - at) + Second
    BY <1>0, <1>6, <1>7, <1>9, <2>2, Ranges
  <2>4. Distance(k, 0) < (d - at) + Second
    BY <1>0, <2>3 DEF Distance
  <2>5. QED
    BY <1>5, <1>9, <2>4
<1>10. CASE (e < 0) = (f < 0)
  <2>1. Offset(p, Seconds(b + d)) = o
    BY <1>1, <1>2, <1>3, <1>10, HalfSum DEF Offset
  <2>2. o \in Int /\ 2 * o <= e + f /\ e + f < 2 * o + 2
    BY <1>1, <1>2, Division
  <2> HIDE DEF o
  <2> DEFINE so == Second * o
  <2>3. so \in Int /\ o * Second = so
    BY <2>2, Ranges
  <2>4. 2 * so <= se + sf /\ se + sf <= 2 * so + Second
    <3>1. Second * (2 * o) <= Second * (e + f) /\ Second * (e + f) <= Second * (2 * o + 1)
      BY <1>1, <1>2, <1>8, <2>2
    <3>2. Second * (2 * o) = 2 * so /\ Second * (e + f) = se + sf /\ Second * (2 * o + 1) = 2 * so + Second
      BY <1>1, <1>2, <2>2, Ranges
    <3>3. QED
      BY <3>1, <3>2
  <2> HIDE DEF so, se, sf
  <2>5. 2 * Distance(so, k) <= (d - at) + 3 * Second
    BY <1>0, <1>6, <1>7, <2>3, <2>4, Ranges DEF Distance
  <2>6. QED
    BY <1>5, <1>10, <2>1, <2>3, <2>5
<1>11. QED
  BY <1>9, <1>10

-----------------------------------------------------------------------------
(* Packets under way. *)

\* The stamps of a packet are the times at which it was where, in this order.
Stamped(p) ==
    /\ p.at \in 0..now /\ p.origTm = Seconds(boot + p.at)
    /\ p.stage = "serving" => \E r \in p.at..now : p.rxTm = Seconds(boot + r + skew)
    /\ p.stage = "reply" => \E r \in p.at..now : \E s \in r..now :
           p.rxTm = Seconds(boot + r + skew) /\ p.txTm = Seconds(boot + s + skew)

Packet == [stage : {"request", "serving", "reply"}, at : Nat, origTm : Int, rxTm : Int,
           txTm : Int, stratum : {0, 1}]

NtpInv ==
    /\ TypeOK
    /\ packets \subseteq Packet /\ \A p \in packets : Stamped(p)

LEMMA SecondsType == ASSUME NEW x \in Int PROVE Seconds(x) \in Int
  BY SecondsOf

LEMMA OffsetType ==
    ASSUME NEW p \in Packet, NEW dest \in Int
    PROVE  Offset(p, dest) \in -Half..(Half - 1)
<1>1. Difference(p.rxTm, p.origTm) \in Int /\ Difference(p.txTm, dest) \in Int
  <2>1. \A x, y \in Int : Difference(x, y) \in Int
    BY Ranges, Remainder DEF Difference
  <2>2. QED
    BY <2>1 DEF Packet
<1>2. (Difference(p.rxTm, p.origTm) + Difference(p.txTm, dest)) \div 2 \in Int
  BY <1>1
<1>3. QED
  BY <1>2, ToIntType DEF Offset

LEMMA NtpFirst == Init => NtpInv
  BY NtpAssumption DEF Init, NtpInv, TypeOK

\* Time that passes, and packets that go, leave the stamps as they are.
LEMMA StampsStay ==
    ASSUME NEW p, Stamped(p), NEW n \in Nat, now \in Nat, now <= n, now' = n, skew' = skew, boot' = boot
    PROVE  Stamped(p)'
<1>1. \A a : a..now \subseteq a..n
  BY DEF Stamped
<1>2. QED
  BY <1>1 DEF Stamped

\* As long as the clock stands, a stamp may be set to what it shows.
LEMMA NowStamped ==
    ASSUME NtpInv
    PROVE  /\ now \in Nat /\ now \in now..now /\ boot + now \in Int /\ boot + now + skew \in Int
           /\ time \in Int /\ ServerTime \in Int
           /\ time = Seconds(boot + now) /\ ServerTime = Seconds(boot + now + skew)
<1>1. now \in Nat /\ boot \in Nat /\ skew \in Int
  BY NtpAssumption DEF NtpInv, TypeOK
<1>2. QED
  BY <1>1, SecondsType DEF time, ServerTime

\* A packet that arrives somewhere, or goes.
LEMMA PacketMoves ==
    ASSUME NtpInv, NEW p \in packets, NEW q \in Packet, Stamped(q),
           packets' = packets \ {p} \/ packets' = (packets \ {p}) \cup {q},
           UNCHANGED <<now, skew, boot>>, TypeOK'
    PROVE  NtpInv'
<1>1. packets' \subseteq Packet
  BY DEF NtpInv
<1>2. \A x : Stamped(x)' <=> Stamped(x)
  BY DEF Stamped
<1>3. \A x \in packets' : Stamped(x)
  BY DEF NtpInv
<1>4. QED
  BY <1>1, <1>2, <1>3 DEF NtpInv

LEMMA NtpStep == NtpInv /\ [Next]_vars => NtpInv'
<1> SUFFICES ASSUME NtpInv, [Next]_vars PROVE NtpInv'
  OBVIOUS
<1> USE NowStamped
<1>1. CASE Send
  <2>1. Request \in Packet /\ Stamped(Request)
    BY DEF Request, Packet, Stamped
  <2>2. TypeOK'
    <3>1. Request.at \in 0..now
      BY DEF Request
    <3>2. QED
      BY <1>1, <3>1, NtpAssumption DEF Send, NtpInv, TypeOK
  <2>3. \A x : Stamped(x)' <=> Stamped(x)
    BY <1>1 DEF Send, Stamped
  <2>4. QED
    BY <1>1, <2>1, <2>2, <2>3 DEF Send, NtpInv
<1>2. ASSUME NEW p \in packets, Receive(p) PROVE NtpInv'
  <2>1. gOffset' \in -Half..(Half - 1)
    BY <1>2, OffsetType DEF Receive, NtpInv, TypeOK
  <2>2. last' \in [sent : 0..now, read : 0..now, straddles : BOOLEAN]
    <3>1. p.at \in 0..now /\ now \in 0..now /\ Straddles(p, time) \in BOOLEAN
      BY DEF NtpInv, Stamped, Straddles
    <3>2. last' = last \/ last' = [sent |-> p.at, read |-> now, straddles |-> Straddles(p, time)]
      BY <1>2 DEF Receive
    <3>3. QED
      BY <1>2, <3>1, <3>2 DEF Receive, NtpInv, TypeOK
  <2>3. TypeOK'
    BY <1>2, <2>1, <2>2 DEF Receive, NtpInv, TypeOK
  <2>4. QED
    BY <1>2, <2>3, PacketMoves DEF Receive, NtpInv
<1>3. CASE TimesOut \/ NextRound \/ UNCHANGED vars
  <2>1. /\ UNCHANGED <<now, skew, boot, sentAt, packets, gOffset, last>>
        /\ pc' \in {"send", "wait", "done"} /\ loop_cnt' \in 0..NTP_RETRY
    BY <1>3, NtpAssumption DEF TimesOut, NextRound, vars, NtpInv, TypeOK
  <2>2. QED
    BY <2>1 DEF NtpInv, TypeOK, Stamped
<1>4. ASSUME NEW p \in packets, ServerReceives(p) PROVE NtpInv'
  <2> DEFINE q == [p EXCEPT !.stage = "serving", !.rxTm = ServerTime]
  <2>1. p \in Packet /\ Stamped(p) /\ p.at \in Nat /\ p.at <= now
    BY DEF NtpInv, Packet, Stamped
  <2>2. q \in Packet /\ q.at = p.at /\ q.origTm = p.origTm /\ q.stage = "serving" /\ q.rxTm = ServerTime
    BY <2>1 DEF Packet
  <2>3. Stamped(q)
    <3>1. now \in p.at..now
      BY <2>1
    <3>2. QED
      BY <2>1, <2>2, <3>1 DEF Stamped
  <2>4. packets' = (packets \ {p}) \cup {q} /\ UNCHANGED <<now, skew, boot, pc, loop_cnt, sentAt, gOffset, last>>
    BY <1>4 DEF ServerReceives
  <2>5. TypeOK'
    BY <2>1, <2>2, <2>4 DEF NtpInv, TypeOK
  <2> HIDE DEF q
  <2>6. QED
    BY <2>2, <2>3, <2>4, <2>5, PacketMoves
<1>5. ASSUME NEW p \in packets, NEW c \in {0, 1}, ServerReplies(p, c) PROVE NtpInv'
  <2> DEFINE q == [p EXCEPT !.stage = "reply", !.txTm = ServerTime, !.stratum = c]
  <2>1. p \in Packet /\ Stamped(p) /\ p.at \in Nat /\ p.at <= now /\ p.stage = "serving"
    BY <1>5 DEF NtpInv, Packet, Stamped, ServerReplies
  <2>2. /\ q \in Packet /\ q.at = p.at /\ q.origTm = p.origTm /\ q.stage = "reply" /\ q.rxTm = p.rxTm
        /\ q.txTm = ServerTime
    BY <2>1 DEF Packet
  <2>3. Stamped(q)
    <3>1. PICK r \in p.at..now : p.rxTm = Seconds(boot + r + skew)
      BY <2>1 DEF Stamped
    <3>2. now \in r..now
      BY <2>1
    <3>3. QED
      BY <2>1, <2>2, <3>1, <3>2 DEF Stamped
  <2>4. packets' = (packets \ {p}) \cup {q} /\ UNCHANGED <<now, skew, boot, pc, loop_cnt, sentAt, gOffset, last>>
    BY <1>5 DEF ServerReplies
  <2>5. TypeOK'
    BY <2>1, <2>2, <2>4 DEF NtpInv, TypeOK
  <2> HIDE DEF q
  <2>6. QED
    BY <2>2, <2>3, <2>4, <2>5, PacketMoves
<1>6. ASSUME NEW p \in packets, Lost(p) PROVE NtpInv'
  <2>1. TypeOK'
    BY <1>6 DEF Lost, NtpInv, TypeOK
  <2>2. QED
    BY <1>6, <2>1, PacketMoves DEF Lost, NtpInv
<1>7. CASE Tick
  <2>1. /\ now' = now + 1 /\ now' \in 0..MaxTime /\ 0..now \subseteq 0..now'
        /\ UNCHANGED <<skew, boot, pc, loop_cnt, sentAt, packets, gOffset, last>>
    BY <1>7, NtpAssumption DEF Tick
  <2>2. TypeOK'
    BY <2>1 DEF NtpInv, TypeOK
  <2>3. \A p \in packets : Stamped(p)'
    BY <2>1, StampsStay DEF NtpInv
  <2>4. QED
    BY <2>1, <2>2, <2>3 DEF NtpInv
<1>8. QED
  BY <1>1, <1>2, <1>3, <1>4, <1>5, <1>6, <1>7 DEF Next, setTime, Network

LEMMA NtpAlways == Spec => []NtpInv
  BY NtpFirst, NtpStep, PTL DEF Spec

\* The variables keep their types; in particular the offset is an int, whatever the
\* server writes and however late it is.
THEOREM TypeCorrect == Spec => []TypeOK
<1>1. NtpInv => TypeOK
  BY DEF NtpInv
<1>2. QED
  BY <1>1, NtpAlways, PTL

LEMMA OffsetStep ==
    ASSUME ClocksAgree, NtpInv, OffsetRight, [Next]_vars
    PROVE  OffsetRight'
<1>1. ASSUME NEW p \in packets, Receive(p) PROVE OffsetRight'
  <2>1. CASE p.stratum = 0
    BY <1>1, <2>1 DEF Receive, OffsetRight
  <2>2. CASE p.stratum # 0
    <3>1. /\ gOffset' = Offset(p, time) /\ skew' = skew
          /\ last' = [sent |-> p.at, read |-> now, straddles |-> Straddles(p, time)]
      BY <1>1, <2>2 DEF Receive
    <3>2. PICK r \in p.at..now : \E s \in r..now :
             p.rxTm = Seconds(boot + r + skew) /\ p.txTm = Seconds(boot + s + skew)
      BY <1>1 DEF NtpInv, Stamped, Receive
    <3>3. PICK s \in r..now : p.rxTm = Seconds(boot + r + skew) /\ p.txTm = Seconds(boot + s + skew)
      BY <3>2
    <3>4. /\ boot \in Nat /\ skew \in -MaxSkew..MaxSkew /\ p.at \in 0..MaxTime /\ r \in p.at..MaxTime
          /\ s \in r..MaxTime /\ now \in s..MaxTime
          /\ p.origTm = Seconds(boot + p.at)
      BY <3>2, <3>3, NtpAssumption DEF NtpInv, TypeOK, Stamped
    <3>5. IF Straddles(p, time) THEN Distance(skew, 0) < (now - p.at) + Second
          ELSE 2 * Distance(Offset(p, time) * Second, skew) <= (now - p.at) + 3 * Second
      BY <3>3, <3>4, OffsetOf DEF time
    <3>6. QED
      BY <3>1, <3>5 DEF OffsetRight, Accurate, Elapsed
  <2>3. QED
    BY <2>1, <2>2
<1>2. CASE Send \/ TimesOut \/ NextRound
  BY <1>2 DEF Send, TimesOut, NextRound, OffsetRight
<1>3. CASE Network \/ Tick \/ UNCHANGED vars
  BY <1>3 DEF Network, ServerReceives, ServerReplies, Lost, Tick, vars, OffsetRight, Accurate, Elapsed
<1>4. QED
  BY <1>1, <1>2, <1>3 DEF Next, setTime

\* For every range of the time stamps, every resolution of the clocks, every skew and
\* every delay the clocks agree for: the offset is as good as NTP allows, unless the
\* two differences have different signs, as they do only if the clock was right already.  Unsigned differences, their sum, its half and the
\* conversion to int (NTPClient.c:167-168) bring back what was meant.
THEOREM OffsetIsRight ==
    ASSUME ClocksAgree
    PROVE  Spec => []OffsetRight
<1>1. Init => OffsetRight
  BY DEF Init, OffsetRight
<1>2. NtpInv /\ OffsetRight /\ [Next]_vars => OffsetRight'
  BY OffsetStep
<1>3. QED
  BY <1>1, <1>2, NtpAlways, PTL DEF Spec
=============================================================================
