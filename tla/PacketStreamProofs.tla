-------------------------- MODULE PacketStreamProofs --------------------------
(***************************************************************************)
(* Theorems about the writing side of PacketStream, for any layers, packet *)
(* lengths and bounds.                                                     *)
(***************************************************************************)
EXTENDS PacketStream, TLAPS

-----------------------------------------------------------------------------
Increasing(s) == \A j, k \in 1..Len(s) : j < k => s[j] < s[k]
Holds(s, w) == \E k \in 1..Len(s) : s[k] = w

\* Adding a number above all others.
LEMMA AppendIncreasing ==
    ASSUME NEW n \in Nat, NEW s \in Seq(1..n), Increasing(s), NEW e \in 1..n,
           \A k \in 1..Len(s) : s[k] < e
    PROVE  /\ Append(s, e) \in Seq(1..n) /\ Increasing(Append(s, e)) /\ Holds(Append(s, e), e)
           /\ \A k \in 1..Len(Append(s, e)) : Append(s, e)[k] <= e
           /\ \A w : Holds(s, w) => Holds(Append(s, e), w)
<1> DEFINE a == Append(s, e)
<1>1. /\ a \in Seq(1..n) /\ Len(a) = Len(s) + 1 /\ a[Len(s) + 1] = e /\ Len(s) \in Nat
      /\ \A k \in 1..Len(s) : a[k] = s[k] /\ s[k] \in 1..n
  OBVIOUS
<1> HIDE DEF a
<1>2. \A k \in 1..Len(a) : k \in 1..Len(s) \/ k = Len(s) + 1
  BY <1>1
<1>3. ASSUME NEW j \in 1..Len(a), NEW k \in 1..Len(a), j < k
      PROVE  a[j] < a[k]
  <2>1. j \in 1..Len(s)
    BY <1>1, <1>3
  <2>2. CASE k \in 1..Len(s)
    BY <1>1, <1>3, <2>1, <2>2 DEF Increasing
  <2>3. CASE k = Len(s) + 1
    BY <1>1, <2>1, <2>3
  <2>4. QED
    BY <1>2, <2>2, <2>3
<1>4. ASSUME NEW k \in 1..Len(a)
      PROVE  a[k] <= e
  <2>1. CASE k \in 1..Len(s)
    <3>1. a[k] = s[k] /\ s[k] \in 1..n /\ s[k] < e
      BY <1>1, <2>1
    <3>2. QED
      BY <3>1
  <2>2. CASE k = Len(s) + 1
    <3>1. a[k] = e
      BY <1>1, <2>2
    <3>2. QED
      BY <3>1
  <2>3. QED
    BY <1>2, <2>1, <2>2
<1>5. Holds(a, e)
  BY <1>1 DEF Holds
<1>6. \A w : Holds(s, w) => Holds(a, w)
  <2>1. \A k \in 1..Len(s) : k \in 1..Len(a)
    BY <1>1
  <2>2. QED
    BY <1>1, <2>1 DEF Holds
<1>7. QED
  BY <1>1, <1>3, <1>4, <1>5, <1>6 DEF Increasing, a

-----------------------------------------------------------------------------
\* What leaves is older than what waits in mbed TLS, which waits only after a stall or on
\* a connection that is gone.
Order ==
    /\ writes \in Nat /\ outLeft \in 0..writes
    /\ written \in Seq(1..writes) /\ Increasing(written)
    /\ outLeft # 0 => layer = "tls" /\ \A k \in 1..Len(written) : written[k] < outLeft
Reports ==
    /\ outLeft # 0 => "stalled" \in mishaps \/ Closed
    /\ "stalled" \notin mishaps => \A w \in reported : Holds(written, w)

\* The steps that write nothing and forget nothing.
LEMMA OthersKeep ==
    ASSUME Order, Reports, UNCHANGED <<layer, writeVars>>, mishaps \subseteq mishaps',
           "stalled" \in mishaps' => "stalled" \in mishaps
    PROVE  Order' /\ Reports'
<1>1. UNCHANGED <<layer, writes, outLeft, written, reported>>
  BY DEF writeVars
<1>2. Order'
  BY <1>1 DEF Order, Increasing
<1>3. Reports'
  BY <1>1 DEF Reports, Closed, Holds
<1>4. QED
  BY <1>2, <1>3

\* Every branch of sendPacket.
LEMMA SendKeeps ==
    ASSUME Order, Reports, sendPacket
    PROVE  Order' /\ Reports'
<1>1. /\ writes' = writes + 1 /\ writes \in Nat /\ writes' \in Nat /\ writes' \in 1..writes'
      /\ outLeft \in 0..writes /\ Increasing(written) /\ written \in Seq(1..writes')
      /\ \A k \in 1..Len(written) : written[k] < writes'
  <2>1. writes' = writes + 1 /\ writes \in Nat
    BY DEF sendPacket, SendPlain, SendRecord, SendWaiting, Writing, Order
  <2>2. \A k \in 1..Len(written) : written[k] \in 1..writes
    BY DEF Order
  <2>3. written \in Seq(1..writes')
    <3>1. 1..writes \subseteq 1..writes'
      BY <2>1
    <3>2. ASSUME NEW S, NEW T, S \subseteq T PROVE Seq(S) \subseteq Seq(T)
      BY <3>2
    <3>3. QED
      BY <3>1, <3>2 DEF Order
  <2>4. QED
    BY <2>1, <2>2, <2>3 DEF Order
<1>0. layer' = layer
  BY DEF sendPacket, SendPlain, SendRecord, SendWaiting, Writing
<1>2. /\ Order' <=> /\ outLeft' \in 0..writes' /\ written' \in Seq(1..writes') /\ Increasing(written')
                    /\ outLeft' # 0 => layer = "tls" /\ \A k \in 1..Len(written') : written'[k] < outLeft'
      /\ Reports' <=> /\ outLeft' # 0 => "stalled" \in mishaps' \/ "closed" \in mishaps'
                      /\ "stalled" \notin mishaps' => \A w \in reported' : Holds(written', w)
  BY <1>0, <1>1 DEF Order, Reports, Increasing, Holds, Closed
\* the packet of the call is written
<1>3. ASSUME outLeft = 0, outLeft' = 0, mishaps' = mishaps,
             written' = Append(written, writes'), reported' = reported \cup {writes'}
      PROVE  Order' /\ Reports'
  <2>1. /\ written' \in Seq(1..writes') /\ Increasing(written') /\ Holds(written', writes')
        /\ \A w : Holds(written, w) => Holds(written', w)
    BY <1>1, <1>3, AppendIncreasing
  <2>2. QED
    BY <1>1, <1>2, <1>3, <2>1 DEF Reports
\* nothing is written or reported
<1>4. ASSUME outLeft' = outLeft, mishaps' = mishaps, written' = written, reported' = reported
      PROVE  Order' /\ Reports'
  BY <1>1, <1>2, <1>4 DEF Order, Reports, Closed
\* the packet of the call waits
<1>5. ASSUME layer = "tls", outLeft' = writes', written' = written, mishaps \subseteq mishaps',
             \/ "stalled" \in mishaps'
             \/ "closed" \in mishaps' /\ reported' = reported
      PROVE  Order' /\ Reports'
  BY <1>1, <1>2, <1>5 DEF Reports
\* the one that waited is written, or waits on
<1>6. ASSUME outLeft # 0, "stalled" \in mishaps, mishaps' = mishaps,
             \/ written' = Append(written, outLeft) /\ outLeft' = 0
             \/ written' = written /\ outLeft' = outLeft
      PROVE  Order' /\ Reports'
  <2>1. CASE written' = Append(written, outLeft) /\ outLeft' = 0
    <3>1. outLeft \in 1..writes' /\ \A k \in 1..Len(written) : written[k] < outLeft
      BY <1>1, <1>6 DEF Order
    <3>2. written' \in Seq(1..writes') /\ Increasing(written')
      BY <1>1, <2>1, <3>1, AppendIncreasing
    <3>3. QED
      BY <1>1, <1>2, <1>6, <2>1, <3>2
  <2>2. CASE written' = written /\ outLeft' = outLeft
    BY <1>1, <1>2, <1>6, <2>2 DEF Order
  <2>3. QED
    BY <1>6, <2>1, <2>2
<1>7. CASE SendPlain
  <2>1. outLeft' = outLeft /\ mishaps' = mishaps
    BY <1>7 DEF SendPlain
  <2>2. CASE NotSent /\ UNCHANGED written
    BY <1>4, <2>1, <2>2 DEF NotSent
  <2>3. CASE ~Closed /\ written' = Append(written, writes') /\ reported' = reported \cup {writes'}
    <3>1. CASE outLeft = 0
      BY <1>3, <2>1, <2>3, <3>1
    <3>2. CASE outLeft # 0
      BY <1>7, <3>2 DEF SendPlain, Order
    <3>3. QED
      BY <3>1, <3>2
  <2>4. QED
    BY <1>7, <2>2, <2>3 DEF SendPlain
<1>8. CASE SendRecord
  BY <1>3, <1>5, <1>8 DEF SendRecord, Closed
<1>9. CASE SendWaiting
  BY <1>4, <1>6, <1>9 DEF SendWaiting, Flush, Closed, Reports
<1>10. QED
  BY <1>7, <1>8, <1>9 DEF sendPacket

LEMMA WritingFirst == Init => Order /\ Reports
  BY DEF Init, Order, Reports, Increasing

LEMMA WritingStays == Order /\ Reports /\ [Next]_vars => Order' /\ Reports'
<1> SUFFICES ASSUME Order, Reports, [Next]_vars PROVE Order' /\ Reports'
  OBVIOUS
<1>1. CASE sendPacket
  BY <1>1, SendKeeps
<1>2. CASE Reconnect
  <2>1. /\ writes' = writes /\ layer' = layer /\ outLeft' = 0 /\ written' = <<>> /\ reported' = {}
        /\ writes \in Nat
    BY <1>2 DEF Reconnect, Order
  <2>2. Order'
    BY <2>1 DEF Order, Increasing
  <2>3. Reports'
    BY <2>1 DEF Reports
  <2>4. QED
    BY <2>2, <2>3
<1>3. CASE Network \/ readPacket \/ UNCHANGED vars
  <2>1. UNCHANGED <<layer, writeVars>>
    BY <1>3 DEF Network, ChunkArrives, ConnectionLost, BrokerSends, readPacket, ReadHeader,
                DecodeByte, BadLength, ReadBody, CycleEnds, vars
  <2>2. mishaps \subseteq mishaps' /\ ("stalled" \in mishaps' => "stalled" \in mishaps)
    BY <1>3 DEF Network, ChunkArrives, ConnectionLost, BrokerSends, readPacket, ReadHeader,
                DecodeByte, BadLength, ReadBody, CycleEnds, vars, mqttread
  <2>3. QED
    BY <2>1, <2>2, OthersKeep
<1>4. QED
  BY <1>1, <1>2, <1>3 DEF Next

LEMMA WritingAlways == Spec => [](Order /\ Reports)
  BY WritingFirst, WritingStays, PTL DEF Spec

\* Packets leave in the order of the calls of sendPacket and none twice, also when mbed
\* TLS sends a record that waited with a later call.
THEOREM PacketsInOrder == Spec => []WrittenInOrder
<1>1. Order => WrittenInOrder
  <2>1. Order => DOMAIN written = 1..Len(written)
    BY DEF Order
  <2>2. QED
    BY <2>1 DEF Order, Increasing, WrittenInOrder
<1>2. QED
  BY <1>1, WritingAlways, PTL

\* A packet is reported as sent and not sent only after mbed TLS was stalled on this
\* connection; the other layers never do so.
THEOREM LossesExplained == Spec => []LossNeedsStall
<1>1. Order /\ Reports => LossNeedsStall
  <2>1. Order => DOMAIN written = 1..Len(written)
    BY DEF Order
  <2>2. QED
    BY <2>1 DEF Reports, Holds, LossNeedsStall
<1>2. QED
  BY <1>1, WritingAlways, PTL
=============================================================================
