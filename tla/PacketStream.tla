---------------------------- MODULE PacketStream ----------------------------
(***************************************************************************)
(* Below the packets of MqttSync: how readPacket and sendPacket of the     *)
(* embedded MQTT client cut a stream of bytes into packets, over the three *)
(* network layers of the SDK:                                              *)
(*   "w5500"  FreeRTOS_read and _write over the driver of the chip,        *)
(*   "tls"    EthernetTLS_read and _write over mbed TLS over these,        *)
(*   "netx"   s7g2_read and _write of the ThreadX port.                    *)
(* The broker sends packets; the stream reaches the client in chunks (TCP  *)
(* segments, TLS records, NetX packets) that need not be packets.  Timers  *)
(* may expire anywhere, and the agent may give up and connect again.       *)
(*                                                                         *)
(* A byte is [of, at]: byte number at of packet number of.  Byte 1 is the  *)
(* header, then come the bytes of the remaining length, then the body.     *)
(***************************************************************************)
EXTENDS Integers, Sequences, FiniteSets

CONSTANTS Layers,          \* network layers to look at
          Base,            \* of a digit of the remaining length (128)
          LengthBytes,     \* MAX_NO_OF_REMAINING_LENGTH_BYTES (4)
          Lengths,         \* remaining lengths of the broker's packets
          MaxPackets,      \* bound: packets the broker sends
          MaxWrites,       \* bound: calls of sendPacket
          MaxConnections   \* bound

\* Powers of Base.
Power[k \in 0..LengthBytes] == IF k = 0 THEN 1 ELSE Base * Power[k - 1]

ASSUME LayersAssumption == Layers \subseteq {"w5500", "tls", "netx"}
ASSUME LengthAssumption ==
    /\ Base \in Nat \ {0, 1} /\ LengthBytes \in Nat \ {0}
    /\ Lengths \subseteq 0..(Power[LengthBytes] - 1)
ASSUME StreamBoundsAssumption ==
    MaxPackets \in Nat /\ MaxWrites \in Nat /\ MaxConnections \in Nat

VARIABLES layer,
          conn,       \* how often the client has connected
          sent,       \* the broker's packets: [conn, length]
          coming,     \* bytes under way, each with ends: does a chunk end here?
          received,   \* bytes the client's network layer has
          prepend,    \* the first chunk has been read in part (prepend_offset # 0)
          pc,         \* where readPacket is: "header", "length", "body"
          readbuf,    \* the bytes it has taken for this packet
          rem_len,    \* its remaining length as decoded so far
          accepted,   \* what it has returned on this connection
          writes,     \* calls of sendPacket so far, which number their packets
          outLeft,    \* the packet in a TLS record not yet sent (out_left # 0), or 0
          written,    \* packets handed to TCP on this connection
          reported,   \* packets for which sendPacket returned SUCCESS on it
          mishaps     \* what has happened on it: see Mishaps

readVars == <<coming, received, prepend, pc, readbuf, rem_len, accepted>>
writeVars == <<writes, outLeft, written, reported>>
vars == <<layer, conn, sent, readVars, writeVars, mishaps>>

\* late: a timer expired, or the connection was lost, within a packet.  short, cut: a read
\* of the remaining length, of the body got less than it asked for.  split: a chunk ended
\* within a packet.  stale: bytes of an older connection were kept.  stalled: mbed TLS was
\* told 0 by SSLSendCB.  closed: the TCP connection is gone.
Mishaps == {"late", "short", "cut", "split", "stale", "stalled", "closed"}
Closed == "closed" \in mishaps

Init ==
    /\ layer \in Layers /\ conn = 1 /\ sent = <<>>
    /\ coming = <<>> /\ received = <<>> /\ prepend = FALSE
    /\ pc = "header" /\ readbuf = <<>> /\ rem_len = 0 /\ accepted = <<>>
    /\ writes = 0 /\ outLeft = 0 /\ written = <<>> /\ reported = {}
    /\ mishaps = {}

-----------------------------------------------------------------------------
\* The broker (external), and the network.

LengthSize(n) == CHOOSE k \in 1..LengthBytes : n < Power[k] /\ (k = 1 \/ n >= Power[k - 1])
Size(i) == 1 + LengthSize(sent[i].length) + sent[i].length

\* A packet is sent in one chunk, or in two; it may join the last chunk under way.
BrokerSends(length, cutAt, joins) ==
    /\ Len(sent) < MaxPackets /\ ~Closed
    /\ sent' = Append(sent, [conn |-> conn, length |-> length])
    /\ LET i == Len(sent')
           size == 1 + LengthSize(length) + length
           before == IF joins THEN [coming EXCEPT ![Len(coming)].ends = FALSE] ELSE coming
       IN /\ cutAt \in 1..size /\ (joins => coming # <<>>)
          /\ coming' = before \o [k \in 1..size |-> [of |-> i, at |-> k,
                                                     ends |-> k \in {cutAt, size}]]
          /\ mishaps' = IF cutAt = size THEN mishaps ELSE mishaps \cup {"split"}
    /\ UNCHANGED <<layer, conn, received, prepend, pc, readbuf, rem_len, accepted, writeVars>>

\* Length of the first chunk of a stream.
FirstChunk(s) == CHOOSE k \in DOMAIN s : s[k].ends /\ \A j \in 1..(k - 1) : ~s[j].ends

ChunkArrives ==
    /\ coming # <<>>
    /\ received' = received \o SubSeq(coming, 1, FirstChunk(coming))
    /\ coming' = SubSeq(coming, FirstChunk(coming) + 1, Len(coming))
    /\ UNCHANGED <<layer, conn, sent, prepend, pc, readbuf, rem_len, accepted, writeVars, mishaps>>

\* The connection is lost.  What a record or a NetX packet read in part still holds is left.
ConnectionLost ==
    /\ ~Closed
    /\ mishaps' = mishaps \cup {"closed"}
    /\ coming' = <<>>
    /\ received' = IF layer # "w5500" /\ prepend
                   THEN SubSeq(received, 1, FirstChunk(received)) ELSE <<>>
    /\ UNCHANGED <<layer, conn, sent, prepend, pc, readbuf, rem_len, accepted, writeVars>>

-----------------------------------------------------------------------------
\* mqttread: one call, asked for len bytes.

\* FreeRTOS_read without its loop: what recv has is enough
Reach_xNoLoop == IF received = <<>> THEN 0 ELSE FirstChunk(received)

\* How far a read can get: mbed TLS stops at the end of a record, the loops of the other
\* two go on from chunk to chunk until their time is over.
Reach == IF layer = "tls" /\ received # <<>> THEN FirstChunk(received) ELSE Len(received)

Got(len) == IF len <= Reach THEN len ELSE Reach

\* With the bytes there the loops need no timer to end, and mbed TLS does with any.
InTime(len) == Len(received) >= len \/ (layer = "tls" /\ received # <<>>)

mqttread(len, mishap) ==
    /\ readbuf' = readbuf \o [k \in 1..Got(len) |->
                                 [of |-> received[k].of, at |-> received[k].at]]
    /\ received' = SubSeq(received, Got(len) + 1, Len(received))
    /\ prepend' = IF Got(len) = 0 THEN prepend ELSE ~received[Got(len)].ends
    /\ mishaps' = mishaps \cup (IF Got(len) < len THEN {mishap} ELSE {})
                          \cup (IF InTime(len) THEN {} ELSE {"late"})

\* A byte as a digit of the remaining length: what the broker wrote if it is one,
\* anything if it is another byte.
IsLength(b) == b.at \in 2..(1 + LengthSize(sent[b.of].length))
Digit(b) ==
    IF IsLength(b)
    THEN {[value |-> (sent[b.of].length \div Power[b.at - 2]) % Base,
           more |-> b.at < 1 + LengthSize(sent[b.of].length)]}
    ELSE [value : 0..(Base - 1), more : BOOLEAN]

\* readPacket.  Without a first byte it fails at once, and nothing has changed.
ReadHeader ==
    /\ pc = "header" /\ received # <<>>
    /\ mqttread(1, "short")
    /\ rem_len' = 0
    /\ pc' = "length"
    /\ UNCHANGED <<layer, conn, sent, coming, accepted, writeVars>>

\* reads the digits in the order of an ordinary number
Weighted_xBigEndian(value, digit, count) == value * Base + digit

Weighted(value, digit, count) == value + digit * Power[count]

\* one byte too many
LengthByteLeft_xOneMore == Len(readbuf) <= LengthBytes + 1

LengthByteLeft == Len(readbuf) <= LengthBytes

\* decodePacket: a byte more, none in time, or one too many.  Its result, by
\* which it tells these apart, is not looked at.
DecodeByte ==
    /\ pc = "length" /\ LengthByteLeft
    /\ mqttread(1, "short")
    /\ IF received = <<>> THEN pc' = "body" /\ UNCHANGED rem_len
       ELSE \E d \in Digit(received[1]) :
               /\ rem_len' = Weighted(rem_len, d.value, Len(readbuf) - 1)
               /\ pc' = IF d.more THEN "length" ELSE "body"
    /\ UNCHANGED <<layer, conn, sent, coming, accepted, writeVars>>

BadLength ==
    /\ pc = "length" /\ ~LengthByteLeft
    /\ pc' = "body"
    /\ UNCHANGED <<layer, conn, sent, coming, received, prepend, readbuf, rem_len, accepted,
                   writeVars, mishaps>>

\* takes what came for the packet
BodyComplete_xAnyLength == TRUE

BodyComplete == Got(rem_len) = rem_len

\* The rest.  When it does not come in time, what has been read is dropped and the
\* next readPacket begins in the middle.  The code never compares rem_len with
\* readbuf_size; here there is room for any length.
ReadBody ==
    /\ pc = "body"
    /\ mqttread(rem_len, "cut")
    /\ accepted' = IF BodyComplete THEN Append(accepted, readbuf') ELSE accepted
    /\ pc' = "dispatch"
    /\ UNCHANGED <<layer, conn, sent, coming, rem_len, writeVars>>

\* cycle has dealt with the packet; the next one is read over it.
CycleEnds ==
    /\ pc = "dispatch"
    /\ pc' = "header" /\ readbuf' = <<>> /\ rem_len' = 0
    /\ UNCHANGED <<layer, conn, sent, coming, received, prepend, accepted, writeVars, mishaps>>

readPacket == ReadHeader \/ DecodeByte \/ BadLength \/ ReadBody \/ CycleEnds

-----------------------------------------------------------------------------
\* sendPacket: packet number writes + 1, small enough for one write of any layer.

Writing ==
    /\ pc \in {"header", "dispatch"} /\ writes < MaxWrites
    /\ writes' = writes + 1
    /\ UNCHANGED <<layer, conn, sent, readVars>>

\* takes every result that is no error for success
NotSent_xSuccess == reported' = reported \cup {writes'}

NotSent == UNCHANGED reported

\* FreeRTOS_write and s7g2_write: all or nothing.  Nothing is a lost connection, or a chip
\* busy until the timer of sendPacket expires, or no buffer.
SendPlain ==
    /\ Writing /\ layer # "tls"
    /\ \/ /\ ~Closed
          /\ written' = Append(written, writes') /\ reported' = reported \cup {writes'}
       \/ NotSent /\ UNCHANGED written
    /\ UNCHANGED <<outLeft, mishaps>>

\* mbed TLS with no record waiting: the packet becomes a record.  SSLSendCB returns
\* the 0 of FreeRTOS_write when the chip stays busy, and mbed TLS takes it for success.
SendRecord ==
    /\ Writing /\ layer = "tls" /\ outLeft = 0
    /\ \/ /\ ~Closed
          /\ written' = Append(written, writes') /\ reported' = reported \cup {writes'}
          /\ UNCHANGED <<outLeft, mishaps>>
       \/ /\ ~Closed
          /\ outLeft' = writes' /\ reported' = reported \cup {writes'}
          /\ mishaps' = mishaps \cup {"stalled"}
          /\ UNCHANGED written
       \/ Closed /\ outLeft' = writes' /\ UNCHANGED <<written, reported, mishaps>>

\* sends the waiting record and, if it is gone, the packet of the call as well
Flush_xBoth ==
    /\ written' = Append(Append(written, writes'), outLeft)
    /\ outLeft' = 0

\* With a record waiting, a write sends that one, and the packet of the call is lost.
Flush ==
    /\ written' = Append(written, outLeft)
    /\ outLeft' = 0

SendWaiting ==
    /\ Writing /\ layer = "tls" /\ outLeft # 0
    /\ \/ ~Closed /\ Flush /\ reported' = reported \cup {writes'}
       \/ ~Closed /\ UNCHANGED <<written, outLeft>> /\ reported' = reported \cup {writes'}
       \/ Closed /\ UNCHANGED <<written, outLeft, reported>>
    /\ UNCHANGED mishaps

sendPacket == SendPlain \/ SendRecord \/ SendWaiting

-----------------------------------------------------------------------------
\* What a layer keeps of the old connection: s7g2_disconnect deletes the socket but not
\* read_packet_ptr and prepend_offset.
KeptBytes ==
    IF layer = "netx" /\ prepend THEN SubSeq(received, 1, FirstChunk(received)) ELSE <<>>

\* The agent destroys the client and makes a new one.
Reconnect ==
    /\ pc = "header" /\ conn < MaxConnections
    /\ conn' = conn + 1
    /\ coming' = <<>> /\ received' = KeptBytes /\ prepend' = (KeptBytes # <<>>)
    /\ accepted' = <<>>
    /\ outLeft' = 0 /\ written' = <<>> /\ reported' = {}
    /\ mishaps' = IF KeptBytes = <<>> THEN {} ELSE {"stale"}
    /\ UNCHANGED <<layer, sent, pc, readbuf, rem_len, writes>>

Network ==
    \/ ChunkArrives
    \/ ConnectionLost
    \/ \E length \in Lengths, joins \in BOOLEAN :
          \E cutAt \in 1..(1 + LengthBytes + length) : BrokerSends(length, cutAt, joins)

Next == Network \/ readPacket \/ sendPacket \/ Reconnect

Spec == Init /\ [][Next]_vars

-----------------------------------------------------------------------------
Bytes == [of : 1..MaxPackets, at : Nat \ {0}]
Stream == Seq([of : 1..MaxPackets, at : Nat \ {0}, ends : BOOLEAN])

\* The shape of the state.
TypeOK ==
    /\ layer \in Layers /\ conn \in Nat
    /\ sent \in Seq([conn : Nat, length : Lengths]) /\ Len(sent) <= MaxPackets
    /\ coming \in Stream /\ received \in Stream /\ prepend \in BOOLEAN
    /\ pc \in {"header", "length", "body", "dispatch"}
    /\ readbuf \in Seq(Bytes) /\ rem_len \in 0..(Power[LengthBytes] - 1)
    /\ accepted \in Seq(Seq(Bytes))
    /\ writes \in 0..MaxWrites /\ outLeft \in 0..writes
    /\ written \in Seq(1..writes) /\ reported \subseteq 1..writes
    /\ mishaps \subseteq Mishaps

\* The bytes of packet i, and the packets of earlier connections.
Whole(i) == [k \in 1..Size(i) |-> [of |-> i, at |-> k]]
Earlier == {i \in DOMAIN sent : sent[i].conn < conn}

\* As long as no read has been cut short, what readPacket returns is what the broker
\* sent, packet by packet from the first of the connection, however the stream
\* is cut into chunks and whatever timers expire between packets.
FramingKept ==
    mishaps \cap {"short", "cut", "stale"} = {} =>
        \A k \in DOMAIN accepted : /\ Cardinality(Earlier) + k <= Len(sent)
                                  /\ accepted[k] = Whole(Cardinality(Earlier) + k)

\* A read within a packet is cut short only by a timer, or, for mbed TLS, which returns
\* what the record has, by a record that ends within the packet.
CutsExplained ==
    mishaps \cap {"short", "cut"} # {} =>
        "late" \in mishaps \/ (layer = "tls" /\ "split" \in mishaps)

\* Also when the framing was lost and is found again: what is read from the header of a
\* packet on is returned whole or not at all, unless decodePacket, whose result nobody
\* looks at, once got no byte in time.
AcceptedWhole ==
    mishaps \cap {"short", "stale"} = {} =>
        \A k \in DOMAIN accepted :
            accepted[k][1].at = 1 => accepted[k] = Whole(accepted[k][1].of)

\* MQTTClient.c:107 (threadx) "read the header byte.  This has the packet type in it": as
\* long as no read of this connection was cut short, the byte readPacket takes for the
\* header is one, and not a byte from the middle of a packet of an older connection.
HeaderHasType ==
    mishaps \cap {"short", "cut"} = {} /\ pc \in {"length", "body"} => readbuf[1].at = 1

\* Packets leave in the order of the calls, none twice, also when mbed TLS sends
\* one with a later call.
WrittenInOrder == \A j, k \in DOMAIN written : j < k => written[j] < written[k]

\* A packet reported as sent is sent, unless mbed TLS was stalled on this connection.
LossNeedsStall ==
    "stalled" \notin mishaps => \A w \in reported : \E k \in DOMAIN written : written[k] = w

\* MQTTClient.c:45 "record the fact that we have successfully sent the packet": a
\* packet for which sendPacket returns SUCCESS was handed to TCP, or mbed TLS still has it.
SuccessMeansSent ==
    \A w \in reported : w = outLeft \/ \E k \in DOMAIN written : written[k] = w
=============================================================================
