------------------------------ MODULE MqttSync ------------------------------
(***************************************************************************)
(* The MQTT client of the embedded ports: freertos Mqtt_Paho/MQTTClient.c, *)
(* driven by SimpleAPI/src/net/MQTT_handler.c, over the life of one        *)
(* MQTTClient and of its one TCP connection.                               *)
(*                                                                         *)
(* There is one thread, but its calls nest: a command sends its packet and *)
(* then reads the socket (cycle) until the answer comes; a message read    *)
(* meanwhile is handed to the application (deliverMessage), whose handler  *)
(* publishes a reply, which reads the socket in turn.  All of them share   *)
(* one read buffer and one send buffer.  The variable stack is the call    *)
(* stack, innermost call first.                                            *)
(***************************************************************************)
EXTENDS Integers, Sequences, FiniteSets

CONSTANTS TopicCount,           \* topics the application subscribes to: 1..TopicCount
          MAX_MESSAGE_HANDLERS, \* slots for handlers (5)
          MAX_PACKET_ID,        \* (65535)
          MaxConnects,          \* bound: calls of MQTTConnect (MQTT_RETRY_CNT is 3)
          MaxPublishes,         \* bound: calls of MQTTPublish
          MaxMessages           \* bound: messages the broker sends

ASSUME BoundsAssumption ==
    /\ TopicCount \in Nat /\ MAX_MESSAGE_HANDLERS \in Nat /\ MAX_PACKET_ID \in Nat \ {0}
    /\ MaxConnects \in Nat /\ MaxPublishes \in Nat /\ MaxMessages \in Nat

VARIABLES isconnected, next_packetid, messageHandlers, ping_outstanding,
          readbuf,    \* the message whose topic and payload the read buffer holds
          stack,      \* the calls in progress, innermost first
          connects, subscribes, calls,  \* how often MQTTConnect, ...Subscribe, ...Publish were called
          succeeded,  \* the calls of MQTTPublish that returned SUCCESS
          handled,    \* <<message, topic>>: handed to the handler of that topic
          up, toBroker, toClient,       \* the TCP connection
          late,       \* has a timer or the connection failed a call so far?
          session, subscribed, sent, accepted, acked    \* the broker

clientVars == <<isconnected, next_packetid, messageHandlers, ping_outstanding, readbuf,
                stack, connects, subscribes, calls, succeeded, handled>>
brokerVars == <<session, subscribed, sent, accepted, acked>>
netVars == <<up, toBroker, toClient, late>>
vars == <<clientVars, brokerVars, netVars>>

Topics == 1..TopicCount
PacketIds == 1..MAX_PACKET_ID
Requests == {"CONNECT", "SUBSCRIBE", "PUBLISH", "PUBACK", "PINGREQ", "DISCONNECT"}
Answers == {"CONNACK", "SUBACK", "PUBLISH", "PUBACK", "PINGRESP"}

\* A packet: its type, its packet id, and what it is about: the call it carries
\* (PUBLISH of the client), a topic (SUBSCRIBE), a return code (CONNACK, SUBACK).
Packet(type, id, about) == [type |-> type, id |-> id, about |-> about]

\* A call in progress.  arg: the topic of subscribe, the call of publish, the
\* message deliver and handler are about.  slot: where deliverMessage's loop is.
Frame(op, id, arg) == [op |-> op, id |-> id, arg |-> arg, slot |-> 0]
Ops == {"connect", "subscribe", "publish", "yield", "deliver", "handler", "replied"}

Init ==
    /\ isconnected = FALSE
    /\ next_packetid = 1
    /\ messageHandlers = <<>>
    /\ ping_outstanding = FALSE
    /\ readbuf = 0
    /\ stack = <<>>
    /\ connects = 0 /\ subscribes = 0 /\ calls = 0
    /\ succeeded = {} /\ handled = {}
    /\ up = TRUE /\ toBroker = <<>> /\ toClient = <<>> /\ late = FALSE
    /\ session = FALSE
    /\ subscribed = {} /\ sent = <<>> /\ accepted = {} /\ acked = {}

Idle == stack = <<>>
Top == Head(stack)
\* The innermost call is a loop around cycle.
Reading == ~Idle /\ Top.op \in {"connect", "subscribe", "publish", "yield"}

\* wraps one call late, through the id 0
getNextPacketId_xZero == (next_packetid + 1) % (MAX_PACKET_ID + 1)

getNextPacketId == IF next_packetid = MAX_PACKET_ID THEN 1 ELSE next_packetid + 1

\* sendPacket, and whether it succeeds: what it adds to the connection.  A write on a
\* broken connection may still be buffered: it is lost.
sendPacket(packet, ok) ==
    /\ toBroker' = IF ok /\ up THEN Append(toBroker, packet) ELSE toBroker
    /\ late' = (late \/ (up /\ ~ok))

-----------------------------------------------------------------------------
\* The commands of the application.  Each pushes itself, unless its packet
\* cannot be sent: then it fails at once.

Call(frame, ok, below) == stack' = (IF ok THEN <<frame>> ELSE <<>>) \o below

MQTTConnect ==
    /\ Idle /\ ~isconnected /\ connects < MaxConnects
    /\ connects' = connects + 1
    /\ \E ok \in BOOLEAN :
          /\ sendPacket(Packet("CONNECT", 0, 0), ok)
          /\ Call(Frame("connect", 0, 0), ok, stack)
    /\ UNCHANGED <<isconnected, next_packetid, messageHandlers, ping_outstanding, readbuf,
                   subscribes, calls, succeeded, handled, brokerVars, up, toClient>>

\* handleMQTTCreate subscribes to one topic after the other, until one fails.
MQTTSubscribe(topic) ==
    /\ Idle /\ isconnected
    /\ topic = subscribes + 1 /\ Len(messageHandlers) = subscribes
    /\ subscribes' = subscribes + 1
    /\ next_packetid' = getNextPacketId
    /\ \E ok \in BOOLEAN :
          /\ sendPacket(Packet("SUBSCRIBE", next_packetid', topic), ok)
          /\ Call(Frame("subscribe", next_packetid', topic), ok, stack)
    /\ UNCHANGED <<isconnected, messageHandlers, ping_outstanding, readbuf, connects,
                   calls, succeeded, handled, brokerVars, up, toClient>>

\* From the main loop (telemetry, attribute), or from the handler of a message,
\* which sends one reply (tpSimpleResult, tpSimpleAttribute).
MQTTPublish ==
    /\ isconnected /\ calls < MaxPublishes
    /\ ~Idle => Top.op = "handler"
    /\ calls' = calls + 1
    /\ next_packetid' = getNextPacketId
    /\ \E ok \in BOOLEAN :
          /\ sendPacket(Packet("PUBLISH", next_packetid', calls'), ok)
          /\ Call(Frame("publish", next_packetid', calls'), ok,
                  IF Idle THEN stack ELSE [stack EXCEPT ![1].op = "replied"])
    /\ UNCHANGED <<isconnected, messageHandlers, ping_outstanding, readbuf, connects,
                   subscribes, succeeded, handled, brokerVars, up, toClient>>

MQTTYield ==
    /\ Idle
    /\ stack' = <<Frame("yield", 0, 0)>>
    /\ UNCHANGED <<isconnected, next_packetid, messageHandlers, ping_outstanding, readbuf,
                   connects, subscribes, calls, succeeded, handled, brokerVars, netVars>>

\* handleMQTTDisconnect: MQTTDisconnect, then the socket is closed.
MQTTDisconnect ==
    /\ Idle
    /\ \E ok \in BOOLEAN : sendPacket(Packet("DISCONNECT", 0, 0), ok)
    /\ isconnected' = FALSE
    /\ up' = FALSE
    /\ toClient' = <<>>
    /\ UNCHANGED <<next_packetid, messageHandlers, ping_outstanding, readbuf, stack,
                   connects, subscribes, calls, succeeded, handled, brokerVars>>

-----------------------------------------------------------------------------
\* cycle: one packet is read, or none comes in time.

\* keepalive, at the end of a cycle that leaves queue and outstanding behind.
\* It looks at ping_outstanding only to send no second PINGREQ.
keepalive(queue, outstanding) ==
    \/ toBroker' = queue /\ ping_outstanding' = outstanding
    \/ /\ ~outstanding
       /\ toBroker' = IF up THEN Append(queue, Packet("PINGREQ", 0, 0)) ELSE queue
       /\ ping_outstanding' = TRUE

NothingRead ==
    /\ Reading
    /\ keepalive(toBroker, ping_outstanding)
    /\ UNCHANGED <<isconnected, next_packetid, messageHandlers, readbuf, stack, connects,
                   subscribes, calls, succeeded, handled, brokerVars, up, toClient, late>>

Awaited ==
    [connect |-> "CONNACK", subscribe |-> "SUBACK", publish |-> "PUBACK", yield |-> "none"]

\* stops at the first packet of any type
Matches_xAny(p) == Top.op # "yield"

\* waitfor compares the type of a packet only, never its packet id.
Matches(p) == p.type = Awaited[Top.op]

\* What a command does with the answer waitfor found.
ConnackRead(p) ==
    /\ isconnected' = (p.about = 0)
    /\ UNCHANGED <<messageHandlers, succeeded>>

\* keeps the handler only when the granted QoS is 0
SubackRead_xOnlyQoS0(p) == UNCHANGED <<isconnected, messageHandlers, succeeded>>

SubackRead(p) ==
    /\ messageHandlers' = IF p.about = 0 /\ Len(messageHandlers) < MAX_MESSAGE_HANDLERS
                          THEN Append(messageHandlers, Top.arg) ELSE messageHandlers
    /\ UNCHANGED <<isconnected, succeeded>>

PubackRead(p) ==
    /\ succeeded' = succeeded \cup {Top.arg}
    /\ UNCHANGED <<isconnected, messageHandlers>>

\* Any packet but a PUBLISH.  The awaited one ends the command; any other is
\* dropped, a PINGRESP after clearing ping_outstanding.
AnswerRead ==
    /\ Reading /\ toClient # <<>> /\ Head(toClient).type # "PUBLISH"
    /\ LET p == Head(toClient) IN
          /\ IF Matches(p)
             THEN /\ stack' = Tail(stack)
                  /\ \/ Top.op = "connect" /\ ConnackRead(p)
                     \/ Top.op = "subscribe" /\ SubackRead(p)
                     \/ Top.op = "publish" /\ PubackRead(p)
             ELSE UNCHANGED <<stack, isconnected, messageHandlers, succeeded>>
          /\ keepalive(toBroker, ping_outstanding /\ p.type # "PINGRESP")
    /\ toClient' = Tail(toClient)
    /\ UNCHANGED <<next_packetid, readbuf, connects, subscribes, calls, handled, brokerVars, up, late>>

\* A PUBLISH: deliverMessage begins.
MessageRead ==
    /\ Reading /\ toClient # <<>> /\ Head(toClient).type = "PUBLISH"
    /\ readbuf' = Head(toClient).id
    /\ stack' = <<Frame("deliver", Head(toClient).id, Head(toClient).id)>> \o stack
    /\ toClient' = Tail(toClient)
    /\ UNCHANGED <<isconnected, next_packetid, messageHandlers, ping_outstanding, connects,
                   subscribes, calls, succeeded, handled, brokerVars, up, toBroker, late>>

\* The slots deliverMessage has still to call.  Its topicName points into the
\* read buffer, so the topic compared is the one of the message read last.
MatchingSlots ==
    {s \in DOMAIN messageHandlers : s > Top.slot /\ messageHandlers[s] = sent[readbuf].topic}

CallHandler ==
    /\ ~Idle /\ Top.op = "deliver"
    /\ \E s \in MatchingSlots :
          /\ \A t \in MatchingSlots : s <= t
          /\ stack' = [stack EXCEPT ![1].op = "handler", ![1].slot = s]
          /\ handled' = handled \cup {<<Top.arg, messageHandlers[s]>>}
    /\ UNCHANGED <<isconnected, next_packetid, messageHandlers, ping_outstanding, readbuf,
                   connects, subscribes, calls, succeeded, brokerVars, netVars>>

HandlerReturns ==
    /\ ~Idle /\ Top.op \in {"handler", "replied"}
    /\ stack' = [stack EXCEPT ![1].op = "deliver"]
    /\ UNCHANGED <<isconnected, next_packetid, messageHandlers, ping_outstanding, readbuf,
                   connects, subscribes, calls, succeeded, handled, brokerVars, netVars>>

\* reads the id from the shared buffer again
AckId_xReread == readbuf

\* The id of the PUBACK: msg.id was copied before the handler ran.
AckId == Top.id

\* The end of cycle for a PUBLISH: QoS 1 is acknowledged with the timer of the
\* call below; if that fails a yield ends with FAILURE and a waitfor goes on.
DeliverDone ==
    /\ ~Idle /\ Top.op = "deliver" /\ MatchingSlots = {}
    /\ IF sent[Top.arg].qos = 0
       THEN /\ stack' = Tail(stack)
            /\ keepalive(toBroker, ping_outstanding) /\ UNCHANGED late
       ELSE \E ok \in BOOLEAN :
            /\ stack' = IF ~ok /\ stack[2].op = "yield" THEN Tail(Tail(stack)) ELSE Tail(stack)
            /\ sendPacket(Packet("PUBACK", AckId, 0), ok)
            /\ UNCHANGED ping_outstanding
    /\ UNCHANGED <<isconnected, next_packetid, messageHandlers, readbuf, connects,
                   subscribes, calls, succeeded, handled, brokerVars, up, toClient>>

\* returns the rc of sendPacket
TimeoutResult_xSent ==
    succeeded' = IF Top.op = "publish" THEN succeeded \cup {Top.arg} ELSE succeeded

\* A command whose timer expires returns FAILURE ...
TimeoutResult == UNCHANGED succeeded

\* waits for its answer without looking at the timer
TimerExpires_xForever ==
    /\ Reading /\ Top.op = "yield"
    /\ stack' = Tail(stack)
    /\ UNCHANGED <<isconnected, next_packetid, messageHandlers, ping_outstanding, readbuf,
                   connects, subscribes, calls, succeeded, handled, brokerVars, netVars>>

\* ... and a yield, which has only been waiting for its timer, SUCCESS.
TimerExpires ==
    /\ Reading
    /\ stack' = Tail(stack)
    /\ TimeoutResult
    /\ late' = (late \/ ~(Top.op = "yield" \/ (~up /\ toClient = <<>>)))
    /\ UNCHANGED <<isconnected, next_packetid, messageHandlers, ping_outstanding, readbuf,
                   connects, subscribes, calls, handled, brokerVars, up, toBroker, toClient>>

App == MQTTConnect \/ (\E t \in Topics : MQTTSubscribe(t)) \/ MQTTPublish \/ MQTTYield
       \/ MQTTDisconnect
Running == AnswerRead \/ MessageRead \/ CallHandler \/ HandlerReturns \/ DeliverDone
           \/ TimerExpires

-----------------------------------------------------------------------------
\* The broker (external): it answers in order, and sends messages of its own.

Answer(packet) == toClient' = IF up THEN Append(toClient, packet) ELSE toClient
Received == toBroker # <<>> /\ toBroker' = Tail(toBroker)

\* A CONNECT within a session is a protocol error: the broker hangs up.
BrokerConnect ==
    /\ Received /\ Head(toBroker).type = "CONNECT"
    /\ \/ /\ ~session
          /\ session' = TRUE /\ up' = up
          /\ Answer(Packet("CONNACK", 0, 0))
       \/ /\ ~session
          /\ session' = FALSE /\ up' = FALSE
          /\ Answer(Packet("CONNACK", 0, 1))
       \/ /\ session
          /\ session' = FALSE /\ up' = FALSE
          /\ UNCHANGED toClient
    /\ UNCHANGED <<clientVars, late, subscribed, sent, accepted, acked>>

\* It may refuse a topic, unless it has sent a message for it already.
BrokerSubscribe ==
    /\ Received /\ Head(toBroker).type = "SUBSCRIBE"
    /\ LET p == Head(toBroker) IN
       \/ /\ subscribed' = subscribed \cup {p.about}
          /\ Answer(Packet("SUBACK", p.id, 0))
       \/ /\ ~\E i \in DOMAIN sent : sent[i].early /\ sent[i].topic = p.about
          /\ UNCHANGED subscribed
          /\ Answer(Packet("SUBACK", p.id, 1))
    /\ UNCHANGED <<clientVars, late, up, session, sent, accepted, acked>>

BrokerPublish ==
    /\ Received /\ Head(toBroker).type = "PUBLISH"
    /\ accepted' = accepted \cup {Head(toBroker).about}
    /\ Answer(Packet("PUBACK", Head(toBroker).id, 0))
    /\ UNCHANGED <<clientVars, late, up, session, subscribed, sent, acked>>

BrokerPuback ==
    /\ Received /\ Head(toBroker).type = "PUBACK"
    /\ acked' = acked \cup {Head(toBroker).id}
    /\ UNCHANGED <<clientVars, late, up, toClient, session, subscribed, sent, accepted>>

BrokerPing ==
    /\ Received /\ Head(toBroker).type = "PINGREQ"
    /\ Answer(Packet("PINGRESP", 0, 0))
    /\ UNCHANGED <<clientVars, late, up, brokerVars>>

BrokerDisconnect ==
    /\ Received /\ Head(toBroker).type = "DISCONNECT"
    /\ session' = FALSE
    /\ UNCHANGED <<clientVars, late, up, toClient, subscribed, sent, accepted, acked>>

\* MQTT lets a message for a topic precede the SUBACK of the topic.
BrokerSends(topic, qos) ==
    /\ session /\ up /\ Len(sent) < MaxMessages
    /\ LET early == /\ topic \notin subscribed /\ toBroker # <<>>
                    /\ Head(toBroker).type = "SUBSCRIBE" /\ Head(toBroker).about = topic
       IN /\ topic \in subscribed \/ early
          /\ sent' = Append(sent, [topic |-> topic, qos |-> qos, early |-> early])
    /\ Answer(Packet("PUBLISH", Len(sent'), 0))
    /\ UNCHANGED <<clientVars, late, up, toBroker, session, subscribed, accepted, acked>>

LinkBreaks ==
    /\ up
    /\ up' = FALSE /\ session' = FALSE /\ late' = TRUE
    /\ toBroker' = <<>> /\ toClient' = <<>>
    /\ UNCHANGED <<clientVars, subscribed, sent, accepted, acked>>

Broker == BrokerConnect \/ BrokerSubscribe \/ BrokerPublish \/ BrokerPuback \/ BrokerPing
          \/ BrokerDisconnect \/ LinkBreaks
          \/ (\E t \in Topics, qos \in {0, 1} : BrokerSends(t, qos))

Next == App \/ NothingRead \/ Running \/ Broker

Spec == Init /\ [][Next]_vars

\* The thread runs, and every timer expires in the end although packets or
\* PINGREQs may keep the loop busy meanwhile.  The broker owes nothing.
FairSpec == Spec /\ WF_vars(Running) /\ WF_vars(TimerExpires)

-----------------------------------------------------------------------------
\* The shape of the state; in particular a packet id is never 0.
TypeOK ==
    /\ isconnected \in BOOLEAN /\ ping_outstanding \in BOOLEAN
    /\ next_packetid \in PacketIds
    /\ messageHandlers \in Seq(Topics) /\ Len(messageHandlers) <= MAX_MESSAGE_HANDLERS
    /\ readbuf \in 0..MaxMessages
    /\ stack \in Seq([op : Ops, id : Nat, arg : Nat, slot : 0..MAX_MESSAGE_HANDLERS])
    /\ connects \in 0..MaxConnects /\ subscribes \in 0..TopicCount /\ calls \in 0..MaxPublishes
    /\ succeeded \subseteq 1..calls /\ accepted \subseteq 1..calls
    /\ handled \subseteq (1..MaxMessages) \X Topics
    /\ up \in BOOLEAN /\ session \in BOOLEAN /\ late \in BOOLEAN
    /\ toBroker \in Seq([type : Requests, id : Nat, about : Nat])
    /\ toClient \in Seq([type : Answers, id : Nat, about : Nat])
    /\ subscribed \subseteq Topics /\ acked \subseteq Nat
    /\ sent \in Seq([topic : Topics, qos : {0, 1}, early : BOOLEAN])

\* Every PUBACK that leaves is for a QoS 1 message the broker sent and that was not
\* acknowledged before, although nested calls overwrite both buffers while
\* the handler of the message runs.
AcksAnswerMessages ==
    \A k \in DOMAIN toBroker : toBroker[k].type = "PUBACK" =>
        /\ toBroker[k].id \in DOMAIN sent \ acked
        /\ sent[toBroker[k].id].qos = 1
        /\ \A j \in DOMAIN toBroker :
              toBroker[j].type = "PUBACK" /\ toBroker[j].id = toBroker[k].id => j = k

\* A message the broker may forget was handed to the handler of its topic, at whatever
\* depth of the stack it was read (cycle acknowledges it without looking at what
\* deliverMessage returned).  Only a message that overtook the SUBACK is lost, or one whose
\* SUBACK a nested publish took: that subscribe is still waiting and will time out.
AckedWasHandled ==
    ~late => \A m \in acked :
        \/ sent[m].early
        \/ <<m, sent[m].topic>> \in handled
        \/ \E k \in DOMAIN stack : stack[k].op = "subscribe" /\ stack[k].arg = sent[m].topic

\* However acknowledgements are mixed up between calls, none is counted twice: the
\* publishes reported as delivered are not more than those the broker accepted.
NoMoreSuccessesThanAcks == Cardinality(succeeded) <= Cardinality(accepted)

\* As long as nothing has timed out, the acknowledgements nested calls take from each
\* other are settled by the time the outermost call returns.
AnswersSettle == ~late /\ Idle => succeeded \subseteq accepted

\* waitfor gives up: every call the application makes returns, however deep
\* messages nest in it and whatever the broker withholds.
CommandsReturn == ~Idle ~> Idle

\* MQTT_handler.c:353 "@return MQTTASYNC_SUCCESS if the message is accepted for
\* publication": a publish that returns SUCCESS was accepted by the broker.
SuccessMeansAccepted == succeeded \subseteq accepted

\* MQTTClient.h:116 "Message handlers are indexed by subscription topic": a handler
\* is called with messages of its own topic only.  (Topics of equal length: the
\* length compared is still that of the message delivered.)
RightHandler == \A h \in handled : sent[h[1]].topic = h[2]
=============================================================================
