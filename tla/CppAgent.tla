------------------------------- MODULE CppAgent -------------------------------
(***************************************************************************)
(* The agents of the mbed and the Arduino ports: the main loop, MARun and  *)
(* start of MA.c, the MQTT handler and the C++ client (MQTTClient.h, the   *)
(* same template in both ports) as far as the agent sees it.               *)
(*                                                                         *)
(* Unlike the C client of FreeRTOS, this one drops the session             *)
(* (cleanSession) when a command fails, and a publish waits for its PUBACK *)
(* reading whatever comes: a control message that arrives meanwhile is     *)
(* handled, and answered, inside the wait.  calls is the stack of the      *)
(* publishes that wait, the innermost first.                               *)
(***************************************************************************)
EXTENDS Naturals, Sequences, SequencesExt

CONSTANTS Ports,       \* the ports looked at
          RETRY_CNT,   \* MQTT_RETRY_CNT: 3 (mbed) or 10 (Arduino)
          HeapRoom,    \* mbed: how many forgotten blocks fill the heap
          Failures,    \* what may go wrong
          MaxFaults,   \* bound: how often
          MaxNesting   \* bound: publishes that wait inside each other

AllFailures == {"setup", "connect", "mqtt", "subscribe", "size", "write", "ack", "link", "rc"}
ASSUME PortsAssumption == Ports \subseteq {"mbed", "arduino"}
ASSUME FailuresAssumption == Failures \subseteq AllFailures
ASSUME BoundsAssumption ==
    /\ MaxFaults \in Nat /\ RETRY_CNT \in Nat \ {0}
    /\ HeapRoom \in Nat \ {0} /\ MaxNesting \in Nat \ {0}

VARIABLES port,                      \* which port this is; never changes
          pc, caller, retry,
          rc,                        \* what start has to report
          client, isconnected,       \* g_pMQTTClient # NULL; the client's flag
          connections, link,         \* TCP connections held open; whether the last is alive
          mStep, mConnectionStatus,
          calls,
          leaked,                    \* blocks nothing points to any more
          ignored,                   \* failures the agent took no notice of since Destroy
          faults

clientVars == <<client, isconnected>>
tcpVars == <<connections, link>>
agentVars == <<mStep, mConnectionStatus, ignored>>
vars == <<port, pc, caller, retry, rc, clientVars, tcpVars, agentVars, calls, leaked, faults>>

Pcs == {"main", "start", "connect", "mqtt", "subscribe", "attribute", "returned",
        "loop", "telemetry", "yield", "reconnect", "destroy", "crashed"}
Results == {"ok", "setup", "network", "mqtt", "subscribe"}
Publishes == {"attribute", "telemetry", "reply"}

\* The Arduino's client is a global object.
Init ==
    /\ port \in Ports
    /\ pc = (IF port = "mbed" THEN "main" ELSE "start") /\ caller = "MARun"
    /\ retry = 0 /\ rc = "ok"
    /\ client = (port = "arduino") /\ isconnected = FALSE
    /\ connections = 0 /\ link = FALSE
    /\ mStep = "PROCESS_START" /\ mConnectionStatus = "DISCONNECTED"
    /\ calls = <<>> /\ leaked = 0 /\ ignored = {} /\ faults = 0

Fine == UNCHANGED faults
Fault(kind) == kind \in Failures /\ faults < MaxFaults /\ faults' = faults + 1

-----------------------------------------------------------------------------
\* mbed's main: a network object for the NTP client, deleted afterwards.  One whose
\* Ethernet does not come up is forgotten, and the next one made at once.
Main ==
    /\ pc = "main"
    /\ \/ Fine /\ pc' = "start" /\ UNCHANGED leaked
       \/ Fault("setup") /\ leaked < HeapRoom /\ leaked' = leaked + 1 /\ UNCHANGED pc
    /\ UNCHANGED <<port, caller, retry, rc, clientVars, tcpVars, agentVars, calls>>

\* start, up to a client and its network.  The TLS contexts of mbed's network object
\* are freed by MQTTEthernetTLS::disconnect only, which nobody calls: g_pNetwork is a
\* pointer to the base class and disconnect is not virtual.
Start ==
    /\ pc = "start"
    /\ mConnectionStatus' = "CONNECTING" /\ retry' = 0
    /\ \/ client /\ Fine /\ pc' = "connect" /\ UNCHANGED <<rc, client, isconnected, leaked>>
       \/ /\ ~client /\ leaked < HeapRoom
          /\ leaked' = leaked + 1
          /\ isconnected' = FALSE
          /\ \/ Fine /\ client' = TRUE /\ pc' = "connect" /\ UNCHANGED rc
             \/ Fault("setup") /\ rc' = "setup" /\ pc' = "returned" /\ UNCHANGED client
    /\ UNCHANGED <<port, caller, tcpVars, mStep, ignored, calls>>

\* The heap is full: malloc returns NULL, which is written through.
OutOfMemory ==
    /\ pc = "start" /\ ~client /\ leaked = HeapRoom
    /\ pc' = "crashed"
    /\ Fine
    /\ UNCHANGED <<port, caller, retry, rc, clientVars, tcpVars, agentVars, calls, leaked>>

\* tries once too often
Again_xOneMore(here) == IF retry' <= RETRY_CNT THEN here ELSE "returned"

\* A retry loop of handleMQTTCreate: once more, or give up.
Again(here) == IF retry' < RETRY_CNT THEN here ELSE "returned"

\* The loop around the TCP connection.  When it gives up only the Arduino calls the
\* connected callback.  The Arduino closes the old connection before each try.
Connect ==
    LET open == IF port = "arduino" THEN 0 ELSE connections
    IN /\ pc = "connect"
       /\ \/ /\ Fine /\ connections' = open + 1 /\ link' = TRUE
             /\ pc' = "mqtt" /\ retry' = 0
             /\ UNCHANGED <<rc, mConnectionStatus>>
          \/ /\ Fault("connect") /\ connections' = open /\ link' = FALSE
             /\ retry' = retry + 1
             /\ pc' = Again("connect")
             /\ IF pc' = "returned"
                THEN /\ rc' = "network"
                     /\ mConnectionStatus' = IF port = "arduino" THEN "DISCONNECTED"
                                             ELSE mConnectionStatus
                ELSE UNCHANGED <<rc, mConnectionStatus>>
       /\ UNCHANGED <<port, caller, clientVars, mStep, ignored, calls, leaked>>

\* The loop around Client::connect, and the connected callback.
ConnectMqtt ==
    /\ pc = "mqtt"
    /\ \/ /\ Fine /\ link
          /\ isconnected' = TRUE /\ mConnectionStatus' = "CONNECTED" /\ pc' = "subscribe"
          /\ UNCHANGED <<retry, rc>>
       \/ /\ Fault("mqtt") \/ (~link /\ Fine)
          /\ retry' = retry + 1
          /\ pc' = Again("mqtt")
          /\ IF pc' = "returned" THEN rc' = "mqtt" /\ mConnectionStatus' = "DISCONNECTED"
             ELSE UNCHANGED <<rc, mConnectionStatus>>
          /\ UNCHANGED isconnected
    /\ UNCHANGED <<port, caller, client, tcpVars, mStep, ignored, calls, leaked>>

\* Client::subscribe, whose failure drops the session.  MQTTSubscribed is called
\* whatever the result.
Subscribe ==
    /\ pc = "subscribe"
    /\ pc' = "attribute"
    /\ \/ Fine /\ link /\ rc' = "ok" /\ UNCHANGED isconnected
       \/ /\ Fault("subscribe") \/ (~link /\ Fine)
          /\ rc' = "subscribe" /\ isconnected' = FALSE
    /\ UNCHANGED <<port, caller, retry, client, tcpVars, agentVars, calls, leaked>>

-----------------------------------------------------------------------------
\* Publishing.

\* goes on after a telemetry that failed
After_xNoBreak(kind, ok) ==
    IF kind = "attribute" THEN "returned" ELSE IF kind = "telemetry" THEN "yield" ELSE pc

\* Where a publish returns to.  MARun is left when telemetry fails.
After(kind, ok) ==
    IF kind = "attribute" THEN "returned"
    ELSE IF kind = "reply" THEN pc
    ELSE IF ok THEN "yield" ELSE "destroy"

\* A publish, or several inside each other, return to what called the outermost, kind.
\* The results of attribute and of a reply are ignored.
Return(kind, ok, failed) ==
    /\ pc' = After(kind, ok)
    /\ mStep' = IF kind = "attribute" THEN "PROCESS_TELEMETRY" ELSE mStep
    /\ ignored' = ignored \cup (failed \ {"telemetry"})

cleanSession == isconnected' = FALSE

\* A message that does not fit the send buffer is not sent, and the session stays.
TooLong(kind) ==
    /\ isconnected /\ Fault("size")
    /\ UNCHANGED <<calls, isconnected>>
    /\ Return(kind, FALSE, {})

\* handleMQTTPublishMessageWithTopic up to the wait for the PUBACK.
Publish(kind) ==
    \/ TooLong(kind)
    \/ isconnected /\ Fine /\ calls' = <<kind>> \o calls
       /\ UNCHANGED <<pc, mStep, ignored, isconnected>>
    \/ /\ IF isconnected THEN Fault("write") \/ (~link /\ Fine) ELSE Fine
       /\ cleanSession
       /\ UNCHANGED calls
       /\ Return(kind, FALSE, {kind})

publishFrame == UNCHANGED <<port, caller, retry, rc, client, tcpVars, mConnectionStatus, leaked>>

Attribute == pc = "attribute" /\ calls = <<>> /\ Publish("attribute") /\ publishFrame
Telemetry == pc = "telemetry" /\ client /\ calls = <<>> /\ Publish("telemetry") /\ publishFrame

\* A control message, in yield or in the wait of a publish: its handler answers it.
\* A client that dropped the session has no handlers.
ControlArrives ==
    /\ pc = "yield" \/ calls # <<>>
    /\ isconnected /\ link
    /\ Len(calls) < MaxNesting
    /\ Publish("reply")
    /\ publishFrame

\* waitfor(PUBACK) is content with any PUBACK.
Acked ==
    /\ calls # <<>> /\ link
    /\ calls' = Tail(calls)
    /\ Return(Head(calls), TRUE, {})
    /\ Fine
    /\ UNCHANGED isconnected
    /\ publishFrame

\* waits for ever on a dead connection
Expires_xOnlyAlive ==
    /\ calls # <<>> /\ link
    /\ Fault("ack")
    /\ calls' = <<>>
    /\ cleanSession
    /\ Return(Last(calls), FALSE, Range(calls))
    /\ publishFrame

\* The command timer of the innermost publish expires.  Those of the outer ones, started
\* earlier, have then expired too: all of them fail.
Expires ==
    /\ calls # <<>>
    /\ Fault("ack") \/ (~link /\ Fine)
    /\ calls' = <<>>
    /\ cleanSession
    /\ Return(Last(calls), FALSE, Range(calls))
    /\ publishFrame

-----------------------------------------------------------------------------
\* MARun.

\* never looks at the result
StartReturns_xUnread ==
    /\ pc = "returned" /\ calls = <<>>
    /\ \/ caller = "again" /\ Fine /\ pc' = "yield"
       \/ caller = "MARun" /\ Fine /\ pc' = "loop"
    /\ ignored' = ignored \cup ({rc} \ {"ok", "mqtt"})
    /\ UNCHANGED <<port, caller, retry, rc, clientVars, tcpVars, mStep, mConnectionStatus,
                   calls, leaked>>

\* start returns.  Its result counts the first time only, and mbed's start has no return
\* statement: what MARun reads may be anything.  A failure of the MQTT connection
\* leaves the status DISCONNECTED, where the loop notices it.
StartReturns ==
    /\ pc = "returned" /\ calls = <<>>
    /\ \/ caller = "again" /\ Fine /\ pc' = "yield"
       \/ caller = "MARun" /\ Fine /\ pc' = IF rc = "ok" THEN "loop" ELSE "destroy"
       \/ /\ caller = "MARun" /\ port = "mbed" /\ Fault("rc")
          /\ pc' = IF rc = "ok" THEN "destroy" ELSE "loop"
    /\ ignored' = ignored \cup ({rc} \ {"ok", "mqtt"})
    /\ UNCHANGED <<port, caller, retry, rc, clientVars, tcpVars, mStep, mConnectionStatus,
                   calls, leaked>>

tpMQTTIsConnected == client => isconnected   \* -1, which is true, without a client

\* One turn of the loop, up to yield.
Loop ==
    /\ pc = "loop"
    /\ pc' = IF tpMQTTIsConnected /\ mStep = "PROCESS_TELEMETRY" THEN "telemetry"
             ELSE IF mConnectionStatus = "DISCONNECTED" THEN "reconnect" ELSE "yield"
    /\ Fine
    /\ UNCHANGED <<port, caller, retry, rc, clientVars, tcpVars, agentVars, calls, leaked>>

Yield ==
    /\ pc = "yield" /\ calls = <<>>
    /\ pc' = "loop"
    /\ Fine
    /\ UNCHANGED <<port, caller, retry, rc, clientVars, tcpVars, agentVars, calls, leaked>>

\* Without a client the publish fails, and prints isConnected of the null pointer.
NullClient ==
    /\ pc = "telemetry" /\ ~client
    /\ pc' \in {"destroy", "crashed"}
    /\ Fine
    /\ UNCHANGED <<port, caller, retry, rc, clientVars, tcpVars, agentVars, calls, leaked>>

\* keeps the network of a client that is not connected
TearDown_xOnlyConnected ==
    /\ isconnected' = FALSE /\ ignored' = {}
    /\ IF client /\ isconnected
       THEN connections' = connections - 1 /\ link' = FALSE
       ELSE UNCHANGED tcpVars
    /\ client' = (port = "arduino")

\* handleMQTTDestroy.  mbed deletes network and client if there is a client; the
\* Arduino closes the connection if the client is connected.
TearDown ==
    /\ isconnected' = FALSE /\ ignored' = {}
    /\ IF IF port = "mbed" THEN client ELSE isconnected
       THEN connections' = 0 /\ link' = FALSE
       ELSE UNCHANGED tcpVars
    /\ client' = (port = "arduino")

\* forgets to start again
Reconnect_xNoStart ==
    /\ pc = "reconnect"
    /\ TearDown
    /\ pc' = "yield" /\ caller' = "again"
    /\ Fine
    /\ UNCHANGED <<port, retry, rc, mStep, mConnectionStatus, calls, leaked>>

\* The branch "reconnect when disconnected".
Reconnect ==
    /\ pc = "reconnect"
    /\ TearDown
    /\ pc' = "start" /\ caller' = "again"
    /\ Fine
    /\ UNCHANGED <<port, retry, rc, mStep, mConnectionStatus, calls, leaked>>

\* MARun ends, and the main loop calls it again.
Destroy ==
    /\ pc = "destroy"
    /\ TearDown
    /\ pc' = (IF port = "mbed" THEN "main" ELSE "start") /\ caller' = "MARun"
    /\ Fine
    /\ UNCHANGED <<port, retry, rc, mStep, mConnectionStatus, calls, leaked>>

\* The connection dies, noticed or not.
LinkDies ==
    /\ Fault("link") /\ link
    /\ link' = FALSE
    /\ UNCHANGED <<port, pc, caller, retry, rc, clientVars, connections, agentVars, calls, leaked>>

Device == Main \/ Start \/ OutOfMemory \/ Connect \/ ConnectMqtt \/ Subscribe
          \/ Attribute \/ Telemetry \/ Acked \/ Expires \/ StartReturns
          \/ Loop \/ Yield \/ NullClient \/ Reconnect \/ Destroy
Next == Device \/ ControlArrives \/ LinkDies

Spec == Init /\ [][Next]_vars

\* The one thread of the program always runs.
FairSpec == Spec /\ WF_vars(Device)

-----------------------------------------------------------------------------
\* The shape of the state.
TypeOK ==
    /\ port \in Ports /\ pc \in Pcs /\ caller \in {"MARun", "again"}
    /\ retry \in 0..RETRY_CNT /\ rc \in Results
    /\ client \in BOOLEAN /\ isconnected \in BOOLEAN
    /\ connections \in Nat /\ link \in BOOLEAN
    /\ mStep \in {"PROCESS_START", "PROCESS_TELEMETRY"}
    /\ mConnectionStatus \in {"DISCONNECTED", "CONNECTING", "CONNECTED"}
    /\ calls \in Seq(Publishes) /\ Len(calls) <= MaxNesting
    /\ leaked \in 0..HeapRoom /\ faults \in 0..MaxFaults
    /\ ignored \subseteq (Results \cup Publishes)

\* The device never holds two TCP connections, whatever fails in whatever order and
\* although handleMQTTDestroy closes nothing (Arduino), or deletes the network without
\* closing it (mbed), once the client has dropped its session.
AtMostOneConnection == connections <= 1

\* MARun turns without a session only because of a failure it took no notice of: a reply
\* or the attributes not published, or a start that failed and was not looked at.  A
\* telemetry that fails, also one with replies inside it, is not such a cause.
Stranded ==
    pc \in {"loop", "yield"} /\ calls = <<>> /\ client /\ ~isconnected
    /\ mConnectionStatus # "DISCONNECTED"
StrandedHasCause == Stranded => ignored # {}

\* A null pointer is used only when the heap is full, or after a network that did not come
\* up in a start whose result was not looked at.
CrashHasCause == pc = "crashed" => leaked = HeapRoom \/ "setup" \in ignored

\* The branch that reconnects is dead code on the Arduino; on mbed it is taken only
\* because start returns no value.
ReconnectByAccident == caller = "again" => port = "mbed" /\ "rc" \in Failures

\* Once the network is well, the device gets a session on a connection that lives, also
\* when it believed in one that had died; unless it ignored a failure, or the heap
\* is full.
InSession == isconnected /\ link
Recovers == ~InSession ~> InSession \/ ignored # {} \/ leaked = HeapRoom

\* MA.c:585 "reconnect when disconnected", without exception.
ReconnectWhenDisconnected == ~InSession ~> InSession
=============================================================================
