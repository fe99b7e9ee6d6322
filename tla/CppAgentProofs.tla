---------------------------- MODULE CppAgentProofs ----------------------------
(***************************************************************************)
(* Theorems about CppAgent, for both ports, every number of retries, every *)
(* heap, and every bound on failures and on nested publishes.              *)
(***************************************************************************)
EXTENDS CppAgent, TLAPS

-----------------------------------------------------------------------------
(* Types. *)

\* The flags stay flags.
LEMMA FlagsStay ==
    ASSUME client \in BOOLEAN, isconnected \in BOOLEAN, link \in BOOLEAN, [Next]_vars
    PROVE  client' \in BOOLEAN /\ isconnected' \in BOOLEAN /\ link' \in BOOLEAN
<1>1. CASE Device
  <2>1. CASE Main
    BY <2>1, Zenon DEF Main, clientVars, tcpVars
  <2>2. CASE Start
    BY <2>2, Zenon DEF Start, clientVars, tcpVars
  <2>3. CASE OutOfMemory
    BY <2>3, Zenon DEF OutOfMemory, clientVars, tcpVars
  <2>4. CASE Connect
    BY <2>4, Zenon DEF Connect, clientVars
  <2>5. CASE ConnectMqtt
    BY <2>5, Zenon DEF ConnectMqtt, tcpVars
  <2>6. CASE Subscribe
    BY <2>6, Zenon DEF Subscribe, tcpVars
  <2>7. CASE Attribute
    BY <2>7, Zenon DEF Attribute, Publish, TooLong, publishFrame, cleanSession, tcpVars
  <2>8. CASE Telemetry
    BY <2>8, Zenon DEF Telemetry, Publish, TooLong, publishFrame, cleanSession, tcpVars
  <2>9. CASE Acked
    BY <2>9, Zenon DEF Acked, publishFrame, tcpVars
  <2>10. CASE Expires
    BY <2>10, Zenon DEF Expires, publishFrame, cleanSession, tcpVars
  <2>11. CASE StartReturns \/ Loop \/ Yield \/ NullClient
    BY <2>11, Zenon DEF StartReturns, Loop, Yield, NullClient, clientVars, tcpVars
  <2>12. CASE Reconnect \/ Destroy
    BY <2>12, Zenon DEF Reconnect, Destroy, TearDown, tcpVars
  <2>13. QED
    BY <1>1, <2>1, <2>2, <2>3, <2>4, <2>5, <2>6, <2>7, <2>8, <2>9, <2>10, <2>11, <2>12 DEF Device
<1>2. CASE ControlArrives
  BY <1>2, Zenon DEF ControlArrives, Publish, TooLong, publishFrame, cleanSession, tcpVars
<1>3. CASE LinkDies
  BY <1>3, Zenon DEF LinkDies, clientVars
<1>4. CASE UNCHANGED vars
  BY <1>4, Zenon DEF vars, clientVars, tcpVars
<1>5. QED
  BY <1>1, <1>2, <1>3, <1>4 DEF Next

\* The types of the other variables.  A retry loop is only entered with a try left.
OtherTypes ==
    /\ port \in Ports /\ pc \in Pcs /\ caller \in {"MARun", "again"}
    /\ retry \in 0..RETRY_CNT /\ rc \in Results /\ connections \in Nat
    /\ mStep \in {"PROCESS_START", "PROCESS_TELEMETRY"}
    /\ mConnectionStatus \in {"DISCONNECTED", "CONNECTING", "CONNECTED"}
    /\ calls \in Seq(Publishes) /\ Len(calls) <= MaxNesting
    /\ leaked \in 0..HeapRoom /\ faults \in 0..MaxFaults
    /\ ignored \subseteq (Results \cup Publishes)
    /\ pc \in {"connect", "mqtt"} => retry < RETRY_CNT

\* What a publish changes, on its way out or back.
LEMMA PublishTypes ==
    ASSUME OtherTypes, NEW kind \in Publishes, Publish(kind), publishFrame,
           Len(calls) < MaxNesting
    PROVE  OtherTypes'
<1>1. CASE isconnected /\ Fine /\ calls' = <<kind>> \o calls /\ UNCHANGED <<pc, mStep, ignored, isconnected>>
  <2>1. calls' \in Seq(Publishes) /\ Len(calls') = Len(calls) + 1
    BY <1>1 DEF OtherTypes
  <2>2. QED
    BY <1>1, <2>1, BoundsAssumption DEF OtherTypes, publishFrame, tcpVars, Fine
<1>2. CASE ~(isconnected /\ Fine /\ calls' = <<kind>> \o calls /\ UNCHANGED <<pc, mStep, ignored, isconnected>>)
  <2>1. /\ calls' = calls /\ (Return(kind, FALSE, {kind}) \/ Return(kind, FALSE, {}))
        /\ (\E k \in Failures : Fault(k)) \/ Fine
    BY <1>2 DEF Publish, TooLong, Fault, Fine
  <2>2. faults' \in 0..MaxFaults
    BY <2>1, BoundsAssumption DEF Publish, Fault, Fine, OtherTypes
  <2>3. QED
    BY <2>1, <2>2 DEF OtherTypes, publishFrame, tcpVars, Return, After, Publishes, Pcs
<1>3. QED
  BY <1>1, <1>2

LEMMA OtherTypesStay ==
    ASSUME OtherTypes, [Next]_vars
    PROVE  OtherTypes'
<1> USE BoundsAssumption
<1> USE DEF OtherTypes
<1>1. CASE Main
  BY <1>1 DEF Main, Pcs, Fine, Fault, tcpVars, agentVars
<1>2. CASE Start
  <2>1. pc' \in Pcs /\ retry' = 0 /\ rc' \in Results /\ leaked' \in 0..HeapRoom /\ faults' \in 0..MaxFaults
    BY <1>2 DEF Start, Pcs, Results, Fine, Fault
  <2>2. QED
    BY <1>2, <2>1 DEF Start, tcpVars
<1>3. CASE OutOfMemory
  BY <1>3 DEF OutOfMemory, Pcs, Fine, tcpVars, agentVars
<1>4. CASE Connect
  <2>1. pc = "connect" /\ UNCHANGED <<port, caller, mStep, ignored, calls, leaked>>
    BY <1>4 DEF Connect
  <2>2. CASE Fine /\ retry' = 0 /\ pc' = "mqtt"
    BY <2>1, <2>2, <1>4 DEF Connect, Fine, Fault, Pcs, Again
  <2>3. CASE Fault("connect") /\ retry' = retry + 1 /\ pc' = Again("connect")
    <3>1. connections' \in Nat /\ rc' \in Results
          /\ mConnectionStatus' \in {"DISCONNECTED", "CONNECTING", "CONNECTED"}
      BY <1>4, <2>1 DEF Connect, Results
    <3>2. faults' \in 0..MaxFaults /\ retry' \in 0..RETRY_CNT /\ pc' \in {"connect", "returned"}
          /\ (pc' = "connect" => retry' < RETRY_CNT)
      BY <2>1, <2>3 DEF Fault, Again
    <3>3. QED
      BY <2>1, <3>1, <3>2 DEF Pcs
  <2>4. QED
    BY <1>4, <2>2, <2>3 DEF Connect
<1>5. CASE ConnectMqtt
  <2>1. /\ pc = "mqtt"
        /\ UNCHANGED <<port, caller, connections, mStep, ignored, calls, leaked>>
        /\ rc' \in Results /\ mConnectionStatus' \in {"DISCONNECTED", "CONNECTING", "CONNECTED"}
    BY <1>5 DEF ConnectMqtt, tcpVars, Results
  <2>2. faults' \in 0..MaxFaults
    BY <1>5 DEF ConnectMqtt, Fine, Fault
  <2>3. CASE pc' = "subscribe" /\ retry' = retry
    BY <2>1, <2>2, <2>3 DEF Pcs
  <2>4. CASE pc' = Again("mqtt") /\ retry' = retry + 1
    BY <2>1, <2>2, <2>4 DEF Pcs, Again
  <2>5. QED
    BY <1>5, <2>3, <2>4 DEF ConnectMqtt
<1>6. CASE Subscribe
  <2>1. faults' \in 0..MaxFaults /\ rc' \in Results /\ pc' = "attribute"
    BY <1>6 DEF Subscribe, Fine, Fault, Results
  <2>2. QED
    BY <1>6, <2>1 DEF Subscribe, Pcs, tcpVars, agentVars
<1>7. CASE Attribute
  BY <1>7, PublishTypes DEF Attribute, Publishes
<1>8. CASE Telemetry
  BY <1>8, PublishTypes DEF Telemetry, Publishes
<1>9. CASE Acked
  <2>1. calls' \in Seq(Publishes) /\ Len(calls') <= MaxNesting /\ Head(calls) \in Publishes
    BY <1>9 DEF Acked
  <2>2. pc' \in {"returned", "yield", "destroy", pc} /\ mStep' \in {"PROCESS_START", "PROCESS_TELEMETRY"}
        /\ ignored' = ignored
    BY <1>9 DEF Acked, Return, After
  <2>3. UNCHANGED <<port, caller, retry, rc, connections, mConnectionStatus, leaked, faults>>
    BY <1>9 DEF Acked, publishFrame, tcpVars, Fine
  <2>4. QED
    BY <2>1, <2>2, <2>3 DEF Pcs
<1>10. CASE Expires
  <2>1. calls' = <<>> /\ Range(calls) \subseteq Publishes
    BY <1>10 DEF Expires, Range
  <2>2. pc' \in {"returned", "yield", "destroy", pc} /\ mStep' \in {"PROCESS_START", "PROCESS_TELEMETRY"}
        /\ ignored' \subseteq (Results \cup Publishes)
    BY <1>10, <2>1 DEF Expires, Return, After
  <2>3. UNCHANGED <<port, caller, retry, rc, connections, mConnectionStatus, leaked>>
    BY <1>10 DEF Expires, publishFrame, tcpVars
  <2>4. faults' \in 0..MaxFaults
    BY <1>10 DEF Expires, Fine, Fault
  <2>5. QED
    BY <2>1, <2>2, <2>3, <2>4 DEF Pcs
<1>11. CASE StartReturns
  <2>1. faults' \in 0..MaxFaults /\ pc' \in {"yield", "loop", "destroy"}
        /\ ignored' \subseteq (Results \cup Publishes)
    BY <1>11 DEF StartReturns, Fine, Fault
  <2>2. QED
    BY <1>11, <2>1 DEF StartReturns, Pcs, tcpVars
<1>12. CASE Loop \/ Yield \/ NullClient
  BY <1>12 DEF Loop, Yield, NullClient, Fine, Pcs, tcpVars, agentVars
<1>13. CASE Reconnect \/ Destroy
  BY <1>13 DEF Reconnect, Destroy, TearDown, Fine, Pcs, tcpVars
<1>14. CASE ControlArrives
  BY <1>14, PublishTypes DEF ControlArrives, Publishes
<1>15. CASE LinkDies
  BY <1>15 DEF LinkDies, Fault, agentVars
<1>16. CASE UNCHANGED vars
  BY <1>16 DEF vars, tcpVars, agentVars
<1>17. QED
  BY <1>1, <1>2, <1>3, <1>4, <1>5, <1>6, <1>7, <1>8, <1>9, <1>10, <1>11, <1>12, <1>13, <1>14,
     <1>15, <1>16 DEF Next, Device

Flags == client \in BOOLEAN /\ isconnected \in BOOLEAN /\ link \in BOOLEAN

\* The variables of both ports keep their types: no retry is one too many, the heap holds
\* what is leaked, and the publishes that wait are publishes.
THEOREM TypeCorrect == Spec => []TypeOK
<1>1. Init => Flags /\ OtherTypes
  <2> SUFFICES ASSUME Init PROVE Flags /\ OtherTypes
    OBVIOUS
  <2>1. Flags
    BY Zenon DEF Init, Flags
  <2>2. pc \in Pcs /\ pc \notin {"connect", "mqtt"}
    BY DEF Init, Pcs
  <2>3. calls \in Seq(Publishes) /\ Len(calls) <= MaxNesting
    BY BoundsAssumption DEF Init
  <2>4. QED
    BY <2>1, <2>2, <2>3, BoundsAssumption DEF Init, OtherTypes, Results
<1>2. Flags /\ OtherTypes /\ [Next]_vars => (Flags /\ OtherTypes)'
  BY FlagsStay, OtherTypesStay DEF Flags
<1>3. Flags /\ OtherTypes => TypeOK
  BY DEF Flags, OtherTypes, TypeOK
<1>4. QED
  BY <1>1, <1>2, <1>3, PTL DEF Spec

-----------------------------------------------------------------------------
(* One connection. *)

\* mbed makes a connection only for a client it has just created, and when it destroys
\* the client it closes the connection.  The Arduino closes the old one first.
OneInv ==
    /\ port \in {"mbed", "arduino"}
    /\ connections \in {0, 1}
    /\ port = "mbed" /\ pc \in {"main", "start"} => ~client
    /\ port = "mbed" /\ ~client => connections = 0
    /\ port = "mbed" /\ pc = "connect" => client /\ connections = 0

LEMMA OneInit == Init => OneInv
  BY PortsAssumption DEF Init, OneInv

\* A publish never leads back to a connection being made.
LEMMA PublishGoesOn ==
    ASSUME NEW kind \in Publishes, Publish(kind)
    PROVE  pc' = pc \/ pc' \in {"returned", "yield", "destroy"}
  BY DEF Publish, TooLong, Return, After

LEMMA OneStep == OneInv /\ [Next]_vars => OneInv'
<1> SUFFICES ASSUME OneInv, [Next]_vars PROVE OneInv'
  OBVIOUS
<1> USE DEF OneInv
<1>1. CASE Main
  BY <1>1 DEF Main, clientVars, tcpVars
<1>2. CASE Start
  BY <1>2 DEF Start, tcpVars
<1>3. CASE OutOfMemory
  BY <1>3 DEF OutOfMemory, clientVars, tcpVars
<1>4. CASE Connect
  <2>1. pc = "connect" /\ pc' \in {"mqtt", "connect", "returned"}
        /\ UNCHANGED <<port, client>>
    BY <1>4 DEF Connect, Again, clientVars
  <2>2. CASE Fine /\ pc' = "mqtt" /\ connections' = (IF port = "arduino" THEN 0 ELSE connections) + 1
    BY <2>1, <2>2, <1>4 DEF Connect, clientVars
  <2>3. CASE connections' = IF port = "arduino" THEN 0 ELSE connections
    BY <2>1, <2>3
  <2>4. QED
    BY <1>4, <2>2, <2>3 DEF Connect
<1>5. CASE ConnectMqtt
  BY <1>5 DEF ConnectMqtt, Again, tcpVars
<1>6. CASE Subscribe
  BY <1>6 DEF Subscribe, tcpVars
<1>7. CASE Attribute \/ Telemetry
  BY <1>7, PublishGoesOn DEF Attribute, Telemetry, publishFrame, tcpVars, Publishes
<1>8. CASE ControlArrives
  BY <1>8, PublishGoesOn DEF ControlArrives, publishFrame, tcpVars, Publishes
<1>9. CASE Acked \/ Expires
  BY <1>9 DEF Acked, Expires, Return, After, publishFrame, tcpVars
<1>10. CASE StartReturns \/ Loop \/ Yield \/ NullClient
  BY <1>10 DEF StartReturns, Loop, Yield, NullClient, clientVars, tcpVars
<1>11. CASE Reconnect \/ Destroy
  BY <1>11 DEF Reconnect, Destroy, TearDown, tcpVars
<1>12. CASE LinkDies \/ UNCHANGED vars
  BY <1>12 DEF LinkDies, vars, clientVars, tcpVars
<1>13. QED
  BY <1>1, <1>2, <1>3, <1>4, <1>5, <1>6, <1>7, <1>8, <1>9, <1>10, <1>11, <1>12 DEF Next, Device

\* Neither port ever holds two TCP connections, whatever fails in whatever order.
THEOREM OneConnection == Spec => []AtMostOneConnection
<1>1. OneInv => AtMostOneConnection
  BY DEF OneInv, AtMostOneConnection
<1>2. QED
  BY <1>1, OneInit, OneStep, PTL DEF Spec

-----------------------------------------------------------------------------
(* Publishes inside each other. *)

\* Only the outermost publish that waits is not a reply, and they wait where MARun and
\* start publish or yield.
ShapeInv ==
    /\ calls \in Seq(Publishes)
    /\ calls # <<>> => pc \in {"attribute", "telemetry", "yield"} /\ client
    /\ Len(calls) > 1 => Head(calls) = "reply"
    /\ \A k \in 1..(Len(calls) - 1) : calls[k] = "reply"
    /\ isconnected => client
    /\ pc \in {"connect", "mqtt", "subscribe", "attribute"} => client

LEMMA ShapeInit == Init => ShapeInv
<1> SUFFICES ASSUME Init PROVE ShapeInv
  OBVIOUS
<1>1. calls = <<>> /\ isconnected = FALSE /\ pc \in {"main", "start"}
  BY DEF Init
<1>2. QED
  BY <1>1 DEF ShapeInv

\* A publish that waits becomes the innermost.
LEMMA PublishShape ==
    ASSUME ShapeInv, NEW kind \in Publishes, Publish(kind), publishFrame,
           pc \in {"attribute", "telemetry", "yield"},
           calls # <<>> => kind = "reply",
           isconnected \in BOOLEAN
    PROVE  ShapeInv'
<1>1. CASE isconnected /\ calls' = <<kind>> \o calls /\ UNCHANGED <<pc, isconnected>>
  <2>1. calls' \in Seq(Publishes) /\ Len(calls') = Len(calls) + 1 /\ Head(calls') = kind
        /\ \A k \in 2..Len(calls') : calls'[k] = calls[k - 1]
    BY <1>1 DEF ShapeInv
  <2>2. Len(calls') > 1 => kind = "reply"
    BY <2>1 DEF ShapeInv
  <2>3. \A k \in 1..(Len(calls') - 1) : calls'[k] = "reply"
    <3> TAKE k \in 1..(Len(calls') - 1)
    <3>1. CASE k = 1
      BY <3>1, <2>1, <2>2, <1>1
    <3>2. CASE k # 1
      <4>1. k \in 2..Len(calls') /\ k - 1 \in 1..(Len(calls) - 1)
        BY <3>2, <2>1 DEF ShapeInv
      <4>2. QED
        BY <4>1, <2>1 DEF ShapeInv
    <3>3. QED
      BY <3>1, <3>2
  <2>4. client' = client /\ isconnected'
    BY <1>1, Zenon DEF publishFrame
  <2>5. client
    BY <1>1 DEF ShapeInv
  <2>6. QED
    BY <1>1, <2>1, <2>2, <2>3, <2>4, <2>5 DEF ShapeInv
<1>2. CASE ~isconnected' /\ calls' = calls /\ pc' = After(kind, FALSE)
  <2>1. client' = client
    BY Zenon DEF publishFrame
  <2>2. calls # <<>> => pc' = pc
    BY <1>2 DEF After
  <2>3. pc' \notin {"connect", "mqtt", "subscribe"} /\ (pc' = "attribute" => pc = "attribute")
    BY <1>2 DEF After
  <2>4. QED
    BY <1>2, <2>1, <2>2, <2>3 DEF ShapeInv
<1>3. CASE UNCHANGED <<calls, isconnected>> /\ pc' = After(kind, FALSE)
  <2>1. client' = client
    BY Zenon DEF publishFrame
  <2>2. calls # <<>> => pc' = pc
    BY <1>3 DEF After
  <2>3. pc' \notin {"connect", "mqtt", "subscribe"} /\ (pc' = "attribute" => pc = "attribute")
    BY <1>3 DEF After
  <2>4. QED
    BY <1>3, <2>1, <2>2, <2>3 DEF ShapeInv
<1>4. QED
  BY <1>1, <1>2, <1>3 DEF Publish, TooLong, Return, cleanSession

LEMMA ShapeStep == ShapeInv /\ Flags /\ [Next]_vars => ShapeInv'
<1> SUFFICES ASSUME ShapeInv, Flags, [Next]_vars PROVE ShapeInv'
  OBVIOUS
<1>a. CASE calls' = calls /\ pc' \notin {"connect", "mqtt", "subscribe", "attribute"}
           /\ client' = client /\ isconnected' = isconnected
           /\ (calls = <<>> \/ pc' = pc)
  BY <1>a DEF ShapeInv
<1>b. CASE calls = <<>> /\ calls' = <<>> /\ client' /\ UNCHANGED isconnected
  BY <1>b DEF ShapeInv
<1>c. CASE calls = <<>> /\ calls' = <<>> /\ ~isconnected'
           /\ pc' \notin {"connect", "mqtt", "subscribe", "attribute"}
  BY <1>c DEF ShapeInv
<1>1. CASE Main
  BY <1>a, <1>1 DEF Main, clientVars, ShapeInv
<1>2. CASE Start
  <2>1. calls = <<>> /\ calls' = <<>>
    BY <1>2 DEF Start, ShapeInv
  <2>2. CASE client /\ UNCHANGED <<client, isconnected>>
    <3>1. client'
      BY <2>2, Zenon
    <3>2. QED
      BY <1>b, <2>1, <2>2, <3>1
  <2>3. CASE ~client
    <3>1. isconnected' = FALSE /\ (client' \/ pc' = "returned")
      BY <1>2, <2>3 DEF Start
    <3>2. QED
      BY <2>1, <3>1 DEF ShapeInv
  <2>4. QED
    BY <1>2, <2>2, <2>3 DEF Start
<1>3. CASE OutOfMemory
  BY <1>a, <1>3 DEF OutOfMemory, clientVars, ShapeInv
<1>4. CASE Connect
  <2>1. calls = <<>> /\ calls' = <<>> /\ client /\ UNCHANGED clientVars
    BY <1>4 DEF Connect, ShapeInv
  <2>2. client' /\ UNCHANGED isconnected
    BY <2>1, Zenon DEF clientVars
  <2>3. QED
    BY <1>b, <2>1, <2>2
<1>5. CASE ConnectMqtt \/ Subscribe
  <2>1. calls = <<>> /\ calls' = <<>> /\ client /\ UNCHANGED client
    BY <1>5 DEF ConnectMqtt, Subscribe, ShapeInv
  <2>2. client'
    BY <2>1, Zenon
  <2>3. QED
    BY <2>1, <2>2 DEF ShapeInv
<1>6. CASE Attribute \/ Telemetry
  BY <1>6, PublishShape DEF Attribute, Telemetry, Publishes, Flags
<1>7. CASE ControlArrives
  <2>1. pc \in {"attribute", "telemetry", "yield"}
    BY <1>7 DEF ControlArrives, ShapeInv
  <2>2. QED
    BY <1>7, <2>1, PublishShape DEF ControlArrives, Publishes, Flags
<1>8. CASE Acked
  <2>1. client' = client /\ isconnected' = isconnected /\ client
    BY <1>8, Zenon DEF Acked, publishFrame, ShapeInv
  <2>2. calls' \in Seq(Publishes) /\ Len(calls') = Len(calls) - 1
        /\ \A k \in 1..Len(calls') : calls'[k] = calls[k + 1]
    BY <1>8 DEF Acked, ShapeInv
  <2>3. \A k \in 1..(Len(calls') - 1) : calls'[k] = "reply"
    <3> TAKE k \in 1..(Len(calls') - 1)
    <3>1. k \in 1..Len(calls') /\ k + 1 \in 1..(Len(calls) - 1)
      BY <2>2
    <3>2. QED
      BY <3>1, <2>2 DEF ShapeInv
  <2>4. Len(calls') > 1 => Head(calls') = "reply"
    BY <2>2, <2>3
  <2>5. calls' # <<>> => pc' = pc
    <3>1. calls' # <<>> => Head(calls) = "reply"
      BY <2>2 DEF ShapeInv
    <3>2. QED
      BY <3>1, <1>8 DEF Acked, Return, After
  <2>6. pc' \notin {"connect", "mqtt", "subscribe"} /\ pc \in {"attribute", "telemetry", "yield"}
    BY <1>8 DEF Acked, Return, After, ShapeInv
  <2>7. QED
    BY <2>1, <2>2, <2>3, <2>4, <2>5, <2>6 DEF ShapeInv
<1>9. CASE Expires
  <2>1. client' = client /\ client /\ isconnected' = FALSE /\ calls' = <<>>
    BY <1>9, Zenon DEF Expires, publishFrame, cleanSession, ShapeInv
  <2>2. QED
    BY <2>1 DEF ShapeInv
<1>10. CASE StartReturns \/ Loop \/ Yield \/ NullClient
  BY <1>a, <1>10 DEF StartReturns, Loop, Yield, NullClient, clientVars, ShapeInv
<1>11. CASE Reconnect \/ Destroy
  BY <1>c, <1>11 DEF Reconnect, Destroy, TearDown, ShapeInv
<1>12. CASE LinkDies \/ UNCHANGED vars
  <2>1. UNCHANGED <<calls, pc>> /\ client' = client /\ isconnected' = isconnected
    BY <1>12, Zenon DEF LinkDies, vars, clientVars
  <2>2. QED
    BY <2>1 DEF ShapeInv
<1>13. QED
  BY <1>1, <1>2, <1>3, <1>4, <1>5, <1>6, <1>7, <1>8, <1>9, <1>10, <1>11, <1>12 DEF Next, Device

-----------------------------------------------------------------------------
(* The branch that reconnects. *)

Accident == port = "mbed" /\ "rc" \in Failures

\* Only a result of start that was made up takes MARun into its loop without a session,
\* and only without one it reconnects.
AccidentInv ==
    /\ caller = "again" => Accident
    /\ pc = "reconnect" => Accident
    /\ pc \in {"subscribe", "attribute"} => mConnectionStatus = "CONNECTED"
    /\ pc \in {"loop", "telemetry", "yield"} => mConnectionStatus = "CONNECTED" \/ Accident
    /\ pc = "returned" /\ rc = "ok" => mConnectionStatus = "CONNECTED" \/ Accident

LEMMA AccidentInit == Init => AccidentInv
  BY DEF Init, AccidentInv

LEMMA AccidentStep == AccidentInv /\ ShapeInv /\ [Next]_vars => AccidentInv'
<1> SUFFICES ASSUME AccidentInv, ShapeInv, [Next]_vars PROVE AccidentInv'
  OBVIOUS
<1> USE DEF AccidentInv, Accident
<1>1. CASE Main
  BY <1>1 DEF Main, agentVars
<1>2. CASE Start
  BY <1>2 DEF Start
<1>3. CASE OutOfMemory
  BY <1>3 DEF OutOfMemory, agentVars
<1>4. CASE Connect
  <2>1. UNCHANGED <<port, caller>> /\ pc' \in {"mqtt", "connect", "returned"}
        /\ (pc' = "returned" => rc' = "network")
    BY <1>4 DEF Connect, Again
  <2>2. QED
    BY <2>1
<1>5. CASE ConnectMqtt
  <2>1. UNCHANGED <<port, caller>> /\ pc' \in {"mqtt", "subscribe", "returned"}
        /\ (pc' = "returned" => rc' = "mqtt") /\ (pc' = "subscribe" => mConnectionStatus' = "CONNECTED")
    BY <1>5 DEF ConnectMqtt, Again
  <2>2. QED
    BY <2>1
<1>6. CASE Subscribe
  BY <1>6 DEF Subscribe, agentVars
<1>7. CASE Attribute
  BY <1>7 DEF Attribute, publishFrame, Publish, TooLong, Return, After
<1>8. CASE Telemetry
  BY <1>8 DEF Telemetry, publishFrame, Publish, TooLong, Return, After
<1>9. CASE ControlArrives
  BY <1>9 DEF ControlArrives, publishFrame, Publish, TooLong, Return, After
<1>10. CASE Acked \/ Expires
  <2>1. pc \in {"attribute", "telemetry", "yield"}
    BY <1>10 DEF Acked, Expires, ShapeInv
  <2>2. pc' \in {"returned", "yield", "destroy", pc} /\ UNCHANGED <<port, caller, rc, mConnectionStatus>>
    BY <1>10 DEF Acked, Expires, publishFrame, Return, After
  <2>3. QED
    BY <2>1, <2>2
<1>11. CASE StartReturns
  BY <1>11 DEF StartReturns, Fault
<1>12. CASE Loop
  BY <1>12 DEF Loop, agentVars
<1>13. CASE Yield \/ NullClient
  BY <1>13 DEF Yield, NullClient, agentVars
<1>14. CASE Reconnect \/ Destroy
  BY <1>14 DEF Reconnect, Destroy
<1>15. CASE LinkDies \/ UNCHANGED vars
  BY <1>15 DEF LinkDies, vars, agentVars
<1>16. QED
  BY <1>1, <1>2, <1>3, <1>4, <1>5, <1>6, <1>7, <1>8, <1>9, <1>10, <1>11, <1>12, <1>13, <1>14,
     <1>15 DEF Next, Device

\* MARun reconnects only on mbed, and only if start returns what it was never told to.
THEOREM ReconnectsByAccident == Spec => []ReconnectByAccident
<1>1. AccidentInv => ReconnectByAccident
  BY DEF AccidentInv, Accident, ReconnectByAccident
<1>2. Init => Flags
  BY Zenon DEF Init, Flags
<1>3. Flags /\ [Next]_vars => Flags'
  BY FlagsStay DEF Flags
<1>4. QED
  BY <1>1, <1>2, <1>3, AccidentInit, AccidentStep, ShapeInit, ShapeStep, PTL DEF Spec

-----------------------------------------------------------------------------
(* Failures nobody looks at. *)

\* The agent looks as if it had a session without having one.
Looks == ~isconnected /\ mConnectionStatus # "DISCONNECTED"

\* Wherever the session may have been dropped, the failure has been ignored, is about to
\* be (rc), or has set the status.
CauseInv ==
    /\ pc = "subscribe" => isconnected
    /\ calls # <<>> /\ ~isconnected => ignored # {}
    /\ pc = "attribute" /\ ~isconnected => rc = "subscribe" \/ ignored # {}
    /\ pc = "returned" /\ Looks => rc \notin {"ok", "mqtt"} \/ ignored # {}
    /\ pc \in {"loop", "telemetry", "yield"} /\ client /\ Looks => ignored # {}

LEMMA CauseInit == Init => CauseInv
<1> SUFFICES ASSUME Init PROVE CauseInv
  OBVIOUS
<1>1. calls = <<>> /\ pc \in {"main", "start"}
  BY DEF Init
<1>2. QED
  BY <1>1 DEF CauseInv

\* A publish that fails at once.
LEMMA PublishFails ==
    ASSUME NEW kind \in Publishes, Publish(kind), ~isconnected'
    PROVE  /\ calls' = calls /\ pc' = After(kind, FALSE)
           /\ kind # "telemetry" => ignored' # {}
           /\ ignored # {} => ignored' # {}
<1>1. calls' = calls /\ Return(kind, FALSE, {kind})
  <2>1. ~(isconnected /\ UNCHANGED <<pc, mStep, ignored, isconnected>>)
    <3>1. ~(isconnected /\ UNCHANGED isconnected)
      OBVIOUS
    <3>2. QED
      BY <3>1
  <2>2. ~TooLong(kind)
    <3>1. TooLong(kind) => isconnected /\ UNCHANGED isconnected
      BY DEF TooLong
    <3>2. QED
      BY <3>1
  <2>3. QED
    BY <2>1, <2>2 DEF Publish
<1>2. ignored' = ignored \cup ({kind} \ {"telemetry"})
  BY <1>1 DEF Return
<1>3. QED
  BY <1>1, <1>2 DEF Return

\* A publish that leaves the session there waits, or was too long and comes back.
LEMMA PublishKeeps ==
    ASSUME NEW kind \in Publishes, Publish(kind), isconnected'
    PROVE  /\ pc' = pc \/ (calls' = calls /\ pc' = After(kind, FALSE))
           /\ UNCHANGED ignored
<1>1. ~cleanSession
  BY DEF cleanSession
<1>2. CASE TooLong(kind)
  BY <1>2 DEF TooLong, Return
<1>3. CASE ~TooLong(kind)
  BY <1>1, <1>3 DEF Publish
<1>4. QED
  BY <1>2, <1>3

\* Publishes that expire: the outermost was a telemetry, or a failure has been ignored.
LEMMA ExpiredIsIgnored ==
    ASSUME ShapeInv, Expires
    PROVE  pc' = "destroy" \/ ignored' # {}
<1>1. calls # <<>> /\ Return(Last(calls), FALSE, Range(calls)) /\ calls \in Seq(Publishes)
  BY DEF Expires, ShapeInv
<1>2. Last(calls) \in Range(calls) /\ Last(calls) \in Publishes
  <2>1. Len(calls) \in DOMAIN calls /\ Last(calls) = calls[Len(calls)]
    BY <1>1 DEF Last
  <2>2. QED
    BY <1>1, <2>1 DEF Range
<1>3. CASE Last(calls) = "telemetry"
  BY <1>1, <1>3 DEF Return, After
<1>4. CASE Last(calls) # "telemetry"
  BY <1>1, <1>2, <1>4 DEF Return
<1>5. QED
  BY <1>3, <1>4

LEMMA CauseStep == CauseInv /\ ShapeInv /\ Flags /\ [Next]_vars => CauseInv'
<1> SUFFICES ASSUME CauseInv, ShapeInv, Flags, [Next]_vars PROVE CauseInv'
  OBVIOUS
\* Most steps neither publish nor return.
<1>a. CASE calls' = <<>> /\ pc' \notin {"subscribe", "attribute", "returned", "loop", "telemetry", "yield"}
  BY <1>a DEF CauseInv
<1>b. CASE calls' = <<>> /\ pc' \in {"returned", "attribute", "loop", "telemetry", "yield"} /\ ignored' # {}
  BY <1>b DEF CauseInv
<1>1. CASE Main
  BY <1>a, <1>1 DEF Main, ShapeInv
<1>2. CASE Start
  <2>1. calls' = <<>> /\ pc' \in {"connect", "returned"} /\ (pc' = "returned" => rc' = "setup")
    BY <1>2 DEF Start, ShapeInv
  <2>2. QED
    BY <2>1 DEF CauseInv
<1>3. CASE OutOfMemory
  BY <1>a, <1>3 DEF OutOfMemory, ShapeInv
<1>4. CASE Connect
  <2>1. calls' = <<>> /\ pc' \in {"mqtt", "connect", "returned"} /\ (pc' = "returned" => rc' = "network")
    BY <1>4 DEF Connect, Again, ShapeInv
  <2>2. QED
    BY <2>1 DEF CauseInv
<1>5. CASE ConnectMqtt
  <2>1. /\ calls' = <<>> /\ pc' \in {"mqtt", "subscribe", "returned"}
        /\ pc' = "returned" => mConnectionStatus' = "DISCONNECTED"
        /\ pc' = "subscribe" => isconnected'
    BY <1>5 DEF ConnectMqtt, Again, ShapeInv
  <2>2. QED
    BY <2>1 DEF CauseInv, Looks
<1>6. CASE Subscribe
  <2>1. pc = "subscribe" /\ pc' = "attribute" /\ calls' = <<>>
    BY <1>6 DEF Subscribe, ShapeInv
  <2>2. CASE rc' = "subscribe"
    BY <2>1, <2>2 DEF CauseInv
  <2>3. CASE rc' # "subscribe"
    <3>1. isconnected' = isconnected
      BY <1>6, <2>3, Zenon DEF Subscribe
    <3>2. QED
      BY <2>1, <3>1 DEF CauseInv
  <2>4. QED
    BY <2>2, <2>3
<1>7. CASE Attribute
  <2>1. pc = "attribute" /\ calls = <<>> /\ Publish("attribute") /\ UNCHANGED rc
    BY <1>7 DEF Attribute, publishFrame
  <2>2. CASE isconnected'
    <3>1. isconnected' /\ pc' \in {pc, "returned"}
      BY <2>1, <2>2, PublishKeeps DEF After, Publishes
    <3>2. QED
      BY <2>1, <3>1 DEF CauseInv, Looks
  <2>3. CASE ~isconnected'
    <3>1. calls' = <<>> /\ pc' = "returned" /\ ignored' # {}
      BY <2>1, <2>3, PublishFails DEF After, Publishes
    <3>2. QED
      BY <1>b, <3>1
  <2>4. QED
    BY <2>2, <2>3
<1>8. CASE Telemetry
  <2>1. pc = "telemetry" /\ calls = <<>> /\ Publish("telemetry")
    BY <1>8 DEF Telemetry
  <2>2. CASE isconnected'
    <3>1. isconnected' /\ pc' \in {pc, "destroy"}
      BY <2>1, <2>2, PublishKeeps DEF After, Publishes
    <3>2. QED
      BY <2>1, <3>1 DEF CauseInv, Looks
  <2>3. CASE ~isconnected'
    <3>1. calls' = <<>> /\ pc' = "destroy"
      BY <2>1, <2>3, PublishFails DEF After, Publishes
    <3>2. QED
      BY <1>a, <3>1
  <2>4. QED
    BY <2>2, <2>3
<1>9. CASE ControlArrives
  <2>1. Publish("reply") /\ pc \in {"attribute", "telemetry", "yield"} /\ isconnected
    BY <1>9 DEF ControlArrives, ShapeInv
  <2>2. CASE isconnected'
    <3>1. isconnected' /\ pc' = pc
      BY <2>1, <2>2, PublishKeeps DEF After, Publishes
    <3>2. QED
      BY <2>1, <3>1 DEF CauseInv, Looks
  <2>3. CASE ~isconnected'
    <3>1. pc' = pc /\ ignored' # {}
      BY <2>1, <2>3, PublishFails DEF After, Publishes
    <3>2. QED
      BY <2>1, <3>1 DEF CauseInv
  <2>4. QED
    BY <2>2, <2>3
<1>10. CASE Acked
  <2>1. calls # <<>> /\ pc' \in {"returned", "yield", pc} /\ pc \in {"attribute", "telemetry", "yield"}
    BY <1>10 DEF Acked, Return, After, ShapeInv
  <2>2. ignored' = ignored /\ isconnected' = isconnected /\ rc' = rc
    BY <1>10 DEF Acked, Return, publishFrame
  <2>3. QED
    BY <2>1, <2>2 DEF CauseInv, Looks
<1>11. CASE Expires
  <2>1. calls' = <<>> /\ pc' \in {"returned", "yield", "destroy", pc} /\ pc \in {"attribute", "telemetry", "yield"}
    BY <1>11 DEF Expires, Return, After, ShapeInv
  <2>2. QED
    BY <1>a, <1>b, <1>11, <2>1, ExpiredIsIgnored
<1>12. CASE StartReturns
  <2>1. pc = "returned" /\ calls' = <<>> /\ isconnected' = isconnected
        /\ UNCHANGED mConnectionStatus /\ ignored' = ignored \cup ({rc} \ {"ok", "mqtt"})
    BY <1>12, Zenon DEF StartReturns, clientVars
  <2>2. pc' \in {"loop", "yield", "destroy"}
    BY <1>12 DEF StartReturns
  <2>3. CASE Looks'
    <3>1. Looks
      BY <2>1, <2>3 DEF Looks
    <3>2. ignored' # {}
      BY <2>1, <3>1 DEF CauseInv
    <3>3. QED
      BY <1>a, <1>b, <2>1, <2>2, <3>2
  <2>4. CASE ~Looks'
    BY <2>1, <2>2, <2>4 DEF CauseInv
  <2>5. QED
    BY <2>3, <2>4
<1>13. CASE Loop \/ Yield \/ NullClient
  <2>1. pc \in {"loop", "telemetry", "yield"}
        /\ pc' \in {"loop", "telemetry", "yield", "reconnect", "destroy", "crashed"}
    BY <1>13 DEF Loop, Yield, NullClient
  <2>2. calls' = calls /\ client' = client /\ isconnected' = isconnected
        /\ UNCHANGED <<mConnectionStatus, ignored>>
    BY <1>13, Zenon DEF Loop, Yield, NullClient, clientVars, agentVars
  <2>3. QED
    BY <2>1, <2>2 DEF CauseInv, Looks
<1>14. CASE Reconnect \/ Destroy
  BY <1>a, <1>14 DEF Reconnect, Destroy, ShapeInv
<1>15. CASE LinkDies \/ UNCHANGED vars
  <2>1. calls' = calls /\ client' = client /\ isconnected' = isconnected
        /\ UNCHANGED <<pc, rc, mConnectionStatus, ignored>>
    BY <1>15, Zenon DEF LinkDies, vars, clientVars, agentVars
  <2>2. QED
    BY <2>1 DEF CauseInv, Looks
<1>16. QED
  BY <1>1, <1>2, <1>3, <1>4, <1>5, <1>6, <1>7, <1>8, <1>9, <1>10, <1>11, <1>12, <1>13, <1>14,
     <1>15 DEF Next, Device

\* MARun turns without a session only after a failure whose result it threw away.
THEOREM StrandingHasCause == Spec => []StrandedHasCause
<1>1. CauseInv => StrandedHasCause
  BY DEF CauseInv, Looks, StrandedHasCause, Stranded
<1>2. Init => Flags
  BY Zenon DEF Init, Flags
<1>3. Flags /\ [Next]_vars => Flags'
  BY FlagsStay DEF Flags
<1>4. QED
  BY <1>1, <1>2, <1>3, CauseInit, CauseStep, ShapeInit, ShapeStep, PTL DEF Spec

-----------------------------------------------------------------------------
(* Null pointers. *)

\* Without a client MARun is in its loop only after a failed set-up it did not look at.
NullInv ==
    /\ pc = "returned" /\ ~client => rc = "setup"
    /\ pc \in {"loop", "telemetry", "yield"} /\ ~client => "setup" \in ignored
    /\ CrashHasCause

LEMMA NullInit == Init => NullInv
<1> SUFFICES ASSUME Init PROVE NullInv
  OBVIOUS
<1>1. pc \in {"main", "start"}
  BY DEF Init
<1>2. QED
  BY <1>1 DEF NullInv, CrashHasCause

LEMMA NullStep == NullInv /\ ShapeInv /\ Flags /\ [Next]_vars => NullInv'
<1> SUFFICES ASSUME NullInv, ShapeInv, Flags, [Next]_vars PROVE NullInv'
  OBVIOUS
<1>a. CASE pc' \notin {"returned", "loop", "telemetry", "yield", "crashed"}
  BY <1>a DEF NullInv, CrashHasCause
\* With a client only a crash matters, and there is none.
<1>b. CASE client' /\ pc' # "crashed"
  BY <1>b DEF NullInv, CrashHasCause
<1>1. CASE Main
  BY <1>a, <1>1 DEF Main
<1>2. CASE Start
  <2>1. pc' \in {"connect", "returned"} /\ (pc' = "returned" => rc' = "setup")
    BY <1>2 DEF Start
  <2>2. QED
    BY <2>1 DEF NullInv, CrashHasCause
<1>3. CASE OutOfMemory
  BY <1>3 DEF OutOfMemory, NullInv, CrashHasCause
<1>4. CASE Connect \/ ConnectMqtt \/ Subscribe
  <2>1. client /\ client' = client
    BY <1>4, Zenon DEF Connect, ConnectMqtt, Subscribe, clientVars, ShapeInv
  <2>2. pc' # "crashed"
    BY <1>4 DEF Connect, ConnectMqtt, Subscribe, Again
  <2>3. QED
    BY <1>b, <2>1, <2>2
<1>5. CASE Attribute \/ Telemetry \/ ControlArrives
  <2>1. client
    BY <1>5 DEF Attribute, Telemetry, ControlArrives, ShapeInv
  <2>2. client' = client
    BY <1>5, Zenon DEF Attribute, Telemetry, ControlArrives, publishFrame
  <2>3. pc \in {"attribute", "telemetry", "yield"}
    BY <1>5 DEF Attribute, Telemetry, ControlArrives, ShapeInv
  <2>4. pc' # "crashed"
    BY <1>5, <2>3, PublishGoesOn DEF Attribute, Telemetry, ControlArrives, Publishes
  <2>5. QED
    BY <1>b, <2>1, <2>2, <2>4
<1>6. CASE Acked \/ Expires
  <2>1. client /\ pc \in {"attribute", "telemetry", "yield"}
    BY <1>6 DEF Acked, Expires, ShapeInv
  <2>2. client' = client
    BY <1>6, Zenon DEF Acked, Expires, publishFrame
  <2>3. pc' # "crashed"
    BY <1>6, <2>1 DEF Acked, Expires, Return, After
  <2>4. QED
    BY <1>b, <2>1, <2>2, <2>3
<1>7. CASE StartReturns
  <2>1. client' = client /\ pc = "returned" /\ ignored' = ignored \cup ({rc} \ {"ok", "mqtt"})
    BY <1>7, Zenon DEF StartReturns, clientVars
  <2>2. pc' # "crashed" /\ pc' # "returned"
    BY <1>7 DEF StartReturns
  <2>3. QED
    BY <2>1, <2>2 DEF NullInv, CrashHasCause
<1>8. CASE Loop \/ Yield \/ NullClient
  <2>1. /\ pc \in {"loop", "telemetry", "yield"} /\ client' = client
        /\ UNCHANGED <<ignored, leaked>>
    BY <1>8, Zenon DEF Loop, Yield, NullClient, clientVars, agentVars
  <2>2. pc' # "returned" /\ (pc' = "crashed" => ~client)
    BY <1>8 DEF Loop, Yield, NullClient
  <2>3. QED
    BY <2>1, <2>2 DEF NullInv, CrashHasCause
<1>9. CASE Reconnect \/ Destroy
  BY <1>a, <1>9 DEF Reconnect, Destroy
<1>10. CASE LinkDies \/ UNCHANGED vars
  <2>1. client' = client /\ UNCHANGED <<pc, rc, ignored, leaked>>
    BY <1>10, Zenon DEF LinkDies, vars, clientVars, agentVars
  <2>2. QED
    BY <2>1 DEF NullInv, CrashHasCause
<1>11. QED
  BY <1>1, <1>2, <1>3, <1>4, <1>5, <1>6, <1>7, <1>8, <1>9, <1>10 DEF Next, Device

\* A null pointer is used only when the heap is full, or without the client a failed
\* set-up did not make and nobody missed.
THEOREM CrashesHaveCause == Spec => []CrashHasCause
<1>1. NullInv => CrashHasCause
  BY DEF NullInv
<1>2. Init => Flags
  BY Zenon DEF Init, Flags
<1>3. Flags /\ [Next]_vars => Flags'
  BY FlagsStay DEF Flags
<1>4. QED
  BY <1>1, <1>2, <1>3, NullInit, NullStep, ShapeInit, ShapeStep, PTL DEF Spec
=============================================================================
