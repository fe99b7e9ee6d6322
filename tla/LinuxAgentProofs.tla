-------------------------- MODULE LinuxAgentProofs --------------------------
EXTENDS LinuxAgent, TLAPS

\* While the callback thread is inside a callback, what the callback is fixes
\* the client's state, its subscription and mConnectionStatus.
CallbackInv ==
    LET In(cs, subs, status) == /\ client[mClient] = cs
                                /\ subscription[mClient] \in subs
                                /\ mConnectionStatus = status
    IN  /\ cbPc # "idle" => mClient # NULL
        /\ cbPc = "onConnect" => In("connected", {"none"}, "CONNECTING")
        /\ cbPc \in {"subscribe", "destroy"} => In("connected", {"none"}, "CONNECTED")
        /\ cbPc = "destroy" => "subscribe" \in SyncErrors
        /\ cbPc = "onConnectFailure" => In("closed", {"none"}, "CONNECTING")
        /\ cbPc = "onSubscribe" => In("connected", {"granted", "refused"}, "CONNECTED")
        /\ cbPc \in {"onSubscribeLost", "onConnectionLost"} => In("closed", {"none"}, "CONNECTED")
        /\ cbPc = "reply" => In("connected", {"pending", "granted"}, "CONNECTED")

\* Where the main thread is inside start() and before it.
MainInv ==
    /\ mainPc \in {"start", "destroy"} => mConnectionStatus = "DISCONNECTED"
    /\ mainPc = "create" => mConnectionStatus = "CONNECTING"
    /\ mainPc \in {"connect", "abort"} => mClient # NULL /\ client[mClient] = "created"
    /\ mClient # NULL =>
          /\ client[mClient] = "created" => mainPc \in {"connect", "abort"}
          /\ client[mClient] # "connected" => subscription[mClient] = "none"
    /\ \A h \in Handles : client[h] = "free" => subscription[h] = "none"

\* The inductive invariant for every value of the constants.
IInv == TypeOK /\ OneClient /\ StatusTracksClient /\ RestartRunsAlone /\ ReplyIsTruthful
          /\ CallbackInv /\ MainInv

\* The main thread's argument is mClient, unless OnConnect destroyed the client
\* between two steps of the main thread; nothing can happen to the agent after that.
ArgInv ==
    /\ cbPc = "destroy" => "subscribe" \in failed
    /\ mainPc \in {"isConnected", "publish"} =>
          \/ mClient # NULL /\ mainArg = mClient
          \/ "subscribe" \in failed /\ mClient = NULL /\ mConnectionStatus = "CONNECTED"

\* The LED and the platform's idea of it: Off until a colour is accepted, and what
\* was reported once the SUBACK has come, except for a colour that overtook it.
LedInv ==
    /\ mainPc \in {"create", "connect", "abort"} => ledStatus = Off
    /\ mClient # NULL =>
          /\ client[mClient] \in {"created", "connecting"} => ledStatus = Off
          /\ client[mClient] = "connected" /\ subscription[mClient] \in {"none", "pending"}
                => overtaken \/ ledStatus = Off
          /\ cbPc = "onSubscribe" => overtaken \/ ledStatus = Off
          /\ cbPc \notin {"onSubscribe", "reply"}
                /\ subscription[mClient] \in {"granted", "refused"}
                => overtaken \/ reported = ledStatus
    /\ cbPc = "reply" /\ reply.value = NoColor /\ subscription[mClient] = "granted"
          => overtaken \/ reported = ledStatus
-----------------------------------------------------------------------------
\* An update keeps a function's type even at a point outside its domain.
LEMMA ExceptType ==
    ASSUME NEW S, NEW T, NEW f \in [S -> T], NEW x, NEW v \in T
    PROVE  [f EXCEPT ![x] = v] \in [S -> T]
  BY Zenon

\* Every step keeps the variables within their types.
LEMMA TypeStep == TypeOK /\ [Next]_vars => TypeOK'
<1> SUFFICES ASSUME TypeOK, [Next]_vars PROVE TypeOK'
  OBVIOUS
<1> USE HandlesAssumption, ColorsAssumption
    DEF TypeOK, PahoTypeOK, ClientStates, SubscriptionStates, Statuses, Steps, MainPcs,
        CbPcs, Values, Replies, NoReply, pahoVars, agentVars, histVars, vars
<1>1. CASE Start
  BY <1>1 DEF Start, RGB_LEDControl
<1>2. CASE Create
  BY <1>2 DEF Create, MQTTAsync_create
<1>3. CASE Connect
  <2>1. client' \in [Handles -> ClientStates]
    BY <1>3, ExceptType DEF Connect, MQTTAsync_connect
  <2>2. QED
    BY <1>3, <2>1 DEF Connect, MQTTAsync_connect
<1>4. CASE ConnectError
  BY <1>4 DEF ConnectError
<1>5. CASE Abort
  BY <1>5 DEF Abort, MQTTAsyncDestroy, MQTTAsync_destroy
<1>6. CASE Loop
  BY <1>6 DEF Loop
<1>7. CASE IsConnected
  BY <1>7 DEF IsConnected
<1>8. CASE ReadStep
  BY <1>8 DEF ReadStep
<1>9. CASE Telemetry
  BY <1>9 DEF Telemetry
<1>10. CASE PublishTelemetry
  BY <1>10 DEF PublishTelemetry
<1>11. CASE ReadStatus
  BY <1>11 DEF ReadStatus
<1>12. CASE Destroy
  BY <1>12 DEF Destroy, MQTTAsyncDestroy, MQTTAsync_destroy
<1>13. CASE OnConnect
  BY <1>13 DEF OnConnect
<1>14. CASE Subscribe
  <2>1. subscription' \in [Handles -> SubscriptionStates]
    BY <1>14, ExceptType DEF Subscribe, MQTTAsync_subscribeMany
  <2>2. QED
    BY <1>14, <2>1 DEF Subscribe, MQTTAsync_subscribeMany
<1>15. CASE SubscribeError
  BY <1>15 DEF SubscribeError
<1>16. CASE OnConnectDestroy
  BY <1>16 DEF OnConnectDestroy, MQTTAsyncDestroy, MQTTAsync_destroy
<1>17. CASE OnConnectFailure
  BY <1>17 DEF OnConnectFailure
<1>18. CASE OnSubscribe
  BY <1>18 DEF OnSubscribe, PublishLed
<1>19. CASE OnConnectionLost
  BY <1>19 DEF OnConnectionLost
<1>20. CASE PublishReply
  BY <1>20 DEF PublishReply, PublishLed
<1>21. ASSUME NEW h \in Handles, ConnectSucceeds(h)
      PROVE  TypeOK'
  BY <1>21 DEF ConnectSucceeds, SessionOpens
<1>22. ASSUME NEW h \in Handles, ConnectFails(h)
      PROVE  TypeOK'
  BY <1>22 DEF ConnectFails, SessionRefused
<1>23. ASSUME NEW h \in Handles, NEW answer \in {"granted", "refused"}, SubAck(h, answer)
      PROVE  TypeOK'
  BY <1>23 DEF SubAck, SubscriptionAnswered
<1>24. ASSUME NEW h \in Handles, ConnectionDrops(h)
      PROVE  TypeOK'
  BY <1>24 DEF ConnectionDrops, SessionDrops
<1>25. ASSUME NEW h \in Handles, OtherProcedure(h)
      PROVE  TypeOK'
  BY <1>25 DEF OtherProcedure, MayDeliver
<1>26. ASSUME NEW h \in Handles, NEW color \in Values, UserControl(h, color)
      PROVE  TypeOK'
  BY <1>26 DEF UserControl, MayDeliver, Overtaken, RGB_LEDControl
<1>27. ASSUME NEW h \in Handles, NEW color \in Values, SetAttribute(h, color)
      PROVE  TypeOK'
  BY <1>27 DEF SetAttribute, MayDeliver, Overtaken, RGB_LEDControl
<1>28. CASE UNCHANGED vars
  BY <1>28
<1>29. QED
  BY <1>1, <1>2, <1>3, <1>4, <1>5, <1>6, <1>7, <1>8, <1>9, <1>10, <1>11, <1>12, <1>13,
     <1>14, <1>15, <1>16, <1>17, <1>18, <1>19, <1>20, <1>21, <1>22, <1>23, <1>24, <1>25,
     <1>26, <1>27, <1>28
     DEF Next, MainStep, CallbackStep, Network

LEMMA TypeInit == Init => TypeOK
<1> SUFFICES ASSUME Init PROVE TypeOK
  OBVIOUS
<1>1. failed \subseteq SyncErrors /\ overtaken \in BOOLEAN
  BY Zenon DEF Init
<1>2. QED
  BY <1>1, ColorsAssumption
     DEF Init, PahoInit, TypeOK, PahoTypeOK, ClientStates, SubscriptionStates, Statuses,
         Steps, MainPcs, CbPcs, Values, Replies, NoReply

\* TypeOK: the variables of the agent and of the library keep their types for
\* any set of handles and colours and for any of the failures and orders allowed.
THEOREM TypeCorrect == Spec => []TypeOK
<1>1. QED
  BY TypeInit, TypeStep, PTL DEF Spec

-----------------------------------------------------------------------------
\* The main lemma: each step of either thread, and each event of the network,
\* re-establishes the invariant.  A step of the main thread that calls Paho finds
\* no callback running (Unlocked); a step of a callback finds the state that
\* CallbackInv records for it, whatever the main thread did meanwhile.
LEMMA IInvStep == IInv /\ [Next]_vars => IInv'
<1> SUFFICES ASSUME IInv, [Next]_vars PROVE IInv'
  OBVIOUS
<1> TypeOK'
  BY TypeStep DEF IInv
<1> USE HandlesAssumption, ColorsAssumption
    DEF TypeOK, PahoTypeOK, ClientStates, SubscriptionStates, Statuses, Steps, MainPcs,
        CbPcs, Values, Replies, NoReply, pahoVars, agentVars, histVars, vars, Unlocked, IInv,
        OneClient, StatusTracksClient, StatusOf, RestartRunsAlone, ReplyIsTruthful,
        CallbackInv, MainInv
<1>1. CASE Start
  BY <1>1 DEF Start, RGB_LEDControl
<1>2. CASE Create
  BY <1>2 DEF Create, MQTTAsync_create
<1>3. CASE Connect
  BY <1>3 DEF Connect, MQTTAsync_connect
<1>4. CASE ConnectError
  BY <1>4 DEF ConnectError
<1>5. CASE Abort
  BY <1>5 DEF Abort, MQTTAsyncDestroy, MQTTAsync_destroy
<1>6. CASE Loop
  BY <1>6 DEF Loop
<1>7. CASE IsConnected
  BY <1>7 DEF IsConnected
<1>8. CASE ReadStep
  BY <1>8 DEF ReadStep
<1>9. CASE Telemetry
  BY <1>9 DEF Telemetry
<1>10. CASE PublishTelemetry
  BY <1>10 DEF PublishTelemetry
<1>11. CASE ReadStatus
  BY <1>11 DEF ReadStatus
<1>12. CASE Destroy
  BY <1>12 DEF Destroy, MQTTAsyncDestroy, MQTTAsync_destroy
<1>13. CASE OnConnect
  BY <1>13 DEF OnConnect
<1>14. CASE Subscribe
  BY <1>14 DEF Subscribe, MQTTAsync_subscribeMany
<1>15. CASE SubscribeError
  BY <1>15 DEF SubscribeError
<1>16. CASE OnConnectDestroy
  BY <1>16 DEF OnConnectDestroy, MQTTAsyncDestroy, MQTTAsync_destroy
<1>17. CASE OnConnectFailure
  BY <1>17 DEF OnConnectFailure
<1>18. CASE OnSubscribe
  BY <1>18 DEF OnSubscribe, PublishLed
<1>19. CASE OnConnectionLost
  BY <1>19 DEF OnConnectionLost
<1>20. CASE PublishReply
  BY <1>20 DEF PublishReply, PublishLed
<1>21. ASSUME NEW h \in Handles, ConnectSucceeds(h)
      PROVE  IInv'
  BY <1>21 DEF ConnectSucceeds, SessionOpens
<1>22. ASSUME NEW h \in Handles, ConnectFails(h)
      PROVE  IInv'
  BY <1>22 DEF ConnectFails, SessionRefused
<1>23. ASSUME NEW h \in Handles, NEW answer \in {"granted", "refused"}, SubAck(h, answer)
      PROVE  IInv'
  BY <1>23 DEF SubAck, SubscriptionAnswered
<1>24. ASSUME NEW h \in Handles, ConnectionDrops(h)
      PROVE  IInv'
  BY <1>24 DEF ConnectionDrops, SessionDrops
<1>25. ASSUME NEW h \in Handles, OtherProcedure(h)
      PROVE  IInv'
  BY <1>25 DEF OtherProcedure, MayDeliver
<1>26. ASSUME NEW h \in Handles, NEW color \in Values, UserControl(h, color)
      PROVE  IInv'
  BY <1>26 DEF UserControl, MayDeliver, Overtaken, RGB_LEDControl
<1>27. ASSUME NEW h \in Handles, NEW color \in Values, SetAttribute(h, color)
      PROVE  IInv'
  BY <1>27 DEF SetAttribute, MayDeliver, Overtaken, RGB_LEDControl
<1>28. CASE UNCHANGED vars
  BY <1>28
<1> HIDE DEF IInv, vars
<1>29. QED
  BY <1>1, <1>2, <1>3, <1>4, <1>5, <1>6, <1>7, <1>8, <1>9, <1>10, <1>11, <1>12, <1>13,
     <1>14, <1>15, <1>16, <1>17, <1>18, <1>19, <1>20, <1>21, <1>22, <1>23, <1>24, <1>25,
     <1>26, <1>27, <1>28
     DEF Next, MainStep, CallbackStep, Network

LEMMA IInvAlways == Spec => []IInv
<1>1. Init => IInv
  BY TypeInit, HandlesAssumption
     DEF Init, PahoInit, NoReply, Unlocked, IInv, OneClient, StatusTracksClient,
         RestartRunsAlone, ReplyIsTruthful,
        CallbackInv, MainInv
<1>2. QED
  BY <1>1, IInvStep, PTL DEF Spec

\* OneClient: no behaviour of the agent ever owns a Paho client besides mClient,
\* with any failures, so reconnecting forever leaks none.
THEOREM NoClientLeaks == Spec => []OneClient
<1>1. IInv => OneClient
  BY DEF IInv
<1>2. QED
  BY <1>1, IInvAlways, PTL

\* StatusTracksClient: the unlocked mConnectionStatus agrees with the library
\* whenever no callback runs.
THEOREM StatusIsTrue == Spec => []StatusTracksClient
<1>1. IInv => StatusTracksClient
  BY DEF IInv
<1>2. QED
  BY <1>1, IInvAlways, PTL

\* RestartRunsAlone: a restart never overlaps a callback nor a living session.
THEOREM RestartIsExclusive == Spec => []RestartRunsAlone
<1>1. IInv => RestartRunsAlone
  BY DEF IInv
<1>2. QED
  BY <1>1, IInvAlways, PTL

\* ReplyIsTruthful: what a control message is answered is what the LED shows.
THEOREM RepliesAreTruthful == Spec => []ReplyIsTruthful
<1>1. IInv => ReplyIsTruthful
  BY DEF IInv
<1>2. QED
  BY <1>1, IInvAlways, PTL

-----------------------------------------------------------------------------
LEMMA ArgInvStep == IInv /\ ArgInv /\ [Next]_vars => ArgInv'
<1> SUFFICES ASSUME IInv, ArgInv, [Next]_vars PROVE ArgInv'
  OBVIOUS
<1> USE HandlesAssumption, ColorsAssumption
    DEF ArgInv, TypeOK, MainPcs, CbPcs, pahoVars, agentVars, histVars, vars, Unlocked, IInv,
        OneClient, RestartRunsAlone, CallbackInv, MainInv
<1>1. CASE Start
  BY <1>1 DEF Start, RGB_LEDControl
<1>2. CASE Create
  BY <1>2 DEF Create, MQTTAsync_create
<1>3. CASE Connect
  BY <1>3 DEF Connect, MQTTAsync_connect
<1>4. CASE ConnectError
  BY <1>4 DEF ConnectError
<1>5. CASE Abort
  BY <1>5 DEF Abort, MQTTAsyncDestroy, MQTTAsync_destroy
<1>6. CASE Loop
  BY <1>6 DEF Loop
<1>7. CASE IsConnected
  BY <1>7 DEF IsConnected
<1>8. CASE ReadStep
  BY <1>8 DEF ReadStep
<1>9. CASE Telemetry
  BY <1>9 DEF Telemetry
<1>10. CASE PublishTelemetry
  BY <1>10 DEF PublishTelemetry
<1>11. CASE ReadStatus
  BY <1>11 DEF ReadStatus
<1>12. CASE Destroy
  BY <1>12 DEF Destroy, MQTTAsyncDestroy, MQTTAsync_destroy
<1>13. CASE OnConnect
  BY <1>13 DEF OnConnect
<1>14. CASE Subscribe
  BY <1>14 DEF Subscribe, MQTTAsync_subscribeMany
<1>15. CASE SubscribeError
  BY <1>15 DEF SubscribeError
<1>16. CASE OnConnectDestroy
  BY <1>16 DEF OnConnectDestroy, MQTTAsyncDestroy, MQTTAsync_destroy
<1>17. CASE OnConnectFailure
  BY <1>17 DEF OnConnectFailure
<1>18. CASE OnSubscribe
  BY <1>18 DEF OnSubscribe, PublishLed
<1>19. CASE OnConnectionLost
  BY <1>19 DEF OnConnectionLost
<1>20. CASE PublishReply
  BY <1>20 DEF PublishReply, PublishLed
<1>21. ASSUME NEW h \in Handles, ConnectSucceeds(h)
      PROVE  ArgInv'
  BY <1>21 DEF ConnectSucceeds, SessionOpens
<1>22. ASSUME NEW h \in Handles, ConnectFails(h)
      PROVE  ArgInv'
  BY <1>22 DEF ConnectFails, SessionRefused
<1>23. ASSUME NEW h \in Handles, NEW answer \in {"granted", "refused"}, SubAck(h, answer)
      PROVE  ArgInv'
  BY <1>23 DEF SubAck, SubscriptionAnswered
<1>24. ASSUME NEW h \in Handles, ConnectionDrops(h)
      PROVE  ArgInv'
  BY <1>24 DEF ConnectionDrops, SessionDrops
<1>25. ASSUME NEW h \in Handles, OtherProcedure(h)
      PROVE  ArgInv'
  BY <1>25 DEF OtherProcedure, MayDeliver
<1>26. ASSUME NEW h \in Handles, NEW color \in Values, UserControl(h, color)
      PROVE  ArgInv'
  BY <1>26 DEF UserControl, MayDeliver, Overtaken, RGB_LEDControl
<1>27. ASSUME NEW h \in Handles, NEW color \in Values, SetAttribute(h, color)
      PROVE  ArgInv'
  BY <1>27 DEF SetAttribute, MayDeliver, Overtaken, RGB_LEDControl
<1>28. CASE UNCHANGED vars
  BY <1>28
<1> HIDE DEF IInv, ArgInv, vars
<1>29. QED
  BY <1>1, <1>2, <1>3, <1>4, <1>5, <1>6, <1>7, <1>8, <1>9, <1>10, <1>11, <1>12, <1>13,
     <1>14, <1>15, <1>16, <1>17, <1>18, <1>19, <1>20, <1>21, <1>22, <1>23, <1>24, <1>25,
     <1>26, <1>27, <1>28
     DEF Next, MainStep, CallbackStep, Network

\* UseAfterDestroyHasCause: whatever fails and however the threads interleave, a
\* destroyed client is handed to the library only after subscribeMany failed at once
\* in the OnConnect of the present attempt.
THEOREM UseAfterDestroyIsExplained == Spec => []UseAfterDestroyHasCause
<1>1. Init => ArgInv
  BY DEF Init, ArgInv
<1>2. IInv /\ ArgInv => UseAfterDestroyHasCause
  BY DEF IInv, ArgInv, UseAfterDestroyHasCause, OneClient
<1>3. QED
  BY <1>1, <1>2, IInvAlways, ArgInvStep, PTL DEF Spec

-----------------------------------------------------------------------------
LEMMA LedInvStep == IInv /\ LedInv /\ [Next]_vars => LedInv'
<1> SUFFICES ASSUME IInv, LedInv, [Next]_vars PROVE LedInv'
  OBVIOUS
<1> USE HandlesAssumption, ColorsAssumption
    DEF LedInv, TypeOK, PahoTypeOK, ClientStates, SubscriptionStates, Statuses, Steps, MainPcs,
        CbPcs, Values, Replies, NoReply, pahoVars, agentVars, histVars, vars, Unlocked, IInv,
        OneClient, StatusTracksClient, StatusOf, RestartRunsAlone, ReplyIsTruthful,
        CallbackInv, MainInv
<1>1. CASE Start
  BY <1>1 DEF Start, RGB_LEDControl
<1>2. CASE Create
  BY <1>2 DEF Create, MQTTAsync_create
<1>3. CASE Connect
  BY <1>3 DEF Connect, MQTTAsync_connect
<1>4. CASE ConnectError
  BY <1>4 DEF ConnectError
<1>5. CASE Abort
  BY <1>5 DEF Abort, MQTTAsyncDestroy, MQTTAsync_destroy
<1>6. CASE Loop
  BY <1>6 DEF Loop
<1>7. CASE IsConnected
  BY <1>7 DEF IsConnected
<1>8. CASE ReadStep
  BY <1>8 DEF ReadStep
<1>9. CASE Telemetry
  BY <1>9 DEF Telemetry
<1>10. CASE PublishTelemetry
  BY <1>10 DEF PublishTelemetry
<1>11. CASE ReadStatus
  BY <1>11 DEF ReadStatus
<1>12. CASE Destroy
  BY <1>12 DEF Destroy, MQTTAsyncDestroy, MQTTAsync_destroy
<1>13. CASE OnConnect
  BY <1>13 DEF OnConnect
<1>14. CASE Subscribe
  BY <1>14 DEF Subscribe, MQTTAsync_subscribeMany
<1>15. CASE SubscribeError
  BY <1>15 DEF SubscribeError
<1>16. CASE OnConnectDestroy
  BY <1>16 DEF OnConnectDestroy, MQTTAsyncDestroy, MQTTAsync_destroy
<1>17. CASE OnConnectFailure
  BY <1>17 DEF OnConnectFailure
<1>18. CASE OnSubscribe
  BY <1>18 DEF OnSubscribe, PublishLed
<1>19. CASE OnConnectionLost
  BY <1>19 DEF OnConnectionLost
<1>20. CASE PublishReply
  BY <1>20 DEF PublishReply, PublishLed
<1>21. ASSUME NEW h \in Handles, ConnectSucceeds(h)
      PROVE  LedInv'
  BY <1>21 DEF ConnectSucceeds, SessionOpens
<1>22. ASSUME NEW h \in Handles, ConnectFails(h)
      PROVE  LedInv'
  BY <1>22 DEF ConnectFails, SessionRefused
<1>23. ASSUME NEW h \in Handles, NEW answer \in {"granted", "refused"}, SubAck(h, answer)
      PROVE  LedInv'
  BY <1>23 DEF SubAck, SubscriptionAnswered
<1>24. ASSUME NEW h \in Handles, ConnectionDrops(h)
      PROVE  LedInv'
  BY <1>24 DEF ConnectionDrops, SessionDrops
<1>25. ASSUME NEW h \in Handles, OtherProcedure(h)
      PROVE  LedInv'
  BY <1>25 DEF OtherProcedure, MayDeliver
<1>26. ASSUME NEW h \in Handles, NEW color \in Values, UserControl(h, color)
      PROVE  LedInv'
  BY <1>26 DEF UserControl, MayDeliver, Overtaken, RGB_LEDControl
<1>27. ASSUME NEW h \in Handles, NEW color \in Values, SetAttribute(h, color)
      PROVE  LedInv'
  BY <1>27 DEF SetAttribute, MayDeliver, Overtaken, RGB_LEDControl
<1>28. CASE UNCHANGED vars
  BY <1>28
<1> HIDE DEF IInv, LedInv, vars
<1>29. QED
  BY <1>1, <1>2, <1>3, <1>4, <1>5, <1>6, <1>7, <1>8, <1>9, <1>10, <1>11, <1>12, <1>13,
     <1>14, <1>15, <1>16, <1>17, <1>18, <1>19, <1>20, <1>21, <1>22, <1>23, <1>24, <1>25,
     <1>26, <1>27, <1>28
     DEF Next, MainStep, CallbackStep, Network

\* PlatformInSync: once the attributes of a session are announced the platform's idea
\* of the LED is right, except for a colour accepted before the SUBACK.
THEOREM PlatformStaysInSync == Spec => []PlatformInSync
<1>1. Init => LedInv
  BY HandlesAssumption DEF Init, LedInv
<1>2. IInv /\ LedInv => PlatformInSync
  BY DEF IInv, LedInv, PlatformInSync, Unlocked
<1>3. QED
  BY <1>1, <1>2, IInvAlways, LedInvStep, PTL DEF Spec

-----------------------------------------------------------------------------
\* Every step of LinuxAgent is a step of AgentSession or leaves its variables alone.
LEMMA SessionStep ==
    IInv /\ [Next]_vars => [Session!Next]_(Session!sessionVars)
<1> SUFFICES ASSUME IInv, [Next]_vars
             PROVE  [Session!Next]_(Session!sessionVars)
  OBVIOUS
<1> TypeOK'
  BY TypeStep DEF IInv
<1> USE HandlesAssumption, ColorsAssumption
    DEF Session!Next, Session!sessionVars, Session!Attempt, Session!Resolve, Session!Lose,
        Session!Control, Session!Report, Session!Announce, Announced, TypeOK,
        PahoTypeOK, CbPcs, Values, Replies, NoReply, pahoVars, agentVars, histVars, vars,
        Unlocked, IInv, OneClient, StatusTracksClient, StatusOf, RestartRunsAlone, ReplyIsTruthful,
        CallbackInv, MainInv
<1>1. CASE Start
  BY <1>1 DEF Start, RGB_LEDControl
<1>2. CASE Create
  BY <1>2 DEF Create, MQTTAsync_create
<1>3. CASE Connect
  BY <1>3 DEF Connect, MQTTAsync_connect
<1>4. CASE ConnectError
  BY <1>4 DEF ConnectError
<1>5. CASE Abort
  BY <1>5 DEF Abort, MQTTAsyncDestroy, MQTTAsync_destroy
<1>6. CASE Loop
  BY <1>6 DEF Loop
<1>7. CASE IsConnected
  BY <1>7 DEF IsConnected
<1>8. CASE ReadStep
  BY <1>8 DEF ReadStep
<1>9. CASE Telemetry
  BY <1>9 DEF Telemetry
<1>10. CASE PublishTelemetry
  BY <1>10 DEF PublishTelemetry
<1>11. CASE ReadStatus
  BY <1>11 DEF ReadStatus
<1>12. CASE Destroy
  BY <1>12 DEF Destroy, MQTTAsyncDestroy, MQTTAsync_destroy
<1>13. CASE OnConnect
  BY <1>13 DEF OnConnect
<1>14. CASE Subscribe
  BY <1>14 DEF Subscribe, MQTTAsync_subscribeMany
<1>15. CASE SubscribeError
  BY <1>15 DEF SubscribeError
<1>16. CASE OnConnectDestroy
  BY <1>16 DEF OnConnectDestroy, MQTTAsyncDestroy, MQTTAsync_destroy
<1>17. CASE OnConnectFailure
  BY <1>17 DEF OnConnectFailure
<1>18. CASE OnSubscribe
  BY <1>18 DEF OnSubscribe, PublishLed
<1>19. CASE OnConnectionLost
  BY <1>19 DEF OnConnectionLost
<1>20. CASE PublishReply
  BY <1>20 DEF PublishReply, PublishLed
<1>21. ASSUME NEW h \in Handles, ConnectSucceeds(h)
      PROVE  [Session!Next]_(Session!sessionVars)
  BY <1>21 DEF ConnectSucceeds, SessionOpens
<1>22. ASSUME NEW h \in Handles, ConnectFails(h)
      PROVE  [Session!Next]_(Session!sessionVars)
  BY <1>22 DEF ConnectFails, SessionRefused
<1>23. ASSUME NEW h \in Handles, NEW answer \in {"granted", "refused"}, SubAck(h, answer)
      PROVE  [Session!Next]_(Session!sessionVars)
  BY <1>23 DEF SubAck, SubscriptionAnswered
<1>24. ASSUME NEW h \in Handles, ConnectionDrops(h)
      PROVE  [Session!Next]_(Session!sessionVars)
  BY <1>24 DEF ConnectionDrops, SessionDrops
<1>25. ASSUME NEW h \in Handles, OtherProcedure(h)
      PROVE  [Session!Next]_(Session!sessionVars)
  BY <1>25 DEF OtherProcedure, MayDeliver
<1>26. ASSUME NEW h \in Handles, NEW color \in Values, UserControl(h, color)
      PROVE  [Session!Next]_(Session!sessionVars)
  BY <1>26 DEF UserControl, MayDeliver, RGB_LEDControl
<1>27. ASSUME NEW h \in Handles, NEW color \in Values, SetAttribute(h, color)
      PROVE  [Session!Next]_(Session!sessionVars)
  BY <1>27 DEF SetAttribute, MayDeliver, RGB_LEDControl
<1>28. CASE UNCHANGED vars
  BY <1>28
<1> HIDE DEF IInv, vars, Session!Next, Session!sessionVars
<1>29. QED
  BY <1>1, <1>2, <1>3, <1>4, <1>5, <1>6, <1>7, <1>8, <1>9, <1>10, <1>11, <1>12, <1>13,
     <1>14, <1>15, <1>16, <1>17, <1>18, <1>19, <1>20, <1>21, <1>22, <1>23, <1>24, <1>25,
     <1>26, <1>27, <1>28
     DEF Next, MainStep, CallbackStep, Network

\* SessionContract: the two threads together implement the agent's contract.
THEOREM AgentKeepsContract == Spec => SessionContract
<1>1. Init => Session!Init
  BY DEF Init, Announced, Session!Init
<1>2. QED
  BY <1>1, IInvAlways, SessionStep, PTL DEF Spec, SessionContract, Session!Spec
=============================================================================
