----------------------------- MODULE LinuxAgent -----------------------------
(***************************************************************************)
(* The ThingPlug agent of the Linux port: middleware/MA/MA.c and its MQTT  *)
(* glue src/net/MQTTClient.c on top of the Paho asynchronous client.       *)
(*                                                                         *)
(* Two threads share mConnectionStatus, mStep, mClient and ledStatus with  *)
(* no lock of their own:                                                   *)
(*   - the main thread runs MARun: start, then a polling loop;             *)
(*   - Paho's thread runs the callbacks, one at a time, and holds Paho's   *)
(*     mutex from the event to the return of the callback.                 *)
(* A Paho call of the main thread therefore waits until no callback runs   *)
(* (Unlocked); plain reads and writes of the shared variables do not.      *)
(***************************************************************************)
EXTENDS PahoAsync

CONSTANTS Colors,       \* the values RGB_LEDControl accepts (0..7 in SMA.c)
          Off,          \* colour 0
          NoColor,      \* stands for any other value, and for "none yet"
          SyncErrors    \* the calls that may fail before they return

ASSUME ColorsAssumption == Off \in Colors /\ NoColor \notin Colors
ASSUME SyncErrorsAssumption == SyncErrors \subseteq {"connect", "subscribe"}

VARIABLES mConnectionStatus, mStep, mClient, ledStatus,
          mainPc,    \* where the main thread is in MARun and what it calls
          mainArg,   \* the handle the main thread passes to the library
          cbPc,      \* where the callback thread is; "idle" when Paho is unlocked
          reply,     \* the answer MQTTMessageArrived is about to publish
          reported,  \* the LED value last accepted for publication
          failed,    \* history: the calls of this attempt that failed at once
          overtaken  \* history: the last colour accepted in this session came
                     \* before its SUBACK

agentVars == <<mConnectionStatus, mStep, mClient, ledStatus, reply, reported>>
vars == <<client, subscription, mConnectionStatus, mStep, mClient, ledStatus,
          mainPc, mainArg, cbPc, reply, reported, failed, overtaken>>
histVars == <<failed, overtaken>>

Statuses == {"DISCONNECTED", "CONNECTING", "CONNECTED"}
Steps == {"PROCESS_START", "PROCESS_ATTRIBUTE", "PROCESS_TELEMETRY", "PROCESS_END"}
MainPcs == {"start", "create", "connect", "abort", "loop", "isConnected", "readStep",
            "telemetry", "publish", "readStatus", "destroy"}
CbPcs == {"idle", "onConnect", "subscribe", "destroy", "onConnectFailure",
          "onSubscribe", "onSubscribeLost", "onConnectionLost", "reply"}
Values == Colors \cup {NoColor}
Replies == [result : {"success", "fail", "attribute"}, value : Values]
NoReply == [result |-> "success", value |-> NoColor]

\* mStep and mConnectionStatus are zero-initialised statics.
Init ==
    /\ PahoInit
    /\ mConnectionStatus = "DISCONNECTED"
    /\ mStep = "PROCESS_START"
    /\ mClient = NULL
    /\ ledStatus = Off
    /\ mainPc = "start" /\ mainArg = NULL
    /\ cbPc = "idle"
    /\ reply = NoReply
    /\ reported = NoColor
    /\ failed = {}
    /\ overtaken = FALSE

Unlocked == cbPc = "idle"

\* A definition whose name ends in _x plus a word is the mutant of the definition
\* after it: the same code with the slip its comment names.

\* the else branch does not return
RGB_LEDControl_xUnchecked(color) == color

\* RGB_LEDControl: the LED takes a legal colour and keeps its own otherwise.
RGB_LEDControl(color) == IF color \in Colors THEN color ELSE ledStatus

\* MQTTAsyncPublishMessageWithTopic, for a message that carries the LED value.
\* Dropped without a client or without a connection; the callers ignore the rc.
PublishLed(value) ==
    reported' = IF mClient # NULL /\ client[mClient] = "connected" /\ value \in Colors
                THEN value ELSE reported

\* only forgets the pointer
MQTTAsyncDestroy_xLeak == UNCHANGED pahoVars /\ mClient' = NULL

\* MQTTAsyncDestroy: the disconnect it makes first on a connected client is
\* absorbed, MQTTAsync_destroy discards the request together with the client.
MQTTAsyncDestroy ==
    /\ IF mClient = NULL THEN UNCHANGED pahoVars ELSE MQTTAsync_destroy(mClient)
    /\ mClient' = NULL

-----------------------------------------------------------------------------
\* The main thread: start()

\* the LED keeps its colour over a reconnection
Start_xNoReset ==
    /\ mainPc = "start"
    /\ mConnectionStatus' = "CONNECTING"
    /\ mainPc' = "create"
    /\ failed' = {} /\ overtaken' = FALSE
    /\ UNCHANGED <<pahoVars, mStep, mClient, ledStatus, mainArg, cbPc, reply, reported>>

Start ==
    /\ mainPc = "start"
    /\ mConnectionStatus' = "CONNECTING"
    /\ ledStatus' = RGB_LEDControl(Off)
    /\ mainPc' = "create"
    /\ failed' = {} /\ overtaken' = FALSE
    /\ UNCHANGED <<pahoVars, mStep, mClient, mainArg, cbPc, reply, reported>>

\* MQTTAsyncCreate, first half
Create ==
    /\ mainPc = "create"
    /\ Unlocked
    /\ \E h \in Handles : MQTTAsync_create(h) /\ mClient' = h
    /\ mainPc' = "connect"
    /\ UNCHANGED <<mConnectionStatus, mStep, ledStatus, mainArg, cbPc, reply, reported,
                   histVars>>

\* MQTTAsyncCreate, second half: the request is accepted ...
Connect ==
    /\ mainPc = "connect"
    /\ Unlocked
    /\ MQTTAsync_connect(mClient)
    /\ mainPc' = "loop"
    /\ UNCHANGED <<agentVars, mainArg, cbPc, histVars>>

\* ... or MQTTAsync_connect returns an error at once and the client is torn
\* down again; start() only prints the error.
ConnectError ==
    /\ mainPc = "connect"
    /\ "connect" \in SyncErrors
    /\ mainPc' = "abort"
    /\ failed' = {"connect"}
    /\ UNCHANGED <<pahoVars, agentVars, mainArg, cbPc, overtaken>>

\* returns without destroying the client
Abort_xKeepsClient ==
    /\ mainPc = "abort"
    /\ mainPc' = "loop"
    /\ mClient' = NULL
    /\ UNCHANGED <<pahoVars, mConnectionStatus, mStep, ledStatus, mainArg, cbPc, reply,
                   reported, histVars>>

Abort ==
    /\ mainPc = "abort"
    /\ Unlocked
    /\ MQTTAsyncDestroy
    /\ mainPc' = "loop"
    /\ UNCHANGED <<mConnectionStatus, mStep, ledStatus, mainArg, cbPc, reply, reported,
                   histVars>>

-----------------------------------------------------------------------------
\* The main thread: the loop of MARun

\* tpMQTTIsConnected reads mClient, then asks the library.
Loop ==
    /\ mainPc = "loop"
    /\ mainArg' = mClient
    /\ mainPc' = IF mClient = NULL THEN "readStatus" ELSE "isConnected"
    /\ UNCHANGED <<pahoVars, agentVars, cbPc, histVars>>

IsConnected ==
    /\ mainPc = "isConnected"
    /\ Unlocked
    /\ \E rc \in MQTTAsync_isConnected(mainArg) :
          mainPc' = IF rc THEN "readStep" ELSE "readStatus"
    /\ UNCHANGED <<pahoVars, agentVars, mainArg, cbPc, histVars>>

\* waits for the step before
ReadStep_xOneEarly ==
    /\ mainPc = "readStep"
    /\ mainPc' = IF mStep = "PROCESS_ATTRIBUTE" THEN "telemetry" ELSE "readStatus"
    /\ UNCHANGED <<pahoVars, agentVars, mainArg, cbPc, histVars>>

ReadStep ==
    /\ mainPc = "readStep"
    /\ mainPc' = IF mStep = "PROCESS_TELEMETRY" THEN "telemetry" ELSE "readStatus"
    /\ UNCHANGED <<pahoVars, agentVars, mainArg, cbPc, histVars>>

\* telemetry(), up to the null test of MQTTAsyncPublishMessageWithTopic
Telemetry ==
    /\ mainPc = "telemetry"
    /\ mStep' = "PROCESS_TELEMETRY"
    /\ mainArg' = mClient
    /\ mainPc' = IF mClient = NULL THEN "loop" ELSE "publish"
    /\ UNCHANGED <<pahoVars, mConnectionStatus, mClient, ledStatus, cbPc, reply,
                   reported, histVars>>

\* MQTTAsync_sendMessage; telemetry() ignores what it returns.
PublishTelemetry ==
    /\ mainPc = "publish"
    /\ Unlocked
    /\ mainPc' = "loop"
    /\ UNCHANGED <<pahoVars, agentVars, mainArg, cbPc, histVars>>

\* reconnects whenever not connected
ReadStatus_xImpatient ==
    /\ mainPc = "readStatus"
    /\ mainPc' = IF mConnectionStatus # "CONNECTED" THEN "destroy" ELSE "loop"
    /\ UNCHANGED <<pahoVars, agentVars, mainArg, cbPc, histVars>>

ReadStatus ==
    /\ mainPc = "readStatus"
    /\ mainPc' = IF mConnectionStatus = "DISCONNECTED" THEN "destroy" ELSE "loop"
    /\ UNCHANGED <<pahoVars, agentVars, mainArg, cbPc, histVars>>

\* tpSDKDestroy before start() is called again
Destroy ==
    /\ mainPc = "destroy"
    /\ Unlocked
    /\ MQTTAsyncDestroy
    /\ mainPc' = "start"
    /\ UNCHANGED <<mConnectionStatus, mStep, ledStatus, mainArg, cbPc, reply, reported,
                   histVars>>

MainStep ==
    \/ Start \/ Create \/ Connect \/ ConnectError \/ Abort
    \/ Loop \/ IsConnected \/ ReadStep \/ Telemetry \/ PublishTelemetry
    \/ ReadStatus \/ Destroy

-----------------------------------------------------------------------------
\* The callback thread: connecting

ConnectSucceeds(h) ==
    /\ Unlocked
    /\ SessionOpens(h)
    /\ cbPc' = "onConnect"
    /\ UNCHANGED <<agentVars, mainPc, mainArg, histVars>>

\* OnConnect calls MQTTConnected(0) ...
OnConnect ==
    /\ cbPc = "onConnect"
    /\ mConnectionStatus' = "CONNECTED"
    /\ cbPc' = "subscribe"
    /\ UNCHANGED <<pahoVars, mStep, mClient, ledStatus, mainPc, mainArg, reply, reported,
                   histVars>>

\* ... and then subscribes,
Subscribe ==
    /\ cbPc = "subscribe"
    /\ MQTTAsync_subscribeMany(mClient)
    /\ cbPc' = "idle"
    /\ UNCHANGED <<agentVars, mainPc, mainArg, histVars>>

\* unless the call fails at once: then it destroys the client it runs for.
SubscribeError ==
    /\ cbPc = "subscribe"
    /\ "subscribe" \in SyncErrors
    /\ cbPc' = "destroy"
    /\ failed' = {"subscribe"}
    /\ UNCHANGED <<pahoVars, agentVars, mainPc, mainArg, overtaken>>

OnConnectDestroy ==
    /\ cbPc = "destroy"
    /\ MQTTAsyncDestroy
    /\ cbPc' = "idle"
    /\ UNCHANGED <<mConnectionStatus, mStep, ledStatus, mainPc, mainArg, reply, reported,
                   histVars>>

ConnectFails(h) ==
    /\ Unlocked
    /\ SessionRefused(h)
    /\ cbPc' = "onConnectFailure"
    /\ UNCHANGED <<agentVars, mainPc, mainArg, histVars>>

\* MQTTConnected does not look at its argument
OnConnectFailure_xNoTest ==
    /\ cbPc = "onConnectFailure"
    /\ mConnectionStatus' = "CONNECTED"
    /\ cbPc' = "idle"
    /\ UNCHANGED <<pahoVars, mStep, mClient, ledStatus, mainPc, mainArg, reply, reported,
                   histVars>>

\* the failure is only logged
OnConnectFailure_xIgnored ==
    /\ cbPc = "onConnectFailure"
    /\ cbPc' = "idle"
    /\ UNCHANGED <<pahoVars, agentVars, mainPc, mainArg, histVars>>

\* OnConnectFailure calls MQTTConnected with a non-zero code.
OnConnectFailure ==
    /\ cbPc = "onConnectFailure"
    /\ mConnectionStatus' = "DISCONNECTED"
    /\ cbPc' = "idle"
    /\ UNCHANGED <<pahoVars, mStep, mClient, ledStatus, mainPc, mainArg, reply, reported,
                   histVars>>

-----------------------------------------------------------------------------
\* The callback thread: subscribing, and losing the connection

SubAck(h, answer) ==
    /\ Unlocked
    /\ SubscriptionAnswered(h, answer)
    /\ cbPc' = "onSubscribe"
    /\ UNCHANGED <<agentVars, mainPc, mainArg, histVars>>

\* OnSubscribe and OnSubscribeFailure both end in MQTTSubscribed, which does
\* not look at the result: attribute() reports the LED as 0, whatever it is,
\* and only then lets the main thread send telemetry.
OnSubscribe ==
    /\ cbPc \in {"onSubscribe", "onSubscribeLost"}
    /\ PublishLed(Off)
    /\ mStep' = "PROCESS_TELEMETRY"
    /\ cbPc' = IF cbPc = "onSubscribe" THEN "idle" ELSE "onConnectionLost"
    /\ UNCHANGED <<pahoVars, mConnectionStatus, mClient, ledStatus, mainPc, mainArg,
                   reply, histVars>>

\* A request still pending when the session drops is failed first
\* (MQTTASYNC_OPERATION_INCOMPLETE), then the loss itself is reported.
ConnectionDrops(h) ==
    /\ Unlocked
    /\ SessionDrops(h)
    /\ cbPc' = IF subscription[h] = "pending" THEN "onSubscribeLost" ELSE "onConnectionLost"
    /\ UNCHANGED <<agentVars, mainPc, mainArg, histVars>>

\* the loss is only logged
OnConnectionLost_xIgnored ==
    /\ cbPc = "onConnectionLost"
    /\ cbPc' = "idle"
    /\ UNCHANGED <<pahoVars, agentVars, mainPc, mainArg, histVars>>

\* the callback cleans up the client by itself
OnConnectionLost_xDestroys ==
    /\ cbPc = "onConnectionLost"
    /\ mConnectionStatus' = "DISCONNECTED"
    /\ MQTTAsyncDestroy
    /\ cbPc' = "idle"
    /\ UNCHANGED <<mStep, ledStatus, mainPc, mainArg, reply, reported, histVars>>

\* ConnectionLostCallback calls MQTTConnectionLost.
OnConnectionLost ==
    /\ cbPc = "onConnectionLost"
    /\ mConnectionStatus' = "DISCONNECTED"
    /\ cbPc' = "idle"
    /\ UNCHANGED <<pahoVars, mStep, mClient, ledStatus, mainPc, mainArg, reply, reported,
                   histVars>>

-----------------------------------------------------------------------------
\* The callback thread: MQTTMessageArrived.  A message the handler returns
\* from early (not JSON, a field missing, an unknown cmd) changes nothing
\* here: it is a stuttering step.

MayDeliver(h) ==
    /\ Unlocked
    /\ client[h] = "connected"
    /\ subscription[h] \in {"pending", "granted"}

\* History: an accepted colour before the SUBACK will be reported as Off when the
\* SUBACK comes, an accepted one after it sets the platform's idea right again.
Overtaken(h, color) == IF color \in Colors THEN subscription[h] = "pending" ELSE overtaken

\* answers success without driving the LED
UserControl_xNoEffect(h, color) ==
    /\ MayDeliver(h)
    /\ reply' = [result |-> "success", value |-> color]
    /\ cbPc' = "reply"
    /\ overtaken' = Overtaken(h, color)
    /\ UNCHANGED <<pahoVars, mConnectionStatus, mStep, mClient, ledStatus, mainPc,
                   mainArg, reported, failed>>

\* RPC tp_user: sets the LED, answers with the colour, or with error 106.
UserControl(h, color) ==
    /\ MayDeliver(h)
    /\ ledStatus' = RGB_LEDControl(color)
    /\ reply' = IF color \in Colors THEN [result |-> "success", value |-> color]
                                    ELSE [result |-> "fail", value |-> NoColor]
    /\ cbPc' = "reply"
    /\ overtaken' = Overtaken(h, color)
    /\ UNCHANGED <<pahoVars, mConnectionStatus, mStep, mClient, mainPc, mainArg,
                   reported, failed>>

\* Any other RPC method: nothing is executed, success is answered.
OtherProcedure(h) ==
    /\ MayDeliver(h)
    /\ reply' = [result |-> "success", value |-> NoColor]
    /\ cbPc' = "reply"
    /\ UNCHANGED <<pahoVars, mConnectionStatus, mStep, mClient, ledStatus, mainPc,
                   mainArg, reported, histVars>>

\* echoes a refused value
SetAttribute_xEcho(h, color) ==
    /\ MayDeliver(h)
    /\ ledStatus' = RGB_LEDControl(color)
    /\ reply' = [result |-> "attribute", value |-> color]
    /\ cbPc' = "reply"
    /\ overtaken' = Overtaken(h, color)
    /\ UNCHANGED <<pahoVars, mConnectionStatus, mStep, mClient, mainPc, mainArg,
                   reported, failed>>

\* setAttribute: sets the LED; a refused value is answered with the present one.
SetAttribute(h, color) ==
    /\ MayDeliver(h)
    /\ ledStatus' = RGB_LEDControl(color)
    /\ reply' = [result |-> "attribute",
                 value |-> IF color \in Colors THEN color ELSE ledStatus]
    /\ cbPc' = "reply"
    /\ overtaken' = Overtaken(h, color)
    /\ UNCHANGED <<pahoVars, mConnectionStatus, mStep, mClient, mainPc, mainArg,
                   reported, failed>>

\* tpSimpleResult, tpSimpleRawResult or tpSimpleAttribute
PublishReply ==
    /\ cbPc = "reply"
    /\ PublishLed(reply.value)
    /\ reply' = NoReply
    /\ cbPc' = "idle"
    /\ UNCHANGED <<pahoVars, mConnectionStatus, mStep, mClient, ledStatus, mainPc,
                   mainArg, histVars>>

\* What the callback thread does by itself once a callback has begun.
CallbackStep ==
    \/ OnConnect \/ Subscribe \/ SubscribeError \/ OnConnectDestroy
    \/ OnConnectFailure \/ OnSubscribe \/ OnConnectionLost \/ PublishReply

\* What only the network and the platform decide.
Network ==
    \E h \in Handles :
        \/ ConnectSucceeds(h)
        \/ ConnectFails(h)
        \/ \E answer \in {"granted", "refused"} : SubAck(h, answer)
        \/ ConnectionDrops(h)
        \/ OtherProcedure(h)
        \/ \E color \in Values : UserControl(h, color) \/ SetAttribute(h, color)

Next == MainStep \/ CallbackStep \/ Network

Spec == Init /\ [][Next]_vars

\* The main thread never stops polling, and a thread waiting for Paho's mutex
\* gets it at one of its releases (strong fairness: inbound messages may lock
\* it again and again).  A callback that has begun ends.  Paho bounds every
\* connect attempt by a timeout, so it succeeds or fails.  Nothing obliges the
\* broker to answer a SUBSCRIBE, to send messages, or a connection to break.
Fairness ==
    /\ SF_vars(MainStep)
    /\ WF_vars(CallbackStep)
    /\ \A h \in Handles : WF_vars(ConnectSucceeds(h) \/ ConnectFails(h))

FairSpec == Spec /\ Fairness

-----------------------------------------------------------------------------
\* The shape of the state: all shared variables, program counters and the
\* library's handles stay within what MA.c and MQTTClient.c can store there.
TypeOK ==
    /\ PahoTypeOK
    /\ mConnectionStatus \in Statuses
    /\ mStep \in Steps
    /\ mClient \in Handles \cup {NULL}
    /\ ledStatus \in Colors
    /\ mainPc \in MainPcs
    /\ mainArg \in Handles \cup {NULL}
    /\ cbPc \in CbPcs
    /\ reply \in Replies
    /\ reported \in Values
    /\ failed \subseteq SyncErrors
    /\ overtaken \in BOOLEAN

\* No reconnection leaks a Paho client: the only one that exists is the one
\* mClient names, so the next MQTTAsyncDestroy can reach it.
OneClient ==
    /\ \A h \in Handles : client[h] # "free" => h = mClient
    /\ mClient # NULL => client[mClient] # "free"

\* Between reading mClient and the library taking its mutex the main thread can
\* lose the client to a callback, and then hands a destroyed one to the library.
\* MQTTAsync.h wants "a valid client handle from a successful call to
\* MQTTAsync_create()".  Of all the interleavings there is one cause only: the
\* OnConnect of this very attempt met a subscribeMany that failed at once.  The
\* agent is then left without a client and with a status of CONNECTED.
UseAfterDestroyHasCause ==
    mainPc \in {"isConnected", "publish"} /\ client[mainArg] = "free"
        => "subscribe" \in failed /\ mClient = NULL /\ mConnectionStatus = "CONNECTED"

\* Whenever no callback runs, mConnectionStatus tells the truth about the client,
\* although two threads write it and neither locks it.  MARun relies on it
\* to tear down dead clients only.
StatusOf ==
    [created |-> "CONNECTING", connecting |-> "CONNECTING",
     connected |-> "CONNECTED", closed |-> "DISCONNECTED"]
StatusTracksClient ==
    Unlocked /\ mClient # NULL /\ client[mClient] # "free"
        => mConnectionStatus = StatusOf[client[mClient]]

\* start() and the tpSDKDestroy before it run alone: no callback is active and
\* none can begin, so the unlocked writes of mConnectionStatus and of the LED
\* race with nothing and never hit a session that is alive.
RestartRunsAlone ==
    /\ mainPc \in {"destroy", "start", "create"} =>
          Unlocked /\ \A h \in Handles : client[h] \in {"free", "closed"}
    /\ mainPc \in {"start", "create"} => mClient = NULL

\* A LED value the handler is about to answer is the value the LED has at that
\* moment: a refused colour is never echoed and no restart slips in between.
ReplyIsTruthful ==
    cbPc = "reply" /\ (reply.result = "attribute" \/ reply.value # NoColor)
        => reply.value = ledStatus

\* Once the attributes of a session have been announced, the platform's idea of
\* the LED is the LED's state, although attribute() always reports 0.  The one
\* exception is a colour accepted before the SUBACK, until the next one after it.
PlatformInSync ==
    Unlocked /\ mClient # NULL /\ subscription[mClient] \in {"granted", "refused"}
        => overtaken \/ reported = ledStatus

\* MA.c:633 "reconnect when disconnected": an agent without a connection, and
\* without an attempt under way, makes a new attempt - unless a call of its last
\* attempt failed at once: nothing sets the status to DISCONNECTED then.
Offline == \A h \in Handles : client[h] \notin {"connecting", "connected"}
ReconnectWhenDisconnected == Offline ~> ~Offline \/ failed # {}

\* A status of CONNECTING is never the last word: MQTTConnected or its failure
\* overwrites it, however the callback races with the rest of start() - unless
\* MQTTAsync_connect fails at once: then no callback comes.
AttemptResolves ==
    mConnectionStatus = "CONNECTING"
        ~> mConnectionStatus # "CONNECTING" \/ "connect" \in failed

\* An agent that stays connected with its attributes announced keeps handing
\* telemetry to a live connection, unless it destroyed its client in OnConnect.
TelemetryFlows ==
    <>[](mConnectionStatus = "CONNECTED" /\ mStep = "PROCESS_TELEMETRY"
            /\ "subscribe" \notin failed)
        => []<>(mainPc = "publish" /\ client[mainArg] = "connected")

-----------------------------------------------------------------------------
\* Whether attribute() has had its chance in this session: the SUBACK has been dealt
\* with, or the connection is gone.
Announced ==
    /\ mConnectionStatus = "CONNECTED" /\ mClient # NULL
    /\ \/ cbPc = "onConnectionLost"
       \/ cbPc # "onSubscribe" /\ subscription[mClient] \in {"granted", "refused"}

Session == INSTANCE AgentSession WITH
    link <- mConnectionStatus, led <- ledStatus, known <- reported, announced <- Announced

\* The agent implements the contract AgentSession states, with its status as the
\* state of the link: the platform learns only true LED states, only while up, but
\* for one announcement of Off in each session (attribute() after the SUBACK).
SessionContract == Session!Spec
=============================================================================
