---------------------------- MODULE FreeRtosAgent ----------------------------
(***************************************************************************)
(* The life of a FreeRTOS device: the endless loop of                      *)
(* ThingPlug_oneM2M_SDK.c (DHCP, NTP, agent), the agent (MARun and start   *)
(* of MA.c), the connection it makes (handleMQTTCreate, NetworkConnectTLS) *)
(* and takes down (handleMQTTDestroy), and the socket pool under all this. *)
(*                                                                         *)
(* One task runs everything; pc is where it is.  What happens inside an    *)
(* MQTT command is the subject of MqttSync: here it succeeds or fails.     *)
(* Only a bounded number of things go wrong (MaxFaults), so that liveness  *)
(* says what happens once the network is well again.                       *)
(***************************************************************************)
EXTENDS SockPool

CONSTANTS RETRY_CNT,  \* MQTT_RETRY_CNT (3)
          Failures,   \* what may go wrong
          MaxFaults   \* bound: how often

AllFailures == {"dhcp", "ntp", "dnsLost", "dnsError", "dnsMalformed", "connect",
                "handshake", "mqtt", "subscribe", "publish", "link"}
\* What the connection handling does not clean up after.
Harsh == {"dnsLost", "dnsMalformed", "handshake"}
ASSUME FailuresAssumption == Failures \subseteq AllFailures
ASSUME FaultsAssumption == MaxFaults \in Nat /\ RETRY_CNT \in Nat \ {0}

VARIABLES pc, caller, retry,
          pool,              \* the socket pool
          client,            \* g_pMQTTClient # NULL
          pSockPool,         \* ipstack->pSockPool, a block or NULL
          my_socket,         \* ipstack->my_socket
          established,       \* the sockets with a live TCP connection
          contexts,          \* TLS contexts allocated and not freed
          isconnected, mStep, mConnectionStatus,
          faults,            \* how often something went wrong
          harsh              \* and whether one of Harsh did

netVars == <<pool, pSockPool, my_socket, established>>
agentVars == <<client, contexts, isconnected, mStep, mConnectionStatus>>
vars == <<pc, caller, retry, netVars, agentVars, faults, harsh>>

Pcs == {"ethernet", "ntp", "start", "resolve", "waitDns", "open", "mqtt", "subscribe",
        "loop", "destroy", "crashed"}

Init ==
    /\ pc = "ethernet" /\ caller = "main" /\ retry = 0
    /\ pool = EmptyPool /\ pSockPool = NULL /\ my_socket = 0 /\ established = {}
    /\ client = FALSE /\ contexts = 0
    /\ isconnected = FALSE
    /\ mStep = "PROCESS_START" /\ mConnectionStatus = "DISCONNECTED"
    /\ faults = 0 /\ harsh = FALSE

\* Things go well, or one that may go wrong does.
Fine == UNCHANGED <<faults, harsh>>
Fault(kind) ==
    /\ kind \in Failures /\ faults < MaxFaults
    /\ faults' = faults + 1
    /\ harsh' = (harsh \/ kind \in Harsh)

\* A socket is taken from the pool, and given back at the end of the call: DHCPTimeOut,
\* DNSTimeOut, NTPSocket with setTime.  None of them tests the pointer.
Borrow == pool' = sockPoolFree(AfterAlloc(pool), sockPoolAlloc(pool))
Exhausted == sockPoolAlloc(pool) = NULL

Crash ==
    /\ pc' = "crashed"
    /\ Fine
    /\ UNCHANGED <<caller, retry, netVars, agentVars>>

-----------------------------------------------------------------------------
\* tskEthernetManager, called by the main loop and again by NetworkInit: it
\* tries DHCP until it gets a lease.
EthernetManager ==
    /\ pc = "ethernet"
    /\ ~Exhausted
    /\ Borrow
    /\ \/ Fine /\ pc' = IF caller = "main" THEN "ntp" ELSE "resolve"
       \/ Fault("dhcp") /\ UNCHANGED pc
    /\ UNCHANGED <<caller, retry, pSockPool, my_socket, established, agentVars>>

\* NTPSocket and setTime, tried up to ten times; MARun is called in any case.
SetTime ==
    /\ pc = "ntp"
    /\ ~Exhausted
    /\ Borrow
    /\ Fine \/ Fault("ntp")
    /\ pc' = "start" /\ caller' = "MARun"
    /\ UNCHANGED <<retry, pSockPool, my_socket, established, agentVars>>

\* handleMQTTCreate makes a client unless there is one; NetworkInitTLS makes a TLS context
\* and runs the Ethernet manager again.
CreateClient ==
    /\ client' = TRUE
    /\ IF client THEN pc' = "resolve" /\ UNCHANGED <<contexts, pSockPool, my_socket, isconnected>>
       ELSE /\ pc' = "ethernet"
            /\ contexts' = contexts + 1
            /\ pSockPool' = NULL /\ my_socket' = 0 /\ isconnected' = FALSE

Start ==
    /\ pc = "start"
    /\ mConnectionStatus' = "CONNECTING"
    /\ retry' = 0
    /\ CreateClient
    /\ Fine
    /\ UNCHANGED <<caller, pool, established, mStep>>

\* MARun goes on without a session
AfterFailure_xIgnored == "loop"

\* start returns an error.  MARun looks at what it returns the first time only.
AfterFailure == IF caller = "MARun" THEN "destroy" ELSE "loop"

\* tries once too often
AttemptFails_xOneMore ==
    /\ retry' = retry + 1
    /\ pc' = IF retry' <= RETRY_CNT THEN "resolve" ELSE AfterFailure

\* The retry loop of handleMQTTCreate around NetworkConnectTLS.  When it gives up
\* no callback is called: the status stays CONNECTING.
AttemptFails ==
    /\ retry' = retry + 1
    /\ pc' = IF retry' < RETRY_CNT THEN "resolve" ELSE AfterFailure

\* DNSTimeOut, which ignores its timeout.  An answer that is an error, or none to the
\* name, still counts as success, with whatever address it leaves.  DNS_run
\* waits for an answer; the counter of its timeout is never advanced.
Resolve ==
    /\ pc = "resolve"
    /\ ~Exhausted
    /\ \/ Borrow /\ Fine /\ pc' = "open" /\ UNCHANGED retry
       \/ Borrow /\ Fault("dnsMalformed") /\ AttemptFails
       \/ Fault("dnsLost") /\ pool' = AfterAlloc(pool) /\ pc' = "waitDns" /\ UNCHANGED retry
    /\ UNCHANGED <<caller, pSockPool, my_socket, established, agentVars>>

\* forgets to give the socket back
ConnectError_xLeaks(b) == pool' = AfterAlloc(pool)

\* connect fails: the socket is given back, but pSockPool keeps pointing to it.
ConnectError(b) == pool' = sockPoolFree(AfterAlloc(pool), b)

\* NetworkConnect after the name is resolved: a socket, and its connection.
NetworkConnect(connects) ==
    /\ pSockPool' = sockPoolAlloc(pool)
    /\ my_socket' = AfterAlloc(pool).sockNo[pSockPool']
    /\ IF connects THEN /\ pool' = AfterAlloc(pool)
                        /\ established' = established \cup {my_socket'}
       ELSE ConnectError(pSockPool') /\ UNCHANGED established

\* NetworkConnectTLS.  A handshake that fails leaves the connection as it is.
Open ==
    /\ pc = "open"
    /\ ~Exhausted
    /\ \/ Fine /\ NetworkConnect(TRUE) /\ pc' = "mqtt" /\ UNCHANGED retry
       \/ (Fault("connect") \/ Fault("dnsError")) /\ NetworkConnect(FALSE) /\ AttemptFails
       \/ Fault("handshake") /\ NetworkConnect(TRUE) /\ AttemptFails
    /\ UNCHANGED <<caller, agentVars>>

\* A null pointer of the pool is written through.
NullPointer ==
    /\ pc \in {"ethernet", "ntp", "resolve", "open"}
    /\ Exhausted
    /\ Crash

\* The retry loop around MQTTConnect, and CallConnectedCallback.
ConnectMqtt ==
    /\ pc = "mqtt"
    /\ \/ /\ Fine
          /\ my_socket \in established
          /\ isconnected' = TRUE
          /\ mConnectionStatus' = "CONNECTED"
          /\ pc' = "subscribe"
       \/ /\ Fault("mqtt") \/ (my_socket \notin established /\ Fine)
          /\ mConnectionStatus' = "DISCONNECTED"
          /\ UNCHANGED isconnected
          /\ pc' = AfterFailure
    /\ UNCHANGED <<caller, retry, netVars, client, contexts, mStep>>

\* attribute publishes, ignores the result and lets telemetry begin.
attribute == mStep' = "PROCESS_TELEMETRY"

\* The subscriptions, then MQTTSubscribed whatever their result.  The topics are copied
\* before; the publish topic is NULL, and strlen reads address 0 (left out).
Subscribe ==
    /\ pc = "subscribe"
    /\ attribute
    /\ \/ Fine /\ my_socket \in established /\ pc' = "loop"
       \/ (Fault("subscribe") \/ (my_socket \notin established /\ Fine)) /\ pc' = AfterFailure
    /\ UNCHANGED <<caller, retry, netVars, client, contexts, isconnected, mConnectionStatus>>

-----------------------------------------------------------------------------
\* The loop of MARun.

IsNetworkConnected == pSockPool # NULL
tpMQTTIsConnected == client => IsNetworkConnected   \* -1, which is true, without a client

\* ignores the result of telemetry, as the Linux port does
LoopNext_xIgnoresResult(published) ==
    IF tpMQTTIsConnected /\ mStep = "PROCESS_TELEMETRY" THEN "loop"
    ELSE IF mConnectionStatus = "DISCONNECTED" THEN "destroy" ELSE "loop"

\* A telemetry that cannot be published ends MARun.
LoopNext(published) ==
    IF tpMQTTIsConnected /\ mStep = "PROCESS_TELEMETRY"
    THEN IF published THEN "loop" ELSE "destroy"
    ELSE IF mConnectionStatus = "DISCONNECTED" THEN "destroy" ELSE "loop"

\* telemetry: whether its publish succeeds.
telemetry(published) ==
    \/ Fine /\ published = (isconnected /\ my_socket \in established)
    \/ Fault("publish") /\ ~published

Loop ==
    /\ pc = "loop"
    /\ \E published \in BOOLEAN : telemetry(published) /\ pc' = LoopNext(published)
    /\ caller' = IF ~(tpMQTTIsConnected /\ mStep = "PROCESS_TELEMETRY") /\ pc' = "destroy"
                 THEN "again" ELSE caller
    /\ UNCHANGED <<retry, netVars, agentVars>>

\* NetworkDisconnectTLS: frees the TLS context and the socket, and forgets it.
NetworkDisconnectTLS ==
    /\ contexts' = contexts - 1
    /\ established' = established \ {my_socket, pool.sockNo[pSockPool]}
    /\ pool' = sockPoolFree(pool, pSockPool)

\* keeps the connection when the client was never connected
Destroy_xOnlyConnected ==
    /\ pc = "destroy"
    /\ IF client /\ isconnected THEN NetworkDisconnectTLS
       ELSE UNCHANGED <<contexts, established, pool>>
    /\ client' = FALSE /\ isconnected' = FALSE /\ pSockPool' = NULL
    /\ IF caller = "again" THEN pc' = "start" /\ UNCHANGED caller
       ELSE pc' = "ethernet" /\ caller' = "main"
    /\ Fine
    /\ UNCHANGED <<retry, my_socket, mStep, mConnectionStatus>>

\* handleMQTTDestroy; then start once more, or MARun returns and the main loop
\* begins again.
Destroy ==
    /\ pc = "destroy"
    /\ IF client /\ IsNetworkConnected THEN NetworkDisconnectTLS
       ELSE UNCHANGED <<contexts, established, pool>>
    /\ client' = FALSE /\ isconnected' = FALSE /\ pSockPool' = NULL
    /\ IF caller = "again" THEN pc' = "start" /\ UNCHANGED caller
       ELSE pc' = "ethernet" /\ caller' = "main"
    /\ Fine
    /\ UNCHANGED <<retry, my_socket, mStep, mConnectionStatus>>

\* The connection dies, noticed or not.
LinkDies ==
    /\ Fault("link")
    /\ established # {}
    /\ established' = {}
    /\ UNCHANGED <<pc, caller, retry, pool, pSockPool, my_socket, agentVars>>

Device == EthernetManager \/ SetTime \/ Start \/ Resolve \/ Open \/ NullPointer
          \/ ConnectMqtt \/ Subscribe \/ Loop \/ Destroy
Next == Device \/ LinkDies

Spec == Init /\ [][Next]_vars

\* The task always runs.
FairSpec == Spec /\ WF_vars(Device)

-----------------------------------------------------------------------------
\* The shape of the state.
TypeOK ==
    /\ pc \in Pcs /\ caller \in {"main", "MARun", "again"} /\ retry \in 0..RETRY_CNT
    /\ pool \in PoolType
    /\ pSockPool \in Blocks \cup {NULL} /\ my_socket \in Sockets
    /\ established \subseteq Sockets
    /\ client \in BOOLEAN /\ contexts \in Nat /\ isconnected \in BOOLEAN
    /\ mStep \in {"PROCESS_START", "PROCESS_TELEMETRY"}
    /\ mConnectionStatus \in {"DISCONNECTED", "CONNECTING", "CONNECTED"}
    /\ faults \in 0..MaxFaults /\ harsh \in BOOLEAN

\* Blocks and hardware sockets stay in step over any sequence of failures, although
\* sockPoolFree is called again for blocks it has freed (Destroy after ConnectError).
PoolInStep == PoolConsistent(pool)

\* The connection in use is on a socket that pSockPool's block really owns: no later
\* borrower of the pool has been given it.
ConnectionOwned ==
    pc \in {"mqtt", "subscribe", "loop"} =>
        /\ pSockPool # NULL /\ pool.markers[pSockPool]
        /\ my_socket = pool.sockNo[pSockPool]

\* The pool is never found empty: whatever fails, each failed attempt returns
\* what it took.  (Not so for a failed handshake.)
PoolSuffices == ~harsh => pc # "crashed"

\* Between two runs of the agent nothing is left of the first: no block, no TLS context.
\* (Not so after a failed handshake; a context is also lost when no attempt gets as far
\* as a socket, because the answers of the DNS server are malformed.)
NothingLeft == ~harsh /\ ~client /\ pc = "ethernet" => Allocated(pool) = {} /\ contexts = 0

\* The branch of MARun that reconnects is never taken: in the loop the socket
\* pointer is set and telemetry has begun, so a lost connection ends MARun.
RecoveryThroughMain == caller # "again"

\* Once the network is well, the device gets a session again on a connection that lives,
\* also when the agent believed in a session whose connection had died.
InSession == isconnected /\ my_socket \in established
Recovers == ~InSession ~> InSession \/ harsh

\* MA.c:603 "reconnect when disconnected", without exception.
ReconnectWhenDisconnected == ~InSession ~> InSession
=============================================================================
