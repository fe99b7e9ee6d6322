------------------------------ MODULE PahoAsync ------------------------------
(***************************************************************************)
(* The part of the Eclipse Paho asynchronous client the Linux port links   *)
(* against, modelled from how src/linux/src/net/MQTTClient.c uses it       *)
(* (external code: only include/MQTTAsync.h and the binary are in the      *)
(* repository).  A handle is what MQTTAsync_create returns; a destroyed    *)
(* handle goes back to "free" and its address may be handed out again.     *)
(*                                                                         *)
(* automaticReconnect is 0 and cleansession is 1 in every connect of the   *)
(* SDK (MQTTClient.c:188-189, ThingPlug.c:48), so a session that was lost  *)
(* stays "closed" and keeps no subscription.                               *)
(***************************************************************************)
CONSTANTS Handles,   \* the addresses MQTTAsync_create may return
          NULL       \* the null handle

ASSUME HandlesAssumption == NULL \notin Handles

VARIABLES client,        \* connection state of every handle
          subscription   \* state of the handle's one SUBSCRIBE request

pahoVars == <<client, subscription>>

ClientStates == {"free", "created", "connecting", "connected", "closed"}
SubscriptionStates == {"none", "pending", "granted", "refused"}

PahoTypeOK ==
    /\ client \in [Handles -> ClientStates]
    /\ subscription \in [Handles -> SubscriptionStates]

PahoInit ==
    /\ client = [h \in Handles |-> "free"]
    /\ subscription = [h \in Handles |-> "none"]

-----------------------------------------------------------------------------
\* What the API calls do.  Each takes the library's mutex for its duration.

MQTTAsync_create(h) ==
    /\ client[h] = "free"
    /\ client' = [client EXCEPT ![h] = "created"]
    /\ UNCHANGED subscription

MQTTAsync_connect(h) ==
    /\ client' = [client EXCEPT ![h] = "connecting"]
    /\ UNCHANGED subscription

MQTTAsync_subscribeMany(h) ==
    /\ subscription' = [subscription EXCEPT ![h] = "pending"]
    /\ UNCHANGED client

MQTTAsync_destroy(h) ==
    /\ client' = [client EXCEPT ![h] = "free"]
    /\ subscription' = [subscription EXCEPT ![h] = "none"]

\* MQTTAsync_isConnected, and the test by which MQTTAsync_sendMessage accepts
\* a message.  On a freed handle the answer is undefined: either value.
MQTTAsync_isConnected(h) ==
    IF client[h] = "free" THEN BOOLEAN ELSE {client[h] = "connected"}

-----------------------------------------------------------------------------
\* What the network makes of a handle.  The library runs these on its own
\* thread and calls the application back before it releases its mutex.

SessionOpens(h) ==
    /\ client[h] = "connecting"
    /\ client' = [client EXCEPT ![h] = "connected"]
    /\ UNCHANGED subscription

SessionRefused(h) ==
    /\ client[h] = "connecting"
    /\ client' = [client EXCEPT ![h] = "closed"]
    /\ UNCHANGED subscription

\* SUBACK: the broker grants or refuses (0x80) the subscription.
SubscriptionAnswered(h, answer) ==
    /\ client[h] = "connected"
    /\ subscription[h] = "pending"
    /\ subscription' = [subscription EXCEPT ![h] = answer]
    /\ UNCHANGED client

\* Keep-alive expiry, socket error: the clean session is discarded.
SessionDrops(h) ==
    /\ client[h] = "connected"
    /\ client' = [client EXCEPT ![h] = "closed"]
    /\ subscription' = [subscription EXCEPT ![h] = "none"]
=============================================================================
