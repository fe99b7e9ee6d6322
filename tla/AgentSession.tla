----------------------------- MODULE AgentSession -----------------------------
(***************************************************************************)
(* What an agent promises to the ThingPlug platform, whatever the threads  *)
(* and the MQTT library below it do: it is down, trying or up; it retries  *)
(* from down; the LED is switched off at every attempt, changes otherwise  *)
(* only while the agent is up, and the platform is told nothing but the    *)
(* state the LED has at that moment.  The one thing said without a look at *)
(* the LED is the announcement that opens a session, once: it says Off.    *)
(***************************************************************************)
CONSTANTS Colors, Off, NoColor

VARIABLES link,      \* mConnectionStatus
          led,       \* the LED
          known,     \* the last LED state handed over for the platform
          announced  \* may this session no longer be announced?

sessionVars == <<link, led, known, announced>>

Init == link = "DISCONNECTED" /\ led = Off /\ known = NoColor /\ announced = FALSE

\* start()
Attempt ==
    /\ link = "DISCONNECTED"
    /\ link' = "CONNECTING"
    /\ led' = Off
    /\ UNCHANGED <<known, announced>>

\* MQTTConnected
Resolve ==
    /\ link = "CONNECTING"
    /\ link' \in {"CONNECTED", "DISCONNECTED"}
    /\ UNCHANGED <<led, known, announced>>

\* MQTTConnectionLost
Lose ==
    /\ link = "CONNECTED"
    /\ link' = "DISCONNECTED"
    /\ announced' = FALSE
    /\ UNCHANGED <<led, known>>

\* A control message sets the LED, before the announcement or after it.
Control ==
    /\ link = "CONNECTED"
    /\ led' \in Colors
    /\ UNCHANGED <<link, known, announced>>

\* The answer to a control message is the LED's state.
Report ==
    /\ link = "CONNECTED"
    /\ known' = led
    /\ UNCHANGED <<link, led, announced>>

\* attribute(), which says Off, or the loss of the connection that forestalls it
Announce ==
    /\ link = "CONNECTED"
    /\ ~announced
    /\ announced' = TRUE
    /\ known' \in {known, Off}
    /\ UNCHANGED <<link, led>>

Next == Attempt \/ Resolve \/ Lose \/ Control \/ Report \/ Announce

Spec == Init /\ [][Next]_sessionVars
=============================================================================
