# TLA+ models of the ThingPlug device SDK

The repository holds one small IoT SDK five times: a Linux port on top of the Paho
*asynchronous* MQTT library, and ports to FreeRTOS, ThreadX, mbed and Arduino that carry
the Paho *embedded* client and their own network glue. An application ("middleware agent")
keeps an MQTT session with the ThingPlug platform, announces its attributes, sends telemetry
and obeys control messages (an RGB LED). These modules model the parts in which threads,
callbacks, nested calls, failures and scarce resources meet. Paths below are relative to
`src/`; *FreeRTOS* files are under `freertos/Library/`.

## Inventory

| Component | State it keeps | Operations | What is hard | Correct when |
|---|---|---|---|---|
| Linux agent `linux/middleware/MA/MA.c`, `SMA/SMA.c` | `mConnectionStatus`, `mStep`, `ledStatus` | `MARun`, `start`, `telemetry`, `attribute`, the MQTT callbacks | main thread and Paho's threads share all of it without a lock; reconnecting races with callbacks | status is true where it decides, one restart at a time, answers and platform agree with the LED, telemetry never stops for good |
| Linux MQTT wrapper `linux/src/net/MQTTClient.c` | `mClient`, callbacks | create, subscribe, publish, destroy, isConnected | a check of `mClient` and its use are apart; `OnConnect` may destroy the client inside its own callback | no leak; a destroyed client is used for one known reason only |
| Paho MQTT C 1.1.0 (binary, `linux/lib`) | clients, pending requests | the `MQTTAsync_*` calls, callbacks | callbacks hold one recursive mutex from event to return | external |
| Simple API `linux/src/simple/Simple.c` (and copies) | service and device id, added data `gContent` | telemetry, attribute, result, subscribe | added data accumulate; ownership of JSON trees | as steps of the agent only |
| Embedded MQTT client `Mqtt_Paho/MQTTClient.c` | one send and one read buffer, packet id, handler slots, `isconnected`, `ping_outstanding` | connect, subscribe, publish, yield, disconnect, read loop `cycle`, `deliverMessage` | one thread, but its calls nest: a handler publishes inside the command that delivered its message | acknowledgements answer the right messages, results are right, nothing is lost, every call returns |
| Packet reading and writing `Mqtt_Paho/MQTTClient.c` (`readPacket`, `decodePacket`, `sendPacket`) | the bytes of the packet in the read buffer | read a packet, write a packet | the stream is cut into chunks anywhere; a timer may expire within a packet; results that are no error and no success | packets are read as sent, written in order, and lost only for a known reason |
| Connection handling `SimpleAPI/src/net/MQTT_handler.c` | `g_pMQTTClient`, `gContent` | `handleMQTTCreate` with retries, subscribe, publish, isConnected, destroy | failures in the middle of create | nothing is left behind, the agent learns the outcome |
| FreeRTOS agent `SimpleAPI/middleware/MA/MA.c`, `ThingPlug_oneM2M_SDK.c` | as on Linux | `ThingPlug_oneM2M_SDK`, `MARun`, `start` | every failure must lead back to a session | the device recovers |
| Network layer `Mqtt_Paho/MQTTFreeRTOS.c`, `MQTTFreeRTOSTLS.c` | `pSockPool`, `my_socket`, the TLS context | init, connect, disconnect, isConnected, read, write | TCP and TLS fail at different depths | what is taken is returned |
| Socket pool, Ethernet manager `Ethernet_WIZNet/wizSystem.c` | three blocks, eight hardware sockets, DHCP lease | `sockPoolAlloc`, `sockPoolFree`, `tskEthernetManager`, DHCP, DNS | a block may be freed twice; callers do not test for NULL | blocks and sockets stay in step, the pool suffices |
| NTP client of FreeRTOS `NTPClient/NTPClient.c` | offset | `NTPSocket`, `setTime` | requests and replies lost or late, every request from one port, 32 bit arithmetic | the offset is as good as NTP allows |
| NTP clients of mbed and ThreadX | offset | the same over other sockets | mbed sets the clock itself, binds a random port and checks the sender; ThreadX works over NetX | not modelled |
| mbed and Arduino agents (`mbed/`, `arduino/`: `MA`, `MQTT_handler`, the C++ `MQTTClient.h`) | as on FreeRTOS, a C++ client that drops its session | main loop, `start`, `MARun`, handler of control messages | a failed command drops the session and tells nobody; publishes nest; a result that is never returned | one TCP connection, recovery, or a known cause |
| ThreadX port | copies of the FreeRTOS code, its own network layer over NetX | `s7g2_read`, `s7g2_write` | a packet read in part is kept between reads | as for reading and writing |
| mbed TLS, FreeRTOS, CMSIS, HAL, WIZnet drivers, cJSON, MQTT serialisers, Time library | | | vendored or generated | not modelled |
| Sensors, debug output, CSV/JSON formatting | | pure input and output | | not modelled |

Interaction: the agent calls the Simple API, which calls the MQTT wrapper (Linux) or
`MQTT_handler.c` (embedded), which calls the MQTT client. Downward everything is a function
call; upward everything is a callback, on another thread on Linux, deeper on the same stack
on the embedded ports. `PROJECT.json` lists the hazards of this code at their lines, with
the property that watches each one, or the reason why none does.

## Modules

| Module | Models | Uses |
|---|---|---|
| `PahoAsync` | what the Linux wrapper relies on in the library (external) | |
| `LinuxAgent` | `linux/middleware/MA/MA.c`, `SMA.c`, `linux/src/net/MQTTClient.c`: two threads | extends `PahoAsync`, refines `AgentSession` |
| `AgentSession` | the abstract contract of an agent towards the platform | |
| `MCLinuxAgent` | the instance TLC checks | extends `LinuxAgent` |
| `LinuxAgentProofs` | theorems about `LinuxAgent` | extends `LinuxAgent`, `TLAPS` |
| `MqttSync` | the embedded client and the broker at the other end | |
| `MqttSyncProofs` | theorems about `MqttSync` | extends `MqttSync`, `TLAPS` |
| `MqttInTimeProofs` | theorems about `MqttSync` while nothing is late | extends `MqttSyncProofs` |
| `PacketStream` | `readPacket` and `sendPacket` over the three network layers | |
| `PacketStreamProofs` | theorems about writing | extends `PacketStream`, `TLAPS` |
| `PacketReadingProofs` | theorems about reading | extends `PacketStreamProofs` |
| `SockPool` | the socket pool as operators on a record | |
| `FreeRtosAgent` | main loop, agent, connection handling and network layer over the pool | extends `SockPool` |
| `FreeRtosAgentProofs` | theorems about the pool and the device | extends `FreeRtosAgent`, `TLAPS` |
| `NtpClient` | `NTPClient.c`, the time server and the UDP between them | |
| `NtpClientProofs` | theorems about it | extends `NtpClient`, `TLAPS` |
| `CppAgent` | the agents of mbed and Arduino with their C++ client | |
| `CppAgentProofs` | theorems about them | extends `CppAgent`, `TLAPS` |

A definition `Name_xSlip` is a mutant: `Name` with the slip its comment names. It is
used by no specification; putting it in the place of `Name` must break a property.

### LinuxAgent

The main thread's place in `MARun` is `mainPc`, the callback thread's is `cbPc`.
The library holds its mutex from an event to the return of the callback, and every API call
takes it: an action that calls the library needs `Unlocked` (`cbPc = "idle"`), a plain read or
write of a shared variable does not. One action therefore is what happens between two points
where the other thread can get in: `ReadStatus` reads the status and `Destroy` acts on
it later; `Loop` reads `mClient` (`mainArg`) and `IsConnected` hands it to the library later.
Constants: `Handles` (addresses the library can return; a destroyed one can be returned
again), `Colors` and `SyncErrors` (which Paho calls may fail before they return). The broker may
deliver a message before the SUBACK. Message texts are abstracted to the LED value they carry,
`NoColor` standing for every illegal value. Two variables are history and guard nothing: `failed`
(the calls of the present attempt that failed at once) and `overtaken` (did the last accepted colour
come before the SUBACK?). The properties name their exceptions with them.

`AgentSession` knows only link, LED and what the platform was told: down, trying, up;
an attempt only from down; the LED changes only by an attempt or while up; the platform is told
nothing but the LED's true state, save in one announcement per session, which says *off* without
a look at the LED. `LinuxAgent!SessionContract` states the refinement; `announced` is mapped to
`Announced`: the SUBACK of this session has been dealt with, or its connection is gone.

### MqttSync

`stack` is the call stack: a command (`connect`, `subscribe`, `publish`, `yield`) on
it is in its loop around `cycle`; `deliver` is inside `deliverMessage`; `handler` is the
application's callback, which may publish once and is then `replied`. `readbuf` is the message
whose bytes the read buffer holds, so that an alias into it (`topicName`) is modelled by
reading `readbuf` again. Packets are `[type, id, about]`; the message a broker sends is its
index in `sent`. A PUBACK that the client sends is about an id copied when the message was
read. Any timer may expire at any moment; `late` remembers that one failed a call, or that the
connection did, and the properties that need patience speak of the time before. The broker
answers in order, may withhold answers, refuse, send messages at any time (one may overtake its
SUBACK), and the link may break. The life of one `MQTTClient` is modelled: create to destroy.
Packets are read and written whole here; what happens to their bytes is `PacketStream`.

### PacketStream

A byte is `[of, at]`: byte number `at` of packet number `of`, so that the reader's idea
of where a packet begins can be compared with the broker's. What a byte means as a digit of the
remaining length is known only when it is one; any other byte read in its place is any digit.
`coming` and `received` are the stream before and in the client's network layer, cut into
chunks (TCP segments, TLS records, NetX packets) that need not be packets. `layer` says whose
`mqttread` is called: the loops of `FreeRTOS_read` and `s7g2_read` go on from chunk to chunk,
`EthernetTLS_read` returns what the record has. `mishaps` is what has happened on this
connection: *late* (a timer within a packet), *short* (a read of the remaining length that got
nothing), *cut* (a read of the body that got less than it asked for), *split* (a chunk that ends within a packet), *stale* (NetX: bytes of an older connection),
*stalled* (mbed TLS was told 0 by `SSLSendCB`), *closed*. *short* and *cut* differ in what they
spoil: after a *cut* the packet is dropped, but after a *short* the length decoded so far is
used as it is, `readPacket` not looking at the result of `decodePacket` (`MQTTClient.c:119`), and
a packet may be returned with less than its body. `AcceptedWhole` excepts only that. On the writing side `outLeft` is the
packet in the record mbed TLS still has to send. Only packets that fit one write are modelled, and
only packets that fit `readbuf`: `readPacket` never compares the remaining length with its size
(`MQTTClient.c:123`), and what a longer packet overwrites is not modelled.

### SockPool and FreeRtosAgent

One task; `pc` is where it is: `ethernet` (DHCP), `ntp`, `start`, `resolve` (DNS), `open`
(TCP and TLS), `mqtt`, `subscribe`, `loop`, `destroy`. `caller` says who comes next:
the main loop, `MARun` after its first `start`, or `MARun` in its branch that reconnects.
DHCP, DNS and NTP take a block and return it within one action, because nothing else runs.
`osPoolAlloc` is modelled with its wrap-around (from `currentIndex` up, then block 0 only).
`pc = "waitDns"` is `DNS_run` without an answer, `pc = "crashed"` a NULL block written
through. Every failure of `Failures` may happen, `MaxFaults` times in all; `harsh` remembers
whether one did that leaves something behind (a failed handshake, a DNS answer lost or for
another name). Left out: the delays between tries (DHCP, `handleMQTTCreate`), and that the TLS
context is not reset between the handshakes of two tries, which changes only what a handshake returns.
The agents pass NULL as publish topic, whose `strlen` (`MQTT_handler.c:256`, on mbed
`MQTT_handler.cpp:256`) reads address 0; it is left out as well.

### NtpClient

Time passes in ticks, the clocks and time stamps show whole seconds modulo `2 * Half` (2^32 in
the code): cutting off and wrapping are what the arithmetic must survive. `Offset` is the
expression of the code with its conversions (`Difference` wraps before it is widened, `ToInt`
is the conversion to `int`). Requests leave from one port, so `Receive` takes the reply to
any of them. `last` remembers which request the offset answers and whether it `Straddles`: one
difference negative, the other not. Then the offset is wrong by about 2^31 seconds, in spite of
the comment "Avoid overflow" (`NTPClient.c:168`). `OffsetRight` excepts a straddling offset only
for a clock that was right within the time the packets travelled and one second: the bug spoils good
clocks and no others.

### CppAgent

Two ports in one module, because their `MARun` and C++ client are almost one text; `port`
decides where they differ: the Arduino's client is a global object, closes its connection
before a retry, and calls the connected callback also when TCP fails; mbed deletes and
makes client and network, and its `start` has no return statement, so that what `MARun` reads
is anything (the failure *rc*). `calls` is the stack of publishes that wait for a PUBACK: a
control message that arrives meanwhile is answered inside the wait. `ignored` collects the
failures whose result nobody looked at since `Destroy`, `leaked` the blocks of the heap nothing
points to; with `HeapRoom` of them `malloc` returns NULL and is written through. A publish that does not fit
the send buffer (*size*) fails and keeps the session, every other failed command drops it. On mbed
the TLS handshake takes place in the first write, not in the connect: the failure *mqtt*
includes it. In the run, where *rc* may happen, `ReconnectByAccident` restricts only the Arduino; what it
says of mbed without that failure is left to the theorem.

## What is checked

All runs are instances TLC explores completely. The runs marked *violation* show a place where
the code does not do what a comment or document of the repository says.

| Run | Bounds | Shows |
|---|---|---|
| `agent` | 2 handles, 3 colours, every error allowed, messages before the SUBACK; 3 200 states | `TypeOK`; `OneClient`: reconnecting leaks no client; `StatusTracksClient`: the unlocked status is right whenever no callback runs; `RestartRunsAlone`: destroy and start of the main thread never overlap a callback or a living session; `ReplyIsTruthful`; `UseAfterDestroyHasCause`: a destroyed client is handed to the library only after `OnConnect` destroyed it because its subscription failed at once; `PlatformInSync`: the platform's view of the LED is right unless a colour overtook the SUBACK; `SessionContract` (refinement of `AgentSession`); under fairness `ReconnectWhenDisconnected`, `AttemptResolves`, `TelemetryFlows`, unless a call of the attempt failed at once |
| `mqtt_safety` | 1 topic, 2 slots, 2 connects, 2 publishes, 2 messages, ids up to 3; 500 000 states | `TypeOK`; `AcksAnswerMessages`: shared buffers notwithstanding, acknowledgements that leave are right; `NoMoreSuccessesThanAcks`; `AckedWasHandled`: what is acknowledged has been handled, unless it overtook its SUBACK (or a nested publish took the SUBACK, which takes two topics and is left to the theorem), and `AnswersSettle`: mixed-up acknowledgements are settled when the outermost call returns, both as long as nothing was late; under fairness `CommandsReturn` |
| `publish_falsely_reported` (violation) | 1 connect, 1 message | `SuccessMeansAccepted` fails: packet ids of PUBACKs are not compared |
| `wrong_handler` (violation) | 2 topics | `RightHandler` fails: `topicName` is read after a nested read has overwritten it |
| `device_safety` | 3 blocks, 4 sockets, 7 failures of eleven kinds | `TypeOK`; `PoolInStep`: blocks and hardware sockets stay in step, a block freed twice included; `ConnectionOwned`; `PoolSuffices` and `NothingLeft` as long as nothing was harsh; `RecoveryThroughMain`: the reconnecting branch of `MARun` is dead code; under fairness `Recovers`: a living session again, or something was harsh |
| `handshakes_exhaust_pool` (violation) | failed handshakes | `ReconnectWhenDisconnected` fails: three failed handshakes use up the pool |
| `packet_stream` | three layers, 2 packets of the broker with remaining length 0 to 3, 2 writes, 2 connections; 3 800 000 states | `TypeOK`; `FramingKept`: packets are read as sent until a read is cut short; `CutsExplained`: what cuts one short; `AcceptedWhole`: also after the framing was lost, a packet read from its header on is whole, unless its length was cut short; `WrittenInOrder`; `LossNeedsStall` |
| `stale_bytes` (violation) | NetX, 2 packets, 2 connections | `HeaderHasType` fails: the rest of a packet kept over `s7g2_disconnect` is read on the next connection, and a byte from its middle is taken for a header |
| `packet_lost_silently` (violation) | mbed TLS, 2 writes | `SuccessMeansSent` fails: a waiting record is sent in the place of the next packet |
| `ntp_offset` | 8 is half the range, 2 ticks a second, clocks wrong by up to 8 ticks, rounds of up to 6, two boot times of which one makes stamps wrap, 2 tries a round; 1 400 000 states | `TypeOK`; `OffsetRight`: the offset is as good as NTP allows, except for a clock that was nearly right |
| `cpp_agent` | both ports, 3 tries, room for 5 leaked blocks, 8 failures of nine kinds, publishes nested 3 deep | `TypeOK`; `AtMostOneConnection`; `StrandedHasCause`: the agent turns without a session only after a failure it ignored; `CrashHasCause`; `ReconnectByAccident`; under fairness `Recovers` |
| `mbed_stranded` (violation) | one PUBACK that does not come | `ReconnectWhenDisconnected` fails: the reply to a control message fails, the session is dropped, the status stays CONNECTED |

Some facts need no run of their own. The Linux agent is stranded by a connect that fails at once
(status CONNECTING, no client, for ever), and by a subscription that fails at once: `OnConnect`
then destroys the client inside its own callback (`linux/src/net/MQTTClient.c:57`), the status stays
CONNECTED, and a main thread that has read `mClient` already hands the destroyed client to
`MQTTAsync_isConnected` or `MQTTAsync_sendMessage`, although `MQTTAsync.h:864` asks for "A valid
client handle". `agent` reaches both; its properties name them as the only exceptions, and without
the exception `UseAfterDestroyHasCause`, `ReconnectWhenDisconnected`, `AttemptResolves` and `TelemetryFlows` fail. A
lost DNS answer stops the FreeRTOS device for ever (`pc = "waitDns"`), which `Recovers` counts as
harsh.

### Why these bounds

* Two handles: `OneClient` says at most one exists, so a second address suffices to tell a
  leak, and a reused one, from a clean restart. Three colours: off, the one before, the one
  after. The theorems hold for every number of both.
* Two publishes and two messages are the least for one command nested in another and one delivery
  in another; ids up to 3 make them wrap. Two connects let the answer to an attempt
  that timed out meet the next one. Two handler slots are more than the topics, so that the table
  is never full; a full table is not checked. `MAX_PACKET_ID` is 65535 in the code: with more ids than publishes and
  subscriptions nothing changes, ids being compared nowhere.
* Three blocks as in `wizSystem.c`; four sockets instead of eight, one more than blocks, because
  only the lowest free one is ever taken. Seven failures are two rounds of `MQTT_RETRY_CNT` (3)
  and one to spare, enough to find the pool empty.
* A digit of the remaining length has base 2 instead of 128 and there are two instead of four:
  lengths 0 to 3 are all that two digits hold: packets without a body, and length fields of one byte
  and of two; a third byte is one too many. The theorems hold for every base and number of digits. Two packets are the least for a chunk that ends one and begins
  the next; two connections the least for stale bytes; two writes for a record that waits.
* Time stamps wrap at 16 seconds: skews of up to 4 seconds and rounds of up to 3 stay, as in
  life, below half the range (`ClocksAgree`, which these values meet exactly). The offset is computed by a formula in which nothing but the ratio
  of skew, journey and range matters.
* Eight failures are more than two starts given up after `MQTT_RETRY_CNT` tries (3; the Arduino
  has 10, with the same loop). Five leaked blocks are reached within these; the heap has room for
  more, never for infinitely many. Three nested publishes: telemetry, a reply inside it, and one
  inside that.
* Deadlock checking is off where the program may really stop (`device_safety`,
  `handshakes_exhaust_pool`, `cpp_agent`, `mbed_stranded`: a crash, a DNS query that waits for
  ever) and where the bounded counters of the environment run out (`packet_stream`,
  `stale_bytes`, `packet_lost_silently`, `ntp_offset`).

### Fairness

* `LinuxAgent`: strong fairness of the main thread, which polls for ever and competes with
  callbacks for a mutex released again and again; weak fairness of a callback that has begun;
  a connect attempt succeeds or fails, because Paho bounds it by a timeout. Nothing is owed by
  the broker: no SUBACK, no message.
* `MqttSync`: the thread runs, and its timers expire (weak fairness of `TimerExpires`,
  which is enabled as long as a command reads). The broker owes nothing.
* `FreeRtosAgent`, `CppAgent`: weak fairness of the one task (`Device`). Faults are finite, so that
  liveness speaks of the time after the last one. Control messages owe nothing.
* `PacketStream` and `NtpClient` state safety only: their loops end by timers or by the next
  caller, which the other modules have.

## What is proved

`LinuxAgentProofs` (TLAPS, every handle and colour set):

* `TypeCorrect`.
* `NoClientLeaks`, `StatusIsTrue`, `RestartIsExclusive`, `RepliesAreTruthful`: from one
  inductive invariant `IInv`. None of the four is inductive alone. That the status is true needs
  to know, for each place the callback thread can be at, which state the
  client is in and that it is the one of `mClient`; that in turn needs that the main
  thread is not in the middle of a restart, which needs that the status it read, DISCONNECTED, can
  no longer change, because only a callback could change it and a closed client has none.
* `UseAfterDestroyIsExplained`: with `ArgInv`, the argument the main thread has read is still the
  client, or `OnConnect` has destroyed that client in this attempt and nothing can happen to the agent
  any more. Nothing is assumed of what may fail.
* `PlatformStaysInSync`: with `LedInv`, that before the SUBACK the LED is off, which is what
  `attribute` says whatever the LED does, or a colour overtook the SUBACK.
* `AgentKeepsContract`, from `IInv` alone: initial states map to initial states
  and each step of the two threads to a step of `AgentSession` or to a stutter.

`FreeRtosAgentProofs` (every pool size, number of sockets not below it, number of retries, and
bound on failures):

* `DeviceTypeCorrect`, `PoolStaysInStep`, `ConnectionIsOwned`, `RecoveryGoesThroughMain`, whatever
  fails: from the inductive invariant `DeviceInv`. The double `sockPoolFree` is harmless only
  because of `Sound`: the block `pSockPool` points to is in use, or the socket whose number it
  still holds is free. `BorrowKeeps` shows that DHCP, DNS and NTP, which may be given that very
  block in between, leave it so. That there is a socket for every free block (`SocketIsFree`) is a
  counting argument with the theorems on finite sets. `contexts \in Nat` in `TypeOK`
  says that no TLS context is freed twice; it needs `ClientInv`.
* `PoolAlwaysSuffices`, `NothingIsLeft`, as long as nothing harsh has happened: from `LeftInv`,
  which says what is in use at each place. The exception is needed: see
  `handshakes_exhaust_pool`.

`CppAgentProofs` (both ports, every number of retries, heap, nesting and bound on failures):

* `TypeCorrect`, and `OneConnection` from `OneInv`: without a client mbed has no connection, and it
  connects only with a new one.
* `ReconnectsByAccident` from `AccidentInv`: wherever the loop can be without an accident, the status
  is CONNECTED, because only a `start` that returned "ok" leads there.
* `StrandingHasCause` and `CrashesHaveCause` from `CauseInv` and `NullInv`, over `ShapeInv`, which
  says at which places a client must exist and which results `rc` may hold there.

`MqttSyncProofs` (every number of topics, slots, ids, commands and messages):

* `TypeCorrect` from `Shape`: besides the plain types it needs that every frame of the call
  stack is about a message or a call there is (`StackFits`), and that what is queued in
  either direction answers a request there was (`RequestsOf`, `AnswersOf`).
* `AcksAreForMessages` from `Ledger`: each message is in one place only, and there
  once: arriving, being delivered at some depth, its PUBACK leaving, or acknowledged. That is what the
  shared buffers could destroy.
* `SuccessesAreAcked` from `Fresh` (publishes on their way are different calls the broker
  has not accepted) and `Balance`: successes and PUBACKs on their way to the client together are no more than
  accepted calls. `waitfor` may take the wrong PUBACK, but it takes one for each success. The counting
  uses the theorems on finite sets.

`MqttInTimeProofs` (the same, while `late` is false):

* `AnswersAreSettled` from `Calm`. The state at which the outermost call returns says nothing of
  how nested calls exchanged their answers; what carries through is a count (`Counted`): for
  CONNECT, SUBSCRIBE and PUBLISH alike, the requests and answers on their way are never more than the
  calls that wait for them. With nobody waiting nothing is on its way, and as no publish
  is lost (`Made`), each has been accepted. That in turn needs that both sides agree whether there is a
  session (`Link`): a broker without one drops requests. Two counts change at once when a nested call takes
  an answer, so the lemmas about them are on sequences: what `Append`, `Head` and `Tail` do to
  `Count` and to the set of places where a call waits.
* `AcksFollowHandlers` from `Handed`, assuming that topics are no more than handler slots: a full
  table drops messages and acknowledges them, and the agent subscribes to one topic
  (`TOPIC_SUBSCRIBE_SIZE`, `MA.c:31`) and has five slots (`MAX_MESSAGE_HANDLERS`, `MQTTClient.h:57`).
  Handlers are in the order of the topics, and only the last may be missing (`Slots`); a message on
  its way is for a topic with a handler, or comes after the SUBACK that will set one up (`Coming`);
  a delivery below another call is in its handler already (`Deliv`). The first form of
  `AckedWasHandled` did not survive the proof: with two topics, a handler called while a subscribe
  waits can publish, and that publish reads the SUBACK and drops it. Then the subscribe times out, and
  until it does its messages are acknowledged and lost. The property now says so.

`PacketStreamProofs` (every layer, base, number of packets, writes and connections):

* `PacketsInOrder` from `Order`: what has left is older than the record that waits.
* `LossesExplained` from `Reports`: a record waits only after a stall or a lost connection, and
  what was reported without a stall has been written.

`PacketReadingProofs` (the same, and every set of remaining lengths that fit the length bytes):

* `TypeCorrect`, `PacketsAsSent`, `WholeOrNotAtAll`, `OnlyTimersAndRecordsCut`, `OnlyStaleBytesMislead`
  from one inductive invariant `Reading`. The last is the other half of the run `stale_bytes`: bytes of an
  old connection are the only thing that breaks `HeaderHasType`, on NetX too. Its heart is a function from numbers to places (byte `at` of packet
  `of`) along which the bytes of `readbuf`, `received` and `coming` lie one after the other, and
  which runs through the broker's packets in order (`Along`). Reading and the arrival of chunks move
  the cuts and leave the function alone; only a new packet extends it, and only the end of a
  `cycle` shifts it. Where `readPacket` stands in it (`Frame`) gives `FramingKept`; that
  the first byte was a header gives `AcceptedWhole` without knowing where the stream stands: then
  what `decodePacket` has so far is the length modulo a power of the base (`Hand`). `Split` says that
  chunks end with packets unless one was split, which is why mbed TLS alone cuts a packet without a timer.
* The lemmas they rest on: every length has exactly one number of digits (`LengthSize`), the digits
  weighted add up to the length, and a stream has a first chunk. The first and the last need a least
  number, which `LeastNumber` takes from the well-foundedness of the naturals; so does the step from
  the definition of the recursive function `Power` to its equation (`PowerStep`).
* The proof also separated the mishaps *short* and *cut*, which the model had as one:
  `AcceptedWhole` is true after a *cut* and false after a *short*.

`NtpClientProofs` (every range of the time stamps, resolution of the clocks, timeout, number of tries,
boot time and bound):

* `TypeCorrect`, from `NtpInv`: a packet carries the stamps of the moments it was where, in this
  order (`Stamped`), however long it was under way.
* `OffsetIsRight`, assuming `ClocksAgree`: clocks differ by less than half the range (68 years), which
  no arithmetic on wrapped stamps can do without. Each difference, taken of stamps that wrap and
  are cut to whole seconds, is the true one within a second, or that plus the range (`DifferenceOf`,
  `SecondsApart`). When both have one sign the conversion of the halved sum undoes the wrap (`HalfSum`);
  when they do not, the skew is less than the journey. The solver does none of this unaided: quotients and
  remainders of two moduli are named and multiplied out in small lemmas.

Only model-checked: every liveness property (`ReconnectWhenDisconnected`, `AttemptResolves`,
`TelemetryFlows`, `CommandsReturn`, `Recovers` of both agents), because fairness and `ENABLED` are
beyond the prover. Every invariant of a passing run is stated by a theorem.

## Not modelled, and plan

What could still be added, in this order:

1. *The agent of ThreadX*, which leaves `MARun` after each telemetry: a variant of `FreeRtosAgent`
   without the socket pool.
2. *Pure algorithms*: topic matching (`isTopicMatched`) against the rules of MQTT, the server
   string of `MQTTAsyncCreate` (a port of five digits is cut to four, `linux/src/net/MQTTClient.c:171`).
3. *Simple API*: content added by `tpSimpleAddData` and sent by the next telemetry (`Simple.c:61`).
4. *Refinement*: `MqttSync` sends packets whole over `PacketStream`'s bytes; that the one implements
   the channel of the other is argued in prose only. An abstract session for the embedded
   agents, as `AgentSession` is for Linux, and a proof that they keep it.

Smaller hazards that no module reaches, beside those of `PROJECT.json`: `rpcObject` is used without a
test (`linux/middleware/MA/MA.c:125`), `preLinkStatus` is read before it is written
(`wizSystem.c:271`), and the order of acknowledgements of nested deliveries is not the one MQTT asks for.

Left out for good: message texts, JSON and CSV, sensor drivers, debug output, TLS itself, DHCP and DNS message
formats, boards and kernels (vendored or pure input and output). They are nearly all of the lines of the
repository: register headers, HAL, mbed TLS, FreeRTOS, drivers and the Paho serialisers,
several times over. `MQTT_TASK` is never
defined, so the threaded variant of the embedded client is not compiled; `NETINFO_NTP_USE` is 0,
so there is no NTP thread.
