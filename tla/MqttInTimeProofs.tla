--------------------------- MODULE MqttInTimeProofs ---------------------------
(***************************************************************************)
(* Theorems about MqttSync as long as nothing is late: no timer of a       *)
(* command has expired and the connection has not failed a call.  Nested   *)
(* calls take each other's answers even then; here is what they keep.      *)
(***************************************************************************)
EXTENDS MqttSyncProofs

-----------------------------------------------------------------------------
(* Commands that wait, and what is still to come for them. *)

\* The places of the stack where a call of op is in progress; whether a queue holds no packet
\* of a type.
Waiting(st, op) == {k \in 1..Len(st) : st[k].op = op}
None(q, type) == \A k \in 1..Len(q) : q[k].type # type

\* A stack is finite.
LEMMA WaitingFinite ==
    ASSUME NEW st \in Seq(FrameType), NEW op
    PROVE  IsFiniteSet(Waiting(st, op)) /\ Cardinality(Waiting(st, op)) \in Nat
<1>1. IsFiniteSet(1..Len(st))
  BY FS_Interval
<1>2. Waiting(st, op) \in SUBSET (1..Len(st))
  BY DEF Waiting
<1>3. QED
  BY <1>1, <1>2, FS_Subset, FS_CardinalityType

\* A call that begins waits, and those below go on waiting.
LEMMA PushWaits ==
    ASSUME NEW st \in Seq(FrameType), NEW f \in FrameType, NEW op
    PROVE  Cardinality(Waiting(<<f>> \o st, op)) >=
               Cardinality(Waiting(st, op)) + (IF f.op = op THEN 1 ELSE 0)
<1> DEFINE u == <<f>> \o st
<1>1. /\ u \in Seq(FrameType) /\ Len(u) = Len(st) + 1 /\ u[1] = f /\ Len(st) \in Nat
      /\ \A k \in 1..Len(st) : u[k + 1] = st[k]
  BY PushElements
<1> HIDE DEF u
<1> DEFINE A == Waiting(st, op)
           B == Waiting(u, op)
           g == [k \in A |-> k + 1]
<1>2. /\ IsFiniteSet(A) /\ Cardinality(A) \in Nat
      /\ IsFiniteSet(B) /\ Cardinality(B) \in Nat
  BY <1>1, WaitingFinite
<1>3. \A k \in A : k \in Nat /\ k + 1 \in B \ {1}
  <2> SUFFICES ASSUME NEW k \in A PROVE k \in Nat /\ k + 1 \in B \ {1}
    OBVIOUS
  <2>1. k \in 1..Len(st) /\ st[k].op = op
    BY DEF Waiting
  <2>2. k \in Nat /\ k + 1 \in 1..Len(u) /\ k + 1 # 1 /\ u[k + 1] = st[k]
    BY <1>1, <2>1
  <2>3. QED
    BY <2>1, <2>2 DEF Waiting
<1>4. g \in Injection(A, B \ {1})
  <2> HIDE DEF A, B
  <2>1. g \in [A -> B \ {1}]
    BY <1>3
  <2>2. \A x, y \in A : g[x] = g[y] => x = y
    BY <1>3
  <2>3. QED
    BY <2>1, <2>2 DEF Injection, IsInjective
<1>5. /\ IsFiniteSet(B \ {1})
      /\ Cardinality(B \ {1}) = IF 1 \in B THEN Cardinality(B) - 1 ELSE Cardinality(B)
  BY <1>2, FS_RemoveElement
<1>6. Cardinality(A) <= Cardinality(B \ {1})
  <2> HIDE DEF A, B, g
  <2>1. QED
    BY <1>4, <1>5, FS_Injection
<1>7. f.op = op => 1 \in B
  BY <1>1 DEF Waiting
<1>8. Cardinality(B) >= Cardinality(A) + (IF f.op = op THEN 1 ELSE 0)
  <2> HIDE DEF A, B
  <2>1. QED
    BY <1>2, <1>5, <1>6, <1>7
<1>9. QED
  BY <1>8 DEF u

\* A call that returns waits no longer, the others do.
LEMMA PopWaits ==
    ASSUME NEW st \in Seq(FrameType), st # <<>>, NEW op
    PROVE  /\ Cardinality(Waiting(Tail(st), op)) >=
                 Cardinality(Waiting(st, op)) - (IF Head(st).op = op THEN 1 ELSE 0)
           /\ \A k \in Waiting(Tail(st), op) : k + 1 \in Waiting(st, op) /\ Tail(st)[k] = st[k + 1]
<1> DEFINE u == Tail(st)
<1>1. /\ u \in Seq(FrameType) /\ Len(u) = Len(st) - 1 /\ Len(st) \in Nat \ {0} /\ Head(st) = st[1]
      /\ \A k \in 1..Len(u) : u[k] = st[k + 1]
  BY TailElements
<1> HIDE DEF u
<1> DEFINE A == Waiting(st, op)
           B == Waiting(u, op)
           g == [k \in A \ {1} |-> k - 1]
<1>2. /\ IsFiniteSet(A) /\ Cardinality(A) \in Nat
      /\ IsFiniteSet(B) /\ Cardinality(B) \in Nat
  BY <1>1, WaitingFinite
<1>3. \A k \in A \ {1} : k \in Nat /\ k - 1 \in B
  <2> SUFFICES ASSUME NEW k \in A \ {1} PROVE k \in Nat /\ k - 1 \in B
    OBVIOUS
  <2>1. k \in 1..Len(st) /\ st[k].op = op /\ k # 1
    BY DEF Waiting
  <2>2. k \in Nat /\ k - 1 \in 1..Len(u) /\ (k - 1) + 1 = k
    BY <1>1, <2>1
  <2>3. u[k - 1] = st[k]
    BY <1>1, <2>2
  <2>4. QED
    BY <2>1, <2>2, <2>3 DEF Waiting
<1>4. g \in Injection(A \ {1}, B)
  <2> HIDE DEF A, B
  <2>1. g \in [A \ {1} -> B]
    BY <1>3
  <2>2. \A x, y \in A \ {1} : g[x] = g[y] => x = y
    BY <1>3
  <2>3. QED
    BY <2>1, <2>2 DEF Injection, IsInjective
<1>5. /\ IsFiniteSet(A \ {1})
      /\ Cardinality(A \ {1}) = IF 1 \in A THEN Cardinality(A) - 1 ELSE Cardinality(A)
  BY <1>2, FS_RemoveElement
<1>6. Cardinality(A \ {1}) <= Cardinality(B)
  <2> HIDE DEF A, B, g
  <2>1. QED
    BY <1>2, <1>4, FS_Injection
<1>7. 1 \in A => Head(st).op = op
  BY <1>1 DEF Waiting
<1>8. Cardinality(B) >= Cardinality(A) - (IF Head(st).op = op THEN 1 ELSE 0)
  <2> HIDE DEF A, B
  <2>1. QED
    BY <1>2, <1>5, <1>6, <1>7
<1>9. ASSUME NEW k \in B PROVE k + 1 \in A /\ u[k] = st[k + 1]
  <2>1. k \in 1..Len(u) /\ u[k].op = op
    BY DEF Waiting
  <2>2. k + 1 \in 1..Len(st) /\ u[k] = st[k + 1]
    BY <1>1, <2>1
  <2>3. QED
    BY <2>1, <2>2 DEF Waiting
<1>10. QED
  BY <1>8, <1>9 DEF u

\* ... and returning from another call changes nothing for them.
LEMMA PopOther ==
    ASSUME NEW st \in Seq(FrameType), st # <<>>, NEW op, Head(st).op # op
    PROVE  Cardinality(Waiting(Tail(st), op)) >= Cardinality(Waiting(st, op))
<1>1. Cardinality(Waiting(Tail(st), op)) >= Cardinality(Waiting(st, op)) - 0
  BY PopWaits
<1>2. Cardinality(Waiting(st, op)) \in Nat
  BY WaitingFinite
<1>3. QED
  BY <1>1, <1>2

\* A delivery that goes on is no command.
LEMMA SameWaits ==
    ASSUME NEW st \in Seq(FrameType), st # <<>>, NEW o, NEW u, SameBut(o, st, u),
           NEW op, op # o, op # Head(st).op
    PROVE  Waiting(u, op) = Waiting(st, op)
<1>1. /\ Len(st) \in Nat \ {0} /\ Head(st) = st[1]
  BY TailElements
<1>2. Len(u) = Len(st) /\ u[1].op = o /\ \A k \in 1..Len(st) : k # 1 => u[k] = st[k]
  BY DEF SameBut
<1>3. \A k \in 1..Len(st) : u[k].op = op <=> st[k].op = op
  BY <1>1, <1>2
<1>4. QED
  BY <1>2, <1>3 DEF Waiting

\* No packet of a type is a count of 0.
LEMMA NoneIs ==
    ASSUME NEW S, NEW q \in Seq(S), NEW type
    PROVE  None(q, type) <=> Count(q, type) = 0
<1>1. None(q, type) <=> Places(q, type) = {}
  BY DEF None, Places
<1>2. IsFiniteSet(Places(q, type))
  BY CountFinite
<1>3. QED
  BY <1>1, <1>2, FS_EmptySet DEF Count

\* Packets come at the end of a queue and go at its front.
LEMMA NoneAppend ==
    ASSUME NEW S, NEW q \in Seq(S), NEW e \in S, NEW type, e.type # type
    PROVE  None(Append(q, e), type) <=> None(q, type)
<1>1. Count(Append(q, e), type) = Count(q, type)
  BY AppendCount
<1>2. Append(q, e) \in Seq(S)
  BY AppendElements
<1>3. None(Append(q, e), type) <=> Count(Append(q, e), type) = 0
  BY <1>2, NoneIs
<1>4. QED
  BY <1>1, <1>3, NoneIs

\* ... and what is taken away was there.
LEMMA NoneTail ==
    ASSUME NEW S, NEW q \in Seq(S), q # <<>>, NEW type
    PROVE  /\ None(q, type) => None(Tail(q), type) /\ Head(q).type # type
           /\ Head(q).type # type /\ None(Tail(q), type) => None(q, type)
<1> DEFINE t == Tail(q)
<1>1. /\ Len(t) = Len(q) - 1 /\ Len(q) \in Nat \ {0} /\ Head(q) = q[1]
      /\ \A k \in 1..Len(t) : t[k] = q[k + 1]
  BY TailElements
<1> HIDE DEF t
<1>2. ASSUME None(q, type) PROVE None(t, type) /\ q[1].type # type
  <2>1. \A k \in 1..Len(t) : k + 1 \in 1..Len(q)
    BY <1>1
  <2>2. 1 \in 1..Len(q)
    BY <1>1
  <2>3. QED
    BY <1>1, <1>2, <2>1, <2>2 DEF None
<1>3. ASSUME q[1].type # type, None(t, type), NEW k \in 1..Len(q) PROVE q[k].type # type
  <2>1. CASE k = 1
    BY <1>3, <2>1
  <2>2. CASE k # 1
    <3>1. k - 1 \in 1..Len(t) /\ (k - 1) + 1 = k
      BY <1>1, <2>2
    <3>2. t[k - 1] = q[k]
      BY <1>1, <3>1
    <3>3. QED
      BY <1>3, <3>1, <3>2 DEF None
  <2>3. QED
    BY <2>1, <2>2
<1>4. QED
  BY <1>1, <1>2, <1>3 DEF None, t

\* The commands that wait for an answer, the requests they send (Awaited are the answers),
\* and that no more requests and answers are on their way than calls wait for them.
Commands == {"connect", "subscribe", "publish"}
Request == [connect |-> "CONNECT", subscribe |-> "SUBSCRIBE", publish |-> "PUBLISH"]
Owed(b, c, st) ==
    \A op \in Commands :
        Count(b, Request[op]) + Count(c, Awaited[op]) <= Cardinality(Waiting(st, op))
Counted == Owed(toBroker, toClient, stack)

\* A session, and what there is without one.
Link ==
    /\ isconnected => up /\ Waiting(stack, "connect") = {}
    /\ ~isconnected =>
          /\ Len(stack) <= 1 /\ \A k \in 1..Len(stack) : stack[k].op \in {"connect", "yield"}
          /\ None(toClient, "PUBLISH") /\ (up => subscribed = {})
    /\ ~up => \A op \in Commands : None(toBroker, Request[op])
    /\ \A k \in 1..Len(toClient) : toClient[k].type = "CONNACK" /\ toClient[k].about = 0 => up

\* The packets of either side.
Req == [type : Requests, id : Nat, about : Nat]
Ans == [type : Answers, id : Nat, about : Nat]

\* Packets, frames and counters, without what Shape says they are about.
LEMMA PlainQueues ==
    ASSUME Shape
    PROVE  /\ toBroker \in Seq(Req) /\ toClient \in Seq(Ans) /\ stack \in Seq(FrameType)
           /\ late \in BOOLEAN /\ up \in BOOLEAN /\ isconnected \in BOOLEAN
           /\ next_packetid \in Nat /\ calls \in Nat /\ subscribes \in Nat /\ Len(sent) \in Nat
<1>1. RequestsOf(calls, sent) \subseteq Req /\ AnswersOf(sent) \subseteq Ans
  BY DEF RequestsOf, AnswersOf, Req, Ans
<1>2. ASSUME NEW T, NEW U, T \subseteq U PROVE Seq(T) \subseteq Seq(U)
  BY <1>2
<1>3. toBroker \in Seq(Req) /\ toClient \in Seq(Ans)
  BY <1>1, <1>2 DEF Shape, Queues
<1>4. stack \in Seq(FrameType)
  BY DEF Shape, Frames, StackFits
<1>5. /\ next_packetid \in Nat /\ calls \in Nat /\ subscribes \in Nat /\ Len(sent) \in Nat
  BY BoundsAssumption DEF Shape, Counts, Log, PacketIds
<1>6. late \in BOOLEAN /\ up \in BOOLEAN /\ isconnected \in BOOLEAN
  BY DEF Shape, Flags
<1>7. QED
  BY <1>3, <1>4, <1>5, <1>6

\* A delivery that is over, and with it, perhaps, the yield below.
LEMMA Over ==
    ASSUME Shape, DeliverDone
    PROVE  /\ stack # <<>> /\ Head(stack).op = "deliver"
           /\ Tail(stack) \in Seq(FrameType) /\ Tail(stack) # <<>>
           /\ \/ stack' = Tail(stack)
              \/ stack' = Tail(Tail(stack)) /\ Head(Tail(stack)).op = "yield"
<1>1. /\ stack # <<>> /\ Head(stack).op = "deliver"
      /\ stack' = Tail(stack) \/ (stack' = Tail(Tail(stack)) /\ stack[2].op = "yield")
  BY DEF DeliverDone, Idle, Top
<1>2. stack \in Seq(FrameType)
  BY PlainQueues
<1>3. /\ Tail(stack) \in Seq(FrameType) /\ Len(Tail(stack)) = Len(stack) - 1
      /\ Len(stack) \in Nat \ {0} /\ \A k \in 1..(Len(stack) - 1) : Tail(stack)[k] = stack[k + 1]
  BY <1>1, <1>2, TailElements
<1>4. Tail(stack) # <<>>
  <2>1. StackFits(stack, calls, Len(sent)) /\ Head(stack).op \in Delivering
    BY <1>1 DEF Shape, Frames, Delivering
  <2>2. calls \in Nat /\ Len(sent) \in Nat
    BY PlainQueues
  <2>3. QED
    BY <1>1, <2>1, <2>2, Pop
<1>5. Head(Tail(stack)) = Tail(stack)[1] /\ Len(Tail(stack)) \in Nat \ {0}
  BY <1>3, <1>4, TailElements
<1>6. Tail(stack)[1] = stack[1 + 1]
  BY <1>3, <1>5
<1>7. QED
  BY <1>1, <1>3, <1>4, <1>5, <1>6

\* Being late is for good.
LEMMA LateStays ==
    ASSUME Shape, [Next]_vars, ~late'
    PROVE  ~late
<1>1. late \in BOOLEAN
  BY DEF Shape, Flags
<1> SUFFICES ASSUME late PROVE late'
  BY <1>1
<1>2. CASE App
  <2>1. CASE MQTTConnect
    BY <2>1, Zenon DEF MQTTConnect, sendPacket
  <2>2. ASSUME NEW t \in Topics, MQTTSubscribe(t) PROVE late'
    BY <2>2, Zenon DEF MQTTSubscribe, sendPacket
  <2>3. CASE MQTTPublish
    BY <2>3, Zenon DEF MQTTPublish, sendPacket
  <2>4. CASE MQTTYield
    BY <2>4, Zenon DEF MQTTYield, netVars
  <2>5. CASE MQTTDisconnect
    BY <2>5, Zenon DEF MQTTDisconnect, sendPacket
  <2>6. QED
    BY <1>2, <2>1, <2>2, <2>3, <2>4, <2>5 DEF App
<1>3. CASE NothingRead \/ Running
  <2>1. CASE NothingRead \/ AnswerRead \/ MessageRead \/ CallHandler \/ HandlerReturns
    BY <2>1, Zenon DEF NothingRead, AnswerRead, MessageRead, CallHandler, HandlerReturns, netVars
  <2>2. CASE DeliverDone
    BY <2>2, Zenon DEF DeliverDone, sendPacket
  <2>3. CASE TimerExpires
    BY <2>3, Zenon DEF TimerExpires
  <2>4. QED
    BY <1>3, <2>1, <2>2, <2>3 DEF Running
<1>4. CASE Broker
  <2>1. ASSUME NEW t \in Topics, NEW qos \in {0, 1}, BrokerSends(t, qos) PROVE late'
    BY <2>1, Zenon DEF BrokerSends
  <2>2. CASE BrokerConnect \/ BrokerSubscribe \/ BrokerPublish \/ BrokerPuback \/ BrokerPing
             \/ BrokerDisconnect \/ LinkBreaks
    BY <2>2, Zenon DEF BrokerConnect, BrokerSubscribe, BrokerPublish, BrokerPuback, BrokerPing,
                       BrokerDisconnect, LinkBreaks
  <2>3. QED
    BY <1>4, <2>1, <2>2 DEF Broker
<1>5. CASE UNCHANGED vars
  BY <1>5, Zenon DEF vars, netVars
<1>6. QED
  BY <1>2, <1>3, <1>4, <1>5 DEF Next

\* Requests and answers of different commands differ.
LEMMA Differ ==
    /\ \A op \in Commands : Request[op] \in {"CONNECT", "SUBSCRIBE", "PUBLISH"}
    /\ \A op \in Commands : Awaited[op] \in {"CONNACK", "SUBACK", "PUBACK"}
    /\ \A o, op \in Commands : (Request[o] = Request[op] <=> o = op)
                               /\ (Awaited[o] = Awaited[op] <=> o = op)
    /\ Request["connect"] = "CONNECT" /\ Request["subscribe"] = "SUBSCRIBE"
    /\ Request["publish"] = "PUBLISH"
    /\ Awaited["connect"] = "CONNACK" /\ Awaited["subscribe"] = "SUBACK"
    /\ Awaited["publish"] = "PUBACK" /\ Awaited["yield"] = "none"
  BY DEF Request, Awaited, Commands

\* While nothing is late each request, or its answer, is awaited by a call of its own.
LEMMA CountedStays ==
    ASSUME Shape, Counted, Link, [Next]_vars, ~late'
    PROVE  Counted'
<1>0. /\ toBroker \in Seq(Req) /\ toClient \in Seq(Ans) /\ stack \in Seq(FrameType)
      /\ up \in BOOLEAN /\ next_packetid \in Nat /\ calls \in Nat /\ Len(sent) \in Nat
      /\ next_packetid' \in Nat /\ calls' \in Nat
  BY PlainQueues, CountsStay, BoundsAssumption DEF Shape, Counts, PacketIds
<1>1. ~late
  BY LateStays
<1>2. SUFFICES ASSUME NEW op \in Commands
      PROVE  Count(toBroker', Request[op]) + Count(toClient', Awaited[op])
                 <= Cardinality(Waiting(stack', op))
  BY DEF Counted, Owed, Count, Places, Waiting
<1> DEFINE R == Request[op]
           A == Awaited[op]
           b == Count(toBroker, R)
           c == Count(toClient, A)
           w == Cardinality(Waiting(stack, op))
           nb == Count(toBroker', R)
           nc == Count(toClient', A)
           nw == Cardinality(Waiting(stack', op))
<1>3. b \in Nat /\ c \in Nat /\ w \in Nat /\ b + c <= w
  BY <1>0, CountFinite, WaitingFinite DEF Counted, Owed
<1>4. R \in {"CONNECT", "SUBSCRIBE", "PUBLISH"} /\ A \in {"CONNACK", "SUBACK", "PUBACK"}
  BY Differ
<1>5. SUFFICES nb + nc <= nw
  OBVIOUS
\* What happens to the requests, ...
<1>b1. toBroker' = toBroker => nb = b
  OBVIOUS
<1>b2. ASSUME NEW p \in Req, toBroker' \in {toBroker, Append(toBroker, p)}
       PROVE  nb \in Nat /\ nb <= b + 1 /\ (p.type # R => nb = b)
  <2>1. CASE toBroker' = toBroker
    BY <2>1, <1>3
  <2>2. CASE toBroker' = Append(toBroker, p)
    <3>1. /\ Count(Append(toBroker, p), R) <= Count(toBroker, R) + 1
          /\ p.type # R => Count(Append(toBroker, p), R) = Count(toBroker, R)
      BY <1>0, AppendCount
    <3>2. Append(toBroker, p) \in Seq(Req)
      BY <1>0, AppendElements
    <3>3. Count(Append(toBroker, p), R) \in Nat
      BY <3>2, CountFinite
    <3>4. QED
      BY <2>2, <3>1, <3>3
  <2>3. QED
    BY <1>b2, <2>1, <2>2
<1>b3. Received => nb \in Nat /\ nb <= b /\ (Head(toBroker).type = R => nb <= b - 1)
  <2> SUFFICES ASSUME Received
               PROVE  nb \in Nat /\ nb <= b /\ (Head(toBroker).type = R => nb <= b - 1)
    OBVIOUS
  <2>1. toBroker # <<>> /\ toBroker' = Tail(toBroker)
    BY DEF Received
  <2>2. Tail(toBroker) \in Seq(Req)
    BY <1>0, <2>1, TailElements
  <2>3. Count(Tail(toBroker), R) \in Nat
    BY <2>2, CountFinite
  <2>4. /\ Count(Tail(toBroker), R) <= Count(toBroker, R)
        /\ Head(toBroker).type = R => Count(Tail(toBroker), R) <= Count(toBroker, R) - 1
    BY <1>0, <2>1, TailCount
  <2>5. QED
    BY <2>1, <2>3, <2>4
\* ... the answers, ...
<1>c1. toClient' = toClient => nc = c
  OBVIOUS
<1>c2. ASSUME NEW p \in Ans, Answer(p)
       PROVE  nc \in Nat /\ nc <= c + 1 /\ (p.type # A => nc = c)
  <2>0. toClient' = toClient \/ toClient' = Append(toClient, p)
    BY <1>c2 DEF Answer
  <2>1. CASE toClient' = toClient
    BY <2>1, <1>3
  <2>2. CASE toClient' = Append(toClient, p)
    <3>1. /\ Count(Append(toClient, p), A) <= Count(toClient, A) + 1
          /\ p.type # A => Count(Append(toClient, p), A) = Count(toClient, A)
      BY <1>0, AppendCount
    <3>2. Append(toClient, p) \in Seq(Ans)
      BY <1>0, AppendElements
    <3>3. Count(Append(toClient, p), A) \in Nat
      BY <3>2, CountFinite
    <3>4. QED
      BY <2>2, <3>1, <3>3
  <2>3. QED
    BY <2>0, <2>1, <2>2
<1>c3. ASSUME toClient # <<>>, toClient' = Tail(toClient)
       PROVE  nc \in Nat /\ nc <= c /\ (Head(toClient).type = A => nc <= c - 1)
  <2>2. Tail(toClient) \in Seq(Ans)
    BY <1>0, <1>c3, TailElements
  <2>3. Count(Tail(toClient), A) \in Nat
    BY <2>2, CountFinite
  <2>4. /\ Count(Tail(toClient), A) <= Count(toClient, A)
        /\ Head(toClient).type = A => Count(Tail(toClient), A) <= Count(toClient, A) - 1
    BY <1>0, <1>c3, TailCount
  <2>5. QED
    BY <1>c3, <2>3, <2>4
<1>c4. toClient' = <<>> => nc = 0
  <2>1. Places(<<>>, A) = {}
    BY DEF Places
  <2>2. Cardinality({}) = 0
    BY FS_EmptySet
  <2>3. Count(<<>>, A) = 0
    BY <2>1, <2>2 DEF Count
  <2>4. QED
    BY <2>3
\* ... and the calls.
<1>w1. stack' = stack => nw = w
  OBVIOUS
<1>w2. ASSUME NEW f \in FrameType, stack' = <<f>> \o stack PROVE nw \in Nat /\ nw >= w
  <2>1. /\ Cardinality(Waiting(<<f>> \o stack, op)) >=
               Cardinality(Waiting(stack, op)) + (IF f.op = op THEN 1 ELSE 0)
    BY <1>0, PushWaits
  <2>2. <<f>> \o stack \in Seq(FrameType)
    BY <1>0, PushElements
  <2>3. Cardinality(Waiting(<<f>> \o stack, op)) \in Nat
    BY <2>2, WaitingFinite
  <2>4. QED
    BY <1>3, <1>w2, <2>1, <2>3
<1>w3. ASSUME stack # <<>>, stack' = Tail(stack)
       PROVE  nw \in Nat /\ nw >= w - 1 /\ (Head(stack).op # op => nw >= w)
  <2>1. Cardinality(Waiting(Tail(stack), op)) >=
            Cardinality(Waiting(stack, op)) - (IF Head(stack).op = op THEN 1 ELSE 0)
    BY <1>0, <1>w3, PopWaits
  <2>2. Tail(stack) \in Seq(FrameType)
    BY <1>0, <1>w3, TailElements
  <2>3. Cardinality(Waiting(Tail(stack), op)) \in Nat
    BY <2>2, WaitingFinite
  <2>4. QED
    BY <1>3, <1>w3, <2>1, <2>3
<1>w4. ASSUME stack # <<>>, NEW o \in Delivering, SameBut(o, stack, stack'),
              Head(stack).op \in Delivering
       PROVE  nw = w
  <2>1. op # o /\ op # Head(stack).op
    BY <1>w4 DEF Delivering, Commands
  <2>2. Waiting(stack', op) = Waiting(stack, op)
    BY <1>0, <1>w4, <2>1, SameWaits
  <2>3. QED
    BY <2>2
<1> HIDE DEF R, A, b, c, w, nb, nc, nw
<1>6. nb = b /\ nc = c /\ nw = w => nb + nc <= nw
  BY <1>3
<1>7. nb = b /\ nc \in Nat /\ nc <= c /\ nw = w => nb + nc <= nw
  BY <1>3
<1>8. nb = b /\ nc \in Nat /\ nc <= c /\ nw \in Nat /\ nw >= w => nb + nc <= nw
  BY <1>3
\* A command begins.
<1>9. ASSUME NEW o \in Commands, NEW p \in Req, p.type = Request[o], NEW f \in FrameType, f.op = o,
             NEW ok \in BOOLEAN, sendPacket(p, ok), NEW st \in Seq(FrameType),
             Waiting(st, op) = Waiting(stack, op), Call(f, ok, st), toClient' = toClient
      PROVE  nb + nc <= nw
  <2>0. toBroker' \in {toBroker, Append(toBroker, p)}
    BY <1>9 DEF sendPacket
  <2>1. nb \in Nat /\ nb <= b + 1 /\ (p.type # R => nb = b)
    BY <2>0, <1>b2
  <2>2. CASE ok
    <3>1. stack' = <<f>> \o st
      BY <1>9, <2>2 DEF Call
    <3>2. Cardinality(Waiting(<<f>> \o st, op)) >=
              Cardinality(Waiting(st, op)) + (IF f.op = op THEN 1 ELSE 0)
      BY PushWaits
    <3>3. <<f>> \o st \in Seq(FrameType)
      BY PushElements
    <3>4. Cardinality(Waiting(<<f>> \o st, op)) \in Nat
      BY <3>3, WaitingFinite
    <3>5. nw \in Nat /\ nw >= w + (IF o = op THEN 1 ELSE 0)
      BY <1>9, <3>1, <3>2, <3>4 DEF nw, w
    <3>6. o # op => p.type # R
      BY <1>9, Differ DEF R
    <3>7. nc = c
      BY <1>9, <1>c1
    <3>8. CASE o = op
      BY <1>3, <2>1, <3>5, <3>7, <3>8
    <3>9. CASE o # op
      BY <1>3, <2>1, <3>5, <3>6, <3>7, <3>9
    <3>10. QED
      BY <3>8, <3>9
  <2>3. CASE ~ok
    <3>1. ~up /\ toBroker' = toBroker
      BY <1>9, <2>3, <1>0 DEF sendPacket
    <3>2. stack' = st
      BY <1>9, <2>3 DEF Call
    <3>3. nw = w
      BY <1>9, <3>2 DEF nw, w
    <3>4. QED
      BY <1>6, <1>9, <3>1, <3>3, <1>b1, <1>c1
  <2>4. QED
    BY <2>2, <2>3
<1>10. \A o \in Ops, i, arg \in Nat : Frame(o, i, arg) \in FrameType /\ Frame(o, i, arg).op = o
  BY NewFrames
<1>11. ASSUME NEW outstanding, keepalive(toBroker, outstanding) PROVE nb = b
  <2>1. Packet("PINGREQ", 0, 0) \in Req /\ Packet("PINGREQ", 0, 0).type # R
    BY <1>4 DEF Packet, Req, Requests
  <2>2. toBroker' \in {toBroker, Append(toBroker, Packet("PINGREQ", 0, 0))}
    BY <1>11 DEF keepalive
  <2>3. QED
    BY <2>1, <2>2, <1>b2
<1>12. CASE MQTTConnect
  <2>1. PICK ok \in BOOLEAN : /\ sendPacket(Packet("CONNECT", 0, 0), ok)
                              /\ Call(Frame("connect", 0, 0), ok, stack)
    BY <1>12 DEF MQTTConnect
  <2>2. toClient' = toClient
    BY <1>12 DEF MQTTConnect
  <2>3. Packet("CONNECT", 0, 0) \in Req /\ Packet("CONNECT", 0, 0).type = Request["connect"]
    BY Differ DEF Packet, Req, Requests
  <2>4. /\ "connect" \in Commands /\ Frame("connect", 0, 0) \in FrameType
        /\ Frame("connect", 0, 0).op = "connect"
    BY <1>10 DEF Commands, Ops
  <2>5. QED
    BY <1>0, <1>9, <2>1, <2>2, <2>3, <2>4
<1>13. ASSUME NEW t \in Topics, MQTTSubscribe(t) PROVE nb + nc <= nw
  <2> DEFINE p == Packet("SUBSCRIBE", next_packetid', t)
             f == Frame("subscribe", next_packetid', t)
  <2>1. PICK ok \in BOOLEAN : sendPacket(p, ok) /\ Call(f, ok, stack)
    BY <1>13 DEF MQTTSubscribe
  <2>2. toClient' = toClient
    BY <1>13 DEF MQTTSubscribe
  <2>3. p \in Req /\ p.type = Request["subscribe"]
    BY <1>0, Differ, BoundsAssumption DEF Packet, Req, Requests, Topics
  <2>4. "subscribe" \in Commands /\ f \in FrameType /\ f.op = "subscribe"
    <3>1. t \in Nat
      BY BoundsAssumption DEF Topics
    <3>2. QED
      BY <1>0, <1>10, <3>1 DEF Commands, Ops
  <2> HIDE DEF p, f
  <2>5. QED
    BY <1>0, <1>9, <2>1, <2>2, <2>3, <2>4
<1>14. CASE MQTTPublish
  <2> DEFINE p == Packet("PUBLISH", next_packetid', calls')
             f == Frame("publish", next_packetid', calls')
             st == IF Idle THEN stack ELSE [stack EXCEPT ![1].op = "replied"]
  <2>1. PICK ok \in BOOLEAN : sendPacket(p, ok) /\ Call(f, ok, st)
    BY <1>14 DEF MQTTPublish
  <2>2. toClient' = toClient
    BY <1>14 DEF MQTTPublish
  <2>3. p \in Req /\ p.type = Request["publish"]
    BY <1>0, Differ DEF Packet, Req, Requests
  <2>4. "publish" \in Commands /\ f \in FrameType /\ f.op = "publish"
    BY <1>0, <1>10 DEF Commands, Ops
  <2>5. st \in Seq(FrameType) /\ Waiting(st, op) = Waiting(stack, op)
    <3>1. CASE Idle
      BY <1>0, <3>1
    <3>2. CASE ~Idle
      <4>1. stack # <<>> /\ Head(stack).op = "handler"
        BY <1>14, <3>2 DEF MQTTPublish, Idle, Top
      <4>2. 1 \in 1..Len(stack) /\ "replied" \in Ops /\ 0 \in 0..MAX_MESSAGE_HANDLERS
        BY <1>0, <4>1, TailElements, BoundsAssumption DEF Ops
      <4>3. SameBut("replied", stack, [stack EXCEPT ![1].op = "replied"])
        BY <1>0, <4>2, Changed
      <4>4. op # "replied" /\ op # Head(stack).op
        BY <4>1 DEF Commands
      <4>5. Waiting([stack EXCEPT ![1].op = "replied"], op) = Waiting(stack, op)
        BY <1>0, <4>1, <4>3, <4>4, SameWaits
      <4>6. [stack EXCEPT ![1].op = "replied"] \in Seq(FrameType)
        BY <4>3 DEF SameBut
      <4>7. QED
        BY <3>2, <4>5, <4>6
    <3>3. QED
      BY <3>1, <3>2
  <2> HIDE DEF p, f, st
  <2>6. QED
    BY <1>9, <2>1, <2>2, <2>3, <2>4, <2>5
<1>15. CASE MQTTYield
  <2>1. Frame("yield", 0, 0) \in FrameType
    BY <1>10 DEF Ops
  <2>2. stack' = <<Frame("yield", 0, 0)>> \o stack
    <3>1. stack = <<>> /\ stack' = <<Frame("yield", 0, 0)>>
      BY <1>15 DEF MQTTYield, Idle
    <3>2. QED
      BY <2>1, <3>1
  <2>3. nw \in Nat /\ nw >= w
    BY <2>1, <2>2, <1>w2
  <2>4. toBroker' = toBroker /\ toClient' = toClient
    BY <1>15 DEF MQTTYield, netVars
  <2>5. QED
    BY <1>3, <1>8, <2>3, <2>4, <1>b1, <1>c1
<1>16. CASE MQTTDisconnect
  <2>1. PICK ok \in BOOLEAN : sendPacket(Packet("DISCONNECT", 0, 0), ok)
    BY <1>16 DEF MQTTDisconnect
  <2>2. Packet("DISCONNECT", 0, 0) \in Req /\ Packet("DISCONNECT", 0, 0).type # R
    BY <1>4 DEF Packet, Req, Requests
  <2>3. toBroker' \in {toBroker, Append(toBroker, Packet("DISCONNECT", 0, 0))}
    BY <2>1 DEF sendPacket
  <2>4. nb = b
    BY <2>2, <2>3, <1>b2
  <2>5. toClient' = <<>> /\ stack' = stack
    BY <1>16 DEF MQTTDisconnect
  <2>6. QED
    BY <1>3, <1>7, <2>4, <2>5, <1>c4, <1>w1
<1>17. CASE NothingRead
  <2>1. toClient' = toClient /\ stack' = stack /\ keepalive(toBroker, ping_outstanding)
    BY <1>17 DEF NothingRead
  <2>2. QED
    BY <1>6, <1>11, <2>1, <1>c1, <1>w1
<1>18. CASE AnswerRead
  <2>1. /\ toClient # <<>> /\ toClient' = Tail(toClient) /\ stack # <<>>
        /\ keepalive(toBroker, ping_outstanding /\ Head(toClient).type # "PINGRESP")
        /\ IF Matches(Head(toClient)) THEN stack' = Tail(stack) ELSE stack' = stack
    BY <1>18 DEF AnswerRead, Reading, Idle
  <2>2. nb = b
    BY <2>1, <1>11
  <2>3. nc \in Nat /\ nc <= c /\ (Head(toClient).type = A => nc <= c - 1)
    BY <2>1, <1>c3
  <2>4. CASE ~Matches(Head(toClient))
    BY <1>7, <2>1, <2>2, <2>3, <2>4, <1>w1
  <2>5. CASE Matches(Head(toClient))
    <3>1. Head(toClient).type = Awaited[Head(stack).op]
      BY <2>5 DEF Matches, Top
    <3>2. nw \in Nat /\ nw >= w - 1 /\ (Head(stack).op # op => nw >= w)
      BY <2>1, <2>5, <1>w3
    <3>3. CASE Head(stack).op = op
      <4>1. Head(toClient).type = A
        BY <3>1, <3>3 DEF A
      <4>2. QED
        BY <1>3, <2>2, <2>3, <3>2, <4>1
    <3>4. CASE Head(stack).op # op
      BY <1>8, <2>2, <2>3, <3>2, <3>4
    <3>5. QED
      BY <3>3, <3>4
  <2>6. QED
    BY <2>4, <2>5
<1>19. CASE MessageRead
  <2> DEFINE i == Head(toClient).id
  <2>1. /\ toClient # <<>> /\ toClient' = Tail(toClient) /\ toBroker' = toBroker
        /\ stack' = <<Frame("deliver", i, i)>> \o stack
    BY <1>19 DEF MessageRead
  <2>2. i \in Nat
    <3>1. Head(toClient) \in Ans
      BY <1>0, <2>1, TailElements
    <3>2. QED
      BY <3>1 DEF Ans
  <2>3. Frame("deliver", i, i) \in FrameType
    BY <1>10, <2>2 DEF Ops
  <2> HIDE DEF i
  <2>4. QED
    BY <1>8, <2>1, <2>3, <1>b1, <1>c3, <1>w2
<1>20. CASE CallHandler
  <2>1. stack # <<>> /\ Head(stack).op = "deliver" /\ toBroker' = toBroker /\ toClient' = toClient
    BY <1>20 DEF CallHandler, Idle, Top, netVars
  <2>2. PICK s \in MatchingSlots : stack' = [stack EXCEPT ![1].op = "handler", ![1].slot = s]
    BY <1>20 DEF CallHandler
  <2>3. s \in 0..MAX_MESSAGE_HANDLERS
    BY BoundsAssumption DEF MatchingSlots, Shape, Results
  <2>4. SameBut("handler", stack, stack')
    BY <2>1, <2>2, <2>3, GoesOn, <1>0 DEF Shape, Frames, Delivering
  <2>5. nw = w
    BY <2>1, <2>4, <1>w4 DEF Delivering
  <2>6. QED
    BY <1>6, <2>1, <2>5, <1>b1, <1>c1
<1>21. CASE HandlerReturns
  <2>1. /\ stack # <<>> /\ Head(stack).op \in Delivering
        /\ toBroker' = toBroker /\ toClient' = toClient
    BY <1>21 DEF HandlerReturns, Idle, Top, netVars, Delivering
  <2>2. stack' = [stack EXCEPT ![1].op = "deliver"] /\ 0 \in 0..MAX_MESSAGE_HANDLERS
    BY <1>21, BoundsAssumption DEF HandlerReturns
  <2>3. SameBut("deliver", stack, stack')
    BY <2>1, <2>2, GoesOn, <1>0 DEF Shape, Frames, Delivering
  <2>4. nw = w
    BY <2>1, <2>3, <1>w4 DEF Delivering
  <2>5. QED
    BY <1>6, <2>1, <2>4, <1>b1, <1>c1
<1>22. CASE DeliverDone
  <2>0. /\ Tail(stack) # <<>>
        /\ \/ stack' = Tail(stack)
           \/ stack' = Tail(Tail(stack)) /\ Head(Tail(stack)).op = "yield"
    BY <1>22, Over
  <2>1. stack # <<>> /\ Head(stack).op = "deliver" /\ toClient' = toClient
    BY <1>22 DEF DeliverDone, Idle, Top
  <2>2. nb = b
    <3>1. CASE keepalive(toBroker, ping_outstanding)
      BY <3>1, <1>11
    <3>2. CASE \E ok \in BOOLEAN : sendPacket(Packet("PUBACK", AckId, 0), ok)
      <4>1. AckId \in Nat
        <5>1. Head(stack) \in FrameType
          BY <1>0, <2>1, TailElements
        <5>2. QED
          BY <5>1 DEF AckId, Top, FrameType
      <4>2. Packet("PUBACK", AckId, 0) \in Req /\ Packet("PUBACK", AckId, 0).type # R
        BY <1>4, <4>1 DEF Packet, Req, Requests
      <4>3. toBroker' \in {toBroker, Append(toBroker, Packet("PUBACK", AckId, 0))}
        BY <3>2 DEF sendPacket
      <4>4. QED
        BY <4>2, <4>3, <1>b2
    <3>3. QED
      BY <1>22, <3>1, <3>2 DEF DeliverDone
  <2>3. /\ Tail(stack) \in Seq(FrameType)
        /\ Cardinality(Waiting(Tail(stack), op)) \in Nat
        /\ Cardinality(Waiting(Tail(stack), op)) >= w
    <3>1. Cardinality(Waiting(Tail(stack), op)) >=
              Cardinality(Waiting(stack, op)) - (IF Head(stack).op = op THEN 1 ELSE 0)
      BY <1>0, <2>1, PopWaits
    <3>2. Tail(stack) \in Seq(FrameType)
      BY <1>0, <2>1, TailElements
    <3>3. Cardinality(Waiting(Tail(stack), op)) \in Nat
      BY <3>2, WaitingFinite
    <3>4. Head(stack).op # op
      BY <2>1 DEF Commands
    <3>5. QED
      BY <1>3, <3>1, <3>2, <3>3, <3>4 DEF w
  <2>4. CASE stack' = Tail(stack)
    <3>1. nw \in Nat /\ nw >= w
      BY <2>3, <2>4 DEF nw
    <3>2. QED
      BY <1>3, <1>8, <2>1, <2>2, <3>1, <1>c1
  <2>5. CASE stack' = Tail(Tail(stack)) /\ Head(Tail(stack)).op = "yield"
    <3>2. Cardinality(Waiting(Tail(Tail(stack)), op)) >=
              Cardinality(Waiting(Tail(stack), op)) - (IF Head(Tail(stack)).op = op THEN 1 ELSE 0)
      BY <2>0, <2>3, PopWaits
    <3>3. Tail(Tail(stack)) \in Seq(FrameType)
      BY <2>0, <2>3, TailElements
    <3>4. Cardinality(Waiting(Tail(Tail(stack)), op)) \in Nat
      BY <3>3, WaitingFinite
    <3>5. Head(Tail(stack)).op # op
      BY <2>5 DEF Commands
    <3>6. nw \in Nat /\ nw >= w
      <4>1. nw = Cardinality(Waiting(Tail(Tail(stack)), op))
        BY <2>5 DEF nw
      <4>2. nw >= Cardinality(Waiting(Tail(stack), op))
        BY <2>0, <2>3, <3>5, <4>1, PopOther
      <4>3. QED
        BY <1>3, <2>3, <3>4, <4>1, <4>2
    <3>7. QED
      BY <1>3, <1>8, <2>1, <2>2, <3>6, <1>c1
  <2>6. QED
    BY <2>0, <2>4, <2>5
<1>23. CASE TimerExpires
  <2>1. /\ stack # <<>> /\ stack' = Tail(stack) /\ toBroker' = toBroker /\ toClient' = toClient
        /\ Head(stack).op = "yield" \/ (~up /\ toClient = <<>>)
    BY <1>23 DEF TimerExpires, Reading, Idle, Top
  <2>2. nw \in Nat /\ nw >= w - 1 /\ (Head(stack).op # op => nw >= w)
    BY <2>1, <1>w3
  <2>3. CASE Head(stack).op = "yield"
    <3>1. Head(stack).op # op
      BY <2>3 DEF Commands
    <3>2. QED
      BY <1>3, <1>8, <2>1, <2>2, <3>1, <1>b1, <1>c1
  <2>4. CASE ~up /\ toClient = <<>>
    <3>1. b = 0
      BY <2>4, <1>0, NoneIs DEF Link, b, R
    <3>2. nc = 0
      BY <2>1, <2>4, <1>c4
    <3>3. QED
      BY <2>1, <2>2, <3>1, <3>2, <1>b1
  <2>5. QED
    BY <2>1, <2>3, <2>4
\* The broker answers a request with the answer that is awaited, ...
<1>24. ASSUME NEW o \in Commands, Received, Head(toBroker).type = Request[o],
              NEW p \in Ans, p.type = Awaited[o], Answer(p) \/ toClient' = toClient, stack' = stack
       PROVE  nb + nc <= nw
  <2>1. nb \in Nat /\ nb <= b /\ (Head(toBroker).type = R => nb <= b - 1)
    BY <1>24, <1>b3
  <2>2. nc \in Nat /\ nc <= c + 1 /\ (p.type # A => nc = c)
    BY <1>24, <1>c1, <1>c2, <1>3
  <2>3. nw = w
    BY <1>24, <1>w1
  <2>4. CASE o = op
    <3>1. Head(toBroker).type = R
      BY <1>24, <2>4 DEF R
    <3>2. QED
      BY <1>3, <2>1, <2>2, <2>3, <3>1
  <2>5. CASE o # op
    <3>1. p.type # A
      BY <1>24, <2>5, Differ DEF A
    <3>2. QED
      BY <1>3, <2>1, <2>2, <2>3, <3>1
  <2>6. QED
    BY <2>4, <2>5
<1>25. toBroker # <<>> => Head(toBroker).id \in Nat
  <2>1. toBroker # <<>> => Head(toBroker) \in Req
    BY <1>0, TailElements
  <2>2. QED
    BY <2>1 DEF Req
<1>26. CASE BrokerConnect
  <2>1. \A r \in {0, 1} : /\ Packet("CONNACK", 0, r) \in Ans
                          /\ Packet("CONNACK", 0, r).type = Awaited["connect"]
    BY Differ DEF Packet, Ans, Answers
  <2>2. /\ Received /\ Head(toBroker).type = Request["connect"] /\ stack' = stack
        /\ \/ \E r \in {0, 1} : Answer(Packet("CONNACK", 0, r))
           \/ toClient' = toClient
    BY <1>26, Differ DEF BrokerConnect, clientVars
  <2>3. "connect" \in Commands /\ 0 \in {0, 1}
    BY DEF Commands
  <2>4. QED
    BY <1>24, <2>1, <2>2, <2>3
<1>27. CASE BrokerSubscribe
  <2>1. /\ Received /\ Head(toBroker).type = Request["subscribe"] /\ stack' = stack
        /\ \E r \in {0, 1} : Answer(Packet("SUBACK", Head(toBroker).id, r))
    BY <1>27, Differ DEF BrokerSubscribe, clientVars
  <2>2. \A r \in {0, 1} : /\ Packet("SUBACK", Head(toBroker).id, r) \in Ans
                          /\ Packet("SUBACK", Head(toBroker).id, r).type = Awaited["subscribe"]
    BY <2>1, <1>25, Differ DEF Packet, Ans, Answers, Received
  <2>3. "subscribe" \in Commands
    BY DEF Commands
  <2>4. QED
    BY <1>24, <2>1, <2>2, <2>3
<1>28. CASE BrokerPublish
  <2>1. /\ Received /\ Head(toBroker).type = Request["publish"] /\ stack' = stack
        /\ Answer(Packet("PUBACK", Head(toBroker).id, 0))
    BY <1>28, Differ DEF BrokerPublish, clientVars
  <2>2. /\ Packet("PUBACK", Head(toBroker).id, 0) \in Ans
        /\ Packet("PUBACK", Head(toBroker).id, 0).type = Awaited["publish"]
    BY <2>1, <1>25, Differ DEF Packet, Ans, Answers, Received
  <2>3. "publish" \in Commands
    BY DEF Commands
  <2>4. QED
    BY <1>24, <2>1, <2>2, <2>3
\* ... and takes other packets without one that anybody waits for.
<1>29. CASE BrokerPuback \/ BrokerPing \/ BrokerDisconnect
  <2>1. Packet("PINGRESP", 0, 0) \in Ans /\ Packet("PINGRESP", 0, 0).type # A
    BY <1>4 DEF Packet, Ans, Answers
  <2>2. Received /\ stack' = stack /\ (toClient' = toClient \/ Answer(Packet("PINGRESP", 0, 0)))
    BY <1>29 DEF BrokerPuback, BrokerPing, BrokerDisconnect, clientVars
  <2>3. nc = c
    BY <2>1, <2>2, <1>c1, <1>c2
  <2>4. nb \in Nat /\ nb <= b
    BY <2>2, <1>b3
  <2>5. nw = w
    BY <2>2, <1>w1
  <2>6. QED
    BY <1>3, <2>3, <2>4, <2>5
<1>30. ASSUME NEW t \in Topics, NEW qos \in {0, 1}, BrokerSends(t, qos) PROVE nb + nc <= nw
  <2>1. Len(sent') \in Nat
    BY <1>0, <1>30, OneMoreMessage DEF Shape, Log
  <2>2. Packet("PUBLISH", Len(sent'), 0) \in Ans /\ Packet("PUBLISH", Len(sent'), 0).type # A
    BY <2>1, <1>4 DEF Packet, Ans, Answers
  <2>3. Answer(Packet("PUBLISH", Len(sent'), 0)) /\ toBroker' = toBroker /\ stack' = stack
    BY <1>30 DEF BrokerSends, clientVars
  <2>4. nc = c
    BY <2>2, <2>3, <1>c2
  <2>5. QED
    BY <1>6, <2>3, <2>4, <1>b1, <1>w1
<1>31. ~LinkBreaks
  BY DEF LinkBreaks
<1>32. CASE UNCHANGED vars
  <2>1. toBroker' = toBroker /\ toClient' = toClient /\ stack' = stack
    BY <1>32 DEF vars, clientVars, netVars
  <2>2. QED
    BY <1>6, <2>1, <1>b1, <1>c1, <1>w1
<1>33. QED
  BY <1>12, <1>13, <1>14, <1>15, <1>16, <1>17, <1>18, <1>19, <1>20, <1>21, <1>22, <1>23, <1>26,
     <1>27, <1>28, <1>29, <1>30, <1>31, <1>32 DEF Next, App, Running, Broker

\* A call that begins is the only new one.
LEMMA PushOther ==
    ASSUME NEW st \in Seq(FrameType), NEW f \in FrameType, NEW op, f.op # op, Waiting(st, op) = {}
    PROVE  Waiting(<<f>> \o st, op) = {}
<1> DEFINE u == <<f>> \o st
<1>1. /\ Len(u) = Len(st) + 1 /\ u[1] = f /\ Len(st) \in Nat
      /\ \A k \in 1..Len(st) : u[k + 1] = st[k]
  BY PushElements
<1> HIDE DEF u
<1>2. ASSUME NEW k \in 1..Len(u) PROVE u[k].op # op
  <2>1. CASE k = 1
    BY <1>1, <2>1
  <2>2. CASE k # 1
    <3>1. k - 1 \in 1..Len(st) /\ (k - 1) + 1 = k
      BY <1>1, <2>2
    <3>2. u[k] = st[k - 1]
      BY <1>1, <3>1
    <3>3. QED
      BY <3>1, <3>2 DEF Waiting
  <2>3. QED
    BY <2>1, <2>2
<1>3. QED
  BY <1>2 DEF Waiting, u

\* Nothing is on its way for a command that nobody waits in.
LEMMA NobodyWaits ==
    ASSUME Shape, Counted, NEW op \in Commands, Waiting(stack, op) = {}
    PROVE  None(toBroker, Request[op]) /\ None(toClient, Awaited[op])
<1>1. /\ toBroker \in Seq(Req) /\ toClient \in Seq(Ans)
  BY PlainQueues
<1>2. Count(toBroker, Request[op]) \in Nat /\ Count(toClient, Awaited[op]) \in Nat
  BY <1>1, CountFinite
<1>3. Cardinality(Waiting(stack, op)) = 0
  BY FS_EmptySet
<1>4. Count(toBroker, Request[op]) + Count(toClient, Awaited[op]) <= 0
  BY <1>3 DEF Counted, Owed
<1>5. Count(toBroker, Request[op]) = 0 /\ Count(toClient, Awaited[op]) = 0
  BY <1>2, <1>4
<1>6. QED
  BY <1>1, <1>5, NoneIs

\* A CONNECT on its way is the only request, and nothing has been answered.
LEMMA Connecting ==
    ASSUME Shape, Counted, Link, toBroker # <<>>, Head(toBroker).type = "CONNECT"
    PROVE  /\ ~isconnected /\ None(toClient, "CONNACK")
           /\ \A op \in Commands : None(Tail(toBroker), Request[op])
<1>1. /\ toBroker \in Seq(Req) /\ toClient \in Seq(Ans) /\ stack \in Seq(FrameType)
      /\ isconnected \in BOOLEAN
  BY PlainQueues
<1>2. "connect" \in Commands /\ Request["connect"] = "CONNECT" /\ Awaited["connect"] = "CONNACK"
  BY Differ DEF Commands
<1>3. ~None(toBroker, "CONNECT")
  BY <1>1, NoneTail
<1>4. Waiting(stack, "connect") # {}
  BY <1>2, <1>3, NobodyWaits
<1>5. ~isconnected
  BY <1>4 DEF Link
<1>6. Len(stack) <= 1 /\ \A k \in 1..Len(stack) : stack[k].op \in {"connect", "yield"}
  BY <1>1, <1>5 DEF Link
<1>7. Waiting(stack, "connect") = {1}
  <2>1. Len(stack) \in Nat
    BY <1>1
  <2>2. \A k \in 1..Len(stack) : k = 1
    BY <1>6, <2>1
  <2>3. QED
    BY <1>4, <2>2 DEF Waiting
<1>8. \A op \in Commands : op # "connect" => Waiting(stack, op) = {}
  <2>1. \A op \in Commands : op \notin {"yield"}
    BY DEF Commands
  <2>2. QED
    BY <1>6, <2>1 DEF Waiting
<1>9. Cardinality(Waiting(stack, "connect")) = 1
  BY <1>7, FS_Singleton
<1>10. Count(toBroker, "CONNECT") + Count(toClient, "CONNACK") <= 1
  BY <1>2, <1>9 DEF Counted, Owed
<1>11. /\ Count(toBroker, "CONNECT") \in Nat /\ Count(toClient, "CONNACK") \in Nat
       /\ Count(toBroker, "CONNECT") # 0
  BY <1>1, <1>3, CountFinite, NoneIs
<1>12. Count(toClient, "CONNACK") = 0 /\ Count(toBroker, "CONNECT") = 1
  BY <1>10, <1>11
<1>13. Tail(toBroker) \in Seq(Req)
  BY <1>1, TailElements
<1>14. None(Tail(toBroker), "CONNECT")
  <2>1. Count(Tail(toBroker), "CONNECT") <= 1 - 1 /\ Count(Tail(toBroker), "CONNECT") \in Nat
    BY <1>1, <1>12, <1>13, TailCount, CountFinite
  <2>2. Count(Tail(toBroker), "CONNECT") = 0
    BY <2>1
  <2>3. QED
    BY <1>13, <2>2, NoneIs
<1>15. \A op \in Commands : op # "connect" => None(Tail(toBroker), Request[op])
  BY <1>1, <1>8, NobodyWaits, NoneTail
<1>16. None(toClient, "CONNACK")
  BY <1>1, <1>12, NoneIs
<1>17. QED
  BY <1>2, <1>5, <1>14, <1>15, <1>16

\* As long as nothing is late a session is known on both sides, without one nothing but
\* connect and yield is in progress and no message comes, and a broken connection
\* has no request on it.
LEMMA LinkStays ==
    ASSUME Shape, Counted, Link, [Next]_vars, ~late'
    PROVE  Link'
<1>0. /\ toBroker \in Seq(Req) /\ toClient \in Seq(Ans) /\ stack \in Seq(FrameType)
      /\ up \in BOOLEAN /\ isconnected \in BOOLEAN
      /\ next_packetid \in Nat /\ calls \in Nat /\ Len(sent) \in Nat
      /\ next_packetid' \in Nat /\ calls' \in Nat
  BY PlainQueues, CountsStay, BoundsAssumption DEF Shape, Counts, PacketIds
<1>1. ~late
  BY LateStays
<1> DEFINE Some(st, q, sub) ==
              /\ Len(st) <= 1 /\ \A k \in 1..Len(st) : st[k].op \in {"connect", "yield"}
              /\ None(q, "PUBLISH") /\ (up => sub = {})
           Refused(q) == \A k \in 1..Len(q) : ~(q[k].type = "CONNACK" /\ q[k].about = 0)
\* It is enough to show each of its parts.
<1>2. /\ isconnected' => up' /\ Waiting(stack', "connect") = {}
      /\ ~isconnected' =>
            /\ Len(stack') <= 1 /\ \A k \in 1..Len(stack') : stack'[k].op \in {"connect", "yield"}
            /\ None(toClient', "PUBLISH") /\ (up' => subscribed' = {})
      /\ ~up' => \A op \in Commands : None(toBroker', Request[op])
      /\ up' \/ Refused(toClient')
      => Link'
  BY DEF Link, None, Waiting
\* Where a session is and stays there is little to show.
<1>3. ASSUME isconnected, isconnected' = isconnected, up' = up, Waiting(stack', "connect") = {}
      PROVE  Link'
  BY <1>2, <1>3 DEF Link
<1>4. isconnected => up /\ Waiting(stack, "connect") = {}
  BY DEF Link
<1>5. ~isconnected => Some(stack, toClient, subscribed)
  BY DEF Link
<1>6. ~up => \A op \in Commands : None(toBroker, Request[op])
  BY DEF Link
<1>7. up \/ Refused(toClient)
  BY DEF Link
<1>8. None(<<>>, "PUBLISH") /\ Refused(<<>>) /\ Waiting(<<>>, "connect") = {}
  BY DEF None, Waiting
\* Calls and answers end.
<1>9. ASSUME NEW st \in Seq(FrameType), st # <<>>
      PROVE  /\ Waiting(st, "connect") = {} => Waiting(Tail(st), "connect") = {}
             /\ \A q, sub : Some(st, q, sub) => Some(Tail(st), q, sub)
  <2>1. /\ Len(Tail(st)) = Len(st) - 1 /\ Len(st) \in Nat \ {0}
        /\ \A k \in 1..Len(Tail(st)) : Tail(st)[k] = st[k + 1]
    BY <1>9, TailElements
  <2>2. \A k \in 1..Len(Tail(st)) : k + 1 \in 1..Len(st)
    BY <2>1
  <2>3. Waiting(st, "connect") = {} => Waiting(Tail(st), "connect") = {}
    BY <2>1, <2>2 DEF Waiting
  <2>4. ASSUME NEW q, NEW sub, Some(st, q, sub) PROVE Some(Tail(st), q, sub)
    <3>1. Len(Tail(st)) <= 1
      BY <2>1, <2>4
    <3>2. \A k \in 1..Len(Tail(st)) : Tail(st)[k].op \in {"connect", "yield"}
      BY <2>1, <2>2, <2>4
    <3>3. QED
      BY <2>4, <3>1, <3>2
  <2>5. QED
    BY <2>3, <2>4
<1>10. ASSUME toClient # <<>>
       PROVE  /\ Refused(toClient) => Refused(Tail(toClient))
              /\ None(toClient, "PUBLISH") => None(Tail(toClient), "PUBLISH")
  <2>1. /\ Len(Tail(toClient)) = Len(toClient) - 1 /\ Len(toClient) \in Nat \ {0}
        /\ \A k \in 1..Len(Tail(toClient)) : Tail(toClient)[k] = toClient[k + 1]
    BY <1>0, <1>10, TailElements
  <2>2. \A k \in 1..Len(Tail(toClient)) : k + 1 \in 1..Len(toClient)
    BY <2>1
  <2>3. Refused(toClient) => Refused(Tail(toClient))
    BY <2>1, <2>2
  <2>4. QED
    BY <1>0, <1>10, <2>3, NoneTail
<1>11. ASSUME NEW p \in Ans, Answer(p)
       PROVE  /\ p.type # "CONNACK" \/ p.about # 0 => up \/ Refused(toClient')
              /\ p.type # "PUBLISH" /\ None(toClient, "PUBLISH") => None(toClient', "PUBLISH")
  <2>1. (up /\ toClient' = Append(toClient, p)) \/ (~up /\ toClient' = toClient)
    BY <1>0, <1>11 DEF Answer
  <2>2. p.type # "PUBLISH" /\ None(toClient, "PUBLISH") => None(Append(toClient, p), "PUBLISH")
    BY <1>0, NoneAppend
  <2>3. QED
    BY <1>7, <2>1, <2>2
\* What is sent on a broken connection is lost.
<1>12. ASSUME NEW outstanding, keepalive(toBroker, outstanding) PROVE ~up => toBroker' = toBroker
  BY <1>12 DEF keepalive
<1>13. ASSUME NEW p, NEW ok, sendPacket(p, ok) PROVE ~up => toBroker' = toBroker
  BY <1>13 DEF sendPacket
<1>14. \A o \in Ops, i, arg \in Nat : Frame(o, i, arg) \in FrameType /\ Frame(o, i, arg).op = o
  BY NewFrames
<1>15. ASSUME NEW f \in FrameType, Len(<<f>>) = 1
       PROVE  /\ f.op # "connect" => Waiting(<<f>>, "connect") = {}
              /\ f.op \in {"connect", "yield"} =>
                    Len(<<f>>) <= 1 /\ \A k \in 1..Len(<<f>>) : <<f>>[k].op \in {"connect", "yield"}
  <2>1. \A k \in 1..Len(<<f>>) : <<f>>[k] = f
    OBVIOUS
  <2>2. QED
    BY <1>15, <2>1 DEF Waiting
<1> HIDE DEF Some, Refused, Link
<1>16. Len(<<>>) <= 1 /\ (\A k \in 1..Len(<<>>) : <<>>[k].op \in {"connect", "yield"})
  OBVIOUS
<1>17. CASE MQTTConnect
  <2>1. PICK ok \in BOOLEAN : /\ sendPacket(Packet("CONNECT", 0, 0), ok)
                              /\ Call(Frame("connect", 0, 0), ok, stack)
    BY <1>17 DEF MQTTConnect
  <2>2. /\ stack = <<>> /\ ~isconnected /\ isconnected' = isconnected /\ up' = up
        /\ toClient' = toClient /\ subscribed' = subscribed
    BY <1>17 DEF MQTTConnect, Idle, brokerVars
  <2> DEFINE f == Frame("connect", 0, 0)
  <2>3. f \in FrameType /\ f.op = "connect"
    BY <1>14 DEF Ops
  <2>4. stack' = <<f>> \/ stack' = <<>>
    BY <2>1, <2>2 DEF Call
  <2> HIDE DEF f
  <2>5. Len(stack') <= 1 /\ \A k \in 1..Len(stack') : stack'[k].op \in {"connect", "yield"}
    BY <1>15, <1>16, <2>3, <2>4
  <2>6. ~up => toBroker' = toBroker
    BY <2>1, <1>13
  <2>7. QED
    BY <1>2, <1>5, <1>6, <1>7, <2>2, <2>5, <2>6 DEF Some
<1>18. ASSUME NEW o \in {"subscribe", "publish", "deliver"}, NEW f \in FrameType, f.op = o,
              NEW ok \in BOOLEAN, NEW st \in Seq(FrameType), Waiting(st, "connect") = {},
              Call(f, ok, st)
       PROVE  Waiting(stack', "connect") = {}
  <2>1. stack' = <<f>> \o st \/ stack' = st
    BY <1>18 DEF Call
  <2>2. Waiting(<<f>> \o st, "connect") = {}
    BY <1>18, PushOther
  <2>3. QED
    BY <1>18, <2>1, <2>2
<1>19. ASSUME NEW t \in Topics, MQTTSubscribe(t) PROVE Link'
  <2> DEFINE f == Frame("subscribe", next_packetid', t)
  <2>1. PICK ok \in BOOLEAN : Call(f, ok, stack)
    BY <1>19 DEF MQTTSubscribe
  <2>2. isconnected /\ isconnected' = isconnected /\ up' = up
    BY <1>19 DEF MQTTSubscribe
  <2>3. f \in FrameType /\ f.op = "subscribe"
    <3>1. t \in Nat
      BY BoundsAssumption DEF Topics
    <3>2. QED
      BY <1>0, <1>14, <3>1 DEF Ops
  <2> HIDE DEF f
  <2>4. Waiting(stack', "connect") = {}
    BY <1>0, <1>4, <1>18, <2>1, <2>2, <2>3
  <2>5. QED
    BY <1>3, <2>2, <2>4
<1>20. CASE MQTTPublish
  <2> DEFINE f == Frame("publish", next_packetid', calls')
             st == IF Idle THEN stack ELSE [stack EXCEPT ![1].op = "replied"]
  <2>1. PICK ok \in BOOLEAN : Call(f, ok, st)
    BY <1>20 DEF MQTTPublish
  <2>2. isconnected /\ isconnected' = isconnected /\ up' = up
    BY <1>20 DEF MQTTPublish
  <2>3. f \in FrameType /\ f.op = "publish"
    BY <1>0, <1>14 DEF Ops
  <2>4. st \in Seq(FrameType) /\ Waiting(st, "connect") = {}
    <3>1. CASE Idle
      BY <1>0, <1>4, <2>2, <3>1
    <3>2. CASE ~Idle
      <4>1. stack # <<>> /\ Head(stack).op = "handler"
        BY <1>20, <3>2 DEF MQTTPublish, Idle, Top
      <4>2. 1 \in 1..Len(stack) /\ "replied" \in Ops /\ 0 \in 0..MAX_MESSAGE_HANDLERS
        BY <1>0, <4>1, TailElements, BoundsAssumption DEF Ops
      <4>3. SameBut("replied", stack, [stack EXCEPT ![1].op = "replied"])
        BY <1>0, <4>2, Changed
      <4>4. Waiting([stack EXCEPT ![1].op = "replied"], "connect") = Waiting(stack, "connect")
        BY <1>0, <4>1, <4>3, SameWaits
      <4>5. [stack EXCEPT ![1].op = "replied"] \in Seq(FrameType)
        BY <4>3 DEF SameBut
      <4>6. QED
        BY <1>4, <2>2, <3>2, <4>4, <4>5
    <3>3. QED
      BY <3>1, <3>2
  <2> HIDE DEF f, st
  <2>5. Waiting(stack', "connect") = {}
    BY <1>18, <2>1, <2>3, <2>4
  <2>6. QED
    BY <1>3, <2>2, <2>5
<1>21. CASE MQTTYield
  <2> DEFINE f == Frame("yield", 0, 0)
  <2>1. /\ stack' = <<f>> /\ isconnected' = isconnected /\ up' = up /\ toBroker' = toBroker
        /\ toClient' = toClient /\ subscribed' = subscribed
    BY <1>21 DEF MQTTYield, brokerVars, netVars
  <2>2. f \in FrameType /\ f.op = "yield"
    BY <1>14 DEF Ops
  <2> HIDE DEF f
  <2>3. /\ Waiting(stack', "connect") = {}
        /\ Len(stack') <= 1 /\ \A k \in 1..Len(stack') : stack'[k].op \in {"connect", "yield"}
    BY <1>15, <2>1, <2>2
  <2>4. QED
    BY <1>2, <1>4, <1>5, <1>6, <1>7, <2>1, <2>3 DEF Some
<1>22. CASE MQTTDisconnect
  <2>1. /\ stack = <<>> /\ stack' = <<>> /\ ~isconnected' /\ ~up' /\ toClient' = <<>>
    BY <1>22 DEF MQTTDisconnect, Idle
  <2>2. PICK ok \in BOOLEAN : sendPacket(Packet("DISCONNECT", 0, 0), ok)
    BY <1>22 DEF MQTTDisconnect
  <2> DEFINE p == Packet("DISCONNECT", 0, 0)
  <2>3. p \in Req /\ \A op \in Commands : p.type # Request[op]
    <3>1. p \in Req /\ p.type = "DISCONNECT"
      BY DEF Packet, Req, Requests
    <3>2. QED
      BY <3>1, Differ
  <2>4. toBroker' = toBroker \/ toBroker' = Append(toBroker, p)
    BY <2>2 DEF sendPacket
  <2> HIDE DEF p
  <2>5. ASSUME NEW op \in Commands PROVE None(toBroker', Request[op])
    <3>1. Waiting(stack, op) = {}
      BY <2>1 DEF Waiting
    <3>2. None(toBroker, Request[op])
      BY <3>1, NobodyWaits
    <3>3. None(Append(toBroker, p), Request[op])
      BY <1>0, <2>3, <3>2, NoneAppend
    <3>4. QED
      BY <2>4, <3>2, <3>3
  <2>6. QED
    BY <1>2, <1>8, <1>16, <2>1, <2>5
<1>23. CASE NothingRead
  <2>1. /\ stack' = stack /\ isconnected' = isconnected /\ up' = up /\ toClient' = toClient
        /\ subscribed' = subscribed /\ keepalive(toBroker, ping_outstanding)
    BY <1>23 DEF NothingRead, brokerVars
  <2>2. ~up => toBroker' = toBroker
    BY <2>1, <1>12
  <2>3. QED
    BY <1>2, <1>4, <1>5, <1>6, <1>7, <2>1, <2>2 DEF Some
<1>24. CASE AnswerRead
  <2>1. /\ stack # <<>> /\ toClient # <<>> /\ toClient' = Tail(toClient) /\ up' = up
        /\ subscribed' = subscribed
        /\ keepalive(toBroker, ping_outstanding /\ Head(toClient).type # "PINGRESP")
    BY <1>24 DEF AnswerRead, Reading, Idle, brokerVars
  <2>2. ~up => toBroker' = toBroker
    BY <2>1, <1>12
  <2>3. CASE Matches(Head(toClient)) /\ Head(stack).op = "connect"
    <3>1. Head(toClient).type = "CONNACK" /\ stack' = Tail(stack)
      BY <1>24, <2>3, Differ DEF AnswerRead, Matches, Top
    <3>2. isconnected' = (Head(toClient).about = 0)
      BY <1>24, <2>3 DEF AnswerRead, ConnackRead, Top
    <3>3. Waiting(stack, "connect") # {} /\ Len(stack) \in Nat \ {0}
      <4>1. 1 \in 1..Len(stack) /\ stack[1].op = "connect" /\ Len(stack) \in Nat \ {0}
        BY <1>0, <2>1, <2>3, TailElements
      <4>2. QED
        BY <4>1 DEF Waiting
    <3>4. ~isconnected
      BY <3>3, <1>4
    <3>5. Len(stack) = 1 /\ Some(stack, toClient, subscribed)
      BY <1>5, <3>3, <3>4 DEF Some
    <3>6. Some(Tail(stack), toClient, subscribed)
      BY <1>0, <1>9, <2>1, <3>5
    <3>7. Waiting(Tail(stack), "connect") = {}
      <4>1. Len(Tail(stack)) = 0
        BY <1>0, <2>1, <3>5, TailElements
      <4>2. QED
        BY <4>1 DEF Waiting
    <3>8. Head(toClient).about = 0 => up
      <4>1. 1 \in 1..Len(toClient) /\ toClient[1] = Head(toClient)
        BY <1>0, <2>1, TailElements
      <4>2. QED
        BY <1>7, <3>1, <4>1 DEF Refused
    <3>9. /\ None(Tail(toClient), "PUBLISH") /\ (up \/ Refused(Tail(toClient)))
      BY <1>7, <1>10, <2>1, <3>5 DEF Some
    <3>10. QED
      BY <1>2, <1>6, <2>1, <2>2, <3>1, <3>2, <3>6, <3>7, <3>8, <3>9 DEF Some
  <2>4. CASE ~(Matches(Head(toClient)) /\ Head(stack).op = "connect")
    <3>1. isconnected' = isconnected
      BY <1>24, <2>4 DEF AnswerRead, SubackRead, PubackRead, Top
    <3>2. stack' = stack \/ stack' = Tail(stack)
      BY <1>24 DEF AnswerRead
    <3>3. isconnected => Waiting(stack', "connect") = {}
      BY <1>0, <1>4, <1>9, <2>1, <3>2
    <3>4. ~isconnected => Some(stack', toClient, subscribed)
      BY <1>0, <1>5, <1>9, <2>1, <3>2
    <3>5. /\ None(toClient, "PUBLISH") => None(toClient', "PUBLISH")
          /\ up \/ Refused(toClient')
      BY <1>7, <1>10, <2>1
    <3>6. QED
      BY <1>2, <1>4, <1>6, <2>1, <2>2, <3>1, <3>3, <3>4, <3>5 DEF Some
  <2>5. QED
    BY <2>3, <2>4
<1>25. CASE MessageRead
  <2> DEFINE i == Head(toClient).id
             f == Frame("deliver", i, i)
  <2>1. /\ toClient # <<>> /\ Head(toClient).type = "PUBLISH" /\ stack' = <<f>> \o stack
        /\ isconnected' = isconnected /\ up' = up
    BY <1>25 DEF MessageRead
  <2>2. ~None(toClient, "PUBLISH")
    BY <1>0, <2>1, NoneTail
  <2>3. isconnected
    BY <1>5, <2>2 DEF Some
  <2>4. f \in FrameType /\ f.op = "deliver"
    <3>1. Head(toClient) \in Ans
      BY <1>0, <2>1, TailElements
    <3>2. i \in Nat
      BY <3>1 DEF Ans
    <3>3. QED
      BY <1>14, <3>2 DEF Ops
  <2> HIDE DEF f
  <2>5. Waiting(stack', "connect") = {}
    BY <1>0, <1>4, <2>1, <2>3, <2>4, PushOther
  <2>6. QED
    BY <1>3, <2>1, <2>3, <2>5
\* Where there is a delivery there is a session.
<1>26. ASSUME stack # <<>>, Head(stack).op \in Delivering PROVE isconnected
  <2>1. 1 \in 1..Len(stack) /\ stack[1] = Head(stack)
    BY <1>0, <1>26, TailElements
  <2>2. QED
    BY <1>5, <1>26, <2>1 DEF Some, Delivering
<1>27. ASSUME NEW o \in Delivering, stack # <<>>, Head(stack).op \in Delivering,
              SameBut(o, stack, stack'), isconnected' = isconnected, up' = up
       PROVE  Link'
  <2>1. "connect" # o /\ "connect" # Head(stack).op
    BY <1>27 DEF Delivering
  <2>2. Waiting(stack', "connect") = Waiting(stack, "connect")
    BY <1>0, <1>27, <2>1, SameWaits
  <2>3. QED
    BY <1>3, <1>4, <1>26, <1>27, <2>2
<1>28. CASE CallHandler
  <2>1. stack # <<>> /\ Head(stack).op = "deliver" /\ isconnected' = isconnected /\ up' = up
    BY <1>28 DEF CallHandler, Idle, Top, netVars
  <2>2. PICK s \in MatchingSlots : stack' = [stack EXCEPT ![1].op = "handler", ![1].slot = s]
    BY <1>28 DEF CallHandler
  <2>3. s \in 0..MAX_MESSAGE_HANDLERS
    BY BoundsAssumption DEF MatchingSlots, Shape, Results
  <2>4. SameBut("handler", stack, stack')
    BY <2>1, <2>2, <2>3, GoesOn, <1>0 DEF Shape, Frames, Delivering
  <2>5. QED
    BY <1>27, <2>1, <2>4 DEF Delivering
<1>29. CASE HandlerReturns
  <2>1. stack # <<>> /\ Head(stack).op \in Delivering /\ isconnected' = isconnected /\ up' = up
    BY <1>29 DEF HandlerReturns, Idle, Top, netVars, Delivering
  <2>2. stack' = [stack EXCEPT ![1].op = "deliver"] /\ 0 \in 0..MAX_MESSAGE_HANDLERS
    BY <1>29, BoundsAssumption DEF HandlerReturns
  <2>3. SameBut("deliver", stack, stack')
    BY <2>1, <2>2, GoesOn, <1>0 DEF Shape, Frames, Delivering
  <2>4. QED
    BY <1>27, <2>1, <2>3 DEF Delivering
<1>30. CASE DeliverDone
  <2>1. /\ stack # <<>> /\ Head(stack).op = "deliver" /\ isconnected' = isconnected /\ up' = up
        /\ stack' = Tail(stack) \/ stack' = Tail(Tail(stack))
    BY <1>30 DEF DeliverDone, Idle, Top
  <2>2. isconnected
    BY <2>1, <1>26 DEF Delivering
  <2>3. Tail(stack) # <<>> /\ Tail(stack) \in Seq(FrameType)
    <3>1. StackFits(stack, calls, Len(sent)) /\ Head(stack).op \in Delivering
      BY <2>1 DEF Shape, Frames, Delivering
    <3>2. Tail(stack) # <<>>
      BY <1>0, <2>1, <3>1, Pop
    <3>3. QED
      BY <1>0, <2>1, <3>2, TailElements
  <2>4. Waiting(Tail(stack), "connect") = {}
    BY <1>0, <1>4, <1>9, <2>1, <2>2
  <2>5. Waiting(Tail(Tail(stack)), "connect") = {}
    BY <1>9, <2>3, <2>4
  <2>6. QED
    BY <1>3, <2>1, <2>2, <2>4, <2>5
<1>31. CASE TimerExpires
  <2>1. /\ stack # <<>> /\ stack' = Tail(stack) /\ toBroker' = toBroker /\ toClient' = toClient
        /\ isconnected' = isconnected /\ up' = up /\ subscribed' = subscribed
    BY <1>31 DEF TimerExpires, Reading, Idle, brokerVars
  <2>2. isconnected => Waiting(stack', "connect") = {}
    BY <1>0, <1>4, <1>9, <2>1
  <2>3. ~isconnected => Some(stack', toClient, subscribed)
    BY <1>0, <1>5, <1>9, <2>1
  <2>4. QED
    BY <1>2, <1>4, <1>6, <1>7, <2>1, <2>2, <2>3 DEF Some
<1>32. CASE BrokerConnect
  <2>1. /\ toBroker # <<>> /\ Head(toBroker).type = "CONNECT" /\ toBroker' = Tail(toBroker)
        /\ stack' = stack /\ isconnected' = isconnected /\ subscribed' = subscribed
    BY <1>32 DEF BrokerConnect, Received, clientVars
  <2>2. /\ ~isconnected /\ None(toClient, "CONNACK")
        /\ \A op \in Commands : None(Tail(toBroker), Request[op])
    BY <2>1, Connecting
  <2>3. Refused(toClient)
    BY <2>2 DEF Refused, None
  <2>4. \A r \in {0, 1} : /\ Packet("CONNACK", 0, r) \in Ans
                          /\ Packet("CONNACK", 0, r).type = "CONNACK"
                          /\ Packet("CONNACK", 0, r).about = r
    BY DEF Packet, Ans, Answers
  <2>5. Some(stack, toClient, subscribed)
    BY <1>5, <2>2
  <2>6. CASE up' = up /\ Answer(Packet("CONNACK", 0, 0))
    <3>1. None(toClient', "PUBLISH")
      BY <1>11, <2>4, <2>5, <2>6 DEF Some
    <3>2. up \/ toClient' = toClient
      BY <2>6 DEF Answer
    <3>3. up' \/ Refused(toClient')
      BY <1>7, <2>6, <3>2
    <3>4. QED
      BY <1>2, <2>1, <2>2, <2>5, <2>6, <3>1, <3>3 DEF Some
  <2>7. CASE ~up' /\ (Answer(Packet("CONNACK", 0, 1)) \/ toClient' = toClient)
    <3>1. None(toClient', "PUBLISH")
      BY <1>11, <2>4, <2>5, <2>7 DEF Some
    <3>2. Refused(toClient')
      <4>1. CASE toClient' = toClient
        BY <2>3, <4>1
      <4>2. CASE toClient' = Append(toClient, Packet("CONNACK", 0, 1))
        <5> DEFINE p == Packet("CONNACK", 0, 1)
        <5>1. p \in Ans /\ p.about = 1
          BY <2>4
        <5> HIDE DEF p
        <5>2. /\ Append(toClient, p) \in Seq(Ans) /\ Len(Append(toClient, p)) = Len(toClient) + 1
              /\ Append(toClient, p)[Len(toClient) + 1] = p
              /\ \A k \in 1..Len(toClient) : Append(toClient, p)[k] = toClient[k]
          BY <1>0, <5>1, AppendElements
        <5>3. Len(toClient) \in Nat /\ toClient' = Append(toClient, p)
          BY <1>0, <4>2 DEF p
        <5>4. \A k \in 1..Len(toClient') : k \in 1..Len(toClient) \/ k = Len(toClient) + 1
          BY <5>2, <5>3
        <5>5. QED
          BY <2>3, <5>1, <5>2, <5>3, <5>4 DEF Refused
      <4>3. QED
        BY <2>7, <4>1, <4>2 DEF Answer
    <3>3. QED
      BY <1>2, <2>1, <2>2, <2>5, <2>7, <3>1, <3>2 DEF Some
  <2>8. QED
    BY <1>32, <2>6, <2>7 DEF BrokerConnect
\* The broker takes a request from a queue.
<1>33. Received => \A op \in Commands : None(toBroker, Request[op]) => None(toBroker', Request[op])
  BY <1>0, NoneTail DEF Received
<1>34. CASE BrokerSubscribe
  <2>1. /\ toBroker # <<>> /\ Head(toBroker).type = "SUBSCRIBE"
        /\ stack' = stack /\ isconnected' = isconnected /\ up' = up
    BY <1>34 DEF BrokerSubscribe, Received, clientVars
  <2>2. isconnected
    <3>1. "subscribe" \in Commands /\ Request["subscribe"] = "SUBSCRIBE"
      BY Differ DEF Commands
    <3>2. ~None(toBroker, "SUBSCRIBE")
      BY <1>0, <2>1, NoneTail
    <3>3. Waiting(stack, "subscribe") # {}
      BY <3>1, <3>2, NobodyWaits
    <3>4. QED
      BY <1>5, <3>3 DEF Some, Waiting
  <2>3. QED
    BY <1>3, <1>4, <2>1, <2>2
<1>35. toBroker # <<>> => Head(toBroker).id \in Nat
  <2>1. toBroker # <<>> => Head(toBroker) \in Req
    BY <1>0, TailElements
  <2>2. QED
    BY <2>1 DEF Req
<1>36. CASE BrokerPublish \/ BrokerPing \/ BrokerPuback \/ BrokerDisconnect
  <2>1. /\ Received /\ stack' = stack /\ isconnected' = isconnected /\ up' = up
        /\ subscribed' = subscribed
        /\ \/ toClient' = toClient \/ Answer(Packet("PINGRESP", 0, 0))
           \/ Answer(Packet("PUBACK", Head(toBroker).id, 0))
    BY <1>36 DEF BrokerPublish, BrokerPing, BrokerPuback, BrokerDisconnect, clientVars, brokerVars
  <2>2. /\ \A i \in Nat : Packet("PUBACK", i, 0) \in Ans /\ Packet("PUBACK", i, 0).type = "PUBACK"
        /\ Packet("PINGRESP", 0, 0) \in Ans /\ Packet("PINGRESP", 0, 0).type = "PINGRESP"
    BY DEF Packet, Ans, Answers
  <2>3. Head(toBroker).id \in Nat
    BY <1>35, <2>1 DEF Received
  <2>4. /\ None(toClient, "PUBLISH") => None(toClient', "PUBLISH")
        /\ up \/ Refused(toClient')
    BY <1>7, <1>11, <2>1, <2>2, <2>3
  <2>5. ~up => \A op \in Commands : None(toBroker', Request[op])
    BY <1>6, <1>33, <2>1
  <2>6. QED
    BY <1>2, <1>4, <1>5, <2>1, <2>4, <2>5 DEF Some
<1>37. ASSUME NEW t \in Topics, NEW qos \in {0, 1}, BrokerSends(t, qos) PROVE Link'
  <2>1. /\ up /\ up' = up /\ stack' = stack /\ isconnected' = isconnected
        /\ t \in subscribed \/ (toBroker # <<>> /\ Head(toBroker).type = "SUBSCRIBE")
    BY <1>37 DEF BrokerSends, clientVars
  <2>2. isconnected
    <3>1. CASE t \in subscribed
      BY <1>5, <2>1, <3>1 DEF Some
    <3>2. CASE toBroker # <<>> /\ Head(toBroker).type = "SUBSCRIBE"
      <4>1. "subscribe" \in Commands /\ Request["subscribe"] = "SUBSCRIBE"
        BY Differ DEF Commands
      <4>2. ~None(toBroker, "SUBSCRIBE")
        BY <1>0, <3>2, NoneTail
      <4>3. Waiting(stack, "subscribe") # {}
        BY <4>1, <4>2, NobodyWaits
      <4>4. QED
        BY <1>5, <4>3 DEF Some, Waiting
    <3>3. QED
      BY <2>1, <3>1, <3>2
  <2>3. QED
    BY <1>3, <1>4, <2>1, <2>2
<1>38. ~LinkBreaks
  BY DEF LinkBreaks
<1>39. CASE UNCHANGED vars
  <2>1. /\ stack' = stack /\ isconnected' = isconnected /\ up' = up /\ toBroker' = toBroker
        /\ toClient' = toClient /\ subscribed' = subscribed
    BY <1>39 DEF vars, clientVars, netVars, brokerVars
  <2>2. QED
    BY <1>2, <1>4, <1>5, <1>6, <1>7, <2>1 DEF Some
<1>40. QED
  BY <1>17, <1>19, <1>20, <1>21, <1>22, <1>23, <1>24, <1>25, <1>28, <1>29, <1>30, <1>31, <1>32,
     <1>34, <1>36, <1>37, <1>38, <1>39 DEF Next, App, Running, Broker

\* Whether a PUBLISH of call c is in a queue; that none of the publishes is lost: the broker
\* has accepted it, or is going to.
Carries(q, c) == \E k \in 1..Len(q) : q[k].type = "PUBLISH" /\ q[k].about = c
Made == \A c \in 1..calls : c \in accepted \/ Carries(toBroker, c)

\* A publish in a queue stays there until it is at the front.
LEMMA CarriesOn ==
    ASSUME NEW S, NEW q \in Seq(S), NEW c
    PROVE  /\ \A e \in S : /\ Carries(q, c) => Carries(Append(q, e), c)
                           /\ e.type = "PUBLISH" /\ e.about = c => Carries(Append(q, e), c)
           /\ q # <<>> /\ Carries(q, c) =>
                 \/ Carries(Tail(q), c)
                 \/ Head(q).type = "PUBLISH" /\ Head(q).about = c
<1>1. ASSUME NEW e \in S
      PROVE  /\ Carries(q, c) => Carries(Append(q, e), c)
             /\ e.type = "PUBLISH" /\ e.about = c => Carries(Append(q, e), c)
  <2> DEFINE a == Append(q, e)
  <2>1. /\ Len(a) = Len(q) + 1 /\ a[Len(q) + 1] = e /\ Len(q) \in Nat
        /\ \A k \in 1..Len(q) : a[k] = q[k]
    BY AppendElements
  <2> HIDE DEF a
  <2>2. Len(q) + 1 \in 1..Len(a) /\ \A k \in 1..Len(q) : k \in 1..Len(a)
    BY <2>1
  <2>3. Carries(q, c) => Carries(a, c)
    BY <2>1, <2>2 DEF Carries
  <2>4. e.type = "PUBLISH" /\ e.about = c => Carries(a, c)
    BY <2>1, <2>2 DEF Carries
  <2>5. QED
    BY <2>3, <2>4 DEF a
<1>2. ASSUME q # <<>>, Carries(q, c)
      PROVE  Carries(Tail(q), c) \/ (Head(q).type = "PUBLISH" /\ Head(q).about = c)
  <2>1. /\ Len(Tail(q)) = Len(q) - 1 /\ Len(q) \in Nat \ {0} /\ Head(q) = q[1]
        /\ \A k \in 1..(Len(q) - 1) : Tail(q)[k] = q[k + 1]
    BY <1>2, TailElements
  <2>2. PICK k \in 1..Len(q) : q[k].type = "PUBLISH" /\ q[k].about = c
    BY <1>2 DEF Carries
  <2>3. CASE k = 1
    BY <2>1, <2>2, <2>3
  <2>4. CASE k # 1
    <3>1. k - 1 \in 1..(Len(q) - 1) /\ (k - 1) + 1 = k
      BY <2>1, <2>4
    <3>2. Tail(q)[k - 1] = q[k] /\ k - 1 \in 1..Len(Tail(q))
      BY <2>1, <3>1
    <3>3. QED
      BY <2>2, <3>2 DEF Carries
  <2>5. QED
    BY <2>3, <2>4
<1>3. QED
  BY <1>1, <1>2

\* While nothing is late no publish is lost.
LEMMA MadeStays ==
    ASSUME Shape, Link, Made, [Next]_vars, ~late'
    PROVE  Made'
<1>0. /\ toBroker \in Seq(Req) /\ stack \in Seq(FrameType)
      /\ up \in BOOLEAN /\ next_packetid' \in Nat /\ calls \in Nat /\ calls' \in Nat
      /\ \A t \in Topics : t \in Nat
  BY PlainQueues, CountsStay, BoundsAssumption DEF Shape, Counts, PacketIds, Topics
<1>1. ASSUME calls' = calls, accepted' = accepted,
             \A c : Carries(toBroker, c) => Carries(toBroker', c)
      PROVE  Made'
  <2>1. ASSUME NEW c \in 1..calls PROVE c \in accepted \/ Carries(toBroker', c)
    BY <1>1 DEF Made
  <2>2. QED
    BY <1>1, <2>1 DEF Made, Carries
<1>2. ASSUME NEW p \in Req, toBroker' \in {toBroker, Append(toBroker, p)}
      PROVE  \A c : Carries(toBroker, c) => Carries(toBroker', c)
  <2>1. \A c : Carries(toBroker, c) => Carries(Append(toBroker, p), c)
    BY <1>0, CarriesOn
  <2>2. CASE toBroker' = toBroker
    BY <2>2
  <2>3. CASE toBroker' = Append(toBroker, p)
    BY <2>1, <2>3
  <2>4. QED
    BY <1>2, <2>2, <2>3
<1>3. ASSUME Received, Head(toBroker).type # "PUBLISH"
      PROVE  \A c : Carries(toBroker, c) => Carries(toBroker', c)
  BY <1>0, <1>3, CarriesOn DEF Received
<1>4. \A type \in Requests, i, about \in Nat :
          /\ Packet(type, i, about) \in Req /\ Packet(type, i, about).type = type
          /\ Packet(type, i, about).about = about
  BY DEF Packet, Req
<1>5. ASSUME NEW queue, queue = toBroker, NEW outstanding, keepalive(queue, outstanding)
      PROVE  \A c : Carries(toBroker, c) => Carries(toBroker', c)
  <2>1. toBroker' \in {toBroker, Append(toBroker, Packet("PINGREQ", 0, 0))}
    BY <1>5 DEF keepalive
  <2>2. QED
    BY <2>1, <1>2, <1>4 DEF Requests
<1>6. CASE MQTTPublish
  <2> DEFINE p == Packet("PUBLISH", next_packetid', calls')
  <2>1. PICK ok \in BOOLEAN : sendPacket(p, ok)
    BY <1>6 DEF MQTTPublish
  <2>2. calls' = calls + 1 /\ accepted' = accepted /\ isconnected
    BY <1>6 DEF MQTTPublish, brokerVars
  <2>3. p \in Req /\ p.type = "PUBLISH" /\ p.about = calls'
    BY <1>0, <1>4 DEF Requests
  <2> HIDE DEF p
  <2>4. up
    BY <2>2 DEF Link
  <2>5. toBroker' = Append(toBroker, p)
    BY <2>1, <2>4 DEF sendPacket
  <2>6. ASSUME NEW c \in 1..calls' PROVE c \in accepted \/ Carries(toBroker', c)
    <3>1. CASE c = calls'
      BY <1>0, <2>3, <2>5, <3>1, CarriesOn
    <3>2. CASE c # calls'
      <4>1. c \in 1..calls
        BY <1>0, <2>2, <3>2
      <4>2. QED
        BY <1>0, <2>3, <2>5, <4>1, CarriesOn DEF Made
    <3>3. QED
      BY <3>1, <3>2
  <2>7. QED
    BY <2>2, <2>6 DEF Made, Carries
<1>7. CASE BrokerPublish
  <2>1. /\ calls' = calls /\ accepted' = accepted \cup {Head(toBroker).about}
        /\ toBroker # <<>> /\ toBroker' = Tail(toBroker)
    BY <1>7 DEF BrokerPublish, Received, clientVars
  <2>2. ASSUME NEW c \in 1..calls PROVE c \in accepted' \/ Carries(toBroker', c)
    BY <1>0, <2>1, CarriesOn DEF Made
  <2>3. QED
    BY <2>1, <2>2 DEF Made, Carries
<1>8. CASE MQTTConnect
  BY <1>1, <1>2, <1>4, <1>8 DEF MQTTConnect, sendPacket, brokerVars, Requests
<1>9. ASSUME NEW t \in Topics, MQTTSubscribe(t) PROVE Made'
  <2>1. Packet("SUBSCRIBE", next_packetid', t) \in Req
    BY <1>0, <1>4 DEF Requests
  <2>2. /\ toBroker' \in {toBroker, Append(toBroker, Packet("SUBSCRIBE", next_packetid', t))}
        /\ calls' = calls /\ accepted' = accepted
    BY <1>9 DEF MQTTSubscribe, sendPacket, brokerVars
  <2>3. QED
    BY <1>1, <1>2, <2>1, <2>2
<1>10. CASE MQTTDisconnect
  BY <1>1, <1>2, <1>4, <1>10 DEF MQTTDisconnect, sendPacket, brokerVars, Requests
<1>11. CASE NothingRead
  BY <1>1, <1>5, <1>11 DEF NothingRead, brokerVars
<1>12. CASE AnswerRead
  <2>1. /\ calls' = calls /\ accepted' = accepted
        /\ keepalive(toBroker, ping_outstanding /\ Head(toClient).type # "PINGRESP")
    BY <1>12 DEF AnswerRead, brokerVars
  <2>2. QED
    BY <1>1, <1>5, <2>1
<1>13. CASE MQTTYield \/ MessageRead \/ CallHandler \/ HandlerReturns \/ TimerExpires
  <2>1. calls' = calls /\ accepted' = accepted /\ toBroker' = toBroker
    BY <1>13 DEF MQTTYield, MessageRead, CallHandler, HandlerReturns, TimerExpires,
                 brokerVars, netVars
  <2>2. QED
    BY <1>1, <2>1
<1>14. CASE DeliverDone
  <2>1. stack # <<>> /\ calls' = calls /\ accepted' = accepted
    BY <1>14 DEF DeliverDone, Idle, brokerVars
  <2>2. AckId \in Nat
    <3>1. Head(stack) \in FrameType
      BY <1>0, <2>1, TailElements
    <3>2. QED
      BY <3>1 DEF AckId, Top, FrameType
  <2>3. CASE keepalive(toBroker, ping_outstanding)
    BY <1>1, <1>5, <2>1, <2>3
  <2>4. ASSUME NEW ok \in BOOLEAN, sendPacket(Packet("PUBACK", AckId, 0), ok) PROVE Made'
    <3>1. Packet("PUBACK", AckId, 0) \in Req
      BY <1>4, <2>2 DEF Requests
    <3>2. toBroker' \in {toBroker, Append(toBroker, Packet("PUBACK", AckId, 0))}
      BY <2>4 DEF sendPacket
    <3>3. QED
      BY <1>1, <1>2, <2>1, <3>1, <3>2
  <2>5. QED
    BY <1>14, <2>3, <2>4 DEF DeliverDone
<1>15. CASE BrokerConnect \/ BrokerSubscribe \/ BrokerPuback \/ BrokerPing \/ BrokerDisconnect
  <2>1. calls' = calls /\ accepted' = accepted /\ Received /\ Head(toBroker).type # "PUBLISH"
    BY <1>15 DEF BrokerConnect, BrokerSubscribe, BrokerPuback, BrokerPing, BrokerDisconnect,
                 clientVars, brokerVars
  <2>2. QED
    BY <1>1, <1>3, <2>1
<1>16. ASSUME NEW t \in Topics, NEW qos \in {0, 1}, BrokerSends(t, qos) PROVE Made'
  <2>1. calls' = calls /\ accepted' = accepted /\ toBroker' = toBroker
    BY <1>16 DEF BrokerSends, clientVars
  <2>2. QED
    BY <1>1, <2>1
<1>17. ~LinkBreaks
  BY DEF LinkBreaks
<1>18. CASE UNCHANGED vars
  <2>1. calls' = calls /\ accepted' = accepted /\ toBroker' = toBroker
    BY <1>18 DEF vars, clientVars, netVars, brokerVars
  <2>2. QED
    BY <1>1, <2>1
<1>19. QED
  BY <1>6, <1>7, <1>8, <1>9, <1>10, <1>11, <1>12, <1>13, <1>14, <1>15, <1>16, <1>17, <1>18
     DEF Next, App, Running, Broker

-----------------------------------------------------------------------------
(* What holds while nothing is late. *)

\* No answer is missing, the sides agree on the session, and no publish is lost.
Calm == ~late => Counted /\ Link /\ Made

\* No answer is missing.
LEMMA CalmAlways == Spec => []Calm
<1>1. Init => Calm
  <2> SUFFICES ASSUME Init PROVE Counted /\ Link /\ Made
    BY DEF Calm
  <2> USE DEF Init
  <2>1. Counted
    <3> SUFFICES ASSUME NEW op \in Commands
                 PROVE  Count(<<>>, Request[op]) + Count(<<>>, Awaited[op])
                            <= Cardinality(Waiting(<<>>, op))
      BY DEF Counted, Owed
    <3>1. /\ Places(<<>>, Request[op]) = {} /\ Places(<<>>, Awaited[op]) = {}
          /\ Waiting(<<>>, op) = {}
      BY DEF Places, Waiting
    <3>2. Cardinality({}) = 0
      BY FS_EmptySet
    <3>3. Count(<<>>, Request[op]) = 0 /\ Count(<<>>, Awaited[op]) = 0
      BY <3>1, <3>2 DEF Count
    <3>4. Cardinality(Waiting(<<>>, op)) = 0
      BY <3>1, <3>2
    <3> HIDE DEF Init
    <3>5. QED
      BY <3>3, <3>4
  <2>2. Link
    BY DEF Link, None
  <2>3. Made
    BY DEF Made
  <2>4. QED
    BY <2>1, <2>2, <2>3
<1>2. Shape /\ Calm /\ [Next]_vars => Calm'
  <2> SUFFICES ASSUME Shape, Calm, [Next]_vars, ~late' PROVE Counted' /\ Link' /\ Made'
    BY DEF Calm
  <2>1. Counted /\ Link /\ Made
    BY LateStays DEF Calm
  <2>2. QED
    BY <2>1, CountedStays, LinkStays, MadeStays
<1>3. QED
  BY <1>1, <1>2, ShapeAlways, PTL DEF Spec

\* As long as nothing has timed out, every publish reported as delivered when the outermost
\* call has returned was accepted: the PUBACKs nested calls take from each other add up.
THEOREM AnswersAreSettled == Spec => []AnswersSettle
<1>1. Shape /\ Calm => AnswersSettle
  <2> SUFFICES ASSUME Shape, Calm, ~late, Idle, NEW c \in succeeded PROVE c \in accepted
    BY DEF AnswersSettle
  <2>1. Counted /\ Made
    BY DEF Calm
  <2>2. "publish" \in Commands /\ Request["publish"] = "PUBLISH" /\ Waiting(stack, "publish") = {}
    BY Differ DEF Commands, Waiting, Idle
  <2>3. None(toBroker, "PUBLISH")
    BY <2>1, <2>2, NobodyWaits
  <2>4. c \in 1..calls
    BY DEF Shape, Results
  <2>5. QED
    BY <2>1, <2>3, <2>4 DEF Made, Carries, None
<1>2. QED
  BY <1>1, ShapeAlways, CalmAlways, PTL

-----------------------------------------------------------------------------
(* Topics, slots and messages, while nothing is late. *)

\* A subscribe in progress is the outermost call, and for the topic s.
Last(st, s) == \A k \in Waiting(st, "subscribe") : k = Len(st) /\ st[k].arg = s

\* Handlers are in the order of the topics; one may be missing, that of the last topic.
Slots ==
    /\ Len(messageHandlers) <= subscribes
    /\ \A i \in 1..Len(messageHandlers) : messageHandlers[i] = i
    /\ Last(stack, subscribes)
    /\ Waiting(stack, "subscribe") # {} => Len(messageHandlers) + 1 = subscribes
    /\ subscribed \subseteq 1..subscribes

\* What the broker knows of the topics.
Asked ==
    /\ \A k \in 1..Len(toBroker) :
          toBroker[k].type = "SUBSCRIBE" =>
              toBroker[k].about = subscribes /\ subscribes \notin subscribed
    /\ \A k \in 1..Len(toClient) :
          toClient[k].type = "SUBACK" /\ toClient[k].about # 0 => subscribes \notin subscribed
    /\ \A t \in subscribed :
          t <= Len(messageHandlers) \/ (t = subscribes /\ Waiting(stack, "subscribe") # {})
    /\ \A i \in 1..Len(sent) : sent[i].early \/ sent[i].topic \in subscribed

\* The packets of a type in r are in q already.
NoNew(q, r, type) == \A k \in 1..Len(r) : r[k].type = type => \E j \in 1..Len(q) : r[k] = q[j]

\* Only a packet of the type is new when it is added; taking one away adds none.
LEMMA NoNewIs ==
    ASSUME NEW S, NEW q \in Seq(S), NEW type
    PROVE  /\ NoNew(q, q, type) /\ NoNew(q, <<>>, type)
           /\ \A e \in S : e.type # type => NoNew(q, Append(q, e), type)
           /\ q # <<>> => NoNew(q, Tail(q), type)
<1>1. NoNew(q, q, type) /\ NoNew(q, <<>>, type)
  BY DEF NoNew
<1>2. ASSUME NEW e \in S, e.type # type PROVE NoNew(q, Append(q, e), type)
  <2> DEFINE a == Append(q, e)
  <2>1. /\ Len(a) = Len(q) + 1 /\ a[Len(q) + 1] = e /\ Len(q) \in Nat
        /\ \A k \in 1..Len(q) : a[k] = q[k]
    BY AppendElements
  <2> HIDE DEF a
  <2>2. \A k \in 1..Len(a) : k \in 1..Len(q) \/ k = Len(q) + 1
    BY <2>1
  <2>3. NoNew(q, a, type)
    BY <1>2, <2>1, <2>2 DEF NoNew
  <2>4. QED
    BY <2>3 DEF a
<1>3. ASSUME q # <<>> PROVE NoNew(q, Tail(q), type)
  <2>1. /\ Len(Tail(q)) = Len(q) - 1 /\ Len(q) \in Nat \ {0}
        /\ \A k \in 1..(Len(q) - 1) : Tail(q)[k] = q[k + 1]
    BY <1>3, TailElements
  <2>2. \A k \in 1..Len(Tail(q)) : k + 1 \in 1..Len(q)
    BY <2>1
  <2>3. QED
    BY <2>1, <2>2 DEF NoNew
<1>4. QED
  BY <1>1, <1>2, <1>3

\* Where there is none, and none is new, there is none.
LEMMA NoneStays ==
    ASSUME NEW q, NEW r, NEW type, NoNew(q, r, type), None(q, type)
    PROVE  None(r, type)
  BY DEF NoNew, None

\* The subscribe in progress, if any, goes on.
Kept(st, u, s) == /\ Last(u, s)
                  /\ Waiting(st, "subscribe") = {} <=> Waiting(u, "subscribe") = {}

\* So it does when another call begins, returns or goes on.
LEMMA KeptIs ==
    ASSUME NEW st \in Seq(FrameType), NEW s, Last(st, s)
    PROVE  /\ Kept(st, st, s)
           /\ \A f \in FrameType : f.op # "subscribe" => Kept(st, <<f>> \o st, s)
           /\ st # <<>> /\ Head(st).op # "subscribe" => Kept(st, Tail(st), s)
           /\ \A o \in Delivering : \A u :
                 st # <<>> /\ Head(st).op \in Delivering /\ SameBut(o, st, u) => Kept(st, u, s)
           /\ st # <<>> /\ Head(st).op = "subscribe" => Tail(st) = <<>> /\ Head(st).arg = s
<1>1. Kept(st, st, s)
  BY DEF Kept
<1>2. ASSUME NEW f \in FrameType, f.op # "subscribe" PROVE Kept(st, <<f>> \o st, s)
  <2> DEFINE u == <<f>> \o st
  <2>1. /\ Len(u) = Len(st) + 1 /\ u[1] = f /\ Len(st) \in Nat
        /\ \A k \in 1..Len(st) : u[k + 1] = st[k]
    BY PushElements
  <2> HIDE DEF u
  <2>2. ASSUME NEW k \in Waiting(u, "subscribe")
        PROVE  k - 1 \in Waiting(st, "subscribe") /\ u[k] = st[k - 1] /\ k \in Nat
    <3>1. k \in 1..Len(u) /\ u[k].op = "subscribe"
      BY DEF Waiting
    <3>2. k - 1 \in 1..Len(st) /\ (k - 1) + 1 = k
      BY <1>2, <2>1, <3>1
    <3>3. u[k] = st[k - 1]
      BY <2>1, <3>2
    <3>4. QED
      BY <3>1, <3>2, <3>3 DEF Waiting
  <2>3. ASSUME NEW k \in Waiting(st, "subscribe") PROVE k + 1 \in Waiting(u, "subscribe")
    <3>1. k \in 1..Len(st) /\ st[k].op = "subscribe"
      BY DEF Waiting
    <3>2. k + 1 \in 1..Len(u) /\ u[k + 1] = st[k]
      BY <2>1, <3>1
    <3>3. QED
      BY <3>1, <3>2 DEF Waiting
  <2>4. ASSUME NEW k \in Waiting(u, "subscribe") PROVE k = Len(u) /\ u[k].arg = s
    <3>1. k - 1 = Len(st) /\ st[k - 1].arg = s
      BY <2>2 DEF Last
    <3>2. QED
      BY <2>1, <2>2, <3>1
  <2>5. QED
    BY <2>2, <2>3, <2>4 DEF Kept, Last, u
<1>3. ASSUME st # <<>>, Head(st).op # "subscribe" PROVE Kept(st, Tail(st), s)
  <2> DEFINE u == Tail(st)
  <2>1. /\ Len(u) = Len(st) - 1 /\ Len(st) \in Nat \ {0} /\ Head(st) = st[1]
        /\ \A k \in 1..(Len(st) - 1) : u[k] = st[k + 1]
    BY <1>3, TailElements
  <2> HIDE DEF u
  <2>2. ASSUME NEW k \in Waiting(st, "subscribe") PROVE k - 1 \in Waiting(u, "subscribe")
    <3>1. k \in 1..Len(st) /\ st[k].op = "subscribe" /\ k # 1
      BY <1>3, <2>1 DEF Waiting
    <3>2. k - 1 \in 1..Len(u) /\ (k - 1) + 1 = k
      BY <2>1, <3>1
    <3>3. u[k - 1] = st[k]
      BY <2>1, <3>2
    <3>4. QED
      BY <3>1, <3>2, <3>3 DEF Waiting
  <2>3. ASSUME NEW k \in Waiting(u, "subscribe")
        PROVE  k + 1 \in Waiting(st, "subscribe") /\ u[k] = st[k + 1] /\ k \in Nat
    <3>1. k \in 1..Len(u) /\ u[k].op = "subscribe"
      BY DEF Waiting
    <3>2. k + 1 \in 1..Len(st) /\ u[k] = st[k + 1]
      BY <2>1, <3>1
    <3>3. QED
      BY <3>1, <3>2 DEF Waiting
  <2>4. ASSUME NEW k \in Waiting(u, "subscribe")
        PROVE  k = Len(u) /\ u[k].arg = s
    <3>1. k + 1 = Len(st) /\ st[k + 1].arg = s
      BY <2>3 DEF Last
    <3>2. QED
      BY <2>1, <2>3, <3>1
  <2>5. QED
    BY <2>2, <2>3, <2>4 DEF Kept, Last, u
<1>4. ASSUME NEW o \in Delivering, NEW u, st # <<>>, Head(st).op \in Delivering, SameBut(o, st, u)
      PROVE  Kept(st, u, s)
  <2>1. "subscribe" # o /\ "subscribe" # Head(st).op
    BY <1>4 DEF Delivering
  <2>2. Waiting(u, "subscribe") = Waiting(st, "subscribe")
    BY <1>4, <2>1, SameWaits
  <2>3. ASSUME NEW k \in Waiting(u, "subscribe") PROVE k = Len(u) /\ u[k].arg = s
    <3>1. k = Len(st) /\ st[k].arg = s /\ k \in 1..Len(st) /\ st[k].op = "subscribe"
      BY <2>2 DEF Last, Waiting
    <3>2. k # 1
      BY <1>4, <2>1, <3>1, TailElements
    <3>3. QED
      BY <1>4, <3>1, <3>2 DEF SameBut
  <2>4. QED
    BY <2>2, <2>3 DEF Kept, Last
<1>5. ASSUME st # <<>>, Head(st).op = "subscribe" PROVE Tail(st) = <<>> /\ Head(st).arg = s
  <2>1. /\ Tail(st) \in Seq(FrameType) /\ Len(Tail(st)) = Len(st) - 1 /\ Len(st) \in Nat \ {0}
        /\ Head(st) = st[1]
    BY <1>5, TailElements
  <2>2. 1 \in Waiting(st, "subscribe")
    BY <1>5, <2>1 DEF Waiting
  <2>3. Len(st) = 1 /\ st[1].arg = s
    BY <2>2 DEF Last
  <2>4. ASSUME NEW u \in Seq(FrameType), Len(u) = 0 PROVE u = <<>>
    BY <2>4
  <2>5. Len(Tail(st)) = 0
    BY <2>1, <2>3
  <2>6. Tail(st) = <<>>
    BY <2>1, <2>4, <2>5
  <2>7. QED
    BY <2>1, <2>3, <2>6
<1>6. QED
  BY <1>1, <1>2, <1>3, <1>4, <1>5

\* A subscribe takes its answer; a step that neither asks for a topic nor answers that.
Taken == AnswerRead /\ Head(stack).op = "subscribe" /\ Matches(Head(toClient))
Quiet ==
    /\ UNCHANGED <<subscribes, messageHandlers, subscribed>>
    /\ NoNew(toBroker, toBroker', "SUBSCRIBE") /\ NoNew(toClient, toClient', "SUBACK")
    /\ Kept(stack, stack', subscribes)

\* All other steps are quiet.
LEMMA QuietSteps ==
    ASSUME Shape, Link, Slots, [Next]_vars, ~late'
    PROVE  (\E t \in Topics : MQTTSubscribe(t)) \/ Taken \/ BrokerSubscribe \/ Quiet
<1>0. /\ toBroker \in Seq(Req) /\ toClient \in Seq(Ans) /\ stack \in Seq(FrameType)
      /\ up \in BOOLEAN /\ isconnected \in BOOLEAN /\ Last(stack, subscribes)
      /\ next_packetid' \in Nat /\ calls' \in Nat /\ calls \in Nat /\ Len(sent) \in Nat
  BY PlainQueues, CountsStay, BoundsAssumption DEF Shape, Counts, PacketIds, Slots
<1> DEFINE NoAsk == NoNew(toBroker, toBroker', "SUBSCRIBE")
           NoAnswer == NoNew(toClient, toClient', "SUBACK")
           Same == UNCHANGED <<subscribes, messageHandlers, subscribed>>
<1>1. ASSUME Same, NoAsk, NoAnswer, Kept(stack, stack', subscribes) PROVE Quiet
  BY <1>1 DEF Quiet
\* Requests ...
<1>2. \A p \in Req : p.type # "SUBSCRIBE" /\ toBroker' \in {toBroker, Append(toBroker, p)} => NoAsk
  <2> SUFFICES ASSUME NEW p \in Req, p.type # "SUBSCRIBE",
                      toBroker' = toBroker \/ toBroker' = Append(toBroker, p)
               PROVE  NoAsk
    OBVIOUS
  <2>1. NoNew(toBroker, toBroker, "SUBSCRIBE") /\ NoNew(toBroker, Append(toBroker, p), "SUBSCRIBE")
    BY <1>0, NoNewIs
  <2>2. QED
    BY <2>1
<1>3. \A type \in Requests, i, about \in Nat :
          Packet(type, i, about) \in Req /\ Packet(type, i, about).type = type
  BY DEF Packet, Req
<1>4. ASSUME NEW queue, queue = toBroker, NEW outstanding, keepalive(queue, outstanding)
      PROVE  NoAsk
  <2>1. toBroker' = toBroker \/ toBroker' = Append(toBroker, Packet("PINGREQ", 0, 0))
    BY <1>4 DEF keepalive
  <2>2. QED
    BY <2>1, <1>2, <1>3 DEF Requests
<1>5. ASSUME NEW type \in Requests, type # "SUBSCRIBE", NEW i \in Nat, NEW about \in Nat,
             NEW ok, sendPacket(Packet(type, i, about), ok)
      PROVE  NoAsk
  <2>1. toBroker' = toBroker \/ toBroker' = Append(toBroker, Packet(type, i, about))
    BY <1>5 DEF sendPacket
  <2>2. QED
    BY <1>5, <2>1, <1>2, <1>3
<1>6. Received => NoAsk
  BY <1>0, NoNewIs DEF Received
<1>7. toBroker' = toBroker => NoAsk
  BY <1>0, NoNewIs
\* ... answers ...
<1>8. toClient' = toClient \/ toClient' = <<>> \/ (toClient # <<>> /\ toClient' = Tail(toClient))
          => NoAnswer
  BY <1>0, NoNewIs
<1>9. ASSUME NEW type \in Answers, type # "SUBACK", NEW i \in Nat, NEW about \in Nat,
             Answer(Packet(type, i, about))
      PROVE  NoAnswer
  <2>1. toClient' = toClient \/ toClient' = Append(toClient, Packet(type, i, about))
    BY <1>9 DEF Answer
  <2>2. Packet(type, i, about) \in Ans /\ Packet(type, i, about).type = type
    BY DEF Packet, Ans
  <2>3. QED
    BY <1>0, <1>9, <2>1, <2>2, NoNewIs
\* ... and calls.
<1>10. \A o \in Ops, i, arg \in Nat : Frame(o, i, arg) \in FrameType /\ Frame(o, i, arg).op = o
  BY NewFrames
<1>11. stack' = stack => Kept(stack, stack', subscribes)
  BY <1>0, KeptIs
<1>12. ASSUME NEW o \in Ops, o # "subscribe", NEW i \in Nat, NEW arg \in Nat, NEW ok,
              NEW st \in Seq(FrameType), Kept(stack, st, subscribes),
              Call(Frame(o, i, arg), ok, st)
       PROVE  Kept(stack, stack', subscribes)
  <2>1. stack' = <<Frame(o, i, arg)>> \o st \/ stack' = st
    BY <1>12 DEF Call
  <2>2. Kept(st, <<Frame(o, i, arg)>> \o st, subscribes)
    BY <1>10, <1>12, KeptIs DEF Kept
  <2>3. QED
    BY <1>12, <2>1, <2>2 DEF Kept
<1>13. stack # <<>> /\ Head(stack).op # "subscribe" /\ stack' = Tail(stack)
          => Kept(stack, stack', subscribes)
  BY <1>0, KeptIs
<1> HIDE DEF NoAsk, NoAnswer, Same, Quiet
<1>14. CASE MQTTConnect
  <2>1. PICK ok \in BOOLEAN : /\ sendPacket(Packet("CONNECT", 0, 0), ok)
                              /\ Call(Frame("connect", 0, 0), ok, stack)
    BY <1>14 DEF MQTTConnect
  <2>2. Same /\ toClient' = toClient
    BY <1>14 DEF MQTTConnect, Same, brokerVars
  <2>3. QED
    BY <1>0, <1>1, <1>5, <1>8, <1>11, <1>12, <2>1, <2>2, KeptIs DEF Requests, Ops
<1>15. CASE MQTTPublish
  <2> DEFINE st == IF Idle THEN stack ELSE [stack EXCEPT ![1].op = "replied"]
  <2>1. PICK ok \in BOOLEAN : /\ sendPacket(Packet("PUBLISH", next_packetid', calls'), ok)
                              /\ Call(Frame("publish", next_packetid', calls'), ok, st)
    BY <1>15 DEF MQTTPublish
  <2>2. Same /\ toClient' = toClient
    BY <1>15 DEF MQTTPublish, Same, brokerVars
  <2>3. st \in Seq(FrameType) /\ Kept(stack, st, subscribes)
    <3>1. CASE Idle
      BY <1>0, <3>1, KeptIs
    <3>2. CASE ~Idle
      <4>1. stack # <<>> /\ Head(stack).op = "handler"
        BY <1>15, <3>2 DEF MQTTPublish, Idle, Top
      <4>2. 1 \in 1..Len(stack) /\ "replied" \in Ops /\ 0 \in 0..MAX_MESSAGE_HANDLERS
        BY <1>0, <4>1, TailElements, BoundsAssumption DEF Ops
      <4>3. SameBut("replied", stack, [stack EXCEPT ![1].op = "replied"])
        BY <1>0, <4>2, Changed
      <4>4. Kept(stack, [stack EXCEPT ![1].op = "replied"], subscribes)
        BY <1>0, <4>1, <4>3, KeptIs DEF Delivering
      <4>5. [stack EXCEPT ![1].op = "replied"] \in Seq(FrameType)
        BY <4>3 DEF SameBut
      <4>6. QED
        BY <3>2, <4>4, <4>5
    <3>3. QED
      BY <3>1, <3>2
  <2> HIDE DEF st
  <2>4. Kept(stack, stack', subscribes)
    BY <1>0, <1>12, <2>1, <2>3 DEF Ops
  <2>5. NoAsk
    BY <1>0, <1>5, <2>1 DEF Requests
  <2>6. QED
    BY <1>1, <1>8, <2>2, <2>4, <2>5
<1>16. CASE MQTTYield
  <2>1. /\ stack' = <<Frame("yield", 0, 0)>> /\ stack = <<>> /\ Same /\ toBroker' = toBroker
        /\ toClient' = toClient
    BY <1>16 DEF MQTTYield, Idle, Same, brokerVars, netVars
  <2>2. Frame("yield", 0, 0) \in FrameType /\ Frame("yield", 0, 0).op = "yield"
    BY <1>10 DEF Ops
  <2>3. Kept(stack, <<Frame("yield", 0, 0)>> \o stack, subscribes)
    BY <1>0, <2>2, KeptIs
  <2>4. <<Frame("yield", 0, 0)>> \o <<>> = <<Frame("yield", 0, 0)>>
    BY <2>2
  <2>5. QED
    BY <1>1, <1>7, <1>8, <2>1, <2>3, <2>4
<1>17. CASE MQTTDisconnect
  <2>1. PICK ok \in BOOLEAN : sendPacket(Packet("DISCONNECT", 0, 0), ok)
    BY <1>17 DEF MQTTDisconnect
  <2>2. Same /\ toClient' = <<>> /\ stack' = stack
    BY <1>17 DEF MQTTDisconnect, Same, brokerVars
  <2>3. QED
    BY <1>1, <1>5, <1>8, <1>11, <2>1, <2>2 DEF Requests
<1>18. CASE NothingRead
  <2>1. Same /\ toClient' = toClient /\ stack' = stack /\ keepalive(toBroker, ping_outstanding)
    BY <1>18 DEF NothingRead, Same, brokerVars
  <2>2. QED
    BY <1>1, <1>4, <1>8, <1>11, <2>1
<1>19. CASE AnswerRead /\ ~Taken
  <2>1. /\ toClient # <<>> /\ toClient' = Tail(toClient) /\ stack # <<>>
        /\ keepalive(toBroker, ping_outstanding /\ Head(toClient).type # "PINGRESP")
        /\ UNCHANGED <<subscribes, subscribed>>
    BY <1>19 DEF AnswerRead, Reading, Idle, brokerVars
  <2>2. NoAsk /\ NoAnswer
    BY <1>4, <1>8, <2>1
  <2>3. CASE Matches(Head(toClient))
    <3>1. Head(stack).op # "subscribe"
      BY <1>19, <2>3 DEF Taken
    <3>2. stack' = Tail(stack) /\ messageHandlers' = messageHandlers
      BY <1>19, <2>3, <3>1 DEF AnswerRead, ConnackRead, PubackRead, Top
    <3>3. QED
      BY <1>1, <1>13, <2>1, <2>2, <3>1, <3>2 DEF Same
  <2>4. CASE ~Matches(Head(toClient))
    <3>1. stack' = stack /\ messageHandlers' = messageHandlers
      BY <1>19, <2>4 DEF AnswerRead
    <3>2. QED
      BY <1>1, <1>11, <2>1, <2>2, <3>1 DEF Same
  <2>5. QED
    BY <2>3, <2>4
<1>20. CASE MessageRead
  <2> DEFINE i == Head(toClient).id
             f == Frame("deliver", i, i)
  <2>1. /\ toClient # <<>> /\ toClient' = Tail(toClient) /\ toBroker' = toBroker /\ Same
        /\ stack' = <<f>> \o stack
    BY <1>20 DEF MessageRead, Same, brokerVars
  <2>2. f \in FrameType /\ f.op = "deliver"
    <3>1. Head(toClient) \in Ans
      BY <1>0, <2>1, TailElements
    <3>2. i \in Nat
      BY <3>1 DEF Ans
    <3>3. QED
      BY <1>10, <3>2 DEF Ops
  <2> HIDE DEF f
  <2>3. Kept(stack, stack', subscribes)
    BY <1>0, <2>1, <2>2, KeptIs
  <2>4. QED
    BY <1>1, <1>7, <1>8, <2>1, <2>3
<1>21. ASSUME NEW o \in Delivering, stack # <<>>, Head(stack).op \in Delivering,
              SameBut(o, stack, stack'), Same, toBroker' = toBroker, toClient' = toClient
       PROVE  Quiet
  BY <1>0, <1>1, <1>7, <1>8, <1>21, KeptIs
<1>22. CASE CallHandler
  <2>1. /\ stack # <<>> /\ Head(stack).op = "deliver" /\ Same
        /\ toBroker' = toBroker /\ toClient' = toClient
    BY <1>22 DEF CallHandler, Idle, Top, netVars, brokerVars, Same
  <2>2. PICK s \in MatchingSlots : stack' = [stack EXCEPT ![1].op = "handler", ![1].slot = s]
    BY <1>22 DEF CallHandler
  <2>3. s \in 0..MAX_MESSAGE_HANDLERS
    BY BoundsAssumption DEF MatchingSlots, Shape, Results
  <2>4. SameBut("handler", stack, stack')
    BY <2>1, <2>2, <2>3, GoesOn, <1>0 DEF Shape, Frames, Delivering
  <2>5. QED
    BY <1>21, <2>1, <2>4 DEF Delivering
<1>23. CASE HandlerReturns
  <2>1. /\ stack # <<>> /\ Head(stack).op \in Delivering /\ Same
        /\ toBroker' = toBroker /\ toClient' = toClient
    BY <1>23 DEF HandlerReturns, Idle, Top, netVars, brokerVars, Same, Delivering
  <2>2. stack' = [stack EXCEPT ![1].op = "deliver"] /\ 0 \in 0..MAX_MESSAGE_HANDLERS
    BY <1>23, BoundsAssumption DEF HandlerReturns
  <2>3. SameBut("deliver", stack, stack')
    BY <2>1, <2>2, GoesOn, <1>0 DEF Shape, Frames, Delivering
  <2>4. QED
    BY <1>21, <2>1, <2>3 DEF Delivering
<1>24. CASE DeliverDone
  <2>1. Same /\ toClient' = toClient
    BY <1>24 DEF DeliverDone, Same, brokerVars
  <2>2. /\ stack # <<>> /\ Head(stack).op = "deliver"
        /\ Tail(stack) \in Seq(FrameType) /\ Tail(stack) # <<>>
        /\ \/ stack' = Tail(stack)
           \/ stack' = Tail(Tail(stack)) /\ Head(Tail(stack)).op = "yield"
    BY <1>24, Over
  <2>3. Kept(stack, Tail(stack), subscribes)
    BY <1>0, <2>2, KeptIs
  <2>4. Head(Tail(stack)).op = "yield" => Kept(Tail(stack), Tail(Tail(stack)), subscribes)
    BY <2>2, <2>3, KeptIs DEF Kept
  <2>5. Kept(stack, stack', subscribes)
    BY <2>2, <2>3, <2>4 DEF Kept
  <2>6. NoAsk
    <3>1. CASE keepalive(toBroker, ping_outstanding)
      BY <3>1, <1>4
    <3>2. CASE \E ok \in BOOLEAN : sendPacket(Packet("PUBACK", AckId, 0), ok)
      <4>1. Head(stack) \in FrameType
        BY <1>0, <2>2, TailElements
      <4>2. AckId \in Nat
        BY <4>1 DEF AckId, Top, FrameType
      <4>3. QED
        BY <1>5, <3>2, <4>2 DEF Requests
    <3>3. QED
      BY <1>24, <3>1, <3>2 DEF DeliverDone
  <2>7. QED
    BY <1>1, <1>8, <2>1, <2>5, <2>6
<1>25. CASE TimerExpires
  <2>1. /\ stack # <<>> /\ stack' = Tail(stack) /\ toBroker' = toBroker /\ toClient' = toClient
        /\ Head(stack).op = "yield" \/ ~up
        /\ Same
    BY <1>25 DEF TimerExpires, Reading, Idle, Top, brokerVars, Same
  <2>2. Head(stack).op # "subscribe"
    <3>1. CASE ~up
      <4>1. ~isconnected
        BY <3>1 DEF Link
      <4>2. 1 \in 1..Len(stack) /\ stack[1] = Head(stack)
        BY <1>0, <2>1, TailElements
      <4>3. stack[1].op \in {"connect", "yield"}
        BY <4>1, <4>2 DEF Link
      <4>4. QED
        BY <4>2, <4>3
    <3>2. QED
      BY <2>1, <3>1
  <2>3. QED
    BY <1>1, <1>7, <1>8, <1>13, <2>1, <2>2
<1>26. toBroker # <<>> => Head(toBroker).id \in Nat
  <2>1. toBroker # <<>> => Head(toBroker) \in Req
    BY <1>0, TailElements
  <2>2. QED
    BY <2>1 DEF Req
<1>27. CASE BrokerConnect
  <2>1. /\ Received /\ Same /\ stack' = stack
        /\ \/ \E r \in {0, 1} : Answer(Packet("CONNACK", 0, r))
           \/ toClient' = toClient
    BY <1>27 DEF BrokerConnect, clientVars, Same
  <2>2. NoAnswer
    BY <1>8, <1>9, <2>1 DEF Answers
  <2>3. QED
    BY <1>1, <1>6, <1>11, <2>1, <2>2
<1>28. CASE BrokerPublish \/ BrokerPing \/ BrokerPuback \/ BrokerDisconnect
  <2>1. /\ Received /\ stack' = stack /\ Same
        /\ \/ toClient' = toClient \/ Answer(Packet("PINGRESP", 0, 0))
           \/ Answer(Packet("PUBACK", Head(toBroker).id, 0))
    BY <1>28 DEF BrokerPublish, BrokerPing, BrokerPuback, BrokerDisconnect, clientVars,
                 brokerVars, Same
  <2>2. Head(toBroker).id \in Nat
    BY <1>26, <2>1 DEF Received
  <2>3. NoAnswer
    BY <1>8, <1>9, <2>1, <2>2 DEF Answers
  <2>4. QED
    BY <1>1, <1>6, <1>11, <2>1, <2>3
<1>29. ASSUME NEW t \in Topics, NEW qos \in {0, 1}, BrokerSends(t, qos) PROVE Quiet
  <2>1. Len(sent') \in Nat
    BY <1>0, <1>29, OneMoreMessage DEF Shape, Log
  <2>2. /\ Answer(Packet("PUBLISH", Len(sent'), 0)) /\ toBroker' = toBroker /\ stack' = stack
        /\ Same
    BY <1>29 DEF BrokerSends, clientVars, Same
  <2>3. NoAnswer
    BY <1>9, <2>1, <2>2 DEF Answers
  <2>4. QED
    BY <1>1, <1>7, <1>11, <2>2, <2>3
<1>30. ~LinkBreaks
  BY DEF LinkBreaks
<1>31. CASE UNCHANGED vars
  <2>1. toBroker' = toBroker /\ toClient' = toClient /\ stack' = stack /\ Same
    BY <1>31 DEF vars, clientVars, netVars, brokerVars, Same
  <2>2. QED
    BY <1>1, <1>7, <1>8, <1>11, <2>1
<1>32. QED
  BY <1>14, <1>15, <1>16, <1>17, <1>18, <1>19, <1>20, <1>22, <1>23, <1>24, <1>25, <1>27, <1>28,
     <1>29, <1>30, <1>31 DEF Next, App, Running, Broker

\* Every message of the broker overtook its SUBACK or is for a topic it knows.
LEMMA MessagesKnown ==
    ASSUME Shape, Asked, [Next]_vars
    PROVE  /\ \A i \in 1..Len(sent') : sent'[i].early \/ sent'[i].topic \in subscribed
           /\ Len(sent) \in Nat /\ Len(sent) <= Len(sent')
           /\ \A m \in 1..Len(sent) : m \in 1..Len(sent') /\ sent'[m] = sent[m]
<1>1. /\ Len(sent) \in Nat /\ Len(sent') \in Nat /\ Len(sent) <= Len(sent')
      /\ \A m \in 1..Len(sent) : sent'[m] = sent[m]
  BY LogGrows DEF Shape, Log
<1>2. \A i \in 1..Len(sent) : sent[i].early \/ sent[i].topic \in subscribed
  BY DEF Asked
<1>3. CASE \E t \in Topics, qos \in {0, 1} : BrokerSends(t, qos)
  <2>1. PICK t \in Topics, qos \in {0, 1} : BrokerSends(t, qos)
    BY <1>3
  <2>2. PICK early \in BOOLEAN :
            /\ sent' = Append(sent, [topic |-> t, qos |-> qos, early |-> early])
            /\ t \in subscribed \/ early
    BY <2>1 DEF BrokerSends
  <2> DEFINE e == [topic |-> t, qos |-> qos, early |-> early]
  <2>3. e \in MessageType /\ e.early = early /\ e.topic = t
    BY DEF MessageType
  <2> HIDE DEF e
  <2>4. sent \in Seq(MessageType) /\ sent' = Append(sent, e)
    BY <2>2 DEF e, Shape, Log
  <2>5. Len(sent') = Len(sent) + 1 /\ sent'[Len(sent) + 1] = e
    BY <2>3, <2>4, AppendElements
  <2>6. \A i \in 1..Len(sent') : i \in 1..Len(sent) \/ i = Len(sent) + 1
    BY <1>1, <2>5
  <2>7. QED
    BY <1>1, <1>2, <2>2, <2>3, <2>5, <2>6
<1>4. CASE ~\E t \in Topics, qos \in {0, 1} : BrokerSends(t, qos)
  <2>1. sent' = sent
    BY <1>4 DEF Next, vars, clientVars, brokerVars, App, MQTTConnect, MQTTSubscribe, MQTTPublish,
                MQTTYield, MQTTDisconnect, NothingRead, Running, AnswerRead, MessageRead,
                CallHandler, HandlerReturns, DeliverDone, TimerExpires, Broker, BrokerConnect,
                BrokerSubscribe, BrokerPublish, BrokerPuback, BrokerPing, BrokerDisconnect,
                LinkBreaks
  <2>2. QED
    BY <1>1, <1>2, <2>1
<1>5. QED
  BY <1>3, <1>4

\* One SUBSCRIBE or SUBACK at most is on its way, and a subscribe waits for it.
LEMMA OneAsk ==
    ASSUME Shape, Counted, Slots
    PROVE  /\ ~None(toBroker, "SUBSCRIBE") \/ ~None(toClient, "SUBACK")
                 => Waiting(stack, "subscribe") # {}
           /\ toBroker # <<>> /\ Head(toBroker).type = "SUBSCRIBE"
                 => None(Tail(toBroker), "SUBSCRIBE") /\ None(toClient, "SUBACK")
           /\ toClient # <<>> /\ Head(toClient).type = "SUBACK"
                 => None(Tail(toClient), "SUBACK") /\ None(toBroker, "SUBSCRIBE")
<1>1. /\ toBroker \in Seq(Req) /\ toClient \in Seq(Ans) /\ stack \in Seq(FrameType)
  BY PlainQueues
<1>2. /\ "subscribe" \in Commands /\ Request["subscribe"] = "SUBSCRIBE"
      /\ Awaited["subscribe"] = "SUBACK"
  BY Differ DEF Commands
<1>3. /\ Count(toBroker, "SUBSCRIBE") + Count(toClient, "SUBACK")
             <= Cardinality(Waiting(stack, "subscribe"))
      /\ Count(toBroker, "SUBSCRIBE") \in Nat /\ Count(toClient, "SUBACK") \in Nat
  BY <1>1, <1>2, CountFinite DEF Counted, Owed
<1>4. Cardinality(Waiting(stack, "subscribe")) \in {0, 1}
  <2>1. Waiting(stack, "subscribe") \subseteq {Len(stack)}
    BY DEF Slots, Last
  <2>2. Waiting(stack, "subscribe") = {} \/ Waiting(stack, "subscribe") = {Len(stack)}
    BY <2>1
  <2>3. Cardinality({}) = 0 /\ Cardinality({Len(stack)}) = 1
    BY FS_EmptySet, FS_Singleton
  <2>4. QED
    BY <2>2, <2>3
<1>5. Count(toBroker, "SUBSCRIBE") + Count(toClient, "SUBACK") <= 1
  BY <1>3, <1>4
<1>6. ~None(toBroker, "SUBSCRIBE") \/ ~None(toClient, "SUBACK")
          => Waiting(stack, "subscribe") # {}
  BY <1>2, NobodyWaits
<1>7. ASSUME toBroker # <<>>, Head(toBroker).type = "SUBSCRIBE"
      PROVE  None(Tail(toBroker), "SUBSCRIBE") /\ None(toClient, "SUBACK")
  <2>1. Tail(toBroker) \in Seq(Req)
    BY <1>1, <1>7, TailElements
  <2>2. /\ Count(Tail(toBroker), "SUBSCRIBE") <= Count(toBroker, "SUBSCRIBE") - 1
        /\ Count(Tail(toBroker), "SUBSCRIBE") \in Nat
    BY <1>1, <1>7, <2>1, TailCount, CountFinite
  <2>3. Count(Tail(toBroker), "SUBSCRIBE") = 0 /\ Count(toClient, "SUBACK") = 0
    BY <1>3, <1>5, <2>2
  <2>4. QED
    BY <1>1, <2>1, <2>3, NoneIs
<1>8. ASSUME toClient # <<>>, Head(toClient).type = "SUBACK"
      PROVE  None(Tail(toClient), "SUBACK") /\ None(toBroker, "SUBSCRIBE")
  <2>1. Tail(toClient) \in Seq(Ans)
    BY <1>1, <1>8, TailElements
  <2>2. /\ Count(Tail(toClient), "SUBACK") <= Count(toClient, "SUBACK") - 1
        /\ Count(Tail(toClient), "SUBACK") \in Nat
    BY <1>1, <1>8, <2>1, TailCount, CountFinite
  <2>3. Count(Tail(toClient), "SUBACK") = 0 /\ Count(toBroker, "SUBSCRIBE") = 0
    BY <1>3, <1>5, <2>2
  <2>4. QED
    BY <1>1, <2>1, <2>3, NoneIs
<1>9. QED
  BY <1>6, <1>7, <1>8

\* What a subscribe does with its answer.
LEMMA Takes ==
    ASSUME TopicCount <= MAX_MESSAGE_HANDLERS, Shape, Counted, Link, Slots, Taken
    PROVE  /\ toClient # <<>> /\ Head(toClient).type = "SUBACK" /\ toClient' = Tail(toClient)
           /\ stack # <<>> /\ Tail(stack) = <<>> /\ stack' = <<>>
           /\ Len(messageHandlers) + 1 = subscribes
           /\ messageHandlers' = IF Head(toClient).about = 0
                                 THEN Append(messageHandlers, subscribes) ELSE messageHandlers
           /\ UNCHANGED <<subscribes, subscribed, sent, handled, acked, readbuf>>
           /\ None(toClient', "SUBACK")
           /\ None(toBroker, "SUBSCRIBE") /\ NoNew(toBroker, toBroker', "SUBSCRIBE")
<1>0. /\ toBroker \in Seq(Req) /\ toClient \in Seq(Ans) /\ stack \in Seq(FrameType)
  BY PlainQueues
<1>1. /\ toClient # <<>> /\ toClient' = Tail(toClient) /\ stack # <<>>
      /\ Matches(Head(toClient)) /\ Head(stack).op = "subscribe" /\ stack' = Tail(stack)
      /\ keepalive(toBroker, ping_outstanding /\ Head(toClient).type # "PINGRESP")
      /\ UNCHANGED <<subscribes, subscribed, sent, handled, acked, readbuf>>
      /\ SubackRead(Head(toClient))
  BY DEF Taken, AnswerRead, Reading, Idle, Top, brokerVars
<1>2. Head(toClient).type = "SUBACK"
  BY <1>1, Differ DEF Matches, Top
<1>3. None(Tail(toClient), "SUBACK") /\ None(toBroker, "SUBSCRIBE")
  BY <1>1, <1>2, OneAsk
<1>4. Tail(stack) = <<>> /\ Head(stack).arg = subscribes
  BY <1>0, <1>1, KeptIs DEF Slots
<1>5. Len(messageHandlers) + 1 = subscribes
  <2>1. 1 \in 1..Len(stack) /\ stack[1] = Head(stack)
    BY <1>0, <1>1, TailElements
  <2>2. Waiting(stack, "subscribe") # {}
    BY <1>1, <2>1 DEF Waiting
  <2>3. QED
    BY <2>2 DEF Slots
<1>6. Len(messageHandlers) < MAX_MESSAGE_HANDLERS
  <2>1. subscribes <= TopicCount /\ subscribes \in Nat /\ Len(messageHandlers) \in Nat
    BY BoundsAssumption DEF Shape, Counts, Results
  <2>2. QED
    BY <1>5, <2>1, BoundsAssumption
<1>7. messageHandlers' = IF Head(toClient).about = 0 THEN Append(messageHandlers, subscribes)
                         ELSE messageHandlers
  BY <1>1, <1>4, <1>6 DEF SubackRead, Top
<1>8. NoNew(toBroker, toBroker', "SUBSCRIBE")
  <2>1. Packet("PINGREQ", 0, 0) \in Req /\ Packet("PINGREQ", 0, 0).type # "SUBSCRIBE"
    BY DEF Packet, Req, Requests
  <2>2. /\ NoNew(toBroker, toBroker, "SUBSCRIBE")
        /\ NoNew(toBroker, Append(toBroker, Packet("PINGREQ", 0, 0)), "SUBSCRIBE")
    BY <1>0, <2>1, NoNewIs
  <2>3. toBroker' = toBroker \/ toBroker' = Append(toBroker, Packet("PINGREQ", 0, 0))
    BY <1>1 DEF keepalive
  <2>4. QED
    BY <2>2, <2>3
<1>9. QED
  BY <1>1, <1>2, <1>3, <1>4, <1>5, <1>7, <1>8

\* Topics, slots and what the broker knows of them stay in step.
LEMMA AskedStays ==
    ASSUME TopicCount <= MAX_MESSAGE_HANDLERS, Shape, Counted, Link, Slots, Asked,
           [Next]_vars, ~late'
    PROVE  Slots' /\ Asked'
<1>0. /\ toBroker \in Seq(Req) /\ toClient \in Seq(Ans) /\ stack \in Seq(FrameType)
      /\ next_packetid' \in Nat /\ subscribes \in Nat /\ up \in BOOLEAN
      /\ messageHandlers \in Seq(Topics) /\ Len(messageHandlers) \in Nat
      /\ \A t \in Topics : t \in Nat
  BY PlainQueues, CountsStay, BoundsAssumption DEF Shape, Counts, PacketIds, Results, Topics
<1>1. \A i \in 1..Len(sent') : sent'[i].early \/ sent'[i].topic \in subscribed
  BY MessagesKnown
<1>2. CASE Quiet
  <2>1. /\ subscribes' = subscribes /\ messageHandlers' = messageHandlers
        /\ subscribed' = subscribed
        /\ NoNew(toBroker, toBroker', "SUBSCRIBE") /\ NoNew(toClient, toClient', "SUBACK")
        /\ Last(stack', subscribes)
        /\ Waiting(stack, "subscribe") = {} <=> Waiting(stack', "subscribe") = {}
    BY <1>2 DEF Quiet, Kept
  <2>2. Slots'
    BY <2>1 DEF Slots, Last, Waiting
  <2>3. \A k \in 1..Len(toBroker') :
            toBroker'[k].type = "SUBSCRIBE" =>
                toBroker'[k].about = subscribes /\ subscribes \notin subscribed
    BY <2>1 DEF Asked, NoNew
  <2>4. \A k \in 1..Len(toClient') :
            toClient'[k].type = "SUBACK" /\ toClient'[k].about # 0 => subscribes \notin subscribed
    BY <2>1 DEF Asked, NoNew
  <2>5. \A t \in subscribed :
            t <= Len(messageHandlers) \/ (t = subscribes /\ Waiting(stack', "subscribe") # {})
    BY <2>1 DEF Asked
  <2>6. Asked'
    BY <1>1, <2>1, <2>3, <2>4, <2>5 DEF Asked, Waiting
  <2>7. QED
    BY <2>2, <2>6
<1>3. ASSUME NEW t \in Topics, MQTTSubscribe(t) PROVE Slots' /\ Asked'
  <2> DEFINE p == Packet("SUBSCRIBE", next_packetid', t)
             f == Frame("subscribe", next_packetid', t)
  <2>1. PICK ok \in BOOLEAN : sendPacket(p, ok) /\ Call(f, ok, stack)
    BY <1>3 DEF MQTTSubscribe
  <2>2. /\ stack = <<>> /\ isconnected /\ t = subscribes + 1 /\ Len(messageHandlers) = subscribes
        /\ subscribes' = t /\ messageHandlers' = messageHandlers /\ subscribed' = subscribed
        /\ toClient' = toClient /\ sent' = sent
    BY <1>3 DEF MQTTSubscribe, Idle, brokerVars
  <2>3. up /\ ok
    <3>1. up
      BY <2>2 DEF Link
    <3>2. QED
      BY <2>1, <3>1 DEF sendPacket
  <2>4. p \in Req /\ p.type = "SUBSCRIBE" /\ p.about = t
    BY <1>0 DEF Packet, Req, Requests
  <2>5. f \in FrameType /\ f.op = "subscribe" /\ f.arg = t
    BY <1>0, NewFrames DEF Frame, Ops
  <2> HIDE DEF p, f
  <2>6. toBroker' = Append(toBroker, p)
    BY <2>1, <2>3 DEF sendPacket
  <2>7. stack' = <<f>>
    <3>1. stack' = <<f>> \o <<>>
      BY <2>1, <2>2, <2>3 DEF Call
    <3>2. QED
      BY <2>5, <3>1
  <2>8. Waiting(stack', "subscribe") = {1} /\ Len(stack') = 1 /\ stack'[1] = f
    <3>1. Len(<<f>>) = 1 /\ <<f>>[1] = f
      OBVIOUS
    <3>2. Len(stack') = 1 /\ stack'[1] = f
      BY <2>7, <3>1
    <3>3. QED
      BY <2>5, <3>2 DEF Waiting
  <2>9. None(toBroker, "SUBSCRIBE") /\ None(toClient, "SUBACK")
    <3>1. Waiting(stack, "subscribe") = {}
      BY <2>2 DEF Waiting
    <3>2. QED
      BY <3>1, OneAsk
  <2>10. subscribed \subseteq 1..subscribes
    BY DEF Slots
  <2>11. \A k \in 1..Len(toBroker') : toBroker'[k].type = "SUBSCRIBE" => toBroker'[k].about = t
    <3>1. /\ Len(toBroker') = Len(toBroker) + 1 /\ toBroker'[Len(toBroker) + 1] = p
          /\ Len(toBroker) \in Nat /\ \A k \in 1..Len(toBroker) : toBroker'[k] = toBroker[k]
      BY <1>0, <2>4, <2>6, AppendElements
    <3>2. \A k \in 1..Len(toBroker') : k \in 1..Len(toBroker) \/ k = Len(toBroker) + 1
      BY <3>1
    <3>3. QED
      BY <2>4, <2>9, <3>1, <3>2 DEF None
  <2>12. Slots'
    <3>1. Last(stack', t)
      BY <2>5, <2>8 DEF Last
    <3>2. Len(messageHandlers) + 1 = t /\ Len(messageHandlers) <= t /\ subscribed \subseteq 1..t
      BY <1>0, <2>2, <2>10
    <3>3. \A i \in 1..Len(messageHandlers) : messageHandlers[i] = i
      BY DEF Slots
    <3>4. QED
      BY <2>2, <3>1, <3>2, <3>3 DEF Slots, Last, Waiting
  <2>13. Asked'
    <3>1. t \notin subscribed
      BY <1>0, <2>2, <2>10
    <3>2. \A s \in subscribed : s <= Len(messageHandlers)
      <4>1. Waiting(stack, "subscribe") = {}
        BY <2>2 DEF Waiting
      <4>2. QED
        BY <4>1 DEF Asked
    <3>3. QED
      BY <1>1, <2>2, <2>11, <3>1, <3>2 DEF Asked
  <2>14. QED
    BY <2>12, <2>13
<1>4. CASE Taken
  <2> DEFINE n == Len(messageHandlers)
  <2>1. /\ toClient # <<>> /\ Head(toClient).type = "SUBACK" /\ stack # <<>> /\ stack' = <<>>
        /\ n + 1 = subscribes
        /\ messageHandlers' = IF Head(toClient).about = 0 THEN Append(messageHandlers, subscribes)
                              ELSE messageHandlers
        /\ UNCHANGED <<subscribes, subscribed, sent>> /\ None(toClient', "SUBACK")
        /\ None(toBroker, "SUBSCRIBE") /\ NoNew(toBroker, toBroker', "SUBSCRIBE")
    BY <1>4, Takes
  <2>2. None(toBroker', "SUBSCRIBE")
    BY <2>1, NoneStays
  <2>3. Waiting(stack', "subscribe") = {}
    BY <2>1 DEF Waiting
  <2>4. CASE Head(toClient).about = 0
    <3>1. subscribes \in Topics
      BY <1>0, <2>1 DEF Shape, Counts, Topics
    <3>2. /\ Len(messageHandlers') = n + 1 /\ messageHandlers'[n + 1] = subscribes
          /\ \A i \in 1..n : messageHandlers'[i] = messageHandlers[i]
      BY <1>0, <2>1, <2>4, <3>1, AppendElements
    <3>3. \A i \in 1..(n + 1) : i \in 1..n \/ i = n + 1
      BY <1>0
    <3>4. \A i \in 1..Len(messageHandlers') : messageHandlers'[i] = i
      BY <2>1, <3>2, <3>3 DEF Slots
    <3>5. Slots'
      BY <1>0, <2>1, <2>3, <3>2, <3>4 DEF Slots, Last, Waiting
    <3>6. \A t \in subscribed : t <= n + 1
      BY <1>0, <2>1 DEF Slots
    <3>7. Asked'
      BY <1>1, <2>1, <2>2, <3>2, <3>6 DEF Asked, None
    <3>8. QED
      BY <3>5, <3>7
  <2>5. CASE Head(toClient).about # 0
    <3>1. subscribes \notin subscribed
      <4>1. 1 \in 1..Len(toClient) /\ toClient[1] = Head(toClient)
        BY <1>0, <2>1, TailElements
      <4>2. QED
        BY <2>1, <2>5, <4>1 DEF Asked
    <3>2. \A t \in subscribed : t <= n
      BY <3>1 DEF Asked
    <3>3. Slots'
      BY <2>1, <2>3, <2>5 DEF Slots, Last, Waiting
    <3>4. Asked'
      BY <1>1, <2>1, <2>2, <2>5, <3>2 DEF Asked, None
    <3>5. QED
      BY <3>3, <3>4
  <2>6. QED
    BY <2>4, <2>5
<1>5. CASE BrokerSubscribe
  <2> DEFINE h == Head(toBroker)
  <2>1. /\ toBroker # <<>> /\ h.type = "SUBSCRIBE" /\ toBroker' = Tail(toBroker)
        /\ stack' = stack /\ subscribes' = subscribes /\ messageHandlers' = messageHandlers
        /\ sent' = sent
    BY <1>5 DEF BrokerSubscribe, Received, clientVars
  <2>2. h.about = subscribes /\ subscribes \notin subscribed
    <3>1. 1 \in 1..Len(toBroker) /\ toBroker[1] = h
      BY <1>0, <2>1, TailElements
    <3>2. QED
      BY <2>1, <3>1 DEF Asked
  <2>3. None(toBroker', "SUBSCRIBE") /\ None(toClient, "SUBACK")
    BY <2>1, OneAsk
  <2>4. Waiting(stack, "subscribe") # {}
    <3>1. ~None(toBroker, "SUBSCRIBE")
      BY <1>0, <2>1, NoneTail
    <3>2. QED
      BY <3>1, OneAsk
  <2>5. Len(messageHandlers) + 1 = subscribes /\ subscribes \in 1..subscribes
    BY <1>0, <2>4 DEF Slots
  <2>6. PICK r \in {0, 1} :
            /\ subscribed' = IF r = 0 THEN subscribed \cup {subscribes} ELSE subscribed
            /\ Answer(Packet("SUBACK", h.id, r))
    BY <1>5, <2>2 DEF BrokerSubscribe
  <2>7. \A k \in 1..Len(toClient') : toClient'[k].type = "SUBACK" => toClient'[k].about = r
    <3> DEFINE p == Packet("SUBACK", h.id, r)
    <3>1. p \in Ans /\ p.about = r
      <4>1. h \in Req
        BY <1>0, <2>1, TailElements
      <4>2. h.id \in Nat
        BY <4>1 DEF Req
      <4>3. QED
        BY <4>2 DEF Packet, Ans, Answers
    <3> HIDE DEF p
    <3>2. CASE toClient' = toClient
      BY <2>3, <3>2 DEF None
    <3>3. CASE toClient' = Append(toClient, p)
      <4>1. /\ Len(toClient') = Len(toClient) + 1 /\ toClient'[Len(toClient) + 1] = p
            /\ Len(toClient) \in Nat /\ \A k \in 1..Len(toClient) : toClient'[k] = toClient[k]
        BY <1>0, <3>1, <3>3, AppendElements
      <4>2. \A k \in 1..Len(toClient') : k \in 1..Len(toClient) \/ k = Len(toClient) + 1
        BY <4>1
      <4>3. QED
        BY <2>3, <3>1, <4>1, <4>2 DEF None
    <3>4. QED
      BY <2>6, <3>2, <3>3 DEF Answer, p
  <2>8. subscribed \subseteq subscribed' /\ subscribed' \subseteq 1..subscribes
    BY <2>5, <2>6 DEF Slots
  <2>9. Slots'
    BY <2>1, <2>8 DEF Slots, Last, Waiting
  <2>10. \A t \in subscribed' :
             t <= Len(messageHandlers) \/ (t = subscribes /\ Waiting(stack, "subscribe") # {})
    BY <2>4, <2>6 DEF Asked
  <2>11. \A i \in 1..Len(sent) : sent[i].early \/ sent[i].topic \in subscribed'
    BY <2>8 DEF Asked
  <2>12. \A k \in 1..Len(toClient') :
             toClient'[k].type = "SUBACK" /\ toClient'[k].about # 0 => subscribes \notin subscribed'
    BY <2>2, <2>6, <2>7
  <2>13. Asked'
    BY <2>1, <2>3, <2>10, <2>11, <2>12 DEF Asked, None, Waiting
  <2>14. QED
    BY <2>9, <2>13
<1>6. QED
  BY <1>2, <1>3, <1>4, <1>5, QuietSteps

\* The messages that have overtaken their SUBACK, those a handler is there for or that need
\* none, those whose topic is still being subscribed although the broker has answered, those
\* for which that will not succeed any more, and those given to their handler.
Early == {m \in 1..Len(sent) : sent[m].early}
Known == {m \in 1..Len(sent) : sent[m].early \/ sent[m].topic <= Len(messageHandlers)}
Doomed ==
    {m \in 1..Len(sent) : /\ sent[m].topic = subscribes /\ Waiting(stack, "subscribe") # {}
                          /\ None(toBroker, "SUBSCRIBE")}
Dead == {m \in Doomed : None(toClient, "SUBACK")}
Called == {m \in 1..Len(sent) : <<m, sent[m].topic>> \in handled}
Fine == Early \cup Called \cup Dead

\* A message stays what it is, unless a subscribe takes its answer.
LEMMA StillFine ==
    ASSUME TopicCount <= MAX_MESSAGE_HANDLERS, Shape, Counted, Link, Slots, Asked,
           [Next]_vars, ~late'
    PROVE  /\ Known \subseteq Known' /\ (Doomed \subseteq Doomed' \/ Taken) /\ Dead \subseteq Dead'
           /\ Called \subseteq Called' /\ Fine \subseteq Fine'
<1>0. /\ toBroker \in Seq(Req) /\ toClient \in Seq(Ans) /\ subscribes \in Nat
      /\ sent \in Seq(MessageType) /\ messageHandlers \in Seq(Topics)
      /\ Len(messageHandlers) \in Nat
  BY PlainQueues DEF Shape, Log, Results
<1>1. \A m \in 1..Len(sent) : m \in 1..Len(sent') /\ sent'[m] = sent[m]
  BY MessagesKnown
<1>2. handled \subseteq handled'
  BY Zenon DEF Next, vars, clientVars, brokerVars, App, MQTTConnect, MQTTSubscribe, MQTTPublish,
         MQTTYield, MQTTDisconnect, NothingRead, Running, AnswerRead, MessageRead,
         CallHandler, HandlerReturns, DeliverDone, TimerExpires, Broker, BrokerConnect,
         BrokerSubscribe, BrokerPublish, BrokerPuback, BrokerPing, BrokerDisconnect,
         LinkBreaks, BrokerSends
<1>3. Len(messageHandlers) <= Len(messageHandlers') /\ Len(messageHandlers') \in Nat
  <2>1. CASE Taken
    <3>1. Len(messageHandlers) + 1 = subscribes
          /\ messageHandlers' = IF Head(toClient).about = 0 THEN Append(messageHandlers, subscribes)
                                ELSE messageHandlers
      BY <2>1, Takes
    <3>2. subscribes \in Topics
      BY <1>0, <3>1 DEF Shape, Counts, Topics
    <3>3. Len(Append(messageHandlers, subscribes)) = Len(messageHandlers) + 1
      BY <1>0, <3>2, AppendElements
    <3>4. QED
      BY <1>0, <3>1, <3>3
  <2>2. CASE ~Taken
    <3>1. messageHandlers' = messageHandlers
      BY <2>2, QuietSteps DEF Quiet, MQTTSubscribe, BrokerSubscribe, clientVars
    <3>2. QED
      BY <1>0, <3>1
  <2>3. QED
    BY <2>1, <2>2
<1>4. \A m \in 1..Len(sent) : sent[m].topic \in Nat
  <2>1. \A m \in 1..Len(sent) : sent[m] \in MessageType
    BY <1>0
  <2>2. QED
    BY <2>1, BoundsAssumption DEF MessageType, Topics
<1>5. Known \subseteq Known'
  BY <1>0, <1>1, <1>3, <1>4 DEF Known
<1>6. Called \subseteq Called'
  BY <1>1, <1>2 DEF Called
<1>7. Early \subseteq Early'
  BY <1>1 DEF Early
<1>8. Taken => Dead = {}
  <2>1. Taken => toClient # <<>> /\ Head(toClient).type = "SUBACK"
    BY Takes
  <2>2. Taken => ~None(toClient, "SUBACK")
    BY <1>0, <2>1, NoneTail
  <2>3. QED
    BY <2>2 DEF Dead
<1>9. ASSUME NEW t \in Topics, MQTTSubscribe(t) PROVE Doomed = {}
  <2>1. stack = <<>>
    BY <1>9 DEF MQTTSubscribe, Idle
  <2>2. Waiting(stack, "subscribe") = {}
    BY <2>1 DEF Waiting
  <2>3. QED
    BY <2>2 DEF Doomed
<1>10. BrokerSubscribe => Doomed = {}
  <2>1. BrokerSubscribe => toBroker # <<>> /\ Head(toBroker).type = "SUBSCRIBE"
    BY DEF BrokerSubscribe, Received
  <2>2. BrokerSubscribe => ~None(toBroker, "SUBSCRIBE")
    BY <1>0, <2>1, NoneTail
  <2>3. QED
    BY <2>2 DEF Doomed
<1>11. CASE Quiet
  <2>1. /\ subscribes' = subscribes
        /\ NoNew(toBroker, toBroker', "SUBSCRIBE") /\ NoNew(toClient, toClient', "SUBACK")
        /\ Waiting(stack, "subscribe") = {} <=> Waiting(stack', "subscribe") = {}
    BY <1>11 DEF Quiet, Kept
  <2>2. None(toBroker, "SUBSCRIBE") => None(toBroker', "SUBSCRIBE")
    BY <2>1, NoneStays
  <2>3. None(toClient, "SUBACK") => None(toClient', "SUBACK")
    BY <2>1, NoneStays
  <2>4. Doomed \subseteq Doomed'
    BY <1>1, <2>1, <2>2 DEF Doomed, None, Waiting
  <2>5. Dead \subseteq Dead'
    BY <2>3, <2>4 DEF Dead, None
  <2>6. QED
    BY <1>5, <1>6, <1>7, <2>4, <2>5 DEF Fine
<1>12. Dead \subseteq Doomed
  BY DEF Dead
<1>13. CASE ~Quiet
  <2>1. Dead = {} /\ (Doomed = {} \/ Taken)
    BY <1>8, <1>9, <1>10, <1>12, <1>13, QuietSteps
  <2>2. QED
    BY <1>5, <1>6, <1>7, <2>1 DEF Fine
<1>14. QED
  BY <1>11, <1>13

-----------------------------------------------------------------------------
(* Messages that come. *)

\* No SUBACK is behind place k.  Messages that come are in K, or in D and no SUBACK is behind.
NoneAfter(q, k) == \A j \in (k + 1)..Len(q) : q[j].type # "SUBACK"
Arrives(q, K, D) ==
    \A k \in 1..Len(q) :
        q[k].type = "PUBLISH" => q[k].id \in K \/ (q[k].id \in D /\ NoneAfter(q, k))

\* That stays true when a packet is read, and when one comes that fits.
LEMMA ArrivesOn ==
    ASSUME NEW S, NEW q \in Seq(S), NEW K, NEW D, Arrives(q, K, D)
    PROVE  /\ q # <<>> => Arrives(Tail(q), K, D)
           /\ Arrives(<<>>, K, D)
           /\ \A L, E : K \subseteq L /\ D \subseteq E => Arrives(q, L, E)
           /\ \A e \in S : /\ e.type # "SUBACK" \/ D = {}
                           /\ e.type = "PUBLISH" => e.id \in K \cup D
                           => Arrives(Append(q, e), K, D)
<1>1. ASSUME q # <<>> PROVE Arrives(Tail(q), K, D)
  <2> DEFINE t == Tail(q)
  <2>1. /\ Len(t) = Len(q) - 1 /\ Len(q) \in Nat \ {0}
        /\ \A k \in 1..(Len(q) - 1) : t[k] = q[k + 1]
    BY <1>1, TailElements
  <2> HIDE DEF t
  <2>2. \A k \in 1..Len(t) : k + 1 \in 1..Len(q)
    BY <2>1
  <2>3. ASSUME NEW k \in 1..Len(t), NoneAfter(q, k + 1) PROVE NoneAfter(t, k)
    <3>1. \A j \in (k + 1)..Len(t) : j \in 1..Len(t) /\ j + 1 \in (k + 1 + 1)..Len(q)
      BY <2>1
    <3>2. QED
      BY <2>1, <2>3, <3>1 DEF NoneAfter
  <2>4. ASSUME NEW k \in 1..Len(t), t[k].type = "PUBLISH"
        PROVE  t[k].id \in K \/ (t[k].id \in D /\ NoneAfter(t, k))
    <3>1. t[k] = q[k + 1] /\ k + 1 \in 1..Len(q)
      BY <2>1, <2>2
    <3>2. QED
      BY <2>3, <2>4, <3>1 DEF Arrives
  <2>5. QED
    BY <2>4 DEF Arrives, t
<1>2. Arrives(<<>>, K, D)
  BY DEF Arrives
<1>3. \A L, E : K \subseteq L /\ D \subseteq E => Arrives(q, L, E)
  BY DEF Arrives
<1>4. ASSUME NEW e \in S, e.type # "SUBACK" \/ D = {}, e.type = "PUBLISH" => e.id \in K \cup D
      PROVE  Arrives(Append(q, e), K, D)
  <2> DEFINE a == Append(q, e)
  <2>1. /\ Len(a) = Len(q) + 1 /\ a[Len(q) + 1] = e /\ Len(q) \in Nat
        /\ \A k \in 1..Len(q) : a[k] = q[k]
    BY AppendElements
  <2> HIDE DEF a
  <2>2. ASSUME NEW k \in 1..Len(q), NoneAfter(q, k), e.type # "SUBACK" PROVE NoneAfter(a, k)
    <3>1. \A j \in (k + 1)..Len(a) : j = Len(q) + 1 \/ (j \in 1..Len(q) /\ j \in (k + 1)..Len(q))
      BY <2>1
    <3>2. QED
      BY <2>1, <2>2, <3>1 DEF NoneAfter
  <2>3. NoneAfter(a, Len(q) + 1)
    <3>1. (Len(q) + 1 + 1)..Len(a) = {}
      BY <2>1
    <3>2. QED
      BY <3>1 DEF NoneAfter
  <2>4. ASSUME NEW k \in 1..Len(a), a[k].type = "PUBLISH"
        PROVE  a[k].id \in K \/ (a[k].id \in D /\ NoneAfter(a, k))
    <3>1. CASE k = Len(q) + 1
      BY <1>4, <2>1, <2>3, <2>4, <3>1
    <3>2. CASE k # Len(q) + 1
      <4>1. k \in 1..Len(q) /\ a[k] = q[k]
        BY <2>1, <3>2
      <4>2. q[k].id \in K \/ (q[k].id \in D /\ NoneAfter(q, k))
        BY <2>4, <4>1 DEF Arrives
      <4>3. QED
        BY <1>4, <2>2, <4>1, <4>2
    <3>3. QED
      BY <3>1, <3>2
  <2>5. QED
    BY <2>4 DEF Arrives, a
<1>5. QED
  BY <1>1, <1>2, <1>3, <1>4

\* Messages and answers to a subscribe come in these two ways only.
LEMMA Comings ==
    ASSUME Shape, [Next]_vars
    PROVE  \/ BrokerSubscribe
           \/ \E t \in Topics, qos \in {0, 1} : BrokerSends(t, qos)
           \/ toClient' = toClient \/ toClient' = <<>>
           \/ toClient # <<>> /\ toClient' = Tail(toClient)
           \/ \E p \in Ans : p.type \notin {"SUBACK", "PUBLISH"} /\ toClient' = Append(toClient, p)
<1>0. /\ toBroker \in Seq(Req) /\ toClient \in Seq(Ans)
  BY PlainQueues
<1>1. ASSUME NEW type \in {"CONNACK", "PUBACK", "PINGRESP"}, NEW i \in Nat, NEW about \in Nat,
             Answer(Packet(type, i, about))
      PROVE  \/ toClient' = toClient
             \/ \E p \in Ans : /\ p.type \notin {"SUBACK", "PUBLISH"}
                               /\ toClient' = Append(toClient, p)
  <2>1. Packet(type, i, about) \in Ans /\ Packet(type, i, about).type \notin {"SUBACK", "PUBLISH"}
    BY DEF Packet, Ans, Answers
  <2>2. toClient' = toClient \/ toClient' = Append(toClient, Packet(type, i, about))
    BY <1>1 DEF Answer
  <2>3. QED
    BY <2>1, <2>2
<1>2. CASE BrokerConnect
  <2>1. \/ \E r \in {0, 1} : Answer(Packet("CONNACK", 0, r))
        \/ toClient' = toClient
    BY <1>2 DEF BrokerConnect
  <2>2. QED
    BY <1>1, <2>1
<1>3. CASE BrokerPublish
  <2>1. toBroker # <<>> /\ Answer(Packet("PUBACK", Head(toBroker).id, 0))
    BY <1>3 DEF BrokerPublish, Received
  <2>2. Head(toBroker) \in Req
    BY <1>0, <2>1, TailElements
  <2>3. Head(toBroker).id \in Nat
    BY <2>2 DEF Req
  <2>4. QED
    BY <1>1, <2>1, <2>3
<1>4. CASE BrokerPing
  BY <1>1, <1>4 DEF BrokerPing
<1>5. CASE BrokerPuback \/ BrokerDisconnect \/ LinkBreaks
  BY <1>5 DEF BrokerPuback, BrokerDisconnect, LinkBreaks
<1>6. CASE App \/ NothingRead \/ Running \/ UNCHANGED vars
  BY <1>6 DEF App, MQTTConnect, MQTTSubscribe, MQTTPublish, MQTTYield, MQTTDisconnect, NothingRead,
      Running, AnswerRead, MessageRead, CallHandler, HandlerReturns, DeliverDone, TimerExpires,
      vars, netVars
<1>7. QED
  BY <1>2, <1>3, <1>4, <1>5, <1>6 DEF Next, Broker

\* The messages on their way to the client.
Coming == Arrives(toClient, Known, Doomed)

\* A message that comes has a handler, or never will: then its SUBACK is in front of it.
LEMMA ComingStays ==
    ASSUME TopicCount <= MAX_MESSAGE_HANDLERS, Shape, Counted, Link, Slots, Asked, Coming,
           [Next]_vars, ~late'
    PROVE  Coming'
<1>0. /\ toBroker \in Seq(Req) /\ toClient \in Seq(Ans)
  BY PlainQueues
<1>1. Known \subseteq Known' /\ (Doomed \subseteq Doomed' \/ Taken)
  BY StillFine
<1>2. Coming' <=> Arrives(toClient', Known', Doomed')
  BY DEF Coming, Arrives, NoneAfter
<1>3. CASE Taken
  <2>1. /\ toClient # <<>> /\ toClient' = Tail(toClient)
        /\ Len(messageHandlers) + 1 = subscribes
        /\ messageHandlers' = IF Head(toClient).about = 0 THEN Append(messageHandlers, subscribes)
                              ELSE messageHandlers
        /\ Head(toClient).type = "SUBACK"
    BY <1>3, Takes
  <2>2. Doomed \subseteq Known'
    <3>1. /\ subscribes \in Topics /\ messageHandlers \in Seq(Topics)
      BY <2>1, BoundsAssumption DEF Shape, Counts, Topics, Results
    <3>2. \A m \in 1..Len(sent) : m \in 1..Len(sent') /\ sent'[m] = sent[m]
      BY MessagesKnown
    <3>3. CASE Head(toClient).about = 0
      <4>1. Len(messageHandlers') = subscribes /\ subscribes \in Nat
        BY <2>1, <3>1, <3>3, AppendElements, BoundsAssumption DEF Topics
      <4>2. QED
        BY <3>2, <4>1 DEF Doomed, Known
    <3>4. CASE Head(toClient).about # 0
      <4>1. 1 \in 1..Len(toClient) /\ toClient[1] = Head(toClient)
        BY <1>0, <2>1, TailElements
      <4>2. subscribes \notin subscribed
        BY <2>1, <3>4, <4>1 DEF Asked
      <4>3. \A m \in Doomed : m \in 1..Len(sent) /\ sent[m].early
        BY <4>2 DEF Asked, Doomed
      <4>4. QED
        BY <3>2, <4>3 DEF Known
    <3>5. QED
      BY <3>3, <3>4
  <2>3. Arrives(Tail(toClient), Known, Doomed)
    BY <1>0, <2>1, ArrivesOn DEF Coming
  <2>4. Arrives(Tail(toClient), Known', {})
    BY <1>1, <2>2, <2>3 DEF Arrives
  <2>5. Arrives(Tail(toClient), Known', Doomed')
    BY <2>4 DEF Arrives
  <2>6. QED
    BY <1>2, <2>1, <2>5
<1>4. ASSUME ~Taken PROVE Coming'
  <2>1. Arrives(toClient, Known', Doomed')
    BY <1>0, <1>1, <1>4, ArrivesOn DEF Coming
  <2> HIDE DEF Coming
  <2>2. CASE BrokerSubscribe
    <3>1. toBroker # <<>> /\ Head(toBroker).type = "SUBSCRIBE"
      BY <2>2 DEF BrokerSubscribe, Received
    <3>2. ~None(toBroker, "SUBSCRIBE")
      BY <1>0, <3>1, NoneTail
    <3>3. Doomed = {}
      BY <3>2 DEF Doomed
    <3>4. Head(toBroker).id \in Nat
      <4>1. Head(toBroker) \in Req
        BY <1>0, <3>1, TailElements
      <4>2. QED
        BY <4>1 DEF Req
    <3>5. PICK r \in {0, 1} : Answer(Packet("SUBACK", Head(toBroker).id, r))
      BY <2>2 DEF BrokerSubscribe
    <3> DEFINE p == Packet("SUBACK", Head(toBroker).id, r)
    <3>6. p \in Ans /\ p.type = "SUBACK"
      BY <3>4 DEF Packet, Ans, Answers
    <3>7. toClient' = toClient \/ toClient' = Append(toClient, p)
      BY <3>5 DEF Answer
    <3> HIDE DEF p
    <3>8. Arrives(toClient, Known', {})
      <4>1. Arrives(toClient, Known, {})
        BY <3>3 DEF Coming
      <4>2. QED
        BY <1>0, <1>1, <4>1, ArrivesOn
    <3>9. Arrives(Append(toClient, p), Known', {})
      BY <1>0, <3>6, <3>8, ArrivesOn
    <3>10. Arrives(Append(toClient, p), Known', Doomed')
      BY <3>9 DEF Arrives
    <3>11. QED
      BY <1>2, <2>1, <3>7, <3>10
  <2>3. ASSUME NEW t \in Topics, NEW qos \in {0, 1}, BrokerSends(t, qos) PROVE Coming'
    <3> DEFINE m == Len(sent')
               p == Packet("PUBLISH", m, 0)
    <3>1. m = Len(sent) + 1 /\ Len(sent) \in Nat /\ m \in 1..Len(sent')
      BY <2>3, OneMoreMessage DEF Shape, Log
    <3>2. p \in Ans /\ p.type = "PUBLISH" /\ p.id = m
      BY <3>1 DEF Packet, Ans, Answers
    <3>3. PICK early \in BOOLEAN :
              /\ sent' = Append(sent, [topic |-> t, qos |-> qos, early |-> early])
              /\ t \in subscribed \/ early
      BY <2>3 DEF BrokerSends
    <3>4. sent'[m].early = early /\ sent'[m].topic = t
      <4> DEFINE e == [topic |-> t, qos |-> qos, early |-> early]
      <4>1. e \in MessageType /\ e.early = early /\ e.topic = t /\ sent \in Seq(MessageType)
        BY DEF MessageType, Shape, Log
      <4> HIDE DEF e
      <4>2. Append(sent, e)[Len(sent) + 1] = e /\ sent' = Append(sent, e)
        BY <3>3, <4>1, AppendElements DEF e
      <4>3. QED
        BY <3>1, <4>1, <4>2
    <3>5. /\ messageHandlers' = messageHandlers /\ subscribes' = subscribes /\ stack' = stack
          /\ toBroker' = toBroker /\ toClient' \in {toClient, Append(toClient, p)}
      BY <2>3 DEF BrokerSends, clientVars, Answer
    <3> HIDE DEF p, m
    <3>6. m \in Known' \cup Doomed'
      <4>1. CASE early \/ t <= Len(messageHandlers)
        BY <3>1, <3>4, <3>5, <4>1 DEF Known
      <4>2. CASE ~early /\ ~(t <= Len(messageHandlers))
        <5>1. t \in subscribed
          BY <3>3, <4>2
        <5>2. t = subscribes /\ Waiting(stack, "subscribe") # {}
          BY <4>2, <5>1 DEF Asked
        <5>3. None(toBroker, "SUBSCRIBE")
          BY <5>1, <5>2 DEF Asked, None
        <5>4. m \in Doomed'
          BY <3>1, <3>4, <3>5, <5>2, <5>3 DEF Doomed, None, Waiting
        <5>5. QED
          BY <5>4
      <4>3. QED
        BY <4>1, <4>2
    <3>7. Arrives(Append(toClient, p), Known', Doomed')
      BY <1>0, <2>1, <3>2, <3>6, ArrivesOn
    <3>8. QED
      BY <1>2, <2>1, <3>5, <3>7
  <2>4. CASE \/ toClient' = toClient \/ toClient' = <<>>
             \/ toClient # <<>> /\ toClient' = Tail(toClient)
    <3>1. /\ Arrives(<<>>, Known', Doomed')
          /\ toClient # <<>> => Arrives(Tail(toClient), Known', Doomed')
      BY <1>0, <2>1, ArrivesOn
    <3>2. QED
      BY <1>2, <2>1, <2>4, <3>1
  <2>5. ASSUME NEW p \in Ans, p.type \notin {"SUBACK", "PUBLISH"}, toClient' = Append(toClient, p)
        PROVE  Coming'
    <3>1. Arrives(Append(toClient, p), Known', Doomed')
      BY <1>0, <2>1, <2>5, ArrivesOn
    <3>2. QED
      BY <1>2, <2>5, <3>1
  <2>6. QED
    BY <2>2, <2>3, <2>4, <2>5, Comings
<1>5. QED
  BY <1>3, <1>4

-----------------------------------------------------------------------------
(* Messages that are delivered. *)

\* A delivery below other calls is in a handler, and of a message in C.  The innermost one
\* is of a message in C, too, unless it has just begun and is of one in B.
Below(st, C) ==
    \A k \in 1..Len(st) :
        st[k].op \in Delivering => st[k].op # "deliver" /\ st[k].slot # 0 /\ st[k].arg \in C
Inner(f, C, B) ==
    f.op \in Delivering => \/ f.slot # 0 /\ f.arg \in C
                           \/ f.slot = 0 /\ f.arg \in B /\ f.op = "deliver"
Handing(st, C, B) == st # <<>> => Inner(Head(st), C, B) /\ Below(Tail(st), C)

\* That stays true as C and B grow, and for the calls below.
LEMMA HandingOn ==
    ASSUME NEW st \in Seq(FrameType), NEW C, NEW B, Handing(st, C, B), NEW D, C \subseteq D
    PROVE  /\ st # <<>> => Below(Tail(st), D)
           /\ st = <<>> \/ Head(st).op # "deliver" => Below(st, D)
           /\ \A E : B \subseteq E => Handing(st, D, E)
<1>1. st # <<>> => Below(Tail(st), D)
  BY DEF Handing, Below
<1>2. ASSUME st = <<>> PROVE Below(st, D)
  BY <1>2 DEF Below
<1>3. ASSUME st # <<>>, Head(st).op # "deliver" PROVE Below(st, D)
  <2> DEFINE t == Tail(st)
  <2>1. /\ Len(t) = Len(st) - 1 /\ Len(st) \in Nat \ {0} /\ Head(st) = st[1]
        /\ \A k \in 1..(Len(st) - 1) : t[k] = st[k + 1]
    BY <1>3, TailElements
  <2>2. Below(t, D)
    BY <1>1, <1>3
  <2> HIDE DEF t
  <2>3. ASSUME NEW k \in 1..Len(st), st[k].op \in Delivering
        PROVE  st[k].op # "deliver" /\ st[k].slot # 0 /\ st[k].arg \in D
    <3>1. CASE k = 1
      BY <1>3, <2>1, <2>3, <3>1 DEF Handing, Inner
    <3>2. CASE k # 1
      <4>1. k - 1 \in 1..Len(t) /\ (k - 1) + 1 = k
        BY <2>1, <3>2
      <4>2. t[k - 1] = st[k]
        BY <2>1, <4>1
      <4>3. QED
        BY <2>2, <2>3, <4>1, <4>2 DEF Below
    <3>3. QED
      BY <3>1, <3>2
  <2>4. QED
    BY <2>3 DEF Below
<1>4. \A E : B \subseteq E => Handing(st, D, E)
  BY <1>1 DEF Handing, Inner
<1>5. QED
  BY <1>1, <1>2, <1>3, <1>4

\* A call that begins needs to fit only itself.
LEMMA BelowOn ==
    ASSUME NEW st \in Seq(FrameType), NEW C, Below(st, C)
    PROVE  /\ st # <<>> => Below(Tail(st), C)
           /\ \A E : Handing(st, C, E)
           /\ \A f \in FrameType : \A E : Inner(f, C, E) => Handing(<<f>> \o st, C, E)
<1>1. ASSUME st # <<>> PROVE Below(Tail(st), C)
  <2>1. /\ Len(Tail(st)) = Len(st) - 1 /\ Len(st) \in Nat \ {0}
        /\ \A k \in 1..(Len(st) - 1) : Tail(st)[k] = st[k + 1]
    BY <1>1, TailElements
  <2>2. \A k \in 1..Len(Tail(st)) : k + 1 \in 1..Len(st) /\ Tail(st)[k] = st[k + 1]
    BY <2>1
  <2>3. QED
    BY <2>2 DEF Below
<1>2. ASSUME st # <<>>, NEW E PROVE Inner(Head(st), C, E)
  <2>1. 1 \in 1..Len(st) /\ Head(st) = st[1]
    BY <1>2, TailElements
  <2>2. QED
    BY <2>1 DEF Below, Inner
<1>3. \A E : Handing(st, C, E)
  BY <1>1, <1>2 DEF Handing
<1>4. ASSUME NEW f \in FrameType, NEW E, Inner(f, C, E) PROVE Handing(<<f>> \o st, C, E)
  <2>1. Head(<<f>> \o st) = f /\ Tail(<<f>> \o st) = st
    OBVIOUS
  <2>2. QED
    BY <1>4, <2>1 DEF Handing
<1>5. QED
  BY <1>1, <1>3, <1>4

\* The innermost delivery goes on; its slot changes only where that is said.
LEMMA SameHands ==
    ASSUME NEW st \in Seq(FrameType), st # <<>>, NEW o, NEW u, SameBut(o, st, u), NEW C, NEW B,
           Handing(st, C, B), NEW D, C \subseteq D, NEW E, Inner(u[1], D, E)
    PROVE  Handing(u, D, E)
<1>1. /\ Len(st) \in Nat \ {0} /\ Len(Tail(st)) = Len(st) - 1
      /\ \A k \in 1..(Len(st) - 1) : Tail(st)[k] = st[k + 1]
  BY TailElements
<1>2. u \in Seq(FrameType) /\ Len(u) = Len(st) /\ \A k \in 1..Len(st) : k # 1 => u[k] = st[k]
  BY DEF SameBut
<1>3. u # <<>>
  BY <1>1, <1>2
<1>4. /\ Head(u) = u[1] /\ Len(Tail(u)) = Len(u) - 1
      /\ \A k \in 1..(Len(u) - 1) : Tail(u)[k] = u[k + 1]
  BY <1>2, <1>3, TailElements
<1>5. \A k \in 1..Len(Tail(u)) : k \in 1..Len(Tail(st)) /\ Tail(u)[k] = Tail(st)[k]
  <2> TAKE k \in 1..Len(Tail(u))
  <2>1. k \in 1..(Len(st) - 1) /\ k + 1 \in 1..Len(st) /\ k + 1 # 1
    BY <1>1, <1>2, <1>4
  <2>2. QED
    BY <1>1, <1>2, <1>4, <2>1
<1>6. Below(Tail(st), D)
  BY HandingOn
<1>7. Below(Tail(u), D)
  BY <1>5, <1>6 DEF Below
<1>8. QED
  BY <1>4, <1>7 DEF Handing

\* How CallHandler and HandlerReturns change the slot.
LEMMA SlotKept ==
    ASSUME NEW st \in Seq(FrameType), 1 \in 1..Len(st), NEW op \in Ops,
           NEW slot \in 0..MAX_MESSAGE_HANDLERS
    PROVE  /\ [st EXCEPT ![1].op = op][1].slot = st[1].slot
           /\ [st EXCEPT ![1].op = op, ![1].slot = slot][1].slot = slot
<1>1. st[1] \in FrameType /\ 1 \in DOMAIN st
  OBVIOUS
<1>2. [st EXCEPT ![1].op = op][1] = [st[1] EXCEPT !.op = op]
  BY <1>1
<1>3. [st EXCEPT ![1].op = op, ![1].slot = slot][1]
          = [[st[1] EXCEPT !.op = op] EXCEPT !.slot = slot]
  BY <1>1
<1>4. QED
  BY <1>1, <1>2, <1>3 DEF FrameType

\* The message whose delivery may just have begun.
Begun == {m \in Known \cup Dead : m = readbuf}
Deliv == Handing(stack, Called, Begun)

\* A message that is delivered has been given to its handler, or is about to be, unless
\* there will be no handler for it.
LEMMA DelivStays ==
    ASSUME TopicCount <= MAX_MESSAGE_HANDLERS, Shape, Counted, Link, Slots, Asked, Coming, Deliv,
           [Next]_vars, ~late'
    PROVE  Deliv'
<1>0. /\ toBroker \in Seq(Req) /\ toClient \in Seq(Ans) /\ stack \in Seq(FrameType)
      /\ next_packetid' \in Nat /\ calls' \in Nat /\ Len(sent) \in Nat /\ calls \in Nat
      /\ \A t \in Topics : t \in Nat
  BY PlainQueues, CountsStay, BoundsAssumption DEF Shape, Counts, PacketIds, Topics
<1>1. /\ Known \subseteq Known' /\ (Doomed \subseteq Doomed' \/ Taken) /\ Dead \subseteq Dead'
      /\ Called \subseteq Called'
  BY StillFine
<1> DEFINE C == Called
           D == Called'
           B == Begun
           E == Begun'
<1>2. readbuf' = readbuf => B \subseteq E
  BY <1>1 DEF Begun
<1>3. Handing(stack, C, B)
  BY DEF Deliv
<1>4. Deliv' <=> Handing(stack', D, E)
  BY DEF Deliv, Handing, Inner, Below
<1>5. C \subseteq D
  BY <1>1
<1>6. /\ C = {m \in 1..Len(sent) : <<m, sent[m].topic>> \in handled}
      /\ \A m \in 1..Len(sent) : <<m, sent[m].topic>> \in handled' => m \in D
  <2>1. \A m \in 1..Len(sent) : m \in 1..Len(sent') /\ sent'[m] = sent[m]
    BY MessagesKnown
  <2>2. QED
    BY <2>1 DEF Called
<1>7. \A m \in B : m = readbuf
  BY DEF Begun
<1>8. \A m \in Known' \cup Dead' : m = readbuf' => m \in E
  BY DEF Begun
<1> HIDE DEF C, D, B, E
<1>9. \A o \in Ops, i, arg \in Nat :
          /\ Frame(o, i, arg) \in FrameType /\ Frame(o, i, arg).op = o
          /\ Frame(o, i, arg).arg = arg /\ Frame(o, i, arg).slot = 0
  BY NewFrames DEF Frame
<1>10. ASSUME NEW o \in Ops \ Delivering, NEW i \in Nat, NEW arg \in Nat, NEW ok,
              NEW st \in Seq(FrameType), Below(st, D), Call(Frame(o, i, arg), ok, st)
       PROVE  Deliv'
  <2>1. stack' = <<Frame(o, i, arg)>> \o st \/ stack' = st
    BY <1>10 DEF Call
  <2>2. Inner(Frame(o, i, arg), D, E)
    BY <1>9, <1>10 DEF Inner
  <2>3. Handing(<<Frame(o, i, arg)>> \o st, D, E) /\ Handing(st, D, E)
    BY <1>9, <1>10, <2>2, BelowOn
  <2>4. QED
    BY <1>4, <2>1, <2>3
<1>11. Below(<<>>, D)
  BY DEF Below
\* Nothing begins, ...
<1>12. ASSUME stack' = stack, readbuf' = readbuf PROVE Deliv'
  BY <1>0, <1>2, <1>3, <1>4, <1>5, <1>12, HandingOn
\* ... or the innermost call returns.
<1>13. ASSUME stack # <<>>, stack' = Tail(stack) PROVE Deliv'
  <2>1. Below(Tail(stack), D) /\ Tail(stack) \in Seq(FrameType)
    BY <1>0, <1>3, <1>5, <1>13, HandingOn, TailElements
  <2>2. QED
    BY <1>4, <1>13, <2>1, BelowOn
<1>14. stack = <<>> \/ Head(stack).op # "deliver" => Below(stack, D)
  BY <1>0, <1>3, <1>5, HandingOn
\* A delivery in a handler is of a message in C.
<1>15. ASSUME stack # <<>>, Head(stack).op \in {"handler", "replied"}
       PROVE  /\ stack[1].slot # 0 /\ stack[1].arg \in D
              /\ 1 \in 1..Len(stack) /\ Head(stack) = stack[1]
  <2>1. 1 \in 1..Len(stack) /\ Head(stack) = stack[1]
    BY <1>0, <1>15, TailElements
  <2>2. Inner(Head(stack), C, B)
    BY <1>3, <1>15 DEF Handing
  <2>3. QED
    BY <1>5, <1>15, <2>1, <2>2 DEF Inner, Delivering
<1>16. CASE MQTTConnect
  <2>1. stack = <<>> /\ \E ok \in BOOLEAN : Call(Frame("connect", 0, 0), ok, stack)
    BY <1>16 DEF MQTTConnect, Idle
  <2>2. QED
    BY <1>0, <1>10, <1>14, <2>1 DEF Ops, Delivering
<1>17. ASSUME NEW t \in Topics, MQTTSubscribe(t) PROVE Deliv'
  <2>1. stack = <<>> /\ \E ok \in BOOLEAN : Call(Frame("subscribe", next_packetid', t), ok, stack)
    BY <1>17 DEF MQTTSubscribe, Idle
  <2>2. QED
    BY <1>0, <1>10, <1>14, <2>1 DEF Ops, Delivering
<1>18. CASE MQTTPublish
  <2> DEFINE st == IF Idle THEN stack ELSE [stack EXCEPT ![1].op = "replied"]
  <2>1. PICK ok \in BOOLEAN : Call(Frame("publish", next_packetid', calls'), ok, st)
    BY <1>18 DEF MQTTPublish
  <2>2. st \in Seq(FrameType) /\ Below(st, D)
    <3>1. CASE Idle
      BY <1>0, <1>14, <3>1 DEF Idle
    <3>2. CASE ~Idle
      <4> DEFINE u == [stack EXCEPT ![1].op = "replied"]
      <4>1. stack # <<>> /\ Head(stack).op = "handler"
        BY <1>18, <3>2 DEF MQTTPublish, Idle, Top
      <4>2. 1 \in 1..Len(stack) /\ "replied" \in Ops /\ 0 \in 0..MAX_MESSAGE_HANDLERS
        BY <1>0, <4>1, TailElements, BoundsAssumption DEF Ops
      <4>3. SameBut("replied", stack, u) /\ u[1].slot = stack[1].slot
        BY <1>0, <4>2, Changed, SlotKept
      <4> HIDE DEF u
      <4>4. /\ u \in Seq(FrameType) /\ Len(u) = Len(stack)
            /\ u[1].op = "replied" /\ u[1].arg = stack[1].arg
        BY <4>3 DEF SameBut
      <4>5. stack[1].slot # 0 /\ stack[1].arg \in D
        BY <1>15, <4>1
      <4>6. Inner(u[1], D, E)
        BY <4>3, <4>4, <4>5 DEF Inner
      <4>7. Handing(u, D, E)
        BY <1>0, <1>3, <1>5, <4>1, <4>3, <4>6, SameHands
      <4>8. Head(u).op # "deliver" /\ u # <<>>
        BY <4>2, <4>4
      <4>9. Below(u, D)
        BY <4>4, <4>7, <4>8, HandingOn
      <4>10. st = u
        BY <3>2 DEF u
      <4>11. QED
        BY <4>4, <4>9, <4>10
    <3>3. QED
      BY <3>1, <3>2
  <2> HIDE DEF st
  <2>3. QED
    BY <1>0, <1>10, <2>1, <2>2 DEF Ops, Delivering
<1>19. CASE MQTTYield
  <2>1. stack' = <<Frame("yield", 0, 0)>>
    BY <1>19 DEF MQTTYield
  <2>2. <<Frame("yield", 0, 0)>> \o <<>> = <<Frame("yield", 0, 0)>>
    BY <1>9 DEF Ops
  <2>3. Call(Frame("yield", 0, 0), TRUE, <<>>)
    BY <2>1, <2>2 DEF Call
  <2>4. <<>> \in Seq(FrameType)
    OBVIOUS
  <2>5. QED
    BY <1>10, <1>11, <2>3, <2>4 DEF Ops, Delivering
<1>20. CASE MQTTDisconnect \/ NothingRead
  BY <1>12, <1>20 DEF MQTTDisconnect, NothingRead
<1>21. CASE AnswerRead
  <2>1. stack # <<>> /\ (stack' = stack \/ stack' = Tail(stack)) /\ readbuf' = readbuf
    BY <1>21 DEF AnswerRead, Reading, Idle
  <2>2. QED
    BY <1>12, <1>13, <2>1
<1>22. CASE MessageRead
  <2> DEFINE i == Head(toClient).id
             f == Frame("deliver", i, i)
  <2>1. /\ toClient # <<>> /\ Head(toClient).type = "PUBLISH" /\ toClient' = Tail(toClient)
        /\ stack # <<>> /\ Head(stack).op # "deliver" /\ readbuf' = i
        /\ stack' = <<f>> \o stack
    BY <1>22 DEF MessageRead, Reading, Idle, Top
  <2>2. 1 \in 1..Len(toClient) /\ toClient[1] = Head(toClient) /\ Head(toClient) \in Ans
    BY <1>0, <2>1, TailElements
  <2>3. i \in Nat
    BY <2>2 DEF Ans
  <2>4. f \in FrameType /\ f.op = "deliver" /\ f.arg = i /\ f.slot = 0
    BY <1>9, <2>3 DEF Ops
  <2>5. i \in Known \/ (i \in Doomed /\ NoneAfter(toClient, 1))
    BY <2>1, <2>2 DEF Coming, Arrives
  <2>6. i \in Known' \cup Dead'
    <3>1. CASE i \in Known
      BY <1>1, <3>1
    <3>2. CASE i \in Doomed /\ NoneAfter(toClient, 1)
      <4>1. ~Taken
        BY <2>1 DEF Taken, AnswerRead
      <4>2. i \in Doomed'
        BY <1>1, <3>2, <4>1
      <4>3. None(toClient', "SUBACK")
        <5>1. /\ Len(toClient') = Len(toClient) - 1 /\ Len(toClient) \in Nat
              /\ \A k \in 1..(Len(toClient) - 1) : toClient'[k] = toClient[k + 1]
          BY <1>0, <2>1, TailElements
        <5>2. \A k \in 1..Len(toClient') : /\ k + 1 \in (1 + 1)..Len(toClient)
                                           /\ toClient'[k] = toClient[k + 1]
          BY <5>1
        <5>3. QED
          BY <3>2, <5>2 DEF None, NoneAfter
      <4>4. QED
        BY <4>2, <4>3 DEF Dead, None
    <3>3. QED
      BY <2>5, <3>1, <3>2
  <2> HIDE DEF f, i
  <2>7. Inner(f, D, E)
    BY <1>8, <2>1, <2>4, <2>6 DEF Inner
  <2>8. Below(stack, D)
    BY <1>14, <2>1
  <2>9. Handing(<<f>> \o stack, D, E)
    BY <1>0, <2>4, <2>7, <2>8, BelowOn
  <2>10. QED
    BY <1>4, <2>1, <2>9
<1>23. CASE CallHandler
  <2>1. stack # <<>> /\ Head(stack).op = "deliver"
    BY <1>23 DEF CallHandler, Idle, Top
  <2>2. PICK s \in MatchingSlots :
            /\ stack' = [stack EXCEPT ![1].op = "handler", ![1].slot = s]
            /\ handled' = handled \cup {<<Head(stack).arg, messageHandlers[s]>>}
    BY <1>23 DEF CallHandler, Top
  <2>3. s \in 1..MAX_MESSAGE_HANDLERS /\ messageHandlers[s] = sent[readbuf].topic
    BY BoundsAssumption DEF MatchingSlots, Shape, Results
  <2>4. /\ 1 \in 1..Len(stack) /\ Head(stack) = stack[1] /\ Head(stack) \in FrameType
        /\ "handler" \in Ops /\ s \in 0..MAX_MESSAGE_HANDLERS /\ s # 0
    BY <1>0, <2>1, <2>3, TailElements, BoundsAssumption DEF Ops
  <2>5. SameBut("handler", stack, stack') /\ stack'[1].slot = s
    BY <1>0, <2>2, <2>4, Changed, SlotKept
  <2>6. stack'[1].arg = Head(stack).arg /\ stack'[1].op = "handler"
    BY <2>4, <2>5 DEF SameBut
  <2>7. Head(stack).arg \in D
    <3>1. Inner(Head(stack), C, B)
      BY <1>3, <2>1 DEF Handing
    <3>2. CASE Head(stack).arg \in C
      BY <1>5, <3>2
    <3>3. CASE Head(stack).arg \in B
      <4>1. Head(stack).arg = readbuf
        BY <1>7, <3>3
      <4>2. Head(stack).arg \in 1..Len(sent)
        <5>1. FrameFits(stack[1], calls, Len(sent))
          BY <2>4 DEF Shape, Frames, StackFits
        <5>2. QED
          BY <2>1, <2>4, <5>1 DEF FrameFits, Delivering
      <4>3. <<Head(stack).arg, sent[Head(stack).arg].topic>> \in handled'
        BY <2>2, <2>3, <4>1
      <4>4. QED
        BY <1>6, <4>2, <4>3
    <3>4. QED
      BY <2>1, <3>1, <3>2, <3>3 DEF Inner, Delivering
  <2>8. Inner(stack'[1], D, E)
    BY <2>4, <2>5, <2>6, <2>7 DEF Inner
  <2>9. Handing(stack', D, E)
    BY <1>0, <1>3, <1>5, <2>1, <2>5, <2>8, SameHands
  <2>10. QED
    BY <1>4, <2>9
<1>24. CASE HandlerReturns
  <2>1. stack # <<>> /\ Head(stack).op \in {"handler", "replied"}
    BY <1>24 DEF HandlerReturns, Idle, Top
  <2>2. /\ stack' = [stack EXCEPT ![1].op = "deliver"]
        /\ 0 \in 0..MAX_MESSAGE_HANDLERS /\ "deliver" \in Ops
    BY <1>24, BoundsAssumption DEF HandlerReturns, Ops
  <2>3. stack[1].slot # 0 /\ stack[1].arg \in D /\ 1 \in 1..Len(stack)
    BY <1>15, <2>1
  <2>4. SameBut("deliver", stack, stack') /\ stack'[1].slot = stack[1].slot
    BY <1>0, <2>2, <2>3, Changed, SlotKept
  <2>5. Inner(stack'[1], D, E)
    BY <2>3, <2>4 DEF Inner, SameBut
  <2>6. Handing(stack', D, E)
    BY <1>0, <1>3, <1>5, <2>1, <2>4, <2>5, SameHands
  <2>7. QED
    BY <1>4, <2>6
<1>25. CASE DeliverDone
  <2>1. /\ stack # <<>> /\ Tail(stack) \in Seq(FrameType) /\ Tail(stack) # <<>>
        /\ stack' = Tail(stack) \/ stack' = Tail(Tail(stack))
    BY <1>25, Over
  <2>2. CASE stack' = Tail(stack)
    BY <1>13, <2>1, <2>2
  <2>3. CASE stack' = Tail(Tail(stack))
    <3>1. Below(Tail(stack), D)
      BY <1>0, <1>3, <1>5, <2>1, HandingOn
    <3>2. Below(Tail(Tail(stack)), D) /\ Tail(Tail(stack)) \in Seq(FrameType)
      BY <2>1, <3>1, BelowOn, TailElements
    <3>3. QED
      BY <1>4, <2>3, <3>2, BelowOn
  <2>4. QED
    BY <2>1, <2>2, <2>3
<1>26. CASE TimerExpires
  <2>1. stack # <<>> /\ stack' = Tail(stack)
    BY <1>26 DEF TimerExpires, Reading, Idle
  <2>2. QED
    BY <1>13, <2>1
<1>27. CASE Broker \/ UNCHANGED vars
  <2>1. stack' = stack /\ readbuf' = readbuf
    BY <1>27 DEF Broker, BrokerConnect, BrokerSubscribe, BrokerPublish, BrokerPuback, BrokerPing,
                 BrokerDisconnect, LinkBreaks, BrokerSends, vars, clientVars
  <2>2. QED
    BY <1>12, <2>1
<1>28. QED
  BY <1>16, <1>17, <1>18, <1>19, <1>20, <1>21, <1>22, <1>23, <1>24, <1>25, <1>26, <1>27
     DEF Next, App, Running

-----------------------------------------------------------------------------
(* Messages that are acknowledged. *)

\* All of them are fine.
Gone == Leaving \cup acked \subseteq Fine

\* A PUBACK that leaves is for a message that was handed over, or never could be.
LEMMA GoneStays ==
    ASSUME TopicCount <= MAX_MESSAGE_HANDLERS, Shape, Counted, Link, Slots, Asked, Deliv, Gone,
           [Next]_vars, ~late'
    PROVE  Gone'
<1>0. /\ toBroker \in Seq(Req) /\ stack \in Seq(FrameType)
      /\ next_packetid' \in Nat /\ calls' \in Nat /\ calls \in Nat /\ Len(sent) \in Nat
      /\ \A t \in Topics : t \in Nat
  BY PlainQueues, CountsStay, BoundsAssumption DEF Shape, Counts, PacketIds, Topics
<1>1. Fine \subseteq Fine'
  BY StillFine
<1>2. Leaving' = Ids(toBroker', "PUBACK") /\ Leaving = Ids(toBroker, "PUBACK")
  BY DEF Leaving, Ids
<1>3. ASSUME Leaving' \subseteq Leaving, acked' = acked PROVE Gone'
  BY <1>1, <1>3 DEF Gone
<1>4. \A p \in Req : p.type # "PUBACK" => Ids(Append(toBroker, p), "PUBACK") = Leaving
  BY <1>0, <1>2, AppendIds
<1>5. \A type \in Requests, i, about \in Nat :
          /\ Packet(type, i, about) \in Req /\ Packet(type, i, about).type = type
          /\ Packet(type, i, about).id = i
  BY DEF Packet, Req
<1>6. ASSUME NEW type \in Requests, type # "PUBACK", NEW i \in Nat, NEW about \in Nat,
             toBroker' = toBroker \/ toBroker' = Append(toBroker, Packet(type, i, about))
      PROVE  Leaving' \subseteq Leaving
  <2> DEFINE p == Packet(type, i, about)
  <2>1. p \in Req /\ p.type # "PUBACK"
    BY <1>5, <1>6
  <2> HIDE DEF p
  <2>2. Ids(Append(toBroker, p), "PUBACK") = Leaving
    BY <1>4, <2>1
  <2>3. toBroker' = toBroker \/ toBroker' = Append(toBroker, p)
    BY <1>6 DEF p
  <2>4. QED
    BY <1>2, <2>2, <2>3
<1>7. toBroker' = toBroker => Leaving' \subseteq Leaving
  BY <1>2
<1>8. Received => /\ Leaving' \subseteq Leaving
                  /\ Head(toBroker).type = "PUBACK" => Head(toBroker).id \in Leaving
  BY <1>0, <1>2, TailIds DEF Received
<1> HIDE DEF Gone, Fine, Leaving
<1>9. CASE MQTTConnect
  BY <1>3, <1>6, <1>9 DEF MQTTConnect, sendPacket, brokerVars, Requests
<1>10. ASSUME NEW t \in Topics, MQTTSubscribe(t) PROVE Gone'
  <2>1. /\ \/ toBroker' = toBroker
           \/ toBroker' = Append(toBroker, Packet("SUBSCRIBE", next_packetid', t))
        /\ acked' = acked
    BY <1>10 DEF MQTTSubscribe, sendPacket, brokerVars
  <2>2. QED
    BY <1>0, <1>3, <1>6, <2>1 DEF Requests
<1>11. CASE MQTTPublish
  <2>1. /\ \/ toBroker' = toBroker
           \/ toBroker' = Append(toBroker, Packet("PUBLISH", next_packetid', calls'))
        /\ acked' = acked
    BY <1>11 DEF MQTTPublish, sendPacket, brokerVars
  <2>2. QED
    BY <1>0, <1>3, <1>6, <2>1 DEF Requests
<1>12. CASE MQTTDisconnect
  BY <1>3, <1>6, <1>12 DEF MQTTDisconnect, sendPacket, brokerVars, Requests
<1>13. CASE NothingRead \/ AnswerRead
  <2>1. /\ toBroker' = toBroker \/ toBroker' = Append(toBroker, Packet("PINGREQ", 0, 0))
        /\ acked' = acked
    BY <1>13 DEF NothingRead, AnswerRead, keepalive, brokerVars
  <2>2. QED
    BY <1>3, <1>6, <2>1 DEF Requests
<1>14. CASE MQTTYield \/ MessageRead \/ CallHandler \/ HandlerReturns \/ TimerExpires
  <2>1. acked' = acked /\ toBroker' = toBroker
    BY <1>14 DEF MQTTYield, MessageRead, CallHandler, HandlerReturns, TimerExpires,
                 brokerVars, netVars
  <2>2. QED
    BY <1>3, <1>7, <2>1
\* What deliverMessage has done when all its handlers have returned.
<1>15. CASE DeliverDone
  <2> DEFINE m == Head(stack).arg
  <2>1. /\ stack # <<>> /\ Head(stack).op = "deliver" /\ MatchingSlots = {} /\ acked' = acked
    BY <1>15 DEF DeliverDone, Idle, Top, brokerVars
  <2>2. 1 \in 1..Len(stack) /\ Head(stack) = stack[1] /\ Head(stack) \in FrameType
    BY <1>0, <2>1, TailElements
  <2>3. m \in 1..Len(sent) /\ AckId = m /\ m \in Nat
    <3>1. FrameFits(stack[1], calls, Len(sent))
      BY <2>2 DEF Shape, Frames, StackFits
    <3>2. QED
      BY <1>0, <2>1, <2>2, <3>1 DEF FrameFits, Delivering, AckId, Top
  <2>4. Inner(Head(stack), Called, Begun)
    BY <2>1 DEF Deliv, Handing
  <2> HIDE DEF m
  <2>5. m \in Fine
    <3>1. CASE m \in Called
      BY <3>1 DEF Fine
    <3>2. CASE m \in Dead
      BY <3>2 DEF Fine
    <3>3. CASE Head(stack).slot = 0 /\ m = readbuf /\ m \in Known
      <4>1. CASE sent[m].early
        BY <2>3, <4>1 DEF Fine, Early
      <4>2. CASE sent[m].topic <= Len(messageHandlers)
        <5>1. sent[m] \in MessageType
          BY <2>3 DEF Shape, Log
        <5>2. sent[m].topic \in Nat \ {0}
          BY <5>1, BoundsAssumption DEF MessageType, Topics
        <5>3. /\ sent[m].topic \in 1..Len(messageHandlers)
              /\ DOMAIN messageHandlers = 1..Len(messageHandlers)
          BY <4>2, <5>2 DEF Shape, Results
        <5>4. messageHandlers[sent[m].topic] = sent[m].topic
          BY <5>3 DEF Slots
        <5>5. sent[m].topic \in MatchingSlots
          BY <3>3, <5>2, <5>3, <5>4 DEF MatchingSlots, Top
        <5>6. QED
          BY <2>1, <5>5
      <4>3. QED
        BY <3>3, <4>1, <4>2 DEF Known
    <3>4. QED
      BY <2>1, <2>4, <3>1, <3>2, <3>3 DEF Inner, Begun, Delivering, m
  <2>6. CASE keepalive(toBroker, ping_outstanding)
    <3>1. toBroker' = toBroker \/ toBroker' = Append(toBroker, Packet("PINGREQ", 0, 0))
      BY <2>6 DEF keepalive
    <3>2. QED
      BY <1>3, <1>6, <2>1, <3>1 DEF Requests
  <2>7. CASE \E ok \in BOOLEAN : sendPacket(Packet("PUBACK", AckId, 0), ok)
    <3> DEFINE p == Packet("PUBACK", m, 0)
    <3>1. p \in Req /\ p.type = "PUBACK" /\ p.id = m
      BY <1>5, <2>3 DEF Requests
    <3>2. toBroker' = toBroker \/ toBroker' = Append(toBroker, p)
      BY <2>3, <2>7 DEF sendPacket
    <3> HIDE DEF p
    <3>3. Ids(Append(toBroker, p), "PUBACK") = Leaving \cup {m}
      BY <1>0, <1>2, <3>1, AppendIds
    <3>4. Leaving' \subseteq Leaving \cup {m}
      BY <1>2, <3>2, <3>3
    <3>5. QED
      BY <1>1, <2>1, <2>5, <3>4 DEF Gone
  <2>8. QED
    BY <1>15, <2>6, <2>7 DEF DeliverDone
<1>16. CASE BrokerPuback
  <2>1. Received /\ Head(toBroker).type = "PUBACK" /\ acked' = acked \cup {Head(toBroker).id}
    BY <1>16 DEF BrokerPuback
  <2>2. QED
    BY <1>1, <1>8, <2>1 DEF Gone
<1>17. CASE BrokerConnect \/ BrokerSubscribe \/ BrokerPublish \/ BrokerPing \/ BrokerDisconnect
  <2>1. Received /\ acked' = acked
    BY <1>17 DEF BrokerConnect, BrokerSubscribe, BrokerPublish, BrokerPing, BrokerDisconnect,
                 brokerVars
  <2>2. QED
    BY <1>3, <1>8, <2>1
<1>18. ASSUME NEW t \in Topics, NEW qos \in {0, 1}, BrokerSends(t, qos) PROVE Gone'
  <2>1. toBroker' = toBroker /\ acked' = acked
    BY <1>18 DEF BrokerSends
  <2>2. QED
    BY <1>3, <1>7, <2>1
<1>19. ~LinkBreaks
  BY DEF LinkBreaks
<1>20. CASE UNCHANGED vars
  <2>1. toBroker' = toBroker /\ acked' = acked
    BY <1>20 DEF vars, netVars, brokerVars
  <2>2. QED
    BY <1>3, <1>7, <2>1
<1>21. QED
  BY <1>9, <1>10, <1>11, <1>12, <1>13, <1>14, <1>15, <1>16, <1>17, <1>18, <1>19, <1>20
     DEF Next, App, Running, Broker

\* What holds of topics and messages while nothing is late.
Handed == ~late => Slots /\ Asked /\ Coming /\ Deliv /\ Gone

\* The messages are in order, if there are slots for all the topics.
LEMMA HandedAlways ==
    ASSUME TopicCount <= MAX_MESSAGE_HANDLERS
    PROVE  Spec => []Handed
<1>1. Init => Handed
  <2> SUFFICES ASSUME Init PROVE Slots /\ Asked /\ Coming /\ Deliv /\ Gone
    BY DEF Handed
  <2> USE DEF Init
  <2>1. Slots
    BY DEF Slots, Last, Waiting
  <2>2. Asked
    BY DEF Asked
  <2>3. Coming
    BY DEF Coming, Arrives
  <2>4. Deliv
    BY DEF Deliv, Handing
  <2>5. Gone
    BY EmptyIds DEF Gone, Leaving
  <2>6. QED
    BY <2>1, <2>2, <2>3, <2>4, <2>5
<1>2. Shape /\ Calm /\ Handed /\ [Next]_vars => Handed'
  <2> SUFFICES ASSUME Shape, Calm, Handed, [Next]_vars, ~late'
               PROVE  Slots' /\ Asked' /\ Coming' /\ Deliv' /\ Gone'
    BY DEF Handed
  <2>1. ~late
    BY LateStays
  <2>2. Counted /\ Link /\ Slots /\ Asked /\ Coming /\ Deliv /\ Gone
    BY <2>1 DEF Calm, Handed
  <2>3. QED
    BY <2>2, AskedStays, ComingStays, DelivStays, GoneStays
<1>3. QED
  BY <1>1, <1>2, ShapeAlways, CalmAlways, PTL DEF Spec

\* As long as nothing has timed out, every message that has been acknowledged was handed to
\* the handler of its topic, or overtook its SUBACK, or its SUBACK was taken by a nested
\* publish.  There must be slots for all the topics: the application subscribes to one
\* (MA.c:31), and there are five.
THEOREM AcksFollowHandlers ==
    ASSUME TopicCount <= MAX_MESSAGE_HANDLERS
    PROVE  Spec => []AckedWasHandled
<1>1. Shape /\ Handed => AckedWasHandled
  <2> SUFFICES ASSUME Shape, Handed, ~late, NEW m \in acked
               PROVE  \/ sent[m].early \/ <<m, sent[m].topic>> \in handled
                      \/ \E k \in DOMAIN stack :
                            stack[k].op = "subscribe" /\ stack[k].arg = sent[m].topic
    BY DEF AckedWasHandled
  <2>1. m \in Early \/ m \in Called \/ m \in Dead
    BY DEF Handed, Gone, Fine
  <2>2. ASSUME m \in Dead
        PROVE  \E k \in DOMAIN stack : stack[k].op = "subscribe" /\ stack[k].arg = sent[m].topic
    <3>1. sent[m].topic = subscribes /\ Waiting(stack, "subscribe") # {}
      BY <2>2 DEF Dead, Doomed
    <3>2. PICK k \in 1..Len(stack) : stack[k].op = "subscribe"
      BY <3>1 DEF Waiting
    <3>3. stack[k].arg = subscribes
      BY <3>2 DEF Handed, Slots, Last, Waiting
    <3>4. k \in DOMAIN stack
      BY <3>2, PlainQueues
    <3>5. QED
      BY <3>1, <3>2, <3>3, <3>4
  <2>3. QED
    BY <2>1, <2>2 DEF Early, Called
<1>2. QED
  BY <1>1, ShapeAlways, HandedAlways, PTL
===============================================================================
