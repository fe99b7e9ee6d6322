---------------------------- MODULE MqttSyncProofs ----------------------------
(***************************************************************************)
(* Theorems about MqttSync, for any number of topics, handler slots,       *)
(* packet ids, and any bounds.                                             *)
(***************************************************************************)
EXTENDS MqttSync, FiniteSetTheorems, TLAPS

-----------------------------------------------------------------------------
(* Queues of packets. *)

\* The ids of the packets of a type, and whether no two of them have the same.
Ids(q, type) == {q[k].id : k \in {j \in 1..Len(q) : q[j].type = type}}
Unique(q, type) ==
    \A j, k \in 1..Len(q) :
        q[j].type = type /\ q[k].type = type /\ q[j].id = q[k].id => j = k

\* A packet is added at the end ...
LEMMA AppendElements ==
    ASSUME NEW S, NEW q \in Seq(S), NEW e \in S
    PROVE  /\ Append(q, e) \in Seq(S) /\ Len(Append(q, e)) = Len(q) + 1
           /\ Append(q, e)[Len(q) + 1] = e
           /\ \A k \in 1..Len(q) : Append(q, e)[k] = q[k]
  OBVIOUS

\* ... and taken from the front.
LEMMA TailElements ==
    ASSUME NEW S, NEW q \in Seq(S), q # <<>>
    PROVE  /\ Tail(q) \in Seq(S) /\ Len(Tail(q)) = Len(q) - 1 /\ Len(q) \in Nat \ {0}
           /\ Head(q) = q[1] /\ q[1] \in S
           /\ \A k \in 1..(Len(q) - 1) : Tail(q)[k] = q[k + 1]
  OBVIOUS

LEMMA AppendIds ==
    ASSUME NEW S, NEW q \in Seq(S), NEW e \in S, NEW type
    PROVE  /\ e.type = type => Ids(Append(q, e), type) = Ids(q, type) \cup {e.id}
           /\ e.type # type => Ids(Append(q, e), type) = Ids(q, type)
<1> DEFINE a == Append(q, e)
<1>1. /\ Len(a) = Len(q) + 1 /\ a[Len(q) + 1] = e /\ Len(q) \in Nat
      /\ \A k \in 1..Len(q) : a[k] = q[k]
  BY AppendElements
<1> HIDE DEF a
<1>2. ASSUME NEW k \in 1..Len(a), a[k].type = type
      PROVE  a[k].id \in Ids(q, type) \cup (IF e.type = type THEN {e.id} ELSE {})
  <2>1. CASE k = Len(q) + 1
    BY <1>1, <1>2, <2>1
  <2>2. CASE k # Len(q) + 1
    <3>1. k \in 1..Len(q) /\ a[k] = q[k]
      BY <1>1, <2>2
    <3>2. QED
      BY <1>2, <3>1 DEF Ids
  <2>3. QED
    BY <2>1, <2>2
<1>3. ASSUME NEW k \in 1..Len(q), q[k].type = type
      PROVE  q[k].id \in Ids(a, type)
  <2>1. k \in 1..Len(a) /\ a[k] = q[k]
    BY <1>1
  <2>2. QED
    BY <1>3, <2>1 DEF Ids
<1>4. e.type = type => e.id \in Ids(a, type)
  <2>1. Len(q) + 1 \in 1..Len(a)
    BY <1>1
  <2>2. QED
    BY <1>1, <2>1 DEF Ids
<1>5. Ids(a, type) \subseteq Ids(q, type) \cup (IF e.type = type THEN {e.id} ELSE {})
  BY <1>2 DEF Ids
<1>6. Ids(q, type) \subseteq Ids(a, type)
  BY <1>3 DEF Ids
<1>7. QED
  BY <1>4, <1>5, <1>6 DEF a

LEMMA AppendUnique ==
    ASSUME NEW S, NEW q \in Seq(S), NEW e \in S, NEW type, Unique(q, type),
           e.type = type => e.id \notin Ids(q, type)
    PROVE  Unique(Append(q, e), type)
<1> DEFINE a == Append(q, e)
<1>1. /\ Len(a) = Len(q) + 1 /\ a[Len(q) + 1] = e /\ Len(q) \in Nat
      /\ \A k \in 1..Len(q) : a[k] = q[k]
  BY AppendElements
<1> HIDE DEF a
<1>2. ASSUME NEW j \in 1..Len(q), q[j].type = type
      PROVE  q[j].id \in Ids(q, type)
  BY <1>2 DEF Ids
<1>3. SUFFICES ASSUME NEW j \in 1..Len(a), NEW k \in 1..Len(a),
                      a[j].type = type, a[k].type = type, a[j].id = a[k].id
               PROVE  j = k
  BY DEF Unique, a
<1>4. CASE j \in 1..Len(q) /\ k \in 1..Len(q)
  BY <1>1, <1>3, <1>4 DEF Unique
<1>5. CASE j \in 1..Len(q) /\ k = Len(q) + 1
  BY <1>1, <1>2, <1>3, <1>5
<1>6. CASE j = Len(q) + 1 /\ k \in 1..Len(q)
  BY <1>1, <1>2, <1>3, <1>6
<1>7. QED
  BY <1>1, <1>4, <1>5, <1>6

LEMMA TailIds ==
    ASSUME NEW S, NEW q \in Seq(S), q # <<>>, NEW type
    PROVE  /\ Ids(Tail(q), type) \subseteq Ids(q, type)
           /\ Unique(q, type) => Unique(Tail(q), type)
           /\ Unique(q, type) /\ Head(q).type = type => Head(q).id \notin Ids(Tail(q), type)
           /\ Head(q).type = type => Head(q).id \in Ids(q, type)
<1> DEFINE t == Tail(q)
<1>1. /\ Len(t) = Len(q) - 1 /\ Len(q) \in Nat \ {0} /\ Head(q) = q[1]
      /\ \A k \in 1..Len(t) : t[k] = q[k + 1]
  BY TailElements
<1> HIDE DEF t
<1>2. \A k \in 1..Len(t) : k + 1 \in 1..Len(q) /\ k + 1 # 1
  BY <1>1
<1>3. Ids(t, type) \subseteq Ids(q, type)
  BY <1>1, <1>2 DEF Ids
<1>4. ASSUME Unique(q, type) PROVE Unique(t, type)
  <2> SUFFICES ASSUME NEW j \in 1..Len(t), NEW k \in 1..Len(t),
                      t[j].type = type, t[k].type = type, t[j].id = t[k].id
               PROVE  j = k
    BY DEF Unique
  <2>1. j + 1 = k + 1
    BY <1>1, <1>2, <1>4 DEF Unique
  <2>2. QED
    BY <2>1
<1>5. ASSUME Unique(q, type), q[1].type = type, NEW k \in 1..Len(t), t[k].type = type
      PROVE  t[k].id # q[1].id
  <2>1. 1 \in 1..Len(q) /\ k + 1 \in 1..Len(q) /\ k + 1 # 1 /\ t[k] = q[k + 1]
    BY <1>1, <1>2
  <2>2. QED
    BY <2>1, <1>5 DEF Unique
<1>6. Unique(q, type) /\ q[1].type = type => q[1].id \notin Ids(t, type)
  BY <1>5 DEF Ids
<1>7. q[1].type = type => q[1].id \in Ids(q, type)
  <2>1. 1 \in 1..Len(q)
    BY <1>1
  <2>2. QED
    BY <2>1 DEF Ids
<1>8. QED
  BY <1>1, <1>3, <1>4, <1>6, <1>7 DEF t

LEMMA EmptyIds == \A type : Ids(<<>>, type) = {} /\ Unique(<<>>, type)
  BY DEF Ids, Unique

-----------------------------------------------------------------------------
(* The call stack. *)

FrameType == [op : Ops, id : Nat, arg : Nat, slot : 0..MAX_MESSAGE_HANDLERS]
Delivering == {"deliver", "handler", "replied"}

\* The messages being delivered, and that none of them is twice.
Messages(st) == {st[k].id : k \in {j \in 1..Len(st) : st[j].op \in Delivering}}
UniqueFrames(st) ==
    \A j, k \in 1..Len(st) :
        st[j].op \in Delivering /\ st[k].op \in Delivering /\ st[j].id = st[k].id => j = k

\* A frame belongs to a call, a topic or a message there is: c calls, n messages.
FrameFits(f, c, n) ==
    /\ f.op = "publish" => f.arg \in 1..c
    /\ f.op = "subscribe" => f.arg \in Topics
    /\ f.op \in Delivering => f.arg \in 1..n /\ f.id = f.arg
StackFits(st, c, n) ==
    /\ st \in Seq(FrameType)
    /\ \A k \in 1..Len(st) : FrameFits(st[k], c, n) /\ (st[k].op \in Delivering => k < Len(st))

LEMMA PushElements ==
    ASSUME NEW S, NEW q \in Seq(S), NEW e \in S
    PROVE  /\ <<e>> \o q \in Seq(S) /\ Len(<<e>> \o q) = Len(q) + 1
           /\ (<<e>> \o q)[1] = e
           /\ \A k \in 1..Len(q) : (<<e>> \o q)[k + 1] = q[k]
  OBVIOUS

\* A call begins.
LEMMA Push ==
    ASSUME NEW c \in Nat, NEW n \in Nat, NEW st, StackFits(st, c, n),
           NEW f \in FrameType, FrameFits(f, c, n), f.op \in Delivering => st # <<>>
    PROVE  /\ StackFits(<<f>> \o st, c, n)
           /\ f.op \in Delivering => Messages(<<f>> \o st) = Messages(st) \cup {f.id}
           /\ f.op \notin Delivering => Messages(<<f>> \o st) = Messages(st)
           /\ UniqueFrames(st) /\ (f.op \in Delivering => f.id \notin Messages(st))
                 => UniqueFrames(<<f>> \o st)
<1> DEFINE u == <<f>> \o st
<1>1. /\ u \in Seq(FrameType) /\ Len(u) = Len(st) + 1 /\ u[1] = f /\ Len(st) \in Nat
      /\ \A k \in 1..Len(st) : u[k + 1] = st[k]
  BY PushElements DEF StackFits
<1>0. st # <<>> => Len(st) > 0
  BY DEF StackFits
<1> HIDE DEF u
<1>2. \A k \in 1..Len(u) : k # 1 => k - 1 \in 1..Len(st) /\ u[k] = st[k - 1]
  <2> TAKE k \in 1..Len(u)
  <2> HAVE k # 1
  <2>1. k - 1 \in 1..Len(st) /\ (k - 1) + 1 = k
    BY <1>1
  <2>2. QED
    BY <1>1, <2>1
<1>3. StackFits(u, c, n)
  <2> SUFFICES ASSUME NEW k \in 1..Len(u)
               PROVE  FrameFits(u[k], c, n) /\ (u[k].op \in Delivering => k < Len(u))
    BY <1>1 DEF StackFits
  <2>1. CASE k = 1
    BY <1>0, <1>1, <2>1
  <2>2. CASE k # 1
    <3>1. k - 1 \in 1..Len(st) /\ u[k] = st[k - 1]
      BY <1>2, <2>2
    <3>2. FrameFits(st[k - 1], c, n) /\ (st[k - 1].op \in Delivering => k - 1 < Len(st))
      BY <3>1 DEF StackFits
    <3>3. QED
      BY <1>1, <3>1, <3>2
  <2>3. QED
    BY <2>1, <2>2
<1>4. Messages(u) \subseteq Messages(st) \cup (IF f.op \in Delivering THEN {f.id} ELSE {})
  <2> SUFFICES ASSUME NEW k \in 1..Len(u), u[k].op \in Delivering
               PROVE  u[k].id \in Messages(st) \cup (IF f.op \in Delivering THEN {f.id} ELSE {})
    BY DEF Messages
  <2>1. CASE k = 1
    BY <1>1, <2>1
  <2>2. CASE k # 1
    BY <1>2, <2>2 DEF Messages
  <2>3. QED
    BY <2>1, <2>2
<1>5. ASSUME NEW k \in 1..Len(st), st[k].op \in Delivering
      PROVE  st[k].id \in Messages(u)
  <2>1. k + 1 \in 1..Len(u) /\ u[k + 1] = st[k]
    BY <1>1
  <2>2. QED
    BY <1>5, <2>1 DEF Messages
<1>6. f.op \in Delivering => f.id \in Messages(u)
  <2>1. 1 \in 1..Len(u)
    BY <1>1
  <2>2. QED
    BY <1>1, <2>1 DEF Messages
<1>7. Messages(st) \subseteq Messages(u)
  BY <1>5 DEF Messages
<1>8. ASSUME UniqueFrames(st), f.op \in Delivering => f.id \notin Messages(st)
      PROVE  UniqueFrames(u)
  <2> SUFFICES ASSUME NEW j \in 1..Len(u), NEW k \in 1..Len(u),
                      u[j].op \in Delivering, u[k].op \in Delivering, u[j].id = u[k].id
               PROVE  j = k
    BY DEF UniqueFrames
  <2>1. \A i \in 1..Len(st) : st[i].op \in Delivering => st[i].id \in Messages(st)
    BY DEF Messages
  <2>2. CASE j # 1 /\ k # 1
    <3>1. j - 1 = k - 1
      BY <1>2, <1>8, <2>2 DEF UniqueFrames
    <3>2. QED
      BY <3>1
  <2>3. CASE j = 1 /\ k # 1
    BY <1>1, <1>2, <1>8, <2>1, <2>3
  <2>4. CASE j # 1 /\ k = 1
    BY <1>1, <1>2, <1>8, <2>1, <2>4
  <2>5. QED
    BY <2>2, <2>3, <2>4
<1>9. QED
  BY <1>3, <1>4, <1>6, <1>7, <1>8 DEF u

\* A call returns.
LEMMA Pop ==
    ASSUME NEW c \in Nat, NEW n \in Nat, NEW st, StackFits(st, c, n), st # <<>>
    PROVE  /\ StackFits(Tail(st), c, n)
           /\ Messages(Tail(st)) \subseteq Messages(st)
           /\ UniqueFrames(st) => UniqueFrames(Tail(st))
           /\ Head(st).op \in Delivering => Head(st).id \in Messages(st) /\ Tail(st) # <<>>
           /\ UniqueFrames(st) /\ Head(st).op \in Delivering => Head(st).id \notin Messages(Tail(st))
<1> DEFINE t == Tail(st)
<1>1. /\ t \in Seq(FrameType) /\ Len(t) = Len(st) - 1 /\ Len(st) \in Nat \ {0} /\ Head(st) = st[1]
      /\ \A k \in 1..Len(t) : t[k] = st[k + 1]
  BY TailElements DEF StackFits
<1> HIDE DEF t
<1>0. Len(t) > 0 => t # <<>>
  <2>1. Len(<<>>) = 0
    OBVIOUS
  <2>2. QED
    BY <2>1
<1>2. \A k \in 1..Len(t) : k + 1 \in 1..Len(st) /\ k + 1 # 1
  BY <1>1
<1>3. StackFits(t, c, n)
  <2> SUFFICES ASSUME NEW k \in 1..Len(t)
               PROVE  FrameFits(t[k], c, n) /\ (t[k].op \in Delivering => k < Len(t))
    BY <1>1 DEF StackFits
  <2>1. FrameFits(st[k + 1], c, n) /\ (st[k + 1].op \in Delivering => k + 1 < Len(st))
    BY <1>2 DEF StackFits
  <2>2. QED
    BY <1>1, <2>1
<1>4. Messages(t) \subseteq Messages(st)
  BY <1>1, <1>2 DEF Messages
<1>5. ASSUME UniqueFrames(st) PROVE UniqueFrames(t)
  <2> SUFFICES ASSUME NEW j \in 1..Len(t), NEW k \in 1..Len(t),
                      t[j].op \in Delivering, t[k].op \in Delivering, t[j].id = t[k].id
               PROVE  j = k
    BY DEF UniqueFrames
  <2>1. j + 1 = k + 1
    BY <1>1, <1>2, <1>5 DEF UniqueFrames
  <2>2. QED
    BY <2>1
<1>6. ASSUME UniqueFrames(st), st[1].op \in Delivering, NEW k \in 1..Len(t), t[k].op \in Delivering
      PROVE  t[k].id # st[1].id
  <2>1. 1 \in 1..Len(st) /\ k + 1 \in 1..Len(st) /\ k + 1 # 1 /\ t[k] = st[k + 1]
    BY <1>1, <1>2
  <2>2. QED
    BY <2>1, <1>6 DEF UniqueFrames
<1>7. UniqueFrames(st) /\ st[1].op \in Delivering => st[1].id \notin Messages(t)
  BY <1>6 DEF Messages
<1>8. st[1].op \in Delivering => st[1].id \in Messages(st) /\ t # <<>>
  <2>1. 1 \in 1..Len(st)
    BY <1>1
  <2>2. st[1].op \in Delivering => 1 < Len(st)
    BY <2>1 DEF StackFits
  <2>3. QED
    BY <1>0, <1>1, <2>1, <2>2 DEF Messages
<1>9. QED
  BY <1>1, <1>3, <1>4, <1>5, <1>7, <1>8 DEF t

LEMMA ReplaceFirst ==
    ASSUME NEW S, NEW q \in Seq(S), NEW e \in S, 1 \in 1..Len(q)
    PROVE  /\ [q EXCEPT ![1] = e] \in Seq(S) /\ Len([q EXCEPT ![1] = e]) = Len(q)
           /\ [q EXCEPT ![1] = e][1] = e
           /\ \A k \in 1..Len(q) : k # 1 => [q EXCEPT ![1] = e][k] = q[k]
  OBVIOUS

\* The innermost call of st goes on as op: what is left is the same.
SameBut(op, st, u) ==
    /\ u \in Seq(FrameType) /\ Len(u) = Len(st)
    /\ u[1].op = op /\ u[1].id = st[1].id /\ u[1].arg = st[1].arg
    /\ \A k \in 1..Len(st) : k # 1 => u[k] = st[k]

LEMMA Changed ==
    ASSUME NEW st \in Seq(FrameType), 1 \in 1..Len(st), NEW op \in Ops,
           NEW slot \in 0..MAX_MESSAGE_HANDLERS
    PROVE  /\ SameBut(op, st, [st EXCEPT ![1].op = op])
           /\ SameBut(op, st, [st EXCEPT ![1].op = op, ![1].slot = slot])
<1> DEFINE f == [st[1] EXCEPT !.op = op]
           g == [[st[1] EXCEPT !.op = op] EXCEPT !.slot = slot]
<1>1. [st EXCEPT ![1].op = op] = [st EXCEPT ![1] = f]
  BY DEF FrameType
<1>2. [st EXCEPT ![1].op = op, ![1].slot = slot] = [st EXCEPT ![1] = g]
  BY DEF FrameType
<1>0. st[1] \in FrameType
  OBVIOUS
<1>3. f \in FrameType /\ f.op = op /\ f.id = st[1].id /\ f.arg = st[1].arg
  BY <1>0 DEF FrameType
<1>4. g \in FrameType /\ g.op = op /\ g.id = st[1].id /\ g.arg = st[1].arg
  BY <1>0 DEF FrameType
<1> HIDE DEF f, g
<1>5. ASSUME NEW e \in FrameType, e.op = op, e.id = st[1].id, e.arg = st[1].arg
      PROVE  SameBut(op, st, [st EXCEPT ![1] = e])
  <2> DEFINE v == [st EXCEPT ![1] = e]
  <2>1. /\ v \in Seq(FrameType) /\ Len(v) = Len(st) /\ v[1] = e
        /\ \A k \in 1..Len(st) : k # 1 => v[k] = st[k]
    BY ReplaceFirst
  <2> HIDE DEF v
  <2>2. SameBut(op, st, v)
    BY <1>5, <2>1 DEF SameBut
  <2>3. QED
    BY <2>2 DEF v
<1>6. QED
  BY <1>1, <1>2, <1>3, <1>4, <1>5

\* A delivery that goes on stays one of the same message.
LEMMA Relabel ==
    ASSUME NEW c \in Nat, NEW n \in Nat, NEW st, StackFits(st, c, n), st # <<>>,
           Head(st).op \in Delivering, NEW op \in Delivering, NEW u, SameBut(op, st, u)
    PROVE  StackFits(u, c, n) /\ Messages(u) = Messages(st) /\ (UniqueFrames(st) => UniqueFrames(u))
           /\ u # <<>>
<1>1. /\ Len(st) \in Nat \ {0} /\ Head(st) = st[1] /\ 1 \in 1..Len(st) /\ st[1] \in FrameType
  BY TailElements DEF StackFits
<1>2. /\ u \in Seq(FrameType) /\ Len(u) = Len(st)
      /\ u[1].op = op /\ u[1].id = st[1].id /\ u[1].arg = st[1].arg
      /\ \A k \in 1..Len(st) : k # 1 => u[k] = st[k]
  BY DEF SameBut
<1>3. \A k \in 1..Len(st) : /\ u[k].op \in Delivering <=> st[k].op \in Delivering
                            /\ u[k].id = st[k].id /\ u[k].arg = st[k].arg
                            /\ u[k].op \in Delivering \/ u[k].op = st[k].op
  BY <1>1, <1>2
<1>4. StackFits(u, c, n)
  <2> SUFFICES ASSUME NEW k \in 1..Len(u)
               PROVE  FrameFits(u[k], c, n) /\ (u[k].op \in Delivering => k < Len(u))
    BY <1>2 DEF StackFits
  <2>1. FrameFits(st[k], c, n) /\ (st[k].op \in Delivering => k < Len(st))
    BY <1>2 DEF StackFits
  <2>2. CASE k = 1
    BY <1>1, <1>2, <2>1, <2>2 DEF FrameFits, Delivering
  <2>3. CASE k # 1
    BY <1>2, <2>1, <2>3
  <2>4. QED
    BY <2>2, <2>3
<1>5. Messages(u) = Messages(st)
  BY <1>2, <1>3 DEF Messages
<1>6. UniqueFrames(st) => UniqueFrames(u)
  BY <1>2, <1>3 DEF UniqueFrames
<1>7. u # <<>>
  BY <1>1, <1>2
<1>8. QED
  BY <1>4, <1>5, <1>6, <1>7

\* New calls and messages leave the frames as they are.
LEMMA StackGrows ==
    ASSUME NEW c \in Nat, NEW n \in Nat, NEW d \in Nat, NEW m \in Nat, c <= d, n <= m,
           NEW st, StackFits(st, c, n)
    PROVE  StackFits(st, d, m)
<1>1. ASSUME NEW k \in 1..Len(st)
      PROVE  FrameFits(st[k], d, m)
  <2>1. FrameFits(st[k], c, n)
    BY DEF StackFits
  <2>2. QED
    BY <2>1 DEF FrameFits
<1>2. QED
  BY <1>1 DEF StackFits

-----------------------------------------------------------------------------
(* Types.  The invariant says of each packet and each frame what it is about; *)
(* each of its parts has a lemma of its own. *)

\* The packets there are with c calls and the messages s.
RequestsOf(c, s) ==
    {p \in [type : Requests, id : Nat, about : Nat] :
        /\ p.type = "PUBLISH" => p.about \in 1..c
        /\ p.type = "SUBSCRIBE" => p.about \in Topics
        /\ p.type = "PUBACK" => p.id \in 1..Len(s) /\ s[p.id].qos = 1}
AnswersOf(s) ==
    {p \in [type : Answers, id : Nat, about : Nat] : p.type = "PUBLISH" => p.id \in 1..Len(s)}
MessageType == [topic : Topics, qos : {0, 1}, early : BOOLEAN]

Flags == /\ isconnected \in BOOLEAN /\ ping_outstanding \in BOOLEAN
         /\ up \in BOOLEAN /\ session \in BOOLEAN /\ late \in BOOLEAN
Counts == /\ next_packetid \in PacketIds
          /\ connects \in 0..MaxConnects /\ subscribes \in 0..TopicCount /\ calls \in 0..MaxPublishes
Log == sent \in Seq(MessageType) /\ Len(sent) \in 0..MaxMessages
Queues == toBroker \in Seq(RequestsOf(calls, sent)) /\ toClient \in Seq(AnswersOf(sent))
Frames == StackFits(stack, calls, Len(sent))
Results == /\ messageHandlers \in Seq(Topics) /\ Len(messageHandlers) <= MAX_MESSAGE_HANDLERS
           /\ readbuf \in 0..Len(sent)
           /\ succeeded \subseteq 1..calls /\ accepted \subseteq 1..calls
           /\ handled \subseteq (1..MaxMessages) \X Topics
           /\ subscribed \subseteq Topics /\ acked \subseteq 1..Len(sent)
Shape == Flags /\ Counts /\ Log /\ Queues /\ Frames /\ Results

\* The flags stay flags.
LEMMA FlagsStay ==
    ASSUME Flags, [Next]_vars PROVE Flags'
<1> USE DEF Flags
<1>1. CASE App
  <2>1. CASE MQTTConnect
    BY <2>1, Zenon DEF MQTTConnect, sendPacket, brokerVars
  <2>2. ASSUME NEW t \in Topics, MQTTSubscribe(t) PROVE Flags'
    BY <2>2, Zenon DEF MQTTSubscribe, sendPacket, brokerVars
  <2>3. CASE MQTTPublish
    BY <2>3, Zenon DEF MQTTPublish, sendPacket, brokerVars
  <2>4. CASE MQTTYield
    BY <2>4, Zenon DEF MQTTYield, brokerVars, netVars
  <2>5. CASE MQTTDisconnect
    BY <2>5, Zenon DEF MQTTDisconnect, sendPacket, brokerVars
  <2>6. QED
    BY <1>1, <2>1, <2>2, <2>3, <2>4, <2>5 DEF App
<1>2. CASE NothingRead
  BY <1>2, Zenon DEF NothingRead, keepalive, brokerVars
<1>3. CASE Running
  <2>1. CASE AnswerRead
    BY <2>1, Zenon DEF AnswerRead, ConnackRead, SubackRead, PubackRead, keepalive, brokerVars
  <2>2. CASE MessageRead
    BY <2>2, Zenon DEF MessageRead, brokerVars
  <2>3. CASE CallHandler \/ HandlerReturns
    BY <2>3, Zenon DEF CallHandler, HandlerReturns, brokerVars, netVars
  <2>4. CASE DeliverDone
    BY <2>4, Zenon DEF DeliverDone, keepalive, sendPacket, brokerVars
  <2>5. CASE TimerExpires
    BY <2>5, Zenon DEF TimerExpires, brokerVars
  <2>6. QED
    BY <1>3, <2>1, <2>2, <2>3, <2>4, <2>5 DEF Running
<1>4. CASE Broker
  <2>1. CASE BrokerConnect
    BY <2>1, Zenon DEF BrokerConnect, clientVars
  <2>2. CASE BrokerSubscribe \/ BrokerPublish \/ BrokerPuback
    BY <2>2, Zenon DEF BrokerSubscribe, BrokerPublish, BrokerPuback, clientVars
  <2>3. CASE BrokerPing \/ BrokerDisconnect \/ LinkBreaks
    BY <2>3, Zenon DEF BrokerPing, BrokerDisconnect, LinkBreaks, clientVars, brokerVars
  <2>4. ASSUME NEW t \in Topics, NEW qos \in {0, 1}, BrokerSends(t, qos) PROVE Flags'
    BY <2>4, Zenon DEF BrokerSends, clientVars
  <2>5. QED
    BY <1>4, <2>1, <2>2, <2>3, <2>4 DEF Broker
<1>5. CASE UNCHANGED vars
  BY <1>5, Zenon DEF vars, clientVars, brokerVars, netVars
<1>6. QED
  BY <1>1, <1>2, <1>3, <1>4, <1>5 DEF Next

\* No packet id is 0, and no counter leaves its bound.
LEMMA CountsStay ==
    ASSUME Counts, [Next]_vars PROVE Counts'
<1> USE BoundsAssumption DEF Counts
<1>1. CASE App
  <2>1. CASE MQTTConnect
    BY <2>1 DEF MQTTConnect
  <2>2. ASSUME NEW t \in Topics, MQTTSubscribe(t) PROVE Counts'
    BY <2>2 DEF MQTTSubscribe, getNextPacketId, PacketIds, Topics
  <2>3. CASE MQTTPublish
    BY <2>3 DEF MQTTPublish, getNextPacketId, PacketIds
  <2>4. CASE MQTTYield \/ MQTTDisconnect
    BY <2>4 DEF MQTTYield, MQTTDisconnect
  <2>5. QED
    BY <1>1, <2>1, <2>2, <2>3, <2>4 DEF App
<1>2. CASE ~App
  <2>1. UNCHANGED <<next_packetid, connects, subscribes, calls>>
    BY <1>2 DEF Next, vars, clientVars, NothingRead, Running, AnswerRead, MessageRead,
                CallHandler, HandlerReturns, DeliverDone, TimerExpires, Broker, BrokerConnect,
                BrokerSubscribe, BrokerPublish, BrokerPuback, BrokerPing, BrokerDisconnect,
                LinkBreaks, BrokerSends
  <2>2. QED
    BY <2>1
<1>3. QED
  BY <1>1, <1>2

\* The broker adds one message.
LEMMA OneMoreMessage ==
    ASSUME NEW t \in Topics, NEW qos \in {0, 1}, BrokerSends(t, qos), Log
    PROVE  /\ sent' \in Seq(MessageType) /\ Len(sent') = Len(sent) + 1 /\ Len(sent) < MaxMessages
           /\ \A m \in 1..Len(sent) : sent'[m] = sent[m]
<1>1. PICK early \in BOOLEAN : sent' = Append(sent, [topic |-> t, qos |-> qos, early |-> early])
  BY DEF BrokerSends
<1>2. Len(sent) < MaxMessages
  BY DEF BrokerSends
<1> DEFINE e == [topic |-> t, qos |-> qos, early |-> early]
<1>3. e \in MessageType
  BY DEF MessageType
<1> HIDE DEF e
<1>4. QED
  BY <1>1, <1>2, <1>3, AppendElements DEF Log, e

\* Calls and messages only become more.
LEMMA LogGrows ==
    ASSUME Log, Counts, [Next]_vars
    PROVE  /\ Log' /\ Len(sent) <= Len(sent')
           /\ \A m \in 1..Len(sent) : sent'[m] = sent[m]
           /\ calls <= calls'
<1>1. CASE \E t \in Topics, qos \in {0, 1} : BrokerSends(t, qos)
  <2>1. PICK t \in Topics, qos \in {0, 1} : BrokerSends(t, qos)
    BY <1>1
  <2>2. calls' = calls
    BY <2>1 DEF BrokerSends, clientVars
  <2>3. QED
    BY <2>1, <2>2, OneMoreMessage, BoundsAssumption DEF Log, Counts
<1>2. CASE ~\E t \in Topics, qos \in {0, 1} : BrokerSends(t, qos)
  <2>1. sent' = sent
    BY <1>2 DEF Next, vars, clientVars, brokerVars, App, MQTTConnect, MQTTSubscribe, MQTTPublish,
                MQTTYield, MQTTDisconnect, NothingRead, Running, AnswerRead, MessageRead,
                CallHandler, HandlerReturns, DeliverDone, TimerExpires, Broker, BrokerConnect,
                BrokerSubscribe, BrokerPublish, BrokerPuback, BrokerPing, BrokerDisconnect,
                LinkBreaks
  <2>2. calls' = calls \/ calls' = calls + 1
    BY <1>2 DEF Next, vars, clientVars, brokerVars, App, MQTTConnect, MQTTSubscribe, MQTTPublish,
                MQTTYield, MQTTDisconnect, NothingRead, Running, AnswerRead, MessageRead,
                CallHandler, HandlerReturns, DeliverDone, TimerExpires, Broker, BrokerConnect,
                BrokerSubscribe, BrokerPublish, BrokerPuback, BrokerPing, BrokerDisconnect,
                LinkBreaks
  <2>3. QED
    BY <2>1, <2>2 DEF Log, Counts
<1>3. QED
  BY <1>1, <1>2

\* A packet stays about something there is.
LEMMA PacketsStay ==
    ASSUME NEW c \in Nat, NEW d \in Nat, c <= d,
           NEW s \in Seq(MessageType), NEW t \in Seq(MessageType), Len(s) <= Len(t),
           \A m \in 1..Len(s) : t[m] = s[m]
    PROVE  /\ RequestsOf(c, s) \subseteq RequestsOf(d, t) /\ AnswersOf(s) \subseteq AnswersOf(t)
           /\ Seq(RequestsOf(c, s)) \subseteq Seq(RequestsOf(d, t))
           /\ Seq(AnswersOf(s)) \subseteq Seq(AnswersOf(t))
<1>1. Len(s) \in Nat /\ Len(t) \in Nat
  OBVIOUS
<1>2. ASSUME NEW p \in RequestsOf(c, s) PROVE p \in RequestsOf(d, t)
  BY <1>1 DEF RequestsOf
<1>3. ASSUME NEW p \in AnswersOf(s) PROVE p \in AnswersOf(t)
  BY <1>1 DEF AnswersOf
<1>4. ASSUME NEW S, NEW T, S \subseteq T PROVE Seq(S) \subseteq Seq(T)
  BY <1>4
<1>5. QED
  BY <1>2, <1>3, <1>4

\* What sendPacket and keepalive add to the packets for the broker.
LEMMA Sent ==
    ASSUME NEW c \in Nat, NEW s, toBroker \in Seq(RequestsOf(c, s)),
           NEW packet \in RequestsOf(c, s), NEW ok \in BOOLEAN, sendPacket(packet, ok)
    PROVE  toBroker' \in Seq(RequestsOf(c, s))
<1>1. toBroker' = toBroker \/ toBroker' = Append(toBroker, packet)
  BY DEF sendPacket
<1>2. QED
  BY <1>1, AppendElements

LEMMA KeptAlive ==
    ASSUME NEW c \in Nat, NEW s, toBroker \in Seq(RequestsOf(c, s)), NEW outstanding,
           keepalive(toBroker, outstanding)
    PROVE  toBroker' \in Seq(RequestsOf(c, s))
<1>1. Packet("PINGREQ", 0, 0) \in RequestsOf(c, s)
  BY DEF Packet, RequestsOf, Requests
<1>2. toBroker' = toBroker \/ toBroker' = Append(toBroker, Packet("PINGREQ", 0, 0))
  BY DEF keepalive
<1>3. QED
  BY <1>1, <1>2, AppendElements

LEMMA Answered ==
    ASSUME NEW s, toClient \in Seq(AnswersOf(s)), NEW packet \in AnswersOf(s), Answer(packet)
    PROVE  toClient' \in Seq(AnswersOf(s))
<1>1. toClient' = toClient \/ toClient' = Append(toClient, packet)
  BY DEF Answer
<1>2. QED
  BY <1>1, AppendElements

\* Every packet on its way is about a call, a topic or a message there is, and
\* a PUBACK about a message of QoS 1.
LEMMA QueuesStay ==
    ASSUME Log, Counts, Queues, Frames, [Next]_vars
    PROVE  Queues'
<1> DEFINE B == RequestsOf(calls', sent')
           C == AnswersOf(sent')
<1>0. /\ calls' \in Nat /\ next_packetid' \in Nat /\ sent' \in Seq(MessageType)
      /\ calls \in Nat /\ Len(sent) \in Nat /\ Len(sent') \in Nat
  BY CountsStay, LogGrows, BoundsAssumption DEF Log, Counts, PacketIds
<1>1. toBroker \in Seq(B) /\ toClient \in Seq(C)
  BY <1>0, LogGrows, PacketsStay DEF Log, Queues
<1>2. Queues' <=> toBroker' \in Seq(B) /\ toClient' \in Seq(C)
  BY DEF Queues
<1>3. toBroker # <<>> => Tail(toBroker) \in Seq(B) /\ Head(toBroker) \in B
  BY <1>1, TailElements
<1>4. toClient # <<>> => Tail(toClient) \in Seq(C) /\ Head(toClient) \in C
  BY <1>1, TailElements
<1>5. <<>> \in Seq(B) /\ <<>> \in Seq(C)
  OBVIOUS
<1> HIDE DEF B, C
<1>6. CASE App
  <2>1. CASE MQTTConnect
    <3>1. Packet("CONNECT", 0, 0) \in B
      BY DEF B, Packet, RequestsOf, Requests
    <3>2. QED
      BY <2>1, <3>1, <1>0, <1>1, <1>2, Sent DEF MQTTConnect, B
  <2>2. ASSUME NEW t \in Topics, MQTTSubscribe(t) PROVE Queues'
    <3>1. Packet("SUBSCRIBE", next_packetid', t) \in B
      BY <1>0, BoundsAssumption DEF B, Packet, RequestsOf, Requests, Topics
    <3>2. QED
      BY <2>2, <3>1, <1>0, <1>1, <1>2, Sent DEF MQTTSubscribe, B
  <2>3. CASE MQTTPublish
    <3>1. Packet("PUBLISH", next_packetid', calls') \in B
      BY <1>0, <2>3 DEF MQTTPublish, B, Packet, RequestsOf, Requests
    <3>2. QED
      BY <2>3, <3>1, <1>0, <1>1, <1>2, Sent DEF MQTTPublish, B
  <2>4. CASE MQTTYield
    BY <2>4, <1>1, <1>2 DEF MQTTYield, netVars
  <2>5. CASE MQTTDisconnect
    <3>1. Packet("DISCONNECT", 0, 0) \in B
      BY DEF B, Packet, RequestsOf, Requests
    <3>2. QED
      BY <2>5, <3>1, <1>0, <1>1, <1>2, <1>5, Sent DEF MQTTDisconnect, B
  <2>6. QED
    BY <1>6, <2>1, <2>2, <2>3, <2>4, <2>5 DEF App
<1>7. CASE NothingRead
  BY <1>7, <1>0, <1>1, <1>2, KeptAlive DEF NothingRead, B
<1>8. CASE Running
  <2>1. CASE AnswerRead
    <3>1. toClient' = Tail(toClient) /\ toClient # <<>>
      BY <2>1 DEF AnswerRead
    <3>2. PICK outstanding : keepalive(toBroker, outstanding)
      BY <2>1 DEF AnswerRead
    <3>3. QED
      BY <3>1, <3>2, <1>0, <1>1, <1>2, <1>4, KeptAlive DEF B
  <2>2. CASE MessageRead
    BY <2>2, <1>1, <1>2, <1>4 DEF MessageRead
  <2>3. CASE CallHandler \/ HandlerReturns
    BY <2>3, <1>1, <1>2 DEF CallHandler, HandlerReturns, netVars
  <2>4. CASE DeliverDone
    <3>1. toClient' = toClient /\ UNCHANGED <<calls, sent>>
      BY <2>4 DEF DeliverDone, brokerVars
    <3>2. CASE keepalive(toBroker, ping_outstanding)
      BY <3>1, <3>2, <1>0, <1>1, <1>2, KeptAlive DEF B
    <3>3. CASE sent[Top.arg].qos # 0 /\ \E ok \in BOOLEAN : sendPacket(Packet("PUBACK", AckId, 0), ok)
      <4>1. Top = stack[1] /\ 1 \in 1..Len(stack) /\ Top.op = "deliver"
        BY <2>4, TailElements DEF DeliverDone, Idle, Top, Frames, StackFits
      <4>2. Top.arg \in 1..Len(sent) /\ Top.id = Top.arg
        BY <4>1 DEF Frames, StackFits, FrameFits, Delivering
      <4>3. sent[Top.arg].qos = 1
        <5>1. sent[Top.arg] \in MessageType
          BY <4>2 DEF Log
        <5>2. QED
          BY <3>3, <5>1 DEF MessageType
      <4>4. Packet("PUBACK", AckId, 0) \in B
        BY <3>1, <4>2, <4>3, <1>0 DEF B, Packet, RequestsOf, Requests, AckId
      <4>5. QED
        BY <3>1, <3>3, <4>4, <1>0, <1>1, <1>2, Sent DEF B
    <3>4. QED
      BY <2>4, <3>2, <3>3 DEF DeliverDone
  <2>5. CASE TimerExpires
    BY <2>5, <1>1, <1>2 DEF TimerExpires
  <2>6. QED
    BY <1>8, <2>1, <2>2, <2>3, <2>4, <2>5 DEF Running
<1>9. CASE Broker
  <2>1. CASE BrokerConnect
    <3>1. Packet("CONNACK", 0, 0) \in C /\ Packet("CONNACK", 0, 1) \in C
      BY DEF C, Packet, AnswersOf, Answers
    <3>2. toClient' \in Seq(C)
      BY <2>1, <3>1, <1>1, Answered DEF BrokerConnect, C
    <3>3. QED
      BY <2>1, <3>2, <1>2, <1>3 DEF BrokerConnect, Received
  <2>2. CASE BrokerSubscribe
    <3>1. \A r \in {0, 1} : Packet("SUBACK", Head(toBroker).id, r) \in C
      BY <2>2, <1>3 DEF BrokerSubscribe, Received, B, RequestsOf, C, Packet, AnswersOf, Answers
    <3>2. toClient' \in Seq(C)
      BY <2>2, <3>1, <1>1, Answered DEF BrokerSubscribe, C
    <3>3. QED
      BY <2>2, <3>2, <1>2, <1>3 DEF BrokerSubscribe, Received
  <2>3. CASE BrokerPublish
    <3>1. Packet("PUBACK", Head(toBroker).id, 0) \in C
      BY <2>3, <1>3 DEF BrokerPublish, Received, B, RequestsOf, C, Packet, AnswersOf, Answers
    <3>2. QED
      BY <2>3, <3>1, <1>1, <1>2, <1>3, Answered DEF BrokerPublish, Received, C
  <2>4. CASE BrokerPing
    <3>1. Packet("PINGRESP", 0, 0) \in C
      BY DEF C, Packet, AnswersOf, Answers
    <3>2. QED
      BY <2>4, <3>1, <1>1, <1>2, <1>3, Answered DEF BrokerPing, Received, C
  <2>5. CASE BrokerPuback \/ BrokerDisconnect \/ LinkBreaks
    BY <2>5, <1>1, <1>2, <1>3, <1>5 DEF BrokerPuback, BrokerDisconnect, LinkBreaks, Received
  <2>6. ASSUME NEW t \in Topics, NEW qos \in {0, 1}, BrokerSends(t, qos) PROVE Queues'
    <3>1. Len(sent') \in 1..Len(sent')
      BY <2>6, <1>0, OneMoreMessage
    <3>2. Packet("PUBLISH", Len(sent'), 0) \in C
      BY <3>1, <1>0 DEF C, Packet, AnswersOf, Answers
    <3>3. QED
      BY <2>6, <3>2, <1>1, <1>2, Answered DEF BrokerSends, C
  <2>7. QED
    BY <1>9, <2>1, <2>2, <2>3, <2>4, <2>5, <2>6 DEF Broker
<1>10. CASE UNCHANGED vars
  BY <1>10, <1>1, <1>2 DEF vars, netVars
<1>11. QED
  BY <1>6, <1>7, <1>8, <1>9, <1>10 DEF Next

\* A frame other than a delivery may start on an empty stack.
LEMMA CallBegins ==
    ASSUME NEW c \in Nat, NEW n \in Nat, NEW st, StackFits(st, c, n),
           NEW f \in FrameType, FrameFits(f, c, n), f.op \notin Delivering,
           NEW ok \in BOOLEAN, Call(f, ok, st)
    PROVE  /\ StackFits(stack', c, n) /\ Messages(stack') = Messages(st)
           /\ UniqueFrames(st) => UniqueFrames(stack')
<1>1. stack' = <<f>> \o st \/ stack' = <<>> \o st
  BY DEF Call
<1>2. <<>> \o st = st
  BY DEF StackFits
<1>3. CASE stack' = <<f>> \o st
  <2>1. /\ StackFits(<<f>> \o st, c, n)
        /\ Messages(<<f>> \o st) = Messages(st)
        /\ UniqueFrames(st) => UniqueFrames(<<f>> \o st)
    BY Push
  <2>2. QED
    BY <1>3, <2>1
<1>4. CASE stack' = st
  BY <1>4
<1>5. QED
  BY <1>1, <1>2, <1>3, <1>4

\* The kinds of frames that are pushed.
LEMMA NewFrames ==
    ASSUME NEW c \in Nat, NEW n \in Nat, NEW id \in Nat, NEW arg \in Nat
    PROVE  /\ \A op \in Ops : /\ Frame(op, id, arg) \in FrameType
                              /\ Frame(op, id, arg).op = op /\ Frame(op, id, arg).id = id
           /\ \A op \in {"connect", "yield"} : FrameFits(Frame(op, id, arg), c, n)
           /\ arg \in 1..c => FrameFits(Frame("publish", id, arg), c, n)
           /\ arg \in Topics => FrameFits(Frame("subscribe", id, arg), c, n)
           /\ arg \in 1..n /\ id = arg => FrameFits(Frame("deliver", id, arg), c, n)
<1>1. 0 \in 0..MAX_MESSAGE_HANDLERS
  BY BoundsAssumption
<1>2. QED
  BY <1>1 DEF Frame, FrameType, FrameFits, Delivering

\* The two ways in which a delivery goes on.
LEMMA GoesOn ==
    ASSUME NEW c \in Nat, NEW n \in Nat, NEW st, StackFits(st, c, n), st # <<>>,
           NEW op \in Delivering, NEW slot \in 0..MAX_MESSAGE_HANDLERS
    PROVE  /\ SameBut(op, st, [st EXCEPT ![1].op = op])
           /\ SameBut(op, st, [st EXCEPT ![1].op = op, ![1].slot = slot])
<1>1. /\ 1 \in 1..Len(st) /\ st \in Seq(FrameType)
  BY TailElements DEF StackFits
<1>2. op \in Ops
  BY DEF Delivering, Ops
<1>3. QED
  BY <1>1, <1>2, Changed

\* From st to u deliveries may end, but none begins.
DeliveriesEnd(st, u) ==
    Messages(u) \subseteq Messages(st) /\ (UniqueFrames(st) => UniqueFrames(u))

\* Every call on the stack is about a call, a topic or a message there is, and no
\* message is delivered but within a call that reads.
LEMMA FramesStay ==
    ASSUME Log, Counts, Queues, Frames, Results, [Next]_vars
    PROVE  Frames' /\ (DeliveriesEnd(stack, stack') \/ MessageRead)
<1> DEFINE c == calls'
           n == Len(sent')
<1>0. /\ c \in Nat /\ n \in Nat /\ next_packetid' \in Nat
      /\ calls \in Nat /\ Len(sent) \in Nat /\ calls <= c /\ Len(sent) <= n
  BY CountsStay, LogGrows, BoundsAssumption DEF Log, Counts, PacketIds
<1>1. StackFits(stack, c, n)
  BY <1>0, StackGrows DEF Frames
<1>2. Frames' <=> StackFits(stack', c, n)
  BY DEF Frames
<1>4. DeliveriesEnd(stack, stack)
  BY DEF DeliveriesEnd
<1>3. stack # <<>> => Top \in FrameType /\ FrameFits(Top, calls, Len(sent))
  BY TailElements DEF Top, Frames, StackFits
<1> HIDE DEF c, n
<1>6. CASE App
  <2>1. CASE MQTTConnect
    <3>1. /\ Frame("connect", 0, 0) \in FrameType /\ FrameFits(Frame("connect", 0, 0), c, n)
          /\ Frame("connect", 0, 0).op \notin Delivering
      BY <1>0, NewFrames DEF Ops, Delivering
    <3>2. QED
      BY <2>1, <3>1, <1>0, <1>1, <1>2, CallBegins DEF MQTTConnect, DeliveriesEnd
  <2>2. ASSUME NEW t \in Topics, MQTTSubscribe(t)
        PROVE  Frames' /\ DeliveriesEnd(stack, stack')
    <3>1. t \in Nat
      BY BoundsAssumption DEF Topics
    <3> DEFINE f == Frame("subscribe", next_packetid', t)
    <3>2. f \in FrameType /\ FrameFits(f, c, n) /\ f.op \notin Delivering
      BY <1>0, <3>1, NewFrames DEF Ops, Delivering
    <3> HIDE DEF f
    <3>3. QED
      BY <2>2, <3>2, <1>0, <1>1, <1>2, CallBegins DEF MQTTSubscribe, f, DeliveriesEnd
  <2>3. CASE MQTTPublish
    <3> DEFINE f == Frame("publish", next_packetid', calls')
               below == IF Idle THEN stack ELSE [stack EXCEPT ![1].op = "replied"]
    <3>1. calls' \in 1..c
      BY <2>3, <1>0 DEF MQTTPublish, c
    <3>2. f \in FrameType /\ FrameFits(f, c, n) /\ f.op \notin Delivering
      BY <1>0, <3>1, NewFrames DEF Ops, Delivering
    <3>3. StackFits(below, c, n) /\ DeliveriesEnd(stack, below)
      <4>1. CASE Idle
        BY <4>1, <1>1, <1>4
      <4>2. CASE ~Idle
        <5>1. Head(stack).op \in Delivering /\ "replied" \in Delivering /\ stack # <<>>
          BY <2>3, <4>2 DEF MQTTPublish, Top, Delivering, Idle
        <5>2. below = [stack EXCEPT ![1].op = "replied"] /\ 0 \in 0..MAX_MESSAGE_HANDLERS
          BY <4>2, BoundsAssumption
        <5> HIDE DEF below
        <5>3. SameBut("replied", stack, below)
          BY <5>1, <5>2, <1>0, <1>1, GoesOn
        <5>4. QED
          BY <5>1, <5>3, <1>0, <1>1, Relabel DEF DeliveriesEnd
      <4>3. QED
        BY <4>1, <4>2
    <3>4. PICK ok \in BOOLEAN : Call(f, ok, below)
      BY <2>3 DEF MQTTPublish
    <3> HIDE DEF f, below
    <3>5. QED
      BY <3>2, <3>3, <3>4, <1>0, <1>2, CallBegins DEF DeliveriesEnd
  <2>4. CASE MQTTYield
    <3> DEFINE f == Frame("yield", 0, 0)
    <3>1. f \in FrameType /\ FrameFits(f, c, n) /\ f.op \notin Delivering
      BY <1>0, NewFrames DEF Ops, Delivering
    <3>2. stack' = <<f>> /\ stack = <<>>
      BY <2>4 DEF MQTTYield, Idle
    <3> HIDE DEF f
    <3>3. stack' = <<f>> \o stack
      BY <3>2
    <3>4. QED
      BY <3>1, <3>3, <1>0, <1>1, <1>2, Push DEF DeliveriesEnd
  <2>5. CASE MQTTDisconnect
    BY <2>5, <1>1, <1>2, <1>4 DEF MQTTDisconnect
  <2>6. QED
    BY <1>6, <2>1, <2>2, <2>3, <2>4, <2>5 DEF App
<1>7. CASE NothingRead
  BY <1>7, <1>1, <1>2, <1>4 DEF NothingRead
<1>8. CASE Running
  <2>0. stack # <<>> => StackFits(Tail(stack), c, n) /\ DeliveriesEnd(stack, Tail(stack))
    BY <1>0, <1>1, Pop DEF DeliveriesEnd
  <2>1. CASE AnswerRead
    <3>1. stack # <<>> /\ (stack' = Tail(stack) \/ stack' = stack)
      BY <2>1 DEF AnswerRead, Reading, Idle
    <3>2. QED
      BY <3>1, <2>0, <1>1, <1>2, <1>4
  <2>2. CASE MessageRead
    <3> DEFINE f == Frame("deliver", Head(toClient).id, Head(toClient).id)
    <3>1. Head(toClient).id \in Nat /\ Head(toClient).id \in 1..Len(sent)
      BY <2>2, TailElements DEF MessageRead, Queues, AnswersOf
    <3>2. f \in FrameType /\ FrameFits(f, c, n)
      <4> DEFINE id == Head(toClient).id
      <4>1. id \in Nat /\ id \in 1..n
        BY <1>0, <3>1
      <4> HIDE DEF id
      <4>2. Frame("deliver", id, id) \in FrameType /\ FrameFits(Frame("deliver", id, id), c, n)
        BY <1>0, <4>1, NewFrames DEF Ops
      <4>3. QED
        BY <4>2 DEF id
    <3>3. stack' = <<f>> \o stack /\ stack # <<>>
      BY <2>2 DEF MessageRead, Reading, Idle
    <3> HIDE DEF f
    <3>4. QED
      BY <2>2, <3>2, <3>3, <1>0, <1>1, <1>2, Push
  <2>3. CASE CallHandler
    <3>1. PICK s \in MatchingSlots : stack' = [stack EXCEPT ![1].op = "handler", ![1].slot = s]
      BY <2>3 DEF CallHandler
    <3>2. s \in 0..MAX_MESSAGE_HANDLERS
      BY BoundsAssumption DEF MatchingSlots, Results
    <3>3. stack # <<>> /\ Head(stack).op \in Delivering /\ "handler" \in Delivering
      BY <2>3 DEF CallHandler, Idle, Top, Delivering
    <3>4. SameBut("handler", stack, stack')
      BY <3>1, <3>2, <3>3, <1>0, <1>1, GoesOn
    <3>5. QED
      BY <3>3, <3>4, <1>0, <1>1, <1>2, Relabel DEF DeliveriesEnd
  <2>4. CASE HandlerReturns
    <3>1. stack # <<>> /\ Head(stack).op \in Delivering /\ "deliver" \in Delivering
          /\ stack' = [stack EXCEPT ![1].op = "deliver"] /\ 0 \in 0..MAX_MESSAGE_HANDLERS
      BY <2>4, BoundsAssumption DEF HandlerReturns, Idle, Top, Delivering
    <3>2. SameBut("deliver", stack, stack')
      BY <3>1, <1>0, <1>1, GoesOn
    <3>3. QED
      BY <3>1, <3>2, <1>0, <1>1, <1>2, Relabel DEF DeliveriesEnd
  <2>5. CASE DeliverDone
    <3>1. stack # <<>> /\ Head(stack).op \in Delivering
          /\ (stack' = Tail(stack) \/ stack' = Tail(Tail(stack)))
      BY <2>5 DEF DeliverDone, Idle, Top, Delivering
    <3>2. Tail(stack) # <<>>
      BY <3>1, <1>0, <1>1, Pop
    <3>3. StackFits(Tail(Tail(stack)), c, n) /\ DeliveriesEnd(stack, Tail(Tail(stack)))
      BY <3>1, <3>2, <2>0, <1>0, Pop DEF DeliveriesEnd
    <3>4. QED
      BY <3>1, <3>3, <2>0, <1>2
  <2>6. CASE TimerExpires
    BY <2>6, <2>0, <1>2 DEF TimerExpires, Reading, Idle
  <2>7. QED
    BY <1>8, <2>1, <2>2, <2>3, <2>4, <2>5, <2>6 DEF Running
<1>9. CASE Broker \/ UNCHANGED vars
  <2>1. stack' = stack
    BY <1>9 DEF vars, clientVars, Broker, BrokerConnect, BrokerSubscribe, BrokerPublish,
                BrokerPuback, BrokerPing, BrokerDisconnect, LinkBreaks, BrokerSends
  <2>2. QED
    BY <2>1, <1>1, <1>2, <1>4
<1>10. QED
  BY <1>6, <1>7, <1>8, <1>9 DEF Next

\* What commands and the broker record is about calls, topics and messages there are,
\* and no handler is kept beyond the last slot.
LEMMA ResultsStay ==
    ASSUME Log, Counts, Queues, Frames, Results, [Next]_vars
    PROVE  Results'
<1>0. /\ calls' \in Nat /\ calls \in Nat /\ Len(sent) \in Nat /\ Len(sent') \in Nat
      /\ calls <= calls' /\ Len(sent) <= Len(sent') /\ Len(sent) <= MaxMessages
  BY CountsStay, LogGrows, BoundsAssumption DEF Log, Counts
<1>1. 1..calls \subseteq 1..calls' /\ 1..Len(sent) \subseteq 1..Len(sent')
      /\ 0..Len(sent) \subseteq 0..Len(sent')
  BY <1>0
<1>2. stack # <<>> => FrameFits(Top, calls, Len(sent))
  BY TailElements DEF Top, Frames, StackFits
<1> DEFINE same == UNCHANGED <<messageHandlers, readbuf, succeeded, accepted, handled, subscribed, acked>>
<1>3. CASE same
  BY <1>1, <1>3 DEF Results
<1>4. CASE AnswerRead
  <2>0. /\ stack # <<>> /\ Reading
        /\ UNCHANGED <<readbuf, handled, calls, accepted, subscribed, acked, sent>>
    BY <1>4 DEF AnswerRead, Reading, Idle, brokerVars
  <2>1. messageHandlers' \in Seq(Topics) /\ Len(messageHandlers') <= MAX_MESSAGE_HANDLERS
    <3>1. CASE messageHandlers' = messageHandlers
      BY <3>1 DEF Results
    <3>2. CASE Top.op = "subscribe" /\ SubackRead(Head(toClient))
      <4>1. Top.arg \in Topics
        BY <1>2, <2>0, <3>2 DEF FrameFits
      <4>2. Len(messageHandlers) \in Nat
        BY DEF Results
      <4>3. CASE Len(messageHandlers) < MAX_MESSAGE_HANDLERS
                 /\ messageHandlers' = Append(messageHandlers, Top.arg)
        <5>1. messageHandlers' \in Seq(Topics) /\ Len(messageHandlers') = Len(messageHandlers) + 1
          BY <4>1, <4>3, AppendElements DEF Results
        <5>2. QED
          BY <4>2, <4>3, <5>1, BoundsAssumption
      <4>4. QED
        BY <3>1, <3>2, <4>3 DEF SubackRead
    <3>3. QED
      BY <1>4, <3>1, <3>2 DEF AnswerRead, ConnackRead, PubackRead
  <2>2. succeeded' \subseteq 1..calls
    <3>1. CASE succeeded' = succeeded
      BY <3>1 DEF Results
    <3>2. CASE Top.op = "publish" /\ PubackRead(Head(toClient))
      <4>1. Top.arg \in 1..calls
        BY <1>2, <2>0, <3>2 DEF FrameFits
      <4>2. QED
        BY <3>2, <4>1 DEF PubackRead, Results
    <3>3. QED
      BY <1>4, <3>1, <3>2 DEF AnswerRead, ConnackRead, SubackRead
  <2>3. QED
    BY <2>0, <2>1, <2>2 DEF Results
<1>5. CASE MessageRead
  <2>1. Head(toClient).id \in 1..Len(sent)
    BY <1>5, TailElements DEF MessageRead, Queues, AnswersOf
  <2>2. /\ readbuf' = Head(toClient).id
        /\ UNCHANGED <<messageHandlers, succeeded, handled, calls, brokerVars>>
    BY <1>5 DEF MessageRead
  <2>3. readbuf' \in 0..Len(sent)
    BY <1>0, <2>1, <2>2
  <2>4. QED
    BY <2>2, <2>3 DEF Results, brokerVars
<1>6. CASE CallHandler
  <2>1. stack # <<>> /\ Top.op = "deliver"
        /\ UNCHANGED <<messageHandlers, readbuf, succeeded, calls, brokerVars>>
    BY <1>6 DEF CallHandler, Idle
  <2>2. PICK s \in DOMAIN messageHandlers : handled' = handled \cup {<<Top.arg, messageHandlers[s]>>}
    BY <1>6 DEF CallHandler, MatchingSlots
  <2>3. Top.arg \in 1..Len(sent)
    BY <1>2, <2>1 DEF FrameFits, Delivering
  <2>4. messageHandlers[s] \in Topics
    BY <2>2 DEF Results
  <2>5. Top.arg \in 1..MaxMessages
    BY <1>0, <2>3, BoundsAssumption
  <2>6. handled' \subseteq (1..MaxMessages) \X Topics
    BY <2>2, <2>4, <2>5 DEF Results
  <2>7. QED
    BY <2>1, <2>6 DEF Results, brokerVars
<1>7. CASE TimerExpires \/ BrokerConnect \/ BrokerDisconnect \/ BrokerPing \/ LinkBreaks
  BY <1>3, <1>7 DEF TimerExpires, TimeoutResult, BrokerConnect, BrokerDisconnect, BrokerPing,
                    LinkBreaks, clientVars, brokerVars
<1>8. CASE BrokerSubscribe
  <2>1. /\ UNCHANGED <<messageHandlers, readbuf, succeeded, handled, calls, sent, accepted, acked>>
        /\ subscribed' = subscribed \/ subscribed' = subscribed \cup {Head(toBroker).about}
        /\ toBroker # <<>> /\ Head(toBroker).type = "SUBSCRIBE"
    BY <1>8 DEF BrokerSubscribe, Received, clientVars
  <2>2. Head(toBroker).about \in Topics
    BY <2>1, TailElements DEF Queues, RequestsOf
  <2>3. QED
    BY <2>1, <2>2 DEF Results
<1>9. CASE BrokerPublish
  <2>1. /\ UNCHANGED <<messageHandlers, readbuf, succeeded, handled, calls, sent, subscribed, acked>>
        /\ accepted' = accepted \cup {Head(toBroker).about}
        /\ toBroker # <<>> /\ Head(toBroker).type = "PUBLISH"
    BY <1>9 DEF BrokerPublish, Received, clientVars
  <2>2. Head(toBroker).about \in 1..calls
    BY <2>1, TailElements DEF Queues, RequestsOf
  <2>3. QED
    BY <2>1, <2>2 DEF Results
<1>10. CASE BrokerPuback
  <2>1. /\ UNCHANGED <<messageHandlers, readbuf, succeeded, handled, calls, sent, subscribed, accepted>>
        /\ acked' = acked \cup {Head(toBroker).id}
        /\ toBroker # <<>> /\ Head(toBroker).type = "PUBACK"
    BY <1>10 DEF BrokerPuback, Received, clientVars
  <2>2. Head(toBroker).id \in 1..Len(sent)
    BY <2>1, TailElements DEF Queues, RequestsOf
  <2>3. QED
    BY <2>1, <2>2 DEF Results
<1>11. ASSUME NEW t \in Topics, NEW qos \in {0, 1}, BrokerSends(t, qos) PROVE Results'
  BY <1>3, <1>11 DEF BrokerSends, clientVars
<1>12. CASE App \/ NothingRead \/ HandlerReturns \/ DeliverDone \/ UNCHANGED vars
  BY <1>3, <1>12 DEF App, MQTTConnect, MQTTSubscribe, MQTTPublish, MQTTYield, MQTTDisconnect,
                     NothingRead, HandlerReturns, DeliverDone, vars, clientVars, brokerVars
<1>13. QED
  BY <1>4, <1>5, <1>6, <1>7, <1>8, <1>9, <1>10, <1>11, <1>12 DEF Next, Running, Broker

LEMMA ShapeFirst == Init => Shape
<1> SUFFICES ASSUME Init PROVE Shape
  OBVIOUS
<1> USE BoundsAssumption DEF Init
<1>1. Flags
  BY Zenon DEF Flags
<1>2. Counts /\ Log /\ Queues /\ Results
  BY DEF Counts, Log, Queues, Results, PacketIds
<1>3. Frames
  BY DEF Frames, StackFits
<1>4. QED
  BY <1>1, <1>2, <1>3 DEF Shape

LEMMA ShapeStays == Shape /\ [Next]_vars => Shape'
  BY FlagsStay, CountsStay, LogGrows, QueuesStay, FramesStay, ResultsStay DEF Shape

LEMMA ShapeAlways == Spec => []Shape
  BY ShapeFirst, ShapeStays, PTL DEF Spec

\* The variables keep their shape: packet ids are never 0, slots and counters stay within
\* their bounds, and calls, topics and messages referred to exist.
THEOREM TypeCorrect == Spec => []TypeOK
<1>1. Shape => TypeOK
  <2> SUFFICES ASSUME Shape PROVE TypeOK
    OBVIOUS
  <2>1. Len(sent) \in 0..MaxMessages /\ 0..Len(sent) \subseteq 0..MaxMessages /\ 1..Len(sent) \subseteq Nat
    BY BoundsAssumption DEF Shape, Log
  <2>2. stack \in Seq([op : Ops, id : Nat, arg : Nat, slot : 0..MAX_MESSAGE_HANDLERS])
    BY DEF Shape, Frames, StackFits, FrameType
  <2>3. /\ toBroker \in Seq([type : Requests, id : Nat, about : Nat])
        /\ toClient \in Seq([type : Answers, id : Nat, about : Nat])
    <3>1. /\ RequestsOf(calls, sent) \subseteq [type : Requests, id : Nat, about : Nat]
          /\ AnswersOf(sent) \subseteq [type : Answers, id : Nat, about : Nat]
      BY DEF RequestsOf, AnswersOf
    <3>2. ASSUME NEW S, NEW T, S \subseteq T PROVE Seq(S) \subseteq Seq(T)
      BY <3>2
    <3>3. QED
      BY <3>1, <3>2 DEF Shape, Queues
  <2>4. sent \in Seq([topic : Topics, qos : {0, 1}, early : BOOLEAN])
    BY DEF Shape, Log, MessageType
  <2>5. QED
    BY <2>1, <2>2, <2>3, <2>4 DEF TypeOK, Shape, Flags, Counts, Results
<1>2. QED
  BY <1>1, ShapeAlways, PTL

-----------------------------------------------------------------------------
(* Acknowledgements.  A message is in one place only: on its way to the client, being *)
(* delivered, acknowledged on the way back, or acknowledged. *)

Arriving == Ids(toClient, "PUBLISH")
Leaving == Ids(toBroker, "PUBACK")

OncePerPlace ==
    Unique(toClient, "PUBLISH") /\ UniqueFrames(stack) /\ Unique(toBroker, "PUBACK")
OnePlace ==
    /\ Arriving \cap Messages(stack) = {} /\ Arriving \cap Leaving = {} /\ Arriving \cap acked = {}
    /\ Messages(stack) \cap Leaving = {} /\ Messages(stack) \cap acked = {}
    /\ Leaving \cap acked = {}
Ledger == OncePerPlace /\ OnePlace

\* What goes to the broker without being a PUBACK changes no place; nor what it drops.
LEMMA SentPlaces ==
    ASSUME Queues, NEW packet \in [type : Requests, id : Nat, about : Nat], packet.type # "PUBACK",
           Unique(toBroker, "PUBACK"),
           toBroker' \in {toBroker, Append(toBroker, packet), <<>>}
    PROVE  Leaving' \subseteq Leaving /\ Unique(toBroker, "PUBACK")'
<1> DEFINE S == [type : Requests, id : Nat, about : Nat]
<1>1. toBroker \in Seq(S)
  <2>1. RequestsOf(calls, sent) \subseteq S
    BY DEF RequestsOf
  <2>2. ASSUME NEW T, NEW U, T \subseteq U PROVE Seq(T) \subseteq Seq(U)
    BY <2>2
  <2>3. QED
    BY <2>1, <2>2 DEF Queues
<1> HIDE DEF S
<1>2. CASE toBroker' = Append(toBroker, packet)
  <2>1. packet \in S
    BY DEF S
  <2>2. Ids(Append(toBroker, packet), "PUBACK") = Ids(toBroker, "PUBACK")
    BY <1>1, <2>1, AppendIds
  <2>3. Unique(Append(toBroker, packet), "PUBACK")
    BY <1>1, <2>1, AppendUnique
  <2>4. QED
    BY <1>2, <2>2, <2>3 DEF Leaving
<1>3. CASE toBroker' = toBroker
  BY <1>3 DEF Leaving
<1>4. CASE toBroker' = <<>>
  BY <1>4, EmptyIds DEF Leaving
<1>5. QED
  BY <1>2, <1>3, <1>4

LEMMA ReceivedPlaces ==
    ASSUME Queues, Received, Unique(toBroker, "PUBACK")
    PROVE  Leaving' \subseteq Leaving /\ Unique(toBroker, "PUBACK")'
<1>1. toBroker' = Tail(toBroker) /\ toBroker # <<>>
  BY DEF Received
<1>2. QED
  BY <1>1, TailIds DEF Queues, Leaving

\* Nor does an answer that is no PUBLISH, or a packet read.
LEMMA AnsweredPlaces ==
    ASSUME Queues, NEW packet \in [type : Answers, id : Nat, about : Nat], packet.type # "PUBLISH",
           Unique(toClient, "PUBLISH"),
           toClient' \in {toClient, Append(toClient, packet), <<>>}
    PROVE  Arriving' \subseteq Arriving /\ Unique(toClient, "PUBLISH")'
<1> DEFINE S == [type : Answers, id : Nat, about : Nat]
<1>1. toClient \in Seq(S)
  <2>1. AnswersOf(sent) \subseteq S
    BY DEF AnswersOf
  <2>2. ASSUME NEW T, NEW U, T \subseteq U PROVE Seq(T) \subseteq Seq(U)
    BY <2>2
  <2>3. QED
    BY <2>1, <2>2 DEF Queues
<1> HIDE DEF S
<1>2. CASE toClient' = Append(toClient, packet)
  <2>1. packet \in S
    BY DEF S
  <2>2. Ids(Append(toClient, packet), "PUBLISH") = Ids(toClient, "PUBLISH")
    BY <1>1, <2>1, AppendIds
  <2>3. Unique(Append(toClient, packet), "PUBLISH")
    BY <1>1, <2>1, AppendUnique
  <2>4. QED
    BY <1>2, <2>2, <2>3 DEF Arriving
<1>3. CASE toClient' = toClient
  BY <1>3 DEF Arriving
<1>4. CASE toClient' = <<>>
  BY <1>4, EmptyIds DEF Arriving
<1>5. QED
  BY <1>2, <1>3, <1>4

LEMMA ReadPlaces ==
    ASSUME Queues, toClient # <<>>, toClient' = Tail(toClient), Unique(toClient, "PUBLISH")
    PROVE  Arriving' \subseteq Arriving /\ Unique(toClient, "PUBLISH")'
  BY TailIds DEF Queues, Arriving

\* A step in which places only become emptier.
LEMMA PlacesShrink ==
    ASSUME Ledger, DeliveriesEnd(stack, stack'), acked' = acked,
           Arriving' \subseteq Arriving, Unique(toClient, "PUBLISH")',
           Leaving' \subseteq Leaving, Unique(toBroker, "PUBACK")'
    PROVE  Ledger'
<1>1. Messages(stack') \subseteq Messages(stack) /\ UniqueFrames(stack')
  BY DEF DeliveriesEnd, Ledger, OncePerPlace
<1>2. Messages(stack)' = Messages(stack') /\ UniqueFrames(stack)' = UniqueFrames(stack')
  BY DEF Messages, UniqueFrames
<1>3. OncePerPlace'
  BY <1>1, <1>2 DEF OncePerPlace
<1>4. OnePlace'
  BY <1>1, <1>2 DEF Ledger, OnePlace
<1>5. QED
  BY <1>3, <1>4 DEF Ledger

\* A message arrives, is read, is acknowledged: each moves one message on.
LEMMA MessageArrives ==
    ASSUME Shape, Ledger, NEW t \in Topics, NEW qos \in {0, 1}, BrokerSends(t, qos)
    PROVE  Ledger'
<1> DEFINE m == Len(sent) + 1
           p == Packet("PUBLISH", m, 0)
<1>1. /\ Len(sent') = m /\ Len(sent) \in Nat
      /\ toClient' = toClient \/ toClient' = Append(toClient, p)
  BY OneMoreMessage DEF Shape, Log, BrokerSends, Answer
<1>2. stack' = stack /\ toBroker' = toBroker /\ acked' = acked
  BY DEF BrokerSends, clientVars
<1>3. DeliveriesEnd(stack, stack') /\ Leaving' = Leaving /\ Unique(toBroker, "PUBACK")'
  BY <1>2 DEF DeliveriesEnd, Leaving, Ledger, OncePerPlace
<1>4. CASE toClient' = toClient
  <2>1. Arriving' = Arriving /\ Unique(toClient, "PUBLISH")'
    BY <1>4 DEF Arriving, Ledger, OncePerPlace
  <2>2. QED
    BY <1>2, <1>3, <2>1, PlacesShrink
<1>5. CASE toClient' = Append(toClient, p)
  <2> DEFINE S == [type : Answers, id : Nat, about : Nat]
  <2>1. toClient \in Seq(S) /\ p \in S /\ p.type = "PUBLISH" /\ p.id = m
    <3>1. AnswersOf(sent) \subseteq S
      BY DEF AnswersOf
    <3>2. ASSUME NEW T, NEW U, T \subseteq U PROVE Seq(T) \subseteq Seq(U)
      BY <3>2
    <3>3. toClient \in Seq(S)
      BY <3>1, <3>2 DEF Shape, Queues
    <3>4. p \in S /\ p.type = "PUBLISH" /\ p.id = m
      BY <1>1 DEF Packet, Answers
    <3>5. QED
      BY <3>3, <3>4
  <2>2. m \notin Arriving /\ m \notin Messages(stack) /\ m \notin Leaving /\ m \notin acked
    <3>1. ASSUME NEW k \in 1..Len(toClient), toClient[k].type = "PUBLISH"
          PROVE  toClient[k].id # m
      <4>1. toClient[k] \in AnswersOf(sent)
        BY DEF Shape, Queues
      <4>2. QED
        BY <1>1, <3>1, <4>1 DEF AnswersOf
    <3>2. ASSUME NEW k \in 1..Len(stack), stack[k].op \in Delivering
          PROVE  stack[k].id # m
      BY <1>1, <3>2 DEF Shape, Frames, StackFits, FrameFits
    <3>3. ASSUME NEW k \in 1..Len(toBroker), toBroker[k].type = "PUBACK"
          PROVE  toBroker[k].id # m
      <4>1. toBroker[k] \in RequestsOf(calls, sent)
        BY DEF Shape, Queues
      <4>2. QED
        BY <1>1, <3>3, <4>1 DEF RequestsOf
    <3>4. m \notin acked
      BY <1>1 DEF Shape, Results
    <3>5. QED
      BY <3>1, <3>2, <3>3, <3>4 DEF Arriving, Ids, Messages, Leaving
  <2> HIDE DEF m, p, S
  <2>3. Arriving' = Arriving \cup {m}
    BY <1>5, <2>1, AppendIds DEF Arriving
  <2>4. Unique(toClient', "PUBLISH")
    BY <1>5, <2>1, <2>2, AppendUnique DEF Arriving, Ledger, OncePerPlace
  <2>5. /\ Messages(stack)' = Messages(stack) /\ UniqueFrames(stack)' = UniqueFrames(stack)
        /\ Unique(toClient, "PUBLISH")' = Unique(toClient', "PUBLISH")
    BY <1>2 DEF Messages, UniqueFrames, Unique
  <2>6. OncePerPlace'
    BY <1>3, <2>4, <2>5 DEF Ledger, OncePerPlace
  <2>7. OnePlace'
    BY <1>2, <1>3, <2>2, <2>3, <2>5 DEF Ledger, OnePlace
  <2>8. QED
    BY <2>6, <2>7 DEF Ledger
<1>6. QED
  BY <1>1, <1>4, <1>5

LEMMA MessageIsRead ==
    ASSUME Shape, Ledger, MessageRead
    PROVE  Ledger'
<1> DEFINE m == Head(toClient).id
           f == Frame("deliver", m, m)
<1>1. /\ toClient # <<>> /\ toClient' = Tail(toClient) /\ Head(toClient).type = "PUBLISH"
      /\ stack' = <<f>> \o stack /\ stack # <<>> /\ toBroker' = toBroker /\ acked' = acked
  BY DEF MessageRead, Reading, Idle, brokerVars
<1>2. m \in Nat /\ m \in 1..Len(sent)
  BY <1>1, TailElements DEF Shape, Queues, AnswersOf
<1>3. Arriving' \subseteq Arriving \ {m} /\ Unique(toClient', "PUBLISH") /\ m \in Arriving
  BY <1>1, TailIds DEF Shape, Queues, Arriving, Ledger, OncePerPlace
<1>4. calls \in Nat /\ Len(sent) \in Nat
  BY BoundsAssumption DEF Shape, Counts, Log
<1> HIDE DEF m
<1>5. f \in FrameType /\ FrameFits(f, calls, Len(sent)) /\ f.op = "deliver" /\ f.id = m
  BY <1>2, <1>4, NewFrames DEF Ops
<1> HIDE DEF f
<1>6. m \notin Messages(stack)
  BY <1>3 DEF Ledger, OnePlace
<1>7. Messages(stack') = Messages(stack) \cup {m} /\ UniqueFrames(stack')
  BY <1>1, <1>4, <1>5, <1>6, Push DEF Shape, Frames, Ledger, OncePerPlace, Delivering
<1>8. /\ Messages(stack)' = Messages(stack') /\ UniqueFrames(stack)' = UniqueFrames(stack')
      /\ Unique(toClient, "PUBLISH")' = Unique(toClient', "PUBLISH")
      /\ Leaving' = Leaving /\ Unique(toBroker, "PUBACK")' = Unique(toBroker, "PUBACK")
  BY <1>1 DEF Messages, UniqueFrames, Unique, Leaving, Ids
<1>9. OncePerPlace'
  BY <1>3, <1>7, <1>8 DEF Ledger, OncePerPlace
<1>10. OnePlace'
  BY <1>1, <1>3, <1>6, <1>7, <1>8 DEF Ledger, OnePlace
<1>11. QED
  BY <1>9, <1>10 DEF Ledger

LEMMA MessageIsAcked ==
    ASSUME Shape, Ledger, BrokerPuback
    PROVE  Ledger'
<1> DEFINE m == Head(toBroker).id
<1>1. /\ toBroker # <<>> /\ toBroker' = Tail(toBroker) /\ Head(toBroker).type = "PUBACK"
      /\ stack' = stack /\ toClient' = toClient /\ acked' = acked \cup {m}
  BY DEF BrokerPuback, Received, clientVars
<1>2. Leaving' \subseteq Leaving \ {m} /\ Unique(toBroker', "PUBACK") /\ m \in Leaving
  BY <1>1, TailIds DEF Shape, Queues, Leaving, Ledger, OncePerPlace
<1> HIDE DEF m
<1>3. /\ Messages(stack)' = Messages(stack) /\ UniqueFrames(stack)' = UniqueFrames(stack)
      /\ Unique(toBroker, "PUBACK")' = Unique(toBroker', "PUBACK")
      /\ Arriving' = Arriving /\ Unique(toClient, "PUBLISH")' = Unique(toClient, "PUBLISH")
  BY <1>1 DEF Messages, UniqueFrames, Unique, Arriving, Ids
<1>4. OncePerPlace'
  BY <1>2, <1>3 DEF Ledger, OncePerPlace
<1>5. OnePlace'
  BY <1>1, <1>2, <1>3 DEF Ledger, OnePlace
<1>6. QED
  BY <1>4, <1>5 DEF Ledger

LEMMA DeliveryEnds ==
    ASSUME Shape, Ledger, DeliverDone
    PROVE  Ledger'
<1> DEFINE m == Top.id
           p == Packet("PUBACK", m, 0)
<1>1. /\ stack # <<>> /\ Top = Head(stack) /\ Head(stack).op \in Delivering
      /\ stack' = Tail(stack) \/ stack' = Tail(Tail(stack))
      /\ toClient' = toClient /\ acked' = acked
  BY DEF DeliverDone, Idle, Top, Delivering, brokerVars
<1>2. calls \in Nat /\ Len(sent) \in Nat /\ StackFits(stack, calls, Len(sent))
  BY BoundsAssumption DEF Shape, Counts, Log, Frames
<1>3. /\ StackFits(Tail(stack), calls, Len(sent)) /\ Messages(Tail(stack)) \subseteq Messages(stack)
      /\ UniqueFrames(Tail(stack)) /\ Tail(stack) # <<>>
      /\ m \in Messages(stack) /\ m \notin Messages(Tail(stack))
  BY <1>1, <1>2, Pop DEF Ledger, OncePerPlace
<1>4. Messages(Tail(Tail(stack))) \subseteq Messages(Tail(stack)) /\ UniqueFrames(Tail(Tail(stack)))
  BY <1>2, <1>3, Pop
<1> HIDE DEF m
<1>5. Messages(stack') \subseteq Messages(stack) \ {m} /\ UniqueFrames(stack')
  BY <1>1, <1>3, <1>4
<1>6. /\ Messages(stack)' = Messages(stack') /\ UniqueFrames(stack)' = UniqueFrames(stack')
      /\ Unique(toBroker, "PUBACK")' = Unique(toBroker', "PUBACK")
      /\ Arriving' = Arriving /\ Unique(toClient, "PUBLISH")' = Unique(toClient, "PUBLISH")
  BY <1>1 DEF Messages, UniqueFrames, Unique, Arriving, Ids
<1>7. CASE toBroker' = Append(toBroker, p)
  <2>1. p \in RequestsOf(calls, sent)
    <3>1. Top.arg \in 1..Len(sent) /\ m = Top.arg
      BY <1>1, <1>2, TailElements DEF StackFits, FrameFits, Delivering, m
    <3>2. sent[Top.arg] \in MessageType
      BY <3>1 DEF Shape, Log
    <3>3. CASE sent[Top.arg].qos # 0
      <4>1. sent[Top.arg].qos = 1
        BY <3>2, <3>3 DEF MessageType
      <4>2. QED
        BY <3>1, <4>1, <1>2 DEF Packet, RequestsOf, Requests
    <3>4. CASE sent[Top.arg].qos = 0
      <4>1. toBroker' = toBroker \/ toBroker' = Append(toBroker, Packet("PINGREQ", 0, 0))
        BY <3>4 DEF DeliverDone, keepalive
      <4>2. Append(toBroker, p)[Len(toBroker) + 1] = p /\ Len(Append(toBroker, p)) = Len(toBroker) + 1
            /\ Append(toBroker, Packet("PINGREQ", 0, 0))[Len(toBroker) + 1] = Packet("PINGREQ", 0, 0)
            /\ Len(toBroker) \in Nat
        BY DEF Shape, Queues
      <4>3. p # Packet("PINGREQ", 0, 0)
        BY DEF Packet
      <4>4. QED
        BY <1>7, <4>1, <4>2, <4>3
    <3>5. QED
      BY <3>3, <3>4
  <2>2. p.type = "PUBACK" /\ p.id = m
    BY DEF Packet
  <2>3. toBroker \in Seq(RequestsOf(calls, sent)) /\ m \notin Leaving
    BY <1>3 DEF Shape, Queues, Ledger, OnePlace
  <2> HIDE DEF p
  <2>4. Leaving' = Leaving \cup {m}
    BY <1>7, <2>1, <2>2, <2>3, AppendIds DEF Leaving
  <2>5. Unique(toBroker', "PUBACK")
    BY <1>7, <2>1, <2>2, <2>3, AppendUnique DEF Leaving, Ledger, OncePerPlace
  <2>6. OncePerPlace'
    BY <1>5, <1>6, <2>5 DEF Ledger, OncePerPlace
  <2>7. OnePlace'
    BY <1>1, <1>3, <1>5, <1>6, <2>4 DEF Ledger, OnePlace
  <2>8. QED
    BY <2>6, <2>7 DEF Ledger
<1>8. CASE toBroker' \in {toBroker, Append(toBroker, Packet("PINGREQ", 0, 0))}
  <2>1. Packet("PINGREQ", 0, 0) \in [type : Requests, id : Nat, about : Nat]
        /\ Packet("PINGREQ", 0, 0).type # "PUBACK"
    BY DEF Packet, Requests
  <2>2. Leaving' \subseteq Leaving /\ Unique(toBroker, "PUBACK")'
    BY <1>8, <2>1, SentPlaces DEF Shape, Ledger, OncePerPlace
  <2>3. DeliveriesEnd(stack, stack') /\ Arriving' \subseteq Arriving /\ Unique(toClient, "PUBLISH")'
    BY <1>5, <1>6 DEF DeliveriesEnd, Ledger, OncePerPlace
  <2>4. QED
    BY <1>1, <2>2, <2>3, PlacesShrink
<1>9. toBroker' \in {toBroker, Append(toBroker, Packet("PINGREQ", 0, 0)), Append(toBroker, p)}
  BY DEF DeliverDone, keepalive, sendPacket, AckId, m
<1>10. QED
  BY <1>7, <1>8, <1>9

\* No other step moves a message.
LEMMA LedgerStays ==
    ASSUME Shape, Ledger, [Next]_vars
    PROVE  Ledger'
<1>0. Unique(toClient, "PUBLISH") /\ Unique(toBroker, "PUBACK") /\ Queues
  BY DEF Ledger, OncePerPlace, Shape
<1>1. CASE MessageRead \/ DeliverDone \/ BrokerPuback
  BY <1>1, MessageIsRead, DeliveryEnds, MessageIsAcked
<1>2. ASSUME NEW t \in Topics, NEW qos \in {0, 1}, BrokerSends(t, qos) PROVE Ledger'
  BY <1>2, MessageArrives
<1>3. SUFFICES ASSUME ~MessageRead, ~DeliverDone, ~BrokerPuback,
                      ~\E t \in Topics, qos \in {0, 1} : BrokerSends(t, qos)
               PROVE  /\ Leaving' \subseteq Leaving /\ Unique(toBroker, "PUBACK")'
                      /\ Arriving' \subseteq Arriving /\ Unique(toClient, "PUBLISH")'
  <2>1. DeliveriesEnd(stack, stack') \/ MessageRead
    BY FramesStay DEF Shape
  <2>2. BrokerPuback \/ acked' = acked
    BY DEF Next, vars, brokerVars, App, MQTTConnect, MQTTSubscribe, MQTTPublish, MQTTYield,
           MQTTDisconnect, NothingRead, Running, AnswerRead, MessageRead, CallHandler,
           HandlerReturns, DeliverDone, TimerExpires, Broker, BrokerConnect, BrokerSubscribe,
           BrokerPublish, BrokerPing, BrokerDisconnect, LinkBreaks, BrokerSends
  <2>3. QED
    BY <1>1, <1>2, <2>1, <2>2, PlacesShrink
<1> DEFINE Req == [type : Requests, id : Nat, about : Nat]
           Ans == [type : Answers, id : Nat, about : Nat]
           NotToBroker == /\ Leaving' \subseteq Leaving /\ Unique(toBroker, "PUBACK")'
           NotToClient == /\ Arriving' \subseteq Arriving /\ Unique(toClient, "PUBLISH")'
<1>4. toBroker' = toBroker \/ toBroker' = <<>> => NotToBroker
  <2>1. Packet("PINGREQ", 0, 0) \in Req /\ Packet("PINGREQ", 0, 0).type # "PUBACK"
    BY DEF Packet, Requests
  <2>2. QED
    BY <1>0, <2>1, SentPlaces
<1>5. toClient' = toClient \/ toClient' = <<>> => NotToClient
  <2>1. Packet("PINGRESP", 0, 0) \in Ans /\ Packet("PINGRESP", 0, 0).type # "PUBLISH"
    BY DEF Packet, Answers
  <2>2. QED
    BY <1>0, <2>1, AnsweredPlaces
<1>6. Received => NotToBroker
  BY <1>0, ReceivedPlaces
<1>7. toClient # <<>> /\ toClient' = Tail(toClient) => NotToClient
  BY <1>0, ReadPlaces
<1>8. ASSUME NEW p \in Req, p.type # "PUBACK", NEW ok \in BOOLEAN, sendPacket(p, ok)
      PROVE  NotToBroker
  BY <1>0, <1>8, SentPlaces DEF sendPacket
<1>9. ASSUME NEW x, keepalive(toBroker, x)
      PROVE  NotToBroker
  <2>1. Packet("PINGREQ", 0, 0) \in Req /\ Packet("PINGREQ", 0, 0).type # "PUBACK"
    BY DEF Packet, Requests
  <2>2. toBroker' \in {toBroker, Append(toBroker, Packet("PINGREQ", 0, 0))}
    BY <1>9 DEF keepalive
  <2>3. QED
    BY <1>0, <2>1, <2>2, SentPlaces
<1>10. ASSUME NEW p \in Ans, p.type # "PUBLISH", Answer(p)
       PROVE  NotToClient
  BY <1>0, <1>10, AnsweredPlaces DEF Answer
<1>11. /\ next_packetid' \in Nat /\ calls' \in Nat
       /\ toBroker # <<>> => Head(toBroker).id \in Nat
  BY <1>0, CountsStay, TailElements, BoundsAssumption DEF Shape, Counts, PacketIds, Queues, RequestsOf
<1> HIDE DEF NotToBroker, NotToClient
<1>12. NotToBroker
  <2>1. CASE MQTTConnect
    <3>1. Packet("CONNECT", 0, 0) \in Req /\ Packet("CONNECT", 0, 0).type # "PUBACK"
      BY DEF Packet, Requests
    <3>2. QED
      BY <2>1, <3>1, <1>8 DEF MQTTConnect
  <2>2. ASSUME NEW t \in Topics, MQTTSubscribe(t) PROVE NotToBroker
    <3>1. Packet("SUBSCRIBE", next_packetid', t) \in Req
          /\ Packet("SUBSCRIBE", next_packetid', t).type # "PUBACK"
      BY <1>11, BoundsAssumption DEF Packet, Requests, Topics
    <3>2. QED
      BY <2>2, <3>1, <1>8 DEF MQTTSubscribe
  <2>3. CASE MQTTPublish
    <3>1. Packet("PUBLISH", next_packetid', calls') \in Req
          /\ Packet("PUBLISH", next_packetid', calls').type # "PUBACK"
      BY <1>11 DEF Packet, Requests
    <3>2. QED
      BY <2>3, <3>1, <1>8 DEF MQTTPublish
  <2>4. CASE MQTTDisconnect
    <3>1. Packet("DISCONNECT", 0, 0) \in Req /\ Packet("DISCONNECT", 0, 0).type # "PUBACK"
      BY DEF Packet, Requests
    <3>2. QED
      BY <2>4, <3>1, <1>8 DEF MQTTDisconnect
  <2>5. CASE NothingRead \/ AnswerRead
    BY <2>5, <1>9 DEF NothingRead, AnswerRead
  <2>6. CASE MQTTYield \/ CallHandler \/ HandlerReturns \/ TimerExpires \/ LinkBreaks \/ UNCHANGED vars
    BY <2>6, <1>4 DEF MQTTYield, CallHandler, HandlerReturns, TimerExpires, LinkBreaks, vars, netVars
  <2>7. CASE BrokerConnect \/ BrokerSubscribe \/ BrokerPublish \/ BrokerPing \/ BrokerDisconnect
    BY <2>7, <1>6 DEF BrokerConnect, BrokerSubscribe, BrokerPublish, BrokerPing, BrokerDisconnect
  <2>8. QED
    BY <1>3, <2>1, <2>2, <2>3, <2>4, <2>5, <2>6, <2>7 DEF Next, App, Running, Broker
<1>13. NotToClient
  <2>1. CASE App \/ NothingRead \/ CallHandler \/ HandlerReturns \/ TimerExpires \/ UNCHANGED vars
    BY <2>1, <1>5 DEF App, MQTTConnect, MQTTSubscribe, MQTTPublish, MQTTYield, MQTTDisconnect,
                      NothingRead, CallHandler, HandlerReturns, TimerExpires, vars, netVars
  <2>2. CASE AnswerRead
    BY <2>2, <1>7 DEF AnswerRead
  <2>3. CASE BrokerConnect
    <3>1. \A r \in {0, 1} : Packet("CONNACK", 0, r) \in Ans /\ Packet("CONNACK", 0, r).type # "PUBLISH"
      BY DEF Packet, Answers
    <3>2. QED
      BY <2>3, <3>1, <1>5, <1>10 DEF BrokerConnect
  <2>4. CASE BrokerSubscribe
    <3>1. toBroker # <<>>
      BY <2>4 DEF BrokerSubscribe, Received
    <3>2. \A r \in {0, 1} : /\ Packet("SUBACK", Head(toBroker).id, r) \in Ans
                            /\ Packet("SUBACK", Head(toBroker).id, r).type # "PUBLISH"
      BY <3>1, <1>11 DEF Packet, Answers
    <3>3. QED
      BY <2>4, <3>2, <1>10 DEF BrokerSubscribe
  <2>5. CASE BrokerPublish
    <3>1. toBroker # <<>>
      BY <2>5 DEF BrokerPublish, Received
    <3>2. Packet("PUBACK", Head(toBroker).id, 0) \in Ans
          /\ Packet("PUBACK", Head(toBroker).id, 0).type # "PUBLISH"
      BY <3>1, <1>11 DEF Packet, Answers
    <3>3. QED
      BY <2>5, <3>2, <1>10 DEF BrokerPublish
  <2>6. CASE BrokerPing
    <3>1. Packet("PINGRESP", 0, 0) \in Ans /\ Packet("PINGRESP", 0, 0).type # "PUBLISH"
      BY DEF Packet, Answers
    <3>2. QED
      BY <2>6, <3>1, <1>10 DEF BrokerPing
  <2>7. CASE BrokerDisconnect \/ LinkBreaks
    BY <2>7, <1>5 DEF BrokerDisconnect, LinkBreaks
  <2>8. QED
    BY <1>3, <2>1, <2>2, <2>3, <2>4, <2>5, <2>6, <2>7 DEF Next, Running, Broker
<1>14. QED
  BY <1>12, <1>13 DEF NotToBroker, NotToClient

LEMMA LedgerFirst == Init => Ledger
<1> SUFFICES ASSUME Init PROVE Ledger
  OBVIOUS
<1>1. Arriving = {} /\ Leaving = {} /\ Unique(toClient, "PUBLISH") /\ Unique(toBroker, "PUBACK")
  BY EmptyIds DEF Init, Arriving, Leaving
<1>2. Messages(stack) = {} /\ UniqueFrames(stack)
  BY DEF Init, Messages, UniqueFrames
<1>3. QED
  BY <1>1, <1>2 DEF Init, Ledger, OncePerPlace, OnePlace

LEMMA LedgerAlways == Spec => []Ledger
<1>1. Shape /\ Ledger /\ [Next]_vars => Ledger'
  BY LedgerStays
<1>2. QED
  BY <1>1, LedgerFirst, ShapeAlways, PTL DEF Spec

\* Every PUBACK on its way is for one QoS 1 message the broker sent and that was not
\* acknowledged before, at whatever depth of nested calls it was written.
THEOREM AcksAreForMessages == Spec => []AcksAnswerMessages
<1>1. Shape /\ Ledger => AcksAnswerMessages
  <2> SUFFICES ASSUME Shape, Ledger, NEW k \in DOMAIN toBroker, toBroker[k].type = "PUBACK"
               PROVE  /\ toBroker[k].id \in DOMAIN sent \ acked
                      /\ sent[toBroker[k].id].qos = 1
                      /\ \A j \in DOMAIN toBroker :
                            toBroker[j].type = "PUBACK" /\ toBroker[j].id = toBroker[k].id => j = k
    BY DEF AcksAnswerMessages
  <2>1. k \in 1..Len(toBroker) /\ DOMAIN toBroker = 1..Len(toBroker) /\ DOMAIN sent = 1..Len(sent)
        /\ toBroker[k] \in RequestsOf(calls, sent)
    BY DEF Shape, Queues, Log
  <2>2. toBroker[k].id \in 1..Len(sent) /\ sent[toBroker[k].id].qos = 1
    BY <2>1 DEF RequestsOf
  <2>3. toBroker[k].id \in Leaving
    BY <2>1 DEF Leaving, Ids
  <2>4. toBroker[k].id \notin acked
    BY <2>3 DEF Ledger, OnePlace
  <2>5. \A j \in 1..Len(toBroker) :
            toBroker[j].type = "PUBACK" /\ toBroker[j].id = toBroker[k].id => j = k
    BY <2>1 DEF Ledger, OncePerPlace, Unique
  <2>6. QED
    BY <2>1, <2>2, <2>4, <2>5
<1>2. QED
  BY <1>1, ShapeAlways, LedgerAlways, PTL

-----------------------------------------------------------------------------
(* Successes.  Each publish that succeeds uses up one PUBACK, and the broker sends one *)
(* for each publish it accepts. *)

Places(q, type) == {k \in 1..Len(q) : q[k].type = type}
Count(q, type) == Cardinality(Places(q, type))

LEMMA CountFinite ==
    ASSUME NEW S, NEW q \in Seq(S), NEW type
    PROVE  IsFiniteSet(Places(q, type)) /\ Count(q, type) \in Nat
<1>1. IsFiniteSet(1..Len(q))
  BY FS_Interval
<1>2. Places(q, type) \in SUBSET (1..Len(q))
  BY DEF Places
<1>3. QED
  BY <1>1, <1>2, FS_Subset, FS_CardinalityType DEF Count

LEMMA AppendCount ==
    ASSUME NEW S, NEW q \in Seq(S), NEW e \in S, NEW type
    PROVE  /\ Count(Append(q, e), type) <= Count(q, type) + 1
           /\ e.type # type => Count(Append(q, e), type) = Count(q, type)
<1> DEFINE a == Append(q, e)
<1>1. /\ Len(a) = Len(q) + 1 /\ a[Len(q) + 1] = e /\ Len(q) \in Nat
      /\ \A k \in 1..Len(q) : a[k] = q[k]
  BY AppendElements
<1> HIDE DEF a
<1>2. Places(a, type) \in SUBSET (Places(q, type) \cup {Len(q) + 1})
  BY <1>1 DEF Places
<1>3. e.type # type => Places(a, type) = Places(q, type)
  <2>1. Places(q, type) \subseteq Places(a, type)
    BY <1>1 DEF Places
  <2>2. e.type # type => Len(q) + 1 \notin Places(a, type)
    BY <1>1 DEF Places
  <2>3. QED
    BY <1>2, <2>1, <2>2
<1>4. IsFiniteSet(Places(q, type)) /\ Count(q, type) \in Nat
  BY CountFinite
<1> DEFINE T == Places(q, type) \cup {Len(q) + 1}
<1>5. IsFiniteSet(T) /\ Cardinality(T) <= Count(q, type) + 1 /\ Cardinality(T) \in Nat
  <2> DEFINE P == Places(q, type)
  <2>1. IsFiniteSet(P) /\ Cardinality(P) \in Nat /\ Cardinality(P) = Count(q, type)
    BY <1>4 DEF Count
  <2> HIDE DEF P
  <2>2. /\ IsFiniteSet(P \cup {Len(q) + 1})
        /\ Cardinality(P \cup {Len(q) + 1}) = Cardinality(P)
           \/ Cardinality(P \cup {Len(q) + 1}) = Cardinality(P) + 1
    BY <2>1, FS_AddElement
  <2>3. QED
    BY <2>1, <2>2 DEF P
<1> HIDE DEF T
<1>6. Cardinality(Places(a, type)) <= Cardinality(T) /\ Cardinality(Places(a, type)) \in Nat
  <2>1. Places(a, type) \in SUBSET T
    BY <1>2 DEF T
  <2>2. QED
    BY <1>5, <2>1, FS_Subset, FS_CardinalityType
<1>7. Count(a, type) <= Count(q, type) + 1
  BY <1>4, <1>5, <1>6 DEF Count
<1>8. QED
  BY <1>3, <1>7 DEF Count, a

LEMMA TailCount ==
    ASSUME NEW S, NEW q \in Seq(S), q # <<>>, NEW type
    PROVE  /\ Count(Tail(q), type) <= Count(q, type)
           /\ Head(q).type = type => Count(Tail(q), type) <= Count(q, type) - 1
<1> DEFINE t == Tail(q)
<1>1. /\ Len(t) = Len(q) - 1 /\ Len(q) \in Nat \ {0} /\ Head(q) = q[1] /\ t \in Seq(S)
      /\ \A k \in 1..Len(t) : t[k] = q[k + 1]
  BY TailElements
<1> HIDE DEF t
<1> DEFINE A == Places(t, type)
           B == Places(q, type) \ {1}
           f == [k \in A |-> k + 1]
<1>2. \A k \in A : k \in Nat /\ k + 1 \in B
  BY <1>1 DEF Places
<1>3. f \in Injection(A, B)
  <2>1. f \in [A -> B]
    BY <1>2
  <2>2. \A x, y \in A : f[x] = f[y] => x = y
    BY <1>2
  <2>3. QED
    BY <2>1, <2>2 DEF Injection, IsInjective
<1>4. IsFiniteSet(Places(q, type)) /\ Count(q, type) \in Nat /\ Count(q, type) = Cardinality(Places(q, type))
  BY CountFinite DEF Count
<1>5. IsFiniteSet(B) /\ Cardinality(B) = IF 1 \in Places(q, type) THEN Count(q, type) - 1 ELSE Count(q, type)
  BY <1>4, FS_RemoveElement
<1>6. Cardinality(A) <= Cardinality(B) /\ Cardinality(A) \in Nat
  <2> HIDE DEF A, B, f
  <2>1. IsFiniteSet(A) /\ Cardinality(A) <= Cardinality(B)
    BY <1>3, <1>5, FS_Injection
  <2>2. QED
    BY <2>1, FS_CardinalityType
<1>7. q[1].type = type => 1 \in Places(q, type)
  BY <1>1 DEF Places
<1> HIDE DEF B
<1>8. QED
  BY <1>1, <1>4, <1>5, <1>6, <1>7 DEF Count, t

\* The publishes in q are different calls, none of which the broker has accepted.
FreshCalls(q, acc) ==
    /\ \A j, k \in 1..Len(q) :
          q[j].type = "PUBLISH" /\ q[k].type = "PUBLISH" /\ q[j].about = q[k].about => j = k
    /\ \A k \in 1..Len(q) : q[k].type = "PUBLISH" => q[k].about \notin acc

LEMMA FreshAppend ==
    ASSUME NEW S, NEW q \in Seq(S), NEW e \in S, NEW acc, FreshCalls(q, acc),
           e.type = "PUBLISH" => /\ e.about \notin acc
                                 /\ \A k \in 1..Len(q) : q[k].type = "PUBLISH" => q[k].about # e.about
    PROVE  FreshCalls(Append(q, e), acc)
<1> DEFINE a == Append(q, e)
<1>1. /\ Len(a) = Len(q) + 1 /\ a[Len(q) + 1] = e /\ Len(q) \in Nat
      /\ \A k \in 1..Len(q) : a[k] = q[k]
  BY AppendElements
<1> HIDE DEF a
<1>2. \A k \in 1..Len(a) : k \in 1..Len(q) \/ k = Len(q) + 1
  BY <1>1
<1>3. ASSUME NEW j \in 1..Len(a), NEW k \in 1..Len(a),
             a[j].type = "PUBLISH", a[k].type = "PUBLISH", a[j].about = a[k].about
      PROVE  j = k
  <2>1. CASE j \in 1..Len(q) /\ k \in 1..Len(q)
    BY <1>1, <1>3, <2>1 DEF FreshCalls
  <2>2. CASE j \in 1..Len(q) /\ k = Len(q) + 1
    BY <1>1, <1>3, <2>2
  <2>3. CASE j = Len(q) + 1 /\ k \in 1..Len(q)
    BY <1>1, <1>3, <2>3
  <2>4. QED
    BY <1>2, <2>1, <2>2, <2>3
<1>4. ASSUME NEW k \in 1..Len(a), a[k].type = "PUBLISH"
      PROVE  a[k].about \notin acc
  BY <1>1, <1>2, <1>4 DEF FreshCalls
<1>5. FreshCalls(a, acc)
  BY <1>3, <1>4 DEF FreshCalls
<1>6. QED
  BY <1>5 DEF a

LEMMA FreshTail ==
    ASSUME NEW S, NEW q \in Seq(S), q # <<>>, NEW acc, FreshCalls(q, acc)
    PROVE  /\ FreshCalls(Tail(q), acc)
           /\ Head(q).type = "PUBLISH" => /\ Head(q).about \notin acc
                                          /\ FreshCalls(Tail(q), acc \cup {Head(q).about})
<1> DEFINE t == Tail(q)
<1>1. /\ Len(t) = Len(q) - 1 /\ Len(q) \in Nat \ {0} /\ Head(q) = q[1]
      /\ \A k \in 1..Len(t) : t[k] = q[k + 1]
  BY TailElements
<1> HIDE DEF t
<1>2. 1 \in 1..Len(q) /\ \A k \in 1..Len(t) : k + 1 \in 1..Len(q) /\ k + 1 # 1 /\ k \in Nat
  BY <1>1
<1>3. ASSUME NEW j \in 1..Len(t), NEW k \in 1..Len(t),
             t[j].type = "PUBLISH", t[k].type = "PUBLISH", t[j].about = t[k].about
      PROVE  j = k
  <2>1. j + 1 = k + 1
    BY <1>1, <1>2, <1>3 DEF FreshCalls
  <2>2. QED
    BY <1>2, <2>1
<1>4. ASSUME NEW k \in 1..Len(t), t[k].type = "PUBLISH"
      PROVE  t[k].about \notin acc /\ (q[1].type = "PUBLISH" => t[k].about # q[1].about)
  <2>1. t[k] = q[k + 1] /\ k + 1 \in 1..Len(q) /\ k + 1 # 1
    BY <1>1, <1>2
  <2>2. QED
    BY <1>2, <1>4, <2>1 DEF FreshCalls
<1>5. q[1].type = "PUBLISH" => q[1].about \notin acc
  BY <1>2 DEF FreshCalls
<1>6. FreshCalls(t, acc) /\ (q[1].type = "PUBLISH" => FreshCalls(t, acc \cup {q[1].about}))
  BY <1>3, <1>4 DEF FreshCalls
<1>7. QED
  BY <1>1, <1>5, <1>6 DEF t

Fresh == FreshCalls(toBroker, accepted)
Balance == Cardinality(succeeded) + Count(toClient, "PUBACK") <= Cardinality(accepted)

\* A call is published, and accepted, at most once.
LEMMA FreshStays ==
    ASSUME Shape, Fresh, [Next]_vars
    PROVE  Fresh'
<1>0. /\ calls \in Nat /\ calls' \in Nat /\ next_packetid' \in Nat
  BY CountsStay, BoundsAssumption DEF Shape, Counts, PacketIds
<1> DEFINE S == [type : Requests, id : Nat, about : Nat]
<1>1. toBroker \in Seq(S)
  <2>1. RequestsOf(calls, sent) \subseteq S
    BY DEF RequestsOf
  <2>2. ASSUME NEW T, NEW U, T \subseteq U PROVE Seq(T) \subseteq Seq(U)
    BY <2>2
  <2>3. QED
    BY <2>1, <2>2 DEF Shape, Queues
<1>2. Fresh' <=> FreshCalls(toBroker', accepted')
  BY DEF Fresh, FreshCalls
<1>3. ASSUME NEW p \in S, p.type # "PUBLISH", accepted' = accepted,
             toBroker' \in {toBroker, Append(toBroker, p), <<>>}
      PROVE  Fresh'
  <2>1. FreshCalls(Append(toBroker, p), accepted)
    BY <1>1, <1>3, FreshAppend DEF Fresh
  <2>2. FreshCalls(<<>>, accepted)
    BY DEF FreshCalls
  <2>3. QED
    BY <1>2, <1>3, <2>1, <2>2 DEF Fresh
<1>4. Received /\ accepted' = accepted => Fresh'
  BY <1>1, <1>2, FreshTail DEF Received, Fresh
<1>5. toBroker' \in {toBroker, <<>>} /\ accepted' = accepted => Fresh'
  <2>1. Packet("PINGREQ", 0, 0) \in S /\ Packet("PINGREQ", 0, 0).type # "PUBLISH"
    BY DEF Packet, Requests
  <2>2. QED
    BY <1>3, <2>1
<1>6. ASSUME NEW x, keepalive(toBroker, x), accepted' = accepted PROVE Fresh'
  <2>1. Packet("PINGREQ", 0, 0) \in S /\ Packet("PINGREQ", 0, 0).type # "PUBLISH"
    BY DEF Packet, Requests
  <2>2. QED
    BY <1>3, <1>6, <2>1 DEF keepalive
<1>7. ASSUME NEW p \in S, p.type # "PUBLISH", NEW ok \in BOOLEAN, sendPacket(p, ok), accepted' = accepted
      PROVE  Fresh'
  BY <1>3, <1>7 DEF sendPacket
<1> HIDE DEF Fresh
<1>8. CASE App
  <2>1. CASE MQTTConnect
    <3>1. Packet("CONNECT", 0, 0) \in S /\ Packet("CONNECT", 0, 0).type # "PUBLISH"
      BY DEF Packet, Requests
    <3>2. QED
      BY <2>1, <3>1, <1>7 DEF MQTTConnect, brokerVars
  <2>2. ASSUME NEW t \in Topics, MQTTSubscribe(t) PROVE Fresh'
    <3>1. Packet("SUBSCRIBE", next_packetid', t) \in S /\ Packet("SUBSCRIBE", next_packetid', t).type # "PUBLISH"
      BY <1>0, BoundsAssumption DEF Packet, Requests, Topics
    <3>2. QED
      BY <2>2, <3>1, <1>7 DEF MQTTSubscribe, brokerVars
  <2>3. CASE MQTTPublish
    <3> DEFINE p == Packet("PUBLISH", next_packetid', calls')
    <3>1. p \in S /\ p.about = calls + 1
      BY <2>3, <1>0 DEF MQTTPublish, Packet, Requests
    <3>2. accepted' = accepted /\ (toBroker' = toBroker \/ toBroker' = Append(toBroker, p))
      BY <2>3 DEF MQTTPublish, brokerVars, sendPacket
    <3> HIDE DEF p
    <3>3. calls + 1 \notin accepted
      BY <1>0 DEF Shape, Results
    <3>4. ASSUME NEW k \in 1..Len(toBroker), toBroker[k].type = "PUBLISH"
          PROVE  toBroker[k].about # calls + 1
      <4>1. toBroker[k] \in RequestsOf(calls, sent)
        BY DEF Shape, Queues
      <4>2. QED
        BY <1>0, <3>4, <4>1 DEF RequestsOf
    <3>5. FreshCalls(Append(toBroker, p), accepted)
      BY <1>1, <3>1, <3>3, <3>4, FreshAppend DEF Fresh
    <3>6. QED
      BY <1>2, <3>2, <3>5 DEF Fresh
  <2>4. CASE MQTTYield
    BY <2>4, <1>5 DEF MQTTYield, brokerVars, netVars
  <2>5. CASE MQTTDisconnect
    <3>1. Packet("DISCONNECT", 0, 0) \in S /\ Packet("DISCONNECT", 0, 0).type # "PUBLISH"
      BY DEF Packet, Requests
    <3>2. QED
      BY <2>5, <3>1, <1>7 DEF MQTTDisconnect, brokerVars
  <2>6. QED
    BY <1>8, <2>1, <2>2, <2>3, <2>4, <2>5 DEF App
<1>9. CASE NothingRead \/ AnswerRead
  BY <1>9, <1>6 DEF NothingRead, AnswerRead, brokerVars
<1>10. CASE DeliverDone
  <2>1. \A i \in Nat : Packet("PUBACK", i, 0) \in S /\ Packet("PUBACK", i, 0).type # "PUBLISH"
    BY DEF Packet, Requests
  <2>2. AckId \in Nat
    <3>1. Head(stack) \in FrameType
      BY <1>10, TailElements DEF DeliverDone, Idle, Shape, Frames, StackFits
    <3>2. QED
      BY <3>1 DEF AckId, Top, FrameType
  <2>3. accepted' = accepted
    BY <1>10 DEF DeliverDone, brokerVars
  <2>4. CASE keepalive(toBroker, ping_outstanding)
    BY <2>3, <2>4, <1>6
  <2>5. CASE \E ok \in BOOLEAN : sendPacket(Packet("PUBACK", AckId, 0), ok)
    BY <2>1, <2>2, <2>3, <2>5, <1>7
  <2>6. QED
    BY <1>10, <2>4, <2>5 DEF DeliverDone
<1>11. CASE MessageRead \/ CallHandler \/ HandlerReturns \/ TimerExpires \/ LinkBreaks \/ UNCHANGED vars
  BY <1>11, <1>5 DEF MessageRead, CallHandler, HandlerReturns, TimerExpires, LinkBreaks, vars,
                     netVars, brokerVars
<1>12. CASE BrokerConnect \/ BrokerSubscribe \/ BrokerPuback \/ BrokerPing \/ BrokerDisconnect
  BY <1>12, <1>4 DEF BrokerConnect, BrokerSubscribe, BrokerPuback, BrokerPing, BrokerDisconnect,
                     brokerVars
<1>13. CASE BrokerPublish
  BY <1>13, <1>1, <1>2, FreshTail DEF BrokerPublish, Received, Fresh
<1>14. ASSUME NEW t \in Topics, NEW qos \in {0, 1}, BrokerSends(t, qos) PROVE Fresh'
  BY <1>14, <1>5 DEF BrokerSends
<1>15. QED
  BY <1>8, <1>9, <1>10, <1>11, <1>12, <1>13, <1>14 DEF Next, Running, Broker

\* An answer other than a PUBACK, and a packet dropped, leave the balance; a PUBACK
\* that is read is spent at most once.
LEMMA BalanceStays ==
    ASSUME Shape, Fresh, Balance, [Next]_vars
    PROVE  Balance'
<1>0. /\ calls \in Nat /\ IsFiniteSet(succeeded) /\ IsFiniteSet(accepted)
      /\ Cardinality(succeeded) \in Nat /\ Cardinality(accepted) \in Nat
  <2>1. calls \in Nat /\ succeeded \in SUBSET (1..calls) /\ accepted \in SUBSET (1..calls)
    BY BoundsAssumption DEF Shape, Counts, Results
  <2>2. IsFiniteSet(1..calls)
    BY <2>1, FS_Interval
  <2>3. QED
    BY <2>1, <2>2, FS_Subset, FS_CardinalityType
<1> DEFINE S == [type : Answers, id : Nat, about : Nat]
           n == Count(toClient, "PUBACK")
<1>1. toClient \in Seq(S) /\ n \in Nat
  <2>1. AnswersOf(sent) \subseteq S
    BY DEF AnswersOf
  <2>2. ASSUME NEW T, NEW U, T \subseteq U PROVE Seq(T) \subseteq Seq(U)
    BY <2>2
  <2>3. toClient \in Seq(S)
    BY <2>1, <2>2 DEF Shape, Queues
  <2>4. QED
    BY <2>3, CountFinite
<1>2. Balance' <=> Cardinality(succeeded') + Count(toClient', "PUBACK") <= Cardinality(accepted')
  BY DEF Balance, Count, Places
<1>3. ASSUME succeeded' = succeeded, accepted' = accepted,
             Count(toClient', "PUBACK") \in Nat, Count(toClient', "PUBACK") <= n
      PROVE  Balance'
  <2> HIDE DEF n
  <2>1. Cardinality(succeeded) + n <= Cardinality(accepted)
    BY DEF Balance, n
  <2>2. QED
    BY <1>0, <1>1, <1>2, <1>3, <2>1
<1>4. Count(<<>>, "PUBACK") = 0
  <2>1. Places(<<>>, "PUBACK") = {}
    BY DEF Places
  <2>2. QED
    BY <2>1, FS_EmptySet DEF Count
<1>5. toClient' \in {toClient, <<>>} /\ succeeded' = succeeded /\ accepted' = accepted => Balance'
  BY <1>1, <1>3, <1>4
<1>6. ASSUME NEW p \in S, p.type # "PUBACK", Answer(p), succeeded' = succeeded, accepted' = accepted
      PROVE  Balance'
  <2>1. toClient' = toClient \/ toClient' = Append(toClient, p)
    BY <1>6 DEF Answer
  <2>2. Count(Append(toClient, p), "PUBACK") = n
    BY <1>1, <1>6, AppendCount
  <2>3. Count(toClient', "PUBACK") = n
    BY <2>1, <2>2
  <2> HIDE DEF n
  <2>4. QED
    BY <1>1, <1>3, <1>6, <2>3
<1>7. ASSUME toClient # <<>>, toClient' = Tail(toClient), succeeded' = succeeded, accepted' = accepted
      PROVE  Balance'
  <2>1. Tail(toClient) \in Seq(S)
    BY <1>1, <1>7, TailElements
  <2>2. Count(Tail(toClient), "PUBACK") \in Nat /\ Count(Tail(toClient), "PUBACK") <= n
    BY <1>1, <1>7, <2>1, TailCount, CountFinite
  <2>3. QED
    BY <1>3, <1>7, <2>2
<1>8. ASSUME AnswerRead PROVE Balance'
  <2>1. toClient # <<>> /\ toClient' = Tail(toClient) /\ accepted' = accepted
    BY <1>8 DEF AnswerRead, brokerVars
  <2>2. CASE succeeded' = succeeded
    BY <2>1, <2>2, <1>7
  <2>3. CASE Matches(Head(toClient)) /\ Top.op = "publish" /\ PubackRead(Head(toClient))
    <3>1. Head(toClient).type = "PUBACK"
      BY <2>3 DEF Matches, Awaited
    <3>2. Count(Tail(toClient), "PUBACK") \in Nat /\ Count(Tail(toClient), "PUBACK") <= n - 1
      <4>1. Tail(toClient) \in Seq(S)
        BY <1>1, <2>1, TailElements
      <4>2. QED
        BY <1>1, <2>1, <3>1, <4>1, TailCount, CountFinite
    <3> DEFINE x == Top.arg
    <3>3. succeeded' = succeeded \cup {x}
      BY <2>3 DEF PubackRead
    <3> HIDE DEF x, n
    <3>4. Cardinality(succeeded') \in Nat /\ Cardinality(succeeded') <= Cardinality(succeeded) + 1
      <4>1. \/ Cardinality(succeeded \cup {x}) = Cardinality(succeeded)
            \/ Cardinality(succeeded \cup {x}) = Cardinality(succeeded) + 1
        BY <1>0, FS_AddElement
      <4>2. QED
        BY <1>0, <3>3, <4>1
    <3>5. Cardinality(succeeded) + n <= Cardinality(accepted)
      BY DEF Balance, n
    <3>6. QED
      BY <1>0, <1>1, <1>2, <2>1, <3>2, <3>4, <3>5
  <2>4. QED
    BY <1>8, <2>2, <2>3 DEF AnswerRead, ConnackRead, SubackRead
<1>9. ASSUME BrokerPublish PROVE Balance'
  <2> DEFINE p == Packet("PUBACK", Head(toBroker).id, 0)
             x == Head(toBroker).about
  <2>1. /\ toBroker # <<>> /\ Head(toBroker).type = "PUBLISH" /\ succeeded' = succeeded
        /\ accepted' = accepted \cup {x}
        /\ toClient' = toClient \/ toClient' = Append(toClient, p)
    BY <1>9 DEF BrokerPublish, Received, Answer, clientVars
  <2>2. p \in S
    <3>1. Head(toBroker).id \in Nat
      BY <2>1, TailElements DEF Shape, Queues, RequestsOf
    <3>2. QED
      BY <3>1 DEF Packet, Answers
  <2>3. x \notin accepted
    BY <2>1, FreshTail DEF Shape, Queues, Fresh
  <2> HIDE DEF p, x
  <2>4. Cardinality(accepted') = Cardinality(accepted) + 1
    BY <1>0, <2>1, <2>3, FS_AddElement
  <2>5. Count(toClient', "PUBACK") \in Nat /\ Count(toClient', "PUBACK") <= n + 1
    <3>1. Append(toClient, p) \in Seq(S)
      BY <1>1, <2>2, AppendElements
    <3>2. Count(Append(toClient, p), "PUBACK") \in Nat /\ Count(Append(toClient, p), "PUBACK") <= n + 1
      BY <1>1, <2>2, <3>1, AppendCount, CountFinite
    <3>3. CASE toClient' = Append(toClient, p)
      BY <3>2, <3>3
    <3>4. CASE toClient' = toClient
      <4>1. Count(toClient', "PUBACK") = n
        BY <3>4
      <4> HIDE DEF n
      <4>2. QED
        BY <1>1, <4>1
    <3>5. QED
      BY <2>1, <3>3, <3>4
  <2> HIDE DEF n
  <2>6. Cardinality(succeeded) + n <= Cardinality(accepted)
    BY DEF Balance, n
  <2>7. QED
    BY <1>0, <1>1, <1>2, <2>1, <2>4, <2>5, <2>6
<1> HIDE DEF Balance
<1>10. CASE App \/ NothingRead \/ CallHandler \/ HandlerReturns \/ DeliverDone \/ UNCHANGED vars
  BY <1>10, <1>5 DEF App, MQTTConnect, MQTTSubscribe, MQTTPublish, MQTTYield, MQTTDisconnect,
                     NothingRead, CallHandler, HandlerReturns, DeliverDone, vars, clientVars,
                     brokerVars, netVars
<1>11. CASE MessageRead
  BY <1>11, <1>7 DEF MessageRead, brokerVars
<1>12. CASE TimerExpires \/ BrokerPuback \/ BrokerDisconnect \/ LinkBreaks
  BY <1>12, <1>5 DEF TimerExpires, TimeoutResult, BrokerPuback, BrokerDisconnect, LinkBreaks,
                     clientVars, brokerVars
<1>13. CASE BrokerConnect
  <2>1. \A r \in {0, 1} : Packet("CONNACK", 0, r) \in S /\ Packet("CONNACK", 0, r).type # "PUBACK"
    BY DEF Packet, Answers
  <2>2. succeeded' = succeeded /\ accepted' = accepted
    BY <1>13 DEF BrokerConnect, clientVars
  <2>3. QED
    BY <1>13, <2>1, <2>2, <1>5, <1>6 DEF BrokerConnect
<1>14. CASE BrokerSubscribe
  <2>1. toBroker # <<>> /\ succeeded' = succeeded /\ accepted' = accepted
    BY <1>14 DEF BrokerSubscribe, Received, clientVars
  <2>2. Head(toBroker).id \in Nat
    BY <2>1, TailElements DEF Shape, Queues, RequestsOf
  <2>3. \A r \in {0, 1} : /\ Packet("SUBACK", Head(toBroker).id, r) \in S
                          /\ Packet("SUBACK", Head(toBroker).id, r).type # "PUBACK"
    BY <2>2 DEF Packet, Answers
  <2>4. QED
    BY <1>14, <2>1, <2>3, <1>6 DEF BrokerSubscribe
<1>15. CASE BrokerPing
  <2>1. Packet("PINGRESP", 0, 0) \in S /\ Packet("PINGRESP", 0, 0).type # "PUBACK"
    BY DEF Packet, Answers
  <2>2. QED
    BY <1>15, <2>1, <1>6 DEF BrokerPing, clientVars, brokerVars
<1>16. ASSUME NEW t \in Topics, NEW qos \in {0, 1}, BrokerSends(t, qos) PROVE Balance'
  <2>1. Len(sent') \in Nat
    BY <1>16, OneMoreMessage DEF Shape, Log
  <2>2. Packet("PUBLISH", Len(sent'), 0) \in S /\ Packet("PUBLISH", Len(sent'), 0).type # "PUBACK"
    BY <2>1 DEF Packet, Answers
  <2>3. QED
    BY <1>16, <2>2, <1>6 DEF BrokerSends, clientVars
<1>17. QED
  BY <1>8, <1>9, <1>10, <1>11, <1>12, <1>13, <1>14, <1>15, <1>16 DEF Next, Running, Broker

LEMMA BalanceAlways == Spec => [](Fresh /\ Balance)
<1>1. Init => Fresh /\ Balance
  <2> SUFFICES ASSUME Init PROVE Fresh /\ Balance
    OBVIOUS
  <2>1. Fresh
    BY DEF Init, Fresh, FreshCalls
  <2>2. Places(<<>>, "PUBACK") = {}
    BY DEF Places
  <2>3. Balance
    BY <2>2, FS_EmptySet DEF Init, Balance, Count
  <2>4. QED
    BY <2>1, <2>3
<1>2. Shape /\ Fresh /\ Balance /\ [Next]_vars => Fresh' /\ Balance'
  BY FreshStays, BalanceStays
<1>3. QED
  BY <1>1, <1>2, ShapeAlways, PTL DEF Spec

\* Although waitfor compares no packet ids, so that nested publishes take each other's
\* PUBACKs, and an acknowledgement may come after its publish has failed, no more
\* publishes are reported as delivered than the broker accepted.
THEOREM SuccessesAreAcked == Spec => []NoMoreSuccessesThanAcks
<1>1. Shape /\ Balance => NoMoreSuccessesThanAcks
  <2> SUFFICES ASSUME Shape, Balance PROVE Cardinality(succeeded) <= Cardinality(accepted)
    BY DEF NoMoreSuccessesThanAcks
  <2>1. calls \in Nat /\ succeeded \in SUBSET (1..calls) /\ accepted \in SUBSET (1..calls)
    BY BoundsAssumption DEF Shape, Counts, Results
  <2>2. Cardinality(succeeded) \in Nat /\ Cardinality(accepted) \in Nat
    <3>1. IsFiniteSet(1..calls)
      BY <2>1, FS_Interval
    <3>2. QED
      BY <2>1, <3>1, FS_Subset, FS_CardinalityType
  <2>3. Count(toClient, "PUBACK") \in Nat
    BY CountFinite DEF Shape, Queues
  <2>4. QED
    BY <2>2, <2>3 DEF Balance
<1>2. QED
  BY <1>1, ShapeAlways, BalanceAlways, PTL
=============================================================================
