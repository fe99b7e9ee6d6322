------------------------ MODULE FreeRtosAgentProofs ------------------------
EXTENDS FreeRtosAgent, FiniteSetTheorems, TLAPS

\* What the two sizes make true of blocks and sockets.
LEMMA SizesAreNat == PoolSize \in Nat /\ SockNum \in Nat /\ PoolSize <= SockNum /\ PoolSize > 0
  BY SizesAssumption

-----------------------------------------------------------------------------
(* The pool. *)

\* A set of natural numbers below a bound has a smallest element: the intervals up
\* to its elements are well-founded by inclusion.
LEMMA SmallestExists ==
    ASSUME NEW n \in Int, NEW S \in SUBSET (0..n), S # {}
    PROVE  Smallest(S) \in S
<1> DEFINE T == {0..x : x \in S}
<1>1. IsFiniteSet(0..n)
  BY FS_Interval
<1>2. IsWellFoundedOn(StrictSubsetOrdering(0..n), SUBSET (0..n))
  BY <1>1, FS_StrictSubsetOrderingWellFounded, FS_FiniteSubsetsOfFinite
<1>3. T \subseteq SUBSET (0..n) /\ T # {}
  <2>1. ASSUME NEW x \in S
        PROVE  0..x \in SUBSET (0..n)
    OBVIOUS
  <2>2. QED
    BY <2>1
<1>4. PICK t \in T : \A u \in T : <<u, t>> \notin StrictSubsetOrdering(0..n)
  <2> HIDE DEF T
  <2> QED
    BY <1>2, <1>3, WFMin
<1>5. PICK x \in S : t = 0..x
  BY <1>4
<1>6. ASSUME NEW y \in S, y < x
      PROVE  FALSE
  <2>1. 0..y \subseteq 0..x /\ x \notin 0..y /\ x \in 0..x
    BY <1>6
  <2>2. <<0..y, t>> \in StrictSubsetOrdering(0..n)
    BY <1>3, <1>5, <1>6, <2>1 DEF StrictSubsetOrdering
  <2>3. QED
    BY <1>4, <1>6, <2>2
<1>7. \A y \in S : x <= y
  BY <1>6
<1>8. QED
  BY <1>7 DEF Smallest

\* As long as a block is free a socket is free, because every socket taken belongs to
\* a block in use, and there are at least as many sockets as blocks.
LEMMA SocketIsFree ==
    ASSUME NEW p \in PoolType, PoolConsistent(p), NEW b \in Blocks, ~p.markers[b]
    PROVE  Sockets \ p.SockStatus # {}
<1> SUFFICES ASSUME p.SockStatus = Sockets PROVE FALSE
  BY DEF PoolType
<1> DEFINE A == Allocated(p)
           f == [a \in A |-> p.sockNo[a]]
<1>1. IsFiniteSet(Blocks) /\ Cardinality(Blocks) = PoolSize
  BY SizesAreNat, FS_Interval DEF Blocks
<1>2. Cardinality(Sockets) = SockNum
  BY SizesAreNat, FS_Interval DEF Sockets
<1>3. A \in SUBSET Blocks /\ A # Blocks
  BY DEF Allocated
<1>4. IsFiniteSet(A) /\ Cardinality(A) <= PoolSize /\ Cardinality(A) # PoolSize
  <2> HIDE DEF A
  <2> QED
    BY <1>1, <1>3, FS_Subset
<1>5. f \in Surjection(A, Sockets)
  <2>1. f \in [A -> Sockets]
    BY <1>3 DEF PoolType
  <2>2. ASSUME NEW s \in Sockets
        PROVE  \E a \in A : f[a] = s
    BY DEF PoolConsistent
  <2>3. QED
    BY <2>1, <2>2 DEF Surjection
<1>6. Cardinality(Sockets) <= Cardinality(A)
  <2> HIDE DEF A, f
  <2> QED
    BY <1>4, <1>5, FS_Surjection
<1>7. Cardinality(A) \in Nat
  <2> HIDE DEF A
  <2> QED
    BY <1>4, FS_CardinalityType
<1>8. QED
  BY <1>2, <1>4, <1>6, <1>7, SizesAreNat

\* osPoolAlloc returns NULL or a block that was free.
LEMMA AllocResult ==
    ASSUME NEW p \in PoolType, osPoolAlloc(p) # NULL
    PROVE  osPoolAlloc(p) \in Blocks /\ ~p.markers[osPoolAlloc(p)]
<1> DEFINE above == {b \in FreeBlocks(p) : b >= p.currentIndex}
<1> PoolSize - 1 \in Int
  BY SizesAreNat
<1>1. FreeBlocks(p) # {}
  BY DEF osPoolAlloc
<1>2. CASE above # {}
  <2>1. above \in SUBSET (0..(PoolSize - 1))
    BY DEF FreeBlocks, Blocks
  <2>2. Smallest(above) \in above
    <3> HIDE DEF above
    <3> QED
      BY <1>2, <2>1, PoolSize - 1 \in Int, SmallestExists
  <2>3. QED
    BY <1>1, <1>2, <2>2 DEF osPoolAlloc, FreeBlocks
<1>3. CASE above = {}
  <2>1. 0 \in FreeBlocks(p)
    BY <1>1, <1>3 DEF FreeBlocks, PoolType, Blocks
  <2>2. osPoolAlloc(p) = 0
    BY <1>1, <1>3 DEF osPoolAlloc
  <2>3. QED
    BY <2>1, <2>2 DEF FreeBlocks
<1>4. QED
  BY <1>2, <1>3

\* What an allocation does: a free block is marked and gets a free socket.
LEMMA AllocEffect ==
    ASSUME NEW p \in PoolType, PoolConsistent(p), osPoolAlloc(p) # NULL
    PROVE  \E s \in Sockets \ p.SockStatus :
              AfterAlloc(p) = [p EXCEPT !.markers[osPoolAlloc(p)] = TRUE,
                                        !.currentIndex = osPoolAlloc(p),
                                        !.sockNo[osPoolAlloc(p)] = s,
                                        !.SockStatus = p.SockStatus \cup {s}]
<1> DEFINE S == Sockets \ p.SockStatus
<1> SockNum - 1 \in Int
  BY SizesAreNat
<1>1. S \in SUBSET (0..(SockNum - 1)) /\ S # {}
  BY AllocResult, SocketIsFree DEF Sockets
<1>2. Smallest(S) \in S
  <2> HIDE DEF S
  <2> QED
    BY <1>1, SmallestExists
<1>3. QED
  BY <1>2 DEF AfterAlloc

\* It keeps blocks and sockets in step.
LEMMA AllocKeeps ==
    ASSUME NEW p \in PoolType, PoolConsistent(p)
    PROVE  AfterAlloc(p) \in PoolType /\ PoolConsistent(AfterAlloc(p))
<1>1. CASE osPoolAlloc(p) = NULL
  BY <1>1 DEF AfterAlloc
<1>2. CASE osPoolAlloc(p) # NULL
  <2> DEFINE b == osPoolAlloc(p)
             q == AfterAlloc(p)
  <2>1. PICK s \in Sockets \ p.SockStatus :
          q = [p EXCEPT !.markers[b] = TRUE, !.currentIndex = b, !.sockNo[b] = s,
                        !.SockStatus = p.SockStatus \cup {s}]
    BY <1>2, AllocEffect
  <2>2. b \in Blocks /\ ~p.markers[b]
    BY <1>2, AllocResult
  <2> HIDE DEF b, q
  <2>3. q \in PoolType
    BY <2>1, <2>2 DEF PoolType
  <2>4. Allocated(q) = Allocated(p) \cup {b} /\ b \notin Allocated(p)
    BY <2>1, <2>2 DEF PoolType, Allocated
  <2>5. q.sockNo[b] = s /\ \A a \in Allocated(p) : q.sockNo[a] = p.sockNo[a]
    BY <2>1, <2>2, <2>4 DEF PoolType, Allocated
  <2>6. q.SockStatus = p.SockStatus \cup {s}
    BY <2>1 DEF PoolType
  <2>7. PoolConsistent(q)
    BY <2>4, <2>5, <2>6 DEF PoolConsistent
  <2>8. QED
    BY <2>3, <2>7 DEF q
<1>3. QED
  BY <1>1, <1>2

\* Freeing a block keeps them in step if the block is in use, or if its socket is free.
LEMMA FreeKeeps ==
    ASSUME NEW p \in PoolType, PoolConsistent(p), NEW b \in Blocks \cup {NULL},
           b # NULL => p.markers[b] \/ p.sockNo[b] \notin p.SockStatus
    PROVE  sockPoolFree(p, b) \in PoolType /\ PoolConsistent(sockPoolFree(p, b))
<1>1. CASE b = NULL
  BY <1>1 DEF sockPoolFree
<1>2. CASE b # NULL
  <2> DEFINE q == sockPoolFree(p, b)
  <2>1. q = [p EXCEPT !.markers[b] = FALSE, !.SockStatus = p.SockStatus \ {p.sockNo[b]}]
    BY <1>2 DEF sockPoolFree
  <2> HIDE DEF q
  <2>2. q \in PoolType
    BY <1>2, <2>1 DEF PoolType
  <2>3. Allocated(q) = Allocated(p) \ {b}
    BY <1>2, <2>1 DEF PoolType, Allocated
  <2>4. q.sockNo = p.sockNo /\ q.SockStatus = p.SockStatus \ {p.sockNo[b]}
    BY <2>1 DEF PoolType
  <2>5. CASE p.markers[b]
    <3>1. b \in Allocated(p)
      BY <1>2, <2>5 DEF Allocated
    <3>2. QED
      BY <2>2, <2>3, <2>4, <3>1 DEF PoolConsistent, q
  <2>6. CASE ~p.markers[b]
    <3>1. b \notin Allocated(p)
      BY <2>6 DEF Allocated
    <3>2. QED
      BY <1>2, <2>2, <2>3, <2>4, <2>6, <3>1 DEF PoolConsistent, q
  <2>7. QED
    BY <2>5, <2>6
<1>3. QED
  BY <1>1, <1>2

\* A block that points to no socket in use, or that is in use itself.
Sound(p, b) == b # NULL => p.markers[b] \/ p.sockNo[b] \notin p.SockStatus

\* A socket borrowed and given back leaves the blocks as sound as they were: a block
\* that dangles may have been the one borrowed, but its socket is free again.
LEMMA BorrowKeeps ==
    ASSUME NEW p \in PoolType, PoolConsistent(p), NEW b \in Blocks \cup {NULL}, Sound(p, b)
    PROVE  LET q == sockPoolFree(AfterAlloc(p), sockPoolAlloc(p))
           IN  q \in PoolType /\ PoolConsistent(q) /\ Sound(q, b)
<1> DEFINE c == osPoolAlloc(p)
           r == AfterAlloc(p)
           q == sockPoolFree(r, c)
<1>1. CASE c = NULL
  BY <1>1 DEF AfterAlloc, sockPoolFree, sockPoolAlloc
<1>2. CASE c # NULL
  <2>1. PICK s \in Sockets \ p.SockStatus :
          r = [p EXCEPT !.markers[c] = TRUE, !.currentIndex = c, !.sockNo[c] = s,
                        !.SockStatus = p.SockStatus \cup {s}]
    BY <1>2, AllocEffect
  <2>2. c \in Blocks /\ ~p.markers[c]
    BY <1>2, AllocResult
  <2>3. r \in PoolType /\ PoolConsistent(r)
    BY AllocKeeps
  <2> HIDE DEF c, r
  <2>4. r.markers[c] /\ r.sockNo[c] = s
    BY <2>1, <2>2 DEF PoolType
  <2>5. q \in PoolType /\ PoolConsistent(q)
    BY <1>2, <2>2, <2>3, <2>4, FreeKeeps
  <2>6. q.SockStatus = p.SockStatus /\ (b # NULL /\ b # c =>
            q.markers[b] = p.markers[b] /\ q.sockNo[b] = p.sockNo[b])
    <3>1. q = [r EXCEPT !.markers[c] = FALSE, !.SockStatus = r.SockStatus \ {s}]
      BY <1>2, <2>4 DEF sockPoolFree
    <3>2. r.SockStatus = p.SockStatus \cup {s}
      BY <2>1 DEF PoolType
    <3>3. q.SockStatus = r.SockStatus \ {s}
      BY <2>3, <3>1 DEF PoolType
    <3>4. b # NULL /\ b # c => r.markers[b] = p.markers[b] /\ r.sockNo[b] = p.sockNo[b]
      BY <2>1, <2>2 DEF PoolType
    <3>5. b # NULL /\ b # c => q.markers[b] = r.markers[b] /\ q.sockNo[b] = r.sockNo[b]
      BY <2>2, <2>3, <3>1 DEF PoolType
    <3>6. QED
      BY <3>2, <3>3, <3>4, <3>5
  <2>7. q.sockNo[c] = s
    BY <1>2, <2>3, <2>4 DEF sockPoolFree, PoolType
  <2>8. Sound(q, b)
    BY <2>1, <2>6, <2>7 DEF Sound
  <2>9. QED
    BY <2>5, <2>8 DEF c, r, sockPoolAlloc
<1>3. QED
  BY <1>1, <1>2

\* A block that sockPoolAlloc has just handed out is in use, and is still sound when it
\* has been given back and the pointer to it kept.
LEMMA TakenBlock ==
    ASSUME NEW p \in PoolType, PoolConsistent(p), sockPoolAlloc(p) # NULL
    PROVE  LET c == sockPoolAlloc(p)
               q == AfterAlloc(p)
           IN  /\ c \in Blocks /\ q.markers[c] /\ q.sockNo[c] \in Sockets
               /\ q \in PoolType /\ PoolConsistent(q)
               /\ sockPoolFree(q, c) \in PoolType /\ PoolConsistent(sockPoolFree(q, c))
               /\ Sound(sockPoolFree(q, c), c)
<1> DEFINE c == osPoolAlloc(p)
           q == AfterAlloc(p)
<1>1. c # NULL /\ c \in Blocks
  BY AllocResult DEF sockPoolAlloc
<1>2. PICK s \in Sockets \ p.SockStatus :
        q = [p EXCEPT !.markers[c] = TRUE, !.currentIndex = c, !.sockNo[c] = s,
                      !.SockStatus = p.SockStatus \cup {s}]
  BY <1>1, AllocEffect
<1>3. q \in PoolType /\ PoolConsistent(q)
  BY AllocKeeps
<1> HIDE DEF c, q
<1>4. q.markers[c] /\ q.sockNo[c] \in Sockets
  BY <1>1, <1>2 DEF PoolType
<1>5. sockPoolFree(q, c) \in PoolType /\ PoolConsistent(sockPoolFree(q, c))
  BY <1>1, <1>3, <1>4, FreeKeeps
<1>6. Sound(sockPoolFree(q, c), c)
  <2>1. sockPoolFree(q, c) = [q EXCEPT !.markers[c] = FALSE,
                                       !.SockStatus = q.SockStatus \ {q.sockNo[c]}]
    BY <1>1 DEF sockPoolFree
  <2>2. sockPoolFree(q, c).sockNo = q.sockNo
    BY <1>3, <2>1 DEF PoolType
  <2>3. sockPoolFree(q, c).SockStatus = q.SockStatus \ {q.sockNo[c]}
    BY <1>3, <2>1 DEF PoolType
  <2>4. QED
    BY <2>2, <2>3 DEF Sound
<1>7. QED
  BY <1>1, <1>3, <1>4, <1>5, <1>6 DEF c, q, sockPoolAlloc

-----------------------------------------------------------------------------
(* The device, whatever may fail. *)

\* Who called start, at each place: MARun, and nothing else ever.
CallerInv ==
    /\ caller \in {"main", "MARun"}
    /\ pc = "ntp" => caller = "main"
    /\ pc \in {"start", "resolve", "waitDns", "open", "mqtt", "subscribe", "loop", "destroy"}
         => caller = "MARun"

\* An attempt to connect that may fail is one of those handleMQTTCreate counts.
RetryInv == pc \in {"resolve", "open"} \/ (pc = "ethernet" /\ caller = "MARun")
              => retry < RETRY_CNT

\* The pointer the client keeps frees nobody else's socket.
PointerInv == pc # "waitDns" => Sound(pool, pSockPool)

\* What MARun and handleMQTTDestroy rely on.
ClientInv == client => contexts >= 1
LoopInv == pc = "loop" => mStep = "PROCESS_TELEMETRY"

DeviceInv ==
    /\ TypeOK /\ PoolInStep /\ ConnectionOwned
    /\ CallerInv /\ RetryInv /\ PointerInv /\ ClientInv /\ LoopInv

\* What has gone wrong stays on record.
LEMMA HarshLasts ==
    [Next]_vars => \/ harsh' = harsh
                   \/ \E kind \in Failures : harsh' = (harsh \/ kind \in Harsh) /\ Fault(kind)
<1> SUFFICES ASSUME Next PROVE harsh' = harsh
                   \/ \E kind \in Failures : harsh' = (harsh \/ kind \in Harsh) /\ Fault(kind)
  BY DEF vars
<1> USE DEF Fine
<1> DEFINE Kept == harsh' = harsh
           Noted == \E kind \in AllFailures : Fault(kind)
<1>1. Kept \/ Noted
  BY DEF Next, Device, EthernetManager, SetTime, Start, Resolve, Open, NullPointer, Crash,
         ConnectMqtt, Subscribe, Loop, telemetry, Destroy, LinkDies, AllFailures
<1>2. ASSUME NEW kind \in AllFailures, Fault(kind)
      PROVE  kind \in Failures /\ harsh' = (harsh \/ kind \in Harsh)
  BY <1>2 DEF Fault
<1>3. QED
  BY <1>1, <1>2

LEMMA HarshIsBoolean == harsh \in BOOLEAN /\ [Next]_vars => harsh' \in BOOLEAN
  BY HarshLasts, Zenon

LEMMA DeviceInit == Init => DeviceInv
<1> SUFFICES ASSUME Init PROVE DeviceInv
  OBVIOUS
<1> USE SizesAreNat, NullAssumption, FaultsAssumption DEF Init
<1>1. EmptyPool \in PoolType /\ Allocated(EmptyPool) = {} /\ EmptyPool.SockStatus = {}
  BY DEF EmptyPool, PoolType, Allocated, Blocks, Sockets
<1>2. TypeOK
  <2>1. client \in BOOLEAN /\ isconnected \in BOOLEAN
    BY Zenon
  <2>2. 0 \in Sockets /\ retry \in 0..RETRY_CNT /\ contexts \in Nat /\ faults \in 0..MaxFaults
    BY DEF Sockets
  <2>3. QED
    BY <1>1, <2>1, <2>2 DEF TypeOK, Pcs
<1>3. PoolInStep
  BY <1>1 DEF PoolInStep, PoolConsistent
<1>4. QED
  BY <1>2, <1>3 DEF DeviceInv, ConnectionOwned, CallerInv, RetryInv, PointerInv, Sound,
                    ClientInv, LoopInv

LEMMA DeviceStep == DeviceInv /\ [Next]_vars => DeviceInv'
<1> SUFFICES ASSUME DeviceInv, [Next]_vars PROVE DeviceInv'
  OBVIOUS
<1>0. /\ pool \in PoolType /\ PoolConsistent(pool) /\ pSockPool \in Blocks \cup {NULL}
      /\ pc # "waitDns" => Sound(pool, pSockPool)
      /\ harsh' \in BOOLEAN
  BY HarshIsBoolean DEF DeviceInv, TypeOK, PoolInStep, PointerInv
<1>f. \A kind : Fault(kind) => faults < MaxFaults /\ faults' = faults + 1
  BY DEF Fault
<1> USE FaultsAssumption
    DEF DeviceInv, TypeOK, Pcs, ConnectionOwned, CallerInv, RetryInv, ClientInv, LoopInv,
        PoolInStep, PointerInv, netVars, agentVars, Fine
<1>1. CASE EthernetManager
  BY <1>0, <1>f, <1>1, BorrowKeeps DEF EthernetManager, Borrow
<1>2. CASE SetTime
  BY <1>0, <1>f, <1>2, BorrowKeeps DEF SetTime, Borrow
<1>3. CASE Start
  <2>1. client' = TRUE /\ pool' = pool /\ retry' = 0 /\ caller' = "MARun"
    BY <1>3 DEF Start, CreateClient
  <2>2. 0 \in Sockets
    BY SizesAreNat DEF Sockets
  <2>3. CASE client
    BY <1>0, <1>f, <1>3, <2>1, <2>3 DEF Start, CreateClient
  <2>4. CASE ~client
    <3>1. isconnected' = FALSE /\ pSockPool' = NULL /\ my_socket' = 0
          /\ contexts' = contexts + 1 /\ pc' = "ethernet"
      BY <1>3, <2>4 DEF Start, CreateClient
    <3>2. isconnected' \in BOOLEAN /\ client' \in BOOLEAN
      BY <2>1, <3>1, Zenon
    <3>3. QED
      BY <1>0, <1>f, <1>3, <2>1, <2>2, <3>1, <3>2 DEF Start, Sound
  <2>5. QED
    BY <2>3, <2>4
<1>4. CASE Resolve
  <2>1. CASE Borrow /\ Fine /\ pc' = "open" /\ UNCHANGED retry
    BY <1>0, <1>f, <1>4, <2>1, BorrowKeeps DEF Resolve, Borrow
  <2>2. CASE Borrow /\ Fault("dnsMalformed") /\ AttemptFails
    BY <1>0, <1>f, <1>4, <2>2, BorrowKeeps DEF Resolve, Borrow, AttemptFails, AfterFailure
  <2>3. CASE Fault("dnsLost") /\ pool' = AfterAlloc(pool) /\ pc' = "waitDns" /\ UNCHANGED retry
    BY <1>0, <1>f, <1>4, <2>3, AllocKeeps DEF Resolve
  <2>4. QED
    BY <1>4, <2>1, <2>2, <2>3 DEF Resolve
<1>5. CASE Open
  <2> DEFINE c == sockPoolAlloc(pool)
             q == AfterAlloc(pool)
  <2>0. /\ c \in Blocks /\ c # NULL /\ q.markers[c] /\ q.sockNo[c] \in Sockets
        /\ q \in PoolType /\ PoolConsistent(q)
        /\ sockPoolFree(q, c) \in PoolType /\ PoolConsistent(sockPoolFree(q, c))
        /\ Sound(sockPoolFree(q, c), c)
    BY <1>0, <1>f, <1>5, TakenBlock DEF Open, Exhausted
  <2>1. pSockPool' = c /\ my_socket' = q.sockNo[c]
    BY <1>5 DEF Open, NetworkConnect
  <2> HIDE DEF c, q
  <2>2. CASE Fine /\ NetworkConnect(TRUE) /\ pc' = "mqtt" /\ UNCHANGED retry
    <3>1. pool' = q /\ established' = established \cup {my_socket'}
      BY <2>2 DEF NetworkConnect, q
    <3>2. QED
      BY <1>0, <1>f, <1>5, <2>0, <2>1, <2>2, <3>1 DEF Open, Sound
  <2>3. CASE (Fault("connect") \/ Fault("dnsError")) /\ NetworkConnect(FALSE) /\ AttemptFails
    <3>1. pool' = sockPoolFree(q, c) /\ established' = established
      BY <2>1, <2>3 DEF NetworkConnect, ConnectError, q
    <3>2. QED
      BY <1>0, <1>f, <1>5, <2>0, <2>1, <2>3, <3>1 DEF Open, AttemptFails, AfterFailure
  <2>4. CASE Fault("handshake") /\ NetworkConnect(TRUE) /\ AttemptFails
    <3>1. pool' = q /\ established' = established \cup {my_socket'}
      BY <2>4 DEF NetworkConnect, q
    <3>2. QED
      BY <1>0, <1>f, <1>5, <2>0, <2>1, <2>4, <3>1 DEF Open, Sound, AttemptFails, AfterFailure
  <2>5. QED
    BY <1>5, <2>2, <2>3, <2>4 DEF Open
<1>6. CASE NullPointer
  BY <1>0, <1>f, <1>6 DEF NullPointer, Crash
<1>7. CASE ConnectMqtt
  <2>1. isconnected' = TRUE \/ isconnected' = isconnected
    BY <1>7 DEF ConnectMqtt
  <2>2. isconnected' \in BOOLEAN
    BY <2>1, Zenon
  <2>3. QED
    BY <1>0, <1>f, <1>7, <2>2 DEF ConnectMqtt, AfterFailure
<1>8. CASE Subscribe
  BY <1>0, <1>f, <1>8 DEF Subscribe, attribute, AfterFailure
<1>9. CASE Loop
  <2>1. tpMQTTIsConnected /\ mStep = "PROCESS_TELEMETRY"
    BY <1>0, <1>9 DEF Loop, tpMQTTIsConnected, IsNetworkConnected
  <2>2. pc' \in {"loop", "destroy"} /\ caller' = caller
    BY <1>9, <2>1 DEF Loop, LoopNext
  <2>3. faults' \in 0..MaxFaults
    BY <1>f, <1>9 DEF Loop, telemetry
  <2>4. QED
    BY <1>0, <1>f, <1>9, <2>2, <2>3 DEF Loop
<1>10. CASE Destroy
  <2>1. pool' \in PoolType /\ PoolConsistent(pool')
    BY <1>0, <1>f, <1>10, FreeKeeps
       DEF Destroy, IsNetworkConnected, NetworkDisconnectTLS, Sound
  <2>2. contexts' \in Nat /\ established' \subseteq Sockets
    BY <1>10 DEF Destroy, NetworkDisconnectTLS
  <2>3. /\ pc' = "ethernet" /\ caller' = "main" /\ pSockPool' = NULL
        /\ client' = FALSE /\ isconnected' = FALSE
        /\ UNCHANGED <<retry, my_socket, mStep, mConnectionStatus, faults>>
    BY <1>10 DEF Destroy
  <2>4. client' \in BOOLEAN /\ isconnected' \in BOOLEAN /\ ~client'
    BY <2>3, Zenon
  <2>5. QED
    BY <1>0, <2>1, <2>2, <2>3, <2>4 DEF Sound
<1>11. CASE LinkDies
  BY <1>0, <1>f, <1>11 DEF LinkDies
<1>12. CASE UNCHANGED vars
  BY <1>0, <1>f, <1>12 DEF vars
<1>13. QED
  BY <1>1, <1>2, <1>3, <1>4, <1>5, <1>6, <1>7, <1>8, <1>9, <1>10, <1>11, <1>12
     DEF Next, Device

\* The invariant of the device, from which the theorems below follow.
LEMMA DeviceInvariant == Spec => []DeviceInv
  BY DeviceInit, DeviceStep, PTL DEF Spec

\* The model of the device is well-typed, for every size of the pool, every number of
\* retries and every set of failures; so a TLS context is never freed that
\* was not made, and handleMQTTCreate tries no more often than it may.
THEOREM DeviceTypeCorrect == Spec => []TypeOK
<1>1. DeviceInv => TypeOK
  BY DEF DeviceInv
<1>2. QED
  BY <1>1, DeviceInvariant, PTL

\* Blocks and hardware sockets never get out of step (wizSystem.c, sockPoolAlloc and
\* sockPoolFree), although NetworkConnect leaves pSockPool pointing to a block it
\* freed and handleMQTTDestroy frees it once more.
THEOREM PoolStaysInStep == Spec => []PoolInStep
<1>1. DeviceInv => PoolInStep
  BY DEF DeviceInv
<1>2. QED
  BY <1>1, DeviceInvariant, PTL

\* The connection the agent uses is on a socket its block owns.
THEOREM ConnectionIsOwned == Spec => []ConnectionOwned
<1>1. DeviceInv => ConnectionOwned
  BY DEF DeviceInv
<1>2. QED
  BY <1>1, DeviceInvariant, PTL

\* MARun never takes its branch that reconnects (MA.c:603): every recovery is a
\* return to the main loop.
THEOREM RecoveryGoesThroughMain == Spec => []RecoveryThroughMain
<1>1. DeviceInv => RecoveryThroughMain
  BY DEF DeviceInv, CallerInv, RecoveryThroughMain
<1>2. QED
  BY <1>1, DeviceInvariant, PTL

-----------------------------------------------------------------------------
(* The device, as long as every handshake that begins succeeds and every DNS    *)
(* query is answered for the name it asks.                                      *)

\* A pool with nothing in use has a block to give, wherever its index stands.
LEMMA EmptyGives ==
    ASSUME NEW p \in PoolType, Allocated(p) = {}
    PROVE  sockPoolAlloc(p) # NULL
<1>1. p.currentIndex \in FreeBlocks(p)
  BY SizesAreNat DEF PoolType, Allocated, FreeBlocks, Blocks
<1>2. {b \in FreeBlocks(p) : b >= p.currentIndex} # {}
  BY <1>1 DEF PoolType, Blocks
<1>3. {b \in FreeBlocks(p) : b >= p.currentIndex} \in SUBSET (0..(PoolSize - 1))
  BY DEF FreeBlocks, Blocks
<1>4. PoolSize - 1 \in Int
  BY SizesAreNat
<1>5. Smallest({b \in FreeBlocks(p) : b >= p.currentIndex})
        \in {b \in FreeBlocks(p) : b >= p.currentIndex}
  <2> DEFINE S == {b \in FreeBlocks(p) : b >= p.currentIndex}
  <2>1. S # {} /\ S \in SUBSET (0..(PoolSize - 1))
    BY <1>2, <1>3
  <2> HIDE DEF S
  <2>2. Smallest(S) \in S
    BY <1>4, <2>1, SmallestExists
  <2>3. QED
    BY <2>2 DEF S
<1>6. QED
  BY <1>1, <1>2, <1>5, NullAssumption DEF sockPoolAlloc, osPoolAlloc, FreeBlocks

\* A block taken is one more in use; given back, the pool is as it was.
LEMMA BlocksInUse ==
    ASSUME NEW p \in PoolType, PoolConsistent(p), sockPoolAlloc(p) # NULL
    PROVE  LET c == sockPoolAlloc(p)
               q == AfterAlloc(p)
           IN  /\ Allocated(q) = Allocated(p) \cup {c}
               /\ Allocated(sockPoolFree(q, c)) = Allocated(p)
<1> DEFINE c == osPoolAlloc(p)
           q == AfterAlloc(p)
<1>1. c # NULL /\ c \in Blocks /\ ~p.markers[c]
  BY AllocResult DEF sockPoolAlloc
<1>2. PICK s \in Sockets \ p.SockStatus :
        q = [p EXCEPT !.markers[c] = TRUE, !.currentIndex = c, !.sockNo[c] = s,
                      !.SockStatus = p.SockStatus \cup {s}]
  BY <1>1, AllocEffect
<1>3. q \in PoolType
  BY AllocKeeps
<1> HIDE DEF c, q
<1>4. Allocated(q) = Allocated(p) \cup {c} /\ c \notin Allocated(p)
  BY <1>1, <1>2 DEF PoolType, Allocated
<1>5. Allocated(sockPoolFree(q, c)) = Allocated(q) \ {c}
  <2>1. sockPoolFree(q, c).markers = [q.markers EXCEPT ![c] = FALSE]
    BY <1>1, <1>3 DEF sockPoolFree, PoolType
  <2>2. QED
    BY <1>1, <1>3, <2>1 DEF PoolType, Allocated
<1>6. QED
  BY <1>4, <1>5 DEF c, q, sockPoolAlloc

\* There is a client, and one TLS context, exactly while MARun is connecting or
\* connected; nothing is in use but the connection's block, and a client that is
\* about to be destroyed has one to its name.
Connecting == pc \in {"resolve", "open", "mqtt", "subscribe", "loop", "destroy"}
              \/ (pc = "ethernet" /\ caller = "MARun")
WithSocket == pc \in {"mqtt", "subscribe", "loop", "destroy"}

LeftInv ==
    /\ client => Connecting /\ contexts = 1
    /\ ~client => ~Connecting /\ contexts = 0
    /\ WithSocket => pSockPool # NULL /\ Allocated(pool) \subseteq {pSockPool}
    /\ ~WithSocket => Allocated(pool) = {}
    /\ pc \notin {"crashed", "waitDns"}

LEMMA LeftInit == Init => (~harsh => LeftInv)
  BY DEF Init, LeftInv, Connecting, WithSocket, EmptyPool, Allocated

LEMMA LeftStep == DeviceInv /\ (~harsh => LeftInv) /\ [Next]_vars => (~harsh => LeftInv)'
<1> SUFFICES ASSUME DeviceInv, ~harsh => LeftInv, [Next]_vars, ~harsh' PROVE LeftInv'
  OBVIOUS
<1>f. ~harsh
  BY HarshLasts, Zenon
<1>g. ~\E kind \in Harsh : Fault(kind)
  BY Zenon DEF Fault
<1>0. /\ pool \in PoolType /\ PoolConsistent(pool) /\ pSockPool \in Blocks \cup {NULL}
      /\ caller \in {"main", "MARun"} /\ (pc = "ntp" => caller = "main")
      /\ (pc \in {"start", "resolve", "open", "mqtt", "subscribe", "loop", "destroy"}
            => caller = "MARun")
      /\ LeftInv
      /\ ~Fault("handshake") /\ ~Fault("dnsLost") /\ ~Fault("dnsMalformed")
  BY <1>f, <1>g DEF DeviceInv, TypeOK, PoolInStep, CallerInv, Harsh
<1> USE DEF LeftInv, Connecting, WithSocket, netVars, agentVars, Fine
<1>a. ~WithSocket => sockPoolAlloc(pool) # NULL
  BY <1>0, EmptyGives
<1>b. ~WithSocket => Allocated(sockPoolFree(AfterAlloc(pool), sockPoolAlloc(pool))) = {}
  BY <1>0, <1>a, BlocksInUse
<1>c. ~WithSocket => Allocated(AfterAlloc(pool)) = {sockPoolAlloc(pool)}
  BY <1>0, <1>a, BlocksInUse
<1>1. CASE EthernetManager
  BY <1>0, <1>1, <1>b DEF EthernetManager, Borrow
<1>2. CASE SetTime
  BY <1>0, <1>2, <1>b DEF SetTime, Borrow
<1>3. CASE Start
  BY <1>0, <1>3 DEF Start, CreateClient
<1>4. CASE Resolve
  BY <1>0, <1>4, <1>b DEF Resolve, Borrow
<1>5. CASE Open
  <2>1. CASE Fine /\ NetworkConnect(TRUE) /\ pc' = "mqtt" /\ UNCHANGED retry
    BY <1>0, <1>5, <1>a, <1>c, <2>1 DEF Open, NetworkConnect
  <2>2. CASE (Fault("connect") \/ Fault("dnsError")) /\ NetworkConnect(FALSE) /\ AttemptFails
    BY <1>0, <1>5, <1>a, <1>b, <2>2
       DEF Open, NetworkConnect, ConnectError, AttemptFails, AfterFailure
  <2>3. QED
    BY <1>0, <1>5, <2>1, <2>2 DEF Open
<1>6. CASE NullPointer
  BY <1>6, <1>a DEF NullPointer, Exhausted
<1>7. CASE ConnectMqtt
  BY <1>0, <1>7 DEF ConnectMqtt, AfterFailure
<1>8. CASE Subscribe
  BY <1>0, <1>8 DEF Subscribe, AfterFailure
<1>9. CASE Loop
  <2>1. mStep = "PROCESS_TELEMETRY" /\ tpMQTTIsConnected
    BY <1>0, <1>9 DEF Loop, tpMQTTIsConnected, IsNetworkConnected, DeviceInv, LoopInv
  <2>2. pc' \in {"loop", "destroy"} /\ caller' = caller
    BY <1>9, <2>1 DEF Loop, LoopNext
  <2>3. QED
    BY <1>0, <1>9, <2>2 DEF Loop
<1>10. CASE Destroy
  <2>1. client /\ pSockPool # NULL /\ caller = "MARun" /\ contexts = 1
    BY <1>0, <1>10 DEF Destroy
  <2>2. pool' = sockPoolFree(pool, pSockPool) /\ contexts' = contexts - 1
    BY <1>10, <2>1 DEF Destroy, IsNetworkConnected, NetworkDisconnectTLS
  <2>3. Allocated(pool') = {}
    <3>1. pool'.markers = [pool.markers EXCEPT ![pSockPool] = FALSE]
      BY <1>0, <2>1, <2>2 DEF sockPoolFree, PoolType
    <3>2. Allocated(pool) \subseteq {pSockPool} /\ pSockPool \in Blocks
      BY <1>0, <1>10, <2>1 DEF Destroy
    <3>3. QED
      BY <1>0, <3>1, <3>2 DEF Allocated, PoolType
  <2>4. pc' = "ethernet" /\ caller' = "main" /\ client' = FALSE
    BY <1>10, <2>1 DEF Destroy
  <2>5. QED
    BY <2>1, <2>2, <2>3, <2>4
<1>11. CASE LinkDies
  BY <1>0, <1>11 DEF LinkDies
<1>12. CASE UNCHANGED vars
  BY <1>12 DEF vars
<1>13. QED
  BY <1>1, <1>2, <1>3, <1>4, <1>5, <1>6, <1>7, <1>8, <1>9, <1>10, <1>11, <1>12
     DEF Next, Device

LEMMA LeftInvariant == Spec => [](~harsh => LeftInv)
<1>1. QED
  BY LeftStep, LeftInit, DeviceInvariant, PTL DEF Spec

\* The pool is never found empty by DHCPTimeOut, DNSTimeOut, NTPSocket or
\* NetworkConnect, none of which tests the pointer, as long as no handshake fails and
\* every DNS query is answered: a pool of one block would do.
THEOREM PoolAlwaysSuffices == Spec => []PoolSuffices
<1>1. (~harsh => LeftInv) => PoolSuffices
  BY DEF LeftInv, PoolSuffices
<1>2. QED
  BY <1>1, LeftInvariant, PTL

\* Whatever else failed, MARun leaves no block and no TLS context behind when it
\* returns to the main loop (handleMQTTDestroy, NetworkDisconnectTLS).
THEOREM NothingIsLeft == Spec => []NothingLeft
<1>1. (~harsh => LeftInv) => NothingLeft
  BY DEF LeftInv, NothingLeft, WithSocket
<1>2. QED
  BY <1>1, LeftInvariant, PTL
=============================================================================
