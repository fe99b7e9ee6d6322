------------------------------ MODULE SockPool ------------------------------
(***************************************************************************)
(* The socket pool of the FreeRTOS port, wizSystem.c: a few buffers from a *)
(* CMSIS memory pool, each tied to one of the hardware sockets of the chip *)
(* through the bit mask SockStatus.  DHCP, DNS, NTP and MQTT share it.     *)
(*                                                                         *)
(* A pool is a record:                                                     *)
(*   markers, currentIndex  the memory pool: block -> allocated?           *)
(*   sockNo                 block -> the number its sockNo field holds     *)
(*   SockStatus             the set of sockets whose bit is set            *)
(* The operators return the pool after the call.                           *)
(***************************************************************************)
EXTENDS Integers

CONSTANTS PoolSize,  \* blocks of NetMemPool (3)
          SockNum,   \* _WIZCHIP_SOCK_NUM_ (8)
          NULL

Blocks == 0..(PoolSize - 1)
Sockets == 0..(SockNum - 1)

ASSUME SizesAssumption == PoolSize \in Nat \ {0} /\ SockNum \in Nat /\ PoolSize <= SockNum
ASSUME NullAssumption == NULL \notin Blocks

PoolType == [markers : [Blocks -> BOOLEAN], currentIndex : Blocks,
             sockNo : [Blocks -> Sockets], SockStatus : SUBSET Sockets]

EmptyPool == [markers |-> [b \in Blocks |-> FALSE], currentIndex |-> 0,
              sockNo |-> [b \in Blocks |-> 0], SockStatus |-> {}]

Smallest(S) == CHOOSE x \in S : \A y \in S : x <= y

\* osPoolAlloc of the CMSIS layer looks from currentIndex to the end of the pool
\* and then, because of how it wraps the index, at block 0 only.
FreeBlocks(pool) == {b \in Blocks : ~pool.markers[b] /\ (b >= pool.currentIndex \/ b = 0)}
osPoolAlloc(pool) ==
    LET above == {b \in FreeBlocks(pool) : b >= pool.currentIndex}
    IN IF FreeBlocks(pool) = {} THEN NULL
       ELSE IF above # {} THEN Smallest(above) ELSE 0

\* sockPoolAlloc: the block it returns, NULL when the memory pool has none ...
sockPoolAlloc(pool) == osPoolAlloc(pool)

\* ... and what it does to the pool: the lowest socket that is free is taken.
AfterAlloc(pool) ==
    LET b == osPoolAlloc(pool)
        s == Smallest(Sockets \ pool.SockStatus)
    IN IF b = NULL THEN pool
       ELSE [pool EXCEPT !.markers[b] = TRUE, !.currentIndex = b,
                         !.sockNo[b] = s, !.SockStatus = @ \cup {s}]

\* leaves the bit of the socket set
sockPoolFree_xKeepsSocket(pool, b) ==
    IF b = NULL THEN pool ELSE [pool EXCEPT !.markers[b] = FALSE]

\* sockPoolFree.  Nothing tells it whether the block is allocated.
sockPoolFree(pool, b) ==
    IF b = NULL THEN pool
    ELSE [pool EXCEPT !.markers[b] = FALSE, !.SockStatus = @ \ {pool.sockNo[b]}]

Allocated(pool) == {b \in Blocks : pool.markers[b]}

\* Every block in use has a socket of its own, and no socket is held by none.
PoolConsistent(pool) ==
    /\ pool.SockStatus = {pool.sockNo[b] : b \in Allocated(pool)}
    /\ \A a, b \in Allocated(pool) : pool.sockNo[a] = pool.sockNo[b] => a = b
=============================================================================
