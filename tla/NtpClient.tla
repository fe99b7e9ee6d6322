------------------------------ MODULE NtpClient ------------------------------
(***************************************************************************)
(* NTPClient.c of the FreeRTOS port (those of mbed and ThreadX differ):    *)
(* the device asks a time server by UDP, and computes from four time       *)
(* stamps by how much its clock is wrong, in unsigned integers of 32 bits. *)
(*                                                                         *)
(* Time passes in ticks; the clocks and the time stamps show whole         *)
(* seconds, modulo 2^32.  Requests and replies may be lost or late.  Every *)
(* request leaves from the same port, so that the answer to a request that *)
(* was given up is taken by the next one.                                  *)
(***************************************************************************)
EXTENDS Integers

CONSTANTS Half,        \* half the range of a time stamp (2^31 seconds)
          Second,      \* ticks in a second
          Timeout,     \* ticks recvfrom waits (two seconds)
          NTP_RETRY,   \* tries of the main loop (10)
          Boot,        \* what the device's clock may show at first, in ticks
          MaxSkew,     \* by how much the clock may be wrong, in ticks
          MaxTime      \* bound, in ticks

Range == 2 * Half   \* of a time stamp

ASSUME NtpAssumption ==
    /\ Half \in Nat \ {0} /\ Second \in Nat \ {0} /\ Timeout \in Nat
    /\ NTP_RETRY \in Nat /\ Boot \subseteq Nat /\ MaxSkew \in Nat /\ MaxTime \in Nat

VARIABLES now, skew, boot,
          pc,        \* "send", "wait", "done"
          loop_cnt,  \* tries left
          sentAt,    \* when the request being waited for was sent
          packets,   \* requests, and replies, under way
          gOffset,
          last       \* of gOffset: when its request was sent and its reply read, and Straddles

vars == <<now, skew, boot, pc, loop_cnt, sentAt, packets, gOffset, last>>

Seconds(ticks) == (ticks \div Second) % Range
time == Seconds(boot + now)
ServerTime == Seconds(boot + now + skew)

\* stage is "request", "serving", "reply"; the stamps that are not set yet are 0.
Request == [stage |-> "request", at |-> now, origTm |-> time, rxTm |-> 0, txTm |-> 0, stratum |-> 0]

Init ==
    /\ now = 0 /\ skew \in -MaxSkew..MaxSkew /\ boot \in Boot
    /\ pc = "send" /\ loop_cnt = NTP_RETRY /\ sentAt = 0
    /\ packets = {}
    /\ gOffset = 0 /\ last = [sent |-> 0, read |-> 0, straddles |-> FALSE]

-----------------------------------------------------------------------------
\* NTPSocket, and setTime up to the request.
Send ==
    /\ pc = "send" /\ loop_cnt > 0
    /\ loop_cnt' = loop_cnt - 1
    /\ packets' = packets \cup {Request}
    /\ sentAt' = now
    /\ pc' = "wait"
    /\ UNCHANGED <<now, skew, boot, gOffset, last>>

\* A difference of two time stamps, both uint32_t: it wraps before it is widened.
Difference(a, b) == (a - b) % Range

\* the conversion to int keeps the value
ToInt_xUnsigned(x) == x % Range

\* int64_t to int.
ToInt(x) == IF x % Range < Half THEN x % Range ELSE (x % Range) - Range

\* subtracts the time stamps of the way back the wrong way round
Offset_xSwapped(p, dest) ==
    ToInt((Difference(p.rxTm, p.origTm) + Difference(dest, p.txTm)) \div 2)

Offset(p, dest) ==
    ToInt((Difference(p.rxTm, p.origTm) + Difference(p.txTm, dest)) \div 2)

\* One difference is negative, the other is not: the clocks differ by less than the
\* time the packets take, or the seconds are cut off in different places.
Straddles(p, dest) ==
    (ToInt(Difference(p.rxTm, p.origTm)) < 0) # (ToInt(Difference(p.txTm, dest)) < 0)

\* A reply, whichever request it answers.  Stratum 0 is a refusal.
Receive(p) ==
    /\ pc = "wait" /\ p.stage = "reply"
    /\ packets' = packets \ {p}
    /\ IF p.stratum # 0
       THEN /\ gOffset' = Offset(p, time)
            /\ last' = [sent |-> p.at, read |-> now, straddles |-> Straddles(p, time)]
            /\ pc' = "done"
       ELSE pc' = "send" /\ UNCHANGED <<gOffset, last>>
    /\ UNCHANGED <<now, skew, boot, loop_cnt, sentAt>>

TimesOut ==
    /\ pc = "wait" /\ now - sentAt >= Timeout
    /\ pc' = "send"
    /\ UNCHANGED <<now, skew, boot, loop_cnt, sentAt, packets, gOffset, last>>

\* MARun ends some day, and the main loop asks again.
NextRound ==
    /\ pc = "done" \/ (pc = "send" /\ loop_cnt = 0)
    /\ pc' = "send" /\ loop_cnt' = NTP_RETRY
    /\ UNCHANGED <<now, skew, boot, sentAt, packets, gOffset, last>>

setTime == Send \/ (\E p \in packets : Receive(p)) \/ TimesOut \/ NextRound

-----------------------------------------------------------------------------
\* The server and the network (external).
ServerReceives(p) ==
    /\ p.stage = "request"
    /\ packets' = (packets \ {p}) \cup {[p EXCEPT !.stage = "serving", !.rxTm = ServerTime]}
    /\ UNCHANGED <<now, skew, boot, pc, loop_cnt, sentAt, gOffset, last>>

ServerReplies(p, stratum) ==
    /\ p.stage = "serving"
    /\ packets' = (packets \ {p})
          \cup {[p EXCEPT !.stage = "reply", !.txTm = ServerTime, !.stratum = stratum]}
    /\ UNCHANGED <<now, skew, boot, pc, loop_cnt, sentAt, gOffset, last>>

Lost(p) ==
    /\ packets' = packets \ {p}
    /\ UNCHANGED <<now, skew, boot, pc, loop_cnt, sentAt, gOffset, last>>

Tick ==
    /\ now < MaxTime
    /\ pc = "wait" => now - sentAt < Timeout
    /\ now' = now + 1
    /\ UNCHANGED <<skew, boot, pc, loop_cnt, sentAt, packets, gOffset, last>>

Network == \E p \in packets : ServerReceives(p) \/ Lost(p) \/ \E s \in {0, 1} : ServerReplies(p, s)

Next == setTime \/ Network \/ Tick
Spec == Init /\ [][Next]_vars

-----------------------------------------------------------------------------
\* The shape of the state; the offset is an int.
TypeOK ==
    /\ now \in 0..MaxTime /\ skew \in -MaxSkew..MaxSkew /\ boot \in Boot
    /\ pc \in {"send", "wait", "done"} /\ loop_cnt \in 0..NTP_RETRY /\ sentAt \in 0..now
    /\ \A p \in packets : p.at \in 0..now
    /\ gOffset \in -Half..(Half - 1)
    /\ last \in [sent : 0..now, read : 0..now, straddles : BOOLEAN]

\* How far gOffset may be from the truth: half of the time between request and reply,
\* and what three divisions cut off.
Distance(a, b) == IF a < b THEN b - a ELSE a - b
Elapsed == last.read - last.sent
Accurate == 2 * Distance(gOffset * Second, skew) <= Elapsed + 3 * Second

\* The offset is as good as NTP allows although every difference is taken in unsigned
\* integers, also across the wrap of the time stamps, for a clock that is ahead (both
\* differences wrap, and the conversion to int undoes it), and for a reply to a request
\* that was given up.  Only two differences of different signs spoil it, and only a clock
\* that was as right as the packets took to travel has these.
OffsetRight ==
    pc = "done" => Accurate \/ (last.straddles /\ Distance(skew, 0) < Elapsed + Second)

\* The clock is wrong by less than half the range of a time stamp (68 years), by so much that
\* no stamp of the server is half a range from one of the device.
ClocksAgree == MaxSkew + MaxTime <= (Half - 1) * Second
=============================================================================
