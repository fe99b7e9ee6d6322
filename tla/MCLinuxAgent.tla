---------------------------- MODULE MCLinuxAgent ----------------------------
(* Small instances of LinuxAgent for TLC. *)
EXTENDS LinuxAgent

CONSTANTS h1, h2, off, red, green

\* Two addresses, so that a new client may or may not get the old one's; three
\* colours, so that a stale colour differs from Off and from the new one.
MCHandles == {h1, h2}
MCColors == {off, red, green}

\* Which calls may fail before they return.
AllErrors == {"connect", "subscribe"}
=============================================================================
