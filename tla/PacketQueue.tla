---------------------------- MODULE PacketQueue ----------------------------
(***************************************************************************)
(* What the guest may expect of the network card's way out: the packets it *)
(* accepted reach the device one after the other and in order, each whole. *)
(* One the device refuses is gone, and so are those that still wait when   *)
(* the device is closed.  What is sent while there is no device waits for  *)
(* the next one.                                                           *)
(***************************************************************************)
EXTENDS Integers, Sequences

CONSTANTS
    Packets,    \* what the guest sends
    NoPacket,   \* not a packet
    CAPACITY    \* how many packets wait

VARIABLES
    open,       \* there is a device
    waiting,    \* the packets accepted and not yet written
    written     \* what the device took last, NoPacket if it refused it

vars == <<open, waiting, written>>

Init == open = FALSE /\ waiting = << >> /\ written = NoPacket

\* The guest sends a packet and there is room for it.
Accept(p) ==
    /\ Len(waiting) < CAPACITY
    /\ waiting' = Append(waiting, p)
    /\ UNCHANGED <<open, written>>

\* The device takes or refuses the first packet.
Write ==
    /\ open
    /\ waiting # << >>
    /\ waiting' = Tail(waiting)
    /\ written' \in {Head(waiting), NoPacket}
    /\ UNCHANGED open

Open ==
    /\ open' = TRUE
    /\ UNCHANGED <<waiting, written>>

Close ==
    /\ open
    /\ open' = FALSE
    /\ waiting' = << >>
    /\ UNCHANGED written

Next == (\E p \in Packets : Accept(p)) \/ Write \/ Open \/ Close

Spec == Init /\ [][Next]_vars
=============================================================================
