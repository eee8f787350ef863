-------------------------------- MODULE Net --------------------------------
(***************************************************************************)
(* The host side of the network card (network/net.c): a TAP device, a      *)
(* thread that reads it and one that writes it, and the ring of buffers in *)
(* which the emulation leaves the packets to be written.                   *)
(*                                                                         *)
(* "Emulation" is the thread that runs the machine: it sends a packet from *)
(* a write to a port, opens the device again at every reset and closes it  *)
(* at the end.  Nothing locks the ring: the emulation moves writepos, the  *)
(* write thread readpos, and an event wakes the write thread.              *)
(*                                                                         *)
(* A packet is a value; the lengths tested by sendDataToBuffer are those   *)
(* of packets that fit.  What the read thread does with a packet is the    *)
(* card's business: it comes back from there in one step here, or never.   *)
(* A thread that has not ended ten seconds after a close is killed.  The   *)
(* read thread may have to be, when the card does not let it go; that the  *)
(* write thread can be killed is left out: it is shown to end by itself.   *)
(***************************************************************************)
EXTENDS Integers, Sequences

CONSTANTS
    ARYLEN,     \* NET_ARYLEN, 128 in the code: the buffers of the ring
    Packets,    \* what the guest sends
    NoPacket    \* what an unused buffer holds

ASSUME NetAssumption ==
    /\ ARYLEN \in Nat /\ ARYLEN > 1
    /\ NoPacket \notin Packets

VARIABLES
    membuf,     \* the buffers
    readpos,    \* np2net_membuf_readpos
    writepos,   \* np2net_membuf_writepos
    event,      \* np2net_thread_eventhandle is signalled; a wait resets it
    threadexit, \* np2net_hThreadexit
    opened,     \* np2net_hTap is valid
    emulation,  \* where the emulation thread is
    sending,    \* the packet it sends
    ending,     \* it closes the device at the end of the program
    threadW,    \* where the write thread is, "none" if there is none
    threadR,    \* where the read thread is
    tap         \* what the device took last, NoPacket if it refused it

ring == <<membuf, readpos, writepos>>
threads == <<threadW, threadR>>
netvars == <<ring, event, threadexit, opened, emulation, sending, ending, threads, tap>>

Slot == 0 .. ARYLEN - 1

\* Faulty variant: the ring does not wrap.
FollowingOn(pos) == pos + 1

Following(pos) == (pos + 1) % ARYLEN

NetInit ==
    /\ membuf = [s \in Slot |-> NoPacket]
    /\ readpos = 0 /\ writepos = 0
    /\ event = FALSE /\ threadexit = FALSE /\ opened = FALSE
    /\ emulation = "idle" /\ sending = NoPacket /\ ending = FALSE
    /\ threadW = "none" /\ threadR = "none"
    /\ tap = NoPacket

-----------------------------------------------------------------------------
(***************************************************************************)
(* The emulation sends: sendDataToBuffer                                   *)
(***************************************************************************)

\* Faulty variant: all buffers may be in use.
RingFullNever == FALSE

\* One buffer stays free, so that a full ring differs from an empty one.
RingFull == readpos = Following(writepos)

\* A packet that finds the ring full is dropped.
Send(p) ==
    /\ emulation = "idle"
    /\ ~ RingFull
    /\ emulation' = "copy" /\ sending' = p
    /\ UNCHANGED <<ring, event, threadexit, opened, ending, threads, tap>>

Copy ==
    /\ emulation = "copy"
    /\ membuf' = [membuf EXCEPT ![writepos] = sending]
    /\ emulation' = "advance" /\ sending' = NoPacket
    /\ UNCHANGED <<readpos, writepos, event, threadexit, opened, ending, threads, tap>>

Advance ==
    /\ emulation = "advance"
    /\ writepos' = Following(writepos)
    /\ emulation' = "signal"
    /\ UNCHANGED <<membuf, readpos, event, threadexit, opened, sending, ending, threads, tap>>

Signal ==
    /\ emulation = "signal"
    /\ event' = TRUE
    /\ emulation' = "idle"
    /\ UNCHANGED <<ring, threadexit, opened, sending, ending, threads, tap>>

-----------------------------------------------------------------------------
(***************************************************************************)
(* The write thread: np2net_ThreadFuncW and doWriteTap                     *)
(***************************************************************************)

WriterAt(from, to) == threadW = from /\ threadW' = to

StepsOfW == <<membuf, writepos, threadexit, opened, emulation, sending, ending, threadR>>

Woken ==
    /\ event
    /\ WriterAt("wait", "woken")
    /\ event' = FALSE
    /\ UNCHANGED <<StepsOfW, readpos, tap>>

TestExit ==
    /\ WriterAt("woken", IF threadexit THEN "ended" ELSE "drain")
    /\ UNCHANGED <<StepsOfW, readpos, event, tap>>

TestEmpty ==
    /\ WriterAt("drain", IF readpos = writepos THEN "wait" ELSE "packet")
    /\ UNCHANGED <<StepsOfW, readpos, event, tap>>

TestExitInside ==
    /\ WriterAt("packet", IF threadexit THEN "wait" ELSE "write")
    /\ UNCHANGED <<StepsOfW, readpos, event, tap>>

\* WriteFile takes the packet or refuses it at once ...
WriteFile ==
    /\ WriterAt("write", "written")
    /\ tap' \in {membuf[readpos], NoPacket}
    /\ UNCHANGED <<StepsOfW, readpos, event>>

\* ... or goes on with it,
WriteFilePending ==
    /\ WriterAt("write", "pending")
    /\ UNCHANGED <<StepsOfW, readpos, event, tap>>

\* until it has taken it from the buffer, or failed.
WriteCompletes ==
    /\ WriterAt("pending", "written")
    /\ tap' \in {membuf[readpos], NoPacket}
    /\ UNCHANGED <<StepsOfW, readpos, event>>

\* Faulty variant: the thread waits for the device whatever happens.
MayAbandonNever == FALSE

\* The thread gives up waiting when it has to end.
MayAbandon == threadexit

Abandon ==
    /\ MayAbandon
    /\ WriterAt("pending", "written")
    /\ tap' \in {membuf[readpos], NoPacket}
    /\ UNCHANGED <<StepsOfW, readpos, event>>

\* Faulty variant: one packet for a wake-up.
NextPacketOnce ==
    /\ WriterAt("written", "wait")
    /\ readpos' = Following(readpos)
    /\ UNCHANGED <<StepsOfW, event, tap>>

NextPacket ==
    /\ WriterAt("written", "drain")
    /\ readpos' = Following(readpos)
    /\ UNCHANGED <<StepsOfW, event, tap>>

ThreadFuncW ==
    \/ Woken \/ TestExit \/ TestEmpty \/ TestExitInside
    \/ WriteFile \/ WriteFilePending \/ Abandon \/ NextPacket

-----------------------------------------------------------------------------
(***************************************************************************)
(* The read thread: np2net_ThreadFuncR                                     *)
(***************************************************************************)

ReaderAt(from, to) ==
    /\ threadR = from /\ threadR' = to
    /\ UNCHANGED <<ring, event, threadexit, opened, emulation, sending, ending, threadW, tap>>

ReadTestExit == ReaderAt("test", IF threadexit THEN "ended" ELSE "read")

\* A packet comes, at once or later, and is handed to the card ...
ReadFile == ReaderAt("read", "receive")

\* ... which may be done with it or not: after a reset in the middle of a
\* frame its loop has no end.
Received == ReaderAt("receive", "test")

\* The device fails, or the thread has to end while it waits.
ReadFails == ReaderAt("read", "test")
ReadAbandoned == threadexit /\ ReaderAt("read", "test")

ThreadFuncR == ReadTestExit \/ ReadAbandoned

-----------------------------------------------------------------------------
(***************************************************************************)
(* The emulation opens and closes the device: np2net_reset, np2net_openTAP,*)
(* np2net_closeTAP, np2net_shutdown                                        *)
(***************************************************************************)

EmulationAt(from, to) ==
    /\ emulation = from /\ emulation' = to
    /\ UNCHANGED <<membuf, writepos, sending, tap>>

\* A reset opens the device again, after closing the one that is open.
Reset ==
    /\ EmulationAt("idle", IF opened THEN "stop" ELSE "open")
    /\ UNCHANGED <<readpos, event, threadexit, opened, ending, threads>>

\* The end of the program; without a device the flag stays set.
Shutdown ==
    /\ EmulationAt("idle", IF opened THEN "stop" ELSE "down")
    /\ threadexit' = TRUE /\ event' = TRUE
    /\ ending' = TRUE
    /\ UNCHANGED <<readpos, opened, threads>>

Stop ==
    /\ EmulationAt("stop", "wake")
    /\ threadexit' = TRUE
    /\ UNCHANGED <<readpos, event, opened, ending, threads>>

Wake ==
    /\ EmulationAt("wake", "joinR")
    /\ event' = TRUE
    /\ UNCHANGED <<readpos, threadexit, opened, ending, threads>>

JoinR ==
    /\ threadR = "ended"
    /\ EmulationAt("joinR", "joinW")
    /\ UNCHANGED <<readpos, event, threadexit, opened, ending, threads>>

\* Ten seconds after a close the read thread is killed if the card keeps it.
TerminateR ==
    /\ emulation = "joinR"
    /\ ReaderAt("receive", "ended")

\* With both threads gone the ring is emptied and the device closed.
JoinW ==
    /\ threadW = "ended"
    /\ EmulationAt("joinW", IF ending THEN "down" ELSE "open")
    /\ readpos' = writepos
    /\ threadexit' = FALSE
    /\ opened' = FALSE
    /\ threadW' = "none" /\ threadR' = "none"
    /\ UNCHANGED <<event, ending>>

\* The device opens, and two threads start ...
OpenTAP ==
    /\ EmulationAt("open", "card")
    /\ opened' = TRUE
    /\ threadW' = "wait" /\ threadR' = "test"
    /\ UNCHANGED <<readpos, event, threadexit, ending>>

\* ... or does not; the rest of the reset follows.
OpenFails ==
    /\ EmulationAt("open", "card")
    /\ UNCHANGED <<readpos, event, threadexit, opened, ending, threads>>

CardReset ==
    /\ EmulationAt("card", "idle")
    /\ UNCHANGED <<readpos, event, threadexit, opened, ending, threads>>

Down ==
    /\ emulation = "down"
    /\ UNCHANGED netvars

\* What the emulation does once it has begun; it ends by itself.
Continue ==
    \/ Copy \/ Advance \/ Signal
    \/ Stop \/ Wake \/ JoinR \/ JoinW \/ OpenTAP \/ OpenFails

Begin == (\E p \in Packets : Send(p)) \/ Reset \/ Shutdown

-----------------------------------------------------------------------------
NetNext ==
    \/ Begin \/ Continue \/ Down
    \/ ThreadFuncW \/ WriteCompletes
    \/ ThreadFuncR \/ ReadFails

Next == NetNext \/ CardReset \/ ReadFile \/ Received \/ TerminateR

Spec == NetInit /\ [][Next]_netvars

\* Threads are scheduled and a wait with a timeout ends; the device need never
\* answer, nor the card let go of the read thread, nor the guest send.
Fairness ==
    /\ WF_netvars(Continue \/ CardReset)
    /\ WF_netvars(TerminateR)
    /\ WF_netvars(ThreadFuncW)
    /\ WF_netvars(ThreadFuncR)

FairSpec == Spec /\ Fairness

-----------------------------------------------------------------------------
(***************************************************************************)
(* Properties                                                              *)
(***************************************************************************)

\* The positions stay inside the ring and every thread is at one of its steps.
TypeOK ==
    /\ membuf \in [Slot -> Packets \cup {NoPacket}]
    /\ readpos \in Slot /\ writepos \in Slot
    /\ event \in BOOLEAN /\ threadexit \in BOOLEAN /\ opened \in BOOLEAN
    /\ ending \in BOOLEAN
    /\ emulation \in {"idle", "copy", "advance", "signal", "stop", "wake",
                      "joinR", "joinW", "open", "card", "down"}
    /\ sending \in Packets \cup {NoPacket}
    /\ threadW \in {"none", "wait", "woken", "drain", "packet", "write",
                    "pending", "written", "ended"}
    /\ threadR \in {"none", "test", "read", "receive", "ended"}
    /\ tap \in Packets \cup {NoPacket}

\* The packets the ring holds, from readpos on
Count == (writepos - readpos) % ARYLEN
Held == [i \in 1 .. Count |-> membuf[(readpos + i - 1) % ARYLEN]]

\* Without a lock, with a device that takes the packet out of the buffer
\* while the guest goes on sending, and over any number of resets, packets
\* reach the device in the order they were accepted, none twice, none torn.
Promised == INSTANCE PacketQueue WITH
    CAPACITY <- ARYLEN - 1,
    open <- opened,
    waiting <- IF threadW = "written" THEN Tail(Held) ELSE Held,
    written <- tap

ImplementsPacketQueue == Promised!Spec

\* A wake-up is never lost: while the device answers, the first packet of
\* the ring does not stay there, whenever it was left, also before the
\* device was opened.
HeadIsWritten ==
    []<>(threadW # "pending") =>
        \A s \in Slot :
            (opened /\ readpos = s /\ readpos # writepos) ~> readpos # s \/ ~ opened

\* Closing the device ends the write thread by itself, also while the device
\* does not answer, and the read thread too, if only by the timeout where the
\* card keeps it: the emulation comes back from a reset, and the program ends.
CloseEnds == emulation # "idle" ~> emulation \in {"idle", "down"}
=============================================================================
