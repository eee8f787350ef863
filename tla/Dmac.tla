-------------------------------- MODULE Dmac --------------------------------
(***************************************************************************)
(* One channel of the DMA controller (io/dmac.c) and the loop of the CPU   *)
(* that moves its bytes (ia32() and dmax86).                               *)
(*                                                                         *)
(* The CPU looks at the channels only when it enters its loop: if none is  *)
(* at work it executes instructions to the end of the period without       *)
(* looking again, else it moves one byte after each instruction.  So       *)
(* whoever starts or stops a channel has to force it out of the loop.      *)
(*                                                                         *)
(* The operators below are parts of the actions of the device that uses    *)
(* the channel.  Addresses, pages and the read-back of the registers are   *)
(* left out; the other channels belong to other devices.                   *)
(***************************************************************************)
EXTENDS Naturals

CONSTANT LENGMOD     \* the range of leng.w, 2^16 in the code

ASSUME DmacAssumption == LENGMOD \in Nat \ {0}

VARIABLES
    mask,        \* the bit of dmac.mask: the guest has masked the channel
    ready,       \* dmach.ready: the device asks for transfers
    work,        \* the bit of dmac.work
    working,     \* the bit of dmac.working: bytes move
    leng,        \* dmach.leng.w: bytes to move, less one
    dir,         \* dmach.mode: "read" (port to memory) or "write"
    phase,       \* "cpu": an instruction is next, "dma": dmax86, "out": events
    stepping,    \* the CPU has entered the loop that calls dmax86
    forced       \* nevent_forceexit since then

dmaVars == <<mask, ready, work, working, leng, dir>>
loopVars == <<phase, stepping, forced>>

(* The registers of the channel keep their width.                          *)
DmacTypeOK ==
    /\ {mask, ready, work, working, stepping, forced} \subseteq BOOLEAN
    /\ leng \in 0 .. LENGMOD - 1
    /\ dir \in {"read", "write"}
    /\ phase \in {"cpu", "dma", "out"}

DmacInit ==
    /\ mask = TRUE /\ leng = 0 /\ dir = "read"
    /\ ready = FALSE /\ work = FALSE /\ working = FALSE
    /\ phase = "out" /\ stepping = FALSE /\ forced = FALSE

(* A faulty variant: a channel that starts does not force the CPU out.     *)
DmacCheckQuiet(m, r) ==
    /\ mask' = m /\ ready' = r
    /\ work' = (~m /\ r)
    /\ working' = (~m /\ r /\ (working \/ ~work))
    /\ UNCHANGED forced

(* dmac_check, with the mask and the ready line the caller has just set.   *)
(* A channel that is at its terminal count stays in work, not in working.  *)
DmacCheck(m, r) ==
    /\ mask' = m /\ ready' = r
    /\ work' = (~m /\ r)
    /\ working' = (~m /\ r /\ (working \/ ~work))
    /\ forced' = (forced \/ work' # work)

(***************************************************************************)
(* The loop.  An instruction is followed by dmax86 in the loop that steps  *)
(* (which does nothing unless the channel is at work).  The loop ends when *)
(* the clocks are used up, which a forced exit brings about, and the end   *)
(* of the period may at any instruction.                                   *)
(***************************************************************************)
AfterDma == \/ phase' = "out"
            \/ ~forced' /\ phase' = "cpu"

AfterInstruction ==
    /\ IF stepping /\ working' THEN phase' = "dma" ELSE AfterDma
    /\ UNCHANGED stepping

(* A faulty variant: the CPU decides once.                                 *)
EnterLoopOnce ==
    /\ phase = "out"
    /\ phase' = "cpu"
    /\ forced' = FALSE
    /\ UNCHANGED stepping

(* ia32(), from the top.                                                   *)
EnterLoop ==
    /\ phase = "out"
    /\ phase' = "cpu"
    /\ stepping' = working
    /\ forced' = FALSE

(***************************************************************************)
(* dmax86: one byte.  LastByte is the terminal count, told to the device   *)
(* before the byte itself moves.                                           *)
(***************************************************************************)
LastByte == leng = 0

(* A faulty variant: the counter does not wrap.                            *)
CountDownOn == leng' = leng - 1

(* leng.w, of 16 bits, is left at its largest value after the last byte.   *)
CountDown == leng' = (leng + LENGMOD - 1) % LENGMOD
=============================================================================
