-------------------------------- MODULE Pic --------------------------------
(***************************************************************************)
(* The two cascaded 8259 interrupt controllers (io/pic.c) and the parts of *)
(* the machine that touch their registers: the CPU loop, which asks        *)
(* pic_irq for an interrupt before each run of the CPU, the guest's writes *)
(* to ports 00h, 02h, 08h and 0Ah, the devices that raise and withdraw     *)
(* requests, and the receive thread of the network, which raises its       *)
(* request while the CPU runs.                                             *)
(*                                                                         *)
(* A register is the set of the lines whose bit is 1.  An irq number of    *)
(* the code, 8 * chip + line, is the pair <<chip, line>>.  The chips of    *)
(* the code have eight lines; the order of the lines is their number.      *)
(* Vectors (ICW2) and the read-back registers are left out; ICW3 is what   *)
(* the machine is wired for.                                               *)
(***************************************************************************)
EXTENDS Integers

CONSTANTS
    LINES,      \* lines of a chip, 8 in the code
    TIMER,      \* PIC_SYSTEMTIMER, a line of the master
    CRTV,       \* PIC_CRTV, a line of the master
    SLAVE,      \* PIC_SLAVE, the line of the master the slave is wired to
    INPUTS,     \* the irqs other devices raise
    THREADED,   \* those of them raised by another thread
    MASKS,      \* the masks the guest writes
    COMMANDS,   \* the commands (OCW2) the guest writes
    MODES,      \* the values of the bit SMM in the OCW3s the guest writes
    INITS,      \* the values of the bit IC4 in the ICW1s the guest writes
    NoCopy      \* not a set of lines

Master == 0
Slave == 1
Chip == {Master, Slave}
Line == 0 .. LINES - 1

ASSUME PicAssumption ==
    /\ LINES \in Nat \ {0}
    /\ {TIMER, CRTV, SLAVE} \subseteq Line
    /\ TIMER # CRTV /\ TIMER # SLAVE /\ CRTV # SLAVE
    /\ INPUTS \subseteq (Chip \X Line) \ {<<Master, TIMER>>, <<Master, CRTV>>, <<Master, SLAVE>>}
    /\ THREADED \subseteq INPUTS
    /\ MASKS \subseteq SUBSET Line
    /\ COMMANDS \subseteq [eoi : BOOLEAN, rotate : BOOLEAN, specific : BOOLEAN]
    /\ INITS \subseteq BOOLEAN /\ MODES \subseteq BOOLEAN
    /\ \A S \in SUBSET Line : NoCopy # S

VARIABLES
    irr, isr, imr,   \* the registers of the two chips
    pry,             \* the line with the highest priority
    smm,             \* PIC_OCW3_SMM: special mask mode
    icws,            \* how many ICWs the chip still expects
    picmask,         \* NEVENT_PICMASK is armed
    vsyncint,        \* gdc.vsyncint: an interrupt is wanted at the next vsync
    ei,              \* CPU_isEI
    exit,            \* the CPU leaves its loop after this instruction
    phase,           \* pccore_exec: "head" (pic_irq), "cpu", "events"
    copy             \* what a clear of a bit of irr outside pic_cs writes back

chips == <<irr, isr, imr, pry, smm, icws>>
vars == <<irr, isr, imr, pry, smm, icws, picmask, vsyncint, ei, exit, phase, copy>>

\* pic_reset, and the masks the guest has set since
Init ==
    /\ irr = [c \in Chip |-> {}] /\ isr = [c \in Chip |-> {}]
    /\ imr \in [Chip -> MASKS]
    /\ pry = [c \in Chip |-> 0]
    /\ smm = [c \in Chip |-> FALSE]
    /\ icws = [c \in Chip |-> 0]
    /\ picmask = FALSE /\ vsyncint = FALSE
    /\ ei = FALSE /\ exit = FALSE
    /\ phase = "head" /\ copy = NoCopy

-----------------------------------------------------------------------------
(***************************************************************************)
(* pic_irq                                                                 *)
(***************************************************************************)

\* The distance from the line of highest priority
Rank(c, n) == (n - pry[c]) % LINES

First(c, S) == CHOOSE n \in S : \A m \in S : Rank(c, n) =< Rank(c, m)

Pending(c) == irr[c] \ imr[c]

\* Faulty variant: the slave's requests reach the master only as a bit of irr.
MasterPendingOwn == irr[Master] \ imr[Master]

\* What pic_irq calls mir
MasterPending ==
    (irr[Master] \cup IF Pending(Slave) = {} THEN {} ELSE {SLAVE}) \ imr[Master]

\* Faulty variant: what is in service does not hold back other requests.
HeldNever(c) == {}

\* In service, and so in the way of requests of no higher priority
Held(c) == IF smm[c] THEN {} ELSE isr[c]

AcceptsSlave(n) ==
    /\ ei
    /\ MasterPending # {}
    /\ First(Master, MasterPending \cup Held(Master)) = SLAVE
    /\ Pending(Slave) # {}
    /\ n = First(Slave, Pending(Slave) \cup Held(Slave))
    /\ n \notin isr[Slave]

AcceptsMaster(n) ==
    /\ ei
    /\ MasterPending # {}
    /\ n = First(Master, MasterPending \cup Held(Master))
    /\ n # SLAVE
    /\ n \notin isr[Master]

Accepts(c, n) == IF c = Master THEN AcceptsMaster(n) ELSE AcceptsSlave(n)

\* CPU_INTERRUPT: an interrupt gate disables interrupts, a trap gate does not
EnterHandler == ei' \in {FALSE, ei}

PicIrqSlave ==
    \E n \in Line :
        /\ AcceptsSlave(n)
        /\ isr' = [isr EXCEPT ![Master] = @ \cup {SLAVE}, ![Slave] = @ \cup {n}]
        /\ irr' = [irr EXCEPT ![Master] = @ \ {SLAVE}, ![Slave] = @ \ {n}]
        /\ EnterHandler
        /\ UNCHANGED picmask

PicIrqMaster ==
    \E n \in Line :
        /\ AcceptsMaster(n)
        /\ isr' = [isr EXCEPT ![Master] = @ \cup {n}]
        /\ irr' = [irr EXCEPT ![Master] = @ \ {n}]
        /\ picmask' = (picmask /\ n # TIMER)
        /\ EnterHandler

PicIrqNone ==
    /\ \A c \in Chip, n \in Line : ~ Accepts(c, n)
    /\ UNCHANGED <<irr, isr, picmask, ei>>

\* The head of the CPU loop
PicIrq ==
    /\ phase = "head"
    /\ phase' = "cpu"
    /\ exit' = FALSE
    /\ PicIrqSlave \/ PicIrqMaster \/ PicIrqNone
    /\ UNCHANGED <<imr, pry, smm, icws, vsyncint, copy>>

\* The period of the CPU is over, or it was forced out of its loop; the
\* events that are due run before the loop goes round
CpuEnd ==
    /\ phase = "cpu" /\ copy = NoCopy
    /\ phase' = "events"
    /\ UNCHANGED <<chips, picmask, vsyncint, ei, exit, copy>>

EventsEnd ==
    /\ phase = "events" /\ copy = NoCopy
    /\ phase' = "head"
    /\ UNCHANGED <<chips, picmask, vsyncint, ei, exit, copy>>

-----------------------------------------------------------------------------
(***************************************************************************)
(* Devices.  The events of the scheduler run between two runs of the CPU;  *)
(* I/O handlers run inside an instruction.                                 *)
(***************************************************************************)

\* The guest executes an instruction
Instruction == phase = "cpu" /\ ~ exit /\ copy = NoCopy
Event == phase = "events" /\ copy = NoCopy

\* pic_setirq but for what it does to the timer and the vsync requests
Raise(c, n) == irr' = [irr EXCEPT ![c] = @ \cup {n}]

\* pic_setirq by a device, in an event or in an I/O handler
PicSetirq(c, n) ==
    /\ Instruction \/ Event
    /\ Raise(c, n)
    /\ UNCHANGED <<isr, imr, pry, smm, icws, picmask, vsyncint, ei, exit, phase, copy>>

\* pic_setirq by the receive thread of the network, at any time
PicSetirqByThread(c, n) ==
    /\ Raise(c, n)
    /\ UNCHANGED <<isr, imr, pry, smm, icws, picmask, vsyncint, ei, exit, phase, copy>>

\* pic_resetirq
PicResetirq(c, n) ==
    /\ Instruction \/ Event
    /\ irr' = [irr EXCEPT ![c] = @ \ {n}]
    /\ UNCHANGED <<isr, imr, pry, smm, icws, picmask, vsyncint, ei, exit, phase, copy>>

\* systimer calls pic_setirq(0): a masked request of the rate generator is
\* given a time after which it is dropped
SetTimer ==
    /\ Event
    /\ Raise(Master, TIMER)
    /\ picmask' \in IF TIMER \in imr[Master] THEN {TRUE, picmask} ELSE {picmask}
    /\ UNCHANGED <<isr, imr, pry, smm, icws, vsyncint, ei, exit, phase, copy>>

\* Faulty variant: the request is dropped even if it was unmasked since.
DroppedTimerAlways == {TIMER}

\* What the callback of NEVENT_PICMASK drops
DroppedTimer == imr[Master] \cap {TIMER}

Picmask ==
    /\ Event
    /\ picmask
    /\ picmask' = FALSE
    /\ irr' = [irr EXCEPT ![Master] = @ \ DroppedTimer]
    /\ UNCHANGED <<isr, imr, pry, smm, icws, vsyncint, ei, exit, phase, copy>>

\* Faulty variant: a vsync request is dropped while the last is in service.
VsyncDropped == FALSE

\* pic_setirq turns a vsync request that comes while the last one is in
\* service into one for the next vsync
VsyncPostponed == CRTV \in isr[Master]

\* screenvsyncrise
ScreenVsyncRise ==
    /\ Event
    /\ vsyncint
    /\ vsyncint' = VsyncPostponed
    /\ irr' = [irr EXCEPT ![Master] = IF CRTV \in isr[Master] THEN @ \ {CRTV} ELSE @ \cup {CRTV}]
    /\ UNCHANGED <<isr, imr, pry, smm, icws, picmask, ei, exit, phase, copy>>

\* screendisp, first half: a vsync request not yet served is for the next one.
\* The bit is cleared outside the critical section of the controllers.
ScreenDisp ==
    /\ Event
    /\ CRTV \in irr[Master]
    /\ copy' = irr[Master] \ {CRTV}
    /\ vsyncint' = TRUE
    /\ UNCHANGED <<chips, picmask, ei, exit, phase>>

\* gdc_o64: the guest asks for an interrupt at the next vsync
GdcO64 ==
    /\ Instruction
    /\ vsyncint' = TRUE
    /\ UNCHANGED <<chips, picmask, ei, exit, phase, copy>>

\* pit_o71 and pit_o77, first half: programming the timer withdraws its
\* request, outside the critical section too
PitWrite ==
    /\ Instruction
    /\ copy' = irr[Master] \ {TIMER}
    /\ UNCHANGED <<chips, picmask, vsyncint, ei, exit, phase>>

\* Second half of ScreenDisp and PitWrite
WriteBack ==
    /\ copy # NoCopy
    /\ irr' = [irr EXCEPT ![Master] = copy]
    /\ copy' = NoCopy
    /\ UNCHANGED <<isr, imr, pry, smm, icws, picmask, vsyncint, ei, exit, phase>>

-----------------------------------------------------------------------------
(***************************************************************************)
(* The guest's writes                                                      *)
(***************************************************************************)

\* Faulty variant: the number of the line is not kept to three bits.
AfterUnbounded(n) == n + 1

\* The line after n, which has the highest priority once n was rotated
After(n) == (n + 1) % LINES

\* Port 00h/08h: OCW2.  Without a level of its own the command is for the
\* line in service with the highest priority, and does nothing if there is
\* none.
OCW2(c, cmd, n) ==
    LET level == IF cmd.specific THEN n ELSE First(c, isr[c])
    IN  /\ Instruction
        /\ cmd.specific \/ n = 0
        /\ icws' = [icws EXCEPT ![c] = 0]
        /\ IF cmd.specific \/ isr[c] # {}
           THEN /\ pry' = [pry EXCEPT ![c] = IF cmd.rotate THEN After(level) ELSE @]
                /\ isr' = [isr EXCEPT ![c] = IF cmd.eoi THEN @ \ {level} ELSE @]
                /\ exit' = TRUE
           ELSE UNCHANGED <<pry, isr, exit>>
        /\ UNCHANGED <<irr, imr, smm, picmask, vsyncint, ei, phase, copy>>

\* Port 00h/08h: OCW3 with the bits RR, ESMM and SMM
OCW3(c, rr, esmm, mode) ==
    /\ Instruction
    /\ icws' = [icws EXCEPT ![c] = 0]
    /\ smm' = [smm EXCEPT ![c] = IF rr /\ esmm THEN mode ELSE @]
    /\ UNCHANGED <<irr, isr, imr, pry, picmask, vsyncint, ei, exit, phase, copy>>

\* Port 00h/08h: ICW1; what is in service stays in service
ICW1(c, ic4) ==
    /\ Instruction
    /\ irr' = [irr EXCEPT ![c] = {}]
    /\ imr' = [imr EXCEPT ![c] = {}]
    /\ smm' = [smm EXCEPT ![c] = FALSE]
    /\ pry' = [pry EXCEPT ![c] = 0]
    /\ icws' = [icws EXCEPT ![c] = IF ic4 THEN 3 ELSE 2]
    /\ UNCHANGED <<isr, picmask, vsyncint, ei, exit, phase, copy>>

\* Faulty variant: the CPU goes on with its period.
OpensNothing(c, mask) == FALSE

\* The CPU has to leave its loop: a bit that the new mask clears has a request
Opens(c, mask) == ei /\ irr[c] \cap (imr[c] \ mask) # {}

\* Port 02h/0Ah: the mask ...
WriteMask(c, mask) ==
    /\ Instruction
    /\ icws[c] = 0
    /\ imr' = [imr EXCEPT ![c] = mask]
    /\ exit' = Opens(c, mask)
    /\ UNCHANGED <<irr, isr, pry, smm, icws, picmask, vsyncint, ei, phase, copy>>

\* ... or an ICW
WriteICW(c) ==
    /\ Instruction
    /\ icws[c] > 0
    /\ icws' = [icws EXCEPT ![c] = @ - 1]
    /\ exit' = TRUE
    /\ UNCHANGED <<irr, isr, imr, pry, smm, picmask, vsyncint, ei, phase, copy>>

\* CLI; STI, POPF and IRET end the run of the CPU (IRQCHECKTERM)
Cli ==
    /\ Instruction
    /\ ei' = FALSE
    /\ UNCHANGED <<chips, picmask, vsyncint, exit, phase, copy>>

SetFlag ==
    /\ Instruction
    /\ ei' \in BOOLEAN
    /\ exit' = TRUE
    /\ UNCHANGED <<chips, picmask, vsyncint, phase, copy>>

GuestWrite ==
    \E c \in Chip :
        \/ \E cmd \in COMMANDS, n \in Line : OCW2(c, cmd, n)
        \/ \E rr, esmm \in BOOLEAN, mode \in MODES : OCW3(c, rr, esmm, mode)
        \/ \E ic4 \in INITS : ICW1(c, ic4)
        \/ \E mask \in MASKS : WriteMask(c, mask)
        \/ WriteICW(c)

Device ==
    \/ SetTimer \/ Picmask \/ ScreenVsyncRise \/ ScreenDisp \/ GdcO64 \/ PitWrite
    \/ \E irq \in INPUTS \ THREADED : PicSetirq(irq[1], irq[2])
    \/ \E irq \in INPUTS : PicResetirq(irq[1], irq[2])

Next ==
    \/ PicIrq \/ CpuEnd \/ EventsEnd
    \/ Device
    \/ WriteBack
    \/ \E irq \in THREADED : PicSetirqByThread(irq[1], irq[2])
    \/ GuestWrite \/ Cli \/ SetFlag

Spec == Init /\ [][Next]_vars

-----------------------------------------------------------------------------
(***************************************************************************)
(* Properties                                                              *)
(***************************************************************************)

TypeOK ==
    /\ irr \in [Chip -> SUBSET Line] /\ isr \in [Chip -> SUBSET Line]
    /\ imr \in [Chip -> SUBSET Line]
    /\ pry \in [Chip -> Line] /\ smm \in [Chip -> BOOLEAN] /\ icws \in [Chip -> 0 .. 3]
    /\ picmask \in BOOLEAN /\ vsyncint \in BOOLEAN
    /\ ei \in BOOLEAN /\ exit \in BOOLEAN
    /\ phase \in {"head", "cpu", "events"}
    /\ copy = NoCopy \/ copy \in SUBSET Line

\* pic_irq interrupts for n of chip c
Acknowledged(c, n) == PicIrq /\ n \in isr'[c] \ isr[c]

\* Outside special mask mode an interrupt is accepted only over handlers of
\* lower priority: on its own chip, and, for one of the slave, on the master,
\* where the slave may interrupt its own handlers alone.
NestsByPriority ==
    [][\A c \in Chip, n \in Line :
          Acknowledged(c, n) /\ <<c, n>> # <<Master, SLAVE>> =>
              /\ ~ smm[c] => \A m \in isr[c] : Rank(c, n) < Rank(c, m)
              /\ c = Slave /\ ~ smm[Master] =>
                    \A m \in isr[Master] \ {SLAVE} : Rank(Master, SLAVE) < Rank(Master, m)]_vars

\* A request is not lost: it is taken back only by the device that made it,
\* by the guest when it initialises the chip or programs the timer, for the
\* timer when it is masked a quarter of a period later, and for vsync when it
\* is put off to the next one.  The one exception is the clear of a bit outside
\* the critical section, which undoes what another thread sets meanwhile.
KeepsRequests ==
    [][\A c \in Chip, n \in Line :
          n \in irr[c] \ irr'[c] =>
              \/ n \in isr'[c]
              \/ PicResetirq(c, n)
              \/ \E ic4 \in INITS : ICW1(c, ic4)
              \/ c = Master /\ n = TIMER /\ (WriteBack \/ (Picmask /\ TIMER \in imr[Master]))
              \/ c = Master /\ n = CRTV /\ vsyncint'
              \/ WriteBack /\ <<c, n>> \in THREADED]_vars

\* A vsync interrupt that the guest has asked for is wanted or pending until
\* it is served, whatever frame ends before.
KeepsVsync ==
    [][vsyncint \/ CRTV \in irr[Master] =>
          \/ vsyncint' \/ CRTV \in irr'[Master]
          \/ Acknowledged(Master, CRTV)
          \/ \E ic4 \in INITS : ICW1(Master, ic4)]_vars

AcceptsSome == \E c \in Chip, n \in Line : Accepts(c, n)

\* An instruction of the guest that lets an interrupt through makes the CPU
\* leave its loop, so that it is taken at once.  In all but these an interrupt
\* waits for the end of the period: an OCW3 that changes special mask mode and
\* an ICW1, which unmasks the chip and resets its priorities, never force the
\* CPU out; a write of the mask looks for requests on the bits that it clears alone,
\* and so misses what was held back by a request that it masks, and what is
\* let through by clearing the mask of the slave's line (see UnmaskedIsTaken).
LetThroughIsTaken ==
    [][ (GuestWrite \/ Cli \/ SetFlag) /\ ~ AcceptsSome /\ AcceptsSome' =>
          \/ exit'
          \/ \E c \in Chip, rr, esmm \in BOOLEAN, mode \in MODES :
                OCW3(c, rr, esmm, mode) /\ smm'[c] # smm[c]
          \/ \E c \in Chip, ic4 \in INITS : ICW1(c, ic4)
          \/ \E c \in Chip, mask \in MASKS : WriteMask(c, mask) /\ ~ mask \subseteq imr[c]
          \/ \E mask \in MASKS : WriteMask(Master, mask) /\ SLAVE \in imr[Master] \ mask]_vars

\* pic_o02 asks whether there is an interrupt on the bits that are reset, and
\* makes the CPU leave its loop.  It misses one: the mask of the slave's line,
\* when the request is the slave's.
UnmaskedIsTaken ==
    [][ (\E c \in Chip, mask \in MASKS : WriteMask(c, mask))
        /\ ~ AcceptsSome /\ AcceptsSome' => exit']_vars

\* An OCW3 with ESMM sets special mask mode to its bit SMM.  The code does so
\* only in an OCW3 that also selects a register to be read.
SpecialMaskIsSet ==
    [][\A c \in Chip, rr, mode \in BOOLEAN : OCW3(c, rr, TRUE, mode) => smm'[c] = mode]_vars
=============================================================================
