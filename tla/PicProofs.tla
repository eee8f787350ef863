----------------------------- MODULE PicProofs -----------------------------
(***************************************************************************)
(* Proofs about Pic, for chips of any number of lines and any devices.     *)
(***************************************************************************)
EXTENDS Pic, WellFoundedInduction, TLAPS

-----------------------------------------------------------------------------
(***************************************************************************)
(* Priorities                                                              *)
(***************************************************************************)

LEMMA ModSmall == ASSUME NEW n \in Nat \ {0}, NEW x \in 0 .. n - 1 PROVE x % n = x
  OBVIOUS

LEMMA ModBelow == ASSUME NEW n \in Nat \ {0}, NEW x \in -n .. -1 PROVE x % n = x + n
  OBVIOUS

\* The lines of a chip are ranked without ties.
LEMMA RankType ==
    ASSUME NEW c, pry[c] \in Line, NEW n \in Line
    PROVE  Rank(c, n) = IF n >= pry[c] THEN n - pry[c] ELSE n - pry[c] + LINES
<1>1. LINES \in Nat \ {0} BY PicAssumption
<1> DEFINE p == pry[c]
<1>2. p \in 0 .. LINES - 1 /\ n \in 0 .. LINES - 1 BY DEF Line
<1> HIDE DEF p
<1>3. CASE n >= p
  <2>1. n - p \in 0 .. LINES - 1 BY <1>1, <1>2, <1>3
  <2>2. (n - p) % LINES = n - p BY <1>1, <2>1, ModSmall
  <2> QED BY <1>3, <2>2 DEF Rank, p
<1>4. CASE ~ n >= p
  <2>1. n - p \in -LINES .. -1 BY <1>1, <1>2, <1>4
  <2>2. (n - p) % LINES = n - p + LINES BY <1>1, <2>1, ModBelow
  <2> QED BY <1>4, <2>2 DEF Rank, p
<1> QED BY <1>3, <1>4

LEMMA RankNat ==
    ASSUME NEW c, pry[c] \in Line, NEW n \in Line
    PROVE  Rank(c, n) \in Nat
  BY RankType, PicAssumption DEF Line

LEMMA RankInjective ==
    ASSUME NEW c, pry[c] \in Line, NEW n \in Line, NEW m \in Line, Rank(c, n) = Rank(c, m)
    PROVE  n = m
  BY RankType, PicAssumption DEF Line

\* Of some lines there is one of highest priority.
LEMMA FirstIsHighest ==
    ASSUME NEW c, pry[c] \in Line, NEW S \in SUBSET Line, S # {}
    PROVE  /\ First(c, S) \in S
           /\ \A m \in S : Rank(c, First(c, S)) =< Rank(c, m)
<1> DEFINE T == {Rank(c, n) : n \in S}
           R == {e \in Nat \X Nat : e[1] < e[2]}
<1>1. T \subseteq Nat /\ T # {} BY RankNat
<1>2. IsWellFoundedOn(R, Nat) BY NatLessThanWellFounded DEF OpToRel
<1> HIDE DEF T, R
<1>3. PICK x \in T : \A y \in T : ~ (<<y, x>> \in R) BY <1>1, <1>2, WFMin
<1>4. ASSUME NEW y \in T PROVE x =< y
  <2>1. x \in Nat /\ y \in Nat BY <1>1
  <2>2. ~ (<<y, x>> \in R) BY <1>3
  <2>3. ~ y < x BY <2>1, <2>2 DEF R
  <2> QED BY <2>1, <2>3
<1>5. PICK n \in S : x = Rank(c, n) BY DEF T
<1>6. \A m \in S : Rank(c, n) =< Rank(c, m) BY <1>4, <1>5 DEF T
<1> QED BY <1>6 DEF First
-----------------------------------------------------------------------------
(***************************************************************************)
(* The inductive invariant                                                 *)
(***************************************************************************)

\* A request that a pending write-back would take away is one that the writer
\* means to withdraw (the timer's), one that is put off to the next vsync, or
\* one that another thread made since the register was read.  pic_irq does not
\* run in between.
CopyInv ==
    copy # NoCopy =>
        /\ phase # "head"
        /\ \A n \in irr[Master] \ copy :
              \/ n = TIMER
              \/ n = CRTV /\ vsyncint
              \/ <<Master, n>> \in THREADED

IInv == TypeOK /\ CopyInv

\* The requests of devices are for lines of the chips.
LEMMA InputLines ==
    /\ \A irq \in INPUTS : irq[1] \in Chip /\ irq[2] \in Line
    /\ \A irq \in THREADED : /\ irq[1] \in Chip /\ irq[2] \in Line
                             /\ <<irq[1], irq[2]>> \in THREADED
    /\ TIMER \in Line /\ CRTV \in Line /\ SLAVE \in Line
    /\ Master \in Chip /\ Slave \in Chip /\ Master # Slave
    /\ \A mask \in MASKS : mask \in SUBSET Line
    /\ 0 \in Line
    /\ \A n \in Line : After(n) \in Line
<1>1. \A irq \in Chip \X Line : irq[1] \in Chip /\ irq[2] \in Line /\ irq = <<irq[1], irq[2]>>
  OBVIOUS
<1>2. INPUTS \subseteq Chip \X Line /\ THREADED \subseteq INPUTS BY PicAssumption
<1>3. LINES \in Nat \ {0} BY PicAssumption
<1>4. \A n \in Line : After(n) \in Line BY <1>3 DEF Line, After
<1>5. 0 \in Line BY <1>3 DEF Line
<1>6. \A irq \in THREADED : <<irq[1], irq[2]>> \in THREADED BY <1>1, <1>2
<1> QED BY <1>1, <1>2, <1>4, <1>5, <1>6, PicAssumption DEF Chip, Master, Slave

LEMMA InitInv == Init => IInv
<1> SUFFICES ASSUME Init PROVE IInv OBVIOUS
<1>1. imr \in [Chip -> SUBSET Line] BY InputLines DEF Init
<1>2. pry \in [Chip -> Line] BY InputLines DEF Init
<1>5. icws \in [Chip -> 0 .. 3] BY DEF Init
<1>6. /\ irr \in [Chip -> SUBSET Line] /\ isr \in [Chip -> SUBSET Line]
      /\ smm \in [Chip -> BOOLEAN]
      /\ picmask \in BOOLEAN /\ vsyncint \in BOOLEAN /\ ei \in BOOLEAN /\ exit \in BOOLEAN
      /\ phase \in {"head", "cpu", "events"} /\ copy = NoCopy
  BY DEF Init
<1>7. TypeOK BY <1>1, <1>2, <1>5, <1>6 DEF TypeOK
<1>3. copy = NoCopy BY DEF Init
<1>4. CopyInv BY <1>3 DEF CopyInv
<1> QED BY <1>7, <1>4 DEF IInv

LEMMA PicIrqType == ASSUME TypeOK, PicIrq PROVE TypeOK'
<1>1. UNCHANGED <<imr, pry, smm, icws, vsyncint, copy>> /\ phase' = "cpu" /\ exit' = FALSE
  BY DEF PicIrq
<1>2. CASE PicIrqSlave
  <2>1. PICK n \in Line :
            /\ isr' = [isr EXCEPT ![Master] = @ \cup {SLAVE}, ![Slave] = @ \cup {n}]
            /\ irr' = [irr EXCEPT ![Master] = @ \ {SLAVE}, ![Slave] = @ \ {n}]
            /\ EnterHandler /\ UNCHANGED picmask
    BY <1>2 DEF PicIrqSlave
  <2>2. /\ irr \in [Chip -> SUBSET Line] /\ isr \in [Chip -> SUBSET Line]
        /\ Master \in Chip /\ Slave \in Chip /\ SLAVE \in Line
    BY InputLines DEF TypeOK
  <2>3. isr' \in [Chip -> SUBSET Line] BY <2>1, <2>2
  <2>4. irr' \in [Chip -> SUBSET Line] BY <2>1, <2>2
  <2> QED BY <1>1, <2>1, <2>3, <2>4 DEF EnterHandler, TypeOK
<1>3. CASE PicIrqMaster
  <2>1. PICK n \in Line :
            /\ isr' = [isr EXCEPT ![Master] = @ \cup {n}]
            /\ irr' = [irr EXCEPT ![Master] = @ \ {n}]
            /\ picmask' = (picmask /\ n # TIMER)
            /\ EnterHandler
    BY <1>3 DEF PicIrqMaster
  <2>2. isr' \in [Chip -> SUBSET Line] /\ irr' \in [Chip -> SUBSET Line]
    BY <2>1, InputLines DEF TypeOK
  <2>3. picmask' \in BOOLEAN BY <2>1
  <2> QED BY <1>1, <2>1, <2>2, <2>3 DEF EnterHandler, TypeOK
<1>4. CASE PicIrqNone BY <1>1, <1>4 DEF PicIrqNone, TypeOK
<1> QED BY <1>2, <1>3, <1>4 DEF PicIrq

LEMMA OCW2Type ==
    ASSUME TypeOK, NEW c \in Chip, NEW cmd, NEW n \in Line, OCW2(c, cmd, n)
    PROVE  TypeOK'
<1> DEFINE level == IF cmd.specific THEN n ELSE First(c, isr[c])
<1>1. /\ icws' = [icws EXCEPT ![c] = 0]
      /\ UNCHANGED <<irr, imr, smm, picmask, vsyncint, ei, phase, copy>>
  BY DEF OCW2
<1>2. CASE cmd.specific \/ isr[c] # {}
  <2>1. level \in Line
    <3>1. CASE cmd.specific BY <3>1
    <3>2. CASE ~ cmd.specific
      <4>1. isr[c] \in SUBSET Line /\ pry[c] \in Line /\ isr[c] # {}
        BY <1>2, <3>2 DEF TypeOK
      <4>2. First(c, isr[c]) \in isr[c] BY <4>1, FirstIsHighest
      <4> QED BY <3>2, <4>1, <4>2
    <3> QED BY <3>1, <3>2
  <2>2. /\ pry' = [pry EXCEPT ![c] = IF cmd.rotate THEN After(level) ELSE @]
        /\ isr' = [isr EXCEPT ![c] = IF cmd.eoi THEN @ \ {level} ELSE @]
        /\ exit' = TRUE
    BY <1>2 DEF OCW2
  <2> HIDE DEF level
  <2>3. After(level) \in Line BY <2>1, InputLines
  <2> QED BY <1>1, <2>2, <2>3 DEF TypeOK
<1>3. CASE ~ (cmd.specific \/ isr[c] # {})
  <2>1. UNCHANGED <<pry, isr, exit>> BY <1>3 DEF OCW2
  <2> QED BY <1>1, <2>1 DEF TypeOK
<1> QED BY <1>2, <1>3

LEMMA GuestWriteType == ASSUME TypeOK, GuestWrite PROVE TypeOK'
<1>1. PICK c \in Chip :
          \/ \E cmd \in COMMANDS, n \in Line : OCW2(c, cmd, n)
          \/ \E rr, esmm \in BOOLEAN, mode \in MODES : OCW3(c, rr, esmm, mode)
          \/ \E ic4 \in INITS : ICW1(c, ic4)
          \/ \E mask \in MASKS : WriteMask(c, mask)
          \/ WriteICW(c)
  BY DEF GuestWrite
<1>2. CASE \E cmd \in COMMANDS, n \in Line : OCW2(c, cmd, n) BY <1>2, OCW2Type
<1>3. CASE \E rr, esmm \in BOOLEAN, mode \in MODES : OCW3(c, rr, esmm, mode)
  BY <1>3, PicAssumption DEF OCW3, TypeOK
<1>4. CASE \E ic4 \in INITS : ICW1(c, ic4)
  BY <1>4, InputLines DEF ICW1, TypeOK
<1>5. CASE \E mask \in MASKS : WriteMask(c, mask)
  <2>1. PICK mask \in MASKS : WriteMask(c, mask) BY <1>5
  <2>2. mask \in SUBSET Line BY InputLines
  <2>3. Opens(c, mask) \in BOOLEAN BY DEF Opens
  <2> QED BY <2>1, <2>2, <2>3 DEF WriteMask, TypeOK
<1>6. CASE WriteICW(c) BY <1>6 DEF WriteICW, TypeOK
<1> QED BY <1>1, <1>2, <1>3, <1>4, <1>5, <1>6

LEMMA DeviceType == ASSUME TypeOK, Device PROVE TypeOK'
<1>1. CASE SetTimer BY <1>1, InputLines DEF SetTimer, Raise, TypeOK
<1>2. CASE Picmask BY <1>2, InputLines DEF Picmask, TypeOK
<1>3. CASE ScreenVsyncRise
  BY <1>3, InputLines DEF ScreenVsyncRise, VsyncPostponed, TypeOK
<1>4. CASE ScreenDisp BY <1>4, InputLines DEF ScreenDisp, chips, TypeOK
<1>5. CASE GdcO64 BY <1>5 DEF GdcO64, chips, TypeOK
<1>6. CASE PitWrite BY <1>6, InputLines DEF PitWrite, chips, TypeOK
<1>7. CASE \E irq \in INPUTS \ THREADED : PicSetirq(irq[1], irq[2])
  BY <1>7, InputLines DEF PicSetirq, Raise, TypeOK
<1>8. CASE \E irq \in INPUTS : PicResetirq(irq[1], irq[2])
  BY <1>8, InputLines DEF PicResetirq, TypeOK
<1> QED BY <1>1, <1>2, <1>3, <1>4, <1>5, <1>6, <1>7, <1>8 DEF Device

LEMMA NextType == ASSUME TypeOK, [Next]_vars PROVE TypeOK'
<1>1. CASE PicIrq BY <1>1, PicIrqType
<1>2. CASE CpuEnd \/ EventsEnd BY <1>2 DEF CpuEnd, EventsEnd, chips, TypeOK
<1>3. CASE Device BY <1>3, DeviceType
<1>4. CASE WriteBack BY <1>4, InputLines DEF WriteBack, TypeOK
<1>5. CASE \E irq \in THREADED : PicSetirqByThread(irq[1], irq[2])
  BY <1>5, InputLines, PicAssumption DEF PicSetirqByThread, Raise, TypeOK
<1>6. CASE GuestWrite BY <1>6, GuestWriteType
<1>7. CASE Cli \/ SetFlag BY <1>7 DEF Cli, SetFlag, chips, TypeOK
<1>8. CASE UNCHANGED vars BY <1>8 DEF vars, TypeOK
<1> QED BY <1>1, <1>2, <1>3, <1>4, <1>5, <1>6, <1>7, <1>8 DEF Next

LEMMA NextCopy == ASSUME IInv, [Next]_vars PROVE CopyInv'
<1> USE DEF IInv
<1>1. CASE PicIrq BY <1>1 DEF PicIrq, CopyInv
<1>2. CASE CpuEnd \/ EventsEnd BY <1>2 DEF CpuEnd, EventsEnd, CopyInv
<1>3. CASE Device
  <2>1. CASE SetTimer BY <2>1 DEF SetTimer, Event, CopyInv
  <2>2. CASE Picmask BY <2>2 DEF Picmask, Event, CopyInv
  <2>3. CASE ScreenVsyncRise BY <2>3 DEF ScreenVsyncRise, Event, CopyInv
  <2>4. CASE ScreenDisp BY <2>4 DEF ScreenDisp, Event, chips, CopyInv
  <2>5. CASE GdcO64 BY <2>5 DEF GdcO64, Instruction, CopyInv
  <2>6. CASE PitWrite BY <2>6 DEF PitWrite, Instruction, chips, CopyInv
  <2>7. CASE \E irq \in INPUTS \ THREADED : PicSetirq(irq[1], irq[2])
    BY <2>7 DEF PicSetirq, Event, Instruction, CopyInv
  <2>8. CASE \E irq \in INPUTS : PicResetirq(irq[1], irq[2])
    BY <2>8 DEF PicResetirq, Event, Instruction, CopyInv
  <2> QED BY <1>3, <2>1, <2>2, <2>3, <2>4, <2>5, <2>6, <2>7, <2>8 DEF Device
<1>4. CASE WriteBack BY <1>4 DEF WriteBack, CopyInv
<1>5. CASE \E irq \in THREADED : PicSetirqByThread(irq[1], irq[2])
  <2>1. PICK irq \in THREADED : PicSetirqByThread(irq[1], irq[2]) BY <1>5
  <2>2. <<irq[1], irq[2]>> \in THREADED /\ irq[1] \in Chip BY InputLines
  <2>3. /\ irr' = [irr EXCEPT ![irq[1]] = @ \cup {irq[2]}]
        /\ UNCHANGED <<vsyncint, phase, copy>>
    BY <2>1 DEF PicSetirqByThread, Raise
  <2>4. \A n \in irr'[Master] : n \in irr[Master] \/ <<Master, n>> \in THREADED
    <3>1. CASE irq[1] = Master BY <2>2, <2>3, <3>1 DEF TypeOK
    <3>2. CASE irq[1] # Master BY <2>2, <2>3, <3>2, InputLines DEF TypeOK
    <3> QED BY <3>1, <3>2
  <2> QED BY <2>3, <2>4 DEF CopyInv
<1>6. CASE GuestWrite
  BY <1>6 DEF GuestWrite, OCW2, OCW3, ICW1, WriteMask, WriteICW, Instruction, CopyInv
<1>7. CASE Cli \/ SetFlag BY <1>7 DEF Cli, SetFlag, Instruction, CopyInv
<1>8. CASE UNCHANGED vars BY <1>8 DEF vars, CopyInv
<1> QED BY <1>1, <1>2, <1>3, <1>4, <1>5, <1>6, <1>7, <1>8 DEF Next

\* The invariant holds in every reachable state.
THEOREM Invariance == Spec => []IInv
<1>1. Init => IInv BY InitInv
<1>2. IInv /\ [Next]_vars => IInv' BY NextType, NextCopy DEF IInv
<1> QED BY <1>1, <1>2, PTL DEF Spec

\* The registers of both chips are registers, whatever the guest writes: in
\* particular the line an EOI without a level ends is a line.
THEOREM TypeCorrect == Spec => []TypeOK
<1>1. IInv => TypeOK BY DEF IInv
<1> QED BY <1>1, Invariance, PTL

-----------------------------------------------------------------------------
(***************************************************************************)
(* Priorities                                                              *)
(***************************************************************************)

\* A line that pic_irq chooses before what is in service, and that is not in
\* service itself, is of higher priority than all that is.
LEMMA ChosenIsHigher ==
    ASSUME TypeOK, NEW c \in Chip, NEW S \in SUBSET Line, NEW n \in Line,
           n = First(c, S), NEW m \in S, m # n
    PROVE  Rank(c, n) < Rank(c, m)
<1>1. pry[c] \in Line /\ S # {} /\ m \in Line BY DEF TypeOK
<1>2. Rank(c, n) =< Rank(c, m) BY <1>1, FirstIsHighest
<1>3. Rank(c, n) # Rank(c, m) BY <1>1, RankInjective
<1>4. Rank(c, n) \in Nat /\ Rank(c, m) \in Nat BY <1>1, RankNat
<1> QED BY <1>2, <1>3, <1>4

LEMMA PendingLines ==
    ASSUME TypeOK
    PROVE  /\ MasterPending \in SUBSET Line
           /\ \A c \in Chip : Pending(c) \in SUBSET Line /\ Held(c) \in SUBSET Line
           /\ \A c \in Chip : ~ smm[c] => Held(c) = isr[c]
  BY InputLines DEF TypeOK, MasterPending, Pending, Held

LEMMA AcknowledgedNests ==
    ASSUME TypeOK, NEW c \in Chip, NEW n \in Line, Acknowledged(c, n), <<c, n>> # <<Master, SLAVE>>
    PROVE  /\ ~ smm[c] => \A m \in isr[c] : Rank(c, n) < Rank(c, m)
           /\ c = Slave /\ ~ smm[Master] =>
                 \A m \in isr[Master] \ {SLAVE} : Rank(Master, SLAVE) < Rank(Master, m)
<1>1. PicIrq /\ n \in isr'[c] /\ n \notin isr[c] BY DEF Acknowledged
<1>2. CASE PicIrqSlave
  <2>1. PICK k \in Line : /\ AcceptsSlave(k)
                          /\ isr' = [isr EXCEPT ![Master] = @ \cup {SLAVE}, ![Slave] = @ \cup {k}]
    BY <1>2 DEF PicIrqSlave
  <2>2. c = Slave /\ n = k
    <3>1. CASE c = Master
      <4>1. n \in isr[Master] \cup {SLAVE} BY <1>1, <2>1, <3>1, InputLines DEF TypeOK
      <4> QED BY <1>1, <3>1, <4>1
    <3>2. CASE c = Slave
      <4>1. n \in isr[Slave] \cup {k} BY <1>1, <2>1, <3>2, InputLines DEF TypeOK
      <4> QED BY <1>1, <3>2, <4>1
    <3> QED BY <3>1, <3>2 DEF Chip
  <2>3. /\ First(Master, MasterPending \cup Held(Master)) = SLAVE
        /\ n = First(Slave, Pending(Slave) \cup Held(Slave))
    BY <2>1, <2>2 DEF AcceptsSlave
  <2>4. ASSUME ~ smm[c], NEW m \in isr[c] PROVE Rank(c, n) < Rank(c, m)
    <3>1. m \in Pending(Slave) \cup Held(Slave) /\ m # n
      BY <1>1, <2>2, <2>4, PendingLines, InputLines
    <3> QED BY <2>2, <2>3, <3>1, ChosenIsHigher, PendingLines, InputLines
  <2>5. ASSUME ~ smm[Master], NEW m \in isr[Master] \ {SLAVE}
        PROVE  Rank(Master, SLAVE) < Rank(Master, m)
    <3>1. m \in MasterPending \cup Held(Master) /\ m # SLAVE
      BY <2>5, PendingLines, InputLines
    <3> QED BY <2>3, <3>1, ChosenIsHigher, PendingLines, InputLines
  <2> QED BY <2>4, <2>5
<1>3. CASE PicIrqMaster
  <2>1. PICK k \in Line : AcceptsMaster(k) /\ isr' = [isr EXCEPT ![Master] = @ \cup {k}]
    BY <1>3 DEF PicIrqMaster
  <2>2. c = Master /\ n = k
    <3>1. c = Master BY <1>1, <2>1, InputLines DEF TypeOK
    <3>2. n \in isr[Master] \cup {k} BY <1>1, <2>1, <3>1, InputLines DEF TypeOK
    <3> QED BY <1>1, <3>1, <3>2
  <2>3. n = First(Master, MasterPending \cup Held(Master)) BY <2>1, <2>2 DEF AcceptsMaster
  <2>4. ASSUME ~ smm[c], NEW m \in isr[c] PROVE Rank(c, n) < Rank(c, m)
    <3>1. m \in MasterPending \cup Held(Master) /\ m # n
      BY <1>1, <2>2, <2>4, PendingLines, InputLines
    <3> QED BY <2>2, <2>3, <3>1, ChosenIsHigher, PendingLines, InputLines
  <2> QED BY <2>2, <2>4, InputLines
<1>4. CASE PicIrqNone BY <1>1, <1>4 DEF PicIrqNone
<1> QED BY <1>1, <1>2, <1>3, <1>4 DEF PicIrq

\* pic_irq interrupts only for what has a higher priority than everything in
\* service, on its own chip and, for the slave, on the master: for any number
\* of lines, after any rotation of the priorities.
THEOREM AlwaysNests == Spec => NestsByPriority
<1>1. TypeOK /\ [Next]_vars =>
        [\A c \in Chip, n \in Line :
            Acknowledged(c, n) /\ <<c, n>> # <<Master, SLAVE>> =>
              /\ ~ smm[c] => \A m \in isr[c] : Rank(c, n) < Rank(c, m)
              /\ c = Slave /\ ~ smm[Master] =>
                    \A m \in isr[Master] \ {SLAVE} : Rank(Master, SLAVE) < Rank(Master, m)]_vars
  BY AcknowledgedNests
<1> QED BY <1>1, TypeCorrect, PTL DEF Spec, NestsByPriority

-----------------------------------------------------------------------------
(***************************************************************************)
(* Requests                                                                *)
(***************************************************************************)

\* Only pic_irq, a device that withdraws its request, ICW1 and the two writes
\* outside the critical section clear bits of irr.
LEMMA StepKeepsRequests ==
    ASSUME IInv, [Next]_vars, NEW c \in Chip, NEW n \in Line, n \in irr[c], n \notin irr'[c]
    PROVE  \/ n \in isr'[c]
           \/ PicResetirq(c, n)
           \/ \E ic4 \in INITS : ICW1(c, ic4)
           \/ c = Master /\ n = TIMER /\ (WriteBack \/ (Picmask /\ TIMER \in imr[Master]))
           \/ c = Master /\ n = CRTV /\ vsyncint'
           \/ WriteBack /\ <<c, n>> \in THREADED
<1>0. irr \in [Chip -> SUBSET Line] /\ isr \in [Chip -> SUBSET Line] BY DEF IInv, TypeOK
<1>1. CASE PicIrq
  <2>1. CASE PicIrqSlave
    <3>1. PICK k \in Line :
              /\ isr' = [isr EXCEPT ![Master] = @ \cup {SLAVE}, ![Slave] = @ \cup {k}]
              /\ irr' = [irr EXCEPT ![Master] = @ \ {SLAVE}, ![Slave] = @ \ {k}]
      BY <2>1 DEF PicIrqSlave
    <3>2. CASE c = Master
      <4>1. irr'[Master] = irr[Master] \ {SLAVE} BY <1>0, <3>1, InputLines
      <4>2. isr'[Master] = isr[Master] \cup {SLAVE} BY <1>0, <3>1, InputLines
      <4> QED BY <3>2, <4>1, <4>2
    <3>3. CASE c = Slave
      <4>1. irr'[Slave] = irr[Slave] \ {k} BY <1>0, <3>1, InputLines
      <4>2. isr'[Slave] = isr[Slave] \cup {k} BY <1>0, <3>1, InputLines
      <4> QED BY <3>3, <4>1, <4>2
    <3> QED BY <3>2, <3>3 DEF Chip
  <2>2. CASE PicIrqMaster
    <3>1. PICK k \in Line : /\ isr' = [isr EXCEPT ![Master] = @ \cup {k}]
                            /\ irr' = [irr EXCEPT ![Master] = @ \ {k}]
      BY <2>2 DEF PicIrqMaster
    <3>2. c = Master BY <1>0, <3>1, InputLines
    <3>3. irr'[Master] = irr[Master] \ {k} BY <1>0, <3>1, InputLines
    <3>4. isr'[Master] = isr[Master] \cup {k} BY <1>0, <3>1, InputLines
    <3> QED BY <3>2, <3>3, <3>4
  <2>3. CASE PicIrqNone BY <2>3 DEF PicIrqNone
  <2> QED BY <1>1, <2>1, <2>2, <2>3 DEF PicIrq
<1>2. CASE CpuEnd \/ EventsEnd BY <1>2 DEF CpuEnd, EventsEnd, chips
<1>3. CASE Device
  <2>1. CASE SetTimer BY <1>0, <2>1, InputLines DEF SetTimer, Raise
  <2>2. CASE Picmask
    <3>1. irr' = [irr EXCEPT ![Master] = @ \ DroppedTimer] BY <2>2 DEF Picmask
    <3>2. c = Master /\ n \in DroppedTimer
      <4>1. c = Master BY <1>0, <3>1
      <4>2. irr'[Master] = irr[Master] \ DroppedTimer BY <1>0, <3>1, InputLines
      <4> QED BY <4>1, <4>2
    <3> QED BY <2>2, <3>2 DEF DroppedTimer
  <2>3. CASE ScreenVsyncRise
    <3>1. /\ vsyncint' = (CRTV \in isr[Master])
          /\ irr' = [irr EXCEPT ![Master] = IF CRTV \in isr[Master] THEN @ \ {CRTV}
                                            ELSE @ \cup {CRTV}]
      BY <2>3 DEF ScreenVsyncRise, VsyncPostponed
    <3>2. c = Master BY <1>0, <3>1
    <3>3. CASE CRTV \in isr[Master]
      <4>1. irr' = [irr EXCEPT ![Master] = @ \ {CRTV}] BY <3>1, <3>3
      <4>2. irr'[Master] = irr[Master] \ {CRTV} BY <1>0, <4>1, InputLines
      <4> QED BY <3>1, <3>2, <3>3, <4>2
    <3>4. CASE CRTV \notin isr[Master]
      <4>1. irr' = [irr EXCEPT ![Master] = @ \cup {CRTV}] BY <3>1, <3>4
      <4>2. irr'[Master] = irr[Master] \cup {CRTV} BY <1>0, <4>1, InputLines
      <4> QED BY <3>2, <4>2
    <3> QED BY <3>3, <3>4
  <2>4. CASE ScreenDisp \/ GdcO64 \/ PitWrite BY <2>4 DEF ScreenDisp, GdcO64, PitWrite, chips
  <2>5. CASE \E irq \in INPUTS \ THREADED : PicSetirq(irq[1], irq[2])
    BY <1>0, <2>5, InputLines DEF PicSetirq, Raise
  <2>6. CASE \E irq \in INPUTS : PicResetirq(irq[1], irq[2])
    <3>1. PICK irq \in INPUTS : PicResetirq(irq[1], irq[2]) BY <2>6
    <3>2. irr' = [irr EXCEPT ![irq[1]] = @ \ {irq[2]}] /\ irq[1] \in Chip
      BY <3>1, InputLines DEF PicResetirq
    <3>3. irq[1] = c BY <1>0, <3>2
    <3>4. irr'[c] = irr[c] \ {irq[2]} BY <1>0, <3>2, <3>3
    <3>5. irq[2] = n BY <3>4
    <3> QED BY <3>1, <3>3, <3>5
  <2> QED BY <1>3, <2>1, <2>2, <2>3, <2>4, <2>5, <2>6 DEF Device
<1>4. CASE WriteBack
  <2>1. /\ copy # NoCopy /\ irr' = [irr EXCEPT ![Master] = copy] /\ UNCHANGED vsyncint
    BY <1>4 DEF WriteBack
  <2>2. c = Master /\ n \notin copy
    <3>1. c = Master BY <1>0, <2>1
    <3>2. irr'[Master] = copy BY <1>0, <2>1, InputLines
    <3> QED BY <3>1, <3>2
  <2>3. \/ n = TIMER
        \/ n = CRTV /\ vsyncint
        \/ <<Master, n>> \in THREADED
    BY <2>1, <2>2 DEF IInv, CopyInv
  <2> QED BY <1>4, <2>1, <2>2, <2>3
<1>5. CASE \E irq \in THREADED : PicSetirqByThread(irq[1], irq[2])
  BY <1>0, <1>5, InputLines DEF PicSetirqByThread, Raise
<1>6. CASE GuestWrite
  <2>1. PICK k \in Chip :
            \/ \E cmd \in COMMANDS, m \in Line : OCW2(k, cmd, m)
            \/ \E rr, esmm \in BOOLEAN, mode \in MODES : OCW3(k, rr, esmm, mode)
            \/ \E ic4 \in INITS : ICW1(k, ic4)
            \/ \E mask \in MASKS : WriteMask(k, mask)
            \/ WriteICW(k)
    BY <1>6 DEF GuestWrite
  <2>2. CASE \E ic4 \in INITS : ICW1(k, ic4)
    <3>1. PICK ic4 \in INITS : ICW1(k, ic4) BY <2>2
    <3>2. irr' = [irr EXCEPT ![k] = {}] BY <3>1 DEF ICW1
    <3>3. k = c BY <1>0, <3>2
    <3> QED BY <3>1, <3>3
  <2> QED BY <2>1, <2>2 DEF OCW2, OCW3, WriteMask, WriteICW
<1>7. CASE Cli \/ SetFlag BY <1>7 DEF Cli, SetFlag, chips
<1>8. CASE UNCHANGED vars BY <1>8 DEF vars
<1> QED BY <1>1, <1>2, <1>3, <1>4, <1>5, <1>6, <1>7, <1>8 DEF Next

\* No request is lost but in the ways that the devices, the guest and the
\* threads' unprotected writes allow: for any devices, on any lines.
THEOREM RequestsAreKept == Spec => KeepsRequests
<1>1. IInv /\ [Next]_vars =>
        [\A c \in Chip, n \in Line :
            n \in irr[c] \ irr'[c] =>
              \/ n \in isr'[c]
              \/ PicResetirq(c, n)
              \/ \E ic4 \in INITS : ICW1(c, ic4)
              \/ c = Master /\ n = TIMER /\ (WriteBack \/ (Picmask /\ TIMER \in imr[Master]))
              \/ c = Master /\ n = CRTV /\ vsyncint'
              \/ WriteBack /\ <<c, n>> \in THREADED]_vars
  BY StepKeepsRequests
<1> QED BY <1>1, Invariance, PTL DEF Spec, KeepsRequests

\* No device but the display controller withdraws the vsync request, and what
\* it withdraws it wants at the next vsync.
LEMMA StepKeepsVsync ==
    ASSUME IInv, [Next]_vars, vsyncint \/ CRTV \in irr[Master]
    PROVE  \/ vsyncint' \/ CRTV \in irr'[Master]
           \/ Acknowledged(Master, CRTV)
           \/ \E ic4 \in INITS : ICW1(Master, ic4)
<1>0. irr \in [Chip -> SUBSET Line] /\ isr \in [Chip -> SUBSET Line] BY DEF IInv, TypeOK
<1>1. /\ <<Master, CRTV>> \notin INPUTS /\ <<Master, CRTV>> \notin THREADED /\ CRTV # TIMER
      /\ CRTV # SLAVE
  BY PicAssumption
<1>2. CASE ~ vsyncint
  <2>1. CASE CRTV \in irr'[Master] BY <2>1
  <2>2. CASE CRTV \notin irr'[Master]
    <3>1. CRTV \in irr[Master] BY <1>2
    <3>2. \/ CRTV \in isr'[Master]
          \/ PicResetirq(Master, CRTV)
          \/ \E ic4 \in INITS : ICW1(Master, ic4)
          \/ vsyncint'
      BY <1>1, <2>2, <3>1, StepKeepsRequests, InputLines
    <3>3. CASE \E irq \in INPUTS : PicResetirq(irq[1], irq[2])
      <4>1. PICK irq \in INPUTS : PicResetirq(irq[1], irq[2]) BY <3>3
      <4>2. irr' = [irr EXCEPT ![irq[1]] = @ \ {irq[2]}] /\ irq[1] \in Chip
        BY <4>1, InputLines DEF PicResetirq
      <4>3. irq[1] = Master BY <1>0, <2>2, <3>1, <4>2
      <4>4. irq[2] = CRTV BY <1>0, <2>2, <3>1, <4>2, <4>3
      <4>5. irq = <<irq[1], irq[2]>> BY PicAssumption
      <4> QED BY <1>1, <4>1, <4>3, <4>4, <4>5
    <3>4. CASE PicIrq
      <4>1. CASE PicIrqSlave
        <5>1. irr'[Master] = irr[Master] \ {SLAVE} BY <1>0, <4>1, InputLines DEF PicIrqSlave
        <5> QED BY <1>1, <2>2, <3>1, <5>1
      <4>2. CASE PicIrqMaster
        <5>1. PICK k \in Line : /\ AcceptsMaster(k)
                                /\ isr' = [isr EXCEPT ![Master] = @ \cup {k}]
                                /\ irr' = [irr EXCEPT ![Master] = @ \ {k}]
          BY <4>2 DEF PicIrqMaster
        <5>2. k = CRTV BY <1>0, <2>2, <3>1, <5>1, InputLines
        <5>3. CRTV \in isr'[Master] \ isr[Master]
          BY <1>0, <5>1, <5>2, InputLines DEF AcceptsMaster
        <5> QED BY <3>4, <5>3 DEF Acknowledged
      <4>3. CASE PicIrqNone BY <2>2, <3>1, <4>3 DEF PicIrqNone
      <4> QED BY <3>4, <4>1, <4>2, <4>3 DEF PicIrq
    <3>5. CASE \E ic4 \in INITS : ICW1(Master, ic4) BY <3>5
    <3>6. CASE /\ ~ PicIrq
               /\ ~ \E irq \in INPUTS : PicResetirq(irq[1], irq[2])
               /\ ~ \E ic4 \in INITS : ICW1(Master, ic4)
      <4>1. CASE WriteBack
        <5>1. copy # NoCopy /\ irr'[Master] = copy BY <1>0, <4>1, InputLines DEF WriteBack
        <5> QED BY <1>1, <1>2, <2>2, <3>1, <5>1 DEF IInv, CopyInv
      <4>2. CASE CpuEnd \/ EventsEnd BY <2>2, <3>1, <4>2 DEF CpuEnd, EventsEnd, chips
      <4>3. CASE SetTimer \/ (\E irq \in INPUTS \ THREADED : PicSetirq(irq[1], irq[2]))
        BY <1>0, <2>2, <3>1, <4>3, InputLines DEF SetTimer, PicSetirq, Raise
      <4>4. CASE Picmask
        <5>1. irr'[Master] = irr[Master] \ DroppedTimer BY <1>0, <4>4, InputLines DEF Picmask
        <5> QED BY <1>1, <2>2, <3>1, <5>1 DEF DroppedTimer
      <4>5. CASE ScreenVsyncRise BY <1>2, <4>5 DEF ScreenVsyncRise
      <4>6. CASE ScreenDisp \/ GdcO64 \/ PitWrite
        BY <2>2, <3>1, <4>6 DEF ScreenDisp, GdcO64, PitWrite, chips
      <4>7. CASE \E irq \in THREADED : PicSetirqByThread(irq[1], irq[2])
        BY <1>0, <2>2, <3>1, <4>7, InputLines DEF PicSetirqByThread, Raise
      <4>8. CASE GuestWrite
        <5>1. PICK k \in Chip :
                  \/ \E cmd \in COMMANDS, m \in Line : OCW2(k, cmd, m)
                  \/ \E rr, esmm \in BOOLEAN, mode \in MODES : OCW3(k, rr, esmm, mode)
                  \/ \E ic4 \in INITS : ICW1(k, ic4)
                  \/ \E mask \in MASKS : WriteMask(k, mask)
                  \/ WriteICW(k)
          BY <4>8 DEF GuestWrite
        <5>2. CASE \E ic4 \in INITS : ICW1(k, ic4)
          <6>1. k # Master BY <3>6, <5>2
          <6>2. irr'[Master] = irr[Master] BY <1>0, <5>2, <6>1, InputLines DEF ICW1
          <6> QED BY <2>2, <3>1, <6>2
        <5> QED BY <2>2, <3>1, <5>1, <5>2 DEF OCW2, OCW3, WriteMask, WriteICW
      <4>9. CASE Cli \/ SetFlag BY <2>2, <3>1, <4>9 DEF Cli, SetFlag, chips
      <4>10. CASE UNCHANGED vars BY <2>2, <3>1, <4>10 DEF vars
      <4> QED BY <3>6, <4>1, <4>2, <4>3, <4>4, <4>5, <4>6, <4>7, <4>8, <4>9, <4>10
              DEF Next, Device
    <3> QED BY <3>3, <3>4, <3>5, <3>6
  <2> QED BY <2>1, <2>2
<1>3. CASE vsyncint
  <2>1. CASE ScreenVsyncRise
    <3>1. /\ vsyncint' = (CRTV \in isr[Master])
          /\ irr'[Master] = IF CRTV \in isr[Master] THEN irr[Master] \ {CRTV}
                            ELSE irr[Master] \cup {CRTV}
      BY <1>0, <2>1, InputLines DEF ScreenVsyncRise, VsyncPostponed
    <3> QED BY <3>1
  <2>2. CASE ~ ScreenVsyncRise
    <3>1. vsyncint'
      BY <1>3, <2>2
      DEF Next, PicIrq, CpuEnd, EventsEnd, Device, SetTimer, Picmask, ScreenDisp, GdcO64,
          PitWrite, PicSetirq, PicResetirq, WriteBack, PicSetirqByThread, GuestWrite, OCW2, OCW3,
          ICW1, WriteMask, WriteICW, Cli, SetFlag, vars
    <3> QED BY <3>1
  <2> QED BY <2>1, <2>2
<1>4. vsyncint \in BOOLEAN BY DEF IInv, TypeOK
<1> QED BY <1>2, <1>3, <1>4

\* The guest gets the vsync interrupt it has asked for.
THEOREM VsyncIsKept == Spec => KeepsVsync
<1>1. IInv /\ [Next]_vars =>
        [vsyncint \/ CRTV \in irr[Master] =>
            \/ vsyncint' \/ CRTV \in irr'[Master]
            \/ Acknowledged(Master, CRTV)
            \/ \E ic4 \in INITS : ICW1(Master, ic4)]_vars
  BY StepKeepsVsync
<1> QED BY <1>1, Invariance, PTL DEF Spec, KeepsVsync

-----------------------------------------------------------------------------
(***************************************************************************)
(* Requests that are let through                                           *)
(***************************************************************************)

\* What pic_irq accepts depends on the requests that are not masked, on what
\* is in service, on the priorities and on the interrupt flag.
LEMMA AcceptanceDepends ==
    ASSUME \A c \in Chip : Pending(c)' = Pending(c),
           MasterPending' = MasterPending,
           UNCHANGED <<isr, pry, smm, ei>>
    PROVE  AcceptsSome' = AcceptsSome
<1>1. ASSUME NEW c \in Chip PROVE Pending(c)' = Pending(c) /\ Held(c)' = Held(c)
  BY DEF Held
<1>2. ASSUME NEW c, NEW S PROVE First(c, S)' = First(c, S)
  BY DEF First, Rank
<1> QED BY <1>1, <1>2, InputLines DEF AcceptsSome, Accepts, AcceptsMaster, AcceptsSlave

\* A write of the mask that does not force the CPU out, and unmasks only,
\* leaves what is pending as it was.
LEMMA ClosedMaskChangesNothing ==
    ASSUME TypeOK, NEW c \in Chip, NEW mask \in MASKS, WriteMask(c, mask),
           ~ exit', ei, mask \subseteq imr[c], SLAVE \in imr[Master] => SLAVE \in imr'[Master]
    PROVE  (\A d \in Chip : Pending(d)' = Pending(d)) /\ MasterPending' = MasterPending
<1>1. /\ imr' = [imr EXCEPT ![c] = mask] /\ irr' = irr
      /\ exit' = Opens(c, mask)
  BY DEF WriteMask
<1>2. irr[c] \cap (imr[c] \ mask) = {} BY <1>1 DEF Opens
<1>3. imr'[c] = mask /\ \A d \in Chip : d # c => imr'[d] = imr[d] BY <1>1 DEF TypeOK
<1>4. irr[c] \ mask = irr[c] \ imr[c] BY <1>2
<1>5. \A d \in Chip : irr'[d] \ imr'[d] = irr[d] \ imr[d] BY <1>1, <1>3, <1>4
<1>6. \A d \in Chip : Pending(d)' = Pending(d) BY <1>5 DEF Pending
<1>7. SLAVE \in imr'[Master] <=> SLAVE \in imr[Master] BY <1>3, InputLines
<1>8. MasterPending' = MasterPending
  <2>1. irr'[Master] \ imr'[Master] = irr[Master] \ imr[Master] BY <1>5, InputLines
  <2>2. Pending(Slave)' = Pending(Slave) BY <1>6, InputLines
  <2>3. MasterPending = (irr[Master] \ imr[Master])
                        \cup ((IF Pending(Slave) = {} THEN {} ELSE {SLAVE}) \ imr[Master])
    BY DEF MasterPending
  <2>4. MasterPending' = (irr'[Master] \ imr'[Master])
                         \cup ((IF Pending(Slave)' = {} THEN {} ELSE {SLAVE}) \ imr'[Master])
    BY DEF MasterPending
  <2>5. (IF Pending(Slave) = {} THEN {} ELSE {SLAVE}) \ imr'[Master]
          = (IF Pending(Slave) = {} THEN {} ELSE {SLAVE}) \ imr[Master]
    BY <1>7
  <2> QED BY <2>1, <2>2, <2>3, <2>4, <2>5
<1> QED BY <1>6, <1>8

\* The instructions of the guest, one by one
LEMMA StepLetsThrough ==
    ASSUME TypeOK, GuestWrite \/ Cli \/ SetFlag, ~ AcceptsSome, AcceptsSome'
    PROVE  \/ exit'
           \/ \E c \in Chip, rr, esmm \in BOOLEAN, mode \in MODES :
                 OCW3(c, rr, esmm, mode) /\ smm'[c] # smm[c]
           \/ \E c \in Chip, ic4 \in INITS : ICW1(c, ic4)
           \/ \E c \in Chip, mask \in MASKS : WriteMask(c, mask) /\ ~ mask \subseteq imr[c]
           \/ \E mask \in MASKS : WriteMask(Master, mask) /\ SLAVE \in imr[Master] \ mask
<1>1. CASE SetFlag BY <1>1 DEF SetFlag
<1>2. CASE \E c \in Chip, cmd \in COMMANDS, n \in Line : OCW2(c, cmd, n)
  <2>1. PICK c \in Chip, cmd \in COMMANDS, n \in Line : OCW2(c, cmd, n) BY <1>2
  <2>2. CASE cmd.specific \/ isr[c] # {} BY <2>1, <2>2 DEF OCW2
  <2>3. CASE ~ (cmd.specific \/ isr[c] # {})
    <3>1. UNCHANGED <<irr, isr, imr, pry, smm, ei>> BY <2>1, <2>3 DEF OCW2
    <3>2. (\A d \in Chip : Pending(d)' = Pending(d)) /\ MasterPending' = MasterPending
      BY <3>1 DEF Pending, MasterPending
    <3>3. AcceptsSome' = AcceptsSome BY <3>1, <3>2, AcceptanceDepends
    <3> QED BY <3>3
  <2> QED BY <2>2, <2>3
<1>3. CASE \E c \in Chip, mask \in MASKS : WriteMask(c, mask)
  <2>1. PICK c \in Chip, mask \in MASKS : WriteMask(c, mask) BY <1>3
  <2> SUFFICES ASSUME ~ exit', mask \subseteq imr[c],
                      c = Master => SLAVE \notin imr[Master] \ mask
               PROVE  FALSE
    BY <2>1
  <2>2. UNCHANGED <<isr, pry, smm, ei>> /\ imr'[c] = mask BY <2>1 DEF WriteMask, TypeOK
  <2>3. ei
    <3>1. ei' BY DEF AcceptsSome, Accepts, AcceptsMaster, AcceptsSlave
    <3> QED BY <2>2, <3>1
  <2>4. SLAVE \in imr[Master] => SLAVE \in imr'[Master]
    <3>1. imr' = [imr EXCEPT ![c] = mask] BY <2>1 DEF WriteMask
    <3> QED BY <2>2, <3>1, InputLines DEF TypeOK
  <2>5. (\A d \in Chip : Pending(d)' = Pending(d)) /\ MasterPending' = MasterPending
    BY <2>1, <2>3, <2>4, ClosedMaskChangesNothing
  <2>6. AcceptsSome' = AcceptsSome BY <2>2, <2>5, AcceptanceDepends
  <2> QED BY <2>6
<1>4. CASE \E c \in Chip, rr, esmm \in BOOLEAN, mode \in MODES : OCW3(c, rr, esmm, mode)
  <2>1. PICK c \in Chip, rr \in BOOLEAN, esmm \in BOOLEAN, mode \in MODES :
            OCW3(c, rr, esmm, mode)
    BY <1>4
  <2> SUFFICES ASSUME smm'[c] = smm[c] PROVE FALSE BY <2>1
  <2>2. UNCHANGED <<irr, isr, imr, pry, ei>>
        /\ smm' = [smm EXCEPT ![c] = IF rr /\ esmm THEN mode ELSE @]
    BY <2>1 DEF OCW3
  <2>3. smm' = smm BY <2>2 DEF TypeOK
  <2>4. (\A d \in Chip : Pending(d)' = Pending(d)) /\ MasterPending' = MasterPending
    BY <2>2 DEF Pending, MasterPending
  <2>5. AcceptsSome' = AcceptsSome BY <2>2, <2>3, <2>4, AcceptanceDepends
  <2> QED BY <2>5
<1>5. CASE \E c \in Chip, ic4 \in INITS : ICW1(c, ic4) BY <1>5
<1>6. CASE \E c \in Chip : WriteICW(c) BY <1>6 DEF WriteICW
<1>7. CASE Cli
  <2>1. ~ ei' BY <1>7 DEF Cli
  <2> QED BY <2>1 DEF AcceptsSome, Accepts, AcceptsMaster, AcceptsSlave
<1> QED BY <1>1, <1>2, <1>3, <1>4, <1>5, <1>6, <1>7 DEF GuestWrite

\* Every interrupt that an instruction of the guest lets through (an EOI, a
\* rotation, STI, an ICW, a mask) makes the CPU leave its loop, but for those
\* the property names: OCW3, ICW1, the mask of the slave's line and masks that
\* mask other lines too.
THEOREM AlwaysLetThrough == Spec => LetThroughIsTaken
<1>1. TypeOK /\ [Next]_vars =>
        [ (GuestWrite \/ Cli \/ SetFlag) /\ ~ AcceptsSome /\ AcceptsSome' =>
            \/ exit'
            \/ \E c \in Chip, rr, esmm \in BOOLEAN, mode \in MODES :
                  OCW3(c, rr, esmm, mode) /\ smm'[c] # smm[c]
            \/ \E c \in Chip, ic4 \in INITS : ICW1(c, ic4)
            \/ \E c \in Chip, mask \in MASKS : WriteMask(c, mask) /\ ~ mask \subseteq imr[c]
            \/ \E mask \in MASKS :
                  WriteMask(Master, mask) /\ SLAVE \in imr[Master] \ mask]_vars
  BY StepLetsThrough
<1> QED BY <1>1, TypeCorrect, PTL DEF Spec, LetThroughIsTaken
=============================================================================
