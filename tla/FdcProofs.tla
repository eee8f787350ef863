----------------------------- MODULE FdcProofs -----------------------------
(***************************************************************************)
(* Proofs about Fdc and the DMA channel it drives, for any disks, lengths, *)
(* commands and mishaps.                                                   *)
(***************************************************************************)
EXTENDS Fdc, SequenceTheorems, TLAPS

-----------------------------------------------------------------------------
(***************************************************************************)
(* The loop of the CPU and the channel                                     *)
(***************************************************************************)

Booleans == {mask, ready, work, working, stepping, forced} \subseteq BOOLEAN

\* A channel is at work if the device asks for it and the guest lets it, and
\* bytes move only then.
WorkInv == /\ work <=> ~ mask /\ ready
           /\ working => work

\* A DMA cycle comes only in the loop that steps, and a forced exit is on its
\* way out as soon as the instruction ends.
LoopInv ==
    /\ phase = "dma" => stepping
    /\ phase = "cpu" => ~ forced
    /\ WorkingIsStepped

\* What every part of a step does to the channel: it starts only by forcing
\* the CPU out.
ChannelStep ==
    /\ {mask', ready', work', working', forced'} \subseteq BOOLEAN
    /\ work' <=> ~ mask' /\ ready'
    /\ working' => work'
    /\ working' => working \/ forced'

LEMMA CheckIsChannelStep ==
    ASSUME Booleans, NEW m \in BOOLEAN, NEW r \in BOOLEAN, DmacCheck(m, r)
    PROVE  ChannelStep /\ mask' = m /\ ready' = r
<1>1. mask' = m /\ ready' = r BY DEF DmacCheck
<1>2. working' => ~ m /\ r /\ (working \/ ~ work) BY DEF DmacCheck
<1>3. work' <=> ~ m /\ r BY DEF DmacCheck
<1>4. forced' <=> forced \/ work' # work BY DEF DmacCheck
<1>5. {work', working', forced'} \subseteq BOOLEAN BY DEF DmacCheck
<1> QED BY <1>1, <1>2, <1>3, <1>4, <1>5 DEF ChannelStep, Booleans

LEMMA NoDmacIsChannelStep ==
    ASSUME Booleans, WorkInv, NEW w \in BOOLEAN, w => working, NoDmac(w)
    PROVE  ChannelStep /\ UNCHANGED <<mask, ready>>
<1>1. UNCHANGED <<mask, ready, work, forced>> /\ working' = w BY DEF NoDmac
<1> QED BY <1>1 DEF ChannelStep, Booleans, WorkInv

LEMMA StillIsChannelStep ==
    ASSUME Booleans, WorkInv, UNCHANGED <<dmaVars, forced>>
    PROVE  ChannelStep
  BY DEF ChannelStep, Booleans, WorkInv, dmaVars

\* The loop: after an instruction, after a byte, and outside.
LEMMA InstructionKeepsLoop ==
    ASSUME Booleans, LoopInv, ChannelStep, Instruction
    PROVE  LoopInv' /\ phase' \in {"cpu", "dma", "out"} /\ stepping' \in BOOLEAN
<1>1. phase = "cpu" /\ (working => stepping) /\ UNCHANGED stepping
  BY DEF Instruction, AfterInstruction, LoopInv, WorkingIsStepped
<1>2. CASE stepping /\ working'
  BY <1>1, <1>2 DEF Instruction, AfterInstruction, LoopInv, WorkingIsStepped, Booleans
<1>3. CASE ~ (stepping /\ working')
  <2>1. AfterDma BY <1>3, Zenon DEF Instruction, AfterInstruction
  <2>2. working' /\ ~ forced' => stepping BY <1>1 DEF ChannelStep
  <2> QED BY <1>1, <2>1, <2>2 DEF AfterDma, LoopInv, WorkingIsStepped, Booleans
<1> QED BY <1>2, <1>3

LEMMA DmaKeepsLoop ==
    ASSUME Booleans, LoopInv, phase = "dma", AfterDma, UNCHANGED stepping
    PROVE  LoopInv' /\ phase' \in {"cpu", "dma", "out"} /\ stepping' \in BOOLEAN
  BY DEF AfterDma, LoopInv, WorkingIsStepped, Booleans

LEMMA EnterKeepsLoop ==
    ASSUME Booleans, EnterLoop, UNCHANGED dmaVars
    PROVE  LoopInv' /\ phase' \in {"cpu", "dma", "out"} /\ {stepping', forced'} \subseteq BOOLEAN
  BY DEF EnterLoop, LoopInv, WorkingIsStepped, Booleans, dmaVars

-----------------------------------------------------------------------------
(***************************************************************************)
(* Parts of commands                                                       *)
(***************************************************************************)

Phase == {"bufsend2", "bufrecv"}

LEMMA Sizes == 0 \in Drives /\ {EOT, BYTES, DELAY} \subseteq Nat \ {0}
  BY FdcAssumption

\* The registers keep their types when some of them are set.
LEMMA SetResult ==
    ASSUME NEW f \in Registers, NEW r \in {"success", "fault"}
    PROVE  LET g == [f EXCEPT !.event = "bufsend", !.tc = FALSE, !.bufcnt = 0, !.result = r]
           IN  g \in Registers /\ g.event = "bufsend" /\ g.tc = FALSE
<1>1. 0 \in 0 .. BYTES BY Sizes
<1> QED BY <1>1 DEF Registers

LEMMA SetBuffer ==
    ASSUME NEW f \in Registers, NEW p \in Phase
    PROVE  LET g == [f EXCEPT !.event = p, !.bufcnt = BYTES]
           IN  g \in Registers /\ g.event = p /\ g.tc = f.tc /\ g.bufcnt \in 1 .. BYTES
<1>1. BYTES \in 0 .. BYTES /\ BYTES \in 1 .. BYTES BY Sizes
<1>2. p \in {"bufsend2", "bufrecv"} BY DEF Phase
<1> QED BY <1>1, <1>2 DEF Registers

\* What a part leaves behind.
Sound ==
    /\ fdc' \in Registers
    /\ stat' \in [Drives -> Stat]
    /\ armed' \in BOOLEAN
    /\ ChannelStep
    /\ mask' = mask

\* The result phase has begun, and the request for DMA is down; or the data
\* phase p goes on, with the request as it was or up.
Answered == fdc'.event = "bufsend" /\ ~ ready' /\ ~ fdc'.tc

GoesOn(f, p) ==
    /\ fdc'.event = p
    /\ ready' \/ ready' = ready
    /\ fdc'.tc = f.tc
    /\ fdc'.bufcnt \in 1 .. BYTES

\* The types and lines a part starts from
PartAssumption ==
    /\ Booleans /\ WorkInv
    /\ stat \in [Drives -> Stat]
    /\ armed \in BOOLEAN

LEMMA AnswerIs ==
    ASSUME PartAssumption, NEW f \in Registers, NEW r \in {"success", "fault"}, Answer(f, r)
    PROVE  Sound /\ Answered
<1>1. DmacCheck(mask, FALSE) BY DEF Answer
<1>2. ChannelStep /\ mask' = mask /\ ready' = FALSE
  BY <1>1, CheckIsChannelStep DEF PartAssumption, Booleans
<1>3. fdc' = [f EXCEPT !.event = "bufsend", !.tc = FALSE, !.bufcnt = 0, !.result = r]
  BY DEF Answer
<1>4. fdc' \in Registers /\ fdc'.event = "bufsend" /\ fdc'.tc = FALSE
  BY <1>3, SetResult
<1>5. stat' \in [Drives -> Stat] BY DEF Answer, PartAssumption, Registers, Stat
<1>6. armed' = TRUE BY DEF Answer
<1> QED BY <1>2, <1>4, <1>5, <1>6 DEF Sound, Answered

LEMMA BufferIs ==
    ASSUME PartAssumption, NEW f \in Registers, NEW p \in Phase, Buffer(f, p)
    PROVE  /\ fdc' \in Registers /\ fdc'.event = p /\ fdc'.tc = f.tc
           /\ fdc'.bufcnt \in 1 .. BYTES
           /\ stat' \in [Drives -> Stat]
           /\ armed' \in BOOLEAN
<1>1. fdc' = [f EXCEPT !.event = p, !.bufcnt = BYTES] BY DEF Buffer
<1>2. /\ fdc' \in Registers /\ fdc'.event = p /\ fdc'.tc = f.tc
      /\ fdc'.bufcnt \in 1 .. BYTES
  BY <1>1, SetBuffer
<1>3. stat' \in [Drives -> Stat] BY DEF Buffer, PartAssumption, Registers, Stat
<1>4. armed' = armed BY DEF Buffer
<1> QED BY <1>2, <1>3, <1>4 DEF PartAssumption

LEMMA DataIs ==
    ASSUME PartAssumption, NEW f \in Registers, NEW p \in Phase, Data(f, p)
    PROVE  Sound /\ GoesOn(f, p) /\ ready'
<1>1. DmacCheck(mask, TRUE) /\ Buffer(f, p) BY DEF Data
<1>2. ChannelStep /\ mask' = mask /\ ready' = TRUE
  BY <1>1, CheckIsChannelStep DEF PartAssumption, Booleans
<1> QED BY <1>1, <1>2, BufferIs DEF Sound, GoesOn

Outcome(f, p) == Sound /\ (Answered \/ GoesOn(f, p))

LEMMA ReadSectorIs ==
    ASSUME PartAssumption, NEW f \in Registers, ReadSector(f)
    PROVE  Outcome(f, "bufsend2") /\ (Answered \/ ready')
  BY AnswerIs, DataIs DEF ReadSector, Outcome, Phase

LEMMA OtherSideIs ==
    ASSUME NEW f \in Registers
    PROVE  OtherSide(f) \in Registers /\ OtherSide(f).tc = f.tc
<1>1. 1 \in 1 .. EOT BY Sizes
<1>2. \A h \in Side : (IF f.mt THEN 1 - h ELSE h) \in Side BY DEF Side
<1>3. (IF f.mt THEN 1 - f.hd ELSE f.hd) \in Side /\ (IF f.mt THEN 1 - f.H ELSE f.H) \in Side
  BY <1>2 DEF Registers
<1> QED BY <1>1, <1>3 DEF OtherSide, Registers

LEMMA NextSectorIs ==
    ASSUME NEW f \in Registers, f.R # EOT
    PROVE  /\ [f EXCEPT !.R = @ + 1] \in Registers
           /\ [f EXCEPT !.R = @ + 1].tc = f.tc
  BY FdcAssumption DEF Registers

LEMMA ReadNextIs ==
    ASSUME PartAssumption, NEW f \in Registers, ReadNext(f)
    PROVE  Outcome(f, "bufsend2")
<1>1. CASE f.R # EOT
  <2>1. ReadSector([f EXCEPT !.R = @ + 1]) BY <1>1 DEF ReadNext
  <2> QED BY <1>1, <2>1, NextSectorIs, ReadSectorIs DEF Outcome, GoesOn
<1>2. CASE f.R = EOT
  <2>1. ReadSector(OtherSide(f)) \/ Answer(OtherSide(f), "success") BY <1>2 DEF ReadNext
  <2> QED BY <2>1, OtherSideIs, ReadSectorIs, AnswerIs DEF Outcome, GoesOn
<1> QED BY <1>1, <1>2

\* One byte less in the buffer
LEMMA ByteIs ==
    ASSUME NEW f \in Registers, f.bufcnt # 0
    PROVE  LET g == [f EXCEPT !.bufcnt = @ - 1]
           IN  g \in Registers /\ g.tc = f.tc /\ g.event = f.event /\ g.bufcnt = f.bufcnt - 1
  BY FdcAssumption DEF Registers

LEMMA FirstSectorIs ==
    ASSUME NEW f \in Registers
    PROVE  [f EXCEPT !.R = 1] \in Registers
  BY FdcAssumption DEF Registers

LEMMA ReadByteIs ==
    ASSUME PartAssumption, NEW f \in Registers, f.event = "bufsend2", f.bufcnt # 0,
           NEW w \in BOOLEAN, w => working, ReadByte(f, w)
    PROVE  Outcome(f, "bufsend2") /\ (f.tc => Answered)
<1> DEFINE g == [f EXCEPT !.bufcnt = @ - 1]
<1>1. g \in Registers /\ g.tc = f.tc /\ g.event = f.event /\ g.bufcnt = f.bufcnt - 1
  BY ByteIs
<1>2. \/ f.tc /\ Answer([g EXCEPT !.R = 1], "success")
      \/ ~ f.tc /\ g.bufcnt = 0 /\ ReadNext(g)
      \/ ~ f.tc /\ g.bufcnt # 0 /\ fdc' = g /\ NoDmac(w) /\ UNCHANGED <<stat, armed>>
  BY DEF ReadByte
<1> HIDE DEF g
<1>3. CASE f.tc /\ Answer([g EXCEPT !.R = 1], "success")
  BY <1>1, <1>3, FirstSectorIs, AnswerIs DEF Outcome
<1>4. CASE ~ f.tc /\ g.bufcnt = 0 /\ ReadNext(g)
  BY <1>1, <1>4, ReadNextIs DEF Outcome, GoesOn
<1>5. CASE ~ f.tc /\ g.bufcnt # 0 /\ fdc' = g /\ NoDmac(w) /\ UNCHANGED <<stat, armed>>
  <2>1. ChannelStep /\ UNCHANGED <<mask, ready>>
    BY <1>5, NoDmacIsChannelStep DEF PartAssumption
  <2>2. g.bufcnt \in 1 .. BYTES BY <1>1, <1>5, FdcAssumption DEF Registers
  <2> QED BY <1>1, <1>5, <2>1, <2>2 DEF Outcome, Sound, GoesOn, PartAssumption
<1> QED BY <1>2, <1>3, <1>4, <1>5

LEMMA WriteNextIs ==
    ASSUME PartAssumption, NEW f \in Registers, WriteNext(f)
    PROVE  Outcome(f, "bufrecv") /\ (f.tc => Answered)
<1>1. \/ Answer(f, "fault")
      \/ ~ f.tc /\ f.R # EOT /\ Data([f EXCEPT !.R = @ + 1], "bufrecv")
      \/ ~ f.tc /\ Data(OtherSide(f), "bufrecv")
      \/ Answer(OtherSide(f), "success")
  BY DEF WriteNext
<1> QED BY <1>1, AnswerIs, DataIs, NextSectorIs, OtherSideIs DEF Outcome, GoesOn, Phase

LEMMA WriteByteIs ==
    ASSUME PartAssumption, NEW f \in Registers, f.event = "bufrecv", f.bufcnt # 0,
           NEW w \in BOOLEAN, w => working, WriteByte(f, w)
    PROVE  Outcome(f, "bufrecv") /\ (f.tc => Answered)
<1> DEFINE g == [f EXCEPT !.bufcnt = @ - 1]
<1>1. g \in Registers /\ g.tc = f.tc /\ g.event = f.event /\ g.bufcnt = f.bufcnt - 1
  BY ByteIs
<1>2. \/ WriteNext(g)
      \/ ~ f.tc /\ g.bufcnt # 0 /\ fdc' = g /\ NoDmac(w) /\ UNCHANGED <<stat, armed>>
  BY DEF WriteByte
<1> HIDE DEF g
<1>3. CASE WriteNext(g)
  BY <1>1, <1>3, WriteNextIs DEF Outcome, GoesOn
<1>4. CASE ~ f.tc /\ g.bufcnt # 0 /\ fdc' = g /\ NoDmac(w) /\ UNCHANGED <<stat, armed>>
  <2>1. ChannelStep /\ UNCHANGED <<mask, ready>>
    BY <1>4, NoDmacIsChannelStep DEF PartAssumption
  <2>2. g.bufcnt \in 1 .. BYTES BY <1>1, <1>4, FdcAssumption DEF Registers
  <2> QED BY <1>1, <1>4, <2>1, <2>2 DEF Outcome, Sound, GoesOn, PartAssumption
<1> QED BY <1>2, <1>3, <1>4

-----------------------------------------------------------------------------
(***************************************************************************)
(* The inductive invariant                                                 *)
(***************************************************************************)

LoopPart == DmacTypeOK /\ WorkInv /\ LoopInv

DevicePart ==
    /\ stat \in [Drives -> Stat] /\ delayed \in [Drives -> Stat]
    /\ timer \in [Drives -> 0 .. DELAY]
    /\ disk \in [Drives -> {"in", "coming", "out"}]
    /\ {armed, irq, clean, cut} \subseteq BOOLEAN
    /\ seeking \subseteq Drives

\* A result is never held back by the channel, and bytes are left in the
\* buffer while the data phase lasts.
RegisterPart ==
    /\ fdc \in Registers
    /\ fdc.event = "bufsend" => ~ ready /\ ~ fdc.tc
    /\ fdc.event \in Phase => fdc.bufcnt # 0

\* The request is up in a data phase; elsewhere, like a terminal count, only
\* after a reset by bit 80h.
CutPart ==
    /\ fdc.event \in Phase => ready
    /\ (ready /\ fdc.event \notin Phase) \/ fdc.tc => cut

\* The channel goes the way of the command, but for such a reset.
Way(p) == IF p = "bufsend2" THEN "read" ELSE "write"

WayPart ==
    /\ fdc.event = "cmdrecv" /\ fdc.op \in {"read", "write"} /\ ~ ready => dir = fdc.op
    /\ fdc.event \in Phase /\ (clean \/ ~ cut) => dir = Way(fdc.event)
    /\ fdc.event \in {"neutral", "cmdrecv"} => ~ clean

IInv == LoopPart /\ DevicePart /\ RegisterPart /\ CutPart /\ WayPart

LEMMA InvariantHasTypes == IInv => TypeOK
  BY DEF IInv, LoopPart, DevicePart, RegisterPart, TypeOK

LEMMA InvariantServes == IInv => ChannelServesPhase /\ WorkingIsStepped
<1> SUFFICES ASSUME IInv PROVE ChannelServesPhase /\ WorkingIsStepped OBVIOUS
<1>1. working => ready BY DEF IInv, LoopPart, WorkInv
<1>2. WorkingIsStepped BY DEF IInv, LoopPart, LoopInv
<1>3. fdc.event = "bufsend" => ~ ready /\ ~ fdc.tc BY DEF IInv, RegisterPart
<1>4. CutPart BY DEF IInv
<1> QED BY <1>1, <1>2, <1>3, <1>4 DEF CutPart, ChannelServesPhase, Phase

LEMMA InvariantAssumptions == IInv => PartAssumption
  BY DEF IInv, LoopPart, DevicePart, DmacTypeOK, PartAssumption, Booleans

LEMMA RestIs ==
    ASSUME NEW f \in Registers
    PROVE  Rest(f) \in Registers /\ Rest(f).event = "neutral" /\ Rest(f).tc = f.tc
<1>1. 0 \in 0 .. BYTES /\ 1 \in 1 .. EOT /\ 0 \in Side BY Sizes DEF Side
<1> QED BY <1>1 DEF Rest, Registers, Op

LEMMA InitInvariant == Init => IInv
<1> SUFFICES ASSUME Init PROVE IInv OBVIOUS
<1> USE DEF Init
<1>1. DmacTypeOK /\ WorkInv /\ LoopInv
  <2>1. 0 \in 0 .. LENGMOD - 1 BY DmacAssumption
  <2>2. DmacTypeOK BY <2>1 DEF DmacInit, DmacTypeOK
  <2> QED BY <2>2 DEF DmacInit, WorkInv, LoopInv, WorkingIsStepped
<1>2. DevicePart
  <2>1. 0 \in 0 .. DELAY BY Sizes
  <2> QED BY <2>1 DEF DevicePart, Stat
<1>3. fdc \in Registers
  <2>1. 0 \in Drives /\ 0 \in 0 .. BYTES /\ 1 \in 1 .. EOT /\ 0 \in Side BY Sizes DEF Side
  <2> QED BY <2>1 DEF Registers, Op
<1>4. RegisterPart /\ CutPart /\ WayPart
  BY <1>3 DEF RegisterPart, CutPart, WayPart, WayPart, DmacInit, Phase
<1> QED BY <1>1, <1>2, <1>4 DEF IInv, LoopPart

\* What an instruction does to the loop, if it is fair to the channel
LEMMA InstructionKeepsLoopPart ==
    ASSUME IInv, ChannelStep, Instruction,
           leng' \in 0 .. LENGMOD - 1, dir' \in {"read", "write"}
    PROVE  LoopPart'
<1>1. Booleans /\ WorkInv /\ LoopInv BY DEF IInv, LoopPart, DmacTypeOK, Booleans
<1>2. LoopInv' /\ phase' \in {"cpu", "dma", "out"} /\ stepping' \in BOOLEAN
  BY <1>1, InstructionKeepsLoop
<1> QED BY <1>2 DEF LoopPart, DmacTypeOK, ChannelStep, WorkInv

LEMMA InstructionLeaves ==
    ASSUME IInv, ChannelStep, Instruction, UNCHANGED <<leng, dir>>
    PROVE  LoopPart'
  BY InstructionKeepsLoopPart DEF IInv, LoopPart, DmacTypeOK

-----------------------------------------------------------------------------
(***************************************************************************)
(* The steps                                                               *)
(***************************************************************************)

LEMMA ComputeKeeps == ASSUME IInv, Compute PROVE IInv'
<1> USE DEF Compute
<1>1. ChannelStep BY InvariantAssumptions, StillIsChannelStep DEF PartAssumption
<1>2. LoopPart' BY <1>1, InstructionLeaves DEF dmaVars
<1>3. DevicePart' BY DEF IInv, DevicePart, devVars, ghosts
<1>4. RegisterPart' /\ CutPart' /\ WayPart'
  BY DEF IInv, RegisterPart, CutPart, WayPart, dmaVars, ghosts
<1> QED BY <1>2, <1>3, <1>4 DEF IInv

LEMMA MaskKeeps ==
    ASSUME IInv, Instruction, NEW m \in BOOLEAN, DmacCheck(m, ready),
           UNCHANGED <<leng, dir, fdc, devVars, ghosts>>
    PROVE  IInv'
<1>1. Booleans /\ ready \in BOOLEAN BY InvariantAssumptions DEF PartAssumption, Booleans
<1>2. ChannelStep /\ ready' = ready BY <1>1, CheckIsChannelStep
<1>3. LoopPart' BY <1>2, InstructionLeaves
<1>4. DevicePart' BY DEF IInv, DevicePart, devVars, ghosts
<1>5. RegisterPart' /\ CutPart' /\ WayPart'
  BY <1>2 DEF IInv, RegisterPart, CutPart, WayPart, ghosts
<1> QED BY <1>3, <1>4, <1>5 DEF IInv

LEMMA UnmaskKeeps == ASSUME IInv, Unmask PROVE IInv'
  BY MaskKeeps DEF Unmask

LEMMA PauseKeeps == ASSUME IInv, Pause PROVE IInv'
  BY MaskKeeps DEF Pause

LEMMA CommandIs ==
    ASSUME IInv, NEW op \in Op, NEW mt \in BOOLEAN, Command(op, mt)
    PROVE  fdc' \in Registers /\ fdc'.event = "cmdrecv" /\ fdc'.op = op /\ fdc'.tc = fdc.tc
  BY DEF IInv, RegisterPart, Registers, Command

LEMMA FirstByteKeeps ==
    ASSUME IInv, NEW op \in {"readid", "seek"}, FirstByte(op) PROVE IInv'
<1> USE DEF FirstByte
<1>1. Command(op, FALSE) /\ NoDmac(working) OBVIOUS
<1>2. /\ fdc.event = "neutral" /\ Instruction
      /\ UNCHANGED <<devVars, ghosts>>
  BY DEF Command
<1>3. fdc' \in Registers /\ fdc'.event = "cmdrecv" /\ fdc'.op = op /\ fdc'.tc = fdc.tc
  BY <1>1, CommandIs DEF Op
<1>4. Booleans /\ WorkInv /\ working \in BOOLEAN
  BY InvariantAssumptions DEF PartAssumption, Booleans
<1>5. ChannelStep /\ ready' = ready BY <1>1, <1>4, NoDmacIsChannelStep
<1>6. LoopPart' BY <1>2, <1>5, InstructionLeaves
<1>7. DevicePart' BY <1>2 DEF IInv, DevicePart, devVars, ghosts
<1>8. RegisterPart' /\ CutPart' /\ WayPart'
  BY <1>2, <1>3, <1>5 DEF IInv, RegisterPart, CutPart, WayPart, Phase, ghosts
<1> QED BY <1>6, <1>7, <1>8 DEF IInv

LEMMA FirstByteOfTransferKeeps ==
    ASSUME IInv, NEW op \in {"read", "write"}, NEW mt \in BOOLEAN, NEW n \in Lengths,
           FirstByteOfTransfer(op, mt, n)
    PROVE  IInv'
<1> USE DEF FirstByteOfTransfer
<1>1. Command(op, mt) /\ DmacCheck(TRUE, ready) /\ leng' = n /\ dir' = op OBVIOUS
<1>2. /\ fdc.event = "neutral" /\ Instruction
      /\ UNCHANGED <<devVars, ghosts>>
  BY DEF Command
<1>3. fdc' \in Registers /\ fdc'.event = "cmdrecv" /\ fdc'.op = op /\ fdc'.tc = fdc.tc
  BY <1>1, CommandIs DEF Op
<1>4. Booleans /\ ready \in BOOLEAN BY InvariantAssumptions DEF PartAssumption, Booleans
<1>5. ChannelStep /\ ready' = ready BY <1>1, <1>4, CheckIsChannelStep
<1>6. LoopPart'
  <2>1. leng' \in 0 .. LENGMOD - 1 BY <1>1, FdcAssumption
  <2> QED BY <1>1, <1>2, <1>5, <2>1, InstructionKeepsLoopPart
<1>7. DevicePart' BY <1>2 DEF IInv, DevicePart, devVars, ghosts
<1>8. RegisterPart' /\ CutPart' /\ WayPart'
  BY <1>1, <1>2, <1>3, <1>5 DEF IInv, RegisterPart, CutPart, WayPart, Phase, ghosts
<1> QED BY <1>6, <1>7, <1>8 DEF IInv

\* What a part of a command makes of the registers
LEMMA OutcomeKeepsRegisters ==
    ASSUME NEW f, NEW p \in Phase, Outcome(f, p)
    PROVE  RegisterPart'
<1>1. CASE Answered
  BY <1>1 DEF Outcome, Sound, Answered, RegisterPart, Phase
<1>2. CASE GoesOn(f, p)
  <2>1. fdc'.event = p /\ fdc'.bufcnt # 0 /\ fdc' \in Registers
    BY <1>2, Sizes DEF Outcome, Sound, GoesOn
  <2> QED BY <2>1 DEF RegisterPart, Phase
<1> QED BY <1>1, <1>2 DEF Outcome

LEMMA OutcomeKeepsWay ==
    ASSUME NEW f, NEW p \in Phase, Outcome(f, p),
           GoesOn(f, p) /\ (clean' \/ ~ cut') => dir' = Way(p)
    PROVE  WayPart'
<1>1. CASE Answered BY <1>1 DEF Answered, WayPart, Phase
<1>2. CASE GoesOn(f, p)
  <2>1. fdc'.event = p /\ p \notin {"neutral", "cmdrecv"} BY <1>2 DEF GoesOn, Phase
  <2> QED BY <1>2, <2>1 DEF WayPart
<1> QED BY <1>1, <1>2 DEF Outcome

LEMMA StartTransferIs ==
    ASSUME PartAssumption, NEW f \in Registers, f.op \in {"read", "write"}, StartTransfer(f)
    PROVE  LET p == IF f.op = "read" THEN "bufsend2" ELSE "bufrecv"
           IN  Outcome(f, p) /\ (Answered \/ ready')
<1>1. CASE f.op = "read"
  <2>1. ReadSector(f) BY <1>1 DEF StartTransfer
  <2> QED BY <1>1, <2>1, ReadSectorIs
<1>2. CASE f.op = "write"
  <2>1. Data(f, "bufrecv") \/ Answer(f, "fault") BY <1>2 DEF StartTransfer
  <2> QED BY <1>2, <2>1, DataIs, AnswerIs DEF Outcome, Phase
<1> QED BY <1>1, <1>2

LEMMA LastParameterKeeps ==
    ASSUME IInv, NEW us \in Drives, NEW hd \in Side, NEW r \in 1 .. EOT,
           LastParameter(us, hd, r)
    PROVE  IInv'
<1> DEFINE f == [fdc EXCEPT !.us = us, !.hd = hd, !.H = hd, !.R = r]
<1>1. /\ fdc.event = "cmdrecv" /\ Instruction
      /\ cut' = (cut /\ fdc'.event # "bufsend")
      /\ UNCHANGED <<leng, dir, disk, irq>>
      /\ \/ f.op \in {"read", "write"} /\ StartTransfer(f)
         \/ f.op \notin {"read", "write"} /\ ReadID(f)
         \/ f.op \notin {"read", "write"} /\ SeekDrive(f)
  BY DEF LastParameter
<1>2. f \in Registers /\ f.op = fdc.op /\ f.tc = fdc.tc /\ f.us = us
  BY DEF IInv, RegisterPart, Registers
<1> HIDE DEF f
<1>3. PartAssumption BY InvariantAssumptions
<1>4. CASE f.op \in {"read", "write"} /\ StartTransfer(f)
  <2> DEFINE p == IF f.op = "read" THEN "bufsend2" ELSE "bufrecv"
  <2>1. Outcome(f, p) /\ (Answered \/ ready') BY <1>2, <1>3, <1>4, StartTransferIs
  <2>2. p \in Phase /\ Way(p) = f.op BY <1>4 DEF Phase, Way
  <2> HIDE DEF p
  <2>3. LoopPart' BY <1>1, <2>1, InstructionLeaves DEF Outcome, Sound
  <2>4. UNCHANGED <<timer, delayed, seeking>> /\ clean' \in BOOLEAN
    BY <1>4 DEF StartTransfer
  <2>5. DevicePart' BY <1>1, <2>1, <2>4 DEF IInv, DevicePart, Outcome, Sound
  <2>6. RegisterPart' BY <2>1, <2>2, OutcomeKeepsRegisters
  <2>7. Answered => CutPart' BY DEF CutPart, Answered, Phase
  <2>8. GoesOn(f, p) => fdc'.event = p /\ fdc'.event # "bufsend" /\ fdc'.tc = fdc.tc
    BY <1>2, <2>2 DEF GoesOn, Phase
  <2>9. GoesOn(f, p) => cut' = cut BY <1>1, <2>8 DEF IInv, DevicePart
  <2>10. ASSUME ready', GoesOn(f, p) PROVE CutPart'
    BY <2>2, <2>8, <2>9, <2>10 DEF IInv, CutPart
  <2>11. clean' => ~ ready BY <1>4 DEF StartTransfer
  <2>12. ~ cut => ~ ready BY <1>1 DEF IInv, CutPart, Phase
  <2>13. ~ ready => dir = f.op BY <1>1, <1>2, <1>4 DEF IInv, WayPart
  <2>14. WayPart'
    BY <1>1, <2>1, <2>2, <2>9, <2>11, <2>12, <2>13, OutcomeKeepsWay
  <2> QED BY <2>1, <2>3, <2>5, <2>6, <2>7, <2>10, <2>14 DEF IInv, Outcome
<1>5. CASE ReadID(f)
  <2>1. Sound /\ Answered BY <1>2, <1>3, <1>5, AnswerIs DEF ReadID
  <2>2. LoopPart' BY <1>1, <2>1, InstructionLeaves DEF Sound
  <2>3. DevicePart' BY <1>1, <1>5, <2>1 DEF IInv, DevicePart, Sound, ReadID
  <2>4. RegisterPart' /\ CutPart' /\ WayPart'
    BY <2>1 DEF RegisterPart, CutPart, WayPart, Sound, Answered, Phase
  <2> QED BY <2>2, <2>3, <2>4 DEF IInv
<1>6. CASE SeekDrive(f)
  <2>1. fdc' \in Registers /\ fdc'.event = "neutral" /\ fdc'.tc = fdc.tc
    BY <1>2, <1>6, RestIs DEF SeekDrive, Seek
  <2>2. NoDmac(working) BY <1>6 DEF SeekDrive, Seek
  <2>3. Booleans /\ WorkInv /\ working \in BOOLEAN BY <1>3 DEF PartAssumption, Booleans
  <2>4. ChannelStep /\ ready' = ready BY <2>2, <2>3, NoDmacIsChannelStep
  <2>5. LoopPart' BY <1>1, <2>4, InstructionLeaves
  <2>6. timer' \in [Drives -> 0 .. DELAY]
    <3>1. DELAY \in 0 .. DELAY BY Sizes
    <3> QED BY <1>6, <3>1 DEF SeekDrive, Seek, IInv, DevicePart
  <2>7. delayed' \in [Drives -> Stat] BY <1>6 DEF SeekDrive, Seek, IInv, DevicePart, Stat
  <2>8. DevicePart' BY <1>1, <1>2, <1>6, <2>6, <2>7 DEF SeekDrive, Seek, IInv, DevicePart
  <2>9. RegisterPart' BY <2>1 DEF RegisterPart, Phase
  <2>10. cut' = cut BY <1>1, <2>1 DEF IInv, DevicePart
  <2>11. CutPart' BY <1>1, <2>1, <2>4, <2>10 DEF IInv, CutPart, Phase
  <2>12. ~ clean' BY <1>1, <1>6 DEF SeekDrive, IInv, WayPart
  <2>13. WayPart' BY <2>1, <2>12 DEF WayPart, Phase
  <2> QED BY <2>5, <2>8, <2>9, <2>11, <2>13 DEF IInv
<1> QED BY <1>1, <1>4, <1>5, <1>6

LEMMA ControlKeeps ==
    ASSUME IInv, NEW request \in BOOLEAN, NEW line \in BOOLEAN, NEW notify \in BOOLEAN,
           NEW attend \in BOOLEAN, Control(request, line, notify, attend)
    PROVE  IInv'
<1> USE DEF Control
<1>1. /\ Instruction /\ UNCHANGED <<leng, dir, stat, disk, armed, irq>>
      /\ cut' = (cut \/ (line /\ ~ request /\ ready))
  OBVIOUS
<1>2. Booleans /\ WorkInv /\ {mask, ready, working, cut} \subseteq BOOLEAN
  BY InvariantAssumptions DEF PartAssumption, Booleans, IInv, DevicePart
<1>3. ChannelStep /\ ready' = (ready /\ ~ request)
  <2>1. CASE request
    <3>1. DmacCheck(mask, FALSE) BY <2>1
    <3> QED BY <1>2, <2>1, <3>1, CheckIsChannelStep
  <2>2. CASE ~ request
    <3>1. NoDmac(working) BY <2>2
    <3> QED BY <1>2, <2>2, <3>1, NoDmacIsChannelStep
  <2> QED BY <2>1, <2>2
<1>4. LoopPart' BY <1>1, <1>3, InstructionLeaves
<1>5. timer' \in [Drives -> 0 .. DELAY] /\ delayed' \in [Drives -> Stat]
  <2>1. DELAY \in 0 .. DELAY BY Sizes
  <2> QED BY <2>1 DEF IInv, DevicePart, Stat
<1>6. CASE request \/ line
  <2>1. fdc' = Rest(fdc) /\ Disturbed /\ seeking' = {} BY <1>6
  <2>2. fdc' \in Registers /\ fdc'.event = "neutral" /\ fdc'.tc = fdc.tc
    BY <2>1, RestIs DEF IInv, RegisterPart
  <2>3. DevicePart' BY <1>1, <1>2, <1>5, <2>1 DEF IInv, DevicePart, Disturbed
  <2>4. RegisterPart' BY <2>2 DEF RegisterPart, Phase
  <2>5. CutPart' BY <1>1, <1>3, <1>6, <2>2 DEF IInv, CutPart, Phase
  <2>6. WayPart' BY <2>1, <2>2 DEF WayPart, Disturbed, Phase
  <2> QED BY <1>4, <2>3, <2>4, <2>5, <2>6 DEF IInv
<1>7. CASE ~ (request \/ line)
  <2>1. UNCHANGED <<fdc, asked, moved, clean, seeking>> /\ ready' = ready /\ cut' = cut
    BY <1>1, <1>2, <1>3, <1>7
  <2>2. DevicePart' BY <1>1, <1>2, <1>5, <2>1 DEF IInv, DevicePart
  <2>3. RegisterPart' BY <2>1 DEF IInv, RegisterPart
  <2>4. CutPart' BY <2>1 DEF IInv, CutPart
  <2>5. WayPart' BY <1>1, <2>1 DEF IInv, WayPart
  <2> QED BY <1>4, <2>2, <2>3, <2>4, <2>5 DEF IInv
<1> QED BY <1>6, <1>7

\* The handler: it ends a command, leaves a write alone, or takes the data of
\* a read for the result.
LEMMA HandlerSensesKeeps ==
    ASSUME IInv, HandlerSenses, Instruction,
           UNCHANGED <<leng, dir, timer, delayed, disk>>, irq' = FALSE
    PROVE  IInv'
<1> USE DEF HandlerSenses
<1>1. fdc' \in Registers /\ fdc'.event = "neutral" /\ fdc'.tc = fdc.tc
  BY RestIs DEF IInv, RegisterPart
<1>2. Booleans /\ WorkInv /\ working \in BOOLEAN
  BY InvariantAssumptions DEF PartAssumption, Booleans
<1>3. ChannelStep /\ ready' = ready BY <1>2, NoDmacIsChannelStep
<1>4. LoopPart' BY <1>3, InstructionLeaves
<1>5. DevicePart' BY DEF IInv, DevicePart, Disturbed, Stat
<1>6. RegisterPart' /\ CutPart' /\ WayPart'
  BY <1>1, <1>3 DEF IInv, RegisterPart, CutPart, WayPart, Phase, Disturbed
<1> QED BY <1>4, <1>5, <1>6 DEF IInv

LEMMA HandlerLeavesKeeps ==
    ASSUME IInv, HandlerLeaves, Instruction,
           UNCHANGED <<leng, dir, timer, delayed, disk>>, irq' = FALSE
    PROVE  IInv'
<1> USE DEF HandlerLeaves
<1>1. Booleans /\ WorkInv /\ working \in BOOLEAN
  BY InvariantAssumptions DEF PartAssumption, Booleans
<1>2. ChannelStep /\ ready' = ready BY <1>1, NoDmacIsChannelStep
<1>3. LoopPart' BY <1>2, InstructionLeaves
<1>4. DevicePart' BY DEF IInv, DevicePart, ghosts
<1>5. RegisterPart' /\ CutPart' /\ WayPart'
  BY <1>2 DEF IInv, RegisterPart, CutPart, WayPart, ghosts
<1> QED BY <1>3, <1>4, <1>5 DEF IInv

\* A part that moves a byte ends the transfer or goes on with it.
LEMMA OutcomeKeepsCut ==
    ASSUME IInv, NEW f \in Registers, NEW p \in Phase, Outcome(f, p),
           f.tc => Answered, fdc.event = p
    PROVE  CutPart'
<1>1. Answered => CutPart' BY DEF CutPart, Answered, Phase
<1>2. ASSUME GoesOn(f, p), ~ f.tc PROVE CutPart'
  <2>1. fdc'.event = p /\ ~ fdc'.tc /\ (ready => ready') BY <1>2 DEF GoesOn
  <2> QED BY <2>1 DEF IInv, CutPart
<1> QED BY <1>1, <1>2 DEF Outcome

LEMMA HandlerDrainsKeeps ==
    ASSUME IInv, HandlerDrains, Instruction,
           UNCHANGED <<leng, dir, timer, delayed, disk>>, irq' = FALSE
    PROVE  IInv'
<1> USE DEF HandlerDrains
<1>1. fdc \in Registers /\ fdc.event = "bufsend2" /\ fdc.bufcnt # 0
  BY DEF IInv, RegisterPart, Phase
<1>2. PartAssumption BY InvariantAssumptions
<1>3. CASE /\ fdc' = [Rest(fdc) EXCEPT !.tc = FALSE]
           /\ stat' = [d \in Drives |-> "none"]
           /\ seeking' = {d \in seeking : stat[d] = "none"}
           /\ DmacCheck(mask, FALSE)
           /\ armed' = TRUE
           /\ cut' = FALSE
  <2>1. fdc' \in Registers /\ fdc'.event = "neutral" /\ fdc'.tc = FALSE
    <3> DEFINE g == Rest(fdc)
    <3>1. g \in Registers /\ g.event = "neutral" BY <1>1, RestIs
    <3> HIDE DEF g
    <3>2. fdc' = [g EXCEPT !.tc = FALSE] BY <1>3 DEF g
    <3> QED BY <3>1, <3>2 DEF Registers
  <2>2. Booleans /\ mask \in BOOLEAN BY <1>2 DEF PartAssumption, Booleans
  <2>3. ChannelStep /\ ready' = FALSE BY <1>3, <2>2, CheckIsChannelStep
  <2>4. LoopPart' BY <2>3, InstructionLeaves
  <2>5. DevicePart' BY <1>3 DEF IInv, DevicePart, Disturbed, Stat
  <2>6. RegisterPart' /\ CutPart' BY <2>1, <2>3 DEF RegisterPart, CutPart, Phase
  <2>7. WayPart' BY <2>1 DEF WayPart, Disturbed, Phase
  <2> QED BY <2>4, <2>5, <2>6, <2>7 DEF IInv
<1>4. CASE /\ ReadByte(fdc, working)
           /\ cut' = (cut /\ fdc'.event # "bufsend")
           /\ UNCHANGED seeking
  <2>1. working \in BOOLEAN BY <1>2 DEF PartAssumption, Booleans
  <2>2. Outcome(fdc, "bufsend2") /\ (fdc.tc => Answered)
    BY <1>1, <1>2, <1>4, <2>1, ReadByteIs
  <2>3. "bufsend2" \in Phase BY DEF Phase
  <2>4. LoopPart' BY <2>2, InstructionLeaves DEF Outcome, Sound
  <2>5. CutPart' BY <1>1, <2>2, <2>3, OutcomeKeepsCut
  <2>6. RegisterPart' BY <2>2, <2>3, OutcomeKeepsRegisters
  <2>7. cut' \in BOOLEAN BY <1>4 DEF IInv, DevicePart
  <2>8. DevicePart'
    BY <1>4, <2>2, <2>7 DEF IInv, DevicePart, Outcome, Sound, Disturbed
  <2>9. GoesOn(fdc, "bufsend2") => cut' = cut
    BY <1>4 DEF GoesOn, IInv, DevicePart
  <2>10. ~ cut => dir = Way("bufsend2") BY <1>1, <2>3 DEF IInv, WayPart
  <2>11. WayPart' BY <2>2, <2>3, <2>9, <2>10, OutcomeKeepsWay DEF Disturbed
  <2> QED BY <2>4, <2>5, <2>6, <2>8, <2>11 DEF IInv
<1> QED BY <1>3, <1>4

LEMMA HandlerKeeps == ASSUME IInv, Handler PROVE IInv'
  BY HandlerSensesKeeps, HandlerLeavesKeeps, HandlerDrainsKeeps DEF Handler

\* A DMA cycle
LEMMA CountDownStays == ASSUME leng \in 0 .. LENGMOD - 1, CountDown
                        PROVE  leng' \in 0 .. LENGMOD - 1
<1>1. LENGMOD \in Nat \ {0} /\ leng + LENGMOD - 1 \in Nat BY DmacAssumption
<1>2. (leng + LENGMOD - 1) % LENGMOD \in 0 .. LENGMOD - 1 BY <1>1
<1> QED BY <1>2 DEF CountDown

LEMMA DmaKeepsLoopPart ==
    ASSUME IInv, Dma, ChannelStep PROVE LoopPart'
<1> USE DEF Dma
<1>1. Booleans /\ LoopInv BY DEF IInv, LoopPart, DmacTypeOK, Booleans
<1>2. LoopInv' /\ phase' \in {"cpu", "dma", "out"} /\ stepping' \in BOOLEAN
  BY <1>1, DmaKeepsLoop
<1>3. leng' \in 0 .. LENGMOD - 1
  BY CountDownStays DEF IInv, LoopPart, DmacTypeOK, DmaByte, DmaCommand
<1>4. dir' \in {"read", "write"} BY DEF IInv, LoopPart, DmacTypeOK
<1> QED BY <1>2, <1>3, <1>4 DEF LoopPart, DmacTypeOK, ChannelStep, WorkInv

\* The registers with the terminal count, and what is known of a cycle
LEMMA CycleIs ==
    ASSUME IInv, Dma, NEW f, f = [fdc EXCEPT !.tc = @ \/ LastByte]
    PROVE  /\ f \in Registers /\ f.event = fdc.event /\ f.bufcnt = fdc.bufcnt
           /\ f.op = fdc.op /\ f.result = fdc.result /\ f.tc = (fdc.tc \/ LastByte)
           /\ PartAssumption /\ Booleans /\ WorkInv
           /\ working /\ ready /\ (~ LastByte) \in BOOLEAN
           /\ cut' = (cut /\ fdc'.event # "bufsend")
           /\ UNCHANGED <<dir, disk, irq, clean>>
           /\ fdc.event # "bufsend" /\ (fdc.event \in Phase => fdc.bufcnt # 0)
           /\ cut \in BOOLEAN
<1>1. working BY DEF Dma, DmaByte, DmaCommand
<1>2. PartAssumption BY InvariantAssumptions
<1>3. ready BY <1>1 DEF IInv, LoopPart, WorkInv
<1>4. f \in Registers /\ f.event = fdc.event /\ f.bufcnt = fdc.bufcnt
      /\ f.op = fdc.op /\ f.result = fdc.result /\ f.tc = (fdc.tc \/ LastByte)
  BY DEF IInv, RegisterPart, Registers
<1>5. fdc.event # "bufsend" /\ (fdc.event \in Phase => fdc.bufcnt # 0)
  BY <1>3 DEF IInv, RegisterPart
<1>6. cut' = (cut /\ fdc'.event # "bufsend") /\ UNCHANGED <<dir, disk, irq, clean>>
  BY DEF Dma
<1>7. Booleans /\ WorkInv /\ cut \in BOOLEAN
  BY <1>2 DEF PartAssumption, IInv, DevicePart
<1> QED BY <1>1, <1>2, <1>3, <1>4, <1>5, <1>6, <1>7

\* A byte moves in the data phase p, the way of the channel.
LEMMA DmaMovesKeeps ==
    ASSUME IInv, Dma, UNCHANGED <<timer, delayed, seeking>>,
           NEW f, f = [fdc EXCEPT !.tc = @ \/ LastByte],
           NEW p \in Phase, fdc.event = p, Outcome(f, p), f.tc => Answered
    PROVE  IInv'
<1>1. /\ f \in Registers /\ cut \in BOOLEAN
      /\ cut' = (cut /\ fdc'.event # "bufsend")
      /\ UNCHANGED <<dir, disk, irq, clean>>
  BY CycleIs
<1>2. RegisterPart' BY OutcomeKeepsRegisters
<1>3. CutPart' BY <1>1, OutcomeKeepsCut
<1>4. LoopPart' BY DmaKeepsLoopPart DEF Outcome, Sound
<1>5. DevicePart' BY <1>1 DEF IInv, DevicePart, Outcome, Sound
<1>6. GoesOn(f, p) => cut' = cut BY <1>1 DEF GoesOn, Phase
<1>7. clean \/ ~ cut => dir = Way(p) BY DEF IInv, WayPart
<1>8. WayPart' BY <1>1, <1>6, <1>7, OutcomeKeepsWay
<1> QED BY <1>2, <1>3, <1>4, <1>5, <1>8 DEF IInv

LEMMA DmaByteKeeps ==
    ASSUME IInv, Dma, ~ TakesCommands, DmaByte, UNCHANGED <<timer, delayed, seeking>>
    PROVE  IInv'
<1> PICK f : f = [fdc EXCEPT !.tc = @ \/ LastByte] OBVIOUS
<1>1. TakeByte(f, ~ LastByte) BY DEF DmaByte
<1>2. /\ f \in Registers /\ f.event = fdc.event /\ f.bufcnt = fdc.bufcnt
      /\ f.op = fdc.op /\ f.tc = (fdc.tc \/ LastByte)
      /\ PartAssumption /\ Booleans /\ WorkInv
      /\ working /\ ready /\ (~ LastByte) \in BOOLEAN
      /\ cut' = (cut /\ fdc'.event # "bufsend")
      /\ UNCHANGED <<dir, disk, irq, clean>>
      /\ fdc.event # "bufsend" /\ (fdc.event \in Phase => fdc.bufcnt # 0)
  BY CycleIs
<1>3. dir \in {"read", "write"} BY DEF IInv, LoopPart, DmacTypeOK
<1>4. CASE fdc.event = "bufsend2"
  <2>1. dir = "read" BY <1>3, <1>4 DEF TakesCommands
  <2>2. ReadByte(f, ~ LastByte) BY <1>1, <1>2, <1>4, <2>1 DEF TakeByte
  <2>3. "bufsend2" \in Phase BY DEF Phase
  <2>4. Outcome(f, "bufsend2") /\ (f.tc => Answered)
    BY <1>2, <1>4, <2>2, <2>3, ReadByteIs
  <2> QED BY <1>4, <2>3, <2>4, DmaMovesKeeps
<1>5. CASE fdc.event = "bufrecv" /\ dir = "write"
  <2>1. WriteByte(f, ~ LastByte) BY <1>1, <1>2, <1>5 DEF TakeByte
  <2>2. "bufrecv" \in Phase BY DEF Phase
  <2>3. Outcome(f, "bufrecv") /\ (f.tc => Answered)
    BY <1>2, <1>5, <2>1, <2>2, WriteByteIs
  <2> QED BY <1>5, <2>2, <2>3, DmaMovesKeeps
\* Only a channel that a reset has left running finds nothing to do.
<1>6. CASE fdc.event \notin Phase \/ (fdc.event = "bufrecv" /\ dir = "read")
  <2>1. fdc' = f /\ NoDmac(~ LastByte) /\ UNCHANGED <<stat, armed>>
    BY <1>1, <1>2, <1>6 DEF TakeByte, Phase
  <2>2. cut /\ cut'
    <3>1. CASE fdc.event \notin Phase BY <1>2, <2>1, <3>1 DEF IInv, CutPart
    <3>2. CASE fdc.event = "bufrecv" /\ dir = "read"
      BY <1>2, <2>1, <3>2 DEF IInv, WayPart, Way, Phase
    <3> QED BY <1>6, <3>1, <3>2
  <2>3. ChannelStep /\ ready' = ready BY <1>2, <2>1, NoDmacIsChannelStep
  <2>4. LoopPart' BY <2>3, DmaKeepsLoopPart
  <2>5. DevicePart' BY <1>2, <2>1, <2>2 DEF IInv, DevicePart
  <2>6. RegisterPart' BY <1>2, <2>1 DEF IInv, RegisterPart, Phase
  <2>7. CutPart' BY <1>2, <2>1, <2>2, <2>3 DEF CutPart
  <2>8. WayPart' BY <1>2, <2>1, <2>2, <2>3 DEF IInv, WayPart
  <2> QED BY <2>4, <2>5, <2>6, <2>7, <2>8 DEF IInv
<1> QED BY <1>3, <1>4, <1>5, <1>6 DEF Phase

\* The channel brings commands only after a reset by bit 80h, when nothing is
\* said of a transfer.
LEMMA CommandsOnlyWhenCut ==
    ASSUME IInv, Dma, TakesCommands PROVE cut /\ ~ clean
<1>1. ready /\ fdc.event # "bufsend" BY CycleIs
<1>2. dir = "write" /\ fdc.event # "bufrecv" BY DEF TakesCommands
<1>3. CASE fdc.event = "bufsend2"
  BY <1>2, <1>3 DEF IInv, WayPart, Way, Phase
<1>4. CASE fdc.event \in {"neutral", "cmdrecv"}
  BY <1>1, <1>4 DEF IInv, WayPart, CutPart, Phase
<1> QED BY <1>1, <1>2, <1>3, <1>4 DEF IInv, RegisterPart, Registers

\* What is left to show of a byte of a command
LEMMA CommandByteKeeps ==
    ASSUME IInv, Dma, TakesCommands, ChannelStep, seeking' = {},
           RegisterPart', fdc'.event # "bufsend" => ready',
           stat' \in [Drives -> Stat], armed' \in BOOLEAN,
           timer' \in [Drives -> 0 .. DELAY], delayed' \in [Drives -> Stat]
    PROVE  IInv'
<1>1. /\ cut' = (cut /\ fdc'.event # "bufsend") /\ cut \in BOOLEAN
      /\ UNCHANGED <<dir, disk, irq, clean>>
  BY CycleIs
<1>2. cut /\ ~ clean BY CommandsOnlyWhenCut
<1>3. LoopPart' BY DmaKeepsLoopPart
<1>4. DevicePart' BY <1>1 DEF IInv, DevicePart
<1>5. CutPart'
  <2>1. CASE fdc'.event = "bufsend" BY <2>1 DEF RegisterPart, CutPart, Phase
  <2>2. CASE fdc'.event # "bufsend" BY <1>1, <1>2, <2>2 DEF CutPart
  <2> QED BY <2>1, <2>2
<1>6. WayPart'
  <2>1. CASE fdc'.event = "bufsend" BY <2>1 DEF WayPart, Phase
  <2>2. CASE fdc'.event # "bufsend" BY <1>1, <1>2, <2>2 DEF WayPart
  <2> QED BY <2>1, <2>2
<1> QED BY <1>3, <1>4, <1>5, <1>6 DEF IInv

LEMMA DmaCommandKeeps ==
    ASSUME IInv, Dma, TakesCommands, DmaCommand, seeking' = {} PROVE IInv'
<1> PICK f : f = [fdc EXCEPT !.tc = @ \/ LastByte] OBVIOUS
<1>1. TakeCommand(f, ~ LastByte) BY DEF DmaCommand
<1>2. /\ f \in Registers /\ f.event = fdc.event /\ f.bufcnt = fdc.bufcnt
      /\ PartAssumption /\ Booleans /\ WorkInv
      /\ working /\ ready /\ (~ LastByte) \in BOOLEAN
      /\ fdc.event # "bufsend"
  BY CycleIs
<1>3. /\ stat \in [Drives -> Stat] /\ armed \in BOOLEAN
      /\ timer \in [Drives -> 0 .. DELAY] /\ delayed \in [Drives -> Stat]
  BY DEF IInv, DevicePart
<1>4. NoDmac(~ LastByte) => ChannelStep /\ ready'
  BY <1>2, NoDmacIsChannelStep
<1>5. CASE TakeFirstByte(f, ~ LastByte)
  <2>1. fdc' \in Registers /\ fdc'.event \in {"neutral", "cmdrecv"}
    <3> PICK g : g = Rest(f) OBVIOUS
    <3>1. g \in Registers /\ g.event = "neutral" BY <1>2, RestIs
    <3>2. \/ fdc' = g
          \/ \E op \in {"readid", "seek", "read", "write"}, mt \in BOOLEAN :
                fdc' = [g EXCEPT !.event = "cmdrecv", !.op = op, !.mt = mt]
      BY <1>5 DEF TakeFirstByte
    <3>3. {"readid", "seek", "read", "write"} \subseteq Op BY DEF Op
    <3> QED BY <3>1, <3>2, <3>3 DEF Registers
  <2>2. RegisterPart' BY <2>1 DEF RegisterPart, Phase
  <2>3. NoDmac(~ LastByte) /\ UNCHANGED <<stat, timer, delayed, armed>>
    BY <1>5 DEF TakeFirstByte
  <2> QED BY <1>3, <1>4, <2>2, <2>3, CommandByteKeeps
<1>6. CASE TakeParameter(f, ~ LastByte)
  <2>1. fdc' = f /\ f.event = "cmdrecv" /\ NoDmac(~ LastByte)
        /\ UNCHANGED <<stat, timer, delayed, armed>>
    BY <1>6 DEF TakeParameter
  <2>2. RegisterPart' BY <1>2, <2>1 DEF RegisterPart, Phase
  <2> QED BY <1>3, <1>4, <2>1, <2>2, CommandByteKeeps
<1>7. ASSUME NEW us \in Drives, NEW hd \in Side, NEW r \in 1 .. EOT,
             TakeLastParameter([f EXCEPT !.us = us, !.hd = hd, !.H = hd, !.R = r], ~ LastByte)
      PROVE  IInv'
  <2> PICK g : g = [f EXCEPT !.us = us, !.hd = hd, !.H = hd, !.R = r] OBVIOUS
  <2>1. g \in Registers BY <1>2 DEF Registers
  <2>2. \/ Seek(g) /\ NoDmac(~ LastByte)
        \/ /\ \/ Buffer(g, "bufsend2") /\ NoDmac(~ LastByte)
              \/ Buffer(g, "bufrecv") /\ NoDmac(~ LastByte)
              \/ Answer(g, "fault")
              \/ Answer(g, "success")
           /\ UNCHANGED <<timer, delayed>>
    BY <1>7 DEF TakeLastParameter
  <2>3. CASE Seek(g) /\ NoDmac(~ LastByte)
    <3>1. fdc' \in Registers /\ fdc'.event = "neutral"
      BY <2>1, <2>3, RestIs DEF Seek
    <3>2. RegisterPart' BY <3>1 DEF RegisterPart, Phase
    <3>3. timer' \in [Drives -> 0 .. DELAY]
      <4>1. DELAY \in 0 .. DELAY BY Sizes
      <4> QED BY <1>3, <2>3, <4>1 DEF Seek
    <3>4. delayed' \in [Drives -> Stat] BY <1>3, <2>3 DEF Seek, Stat
    <3>5. UNCHANGED <<stat, armed>> BY <2>3 DEF Seek
    <3> QED BY <1>3, <1>4, <2>3, <3>2, <3>3, <3>4, <3>5, CommandByteKeeps
  <2>4. ASSUME NEW p \in Phase, Buffer(g, p), NoDmac(~ LastByte), UNCHANGED <<timer, delayed>>
        PROVE  IInv'
    <3>1. /\ fdc' \in Registers /\ fdc'.event = p /\ fdc'.bufcnt \in 1 .. BYTES
          /\ stat' \in [Drives -> Stat] /\ armed' \in BOOLEAN
      BY <1>2, <2>1, <2>4, BufferIs
    <3>2. RegisterPart' BY <3>1, Sizes DEF RegisterPart, Phase
    <3> QED BY <1>3, <1>4, <2>4, <3>1, <3>2, CommandByteKeeps
  <2>5. ASSUME NEW a \in {"success", "fault"}, Answer(g, a), UNCHANGED <<timer, delayed>>
        PROVE  IInv'
    <3>1. Sound /\ Answered BY <1>2, <2>1, <2>5, AnswerIs
    <3>2. RegisterPart' BY <3>1 DEF RegisterPart, Sound, Answered, Phase
    <3> QED BY <1>3, <2>5, <3>1, <3>2, CommandByteKeeps DEF Sound, Answered
  <2>6. {"bufsend2", "bufrecv"} \subseteq Phase BY DEF Phase
  <2> QED BY <2>2, <2>3, <2>4, <2>5, <2>6
<1> QED BY <1>1, <1>5, <1>6, <1>7 DEF TakeCommand

LEMMA DmaKeeps == ASSUME IInv, Dma PROVE IInv'
<1>1. \/ ~ TakesCommands /\ DmaByte /\ UNCHANGED <<timer, delayed, left, seeking>>
      \/ TakesCommands /\ DmaCommand /\ seeking' = {}
  BY DEF Dma
<1> QED BY <1>1, DmaByteKeeps, DmaCommandKeeps

\* What happens between two loops
LEMMA OutsideKeepsLoop == ASSUME IInv, Outside PROVE LoopPart'
  BY DEF Outside, IInv, LoopPart, DmacTypeOK, WorkInv, LoopInv, WorkingIsStepped,
         loopVars, dmaVars

LEMMA InterruptKeeps == ASSUME IInv, Interrupt PROVE IInv'
<1> USE DEF Interrupt
<1>1. LoopPart' BY OutsideKeepsLoop
<1>2. DevicePart' BY DEF IInv, DevicePart, ghosts
<1>3. RegisterPart' /\ CutPart' /\ WayPart'
  BY DEF IInv, RegisterPart, CutPart, WayPart, Outside, dmaVars, ghosts
<1> QED BY <1>1, <1>2, <1>3 DEF IInv

LEMMA FrameKeeps == ASSUME IInv, Frame PROVE IInv'
<1> USE DEF Frame
<1>1. LoopPart' BY OutsideKeepsLoop
<1>2. timer' \in [Drives -> 0 .. DELAY]
  <2>1. \A t \in 0 .. DELAY : (IF t > 0 THEN t - 1 ELSE 0) \in 0 .. DELAY BY Sizes
  <2> QED BY <2>1 DEF IInv, DevicePart
<1>3. stat' \in [Drives -> Stat] BY DEF IInv, DevicePart
<1>4. delayed' \in [Drives -> Stat] BY DEF IInv, DevicePart, Stat
<1>5. DevicePart' BY <1>2, <1>3, <1>4 DEF IInv, DevicePart, ghosts
<1>6. RegisterPart' /\ CutPart' /\ WayPart'
  BY DEF IInv, RegisterPart, CutPart, WayPart, Outside, dmaVars, ghosts
<1> QED BY <1>1, <1>5, <1>6 DEF IInv

LEMMA AttentionKeeps ==
    ASSUME IInv, Outside, NEW d \in Drives, NEW now \in {"in", "coming", "out"},
           Attention(d, now)
    PROVE  IInv'
<1> USE DEF Attention
<1>1. LoopPart' BY OutsideKeepsLoop
<1>2. stat' \in [Drives -> Stat] /\ disk' \in [Drives -> {"in", "coming", "out"}]
  BY DEF IInv, DevicePart, Stat
<1>3. DevicePart' BY <1>2 DEF IInv, DevicePart, Disturbed
<1>4. /\ fdc' \in Registers /\ fdc'.event = fdc.event /\ fdc'.tc = fdc.tc
      /\ fdc'.op = fdc.op /\ fdc'.bufcnt = fdc.bufcnt
  BY DEF IInv, RegisterPart, Registers
<1>5. RegisterPart' /\ CutPart' /\ WayPart'
  BY <1>4 DEF IInv, RegisterPart, CutPart, WayPart, Outside, dmaVars, Disturbed
<1> QED BY <1>1, <1>3, <1>5 DEF IInv

LEMMA EnterKeeps == ASSUME IInv, Enter PROVE IInv'
<1> USE DEF Enter
<1>1. LoopInv' /\ phase' \in {"cpu", "dma", "out"} /\ {stepping', forced'} \subseteq BOOLEAN
  BY EnterKeepsLoop, InvariantAssumptions DEF PartAssumption
<1>2. LoopPart'
  BY <1>1 DEF IInv, LoopPart, DmacTypeOK, WorkInv, dmaVars
<1>3. DevicePart' BY DEF IInv, DevicePart, devVars, ghosts
<1>4. RegisterPart' /\ CutPart' /\ WayPart' BY DEF IInv, RegisterPart, CutPart, WayPart, dmaVars, ghosts
<1> QED BY <1>2, <1>3, <1>4 DEF IInv

LEMMA StutterKeeps == ASSUME IInv, UNCHANGED vars PROVE IInv'
<1> USE DEF vars, dmaVars, loopVars, devVars, ghosts
<1>1. LoopPart'
  BY DEF IInv, LoopPart, DmacTypeOK, WorkInv, LoopInv, WorkingIsStepped
<1>2. DevicePart' BY DEF IInv, DevicePart
<1>3. RegisterPart' /\ CutPart' /\ WayPart' BY DEF IInv, RegisterPart, CutPart, WayPart
<1> QED BY <1>1, <1>2, <1>3 DEF IInv

LEMMA NextKeepsInvariant == IInv /\ [Next]_vars => IInv'
<1> SUFFICES ASSUME IInv, [Next]_vars PROVE IInv' OBVIOUS
<1>1. CASE Compute BY <1>1, ComputeKeeps
<1>2. CASE Unmask \/ Pause BY <1>2, UnmaskKeeps, PauseKeeps
<1>3. CASE \E op \in {"readid", "seek"} : FirstByte(op) BY <1>3, FirstByteKeeps
<1>4. CASE \E op \in {"read", "write"}, mt \in BOOLEAN, n \in Lengths :
              FirstByteOfTransfer(op, mt, n)
  BY <1>4, FirstByteOfTransferKeeps
<1>5. CASE LastParameterAny BY <1>5, LastParameterKeeps DEF LastParameterAny
<1>6. CASE \E request, line, notify, attend \in BOOLEAN :
              Control(request, line, notify, attend)
  BY <1>6, ControlKeeps
<1>7. CASE Handler BY <1>7, HandlerKeeps
<1>8. CASE Dma BY <1>8, DmaKeeps
<1>9. CASE Interrupt \/ Frame BY <1>9, InterruptKeeps, FrameKeeps
<1>10. CASE \E d \in Drives : ChangeDisk(d) \/ DiskArrives(d)
  BY <1>10, AttentionKeeps DEF ChangeDisk, DiskArrives
<1>11. CASE Enter BY <1>11, EnterKeeps
<1>12. CASE UNCHANGED vars BY <1>12, StutterKeeps
<1> QED BY <1>1, <1>2, <1>3, <1>4, <1>5, <1>6, <1>7, <1>8, <1>9, <1>10, <1>11, <1>12
        DEF Next

-----------------------------------------------------------------------------
(***************************************************************************)
(* Theorems about the loop, the channel and the controller                 *)
(***************************************************************************)

\* The loop, the channel and the controller agree at every step: the invariant
\* that the other theorems follow from.
THEOREM Invariance == Spec => []IInv
  BY InitInvariant, NextKeepsInvariant, PTL DEF Spec

\* The registers of the channel and the controller keep their ranges, whatever
\* the number of sectors, bytes, drives and mishaps (fdc.c, dmac.c).
THEOREM TypeCorrect == Spec => []TypeOK
  BY Invariance, InvariantHasTypes, PTL

\* A command that comes to its result leaves the channel at rest, without a
\* terminal count, whatever mishaps came before; and a request that is up
\* outside a data phase, or a terminal count that is kept, is the work of a
\* reset by bit 80h in a data phase with no result since then, for every disk
\* and length of transfer: fdc_dmafunc, fdc_o94, dmac_check and dmax86 against
\* the phases of fdc.c.
THEOREM ServesPhase == Spec => []ChannelServesPhase
<1>1. IInv => ChannelServesPhase BY InvariantServes
<1> QED BY <1>1, Invariance, PTL

\* A channel at work never finds the CPU in the loop that does not look at the
\* channels: every start goes through the forced exit of dmac_check.
THEOREM StepsWhenWorking == Spec => []WorkingIsStepped
<1>1. IInv => WorkingIsStepped BY InvariantServes
<1> QED BY <1>1, Invariance, PTL

-----------------------------------------------------------------------------
(***************************************************************************)
(* The track, byte by byte.  TransferIsExact compares what has been moved  *)
(* with it; that it stays so follows from where the registers are on the   *)
(* track (OnTrack, Base) and from the length the channel has left          *)
(* (TransferInv).                                                          *)
(***************************************************************************)

Transfer == [op : {"read", "write"}, us : Drives, hd : Side, R : 1 .. EOT, mt : BOOLEAN,
             n : Nat]

PhaseOf(t) == IF t.op = "read" THEN "bufsend2" ELSE "bufrecv"

LEMMA DivMod ==
    ASSUME NEW b \in Nat \ {0}, NEW q \in Nat, NEW r \in 0 .. b - 1
    PROVE  (q * b + r) \div b = q /\ (q * b + r) % b = r
<1> DEFINE x == q * b + r
<1>1. q * b \in Nat OBVIOUS
<1>2. x \in Nat BY <1>1
<1>3. x = b * (x \div b) + (x % b) /\ x \div b \in Int /\ x % b \in 0 .. b - 1 BY <1>2
<1> QED BY <1>1, <1>3

LEMMA Times ==
    ASSUME NEW b \in Nat, NEW q \in Nat, NEW s \in Nat, q =< s
    PROVE  q * b \in Nat /\ (q + 1) * b = q * b + b /\ q * b =< s * b
  OBVIOUS

Sectors(t) == EOT + 1 - t.R + IF t.mt /\ t.hd = 0 THEN EOT ELSE 0

\* The registers f are at a sector of transfer t ...
OnTrack(f, t) ==
    /\ f.us = t.us /\ f.mt = t.mt /\ f.H = f.hd
    /\ \/ f.hd = t.hd /\ t.R =< f.R
       \/ f.hd = 1 /\ t.hd = 0 /\ t.mt

\* ... after so many others, that is, so many bytes.
Before(f, t) == IF f.hd = t.hd THEN f.R - t.R ELSE EOT + f.R - t.R

Base(f, t) == Before(f, t) * BYTES

LEMMA TrackIs ==
    ASSUME NEW t \in Transfer
    PROVE  /\ Sectors(t) \in Nat /\ Sectors(t) * BYTES \in Nat
           /\ Len(Track(t)) = Sectors(t) * BYTES
           /\ DOMAIN Track(t) = 1 .. Sectors(t) * BYTES
<1>1. Sectors(t) \in Nat BY Sizes DEF Sectors, Transfer
<1>2. Sectors(t) * BYTES \in Nat BY <1>1, Sizes
<1> DEFINE n == Sectors(t) * BYTES
<1>3. DOMAIN Track(t) = 1 .. n BY DEF Track, Sectors
<1> HIDE DEF n
<1>4. \E e : Track(t) = [i \in 1 .. n |-> e[i]]
  <2>1. Track(t) = [i \in DOMAIN Track(t) |-> Track(t)[i]] BY DEF Track
  <2> QED BY <1>3, <2>1
<1>5. Len(Track(t)) = n BY <1>2, <1>4 DEF n
<1> QED BY <1>1, <1>2, <1>3, <1>5 DEF n

LEMMA BeforeRange ==
    ASSUME NEW t \in Transfer, NEW f \in Registers, OnTrack(f, t)
    PROVE  Before(f, t) \in Nat /\ Before(f, t) + 1 =< Sectors(t)
<1>1. EOT \in Nat \ {0} /\ f.R \in 1 .. EOT /\ t.R \in 1 .. EOT /\ f.hd \in {0, 1} /\ t.hd \in {0, 1}
  BY Sizes DEF Registers, Transfer, Side
<1> QED BY <1>1 DEF OnTrack, Before, Sectors

LEMMA BaseRange ==
    ASSUME NEW t \in Transfer, NEW f \in Registers, OnTrack(f, t)
    PROVE  Base(f, t) \in Nat /\ Base(f, t) + BYTES =< Len(Track(t))
<1>1. BYTES \in Nat /\ Before(f, t) \in Nat /\ Before(f, t) + 1 \in Nat /\ Before(f, t) + 1 =< Sectors(t)
  BY BeforeRange, Sizes
<1>2. Base(f, t) \in Nat BY <1>1 DEF Base
<1>3. (Before(f, t) + 1) * BYTES = Base(f, t) + BYTES BY <1>1, Times DEF Base
<1>4. (Before(f, t) + 1) * BYTES =< Sectors(t) * BYTES BY <1>1, TrackIs, Times
<1> QED BY <1>2, <1>3, <1>4, TrackIs

\* The track lists the bytes of each sector in turn.
LEMMA TrackAt ==
    ASSUME NEW t \in Transfer, NEW f \in Registers, OnTrack(f, t), NEW j \in 1 .. BYTES
    PROVE  Track(t)[Base(f, t) + j] = Place(f, j)
<1>1. /\ BYTES \in Nat \ {0} /\ EOT \in Nat \ {0} /\ j - 1 \in 0 .. BYTES - 1
      /\ f.R \in 1 .. EOT /\ t.R \in 1 .. EOT /\ f.hd \in {0, 1} /\ t.hd \in {0, 1}
      /\ f.us = t.us
  BY Sizes DEF Registers, Transfer, Side, OnTrack
<1> DEFINE b == Before(f, t)  i == Base(f, t) + j
<1>2. b \in Nat /\ Base(f, t) \in Nat /\ Base(f, t) + BYTES =< Len(Track(t))
  BY BeforeRange, BaseRange
<1>3. i - 1 = b * BYTES + (j - 1) BY <1>1, <1>2 DEF Base
<1>4. (i - 1) \div BYTES = b /\ (i - 1) % BYTES = j - 1
  BY <1>1, <1>2, <1>3, DivMod
<1>5. i \in DOMAIN Track(t)
  <2>1. i \in 1 .. Len(Track(t)) BY <1>1, <1>2, TrackIs
  <2> QED BY <2>1, TrackIs
<1> DEFINE s == (t.R - 1) + ((i - 1) \div BYTES)
<1>6. Track(t)[i] = <<t.us, t.hd + (s \div EOT), 1 + (s % EOT), 1 + ((i - 1) % BYTES)>>
  BY <1>5 DEF Track
<1>7. s = (t.R - 1) + b BY <1>4
<1> HIDE DEF s, b, i
<1>8. t.hd + (s \div EOT) = f.hd /\ 1 + (s % EOT) = f.R
  <2>1. PICK R \in 1 .. EOT, r \in 0 .. EOT - 1 : R = f.R /\ r = R - 1 BY <1>1
  <2>2. CASE f.hd = t.hd
    <3>1. s = 0 * EOT + r BY <1>1, <1>7, <2>1, <2>2 DEF b, Before
    <3>2. s \div EOT = 0 /\ s % EOT = r BY <1>1, <3>1, DivMod
    <3> QED BY <1>1, <2>1, <2>2, <3>2
  <2>3. CASE f.hd # t.hd
    <3>0. f.hd = 1 /\ t.hd = 0 BY <2>3 DEF OnTrack
    <3>1. s = 1 * EOT + r BY <1>1, <1>7, <2>1, <2>3 DEF b, Before
    <3>2. s \div EOT = 1 /\ s % EOT = r BY <1>1, <3>1, DivMod
    <3> QED BY <1>1, <2>1, <3>0, <3>2
  <2> QED BY <2>2, <2>3
<1>9. 1 + ((i - 1) % BYTES) = j BY <1>1, <1>4
<1> QED BY <1>1, <1>6, <1>8, <1>9 DEF Place, i

\* The next sector, on this side or the other, and the end of the track
LEMMA SectorFollows ==
    ASSUME NEW t \in Transfer, NEW f \in Registers, OnTrack(f, t), f.R # EOT,
           NEW g, g = [f EXCEPT !.R = @ + 1]
    PROVE  OnTrack(g, t) /\ Base(g, t) = Base(f, t) + BYTES
<1>1. /\ BYTES \in Nat /\ EOT \in Nat /\ f.R \in 1 .. EOT /\ t.R \in 1 .. EOT
      /\ Before(f, t) \in Nat
  BY Sizes, BeforeRange DEF Registers, Transfer
<1>2. g.us = f.us /\ g.mt = f.mt /\ g.H = f.H /\ g.hd = f.hd /\ g.R = f.R + 1 BY DEF Registers
<1>3. OnTrack(g, t) BY <1>1, <1>2 DEF OnTrack
<1>4. Before(g, t) = Before(f, t) + 1 BY <1>1, <1>2 DEF Before
<1>5. (Before(f, t) + 1) * BYTES = Before(f, t) * BYTES + BYTES BY <1>1, Times
<1> QED BY <1>3, <1>4, <1>5 DEF Base

LEMMA SideFollows ==
    ASSUME NEW t \in Transfer, NEW f \in Registers, OnTrack(f, t), f.R = EOT, f.mt, f.H = 0
    PROVE  OnTrack(OtherSide(f), t) /\ Base(OtherSide(f), t) = Base(f, t) + BYTES
<1> DEFINE g == OtherSide(f)
<1>1. /\ BYTES \in Nat /\ EOT \in Nat /\ f.R \in 1 .. EOT /\ t.R \in 1 .. EOT
      /\ Before(f, t) \in Nat
  BY Sizes, BeforeRange DEF Registers, Transfer
<1>3. f.hd = 0 /\ t.hd = 0 /\ t.mt BY DEF OnTrack
<1>2. g.us = f.us /\ g.mt = f.mt /\ g.H = 1 /\ g.hd = 1 /\ g.R = 1
  <2>1. g = [f EXCEPT !.R = 1, !.hd = 1 - @, !.H = 1 - @] BY DEF OtherSide
  <2>2. g = [f EXCEPT !.R = 1, !.hd = 1, !.H = 1] BY <1>3, <2>1
  <2> QED BY <2>2 DEF Registers
<1> HIDE DEF g
<1>4. OnTrack(g, t) BY <1>2, <1>3 DEF OnTrack
<1>5. Before(g, t) = Before(f, t) + 1 BY <1>1, <1>2, <1>3 DEF Before
<1>6. (Before(f, t) + 1) * BYTES = Before(f, t) * BYTES + BYTES BY <1>1, Times
<1> QED BY <1>4, <1>5, <1>6 DEF Base, g

LEMMA TrackEnds ==
    ASSUME NEW t \in Transfer, NEW f \in Registers, OnTrack(f, t), f.R = EOT, ~ (f.mt /\ f.H = 0)
    PROVE  Len(Track(t)) = Base(f, t) + BYTES
<1>1. /\ BYTES \in Nat /\ EOT \in Nat /\ f.R \in 1 .. EOT /\ t.R \in 1 .. EOT
      /\ Before(f, t) \in Nat /\ f.hd \in {0, 1} /\ t.hd \in {0, 1}
  BY Sizes, BeforeRange DEF Registers, Transfer, Side
<1>2. Sectors(t) = Before(f, t) + 1 BY <1>1 DEF OnTrack, Before, Sectors
<1>3. (Before(f, t) + 1) * BYTES = Before(f, t) * BYTES + BYTES BY <1>1, Times
<1> QED BY <1>2, <1>3, TrackIs DEF Base

-----------------------------------------------------------------------------
(***************************************************************************)
(* A transfer                                                              *)
(***************************************************************************)

Places == Drives \X Side \X (1 .. EOT) \X (1 .. BYTES)

\* What has been moved is the beginning of the track.
Prefix(q, t) ==
    /\ q \in Seq(Places)
    /\ Len(q) =< Len(Track(t))
    /\ \A i \in 1 .. Len(q) : q[i] = Track(t)[i]

\* The data phase: a read has moved what has left the buffer, a write only
\* whole sectors, and the channel counts down the rest of the length.
Moving(f, t, q, l) ==
    /\ OnTrack(f, t) /\ f.event = PhaseOf(t)
    /\ ~ f.tc /\ f.result = "none"
    /\ f.bufcnt \in 1 .. BYTES
    /\ Len(q) = Base(f, t) + IF f.event = "bufsend2" THEN BYTES - f.bufcnt ELSE 0
    /\ t.n = l + 1 + Base(f, t) + BYTES - f.bufcnt

\* The result phase: all has been moved, or the next sector has failed.
Faulty(t, q, d) ==
    \/ d[t.us] # "in"
    \/ /\ Len(q) < Len(Track(t))
       /\ \E b \in Bad : Track(t)[Len(q) + 1] = <<b[1], b[2], b[3], 1>>

Over(f, t, q, d) ==
    /\ Len(q) =< Length(t)
    /\ f.result = "success" => Len(q) = Length(t) \/ Len(q) = Len(Track(t))
    /\ f.result = "fault" => Faulty(t, q, d)

\* A transfer that nobody has interfered with is in one of these phases.
TransferInv ==
    clean =>
        /\ asked \in Transfer /\ Prefix(moved, asked)
        /\ \/ fdc.event \in Phase /\ Moving(fdc, asked, moved, leng)
           \/ fdc.event = "bufsend" /\ Over(fdc, asked, moved, disk)

\* Between commands there is no transfer, and no result that could be taken for
\* that of the next one.
RestInv == fdc.event \in {"neutral", "cmdrecv"} => ~ clean /\ fdc.result = "none"

LEMMA PlaceIs ==
    ASSUME NEW f \in Registers, NEW j \in 1 .. BYTES
    PROVE  Place(f, j) \in Places
  BY DEF Place, Places, Registers

\* What a write fills up
LEMMA LengthCovers ==
    ASSUME NEW t \in Transfer, NEW i \in Nat, i =< t.n
    PROVE  i =< Length(t)
<1>1. CASE t.op = "read" BY <1>1 DEF Length
<1>2. CASE t.op = "write"
  <2> DEFINE b == BYTES  x == t.n + BYTES - 1
  <2>1. b \in Nat \ {0} /\ t.n \in Nat BY Sizes DEF Transfer
  <2>2. x \in Nat BY <2>1
  <2>3. Length(t) = (x \div b) * b BY <1>2 DEF Length
  <2>4. t.n = x - (b - 1) BY <2>1
  <2> HIDE DEF b, x
  <2>5. x = b * (x \div b) + (x % b) /\ x \div b \in Int /\ x % b \in 0 .. b - 1 BY <2>1, <2>2
  <2>6. (x \div b) * b >= x - (b - 1)
    <3> PICK y \in Int : y = b * (x \div b) BY <2>1, <2>5
    <3>1. (x \div b) * b = y BY <2>1, <2>5
    <3> QED BY <2>1, <2>2, <2>5, <3>1
  <2>7. Length(t) \in Int BY <2>1, <2>3, <2>5
  <2> QED BY <2>1, <2>2, <2>3, <2>4, <2>6, <2>7
<1> QED BY <1>1, <1>2 DEF Transfer

LEMMA LengthOfWrite ==
    ASSUME NEW t \in Transfer, t.op = "write", NEW s \in Nat, NEW k \in 1 .. BYTES,
           t.n = s * BYTES + k
    PROVE  Length(t) = s * BYTES + BYTES
<1>1. BYTES \in Nat \ {0} /\ s * BYTES \in Nat BY Sizes
<1> DEFINE x == t.n + BYTES - 1  q == s + 1
<1>2. (s + 1) * BYTES = s * BYTES + BYTES BY <1>1, Times
<1>3. x = q * BYTES + (k - 1) /\ k - 1 \in 0 .. BYTES - 1 BY <1>1, <1>2
<1>4. x \div BYTES = q
  <2>1. q \in Nat OBVIOUS
  <2> HIDE DEF x, q
  <2> PICK r \in 0 .. BYTES - 1 : r = k - 1 BY <1>3
  <2>2. x = q * BYTES + r BY <1>3
  <2> QED BY <1>1, <2>1, <2>2, DivMod
<1>5. Length(t) = (x \div BYTES) * BYTES BY DEF Length
<1> QED BY <1>2, <1>4, <1>5

\* Bytes of the sector at hand prolong what has been moved.
LEMMA Prolongs ==
    ASSUME NEW t \in Transfer, NEW f \in Registers, OnTrack(f, t),
           NEW q, Prefix(q, t), NEW i \in Nat, Len(q) = Base(f, t) + i,
           NEW r \in Seq(Places), i + Len(r) =< BYTES,
           \A j \in 1 .. Len(r) : r[j] = Place(f, i + j)
    PROVE  Prefix(q \o r, t) /\ Len(q \o r) = Base(f, t) + i + Len(r)
<1>1. q \in Seq(Places) /\ Len(q) \in Nat /\ Len(r) \in Nat /\ BYTES \in Nat BY Sizes DEF Prefix
<1>2. Base(f, t) \in Nat /\ Base(f, t) + BYTES =< Len(Track(t)) BY BaseRange
<1>3. Len(Track(t)) \in Nat BY TrackIs
<1> DEFINE s == q \o r
<1>4. s \in Seq(Places) /\ Len(s) = Len(q) + Len(r) BY <1>1, ConcatProperties
<1>5. Len(s) = Base(f, t) + i + Len(r) /\ Len(s) =< Len(Track(t))
  BY <1>1, <1>2, <1>3, <1>4
<1>6. ASSUME NEW n \in 1 .. Len(s) PROVE s[n] = Track(t)[n]
  <2>1. CASE n =< Len(q)
    <3>1. s[n] = q[n] BY <1>1, <1>4, <2>1
    <3> QED BY <1>1, <2>1, <3>1 DEF Prefix
  <2>2. CASE n > Len(q)
    <3> DEFINE k == n - Len(q)
    <3>1. k \in 1 .. Len(r) BY <1>1, <1>4, <2>2
    <3>2. s[n] = r[k] BY <1>1, <1>4, <2>2
    <3> HIDE DEF s
    <3>0. k \in Nat /\ n \in Nat /\ n = Len(q) + k BY <1>1, <1>4, <3>1
    <3> HIDE DEF k
    <3>3. i + k \in 1 .. BYTES /\ n = Base(f, t) + (i + k)
      <4>1. i + k >= 1 /\ i + k =< BYTES BY <1>1, <3>0, <3>1
      <4>2. n = Base(f, t) + (i + k) BY <1>2, <3>0
      <4> QED BY <1>1, <3>0, <4>1, <4>2
    <3>4. Track(t)[n] = Place(f, i + k) BY <3>3, TrackAt
    <3> QED BY <3>1, <3>2, <3>4
  <2> QED BY <1>1, <1>4, <2>1, <2>2
<1> QED BY <1>4, <1>5, <1>6 DEF Prefix

\* What a part of a command that goes on with transfer t leaves behind.
Continues(t, q, l, d) ==
    \/ fdc'.event \in Phase /\ Moving(fdc', t, q, l)
    \/ fdc'.event = "bufsend" /\ Over(fdc', t, q, d)

\* The registers f are at the start of a sector of transfer t.
AtSector(f, t, q, l) ==
    /\ OnTrack(f, t)
    /\ ~ f.tc /\ f.result = "none"
    /\ Len(q) = Base(f, t)
    /\ t.n = l + 1 + Base(f, t)

LEMMA DataContinues ==
    ASSUME NEW t \in Transfer, NEW f \in Registers, NEW q, NEW l \in Nat, NEW d,
           AtSector(f, t, q, l), NEW p \in Phase, p = PhaseOf(t), Data(f, p)
    PROVE  Continues(t, q, l, d)
<1>1. BYTES \in Nat \ {0} /\ Base(f, t) \in Nat BY Sizes, BaseRange DEF AtSector
<1>2. PICK g : g = [f EXCEPT !.event = p, !.bufcnt = BYTES] OBVIOUS
<1>3. fdc' = g BY <1>2 DEF Data, Buffer
<1>4. /\ g.event = p /\ g.bufcnt = BYTES /\ g.us = f.us /\ g.mt = f.mt /\ g.hd = f.hd
      /\ g.H = f.H /\ g.R = f.R /\ g.tc = f.tc /\ g.result = f.result
  BY <1>2 DEF Registers
<1>5. OnTrack(g, t) /\ Base(g, t) = Base(f, t)
  BY <1>4 DEF AtSector, OnTrack, Base, Before
<1>6. Moving(g, t, q, l) BY <1>1, <1>4, <1>5 DEF Moving, AtSector
<1> QED BY <1>3, <1>4, <1>6 DEF Continues

LEMMA AnswerContinues ==
    ASSUME NEW t \in Transfer, NEW f \in Registers, NEW q, NEW l, NEW d,
           NEW r \in {"success", "fault"}, Answer(f, r),
           Len(q) =< Length(t),
           r = "success" => Len(q) = Length(t) \/ Len(q) = Len(Track(t)),
           r = "fault" => Faulty(t, q, d)
    PROVE  Continues(t, q, l, d)
<1>1. PICK g : g = [f EXCEPT !.event = "bufsend", !.tc = FALSE, !.bufcnt = 0, !.result = r]
  OBVIOUS
<1>2. fdc' = g BY <1>1 DEF Answer
<1>3. g.event = "bufsend" /\ g.result = r BY <1>1 DEF Registers
<1>4. Over(g, t, q, d) BY <1>3 DEF Over
<1> QED BY <1>2, <1>3, <1>4 DEF Continues

\* A sector that cannot be accessed is where the transfer fails.
LEMMA SectorFails ==
    ASSUME NEW t \in Transfer, NEW f \in Registers, NEW q, OnTrack(f, t),
           Len(q) = Base(f, t), ~ Accessible(f)
    PROVE  Faulty(t, q, disk)
<1>1. BYTES \in Nat \ {0} /\ EOT \in Nat /\ f.R \in 1 .. EOT /\ f.us = t.us
  BY Sizes DEF Registers, OnTrack
<1>2. CASE disk[f.us] # "in" BY <1>1, <1>2 DEF Faulty
<1>3. CASE <<f.us, f.hd, f.R>> \in Bad
  <2>1. Base(f, t) \in Nat /\ Base(f, t) + BYTES =< Len(Track(t)) /\ Len(Track(t)) \in Nat
    BY BaseRange, TrackIs
  <2>2. 1 \in 1 .. BYTES BY <1>1
  <2>3. Track(t)[Base(f, t) + 1] = <<f.us, f.hd, f.R, 1>> BY <2>2, TrackAt DEF Place
  <2>4. PICK b \in Bad : b = <<f.us, f.hd, f.R>> BY <1>3
  <2>5. Track(t)[Len(q) + 1] = <<b[1], b[2], b[3], 1>> BY <2>3, <2>4
  <2>6. Len(q) < Len(Track(t)) BY <1>1, <2>1
  <2> QED BY <2>5, <2>6 DEF Faulty
<1> QED BY <1>1, <1>2, <1>3 DEF Accessible

LEMMA ReadSectorContinues ==
    ASSUME NEW t \in Transfer, NEW f \in Registers, NEW q, NEW l \in Nat,
           t.op = "read", AtSector(f, t, q, l), ReadSector(f)
    PROVE  Continues(t, q, l, disk)
<1>1. CASE Accessible(f)
  <2>1. Data(f, "bufsend2") BY <1>1 DEF ReadSector
  <2>2. "bufsend2" \in Phase /\ "bufsend2" = PhaseOf(t) BY DEF Phase, PhaseOf
  <2> QED BY <2>1, <2>2, DataContinues
<1>2. CASE ~ Accessible(f)
  <2>1. Answer(f, "fault") BY <1>2 DEF ReadSector
  <2>2. Faulty(t, q, disk) BY <1>2, SectorFails DEF AtSector
  <2>3. Len(q) =< Length(t)
    <3>1. Base(f, t) \in Nat BY BaseRange DEF AtSector
    <3>2. Len(q) \in Nat /\ Len(q) =< t.n BY <3>1 DEF AtSector
    <3> QED BY <3>2, LengthCovers
  <2> QED BY <2>1, <2>2, <2>3, AnswerContinues
<1> QED BY <1>1, <1>2

\* All of a sector has been moved, and the length is not used up.
SectorDone(f, t, q, l) ==
    /\ OnTrack(f, t)
    /\ ~ f.tc /\ f.result = "none"
    /\ Len(q) = Base(f, t) + BYTES
    /\ t.n = l + 1 + Base(f, t) + BYTES

LEMMA NextIsAtSector ==
    ASSUME NEW t \in Transfer, NEW f \in Registers, NEW q, NEW l \in Nat,
           SectorDone(f, t, q, l), f.R # EOT
    PROVE  LET g == [f EXCEPT !.R = @ + 1] IN g \in Registers /\ AtSector(g, t, q, l)
<1>1. PICK g : g = [f EXCEPT !.R = @ + 1] OBVIOUS
<1>2. g \in Registers BY <1>1, NextSectorIs
<1>3. OnTrack(g, t) /\ Base(g, t) = Base(f, t) + BYTES
  BY <1>1, SectorFollows DEF SectorDone
<1>4. g.tc = f.tc /\ g.result = f.result BY <1>1 DEF Registers
<1>5. BYTES \in Nat /\ Base(f, t) \in Nat BY Sizes, BaseRange DEF SectorDone
<1>6. AtSector(g, t, q, l) BY <1>3, <1>4, <1>5 DEF AtSector, SectorDone
<1> QED BY <1>1, <1>2, <1>6

LEMMA OtherSideIsAtSector ==
    ASSUME NEW t \in Transfer, NEW f \in Registers, NEW q, NEW l \in Nat,
           SectorDone(f, t, q, l), f.R = EOT, f.mt, f.H = 0
    PROVE  OtherSide(f) \in Registers /\ AtSector(OtherSide(f), t, q, l)
<1>1. PICK g : g = OtherSide(f) OBVIOUS
<1>2. g \in Registers BY <1>1, OtherSideIs
<1>3. OnTrack(g, t) /\ Base(g, t) = Base(f, t) + BYTES
  BY <1>1, SideFollows DEF SectorDone
<1>4. g.tc = f.tc /\ g.result = f.result BY <1>1 DEF Registers, OtherSide
<1>5. BYTES \in Nat /\ Base(f, t) \in Nat BY Sizes, BaseRange DEF SectorDone
<1>6. AtSector(g, t, q, l) BY <1>3, <1>4, <1>5 DEF AtSector, SectorDone
<1> QED BY <1>1, <1>2, <1>6

\* The end of the track is a success.
LEMMA TrackEndContinues ==
    ASSUME NEW t \in Transfer, NEW f \in Registers, NEW q, NEW l \in Nat, NEW d,
           SectorDone(f, t, q, l), f.R = EOT, ~ (f.mt /\ f.H = 0),
           Answer(OtherSide(f), "success")
    PROVE  Continues(t, q, l, d)
<1>1. Len(q) = Len(Track(t)) BY TrackEnds DEF SectorDone
<1>2. BYTES \in Nat /\ Base(f, t) \in Nat BY Sizes, BaseRange DEF SectorDone
<1>3. Len(q) \in Nat /\ Len(q) =< t.n BY <1>2 DEF SectorDone
<1>4. Len(q) =< Length(t) BY <1>3, LengthCovers
<1> QED BY <1>1, <1>4, OtherSideIs, AnswerContinues

LEMMA ReadNextContinues ==
    ASSUME NEW t \in Transfer, NEW f \in Registers, NEW q, NEW l \in Nat,
           t.op = "read", SectorDone(f, t, q, l), ReadNext(f)
    PROVE  Continues(t, q, l, disk)
<1>1. CASE f.R # EOT
  <2>1. ReadSector([f EXCEPT !.R = @ + 1]) BY <1>1 DEF ReadNext
  <2> QED BY <1>1, <2>1, NextIsAtSector, ReadSectorContinues
<1>2. CASE f.R = EOT /\ f.mt /\ f.H = 0
  <2>1. ReadSector(OtherSide(f)) BY <1>2 DEF ReadNext
  <2> QED BY <1>2, <2>1, OtherSideIsAtSector, ReadSectorContinues
<1>3. CASE f.R = EOT /\ ~ (f.mt /\ f.H = 0)
  <2>1. Answer(OtherSide(f), "success") BY <1>3 DEF ReadNext
  <2> QED BY <1>3, <2>1, TrackEndContinues
<1> QED BY <1>1, <1>2, <1>3

LEMMA ReadByteContinues ==
    ASSUME NEW t \in Transfer, NEW f \in Registers, NEW q, NEW l \in Nat, NEW m \in Nat,
           NEW w, ReadByte(f, w), t.op = "read", f.event = "bufsend2",
           OnTrack(f, t), f.result = "none", f.bufcnt \in 1 .. BYTES,
           f.tc <=> l = 0, l # 0 => m = l - 1,
           Len(q) = Base(f, t) + BYTES - f.bufcnt + 1,
           t.n = l + 1 + Base(f, t) + BYTES - f.bufcnt
    PROVE  Continues(t, q, m, disk)
<1>0. BYTES \in Nat \ {0} /\ Base(f, t) \in Nat BY Sizes, BaseRange
<1>1. PICK g : g = [f EXCEPT !.bufcnt = @ - 1] OBVIOUS
<1>2. /\ g \in Registers /\ g.tc = f.tc /\ g.event = f.event /\ g.bufcnt = f.bufcnt - 1
  <2>1. f.bufcnt # 0 BY <1>0
  <2> QED BY <1>1, <2>1, ByteIs
<1>3. /\ g.us = f.us /\ g.mt = f.mt /\ g.hd = f.hd /\ g.H = f.H /\ g.R = f.R
      /\ g.result = f.result
  BY <1>1 DEF Registers
<1>4. OnTrack(g, t) /\ Base(g, t) = Base(f, t) BY <1>3 DEF OnTrack, Base, Before
<1>5. \/ f.tc /\ Answer([g EXCEPT !.R = 1], "success")
      \/ ~ f.tc /\ g.bufcnt = 0 /\ ReadNext(g)
      \/ ~ f.tc /\ g.bufcnt # 0 /\ fdc' = g
  BY <1>1 DEF ReadByte
<1>6. CASE f.tc /\ Answer([g EXCEPT !.R = 1], "success")
  <2>1. Len(q) = t.n /\ t.n \in Nat BY <1>0, <1>6 DEF Transfer
  <2>2. Len(q) = Length(t) /\ Len(q) =< Length(t) BY <2>1 DEF Length
  <2> QED BY <1>2, <1>6, <2>2, FirstSectorIs, AnswerContinues
<1>7. CASE ~ f.tc /\ g.bufcnt = 0 /\ ReadNext(g)
  <2>1. f.bufcnt = 1 /\ l = m + 1 BY <1>2, <1>7
  <2>2. Len(q) = Base(g, t) + BYTES /\ t.n = m + 1 + Base(g, t) + BYTES BY <1>0, <1>4, <2>1
  <2>3. SectorDone(g, t, q, m) BY <1>2, <1>3, <1>4, <1>7, <2>2 DEF SectorDone
  <2> QED BY <1>2, <1>7, <2>3, ReadNextContinues
<1>8. CASE ~ f.tc /\ g.bufcnt # 0 /\ fdc' = g
  <2>1. l = m + 1 BY <1>8
  <2>2. g.bufcnt \in 1 .. BYTES BY <1>0, <1>2, <1>8
  <2>3. /\ Len(q) = Base(g, t) + BYTES - g.bufcnt
        /\ t.n = m + 1 + Base(g, t) + BYTES - g.bufcnt
    <3>1. PICK b \in Nat, s \in Nat, c \in Nat :
              b = Base(f, t) /\ s = BYTES /\ c = f.bufcnt
      BY <1>0
    <3>2. g.bufcnt = c - 1 /\ Base(g, t) = b BY <1>2, <1>4, <3>1
    <3>3. Len(q) = b + s - c + 1 /\ t.n = (m + 1) + 1 + b + s - c BY <2>1, <3>1
    <3>4. Len(q) = b + s - (c - 1) /\ t.n = m + 1 + b + s - (c - 1) BY <3>3
    <3> QED BY <3>1, <3>2, <3>4
  <2>4. Moving(g, t, q, m) BY <1>2, <1>3, <1>4, <1>8, <2>2, <2>3 DEF Moving, PhaseOf
  <2> QED BY <1>2, <1>8, <2>4 DEF Continues, Phase
<1> QED BY <1>5, <1>6, <1>7, <1>8

\* A write moves the bytes when the sector is full, or at the terminal count.
LEMMA WriteByteContinues ==
    ASSUME NEW t \in Transfer, NEW f \in Registers, NEW q, NEW l \in Nat, NEW m \in Nat,
           NEW w, WriteByte(f, w), t.op = "write", f.event = "bufrecv",
           OnTrack(f, t), f.result = "none", f.bufcnt \in 1 .. BYTES,
           f.tc <=> l = 0, l # 0 => m = l - 1,
           Len(q) = Base(f, t) + IF (f.bufcnt = 1 \/ f.tc) /\ Accessible(f)
                                 THEN BYTES ELSE 0,
           t.n = l + 1 + Base(f, t) + BYTES - f.bufcnt
    PROVE  Continues(t, q, m, disk)
<1>0. BYTES \in Nat \ {0} /\ Base(f, t) \in Nat BY Sizes, BaseRange
<1>1. PICK g : g = [f EXCEPT !.bufcnt = @ - 1] OBVIOUS
<1>2. /\ g \in Registers /\ g.tc = f.tc /\ g.event = f.event /\ g.bufcnt = f.bufcnt - 1
  <2>1. f.bufcnt # 0 BY <1>0
  <2> QED BY <1>1, <2>1, ByteIs
<1>3. /\ g.us = f.us /\ g.mt = f.mt /\ g.hd = f.hd /\ g.H = f.H /\ g.R = f.R
      /\ g.result = f.result
  BY <1>1 DEF Registers
<1>4. OnTrack(g, t) /\ Base(g, t) = Base(f, t) BY <1>3 DEF OnTrack, Base, Before
<1>5. Accessible(g) <=> Accessible(f) BY <1>3 DEF Accessible
<1>6. \/ (g.bufcnt = 0 \/ f.tc) /\ WriteNext(g)
      \/ ~ f.tc /\ g.bufcnt # 0 /\ fdc' = g
  BY <1>1 DEF WriteByte
<1>7. CASE (g.bufcnt = 0 \/ f.tc) /\ WriteNext(g)
  <2>0. f.bufcnt = 1 \/ f.tc BY <1>0, <1>2, <1>7
  <2>1. CASE ~ Accessible(f)
    <3>1. Answer(g, "fault") BY <1>5, <1>7, <2>1 DEF WriteNext
    <3>2. Len(q) = Base(g, t) BY <1>0, <1>4, <2>1
    <3>3. Faulty(t, q, disk) BY <1>2, <1>4, <1>5, <2>1, <3>2, SectorFails
    <3>4. Len(q) \in Nat /\ Len(q) =< t.n BY <1>0, <1>4, <3>2
    <3>5. Len(q) =< Length(t) BY <3>4, LengthCovers
    <3> QED BY <1>2, <3>1, <3>3, <3>5, AnswerContinues
  <2>2. CASE Accessible(f) /\ f.tc
    <3>1. Answer(OtherSide(g), "success") BY <1>2, <1>5, <1>7, <2>2 DEF WriteNext
    <3>2. Len(q) = Base(f, t) + BYTES BY <1>0, <2>2
    <3>3. l = 0 BY <2>2
    <3> DEFINE k == BYTES + 1 - f.bufcnt  s == Before(f, t)
    <3>4. k \in 1 .. BYTES /\ t.n = Base(f, t) + k BY <1>0, <3>3
    <3>5. s \in Nat /\ Base(f, t) = s * BYTES BY BeforeRange DEF Base
    <3> HIDE DEF k, s
    <3>6. t.n = s * BYTES + k BY <3>4, <3>5
    <3>7. Length(t) = s * BYTES + BYTES BY <3>4, <3>5, <3>6, LengthOfWrite
    <3>8. Len(q) = Length(t) /\ Len(q) =< Length(t) BY <1>0, <3>2, <3>5, <3>7
    <3> QED BY <1>2, <3>1, <3>8, OtherSideIs, AnswerContinues
  <2>3. CASE Accessible(f) /\ ~ f.tc
    <3>1. f.bufcnt = 1 /\ l = m + 1 BY <2>0, <2>3
    <3>2. Len(q) = Base(g, t) + BYTES /\ t.n = m + 1 + Base(g, t) + BYTES
      BY <1>0, <1>4, <2>3, <3>1
    <3>3. SectorDone(g, t, q, m) BY <1>2, <1>3, <1>4, <2>3, <3>2 DEF SectorDone
    <3>4. "bufrecv" \in Phase /\ "bufrecv" = PhaseOf(t) BY DEF Phase, PhaseOf
    <3>5. CASE g.R # EOT
      <4>1. Data([g EXCEPT !.R = @ + 1], "bufrecv")
        BY <1>2, <1>5, <1>7, <2>3, <3>5 DEF WriteNext
      <4> QED BY <1>2, <3>3, <3>4, <3>5, <4>1, NextIsAtSector, DataContinues
    <3>6. CASE g.R = EOT /\ g.mt /\ g.H = 0
      <4>1. Data(OtherSide(g), "bufrecv")
        BY <1>2, <1>5, <1>7, <2>3, <3>6 DEF WriteNext
      <4> QED BY <1>2, <3>3, <3>4, <3>6, <4>1, OtherSideIsAtSector, DataContinues
    <3>7. CASE g.R = EOT /\ ~ (g.mt /\ g.H = 0)
      <4>1. Answer(OtherSide(g), "success")
        BY <1>2, <1>5, <1>7, <2>3, <3>7 DEF WriteNext
      <4> QED BY <1>2, <3>3, <3>7, <4>1, TrackEndContinues
    <3> QED BY <3>5, <3>6, <3>7
  <2> QED BY <2>1, <2>2, <2>3
<1>8. CASE ~ f.tc /\ g.bufcnt # 0 /\ fdc' = g
  <2>1. l = m + 1 /\ f.bufcnt # 1 BY <1>2, <1>8
  <2>2. g.bufcnt \in 1 .. BYTES BY <1>0, <1>2, <1>8
  <2>3. Len(q) = Base(g, t) BY <1>0, <1>4, <1>8, <2>1
  <2>4. t.n = m + 1 + Base(g, t) + BYTES - g.bufcnt BY <1>0, <1>2, <1>4, <2>1
  <2>5. Moving(g, t, q, m) BY <1>0, <1>2, <1>3, <1>4, <1>8, <2>2, <2>3, <2>4 DEF Moving, PhaseOf
  <2> QED BY <1>2, <1>8, <2>5 DEF Continues, Phase
<1> QED BY <1>6, <1>7, <1>8

\* The bytes moved prolong what has been moved.
LEMMA MovesAre ==
    ASSUME NEW t \in Transfer, NEW f \in Registers, NEW q, Prefix(q, t), OnTrack(f, t),
           f.event \in Phase, f.bufcnt \in 1 .. BYTES,
           Len(q) = Base(f, t) + IF f.event = "bufsend2" THEN BYTES - f.bufcnt ELSE 0
    PROVE  /\ Prefix(q \o Moves(f), t)
           /\ f.event = "bufsend2" => Len(q \o Moves(f)) = Base(f, t) + BYTES - f.bufcnt + 1
           /\ f.event = "bufrecv" =>
                 Len(q \o Moves(f)) = Base(f, t) + IF (f.bufcnt = 1 \/ f.tc) /\ Accessible(f)
                                                   THEN BYTES ELSE 0
<1>0. BYTES \in Nat \ {0} /\ Base(f, t) \in Nat BY Sizes, BaseRange
<1> DEFINE k == BYTES + 1 - f.bufcnt
<1>1. k \in 1 .. BYTES /\ k - 1 \in Nat /\ (k = BYTES <=> f.bufcnt = 1) BY <1>0, SMTT(30)
<1>2. CASE f.event = "bufsend2"
  <2> DEFINE r == <<Place(f, k)>>
  <2>1. Moves(f) = r BY <1>2 DEF Moves
  <2>2. r \in Seq(Places) /\ Len(r) = 1 /\ r[1] = Place(f, k)
    <3>1. Place(f, k) \in Places BY <1>1, PlaceIs
    <3> QED BY <3>1
  <2>3. Len(q) = Base(f, t) + (k - 1) BY <1>0, <1>2
  <2> HIDE DEF r, k
  <2>4. \A j \in 1 .. Len(r) : r[j] = Place(f, (k - 1) + j)
    <3>1. (k - 1) + 1 = k BY <1>1
    <3> QED BY <2>2, <3>1
  <2>5. (k - 1) + Len(r) =< BYTES BY <1>0, <1>1, <2>2
  <2>6. Prefix(q \o r, t) /\ Len(q \o r) = Base(f, t) + (k - 1) + 1
    <3>1. k - 1 \in Nat BY <1>1
    <3>2. Prefix(q \o r, t) /\ Len(q \o r) = Base(f, t) + (k - 1) + Len(r)
      BY <2>2, <2>3, <2>4, <2>5, <3>1, Prolongs
    <3> QED BY <2>2, <3>2
  <2>7. Base(f, t) + (k - 1) + 1 = Base(f, t) + BYTES - f.bufcnt + 1 BY <1>0 DEF k
  <2> QED BY <1>2, <2>1, <2>6, <2>7
<1>3. CASE f.event = "bufrecv" /\ (f.bufcnt = 1 \/ f.tc) /\ Accessible(f)
  <2> DEFINE r == [i \in 1 .. BYTES |-> Place(f, i)]
  <2>1. Moves(f) = r BY <1>3 DEF Moves
  <2>2. r \in Seq(Places) /\ Len(r) = BYTES
    <3>1. \A i \in 1 .. BYTES : Place(f, i) \in Places BY PlaceIs
    <3> QED BY <1>0, <3>1
  <2>3. Len(q) = Base(f, t) + 0 BY <1>0, <1>3
  <2>4. \A j \in 1 .. Len(r) : r[j] = Place(f, 0 + j) BY <1>0, <2>2
  <2> HIDE DEF r
  <2>5. 0 + Len(r) =< BYTES BY <1>0, <2>2
  <2>6. Prefix(q \o r, t) /\ Len(q \o r) = Base(f, t) + 0 + BYTES
    BY <2>2, <2>3, <2>4, <2>5, Prolongs
  <2>7. Base(f, t) + 0 + BYTES = Base(f, t) + BYTES BY <1>0
  <2> QED BY <1>3, <2>1, <2>6, <2>7
<1>4. CASE f.event = "bufrecv" /\ ~ ((f.bufcnt = 1 \/ f.tc) /\ Accessible(f))
  <2>1. Moves(f) = << >> BY <1>1, <1>4 DEF Moves
  <2>2. q \o << >> = q BY DEF Prefix
  <2> QED BY <1>4, <2>1, <2>2
<1> QED BY <1>2, <1>3, <1>4 DEF Phase

LEMMA NothingMoved ==
    ASSUME NEW t \in Transfer
    PROVE  Prefix(<< >>, t)
<1>1. Len(Track(t)) \in Nat BY TrackIs
<1>2. << >> \in Seq(Places) /\ Len(<< >>) = 0 OBVIOUS
<1> QED BY <1>1, <1>2 DEF Prefix

-----------------------------------------------------------------------------
(***************************************************************************)
(* The steps, once more                                                    *)
(***************************************************************************)

LEMMA LengthStays ==
    ASSUME leng \in 0 .. LENGMOD - 1, CountDown
    PROVE  leng' \in Nat /\ (leng # 0 => leng' = leng - 1)
<1>1. LENGMOD \in Nat \ {0} /\ leng \in Nat BY DmacAssumption
<1>2. leng' \in 0 .. LENGMOD - 1 BY CountDownStays
<1>3. ASSUME leng # 0 PROVE leng' = leng - 1
  <2> DEFINE n == leng - 1
  <2>1. n \in 0 .. LENGMOD - 1 BY <1>1, <1>3
  <2>2. leng + LENGMOD - 1 = 1 * LENGMOD + n BY <1>1
  <2>3. (1 * LENGMOD + n) % LENGMOD = n BY <1>1, <2>1, DivMod
  <2> QED BY <2>2, <2>3 DEF CountDown
<1> QED BY <1>1, <1>2, <1>3

LEMMA DmaKeepsTransfer ==
    ASSUME IInv, TransferInv, Dma PROVE TransferInv'
<1>1. /\ working /\ CountDown
      /\ UNCHANGED <<asked, clean, disk>>
      /\ moved' = IF clean THEN moved \o Moves([fdc EXCEPT !.tc = @ \/ LastByte]) ELSE moved
      /\ TakesCommands \/ DmaByte
  BY DEF Dma, DmaByte, DmaCommand
<1>2. CASE ~ clean BY <1>1, <1>2 DEF TransferInv
<1>3. CASE clean
  <2>0. DmaByte /\ ~ TakesCommands BY <1>1, <1>3, CommandsOnlyWhenCut
  <2>1. ready BY <1>1 DEF IInv, LoopPart, WorkInv
  <2>2. fdc.event # "bufsend" BY <2>1 DEF IInv, RegisterPart
  <2>3. /\ asked \in Transfer /\ Prefix(moved, asked) /\ fdc.event \in Phase
        /\ Moving(fdc, asked, moved, leng)
    BY <1>3, <2>2 DEF TransferInv
  <2>4. PICK f : f = [fdc EXCEPT !.tc = @ \/ LastByte] OBVIOUS
  <2>5. fdc \in Registers /\ leng \in 0 .. LENGMOD - 1 /\ leng \in Nat
    BY DmacAssumption DEF IInv, RegisterPart, LoopPart, DmacTypeOK
  <2>6. /\ f \in Registers /\ f.event = fdc.event /\ f.bufcnt = fdc.bufcnt
        /\ f.us = fdc.us /\ f.mt = fdc.mt /\ f.hd = fdc.hd /\ f.H = fdc.H /\ f.R = fdc.R
        /\ f.result = fdc.result /\ f.tc = (fdc.tc \/ LastByte)
    BY <2>4, <2>5 DEF Registers
  <2>7. f.tc <=> leng = 0 BY <2>3, <2>6 DEF Moving, LastByte
  <2>8. OnTrack(f, asked) /\ Base(f, asked) = Base(fdc, asked)
    BY <2>3, <2>6 DEF Moving, OnTrack, Base, Before
  <2>9. /\ f.result = "none" /\ f.bufcnt \in 1 .. BYTES
        /\ Len(moved) = Base(f, asked)
                        + IF f.event = "bufsend2" THEN BYTES - f.bufcnt ELSE 0
        /\ asked.n = leng + 1 + Base(f, asked) + BYTES - f.bufcnt
    BY <2>3, <2>6, <2>8 DEF Moving
  <2>10. moved' = moved \o Moves(f) BY <1>1, <1>3, <2>4
  <2>11. /\ Prefix(moved', asked)
         /\ f.event = "bufsend2" => Len(moved') = Base(f, asked) + BYTES - f.bufcnt + 1
         /\ f.event = "bufrecv" =>
               Len(moved') = Base(f, asked) + IF (f.bufcnt = 1 \/ f.tc) /\ Accessible(f)
                                              THEN BYTES ELSE 0
    BY <2>3, <2>6, <2>8, <2>9, <2>10, MovesAre
  <2>12. leng' \in Nat /\ (leng # 0 => leng' = leng - 1) BY <1>1, <2>5, LengthStays
  <2>13. TakeByte(f, ~ LastByte) BY <2>0, <2>4 DEF DmaByte
  <2>15. f.event = PhaseOf(asked) /\ asked.op \in {"read", "write"}
    BY <2>3, <2>6 DEF Moving, Transfer
  <2>14. Continues(asked, moved', leng', disk)
    <3>1. CASE f.event = "bufsend2"
      <4>0. asked.op = "read" BY <2>15, <3>1 DEF PhaseOf
      <4>1. dir = "read" BY <1>3, <2>6, <3>1 DEF IInv, WayPart, Way, Phase
      <4>2. ReadByte(f, ~ LastByte) BY <2>13, <3>1, <4>1 DEF TakeByte
      <4>3. Len(moved') = Base(f, asked) + BYTES - f.bufcnt + 1 BY <2>11, <3>1
      <4> QED BY <2>3, <2>5, <2>6, <2>7, <2>8, <2>9, <2>12, <3>1, <4>0, <4>2, <4>3,
                 ReadByteContinues
    <3>2. CASE f.event = "bufrecv"
      <4>0. asked.op = "write" BY <2>15, <3>2 DEF PhaseOf
      <4>1. dir = "write" BY <1>3, <2>6, <3>2 DEF IInv, WayPart, Way, Phase
      <4>2. WriteByte(f, ~ LastByte) BY <2>13, <3>2, <4>1 DEF TakeByte
      <4>3. Len(moved') = Base(f, asked) + IF (f.bufcnt = 1 \/ f.tc) /\ Accessible(f)
                                           THEN BYTES ELSE 0
        BY <2>11, <3>2
      <4> QED BY <2>3, <2>5, <2>6, <2>7, <2>8, <2>9, <2>12, <3>2, <4>0, <4>2, <4>3,
                 WriteByteContinues
    <3> QED BY <2>3, <2>6, <3>1, <3>2 DEF Phase
  <2> QED BY <1>1, <2>3, <2>11, <2>14 DEF TransferInv, Continues
<1> QED BY <1>2, <1>3

LEMMA DmaByteKeepsRest ==
    ASSUME IInv, RestInv, Dma, ~ TakesCommands, DmaByte PROVE RestInv'
<1> PICK f : f = [fdc EXCEPT !.tc = @ \/ LastByte] OBVIOUS
<1>1. TakeByte(f, ~ LastByte) BY DEF DmaByte
<1>2. /\ f \in Registers /\ f.event = fdc.event /\ f.bufcnt = fdc.bufcnt
      /\ f.result = fdc.result
      /\ PartAssumption
      /\ working /\ (~ LastByte) \in BOOLEAN
      /\ clean' = clean
      /\ fdc.event # "bufsend" /\ (fdc.event \in Phase => fdc.bufcnt # 0)
  BY CycleIs
<1>3. dir \in {"read", "write"} BY DEF IInv, LoopPart, DmacTypeOK
<1>4. CASE fdc.event = "bufsend2"
  <2>1. dir = "read" BY <1>3, <1>4 DEF TakesCommands
  <2>2. ReadByte(f, ~ LastByte) BY <1>1, <1>2, <1>4, <2>1 DEF TakeByte
  <2>3. "bufsend2" \in Phase BY DEF Phase
  <2>4. Outcome(f, "bufsend2") BY <1>2, <1>4, <2>2, <2>3, ReadByteIs
  <2> QED BY <2>4 DEF RestInv, Outcome, Answered, GoesOn
<1>5. CASE fdc.event = "bufrecv" /\ dir = "write"
  <2>1. WriteByte(f, ~ LastByte) BY <1>1, <1>2, <1>5 DEF TakeByte
  <2>2. "bufrecv" \in Phase BY DEF Phase
  <2>3. Outcome(f, "bufrecv") BY <1>2, <1>5, <2>1, <2>2, WriteByteIs
  <2> QED BY <2>3 DEF RestInv, Outcome, Answered, GoesOn
<1>6. CASE fdc.event \notin Phase \/ (fdc.event = "bufrecv" /\ dir = "read")
  <2>1. fdc' = f BY <1>1, <1>2, <1>6 DEF TakeByte, Phase
  <2> QED BY <1>2, <2>1 DEF RestInv
<1> QED BY <1>3, <1>4, <1>5, <1>6 DEF Phase

LEMMA DmaCommandKeepsRest ==
    ASSUME IInv, RestInv, Dma, TakesCommands, DmaCommand PROVE RestInv'
<1> PICK f : f = [fdc EXCEPT !.tc = @ \/ LastByte] OBVIOUS
<1>1. TakeCommand(f, ~ LastByte) BY DEF DmaCommand
<1>2. f \in Registers /\ f.event = fdc.event /\ f.result = fdc.result /\ PartAssumption
      /\ clean' = clean
  BY CycleIs
<1>3. ~ clean' BY <1>2, CommandsOnlyWhenCut
<1>4. CASE TakeFirstByte(f, ~ LastByte)
  <2>1. fdc'.result = "none"
    <3> PICK g : g = Rest(f) OBVIOUS
    <3>1. g \in Registers /\ g.result = "none"
      <4>1. g \in Registers BY <1>2, RestIs
      <4>2. g.result = "none" BY <1>2 DEF Rest, Registers
      <4> QED BY <4>1, <4>2
    <3>2. \/ fdc' = g
          \/ \E op \in {"readid", "seek", "read", "write"}, mt \in BOOLEAN :
                fdc' = [g EXCEPT !.event = "cmdrecv", !.op = op, !.mt = mt]
      BY <1>4 DEF TakeFirstByte
    <3> QED BY <3>1, <3>2 DEF Registers
  <2> QED BY <1>3, <2>1 DEF RestInv
<1>5. CASE TakeParameter(f, ~ LastByte)
  <2>1. fdc' = f BY <1>5 DEF TakeParameter
  <2> QED BY <1>2, <1>3, <2>1 DEF RestInv
<1>6. ASSUME NEW us \in Drives, NEW hd \in Side, NEW r \in 1 .. EOT,
             TakeLastParameter([f EXCEPT !.us = us, !.hd = hd, !.H = hd, !.R = r], ~ LastByte)
      PROVE  RestInv'
  <2> PICK g : g = [f EXCEPT !.us = us, !.hd = hd, !.H = hd, !.R = r] OBVIOUS
  <2>1. g \in Registers BY <1>2 DEF Registers
  <2>2. Seek(g) \/ Buffer(g, "bufsend2") \/ Buffer(g, "bufrecv") \/ Answer(g, "fault")
        \/ Answer(g, "success")
    BY <1>6 DEF TakeLastParameter
  <2>3. CASE Seek(g)
    <3>1. fdc' = Rest(g) BY <2>3 DEF Seek
    <3>2. Rest(g).result = "none" BY <2>1 DEF Rest, Registers
    <3> QED BY <1>3, <3>1, <3>2 DEF RestInv
  <2>4. ASSUME NEW p \in Phase, Buffer(g, p) PROVE RestInv'
    <3>1. fdc'.event = p BY <1>2, <2>1, <2>4, BufferIs
    <3> QED BY <3>1 DEF RestInv, Phase
  <2>5. ASSUME NEW a \in {"success", "fault"}, Answer(g, a) PROVE RestInv'
    <3>1. Answered BY <1>2, <2>1, <2>5, AnswerIs
    <3> QED BY <3>1 DEF RestInv, Answered
  <2>6. {"bufsend2", "bufrecv"} \subseteq Phase BY DEF Phase
  <2> QED BY <2>2, <2>3, <2>4, <2>5, <2>6
<1> QED BY <1>1, <1>4, <1>5, <1>6 DEF TakeCommand

LEMMA DmaKeepsRest ==
    ASSUME IInv, RestInv, Dma PROVE RestInv'
<1>1. \/ ~ TakesCommands /\ DmaByte
      \/ TakesCommands /\ DmaCommand
  BY DEF Dma
<1> QED BY <1>1, DmaByteKeepsRest, DmaCommandKeepsRest

\* A transfer begins.
LEMMA LastParameterKeepsTransfer ==
    ASSUME IInv, TransferInv, RestInv,
           NEW us \in Drives, NEW hd \in Side, NEW r \in 1 .. EOT, LastParameter(us, hd, r)
    PROVE  TransferInv' /\ RestInv'
<1>1. PICK f : f = [fdc EXCEPT !.us = us, !.hd = hd, !.H = hd, !.R = r] OBVIOUS
<1>2. /\ fdc.event = "cmdrecv" /\ UNCHANGED <<leng, disk>>
      /\ \/ f.op \in {"read", "write"} /\ StartTransfer(f)
         \/ ReadID(f)
         \/ SeekDrive(f)
  BY <1>1 DEF LastParameter
<1>3. ~ clean /\ fdc.result = "none" BY <1>2 DEF RestInv
<1>4. fdc \in Registers /\ leng \in Nat
  BY DmacAssumption DEF IInv, RegisterPart, LoopPart, DmacTypeOK
<1>5. /\ f \in Registers /\ f.us = us /\ f.hd = hd /\ f.H = hd /\ f.R = r
      /\ f.op = fdc.op /\ f.tc = fdc.tc /\ f.result = "none" /\ f.mt = fdc.mt
  BY <1>1, <1>3, <1>4 DEF Registers
<1>6. PartAssumption BY InvariantAssumptions
<1>7. CASE f.op \in {"read", "write"} /\ StartTransfer(f)
  <2>1. \/ f.op = "read" /\ ReadSector(f)
        \/ f.op = "write" /\ disk[f.us] = "in" /\ Data(f, "bufrecv")
        \/ disk[f.us] # "in" /\ Answer(f, "fault")
    BY <1>7 DEF StartTransfer
  <2>2. fdc'.event \in Phase \cup {"bufsend"}
    <3>1. CASE ReadSector(f)
      BY <1>5, <1>6, <3>1, ReadSectorIs DEF Outcome, Answered, GoesOn, Phase
    <3>2. CASE Data(f, "bufrecv")
      BY <1>5, <1>6, <3>2, DataIs DEF GoesOn, Phase
    <3>3. CASE Answer(f, "fault") BY <1>5, <1>6, <3>3, AnswerIs DEF Answered
    <3> QED BY <2>1, <3>1, <3>2, <3>3
  <2>3. RestInv' BY <2>2 DEF RestInv, Phase
  <2>4. ASSUME clean' PROVE TransferInv'
    <3> PICK t : t = [op |-> f.op, us |-> f.us, hd |-> f.hd, R |-> f.R, mt |-> f.mt,
                      n |-> leng + 1]
      OBVIOUS
    <3>1. ~ f.tc /\ asked' = t /\ moved' = << >> BY <1>7, <2>4 DEF StartTransfer
    <3>2. t \in Transfer BY <1>4, <1>5, <1>7 DEF Transfer, Registers
    <3>3. OnTrack(f, t) BY <1>4, <1>5 DEF OnTrack, Registers
    <3>4. Base(f, t) = 0
      <4>1. Before(f, t) = 0 BY <1>5 DEF Before
      <4> QED BY <4>1, Sizes DEF Base
    <3>5. AtSector(f, t, << >>, leng) BY <1>4, <1>5, <3>1, <3>3, <3>4 DEF AtSector
    <3>6. Continues(t, << >>, leng, disk)
      <4>1. CASE f.op = "read" /\ ReadSector(f)
        BY <1>4, <1>5, <3>2, <3>5, <4>1, ReadSectorContinues
      <4>2. CASE f.op = "write" /\ Data(f, "bufrecv")
        <5>1. "bufrecv" \in Phase /\ "bufrecv" = PhaseOf(t) BY <4>2 DEF Phase, PhaseOf
        <5> QED BY <1>4, <1>5, <3>2, <3>5, <4>2, <5>1, DataContinues
      <4>3. CASE disk[f.us] # "in" /\ Answer(f, "fault")
        <5>1. Faulty(t, << >>, disk) BY <4>3 DEF Faulty
        <5>2. Len(<< >>) =< Length(t)
          <6>1. 0 =< t.n BY <1>4
          <6> QED BY <3>2, <6>1, LengthCovers
        <5> QED BY <1>5, <3>2, <4>3, <5>1, <5>2, AnswerContinues
      <4> QED BY <2>1, <4>1, <4>2, <4>3
    <3>7. Prefix(<< >>, t) BY <3>2, NothingMoved
    <3> QED BY <1>2, <3>1, <3>2, <3>6, <3>7 DEF TransferInv, Continues
  <2> QED BY <2>3, <2>4 DEF TransferInv
<1>8. CASE ReadID(f)
  <2>1. fdc'.event = "bufsend" BY <1>5, <1>6, <1>8, AnswerIs DEF ReadID, Answered
  <2>2. ~ clean' BY <1>3, <1>8 DEF ReadID
  <2> QED BY <2>1, <2>2 DEF TransferInv, RestInv
<1>9. CASE SeekDrive(f)
  <2>1. ~ clean' /\ fdc' = Rest(f) BY <1>3, <1>9 DEF SeekDrive, Seek
  <2>2. Rest(f).result = "none" BY <1>5 DEF Rest, Registers
  <2> QED BY <2>1, <2>2 DEF TransferInv, RestInv
<1> QED BY <1>2, <1>7, <1>8, <1>9

LEMMA StillKeepsTransfer ==
    ASSUME TransferInv, RestInv, UNCHANGED <<fdc, ghosts, leng, disk>>
    PROVE  TransferInv' /\ RestInv'
  BY DEF TransferInv, RestInv, ghosts

LEMMA CommandKeepsTransfer ==
    ASSUME IInv, TransferInv, RestInv, NEW op, NEW mt, Command(op, mt)
    PROVE  TransferInv' /\ RestInv'
<1>1. /\ fdc.event = "neutral" /\ clean' = clean
      /\ fdc' = [fdc EXCEPT !.event = "cmdrecv", !.op = op, !.mt = mt]
  BY DEF Command, ghosts
<1>2. ~ clean' /\ fdc.result = "none" BY <1>1 DEF RestInv
<1>3. fdc'.result = fdc.result BY <1>1 DEF IInv, RegisterPart, Registers
<1> QED BY <1>2, <1>3 DEF TransferInv, RestInv

LEMMA DisturbedKeepsTransfer ==
    ASSUME IInv, RestInv, Disturbed,
           \/ fdc' = Rest(fdc)
           \/ fdc' = [Rest(fdc) EXCEPT !.tc = FALSE]
           \/ \E d \in Drives : fdc' = [fdc EXCEPT !.us = d]
           \/ fdc'.event \notin {"neutral", "cmdrecv"}
    PROVE  TransferInv' /\ RestInv'
<1>1. ~ clean' BY DEF Disturbed
<1>2. fdc'.event \in {"neutral", "cmdrecv"} => fdc'.result = "none"
  BY DEF IInv, RegisterPart, Registers, RestInv, Rest
<1> QED BY <1>1, <1>2 DEF TransferInv, RestInv

LEMMA HandlerKeepsTransfer ==
    ASSUME IInv, TransferInv, RestInv, Handler PROVE TransferInv' /\ RestInv'
<1>1. UNCHANGED <<leng, disk>> /\ (HandlerSenses \/ HandlerLeaves \/ HandlerDrains)
  BY DEF Handler
<1>2. CASE HandlerSenses BY <1>2, DisturbedKeepsTransfer DEF HandlerSenses
<1>3. CASE HandlerLeaves BY <1>1, <1>3, StillKeepsTransfer DEF HandlerLeaves
<1>4. CASE HandlerDrains
  <2>1. Disturbed /\ fdc.event = "bufsend2"
        /\ (fdc' = [Rest(fdc) EXCEPT !.tc = FALSE] \/ ReadByte(fdc, working))
    BY <1>4 DEF HandlerDrains
  <2>2. CASE ReadByte(fdc, working)
    <3>1. PartAssumption /\ working \in BOOLEAN
      BY InvariantAssumptions DEF PartAssumption, Booleans
    <3>2. fdc \in Registers /\ fdc.bufcnt # 0 BY <2>1 DEF IInv, RegisterPart, Phase
    <3>3. Outcome(fdc, "bufsend2") BY <2>1, <2>2, <3>1, <3>2, ReadByteIs
    <3>4. fdc'.event \notin {"neutral", "cmdrecv"}
      BY <3>3 DEF Outcome, Answered, GoesOn
    <3> QED BY <2>1, <3>4, DisturbedKeepsTransfer
  <2> QED BY <2>1, <2>2, DisturbedKeepsTransfer
<1> QED BY <1>1, <1>2, <1>3, <1>4

LEMMA NextKeepsTransfer ==
    IInv /\ TransferInv /\ RestInv /\ [Next]_vars => TransferInv' /\ RestInv'
<1> SUFFICES ASSUME IInv, TransferInv, RestInv, [Next]_vars
             PROVE  TransferInv' /\ RestInv'
  OBVIOUS
<1> DEFINE Goal == TransferInv' /\ RestInv'
<1>1. CASE Compute \/ Unmask \/ Pause \/ Interrupt \/ Frame \/ Enter \/ UNCHANGED vars
  <2>1. UNCHANGED <<fdc, ghosts, leng, disk>>
    BY <1>1 DEF Compute, Unmask, Pause, Interrupt, Frame, Enter, Outside, dmaVars, devVars,
                vars
  <2> QED BY <2>1, StillKeepsTransfer
<1>2. CASE \E op \in {"readid", "seek"} : FirstByte(op)
  BY <1>2, CommandKeepsTransfer DEF FirstByte
<1>3. CASE \E op \in {"read", "write"}, mt \in BOOLEAN, n \in Lengths :
              FirstByteOfTransfer(op, mt, n)
  BY <1>3, CommandKeepsTransfer DEF FirstByteOfTransfer
<1>4. CASE LastParameterAny BY <1>4, LastParameterKeepsTransfer DEF LastParameterAny
<1>5. CASE \E request, line, notify, attend \in BOOLEAN :
              Control(request, line, notify, attend)
  <2> PICK request \in BOOLEAN, line \in BOOLEAN, notify \in BOOLEAN, attend \in BOOLEAN :
             Control(request, line, notify, attend)
    BY <1>5
  <2>1. CASE request \/ line
    <3>1. fdc' = Rest(fdc) /\ Disturbed BY <2>1 DEF Control
    <3> QED BY <3>1, DisturbedKeepsTransfer
  <2>2. CASE ~ (request \/ line)
    <3>1. UNCHANGED <<fdc, asked, moved, clean, leng, disk>> BY <2>2 DEF Control
    <3> QED BY <3>1 DEF TransferInv, RestInv
  <2> QED BY <2>1, <2>2
<1>6. CASE Handler BY <1>6, HandlerKeepsTransfer
<1>7. CASE Dma BY <1>7, DmaKeepsTransfer, DmaKeepsRest
<1>8. CASE \E d \in Drives : ChangeDisk(d) \/ DiskArrives(d)
  BY <1>8, DisturbedKeepsTransfer DEF ChangeDisk, DiskArrives, Attention
<1> QED BY <1>1, <1>2, <1>3, <1>4, <1>5, <1>6, <1>7, <1>8 DEF Next

LEMMA InitTransfer == Init => TransferInv /\ RestInv
  BY DEF Init, TransferInv, RestInv

LEMMA PrefixIsPrefix ==
    ASSUME NEW t \in Transfer, NEW q, Prefix(q, t)
    PROVE  IsPrefix(q, Track(t))
<1> DEFINE n == Len(q)  s == SubSeq(q, 1, n)  u == SubSeq(Track(t), 1, n)
<1>1. n \in Nat /\ (\A i \in 1 .. n : q[i] \in Places /\ Track(t)[i] \in Places)
  BY DEF Prefix
<1>2. /\ s \in Seq(Places) /\ Len(s) = n /\ (\A i \in 1 .. n : s[i] = q[i])
  BY <1>1, SubSeqProperties
<1>3. /\ u \in Seq(Places) /\ Len(u) = n /\ (\A i \in 1 .. n : u[i] = Track(t)[i])
  BY <1>1, SubSeqProperties
<1>4. \A i \in 1 .. n : s[i] = u[i] BY <1>2, <1>3 DEF Prefix
<1> HIDE DEF s, u
<1>5. s = u BY <1>2, <1>3, <1>4, SeqEqual
<1>6. Len(q) =< Len(Track(t)) BY DEF Prefix
<1> QED BY <1>5, <1>6 DEF IsPrefix, s, u

LEMMA TransferInvIsExact == IInv /\ TransferInv => TransferIsExact
<1> SUFFICES ASSUME IInv, TransferInv, clean
             PROVE  /\ IsPrefix(moved, Track(asked))
                    /\ Len(moved) =< Length(asked)
                    /\ fdc.event = "bufsend" /\ fdc.result = "success" =>
                          Len(moved) = Length(asked) \/ Len(moved) = Len(Track(asked))
                    /\ fdc.result = "fault" => Faulty(asked, moved, disk)
  BY DEF TransferIsExact, Faulty
<1>1. asked \in Transfer /\ Prefix(moved, asked) BY DEF TransferInv
<1>2. IsPrefix(moved, Track(asked)) BY <1>1, PrefixIsPrefix
<1>3. CASE fdc.event \in Phase /\ Moving(fdc, asked, moved, leng)
  <2>1. OnTrack(fdc, asked) /\ fdc.result = "none" BY <1>3 DEF Moving
  <2>2. fdc \in Registers /\ leng \in Nat /\ BYTES \in Nat \ {0}
    BY DmacAssumption, Sizes DEF IInv, RegisterPart, LoopPart, DmacTypeOK
  <2>3. Base(fdc, asked) \in Nat BY <1>1, <2>1, <2>2, BaseRange
  <2>4. Len(moved) \in Nat /\ Len(moved) =< asked.n BY <1>3, <2>2, <2>3 DEF Moving
  <2>5. Len(moved) =< Length(asked) BY <1>1, <2>4, LengthCovers
  <2> QED BY <1>2, <1>3, <2>1, <2>5 DEF Phase
<1>4. CASE fdc.event = "bufsend" /\ Over(fdc, asked, moved, disk)
  BY <1>2, <1>4 DEF Over
<1> QED BY <1>3, <1>4 DEF TransferInv

\* A transfer that nobody has interfered with moves the bytes of the track in
\* their order, each once and none beyond the programmed length (a write fills
\* its last sector), and says truly how it has ended, for tracks,
\* sectors, lengths and bad sectors of any number: readsector, writesector,
\* FDC_ReadData, FDC_WriteData and the terminal count of dmax86.
THEOREM TransfersExact == Spec => []TransferIsExact
<1>1. Init => IInv /\ TransferInv /\ RestInv BY InitInvariant, InitTransfer
<1>2. IInv /\ TransferInv /\ RestInv /\ [Next]_vars => (IInv /\ TransferInv /\ RestInv)'
  BY NextKeepsInvariant, NextKeepsTransfer
<1>3. IInv /\ TransferInv /\ RestInv => TransferIsExact BY TransferInvIsExact
<1> QED BY <1>1, <1>2, <1>3, PTL DEF Spec
=============================================================================
