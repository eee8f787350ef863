-------------------------------- MODULE Fdc --------------------------------
(***************************************************************************)
(* The floppy disk controller (io/fdc.c) with its DMA channel, the events  *)
(* of the machine that touch it (the 512 clocks before an interrupt, the   *)
(* seek delays counted once a frame, a disk exchanged by the user) and a   *)
(* guest: a program that gives commands, and the interrupt handler of the  *)
(* BIOS (bios0x12).                                                        *)
(*                                                                         *)
(* Sectors have BYTES bytes and tracks have EOT sectors on each of two     *)
(* sides; the cylinder, the length code, write protection, the non-DMA     *)
(* mode and formatting are left out.  A byte is known by the place of the  *)
(* disk it comes from or goes to.                                          *)
(***************************************************************************)
EXTENDS Dmac, Sequences, SequencesExt

CONSTANTS
    Drives,      \* the drives that are equipped, out of 0..3
    EOT,         \* sectors of a side of a track
    BYTES,       \* bytes of a sector
    DELAY,       \* FDC_INT_DELAY, 6 in the code
    Lengths,     \* what the guest writes to leng
    Bad,         \* sectors <<drive, side, sector>> that cannot be accessed
    COMMANDS,    \* bound on the commands, whoever gives them
    MISHAPS      \* bound on disk changes, resets and pauses of the channel

ASSUME FdcAssumption ==
    /\ 0 \in Drives /\ Drives \subseteq 0 .. 3
    /\ {EOT, BYTES, DELAY} \subseteq Nat \ {0}
    /\ Lengths \subseteq 0 .. LENGMOD - 1
    /\ Bad \subseteq Drives \X {0, 1} \X (1 .. EOT)
    /\ {COMMANDS, MISHAPS} \subseteq Nat

VARIABLES
    fdc,         \* the registers, see TypeOK
    stat,        \* fdc.stat of each drive
    timer,       \* fdc.int_timer
    delayed,     \* fdc.int_stat
    disk,        \* fdd_diskready: "in", "out", or "coming" (diskdrv_delay)
    armed,       \* NEVENT_FDCINT
    irq,         \* the request is raised and not yet taken
    left,        \* what is left of the bounds
    (* what the properties look at *)
    asked,       \* the transfer the guest has asked for
    moved,       \* the places of the disk read to memory or written from it
    clean,       \* nobody has interfered with that transfer
    cut,         \* a reset has cut a transfer off, the DMA channel goes on
    seeking      \* drives whose seek the guest has not heard of

devVars == <<stat, timer, delayed, disk, armed, irq>>
ghosts == <<asked, moved, clean, cut, seeking>>
vars == <<dmaVars, loopVars, fdc, devVars, left, ghosts>>

Side == {0, 1}
Op == {"read", "write", "readid", "seek", "recalibrate", "sense"}

(* "none" is 0.  "drive" is the drive and head a command leaves in stat    *)
(* while it runs, IC0 with a cause is "fault", SE and AI are the others.   *)
Stat == {"none", "drive", "fault", "seek", "attention"}

Registers == [event : {"neutral", "cmdrecv", "bufrecv", "bufsend", "bufsend2"},
              op : Op, mt : BOOLEAN, us : Drives, hd : Side, H : Side,
              R : 1 .. EOT, bufcnt : 0 .. BYTES, tc : BOOLEAN,
              result : {"none", "success", "fault"}]

(* Registers, drives and timers keep their ranges; between two sectors the *)
(* next one is on the track, whatever ends the transfer.                   *)
TypeOK ==
    /\ DmacTypeOK
    /\ fdc \in Registers
    /\ stat \in [Drives -> Stat] /\ delayed \in [Drives -> Stat]
    /\ timer \in [Drives -> 0 .. DELAY]
    /\ disk \in [Drives -> {"in", "coming", "out"}]
    /\ {armed, irq, clean, cut} \subseteq BOOLEAN
    /\ seeking \subseteq Drives

Spent(what) == /\ left[what] > 0
               /\ left' = [left EXCEPT ![what] = @ - 1]

NoTransfer == [op |-> "read", us |-> 0, hd |-> 0, R |-> 1, mt |-> FALSE, n |-> 0]

Init ==
    /\ DmacInit
    /\ fdc = [event |-> "neutral", op |-> "sense", mt |-> FALSE,
              us |-> 0,
              hd |-> 0, H |-> 0, R |-> 1, bufcnt |-> 0, tc |-> FALSE,
              result |-> "none"]
    /\ stat = [d \in Drives |-> "none"] /\ delayed = [d \in Drives |-> "none"]
    /\ timer = [d \in Drives |-> 0]
    /\ disk = [d \in Drives |-> "in"]
    /\ armed = FALSE /\ irq = FALSE
    /\ left = [commands |-> COMMANDS, mishaps |-> MISHAPS]
    /\ asked = NoTransfer
    /\ moved = <<>> /\ clean = FALSE /\ cut = FALSE /\ seeking = {}

(* Between commands the registers hold nothing that a later command reads, *)
(* but the drive.                                                          *)
Rest(f) == [f EXCEPT !.event = "neutral", !.op = "sense", !.mt = FALSE, !.hd = 0,
                     !.H = 0, !.R = 1, !.bufcnt = 0, !.result = "none"]

(***************************************************************************)
(* Parts of commands.  f is the state of the registers so far.  Each part  *)
(* says what becomes of fdc, stat, armed and the lines of the channel.     *)
(***************************************************************************)

(* fdc_dmafunc has nothing to do with the channel but the terminal count.  *)
NoDmac(w) == working' = w /\ UNCHANGED <<mask, ready, work, forced>>

(* A faulty variant: the channel is not told that the transfer is over.    *)
AnswerReady(f, r) ==
    /\ fdc' = [f EXCEPT !.event = "bufsend", !.tc = FALSE, !.bufcnt = 0, !.result = r]
    /\ stat' = [stat EXCEPT ![f.us] = "none"]
    /\ NoDmac(FALSE)
    /\ armed' = TRUE

(* fdcsend_success7 and fdcsend_error7: the result phase begins.           *)
Answer(f, r) ==
    /\ fdc' = [f EXCEPT !.event = "bufsend", !.tc = FALSE, !.bufcnt = 0, !.result = r]
    /\ stat' = [stat EXCEPT ![f.us] = "none"]
    /\ DmacCheck(mask, FALSE)
    /\ armed' = TRUE

(* The data phase begins, or goes on with the next sector.                 *)
Buffer(f, phaseOf) ==
    /\ fdc' = [f EXCEPT !.event = phaseOf, !.bufcnt = BYTES]
    /\ stat' = [stat EXCEPT ![f.us] = IF f.us = 0 /\ f.hd = 0 THEN "none" ELSE "drive"]
    /\ UNCHANGED armed

Data(f, phaseOf) == Buffer(f, phaseOf) /\ DmacCheck(mask, TRUE)

Accessible(f) == /\ disk[f.us] = "in"
                 /\ f.R <= EOT
                 /\ <<f.us, f.hd, f.R>> \notin Bad

OtherSide(f) == [f EXCEPT !.R = 1, !.hd = IF f.mt THEN 1 - @ ELSE @,
                          !.H = IF f.mt THEN 1 - @ ELSE @]

(* FDC_DriveCheck and fdd_read, in readsector.                             *)
ReadSector(f) == IF Accessible(f) THEN Data(f, "bufsend2") ELSE Answer(f, "fault")

(* FDC_ReadData when a sector has been read to its end (NEXTDATA).         *)
ReadNext(f) ==
    CASE f.R # EOT -> ReadSector([f EXCEPT !.R = @ + 1])
      [] f.R = EOT /\ f.mt /\ f.H = 0 -> ReadSector(OtherSide(f))
      [] OTHER -> Answer(OtherSide(f), "success")

(* fdc_dataread in BUFSEND2; w says if the channel stays at work.          *)
ReadByte(f, w) ==
    LET g == [f EXCEPT !.bufcnt = @ - 1]
    IN  IF f.tc THEN Answer([g EXCEPT !.R = 1], "success")
        ELSE IF g.bufcnt = 0 THEN ReadNext(g)
        ELSE fdc' = g /\ NoDmac(w) /\ UNCHANGED <<stat, armed>>

(* FDC_WriteData when the buffer is full, or at the terminal count         *)
(* (BUFRECV): writesector, then the next sector or the result.             *)
WriteNext(f) ==
    CASE ~Accessible(f) -> Answer(f, "fault")
      [] Accessible(f) /\ ~f.tc /\ f.R # EOT -> Data([f EXCEPT !.R = @ + 1], "bufrecv")
      [] Accessible(f) /\ ~f.tc /\ f.R = EOT /\ f.mt /\ f.H = 0 -> Data(OtherSide(f), "bufrecv")
      [] OTHER -> Answer(OtherSide(f), "success")

(* fdc_datawrite in BUFRECV.                                               *)
WriteByte(f, w) ==
    LET g == [f EXCEPT !.bufcnt = @ - 1]
    IN  IF g.bufcnt = 0 \/ f.tc THEN WriteNext(g)
        ELSE fdc' = g /\ NoDmac(w) /\ UNCHANGED <<stat, armed>>

Place(f, i) == <<f.us, f.hd, f.R, i>>

(* The places of the disk that a byte moves: the one read, or those of the *)
(* sector that is now written.  At the terminal count that is a whole      *)
(* sector too, its rest being what the buffer held before.                 *)
Moves(f) ==
    CASE f.event = "bufsend2" -> <<Place(f, BYTES + 1 - f.bufcnt)>>
      [] f.event = "bufrecv" /\ (f.bufcnt = 1 \/ f.tc) /\ Accessible(f)
            -> [i \in 1 .. BYTES |-> Place(f, i)]
      [] OTHER -> <<>>

(***************************************************************************)
(* The guest's instructions.  A driver sends the bytes of a command with   *)
(* interrupts disabled, programs the channel while no command runs, and    *)
(* gives no command to a drive whose seek it has not heard of.             *)
(***************************************************************************)
Instruction == phase = "cpu" /\ AfterInstruction

(* Nothing more is said of the transfer.                                   *)
Disturbed == clean' = FALSE /\ moved' = <<>> /\ asked' = NoTransfer

(* Any instruction without I/O, and the end of the clocks of the period.   *)
Compute ==
    /\ UNCHANGED <<dmaVars, forced>>
    /\ Instruction
    /\ UNCHANGED <<fdc, devVars, left, ghosts>>

Unmask ==
    /\ mask
    /\ DmacCheck(FALSE, ready)
    /\ Instruction
    /\ UNCHANGED <<leng, dir, fdc, devVars, left, ghosts>>

(* The channel is masked while bytes move, and will be unmasked.           *)
Pause ==
    /\ fdc.event \in {"bufsend2", "bufrecv"} /\ ~mask
    /\ Spent("mishaps")
    /\ DmacCheck(TRUE, ready)
    /\ Instruction
    /\ UNCHANGED <<leng, dir, fdc, devVars, ghosts>>

(* fdc_o92 and fdc_datawrite: the first byte of a command.                 *)
Command(op, mt) ==
    /\ fdc.event = "neutral"
    /\ Spent("commands")
    /\ fdc' = [fdc EXCEPT !.event = "cmdrecv", !.op = op, !.mt = mt]
    /\ Instruction
    /\ UNCHANGED <<devVars, ghosts>>

FirstByte(op) ==
    /\ NoDmac(working) /\ UNCHANGED <<leng, dir>>
    /\ Command(op, FALSE)

(* Before a transfer the channel is masked and programmed (ports 15h, 0Dh  *)
(* and 17h).                                                               *)
FirstByteOfTransfer(op, mt, n) ==
    /\ DmacCheck(TRUE, ready)
    /\ leng' = n /\ dir' = op
    /\ Command(op, mt)

(* FDC_Seek and FDC_Recalibrate: the answer comes after a delay.           *)
Seek(f) ==
    /\ fdc' = Rest(f)
    /\ delayed' = [delayed EXCEPT ![f.us] = "seek"]
    /\ timer' = [timer EXCEPT ![f.us] = DELAY]
    /\ UNCHANGED <<stat, armed>>

SeekDrive(f) ==
    /\ Seek(f)
    /\ seeking' = seeking \cup {f.us}
    /\ NoDmac(working)
    /\ UNCHANGED <<clean, moved, asked>>

(* FDC_ReadData or FDC_WriteData, when the command is complete.            *)
StartTransfer(f) ==
    /\ IF f.op = "read" THEN ReadSector(f)
       ELSE IF disk[f.us] = "in" THEN Data(f, "bufrecv")
       ELSE Answer(f, "fault")
    /\ clean' = (~ready /\ ~f.tc)
    /\ asked' = IF ~clean' THEN NoTransfer
                ELSE [op |-> f.op, us |-> f.us, hd |-> f.hd, R |-> f.R, mt |-> f.mt,
                      n |-> leng + 1]
    /\ moved' = <<>>
    /\ UNCHANGED <<timer, delayed, seeking>>

(* FDC_ReadID.                                                             *)
ReadID(f) ==
    /\ Answer(f, IF disk[f.us] = "in" THEN "success" ELSE "fault")
    /\ UNCHANGED <<timer, delayed, clean, moved, asked, seeking>>

(* fdc_datawrite in CMDRECV: the last of the parameters.  Head and sector  *)
(* matter in transfers.                                                    *)
LastParameter(us, hd, r) ==
    /\ fdc.event = "cmdrecv" /\ us \notin seeking
    /\ fdc.op \in {"read", "write"} \/ (hd = 0 /\ r = 1)
    /\ LET f == [fdc EXCEPT !.us = us, !.hd = hd, !.H = hd, !.R = r]
       IN  CASE f.op \in {"read", "write"} -> StartTransfer(f)
             [] f.op = "readid" -> ReadID(f)
             [] OTHER -> SeekDrive(f)
    /\ cut' = (cut /\ fdc'.event # "bufsend")
    /\ Instruction
    /\ UNCHANGED <<leng, dir, disk, irq, left>>

(* fdc_o94.  Bit 10h, when it changes, resets the controller and its DMA   *)
(* request.  Bit 80h, when it rises, resets the controller, the DMA        *)
(* request it leaves up; with bit 08h set (notify) all drives answer after *)
(* a while.  Bit 08h, when it rises and chgreg lets it, has every drive    *)
(* with a disk call for attention.  One write may do several of these.     *)
Control(request, line, notify, attend) ==
    /\ request \/ line \/ attend
    /\ attend => notify
    /\ Spent("mishaps")
    /\ IF request THEN DmacCheck(mask, FALSE) ELSE NoDmac(working)
    /\ IF request \/ line
       THEN fdc' = Rest(fdc) /\ Disturbed /\ seeking' = {}
       ELSE UNCHANGED <<fdc, asked, moved, clean, seeking>>
    /\ cut' = (cut \/ (line /\ ~request /\ ready))
    /\ LET called(d) == attend /\ disk[d] = "in"
           answers(d) == line /\ notify
       IN  /\ delayed' = [d \in Drives |-> IF called(d) THEN "attention"
                                          ELSE IF answers(d) THEN stat[d] ELSE delayed[d]]
           /\ timer' = [d \in Drives |-> IF called(d) \/ answers(d) THEN DELAY ELSE timer[d]]
    /\ Instruction
    /\ UNCHANGED <<leng, dir, stat, disk, armed, irq>>

(***************************************************************************)
(* bios0x12.  It takes the result if there is one, then senses the drives  *)
(* until none answers.  In the data phase of a read it takes the data for  *)
(* the result: all of the track, or one byte if that is FDCRLT_IC1.        *)
(***************************************************************************)
(* A faulty variant: a result is taken, the drives are not asked.          *)
HandlerTakesResult ==
    /\ fdc.event \in {"neutral", "bufsend"}
    /\ fdc' = Rest(fdc)
    /\ IF fdc.event = "bufsend"
       THEN UNCHANGED <<stat, seeking>>
       ELSE /\ stat' = [d \in Drives |-> "none"]
            /\ seeking' = {d \in seeking : stat[d] = "none"}
    /\ Disturbed
    /\ NoDmac(working)
    /\ UNCHANGED <<armed, cut>>

HandlerSenses ==
    /\ fdc.event \in {"neutral", "bufsend"}
    /\ fdc' = Rest(fdc)
    /\ stat' = [d \in Drives |-> "none"]
    /\ seeking' = {d \in seeking : stat[d] = "none"}
    /\ Disturbed
    /\ NoDmac(working)
    /\ UNCHANGED <<armed, cut>>

(* It has nothing to do in a write, or when the channel brings a command.  *)
HandlerLeaves ==
    /\ fdc.event = "bufrecv" \/ (fdc.event = "cmdrecv" /\ working /\ dir = "write")
    /\ NoDmac(working)
    /\ UNCHANGED <<fdc, stat, armed, ghosts>>

HandlerDrains ==
    /\ fdc.event = "bufsend2"
    /\ Disturbed
    /\ \/ /\ fdc' = [Rest(fdc) EXCEPT !.tc = FALSE]
          /\ stat' = [d \in Drives |-> "none"]
          /\ seeking' = {d \in seeking : stat[d] = "none"}
          /\ DmacCheck(mask, FALSE)
          /\ armed' = TRUE
          /\ cut' = FALSE
       \/ /\ ReadByte(fdc, working)
          /\ cut' = (cut /\ fdc'.event # "bufsend")
          /\ UNCHANGED seeking

Handler ==
    /\ irq /\ irq' = FALSE
    /\ HandlerSenses \/ HandlerLeaves \/ HandlerDrains
    /\ Instruction
    /\ UNCHANGED <<leng, dir, timer, delayed, disk, left>>

(***************************************************************************)
(* dmax86, after each instruction of the loop that steps: one byte, if the *)
(* channel is at work.  The terminal count (DMAEXT_END) comes first.       *)
(***************************************************************************)
TakeByte(f, w) ==
    CASE f.event = "bufsend2" /\ dir = "read" -> ReadByte(f, w)
      [] f.event = "bufrecv" /\ dir = "write" -> WriteByte(f, w)
      [] OTHER -> fdc' = f /\ NoDmac(w) /\ UNCHANGED <<stat, armed>>

(* fdc_datawrite, when the channel goes to the device and the controller   *)
(* is not in a write: it takes the memory for commands, of any kind.  Only *)
(* a reset by bit 80h leads here.  Commands without data or delay are over *)
(* at once.                                                                *)
TakesCommands == dir = "write" /\ fdc.event # "bufrecv"

TakeFirstByte(f, w) ==
    /\ f.event # "cmdrecv"
    /\ \/ fdc' = Rest(f) /\ UNCHANGED left
       \/ \E op \in {"readid", "seek", "read", "write"}, mt \in BOOLEAN :
             /\ Spent("commands")
             /\ fdc' = [Rest(f) EXCEPT !.event = "cmdrecv", !.op = op, !.mt = mt]
    /\ NoDmac(w)
    /\ UNCHANGED <<stat, timer, delayed, armed>>

TakeParameter(f, w) ==
    /\ f.event = "cmdrecv"
    /\ fdc' = f
    /\ NoDmac(w)
    /\ UNCHANGED <<stat, timer, delayed, armed, left>>

(* The request for DMA is up before the data phase begins.                 *)
TakeLastParameter(f, w) ==
    /\ f.event = "cmdrecv"
    /\ f.op \in {"read", "write"} \/ (f.hd = 0 /\ f.R = 1)
    /\ \/ f.op = "seek" /\ Seek(f) /\ NoDmac(w)
       \/ /\ \/ f.op = "read" /\ Accessible(f) /\ Buffer(f, "bufsend2") /\ NoDmac(w)
             \/ f.op = "write" /\ disk[f.us] = "in" /\ Buffer(f, "bufrecv") /\ NoDmac(w)
             \/ /\ f.op = "read" => ~Accessible(f)
                /\ f.op \in {"write", "readid"} => disk[f.us] # "in"
                /\ f.op # "seek" /\ Answer(f, "fault")
             \/ f.op = "readid" /\ disk[f.us] = "in" /\ Answer(f, "success")
          /\ UNCHANGED <<timer, delayed>>
    /\ UNCHANGED left

TakeCommand(f, w) ==
    \/ TakeFirstByte(f, w)
    \/ TakeParameter(f, w)
    \/ \E us \in Drives, hd \in Side, r \in 1 .. EOT :
          TakeLastParameter([f EXCEPT !.us = us, !.hd = hd, !.H = hd, !.R = r], w)

(* A faulty variant: the terminal count comes after the last byte.         *)
DmaByteLate ==
    /\ working
    /\ CountDown
    /\ TakeByte([fdc EXCEPT !.tc = (leng = LENGMOD - 1)], leng # LENGMOD - 1)

DmaByte ==
    /\ working
    /\ CountDown
    /\ TakeByte([fdc EXCEPT !.tc = @ \/ LastByte], ~LastByte)

DmaCommand ==
    /\ working
    /\ CountDown
    /\ TakeCommand([fdc EXCEPT !.tc = @ \/ LastByte], ~LastByte)

Dma ==
    /\ phase = "dma"
    /\ \/ ~TakesCommands /\ DmaByte /\ UNCHANGED <<timer, delayed, left, seeking>>
       \/ TakesCommands /\ DmaCommand /\ seeking' = {}
    /\ moved' = IF clean THEN moved \o Moves([fdc EXCEPT !.tc = @ \/ LastByte]) ELSE moved
    /\ cut' = (cut /\ fdc'.event # "bufsend")
    /\ AfterDma
    /\ UNCHANGED <<stepping, dir, disk, irq, asked, clean>>

(***************************************************************************)
(* What happens between two loops of the CPU.                              *)
(***************************************************************************)
Outside == phase = "out" /\ UNCHANGED <<loopVars, dmaVars>>

(* fdc_intwait, 512 clocks after fdc_interrupt.                            *)
Interrupt ==
    /\ Outside
    /\ armed
    /\ armed' = FALSE /\ irq' = TRUE
    /\ UNCHANGED <<fdc, stat, timer, delayed, disk, left, ghosts>>

(* fdc_intdelay, once a frame.  int_stat is not read again.                *)
Frame ==
    /\ Outside
    /\ timer # [d \in Drives |-> 0]
    /\ timer' = [d \in Drives |-> IF timer[d] > 0 THEN timer[d] - 1 ELSE 0]
    /\ stat' = [d \in Drives |-> IF timer[d] = 1 THEN delayed[d] ELSE stat[d]]
    /\ delayed' = [d \in Drives |-> IF timer[d] > 1 THEN delayed[d] ELSE "none"]
    /\ armed' = (armed \/ \E d \in Drives : timer[d] = 1)
    /\ UNCHANGED <<fdc, disk, irq, left, ghosts>>

(* diskdrv_setfddex and diskdrv_readyfddex: the drive calls for attention, *)
(* and becomes the drive the controller is at, whatever it is doing.       *)
Attention(d, now) ==
    /\ disk' = [disk EXCEPT ![d] = now]
    /\ stat' = [stat EXCEPT ![d] = "attention"]
    /\ fdc' = [fdc EXCEPT !.us = d]
    /\ armed' = TRUE
    /\ IF fdc.event = "neutral" THEN UNCHANGED seeking ELSE seeking' = {}
    /\ Disturbed
    /\ UNCHANGED <<cut, irq, timer, delayed>>

ChangeDisk(d) ==
    /\ Outside
    /\ Spent("mishaps")
    /\ \E now \in {"out", "coming"} : Attention(d, now)

DiskArrives(d) ==
    /\ Outside
    /\ disk[d] = "coming"
    /\ Attention(d, "in")
    /\ UNCHANGED left

Enter ==
    /\ EnterLoop
    /\ UNCHANGED <<dmaVars, fdc, devVars, left, ghosts>>

LastParameterAny == \E us \in Drives, hd \in Side, r \in 1 .. EOT : LastParameter(us, hd, r)

Next ==
    \/ Compute \/ Unmask \/ Pause
    \/ \E op \in {"readid", "seek"} : FirstByte(op)
    \/ \E op \in {"read", "write"}, mt \in BOOLEAN, n \in Lengths :
          FirstByteOfTransfer(op, mt, n)
    \/ LastParameterAny
    \/ \E request, line, notify, attend \in BOOLEAN : Control(request, line, notify, attend)
    \/ Handler
    \/ Dma
    \/ Interrupt \/ Frame
    \/ \E d \in Drives : ChangeDisk(d) \/ DiskArrives(d)
    \/ Enter

Spec == Init /\ [][Next]_vars

(* The loop of the machine goes on: the CPU runs, its period ends, events  *)
(* and frames come.  The guest completes its commands, unmasks the channel *)
(* it has masked, and takes its interrupts; there are finitely many of     *)
(* these, so that none can hold up the others for ever.                    *)
Fairness ==
    /\ WF_vars(Enter \/ Dma \/ Compute)
    /\ SF_vars(Interrupt \/ Frame)
    /\ SF_vars(Handler \/ Unmask \/ LastParameterAny)

FairSpec == Spec /\ Fairness

(***************************************************************************)
(* Properties                                                              *)
(***************************************************************************)

(* The bytes of the track from where a transfer starts: the rest of the    *)
(* side, then, with the multi-track bit, the other side.                   *)
Track(t) ==
    LET sectors == EOT + 1 - t.R + IF t.mt /\ t.hd = 0 THEN EOT ELSE 0
        sector(i) == (t.R - 1) + ((i - 1) \div BYTES)
    IN  [i \in 1 .. sectors * BYTES |->
            <<t.us, t.hd + (sector(i) \div EOT), 1 + (sector(i) % EOT), 1 + ((i - 1) % BYTES)>>]

(* The programmed length; what is written are whole sectors.               *)
Length(t) == IF t.op = "read" THEN t.n ELSE ((t.n + BYTES - 1) \div BYTES) * BYTES

(* A transfer moves the bytes of the track in their order, each once, and  *)
(* none beyond the programmed length; a write that ends inside a sector    *)
(* fills that sector.  When it is said to have succeeded it has moved them *)
(* all, up to that length or the end of the track; when it has failed, the *)
(* next sector could not be accessed.  The terminal count, the ends of a   *)
(* sector, a side and the track, a pause of the channel, seeks of other    *)
(* drives and their interrupts come in any order.  Exempt are transfers    *)
(* that a disk change or a reset ran into, whose data the interrupt        *)
(* handler took, or that found the channel running after a reset.          *)
TransferIsExact ==
    clean =>
        /\ IsPrefix(moved, Track(asked))
        /\ Len(moved) <= Length(asked)
        /\ (fdc.event = "bufsend" /\ fdc.result = "success") =>
              \/ Len(moved) = Length(asked)
              \/ Len(moved) = Len(Track(asked))
        /\ fdc.result = "fault" =>
              \/ disk[asked.us] # "in"
              \/ /\ Len(moved) < Len(Track(asked))
                 /\ \E b \in Bad : Track(asked)[Len(moved) + 1] = <<b[1], b[2], b[3], 1>>

(* The request for DMA is up through the data phase of a command, and down *)
(* again when its result is there, with no terminal count left: whatever   *)
(* has happened to the controller, a command that comes to its result      *)
(* leaves the channel at rest for the next one.  That the request is up    *)
(* outside a data phase, or a terminal count is kept, has one cause: a     *)
(* reset by bit 80h in a data phase (fdc_o94), and no result since then.   *)
ChannelServesPhase ==
    /\ fdc.event \in {"bufsend2", "bufrecv"} => ready
    /\ working => ready
    /\ fdc.event = "bufsend" => ~ready /\ ~fdc.tc
    /\ (ready /\ fdc.event \notin {"bufsend2", "bufrecv"}) \/ fdc.tc => cut

(* While a channel is at work the CPU is in the loop that moves its bytes, *)
(* or on its way there: whoever starts a channel forces it out of the      *)
(* other one (dmac_check, ia32).                                           *)
WorkingIsStepped == (working /\ phase = "cpu") => stepping

(* Every command comes to its end: the data phase ends by the terminal     *)
(* count, the end of the track or an error, and the result is announced    *)
(* and taken, however many interrupts of other causes there are.  A        *)
(* transfer that a reset by bit 80h has cut off may hang its successor:    *)
(* the channel reaches its terminal count while nobody looks.              *)
CommandEnds == (fdc.event # "neutral") ~> (fdc.event = "neutral" \/ cut)

(* The guest hears of every seek it has asked for, unless it resets the    *)
(* controller, or a disk is changed while a command runs, whose result     *)
(* then takes the place of what the drive had to say, or a channel left    *)
(* running by a reset gives the controller commands.                       *)
SeekIsSensed == \A d \in Drives : (d \in seeking) ~> (d \notin seeking)
=============================================================================
