------------------------------- MODULE Lgy98 -------------------------------
(***************************************************************************)
(* The receiving half of the NE2000 compatible network card                *)
(* (network/lgy98.c), between the thread that reads the TAP device (Net)   *)
(* and the guest's driver on the emulation thread.  Nothing locks the card.*)
(*                                                                         *)
(* The card's memory is a ring of pages from start to stop.  The read      *)
(* thread puts a frame at curpag: a header with the page of the next one,  *)
(* then the data page by page, then it moves curpag, sets a bit of the ISR *)
(* and updates the interrupt line.  The driver takes frames from the page  *)
(* after boundary until curpag and moves boundary behind them; it          *)
(* acknowledges bits of the ISR.  A reset of the machine clears the card   *)
(* after the device was opened again, with the read thread running.        *)
(*                                                                         *)
(* FRAME is the number of pages the largest Ethernet frame takes, for which*)
(* there has to be room: 6 in the code, where the test counts bytes.  The  *)
(* card lets in any frame that is not larger than the whole ring.          *)
(* "unread" is a history variable: the frames the driver has still to see, *)
(* and where they begin.                                                   *)
(* Left out: the transmitter (it ends like a remote DMA, with a bit of the *)
(* ISR; Net has the way out) and the guest's page of registers.            *)
(***************************************************************************)
EXTENDS Net

CONSTANTS
    START, STOP,    \* the ring the driver sets up
    FRAME,          \* pages of the largest frame
    Data,           \* what frames carry
    NoFrame         \* no frame

ASSUME CardAssumption ==
    /\ START \in Nat \ {0} /\ STOP \in Nat
    /\ FRAME \in Nat \ {0} /\ START + FRAME < STOP
    /\ NoFrame \notin [data : Data, pages : 1 .. STOP - START]

Page == START .. STOP - 1
Frame == [data : Data, pages : 1 .. STOP - START]
Bits == {"RX", "RDC"}

VARIABLES
    start, stop,        \* the bounds of the ring, 0 after a reset
    curpag, boundary,   \* where the next frame goes, and the last page taken
    stopped,            \* E8390_STOP
    header,             \* what the header at a page says is the next page
    data,               \* the data of a page: of which frame which part
    isr, imr,           \* the interrupt bits and their mask
    irqflag,            \* a request was made and not withdrawn
    recent,             \* less than 2 ms ago
    asked,              \* the interrupt controller was asked since the card
                        \* was reset or the request withdrawn
    frame,              \* the frame the read thread puts into the ring
    part,               \* and the part of it that is next
    page,               \* index: where that goes
    next,               \* the page after the frame
    sampleR, sampleE,   \* the bits as either thread has read them
    unread,             \* the frames between boundary and curpag
    sound,              \* nothing has spoiled the ring since it was set up
    raced               \* both threads changed the interrupt at a time

regs == <<start, stop, curpag, boundary, stopped>>
memory == <<header, data>>
irq == <<irqflag, recent, asked>>
receiving == <<frame, part, page, next>>
cardvars == <<regs, memory, isr, imr, irq, receiving, sampleR, sampleE, unread, sound, raced>>
vars == <<netvars, cardvars>>

Init ==
    /\ NetInit
    /\ start = 0 /\ stop = 0 /\ curpag = 0 /\ boundary = 0 /\ stopped = FALSE
    /\ header = [p \in Page |-> 0]
    /\ data = [p \in Page |-> NoFrame]
    /\ isr = {} /\ imr = {}
    /\ irqflag = FALSE /\ recent = FALSE /\ asked = FALSE
    /\ frame = NoFrame /\ part = 0 /\ page = 0 /\ next = 0
    /\ sampleR = {} /\ sampleE = {}
    /\ unread = << >> /\ sound = FALSE /\ raced = FALSE

\* Inside ne2000_receive, between the test for room and the new curpag
Putting == frame # NoFrame

\* What pages hold that nobody will read is not followed.
Blank(pages) ==
    /\ header' = [p \in Page |-> IF p \in pages THEN 0 ELSE header[p]]
    /\ data' = [p \in Page |-> IF p \in pages THEN NoFrame ELSE data[p]]

\* Between a change of the bits and the request that follows from it
Stages == {"start", "set", "sample", "request", "flag"}
UpdatingR == threadR \in Stages
UpdatingE == emulation \in Stages

Reader(from, to) ==
    /\ threadR = from /\ threadR' = to
    /\ UNCHANGED <<ring, event, threadexit, opened, emulation, sending, ending, threadW, tap>>

Driver(from, to) ==
    /\ emulation = from /\ emulation' = to
    /\ UNCHANGED <<ring, event, threadexit, opened, sending, ending, threads, tap>>

-----------------------------------------------------------------------------
(***************************************************************************)
(* ne2000_update_irq: the bits are read, the request is made or withdrawn, *)
(* and only then irqflag says so; on either thread, in any order           *)
(***************************************************************************)

\* Faulty variant: a request is made once.
UpdateOnce(bits) ==
    IF bits = {}
    THEN asked' = FALSE /\ UNCHANGED <<irqflag, recent>>
    ELSE IF irqflag
    THEN UNCHANGED irq
    ELSE irqflag' = FALSE /\ recent' = TRUE /\ asked' = TRUE

Update(bits) ==
    IF bits = {}
    THEN asked' = FALSE /\ UNCHANGED <<irqflag, recent>>
    ELSE IF irqflag /\ recent
    THEN UNCHANGED irq
    ELSE irqflag' = FALSE /\ recent' = TRUE /\ asked' = TRUE

Flag(bits) == irqflag' = (bits # {}) /\ UNCHANGED <<recent, asked>>

\* What a race of the two threads has done lasts until the bits go, or an
\* update 2 ms later makes the request again.
Settled(other) == raced' = (other \/ (raced /\ recent /\ isr \cap imr # {}))

\* After 2 ms a request is made again when there is occasion to.
Elapse ==
    /\ recent
    /\ recent' = FALSE
    /\ UNCHANGED <<netvars, regs, memory, isr, imr, irqflag, asked, receiving,
                   sampleR, sampleE, unread, sound, raced>>

-----------------------------------------------------------------------------
(***************************************************************************)
(* The read thread: ne2000_receive                                         *)
(***************************************************************************)

Avail == IF curpag < boundary
         THEN boundary - curpag
         ELSE (stop - start) - (curpag - boundary)

\* Faulty variant: room for the smallest frame is enough.
BufferFullLate == Avail < 1

\* ne2000_buffer_full
BufferFull == Avail < FRAME

After(p, n) == IF p + n >= stop THEN p + n - (stop - start) ELSE p + n

\* There is no room for the largest frame of an Ethernet, the frame is larger
\* than the ring, or not for this card.
Dropped ==
    /\ Reader("receive", "test")
    /\ UNCHANGED cardvars

\* The header is written first.  A frame that is larger than the room
\* that is asked for may run over those that are unread.
PutHeader(f) ==
    /\ ~ stopped /\ ~ BufferFull
    /\ Reader("receive", "copy")
    /\ frame' = f /\ part' = 1 /\ page' = curpag
    /\ next' = After(curpag, f.pages)
    /\ sound' = (sound /\ (f.pages =< FRAME \/ f.pages =< Avail))
    /\ unread' = IF sound' THEN unread ELSE << >>
    /\ IF sound' THEN header' = [header EXCEPT ![curpag] = next'] /\ data' = data
                 ELSE Blank(Page)
    /\ UNCHANGED <<regs, isr, imr, irq, sampleR, sampleE, raced>>

\* One part of the data, where the ring ends beyond it; a reset that takes
\* the ring away leaves the thread in its loop.
PutPage ==
    /\ Reader("copy", "copy")
    /\ part <= frame.pages /\ page < stop
    /\ data' = IF sound THEN [data EXCEPT ![page] = [frame |-> frame, part |-> part]] ELSE data
    /\ part' = part + 1
    /\ page' = IF page + 1 = stop THEN start ELSE page + 1
    /\ UNCHANGED <<regs, header, isr, imr, irq, frame, next, sampleR, sampleE,
                   unread, sound, raced>>

\* Only then curpag moves.  The ring looks empty if it has come to boundary.
MoveCurpag ==
    /\ Reader("copy", "bit")
    /\ part > frame.pages
    /\ curpag' = next
    /\ sound' = (sound /\ next # boundary)
    /\ unread' = IF sound' THEN Append(unread, [frame |-> frame, at |-> curpag]) ELSE << >>
    /\ IF sound' THEN UNCHANGED memory ELSE Blank(Page)
    /\ frame' = NoFrame /\ part' = 0 /\ page' = 0 /\ next' = 0
    /\ UNCHANGED <<start, stop, boundary, stopped, isr, imr, irq,
                   sampleR, sampleE, raced>>

\* isr |= ENISR_RX: a read and a write
LoadRX ==
    /\ Reader("bit", "set")
    /\ sampleR' = isr \cup {"RX"}
    /\ raced' = (raced \/ UpdatingE)
    /\ UNCHANGED <<regs, memory, isr, imr, irq, receiving, sampleE, unread, sound>>

SetRX ==
    /\ Reader("set", "sample")
    /\ isr' = sampleR
    /\ sampleR' = {}
    /\ UNCHANGED <<regs, memory, imr, irq, receiving, sampleE, unread, sound, raced>>

SampleR ==
    /\ Reader("sample", "request")
    /\ sampleR' = isr \cap imr
    /\ Settled(UpdatingE)
    /\ UNCHANGED <<regs, memory, isr, imr, irq, receiving, sampleE, unread, sound>>

RequestR ==
    /\ Reader("request", "flag")
    /\ Update(sampleR)
    /\ UNCHANGED <<regs, memory, isr, imr, receiving, sampleR, sampleE, unread, sound, raced>>

FlagR ==
    /\ Reader("flag", "test")
    /\ Flag(sampleR)
    /\ sampleR' = {}
    /\ UNCHANGED <<regs, memory, isr, imr, receiving, sampleE, unread, sound, raced>>

Receive ==
    \/ Dropped \/ (\E f \in Frame : PutHeader(f)) \/ PutPage \/ MoveCurpag
    \/ LoadRX \/ SetRX \/ SampleR \/ RequestR \/ FlagR

-----------------------------------------------------------------------------
(***************************************************************************)
(* The driver, on the emulation thread                                     *)
(***************************************************************************)

\* The driver stops the card before it sets it up ...
SetUpBegin ==
    /\ Driver("idle", "idle")
    /\ stopped' = TRUE
    /\ UNCHANGED <<start, stop, curpag, boundary, memory, isr, imr, irq, receiving,
                   sampleR, sampleE, unread, sound, raced>>

\* ... and starts it with an empty ring: boundary one behind curpag.  A start
\* clears the reset bit of the ISR, which is a read ...
SetUpEnd ==
    /\ stopped
    /\ Driver("idle", "start")
    /\ start' = START /\ stop' = STOP
    /\ boundary' = START /\ curpag' = START + 1
    /\ stopped' = FALSE
    /\ unread' = << >> /\ sound' = ~ Putting
    /\ Blank(Page)
    /\ sampleE' = isr
    /\ raced' = (raced \/ UpdatingR)
    /\ UNCHANGED <<isr, imr, irq, receiving, sampleR>>

\* ... and a write; the interrupt is left alone.
Started ==
    /\ Driver("start", "idle")
    /\ isr' = sampleE
    /\ sampleE' = {}
    /\ UNCHANGED <<regs, memory, imr, irq, receiving, sampleR, unread, sound, raced>>

Head1 == IF boundary + 1 = stop THEN start ELSE boundary + 1

\* The next frame is read by remote DMA, which ends with a bit of the ISR
\* (ne2000_dma_update), and boundary moves to its last page.
Take ==
    /\ sound /\ ~ stopped /\ Head1 # curpag
    /\ Driver("idle", "set")
    /\ boundary' = IF header[Head1] = start THEN stop - 1 ELSE header[Head1] - 1
    /\ unread' = Tail(unread)
    /\ Blank({After(Head1, k) : k \in 0 .. Head(unread).frame.pages - 1})
    /\ sampleE' = isr \cup {"RDC"}
    /\ raced' = (raced \/ UpdatingR)
    /\ UNCHANGED <<start, stop, curpag, stopped, isr, imr, irq, receiving, sampleR, sound>>

\* Port 7: bits of the ISR are acknowledged.
Acknowledge(bits) ==
    /\ Driver("idle", "set")
    /\ sampleE' = isr \ bits
    /\ raced' = (raced \/ UpdatingR)
    /\ UNCHANGED <<regs, memory, isr, imr, irq, receiving, sampleR, unread, sound>>

\* The write of isr that follows the read
SetE ==
    /\ Driver("set", "sample")
    /\ isr' = sampleE
    /\ sampleE' = {}
    /\ UNCHANGED <<regs, memory, imr, irq, receiving, sampleR, unread, sound, raced>>

\* Port 0Fh: the mask
Mask(bits) ==
    /\ Driver("idle", "sample")
    /\ imr' = bits
    /\ raced' = (raced \/ UpdatingR)
    /\ UNCHANGED <<regs, memory, isr, irq, receiving, sampleR, sampleE, unread, sound>>

SampleE ==
    /\ Driver("sample", "request")
    /\ sampleE' = isr \cap imr
    /\ Settled(UpdatingR)
    /\ UNCHANGED <<regs, memory, isr, imr, irq, receiving, sampleR, unread, sound>>

RequestE ==
    /\ Driver("request", "flag")
    /\ Update(sampleE)
    /\ UNCHANGED <<regs, memory, isr, imr, receiving, sampleR, sampleE, unread, sound, raced>>

FlagE ==
    /\ Driver("flag", "idle")
    /\ Flag(sampleE)
    /\ sampleE' = {}
    /\ UNCHANGED <<regs, memory, isr, imr, receiving, sampleR, unread, sound, raced>>

\* lgy98_reset and lgy98_bind: the card is cleared, the static irqflag is
\* not; the controllers were reset before.  A reset lasts longer than 2 ms.
CardCleared ==
    /\ Driver("card", "idle")
    /\ start' = 0 /\ stop' = 0 /\ curpag' = 0 /\ boundary' = 0 /\ stopped' = FALSE
    /\ isr' = {} /\ imr' = {}
    /\ asked' = FALSE /\ recent' = FALSE
    /\ Blank(Page)
    /\ unread' = << >> /\ sound' = FALSE
    /\ raced' = UpdatingR
    /\ UNCHANGED <<irqflag, receiving, sampleR, sampleE>>

Guest ==
    \/ SetUpBegin \/ SetUpEnd \/ Take
    \/ \E bits \in SUBSET Bits : Acknowledge(bits) \/ Mask(bits)

GuestContinues == Started \/ SetE \/ SampleE \/ RequestE \/ FlagE \/ CardCleared

\* A thread whose loop has no end is killed ten seconds after a close.
KillReader ==
    /\ emulation = "joinR"
    /\ Reader("copy", "ended")
    /\ part <= frame.pages /\ page >= stop
    /\ frame' = NoFrame /\ part' = 0 /\ page' = 0 /\ next' = 0
    /\ UNCHANGED <<regs, memory, isr, imr, irq, sampleR, sampleE, unread, sound, raced>>

-----------------------------------------------------------------------------
CardNext ==
    \/ (NetNext \/ ReadFile) /\ UNCHANGED cardvars
    \/ Receive
    \/ Guest \/ GuestContinues
    \/ Elapse \/ KillReader

CardSpec == Init /\ [][CardNext]_vars

-----------------------------------------------------------------------------
(***************************************************************************)
(* Properties                                                              *)
(***************************************************************************)

\* A frame as it was put into the ring, from page p on
Intact(p, f) ==
    /\ header[p] = After(p, f.pages)
    /\ \A k \in 1 .. f.pages :
           data[After(p, k - 1)] = [frame |-> f, part |-> k]

\* With the read thread at any point of the next frame, the driver finds
\* every frame it has not taken whole, in order, up to curpag: frames are
\* announced only when complete, and none is written over another one.
\* Three things spoil this in the code.  A frame larger than the room that was
\* asked for runs over those that are unread; one that fills the ring to the
\* last page makes it look empty; and a reset clears the card while the
\* thread, already started again, may be in the middle of a frame.
UnreadIsKept ==
    sound =>
        LET n == Len(unread)
            found(i) == IF i = 1 THEN Head1 ELSE header[unread[i - 1].at]
        IN  /\ \A i \in 1 .. n : unread[i].at = found(i) /\ Intact(unread[i].at, unread[i].frame)
            /\ curpag = found(n + 1)

\* A bit that is set and not masked has led to a request, whatever was
\* acknowledged or masked before, after a reset too.  It may not have when
\* both threads changed the bits or the request at the same time: the ISR,
\* irqflag and the request are then written by the one that read earlier.
\* Two milliseconds later the next update makes up for it.
PendingIsAnnounced ==
    (isr \cap imr # {} /\ ~ UpdatingR /\ ~ UpdatingE /\ ~ raced) => asked
=============================================================================
