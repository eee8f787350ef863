---------------------------- MODULE Lgy98Proofs ----------------------------
EXTENDS Lgy98, SequenceTheorems, TLAPS

(***************************************************************************)
(* Proofs about the network card, for rings of any size and any frames.    *)
(*                                                                         *)
(* PendingIsAnnounced needs to know where the two threads are in           *)
(* ne2000_update_irq while neither has met the other: AnnounceInv.         *)
(*                                                                         *)
(* UnreadIsKept says that a frame in the ring is whole.  That it stays so  *)
(* follows from where frames lie: Placed says it by the distance of a page *)
(* from the one the driver reads next, which turns the ring into an        *)
(* interval, and CopyInv says which part of the next frame the read thread *)
(* has put there.  Together with the room that was found (SoundInv) they   *)
(* are RingInv.                                                            *)
(***************************************************************************)

(***************************************************************************)
(* Where the threads are                                                   *)
(***************************************************************************)

\* The read thread is inside ne2000_receive only while the device is open,
\* and has a frame only while it copies one.
ReaderInv ==
    /\ opened \in BOOLEAN
    /\ ~ opened => threadR = "none"
    /\ emulation = "open" => ~ opened
    /\ emulation = "joinW" => threadR = "ended"
    /\ Putting <=> threadR = "copy"

\* The rest of the network leaves the threads alone while they use the card.
LEMMA NetMoves ==
    ASSUME ReaderInv, NetNext \/ ReadFile
    PROVE  /\ opened' \in BOOLEAN
           /\ ~ opened' => threadR' = "none"
           /\ emulation' = "open" => ~ opened'
           /\ emulation' = "joinW" => threadR' = "ended"
           /\ \/ threadR' = threadR
              \/ /\ threadR \in {"none", "test", "read", "ended"}
                 /\ threadR' \in {"none", "test", "read", "receive", "ended"}
           /\ \/ emulation' = emulation
              \/ emulation \notin Stages /\ emulation' \notin Stages
<1> USE DEF ReaderInv, Stages
<1>1. CASE Down BY <1>1 DEF Down, netvars, threads
<1>2. ASSUME NEW p \in Packets, Send(p) PROVE emulation' = "copy" /\ emulation = "idle" /\ UNCHANGED <<opened, threadR>>
  BY <1>2 DEF Send, threads
<1>3. CASE Reset BY <1>3 DEF Reset, EmulationAt, threads
<1>4. CASE Shutdown BY <1>4 DEF Shutdown, EmulationAt, threads
<1>5. CASE Copy \/ Advance \/ Signal BY <1>5 DEF Copy, Advance, Signal, threads
<1>6. CASE Stop \/ Wake \/ JoinR BY <1>6 DEF Stop, Wake, JoinR, EmulationAt, threads
<1>7. CASE JoinW BY <1>7 DEF JoinW, EmulationAt
<1>8. CASE OpenTAP BY <1>8 DEF OpenTAP, EmulationAt
<1>9. CASE OpenFails BY <1>9 DEF OpenFails, EmulationAt, threads
<1>10. CASE ThreadFuncW \/ WriteCompletes
  <2>1. UNCHANGED <<opened, emulation, threadR>>
    BY <1>10 DEF ThreadFuncW, Woken, TestExit, TestEmpty, TestExitInside, WriteFile,
              WriteFilePending, Abandon, NextPacket, WriteCompletes, StepsOfW
  <2> QED BY <2>1
<1>11. CASE ThreadFuncR \/ ReadFails \/ ReadFile
  <2>1. /\ UNCHANGED <<opened, emulation>> /\ threadR \in {"test", "read"}
        /\ threadR' \in {"test", "read", "receive", "ended"}
    BY <1>11 DEF ThreadFuncR, ReadTestExit, ReadAbandoned, ReadFails, ReadFile, ReaderAt
  <2> QED BY <2>1
<1> QED BY <1>1, <1>2, <1>3, <1>4, <1>5, <1>6, <1>7, <1>8, <1>9, <1>10, <1>11
        DEF NetNext, Begin, Continue

LEMMA FramesExist == ASSUME NEW f \in Frame PROVE f # NoFrame
  BY CardAssumption DEF Frame

\* What the steps of the read thread do to where it is
LEMMA ReceiveMoves ==
    ASSUME Receive \/ KillReader
    PROVE  /\ UNCHANGED <<opened, emulation>>
           /\ threadR \notin {"none", "ended"} /\ threadR' # "none"
  BY DEF Receive, Dropped, PutHeader, PutPage, MoveCurpag, LoadRX, SetRX, SampleR, RequestR,
         FlagR, KillReader, Reader

LEMMA ReceiveReader ==
    ASSUME ReaderInv, Receive \/ KillReader
    PROVE  ReaderInv'
<1>1. /\ UNCHANGED <<opened, emulation>>
      /\ threadR \notin {"none", "ended"} /\ threadR' # "none"
  BY ReceiveMoves
<1>2. opened /\ emulation # "joinW" BY <1>1 DEF ReaderInv
<1>3. Putting' <=> threadR' = "copy"
  <2>1. CASE \E f \in Frame : PutHeader(f)
    BY <2>1, FramesExist DEF PutHeader, Putting, Reader
  <2>2. CASE PutPage BY <2>2 DEF PutPage, Putting, Reader, ReaderInv
  <2>3. CASE MoveCurpag BY <2>3 DEF MoveCurpag, Putting, Reader
  <2>4. CASE KillReader BY <2>4 DEF KillReader, Putting, Reader
  <2>5. CASE Dropped BY <2>5 DEF Dropped, Putting, Reader, ReaderInv, cardvars, receiving
  <2>6. CASE LoadRX BY <2>6 DEF LoadRX, Putting, Reader, ReaderInv, receiving
  <2>7. CASE SetRX BY <2>7 DEF SetRX, Putting, Reader, ReaderInv, receiving
  <2>8. CASE SampleR BY <2>8 DEF SampleR, Putting, Reader, ReaderInv, receiving
  <2>9. CASE RequestR BY <2>9 DEF RequestR, Putting, Reader, ReaderInv, receiving
  <2>10. CASE FlagR BY <2>10 DEF FlagR, Putting, Reader, ReaderInv, receiving
  <2> QED BY <2>1, <2>2, <2>3, <2>4, <2>5, <2>6, <2>7, <2>8, <2>9, <2>10 DEF Receive
<1> QED BY <1>1, <1>2, <1>3 DEF ReaderInv

LEMMA DriverReader ==
    ASSUME ReaderInv, Guest \/ GuestContinues \/ Elapse
    PROVE  ReaderInv' /\ threadR' = threadR
<1>1. UNCHANGED <<opened, threadR>>
  BY DEF Guest, GuestContinues, SetUpBegin, SetUpEnd, Started, Take, Acknowledge, Mask, SetE, SampleE,
         RequestE, FlagE, CardCleared, Elapse, Driver, netvars, threads
<1>2. emulation' = emulation \/ emulation' \in Stages \cup {"idle"}
  BY DEF Guest, GuestContinues, SetUpBegin, SetUpEnd, Started, Take, Acknowledge, Mask, SetE, SampleE,
         RequestE, FlagE, CardCleared, Elapse, Driver, netvars, Stages
<1>3. frame' = frame
  BY DEF Guest, GuestContinues, SetUpBegin, SetUpEnd, Started, Take, Acknowledge, Mask, SetE, SampleE,
         RequestE, FlagE, CardCleared, Elapse, receiving
<1> QED BY <1>1, <1>2, <1>3 DEF ReaderInv, Putting, Stages

LEMMA NetReader ==
    ASSUME ReaderInv, NetNext \/ ReadFile, UNCHANGED cardvars
    PROVE  ReaderInv'
<1>1. frame' = frame BY DEF cardvars, receiving
<1> QED BY <1>1, NetMoves DEF ReaderInv, Putting

LEMMA NextReader == ASSUME ReaderInv, [CardNext]_vars PROVE ReaderInv'
<1>1. CASE UNCHANGED vars
  <2>1. UNCHANGED <<opened, emulation, threadR, frame>>
    BY <1>1 DEF vars, netvars, threads, cardvars, receiving
  <2> QED BY <2>1 DEF ReaderInv, Putting
<1> QED BY <1>1, NetReader, ReceiveReader, DriverReader DEF CardNext

LEMMA InitReader == Init => ReaderInv
  BY DEF Init, NetInit, ReaderInv, Putting

-----------------------------------------------------------------------------
(***************************************************************************)
(* The interrupt line                                                      *)
(***************************************************************************)

\* An update that nobody interferes with: what the thread has read is what
\* the bits are, and a request was made by then, or will be.
AtWork(thread, sample) ==
    /\ thread = "start" => sample = isr /\ (isr \cap imr # {} => asked)
    /\ thread = "start" => (irqflag /\ recent => asked)
    /\ thread \in {"set", "sample"} => (irqflag /\ recent => asked)
    /\ thread = "request" => /\ sample = isr \cap imr
                             /\ sample # {} /\ irqflag /\ recent => asked
    /\ thread = "flag" => /\ sample = isr \cap imr
                          /\ sample # {} => asked

AnnounceInv ==
    ~ raced =>
        /\ ~ (UpdatingR /\ UpdatingE)
        /\ AtWork(threadR, sampleR) /\ AtWork(emulation, sampleE)
        /\ ~ UpdatingR /\ ~ UpdatingE =>
               (isr \cap imr # {} => asked) /\ (irqflag /\ recent => asked)

LEMMA NetAnnounces ==
    ASSUME ReaderInv, AnnounceInv, NetNext \/ ReadFile, UNCHANGED cardvars
    PROVE  AnnounceInv'
<1>1. UNCHANGED <<isr, imr, irqflag, recent, asked, raced, sampleR, sampleE>>
  BY DEF cardvars, irq
<1>2. /\ \/ threadR' = threadR
         \/ /\ threadR \in {"none", "test", "read", "ended"}
            /\ threadR' \in {"none", "test", "read", "receive", "ended"}
      /\ \/ emulation' = emulation
         \/ emulation \notin Stages /\ emulation' \notin Stages
  BY NetMoves
<1>3. UpdatingR' = UpdatingR /\ UpdatingE' = UpdatingE
  BY <1>2 DEF UpdatingR, UpdatingE, Stages
<1>4. ~ raced => AtWork(threadR, sampleR)' /\ AtWork(emulation, sampleE)'
  BY <1>1, <1>2 DEF AnnounceInv, AtWork, Stages
<1> QED BY <1>1, <1>3, <1>4 DEF AnnounceInv

\* Before and after an update the read thread leaves the bits alone.
LEMMA CopyAnnounces ==
    ASSUME AnnounceInv,
           \/ Dropped \/ (\E f \in Frame : PutHeader(f)) \/ PutPage \/ MoveCurpag
           \/ KillReader
    PROVE  AnnounceInv'
<1>1. /\ UNCHANGED <<isr, imr, irqflag, recent, asked, raced, sampleR, sampleE, emulation>>
      /\ threadR \notin Stages /\ threadR' \notin Stages
  BY DEF Dropped, PutHeader, PutPage, MoveCurpag, KillReader, Reader, cardvars, irq, Stages
<1>2. ~ UpdatingR /\ ~ UpdatingR' /\ UpdatingE' = UpdatingE
  BY <1>1 DEF UpdatingR, UpdatingE, Stages
<1>3. ~ raced => AtWork(threadR, sampleR)' /\ AtWork(emulation, sampleE)'
  BY <1>1 DEF AnnounceInv, AtWork, Stages
<1> QED BY <1>1, <1>2, <1>3 DEF AnnounceInv

\* A race does not end while both threads are at it.
LEMMA ReceiveAnnounces ==
    ASSUME AnnounceInv, LoadRX \/ SetRX \/ SampleR \/ RequestR \/ FlagR
    PROVE  AnnounceInv'
<1>1. emulation' = emulation /\ UpdatingE' = UpdatingE
  BY DEF LoadRX, SetRX, SampleR, RequestR, FlagR, Reader, UpdatingE
<1>2. CASE LoadRX
  <2>1. /\ threadR = "bit" /\ threadR' = "set"
        /\ UNCHANGED <<isr, imr, irqflag, recent, asked, sampleE>>
        /\ raced' = (raced \/ UpdatingE)
    BY <1>2 DEF LoadRX, Reader, irq
  <2>2. ~ UpdatingR /\ UpdatingR' BY <2>1 DEF UpdatingR, Stages
  <2>3. ASSUME ~ raced' PROVE ~ raced /\ ~ UpdatingE BY <2>1, <2>3
  <2>4. ASSUME ~ raced' PROVE emulation \notin Stages BY <2>3, <2>4 DEF UpdatingE, Stages
  <2> QED BY <1>1, <2>1, <2>2, <2>3, <2>4 DEF AnnounceInv, AtWork, Stages
<1>3. CASE SetRX
  <2>1. /\ threadR = "set" /\ threadR' = "sample"
        /\ UNCHANGED <<imr, irqflag, recent, asked, sampleE, raced>>
    BY <1>3 DEF SetRX, Reader, irq
  <2>2. UpdatingR /\ UpdatingR' BY <2>1 DEF UpdatingR, Stages
  <2>3. ASSUME ~ raced PROVE emulation \notin Stages
    BY <2>2, <2>3 DEF AnnounceInv, UpdatingE, Stages
  <2> QED BY <1>1, <2>1, <2>2, <2>3 DEF AnnounceInv, AtWork, Stages
<1>4. CASE SampleR
  <2>1. /\ threadR = "sample" /\ threadR' = "request" /\ sampleR' = isr \cap imr
        /\ UNCHANGED <<isr, imr, irqflag, recent, asked, sampleE>>
        /\ raced' = (UpdatingE \/ (raced /\ recent /\ isr \cap imr # {}))
    BY <1>4 DEF SampleR, Reader, irq, Settled
  <2>2. UpdatingR /\ UpdatingR' BY <2>1 DEF UpdatingR, Stages
  <2>3. ASSUME ~ raced' PROVE ~ UpdatingE /\ (~ raced \/ ~ recent \/ isr \cap imr = {})
    BY <2>1, <2>3
  <2>4. ASSUME ~ raced' PROVE emulation \notin Stages BY <2>3, <2>4 DEF UpdatingE, Stages
  <2> QED BY <1>1, <2>1, <2>2, <2>3, <2>4 DEF AnnounceInv, AtWork, Stages
<1>5. CASE RequestR
  <2>1. /\ threadR = "request" /\ threadR' = "flag" /\ Update(sampleR)
        /\ UNCHANGED <<isr, imr, sampleR, sampleE, raced>>
    BY <1>5 DEF RequestR, Reader
  <2>2. UpdatingR /\ UpdatingR' BY <2>1 DEF UpdatingR, Stages
  <2>3. ASSUME ~ raced PROVE emulation \notin Stages
    BY <2>2, <2>3 DEF AnnounceInv, UpdatingE, Stages
  <2>4. ASSUME ~ raced, sampleR # {} PROVE asked'
    BY <2>1, <2>4 DEF AnnounceInv, AtWork, Update, irq
  <2> QED BY <1>1, <2>1, <2>2, <2>3, <2>4 DEF AnnounceInv, AtWork, Stages
<1>6. CASE FlagR
  <2>1. /\ threadR = "flag" /\ threadR' = "test" /\ irqflag' = (sampleR # {})
        /\ UNCHANGED <<isr, imr, recent, asked, sampleE, raced>>
    BY <1>6 DEF FlagR, Reader, Flag
  <2>2. UpdatingR /\ ~ UpdatingR' BY <2>1 DEF UpdatingR, Stages
  <2>3. ASSUME ~ raced PROVE emulation \notin Stages
    BY <2>2, <2>3 DEF AnnounceInv, UpdatingE, Stages
  <2> QED BY <1>1, <2>1, <2>2, <2>3 DEF AnnounceInv, AtWork, Stages
<1> QED BY <1>2, <1>3, <1>4, <1>5, <1>6

\* The same for the driver
LEMMA UpdateAnnounces ==
    ASSUME AnnounceInv, Started \/ SetE \/ SampleE \/ RequestE \/ FlagE
    PROVE  AnnounceInv'
<1>1. threadR' = threadR /\ UpdatingR' = UpdatingR
  BY DEF Started, SetE, SampleE, RequestE, FlagE, Driver, threads, UpdatingR
<1>2. CASE SetE
  <2>1. /\ emulation = "set" /\ emulation' = "sample"
        /\ UNCHANGED <<imr, irqflag, recent, asked, sampleR, raced>>
    BY <1>2 DEF SetE, Driver, irq
  <2>2. UpdatingE /\ UpdatingE' BY <2>1 DEF UpdatingE, Stages
  <2>3. ASSUME ~ raced PROVE threadR \notin Stages
    BY <2>2, <2>3 DEF AnnounceInv, UpdatingR, Stages
  <2> QED BY <1>1, <2>1, <2>2, <2>3 DEF AnnounceInv, AtWork, Stages
<1>3. CASE SampleE
  <2>1. /\ emulation = "sample" /\ emulation' = "request" /\ sampleE' = isr \cap imr
        /\ UNCHANGED <<isr, imr, irqflag, recent, asked, sampleR>>
        /\ raced' = (UpdatingR \/ (raced /\ recent /\ isr \cap imr # {}))
    BY <1>3 DEF SampleE, Driver, irq, Settled
  <2>2. UpdatingE /\ UpdatingE' BY <2>1 DEF UpdatingE, Stages
  <2>3. ASSUME ~ raced' PROVE ~ UpdatingR /\ (~ raced \/ ~ recent \/ isr \cap imr = {})
    BY <2>1, <2>3
  <2>4. ASSUME ~ raced' PROVE threadR \notin Stages BY <2>3, <2>4 DEF UpdatingR, Stages
  <2> QED BY <1>1, <2>1, <2>2, <2>3, <2>4 DEF AnnounceInv, AtWork, Stages
<1>4. CASE RequestE
  <2>1. /\ emulation = "request" /\ emulation' = "flag" /\ Update(sampleE)
        /\ UNCHANGED <<isr, imr, sampleR, sampleE, raced>>
    BY <1>4 DEF RequestE, Driver
  <2>2. UpdatingE /\ UpdatingE' BY <2>1 DEF UpdatingE, Stages
  <2>3. ASSUME ~ raced PROVE threadR \notin Stages
    BY <2>2, <2>3 DEF AnnounceInv, UpdatingR, Stages
  <2>4. ASSUME ~ raced, sampleE # {} PROVE asked'
    BY <2>1, <2>4 DEF AnnounceInv, AtWork, Update, irq
  <2> QED BY <1>1, <2>1, <2>2, <2>3, <2>4 DEF AnnounceInv, AtWork, Stages
<1>5. CASE FlagE
  <2>1. /\ emulation = "flag" /\ emulation' = "idle" /\ irqflag' = (sampleE # {})
        /\ UNCHANGED <<isr, imr, recent, asked, sampleR, raced>>
    BY <1>5 DEF FlagE, Driver, Flag
  <2>2. UpdatingE /\ ~ UpdatingE' BY <2>1 DEF UpdatingE, Stages
  <2>3. ASSUME ~ raced PROVE threadR \notin Stages
    BY <2>2, <2>3 DEF AnnounceInv, UpdatingR, Stages
  <2> QED BY <1>1, <2>1, <2>2, <2>3 DEF AnnounceInv, AtWork, Stages
<1>6. CASE Started
  <2>1. /\ emulation = "start" /\ emulation' = "idle" /\ isr' = sampleE
        /\ UNCHANGED <<imr, irqflag, recent, asked, sampleR, raced>>
    BY <1>6 DEF Started, Driver, irq
  <2>2. UpdatingE /\ ~ UpdatingE' BY <2>1 DEF UpdatingE, Stages
  <2>3. ASSUME ~ raced PROVE threadR \notin Stages
    BY <2>2, <2>3 DEF AnnounceInv, UpdatingR, Stages
  <2>4. ASSUME ~ raced PROVE sampleE = isr BY <2>1, <2>4 DEF AnnounceInv, AtWork
  <2> QED BY <1>1, <2>1, <2>2, <2>3, <2>4 DEF AnnounceInv, AtWork, Stages
<1> QED BY <1>2, <1>3, <1>4, <1>5, <1>6

\* The driver begins an update: it is a race if the read thread is at one.
LEMMA GuestAnnounces ==
    ASSUME AnnounceInv, Guest
    PROVE  AnnounceInv'
<1>1. threadR' = threadR /\ UpdatingR' = UpdatingR
  BY DEF Guest, SetUpBegin, SetUpEnd, Take, Acknowledge, Mask, Driver, threads, UpdatingR
<1>2. CASE SetUpBegin
  <2>1. UNCHANGED <<emulation, isr, imr, irqflag, recent, asked, raced, sampleR, sampleE>>
    BY <1>2 DEF SetUpBegin, Driver, irq
  <2>2. UpdatingE' = UpdatingE BY <2>1 DEF UpdatingE, Stages
  <2> QED BY <1>1, <2>1, <2>2 DEF AnnounceInv, AtWork
<1>3. CASE ~ SetUpBegin
  <2>1. /\ emulation = "idle" /\ emulation' \in {"start", "set", "sample"}
        /\ emulation' = "start" => sampleE' = isr /\ imr' = imr
        /\ UNCHANGED <<isr, irqflag, recent, asked, sampleR>>
        /\ raced' = (raced \/ UpdatingR)
    BY <1>3 DEF Guest, SetUpEnd, Take, Acknowledge, Mask, Driver, irq
  <2>2. ~ UpdatingE /\ UpdatingE' BY <2>1 DEF UpdatingE, Stages
  <2>3. ASSUME ~ raced' PROVE ~ raced /\ ~ UpdatingR BY <2>1, <2>3
  <2>4. ASSUME ~ raced' PROVE threadR \notin Stages BY <2>3, <2>4 DEF UpdatingR, Stages
  <2> QED BY <1>1, <2>1, <2>2, <2>3, <2>4 DEF AnnounceInv, AtWork, Stages
<1> QED BY <1>2, <1>3

LEMMA ClearAnnounces ==
    ASSUME AnnounceInv, CardCleared
    PROVE  AnnounceInv'
<1>1. /\ emulation' = "idle" /\ threadR' = threadR /\ isr' = {} /\ ~ recent'
      /\ raced' = UpdatingR
  BY DEF CardCleared, Driver, threads
<1>2. ~ UpdatingE' /\ UpdatingR' = UpdatingR BY <1>1 DEF UpdatingE, UpdatingR, Stages
<1>3. ASSUME ~ raced' PROVE threadR' \notin Stages BY <1>1, <1>3 DEF UpdatingR, Stages
<1> QED BY <1>1, <1>2, <1>3 DEF AnnounceInv, AtWork, Stages

LEMMA ElapseAnnounces ==
    ASSUME AnnounceInv, Elapse
    PROVE  AnnounceInv'
<1>1. /\ UNCHANGED <<threadR, emulation, isr, imr, irqflag, asked, raced, sampleR, sampleE>>
      /\ ~ recent'
  BY DEF Elapse, netvars, threads
<1>2. UpdatingE' = UpdatingE /\ UpdatingR' = UpdatingR BY <1>1 DEF UpdatingE, UpdatingR, Stages
<1> QED BY <1>1, <1>2 DEF AnnounceInv, AtWork

LEMMA NextAnnounces == ASSUME ReaderInv, AnnounceInv, [CardNext]_vars PROVE AnnounceInv'
<1>1. CASE UNCHANGED vars
  <2>1. /\ UNCHANGED <<threadR, emulation, isr, imr, irqflag, recent>>
        /\ UNCHANGED <<asked, raced, sampleR, sampleE>>
    BY <1>1 DEF vars, netvars, threads, cardvars, irq
  <2>2. UpdatingE' = UpdatingE /\ UpdatingR' = UpdatingR BY <2>1 DEF UpdatingE, UpdatingR, Stages
  <2> QED BY <2>1, <2>2 DEF AnnounceInv, AtWork
<1>2. CASE (NetNext \/ ReadFile) /\ UNCHANGED cardvars BY <1>2, NetAnnounces
<1>3. CASE Receive BY <1>3, CopyAnnounces, ReceiveAnnounces DEF Receive
<1>4. CASE Guest BY <1>4, GuestAnnounces
<1>5. CASE GuestContinues BY <1>5, UpdateAnnounces, ClearAnnounces DEF GuestContinues
<1>6. CASE Elapse \/ KillReader BY <1>6, ElapseAnnounces, CopyAnnounces
<1> QED BY <1>1, <1>2, <1>3, <1>4, <1>5, <1>6 DEF CardNext

LEMMA InitAnnounces == Init => AnnounceInv
  BY DEF Init, NetInit, AnnounceInv, AtWork, UpdatingR, UpdatingE, Stages

\* A bit of the ISR that is set and not masked has led to a request to the
\* interrupt controller, after any sequence of frames, acknowledgements,
\* masks and resets, with either thread at any other point of its work:
\* unless both were at the interrupt at the same time.
THEOREM AlwaysAnnounced == CardSpec => []PendingIsAnnounced
<1>1. Init => ReaderInv /\ AnnounceInv BY InitReader, InitAnnounces
<1>2. ReaderInv /\ AnnounceInv /\ [CardNext]_vars => (ReaderInv /\ AnnounceInv)'
  BY NextReader, NextAnnounces
<1>3. AnnounceInv => PendingIsAnnounced BY DEF AnnounceInv, PendingIsAnnounced
<1> QED BY <1>1, <1>2, <1>3, PTL DEF CardSpec

-----------------------------------------------------------------------------
(***************************************************************************)
(* Pages of the ring                                                       *)
(***************************************************************************)

Size == STOP - START

\* n pages on from p, and how far it is from h to p
Step(p, n) == IF p + n >= STOP THEN p + n - Size ELSE p + n
Dist(h, p) == IF p >= h THEN p - h ELSE p - h + Size

LEMMA Sizes ==
    /\ START \in Nat /\ STOP \in Nat /\ FRAME \in Nat \ {0} /\ Size \in Nat
    /\ FRAME < Size /\ 2 =< Size /\ STOP = START + Size
    /\ \A f \in Frame : f.pages \in 1 .. Size
  BY CardAssumption DEF Size, Frame

LEMMA DistRange ==
    ASSUME NEW h \in Page, NEW p \in Page
    PROVE  Dist(h, p) \in 0 .. Size - 1 /\ Dist(h, h) = 0
  BY Sizes DEF Page, Dist

LEMMA StepInPage ==
    ASSUME NEW p \in Page, NEW n \in 0 .. Size
    PROVE  Step(p, n) \in Page /\ Step(p, 0) = p
  BY Sizes DEF Page, Step

LEMMA DistStep ==
    ASSUME NEW h \in Page, NEW p \in Page, NEW n \in 0 .. Size, Dist(h, p) + n < Size
    PROVE  Dist(h, Step(p, n)) = Dist(h, p) + n
  BY Sizes DEF Page, Step, Dist

LEMMA DistInjective ==
    ASSUME NEW h \in Page, NEW p \in Page, NEW q \in Page, Dist(h, p) = Dist(h, q)
    PROVE  p = q
  BY Sizes DEF Page, Dist

\* The head moves on.
LEMMA DistFrom ==
    ASSUME NEW h \in Page, NEW p \in Page, NEW n \in 0 .. Size - 1, n =< Dist(h, p)
    PROVE  Dist(Step(h, n), p) = Dist(h, p) - n
  BY Sizes DEF Page, Step, Dist

LEMMA StepStep ==
    ASSUME NEW p \in Page, NEW m \in 0 .. Size, NEW n \in 0 .. Size, m + n =< Size
    PROVE  Step(Step(p, m), n) = Step(p, m + n)
  BY Sizes DEF Page, Step

-----------------------------------------------------------------------------
(***************************************************************************)
(* Where the unread frames lie                                             *)
(***************************************************************************)

\* Frames that are unread leave a page free.
Fitting == {f \in Frame : f.pages < Size}
Unread == [frame : Fitting, at : Page]

\* u are the frames from page h to page c, one after the other.
Placed(u, c, h) ==
    /\ u \in Seq(Unread) /\ c \in Page /\ h \in Page
    /\ Dist(h, c) =< Size - 2
    /\ \A i \in 1 .. Len(u) : Dist(h, u[i].at) + u[i].frame.pages =< Dist(h, c)
    /\ \A i, j \in 1 .. Len(u) :
           i < j => Dist(h, u[i].at) + u[i].frame.pages =< Dist(h, u[j].at)
    /\ \A i \in 1 .. Len(u) :
           Step(u[i].at, u[i].frame.pages) = IF i = Len(u) THEN c ELSE u[i + 1].at
    /\ h = IF u = << >> THEN c ELSE u[1].at

LEMMA UnreadTypes ==
    ASSUME NEW u \in Seq(Unread), NEW i \in 1 .. Len(u)
    PROVE  /\ u[i].at \in Page /\ u[i].frame \in Frame
           /\ u[i].frame.pages \in 1 .. Size - 1
<1>1. u[i] \in Unread OBVIOUS
<1>2. u[i].at \in Page /\ u[i].frame \in Frame /\ u[i].frame.pages < Size
  BY <1>1 DEF Unread, Fitting
<1>3. PICK n \in 1 .. Size : n = u[i].frame.pages BY <1>2, Sizes
<1>4. n \in 1 .. Size - 1 BY <1>2, <1>3, Sizes
<1> QED BY <1>2, <1>3, <1>4

\* A page of an unread frame
LEMMA CellIs ==
    ASSUME NEW u, NEW c, NEW h, Placed(u, c, h), NEW i \in 1 .. Len(u),
           NEW k \in 1 .. u[i].frame.pages
    PROVE  /\ Step(u[i].at, k - 1) \in Page
           /\ Dist(h, Step(u[i].at, k - 1)) = Dist(h, u[i].at) + (k - 1)
           /\ Dist(h, Step(u[i].at, k - 1)) < Dist(h, u[i].at) + u[i].frame.pages
           /\ Dist(h, Step(u[i].at, k - 1)) < Dist(h, c)
<1>1. u \in Seq(Unread) /\ c \in Page /\ h \in Page BY DEF Placed
<1>2. PICK p \in Page, n \in 1 .. Size - 1 : p = u[i].at /\ n = u[i].frame.pages
  BY <1>1, UnreadTypes
<1>3. Dist(h, p) + n =< Dist(h, c) BY <1>2 DEF Placed
<1>4. Dist(h, p) \in 0 .. Size - 1 /\ Dist(h, c) \in 0 .. Size - 1 BY <1>1, DistRange
<1>5. k \in 1 .. n BY <1>2
<1>6. k - 1 \in 0 .. Size /\ Dist(h, p) + (k - 1) < Size /\ Size \in Nat BY <1>3, <1>4, <1>5, Sizes
<1>7. Step(p, k - 1) \in Page BY <1>6, StepInPage
<1>8. Dist(h, Step(p, k - 1)) = Dist(h, p) + (k - 1) BY <1>1, <1>6, DistStep
<1>9. Dist(h, p) + (k - 1) < Dist(h, p) + n /\ Dist(h, p) + (k - 1) < Dist(h, c)
  BY <1>3, <1>4, <1>5, Sizes
<1> QED BY <1>2, <1>7, <1>8, <1>9

\* There is nothing to read if and only if the next page is curpag.
LEMMA PlacedEmpty ==
    ASSUME NEW u, NEW c, NEW h, Placed(u, c, h)
    PROVE  u = << >> <=> h = c
<1>1. u \in Seq(Unread) /\ c \in Page /\ h \in Page BY DEF Placed
<1>2. ASSUME u # << >>, h = c PROVE FALSE
  <2>1. 1 \in 1 .. Len(u) BY <1>1, <1>2
  <2>2. u[1].at = h BY <1>2 DEF Placed
  <2>3. PICK n \in 1 .. Size - 1 : n = u[1].frame.pages BY <1>1, <2>1, UnreadTypes
  <2>4. Dist(h, u[1].at) + n =< Dist(h, c) BY <2>1, <2>3 DEF Placed
  <2>5. Dist(h, h) + n =< Dist(h, h) BY <1>2, <2>2, <2>4
  <2>6. Dist(h, h) = 0 BY <1>1, DistRange
  <2>7. 0 + n =< 0 BY <2>5, <2>6
  <2> QED BY <2>3, <2>7, Sizes
<1>3. u = << >> => h = c BY DEF Placed
<1> QED BY <1>2, <1>3

\* A frame is put behind the others.
LEMMA PlacedAppend ==
    ASSUME NEW u, NEW c, NEW h, Placed(u, c, h), NEW f \in Frame,
           Dist(h, c) + f.pages =< Size - 2
    PROVE  Placed(Append(u, [frame |-> f, at |-> c]), Step(c, f.pages), h)
<1> DEFINE e == [frame |-> f, at |-> c]
           v == Append(u, e)
           m == Len(u)
<1>1. u \in Seq(Unread) /\ c \in Page /\ h \in Page /\ m \in Nat BY DEF Placed
<1>2. PICK n \in 1 .. Size - 1 : n = f.pages
  <2>1. PICK n \in 1 .. Size : n = f.pages BY Sizes
  <2>2. Dist(h, c) \in 0 .. Size - 1 BY <1>1, DistRange
  <2>3. n \in 1 .. Size - 1 BY <2>1, <2>2, Sizes
  <2> QED BY <2>1, <2>3
<1>3. e \in Unread /\ e.frame = f /\ e.at = c
  <2>1. f \in Fitting BY <1>2, Sizes DEF Fitting
  <2> QED BY <1>1, <2>1 DEF Unread
<1> HIDE DEF e
<1>4. /\ v \in Seq(Unread) /\ Len(v) = m + 1 /\ v[m + 1] = e
      /\ \A i \in 1 .. m : v[i] = u[i]
  BY <1>1, <1>3, AppendProperties
<1>5. v # << >> BY <1>1, <1>4
<1> HIDE DEF v, m
<1>6. Dist(h, c) \in 0 .. Size - 1 BY <1>1, DistRange
<1>7. n \in 0 .. Size /\ Dist(h, c) + n < Size /\ Size \in Nat BY <1>2, <1>6, Sizes
<1>8. Step(c, n) \in Page /\ Dist(h, Step(c, n)) = Dist(h, c) + n
  BY <1>1, <1>7, DistStep, StepInPage
<1>9. ASSUME NEW i \in 1 .. m
      PROVE  /\ Dist(h, u[i].at) + u[i].frame.pages =< Dist(h, c)
             /\ Step(u[i].at, u[i].frame.pages) = IF i = m THEN c ELSE u[i + 1].at
  BY DEF Placed, m
<1>10. ASSUME NEW i \in 1 .. m
       PROVE  Dist(h, u[i].at) + u[i].frame.pages =< Dist(h, c) + n
  <2>1. PICK p \in Page, k \in 1 .. Size - 1 : p = u[i].at /\ k = u[i].frame.pages
    BY <1>1, UnreadTypes DEF m
  <2>2. Dist(h, p) \in 0 .. Size - 1 BY <1>1, DistRange
  <2>3. Dist(h, p) + k =< Dist(h, c) BY <1>9, <2>1
  <2>4. Dist(h, p) + k =< Dist(h, c) + n BY <1>2, <1>6, <2>2, <2>3, Sizes
  <2> QED BY <2>1, <2>4
<1>11. \A i \in 1 .. m + 1 : i \in 1 .. m \/ i = m + 1 BY <1>1 DEF m
<1>12. \A i \in 1 .. m : i # m + 1 /\ (i = m \/ i + 1 \in 1 .. m) BY <1>1 DEF m
<1>13. ASSUME NEW i \in 1 .. m + 1
       PROVE  Dist(h, v[i].at) + v[i].frame.pages =< Dist(h, Step(c, n))
  <2>1. CASE i \in 1 .. m BY <1>4, <1>8, <1>10, <2>1
  <2>2. CASE i = m + 1
    <3>1. Dist(h, v[i].at) + v[i].frame.pages = Dist(h, c) + n BY <1>2, <1>3, <1>4, <2>2
    <3> QED BY <1>6, <1>7, <1>8, <3>1
  <2> QED BY <1>11, <2>1, <2>2
<1>14. ASSUME NEW i \in 1 .. m + 1, NEW j \in 1 .. m + 1, i < j
       PROVE  Dist(h, v[i].at) + v[i].frame.pages =< Dist(h, v[j].at)
  <2>1. i \in 1 .. m BY <1>1, <1>14 DEF m
  <2>2. CASE j \in 1 .. m BY <1>4, <1>14, <2>1, <2>2 DEF Placed, m
  <2>3. CASE j = m + 1 BY <1>3, <1>4, <1>9, <2>1, <2>3
  <2> QED BY <1>11, <2>2, <2>3
<1>15. ASSUME NEW i \in 1 .. m + 1
       PROVE  Step(v[i].at, v[i].frame.pages) = IF i = m + 1 THEN Step(c, n) ELSE v[i + 1].at
  <2>1. CASE i = m + 1 BY <1>2, <1>3, <1>4, <2>1
  <2>2. CASE i \in 1 .. m
    <3>1. CASE i = m BY <1>3, <1>4, <1>9, <1>12, <2>2, <3>1
    <3>2. CASE i # m
      <4>1. i + 1 \in 1 .. m /\ i # m + 1 BY <1>12, <2>2, <3>2
      <4> QED BY <1>4, <1>9, <2>2, <3>2, <4>1
    <3> QED BY <3>1, <3>2
  <2> QED BY <1>11, <2>1, <2>2
<1>16. h = v[1].at
  <2>1. CASE u = << >>
    <3>1. m = 0 /\ h = c BY <2>1 DEF Placed, m
    <3> QED BY <1>3, <1>4, <3>1
  <2>2. CASE u # << >>
    <3>1. 1 \in 1 .. m /\ h = u[1].at BY <1>1, <2>2 DEF Placed, m
    <3> QED BY <1>4, <3>1
  <2> QED BY <2>1, <2>2
<1>17. Dist(h, Step(c, n)) =< Size - 2 BY <1>2, <1>8
<1>18. Placed(v, Step(c, n), h)
  BY <1>1, <1>4, <1>5, <1>8, <1>13, <1>14, <1>15, <1>16, <1>17 DEF Placed
<1> QED BY <1>2, <1>18 DEF v, e

LEMMA TailIs ==
    ASSUME NEW u \in Seq(Unread), u # << >>
    PROVE  /\ Tail(u) \in Seq(Unread) /\ Len(u) \in Nat \ {0} /\ Len(Tail(u)) = Len(u) - 1
           /\ \A i \in 1 .. Len(u) - 1 : Tail(u)[i] = u[i + 1]
           /\ Head(u) = u[1]
  BY HeadTailProperties

\* The first frame is taken away.
LEMMA PlacedTail ==
    ASSUME NEW u, NEW c, NEW h, Placed(u, c, h), u # << >>
    PROVE  LET n == u[1].frame.pages IN
           /\ n \in 1 .. Size - 1 /\ n =< Dist(h, c)
           /\ Placed(Tail(u), c, Step(h, n))
           /\ Dist(Step(h, n), c) = Dist(h, c) - n
           /\ \A i \in 2 .. Len(u) : n =< Dist(h, u[i].at)
<1> DEFINE t == Tail(u)
           m == Len(u)
<1>1. u \in Seq(Unread) /\ c \in Page /\ h \in Page BY DEF Placed
<1>2. /\ t \in Seq(Unread) /\ m \in Nat \ {0} /\ Len(t) = m - 1
      /\ \A i \in 1 .. m - 1 : t[i] = u[i + 1]
  BY <1>1, TailIs
<1>3. 1 \in 1 .. m BY <1>2
<1>4. PICK n \in 1 .. Size - 1 : n = u[1].frame.pages BY <1>1, <1>3, UnreadTypes
<1>5. u[1].at = h BY DEF Placed
<1>6. Dist(h, h) = 0 /\ Dist(h, c) \in 0 .. Size - 1 /\ Size \in Nat BY <1>1, DistRange, Sizes
<1>7. n =< Dist(h, c)
  <2>1. Dist(h, h) + n =< Dist(h, c) BY <1>3, <1>4, <1>5 DEF Placed
  <2> QED BY <1>4, <1>6, <2>1
<1>8. Dist(Step(h, n), c) = Dist(h, c) - n /\ Step(h, n) \in Page
  <2>1. n \in 0 .. Size - 1 /\ n \in 0 .. Size BY <1>4, <1>6
  <2>2. Dist(Step(h, n), c) = Dist(h, c) - n BY <1>1, <1>7, <2>1, DistFrom
  <2>3. Step(h, n) \in Page BY <1>1, <2>1, StepInPage
  <2> QED BY <2>2, <2>3
<1>9. ASSUME NEW i \in 2 .. m
      PROVE  /\ n =< Dist(h, u[i].at)
             /\ Dist(Step(h, n), u[i].at) = Dist(h, u[i].at) - n
             /\ u[i].at \in Page
  <2>1. i \in 1 .. m /\ 1 < i BY <1>2
  <2>2. PICK p \in Page : p = u[i].at BY <1>1, <2>1, UnreadTypes
  <2>3. Dist(h, h) + n =< Dist(h, p) BY <1>3, <1>4, <1>5, <2>1, <2>2 DEF Placed
  <2>4. n =< Dist(h, p) BY <1>4, <1>6, <2>3
  <2> QED BY <1>1, <1>4, <2>2, <2>4, DistFrom
<1> HIDE DEF t, m
<1>10. \A i \in 1 .. m - 1 : i + 1 \in 2 .. m /\ i + 1 \in 1 .. m BY <1>2
<1>11. ASSUME NEW i \in 1 .. m - 1
       PROVE  Dist(Step(h, n), t[i].at) + t[i].frame.pages =< Dist(Step(h, n), c)
  <2>1. i + 1 \in 2 .. m /\ i + 1 \in 1 .. m /\ t[i] = u[i + 1] BY <1>2, <1>10
  <2>2. PICK p \in Page, k \in 1 .. Size - 1 : p = t[i].at /\ k = t[i].frame.pages
    BY <1>1, <2>1, UnreadTypes DEF m
  <2>3. Dist(h, p) + k =< Dist(h, c) BY <2>1, <2>2 DEF Placed, m
  <2>4. Dist(Step(h, n), p) = Dist(h, p) - n BY <1>9, <2>1, <2>2
  <2>5. Dist(h, p) \in 0 .. Size - 1 BY <1>1, DistRange
  <2>6. Dist(h, p) - n + k =< Dist(h, c) - n BY <1>4, <1>6, <2>3, <2>5
  <2> QED BY <1>8, <2>2, <2>4, <2>6
<1>12. ASSUME NEW i \in 1 .. m - 1, NEW j \in 1 .. m - 1, i < j
       PROVE  Dist(Step(h, n), t[i].at) + t[i].frame.pages =< Dist(Step(h, n), t[j].at)
  <2>1. i + 1 \in 2 .. m /\ i + 1 \in 1 .. m /\ t[i] = u[i + 1] BY <1>2, <1>10
  <2>2. j + 1 \in 2 .. m /\ j + 1 \in 1 .. m /\ t[j] = u[j + 1] BY <1>2, <1>10
  <2>3. i + 1 < j + 1 BY <1>12
  <2>4. PICK p \in Page, k \in 1 .. Size - 1 : p = t[i].at /\ k = t[i].frame.pages
    BY <1>1, <2>1, UnreadTypes DEF m
  <2>5. PICK q \in Page : q = t[j].at BY <1>1, <2>2, UnreadTypes DEF m
  <2>6. Dist(h, p) + k =< Dist(h, q) BY <2>1, <2>2, <2>3, <2>4, <2>5 DEF Placed, m
  <2>7. Dist(Step(h, n), p) = Dist(h, p) - n /\ Dist(Step(h, n), q) = Dist(h, q) - n
    BY <1>9, <2>1, <2>2, <2>4, <2>5
  <2>8. Dist(h, p) \in 0 .. Size - 1 /\ Dist(h, q) \in 0 .. Size - 1 BY <1>1, DistRange
  <2>9. Dist(h, p) - n + k =< Dist(h, q) - n BY <1>4, <1>6, <2>6, <2>8
  <2> QED BY <2>4, <2>5, <2>7, <2>9
<1>13. ASSUME NEW i \in 1 .. m - 1
       PROVE  Step(t[i].at, t[i].frame.pages) = IF i = m - 1 THEN c ELSE t[i + 1].at
  <2>1. i + 1 \in 1 .. m /\ t[i] = u[i + 1] BY <1>2, <1>10
  <2>2. Step(u[i + 1].at, u[i + 1].frame.pages) = IF i + 1 = m THEN c ELSE u[i + 1 + 1].at
    BY <2>1 DEF Placed, m
  <2>3. CASE i = m - 1
    <3>1. i + 1 = m BY <1>2, <2>3
    <3> QED BY <2>1, <2>2, <2>3, <3>1
  <2>4. CASE i # m - 1
    <3>1. i + 1 # m /\ i + 1 \in 1 .. m - 1 BY <1>2, <2>4
    <3>2. t[i + 1] = u[i + 1 + 1] BY <1>2, <3>1
    <3> QED BY <2>1, <2>2, <2>4, <3>1, <3>2
  <2> QED BY <2>3, <2>4
<1>14. Step(h, n) = IF t = << >> THEN c ELSE t[1].at
  <2>1. Step(h, n) = IF 1 = m THEN c ELSE u[1 + 1].at BY <1>3, <1>4, <1>5 DEF Placed, m
  <2>2. CASE m = 1
    <3>1. t = << >> BY <1>2, <2>2
    <3> QED BY <2>1, <2>2, <3>1
  <2>3. CASE m # 1
    <3>1. 1 \in 1 .. m - 1 /\ Len(t) # 0 BY <1>2, <2>3
    <3>2. t[1] = u[1 + 1] /\ t # << >> BY <1>2, <3>1
    <3> QED BY <2>1, <2>3, <3>2
  <2> QED BY <2>2, <2>3
<1>15. Dist(Step(h, n), c) =< Size - 2
  <2>1. Dist(h, c) =< Size - 2 BY DEF Placed
  <2> QED BY <1>4, <1>6, <1>8, <2>1
<1>16. Placed(t, c, Step(h, n))
  BY <1>1, <1>2, <1>8, <1>11, <1>12, <1>13, <1>14, <1>15 DEF Placed
<1> QED BY <1>4, <1>7, <1>8, <1>9, <1>16 DEF t, m

-----------------------------------------------------------------------------
(***************************************************************************)
(* The card's memory                                                       *)
(***************************************************************************)

\* A frame in the memory, from page p on
Whole(h, d, p, f) ==
    /\ h[p] = Step(p, f.pages)
    /\ \A k \in 1 .. f.pages : d[Step(p, k - 1)] = [frame |-> f, part |-> k]

MemoryInv == header = [p \in Page |-> header[p]] /\ data = [p \in Page |-> data[p]]

\* What the read thread has put into the ring so far
CopyInv ==
    Putting =>
        /\ frame \in Frame /\ part \in 1 .. frame.pages + 1
        /\ next = Step(curpag, frame.pages) /\ page = Step(curpag, part - 1)
        /\ Dist(Head1, curpag) + frame.pages =< Size - 1
        /\ header[curpag] = next
        /\ \A k \in 1 .. part - 1 : data[Step(curpag, k - 1)] = [frame |-> frame, part |-> k]

SoundInv ==
    /\ start = START /\ stop = STOP /\ boundary \in Page /\ curpag \in Page
    /\ Placed(unread, curpag, Head1)
    /\ \A i \in 1 .. Len(unread) : Whole(header, data, unread[i].at, unread[i].frame)
    /\ CopyInv

RingInv == sound => SoundInv

\* The page after boundary, and the other way round
LEMMA HeadIs ==
    ASSUME start = START, stop = STOP, boundary \in Page
    PROVE  Head1 = Step(boundary, 1) /\ Head1 \in Page /\ Dist(Head1, boundary) = Size - 1
<1>1. Head1 = Step(boundary, 1) BY Sizes DEF Head1, Step, Page
<1>2. Head1 \in Page BY <1>1, Sizes DEF Page, Step
<1>3. Dist(Step(boundary, 1), boundary) = Size - 1 BY Sizes DEF Page, Step, Dist
<1> QED BY <1>1, <1>2, <1>3

LEMMA HeadNext ==
    ASSUME start' = START, stop' = STOP, NEW g \in Page,
           boundary' = IF g = START THEN STOP - 1 ELSE g - 1
    PROVE  Head1' = g /\ boundary' \in Page
<1>1. boundary' \in Page BY Sizes DEF Page
<1>2. PICK b \in Page : b = boundary' BY <1>1
<1>3. b = IF g = START THEN STOP - 1 ELSE g - 1 BY <1>2
<1>4. (IF b + 1 = STOP THEN START ELSE b + 1) = g BY <1>3, Sizes DEF Page
<1>5. Head1' = IF b + 1 = STOP THEN START ELSE b + 1 BY <1>2 DEF Head1
<1> QED BY <1>1, <1>4, <1>5

LEMMA AfterIs ==
    ASSUME start = START, stop = STOP
    PROVE  \A p \in Page, n \in 0 .. Size : After(p, n) = Step(p, n)
  BY Sizes DEF After, Step, Size

\* The room that ne2000_buffer_full finds ends before the page at boundary.
LEMMA RoomIs ==
    ASSUME start = START, stop = STOP, boundary \in Page, curpag \in Page,
           Dist(Head1, curpag) =< Size - 2
    PROVE  Avail = Size - 1 - Dist(Head1, curpag)
<1>1. PICK b \in Page, c \in Page : b = boundary /\ c = curpag OBVIOUS
<1>2. Head1 = Step(b, 1) BY <1>1, HeadIs
<1>3. Avail = IF c < b THEN b - c ELSE Size - (c - b) BY <1>1 DEF Avail, Size
<1>4. Dist(Step(b, 1), c) =< Size - 2 BY <1>1, <1>2
<1>5. (IF c < b THEN b - c ELSE Size - (c - b)) = Size - 1 - Dist(Step(b, 1), c)
  BY <1>4, Sizes DEF Page, Step, Dist
<1> QED BY <1>1, <1>2, <1>3, <1>5

LEMMA BlankMemory ==
    ASSUME NEW pages, Blank(pages)
    PROVE  /\ MemoryInv'
           /\ \A p \in Page : p \notin pages => header'[p] = header[p] /\ data'[p] = data[p]
<1>1. /\ header' = [p \in Page |-> IF p \in pages THEN 0 ELSE header[p]]
      /\ data' = [p \in Page |-> IF p \in pages THEN NoFrame ELSE data[p]]
  BY DEF Blank
<1>2. header' = [p \in Page |-> header'[p]] BY <1>1
<1>3. data' = [p \in Page |-> data'[p]] BY <1>1
<1>4. \A p \in Page : p \notin pages => header'[p] = header[p] /\ data'[p] = data[p] BY <1>1
<1> QED BY <1>2, <1>3, <1>4 DEF MemoryInv

ringvars == <<start, stop, boundary, curpag, header, data, unread, sound>>

\* Most steps leave the ring alone.
LEMMA RingSame ==
    ASSUME RingInv, MemoryInv, UNCHANGED ringvars, UNCHANGED receiving
    PROVE  RingInv' /\ MemoryInv'
<1>1. UNCHANGED <<start, stop, boundary, curpag, header, data, unread, sound>>
  BY DEF ringvars
<1>2. UNCHANGED <<frame, part, page, next>> BY DEF receiving
<1>3. MemoryInv' BY <1>1 DEF MemoryInv
<1>4. Head1' = Head1 BY <1>1 DEF Head1
<1>5. Putting' <=> Putting BY <1>2 DEF Putting
<1>6. CopyInv => CopyInv' BY <1>1, <1>2, <1>4, <1>5 DEF CopyInv
<1>7. SoundInv => SoundInv' BY <1>1, <1>4, <1>6 DEF SoundInv
<1> QED BY <1>1, <1>3, <1>7 DEF RingInv

LEMMA QuietSteps ==
    ASSUME \/ (NetNext \/ ReadFile) /\ UNCHANGED cardvars
           \/ Dropped \/ LoadRX \/ SetRX \/ SampleR \/ RequestR \/ FlagR
           \/ SetUpBegin \/ (\E bits \in SUBSET Bits : Acknowledge(bits) \/ Mask(bits))
           \/ Started \/ SetE \/ SampleE \/ RequestE \/ FlagE \/ Elapse \/ UNCHANGED vars
    PROVE  UNCHANGED ringvars /\ UNCHANGED receiving
<1>1. CASE UNCHANGED cardvars BY <1>1 DEF cardvars, regs, memory, ringvars
<1>2. CASE UNCHANGED vars BY <1>2 DEF vars, cardvars, regs, memory, ringvars
<1>3. CASE Dropped BY <1>3 DEF Dropped, cardvars, regs, memory, ringvars
<1>4. CASE LoadRX \/ SetRX \/ SampleR \/ RequestR \/ FlagR
  BY <1>4 DEF LoadRX, SetRX, SampleR, RequestR, FlagR, regs, memory, ringvars, receiving
<1>5. CASE SetUpBegin BY <1>5 DEF SetUpBegin, memory, ringvars
<1>6. CASE \E bits \in SUBSET Bits : Acknowledge(bits) \/ Mask(bits)
  BY <1>6 DEF Acknowledge, Mask, regs, memory, ringvars
<1>7. CASE Started \/ SetE \/ SampleE \/ RequestE \/ FlagE
  BY <1>7 DEF Started, SetE, SampleE, RequestE, FlagE, regs, memory, ringvars
<1>8. CASE Elapse BY <1>8 DEF Elapse, regs, memory, ringvars
<1> QED BY <1>1, <1>2, <1>3, <1>4, <1>5, <1>6, <1>7, <1>8

\* A thread that is killed leaves its frame where it is.
LEMMA KillRing ==
    ASSUME RingInv, MemoryInv, KillReader
    PROVE  RingInv' /\ MemoryInv'
<1>1. /\ UNCHANGED <<start, stop, boundary, curpag, header, data, unread, sound>>
      /\ frame' = NoFrame
  BY DEF KillReader, regs, memory
<1>2. MemoryInv' BY <1>1 DEF MemoryInv
<1>3. Head1' = Head1 BY <1>1 DEF Head1
<1>4. CopyInv' BY <1>1 DEF CopyInv, Putting
<1>5. SoundInv => SoundInv' BY <1>1, <1>3, <1>4 DEF SoundInv
<1> QED BY <1>1, <1>2, <1>5 DEF RingInv

\* What a frame among the unread ones is made of lies before curpag.
LEMMA BeforeCurpag ==
    ASSUME NEW u, NEW c, NEW h, Placed(u, c, h), NEW i \in 1 .. Len(u)
    PROVE  /\ u[i].at \in Page /\ Dist(h, u[i].at) < Dist(h, c)
           /\ \A k \in 1 .. u[i].frame.pages :
                  Step(u[i].at, k - 1) \in Page /\ Dist(h, Step(u[i].at, k - 1)) < Dist(h, c)
<1>1. u \in Seq(Unread) /\ c \in Page /\ h \in Page BY DEF Placed
<1>2. PICK p \in Page, n \in 1 .. Size - 1 : p = u[i].at /\ n = u[i].frame.pages
  BY <1>1, UnreadTypes
<1>3. 1 \in 1 .. n /\ 1 - 1 = 0 BY Sizes
<1>4. Step(p, 0) = p BY StepInPage, Sizes
<1>5. Dist(h, p) < Dist(h, c) BY <1>2, <1>3, <1>4, CellIs
<1>6. \A k \in 1 .. u[i].frame.pages :
          Step(u[i].at, k - 1) \in Page /\ Dist(h, Step(u[i].at, k - 1)) < Dist(h, c)
  BY CellIs
<1> QED BY <1>2, <1>5, <1>6

LEMMA HeaderRing ==
    ASSUME RingInv, MemoryInv, NEW f \in Frame, PutHeader(f)
    PROVE  RingInv' /\ MemoryInv'
<1>1. /\ UNCHANGED <<start, stop, boundary, curpag>>
      /\ frame' = f /\ part' = 1 /\ page' = curpag /\ next' = After(curpag, f.pages)
      /\ sound' = (sound /\ (f.pages =< FRAME \/ f.pages =< Avail)) /\ ~ BufferFull
      /\ unread' = IF sound' THEN unread ELSE << >>
      /\ IF sound' THEN header' = [header EXCEPT ![curpag] = next'] /\ data' = data
                   ELSE Blank(Page)
  BY DEF PutHeader, regs
<1>2. MemoryInv'
  <2>1. CASE sound'
    <3>1. header' = [p \in Page |-> header'[p]] BY <1>1, <2>1 DEF MemoryInv
    <3> QED BY <1>1, <2>1, <3>1 DEF MemoryInv
  <2>2. CASE ~ sound' BY <1>1, <2>2, BlankMemory
  <2> QED BY <2>1, <2>2
<1>3. ASSUME sound' PROVE SoundInv'
  <2>1. /\ start = START /\ stop = STOP /\ boundary \in Page /\ curpag \in Page
        /\ Placed(unread, curpag, Head1)
        /\ \A i \in 1 .. Len(unread) : Whole(header, data, unread[i].at, unread[i].frame)
    BY <1>1, <1>3 DEF RingInv, SoundInv
  <2>2. PICK c \in Page, h \in Page, n \in 1 .. Size : c = curpag /\ h = Head1 /\ n = f.pages
    BY <2>1, HeadIs, Sizes
  <2>3. Placed(unread, c, h) BY <2>1, <2>2
  <2>4. Dist(h, c) \in 0 .. Size - 1 /\ Dist(h, c) =< Size - 2 BY <2>3, DistRange DEF Placed
  <2>5. Avail = Size - 1 - Dist(h, c) BY <2>1, <2>2, <2>4, RoomIs
  <2>6. Dist(h, c) + n =< Size - 1
    <3>1. n =< FRAME \/ n =< Size - 1 - Dist(h, c) BY <1>1, <1>3, <2>2, <2>5
    <3>2. ~ (Size - 1 - Dist(h, c) < FRAME) BY <1>1, <2>5 DEF BufferFull
    <3> QED BY <2>4, <3>1, <3>2, Sizes
  <2>7. n \in 0 .. Size BY Sizes
  <2>8. next' = Step(c, n) BY <1>1, <2>1, <2>2, <2>7, AfterIs
  <2>9. header' = [header EXCEPT ![c] = Step(c, n)] /\ UNCHANGED <<data, unread>>
    BY <1>1, <1>3, <2>2, <2>8
  <2>10. DOMAIN header = Page BY DEF MemoryInv
  <2>11. header'[c] = Step(c, n) /\ \A p \in Page : p # c => header'[p] = header[p]
    BY <2>9, <2>10
  <2>12. ASSUME NEW i \in 1 .. Len(unread)
         PROVE  Whole(header', data, unread[i].at, unread[i].frame)
    <3>1. unread[i].at \in Page /\ Dist(h, unread[i].at) < Dist(h, c)
      BY <2>3, BeforeCurpag
    <3>2. PICK p \in Page : p = unread[i].at BY <3>1
    <3>3. Dist(h, p) # Dist(h, c) BY <2>4, <3>1, <3>2, DistRange
    <3>4. p # c BY <3>3
    <3>5. Whole(header, data, p, unread[i].frame) BY <2>1, <3>2
    <3> QED BY <2>9, <2>11, <3>2, <3>4, <3>5 DEF Whole
  <2>13. Head1' = h BY <1>1, <2>2 DEF Head1
  <2>14. Placed(unread', curpag', Head1') BY <1>1, <2>2, <2>3, <2>9, <2>13
  <2>15. CopyInv'
    <3>1. f.pages = n /\ 1 - 1 = 0 /\ 1 \in 1 .. n + 1 /\ 1 .. 0 = {} BY <2>2
    <3>2. page' = Step(c, 1 - 1) BY <1>1, <2>2, <3>1, StepInPage, Sizes
    <3> QED BY <1>1, <2>2, <2>6, <2>8, <2>11, <2>13, <3>1, <3>2 DEF CopyInv
  <2>16. \A i \in 1 .. Len(unread') : Whole(header', data', unread'[i].at, unread'[i].frame)
    BY <1>1, <2>9, <2>12
  <2> QED BY <1>1, <2>1, <2>14, <2>15, <2>16 DEF SoundInv
<1> QED BY <1>1, <1>2, <1>3 DEF RingInv

\* The read thread writes behind the frames that are unread.
LEMMA PageRing ==
    ASSUME RingInv, MemoryInv, ReaderInv, PutPage
    PROVE  RingInv' /\ MemoryInv'
<1>1. /\ UNCHANGED <<start, stop, boundary, curpag, header, frame, next, unread, sound>>
      /\ threadR = "copy" /\ part <= frame.pages
      /\ data' = IF sound THEN [data EXCEPT ![page] = [frame |-> frame, part |-> part]] ELSE data
      /\ part' = part + 1 /\ page' = IF page + 1 = stop THEN start ELSE page + 1
  BY DEF PutPage, regs, Reader
<1>2. MemoryInv'
  <2>1. data' = [p \in Page |-> data'[p]] BY <1>1 DEF MemoryInv
  <2> QED BY <1>1, <2>1 DEF MemoryInv
<1>3. ASSUME sound PROVE SoundInv'
  <2>1. /\ start = START /\ stop = STOP /\ boundary \in Page /\ curpag \in Page
        /\ Placed(unread, curpag, Head1) /\ CopyInv
        /\ \A i \in 1 .. Len(unread) : Whole(header, data, unread[i].at, unread[i].frame)
    BY <1>3 DEF RingInv, SoundInv
  <2>2. Putting BY <1>1 DEF ReaderInv
  <2>3. /\ frame \in Frame /\ part \in 1 .. frame.pages + 1
        /\ next = Step(curpag, frame.pages) /\ page = Step(curpag, part - 1)
        /\ Dist(Head1, curpag) + frame.pages =< Size - 1
        /\ header[curpag] = next
        /\ \A k \in 1 .. part - 1 : data[Step(curpag, k - 1)] = [frame |-> frame, part |-> k]
    BY <2>1, <2>2 DEF CopyInv
  <2>4. PICK c \in Page, h \in Page, n \in 1 .. Size : c = curpag /\ h = Head1 /\ n = frame.pages
    BY <2>1, <2>3, HeadIs, Sizes
  <2>5. PICK m \in 1 .. n : m = part BY <1>1, <2>3, <2>4
  <2>6. Placed(unread, c, h) /\ Dist(h, c) \in 0 .. Size - 1 /\ Dist(h, c) + n =< Size - 1
    BY <2>1, <2>3, <2>4, DistRange
  <2>7. ASSUME NEW k \in 1 .. n
        PROVE  Step(c, k - 1) \in Page /\ Dist(h, Step(c, k - 1)) = Dist(h, c) + (k - 1)
    <3>1. k - 1 \in 0 .. Size /\ Dist(h, c) + (k - 1) < Size BY <2>6, Sizes
    <3> QED BY <3>1, DistStep, StepInPage
  <2>8. page = Step(c, m - 1) BY <2>3, <2>4, <2>5
  <2>9. DOMAIN data = Page BY DEF MemoryInv
  <2>10. /\ data'[Step(c, m - 1)] = [frame |-> frame, part |-> m]
         /\ \A p \in Page : p # Step(c, m - 1) => data'[p] = data[p]
    BY <1>1, <1>3, <2>5, <2>7, <2>8, <2>9
  <2>11. ASSUME NEW i \in 1 .. Len(unread)
         PROVE  Whole(header, data', unread[i].at, unread[i].frame)
    <3>1. Whole(header, data, unread[i].at, unread[i].frame) BY <2>1
    <3>2. ASSUME NEW k \in 1 .. unread[i].frame.pages
          PROVE  data'[Step(unread[i].at, k - 1)] = data[Step(unread[i].at, k - 1)]
      <4>1. PICK p \in Page : p = Step(unread[i].at, k - 1) /\ Dist(h, p) < Dist(h, c)
        BY <2>6, BeforeCurpag
      <4>2. Dist(h, p) # Dist(h, c) + (m - 1) BY <2>6, <4>1, DistRange
      <4>3. p # Step(c, m - 1) BY <2>7, <4>2
      <4> QED BY <2>10, <4>1, <4>3
    <3> QED BY <3>1, <3>2 DEF Whole
  <2>12. part' = m + 1 /\ m + 1 \in 1 .. n + 1 /\ (m + 1) - 1 = m BY <1>1, <2>5
  <2>13. page' = Step(c, m)
    <3>1. PICK q \in Page : q = page BY <2>7, <2>8
    <3>2. page' = IF q + 1 = STOP THEN START ELSE q + 1 BY <1>1, <2>1, <3>1
    <3>3. page' = Step(q, 1) BY <3>2, Sizes DEF Page, Step
    <3>4. Step(Step(c, m - 1), 1) = Step(c, (m - 1) + 1)
      <4>1. m - 1 \in 0 .. Size /\ 1 \in 0 .. Size /\ (m - 1) + 1 =< Size BY Sizes
      <4> QED BY <4>1, StepStep
    <3>5. (m - 1) + 1 = m OBVIOUS
    <3> QED BY <2>8, <3>1, <3>3, <3>4, <3>5
  <2>14. ASSUME NEW k \in 1 .. m
         PROVE  data'[Step(c, k - 1)] = [frame |-> frame, part |-> k]
    <3>1. CASE k = m BY <2>10, <3>1
    <3>2. CASE k # m
      <4>1. k \in 1 .. m - 1 /\ k \in 1 .. n /\ m \in 1 .. n BY <3>2
      <4>2. Dist(h, c) + (k - 1) # Dist(h, c) + (m - 1) BY <2>6, <3>2
      <4>3. Step(c, k - 1) # Step(c, m - 1) BY <2>7, <4>1, <4>2
      <4>4. data[Step(c, k - 1)] = [frame |-> frame, part |-> k] BY <2>3, <2>4, <2>5, <4>1
      <4> QED BY <2>7, <2>10, <4>1, <4>3, <4>4
    <3> QED BY <3>1, <3>2
  <2>15. Head1' = h BY <1>1, <2>4 DEF Head1
  <2>16. CopyInv'
    <3>1. page' = Step(c, (m + 1) - 1) BY <2>12, <2>13
    <3>2. \A k \in 1 .. (m + 1) - 1 : data'[Step(c, k - 1)] = [frame |-> frame, part |-> k]
      BY <2>12, <2>14
    <3> QED BY <1>1, <2>3, <2>4, <2>12, <2>15, <3>1, <3>2 DEF CopyInv
  <2>17. Placed(unread', curpag', Head1') BY <1>1, <2>4, <2>6, <2>15
  <2>18. \A i \in 1 .. Len(unread') : Whole(header', data', unread'[i].at, unread'[i].frame)
    BY <1>1, <2>11
  <2> QED BY <1>1, <2>1, <2>16, <2>17, <2>18 DEF SoundInv
<1> QED BY <1>1, <1>2, <1>3 DEF RingInv

\* The frame is complete when curpag moves.
LEMMA CurpagRing ==
    ASSUME RingInv, MemoryInv, ReaderInv, MoveCurpag
    PROVE  RingInv' /\ MemoryInv'
<1>1. /\ UNCHANGED <<start, stop, boundary>>
      /\ threadR = "copy" /\ part > frame.pages /\ curpag' = next
      /\ sound' = (sound /\ next # boundary) /\ frame' = NoFrame
      /\ unread' = IF sound' THEN Append(unread, [frame |-> frame, at |-> curpag]) ELSE << >>
      /\ IF sound' THEN UNCHANGED memory ELSE Blank(Page)
  BY DEF MoveCurpag, Reader
<1>2. CASE ~ sound'
  <2>1. Blank(Page) BY <1>1, <1>2
  <2> QED BY <1>2, <2>1, BlankMemory DEF RingInv
<1>3. CASE sound'
  <2>1. /\ start = START /\ stop = STOP /\ boundary \in Page /\ curpag \in Page
        /\ Placed(unread, curpag, Head1) /\ CopyInv
        /\ \A i \in 1 .. Len(unread) : Whole(header, data, unread[i].at, unread[i].frame)
    BY <1>1, <1>3 DEF RingInv, SoundInv
  <2>2. Putting BY <1>1 DEF ReaderInv
  <2>3. /\ frame \in Frame /\ part \in 1 .. frame.pages + 1
        /\ next = Step(curpag, frame.pages)
        /\ Dist(Head1, curpag) + frame.pages =< Size - 1
        /\ header[curpag] = next
        /\ \A k \in 1 .. part - 1 : data[Step(curpag, k - 1)] = [frame |-> frame, part |-> k]
    BY <2>1, <2>2 DEF CopyInv
  <2>4. PICK c \in Page, h \in Page, n \in 1 .. Size : c = curpag /\ h = Head1 /\ n = frame.pages
    BY <2>1, <2>3, HeadIs, Sizes
  <2>5. part - 1 = n BY <1>1, <2>3, <2>4
  <2>6. Placed(unread, c, h) /\ Dist(h, c) \in 0 .. Size - 1 /\ Dist(h, c) + n =< Size - 1
    BY <2>1, <2>3, <2>4, DistRange
  <2>7. Step(c, n) \in Page /\ Dist(h, Step(c, n)) = Dist(h, c) + n
    <3>1. n \in 0 .. Size /\ Dist(h, c) + n < Size BY <2>6, Sizes
    <3> QED BY <3>1, DistStep, StepInPage
  <2>8. Dist(h, c) + n =< Size - 2
    <3>1. Step(c, n) # boundary BY <1>1, <1>3, <2>3, <2>4
    <3>2. Dist(h, boundary) = Size - 1 BY <2>1, <2>4, HeadIs
    <3>3. Dist(h, c) + n # Size - 1 BY <2>1, <2>7, <3>1, <3>2, DistInjective
    <3> QED BY <2>6, <3>3, Sizes
  <2> DEFINE e == [frame |-> frame, at |-> c]
             m == Len(unread)
  <2>9. Placed(Append(unread, e), Step(c, n), h)
    BY <2>3, <2>4, <2>6, <2>8, PlacedAppend
  <2>10. e \in Unread /\ e.frame = frame /\ e.at = c
    <3>1. n < Size BY <2>6, Sizes
    <3>2. frame \in Fitting BY <2>3, <2>4, <3>1 DEF Fitting
    <3> QED BY <3>2 DEF Unread
  <2> HIDE DEF e
  <2>11. unread' = Append(unread, e) BY <1>1, <1>3, <2>4 DEF e
  <2>12. /\ m \in Nat /\ Len(unread') = m + 1 /\ unread'[m + 1] = e
         /\ \A i \in 1 .. m : unread'[i] = unread[i]
    <3>1. unread \in Seq(Unread) BY <2>6 DEF Placed
    <3> QED BY <2>10, <2>11, <3>1, AppendProperties
  <2> HIDE DEF m
  <2>13. UNCHANGED <<header, data>> BY <1>1, <1>3 DEF memory
  <2>14. Whole(header, data, c, frame) BY <2>3, <2>4, <2>5 DEF Whole
  <2>15. ASSUME NEW i \in 1 .. m + 1
         PROVE  Whole(header, data, unread'[i].at, unread'[i].frame)
    <3>1. i \in 1 .. m \/ i = m + 1 BY <2>12
    <3>2. CASE i \in 1 .. m BY <2>1, <2>12, <3>2 DEF m
    <3>3. CASE i = m + 1 BY <2>10, <2>12, <2>14, <3>3
    <3> QED BY <3>1, <3>2, <3>3
  <2>16. Head1' = h BY <1>1, <2>4 DEF Head1
  <2>17. curpag' = Step(c, n) BY <1>1, <2>3, <2>4
  <2>18. Placed(unread', curpag', Head1') BY <2>9, <2>11, <2>16, <2>17
  <2>19. CopyInv' BY <1>1 DEF CopyInv, Putting
  <2>20. \A i \in 1 .. Len(unread') : Whole(header', data', unread'[i].at, unread'[i].frame)
    BY <2>12, <2>13, <2>15
  <2>21. SoundInv' BY <1>1, <2>1, <2>7, <2>17, <2>18, <2>19, <2>20 DEF SoundInv
  <2>22. MemoryInv' BY <2>13 DEF MemoryInv
  <2> QED BY <2>21, <2>22 DEF RingInv
<1> QED BY <1>2, <1>3

\* A ring that is set up is empty.
LEMMA SetUpRing ==
    ASSUME RingInv, MemoryInv, SetUpEnd
    PROVE  RingInv' /\ MemoryInv'
<1>1. /\ start' = START /\ stop' = STOP /\ boundary' = START /\ curpag' = START + 1
      /\ unread' = << >> /\ sound' = ~ Putting /\ Blank(Page) /\ frame' = frame
  BY DEF SetUpEnd, receiving
<1>2. MemoryInv' BY <1>1, BlankMemory
<1>3. START \in Page /\ START + 1 \in Page BY Sizes DEF Page
<1>4. Head1' = START + 1 BY <1>1, Sizes DEF Head1
<1>5. Placed(<< >>, START + 1, START + 1)
  <2>1. Dist(START + 1, START + 1) =< Size - 2 BY <1>3, DistRange, Sizes
  <2>2. << >> \in Seq(Unread) /\ Len(<< >>) = 0 OBVIOUS
  <2>3. \A i \in 1 .. 0 : FALSE OBVIOUS
  <2> QED BY <1>3, <2>1, <2>2, <2>3 DEF Placed
<1>6. ASSUME sound' PROVE SoundInv'
  <2>1. ~ Putting' BY <1>1, <1>6 DEF Putting
  <2>2. CopyInv' BY <2>1 DEF CopyInv
  <2>3. Placed(unread', curpag', Head1') BY <1>1, <1>4, <1>5
  <2>4. \A i \in 1 .. Len(unread') : Whole(header', data', unread'[i].at, unread'[i].frame)
    <3>1. Len(unread') = 0 BY <1>1
    <3>2. \A i \in 1 .. 0 : FALSE OBVIOUS
    <3> QED BY <3>1, <3>2
  <2> QED BY <1>1, <1>3, <2>2, <2>3, <2>4 DEF SoundInv
<1> QED BY <1>2, <1>6 DEF RingInv

LEMMA ClearRing ==
    ASSUME CardCleared
    PROVE  RingInv' /\ MemoryInv'
<1>1. Blank(Page) /\ sound' = FALSE BY DEF CardCleared
<1> QED BY <1>1, BlankMemory DEF RingInv

\* The driver takes the first frame: what it leaves lies behind it.
LEMMA TakeRing ==
    ASSUME RingInv, MemoryInv, Take
    PROVE  RingInv' /\ MemoryInv'
<1>1. /\ UNCHANGED <<start, stop, curpag, sound, frame, part, page, next>>
      /\ sound /\ Head1 # curpag
      /\ boundary' = IF header[Head1] = start THEN stop - 1 ELSE header[Head1] - 1
      /\ unread' = Tail(unread)
      /\ Blank({After(Head1, k) : k \in 0 .. Head(unread).frame.pages - 1})
  BY DEF Take, receiving
<1>2. /\ start = START /\ stop = STOP /\ boundary \in Page /\ curpag \in Page
      /\ Placed(unread, curpag, Head1) /\ CopyInv
      /\ \A i \in 1 .. Len(unread) : Whole(header, data, unread[i].at, unread[i].frame)
  BY <1>1 DEF RingInv, SoundInv
<1>3. PICK c \in Page, h \in Page : c = curpag /\ h = Head1 BY <1>2, HeadIs
<1> DEFINE m == Len(unread)
<1>4. Placed(unread, c, h) /\ unread # << >> /\ unread \in Seq(Unread)
  BY <1>1, <1>2, <1>3, PlacedEmpty DEF Placed
<1>5. /\ m \in Nat \ {0} /\ Len(Tail(unread)) = m - 1 /\ Head(unread) = unread[1]
      /\ \A i \in 1 .. m - 1 : Tail(unread)[i] = unread[i + 1]
  BY <1>4, TailIs
<1>6. 1 \in 1 .. m BY <1>5
<1>7. PICK n \in 1 .. Size - 1 :
          /\ n = unread[1].frame.pages /\ n =< Dist(h, c)
          /\ Placed(Tail(unread), c, Step(h, n))
          /\ Dist(Step(h, n), c) = Dist(h, c) - n
          /\ \A i \in 2 .. m : n =< Dist(h, unread[i].at)
  BY <1>4, PlacedTail
<1>8. unread[1].at = h BY <1>4 DEF Placed
<1> HIDE DEF m
<1>9. n \in 0 .. Size /\ n \in 0 .. Size - 1 /\ Size \in Nat BY Sizes
<1>10. PICK g \in Page : g = Step(h, n) BY <1>9, StepInPage
<1>11. header[Head1] = g
  <2>1. Whole(header, data, unread[1].at, unread[1].frame) BY <1>2, <1>6 DEF m
  <2> QED BY <1>3, <1>7, <1>8, <1>10, <2>1 DEF Whole
<1>12. Head1' = g /\ boundary' \in Page
  <2>1. boundary' = IF g = START THEN STOP - 1 ELSE g - 1 BY <1>1, <1>2, <1>11
  <2>2. start' = START /\ stop' = STOP BY <1>1, <1>2
  <2> QED BY <2>1, <2>2, HeadNext
\* Only the pages of the frame taken are blanked.
<1>13. /\ MemoryInv'
       /\ \A p \in Page : n =< Dist(h, p) => header'[p] = header[p] /\ data'[p] = data[p]
  <2> DEFINE B == {After(Head1, k) : k \in 0 .. Head(unread).frame.pages - 1}
  <2>1. ASSUME NEW p \in Page, p \in B PROVE Dist(h, p) < n
    <3>1. PICK k \in 0 .. n - 1 : p = After(h, k) BY <1>3, <1>5, <1>7, <2>1
    <3>2. k \in 0 .. Size /\ k < n BY <1>9
    <3>3. p = Step(h, k) BY <1>2, <3>1, <3>2, AfterIs
    <3>4. Dist(h, h) = 0 BY DistRange
    <3>5. Dist(h, h) + k < Size BY <1>9, <3>2, <3>4
    <3>6. Dist(h, p) = Dist(h, h) + k BY <3>2, <3>3, <3>5, DistStep
    <3>7. Dist(h, p) = k BY <3>2, <3>4, <3>6
    <3> QED BY <3>2, <3>7
  <2>2. Blank(B) BY <1>1
  <2> HIDE DEF B
  <2>3. MemoryInv' /\ \A p \in Page : p \notin B => header'[p] = header[p] /\ data'[p] = data[p]
    BY <2>2, BlankMemory
  <2>4. ASSUME NEW p \in Page, n =< Dist(h, p) PROVE p \notin B
    <3>1. Dist(h, p) \in 0 .. Size - 1 BY DistRange
    <3>2. ~ (Dist(h, p) < n) BY <1>9, <2>4, <3>1
    <3> QED BY <2>1, <3>2
  <2> QED BY <2>3, <2>4
<1>14. ASSUME NEW i \in 1 .. m - 1
       PROVE  Whole(header', data', Tail(unread)[i].at, Tail(unread)[i].frame)
  <2>1. i + 1 \in 2 .. m /\ i + 1 \in 1 .. m /\ Tail(unread)[i] = unread[i + 1] BY <1>5
  <2>2. PICK j \in 1 .. m : j = i + 1 BY <2>1
  <2>3. Whole(header, data, unread[j].at, unread[j].frame) BY <1>2 DEF m
  <2>4. unread[j].at \in Page /\ n =< Dist(h, unread[j].at)
    BY <1>4, <1>7, <2>1, <2>2, UnreadTypes DEF m
  <2>5. header'[unread[j].at] = header[unread[j].at] BY <1>13, <2>4
  <2>6. ASSUME NEW k \in 1 .. unread[j].frame.pages
        PROVE  data'[Step(unread[j].at, k - 1)] = data[Step(unread[j].at, k - 1)]
    <3>1. PICK p \in Page : p = Step(unread[j].at, k - 1) /\ Dist(h, p) = Dist(h, unread[j].at) + (k - 1)
      BY <1>4, CellIs DEF m
    <3>2. PICK q \in Page, l \in 1 .. Size - 1 : q = unread[j].at /\ l = unread[j].frame.pages
      BY <1>4, UnreadTypes DEF m
    <3>3. Dist(h, q) \in 0 .. Size - 1 BY DistRange
    <3>4. n =< Dist(h, q) + (k - 1) BY <1>9, <2>4, <3>2, <3>3
    <3> QED BY <1>13, <3>1, <3>2, <3>4
  <2>7. Whole(header', data', unread[j].at, unread[j].frame)
    BY <2>3, <2>5, <2>6 DEF Whole
  <2>8. Tail(unread)[i] = unread[j] BY <2>1, <2>2
  <2> QED BY <2>7, <2>8
<1>15. Placed(unread', curpag', Head1') BY <1>1, <1>3, <1>7, <1>10, <1>12
<1>16. \A i \in 1 .. Len(unread') : Whole(header', data', unread'[i].at, unread'[i].frame)
  BY <1>1, <1>5, <1>14
<1>17. CopyInv'
  <2> SUFFICES ASSUME Putting' PROVE CopyInv' BY DEF CopyInv
  <2>1. Putting BY <1>1 DEF Putting
  <2>2. /\ frame \in Frame /\ part \in 1 .. frame.pages + 1
        /\ next = Step(curpag, frame.pages) /\ page = Step(curpag, part - 1)
        /\ Dist(Head1, curpag) + frame.pages =< Size - 1
        /\ header[curpag] = next
        /\ \A k \in 1 .. part - 1 : data[Step(curpag, k - 1)] = [frame |-> frame, part |-> k]
    BY <1>2, <2>1 DEF CopyInv
  <2>3. PICK f \in 1 .. Size : f = frame.pages BY <2>2, Sizes
  <2>4. Dist(h, c) \in 0 .. Size - 1 /\ Dist(h, c) + f =< Size - 1 BY <1>3, <2>2, <2>3, DistRange
  <2>5. header'[c] = header[c] BY <1>7, <1>13
  <2>6. ASSUME NEW k \in 1 .. part - 1
        PROVE  data'[Step(c, k - 1)] = data[Step(c, k - 1)]
    <3>1. part \in 1 .. f + 1 BY <2>2, <2>3
    <3>2. k \in 1 .. f BY <3>1
    <3>3. k - 1 \in 0 .. Size /\ Dist(h, c) + (k - 1) < Size BY <1>9, <2>4, <3>2, Sizes
    <3>4. Step(c, k - 1) \in Page /\ Dist(h, Step(c, k - 1)) = Dist(h, c) + (k - 1)
      BY <3>3, DistStep, StepInPage
    <3>5. n =< Dist(h, c) + (k - 1) BY <1>7, <1>9, <2>4, <3>2
    <3> QED BY <1>13, <3>4, <3>5
  <2>7. Dist(g, c) + frame.pages =< Size - 1
    <3>1. Dist(g, c) = Dist(h, c) - n BY <1>7, <1>10
    <3>2. Dist(h, c) - n + f =< Size - 1 BY <1>9, <2>4
    <3> QED BY <2>3, <3>1, <3>2
  <2> QED BY <1>1, <1>3, <1>12, <2>2, <2>5, <2>6, <2>7 DEF CopyInv
<1>18. SoundInv' BY <1>1, <1>2, <1>12, <1>15, <1>16, <1>17 DEF SoundInv
<1> QED BY <1>13, <1>18 DEF RingInv

LEMMA NextRing ==
    ASSUME ReaderInv, RingInv, MemoryInv, [CardNext]_vars
    PROVE  RingInv' /\ MemoryInv'
<1>1. CASE UNCHANGED ringvars /\ UNCHANGED receiving BY <1>1, RingSame
<1>2. CASE UNCHANGED vars BY <1>1, <1>2, QuietSteps
<1>3. CASE (NetNext \/ ReadFile) /\ UNCHANGED cardvars BY <1>1, <1>3, QuietSteps
<1>4. CASE Receive
  <2>1. CASE \E f \in Frame : PutHeader(f) BY <2>1, HeaderRing
  <2>2. CASE PutPage BY <2>2, PageRing
  <2>3. CASE MoveCurpag BY <2>3, CurpagRing
  <2>4. CASE Dropped \/ LoadRX \/ SetRX \/ SampleR \/ RequestR \/ FlagR
    BY <1>1, <2>4, QuietSteps
  <2> QED BY <1>4, <2>1, <2>2, <2>3, <2>4 DEF Receive
<1>5. CASE Guest
  <2>1. CASE SetUpEnd BY <2>1, SetUpRing
  <2>2. CASE Take BY <2>2, TakeRing
  <2>3. CASE SetUpBegin \/ \E bits \in SUBSET Bits : Acknowledge(bits) \/ Mask(bits)
    BY <1>1, <2>3, QuietSteps
  <2> QED BY <1>5, <2>1, <2>2, <2>3 DEF Guest
<1>6. CASE GuestContinues
  <2>1. CASE CardCleared BY <2>1, ClearRing
  <2>2. CASE Started \/ SetE \/ SampleE \/ RequestE \/ FlagE BY <1>1, <2>2, QuietSteps
  <2> QED BY <1>6, <2>1, <2>2 DEF GuestContinues
<1>7. CASE Elapse BY <1>1, <1>7, QuietSteps
<1>8. CASE KillReader BY <1>8, KillRing
<1> QED BY <1>2, <1>3, <1>4, <1>5, <1>6, <1>7, <1>8 DEF CardNext

LEMMA InitRing == Init => RingInv /\ MemoryInv
<1> SUFFICES ASSUME Init PROVE RingInv /\ MemoryInv OBVIOUS
<1>1. ~ sound /\ header = [p \in Page |-> 0] /\ data = [p \in Page |-> NoFrame] BY DEF Init
<1>2. header = [p \in Page |-> header[p]] BY <1>1
<1>3. data = [p \in Page |-> data[p]] BY <1>1
<1> QED BY <1>1, <1>2, <1>3 DEF RingInv, MemoryInv

LEMMA RingIsKept == RingInv => UnreadIsKept
<1> SUFFICES ASSUME RingInv, sound PROVE UnreadIsKept BY DEF UnreadIsKept
<1> DEFINE m == Len(unread)
           found(i) == IF i = 1 THEN Head1 ELSE header[unread[i - 1].at]
<1>1. /\ start = START /\ stop = STOP /\ boundary \in Page /\ curpag \in Page
      /\ Placed(unread, curpag, Head1)
      /\ \A i \in 1 .. m : Whole(header, data, unread[i].at, unread[i].frame)
  BY DEF RingInv, SoundInv
<1>2. unread \in Seq(Unread) /\ m \in Nat BY <1>1 DEF Placed
<1>3. ASSUME NEW i \in 1 .. m PROVE Intact(unread[i].at, unread[i].frame)
  <2>1. PICK p \in Page, n \in 1 .. Size - 1 : p = unread[i].at /\ n = unread[i].frame.pages
    BY <1>2, UnreadTypes
  <2>2. Whole(header, data, p, unread[i].frame) BY <1>1, <2>1
  <2>3. n \in 0 .. Size /\ \A k \in 1 .. n : k - 1 \in 0 .. Size BY Sizes
  <2>4. After(p, n) = Step(p, n) /\ \A k \in 1 .. n : After(p, k - 1) = Step(p, k - 1)
    BY <1>1, <2>3, AfterIs
  <2> QED BY <2>1, <2>2, <2>4 DEF Intact, Whole
<1>4. ASSUME NEW i \in 1 .. m
      PROVE  header[unread[i].at] = IF i = m THEN curpag ELSE unread[i + 1].at
  <2>1. Whole(header, data, unread[i].at, unread[i].frame) BY <1>1
  <2>2. Step(unread[i].at, unread[i].frame.pages) = IF i = m THEN curpag ELSE unread[i + 1].at
    BY <1>1 DEF Placed
  <2> QED BY <2>1, <2>2 DEF Whole
<1>5. ASSUME NEW i \in 1 .. m PROVE unread[i].at = found(i)
  <2>1. CASE i = 1
    <3>1. unread # << >> BY <1>2, <2>1
    <3> QED BY <1>1, <2>1, <3>1 DEF Placed
  <2>2. CASE i # 1
    <3>1. PICK j \in 1 .. m : j = i - 1 /\ j # m /\ j + 1 = i
      <4>1. i - 1 \in 1 .. m /\ i - 1 # m /\ (i - 1) + 1 = i BY <1>2, <2>2
      <4> QED BY <4>1
    <3>2. header[unread[j].at] = unread[j + 1].at BY <1>4, <3>1
    <3> QED BY <2>2, <3>1, <3>2
  <2> QED BY <2>1, <2>2
<1>6. curpag = found(m + 1)
  <2>1. CASE m = 0
    <3>1. unread = << >> BY <1>2, <2>1
    <3> QED BY <1>1, <2>1, <3>1 DEF Placed
  <2>2. CASE m # 0
    <3>1. m \in 1 .. m /\ m + 1 # 1 /\ (m + 1) - 1 = m BY <1>2, <2>2
    <3>2. header[unread[m].at] = curpag BY <1>4, <3>1
    <3> QED BY <3>1, <3>2
  <2> QED BY <2>1, <2>2
<1> QED BY <1>3, <1>5, <1>6 DEF UnreadIsKept

\* Whatever the read thread is at, the driver finds every frame it has not
\* taken, whole and in order, in a ring of any size, with acknowledgements,
\* masks and set-ups at any time: until a frame overruns the others, which the
\* card lets in when it is larger than the room it asks for, or fills the ring
\* to the last page, or a reset takes the ring away ("sound").
THEOREM UnreadAlwaysKept == CardSpec => []UnreadIsKept
<1> DEFINE I == ReaderInv /\ RingInv /\ MemoryInv
<1>1. Init => I BY InitReader, InitRing
<1>2. I /\ [CardNext]_vars => I' BY NextReader, NextRing
<1>3. I => UnreadIsKept BY RingIsKept
<1> QED BY <1>1, <1>2, <1>3, PTL DEF CardSpec
=============================================================================
