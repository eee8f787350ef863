----------------------------- MODULE NetProofs -----------------------------
(***************************************************************************)
(* Proofs about Net, for rings of every size and any packets.              *)
(***************************************************************************)
EXTENDS Net, SequenceTheorems, TLAPS

-----------------------------------------------------------------------------
(***************************************************************************)
(* Positions in a ring                                                     *)
(***************************************************************************)

LEMMA ModSmall ==
    ASSUME NEW n \in Nat \ {0}, NEW a \in 0 .. n - 1
    PROVE  a % n = a
  OBVIOUS

LEMMA ModAbove ==
    ASSUME NEW n \in Nat \ {0}, NEW a \in n .. 2 * n - 1
    PROVE  a % n = a - n
  OBVIOUS

LEMMA ModBelow ==
    ASSUME NEW n \in Nat \ {0}, NEW a \in 1 - n .. - 1
    PROVE  a % n = a + n
  OBVIOUS

LEMMA FollowingIs ==
    ASSUME NEW p \in Slot
    PROVE  /\ Following(p) \in Slot
           /\ Following(p) = IF p + 1 = ARYLEN THEN 0 ELSE p + 1
<1>1. ARYLEN \in Nat \ {0} /\ ARYLEN > 1 BY NetAssumption
<1>2. p \in 0 .. ARYLEN - 1 BY DEF Slot
<1>3. CASE p + 1 = ARYLEN
  <2>1. ARYLEN \in ARYLEN .. 2 * ARYLEN - 1 BY <1>1
  <2>2. ARYLEN % ARYLEN = 0 BY <1>1, <2>1, ModAbove
  <2> QED BY <1>1, <1>3, <2>2 DEF Following, Slot
<1>4. CASE p + 1 # ARYLEN
  <2>1. p + 1 \in 0 .. ARYLEN - 1 BY <1>1, <1>2, <1>4
  <2>2. (p + 1) % ARYLEN = p + 1 BY <1>1, <2>1, ModSmall
  <2> QED BY <1>4, <2>1, <2>2 DEF Following, Slot
<1> QED BY <1>3, <1>4

LEMMA FollowingInjective ==
    ASSUME NEW p \in Slot, NEW q \in Slot, Following(p) = Following(q)
    PROVE  p = q
  BY FollowingIs, NetAssumption DEF Slot

\* How many buffers lie from r to w
Between(r, w) == (w - r) % ARYLEN

LEMMA BetweenIs ==
    ASSUME NEW r \in Slot, NEW w \in Slot
    PROVE  Between(r, w) = IF r =< w THEN w - r ELSE w - r + ARYLEN
<1>1. ARYLEN \in Nat \ {0} BY NetAssumption
<1>2. CASE r =< w
  <2>1. w - r \in 0 .. ARYLEN - 1 BY <1>1, <1>2 DEF Slot
  <2> QED BY <1>1, <1>2, <2>1, ModSmall DEF Between
<1>3. CASE ~ r =< w
  <2>1. w - r \in 1 - ARYLEN .. - 1 BY <1>1, <1>3 DEF Slot
  <2> QED BY <1>1, <1>3, <2>1, ModBelow DEF Between
<1> QED BY <1>2, <1>3

\* The place i of what lies from r on
At(r, i) == (r + i - 1) % ARYLEN

LEMMA AtIs ==
    ASSUME NEW r \in Slot, NEW i \in 1 .. ARYLEN
    PROVE  /\ At(r, i) \in Slot
           /\ At(r, i) = IF r + i - 1 < ARYLEN THEN r + i - 1 ELSE r + i - 1 - ARYLEN
<1>1. ARYLEN \in Nat \ {0} BY NetAssumption
<1>2. CASE r + i - 1 < ARYLEN
  <2>1. r + i - 1 \in 0 .. ARYLEN - 1 BY <1>1, <1>2 DEF Slot
  <2> QED BY <1>1, <1>2, <2>1, ModSmall DEF At, Slot
<1>3. CASE ~ r + i - 1 < ARYLEN
  <2>1. r + i - 1 \in ARYLEN .. 2 * ARYLEN - 1 BY <1>1, <1>3 DEF Slot
  <2> QED BY <1>1, <1>3, <2>1, ModAbove DEF At, Slot
<1> QED BY <1>2, <1>3

-----------------------------------------------------------------------------
(***************************************************************************)
(* What a ring holds, as a sequence                                        *)
(***************************************************************************)

Ring(mem, r, w) == [i \in 1 .. Between(r, w) |-> mem[At(r, i)]]

Memory == [Slot -> Packets \cup {NoPacket}]

LEMMA RingIsSeq ==
    ASSUME NEW mem \in Memory, NEW r \in Slot, NEW w \in Slot
    PROVE  /\ Ring(mem, r, w) \in Seq(Packets \cup {NoPacket})
           /\ Len(Ring(mem, r, w)) = Between(r, w)
           /\ Between(r, w) \in 0 .. ARYLEN - 1
<1>1. Between(r, w) \in 0 .. ARYLEN - 1 BY BetweenIs, NetAssumption DEF Slot
<1>2. \A i \in 1 .. Between(r, w) : mem[At(r, i)] \in Packets \cup {NoPacket}
  BY <1>1, AtIs, NetAssumption DEF Memory
<1> QED BY <1>1, <1>2 DEF Ring

LEMMA RingEmpty ==
    ASSUME NEW mem, NEW r \in Slot
    PROVE  Ring(mem, r, r) = << >>
<1>1. Between(r, r) = 0 BY BetweenIs DEF Slot
<1> QED BY <1>1 DEF Ring

\* The reader moves on: the first packet goes.
LEMMA RingTail ==
    ASSUME NEW mem \in Memory, NEW r \in Slot, NEW w \in Slot, r # w
    PROVE  /\ Ring(mem, r, w) # << >>
           /\ Head(Ring(mem, r, w)) = mem[r]
           /\ Tail(Ring(mem, r, w)) = Ring(mem, Following(r), w)
<1> DEFINE s == Ring(mem, r, w)  n == Between(r, w)
<1>1. /\ s \in Seq(Packets \cup {NoPacket}) /\ Len(s) = n /\ n \in 0 .. ARYLEN - 1
  BY RingIsSeq
<1>2. n # 0 BY BetweenIs, NetAssumption DEF Slot
<1>3. Following(r) \in Slot /\ Between(Following(r), w) = n - 1
  <2>1. Following(r) \in Slot /\ Following(r) = IF r + 1 = ARYLEN THEN 0 ELSE r + 1
    BY FollowingIs
  <2>2. n = IF r =< w THEN w - r ELSE w - r + ARYLEN BY BetweenIs
  <2>3. Between(Following(r), w) =
            IF Following(r) =< w THEN w - Following(r) ELSE w - Following(r) + ARYLEN
    BY <2>1, BetweenIs
  <2> HIDE DEF n
  <2> QED BY <2>1, <2>2, <2>3, NetAssumption DEF Slot
<1>4. At(r, 1) = r BY AtIs, NetAssumption DEF Slot
<1>5. s[1] = mem[r] BY <1>1, <1>2, <1>4 DEF Ring
<1>6. \A i \in 1 .. n - 1 : At(r, i + 1) = At(Following(r), i)
  <2> SUFFICES ASSUME NEW i \in 1 .. n - 1 PROVE At(r, i + 1) = At(Following(r), i)
    OBVIOUS
  <2>1. i \in 1 .. ARYLEN /\ i + 1 \in 1 .. ARYLEN BY <1>1, NetAssumption
  <2>2. At(r, i + 1) = IF r + (i + 1) - 1 < ARYLEN THEN r + (i + 1) - 1
                       ELSE r + (i + 1) - 1 - ARYLEN
    <3> DEFINE j == i + 1
    <3>1. j \in 1 .. ARYLEN BY <2>1
    <3> HIDE DEF j
    <3>2. At(r, j) = IF r + j - 1 < ARYLEN THEN r + j - 1 ELSE r + j - 1 - ARYLEN
      BY <3>1, AtIs
    <3> QED BY <3>2 DEF j
  <2>3. At(Following(r), i) = IF Following(r) + i - 1 < ARYLEN THEN Following(r) + i - 1
                              ELSE Following(r) + i - 1 - ARYLEN
    BY <1>3, <2>1, AtIs
  <2>4. Following(r) = IF r + 1 = ARYLEN THEN 0 ELSE r + 1 BY FollowingIs
  <2> QED BY <2>1, <2>2, <2>3, <2>4, NetAssumption DEF Slot
<1>7. s # << >> BY <1>1, <1>2
<1> DEFINE t == Ring(mem, Following(r), w)
<1>8. t \in Seq(Packets \cup {NoPacket}) /\ Len(t) = n - 1 BY <1>3, RingIsSeq
<1>9. Tail(s) = t
  <2>1. /\ Tail(s) \in Seq(Packets \cup {NoPacket}) /\ Len(Tail(s)) = n - 1
        /\ \A i \in 1 .. n - 1 : Tail(s)[i] = s[i + 1]
    <3> HIDE DEF s, n
    <3> QED BY <1>1, <1>7, HeadTailProperties
  <2>2. \A i \in 1 .. n - 1 : s[i + 1] = t[i]
    BY <1>1, <1>3, <1>6 DEF Ring
  <2> HIDE DEF s, n, t
  <2> QED BY <1>8, <2>1, <2>2, SeqEqual
<1>10. Head(s) = s[1]
  <2> HIDE DEF s
  <2> QED BY <1>1, <1>7
<1> QED BY <1>5, <1>7, <1>9, <1>10

\* The writer moves on: what lies at its position is appended.
LEMMA RingAppend ==
    ASSUME NEW mem \in Memory, NEW r \in Slot, NEW w \in Slot, r # Following(w)
    PROVE  /\ Between(r, w) < ARYLEN - 1
           /\ Ring(mem, r, Following(w)) = Append(Ring(mem, r, w), mem[w])
<1> DEFINE s == Ring(mem, r, w)  n == Between(r, w)
<1>1. /\ s \in Seq(Packets \cup {NoPacket}) /\ Len(s) = n /\ n \in 0 .. ARYLEN - 1
  BY RingIsSeq
<1>2. Following(w) \in Slot /\ n < ARYLEN - 1 /\ Between(r, Following(w)) = n + 1
  <2>1. Following(w) \in Slot /\ Following(w) = IF w + 1 = ARYLEN THEN 0 ELSE w + 1
    BY FollowingIs
  <2>2. n = IF r =< w THEN w - r ELSE w - r + ARYLEN BY BetweenIs
  <2>3. Between(r, Following(w)) =
            IF r =< Following(w) THEN Following(w) - r ELSE Following(w) - r + ARYLEN
    BY <2>1, BetweenIs
  <2> HIDE DEF n
  <2> QED BY <2>1, <2>2, <2>3, NetAssumption DEF Slot
<1>3. At(r, n + 1) = w
  <2>1. At(r, n + 1) = IF r + (n + 1) - 1 < ARYLEN THEN r + (n + 1) - 1
                       ELSE r + (n + 1) - 1 - ARYLEN
    <3> DEFINE j == n + 1
    <3>1. j \in 1 .. ARYLEN BY <1>1, <1>2, NetAssumption
    <3> HIDE DEF j
    <3>2. At(r, j) = IF r + j - 1 < ARYLEN THEN r + j - 1 ELSE r + j - 1 - ARYLEN
      BY <3>1, AtIs
    <3> QED BY <3>2 DEF j
  <2>2. n = IF r =< w THEN w - r ELSE w - r + ARYLEN BY BetweenIs
  <2> HIDE DEF n
  <2> QED BY <1>1, <1>2, <2>1, <2>2, NetAssumption DEF Slot
<1>4. Append(s, mem[w]) = [i \in 1 .. n + 1 |-> IF i = n + 1 THEN mem[w] ELSE s[i]]
  BY <1>1
<1>5. \A i \in 1 .. n + 1 : (IF i = n + 1 THEN mem[w] ELSE s[i]) = mem[At(r, i)]
  BY <1>1, <1>3 DEF Ring
<1> QED BY <1>2, <1>4, <1>5 DEF Ring

\* The buffer at the writer's position holds nothing yet.
LEMMA RingStore ==
    ASSUME NEW mem \in Memory, NEW r \in Slot, NEW w \in Slot, NEW p
    PROVE  Ring([mem EXCEPT ![w] = p], r, w) = Ring(mem, r, w)
<1>1. Between(r, w) \in 0 .. ARYLEN - 1 BY RingIsSeq
<1>2. \A i \in 1 .. Between(r, w) : At(r, i) \in Slot /\ At(r, i) # w
  <2> DEFINE n == Between(r, w)
  <2>1. n = IF r =< w THEN w - r ELSE w - r + ARYLEN BY BetweenIs
  <2> HIDE DEF n
  <2> SUFFICES ASSUME NEW i \in 1 .. n PROVE At(r, i) \in Slot /\ At(r, i) # w
    BY DEF n
  <2>2. i \in 1 .. ARYLEN BY <1>1, NetAssumption DEF n
  <2>3. /\ At(r, i) \in Slot
        /\ At(r, i) = IF r + i - 1 < ARYLEN THEN r + i - 1 ELSE r + i - 1 - ARYLEN
    BY <2>2, AtIs
  <2> QED BY <2>1, <2>2, <2>3, NetAssumption DEF Slot
<1>3. \A i \in 1 .. Between(r, w) : [mem EXCEPT ![w] = p][At(r, i)] = mem[At(r, i)]
  BY <1>2 DEF Memory
<1> QED BY <1>3 DEF Ring

-----------------------------------------------------------------------------
(***************************************************************************)
(* The inductive invariant                                                 *)
(***************************************************************************)

\* What is sent is a packet, and there is room for it until it is counted.
SendingInv ==
    /\ emulation = "copy" => sending \in Packets
    /\ emulation = "advance" => membuf[writepos] \in Packets
    /\ emulation \in {"copy", "advance"} => ~ RingFull

\* The write thread has found a packet, and nobody takes it from it.
DrainingInv ==
    threadW \in {"packet", "write", "pending", "written"} => readpos # writepos

\* There are threads if and only if there is a device.
DeviceInv ==
    /\ threadW = "none" <=> ~ opened
    /\ threadR = "none" <=> ~ opened
    /\ emulation \in {"stop", "wake", "joinR", "joinW"} => opened
    /\ emulation = "open" => ~ opened

IInv == TypeOK /\ SendingInv /\ DrainingInv /\ DeviceInv

USE DEF netvars, ring, threads, Memory

LEMMA InitInv == NetInit => IInv
<1> SUFFICES ASSUME NetInit PROVE IInv OBVIOUS
<1>1. 0 \in Slot BY NetAssumption DEF Slot
<1> QED BY <1>1 DEF NetInit, IInv, TypeOK, SendingInv, DrainingInv, DeviceInv

\* Every step keeps the types; none but a send and a move needs more than them.
LEMMA EmulationKeeps ==
    ASSUME IInv, Begin \/ Continue \/ Down \/ CardReset
    PROVE  IInv'
<1> USE DEF IInv
<1>1. ASSUME NEW p \in Packets, Send(p) PROVE IInv'
  BY <1>1 DEF Send, TypeOK, SendingInv, DrainingInv, DeviceInv, RingFull
<1>2. CASE Copy
  BY <1>2 DEF Copy, TypeOK, SendingInv, DrainingInv, DeviceInv, RingFull
<1>3. CASE Advance
  <2>1. Following(writepos) \in Slot BY FollowingIs DEF TypeOK
  <2>2. readpos # Following(writepos) BY <1>3 DEF Advance, SendingInv, RingFull
  <2> QED BY <1>3, <2>1, <2>2 DEF Advance, TypeOK, SendingInv, DrainingInv, DeviceInv
<1>4. CASE Signal
  BY <1>4 DEF Signal, TypeOK, SendingInv, DrainingInv, DeviceInv
<1>8. CASE Reset \/ Shutdown
  <2>1. \/ opened /\ emulation' = "stop"
        \/ ~ opened /\ emulation' \in {"open", "down"}
    BY <1>8 DEF Reset, Shutdown, EmulationAt
  <2>2. UNCHANGED <<ring, opened, sending, threads, tap>>
    BY <1>8 DEF Reset, Shutdown, EmulationAt
  <2>3. {event', threadexit', ending'} \subseteq BOOLEAN
    BY <1>8 DEF Reset, Shutdown, TypeOK
  <2>4. TypeOK' BY <2>1, <2>2, <2>3 DEF TypeOK
  <2>5. SendingInv' /\ DrainingInv' BY <2>1, <2>2 DEF SendingInv, DrainingInv
  <2>6. DeviceInv' BY <2>1, <2>2 DEF DeviceInv
  <2> QED BY <2>4, <2>5, <2>6
<1>9. CASE Stop \/ Wake \/ JoinR
  BY <1>9 DEF Stop, Wake, JoinR, EmulationAt, TypeOK, SendingInv, DrainingInv, DeviceInv
<1>10. CASE OpenFails \/ CardReset
  BY <1>10 DEF OpenFails, CardReset, EmulationAt, TypeOK, SendingInv, DrainingInv, DeviceInv
<1>5. CASE JoinW
  BY <1>5 DEF JoinW, EmulationAt, TypeOK, SendingInv, DrainingInv, DeviceInv
<1>6. CASE OpenTAP
  BY <1>6 DEF OpenTAP, EmulationAt, TypeOK, SendingInv, DrainingInv, DeviceInv
<1>7. CASE Down
  BY <1>7 DEF Down, TypeOK, SendingInv, DrainingInv, DeviceInv, RingFull
<1> QED BY <1>1, <1>2, <1>3, <1>4, <1>5, <1>6, <1>7, <1>8, <1>9, <1>10 DEF Begin, Continue

LEMMA WriterKeeps ==
    ASSUME IInv, ThreadFuncW \/ WriteCompletes
    PROVE  IInv'
<1> USE DEF IInv, StepsOfW, WriterAt
<1>1. CASE Woken \/ TestExit \/ TestEmpty \/ TestExitInside
  BY <1>1, ZenonT(60) DEF Woken, TestExit, TestEmpty, TestExitInside,
     TypeOK, SendingInv, DrainingInv, DeviceInv, RingFull
<1>2. CASE WriteFile \/ WriteFilePending \/ WriteCompletes \/ Abandon
  BY <1>2 DEF WriteFile, WriteFilePending, WriteCompletes, Abandon,
     TypeOK, SendingInv, DrainingInv, DeviceInv, RingFull
<1>3. CASE NextPacket
  <2>1. Following(readpos) \in Slot BY FollowingIs DEF TypeOK
  <2>2. Following(readpos) # Following(writepos)
    BY <1>3, FollowingInjective DEF NextPacket, TypeOK, DrainingInv
  <2> QED BY <1>3, <2>1, <2>2 DEF NextPacket, TypeOK, SendingInv, DrainingInv, DeviceInv, RingFull
<1> QED BY <1>1, <1>2, <1>3 DEF ThreadFuncW

LEMMA ReaderKeeps ==
    ASSUME IInv, ThreadFuncR \/ ReadFails \/ ReadFile \/ Received \/ TerminateR
    PROVE  IInv'
  BY DEF ThreadFuncR, ReadFails, ReadFile, Received, TerminateR, ReadTestExit, ReadAbandoned, ReaderAt,
     IInv, TypeOK, SendingInv, DrainingInv, DeviceInv, RingFull

LEMMA StutterKeeps == ASSUME IInv, UNCHANGED netvars PROVE IInv'
  BY DEF IInv, TypeOK, SendingInv, DrainingInv, DeviceInv, RingFull

LEMMA NextInv == IInv /\ [Next]_netvars => IInv'
  BY EmulationKeeps, WriterKeeps, ReaderKeeps, StutterKeeps DEF Next, NetNext

\* With any ring and any packets: there is always room for a packet that was
\* let in, what the write thread works on is in the ring, and threads live as
\* long as the device.
THEOREM Invariance == Spec => []IInv
  BY InitInv, NextInv, PTL DEF Spec

\* The positions never leave the ring, whatever its size (np2net_membuf_readpos
\* and _writepos, which no lock protects).
THEOREM TypeCorrect == Spec => []TypeOK
<1>1. IInv => TypeOK BY DEF IInv
<1> QED BY <1>1, Invariance, PTL

-----------------------------------------------------------------------------
(***************************************************************************)
(* The ring implements the queue                                           *)
(***************************************************************************)

Waiting == IF threadW = "written" THEN Tail(Held) ELSE Held

LEMMA HeldIsRing == Held = Ring(membuf, readpos, writepos)
  BY DEF Held, Count, Ring, Between, At

LEMMA HeldIsRingNext == Held' = Ring(membuf', readpos', writepos')
  BY DEF Held, Count, Ring, Between, At

LEMMA InitRefines == NetInit => Promised!Init
<1> SUFFICES ASSUME NetInit PROVE Promised!Init OBVIOUS
<1>1. 0 \in Slot BY NetAssumption DEF Slot
<1>2. Held = << >> BY <1>1, HeldIsRing, RingEmpty DEF NetInit
<1> QED BY <1>2 DEF NetInit, Promised!Init

\* A step that moves nothing in the ring and does not end a write is none of
\* the queue's.
LEMMA NothingMoves ==
    ASSUME UNCHANGED <<membuf, readpos, writepos, opened, tap>>,
           threadW' = "written" <=> threadW = "written"
    PROVE  UNCHANGED Promised!vars
<1>1. Held' = Held BY HeldIsRing, HeldIsRingNext
<1> QED BY <1>1 DEF Promised!vars

LEMMA StoreRefines == ASSUME IInv, Copy PROVE UNCHANGED Promised!vars
<1>1. Held' = Held
  BY HeldIsRing, HeldIsRingNext, RingStore DEF IInv, TypeOK, Copy
<1> QED BY <1>1 DEF Promised!vars, Copy

LEMMA AdvanceRefines == ASSUME IInv, Advance PROVE Promised!Accept(membuf[writepos])
<1> DEFINE s == Ring(membuf, readpos, writepos)  p == membuf[writepos]
<1>1. /\ membuf \in Memory /\ readpos \in Slot /\ writepos \in Slot
      /\ readpos # Following(writepos)
      /\ p \in Packets \cup {NoPacket}
  BY DEF IInv, TypeOK, SendingInv, Advance, RingFull
<1>2. /\ Between(readpos, writepos) < ARYLEN - 1
      /\ Ring(membuf, readpos, Following(writepos)) = Append(s, p)
  BY <1>1, RingAppend
<1>3. /\ s \in Seq(Packets \cup {NoPacket}) /\ Len(s) = Between(readpos, writepos)
      /\ Between(readpos, writepos) \in 0 .. ARYLEN - 1
  BY <1>1, RingIsSeq
<1>4. Held = s /\ Held' = Append(s, p)
  BY <1>2, HeldIsRing, HeldIsRingNext DEF Advance
<1>5. /\ Len(Waiting) < ARYLEN - 1
      /\ Waiting' = Append(Waiting, p)
  <2>1. CASE threadW # "written"
    BY <1>2, <1>3, <1>4, <2>1 DEF Waiting, Advance
  <2>2. CASE threadW = "written"
    <3>1. s # << >>
      BY <1>1, <2>2, RingTail DEF IInv, DrainingInv
    <3>2. Waiting = Tail(s) /\ Waiting' = Tail(Append(s, p))
      BY <1>4, <2>2 DEF Waiting, Advance
    <3> HIDE DEF s, p
    <3>3. Len(Tail(s)) = Len(s) - 1 BY <1>3, <3>1, HeadTailProperties
    <3>4. Tail(Append(s, p)) = Append(Tail(s), p) BY <1>1, <1>3, <3>1
    <3> QED BY <1>2, <1>3, <3>2, <3>3, <3>4, NetAssumption
  <2> QED BY <2>1, <2>2
<1>6. UNCHANGED <<opened, tap>> BY DEF Advance
<1> QED BY <1>5, <1>6 DEF Promised!Accept, Waiting

LEMMA WriteRefines ==
    ASSUME IInv, WriteFile \/ WriteCompletes \/ Abandon
    PROVE  Promised!Write
<1> USE DEF WriteFile, WriteCompletes, Abandon, WriterAt, StepsOfW
<1>1. /\ membuf \in Memory /\ readpos \in Slot /\ writepos \in Slot
      /\ readpos # writepos /\ opened
  BY DEF IInv, TypeOK, DrainingInv, DeviceInv
<1>2. Held # << >> /\ Head(Held) = membuf[readpos]
  BY <1>1, HeldIsRing, RingTail
<1>3. Held' = Held BY HeldIsRing, HeldIsRingNext
<1>4. threadW # "written" /\ threadW' = "written" /\ UNCHANGED opened
      /\ tap' \in {membuf[readpos], NoPacket}
  OBVIOUS
<1> QED BY <1>1, <1>2, <1>3, <1>4 DEF Promised!Write

LEMMA NextPacketRefines == ASSUME IInv, NextPacket PROVE UNCHANGED Promised!vars
<1> USE DEF NextPacket, WriterAt, StepsOfW
<1>1. /\ membuf \in Memory /\ readpos \in Slot /\ writepos \in Slot
      /\ readpos # writepos
  BY DEF IInv, TypeOK, DrainingInv
<1>2. Held' = Tail(Held) BY <1>1, HeldIsRing, HeldIsRingNext, RingTail
<1> QED BY <1>2 DEF Promised!vars

LEMMA CloseRefines == ASSUME IInv, JoinW PROVE Promised!Close
<1> USE DEF JoinW, EmulationAt
<1>1. Held' = << >>
  BY HeldIsRingNext, RingEmpty DEF IInv, TypeOK
<1>2. opened BY DEF IInv, DeviceInv
<1> QED BY <1>1, <1>2 DEF Promised!Close

LEMMA OpenRefines == ASSUME IInv, OpenTAP PROVE Promised!Open
<1> USE DEF OpenTAP, EmulationAt
<1>1. Held' = Held BY HeldIsRing, HeldIsRingNext
<1>2. threadW # "written" BY DEF IInv, DeviceInv
<1> QED BY <1>1, <1>2 DEF Promised!Open

LEMMA OtherStepsRefine ==
    ASSUME \/ Begin \/ Signal \/ Stop \/ Wake \/ JoinR \/ OpenFails \/ Down
           \/ Woken \/ TestExit \/ TestEmpty \/ TestExitInside \/ WriteFilePending
           \/ ThreadFuncR \/ ReadFails \/ CardReset \/ ReadFile \/ Received \/ TerminateR
           \/ UNCHANGED netvars
    PROVE  UNCHANGED Promised!vars
<1>1. /\ UNCHANGED <<membuf, readpos, writepos, opened, tap>>
      /\ threadW' = "written" <=> threadW = "written"
  BY DEF Begin, Send, Reset, Shutdown, Signal, Stop, Wake, JoinR, OpenFails, Down, CardReset,
     EmulationAt, Woken, TestExit, TestEmpty, TestExitInside, WriteFilePending,
     WriterAt, StepsOfW, ThreadFuncR, ReadTestExit, ReadAbandoned, ReadFails, ReadFile,
     Received, TerminateR, ReaderAt
<1> QED BY <1>1, NothingMoves

LEMMA NextRefines == IInv /\ [Next]_netvars => [Promised!Next]_Promised!vars
<1> SUFFICES ASSUME IInv, [Next]_netvars PROVE Promised!Next \/ UNCHANGED Promised!vars
  OBVIOUS
<1>1. CASE Copy BY <1>1, StoreRefines
<1>2. CASE Advance
  <2>1. membuf[writepos] \in Packets BY <1>2 DEF IInv, SendingInv, Advance
  <2> QED BY <1>2, <2>1, AdvanceRefines DEF Promised!Next
<1>3. CASE WriteFile \/ WriteCompletes \/ Abandon
  BY <1>3, WriteRefines DEF Promised!Next
<1>4. CASE NextPacket BY <1>4, NextPacketRefines
<1>5. CASE JoinW BY <1>5, CloseRefines DEF Promised!Next
<1>6. CASE OpenTAP BY <1>6, OpenRefines DEF Promised!Next
<1> QED BY <1>1, <1>2, <1>3, <1>4, <1>5, <1>6, OtherStepsRefine
        DEF Next, NetNext, Continue, ThreadFuncW

\* A ring of any size, shared without a lock by the emulation, the write thread
\* and a device that takes a packet out of the buffer when it likes, is a
\* queue: what is accepted reaches the device in order, once and whole.
THEOREM RingIsQueue == Spec => ImplementsPacketQueue
  BY InitRefines, NextRefines, Invariance, PTL DEF Spec, ImplementsPacketQueue, Promised!Spec
=============================================================================
