-------------------------- MODULE InterruptsProofs --------------------------
(***************************************************************************)
(* Proofs about Interrupts: the controllers with a guest that serves them, *)
(* for chips of any number of lines and any devices.                       *)
(***************************************************************************)
EXTENDS Interrupts, PicProofs, SequenceTheorems

HandlerType == [chip : Chip, line : Line, at : {"work", "ended", "return"}]

\* The line of the master that a handler keeps in service
MasterLine(h) == IF h.chip = Master THEN h.line ELSE SLAVE

\* h may interrupt g
Over(h, g) ==
    IF h.chip = Slave /\ g.chip = Slave THEN h.line < g.line
    ELSE MasterLine(h) < MasterLine(g)

\* Handlers lie in the order of their priorities, and only the running one can
\* be past its work, with interrupts disabled.
HandlersInv ==
    /\ handlers \in Seq(HandlerType)
    /\ \A i \in DOMAIN handlers :
          /\ handlers[i].chip = Master => handlers[i].line # SLAVE
          /\ handlers[i].at = "ended" => handlers[i].chip = Slave
          /\ handlers[i].at # "work" => i = Len(handlers) /\ ~ ei
    /\ \A i, j \in DOMAIN handlers : i < j => Over(handlers[j], handlers[i])

\* The guest leaves the priorities and the mode of the chips as they are.
FixedInv == \A c \in Chip : pry[c] = 0 /\ smm[c] = FALSE

GuestInv == TypeOK /\ FixedInv /\ HandlersInv /\ InServiceIsAtWork

-----------------------------------------------------------------------------
(***************************************************************************)
(* The stack of handlers                                                   *)
(***************************************************************************)

LEMMA AppendFacts ==
    ASSUME NEW T, NEW s \in Seq(T), NEW e \in T
    PROVE  /\ Append(s, e) \in Seq(T)
           /\ Len(Append(s, e)) = Len(s) + 1 /\ Len(s) \in Nat
           /\ DOMAIN Append(s, e) = 1 .. Len(s) + 1 /\ DOMAIN s = 1 .. Len(s)
           /\ \A i \in 1 .. Len(s) : Append(s, e)[i] = s[i]
           /\ Append(s, e)[Len(s) + 1] = e
  OBVIOUS

LEMMA FrontFacts ==
    ASSUME NEW T, NEW s \in Seq(T), s # << >>
    PROVE  /\ SubSeq(s, 1, Len(s) - 1) \in Seq(T)
           /\ Len(SubSeq(s, 1, Len(s) - 1)) = Len(s) - 1 /\ Len(s) \in Nat \ {0}
           /\ DOMAIN SubSeq(s, 1, Len(s) - 1) = 1 .. Len(s) - 1 /\ DOMAIN s = 1 .. Len(s)
           /\ \A i \in 1 .. Len(s) - 1 : SubSeq(s, 1, Len(s) - 1)[i] = s[i]
<1> DEFINE n == Len(s)  f == SubSeq(s, 1, n - 1)
<1>1. n \in Nat \ {0} /\ DOMAIN s = 1 .. n /\ \A i \in 1 .. n : s[i] \in T OBVIOUS
<1> HIDE DEF n
<1>2. /\ f \in Seq(T) /\ Len(f) = IF 1 =< n - 1 THEN n - 1 - 1 + 1 ELSE 0
      /\ \A i \in 1 .. n - 1 - 1 + 1 : f[i] = s[1 + i - 1]
  BY <1>1, SubSeqProperties
<1> HIDE DEF f
<1>3. Len(f) = n - 1 /\ \A i \in 1 .. n - 1 : f[i] = s[i] BY <1>1, <1>2
<1>4. DOMAIN f = 1 .. n - 1 BY <1>2, <1>3
<1> QED BY <1>1, <1>2, <1>3, <1>4 DEF n, f

\* The facts about the running handler that its steps need
LEMMA TopFacts ==
    ASSUME HandlersInv, handlers # << >>
    PROVE  /\ Len(handlers) \in Nat \ {0} /\ DOMAIN handlers = 1 .. Len(handlers)
           /\ Len(handlers) \in DOMAIN handlers
           /\ Top \in HandlerType
           /\ \A i \in DOMAIN handlers : handlers[i] \in HandlerType
           /\ \A i \in 1 .. Len(handlers) - 1 : handlers[i].at = "work"
<1>1. handlers \in Seq(HandlerType) BY DEF HandlersInv
<1>2. /\ Len(handlers) \in Nat \ {0} /\ DOMAIN handlers = 1 .. Len(handlers)
      /\ \A i \in DOMAIN handlers : handlers[i] \in HandlerType
  BY <1>1
<1>3. Top \in HandlerType /\ Len(handlers) \in DOMAIN handlers BY <1>2 DEF Top
<1>4. \A i \in 1 .. Len(handlers) - 1 : handlers[i].at = "work"
  BY <1>2 DEF HandlersInv
<1> QED BY <1>2, <1>3, <1>4

LEMMA GoToFacts ==
    ASSUME HandlersInv, handlers # << >>, NEW place \in {"work", "ended", "return"}, GoTo(place)
    PROVE  /\ handlers' \in Seq(HandlerType) /\ Len(handlers') = Len(handlers)
           /\ DOMAIN handlers' = DOMAIN handlers
           /\ \A i \in 1 .. Len(handlers) - 1 : handlers'[i] = handlers[i]
           /\ \A i \in DOMAIN handlers : /\ handlers'[i].chip = handlers[i].chip
                                         /\ handlers'[i].line = handlers[i].line
           /\ handlers'[Len(handlers)].at = place
<1> DEFINE n == Len(handlers)
<1>1. /\ n \in Nat \ {0} /\ DOMAIN handlers = 1 .. n
      /\ \A i \in 1 .. n : handlers[i] \in HandlerType
  BY TopFacts
<1>2. handlers' = [handlers EXCEPT ![n].at = place] BY DEF GoTo
<1>3. handlers \in Seq(HandlerType) BY DEF HandlersInv
<1> HIDE DEF n
<1>4. /\ DOMAIN handlers' = 1 .. n
      /\ \A i \in 1 .. n : i # n => handlers'[i] = handlers[i]
      /\ handlers'[n] = [handlers[n] EXCEPT !.at = place]
  BY <1>1, <1>2
<1>5. handlers[n] \in HandlerType BY <1>1
<1>6. /\ handlers'[n].chip = handlers[n].chip /\ handlers'[n].line = handlers[n].line
      /\ handlers'[n].at = place /\ handlers'[n] \in HandlerType
  BY <1>4, <1>5 DEF HandlerType
<1>7. handlers' = [handlers EXCEPT ![n] = handlers'[n]] BY <1>1, <1>2
<1>8. n \in 1 .. Len(handlers) BY <1>1 DEF n
<1>9. handlers' \in Seq(HandlerType) /\ Len(handlers') = Len(handlers)
  BY <1>3, <1>6, <1>7, <1>8, ExceptSeq
<1>10. \A i \in 1 .. n - 1 : handlers'[i] = handlers[i]
  <2> SUFFICES ASSUME NEW i \in 1 .. n - 1 PROVE handlers'[i] = handlers[i] OBVIOUS
  <2>1. i \in 1 .. n /\ i # n BY <1>1
  <2> QED BY <1>4, <2>1
<1>11. \A i \in 1 .. n : handlers'[i].chip = handlers[i].chip /\ handlers'[i].line = handlers[i].line
  BY <1>4, <1>6
<1>12. n = Len(handlers) BY DEF n
<1> QED BY ONLY <1>1, <1>4, <1>6, <1>9, <1>10, <1>11, <1>12

\* The lines at work, one handler at a time
LEMMA WorkingFact ==
    ASSUME NEW c, NEW n
    PROVE  n \in Working(c) <=> \E i \in DOMAIN handlers : /\ handlers[i].chip = c
                                                           /\ handlers[i].at = "work"
                                                           /\ handlers[i].line = n
  BY DEF Working

LEMMA WorkingNext ==
    ASSUME NEW c, NEW n
    PROVE  n \in Working(c)' <=> \E i \in DOMAIN handlers' : /\ handlers'[i].chip = c
                                                             /\ handlers'[i].at = "work"
                                                             /\ handlers'[i].line = n
  BY DEF Working

\* A handler over another is on another line.
LEMMA OverDiffers ==
    ASSUME NEW h \in HandlerType, NEW g \in HandlerType, Over(h, g)
    PROVE  <<h.chip, h.line>> # <<g.chip, g.line>>
  BY PicAssumption, InputLines DEF HandlerType, Over, MasterLine, Line

\* A step that moves neither handlers nor isr keeps what relates them.
LEMMA SameHandlers ==
    ASSUME GuestInv, TypeOK', FixedInv', UNCHANGED <<handlers, isr>>,
           (\A i \in DOMAIN handlers : handlers[i].at = "work") \/ (ei' => ei)
    PROVE  GuestInv'
<1>1. \A c : Working(c)' = Working(c) BY DEF Working
<1>2. InServiceIsAtWork' BY <1>1 DEF GuestInv, InServiceIsAtWork
<1>3. HandlersInv' BY DEF GuestInv, HandlersInv
<1> QED BY <1>2, <1>3 DEF GuestInv

-----------------------------------------------------------------------------
(***************************************************************************)
(* pic_irq enters a handler                                                *)
(***************************************************************************)

LEMMA RankZero ==
    ASSUME GuestInv, NEW c \in Chip, NEW n \in Line
    PROVE  Rank(c, n) = n
<1>1. pry[c] = 0 /\ pry[c] \in Line BY DEF GuestInv, FixedInv, TypeOK
<1>2. n \in Nat BY PicAssumption DEF Line
<1> QED BY <1>1, <1>2, RankType

\* pic_irq has one choice at most.
LEMMA AcceptsOne ==
    ASSUME NEW c \in Chip, NEW n \in Line, Accepts(c, n),
           NEW d \in Chip, NEW m \in Line, Accepts(d, m)
    PROVE  c = d /\ n = m
<1>1. CASE c = Master /\ d = Master BY <1>1 DEF Accepts, AcceptsMaster
<1>2. CASE c = Slave /\ d = Slave BY <1>2, InputLines DEF Accepts, AcceptsSlave
<1>3. CASE c = Master /\ d = Slave
  BY <1>3, InputLines DEF Accepts, AcceptsMaster, AcceptsSlave
<1>4. CASE c = Slave /\ d = Master
  BY <1>4, InputLines DEF Accepts, AcceptsMaster, AcceptsSlave
<1> QED BY <1>1, <1>2, <1>3, <1>4 DEF Chip

LEMMA AllAtWork ==
    ASSUME HandlersInv, ei
    PROVE  \A i \in DOMAIN handlers : handlers[i].at = "work"
  BY DEF HandlersInv

\* What is accepted has a higher priority than every handler entered.
LEMMA AcceptedIsOver ==
    ASSUME GuestInv, NEW c \in Chip, NEW n \in Line, Accepts(c, n)
    PROVE  /\ ei /\ n \notin isr[c]
           /\ c = Master => n # SLAVE
           /\ \A i \in DOMAIN handlers :
                 Over([chip |-> c, line |-> n, at |-> "work"], handlers[i])
<1> DEFINE h == [chip |-> c, line |-> n, at |-> "work"]
<1>0. TypeOK /\ HandlersInv /\ InServiceIsAtWork BY DEF GuestInv
<1>1. ei /\ n \notin isr[c] /\ (c = Master => n # SLAVE)
  BY InputLines DEF Accepts, AcceptsMaster, AcceptsSlave, Chip
<1>2. \A i \in DOMAIN handlers : handlers[i].at = "work" BY <1>0, <1>1, AllAtWork
<1>3. \A d \in Chip : Held(d) = isr[d] BY DEF Held, GuestInv, FixedInv
<1>4. \A d \in Chip, m \in Line : Rank(d, m) = m BY RankZero
<1>5. \A d \in Chip : isr[d] \in SUBSET Line BY <1>0 DEF TypeOK
<1>6. ASSUME NEW i \in DOMAIN handlers PROVE Over(h, handlers[i])
  <2> DEFINE g == handlers[i]
  <2> SUFFICES Over(h, g) OBVIOUS
  <2>1. g \in HandlerType BY <1>0 DEF HandlersInv
  <2>2. g.chip \in Chip /\ g.line \in Line /\ g.at = "work" BY <1>2, <2>1 DEF HandlerType
  <2>3. g.line \in Working(g.chip) BY <2>2, WorkingFact
  <2>4. g.chip = Master => g.line \in isr[Master] /\ g.line # SLAVE
    BY <1>0, <2>3 DEF InServiceIsAtWork
  <2>5. g.chip = Slave => g.line \in isr[Slave] /\ SLAVE \in isr[Master]
    BY <1>0, <2>3 DEF InServiceIsAtWork
  <2> HIDE DEF g
  <2>6. h.chip = c /\ h.line = n OBVIOUS
  <2> HIDE DEF h
  <2>7. CASE c = Master
    <3>1. n = First(Master, MasterPending \cup Held(Master)) BY <2>7 DEF Accepts, AcceptsMaster
    <3> DEFINE k == MasterLine(g)
    <3>2. k \in isr[Master]
      <4>1. CASE g.chip = Master BY <2>4, <4>1 DEF MasterLine
      <4>2. CASE g.chip = Slave BY <2>5, <4>2, InputLines DEF MasterLine
      <4> QED BY <2>2, <4>1, <4>2 DEF Chip
    <3>3. k \in Line /\ k # n BY <1>1, <1>5, <2>7, <3>2
    <3>4. k \in MasterPending \cup Held(Master) BY <1>3, <3>2, InputLines
    <3> HIDE DEF k
    <3>5. Rank(Master, n) < Rank(Master, k)
      BY <1>0, <3>1, <3>3, <3>4, ChosenIsHigher, PendingLines, InputLines
    <3>6. n < k BY <1>4, <3>3, <3>5, InputLines
    <3> QED BY <2>6, <2>7, <3>6, InputLines DEF Over, MasterLine, k
  <2>8. CASE c = Slave
    <3>1. /\ First(Master, MasterPending \cup Held(Master)) = SLAVE
          /\ n = First(Slave, Pending(Slave) \cup Held(Slave))
      BY <2>8, InputLines DEF Accepts, AcceptsSlave
    <3>2. CASE g.chip = Slave
      <4>1. g.line \in Pending(Slave) \cup Held(Slave) BY <1>3, <2>5, <3>2, InputLines
      <4>2. g.line # n BY <1>1, <2>5, <2>8, <3>2
      <4>3. Rank(Slave, n) < Rank(Slave, g.line)
        BY <1>0, <3>1, <4>1, <4>2, ChosenIsHigher, PendingLines, InputLines
      <4>4. n < g.line BY <1>4, <2>2, <4>3, InputLines
      <4> QED BY <2>6, <2>8, <3>2, <4>4 DEF Over
    <3>3. CASE g.chip = Master
      <4>1. g.line \in MasterPending \cup Held(Master) /\ g.line # SLAVE
        BY <1>3, <2>4, <3>3, InputLines
      <4>2. Rank(Master, SLAVE) < Rank(Master, g.line)
        BY <1>0, <3>1, <4>1, ChosenIsHigher, PendingLines, InputLines
      <4>3. SLAVE < g.line BY <1>4, <2>2, <4>2, InputLines
      <4> QED BY <2>6, <2>8, <3>3, <4>3, InputLines DEF Over, MasterLine
    <3> QED BY <2>2, <3>2, <3>3 DEF Chip
  <2> QED BY <2>7, <2>8 DEF Chip
<1> QED BY <1>1, <1>6

\* The handler that pic_irq enters, and what it keeps in service
LEMMA EnterInv ==
    ASSUME GuestInv, TypeOK', FixedInv', NEW c \in Chip, NEW n \in Line, Accepts(c, n),
           handlers' = Append(handlers, [chip |-> c, line |-> n, at |-> "work"]),
           ~ ei',
           isr'[c] = isr[c] \cup {n},
           c = Slave => isr'[Master] = isr[Master] \cup {SLAVE},
           c = Master => isr'[Slave] = isr[Slave]
    PROVE  GuestInv'
<1> DEFINE h == [chip |-> c, line |-> n, at |-> "work"]  N == Len(handlers)
<1>1. /\ ei /\ n \notin isr[c]
      /\ c = Master => n # SLAVE
      /\ \A i \in DOMAIN handlers : Over(h, handlers[i])
  BY AcceptedIsOver
<1>2. HandlersInv /\ InServiceIsAtWork BY DEF GuestInv
<1>3. \A i \in DOMAIN handlers : handlers[i].at = "work" BY <1>1, <1>2, AllAtWork
<1>4. handlers \in Seq(HandlerType) BY <1>2 DEF HandlersInv
<1>5. h \in HandlerType /\ h.chip = c /\ h.line = n /\ h.at = "work" BY DEF HandlerType
<1>6. handlers' = Append(handlers, h) OBVIOUS
<1> HIDE DEF h, N
<1>7. /\ handlers' \in Seq(HandlerType)
      /\ Len(handlers') = N + 1 /\ N \in Nat
      /\ DOMAIN handlers' = 1 .. N + 1 /\ DOMAIN handlers = 1 .. N
      /\ \A i \in 1 .. N : handlers'[i] = handlers[i]
      /\ handlers'[N + 1] = h
  BY <1>4, <1>5, <1>6, AppendFacts DEF N
<1>8. ASSUME NEW i \in 1 .. N + 1 PROVE i \in 1 .. N \/ i = N + 1 BY <1>7
<1>9. ASSUME NEW i \in 1 .. N PROVE i \in 1 .. N + 1 BY <1>7
<1>10. N + 1 \in 1 .. N + 1 BY <1>7
<1>11. HandlersInv'
  <2>1. ASSUME NEW i \in DOMAIN handlers'
        PROVE  /\ handlers'[i].chip = Master => handlers'[i].line # SLAVE
               /\ handlers'[i].at = "work"
    <3>1. CASE i \in 1 .. N BY <1>2, <1>3, <1>7, <3>1 DEF HandlersInv
    <3>2. CASE i = N + 1 BY <1>1, <1>5, <1>7, <3>2
    <3> QED BY <1>7, <1>8, <2>1, <3>1, <3>2
  <2>2. ASSUME NEW i \in DOMAIN handlers', NEW j \in DOMAIN handlers', i < j
        PROVE  Over(handlers'[j], handlers'[i])
    <3>1. i \in 1 .. N BY <1>7, <2>2
    <3>2. CASE j \in 1 .. N BY <1>2, <1>7, <2>2, <3>1, <3>2 DEF HandlersInv
    <3>3. CASE j = N + 1 BY <1>1, <1>7, <3>1, <3>3
    <3> QED BY <1>7, <1>8, <3>2, <3>3
  <2> QED BY <1>7, <2>1, <2>2 DEF HandlersInv
<1>12. ASSUME NEW d, NEW m PROVE m \in Working(d)' <=> m \in Working(d) \/ (d = c /\ m = n)
  <2>1. ASSUME m \in Working(d)' PROVE m \in Working(d) \/ (d = c /\ m = n)
    <3>1. PICK i \in 1 .. N + 1 : /\ handlers'[i].chip = d /\ handlers'[i].at = "work"
                                  /\ handlers'[i].line = m
      BY <1>7, <2>1, WorkingNext
    <3>2. CASE i \in 1 .. N
      <4>1. handlers'[i] = handlers[i] /\ i \in DOMAIN handlers BY <1>7, <3>2
      <4> QED BY <3>1, <4>1, WorkingFact
    <3>3. CASE i = N + 1 BY <1>5, <1>7, <3>1, <3>3
    <3> QED BY <1>8, <3>2, <3>3
  <2>2. ASSUME m \in Working(d) PROVE m \in Working(d)'
    <3>1. PICK i \in 1 .. N : /\ handlers[i].chip = d /\ handlers[i].at = "work"
                              /\ handlers[i].line = m
      BY <1>7, <2>2, WorkingFact
    <3>2. handlers'[i] = handlers[i] /\ i \in DOMAIN handlers' BY <1>7, <1>9
    <3> QED BY <3>1, <3>2, WorkingNext
  <2>3. ASSUME d = c, m = n PROVE m \in Working(d)'
    <3>1. N + 1 \in DOMAIN handlers' BY <1>7, <1>10
    <3> QED BY <1>5, <1>7, <2>3, <3>1, WorkingNext
  <2> QED BY <2>1, <2>2, <2>3
<1>13. Working(c)' = Working(c) \cup {n} BY <1>12
<1>14. ASSUME NEW d \in Chip, d # c PROVE Working(d)' = Working(d)
  <2>1. \A m : m \in Working(d)' <=> m \in Working(d) BY <1>12, <1>14
  <2> QED BY <2>1
<1>15. /\ ~ \E i \in DOMAIN handlers : handlers[i].at = "ended"
       /\ ~ \E i \in DOMAIN handlers' : handlers'[i].at = "ended"
  BY <1>3, <1>5, <1>7, <1>8
<1>16. InServiceIsAtWork'
  <2>1. CASE c = Master
    <3>1. isr'[Master] \ {SLAVE} = Working(Master)'
      BY <1>1, <1>2, <1>13, <2>1 DEF InServiceIsAtWork
    <3>2. Working(Slave)' = Working(Slave) /\ isr'[Slave] = isr[Slave]
      BY <1>14, <2>1, InputLines
    <3>3. SLAVE \in isr'[Master] <=> SLAVE \in isr[Master] BY <1>1, <2>1
    <3> QED BY <1>2, <1>15, <3>1, <3>2, <3>3 DEF InServiceIsAtWork
  <2>2. CASE c = Slave
    <3>1. isr'[Slave] = Working(Slave)' BY <1>2, <1>13, <2>2 DEF InServiceIsAtWork
    <3>2. isr'[Master] \ {SLAVE} = Working(Master)'
      BY <1>2, <1>14, <2>2, InputLines DEF InServiceIsAtWork
    <3>3. SLAVE \in isr'[Master] /\ Working(Slave)' # {} BY <1>13, <2>2
    <3> QED BY <3>1, <3>2, <3>3 DEF InServiceIsAtWork
  <2> QED BY <2>1, <2>2 DEF Chip
<1> QED BY <1>11, <1>16 DEF GuestInv

LEMMA ServedInv == ASSUME GuestInv, Served PROVE GuestInv'
<1>1. PicIrq /\ TypeOK BY DEF Served, GuestInv
<1>2. TypeOK' BY <1>1, PicIrqType
<1>3. FixedInv' BY <1>1 DEF PicIrq, GuestInv, FixedInv
<1>4. ASSUME NEW c \in Chip, NEW n \in Line, Accepts(c, n)
      PROVE  /\ handlers' = Append(handlers, [chip |-> c, line |-> n, at |-> "work"])
             /\ ~ ei'
  <2> DEFINE irq == CHOOSE irq \in Chip \X Line : Accepts(irq[1], irq[2])
  <2>1. \E e \in Chip \X Line : Accepts(e[1], e[2])
    <3>1. <<c, n>> \in Chip \X Line /\ <<c, n>>[1] = c /\ <<c, n>>[2] = n OBVIOUS
    <3> QED BY <1>4, <3>1
  <2>2. irq \in Chip \X Line /\ Accepts(irq[1], irq[2]) BY <2>1
  <2> HIDE DEF irq
  <2>3. irq[1] = c /\ irq[2] = n BY <1>4, <2>2, AcceptsOne
  <2>4. handlers' = Append(handlers, [chip |-> irq[1], line |-> irq[2], at |-> "work"])
    BY <1>4 DEF Served, irq
  <2>5. handlers' = Append(handlers, [chip |-> c, line |-> n, at |-> "work"]) BY <2>3, <2>4
  <2>6. handlers' # handlers
    <3>1. handlers \in Seq(HandlerType) /\ [chip |-> c, line |-> n, at |-> "work"] \in HandlerType
      BY DEF GuestInv, HandlersInv, HandlerType
    <3>2. Len(handlers') = Len(handlers) + 1 /\ Len(handlers) \in Nat
      BY <2>5, <3>1, AppendFacts
    <3> QED BY <3>2
  <2> QED BY <2>5, <2>6 DEF Served
<1>5. isr \in [Chip -> SUBSET Line] BY <1>1 DEF TypeOK
<1>6. CASE PicIrqSlave
  <2>1. PICK n \in Line :
            /\ AcceptsSlave(n)
            /\ isr' = [isr EXCEPT ![Master] = @ \cup {SLAVE}, ![Slave] = @ \cup {n}]
    BY <1>6 DEF PicIrqSlave
  <2>2. Accepts(Slave, n) BY <2>1, InputLines DEF Accepts
  <2>3. isr'[Slave] = isr[Slave] \cup {n} /\ isr'[Master] = isr[Master] \cup {SLAVE}
    BY <1>5, <2>1, InputLines
  <2> QED BY <1>2, <1>3, <1>4, <2>2, <2>3, EnterInv, InputLines
<1>7. CASE PicIrqMaster
  <2>1. PICK n \in Line : AcceptsMaster(n) /\ isr' = [isr EXCEPT ![Master] = @ \cup {n}]
    BY <1>7 DEF PicIrqMaster
  <2>2. Accepts(Master, n) BY <2>1 DEF Accepts
  <2>3. isr'[Master] = isr[Master] \cup {n} /\ isr'[Slave] = isr[Slave]
    BY <1>5, <2>1, InputLines
  <2> QED BY <1>2, <1>3, <1>4, <2>2, <2>3, EnterInv, InputLines
<1>8. CASE PicIrqNone
  <2>1. /\ ~ \E c \in Chip, n \in Line : Accepts(c, n)
        /\ UNCHANGED <<isr, ei>>
    BY <1>8 DEF PicIrqNone
  <2>2. handlers' = handlers BY <2>1 DEF Served
  <2> QED BY <1>2, <1>3, <2>1, <2>2, SameHandlers
<1> QED BY <1>1, <1>6, <1>7, <1>8 DEF PicIrq

-----------------------------------------------------------------------------
(***************************************************************************)
(* A handler ends its interrupt and returns                                *)
(***************************************************************************)

\* A handler that the running one has interrupted
Below(c, n) ==
    \E i \in 1 .. Len(handlers) - 1 : handlers[i].chip = c /\ handlers[i].line = n

LEMMA WorkingSplit ==
    ASSUME HandlersInv, handlers # << >>, NEW c, NEW n
    PROVE  n \in Working(c) <=> Below(c, n) \/ (Top.at = "work" /\ Top.chip = c /\ Top.line = n)
<1> DEFINE N == Len(handlers)
<1>1. /\ N \in Nat \ {0} /\ DOMAIN handlers = 1 .. N
      /\ \A i \in 1 .. N - 1 : handlers[i].at = "work"
  BY TopFacts
<1>2. Top = handlers[N] BY DEF Top
<1>3. Below(c, n) <=> \E i \in 1 .. N - 1 : handlers[i].chip = c /\ handlers[i].line = n
  BY DEF Below
<1> HIDE DEF N
<1>4. \A i : i \in 1 .. N <=> i \in 1 .. N - 1 \/ i = N BY <1>1
<1> QED BY <1>1, <1>2, <1>3, <1>4, WorkingFact

\* After the running handler has done its work, or has returned
LEMMA WorkingAfter ==
    ASSUME HandlersInv, handlers # << >>, NEW c, NEW n,
           \/ \E place \in {"ended", "return"} : GoTo(place)
           \/ handlers' = SubSeq(handlers, 1, Len(handlers) - 1)
    PROVE  n \in Working(c)' <=> Below(c, n)
<1> DEFINE N == Len(handlers)
<1>1. /\ N \in Nat \ {0} /\ DOMAIN handlers = 1 .. N
      /\ \A i \in 1 .. N - 1 : handlers[i].at = "work"
  BY TopFacts
<1>2. Below(c, n) <=> \E i \in 1 .. N - 1 : handlers[i].chip = c /\ handlers[i].line = n
  BY DEF Below
<1>3. handlers \in Seq(HandlerType) BY DEF HandlersInv
<1>4. CASE \E place \in {"ended", "return"} : GoTo(place)
  <2>1. /\ DOMAIN handlers' = 1 .. N
        /\ \A i \in 1 .. N - 1 : handlers'[i] = handlers[i]
        /\ handlers'[N].at # "work"
    BY <1>1, <1>4, GoToFacts
  <2> HIDE DEF N
  <2>2. \A i : i \in 1 .. N <=> i \in 1 .. N - 1 \/ i = N BY <1>1
  <2> QED BY <1>1, <1>2, <2>1, <2>2, WorkingNext
<1>5. CASE handlers' = SubSeq(handlers, 1, N - 1)
  <2>1. DOMAIN handlers' = 1 .. N - 1 /\ \A i \in 1 .. N - 1 : handlers'[i] = handlers[i]
    BY <1>3, <1>5, FrontFacts
  <2> HIDE DEF N
  <2> QED BY <1>1, <1>2, <2>1, WorkingNext
<1> QED BY <1>4, <1>5

\* The lines below the running handler are of lower priority than its own.
LEMMA BelowIsLower ==
    ASSUME HandlersInv, handlers # << >>, NEW c, NEW n, Below(c, n)
    PROVE  /\ c \in Chip /\ n \in Line
           /\ c = Slave /\ Top.chip = Slave => Top.line < n
           /\ c = Master /\ Top.chip = Master => Top.line < n
           /\ c = Master /\ Top.chip = Slave => SLAVE < n
           /\ c = Slave /\ Top.chip = Master => Top.line < SLAVE
<1> DEFINE N == Len(handlers)
<1>1. PICK i \in 1 .. N - 1 : handlers[i].chip = c /\ handlers[i].line = n BY DEF Below
<1>2. N \in Nat \ {0} /\ DOMAIN handlers = 1 .. N /\ handlers[i] \in HandlerType BY <1>1, TopFacts
<1>3. i \in DOMAIN handlers /\ N \in DOMAIN handlers /\ i < N BY <1>1, <1>2
<1>4. Over(Top, handlers[i]) BY <1>3 DEF HandlersInv, Top
<1>5. c \in Chip /\ n \in Line BY <1>1, <1>2 DEF HandlerType
<1> QED BY <1>1, <1>4, <1>5, InputLines DEF Over, MasterLine

\* A non-specific EOI
LEMMA EoiFacts ==
    ASSUME GuestInv, NEW c \in Chip, isr[c] # {}, OCW2(c, NonSpecificEoi, 0)
    PROVE  /\ TypeOK' /\ FixedInv' /\ ei' = ei
           /\ isr' = [isr EXCEPT ![c] = @ \ {First(c, isr[c])}]
           /\ First(c, isr[c]) \in isr[c]
           /\ \A m \in isr[c] : First(c, isr[c]) =< m
<1>1. TypeOK /\ FixedInv BY DEF GuestInv
<1>2. TypeOK' BY <1>1, OCW2Type, InputLines
<1>3. ~ NonSpecificEoi.specific /\ NonSpecificEoi.eoi /\ ~ NonSpecificEoi.rotate
  BY DEF NonSpecificEoi
<1>4. /\ isr' = [isr EXCEPT ![c] = @ \ {First(c, isr[c])}]
      /\ pry' = [pry EXCEPT ![c] = @]
      /\ UNCHANGED <<smm, ei>>
  BY <1>3 DEF OCW2
<1>5. pry' = pry BY <1>1, <1>4 DEF TypeOK
<1>6. FixedInv' BY <1>1, <1>4, <1>5 DEF FixedInv
<1>7. isr[c] \in SUBSET Line /\ pry[c] \in Line BY <1>1 DEF TypeOK
<1>8. /\ First(c, isr[c]) \in isr[c]
      /\ \A m \in isr[c] : Rank(c, First(c, isr[c])) =< Rank(c, m)
  BY <1>7, FirstIsHighest
<1>9. \A m \in Line : Rank(c, m) = m BY RankZero
<1>10. \A m \in isr[c] : First(c, isr[c]) =< m BY <1>7, <1>8, <1>9
<1> QED BY <1>2, <1>4, <1>6, <1>8, <1>10

\* The running handler changes its place; the order of the handlers stays.
LEMMA GoToInv ==
    ASSUME HandlersInv, handlers # << >>, NEW place \in {"ended", "return"}, GoTo(place),
           place = "ended" => Top.chip = Slave, ~ ei'
    PROVE  /\ HandlersInv'
           /\ (\E i \in DOMAIN handlers' : handlers'[i].at = "ended") <=> place = "ended"
<1> DEFINE N == Len(handlers)
<1>1. /\ handlers' \in Seq(HandlerType) /\ Len(handlers') = N
      /\ DOMAIN handlers' = DOMAIN handlers
      /\ \A i \in 1 .. N - 1 : handlers'[i] = handlers[i]
      /\ \A i \in DOMAIN handlers : /\ handlers'[i].chip = handlers[i].chip
                                    /\ handlers'[i].line = handlers[i].line
      /\ handlers'[N].at = place
  BY GoToFacts
<1>2. /\ N \in Nat \ {0} /\ DOMAIN handlers = 1 .. N
      /\ \A i \in 1 .. N - 1 : handlers[i].at = "work"
      /\ Top = handlers[N]
  BY TopFacts DEF Top
<1> HIDE DEF N
<1>3. \A i : i \in 1 .. N <=> i \in 1 .. N - 1 \/ i = N BY <1>2
<1>4. \A i \in 1 .. N - 1 : handlers'[i].at = "work" BY <1>1, <1>2
<1>5. \A i, j \in 1 .. N : Over(handlers'[j], handlers'[i]) <=> Over(handlers[j], handlers[i])
  BY <1>1, <1>2 DEF Over, MasterLine
<1>6. \A i \in 1 .. N : handlers'[i].chip = Master => handlers'[i].line # SLAVE
  BY <1>1, <1>2 DEF HandlersInv
<1>7. \A i \in 1 .. N : handlers'[i].at = "ended" => handlers'[i].chip = Slave
  BY <1>1, <1>2, <1>3, <1>4
<1>8. \A i \in 1 .. N : handlers'[i].at # "work" => i = N BY <1>3, <1>4
<1>9. \A i, j \in 1 .. N : i < j => Over(handlers'[j], handlers'[i])
  BY <1>2, <1>5 DEF HandlersInv
<1>10. HandlersInv' BY <1>1, <1>2, <1>6, <1>7, <1>8, <1>9 DEF HandlersInv
<1>11. N \in 1 .. N BY <1>2
<1> QED BY <1>1, <1>2, <1>3, <1>4, <1>10, <1>11

\* The EOI of a handler at work ends its own interrupt.
LEMMA EndOnChipInv == ASSUME GuestInv, EndOnChip PROVE GuestInv'
<1>0. HandlersInv /\ InServiceIsAtWork /\ handlers # << >> /\ TypeOK
  BY DEF GuestInv, EndOnChip
<1>t. PICK c \in Chip, l \in Line : Top.chip = c /\ Top.line = l
  BY <1>0, TopFacts DEF HandlerType
<1> DEFINE f == First(c, isr[c])
<1>1. /\ Top.at = "work" /\ ~ ei
      /\ OCW2(c, NonSpecificEoi, 0)
      /\ GoTo(IF c = Slave THEN "ended" ELSE "return")
  BY <1>t DEF EndOnChip
<1>2. l \in Nat BY PicAssumption DEF Line
<1>3. l \in Working(c) BY <1>0, <1>1, WorkingSplit, <1>t
<1>4. l \in isr[c] BY <1>0, <1>2, <1>3 DEF InServiceIsAtWork, Chip
<1>5. /\ TypeOK' /\ FixedInv' /\ ei' = ei
      /\ isr' = [isr EXCEPT ![c] = @ \ {f}]
      /\ f \in isr[c]
      /\ \A m \in isr[c] : f =< m
  BY <1>1, <1>2, <1>4, EoiFacts
<1>6. isr \in [Chip -> SUBSET Line] BY <1>0 DEF TypeOK
<1>7. f \in Nat /\ f \in Line BY <1>2, <1>5, <1>6, PicAssumption DEF Line
<1>8. \A d, n : Below(d, n) => n \in Working(d) BY <1>0, WorkingSplit, <1>t
<1>9. \A i \in DOMAIN handlers : handlers[i].at = "work"
  <2>1. \A i \in 1 .. Len(handlers) - 1 : handlers[i].at = "work" BY <1>0, TopFacts
  <2>2. DOMAIN handlers = 1 .. Len(handlers) /\ Len(handlers) \in Nat BY <1>0, TopFacts
  <2> QED BY <1>1, <2>1, <2>2 DEF Top
<1> HIDE DEF f
<1>10. ~ Below(c, l)
  <2> SUFFICES ASSUME Below(c, l) PROVE FALSE OBVIOUS
  <2>1. l < l BY <1>0, <1>2, BelowIsLower, <1>t DEF Chip
  <2> QED BY <1>2, <2>1
<1>11. f = l
  <2> SUFFICES ASSUME f # l PROVE FALSE OBVIOUS
  <2>1. f < l BY <1>2, <1>4, <1>5, <1>7
  <2>2. CASE f \in Working(c)
    <3>1. Below(c, f) BY <1>0, <2>2, WorkingSplit, <1>t
    <3>2. l < f BY <1>0, <1>2, <3>1, BelowIsLower, <1>t DEF Chip
    <3> QED BY <1>2, <1>7, <2>1, <3>2
  <2>3. CASE f \notin Working(c)
    <3>1. c = Master /\ f = SLAVE
      BY <1>0, <1>2, <1>5, <2>3 DEF InServiceIsAtWork, Chip
    <3>2. Working(Slave) # {} BY <1>0, <1>5, <1>9, <3>1 DEF InServiceIsAtWork
    <3>3. PICK m : m \in Working(Slave) BY <3>2
    <3>4. Below(Slave, m) BY <1>0, <3>1, <3>3, WorkingSplit, <1>t, InputLines
    <3>5. l < SLAVE BY <1>0, <3>1, <3>4, BelowIsLower, <1>t
    <3> QED BY <1>2, <1>7, <2>1, <3>1, <3>5
  <2> QED BY <2>2, <2>3
<1> DEFINE place == IF c = Slave THEN "ended" ELSE "return"
<1>12. /\ HandlersInv'
       /\ (\E i \in DOMAIN handlers' : handlers'[i].at = "ended") <=> place = "ended"
  BY <1>0, <1>1, <1>5, GoToInv, <1>t
<1>13. \A d, n : n \in Working(d)' <=> Below(d, n) BY <1>0, <1>1, WorkingAfter
<1>14. Working(c)' = Working(c) \ {l}
  <2>1. \A n : n \in Working(c) <=> Below(c, n) \/ n = l
    BY <1>0, <1>1, WorkingSplit, <1>t
  <2>2. \A n : n \in Working(c)' <=> Below(c, n) BY <1>13
  <2>3. \A n : n \in Working(c)' <=> n \in Working(c) /\ n # l
    BY <1>10, <2>1, <2>2
  <2> QED BY <2>3
<1>15. ASSUME NEW d, d # c PROVE Working(d)' = Working(d)
  <2>1. \A n : n \in Working(d) <=> Below(d, n) BY <1>0, <1>15, WorkingSplit, <1>t
  <2> QED BY <1>13, <2>1
<1>16. InServiceIsAtWork'
  <2>1. CASE c = Master
    <3>1. isr'[Master] = isr[Master] \ {l} /\ isr'[Slave] = isr[Slave]
      BY <1>5, <1>6, <1>11, <2>1, InputLines
    <3>2. l # SLAVE BY <1>0, <1>3, <2>1 DEF InServiceIsAtWork
    <3>3. Working(Slave)' = Working(Slave) BY <1>15, <2>1, InputLines
    <3>4. ~ \E i \in DOMAIN handlers' : handlers'[i].at = "ended"
      BY <1>12, <2>1, InputLines
    <3>5. isr'[Master] \ {SLAVE} = Working(Master)'
      <4>1. isr[Master] \ {SLAVE} = Working(Master) BY <1>0 DEF InServiceIsAtWork
      <4>2. Working(Master)' = Working(Master) \ {l} BY <1>14, <2>1
      <4> QED BY <3>1, <4>1, <4>2
    <3>6. SLAVE \in isr'[Master] <=> Working(Slave) # {}
      BY <1>0, <1>9, <3>1, <3>2 DEF InServiceIsAtWork
    <3>7. isr'[Slave] = Working(Slave)' BY <1>0, <3>1, <3>3 DEF InServiceIsAtWork
    <3> QED BY <3>3, <3>4, <3>5, <3>6, <3>7 DEF InServiceIsAtWork
  <2>2. CASE c = Slave
    <3>1. isr'[Slave] = isr[Slave] \ {l} /\ isr'[Master] = isr[Master]
      BY <1>5, <1>6, <1>11, <2>2, InputLines
    <3>2. Working(Master)' = Working(Master) BY <1>15, <2>2, InputLines
    <3>3. \E i \in DOMAIN handlers' : handlers'[i].at = "ended" BY <1>12, <2>2
    <3>4. SLAVE \in isr[Master] BY <1>0, <1>3, <2>2 DEF InServiceIsAtWork
    <3>5. isr'[Slave] = Working(Slave)'
      <4>1. Working(Slave)' = Working(Slave) \ {l} BY <1>14, <2>2
      <4> QED BY <1>0, <3>1, <4>1 DEF InServiceIsAtWork
    <3>6. isr'[Master] \ {SLAVE} = Working(Master)'
      BY <1>0, <3>1, <3>2 DEF InServiceIsAtWork
    <3> QED BY <3>1, <3>3, <3>4, <3>5, <3>6 DEF InServiceIsAtWork
  <2> QED BY <1>2, <2>1, <2>2 DEF Chip
<1> QED BY <1>5, <1>12, <1>16 DEF GuestInv

\* The second EOI, on the master, ends the line of the slave.
LEMMA EndOnMasterInv == ASSUME GuestInv, EndOnMaster PROVE GuestInv'
<1>0. HandlersInv /\ InServiceIsAtWork /\ handlers # << >> /\ TypeOK /\ FixedInv
  BY DEF GuestInv, EndOnMaster
<1>1. Top.at = "ended" /\ GoTo("return") BY DEF EndOnMaster
<1>2. /\ Len(handlers) \in DOMAIN handlers
      /\ \A i \in 1 .. Len(handlers) - 1 : handlers[i].at = "work"
  BY <1>0, TopFacts
<1>3. Top.chip = Slave /\ ~ ei BY <1>0, <1>1, <1>2 DEF HandlersInv, Top
<1>4. SLAVE \in isr[Master] BY <1>0, <1>1, <1>2 DEF InServiceIsAtWork, Top
<1>5. \A c, n : n \in Working(c) <=> Below(c, n) BY <1>0, <1>1, WorkingSplit
<1>6. \A c, n : n \in Working(c)' <=> Below(c, n) BY <1>0, <1>1, WorkingAfter
<1>7. \A c : Working(c)' = Working(c) BY <1>5, <1>6
<1>8. /\ TypeOK' /\ FixedInv' /\ ei' = ei
      /\ isr'[Slave] = isr[Slave]
      /\ isr'[Master] \ {SLAVE} = isr[Master] \ {SLAVE}
      /\ SLAVE \in isr'[Master] <=> isr[Slave] # {}
  <2>1. CASE isr[Slave] = {}
    <3> DEFINE f == First(Master, isr[Master])
    <3>1. OCW2(Master, NonSpecificEoi, 0) BY <2>1 DEF EndOnMaster, MasterIsDone
    <3>2. /\ TypeOK' /\ FixedInv' /\ ei' = ei
          /\ isr' = [isr EXCEPT ![Master] = @ \ {f}]
          /\ f \in isr[Master]
          /\ \A m \in isr[Master] : f =< m
      BY <1>4, <3>1, EoiFacts, InputLines
    <3> HIDE DEF f
    <3>3. isr \in [Chip -> SUBSET Line] BY <1>0 DEF TypeOK
    <3>4. f \in Nat /\ SLAVE \in Nat BY <3>2, <3>3, InputLines, PicAssumption DEF Line
    <3>5. f = SLAVE
      <4> SUFFICES ASSUME f # SLAVE PROVE FALSE OBVIOUS
      <4>1. f \in Working(Master) BY <1>0, <3>2 DEF InServiceIsAtWork
      <4>2. Below(Master, f) BY <1>5, <4>1
      <4>3. SLAVE < f BY <1>0, <1>3, <4>2, BelowIsLower
      <4> QED BY <1>4, <3>2, <3>4, <4>3
    <3>6. isr'[Master] = isr[Master] \ {SLAVE} /\ isr'[Slave] = isr[Slave]
      BY <3>2, <3>3, <3>5, InputLines
    <3> QED BY <2>1, <3>2, <3>6
  <2>2. CASE isr[Slave] # {}
    <3>1. UNCHANGED vars BY <2>2 DEF EndOnMaster, MasterIsDone
    <3>2. TypeOK' BY <1>0, <3>1 DEF TypeOK, vars
    <3>3. FixedInv' BY <1>0, <3>1 DEF FixedInv, vars
    <3>4. isr' = isr /\ ei' = ei BY <3>1 DEF vars
    <3> QED BY <1>4, <2>2, <3>2, <3>3, <3>4
  <2> QED BY <2>1, <2>2
<1>9. HandlersInv' /\ ~ \E i \in DOMAIN handlers' : handlers'[i].at = "ended"
  BY <1>0, <1>1, <1>3, <1>8, GoToInv
<1>10. InServiceIsAtWork'
  <2>1. isr[Slave] = Working(Slave) /\ isr[Master] \ {SLAVE} = Working(Master)
    BY <1>0 DEF InServiceIsAtWork
  <2> QED BY <1>7, <1>8, <1>9, <2>1 DEF InServiceIsAtWork
<1> QED BY <1>8, <1>9, <1>10 DEF GuestInv

LEMMA IretInv == ASSUME GuestInv, Iret PROVE GuestInv'
<1> DEFINE N == Len(handlers)
<1>0. HandlersInv /\ InServiceIsAtWork /\ handlers # << >> /\ TypeOK /\ FixedInv
  BY DEF GuestInv, Iret
<1>1. /\ Top.at = "return"
      /\ handlers' = SubSeq(handlers, 1, N - 1)
      /\ SetFlag
  BY DEF Iret
<1>2. TypeOK' BY <1>0, <1>1 DEF SetFlag, chips, TypeOK
<1>3. FixedInv' BY <1>0, <1>1 DEF SetFlag, chips, FixedInv
<1>4. isr' = isr BY <1>1 DEF SetFlag, chips
<1>5. handlers \in Seq(HandlerType) BY <1>0 DEF HandlersInv
<1>6. /\ handlers' \in Seq(HandlerType)
      /\ Len(handlers') = N - 1 /\ N \in Nat \ {0}
      /\ DOMAIN handlers' = 1 .. N - 1 /\ DOMAIN handlers = 1 .. N
      /\ \A i \in 1 .. N - 1 : handlers'[i] = handlers[i]
  BY <1>0, <1>1, <1>5, FrontFacts
<1>7. \A i \in 1 .. N - 1 : handlers[i].at = "work" BY <1>0, TopFacts
<1>8. \A c, n : n \in Working(c) <=> Below(c, n) BY <1>0, <1>1, WorkingSplit
<1>9. \A c, n : n \in Working(c)' <=> Below(c, n) BY <1>0, <1>1, WorkingAfter
<1>10. \A c : Working(c)' = Working(c) BY <1>8, <1>9
<1>11. Top = handlers[N] BY DEF Top
<1> HIDE DEF N
<1>12. \A i \in 1 .. N - 1 : i \in 1 .. N BY <1>6
<1>13. \A i \in 1 .. N : i \in 1 .. N - 1 \/ i = N BY <1>6
<1>14. HandlersInv'
  <2>1. \A i \in 1 .. N - 1 : handlers[i].chip = Master => handlers[i].line # SLAVE
    BY <1>0, <1>6, <1>12 DEF HandlersInv
  <2>2. \A i, j \in 1 .. N - 1 : i < j => Over(handlers[j], handlers[i])
    BY <1>0, <1>6, <1>12 DEF HandlersInv
  <2> QED BY <1>6, <1>7, <2>1, <2>2 DEF HandlersInv
<1>15. InServiceIsAtWork'
  <2>1. ~ \E i \in DOMAIN handlers : handlers[i].at = "ended"
    BY <1>1, <1>6, <1>7, <1>11, <1>13
  <2>2. ~ \E i \in DOMAIN handlers' : handlers'[i].at = "ended" BY <1>6, <1>7
  <2> QED BY <1>0, <1>4, <1>10, <2>1, <2>2 DEF InServiceIsAtWork
<1> QED BY <1>2, <1>3, <1>14, <1>15 DEF GuestInv

LEMMA SetsFlagInv == ASSUME GuestInv, SetsFlag PROVE GuestInv'
<1>1. TypeOK /\ FixedInv /\ HandlersInv BY DEF GuestInv
<1>2. Cli \/ SetFlag BY DEF SetsFlag
<1>3. TypeOK' BY <1>1, <1>2 DEF Cli, SetFlag, chips, TypeOK
<1>4. FixedInv' BY <1>1, <1>2 DEF Cli, SetFlag, chips, FixedInv
<1>5. UNCHANGED <<handlers, isr>> BY <1>2 DEF Cli, SetFlag, chips, SetsFlag, guest
<1>6. \A i \in DOMAIN handlers : handlers[i].at = "work"
  <2>1. CASE handlers = << >> BY <2>1
  <2>2. CASE handlers # << >>
    <3>1. Top.at = "work" BY <2>2 DEF SetsFlag
    <3>2. /\ Len(handlers) \in Nat \ {0} /\ DOMAIN handlers = 1 .. Len(handlers)
          /\ \A i \in 1 .. Len(handlers) - 1 : handlers[i].at = "work"
      BY <1>1, <2>2, TopFacts
    <3> QED BY <3>1, <3>2 DEF Top
  <2> QED BY <2>1, <2>2
<1> QED BY <1>3, <1>4, <1>5, <1>6, SameHandlers

LEMMA TurnInv == ASSUME GuestInv, Turn PROVE GuestInv'
<1>1. TypeOK /\ FixedInv BY DEF GuestInv
<1>2. UNCHANGED <<chips, picmask, vsyncint, ei, exit, copy, handlers>> /\ phase' \in {"events", "head"}
  BY DEF Turn, CpuEnd, EventsEnd, guest
<1>3. TypeOK' BY <1>1, <1>2 DEF chips, TypeOK
<1>4. FixedInv' BY <1>1, <1>2 DEF chips, FixedInv
<1> QED BY <1>2, <1>3, <1>4, SameHandlers DEF chips

LEMMA RequestInv == ASSUME GuestInv, NEW irq \in IRQ, Request(irq) PROVE GuestInv'
<1>1. TypeOK /\ FixedInv BY DEF GuestInv
<1>2. SetTimer \/ (irq \in INPUTS /\ PicSetirq(irq[1], irq[2])) BY DEF Request, IRQ
<1>3. TypeOK'
  <2>1. CASE SetTimer BY <1>1, <2>1, InputLines DEF SetTimer, Raise, TypeOK
  <2>2. CASE irq \in INPUTS /\ PicSetirq(irq[1], irq[2])
    BY <1>1, <2>2, InputLines DEF PicSetirq, Raise, TypeOK
  <2> QED BY <1>2, <2>1, <2>2
<1>4. UNCHANGED <<handlers, isr, ei, pry, smm>> BY <1>2 DEF SetTimer, PicSetirq, Request
<1>5. FixedInv' BY <1>1, <1>4 DEF FixedInv
<1> QED BY <1>3, <1>4, <1>5, SameHandlers

LEMMA GuestInitInv == GuestInit => GuestInv
<1> SUFFICES ASSUME GuestInit PROVE GuestInv OBVIOUS
<1>1. TypeOK BY InitInv DEF GuestInit, IInv
<1>2. FixedInv BY DEF GuestInit, Init, FixedInv
<1>3. handlers = << >> /\ DOMAIN handlers = {} BY DEF GuestInit
<1>4. HandlersInv BY <1>3 DEF HandlersInv
<1>5. Working(Slave) = {} /\ Working(Master) = {} BY <1>3 DEF Working
<1>6. isr[Slave] = {} /\ isr[Master] = {} BY InputLines DEF GuestInit, Init
<1> QED BY <1>1, <1>2, <1>3, <1>4, <1>5, <1>6 DEF GuestInv, InServiceIsAtWork

-----------------------------------------------------------------------------
(***************************************************************************)
(* Theorems                                                                *)
(***************************************************************************)

\* The invariant holds in every reachable state.
THEOREM GuestInvariance == GuestSpec => []GuestInv
<1>1. GuestInit => GuestInv BY GuestInitInv
<1>2. GuestInv /\ [GuestNext]_gvars => GuestInv'
  <2> SUFFICES ASSUME GuestInv, [GuestNext]_gvars PROVE GuestInv' OBVIOUS
  <2>1. CASE Served BY <2>1, ServedInv
  <2>2. CASE Turn BY <2>2, TurnInv
  <2>3. CASE SetsFlag BY <2>3, SetsFlagInv
  <2>4. CASE EndOnChip BY <2>4, EndOnChipInv
  <2>5. CASE EndOnMaster BY <2>5, EndOnMasterInv
  <2>6. CASE Iret BY <2>6, IretInv
  <2>7. CASE \E irq \in IRQ : Request(irq) BY <2>7, RequestInv
  <2>8. CASE UNCHANGED gvars
    <3>1. UNCHANGED vars /\ UNCHANGED handlers BY <2>8 DEF gvars, guest
    <3>2. TypeOK' BY <3>1 DEF vars, TypeOK, GuestInv
    <3>3. FixedInv' BY <3>1 DEF vars, FixedInv, GuestInv
    <3> QED BY <3>1, <3>2, <3>3, SameHandlers DEF vars
  <2> QED BY <2>1, <2>2, <2>3, <2>4, <2>5, <2>6, <2>7, <2>8 DEF GuestNext
<1> QED BY <1>1, <1>2, PTL DEF GuestSpec

\* An EOI, which names no line, ends the interrupt of the handler that issues
\* it: the registers of the two chips always say what the guest is doing.
THEOREM EoiFindsItsInterrupt == GuestSpec => []InServiceIsAtWork
<1>1. GuestInv => InServiceIsAtWork BY DEF GuestInv
<1> QED BY <1>1, GuestInvariance, PTL

\* A line has one handler at work at most, so that the guest's stack is
\* bounded whatever the devices do.
THEOREM NestingIsBounded == GuestSpec => []BoundedNesting
<1>1. GuestInv => BoundedNesting
  <2> SUFFICES ASSUME GuestInv, NEW i \in DOMAIN handlers, NEW j \in DOMAIN handlers, i < j
               PROVE  <<handlers[i].chip, handlers[i].line>> # <<handlers[j].chip, handlers[j].line>>
    BY DEF BoundedNesting
  <2>1. handlers[i] \in HandlerType /\ handlers[j] \in HandlerType
    BY DEF GuestInv, HandlersInv
  <2>2. Over(handlers[j], handlers[i]) BY DEF GuestInv, HandlersInv
  <2> QED BY <2>1, <2>2, OverDiffers
<1> QED BY <1>1, GuestInvariance, PTL
=============================================================================
