---------------------------- MODULE NEventProofs ----------------------------
(***************************************************************************)
(* Proofs about NEvent, for every value of its constants.                  *)
(***************************************************************************)
EXTENDS NEvent, TLAPS

USE DEF items, queue, clocks

\* "waitevent" is in use only while nevent_execute runs, and nevent_progress
\* is reached only when the period is used up.
QueueInv ==
    /\ phase \notin {"execute", "callback"} => waitevents = 0 /\ pos = 1
    /\ phase = "callback" => pos =< waitevents
    /\ phase = "progress" => remclock =< 0

\* The inductive invariant.  Its parts need each other: an armed clock stays
\* non-negative because the period never reaches past it, and the period can
\* only be taken from the first event because the array is sorted.
IInv == TypeOK /\ NoDuplicates /\ LevelSorted /\ NoOversleep /\ QueueInv

-----------------------------------------------------------------------------
\* Division

LEMMA DivNat ==
    ASSUME NEW a \in Nat, NEW m \in Nat \ {0}
    PROVE  /\ a \div m \in Nat
           /\ m * (a \div m) =< a
           /\ a < m * (a \div m) + m
  OBVIOUS

LEMMA DivMonotone ==
    ASSUME NEW a \in Nat, NEW b \in Nat, NEW m \in Nat \ {0}, a =< b
    PROVE  a \div m =< b \div m
<1> DEFINE p == a \div m  q == b \div m
<1>1. p \in Nat /\ q \in Nat /\ m * p =< a /\ b < m * q + m
  BY DivNat
<1> HIDE DEF p, q
<1>2. ASSUME q + 1 =< p PROVE FALSE
  <2>1. m * (q + 1) =< m * p BY <1>1, <1>2
  <2>2. m * (q + 1) = m * q + m BY <1>1
  <2> QED BY <1>1, <2>1, <2>2
<1> QED BY <1>1, <1>2 DEF p, q

LEMMA QuotientMonotone ==
    ASSUME NEW a \in Int, NEW b \in Nat, NEW m \in Nat \ {0}, a =< b
    PROVE  /\ Quotient(a, m) \in Int /\ Quotient(b, m) \in Nat
           /\ Quotient(a, m) =< Quotient(b, m)
<1>1. b \div m \in Nat BY DivNat
<1>2. CASE a >= 0
  <2>1. a \in Nat BY <1>2
  <2>2. a \div m \in Nat /\ a \div m =< b \div m BY <2>1, DivNat, DivMonotone
  <2> QED BY <1>1, <1>2, <2>2 DEF Quotient
<1>3. CASE ~ a >= 0
  <2>1. -a \in Nat BY <1>3
  <2>2. (-a) \div m \in Nat BY <2>1, DivNat
  <2> QED BY <1>1, <1>3, <2>2 DEF Quotient
<1> QED BY <1>2, <1>3

LEMMA HalfNat ==
    ASSUME NEW m \in Nat \ {0}
    PROVE  m \div 2 \in Nat /\ m \div 2 < m
  OBVIOUS

\* Scaling keeps the order of clocks, and of a clock and a negative rest.
LEMMA ScaleMonotone ==
    ASSUME multiple \in MULTIPLE, NEW new \in MULTIPLE,
           NEW a \in Int, NEW b \in Nat, a =< b
    PROVE  /\ Scale(a, new) \in Int /\ Scale(b, new) \in Nat
           /\ Scale(a, new) =< Scale(b, new)
<1>1. multiple \in Nat \ {0} /\ new \in Nat \ {0} BY ClockAssumption
<1> DEFINE h == multiple \div 2
<1>2. h \in Nat BY <1>1, HalfNat
<1> HIDE DEF h
<1>3. a * new =< b * new /\ a * new \in Int /\ b * new \in Nat BY <1>1
<1>4. a * new + h \in Int /\ b * new + h \in Nat /\ a * new + h =< b * new + h
  BY <1>2, <1>3
<1> QED BY <1>1, <1>4, QuotientMonotone DEF Scale, h

LEMMA ScaleZero ==
    ASSUME multiple \in MULTIPLE, NEW new \in MULTIPLE
    PROVE  Scale(0, new) = 0
<1>1. multiple \in Nat \ {0} /\ new \in Nat \ {0} BY ClockAssumption
<1> DEFINE h == multiple \div 2  q == h \div multiple
<1>2. h \in Nat /\ h < multiple BY <1>1, HalfNat
<1>3. q \in Nat /\ multiple * q =< h BY <1>1, <1>2, DivNat
<1> HIDE DEF q, h
<1>4. q = 0
  <2>1. ASSUME 1 =< q PROVE FALSE
    <3>1. multiple * 1 =< multiple * q BY <1>1, <1>3, <2>1
    <3> QED BY <1>1, <1>2, <1>3, <3>1
  <2> QED BY <1>3, <2>1
<1>5. 0 * new + h = h /\ h >= 0 BY <1>1, <1>2
<1> QED BY <1>4, <1>5 DEF Scale, Quotient, q, h

\* What nevent_changeclock makes of two armed clocks, and of the period.
LEMMA ScaledClockMonotone ==
    ASSUME multiple \in MULTIPLE, NEW new \in MULTIPLE,
           NEW a \in Nat, NEW b \in Nat, a =< b
    PROVE  /\ ScaledClock(a, new) \in Nat /\ ScaledClock(b, new) \in Nat
           /\ ScaledClock(a, new) =< ScaledClock(b, new)
           /\ Scale(a, new) =< INTMAX => Scale(a, new) =< ScaledClock(b, new)
<1>1. /\ Scale(a, new) \in Nat /\ Scale(b, new) \in Nat
      /\ Scale(a, new) =< Scale(b, new)
  BY ScaleMonotone
<1>2. Scale(0, new) = 0 BY ScaleZero
<1>3. INTMAX \in Nat /\ 1 =< INTMAX BY ClockAssumption
<1> QED BY <1>1, <1>2, <1>3 DEF ScaledClock

-----------------------------------------------------------------------------
\* The array of armed ids

\* Removing an id leaves the other armed ids in order.
LEMMA OthersProperties ==
    ASSUME TypeOK, NoDuplicates, LevelSorted, NEW id \in ID
    PROVE  /\ OthersCount(id) \in Nat
           /\ Others(id) \in [1 .. OthersCount(id) -> ID]
           /\ \A i \in 1 .. OthersCount(id) :
                 /\ Others(id)[i] # id
                 /\ \E j \in 1 .. readyevents : Others(id)[i] = level[j]
           /\ \A i, j \in 1 .. OthersCount(id) :
                 /\ Others(id)[i] = Others(id)[j] => i = j
                 /\ i < j => clock[Others(id)[i]] =< clock[Others(id)[j]]
<1>1. CASE ~ Armed(id)
  BY <1>1 DEF TypeOK, NoDuplicates, LevelSorted, Others, OthersCount, Armed
<1>2. CASE Armed(id)
  <2> DEFINE p == CHOOSE i \in 1 .. readyevents : level[i] = id
             s == [i \in 1 .. readyevents - 1 |-> IF i < p THEN level[i] ELSE level[i + 1]]
  <2>1. p \in 1 .. readyevents /\ level[p] = id BY <1>2 DEF Armed
  <2>2. Others(id) = s /\ OthersCount(id) = readyevents - 1
    BY <1>2 DEF Others, OthersCount
  <2> HIDE DEF p
  <2>3. readyevents - 1 \in Nat BY <2>1 DEF TypeOK
  <2>4. s \in [1 .. readyevents - 1 -> ID] BY <2>1 DEF TypeOK
  <2>5. ASSUME NEW i \in 1 .. readyevents - 1
        PROVE  s[i] # id /\ \E j \in 1 .. readyevents : s[i] = level[j]
    <3>1. CASE i < p BY <2>1, <3>1 DEF TypeOK, NoDuplicates
    <3>2. CASE ~ i < p
      <4>1. s[i] = level[i + 1] /\ i + 1 \in 1 .. readyevents /\ i + 1 # p
        BY <2>1, <3>2 DEF TypeOK
      <4> QED BY <2>1, <4>1 DEF NoDuplicates
    <3> QED BY <3>1, <3>2
  <2>6. ASSUME NEW i \in 1 .. readyevents - 1, NEW j \in 1 .. readyevents - 1
        PROVE  /\ s[i] = s[j] => i = j
               /\ i < j => clock[s[i]] =< clock[s[j]]
    <3> DEFINE u == IF i < p THEN i ELSE i + 1
               v == IF j < p THEN j ELSE j + 1
    <3>1. /\ u \in 1 .. readyevents /\ v \in 1 .. readyevents
          /\ i < j => u < v
          /\ u = v => i = j
      BY <2>1 DEF TypeOK
    <3>2. s[i] = level[u] /\ s[j] = level[v] OBVIOUS
    <3> HIDE DEF s, u, v
    <3> QED BY <3>1, <3>2 DEF NoDuplicates, LevelSorted
  <2> HIDE DEF s
  <2> QED BY <2>2, <2>3, <2>4, <2>5, <2>6
<1> QED BY <1>1, <1>2

-----------------------------------------------------------------------------
\* Every action keeps the invariant

LEMMA InitInv == Init => IInv
  BY ClockAssumption DEF Init, IInv, TypeOK, NoDuplicates, LevelSorted, NoOversleep,
     QueueInv, Phases

LEMMA SetInv ==
    ASSUME IInv, NEW id \in ID, NEW ev \in EVENTCLOCK, NEW absolute \in BOOLEAN,
           NeventSet(id, ev, absolute)
    PROVE  IInv'
<1> DEFINE c == DueClock(id, ev, absolute)
           s == Others(id)
           n == OthersCount(id)
<1>1. c \in Nat
  BY ClockAssumption DEF IInv, TypeOK, NoOversleep, DueClock, Elapsed
<1>2. /\ n \in Nat /\ s \in [1 .. n -> ID]
      /\ \A i \in 1 .. n : s[i] # id /\ \E j \in 1 .. readyevents : s[i] = level[j]
      /\ \A i, j \in 1 .. n : /\ s[i] = s[j] => i = j
                              /\ i < j => clock[s[i]] =< clock[s[j]]
  BY OthersProperties DEF IInv
<1>3. PICK p \in 1 .. n + 1 :
          /\ IsPlace(s, n, p, c)
          /\ level' = Inserted(s, n, p, id)
          /\ readyevents' = n + 1
          /\ PeriodUntil(p, c)
  BY DEF NeventSet
<1>4. /\ clock' = [clock EXCEPT ![id] = c]
      /\ setevent' = [setevent EXCEPT ![id] = FALSE]
      /\ calls > 0 /\ calls' = calls - 1
      /\ phase \in {"io", "callback", "main"}
      /\ UNCHANGED <<waitevents, waitevent, pos, cpuclock, multiple, phase>>
  BY DEF NeventSet, Handler
<1> HIDE DEF c, s, n
<1>5. /\ level' \in [1 .. n + 1 -> ID]
      /\ \A i, j \in 1 .. n + 1 : /\ level'[i] = level'[j] => i = j
                                  /\ i < j => clock'[level'[i]] =< clock'[level'[j]]
      /\ \A i \in 1 .. n + 1 : level'[i] = id \/ \E j \in 1 .. n : level'[i] = s[j]
      /\ level'[p] = id
  <2> DEFINE o(i) == IF i < p THEN i ELSE i - 1
  <2>1. level' \in [1 .. n + 1 -> ID] /\ level'[p] = id
    BY <1>2, <1>3 DEF Inserted
  <2>2. ASSUME NEW i \in 1 .. n + 1, i # p
        PROVE  o(i) \in 1 .. n /\ level'[i] = s[o(i)]
    BY <1>2, <1>3, <2>2 DEF Inserted
  <2>3. /\ clock'[id] = c
        /\ \A i \in 1 .. n : clock'[s[i]] = clock[s[i]] /\ clock[s[i]] \in Nat
    BY <1>2, <1>4 DEF IInv, TypeOK
  <2>4. \A i \in 1 .. n : i < p => clock[s[i]] =< c
    BY <1>2, <1>3 DEF IsPlace
  <2>5. \A i \in 1 .. n : i >= p => c =< clock[s[i]]
    <3> SUFFICES ASSUME NEW i \in 1 .. n, i >= p PROVE c =< clock[s[i]]
      OBVIOUS
    <3>1. p \in 1 .. n /\ c < clock[s[p]] /\ clock[s[p]] \in Nat
      BY <1>2, <1>3, <2>3 DEF IsPlace
    <3>2. clock[s[p]] =< clock[s[i]] BY <1>2, <3>1, <2>3
    <3> QED BY <1>1, <3>1, <3>2, <2>3
  <2>6. ASSUME NEW i \in 1 .. n + 1, NEW j \in 1 .. n + 1
        PROVE  /\ level'[i] = level'[j] => i = j
               /\ i < j => clock'[level'[i]] =< clock'[level'[j]]
    <3>1. CASE i = p /\ j = p BY <3>1
    <3>2. CASE i = p /\ j # p
      <4>1. o(j) \in 1 .. n /\ level'[j] = s[o(j)] BY <2>2, <3>2
      <4>2. i < j => o(j) >= p BY <1>2, <3>2
      <4> HIDE DEF o
      <4> QED BY <1>2, <2>1, <2>3, <2>5, <3>2, <4>1, <4>2
    <3>3. CASE i # p /\ j = p
      <4>1. o(i) \in 1 .. n /\ level'[i] = s[o(i)] BY <2>2, <3>3
      <4>2. i < j => o(i) < p BY <1>2, <3>3
      <4> HIDE DEF o
      <4> QED BY <1>2, <2>1, <2>3, <2>4, <3>3, <4>1, <4>2
    <3>4. CASE i # p /\ j # p
      <4>1. /\ o(i) \in 1 .. n /\ level'[i] = s[o(i)]
            /\ o(j) \in 1 .. n /\ level'[j] = s[o(j)]
        BY <2>2, <3>4
      <4>2. (o(i) = o(j) => i = j) /\ (i < j => o(i) < o(j)) BY <1>2, <3>4
      <4> HIDE DEF o
      <4> QED BY <1>2, <2>3, <4>1, <4>2
    <3> QED BY <3>1, <3>2, <3>3, <3>4
  <2>7. \A i \in 1 .. n + 1 : level'[i] = id \/ \E j \in 1 .. n : level'[i] = s[j]
    BY <2>1, <2>2
  <2> QED BY <2>1, <2>6, <2>7
<1>6. baseclock' \in Nat /\ remclock' \in Int /\ remclock' =< baseclock'
  BY <1>1, <1>3 DEF IInv, TypeOK, NoOversleep, PeriodUntil
<1>7. ASSUME NEW i \in 1 .. n + 1 PROVE baseclock' =< clock'[level'[i]]
  <2>1. CASE p = 1
    <3>1. baseclock' = c /\ clock'[level'[1]] = c
      BY <1>3, <1>4, <1>5, <2>1 DEF PeriodUntil, IInv, TypeOK
    <3>2. i = 1 \/ clock'[level'[1]] =< clock'[level'[i]]
      <4>1. 1 \in 1 .. n + 1 /\ (i # 1 => 1 < i) BY <1>2
      <4> QED BY <1>5, <4>1
    <3> QED BY <1>1, <3>1, <3>2
  <2>2. CASE p # 1
    <3>1. baseclock' = baseclock BY <1>3, <2>2 DEF PeriodUntil
    <3>2. 1 \in 1 .. n /\ clock[s[1]] =< c BY <1>2, <1>3, <2>2 DEF IsPlace
    <3>3. \A j \in 1 .. n : baseclock =< clock[s[j]]
      BY <1>2 DEF IInv, NoOversleep
    <3>4. \A j \in 1 .. n : clock[s[j]] \in Nat BY <1>2 DEF IInv, TypeOK
    <3>5. CASE level'[i] = id
      <4>1. clock'[id] = c BY <1>4 DEF IInv, TypeOK
      <4>2. baseclock =< clock[s[1]] /\ clock[s[1]] \in Nat BY <3>2, <3>3, <3>4
      <4>3. baseclock \in Nat BY DEF IInv, TypeOK
      <4> QED BY <1>1, <3>1, <3>2, <3>5, <4>1, <4>2, <4>3
    <3>6. CASE \E j \in 1 .. n : level'[i] = s[j]
      BY <1>2, <1>4, <3>1, <3>3, <3>6 DEF IInv, TypeOK
    <3>7. level'[i] = id \/ \E j \in 1 .. n : level'[i] = s[j] BY <1>5
    <3> QED BY ONLY <3>5, <3>6, <3>7
  <2> QED BY <2>1, <2>2
<1>8. TypeOK'
  BY <1>1, <1>2, <1>3, <1>4, <1>5, <1>6, ClockAssumption DEF IInv, TypeOK
<1>9. NoDuplicates' /\ LevelSorted'
  BY <1>3, <1>4, <1>5 DEF IInv, NoDuplicates, LevelSorted
<1>10. NoOversleep' BY <1>3, <1>6, <1>7 DEF NoOversleep
<1> QED BY <1>4, <1>8, <1>9, <1>10 DEF IInv, QueueInv

LEMMA ResetInv ==
    ASSUME IInv, NEW id \in ID, NeventReset(id)
    PROVE  IInv'
<1>1. /\ OthersCount(id) \in Nat
      /\ Others(id) \in [1 .. OthersCount(id) -> ID]
      /\ \A i \in 1 .. OthersCount(id) :
            \E j \in 1 .. readyevents : Others(id)[i] = level[j]
      /\ \A i, j \in 1 .. OthersCount(id) :
            /\ Others(id)[i] = Others(id)[j] => i = j
            /\ i < j => clock[Others(id)[i]] =< clock[Others(id)[j]]
  BY OthersProperties DEF IInv
<1>2. /\ level' = Others(id) /\ readyevents' = OthersCount(id)
      /\ calls > 0 /\ calls' = calls - 1
      /\ UNCHANGED <<waitevents, waitevent, pos, clock, setevent, cpuclock, baseclock,
                     remclock, multiple, phase>>
  BY DEF NeventReset, Handler
<1>3. TypeOK' BY <1>1, <1>2, ClockAssumption DEF IInv, TypeOK
<1>4. NoDuplicates' /\ LevelSorted'
  BY <1>1, <1>2 DEF IInv, NoDuplicates, LevelSorted
<1>5. NoOversleep' BY <1>1, <1>2 DEF IInv, NoOversleep
<1> QED BY <1>2, <1>3, <1>4, <1>5 DEF IInv, QueueInv

LEMMA ChangeClockInv ==
    ASSUME IInv, NEW new \in MULTIPLE, ChangeClock(new),
           phase' \in Phases, calls' \in 0 .. MAXCALLS,
           QueueInv'
    PROVE  IInv'
<1>1. /\ multiple' = new
      /\ UNCHANGED <<readyevents, level, waitevents, waitevent, pos, setevent, cpuclock>>
  BY DEF ChangeClock
<1>2. CASE readyevents = 0
  <2>1. UNCHANGED <<clock, baseclock, remclock>> BY <1>2 DEF ChangeClock
  <2> QED
    BY <1>1, <1>2, <2>1 DEF IInv, TypeOK, NoDuplicates, LevelSorted, NoOversleep
<1>3. CASE readyevents # 0
  <2>1. clock' = [id \in ID |-> IF Armed(id) THEN ScaledClock(clock[id], new)
                                ELSE clock[id]]
    BY <1>3 DEF ChangeClock
  <2>2. \A i \in 1 .. readyevents :
            level[i] \in ID /\ clock'[level[i]] = ScaledClock(clock[level[i]], new)
    BY <2>1 DEF Armed, IInv, TypeOK
  <2>3. clock' \in [ID -> Nat]
    BY <2>1, ScaledClockMonotone DEF IInv, TypeOK
  <2>4. \A i, j \in 1 .. readyevents : i < j => clock'[level[i]] =< clock'[level[j]]
    <3> SUFFICES ASSUME NEW i \in 1 .. readyevents, NEW j \in 1 .. readyevents, i < j
                 PROVE  clock'[level[i]] =< clock'[level[j]]
      OBVIOUS
    <3>1. /\ clock[level[i]] \in Nat /\ clock[level[j]] \in Nat
          /\ clock[level[i]] =< clock[level[j]]
      BY DEF IInv, TypeOK, LevelSorted
    <3>2. multiple \in MULTIPLE BY DEF IInv, TypeOK
    <3>3. ScaledClock(clock[level[i]], new) =< ScaledClock(clock[level[j]], new)
      BY <3>1, <3>2, ScaledClockMonotone
    <3> QED BY <2>2, <3>3
  <2>5. /\ baseclock' \in Nat /\ remclock' \in Int /\ remclock' =< baseclock'
        /\ \A i \in 1 .. readyevents : baseclock' =< clock'[level[i]]
    <3>1. CASE baseclock = remclock
      <4>1. baseclock' = clock'[level[1]] /\ remclock' = clock'[level[1]]
        BY <1>3, <3>1 DEF ChangeClock
      <4>2. 1 \in 1 .. readyevents BY <1>3 DEF IInv, TypeOK
      <4>3. clock'[level[1]] \in Nat BY <2>2, <2>3, <4>2
      <4>4. ASSUME NEW i \in 1 .. readyevents PROVE clock'[level[1]] =< clock'[level[i]]
        <5>1. CASE i = 1 BY <4>3, <5>1
        <5>2. CASE i # 1 BY <2>4, <4>2, <5>2 DEF IInv, TypeOK
        <5> QED BY <5>1, <5>2
      <4> QED BY <4>1, <4>3, <4>4
    <3>2. CASE baseclock # remclock
      <4>1. /\ baseclock' = Scale(baseclock, new) /\ remclock' = Scale(remclock, new)
            /\ baseclock' =< INTMAX
        BY <1>3, <3>2 DEF ChangeClock
      <4>2. baseclock' \in Nat /\ remclock' \in Int /\ remclock' =< baseclock'
        BY <4>1, ScaleMonotone DEF IInv, TypeOK, NoOversleep
      <4>3. ASSUME NEW i \in 1 .. readyevents PROVE baseclock' =< clock'[level[i]]
        <5>1. clock[level[i]] \in Nat /\ baseclock =< clock[level[i]]
          BY DEF IInv, TypeOK, NoOversleep
        <5>2. Scale(baseclock, new) =< ScaledClock(clock[level[i]], new)
          BY <4>1, <5>1, ScaledClockMonotone DEF IInv, TypeOK
        <5> QED BY <2>2, <4>1, <5>2
      <4> QED BY <4>2, <4>3
    <3> QED BY <3>1, <3>2
  <2>6. TypeOK' BY <1>1, <2>3, <2>5 DEF IInv, TypeOK
  <2>7. NoDuplicates' /\ LevelSorted' /\ NoOversleep'
    BY <1>1, <2>4, <2>5 DEF IInv, NoDuplicates, LevelSorted, NoOversleep
  <2> QED BY <2>6, <2>7 DEF IInv
<1> QED BY <1>2, <1>3

\* A selection of the places of the array, in ascending order, is again a
\* sorted array without duplicates.
LEMMA SelectionSorted ==
    ASSUME IInv, NEW K \in SUBSET (1 .. readyevents), NEW n \in Nat, NEW f \in Ascending(K, n)
    PROVE  /\ \A i \in 1 .. n : f[i] \in K /\ level[f[i]] \in ID
           /\ \A i, j \in 1 .. n : i # j => level[f[i]] # level[f[j]]
           /\ \A i, j \in 1 .. n : i < j => clock[level[f[i]]] =< clock[level[f[j]]]
<1>1. \A i \in 1 .. n : f[i] \in K /\ f[i] \in 1 .. readyevents /\ level[f[i]] \in ID
  BY DEF Ascending, IInv, TypeOK
<1>2. ASSUME NEW i \in 1 .. n, NEW j \in 1 .. n, i < j
      PROVE  /\ f[i] < f[j] /\ f[i] # f[j]
             /\ level[f[i]] # level[f[j]]
             /\ clock[level[f[i]]] =< clock[level[f[j]]]
  <2>1. f[i] < f[j] BY <1>2 DEF Ascending
  <2>2. f[i] \in 1 .. readyevents /\ f[j] \in 1 .. readyevents BY <1>1
  <2> QED BY <2>1, <2>2 DEF IInv, NoDuplicates, LevelSorted
<1>3. ASSUME NEW i \in 1 .. n, NEW j \in 1 .. n, i # j
      PROVE  level[f[i]] # level[f[j]]
  <2>1. i < j \/ j < i BY <1>3
  <2> QED BY <1>2, <2>1
<1> QED BY <1>1, <1>2, <1>3

LEMMA ProgressInv ==
    ASSUME IInv, NeventProgress
    PROVE  IInv'
<1> DEFINE expired == {i \in 1 .. readyevents : Expired(level[i])}
           waiting == 1 .. readyevents \ expired
           called  == {i \in expired : ~ setevent[level[i]]}
           ends    == {MAXCLOCK} \cup {clock[level[i]] - baseclock : i \in waiting}
<1>1. /\ phase = "progress" /\ phase' = "execute"
      /\ cpuclock' = (cpuclock + baseclock) % WRAP
      /\ clock' = [id \in ID |-> clock[id] - IF Armed(id) THEN baseclock ELSE 0]
      /\ setevent' = [id \in ID |-> setevent[id] \/ \E i \in expired : level[i] = id]
      /\ UNCHANGED <<multiple, pos, calls>>
  BY DEF NeventProgress
<1>2. PICK n \in 0 .. readyevents : \E f \in Ascending(waiting, n) :
          readyevents' = n /\ level' = [i \in 1 .. n |-> level[f[i]]]
  BY Zenon DEF NeventProgress
<1>2f. PICK f \in Ascending(waiting, n) :
          readyevents' = n /\ level' = [i \in 1 .. n |-> level[f[i]]]
  BY <1>2
<1>3. PICK m \in 0 .. readyevents : \E g \in Ascending(called, m) :
          /\ waitevents' = waitevents + m
          /\ waitevent' = [i \in 1 .. waitevents + m |->
                              IF i =< waitevents THEN waitevent[i]
                              ELSE level[g[i - waitevents]]]
  BY Zenon DEF NeventProgress
<1>3g. PICK g \in Ascending(called, m) :
          /\ waitevents' = waitevents + m
          /\ waitevent' = [i \in 1 .. waitevents + m |->
                              IF i =< waitevents THEN waitevent[i]
                              ELSE level[g[i - waitevents]]]
  BY <1>3
<1>4. PICK end \in ends : (\A e \in ends : end =< e) /\ NextPeriod(end)
  BY Zenon DEF NeventProgress
<1>5. waitevents = 0 /\ pos = 1 /\ readyevents \in Nat
  BY <1>1 DEF IInv, QueueInv, TypeOK
<1>6. n \in Nat /\ m \in Nat BY <1>5
<1>7. waiting \in SUBSET (1 .. readyevents) /\ called \in SUBSET (1 .. readyevents)
  OBVIOUS
<1>8. \A i \in 1 .. readyevents :
          /\ level[i] \in ID /\ Armed(level[i])
          /\ clock[level[i]] \in Nat /\ baseclock =< clock[level[i]]
  BY DEF IInv, TypeOK, NoOversleep, Armed
<1>9. \A i \in waiting : clock[level[i]] - baseclock > 0
  BY <1>8 DEF Expired, IInv, TypeOK
<1>10. /\ \A i \in 1 .. n : f[i] \in waiting /\ level[f[i]] \in ID
       /\ \A i, j \in 1 .. n : i # j => level[f[i]] # level[f[j]]
       /\ \A i, j \in 1 .. n : i < j => clock[level[f[i]]] =< clock[level[f[j]]]
  BY <1>6, <1>7, SelectionSorted
<1>11. /\ \A i \in 1 .. m : level[g[i]] \in ID
       /\ \A i, j \in 1 .. m : i # j => level[g[i]] # level[g[j]]
  BY <1>6, <1>7, SelectionSorted
<1> HIDE DEF expired, waiting, called
<1>12. clock' \in [ID -> Nat]
  <2> SUFFICES ASSUME NEW id \in ID
               PROVE  clock[id] - (IF Armed(id) THEN baseclock ELSE 0) \in Nat
    BY <1>1
  <2>1. Armed(id) => baseclock =< clock[id] BY DEF Armed, IInv, NoOversleep
  <2> QED BY <2>1 DEF IInv, TypeOK
<1>13. \A i \in 1 .. n : /\ level'[i] = level[f[i]]
                         /\ clock'[level'[i]] = clock[level[f[i]]] - baseclock
  <2> SUFFICES ASSUME NEW i \in 1 .. n
               PROVE  /\ level'[i] = level[f[i]]
                      /\ clock'[level'[i]] = clock[level[f[i]]] - baseclock
    OBVIOUS
  <2>1. level'[i] = level[f[i]] /\ f[i] \in 1 .. readyevents BY <1>2f, <1>7, <1>10
  <2>2. level[f[i]] \in ID /\ Armed(level[f[i]]) BY <1>8, <2>1
  <2> QED BY <1>1, <2>1, <2>2
<1>14. end \in Nat /\ baseclock' = end /\ remclock' = remclock + end
  BY <1>4, <1>7, <1>8, <1>9, ClockAssumption DEF NextPeriod, IInv, TypeOK
<1>15. remclock' \in Int /\ remclock' =< baseclock'
  BY <1>1, <1>14 DEF IInv, QueueInv, TypeOK
<1>16. \A i \in 1 .. n : end =< clock[level[f[i]]] - baseclock
  BY <1>4, <1>10
<1> HIDE DEF ends
<1>17. level' \in [1 .. n -> ID] /\ readyevents' = n
  BY <1>2f, <1>10
<1>18. waitevents' = m /\ \A i \in 1 .. m : waitevent'[i] = level[g[i]]
  BY <1>3g, <1>5, <1>6
<1>19. waitevent' \in [1 .. m -> ID]
  BY <1>3g, <1>5, <1>6, <1>11
<1>20. cpuclock' \in 0 .. WRAP - 1
  BY <1>1, ClockAssumption DEF IInv, TypeOK
<1>21. setevent' \in [ID -> BOOLEAN]
  BY <1>1 DEF IInv, TypeOK
<1>22. TypeOK'
  BY <1>1, <1>6, <1>12, <1>14, <1>15, <1>17, <1>18, <1>19, <1>20, <1>21
  DEF IInv, TypeOK, Phases
<1>23. NoDuplicates'
  <2>1. \A i, j \in 1 .. n : i # j => level'[i] # level'[j] BY <1>10, <1>13
  <2>2. \A i, j \in 1 .. m : i # j => waitevent'[i] # waitevent'[j] BY <1>11, <1>18
  <2> QED BY <1>17, <1>18, <2>1, <2>2 DEF NoDuplicates
<1>24. LevelSorted'
  <2> SUFFICES ASSUME NEW i \in 1 .. n, NEW j \in 1 .. n, i < j
               PROVE  clock'[level'[i]] =< clock'[level'[j]]
    BY <1>17 DEF LevelSorted
  <2>1. clock[level[f[i]]] =< clock[level[f[j]]] BY <1>10
  <2>2. clock[level[f[i]]] \in Nat /\ clock[level[f[j]]] \in Nat
    BY <1>7, <1>8, <1>10
  <2>3. /\ clock'[level'[i]] = clock[level[f[i]]] - baseclock
        /\ clock'[level'[j]] = clock[level[f[j]]] - baseclock
    BY <1>13
  <2>4. baseclock \in Nat BY DEF IInv, TypeOK
  <2> QED BY <2>1, <2>2, <2>3, <2>4
<1>25. NoOversleep' BY <1>13, <1>14, <1>15, <1>16, <1>17 DEF NoOversleep
<1>26. QueueInv' BY <1>1 DEF QueueInv
<1> QED BY <1>22, <1>23, <1>24, <1>25, <1>26 DEF IInv

LEMMA ResetStateInv ==
    ASSUME IInv, Reset
    PROVE  IInv'
  BY ClockAssumption DEF Reset, ResetState, IInv, TypeOK, NoDuplicates, LevelSorted,
     NoOversleep, QueueInv, Phases

\* The steps that leave the items alone and only use up, or cut short, the
\* clocks of the period.
LEMMA CpuInv ==
    ASSUME IInv, NeventForceExit \/ PicIrq \/ Instruction \/ Halt \/ InstructionEnd \/ LoopAgain
    PROVE  IInv'
<1>1. /\ UNCHANGED <<readyevents, level, clock, waitevents, waitevent, pos, setevent, cpuclock,
                     multiple>>
      /\ phase \notin {"execute", "progress"}
      /\ phase' = "callback" => phase = "callback"
      /\ phase' \in Phases \ {"execute"}
  BY DEF NeventForceExit, PicIrq, Instruction, Halt, InstructionEnd, LoopAgain, Handler,
         IInv, TypeOK, Phases
<1>2. phase = "callback" => phase' = "callback"
  BY DEF NeventForceExit, PicIrq, Instruction, Halt, InstructionEnd, LoopAgain, Handler
<1>3. calls' \in 0 .. MAXCALLS
  BY ClockAssumption
  DEF NeventForceExit, PicIrq, Instruction, Halt, InstructionEnd, LoopAgain, Handler,
      IInv, TypeOK
<1>4. /\ baseclock' \in Nat /\ baseclock' =< baseclock
      /\ remclock' \in Int /\ remclock' =< baseclock'
      /\ phase' = "progress" => remclock' =< 0
  <2>1. CASE NeventForceExit BY <2>1 DEF NeventForceExit, Handler, IInv, TypeOK, NoOversleep
  <2>2. CASE PicIrq
    <3>1. PICK c \in COST \cup {0} : remclock' = remclock - c BY <2>2 DEF PicIrq
    <3>2. c \in Nat BY ClockAssumption
    <3> QED BY <2>2, <3>1, <3>2 DEF PicIrq, IInv, TypeOK, NoOversleep
  <2>3. CASE Instruction
    <3>1. PICK c \in COST : remclock' = remclock - c BY <2>3 DEF Instruction
    <3>2. c \in Nat BY ClockAssumption
    <3> QED BY <2>3, <3>1, <3>2 DEF Instruction, IInv, TypeOK, NoOversleep
  <2>4. CASE Halt BY <2>4 DEF Halt, IInv, TypeOK, NoOversleep
  <2>5. CASE InstructionEnd BY <2>5 DEF InstructionEnd, IInv, TypeOK, NoOversleep
  <2>6. CASE LoopAgain BY <2>6 DEF LoopAgain, IInv, TypeOK, NoOversleep
  <2> QED BY <2>1, <2>2, <2>3, <2>4, <2>5, <2>6
<1>5. TypeOK' BY <1>1, <1>3, <1>4 DEF IInv, TypeOK
<1>6. NoDuplicates' /\ LevelSorted' BY <1>1 DEF IInv, NoDuplicates, LevelSorted
<1>7. NoOversleep'
  <2>1. \A i \in 1 .. readyevents : clock[level[i]] \in Nat /\ baseclock =< clock[level[i]]
    BY DEF IInv, TypeOK, NoOversleep
  <2>2. baseclock \in Nat BY DEF IInv, TypeOK
  <2> QED BY <1>1, <1>4, <2>1, <2>2 DEF NoOversleep
<1>8. QueueInv' BY <1>1, <1>2, <1>4 DEF IInv, QueueInv
<1> QED BY <1>5, <1>6, <1>7, <1>8 DEF IInv

\* nevent_execute itself does not touch the armed events.
LEMMA ExecuteInv ==
    ASSUME IInv, RunCallback \/ CallbackReturn \/ ExecuteEnd
    PROVE  IInv'
<1>1. /\ UNCHANGED <<readyevents, level, clock, cpuclock, baseclock, remclock, multiple>>
      /\ phase' \in {"callback", "execute", "async"}
  BY DEF RunCallback, CallbackReturn, ExecuteEnd
<1>2. calls' \in 0 .. MAXCALLS
  BY ClockAssumption DEF RunCallback, CallbackReturn, ExecuteEnd, IInv, TypeOK
<1>3. /\ waitevents' \in Nat /\ waitevent' \in [1 .. waitevents' -> ID]
      /\ pos' \in Nat \ {0} /\ setevent' \in [ID -> BOOLEAN]
      /\ \A i, j \in 1 .. waitevents' : waitevent'[i] = waitevent'[j] => i = j
      /\ QueueInv'
  <2>1. CASE RunCallback
    BY <2>1 DEF RunCallback, IInv, TypeOK, NoDuplicates, QueueInv
  <2>2. CASE CallbackReturn
    <3>1. /\ phase = "callback" /\ phase' = "execute"
          /\ pos' = pos + 1 /\ waitevents' = waitevents /\ waitevent' = waitevent
          /\ setevent' = [setevent EXCEPT ![waitevent[pos]] = FALSE]
      BY <2>2 DEF CallbackReturn
    <3> QED BY <3>1 DEF IInv, TypeOK, NoDuplicates, QueueInv
  <2>3. CASE ExecuteEnd
    BY <2>3 DEF ExecuteEnd, IInv, TypeOK, NoDuplicates, QueueInv
  <2> QED BY <2>1, <2>2, <2>3
<1>4. TypeOK' BY <1>1, <1>2, <1>3 DEF IInv, TypeOK, Phases
<1>5. NoDuplicates' /\ LevelSorted' /\ NoOversleep'
  BY <1>1, <1>3 DEF IInv, NoDuplicates, LevelSorted, NoOversleep
<1> QED BY <1>3, <1>4, <1>5 DEF IInv

\* The two places where the clock multiplier changes.
LEMMA MultiplierInv ==
    ASSUME IInv, AsyncCpu \/ \E new \in MULTIPLE : ChangeClockByIo(new)
    PROVE  IInv'
<1>1. CASE AsyncCpu
  <2>1. phase = "async" /\ phase' = "main" /\ calls' = MAXCALLS
    BY <1>1 DEF AsyncCpu
  <2>2. phase' \in Phases /\ calls' \in 0 .. MAXCALLS
    BY <2>1, ClockAssumption DEF Phases
  <2>3. CASE \E new \in MULTIPLE : ChangeClock(new)
    <3>1. PICK new \in MULTIPLE : ChangeClock(new) BY <2>3
    <3>2. QueueInv' BY <2>1, <3>1 DEF ChangeClock, IInv, QueueInv
    <3> QED BY <2>2, <3>1, <3>2, ChangeClockInv
  <2>4. CASE UNCHANGED <<items, queue, setevent, cpuclock, clocks, multiple>>
    BY <2>1, <2>2, <2>4
    DEF IInv, TypeOK, NoDuplicates, LevelSorted, NoOversleep, QueueInv
  <2> QED BY <1>1, <2>3, <2>4 DEF AsyncCpu
<1>2. CASE \E new \in MULTIPLE : ChangeClockByIo(new)
  <2>1. PICK new \in MULTIPLE : ChangeClock(new) /\ Handler /\ phase = "io"
    BY <1>2 DEF ChangeClockByIo
  <2>2. QueueInv' BY <2>1 DEF ChangeClock, Handler, IInv, QueueInv
  <2>3. phase' \in Phases /\ calls' \in 0 .. MAXCALLS
    BY <2>1, ClockAssumption DEF Handler, IInv, TypeOK
  <2> QED BY <2>1, <2>2, <2>3, ChangeClockInv
<1> QED BY <1>1, <1>2

LEMMA NextInv ==
    ASSUME IInv, [Next]_vars
    PROVE  IInv'
<1>1. CASE \E id \in ID, ev \in EVENTCLOCK, absolute \in BOOLEAN : NeventSet(id, ev, absolute)
  BY <1>1, SetInv
<1>2. CASE \E id \in ID : NeventReset(id)
  BY <1>2, ResetInv
<1>3. CASE AsyncCpu \/ \E new \in MULTIPLE : ChangeClockByIo(new)
  BY <1>3, MultiplierInv
<1>4. CASE NeventForceExit \/ PicIrq \/ Instruction \/ Halt \/ InstructionEnd \/ LoopAgain
  BY <1>4, CpuInv
<1>5. CASE NeventProgress
  BY <1>5, ProgressInv
<1>6. CASE RunCallback \/ CallbackReturn \/ ExecuteEnd
  BY <1>6, ExecuteInv
<1>7. CASE Reset
  BY <1>7, ResetStateInv
<1>8. CASE UNCHANGED vars
  BY <1>8 DEF vars, IInv, TypeOK, NoDuplicates, LevelSorted, NoOversleep, QueueInv
<1> QED
  BY <1>1, <1>2, <1>3, <1>4, <1>5, <1>6, <1>7, <1>8 DEF Next, SchedulerCall

-----------------------------------------------------------------------------

\* The invariant holds in every reachable state.
THEOREM Invariance == Spec => []IInv
<1>1. Init => IInv BY InitInv
<1>2. IInv /\ [Next]_vars => IInv' BY NextInv
<1> QED BY <1>1, <1>2, PTL DEF Spec

\* Type correctness of the scheduler (nevent.c) for any number of events,
\* any delays and any CPU clock: no armed clock ever becomes negative.
THEOREM TypeCorrect == Spec => []TypeOK
<1>1. IInv => TypeOK BY DEF IInv
<1> QED BY <1>1, Invariance, PTL

\* nevent_set and nevent_progress never put an id twice into level[] or
\* waitevent[], whatever the drivers do.
THEOREM NeverDuplicated == Spec => []NoDuplicates
<1>1. IInv => NoDuplicates BY DEF IInv
<1> QED BY <1>1, Invariance, PTL

\* level[] is sorted by the time the events fall due, after every call of the
\* scheduler and every change of the CPU clock.
THEOREM AlwaysSorted == Spec => []LevelSorted
<1>1. IInv => LevelSorted BY DEF IInv
<1> QED BY <1>1, Invariance, PTL

\* The CPU never gets clocks past the first armed event.
THEOREM NeverOversleeps == Spec => []NoOversleep
<1>1. IInv => NoOversleep BY DEF IInv
<1> QED BY <1>1, Invariance, PTL

-----------------------------------------------------------------------------
(***************************************************************************)
(* The time of the machine                                                 *)
(***************************************************************************)

\* The remainder of a division is determined by its range.
LEMMA RemainderUnique ==
    ASSUME NEW n \in Nat \ {0}, NEW x \in Int, NEW q \in Int, NEW r \in 0 .. n - 1,
           x = n * q + r
    PROVE  x % n = r
<1> DEFINE p == x \div n  s == x % n
<1>1. p \in Int /\ s \in 0 .. n - 1 /\ x = n * p + s OBVIOUS
<1> HIDE DEF p, s
<1>2. n * (q - p) = s - r BY <1>1
<1>3. ASSUME q - p >= 1 PROVE FALSE
  <2>1. n * (q - p) >= n * 1 BY <1>1, <1>3
  <2> QED BY <1>1, <1>2, <2>1
<1>4. ASSUME p - q >= 1 PROVE FALSE
  <2>1. n * (p - q) >= n * 1 BY <1>1, <1>4
  <2>2. n * (p - q) = r - s BY <1>1, <1>2
  <2> QED BY <1>1, <2>1, <2>2
<1>5. p = q BY <1>1, <1>3, <1>4
<1>6. s = r BY <1>1, <1>5
<1> QED BY <1>6 DEF s

\* What was counted modulo n before a sum makes no difference after it.
LEMMA RemainderOfSum ==
    ASSUME NEW n \in Nat \ {0}, NEW a \in Int, NEW b \in Int
    PROVE  ((a % n) + b) % n = (a + b) % n
<1> DEFINE p == a \div n  r == a % n  y == a + b  q == y \div n  s == y % n
<1>1. /\ p \in Int /\ r \in 0 .. n - 1 /\ a = n * p + r
      /\ q \in Int /\ s \in 0 .. n - 1 /\ y = n * q + s
  OBVIOUS
<1>2. y = a + b OBVIOUS
<1> HIDE DEF p, r, q, s, y
<1>3. r + b = n * (q - p) + s /\ r + b \in Int /\ q - p \in Int BY <1>1, <1>2
<1>4. (r + b) % n = s BY <1>1, <1>3, RemainderUnique
<1> QED BY <1>4 DEF r, s, y

\* Every call of the scheduler leaves what has elapsed of the period alone.
LEMMA CallsKeepElapsed ==
    ASSUME IInv,
           \/ \E id \in ID, ev \in EVENTCLOCK, absolute \in BOOLEAN :
                 NeventSet(id, ev, absolute)
           \/ \E id \in ID : NeventReset(id)
           \/ NeventForceExit
    PROVE  Elapsed' = Elapsed /\ cpuclock' = cpuclock
<1> USE DEF IInv, TypeOK, Elapsed
<1>1. CASE \E id \in ID, ev \in EVENTCLOCK, absolute \in BOOLEAN :
              NeventSet(id, ev, absolute)
  <2>1. PICK id \in ID, ev \in EVENTCLOCK, absolute \in BOOLEAN :
            NeventSet(id, ev, absolute)
    BY <1>1
  <2> DEFINE c == DueClock(id, ev, absolute)
  <2>2. PICK p : PeriodUntil(p, c) BY <2>1 DEF NeventSet
  <2>3. c \in Int
    <3>1. ev \in Nat /\ clock[id] \in Nat BY ClockAssumption
    <3> QED BY <3>1 DEF DueClock
  <2> HIDE DEF c
  <2> QED BY <2>1, <2>2, <2>3 DEF NeventSet, PeriodUntil
<1>2. CASE \E id \in ID : NeventReset(id) BY <1>2 DEF NeventReset
<1>3. CASE NeventForceExit BY <1>3 DEF NeventForceExit
<1> QED BY <1>1, <1>2, <1>3

\* A new period starts where the old one ended, its overshoot included.
LEMMA ProgressKeepsNow == ASSUME IInv, NeventProgress PROVE Now' = Now
<1>1. cpuclock' = (cpuclock + baseclock) % WRAP BY DEF NeventProgress
<1>2. PICK end : NextPeriod(end) /\ end \in Int
  <2> DEFINE waiting == 1 .. readyevents \ {i \in 1 .. readyevents : Expired(level[i])}
             ends == {MAXCLOCK} \cup {clock[level[i]] - baseclock : i \in waiting}
  <2>1. PICK end \in ends : NextPeriod(end) BY Zenon DEF NeventProgress
  <2>2. end \in Int BY <2>1, ClockAssumption DEF IInv, TypeOK
  <2> QED BY <2>1, <2>2
<1>3. /\ WRAP \in Nat \ {0} /\ baseclock \in Int /\ remclock \in Int /\ cpuclock \in Int
  BY ClockAssumption DEF IInv, TypeOK
<1> DEFINE m == (cpuclock + baseclock) % WRAP
<1>4. m \in Int BY <1>3
<1>5. (m + (-remclock)) % WRAP = (cpuclock + baseclock + (-remclock)) % WRAP
  <2> DEFINE a == cpuclock + baseclock  b == -remclock
  <2>1. a \in Int /\ b \in Int BY <1>3
  <2> HIDE DEF a, b
  <2>2. ((a % WRAP) + b) % WRAP = (a + b) % WRAP BY <1>3, <2>1, RemainderOfSum
  <2> QED BY <2>2 DEF a, b
<1>6. cpuclock' = m BY <1>1
<1> HIDE DEF m
<1>7. cpuclock' + baseclock' - remclock' = m + (-remclock)
  <2>1. baseclock' = end /\ remclock' = remclock + end BY <1>2 DEF NextPeriod
  <2>2. m + end - (remclock + end) = m + (-remclock) BY <1>2, <1>3, <1>4
  <2> QED BY <1>6, <2>1, <2>2
<1>8. cpuclock + baseclock - remclock = cpuclock + baseclock + (-remclock) BY <1>3
<1> QED BY <1>5, <1>7, <1>8 DEF Now

\* The division of nevent_changeclock is off by less than one clock, upwards
\* by the half clock that is added first and, for a negative rest, by the
\* rounding towards zero.
LEMMA ScaleRounds ==
    ASSUME multiple \in MULTIPLE, NEW new \in MULTIPLE, NEW c \in Int
    PROVE  /\ Scale(c, new) \in Int
           /\ Scale(c, new) * multiple - c * new > (multiple \div 2) - multiple
           /\ Scale(c, new) * multiple - c * new < (multiple \div 2) + multiple
           /\ c >= 0 => Scale(c, new) * multiple - c * new =< multiple \div 2
<1> DEFINE m == multiple  h == m \div 2  x == c * new  a == x + h
<1>1. m \in Nat \ {0} /\ new \in Nat \ {0} BY ClockAssumption
<1>2. h \in Nat BY <1>1, HalfNat
<1>3. x \in Int /\ (c >= 0 => x >= 0) BY <1>1
<1> HIDE DEF h, x
<1>4. a \in Int /\ a = x + h BY <1>2, <1>3
<1>5. Scale(c, new) = Quotient(a, m) BY DEF Scale, a, x, h
<1> HIDE DEF a, m
<1>6. CASE a >= 0
  <2> DEFINE q == a \div m
  <2>1. q \in Nat /\ m * q =< a /\ a < m * q + m BY <1>1, <1>4, <1>6, DivNat
  <2>2. Quotient(a, m) = q BY <1>6 DEF Quotient
  <2> HIDE DEF q
  <2>3. q * m = m * q /\ m * q \in Int BY <1>1, <2>1
  <2>4. q * m - x > h - m /\ q * m - x =< h /\ q * m - x < h + m
    BY <1>1, <1>2, <1>3, <1>4, <2>1, <2>3
  <2> QED BY <1>5, <2>1, <2>2, <2>4 DEF h, x, m
<1>7. CASE a < 0
  <2> DEFINE b == -a  q == b \div m
  <2>1. b \in Nat /\ b = -a BY <1>4, <1>7
  <2> HIDE DEF b
  <2>2. q \in Nat /\ m * q =< b /\ b < m * q + m BY <1>1, <2>1, DivNat
  <2>3. Quotient(a, m) = -q BY <1>4, <1>7 DEF Quotient, b
  <2> HIDE DEF q
  <2>4. (-q) * m = -(m * q) /\ m * q \in Int BY <1>1, <2>2
  <2>5. (-q) * m - x > h - m /\ (-q) * m - x < h + m
    BY <1>1, <1>2, <1>3, <1>4, <2>1, <2>2, <2>4
  <2>6. ~ c >= 0 BY <1>2, <1>3, <1>4, <1>7
  <2> QED BY <1>5, <2>2, <2>3, <2>5, <2>6 DEF h, x, m
<1> QED BY <1>4, <1>6, <1>7

\* What has elapsed of the period is rounded at both of its ends.
LEMMA ChangeClockRounds ==
    ASSUME IInv, NEW new \in MULTIPLE, ChangeClock(new)
    PROVE  Rescaled
<1> SUFFICES ASSUME readyevents > 0
             PROVE  /\ cpuclock' = cpuclock
                    /\ Elapsed' * multiple - Elapsed * multiple' > -(2 * multiple)
                    /\ Elapsed' * multiple - Elapsed * multiple' < 2 * multiple
  BY DEF Rescaled
<1> DEFINE m == multiple  h == m \div 2
<1>1. /\ m \in Nat \ {0} /\ new \in Nat \ {0} /\ m \in MULTIPLE
      /\ baseclock \in Nat /\ remclock \in Int /\ level[1] \in ID
      /\ readyevents # 0
  BY ClockAssumption DEF IInv, TypeOK
<1>2. h \in Nat /\ h < m BY <1>1, HalfNat
<1>3. cpuclock' = cpuclock /\ multiple' = new BY DEF ChangeClock
<1>4. CASE baseclock = remclock
  <2>1. baseclock' = clock'[level[1]] /\ remclock' = clock'[level[1]]
    BY <1>1, <1>4 DEF ChangeClock
  <2>2. clock' = [id \in ID |-> IF Armed(id) THEN ScaledClock(clock[id], new)
                                ELSE clock[id]]
    BY <1>1 DEF ChangeClock
  <2>3. clock'[level[1]] \in Int
    <3>1. clock[level[1]] \in Nat BY <1>1 DEF IInv, TypeOK
    <3>2. ScaledClock(clock[level[1]], new) \in Nat BY <1>1, <3>1, ScaledClockMonotone
    <3> QED BY <1>1, <2>2, <3>1, <3>2
  <2>4. Elapsed = 0 /\ Elapsed' = 0
    <3>1. Elapsed' = clock'[level[1]] - clock'[level[1]] BY <2>1 DEF Elapsed
    <3> QED BY <1>1, <1>4, <2>3, <3>1 DEF Elapsed
  <2> QED BY <1>1, <1>3, <2>4
<1>5. CASE baseclock # remclock
  <2> DEFINE b == Scale(baseclock, new)  r == Scale(remclock, new)
             x == baseclock * new  y == remclock * new
             u == b * m  v == r * m
  <2>1. baseclock' = b /\ remclock' = r BY <1>1, <1>5 DEF ChangeClock
  <2>2. b \in Int /\ u - x > h - m /\ u - x =< h BY <1>1, ScaleRounds
  <2>3. r \in Int /\ v - y > h - m /\ v - y < h + m BY <1>1, ScaleRounds
  <2> HIDE DEF b, r, h
  <2>4. u \in Int /\ v \in Int /\ x \in Int /\ y \in Int BY <1>1, <2>2, <2>3
  <2>5. Elapsed' * m = u - v
    <3>1. Elapsed' = b - r BY <2>1 DEF Elapsed
    <3>2. (b - r) * m = b * m - r * m BY <1>1, <2>2, <2>3
    <3> QED BY <3>1, <3>2
  <2>6. Elapsed * new = x - y BY <1>1 DEF Elapsed
  <2> HIDE DEF x, y, u, v, m
  <2>7. (u - v) - (x - y) > -(2 * m) /\ (u - v) - (x - y) < 2 * m
    BY <1>1, <1>2, <2>2, <2>3, <2>4
  <2> QED BY <1>3, <2>5, <2>6, <2>7 DEF m
<1> QED BY <1>4, <1>5

\* One step for each way the clocks of the period can change
LEMMA StepMovesTime ==
    ASSUME IInv, [Next]_vars, phase \notin {"cpu", "irq"}, ~ ResetState
    PROVE  IF multiple' = multiple THEN Now' = Now ELSE Rescaled
<1>1. CASE \/ \E id \in ID, ev \in EVENTCLOCK, absolute \in BOOLEAN :
                 NeventSet(id, ev, absolute)
           \/ \E id \in ID : NeventReset(id)
           \/ NeventForceExit
  <2>1. Elapsed' = Elapsed /\ cpuclock' = cpuclock BY <1>1, CallsKeepElapsed
  <2>2. cpuclock + baseclock - remclock = cpuclock + Elapsed
    BY DEF IInv, TypeOK, Elapsed
  <2>3. IInv' BY NextInv
  <2>4. cpuclock' + baseclock' - remclock' = cpuclock' + Elapsed'
    BY <2>3 DEF IInv, TypeOK, Elapsed
  <2>5. multiple' = multiple BY <1>1 DEF NeventSet, NeventReset, NeventForceExit
  <2> QED BY <2>1, <2>2, <2>4, <2>5 DEF Now
<1>2. CASE AsyncCpu
  <2>1. CASE \E new \in MULTIPLE : ChangeClock(new)
    <3>1. PICK new \in MULTIPLE : ChangeClock(new) BY <2>1
    <3>2. Rescaled BY <3>1, ChangeClockRounds
    <3>3. multiple' # multiple BY <3>1 DEF ChangeClock
    <3> QED BY <3>2, <3>3
  <2>2. CASE UNCHANGED <<items, queue, setevent, cpuclock, clocks, multiple>>
    BY <2>2 DEF Now
  <2> QED BY <1>2, <2>1, <2>2 DEF AsyncCpu
<1>3. CASE \E new \in MULTIPLE : ChangeClockByIo(new)
  <2>1. PICK new \in MULTIPLE : ChangeClock(new) BY <1>3 DEF ChangeClockByIo
  <2>2. Rescaled BY <2>1, ChangeClockRounds
  <2>3. multiple' # multiple BY <2>1 DEF ChangeClock
  <2> QED BY <2>2, <2>3
<1>4. CASE PicIrq \/ Instruction \/ Halt BY <1>4 DEF PicIrq, Instruction, Halt
<1>5. CASE InstructionEnd \/ RunCallback \/ CallbackReturn \/ ExecuteEnd \/ LoopAgain
  BY <1>5 DEF InstructionEnd, RunCallback, CallbackReturn, ExecuteEnd, LoopAgain, Now
<1>6. CASE NeventProgress
  <2>1. multiple' = multiple BY <1>6 DEF NeventProgress
  <2> QED BY <1>6, <2>1, ProgressKeepsNow
<1>7. CASE Reset BY <1>7 DEF Reset
<1>8. CASE UNCHANGED vars BY <1>8 DEF vars, Now
<1> QED BY <1>1, <1>2, <1>3, <1>4, <1>5, <1>6, <1>7, <1>8 DEF Next, SchedulerCall

\* The time that the devices read is moved by the CPU alone, across every
\* period, forced exit and change of an event, whatever the width of CPU_CLOCK;
\* a change of the multiplier, to any other, rounds it by less than two clocks.
THEOREM CpuMovesTime == Spec => OnlyCpuMovesTime
<1>1. IInv /\ [Next]_vars =>
          [phase \notin {"cpu", "irq"} /\ ~ ResetState =>
              IF multiple' = multiple THEN Now' = Now ELSE Rescaled]_vars
  BY StepMovesTime
<1> QED BY <1>1, Invariance, PTL DEF Spec, OnlyCpuMovesTime

-----------------------------------------------------------------------------
(***************************************************************************)
(* What nevent_progress collects, nevent_execute calls                     *)
(***************************************************************************)

\* Removing an id loses no other.
LEMMA OthersComplete ==
    ASSUME TypeOK, NEW id \in ID, NEW j \in 1 .. readyevents, level[j] # id
    PROVE  \E i \in 1 .. OthersCount(id) : Others(id)[i] = level[j]
<1>1. CASE ~ Armed(id) BY <1>1 DEF Others, OthersCount
<1>2. CASE Armed(id)
  <2> DEFINE p == CHOOSE i \in 1 .. readyevents : level[i] = id
             s == [i \in 1 .. readyevents - 1 |-> IF i < p THEN level[i] ELSE level[i + 1]]
             i == IF j < p THEN j ELSE j - 1
  <2>1. p \in 1 .. readyevents /\ level[p] = id BY <1>2 DEF Armed
  <2>2. Others(id) = s /\ OthersCount(id) = readyevents - 1
    BY <1>2 DEF Others, OthersCount
  <2> HIDE DEF p
  <2>3. j # p BY <2>1
  <2>4. i \in 1 .. readyevents - 1 BY <2>1, <2>3 DEF TypeOK
  <2>5. s[i] = level[j]
    <3>1. CASE j < p BY <2>4, <3>1
    <3>2. CASE ~ j < p BY <2>1, <2>3, <2>4, <3>2 DEF TypeOK
    <3> QED BY <3>1, <3>2
  <2> QED BY <2>2, <2>4, <2>5
<1> QED BY <1>1, <1>2

\* nevent_set arms the one id, nevent_reset disarms the one id, and neither
\* moves the time or another clock.
LEMMA SetArms ==
    ASSUME IInv, NEW id \in ID, NEW ev \in EVENTCLOCK, NEW absolute \in BOOLEAN,
           NeventSet(id, ev, absolute)
    PROVE  /\ ArmedIds' = ArmedIds \cup {id}
           /\ clock' = [clock EXCEPT ![id] = DueClock(id, ev, absolute)]
           /\ setevent' = [setevent EXCEPT ![id] = FALSE]
           /\ Elapsed' = Elapsed
<1> DEFINE c == DueClock(id, ev, absolute)
           s == Others(id)
           n == OthersCount(id)
<1>1. PICK p \in 1 .. n + 1 :
          level' = Inserted(s, n, p, id) /\ readyevents' = n + 1 /\ PeriodUntil(p, c)
  BY DEF NeventSet
<1>2. /\ n \in Nat
      /\ \A i \in 1 .. n : \E j \in 1 .. readyevents : s[i] = level[j]
  BY OthersProperties DEF IInv
<1>3. \A j \in 1 .. readyevents : level[j] # id => \E i \in 1 .. n : s[i] = level[j]
  BY OthersComplete DEF IInv
<1>4. \A x : Armed(x) <=> \E j \in 1 .. readyevents : level[j] = x BY DEF Armed
<1> HIDE DEF c, s, n
<1>5. ASSUME NEW x \in ID PROVE Armed(x)' <=> x = id \/ Armed(x)
  <2>1. Armed(x)' <=> \E i \in 1 .. n + 1 : level'[i] = x BY <1>1 DEF Armed
  <2>2. level'[p] = id BY <1>1 DEF Inserted
  <2>3. ASSUME NEW i \in 1 .. n, s[i] = x PROVE \E k \in 1 .. n + 1 : level'[k] = x
    <3>1. CASE i < p
      <4>1. i \in 1 .. n + 1 /\ level'[i] = s[i] BY <1>1, <1>2, <3>1 DEF Inserted
      <4> QED BY <2>3, <4>1
    <3>2. CASE ~ i < p
      <4>1. i + 1 \in 1 .. n + 1 /\ ~ i + 1 < p /\ i + 1 # p /\ i + 1 - 1 = i
        BY <1>1, <1>2, <3>2
      <4>2. level'[i + 1] = s[i] BY <1>1, <4>1 DEF Inserted
      <4> QED BY <2>3, <4>1, <4>2
    <3> QED BY <3>1, <3>2
  <2>4. ASSUME NEW k \in 1 .. n + 1, k # p PROVE \E i \in 1 .. n : level'[k] = s[i]
    <3>1. CASE k < p BY <1>1, <1>2, <3>1 DEF Inserted
    <3>2. CASE ~ k < p BY <1>1, <1>2, <2>4, <3>2 DEF Inserted
    <3> QED BY <3>1, <3>2
  <2>5. x = id \/ Armed(x) => Armed(x)'
    <3>1. CASE x = id BY <1>1, <2>1, <2>2, <3>1
    <3>2. CASE x # id /\ Armed(x) BY <1>3, <1>4, <2>1, <2>3, <3>2
    <3> QED BY <3>1, <3>2
  <2>6. Armed(x)' => x = id \/ Armed(x)
    BY <1>2, <1>4, <2>1, <2>2, <2>4
  <2> QED BY <2>5, <2>6
<1>6. ArmedIds' = ArmedIds \cup {id} BY <1>5 DEF ArmedIds
<1>7. Elapsed' = Elapsed BY CallsKeepElapsed
<1> QED BY <1>6, <1>7 DEF NeventSet, c

\* See SetArms.
LEMMA ResetDisarms ==
    ASSUME IInv, NEW id \in ID, NeventReset(id)
    PROVE  ArmedIds' = ArmedIds \ {id} /\ Elapsed' = Elapsed
<1> DEFINE s == Others(id)
           n == OthersCount(id)
<1>1. level' = s /\ readyevents' = n /\ UNCHANGED <<baseclock, remclock>>
  BY DEF NeventReset
<1>2. \A i \in 1 .. n : s[i] # id /\ \E j \in 1 .. readyevents : s[i] = level[j]
  BY OthersProperties DEF IInv
<1>3. \A j \in 1 .. readyevents : level[j] # id => \E i \in 1 .. n : s[i] = level[j]
  BY OthersComplete DEF IInv
<1> HIDE DEF s, n
<1>4. ASSUME NEW x \in ID PROVE Armed(x)' <=> x # id /\ Armed(x)
  BY <1>1, <1>2, <1>3 DEF Armed
<1> QED BY <1>1, <1>4 DEF ArmedIds, Elapsed

\* An id with NEVENT_SETEVENT set is under way: it has been collected and not
\* called, it is due, and nevent_set has not armed it again.  What is under
\* way is in the order it fell due.
BatchInv ==
    /\ \A id \in ID : setevent[id] => id \in Batch /\ ~ Armed(id) /\ Remain(id) =< 0
    /\ \A i, j \in pos .. waitevents :
          i < j /\ setevent[waitevent[i]] /\ setevent[waitevent[j]] =>
              clock[waitevent[i]] =< clock[waitevent[j]]

\* The period and what is left of it are bounded.
BoundInv ==
    /\ baseclock =< INTMAX
    /\ remclock >= -(OVERSHOOT + 1)
    /\ phase = "cpu" => remclock > 0

\* The inductive invariant of the dispatch: the second part says what the flag
\* means between nevent_progress and the callback, and needs the first for the
\* order of the array that is collected from.
DispatchInv == IInv /\ BatchInv /\ BoundInv

\* Outside nevent_execute no event is under way.
LEMMA NothingUnderWay ==
    ASSUME IInv, BatchInv, phase \notin {"execute", "callback"} \/ pos > waitevents
    PROVE  /\ Batch = {} /\ Void = {}
           /\ \A id \in ID : setevent[id] = FALSE
<1>1. pos \in Nat /\ waitevents \in Nat /\ pos > waitevents
  BY DEF IInv, TypeOK, QueueInv
<1>2. Batch = {} /\ Void = {} BY <1>1 DEF Batch, Void
<1> QED BY <1>2 DEF BatchInv, IInv, TypeOK

\* What nevent_progress does to the timers: those due are collected in the
\* order of their clocks, and no time is lost between the two periods.
LEMMA ProgressCollects ==
    ASSUME IInv, BatchInv, NeventProgress
    PROVE  /\ Batch' = {id \in ArmedIds : Expired(id)}
           /\ ArmedIds' = ArmedIds \ Batch'
           /\ \A id \in ID : setevent'[id] <=> id \in Batch'
           /\ \A id \in ArmedIds : clock'[id] = clock[id] - baseclock
           /\ Elapsed' = -remclock
           /\ \A i, j \in 1 .. waitevents' :
                 i < j => clock'[waitevent'[i]] =< clock'[waitevent'[j]]
           /\ remclock' \in Int /\ remclock' >= remclock
           /\ baseclock' =< MAXCLOCK
<1> DEFINE expired == {i \in 1 .. readyevents : Expired(level[i])}
           waiting == 1 .. readyevents \ expired
           called  == {i \in expired : ~ setevent[level[i]]}
           ends    == {MAXCLOCK} \cup {clock[level[i]] - baseclock : i \in waiting}
<1>1. /\ phase = "progress"
      /\ clock' = [id \in ID |-> clock[id] - IF Armed(id) THEN baseclock ELSE 0]
      /\ setevent' = [id \in ID |-> setevent[id] \/ \E i \in expired : level[i] = id]
      /\ UNCHANGED pos
  BY DEF NeventProgress
<1>2. PICK n \in 0 .. readyevents : \E f \in Ascending(waiting, n) :
          readyevents' = n /\ level' = [i \in 1 .. n |-> level[f[i]]]
  BY Zenon DEF NeventProgress
<1>2f. PICK f \in Ascending(waiting, n) :
          readyevents' = n /\ level' = [i \in 1 .. n |-> level[f[i]]]
  BY <1>2
<1>3. PICK m \in 0 .. readyevents : \E g \in Ascending(called, m) :
          /\ waitevents' = waitevents + m
          /\ waitevent' = [i \in 1 .. waitevents + m |->
                              IF i =< waitevents THEN waitevent[i]
                              ELSE level[g[i - waitevents]]]
  BY Zenon DEF NeventProgress
<1>3g. PICK g \in Ascending(called, m) :
          /\ waitevents' = waitevents + m
          /\ waitevent' = [i \in 1 .. waitevents + m |->
                              IF i =< waitevents THEN waitevent[i]
                              ELSE level[g[i - waitevents]]]
  BY <1>3
<1>4. PICK end \in ends : (\A e \in ends : end =< e) /\ NextPeriod(end)
  BY Zenon DEF NeventProgress
<1>5. waitevents = 0 /\ pos = 1 /\ readyevents \in Nat
  BY <1>1 DEF IInv, QueueInv, TypeOK
<1>6. n \in Nat /\ m \in Nat BY <1>5
<1>7. waiting \in SUBSET (1 .. readyevents) /\ called \in SUBSET (1 .. readyevents)
  OBVIOUS
<1>8. \A i \in 1 .. readyevents : level[i] \in ArmedIds
  BY DEF IInv, TypeOK, Armed, ArmedIds
<1>9. called = expired
  <2>1. \A id \in ID : setevent[id] = FALSE BY <1>1, NothingUnderWay
  <2> QED BY <2>1 DEF IInv, TypeOK
<1>10. /\ \A i \in 1 .. m : g[i] \in expired
       /\ \A i \in expired : \E k \in 1 .. m : g[k] = i
  BY <1>9 DEF Ascending
<1>11. /\ \A i \in 1 .. n : f[i] \in waiting
       /\ \A i \in waiting : \E k \in 1 .. n : f[k] = i
  BY DEF Ascending
<1>12. /\ waitevents' = m
       /\ \A i \in 1 .. m : waitevent'[i] = level[g[i]]
  BY <1>3g, <1>5, <1>6
<1>13. \A id : id \in ArmedIds <=> \E i \in 1 .. readyevents : level[i] = id
  BY DEF IInv, TypeOK, Armed, ArmedIds
<1>14. \A i, j \in 1 .. m : i < j => clock[level[g[i]]] =< clock[level[g[j]]]
  BY <1>6, <1>7, SelectionSorted
<1>15. end =< MAXCLOCK /\ end \in Nat
  <2>1. \A i \in waiting : clock[level[i]] - baseclock > 0 /\ clock[level[i]] - baseclock \in Int
    BY DEF Expired, IInv, TypeOK
  <2>2. MAXCLOCK \in ends OBVIOUS
  <2> QED BY <1>4, <2>1, <2>2, ClockAssumption
<1>16. Batch' = {waitevent'[i] : i \in 1 .. m} BY <1>1, <1>5, <1>12 DEF Batch
<1>17. \A x : x \in Batch' <=> \E i \in expired : level[i] = x
  BY <1>10, <1>12, <1>16
<1>18. Batch' = {id \in ArmedIds : Expired(id)} BY <1>13, <1>17
<1>19. \A x \in ID : Armed(x)' <=> \E i \in waiting : level[i] = x
  <2>1. \A i \in 1 .. n : level'[i] = level[f[i]] BY <1>2f
  <2> QED BY <1>2f, <1>11, <2>1 DEF Armed
<1>20. ArmedIds' = ArmedIds \ Batch'
  <2>1. ASSUME NEW x \in ID PROVE Armed(x)' <=> x \in ArmedIds /\ ~ Expired(x)
    BY <1>13, <1>19
  <2> QED BY <1>18, <2>1 DEF ArmedIds
<1>21. \A id \in ID : setevent'[id] <=> id \in Batch'
  <2>1. \A id \in ID : setevent[id] = FALSE BY <1>1, NothingUnderWay
  <2> QED BY <1>1, <1>17, <2>1
<1>22. \A id \in ArmedIds : clock'[id] = clock[id] - baseclock
  BY <1>1 DEF ArmedIds
<1>23. baseclock' = end /\ remclock' = remclock + end
  BY <1>4 DEF NextPeriod
<1>24. remclock \in Int /\ baseclock \in Int BY DEF IInv, TypeOK
<1>25. Elapsed' = -remclock BY <1>15, <1>23, <1>24 DEF Elapsed
<1>26. \A i, j \in 1 .. m : i < j => clock'[waitevent'[i]] =< clock'[waitevent'[j]]
  <2> SUFFICES ASSUME NEW i \in 1 .. m, NEW j \in 1 .. m, i < j
               PROVE  clock'[waitevent'[i]] =< clock'[waitevent'[j]]
    OBVIOUS
  <2>1. clock[level[g[i]]] =< clock[level[g[j]]] BY <1>14
  <2>2. /\ level[g[i]] \in ArmedIds /\ level[g[j]] \in ArmedIds
        /\ level[g[i]] \in ID /\ level[g[j]] \in ID
    BY <1>8, <1>10 DEF ArmedIds
  <2>3. clock[level[g[i]]] \in Nat /\ clock[level[g[j]]] \in Nat
    BY <2>2 DEF IInv, TypeOK
  <2> QED BY <1>12, <1>22, <1>24, <2>1, <2>2, <2>3
<1> QED BY <1>12, <1>15, <1>18, <1>20, <1>21, <1>22, <1>23, <1>24, <1>25, <1>26, ClockAssumption

LEMMA BoundInit == Init => BoundInv
  BY ClockAssumption DEF Init, BoundInv

LEMMA BoundNext == ASSUME DispatchInv, [Next]_vars PROVE BoundInv'
<1> USE DEF DispatchInv, BoundInv
<1>0. /\ baseclock \in Nat /\ remclock \in Int /\ INTMAX \in Nat /\ OVERSHOOT \in Nat
      /\ MAXCLOCK =< INTMAX /\ MAXCLOCK \in Nat
  BY ClockAssumption DEF IInv, TypeOK
<1>1. CASE \E id \in ID, ev \in EVENTCLOCK, absolute \in BOOLEAN : NeventSet(id, ev, absolute)
  <2>1. PICK id \in ID, ev \in EVENTCLOCK, absolute \in BOOLEAN : NeventSet(id, ev, absolute)
    BY <1>1
  <2> DEFINE c == DueClock(id, ev, absolute)
  <2>2. /\ c =< INTMAX /\ phase # "cpu" /\ phase' = phase
        /\ \E p : PeriodUntil(p, c)
    BY <2>1 DEF NeventSet, Handler
  <2> HIDE DEF c
  <2>3. IInv' BY NextInv
  <2> QED BY <1>0, <2>2, <2>3, SMTT(30) DEF PeriodUntil, IInv, TypeOK
<1>2. CASE \E id \in ID : NeventReset(id)
  BY <1>0, <1>2 DEF NeventReset, Handler
<1>3. CASE NeventForceExit
  BY <1>0, <1>3 DEF NeventForceExit, Handler
<1>4. ASSUME NEW new \in MULTIPLE, ChangeClock(new)
      PROVE  baseclock' =< INTMAX /\ remclock' >= -(OVERSHOOT + 1)
  <2>1. CASE readyevents = 0 BY <1>0, <1>4, <2>1 DEF ChangeClock
  <2>2. CASE readyevents # 0 /\ baseclock = remclock
    <3>1. baseclock' = clock'[level[1]] /\ remclock' = clock'[level[1]]
      BY <1>4, <2>2 DEF ChangeClock
    <3>2. level[1] \in ID /\ Armed(level[1]) BY <2>2 DEF IInv, TypeOK, Armed
    <3>3. clock'[level[1]] = ScaledClock(clock[level[1]], new)
      BY <1>4, <2>2, <3>2 DEF ChangeClock
    <3>4. clock[level[1]] \in Nat /\ multiple \in MULTIPLE BY <3>2 DEF IInv, TypeOK
    <3>5. ScaledClock(clock[level[1]], new) \in Nat BY <3>4, ScaledClockMonotone
    <3>6. Scale(clock[level[1]], new) \in Nat BY <3>4, ScaleMonotone
    <3>7. ScaledClock(clock[level[1]], new) =< INTMAX
      BY <1>0, <3>4, <3>6, ClockAssumption DEF ScaledClock
    <3> QED BY <1>0, <3>1, <3>3, <3>5, <3>7
  <2>3. CASE readyevents # 0 /\ baseclock # remclock
    <3>1. remclock' >= -OVERSHOOT /\ baseclock' =< INTMAX /\ remclock' = Scale(remclock, new)
      BY <1>4, <2>3 DEF ChangeClock
    <3>2. remclock' \in Int
      BY <1>0, <3>1, ScaleMonotone DEF IInv, TypeOK, NoOversleep
    <3> QED BY <1>0, <3>1, <3>2
  <2> QED BY <2>1, <2>2, <2>3
<1>5. CASE AsyncCpu
  <2>1. phase' = "main" BY <1>5 DEF AsyncCpu
  <2> QED BY <1>0, <1>4, <1>5, <2>1 DEF AsyncCpu
<1>6. CASE \E new \in MULTIPLE : ChangeClockByIo(new)
  BY <1>0, <1>4, <1>6 DEF ChangeClockByIo, Handler
<1>7. CASE PicIrq
  <2>1. PICK k \in COST \cup {0} : remclock' = remclock - k /\ remclock - k >= -OVERSHOOT
    BY <1>7 DEF PicIrq
  <2>2. k \in Nat BY ClockAssumption
  <2>3. baseclock' = baseclock /\ phase' = IF remclock' > 0 THEN "cpu" ELSE "progress"
    BY <1>7 DEF PicIrq
  <2> QED BY <1>0, <2>1, <2>2, <2>3
<1>8. CASE Instruction
  <2>1. PICK k \in COST : remclock' = remclock - k /\ remclock - k >= -OVERSHOOT
    BY <1>8 DEF Instruction
  <2>2. k \in Nat BY ClockAssumption
  <2>3. baseclock' = baseclock /\ phase' = "io" BY <1>8 DEF Instruction
  <2> QED BY <1>0, <2>1, <2>2, <2>3
<1>9. CASE Halt BY <1>0, <1>9 DEF Halt
<1>10. CASE InstructionEnd BY <1>0, <1>10 DEF InstructionEnd
<1>11. CASE NeventProgress
  <2>1. phase' = "execute" BY <1>11 DEF NeventProgress
  <2>2. /\ remclock' \in Int /\ remclock' >= remclock /\ baseclock' =< MAXCLOCK
    BY <1>11, ProgressCollects
  <2>3. baseclock' \in Nat BY NextInv DEF IInv, TypeOK
  <2> QED BY <1>0, <2>1, <2>2, <2>3
<1>12. CASE RunCallback \/ CallbackReturn \/ ExecuteEnd \/ LoopAgain
  BY <1>0, <1>12 DEF RunCallback, CallbackReturn, ExecuteEnd, LoopAgain
<1>13. CASE Reset BY <1>0, <1>13 DEF Reset, ResetState
<1>14. CASE UNCHANGED vars BY <1>0, <1>14 DEF vars
<1> QED BY <1>1, <1>2, <1>3, <1>5, <1>6, <1>7, <1>8, <1>9, <1>10, <1>11, <1>12, <1>13, <1>14
        DEF Next, SchedulerCall

LEMMA BatchInit == Init => BatchInv
  BY DEF Init, BatchInv

LEMMA BatchNext == ASSUME DispatchInv, [Next]_vars PROVE BatchInv'
<1> USE DEF DispatchInv
<1>0. IInv' BY NextInv
<1>1. CASE \E id \in ID, ev \in EVENTCLOCK, absolute \in BOOLEAN : NeventSet(id, ev, absolute)
  <2>1. PICK id \in ID, ev \in EVENTCLOCK, absolute \in BOOLEAN : NeventSet(id, ev, absolute)
    BY <1>1
  <2>2. /\ ArmedIds' = ArmedIds \cup {id}
        /\ clock' = [clock EXCEPT ![id] = DueClock(id, ev, absolute)]
        /\ setevent' = [setevent EXCEPT ![id] = FALSE]
        /\ Elapsed' = Elapsed
    BY <2>1, SetArms
  <2>3. UNCHANGED <<waitevents, waitevent, pos>> BY <2>1 DEF NeventSet
  <2>4. \A x \in ID : x # id => clock'[x] = clock[x] /\ setevent'[x] = setevent[x]
    BY <2>2 DEF IInv, TypeOK
  <2>5. setevent'[id] = FALSE BY <2>2 DEF IInv, TypeOK
  <2>6. \A i \in pos .. waitevents : waitevent[i] \in ID BY DEF IInv, TypeOK
  <2>7. ASSUME NEW x \in ID, setevent'[x]
        PROVE  x \in Batch' /\ ~ Armed(x)' /\ Remain(x)' =< 0
    <3>1. x # id /\ setevent[x] BY <2>4, <2>5, <2>7
    <3>2. x \in Batch /\ ~ Armed(x) /\ Remain(x) =< 0 BY <3>1 DEF BatchInv
    <3>3. x \in Batch' BY <2>3, <3>2 DEF Batch
    <3>4. ~ Armed(x)' BY <2>2, <3>1, <3>2 DEF ArmedIds
    <3>5. Remain(x)' = Remain(x) BY <2>2, <2>4, <3>1 DEF Remain
    <3> QED BY <3>2, <3>3, <3>4, <3>5
  <2> QED BY <2>3, <2>4, <2>5, <2>6, <2>7 DEF BatchInv
<1>2. CASE \E id \in ID : NeventReset(id)
  <2>1. PICK id \in ID : NeventReset(id) BY <1>2
  <2>2. ArmedIds' = ArmedIds \ {id} /\ Elapsed' = Elapsed BY <2>1, ResetDisarms
  <2>3. UNCHANGED <<waitevents, waitevent, pos, clock, setevent>> BY <2>1 DEF NeventReset
  <2>4. \A x \in ID : Armed(x)' => Armed(x) BY <2>2 DEF ArmedIds
  <2>5. Batch' = Batch BY <2>3 DEF Batch
  <2>6. \A x \in ID : Remain(x)' = Remain(x) BY <2>2, <2>3 DEF Remain
  <2> QED BY <2>3, <2>4, <2>5, <2>6 DEF BatchInv
<1>3. CASE NeventForceExit
  <2>1. Elapsed' = Elapsed BY <1>3, CallsKeepElapsed
  <2>2. UNCHANGED <<readyevents, level, waitevents, waitevent, pos, clock, setevent>>
    BY <1>3 DEF NeventForceExit
  <2>3. \A x \in ID : Remain(x)' = Remain(x) /\ (Armed(x)' <=> Armed(x))
    BY <2>1, <2>2 DEF Remain, Armed
  <2>4. Batch' = Batch BY <2>2 DEF Batch
  <2> QED BY <2>2, <2>3, <2>4 DEF BatchInv
<1>4. CASE \/ AsyncCpu \/ \E new \in MULTIPLE : ChangeClockByIo(new)
           \/ PicIrq \/ Instruction \/ Halt \/ InstructionEnd \/ LoopAgain
  <2>1. /\ phase \notin {"execute", "callback"}
        /\ UNCHANGED <<waitevents, pos, setevent>>
    BY <1>4 DEF AsyncCpu, ChangeClockByIo, ChangeClock, PicIrq, Instruction, Halt,
                InstructionEnd, LoopAgain
  <2>2. \A id \in ID : setevent[id] = FALSE BY <2>1, NothingUnderWay
  <2>3. pos .. waitevents = {} BY <2>1 DEF IInv, QueueInv
  <2> QED BY <2>1, <2>2, <2>3 DEF BatchInv
<1>5. CASE NeventProgress
  <2>1. /\ Batch' = {id \in ArmedIds : Expired(id)}
        /\ ArmedIds' = ArmedIds \ Batch'
        /\ \A id \in ID : setevent'[id] <=> id \in Batch'
        /\ \A id \in ArmedIds : clock'[id] = clock[id] - baseclock
        /\ Elapsed' = -remclock
        /\ \A i, j \in 1 .. waitevents' :
              i < j => clock'[waitevent'[i]] =< clock'[waitevent'[j]]
    BY <1>5, ProgressCollects
  <2>2. pos' = 1 /\ remclock =< 0 BY <1>5 DEF NeventProgress, IInv, QueueInv
  <2>3. ASSUME NEW x \in ID, setevent'[x]
        PROVE  x \in Batch' /\ ~ Armed(x)' /\ Remain(x)' =< 0
    <3>1. x \in Batch' /\ x \in ArmedIds /\ Expired(x) BY <2>1, <2>3
    <3>2. x \notin ArmedIds' BY <2>1, <3>1
    <3>3. ~ Armed(x)' BY <3>2 DEF ArmedIds
    <3>4. Remain(x)' = clock[x] - baseclock - (-remclock) BY <2>1, <3>1 DEF Remain
    <3>5. clock[x] \in Int /\ baseclock \in Int /\ remclock \in Int BY DEF IInv, TypeOK
    <3> QED BY <2>2, <3>1, <3>3, <3>4, <3>5 DEF Expired
  <2> QED BY <2>1, <2>2, <2>3 DEF BatchInv
<1>6. CASE RunCallback
  <2>2. UNCHANGED <<readyevents, level, waitevents, waitevent, pos, clock, setevent, baseclock,
                    remclock>>
    BY <1>6 DEF RunCallback
  <2> QED BY <2>2 DEF BatchInv, Batch, Armed, Remain, Elapsed
<1>7. CASE CallbackReturn
  <2>1. /\ UNCHANGED <<readyevents, level, waitevents, waitevent, clock, baseclock, remclock>>
        /\ pos' = pos + 1 /\ setevent' = [setevent EXCEPT ![waitevent[pos]] = FALSE]
        /\ phase = "callback"
    BY <1>7 DEF CallbackReturn
  <2>2. /\ pos \in 1 .. waitevents /\ waitevent[pos] \in ID
        /\ pos \in Nat /\ waitevents \in Nat
    BY <2>1 DEF IInv, TypeOK, QueueInv
  <2>3. \A x \in ID : /\ x # waitevent[pos] => setevent'[x] = setevent[x]
                      /\ x = waitevent[pos] => ~ setevent'[x]
    BY <2>1, <2>2 DEF IInv, TypeOK
  <2>4. ASSUME NEW x \in ID, setevent'[x]
        PROVE  x \in Batch' /\ ~ Armed(x)' /\ Remain(x)' =< 0
    <3>1. x # waitevent[pos] /\ setevent[x] BY <2>3, <2>4
    <3>2. x \in Batch /\ ~ Armed(x) /\ Remain(x) =< 0 BY <3>1 DEF BatchInv
    <3>3. PICK i \in pos .. waitevents : waitevent[i] = x BY <3>2 DEF Batch
    <3>4. i \in pos + 1 .. waitevents BY <2>2, <3>1, <3>3
    <3>5. x \in Batch' BY <2>1, <3>3, <3>4 DEF Batch
    <3> QED BY <2>1, <3>2, <3>5 DEF Armed, Remain, Elapsed
  <2>5. \A i \in pos' .. waitevents' : i \in pos .. waitevents /\ waitevent[i] \in ID
    BY <2>1, <2>2 DEF IInv, TypeOK
  <2>6. ASSUME NEW i \in pos' .. waitevents', NEW j \in pos' .. waitevents',
               i < j, setevent'[waitevent[i]], setevent'[waitevent[j]]
        PROVE  clock[waitevent[i]] =< clock[waitevent[j]]
    <3>1. setevent[waitevent[i]] /\ setevent[waitevent[j]] BY <2>3, <2>5, <2>6
    <3> QED BY <2>5, <2>6, <3>1 DEF BatchInv
  <2> QED BY <2>1, <2>4, <2>6 DEF BatchInv
<1>8. CASE ExecuteEnd
  <2>1. /\ phase = "execute" /\ pos > waitevents
        /\ UNCHANGED setevent /\ waitevents' = 0 /\ pos' = 1
    BY <1>8 DEF ExecuteEnd
  <2>2. \A id \in ID : setevent[id] = FALSE BY <2>1, NothingUnderWay
  <2> QED BY <2>1, <2>2 DEF BatchInv
<1>9. CASE Reset
  <2>1. /\ setevent' = [id \in ID |-> FALSE] /\ waitevents' = 0 /\ pos' = 1
    BY <1>9 DEF Reset, ResetState
  <2> QED BY <2>1 DEF BatchInv
<1>10. CASE UNCHANGED vars
  BY <1>10 DEF vars, BatchInv, Batch, Armed, Remain, Elapsed
<1> QED BY <1>1, <1>2, <1>3, <1>4, <1>5, <1>6, <1>7, <1>8, <1>9, <1>10 DEF Next, SchedulerCall

LEMMA DispatchInvariance == Spec => []DispatchInv
<1>1. Init => DispatchInv BY InitInv, BatchInit, BoundInit DEF DispatchInv
<1>2. DispatchInv /\ [Next]_vars => DispatchInv'
  BY NextInv, BatchNext, BoundNext DEF DispatchInv
<1> QED BY <1>1, <1>2, PTL DEF Spec

\* A callback that nevent_execute enters with NEVENT_SETEVENT set is for an
\* event that is due and that no callback before it has armed again.
THEOREM CalledOnlyWhenDue == Spec => CalledWhenDue
<1>1. DispatchInv /\ [Next]_vars =>
        [RunCallback => LET id == waitevent[pos]
                        IN  setevent[id] => ~ Armed(id) /\ Remain(id) =< 0]_vars
  <2> SUFFICES ASSUME DispatchInv, RunCallback
               PROVE  LET id == waitevent[pos]
                      IN  setevent[id] => ~ Armed(id) /\ Remain(id) =< 0
    OBVIOUS
  <2>1. waitevent[pos] \in ID
    BY DEF RunCallback, DispatchInv, IInv, TypeOK
  <2> QED BY <2>1 DEF DispatchInv, BatchInv
<1> QED BY <1>1, DispatchInvariance, PTL DEF Spec, CalledWhenDue

-----------------------------------------------------------------------------
(***************************************************************************)
(* The scheduler implements TimerSet                                       *)
(***************************************************************************)

\* The state of the timer set, as the scheduler holds it
TimeOf == [id \in ArmedIds \cup (Batch \ Void) |-> Remain(id)]
Running == IF phase = "callback" THEN waitevent[pos] ELSE NoId

LEMMA KnownRemains ==
    ASSUME NEW id \in ArmedIds \cup (Batch \ Void)
    PROVE  TimeOf[id] = clock[id] - Elapsed
  BY DEF TimeOf, Remain

LEMMA NextTimeOf == TimeOf' = [id \in ArmedIds' \cup (Batch' \ Void') |-> clock'[id] - Elapsed']
  BY DEF TimeOf, Remain

\* A step that moves neither an id nor the time moves no timer.
LEMMA SameTimers ==
    ASSUME UNCHANGED <<readyevents, level, waitevents, waitevent, pos, clock, setevent>>,
           Elapsed' = Elapsed
    PROVE  ArmedIds' = ArmedIds /\ Batch' = Batch /\ Void' = Void /\ TimeOf' = TimeOf
<1>1. ArmedIds' = ArmedIds BY DEF ArmedIds, Armed
<1>2. Batch' = Batch BY DEF Batch
<1>3. Void' = Void BY <1>2 DEF Void
<1> QED BY <1>1, <1>2, <1>3, NextTimeOf DEF TimeOf, Remain

\* No timer is armed at first.
LEMMA InitTimers == Init => Timers!Init
<1> SUFFICES ASSUME Init PROVE Timers!Init OBVIOUS
<1>1. ArmedIds = {} BY DEF Init, ArmedIds, Armed
<1>2. Batch = {} BY DEF Init, Batch
<1>3. Void = {} BY <1>2 DEF Void
<1>4. phase # "callback" BY DEF Init
<1>5. [id \in ArmedIds \cup (Batch \ Void) |-> Remain(id)] = << >>
  BY <1>1, <1>2
<1> QED BY <1>1, <1>2, <1>3, <1>4, <1>5 DEF Timers!Init

\* A step that the timer set does not see
LEMMA StutterStep ==
    ASSUME ArmedIds' = ArmedIds, Batch' = Batch, Void' = Void, TimeOf' = TimeOf,
           Running' = Running
    PROVE  UNCHANGED Timers!vars
  BY DEF Timers!vars, TimeOf, Running

\* The CPU executes n clocks of the period.
LEMMA ElapseStep ==
    ASSUME DispatchInv, Batch = {}, NEW n \in Int, 0 < n, n =< 2 * INTMAX + OVERSHOOT,
           remclock' = remclock - n,
           phase # "callback", phase' # "callback",
           UNCHANGED <<readyevents, level, waitevents, waitevent, pos, clock, setevent, baseclock>>
    PROVE  Timers!Elapse
<1>1. ArmedIds' = ArmedIds BY DEF ArmedIds, Armed
<1>2. Batch' = Batch BY DEF Batch
<1>3. Void' = Void BY <1>2 DEF Void
<1>4. Running = NoId /\ Running' = NoId BY DEF Running
<1>5. n \in -(2 * INTMAX + OVERSHOOT) .. (2 * INTMAX + OVERSHOOT) BY ClockAssumption
<1>6. TimeOf' = [id \in ArmedIds |-> TimeOf[id] - n]
  <2>1. TimeOf' = [id \in ArmedIds |-> clock[id] - Elapsed']
    BY <1>1, <1>2, <1>3, NextTimeOf
  <2>2. ASSUME NEW id \in ArmedIds PROVE clock[id] - Elapsed' = TimeOf[id] - n
    <3>1. TimeOf[id] = clock[id] - Elapsed BY KnownRemains
    <3>2. clock[id] \in Int /\ baseclock \in Int /\ remclock \in Int
      BY DEF DispatchInv, IInv, TypeOK, ArmedIds
    <3>3. Elapsed' = Elapsed + n /\ Elapsed \in Int BY <3>2 DEF Elapsed
    <3> QED BY <3>1, <3>2, <3>3
  <2> QED BY <2>1, <2>2
<1>7. Void = {} BY DEF Void
<1> QED BY <1>1, <1>2, <1>3, <1>4, <1>5, <1>6, <1>7 DEF Timers!Elapse, TimeOf, Running

\* Executing an instruction, taking an interrupt and HLT let time pass.
LEMMA CpuTimers ==
    ASSUME DispatchInv, PicIrq \/ Instruction \/ Halt
    PROVE  Timers!Next \/ UNCHANGED Timers!vars
<1>1. /\ phase # "callback" /\ phase' # "callback"
      /\ UNCHANGED <<readyevents, level, waitevents, waitevent, pos, clock, setevent, baseclock>>
      /\ phase \notin {"execute", "callback"}
  BY DEF PicIrq, Instruction, Halt
<1>2. Batch = {} BY <1>1, NothingUnderWay DEF DispatchInv
<1>3. /\ remclock \in Int /\ remclock =< INTMAX /\ OVERSHOOT \in Nat
      /\ INTMAX \in Nat /\ 1 =< INTMAX
  BY ClockAssumption DEF DispatchInv, IInv, TypeOK, NoOversleep, BoundInv
<1>4. PICK n \in Nat : remclock' = remclock - n /\ n =< 2 * INTMAX + OVERSHOOT
  <2>1. CASE PicIrq
    <3>1. PICK k \in COST \cup {0} : remclock' = remclock - k /\ remclock - k >= -OVERSHOOT
      BY <2>1 DEF PicIrq
    <3> QED BY <1>3, <3>1, ClockAssumption
  <2>2. CASE Instruction
    <3>1. PICK k \in COST : remclock' = remclock - k /\ remclock - k >= -OVERSHOOT
      BY <2>2 DEF Instruction
    <3> QED BY <1>3, <3>1, ClockAssumption
  <2>3. CASE Halt
    <3>1. remclock' = -1 /\ remclock > 0 BY <2>3 DEF Halt, DispatchInv, BoundInv
    <3>2. remclock + 1 \in Nat /\ -1 = remclock - (remclock + 1) BY <1>3, <3>1
    <3> QED BY <1>3, <3>1, <3>2
  <2> QED BY <2>1, <2>2, <2>3
<1>5. CASE n = 0
  <2>1. Elapsed' = Elapsed BY <1>1, <1>3, <1>4, <1>5 DEF Elapsed
  <2>2. Running' = Running BY <1>1 DEF Running
  <2> QED BY <1>1, <2>1, <2>2, SameTimers, StutterStep
<1>6. CASE n > 0
  BY <1>1, <1>2, <1>4, <1>6, ElapseStep DEF Timers!Next
<1> QED BY <1>4, <1>5, <1>6

\* nevent_set arms a timer, for a delay from now or from its last expiry.
LEMMA SetTimers ==
    ASSUME DispatchInv, NEW id \in ID, NEW ev \in EVENTCLOCK, NEW absolute \in BOOLEAN,
           NeventSet(id, ev, absolute)
    PROVE  Timers!Arm(id)
<1> DEFINE c == DueClock(id, ev, absolute)
<1>1. /\ ArmedIds' = ArmedIds \cup {id}
      /\ clock' = [clock EXCEPT ![id] = c]
      /\ setevent' = [setevent EXCEPT ![id] = FALSE]
      /\ Elapsed' = Elapsed
  BY SetArms DEF DispatchInv
<1>2. UNCHANGED <<waitevents, waitevent, pos, phase>> BY DEF NeventSet, Handler
<1>3. Batch' = Batch BY <1>2 DEF Batch
<1>4. /\ \A x \in ID : x # id => clock'[x] = clock[x] /\ (setevent'[x] <=> setevent[x])
      /\ clock'[id] = c /\ ~ setevent'[id]
  BY <1>1 DEF DispatchInv, IInv, TypeOK
<1>5. Batch \subseteq ID BY DEF Batch, DispatchInv, IInv, TypeOK
<1>6. Void' = Void \cup ({id} \cap Batch) BY <1>3, <1>4, <1>5 DEF Void
<1>7. TimeOf' = [x \in ArmedIds' \cup (Batch' \ Void') |-> clock'[x] - Elapsed]
  BY <1>1, NextTimeOf
<1> HIDE DEF c
<1>8. ASSUME NEW x \in (ArmedIds \cup (Batch \ Void)) \ {id}
      PROVE  TimeOf'[x] = TimeOf[x]
  <2>1. x \in ID BY <1>5 DEF ArmedIds
  <2>2. TimeOf[x] = clock[x] - Elapsed BY KnownRemains
  <2>3. x \in ArmedIds' \cup (Batch' \ Void') BY <1>1, <1>3, <1>6
  <2> QED BY <1>4, <1>7, <2>1, <2>2, <2>3
<1>9. TimeOf'[id] = c - Elapsed
  <2>1. id \in ArmedIds' BY <1>1
  <2> QED BY <1>4, <1>7, <2>1
<1>10. /\ baseclock \in Nat /\ remclock \in Int /\ clock[id] \in Nat /\ ev \in Nat
       /\ INTMAX \in Nat /\ OVERSHOOT \in Nat /\ 1 =< INTMAX
       /\ remclock =< baseclock /\ baseclock =< INTMAX /\ remclock >= -(OVERSHOOT + 1)
  BY ClockAssumption DEF DispatchInv, IInv, TypeOK, NoOversleep, BoundInv
<1>11. Elapsed \in Int /\ 0 =< Elapsed /\ Elapsed =< INTMAX + OVERSHOOT + 1
  BY <1>10 DEF Elapsed
<1>12. \/ TimeOf'[id] \in EVENTCLOCK
       \/ /\ id \in ArmedIds \cup (Batch \ Void)
          /\ \E d \in EVENTCLOCK : TimeOf'[id] = TimeOf[id] + d
       \/ /\ id \notin ArmedIds \cup (Batch \ Void)
          /\ TimeOf'[id] \in -(2 * INTMAX + OVERSHOOT) .. (2 * INTMAX + OVERSHOOT)
  <2>1. CASE absolute
    <3>1. c = ev + Elapsed BY <2>1 DEF c, DueClock
    <3>2. c - Elapsed = ev BY <1>10, <1>11, <3>1
    <3> QED BY <1>9, <3>2
  <2>2. CASE ~ absolute /\ id \in ArmedIds \cup (Batch \ Void)
    <3>1. c = clock[id] + ev BY <2>2 DEF c, DueClock
    <3>2. TimeOf[id] = clock[id] - Elapsed BY <2>2, KnownRemains
    <3>3. c - Elapsed = TimeOf[id] + ev BY <1>10, <1>11, <3>1, <3>2
    <3> QED BY <1>9, <2>2, <3>3
  <2>3. CASE ~ absolute /\ id \notin ArmedIds \cup (Batch \ Void)
    <3>1. c = clock[id] + ev BY <2>3 DEF c, DueClock
    <3>2. c =< INTMAX BY DEF NeventSet, c
    <3>3. c - Elapsed \in -(2 * INTMAX + OVERSHOOT) .. (2 * INTMAX + OVERSHOOT)
      BY <1>10, <1>11, <3>1, <3>2
    <3> QED BY <1>9, <2>3, <3>3
  <2> QED BY <2>1, <2>2, <2>3
<1>13. DOMAIN TimeOf' = ArmedIds' \cup (Batch' \ Void') BY <1>7
<1>14. Running' = Running BY <1>2 DEF Running
<1> QED BY <1>1, <1>3, <1>6, <1>8, <1>12, <1>13, <1>14
        DEF Timers!Arm, Timers!Known, TimeOf, Running

\* nevent_reset cancels a timer.
LEMMA ResetTimers ==
    ASSUME DispatchInv, NEW id \in ID, NeventReset(id)
    PROVE  Timers!Cancel(id)
<1>1. ArmedIds' = ArmedIds \ {id} /\ Elapsed' = Elapsed BY ResetDisarms DEF DispatchInv
<1>2. UNCHANGED <<waitevents, waitevent, pos, phase, clock, setevent>>
  BY DEF NeventReset, Handler
<1>3. Batch' = Batch BY <1>2 DEF Batch
<1>4. Void' = Void BY <1>2, <1>3 DEF Void
<1>5. TimeOf' = [x \in (ArmedIds \ {id}) \cup (Batch \ Void) |-> clock[x] - Elapsed]
  BY <1>1, <1>2, <1>3, <1>4, NextTimeOf
<1>6. \A x \in (ArmedIds \ {id}) \cup (Batch \ Void) : TimeOf[x] = clock[x] - Elapsed
  BY KnownRemains
<1>7. TimeOf' = [x \in (ArmedIds \ {id}) \cup (Batch \ Void) |-> TimeOf[x]]
  BY <1>5, <1>6
<1>8. Running' = Running BY <1>2 DEF Running
<1> QED BY <1>1, <1>3, <1>4, <1>7, <1>8 DEF Timers!Cancel, TimeOf, Running

\* nevent_changeclock rounds, but keeps the order of the timers.
LEMMA ChangeClockTimers ==
    ASSUME DispatchInv, NEW new \in MULTIPLE, ChangeClock(new),
           phase \in {"io", "async"}, phase' \in {"io", "main"}, calls' \in 0 .. MAXCALLS
    PROVE  Timers!Rescale
<1>1. UNCHANGED <<readyevents, level, waitevents, waitevent, pos, setevent>>
  BY DEF ChangeClock
<1>2. ArmedIds' = ArmedIds BY <1>1 DEF ArmedIds, Armed
<1>3. Batch = {} /\ Void = {} BY NothingUnderWay DEF DispatchInv
<1>4. Batch' = {} BY <1>1, <1>3 DEF Batch
<1>5. Void' = {} BY <1>4 DEF Void
<1>6. Running = NoId /\ Running' = NoId BY DEF Running
<1>7. TimeOf' = [id \in ArmedIds |-> clock'[id] - Elapsed']
  BY <1>2, <1>4, <1>5, NextTimeOf
<1>8. IInv'
  <2>1. QueueInv' BY <1>1 DEF DispatchInv, IInv, QueueInv
  <2> QED BY <2>1, ChangeClockInv DEF DispatchInv, Phases
<1>9. ASSUME NEW x \in ArmedIds, NEW y \in ArmedIds, TimeOf[x] =< TimeOf[y]
      PROVE  TimeOf'[x] =< TimeOf'[y]
  <2>1. /\ x \in ID /\ y \in ID /\ Armed(x) /\ Armed(y)
        /\ clock[x] \in Nat /\ clock[y] \in Nat /\ baseclock \in Int /\ remclock \in Int
    BY DEF ArmedIds, DispatchInv, IInv, TypeOK
  <2>2. TimeOf[x] = clock[x] - Elapsed /\ TimeOf[y] = clock[y] - Elapsed
    BY KnownRemains
  <2>3. clock[x] =< clock[y] BY <1>9, <2>1, <2>2 DEF Elapsed
  <2>4. readyevents # 0 BY <2>1 DEF Armed
  <2>5. /\ clock'[x] = ScaledClock(clock[x], new)
        /\ clock'[y] = ScaledClock(clock[y], new)
    BY <2>1, <2>4 DEF ChangeClock
  <2>6. /\ clock'[x] =< clock'[y] /\ clock'[x] \in Nat /\ clock'[y] \in Nat
    BY <2>1, <2>3, <2>5, ScaledClockMonotone DEF DispatchInv, IInv, TypeOK
  <2>7. Elapsed' \in Int BY <1>8 DEF IInv, TypeOK, Elapsed
  <2>8. TimeOf'[x] = clock'[x] - Elapsed' /\ TimeOf'[y] = clock'[y] - Elapsed'
    BY <1>7
  <2> QED BY <2>6, <2>7, <2>8
<1>10. DOMAIN TimeOf' = ArmedIds BY <1>7
<1> QED BY <1>2, <1>3, <1>4, <1>5, <1>6, <1>9, <1>10 DEF Timers!Rescale, TimeOf, Running

\* nevent_progress collects what is due at the end of the period, overshoot
\* included: the bound of the collection is CPU_REMCLOCK.
LEMMA ProgressTimers ==
    ASSUME DispatchInv, NeventProgress
    PROVE  Timers!Collect
<1>1. /\ Batch' = {id \in ArmedIds : Expired(id)}
      /\ ArmedIds' = ArmedIds \ Batch'
      /\ \A id \in ID : setevent'[id] <=> id \in Batch'
      /\ \A id \in ArmedIds : clock'[id] = clock[id] - baseclock
      /\ Elapsed' = -remclock
  BY ProgressCollects DEF DispatchInv
<1>2. phase = "progress" /\ phase' = "execute" BY DEF NeventProgress
<1>3. Batch = {} /\ Void = {} BY <1>2, NothingUnderWay DEF DispatchInv
<1>4. ArmedIds \subseteq ID BY DEF ArmedIds
<1>5. Void' = {} BY <1>1, <1>4 DEF Void
<1>6. /\ remclock \in Int /\ baseclock \in Int /\ remclock =< 0
      /\ OVERSHOOT \in Nat /\ INTMAX \in Nat /\ 1 =< INTMAX
      /\ remclock >= -(OVERSHOOT + 1)
  BY <1>2, ClockAssumption DEF DispatchInv, IInv, TypeOK, QueueInv, BoundInv
<1>7. remclock \in -(2 * INTMAX + OVERSHOOT) .. (2 * INTMAX + OVERSHOOT) BY <1>6
<1>8. ASSUME NEW id \in ArmedIds
      PROVE  /\ TimeOf[id] = clock[id] - Elapsed
             /\ TimeOf[id] =< remclock <=> Expired(id)
             /\ clock'[id] - Elapsed' = clock[id] - Elapsed
  <2>1. TimeOf[id] = clock[id] - Elapsed BY KnownRemains
  <2>2. clock[id] \in Int BY <1>4 DEF DispatchInv, IInv, TypeOK
  <2>3. TimeOf[id] =< remclock <=> Expired(id)
    BY <1>6, <2>1, <2>2 DEF Expired, Elapsed
  <2>4. clock'[id] - Elapsed' = clock[id] - Elapsed
    BY <1>1, <1>6, <2>2 DEF Elapsed
  <2> QED BY <2>1, <2>3, <2>4
<1>9. Batch' = {id \in ArmedIds : TimeOf[id] =< remclock} BY <1>1, <1>8
<1>10. TimeOf' = TimeOf
  <2>1. ArmedIds' \cup (Batch' \ Void') = ArmedIds BY <1>1, <1>5
  <2>2. TimeOf' = [id \in ArmedIds |-> clock'[id] - Elapsed'] BY <2>1, NextTimeOf
  <2>3. TimeOf = [id \in ArmedIds |-> clock[id] - Elapsed] BY <1>3 DEF TimeOf, Remain
  <2> QED BY <1>8, <2>2, <2>3
<1>11. Running = NoId /\ Running' = NoId BY <1>2 DEF Running
<1> QED BY <1>1, <1>3, <1>5, <1>6, <1>7, <1>9, <1>10, <1>11
        DEF Timers!Collect, TimeOf, Running

\* The callback entered is that of the timer that ran out first.
LEMMA CallTimers ==
    ASSUME DispatchInv, RunCallback
    PROVE  \E id \in ID : Timers!Call(id)
<1>1. /\ phase = "execute" /\ pos =< waitevents /\ phase' = "callback"
      /\ UNCHANGED <<readyevents, level, waitevents, waitevent, pos, clock, setevent,
                     baseclock, remclock>>
  BY DEF RunCallback
<1> DEFINE id == waitevent[pos]
<1>2. /\ pos \in Nat /\ waitevents \in Nat
      /\ id \in ID /\ id \in Batch
      /\ baseclock \in Int /\ remclock \in Int
  BY <1>1 DEF DispatchInv, IInv, TypeOK, Batch
<1>3. Elapsed' = Elapsed BY <1>1 DEF Elapsed
<1>4. ArmedIds' = ArmedIds /\ Batch' = Batch /\ Void' = Void /\ TimeOf' = TimeOf
  BY <1>1, <1>3, SameTimers
<1>5. Running = NoId /\ Running' = id BY <1>1 DEF Running
<1>6. ASSUME id \notin Void, NEW x \in Batch \ Void PROVE TimeOf[id] =< TimeOf[x]
  <2>1. id \in Batch \ Void BY <1>2, <1>6
  <2>2. TimeOf[id] = clock[id] - Elapsed /\ TimeOf[x] = clock[x] - Elapsed
    BY <2>1, KnownRemains
  <2>3. PICK i \in pos .. waitevents : x = waitevent[i] BY DEF Batch
  <2>4. setevent[id] /\ setevent[x] BY <1>6, <2>1 DEF Void
  <2>5. clock[id] \in Nat /\ clock[x] \in Nat
    BY <1>2, <2>3 DEF DispatchInv, IInv, TypeOK
  <2>6. clock[id] =< clock[x]
    <3>1. CASE i = pos BY <2>3, <2>5, <3>1
    <3>2. CASE i # pos
      <4>1. pos \in pos .. waitevents /\ pos < i BY <1>1, <1>2, <3>2
      <4> QED BY <2>3, <2>4, <4>1 DEF DispatchInv, BatchInv
    <3> QED BY <3>1, <3>2
  <2> QED BY <1>2, <2>2, <2>5, <2>6 DEF Elapsed
<1> HIDE DEF id
<1>7. Timers!Call(id)
  BY <1>2, <1>4, <1>5, <1>6 DEF Timers!Call, TimeOf, Running
<1> QED BY <1>2, <1>7

\* A callback that returns leaves the batch.
LEMMA ReturnTimers ==
    ASSUME DispatchInv, CallbackReturn
    PROVE  Timers!Return
<1>1. /\ phase = "callback" /\ phase' = "execute"
      /\ pos' = pos + 1
      /\ setevent' = [setevent EXCEPT ![waitevent[pos]] = FALSE]
      /\ UNCHANGED <<readyevents, level, waitevents, waitevent, clock, baseclock, remclock>>
  BY DEF CallbackReturn
<1> DEFINE id == waitevent[pos]
<1>2. /\ pos \in 1 .. waitevents /\ pos \in Nat /\ waitevents \in Nat /\ id \in ID
      /\ \A i \in 1 .. waitevents : waitevent[i] \in ID
      /\ \A i \in 1 .. waitevents : waitevent[i] = id => i = pos
  BY <1>1 DEF DispatchInv, IInv, TypeOK, QueueInv, NoDuplicates
<1> HIDE DEF id
<1>3. id = waitevent[pos] BY DEF id
<1>4. Running = id /\ Running' = NoId BY <1>1, <1>3 DEF Running
<1>5. id # NoId BY <1>2, ClockAssumption
<1>6. ArmedIds' = ArmedIds BY <1>1 DEF ArmedIds, Armed
<1>7. Batch' = Batch \ {id}
  <2>1. Batch' = {waitevent[i] : i \in pos + 1 .. waitevents} BY <1>1 DEF Batch
  <2>2. \A i : i \in pos + 1 .. waitevents <=> i \in pos .. waitevents /\ i # pos
    BY <1>2
  <2>3. \A i \in pos .. waitevents : i # pos <=> waitevent[i] # id BY <1>2, <1>3
  <2> QED BY <2>1, <2>2, <2>3 DEF Batch
<1>8. Void' = Void \ {id}
  <2>1. \A x \in ID : x # id => (setevent'[x] <=> setevent[x])
    BY <1>1, <1>3 DEF DispatchInv, IInv, TypeOK
  <2>2. Batch \subseteq ID BY <1>2 DEF Batch
  <2> QED BY <1>7, <2>1, <2>2 DEF Void
<1>9. Elapsed' = Elapsed BY <1>1 DEF Elapsed
<1>10. TimeOf' = [x \in ArmedIds \cup (Batch' \ Void') |-> TimeOf[x]]
  <2>1. TimeOf' = [x \in ArmedIds \cup (Batch' \ Void') |-> clock[x] - Elapsed]
    BY <1>1, <1>6, <1>9, NextTimeOf
  <2>2. \A x \in ArmedIds \cup (Batch' \ Void') : TimeOf[x] = clock[x] - Elapsed
    BY <1>7, <1>8, KnownRemains
  <2> QED BY <2>1, <2>2
<1> QED BY <1>4, <1>5, <1>6, <1>7, <1>8, <1>10 DEF Timers!Return, TimeOf, Running

\* The reset of the machine clears every timer.
LEMMA ClearTimers ==
    ASSUME DispatchInv, Reset
    PROVE  Timers!Clear
<1>1. /\ phase = "main" /\ phase' = "main"
      /\ readyevents' = 0 /\ waitevents' = 0 /\ pos' = 1
  BY DEF Reset, ResetState
<1>2. ArmedIds' = {} BY <1>1 DEF ArmedIds, Armed
<1>3. Batch' = {} BY <1>1 DEF Batch
<1>4. Void' = {} BY <1>3 DEF Void
<1>5. TimeOf' = << >> BY <1>2, <1>3, NextTimeOf
<1>6. Running = NoId /\ Running' = NoId BY <1>1 DEF Running
<1> QED BY <1>2, <1>3, <1>4, <1>5, <1>6 DEF Timers!Clear, TimeOf, Running

\* Ends of loops and forced exits are no steps of the timer set.
LEMMA IdleTimers ==
    ASSUME DispatchInv,
           NeventForceExit \/ InstructionEnd \/ ExecuteEnd \/ LoopAgain \/ UNCHANGED vars
    PROVE  UNCHANGED Timers!vars
<1>1. CASE NeventForceExit
  <2>1. /\ UNCHANGED <<readyevents, level, waitevents, waitevent, pos, clock, setevent, phase>>
    BY <1>1 DEF NeventForceExit, Handler
  <2>2. Elapsed' = Elapsed BY <1>1, CallsKeepElapsed DEF DispatchInv
  <2>3. Running' = Running BY <2>1 DEF Running
  <2> QED BY <2>1, <2>2, <2>3, SameTimers, StutterStep
<1>2. CASE InstructionEnd \/ LoopAgain
  <2>1. /\ UNCHANGED <<readyevents, level, waitevents, waitevent, pos, clock, setevent,
                       baseclock, remclock>>
        /\ phase # "callback" /\ phase' # "callback"
    BY <1>2 DEF InstructionEnd, LoopAgain
  <2>2. Elapsed' = Elapsed /\ Running' = Running BY <2>1 DEF Elapsed, Running
  <2> QED BY <2>1, <2>2, SameTimers, StutterStep
<1>3. CASE ExecuteEnd
  <2>1. /\ UNCHANGED <<readyevents, level, clock, setevent, baseclock, remclock>>
        /\ waitevents' = 0 /\ pos' = 1 /\ pos > waitevents
        /\ phase # "callback" /\ phase' # "callback"
    BY <1>3 DEF ExecuteEnd
  <2>2. ArmedIds' = ArmedIds BY <2>1 DEF ArmedIds, Armed
  <2>3. Batch = {} /\ Void = {} BY <2>1, NothingUnderWay DEF DispatchInv
  <2>4. Batch' = {} BY <2>1 DEF Batch
  <2>5. Void' = {} BY <2>4 DEF Void
  <2>6. TimeOf' = TimeOf
    <3>1. Elapsed' = Elapsed BY <2>1 DEF Elapsed
    <3>2. TimeOf' = [id \in ArmedIds \cup (Batch \ Void) |-> clock[id] - Elapsed]
      BY <2>1, <2>2, <2>3, <2>4, <2>5, <3>1, NextTimeOf
    <3> QED BY <3>2 DEF TimeOf, Remain
  <2>7. Running' = Running BY <2>1 DEF Running
  <2> QED BY <2>2, <2>3, <2>4, <2>5, <2>6, <2>7, StutterStep
<1>4. CASE UNCHANGED vars
  <2>1. Elapsed' = Elapsed /\ Running' = Running BY <1>4 DEF vars, Elapsed, Running
  <2> QED BY <1>4, <2>1, SameTimers, StutterStep DEF vars
<1> QED BY <1>1, <1>2, <1>3, <1>4

\* Every step of the scheduler is one step of the timer set, or none.
LEMMA StepTimers ==
    ASSUME DispatchInv, [Next]_vars
    PROVE  [Timers!Next]_(Timers!vars)
<1>1. CASE \E id \in ID, ev \in EVENTCLOCK, absolute \in BOOLEAN : NeventSet(id, ev, absolute)
  BY <1>1, SetTimers DEF Timers!Next
<1>2. CASE \E id \in ID : NeventReset(id)
  BY <1>2, ResetTimers DEF Timers!Next
<1>3. CASE NeventForceExit \/ InstructionEnd \/ ExecuteEnd \/ LoopAgain \/ UNCHANGED vars
  BY <1>3, IdleTimers
<1>4. CASE PicIrq \/ Instruction \/ Halt BY <1>4, CpuTimers
<1>5. CASE \E new \in MULTIPLE : ChangeClockByIo(new)
  <2>1. PICK new \in MULTIPLE : phase = "io" /\ Handler /\ ChangeClock(new)
    BY <1>5 DEF ChangeClockByIo
  <2>2. phase' = "io" /\ calls' \in 0 .. MAXCALLS
    BY <2>1, ClockAssumption DEF Handler, DispatchInv, IInv, TypeOK
  <2> QED BY <2>1, <2>2, ChangeClockTimers DEF Timers!Next
<1>6. CASE AsyncCpu
  <2>1. phase = "async" /\ phase' = "main" /\ calls' = MAXCALLS BY <1>6 DEF AsyncCpu
  <2>2. CASE \E new \in MULTIPLE : ChangeClock(new)
    BY <2>1, <2>2, ChangeClockTimers, ClockAssumption DEF Timers!Next
  <2>3. CASE UNCHANGED <<items, queue, setevent, cpuclock, clocks, multiple>>
    <3>1. Elapsed' = Elapsed /\ Running' = Running BY <2>1, <2>3 DEF Elapsed, Running
    <3> QED BY <2>3, <3>1, SameTimers, StutterStep
  <2> QED BY <1>6, <2>2, <2>3 DEF AsyncCpu
<1>7. CASE NeventProgress BY <1>7, ProgressTimers DEF Timers!Next
<1>8. CASE RunCallback BY <1>8, CallTimers DEF Timers!Next
<1>9. CASE CallbackReturn BY <1>9, ReturnTimers DEF Timers!Next
<1>10. CASE Reset BY <1>10, ClearTimers DEF Timers!Next
<1> QED BY <1>1, <1>2, <1>3, <1>4, <1>5, <1>6, <1>7, <1>8, <1>9, <1>10 DEF Next, SchedulerCall

\* The sorted array, the periods and the two-step dispatch of nevent.c behave
\* as a set of one-shot timers, for any number of events and any delays.
THEOREM TimersImplemented == Spec => ImplementsTimerSet
<1>1. Init => Timers!Init BY InitTimers
<1>2. DispatchInv /\ [Next]_vars => [Timers!Next]_(Timers!vars) BY StepTimers
<1> QED BY <1>1, <1>2, DispatchInvariance, PTL DEF Spec, ImplementsTimerSet, Timers!Spec
=============================================================================
