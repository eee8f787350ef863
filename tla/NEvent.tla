------------------------------- MODULE NEvent -------------------------------
(***************************************************************************)
(* The event scheduler of the emulator (nevent.c) with the part of the     *)
(* main loop (pccore_exec) that drives it.                                 *)
(*                                                                         *)
(* Every timed device of the machine owns one event id.  An armed id is in *)
(* "level", an array sorted by "clock"; clocks are relative to the start   *)
(* of the current base period.  CPU_BASECLOCK is the length of the period, *)
(* CPU_REMCLOCK what the CPU may still execute of it, so that              *)
(* CPU_BASECLOCK - CPU_REMCLOCK clocks have elapsed.  When the CPU has     *)
(* used the period up, nevent_progress moves the expired ids to            *)
(* "waitevent" and nevent_execute calls their callbacks one by one; a      *)
(* callback may arm or cancel any event, its own included.                 *)
(*                                                                         *)
(* "phase" is the program counter of that loop.  Callbacks and I/O         *)
(* handlers are arbitrary: up to MAXCALLS scheduler calls each.  The only  *)
(* bit of an item's flag the code ever sets is NEVENT_SETEVENT (nothing    *)
(* sets NEVENT_WAIT or NEVENT_ENABLE), which "setevent" holds.  Callback   *)
(* pointers are left out: the callback of an armed event is never NULL.    *)
(***************************************************************************)
EXTENDS Integers

CONSTANTS
    NoId,        \* not an event id
    ID,          \* event ids, NEVENT_FLAMES ...
    EVENTCLOCK,  \* the delays drivers pass to nevent_set
    COST,        \* clocks one instruction or one interrupt takes
    MULTIPLE,    \* the values of pccore.multiple
    MAXCLOCK,    \* NEVENT_MAXCLOCK: the period when nothing is armed
    WRAP,        \* CPU_CLOCK is counted modulo this, 2^32 in the code
    INTMAX,      \* bound: no clock exceeds it (INT_MAX in the code)
    OVERSHOOT,   \* bound on the clocks run past the end of a period
    MAXCALLS     \* bound on the scheduler calls of one handler

ASSUME ClockAssumption ==
    /\ EVENTCLOCK \subseteq Nat
    /\ COST \subseteq Nat \ {0}
    /\ MULTIPLE \subseteq Nat \ {0}
    /\ MULTIPLE # {}
    /\ WRAP \in Nat \ {0}
    /\ MAXCLOCK \in Nat \ {0}
    /\ INTMAX \in Nat
    /\ MAXCLOCK =< INTMAX
    /\ OVERSHOOT \in Nat
    /\ MAXCALLS \in Nat
    /\ NoId \notin ID

VARIABLES
    readyevents, level,      \* the armed ids, level[1 .. readyevents]
    waitevents, waitevent,   \* the ids whose callbacks are to run
    clock, setevent,         \* item[id].clock, NEVENT_SETEVENT of item[id].flag
    cpuclock,                \* CPU_CLOCK
    baseclock, remclock,     \* CPU_BASECLOCK, CPU_REMCLOCK
    multiple,                \* pccore.multiple
    phase,                   \* where pccore_exec is
    pos,                     \* the loop index of nevent_execute
    calls                    \* scheduler calls the running handler may still make

items == <<readyevents, level, clock>>
queue == <<waitevents, waitevent, pos>>
clocks == <<baseclock, remclock>>
vars == <<readyevents, level, waitevents, waitevent, clock, setevent, cpuclock,
          baseclock, remclock, multiple, phase, pos, calls>>

\* The clocks executed since the start of the period.
Elapsed == baseclock - remclock

\* nevent_iswork
Armed(id) == \E i \in 1 .. readyevents : level[i] = id

\* nevent_getremain, for an armed id
Remain(id) == clock[id] - Elapsed

-----------------------------------------------------------------------------

\* nevent_allreset and the CPU reset that goes with it, in pccore_reset
ResetState ==
    /\ readyevents' = 0 /\ level' = << >>
    /\ waitevents' = 0 /\ waitevent' = << >> /\ pos' = 1
    /\ clock' = [id \in ID |-> 0]
    /\ setevent' = [id \in ID |-> FALSE]
    /\ cpuclock' = 0 /\ baseclock' = 0 /\ remclock' = 0

Init ==
    /\ readyevents = 0 /\ level = << >>
    /\ waitevents = 0 /\ waitevent = << >> /\ pos = 1
    /\ clock = [id \in ID |-> 0]
    /\ setevent = [id \in ID |-> FALSE]
    /\ cpuclock = 0 /\ baseclock = 0 /\ remclock = 0
    /\ multiple \in MULTIPLE
    /\ phase = "main" /\ calls = MAXCALLS

\* A handler is running and calls the scheduler: the I/O handler of an
\* instruction, the callback of an event, or the code between two frames.
Handler ==
    /\ phase \in {"io", "callback", "main"}
    /\ calls > 0
    /\ calls' = calls - 1
    /\ UNCHANGED phase

\* Faulty variant: what follows the id is not moved down.
OthersUnmoved(id) == level

\* The armed ids without id, in their order (nevent_reset)
Others(id) ==
    IF Armed(id)
    THEN LET p == CHOOSE i \in 1 .. readyevents : level[i] = id
         IN  [i \in 1 .. readyevents - 1 |-> IF i < p THEN level[i] ELSE level[i + 1]]
    ELSE level

OthersCount(id) == IF Armed(id) THEN readyevents - 1 ELSE readyevents

\* Faulty variant: the array is moved up from the front, so that one entry
\* overwrites all that follow.
InsertedFromFront(s, n, p, id) ==
    [i \in 1 .. n + 1 |-> IF i < p THEN s[i] ELSE IF i = p THEN id ELSE s[p]]

\* s with id at place p, what followed moved up (the insertion of nevent_set)
Inserted(s, n, p, id) ==
    [i \in 1 .. n + 1 |-> IF i < p THEN s[i] ELSE IF i = p THEN id ELSE s[i - 1]]

\* Faulty variant: the event is appended whatever its clock.
IsLastPlace(s, n, p, c) == p = n + 1

\* The place of an event due at c: behind every event due no later
IsPlace(s, n, p, c) ==
    /\ \A i \in 1 .. p - 1 : clock[s[i]] =< c
    /\ p =< n => c < clock[s[p]]

\* Faulty variant: what has elapsed of the period is forgotten.
DueClockOfPeriod(id, ev, absolute) == IF absolute THEN ev ELSE clock[id] + ev

\* The clock an event is set to: counted from now, or from its last one
DueClock(id, ev, absolute) == IF absolute THEN ev + Elapsed ELSE clock[id] + ev

\* Faulty variant: the period is left as it is.
PeriodKept(p, c) == UNCHANGED clocks

\* The period ends with the first event
PeriodUntil(p, c) ==
    IF p = 1
    THEN /\ baseclock' = c
         /\ remclock' = remclock - (baseclock - c)
         /\ remclock' >= -OVERSHOOT
    ELSE UNCHANGED clocks

\* nevent_set(id, ev, proc, absolute)
NeventSet(id, ev, absolute) ==
    LET c == DueClock(id, ev, absolute)
        s == Others(id)
        n == OthersCount(id)
    IN  /\ Handler
        /\ c =< INTMAX
        /\ clock' = [clock EXCEPT ![id] = c]
        /\ setevent' = [setevent EXCEPT ![id] = FALSE]
        /\ \E p \in 1 .. n + 1 :
              /\ IsPlace(s, n, p, c)
              /\ level' = Inserted(s, n, p, id)
              /\ readyevents' = n + 1
              /\ PeriodUntil(p, c)
        /\ UNCHANGED <<queue, cpuclock, multiple>>

\* nevent_reset(id): the id is no longer armed; "waitevent" is left alone
NeventReset(id) ==
    /\ Handler
    /\ Armed(id)
    /\ level' = Others(id)
    /\ readyevents' = OthersCount(id)
    /\ UNCHANGED <<queue, clock, setevent, cpuclock, clocks, multiple>>

\* nevent_forceexit: end the period here, so that the CPU loop is left; I/O
\* handlers and callbacks call it, the code between frames does not
NeventForceExit ==
    /\ Handler
    /\ phase # "main"
    /\ remclock > 0
    /\ baseclock' = baseclock - remclock
    /\ remclock' = 0
    /\ UNCHANGED <<items, queue, setevent, cpuclock, multiple>>

-----------------------------------------------------------------------------
(***************************************************************************)
(* nevent_changeclock: the CPU multiplier changes, what is pending keeps   *)
(* its time.                                                               *)
(***************************************************************************)

\* C division: towards zero
Quotient(a, b) == IF a >= 0 THEN a \div b ELSE -((-a) \div b)

Scale(c, new) == Quotient(c * new + (multiple \div 2), multiple)

\* The scaled clock of an armed item: at least 1, at most INT_MAX
ScaledClock(c, new) ==
    LET s == Scale(c, new)
    IN  IF c =< 0 THEN c
        ELSE IF s =< 0 THEN 1
        ELSE IF s > INTMAX THEN INTMAX ELSE s

ChangeClock(new) ==
    /\ new # multiple
    /\ multiple' = new
    /\ IF readyevents = 0
       THEN UNCHANGED <<clock, clocks>>
       ELSE /\ clock' = [id \in ID |-> IF Armed(id) THEN ScaledClock(clock[id], new)
                                       ELSE clock[id]]
            /\ IF baseclock = remclock
               THEN /\ baseclock' = clock'[level[1]]
                    /\ remclock' = clock'[level[1]]
               ELSE /\ baseclock' = Scale(baseclock, new)
                    /\ remclock' = Scale(remclock, new)
                    /\ baseclock' =< INTMAX
                    /\ remclock' >= -OVERSHOOT
    /\ UNCHANGED <<readyevents, level, queue, setevent, cpuclock>>

\* np2sysp_cngclkmul: the guest sets the multiplier through an I/O port
ChangeClockByIo(new) == phase = "io" /\ Handler /\ ChangeClock(new)

\* pccore_asynccpu: the multiplier follows the load of the host
AsyncCpu ==
    /\ phase = "async"
    /\ \/ UNCHANGED <<items, queue, setevent, cpuclock, clocks, multiple>>
       \/ \E new \in MULTIPLE : ChangeClock(new)
    /\ phase' = "main"
    /\ calls' = MAXCALLS

-----------------------------------------------------------------------------
(***************************************************************************)
(* The CPU                                                                 *)
(***************************************************************************)

\* The head of the loop: pic_irq, which may take an interrupt, then the CPU
\* if it has clocks left
PicIrq ==
    /\ phase = "irq"
    /\ \E c \in COST \cup {0} :
          /\ remclock - c >= -OVERSHOOT
          /\ remclock' = remclock - c
    /\ phase' = IF remclock' > 0 THEN "cpu" ELSE "progress"
    /\ UNCHANGED <<items, queue, setevent, cpuclock, baseclock, multiple, calls>>

\* One instruction; its I/O handler, if any, runs after its clocks are taken
Instruction ==
    /\ phase = "cpu"
    /\ \E c \in COST :
          /\ remclock - c >= -OVERSHOOT
          /\ remclock' = remclock - c
    /\ phase' = "io"
    /\ calls' = MAXCALLS
    /\ UNCHANGED <<items, queue, setevent, cpuclock, baseclock, multiple>>

\* HLT: CPU_HALT() drops the rest of the period
Halt ==
    /\ phase = "cpu"
    /\ remclock' = -1
    /\ phase' = "progress"
    /\ UNCHANGED <<items, queue, setevent, cpuclock, baseclock, multiple, calls>>

\* while (CPU_REMCLOCK > 0)
InstructionEnd ==
    /\ phase = "io"
    /\ phase' = IF remclock > 0 THEN "cpu" ELSE "progress"
    /\ calls' = 0
    /\ UNCHANGED <<items, queue, setevent, cpuclock, clocks, multiple>>

-----------------------------------------------------------------------------
(***************************************************************************)
(* nevent_progress and nevent_execute                                      *)
(***************************************************************************)

\* The maps from 1 .. n that list the places in K in ascending order
Ascending(K, n) ==
    {f \in [1 .. n -> K] :
        /\ \A i, j \in 1 .. n : i < j => f[i] < f[j]
        /\ \A k \in K : \E i \in 1 .. n : f[i] = k}

\* Faulty variants: an event expires one clock early, or one clock late.
ExpiredEarly(id) == clock[id] - baseclock =< 1
ExpiredLate(id) == clock[id] - baseclock < 0

Expired(id) == clock[id] - baseclock =< 0

\* Faulty variant: clocks run past the end of the period are not charged to
\* the next one.
PeriodFresh(end) == baseclock' = end /\ remclock' = end

\* The next period ends at end, the overshoot of this one is charged to it
NextPeriod(end) == baseclock' = end /\ remclock' = remclock + end

\* nevent_progress up to its call of nevent_execute: the period is over,
\* what has expired leaves "level" for "waitevent", and the next period ends
\* with the first of the others
NeventProgress ==
    LET expired == {i \in 1 .. readyevents : Expired(level[i])}
        waiting == 1 .. readyevents \ expired
        called  == {i \in expired : ~ setevent[level[i]]}
        ends    == {MAXCLOCK} \cup {clock[level[i]] - baseclock : i \in waiting}
    IN  /\ phase = "progress"
        /\ cpuclock' = (cpuclock + baseclock) % WRAP
        /\ clock' = [id \in ID |-> clock[id] - IF Armed(id) THEN baseclock ELSE 0]
        /\ setevent' = [id \in ID |-> setevent[id] \/ \E i \in expired : level[i] = id]
        /\ \E n \in 0 .. readyevents : \E f \in Ascending(waiting, n) :
              /\ readyevents' = n
              /\ level' = [i \in 1 .. n |-> level[f[i]]]
        /\ \E n \in 0 .. readyevents : \E f \in Ascending(called, n) :
              /\ waitevents' = waitevents + n
              /\ waitevent' = [i \in 1 .. waitevents + n |->
                                  IF i =< waitevents THEN waitevent[i]
                                  ELSE level[f[i - waitevents]]]
        /\ \E end \in ends :
              /\ \A e \in ends : end =< e
              /\ NextPeriod(end)
        /\ phase' = "execute"
        /\ UNCHANGED <<multiple, pos, calls>>

\* nevent_execute: the next callback is entered ...
RunCallback ==
    /\ phase = "execute"
    /\ pos =< waitevents
    /\ phase' = "callback"
    /\ calls' = MAXCALLS
    /\ UNCHANGED <<items, queue, setevent, cpuclock, clocks, multiple>>

\* ... and returns
CallbackReturn ==
    /\ phase = "callback"
    /\ setevent' = [setevent EXCEPT ![waitevent[pos]] = FALSE]
    /\ pos' = pos + 1
    /\ phase' = "execute"
    /\ calls' = 0
    /\ UNCHANGED <<items, waitevents, waitevent, cpuclock, clocks, multiple>>

\* The end of nevent_execute: nothing is carried over to the next period
ExecuteEnd ==
    /\ phase = "execute"
    /\ pos > waitevents
    /\ waitevents' = 0 /\ waitevent' = << >> /\ pos' = 1
    /\ phase' = "async"
    /\ UNCHANGED <<items, setevent, cpuclock, clocks, multiple, calls>>

\* Around the loop again, at once or in the next frame
LoopAgain ==
    /\ phase = "main"
    /\ phase' = "irq"
    /\ calls' = 0
    /\ UNCHANGED <<items, queue, setevent, cpuclock, clocks, multiple>>

\* pccore_reset, between two frames
Reset ==
    /\ phase = "main"
    /\ ResetState
    /\ multiple' \in MULTIPLE
    /\ calls' = MAXCALLS
    /\ UNCHANGED phase

-----------------------------------------------------------------------------

SchedulerCall ==
    \/ \E id \in ID, ev \in EVENTCLOCK, absolute \in BOOLEAN : NeventSet(id, ev, absolute)
    \/ \E id \in ID : NeventReset(id)
    \/ NeventForceExit
    \/ \E new \in MULTIPLE : ChangeClockByIo(new)

Next ==
    \/ SchedulerCall
    \/ AsyncCpu
    \/ PicIrq
    \/ Instruction
    \/ Halt
    \/ InstructionEnd
    \/ NeventProgress
    \/ RunCallback
    \/ CallbackReturn
    \/ ExecuteEnd
    \/ LoopAgain
    \/ Reset

Spec == Init /\ [][Next]_vars

\* The emulator thread runs as long as the emulator does.
FairSpec == Spec /\ WF_vars(Next)

-----------------------------------------------------------------------------
(***************************************************************************)
(* The scheduler implements a set of timers: the time that remains to an   *)
(* id is its clock less what has elapsed, and the batch is the part of     *)
(* "waitevent" whose callbacks have not returned.                          *)
(***************************************************************************)

Batch == {waitevent[i] : i \in pos .. waitevents}
Void == {id \in Batch : ~ setevent[id]}
ArmedIds == {id \in ID : Armed(id)}

Timers == INSTANCE TimerSet WITH
    Delay <- EVENTCLOCK,
    Time <- -(2 * INTMAX + OVERSHOOT) .. (2 * INTMAX + OVERSHOOT),
    armed <- ArmedIds,
    batch <- Batch,
    void <- Void,
    remain <- [id \in ArmedIds \cup (Batch \ Void) |-> Remain(id)],
    running <- IF phase = "callback" THEN waitevent[pos] ELSE NoId

-----------------------------------------------------------------------------
(***************************************************************************)
(* Properties                                                              *)
(***************************************************************************)

Phases == {"irq", "cpu", "io", "progress", "execute", "callback", "async", "main"}

\* The types of the scheduler's state: the two arrays hold event ids up to
\* their counts, no clock of an item is negative.
TypeOK ==
    /\ readyevents \in Nat /\ level \in [1 .. readyevents -> ID]
    /\ waitevents \in Nat /\ waitevent \in [1 .. waitevents -> ID]
    /\ clock \in [ID -> Nat] /\ setevent \in [ID -> BOOLEAN]
    /\ cpuclock \in 0 .. WRAP - 1
    /\ baseclock \in Nat /\ remclock \in Int
    /\ multiple \in MULTIPLE
    /\ phase \in Phases
    /\ pos \in Nat \ {0}
    /\ calls \in 0 .. MAXCALLS

\* An id is armed at most once and waits for its callback at most once, so
\* that neither array of NEVENT_MAXEVENTS entries can overflow whatever the
\* drivers arm (nevent_set removes the id before it inserts it).
NoDuplicates ==
    /\ \A i, j \in 1 .. readyevents : level[i] = level[j] => i = j
    /\ \A i, j \in 1 .. waitevents : waitevent[i] = waitevent[j] => i = j

\* The armed events are in the order they fall due, through every insertion,
\* removal, compaction and change of the CPU clock.
LevelSorted ==
    \A i, j \in 1 .. readyevents : i < j => clock[level[i]] =< clock[level[j]]

\* The CPU is never given clocks past an armed event: the period ends no
\* later than the first event, and no later than it began plus what has
\* elapsed when the CPU is forced out.
NoOversleep ==
    /\ \A i \in 1 .. readyevents : baseclock =< clock[level[i]]
    /\ remclock =< baseclock

\* nevent_changeclock says that the automatic adjustment changes the clock at
\* a moment when no clock of the period has elapsed.  That is not so: clocks
\* run past the end of the last period have.
AdjustedAtPeriodStart == phase = "async" /\ readyevents > 0 => baseclock = remclock

\* The machine time that the devices read is moved by the CPU alone: arming,
\* cancelling, forcing the CPU out and starting a new period lose no clock
\* that was executed and add none.  A change of the multiplier counts what has
\* elapsed of the period in the new clocks and is off by less than two of
\* them, one for each end that it rounds; with nothing armed the code leaves
\* the period as it is, and the property says nothing.
Now == (cpuclock + baseclock - remclock) % WRAP
Rescaled ==
    readyevents > 0 =>
        /\ cpuclock' = cpuclock
        /\ Elapsed' * multiple - Elapsed * multiple' > -(2 * multiple)
        /\ Elapsed' * multiple - Elapsed * multiple' < 2 * multiple
OnlyCpuMovesTime ==
    [][phase \notin {"cpu", "irq"} /\ ~ ResetState =>
           IF multiple' = multiple THEN Now' = Now ELSE Rescaled]_vars

\* A callback entered with NEVENT_SETEVENT set is for an event that is due
\* and is not armed for a later time: drivers that test the flag act neither
\* early nor on an event that was armed again by another callback of the same
\* nevent_execute.
CalledWhenDue ==
    [][RunCallback => LET id == waitevent[pos]
                      IN  setevent[id] => ~ Armed(id) /\ Remain(id) =< 0]_vars

\* The sorted array, the split of time into periods and the two-step dispatch
\* behave as a set of independent one-shot timers: none is lost, none is
\* called twice or before another that ran out earlier, arming or cancelling
\* one moves no other, and a periodic one does not drift.
ImplementsTimerSet == Timers!Spec

\* An event that is armed, and that its driver leaves alone, is called: it
\* cannot stay armed for ever, unless it is set again for ever or the clock
\* is changed for ever (each change rounds the pending clocks up), or some
\* event is armed for no delay for ever, which holds the time.
NoStarvation ==
    (/\ <>[][multiple' = multiple]_vars
     /\ <>[][\A id \in ID, a \in BOOLEAN : ~ NeventSet(id, 0, a)]_vars) =>
        \A id \in ID :
            \/ []<>(~ Armed(id))
            \/ []<><<\E ev \in EVENTCLOCK, a \in BOOLEAN : NeventSet(id, ev, a)>>_vars
=============================================================================
