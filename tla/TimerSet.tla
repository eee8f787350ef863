------------------------------ MODULE TimerSet ------------------------------
(***************************************************************************)
(* What the scheduler promises to the devices: a set of one-shot timers.   *)
(* Each armed timer has the time that remains to it; time that passes is   *)
(* taken from all of them alike.  Timers that have run out are collected   *)
(* in a batch, never one before another that ran out earlier, and their    *)
(* callbacks are called in the order they ran out.  Arming a timer that is *)
(* in the batch voids its pending call: the call still comes, but marked   *)
(* as stale.  Cancelling a timer has no effect on a call already           *)
(* collected.                                                              *)
(***************************************************************************)
EXTENDS Integers

CONSTANTS
    ID,      \* the timers
    NoId,    \* none of them
    Delay,   \* the delays timers are armed for
    Time     \* the values a remaining time can have, negative when overdue

VARIABLES
    armed,     \* the timers that are running
    batch,     \* the timers collected whose callback has not returned
    void,      \* those of the batch that were armed again since
    remain,    \* the time that remains to armed and collected timers
    running    \* the timer whose callback runs, or NoId

vars == <<armed, batch, void, remain, running>>

\* The timers whose remaining time is known
Known == armed \cup (batch \ void)

Init ==
    /\ armed = {} /\ batch = {} /\ void = {}
    /\ remain = << >>
    /\ running = NoId

\* Time passes, only while no callback is pending
Elapse ==
    /\ batch = {} /\ running = NoId
    /\ \E n \in Time : n > 0 /\ remain' = [id \in armed |-> remain[id] - n]
    /\ UNCHANGED <<armed, batch, void, running>>

\* A timer is armed: for d from now, or for d after the time it runs out or
\* ran out, so that a timer that its own callback arms again does not drift.
\* That time is not known of a timer that is neither armed nor collected.
Arm(id) ==
    /\ armed' = armed \cup {id}
    /\ void' = void \cup ({id} \cap batch)
    /\ DOMAIN remain' = armed' \cup (batch \ void')
    /\ \A x \in Known \ {id} : remain'[x] = remain[x]
    /\ \/ remain'[id] \in Delay
       \/ id \in Known /\ \E d \in Delay : remain'[id] = remain[id] + d
       \/ id \notin Known /\ remain'[id] \in Time
    /\ UNCHANGED <<batch, running>>

Cancel(id) ==
    /\ armed' = armed \ {id}
    /\ remain' = [x \in (armed \ {id}) \cup (batch \ void) |-> remain[x]]
    /\ UNCHANGED <<batch, void, running>>

\* The timers that have run out are collected, earlier ones first
Collect ==
    /\ batch = {}
    /\ \E r \in Time :
          /\ r =< 0
          /\ batch' = {id \in armed : remain[id] =< r}
          /\ armed' = armed \ batch'
    /\ UNCHANGED <<void, remain, running>>

\* The callback of a collected timer: of those not void the earliest is next
Call(id) ==
    /\ running = NoId
    /\ id \in batch
    /\ id \notin void => \A x \in batch \ void : remain[id] =< remain[x]
    /\ running' = id
    /\ UNCHANGED <<armed, batch, void, remain>>

Return ==
    /\ running # NoId
    /\ running' = NoId
    /\ batch' = batch \ {running}
    /\ void' = void \ {running}
    /\ remain' = [id \in armed \cup (batch' \ void') |-> remain[id]]
    /\ UNCHANGED armed

\* The clock is changed: the order in which the timers run out is kept
Rescale ==
    /\ batch = {} /\ running = NoId
    /\ DOMAIN remain' = armed
    /\ \A x, y \in armed : remain[x] =< remain[y] => remain'[x] =< remain'[y]
    /\ UNCHANGED <<armed, batch, void, running>>

\* The machine is reset
Clear ==
    /\ running = NoId
    /\ armed' = {} /\ batch' = {} /\ void' = {}
    /\ remain' = << >>
    /\ UNCHANGED running

Next ==
    \/ Elapse \/ Collect \/ Return \/ Rescale \/ Clear
    \/ \E id \in ID : Arm(id) \/ Cancel(id) \/ Call(id)

Spec == Init /\ [][Next]_vars
=============================================================================
