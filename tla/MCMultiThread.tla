--------------------------- MODULE MCMultiThread ---------------------------
(***************************************************************************)
(* MultiThread with the history of its suspensions, and the properties     *)
(* that hold of all handlers, nested in any way: they say what is left     *)
(* when the findings of the other runs, and one more, are taken away.      *)
(***************************************************************************)
EXTENDS MultiThread

\* What happened since the two threads last agreed:
VARIABLES
    inside,     \* a handler has suspended inside the wait of another one
    stale       \* a thread began with "pausing" left over from the last one

Outermost == Len(stack) = 1

Started == emu \in {"ended", "none"} /\ emu' = "check"

\* No handler runs, and the emulation thread goes its round by clear flags.
Agreed == stack = << >> /\ ~ pauseemulation /\ ~ pausing /\ emu \in {"check", "frame"}

TracedNext ==
    /\ Next
    /\ inside' = ((inside \/ (Suspend /\ ~ Outermost)) /\ ~ Agreed')
    /\ stale' = ((stale \/ (Started /\ pausing')) /\ ~ Agreed')

TracedInit == Init /\ inside = FALSE /\ stale = FALSE

TracedSpec == TracedInit /\ [][TracedNext]_<<vars, inside, stale>>

FairTracedSpec == TracedSpec /\ Fairness

-----------------------------------------------------------------------------

\* A handler that has suspended the emulation has it stand still until it
\* resumes it, whatever messages are handled inside its waits, unless another
\* Suspend ran there (np2.cpp:336 does not count them) or a thread was new and
\* had not yet cleared the answer of the one before it (np2.cpp:383).
CountedIsStill == ~ inside /\ ~ stale => SuspendedIsStill

\* A command, which suspends with the critical section held, meets a text that
\* is typed.
TextMeetsCommand ==
    /\ \E i \in DOMAIN stack : stack[i].handler = "command"
    /\ pasted > 0 \/ emu \in {"enter", "typing"}

\* No wait of the window thread is for ever, in any state the emulation thread
\* may be in when it is asked to pause: unless a text is typed while a command
\* suspends (np2.cpp:3564), or a Suspend ran inside the wait of another, whose
\* Resume takes back the flag that the outer one waits for.
ApartHandlersEnd == stack # << >> ~> stack = << >> \/ inside \/ TextMeetsCommand

\* The emulation goes on after it was suspended, or with the next thread,
\* unless the user pauses it or keeps suspending it.
ApartGoesOn ==
    UserSettles =>
        (pauseemulation ~> emu = "frame" \/ userpause \/ ~ enable \/ inside \/ TextMeetsCommand)
=============================================================================
