---------------------------- MODULE MultiThread ----------------------------
(***************************************************************************)
(* The two threads of the Windows build (win9x/np2.cpp): the window thread *)
(* handles messages, the emulation thread runs the machine frame by frame. *)
(*                                                                         *)
(* A message handler that needs the machine to stand still calls           *)
(* np2_multithread_Suspend, which sets a flag and waits until the other    *)
(* thread says that it is pausing; Resume clears the flag and waits until  *)
(* it says it no longer is.  After some time either wait dispatches        *)
(* messages, so that another handler runs inside.  Most handlers also hold *)
(* a critical section, which the emulation thread takes while it types a   *)
(* pasted text for the user, but not while it runs a frame.                *)
(*                                                                         *)
(* A handler is its sequence of steps; "stack" holds the handlers that run *)
(* and the step each is at, the innermost last.  A switch of the           *)
(* configuration ends the emulation thread and may start another one.      *)
(* Left out: the timeout after which a thread that does not end is killed, *)
(* and what the single-threaded mode does, with nobody to race with.       *)
(***************************************************************************)
EXTENDS Integers, Sequences

CONSTANTS
    HANDLERS,   \* the messages that arrive
    NESTED,     \* those that arrive while a handler waits
    DEPTH,      \* bound on the handlers inside one another
    PASTED      \* bound on the characters of a pasted text

\* Each handler of the window thread is one of these:
Handler == {"command", "screen", "input", "pause", "paste", "config"}

ASSUME ThreadAssumption ==
    /\ HANDLERS \subseteq Handler /\ NESTED \subseteq Handler
    /\ DEPTH \in Nat /\ PASTED \in Nat

VARIABLES
    stack,              \* the handlers of the window thread
    pauseemulation,     \* np2_multithread_pauseemulation
    pausing,            \* np2_multithread_pausing
    requestexit,        \* np2_multithread_hThread_requestexit
    enable,             \* np2_multithread_enable; there is a thread
    requestswitch,      \* np2_multithread_requestswitch
    owner,              \* who holds the critical section
    userpause,          \* np2userpause or np2stopemulate
    pasted,             \* the characters still to be typed
    emu                 \* where the emulation thread is

flags == <<pauseemulation, pausing, requestexit>>
mode == <<enable, requestswitch>>
vars == <<stack, flags, mode, owner, userpause, pasted, emu>>

Init ==
    /\ stack = << >>
    /\ pauseemulation = FALSE /\ pausing = FALSE /\ requestexit = FALSE
    /\ enable = TRUE /\ requestswitch = FALSE
    /\ owner = "none" /\ userpause = FALSE /\ pasted = 0
    /\ emu = "check"

-----------------------------------------------------------------------------
(***************************************************************************)
(* The window thread                                                       *)
(***************************************************************************)

\* Faulty variant: changescreen suspends with the critical section held.
ScreenStepsSwapped == <<"enter", "suspend", "suspending", "work", "resume", "resuming", "leave">>

\* changescreen suspends the emulation, then enters the critical section
ScreenSteps == <<"suspend", "suspending", "enter", "work", "leave", "resume", "resuming">>

\* WM_COMMAND, WM_NP2CMD and WM_DROPFILES hold the critical section around a
\* handler that suspends: a reset, the change of a disk, a saved state.  The
\* others do not suspend: a key, the pause, a paste, the configuration.  The
\* end of the thread, "switch", is a part of the main loop.
Steps(h) ==
    CASE h = "command" -> <<"enter", "suspend", "suspending", "work", "resume", "resuming", "leave">>
      [] h = "screen"  -> ScreenSteps
      [] h = "input"   -> <<"enter", "leave">>
      [] h = "pause"   -> <<"enter", "pause", "leave">>
      [] h = "paste"   -> <<"enter", "paste", "leave">>
      [] h = "config"  -> <<"enter", "config", "leave">>
      [] h = "switch"  -> <<"suspend", "suspending", "exit", "join">>

Top == stack[Len(stack)]

\* The step the window thread is at
AtStep(s) == stack # << >> /\ Steps(Top.handler)[Top.at] = s

\* The innermost handler goes n steps on, and returns at its end
Forward(n) ==
    stack' = IF Top.at + n > Len(Steps(Top.handler))
             THEN SubSeq(stack, 1, Len(stack) - 1)
             ELSE [stack EXCEPT ![Len(stack)].at = @ + n]

\* np2_multithread_Suspend and Resume wait for the other thread to answer
Waits ==
    /\ (AtStep("suspending") /\ ~ pausing) \/ (AtStep("resuming") /\ pausing)
    /\ ~ requestexit

\* A message is dispatched, by the main loop or by a wait that has taken long
Dispatch(h) ==
    /\ IF stack = << >> THEN ~ requestswitch /\ h \in HANDLERS
       ELSE h \in NESTED /\ Waits
    /\ Len(stack) < DEPTH
    /\ stack' = Append(stack, [handler |-> h, at |-> 1])
    /\ UNCHANGED <<flags, mode, owner, userpause, pasted, emu>>

\* np2_multithread_EnterCriticalSection, LeaveCriticalSection: the section
\* counts how often its owner entered it
Inside == {i \in 1 .. Len(stack) : \E j, k \in DOMAIN Steps(stack[i].handler) :
              /\ Steps(stack[i].handler)[j] = "enter" /\ Steps(stack[i].handler)[k] = "leave"
              /\ j < stack[i].at /\ stack[i].at =< k}

Enter ==
    /\ AtStep("enter")
    /\ IF enable THEN owner # "emulator" /\ owner' = "window" ELSE UNCHANGED owner
    /\ Forward(1)
    /\ UNCHANGED <<flags, mode, userpause, pasted, emu>>

Leave ==
    /\ AtStep("leave")
    /\ owner' = IF Inside = {Len(stack)} THEN "none" ELSE owner
    /\ Forward(1)
    /\ UNCHANGED <<flags, mode, userpause, pasted, emu>>

\* Faulty variant: Resume does not wait.
MustWaitNever == FALSE

\* Suspend and Resume wait if there is a thread
MustWait == enable

\* np2_multithread_Suspend: nothing to do if the flag is set already
Suspend ==
    /\ AtStep("suspend")
    /\ pauseemulation' = TRUE
    /\ Forward(IF enable /\ ~ pauseemulation THEN 1 ELSE 2)
    /\ UNCHANGED <<pausing, requestexit, mode, owner, userpause, pasted, emu>>

SuspendWait ==
    /\ AtStep("suspending") /\ ~ Waits
    /\ Forward(1)
    /\ UNCHANGED <<flags, mode, owner, userpause, pasted, emu>>

\* np2_multithread_Resume
Resume ==
    /\ AtStep("resume")
    /\ pauseemulation' = FALSE
    /\ Forward(IF MustWait /\ pauseemulation THEN 1 ELSE 2)
    /\ UNCHANGED <<pausing, requestexit, mode, owner, userpause, pasted, emu>>

ResumeWait ==
    /\ AtStep("resuming") /\ ~ Waits
    /\ Forward(1)
    /\ UNCHANGED <<flags, mode, owner, userpause, pasted, emu>>

\* What the handler does while the emulation stands still: a reset, a disk, a
\* saved state.  A reset ends the pause of the user.
Work ==
    /\ AtStep("work")
    /\ userpause' \in {FALSE, userpause}
    /\ Forward(1)
    /\ UNCHANGED <<flags, mode, owner, pasted, emu>>

\* IDM_PAUSE, and the window losing the focus or getting it
Pause ==
    /\ AtStep("pause")
    /\ userpause' = ~ userpause
    /\ Forward(1)
    /\ UNCHANGED <<flags, mode, owner, pasted, emu>>

\* IDM_COPYPASTE_PASTE: a text to be typed, or the end of one that is
Paste ==
    /\ AtStep("paste")
    /\ pasted' = IF pasted = 0 THEN PASTED ELSE 0
    /\ Forward(1)
    /\ UNCHANGED <<flags, mode, owner, userpause, emu>>

\* IDM_CONFIG: the number of threads is to change
Config ==
    /\ AtStep("config")
    /\ requestswitch' = TRUE
    /\ Forward(1)
    /\ UNCHANGED <<flags, enable, owner, userpause, pasted, emu>>

\* The main loop ends the thread (np2_multithread_WaitForExitThread) ...
WaitForExitThread ==
    /\ stack = << >> /\ requestswitch /\ enable
    /\ stack' = <<[handler |-> "switch", at |-> 1]>>
    /\ UNCHANGED <<flags, mode, owner, userpause, pasted, emu>>

Exit ==
    /\ AtStep("exit")
    /\ requestexit' = TRUE
    /\ Forward(1)
    /\ UNCHANGED <<pauseemulation, pausing, mode, owner, userpause, pasted, emu>>

\* Faulty variant: the next thread finds the flag that stopped the last one.
PauseAfterExitKept == pauseemulation

PauseAfterExit == FALSE

\* The main loop starts again, with or without a thread: the configuration
\* may have been loaded anew
Restart(threads) ==
    /\ requestswitch' = FALSE
    /\ enable' = threads
    /\ requestexit' = (requestexit /\ ~ threads)
    /\ emu' = IF threads THEN "check" ELSE "none"

Join ==
    /\ AtStep("join")
    /\ emu = "ended"
    /\ pauseemulation' = PauseAfterExit
    /\ \E threads \in BOOLEAN : Restart(threads)
    /\ Forward(1)
    /\ UNCHANGED <<pausing, owner, userpause, pasted>>

\* ... or, without a thread, starts one
StartThread ==
    /\ stack = << >> /\ requestswitch /\ ~ enable
    /\ \E threads \in BOOLEAN : Restart(threads)
    /\ UNCHANGED <<stack, pauseemulation, pausing, owner, userpause, pasted>>

-----------------------------------------------------------------------------
(***************************************************************************)
(* The emulation thread: np2_multithread_EmulatorThreadMain                *)
(***************************************************************************)

Goto(place) == emu' = place

\* while (!requestexit)
Check ==
    /\ emu = "check"
    /\ Goto(IF requestexit THEN "ended" ELSE "flags")
    /\ UNCHANGED <<stack, flags, mode, owner, userpause, pasted>>

\* if (!np2stopemulate && !pauseemulation && !np2userpause)
Flags ==
    /\ emu = "flags"
    /\ Goto(IF pauseemulation \/ userpause THEN "branch" ELSE "clear")
    /\ UNCHANGED <<stack, flags, mode, owner, userpause, pasted>>

\* Faulty variant: a pause of the user comes before the one of a handler.
PausesUnlessUser == pauseemulation /\ ~ userpause

Pauses == pauseemulation

Branch ==
    /\ emu = "branch"
    /\ Goto(IF Pauses THEN "set" ELSE "unset")
    /\ UNCHANGED <<stack, flags, mode, owner, userpause, pasted>>

\* pausing = true, pausing = false
SetPausing(place, value, next) ==
    /\ emu = place
    /\ pausing' = value
    /\ Goto(next)
    /\ UNCHANGED <<stack, pauseemulation, requestexit, mode, owner, userpause, pasted>>

\* A frame; then, while a text is pasted, a key of it
Frame ==
    /\ emu = "frame"
    /\ Goto(IF pasted > 0 THEN "enter" ELSE "check")
    /\ UNCHANGED <<stack, flags, mode, owner, userpause, pasted>>

\* Faulty variant: the end of the text is passed when a key ends the paste.
OneTypedPast == pasted - 1

\* What is left of the text when a character was typed
OneTyped == IF pasted > 0 THEN pasted - 1 ELSE 0

\* autoSendKey
AutoSendKey ==
    /\ emu = "enter"
    /\ owner = "none"
    /\ owner' = "emulator"
    /\ Goto("typing")
    /\ UNCHANGED <<stack, flags, mode, userpause, pasted>>

AutoSendKeyEnd ==
    /\ emu = "typing"
    /\ owner' = "none"
    /\ pasted' = OneTyped
    /\ Goto("check")
    /\ UNCHANGED <<stack, flags, mode, userpause>>

-----------------------------------------------------------------------------

WindowStep ==
    \/ Enter \/ Leave
    \/ Suspend \/ SuspendWait \/ Resume \/ ResumeWait
    \/ Work \/ Pause \/ Paste \/ Config
    \/ Exit \/ Join

EmulatorStep ==
    \/ Check \/ Flags \/ Branch
    \/ SetPausing("clear", FALSE, "frame")
    \/ SetPausing("set", TRUE, "check")
    \/ SetPausing("unset", FALSE, "check")
    \/ Frame \/ AutoSendKeyEnd

Next ==
    \/ \E h \in Handler : Dispatch(h)
    \/ WindowStep \/ WaitForExitThread \/ StartThread
    \/ EmulatorStep \/ AutoSendKey

Spec == Init /\ [][Next]_vars

\* Both threads run.  A thread that keeps asking for the critical section gets
\* it, since the other one sleeps between the times it holds it.
Fairness ==
    /\ WF_vars(WindowStep) /\ SF_vars(Enter) /\ WF_vars(WaitForExitThread)
    /\ WF_vars(StartThread)
    /\ WF_vars(EmulatorStep) /\ SF_vars(AutoSendKey)

FairSpec == Spec /\ Fairness

-----------------------------------------------------------------------------
(***************************************************************************)
(* Properties                                                              *)
(***************************************************************************)

TypeOK ==
    /\ stack \in Seq([handler : Handler \cup {"switch"}, at : 1 .. 7])
    /\ Len(stack) =< DEPTH
    /\ \A i \in DOMAIN stack : stack[i].at =< Len(Steps(stack[i].handler))
    /\ pauseemulation \in BOOLEAN /\ pausing \in BOOLEAN /\ requestexit \in BOOLEAN
    /\ enable \in BOOLEAN /\ requestswitch \in BOOLEAN
    /\ owner \in {"none", "window", "emulator"}
    /\ userpause \in BOOLEAN /\ pasted \in 0 .. PASTED
    /\ emu \in {"check", "flags", "clear", "frame", "branch", "set", "unset",
                "enter", "typing", "ended", "none"}

\* The handler has returned from Suspend and has not called Resume
Suspended(i) ==
    LET steps == Steps(stack[i].handler)
    IN  \E j, k \in DOMAIN steps :
            /\ steps[j] = "suspending" /\ steps[k] \in {"resume", "exit"}
            /\ j < stack[i].at /\ stack[i].at =< k

\* While a handler that has suspended the emulation resets the machine,
\* changes a disk or saves a state, no frame runs and no key is typed.
SuspendedIsStill ==
    (\E i \in DOMAIN stack : Suspended(i)) => emu \notin {"frame", "enter", "typing"}

\* Every handler comes to its end: no wait of the window thread is for ever,
\* whether the user has paused the machine, pastes a text or switches threads.
HandlersEnd == stack # << >> ~> stack = << >>

\* The user does nothing more.
UserSettles == <>[][\A h \in Handler : ~ Dispatch(h)]_vars
=============================================================================
