------------------------- MODULE MultiThreadProofs -------------------------
EXTENDS MCMultiThread, SequenceTheorems, TLAPS

(***************************************************************************)
(* Proofs about the two threads of the Windows build.                      *)
(*                                                                         *)
(* SuspendedIsStill is not inductive: that the emulation thread cannot be  *)
(* in a frame while a handler is at work follows from where either thread  *)
(* was before.  The invariant says, for each phase of the outermost        *)
(* handler (nothing suspended, waiting for the pause, at work, waiting for *)
(* the end of the thread, waiting for the end of the pause), what the      *)
(* flags are and where the emulation thread may be.  It is void once a     *)
(* handler has suspended inside the wait of another, or a thread began     *)
(* with the answer of the one before it ("inside", "stale"), and is shown  *)
(* anew when the two threads agree again.                                  *)
(***************************************************************************)

\* Where a handler is at each of its steps, as the emulation thread sees it
Phases(h) ==
    CASE h = "command" -> <<"out", "out", "waiting", "held", "held", "resuming", "out">>
      [] h = "screen"  -> <<"out", "waiting", "held", "held", "held", "held", "resuming">>
      [] h = "switch"  -> <<"out", "waiting", "held", "joining">>
      [] OTHER         -> <<"out", "out", "out">>

Phase == IF stack = << >> THEN "out" ELSE Phases(stack[1].handler)[stack[1].at]

\* The handlers that neither suspend nor end a thread
Quick == {"input", "pause", "paste", "config"}

\* With what holds of the bound on the handlers inside one another
ThreadTypes == TypeOK /\ (requestswitch => DEPTH > 0)

-----------------------------------------------------------------------------
(***************************************************************************)
(* The steps of the handlers and their phases                              *)
(***************************************************************************)

Suspenders == {"command", "screen", "switch"}

LEMMA CommandTable ==
    LET s == Steps("command")  p == Phases("command") IN
    /\ Len(s) = 7 /\ DOMAIN s = 1 .. 7
    /\ s[1] = "enter" /\ s[2] = "suspend" /\ s[3] = "suspending"
    /\ s[4] = "work" /\ s[5] = "resume" /\ s[6] = "resuming" /\ s[7] = "leave"
    /\ p[1] = "out" /\ p[2] = "out" /\ p[3] = "waiting" /\ p[4] = "held"
    /\ p[5] = "held" /\ p[6] = "resuming" /\ p[7] = "out"
  BY DEF Steps, Phases

LEMMA ScreenTable ==
    LET s == Steps("screen")  p == Phases("screen") IN
    /\ Len(s) = 7 /\ DOMAIN s = 1 .. 7
    /\ s[1] = "suspend" /\ s[2] = "suspending" /\ s[3] = "enter"
    /\ s[4] = "work" /\ s[5] = "leave" /\ s[6] = "resume" /\ s[7] = "resuming"
    /\ p[1] = "out" /\ p[2] = "waiting" /\ p[3] = "held" /\ p[4] = "held"
    /\ p[5] = "held" /\ p[6] = "held" /\ p[7] = "resuming"
  BY DEF Steps, ScreenSteps, Phases

LEMMA SwitchTable ==
    LET s == Steps("switch")  p == Phases("switch") IN
    /\ Len(s) = 4 /\ DOMAIN s = 1 .. 4
    /\ s[1] = "suspend" /\ s[2] = "suspending" /\ s[3] = "exit"
    /\ s[4] = "join"
    /\ p[1] = "out" /\ p[2] = "waiting" /\ p[3] = "held" /\ p[4] = "joining"
  BY DEF Steps, Phases

LEMMA InputTable ==
    LET s == Steps("input")  p == Phases("input") IN
    /\ Len(s) = 2 /\ DOMAIN s = 1 .. 2
    /\ s[1] = "enter" /\ s[2] = "leave"
    /\ p[1] = "out" /\ p[2] = "out" /\ p[3] = "out"
  BY DEF Steps, Phases

LEMMA PauseTable ==
    LET s == Steps("pause")  p == Phases("pause") IN
    /\ Len(s) = 3 /\ DOMAIN s = 1 .. 3
    /\ s[1] = "enter" /\ s[2] = "pause" /\ s[3] = "leave"
    /\ p[1] = "out" /\ p[2] = "out" /\ p[3] = "out"
  BY DEF Steps, Phases

LEMMA PasteTable ==
    LET s == Steps("paste")  p == Phases("paste") IN
    /\ Len(s) = 3 /\ DOMAIN s = 1 .. 3
    /\ s[1] = "enter" /\ s[2] = "paste" /\ s[3] = "leave"
    /\ p[1] = "out" /\ p[2] = "out" /\ p[3] = "out"
  BY DEF Steps, Phases

LEMMA ConfigTable ==
    LET s == Steps("config")  p == Phases("config") IN
    /\ Len(s) = 3 /\ DOMAIN s = 1 .. 3
    /\ s[1] = "enter" /\ s[2] = "config" /\ s[3] = "leave"
    /\ p[1] = "out" /\ p[2] = "out" /\ p[3] = "out"
  BY DEF Steps, Phases

LEMMA Lengths ==
    ASSUME NEW h \in Handler \cup {"switch"}
    PROVE  /\ Len(Steps(h)) \in 1 .. 7 /\ DOMAIN Steps(h) = 1 .. Len(Steps(h))
           /\ h \in Quick \/ h \in Suspenders
           /\ h \in Quick => Len(Steps(h)) =< 3
<1>1. CASE h = "command" BY <1>1, CommandTable DEF Quick, Suspenders
<1>2. CASE h = "screen" BY <1>2, ScreenTable DEF Quick, Suspenders
<1>3. CASE h = "switch" BY <1>3, SwitchTable DEF Quick, Suspenders
<1>4. CASE h = "input"
  <2>1. Len(Steps(h)) = 2 /\ DOMAIN Steps(h) = 1 .. 2 BY <1>4, InputTable
  <2>2. Len(Steps(h)) \in 1 .. 7 /\ Len(Steps(h)) =< 3 BY <2>1
  <2> QED BY <1>4, <2>1, <2>2 DEF Quick
<1>5. CASE h = "pause"
  <2>1. Len(Steps(h)) = 3 /\ DOMAIN Steps(h) = 1 .. 3 BY <1>5, PauseTable
  <2>2. Len(Steps(h)) \in 1 .. 7 /\ Len(Steps(h)) =< 3 BY <2>1
  <2> QED BY <1>5, <2>1, <2>2 DEF Quick
<1>6. CASE h = "paste"
  <2>1. Len(Steps(h)) = 3 /\ DOMAIN Steps(h) = 1 .. 3 BY <1>6, PasteTable
  <2>2. Len(Steps(h)) \in 1 .. 7 /\ Len(Steps(h)) =< 3 BY <2>1
  <2> QED BY <1>6, <2>1, <2>2 DEF Quick
<1>7. CASE h = "config"
  <2>1. Len(Steps(h)) = 3 /\ DOMAIN Steps(h) = 1 .. 3 BY <1>7, ConfigTable
  <2>2. Len(Steps(h)) \in 1 .. 7 /\ Len(Steps(h)) =< 3 BY <2>1
  <2> QED BY <1>7, <2>1, <2>2 DEF Quick
<1> QED BY <1>1, <1>2, <1>3, <1>4, <1>5, <1>6, <1>7 DEF Handler

\* A step moves the handler to another phase only as the names say.
LEMMA PhaseMoves ==
    ASSUME NEW h \in Suspenders, NEW n \in 1 .. Len(Steps(h))
    PROVE  LET s == Steps(h)[n]  l == Len(Steps(h))  p == Phases(h) IN
           /\ s = "suspend" => p[n] = "out" /\ p[n + 1] = "waiting" /\ p[n + 2] = "held" /\ n + 2 =< l
           /\ s = "suspending" => p[n] = "waiting" /\ p[n + 1] = "held" /\ n + 1 =< l
           /\ s = "resume" => /\ p[n] = "held" /\ p[n + 1] = "resuming" /\ n + 1 =< l
                              /\ n + 2 > l \/ p[n + 2] = "out"
           /\ s = "resuming" => p[n] = "resuming" /\ (n + 1 > l \/ p[n + 1] = "out")
           /\ s = "exit" => p[n] = "held" /\ p[n + 1] = "joining" /\ n + 1 =< l
           /\ s = "join" => p[n] = "joining" /\ n = l
           /\ s = "exit" \/ s = "join" => h = "switch"
           /\ s \in {"enter", "leave", "work"} =>
                  (n + 1 =< l /\ p[n + 1] = p[n]) \/ (n + 1 > l /\ p[n] = "out")
           /\ s \notin {"pause", "paste", "config"}
<1>1. CASE h = "command"
  <2>0. n \in 1 .. 7 BY <1>1, CommandTable
  <2>1. CASE n = 1 BY <1>1, <2>1, CommandTable
  <2>2. CASE n = 2 BY <1>1, <2>2, CommandTable
  <2>3. CASE n = 3 BY <1>1, <2>3, CommandTable
  <2>4. CASE n = 4 BY <1>1, <2>4, CommandTable
  <2>5. CASE n = 5 BY <1>1, <2>5, CommandTable
  <2>6. CASE n = 6 BY <1>1, <2>6, CommandTable
  <2>7. CASE n = 7
    <3>1. Len(Steps(h)) = 7 /\ n + 1 = 8 /\ n + 2 = 9 BY <1>1, <2>7, CommandTable
    <3>2. Steps(h)[n] = "leave" /\ Phases(h)[n] = "out" /\ (7 > n => Phases(h)[n + 1] = "resuming")
      BY <1>1, <2>7, <3>1, CommandTable
    <3>3. n + 1 > Len(Steps(h)) /\ n + 2 > Len(Steps(h)) /\ n = Len(Steps(h)) BY <2>7, <3>1
    <3> QED BY <1>1, <3>2, <3>3
  <2> QED BY <2>0, <2>1, <2>2, <2>3, <2>4, <2>5, <2>6, <2>7
<1>2. CASE h = "screen"
  <2>0. n \in 1 .. 7 BY <1>2, ScreenTable
  <2>1. CASE n = 1 BY <1>2, <2>1, ScreenTable
  <2>2. CASE n = 2 BY <1>2, <2>2, ScreenTable
  <2>3. CASE n = 3 BY <1>2, <2>3, ScreenTable
  <2>4. CASE n = 4 BY <1>2, <2>4, ScreenTable
  <2>5. CASE n = 5 BY <1>2, <2>5, ScreenTable
  <2>6. CASE n = 6
    <3>1. Len(Steps(h)) = 7 /\ n + 1 = 7 /\ n + 2 = 8 BY <1>2, <2>6, ScreenTable
    <3>2. Steps(h)[n] = "resume" /\ Phases(h)[n] = "held" /\ (7 > n => Phases(h)[n + 1] = "resuming")
      BY <1>2, <2>6, <3>1, ScreenTable
    <3>3. n + 1 =< Len(Steps(h)) /\ n + 2 > Len(Steps(h)) /\ Len(Steps(h)) > n /\ 7 > n BY <2>6, <3>1
    <3> QED BY <1>2, <3>2, <3>3
  <2>7. CASE n = 7
    <3>1. Len(Steps(h)) = 7 /\ n + 1 = 8 /\ n + 2 = 9 BY <1>2, <2>7, ScreenTable
    <3>2. Steps(h)[n] = "resuming" /\ Phases(h)[n] = "resuming" /\ (7 > n => Phases(h)[n + 1] = "resuming")
      BY <1>2, <2>7, <3>1, ScreenTable
    <3>3. n + 1 > Len(Steps(h)) /\ n + 2 > Len(Steps(h)) /\ n = Len(Steps(h)) BY <2>7, <3>1
    <3> QED BY <1>2, <3>2, <3>3
  <2> QED BY <2>0, <2>1, <2>2, <2>3, <2>4, <2>5, <2>6, <2>7
<1>3. CASE h = "switch"
  <2>0. n \in 1 .. 4 BY <1>3, SwitchTable
  <2>1. CASE n = 1 BY <1>3, <2>1, SwitchTable
  <2>2. CASE n = 2 BY <1>3, <2>2, SwitchTable
  <2>3. CASE n = 3 BY <1>3, <2>3, SwitchTable
  <2>4. CASE n = 4 BY <1>3, <2>4, SwitchTable
  <2> QED BY <2>0, <2>1, <2>2, <2>3, <2>4
<1> QED BY <1>1, <1>2, <1>3 DEF Suspenders

\* The other handlers neither suspend nor end a thread.
LEMMA QuickSteps ==
    ASSUME NEW h \in Quick, NEW n \in 1 .. Len(Steps(h))
    PROVE  Steps(h)[n] \in {"enter", "leave", "pause", "paste", "config"} /\ Phases(h)[n] = "out"
           /\ (Steps(h)[n] = "config" => h = "config")
<1>1. CASE h = "input"
  <2>0. n \in 1 .. 2 BY <1>1, InputTable
  <2>1. CASE n = 1 BY <1>1, <2>1, InputTable
  <2>2. CASE n = 2 BY <1>1, <2>2, InputTable
  <2> QED BY <2>0, <2>1, <2>2
<1>2. CASE h = "pause"
  <2>0. n \in 1 .. 3 BY <1>2, PauseTable
  <2>1. CASE n = 1 BY <1>2, <2>1, PauseTable
  <2>2. CASE n = 2 BY <1>2, <2>2, PauseTable
  <2>3. CASE n = 3 BY <1>2, <2>3, PauseTable
  <2> QED BY <2>0, <2>1, <2>2, <2>3
<1>3. CASE h = "paste"
  <2>0. n \in 1 .. 3 BY <1>3, PasteTable
  <2>1. CASE n = 1 BY <1>3, <2>1, PasteTable
  <2>2. CASE n = 2 BY <1>3, <2>2, PasteTable
  <2>3. CASE n = 3 BY <1>3, <2>3, PasteTable
  <2> QED BY <2>0, <2>1, <2>2, <2>3
<1>4. CASE h = "config"
  <2>0. n \in 1 .. 3 BY <1>4, ConfigTable
  <2>1. CASE n = 1 BY <1>4, <2>1, ConfigTable
  <2>2. CASE n = 2 BY <1>4, <2>2, ConfigTable
  <2>3. CASE n = 3 BY <1>4, <2>3, ConfigTable
  <2> QED BY <2>0, <2>1, <2>2, <2>3
<1> QED BY <1>1, <1>2, <1>3, <1>4 DEF Quick

\* The handlers that have suspended are those whose phase is "held".
LEMMA HeldIsSuspended ==
    ASSUME ThreadTypes, NEW i \in DOMAIN stack, Suspended(i)
    PROVE  stack[i].handler \in Suspenders /\ Phases(stack[i].handler)[stack[i].at] = "held"
<1>1. stack[i].handler \in Handler \cup {"switch"} /\ stack[i].at \in 1 .. 7
  <2> DEFINE Entry == [handler : Handler \cup {"switch"}, at : 1 .. 7]
  <2>1. stack \in Seq(Entry) BY DEF ThreadTypes, TypeOK
  <2> HIDE DEF Entry
  <2>2. stack[i] \in Entry BY <2>1
  <2> QED BY <2>2 DEF Entry
<1>2. stack[i].at =< Len(Steps(stack[i].handler)) BY DEF ThreadTypes, TypeOK
<1>3. PICK h \in Handler \cup {"switch"}, n \in 1 .. 7 : h = stack[i].handler /\ n = stack[i].at BY <1>1
<1>4. PICK j, k \in DOMAIN Steps(h) : /\ Steps(h)[j] = "suspending" /\ Steps(h)[k] \in {"resume", "exit"}
                                      /\ j < n /\ n =< k
  BY <1>3 DEF Suspended
<1>5. j \in 1 .. Len(Steps(h)) /\ k \in 1 .. Len(Steps(h)) BY <1>4, Lengths
<1>6. h \in Suspenders BY <1>4, <1>5, QuickSteps, Lengths
<1>7. CASE h = "command"
  <2>1. j \in 1 .. 7 /\ k \in 1 .. 7 BY <1>5, <1>7, CommandTable
  <2>2. j = 3 /\ k = 5 BY <1>4, <1>7, <2>1, CommandTable
  <2>3. n = 4 \/ n = 5 BY <1>4, <2>2
  <2> QED BY <1>3, <1>6, <1>7, <2>3, CommandTable
<1>8. CASE h = "screen"
  <2>1. j \in 1 .. 7 /\ k \in 1 .. 7 BY <1>5, <1>8, ScreenTable
  <2>2. j = 2 /\ k = 6 BY <1>4, <1>8, <2>1, ScreenTable
  <2>3. n = 3 \/ n = 4 \/ n = 5 \/ n = 6 BY <1>4, <2>2
  <2> QED BY <1>3, <1>6, <1>8, <2>3, ScreenTable
<1>9. CASE h = "switch"
  <2>1. j \in 1 .. 4 /\ k \in 1 .. 4 BY <1>5, <1>9, SwitchTable
  <2>2. j = 2 /\ k = 3 BY <1>4, <1>9, <2>1, SwitchTable
  <2>3. n = 3 BY <1>4, <2>2
  <2> QED BY <1>3, <1>6, <1>9, <2>3, SwitchTable
<1> QED BY <1>6, <1>7, <1>8, <1>9 DEF Suspenders

-----------------------------------------------------------------------------
(***************************************************************************)
(* A handler goes on                                                       *)
(***************************************************************************)

Entry == [handler : Handler \cup {"switch"}, at : 1 .. 7]

StackOK ==
    /\ stack \in Seq(Entry)
    /\ Len(stack) =< DEPTH
    /\ \A i \in DOMAIN stack : stack[i].at =< Len(Steps(stack[i].handler))

LEMMA TopFacts ==
    ASSUME StackOK, stack # << >>
    PROVE  /\ Len(stack) \in Nat \ {0} /\ DOMAIN stack = 1 .. Len(stack)
           /\ Top \in Entry /\ Top.at \in 1 .. Len(Steps(Top.handler))
           /\ DEPTH \in Nat /\ Len(stack) =< DEPTH
<1>1. Len(stack) \in Nat \ {0} /\ DOMAIN stack = 1 .. Len(stack) BY DEF StackOK
<1>2. Len(stack) \in DOMAIN stack BY <1>1
<1>3. Top \in Entry BY <1>2 DEF StackOK, Top
<1>4. Top.at =< Len(Steps(Top.handler)) BY <1>2 DEF StackOK, Top
<1>5. Top.handler \in Handler \cup {"switch"} /\ Top.at \in 1 .. 7 BY <1>3 DEF Entry
<1>6. Len(Steps(Top.handler)) \in 1 .. 7 BY <1>5, Lengths
<1> QED BY <1>1, <1>3, <1>4, <1>5, <1>6, ThreadAssumption DEF StackOK

LEMMA Forwards ==
    ASSUME StackOK, stack # << >>, NEW n \in 1 .. 2, Forward(n)
    PROVE  /\ StackOK'
           /\ Len(stack') =< Len(stack)
           /\ \A i \in 1 .. Len(stack') : stack'[i].handler = stack[i].handler
           /\ Len(stack) > 1 => stack' # << >> /\ stack'[1] = stack[1]
           /\ Len(stack) = 1 =>
                  \/ Top.at + n > Len(Steps(Top.handler)) /\ stack' = << >>
                  \/ /\ Top.at + n =< Len(Steps(Top.handler)) /\ stack' # << >>
                     /\ stack'[1].handler = Top.handler /\ stack'[1].at = Top.at + n
<1>1. /\ Len(stack) \in Nat \ {0} /\ DOMAIN stack = 1 .. Len(stack)
      /\ Top \in Entry /\ Top.at \in 1 .. Len(Steps(Top.handler))
      /\ DEPTH \in Nat /\ Len(stack) =< DEPTH
  BY TopFacts
<1>2. stack \in Seq(Entry) BY DEF StackOK
<1>3. Top.handler \in Handler \cup {"switch"} /\ Top.at \in 1 .. 7 BY <1>1 DEF Entry
<1>4. Len(Steps(Top.handler)) \in 1 .. 7 BY <1>3, Lengths
<1>5. CASE Top.at + n > Len(Steps(Top.handler))
  <2>1. stack' = SubSeq(stack, 1, Len(stack) - 1) BY <1>5 DEF Forward
  <2>20. Len(stack) - 1 \in Nat BY <1>1
  <2>2. PICK m \in Nat : m = Len(stack) - 1 BY <2>20
  <2>3. m =< Len(stack) /\ m =< DEPTH BY <1>1, <2>2
  <2>4. /\ stack' \in Seq(Entry) /\ Len(stack') = m /\ DOMAIN stack' = 1 .. m
        /\ \A i \in 1 .. m : stack'[i] = stack[i]
    BY <1>1, <1>2, <2>1, <2>2, <2>3
  <2>5. \A i \in 1 .. m : i \in DOMAIN stack BY <1>1, <2>3
  <2>6. StackOK' BY <2>3, <2>4, <2>5 DEF StackOK
  <2>7. m = 0 => stack' = << >> BY <2>4
  <2>8. m > 0 => stack' # << >> /\ stack'[1] = stack[1] BY <2>4
  <2> QED BY <1>1, <1>5, <2>2, <2>3, <2>4, <2>6, <2>7, <2>8
<1>6. CASE ~ (Top.at + n > Len(Steps(Top.handler)))
  <2> DEFINE l == Len(stack)
             e == [Top EXCEPT !.at = @ + n]
  <2>1. Top.at + n \in 1 .. Len(Steps(Top.handler)) BY <1>1, <1>4, <1>6
  <2>2. e.handler = Top.handler /\ e.at = Top.at + n BY <1>1 DEF Entry
  <2>3. e \in Entry
    <3>1. PICK k \in 1 .. 7 : k = Len(Steps(Top.handler)) BY <1>4
    <3>2. PICK a \in 1 .. 7 : a = Top.at BY <1>3
    <3>3. a + n \in 1 .. k BY <2>1, <3>1, <3>2
    <3>4. a + n \in 1 .. 7 BY <3>3
    <3>5. Top.at + n \in 1 .. 7 BY <3>2, <3>4
    <3> QED BY <1>1, <3>5, SMTT(30) DEF Entry
  <2>4. stack' = [stack EXCEPT ![l] = e] BY <1>6 DEF Forward, Top
  <2> HIDE DEF e
  <2>5. l \in 1 .. l /\ l \in Nat BY <1>1
  <2>6. stack' \in Seq(Entry) /\ Len(stack') = l /\ DOMAIN stack' = 1 .. l
    <3>1. stack \in [1 .. l -> Entry] BY <1>2
    <3>2. stack' \in [1 .. l -> Entry] BY <2>3, <2>4, <3>1, SMTT(30)
    <3> QED BY <2>5, <3>2
  <2>7. stack'[l] = e /\ \A i \in 1 .. l : i # l => stack'[i] = stack[i] BY <1>1, <2>4, <2>5
  <2>8. \A i \in 1 .. l : stack'[i].handler = stack[i].handler BY <2>2, <2>7 DEF Top
  <2>9. e.at =< Len(Steps(e.handler)) BY <1>4, <2>1, <2>2
  <2>10. \A i \in 1 .. l : stack'[i].at =< Len(Steps(stack'[i].handler))
    BY <1>1, <2>7, <2>9 DEF StackOK
  <2>11. StackOK' BY <1>1, <2>6, <2>10 DEF StackOK
  <2>12. stack' # << >> BY <1>1, <2>6
  <2>13. l = 1 => stack'[1].handler = Top.handler /\ stack'[1].at = Top.at + n BY <2>2, <2>7
  <2>14. l > 1 => stack'[1] = stack[1] BY <2>5, <2>7
  <2>15. Top.at + n =< Len(Steps(Top.handler)) BY <2>1, <1>4
  <2> QED BY <2>5, <2>6, <2>8, <2>11, <2>12, <2>13, <2>14, <2>15
<1> QED BY <1>5, <1>6

\* Only the outermost handler goes through the phases.
LEMMA ForwardPhase ==
    ASSUME StackOK, stack # << >>, NEW n \in 1 .. 2, Forward(n)
    PROVE  /\ Len(stack) > 1 => Phase' = Phase
           /\ Len(stack) = 1 =>
                  /\ Top = stack[1] /\ Phase = Phases(Top.handler)[Top.at]
                  /\ \/ /\ Top.at + n > Len(Steps(Top.handler)) /\ Phase' = "out"
                        /\ stack' = << >>
                     \/ /\ Top.at + n =< Len(Steps(Top.handler))
                        /\ Phase' = Phases(Top.handler)[Top.at + n] /\ stack' # << >>
<1>1. /\ Len(stack) \in Nat \ {0} BY TopFacts
<1>5. ASSUME Len(stack) > 1 PROVE Phase' = Phase
  <2>1. stack' # << >> /\ stack'[1] = stack[1] BY <1>5, Forwards
  <2> QED BY <2>1 DEF Phase
<1>6. ASSUME Len(stack) = 1
      PROVE  /\ Top = stack[1] /\ Phase = Phases(Top.handler)[Top.at]
             /\ \/ /\ Top.at + n > Len(Steps(Top.handler)) /\ Phase' = "out"
                   /\ stack' = << >>
                \/ /\ Top.at + n =< Len(Steps(Top.handler))
                   /\ Phase' = Phases(Top.handler)[Top.at + n] /\ stack' # << >>
  <2>1. Top = stack[1] BY <1>6 DEF Top
  <2>2. Phase = Phases(Top.handler)[Top.at] BY <2>1 DEF Phase
  <2>3. \/ Top.at + n > Len(Steps(Top.handler)) /\ stack' = << >>
        \/ /\ Top.at + n =< Len(Steps(Top.handler)) /\ stack' # << >>
           /\ stack'[1].handler = Top.handler /\ stack'[1].at = Top.at + n
    BY <1>6, Forwards
  <2>4. stack' = << >> => Phase' = "out" BY DEF Phase
  <2>5. stack' # << >> => Phase' = Phases(stack'[1].handler)[stack'[1].at] BY DEF Phase
  <2> QED BY <2>1, <2>2, <2>3, <2>4, <2>5
<1> QED BY <1>5, <1>6

\* What a step of the outermost handler does to the phase
LEMMA StepPhase ==
    ASSUME StackOK, Len(stack) = 1, NEW s, AtStep(s), NEW n \in 1 .. 2, Forward(n)
    PROVE  /\ s = "suspend" => Phase = "out" /\ Phase' = IF n = 1 THEN "waiting" ELSE "held"
           /\ s = "suspending" /\ n = 1 => Phase = "waiting" /\ Phase' = "held"
           /\ s = "resume" => Phase = "held" /\ Phase' = IF n = 1 THEN "resuming" ELSE "out"
           /\ s = "resuming" /\ n = 1 => Phase = "resuming" /\ Phase' = "out"
           /\ s = "exit" /\ n = 1 => Phase = "held" /\ Phase' = "joining" /\ stack' # << >>
           /\ s = "join" /\ n = 1 => Phase = "joining" /\ Phase' = "out" /\ stack' = << >>
           /\ s \in {"enter", "leave", "work", "pause", "paste", "config"} /\ n = 1 => Phase' = Phase
<1> DEFINE h == Top.handler
           a == Top.at
<1>0. stack # << >> /\ Steps(h)[a] = s BY DEF AtStep
<1>1. Len(stack) \in Nat \ {0} /\ a \in 1 .. Len(Steps(h)) /\ h \in Handler \cup {"switch"}
  BY <1>0, TopFacts DEF Entry
<1>2. Len(Steps(h)) \in 1 .. 7 BY <1>1, Lengths
<1>3. /\ Top = stack[1] /\ Phase = Phases(h)[a]
      /\ \/ a + n > Len(Steps(h)) /\ Phase' = "out" /\ stack' = << >>
         \/ a + n =< Len(Steps(h)) /\ Phase' = Phases(h)[a + n] /\ stack' # << >>
  BY <1>0, ForwardPhase
<1> HIDE DEF h, a
<1>4. CASE h \in Quick
  <2>1. s \in {"enter", "leave", "pause", "paste", "config"} /\ Phases(h)[a] = "out"
    BY <1>0, <1>1, <1>4, QuickSteps
  <2>2. ASSUME n = 1, a + n =< Len(Steps(h)) PROVE Phases(h)[a + n] = "out"
    <3>1. a + 1 \in 1 .. Len(Steps(h)) BY <1>1, <1>2, <2>2
    <3> QED BY <1>4, <2>2, <3>1, QuickSteps
  <2>3. n = 1 => Phase' = Phase BY <1>3, <2>1, <2>2
  <2> QED BY <2>1, <2>3
<1>5. CASE h \in Suspenders
  <2>3. LET l == Len(Steps(h))  p == Phases(h) IN
           /\ s = "suspend" => p[a] = "out" /\ p[a + 1] = "waiting" /\ p[a + 2] = "held" /\ a + 2 =< l
           /\ s = "suspending" => p[a] = "waiting" /\ p[a + 1] = "held" /\ a + 1 =< l
           /\ s = "resume" => /\ p[a] = "held" /\ p[a + 1] = "resuming" /\ a + 1 =< l
                              /\ a + 2 > l \/ p[a + 2] = "out"
           /\ s = "resuming" => p[a] = "resuming" /\ (a + 1 > l \/ p[a + 1] = "out")
           /\ s = "exit" => p[a] = "held" /\ p[a + 1] = "joining" /\ a + 1 =< l
           /\ s = "join" => p[a] = "joining" /\ a = l
           /\ s \in {"enter", "leave", "work"} =>
                  (a + 1 =< l /\ p[a + 1] = p[a]) \/ (a + 1 > l /\ p[a] = "out")
           /\ s \notin {"pause", "paste", "config"}
    BY <1>0, <1>1, <1>5, PhaseMoves
  <2>5. n = 1 \/ n = 2 OBVIOUS
  <2>6. PICK l \in 1 .. 7 : l = Len(Steps(h)) BY <1>2
  <2>7. a \in 1 .. l BY <1>1, <2>6
  <2>8. ASSUME s = "suspend" PROVE Phase = "out" /\ Phase' = IF n = 1 THEN "waiting" ELSE "held"
    BY <1>3, <2>3, <2>5, <2>6, <2>7, <2>8
  <2>9. ASSUME s = "suspending", n = 1 PROVE Phase = "waiting" /\ Phase' = "held"
    BY <1>3, <2>3, <2>6, <2>7, <2>9
  <2>10. ASSUME s = "resume" PROVE Phase = "held" /\ Phase' = IF n = 1 THEN "resuming" ELSE "out"
    BY <1>3, <2>3, <2>5, <2>6, <2>7, <2>10
  <2>11. ASSUME s = "resuming", n = 1 PROVE Phase = "resuming" /\ Phase' = "out"
    BY <1>3, <2>3, <2>6, <2>7, <2>11
  <2>12. ASSUME s = "exit", n = 1 PROVE Phase = "held" /\ Phase' = "joining" /\ stack' # << >>
    BY <1>3, <2>3, <2>6, <2>7, <2>12
  <2>13. ASSUME s = "join", n = 1 PROVE Phase = "joining" /\ Phase' = "out" /\ stack' = << >>
    BY <1>3, <2>3, <2>6, <2>7, <2>13
  <2>14. ASSUME s \in {"enter", "leave", "work"}, n = 1 PROVE Phase' = Phase
    BY <1>3, <2>3, <2>6, <2>7, <2>14
  <2>16. s \notin {"pause", "paste", "config"} BY <2>3
  <2> QED BY <2>8, <2>9, <2>10, <2>11, <2>12, <2>13, <2>14, <2>16
<1> QED BY <1>1, <1>4, <1>5, Lengths

\* Only the main loop ends the thread.
LEMMA SwitchSteps ==
    ASSUME StackOK, NEW s \in {"exit", "join"}, AtStep(s)
    PROVE  Top.handler = "switch"
<1>1. stack # << >> /\ Steps(Top.handler)[Top.at] = s BY DEF AtStep
<1>2. Top.at \in 1 .. Len(Steps(Top.handler)) /\ Top.handler \in Handler \cup {"switch"}
  BY <1>1, TopFacts DEF Entry
<1>3. Top.handler \notin Quick BY <1>1, <1>2, QuickSteps
<1>4. Top.handler \in Suspenders BY <1>2, <1>3, Lengths
<1> QED BY <1>1, <1>2, <1>4, PhaseMoves

\* The thread is waited for at the last step of the switch.
LEMMA JoiningStep ==
    ASSUME StackOK, Len(stack) = 1, Phase = "joining"
    PROVE  AtStep("join")
<1>9. Len(<< >>) = 0 OBVIOUS
<1>0. stack # << >> BY <1>9
<1>1. Top.at \in 1 .. Len(Steps(Top.handler)) /\ Top.handler \in Handler \cup {"switch"}
  BY <1>0, TopFacts DEF Entry
<1>10. PICK h \in Handler \cup {"switch"} : h = Top.handler BY <1>1
<1>11. PICK n \in 1 .. Len(Steps(h)) : n = Top.at BY <1>1, <1>10
<1>2. h = Top.handler /\ n = Top.at BY <1>10, <1>11
<1>3. Phases(h)[n] = "joining" BY <1>0, <1>2 DEF Phase, Top
<1>4. h \notin Quick BY <1>3, QuickSteps
<1>5. h \in Suspenders BY <1>4, Lengths
<1>6. Steps(h)[n] = "join"
  <2>1. CASE h = "command"
    <3>1. n \in 1 .. 7 BY <2>1, CommandTable
    <3>2. n = 1 \/ n = 2 \/ n = 3 \/ n = 4 \/ n = 5 \/ n = 6 \/ n = 7 BY <3>1
    <3> QED BY <1>3, <2>1, <3>2, CommandTable
  <2>2. CASE h = "screen"
    <3>1. n \in 1 .. 7 BY <2>2, ScreenTable
    <3>2. n = 1 \/ n = 2 \/ n = 3 \/ n = 4 \/ n = 5 \/ n = 6 \/ n = 7 BY <3>1
    <3> QED BY <1>3, <2>2, <3>2, ScreenTable
  <2>3. CASE h = "switch"
    <3>1. n \in 1 .. 4 BY <2>3, SwitchTable
    <3>2. n = 1 \/ n = 2 \/ n = 3 \/ n = 4 BY <3>1
    <3> QED BY <1>3, <2>3, <3>2, SwitchTable
  <2> QED BY <1>5, <2>1, <2>2, <2>3 DEF Suspenders
<1> QED BY <1>0, <1>2, <1>6 DEF AtStep

-----------------------------------------------------------------------------
(***************************************************************************)
(* Type correctness                                                        *)
(***************************************************************************)

Flat ==
    /\ pauseemulation \in BOOLEAN /\ pausing \in BOOLEAN /\ requestexit \in BOOLEAN
    /\ enable \in BOOLEAN /\ requestswitch \in BOOLEAN
    /\ owner \in {"none", "window", "emulator"}
    /\ userpause \in BOOLEAN /\ pasted \in 0 .. PASTED
    /\ emu \in {"check", "flags", "clear", "frame", "branch", "set", "unset",
                "enter", "typing", "ended", "none"}
    /\ requestswitch => DEPTH > 0

LEMMA TypesSplit == ThreadTypes <=> StackOK /\ Flat
  BY DEF ThreadTypes, TypeOK, StackOK, Entry, Flat

\* The stack when a handler is put on it
LEMMA Pushed ==
    ASSUME StackOK, NEW e \in Entry, e.at = 1, Len(stack) < DEPTH, stack' = Append(stack, e)
    PROVE  /\ StackOK' /\ Len(stack') = Len(stack) + 1 /\ stack'[Len(stack) + 1] = e
           /\ \A i \in 1 .. Len(stack) : stack'[i] = stack[i]
<1>1. stack \in Seq(Entry) /\ Len(stack) \in Nat /\ DOMAIN stack = 1 .. Len(stack) BY DEF StackOK
<1>2. /\ stack' \in Seq(Entry) /\ Len(stack') = Len(stack) + 1 /\ stack'[Len(stack) + 1] = e
      /\ \A i \in 1 .. Len(stack) : stack'[i] = stack[i]
  BY <1>1, AppendProperties
<1>3. Len(stack') =< DEPTH BY <1>1, <1>2, ThreadAssumption
<1>4. e.at =< Len(Steps(e.handler))
  <2>1. e.handler \in Handler \cup {"switch"} BY DEF Entry
  <2>2. PICK l \in 1 .. 7 : l = Len(Steps(e.handler)) BY <2>1, Lengths
  <2>3. 1 =< l OBVIOUS
  <2> QED BY <2>2, <2>3
<1>5. ASSUME NEW i \in DOMAIN stack' PROVE stack'[i].at =< Len(Steps(stack'[i].handler))
  <2>1. i \in 1 .. Len(stack) \/ i = Len(stack) + 1 BY <1>1, <1>2
  <2> QED BY <1>1, <1>2, <1>4, <2>1 DEF StackOK
<1>6. stack' \in Seq(Entry) BY <1>2
<1>7. \A i \in DOMAIN stack' : stack'[i].at =< Len(Steps(stack'[i].handler)) BY <1>5
<1> QED BY <1>2, <1>3, <1>6, <1>7 DEF StackOK

LEMMA NewEntry ==
    ASSUME NEW h \in Handler \cup {"switch"}
    PROVE  LET e == [handler |-> h, at |-> 1] IN e \in Entry /\ e.at = 1 /\ e.handler = h
  BY DEF Entry

\* A step of a handler takes it forward by one step or two.
LEMMA WindowForwards ==
    ASSUME WindowStep
    PROVE  stack # << >> /\ \E n \in 1 .. 2 : Forward(n)
<1>1. stack # << >>
  BY DEF WindowStep, AtStep, Enter, Leave, Suspend, SuspendWait, Resume, ResumeWait, Work,
         Pause, Paste, Config, Exit, Join
<1>2. Forward(1) \/ Forward(2)
  <2>1. CASE Suspend BY <2>1 DEF Suspend
  <2>2. CASE Resume BY <2>2 DEF Resume
  <2>3. CASE ~ Suspend /\ ~ Resume
    BY <2>3 DEF WindowStep, Enter, Leave, SuspendWait, ResumeWait, Work, Pause, Paste,
                Config, Exit, Join
  <2> QED BY <2>1, <2>2, <2>3
<1> QED BY <1>1, <1>2

LEMMA WindowFlat ==
    ASSUME StackOK, Flat, WindowStep
    PROVE  Flat'
<1>1. PASTED \in Nat /\ DEPTH \in Nat BY ThreadAssumption
<1>2. CASE Enter BY <1>2 DEF Enter, Flat, flags, mode
<1>3. CASE Leave BY <1>3 DEF Leave, Flat, flags, mode
<1>4. CASE Suspend BY <1>4 DEF Suspend, Flat, mode
<1>5. CASE SuspendWait BY <1>5 DEF SuspendWait, Flat, flags, mode
<1>6. CASE Resume BY <1>6 DEF Resume, Flat, mode
<1>7. CASE ResumeWait BY <1>7 DEF ResumeWait, Flat, flags, mode
<1>8. CASE Work BY <1>8 DEF Work, Flat, flags, mode
<1>9. CASE Pause BY <1>9 DEF Pause, Flat, flags, mode
<1>10. CASE Paste BY <1>1, <1>10 DEF Paste, Flat, flags, mode
<1>11. CASE Config
  <2>1. stack # << >> BY <1>11 DEF Config, AtStep
  <2>2. DEPTH > 0 BY <1>1, <2>1, TopFacts
  <2> QED BY <1>11, <2>2 DEF Config, Flat, flags
<1>12. CASE Exit BY <1>12 DEF Exit, Flat, mode
<1>13. CASE Join
  <2>1. PICK threads \in BOOLEAN : Restart(threads) BY <1>13 DEF Join
  <2>2. requestexit' = (requestexit /\ ~ threads) BY <2>1 DEF Restart
  <2>3. requestexit' \in BOOLEAN BY <2>2
  <2> QED BY <1>13, <2>1, <2>3 DEF Join, Restart, Flat, PauseAfterExit
<1> QED BY <1>2, <1>3, <1>4, <1>5, <1>6, <1>7, <1>8, <1>9, <1>10, <1>11, <1>12, <1>13 DEF WindowStep

LEMMA EmulatorFlat ==
    ASSUME Flat, EmulatorStep \/ AutoSendKey
    PROVE  Flat' /\ stack' = stack
<1>1. PASTED \in Nat BY ThreadAssumption
<1>2. CASE Check BY <1>2 DEF Check, Goto, Flat, flags, mode
<1>3. CASE Flags BY <1>3 DEF Flags, Goto, Flat, flags, mode
<1>4. CASE Branch BY <1>4 DEF Branch, Goto, Flat, flags, mode
<1>5. CASE SetPausing("clear", FALSE, "frame") BY <1>5 DEF SetPausing, Goto, Flat, mode
<1>6. CASE SetPausing("set", TRUE, "check") BY <1>6 DEF SetPausing, Goto, Flat, mode
<1>7. CASE SetPausing("unset", FALSE, "check") BY <1>7 DEF SetPausing, Goto, Flat, mode
<1>8. CASE Frame BY <1>8 DEF Frame, Goto, Flat, flags, mode
<1>9. CASE AutoSendKeyEnd
  <2>1. OneTyped \in 0 .. PASTED BY <1>1 DEF OneTyped, Flat
  <2> QED BY <1>9, <2>1 DEF AutoSendKeyEnd, Goto, Flat, flags, mode
<1>10. CASE AutoSendKey BY <1>10 DEF AutoSendKey, Goto, Flat, flags, mode
<1> QED BY <1>2, <1>3, <1>4, <1>5, <1>6, <1>7, <1>8, <1>9, <1>10 DEF EmulatorStep

LEMMA NextTypes ==
    ASSUME StackOK, Flat, Next
    PROVE  StackOK' /\ Flat'
<1>1. CASE WindowStep
  <2>1. StackOK' BY <1>1, WindowForwards, Forwards
  <2> QED BY <1>1, <2>1, WindowFlat
<1>2. CASE EmulatorStep \/ AutoSendKey
  <2>1. Flat' /\ stack' = stack BY <1>2, EmulatorFlat
  <2> QED BY <2>1 DEF StackOK
<1>3. ASSUME NEW h \in Handler, Dispatch(h) PROVE StackOK' /\ Flat'
  <2>1. PICK e \in Entry : e = [handler |-> h, at |-> 1] /\ e.at = 1 BY NewEntry
  <2>2. StackOK' BY <1>3, <2>1, Pushed DEF Dispatch
  <2> QED BY <1>3, <2>2 DEF Dispatch, Flat, flags, mode
<1>4. CASE WaitForExitThread
  <2>1. PICK e \in Entry : e = [handler |-> "switch", at |-> 1] /\ e.at = 1 BY NewEntry
  <2>2. stack' = Append(stack, e) BY <1>4, <2>1 DEF WaitForExitThread
  <2>3. Len(stack) < DEPTH BY <1>4, ThreadAssumption DEF WaitForExitThread, Flat
  <2>4. StackOK' BY <2>1, <2>2, <2>3, Pushed
  <2> QED BY <1>4, <2>4 DEF WaitForExitThread, Flat, flags, mode
<1>5. CASE StartThread
  <2>1. PICK threads \in BOOLEAN : Restart(threads) BY <1>5 DEF StartThread
  <2>2. requestexit' = (requestexit /\ ~ threads) BY <2>1 DEF Restart
  <2>3. requestexit' \in BOOLEAN BY <2>2
  <2>4. StackOK' BY <1>5 DEF StartThread, StackOK
  <2> QED BY <1>5, <2>1, <2>3, <2>4 DEF StartThread, Restart, Flat
<1> QED BY <1>1, <1>2, <1>3, <1>4, <1>5 DEF Next

LEMMA InitTypes == Init => StackOK /\ Flat
<1> SUFFICES ASSUME Init PROVE StackOK /\ Flat OBVIOUS
<1>1. stack = << >> BY DEF Init
<1>2. stack \in Seq(Entry) /\ Len(stack) = 0 /\ DOMAIN stack = {} BY <1>1
<1>3. StackOK BY <1>2, ThreadAssumption DEF StackOK
<1>4. 0 \in 0 .. PASTED BY ThreadAssumption
<1> QED BY <1>3, <1>4 DEF Init, Flat

LEMMA StillTypes ==
    ASSUME StackOK, Flat, UNCHANGED vars
    PROVE  StackOK' /\ Flat'
<1>1. /\ UNCHANGED <<stack, pauseemulation, pausing, requestexit, enable, requestswitch>>
      /\ UNCHANGED <<owner, userpause, pasted, emu>>
  BY DEF vars, flags, mode
<1> QED BY <1>1 DEF StackOK, Flat

\* The stack of handlers stays within its bound and every handler within its
\* steps; the flags and the places of the two threads are as declared,
\* whatever messages arrive inside a wait.
THEOREM TypeCorrect == Spec => []TypeOK
<1>1. Init => StackOK /\ Flat BY InitTypes
<1>2. StackOK /\ Flat /\ [Next]_vars => (StackOK /\ Flat)' BY NextTypes, StillTypes
<1>3. StackOK /\ Flat => TypeOK BY TypesSplit DEF ThreadTypes
<1> QED BY <1>1, <1>2, <1>3, PTL DEF Spec

-----------------------------------------------------------------------------
(***************************************************************************)
(* Suspension, where only the outermost handler suspends                   *)
(***************************************************************************)

\* The emulation thread is on the way round on which it pauses.
Pausing == emu \in {"check", "flags", "branch", "set"}

\* What the flags say and where the emulation thread may be, in each phase
PhaseInv ==
    /\ Phase = "out" => /\ ~ pauseemulation /\ emu # "set" /\ emu # "ended"
                        /\ pausing => ~ enable
    /\ Phase = "waiting" => /\ pauseemulation /\ enable
                            /\ pausing => Pausing
                            /\ emu # "ended"
    /\ Phase = "held" => /\ pauseemulation
                         /\ enable => Pausing /\ pausing
    /\ Phase = "resuming" => /\ ~ pauseemulation /\ enable
                             /\ emu = "set" => pausing
                             /\ emu # "ended"

\* A handler that has not come to its suspension, if it has one
Unsuspended(e) ==
    \/ e.handler \in Quick
    \/ e.handler = "command" /\ e.at =< 2
    \/ e.handler = "screen" /\ e.at = 1

\* Only the outermost handler has suspended.
QuietInv == \A i \in 2 .. Len(stack) : Unsuspended(stack[i])

MeantInv == ~ inside /\ ~ stale => QuietInv /\ PhaseInv

\* The end of the thread runs in the main loop alone.
SwitchFirst == \A i \in 2 .. Len(stack) : stack[i].handler # "switch"

\* The thread is asked to end while the main loop waits for it.
ExitInv == enable /\ requestexit => Len(stack) = 1 /\ Phase = "joining"

ThreadInv == ~ enable => emu = "none"

\* These need no history.
ExitsInv == SwitchFirst /\ ExitInv /\ ThreadInv

SuspendInv == ExitsInv /\ MeantInv

PhaseNames == {"out", "waiting", "held", "joining", "resuming"}

LEMMA PhaseName ==
    ASSUME StackOK
    PROVE  Phase \in PhaseNames
<1>1. CASE stack = << >> BY <1>1 DEF Phase, PhaseNames
<1>2. CASE stack # << >>
  <2>1. 1 \in DOMAIN stack /\ stack \in Seq(Entry) BY <1>2 DEF StackOK
  <2>2. stack[1] \in Entry /\ stack[1].at =< Len(Steps(stack[1].handler)) BY <2>1 DEF StackOK
  <2>3. PICK h \in Handler \cup {"switch"}, n \in 1 .. 7 : h = stack[1].handler /\ n = stack[1].at
    BY <2>2 DEF Entry
  <2>4. n \in 1 .. Len(Steps(h))
    <3>1. PICK l \in 1 .. 7 : l = Len(Steps(h)) BY Lengths
    <3>2. n =< l BY <2>2, <2>3, <3>1
    <3> QED BY <3>1, <3>2
  <2>5. Phases(h)[n] \in PhaseNames
    <3>1. CASE h \in Quick BY <2>4, <3>1, QuickSteps DEF PhaseNames
    <3>2. CASE h = "command"
      <4>1. n \in 1 .. 7 BY <2>4, <3>2, CommandTable
      <4>2. n = 1 \/ n = 2 \/ n = 3 \/ n = 4 \/ n = 5 \/ n = 6 \/ n = 7 BY <4>1
      <4> QED BY <3>2, <4>2, CommandTable DEF PhaseNames
    <3>3. CASE h = "screen"
      <4>1. n \in 1 .. 7 BY <2>4, <3>3, ScreenTable
      <4>2. n = 1 \/ n = 2 \/ n = 3 \/ n = 4 \/ n = 5 \/ n = 6 \/ n = 7 BY <4>1
      <4> QED BY <3>3, <4>2, ScreenTable DEF PhaseNames
    <3>4. CASE h = "switch"
      <4>1. n \in 1 .. 4 BY <2>4, <3>4, SwitchTable
      <4>2. n = 1 \/ n = 2 \/ n = 3 \/ n = 4 BY <4>1
      <4> QED BY <3>4, <4>2, SwitchTable DEF PhaseNames
    <3> QED BY <3>1, <3>2, <3>3, <3>4, Lengths DEF Suspenders
  <2> QED BY <1>2, <2>3, <2>5 DEF Phase
<1> QED BY <1>1, <1>2

\* Without history, nothing is known but what the two threads agree on.
LEMMA AgreedMeans ==
    ASSUME Agreed'
    PROVE  QuietInv' /\ PhaseInv'
<1>1. stack' = << >> BY DEF Agreed
<1>2. Phase' = "out" /\ Len(stack') = 0 BY <1>1 DEF Phase
<1> QED BY <1>2 DEF Agreed, PhaseInv, QuietInv

\* Handlers go on with their names.
LEMMA SwitchForward ==
    ASSUME StackOK, SwitchFirst, stack # << >>, NEW n \in 1 .. 2, Forward(n)
    PROVE  SwitchFirst'
<1>1. /\ Len(stack') =< Len(stack) /\ StackOK'
      /\ \A i \in 1 .. Len(stack') : stack'[i].handler = stack[i].handler
  BY Forwards
<1>2. Len(stack) \in Nat /\ Len(stack') \in Nat BY <1>1 DEF StackOK
<1> QED BY <1>1, <1>2 DEF SwitchFirst

\* Only a handler alone on the stack ends the thread.
LEMMA SwitchAlone ==
    ASSUME StackOK, SwitchFirst, NEW s \in {"exit", "join"}, AtStep(s)
    PROVE  Len(stack) = 1
<1>1. stack # << >> BY DEF AtStep
<1>2. Len(stack) \in Nat \ {0} BY <1>1, TopFacts
<1>3. stack[Len(stack)].handler = "switch" BY SwitchSteps DEF Top
<1>4. Len(stack) \notin 2 .. Len(stack) BY <1>3 DEF SwitchFirst
<1>5. PICK l \in Nat \ {0} : l = Len(stack) BY <1>2
<1>6. l \notin 2 .. l BY <1>4, <1>5
<1>7. l = 1 BY <1>6
<1> QED BY <1>5, <1>7

\* A handler inside a wait that has not suspended does not yet.
LEMMA InnerStep ==
    ASSUME StackOK, QuietInv, Len(stack) # 1, NEW s, AtStep(s), s # "suspend"
    PROVE  s \in {"enter", "leave", "pause", "paste", "config"}
<1>1. stack # << >> /\ Steps(Top.handler)[Top.at] = s BY DEF AtStep
<1>2. /\ Len(stack) \in Nat \ {0} /\ Top.at \in 1 .. Len(Steps(Top.handler))
      /\ Top.handler \in Handler \cup {"switch"} /\ Top.at \in 1 .. 7
  BY <1>1, TopFacts DEF Entry
<1>3. Unsuspended(Top)
  <2>1. PICK l \in Nat \ {0} : l = Len(stack) BY <1>2
  <2>2. l # 1 BY <2>1
  <2>3. l \in 2 .. l BY <2>2
  <2>4. Len(stack) \in 2 .. Len(stack) BY <2>1, <2>3
  <2> QED BY <2>4 DEF QuietInv, Top
<1>4. CASE Top.handler \in Quick BY <1>1, <1>2, <1>4, QuickSteps
<1>5. CASE Top.handler = "command" /\ Top.at =< 2
  <2>1. Top.at = 1 \/ Top.at = 2 BY <1>2, <1>5
  <2> QED BY <1>1, <1>5, <2>1, CommandTable
<1>6. CASE Top.handler = "screen" /\ Top.at = 1 BY <1>1, <1>6, ScreenTable
<1> QED BY <1>3, <1>4, <1>5, <1>6 DEF Unsuspended

\* ... and has not when it has gone one step on.
LEMMA InnerForward ==
    ASSUME StackOK, QuietInv, stack # << >>, Forward(1), Len(stack) = 1 \/ ~ AtStep("suspend")
    PROVE  QuietInv'
<1>1. /\ Len(stack) \in Nat \ {0} /\ DOMAIN stack = 1 .. Len(stack) /\ stack \in Seq(Entry)
      /\ Top.at \in 1 .. Len(Steps(Top.handler))
      /\ Top.handler \in Handler \cup {"switch"} /\ Top.at \in 1 .. 7
      /\ Top \in Entry
  BY TopFacts DEF Entry, StackOK
<1>2. Len(stack') =< Len(stack) /\ StackOK' BY Forwards
<1>3. Len(stack') \in Nat BY <1>2 DEF StackOK
<1> SUFFICES ASSUME NEW i \in 2 .. Len(stack') PROVE Unsuspended(stack'[i]) BY DEF QuietInv
<1>8. PICK l \in Nat \ {0} : l = Len(stack) BY <1>1
<1>9. PICK k \in Nat : k = Len(stack') BY <1>3
<1>10. k =< l /\ i \in 2 .. k BY <1>2, <1>8, <1>9
<1>11. i \in 2 .. l /\ l # 1 BY <1>10
<1>4. i \in 2 .. Len(stack) /\ Len(stack) # 1 BY <1>8, <1>11
<1>5. Unsuspended(stack[i]) BY <1>4 DEF QuietInv
<1>6. CASE Top.at + 1 > Len(Steps(Top.handler))
  <2>1. stack' = SubSeq(stack, 1, Len(stack) - 1) BY <1>6 DEF Forward
  <2>20. l - 1 \in Nat BY <1>8
  <2>2. PICK m \in Nat : m = l - 1 BY <2>20
  <2>3. m =< Len(stack) BY <1>8, <2>2
  <2>21. stack' = SubSeq(stack, 1, m) BY <1>8, <2>1, <2>2
  <2>4. Len(stack') = m /\ \A q \in 1 .. m : stack'[q] = stack[q] BY <1>1, <2>2, <2>3, <2>21
  <2>5. i \in 1 .. m BY <1>9, <1>10, <2>4
  <2>6. stack'[i] = stack[i] BY <2>4, <2>5
  <2> QED BY <1>5, <2>6
<1>7. CASE ~ (Top.at + 1 > Len(Steps(Top.handler)))
  <2> DEFINE e == [Top EXCEPT !.at = @ + 1]
  <2>1. e.handler = Top.handler /\ e.at = Top.at + 1 BY <1>1 DEF Entry
  <2>2. stack' = [stack EXCEPT ![Len(stack)] = e] BY <1>7 DEF Forward, Top
  <2> HIDE DEF e
  <2>3. CASE i # Len(stack)
    <3>0. i \in DOMAIN stack BY <1>1, <1>4
    <3>1. stack'[i] = stack[i] BY <2>2, <2>3, <3>0
    <3> QED BY <1>5, <3>1
  <2>4. CASE i = Len(stack)
    <3>0. i \in DOMAIN stack BY <1>1, <1>4
    <3>1. stack'[i] = e BY <2>2, <2>4, <3>0
    <3>2. Unsuspended(Top) BY <1>5, <2>4 DEF Top
    <3>3. ~ AtStep("suspend") BY <1>4
    <3>4. Steps(Top.handler)[Top.at] # "suspend" BY <3>3 DEF AtStep
    <3>5. CASE Top.handler \in Quick BY <2>1, <3>1, <3>5 DEF Unsuspended
    <3>6. CASE Top.handler = "command" /\ Top.at =< 2
      <4>1. Top.at = 1 BY <1>1, <3>4, <3>6, CommandTable, SMTT(30)
      <4> QED BY <2>1, <3>1, <3>6, <4>1 DEF Unsuspended
    <3>7. CASE Top.handler = "screen" /\ Top.at = 1 BY <3>4, <3>7, ScreenTable
    <3> QED BY <3>2, <3>5, <3>6, <3>7 DEF Unsuspended
  <2> QED BY <2>3, <2>4
<1> QED BY <1>6, <1>7

\* What the history says of a step from one state where nothing is mixed up
\* to another
LEMMA HistoryMeans ==
    ASSUME TracedNext, ~ inside', ~ stale'
    PROVE  \/ Agreed'
           \/ /\ ~ inside /\ ~ stale
              /\ Suspend => Outermost
              /\ Started => ~ pausing'
<1>1. inside' = ((inside \/ (Suspend /\ ~ Outermost)) /\ ~ Agreed') BY DEF TracedNext
<1>2. stale' = ((stale \/ (Started /\ pausing')) /\ ~ Agreed') BY DEF TracedNext
<1> QED BY <1>1, <1>2

LEMMA WindowExits ==
    ASSUME StackOK, Flat, ExitsInv, WindowStep, ~ Join
    PROVE  ExitsInv'
<1>1. /\ emu' = emu /\ enable' = enable
      /\ stack # << >> /\ \E n \in 1 .. 2 : Forward(n)
  <2>1. emu' = emu /\ enable' = enable
    BY DEF WindowStep, Enter, Leave, Suspend, SuspendWait, Resume, ResumeWait, Work,
           Pause, Paste, Config, Exit, flags, mode
  <2> QED BY <2>1, WindowForwards
<1>2. PICK n \in 1 .. 2 : Forward(n) BY <1>1
<1>3. SwitchFirst' BY <1>1, <1>2, SwitchForward DEF ExitsInv
<1>4. ThreadInv' BY <1>1 DEF ExitsInv, ThreadInv
<1>5. CASE Exit
  <2>1. AtStep("exit") /\ Forward(1) BY <1>5 DEF Exit
  <2>2. Len(stack) = 1 BY <2>1, SwitchAlone DEF ExitsInv
  <2>3. Phase' = "joining" /\ stack' # << >> BY <2>1, <2>2, StepPhase
  <2>4. StackOK' /\ Len(stack') =< 1 BY <1>1, <1>2, <2>2, Forwards
  <2>5. Len(stack') \in Nat /\ Len(stack') # 0 BY <2>3, <2>4 DEF StackOK
  <2>7. PICK l \in Nat : l = Len(stack') BY <2>5
  <2>8. l = 1 BY <2>4, <2>5, <2>7
  <2>6. Len(stack') = 1 BY <2>7, <2>8
  <2> QED BY <1>3, <1>4, <2>3, <2>6 DEF ExitsInv, ExitInv
<1>6. CASE ~ Exit
  <2>1. requestexit' = requestexit
    BY <1>6 DEF WindowStep, Enter, Leave, Suspend, SuspendWait, Resume, ResumeWait, Work,
                Pause, Paste, Config, flags
  <2>2. ASSUME Len(stack) = 1 /\ Phase = "joining" PROVE FALSE
    <3>1. AtStep("join") BY <2>2, JoiningStep
    <3> QED BY <1>6, <3>1 DEF WindowStep, Enter, Leave, Suspend, SuspendWait, Resume, ResumeWait,
                              Work, Pause, Paste, Config, AtStep
  <2>3. ~ (enable /\ requestexit) BY <2>2 DEF ExitsInv, ExitInv
  <2> QED BY <1>1, <1>3, <1>4, <2>1, <2>3 DEF ExitsInv, ExitInv
<1> QED BY <1>5, <1>6

\* The main loop starts again.
LEMMA RestartExits ==
    ASSUME stack' = << >>, NEW threads \in BOOLEAN, Restart(threads)
    PROVE  ExitsInv'
<1>1. Len(stack') = 0 OBVIOUS
<1>2. SwitchFirst' BY <1>1 DEF SwitchFirst
<1>3. ExitInv' /\ ThreadInv' BY DEF Restart, ExitInv, ThreadInv
<1> QED BY <1>2, <1>3 DEF ExitsInv

LEMMA JoinFacts ==
    ASSUME StackOK, SwitchFirst, Join
    PROVE  Len(stack) = 1 /\ Phase = "joining" /\ Phase' = "out" /\ stack' = << >>
<1>1. AtStep("join") /\ Forward(1) BY DEF Join
<1>2. Len(stack) = 1 BY <1>1, SwitchAlone
<1> QED BY <1>1, <1>2, StepPhase

LEMMA NextExits ==
    ASSUME StackOK, Flat, ExitsInv, Next
    PROVE  ExitsInv'
<1>0. Len(<< >>) = 0 OBVIOUS
<1>1. CASE WindowStep /\ ~ Join BY <1>1, WindowExits
<1>2. CASE Join
  <2>1. PICK threads \in BOOLEAN : Restart(threads) BY <1>2 DEF Join
  <2>2. stack' = << >> BY <1>2, JoinFacts DEF ExitsInv
  <2> QED BY <2>1, <2>2, RestartExits
<1>3. CASE StartThread
  <2>1. PICK threads \in BOOLEAN : Restart(threads) BY <1>3 DEF StartThread
  <2>2. stack' = << >> BY <1>3 DEF StartThread
  <2> QED BY <2>1, <2>2, RestartExits
<1>4. CASE WaitForExitThread
  <2>1. /\ stack = << >> /\ stack' = <<[handler |-> "switch", at |-> 1]>>
        /\ UNCHANGED <<requestexit, enable, emu>>
    BY <1>4 DEF WaitForExitThread, flags, mode
  <2>2. Len(stack') = 1 BY <2>1
  <2>3. SwitchFirst' BY <2>2 DEF SwitchFirst
  <2>4. ~ (enable /\ requestexit) BY <1>0, <2>1 DEF ExitsInv, ExitInv
  <2> QED BY <2>1, <2>3, <2>4 DEF ExitsInv, ExitInv, ThreadInv
<1>5. ASSUME NEW h \in Handler, Dispatch(h) PROVE ExitsInv'
  <2>1. /\ Len(stack) < DEPTH /\ (stack # << >> => Waits)
        /\ stack' = Append(stack, [handler |-> h, at |-> 1])
        /\ UNCHANGED <<requestexit, enable, emu>>
    BY <1>5 DEF Dispatch, flags, mode
  <2>2. PICK e \in Entry : e = [handler |-> h, at |-> 1] /\ e.at = 1 /\ e.handler = h BY NewEntry
  <2>3. /\ Len(stack') = Len(stack) + 1 /\ stack'[Len(stack) + 1] = e
        /\ \A i \in 1 .. Len(stack) : stack'[i] = stack[i]
    BY <2>1, <2>2, Pushed
  <2>4. PICK l \in Nat : l = Len(stack) BY DEF StackOK
  <2>5. ASSUME NEW i \in 2 .. Len(stack') PROVE stack'[i].handler # "switch"
    <3>1. i \in 2 .. l \/ i = l + 1 BY <2>3, <2>4
    <3>2. CASE i \in 2 .. l BY <2>3, <2>4, <3>2 DEF ExitsInv, SwitchFirst
    <3>3. CASE i = l + 1 BY <2>2, <2>3, <2>4, <3>3 DEF Handler
    <3> QED BY <3>1, <3>2, <3>3
  <2>6. SwitchFirst' BY <2>5 DEF SwitchFirst
  <2>7. ~ (enable /\ requestexit)
    <3>1. CASE stack = << >> BY <1>0, <3>1 DEF ExitsInv, ExitInv
    <3>2. CASE stack # << >> BY <2>1, <3>2 DEF Waits
    <3> QED BY <3>1, <3>2
  <2> QED BY <2>1, <2>6, <2>7 DEF ExitsInv, ExitInv, ThreadInv
<1>6. CASE EmulatorStep \/ AutoSendKey
  <2>1. stack' = stack BY <1>6, EmulatorFlat
  <2>2. UNCHANGED <<requestexit, enable>> /\ emu # "none"
    BY <1>6 DEF EmulatorStep, Check, Flags, Branch, SetPausing, Frame, AutoSendKeyEnd,
                AutoSendKey, flags, mode
  <2>3. Phase' = Phase BY <2>1 DEF Phase
  <2> QED BY <2>1, <2>2, <2>3 DEF ExitsInv, SwitchFirst, ExitInv, ThreadInv
<1> QED BY <1>1, <1>2, <1>3, <1>4, <1>5, <1>6 DEF Next

LEMMA WindowMeans ==
    ASSUME StackOK, Flat, ExitsInv, QuietInv, PhaseInv, WindowStep, ~ Join, Suspend => Outermost
    PROVE  QuietInv' /\ PhaseInv'
<1>1. /\ emu' = emu /\ pausing' = pausing /\ enable' = enable
      /\ stack # << >> /\ \E n \in 1 .. 2 : Forward(n)
  <2>1. emu' = emu /\ pausing' = pausing /\ enable' = enable
    BY DEF WindowStep, Enter, Leave, Suspend, SuspendWait, Resume, ResumeWait, Work,
           Pause, Paste, Config, Exit, flags, mode
  <2> QED BY <2>1, WindowForwards
<1>2. PICK n \in 1 .. 2 : Forward(n) BY <1>1
<1>3. ASSUME Len(stack) = 1 PROVE QuietInv'
  <2>1. Len(stack') =< 1 /\ StackOK' BY <1>1, <1>2, <1>3, Forwards
  <2>2. PICK l \in Nat : l = Len(stack') BY <2>1 DEF StackOK
  <2>3. l =< 1 BY <2>1, <2>2
  <2>4. 2 .. l = {} BY <2>3
  <2> QED BY <2>2, <2>4 DEF QuietInv
\* A step within the phase
<1>8. ASSUME NEW s \in {"enter", "leave", "work", "pause", "paste", "config"}, AtStep(s), Forward(1),
             UNCHANGED <<pauseemulation, pausing, requestexit, enable>>
      PROVE  QuietInv' /\ PhaseInv'
  <2>1. Phase' = Phase
    <3>1. CASE Len(stack) = 1 BY <1>8, <3>1, StepPhase
    <3>2. CASE Len(stack) # 1
      <4>1. PICK l \in Nat \ {0} : l = Len(stack) BY <1>1, TopFacts
      <4>2. Len(stack) > 1 BY <3>2, <4>1
      <4> QED BY <1>1, <1>8, <4>2, ForwardPhase
    <3> QED BY <3>1, <3>2
  <2>2. PhaseInv' BY <1>1, <1>8, <2>1 DEF PhaseInv, Pausing
  <2>3. Steps(Top.handler)[Top.at] # "suspend" BY <1>8 DEF AtStep
  <2>4. ~ AtStep("suspend") BY <2>3 DEF AtStep
  <2>5. QuietInv' BY <1>1, <1>8, <2>4, InnerForward
  <2> QED BY <2>2, <2>5
\* A step from phase to phase, of the outermost handler
<1>10. ASSUME NEW s \in {"suspending", "resume", "resuming", "exit"}, AtStep(s)
       PROVE  Len(stack) = 1
  <2>1. s # "suspend" /\ s \notin {"enter", "leave", "pause", "paste", "config"} OBVIOUS
  <2> QED BY <1>10, <2>1, InnerStep
<1>11. CASE Suspend
  <2>1. /\ AtStep("suspend") /\ pauseemulation' = TRUE
        /\ UNCHANGED <<pausing, requestexit, enable>>
    BY <1>11 DEF Suspend, mode
  <2>6. Len(stack) = 1 BY <1>11 DEF Outermost
  <2>2. Phase = "out" BY <1>2, <2>1, <2>6, StepPhase
  <2>3. ~ pauseemulation /\ emu # "ended" /\ (pausing => ~ enable) BY <2>2 DEF PhaseInv
  <2>4. CASE enable
    <3>1. Forward(1) BY <1>11, <2>3, <2>4 DEF Suspend
    <3>2. Phase' = "waiting" BY <2>1, <2>6, <3>1, StepPhase
    <3>3. PhaseInv' BY <1>1, <2>1, <2>3, <2>4, <3>2 DEF PhaseInv
    <3> QED BY <1>3, <2>6, <3>3
  <2>5. CASE ~ enable
    <3>1. Forward(2) BY <1>11, <2>5 DEF Suspend
    <3>2. Phase' = "held" BY <2>1, <2>6, <3>1, StepPhase
    <3>3. PhaseInv' BY <1>1, <2>1, <2>3, <2>5, <3>2 DEF PhaseInv
    <3> QED BY <1>3, <2>6, <3>3
  <2> QED BY <2>4, <2>5
<1>12. CASE SuspendWait
  <2>1. /\ AtStep("suspending") /\ Forward(1) /\ ~ Waits BY <1>12 DEF SuspendWait
  <2>2. UNCHANGED <<pauseemulation, pausing, requestexit, enable>>
    BY <1>12 DEF SuspendWait, flags, mode
  <2>7. Len(stack) = 1 BY <1>10, <2>1
  <2>3. Phase = "waiting" /\ Phase' = "held" BY <2>1, <2>7, StepPhase
  <2>4. pauseemulation /\ enable /\ (pausing => Pausing) BY <2>3 DEF PhaseInv
  <2>5. ~ requestexit BY <2>3, <2>4 DEF ExitsInv, ExitInv
  <2>8. pausing BY <2>1, <2>5 DEF Waits
  <2>6. PhaseInv' BY <1>1, <2>2, <2>3, <2>4, <2>8 DEF PhaseInv, Pausing
  <2> QED BY <1>3, <2>6, <2>7
<1>13. CASE Resume
  <2>1. /\ AtStep("resume") /\ pauseemulation' = FALSE
        /\ UNCHANGED <<pausing, requestexit, enable>>
    BY <1>13 DEF Resume, mode
  <2>6. Len(stack) = 1 BY <1>10, <2>1
  <2>2. Phase = "held" BY <1>2, <2>1, <2>6, StepPhase
  <2>3. pauseemulation /\ (enable => Pausing /\ pausing) BY <2>2 DEF PhaseInv
  <2>4. CASE enable
    <3>1. Forward(1) BY <1>13, <2>3, <2>4 DEF Resume, MustWait
    <3>2. Phase' = "resuming" BY <2>1, <2>6, <3>1, StepPhase
    <3>3. PhaseInv' BY <1>1, <2>1, <2>3, <2>4, <3>2 DEF PhaseInv, Pausing
    <3> QED BY <1>3, <2>6, <3>3
  <2>5. CASE ~ enable
    <3>1. Forward(2) BY <1>13, <2>5 DEF Resume, MustWait
    <3>2. Phase' = "out" BY <2>1, <2>6, <3>1, StepPhase
    <3>3. emu = "none" BY <2>5 DEF ExitsInv, ThreadInv
    <3>4. PhaseInv' BY <1>1, <2>1, <2>3, <2>5, <3>2, <3>3 DEF PhaseInv
    <3> QED BY <1>3, <2>6, <3>4
  <2> QED BY <2>4, <2>5
<1>14. CASE ResumeWait
  <2>1. /\ AtStep("resuming") /\ Forward(1) /\ ~ Waits BY <1>14 DEF ResumeWait
  <2>2. UNCHANGED <<pauseemulation, pausing, requestexit, enable>>
    BY <1>14 DEF ResumeWait, flags, mode
  <2>7. Len(stack) = 1 BY <1>10, <2>1
  <2>3. Phase = "resuming" /\ Phase' = "out" BY <2>1, <2>7, StepPhase
  <2>4. ~ pauseemulation /\ enable /\ (emu = "set" => pausing) /\ emu # "ended"
    BY <2>3 DEF PhaseInv
  <2>5. ~ requestexit BY <2>3, <2>4 DEF ExitsInv, ExitInv
  <2>8. ~ pausing BY <2>1, <2>5 DEF Waits
  <2>6. PhaseInv' BY <1>1, <2>2, <2>3, <2>4, <2>8 DEF PhaseInv
  <2> QED BY <1>3, <2>6, <2>7
<1>15. CASE Exit
  <2>1. /\ AtStep("exit") /\ Forward(1) /\ requestexit' = TRUE
        /\ UNCHANGED <<pauseemulation, pausing, enable>>
    BY <1>15 DEF Exit, mode
  <2>6. Len(stack) = 1 BY <1>10, <2>1
  <2>2. Phase = "held" /\ Phase' = "joining" BY <2>1, <2>6, StepPhase
  <2>5. PhaseInv' BY <2>2 DEF PhaseInv
  <2> QED BY <1>3, <2>5, <2>6
<1>17. CASE Enter BY <1>1, <1>8, <1>17 DEF Enter, flags
<1>18. CASE Leave BY <1>1, <1>8, <1>18 DEF Leave, flags
<1>19. CASE Work BY <1>1, <1>8, <1>19 DEF Work, flags
<1>20. CASE Pause BY <1>1, <1>8, <1>20 DEF Pause, flags
<1>21. CASE Paste BY <1>1, <1>8, <1>21 DEF Paste, flags
<1>22. CASE Config BY <1>1, <1>8, <1>22 DEF Config, flags
<1> QED BY <1>11, <1>12, <1>13, <1>14, <1>15, <1>17, <1>18, <1>19, <1>20, <1>21, <1>22
        DEF WindowStep

LEMMA FirstPhase ==
    ASSUME NEW h \in Handler
    PROVE  Phases(h)[1] = "out"
<1>1. CASE h \in Quick
  <2>1. 1 \in 1 .. Len(Steps(h))
    <3>1. PICK l \in 1 .. 7 : l = Len(Steps(h)) BY Lengths
    <3> QED BY <3>1
  <2> QED BY <1>1, <2>1, QuickSteps
<1>2. CASE h = "command" BY <1>2, CommandTable
<1>3. CASE h = "screen" BY <1>3, ScreenTable
<1> QED BY <1>1, <1>2, <1>3 DEF Handler, Quick

\* The main loop and the arrival of messages
LEMMA LoopMeans ==
    ASSUME StackOK, Flat, ExitsInv, QuietInv, PhaseInv, WaitForExitThread
    PROVE  QuietInv' /\ PhaseInv'
<1>1. /\ stack = << >> /\ stack' = <<[handler |-> "switch", at |-> 1]>>
      /\ UNCHANGED <<pauseemulation, pausing, enable, emu>>
  BY DEF WaitForExitThread, flags, mode
<1>2. Len(stack') = 1 /\ stack' # << >> /\ stack'[1].handler = "switch" /\ stack'[1].at = 1
  BY <1>1
<1>3. Phase = "out" /\ Phase' = "out" BY <1>1, <1>2, SwitchTable DEF Phase
<1>4. QuietInv' BY <1>2 DEF QuietInv
<1> QED BY <1>1, <1>3, <1>4 DEF PhaseInv

\* A thread that ends or begins leaves the flags clear, if it has cleared
\* "pausing".
LEMMA RestartMeans ==
    ASSUME ExitsInv, PhaseInv, StackOK, Join \/ StartThread, Started => ~ pausing'
    PROVE  QuietInv' /\ PhaseInv'
<1>1. /\ stack' = << >> /\ ~ pauseemulation' /\ emu \in {"ended", "none"}
      /\ \E threads \in BOOLEAN : Restart(threads)
  <2>1. CASE Join BY <2>1, JoinFacts DEF Join, PauseAfterExit, ExitsInv
  <2>2. CASE StartThread
    <3>1. /\ stack = << >> /\ stack' = << >> /\ pauseemulation' = pauseemulation /\ ~ enable
          /\ \E threads \in BOOLEAN : Restart(threads)
      BY <2>2 DEF StartThread
    <3>2. Phase = "out" /\ emu = "none" BY <3>1 DEF Phase, ExitsInv, ThreadInv
    <3> QED BY <3>1, <3>2 DEF PhaseInv
  <2> QED BY <2>1, <2>2
<1>2. PICK threads \in BOOLEAN : Restart(threads) BY <1>1
<1>3. Phase' = "out" /\ Len(stack') = 0 BY <1>1 DEF Phase
<1>4. enable' = threads /\ emu' = IF threads THEN "check" ELSE "none" BY <1>2 DEF Restart
<1>5. pausing' => ~ enable' BY <1>1, <1>4 DEF Started
<1>6. QuietInv' BY <1>3 DEF QuietInv
<1> QED BY <1>1, <1>3, <1>4, <1>5, <1>6 DEF PhaseInv

LEMMA DispatchMeans ==
    ASSUME StackOK, QuietInv, PhaseInv, NEW h \in Handler, Dispatch(h)
    PROVE  QuietInv' /\ PhaseInv'
<1>1. /\ Len(stack) < DEPTH /\ stack' = Append(stack, [handler |-> h, at |-> 1])
      /\ UNCHANGED <<pauseemulation, pausing, enable, emu>>
  BY DEF Dispatch, flags, mode
<1>2. PICK e \in Entry : e = [handler |-> h, at |-> 1] /\ e.at = 1 /\ e.handler = h BY NewEntry
<1>3. /\ StackOK' /\ Len(stack') = Len(stack) + 1 /\ stack'[Len(stack) + 1] = e
      /\ \A i \in 1 .. Len(stack) : stack'[i] = stack[i]
  BY <1>1, <1>2, Pushed
<1>4. PICK l \in Nat : l = Len(stack) BY DEF StackOK
<1>5. Unsuspended(e)
  <2>1. e.handler \in Quick \/ e.handler = "command" \/ e.handler = "screen" BY <1>2 DEF Handler, Quick
  <2> QED BY <1>2, <2>1 DEF Unsuspended
<1>6. ASSUME NEW i \in 2 .. Len(stack') PROVE Unsuspended(stack'[i])
  <2>1. i \in 2 .. l \/ i = l + 1 BY <1>3, <1>4
  <2>2. CASE i \in 2 .. l
    <3>1. stack'[i] = stack[i] BY <1>3, <1>4, <2>2
    <3> QED BY <1>4, <2>2, <3>1 DEF QuietInv
  <2>3. CASE i = l + 1 BY <1>3, <1>4, <1>5, <2>3
  <2> QED BY <2>1, <2>2, <2>3
<1>7. QuietInv' BY <1>6 DEF QuietInv
<1>8. Phase' = Phase
  <2>1. stack' # << >>
    <3>1. Len(<< >>) = 0 OBVIOUS
    <3>2. Len(stack') # 0 BY <1>3, <1>4
    <3> QED BY <3>1, <3>2
  <2>2. CASE l = 0
    <3>0. stack \in Seq(Entry) BY DEF StackOK
    <3>1. stack = << >> BY <1>4, <2>2, <3>0, EmptySeq
    <3>2. stack'[1] = e BY <1>3, <1>4, <2>2
    <3> QED BY <1>2, <2>1, <3>1, <3>2, FirstPhase DEF Phase
  <2>3. CASE l # 0
    <3>0. Len(<< >>) = 0 OBVIOUS
    <3>1. stack # << >> BY <1>4, <2>3, <3>0
    <3>2. 1 \in 1 .. l BY <2>3
    <3>3. stack'[1] = stack[1] BY <1>3, <1>4, <3>2
    <3> QED BY <2>1, <3>1, <3>3 DEF Phase
  <2> QED BY <2>2, <2>3
<1> QED BY <1>1, <1>7, <1>8 DEF PhaseInv, Pausing

\* The emulation thread goes round by the flags.
LEMMA EmulatorMeans ==
    ASSUME StackOK, Flat, ExitsInv, QuietInv, PhaseInv, EmulatorStep \/ AutoSendKey
    PROVE  QuietInv' /\ PhaseInv'
<1>1. stack' = stack BY EmulatorFlat
<1>2. UNCHANGED <<pauseemulation, requestexit, enable>>
  BY DEF EmulatorStep, Check, Flags, Branch, SetPausing, Frame, AutoSendKeyEnd, AutoSendKey, flags, mode
<1>3. Phase' = Phase /\ QuietInv' BY <1>1 DEF Phase, QuietInv
<1>4. emu # "none"
  BY DEF EmulatorStep, Check, Flags, Branch, SetPausing, Frame, AutoSendKeyEnd, AutoSendKey
<1>5. enable BY <1>4 DEF ExitsInv, ThreadInv
<1>6. requestexit => Phase = "joining" BY <1>5 DEF ExitsInv, ExitInv
<1>9. Phase \in PhaseNames BY PhaseName
<1>11. PhaseInv'
  <2>1. CASE Check
    <3>1. pausing' = pausing /\ emu = "check" /\ emu' = IF requestexit THEN "ended" ELSE "flags"
      BY <2>1 DEF Check, Goto, flags
    <3> QED BY <1>2, <1>3, <1>5, <1>6, <3>1 DEF PhaseInv, Pausing
  <2>2. CASE Flags
    <3>1. /\ pausing' = pausing /\ emu = "flags"
          /\ emu' = IF pauseemulation \/ userpause THEN "branch" ELSE "clear"
      BY <2>2 DEF Flags, Goto, flags
    <3> QED BY <1>2, <1>3, <1>5, <3>1 DEF PhaseInv, Pausing
  <2>3. CASE Branch
    <3>1. /\ pausing' = pausing /\ emu = "branch"
          /\ emu' = IF pauseemulation THEN "set" ELSE "unset"
      BY <2>3 DEF Branch, Goto, Pauses, flags
    <3> QED BY <1>2, <1>3, <1>5, <3>1 DEF PhaseInv, Pausing
  <2>4. CASE SetPausing("clear", FALSE, "frame") \/ SetPausing("unset", FALSE, "check")
    <3>1. ~ pausing' /\ emu \in {"clear", "unset"} /\ emu' \in {"frame", "check"}
      BY <2>4 DEF SetPausing, Goto
    <3> QED BY <1>2, <1>3, <1>5, <3>1 DEF PhaseInv, Pausing
  <2>5. CASE SetPausing("set", TRUE, "check")
    <3>1. pausing' /\ emu = "set" /\ emu' = "check" BY <2>5 DEF SetPausing, Goto
    <3> QED BY <1>2, <1>3, <1>5, <3>1 DEF PhaseInv, Pausing
  <2>6. CASE Frame \/ AutoSendKeyEnd \/ AutoSendKey
    <3>1. /\ pausing' = pausing /\ emu \in {"frame", "enter", "typing"}
          /\ emu' \in {"enter", "check", "typing"}
      BY <2>6 DEF Frame, AutoSendKeyEnd, AutoSendKey, Goto, flags
    <3> QED BY <1>2, <1>3, <1>5, <3>1 DEF PhaseInv, Pausing
  <2> QED BY <2>1, <2>2, <2>3, <2>4, <2>5, <2>6 DEF EmulatorStep
<1> QED BY <1>3, <1>11

LEMMA NextMeans ==
    ASSUME StackOK, Flat, SuspendInv, TracedNext
    PROVE  SuspendInv'
<1>1. Next BY DEF TracedNext
<1>2. ExitsInv' BY <1>1, NextExits DEF SuspendInv
<1>3. ASSUME ~ inside', ~ stale' PROVE QuietInv' /\ PhaseInv'
  <2>1. CASE Agreed' BY <2>1, AgreedMeans
  <2>2. CASE ~ Agreed'
    <3>1. ~ inside /\ ~ stale /\ (Suspend => Outermost) /\ (Started => ~ pausing')
      BY <1>3, <2>2, HistoryMeans
    <3>2. QuietInv /\ PhaseInv /\ ExitsInv BY <3>1 DEF SuspendInv, MeantInv
    <3>3. CASE WindowStep /\ ~ Join BY <3>1, <3>2, <3>3, WindowMeans
    <3>4. CASE Join \/ StartThread BY <3>1, <3>2, <3>4, RestartMeans
    <3>5. CASE EmulatorStep \/ AutoSendKey BY <3>2, <3>5, EmulatorMeans
    <3>6. ASSUME NEW h \in Handler, Dispatch(h) PROVE QuietInv' /\ PhaseInv'
      BY <3>2, <3>6, DispatchMeans
    <3>7. CASE WaitForExitThread BY <3>2, <3>7, LoopMeans
    <3> QED BY <1>1, <3>3, <3>4, <3>5, <3>6, <3>7 DEF Next
  <2> QED BY <2>1, <2>2
<1> QED BY <1>2, <1>3 DEF SuspendInv, MeantInv

LEMMA InitMeans == TracedInit => SuspendInv
<1> SUFFICES ASSUME TracedInit PROVE SuspendInv OBVIOUS
<1>1. stack = << >> /\ Len(stack) = 0 BY DEF TracedInit, Init
<1>2. Phase = "out" BY <1>1 DEF Phase
<1>3. PhaseInv /\ QuietInv BY <1>1, <1>2 DEF TracedInit, Init, PhaseInv, QuietInv
<1>4. SwitchFirst BY <1>1 DEF SwitchFirst
<1>5. ExitInv /\ ThreadInv BY DEF TracedInit, Init, ExitInv, ThreadInv
<1> QED BY <1>3, <1>4, <1>5 DEF SuspendInv, ExitsInv, MeantInv

LEMMA StillMeans ==
    ASSUME SuspendInv, UNCHANGED <<vars, inside, stale>>
    PROVE  SuspendInv'
<1>1. /\ UNCHANGED <<stack, pauseemulation, pausing, requestexit, enable, requestswitch>>
      /\ UNCHANGED <<owner, userpause, pasted, emu, inside, stale>>
  BY DEF vars, flags, mode
<1>2. Phase' = Phase BY <1>1 DEF Phase
<1>3. PhaseInv' <=> PhaseInv BY <1>1, <1>2 DEF PhaseInv, Pausing
<1>4. QuietInv' <=> QuietInv BY <1>1 DEF QuietInv
<1>5. ExitsInv' BY <1>1, <1>2 DEF SuspendInv, ExitsInv, SwitchFirst, ExitInv, ThreadInv
<1> QED BY <1>1, <1>3, <1>4, <1>5 DEF SuspendInv, MeantInv

LEMMA SuspensionInv ==
    ASSUME StackOK, Flat, SuspendInv
    PROVE  CountedIsStill
<1> SUFFICES ASSUME ~ inside, ~ stale, NEW i \in DOMAIN stack, Suspended(i)
             PROVE  emu \notin {"frame", "enter", "typing"}
  BY DEF CountedIsStill, SuspendedIsStill
<1>1. ThreadTypes BY TypesSplit
<1>2. stack[i].handler \in Suspenders /\ Phases(stack[i].handler)[stack[i].at] = "held"
  BY <1>1, HeldIsSuspended
<1>3. DOMAIN stack = 1 .. Len(stack) /\ Len(stack) \in Nat BY DEF StackOK
<1>4. QuietInv /\ PhaseInv /\ ThreadInv BY DEF SuspendInv, ExitsInv, MeantInv
<1>5. ~ Unsuspended(stack[i])
  <2>1. stack[i].handler \notin Quick BY <1>2 DEF Suspenders, Quick
  <2>2. stack[i] \in Entry BY DEF StackOK
  <2>3. PICK a \in 1 .. 7 : a = stack[i].at BY <2>2 DEF Entry
  <2>4. ~ (stack[i].handler = "command" /\ a =< 2)
    <3>1. SUFFICES ASSUME stack[i].handler = "command", a =< 2 PROVE FALSE OBVIOUS
    <3>2. a = 1 \/ a = 2 BY <3>1
    <3>3. Phases("command")[a] = "held" BY <1>2, <2>3, <3>1
    <3> QED BY <3>2, <3>3, CommandTable
  <2>5. ~ (stack[i].handler = "screen" /\ a = 1)
    <3>1. SUFFICES ASSUME stack[i].handler = "screen", a = 1 PROVE FALSE OBVIOUS
    <3>2. Phases("screen")[1] = "held" BY <1>2, <2>3, <3>1
    <3> QED BY <3>2, ScreenTable
  <2> QED BY <2>1, <2>3, <2>4, <2>5 DEF Unsuspended
<1>6. i \notin 2 .. Len(stack) BY <1>4, <1>5 DEF QuietInv
<1>7. PICK l \in Nat : l = Len(stack) BY <1>3
<1>8. i = 1 /\ l # 0 BY <1>3, <1>6, <1>7
<1>9. stack # << >>
  <2>1. Len(<< >>) = 0 OBVIOUS
  <2> QED BY <1>7, <1>8, <2>1
<1>10. Phase = "held" BY <1>2, <1>8, <1>9 DEF Phase
<1> QED BY <1>4, <1>10 DEF PhaseInv, ThreadInv, Pausing

\* While a handler that has suspended the emulation resets the machine,
\* changes a disk or saves a state, no frame runs and no key is typed,
\* whatever messages arrive inside its waits and whatever the user pauses,
\* pastes or switches: until another Suspend runs inside one of its waits, or
\* a new thread is suspended before it cleared the answer of the one before
\* it; and again from when the two threads have agreed since.  For any
\* messages, any nesting and any text.
THEOREM SuspensionHolds == TracedSpec => []CountedIsStill
<1> DEFINE I == StackOK /\ Flat /\ SuspendInv
<1>1. TracedInit => I BY InitTypes, InitMeans DEF TracedInit
<1>2. I /\ [TracedNext]_<<vars, inside, stale>> => I'
  <2>1. ASSUME I, TracedNext PROVE I'
    <3>1. Next BY <2>1 DEF TracedNext
    <3>2. StackOK' /\ Flat' BY <2>1, <3>1, NextTypes
    <3>3. SuspendInv' BY <2>1, NextMeans
    <3> QED BY <3>2, <3>3
  <2>2. ASSUME I, UNCHANGED <<vars, inside, stale>> PROVE I'
    <3>1. UNCHANGED vars BY <2>2
    <3> QED BY <2>2, <3>1, StillTypes, StillMeans
  <2> QED BY <2>1, <2>2
<1>3. I => CountedIsStill BY SuspensionInv
<1> QED BY <1>1, <1>2, <1>3, PTL DEF TracedSpec
=============================================================================
