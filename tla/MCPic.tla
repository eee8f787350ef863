------------------------------- MODULE MCPic -------------------------------
(***************************************************************************)
(* An instance of Pic for TLC: chips of three lines.                       *)
(***************************************************************************)
EXTENDS Pic

Command(eoi, rotate, specific) == [eoi |-> eoi, rotate |-> rotate, specific |-> specific]

\* The end of an interrupt: of the highest in service, or of a named one;
\* the first with a rotation of the priorities, and a rotation by itself
EndCommands == {Command(TRUE, FALSE, FALSE), Command(TRUE, FALSE, TRUE)}
SomeCommands == EndCommands \cup {Command(TRUE, TRUE, FALSE), Command(FALSE, TRUE, TRUE)}

\* Nothing masked, or the timer; on the slave it is a device's line
TimerMasks == {{}, {TIMER}}

\* A device on the slave whose thread raises its request
SlaveInput == {<<Slave, 0>>}
=============================================================================
