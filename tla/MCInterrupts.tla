---------------------------- MODULE MCInterrupts ----------------------------
(***************************************************************************)
(* Instances of Interrupts for TLC: the timer and two devices on the slave.*)
(***************************************************************************)
EXTENDS Interrupts

SlaveInputs == {<<Slave, 0>>, <<Slave, 1>>}
=============================================================================
