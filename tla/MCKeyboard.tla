---------------------------- MODULE MCKeyboard ------------------------------
(***************************************************************************)
(* Instances of Keyboard for TLC: a key that repeats and a shift key.      *)
(***************************************************************************)
EXTENDS Keyboard

AllCommands == {"repeat", "led", "type", "unknown"}

\* What holds a key is only compared.
OwnerSymmetry == Permutations(OWNER)
=============================================================================
