------------------------------- MODULE MCFdc -------------------------------
(* Two drives of one track with two sides of two sectors of two bytes.     *)
EXTENDS Fdc

MCBad == {<<1, 0, 2>>}
=============================================================================
