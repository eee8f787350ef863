------------------------------ MODULE MCNEvent ------------------------------
(***************************************************************************)
(* An instance of NEvent for TLC.                                          *)
(***************************************************************************)
EXTENDS NEvent

CONSTANTS Flames, Timer, Key
=============================================================================
