------------------------------ MODULE MCLgy98 ------------------------------
(***************************************************************************)
(* An instance of Lgy98 for TLC.                                           *)
(***************************************************************************)
EXTENDS Lgy98

CONSTANTS x
=============================================================================
