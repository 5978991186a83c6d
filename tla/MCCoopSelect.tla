---------------------------- MODULE MCCoopSelect ----------------------------
(* An instance of CoopSelect for TLC.                                      *)
EXTENDS CoopSelect
=============================================================================
