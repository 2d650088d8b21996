------------------------------- MODULE MC_Mesi -------------------------------
(***************************************************************************)
(* Small instances of MesiCache for TLC.                                   *)
(***************************************************************************)
EXTENDS MesiCache, MC_Accesses
==============================================================================
