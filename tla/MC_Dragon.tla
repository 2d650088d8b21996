------------------------------ MODULE MC_Dragon ------------------------------
(***************************************************************************)
(* Small instances of DragonCache for TLC.                                 *)
(***************************************************************************)
EXTENDS DragonCache, MC_Accesses
==============================================================================
