------------------------------- MODULE MC_Base -------------------------------
(***************************************************************************)
(* The bus and the base class for TLC, under every protocol.  Data does    *)
(* not matter here: one word, one value.                                   *)
(***************************************************************************)
EXTENDS CoherentCacheBase

OneWord == [cmd : {"Read", "Write"}, blk : Blocks, words : {Words}, data : {EmptyBlock}]
==============================================================================
