---------------------------- MODULE MC_SetLookup ----------------------------
(***************************************************************************)
(* Addresses around both ends of the cacheable range, 4-byte blocks, 4     *)
(* sets: the first and last byte of a block, of the next set, of the next  *)
(* tag, of the range, and the bytes right below and above it.              *)
(***************************************************************************)
EXTENDS SetLookup

Start == SharedMemStart
AroundTheRange ==
  {Start - 1, Start, Start + 3, Start + 4, Start + 15, Start + 16, Start + 37,
   SharedMemEnd - 4, SharedMemEnd - 1, SharedMemEnd}
==============================================================================
