------------------------------ MODULE MC_Hybrid ------------------------------
(***************************************************************************)
(* Small instances of HybridCache for TLC.                                 *)
(***************************************************************************)
EXTENDS HybridCache, MC_Accesses

Shared == CHOOSE b \in Blocks : TRUE

\* CPU 0 loads every block; the others only the one that is also stored to.
SharersNext ==
  /\ Next
  /\ \A c \in Caches \ {0} : cpuPkt'[c] # NoPacket => cpuPkt'[c].blk = Shared

SharersSpec == Init /\ [][SharersNext]_vars
==============================================================================
