---------------------------- MODULE MC_SharedWrite ----------------------------
(***************************************************************************)
(* Small instances of SharedWriteCache for TLC.                            *)
(***************************************************************************)
EXTENDS SharedWriteCache, MC_Accesses

\* Words that no packet stores hold something else than the zeros of a newly
\* allocated line, so that a write that drops them is noticed.
StoredWords == UNION {p.words : p \in {q \in CpuPackets : q.cmd = "Write"}}

UnstoredWordsSet ==
  /\ SharedInit
  /\ \A b \in Blocks, w \in Words \ StoredWords : memory[b][w] # Zero

\* Two CPUs load and store, the others only load.
ReadersNext ==
  /\ SharedWriteNext
  /\ \A c \in Caches \ {0, 1} : cpuPkt'[c] # NoPacket => cpuPkt'[c].cmd = "Read"

ReadersSpec == UnstoredWordsSet /\ [][ReadersNext]_sharedVars
==============================================================================
