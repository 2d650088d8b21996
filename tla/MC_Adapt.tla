------------------------------- MODULE MC_Adapt -------------------------------
(***************************************************************************)
(* Small instances of AdaptCache for TLC.                                  *)
(***************************************************************************)
EXTENDS AdaptCache, MC_Accesses

\* Loads of whole blocks; stores of a word or the whole, to one block.
OneWrittenAnyhow ==
  {p \in OneWritten :
     p.words = Words \/ (p.cmd = "Write" /\ p.words = {CHOOSE w \in Words : TRUE})}

\* Data plays no part in the policy: memory starts with zeros.
FixedInit == Init /\ memory = [b \in Blocks |-> EmptyBlock]

FixedSpec == FixedInit /\ [][Next]_vars
==============================================================================
