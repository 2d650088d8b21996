-------------------------- MODULE ClockReplacement --------------------------
(***************************************************************************)
(* The frames of one cache set and the CLOCK sweep that picks the frame to *)
(* reuse: the loop of evict() in every cache (src/cc/src/mesi_cache.cc     *)
(* 140-168), in closed form.  ClockSweep steps through the loop and checks *)
(* that it computes this.                                                  *)
(***************************************************************************)
EXTENDS Integers

CONSTANT NumLines      \* ways of a set

ASSUME NumLinesAssumption == NumLines \in Nat \ {0}

Ways == 0 .. NumLines - 1

\* The frame k places after ptr in the circular array.
After(ptr, k) == (ptr + k) % NumLines

\* How many frames the hand passes, clearing their flags, before it meets a
\* clear one; after a full round that is the frame it started from.
Passed(clk, ptr) ==
  IF \E k \in Ways : clk[After(ptr, k)] = 0
    THEN CHOOSE k \in Ways : /\ clk[After(ptr, k)] = 0
                             /\ \A j \in Ways : j < k => clk[After(ptr, j)] # 0
    ELSE NumLines

VictimWay(clk, ptr) == After(ptr, Passed(clk, ptr))

FlagsAfterSweep(clk, ptr) ==
  [w \in Ways |-> IF \E k \in Ways : k < Passed(clk, ptr) /\ w = After(ptr, k)
                    THEN 0 ELSE clk[w]]
=============================================================================
