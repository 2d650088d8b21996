----------------------------- MODULE ClockSweep -----------------------------
(***************************************************************************)
(* One cache set under CLOCK replacement, with the loop of evict() taken   *)
(* one iteration at a time (src/cc/src/mesi_cache.cc 129-170): the hand    *)
(* walks the frames, clears set flags, and stops at a clear one.  Hits set *)
(* flags between sweeps, and allocate marks the new line and moves on.     *)
(***************************************************************************)
EXTENDS ClockReplacement

VARIABLES
  clkFlags,   \* clkFlag of the frames of a full set
  clkHand,    \* clkPtr
  phase,      \* "serving", "sweeping" or "evicted"
  before      \* flags and hand when the sweep began

sweepVars == <<clkFlags, clkHand, phase, before>>

SweepInit ==
  /\ clkFlags \in [Ways -> {0, 1}]
  /\ clkHand \in Ways
  /\ phase = "serving"
  /\ before = [flags |-> clkFlags, hand |-> clkHand]

\* A hit marks the line.
Hit(w) ==
  /\ phase = "serving"
  /\ clkFlags' = [clkFlags EXCEPT ![w] = 1]
  /\ UNCHANGED <<clkHand, phase, before>>

\* A miss in the full set enters the loop.
Miss ==
  /\ phase = "serving"
  /\ phase' = "sweeping"
  /\ before' = [flags |-> clkFlags, hand |-> clkHand]
  /\ UNCHANGED <<clkFlags, clkHand>>

\* Fault: the hand does not move past a frame whose flag it cleared.
HandStays(w) == w

\* clkPtr = (clkPtr + 1) % numLines.
NextHand(w) == After(w, 1)

\* Fault: the flag is tested but not cleared.
SweepKeepsFlag ==
  /\ phase = "sweeping"
  /\ clkFlags[clkHand] = 1
  /\ clkHand' = NextHand(clkHand)
  /\ UNCHANGED <<clkFlags, phase, before>>

\* One iteration at a frame whose flag is set.
SweepStep ==
  /\ phase = "sweeping"
  /\ clkFlags[clkHand] = 1
  /\ clkFlags' = [clkFlags EXCEPT ![clkHand] = 0]
  /\ clkHand' = NextHand(clkHand)
  /\ UNCHANGED <<phase, before>>

\* The iteration that finds the victim leaves the loop.
EvictFrame ==
  /\ phase = "sweeping"
  /\ clkFlags[clkHand] = 0
  /\ phase' = "evicted"
  /\ UNCHANGED <<clkFlags, clkHand, before>>

\* allocate takes the frame the hand stopped at.
AllocateFrame ==
  /\ phase = "evicted"
  /\ phase' = "serving"
  /\ clkFlags' = [clkFlags EXCEPT ![clkHand] = 1]
  /\ clkHand' = NextHand(clkHand)
  /\ UNCHANGED before

SweepNext ==
  \/ \E w \in Ways : Hit(w)
  \/ Miss
  \/ SweepStep
  \/ EvictFrame
  \/ AllocateFrame

SweepSpec == SweepInit /\ [][SweepNext]_sweepVars

\* The loop stops at the frame the closed form names and leaves the flags the
\* closed form gives, from every flag pattern and hand position (while(1) of
\* mesi_cache.cc:140-168).
MatchesClosedForm ==
  phase = "evicted" =>
    /\ clkHand = VictimWay(before.flags, before.hand)
    /\ clkFlags = FlagsAfterSweep(before.flags, before.hand)

\* Every frame the hand passes costs the set one of its flags, so while(1)
\* looks at no more than NumLines + 1 frames.
SetFlags == {w \in Ways : clkFlags[w] = 1}
SweepShortens ==
  [][phase = "sweeping" /\ phase' = "sweeping" =>
       SetFlags' \subseteq SetFlags /\ SetFlags' # SetFlags]_sweepVars

\* while(1) ends: every sweep finds a victim.
SweepEnds == phase = "sweeping" ~> phase = "evicted"
=============================================================================
