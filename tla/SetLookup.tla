------------------------------ MODULE SetLookup ------------------------------
(***************************************************************************)
(* How a cache finds a line and makes room for one: addresses are looked   *)
(* up between the sweeps of the CLOCK hand over the set.                   *)
(***************************************************************************)
EXTENDS ClockSweep, AddressMap

lookupVars == <<sweepVars, addressVars>>

LookupInit == SweepInit /\ AddressInit

LookupNext ==
  \/ SweepNext /\ UNCHANGED addressVars
  \/ phase = "serving" /\ Lookup /\ UNCHANGED sweepVars

\* A sweep runs inside one event, so it is not interrupted.
LookupSpec ==
  /\ LookupInit /\ [][LookupNext]_lookupVars
  /\ WF_lookupVars(SweepStep /\ UNCHANGED addressVars)
  /\ WF_lookupVars(EvictFrame /\ UNCHANGED addressVars)
==============================================================================
