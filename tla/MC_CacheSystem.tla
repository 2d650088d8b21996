--------------------------- MODULE MC_CacheSystem ---------------------------
(***************************************************************************)
(* A small hierarchy for TLC: a core whose two-way cache sits right above  *)
(* the last level, and one with a level in between.                        *)
(***************************************************************************)
EXTENDS CacheSystem, TLC

CONSTANTS L1a, L1b, L2, L3, b1, b2, b3

TwoCores == L1a :> <<L1a, L3>> @@ L1b :> <<L1b, L2, L3>> @@ L2 :> <<L2, L3>> @@ L3 :> <<L3>>
OneSetEach == [c \in Caches |-> [b \in Blocks |-> 0]]

\* L1b has more MSHR entries than lines and L3 more lines than entries, so
\* that a locked set and a full MSHR each refuse a request alone.
TwoLines   == [c \in Caches |-> IF c \in {L1a, L3} THEN 2 ELSE 1]
TwoEntries == [c \in Caches |-> IF c \in {L1a, L1b} THEN 2 ELSE 1]
LastIsSlow == [c \in Caches |-> IF c = L3 THEN 1 ELSE 0]

\* The first core stores to one block and loads another; the second one
\* keeps the last level busy and shares the stored block.
Loads == {<<L1a, b2, "READ">>, <<L1b, b1, "READ">>, <<L1b, b3, "READ">>}
Stores == {<<L1a, b1, "WRITE">>, <<L1b, b1, "WRITE">>}
SomeOfEach == Loads \cup Stores
==============================================================================
