---------------------------- MODULE MC_Controller ----------------------------
(***************************************************************************)
(* A small instance of Controller for TLC: two banks, one with two rows.   *)
(***************************************************************************)
EXTENDS Controller, TLC

CONSTANTS a1, a2, a3

TwoBanks == [a \in Addrs |-> IF a = a3 THEN 1 ELSE 0]
TwoRows  == [a \in Addrs |-> IF a = a2 THEN "r2" ELSE "r1"]

\* Reads and writes of one address, a read of its row's rival, writes next door.
SomeOfEach == {<<"READ", a1>>, <<"WRITE", a1>>, <<"READ", a2>>, <<"WRITE", a3>>}
==============================================================================
