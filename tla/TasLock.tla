------------------------------ MODULE TasLock ------------------------------
(***************************************************************************)
(* The test-and-set lock test (src/cc/binaries/tas_lock.c) on a coherent   *)
(* memory: every load and every store of the lock is one atomic step,      *)
(* which is what MesiCache is shown to provide.                            *)
(***************************************************************************)
EXTENDS Integers

CONSTANT Cores    \* core ids; core 0 clears the lock

VARIABLES
  lock,   \* the shared word
  old,    \* what test_and_set read, by core
  pc      \* where each core is in main

vars == <<lock, old, pc>>

\* Memory may hold anything before core 0 clears the lock.
Init ==
  /\ lock \in {0, 1}
  /\ old = [c \in Cores |-> 0]
  /\ pc = [c \in Cores |-> IF c = 0 THEN "clear" ELSE "load"]

Goto(c, from, to) == pc[c] = from /\ pc' = [pc EXCEPT ![c] = to]

\* if(core_id == 0) *lock = 0.
Clear(c) == Goto(c, "clear", "load") /\ lock' = 0 /\ UNCHANGED old

\* int old = *lock.
LoadLock(c) ==
  /\ Goto(c, "load", "store")
  /\ old' = [old EXCEPT ![c] = lock]
  /\ UNCHANGED lock

\* *lock = 1, and the spin of tas_lock_acquire.
StoreLock(c) ==
  /\ Goto(c, "store", IF old[c] = 0 THEN "holds" ELSE "load")
  /\ lock' = 1
  /\ UNCHANGED old

\* *lock = 0.
ReleaseLock(c) == Goto(c, "holds", "done") /\ lock' = 0 /\ UNCHANGED old

Next == \E c \in Cores : Clear(c) \/ LoadLock(c) \/ StoreLock(c) \/ ReleaseLock(c)

Spec == Init /\ [][Next]_vars

\* "Atomic test-and-set operation" (src/cc/binaries/tas_lock.c:11): two cores
\* that are about to store do not both have found the lock free.
FoundFree(c) == pc[c] = "store" /\ old[c] = 0

TestAndSetAtomic == \A c, d \in Cores : FoundFree(c) /\ FoundFree(d) => c = d
=============================================================================
