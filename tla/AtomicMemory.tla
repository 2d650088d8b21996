---------------------------- MODULE AtomicMemory ----------------------------
(***************************************************************************)
(* What a coherent memory system promises its CPUs, with no bus and no     *)
(* caches: each access takes effect at one instant between the moment the  *)
(* CPU sends it and the moment the response arrives, on one memory all     *)
(* CPUs share.  The CPU's side of the promise is that of                   *)
(* src/cc/src/coherent_cache_base.cc 93-126: a request is accepted when    *)
(* the previous one is answered, and is answered once.                     *)
(***************************************************************************)
EXTENDS Integers

CONSTANTS Clients, Blocks, Words, Values, CpuPackets, NoPacket

VARIABLES
  contents,   \* by block and word
  operation,  \* the access of each client, with its data once performed
  performed   \* whether it has taken effect

memoryVars == <<contents, operation, performed>>

Init ==
  /\ contents \in [Blocks -> [Words -> Values]]
  /\ operation = [c \in Clients |-> NoPacket]
  /\ performed = [c \in Clients |-> FALSE]

\* What an access leaves in memory and what it returns.
Written(p) ==
  IF p.cmd = "Read" THEN contents
  ELSE [contents EXCEPT ![p.blk] =
          [w \in Words |-> IF w \in p.words THEN p.data[w] ELSE @[w]]]

Returned(p) ==
  IF p.cmd = "Write" THEN p
  ELSE [p EXCEPT !.data =
          [w \in Words |-> IF w \in p.words THEN contents[p.blk][w] ELSE @[w]]]

TakeEffect(c, p) ==
  /\ contents' = Written(p)
  /\ operation' = [operation EXCEPT ![c] = Returned(p)]
  /\ performed' = [performed EXCEPT ![c] = TRUE]

Send(c, p) ==
  /\ operation[c] = NoPacket
  /\ operation' = [operation EXCEPT ![c] = p]
  /\ UNCHANGED <<contents, performed>>

\* An access may take effect in the step that sends it.
SendAndPerform(c, p) == operation[c] = NoPacket /\ TakeEffect(c, p)

Perform(c) ==
  /\ operation[c] # NoPacket
  /\ ~performed[c]
  /\ TakeEffect(c, operation[c])

Respond(c) ==
  /\ performed[c]
  /\ operation' = [operation EXCEPT ![c] = NoPacket]
  /\ performed' = [performed EXCEPT ![c] = FALSE]
  /\ UNCHANGED contents

Next ==
  \E c \in Clients :
    \/ \E p \in CpuPackets : Send(c, p) \/ SendAndPerform(c, p)
    \/ Perform(c)
    \/ Respond(c)

Spec == Init /\ [][Next]_memoryVars
=============================================================================
