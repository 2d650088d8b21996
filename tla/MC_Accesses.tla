----------------------------- MODULE MC_Accesses -----------------------------
(***************************************************************************)
(* What the CPUs of the small instances do.                                *)
(***************************************************************************)
EXTENDS CacheSets

\* All cacheable blocks compete for one set.
OneSet == [b \in Cacheable |-> 0]

\* The word sets one access can touch: a word, or the block.
Accesses == {{w} : w \in Words} \cup {Words}

Loads  == [cmd : {"Read"}, blk : Blocks, words : Accesses, data : {EmptyBlock}]
Stores == [cmd : {"Write"}, blk : Blocks, words : Accesses,
           data : {[w \in Words |-> v] : v \in Values}]

\* Loads and stores of a word or a block.
AllAccesses == Loads \cup Stores

\* Loads of whole blocks, stores of one word of them.
WordStores ==
  {p \in AllAccesses :
     p.words = IF p.cmd = "Read" THEN Words ELSE {CHOOSE w \in Words : TRUE}}

\* Stores of every value to one block, loads of its rivals, and stores of one
\* value to what is not cached.
OneBusy ==
  LET busy == CHOOSE b \in Cacheable : TRUE
      One  == [w \in Words |-> CHOOSE v \in Values \ {Zero} : TRUE]
  IN {p \in AllAccesses :
        p.cmd = "Write" /\ p.blk # busy => p.data = One /\ p.blk \notin Cacheable}

\* Stores to one block only; loads of every block.
OneWritten == {p \in AllAccesses : p.cmd = "Write" => p.blk = CHOOSE b \in Blocks : TRUE}
==============================================================================
