----------------------------- MODULE CacheSystem -----------------------------
(***************************************************************************)
(* The cache hierarchy in front of the memory controller: the sets, locks  *)
(* and MSHRs of SimpleLLC, the levels of Cache that hand misses down and   *)
(* retry refused ones, and the lists of CacheSystem that delay hits and    *)
(* requests to memory (src/SimpleLLC.cpp, src/Cache.cpp).                  *)
(*                                                                         *)
(* The loops of tick() run one element per step; nothing else moves until  *)
(* they end.  Cores, which tick the hierarchy, and the memory behind       *)
(* send_memory are external.  Requests carry no data.                      *)
(***************************************************************************)
EXTENDS Integers, Sequences, FiniteSets, SequencesExt

CONSTANTS
  Caches,      \* every Cache object
  Path,        \* concatlower: the caches from each down to the last level
  NoCache,
  Blocks,      \* the block an address is aligned to
  Indexes,     \* set numbers
  IndexOf,     \* the set of a block, by cache
  Assoc,       \* lines per set, by cache
  MshrNum,     \* num_mshr_entries, by cache
  Latency,     \* accumulated latency of a level, by cache
  CoreRequests, \* what cores send: first-level cache, block and type
  MemQueue,    \* requests of one type the memory takes
  MaxHits,     \* bound: a core sends while fewer hits are on their way,
  MaxWait,     \* bound: and fewer requests wait for memory,
  MaxRetry     \* bound: and no retry list is longer

\* lower_cache; there is none below the last level.
Lower == [c \in Caches |-> IF Len(Path[c]) = 1 THEN NoCache ELSE Path[c][2]]

LastLevel  == CHOOSE c \in Caches : Lower[c] = NoCache
FirstLevel == {c \in Caches : \A d \in Caches : Lower[d] # c}

ASSUME HierarchyAssumption ==
  /\ NoCache \notin Caches
  /\ Path \in [Caches -> Seq(Caches)]
  /\ \A c \in Caches :
       /\ Path[c] # <<>> /\ Path[c][1] = c
       /\ Len(Path[c]) # 1 => Path[Path[c][2]] = Tail(Path[c])
  /\ \E c \in Caches : \A d \in Caches : Lower[d] = NoCache <=> d = c
  /\ LastLevel \notin FirstLevel
  /\ IndexOf \in [Caches -> [Blocks -> Indexes]]
  /\ Assoc \in [Caches -> Nat \ {0}] /\ MshrNum \in [Caches -> Nat \ {0}]
  /\ Latency \in [Caches -> Nat]
  /\ CoreRequests \subseteq FirstLevel \X Blocks \X {"READ", "WRITE"}

VARIABLES
  sets,      \* sets[c][i]: the lines of a set in LRU order, oldest first
  mshr,      \* mshr_entries: the blocks a cache waits for
  retryList, \* misses the cache below refused
  waitList,  \* requests to memory with the ticks left until they may go
  hitList,   \* hits with the ticks left until they are answered
  atMemory,  \* requests the memory took and has not finished, by type and block
  loop,      \* where the running tick() is
  unsaved    \* history: blocks stored to and not written back since, by first-level cache

vars == <<sets, mshr, retryList, waitList, hitList, atMemory, loop, unsaved>>

Line  == [block : Blocks, lock : BOOLEAN, dirty : BOOLEAN]
Types == {"READ", "WRITE"}

Idle == [at |-> "idle"]

\* c and the caches below it.
Below(c) == ToSet(Path[c])

-----------------------------------------------------------------------------
(* SimpleLLC *)

SetOf(c, b) == sets[c][IndexOf[c][b]]
Places(c, b) == {i \in DOMAIN SetOf(c, b) : SetOf(c, b)[i].block = b}

SetFull(c, b) == Len(SetOf(c, b)) >= Assoc[c]
AllLocked(c, b) == SetFull(c, b) /\ \A i \in DOMAIN SetOf(c, b) : SetOf(c, b)[i].lock

\* Fault: a hit on a line that waits for its data.
HitsLockedLine(c, b) == Places(c, b) # {}

\* is_hit: there is a line with the tag, and it does not wait for its data.
IsHit(c, b) == \E i \in Places(c, b) : ~SetOf(c, b)[i].lock

\* Fault: an entry too many before the MSHR counts as full.
MshrOverfull(c) == Cardinality(mshr[c]) > MshrNum[c]

MshrFull(c) == Cardinality(mshr[c]) = MshrNum[c]

\* What SimpleLLC::send makes of a request.
Outcome(c, b) ==
  IF IsHit(c, b) THEN "hit"
  ELSE IF b \in mshr[c] THEN "mshr_hit"
  ELSE IF MshrFull(c) \/ AllLocked(c, b) THEN "stalled"
  ELSE "allocated"

\* Fault: the copy at the back forgets that it was dirty.
DirtyForgotten(c, b, write) ==
  LET i == CHOOSE j \in Places(c, b) : TRUE
  IN Append(RemoveAt(SetOf(c, b), i), [block |-> b, lock |-> FALSE, dirty |-> write])

\* The hit line moves to the back.
MovedToBack(c, b, write) ==
  LET s == SetOf(c, b)
      i == CHOOSE j \in Places(c, b) : TRUE
  IN Append(RemoveAt(s, i), [block |-> b, lock |-> FALSE, dirty |-> s[i].dirty \/ write])

\* A store that meets its own block in the MSHR dirties the line to come.
MarkedDirty(c, b, write) ==
  [i \in DOMAIN SetOf(c, b) |->
     [SetOf(c, b)[i] EXCEPT !.dirty = @ \/ (write /\ i \in Places(c, b))]]

\* Victim of allocate_line: the oldest unlocked line of a full set.
Evicted(c, b) ==
  IF SetFull(c, b)
  THEN LET free == {i \in DOMAIN SetOf(c, b) : ~SetOf(c, b)[i].lock}
       IN {i \in free : \A j \in free : i <= j}
  ELSE {}

NewLines(c, b, write) ==
  LET s    == SetOf(c, b)
      kept == IF Evicted(c, b) = {} THEN s ELSE RemoveAt(s, CHOOSE i \in Evicted(c, b) : TRUE)
  IN Append(kept, [block |-> b, lock |-> TRUE, dirty |-> write])

\* Blocks an allocation writes back to memory.
EvictedBlocks(c, b) == {SetOf(c, b)[i].block : i \in Evicted(c, b)}
DirtyVictims(c, b) == {SetOf(c, b)[i].block : i \in {j \in Evicted(c, b) : SetOf(c, b)[j].dirty}}

\* callback: the lines that waited for b, at every level.
Unlocked(c, b) ==
  [i \in Indexes |->
     IF i = IndexOf[c][b] /\ b \in mshr[c]
     THEN [k \in DOMAIN sets[c][i] |->
             [sets[c][i][k] EXCEPT !.lock = @ /\ sets[c][i][k].block # b]]
     ELSE sets[c][i]]

-----------------------------------------------------------------------------
(* Cache *)

\* The levels that allocate when c is sent b: a miss goes down as long as
\* there is a line and an MSHR entry for it.
Reached(c, b) ==
  LET allocating == {d \in Below(c) : Outcome(d, b) = "allocated"}
  IN {d \in allocating : \A e \in Below(c) \ allocating : e \in Below(d)}

\* The level that ends the descent, if any.
StopsAt(c, reached) ==
  {d \in Below(c) \ reached : d = c \/ \E e \in reached : Lower[e] = d}

Handled(c, b) == Outcome(c, b) # "stalled"

Request(type, b, c) == [type |-> type, block |-> b, left |-> Latency[c]]

\* A store goes down as a READ.
SetAfterSend(c, b, dirty) ==
  CASE Outcome(c, b) = "hit" -> MovedToBack(c, b, dirty)
    [] Outcome(c, b) = "mshr_hit" -> MarkedDirty(c, b, dirty)
    [] Outcome(c, b) = "allocated" -> NewLines(c, b, dirty)
    [] OTHER -> SetOf(c, b)

SetsAfterSend(c, b, write, touched) ==
  [d \in Caches |->
     IF d \in touched
     THEN [sets[d] EXCEPT ![IndexOf[d][b]] = SetAfterSend(d, b, write /\ d = c)]
     ELSE sets[d]]

\* Fault: nobody keeps it.
RefusedForgotten(reached, stop, b) == {}

\* A level that allocated keeps what the level below refuses.
RefusedBelow(reached, stop, b) ==
  {d \in reached : Lower[d] \in stop /\ Outcome(Lower[d], b) = "stalled"}

\* The levels that write back, and the i-th of them from below.
WritersBack(reached, b) == {d \in reached : DirtyVictims(d, b) # {}}
Deepest(writers, i) ==
  CHOOSE d \in writers : i = Cardinality({e \in writers : Len(Path[e]) <= Len(Path[d])})

WriteBack(d, b) == Request("WRITE", CHOOSE v \in DirtyVictims(d, b) : TRUE, d)

\* The last level asks memory; write-backs bypass the levels below and
\* follow the request, the deepest first.
ToMemory(b, reached) ==
  LET writers == WritersBack(reached, b)
  IN (IF LastLevel \in reached THEN <<Request("READ", b, LastLevel)>> ELSE <<>>)
     \o [i \in 1..Cardinality(writers) |-> WriteBack(Deepest(writers, i), b)]

HitsAt(stop, b) ==
  LET hits == {d \in stop : Outcome(d, b) = "hit"}
  IN IF hits = {} THEN <<>>
     ELSE <<[block |-> b, left |-> Latency[CHOOSE d \in hits : TRUE]]>>

\* History: a store is saved when its cache hands a write-back of it over.
UnsavedAfterSend(c, b, write, reached, requests) ==
  [d \in FirstLevel |->
     IF d # c THEN unsaved[d]
     ELSE (unsaved[d] \ {requests[i].block : i \in {j \in DOMAIN requests :
                           requests[j].type = "WRITE" /\ requests[j].block \in EvictedBlocks(d, b)}})
          \cup (IF write /\ Handled(d, b) THEN {b} ELSE {})]

\* Cache::send, with retries the retry lists at its call.
Send(c, b, write, retries) ==
  LET reached  == Reached(c, b)
      stop     == StopsAt(c, reached)
      requests == ToMemory(b, reached)
  IN /\ sets' = SetsAfterSend(c, b, write, reached \cup stop)
     /\ mshr' = [d \in Caches |-> IF d \in reached THEN mshr[d] \cup {b} ELSE mshr[d]]
     /\ retryList' = [d \in Caches |-> IF d \in RefusedBelow(reached, stop, b)
                                       THEN Append(retries[d], b) ELSE retries[d]]
     /\ waitList' = waitList \o requests
     /\ hitList' = hitList \o HitsAt(stop, b)
     /\ unsaved' = UnsavedAfterSend(c, b, write, reached, requests)

\* Cache::callback enters at the last level and climbs to every cache.
Callback(b) ==
  /\ sets' = [c \in Caches |-> Unlocked(c, b)]
  /\ mshr' = [c \in Caches |-> mshr[c] \ {b}]

-----------------------------------------------------------------------------
(* Cores, ticks and memory *)

Init ==
  /\ sets = [c \in Caches |-> [i \in Indexes |-> <<>>]]
  /\ mshr = [c \in Caches |-> {}]
  /\ retryList = [c \in Caches |-> <<>>]
  /\ waitList = <<>> /\ hitList = <<>>
  /\ atMemory = [type \in Types |-> [b \in Blocks |-> 0]]
  /\ loop = Idle
  /\ unsaved = [c \in FirstLevel |-> {}]

\* A core sends a load or a store to its first level.
CoreSend(c, b, type) ==
  /\ loop = Idle
  /\ Len(hitList) < MaxHits /\ Len(waitList) < MaxWait
  /\ \A d \in Caches : Len(retryList[d]) < MaxRetry
  /\ Send(c, b, type = "WRITE", retryList)
  /\ UNCHANGED <<atMemory, loop>>

\* Fault: only the first level retries.
TickedAlone(c) == <<c>>

\* Cache::tick of a first level runs the retry loop of the level above the
\* last one first and its own at the end.
Ticked(c) == Tail(Reverse(Path[c]))

CacheTick(c) ==
  /\ loop = Idle
  /\ loop' = [at |-> "retry", caches |-> Ticked(c), pos |-> 1]
  /\ UNCHANGED <<sets, mshr, retryList, waitList, hitList, atMemory, unsaved>>

\* The iterator has passed the end.
RetryEnds ==
  /\ loop.at = "retry" /\ loop.pos > Len(retryList[Head(loop.caches)])
  /\ loop' = IF Len(loop.caches) = 1 THEN Idle
             ELSE [at |-> "retry", caches |-> Tail(loop.caches), pos |-> 1]
  /\ UNCHANGED <<sets, mshr, retryList, waitList, hitList, atMemory, unsaved>>

\* it = erase(it) and then it++: the element after an accepted one is
\* skipped, and the end of the circular list is followed by its beginning.
AfterErase(pos, length) ==
  IF pos > length THEN 1 ELSE pos + 1

RetryStep ==
  /\ loop.at = "retry" /\ loop.pos <= Len(retryList[Head(loop.caches)])
  /\ LET c == Head(loop.caches)
         b == retryList[c][loop.pos]
     IN IF Handled(Lower[c], b)
        THEN /\ Send(Lower[c], b, FALSE,
                     [retryList EXCEPT ![c] = RemoveAt(@, loop.pos)])
             /\ loop' = [loop EXCEPT !.pos = AfterErase(@, Len(retryList[c]) - 1)]
        ELSE /\ loop' = [loop EXCEPT !.pos = @ + 1]
             /\ UNCHANGED <<sets, mshr, retryList, waitList, hitList, unsaved>>
  /\ UNCHANGED atMemory

\* Due times are kept as the ticks left.
Sooner(list) == [i \in DOMAIN list |-> [list[i] EXCEPT !.left = IF @ = 0 THEN 0 ELSE @ - 1]]

\* CacheSystem::tick starts: ++clk.
SystemTick ==
  /\ loop = Idle
  /\ loop' = [at |-> "wait", pos |-> 1]
  /\ waitList' = Sooner(waitList) /\ hitList' = Sooner(hitList)
  /\ UNCHANGED <<sets, mshr, retryList, atMemory, unsaved>>

\* The wait loop stops at the first entry that may not go yet.
WaitStops == loop.pos \in DOMAIN waitList => waitList[loop.pos].left > 0

WaitEnds ==
  /\ loop.at = "wait" /\ WaitStops
  /\ loop' = [at |-> "hits"]
  /\ UNCHANGED <<sets, mshr, retryList, waitList, hitList, atMemory, unsaved>>

\* send_memory refuses when the queue of that type is full.
Queued(type) == Cardinality({r \in Blocks \X (1..MemQueue) : r[2] <= atMemory[type][r[1]]})

WaitStep ==
  /\ loop.at = "wait" /\ ~WaitStops
  /\ LET r == waitList[loop.pos]
     IN IF Queued(r.type) < MemQueue
        THEN /\ waitList' = RemoveAt(waitList, loop.pos)
             /\ atMemory' = [atMemory EXCEPT ![r.type][r.block] = @ + 1]
             /\ UNCHANGED loop
        ELSE /\ loop' = [loop EXCEPT !.pos = @ + 1]
             /\ UNCHANGED <<waitList, atMemory>>
  /\ UNCHANGED <<sets, mshr, retryList, hitList, unsaved>>

\* The hit loop answers what is due, in order.
Due == {i \in DOMAIN hitList : hitList[i].left = 0}

HitStep ==
  /\ loop.at = "hits" /\ Due # {}
  /\ LET i == CHOOSE j \in Due : \A k \in Due : j <= k
     IN Callback(hitList[i].block) /\ hitList' = RemoveAt(hitList, i)
  /\ UNCHANGED <<retryList, waitList, atMemory, loop, unsaved>>

HitsEnd ==
  /\ loop.at = "hits" /\ Due = {}
  /\ loop' = Idle
  /\ UNCHANGED <<sets, mshr, retryList, waitList, hitList, atMemory, unsaved>>

\* The memory finishes a request, in any order, and answers a READ.
MemoryFinishes(type, b) ==
  /\ loop = Idle
  /\ atMemory[type][b] > 0
  /\ atMemory' = [atMemory EXCEPT ![type][b] = @ - 1]
  /\ IF type = "READ" THEN Callback(b) ELSE UNCHANGED <<sets, mshr>>
  /\ UNCHANGED <<retryList, waitList, hitList, loop, unsaved>>

LoopStep == RetryStep \/ RetryEnds \/ WaitStep \/ WaitEnds \/ HitStep \/ HitsEnd

Next ==
  \/ \E r \in CoreRequests : CoreSend(r[1], r[2], r[3])
  \/ \E c \in FirstLevel : CacheTick(c)
  \/ SystemTick
  \/ LoopStep
  \/ \E type \in Types, b \in Blocks : MemoryFinishes(type, b)

Spec == Init /\ [][Next]_vars

\* Loops end within their tick, and the simulator ticks every component again
\* and again; cores are under no obligation.
FairSpec ==
  /\ Spec
  /\ WF_vars(LoopStep)
  /\ SF_vars(SystemTick)
  /\ \A c \in FirstLevel : SF_vars(CacheTick(c))
  /\ \A type \in Types, b \in Blocks : SF_vars(MemoryFinishes(type, b))

-----------------------------------------------------------------------------

\* The loops of tick(): which one, over which retry lists, and its iterator.
Loops ==
  {Idle, [at |-> "hits"]}
    \cup [at : {"wait"}, pos : Nat \ {0}]
    \cup [at : {"retry"}, caches : Seq(Caches \ {LastLevel}) \ {<<>>}, pos : Nat \ {0}]

\* Every variable keeps its type, and sets and MSHRs their capacity.
TypeOK ==
  /\ sets \in [Caches -> [Indexes -> Seq(Line)]]
  /\ \A c \in Caches, i \in Indexes : Len(sets[c][i]) <= Assoc[c]
  /\ mshr \in [Caches -> SUBSET Blocks]
  /\ \A c \in Caches : Cardinality(mshr[c]) <= MshrNum[c]
  /\ loop \in Loops
  /\ retryList \in [Caches -> Seq(Blocks)]
  /\ waitList \in Seq([type : Types, block : Blocks, left : Nat])
  /\ hitList \in Seq([block : Blocks, left : Nat])
  /\ atMemory \in [Types -> [Blocks -> Nat]]
  /\ unsaved \in [FirstLevel -> SUBSET Blocks]

\* An MSHR entry keeps an iterator to its line: the locked lines of a cache
\* are exactly those of its entries, a locked line is never evicted or moved,
\* and no block has two lines ("Due to MSHR, the program can't reach here",
\* SimpleLLC.cpp:170).
MshrPinsLines ==
  \A c \in Caches :
    /\ \A b \in mshr[c] : \E i \in Places(c, b) : SetOf(c, b)[i].lock
    /\ \A b \in Blocks : Cardinality(Places(c, b)) <= 1
    /\ \A b \in Blocks : \A i \in Places(c, b) : SetOf(c, b)[i].lock => b \in mshr[c]

\* A block stored to through a first-level cache is dirty there until its
\* write-back is on the way to memory, whatever hits, merges and evictions
\* come between.
StoresKept ==
  \A c \in FirstLevel : \A b \in unsaved[c] : \E i \in Places(c, b) : SetOf(c, b)[i].dirty

\* Somebody is going to answer every MSHR entry: a request to memory, a hit
\* further down, or a retry below it.
Awaited(c, b) ==
  \/ \E i \in DOMAIN waitList : waitList[i].type = "READ" /\ waitList[i].block = b
  \/ atMemory["READ"][b] > 0
  \/ \E i \in DOMAIN hitList : hitList[i].block = b
  \/ \E d \in Below(c) : \E i \in DOMAIN retryList[d] : retryList[d][i] = b

MissesAwaited == \A c \in Caches : \A b \in mshr[c] : Awaited(c, b)

\* Once the cores stop, every miss is answered and nothing is left to send,
\* although refused misses wait for each other's MSHR entries and lines and
\* the retry loop skips elements (Cache.cpp:189).
CoresStop == <>[][~\E r \in CoreRequests : CoreSend(r[1], r[2], r[3])]_vars

Drained ==
  /\ \A c \in Caches : mshr[c] = {} /\ retryList[c] = <<>>
  /\ waitList = <<>> /\ hitList = <<>>

Drains == CoresStop => <>[]Drained
==============================================================================
