# TLA+ models of the coherent caches

This directory holds TLA+ modules, TLC configurations and TLAPS proofs for the
cache-coherence code of this repository (the serializing bus and the caches
under `src/cc/src`), for the cache hierarchy and the memory controller under
`src`, and for a program that runs on them.

## 1. The system

### Inventory

| part | source | state | operations | what must be right |
|---|---|---|---|---|
| bus arbiter | `serializing_bus.cc` 164-225 | `currentGranted`, `busRequestQueue`, `grantEvent` | `request`, `release`, `processGrantEvent` | one owner; every waiter gets a grant; first come first served |
| transaction queue | `serializing_bus.cc` 43-102, 181-193 | `memReqQueue`, `currBusOp`, `sharedWire`, `remoteAccessWire` | `sendMemReq`, `processMemReqEvent` (snoop all, then memory or local answer) | one transaction at a time; snoops before the fetch |
| memory port | `serializing_bus.cc` 125-162 | `blockedPacket` | `sendPacket`, `recvReqRetry`, `recvTimingResp` | a refused packet is sent once; the response reaches its owner |
| cache base | `coherent_cache_base.cc` | `blocked`, `requestPacket`, `cpuRespQueue` | `handleRequest`, `handleBusGrant`, `handleResponse`, `handleSnoopedReq`, `processCpuResp` | every request answered once; no dangling packet used; uncacheable packets pass unchanged |
| CPU port | `coherent_cache_base.cc` 128-166 | `needRetry`, `blockedPacket` | `recvTimingReq`, `sendPacket`, `trySendRetry`, `recvRespRetry` | no lost retry |
| sets | `mesi_cache.cc` 64-178 (same in all caches) | frames, `tagMap`, `clkPtr` | `isHit`, `allocate`, `evict`, `writeback` | map and frames agree; victims are written back where they came from |
| MESI | `mesi_cache.cc` 181-596 | a state per line | CPU request, grant, snoop, response | one writer; clean copies equal memory; the whole is one memory |
| Dragon | `dragon_cache.cc` | five states, update bus operations | same handlers | sharers see every update |
| hybrid | `hybrid_cache.cc` | Dragon plus a counter per line | same handlers | invalidate after too many remote updates, without losing data |
| adaptive | `adapt_cache.cc` | hybrid plus a threshold per block on the bus | same handlers, `endWriteRun` | thresholds belong to the block that ran |
| last-level cache | `SimpleLLC.cpp` | lines in LRU order, MSHRs, locks | `send`, `callback`, `evictline`, `allocate_line` | an MSHR entry keeps its line; no dirty line lost |
| cache hierarchy | `Cache.cpp` | wait, hit, retry lists | `send`, `tick`, `callback` | no miss forgotten or starved |
| memory controller | `Controller.h`, `Scheduler.h` | read, write, active and refresh queues, write mode, row table | `enqueue`, `tick`, `get_head`, `get_victim`, `update` | order of accesses to an address; row table follows the channel; no starvation |
| test programs | `cc/binaries/*.c` | shared words | locks, producers, consumers | mutual exclusion, delivery |

Not core: `mi_cache`, `msi_cache` and `mesi_cache copy` (not built), the
`WaypartLLC` and `CustomLLC` stubs, the simulator scripts, statistics.

### How the parts interact

The simulator runs one event at a time. A CPU calls its cache; the cache either
answers (a response event) or asks the bus (`request`). The arbiter's grant
event calls the cache back, which starts a transaction (`sendMemReq`). A later
event takes the transaction, calls *every other cache's* snoop handler, and
then sends a packet to memory or hands the packet straight back to the
originator. Memory answers in its own time; the answer goes to whoever owns the
bus. The cache fills, queues the response to its CPU and releases the bus.
Between any two of these events other caches may serve hits, ask for the bus,
and send responses, and memory may refuse packets. Flushes and write-backs of
victims are functional: they reach memory within the event.

The cache hierarchy (`Cache`, `SimpleLLC`, `CacheSystem`) and the controller are
a second, older system of the repository: trace-driven cores call
`Cache::send`, a miss goes down level by level and then to memory after a delay,
and the answer climbs back as `callback`. It shares no state with the bus.

### What is hard

- The state a cache looked at when its CPU asked is old when the grant comes.
- Snoop and response of one transaction are separate events.
- One shared wire serves all transactions.
- `requestPacket` is kept after the packet is gone on every path but one.
- Dirty bits, states, tag map, frames and the clock hand are separate fields
  that several handlers must move together.
- Uncacheable and cacheable packets share queue, port and pointer.
- In the update protocols the copies see a write before the writer's own line
  does, memory stays behind, and the duty to write back moves with each update.
- The choice between updating and invalidating depends on counters, thresholds
  and a wire that snoops, evictions and refills of frames all write.
- A miss that a lower level refuses has already allocated above it. The loop
  that retries it skips elements.
- The controller schedules from four queues, and only some of them are searched
  when a request arrives or a row is closed.

`PROJECT.json` lists these hazards at their lines, with the properties for each.

## 2. The modules

| module | models | extends |
|---|---|---|
| `SerializingBus` | bus, memory port, external memory; operators that cache steps conjoin | |
| `CoherentCacheBase` | base class; packets outside the cacheable range; `BaseSpec`, the specification that leaves the protocol open; `Distance`, how far a waiting cache is from its answer | `SerializingBus` |
| `ClockReplacement` | the victim choice of `evict` in closed form | |
| `CacheSets` | frames, tag map, hand; lookup, allocation, eviction | `CoherentCacheBase`, `ClockReplacement` |
| `MesiCache` | the MESI handlers and the whole system | `CacheSets` |
| `SharedWriteCache` | caches that tell other copies of a write by an update *or* an invalidation, the choice left open: what the hybrid and the adaptive cache have in common | `CacheSets` |
| `DragonCache` | the Dragon handlers, which only update | `SharedWriteCache` |
| `UpdateRuns` | what a writer knows to choose: update counters, `accessSinceUpd`, the remote access wire; what the choice is for | `SharedWriteCache` |
| `HybridCache` | the hybrid policy: invalidate when a line's counter has run out | `UpdateRuns` |
| `AdaptCache` | the adaptive policy: write runs, and a threshold per block on the bus | `UpdateRuns` |
| `AtomicMemory` | the promise: one memory, each access at one instant | |
| `ClockSweep`, `AddressMap`, `SetLookup` | the loop of `evict`, one iteration a step; tag, set, offset and back, the number of a block among the thresholds; both together | `ClockReplacement` |
| `CacheSystem` | `SimpleLLC`, `Cache`, `CacheSystem`: sets, MSHRs, retry, wait and hit lists | |
| `Controller` | `Controller`, `Scheduler`, row policy and row table, for one rank | |
| `TasLock` | the test-and-set lock test | |
| `MesiProofs`, `SharedWriteProofs`, `DragonProofs`, `HybridProofs`, `AdaptProofs`, `CacheSystemProofs`, `ControllerProofs` | theorems and lemmas, see 4 | the module they name |
| `BaseProofs` | theorems on the bus, the base class, the sweep and addresses, lemmas on sets | `CacheSets`, `SetLookup` |
| `MC_*` | the constants of a run; `MC_Accesses` has what the CPUs do | |

```
AtomicMemory   <=  SharedWriteCache  <=  DragonCache, HybridCache, AdaptCache
AtomicMemory   <=  MesiCache
BaseSpec       <=  SharedWriteCache, MesiCache           (a <= b: b implements a)
```

**State.** Variables keep the names of the fields. `grantEvent` says whether the
event is scheduled; `memReqEvent` is scheduled exactly while `memReqQueue` is
not empty, and `cpuRespEvent` while `cpuRespQueue` is not. `inMemory` and
`memory` are the memory behind the port, which is not in this repository;
`cpuPkt` is what the CPU waits for. `Freed` is the value of a pointer to a packet
that its owner deleted. `thsAtGrant` is a history variable: the thresholds at the
last grant, which only a property reads.

**Actions.** One action is one event: `WriteHit`, `BusGrant`, `SnoopAndFetch`,
`MemResp` and so on, each with everything the handler calls. The bus calls the
caches synchronously, so `SnoopAndComplete` is the snoop of all others *and* the
completion at the originator, as in `processMemReqEvent`. In `CacheSystem` each
element of a loop of `tick` is a step, and nothing else runs until the loop
ends. In `Controller` an action is a cycle.

**The update protocols.** The sources of the hybrid and the adaptive cache repeat
one protocol and differ in what they count. `SharedWriteCache` is that protocol,
with the bus operation of a write chosen freely at the grant. `HybridCache` and
`AdaptCache` conjoin the policy: each handler is the common one and what it does
to the counters. Dragon has handlers of its own, with fewer cases; CPU request and
grant do the same in all three. Its snoop and response are modelled separately
and shown to be those of the common protocol.

**Data.** A block is a value with a tag and a threshold of its own. `AddressMap`
checks, with the shifts and masks of the code, that tag and set together name one
block and give its address back, and that the number of a cacheable block is an
index of its own into the vector of thresholds. A machine word is there the set of
the positions of its 1 bits: a shift moves positions, `&` and `|` are
intersection and union. A block is a function from words to values, an access
touches a set of words, so partial writes, merges and full-block writes differ.
`FullBlock(p)` is `addr == blk_addr && size == blockSize`. Requests in
`CacheSystem` and `Controller` carry no data, as in the code.

**Left out.** Statistics, printing, `dataToWrite` (written, never read),
latencies of the coherent caches (events of one tick may come in any order, which
allows more than the simulator does), `busStatsUpdate`. The branch "Delay
Processing" of `processMemReqEvent` needs a queued transaction without an owner,
which `OneTransaction` shows impossible.

**CPUs.** Every configuration uses `TimingSimpleCPU`: one packet outstanding,
and a response is always accepted. So `handleRequest` never refuses, and
`needRetry` stays false. A CPU may send any packet of `CpuPackets` at any time.

**External.** Memory behind the bus (answers in any order, may refuse), the
cores and the memory below `CacheSystem` (how caches stack up is set by the
processor model, which is not in the repository, so `Path`, the caches from each
down to the last level, is a constant: any tree with more than one level; the
instance has a private cache
directly above the last level and one with a level in between), and the channel
below `Controller` (it knows the open rows, decodes the next command, and allows
any set of commands in a cycle). A refresh request arrives only when none waits.

## 3. The runs

| run | what it asks | instance |
|---|---|---|
| `base` | under *any* protocol: one transaction, one place; blocked flags; packet lifetimes; responses; is the bus ever stuck while somebody waits; does every step of it bring every waiting cache closer | 3 caches, a cacheable and an uncacheable block |
| `mesi` | is it one memory when every miss evicts, next to uncacheable blocks; single writer; clean copies; asserts; ownership through the bus; is every access answered | 2 caches, 1 frame, 2 blocks, an uncacheable block, 2 values; with fairness |
| `shared_write` | the same for caches that update or invalidate as they like, with writes of part of a block: one owner, copies that agree, stale memory owed by somebody, a truthful wire, asserts | 3 caches (one only loads), 1 block of 2 words, 2 values |
| `dragon` | does Dragon implement the former (and so one memory) when owners are evicted and updates leave memory behind | 2 caches, 1 frame, 2 blocks, an uncacheable block, 2 values |
| `hybrid` | does the counter of a line count one run of updates on every path; is every update of a run paid for; do tag map, frames and hand agree when frames are invalidated and reused | 2 caches, 2 ways, 3 blocks, threshold 2 |
| `adapt` | are only owners in a write run; does a transaction move a threshold once from its grant to its end; do updates that nobody reads end | 2 caches, 1 frame, 2 blocks of 2 words, thresholds from 0 to 1 |
| `set_lookup` | does the loop of `evict` end, and where the closed form says; do addresses split and join without loss; do block numbers fit the vector of thresholds | 4 ways, every flag pattern and hand; 4-byte blocks, 4 sets, 10 addresses around both ends of the cacheable range and around the ends of a block, a set and a tag, words of 17 bits (the range ends below 2^16) |
| `cache_system` | do MSHR entries keep their lines; do stores survive merges and evictions; is every miss awaited, and answered although retries compete and are skipped | 2 cores, 3 levels on one side and 2 on the other, 3 blocks in one set; one level with more MSHR entries than lines, one with fewer |
| `controller` | do row table and channel agree; are activations used; are accesses to an address in order; is the serving count right; is every request served | 3 addresses in 2 banks and 2 rows, queues of 2, two schedulers, two row policies |
| `hybrid_remote` | violation: "if there's remote access during two updates, reset counterR" holds with one other copy, not with two | 3 caches, 1 block, threshold 2 |
| `adapt_evict` | violation: "record write run and update Ths" at an eviction moves the threshold of the block that comes in, by the run the victim's frame kept, be it 0 | as `adapt` |
| `tas_lock` | violation: "Atomic test-and-set" is not | 2 cores |

**Why these bounds.** The protocol treats all caches but the originator alike,
so two caches give each pair of roles and a third gives two snooped copies, a
third waiter, and a sharer that is neither originator nor old owner. The third
CPU of `shared_write` only loads, which is all a sharer needs; any two of three
may be the writers, by symmetry. Blocks meet only in a set, through eviction: one
frame and two blocks make every miss evict, two ways and three blocks give a
choice of victim and a frame whose line was invalidated. Two values tell old data
from new; where the policy is the question (`hybrid`, `adapt`) data is fixed.
A threshold of 2 is the least for which an update can follow an update by the
same writer before an invalidation. In `hybrid` only CPU 0 loads every block. In
`adapt` a request that needs the bus is issued only while thresholds are within
`WithinBounds` (the code moves them without a bound), and runs from
`InvalidationRatio` up are not told apart, since they are only compared with it
and with 0. `OneBusy`, `OneWritten` and `WordStores` (`MC_Accesses`) say which
stores the CPUs of a run make. `cache_system` bounds the lists by `MaxHits`,
`MaxWait` and `MaxRetry` at the cores and memory by `MemQueue`; a retry list of
two is the least in which the loop skips an element. A locked set and a full MSHR
each refuse a request that the other would take. `controller` bounds the
reads on their way (`MaxPending`). State spaces are complete within these bounds.

`mesi`, `dragon` and `hybrid` have one word per block; that a write of part of a
block fetches the rest is run by `shared_write` and `adapt`.

What no run has, the theorems of section 4 cover: they hold for every instance.

**Fairness.** `mesi`: a scheduled event runs (weak fairness of the grant,
snoop-and-forward, response and CPU response events), and the memory behind the
port answers what it accepted and in the end takes a packet it refused. These are
what the simulator's event queue and memory ports guarantee; CPUs are not assumed
to do anything. `cache_system`: loops go on, every component is ticked again and
again, memory finishes what it took; `Drains` is about executions in which the
cores stop. `controller`: cycles come in which the timing allows every command,
with and without a refresh waiting; `QueuesDrain` is about executions in which
requests stop to arrive. `set_lookup`: the loop runs within one event.

**Refinement.** `ImplementsAtomicMemory` is the abstract specification
`AtomicMemory` under a mapping. For MESI its contents are the Modified copy of a
block if there is one and memory otherwise; an access has taken effect once its
response is queued (an uncacheable one, once memory answered). In the update
protocols the dirty copy counts whatever its state, and a write miss takes effect
earlier, when the other copies are updated or invalidated: from then until its
own block arrives, the contents are memory's with the write merged in. That is:
no write is lost, no read returns an old value, whatever the interleaving.
`ImplementsSharedWrite` says the same of Dragon towards `SharedWriteCache`.

Every property of a run that passes has a mutant in `PROJECT.json`: a fault defined next to the
operator it replaces, under which TLC finds the property violated.

## 4. The proofs

TLAPS proves for every value of the constants what the runs check on small ones.
A few theorems state more than a run repeats: `NoLostGrant` (behind `NobodyStuck`),
`NeverOvertaken` (behind `WaitShrinks`), `SharedTypeOK`, `SweepShortens`, the frames
of MESI, `UpdatesRunDown` of the adaptive cache, and that the caches other than
MESI and `SharedWriteCache` are one atomic memory.

`BaseProofs` proves the promises of the bus and the base class for `BaseSpec`,
where the protocol may answer, wait, fetch, write back and drive the wire as it
likes. `BaseInv` is inductive: a transaction is in exactly one of three places
(`Queued`, `Refused`, `AtMemory`), the bus is taken exactly then, and queue,
flags and packets agree. The shape of the transaction is needed because the
properties alone do not say where a response's packet came from. There is one
lemma per action, on three lemmas on how request, grant and release move the
queue. `NeverOvertaken` follows from the fact that only requests and grants move
the queue.

Liveness is out of the prover's reach, but what makes it true is not. `NobodyStuck`
says that while a CPU waits, its response is on its way or the bus has a step it
can take. `WaitShrinks` says that each step of the bus lowers `Distance`, which is
a natural number, for every blocked cache at once, and that no other step
changes it, not even a request, which joins behind. So a cache waits for at most
five steps of the bus for each cache in front of it and for itself: with the
fairness of section 3 its answer comes. `MesiProgress` and `SharedProgress` carry
both over to the protocols.

It also proves that the loop of `evict` computes the closed form the protocols
use (`MatchesClosedForm`), for any number of ways. `SweepInv` says where the loop
is: after `n` iterations the hand is `n` frames on and just the flags it passed
are cleared, with `n` at most what the closed form says. An iteration that clears
a flag cannot be the last, since after a full round every flag is clear, and the
hand cannot stop earlier, since it meets every frame once in a round.
`SweepShortens`, that each frame passed costs the set one of its flags, is why the
loop ends.

Addresses are proved for any word width, block size and number of sets.
`SplitIsExact` reasons about positions of bits: offset, set and tag are the
positions below, between and above the two shifts, no position is lost and none
is used twice. `NumbersFit` reasons about the numbers, with the range of
`isCacheablePacket` and the bounds of `adapt_cache.cc`, which are separate
constants in the code, a whole number of blocks.

The rest of `BaseProofs` are the lemmas about one cache's frames, for any set of
protocol states. `FillOrder` ties the hand to the frames in use: until a set is
full, the valid frames are those below the hand, so the frame under the hand is
free. `MapAgrees` makes `tagMap` and the tags of the valid frames inverse to each
other. A hit or a snoop replaces a line in place (`LineReplaced`); a miss sweeps,
evicts and places one (`LineFilled`, on the facts about the closed form of the
sweep). Both keep the two conjuncts and say which copies exist afterwards.

`MesiProofs` proves the MESI system. Its invariant `MesiInv` has four parts.

- `BaseInv`, carried over because every step is a step of `BaseSpec`.
- `FramesInv`: the conjuncts above, in every cache.
- `CopiesInv`: single writer, clean copies current, dirty exactly if Modified.
- `FlightInv`: what is true between the events of one access. `WaitersNeedBus`:
  what a cache decided when its CPU asked (miss, or write to a Shared line) is
  still a reason to go on the bus at the grant, except that an upgrade may have
  become a miss. `WireClearBeforeSnoop`: no answer of an earlier transaction is
  left on the shared wire. `SnoopStillHolds`: after the snoops, no other cache
  owns the block, and a write has no other copy. `FetchStaysCurrent`: what memory
  read is what it still holds when the answer arrives, though hits and evictions
  go on.

None of the safety properties is inductive alone: a fill in Exclusive state
keeps a single writer only because the wire told the truth, and it told the
truth only because the snoops still hold. There is one lemma per action. Each
says what the action does to the copies in one of five ways (`UntouchedCache`,
`ReplacedCopy`, `PlacedCopy`, `SnoopedCopy`, `TransactionEnds`), and the parts of
the invariant follow from that.

`MesiImplementsAtomicMemory` follows from that invariant. `ContentsRight` replaces
the choice of a dirty copy in the refinement mapping by what any copy holds, or
memory where there is none. A hit takes effect at its request. A miss or an upgrade
takes effect when its transaction ends, in `SnoopAndComplete` or `MemResp`; there
the originator's line holds the block as it was before the access, from its own
copy or from memory, with the access applied. `SnoopAndFetch` is a stuttering step:
a Modified copy moves its data to memory and becomes clean, and the contents stay.
So is the eviction inside a response (`VictimWritten`). What is left is that nobody
else's data moves (`OwnCopies`), and `SnoopStillHolds` and `FetchStaysCurrent` are
what makes that true at the response, several events after the snoop.

`SharedWriteProofs` proves the same of caches that update or invalidate, with an
invariant `SharedInv` of the same four parts. `CopiesInv` is one owner, copies
that agree, and a dirty copy whenever memory is stale. `FlightInv` is
`WaitersNeedBus` as before; `GrantStillRight`: the operation chosen at the grant
fits what the originator holds until its snoop; `WireTellsTruth`; and two parts
for the time in which the copies are ahead of the writer. `CopiesFitFetch`: while a
write miss waits for its block, the other copies are memory's block with the write
merged in, and none of them owes it to memory. `FetchStaysCurrent`: the block
memory read is what memory still holds. Without them a fill could bring back a
block that differs from the copies it updated.

It proves `ImplementsAtomicMemory` from `SharedInv`, with a `ContentsRight` of its
own. A hit takes effect at its request, a write that needs the bus at its snoop, a read
miss at its response, and all other steps are stuttering steps. `OneClient` says
that a step changes what one client sees; most of the work is that the
others, and the contents of other blocks, stay.

`DragonProofs`, `HybridProofs` and `AdaptProofs` prove that each step of those
caches is a step of `SharedWriteCache`, so its theorems carry over.

- Dragon: no copy is invalid and no invalidation is on the bus (`FramesValid`,
  `NeverInvalidates`), and then its snoop and response, which lack the cases, are
  the common ones. That needs `SharedInv` too: `GrantStillRight` says that only a
  write completes without memory on a hit, and that a block that comes from memory
  finds no copy.
- Hybrid: counters are between 0 and the threshold and below it only in SharedMod
  lines. Inductive with `UpdatesLeft`: a write that was granted an update still
  has one when it completes.
- Adaptive: only an owner is in a run, since a snoop ends every run it meets; so
  of all copies one at most moves the threshold. `NearGrant` carries that from the
  snoop to the response: until the snoop the thresholds are those of the grant, and
  until the response at most one away. A response that fetched finds no copy of its
  own, so it ends no run but its victim's; one without a fetch comes with the snoop,
  which ended no run if the writer's own goes on (`SingleOwner`). With `UpdatePaid`,
  a queued update finds its own copy with a counter above 0.
- Both, `UpdatesRunDown`: a write in a run that updates others uses one update
  up, unless a copy was read since the last one, and until the next the
  counter changes by a transaction of another cache to the block only. That the
  wire stays low when no copy was read needs that the cache snooped last is a
  hit (`WireReportsRead`); that nothing else moves the counter needs that a line
  in a run stays in its frame (`RunInPlace`) and that other blocks fill other
  frames. `UpdatesLeft` and `UpdatePaid` are why there is one to use up.

`CacheSystemProofs` proves the hierarchy, for any tree of caches. `SystemInv` is
the three properties of the run with the facts they need: `TypeOK` (with finite
MSHRs), `SetsUnique` (no set has two lines of a block), `LocksMatch` (a block has a
locked line exactly while it has an MSHR entry), `StoresKept` and `MissesAwaited`.
They need each other. A miss allocates a line only where the MSHR has no entry;
that this makes no second line follows from `LocksMatch`, since a line that is not
a hit is a locked one. The victim is unlocked, so it is nobody's MSHR entry. A
store merged into an entry marks the locked line, which is there by `LocksMatch`.
A send that stops below a level that allocated stops at a hit, at an entry that is
awaited itself, or at a refusal, which the level above keeps to retry; an accepted
retry leaves the list and is awaited through what its send left behind. An answer
removes the entries of its block at every cache, so the answers of other blocks are
all that has to stay. The lemmas go from the path (`BelowBelow`,
`LevelsDiffer`: the caches below one are linearly ordered) over a set
(`AllocatedSet`, `HitSet`) and a request all the way down (`SendLines` and the
`SendKeeps` lemmas) to one lemma per action. `StoresKept` also needs that each
level that evicts a dirty line hands its write-back over (`DeepestIs`,
`ToMemoryIs`).

`ControllerProofs` proves the controller under any timing of the channel (but that
an activated bank can be accessed before it can be precharged, see `ReadySets`), any
scheduler and any row policy. `ControllerInv` is `TypeOK`, `RowTableAgrees`,
`ActivatesUsed` and `ServingCounted` with two more parts. `QueuesSorted`: each queue
holds its own type. `OlderBounded` counts, for a queued request, the earlier writes
to its address that are still to be performed: for a read none but an activated
one, since a queued write would have answered it; for a write those ahead of it in
the write queue and an activated one. `ScheduledInOrder` follows: two requests of
one type to one address need the same command, so whatever the scheduler compares,
it picks the older (`OlderIsHead`), and while a request is activated nothing else
is picked. `ServingCounted` rests on lemmas that count the
elements of a queue as one is changed, removed or appended.

Assumptions: `BusAssumption` (cache ids are naturals, so none is -1; packets are
not null pointers), `NumLinesAssumption`, `SetsAssumption`, `GeometryAssumption` (an
index and offset together fit the `int` the masks are made of, and blocks are at most
8 kB), `RunsAssumption` (`cacheMap` holds finitely many caches, so one of them is
snooped last), those on thresholds and ratio (`HybridAssumption`,
`AdaptAssumption`), `HierarchyAssumption`
(the caches are a tree with one last level, no core talks to it directly, and
every cache has ways and MSHR entries) and `ControllerAssumption` (queues
have room; the marks lie within the queue). The code checks
none of them; the configurations satisfy them.

Only model-checked: liveness (`RequestAnswered`, `SweepEnds`, `Drains`,
`QueuesDrain`, `UpdatesNeedReaders`), which is out of the prover's reach. What
makes the coherent caches live is proved as safety: `NobodyStuck` and `WaitShrinks`
behind `RequestAnswered`, `SweepShortens` behind `SweepEnds`, `UpdatesRunDown`
behind `UpdatesNeedReaders`.

## 5. What is not modelled, and the plan

Done: bus, base class, sets, all four built protocols, the hierarchy, the
controller; proofs of every invariant, action property and refinement that the runs
check. The plan:

1. Programs: ticket locks and producer-consumer tests on `AtomicMemory`.
2. The CPU port with refused requests and responses (`needRetry`), which no CPU
   of the configurations reaches.

Not planned: functional accesses (loader and debugger), the stubs
(`WaypartLLC`, `CustomLLC`), the protocols that are not built (`mi_cache`,
`msi_cache`, `mesi_cache copy`), the simulator scripts, statistics, and the
controllers for ALDRAM and TLDRAM.

Observed while modelling, without a run of their own because they change no
property stated here: auto-precharge counts the row hits of one queue of the mode
only (`Controller.h:547`); for the victim of a speculative precharge, whose
address ends above the row, `RowTable::update` and `get_hits` read a row behind
its end and do not use it (`Scheduler.h:338`, `382`); the lower watermark, rounded down to 0 by
a small queue, would keep reads waiting while writes are queued
(`Controller.h:361-364`); the wait list stops at the first entry that is not due,
whatever the latency of those behind it (`Cache.cpp:201`), and a write-back the
memory refuses is passed by later reads; a hit at one level unlocks the line and
MSHR entry of the block at every level, also where the data is still on its way.
