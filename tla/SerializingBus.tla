--------------------------- MODULE SerializingBus ---------------------------
(***************************************************************************)
(* The serializing bus (src/cc/src/serializing_bus.{hh,cc}): a FIFO        *)
(* arbiter that grants the bus to one cache at a time, the queue of the    *)
(* snoop-and-forward event, the wires the snooping caches drive, and the   *)
(* memory-side port with its one-packet retry buffer.  The memory behind   *)
(* the port is external code and is modelled from how the port is used.    *)
(*                                                                         *)
(* The operators named after functions of the bus are the parts of steps   *)
(* that the caches conjoin: the bus calls the caches synchronously, so one *)
(* event of the simulator is one action of the composed specification.     *)
(***************************************************************************)
EXTENDS Integers, Sequences, FiniteSets

CONSTANTS
  Caches,      \* cache ids; cacheMap is a std::map, snoops go in id order
  Blocks,      \* block addresses
  Cacheable,   \* blocks in [0x8000, 0xa000)
  Words,       \* the parts of a block that one access can touch
  Values,      \* what a word can hold
  Zero,        \* the value memset(0) leaves
  CpuPackets,  \* the packets the programs issue
  NoPacket,    \* nullptr
  Freed        \* a pointer to a packet its owner has deleted

NoCache == -1

Packet == [cmd   : {"Read", "Write"},
           blk   : Blocks,
           words : SUBSET Words,
           data  : [Words -> Values]]

\* A packet on its way to memory, and whose transaction it belongs to.
MemMsg == [pkt : Packet, from : Caches]

ASSUME BusAssumption ==
  /\ Caches \subseteq Nat
  /\ Cacheable \subseteq Blocks
  /\ Zero \in Values
  /\ CpuPackets \subseteq Packet
  /\ NoPacket \notin Packet \cup MemMsg
  /\ Freed \notin Packet \cup {NoPacket}

VARIABLES
  currentGranted,   \* the cache that owns the bus, or NoCache
  busRequestQueue,  \* caches waiting for the bus, oldest first
  grantEvent,       \* grantEvent.scheduled()
  memReqQueue,      \* (packet, sendToMemory, originator); its event is
                    \* scheduled exactly while the queue is not empty
  currBusOp,        \* the operation of the current transaction
  sharedWire,       \* raised by a snooping cache that holds the block
  blockedPacket,    \* memPort.blockedPacket: refused, to be sent again
  inMemory,         \* packets memory has accepted and not yet returned
  memory            \* contents of memory, by block

arbiterVars == <<currentGranted, busRequestQueue, grantEvent>>
memPortVars == <<blockedPacket, inMemory>>
busVars     == <<arbiterVars, memReqQueue, currBusOp, sharedWire, memPortVars>>

BusOps == {"BusRdX", "BusRd", "BusUpd", "BusRdUpd"}

\* The operations are numbers whose bits are these two.
hasBusRd(op)  == op \in {"BusRd", "BusRdUpd"}
hasBusUpd(op) == op \in {"BusUpd", "BusRdUpd"}

MemReq   == [pkt : Packet, toMem : BOOLEAN, from : Caches]
MemEntry == [pkt : Packet, from : Caches, answered : BOOLEAN]

BusTypeOK ==
  /\ currentGranted \in Caches \cup {NoCache}
  /\ busRequestQueue \in Seq(Caches)
  /\ grantEvent \in BOOLEAN
  /\ memReqQueue \in Seq(MemReq)
  /\ currBusOp \in BusOps
  /\ sharedWire \in BOOLEAN
  /\ blockedPacket \in MemMsg \cup {NoPacket}
  /\ inMemory \in SUBSET MemEntry
  /\ memory \in [Blocks -> [Words -> Values]]

BusInit ==
  /\ currentGranted = NoCache
  /\ busRequestQueue = <<>>
  /\ grantEvent = FALSE
  /\ memReqQueue = <<>>
  /\ currBusOp = "BusRd"
  /\ sharedWire = FALSE
  /\ blockedPacket = NoPacket
  /\ inMemory = {}
  /\ memory \in [Blocks -> [Words -> Values]]

-----------------------------------------------------------------------------
(* Packets.                                                                *)

\* pkt->writeDataToBlock: the bytes the packet carries replace the block's.
WriteDataToBlock(p, block) ==
  [w \in Words |-> IF w \in p.words THEN p.data[w] ELSE block[w]]

\* pkt->setDataFromBlock: the packet receives the bytes it asked for.
SetDataFromBlock(p, block) ==
  [p EXCEPT !.data = [w \in Words |-> IF w \in p.words THEN block[w]
                                                       ELSE p.data[w]]]

EmptyBlock == [w \in Words |-> Zero]

FullBlock(p) == p.words = Words

\* The block-aligned read that replaces a cacheable packet towards memory.
generateAlignAccess(p) ==
  [cmd |-> "Read", blk |-> p.blk, words |-> Words, data |-> EmptyBlock]

isCacheablePacket(p) == p.blk \in Cacheable

-----------------------------------------------------------------------------
(* Arbitration.                                                            *)

\* Fault: the newest request goes first.
RequestAtFront(c) ==
  /\ busRequestQueue' = <<c>> \o busRequestQueue
  /\ grantEvent' = (grantEvent \/ currentGranted = NoCache)
  /\ UNCHANGED currentGranted

\* Fault: the grant event is left to the next release.
RequestWithoutGrant(c) ==
  /\ busRequestQueue' = Append(busRequestQueue, c)
  /\ UNCHANGED <<grantEvent, currentGranted>>

Request(c) ==
  /\ busRequestQueue' = Append(busRequestQueue, c)
  /\ grantEvent' = (grantEvent \/ currentGranted = NoCache)
  /\ UNCHANGED currentGranted

\* Fault: the grant event is left to the next request.
ReleaseWithoutGrant(c) ==
  /\ currentGranted' = IF c = currentGranted THEN NoCache ELSE currentGranted
  /\ UNCHANGED <<grantEvent, busRequestQueue>>

Release(c) ==
  /\ IF c = currentGranted
       THEN currentGranted' = NoCache /\ grantEvent' = TRUE
       ELSE UNCHANGED <<currentGranted, grantEvent>>
  /\ UNCHANGED busRequestQueue

\* processGrantEvent with c at the head of the queue.
GrantNext(c) ==
  /\ grantEvent
  /\ currentGranted = NoCache
  /\ busRequestQueue # <<>>
  /\ c = Head(busRequestQueue)
  /\ grantEvent' = FALSE
  /\ currentGranted' = c
  /\ busRequestQueue' = Tail(busRequestQueue)

\* processGrantEvent when nobody waits.
GrantNobody ==
  /\ grantEvent
  /\ currentGranted = NoCache
  /\ busRequestQueue = <<>>
  /\ grantEvent' = FALSE
  /\ UNCHANGED <<currentGranted, busRequestQueue>>

-----------------------------------------------------------------------------
(* The transaction queue and the memory-side port.                         *)

\* Fault: the originator is recorded before the bus is granted.
SendMemReqUngranted(p, toMem, op, c) ==
  /\ currBusOp' = op
  /\ memReqQueue' = Append(memReqQueue,
                           [pkt |-> p, toMem |-> toMem, from |-> currentGranted])

sendMemReq(p, toMem, op, c) ==
  /\ currBusOp' = op
  /\ memReqQueue' = Append(memReqQueue, [pkt |-> p, toMem |-> toMem, from |-> c])

\* processMemReqEvent takes the oldest entry; with nobody granted the event
\* only puts itself off.
NextMemReq(m) ==
  /\ memReqQueue # <<>>
  /\ currentGranted # NoCache
  /\ m = Head(memReqQueue)
  /\ memReqQueue' = Tail(memReqQueue)

Accept(m) == inMemory \cup {[pkt |-> m.pkt, from |-> m.from, answered |-> FALSE]}

\* memPort.sendPacket: memory takes the packet or refuses it.
sendPacket(m) ==
  \/ inMemory' = Accept(m) /\ UNCHANGED blockedPacket
  \/ blockedPacket' = m /\ UNCHANGED inMemory

\* Fault: the port still holds the packet it sent again.
RetryKeepsPacket ==
  /\ blockedPacket # NoPacket
  /\ inMemory' = Accept(blockedPacket)
  /\ UNCHANGED <<blockedPacket, arbiterVars, memReqQueue, currBusOp, sharedWire, memory>>

\* memPort.recvReqRetry.  A second refusal puts the packet back and changes
\* nothing, so only the retry that memory accepts is a step.
RecvReqRetry ==
  /\ blockedPacket # NoPacket
  /\ inMemory' = Accept(blockedPacket)
  /\ blockedPacket' = NoPacket
  /\ UNCHANGED <<arbiterVars, memReqQueue, currBusOp, sharedWire, memory>>

\* Memory performs an accepted packet and has the response ready.
MemAccess(m) ==
  /\ m \in inMemory /\ ~m.answered
  /\ inMemory' = (inMemory \ {m}) \cup
       {[m EXCEPT !.answered = TRUE,
                  !.pkt = IF @.cmd = "Read"
                            THEN SetDataFromBlock(@, memory[@.blk]) ELSE @]}
  /\ memory' = IF m.pkt.cmd = "Read" THEN memory
               ELSE [memory EXCEPT ![m.pkt.blk] = WriteDataToBlock(m.pkt, @)]
  /\ UNCHANGED <<arbiterVars, memReqQueue, currBusOp, sharedWire, blockedPacket>>

\* memPort.recvTimingResp: the response m goes to the cache that owns the bus.
TakeResponse(m, c) ==
  /\ m \in inMemory /\ m.answered
  /\ currentGranted # NoCache
  /\ c = currentGranted
  /\ inMemory' = inMemory \ {m}
  /\ UNCHANGED blockedPacket

-----------------------------------------------------------------------------
(* What the bus promises.                                                  *)

\* The packets of transactions that have started and not finished.
Outstanding ==
  Len(memReqQueue) + (IF blockedPacket = NoPacket THEN 0 ELSE 1)
                   + Cardinality(inMemory)

\* A transaction is in exactly one place from its grant to its release, it is
\* the granted cache's, and the grant event never finds the bus taken (the
\* assertion of processGrantEvent; the panics of sendPacket; "the bus belongs
\* to this cache for now", coherent_cache_base.cc:206-208).
OneTransaction ==
  /\ Outstanding = IF currentGranted = NoCache THEN 0 ELSE 1
  /\ grantEvent => currentGranted = NoCache
  /\ memReqQueue # <<>> => Head(memReqQueue).from = currentGranted
  /\ blockedPacket # NoPacket => blockedPacket.from = currentGranted
  /\ \A m \in inMemory : m.from = currentGranted

\* Nobody is left waiting for a free bus without a grant on its way.
NoLostGrant ==
  busRequestQueue # <<>> /\ currentGranted = NoCache => grantEvent

=============================================================================
