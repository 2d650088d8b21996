--------------------------- MODULE SharedWriteCache ---------------------------
(***************************************************************************)
(* Write-back caches on the serializing bus that tell the other copies of  *)
(* a block of a write: by an update, which they take over, or by an        *)
(* invalidation.  Which of the two is left open at every grant, so this is *)
(* the part src/cc/src/hybrid_cache.cc and src/cc/src/adapt_cache.cc have  *)
(* in common, and what src/cc/src/dragon_cache.cc implements by always     *)
(* updating.  The policies that choose are in HybridCache and AdaptCache.  *)
(***************************************************************************)
EXTENDS CacheSets

CoherenceStates == {"Invalid", "Exclusive", "Modified", "SharedClean", "SharedMod"}

sharedVars == <<busVars, memory, cpuSideVars, setVars>>

SharedTypeOK == BaseTypeOK /\ SetsTypeOK(CoherenceStates)

SharedInit == BaseInit /\ SetsInit

-----------------------------------------------------------------------------
(* handleCoherentCpuReq.                                                   *)

ReadHit(c, p) ==
  /\ isCacheablePacket(p) /\ p.cmd = "Read" /\ isHit(c, p.blk)
  /\ AnswerAtOnce(c, p, SetDataFromBlock(p, LineOf(c, p.blk).data))
  /\ lines' = [lines EXCEPT ![c][SetOf[p.blk]][tagMap[c][p.blk]].clkFlag = 1]
  /\ UNCHANGED <<memory, tagMap, clkPtr>>

\* A write hit in Modified or Exclusive is silent.
WritesSilently(l) == l.cohState \in {"Exclusive", "Modified"}

\* Only the step out of Exclusive sets the dirty bit.
SilentWrite(l, p) ==
  [l EXCEPT !.cohState = "Modified", !.dirty = @ \/ l.cohState = "Exclusive",
            !.clkFlag = 1, !.data = WriteDataToBlock(p, @)]

WriteHit(c, p) ==
  /\ isCacheablePacket(p) /\ p.cmd = "Write" /\ isHit(c, p.blk)
  /\ WritesSilently(LineOf(c, p.blk))
  /\ AnswerAtOnce(c, p, p)
  /\ lines' = [lines EXCEPT ![c] = WithLine(c, SetOf[p.blk], tagMap[c][p.blk],
                                            SilentWrite(LineOf(c, p.blk), p))]
  /\ UNCHANGED <<memory, tagMap, clkPtr>>

NeedsBus(c, p) ==
  isHit(c, p.blk) => p.cmd = "Write" /\ ~WritesSilently(LineOf(c, p.blk))

\* A miss, and a write hit in a shared state, waits for the bus.
BusRequest(c, p) ==
  /\ isCacheablePacket(p) /\ NeedsBus(c, p)
  /\ WaitForBus(c, p)
  /\ UNCHANGED <<memory, setVars>>

-----------------------------------------------------------------------------
(* handleCoherentBusGrant.                                                 *)

\* What a write may send: an update or an invalidation, which on a miss also
\* reads the block from the cache that has it.
Ops(c, p) ==
  IF isHit(c, p.blk) THEN {"BusUpd", "BusRdX"}
  ELSE IF p.cmd = "Read" THEN {"BusRd"} ELSE {"BusRdUpd", "BusRdX"}

\* Fault: a partial write that hits fetches the block all the same.
FetchOnUpdate(c, p) == p.cmd = "Read" \/ ~FullBlock(p)

NeedsMemory(c, p) == ~isHit(c, p.blk) /\ (p.cmd = "Read" \/ ~FullBlock(p))

BusGrant(c, op) ==
  /\ GrantNext(c)
  /\ isCacheablePacket(requestPacket[c])
  /\ op \in Ops(c, requestPacket[c])
  /\ sharedWire' = FALSE
  /\ LET p == requestPacket[c] IN sendMemReq(p, NeedsMemory(c, p), op, c)
  /\ UNCHANGED <<cpuSideVars, memPortVars, memory, setVars>>

-----------------------------------------------------------------------------
(* handleCoherentSnoopedReq, at every cache but the originator.            *)

SnoopHits(m) == {d \in Caches \ {m.from} : isHit(d, m.pkt.blk)}

Reads   == hasBusRd(currBusOp)
Updates == hasBusUpd(currBusOp)
Invalidates == currBusOp = "BusRdX"

\* Fault: an invalidated SharedMod copy is not flushed.
FlushesOnRead(l) ==
  l.cohState = "Modified" \/ (l.cohState = "SharedMod" /\ l.dirty /\ Reads)

\* Only an update alone takes the data of a dirty copy over.
Flushes(l) ==
  \/ l.cohState = "Modified"
  \/ l.cohState = "SharedMod" /\ l.dirty /\ (Reads \/ Invalidates)

\* Fault: an invalidation updates the state of exclusive copies only.
SnoopedStaysShared(l) ==
  IF Invalidates /\ l.cohState \in {"Exclusive", "Modified"} THEN "Invalid"
  ELSE IF Updates \/ l.cohState \in {"Exclusive", "SharedClean"} THEN "SharedClean"
  ELSE "SharedMod"

SnoopedState(l) ==
  IF Invalidates THEN "Invalid"
  ELSE IF Updates \/ l.cohState \in {"Exclusive", "SharedClean"} THEN "SharedClean"
  ELSE "SharedMod"

\* Fault: an updated SharedMod copy stays dirty.
SnoopedStillDirty(l) == l.dirty /\ ~Flushes(l)

SnoopedDirty(l) ==
  l.dirty /\ ~Flushes(l) /\ ~(Updates /\ l.cohState = "SharedMod")

\* Fault: a shared copy keeps the old data.
SnoopedNotUpdated(l, p) == l.data

SnoopedData(l, p) == IF Updates THEN WriteDataToBlock(p, l.data) ELSE l.data

SnoopedLine(l, p) ==
  [l EXCEPT !.cohState = SnoopedState(l), !.dirty = SnoopedDirty(l),
            !.data = SnoopedData(l, p)]

LinesAfterSnoop(m) ==
  [d \in Caches |->
     IF d \in SnoopHits(m)
       THEN WithLine(d, SetOf[m.pkt.blk], tagMap[d][m.pkt.blk],
                     SnoopedLine(LineOf(d, m.pkt.blk), m.pkt))
       ELSE lines[d]]

\* The last flush in id order prevails.
MemoryAfterSnoop(m) ==
  LET F == {d \in SnoopHits(m) : Flushes(LineOf(d, m.pkt.blk))}
      last == CHOOSE d \in F : \A e \in F : e <= d
  IN IF F = {} THEN memory
     ELSE [memory EXCEPT ![m.pkt.blk] = LineOf(last, m.pkt.blk).data]

\* Fault: a copy that is invalidated raises the shared wire.
WireAlwaysRaised(m) == sharedWire \/ SnoopHits(m) # {}

\* Fault: no copy ever raises the shared wire.
WireNeverRaised(m) == sharedWire

\* Copies that are invalidated keep the wire low.
WireAfterSnoop(m) == IF SnoopHits(m) = {} THEN sharedWire ELSE ~Invalidates

-----------------------------------------------------------------------------
(* handleCoherentMemResp.                                                  *)

\* The line after a write: only the bytes of the packet change.
WrittenLine(l, p, wire) ==
  [l EXCEPT !.cohState = IF wire THEN "SharedMod" ELSE "Modified",
            !.dirty = TRUE, !.clkFlag = 1, !.data = WriteDataToBlock(p, @)]

\* What the requested block finds: its own line, valid or invalidated, or the
\* zeros of a newly allocated one.
OldLine(c, b) ==
  IF Present(c, b) THEN LineOf(c, b) ELSE [EmptyFrame EXCEPT !.tag = b, !.valid = TRUE]

\* Fault: a write overwrites the fetched block instead of merging with it.
FetchedDataDropped(c, r) == OldLine(c, r.blk).data

FetchedData(c, r) ==
  IF r.cmd = "Read" THEN WriteDataToBlock(r, OldLine(c, r.blk).data)
                    ELSE OldLine(c, r.blk).data

\* Fault: the writer does not take over the dirty bit of the copies it updated.
FilledClean(c, p, r, wire) ==
  LET l == [OldLine(c, p.blk) EXCEPT !.clkFlag = 1, !.data = FetchedData(c, r)]
  IN IF p.cmd = "Read"
       THEN [l EXCEPT !.cohState = IF wire THEN "SharedClean" ELSE "Exclusive"]
       ELSE [WrittenLine(l, p, wire) EXCEPT !.dirty = ~wire]

FilledLine(c, p, r, wire) ==
  LET l == [OldLine(c, p.blk) EXCEPT !.clkFlag = 1, !.data = FetchedData(c, r)]
  IN IF p.cmd = "Read"
       THEN [l EXCEPT !.cohState = IF wire THEN "SharedClean" ELSE "Exclusive"]
       ELSE WrittenLine(l, p, wire)

\* The response to the CPU: its own packet, with the data it asked for.
ResponsePacket(c, p, r) ==
  IF p.cmd = "Read" THEN SetDataFromBlock(p, FetchedData(c, r)) ELSE p

\* Misses lower the wire, writes that hit leave it to the next grant.
WireAfterFill(c, p, wire) == isHit(c, p.blk) /\ wire

-----------------------------------------------------------------------------
(* processMemReqEvent and the memory response.                             *)

\* Snoop the others, then fetch the block from memory.
SnoopAndFetch(m) ==
  /\ NextMemReq(m)
  /\ isCacheablePacket(m.pkt) /\ m.toMem
  /\ lines' = LinesAfterSnoop(m)
  /\ memory' = MemoryAfterSnoop(m)
  /\ sharedWire' = WireAfterSnoop(m)
  /\ sendPacket([pkt |-> generateAlignAccess(m.pkt), from |-> m.from])
  /\ UNCHANGED <<cpuSideVars, arbiterVars, currBusOp, tagMap, clkPtr>>

\* Snoop the others, then complete the write without memory, in one event.
SnoopAndComplete(m) ==
  /\ NextMemReq(m)
  /\ isCacheablePacket(m.pkt) /\ ~m.toMem
  /\ LET c == m.from
         p == requestPacket[c]
         wire == WireAfterSnoop(m)
     IN /\ lines' = [LinesAfterSnoop(m) EXCEPT
                       ![c] = LinesWith(c, p.blk, FilledLine(c, p, m.pkt, wire))]
        /\ memory' = MemoryAfterPlacing(c, p.blk, MemoryAfterSnoop(m))
        /\ sharedWire' = WireAfterFill(c, p, wire)
        /\ PlaceBlock(c, p.blk)
        /\ FinishTransaction(c, m.pkt, FALSE)
  /\ UNCHANGED <<currBusOp, memPortVars>>

\* The fetched block arrives at the cache that owns the bus.
MemResp(m, c) ==
  /\ TakeResponse(m, c)
  /\ isCacheablePacket(m.pkt)
  /\ LET p == requestPacket[c]
     IN /\ lines' = [lines EXCEPT
                       ![c] = LinesWith(c, p.blk, FilledLine(c, p, m.pkt, sharedWire))]
        /\ memory' = MemoryAfterPlacing(c, p.blk, memory)
        /\ sharedWire' = WireAfterFill(c, p, sharedWire)
        /\ PlaceBlock(c, p.blk)
        /\ FinishTransaction(c, ResponsePacket(c, p, m.pkt), TRUE)
  /\ UNCHANGED <<memReqQueue, currBusOp>>

-----------------------------------------------------------------------------

\* The steps in which no line of a cache changes.
BaseStep ==
  /\ \/ \E c \in Caches, p \in CpuPackets : UncachedRequest(c, p)
     \/ \E c \in Caches : UncachedGrant(c)
     \/ IdleGrant
     \/ memReqQueue # <<>> /\ UncachedForward(Head(memReqQueue))
     \/ MemorySide
     \/ \E m \in inMemory, c \in Caches : UncachedResponse(m, c)
     \/ \E c \in Caches : ProcessCpuResp(c)
  /\ UNCHANGED setVars

SharedWriteNext ==
  \/ \E c \in Caches, p \in CpuPackets :
       ReadHit(c, p) \/ WriteHit(c, p) \/ BusRequest(c, p)
  \/ \E c \in Caches, op \in BusOps : BusGrant(c, op)
  \/ memReqQueue # <<>> /\ LET m == Head(memReqQueue) IN
       SnoopAndFetch(m) \/ SnoopAndComplete(m)
  \/ \E m \in inMemory, c \in Caches : MemResp(m, c)
  \/ BaseStep

SharedWriteSpec == SharedInit /\ [][SharedWriteNext]_sharedVars

-----------------------------------------------------------------------------
(* Properties.                                                             *)

InState(c, b, states) == isHit(c, b) /\ LineOf(c, b).cohState \in states

\* At any instant a block has at most one copy that may owe memory its data,
\* and one that is written silently is the only copy, whichever way its writer
\* chose to tell the others.
SingleOwner ==
  \A b \in Cacheable, c, d \in Caches : c # d =>
    /\ InState(c, b, {"Exclusive", "Modified"}) => ~isHit(d, b)
    /\ InState(c, b, {"SharedMod"}) => ~InState(d, b, {"SharedMod"})

\* All copies of a block hold the same data at every instant, also when the
\* originator of a write miss still waits for memory.
CopiesAgree ==
  \A b \in Cacheable, c, d \in Caches :
    isHit(c, b) /\ isHit(d, b) => LineOf(c, b).data = LineOf(d, b).data

\* A write miss the other copies know of and that waits for the block.
WriteUnderWay ==
  InCacheableTransaction /\ memReqQueue = <<>> /\ CurrentPacket.cmd = "Write"

\* When copies differ from memory, one of them is dirty and will be written
\* back, although updates move the dirty bit and invalidations flush it.
StaleMemoryHasDirtyCopy ==
  \A c \in Caches, b \in Cacheable :
    isHit(c, b) /\ LineOf(c, b).data # memory[b] =>
      \/ \E d \in Caches : isHit(d, b) /\ LineOf(d, b).dirty
      \/ WriteUnderWay /\ b = CurrentPacket.blk

\* The asserts on the dirty bit (hybrid_cache.cc:145, 249, 601, 674): a dirty
\* line is Modified or SharedMod, so a line that was invalidated is clean when
\* a read fills it again, and a Modified line is dirty.
DirtyMarksOwner ==
  \A c \in Caches, s \in Sets, w \in Ways :
    LET l == lines[c][s][w] IN
      /\ l.dirty => l.cohState \in {"Modified", "SharedMod"}
      /\ l.cohState = "Modified" => l.dirty

\* The asserts of snoop, grant and response (hybrid_cache.cc:342, 430-434, 501,
\* 602, 642, 675, 698): an update without a fetch never meets an exclusive
\* copy; whoever waits with a copy wants to write a shared one, although it may
\* lose the copy while it waits; a copy is never fetched again.
TransactionAsserts ==
  /\ \A c \in Caches :
       Waiting(c) /\ isCacheablePacket(cpuPkt[c]) /\ isHit(c, cpuPkt[c].blk) =>
         /\ cpuPkt[c].cmd = "Write"
         /\ InState(c, cpuPkt[c].blk, {"SharedClean", "SharedMod"})
  /\ InCacheableTransaction =>
       LET g == currentGranted
           b == CurrentPacket.blk
       IN /\ isHit(g, b) => InState(g, b, {"SharedClean", "SharedMod"})
          /\ blockedPacket # NoPacket \/ inMemory # {} => ~isHit(g, b)
          /\ memReqQueue # <<>> =>
               /\ IF Head(memReqQueue).toMem THEN ~isHit(g, b)
                                             ELSE CurrentPacket.cmd = "Write"
               /\ Updates => CurrentPacket.cmd = "Write"
               /\ \A d \in Caches \ {g} :
                    InState(d, b, {"Exclusive", "Modified"}) => Reads \/ Invalidates

\* No assert of any handler fails, whichever events of other caches ran
\* between the event that established it and the one that relies on it.
HandlerAsserts == DirtyMarksOwner /\ TransactionAsserts

\* From its snoop to its response a transaction finds the other caches as it
\* left them: the shared wire tells whether some other cache has the block,
\* none has it exclusively, and none but the writer will owe it to memory.
WireTellsTruth ==
  InCacheableTransaction /\ memReqQueue = <<>> =>
    LET b == CurrentPacket.blk
        others == {d \in Caches \ {currentGranted} : isHit(d, b)}
    IN /\ sharedWire <=> others # {}
       /\ \A d \in others : InState(d, b, IF CurrentPacket.cmd = "Write"
                                          THEN {"SharedClean"}
                                          ELSE {"SharedClean", "SharedMod"})

-----------------------------------------------------------------------------
(* The promise of one atomic memory (AtomicMemory).  A write miss takes    *)
(* effect when the other copies learn of it, before its own block arrives. *)

AtomicContents ==
  [b \in Blocks |->
     LET D == {c \in Caches : b \in Cacheable /\ isHit(c, b) /\ LineOf(c, b).dirty}
     IN IF WriteUnderWay /\ b = CurrentPacket.blk
          THEN WriteDataToBlock(CurrentPacket, memory[b])
        ELSE IF D = {} THEN memory[b] ELSE LineOf(CHOOSE c \in D : TRUE, b).data]

Performed(c) == Answered(c) \/ (WriteUnderWay /\ c = currentGranted)

Memory == INSTANCE AtomicMemory WITH
            Clients <- Caches, contents <- AtomicContents,
            operation <- [c \in Caches |-> Operation(c)],
            performed <- [c \in Caches |-> Performed(c)]

\* The caches, the bus and memory together are indistinguishable from a memory
\* that performs every access at one instant between request and response,
\* whether writes update the other copies or invalidate them.
ImplementsAtomicMemory == Memory!Spec

==============================================================================
