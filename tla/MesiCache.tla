------------------------------ MODULE MesiCache ------------------------------
(***************************************************************************)
(* A system of MESI write-back caches on the serializing bus               *)
(* (src/cc/src/mesi_cache.cc).  Each action is one event of the simulator: *)
(* a CPU request, a grant, a snoop-and-forward, a memory response.         *)
(***************************************************************************)
EXTENDS CacheSets

MesiState == {"Invalid", "Modified", "Shared", "Exclusive"}

vars == <<busVars, memory, cpuSideVars, setVars>>

TypeOK == BaseTypeOK /\ SetsTypeOK(MesiState)

Init == BaseInit /\ SetsInit

-----------------------------------------------------------------------------
(* handleCoherentCpuReq.                                                   *)

\* A read hit is answered from the line.
ReadHit(c, p) ==
  /\ isCacheablePacket(p) /\ p.cmd = "Read" /\ isHit(c, p.blk)
  /\ AnswerAtOnce(c, p, SetDataFromBlock(p, LineOf(c, p.blk).data))
  /\ lines' = [lines EXCEPT ![c][SetOf[p.blk]][tagMap[c][p.blk]].clkFlag = 1]
  /\ UNCHANGED <<memory, tagMap, clkPtr>>

\* The line after a write to a block nobody else has.
OwnedWrite(l, p) ==
  [l EXCEPT !.cohState = "Modified", !.dirty = TRUE, !.clkFlag = 1,
            !.data = WriteDataToBlock(p, @)]

\* Fault: a Shared line is written without the bus.
WriteAnyCopy(l) == TRUE

\* A write hit in Modified or Exclusive is silent.
WritesSilently(l) == l.cohState # "Shared"

WriteHit(c, p) ==
  /\ isCacheablePacket(p) /\ p.cmd = "Write" /\ isHit(c, p.blk)
  /\ WritesSilently(LineOf(c, p.blk))
  /\ AnswerAtOnce(c, p, p)
  /\ lines' = [lines EXCEPT ![c] = WithLine(c, SetOf[p.blk], tagMap[c][p.blk],
                                            OwnedWrite(LineOf(c, p.blk), p))]
  /\ UNCHANGED <<memory, tagMap, clkPtr>>

NeedsBus(c, p) ==
  isHit(c, p.blk) => p.cmd = "Write" /\ ~WritesSilently(LineOf(c, p.blk))

\* A miss, and a write hit in Shared, waits for the bus.
BusRequest(c, p) ==
  /\ isCacheablePacket(p) /\ NeedsBus(c, p)
  /\ WaitForBus(c, p)
  /\ UNCHANGED <<memory, setVars>>

-----------------------------------------------------------------------------
(* handleCoherentBusGrant.                                                 *)

\* Fault: a partial write that hits fetches the block all the same.
FetchOnUpgrade(c, p) == p.cmd = "Read" \/ ~FullBlock(p)

\* Memory is read unless a write needs no data: it replaces the block or the
\* block is still a hit, which a snoop may have changed since the request.
NeedsMemory(c, p) == p.cmd = "Read" \/ (~FullBlock(p) /\ ~isHit(c, p.blk))

\* Fault: the grant leaves the shared wire as the last transaction did.
WireNotReset == sharedWire

\* bus->sharedWire = false.
WireAtGrant == FALSE

BusGrant(c) ==
  /\ GrantNext(c)
  /\ isCacheablePacket(requestPacket[c])
  /\ sharedWire' = WireAtGrant
  /\ LET p == requestPacket[c] IN
       sendMemReq(p, NeedsMemory(c, p), IF p.cmd = "Read" THEN "BusRd" ELSE "BusRdX", c)
  /\ UNCHANGED <<cpuSideVars, memPortVars, memory, setVars>>

-----------------------------------------------------------------------------
(* handleCoherentSnoopedReq, at every cache but the originator.            *)

SnoopHits(m) == {d \in Caches \ {m.from} : isHit(d, m.pkt.blk)}

\* Fault: the flush leaves the dirty bit set.
SnoopedStillDirty(l, p) ==
  [l EXCEPT !.cohState = IF p.cmd = "Read" THEN "Shared" ELSE "Invalid"]

SnoopedLine(l, p) ==
  [l EXCEPT !.cohState = IF p.cmd = "Read" THEN "Shared" ELSE "Invalid",
            !.dirty = IF l.cohState = "Modified" THEN FALSE ELSE @]

LinesAfterSnoop(m) ==
  [d \in Caches |->
     IF d \in SnoopHits(m)
       THEN WithLine(d, SetOf[m.pkt.blk], tagMap[d][m.pkt.blk],
                     SnoopedLine(LineOf(d, m.pkt.blk), m.pkt))
       ELSE lines[d]]

\* Fault: a Modified copy is downgraded without a flush.
SnoopWithoutFlush(m) == memory

\* Caches in Modified write the block back; the last one in id order prevails.
MemoryAfterSnoop(m) ==
  LET F == {d \in SnoopHits(m) : LineOf(d, m.pkt.blk).cohState = "Modified"}
      last == CHOOSE d \in F : \A e \in F : e <= d
  IN IF F = {} THEN memory
     ELSE [memory EXCEPT ![m.pkt.blk] = LineOf(last, m.pkt.blk).data]

\* Fault: a snoop hit does not raise the shared wire.
WireNeverRaised(m) == sharedWire

WireAfterSnoop(m) == sharedWire \/ SnoopHits(m) # {}

-----------------------------------------------------------------------------
(* handleCoherentMemResp.                                                  *)

\* Fault: a write overwrites the fetched block instead of merging with it.
FetchedDataDropped(c, r) ==
  IF Present(c, r.blk) THEN LineOf(c, r.blk).data ELSE EmptyBlock

\* The bytes of the line when it gets reply r: what was there, zeros in a
\* newly allocated frame, overwritten by a fetched block.
FetchedData(c, r) ==
  LET old == IF Present(c, r.blk) THEN LineOf(c, r.blk).data ELSE EmptyBlock
  IN IF r.cmd = "Read" THEN WriteDataToBlock(r, old) ELSE old

\* The line of the requested block p.blk once the transaction is done.
FilledLine(c, p, r, wire) ==
  LET old == IF Present(c, p.blk) THEN LineOf(c, p.blk)
             ELSE [EmptyFrame EXCEPT !.tag = p.blk, !.valid = TRUE]
      l == [old EXCEPT !.clkFlag = 1, !.data = FetchedData(c, r)]
  IN IF p.cmd = "Read"
       THEN [l EXCEPT !.cohState = IF wire THEN "Shared" ELSE "Exclusive"]
       ELSE OwnedWrite(l, p)

\* The response to the CPU: its own packet, with the data it asked for.
ResponsePacket(c, p, r) ==
  IF p.cmd = "Read" THEN SetDataFromBlock(p, FetchedData(c, r)) ELSE p

\* Read fills consume the wire.
WireAfterFill(p, wire) == IF p.cmd = "Read" THEN FALSE ELSE wire

-----------------------------------------------------------------------------
(* processMemReqEvent and the memory response.                             *)

\* Snoop the others, then fetch the block from memory.
SnoopAndFetch(m) ==
  /\ NextMemReq(m)
  /\ isCacheablePacket(m.pkt) /\ m.toMem
  /\ lines' = LinesAfterSnoop(m)
  /\ memory' = MemoryAfterSnoop(m)
  /\ sharedWire' = WireAfterSnoop(m)
  /\ sendPacket([pkt |-> generateAlignAccess(m.pkt), from |-> m.from])
  /\ UNCHANGED <<cpuSideVars, arbiterVars, currBusOp, tagMap, clkPtr>>

\* Snoop the others, then complete the write without memory: the bus turns the
\* packet into its own response and hands it back in the same event.
SnoopAndComplete(m) ==
  /\ NextMemReq(m)
  /\ isCacheablePacket(m.pkt) /\ ~m.toMem
  /\ LET c == m.from
         p == requestPacket[c]
     IN /\ lines' = [LinesAfterSnoop(m) EXCEPT
                       ![c] = LinesWith(c, p.blk,
                                FilledLine(c, p, m.pkt, WireAfterSnoop(m)))]
        /\ memory' = MemoryAfterPlacing(c, p.blk, MemoryAfterSnoop(m))
        /\ sharedWire' = WireAfterFill(p, WireAfterSnoop(m))
        /\ PlaceBlock(c, p.blk)
        /\ FinishTransaction(c, m.pkt, FALSE)
  /\ UNCHANGED <<currBusOp, memPortVars>>

\* The fetched block arrives at the cache that owns the bus.
MemResp(m, c) ==
  /\ TakeResponse(m, c)
  /\ isCacheablePacket(m.pkt)
  /\ LET p == requestPacket[c]
     IN /\ lines' = [lines EXCEPT
                       ![c] = LinesWith(c, p.blk, FilledLine(c, p, m.pkt, sharedWire))]
        /\ memory' = MemoryAfterPlacing(c, p.blk, memory)
        /\ sharedWire' = WireAfterFill(p, sharedWire)
        /\ PlaceBlock(c, p.blk)
        /\ FinishTransaction(c, ResponsePacket(c, p, m.pkt), TRUE)
  /\ UNCHANGED <<memReqQueue, currBusOp>>

-----------------------------------------------------------------------------

CpuRequest(c, p) ==
  \/ ReadHit(c, p)
  \/ WriteHit(c, p)
  \/ BusRequest(c, p)
  \/ UncachedRequest(c, p) /\ UNCHANGED setVars

ProcessGrantEvent ==
  \/ \E c \in Caches : BusGrant(c)
  \/ \E c \in Caches : UncachedGrant(c) /\ UNCHANGED setVars
  \/ IdleGrant /\ UNCHANGED setVars

ProcessMemReqEvent ==
  memReqQueue # <<>> /\
    LET m == Head(memReqQueue) IN
      \/ SnoopAndFetch(m)
      \/ SnoopAndComplete(m)
      \/ UncachedForward(m) /\ UNCHANGED setVars

RecvTimingResp ==
  \E m \in inMemory, c \in Caches :
    \/ MemResp(m, c)
    \/ UncachedResponse(m, c) /\ UNCHANGED setVars

Next ==
  \/ \E c \in Caches, p \in CpuPackets : CpuRequest(c, p)
  \/ ProcessGrantEvent
  \/ ProcessMemReqEvent
  \/ MemorySide /\ UNCHANGED setVars
  \/ RecvTimingResp
  \/ \E c \in Caches : ProcessCpuResp(c) /\ UNCHANGED setVars

\* Scheduled events run, and memory answers what it accepted and takes a
\* retried packet in the end.  CPUs need not send anything.
Fairness ==
  /\ WF_vars(ProcessGrantEvent)
  /\ WF_vars(ProcessMemReqEvent)
  /\ WF_vars(MemorySide /\ UNCHANGED setVars)
  /\ WF_vars(RecvTimingResp)
  /\ \A c \in Caches : WF_vars(ProcessCpuResp(c) /\ UNCHANGED setVars)

Spec == Init /\ [][Next]_vars
FairSpec == Spec /\ Fairness

-----------------------------------------------------------------------------
(* Properties.                                                             *)

Owns(c, b) == isHit(c, b) /\ LineOf(c, b).cohState \in {"Modified", "Exclusive"}

\* A block that one cache may write silently is in no other cache, at every
\* instant, also between a snoop and the response it prepares ("if hit, the
\* other cpu can be only in S or I", mesi_cache.cc:208).
SingleWriter ==
  \A b \in Cacheable, c, d \in Caches : Owns(c, b) /\ d # c => ~isHit(d, b)

\* The dirty bit and the Modified state never part, in any frame, so evict and
\* flush write back exactly what memory lacks (asserts of mesi_cache.cc:150
\* and 541).
DirtyIffModified ==
  \A c \in Caches, s \in Sets, w \in Ways :
    lines[c][s][w].dirty <=> lines[c][s][w].cohState = "Modified"

\* Every copy that is not Modified holds what memory holds, whatever order
\* flushes, evictions, fetches and silent upgrades happened in.
CleanCopiesCurrent ==
  \A c \in Caches, b \in Cacheable :
    isHit(c, b) /\ LineOf(c, b).cohState # "Modified" => LineOf(c, b).data = memory[b]

\* The asserts of handleCoherentMemResp (mesi_cache.cc:369-371, 400-403, 454)
\* hold when the response comes: the grant's decision whether to fetch is
\* still right, although snoops, grants and evictions of others came between
\* the request and the grant.
MemRespAsserts ==
  InCacheableTransaction =>
    LET g == currentGranted
        b == CurrentPacket.blk
    IN /\ blockedPacket # NoPacket \/ inMemory # {} => ~isHit(g, b)
       /\ memReqQueue # <<>> =>
            IF Head(memReqQueue).toMem
              THEN ~isHit(g, b)
              ELSE /\ CurrentPacket.cmd = "Write"
                   /\ isHit(g, b) => LineOf(g, b).cohState = "Shared"
                   /\ FullBlock(CurrentPacket) \/ isHit(g, b)

\* From its snoop to its response a transaction finds the other caches as it
\* left them: none owns the block, none has it if it is about to be written,
\* and the shared wire tells whether some other cache has it.
SnoopStillHolds ==
  InCacheableTransaction /\ memReqQueue = <<>> =>
    LET others == {d \in Caches \ {currentGranted} : isHit(d, CurrentPacket.blk)}
    IN IF CurrentPacket.cmd = "Write"
         THEN others = {}
         ELSE /\ \A d \in others : ~Owns(d, CurrentPacket.blk)
              /\ sharedWire <=> others # {}

\* The asserts of the handlers, and what the code between a snoop and its
\* response takes for granted.
HandlerAsserts == DirtyIffModified /\ MemRespAsserts /\ SnoopStillHolds

\* A cache becomes the owner of a block only in a step of a transaction it
\* holds the bus for.
OwnershipNeedsBus ==
  [][\A c \in Caches, b \in Cacheable :
       Owns(c, b)' /\ ~Owns(c, b) => currentGranted = c]_vars

\* Every packet a CPU sends is answered, whatever the others do.
RequestAnswered ==
  \A c \in Caches : cpuPkt[c] # NoPacket ~> cpuPkt[c] = NoPacket

-----------------------------------------------------------------------------
(* What the whole system promises: one atomic memory (AtomicMemory).  Its  *)
(* contents are the Modified copy of a block if there is one, else memory. *)

AtomicContents ==
  [b \in Blocks |->
     LET D == {c \in Caches : b \in Cacheable /\ isHit(c, b) /\ LineOf(c, b).dirty}
     IN IF D = {} THEN memory[b] ELSE LineOf(CHOOSE c \in D : TRUE, b).data]

Memory == INSTANCE AtomicMemory WITH
            Clients <- Caches, contents <- AtomicContents,
            operation <- [c \in Caches |-> Operation(c)],
            performed <- [c \in Caches |-> Answered(c)]

\* The caches, the bus and memory together are indistinguishable from a memory
\* that performs every access at one instant between request and response, so
\* no write is lost and no read returns an old value.
ImplementsAtomicMemory == Memory!Spec

=============================================================================
