----------------------------- MODULE DragonCache -----------------------------
(***************************************************************************)
(* A system of Dragon write-back caches on the serializing bus             *)
(* (src/cc/src/dragon_cache.cc).  A write to a shared block is sent to the *)
(* other copies, which stay; no copy is ever invalidated.  Requests of the *)
(* CPU and the grant are those of SharedWriteCache; snoop and response     *)
(* have cases of their own, which know of no invalid copy.                 *)
(***************************************************************************)
EXTENDS SharedWriteCache

Init == SharedInit

\* What happens to a request of the CPU does not depend on how writes are sent.
handleCoherentCpuReq(c, p) == ReadHit(c, p) \/ WriteHit(c, p) \/ BusRequest(c, p)

\* A hit updates; a miss reads the block, and updates its copies if it writes.
BusOp(c, p) ==
  IF isHit(c, p.blk) THEN "BusUpd"
  ELSE IF p.cmd = "Read" THEN "BusRd" ELSE "BusRdUpd"

handleCoherentBusGrant(c) == BusGrant(c, BusOp(c, requestPacket[c]))

-----------------------------------------------------------------------------
(* handleCoherentSnoopedReq, at every cache but the originator.            *)

\* A dirty SharedMod copy that only receives an update is not flushed: the
\* writer takes the duty to write back over.
CopyFlushed(l) ==
  \/ l.cohState = "Modified"
  \/ l.cohState = "SharedMod" /\ Reads /\ l.dirty

\* Fault: an updated SharedMod copy stays SharedMod.
CopyStaysOwner(l) ==
  IF l.cohState \in {"Exclusive", "SharedClean"} THEN "SharedClean" ELSE "SharedMod"

\* An update leaves its originator as the only SharedMod copy.
CopyState(l) ==
  IF Updates \/ l.cohState \in {"Exclusive", "SharedClean"} THEN "SharedClean"
                                                            ELSE "SharedMod"

\* A flush, and an update of a SharedMod copy, take the dirty bit away.
CopyDirty(l) ==
  l.dirty /\ ~CopyFlushed(l) /\ ~(Updates /\ l.cohState = "SharedMod")

CopyAfterSnoop(l, p) ==
  [l EXCEPT !.cohState = CopyState(l), !.dirty = CopyDirty(l),
            !.data = IF Updates THEN WriteDataToBlock(p, @) ELSE @]

CopiesAfterSnoop(m) ==
  [d \in Caches |->
     IF d \in SnoopHits(m)
       THEN WithLine(d, SetOf[m.pkt.blk], tagMap[d][m.pkt.blk],
                     CopyAfterSnoop(LineOf(d, m.pkt.blk), m.pkt))
       ELSE lines[d]]

\* Fault: only Modified copies are flushed.
SnoopKeepsSharedMod(m) ==
  LET F == {d \in SnoopHits(m) : LineOf(d, m.pkt.blk).cohState = "Modified"}
      last == CHOOSE d \in F : \A e \in F : e <= d
  IN IF F = {} THEN memory
     ELSE [memory EXCEPT ![m.pkt.blk] = LineOf(last, m.pkt.blk).data]

\* The last flush in id order prevails.
MemoryAfterFlush(m) ==
  LET F == {d \in SnoopHits(m) : CopyFlushed(LineOf(d, m.pkt.blk))}
      last == CHOOSE d \in F : \A e \in F : e <= d
  IN IF F = {} THEN memory
     ELSE [memory EXCEPT ![m.pkt.blk] = LineOf(last, m.pkt.blk).data]

\* Every copy raises the shared wire.
WireAfterHits(m) == sharedWire \/ SnoopHits(m) # {}

-----------------------------------------------------------------------------
(* handleCoherentMemResp.                                                  *)

\* A write hit: only the bytes of the packet change.
UpdatedLine(l, p, wire) ==
  [l EXCEPT !.cohState = IF wire THEN "SharedMod" ELSE "Modified",
            !.dirty = TRUE, !.clkFlag = 1, !.data = WriteDataToBlock(p, @)]

\* A newly allocated line starts with zeros.
FetchedBlock(r) == IF r.cmd = "Read" THEN WriteDataToBlock(r, EmptyBlock) ELSE EmptyBlock

\* A miss: a newly allocated line, filled, and written if it is a write.
MissedLine(p, r, wire) ==
  LET l == [EmptyFrame EXCEPT !.tag = p.blk, !.valid = TRUE, !.clkFlag = 1,
                              !.data = FetchedBlock(r)]
  IN IF p.cmd = "Read"
       THEN [l EXCEPT !.cohState = IF wire THEN "SharedClean" ELSE "Exclusive"]
       ELSE UpdatedLine(l, p, wire)

LineAfterResp(c, p, r, wire) ==
  IF isHit(c, p.blk) THEN UpdatedLine(LineOf(c, p.blk), p, wire)
                     ELSE MissedLine(p, r, wire)

CpuResponse(p, r) == IF p.cmd = "Read" THEN SetDataFromBlock(p, FetchedBlock(r)) ELSE p

-----------------------------------------------------------------------------
(* processMemReqEvent and the memory response.                             *)

\* Snoop the others, then fetch the block from memory.
SnoopThenFetch(m) ==
  /\ NextMemReq(m)
  /\ isCacheablePacket(m.pkt) /\ m.toMem
  /\ lines' = CopiesAfterSnoop(m)
  /\ memory' = MemoryAfterFlush(m)
  /\ sharedWire' = WireAfterHits(m)
  /\ sendPacket([pkt |-> generateAlignAccess(m.pkt), from |-> m.from])
  /\ UNCHANGED <<cpuSideVars, arbiterVars, currBusOp, tagMap, clkPtr>>

\* Snoop the others, then complete the write without memory, in one event.
SnoopThenComplete(m) ==
  /\ NextMemReq(m)
  /\ isCacheablePacket(m.pkt) /\ ~m.toMem
  /\ LET c == m.from
         p == requestPacket[c]
     IN /\ lines' = [CopiesAfterSnoop(m) EXCEPT
                       ![c] = LinesWith(c, p.blk,
                                LineAfterResp(c, p, m.pkt, WireAfterHits(m)))]
        /\ memory' = MemoryAfterPlacing(c, p.blk, MemoryAfterFlush(m))
        /\ sharedWire' = WireAfterFill(c, p, WireAfterHits(m))
        /\ PlaceBlock(c, p.blk)
        /\ FinishTransaction(c, m.pkt, FALSE)
  /\ UNCHANGED <<currBusOp, memPortVars>>

\* The fetched block arrives at the cache that owns the bus.
handleCoherentMemResp(m, c) ==
  /\ TakeResponse(m, c)
  /\ isCacheablePacket(m.pkt)
  /\ LET p == requestPacket[c]
     IN /\ lines' = [lines EXCEPT
                       ![c] = LinesWith(c, p.blk, LineAfterResp(c, p, m.pkt, sharedWire))]
        /\ memory' = MemoryAfterPlacing(c, p.blk, memory)
        /\ sharedWire' = WireAfterFill(c, p, sharedWire)
        /\ PlaceBlock(c, p.blk)
        /\ FinishTransaction(c, CpuResponse(p, m.pkt), TRUE)
  /\ UNCHANGED <<memReqQueue, currBusOp>>

-----------------------------------------------------------------------------

Next ==
  \/ \E c \in Caches, p \in CpuPackets : handleCoherentCpuReq(c, p)
  \/ \E c \in Caches : handleCoherentBusGrant(c)
  \/ memReqQueue # <<>> /\ LET m == Head(memReqQueue) IN
       SnoopThenFetch(m) \/ SnoopThenComplete(m)
  \/ \E m \in inMemory, c \in Caches : handleCoherentMemResp(m, c)
  \/ BaseStep

Spec == Init /\ [][Next]_sharedVars

-----------------------------------------------------------------------------
(* Properties.  Those of SharedWriteCache are stated for Dragon as well.   *)

\* Dragon is the protocol of the hybrid and the adaptive cache with a policy
\* that never invalidates: its snoop and its response, which have no case for
\* an invalid copy, never meet one, so every step of a Dragon system is one of
\* theirs and what holds whatever they choose holds of Dragon.
ImplementsSharedWrite == SharedWriteSpec
==============================================================================
