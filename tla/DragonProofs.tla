----------------------------- MODULE DragonProofs -----------------------------
(***************************************************************************)
(* The snoop and the response of a Dragon cache have no case for an        *)
(* invalid copy.  They never meet one, so a Dragon system takes only steps *)
(* of caches that may update or invalidate (SharedWriteCache), and what is *)
(* proved of those holds of it, for any number of caches, sets, ways,      *)
(* blocks, words and values.                                               *)
(***************************************************************************)
EXTENDS DragonCache, SharedWriteProofs

\* No copy is ever invalidated, so a block that sits in a cache is a hit.
FramesValid ==
  \A c \in Caches, s \in Sets, w \in Ways :
    lines[c][s][w].valid => lines[c][s][w].cohState # "Invalid"

NeverInvalidates == ~Invalidates

DragonInv == SharedInv /\ FramesValid /\ NeverInvalidates

LEMMA PresentIsHit ==
  ASSUME DragonInv, NEW c \in Caches, NEW b \in Cacheable
  PROVE  Present(c, b) <=> isHit(c, b)
<1>1. ASSUME Present(c, b) PROVE LineOf(c, b).cohState # "Invalid"
  <2>1. LineOf(c, b).valid
    BY <1>1, LineFacts DEF DragonInv, SharedInv, FramesInv
  <2>2. SetOf[b] \in Sets /\ tagMap[c][b] \in Ways
    BY <1>1, SetOfTyped DEF DragonInv, SharedInv, FramesInv, SetsTypeOK, Present
  <2> QED  BY <2>1, <2>2 DEF DragonInv, FramesValid, LineOf
<1> QED  BY <1>1 DEF isHit

-----------------------------------------------------------------------------
(* The snoop of Dragon is a snoop that does not invalidate.                *)

LEMMA SameSnoopedLine ==
  ASSUME NeverInvalidates
  PROVE  \A l, p : CopyAfterSnoop(l, p) = SnoopedLine(l, p)
                   /\ (CopyFlushed(l) <=> Flushes(l))
<1>1. \A l : CopyFlushed(l) <=> Flushes(l)
  BY DEF CopyFlushed, Flushes, NeverInvalidates
<1>2. \A l : CopyState(l) = SnoopedState(l)
  BY DEF CopyState, SnoopedState, NeverInvalidates
<1>3. \A l : CopyDirty(l) = SnoopedDirty(l)
  BY <1>1 DEF CopyDirty, SnoopedDirty
<1>4. \A l, p : (IF Updates THEN WriteDataToBlock(p, l.data) ELSE l.data) = SnoopedData(l, p)
  BY DEF SnoopedData
<1> QED  BY <1>1, <1>2, <1>3, <1>4 DEF CopyAfterSnoop, SnoopedLine

LEMMA SameSnoop ==
  ASSUME DragonInv, NEW m
  PROVE  /\ CopiesAfterSnoop(m) = LinesAfterSnoop(m)
         /\ MemoryAfterFlush(m) = MemoryAfterSnoop(m)
         /\ WireAfterHits(m) = WireAfterSnoop(m)
<1>1. \A l, p : CopyAfterSnoop(l, p) = SnoopedLine(l, p) /\ (CopyFlushed(l) <=> Flushes(l))
  BY SameSnoopedLine DEF DragonInv
<1>2. CopiesAfterSnoop(m) = LinesAfterSnoop(m)
  BY <1>1 DEF CopiesAfterSnoop, LinesAfterSnoop
<1>3. MemoryAfterFlush(m) = MemoryAfterSnoop(m)
  <2> DEFINE F == {d \in SnoopHits(m) : Flushes(LineOf(d, m.pkt.blk))}
             G == {d \in SnoopHits(m) : CopyFlushed(LineOf(d, m.pkt.blk))}
             Last(H) == CHOOSE d \in H : \A e \in H : e <= d
  <2>1. MemoryAfterFlush(m) =
          IF G = {} THEN memory
          ELSE [memory EXCEPT ![m.pkt.blk] = LineOf(Last(G), m.pkt.blk).data]
    BY DEF MemoryAfterFlush
  <2>2. MemoryAfterSnoop(m) =
          IF F = {} THEN memory
          ELSE [memory EXCEPT ![m.pkt.blk] = LineOf(Last(F), m.pkt.blk).data]
    BY DEF MemoryAfterSnoop
  <2>3. G = F
    BY <1>1
  <2> HIDE DEF F, G, Last
  <2> QED  BY <2>1, <2>2, <2>3
<1>4. sharedWire \in BOOLEAN
  BY DEF DragonInv, SharedInv, BaseInv, BaseTypeOK, BusTypeOK
<1>5. WireAfterHits(m) = WireAfterSnoop(m)
  BY <1>4 DEF WireAfterHits, WireAfterSnoop, DragonInv, NeverInvalidates
<1> QED  BY <1>2, <1>3, <1>5

-----------------------------------------------------------------------------
(* The end of a transaction.                                               *)

LEMMA SameFill ==
  ASSUME DragonInv, NEW c \in Caches, NEW p \in Packet, p.blk \in Cacheable,
         NEW r, r.blk = p.blk, NEW wire,
         isHit(c, p.blk) => p.cmd = "Write" /\ r.cmd = "Write"
  PROVE  /\ LineAfterResp(c, p, r, wire) = FilledLine(c, p, r, wire)
         /\ ~isHit(c, p.blk) => CpuResponse(p, r) = ResponsePacket(c, p, r)
<1> DEFINE b == p.blk
<1>1. CASE isHit(c, b)
  <2>1. PICK l \in Frame(CoherenceStates) : l = LineOf(c, b)
    BY <1>1, LineFacts DEF DragonInv, SharedInv, FramesInv, isHit
  <2>2. OldLine(c, b) = l /\ FetchedData(c, r) = l.data
    BY <1>1, <2>1 DEF OldLine, FetchedData, isHit
  <2>3. LineAfterResp(c, p, r, wire) = UpdatedLine(l, p, wire)
    BY <1>1, <2>1 DEF LineAfterResp
  <2>4. FilledLine(c, p, r, wire) = WrittenLine([l EXCEPT !.clkFlag = 1, !.data = l.data], p, wire)
    BY <1>1, <2>2 DEF FilledLine
  <2>5. UpdatedLine(l, p, wire) = WrittenLine([l EXCEPT !.clkFlag = 1, !.data = l.data], p, wire)
    BY <2>1 DEF UpdatedLine, WrittenLine, Frame
  <2> QED  BY <1>1, <2>3, <2>4, <2>5
<1>2. CASE ~isHit(c, b)
  <2>1. ~Present(c, b)
    BY <1>2, PresentIsHit
  <2>2. PICK l : l = [EmptyFrame EXCEPT !.tag = b, !.valid = TRUE]
    OBVIOUS
  <2>3. OldLine(c, b) = l /\ l.data = EmptyBlock
    BY <2>1, <2>2 DEF OldLine, EmptyFrame
  <2>4. PICK data : data = FetchedData(c, r)
    OBVIOUS
  <2>5. FetchedBlock(r) = data
    BY <2>3, <2>4 DEF FetchedBlock, FetchedData
  <2>6. CpuResponse(p, r) = ResponsePacket(c, p, r)
    BY <2>4, <2>5 DEF CpuResponse, ResponsePacket
  <2>7. PICK k : k = [l EXCEPT !.clkFlag = 1, !.data = data]
    OBVIOUS
  <2>8. [EmptyFrame EXCEPT !.tag = b, !.valid = TRUE, !.clkFlag = 1, !.data = data] = k
    BY <2>2, <2>7 DEF EmptyFrame
  <2>9. UpdatedLine(k, p, wire) = WrittenLine(k, p, wire)
    BY DEF UpdatedLine, WrittenLine
  <2>10. LineAfterResp(c, p, r, wire) =
           IF p.cmd = "Read"
             THEN [k EXCEPT !.cohState = IF wire THEN "SharedClean" ELSE "Exclusive"]
             ELSE WrittenLine(k, p, wire)
    BY <1>2, <2>5, <2>8, <2>9 DEF LineAfterResp, MissedLine
  <2>11. FilledLine(c, p, r, wire) =
           IF p.cmd = "Read"
             THEN [k EXCEPT !.cohState = IF wire THEN "SharedClean" ELSE "Exclusive"]
             ELSE WrittenLine(k, p, wire)
    BY <2>3, <2>4, <2>7 DEF FilledLine
  <2> QED  BY <2>6, <2>10, <2>11
<1> QED  BY <1>1, <1>2

-----------------------------------------------------------------------------
(* Every step of a Dragon system is one of caches that update or           *)
(* invalidate.                                                             *)

LEMMA DragonInitValid == Init => FramesValid /\ NeverInvalidates
<1>1. Init => FramesValid
  BY DEF Init, SharedInit, SetsInit, FramesValid, EmptyFrame
<1>2. Init => NeverInvalidates
  BY DEF Init, SharedInit, BaseInit, BusInit, NeverInvalidates, Invalidates
<1> QED  BY <1>1, <1>2

\* At the grant a miss reads, and updates if it writes; a hit updates.
LEMMA DragonGrantIsShared ==
  ASSUME NEW c, handleCoherentBusGrant(c)
  PROVE  \E op \in BusOps : BusGrant(c, op) /\ currBusOp' = op /\ op # "BusRdX"
<1>1. PICK op \in BusOps : op = BusOp(c, requestPacket[c]) /\ op # "BusRdX"
  BY DEF BusOp, BusOps
<1>2. BusGrant(c, op)
  BY <1>1 DEF handleCoherentBusGrant
<1>3. currBusOp' = op
  BY <1>2 DEF BusGrant, sendMemReq
<1> QED  BY <1>1, <1>2, <1>3

LEMMA DragonFetchIsShared ==
  ASSUME DragonInv, NEW m, SnoopThenFetch(m)
  PROVE  SnoopAndFetch(m)
  BY SameSnoop DEF SnoopThenFetch, SnoopAndFetch

LEMMA DragonCompleteIsShared ==
  ASSUME DragonInv, NEW m, SnoopThenComplete(m)
  PROVE  SnoopAndComplete(m)
<1>1. NextMemReq(m) /\ isCacheablePacket(m.pkt) /\ ~m.toMem
  BY DEF SnoopThenComplete
<1>2. PICK c \in Caches : c = m.from
  BY <1>1, SnoopFinds DEF DragonInv
<1>3. PICK p \in Packet : p = requestPacket[c] /\ p = m.pkt /\ p.blk \in Cacheable
  BY <1>1, <1>2, SnoopFinds DEF DragonInv
<1>4. isHit(c, p.blk) => p.cmd = "Write"
  BY <1>1, <1>2, <1>3, SnoopFinds DEF DragonInv
<1>5. PICK wire : wire = WireAfterSnoop(m) /\ wire = WireAfterHits(m)
  BY SameSnoop
<1>6. LineAfterResp(c, p, p, wire) = FilledLine(c, p, p, wire)
  BY <1>3, <1>4, SameFill
<1>7. /\ lines' = [LinesAfterSnoop(m) EXCEPT ![c] = LinesWith(c, p.blk, FilledLine(c, p, p, wire))]
      /\ memory' = MemoryAfterPlacing(c, p.blk, MemoryAfterSnoop(m))
      /\ sharedWire' = WireAfterFill(c, p, wire)
      /\ PlaceBlock(c, p.blk)
      /\ FinishTransaction(c, p, FALSE)
      /\ UNCHANGED <<currBusOp, memPortVars>>
  BY <1>2, <1>3, <1>5, <1>6, SameSnoop DEF SnoopThenComplete
<1> QED  BY <1>1, <1>2, <1>3, <1>5, <1>7 DEF SnoopAndComplete

LEMMA DragonMemRespIsShared ==
  ASSUME DragonInv, NEW m, NEW c \in Caches, handleCoherentMemResp(m, c)
  PROVE  MemResp(m, c)
<1>1. TakeResponse(m, c) /\ isCacheablePacket(m.pkt)
  BY DEF handleCoherentMemResp
<1>2. /\ currentGranted = c /\ cpuPkt[c] \in Packet /\ m.pkt.blk = cpuPkt[c].blk
      /\ memReqQueue = <<>>
  BY <1>1, AnsweredFacts DEF DragonInv, SharedInv, TakeResponse
<1>3. PICK p \in Packet : p = cpuPkt[c] /\ p.blk \in Cacheable /\ m.pkt.blk = p.blk
  BY <1>1, <1>2 DEF isCacheablePacket
<1>4. p = requestPacket[c]
  BY <1>2, <1>3 DEF DragonInv, SharedInv, BaseInv, RequestPacketLive, isCacheablePacket
<1>5. ~isHit(c, p.blk)
  BY <1>2, <1>3, NobodyIsNoCache DEF DragonInv, SharedInv, FlightInv, GrantStillRight,
     InCacheableTransaction, CurrentPacket, isCacheablePacket
<1>6. /\ LineAfterResp(c, p, m.pkt, sharedWire) = FilledLine(c, p, m.pkt, sharedWire)
      /\ CpuResponse(p, m.pkt) = ResponsePacket(c, p, m.pkt)
  BY <1>3, <1>5, SameFill
<1>7. /\ lines' = [lines EXCEPT ![c] = LinesWith(c, p.blk, FilledLine(c, p, m.pkt, sharedWire))]
      /\ memory' = MemoryAfterPlacing(c, p.blk, memory)
      /\ sharedWire' = WireAfterFill(c, p, sharedWire)
      /\ PlaceBlock(c, p.blk)
      /\ FinishTransaction(c, ResponsePacket(c, p, m.pkt), TRUE)
      /\ UNCHANGED <<memReqQueue, currBusOp>>
  BY <1>4, <1>6 DEF handleCoherentMemResp
<1> QED  BY <1>1, <1>4, <1>7 DEF MemResp

\* The steps that change no line leave the bus operation or do not invalidate.
LEMMA BaseStepNeverInvalidates ==
  ASSUME DragonInv, BaseStep
  PROVE  NeverInvalidates'
<1>1. UNCHANGED currBusOp => NeverInvalidates'
  BY DEF DragonInv, NeverInvalidates, Invalidates
<1>2. ASSUME NEW c \in Caches, UncachedGrant(c) PROVE NeverInvalidates'
  BY <1>2 DEF UncachedGrant, sendMemReq, NeverInvalidates, Invalidates
<1>3. ASSUME NEW c \in Caches, NEW p \in CpuPackets, UncachedRequest(c, p)
      PROVE  UNCHANGED currBusOp
  BY <1>3 DEF UncachedRequest, WaitForBus
<1>4. IdleGrant => UNCHANGED currBusOp
  BY DEF IdleGrant
<1>5. UncachedForward(Head(memReqQueue)) => UNCHANGED currBusOp
  BY DEF UncachedForward
<1>6. MemorySide => UNCHANGED currBusOp
  BY DEF MemorySide, RecvReqRetry, MemAccess
<1>7. ASSUME NEW m \in inMemory, NEW c \in Caches, UncachedResponse(m, c)
      PROVE  UNCHANGED currBusOp
  BY <1>7 DEF UncachedResponse
<1>8. ASSUME NEW c \in Caches, ProcessCpuResp(c) PROVE UNCHANGED currBusOp
  BY <1>8 DEF ProcessCpuResp, busVars
<1> QED  BY <1>1, <1>2, <1>3, <1>4, <1>5, <1>6, <1>7, <1>8 DEF BaseStep

\* Every step, and what it leaves of the bus operation.
LEMMA DragonStepIsShared ==
  ASSUME DragonInv, Next
  PROVE  SharedWriteNext /\ NeverInvalidates'
<1>1. UNCHANGED currBusOp => NeverInvalidates'
  BY DEF DragonInv, NeverInvalidates, Invalidates
<1>2. ASSUME NEW c \in Caches, NEW p \in CpuPackets, handleCoherentCpuReq(c, p)
      PROVE  SharedWriteNext /\ UNCHANGED currBusOp
  BY <1>2 DEF handleCoherentCpuReq, SharedWriteNext, ReadHit, WriteHit, BusRequest,
     AnswerAtOnce, WaitForBus, busVars
<1>3. ASSUME NEW c \in Caches, handleCoherentBusGrant(c)
      PROVE  SharedWriteNext /\ NeverInvalidates'
  BY <1>3, DragonGrantIsShared DEF SharedWriteNext, NeverInvalidates, Invalidates
<1>4. ASSUME memReqQueue # <<>>, NEW m, m = Head(memReqQueue),
             SnoopThenFetch(m) \/ SnoopThenComplete(m)
      PROVE  SharedWriteNext /\ UNCHANGED currBusOp
  <2>1. SnoopAndFetch(m) \/ SnoopAndComplete(m)
    BY <1>4, DragonFetchIsShared, DragonCompleteIsShared
  <2> QED  BY <1>4, <2>1 DEF SharedWriteNext, SnoopAndFetch, SnoopAndComplete
<1>5. ASSUME NEW m \in inMemory, NEW c \in Caches, handleCoherentMemResp(m, c)
      PROVE  SharedWriteNext /\ UNCHANGED currBusOp
  <2>1. MemResp(m, c)
    BY <1>5, DragonMemRespIsShared
  <2> QED  BY <2>1 DEF SharedWriteNext, MemResp
<1>6. ASSUME BaseStep PROVE SharedWriteNext /\ NeverInvalidates'
  BY <1>6, BaseStepNeverInvalidates DEF SharedWriteNext
<1> QED  BY <1>1, <1>2, <1>3, <1>4, <1>5, <1>6 DEF Next

-----------------------------------------------------------------------------
(* A transaction leaves no invalid copy behind.                            *)

LEMMA SnoopKeepsFramesValid ==
  ASSUME DragonInv, NEW m, m.pkt.blk \in Cacheable,
         NEW d \in Caches, NEW s \in Sets, NEW w \in Ways
  PROVE  LET l == LinesAfterSnoop(m)[d][s][w] IN l.valid => l.cohState # "Invalid"
<1>1. PICK k \in Frame(CoherenceStates) : k = lines[d][s][w]
  BY DEF DragonInv, SharedInv, FramesInv, SetsTypeOK
<1>2. k.valid => k.cohState # "Invalid"
  BY <1>1 DEF DragonInv, FramesValid
<1>3. CASE d \in SnoopHits(m) /\ s = SetOf[m.pkt.blk] /\ w = tagMap[d][m.pkt.blk]
  <2>1. LinesAfterSnoop(m)[d][s][w] = SnoopedLine(k, m.pkt)
    BY <1>1, <1>3, SnoopedFrames DEF DragonInv, SharedInv, LineOf
  <2>2. SnoopedLine(k, m.pkt).cohState = SnoopedState(k)
    BY <1>1 DEF SnoopedLine, Frame
  <2>3. SnoopedState(k) # "Invalid"
    BY DEF SnoopedState, DragonInv, NeverInvalidates
  <2> QED  BY <2>1, <2>2, <2>3
<1>4. CASE ~(d \in SnoopHits(m) /\ s = SetOf[m.pkt.blk] /\ w = tagMap[d][m.pkt.blk])
  BY <1>1, <1>2, <1>4, SnoopedFrames DEF DragonInv, SharedInv
<1> QED  BY <1>3, <1>4

LEMMA FillKeepsFramesValid ==
  ASSUME DragonInv, NEW c \in Caches, NEW p \in Packet, p.blk \in Cacheable,
         NEW r, NEW wire, NEW s \in Sets, NEW w \in Ways
  PROVE  LET l == LinesWith(c, p.blk, FilledLine(c, p, r, wire))[s][w]
         IN  l.valid => l.cohState # "Invalid"
<1>1. FilledLine(c, p, r, wire).cohState # "Invalid"
  <2>1. PICK o \in Frame(CoherenceStates) : o = OldLine(c, p.blk)
    BY OldLineFacts DEF DragonInv, SharedInv, FramesInv
  <2>2. PICK k : k = [o EXCEPT !.clkFlag = 1, !.data = FetchedData(c, r)]
    OBVIOUS
  <2>3. FilledLine(c, p, r, wire) =
          IF p.cmd = "Read"
            THEN [k EXCEPT !.cohState = IF wire THEN "SharedClean" ELSE "Exclusive"]
            ELSE WrittenLine(k, p, wire)
    BY <2>1, <2>2 DEF FilledLine
  <2>4. DOMAIN k = {"tag", "valid", "cohState", "dirty", "clkFlag", "data"}
    BY <2>1, <2>2 DEF Frame
  <2> QED  BY <2>2, <2>3 DEF WrittenLine, Frame
<1>2. PICK l : l = FilledLine(c, p, r, wire)
  OBVIOUS
<1>3. lines[c][s][w].valid => lines[c][s][w].cohState # "Invalid"
  BY DEF DragonInv, FramesValid
<1> QED  BY <1>1, <1>2, <1>3, FilledFrames DEF DragonInv, SharedInv, SameButFlag

LEMMA FramesValidStep ==
  ASSUME DragonInv, SharedWriteNext
  PROVE  FramesValid'
<1>1. lines \in [Caches -> [Sets -> [Ways -> Frame(CoherenceStates)]]]
  BY DEF DragonInv, SharedInv, FramesInv, SetsTypeOK
<1>2. ASSUME NEW c \in Caches, NEW p \in CpuPackets, ReadHit(c, p) PROVE FramesValid'
  <2>1. \A d \in Caches, s \in Sets, w \in Ways :
          /\ lines'[d][s][w].cohState = lines[d][s][w].cohState
          /\ lines'[d][s][w].valid = lines[d][s][w].valid
    <3>1. PICK t, x : lines' = [lines EXCEPT ![c][t][x].clkFlag = 1]
      BY <1>2 DEF ReadHit
    <3> TAKE d \in Caches, s \in Sets, w \in Ways
    <3>2. lines'[d][s][w] = lines[d][s][w]
           \/ lines'[d][s][w] = [lines[d][s][w] EXCEPT !.clkFlag = 1]
      BY <1>1, <3>1
    <3>3. lines[d][s][w] \in Frame(CoherenceStates)
      BY <1>1
    <3> QED  BY <3>2, <3>3 DEF Frame
  <2> QED  BY <2>1 DEF DragonInv, FramesValid
<1>3. ASSUME NEW c \in Caches, NEW p \in CpuPackets, WriteHit(c, p) PROVE FramesValid'
  <2>1. p.blk \in Cacheable /\ Present(c, p.blk)
    BY <1>3 DEF WriteHit, isCacheablePacket, isHit
  <2>2. PICK k \in Frame(CoherenceStates) : k = LineOf(c, p.blk)
    BY <2>1, LineFacts DEF DragonInv, SharedInv, FramesInv
  <2>3. PICK l : l = SilentWrite(k, p)
    OBVIOUS
  <2>4. l.cohState = "Modified"
    BY <2>2, <2>3 DEF SilentWrite, Frame
  <2>5. PICK x \in Sets, y \in Ways : x = SetOf[p.blk] /\ y = tagMap[c][p.blk]
    BY <2>1, SetOfTyped DEF DragonInv, SharedInv, FramesInv, SetsTypeOK, Present
  <2>6. lines' = [lines EXCEPT ![c] = [lines[c] EXCEPT ![x][y] = l]]
    BY <1>3, <2>2, <2>3, <2>5 DEF WriteHit, WithLine
  <2>7. \A d \in Caches, s \in Sets, w \in Ways :
          lines'[d][s][w] = IF d = c /\ s = x /\ w = y THEN l ELSE lines[d][s][w]
    BY <1>1, <2>6
  <2> QED  BY <2>4, <2>7 DEF DragonInv, FramesValid
<1>4. ASSUME NEW m, SnoopAndFetch(m) PROVE FramesValid'
  BY <1>4, SnoopKeepsFramesValid DEF SnoopAndFetch, FramesValid, isCacheablePacket
<1>5. ASSUME NEW m, SnoopAndComplete(m) PROVE FramesValid'
  <2>1. NextMemReq(m) /\ isCacheablePacket(m.pkt)
    BY <1>5 DEF SnoopAndComplete
  <2>2. PICK c \in Caches, p \in Packet :
          c = m.from /\ p = requestPacket[c] /\ p.blk \in Cacheable /\ m.pkt.blk \in Cacheable
    BY <2>1, SnoopFinds DEF DragonInv
  <2>3. PICK wire : wire = WireAfterSnoop(m)
    OBVIOUS
  <2>4. PICK f : f = LinesWith(c, p.blk, FilledLine(c, p, m.pkt, wire))
    OBVIOUS
  <2>5. lines' = [LinesAfterSnoop(m) EXCEPT ![c] = f]
    BY <1>5, <2>2, <2>3, <2>4 DEF SnoopAndComplete
  <2>6. \A d \in Caches : lines'[d] = IF d = c THEN f ELSE LinesAfterSnoop(m)[d]
    BY <2>5 DEF LinesAfterSnoop
  <2> QED  BY <2>2, <2>4, <2>6, SnoopKeepsFramesValid, FillKeepsFramesValid DEF FramesValid
<1>6. ASSUME NEW m, NEW c \in Caches, MemResp(m, c) PROVE FramesValid'
  <2>1. PICK p \in Packet : p = requestPacket[c] /\ p.blk \in Cacheable
    BY <1>6, MemRespEnds DEF DragonInv
  <2>2. PICK f : f = LinesWith(c, p.blk, FilledLine(c, p, m.pkt, sharedWire))
    OBVIOUS
  <2>3. lines' = [lines EXCEPT ![c] = f]
    BY <1>6, <2>1, <2>2 DEF MemResp
  <2>4. \A d \in Caches : lines'[d] = IF d = c THEN f ELSE lines[d]
    BY <1>1, <2>3
  <2> QED  BY <2>1, <2>2, <2>4, FillKeepsFramesValid DEF DragonInv, FramesValid
<1>7. ASSUME UNCHANGED lines PROVE FramesValid'
  BY <1>7 DEF DragonInv, FramesValid
<1>8. ASSUME NEW c \in Caches, NEW p \in CpuPackets, BusRequest(c, p) PROVE UNCHANGED lines
  BY <1>8 DEF BusRequest, setVars
<1>9. ASSUME NEW c \in Caches, NEW op \in BusOps, BusGrant(c, op) PROVE UNCHANGED lines
  BY <1>9 DEF BusGrant, setVars
<1>10. BaseStep => UNCHANGED lines
  BY DEF BaseStep, setVars
<1> QED  BY <1>2, <1>3, <1>4, <1>5, <1>6, <1>7, <1>8, <1>9, <1>10 DEF SharedWriteNext


-----------------------------------------------------------------------------
(* What follows.                                                           *)

LEMMA DragonInvStep ==
  ASSUME DragonInv, [Next]_sharedVars
  PROVE  DragonInv' /\ [SharedWriteNext]_sharedVars
<1>1. CASE Next
  <2>1. SharedWriteNext /\ NeverInvalidates' /\ FramesValid'
    BY <1>1, DragonStepIsShared, FramesValidStep
  <2> QED  BY <2>1, SharedInvStep DEF DragonInv
<1>2. CASE UNCHANGED sharedVars
  <2>1. UNCHANGED lines /\ UNCHANGED currBusOp
    BY <1>2 DEF sharedVars, setVars, busVars
  <2> QED  BY <1>2, <2>1, SharedInvStep DEF DragonInv, FramesValid, NeverInvalidates, Invalidates
<1> QED  BY <1>1, <1>2

\* The inductive invariant of Dragon caches: that of caches that update or
\* invalidate, with no invalid copy and no invalidation on the bus.
THEOREM DragonInvariant == Spec => []DragonInv
<1>1. Init => DragonInv
  BY DragonInitValid, SharedInvInit DEF DragonInv, Init
<1>2. DragonInv /\ [Next]_sharedVars => DragonInv'
  BY DragonInvStep
<1> QED  BY <1>1, <1>2, PTL DEF Spec

\* Dragon caches do nothing that caches which choose freely between updating
\* and invalidating may not do: what they leave out of the snoop and the
\* response is never needed when nobody invalidates.
THEOREM DragonImplementsSharedWrite == Spec => ImplementsSharedWrite
<1>1. Init => SharedInit
  BY DEF Init
<1>2. DragonInv /\ [Next]_sharedVars => [SharedWriteNext]_sharedVars
  BY DragonInvStep
<1> QED  BY <1>1, <1>2, DragonInvariant, PTL DEF Spec, ImplementsSharedWrite, SharedWriteSpec

\* Dragon caches, the bus and memory together are one atomic memory to the
\* CPUs, although a write reaches the copies and its own cache in different
\* events.
THEOREM DragonImplementsAtomicMemory == Spec => ImplementsAtomicMemory
  BY DragonImplementsSharedWrite, SharedImplementsAtomicMemory, PTL DEF ImplementsSharedWrite

\* Dragon caches agree on every block, at most one of them owes it to memory,
\* memory is never forgotten, and the shared wire tells the truth, with any
\* number of caches.
THEOREM DragonCoherent ==
  Spec => [](CopiesAgree /\ SingleOwner /\ StaleMemoryHasDirtyCopy /\ WireTellsTruth)
<1>1. DragonInv => CopiesAgree /\ SingleOwner /\ StaleMemoryHasDirtyCopy /\ WireTellsTruth
  BY DEF DragonInv, SharedInv, CopiesInv, FlightInv
<1> QED  BY <1>1, DragonInvariant, PTL

\* The asserts of the Dragon handlers (dragon_cache.cc:142, 244, 336, 431-435,
\* 475, 581-582, 616, 627-628, 642): an update alone never meets an exclusive
\* copy, and whoever waits with a copy still has it at the grant, for no copy
\* in a Dragon cache is ever invalid.
THEOREM DragonHandlerAsserts == Spec => [](HandlerAsserts /\ FramesValid)
<1>1. DragonInv => FramesValid
  BY DEF DragonInv
<1> QED  BY <1>1, DragonImplementsSharedWrite, SharedHandlerAsserts, DragonInvariant, PTL
         DEF ImplementsSharedWrite
==============================================================================
