----------------------------- MODULE MesiProofs -----------------------------
(***************************************************************************)
(* MESI coherence, proved for any number of caches, sets, ways, blocks,    *)
(* words and values: a MESI cache is a restriction of the base class, at   *)
(* every instant a block has one writer or only current copies, and caches *)
(* and memory together are one atomic memory.                              *)
(***************************************************************************)
EXTENDS MesiCache, BaseProofs

\* DirtyIffModified at one cache.
FramesMarked(c) ==
  \A s \in Sets, w \in Ways :
    lines[c][s][w].dirty <=> lines[c][s][w].cohState = "Modified"

MesiCacheInv(c) == CacheInv(c, MesiState) /\ FramesMarked(c)

FramesInv == SetsTypeOK(MesiState) /\ \A c \in Caches : MesiCacheInv(c)

CopiesInv == SingleWriter /\ CleanCopiesCurrent

\* A cache that waits for the bus still needs it: snoops only take copies away.
WaitersNeedBus ==
  \A c \in Caches :
    Waiting(c) /\ isCacheablePacket(cpuPkt[c]) => NeedsBus(c, cpuPkt[c])

\* The wire is clear until the transaction's snoop.
WireClearBeforeSnoop ==
  InCacheableTransaction /\ memReqQueue # <<>> => ~sharedWire

\* A fetched block is still what memory holds when it arrives.
FetchStaysCurrent ==
  InCacheableTransaction =>
    \A m \in inMemory : m.answered => m.pkt.data = memory[m.pkt.blk]

FlightInv ==
  /\ WaitersNeedBus
  /\ MemRespAsserts
  /\ WireClearBeforeSnoop
  /\ SnoopStillHolds
  /\ FetchStaysCurrent

MesiInv == BaseInv /\ FramesInv /\ CopiesInv /\ FlightInv

-----------------------------------------------------------------------------
(* What a step does to one cache.                                          *)

\* The step leaves cache d's copy of x alone, up to its clock flag.
SameCopy(d, x) ==
  /\ isHit(d, x)' <=> isHit(d, x)
  /\ isHit(d, x) => /\ LineOf(d, x)'.cohState = LineOf(d, x).cohState
                    /\ LineOf(d, x)'.data = LineOf(d, x).data

\* Only the cache that holds the bus comes to own a block.
NewOwnersHoldBus ==
  \A d \in Caches, x \in Cacheable : Owns(d, x)' /\ ~Owns(d, x) => currentGranted = d

LEMMA UntouchedCache ==
  ASSUME NEW d, MesiCacheInv(d),
         lines'[d] = lines[d], tagMap'[d] = tagMap[d], clkPtr'[d] = clkPtr[d]
  PROVE  MesiCacheInv(d)' /\ \A x \in Cacheable : SameCopy(d, x)
<1>1. \A x : (Present(d, x)' <=> Present(d, x)) /\ LineOf(d, x)' = LineOf(d, x)
  BY DEF Present, LineOf
<1>2. CacheInv(d, MesiState)'
  BY <1>1 DEF MesiCacheInv, CacheInv, CacheTyped, MapAgrees, FillOrder, SetFull
<1>3. FramesMarked(d)'
  BY DEF MesiCacheInv, FramesMarked
<1>4. \A x \in Cacheable : SameCopy(d, x)
  BY <1>1 DEF SameCopy, isHit
<1> QED  BY <1>2, <1>3, <1>4 DEF MesiCacheInv

\* The line of a present block, in any cache.
LEMMA LineFacts ==
  ASSUME NEW c, NEW b \in Cacheable, MesiCacheInv(c), Present(c, b)
  PROVE  /\ LineOf(c, b) \in Frame(MesiState)
         /\ LineOf(c, b).valid /\ LineOf(c, b).tag = b
         /\ LineOf(c, b).dirty <=> LineOf(c, b).cohState = "Modified"
<1>1. SetOf[b] \in Sets /\ tagMap[c][b] \in Ways
  BY SetOfTyped DEF MesiCacheInv, CacheInv, CacheTyped, Present
<1> QED  BY <1>1 DEF MesiCacheInv, CacheInv, CacheTyped, MapAgrees, FramesMarked, LineOf

\* A line that replaces the line of its block.
LEMMA ReplacedCopy ==
  ASSUME NEW c, NEW b \in Cacheable, NEW l \in Frame(MesiState),
         MesiCacheInv(c), Present(c, b), l.tag = b, l.valid,
         l.dirty <=> l.cohState = "Modified",
         lines'[c] = WithLine(c, SetOf[b], tagMap[c][b], l),
         tagMap'[c] = tagMap[c], clkPtr'[c] = clkPtr[c]
  PROVE  /\ MesiCacheInv(c)'
         /\ isHit(c, b)' <=> l.cohState # "Invalid"
         /\ LineOf(c, b)' = l
         /\ \A x \in Cacheable \ {b} : SameCopy(c, x)
<1>1. CacheInv(c, MesiState)
  BY DEF MesiCacheInv
<1>2. /\ CacheInv(c, MesiState)'
      /\ \A x \in Cacheable : Present(c, x)' <=> Present(c, x)
      /\ LineOf(c, b)' = l
      /\ \A x \in Cacheable \ {b} : Present(c, x) => LineOf(c, x)' = LineOf(c, x)
      /\ \A s \in Sets, w \in Ways :
           lines'[c][s][w] = l \/ lines'[c][s][w] = lines[c][s][w]
  BY <1>1, LineReplaced
<1>3. FramesMarked(c)'
  BY <1>2 DEF MesiCacheInv, FramesMarked
<1>4. \A x \in Cacheable \ {b} : SameCopy(c, x)
  BY <1>2 DEF SameCopy, isHit
<1>5. isHit(c, b)' <=> l.cohState # "Invalid"
  BY <1>2 DEF isHit
<1> QED  BY <1>2, <1>3, <1>4, <1>5 DEF MesiCacheInv

\* A line that ends a transaction, with what was evicted for it.
LEMMA PlacedCopy ==
  ASSUME NEW c, NEW b \in Cacheable, NEW l \in Frame(MesiState),
         MesiCacheInv(c), l.tag = b, l.valid, l.dirty <=> l.cohState = "Modified",
         lines'[c] = LinesWith(c, b, l),
         tagMap'[c] = IF Present(c, b) THEN tagMap[c] ELSE TagMapAfterFill(c, b),
         clkPtr'[c] = IF Present(c, b) THEN clkPtr[c] ELSE ClkPtrAfterFill(c, b)
  PROVE  /\ MesiCacheInv(c)'
         /\ isHit(c, b)' <=> l.cohState # "Invalid"
         /\ LineOf(c, b)' = l
         /\ \A x \in Cacheable \ {b} :
              \/ SameCopy(c, x)
              \/ /\ ~isHit(c, x)'
                 /\ ~Present(c, b) /\ Evicts(c, b) /\ x = Victim(c, b).tag
<1>1. CASE Present(c, b)
  BY <1>1, ReplacedCopy DEF LinesWith
<1>2. CASE ~Present(c, b)
  <2>1. CacheInv(c, MesiState)
    BY DEF MesiCacheInv
  <2>2. /\ lines'[c] = LinesAfterFill(c, b, l)
        /\ tagMap'[c] = TagMapAfterFill(c, b) /\ clkPtr'[c] = ClkPtrAfterFill(c, b)
    BY <1>2 DEF LinesWith
  <2>3. /\ CacheInv(c, MesiState)'
        /\ Present(c, b)' /\ LineOf(c, b)' = l
        /\ \A x \in Cacheable \ {b} :
             /\ Present(c, x)' <=> Present(c, x) /\ ~(Evicts(c, b) /\ x = Victim(c, b).tag)
             /\ Present(c, x)' => SameButFlag(LineOf(c, x), LineOf(c, x)')
        /\ \A s \in Sets, w \in Ways :
             lines'[c][s][w] = l \/ SameButFlag(lines[c][s][w], lines'[c][s][w])
    BY <1>2, <2>1, <2>2, LineFilled
  <2>4. FramesMarked(c)'
    BY <2>3 DEF MesiCacheInv, FramesMarked, SameButFlag
  <2>5. ASSUME NEW x \in Cacheable \ {b}
        PROVE  \/ SameCopy(c, x)
               \/ ~isHit(c, x)' /\ Evicts(c, b) /\ x = Victim(c, b).tag
    <3>1. CASE Present(c, x)'
      BY <2>3, <3>1 DEF SameCopy, isHit, SameButFlag
    <3>2. CASE ~Present(c, x)'
      BY <2>3, <3>2 DEF SameCopy, isHit
    <3> QED  BY <3>1, <3>2
  <2>6. isHit(c, b)' <=> l.cohState # "Invalid"
    BY <2>3 DEF isHit
  <2> QED  BY <1>2, <2>3, <2>4, <2>5, <2>6 DEF MesiCacheInv
<1> QED  BY <1>1, <1>2

-----------------------------------------------------------------------------
(* What the snoop does to the caches that hear it, and to memory.          *)

LEMMA SnoopedCopy ==
  ASSUME FramesInv, NEW m \in MemReq, m.pkt.blk \in Cacheable,
         NEW d \in Caches \ {m.from}, lines'[d] = LinesAfterSnoop(m)[d],
         tagMap'[d] = tagMap[d], clkPtr'[d] = clkPtr[d]
  PROVE  /\ MesiCacheInv(d)'
         /\ \A x \in Cacheable \ {m.pkt.blk} : SameCopy(d, x)
         /\ isHit(d, m.pkt.blk)' <=> isHit(d, m.pkt.blk) /\ m.pkt.cmd = "Read"
         /\ isHit(d, m.pkt.blk)' =>
              /\ LineOf(d, m.pkt.blk)'.cohState = "Shared"
              /\ LineOf(d, m.pkt.blk)'.data = LineOf(d, m.pkt.blk).data
<1> DEFINE b == m.pkt.blk
           k == LineOf(d, b)
           l == SnoopedLine(k, m.pkt)
<1>1. MesiCacheInv(d)
  BY DEF FramesInv
<1>2. CASE d \in SnoopHits(m)
  <2>1. isHit(d, b) /\ Present(d, b)
    BY <1>2 DEF SnoopHits, isHit
  <2>2. /\ k \in Frame(MesiState) /\ k.valid /\ k.tag = b
        /\ k.dirty <=> k.cohState = "Modified"
    BY <1>1, <2>1, LineFacts
  <2>3. /\ l \in Frame(MesiState) /\ l.valid /\ l.tag = b
        /\ l.cohState = (IF m.pkt.cmd = "Read" THEN "Shared" ELSE "Invalid")
        /\ ~l.dirty /\ l.data = k.data
    <3> HIDE DEF k
    <3> QED  BY <2>2 DEF SnoopedLine, Frame, MesiState
  <2>4. lines'[d] = WithLine(d, SetOf[b], tagMap[d][b], l)
    BY <1>2 DEF LinesAfterSnoop
  <2>5. l.dirty <=> l.cohState = "Modified"
    BY <2>3
  <2> HIDE DEF l
  <2>6. /\ MesiCacheInv(d)'
        /\ isHit(d, b)' <=> l.cohState # "Invalid"
        /\ LineOf(d, b)' = l
        /\ \A x \in Cacheable \ {b} : SameCopy(d, x)
    BY <1>1, <2>1, <2>3, <2>4, <2>5, ReplacedCopy
  <2> QED  BY <2>1, <2>3, <2>6
<1>3. CASE d \notin SnoopHits(m)
  <2>1. ~isHit(d, b)
    BY <1>3 DEF SnoopHits
  <2>2. lines'[d] = lines[d]
    BY <1>3 DEF LinesAfterSnoop
  <2>3. MesiCacheInv(d)' /\ \A x \in Cacheable : SameCopy(d, x)
    BY <1>1, <2>2, UntouchedCache
  <2>4. ~isHit(d, b)'
    BY <2>1, <2>3 DEF SameCopy
  <2> QED  BY <2>1, <2>3, <2>4
<1> QED  BY <1>2, <1>3

\* Memory after the snoop: only the block can differ, the copies the others
\* keep are what it now holds, and it does not differ under the requester's
\* own clean copy.
LEMMA SnoopedMemory ==
  ASSUME FramesInv, CopiesInv, memory \in [Blocks -> [Words -> Values]],
         NEW m \in MemReq, m.pkt.blk \in Cacheable
  PROVE  /\ MemoryAfterSnoop(m) \in [Blocks -> [Words -> Values]]
         /\ \A x \in Blocks \ {m.pkt.blk} : MemoryAfterSnoop(m)[x] = memory[x]
         /\ \A d \in Caches \ {m.from} : isHit(d, m.pkt.blk) =>
              LineOf(d, m.pkt.blk).data = MemoryAfterSnoop(m)[m.pkt.blk]
<1> DEFINE b == m.pkt.blk
           F == {d \in SnoopHits(m) : LineOf(d, b).cohState = "Modified"}
           last == CHOOSE d \in F : \A e \in F : e <= d
<1>1. b \in Blocks /\ Caches \subseteq Nat
  BY BusAssumption
<1>2. CASE F = {}
  <2>1. MemoryAfterSnoop(m) = memory
    BY <1>2 DEF MemoryAfterSnoop
  <2>2. ASSUME NEW d \in Caches \ {m.from}, isHit(d, b) PROVE LineOf(d, b).data = memory[b]
    <3>1. d \in SnoopHits(m)
      BY <2>2 DEF SnoopHits
    <3>2. LineOf(d, b).cohState # "Modified"
      BY <1>2, <3>1
    <3> QED  BY <2>2, <3>2 DEF CopiesInv, CleanCopiesCurrent
  <2> QED  BY <2>1, <2>2
<1>3. CASE F # {}
  <2>1. PICK d \in F : TRUE
    BY <1>3
  <2>2. d \in Caches \ {m.from} /\ isHit(d, b) /\ Owns(d, b)
    BY <2>1 DEF SnoopHits, Owns
  <2>3. \A e \in Caches : isHit(e, b) => e = d
    BY <2>2 DEF CopiesInv, SingleWriter
  <2>4. F = {d}
    BY <2>1, <2>3 DEF SnoopHits
  <2>5. last = d
    <3> HIDE DEF F
    <3>1. \A e \in F : e <= d
      BY <1>1, <2>2, <2>4
    <3> QED  BY <2>4, <3>1
  <2>6. MemoryAfterSnoop(m) = [memory EXCEPT ![b] = LineOf(d, b).data]
    BY <1>3, <2>5 DEF MemoryAfterSnoop
  <2>7. LineOf(d, b).data \in [Words -> Values]
    BY <2>2, LineFacts DEF FramesInv, isHit, Frame
  <2> QED  BY <1>1, <2>3, <2>6, <2>7
<1> QED  BY <1>2, <1>3

\* A block in the requester's cache is clean after a snoop whenever no other
\* cache could be Modified.
LEMMA SnoopedMemoryOwn ==
  ASSUME CopiesInv, NEW m \in MemReq, m.from \in Caches, m.pkt.blk \in Cacheable,
         isHit(m.from, m.pkt.blk)
  PROVE  MemoryAfterSnoop(m) = memory
<1>1. {d \in SnoopHits(m) : LineOf(d, m.pkt.blk).cohState = "Modified"} = {}
  BY DEF SnoopHits, CopiesInv, SingleWriter, Owns
<1> QED  BY <1>1 DEF MemoryAfterSnoop

\* Evict writes at most the victim back, and the victim was the only copy.
LEMMA PlacedMemory ==
  ASSUME NEW c, NEW b \in Cacheable, MesiCacheInv(c),
         NEW mem \in [Blocks -> [Words -> Values]],
         tagMap'[c] = IF Present(c, b) THEN tagMap[c] ELSE TagMapAfterFill(c, b)
  PROVE  /\ MemoryAfterPlacing(c, b, mem) \in [Blocks -> [Words -> Values]]
         /\ MemoryAfterPlacing(c, b, mem)[b] = mem[b]
         /\ \A x \in Blocks : MemoryAfterPlacing(c, b, mem)[x] # mem[x] =>
              x \in Cacheable /\ Owns(c, x) /\ ~isHit(c, x)'
<1>1. CASE Present(c, b) \/ ~Evicts(c, b) \/ ~Victim(c, b).dirty
  BY <1>1 DEF MemoryAfterPlacing, MemoryAfterEvict
<1>2. CASE ~Present(c, b) /\ Evicts(c, b) /\ Victim(c, b).dirty
  <2>1. PICK x \in Cacheable :
          x = Victim(c, b).tag /\ Present(c, x) /\ LineOf(c, x) = Victim(c, b)
    BY <1>2, VictimFacts DEF MesiCacheInv
  <2>2. LineOf(c, x).data \in [Words -> Values] /\ LineOf(c, x).cohState = "Modified"
    BY <1>2, <2>1, LineFacts DEF Frame
  <2>3. MemoryAfterPlacing(c, b, mem) = [mem EXCEPT ![x] = LineOf(c, x).data]
    BY <1>2, <2>1 DEF MemoryAfterPlacing, MemoryAfterEvict
  <2>4. x # b /\ x \in Blocks
    BY <1>2, <2>1, BusAssumption
  <2>5. Owns(c, x)
    BY <2>1, <2>2 DEF Owns, isHit
  <2>6. ~isHit(c, x)'
    <3>1. tagMap'[c] = TagMapAfterFill(c, b)
      BY <1>2
    <3>2. TagMapAfterFill(c, b)[x] = NotExist
      BY <1>2, <2>1, <2>4 DEF TagMapAfterFill
    <3> QED  BY <3>1, <3>2 DEF isHit, Present
  <2>7. \A y \in Blocks : y # x => MemoryAfterPlacing(c, b, mem)[y] = mem[y]
    BY <2>3, <2>4
  <2>8. MemoryAfterPlacing(c, b, mem) \in [Blocks -> [Words -> Values]]
    BY <2>2, <2>3, <2>4
  <2>9. b \in Blocks
    BY BusAssumption
  <2> QED  BY <2>1, <2>4, <2>5, <2>6, <2>7, <2>8, <2>9
<1> QED  BY <1>1, <1>2

\* The victim's data are in memory once it is evicted.
LEMMA VictimWritten ==
  ASSUME NEW c, NEW b \in Cacheable, MesiCacheInv(c),
         NEW mem \in [Blocks -> [Words -> Values]],
         ~Present(c, b), Evicts(c, b), NEW x \in Cacheable, x = Victim(c, b).tag
  PROVE  MemoryAfterPlacing(c, b, mem)[x] =
           IF LineOf(c, x).dirty THEN LineOf(c, x).data ELSE mem[x]
<1>1. LineOf(c, x) = Victim(c, b)
  BY VictimFacts DEF MesiCacheInv
<1>2. x \in Blocks
  BY BusAssumption
<1> QED  BY <1>1, <1>2 DEF MemoryAfterPlacing, MemoryAfterEvict

-----------------------------------------------------------------------------
(* What a response puts in the line.                                       *)

LEMMA FilledLineFacts ==
  ASSUME NEW c, NEW p \in Packet, NEW r \in Packet, NEW wire \in BOOLEAN,
         MesiCacheInv(c), p.blk \in Cacheable, r.blk = p.blk,
         p.cmd = "Read" => ~isHit(c, p.blk)
  PROVE  /\ FilledLine(c, p, r, wire) \in Frame(MesiState)
         /\ FilledLine(c, p, r, wire).tag = p.blk
         /\ FilledLine(c, p, r, wire).valid
         /\ FilledLine(c, p, r, wire).dirty <=>
              FilledLine(c, p, r, wire).cohState = "Modified"
         /\ FilledLine(c, p, r, wire).cohState =
              IF p.cmd = "Read" THEN (IF wire THEN "Shared" ELSE "Exclusive")
                                ELSE "Modified"
         /\ FilledLine(c, p, r, wire).data =
              IF p.cmd = "Read" THEN FetchedData(c, r) ELSE WriteDataToBlock(p, FetchedData(c, r))
         /\ FetchedData(c, r) \in [Words -> Values]
         /\ r.cmd = "Read" /\ r.words = Words => FetchedData(c, r) = r.data
<1> DEFINE old == IF Present(c, p.blk) THEN LineOf(c, p.blk)
                  ELSE [EmptyFrame EXCEPT !.tag = p.blk, !.valid = TRUE]
           l == [old EXCEPT !.clkFlag = 1, !.data = FetchedData(c, r)]
<1>1. /\ old \in Frame(MesiState) /\ old.tag = p.blk /\ old.valid
      /\ old.dirty <=> old.cohState = "Modified"
  <2>1. CASE Present(c, p.blk)
    BY <2>1, LineFacts
  <2>2. CASE ~Present(c, p.blk)
    BY <2>2, EmptyBlockTyped DEF EmptyFrame, Frame, MesiState
  <2> QED  BY <2>1, <2>2
<1>2. p.cmd = "Read" => ~old.dirty
  <2>1. CASE Present(c, p.blk)
    BY <2>1, <1>1 DEF isHit
  <2>2. CASE ~Present(c, p.blk)
    BY <2>2 DEF EmptyFrame
  <2> QED  BY <2>1, <2>2
<1>3. /\ FetchedData(c, r) \in [Words -> Values]
      /\ r.cmd = "Read" /\ r.words = Words => FetchedData(c, r) = r.data
  <2> DEFINE block == IF Present(c, r.blk) THEN LineOf(c, r.blk).data ELSE EmptyBlock
  <2>1. block \in [Words -> Values]
    BY LineFacts, EmptyBlockTyped DEF Frame
  <2>2. FetchedData(c, r) = IF r.cmd = "Read" THEN WriteDataToBlock(r, block) ELSE block
    BY DEF FetchedData
  <2> HIDE DEF block
  <2>3. FetchedData(c, r) \in [Words -> Values]
    BY <2>1, <2>2, WriteDataTyped
  <2>4. r.data \in [Words -> Values]
    BY DEF Packet
  <2>5. r.words = Words => WriteDataToBlock(r, block) = r.data
    BY <2>4 DEF WriteDataToBlock
  <2> QED  BY <2>2, <2>3, <2>5
<1>4. /\ l \in Frame(MesiState) /\ l.tag = p.blk /\ l.valid /\ l.data = FetchedData(c, r)
      /\ l.dirty = old.dirty
  <2> HIDE DEF old
  <2> QED  BY <1>1, <1>3 DEF Frame
<1>5. FilledLine(c, p, r, wire) =
        IF p.cmd = "Read"
          THEN [l EXCEPT !.cohState = IF wire THEN "Shared" ELSE "Exclusive"]
          ELSE OwnedWrite(l, p)
  BY DEF FilledLine
<1> HIDE DEF l, old
<1>6. CASE p.cmd = "Read"
  BY <1>2, <1>3, <1>4, <1>5, <1>6 DEF Frame, MesiState
<1>7. CASE p.cmd # "Read"
  <2>1. WriteDataToBlock(p, l.data) \in [Words -> Values]
    BY <1>3, <1>4, WriteDataTyped
  <2>2. /\ OwnedWrite(l, p) \in Frame(MesiState)
        /\ OwnedWrite(l, p).tag = p.blk /\ OwnedWrite(l, p).valid
        /\ OwnedWrite(l, p).dirty /\ OwnedWrite(l, p).cohState = "Modified"
        /\ OwnedWrite(l, p).data = WriteDataToBlock(p, l.data)
    BY <1>4, <2>1 DEF OwnedWrite, Frame, MesiState
  <2> QED  BY <1>3, <1>4, <1>5, <1>7, <2>2
<1> QED  BY <1>6, <1>7

-----------------------------------------------------------------------------
(* Steps that touch no line.                                               *)

LEMMA QuietStep ==
  ASSUME FramesInv, CopiesInv, UNCHANGED setVars,
         \A x \in Cacheable : memory'[x] = memory[x]
  PROVE  /\ FramesInv' /\ CopiesInv' /\ NewOwnersHoldBus
         /\ \A d \in Caches, x \in Cacheable : SameCopy(d, x)
<1>1. UNCHANGED <<lines, tagMap, clkPtr>>
  BY DEF setVars
<1>2. \A d \in Caches : MesiCacheInv(d)' /\ \A x \in Cacheable : SameCopy(d, x)
  BY <1>1, UntouchedCache DEF FramesInv
<1>3. SetsTypeOK(MesiState)'
  BY <1>1 DEF FramesInv, SetsTypeOK
<1>4. \A d, x : /\ isHit(d, x)' <=> isHit(d, x)
                /\ LineOf(d, x)' = LineOf(d, x)
  BY <1>1 DEF isHit, Present, LineOf
<1>5. CopiesInv'
  BY <1>4 DEF CopiesInv, SingleWriter, CleanCopiesCurrent, Owns
<1>6. NewOwnersHoldBus
  BY <1>4 DEF NewOwnersHoldBus, Owns
<1> QED  BY <1>2, <1>3, <1>5, <1>6 DEF FramesInv

\* A step outside the transaction under way leaves what it relies on alone, if
\* it leaves the copies of its block alone (before the snoop, the granted
\* cache's copy is enough).
LEMMA WindowKept ==
  ASSUME BaseInv, FlightInv,
         UNCHANGED <<currentGranted, memReqQueue, sharedWire>>,
         blockedPacket' # NoPacket \/ inMemory' # {} => blockedPacket # NoPacket \/ inMemory # {},
         currentGranted # NoCache => cpuPkt'[currentGranted] = cpuPkt[currentGranted],
         InCacheableTransaction =>
           \A x \in Cacheable : x = CurrentPacket.blk =>
             \A d \in Caches : memReqQueue = <<>> \/ d = currentGranted => SameCopy(d, x)
  PROVE  MemRespAsserts' /\ WireClearBeforeSnoop' /\ SnoopStillHolds'
<1>1. InCacheableTransaction' <=> InCacheableTransaction
  BY DEF InCacheableTransaction, CurrentPacket
<1>2. CASE ~InCacheableTransaction
  BY <1>1, <1>2 DEF MemRespAsserts, WireClearBeforeSnoop, SnoopStillHolds
<1>3. CASE InCacheableTransaction
  <2>1. PICK g : g = currentGranted
    OBVIOUS
  <2>2. PICK p : p = cpuPkt[g]
    OBVIOUS
  <2>3. g \in Caches /\ p.blk \in Cacheable
    BY <1>3, <2>1, <2>2
       DEF InCacheableTransaction, CurrentPacket, isCacheablePacket, BaseInv, BaseTypeOK, BusTypeOK
  <2>4. PICK b \in Cacheable : b = p.blk
    BY <2>3
  <2>5. /\ currentGranted' = g /\ CurrentPacket = p /\ CurrentPacket' = p
    BY <1>3, <2>1, <2>2 DEF CurrentPacket, InCacheableTransaction
  <2>6. \A d \in Caches : memReqQueue = <<>> \/ d = g => SameCopy(d, b)
    BY <1>3, <2>1, <2>4, <2>5
  <2>7. \A d \in Caches : memReqQueue = <<>> \/ d = g =>
          /\ isHit(d, b)' <=> isHit(d, b)
          /\ isHit(d, b) => LineOf(d, b)'.cohState = LineOf(d, b).cohState
    BY <2>6 DEF SameCopy
  <2>8. MemRespAsserts'
    <3>1. /\ blockedPacket # NoPacket \/ inMemory # {} => ~isHit(g, b)
          /\ memReqQueue # <<>> =>
               IF Head(memReqQueue).toMem
                 THEN ~isHit(g, b)
                 ELSE /\ p.cmd = "Write"
                      /\ isHit(g, b) => LineOf(g, b).cohState = "Shared"
                      /\ FullBlock(p) \/ isHit(g, b)
      BY <1>3, <2>1, <2>4, <2>5 DEF FlightInv, MemRespAsserts
    <3>2. /\ blockedPacket' # NoPacket \/ inMemory' # {} => ~isHit(g, b)'
          /\ memReqQueue' # <<>> =>
               IF Head(memReqQueue').toMem
                 THEN ~isHit(g, b)'
                 ELSE /\ p.cmd = "Write"
                      /\ isHit(g, b)' => LineOf(g, b)'.cohState = "Shared"
                      /\ FullBlock(p) \/ isHit(g, b)'
      BY <2>3, <2>7, <3>1
    <3> QED  BY <2>4, <2>5, <3>2 DEF MemRespAsserts, isHit, Present, LineOf
  <2>9. WireClearBeforeSnoop'
    BY <1>1, <1>3 DEF FlightInv, WireClearBeforeSnoop
  <2>10. SnoopStillHolds'
    <3> SUFFICES ASSUME memReqQueue = <<>> PROVE SnoopStillHolds'
      BY DEF SnoopStillHolds
    <3> DEFINE O == {d \in Caches \ {g} : isHit(d, b)}
               O2 == {d \in Caches \ {g} : isHit(d, b)'}
    <3>1. IF p.cmd = "Write" THEN O = {}
          ELSE (\A d \in O : ~Owns(d, b)) /\ (sharedWire <=> O # {})
      BY <1>3, <2>1, <2>4, <2>5 DEF FlightInv, SnoopStillHolds
    <3>2. O2 = O
      BY <2>7
    <3>3. \A d \in O : Owns(d, b)' <=> Owns(d, b)
      BY <2>7 DEF Owns
    <3>4. IF p.cmd = "Write" THEN O2 = {}
          ELSE (\A d \in O2 : ~Owns(d, b)') /\ (sharedWire' <=> O2 # {})
      <4> HIDE DEF O, O2
      <4> QED  BY <3>1, <3>2, <3>3
    <3> QED  BY <2>4, <2>5, <3>4 DEF SnoopStillHolds, Owns, isHit, Present, LineOf
  <2> QED  BY <2>8, <2>9, <2>10
<1> QED  BY <1>2, <1>3

\* The same, for a step that leaves the memory side of the bus alone.
LEMMA FlightKept ==
  ASSUME BaseInv, FlightInv,
         UNCHANGED <<currentGranted, memReqQueue, blockedPacket, inMemory, sharedWire>>,
         \A x \in Cacheable : memory'[x] = memory[x],
         currentGranted # NoCache => cpuPkt'[currentGranted] = cpuPkt[currentGranted],
         InCacheableTransaction =>
           \A x \in Cacheable : x = CurrentPacket.blk =>
             \A d \in Caches : memReqQueue = <<>> \/ d = currentGranted => SameCopy(d, x)
  PROVE  MemRespAsserts' /\ WireClearBeforeSnoop' /\ SnoopStillHolds' /\ FetchStaysCurrent'
<1>1. InCacheableTransaction' <=> InCacheableTransaction
  BY DEF InCacheableTransaction, CurrentPacket
<1>2. ASSUME InCacheableTransaction, NEW m \in inMemory PROVE m.pkt.blk \in Cacheable
  <2>1. m.pkt.blk = CurrentPacket.blk
    BY <1>2 DEF BaseInv, TransactionMatches, InCacheableTransaction, CurrentPacket,
       isCacheablePacket, generateAlignAccess
  <2> QED  BY <1>2, <2>1 DEF InCacheableTransaction, isCacheablePacket
<1>3. FetchStaysCurrent'
  BY <1>1, <1>2 DEF FlightInv, FetchStaysCurrent
<1> QED  BY <1>3, WindowKept

\* A cache that waits goes on needing the bus if its copies are at most taken
\* away or downgraded.
LEMMA WaitersStillNeed ==
  ASSUME WaitersNeedBus,
         \A d \in Caches : Waiting(d)' => Waiting(d) /\ cpuPkt'[d] = cpuPkt[d],
         \A d \in Caches, x \in Cacheable : Waiting(d) /\ isHit(d, x)' =>
           /\ isHit(d, x)
           /\ LineOf(d, x)'.cohState \in {"Shared", LineOf(d, x).cohState}
  PROVE  WaitersNeedBus'
<1> SUFFICES ASSUME NEW d \in Caches, Waiting(d)', isCacheablePacket(cpuPkt[d])'
             PROVE  NeedsBus(d, cpuPkt[d])'
  BY DEF WaitersNeedBus
<1>1. PICK p : p = cpuPkt[d] /\ p = cpuPkt'[d]
  OBVIOUS
<1>2. PICK x \in Cacheable : x = p.blk
  BY <1>1 DEF isCacheablePacket
<1>3. Waiting(d) /\ NeedsBus(d, p)
  BY <1>1, <1>2 DEF WaitersNeedBus, isCacheablePacket
<1>4. isHit(d, x)' => p.cmd = "Write" /\ LineOf(d, x)'.cohState = "Shared"
  BY <1>2, <1>3 DEF NeedsBus, WritesSilently
<1> QED  BY <1>1, <1>2, <1>4 DEF NeedsBus, WritesSilently, isHit, Present, LineOf

-----------------------------------------------------------------------------
(* Requests of the CPU.                                                    *)

\* A hit rewrites one line: with the same contents, or with any by its owner.
LEMMA HitStep ==
  ASSUME MesiInv, NEW c \in Caches, NEW p \in CpuPackets, NEW r, AnswerAtOnce(c, p, r),
         NEW b \in Cacheable, isHit(c, b), NEW l \in Frame(MesiState),
         l.tag = b, l.valid, l.dirty <=> l.cohState = "Modified",
         \/ l.cohState = LineOf(c, b).cohState /\ l.data = LineOf(c, b).data
         \/ Owns(c, b) /\ l.cohState = "Modified",
         lines' = [lines EXCEPT ![c] = WithLine(c, SetOf[b], tagMap[c][b], l)],
         UNCHANGED <<memory, tagMap, clkPtr>>
  PROVE  FramesInv' /\ CopiesInv' /\ FlightInv' /\ NewOwnersHoldBus
<1> DEFINE sameLine == l.cohState = LineOf(c, b).cohState /\ l.data = LineOf(c, b).data
<1>1. /\ UNCHANGED <<busRequestQueue, currentGranted, memReqQueue, blockedPacket,
                     inMemory, sharedWire>>
      /\ \A d \in Caches \ {c} : cpuPkt'[d] = cpuPkt[d]
      /\ ~blocked[c]
  BY DEF AnswerAtOnce, AcceptFromCpu, busVars, arbiterVars, memPortVars,
     MesiInv, BaseInv, BaseTypeOK
<1>2. ~Waiting(c) /\ currentGranted # c
  BY <1>1 DEF MesiInv, BaseInv, BlockedAccounted
<1>3. lines \in [Caches -> [Sets -> [Ways -> Frame(MesiState)]]]
  BY DEF MesiInv, FramesInv, SetsTypeOK
<1>4. /\ lines'[c] = WithLine(c, SetOf[b], tagMap[c][b], l)
      /\ \A d \in Caches \ {c} : lines'[d] = lines[d]
  BY <1>3
<1>5. /\ MesiCacheInv(c)'
      /\ isHit(c, b)' <=> l.cohState # "Invalid"
      /\ LineOf(c, b)' = l
      /\ \A x \in Cacheable \ {b} : SameCopy(c, x)
  <2>1. MesiCacheInv(c) /\ Present(c, b)
    BY DEF MesiInv, FramesInv, isHit
  <2> QED  BY <1>4, <2>1, ReplacedCopy
<1>6. \A d \in Caches \ {c} : MesiCacheInv(d)' /\ \A x \in Cacheable : SameCopy(d, x)
  BY <1>4, UntouchedCache DEF MesiInv, FramesInv
<1>7. isHit(c, b)' /\ (sameLine => SameCopy(c, b))
  BY <1>5 DEF isHit, SameCopy
<1>8. FramesInv'
  <2>1. \A d \in Caches : CacheTyped(d, MesiState)'
    BY <1>5, <1>6 DEF MesiCacheInv, CacheInv
  <2>2. lines' \in [Caches -> [Sets -> [Ways -> Frame(MesiState)]]]
    BY <1>3, <2>1 DEF CacheTyped
  <2>3. SetsTypeOK(MesiState)'
    BY <2>2 DEF MesiInv, FramesInv, SetsTypeOK
  <2> QED  BY <1>5, <1>6, <2>3 DEF FramesInv
<1>9. \A d \in Caches, x \in Cacheable :
        /\ isHit(d, x)' <=> isHit(d, x)
        /\ d # c \/ x # b => SameCopy(d, x)
  BY <1>5, <1>6, <1>7 DEF SameCopy
<1>10. \A d \in Caches, x \in Cacheable : Owns(d, x)' => Owns(d, x)
  <2>1. \A d \in Caches, x \in Cacheable : d # c \/ x # b => (Owns(d, x)' => Owns(d, x))
    BY <1>9 DEF SameCopy, Owns
  <2>2. Owns(c, b)' => Owns(c, b)
    BY <1>5 DEF Owns
  <2> QED  BY <2>1, <2>2
<1>11. CopiesInv'
  <2>1. SingleWriter'
    BY <1>9, <1>10 DEF MesiInv, CopiesInv, SingleWriter
  <2>2. ASSUME NEW d \in Caches, NEW x \in Cacheable, isHit(d, x)',
               LineOf(d, x)'.cohState # "Modified"
        PROVE  LineOf(d, x)'.data = memory'[x]
    <3>1. SameCopy(d, x)
      BY <1>5, <1>7, <1>9, <2>2
    <3> QED  BY <2>2, <3>1 DEF SameCopy, MesiInv, CopiesInv, CleanCopiesCurrent
  <2> QED  BY <2>1, <2>2 DEF CopiesInv, CleanCopiesCurrent
<1>12. ASSUME InCacheableTransaction, NEW x \in Cacheable, x = CurrentPacket.blk,
              NEW d \in Caches, memReqQueue = <<>> \/ d = currentGranted
       PROVE  SameCopy(d, x)
  <2>1. CASE d # c \/ x # b
    BY <1>9, <2>1
  <2>2. CASE d = c /\ x = b
    <3>1. memReqQueue = <<>>
      BY <1>2, <1>12, <2>2
    <3>2. c \in {e \in Caches \ {currentGranted} : isHit(e, CurrentPacket.blk)}
      BY <1>2, <1>12, <2>2
    <3>3. ~Owns(c, b)
      BY <1>12, <2>2, <3>1, <3>2 DEF MesiInv, FlightInv, SnoopStillHolds
    <3> QED  BY <1>7, <2>2, <3>3
  <2> QED  BY <2>1, <2>2
<1>13. MemRespAsserts' /\ WireClearBeforeSnoop' /\ SnoopStillHolds' /\ FetchStaysCurrent'
  <2>1. currentGranted # NoCache => cpuPkt'[currentGranted] = cpuPkt[currentGranted]
    BY <1>1, <1>2 DEF MesiInv, BaseInv, BaseTypeOK, BusTypeOK
  <2> QED  BY <1>1, <1>12, <2>1, FlightKept DEF MesiInv
<1>14. WaitersNeedBus'
  <2>1. \A d \in Caches : Waiting(d)' => Waiting(d) /\ cpuPkt'[d] = cpuPkt[d]
    BY <1>1, <1>2 DEF Waiting
  <2>2. \A d \in Caches, x \in Cacheable : Waiting(d) /\ isHit(d, x)' =>
          isHit(d, x) /\ LineOf(d, x)'.cohState \in {"Shared", LineOf(d, x).cohState}
    BY <1>2, <1>6 DEF SameCopy
  <2> QED  BY <2>1, <2>2, WaitersStillNeed DEF MesiInv, FlightInv
<1> QED  BY <1>8, <1>10, <1>11, <1>13, <1>14 DEF FlightInv, NewOwnersHoldBus

LEMMA ReadHitStep ==
  ASSUME MesiInv, NEW c \in Caches, NEW p \in CpuPackets, ReadHit(c, p)
  PROVE  FramesInv' /\ CopiesInv' /\ FlightInv' /\ NewOwnersHoldBus
<1> DEFINE k == LineOf(c, p.blk)
           l == [k EXCEPT !.clkFlag = 1]
<1>1. /\ p.blk \in Cacheable /\ isHit(c, p.blk)
      /\ AnswerAtOnce(c, p, SetDataFromBlock(p, k.data))
      /\ lines' = [lines EXCEPT ![c][SetOf[p.blk]][tagMap[c][p.blk]].clkFlag = 1]
      /\ UNCHANGED <<memory, tagMap, clkPtr>>
  BY DEF ReadHit, isCacheablePacket
<1>2. k \in Frame(MesiState) /\ k.valid /\ k.tag = p.blk
      /\ (k.dirty <=> k.cohState = "Modified")
  BY <1>1, LineFacts DEF MesiInv, FramesInv, isHit
<1>3. /\ l \in Frame(MesiState) /\ l.valid /\ l.tag = p.blk
      /\ (l.dirty <=> l.cohState = "Modified")
      /\ l.cohState = k.cohState /\ l.data = k.data
  <2> HIDE DEF k
  <2> QED  BY <1>2 DEF Frame
<1>4. lines' = [lines EXCEPT ![c] = WithLine(c, SetOf[p.blk], tagMap[c][p.blk], l)]
  BY <1>1 DEF WithLine, LineOf
<1> HIDE DEF l
<1> QED  BY <1>1, <1>3, <1>4, HitStep

LEMMA WriteHitStep ==
  ASSUME MesiInv, NEW c \in Caches, NEW p \in CpuPackets, WriteHit(c, p)
  PROVE  FramesInv' /\ CopiesInv' /\ FlightInv' /\ NewOwnersHoldBus
<1> DEFINE k == LineOf(c, p.blk)
           l == OwnedWrite(k, p)
<1>1. /\ p.blk \in Cacheable /\ isHit(c, p.blk) /\ k.cohState # "Shared"
      /\ AnswerAtOnce(c, p, p)
      /\ lines' = [lines EXCEPT ![c] = WithLine(c, SetOf[p.blk], tagMap[c][p.blk], l)]
      /\ UNCHANGED <<memory, tagMap, clkPtr>>
  BY DEF WriteHit, isCacheablePacket, WritesSilently
<1>2. k \in Frame(MesiState) /\ k.valid /\ k.tag = p.blk
  BY <1>1, LineFacts DEF MesiInv, FramesInv, isHit
<1>3. WriteDataToBlock(p, k.data) \in [Words -> Values]
  BY <1>2, CpuPacketsTyped, WriteDataTyped DEF Frame
<1>4. /\ l \in Frame(MesiState) /\ l.valid /\ l.tag = p.blk
      /\ l.dirty /\ l.cohState = "Modified"
  <2> HIDE DEF k
  <2> QED  BY <1>2, <1>3 DEF OwnedWrite, Frame, MesiState
<1>5. Owns(c, p.blk)
  BY <1>1, <1>2 DEF Owns, isHit, Frame, MesiState
<1> HIDE DEF l
<1> QED  BY <1>1, <1>4, <1>5, HitStep

\* A request that waits for the bus touches no line.
LEMMA WaitStep ==
  ASSUME MesiInv, NEW c \in Caches, NEW p \in CpuPackets, WaitForBus(c, p),
         isCacheablePacket(p) => NeedsBus(c, p),
         UNCHANGED <<memory, setVars>>
  PROVE  FramesInv' /\ CopiesInv' /\ FlightInv' /\ NewOwnersHoldBus
<1>1. /\ cpuPkt[c] = NoPacket /\ ~blocked[c]
      /\ cpuPkt' = [cpuPkt EXCEPT ![c] = p]
      /\ blocked' = [blocked EXCEPT ![c] = TRUE]
      /\ Request(c)
      /\ UNCHANGED <<currentGranted, memReqQueue, sharedWire, blockedPacket, inMemory>>
  BY DEF WaitForBus, AcceptFromCpu, Request, memPortVars
<1>2. ~Waiting(c) /\ currentGranted # c
  BY <1>1 DEF MesiInv, BaseInv, BlockedAccounted
<1>3. \A d \in Caches : Waiting(d)' <=> Waiting(d) \/ d = c
  BY <1>1, RequestMoves DEF MesiInv, BaseInv, BaseTypeOK, BusTypeOK, ArbiterTypes
<1>4. /\ FramesInv' /\ CopiesInv' /\ NewOwnersHoldBus
      /\ \A d \in Caches, x \in Cacheable : SameCopy(d, x)
  BY QuietStep DEF MesiInv
<1>5. cpuPkt'[c] = p /\ \A d \in Caches \ {c} : cpuPkt'[d] = cpuPkt[d]
  BY <1>1 DEF MesiInv, BaseInv, BaseTypeOK
<1>6. MemRespAsserts' /\ WireClearBeforeSnoop' /\ SnoopStillHolds' /\ FetchStaysCurrent'
  <2>1. currentGranted # NoCache => cpuPkt'[currentGranted] = cpuPkt[currentGranted]
    BY <1>2, <1>5 DEF MesiInv, BaseInv, BaseTypeOK, BusTypeOK
  <2> QED  BY <1>1, <1>4, <2>1, FlightKept DEF MesiInv
<1>7. \A d \in Caches : \A x : NeedsBus(d, x)' <=> NeedsBus(d, x)
  BY DEF NeedsBus, isHit, Present, LineOf, setVars
<1>8. WaitersNeedBus'
  <2> SUFFICES ASSUME NEW d \in Caches, Waiting(d)', isCacheablePacket(cpuPkt[d])'
               PROVE  NeedsBus(d, cpuPkt[d])'
    BY DEF WaitersNeedBus
  <2>1. PICK q : q = cpuPkt'[d]
    OBVIOUS
  <2>2. NeedsBus(d, q)
    <3>1. CASE d = c
      BY <1>5, <2>1, <3>1 DEF isCacheablePacket
    <3>2. CASE d # c
      BY <1>3, <1>5, <2>1, <3>2 DEF MesiInv, FlightInv, WaitersNeedBus, isCacheablePacket
    <3> QED  BY <3>1, <3>2
  <2>3. NeedsBus(d, q)'
    BY <1>7, <2>2
  <2> QED  BY <2>1, <2>3 DEF NeedsBus, isHit, Present, LineOf
<1> QED  BY <1>4, <1>6, <1>8 DEF FlightInv

LEMMA ProcessCpuRespMesi ==
  ASSUME MesiInv, NEW c \in Caches, ProcessCpuResp(c), UNCHANGED setVars
  PROVE  FramesInv' /\ CopiesInv' /\ FlightInv' /\ NewOwnersHoldBus
<1>1. /\ cpuRespQueue[c] # <<>>
      /\ \A d \in Caches \ {c} : cpuPkt'[d] = cpuPkt[d]
      /\ UNCHANGED <<busRequestQueue, currentGranted, memReqQueue, sharedWire,
                     blockedPacket, inMemory, memory>>
  BY DEF ProcessCpuResp, busVars, arbiterVars, memPortVars, MesiInv, BaseInv, BaseTypeOK
<1>2. ~Waiting(c) /\ currentGranted # c
  BY <1>1 DEF MesiInv, BaseInv, ResponseAccounted, BlockedAccounted
<1>3. /\ FramesInv' /\ CopiesInv' /\ NewOwnersHoldBus
      /\ \A d \in Caches, x \in Cacheable : SameCopy(d, x)
  BY <1>1, QuietStep DEF MesiInv
<1>4. MemRespAsserts' /\ WireClearBeforeSnoop' /\ SnoopStillHolds' /\ FetchStaysCurrent'
  <2>1. currentGranted # NoCache => cpuPkt'[currentGranted] = cpuPkt[currentGranted]
    BY <1>1, <1>2 DEF MesiInv, BaseInv, BaseTypeOK, BusTypeOK
  <2> QED  BY <1>1, <1>3, <2>1, FlightKept DEF MesiInv
<1>5. WaitersNeedBus'
  <2>1. \A d \in Caches : Waiting(d)' => Waiting(d) /\ cpuPkt'[d] = cpuPkt[d]
    BY <1>1, <1>2 DEF Waiting
  <2>2. \A d \in Caches, x \in Cacheable : Waiting(d) /\ isHit(d, x)' =>
          isHit(d, x) /\ LineOf(d, x)'.cohState \in {"Shared", LineOf(d, x).cohState}
    BY <1>3 DEF SameCopy
  <2> QED  BY <2>1, <2>2, WaitersStillNeed DEF MesiInv, FlightInv
<1> QED  BY <1>3, <1>4, <1>5 DEF FlightInv

-----------------------------------------------------------------------------
(* Grants.                                                                 *)

\* A grant touches no line, and starts a transaction whose cache still needs it.
LEMMA GrantMesi ==
  ASSUME MesiInv, NEW c \in Caches, GrantNext(c), NEW toMem, NEW op,
         sendMemReq(requestPacket[c], toMem, op, c),
         LET p == requestPacket[c] IN isCacheablePacket(p) =>
           sharedWire' = FALSE /\ toMem = NeedsMemory(c, p),
         UNCHANGED <<cpuPkt, memPortVars, memory, setVars>>
  PROVE  FramesInv' /\ CopiesInv' /\ FlightInv' /\ NewOwnersHoldBus
<1>1. /\ memReqQueue = <<>> /\ blockedPacket = NoPacket /\ inMemory = {}
      /\ currentGranted = NoCache /\ currentGranted' = c
      /\ Waiting(c) /\ requestPacket[c] = cpuPkt[c] /\ cpuPkt[c] \in Packet
  BY GrantFinds DEF MesiInv, Idle, GrantNext
<1>2. PICK p \in Packet : p = cpuPkt[c]
  BY <1>1
<1>3. /\ memReqQueue' # <<>> /\ Head(memReqQueue').toMem = toMem
      /\ blockedPacket' = NoPacket /\ inMemory' = {}
      /\ cpuPkt' = cpuPkt
  BY <1>1 DEF sendMemReq, memPortVars
<1>4. /\ FramesInv' /\ CopiesInv' /\ NewOwnersHoldBus
      /\ \A d \in Caches, x \in Cacheable : SameCopy(d, x)
  BY QuietStep DEF MesiInv
<1>5. WaitersNeedBus'
  <2>1. \A d \in Caches : Waiting(d)' => Waiting(d)
    BY TailElements DEF GrantNext, Waiting, MesiInv, BaseInv, BaseTypeOK, BusTypeOK
  <2>2. \A d \in Caches, x \in Cacheable : Waiting(d) /\ isHit(d, x)' =>
          isHit(d, x) /\ LineOf(d, x)'.cohState \in {"Shared", LineOf(d, x).cohState}
    BY <1>4 DEF SameCopy
  <2> QED  BY <1>3, <2>1, <2>2, WaitersStillNeed DEF MesiInv, FlightInv
<1>6. CASE ~isCacheablePacket(p)
  <2>1. ~InCacheableTransaction'
    BY <1>1, <1>2, <1>3, <1>6 DEF InCacheableTransaction, CurrentPacket, isCacheablePacket
  <2> QED  BY <1>4, <1>5, <2>1 DEF FlightInv, MemRespAsserts, WireClearBeforeSnoop,
              SnoopStillHolds, FetchStaysCurrent
<1>7. CASE isCacheablePacket(p)
  <2>1. CurrentPacket' = p /\ sharedWire' = FALSE /\ toMem = NeedsMemory(c, p)
    BY <1>1, <1>2, <1>3, <1>7 DEF CurrentPacket
  <2>2. PICK b \in Cacheable : b = p.blk
    BY <1>7 DEF isCacheablePacket
  <2>3. isHit(c, b) => p.cmd = "Write" /\ LineOf(c, b).cohState = "Shared"
    BY <1>1, <1>2, <1>7, <2>2
       DEF MesiInv, FlightInv, WaitersNeedBus, NeedsBus, WritesSilently
  <2>4. SameCopy(c, b)
    BY <1>4, <2>2
  <2>5. MemRespAsserts'
    <3>1. IF toMem
            THEN ~isHit(c, b)'
            ELSE /\ p.cmd = "Write"
                 /\ isHit(c, b)' => LineOf(c, b)'.cohState = "Shared"
                 /\ FullBlock(p) \/ isHit(c, b)'
      BY <2>1, <2>2, <2>3, <2>4 DEF SameCopy, NeedsMemory, Packet
    <3> QED  BY <1>1, <1>3, <2>1, <2>2, <3>1 DEF MemRespAsserts, isHit, Present, LineOf
  <2>6. WireClearBeforeSnoop' /\ SnoopStillHolds' /\ FetchStaysCurrent'
    BY <1>3, <2>1 DEF WireClearBeforeSnoop, SnoopStillHolds, FetchStaysCurrent
  <2> QED  BY <1>4, <1>5, <2>5, <2>6 DEF FlightInv
<1> QED  BY <1>6, <1>7

-----------------------------------------------------------------------------
(* Steps of the memory side and of packets outside the cacheable range.    *)

\* Waiting caches are not disturbed by a step that touches no line.
LEMMA QuietWaiters ==
  ASSUME MesiInv, \A d \in Caches, x \in Cacheable : SameCopy(d, x),
         \A d \in Caches : Waiting(d)' => Waiting(d) /\ cpuPkt'[d] = cpuPkt[d]
  PROVE  WaitersNeedBus'
<1>1. \A d \in Caches, x \in Cacheable : Waiting(d) /\ isHit(d, x)' =>
        isHit(d, x) /\ LineOf(d, x)'.cohState \in {"Shared", LineOf(d, x).cohState}
  BY DEF SameCopy
<1> QED  BY <1>1, WaitersStillNeed DEF MesiInv, FlightInv

\* A step that touches no line and leaves no cacheable transaction.
LEMMA OutsideStep ==
  ASSUME MesiInv, UNCHANGED setVars, \A x \in Cacheable : memory'[x] = memory[x],
         \A d \in Caches : Waiting(d)' => Waiting(d) /\ cpuPkt'[d] = cpuPkt[d],
         ~InCacheableTransaction'
  PROVE  FramesInv' /\ CopiesInv' /\ FlightInv' /\ NewOwnersHoldBus
<1>1. /\ FramesInv' /\ CopiesInv' /\ NewOwnersHoldBus
      /\ \A d \in Caches, x \in Cacheable : SameCopy(d, x)
  BY QuietStep DEF MesiInv
<1>2. WaitersNeedBus'
  BY <1>1, QuietWaiters
<1> QED  BY <1>1, <1>2 DEF FlightInv, MemRespAsserts, WireClearBeforeSnoop,
            SnoopStillHolds, FetchStaysCurrent

LEMMA IdleGrantMesi ==
  ASSUME MesiInv, IdleGrant, UNCHANGED setVars
  PROVE  FramesInv' /\ CopiesInv' /\ FlightInv' /\ NewOwnersHoldBus
<1>1. /\ currentGranted' = NoCache
      /\ UNCHANGED <<busRequestQueue, cpuPkt, memory>>
  BY DEF IdleGrant, GrantNobody, cpuSideVars
<1>2. ~InCacheableTransaction' /\ \A d \in Caches : Waiting(d)' => Waiting(d)
  BY <1>1 DEF InCacheableTransaction, Waiting
<1> QED  BY <1>1, <1>2, OutsideStep

LEMMA UncachedForwardMesi ==
  ASSUME MesiInv, NEW m, UncachedForward(m), UNCHANGED setVars
  PROVE  FramesInv' /\ CopiesInv' /\ FlightInv' /\ NewOwnersHoldBus
<1>1. /\ m.from = currentGranted /\ m.pkt = cpuPkt[m.from] /\ ~isCacheablePacket(m.pkt)
      /\ UNCHANGED <<busRequestQueue, currentGranted, cpuPkt, memory>>
  BY QueuedFacts DEF UncachedForward, MesiInv, cpuSideVars, arbiterVars
<1>2. ~InCacheableTransaction' /\ \A d \in Caches : Waiting(d)' => Waiting(d)
  BY <1>1 DEF InCacheableTransaction, CurrentPacket, Waiting, isCacheablePacket
<1> QED  BY <1>1, <1>2, OutsideStep

LEMMA UncachedResponseMesi ==
  ASSUME MesiInv, NEW m, NEW c \in Caches, UncachedResponse(m, c), UNCHANGED setVars
  PROVE  FramesInv' /\ CopiesInv' /\ FlightInv' /\ NewOwnersHoldBus
<1>1. /\ currentGranted = c /\ currentGranted' = NoCache
      /\ UNCHANGED <<busRequestQueue, memory>>
      /\ \A d \in Caches \ {c} : cpuPkt'[d] = cpuPkt[d]
  BY AnsweredFacts DEF UncachedResponse, Release, MesiInv, BaseInv, BaseTypeOK
<1>2. ~Waiting(c)
  BY <1>1, NobodyIsNoCache DEF MesiInv, BaseInv, BlockedAccounted
<1>3. /\ ~InCacheableTransaction'
      /\ \A d \in Caches : Waiting(d)' => Waiting(d) /\ cpuPkt'[d] = cpuPkt[d]
  BY <1>1, <1>2 DEF InCacheableTransaction, Waiting
<1> QED  BY <1>1, <1>3, OutsideStep

LEMMA RetryMesi ==
  ASSUME MesiInv, RecvReqRetry, UNCHANGED <<cpuSideVars, setVars>>
  PROVE  FramesInv' /\ CopiesInv' /\ FlightInv' /\ NewOwnersHoldBus
<1>1. /\ blockedPacket # NoPacket /\ blockedPacket' = NoPacket
      /\ UNCHANGED <<busRequestQueue, currentGranted, memReqQueue, sharedWire, cpuPkt, memory>>
      /\ inMemory' = Accept(blockedPacket)
  BY DEF RecvReqRetry, arbiterVars, cpuSideVars
<1>2. /\ FramesInv' /\ CopiesInv' /\ NewOwnersHoldBus
      /\ \A d \in Caches, x \in Cacheable : SameCopy(d, x)
  BY <1>1, QuietStep DEF MesiInv
<1>3. WaitersNeedBus'
  BY <1>1, <1>2, QuietWaiters DEF Waiting
<1>4. MemRespAsserts' /\ WireClearBeforeSnoop' /\ SnoopStillHolds'
  BY <1>1, <1>2, WindowKept DEF MesiInv
<1>5. FetchStaysCurrent'
  <2>1. inMemory = {}
    BY <1>1 DEF MesiInv, BaseInv, TransactionShape, Idle, Queued, Refused, AtMemory
  <2>2. \A m \in inMemory' : ~m.answered
    BY <1>1, <2>1 DEF Accept
  <2> QED  BY <2>2 DEF FetchStaysCurrent
<1> QED  BY <1>2, <1>3, <1>4, <1>5 DEF FlightInv

\* Memory performs a packet: an aligned read if the block is cacheable.
LEMMA MemAccessMesi ==
  ASSUME MesiInv, NEW m, MemAccess(m), UNCHANGED <<cpuSideVars, setVars>>
  PROVE  FramesInv' /\ CopiesInv' /\ FlightInv' /\ NewOwnersHoldBus
<1>1. /\ m \in inMemory /\ ~m.answered
      /\ UNCHANGED <<busRequestQueue, currentGranted, memReqQueue, sharedWire,
                     blockedPacket, cpuPkt>>
  BY DEF MemAccess, arbiterVars, cpuSideVars
<1>2. inMemory = {m} /\ m \in MemEntry /\ currentGranted \in Caches
  <2>1. AtMemory /\ currentGranted # NoCache
    BY <1>1 DEF MesiInv, BaseInv, TransactionShape, Idle, Queued, Refused, AtMemory
  <2> QED  BY <1>1, <2>1 DEF AtMemory, MesiInv, BaseInv, BaseTypeOK, BusTypeOK
<1>3. PICK p : p = cpuPkt[currentGranted]
  OBVIOUS
<1>4. /\ m.pkt.blk = p.blk
      /\ isCacheablePacket(p) => m.pkt.cmd = "Read" /\ m.pkt.words = Words
  BY <1>1, <1>3 DEF MesiInv, BaseInv, TransactionMatches, generateAlignAccess
<1>5. /\ memory \in [Blocks -> [Words -> Values]]
      /\ memory' = IF m.pkt.cmd = "Read" THEN memory
                   ELSE [memory EXCEPT ![m.pkt.blk] = WriteDataToBlock(m.pkt, @)]
      /\ m.pkt \in Packet
  BY <1>2 DEF MemAccess, MesiInv, BaseInv, BaseTypeOK, BusTypeOK, MemEntry
<1>6. \A x \in Cacheable : memory'[x] = memory[x]
  BY <1>4, <1>5, BusAssumption DEF isCacheablePacket
<1>7. /\ FramesInv' /\ CopiesInv' /\ NewOwnersHoldBus
      /\ \A d \in Caches, x \in Cacheable : SameCopy(d, x)
  BY <1>6, QuietStep DEF MesiInv
<1>8. WaitersNeedBus'
  BY <1>1, <1>7, QuietWaiters DEF Waiting
<1>9. MemRespAsserts' /\ WireClearBeforeSnoop' /\ SnoopStillHolds'
  BY <1>1, <1>7, WindowKept DEF MesiInv
<1>10. FetchStaysCurrent'
  <2> SUFFICES ASSUME InCacheableTransaction', NEW e \in inMemory'
               PROVE  e.pkt.data = memory'[e.pkt.blk]
    BY DEF FetchStaysCurrent
  <2>1. isCacheablePacket(p)
    BY <1>1, <1>3 DEF InCacheableTransaction, CurrentPacket, isCacheablePacket
  <2>2. e.pkt = SetDataFromBlock(m.pkt, memory[m.pkt.blk])
    BY <1>2, <1>4, <2>1 DEF MemAccess, MemEntry
  <2>3. memory[m.pkt.blk] \in [Words -> Values]
    BY <1>5 DEF Packet
  <2>4. e.pkt.data = memory[m.pkt.blk] /\ e.pkt.blk = m.pkt.blk
    BY <1>4, <1>5, <2>1, <2>2, <2>3 DEF SetDataFromBlock, Packet
  <2>5. memory' = memory
    BY <1>4, <1>5, <2>1
  <2> QED  BY <2>4, <2>5
<1> QED  BY <1>7, <1>8, <1>9, <1>10 DEF FlightInv

-----------------------------------------------------------------------------
(* The snoop and the end of a transaction.                                 *)

\* What the snoop finds: a cacheable transaction, its wire still clear.
LEMMA SnoopFinds ==
  ASSUME MesiInv, NEW m, NextMemReq(m), isCacheablePacket(m.pkt)
  PROVE  /\ m \in MemReq /\ m.pkt \in Packet /\ m.pkt.blk \in Cacheable
         /\ memReqQueue = <<m>> /\ memReqQueue' = <<>>
         /\ m.from \in Caches /\ currentGranted = m.from
         /\ m.pkt = cpuPkt[m.from] /\ requestPacket[m.from] = m.pkt
         /\ InCacheableTransaction /\ CurrentPacket = m.pkt
         /\ blockedPacket = NoPacket /\ inMemory = {} /\ ~sharedWire
         /\ IF m.toMem THEN ~isHit(m.from, m.pkt.blk) ELSE m.pkt.cmd = "Write"
<1>1. /\ m \in MemReq /\ m.pkt \in Packet /\ m.pkt.blk \in Cacheable
      /\ memReqQueue = <<m>> /\ memReqQueue' = <<>>
      /\ m.from \in Caches /\ currentGranted = m.from /\ m.pkt = cpuPkt[m.from]
      /\ blockedPacket = NoPacket /\ inMemory = {}
  BY QueuedFacts DEF MesiInv, isCacheablePacket
<1>2. requestPacket[m.from] = m.pkt
  BY <1>1 DEF MesiInv, BaseInv, RequestPacketLive, isCacheablePacket
<1>3. InCacheableTransaction /\ CurrentPacket = m.pkt
  BY <1>1, NobodyIsNoCache DEF InCacheableTransaction, CurrentPacket, isCacheablePacket
<1>4. memReqQueue # <<>> /\ Head(memReqQueue) = m
  BY <1>1
<1>5. ~sharedWire
  BY <1>3, <1>4 DEF MesiInv, FlightInv, WireClearBeforeSnoop
<1>6. IF m.toMem THEN ~isHit(m.from, m.pkt.blk) ELSE m.pkt.cmd = "Write"
  BY <1>1, <1>3, <1>4 DEF MesiInv, FlightInv, MemRespAsserts
<1> QED  BY <1>1, <1>2, <1>3, <1>5, <1>6

LEMMA SnoopAndFetchMesi ==
  ASSUME MesiInv, NEW m, SnoopAndFetch(m)
  PROVE  FramesInv' /\ CopiesInv' /\ FlightInv' /\ NewOwnersHoldBus
<1>1. /\ m \in MemReq /\ m.pkt \in Packet /\ m.pkt.blk \in Cacheable
      /\ memReqQueue' = <<>> /\ m.from \in Caches /\ currentGranted = m.from
      /\ InCacheableTransaction /\ CurrentPacket = m.pkt
      /\ inMemory = {} /\ ~sharedWire /\ ~isHit(m.from, m.pkt.blk)
      /\ m.pkt = cpuPkt[m.from]
  BY SnoopFinds DEF SnoopAndFetch
<1>2. /\ lines' = LinesAfterSnoop(m) /\ memory' = MemoryAfterSnoop(m)
      /\ sharedWire' = WireAfterSnoop(m)
      /\ sendPacket([pkt |-> generateAlignAccess(m.pkt), from |-> m.from])
      /\ UNCHANGED <<currentGranted, busRequestQueue, cpuPkt, tagMap, clkPtr>>
  BY DEF SnoopAndFetch, cpuSideVars, arbiterVars
<1>3. PICK b \in Cacheable : b = m.pkt.blk
  BY <1>1
<1>4. PICK g \in Caches : g = m.from
  BY <1>1
<1>5. FramesInv /\ CopiesInv /\ memory \in [Blocks -> [Words -> Values]]
  BY DEF MesiInv, BaseInv, BaseTypeOK, BusTypeOK
<1>6. \A d \in Caches \ {g} :
        /\ MesiCacheInv(d)'
        /\ \A x \in Cacheable \ {b} : SameCopy(d, x)
        /\ isHit(d, b)' <=> isHit(d, b) /\ m.pkt.cmd = "Read"
        /\ isHit(d, b)' => /\ LineOf(d, b)'.cohState = "Shared"
                           /\ LineOf(d, b)'.data = LineOf(d, b).data
  <2> TAKE d \in Caches \ {g}
  <2>1. lines'[d] = LinesAfterSnoop(m)[d] /\ tagMap'[d] = tagMap[d] /\ clkPtr'[d] = clkPtr[d]
    BY <1>2
  <2>2. d \in Caches \ {m.from}
    BY <1>4
  <2> QED  BY <1>1, <1>3, <1>5, <2>1, <2>2, SnoopedCopy
<1>7. MesiCacheInv(g)' /\ \A x \in Cacheable : SameCopy(g, x)
  <2>1. g \notin SnoopHits(m)
    BY <1>4 DEF SnoopHits
  <2>2. lines'[g] = lines[g] /\ tagMap'[g] = tagMap[g] /\ clkPtr'[g] = clkPtr[g]
    BY <1>2, <2>1 DEF LinesAfterSnoop
  <2> QED  BY <1>5, <2>2, UntouchedCache DEF FramesInv
<1>8. ~isHit(g, b) /\ ~isHit(g, b)'
  BY <1>1, <1>3, <1>4, <1>7 DEF SameCopy
<1>9. \A d \in Caches, x \in Cacheable \ {b} : SameCopy(d, x)
  BY <1>6, <1>7
<1>10. FramesInv'
  <2>1. \A d \in Caches : MesiCacheInv(d)' /\ lines'[d] \in [Sets -> [Ways -> Frame(MesiState)]]
    BY <1>6, <1>7 DEF MesiCacheInv, CacheInv, CacheTyped
  <2>2. lines' \in [Caches -> [Sets -> [Ways -> Frame(MesiState)]]]
    BY <1>2, <2>1 DEF LinesAfterSnoop
  <2>3. SetsTypeOK(MesiState)'
    BY <1>2, <1>5, <2>2 DEF FramesInv, SetsTypeOK
  <2> QED  BY <2>1, <2>3 DEF FramesInv
<1>11. /\ \A x \in Blocks \ {b} : memory'[x] = memory[x]
       /\ \A d \in Caches \ {g} : isHit(d, b) => LineOf(d, b).data = memory'[b]
  BY <1>1, <1>2, <1>3, <1>4, <1>5, SnoopedMemory
<1>12. CopiesInv'
  <2>1. \A d \in Caches, x \in Cacheable \ {b} : /\ Owns(d, x)' <=> Owns(d, x)
                                                 /\ isHit(d, x)' <=> isHit(d, x)
    BY <1>9 DEF SameCopy, Owns
  <2>2. \A d \in Caches : ~Owns(d, b)'
    BY <1>6, <1>8 DEF Owns
  <2>3. SingleWriter'
    BY <1>5, <2>1, <2>2 DEF CopiesInv, SingleWriter
  <2>4. ASSUME NEW d \in Caches, NEW x \in Cacheable, isHit(d, x)',
               LineOf(d, x)'.cohState # "Modified"
        PROVE  LineOf(d, x)'.data = memory'[x]
    <3>1. CASE x = b
      BY <1>6, <1>8, <1>11, <2>4, <3>1
    <3>2. CASE x # b
      BY <1>5, <1>9, <1>11, <2>4, <3>2, BusAssumption
         DEF SameCopy, CopiesInv, CleanCopiesCurrent
    <3> QED  BY <3>1, <3>2
  <2> QED  BY <2>3, <2>4 DEF CopiesInv, CleanCopiesCurrent
<1>13. WaitersNeedBus'
  <2>1. ~Waiting(g)
    BY <1>1, <1>4, NobodyIsNoCache DEF MesiInv, BaseInv, BlockedAccounted
  <2>2. \A d \in Caches : Waiting(d)' => Waiting(d) /\ cpuPkt'[d] = cpuPkt[d]
    BY <1>2 DEF Waiting
  <2>3. \A d \in Caches \ {g}, x \in Cacheable : isHit(d, x)' =>
          isHit(d, x) /\ LineOf(d, x)'.cohState \in {"Shared", LineOf(d, x).cohState}
    BY <1>6 DEF SameCopy
  <2> QED  BY <2>1, <2>2, <2>3, WaitersStillNeed DEF MesiInv, FlightInv
<1>14. currentGranted' = g /\ CurrentPacket' = m.pkt
  BY <1>1, <1>2, <1>4 DEF CurrentPacket
<1>15. MemRespAsserts' /\ WireClearBeforeSnoop'
  BY <1>1, <1>3, <1>8, <1>14
     DEF MemRespAsserts, WireClearBeforeSnoop, isHit, Present, LineOf
<1>16. SnoopStillHolds'
  <2> DEFINE O == {d \in Caches \ {g} : isHit(d, b)'}
  <2>1. m.pkt.cmd = "Write" => O = {}
    BY <1>6
  <2>2. \A d \in O : ~Owns(d, b)'
    BY <1>6 DEF Owns
  <2>3. m.pkt.cmd = "Read" => (sharedWire' <=> O # {})
    BY <1>1, <1>2, <1>3, <1>4, <1>6 DEF WireAfterSnoop, SnoopHits
  <2>4. m.pkt.cmd \in {"Read", "Write"}
    BY <1>1 DEF Packet
  <2>5. IF m.pkt.cmd = "Write" THEN O = {}
        ELSE (\A d \in O : ~Owns(d, b)') /\ (sharedWire' <=> O # {})
    BY <2>1, <2>2, <2>3, <2>4
  <2> QED  BY <1>3, <1>14, <2>5 DEF SnoopStillHolds, Owns, isHit, Present, LineOf
<1>17. FetchStaysCurrent'
  BY <1>1, <1>2 DEF FetchStaysCurrent, sendPacket, Accept
<1>18. NewOwnersHoldBus
  BY <1>6, <1>8, <1>9 DEF NewOwnersHoldBus, SameCopy, Owns
<1> QED  BY <1>10, <1>12, <1>13, <1>15, <1>16, <1>17, <1>18 DEF FlightInv

\* The copies the other caches keep fit the line l that g ends up with.
OthersFit(g, b, l, mem) ==
  \A d \in Caches \ {g} :
    /\ MesiCacheInv(d)'
    /\ \A x \in Cacheable \ {b} : SameCopy(d, x)
    /\ isHit(d, b)' =>
         /\ isHit(d, b)
         /\ LineOf(d, b)'.cohState = "Shared" /\ l.cohState = "Shared"
         /\ LineOf(d, b)'.data = mem[b]

\* The transaction of g ends with line l for its block b in place, memory being
\* mem before anything is evicted; the others keep copies that fit l.
EndsWith(g, b, l, mem) ==
  /\ l \in Frame(MesiState) /\ mem \in [Blocks -> [Words -> Values]]
  /\ l.tag = b /\ l.valid /\ (l.dirty <=> l.cohState = "Modified")
  /\ l.cohState # "Invalid"
  /\ l.cohState # "Modified" => l.data = mem[b]
  /\ currentGranted = g /\ currentGranted' = NoCache
  /\ UNCHANGED <<busRequestQueue, cpuPkt>>
  /\ lines' \in [Caches -> {lines'[d] : d \in Caches}]
  /\ lines'[g] = LinesWith(g, b, l) /\ PlaceBlock(g, b)
  /\ memory' = MemoryAfterPlacing(g, b, mem)
  /\ \A x \in Blocks \ {b} : mem[x] = memory[x]
  /\ OthersFit(g, b, l, mem)

\* Where that leaves g's own copies and memory.
LEMMA OwnCopies ==
  ASSUME MesiInv, NEW g \in Caches, NEW b \in Cacheable, NEW l, NEW mem,
         EndsWith(g, b, l, mem)
  PROVE  /\ MesiCacheInv(g)'
         /\ isHit(g, b)' /\ LineOf(g, b)' = l
         /\ \A x \in Cacheable \ {b} :
              \/ SameCopy(g, x)
              \/ ~isHit(g, x)' /\ ~Present(g, b) /\ Evicts(g, b) /\ x = Victim(g, b).tag
         /\ memory'[b] = mem[b]
         /\ \A x \in Blocks \ {b} : memory'[x] # memory[x] =>
              x \in Cacheable /\ Owns(g, x) /\ ~isHit(g, x)'
         /\ \A x \in Cacheable \ {b} :
              ~Present(g, b) /\ Evicts(g, b) /\ x = Victim(g, b).tag =>
                memory'[x] = IF LineOf(g, x).dirty THEN LineOf(g, x).data ELSE memory[x]
<1>1. MesiCacheInv(g) /\ SetsTypeOK(MesiState)
  BY DEF MesiInv, FramesInv
<1>2. /\ tagMap'[g] = IF Present(g, b) THEN tagMap[g] ELSE TagMapAfterFill(g, b)
      /\ clkPtr'[g] = IF Present(g, b) THEN clkPtr[g] ELSE ClkPtrAfterFill(g, b)
  BY <1>1 DEF EndsWith, PlaceBlock, SetsTypeOK
<1>3. /\ l \in Frame(MesiState) /\ l.tag = b /\ l.valid
      /\ (l.dirty <=> l.cohState = "Modified")
      /\ l.cohState # "Invalid" /\ lines'[g] = LinesWith(g, b, l)
      /\ mem \in [Blocks -> [Words -> Values]]
      /\ memory' = MemoryAfterPlacing(g, b, mem)
      /\ \A x \in Blocks \ {b} : mem[x] = memory[x]
  BY DEF EndsWith
<1>4. /\ MesiCacheInv(g)'
      /\ isHit(g, b)' /\ LineOf(g, b)' = l
      /\ \A x \in Cacheable \ {b} :
           \/ SameCopy(g, x)
           \/ ~isHit(g, x)' /\ ~Present(g, b) /\ Evicts(g, b) /\ x = Victim(g, b).tag
  BY <1>1, <1>2, <1>3, PlacedCopy
<1>5. /\ memory'[b] = mem[b]
      /\ \A x \in Blocks : memory'[x] # mem[x] =>
           x \in Cacheable /\ Owns(g, x) /\ ~isHit(g, x)'
  BY <1>1, <1>2, <1>3, PlacedMemory
<1>6. ASSUME NEW x \in Cacheable \ {b},
             ~Present(g, b), Evicts(g, b), x = Victim(g, b).tag
      PROVE  memory'[x] = IF LineOf(g, x).dirty THEN LineOf(g, x).data ELSE memory[x]
  <2>1. mem[x] = memory[x]
    BY <1>3, BusAssumption
  <2> QED  BY <1>1, <1>3, <1>6, <2>1, VictimWritten
<1> QED  BY <1>3, <1>4, <1>5, <1>6

LEMMA TransactionEnds ==
  ASSUME MesiInv, NEW g \in Caches, NEW b \in Cacheable, NEW l, NEW mem,
         EndsWith(g, b, l, mem)
  PROVE  FramesInv' /\ CopiesInv' /\ FlightInv' /\ NewOwnersHoldBus
<1> /\ l \in Frame(MesiState) /\ mem \in [Blocks -> [Words -> Values]]
    /\ l.tag = b /\ l.valid /\ (l.dirty <=> l.cohState = "Modified")
    /\ l.cohState # "Invalid"
    /\ l.cohState # "Modified" => l.data = mem[b]
    /\ currentGranted = g /\ currentGranted' = NoCache
    /\ UNCHANGED <<busRequestQueue, cpuPkt>>
    /\ lines' \in [Caches -> {lines'[d] : d \in Caches}]
    /\ PlaceBlock(g, b) /\ OthersFit(g, b, l, mem)
  BY DEF EndsWith
<1>1. FramesInv /\ CopiesInv /\ memory \in [Blocks -> [Words -> Values]]
  BY DEF MesiInv, BaseInv, BaseTypeOK, BusTypeOK
<1>2. /\ tagMap'[g] = IF Present(g, b) THEN tagMap[g] ELSE TagMapAfterFill(g, b)
      /\ clkPtr'[g] = IF Present(g, b) THEN clkPtr[g] ELSE ClkPtrAfterFill(g, b)
      /\ \A d \in Caches \ {g} : tagMap'[d] = tagMap[d] /\ clkPtr'[d] = clkPtr[d]
      /\ DOMAIN tagMap' = Caches /\ DOMAIN clkPtr' = Caches
      /\ tagMap' = [d \in Caches |-> tagMap'[d]] /\ clkPtr' = [d \in Caches |-> clkPtr'[d]]
  BY <1>1 DEF PlaceBlock, FramesInv, SetsTypeOK
<1>3. \A d \in Caches \ {g} :
        /\ MesiCacheInv(d)'
        /\ \A x \in Cacheable \ {b} : SameCopy(d, x)
        /\ isHit(d, b)' =>
             /\ isHit(d, b)
             /\ LineOf(d, b)'.cohState = "Shared" /\ l.cohState = "Shared"
             /\ LineOf(d, b)'.data = mem[b]
  BY DEF OthersFit
<1>4. /\ MesiCacheInv(g)'
      /\ isHit(g, b)' /\ LineOf(g, b)' = l
      /\ \A x \in Cacheable \ {b} : SameCopy(g, x) \/ ~isHit(g, x)'
  BY OwnCopies
<1>5. /\ memory'[b] = mem[b]
      /\ \A x \in Blocks \ {b} : memory'[x] # memory[x] =>
           x \in Cacheable /\ Owns(g, x) /\ ~isHit(g, x)'
  BY OwnCopies
<1>6. FramesInv'
  <2>1. \A d \in Caches : MesiCacheInv(d)' /\ CacheTyped(d, MesiState)'
    BY <1>2, <1>3, <1>4 DEF MesiCacheInv, CacheInv
  <2>2. /\ lines' \in [Caches -> [Sets -> [Ways -> Frame(MesiState)]]]
        /\ tagMap' \in [Caches -> [Cacheable -> Ways \cup {NotExist}]]
        /\ clkPtr' \in [Caches -> [Sets -> Ways]]
    BY <1>2, <2>1 DEF CacheTyped
  <2> QED  BY <2>1, <2>2 DEF FramesInv, SetsTypeOK
<1>7. \A d \in Caches, x \in Cacheable \ {b} : isHit(d, x)' => SameCopy(d, x)
  BY <1>3, <1>4
<1>8. SingleWriter'
  <2> SUFFICES ASSUME NEW x \in Cacheable, NEW c \in Caches, NEW d \in Caches,
                      Owns(c, x)', d # c
               PROVE  ~isHit(d, x)'
    BY DEF SingleWriter
  <2>1. CASE x = b
    <3>1. c = g
      BY <1>3, <2>1 DEF Owns
    <3>2. l.cohState # "Shared"
      BY <1>4, <2>1, <3>1 DEF Owns
    <3> QED  BY <1>3, <2>1, <3>1, <3>2
  <2>2. CASE x # b
    <3>1. Owns(c, x)
      BY <1>7, <2>2 DEF Owns, SameCopy
    <3>2. ~isHit(d, x)
      BY <1>1, <3>1 DEF CopiesInv, SingleWriter
    <3> QED  BY <1>7, <2>2, <3>2 DEF SameCopy
  <2> QED  BY <2>1, <2>2
<1>9. CleanCopiesCurrent'
  <2> SUFFICES ASSUME NEW d \in Caches, NEW x \in Cacheable, isHit(d, x)',
                      LineOf(d, x)'.cohState # "Modified"
               PROVE  LineOf(d, x)'.data = memory'[x]
    BY DEF CleanCopiesCurrent
  <2>1. CASE x = b
    BY <1>3, <1>4, <1>5, <2>1
  <2>2. CASE x # b
    <3>1. /\ isHit(d, x) /\ LineOf(d, x).cohState # "Modified"
          /\ LineOf(d, x)'.data = LineOf(d, x).data
      BY <1>7, <2>2 DEF SameCopy
    <3>2. LineOf(d, x).data = memory[x]
      BY <1>1, <3>1 DEF CopiesInv, CleanCopiesCurrent
    <3>3. memory'[x] = memory[x]
      <4>1. ASSUME Owns(g, x), ~isHit(g, x)' PROVE FALSE
        <5>1. d = g
          BY <1>1, <3>1, <4>1 DEF CopiesInv, SingleWriter
        <5> QED  BY <4>1, <5>1
      <4> QED  BY <1>5, <2>2, <4>1, BusAssumption
    <3> QED  BY <3>1, <3>2, <3>3
  <2> QED  BY <2>1, <2>2
<1>10. WaitersNeedBus'
  <2>1. ~Waiting(g)
    BY NobodyIsNoCache DEF MesiInv, BaseInv, BlockedAccounted
  <2>2. \A d \in Caches : Waiting(d)' => Waiting(d) /\ cpuPkt'[d] = cpuPkt[d]
    BY DEF Waiting
  <2>3. \A d \in Caches \ {g}, x \in Cacheable : isHit(d, x)' =>
          isHit(d, x) /\ LineOf(d, x)'.cohState \in {"Shared", LineOf(d, x).cohState}
    BY <1>3 DEF SameCopy
  <2> QED  BY <2>1, <2>2, <2>3, WaitersStillNeed DEF MesiInv, FlightInv
<1>11. ~InCacheableTransaction'
  BY DEF InCacheableTransaction
<1>12. MemRespAsserts' /\ WireClearBeforeSnoop' /\ SnoopStillHolds' /\ FetchStaysCurrent'
  BY <1>11 DEF MemRespAsserts, WireClearBeforeSnoop, SnoopStillHolds, FetchStaysCurrent
<1>13. NewOwnersHoldBus
  BY <1>3, <1>7 DEF NewOwnersHoldBus, SameCopy, Owns
<1> QED  BY <1>6, <1>8, <1>9, <1>10, <1>12, <1>13 DEF CopiesInv, FlightInv

\* Where PlaceBlock leaves the other caches.
LEMMA PlaceBlockOthers ==
  ASSUME SetsTypeOK(MesiState), NEW g \in Caches, NEW b \in Cacheable, PlaceBlock(g, b),
         NEW d \in Caches \ {g}
  PROVE  tagMap'[d] = tagMap[d] /\ clkPtr'[d] = clkPtr[d]
  BY DEF PlaceBlock, SetsTypeOK

\* A write that needs no data from memory.
LEMMA SnoopAndCompleteEnds ==
  ASSUME MesiInv, NEW m, SnoopAndComplete(m), NEW g, g = m.from, NEW b, b = m.pkt.blk
  PROVE  /\ g \in Caches /\ b \in Cacheable
         /\ m.pkt.cmd = "Write" /\ (isHit(g, b) \/ FullBlock(m.pkt))
         /\ isHit(g, b) => FetchedData(g, m.pkt) = LineOf(g, b).data
         /\ \E l, mem : /\ EndsWith(g, b, l, mem)
                        /\ l.data = WriteDataToBlock(m.pkt, FetchedData(g, m.pkt))
<1>1. g \in Caches /\ b \in Cacheable
  BY SnoopFinds DEF SnoopAndComplete
<1> g \in Caches /\ b \in Cacheable
  BY <1>1
<1>2. /\ m \in MemReq /\ m.pkt \in Packet /\ m.pkt.blk \in Cacheable
      /\ currentGranted = g /\ requestPacket[g] = m.pkt /\ m.pkt.cmd = "Write"
      /\ ~sharedWire /\ memReqQueue = <<m>> /\ InCacheableTransaction /\ CurrentPacket = m.pkt
      /\ ~m.toMem
  BY <1>1, SnoopFinds DEF SnoopAndComplete
<1>3. isHit(g, b) \/ FullBlock(m.pkt)
  <2>1. memReqQueue # <<>> /\ Head(memReqQueue) = m
    BY <1>2
  <2> QED  BY <1>2, <2>1 DEF MesiInv, FlightInv, MemRespAsserts
<1>4. PICK l : l = FilledLine(g, m.pkt, m.pkt, WireAfterSnoop(m))
  OBVIOUS
<1>5. PICK mem : mem = MemoryAfterSnoop(m)
  OBVIOUS
<1>6. /\ lines' = [LinesAfterSnoop(m) EXCEPT ![g] = LinesWith(g, b, l)]
      /\ memory' = MemoryAfterPlacing(g, b, mem)
      /\ PlaceBlock(g, b)
      /\ currentGranted' = NoCache
      /\ UNCHANGED <<busRequestQueue, cpuPkt>>
  BY <1>2, <1>4, <1>5 DEF SnoopAndComplete, FinishTransaction, Release
<1>7. FramesInv /\ CopiesInv /\ memory \in [Blocks -> [Words -> Values]]
  BY DEF MesiInv, BaseInv, BaseTypeOK, BusTypeOK
<1>8. /\ l \in Frame(MesiState) /\ l.tag = b /\ l.valid
      /\ (l.dirty <=> l.cohState = "Modified") /\ l.cohState = "Modified"
      /\ l.data = WriteDataToBlock(m.pkt, FetchedData(g, m.pkt))
  <2>1. WireAfterSnoop(m) \in BOOLEAN
    BY <1>2 DEF WireAfterSnoop
  <2>2. MesiCacheInv(g)
    BY <1>7 DEF FramesInv
  <2> QED  BY <1>2, <1>4, <2>1, <2>2, FilledLineFacts
<1>9. /\ mem \in [Blocks -> [Words -> Values]]
      /\ \A x \in Blocks \ {b} : mem[x] = memory[x]
  BY <1>2, <1>5, <1>7, SnoopedMemory
<1>10. \A d \in Caches \ {g} :
         /\ MesiCacheInv(d)'
         /\ \A x \in Cacheable \ {b} : SameCopy(d, x)
         /\ ~isHit(d, b)'
  <2> TAKE d \in Caches \ {g}
  <2>1. lines'[d] = LinesAfterSnoop(m)[d]
    BY <1>6 DEF LinesAfterSnoop
  <2>2. tagMap'[d] = tagMap[d] /\ clkPtr'[d] = clkPtr[d]
    BY <1>6, <1>7, PlaceBlockOthers DEF FramesInv
  <2>3. d \in Caches \ {m.from}
    OBVIOUS
  <2> QED  BY <1>2, <1>7, <2>1, <2>2, <2>3, SnoopedCopy
<1>11. lines'[g] = LinesWith(g, b, l) /\ lines' \in [Caches -> {lines'[d] : d \in Caches}]
  BY <1>6 DEF LinesAfterSnoop
<1>12. OthersFit(g, b, l, mem)
  BY <1>10 DEF OthersFit
<1>13. EndsWith(g, b, l, mem)
  BY <1>2, <1>6, <1>8, <1>9, <1>11, <1>12 DEF EndsWith
<1>14. isHit(g, b) => FetchedData(g, m.pkt) = LineOf(g, b).data
  BY <1>2 DEF FetchedData, isHit
<1> QED  BY <1>1, <1>2, <1>3, <1>8, <1>13, <1>14

LEMMA SnoopAndCompleteMesi ==
  ASSUME MesiInv, NEW m, SnoopAndComplete(m)
  PROVE  FramesInv' /\ CopiesInv' /\ FlightInv' /\ NewOwnersHoldBus
<1>1. PICK g, b : g = m.from /\ b = m.pkt.blk
  OBVIOUS
<1>2. g \in Caches /\ b \in Cacheable /\ \E l, mem : EndsWith(g, b, l, mem)
  BY <1>1, SnoopAndCompleteEnds
<1> QED  BY <1>2, TransactionEnds

\* The response from memory.
LEMMA MemRespEnds ==
  ASSUME MesiInv, NEW m, NEW g \in Caches, MemResp(m, g), NEW p, p = cpuPkt[g],
         NEW b, b = p.blk
  PROVE  /\ p \in Packet /\ requestPacket[g] = p /\ b \in Cacheable
         /\ inMemory = {m} /\ isCacheablePacket(m.pkt) /\ currentGranted = g
         /\ FetchedData(g, m.pkt) = memory[b]
         /\ \A d \in Caches : isHit(d, b) => LineOf(d, b).data = memory[b]
         /\ \E l, mem : /\ EndsWith(g, b, l, mem)
                        /\ l.data = IF p.cmd = "Read" THEN memory[b]
                                                      ELSE WriteDataToBlock(p, memory[b])
<1>1. /\ currentGranted = g /\ m \in MemEntry /\ m \in inMemory /\ m.answered
      /\ memReqQueue = <<>> /\ cpuPkt[g] \in Packet
      /\ m.pkt.blk = cpuPkt[g].blk /\ isCacheablePacket(m.pkt)
      /\ inMemory = {m}
  BY AnsweredFacts DEF MemResp, MesiInv, TakeResponse
<1>2. p \in Packet
  BY <1>1
<1>3. b \in Cacheable
  BY <1>1, <1>2 DEF isCacheablePacket
<1> p \in Packet /\ b \in Cacheable
  BY <1>2, <1>3
<1>4. /\ m.pkt \in Packet /\ m.pkt.blk = b /\ m.pkt.cmd = "Read" /\ m.pkt.words = Words
      /\ requestPacket[g] = p
  BY <1>1, <1>2, <1>3, NobodyIsNoCache DEF MesiInv, BaseInv, TransactionMatches,
     RequestPacketLive, isCacheablePacket, generateAlignAccess, MemEntry
<1>5. InCacheableTransaction /\ CurrentPacket = p
  BY <1>1, <1>2, <1>3, NobodyIsNoCache
     DEF InCacheableTransaction, CurrentPacket, isCacheablePacket
<1>6. PICK l : l = FilledLine(g, p, m.pkt, sharedWire)
  OBVIOUS
<1>7. /\ lines' = [lines EXCEPT ![g] = LinesWith(g, b, l)]
      /\ memory' = MemoryAfterPlacing(g, b, memory)
      /\ PlaceBlock(g, b)
      /\ currentGranted' = NoCache
      /\ UNCHANGED <<busRequestQueue, cpuPkt>>
  BY <1>1, <1>3, <1>4, <1>6 DEF MemResp, FinishTransaction, Release
<1>8. /\ FramesInv /\ CopiesInv /\ sharedWire \in BOOLEAN
      /\ memory \in [Blocks -> [Words -> Values]]
      /\ lines \in [Caches -> [Sets -> [Ways -> Frame(MesiState)]]]
  BY DEF MesiInv, FramesInv, SetsTypeOK, BaseInv, BaseTypeOK, BusTypeOK
<1>9. ~isHit(g, b) /\ m.pkt.data = memory[b]
  BY <1>1, <1>3, <1>4, <1>5
     DEF MesiInv, FlightInv, MemRespAsserts, FetchStaysCurrent
<1>10. /\ l \in Frame(MesiState) /\ l.tag = b /\ l.valid
       /\ l.dirty <=> l.cohState = "Modified"
       /\ l.cohState = IF p.cmd = "Read" THEN (IF sharedWire THEN "Shared" ELSE "Exclusive")
                                         ELSE "Modified"
       /\ l.data = IF p.cmd = "Read" THEN memory[b] ELSE WriteDataToBlock(p, memory[b])
       /\ FetchedData(g, m.pkt) = memory[b]
  <2>1. MesiCacheInv(g)
    BY <1>8 DEF FramesInv
  <2> QED  BY <1>3, <1>4, <1>6, <1>8, <1>9, <2>1, FilledLineFacts
<1>11. \A d \in Caches \ {g} : isHit(d, b) =>
         LineOf(d, b).cohState = "Shared" /\ p.cmd = "Read" /\ sharedWire
  <2> TAKE d \in Caches \ {g}
  <2> HAVE isHit(d, b)
  <2> DEFINE O == {e \in Caches \ {g} : isHit(e, b)}
  <2>1. IF p.cmd = "Write" THEN O = {}
        ELSE (\A e \in O : ~Owns(e, b)) /\ (sharedWire <=> O # {})
    BY <1>1, <1>3, <1>5 DEF MesiInv, FlightInv, SnoopStillHolds
  <2>2. d \in O
    OBVIOUS
  <2>3. p.cmd \in {"Read", "Write"}
    BY DEF Packet
  <2>4. LineOf(d, b).cohState \in MesiState
    BY <1>8, LineFacts DEF FramesInv, isHit, Frame
  <2>5. p.cmd = "Read" /\ sharedWire /\ ~Owns(d, b)
    <3> HIDE DEF O
    <3> QED  BY <2>1, <2>2, <2>3
  <2> QED  BY <2>4, <2>5 DEF Owns, isHit, MesiState
<1>12. \A d \in Caches \ {g} :
         MesiCacheInv(d)' /\ \A x \in Cacheable : SameCopy(d, x)
  <2> TAKE d \in Caches \ {g}
  <2>1. lines'[d] = lines[d]
    BY <1>7
  <2>2. tagMap'[d] = tagMap[d] /\ clkPtr'[d] = clkPtr[d]
    BY <1>7, <1>8, PlaceBlockOthers DEF FramesInv
  <2> QED  BY <1>8, <2>1, <2>2, UntouchedCache DEF FramesInv
<1>13. \A d \in Caches \ {g} : isHit(d, b)' =>
         /\ isHit(d, b)
         /\ LineOf(d, b)'.cohState = "Shared" /\ l.cohState = "Shared"
         /\ LineOf(d, b)'.data = memory[b]
  <2> TAKE d \in Caches \ {g}
  <2> HAVE isHit(d, b)'
  <2>1. /\ isHit(d, b) /\ LineOf(d, b)'.cohState = LineOf(d, b).cohState
        /\ LineOf(d, b)'.data = LineOf(d, b).data
    BY <1>12 DEF SameCopy
  <2>2. LineOf(d, b).cohState = "Shared" /\ l.cohState = "Shared"
    BY <1>10, <1>11, <2>1
  <2> QED  BY <1>8, <2>1, <2>2 DEF CopiesInv, CleanCopiesCurrent
<1>14. /\ lines'[g] = LinesWith(g, b, l)
       /\ lines' \in [Caches -> {lines'[d] : d \in Caches}]
  BY <1>7, <1>8
<1>15. l.cohState # "Invalid" /\ (l.cohState # "Modified" => l.data = memory[b])
  BY <1>10
<1>16. OthersFit(g, b, l, memory)
  BY <1>12, <1>13 DEF OthersFit
<1>17. EndsWith(g, b, l, memory)
  BY <1>1, <1>7, <1>8, <1>10, <1>14, <1>15, <1>16 DEF EndsWith
<1>18. \A d \in Caches : isHit(d, b) => LineOf(d, b).data = memory[b]
  BY <1>8, <1>9, <1>11 DEF CopiesInv, CleanCopiesCurrent
<1> QED  BY <1>1, <1>2, <1>3, <1>4, <1>10, <1>17, <1>18

LEMMA MemRespMesi ==
  ASSUME MesiInv, NEW m, NEW g \in Caches, MemResp(m, g)
  PROVE  FramesInv' /\ CopiesInv' /\ FlightInv' /\ NewOwnersHoldBus
<1>1. PICK p, b : p = cpuPkt[g] /\ b = p.blk
  OBVIOUS
<1>2. b \in Cacheable /\ \E l, mem : EndsWith(g, b, l, mem)
  BY <1>1, MemRespEnds
<1> QED  BY <1>2, TransactionEnds

-----------------------------------------------------------------------------
(* A MESI cache is a restriction of the base class.                        *)

LEMMA AnswersTyped ==
  ASSUME NEW p \in Packet, NEW block \in [Words -> Values]
  PROVE  SetDataFromBlock(p, block) \in Responses(p) /\ p \in Responses(p)
<1>1. p.data \in [Words -> Values]
  BY DEF Packet
<1>2. p = [p EXCEPT !.data = p.data]
  BY DEF Packet
<1>3. [w \in Words |-> IF w \in p.words THEN block[w] ELSE p.data[w]] \in [Words -> Values]
  BY <1>1
<1> QED  BY <1>1, <1>2, <1>3 DEF SetDataFromBlock, Responses

LEMMA CpuRequestIsBase ==
  ASSUME MesiInv, NEW c \in Caches, NEW p \in CpuPackets,
         ReadHit(c, p) \/ WriteHit(c, p) \/ BusRequest(c, p)
  PROVE  CacheAnswers(c, p) \/ CacheWaits(c, p)
<1>1. p \in Packet
  BY CpuPacketsTyped
<1>2. CASE ReadHit(c, p)
  <2>1. p.blk \in Cacheable /\ isHit(c, p.blk)
    BY <1>2 DEF ReadHit, isCacheablePacket
  <2>2. LineOf(c, p.blk).data \in [Words -> Values]
    BY <2>1, LineFacts DEF MesiInv, FramesInv, isHit, Frame
  <2> QED  BY <1>1, <1>2, <2>2, AnswersTyped DEF ReadHit, CacheAnswers
<1>3. CASE WriteHit(c, p)
  BY <1>1, <1>3, EmptyBlockTyped, AnswersTyped DEF WriteHit, CacheAnswers
<1>4. CASE BusRequest(c, p)
  BY <1>4 DEF BusRequest, CacheWaits
<1> QED  BY <1>2, <1>3, <1>4

LEMMA BusGrantIsBase ==
  ASSUME MesiInv, NEW c \in Caches, BusGrant(c)
  PROVE  CacheGranted(c)
<1>1. PICK p : p = requestPacket[c]
  OBVIOUS
<1>2. PICK toMem : toMem = NeedsMemory(c, p)
  OBVIOUS
<1>3. toMem \in BOOLEAN /\ (p.cmd = "Read" => toMem)
  BY <1>2 DEF NeedsMemory
<1>4. PICK op \in BusOps : op = IF p.cmd = "Read" THEN "BusRd" ELSE "BusRdX"
  BY DEF BusOps
<1>5. sendMemReq(p, toMem, op, c)
  BY <1>1, <1>2, <1>4 DEF BusGrant
<1>6. /\ GrantNext(c) /\ isCacheablePacket(p) /\ sharedWire' \in BOOLEAN
      /\ UNCHANGED <<cpuSideVars, memPortVars, memory>>
  BY <1>1 DEF BusGrant, WireAtGrant
<1> QED  BY <1>1, <1>3, <1>5, <1>6 DEF CacheGranted, AnyWire

LEMMA SnoopIsBase ==
  ASSUME MesiInv, NEW m, SnoopAndFetch(m) \/ SnoopAndComplete(m)
  PROVE  CacheFetches(m) \/ CacheCompletes(m)
<1>1. /\ m \in MemReq /\ m.pkt.blk \in Cacheable /\ m.from \in Caches
      /\ requestPacket[m.from] = m.pkt
  BY SnoopFinds DEF SnoopAndFetch, SnoopAndComplete
<1>2. FramesInv /\ CopiesInv /\ sharedWire \in BOOLEAN
      /\ memory \in [Blocks -> [Words -> Values]]
  BY DEF MesiInv, BaseInv, BaseTypeOK, BusTypeOK
<1>3. /\ MemoryAfterSnoop(m) \in [Blocks -> [Words -> Values]]
      /\ WireAfterSnoop(m) \in BOOLEAN
  BY <1>1, <1>2, SnoopedMemory DEF WireAfterSnoop
<1>4. CASE SnoopAndFetch(m)
  BY <1>3, <1>4 DEF SnoopAndFetch, CacheFetches, AnyWire, AnyWriteback
<1>5. CASE SnoopAndComplete(m)
  <2>1. MesiCacheInv(m.from)
    BY <1>1, <1>2 DEF FramesInv
  <2>2. PICK g \in Caches : g = m.from
    BY <1>1
  <2>3. PICK b \in Cacheable : b = m.pkt.blk
    BY <1>1
  <2>4. PlaceBlock(g, b) /\ memory' = MemoryAfterPlacing(g, b, MemoryAfterSnoop(m))
    BY <1>1, <1>5, <2>2, <2>3 DEF SnoopAndComplete
  <2>5. tagMap'[g] = IF Present(g, b) THEN tagMap[g] ELSE TagMapAfterFill(g, b)
    BY <1>2, <2>4 DEF PlaceBlock, FramesInv, SetsTypeOK
  <2>6. memory' \in [Blocks -> [Words -> Values]]
    BY <1>3, <2>1, <2>2, <2>4, <2>5, PlacedMemory
  <2>7. sharedWire' \in BOOLEAN
    BY <1>3, <1>5 DEF SnoopAndComplete, WireAfterFill
  <2> QED  BY <1>5, <2>6, <2>7 DEF SnoopAndComplete, CacheCompletes, AnyWire, AnyWriteback
<1> QED  BY <1>4, <1>5

LEMMA MemRespIsBase ==
  ASSUME MesiInv, NEW m, NEW c \in Caches, MemResp(m, c)
  PROVE  CacheFilled(m, c)
<1>1. /\ currentGranted = c /\ m \in MemEntry /\ cpuPkt[c] \in Packet
      /\ m.pkt.blk = cpuPkt[c].blk /\ isCacheablePacket(m.pkt)
  BY AnsweredFacts DEF MemResp, MesiInv
<1>2. PICK p \in Packet : p = requestPacket[c]
  BY <1>1 DEF MesiInv, BaseInv, RequestPacketLive, isCacheablePacket
<1>3. PICK b \in Cacheable : b = p.blk /\ b = m.pkt.blk
  BY <1>1, <1>2 DEF MesiInv, BaseInv, RequestPacketLive, isCacheablePacket
<1>4. /\ FramesInv /\ sharedWire \in BOOLEAN
      /\ memory \in [Blocks -> [Words -> Values]]
  BY DEF MesiInv, BaseInv, BaseTypeOK, BusTypeOK
<1>5. /\ PlaceBlock(c, b) /\ memory' = MemoryAfterPlacing(c, b, memory)
      /\ FinishTransaction(c, ResponsePacket(c, p, m.pkt), TRUE)
      /\ sharedWire' \in BOOLEAN
  BY <1>2, <1>3, <1>4 DEF MemResp, WireAfterFill
<1>6. MesiCacheInv(c)
  BY <1>4 DEF FramesInv
<1>7. memory' \in [Blocks -> [Words -> Values]]
  <2>1. tagMap'[c] = IF Present(c, b) THEN tagMap[c] ELSE TagMapAfterFill(c, b)
    BY <1>4, <1>5 DEF PlaceBlock, FramesInv, SetsTypeOK
  <2> QED  BY <1>4, <1>5, <1>6, <2>1, PlacedMemory
<1>8. ResponsePacket(c, p, m.pkt) \in Responses(p)
  <2>1. m.pkt \in Packet
    BY <1>1 DEF MemEntry
  <2>2. FetchedData(c, m.pkt) \in [Words -> Values]
    <3>1. (IF Present(c, b) THEN LineOf(c, b).data ELSE EmptyBlock) \in [Words -> Values]
      BY <1>6, LineFacts, EmptyBlockTyped DEF Frame
    <3> QED  BY <1>3, <2>1, <3>1, WriteDataTyped DEF FetchedData
  <2> QED  BY <2>2, AnswersTyped DEF ResponsePacket
<1> QED  BY <1>2, <1>5, <1>7, <1>8 DEF MemResp, CacheFilled, AnyWire, AnyWriteback

-----------------------------------------------------------------------------
(* The invariant.                                                          *)

LEMMA MesiInvInit ==
  ASSUME Init
  PROVE  MesiInv
<1>1. BaseInit /\ SetsInit
  BY DEF Init
<1>2. BaseInv
  BY <1>1, BaseInvInit
<1>3. \A c \in Caches, s \in Sets, w \in Ways : lines[c][s][w] = EmptyFrame
  BY <1>1 DEF SetsInit
<1>4. FramesInv
  <2>1. \A c \in Caches : MesiCacheInv(c)
    <3> TAKE c \in Caches
    <3>1. CacheInv(c, MesiState)
      BY <1>1, CacheInvInit DEF MesiState
    <3>2. FramesMarked(c)
      BY <1>3 DEF FramesMarked, EmptyFrame
    <3> QED  BY <3>1, <3>2 DEF MesiCacheInv
  <2>2. \A c \in Caches : CacheTyped(c, MesiState)
    BY <2>1 DEF MesiCacheInv, CacheInv
  <2>3. /\ lines = [c \in Caches |-> lines[c]]
        /\ tagMap = [c \in Caches |-> tagMap[c]]
        /\ clkPtr = [c \in Caches |-> clkPtr[c]]
    BY <1>1 DEF SetsInit
  <2>4. SetsTypeOK(MesiState)
    BY <2>2, <2>3 DEF SetsTypeOK, CacheTyped
  <2> QED  BY <2>1, <2>4 DEF FramesInv
<1>5. CopiesInv
  <2>1. \A c \in Caches, b \in Cacheable : ~isHit(c, b)
    BY <1>1 DEF SetsInit, isHit, Present
  <2> QED  BY <2>1 DEF CopiesInv, SingleWriter, Owns, CleanCopiesCurrent
<1>6. FlightInv
  <2>1. ~InCacheableTransaction /\ \A c : ~Waiting(c)
    BY <1>1 DEF BaseInit, BusInit, InCacheableTransaction, Waiting
  <2> QED  BY <2>1 DEF FlightInv, WaitersNeedBus, MemRespAsserts, WireClearBeforeSnoop,
              SnoopStillHolds, FetchStaysCurrent
<1> QED  BY <1>2, <1>4, <1>5, <1>6 DEF MesiInv

\* Every step is a step of the base class, keeps the invariant, and lets only
\* the cache that holds the bus come to own a block.
LEMMA MesiStep ==
  ASSUME MesiInv, Next
  PROVE  BaseNext /\ FramesInv' /\ CopiesInv' /\ FlightInv' /\ NewOwnersHoldBus
<1> DEFINE Kept == FramesInv' /\ CopiesInv' /\ FlightInv' /\ NewOwnersHoldBus
<1>1. ASSUME NEW c \in Caches, NEW p \in CpuPackets, CpuRequest(c, p)
      PROVE  BaseNext /\ Kept
  <2>1. CASE ReadHit(c, p)
    BY <2>1, ReadHitStep, CpuRequestIsBase DEF BaseNext
  <2>2. CASE WriteHit(c, p)
    BY <2>2, WriteHitStep, CpuRequestIsBase DEF BaseNext
  <2>3. CASE BusRequest(c, p)
    BY <2>3, WaitStep, CpuRequestIsBase DEF BusRequest, BaseNext
  <2>4. CASE UncachedRequest(c, p) /\ UNCHANGED setVars
    BY <2>4, WaitStep DEF UncachedRequest, BaseNext
  <2> QED  BY <1>1, <2>1, <2>2, <2>3, <2>4 DEF CpuRequest
<1>2. ASSUME NEW c \in Caches, BusGrant(c)
      PROVE  BaseNext /\ Kept
  <2>1. BaseNext
    BY <1>2, BusGrantIsBase DEF BaseNext
  <2>2. PICK toMem, op : /\ toMem = NeedsMemory(c, requestPacket[c])
                         /\ sendMemReq(requestPacket[c], toMem, op, c)
    BY <1>2 DEF BusGrant
  <2>3. /\ GrantNext(c) /\ sharedWire' = FALSE
        /\ UNCHANGED <<cpuPkt, memPortVars, memory, setVars>>
    BY <1>2 DEF BusGrant, WireAtGrant, cpuSideVars
  <2> QED  BY <2>1, <2>2, <2>3, GrantMesi
<1>3. ASSUME NEW c \in Caches, UncachedGrant(c), UNCHANGED setVars
      PROVE  BaseNext /\ Kept
  <2>1. BaseNext
    BY <1>3 DEF BaseNext
  <2>2. /\ GrantNext(c) /\ ~isCacheablePacket(requestPacket[c])
        /\ sendMemReq(requestPacket[c], TRUE, "BusRd", c)
        /\ UNCHANGED <<cpuPkt, memPortVars, memory>>
    BY <1>3 DEF UncachedGrant
  <2> QED  BY <1>3, <2>1, <2>2, GrantMesi
<1>4. ASSUME IdleGrant, UNCHANGED setVars
      PROVE  BaseNext /\ Kept
  BY <1>4, IdleGrantMesi DEF BaseNext
<1>5. ASSUME NEW m, m = Head(memReqQueue), memReqQueue # <<>>,
             SnoopAndFetch(m) \/ SnoopAndComplete(m)
      PROVE  BaseNext /\ Kept
  <2>1. BaseNext
    BY <1>5, SnoopIsBase DEF BaseNext
  <2> QED  BY <1>5, <2>1, SnoopAndFetchMesi, SnoopAndCompleteMesi
<1>6. ASSUME NEW m, m = Head(memReqQueue), memReqQueue # <<>>,
             UncachedForward(m), UNCHANGED setVars
      PROVE  BaseNext /\ Kept
  BY <1>6, UncachedForwardMesi DEF BaseNext
<1>7. ASSUME MemorySide, UNCHANGED setVars
      PROVE  BaseNext /\ Kept
  BY <1>7, RetryMesi, MemAccessMesi DEF BaseNext, MemorySide
<1>8. ASSUME NEW m \in inMemory, NEW c \in Caches, MemResp(m, c)
      PROVE  BaseNext /\ Kept
  <2>1. BaseNext
    BY <1>8, MemRespIsBase DEF BaseNext
  <2> QED  BY <1>8, <2>1, MemRespMesi
<1>9. ASSUME NEW m \in inMemory, NEW c \in Caches, UncachedResponse(m, c), UNCHANGED setVars
      PROVE  BaseNext /\ Kept
  BY <1>9, UncachedResponseMesi DEF BaseNext
<1>10. ASSUME NEW c \in Caches, ProcessCpuResp(c), UNCHANGED setVars
       PROVE  BaseNext /\ Kept
  BY <1>10, ProcessCpuRespMesi DEF BaseNext
<1> HIDE DEF Kept
<1>11. BaseNext /\ Kept
  BY <1>1, <1>2, <1>3, <1>4, <1>5, <1>6, <1>7, <1>8, <1>9, <1>10
     DEF Next, ProcessGrantEvent, ProcessMemReqEvent, RecvTimingResp
<1> QED  BY <1>11 DEF Kept

LEMMA MesiInvStep ==
  ASSUME MesiInv, [Next]_vars
  PROVE  MesiInv' /\ [BaseNext]_baseVars /\ [NewOwnersHoldBus]_vars
<1>1. CASE Next
  <2>1. BaseNext /\ FramesInv' /\ CopiesInv' /\ FlightInv' /\ NewOwnersHoldBus
    BY <1>1, MesiStep
  <2>2. BaseInv'
    BY <2>1, BaseInvStep DEF MesiInv
  <2> QED  BY <2>1, <2>2 DEF MesiInv
<1>2. CASE UNCHANGED vars
  <2>1. /\ UNCHANGED baseVars /\ UNCHANGED setVars
        /\ UNCHANGED <<currentGranted, busRequestQueue, memReqQueue, sharedWire,
                       blockedPacket, inMemory, memory, cpuPkt>>
    BY <1>2 DEF vars, baseVars, busVars, arbiterVars, memPortVars, cpuSideVars
  <2>2. BaseInv'
    BY <2>1, BaseInvStep DEF MesiInv
  <2>3. /\ FramesInv' /\ CopiesInv' /\ NewOwnersHoldBus
        /\ \A d \in Caches, x \in Cacheable : SameCopy(d, x)
    BY <2>1, QuietStep DEF MesiInv
  <2>4. WaitersNeedBus'
    BY <2>1, <2>3, QuietWaiters DEF Waiting
  <2>5. MemRespAsserts' /\ WireClearBeforeSnoop' /\ SnoopStillHolds' /\ FetchStaysCurrent'
    BY <2>1, <2>3, FlightKept DEF MesiInv
  <2> QED  BY <1>2, <2>1, <2>2, <2>3, <2>4, <2>5 DEF MesiInv, FlightInv
<1> QED  BY <1>1, <1>2

\* The inductive invariant of MESI holds at every instant.
THEOREM MesiInvariant == Spec => []MesiInv
<1>1. Init => MesiInv
  BY MesiInvInit
<1>2. MesiInv /\ [Next]_vars => MesiInv'
  BY MesiInvStep
<1> QED  BY <1>1, <1>2, PTL DEF Spec

\* MESI caches do nothing the base class does not allow, so everything proved
\* of the bus and the base class holds of them.
THEOREM MesiImplementsBase == Spec => BaseSpec
<1>1. Init => BaseInit
  BY DEF Init
<1>2. MesiInv /\ [Next]_vars => [BaseNext]_baseVars
  BY MesiInvStep
<1> QED  BY <1>1, <1>2, MesiInvariant, PTL DEF Spec, BaseSpec

\* The waiting of the base class ends step by step under MESI too: caches do
\* not wait for each other, and each step of the bus brings each one closer.
THEOREM MesiProgress == Spec => []NobodyStuck /\ WaitShrinks
  BY MesiImplementsBase, BaseNobodyStuck, BaseWaitShrinks

\* The state always has its types; data and packets stay in range.
THEOREM MesiTypeCorrect == Spec => []TypeOK
<1>1. MesiInv => TypeOK
  BY DEF MesiInv, BaseInv, FramesInv, TypeOK
<1> QED  BY <1>1, MesiInvariant, PTL

\* A block that a cache may write silently is in no other cache.
THEOREM MesiSingleWriter == Spec => []SingleWriter
<1>1. MesiInv => SingleWriter
  BY DEF MesiInv, CopiesInv
<1> QED  BY <1>1, MesiInvariant, PTL

\* A copy that is not Modified holds what memory holds.
THEOREM MesiCleanCopiesCurrent == Spec => []CleanCopiesCurrent
<1>1. MesiInv => CleanCopiesCurrent
  BY DEF MesiInv, CopiesInv
<1> QED  BY <1>1, MesiInvariant, PTL

\* The valid frames are those tagMap points to, one block each, and when evict
\* returns early the frame at clkPtr is free.
THEOREM MesiFramesAccounted == Spec => []FramesAccounted
<1>1. MesiInv => TagMapAgrees
  BY DEF MesiInv, FramesInv, MesiCacheInv, CacheInv, MapAgrees, TagMapAgrees
<1>2. MesiInv => ClkPtrFindsFreeFrame
  BY HandAtFreeFrame DEF MesiInv, FramesInv, MesiCacheInv, ClkPtrFindsFreeFrame
<1>3. MesiInv => FramesAccounted
  BY <1>1, <1>2 DEF FramesAccounted
<1> QED  BY <1>3, MesiInvariant, PTL

\* The asserts of the handlers never fail: evict and flush write back exactly
\* what memory lacks, what the grant decided is still right when the response
\* comes, and what a transaction's snoop found stays true until then.
THEOREM MesiHandlerAsserts == Spec => []HandlerAsserts
<1>1. MesiInv => DirtyIffModified
  BY DEF MesiInv, FramesInv, MesiCacheInv, FramesMarked, DirtyIffModified
<1>2. MesiInv => MemRespAsserts /\ SnoopStillHolds
  BY DEF MesiInv, FlightInv
<1>3. MesiInv => HandlerAsserts
  BY <1>1, <1>2 DEF HandlerAsserts
<1> QED  BY <1>3, MesiInvariant, PTL

\* Ownership is acquired on the bus only.
THEOREM MesiOwnershipNeedsBus == Spec => OwnershipNeedsBus
<1> DEFINE Acquired == \A c \in Caches, b \in Cacheable :
                         Owns(c, b)' /\ ~Owns(c, b) => currentGranted = c
<1>1. MesiInv /\ [Next]_vars => [Acquired]_vars
  BY MesiInvStep DEF NewOwnersHoldBus
<1> QED  BY <1>1, MesiInvariant, PTL DEF Spec, OwnershipNeedsBus

-----------------------------------------------------------------------------
(* MESI caches implement one atomic memory: every step of a cache, the bus *)
(* or memory is a step of AtomicMemory under the refinement mapping of     *)
(* MesiCache, or leaves it alone.                                          *)

\* What memory as a whole holds, without the choice of a dirty copy: what any
\* copy holds, and without one memory's block.
ContentsRight ==
  /\ AtomicContents = [x \in Blocks |-> AtomicContents[x]]
  /\ \A x \in Cacheable, d \in Caches : isHit(d, x) => AtomicContents[x] = LineOf(d, x).data
  /\ \A x \in Blocks :
       (x \in Cacheable => \A d \in Caches : ~isHit(d, x)) => AtomicContents[x] = memory[x]

LEMMA ContentsFacts == MesiInv => ContentsRight
<1> SUFFICES ASSUME MesiInv PROVE ContentsRight
  OBVIOUS
<1> DEFINE D(x) == {c \in Caches : x \in Cacheable /\ isHit(c, x) /\ LineOf(c, x).dirty}
<1>1. AtomicContents = [x \in Blocks |-> AtomicContents[x]]
  BY DEF AtomicContents
<1>2. \A x \in Blocks : AtomicContents[x] =
        IF D(x) = {} THEN memory[x] ELSE LineOf(CHOOSE c \in D(x) : TRUE, x).data
  BY DEF AtomicContents
<1>3. \A x \in Cacheable, d \in Caches : isHit(d, x) =>
        (LineOf(d, x).dirty <=> LineOf(d, x).cohState = "Modified")
  BY LineFacts DEF MesiInv, FramesInv, isHit
<1>4. ASSUME NEW x \in Cacheable, NEW d \in Caches, isHit(d, x)
      PROVE  AtomicContents[x] = LineOf(d, x).data
  <2>1. x \in Blocks
    BY BusAssumption
  <2>2. CASE D(x) = {}
    <3>1. ~LineOf(d, x).dirty
      BY <1>4, <2>2
    <3>2. LineOf(d, x).data = memory[x]
      BY <1>3, <1>4, <3>1 DEF MesiInv, CopiesInv, CleanCopiesCurrent
    <3> QED  BY <1>2, <2>1, <2>2, <3>2
  <2>3. CASE D(x) # {}
    <3>1. PICK e : e = CHOOSE c \in D(x) : TRUE
      OBVIOUS
    <3>2. e \in D(x)
      BY <2>3, <3>1
    <3>3. e \in Caches /\ Owns(e, x)
      BY <1>3, <3>2 DEF Owns
    <3>4. d = e
      BY <1>4, <3>3 DEF MesiInv, CopiesInv, SingleWriter
    <3>5. AtomicContents[x] = LineOf(e, x).data
      BY <1>2, <2>1, <2>3, <3>1
    <3> QED  BY <3>4, <3>5
  <2> QED  BY <2>2, <2>3
<1>5. ASSUME NEW x \in Blocks, x \in Cacheable => \A d \in Caches : ~isHit(d, x)
      PROVE  AtomicContents[x] = memory[x]
  BY <1>2, <1>5
<1> HIDE DEF D
<1> QED  BY <1>1, <1>4, <1>5 DEF ContentsRight

-----------------------------------------------------------------------------
(* Steps of the atomic memory.                                             *)

LEMMA AnsweredBoolean == \A d : Answered(d) \in BOOLEAN /\ Answered(d)' \in BOOLEAN
  BY DEF Answered

\* The operation and performed of the memory when only those of c change.
LEMMA OneClient ==
  ASSUME NEW c \in Caches, OthersSame(c)
  PROVE  /\ [d \in Caches |-> Operation(d)]' =
              [[d \in Caches |-> Operation(d)] EXCEPT ![c] = Operation(c)']
         /\ [d \in Caches |-> Answered(d)]' =
              [[d \in Caches |-> Answered(d)] EXCEPT ![c] = Answered(c)']
<1>1. \A d \in Caches \ {c} : Operation(d)' = Operation(d)
  BY DEF OthersSame, SameAccess
<1>2. \A d \in Caches \ {c} : Answered(d)' = Answered(d)
  BY AnsweredBoolean DEF OthersSame, SameAccess
<1> QED  BY <1>1, <1>2

LEMMA SendStep ==
  ASSUME NEW c \in Caches, NEW p \in CpuPackets, OthersSame(c),
         Operation(c) = NoPacket, ~Answered(c), Operation(c)' = p, ~Answered(c)',
         AtomicContents' = AtomicContents
  PROVE  Memory!Next
<1>1. Answered(c)' = Answered(c)
  BY AnsweredBoolean
<1>2. Memory!Send(c, p)
  BY <1>1, OneClient DEF Memory!Send
<1> QED  BY <1>2 DEF Memory!Next

LEMMA RespondStep ==
  ASSUME NEW c \in Caches, OthersSame(c), Answered(c), Operation(c)' = NoPacket,
         ~Answered(c)', AtomicContents' = AtomicContents
  PROVE  Memory!Next
<1>1. Answered(c)' = FALSE
  BY AnsweredBoolean
<1>2. Memory!Respond(c)
  BY <1>1, OneClient DEF Memory!Respond
<1> QED  BY <1>2 DEF Memory!Next

\* The step performs p for c: what it returns and what it leaves.
Performs(c, p) ==
  /\ OthersSame(c) /\ Answered(c)'
  /\ Operation(c)' = IF p.cmd = "Read" THEN SetDataFromBlock(p, AtomicContents[p.blk]) ELSE p
  /\ \A x \in Blocks : AtomicContents'[x] =
       IF x = p.blk /\ p.cmd = "Write" THEN WriteDataToBlock(p, AtomicContents[x])
                                       ELSE AtomicContents[x]

LEMMA EffectStep ==
  ASSUME ContentsRight, ContentsRight', NEW c \in Caches, NEW p \in Packet, Performs(c, p)
  PROVE  Memory!TakeEffect(c, p)
<1>1. p.cmd \in {"Read", "Write"} /\ p.blk \in Blocks
  BY DEF Packet
<1>2. /\ AtomicContents = [x \in Blocks |-> AtomicContents[x]]
      /\ AtomicContents' = [x \in Blocks |-> AtomicContents'[x]]
  BY DEF ContentsRight
<1>3. \A x \in Blocks : AtomicContents'[x] =
        IF x = p.blk /\ p.cmd = "Write" THEN WriteDataToBlock(p, AtomicContents[x])
                                        ELSE AtomicContents[x]
  BY DEF Performs
<1>4. AtomicContents' = Memory!Written(p)
  <2>1. CASE p.cmd = "Read"
    BY <1>2, <1>3, <2>1 DEF Memory!Written
  <2>2. CASE p.cmd = "Write"
    <3>1. WriteDataToBlock(p, AtomicContents[p.blk]) =
            [w \in Words |-> IF w \in p.words THEN p.data[w] ELSE AtomicContents[p.blk][w]]
      BY DEF WriteDataToBlock
    <3> QED  BY <1>1, <1>2, <1>3, <2>2, <3>1 DEF Memory!Written
  <2> QED  BY <1>1, <2>1, <2>2
<1>5. Operation(c)' = Memory!Returned(p)
  BY <1>1 DEF Performs, Memory!Returned, SetDataFromBlock
<1>6. Answered(c)' = TRUE
  BY AnsweredBoolean DEF Performs
<1> QED  BY <1>4, <1>5, <1>6, OneClient DEF Memory!TakeEffect, Performs

LEMMA PerformStep ==
  ASSUME ContentsRight, ContentsRight', NEW c \in Caches, NEW p \in Packet, Performs(c, p),
         Operation(c) = p, ~Answered(c)
  PROVE  Memory!Next
<1>1. Memory!TakeEffect(c, p)
  BY EffectStep
<1>2. p # NoPacket
  BY BusAssumption
<1>3. Answered(c) = FALSE
  BY AnsweredBoolean
<1>4. Memory!Perform(c)
  BY <1>1, <1>2, <1>3 DEF Memory!Perform
<1> QED  BY <1>4 DEF Memory!Next

LEMMA SendAndPerformStep ==
  ASSUME ContentsRight, ContentsRight', NEW c \in Caches, NEW p \in CpuPackets,
         Performs(c, p), Operation(c) = NoPacket
  PROVE  Memory!Next
<1>1. Memory!TakeEffect(c, p)
  BY EffectStep, CpuPacketsTyped
<1>2. Memory!SendAndPerform(c, p)
  BY <1>1 DEF Memory!SendAndPerform
<1> QED  BY <1>2 DEF Memory!Next

\* Contents that a step leaves alone.
LEMMA KeptContents ==
  ASSUME ContentsRight, ContentsRight', NEW x \in Blocks, memory'[x] = memory[x],
         x \in Cacheable => \A d \in Caches : SameCopy(d, x)
  PROVE  AtomicContents'[x] = AtomicContents[x]
<1>1. CASE x \in Cacheable /\ \E d \in Caches : isHit(d, x)
  <2>1. PICK d \in Caches : isHit(d, x)
    BY <1>1
  <2>2. isHit(d, x)' /\ LineOf(d, x)'.data = LineOf(d, x).data
    BY <1>1, <2>1 DEF SameCopy
  <2> QED  BY <1>1, <2>1, <2>2 DEF ContentsRight
<1>2. CASE x \in Cacheable => \A d \in Caches : ~isHit(d, x)
  <2>1. x \in Cacheable => \A d \in Caches : ~isHit(d, x)'
    BY <1>2 DEF SameCopy
  <2> QED  BY <1>2, <2>1 DEF ContentsRight
<1> QED  BY <1>1, <1>2

LEMMA SameFunction ==
  ASSUME ContentsRight, ContentsRight', \A x \in Blocks : AtomicContents'[x] = AtomicContents[x]
  PROVE  AtomicContents' = AtomicContents
  BY DEF ContentsRight

\* A step that touches neither memory nor a line.
LEMMA QuietContents ==
  ASSUME MesiInv, ContentsRight, ContentsRight', memory' = memory, UNCHANGED setVars
  PROVE  AtomicContents' = AtomicContents
<1>1. \A d \in Caches, x \in Cacheable : SameCopy(d, x)
  BY QuietStep DEF MesiInv
<1> QED  BY <1>1, KeptContents, SameFunction

\* A step under which no access takes effect, and no contents change.
LEMMA StutterStep ==
  ASSUME \A d \in Caches : SameAccess(d), AtomicContents' = AtomicContents
  PROVE  UNCHANGED Memory!memoryVars
<1>1. \A d \in Caches : Operation(d)' = Operation(d) /\ Answered(d)' = Answered(d)
  BY AnsweredBoolean DEF SameAccess
<1> QED  BY <1>1 DEF Memory!memoryVars

-----------------------------------------------------------------------------
(* Requests of the CPU.                                                    *)

\* A hit performs the access in the step that sends it.
LEMMA HitPerforms ==
  ASSUME MesiInv, ContentsRight, ContentsRight',
         NEW c \in Caches, NEW p \in CpuPackets, NEW r, AnswerAtOnce(c, p, r),
         NEW b \in Cacheable, b = p.blk, isHit(c, b), NEW l \in Frame(MesiState),
         l.tag = b, l.valid, l.dirty <=> l.cohState = "Modified", l.cohState # "Invalid",
         r = IF p.cmd = "Read" THEN SetDataFromBlock(p, LineOf(c, b).data) ELSE p,
         l.data = IF p.cmd = "Read" THEN LineOf(c, b).data
                                    ELSE WriteDataToBlock(p, LineOf(c, b).data),
         lines' = [lines EXCEPT ![c] = WithLine(c, SetOf[b], tagMap[c][b], l)],
         UNCHANGED <<memory, tagMap, clkPtr>>
  PROVE  Memory!Next
<1>1. /\ Operation(c) = NoPacket /\ Operation(c)' = r /\ Answered(c)' /\ OthersSame(c)
  BY AnswerAccess DEF MesiInv
<1>2. /\ lines'[c] = WithLine(c, SetOf[b], tagMap[c][b], l)
      /\ \A d \in Caches \ {c} : lines'[d] = lines[d]
  BY DEF MesiInv, FramesInv, SetsTypeOK
<1>3. /\ isHit(c, b)' /\ LineOf(c, b)' = l
      /\ \A x \in Cacheable \ {b} : SameCopy(c, x)
  <2>1. MesiCacheInv(c) /\ Present(c, b)
    BY DEF MesiInv, FramesInv, isHit
  <2> QED  BY <1>2, <2>1, ReplacedCopy
<1>4. \A d \in Caches \ {c}, x \in Cacheable : SameCopy(d, x)
  BY <1>2, UntouchedCache DEF MesiInv, FramesInv
<1>5. \A x \in Blocks \ {b} : AtomicContents'[x] = AtomicContents[x]
  BY <1>3, <1>4, KeptContents
<1>6. /\ AtomicContents[b] = LineOf(c, b).data
      /\ AtomicContents'[b] = l.data
  BY <1>3 DEF ContentsRight
<1>7. p \in Packet /\ p.cmd \in {"Read", "Write"}
  BY CpuPacketsTyped DEF Packet
<1>8. Performs(c, p)
  BY <1>1, <1>5, <1>6, <1>7 DEF Performs
<1> QED  BY <1>1, <1>8, SendAndPerformStep

LEMMA ReadHitMemory ==
  ASSUME MesiInv, ContentsRight, ContentsRight',
         NEW c \in Caches, NEW p \in CpuPackets, ReadHit(c, p)
  PROVE  Memory!Next
<1> DEFINE k == LineOf(c, p.blk)
           l == [k EXCEPT !.clkFlag = 1]
<1>1. /\ p.blk \in Cacheable /\ isHit(c, p.blk) /\ p.cmd = "Read"
      /\ AnswerAtOnce(c, p, SetDataFromBlock(p, k.data))
      /\ lines' = [lines EXCEPT ![c][SetOf[p.blk]][tagMap[c][p.blk]].clkFlag = 1]
      /\ UNCHANGED <<memory, tagMap, clkPtr>>
  BY DEF ReadHit, isCacheablePacket
<1>2. k \in Frame(MesiState) /\ k.valid /\ k.tag = p.blk
      /\ (k.dirty <=> k.cohState = "Modified") /\ k.cohState # "Invalid"
  BY <1>1, LineFacts DEF MesiInv, FramesInv, isHit
<1>3. /\ l \in Frame(MesiState) /\ l.valid /\ l.tag = p.blk
      /\ l.cohState = k.cohState /\ l.data = k.data /\ l.dirty = k.dirty
  <2> HIDE DEF k
  <2> QED  BY <1>2 DEF Frame
<1>4. (l.dirty <=> l.cohState = "Modified") /\ l.cohState # "Invalid"
  BY <1>2, <1>3
<1>5. lines' = [lines EXCEPT ![c] = WithLine(c, SetOf[p.blk], tagMap[c][p.blk], l)]
  BY <1>1 DEF WithLine, LineOf
<1>6. l.data = IF p.cmd = "Read" THEN k.data ELSE WriteDataToBlock(p, k.data)
  BY <1>1, <1>3
<1>7. PICK r : r = SetDataFromBlock(p, k.data)
  OBVIOUS
<1>8. r = IF p.cmd = "Read" THEN SetDataFromBlock(p, k.data) ELSE p
  BY <1>1, <1>7
<1>9. AnswerAtOnce(c, p, r) /\ p.blk \in Cacheable /\ isHit(c, p.blk)
      /\ UNCHANGED <<memory, tagMap, clkPtr>>
  BY <1>1, <1>7
<1> HIDE DEF l
<1> QED  BY <1>3, <1>4, <1>5, <1>6, <1>8, <1>9, HitPerforms

LEMMA WriteHitMemory ==
  ASSUME MesiInv, ContentsRight, ContentsRight',
         NEW c \in Caches, NEW p \in CpuPackets, WriteHit(c, p)
  PROVE  Memory!Next
<1> DEFINE k == LineOf(c, p.blk)
           l == OwnedWrite(k, p)
<1>1. /\ p.blk \in Cacheable /\ isHit(c, p.blk) /\ p.cmd = "Write"
      /\ AnswerAtOnce(c, p, p)
      /\ lines' = [lines EXCEPT ![c] = WithLine(c, SetOf[p.blk], tagMap[c][p.blk], l)]
      /\ UNCHANGED <<memory, tagMap, clkPtr>>
  BY DEF WriteHit, isCacheablePacket
<1>2. k \in Frame(MesiState) /\ k.valid /\ k.tag = p.blk
  BY <1>1, LineFacts DEF MesiInv, FramesInv, isHit
<1>3. WriteDataToBlock(p, k.data) \in [Words -> Values]
  BY <1>2, CpuPacketsTyped, WriteDataTyped DEF Frame
<1>4. /\ l \in Frame(MesiState) /\ l.valid /\ l.tag = p.blk
      /\ l.dirty /\ l.cohState = "Modified" /\ l.data = WriteDataToBlock(p, k.data)
  <2> HIDE DEF k
  <2> QED  BY <1>2, <1>3 DEF OwnedWrite, Frame, MesiState
<1> HIDE DEF l
<1> QED  BY <1>1, <1>4, HitPerforms

\* A request that waits for the bus is sent.
LEMMA WaitMemory ==
  ASSUME MesiInv, ContentsRight, ContentsRight',
         NEW c \in Caches, NEW p \in CpuPackets, WaitForBus(c, p),
         UNCHANGED <<memory, setVars>>
  PROVE  Memory!Next
<1>1. /\ Operation(c) = NoPacket /\ ~Answered(c)
      /\ Operation(c)' = p /\ ~Answered(c)' /\ OthersSame(c)
  BY WaitAccess DEF MesiInv
<1> QED  BY <1>1, QuietContents, SendStep

LEMMA ProcessCpuRespMemory ==
  ASSUME MesiInv, ContentsRight, ContentsRight',
         NEW c \in Caches, ProcessCpuResp(c), UNCHANGED setVars
  PROVE  Memory!Next
<1>1. /\ Answered(c) /\ Operation(c)' = NoPacket /\ ~Answered(c)' /\ OthersSame(c)
  BY DeliveryAccess DEF MesiInv
<1>2. memory' = memory
  BY DEF ProcessCpuResp
<1> QED  BY <1>1, <1>2, QuietContents, RespondStep

-----------------------------------------------------------------------------
(* The bus and memory.                                                     *)

LEMMA GrantMemory ==
  ASSUME MesiInv, ContentsRight, ContentsRight',
         UNCHANGED <<memPortVars, memory, cpuPkt, cpuRespQueue, setVars>>
  PROVE  UNCHANGED Memory!memoryVars
<1>1. \A d \in Caches : SameAccess(d)
  BY QuietAccess DEF memPortVars
<1> QED  BY <1>1, QuietContents, StutterStep

LEMMA UncachedForwardMemory ==
  ASSUME MesiInv, ContentsRight, ContentsRight',
         NEW m, UncachedForward(m), UNCHANGED setVars
  PROVE  UNCHANGED Memory!memoryVars
<1>1. /\ UNCHANGED <<cpuPkt, cpuRespQueue, memory>>
      /\ sendPacket([pkt |-> m.pkt, from |-> m.from])
  BY DEF UncachedForward, cpuSideVars
<1>2. \A d \in Caches : SameAccess(d)
  BY <1>1, SendAccess
<1> QED  BY <1>1, <1>2, QuietContents, StutterStep

LEMMA RetryMemory ==
  ASSUME MesiInv, ContentsRight, ContentsRight',
         RecvReqRetry, UNCHANGED <<cpuSideVars, setVars>>
  PROVE  UNCHANGED Memory!memoryVars
<1>1. memory' = memory /\ UNCHANGED <<cpuPkt, cpuRespQueue>>
  BY DEF RecvReqRetry, cpuSideVars
<1>2. \A d \in Caches : SameAccess(d)
  BY <1>1, RetryAccess
<1> QED  BY <1>1, <1>2, QuietContents, StutterStep

\* Memory performs the access of an uncached packet, and of no other.
LEMMA MemAccessMemory ==
  ASSUME MesiInv, PacketCarried, ContentsRight, ContentsRight',
         NEW m, MemAccess(m), UNCHANGED <<cpuSideVars, setVars>>
  PROVE  Memory!Next \/ UNCHANGED Memory!memoryVars
<1>1. /\ m \in inMemory /\ currentGranted \in Caches
      /\ memory \in [Blocks -> [Words -> Values]]
      /\ memory' = IF m.pkt.cmd = "Read" THEN memory
                   ELSE [memory EXCEPT ![m.pkt.blk] = WriteDataToBlock(m.pkt, @)]
  <2>1. currentGranted # NoCache
    BY DEF MemAccess, MesiInv, BaseInv, TransactionShape, Idle, Queued, Refused, AtMemory
  <2> QED  BY <2>1 DEF MemAccess, MesiInv, BaseInv, BaseTypeOK, BusTypeOK
<1>2. CASE isCacheablePacket(CurrentPacket)
  <2>1. \A d \in Caches : SameAccess(d)
    BY <1>2, FetchAccess DEF MesiInv
  <2>2. m.pkt.cmd = "Read"
    BY <1>1, <1>2 DEF MesiInv, BaseInv, TransactionMatches, CurrentPacket, generateAlignAccess
  <2> QED  BY <1>1, <2>1, <2>2, QuietContents, StutterStep
<1>3. CASE ~isCacheablePacket(CurrentPacket)
  <2>1. PICK c \in Caches : c = currentGranted
    BY <1>1
  <2>2. PICK p : p = cpuPkt[c]
    OBVIOUS
  <2>3. /\ Operation(c) = p /\ p \in Packet /\ ~Answered(c) /\ m.pkt = p
        /\ Operation(c)' = IF p.cmd = "Read" THEN SetDataFromBlock(p, memory[p.blk]) ELSE p
        /\ Answered(c)' /\ OthersSame(c)
    BY <1>3, <2>1, <2>2, UncachedAccess DEF MesiInv
  <2>4. p.blk \in Blocks \ Cacheable /\ p.cmd \in {"Read", "Write"}
    BY <1>3, <2>1, <2>2, <2>3 DEF isCacheablePacket, CurrentPacket, Packet
  <2>5. \A d \in Caches, x \in Cacheable : SameCopy(d, x)
    BY UntouchedCache DEF MesiInv, FramesInv, setVars
  <2>6. \A x \in Blocks : x # p.blk => memory'[x] = memory[x]
    BY <1>1, <2>3
  <2>7. memory'[p.blk] = IF p.cmd = "Read" THEN memory[p.blk]
                         ELSE WriteDataToBlock(p, memory[p.blk])
    BY <1>1, <2>3, <2>4
  <2>8. \A x \in Blocks : x # p.blk => AtomicContents'[x] = AtomicContents[x]
    BY <2>5, <2>6, KeptContents
  <2>9. /\ AtomicContents[p.blk] = memory[p.blk]
        /\ AtomicContents'[p.blk] = memory'[p.blk]
    BY <2>4 DEF ContentsRight
  <2>10. Performs(c, p)
    BY <2>3, <2>4, <2>7, <2>8, <2>9 DEF Performs
  <2> QED  BY <2>3, <2>10, PerformStep
<1> QED  BY <1>2, <1>3

\* The response of an uncached access goes to the CPU at once.
LEMMA UncachedResponseMemory ==
  ASSUME MesiInv, ContentsRight, ContentsRight',
         NEW m, NEW c \in Caches, UncachedResponse(m, c), UNCHANGED setVars
  PROVE  Memory!Next
<1>1. /\ Answered(c) /\ Operation(c)' = NoPacket /\ ~Answered(c)' /\ OthersSame(c)
  BY UncachedResponseAccess DEF MesiInv
<1>2. memory' = memory
  BY DEF UncachedResponse
<1> QED  BY <1>1, <1>2, QuietContents, RespondStep

-----------------------------------------------------------------------------
(* The snoop and the end of a transaction.                                 *)

\* The snoop of a transaction that goes on to memory moves a Modified copy's
\* data to memory, which changes nothing for the CPUs.
LEMMA SnoopAndFetchMemory ==
  ASSUME MesiInv, ContentsRight, ContentsRight', NEW m, SnoopAndFetch(m)
  PROVE  UNCHANGED Memory!memoryVars
<1>1. /\ m \in MemReq /\ m.pkt \in Packet /\ m.pkt.blk \in Cacheable
      /\ m.from \in Caches /\ ~isHit(m.from, m.pkt.blk)
  BY SnoopFinds DEF SnoopAndFetch
<1>2. /\ lines' = LinesAfterSnoop(m) /\ memory' = MemoryAfterSnoop(m)
      /\ sendPacket([pkt |-> generateAlignAccess(m.pkt), from |-> m.from])
      /\ UNCHANGED <<cpuPkt, cpuRespQueue, tagMap, clkPtr>>
  BY DEF SnoopAndFetch, cpuSideVars
<1>3. PICK g \in Caches, b \in Cacheable : g = m.from /\ b = m.pkt.blk
  BY <1>1
<1>4. FramesInv /\ CopiesInv /\ memory \in [Blocks -> [Words -> Values]] /\ b \in Blocks
  BY BusAssumption DEF MesiInv, BaseInv, BaseTypeOK, BusTypeOK
<1>5. /\ \A x \in Blocks \ {b} : memory'[x] = memory[x]
      /\ \A d \in Caches \ {g} : isHit(d, b) => LineOf(d, b).data = memory'[b]
  BY <1>1, <1>2, <1>3, <1>4, SnoopedMemory
<1>6. \A d \in Caches \ {g} :
        /\ \A x \in Cacheable \ {b} : SameCopy(d, x)
        /\ isHit(d, b)' => isHit(d, b) /\ LineOf(d, b)'.data = LineOf(d, b).data
  <2> TAKE d \in Caches \ {g}
  <2>1. lines'[d] = LinesAfterSnoop(m)[d] /\ tagMap'[d] = tagMap[d] /\ clkPtr'[d] = clkPtr[d]
    BY <1>2
  <2>2. d \in Caches \ {m.from}
    BY <1>3
  <2> QED  BY <1>1, <1>3, <1>4, <2>1, <2>2, SnoopedCopy
<1>7. \A x \in Cacheable : SameCopy(g, x)
  <2>1. lines'[g] = lines[g]
    BY <1>2, <1>3 DEF LinesAfterSnoop, SnoopHits
  <2> QED  BY <1>2, <1>4, <2>1, UntouchedCache DEF FramesInv
<1>8. ~isHit(g, b) /\ ~isHit(g, b)'
  BY <1>1, <1>3, <1>7 DEF SameCopy
<1>9. \A x \in Blocks \ {b} : AtomicContents'[x] = AtomicContents[x]
  BY <1>5, <1>6, <1>7, KeptContents
<1>10. AtomicContents[b] = memory'[b]
  <2>1. CASE \E d \in Caches : isHit(d, b)
    <3>1. PICK d \in Caches : isHit(d, b)
      BY <2>1
    <3> QED  BY <1>5, <1>8, <3>1 DEF ContentsRight
  <2>2. CASE \A d \in Caches : ~isHit(d, b)
    <3>1. SnoopHits(m) = {}
      BY <1>3, <2>2 DEF SnoopHits
    <3>2. memory' = memory
      BY <1>2, <3>1 DEF MemoryAfterSnoop
    <3> QED  BY <1>4, <2>2, <3>2 DEF ContentsRight
  <2> QED  BY <2>1, <2>2
<1>11. AtomicContents'[b] = memory'[b]
  <2>1. CASE \E d \in Caches : isHit(d, b)'
    <3>1. PICK d \in Caches : isHit(d, b)'
      BY <2>1
    <3>2. LineOf(d, b)'.data = memory'[b]
      BY <1>5, <1>6, <1>8, <3>1
    <3> QED  BY <3>1, <3>2 DEF ContentsRight
  <2>2. CASE \A d \in Caches : ~isHit(d, b)'
    BY <1>4, <2>2 DEF ContentsRight
  <2> QED  BY <2>1, <2>2
<1>12. AtomicContents' = AtomicContents
  BY <1>9, <1>10, <1>11, SameFunction
<1>13. \A d \in Caches : SameAccess(d)
  BY <1>2, SendAccess
<1> QED  BY <1>12, <1>13, StutterStep

\* The end of a transaction: block b is what its cache now holds, the others
\* are what they were, a victim's data having gone to memory.
LEMMA EndedContents ==
  ASSUME MesiInv, ContentsRight, ContentsRight',
         NEW g \in Caches, NEW b \in Cacheable, NEW l, NEW mem, EndsWith(g, b, l, mem)
  PROVE  /\ AtomicContents'[b] = l.data
         /\ \A x \in Blocks \ {b} : AtomicContents'[x] = AtomicContents[x]
<1>1. /\ isHit(g, b)' /\ LineOf(g, b)' = l
      /\ \A x \in Cacheable \ {b} :
           \/ SameCopy(g, x)
           \/ ~isHit(g, x)' /\ ~Present(g, b) /\ Evicts(g, b) /\ x = Victim(g, b).tag
      /\ \A x \in Blocks \ {b} : memory'[x] # memory[x] =>
           x \in Cacheable /\ Owns(g, x) /\ ~isHit(g, x)'
      /\ \A x \in Cacheable \ {b} :
           ~Present(g, b) /\ Evicts(g, b) /\ x = Victim(g, b).tag =>
             memory'[x] = IF LineOf(g, x).dirty THEN LineOf(g, x).data ELSE memory[x]
  BY OwnCopies
<1>2. AtomicContents'[b] = l.data
  BY <1>1 DEF ContentsRight
<1>3. \A d \in Caches \ {g}, x \in Cacheable \ {b} : SameCopy(d, x)
  BY DEF EndsWith, OthersFit
<1>4. ASSUME NEW x \in Blocks \ {b} PROVE AtomicContents'[x] = AtomicContents[x]
  <2>1. CASE x \in Cacheable /\ \E d \in Caches : isHit(d, x)'
    <3>1. PICK d \in Caches : isHit(d, x)'
      BY <2>1
    <3>2. isHit(d, x) /\ LineOf(d, x)'.data = LineOf(d, x).data
      BY <1>1, <1>3, <2>1, <3>1 DEF SameCopy
    <3> QED  BY <2>1, <3>1, <3>2 DEF ContentsRight
  <2>2. CASE x \in Cacheable => \A d \in Caches : ~isHit(d, x)'
    <3>1. AtomicContents'[x] = memory'[x]
      BY <2>2 DEF ContentsRight
    <3>2. CASE x \in Cacheable /\ isHit(g, x)
      <4>1. memory'[x] = IF LineOf(g, x).dirty THEN LineOf(g, x).data ELSE memory[x]
        BY <1>1, <2>2, <3>2 DEF SameCopy
      <4>2. AtomicContents[x] = LineOf(g, x).data
        BY <3>2 DEF ContentsRight
      <4>3. ~LineOf(g, x).dirty => LineOf(g, x).data = memory[x]
        <5>1. LineOf(g, x).dirty <=> LineOf(g, x).cohState = "Modified"
          BY <3>2, LineFacts DEF MesiInv, FramesInv, isHit
        <5> QED  BY <3>2, <5>1 DEF MesiInv, CopiesInv, CleanCopiesCurrent
      <4> QED  BY <3>1, <4>1, <4>2, <4>3
    <3>3. CASE ~(x \in Cacheable /\ isHit(g, x))
      <4>1. memory'[x] = memory[x]
        BY <1>1, <3>3 DEF Owns
      <4>2. x \in Cacheable => \A d \in Caches : ~isHit(d, x)
        BY <1>3, <2>2, <3>3 DEF SameCopy
      <4> QED  BY <3>1, <4>1, <4>2 DEF ContentsRight
    <3> QED  BY <3>2, <3>3
  <2> QED  BY <2>1, <2>2
<1> QED  BY <1>2, <1>4

\* A write that needs no data from memory takes effect as a whole.
LEMMA SnoopAndCompleteMemory ==
  ASSUME MesiInv, ContentsRight, ContentsRight', NEW m, SnoopAndComplete(m)
  PROVE  Memory!Next
<1>1. PICK g, p, b : g = m.from /\ p = m.pkt /\ b = p.blk
  OBVIOUS
<1>2. /\ p \in Packet /\ currentGranted = g /\ p = cpuPkt[g] /\ inMemory = {}
  BY <1>1, SnoopFinds DEF SnoopAndComplete
<1>3. /\ g \in Caches /\ b \in Cacheable /\ p.cmd = "Write" /\ (isHit(g, b) \/ FullBlock(p))
      /\ isHit(g, b) => FetchedData(g, p) = LineOf(g, b).data
      /\ \E l, mem : EndsWith(g, b, l, mem) /\ l.data = WriteDataToBlock(p, FetchedData(g, p))
  BY <1>1, SnoopAndCompleteEnds
<1>4. PICK l, mem : EndsWith(g, b, l, mem) /\ l.data = WriteDataToBlock(p, FetchedData(g, p))
  BY <1>3
<1>5. FinishTransaction(g, p, FALSE) /\ inMemory' = inMemory
  BY <1>1 DEF SnoopAndComplete, memPortVars
<1>6. /\ Operation(g) = p /\ ~Answered(g) /\ Operation(g)' = p /\ Answered(g)'
      /\ OthersSame(g)
  BY <1>2, <1>3, <1>5, FinishAccess DEF MesiInv
<1>7. /\ AtomicContents'[b] = l.data
      /\ \A x \in Blocks \ {b} : AtomicContents'[x] = AtomicContents[x]
  BY <1>3, <1>4, EndedContents
<1>8. l.data = WriteDataToBlock(p, AtomicContents[b])
  <2>1. CASE isHit(g, b)
    BY <1>3, <1>4, <2>1 DEF ContentsRight
  <2>2. CASE FullBlock(p)
    BY <1>4, <2>2 DEF FullBlock, WriteDataToBlock
  <2> QED  BY <1>3, <2>1, <2>2
<1>9. Performs(g, p)
  BY <1>1, <1>3, <1>6, <1>7, <1>8 DEF Performs
<1> QED  BY <1>2, <1>3, <1>6, <1>9, PerformStep

\* The response from memory: the access takes effect.
LEMMA MemRespMemory ==
  ASSUME MesiInv, ContentsRight, ContentsRight', NEW m, NEW g \in Caches, MemResp(m, g)
  PROVE  Memory!Next
<1>1. PICK p, b : p = cpuPkt[g] /\ b = p.blk
  OBVIOUS
<1>2. /\ p \in Packet /\ requestPacket[g] = p /\ b \in Cacheable
      /\ inMemory = {m} /\ isCacheablePacket(m.pkt) /\ currentGranted = g
      /\ FetchedData(g, m.pkt) = memory[b]
      /\ \A d \in Caches : isHit(d, b) => LineOf(d, b).data = memory[b]
      /\ \E l, mem : /\ EndsWith(g, b, l, mem)
                     /\ l.data = IF p.cmd = "Read" THEN memory[b]
                                                   ELSE WriteDataToBlock(p, memory[b])
  BY <1>1, MemRespEnds
<1>3. PICK l, mem : /\ EndsWith(g, b, l, mem)
                    /\ l.data = IF p.cmd = "Read" THEN memory[b]
                                                  ELSE WriteDataToBlock(p, memory[b])
  BY <1>2
<1>4. PICK r : r = ResponsePacket(g, p, m.pkt)
  OBVIOUS
<1>5. r = IF p.cmd = "Read" THEN SetDataFromBlock(p, memory[b]) ELSE p
  BY <1>2, <1>4 DEF ResponsePacket
<1>6. FinishTransaction(g, r, TRUE) /\ inMemory' \subseteq inMemory
  BY <1>2, <1>4 DEF MemResp, TakeResponse
<1>7. /\ Operation(g) = p /\ ~Answered(g) /\ Operation(g)' = r /\ Answered(g)'
      /\ OthersSame(g)
  BY <1>1, <1>2, <1>6, FinishAccess DEF MesiInv
<1>8. /\ AtomicContents'[b] = l.data
      /\ \A x \in Blocks \ {b} : AtomicContents'[x] = AtomicContents[x]
  BY <1>2, <1>3, EndedContents
<1>9. AtomicContents[b] = memory[b]
  <2>1. CASE \E d \in Caches : isHit(d, b)
    BY <1>2, <2>1 DEF ContentsRight
  <2>2. CASE \A d \in Caches : ~isHit(d, b)
    BY <1>2, <2>2, BusAssumption DEF ContentsRight
  <2> QED  BY <2>1, <2>2
<1>10. p.cmd \in {"Read", "Write"}
  BY <1>2 DEF Packet
<1>11. Performs(g, p)
  BY <1>1, <1>3, <1>5, <1>7, <1>8, <1>9, <1>10 DEF Performs
<1> QED  BY <1>2, <1>7, <1>11, PerformStep

-----------------------------------------------------------------------------

LEMMA MemoryInit == Init => Memory!Init
<1> SUFFICES ASSUME Init PROVE Memory!Init
  OBVIOUS
<1>1. /\ memory \in [Blocks -> [Words -> Values]]
      /\ inMemory = {} /\ cpuPkt = [c \in Caches |-> NoPacket]
      /\ cpuRespQueue = [c \in Caches |-> <<>>]
      /\ \A c \in Caches, b \in Cacheable : ~isHit(c, b)
  BY DEF Init, BaseInit, BusInit, SetsInit, isHit, Present
<1>2. AtomicContents = memory
  BY <1>1 DEF AtomicContents
<1>3. \A c \in Caches : Operation(c) = NoPacket /\ ~Answered(c)
  BY <1>1 DEF Operation, Answered, UncachedAnswer
<1>4. \A c \in Caches : Answered(c) = FALSE
  BY <1>3, AnsweredBoolean
<1> QED  BY <1>1, <1>2, <1>3, <1>4 DEF Memory!Init

LEMMA MemoryStep ==
  ASSUME MesiInv, PacketCarried, ContentsRight, ContentsRight', [Next]_vars
  PROVE  [Memory!Next]_Memory!memoryVars
<1> DEFINE Mapped == Memory!Next \/ UNCHANGED Memory!memoryVars
<1>1. ASSUME NEW c \in Caches, NEW p \in CpuPackets, CpuRequest(c, p)
      PROVE  Mapped
  BY <1>1, ReadHitMemory, WriteHitMemory, WaitMemory
     DEF CpuRequest, BusRequest, UncachedRequest
<1>2. ASSUME ProcessGrantEvent
      PROVE  Mapped
  <2>1. UNCHANGED <<memPortVars, memory, cpuPkt, cpuRespQueue, setVars>>
    BY <1>2 DEF ProcessGrantEvent, BusGrant, UncachedGrant, IdleGrant, GrantNobody, cpuSideVars
  <2> QED  BY <2>1, GrantMemory
<1>3. ASSUME ProcessMemReqEvent
      PROVE  Mapped
  BY <1>3, SnoopAndFetchMemory, SnoopAndCompleteMemory, UncachedForwardMemory
     DEF ProcessMemReqEvent
<1>4. ASSUME MemorySide, UNCHANGED setVars
      PROVE  Mapped
  BY <1>4, RetryMemory, MemAccessMemory DEF MemorySide
<1>5. ASSUME RecvTimingResp
      PROVE  Mapped
  BY <1>5, MemRespMemory, UncachedResponseMemory DEF RecvTimingResp
<1>6. ASSUME NEW c \in Caches, ProcessCpuResp(c), UNCHANGED setVars
      PROVE  Mapped
  BY <1>6, ProcessCpuRespMemory
<1>7. CASE UNCHANGED vars
  <2>1. UNCHANGED <<memPortVars, memory, cpuPkt, cpuRespQueue, setVars>>
    BY <1>7 DEF vars, busVars, memPortVars, cpuSideVars
  <2> QED  BY <2>1, GrantMemory
<1> HIDE DEF Mapped
<1>8. ASSUME Next PROVE Mapped
  BY <1>1, <1>2, <1>3, <1>4, <1>5, <1>6, <1>8 DEF Next
<1> QED  BY <1>7, <1>8 DEF Mapped

\* MESI caches, the bus and memory together are one atomic memory to the CPUs:
\* every access takes effect at one instant between its request and its
\* response, so no write is lost and no read returns an old value.
THEOREM MesiImplementsAtomicMemory == Spec => ImplementsAtomicMemory
<1>1. MesiInv /\ PacketCarried /\ ContentsRight /\ ContentsRight'
        /\ [Next]_vars => [Memory!Next]_Memory!memoryVars
  BY MemoryStep
<1>2. Spec => []PacketCarried
  BY MesiImplementsBase, PacketCarriedAlways, PTL
<1> QED  BY <1>1, <1>2, MemoryInit, MesiInvariant, ContentsFacts, PTL
         DEF Spec, ImplementsAtomicMemory, Memory!Spec

=============================================================================
