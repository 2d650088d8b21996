-------------------------- MODULE SharedWriteProofs --------------------------
(***************************************************************************)
(* Caches that update or invalidate, proved for any number of caches,      *)
(* sets, ways, blocks, words and values, and for whatever choice is made   *)
(* at each grant: copies agree, at most one owes memory its data, no       *)
(* assert of a handler fails, every step is one of the base class, and     *)
(* together the caches implement one atomic memory.                        *)
(***************************************************************************)
EXTENDS SharedWriteCache, BaseProofs

\* A line is dirty only while its cache owns the block.
Marked(l) ==
  /\ l.dirty => l.cohState \in {"Modified", "SharedMod"}
  /\ l.cohState = "Modified" => l.dirty

FramesMarked(c) == \A s \in Sets, w \in Ways : Marked(lines[c][s][w])

SharedCacheInv(c) == CacheInv(c, CoherenceStates) /\ FramesMarked(c)

FramesInv == SetsTypeOK(CoherenceStates) /\ \A c \in Caches : SharedCacheInv(c)

CopiesInv == SingleOwner /\ CopiesAgree /\ StaleMemoryHasDirtyCopy

\* A cache that waits for the bus still needs it: snoops only take copies away
\* or make them shared.
WaitersNeedBus ==
  \A c \in Caches :
    Waiting(c) /\ isCacheablePacket(cpuPkt[c]) => NeedsBus(c, cpuPkt[c])

\* Until the snoop, what the grant decided is what it would still decide.
GrantStillRight ==
  InCacheableTransaction =>
    LET g == currentGranted
        p == CurrentPacket
    IN /\ memReqQueue # <<>> =>
            /\ Head(memReqQueue).toMem = NeedsMemory(g, p)
            /\ currBusOp \in Ops(g, p)
            /\ ~sharedWire
            /\ isHit(g, p.blk) => p.cmd = "Write" /\ ~WritesSilently(LineOf(g, p.blk))
       /\ memReqQueue = <<>> => ~isHit(g, p.blk)

\* After the snoop, the block's copies are memory's block, with the write.
CopiesFitFetch ==
  InCacheableTransaction /\ memReqQueue = <<>> =>
    LET p == CurrentPacket IN
      \A d \in Caches : isHit(d, p.blk) =>
        LineOf(d, p.blk).data =
          IF p.cmd = "Write" THEN WriteDataToBlock(p, memory[p.blk]) ELSE memory[p.blk]

\* A fetched block is still what memory holds when it arrives.
FetchStaysCurrent ==
  InCacheableTransaction =>
    \A m \in inMemory : m.answered => m.pkt.data = memory[m.pkt.blk]

FlightInv ==
  /\ WaitersNeedBus
  /\ GrantStillRight
  /\ WireTellsTruth
  /\ CopiesFitFetch
  /\ FetchStaysCurrent

SharedInv == BaseInv /\ FramesInv /\ CopiesInv /\ FlightInv

-----------------------------------------------------------------------------
(* What a step does to one cache.                                          *)

\* The step leaves cache d's copy of x alone, up to its clock flag.
SameCopy(d, x) ==
  /\ isHit(d, x)' <=> isHit(d, x)
  /\ isHit(d, x) => /\ LineOf(d, x)'.cohState = LineOf(d, x).cohState
                    /\ LineOf(d, x)'.dirty = LineOf(d, x).dirty
                    /\ LineOf(d, x)'.data = LineOf(d, x).data

LEMMA UntouchedCache ==
  ASSUME NEW d, SharedCacheInv(d),
         lines'[d] = lines[d], tagMap'[d] = tagMap[d], clkPtr'[d] = clkPtr[d]
  PROVE  SharedCacheInv(d)' /\ \A x \in Cacheable : SameCopy(d, x)
<1>1. \A x : (Present(d, x)' <=> Present(d, x)) /\ LineOf(d, x)' = LineOf(d, x)
  BY DEF Present, LineOf
<1>2. CacheInv(d, CoherenceStates)'
  BY <1>1 DEF SharedCacheInv, CacheInv, CacheTyped, MapAgrees, FillOrder, SetFull
<1>3. FramesMarked(d)'
  BY DEF SharedCacheInv, FramesMarked, Marked
<1>4. \A x \in Cacheable : SameCopy(d, x)
  BY <1>1 DEF SameCopy, isHit
<1> QED  BY <1>2, <1>3, <1>4 DEF SharedCacheInv

\* The line of a present block, in any cache.
LEMMA LineFacts ==
  ASSUME NEW c, NEW b \in Cacheable, SharedCacheInv(c), Present(c, b)
  PROVE  /\ LineOf(c, b) \in Frame(CoherenceStates)
         /\ LineOf(c, b).valid /\ LineOf(c, b).tag = b
         /\ Marked(LineOf(c, b))
<1>1. SetOf[b] \in Sets /\ tagMap[c][b] \in Ways
  BY SetOfTyped DEF SharedCacheInv, CacheInv, CacheTyped, Present
<1> QED  BY <1>1 DEF SharedCacheInv, CacheInv, CacheTyped, MapAgrees, FramesMarked, LineOf

\* A line that replaces the line of its block.
LEMMA ReplacedCopy ==
  ASSUME NEW c, NEW b \in Cacheable, NEW l \in Frame(CoherenceStates),
         SharedCacheInv(c), Present(c, b), l.tag = b, l.valid, Marked(l),
         lines'[c] = WithLine(c, SetOf[b], tagMap[c][b], l),
         tagMap'[c] = tagMap[c], clkPtr'[c] = clkPtr[c]
  PROVE  /\ SharedCacheInv(c)'
         /\ isHit(c, b)' <=> l.cohState # "Invalid"
         /\ LineOf(c, b)' = l
         /\ \A x \in Cacheable \ {b} : SameCopy(c, x)
<1>1. CacheInv(c, CoherenceStates)
  BY DEF SharedCacheInv
<1>2. /\ CacheInv(c, CoherenceStates)'
      /\ \A x \in Cacheable : Present(c, x)' <=> Present(c, x)
      /\ LineOf(c, b)' = l
      /\ \A x \in Cacheable \ {b} : Present(c, x) => LineOf(c, x)' = LineOf(c, x)
      /\ \A s \in Sets, w \in Ways :
           lines'[c][s][w] = l \/ lines'[c][s][w] = lines[c][s][w]
  BY <1>1, LineReplaced
<1>3. FramesMarked(c)'
  <2>1. \A s \in Sets, w \in Ways : Marked(lines'[c][s][w])
    BY <1>2 DEF SharedCacheInv, FramesMarked
  <2> QED  BY <2>1 DEF FramesMarked, Marked
<1>4. \A x \in Cacheable \ {b} : SameCopy(c, x)
  BY <1>2 DEF SameCopy, isHit
<1>5. isHit(c, b)' <=> l.cohState # "Invalid"
  BY <1>2 DEF isHit
<1> QED  BY <1>2, <1>3, <1>4, <1>5 DEF SharedCacheInv

\* A line that ends a transaction, with what was evicted for it.
LEMMA PlacedCopy ==
  ASSUME NEW c, NEW b \in Cacheable, NEW l \in Frame(CoherenceStates),
         SharedCacheInv(c), l.tag = b, l.valid, Marked(l),
         lines'[c] = LinesWith(c, b, l),
         tagMap'[c] = IF Present(c, b) THEN tagMap[c] ELSE TagMapAfterFill(c, b),
         clkPtr'[c] = IF Present(c, b) THEN clkPtr[c] ELSE ClkPtrAfterFill(c, b)
  PROVE  /\ SharedCacheInv(c)'
         /\ isHit(c, b)' <=> l.cohState # "Invalid"
         /\ LineOf(c, b)' = l
         /\ \A x \in Cacheable \ {b} :
              \/ SameCopy(c, x)
              \/ /\ ~isHit(c, x)'
                 /\ ~Present(c, b) /\ Evicts(c, b) /\ x = Victim(c, b).tag
<1>1. CASE Present(c, b)
  BY <1>1, ReplacedCopy DEF LinesWith
<1>2. CASE ~Present(c, b)
  <2>1. CacheInv(c, CoherenceStates)
    BY DEF SharedCacheInv
  <2>2. /\ lines'[c] = LinesAfterFill(c, b, l)
        /\ tagMap'[c] = TagMapAfterFill(c, b) /\ clkPtr'[c] = ClkPtrAfterFill(c, b)
    BY <1>2 DEF LinesWith
  <2>3. /\ CacheInv(c, CoherenceStates)'
        /\ Present(c, b)' /\ LineOf(c, b)' = l
        /\ \A x \in Cacheable \ {b} :
             /\ Present(c, x)' <=> Present(c, x) /\ ~(Evicts(c, b) /\ x = Victim(c, b).tag)
             /\ Present(c, x)' => SameButFlag(LineOf(c, x), LineOf(c, x)')
        /\ \A s \in Sets, w \in Ways :
             lines'[c][s][w] = l \/ SameButFlag(lines[c][s][w], lines'[c][s][w])
    BY <1>2, <2>1, <2>2, LineFilled
  <2>4. FramesMarked(c)'
    <3>1. \A s \in Sets, w \in Ways : Marked(lines'[c][s][w])
      BY <2>3 DEF SharedCacheInv, FramesMarked, SameButFlag, Marked
    <3> QED  BY <3>1 DEF FramesMarked, Marked
  <2>5. ASSUME NEW x \in Cacheable \ {b}
        PROVE  \/ SameCopy(c, x)
               \/ ~isHit(c, x)' /\ Evicts(c, b) /\ x = Victim(c, b).tag
    <3>1. CASE Present(c, x)'
      BY <2>3, <3>1 DEF SameCopy, isHit, SameButFlag
    <3>2. CASE ~Present(c, x)'
      BY <2>3, <3>2 DEF SameCopy, isHit
    <3> QED  BY <3>1, <3>2
  <2>6. isHit(c, b)' <=> l.cohState # "Invalid"
    BY <2>3 DEF isHit
  <2> QED  BY <1>2, <2>3, <2>4, <2>5, <2>6 DEF SharedCacheInv
<1> QED  BY <1>1, <1>2

-----------------------------------------------------------------------------
(* What the snoop does to the caches that hear it, and to memory.          *)

LEMMA SnoopedLineFacts ==
  ASSUME NEW k \in Frame(CoherenceStates), NEW p \in Packet, Marked(k),
         k.cohState # "Invalid", currBusOp \in BusOps
  PROVE  /\ SnoopedLine(k, p) \in Frame(CoherenceStates)
         /\ SnoopedLine(k, p).valid = k.valid /\ SnoopedLine(k, p).tag = k.tag
         /\ Marked(SnoopedLine(k, p))
         /\ SnoopedLine(k, p).cohState = SnoopedState(k)
         /\ SnoopedLine(k, p).dirty = SnoopedDirty(k)
         /\ SnoopedLine(k, p).data = SnoopedData(k, p)
<1>1. SnoopedState(k) \in CoherenceStates
  BY DEF SnoopedState, CoherenceStates
<1>2. SnoopedDirty(k) \in BOOLEAN
  BY DEF SnoopedDirty, Frame
<1>3. SnoopedData(k, p) \in [Words -> Values]
  BY WriteDataTyped DEF SnoopedData, Frame
<1>4. /\ SnoopedDirty(k) => SnoopedState(k) = "SharedMod"
      /\ SnoopedState(k) # "Modified"
  BY DEF SnoopedDirty, SnoopedState, Marked, Flushes, Reads, Updates, Invalidates,
     hasBusRd, hasBusUpd, BusOps
<1>5. SnoopedLine(k, p) = [k EXCEPT !.cohState = SnoopedState(k), !.dirty = SnoopedDirty(k),
                                    !.data = SnoopedData(k, p)]
  BY DEF SnoopedLine
<1> QED  BY <1>1, <1>2, <1>3, <1>4, <1>5 DEF Frame, Marked

LEMMA SnoopedCopy ==
  ASSUME FramesInv, currBusOp \in BusOps, NEW m \in MemReq, m.pkt.blk \in Cacheable,
         NEW d \in Caches \ {m.from}, lines'[d] = LinesAfterSnoop(m)[d],
         tagMap'[d] = tagMap[d], clkPtr'[d] = clkPtr[d]
  PROVE  /\ SharedCacheInv(d)'
         /\ \A x \in Cacheable \ {m.pkt.blk} : SameCopy(d, x)
         /\ isHit(d, m.pkt.blk)' <=> isHit(d, m.pkt.blk) /\ ~Invalidates
         /\ isHit(d, m.pkt.blk)' =>
              LineOf(d, m.pkt.blk)' = SnoopedLine(LineOf(d, m.pkt.blk), m.pkt)
<1> DEFINE b == m.pkt.blk
           k == LineOf(d, b)
           l == SnoopedLine(k, m.pkt)
<1>1. SharedCacheInv(d) /\ m.pkt \in Packet
  BY DEF FramesInv, MemReq
<1>2. CASE d \in SnoopHits(m)
  <2>1. isHit(d, b) /\ Present(d, b) /\ k.cohState # "Invalid"
    BY <1>2 DEF SnoopHits, isHit
  <2>2. k \in Frame(CoherenceStates) /\ k.valid /\ k.tag = b /\ Marked(k)
    BY <1>1, <2>1, LineFacts
  <2>3. /\ l \in Frame(CoherenceStates) /\ l.valid /\ l.tag = b /\ Marked(l)
        /\ l.cohState = SnoopedState(k)
    <3> HIDE DEF k
    <3> QED  BY <1>1, <2>1, <2>2, SnoopedLineFacts
  <2>4. lines'[d] = WithLine(d, SetOf[b], tagMap[d][b], l)
    BY <1>2 DEF LinesAfterSnoop
  <2>5. l.cohState # "Invalid" <=> ~Invalidates
    BY <2>3 DEF SnoopedState
  <2> HIDE DEF l
  <2>6. /\ SharedCacheInv(d)'
        /\ isHit(d, b)' <=> l.cohState # "Invalid"
        /\ LineOf(d, b)' = l
        /\ \A x \in Cacheable \ {b} : SameCopy(d, x)
    BY <1>1, <2>1, <2>3, <2>4, ReplacedCopy
  <2> QED  BY <2>1, <2>5, <2>6 DEF l
<1>3. CASE d \notin SnoopHits(m)
  <2>1. ~isHit(d, b)
    BY <1>3 DEF SnoopHits
  <2>2. lines'[d] = lines[d]
    BY <1>3 DEF LinesAfterSnoop
  <2>3. SharedCacheInv(d)' /\ \A x \in Cacheable : SameCopy(d, x)
    BY <1>1, <2>2, UntouchedCache
  <2>4. ~isHit(d, b)'
    BY <2>1, <2>3 DEF SameCopy
  <2> QED  BY <2>1, <2>3, <2>4
<1> QED  BY <1>2, <1>3

\* At most one cache flushes, so which flush prevails does not matter.
LEMMA SnoopedMemory ==
  ASSUME FramesInv, SingleOwner, memory \in [Blocks -> [Words -> Values]],
         NEW m \in MemReq, m.pkt.blk \in Cacheable
  PROVE  /\ MemoryAfterSnoop(m) \in [Blocks -> [Words -> Values]]
         /\ \A x \in Blocks \ {m.pkt.blk} : MemoryAfterSnoop(m)[x] = memory[x]
         /\ \/ /\ MemoryAfterSnoop(m) = memory
               /\ \A d \in SnoopHits(m) : ~Flushes(LineOf(d, m.pkt.blk))
            \/ \E d \in SnoopHits(m) :
                 MemoryAfterSnoop(m)[m.pkt.blk] = LineOf(d, m.pkt.blk).data
<1> DEFINE b == m.pkt.blk
           F == {d \in SnoopHits(m) : Flushes(LineOf(d, b))}
           last == CHOOSE d \in F : \A e \in F : e <= d
<1>1. b \in Blocks /\ Caches \subseteq Nat
  BY BusAssumption
<1>2. CASE F = {}
  <2>1. MemoryAfterSnoop(m) = memory
    BY <1>2 DEF MemoryAfterSnoop
  <2> QED  BY <1>2, <2>1
<1>3. CASE F # {}
  <2>1. PICK d \in F : TRUE
    BY <1>3
  <2>2. /\ d \in Caches /\ isHit(d, b) /\ d \in SnoopHits(m)
        /\ LineOf(d, b).cohState \in {"Modified", "SharedMod"}
    BY <2>1 DEF SnoopHits, Flushes
  <2>3. ASSUME NEW e \in F PROVE e = d
    <3>1. e \in Caches /\ isHit(e, b) /\ LineOf(e, b).cohState \in {"Modified", "SharedMod"}
      BY <2>3 DEF SnoopHits, Flushes
    <3> QED  BY <2>2, <3>1 DEF SingleOwner, InState
  <2>4. F = {d}
    BY <2>1, <2>3
  <2>5. last = d
    <3> HIDE DEF F
    <3>1. \A e \in F : e <= d
      BY <1>1, <2>2, <2>4
    <3> QED  BY <2>4, <3>1
  <2>6. MemoryAfterSnoop(m) = [memory EXCEPT ![b] = LineOf(d, b).data]
    BY <1>3, <2>5 DEF MemoryAfterSnoop
  <2>7. LineOf(d, b).data \in [Words -> Values]
    BY <2>2, LineFacts DEF FramesInv, isHit, Frame
  <2> QED  BY <1>1, <2>2, <2>6, <2>7
<1> QED  BY <1>2, <1>3

\* Evict writes at most the victim back, which it does if it was dirty.
LEMMA PlacedMemory ==
  ASSUME NEW c, NEW b \in Cacheable, SharedCacheInv(c),
         NEW mem \in [Blocks -> [Words -> Values]]
  PROVE  /\ MemoryAfterPlacing(c, b, mem) \in [Blocks -> [Words -> Values]]
         /\ \A x \in Blocks : MemoryAfterPlacing(c, b, mem)[x] # mem[x] =>
              /\ x # b /\ x \in Cacheable /\ isHit(c, x) /\ LineOf(c, x).dirty
              /\ MemoryAfterPlacing(c, b, mem)[x] = LineOf(c, x).data
         /\ \A x \in Cacheable :
              /\ ~Present(c, b) /\ Evicts(c, b) /\ x = Victim(c, b).tag
              /\ isHit(c, x) /\ LineOf(c, x).dirty
              => MemoryAfterPlacing(c, b, mem)[x] = LineOf(c, x).data
<1>1. CASE Present(c, b) \/ ~Evicts(c, b)
  BY <1>1 DEF MemoryAfterPlacing, MemoryAfterEvict
<1>2. CASE ~Present(c, b) /\ Evicts(c, b)
  <2>1. PICK x \in Cacheable :
          x = Victim(c, b).tag /\ Present(c, x) /\ LineOf(c, x) = Victim(c, b)
    BY <1>2, VictimFacts DEF SharedCacheInv
  <2>2. LineOf(c, x).data \in [Words -> Values] /\ Marked(LineOf(c, x))
    BY <1>2, <2>1, LineFacts DEF Frame
  <2>3. MemoryAfterPlacing(c, b, mem) =
          IF LineOf(c, x).dirty THEN [mem EXCEPT ![x] = LineOf(c, x).data] ELSE mem
    BY <1>2, <2>1 DEF MemoryAfterPlacing, MemoryAfterEvict
  <2>4. x # b /\ x \in Blocks /\ b \in Blocks
    BY <1>2, <2>1, BusAssumption
  <2>5. LineOf(c, x).dirty => isHit(c, x)
    BY <2>1, <2>2 DEF isHit, Marked
  <2>6. CASE LineOf(c, x).dirty
    <3>1. /\ MemoryAfterPlacing(c, b, mem) \in [Blocks -> [Words -> Values]]
          /\ MemoryAfterPlacing(c, b, mem)[x] = LineOf(c, x).data
          /\ \A y \in Blocks : y # x => MemoryAfterPlacing(c, b, mem)[y] = mem[y]
      BY <2>2, <2>3, <2>4, <2>6
    <3> QED  BY <2>1, <2>4, <2>5, <2>6, <3>1
  <2>7. CASE ~LineOf(c, x).dirty
    BY <2>1, <2>3, <2>7
  <2> QED  BY <2>6, <2>7
<1> QED  BY <1>1, <1>2

\* A step of c leaves mem behind, but for the victim it may have written back
\* to make room for block b.
WrittenBack(c, b, mem) ==
  /\ \A x \in Blocks : memory'[x] # mem[x] =>
       /\ x # b /\ x \in Cacheable /\ isHit(c, x) /\ LineOf(c, x).dirty
       /\ memory'[x] = LineOf(c, x).data
  /\ \A x \in Cacheable :
       /\ ~Present(c, b) /\ Evicts(c, b) /\ x = Victim(c, b).tag
       /\ isHit(c, x) /\ LineOf(c, x).dirty
       => memory'[x] = LineOf(c, x).data

LEMMA MemoryWrittenBack ==
  ASSUME NEW c, NEW b \in Cacheable, SharedCacheInv(c),
         NEW mem \in [Blocks -> [Words -> Values]],
         memory' = MemoryAfterPlacing(c, b, mem)
  PROVE  WrittenBack(c, b, mem)
<1> DEFINE M == MemoryAfterPlacing(c, b, mem)
<1>1. /\ \A x \in Blocks : M[x] # mem[x] =>
           /\ x # b /\ x \in Cacheable /\ isHit(c, x) /\ LineOf(c, x).dirty
           /\ M[x] = LineOf(c, x).data
      /\ \A x \in Cacheable :
           /\ ~Present(c, b) /\ Evicts(c, b) /\ x = Victim(c, b).tag
           /\ isHit(c, x) /\ LineOf(c, x).dirty
           => M[x] = LineOf(c, x).data
  BY PlacedMemory
<1>2. memory' = M
  OBVIOUS
<1> HIDE DEF M
<1> QED  BY <1>1, <1>2 DEF WrittenBack

-----------------------------------------------------------------------------
(* What a response puts in the line.                                       *)

LEMMA OldLineFacts ==
  ASSUME NEW c, NEW b \in Cacheable, SharedCacheInv(c)
  PROVE  /\ OldLine(c, b) \in Frame(CoherenceStates)
         /\ OldLine(c, b).tag = b /\ OldLine(c, b).valid /\ Marked(OldLine(c, b))
         /\ ~isHit(c, b) => ~OldLine(c, b).dirty
         /\ isHit(c, b) => OldLine(c, b) = LineOf(c, b)
<1>1. CASE Present(c, b)
  BY <1>1, LineFacts DEF OldLine, isHit, Marked
<1>2. CASE ~Present(c, b)
  BY <1>2, EmptyBlockTyped DEF OldLine, EmptyFrame, Frame, CoherenceStates, Marked, isHit
<1> QED  BY <1>1, <1>2

LEMMA FilledLineFacts ==
  ASSUME NEW c, NEW p \in Packet, NEW r \in Packet, NEW wire \in BOOLEAN,
         SharedCacheInv(c), p.blk \in Cacheable, r.blk = p.blk,
         p.cmd = "Read" => ~isHit(c, p.blk)
  PROVE  /\ FilledLine(c, p, r, wire) \in Frame(CoherenceStates)
         /\ FilledLine(c, p, r, wire).tag = p.blk
         /\ FilledLine(c, p, r, wire).valid
         /\ Marked(FilledLine(c, p, r, wire))
         /\ FilledLine(c, p, r, wire).dirty <=> p.cmd = "Write"
         /\ FilledLine(c, p, r, wire).cohState =
              IF p.cmd = "Read" THEN (IF wire THEN "SharedClean" ELSE "Exclusive")
                                ELSE (IF wire THEN "SharedMod" ELSE "Modified")
         /\ FilledLine(c, p, r, wire).data =
              IF p.cmd = "Read" THEN FetchedData(c, r) ELSE WriteDataToBlock(p, FetchedData(c, r))
         /\ FetchedData(c, r) \in [Words -> Values]
         /\ r.cmd = "Read" /\ r.words = Words => FetchedData(c, r) = r.data
         /\ r.cmd = "Write" => FetchedData(c, r) = OldLine(c, p.blk).data
<1> DEFINE old == OldLine(c, p.blk)
           l == [old EXCEPT !.clkFlag = 1, !.data = FetchedData(c, r)]
<1>1. /\ old \in Frame(CoherenceStates) /\ old.tag = p.blk /\ old.valid /\ Marked(old)
      /\ p.cmd = "Read" => ~old.dirty
  BY OldLineFacts
<1>2. /\ FetchedData(c, r) \in [Words -> Values]
      /\ r.cmd = "Read" /\ r.words = Words => FetchedData(c, r) = r.data
      /\ r.cmd = "Write" => FetchedData(c, r) = old.data
  <2>1. old.data \in [Words -> Values] /\ r.data \in [Words -> Values]
    BY <1>1 DEF Frame, Packet
  <2>2. FetchedData(c, r) = IF r.cmd = "Read" THEN WriteDataToBlock(r, old.data) ELSE old.data
    BY DEF FetchedData
  <2> HIDE DEF old
  <2>3. FetchedData(c, r) \in [Words -> Values]
    BY <2>1, <2>2, WriteDataTyped
  <2>4. r.words = Words => WriteDataToBlock(r, old.data) = r.data
    BY <2>1 DEF WriteDataToBlock
  <2> QED  BY <2>2, <2>3, <2>4
<1>3. /\ l \in Frame(CoherenceStates) /\ l.tag = p.blk /\ l.valid
      /\ l.data = FetchedData(c, r) /\ l.dirty = old.dirty
  <2> HIDE DEF old
  <2> QED  BY <1>1, <1>2 DEF Frame
<1>4. FilledLine(c, p, r, wire) =
        IF p.cmd = "Read"
          THEN [l EXCEPT !.cohState = IF wire THEN "SharedClean" ELSE "Exclusive"]
          ELSE WrittenLine(l, p, wire)
  BY DEF FilledLine
<1> HIDE DEF l, old
<1>5. CASE p.cmd = "Read"
  BY <1>1, <1>2, <1>3, <1>4, <1>5 DEF Frame, CoherenceStates, Marked, old
<1>6. CASE p.cmd # "Read"
  <2>1. WriteDataToBlock(p, l.data) \in [Words -> Values]
    BY <1>2, <1>3, WriteDataTyped
  <2>2. /\ WrittenLine(l, p, wire) \in Frame(CoherenceStates)
        /\ WrittenLine(l, p, wire).tag = p.blk /\ WrittenLine(l, p, wire).valid
        /\ WrittenLine(l, p, wire).dirty
        /\ WrittenLine(l, p, wire).cohState = IF wire THEN "SharedMod" ELSE "Modified"
        /\ WrittenLine(l, p, wire).data = WriteDataToBlock(p, l.data)
    BY <1>3, <2>1 DEF WrittenLine, Frame, CoherenceStates
  <2>3. p.cmd = "Write"
    BY <1>6 DEF Packet
  <2> QED  BY <1>2, <1>3, <1>4, <1>6, <2>2, <2>3 DEF Marked, old
<1> QED  BY <1>5, <1>6

-----------------------------------------------------------------------------
(* Steps that touch no line.                                               *)

\* The step leaves what the memory side of a transaction goes by.
SameWrite ==
  \A x \in Cacheable :
    (WriteUnderWay /\ x = CurrentPacket.blk) => (WriteUnderWay /\ x = CurrentPacket.blk)'

LEMMA QuietStep ==
  ASSUME FramesInv, CopiesInv, UNCHANGED setVars, SameWrite,
         \A x \in Cacheable : memory'[x] = memory[x]
  PROVE  /\ FramesInv' /\ CopiesInv'
         /\ \A d \in Caches, x \in Cacheable : SameCopy(d, x)
<1>1. UNCHANGED <<lines, tagMap, clkPtr>>
  BY DEF setVars
<1>2. \A d \in Caches : SharedCacheInv(d)' /\ \A x \in Cacheable : SameCopy(d, x)
  BY <1>1, UntouchedCache DEF FramesInv
<1>3. SetsTypeOK(CoherenceStates)'
  BY <1>1 DEF FramesInv, SetsTypeOK
<1>4. \A d, x : /\ isHit(d, x)' <=> isHit(d, x)
                /\ LineOf(d, x)' = LineOf(d, x)
  BY <1>1 DEF isHit, Present, LineOf
<1>5. SingleOwner' /\ CopiesAgree'
  BY <1>4 DEF CopiesInv, SingleOwner, CopiesAgree, InState
<1>6. StaleMemoryHasDirtyCopy'
  <2> SUFFICES ASSUME NEW c \in Caches, NEW x \in Cacheable,
                      isHit(c, x)', LineOf(c, x)'.data # memory'[x]
               PROVE  \/ \E d \in Caches : isHit(d, x)' /\ LineOf(d, x)'.dirty
                      \/ (WriteUnderWay /\ x = CurrentPacket.blk)'
    BY DEF StaleMemoryHasDirtyCopy
  <2>1. \/ \E d \in Caches : isHit(d, x) /\ LineOf(d, x).dirty
        \/ WriteUnderWay /\ x = CurrentPacket.blk
    BY <1>4 DEF CopiesInv, StaleMemoryHasDirtyCopy
  <2> QED  BY <1>4, <2>1 DEF SameWrite
<1> QED  BY <1>2, <1>3, <1>5, <1>6 DEF FramesInv, CopiesInv

\* A step outside the transaction under way leaves what it relies on alone, if
\* it leaves the copies of its block alone (before the snoop, the granted
\* cache's copy is enough).
LEMMA WindowKept ==
  ASSUME BaseInv, FlightInv,
         UNCHANGED <<currentGranted, memReqQueue, sharedWire, currBusOp>>,
         \A x \in Cacheable : memory'[x] = memory[x],
         currentGranted # NoCache => cpuPkt'[currentGranted] = cpuPkt[currentGranted],
         InCacheableTransaction =>
           \A x \in Cacheable : x = CurrentPacket.blk =>
             \A d \in Caches : memReqQueue = <<>> \/ d = currentGranted => SameCopy(d, x)
  PROVE  GrantStillRight' /\ WireTellsTruth' /\ CopiesFitFetch' /\ SameWrite
<1>1. InCacheableTransaction' <=> InCacheableTransaction
  BY DEF InCacheableTransaction, CurrentPacket
<1>2. SameWrite
  BY <1>1 DEF SameWrite, WriteUnderWay, CurrentPacket, InCacheableTransaction
<1>3. CASE ~InCacheableTransaction
  BY <1>1, <1>2, <1>3 DEF GrantStillRight, WireTellsTruth, CopiesFitFetch
<1>4. CASE InCacheableTransaction
  <2>1. PICK g : g = currentGranted
    OBVIOUS
  <2>2. PICK p : p = cpuPkt[g]
    OBVIOUS
  <2>3. g \in Caches /\ p.blk \in Cacheable
    BY <1>4, <2>1, <2>2
       DEF InCacheableTransaction, CurrentPacket, isCacheablePacket, BaseInv, BaseTypeOK, BusTypeOK
  <2>4. PICK b \in Cacheable : b = p.blk
    BY <2>3
  <2>5. /\ currentGranted' = g /\ CurrentPacket = p /\ CurrentPacket' = p
    BY <1>4, <2>1, <2>2 DEF CurrentPacket, InCacheableTransaction
  <2>6. \A d \in Caches : memReqQueue = <<>> \/ d = g => SameCopy(d, b)
    BY <1>4, <2>1, <2>4, <2>5
  <2>7. \A d \in Caches : memReqQueue = <<>> \/ d = g =>
          /\ isHit(d, b)' <=> isHit(d, b)
          /\ isHit(d, b) => /\ LineOf(d, b)'.cohState = LineOf(d, b).cohState
                            /\ LineOf(d, b)'.data = LineOf(d, b).data
    BY <2>6 DEF SameCopy
  <2>8. GrantStillRight'
    <3>1. /\ memReqQueue # <<>> =>
               /\ Head(memReqQueue).toMem = NeedsMemory(g, p)
               /\ currBusOp \in Ops(g, p)
               /\ ~sharedWire
               /\ isHit(g, b) => p.cmd = "Write" /\ ~WritesSilently(LineOf(g, b))
          /\ memReqQueue = <<>> => ~isHit(g, b)
      BY <1>4, <2>1, <2>4, <2>5 DEF FlightInv, GrantStillRight
    <3>2. /\ memReqQueue' # <<>> =>
               /\ Head(memReqQueue').toMem = NeedsMemory(g, p)'
               /\ currBusOp' \in Ops(g, p)'
               /\ ~sharedWire'
               /\ isHit(g, b)' => p.cmd = "Write" /\ ~WritesSilently(LineOf(g, b)')
          /\ memReqQueue' = <<>> => ~isHit(g, b)'
      BY <2>3, <2>4, <2>7, <3>1 DEF NeedsMemory, Ops, WritesSilently, FullBlock
    <3> QED  BY <2>4, <2>5, <3>2
             DEF GrantStillRight, NeedsMemory, Ops, WritesSilently, isHit, Present, LineOf
  <2>9. WireTellsTruth'
    <3> SUFFICES ASSUME memReqQueue = <<>> PROVE WireTellsTruth'
      BY DEF WireTellsTruth
    <3> DEFINE states == IF p.cmd = "Write" THEN {"SharedClean"} ELSE {"SharedClean", "SharedMod"}
               O == {d \in Caches \ {g} : isHit(d, b)}
               O2 == {d \in Caches \ {g} : isHit(d, b)'}
    <3>1. (sharedWire <=> O # {}) /\ \A d \in O : InState(d, b, states)
      BY <1>4, <2>1, <2>4, <2>5 DEF FlightInv, WireTellsTruth
    <3>2. O2 = O
      BY <2>7
    <3>3. \A d \in O2 : isHit(d, b)' /\ LineOf(d, b)'.cohState \in states
      BY <2>7, <3>1, <3>2 DEF InState
    <3>4. sharedWire' <=> O2 # {}
      BY <3>1, <3>2
    <3> QED  BY <2>4, <2>5, <3>3, <3>4 DEF WireTellsTruth, InState, isHit, Present, LineOf
  <2>10. CopiesFitFetch'
    <3> SUFFICES ASSUME memReqQueue = <<>> PROVE CopiesFitFetch'
      BY DEF CopiesFitFetch
    <3>1. \A d \in Caches : isHit(d, b) => LineOf(d, b).data =
            IF p.cmd = "Write" THEN WriteDataToBlock(p, memory[b]) ELSE memory[b]
      BY <1>4, <2>4, <2>5 DEF FlightInv, CopiesFitFetch
    <3>2. \A d \in Caches : isHit(d, b)' => LineOf(d, b)'.data =
            IF p.cmd = "Write" THEN WriteDataToBlock(p, memory'[b]) ELSE memory'[b]
      BY <2>7, <3>1
    <3> QED  BY <2>4, <2>5, <3>2 DEF CopiesFitFetch, isHit, Present, LineOf, WriteDataToBlock
  <2> QED  BY <1>2, <2>8, <2>9, <2>10
<1> QED  BY <1>3, <1>4

\* The same, for a step that leaves the memory side of the bus alone.
LEMMA FlightKept ==
  ASSUME BaseInv, FlightInv,
         UNCHANGED <<currentGranted, memReqQueue, currBusOp, blockedPacket, inMemory, sharedWire>>,
         \A x \in Cacheable : memory'[x] = memory[x],
         currentGranted # NoCache => cpuPkt'[currentGranted] = cpuPkt[currentGranted],
         InCacheableTransaction =>
           \A x \in Cacheable : x = CurrentPacket.blk =>
             \A d \in Caches : memReqQueue = <<>> \/ d = currentGranted => SameCopy(d, x)
  PROVE  GrantStillRight' /\ WireTellsTruth' /\ CopiesFitFetch' /\ FetchStaysCurrent' /\ SameWrite
<1>1. InCacheableTransaction' <=> InCacheableTransaction
  BY DEF InCacheableTransaction, CurrentPacket
<1>2. ASSUME InCacheableTransaction, NEW m \in inMemory PROVE m.pkt.blk \in Cacheable
  <2>1. m.pkt.blk = CurrentPacket.blk
    BY <1>2 DEF BaseInv, TransactionMatches, InCacheableTransaction, CurrentPacket,
       isCacheablePacket, generateAlignAccess
  <2> QED  BY <1>2, <2>1 DEF InCacheableTransaction, isCacheablePacket
<1>3. FetchStaysCurrent'
  BY <1>1, <1>2 DEF FlightInv, FetchStaysCurrent
<1> QED  BY <1>3, WindowKept

\* A cache that waits goes on needing the bus if its copies are at most taken
\* away or become shared.
LEMMA WaitersStillNeed ==
  ASSUME WaitersNeedBus,
         \A d \in Caches : Waiting(d)' => Waiting(d) /\ cpuPkt'[d] = cpuPkt[d],
         \A d \in Caches, x \in Cacheable : Waiting(d) /\ isHit(d, x)' =>
           /\ isHit(d, x)
           /\ LineOf(d, x)'.cohState \in {"SharedClean", "SharedMod", LineOf(d, x).cohState}
  PROVE  WaitersNeedBus'
<1> SUFFICES ASSUME NEW d \in Caches, Waiting(d)', isCacheablePacket(cpuPkt[d])'
             PROVE  NeedsBus(d, cpuPkt[d])'
  BY DEF WaitersNeedBus
<1>1. PICK p : p = cpuPkt[d] /\ p = cpuPkt'[d]
  OBVIOUS
<1>2. PICK x \in Cacheable : x = p.blk
  BY <1>1 DEF isCacheablePacket
<1>3. Waiting(d) /\ NeedsBus(d, p)
  BY <1>1, <1>2 DEF WaitersNeedBus, isCacheablePacket
<1>4. isHit(d, x)' => p.cmd = "Write" /\ LineOf(d, x)'.cohState \notin {"Exclusive", "Modified"}
  BY <1>2, <1>3 DEF NeedsBus, WritesSilently
<1> QED  BY <1>1, <1>2, <1>4 DEF NeedsBus, WritesSilently, isHit, Present, LineOf

-----------------------------------------------------------------------------
(* Requests of the CPU.                                                    *)

\* A hit rewrites one line: with the same contents, or with any by the cache
\* that may write it silently.
LEMMA HitStep ==
  ASSUME SharedInv, NEW c \in Caches, NEW p \in CpuPackets, NEW r, AnswerAtOnce(c, p, r),
         NEW b \in Cacheable, isHit(c, b), NEW l \in Frame(CoherenceStates),
         l.tag = b, l.valid, Marked(l),
         \/ /\ l.cohState = LineOf(c, b).cohState /\ l.data = LineOf(c, b).data
            /\ l.dirty = LineOf(c, b).dirty
         \/ InState(c, b, {"Exclusive", "Modified"}) /\ l.cohState = "Modified",
         lines' = [lines EXCEPT ![c] = WithLine(c, SetOf[b], tagMap[c][b], l)],
         UNCHANGED <<memory, tagMap, clkPtr>>
  PROVE  FramesInv' /\ CopiesInv' /\ FlightInv'
<1> DEFINE sameLine == /\ l.cohState = LineOf(c, b).cohState /\ l.data = LineOf(c, b).data
                       /\ l.dirty = LineOf(c, b).dirty
<1>1. /\ UNCHANGED <<busRequestQueue, currentGranted, memReqQueue, currBusOp, blockedPacket,
                     inMemory, sharedWire>>
      /\ \A d \in Caches \ {c} : cpuPkt'[d] = cpuPkt[d]
      /\ ~blocked[c]
  BY DEF AnswerAtOnce, AcceptFromCpu, busVars, arbiterVars, memPortVars,
     SharedInv, BaseInv, BaseTypeOK
<1>2. ~Waiting(c) /\ currentGranted # c
  BY <1>1 DEF SharedInv, BaseInv, BlockedAccounted
<1>3. lines \in [Caches -> [Sets -> [Ways -> Frame(CoherenceStates)]]]
  BY DEF SharedInv, FramesInv, SetsTypeOK
<1>4. /\ lines'[c] = WithLine(c, SetOf[b], tagMap[c][b], l)
      /\ \A d \in Caches \ {c} : lines'[d] = lines[d]
  BY <1>3
<1>5. /\ SharedCacheInv(c)'
      /\ isHit(c, b)' <=> l.cohState # "Invalid"
      /\ LineOf(c, b)' = l
      /\ \A x \in Cacheable \ {b} : SameCopy(c, x)
  <2>1. SharedCacheInv(c) /\ Present(c, b)
    BY DEF SharedInv, FramesInv, isHit
  <2> QED  BY <1>4, <2>1, ReplacedCopy
<1>6. \A d \in Caches \ {c} : SharedCacheInv(d)' /\ \A x \in Cacheable : SameCopy(d, x)
  BY <1>4, UntouchedCache DEF SharedInv, FramesInv
<1>7. isHit(c, b)' /\ (sameLine => SameCopy(c, b))
  BY <1>5 DEF isHit, SameCopy
<1>8. FramesInv'
  <2>1. \A d \in Caches : CacheTyped(d, CoherenceStates)'
    BY <1>5, <1>6 DEF SharedCacheInv, CacheInv
  <2>2. lines' \in [Caches -> [Sets -> [Ways -> Frame(CoherenceStates)]]]
    BY <1>3, <2>1 DEF CacheTyped
  <2>3. SetsTypeOK(CoherenceStates)'
    BY <2>2 DEF SharedInv, FramesInv, SetsTypeOK
  <2> QED  BY <1>5, <1>6, <2>3 DEF FramesInv
<1>9. /\ \A d \in Caches, x \in Cacheable : isHit(d, x)' <=> isHit(d, x)
      /\ \A d \in Caches, x \in Cacheable : d # c \/ x # b \/ sameLine => SameCopy(d, x)
  BY <1>5, <1>6, <1>7 DEF SameCopy
<1>10. ASSUME InCacheableTransaction, NEW x \in Cacheable, x = CurrentPacket.blk,
              NEW d \in Caches, memReqQueue = <<>> \/ d = currentGranted
       PROVE  SameCopy(d, x)
  <2>1. CASE d # c \/ x # b \/ sameLine
    BY <1>9, <2>1
  <2>2. CASE d = c /\ x = b /\ ~sameLine
    <3>1. memReqQueue = <<>>
      BY <1>2, <1>10, <2>2
    <3>2. c \in {e \in Caches \ {currentGranted} : isHit(e, CurrentPacket.blk)}
      BY <1>2, <1>10, <2>2
    <3>3. InState(c, b, {"SharedClean", "SharedMod"})
      BY <1>10, <2>2, <3>1, <3>2 DEF SharedInv, FlightInv, WireTellsTruth, InState
    <3> QED  BY <2>2, <3>3 DEF InState
  <2> QED  BY <2>1, <2>2
<1>11. GrantStillRight' /\ WireTellsTruth' /\ CopiesFitFetch' /\ FetchStaysCurrent' /\ SameWrite
  <2>1. currentGranted # NoCache => cpuPkt'[currentGranted] = cpuPkt[currentGranted]
    BY <1>1, <1>2 DEF SharedInv, BaseInv, BaseTypeOK, BusTypeOK
  <2> QED  BY <1>1, <1>10, <2>1, FlightKept DEF SharedInv
<1>12. WaitersNeedBus'
  <2>1. \A d \in Caches : Waiting(d)' => Waiting(d) /\ cpuPkt'[d] = cpuPkt[d]
    BY <1>1, <1>2 DEF Waiting
  <2>2. \A d \in Caches, x \in Cacheable : Waiting(d) /\ isHit(d, x)' =>
          /\ isHit(d, x)
          /\ LineOf(d, x)'.cohState \in {"SharedClean", "SharedMod", LineOf(d, x).cohState}
    BY <1>2, <1>6 DEF SameCopy
  <2> QED  BY <2>1, <2>2, WaitersStillNeed DEF SharedInv, FlightInv
<1>13. CopiesInv'
  <2>1. CASE sameLine
    <3>1. \A d \in Caches, x \in Cacheable : SameCopy(d, x)
      BY <1>9, <2>1
    <3>2. SingleOwner' /\ CopiesAgree'
      BY <3>1 DEF SharedInv, CopiesInv, SingleOwner, CopiesAgree, InState, SameCopy
    <3>3. StaleMemoryHasDirtyCopy'
      <4> SUFFICES ASSUME NEW e \in Caches, NEW x \in Cacheable,
                          isHit(e, x)', LineOf(e, x)'.data # memory'[x]
                   PROVE  \/ \E d \in Caches : isHit(d, x)' /\ LineOf(d, x)'.dirty
                          \/ (WriteUnderWay /\ x = CurrentPacket.blk)'
        BY DEF StaleMemoryHasDirtyCopy
      <4>1. \/ \E d \in Caches : isHit(d, x) /\ LineOf(d, x).dirty
            \/ WriteUnderWay /\ x = CurrentPacket.blk
        BY <3>1 DEF SharedInv, CopiesInv, StaleMemoryHasDirtyCopy, SameCopy
      <4> QED  BY <1>11, <3>1, <4>1 DEF SameWrite, SameCopy
    <3> QED  BY <3>2, <3>3 DEF CopiesInv
  <2>2. CASE ~sameLine
    <3>1. InState(c, b, {"Exclusive", "Modified"}) /\ l.cohState = "Modified"
      BY <2>2
    <3>2. \A d \in Caches \ {c} : ~isHit(d, b) /\ ~isHit(d, b)'
      BY <1>9, <3>1 DEF SharedInv, CopiesInv, SingleOwner
    <3>3. \A d \in Caches, x \in Cacheable : x # b => SameCopy(d, x)
      BY <1>9
    <3>4. SingleOwner'
      BY <3>2, <3>3 DEF SharedInv, CopiesInv, SingleOwner, InState, SameCopy
    <3>5. CopiesAgree'
      BY <3>2, <3>3 DEF SharedInv, CopiesInv, CopiesAgree, SameCopy
    <3>6. StaleMemoryHasDirtyCopy'
      <4> SUFFICES ASSUME NEW e \in Caches, NEW x \in Cacheable,
                          isHit(e, x)', LineOf(e, x)'.data # memory'[x]
                   PROVE  \/ \E d \in Caches : isHit(d, x)' /\ LineOf(d, x)'.dirty
                          \/ (WriteUnderWay /\ x = CurrentPacket.blk)'
        BY DEF StaleMemoryHasDirtyCopy
      <4>1. CASE x = b
        BY <1>5, <1>7, <3>1, <4>1 DEF Marked
      <4>2. CASE x # b
        <5>1. \/ \E d \in Caches : isHit(d, x) /\ LineOf(d, x).dirty
              \/ WriteUnderWay /\ x = CurrentPacket.blk
          BY <3>3, <4>2 DEF SharedInv, CopiesInv, StaleMemoryHasDirtyCopy, SameCopy
        <5> QED  BY <1>11, <3>3, <4>2, <5>1 DEF SameWrite, SameCopy
      <4> QED  BY <4>1, <4>2
    <3> QED  BY <3>4, <3>5, <3>6 DEF CopiesInv
  <2> QED  BY <2>1, <2>2
<1> QED  BY <1>8, <1>11, <1>12, <1>13 DEF FlightInv

LEMMA ReadHitStep ==
  ASSUME SharedInv, NEW c \in Caches, NEW p \in CpuPackets, ReadHit(c, p)
  PROVE  FramesInv' /\ CopiesInv' /\ FlightInv'
<1> DEFINE k == LineOf(c, p.blk)
           l == [k EXCEPT !.clkFlag = 1]
<1>1. /\ p.blk \in Cacheable /\ isHit(c, p.blk)
      /\ AnswerAtOnce(c, p, SetDataFromBlock(p, k.data))
      /\ lines' = [lines EXCEPT ![c][SetOf[p.blk]][tagMap[c][p.blk]].clkFlag = 1]
      /\ UNCHANGED <<memory, tagMap, clkPtr>>
  BY DEF ReadHit, isCacheablePacket
<1>2. k \in Frame(CoherenceStates) /\ k.valid /\ k.tag = p.blk /\ Marked(k)
  BY <1>1, LineFacts DEF SharedInv, FramesInv, isHit
<1>3. /\ l \in Frame(CoherenceStates) /\ l.valid /\ l.tag = p.blk
      /\ l.cohState = k.cohState /\ l.data = k.data /\ l.dirty = k.dirty
  <2> HIDE DEF k
  <2> QED  BY <1>2 DEF Frame
<1>4. Marked(l)
  BY <1>2, <1>3 DEF Marked
<1>5. lines' = [lines EXCEPT ![c] = WithLine(c, SetOf[p.blk], tagMap[c][p.blk], l)]
  BY <1>1 DEF WithLine, LineOf
<1> HIDE DEF l
<1> QED  BY <1>1, <1>3, <1>4, <1>5, HitStep

LEMMA SilentWriteFacts ==
  ASSUME NEW k \in Frame(CoherenceStates), NEW p \in Packet, Marked(k), WritesSilently(k)
  PROVE  /\ SilentWrite(k, p) \in Frame(CoherenceStates)
         /\ SilentWrite(k, p).valid = k.valid /\ SilentWrite(k, p).tag = k.tag
         /\ Marked(SilentWrite(k, p)) /\ SilentWrite(k, p).cohState = "Modified"
         /\ SilentWrite(k, p).data = WriteDataToBlock(p, k.data)
<1>1. WriteDataToBlock(p, k.data) \in [Words -> Values]
  BY WriteDataTyped DEF Frame
<1>2. k.dirty \/ k.cohState = "Exclusive"
  BY DEF Marked, WritesSilently
<1> QED  BY <1>1, <1>2 DEF SilentWrite, Frame, CoherenceStates, Marked

LEMMA WriteHitStep ==
  ASSUME SharedInv, NEW c \in Caches, NEW p \in CpuPackets, WriteHit(c, p)
  PROVE  FramesInv' /\ CopiesInv' /\ FlightInv'
<1> DEFINE k == LineOf(c, p.blk)
           l == SilentWrite(k, p)
<1>1. /\ p.blk \in Cacheable /\ isHit(c, p.blk) /\ WritesSilently(k)
      /\ AnswerAtOnce(c, p, p)
      /\ lines' = [lines EXCEPT ![c] = WithLine(c, SetOf[p.blk], tagMap[c][p.blk], l)]
      /\ UNCHANGED <<memory, tagMap, clkPtr>>
  BY DEF WriteHit, isCacheablePacket
<1>2. k \in Frame(CoherenceStates) /\ k.valid /\ k.tag = p.blk /\ Marked(k)
  BY <1>1, LineFacts DEF SharedInv, FramesInv, isHit
<1>3. /\ l \in Frame(CoherenceStates) /\ l.valid /\ l.tag = p.blk
      /\ Marked(l) /\ l.cohState = "Modified"
  <2> HIDE DEF k
  <2> QED  BY <1>1, <1>2, CpuPacketsTyped, SilentWriteFacts
<1>4. InState(c, p.blk, {"Exclusive", "Modified"})
  BY <1>1 DEF InState, WritesSilently
<1> HIDE DEF l
<1> QED  BY <1>1, <1>3, <1>4, HitStep

\* A request that waits for the bus touches no line.
LEMMA WaitStep ==
  ASSUME SharedInv, NEW c \in Caches, NEW p \in CpuPackets, WaitForBus(c, p),
         isCacheablePacket(p) => NeedsBus(c, p),
         UNCHANGED <<memory, setVars>>
  PROVE  FramesInv' /\ CopiesInv' /\ FlightInv'
<1>1. /\ cpuPkt[c] = NoPacket /\ ~blocked[c]
      /\ cpuPkt' = [cpuPkt EXCEPT ![c] = p]
      /\ blocked' = [blocked EXCEPT ![c] = TRUE]
      /\ Request(c)
      /\ UNCHANGED <<currentGranted, memReqQueue, currBusOp, sharedWire, blockedPacket, inMemory>>
  BY DEF WaitForBus, AcceptFromCpu, Request, memPortVars
<1>2. ~Waiting(c) /\ currentGranted # c
  BY <1>1 DEF SharedInv, BaseInv, BlockedAccounted
<1>3. \A d \in Caches : Waiting(d)' <=> Waiting(d) \/ d = c
  BY <1>1, RequestMoves DEF SharedInv, BaseInv, BaseTypeOK, BusTypeOK, ArbiterTypes
<1>4. \A d \in Caches, x \in Cacheable : SameCopy(d, x)
  BY UntouchedCache DEF SharedInv, FramesInv, setVars
<1>5. cpuPkt'[c] = p /\ \A d \in Caches \ {c} : cpuPkt'[d] = cpuPkt[d]
  BY <1>1 DEF SharedInv, BaseInv, BaseTypeOK
<1>6. GrantStillRight' /\ WireTellsTruth' /\ CopiesFitFetch' /\ FetchStaysCurrent' /\ SameWrite
  <2>1. currentGranted # NoCache => cpuPkt'[currentGranted] = cpuPkt[currentGranted]
    BY <1>2, <1>5 DEF SharedInv, BaseInv, BaseTypeOK, BusTypeOK
  <2> QED  BY <1>1, <1>4, <2>1, FlightKept DEF SharedInv
<1>7. FramesInv' /\ CopiesInv'
  BY <1>6, QuietStep DEF SharedInv
<1>8. \A d \in Caches : \A x : NeedsBus(d, x)' <=> NeedsBus(d, x)
  BY DEF NeedsBus, isHit, Present, LineOf, setVars
<1>9. WaitersNeedBus'
  <2> SUFFICES ASSUME NEW d \in Caches, Waiting(d)', isCacheablePacket(cpuPkt[d])'
               PROVE  NeedsBus(d, cpuPkt[d])'
    BY DEF WaitersNeedBus
  <2>1. PICK q : q = cpuPkt'[d]
    OBVIOUS
  <2>2. NeedsBus(d, q)
    <3>1. CASE d = c
      BY <1>5, <2>1, <3>1 DEF isCacheablePacket
    <3>2. CASE d # c
      BY <1>3, <1>5, <2>1, <3>2 DEF SharedInv, FlightInv, WaitersNeedBus, isCacheablePacket
    <3> QED  BY <3>1, <3>2
  <2>3. NeedsBus(d, q)'
    BY <1>8, <2>2
  <2> QED  BY <2>1, <2>3 DEF NeedsBus, isHit, Present, LineOf
<1> QED  BY <1>6, <1>7, <1>9 DEF FlightInv

\* Waiting caches are not disturbed by a step that touches no line.
LEMMA QuietWaiters ==
  ASSUME SharedInv, \A d \in Caches, x \in Cacheable : SameCopy(d, x),
         \A d \in Caches : Waiting(d)' => Waiting(d) /\ cpuPkt'[d] = cpuPkt[d]
  PROVE  WaitersNeedBus'
<1>1. \A d \in Caches, x \in Cacheable : Waiting(d) /\ isHit(d, x)' =>
        /\ isHit(d, x)
        /\ LineOf(d, x)'.cohState \in {"SharedClean", "SharedMod", LineOf(d, x).cohState}
  BY DEF SameCopy
<1> QED  BY <1>1, WaitersStillNeed DEF SharedInv, FlightInv

LEMMA ProcessCpuRespShared ==
  ASSUME SharedInv, NEW c \in Caches, ProcessCpuResp(c), UNCHANGED setVars
  PROVE  FramesInv' /\ CopiesInv' /\ FlightInv'
<1>1. /\ cpuRespQueue[c] # <<>>
      /\ \A d \in Caches \ {c} : cpuPkt'[d] = cpuPkt[d]
      /\ UNCHANGED <<busRequestQueue, currentGranted, memReqQueue, currBusOp, sharedWire,
                     blockedPacket, inMemory, memory>>
  BY DEF ProcessCpuResp, busVars, arbiterVars, memPortVars, SharedInv, BaseInv, BaseTypeOK
<1>2. ~Waiting(c) /\ currentGranted # c
  BY <1>1 DEF SharedInv, BaseInv, ResponseAccounted, BlockedAccounted
<1>3. \A d \in Caches, x \in Cacheable : SameCopy(d, x)
  BY UntouchedCache DEF SharedInv, FramesInv, setVars
<1>4. GrantStillRight' /\ WireTellsTruth' /\ CopiesFitFetch' /\ FetchStaysCurrent' /\ SameWrite
  <2>1. currentGranted # NoCache => cpuPkt'[currentGranted] = cpuPkt[currentGranted]
    BY <1>1, <1>2 DEF SharedInv, BaseInv, BaseTypeOK, BusTypeOK
  <2> QED  BY <1>1, <1>3, <2>1, FlightKept DEF SharedInv
<1>5. FramesInv' /\ CopiesInv'
  BY <1>1, <1>4, QuietStep DEF SharedInv
<1>6. \A d \in Caches : Waiting(d)' => Waiting(d) /\ cpuPkt'[d] = cpuPkt[d]
  BY <1>1, <1>2 DEF Waiting
<1> QED  BY <1>3, <1>4, <1>5, <1>6, QuietWaiters DEF FlightInv

-----------------------------------------------------------------------------
(* Grants.                                                                 *)

\* A step that touches no line while no cacheable transaction is under way, and
\* leaves none.
LEMMA OutsideStep ==
  ASSUME SharedInv, UNCHANGED setVars, \A x \in Cacheable : memory'[x] = memory[x],
         \A d \in Caches : Waiting(d)' => Waiting(d) /\ cpuPkt'[d] = cpuPkt[d],
         ~InCacheableTransaction, ~InCacheableTransaction'
  PROVE  FramesInv' /\ CopiesInv' /\ FlightInv'
<1>1. SameWrite
  BY DEF SameWrite, WriteUnderWay
<1>2. /\ FramesInv' /\ CopiesInv'
      /\ \A d \in Caches, x \in Cacheable : SameCopy(d, x)
  BY <1>1, QuietStep DEF SharedInv
<1>3. WaitersNeedBus'
  BY <1>2, QuietWaiters
<1> QED  BY <1>2, <1>3 DEF FlightInv, GrantStillRight, WireTellsTruth,
            CopiesFitFetch, FetchStaysCurrent

\* A grant touches no line, and starts a transaction whose cache still needs it.
LEMMA GrantShared ==
  ASSUME SharedInv, NEW c \in Caches, NEW op \in BusOps, BusGrant(c, op)
  PROVE  FramesInv' /\ CopiesInv' /\ FlightInv'
<1>1. /\ memReqQueue = <<>> /\ blockedPacket = NoPacket /\ inMemory = {}
      /\ currentGranted = NoCache /\ currentGranted' = c
      /\ Waiting(c) /\ requestPacket[c] = cpuPkt[c] /\ cpuPkt[c] \in Packet
  BY GrantFinds DEF SharedInv, Idle, GrantNext, BusGrant
<1>2. PICK p \in Packet : p = cpuPkt[c]
  BY <1>1
<1>3. PICK toMem : toMem = NeedsMemory(c, p)
  OBVIOUS
<1>4. /\ memReqQueue' # <<>> /\ Head(memReqQueue').toMem = toMem
      /\ blockedPacket' = NoPacket /\ inMemory' = {}
      /\ cpuPkt' = cpuPkt /\ sharedWire' = FALSE /\ currBusOp' = op
      /\ op \in Ops(c, p) /\ isCacheablePacket(p)
      /\ UNCHANGED <<memory, setVars>>
  BY <1>1, <1>2, <1>3 DEF BusGrant, sendMemReq, memPortVars, cpuSideVars
<1>5. ~InCacheableTransaction
  BY <1>1 DEF InCacheableTransaction
<1>6. /\ FramesInv' /\ CopiesInv'
      /\ \A d \in Caches, x \in Cacheable : SameCopy(d, x)
  <2>1. SameWrite
    BY <1>5 DEF SameWrite, WriteUnderWay
  <2> QED  BY <1>4, <2>1, QuietStep DEF SharedInv
<1>7. WaitersNeedBus'
  <2>1. \A d \in Caches : Waiting(d)' => Waiting(d)
    BY TailElements DEF BusGrant, GrantNext, Waiting, SharedInv, BaseInv, BaseTypeOK, BusTypeOK
  <2> QED  BY <1>4, <1>6, <2>1, QuietWaiters
<1>8. CurrentPacket' = p
  BY <1>1, <1>2, <1>4 DEF CurrentPacket
<1>9. PICK b \in Cacheable : b = p.blk
  BY <1>4 DEF isCacheablePacket
<1>10. isHit(c, b) => p.cmd = "Write" /\ ~WritesSilently(LineOf(c, b))
  BY <1>1, <1>2, <1>4, <1>9 DEF SharedInv, FlightInv, WaitersNeedBus, NeedsBus
<1>11. GrantStillRight'
  <2>1. /\ isHit(c, b)' <=> isHit(c, b)
        /\ LineOf(c, b)' = LineOf(c, b)
    BY <1>4 DEF isHit, Present, LineOf, setVars
  <2>2. /\ toMem = NeedsMemory(c, p)'
        /\ op \in Ops(c, p)'
        /\ isHit(c, b)' => p.cmd = "Write" /\ ~WritesSilently(LineOf(c, b)')
    BY <1>3, <1>4, <1>9, <1>10, <2>1 DEF NeedsMemory, Ops, FullBlock
  <2> QED  BY <1>1, <1>4, <1>8, <1>9, <2>2
           DEF GrantStillRight, NeedsMemory, Ops, WritesSilently, isHit, Present, LineOf
<1>12. WireTellsTruth' /\ CopiesFitFetch' /\ FetchStaysCurrent'
  BY <1>4 DEF WireTellsTruth, CopiesFitFetch, FetchStaysCurrent
<1> QED  BY <1>6, <1>7, <1>11, <1>12 DEF FlightInv

LEMMA UncachedGrantShared ==
  ASSUME SharedInv, NEW c \in Caches, UncachedGrant(c), UNCHANGED setVars
  PROVE  FramesInv' /\ CopiesInv' /\ FlightInv'
<1>1. /\ currentGranted = NoCache /\ currentGranted' = c
      /\ requestPacket[c] = cpuPkt[c] /\ ~isCacheablePacket(cpuPkt[c])
      /\ cpuPkt' = cpuPkt /\ memory' = memory
  BY GrantFinds DEF SharedInv, GrantNext, UncachedGrant
<1>2. ~InCacheableTransaction /\ ~InCacheableTransaction'
  BY <1>1 DEF InCacheableTransaction, CurrentPacket, isCacheablePacket
<1>3. \A d \in Caches : Waiting(d)' => Waiting(d)
  BY TailElements DEF UncachedGrant, GrantNext, Waiting, SharedInv, BaseInv, BaseTypeOK, BusTypeOK
<1> QED  BY <1>1, <1>2, <1>3, OutsideStep

LEMMA IdleGrantShared ==
  ASSUME SharedInv, IdleGrant, UNCHANGED setVars
  PROVE  FramesInv' /\ CopiesInv' /\ FlightInv'
<1>1. /\ currentGranted = NoCache /\ currentGranted' = NoCache
      /\ UNCHANGED <<busRequestQueue, cpuPkt, memory>>
  BY DEF IdleGrant, GrantNobody, cpuSideVars
<1>2. /\ ~InCacheableTransaction /\ ~InCacheableTransaction'
      /\ \A d \in Caches : Waiting(d)' => Waiting(d)
  BY <1>1 DEF InCacheableTransaction, Waiting
<1> QED  BY <1>1, <1>2, OutsideStep

-----------------------------------------------------------------------------
(* Steps of the memory side and of packets outside the cacheable range.    *)

LEMMA UncachedForwardShared ==
  ASSUME SharedInv, NEW m, UncachedForward(m), UNCHANGED setVars
  PROVE  FramesInv' /\ CopiesInv' /\ FlightInv'
<1>1. /\ m.from = currentGranted /\ m.pkt = cpuPkt[m.from] /\ ~isCacheablePacket(m.pkt)
      /\ UNCHANGED <<busRequestQueue, currentGranted, cpuPkt, memory>>
  BY QueuedFacts DEF UncachedForward, SharedInv, cpuSideVars, arbiterVars
<1>2. /\ ~InCacheableTransaction /\ ~InCacheableTransaction'
      /\ \A d \in Caches : Waiting(d)' => Waiting(d)
  BY <1>1 DEF InCacheableTransaction, CurrentPacket, Waiting, isCacheablePacket
<1> QED  BY <1>1, <1>2, OutsideStep

LEMMA UncachedResponseShared ==
  ASSUME SharedInv, NEW m, NEW c \in Caches, UncachedResponse(m, c), UNCHANGED setVars
  PROVE  FramesInv' /\ CopiesInv' /\ FlightInv'
<1>1. /\ currentGranted = c /\ currentGranted' = NoCache
      /\ UNCHANGED <<busRequestQueue, memory>>
      /\ \A d \in Caches \ {c} : cpuPkt'[d] = cpuPkt[d]
      /\ ~isCacheablePacket(cpuPkt[c])
  BY AnsweredFacts DEF UncachedResponse, Release, SharedInv, BaseInv, BaseTypeOK,
     isCacheablePacket
<1>2. ~Waiting(c)
  BY <1>1, NobodyIsNoCache DEF SharedInv, BaseInv, BlockedAccounted
<1>3. /\ ~InCacheableTransaction /\ ~InCacheableTransaction'
      /\ \A d \in Caches : Waiting(d)' => Waiting(d) /\ cpuPkt'[d] = cpuPkt[d]
  BY <1>1, <1>2 DEF InCacheableTransaction, CurrentPacket, Waiting
<1> QED  BY <1>1, <1>3, OutsideStep

LEMMA RetryShared ==
  ASSUME SharedInv, RecvReqRetry, UNCHANGED <<cpuSideVars, setVars>>
  PROVE  FramesInv' /\ CopiesInv' /\ FlightInv'
<1>1. /\ blockedPacket # NoPacket /\ blockedPacket' = NoPacket
      /\ UNCHANGED <<busRequestQueue, currentGranted, memReqQueue, currBusOp, sharedWire,
                     cpuPkt, memory>>
      /\ inMemory' = Accept(blockedPacket)
  BY DEF RecvReqRetry, arbiterVars, cpuSideVars
<1>2. \A d \in Caches, x \in Cacheable : SameCopy(d, x)
  BY UntouchedCache DEF SharedInv, FramesInv, setVars
<1>3. GrantStillRight' /\ WireTellsTruth' /\ CopiesFitFetch' /\ SameWrite
  BY <1>1, <1>2, WindowKept DEF SharedInv
<1>4. FramesInv' /\ CopiesInv'
  BY <1>1, <1>3, QuietStep DEF SharedInv
<1>5. WaitersNeedBus'
  BY <1>1, <1>2, QuietWaiters DEF Waiting
<1>6. FetchStaysCurrent'
  <2>1. inMemory = {}
    BY <1>1 DEF SharedInv, BaseInv, TransactionShape, Idle, Queued, Refused, AtMemory
  <2>2. \A m \in inMemory' : ~m.answered
    BY <1>1, <2>1 DEF Accept
  <2> QED  BY <2>2 DEF FetchStaysCurrent
<1> QED  BY <1>3, <1>4, <1>5, <1>6 DEF FlightInv

\* What memory does with a packet, cacheable or not.
LEMMA MemAccessFacts ==
  ASSUME SharedInv, NEW m, MemAccess(m), UNCHANGED cpuSideVars
  PROVE  /\ inMemory = {m} /\ m \in MemEntry /\ ~m.answered
         /\ currentGranted \in Caches /\ m.from = currentGranted
         /\ memReqQueue = <<>> /\ blockedPacket = NoPacket
         /\ UNCHANGED <<busRequestQueue, currentGranted, memReqQueue, currBusOp, sharedWire,
                        blockedPacket, cpuPkt, cpuRespQueue>>
         /\ m.pkt.blk = CurrentPacket.blk
         /\ isCacheablePacket(CurrentPacket) =>
              m.pkt.cmd = "Read" /\ m.pkt.words = Words /\ memory' = memory
         /\ \A x \in Cacheable : memory'[x] = memory[x]
<1>1. /\ m \in inMemory /\ ~m.answered
      /\ UNCHANGED <<busRequestQueue, currentGranted, memReqQueue, currBusOp, sharedWire,
                     blockedPacket, cpuPkt, cpuRespQueue>>
  BY DEF MemAccess, arbiterVars, cpuSideVars
<1>2. /\ inMemory = {m} /\ m \in MemEntry /\ currentGranted \in Caches
      /\ m.from = currentGranted /\ memReqQueue = <<>> /\ blockedPacket = NoPacket
  <2>1. AtMemory /\ currentGranted # NoCache
    BY <1>1 DEF SharedInv, BaseInv, TransactionShape, Idle, Queued, Refused, AtMemory
  <2> QED  BY <1>1, <2>1 DEF AtMemory, SharedInv, BaseInv, BaseTypeOK, BusTypeOK
<1>3. PICK p : p = CurrentPacket /\ p = cpuPkt[currentGranted]
  BY DEF CurrentPacket
<1>4. /\ m.pkt.blk = p.blk
      /\ isCacheablePacket(p) => m.pkt.cmd = "Read" /\ m.pkt.words = Words
  BY <1>1, <1>3 DEF SharedInv, BaseInv, TransactionMatches, generateAlignAccess
<1>5. /\ memory \in [Blocks -> [Words -> Values]]
      /\ memory' = IF m.pkt.cmd = "Read" THEN memory
                   ELSE [memory EXCEPT ![m.pkt.blk] = WriteDataToBlock(m.pkt, @)]
      /\ m.pkt \in Packet
  BY <1>2 DEF MemAccess, SharedInv, BaseInv, BaseTypeOK, BusTypeOK, MemEntry
<1>6. \A x \in Cacheable : memory'[x] = memory[x]
  BY <1>4, <1>5, BusAssumption DEF isCacheablePacket
<1> QED  BY <1>1, <1>2, <1>3, <1>4, <1>5, <1>6

\* Memory performs a packet: an aligned read if the block is cacheable.
LEMMA MemAccessShared ==
  ASSUME SharedInv, NEW m, MemAccess(m), UNCHANGED <<cpuSideVars, setVars>>
  PROVE  FramesInv' /\ CopiesInv' /\ FlightInv'
<1>1. /\ inMemory = {m} /\ m \in MemEntry
      /\ UNCHANGED <<busRequestQueue, currentGranted, memReqQueue, currBusOp, sharedWire, cpuPkt>>
      /\ m.pkt.blk = CurrentPacket.blk
      /\ isCacheablePacket(CurrentPacket) =>
           m.pkt.cmd = "Read" /\ m.pkt.words = Words /\ memory' = memory
      /\ \A x \in Cacheable : memory'[x] = memory[x]
  BY MemAccessFacts
<1>2. \A d \in Caches, x \in Cacheable : SameCopy(d, x)
  BY UntouchedCache DEF SharedInv, FramesInv, setVars
<1>3. GrantStillRight' /\ WireTellsTruth' /\ CopiesFitFetch' /\ SameWrite
  BY <1>1, <1>2, WindowKept DEF SharedInv
<1>4. FramesInv' /\ CopiesInv'
  BY <1>1, <1>3, QuietStep DEF SharedInv
<1>5. WaitersNeedBus'
  BY <1>1, <1>2, QuietWaiters DEF Waiting
<1>6. FetchStaysCurrent'
  <2> SUFFICES ASSUME InCacheableTransaction', NEW e \in inMemory'
               PROVE  e.pkt.data = memory'[e.pkt.blk]
    BY DEF FetchStaysCurrent
  <2>1. isCacheablePacket(CurrentPacket)
    BY <1>1 DEF InCacheableTransaction, CurrentPacket, isCacheablePacket
  <2>2. m.pkt \in Packet /\ m.pkt.cmd = "Read" /\ m.pkt.words = Words /\ memory' = memory
    BY <1>1, <2>1 DEF MemEntry
  <2>3. e.pkt = SetDataFromBlock(m.pkt, memory[m.pkt.blk])
    BY <1>1, <2>2 DEF MemAccess, MemEntry
  <2>4. memory[m.pkt.blk] \in [Words -> Values]
    BY <2>2 DEF Packet, SharedInv, BaseInv, BaseTypeOK, BusTypeOK
  <2>5. e.pkt.data = memory[m.pkt.blk] /\ e.pkt.blk = m.pkt.blk
    BY <2>2, <2>3, <2>4 DEF SetDataFromBlock, Packet
  <2> QED  BY <2>2, <2>5
<1> QED  BY <1>3, <1>4, <1>5, <1>6 DEF FlightInv

-----------------------------------------------------------------------------
(* The snoop and the end of a transaction.                                 *)

\* What the snoop finds: a cacheable transaction, its wire still clear.
LEMMA SnoopFinds ==
  ASSUME SharedInv, NEW m, NextMemReq(m), isCacheablePacket(m.pkt)
  PROVE  /\ m \in MemReq /\ m.pkt \in Packet /\ m.pkt.blk \in Cacheable
         /\ memReqQueue = <<m>> /\ memReqQueue' = <<>>
         /\ m.from \in Caches /\ currentGranted = m.from
         /\ m.pkt = cpuPkt[m.from] /\ requestPacket[m.from] = m.pkt
         /\ InCacheableTransaction /\ CurrentPacket = m.pkt /\ ~WriteUnderWay
         /\ blockedPacket = NoPacket /\ inMemory = {} /\ ~sharedWire
         /\ m.toMem = NeedsMemory(m.from, m.pkt)
         /\ currBusOp \in Ops(m.from, m.pkt)
         /\ isHit(m.from, m.pkt.blk) =>
              m.pkt.cmd = "Write" /\ ~WritesSilently(LineOf(m.from, m.pkt.blk))
<1>1. /\ m \in MemReq /\ m.pkt \in Packet /\ m.pkt.blk \in Cacheable
      /\ memReqQueue = <<m>> /\ memReqQueue' = <<>>
      /\ m.from \in Caches /\ currentGranted = m.from /\ m.pkt = cpuPkt[m.from]
      /\ blockedPacket = NoPacket /\ inMemory = {}
  BY QueuedFacts DEF SharedInv, isCacheablePacket
<1>2. requestPacket[m.from] = m.pkt
  BY <1>1 DEF SharedInv, BaseInv, RequestPacketLive, isCacheablePacket
<1>3. InCacheableTransaction /\ CurrentPacket = m.pkt
  BY <1>1, NobodyIsNoCache DEF InCacheableTransaction, CurrentPacket, isCacheablePacket
<1>4. memReqQueue # <<>> /\ Head(memReqQueue) = m /\ ~WriteUnderWay
  BY <1>1 DEF WriteUnderWay
<1>5. /\ ~sharedWire
      /\ m.toMem = NeedsMemory(m.from, m.pkt)
      /\ currBusOp \in Ops(m.from, m.pkt)
      /\ isHit(m.from, m.pkt.blk) =>
           m.pkt.cmd = "Write" /\ ~WritesSilently(LineOf(m.from, m.pkt.blk))
  BY <1>1, <1>3, <1>4 DEF SharedInv, FlightInv, GrantStillRight
<1> QED  BY <1>1, <1>2, <1>3, <1>4, <1>5

\* What the snoop leaves: memory's block is what the copies held whenever the
\* requester has none; the copies that are left are shared and fit the access.
LEMMA AfterSnoop ==
  ASSUME SharedInv, NEW m, NextMemReq(m), isCacheablePacket(m.pkt),
         NEW d \in Caches \ {m.from}, lines'[d] = LinesAfterSnoop(m)[d],
         tagMap'[d] = tagMap[d], clkPtr'[d] = clkPtr[d]
  PROVE  LET p == m.pkt
             b == m.pkt.blk
         IN /\ SharedCacheInv(d)'
            /\ \A x \in Cacheable \ {b} : SameCopy(d, x)
            /\ isHit(d, b)' <=> isHit(d, b) /\ ~Invalidates
            /\ isHit(d, b)' =>
                 /\ LineOf(d, b)'.cohState \in
                      IF p.cmd = "Write" THEN {"SharedClean"} ELSE {"SharedClean", "SharedMod"}
                 /\ LineOf(d, b)'.cohState = "SharedMod" =>
                      LineOf(d, b).cohState \in {"Modified", "SharedMod"}
                 /\ ~LineOf(d, b)'.dirty
                 /\ LineOf(d, b)'.data =
                      IF p.cmd = "Write" THEN WriteDataToBlock(p, LineOf(d, b).data)
                                         ELSE LineOf(d, b).data
            /\ isHit(d, b) /\ ~isHit(m.from, b) => LineOf(d, b).data = MemoryAfterSnoop(m)[b]
<1> DEFINE p == m.pkt
           b == m.pkt.blk
           k == LineOf(d, b)
<1>1. /\ m \in MemReq /\ p \in Packet /\ b \in Cacheable /\ m.from \in Caches
      /\ currBusOp \in Ops(m.from, p) /\ currBusOp \in BusOps /\ ~WriteUnderWay
  BY SnoopFinds DEF SharedInv, BaseInv, BaseTypeOK, BusTypeOK
<1>2. FramesInv /\ CopiesInv /\ memory \in [Blocks -> [Words -> Values]]
  BY DEF SharedInv, BaseInv, BaseTypeOK, BusTypeOK
<1>3. /\ SharedCacheInv(d)'
      /\ \A x \in Cacheable \ {b} : SameCopy(d, x)
      /\ isHit(d, b)' <=> isHit(d, b) /\ ~Invalidates
      /\ isHit(d, b)' => LineOf(d, b)' = SnoopedLine(k, p)
  BY <1>1, <1>2, SnoopedCopy
<1>4. isHit(d, b) => k \in Frame(CoherenceStates) /\ Marked(k) /\ k.cohState # "Invalid"
  BY <1>1, <1>2, LineFacts DEF FramesInv, isHit
<1>5. /\ p.cmd = "Write" /\ ~Invalidates => Updates
      /\ p.cmd = "Read" => Reads /\ ~Updates /\ ~Invalidates
      /\ ~isHit(m.from, b) => Reads \/ Invalidates
      /\ p.cmd \in {"Read", "Write"}
  <2>1. p.cmd \in {"Read", "Write"} /\ (isHit(m.from, b) => p.cmd = "Write")
    BY <1>1, SnoopFinds DEF Packet
  <2>2. PICK op : op = currBusOp
    OBVIOUS
  <2>3. CASE isHit(m.from, b)
    <3>1. op \in {"BusUpd", "BusRdX"}
      BY <1>1, <2>2, <2>3 DEF Ops
    <3> QED  BY <2>1, <2>2, <2>3, <3>1 DEF Updates, Invalidates, hasBusUpd
  <2>4. CASE ~isHit(m.from, b)
    <3>1. op \in IF p.cmd = "Read" THEN {"BusRd"} ELSE {"BusRdUpd", "BusRdX"}
      BY <1>1, <2>2, <2>4 DEF Ops
    <3> QED
      BY <2>1, <2>2, <3>1 DEF Updates, Reads, Invalidates, hasBusRd, hasBusUpd
  <2> QED  BY <2>3, <2>4
<1>6. ASSUME isHit(d, b)'
      PROVE  /\ LineOf(d, b)'.cohState \in
                  IF p.cmd = "Write" THEN {"SharedClean"} ELSE {"SharedClean", "SharedMod"}
             /\ LineOf(d, b)'.cohState = "SharedMod" => k.cohState \in {"Modified", "SharedMod"}
             /\ ~LineOf(d, b)'.dirty
             /\ LineOf(d, b)'.data =
                  IF p.cmd = "Write" THEN WriteDataToBlock(p, k.data) ELSE k.data
  <2>1. /\ LineOf(d, b)'.cohState = SnoopedState(k)
        /\ LineOf(d, b)'.dirty = SnoopedDirty(k)
        /\ LineOf(d, b)'.data = SnoopedData(k, p)
    <3> HIDE DEF k, p
    <3> QED  BY <1>1, <1>3, <1>4, <1>6, SnoopedLineFacts DEF p
  <2>2. k \in Frame(CoherenceStates) /\ Marked(k) /\ k.cohState # "Invalid" /\ ~Invalidates
    BY <1>3, <1>4, <1>6
  <2> HIDE DEF k
  <2>3. SnoopedState(k) \in
          IF p.cmd = "Write" THEN {"SharedClean"} ELSE {"SharedClean", "SharedMod"}
    BY <1>5, <2>2 DEF SnoopedState
  <2>4. SnoopedState(k) = "SharedMod" => k.cohState \in {"Modified", "SharedMod"}
    BY <2>2 DEF SnoopedState, Frame, CoherenceStates
  <2>5. ~SnoopedDirty(k)
    BY <1>5, <2>2 DEF SnoopedDirty, Flushes, Marked
  <2>6. SnoopedData(k, p) = IF p.cmd = "Write" THEN WriteDataToBlock(p, k.data) ELSE k.data
    BY <1>5, <2>2 DEF SnoopedData
  <2> QED  BY <2>1, <2>3, <2>4, <2>5, <2>6
<1>7. ASSUME isHit(d, b), ~isHit(m.from, b)
      PROVE  k.data = MemoryAfterSnoop(m)[b]
  <2>1. CASE \E e \in SnoopHits(m) : MemoryAfterSnoop(m)[b] = LineOf(e, b).data
    BY <1>1, <1>2, <1>7, <2>1 DEF SnoopHits, CopiesInv, CopiesAgree
  <2>2. CASE MemoryAfterSnoop(m) = memory /\ \A e \in SnoopHits(m) : ~Flushes(LineOf(e, b))
    <3>1. ASSUME NEW e \in Caches, isHit(e, b) PROVE ~LineOf(e, b).dirty
      <4>1. e \in SnoopHits(m)
        BY <1>7, <3>1 DEF SnoopHits
      <4>2. Marked(LineOf(e, b))
        BY <1>1, <1>2, <3>1, LineFacts DEF FramesInv, isHit
      <4> QED  BY <1>5, <1>7, <2>2, <4>1, <4>2 DEF Flushes, Marked
    <3>2. k.data = memory[b]
      BY <1>1, <1>2, <1>7, <3>1 DEF CopiesInv, StaleMemoryHasDirtyCopy
    <3> QED  BY <2>2, <3>2
  <2> QED  BY <1>1, <1>2, <2>1, <2>2, SnoopedMemory DEF CopiesInv
<1> QED  BY <1>3, <1>6, <1>7

\* The snoop of a transaction that goes on to memory.
LEMMA SnoopAndFetchShared ==
  ASSUME SharedInv, NEW m, SnoopAndFetch(m)
  PROVE  FramesInv' /\ CopiesInv' /\ FlightInv'
<1>1. /\ m \in MemReq /\ m.pkt \in Packet /\ m.pkt.blk \in Cacheable
      /\ memReqQueue' = <<>> /\ m.from \in Caches /\ currentGranted = m.from
      /\ InCacheableTransaction /\ CurrentPacket = m.pkt /\ ~WriteUnderWay
      /\ inMemory = {} /\ ~sharedWire /\ ~isHit(m.from, m.pkt.blk)
      /\ m.pkt = cpuPkt[m.from] /\ isCacheablePacket(m.pkt) /\ NextMemReq(m)
  BY SnoopFinds DEF SnoopAndFetch, NeedsMemory
<1>2. /\ lines' = LinesAfterSnoop(m) /\ memory' = MemoryAfterSnoop(m)
      /\ sharedWire' = WireAfterSnoop(m)
      /\ sendPacket([pkt |-> generateAlignAccess(m.pkt), from |-> m.from])
      /\ UNCHANGED <<currentGranted, busRequestQueue, cpuPkt, tagMap, clkPtr>>
  BY DEF SnoopAndFetch, cpuSideVars, arbiterVars
<1>3. PICK p \in Packet : p = m.pkt
  BY <1>1
<1>4. PICK b \in Cacheable : b = p.blk
  BY <1>1, <1>3
<1>5. PICK g \in Caches : g = m.from
  BY <1>1
<1>6. FramesInv /\ CopiesInv /\ memory \in [Blocks -> [Words -> Values]]
  BY DEF SharedInv, BaseInv, BaseTypeOK, BusTypeOK
<1>7. PICK states : states = IF p.cmd = "Write" THEN {"SharedClean"}
                                                ELSE {"SharedClean", "SharedMod"}
  OBVIOUS
<1>8. \A d \in Caches \ {g} :
        /\ SharedCacheInv(d)'
        /\ \A x \in Cacheable \ {b} : SameCopy(d, x)
        /\ isHit(d, b)' <=> isHit(d, b) /\ ~Invalidates
        /\ isHit(d, b)' =>
             /\ LineOf(d, b)'.cohState \in states
             /\ LineOf(d, b)'.cohState = "SharedMod" =>
                  LineOf(d, b).cohState \in {"Modified", "SharedMod"}
             /\ LineOf(d, b)'.data =
                  IF p.cmd = "Write" THEN WriteDataToBlock(p, LineOf(d, b).data)
                                     ELSE LineOf(d, b).data
        /\ isHit(d, b) => LineOf(d, b).data = memory'[b]
  <2> TAKE d \in Caches \ {g}
  <2>1. lines'[d] = LinesAfterSnoop(m)[d] /\ tagMap'[d] = tagMap[d] /\ clkPtr'[d] = clkPtr[d]
    BY <1>2
  <2>2. d \in Caches \ {m.from}
    BY <1>5
  <2> QED  BY <1>1, <1>2, <1>3, <1>4, <1>7, <2>1, <2>2, AfterSnoop
<1>9. SharedCacheInv(g)' /\ \A x \in Cacheable : SameCopy(g, x)
  <2>1. g \notin SnoopHits(m)
    BY <1>5 DEF SnoopHits
  <2>2. lines'[g] = lines[g] /\ tagMap'[g] = tagMap[g] /\ clkPtr'[g] = clkPtr[g]
    BY <1>2, <2>1 DEF LinesAfterSnoop
  <2> QED  BY <1>6, <2>2, UntouchedCache DEF FramesInv
<1>10. ~isHit(g, b) /\ ~isHit(g, b)'
  BY <1>1, <1>3, <1>4, <1>5, <1>9 DEF SameCopy
<1>11. \A d \in Caches, x \in Cacheable \ {b} : SameCopy(d, x)
  BY <1>8, <1>9
<1>12. FramesInv'
  <2>1. \A d \in Caches :
          SharedCacheInv(d)' /\ lines'[d] \in [Sets -> [Ways -> Frame(CoherenceStates)]]
    BY <1>8, <1>9 DEF SharedCacheInv, CacheInv, CacheTyped
  <2>2. lines' \in [Caches -> [Sets -> [Ways -> Frame(CoherenceStates)]]]
    BY <1>2, <2>1 DEF LinesAfterSnoop
  <2>3. SetsTypeOK(CoherenceStates)'
    BY <1>2, <1>6, <2>2 DEF FramesInv, SetsTypeOK
  <2> QED  BY <2>1, <2>3 DEF FramesInv
<1>13. \A x \in Blocks \ {b} : memory'[x] = memory[x]
  BY <1>1, <1>2, <1>3, <1>4, <1>6, SnoopedMemory DEF CopiesInv
<1>14. \A d \in Caches : isHit(d, b)' =>
         /\ d # g /\ isHit(d, b) /\ ~Invalidates
         /\ LineOf(d, b)'.cohState \in states
         /\ LineOf(d, b)'.cohState = "SharedMod" =>
              LineOf(d, b).cohState \in {"Modified", "SharedMod"}
         /\ LineOf(d, b)'.data =
              IF p.cmd = "Write" THEN WriteDataToBlock(p, memory'[b]) ELSE memory'[b]
  BY <1>8, <1>10
<1>15. currentGranted' = g /\ CurrentPacket' = p
  BY <1>1, <1>2, <1>3, <1>5 DEF CurrentPacket
<1>16. InCacheableTransaction'
  BY <1>1, <1>2, <1>3, <1>15 DEF InCacheableTransaction
<1>17. SingleOwner'
  <2> SUFFICES ASSUME NEW x \in Cacheable, NEW c \in Caches, NEW d \in Caches, c # d
               PROVE  /\ isHit(c, x)' /\ LineOf(c, x)'.cohState \in {"Exclusive", "Modified"} =>
                           ~isHit(d, x)'
                      /\ ~(/\ isHit(c, x)' /\ LineOf(c, x)'.cohState = "SharedMod"
                           /\ isHit(d, x)' /\ LineOf(d, x)'.cohState = "SharedMod")
    BY DEF SingleOwner, InState
  <2>1. CASE x = b
    BY <1>6, <1>7, <1>14, <2>1 DEF CopiesInv, SingleOwner, InState
  <2>2. CASE x # b
    BY <1>6, <1>11, <2>2 DEF CopiesInv, SingleOwner, InState, SameCopy
  <2> QED  BY <2>1, <2>2
<1>18. CopiesAgree'
  <2> SUFFICES ASSUME NEW x \in Cacheable, NEW c \in Caches, NEW d \in Caches,
                      isHit(c, x)', isHit(d, x)'
               PROVE  LineOf(c, x)'.data = LineOf(d, x)'.data
    BY DEF CopiesAgree
  <2>1. CASE x = b
    BY <1>14, <2>1
  <2>2. CASE x # b
    BY <1>6, <1>11, <2>2 DEF CopiesInv, CopiesAgree, SameCopy
  <2> QED  BY <2>1, <2>2
<1>19. StaleMemoryHasDirtyCopy'
  <2> SUFFICES ASSUME NEW c \in Caches, NEW x \in Cacheable,
                      isHit(c, x)', LineOf(c, x)'.data # memory'[x]
               PROVE  \/ \E d \in Caches : isHit(d, x)' /\ LineOf(d, x)'.dirty
                      \/ (WriteUnderWay /\ x = CurrentPacket.blk)'
    BY DEF StaleMemoryHasDirtyCopy
  <2>1. CASE x = b
    <3>1. p.cmd = "Write"
      BY <1>14, <2>1
    <3>2. WriteUnderWay'
      BY <1>1, <1>15, <1>16, <3>1 DEF WriteUnderWay
    <3> QED  BY <1>4, <1>15, <2>1, <3>2
  <2>2. CASE x # b
    <3>1. isHit(c, x) /\ LineOf(c, x).data # memory[x]
      BY <1>11, <1>13, <2>2, BusAssumption DEF SameCopy
    <3>2. \E d \in Caches : isHit(d, x) /\ LineOf(d, x).dirty
      BY <1>1, <1>6, <3>1 DEF CopiesInv, StaleMemoryHasDirtyCopy
    <3> QED  BY <1>11, <2>2, <3>2 DEF SameCopy
  <2> QED  BY <2>1, <2>2
<1>20. WaitersNeedBus'
  <2>1. ~Waiting(g)
    BY <1>1, <1>5, NobodyIsNoCache DEF SharedInv, BaseInv, BlockedAccounted
  <2>2. \A d \in Caches : Waiting(d)' => Waiting(d) /\ cpuPkt'[d] = cpuPkt[d]
    BY <1>2 DEF Waiting
  <2>3. \A d \in Caches, x \in Cacheable : Waiting(d) /\ isHit(d, x)' =>
          /\ isHit(d, x)
          /\ LineOf(d, x)'.cohState \in {"SharedClean", "SharedMod", LineOf(d, x).cohState}
    BY <1>7, <1>11, <1>14, <2>1 DEF SameCopy
  <2> QED  BY <2>2, <2>3, WaitersStillNeed DEF SharedInv, FlightInv
<1>21. GrantStillRight'
  BY <1>1, <1>4, <1>10, <1>15 DEF GrantStillRight, isHit, Present, LineOf
<1>22. WireTellsTruth'
  <2> DEFINE O == {d \in Caches \ {g} : isHit(d, b)'}
  <2>1. sharedWire' <=> O # {}
    <3>1. sharedWire' = IF SnoopHits(m) = {} THEN sharedWire ELSE ~Invalidates
      BY <1>2 DEF WireAfterSnoop
    <3>2. SnoopHits(m) = {d \in Caches \ {g} : isHit(d, b)}
      BY <1>3, <1>4, <1>5 DEF SnoopHits
    <3> QED  BY <1>1, <1>8, <3>1, <3>2
  <2>2. \A d \in O : isHit(d, b)' /\ LineOf(d, b)'.cohState \in states
    BY <1>14
  <2> QED  BY <1>4, <1>7, <1>15, <2>1, <2>2 DEF WireTellsTruth, InState, isHit, Present, LineOf
<1>23. CopiesFitFetch'
  BY <1>4, <1>14, <1>15 DEF CopiesFitFetch, isHit, Present, LineOf, WriteDataToBlock
<1>24. FetchStaysCurrent'
  BY <1>1, <1>2 DEF FetchStaysCurrent, sendPacket, Accept
<1> QED  BY <1>12, <1>17, <1>18, <1>19, <1>20, <1>21, <1>22, <1>23, <1>24
         DEF CopiesInv, FlightInv

\* The copies the other caches keep fit the line l that g ends up with.
OthersFit(g, b, l) ==
  \A d \in Caches \ {g} :
    /\ SharedCacheInv(d)'
    /\ \A x \in Cacheable \ {b} : SameCopy(d, x)
    /\ isHit(d, b)' =>
         /\ isHit(d, b)
         /\ l.cohState \in {"SharedClean", "SharedMod"}
         /\ LineOf(d, b)'.cohState \in {"SharedClean", "SharedMod"}
         /\ LineOf(d, b)'.cohState = "SharedMod" =>
              /\ l.cohState = "SharedClean"
              /\ LineOf(d, b).cohState \in {"Modified", "SharedMod"}
         /\ LineOf(d, b)'.data = l.data

\* The transaction of g ends with line l for its block b in place, memory being
\* mem before anything is evicted; the others keep copies that fit l.
EndsWith(g, b, l, mem) ==
  /\ l \in Frame(CoherenceStates) /\ mem \in [Blocks -> [Words -> Values]]
  /\ l.tag = b /\ l.valid /\ Marked(l) /\ l.cohState # "Invalid"
  /\ l.dirty \/ l.data = mem[b]
  /\ currentGranted = g /\ currentGranted' = NoCache
  /\ WriteUnderWay => CurrentPacket.blk = b
  /\ UNCHANGED <<busRequestQueue, cpuPkt>>
  /\ lines' \in [Caches -> {lines'[d] : d \in Caches}]
  /\ lines'[g] = LinesWith(g, b, l) /\ PlaceBlock(g, b)
  /\ memory' = MemoryAfterPlacing(g, b, mem)
  /\ \A x \in Blocks \ {b} : mem[x] = memory[x]
  /\ OthersFit(g, b, l)

\* Where that leaves g's own copies and memory.
LEMMA OwnCopies ==
  ASSUME SharedInv, NEW g \in Caches, NEW b \in Cacheable, NEW l, NEW mem,
         EndsWith(g, b, l, mem)
  PROVE  /\ SharedCacheInv(g)'
         /\ isHit(g, b)' /\ LineOf(g, b)' = l
         /\ \A x \in Cacheable \ {b} :
              \/ SameCopy(g, x)
              \/ ~isHit(g, x)' /\ ~Present(g, b) /\ Evicts(g, b) /\ x = Victim(g, b).tag
         /\ memory'[b] = mem[b]
         /\ \A x \in Blocks \ {b} : memory'[x] # memory[x] =>
              /\ x \in Cacheable /\ isHit(g, x) /\ LineOf(g, x).dirty
              /\ memory'[x] = LineOf(g, x).data
         /\ \A x \in Cacheable :
              /\ ~Present(g, b) /\ Evicts(g, b) /\ x = Victim(g, b).tag
              /\ isHit(g, x) /\ LineOf(g, x).dirty
              => memory'[x] = LineOf(g, x).data
<1>1. SharedCacheInv(g) /\ SetsTypeOK(CoherenceStates)
  BY DEF SharedInv, FramesInv
<1>2. /\ tagMap'[g] = IF Present(g, b) THEN tagMap[g] ELSE TagMapAfterFill(g, b)
      /\ clkPtr'[g] = IF Present(g, b) THEN clkPtr[g] ELSE ClkPtrAfterFill(g, b)
  BY <1>1 DEF EndsWith, PlaceBlock, SetsTypeOK
<1>3. /\ l \in Frame(CoherenceStates) /\ l.tag = b /\ l.valid /\ Marked(l)
      /\ l.cohState # "Invalid" /\ lines'[g] = LinesWith(g, b, l)
      /\ mem \in [Blocks -> [Words -> Values]]
      /\ memory' = MemoryAfterPlacing(g, b, mem)
      /\ \A x \in Blocks \ {b} : mem[x] = memory[x]
  BY DEF EndsWith
<1>4. /\ SharedCacheInv(g)'
      /\ isHit(g, b)' /\ LineOf(g, b)' = l
      /\ \A x \in Cacheable \ {b} :
           \/ SameCopy(g, x)
           \/ ~isHit(g, x)' /\ ~Present(g, b) /\ Evicts(g, b) /\ x = Victim(g, b).tag
  BY <1>1, <1>2, <1>3, PlacedCopy
<1>5. WrittenBack(g, b, mem) /\ b \in Blocks
  BY <1>1, <1>3, MemoryWrittenBack, BusAssumption
<1> QED  BY <1>3, <1>4, <1>5 DEF WrittenBack

LEMMA TransactionEnds ==
  ASSUME SharedInv, NEW g \in Caches, NEW b \in Cacheable, NEW l, NEW mem,
         EndsWith(g, b, l, mem)
  PROVE  FramesInv' /\ CopiesInv' /\ FlightInv'
<1> /\ l \in Frame(CoherenceStates) /\ mem \in [Blocks -> [Words -> Values]]
    /\ l.tag = b /\ l.valid /\ Marked(l) /\ l.cohState # "Invalid"
    /\ l.dirty \/ l.data = mem[b]
    /\ currentGranted = g /\ currentGranted' = NoCache
    /\ WriteUnderWay => CurrentPacket.blk = b
    /\ UNCHANGED <<busRequestQueue, cpuPkt>>
    /\ lines' \in [Caches -> {lines'[d] : d \in Caches}]
    /\ PlaceBlock(g, b) /\ OthersFit(g, b, l)
  BY DEF EndsWith
<1>1. FramesInv /\ CopiesInv /\ memory \in [Blocks -> [Words -> Values]]
  BY DEF SharedInv, BaseInv, BaseTypeOK, BusTypeOK
<1>2. /\ tagMap'[g] = IF Present(g, b) THEN tagMap[g] ELSE TagMapAfterFill(g, b)
      /\ clkPtr'[g] = IF Present(g, b) THEN clkPtr[g] ELSE ClkPtrAfterFill(g, b)
      /\ \A d \in Caches \ {g} : tagMap'[d] = tagMap[d] /\ clkPtr'[d] = clkPtr[d]
      /\ DOMAIN tagMap' = Caches /\ DOMAIN clkPtr' = Caches
      /\ tagMap' = [d \in Caches |-> tagMap'[d]] /\ clkPtr' = [d \in Caches |-> clkPtr'[d]]
  BY <1>1 DEF PlaceBlock, FramesInv, SetsTypeOK
<1>4. /\ SharedCacheInv(g)'
      /\ isHit(g, b)' /\ LineOf(g, b)' = l
      /\ \A x \in Cacheable \ {b} :
           \/ SameCopy(g, x)
           \/ ~isHit(g, x)' /\ ~Present(g, b) /\ Evicts(g, b) /\ x = Victim(g, b).tag
  BY OwnCopies
<1>5. /\ memory'[b] = mem[b]
      /\ \A x \in Blocks \ {b} : memory'[x] # memory[x] =>
           /\ x \in Cacheable /\ isHit(g, x) /\ LineOf(g, x).dirty
           /\ memory'[x] = LineOf(g, x).data
      /\ \A x \in Cacheable :
           /\ ~Present(g, b) /\ Evicts(g, b) /\ x = Victim(g, b).tag
           /\ isHit(g, x) /\ LineOf(g, x).dirty
           => memory'[x] = LineOf(g, x).data
  BY OwnCopies
<1>6. FramesInv'
  <2>1. \A d \in Caches : SharedCacheInv(d)' /\ CacheTyped(d, CoherenceStates)'
    BY <1>2, <1>4 DEF OthersFit, SharedCacheInv, CacheInv
  <2>2. /\ lines' \in [Caches -> [Sets -> [Ways -> Frame(CoherenceStates)]]]
        /\ tagMap' \in [Caches -> [Cacheable -> Ways \cup {NotExist}]]
        /\ clkPtr' \in [Caches -> [Sets -> Ways]]
    BY <1>2, <2>1 DEF CacheTyped
  <2> QED  BY <2>1, <2>2 DEF FramesInv, SetsTypeOK
<1>7. \A d \in Caches, x \in Cacheable \ {b} : isHit(d, x)' => SameCopy(d, x)
  BY <1>4 DEF OthersFit
<1>8. \A d \in Caches : isHit(d, b)' => LineOf(d, b)'.data = l.data
  BY <1>4 DEF OthersFit
<1>9. SingleOwner'
  <2> SUFFICES ASSUME NEW x \in Cacheable, NEW c \in Caches, NEW d \in Caches, c # d
               PROVE  /\ isHit(c, x)' /\ LineOf(c, x)'.cohState \in {"Exclusive", "Modified"} =>
                           ~isHit(d, x)'
                      /\ ~(/\ isHit(c, x)' /\ LineOf(c, x)'.cohState = "SharedMod"
                           /\ isHit(d, x)' /\ LineOf(d, x)'.cohState = "SharedMod")
    BY DEF SingleOwner, InState
  <2>1. CASE x = b
    <3>1. CASE c = g
      BY <1>4, <2>1, <3>1 DEF OthersFit
    <3>2. CASE d = g
      BY <1>4, <2>1, <3>2 DEF OthersFit
    <3>3. CASE c # g /\ d # g
      BY <1>1, <2>1, <3>3 DEF OthersFit, CopiesInv, SingleOwner, InState
    <3> QED  BY <3>1, <3>2, <3>3
  <2>2. CASE x # b
    BY <1>1, <1>7, <2>2 DEF CopiesInv, SingleOwner, InState, SameCopy
  <2> QED  BY <2>1, <2>2
<1>10. CopiesAgree'
  <2> SUFFICES ASSUME NEW x \in Cacheable, NEW c \in Caches, NEW d \in Caches,
                      isHit(c, x)', isHit(d, x)'
               PROVE  LineOf(c, x)'.data = LineOf(d, x)'.data
    BY DEF CopiesAgree
  <2>1. CASE x = b
    BY <1>8, <2>1
  <2>2. CASE x # b
    BY <1>1, <1>7, <2>2 DEF CopiesInv, CopiesAgree, SameCopy
  <2> QED  BY <2>1, <2>2
<1>11. StaleMemoryHasDirtyCopy'
  <2> SUFFICES ASSUME NEW c \in Caches, NEW x \in Cacheable,
                      isHit(c, x)', LineOf(c, x)'.data # memory'[x]
               PROVE  \E d \in Caches : isHit(d, x)' /\ LineOf(d, x)'.dirty
    BY DEF StaleMemoryHasDirtyCopy
  <2>1. CASE x = b
    BY <1>4, <1>5, <1>8, <2>1
  <2>2. CASE x # b
    <3>1. /\ isHit(c, x) /\ LineOf(c, x)'.data = LineOf(c, x).data
      BY <1>7, <2>2 DEF SameCopy
    <3>2. isHit(g, x) => LineOf(c, x).data = LineOf(g, x).data
      BY <1>1, <3>1 DEF CopiesInv, CopiesAgree
    <3>3. memory'[x] = memory[x]
      BY <1>5, <2>2, <3>1, <3>2, BusAssumption
    <3>4. PICK d \in Caches : isHit(d, x) /\ LineOf(d, x).dirty
      BY <1>1, <2>2, <3>1, <3>3 DEF CopiesInv, StaleMemoryHasDirtyCopy
    <3>5. SameCopy(d, x)
      BY <1>4, <1>5, <2>2, <3>1, <3>2, <3>4 DEF OthersFit
    <3> QED  BY <3>4, <3>5 DEF SameCopy
  <2> QED  BY <2>1, <2>2
<1>12. WaitersNeedBus'
  <2>1. ~Waiting(g)
    BY NobodyIsNoCache DEF SharedInv, BaseInv, BlockedAccounted
  <2>2. \A d \in Caches : Waiting(d)' => Waiting(d) /\ cpuPkt'[d] = cpuPkt[d]
    BY DEF Waiting
  <2>3. \A d \in Caches, x \in Cacheable : Waiting(d) /\ isHit(d, x)' =>
          /\ isHit(d, x)
          /\ LineOf(d, x)'.cohState \in {"SharedClean", "SharedMod", LineOf(d, x).cohState}
    BY <2>1 DEF OthersFit, SameCopy
  <2> QED  BY <2>2, <2>3, WaitersStillNeed DEF SharedInv, FlightInv
<1>13. ~InCacheableTransaction'
  BY DEF InCacheableTransaction
<1>14. GrantStillRight' /\ WireTellsTruth' /\ CopiesFitFetch' /\ FetchStaysCurrent'
  BY <1>13 DEF GrantStillRight, WireTellsTruth, CopiesFitFetch, FetchStaysCurrent
<1> QED  BY <1>6, <1>9, <1>10, <1>11, <1>12, <1>14 DEF CopiesInv, FlightInv

\* Where PlaceBlock leaves the other caches.
LEMMA PlaceBlockOthers ==
  ASSUME SetsTypeOK(CoherenceStates), NEW g \in Caches, NEW b \in Cacheable, PlaceBlock(g, b),
         NEW d \in Caches \ {g}
  PROVE  tagMap'[d] = tagMap[d] /\ clkPtr'[d] = clkPtr[d]
  BY DEF PlaceBlock, SetsTypeOK

\* A write that needs no data from memory: it finds a copy or overwrites all.
LEMMA SnoopAndCompleteEnds ==
  ASSUME SharedInv, NEW m, SnoopAndComplete(m), NEW g, g = m.from, NEW b, b = m.pkt.blk
  PROVE  /\ g \in Caches /\ b \in Cacheable
         /\ m.pkt.cmd = "Write" /\ (isHit(g, b) \/ FullBlock(m.pkt))
         /\ \E l, mem : /\ EndsWith(g, b, l, mem)
                        /\ l.data = WriteDataToBlock(m.pkt, OldLine(g, b).data)
<1>1. g \in Caches
  BY SnoopFinds DEF SnoopAndComplete
<1>2. /\ m \in MemReq /\ m.pkt \in Packet /\ m.pkt.blk \in Cacheable
      /\ currentGranted = g /\ requestPacket[g] = m.pkt /\ ~WriteUnderWay
      /\ ~sharedWire /\ m.toMem = NeedsMemory(g, m.pkt) /\ ~m.toMem
      /\ isHit(g, m.pkt.blk) => m.pkt.cmd = "Write"
      /\ isCacheablePacket(m.pkt) /\ NextMemReq(m)
  BY <1>1, SnoopFinds DEF SnoopAndComplete
<1>3. PICK p \in Packet : p = m.pkt
  BY <1>2
<1>4. b \in Cacheable /\ b = p.blk
  BY <1>2, <1>3
<1> g \in Caches /\ b \in Cacheable
  BY <1>1, <1>4
<1>5. p.cmd = "Write" /\ (isHit(g, b) \/ FullBlock(p))
  BY <1>2, <1>3, <1>4 DEF NeedsMemory, Packet
<1>6. PICK wire : wire = WireAfterSnoop(m)
  OBVIOUS
<1>7. PICK l : l = FilledLine(g, p, p, wire)
  OBVIOUS
<1>8. PICK mem : mem = MemoryAfterSnoop(m)
  OBVIOUS
<1>9. /\ lines' = [LinesAfterSnoop(m) EXCEPT ![g] = LinesWith(g, b, l)]
      /\ memory' = MemoryAfterPlacing(g, b, mem)
      /\ PlaceBlock(g, b)
      /\ currentGranted' = NoCache
      /\ UNCHANGED <<busRequestQueue, cpuPkt>>
  BY <1>1, <1>2, <1>3, <1>4, <1>6, <1>7, <1>8
     DEF SnoopAndComplete, FinishTransaction, Release
<1>10. FramesInv /\ CopiesInv /\ memory \in [Blocks -> [Words -> Values]]
  BY DEF SharedInv, BaseInv, BaseTypeOK, BusTypeOK
<1>11. wire \in BOOLEAN /\ (wire <=> SnoopHits(m) # {} /\ ~Invalidates)
  <2>1. sharedWire \in BOOLEAN
    BY DEF SharedInv, BaseInv, BaseTypeOK, BusTypeOK
  <2>2. CASE SnoopHits(m) = {}
    BY <1>2, <1>6, <2>1, <2>2 DEF WireAfterSnoop
  <2>3. CASE SnoopHits(m) # {}
    <3>1. wire = ~Invalidates
      BY <1>6, <2>3 DEF WireAfterSnoop
    <3> QED  BY <2>3, <3>1 DEF Invalidates
  <2> QED  BY <2>2, <2>3
<1>12. /\ l \in Frame(CoherenceStates) /\ l.tag = b /\ l.valid /\ Marked(l) /\ l.dirty
       /\ l.cohState = IF wire THEN "SharedMod" ELSE "Modified"
       /\ l.data = WriteDataToBlock(p, OldLine(g, b).data)
  <2>1. SharedCacheInv(g)
    BY <1>10 DEF FramesInv
  <2>2. p.cmd = "Write" /\ p.blk = b /\ wire \in BOOLEAN
    BY <1>4, <1>5, <1>11
  <2>3. /\ l \in Frame(CoherenceStates) /\ l.tag = b /\ l.valid /\ Marked(l) /\ l.dirty
        /\ l.cohState = IF wire THEN "SharedMod" ELSE "Modified"
        /\ l.data = WriteDataToBlock(p, FetchedData(g, p))
    BY <1>7, <2>1, <2>2, FilledLineFacts
  <2>4. FetchedData(g, p) = OldLine(g, b).data
    BY <2>2 DEF FetchedData
  <2> QED  BY <2>3, <2>4
<1>13. /\ mem \in [Blocks -> [Words -> Values]]
       /\ \A x \in Blocks \ {b} : mem[x] = memory[x]
  BY <1>2, <1>3, <1>4, <1>8, <1>10, SnoopedMemory DEF CopiesInv
<1>14. \A d \in Caches \ {g} :
         /\ SharedCacheInv(d)'
         /\ \A x \in Cacheable \ {b} : SameCopy(d, x)
         /\ isHit(d, b)' <=> isHit(d, b) /\ ~Invalidates
         /\ isHit(d, b)' =>
              /\ LineOf(d, b)'.cohState = "SharedClean"
              /\ LineOf(d, b)'.data = WriteDataToBlock(p, LineOf(d, b).data)
  <2> TAKE d \in Caches \ {g}
  <2>1. lines'[d] = LinesAfterSnoop(m)[d]
    BY <1>9 DEF LinesAfterSnoop
  <2>2. tagMap'[d] = tagMap[d] /\ clkPtr'[d] = clkPtr[d]
    BY <1>9, <1>10, PlaceBlockOthers DEF FramesInv
  <2>3. d \in Caches \ {m.from}
    BY <1>1
  <2> QED  BY <1>2, <1>3, <1>4, <1>5, <2>1, <2>2, <2>3, AfterSnoop
<1>15. \A d \in Caches \ {g} : isHit(d, b)' =>
         /\ l.cohState = "SharedMod"
         /\ LineOf(d, b)'.data = l.data
  <2> TAKE d \in Caches \ {g}
  <2> HAVE isHit(d, b)'
  <2>1. isHit(d, b) /\ ~Invalidates /\ d \in SnoopHits(m)
    BY <1>1, <1>3, <1>4, <1>14 DEF SnoopHits
  <2>2. CASE isHit(g, b)
    <3>1. OldLine(g, b) = LineOf(g, b)
      BY <1>10, <2>2, OldLineFacts DEF FramesInv
    <3>2. LineOf(g, b).data = LineOf(d, b).data
      BY <1>10, <2>1, <2>2 DEF CopiesInv, CopiesAgree
    <3> QED  BY <1>11, <1>12, <1>14, <2>1, <3>1, <3>2
  <2>3. CASE FullBlock(p)
    BY <1>11, <1>12, <1>14, <2>1, <2>3 DEF FullBlock, WriteDataToBlock
  <2> QED  BY <1>5, <2>2, <2>3
<1>16. lines'[g] = LinesWith(g, b, l) /\ lines' \in [Caches -> {lines'[d] : d \in Caches}]
  BY <1>9 DEF LinesAfterSnoop
<1>17. OthersFit(g, b, l)
  BY <1>14, <1>15 DEF OthersFit
<1>18. l.cohState # "Invalid"
  BY <1>12
<1>19. EndsWith(g, b, l, mem)
  BY <1>2, <1>9, <1>12, <1>13, <1>16, <1>17, <1>18 DEF EndsWith
<1> QED  BY <1>1, <1>3, <1>4, <1>5, <1>12, <1>19

LEMMA SnoopAndCompleteShared ==
  ASSUME SharedInv, NEW m, SnoopAndComplete(m)
  PROVE  FramesInv' /\ CopiesInv' /\ FlightInv'
  BY SnoopAndCompleteEnds, TransactionEnds

\* The response from memory: the block is still memory's, and fits the copies.
LEMMA MemRespEnds ==
  ASSUME SharedInv, NEW m, NEW g \in Caches, MemResp(m, g), NEW p, p = cpuPkt[g],
         NEW b, b = p.blk
  PROVE  /\ p \in Packet /\ requestPacket[g] = p /\ b \in Cacheable
         /\ InCacheableTransaction /\ CurrentPacket = p /\ memReqQueue = <<>>
         /\ inMemory = {m} /\ isCacheablePacket(m.pkt) /\ currentGranted = g
         /\ FetchedData(g, m.pkt) = memory[b]
         /\ \E l, mem : /\ EndsWith(g, b, l, mem)
                        /\ l.data = IF p.cmd = "Read" THEN memory[b]
                                                      ELSE WriteDataToBlock(p, memory[b])
<1>1. /\ currentGranted = g /\ m \in MemEntry /\ m \in inMemory /\ m.answered
      /\ memReqQueue = <<>> /\ cpuPkt[g] \in Packet
      /\ m.pkt.blk = cpuPkt[g].blk /\ isCacheablePacket(m.pkt)
      /\ inMemory = {m}
  BY AnsweredFacts DEF MemResp, SharedInv, TakeResponse
<1>2. p \in Packet
  BY <1>1
<1>3. b \in Cacheable
  BY <1>1, <1>2 DEF isCacheablePacket
<1> p \in Packet /\ b \in Cacheable
  BY <1>2, <1>3
<1>4. /\ m.pkt \in Packet /\ m.pkt.blk = b /\ m.pkt.cmd = "Read" /\ m.pkt.words = Words
      /\ requestPacket[g] = p
  BY <1>1, <1>2, <1>3, NobodyIsNoCache DEF SharedInv, BaseInv, TransactionMatches,
     RequestPacketLive, isCacheablePacket, generateAlignAccess, MemEntry
<1>5. InCacheableTransaction /\ CurrentPacket = p
  BY <1>1, <1>2, <1>3, NobodyIsNoCache
     DEF InCacheableTransaction, CurrentPacket, isCacheablePacket
<1>6. PICK wire : wire = sharedWire
  OBVIOUS
<1>7. PICK l : l = FilledLine(g, p, m.pkt, wire)
  OBVIOUS
<1>8. /\ lines' = [lines EXCEPT ![g] = LinesWith(g, b, l)]
      /\ memory' = MemoryAfterPlacing(g, b, memory)
      /\ PlaceBlock(g, b)
      /\ currentGranted' = NoCache
      /\ UNCHANGED <<busRequestQueue, cpuPkt>>
  BY <1>1, <1>3, <1>4, <1>6, <1>7 DEF MemResp, FinishTransaction, Release
<1>9. /\ FramesInv /\ CopiesInv /\ wire \in BOOLEAN
      /\ memory \in [Blocks -> [Words -> Values]]
      /\ lines \in [Caches -> [Sets -> [Ways -> Frame(CoherenceStates)]]]
  BY <1>6 DEF SharedInv, FramesInv, SetsTypeOK, BaseInv, BaseTypeOK, BusTypeOK
<1>10. /\ ~isHit(g, b) /\ m.pkt.data = memory[b]
  BY <1>1, <1>3, <1>4, <1>5 DEF SharedInv, FlightInv, GrantStillRight, FetchStaysCurrent
<1>11. /\ l \in Frame(CoherenceStates) /\ l.tag = b /\ l.valid /\ Marked(l)
       /\ l.dirty <=> p.cmd = "Write"
       /\ l.cohState = IF p.cmd = "Read" THEN (IF wire THEN "SharedClean" ELSE "Exclusive")
                                         ELSE (IF wire THEN "SharedMod" ELSE "Modified")
       /\ l.data = IF p.cmd = "Read" THEN memory[b] ELSE WriteDataToBlock(p, memory[b])
       /\ FetchedData(g, m.pkt) = memory[b]
  <2>1. SharedCacheInv(g)
    BY <1>9 DEF FramesInv
  <2>2. FetchedData(g, m.pkt) = memory[b]
    BY <1>3, <1>4, <1>9, <1>10, <2>1, FilledLineFacts
  <2> QED  BY <1>3, <1>4, <1>7, <1>9, <1>10, <2>1, <2>2, FilledLineFacts
<1>12. p.cmd \in {"Read", "Write"}
  BY DEF Packet
<1>13. \A d \in Caches \ {g} : isHit(d, b) =>
         /\ wire
         /\ LineOf(d, b).cohState \in IF p.cmd = "Write" THEN {"SharedClean"}
                                                         ELSE {"SharedClean", "SharedMod"}
         /\ LineOf(d, b).data = l.data
  <2> TAKE d \in Caches \ {g}
  <2> HAVE isHit(d, b)
  <2> DEFINE O == {e \in Caches \ {g} : isHit(e, b)}
  <2>1. /\ wire <=> O # {}
        /\ \A e \in O : InState(e, b, IF p.cmd = "Write" THEN {"SharedClean"}
                                                         ELSE {"SharedClean", "SharedMod"})
    BY <1>1, <1>3, <1>5, <1>6 DEF SharedInv, FlightInv, WireTellsTruth
  <2>2. LineOf(d, b).data =
          IF p.cmd = "Write" THEN WriteDataToBlock(p, memory[b]) ELSE memory[b]
    BY <1>1, <1>3, <1>5 DEF SharedInv, FlightInv, CopiesFitFetch
  <2>3. LineOf(d, b).data = l.data
    BY <1>11, <1>12, <2>2
  <2> QED  BY <2>1, <2>3 DEF InState
<1>14. \A d \in Caches \ {g} :
         SharedCacheInv(d)' /\ \A x \in Cacheable : SameCopy(d, x)
  <2> TAKE d \in Caches \ {g}
  <2>1. lines'[d] = lines[d]
    BY <1>8
  <2>2. tagMap'[d] = tagMap[d] /\ clkPtr'[d] = clkPtr[d]
    BY <1>8, <1>9, PlaceBlockOthers DEF FramesInv
  <2> QED  BY <1>9, <2>1, <2>2, UntouchedCache DEF FramesInv
<1>15. OthersFit(g, b, l)
  <2> SUFFICES ASSUME NEW d \in Caches \ {g}
               PROVE  /\ SharedCacheInv(d)'
                      /\ \A x \in Cacheable \ {b} : SameCopy(d, x)
                      /\ isHit(d, b)' =>
                           /\ isHit(d, b)
                           /\ l.cohState \in {"SharedClean", "SharedMod"}
                           /\ LineOf(d, b)'.cohState \in {"SharedClean", "SharedMod"}
                           /\ LineOf(d, b)'.cohState = "SharedMod" =>
                                /\ l.cohState = "SharedClean"
                                /\ LineOf(d, b).cohState \in {"Modified", "SharedMod"}
                           /\ LineOf(d, b)'.data = l.data
    BY DEF OthersFit
  <2>1. isHit(d, b)' => /\ isHit(d, b)
                        /\ LineOf(d, b)'.cohState = LineOf(d, b).cohState
                        /\ LineOf(d, b)'.data = LineOf(d, b).data
    BY <1>14 DEF SameCopy
  <2>2. isHit(d, b)' =>
          /\ l.cohState \in {"SharedClean", "SharedMod"}
          /\ LineOf(d, b)'.cohState \in {"SharedClean", "SharedMod"}
          /\ LineOf(d, b)'.cohState = "SharedMod" => l.cohState = "SharedClean"
          /\ LineOf(d, b)'.data = l.data
    BY <1>11, <1>12, <1>13, <2>1
  <2> QED  BY <1>14, <2>1, <2>2
<1>16. /\ lines'[g] = LinesWith(g, b, l)
       /\ lines' \in [Caches -> {lines'[d] : d \in Caches}]
  BY <1>8, <1>9
<1>17. l.cohState # "Invalid" /\ (l.dirty \/ l.data = memory[b])
  BY <1>11, <1>12
<1>18. WriteUnderWay => CurrentPacket.blk = b
  BY <1>3, <1>5
<1>19. EndsWith(g, b, l, memory)
  BY <1>1, <1>8, <1>9, <1>11, <1>15, <1>16, <1>17, <1>18 DEF EndsWith
<1> QED  BY <1>1, <1>2, <1>3, <1>4, <1>5, <1>11, <1>19

LEMMA MemRespShared ==
  ASSUME SharedInv, NEW m, NEW g \in Caches, MemResp(m, g)
  PROVE  FramesInv' /\ CopiesInv' /\ FlightInv'
  BY MemRespEnds, TransactionEnds

-----------------------------------------------------------------------------
(* These caches are a restriction of the base class.                       *)

LEMMA AnswersTyped ==
  ASSUME NEW p \in Packet, NEW block \in [Words -> Values]
  PROVE  SetDataFromBlock(p, block) \in Responses(p) /\ p \in Responses(p)
<1>1. p.data \in [Words -> Values]
  BY DEF Packet
<1>2. p = [p EXCEPT !.data = p.data]
  BY DEF Packet
<1>3. [w \in Words |-> IF w \in p.words THEN block[w] ELSE p.data[w]] \in [Words -> Values]
  BY <1>1
<1> QED  BY <1>1, <1>2, <1>3 DEF SetDataFromBlock, Responses

LEMMA CpuRequestIsBase ==
  ASSUME SharedInv, NEW c \in Caches, NEW p \in CpuPackets,
         ReadHit(c, p) \/ WriteHit(c, p) \/ BusRequest(c, p)
  PROVE  CacheAnswers(c, p) \/ CacheWaits(c, p)
<1>1. p \in Packet
  BY CpuPacketsTyped
<1>2. CASE ReadHit(c, p)
  <2>1. p.blk \in Cacheable /\ isHit(c, p.blk)
    BY <1>2 DEF ReadHit, isCacheablePacket
  <2>2. LineOf(c, p.blk).data \in [Words -> Values]
    BY <2>1, LineFacts DEF SharedInv, FramesInv, isHit, Frame
  <2> QED  BY <1>1, <1>2, <2>2, AnswersTyped DEF ReadHit, CacheAnswers
<1>3. CASE WriteHit(c, p)
  BY <1>1, <1>3, EmptyBlockTyped, AnswersTyped DEF WriteHit, CacheAnswers
<1>4. CASE BusRequest(c, p)
  BY <1>4 DEF BusRequest, CacheWaits
<1> QED  BY <1>2, <1>3, <1>4

LEMMA BusGrantIsBase ==
  ASSUME SharedInv, NEW c \in Caches, NEW op \in BusOps, BusGrant(c, op)
  PROVE  CacheGranted(c)
<1>1. PICK p : p = requestPacket[c]
  OBVIOUS
<1>2. PICK toMem : toMem = NeedsMemory(c, p)
  OBVIOUS
<1>3. Waiting(c) /\ p = cpuPkt[c]
  BY <1>1, GrantFinds DEF SharedInv, GrantNext, BusGrant
<1>4. isCacheablePacket(p) /\ NeedsBus(c, p)
  BY <1>1, <1>3 DEF BusGrant, SharedInv, FlightInv, WaitersNeedBus
<1>5. toMem \in BOOLEAN /\ (p.cmd = "Read" => toMem)
  BY <1>2, <1>4 DEF NeedsMemory, NeedsBus
<1>6. sendMemReq(p, toMem, op, c)
  BY <1>1, <1>2 DEF BusGrant
<1>7. /\ GrantNext(c) /\ isCacheablePacket(p) /\ sharedWire' \in BOOLEAN
      /\ UNCHANGED <<cpuSideVars, memPortVars, memory>>
  BY <1>1 DEF BusGrant
<1> QED  BY <1>1, <1>5, <1>6, <1>7 DEF CacheGranted, AnyWire

LEMMA SnoopIsBase ==
  ASSUME SharedInv, NEW m, SnoopAndFetch(m) \/ SnoopAndComplete(m)
  PROVE  CacheFetches(m) \/ CacheCompletes(m)
<1>1. /\ m \in MemReq /\ m.pkt.blk \in Cacheable /\ m.from \in Caches
      /\ requestPacket[m.from] = m.pkt
  BY SnoopFinds DEF SnoopAndFetch, SnoopAndComplete
<1>2. FramesInv /\ CopiesInv /\ sharedWire \in BOOLEAN
      /\ memory \in [Blocks -> [Words -> Values]]
  BY DEF SharedInv, BaseInv, BaseTypeOK, BusTypeOK
<1>3. /\ MemoryAfterSnoop(m) \in [Blocks -> [Words -> Values]]
      /\ WireAfterSnoop(m) \in BOOLEAN
  <2>1. MemoryAfterSnoop(m) \in [Blocks -> [Words -> Values]]
    BY <1>1, <1>2, SnoopedMemory DEF CopiesInv
  <2>2. WireAfterSnoop(m) \in BOOLEAN
    BY <1>2 DEF WireAfterSnoop, Invalidates
  <2> QED  BY <2>1, <2>2
<1>4. CASE SnoopAndFetch(m)
  BY <1>3, <1>4 DEF SnoopAndFetch, CacheFetches, AnyWire, AnyWriteback
<1>5. CASE SnoopAndComplete(m)
  <2>1. SharedCacheInv(m.from)
    BY <1>1, <1>2 DEF FramesInv
  <2>2. PICK g \in Caches : g = m.from
    BY <1>1
  <2>3. PICK b \in Cacheable : b = m.pkt.blk
    BY <1>1
  <2>4. memory' = MemoryAfterPlacing(g, b, MemoryAfterSnoop(m))
    BY <1>1, <1>5, <2>2, <2>3 DEF SnoopAndComplete
  <2>5. memory' \in [Blocks -> [Words -> Values]]
    BY <1>3, <2>1, <2>2, <2>4, PlacedMemory
  <2>6. sharedWire' \in BOOLEAN
    BY <1>3, <1>5 DEF SnoopAndComplete, WireAfterFill, isHit
  <2> QED  BY <1>1, <1>5, <2>5, <2>6 DEF SnoopAndComplete, CacheCompletes, AnyWire, AnyWriteback
<1> QED  BY <1>4, <1>5

LEMMA MemRespIsBase ==
  ASSUME SharedInv, NEW m, NEW c \in Caches, MemResp(m, c)
  PROVE  CacheFilled(m, c)
<1>1. /\ currentGranted = c /\ m \in MemEntry /\ cpuPkt[c] \in Packet
      /\ m.pkt.blk = cpuPkt[c].blk /\ isCacheablePacket(m.pkt)
  BY AnsweredFacts DEF MemResp, SharedInv
<1>2. PICK p \in Packet : p = requestPacket[c]
  BY <1>1 DEF SharedInv, BaseInv, RequestPacketLive, isCacheablePacket
<1>3. PICK b \in Cacheable : b = p.blk /\ b = m.pkt.blk
  BY <1>1, <1>2 DEF SharedInv, BaseInv, RequestPacketLive, isCacheablePacket
<1>4. /\ FramesInv /\ sharedWire \in BOOLEAN
      /\ memory \in [Blocks -> [Words -> Values]]
  BY DEF SharedInv, BaseInv, BaseTypeOK, BusTypeOK
<1>5. /\ memory' = MemoryAfterPlacing(c, b, memory)
      /\ FinishTransaction(c, ResponsePacket(c, p, m.pkt), TRUE)
      /\ sharedWire' = WireAfterFill(c, p, sharedWire)
  BY <1>2, <1>3 DEF MemResp
<1>6. SharedCacheInv(c) /\ sharedWire' \in BOOLEAN
  BY <1>4, <1>5 DEF FramesInv, WireAfterFill, isHit
<1>7. memory' \in [Blocks -> [Words -> Values]]
  BY <1>4, <1>5, <1>6, PlacedMemory
<1>8. ResponsePacket(c, p, m.pkt) \in Responses(p)
  <2>1. m.pkt \in Packet
    BY <1>1 DEF MemEntry
  <2>2. FetchedData(c, m.pkt) \in [Words -> Values]
    <3>1. OldLine(c, b).data \in [Words -> Values]
      BY <1>6, OldLineFacts DEF Frame
    <3> QED  BY <1>3, <2>1, <3>1, WriteDataTyped DEF FetchedData
  <2> QED  BY <2>2, AnswersTyped DEF ResponsePacket
<1> QED  BY <1>2, <1>5, <1>6, <1>7, <1>8 DEF MemResp, CacheFilled, AnyWire, AnyWriteback

-----------------------------------------------------------------------------
(* The invariant.                                                          *)

LEMMA SharedInvInit ==
  ASSUME SharedInit
  PROVE  SharedInv
<1>1. BaseInit /\ SetsInit
  BY DEF SharedInit
<1>2. BaseInv
  BY <1>1, BaseInvInit
<1>3. \A c \in Caches, s \in Sets, w \in Ways : lines[c][s][w] = EmptyFrame
  BY <1>1 DEF SetsInit
<1>4. FramesInv
  <2>1. \A c \in Caches : SharedCacheInv(c)
    <3> TAKE c \in Caches
    <3>1. CacheInv(c, CoherenceStates)
      BY <1>1, CacheInvInit DEF CoherenceStates
    <3>2. FramesMarked(c)
      BY <1>3 DEF FramesMarked, Marked, EmptyFrame
    <3> QED  BY <3>1, <3>2 DEF SharedCacheInv
  <2>2. \A c \in Caches : CacheTyped(c, CoherenceStates)
    BY <2>1 DEF SharedCacheInv, CacheInv
  <2>3. /\ lines = [c \in Caches |-> lines[c]]
        /\ tagMap = [c \in Caches |-> tagMap[c]]
        /\ clkPtr = [c \in Caches |-> clkPtr[c]]
    BY <1>1 DEF SetsInit
  <2>4. SetsTypeOK(CoherenceStates)
    BY <2>2, <2>3 DEF SetsTypeOK, CacheTyped
  <2> QED  BY <2>1, <2>4 DEF FramesInv
<1>5. CopiesInv
  <2>1. \A c \in Caches, b \in Cacheable : ~isHit(c, b)
    BY <1>1 DEF SetsInit, isHit, Present
  <2> QED  BY <2>1 DEF CopiesInv, SingleOwner, InState, CopiesAgree, StaleMemoryHasDirtyCopy
<1>6. FlightInv
  <2>1. ~InCacheableTransaction /\ \A c : ~Waiting(c)
    BY <1>1 DEF BaseInit, BusInit, InCacheableTransaction, Waiting
  <2> QED  BY <2>1 DEF FlightInv, WaitersNeedBus, GrantStillRight, WireTellsTruth,
              CopiesFitFetch, FetchStaysCurrent
<1> QED  BY <1>2, <1>4, <1>5, <1>6 DEF SharedInv

\* Every step is a step of the base class and keeps the invariant.
LEMMA SharedStep ==
  ASSUME SharedInv, SharedWriteNext
  PROVE  BaseNext /\ FramesInv' /\ CopiesInv' /\ FlightInv'
<1> DEFINE Kept == FramesInv' /\ CopiesInv' /\ FlightInv'
<1>1. ASSUME NEW c \in Caches, NEW p \in CpuPackets,
             ReadHit(c, p) \/ WriteHit(c, p) \/ BusRequest(c, p)
      PROVE  BaseNext /\ Kept
  <2>1. BaseNext
    BY <1>1, CpuRequestIsBase DEF BaseNext
  <2>2. CASE ReadHit(c, p)
    BY <2>1, <2>2, ReadHitStep
  <2>3. CASE WriteHit(c, p)
    BY <2>1, <2>3, WriteHitStep
  <2>4. CASE BusRequest(c, p)
    BY <2>1, <2>4, WaitStep DEF BusRequest
  <2> QED  BY <1>1, <2>2, <2>3, <2>4
<1>2. ASSUME NEW c \in Caches, NEW op \in BusOps, BusGrant(c, op)
      PROVE  BaseNext /\ Kept
  <2>1. BaseNext
    BY <1>2, BusGrantIsBase DEF BaseNext
  <2> QED  BY <1>2, <2>1, GrantShared
<1>3. ASSUME NEW m, m = Head(memReqQueue), memReqQueue # <<>>,
             SnoopAndFetch(m) \/ SnoopAndComplete(m)
      PROVE  BaseNext /\ Kept
  <2>1. BaseNext
    BY <1>3, SnoopIsBase DEF BaseNext
  <2> QED  BY <1>3, <2>1, SnoopAndFetchShared, SnoopAndCompleteShared
<1>4. ASSUME NEW m \in inMemory, NEW c \in Caches, MemResp(m, c)
      PROVE  BaseNext /\ Kept
  <2>1. BaseNext
    BY <1>4, MemRespIsBase DEF BaseNext
  <2> QED  BY <1>4, <2>1, MemRespShared
<1>5. ASSUME BaseStep
      PROVE  BaseNext /\ Kept
  <2>1. BaseNext
    BY <1>5 DEF BaseStep, BaseNext
  <2>2. ASSUME NEW c \in Caches, NEW p \in CpuPackets, UncachedRequest(c, p), UNCHANGED setVars
        PROVE  Kept
    BY <2>2, WaitStep DEF UncachedRequest
  <2>3. ASSUME NEW c \in Caches, UncachedGrant(c), UNCHANGED setVars
        PROVE  Kept
    BY <2>3, UncachedGrantShared
  <2>4. ASSUME IdleGrant, UNCHANGED setVars PROVE Kept
    BY <2>4, IdleGrantShared
  <2>5. ASSUME NEW m, m = Head(memReqQueue), memReqQueue # <<>>,
               UncachedForward(m), UNCHANGED setVars
        PROVE  Kept
    BY <2>5, UncachedForwardShared
  <2>6. ASSUME MemorySide, UNCHANGED setVars PROVE Kept
    BY <2>6, RetryShared, MemAccessShared DEF MemorySide
  <2>7. ASSUME NEW m \in inMemory, NEW c \in Caches, UncachedResponse(m, c), UNCHANGED setVars
        PROVE  Kept
    BY <2>7, UncachedResponseShared
  <2>8. ASSUME NEW c \in Caches, ProcessCpuResp(c), UNCHANGED setVars
        PROVE  Kept
    BY <2>8, ProcessCpuRespShared
  <2> HIDE DEF Kept
  <2>9. Kept
    BY <1>5, <2>2, <2>3, <2>4, <2>5, <2>6, <2>7, <2>8 DEF BaseStep
  <2> QED  BY <2>1, <2>9
<1> HIDE DEF Kept
<1>6. BaseNext /\ Kept
  BY <1>1, <1>2, <1>3, <1>4, <1>5 DEF SharedWriteNext
<1> QED  BY <1>6 DEF Kept

LEMMA SharedInvStep ==
  ASSUME SharedInv, [SharedWriteNext]_sharedVars
  PROVE  SharedInv' /\ [BaseNext]_baseVars
<1>1. CASE SharedWriteNext
  <2>1. BaseNext /\ FramesInv' /\ CopiesInv' /\ FlightInv'
    BY <1>1, SharedStep
  <2>2. BaseInv'
    BY <2>1, BaseInvStep DEF SharedInv
  <2> QED  BY <2>1, <2>2 DEF SharedInv
<1>2. CASE UNCHANGED sharedVars
  <2>1. /\ UNCHANGED baseVars /\ UNCHANGED setVars
        /\ UNCHANGED <<currentGranted, busRequestQueue, memReqQueue, sharedWire, currBusOp,
                       blockedPacket, inMemory, memory, cpuPkt>>
    BY <1>2 DEF sharedVars, baseVars, busVars, arbiterVars, memPortVars, cpuSideVars
  <2>2. BaseInv'
    BY <2>1, BaseInvStep DEF SharedInv
  <2>3. \A d \in Caches, x \in Cacheable : SameCopy(d, x)
    BY <2>1, UntouchedCache DEF SharedInv, FramesInv, setVars
  <2>4. WaitersNeedBus'
    BY <2>1, <2>3, QuietWaiters DEF Waiting
  <2>5. /\ GrantStillRight' /\ WireTellsTruth' /\ CopiesFitFetch' /\ FetchStaysCurrent'
        /\ SameWrite
    BY <2>1, <2>3, FlightKept DEF SharedInv
  <2>6. FramesInv' /\ CopiesInv'
    BY <2>1, <2>5, QuietStep DEF SharedInv
  <2> QED  BY <2>1, <2>2, <2>4, <2>5, <2>6 DEF SharedInv, FlightInv
<1> QED  BY <1>1, <1>2

\* The inductive invariant of caches that update or invalidate holds at every
\* instant, whatever each grant chose.
THEOREM SharedInvariant == SharedWriteSpec => []SharedInv
<1>1. SharedInit => SharedInv
  BY SharedInvInit
<1>2. SharedInv /\ [SharedWriteNext]_sharedVars => SharedInv'
  BY SharedInvStep
<1> QED  BY <1>1, <1>2, PTL DEF SharedWriteSpec

\* These caches do nothing the base class does not allow, so everything proved
\* of the bus and the base class holds of them.
THEOREM SharedImplementsBase == SharedWriteSpec => BaseSpec
<1>1. SharedInit => BaseInit
  BY DEF SharedInit
<1>2. SharedInv /\ [SharedWriteNext]_sharedVars => [BaseNext]_baseVars
  BY SharedInvStep
<1> QED  BY <1>1, <1>2, SharedInvariant, PTL DEF SharedWriteSpec, BaseSpec

\* Nor do caches that update wait for each other, whatever each grant chose:
\* each step of the bus brings each waiting cache closer to its answer.
THEOREM SharedProgress == SharedWriteSpec => []NobodyStuck /\ WaitShrinks
  BY SharedImplementsBase, BaseNobodyStuck, BaseWaitShrinks

\* The state always has its types; data and packets stay in range.
THEOREM SharedTypeCorrect == SharedWriteSpec => []SharedTypeOK
<1>1. SharedInv => SharedTypeOK
  BY DEF SharedInv, BaseInv, FramesInv, SharedTypeOK
<1> QED  BY <1>1, SharedInvariant, PTL

\* A block has at most one copy that may owe memory its data, and one that is
\* written silently is the only copy.
THEOREM SharedSingleOwner == SharedWriteSpec => []SingleOwner
<1>1. SharedInv => SingleOwner
  BY DEF SharedInv, CopiesInv
<1> QED  BY <1>1, SharedInvariant, PTL

\* All copies of a block hold the same data at every instant.
THEOREM SharedCopiesAgree == SharedWriteSpec => []CopiesAgree
<1>1. SharedInv => CopiesAgree
  BY DEF SharedInv, CopiesInv
<1> QED  BY <1>1, SharedInvariant, PTL

\* When copies differ from memory, one of them is dirty and will be written
\* back, or the write that made them differ still waits for its block.
THEOREM SharedStaleMemoryHasDirtyCopy == SharedWriteSpec => []StaleMemoryHasDirtyCopy
<1>1. SharedInv => StaleMemoryHasDirtyCopy
  BY DEF SharedInv, CopiesInv
<1> QED  BY <1>1, SharedInvariant, PTL

\* From its snoop to its response a transaction finds the other caches as it
\* left them.
THEOREM SharedWireTellsTruth == SharedWriteSpec => []WireTellsTruth
<1>1. SharedInv => WireTellsTruth
  BY DEF SharedInv, FlightInv
<1> QED  BY <1>1, SharedInvariant, PTL

LEMMA TransactionAssertsHold ==
  ASSUME SharedInv
  PROVE  TransactionAsserts
<1>1. FramesInv /\ SingleOwner /\ WaitersNeedBus /\ GrantStillRight /\ TransactionShape
      /\ BaseTypeOK
  BY DEF SharedInv, CopiesInv, FlightInv, BaseInv
<1>2. ASSUME NEW c \in Caches, NEW b \in Cacheable, isHit(c, b),
             ~WritesSilently(LineOf(c, b))
      PROVE  InState(c, b, {"SharedClean", "SharedMod"})
  <2>1. LineOf(c, b).cohState \in CoherenceStates
    BY <1>1, <1>2, LineFacts DEF FramesInv, isHit, Frame
  <2> QED  BY <1>2, <2>1 DEF CoherenceStates, WritesSilently, InState, isHit
<1>3. ASSUME NEW c \in Caches, Waiting(c), isCacheablePacket(cpuPkt[c]), isHit(c, cpuPkt[c].blk)
      PROVE  /\ cpuPkt[c].cmd = "Write"
             /\ InState(c, cpuPkt[c].blk, {"SharedClean", "SharedMod"})
  BY <1>1, <1>2, <1>3 DEF WaitersNeedBus, NeedsBus, isCacheablePacket
<1>4. ASSUME InCacheableTransaction
      PROVE  LET g == currentGranted
                 b == CurrentPacket.blk
             IN /\ isHit(g, b) => InState(g, b, {"SharedClean", "SharedMod"})
                /\ blockedPacket # NoPacket \/ inMemory # {} => ~isHit(g, b)
                /\ memReqQueue # <<>> =>
                     /\ IF Head(memReqQueue).toMem THEN ~isHit(g, b)
                                                   ELSE CurrentPacket.cmd = "Write"
                     /\ Updates => CurrentPacket.cmd = "Write"
                     /\ \A d \in Caches \ {g} :
                          InState(d, b, {"Exclusive", "Modified"}) => Reads \/ Invalidates
  <2>1. PICK g \in Caches : g = currentGranted
    BY <1>1, <1>4 DEF InCacheableTransaction, BaseTypeOK, BusTypeOK
  <2>2. PICK p : p = CurrentPacket /\ p = cpuPkt[g]
    BY <2>1 DEF CurrentPacket
  <2>3. PICK b \in Cacheable : b = p.blk
    BY <1>4, <2>2 DEF InCacheableTransaction, isCacheablePacket
  <2>4. p \in Packet
    BY <1>1, <1>4, <2>1, <2>2, NobodyIsNoCache
       DEF SharedInv, BaseInv, RequestPacketLive, InCacheableTransaction, isCacheablePacket
  <2>5. p.cmd \in {"Read", "Write"}
    BY <2>4 DEF Packet
  <2>6. PICK op : op = currBusOp
    OBVIOUS
  <2>7. /\ memReqQueue # <<>> =>
             /\ Head(memReqQueue).toMem = NeedsMemory(g, p)
             /\ op \in Ops(g, p)
             /\ isHit(g, b) => p.cmd = "Write" /\ ~WritesSilently(LineOf(g, b))
        /\ memReqQueue = <<>> => ~isHit(g, b)
    BY <1>1, <1>4, <2>1, <2>2, <2>3, <2>6 DEF GrantStillRight
  <2>8. isHit(g, b) => InState(g, b, {"SharedClean", "SharedMod"})
    BY <1>2, <2>7
  <2>9. blockedPacket # NoPacket \/ inMemory # {} => ~isHit(g, b)
    BY <1>1, <2>7 DEF TransactionShape, Idle, Queued, Refused, AtMemory
  <2>10. ASSUME memReqQueue # <<>>
         PROVE  /\ IF Head(memReqQueue).toMem THEN ~isHit(g, b) ELSE p.cmd = "Write"
                /\ Updates => p.cmd = "Write"
                /\ \A d \in Caches \ {g} :
                     InState(d, b, {"Exclusive", "Modified"}) => Reads \/ Invalidates
    <3>1. IF Head(memReqQueue).toMem THEN ~isHit(g, b) ELSE p.cmd = "Write"
      BY <2>3, <2>5, <2>7, <2>10 DEF NeedsMemory
    <3>2. CASE isHit(g, b)
      <4>1. p.cmd = "Write"
        BY <2>7, <2>10, <3>2
      <4>2. \A d \in Caches \ {g} : ~InState(d, b, {"Exclusive", "Modified"})
        BY <1>1, <3>2 DEF SingleOwner
      <4> QED  BY <3>1, <4>1, <4>2
    <3>3. CASE ~isHit(g, b)
      <4>1. op \in IF p.cmd = "Read" THEN {"BusRd"} ELSE {"BusRdUpd", "BusRdX"}
        BY <2>3, <2>7, <2>10, <3>3 DEF Ops
      <4>2. (Reads \/ Invalidates) /\ (Updates => p.cmd = "Write")
        BY <2>5, <2>6, <4>1 DEF Reads, Updates, Invalidates, hasBusRd, hasBusUpd
      <4> QED  BY <3>1, <4>2
    <3> QED  BY <3>2, <3>3
  <2> QED  BY <2>1, <2>2, <2>3, <2>8, <2>9, <2>10
<1> QED  BY <1>3, <1>4 DEF TransactionAsserts

\* The asserts of the handlers never fail: the dirty bit marks owners only, and
\* what the grant decided is still right at the snoop and at the response.
THEOREM SharedHandlerAsserts == SharedWriteSpec => []HandlerAsserts
<1>1. SharedInv => DirtyMarksOwner
  BY DEF SharedInv, FramesInv, SharedCacheInv, FramesMarked, Marked, DirtyMarksOwner
<1>2. SharedInv => HandlerAsserts
  BY <1>1, TransactionAssertsHold DEF HandlerAsserts
<1> QED  BY <1>2, SharedInvariant, PTL

\* Frames, tag map and clock hand account for each other at every instant.
THEOREM SharedFramesAccounted == SharedWriteSpec => []FramesAccounted
<1>1. SharedInv => TagMapAgrees
  BY DEF SharedInv, FramesInv, SharedCacheInv, CacheInv, MapAgrees, TagMapAgrees
<1>2. SharedInv => ClkPtrFindsFreeFrame
  BY HandAtFreeFrame DEF SharedInv, FramesInv, SharedCacheInv, ClkPtrFindsFreeFrame
<1>3. SharedInv => FramesAccounted
  BY <1>1, <1>2 DEF FramesAccounted
<1> QED  BY <1>3, SharedInvariant, PTL

-----------------------------------------------------------------------------
(* The frames one by one, for what a policy keeps next to each of them.    *)

\* A snoop changes the frame of the block in each cache that has a copy.
LEMMA SnoopedFrames ==
  ASSUME FramesInv, NEW m, m.pkt.blk \in Cacheable,
         NEW d \in Caches, NEW s \in Sets, NEW w \in Ways
  PROVE  LinesAfterSnoop(m)[d][s][w] =
           IF d \in SnoopHits(m) /\ s = SetOf[m.pkt.blk] /\ w = tagMap[d][m.pkt.blk]
             THEN SnoopedLine(LineOf(d, m.pkt.blk), m.pkt) ELSE lines[d][s][w]
<1> DEFINE b == m.pkt.blk
<1>1. lines[d] \in [Sets -> [Ways -> Frame(CoherenceStates)]] /\ SetOf[b] \in Sets
  BY SetOfTyped DEF FramesInv, SetsTypeOK
<1>2. CASE d \in SnoopHits(m)
  <2>1. PICK l : l = SnoopedLine(LineOf(d, b), m.pkt)
    OBVIOUS
  <2>2. LinesAfterSnoop(m)[d] = [lines[d] EXCEPT ![SetOf[b]][tagMap[d][b]] = l]
    BY <1>2, <2>1 DEF LinesAfterSnoop, WithLine
  <2>3. tagMap[d][b] \in Ways
    BY <1>1, <1>2 DEF SnoopHits, isHit, Present, FramesInv, SetsTypeOK
  <2> QED  BY <1>1, <1>2, <2>1, <2>2, <2>3
<1>3. CASE d \notin SnoopHits(m)
  BY <1>3 DEF LinesAfterSnoop
<1> QED  BY <1>2, <1>3

\* The end of a transaction changes the frame its block has or is given; the
\* others of the cache lose at most their clock flag.
LEMMA FilledFrames ==
  ASSUME FramesInv, NEW c \in Caches, NEW b \in Cacheable, NEW l,
         NEW s \in Sets, NEW w \in Ways
  PROVE  IF s = SetOf[b] /\ w = (IF Present(c, b) THEN tagMap[c][b] ELSE FreeWay(c, b))
           THEN LinesWith(c, b, l)[s][w] = l
           ELSE SameButFlag(lines[c][s][w], LinesWith(c, b, l)[s][w])
<1>1. lines[c] \in [Sets -> [Ways -> Frame(CoherenceStates)]] /\ SetOf[b] \in Sets
  BY SetOfTyped DEF FramesInv, SetsTypeOK
<1>2. CASE Present(c, b)
  <2>1. LinesWith(c, b, l) = [lines[c] EXCEPT ![SetOf[b]][tagMap[c][b]] = l]
    BY <1>2 DEF LinesWith, WithLine
  <2>2. tagMap[c][b] \in Ways
    BY <1>2 DEF Present, FramesInv, SetsTypeOK
  <2>3. LinesWith(c, b, l)[s][w] =
          IF s = SetOf[b] /\ w = tagMap[c][b] THEN l ELSE lines[c][s][w]
    BY <1>1, <2>1, <2>2
  <2> QED  BY <1>2, <2>3 DEF SameButFlag
<1>3. CASE ~Present(c, b)
  <2>1. LinesWith(c, b, l) =
          [lines[c] EXCEPT ![SetOf[b]] =
             [x \in Ways |-> IF x = FreeWay(c, b) THEN l
                             ELSE [lines[c][SetOf[b]][x] EXCEPT !.clkFlag = SweptFlags(c, b)[x]]]]
    BY <1>1, <1>3 DEF LinesWith, LinesAfterFill
  <2>2. LinesWith(c, b, l)[s][w] =
          IF s # SetOf[b] THEN lines[c][s][w]
          ELSE IF w = FreeWay(c, b) THEN l
          ELSE [lines[c][SetOf[b]][w] EXCEPT !.clkFlag = SweptFlags(c, b)[w]]
    BY <1>1, <2>1
  <2>3. lines[c][s][w] \in Frame(CoherenceStates)
    BY <1>1
  <2>4. \A f : SameButFlag(lines[c][s][w], [lines[c][s][w] EXCEPT !.clkFlag = f])
    BY <2>3 DEF Frame, SameButFlag
  <2> QED  BY <1>3, <2>2, <2>4 DEF SameButFlag
<1> QED  BY <1>2, <1>3

\* No two blocks have one frame.
LEMMA FramesApart ==
  ASSUME FramesInv, NEW c \in Caches, NEW b \in Cacheable, NEW x \in Cacheable, b # x,
         Present(c, b), Present(c, x), SetOf[b] = SetOf[x]
  PROVE  tagMap[c][b] # tagMap[c][x]
  BY DEF FramesInv, SharedCacheInv, CacheInv, MapAgrees, LineOf

\* A block that has a frame before and after the end of a transaction keeps it,
\* and it is not the frame the transaction fills for another block.
LEMMA PlacesKept ==
  ASSUME FramesInv, FramesInv', NEW g \in Caches, NEW x \in Cacheable, PlaceBlock(g, x),
         NEW c \in Caches, NEW b \in Cacheable, Present(c, b), Present(c, b)'
  PROVE  /\ tagMap'[c][b] = tagMap[c][b]
         /\ c = g /\ b # x /\ SetOf[b] = SetOf[x] =>
              tagMap[c][b] # IF Present(g, x) THEN tagMap[g][x] ELSE FreeWay(g, x)
<1> DEFINE v == IF Present(g, x) THEN tagMap[g][x] ELSE FreeWay(g, x)
<1>1. tagMap \in [Caches -> [Cacheable -> Ways \cup {NotExist}]] /\ NotExist \notin Ways
  BY DEF FramesInv, SetsTypeOK, NotExist, Ways
<1>2. tagMap'[c][b] = tagMap[c][b] /\ tagMap'[g][x] = v /\ v \in Ways
  <2>1. CASE Present(g, x)
    BY <1>1, <2>1 DEF PlaceBlock, Present
  <2>2. CASE ~Present(g, x)
    <3>1. tagMap' = [tagMap EXCEPT ![g] = TagMapAfterFill(g, x)]
      BY <2>2 DEF PlaceBlock
    <3>2. tagMap'[g][x] = v /\ tagMap'[c][b] \in {v, NotExist, tagMap[c][b]}
      BY <1>1, <2>2, <3>1 DEF TagMapAfterFill
    <3>3. b = x => c # g
      BY <2>2
    <3>4. tagMap'[c][b] # NotExist => tagMap'[c][b] = tagMap[c][b]
      BY <1>1, <3>1, <3>3 DEF TagMapAfterFill
    <3>5. v \in Ways
      BY <2>2, FreeWayFacts DEF FramesInv, SharedCacheInv, CacheInv
    <3> QED  BY <3>2, <3>4, <3>5 DEF Present
  <2> QED  BY <2>1, <2>2
<1>3. Present(g, x)'
  BY <1>1, <1>2 DEF Present
<1>4. ASSUME c = g, b # x, SetOf[b] = SetOf[x] PROVE tagMap[c][b] # v
  <2>1. tagMap'[g][b] # tagMap'[g][x]
    BY <1>3, <1>4 DEF FramesInv, SharedCacheInv, CacheInv, MapAgrees, LineOf
  <2> QED  BY <1>2, <1>4, <2>1
<1> QED  BY <1>2, <1>4

\* A finite set of cache ids has a last one: the one with the most ids up to it.
LEMMA LastOfFinite ==
  ASSUME NEW S \in SUBSET Nat, IsFiniteSet(S), S # {}
  PROVE  \E d \in S : \A e \in S : e <= d
<1> DEFINE UpTo(d) == {e \in S : e <= d}
           Ahead == {n \in Nat : \E d \in S : n = Cardinality(S) - Cardinality(UpTo(d))}
<1>1. Cardinality(S) \in Nat
  BY FS_CardinalityType
<1>2. \A d \in S : /\ UpTo(d) \subseteq S /\ IsFiniteSet(UpTo(d))
                  /\ Cardinality(UpTo(d)) \in Nat
                  /\ Cardinality(UpTo(d)) <= Cardinality(S)
  <2> TAKE d \in S
  <2>1. UpTo(d) \subseteq S
    OBVIOUS
  <2> HIDE DEF UpTo
  <2> QED  BY <2>1, FS_Subset, FS_CardinalityType
<1>3. Ahead \in SUBSET Nat /\ Ahead # {}
  <2>1. PICK d \in S : TRUE
    OBVIOUS
  <2> HIDE DEF UpTo
  <2>2. Cardinality(S) - Cardinality(UpTo(d)) \in Nat
    BY <1>1, <1>2
  <2> QED  BY <2>2
<1>4. PICK n \in Ahead : \A k \in Ahead : n <= k
  <2> HIDE DEF Ahead
  <2> QED  BY <1>3, LeastNatural
<1>5. PICK d \in S : n = Cardinality(S) - Cardinality(UpTo(d))
  OBVIOUS
<1>6. ASSUME NEW e \in S, ~(e <= d) PROVE FALSE
  <2>1. UpTo(d) \subseteq UpTo(e) /\ e \in UpTo(e) /\ e \notin UpTo(d)
    <3>1. d \in Nat /\ e \in Nat /\ d <= e /\ ~(e <= d) /\ \A x \in S : x \in Nat
      BY <1>6
    <3> HIDE DEF Ahead
    <3>2. \A x \in S : x <= d => x <= e
      BY <3>1
    <3>3. UpTo(d) \subseteq UpTo(e)
      BY <3>2
    <3>4. e \in UpTo(e) /\ e \notin UpTo(d)
      BY <3>1
    <3> QED  BY <3>3, <3>4
  <2> HIDE DEF UpTo
  <2>2. Cardinality(UpTo(d)) < Cardinality(UpTo(e))
    <3>1. Cardinality(UpTo(d)) <= Cardinality(UpTo(e))
          /\ Cardinality(UpTo(d)) # Cardinality(UpTo(e))
      BY <1>2, <2>1, FS_Subset
    <3> QED  BY <1>2, <3>1
  <2>3. Cardinality(S) - Cardinality(UpTo(e)) \in Ahead
    BY <1>1, <1>2
  <2> QED  BY <1>1, <1>2, <1>4, <1>5, <2>2, <2>3
<1> QED  BY <1>6

\* Of finitely many caches that are snooped one is the last in id order.
LEMMA LastSnooped ==
  ASSUME IsFiniteSet(Caches), NEW m, SnoopHits(m) # {}
  PROVE  (CHOOSE d \in SnoopHits(m) : \A e \in SnoopHits(m) : e <= d) \in SnoopHits(m)
<1>1. SnoopHits(m) \subseteq Caches /\ Caches \subseteq Nat
  BY BusAssumption DEF SnoopHits
<1>2. \E d \in SnoopHits(m) : \A e \in SnoopHits(m) : e <= d
  BY <1>1, FS_Subset, LastOfFinite
<1> QED  BY <1>2

-----------------------------------------------------------------------------
(* These caches implement one atomic memory: every step of a cache, the    *)
(* bus or memory is a step of AtomicMemory under the refinement mapping of *)
(* SharedWriteCache, or leaves it alone.                                   *)

\* The write miss the other copies know of is one of block x.
WrittenUnderWay(x) == WriteUnderWay /\ x = CurrentPacket.blk

\* What memory as a whole holds, without the choice of a dirty copy: what any
\* copy holds; without one memory's block, with the write that is under way.
ContentsRight ==
  /\ AtomicContents = [x \in Blocks |-> AtomicContents[x]]
  /\ \A x \in Cacheable, d \in Caches : isHit(d, x) => AtomicContents[x] = LineOf(d, x).data
  /\ \A x \in Blocks : WrittenUnderWay(x) =>
       AtomicContents[x] = WriteDataToBlock(CurrentPacket, memory[x])
  /\ \A x \in Blocks :
       ~WrittenUnderWay(x) /\ (x \in Cacheable => \A d \in Caches : ~isHit(d, x)) =>
         AtomicContents[x] = memory[x]

LEMMA ContentsFacts == SharedInv => ContentsRight
<1> SUFFICES ASSUME SharedInv PROVE ContentsRight
  OBVIOUS
<1> DEFINE D(x) == {c \in Caches : x \in Cacheable /\ isHit(c, x) /\ LineOf(c, x).dirty}
<1>1. AtomicContents = [x \in Blocks |-> AtomicContents[x]]
  BY DEF AtomicContents
<1>2. \A x \in Blocks : AtomicContents[x] =
        IF WrittenUnderWay(x) THEN WriteDataToBlock(CurrentPacket, memory[x])
        ELSE IF D(x) = {} THEN memory[x] ELSE LineOf(CHOOSE c \in D(x) : TRUE, x).data
  BY DEF AtomicContents, WrittenUnderWay
<1>3. ASSUME NEW x \in Cacheable, NEW d \in Caches, isHit(d, x)
      PROVE  AtomicContents[x] = LineOf(d, x).data
  <2>1. x \in Blocks
    BY BusAssumption
  <2>2. CASE WrittenUnderWay(x)
    BY <1>2, <1>3, <2>1, <2>2
       DEF WrittenUnderWay, WriteUnderWay, SharedInv, FlightInv, CopiesFitFetch
  <2>3. CASE ~WrittenUnderWay(x) /\ D(x) = {}
    <3>1. LineOf(d, x).data = memory[x]
      BY <1>3, <2>3
         DEF WrittenUnderWay, SharedInv, CopiesInv, StaleMemoryHasDirtyCopy
    <3> QED  BY <1>2, <2>1, <2>3, <3>1
  <2>4. CASE ~WrittenUnderWay(x) /\ D(x) # {}
    <3>1. PICK e : e = CHOOSE c \in D(x) : TRUE
      OBVIOUS
    <3>2. e \in D(x)
      BY <2>4, <3>1
    <3>3. e \in Caches /\ isHit(e, x)
      BY <3>2
    <3>4. LineOf(e, x).data = LineOf(d, x).data
      BY <1>3, <3>3 DEF SharedInv, CopiesInv, CopiesAgree
    <3>5. AtomicContents[x] = LineOf(e, x).data
      BY <1>2, <2>1, <2>4, <3>1
    <3> QED  BY <3>4, <3>5
  <2> QED  BY <2>2, <2>3, <2>4
<1>4. ASSUME NEW x \in Blocks, ~WrittenUnderWay(x),
             x \in Cacheable => \A d \in Caches : ~isHit(d, x)
      PROVE  AtomicContents[x] = memory[x]
  BY <1>2, <1>4
<1> HIDE DEF D
<1> QED  BY <1>1, <1>2, <1>3, <1>4 DEF ContentsRight

-----------------------------------------------------------------------------
(* Steps of the atomic memory.                                             *)

OthersPerform(c) == \A d \in Caches \ {c} : Performed(d)' <=> Performed(d)

LEMMA PerformedBoolean == \A d : Performed(d) \in BOOLEAN /\ Performed(d)' \in BOOLEAN
  BY DEF Performed, Answered

\* The operation and performed of the memory when only those of c change.
LEMMA OneClient ==
  ASSUME NEW c \in Caches, OthersSame(c), OthersPerform(c)
  PROVE  /\ [d \in Caches |-> Operation(d)]' =
              [[d \in Caches |-> Operation(d)] EXCEPT ![c] = Operation(c)']
         /\ [d \in Caches |-> Performed(d)]' =
              [[d \in Caches |-> Performed(d)] EXCEPT ![c] = Performed(c)']
<1>1. \A d \in Caches \ {c} : Operation(d)' = Operation(d)
  BY DEF OthersSame, SameAccess
<1>2. \A d \in Caches \ {c} : Performed(d)' = Performed(d)
  BY PerformedBoolean DEF OthersPerform
<1> QED  BY <1>1, <1>2

LEMMA SendStep ==
  ASSUME NEW c \in Caches, NEW p \in CpuPackets, OthersSame(c), OthersPerform(c),
         Operation(c) = NoPacket, ~Performed(c), Operation(c)' = p, ~Performed(c)',
         AtomicContents' = AtomicContents
  PROVE  Memory!Next
<1>1. Performed(c)' = Performed(c)
  BY PerformedBoolean
<1>2. Memory!Send(c, p)
  BY <1>1, OneClient DEF Memory!Send
<1> QED  BY <1>2 DEF Memory!Next

LEMMA RespondStep ==
  ASSUME NEW c \in Caches, OthersSame(c), OthersPerform(c),
         Performed(c), Operation(c)' = NoPacket, ~Performed(c)',
         AtomicContents' = AtomicContents
  PROVE  Memory!Next
<1>1. Performed(c)' = FALSE
  BY PerformedBoolean
<1>2. Memory!Respond(c)
  BY <1>1, OneClient DEF Memory!Respond
<1> QED  BY <1>2 DEF Memory!Next

\* The step performs p for c: what it returns and what it leaves.
Performs(c, p) ==
  /\ OthersSame(c) /\ OthersPerform(c)
  /\ Performed(c)'
  /\ Operation(c)' = IF p.cmd = "Read" THEN SetDataFromBlock(p, AtomicContents[p.blk]) ELSE p
  /\ \A x \in Blocks : AtomicContents'[x] =
       IF x = p.blk /\ p.cmd = "Write" THEN WriteDataToBlock(p, AtomicContents[x])
                                       ELSE AtomicContents[x]

LEMMA EffectStep ==
  ASSUME ContentsRight, ContentsRight', NEW c \in Caches, NEW p \in Packet, Performs(c, p)
  PROVE  Memory!TakeEffect(c, p)
<1>1. p.cmd \in {"Read", "Write"} /\ p.blk \in Blocks
  BY DEF Packet
<1>2. /\ AtomicContents = [x \in Blocks |-> AtomicContents[x]]
      /\ AtomicContents' = [x \in Blocks |-> AtomicContents'[x]]
  BY DEF ContentsRight
<1>3. \A x \in Blocks : AtomicContents'[x] =
        IF x = p.blk /\ p.cmd = "Write" THEN WriteDataToBlock(p, AtomicContents[x])
                                        ELSE AtomicContents[x]
  BY DEF Performs
<1>4. AtomicContents' = Memory!Written(p)
  <2>1. CASE p.cmd = "Read"
    BY <1>2, <1>3, <2>1 DEF Memory!Written
  <2>2. CASE p.cmd = "Write"
    <3>1. WriteDataToBlock(p, AtomicContents[p.blk]) =
            [w \in Words |-> IF w \in p.words THEN p.data[w] ELSE AtomicContents[p.blk][w]]
      BY DEF WriteDataToBlock
    <3> QED  BY <1>1, <1>2, <1>3, <2>2, <3>1 DEF Memory!Written
  <2> QED  BY <1>1, <2>1, <2>2
<1>5. Operation(c)' = Memory!Returned(p)
  BY <1>1 DEF Performs, Memory!Returned, SetDataFromBlock
<1>6. Performed(c)' = TRUE
  BY PerformedBoolean DEF Performs
<1> QED  BY <1>4, <1>5, <1>6, OneClient DEF Memory!TakeEffect, Performs

LEMMA PerformStep ==
  ASSUME ContentsRight, ContentsRight', NEW c \in Caches, NEW p \in Packet, Performs(c, p),
         Operation(c) = p, ~Performed(c)
  PROVE  Memory!Next
<1>1. Memory!TakeEffect(c, p)
  BY EffectStep
<1>2. p # NoPacket
  BY BusAssumption
<1>3. Performed(c) = FALSE
  BY PerformedBoolean
<1>4. Memory!Perform(c)
  BY <1>1, <1>2, <1>3 DEF Memory!Perform
<1> QED  BY <1>4 DEF Memory!Next

LEMMA SendAndPerformStep ==
  ASSUME ContentsRight, ContentsRight', NEW c \in Caches, NEW p \in CpuPackets,
         Performs(c, p), Operation(c) = NoPacket
  PROVE  Memory!Next
<1>1. Memory!TakeEffect(c, p)
  BY EffectStep, CpuPacketsTyped
<1>2. Memory!SendAndPerform(c, p)
  BY <1>1 DEF Memory!SendAndPerform
<1> QED  BY <1>2 DEF Memory!Next


-----------------------------------------------------------------------------
(* Contents that a step leaves alone.                                      *)

\* The step leaves the write that is under way, or that none is, alone.
SameUnderWay(x) ==
  /\ WrittenUnderWay(x)' <=> WrittenUnderWay(x)
  /\ WrittenUnderWay(x) => CurrentPacket' = CurrentPacket

LEMMA KeptContents ==
  ASSUME ContentsRight, ContentsRight', NEW x \in Blocks, SameUnderWay(x),
         memory'[x] = memory[x],
         x \in Cacheable => \A d \in Caches : SameCopy(d, x)
  PROVE  AtomicContents'[x] = AtomicContents[x]
<1>1. CASE x \in Cacheable /\ \E d \in Caches : isHit(d, x)
  <2>1. PICK d \in Caches : isHit(d, x)
    BY <1>1
  <2>2. isHit(d, x)' /\ LineOf(d, x)'.data = LineOf(d, x).data
    BY <1>1, <2>1 DEF SameCopy
  <2> QED  BY <1>1, <2>1, <2>2 DEF ContentsRight
<1>2. CASE x \in Cacheable => \A d \in Caches : ~isHit(d, x)
  <2>1. x \in Cacheable => \A d \in Caches : ~isHit(d, x)'
    BY <1>2 DEF SameCopy
  <2>2. CASE WrittenUnderWay(x)
    <3>1. /\ AtomicContents[x] = WriteDataToBlock(CurrentPacket, memory[x])
          /\ AtomicContents'[x] = WriteDataToBlock(CurrentPacket, memory[x])'
      BY <2>2 DEF ContentsRight, SameUnderWay
    <3> QED  BY <2>2, <3>1 DEF SameUnderWay, WriteDataToBlock
  <2>3. CASE ~WrittenUnderWay(x)
    BY <1>2, <2>1, <2>3 DEF ContentsRight, SameUnderWay
  <2> QED  BY <2>2, <2>3
<1> QED  BY <1>1, <1>2

LEMMA SameFunction ==
  ASSUME ContentsRight, ContentsRight', \A x \in Blocks : AtomicContents'[x] = AtomicContents[x]
  PROVE  AtomicContents' = AtomicContents
  BY DEF ContentsRight

\* No step of the bus moves a transaction along.
SameTransaction ==
  /\ UNCHANGED <<currentGranted, memReqQueue>>
  /\ currentGranted # NoCache => cpuPkt'[currentGranted] = cpuPkt[currentGranted]

LEMMA TransactionKept ==
  ASSUME SameTransaction
  PROVE  /\ WriteUnderWay' <=> WriteUnderWay
         /\ \A x : SameUnderWay(x)
<1>1. CurrentPacket' = CurrentPacket \/ currentGranted = NoCache
  BY DEF SameTransaction, CurrentPacket
<1>2. WriteUnderWay' <=> WriteUnderWay
  BY <1>1 DEF SameTransaction, WriteUnderWay, InCacheableTransaction, isCacheablePacket
<1> QED  BY <1>1, <1>2
         DEF SameUnderWay, WrittenUnderWay, WriteUnderWay, InCacheableTransaction

\* A step outside the transactions changes only the copy of x, at most.
LEMMA OthersPerformKept ==
  ASSUME NEW c \in Caches, OthersSame(c),
         SameTransaction
           \/ ((currentGranted = c \/ ~WriteUnderWay)
                 /\ (currentGranted' = c \/ ~WriteUnderWay'))
  PROVE  OthersPerform(c)
<1> SUFFICES ASSUME NEW d \in Caches \ {c} PROVE Performed(d)' <=> Performed(d)
  BY DEF OthersPerform
<1>1. Answered(d)' <=> Answered(d)
  BY DEF OthersSame, SameAccess
<1>2. (WriteUnderWay /\ d = currentGranted)' <=> (WriteUnderWay /\ d = currentGranted)
  <2>1. CASE SameTransaction
    BY <2>1, TransactionKept DEF SameTransaction
  <2>2. CASE ~SameTransaction
    BY <2>2
  <2> QED  BY <2>1, <2>2
<1> QED  BY <1>1, <1>2 DEF Performed

\* A step under which no access takes effect, and no contents change.
LEMMA StutterStep ==
  ASSUME ContentsRight, ContentsRight',
         \A d \in Caches : Operation(d)' = Operation(d) /\ (Performed(d)' <=> Performed(d)),
         \A x \in Blocks : AtomicContents'[x] = AtomicContents[x]
  PROVE  UNCHANGED Memory!memoryVars
<1>1. AtomicContents' = AtomicContents
  BY SameFunction
<1>2. \A d \in Caches : Operation(d)' = Operation(d) /\ Performed(d)' = Performed(d)
  BY PerformedBoolean
<1> QED  BY <1>1, <1>2 DEF Memory!memoryVars

\* The same when the step touches no line and no transaction.
LEMMA QuietStutter ==
  ASSUME SharedInv, ContentsRight, ContentsRight',
         \A d \in Caches : SameAccess(d),
         SameTransaction \/ (~WriteUnderWay /\ ~WriteUnderWay'),
         memory' = memory, UNCHANGED setVars
  PROVE  UNCHANGED Memory!memoryVars
<1>1. \A x : SameUnderWay(x)
  BY TransactionKept DEF SameUnderWay, WrittenUnderWay
<1>2. \A d \in Caches, x \in Cacheable : SameCopy(d, x)
  BY UntouchedCache DEF SharedInv, FramesInv, setVars
<1>3. \A x \in Blocks : AtomicContents'[x] = AtomicContents[x]
  BY <1>1, <1>2, KeptContents
<1>4. \A d \in Caches : Performed(d)' <=> Performed(d)
  BY TransactionKept DEF SameAccess, Performed, SameTransaction
<1> QED  BY <1>3, <1>4, StutterStep DEF SameAccess


-----------------------------------------------------------------------------
(* Requests of the CPU.                                                    *)

\* A hit performs the access in the step that sends it.
LEMMA HitPerforms ==
  ASSUME SharedInv, ContentsRight, ContentsRight',
         NEW c \in Caches, NEW p \in CpuPackets, NEW r, AnswerAtOnce(c, p, r),
         NEW b \in Cacheable, b = p.blk, isHit(c, b), NEW l \in Frame(CoherenceStates),
         l.tag = b, l.valid, Marked(l), l.cohState # "Invalid",
         r = IF p.cmd = "Read" THEN SetDataFromBlock(p, LineOf(c, b).data) ELSE p,
         l.data = IF p.cmd = "Read" THEN LineOf(c, b).data
                                    ELSE WriteDataToBlock(p, LineOf(c, b).data),
         lines' = [lines EXCEPT ![c] = WithLine(c, SetOf[b], tagMap[c][b], l)],
         UNCHANGED <<memory, tagMap, clkPtr>>
  PROVE  Memory!Next
<1>1. /\ Operation(c) = NoPacket /\ currentGranted # c
      /\ Operation(c)' = r /\ Answered(c)' /\ OthersSame(c)
  BY AnswerAccess DEF SharedInv
<1>2. SameTransaction
  BY <1>1 DEF SameTransaction, AnswerAtOnce, AcceptFromCpu, busVars, arbiterVars,
     SharedInv, BaseInv, BaseTypeOK, BusTypeOK
<1>3. \A x : SameUnderWay(x)
  BY <1>2, TransactionKept
<1>4. OthersPerform(c) /\ Performed(c)'
  BY <1>1, <1>2, OthersPerformKept DEF Performed
<1>5. /\ lines'[c] = WithLine(c, SetOf[b], tagMap[c][b], l)
      /\ \A d \in Caches \ {c} : lines'[d] = lines[d]
  BY DEF SharedInv, FramesInv, SetsTypeOK
<1>6. /\ isHit(c, b)' /\ LineOf(c, b)' = l
      /\ \A x \in Cacheable \ {b} : SameCopy(c, x)
  <2>1. SharedCacheInv(c) /\ Present(c, b)
    BY DEF SharedInv, FramesInv, isHit
  <2> QED  BY <1>5, <2>1, ReplacedCopy
<1>7. \A d \in Caches \ {c}, x \in Cacheable : SameCopy(d, x)
  BY <1>5, UntouchedCache DEF SharedInv, FramesInv
<1>8. \A x \in Blocks \ {b} : AtomicContents'[x] = AtomicContents[x]
  BY <1>3, <1>6, <1>7, KeptContents
<1>9. /\ AtomicContents[b] = LineOf(c, b).data
      /\ AtomicContents'[b] = l.data
  BY <1>6 DEF ContentsRight
<1>10. p \in Packet /\ p.cmd \in {"Read", "Write"}
  BY CpuPacketsTyped DEF Packet
<1>11. Performs(c, p)
  BY <1>1, <1>4, <1>8, <1>9, <1>10 DEF Performs
<1> QED  BY <1>1, <1>11, SendAndPerformStep

LEMMA ReadHitMemory ==
  ASSUME SharedInv, ContentsRight, ContentsRight',
         NEW c \in Caches, NEW p \in CpuPackets, ReadHit(c, p)
  PROVE  Memory!Next
<1> DEFINE k == LineOf(c, p.blk)
           l == [k EXCEPT !.clkFlag = 1]
<1>1. /\ p.blk \in Cacheable /\ isHit(c, p.blk) /\ p.cmd = "Read"
      /\ AnswerAtOnce(c, p, SetDataFromBlock(p, k.data))
      /\ lines' = [lines EXCEPT ![c][SetOf[p.blk]][tagMap[c][p.blk]].clkFlag = 1]
      /\ UNCHANGED <<memory, tagMap, clkPtr>>
  BY DEF ReadHit, isCacheablePacket
<1>2. k \in Frame(CoherenceStates) /\ k.valid /\ k.tag = p.blk /\ Marked(k)
      /\ k.cohState # "Invalid"
  BY <1>1, LineFacts DEF SharedInv, FramesInv, isHit
<1>3. /\ l \in Frame(CoherenceStates) /\ l.valid /\ l.tag = p.blk
      /\ l.cohState = k.cohState /\ l.data = k.data /\ l.dirty = k.dirty
  <2> HIDE DEF k
  <2> QED  BY <1>2 DEF Frame
<1>4. Marked(l) /\ l.cohState # "Invalid"
  BY <1>2, <1>3 DEF Marked
<1>5. lines' = [lines EXCEPT ![c] = WithLine(c, SetOf[p.blk], tagMap[c][p.blk], l)]
  BY <1>1 DEF WithLine, LineOf
<1>6. l.data = IF p.cmd = "Read" THEN k.data ELSE WriteDataToBlock(p, k.data)
  BY <1>1, <1>3
<1>7. PICK r : r = SetDataFromBlock(p, k.data)
  OBVIOUS
<1>8. r = IF p.cmd = "Read" THEN SetDataFromBlock(p, k.data) ELSE p
  BY <1>1, <1>7
<1>9. AnswerAtOnce(c, p, r) /\ p.blk \in Cacheable /\ isHit(c, p.blk)
      /\ UNCHANGED <<memory, tagMap, clkPtr>>
  BY <1>1, <1>7
<1> HIDE DEF l
<1> QED  BY <1>3, <1>4, <1>5, <1>6, <1>8, <1>9, HitPerforms

LEMMA WriteHitMemory ==
  ASSUME SharedInv, ContentsRight, ContentsRight',
         NEW c \in Caches, NEW p \in CpuPackets, WriteHit(c, p)
  PROVE  Memory!Next
<1> DEFINE k == LineOf(c, p.blk)
           l == SilentWrite(k, p)
<1>1. /\ p.blk \in Cacheable /\ isHit(c, p.blk) /\ p.cmd = "Write" /\ WritesSilently(k)
      /\ AnswerAtOnce(c, p, p)
      /\ lines' = [lines EXCEPT ![c] = WithLine(c, SetOf[p.blk], tagMap[c][p.blk], l)]
      /\ UNCHANGED <<memory, tagMap, clkPtr>>
  BY DEF WriteHit, isCacheablePacket
<1>2. k \in Frame(CoherenceStates) /\ k.valid /\ k.tag = p.blk /\ Marked(k)
  BY <1>1, LineFacts DEF SharedInv, FramesInv, isHit
<1>3. /\ l \in Frame(CoherenceStates) /\ l.valid /\ l.tag = p.blk
      /\ Marked(l) /\ l.cohState # "Invalid" /\ l.data = WriteDataToBlock(p, k.data)
  <2> HIDE DEF k
  <2> QED  BY <1>1, <1>2, CpuPacketsTyped, SilentWriteFacts
<1> HIDE DEF l
<1> QED  BY <1>1, <1>3, HitPerforms

\* A request that waits for the bus is sent.
LEMMA WaitMemory ==
  ASSUME SharedInv, ContentsRight, ContentsRight',
         NEW c \in Caches, NEW p \in CpuPackets, WaitForBus(c, p),
         UNCHANGED <<memory, setVars>>
  PROVE  Memory!Next
<1>1. /\ Operation(c) = NoPacket /\ ~Answered(c) /\ currentGranted # c
      /\ Operation(c)' = p /\ ~Answered(c)' /\ OthersSame(c)
  BY WaitAccess DEF SharedInv
<1>2. SameTransaction
  BY <1>1 DEF SameTransaction, WaitForBus, Request, AcceptFromCpu,
     SharedInv, BaseInv, BaseTypeOK, BusTypeOK
<1>3. OthersPerform(c) /\ ~Performed(c) /\ ~Performed(c)'
  BY <1>1, <1>2, OthersPerformKept DEF Performed, SameTransaction
<1>4. \A d \in Caches, x \in Cacheable : SameCopy(d, x)
  BY UntouchedCache DEF SharedInv, FramesInv, setVars
<1>5. AtomicContents' = AtomicContents
  BY <1>2, <1>4, KeptContents, TransactionKept, SameFunction
<1> QED  BY <1>1, <1>3, <1>5, SendStep

LEMMA ProcessCpuRespMemory ==
  ASSUME SharedInv, ContentsRight, ContentsRight',
         NEW c \in Caches, ProcessCpuResp(c), UNCHANGED setVars
  PROVE  Memory!Next
<1>1. /\ Answered(c) /\ Operation(c)' = NoPacket /\ ~Answered(c)'
      /\ OthersSame(c) /\ currentGranted # c
  BY DeliveryAccess DEF SharedInv
<1>2. SameTransaction /\ memory' = memory
  BY <1>1 DEF SameTransaction, ProcessCpuResp, busVars, arbiterVars,
     SharedInv, BaseInv, BaseTypeOK, BusTypeOK
<1>3. OthersPerform(c) /\ Performed(c) /\ ~Performed(c)'
  BY <1>1, <1>2, OthersPerformKept DEF Performed, SameTransaction
<1>4. \A d \in Caches, x \in Cacheable : SameCopy(d, x)
  BY UntouchedCache DEF SharedInv, FramesInv, setVars
<1>5. AtomicContents' = AtomicContents
  BY <1>2, <1>4, KeptContents, TransactionKept, SameFunction
<1> QED  BY <1>1, <1>3, <1>5, RespondStep


-----------------------------------------------------------------------------
(* The bus and memory.                                                     *)

\* A granted transaction waits for its snoop: no write is under way.
LEMMA GrantMemory ==
  ASSUME SharedInv, ContentsRight, ContentsRight',
         NEW c \in Caches, GrantNext(c), NEW p, NEW t, NEW op, sendMemReq(p, t, op, c),
         UNCHANGED <<memPortVars, memory, cpuPkt, cpuRespQueue, setVars>>
  PROVE  UNCHANGED Memory!memoryVars
<1>1. currentGranted = NoCache /\ memReqQueue' = Append(memReqQueue, [pkt |-> p, toMem |-> t, from |-> c])
  BY DEF GrantNext, sendMemReq
<1>2. memReqQueue = <<>>
  BY <1>1 DEF SharedInv, BaseInv, TransactionShape, Idle
<1>3. ~WriteUnderWay /\ ~WriteUnderWay'
  BY <1>1, <1>2 DEF WriteUnderWay, InCacheableTransaction
<1>4. \A d \in Caches : SameAccess(d)
  BY QuietAccess DEF memPortVars
<1> QED  BY <1>3, <1>4, QuietStutter

LEMMA IdleGrantMemory ==
  ASSUME SharedInv, ContentsRight, ContentsRight', IdleGrant, UNCHANGED setVars
  PROVE  UNCHANGED Memory!memoryVars
<1>1. /\ SameTransaction /\ memory' = memory
      /\ UNCHANGED <<inMemory, cpuPkt, cpuRespQueue>>
  BY DEF IdleGrant, GrantNobody, SameTransaction, cpuSideVars, memPortVars
<1>2. \A d \in Caches : SameAccess(d)
  BY <1>1, QuietAccess
<1> QED  BY <1>1, <1>2, QuietStutter

LEMMA UncachedForwardMemory ==
  ASSUME SharedInv, ContentsRight, ContentsRight',
         NEW m, UncachedForward(m), UNCHANGED setVars
  PROVE  UNCHANGED Memory!memoryVars
<1>1. /\ m.pkt = cpuPkt[currentGranted] /\ ~isCacheablePacket(m.pkt)
      /\ UNCHANGED <<currentGranted, cpuPkt, cpuRespQueue, memory>>
      /\ sendPacket([pkt |-> m.pkt, from |-> m.from])
  BY QueuedFacts DEF UncachedForward, SharedInv, cpuSideVars, arbiterVars
<1>2. ~WriteUnderWay /\ ~WriteUnderWay'
  BY <1>1 DEF WriteUnderWay, InCacheableTransaction, CurrentPacket, isCacheablePacket
<1>3. \A d \in Caches : SameAccess(d)
  BY <1>1, SendAccess
<1> QED  BY <1>1, <1>2, <1>3, QuietStutter

LEMMA RetryMemory ==
  ASSUME SharedInv, ContentsRight, ContentsRight',
         RecvReqRetry, UNCHANGED <<cpuSideVars, setVars>>
  PROVE  UNCHANGED Memory!memoryVars
<1>1. SameTransaction /\ memory' = memory /\ UNCHANGED <<cpuPkt, cpuRespQueue>>
  BY DEF RecvReqRetry, SameTransaction, cpuSideVars, arbiterVars
<1>2. \A d \in Caches : SameAccess(d)
  BY <1>1, RetryAccess
<1> QED  BY <1>1, <1>2, QuietStutter

\* Memory performs the access of an uncached packet, and of no other.
LEMMA MemAccessMemory ==
  ASSUME SharedInv, PacketCarried, ContentsRight, ContentsRight',
         NEW m, MemAccess(m), UNCHANGED <<cpuSideVars, setVars>>
  PROVE  Memory!Next \/ UNCHANGED Memory!memoryVars
<1>1. /\ inMemory = {m} /\ m \in MemEntry /\ currentGranted \in Caches
      /\ UNCHANGED <<currentGranted, memReqQueue, cpuPkt>>
      /\ isCacheablePacket(CurrentPacket) => memory' = memory
      /\ \A x \in Cacheable : memory'[x] = memory[x]
  BY MemAccessFacts
<1>2. SameTransaction
  BY <1>1 DEF SameTransaction
<1>3. CASE isCacheablePacket(CurrentPacket)
  <2>1. \A d \in Caches : SameAccess(d)
    BY <1>3, FetchAccess DEF SharedInv
  <2> QED  BY <1>1, <1>2, <1>3, <2>1, QuietStutter
<1>4. CASE ~isCacheablePacket(CurrentPacket)
  <2>1. PICK c \in Caches : c = currentGranted
    BY <1>1
  <2>2. PICK p : p = cpuPkt[c]
    OBVIOUS
  <2>3. /\ Operation(c) = p /\ p \in Packet /\ ~Answered(c) /\ m.pkt = p
        /\ Operation(c)' = IF p.cmd = "Read" THEN SetDataFromBlock(p, memory[p.blk]) ELSE p
        /\ Answered(c)' /\ OthersSame(c)
    BY <1>4, <2>1, <2>2, UncachedAccess DEF SharedInv
  <2>4. ~WriteUnderWay /\ p.blk \in Blocks \ Cacheable
    BY <1>4, <2>1, <2>2, <2>3
       DEF WriteUnderWay, InCacheableTransaction, isCacheablePacket, CurrentPacket, Packet
  <2>5. OthersPerform(c) /\ Performed(c)' /\ ~Performed(c)
    BY <1>2, <2>3, <2>4, OthersPerformKept DEF Performed
  <2>6. \A x : ~WrittenUnderWay(x) /\ SameUnderWay(x)
    BY <1>2, <2>4, TransactionKept DEF WrittenUnderWay
  <2>7. \A d \in Caches, x \in Cacheable : SameCopy(d, x)
    BY UntouchedCache DEF SharedInv, FramesInv, setVars
  <2>8. /\ memory \in [Blocks -> [Words -> Values]]
        /\ memory' = IF p.cmd = "Read" THEN memory
                     ELSE [memory EXCEPT ![p.blk] = WriteDataToBlock(p, @)]
    BY <2>3 DEF MemAccess, SharedInv, BaseInv, BaseTypeOK, BusTypeOK
  <2>9. \A x \in Blocks : x # p.blk => memory'[x] = memory[x]
    BY <2>8
  <2>10. memory'[p.blk] = IF p.cmd = "Read" THEN memory[p.blk]
                          ELSE WriteDataToBlock(p, memory[p.blk])
    BY <2>4, <2>8
  <2>11. \A x \in Blocks : x # p.blk => AtomicContents'[x] = AtomicContents[x]
    BY <2>6, <2>7, <2>9, KeptContents
  <2>12. /\ AtomicContents[p.blk] = memory[p.blk]
         /\ AtomicContents'[p.blk] = memory'[p.blk]
    <3>1. ~WrittenUnderWay(p.blk) /\ ~WrittenUnderWay(p.blk)'
      BY <2>6 DEF SameUnderWay
    <3> QED  BY <2>4, <3>1 DEF ContentsRight
  <2>13. p.cmd \in {"Read", "Write"}
    BY <2>3 DEF Packet
  <2>14. Performs(c, p)
    BY <2>3, <2>5, <2>10, <2>11, <2>12, <2>13 DEF Performs
  <2> QED  BY <2>3, <2>5, <2>14, PerformStep
<1> QED  BY <1>3, <1>4

\* The response of an uncached access goes to the CPU at once.
LEMMA UncachedResponseMemory ==
  ASSUME SharedInv, ContentsRight, ContentsRight',
         NEW m, NEW c \in Caches, UncachedResponse(m, c), UNCHANGED setVars
  PROVE  Memory!Next
<1>1. /\ Answered(c) /\ Operation(c)' = NoPacket /\ ~Answered(c)'
      /\ OthersSame(c) /\ currentGranted = c /\ currentGranted' = NoCache
      /\ ~isCacheablePacket(cpuPkt[c])
  BY UncachedResponseAccess DEF SharedInv
<1>2. memory' = memory
  BY DEF UncachedResponse
<1>3. ~WriteUnderWay /\ ~WriteUnderWay'
  BY <1>1 DEF WriteUnderWay, InCacheableTransaction, CurrentPacket
<1>4. OthersPerform(c) /\ Performed(c) /\ ~Performed(c)'
  BY <1>1, <1>3, OthersPerformKept DEF Performed
<1>5. \A d \in Caches, x \in Cacheable : SameCopy(d, x)
  BY UntouchedCache DEF SharedInv, FramesInv, setVars
<1>6. \A x : SameUnderWay(x)
  BY <1>3 DEF SameUnderWay, WrittenUnderWay
<1>7. AtomicContents' = AtomicContents
  BY <1>2, <1>5, <1>6, KeptContents, SameFunction
<1> QED  BY <1>1, <1>4, <1>7, RespondStep


-----------------------------------------------------------------------------
(* The snoop and the end of a transaction.                                 *)

\* The snoop of a transaction that goes on to memory: a write takes effect now,
\* a read when the block arrives.
LEMMA SnoopAndFetchMemory ==
  ASSUME SharedInv, ContentsRight, ContentsRight', NEW m, SnoopAndFetch(m)
  PROVE  Memory!Next \/ UNCHANGED Memory!memoryVars
<1>1. /\ m \in MemReq /\ m.pkt \in Packet /\ m.pkt.blk \in Cacheable
      /\ memReqQueue' = <<>> /\ m.from \in Caches /\ currentGranted = m.from
      /\ CurrentPacket = m.pkt /\ ~WriteUnderWay /\ InCacheableTransaction
      /\ inMemory = {} /\ m.pkt = cpuPkt[m.from]
      /\ ~isHit(m.from, m.pkt.blk) /\ isCacheablePacket(m.pkt) /\ NextMemReq(m)
  BY SnoopFinds DEF SnoopAndFetch, NeedsMemory
<1>2. /\ lines' = LinesAfterSnoop(m) /\ memory' = MemoryAfterSnoop(m)
      /\ sendPacket([pkt |-> generateAlignAccess(m.pkt), from |-> m.from])
      /\ UNCHANGED <<currentGranted, cpuPkt, cpuRespQueue, tagMap, clkPtr>>
  BY DEF SnoopAndFetch, cpuSideVars, arbiterVars
<1>3. PICK g \in Caches, p \in Packet, b \in Cacheable : g = m.from /\ p = m.pkt /\ b = p.blk
  BY <1>1
<1>4. FramesInv /\ SingleOwner /\ memory \in [Blocks -> [Words -> Values]]
  BY DEF SharedInv, CopiesInv, BaseInv, BaseTypeOK, BusTypeOK
<1>5. /\ \A x \in Blocks \ {b} : memory'[x] = memory[x]
      /\ SnoopHits(m) = {} => memory'[b] = memory[b]
  BY <1>1, <1>2, <1>3, <1>4, SnoopedMemory
<1>6. \A d \in Caches \ {g} :
        /\ \A x \in Cacheable \ {b} : SameCopy(d, x)
        /\ isHit(d, b)' => isHit(d, b)
        /\ isHit(d, b)' /\ p.cmd = "Read" => LineOf(d, b)'.data = LineOf(d, b).data
        /\ isHit(d, b) => LineOf(d, b).data = memory'[b]
  <2> TAKE d \in Caches \ {g}
  <2>1. lines'[d] = LinesAfterSnoop(m)[d] /\ tagMap'[d] = tagMap[d] /\ clkPtr'[d] = clkPtr[d]
    BY <1>2
  <2>2. d \in Caches \ {m.from} /\ p.cmd \in {"Read", "Write"}
    BY <1>3 DEF Packet
  <2> QED  BY <1>1, <1>2, <1>3, <2>1, <2>2, AfterSnoop
<1>7. \A x \in Cacheable : SameCopy(g, x)
  <2>1. lines'[g] = lines[g]
    BY <1>2, <1>3 DEF LinesAfterSnoop, SnoopHits
  <2> QED  BY <1>2, <1>4, <2>1, UntouchedCache DEF FramesInv
<1>8. ~isHit(g, b) /\ ~isHit(g, b)'
  BY <1>1, <1>3, <1>7 DEF SameCopy
<1>9. CurrentPacket' = p /\ (WriteUnderWay' <=> p.cmd = "Write")
  BY <1>1, <1>2, <1>3 DEF WriteUnderWay, InCacheableTransaction, CurrentPacket, isCacheablePacket
<1>10. \A x \in Blocks \ {b} : AtomicContents'[x] = AtomicContents[x]
  <2>1. \A x \in Blocks \ {b} : SameUnderWay(x)
    BY <1>1, <1>3, <1>9 DEF SameUnderWay, WrittenUnderWay
  <2> QED  BY <1>5, <1>6, <1>7, <2>1, KeptContents
<1>11. AtomicContents[b] = memory'[b]
  <2>1. CASE \E d \in Caches : isHit(d, b)
    <3>1. PICK d \in Caches : isHit(d, b)
      BY <2>1
    <3> QED  BY <1>6, <1>8, <3>1 DEF ContentsRight
  <2>2. CASE \A d \in Caches : ~isHit(d, b)
    <3>1. memory'[b] = memory[b]
      BY <1>3, <1>5, <2>2 DEF SnoopHits
    <3>2. ~WrittenUnderWay(b) /\ b \in Blocks
      BY <1>1, BusAssumption DEF WrittenUnderWay
    <3> QED  BY <2>2, <3>1, <3>2 DEF ContentsRight
  <2> QED  BY <2>1, <2>2
<1>12. /\ Operation(g) = p /\ ~Answered(g) /\ ~Performed(g)
       /\ \A d \in Caches : SameAccess(d)
  <2>1. cpuRespQueue[g] = <<>>
    BY <1>1, <1>3, AccessFacts DEF SharedInv
  <2>2. UncachedAnswer(g) = {}
    BY <1>1 DEF UncachedAnswer
  <2> QED  BY <1>1, <1>2, <1>3, <2>1, <2>2, SendAccess DEF Operation, Answered, Performed
<1>13. OthersSame(g) /\ OthersPerform(g)
  <2>1. OthersSame(g)
    BY <1>12 DEF OthersSame
  <2> QED  BY <1>1, <1>2, <1>3, <2>1, OthersPerformKept
<1>14. CASE p.cmd = "Write"
  <2>1. WrittenUnderWay(b)' /\ b \in Blocks
    BY <1>3, <1>9, <1>14, BusAssumption DEF WrittenUnderWay
  <2>2. AtomicContents'[b] = WriteDataToBlock(CurrentPacket, memory[b])'
    BY <2>1 DEF ContentsRight
  <2>3. AtomicContents'[b] = WriteDataToBlock(p, memory'[b])
    BY <1>9, <2>2 DEF WriteDataToBlock
  <2>4. Performed(g)'
    BY <1>1, <1>2, <1>3, <1>9, <1>14 DEF Performed
  <2>5. Operation(g)' = p
    BY <1>12 DEF SameAccess
  <2>6. Performs(g, p)
    BY <1>3, <1>10, <1>11, <1>13, <1>14, <2>3, <2>4, <2>5 DEF Performs
  <2> QED  BY <1>12, <2>6, PerformStep
<1>15. CASE p.cmd = "Read"
  <2>1. ~WriteUnderWay' /\ ~WrittenUnderWay(b)' /\ b \in Blocks
    BY <1>9, <1>15, BusAssumption DEF WrittenUnderWay
  <2>2. AtomicContents'[b] = memory'[b]
    <3>1. CASE \E d \in Caches : isHit(d, b)'
      <4>1. PICK d \in Caches : isHit(d, b)'
        BY <3>1
      <4>2. LineOf(d, b)'.data = memory'[b]
        BY <1>6, <1>8, <1>15, <4>1
      <4> QED  BY <4>1, <4>2 DEF ContentsRight
    <3>2. CASE \A d \in Caches : ~isHit(d, b)'
      BY <2>1, <3>2 DEF ContentsRight
    <3> QED  BY <3>1, <3>2
  <2>3. \A x \in Blocks : AtomicContents'[x] = AtomicContents[x]
    BY <1>10, <1>11, <2>2
  <2>4. \A d \in Caches : Operation(d)' = Operation(d) /\ (Performed(d)' <=> Performed(d))
    BY <1>1, <1>12, <2>1 DEF SameAccess, Performed
  <2> QED  BY <2>3, <2>4, StutterStep
<1> QED  BY <1>14, <1>15 DEF Packet

\* The end of a transaction: block b is what its cache now holds, the others
\* are what they were, a victim's data having gone to memory.
LEMMA EndedContents ==
  ASSUME SharedInv, ContentsRight, ContentsRight',
         NEW g \in Caches, NEW b \in Cacheable, NEW l, NEW mem, EndsWith(g, b, l, mem)
  PROVE  /\ AtomicContents'[b] = l.data
         /\ \A x \in Blocks \ {b} : AtomicContents'[x] = AtomicContents[x]
<1>1. /\ isHit(g, b)' /\ LineOf(g, b)' = l
      /\ \A x \in Cacheable \ {b} :
           \/ SameCopy(g, x)
           \/ ~isHit(g, x)' /\ ~Present(g, b) /\ Evicts(g, b) /\ x = Victim(g, b).tag
      /\ \A x \in Blocks \ {b} : memory'[x] # memory[x] =>
           /\ x \in Cacheable /\ isHit(g, x) /\ LineOf(g, x).dirty
           /\ memory'[x] = LineOf(g, x).data
      /\ \A x \in Cacheable :
           /\ ~Present(g, b) /\ Evicts(g, b) /\ x = Victim(g, b).tag
           /\ isHit(g, x) /\ LineOf(g, x).dirty
           => memory'[x] = LineOf(g, x).data
  BY OwnCopies
<1>2. AtomicContents'[b] = l.data
  BY <1>1 DEF ContentsRight
<1>3. \A d \in Caches \ {g}, x \in Cacheable \ {b} : SameCopy(d, x)
  BY DEF EndsWith, OthersFit
<1>4. ~WriteUnderWay' /\ \A x \in Blocks \ {b} : ~WrittenUnderWay(x) /\ ~WrittenUnderWay(x)'
  BY DEF EndsWith, WrittenUnderWay, WriteUnderWay, InCacheableTransaction
<1>5. ASSUME NEW x \in Blocks \ {b} PROVE AtomicContents'[x] = AtomicContents[x]
  <2>1. CASE x \in Cacheable /\ \E d \in Caches : isHit(d, x)'
    <3>1. PICK d \in Caches : isHit(d, x)'
      BY <2>1
    <3>2. isHit(d, x) /\ LineOf(d, x)'.data = LineOf(d, x).data
      BY <1>1, <1>3, <2>1, <3>1 DEF SameCopy
    <3> QED  BY <2>1, <3>1, <3>2 DEF ContentsRight
  <2>2. CASE x \in Cacheable => \A d \in Caches : ~isHit(d, x)'
    <3>1. AtomicContents'[x] = memory'[x]
      BY <1>4, <2>2 DEF ContentsRight
    <3>2. CASE x \in Cacheable /\ isHit(g, x)
      <4>1. ~Present(g, b) /\ Evicts(g, b) /\ x = Victim(g, b).tag
        BY <1>1, <2>2, <3>2 DEF SameCopy
      <4>2. \A d \in Caches \ {g} : ~isHit(d, x)
        BY <1>3, <2>2, <3>2 DEF SameCopy
      <4>3. AtomicContents[x] = LineOf(g, x).data
        BY <3>2 DEF ContentsRight
      <4>4. CASE LineOf(g, x).dirty
        BY <1>1, <3>1, <3>2, <4>1, <4>3, <4>4
      <4>5. CASE ~LineOf(g, x).dirty
        <5>1. LineOf(g, x).data = memory[x]
          BY <1>4, <3>2, <4>2, <4>5
             DEF SharedInv, CopiesInv, StaleMemoryHasDirtyCopy, WrittenUnderWay
        <5>2. memory'[x] = memory[x]
          BY <1>1, <4>5
        <5> QED  BY <3>1, <4>3, <5>1, <5>2
      <4> QED  BY <4>4, <4>5
    <3>3. CASE ~(x \in Cacheable /\ isHit(g, x))
      <4>1. memory'[x] = memory[x]
        BY <1>1, <3>3
      <4>2. x \in Cacheable => \A d \in Caches : ~isHit(d, x)
        BY <1>3, <2>2, <3>3 DEF SameCopy
      <4>3. AtomicContents[x] = memory[x]
        BY <1>4, <4>2 DEF ContentsRight
      <4> QED  BY <3>1, <4>1, <4>3
    <3> QED  BY <3>2, <3>3
  <2> QED  BY <2>1, <2>2
<1> QED  BY <1>2, <1>5

\* A write that needs no data from memory takes effect as a whole.
LEMMA SnoopAndCompleteMemory ==
  ASSUME SharedInv, ContentsRight, ContentsRight', NEW m, SnoopAndComplete(m)
  PROVE  Memory!Next
<1>1. PICK g, p, b : g = m.from /\ p = m.pkt /\ b = p.blk
  OBVIOUS
<1>2. /\ p \in Packet /\ currentGranted = g /\ p = cpuPkt[g] /\ ~WriteUnderWay
      /\ inMemory = {} /\ NextMemReq(m)
  BY <1>1, SnoopFinds DEF SnoopAndComplete
<1>3. /\ g \in Caches /\ b \in Cacheable /\ p.cmd = "Write" /\ (isHit(g, b) \/ FullBlock(p))
      /\ \E l, mem : EndsWith(g, b, l, mem) /\ l.data = WriteDataToBlock(p, OldLine(g, b).data)
  BY <1>1, SnoopAndCompleteEnds
<1>4. PICK l, mem : EndsWith(g, b, l, mem) /\ l.data = WriteDataToBlock(p, OldLine(g, b).data)
  BY <1>3
<1>5. FinishTransaction(g, p, FALSE) /\ inMemory' = inMemory
  BY <1>1 DEF SnoopAndComplete, memPortVars
<1>6. /\ Operation(g) = p /\ ~Answered(g) /\ Operation(g)' = p /\ Answered(g)'
      /\ OthersSame(g) /\ currentGranted' = NoCache
  BY <1>2, <1>3, <1>5, FinishAccess DEF SharedInv
<1>7. /\ AtomicContents'[b] = l.data
      /\ \A x \in Blocks \ {b} : AtomicContents'[x] = AtomicContents[x]
  BY <1>3, <1>4, EndedContents
<1>8. l.data = WriteDataToBlock(p, AtomicContents[b])
  <2>1. CASE isHit(g, b)
    <3>1. OldLine(g, b) = LineOf(g, b)
      BY <1>3, <2>1, OldLineFacts DEF SharedInv, FramesInv
    <3>2. AtomicContents[b] = LineOf(g, b).data
      BY <1>3, <2>1 DEF ContentsRight
    <3> QED  BY <1>4, <3>1, <3>2
  <2>2. CASE FullBlock(p)
    BY <1>4, <2>2 DEF FullBlock, WriteDataToBlock
  <2> QED  BY <1>3, <2>1, <2>2
<1>9. OthersPerform(g) /\ Performed(g)' /\ ~Performed(g)
  <2>1. ~WriteUnderWay'
    BY <1>6 DEF WriteUnderWay, InCacheableTransaction
  <2> QED  BY <1>2, <1>3, <1>6, <2>1, OthersPerformKept DEF Performed
<1>10. Performs(g, p)
  BY <1>1, <1>3, <1>6, <1>7, <1>8, <1>9 DEF Performs
<1> QED  BY <1>2, <1>3, <1>6, <1>9, <1>10, PerformStep

\* The response from memory: a read takes effect, a write has.
LEMMA MemRespMemory ==
  ASSUME SharedInv, ContentsRight, ContentsRight', NEW m, NEW g \in Caches, MemResp(m, g)
  PROVE  Memory!Next \/ UNCHANGED Memory!memoryVars
<1>1. PICK p, b : p = cpuPkt[g] /\ b = p.blk
  OBVIOUS
<1>2. /\ p \in Packet /\ requestPacket[g] = p /\ b \in Cacheable
      /\ InCacheableTransaction /\ CurrentPacket = p /\ memReqQueue = <<>>
      /\ inMemory = {m} /\ isCacheablePacket(m.pkt) /\ currentGranted = g
      /\ FetchedData(g, m.pkt) = memory[b]
      /\ \E l, mem : /\ EndsWith(g, b, l, mem)
                     /\ l.data = IF p.cmd = "Read" THEN memory[b]
                                                   ELSE WriteDataToBlock(p, memory[b])
  BY <1>1, MemRespEnds
<1>3. PICK l, mem : /\ EndsWith(g, b, l, mem)
                    /\ l.data = IF p.cmd = "Read" THEN memory[b]
                                                  ELSE WriteDataToBlock(p, memory[b])
  BY <1>2
<1>4. PICK r : r = ResponsePacket(g, p, m.pkt)
  OBVIOUS
<1>5. r = IF p.cmd = "Read" THEN SetDataFromBlock(p, memory[b]) ELSE p
  BY <1>2, <1>4 DEF ResponsePacket
<1>6. FinishTransaction(g, r, TRUE) /\ inMemory' \subseteq inMemory
  BY <1>2, <1>4 DEF MemResp, TakeResponse
<1>7. /\ Operation(g) = p /\ ~Answered(g) /\ Operation(g)' = r /\ Answered(g)'
      /\ OthersSame(g) /\ currentGranted' = NoCache
  BY <1>1, <1>2, <1>6, FinishAccess DEF SharedInv
<1>8. /\ AtomicContents'[b] = l.data
      /\ \A x \in Blocks \ {b} : AtomicContents'[x] = AtomicContents[x]
  BY <1>2, <1>3, EndedContents
<1>9. /\ ~WriteUnderWay' /\ (WriteUnderWay <=> p.cmd = "Write")
      /\ (WrittenUnderWay(b) <=> p.cmd = "Write") /\ b \in Blocks
  BY <1>1, <1>2, <1>7, BusAssumption
     DEF WriteUnderWay, WrittenUnderWay, InCacheableTransaction
<1>10. OthersPerform(g) /\ Performed(g)'
  BY <1>2, <1>7, <1>9, OthersPerformKept DEF Performed
<1>11. CASE p.cmd = "Write"
  <2>1. AtomicContents[b] = WriteDataToBlock(p, memory[b])
    BY <1>2, <1>9, <1>11 DEF ContentsRight
  <2>2. \A x \in Blocks : AtomicContents'[x] = AtomicContents[x]
    BY <1>3, <1>8, <1>11, <2>1
  <2>3. Performed(g) /\ Operation(g)' = Operation(g)
    BY <1>2, <1>5, <1>7, <1>9, <1>11 DEF Performed
  <2>4. \A d \in Caches : Operation(d)' = Operation(d) /\ (Performed(d)' <=> Performed(d))
    BY <1>7, <1>10, <2>3 DEF OthersSame, SameAccess, OthersPerform
  <2> QED  BY <2>2, <2>4, StutterStep
<1>12. CASE p.cmd = "Read"
  <2>1. ~Performed(g) /\ ~WrittenUnderWay(b)
    BY <1>7, <1>9, <1>12 DEF Performed
  <2>2. AtomicContents[b] = memory[b]
    <3>1. CASE \E d \in Caches : isHit(d, b)
      <4>1. PICK d \in Caches : isHit(d, b)
        BY <3>1
      <4>2. LineOf(d, b).data = memory[b]
        BY <1>1, <1>2, <1>12, <4>1 DEF SharedInv, FlightInv, CopiesFitFetch
      <4> QED  BY <1>2, <4>1, <4>2 DEF ContentsRight
    <3>2. CASE \A d \in Caches : ~isHit(d, b)
      BY <1>9, <2>1, <3>2 DEF ContentsRight
    <3> QED  BY <3>1, <3>2
  <2>3. \A x \in Blocks : AtomicContents'[x] = AtomicContents[x]
    BY <1>3, <1>8, <1>12, <2>2
  <2>4. Operation(g)' = SetDataFromBlock(p, AtomicContents[b])
    BY <1>5, <1>7, <1>12, <2>2
  <2>5. Performs(g, p)
    BY <1>1, <1>7, <1>10, <1>12, <2>3, <2>4 DEF Performs
  <2> QED  BY <1>2, <1>7, <2>1, <2>5, PerformStep
<1> QED  BY <1>2, <1>11, <1>12 DEF Packet


-----------------------------------------------------------------------------

LEMMA MemoryInit == SharedInit => Memory!Init
<1> SUFFICES ASSUME SharedInit PROVE Memory!Init
  OBVIOUS
<1>1. /\ memory \in [Blocks -> [Words -> Values]] /\ currentGranted = NoCache
      /\ inMemory = {} /\ cpuPkt = [c \in Caches |-> NoPacket]
      /\ cpuRespQueue = [c \in Caches |-> <<>>]
      /\ \A c \in Caches, b \in Cacheable : ~isHit(c, b)
  BY DEF SharedInit, BaseInit, BusInit, SetsInit, isHit, Present
<1>2. ~WriteUnderWay
  BY <1>1 DEF WriteUnderWay, InCacheableTransaction
<1>3. AtomicContents = memory
  BY <1>1, <1>2 DEF AtomicContents
<1>4. \A c \in Caches : Operation(c) = NoPacket /\ ~Performed(c)
  BY <1>1, <1>2 DEF Operation, Performed, Answered, UncachedAnswer
<1>5. \A c \in Caches : Performed(c) = FALSE
  BY <1>4, PerformedBoolean
<1> QED  BY <1>1, <1>3, <1>4, <1>5 DEF Memory!Init

LEMMA MemoryStep ==
  ASSUME SharedInv, PacketCarried, ContentsRight, ContentsRight',
         [SharedWriteNext]_sharedVars
  PROVE  [Memory!Next]_Memory!memoryVars
<1> DEFINE Mapped == Memory!Next \/ UNCHANGED Memory!memoryVars
<1>1. ASSUME NEW c \in Caches, NEW p \in CpuPackets,
             ReadHit(c, p) \/ WriteHit(c, p) \/ BusRequest(c, p)
      PROVE  Mapped
  BY <1>1, ReadHitMemory, WriteHitMemory, WaitMemory DEF BusRequest
<1>2. ASSUME NEW c \in Caches, NEW op \in BusOps, BusGrant(c, op)
      PROVE  Mapped
  BY <1>2, GrantMemory DEF BusGrant, cpuSideVars
<1>3. ASSUME NEW m, SnoopAndFetch(m) \/ SnoopAndComplete(m)
      PROVE  Mapped
  BY <1>3, SnoopAndFetchMemory, SnoopAndCompleteMemory
<1>4. ASSUME NEW m, NEW c \in Caches, MemResp(m, c)
      PROVE  Mapped
  BY <1>4, MemRespMemory
<1>5. ASSUME BaseStep
      PROVE  Mapped
  <2>1. ASSUME NEW c \in Caches, NEW p \in CpuPackets, UncachedRequest(c, p), UNCHANGED setVars
        PROVE  Mapped
    BY <2>1, WaitMemory DEF UncachedRequest
  <2>2. ASSUME NEW c \in Caches, UncachedGrant(c), UNCHANGED setVars
        PROVE  Mapped
    BY <2>2, GrantMemory DEF UncachedGrant
  <2>3. ASSUME MemorySide, UNCHANGED setVars PROVE Mapped
    BY <2>3, RetryMemory, MemAccessMemory DEF MemorySide
  <2>4. ASSUME NEW m, NEW c \in Caches, UncachedResponse(m, c), UNCHANGED setVars
        PROVE  Mapped
    BY <2>4, UncachedResponseMemory
  <2>5. ASSUME NEW c \in Caches, ProcessCpuResp(c), UNCHANGED setVars
        PROVE  Mapped
    BY <2>5, ProcessCpuRespMemory
  <2>6. ASSUME NEW m, UncachedForward(m), UNCHANGED setVars
        PROVE  Mapped
    BY <2>6, UncachedForwardMemory
  <2>7. ASSUME IdleGrant, UNCHANGED setVars PROVE Mapped
    BY <2>7, IdleGrantMemory
  <2> HIDE DEF Mapped
  <2> QED  BY <1>5, <2>1, <2>2, <2>3, <2>4, <2>5, <2>6, <2>7 DEF BaseStep
<1>6. CASE UNCHANGED sharedVars
  <2>1. /\ UNCHANGED <<inMemory, cpuPkt, cpuRespQueue, memory, currentGranted, memReqQueue>>
        /\ UNCHANGED setVars
    BY <1>6 DEF sharedVars, busVars, arbiterVars, memPortVars, cpuSideVars
  <2>2. SameTransaction
    BY <2>1 DEF SameTransaction
  <2>3. \A d \in Caches : SameAccess(d)
    BY <2>1, QuietAccess
  <2> QED  BY <2>1, <2>2, <2>3, QuietStutter
<1> HIDE DEF Mapped
<1>7. ASSUME SharedWriteNext PROVE Mapped
  BY <1>1, <1>2, <1>3, <1>4, <1>5, <1>7 DEF SharedWriteNext
<1> QED  BY <1>6, <1>7 DEF Mapped

\* Caches that update or invalidate, the bus and memory together are one atomic
\* memory to the CPUs: every access takes effect at one instant between its
\* request and its response, whatever each grant chose.
THEOREM SharedImplementsAtomicMemory == SharedWriteSpec => ImplementsAtomicMemory
<1>1. SharedInv /\ PacketCarried /\ ContentsRight /\ ContentsRight'
        /\ [SharedWriteNext]_sharedVars => [Memory!Next]_Memory!memoryVars
  BY MemoryStep
<1>2. SharedWriteSpec => []PacketCarried
  BY SharedImplementsBase, PacketCarriedAlways, PTL
<1> QED  BY <1>1, <1>2, MemoryInit, SharedInvariant, ContentsFacts, PTL
         DEF SharedWriteSpec, ImplementsAtomicMemory, Memory!Spec

=============================================================================
