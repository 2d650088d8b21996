----------------------------- MODULE HybridProofs -----------------------------
(***************************************************************************)
(* Hybrid caches choose between an update and an invalidation by counters, *)
(* which only ever select one of the choices SharedWriteCache allows; so   *)
(* all that is proved of it holds of them.  The counters themselves never  *)
(* run out of range, and each update of a run that nobody reads uses one   *)
(* up, for any number of caches, blocks, frames and any threshold.         *)
(***************************************************************************)
EXTENDS HybridCache, SharedWriteProofs

\* Each step is a step of the caches that choose freely.
LEMMA HybridStepIsShared ==
  ASSUME [Next]_vars
  PROVE  [SharedWriteNext]_sharedVars
<1>1. ASSUME NEW c \in Caches, NEW p \in CpuPackets, handleCoherentCpuReq(c, p)
      PROVE  SharedWriteNext
  BY <1>1 DEF handleCoherentCpuReq, SharedWriteNext
<1>2. ASSUME NEW c \in Caches, handleCoherentBusGrant(c)
      PROVE  SharedWriteNext
  <2>1. PICK op : op = BusOp(c, requestPacket[c]) /\ op \in BusOps
    BY DEF BusOp, BusOps
  <2>2. BusGrant(c, op)
    BY <1>2, <2>1 DEF handleCoherentBusGrant
  <2> QED  BY <2>1, <2>2 DEF SharedWriteNext
<1>3. ASSUME memReqQueue # <<>>, processMemReqEvent(Head(memReqQueue))
      PROVE  SharedWriteNext
  BY <1>3 DEF processMemReqEvent, SharedWriteNext
<1>4. ASSUME NEW m \in inMemory, NEW c \in Caches, handleCoherentMemResp(m, c)
      PROVE  SharedWriteNext
  BY <1>4 DEF handleCoherentMemResp, SharedWriteNext
<1>5. ASSUME BaseStep PROVE SharedWriteNext
  BY <1>5 DEF SharedWriteNext
<1>6. ASSUME UNCHANGED vars PROVE UNCHANGED sharedVars
  BY <1>6 DEF vars
<1> QED  BY <1>1, <1>2, <1>3, <1>4, <1>5, <1>6 DEF Next

\* Hybrid caches do nothing that caches which choose freely between updating
\* and invalidating may not do.
THEOREM HybridImplementsSharedWrite == Spec => SharedWriteSpec
<1>1. Init => SharedInit
  BY DEF Init
<1> QED  BY <1>1, HybridStepIsShared, PTL DEF Spec, SharedWriteSpec

\* Whatever the counters choose, hybrid caches are one atomic memory.
THEOREM HybridImplementsAtomicMemory == Spec => ImplementsAtomicMemory
  BY HybridImplementsSharedWrite, SharedImplementsAtomicMemory, PTL

\* Frames, tag map and clock hand of hybrid caches account for each other.
THEOREM HybridFramesAccounted == Spec => []FramesAccounted
  BY HybridImplementsSharedWrite, SharedFramesAccounted, PTL

-----------------------------------------------------------------------------
(* The counters.                                                           *)

\* Counter k may stand next to line l.
CounterFits(l, k) ==
  /\ k \in 0..InvalidThreshold
  /\ l.cohState # "SharedMod" => k = InvalidThreshold

\* A write that is under way and updates the other copies has an update left.
UpdatesLeft ==
  InCacheableTransaction =>
    LET g == currentGranted
        b == CurrentPacket.blk
    IN /\ memReqQueue # <<>> /\ Updates =>
            /\ InvalidThreshold > 0
            /\ isHit(g, b) => CounterOf(g, b) > 0
       /\ memReqQueue = <<>> /\ CurrentPacket.cmd = "Write" /\ sharedWire =>
            InvalidThreshold > 0

CountersTyped == invalidCounter \in [Caches -> [Sets -> [Ways -> Int]]]

HybridInv == SharedInv /\ CountersTyped /\ CounterCountsRun /\ UpdatesLeft

LEMMA CountersFit ==
  CounterCountsRun <=> \A c \in Caches, s \in Sets, w \in Ways :
                         CounterFits(lines[c][s][w], invalidCounter[c][s][w])
  BY DEF CounterCountsRun, CounterFits

\* The counter of a present block stands next to its line.
LEMMA OwnCounter ==
  ASSUME HybridInv, NEW c \in Caches, NEW b \in Cacheable, Present(c, b)
  PROVE  /\ SetOf[b] \in Sets /\ tagMap[c][b] \in Ways /\ WayOf(c, b) = tagMap[c][b]
         /\ CounterOf(c, b) = invalidCounter[c][SetOf[b]][tagMap[c][b]]
         /\ CounterFits(LineOf(c, b), CounterOf(c, b))
<1>1. SetOf[b] \in Sets /\ tagMap[c][b] \in Ways
  BY SetOfTyped DEF HybridInv, SharedInv, FramesInv, SetsTypeOK, Present
<1>2. WayOf(c, b) = tagMap[c][b]
  BY DEF WayOf
<1>3. CounterOf(c, b) = invalidCounter[c][SetOf[b]][tagMap[c][b]]
  BY <1>2 DEF CounterOf, AtBlock
<1>4. CounterFits(LineOf(c, b), CounterOf(c, b))
  BY <1>1, <1>3, CountersFit DEF HybridInv, LineOf
<1> QED  BY <1>1, <1>2, <1>3, <1>4

\* A snoop leaves each counter fitting its line: the copies it reaches are no
\* longer in a run, and have the whole threshold again.
LEMMA SnoopedCounters ==
  ASSUME HybridInv, NEW m, m.pkt.blk \in Cacheable
  PROVE  /\ CountersAfterSnoop(m) \in [Caches -> [Sets -> [Ways -> Int]]]
         /\ \A c \in Caches : c = m.from => CountersAfterSnoop(m)[c] = invalidCounter[c]
         /\ \A d \in Caches, s \in Sets, w \in Ways :
              /\ CounterFits(LinesAfterSnoop(m)[d][s][w], CountersAfterSnoop(m)[d][s][w])
              /\ s # SetOf[m.pkt.blk] \/ w # tagMap[d][m.pkt.blk] =>
                   CountersAfterSnoop(m)[d][s][w] = invalidCounter[d][s][w]
<1> DEFINE b == m.pkt.blk
           new == [d \in SnoopHits(m) |-> SnoopedCounter(d, m)]
           K == CountersAfterSnoop(m)
<1>1. /\ FramesInv /\ InvalidThreshold \in Nat
      /\ invalidCounter \in [Caches -> [Sets -> [Ways -> Int]]]
  BY HybridAssumption DEF HybridInv, SharedInv, CountersTyped
<1>2. \A d \in SnoopHits(m) : d \in Caches /\ Present(d, b)
  BY DEF SnoopHits, isHit
<1>3. \A d \in SnoopHits(m) : new[d] = InvalidThreshold
  <2> TAKE d \in SnoopHits(m)
  <2>1. LineOf(d, b).cohState # "SharedMod" => CounterOf(d, b) = InvalidThreshold
    BY <1>2, OwnCounter DEF CounterFits
  <2> QED  BY <2>1 DEF SnoopedCounter
<1>4. K = [d \in Caches |->
             IF d \in SnoopHits(m)
               THEN [invalidCounter EXCEPT ![d][SetOf[b]][WayOf(d, b)] = new[d]][d]
               ELSE invalidCounter[d]]
  BY DEF CountersAfterSnoop, FieldAfterSnoop, WithField
<1> HIDE DEF K, new
<1>5. \A d \in SnoopHits(m) :
        /\ SetOf[b] \in Sets /\ tagMap[d][b] \in Ways
        /\ K[d] = [invalidCounter[d] EXCEPT ![SetOf[b]][tagMap[d][b]] = InvalidThreshold]
  BY <1>1, <1>2, <1>3, <1>4, OwnCounter
<1>6. \A d \in Caches : d \notin SnoopHits(m) => K[d] = invalidCounter[d]
  BY <1>4
<1>7. \A d \in Caches : K[d] \in [Sets -> [Ways -> Int]]
  <2> TAKE d \in Caches
  <2>1. PICK f \in [Sets -> [Ways -> Int]] : f = invalidCounter[d]
    BY <1>1
  <2>2. CASE d \in SnoopHits(m)
    <3>1. PICK x \in Sets, y \in Ways : x = SetOf[b] /\ y = tagMap[d][b]
      BY <1>5, <2>2
    <3>2. K[d] = [f EXCEPT ![x][y] = InvalidThreshold]
      BY <1>5, <2>1, <2>2, <3>1
    <3>3. InvalidThreshold \in Int
      BY <1>1
    <3> QED  BY <3>2, <3>3
  <2>3. CASE d \notin SnoopHits(m)
    BY <1>6, <2>1, <2>3
  <2> QED  BY <2>2, <2>3
<1>8. K \in [Caches -> [Sets -> [Ways -> Int]]]
  BY <1>4, <1>7
<1>9. ASSUME NEW d \in Caches, NEW s \in Sets, NEW w \in Ways
      PROVE  /\ CounterFits(LinesAfterSnoop(m)[d][s][w], K[d][s][w])
             /\ s # SetOf[b] \/ w # tagMap[d][b] => K[d][s][w] = invalidCounter[d][s][w]
  <2>1. CounterFits(lines[d][s][w], invalidCounter[d][s][w])
    BY CountersFit DEF HybridInv
  <2>2. PICK f \in [Sets -> [Ways -> Int]] : f = invalidCounter[d]
    BY <1>1
  <2>3. K[d][s][w] = IF d \in SnoopHits(m) /\ s = SetOf[b] /\ w = tagMap[d][b]
                       THEN InvalidThreshold ELSE f[s][w]
    <3>1. CASE d \in SnoopHits(m)
      <4>1. /\ K[d] = [f EXCEPT ![SetOf[b]][tagMap[d][b]] = InvalidThreshold]
            /\ SetOf[b] \in Sets /\ tagMap[d][b] \in Ways
        BY <1>5, <2>2, <3>1
      <4> QED  BY <3>1, <4>1
    <3>2. CASE d \notin SnoopHits(m)
      BY <1>6, <2>2, <3>2
    <3> QED  BY <3>1, <3>2
  <2>4. LinesAfterSnoop(m)[d][s][w] =
          IF d \in SnoopHits(m) /\ s = SetOf[b] /\ w = tagMap[d][b]
            THEN SnoopedLine(LineOf(d, b), m.pkt) ELSE lines[d][s][w]
    BY <1>1, SnoopedFrames
  <2> QED  BY <1>1, <2>1, <2>2, <2>3, <2>4 DEF CounterFits
<1>10. \A c \in Caches : c = m.from => K[c] = invalidCounter[c]
  BY <1>6 DEF SnoopHits
<1> QED  BY <1>8, <1>9, <1>10 DEF K

\* The end of a transaction leaves each counter of its cache fitting its line.
LEMMA FilledCounters ==
  ASSUME HybridInv, NEW c \in Caches, NEW b \in Cacheable, NEW l, NEW k, CounterFits(l, k),
         NEW counters \in [Caches -> [Sets -> [Ways -> Int]]], counters[c] = invalidCounter[c]
  PROVE  /\ WithField(counters, c, b, k) \in [Caches -> [Sets -> [Ways -> Int]]]
         /\ \A d \in Caches \ {c} : WithField(counters, c, b, k)[d] = counters[d]
         /\ \A s \in Sets, w \in Ways :
              /\ CounterFits(LinesWith(c, b, l)[s][w], WithField(counters, c, b, k)[c][s][w])
              /\ WithField(counters, c, b, k)[c][s][w] =
                   IF s = SetOf[b] /\ w = WayOf(c, b) THEN k ELSE invalidCounter[c][s][w]
<1> DEFINE K == WithField(counters, c, b, k)
<1>1. FramesInv /\ SetOf[b] \in Sets /\ k \in Int
  BY SetOfTyped, HybridAssumption DEF HybridInv, SharedInv, CounterFits
<1>2. PICK v : v = WayOf(c, b)
  OBVIOUS
<1>3. K = [counters EXCEPT ![c][SetOf[b]][v] = k]
  BY <1>2 DEF WithField
<1>4. K \in [Caches -> [Sets -> [Ways -> Int]]] /\ \A d \in Caches \ {c} : K[d] = counters[d]
  <2> HIDE DEF K
  <2> QED  BY <1>1, <1>3
<1>5. ASSUME NEW s \in Sets, NEW w \in Ways
      PROVE  /\ CounterFits(LinesWith(c, b, l)[s][w], K[c][s][w])
             /\ K[c][s][w] = IF s = SetOf[b] /\ w = WayOf(c, b)
                                THEN k ELSE invalidCounter[c][s][w]
  <2>1. K[c][s][w] = IF s = SetOf[b] /\ w = v THEN k ELSE invalidCounter[c][s][w]
    <3> HIDE DEF K
    <3> QED  BY <1>1, <1>3
  <2>2. CounterFits(lines[c][s][w], invalidCounter[c][s][w])
    BY CountersFit DEF HybridInv
  <2>3. IF s = SetOf[b] /\ w = v
          THEN LinesWith(c, b, l)[s][w] = l
          ELSE LinesWith(c, b, l)[s][w].cohState = lines[c][s][w].cohState
    BY <1>1, <1>2, FilledFrames DEF WayOf, SameButFlag
  <2> HIDE DEF K
  <2> QED  BY <1>2, <2>1, <2>2, <2>3 DEF CounterFits
<1> QED  BY <1>4, <1>5

\* The counter of the line that ends a transaction fits it.
LEMMA FilledCounterFits ==
  ASSUME HybridInv, NEW c \in Caches, NEW p \in Packet, p.blk \in Cacheable, NEW r,
         NEW wire \in BOOLEAN, NEW remote,
         p.cmd = "Read" => ~isHit(c, p.blk),
         p.cmd = "Write" /\ wire =>
           InvalidThreshold > 0 /\ (isHit(c, p.blk) => CounterOf(c, p.blk) > 0)
  PROVE  CounterFits(FilledLine(c, p, r, wire), FilledCounter(c, p, wire, remote))
<1> DEFINE b == p.blk
           k == IF Present(c, b) THEN CounterOf(c, b) ELSE InvalidThreshold
<1>1. InvalidThreshold \in Nat /\ p.cmd \in {"Read", "Write"}
  BY HybridAssumption DEF Packet
<1>2. /\ k \in 0..InvalidThreshold
      /\ ~InRun(c, b) => k = InvalidThreshold
      /\ isHit(c, b) => k = CounterOf(c, b)
  <2>1. CASE Present(c, b)
    BY <2>1, OwnCounter DEF CounterFits, InRun, isHit
  <2>2. CASE ~Present(c, b)
    BY <1>1, <2>2 DEF isHit
  <2> QED  BY <2>1, <2>2
<1>3. p.cmd = "Write" /\ wire => k > 0
  BY <1>1, <1>2 DEF InRun
<1>4. FilledCounter(c, p, wire, remote) =
        IF p.cmd = "Read" THEN k
        ELSE IF wire THEN (IF InRun(c, b) /\ remote THEN InvalidThreshold ELSE k) - 1
        ELSE IF InRun(c, b) THEN InvalidThreshold ELSE k
  BY DEF FilledCounter
<1>5. p.cmd = "Write" /\ wire => FilledLine(c, p, r, wire).cohState = "SharedMod"
  <2>1. OldLine(c, b) \in Frame(CoherenceStates)
    BY OldLineFacts DEF HybridInv, SharedInv, FramesInv
  <2> QED  BY <2>1 DEF FilledLine, WrittenLine, Frame
<1>6. p.cmd = "Read" => ~InRun(c, b)
  BY DEF InRun
<1> HIDE DEF k
<1>7. CASE p.cmd = "Read"
  BY <1>1, <1>2, <1>4, <1>6, <1>7 DEF CounterFits
<1>8. CASE p.cmd = "Write" /\ wire
  <2>1. FilledCounter(c, p, wire, remote) \in 0..InvalidThreshold
    BY <1>1, <1>2, <1>3, <1>4, <1>8
  <2> QED  BY <1>5, <1>8, <2>1 DEF CounterFits
<1>9. CASE p.cmd = "Write" /\ ~wire
  BY <1>1, <1>2, <1>4, <1>9 DEF CounterFits
<1> QED  BY <1>1, <1>7, <1>8, <1>9

-----------------------------------------------------------------------------
(* The invariant.                                                          *)

CountersInv == CountersTyped /\ CounterCountsRun /\ UpdatesLeft

\* A step that leaves the counters and the places of the lines alone, and the
\* transaction under way, lets no line end its run and none be invalidated.
LEMMA CountersKept ==
  ASSUME HybridInv, UNCHANGED <<invalidCounter, tagMap>>,
         UNCHANGED <<currentGranted, memReqQueue, sharedWire, currBusOp>>,
         currentGranted # NoCache => cpuPkt'[currentGranted] = cpuPkt[currentGranted],
         \A c \in Caches, s \in Sets, w \in Ways :
           lines'[c][s][w].cohState # "SharedMod" => lines[c][s][w].cohState # "SharedMod",
         \A c \in Caches, x \in Cacheable : isHit(c, x)' <=> isHit(c, x)
  PROVE  CountersInv'
<1>1. CountersTyped' /\ CounterCountsRun'
  BY DEF HybridInv, CountersTyped, CounterCountsRun
<1>2. ASSUME InCacheableTransaction' PROVE UpdatesLeft'
  <2>1. InCacheableTransaction /\ CurrentPacket' = CurrentPacket
    BY <1>2 DEF InCacheableTransaction, CurrentPacket, isCacheablePacket
  <2>2. PICK g \in Caches : g = currentGranted
    BY <2>1 DEF InCacheableTransaction, HybridInv, SharedInv, BaseInv, BaseTypeOK, BusTypeOK
  <2>3. PICK p : p = CurrentPacket
    OBVIOUS
  <2>4. PICK b \in Cacheable : b = p.blk
    BY <2>1, <2>3 DEF InCacheableTransaction, isCacheablePacket
  <2>5. CASE isHit(g, b)
    <3>1. Present(g, b) /\ Present(g, b)'
      BY <2>5 DEF isHit, Present
    <3>2. CounterOf(g, b)' = CounterOf(g, b)
      BY <3>1 DEF CounterOf, AtBlock, WayOf
    <3> QED  BY <2>1, <2>2, <2>3, <2>4, <2>5, <3>2
             DEF HybridInv, UpdatesLeft, Updates, CounterOf, AtBlock, WayOf, Present
  <2>6. CASE ~isHit(g, b)
    <3>1. ~isHit(g, b)'
      BY <2>6
    <3> QED  BY <2>1, <2>2, <2>3, <2>4, <3>1
             DEF HybridInv, UpdatesLeft, Updates, isHit, Present, LineOf
  <2> QED  BY <2>5, <2>6
<1>3. ~InCacheableTransaction' => UpdatesLeft'
  BY DEF UpdatesLeft
<1> QED  BY <1>1, <1>2, <1>3 DEF CountersInv

\* A step after which no cacheable transaction is under way.
LEMMA CountersOutside ==
  ASSUME HybridInv, UNCHANGED <<invalidCounter, lines>>, ~InCacheableTransaction'
  PROVE  CountersInv'
  BY DEF HybridInv, CountersInv, CountersTyped, CounterCountsRun, UpdatesLeft

\* A hit rewrites the line, which is in a run after only if it was before.
LEMMA HybridHitStep ==
  ASSUME HybridInv, NEW c \in Caches, NEW p \in CpuPackets, handleCoherentCpuReq(c, p)
  PROVE  CountersInv'
<1>1. /\ invalidCounter' = invalidCounter
      /\ UNCHANGED <<currentGranted, memReqQueue, sharedWire, currBusOp, tagMap>>
      /\ \A d \in Caches \ {c} : cpuPkt'[d] = cpuPkt[d]
      /\ ~blocked[c]
  BY DEF handleCoherentCpuReq, ReadHit, WriteHit, BusRequest, AnswerAtOnce, WaitForBus,
     Request, AcceptFromCpu, busVars, arbiterVars, setVars, runVars, HybridInv, SharedInv,
     BaseInv, BaseTypeOK
<1>2. currentGranted # c
  BY <1>1 DEF HybridInv, SharedInv, BaseInv, BlockedAccounted
<1>3. lines \in [Caches -> [Sets -> [Ways -> Frame(CoherenceStates)]]]
  BY DEF HybridInv, SharedInv, FramesInv, SetsTypeOK
<1>5. \A d \in Caches, s \in Sets, w \in Ways :
        /\ lines'[d][s][w].cohState # "SharedMod" => lines[d][s][w].cohState # "SharedMod"
        /\ lines'[d][s][w].cohState = "Invalid" <=> lines[d][s][w].cohState = "Invalid"
  <2> TAKE d \in Caches, s \in Sets, w \in Ways
  <2>1. CASE ReadHit(c, p)
    <3>1. lines' = [lines EXCEPT ![c][SetOf[p.blk]][tagMap[c][p.blk]].clkFlag = 1]
      BY <2>1 DEF ReadHit
    <3>2. /\ lines[d][s][w] \in Frame(CoherenceStates)
          /\ lines'[d][s][w].cohState = lines[d][s][w].cohState
      BY <1>3, <3>1 DEF Frame
    <3> QED  BY <3>2
  <2>2. CASE WriteHit(c, p)
    <3>1. PICK l : l = SilentWrite(LineOf(c, p.blk), p)
      OBVIOUS
    <3>2. /\ LineOf(c, p.blk) \in Frame(CoherenceStates)
          /\ SetOf[p.blk] \in Sets /\ tagMap[c][p.blk] \in Ways
          /\ LineOf(c, p.blk).cohState \in {"Exclusive", "Modified"}
      BY <2>2, OwnCounter, LineFacts DEF WriteHit, isCacheablePacket, isHit, WritesSilently,
         HybridInv, SharedInv, FramesInv
    <3>3. l.cohState = "Modified"
      BY <3>1, <3>2 DEF SilentWrite, Frame
    <3>4. lines' = [lines EXCEPT ![c] = [lines[c] EXCEPT ![SetOf[p.blk]][tagMap[c][p.blk]] = l]]
      BY <2>2, <3>1 DEF WriteHit, WithLine
    <3>5. lines'[d][s][w] =
            IF d = c /\ s = SetOf[p.blk] /\ w = tagMap[c][p.blk] THEN l ELSE lines[d][s][w]
      BY <1>3, <3>2, <3>4
    <3> QED  BY <3>2, <3>3, <3>5 DEF LineOf
  <2>3. CASE BusRequest(c, p)
    BY <2>3 DEF BusRequest, setVars
  <2> QED  BY <2>1, <2>2, <2>3 DEF handleCoherentCpuReq
<1>6. \A d \in Caches, x \in Cacheable : isHit(d, x)' <=> isHit(d, x)
  <2> TAKE d \in Caches, x \in Cacheable
  <2>1. Present(d, x) => SetOf[x] \in Sets /\ tagMap[d][x] \in Ways
    BY OwnCounter
  <2> QED  BY <1>1, <1>5, <2>1 DEF isHit, Present, LineOf
<1>7. currentGranted # NoCache => cpuPkt'[currentGranted] = cpuPkt[currentGranted]
  BY <1>1, <1>2 DEF HybridInv, SharedInv, BaseInv, BaseTypeOK, BusTypeOK
<1> QED  BY <1>1, <1>5, <1>6, <1>7, CountersKept

\* A grant sends an update only while the counter or the threshold allows it.
LEMMA HybridGrantStep ==
  ASSUME HybridInv, NEW c \in Caches, handleCoherentBusGrant(c)
  PROVE  CountersInv'
<1>1. /\ currentGranted' = c /\ requestPacket[c] = cpuPkt[c] /\ cpuPkt[c] \in Packet
      /\ memReqQueue = <<>>
  BY GrantFinds DEF HybridInv, SharedInv, Idle, GrantNext, handleCoherentBusGrant, BusGrant
<1>2. PICK p \in Packet : p = cpuPkt[c]
  BY <1>1
<1>3. /\ currBusOp' = BusOp(c, p) /\ cpuPkt' = cpuPkt /\ p.blk \in Cacheable
      /\ memReqQueue' # <<>>
      /\ UNCHANGED <<lines, tagMap, invalidCounter>>
  BY <1>1, <1>2 DEF handleCoherentBusGrant, BusGrant, sendMemReq, setVars, cpuSideVars,
     isCacheablePacket
<1>4. CurrentPacket' = p
  BY <1>1, <1>2, <1>3 DEF CurrentPacket
<1>5. PICK b \in Cacheable : b = p.blk
  BY <1>3
<1>6. hasBusUpd(BusOp(c, p)) =>
        InvalidThreshold > 0 /\ (isHit(c, b) => CounterOf(c, b) > 0)
  <2>1. CASE isHit(c, b)
    <3>1. CounterOf(c, b) \in 0..InvalidThreshold
      BY <2>1, OwnCounter DEF isHit, CounterFits
    <3> QED  BY <1>5, <2>1, <3>1, HybridAssumption DEF BusOp, hasBusUpd
  <2>2. CASE ~isHit(c, b)
    BY <1>5, <2>2 DEF BusOp, hasBusUpd
  <2> QED  BY <2>1, <2>2
<1>7. UpdatesLeft'
  BY <1>1, <1>3, <1>4, <1>5, <1>6
     DEF UpdatesLeft, Updates, isHit, CounterOf, AtBlock, WayOf, Present, LineOf
<1>8. CountersTyped' /\ CounterCountsRun'
  BY <1>3 DEF HybridInv, CounterCountsRun, CountersTyped
<1> QED  BY <1>7, <1>8 DEF CountersInv

\* An update was sent only with one left, so it leaves no counter below zero.
LEMMA SnoopFindsUpdate ==
  ASSUME HybridInv, NEW m, NextMemReq(m), isCacheablePacket(m.pkt), Updates
  PROVE  /\ InvalidThreshold > 0
         /\ isHit(m.from, m.pkt.blk) => CounterOf(m.from, m.pkt.blk) > 0
<1>1. /\ InCacheableTransaction /\ CurrentPacket = m.pkt /\ currentGranted = m.from
      /\ memReqQueue # <<>>
  BY SnoopFinds DEF HybridInv, NextMemReq
<1> QED  BY <1>1 DEF HybridInv, UpdatesLeft

\* The snoop of a transaction that goes on to memory.
LEMMA HybridFetchStep ==
  ASSUME HybridInv, NEW m, SnoopAndFetch(m), invalidCounter' = CountersAfterSnoop(m)
  PROVE  CountersInv'
<1>1. /\ NextMemReq(m) /\ isCacheablePacket(m.pkt) /\ m.pkt.blk \in Cacheable
      /\ lines' = LinesAfterSnoop(m) /\ sharedWire' = WireAfterSnoop(m)
      /\ UNCHANGED <<currentGranted, cpuPkt>>
  BY DEF SnoopAndFetch, isCacheablePacket, arbiterVars, cpuSideVars
<1>2. CountersTyped' /\ CounterCountsRun'
  BY <1>1, SnoopedCounters DEF CountersTyped, CounterCountsRun, CounterFits
<1>3. memReqQueue' = <<>> /\ ~sharedWire /\ CurrentPacket = m.pkt /\ m.pkt \in Packet
      /\ currBusOp \in Ops(m.from, m.pkt)
  BY <1>1, SnoopFinds DEF HybridInv
<1>4. UpdatesLeft'
  <2>1. ASSUME CurrentPacket'.cmd = "Write", sharedWire' PROVE InvalidThreshold > 0
    <3>1. m.pkt.cmd = "Write"
      BY <1>1, <1>3, <2>1 DEF CurrentPacket
    <3>2. ~Invalidates
      BY <1>1, <1>3, <2>1 DEF WireAfterSnoop
    <3>3. Updates
      BY <1>3, <3>1, <3>2 DEF Ops, Updates, Invalidates, hasBusUpd
    <3> QED  BY <1>1, <3>3, SnoopFindsUpdate
  <2> QED  BY <1>3, <2>1 DEF UpdatesLeft
<1> QED  BY <1>2, <1>4 DEF CountersInv

\* How line l and counter k of cache g end its transaction on block x.
EndsWithCounter(g, x, l, k, frames, counters) ==
  /\ CounterFits(l, k)
  /\ lines' = [frames EXCEPT ![g] = LinesWith(g, x, l)]
  /\ PlaceBlock(g, x)
  /\ invalidCounter' = WithField(counters, g, x, k)
  /\ currentGranted' = NoCache

\* The snoop and the end of a write that needs no memory.
LEMMA HybridCompletes ==
  ASSUME HybridInv, NEW m, SnoopAndComplete(m),
         invalidCounter' = CountersAfterFill(m.from, requestPacket[m.from], WireAfterSnoop(m),
                             RemoteWireAfterSnoop(m), CountersAfterSnoop(m)),
         NEW c \in Caches, c = m.from, NEW p \in Packet, p = m.pkt
  PROVE  /\ requestPacket[c] = p /\ p.cmd = "Write" /\ p.blk \in Cacheable /\ ~sharedWire
         /\ \E wire, l, k :
              /\ wire \in BOOLEAN /\ wire = WireAfterSnoop(m)
              /\ l = FilledLine(c, p, p, wire)
              /\ k = FilledCounter(c, p, wire, RemoteWireAfterSnoop(m))
              /\ wire => Updates
              /\ EndsWithCounter(c, p.blk, l, k, LinesAfterSnoop(m), CountersAfterSnoop(m))
<1>1. NextMemReq(m) /\ isCacheablePacket(m.pkt)
  BY DEF SnoopAndComplete
<1>2. /\ requestPacket[c] = p /\ p.cmd = "Write" /\ p.blk \in Cacheable
      /\ currBusOp \in Ops(c, p) /\ ~sharedWire /\ currentGranted = c
  BY <1>1, SnoopFinds, SnoopAndCompleteEnds DEF HybridInv
<1>3. PICK b \in Cacheable : b = p.blk
  BY <1>2
<1>4. PICK wire \in BOOLEAN : wire = WireAfterSnoop(m)
  BY DEF WireAfterSnoop, Invalidates, HybridInv, SharedInv, BaseInv, BaseTypeOK, BusTypeOK
<1>5. PICK l : l = FilledLine(c, p, p, wire)
  OBVIOUS
<1>6. PICK k : k = FilledCounter(c, p, wire, RemoteWireAfterSnoop(m))
  OBVIOUS
<1>7. PICK counters : counters = CountersAfterSnoop(m)
  OBVIOUS
<1>8. /\ lines' = [LinesAfterSnoop(m) EXCEPT ![c] = LinesWith(c, b, l)]
      /\ PlaceBlock(c, b) /\ currentGranted' = NoCache
      /\ invalidCounter' = WithField(counters, c, b, k)
  <2>1. /\ lines' = [LinesAfterSnoop(m) EXCEPT ![c] = LinesWith(c, b, l)]
        /\ PlaceBlock(c, b) /\ FinishTransaction(c, p, FALSE)
    BY <1>2, <1>3, <1>4, <1>5 DEF SnoopAndComplete
  <2>2. invalidCounter' = WithField(counters, c, b, k)
    BY <1>2, <1>3, <1>4, <1>6, <1>7 DEF CountersAfterFill
  <2> QED  BY <1>2, <2>1, <2>2 DEF FinishTransaction, Release
<1>9. wire => Updates
  BY <1>2, <1>4 DEF WireAfterSnoop, Ops, Updates, Invalidates, hasBusUpd
<1>10. CounterFits(l, k)
  <2>1. wire => InvalidThreshold > 0 /\ (isHit(c, b) => CounterOf(c, b) > 0)
    BY <1>1, <1>3, <1>9, SnoopFindsUpdate
  <2> QED  BY <1>2, <1>3, <1>5, <1>6, <2>1, FilledCounterFits
<1> QED  BY <1>2, <1>3, <1>4, <1>5, <1>6, <1>7, <1>8, <1>9, <1>10 DEF EndsWithCounter

\* The block from memory ends a transaction.
LEMMA HybridRefills ==
  ASSUME HybridInv, NEW m, NEW c \in Caches, handleCoherentMemResp(m, c)
  PROVE  /\ memReqQueue = <<>> /\ requestPacket[c].blk \in Cacheable
         /\ ~isHit(c, requestPacket[c].blk)
         /\ \E l, k : EndsWithCounter(c, requestPacket[c].blk, l, k, lines, invalidCounter)
<1>1. MemResp(m, c)
  BY DEF handleCoherentMemResp
<1>2. PICK p \in Packet : p = requestPacket[c] /\ p = cpuPkt[c] /\ p.blk \in Cacheable
  BY <1>1, MemRespEnds DEF HybridInv
<1>3. PICK b \in Cacheable : b = p.blk
  BY <1>2
<1>4. /\ InCacheableTransaction /\ CurrentPacket = p /\ memReqQueue = <<>>
      /\ currentGranted = c
  BY <1>1, <1>2, MemRespEnds DEF HybridInv
<1>5. PICK wire \in BOOLEAN : wire = sharedWire
  BY DEF HybridInv, SharedInv, BaseInv, BaseTypeOK, BusTypeOK
<1>6. PICK l : l = FilledLine(c, p, m.pkt, wire)
  OBVIOUS
<1>7. PICK k : k = FilledCounter(c, p, wire, remoteAccessWire)
  OBVIOUS
<1>8. /\ lines' = [lines EXCEPT ![c] = LinesWith(c, b, l)]
      /\ PlaceBlock(c, b) /\ currentGranted' = NoCache
      /\ invalidCounter' = WithField(invalidCounter, c, b, k)
  <2>1. /\ lines' = [lines EXCEPT ![c] = LinesWith(c, b, l)]
        /\ PlaceBlock(c, b) /\ currentGranted' = NoCache
    BY <1>1, <1>2, <1>3, <1>4, <1>5, <1>6 DEF MemResp, FinishTransaction, Release
  <2>2. invalidCounter' = WithField(invalidCounter, c, b, k)
    BY <1>2, <1>3, <1>5, <1>7 DEF handleCoherentMemResp, CountersAfterFill
  <2> QED  BY <2>1, <2>2
<1>9. ~isHit(c, b)
  BY <1>3, <1>4 DEF HybridInv, SharedInv, FlightInv, GrantStillRight
<1>10. CounterFits(l, k)
  <2>1. p.cmd = "Write" /\ wire => InvalidThreshold > 0
    BY <1>4, <1>5 DEF HybridInv, UpdatesLeft
  <2> QED  BY <1>2, <1>3, <1>6, <1>7, <1>9, <2>1, FilledCounterFits
<1> QED  BY <1>2, <1>3, <1>4, <1>8, <1>9, <1>10 DEF EndsWithCounter

\* Either end leaves the counters fitting, if they fitted the lines before.
LEMMA HybridEndStep ==
  ASSUME HybridInv, NEW c \in Caches, NEW b \in Cacheable, NEW l, NEW k,
         NEW frames, DOMAIN frames = Caches, NEW counters \in [Caches -> [Sets -> [Ways -> Int]]],
         EndsWithCounter(c, b, l, k, frames, counters),
         counters[c] = invalidCounter[c],
         \A d \in Caches, s \in Sets, w \in Ways :
           CounterFits(frames[d][s][w], counters[d][s][w])
  PROVE  CountersInv'
<1>1. /\ lines' = [frames EXCEPT ![c] = LinesWith(c, b, l)]
      /\ invalidCounter' = WithField(counters, c, b, k)
      /\ CounterFits(l, k) /\ currentGranted' = NoCache
  BY DEF EndsWithCounter
<1>2. /\ invalidCounter' \in [Caches -> [Sets -> [Ways -> Int]]]
      /\ \A d \in Caches \ {c} : invalidCounter'[d] = counters[d]
      /\ \A s \in Sets, w \in Ways :
           CounterFits(LinesWith(c, b, l)[s][w], invalidCounter'[c][s][w])
  BY <1>1, FilledCounters
<1>3. \A d \in Caches, s \in Sets, w \in Ways :
        CounterFits(lines'[d][s][w], invalidCounter'[d][s][w])
  <2> TAKE d \in Caches, s \in Sets, w \in Ways
  <2>1. lines'[d] = IF d = c THEN LinesWith(c, b, l) ELSE frames[d]
    BY <1>1
  <2> QED  BY <1>2, <2>1
<1>4. CounterCountsRun'
  BY <1>3 DEF CounterCountsRun, CounterFits
<1> QED  BY <1>1, <1>2, <1>4
         DEF CountersInv, CountersTyped, UpdatesLeft, InCacheableTransaction

LEMMA HybridCompleteStep ==
  ASSUME HybridInv, NEW m, SnoopAndComplete(m),
         invalidCounter' = CountersAfterFill(m.from, requestPacket[m.from], WireAfterSnoop(m),
                             RemoteWireAfterSnoop(m), CountersAfterSnoop(m))
  PROVE  CountersInv'
<1>1. NextMemReq(m) /\ isCacheablePacket(m.pkt)
  BY DEF SnoopAndComplete
<1>2. PICK c \in Caches, p \in Packet : c = m.from /\ p = m.pkt
  BY <1>1, SnoopFinds DEF HybridInv
<1>3. PICK b, l, k :
        /\ b \in Cacheable /\ b = p.blk
        /\ EndsWithCounter(c, b, l, k, LinesAfterSnoop(m), CountersAfterSnoop(m))
  BY <1>2, HybridCompletes
<1>4. /\ CountersAfterSnoop(m) \in [Caches -> [Sets -> [Ways -> Int]]]
      /\ CountersAfterSnoop(m)[c] = invalidCounter[c]
      /\ \A d \in Caches, s \in Sets, w \in Ways :
           CounterFits(LinesAfterSnoop(m)[d][s][w], CountersAfterSnoop(m)[d][s][w])
  BY <1>2, <1>3, SnoopedCounters
<1>5. DOMAIN LinesAfterSnoop(m) = Caches
  BY DEF LinesAfterSnoop
<1> QED  BY <1>3, <1>4, <1>5, HybridEndStep

LEMMA HybridMemRespStep ==
  ASSUME HybridInv, NEW m, NEW c \in Caches, handleCoherentMemResp(m, c)
  PROVE  CountersInv'
<1>1. PICK b, l, k :
        b \in Cacheable /\ EndsWithCounter(c, b, l, k, lines, invalidCounter)
  BY HybridRefills
<1>2. /\ invalidCounter \in [Caches -> [Sets -> [Ways -> Int]]]
      /\ \A d \in Caches, s \in Sets, w \in Ways :
           CounterFits(lines[d][s][w], invalidCounter[d][s][w])
      /\ DOMAIN lines = Caches
  BY CountersFit DEF HybridInv, CountersTyped, SharedInv, FramesInv, SetsTypeOK
<1> QED  BY <1>1, <1>2, HybridEndStep

\* The steps in which no line of a cache changes.
LEMMA HybridBaseStep ==
  ASSUME HybridInv, BaseStep, UNCHANGED runVars
  PROVE  CountersInv'
<1>1. UNCHANGED <<invalidCounter, lines, tagMap>>
  BY DEF BaseStep, setVars, runVars
<1>2. \A c \in Caches, x \in Cacheable : isHit(c, x)' <=> isHit(c, x)
  BY <1>1 DEF isHit, Present, LineOf
<1>3. ASSUME UNCHANGED <<currentGranted, memReqQueue, sharedWire, currBusOp>>,
             currentGranted # NoCache => cpuPkt'[currentGranted] = cpuPkt[currentGranted]
      PROVE  CountersInv'
  BY <1>1, <1>2, <1>3, CountersKept
<1>4. ASSUME ~InCacheableTransaction' PROVE CountersInv'
  BY <1>1, <1>4, CountersOutside
<1>5. ASSUME NEW c \in Caches, NEW p \in CpuPackets, UncachedRequest(c, p)
      PROVE  CountersInv'
  <2>1. /\ UNCHANGED <<currentGranted, memReqQueue, sharedWire, currBusOp>>
        /\ \A d \in Caches \ {c} : cpuPkt'[d] = cpuPkt[d]
        /\ ~blocked[c]
    BY <1>5 DEF UncachedRequest, WaitForBus, Request, AcceptFromCpu, HybridInv, SharedInv,
       BaseInv, BaseTypeOK
  <2>2. currentGranted # NoCache => cpuPkt'[currentGranted] = cpuPkt[currentGranted]
    BY <2>1 DEF HybridInv, SharedInv, BaseInv, BlockedAccounted, BaseTypeOK, BusTypeOK
  <2> QED  BY <1>3, <2>1, <2>2
<1>6. ASSUME NEW c \in Caches, UncachedGrant(c) PROVE CountersInv'
  <2>1. ~InCacheableTransaction'
    BY <1>6, GrantFinds DEF HybridInv, SharedInv, GrantNext, UncachedGrant,
       InCacheableTransaction, CurrentPacket, isCacheablePacket
  <2> QED  BY <1>4, <2>1
<1>7. ASSUME IdleGrant PROVE CountersInv'
  BY <1>4, <1>7 DEF IdleGrant, GrantNobody, InCacheableTransaction
<1>8. ASSUME NEW m, UncachedForward(m) PROVE CountersInv'
  <2>1. ~InCacheableTransaction'
    BY <1>8, QueuedFacts DEF UncachedForward, HybridInv, SharedInv, cpuSideVars, arbiterVars,
       InCacheableTransaction, CurrentPacket, isCacheablePacket
  <2> QED  BY <1>4, <2>1
<1>9. ASSUME MemorySide PROVE CountersInv'
  BY <1>3, <1>9 DEF MemorySide, RecvReqRetry, MemAccess, cpuSideVars, arbiterVars
<1>10. ASSUME NEW m \in inMemory, NEW c \in Caches, UncachedResponse(m, c)
       PROVE  CountersInv'
  BY <1>4, <1>10, AnsweredFacts DEF UncachedResponse, Release, HybridInv, SharedInv,
     InCacheableTransaction
<1>11. ASSUME NEW c \in Caches, ProcessCpuResp(c) PROVE CountersInv'
  <2>1. /\ UNCHANGED <<currentGranted, memReqQueue, sharedWire, currBusOp>>
        /\ \A d \in Caches \ {c} : cpuPkt'[d] = cpuPkt[d]
        /\ cpuRespQueue[c] # <<>>
    BY <1>11 DEF ProcessCpuResp, busVars, arbiterVars, HybridInv, SharedInv,
       BaseInv, BaseTypeOK
  <2>2. currentGranted # NoCache => cpuPkt'[currentGranted] = cpuPkt[currentGranted]
    BY <2>1, AccessFacts DEF HybridInv, SharedInv, BaseInv, BaseTypeOK, BusTypeOK
  <2> QED  BY <1>3, <2>1, <2>2
<1> QED  BY <1>5, <1>6, <1>7, <1>8, <1>9, <1>10, <1>11 DEF BaseStep

LEMMA HybridInvStep ==
  ASSUME HybridInv, [Next]_vars
  PROVE  HybridInv'
<1>1. SharedInv'
  BY HybridStepIsShared, SharedInvStep DEF HybridInv
<1>2. CASE UNCHANGED vars
  <2>1. /\ UNCHANGED <<invalidCounter, lines, tagMap>>
        /\ UNCHANGED <<currentGranted, memReqQueue, sharedWire, currBusOp, cpuPkt>>
    BY <1>2 DEF vars, runVars, sharedVars, setVars, busVars, arbiterVars, cpuSideVars
  <2>2. \A c \in Caches, x \in Cacheable : isHit(c, x)' <=> isHit(c, x)
    BY <2>1 DEF isHit, Present, LineOf
  <2>3. CountersInv'
    BY <2>1, <2>2, CountersKept
  <2> QED  BY <1>1, <2>3 DEF CountersInv, HybridInv
<1>3. ASSUME NEW m, processMemReqEvent(m) PROVE CountersInv'
  BY <1>3, HybridFetchStep, HybridCompleteStep DEF processMemReqEvent
<1>4. CASE Next
  <2>1. CountersInv'
    BY <1>3, <1>4, HybridHitStep, HybridGrantStep, HybridMemRespStep, HybridBaseStep DEF Next
  <2> QED  BY <1>1, <2>1 DEF CountersInv, HybridInv
<1> QED  BY <1>2, <1>4

\* The counters fit the lines, and the updates under way were allowed, at every
\* instant.
THEOREM HybridInvariant == Spec => []HybridInv
<1>1. Init => HybridInv
  <2> SUFFICES ASSUME Init PROVE HybridInv
    OBVIOUS
  <2>1. SharedInit /\ RunsInit(InvalidThreshold)
    BY DEF Init
  <2>2. SharedInv
    BY <2>1, SharedInvInit
  <2>3. CountersTyped /\ CounterCountsRun
    BY <2>1, HybridAssumption DEF RunsInit, CountersTyped, CounterCountsRun
  <2>4. ~InCacheableTransaction
    BY <2>1 DEF SharedInit, BaseInit, BusInit, InCacheableTransaction
  <2> QED  BY <2>2, <2>3, <2>4 DEF HybridInv, UpdatesLeft
<1> QED  BY <1>1, HybridInvStep, PTL DEF Spec

\* A counter counts one run of updates: it never falls below zero, and every
\* way out of SharedMod, by a write, a snoop or a reused frame, restores it.
THEOREM HybridCounterCountsRun == Spec => []CounterCountsRun
<1>1. HybridInv => CounterCountsRun
  BY DEF HybridInv
<1> QED  BY <1>1, HybridInvariant, PTL

-----------------------------------------------------------------------------
(* What a run of updates costs.                                            *)

\* The wire reports a read of one of the copies that were snooped.
LEMMA WireReportsRead ==
  ASSUME NEW m, SnoopHits(m) # {}, RemoteWireAfterSnoop(m)
  PROVE  \E d \in Caches \ {m.from} :
           isHit(d, m.pkt.blk) /\ AtBlock(accessSinceUpd, d, m.pkt.blk)
<1>1. PICK last : /\ last = CHOOSE d \in SnoopHits(m) : \A e \in SnoopHits(m) : e <= d
                  /\ RemoteWireAfterSnoop(m) = AtBlock(accessSinceUpd, last, m.pkt.blk)
  BY DEF RemoteWireAfterSnoop
<1>2. last \in SnoopHits(m)
  BY <1>1, LastSnooped, RunsAssumption
<1>3. AtBlock(accessSinceUpd, last, m.pkt.blk)
  BY <1>1
<1> QED  BY <1>2, <1>3 DEF SnoopHits

\* The step that UpdatesRunDown allows a line that stays in a run.
RunsDown(c, b) ==
  LET k == CounterOf(c, b) IN
    IF SendsUpdate(c, b)
      THEN k > 0 /\ (k' = k - 1 \/ ReadElsewhere(c, b))
      ELSE \/ k' = k
           \/ currentGranted \notin {c, NoCache} /\ CurrentPacket.blk = b

\* A line that stays in a run is found in its frame before and after.
LEMMA RunInPlace ==
  ASSUME HybridInv, NEW c \in Caches, NEW b \in Cacheable, InRun(c, b), InRun(c, b)'
  PROVE  /\ Present(c, b) /\ Present(c, b)' /\ isHit(c, b)
         /\ SetOf[b] \in Sets /\ tagMap[c][b] \in Ways
         /\ CounterOf(c, b) = invalidCounter[c][SetOf[b]][tagMap[c][b]]
         /\ CounterOf(c, b)' = invalidCounter'[c][SetOf[b]][tagMap'[c][b]]
<1>1. Present(c, b) /\ Present(c, b)' /\ isHit(c, b)
  BY DEF InRun, isHit
<1>2. CounterOf(c, b)' = invalidCounter'[c][SetOf[b]][tagMap'[c][b]]
  BY <1>1 DEF CounterOf, AtBlock, WayOf
<1> QED  BY <1>1, <1>2, OwnCounter

\* A step that leaves all counters and frames alone, and sends no update.
LEMMA RunUntouched ==
  ASSUME HybridInv, NEW c \in Caches, NEW b \in Cacheable, InRun(c, b), InRun(c, b)',
         UNCHANGED <<invalidCounter, tagMap>>, ~SendsUpdate(c, b)
  PROVE  RunsDown(c, b)
  BY RunInPlace DEF RunsDown

\* A transaction of another block or another cache passes a line's snoop.
LEMMA RunSnooped ==
  ASSUME HybridInv, NEW m, NextMemReq(m), isCacheablePacket(m.pkt),
         NEW c \in Caches, NEW b \in Cacheable, Present(c, b)
  PROVE  \/ m.from # c /\ m.pkt.blk = b /\ currentGranted \notin {c, NoCache}
              /\ CurrentPacket.blk = b /\ ~SendsUpdate(c, b)
         \/ CountersAfterSnoop(m)[c][SetOf[b]][tagMap[c][b]] =
              invalidCounter[c][SetOf[b]][tagMap[c][b]]
<1>1. /\ m.pkt.blk \in Cacheable /\ m.from \in Caches
      /\ currentGranted = m.from /\ CurrentPacket = m.pkt
  BY SnoopFinds DEF HybridInv
<1>2. SetOf[b] \in Sets /\ tagMap[c][b] \in Ways
  BY OwnCounter
<1>3. CASE m.from = c
  BY <1>1, <1>3, SnoopedCounters
<1>4. CASE m.from # c /\ m.pkt.blk = b
  BY <1>1, <1>4, NobodyIsNoCache DEF SendsUpdate
<1>5. CASE m.pkt.blk # b
  <2>1. PICK x \in Cacheable : x = m.pkt.blk
    BY <1>1
  <2>2. SetOf[b] # SetOf[x] \/ tagMap[c][b] # tagMap[c][x]
    <3>1. CASE Present(c, x)
      BY <1>5, <2>1, <3>1, FramesApart DEF HybridInv, SharedInv
    <3>2. CASE ~Present(c, x)
      BY <1>2, <3>2 DEF Present, NotExist, Ways
    <3> QED  BY <3>1, <3>2
  <2> QED  BY <1>1, <1>2, <2>1, <2>2, SnoopedCounters
<1> QED  BY <1>3, <1>4, <1>5


\* A transaction ends at another cache, or at the run's for another block.
LEMMA RunPassedBy ==
  ASSUME HybridInv, HybridInv', NEW g \in Caches, NEW x \in Cacheable, PlaceBlock(g, x),
         NEW l, NEW k, CounterFits(l, k),
         NEW counters \in [Caches -> [Sets -> [Ways -> Int]]], counters[g] = invalidCounter[g],
         invalidCounter' = WithField(counters, g, x, k),
         NEW c \in Caches, NEW b \in Cacheable, InRun(c, b), InRun(c, b)', c # g \/ b # x
  PROVE  /\ CounterOf(c, b) = invalidCounter[c][SetOf[b]][tagMap[c][b]]
         /\ CounterOf(c, b)' = counters[c][SetOf[b]][tagMap[c][b]]
<1>1. /\ Present(c, b) /\ Present(c, b)'
      /\ SetOf[b] \in Sets /\ tagMap[c][b] \in Ways
      /\ CounterOf(c, b) = invalidCounter[c][SetOf[b]][tagMap[c][b]]
      /\ CounterOf(c, b)' = invalidCounter'[c][SetOf[b]][tagMap'[c][b]]
  BY RunInPlace
<1>2. /\ tagMap'[c][b] = tagMap[c][b]
      /\ c = g /\ b # x /\ SetOf[b] = SetOf[x] =>
           tagMap[c][b] # IF Present(g, x) THEN tagMap[g][x] ELSE FreeWay(g, x)
  BY <1>1, PlacesKept DEF HybridInv, SharedInv
<1>3. CASE c # g
  <2>1. invalidCounter'[c] = counters[c]
    BY <1>3, FilledCounters
  <2> QED  BY <1>1, <1>2, <2>1
<1>4. CASE c = g
  <2>1. SetOf[b] # SetOf[x] \/ tagMap[c][b] # WayOf(g, x)
    BY <1>2, <1>4 DEF WayOf
  <2>2. \A s \in Sets, w \in Ways :
          invalidCounter'[g][s][w] = IF s = SetOf[x] /\ w = WayOf(g, x)
                                       THEN k ELSE invalidCounter[g][s][w]
    BY FilledCounters
  <2> QED  BY <1>1, <1>2, <1>4, <2>1, <2>2
<1> QED  BY <1>3, <1>4

\* The writer's own update of a line that stays in a run.
LEMMA RunPays ==
  ASSUME HybridInv, NEW m, SnoopAndComplete(m),
         invalidCounter' = CountersAfterFill(m.from, requestPacket[m.from], WireAfterSnoop(m),
                             RemoteWireAfterSnoop(m), CountersAfterSnoop(m)),
         NEW c \in Caches, NEW b \in Cacheable, InRun(c, b), InRun(c, b)',
         c = m.from, b = m.pkt.blk
  PROVE  RunsDown(c, b)
<1>1. NextMemReq(m) /\ isCacheablePacket(m.pkt)
  BY DEF SnoopAndComplete
<1>2. /\ m.pkt \in Packet /\ currentGranted = c /\ CurrentPacket = m.pkt
      /\ memReqQueue # <<>> /\ memReqQueue' = <<>> /\ ~sharedWire
      /\ currBusOp \in Ops(c, m.pkt)
  BY <1>1, SnoopFinds DEF HybridInv, NextMemReq
<1>3. PICK p \in Packet : p = m.pkt /\ b = p.blk
  BY <1>2
<1>4. PICK wire, l, k :
        /\ wire \in BOOLEAN /\ wire = WireAfterSnoop(m)
        /\ l = FilledLine(c, p, p, wire)
        /\ k = FilledCounter(c, p, wire, RemoteWireAfterSnoop(m))
        /\ EndsWithCounter(c, b, l, k, LinesAfterSnoop(m), CountersAfterSnoop(m))
  BY <1>3, HybridCompletes
<1>5. p.cmd = "Write"
  BY <1>3, HybridCompletes
<1>6. /\ Present(c, b) /\ isHit(c, b) /\ SetOf[b] \in Sets /\ tagMap[c][b] \in Ways
      /\ WayOf(c, b) = tagMap[c][b] /\ tagMap' = tagMap
  BY <1>4, RunInPlace, OwnCounter DEF EndsWithCounter, PlaceBlock
<1>7. wire
  <2>1. LineOf(c, b)' = l
    <3>1. lines'[c] = LinesWith(c, b, l)
      BY <1>4 DEF EndsWithCounter, LinesAfterSnoop
    <3> QED  BY <1>6, <3>1, FilledFrames DEF LineOf, HybridInv, SharedInv
  <2>2. l.cohState = "SharedMod"
    BY <2>1 DEF InRun
  <2>3. OldLine(c, b) \in Frame(CoherenceStates)
    BY OldLineFacts DEF HybridInv, SharedInv, FramesInv
  <2> QED  BY <1>3, <1>4, <1>5, <2>2, <2>3 DEF FilledLine, WrittenLine, Frame
<1>8. SnoopHits(m) # {} /\ currBusOp = "BusUpd" /\ Updates
  <2>1. SnoopHits(m) # {} /\ ~Invalidates
    BY <1>2, <1>4, <1>7 DEF WireAfterSnoop
  <2> QED  BY <1>2, <1>3, <1>6, <2>1 DEF Ops, Invalidates, Updates, hasBusUpd
<1>9. SendsUpdate(c, b)
  BY <1>2, <1>3, <1>8 DEF SendsUpdate
<1>10. CounterOf(c, b) > 0
  BY <1>1, <1>6, <1>8, SnoopFindsUpdate
<1>11. CounterOf(c, b)' = k
  <2>1. /\ CountersAfterSnoop(m) \in [Caches -> [Sets -> [Ways -> Int]]]
        /\ CountersAfterSnoop(m)[c] = invalidCounter[c]
    BY <1>1, SnoopedCounters DEF isCacheablePacket
  <2>2. CounterFits(l, k) /\ invalidCounter' = WithField(CountersAfterSnoop(m), c, b, k)
    BY <1>4 DEF EndsWithCounter
  <2>3. \A s \in Sets, w \in Ways :
          invalidCounter'[c][s][w] = IF s = SetOf[b] /\ w = WayOf(c, b)
                                       THEN k ELSE invalidCounter[c][s][w]
    BY <2>1, <2>2, FilledCounters
  <2> QED  BY <1>6, <2>3, RunInPlace
<1>12. k = CounterOf(c, b) - 1 \/ ReadElsewhere(c, b)
  <2>1. CASE RemoteWireAfterSnoop(m)
    BY <1>3, <1>8, <2>1, WireReportsRead DEF ReadElsewhere
  <2>2. CASE ~RemoteWireAfterSnoop(m)
    BY <1>3, <1>4, <1>5, <1>6, <1>7, <2>2 DEF FilledCounter
  <2> QED  BY <2>1, <2>2
<1> QED  BY <1>9, <1>10, <1>11, <1>12 DEF RunsDown

\* A transaction that neither is of the line's cache on its block.
LEMMA RunOfAnother ==
  ASSUME HybridInv, HybridInv', NEW m, SnoopAndComplete(m),
         invalidCounter' = CountersAfterFill(m.from, requestPacket[m.from], WireAfterSnoop(m),
                             RemoteWireAfterSnoop(m), CountersAfterSnoop(m)),
         NEW c \in Caches, NEW b \in Cacheable, InRun(c, b), InRun(c, b)',
         c # m.from \/ b # m.pkt.blk
  PROVE  RunsDown(c, b)
<1>1. NextMemReq(m) /\ isCacheablePacket(m.pkt)
  BY DEF SnoopAndComplete
<1>2. PICK g \in Caches, p \in Packet : g = m.from /\ p = m.pkt
  BY <1>1, SnoopFinds DEF HybridInv
<1>3. PICK x, l, k :
        /\ x \in Cacheable /\ x = p.blk
        /\ EndsWithCounter(g, x, l, k, LinesAfterSnoop(m), CountersAfterSnoop(m))
  BY <1>2, HybridCompletes
<1>4. currentGranted = g /\ CurrentPacket = p
  BY <1>1, <1>2, SnoopFinds DEF HybridInv
<1>5. ~SendsUpdate(c, b)
  BY <1>2, <1>4 DEF SendsUpdate
<1>6. /\ CountersAfterSnoop(m) \in [Caches -> [Sets -> [Ways -> Int]]]
      /\ CountersAfterSnoop(m)[g] = invalidCounter[g]
  BY <1>2, <1>3, SnoopedCounters
<1>7. /\ CounterOf(c, b) = invalidCounter[c][SetOf[b]][tagMap[c][b]]
      /\ CounterOf(c, b)' = CountersAfterSnoop(m)[c][SetOf[b]][tagMap[c][b]]
  <2>1. c # g \/ b # x
    BY <1>2, <1>3
  <2>2. PICK counters : counters = CountersAfterSnoop(m)
    OBVIOUS
  <2>3. /\ x \in Cacheable /\ PlaceBlock(g, x) /\ CounterFits(l, k)
        /\ invalidCounter' = WithField(counters, g, x, k)
    BY <1>3, <2>2 DEF EndsWithCounter
  <2> QED  BY <1>6, <2>1, <2>2, <2>3, RunPassedBy
<1>8. Present(c, b)
  BY DEF InRun, isHit
<1> QED  BY <1>1, <1>5, <1>7, <1>8, RunSnooped DEF RunsDown

\* Every step lets a run of updates down as UpdatesRunDown says.
LEMMA HybridRunStep ==
  ASSUME HybridInv, HybridInv', Next, NEW c \in Caches, NEW b \in Cacheable,
         InRun(c, b), InRun(c, b)'
  PROVE  RunsDown(c, b)
<1>1. ASSUME NEW d \in Caches, NEW p \in CpuPackets, handleCoherentCpuReq(d, p)
      PROVE  RunsDown(c, b)
  <2>1. UNCHANGED <<invalidCounter, tagMap, memReqQueue>>
    BY <1>1 DEF handleCoherentCpuReq, ReadHit, WriteHit, BusRequest, AnswerAtOnce,
       WaitForBus, busVars, setVars, runVars
  <2> QED  BY <2>1, RunUntouched DEF SendsUpdate
<1>2. ASSUME NEW d \in Caches, handleCoherentBusGrant(d)
      PROVE  RunsDown(c, b)
  <2>1. memReqQueue = <<>> /\ UNCHANGED <<invalidCounter, tagMap>>
    BY <1>2, GrantFinds DEF HybridInv, SharedInv, Idle, GrantNext, handleCoherentBusGrant,
       BusGrant, setVars
  <2> QED  BY <2>1, RunUntouched DEF SendsUpdate
<1>3. ASSUME NEW m, SnoopAndFetch(m), invalidCounter' = CountersAfterSnoop(m)
      PROVE  RunsDown(c, b)
  <2>1. NextMemReq(m) /\ isCacheablePacket(m.pkt) /\ m.toMem /\ tagMap' = tagMap
    BY <1>3 DEF SnoopAndFetch
  <2>2. ~SendsUpdate(c, b)
    <3>1. /\ m.toMem = NeedsMemory(m.from, m.pkt)
          /\ currentGranted = m.from /\ CurrentPacket = m.pkt
      BY <2>1, SnoopFinds DEF HybridInv
    <3> QED  BY <2>1, <3>1, RunInPlace DEF NeedsMemory, SendsUpdate
  <2> QED  BY <1>3, <2>1, <2>2, RunSnooped, RunInPlace DEF RunsDown
<1>4. ASSUME NEW m, SnoopAndComplete(m),
             invalidCounter' = CountersAfterFill(m.from, requestPacket[m.from],
                                 WireAfterSnoop(m), RemoteWireAfterSnoop(m),
                                 CountersAfterSnoop(m))
      PROVE  RunsDown(c, b)
  BY <1>4, RunPays, RunOfAnother
<1>5. ASSUME NEW m, NEW g \in Caches, handleCoherentMemResp(m, g)
      PROVE  RunsDown(c, b)
  <2>1. PICK x, l, k :
          /\ x \in Cacheable /\ ~isHit(g, x)
          /\ EndsWithCounter(g, x, l, k, lines, invalidCounter)
          /\ memReqQueue = <<>>
    BY <1>5, HybridRefills
  <2>2. c # g \/ b # x
    BY <2>1, RunInPlace
  <2>3. invalidCounter \in [Caches -> [Sets -> [Ways -> Int]]]
    BY DEF HybridInv, CountersTyped
  <2>4. PICK counters : counters = invalidCounter
    OBVIOUS
  <2>5. /\ x \in Cacheable /\ PlaceBlock(g, x) /\ CounterFits(l, k)
        /\ invalidCounter' = WithField(counters, g, x, k)
    BY <2>1, <2>4 DEF EndsWithCounter
  <2>6. /\ counters \in [Caches -> [Sets -> [Ways -> Int]]]
        /\ counters[g] = invalidCounter[g]
    BY <2>3, <2>4
  <2>7. /\ CounterOf(c, b) = invalidCounter[c][SetOf[b]][tagMap[c][b]]
        /\ CounterOf(c, b)' = counters[c][SetOf[b]][tagMap[c][b]]
    BY <2>2, <2>5, <2>6, RunPassedBy
  <2> QED  BY <2>1, <2>4, <2>7 DEF RunsDown, SendsUpdate
<1>6. ASSUME BaseStep, UNCHANGED runVars PROVE RunsDown(c, b)
  <2>1. UNCHANGED <<invalidCounter, tagMap>>
    BY <1>6 DEF BaseStep, setVars, runVars
  <2>2. ASSUME SendsUpdate(c, b) PROVE FALSE
    <3>1. isCacheablePacket(CurrentPacket) /\ memReqQueue' # memReqQueue
          /\ memReqQueue # <<>> /\ memReqQueue' = <<>>
      BY <2>2 DEF SendsUpdate, isCacheablePacket
    <3>2. ASSUME NEW m, UncachedForward(m) PROVE FALSE
      BY <3>1, <3>2, QueuedFacts DEF UncachedForward, HybridInv, SharedInv, CurrentPacket,
         isCacheablePacket
    <3>3. ASSUME NEW d \in Caches, UncachedGrant(d) PROVE FALSE
      BY <3>1, <3>3, GrantFinds DEF UncachedGrant, HybridInv, SharedInv, Idle, GrantNext
    <3>4. \/ UNCHANGED memReqQueue
          \/ \E d \in Caches : UncachedGrant(d)
          \/ \E m : UncachedForward(m)
      BY <1>6 DEF BaseStep, UncachedRequest, WaitForBus, IdleGrant, MemorySide, RecvReqRetry,
         MemAccess, UncachedResponse, ProcessCpuResp, busVars
    <3> QED  BY <3>1, <3>2, <3>3, <3>4
  <2> QED  BY <2>1, <2>2, RunUntouched
<1> QED  BY <1>1, <1>2, <1>3, <1>4, <1>5, <1>6 DEF Next, processMemReqEvent

\* Every update a writer sends while it goes on sharing its line costs one of
\* those it has left, unless a copy was read since the last; nothing else of
\* its own changes what is left.  So a run ends in an invalidation after
\* InvalidThreshold updates nobody read.
THEOREM HybridUpdatesRunDown == Spec => UpdatesRunDown
<1>1. ASSUME HybridInv, HybridInv', [Next]_vars
      PROVE  [\A c \in Caches, b \in Cacheable :
                InRun(c, b) /\ InRun(c, b)' => RunsDown(c, b)]_<<sharedVars, invalidCounter>>
  <2>1. CASE Next
    BY <1>1, <2>1, HybridRunStep
  <2>2. CASE UNCHANGED vars
    BY <2>2 DEF vars, runVars
  <2> QED  BY <1>1, <2>1, <2>2
<1>2. ASSUME HybridInv, HybridInv', [Next]_vars
      PROVE  [\A c \in Caches, b \in Cacheable :
                InRun(c, b) /\ InRun(c, b)' =>
                  LET k == AtBlock(invalidCounter, c, b) IN
                    IF SendsUpdate(c, b)
                      THEN k > 0 /\ (k' = k - 1 \/ ReadElsewhere(c, b))
                      ELSE \/ k' = k
                           \/ currentGranted \notin {c, NoCache} /\ CurrentPacket.blk = b
             ]_<<sharedVars, invalidCounter>>
  BY <1>1, <1>2 DEF RunsDown, CounterOf
<1> QED  BY <1>2, HybridInvariant, PTL DEF Spec, UpdatesRunDown

=============================================================================
