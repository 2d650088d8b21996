------------------------------ MODULE AdaptProofs ------------------------------
(***************************************************************************)
(* Adaptive caches choose between an update and an invalidation by         *)
(* counters and thresholds, which only ever select one of the choices      *)
(* SharedWriteCache allows; so all that is proved of it holds of them.     *)
(* Runs of writes mark exactly the owners, a transaction moves a threshold *)
(* by one, and each update of a run that nobody reads is paid for, though  *)
(* the threshold moves on its own; for any number of caches, blocks,       *)
(* frames and any ratio.                                                   *)
(***************************************************************************)
EXTENDS AdaptCache, SharedWriteProofs

\* Each step is a step of the caches that choose freely.
LEMMA AdaptStepIsShared ==
  ASSUME [Next]_vars
  PROVE  [SharedWriteNext]_sharedVars
<1>1. ASSUME NEW c \in Caches, NEW p \in CpuPackets, handleCoherentCpuReq(c, p)
      PROVE  SharedWriteNext
  BY <1>1 DEF handleCoherentCpuReq, SharedWriteNext
<1>2. ASSUME NEW c \in Caches, handleCoherentBusGrant(c)
      PROVE  SharedWriteNext
  <2>1. PICK op : op = BusOp(c, requestPacket[c]) /\ op \in BusOps
    BY DEF BusOp, BusOps
  <2>2. BusGrant(c, op)
    BY <1>2, <2>1 DEF handleCoherentBusGrant
  <2> QED  BY <2>1, <2>2 DEF SharedWriteNext
<1>3. ASSUME memReqQueue # <<>>, processMemReqEvent(Head(memReqQueue))
      PROVE  SharedWriteNext
  BY <1>3 DEF processMemReqEvent, SharedWriteNext
<1>4. ASSUME NEW m \in inMemory, NEW c \in Caches, handleCoherentMemResp(m, c)
      PROVE  SharedWriteNext
  BY <1>4 DEF handleCoherentMemResp, SharedWriteNext
<1>5. ASSUME BaseStep PROVE SharedWriteNext
  BY <1>5 DEF SharedWriteNext
<1>6. ASSUME UNCHANGED vars PROVE UNCHANGED sharedVars
  BY <1>6 DEF vars
<1> QED  BY <1>1, <1>2, <1>3, <1>4, <1>5, <1>6 DEF Next, AdaptStep

\* Adaptive caches do nothing that caches which choose freely between updating
\* and invalidating may not do.
THEOREM AdaptImplementsSharedWrite == Spec => SharedWriteSpec
<1>1. Init => SharedInit
  BY DEF Init
<1> QED  BY <1>1, AdaptStepIsShared, PTL DEF Spec, SharedWriteSpec

\* Whatever the thresholds choose, adaptive caches are one atomic memory.
THEOREM AdaptImplementsAtomicMemory == Spec => ImplementsAtomicMemory
  BY AdaptImplementsSharedWrite, SharedImplementsAtomicMemory, PTL

-----------------------------------------------------------------------------
(* The runs.                                                               *)

\* A run of length n may stand next to line l.
RunFits(l, n) ==
  /\ n > 0 => l.cohState \in {"Modified", "SharedMod"}
  /\ l.cohState = "Modified" => n > 0

RunsTyped == writeRunCounter \in [Caches -> [Sets -> [Ways -> RunLengths]]]

ThresholdsTyped == invalidationThs \in [Cacheable -> Int]

\* The transaction under way has moved a threshold by one already, or by
\* none while its snoop is to come.
NearGrant ==
  /\ thsAtGrant \in [Cacheable -> Int]
  /\ \A b \in Cacheable : invalidationThs[b] - thsAtGrant[b] \in -1..1
  /\ currentGranted = NoCache \/ memReqQueue # <<>> => thsAtGrant = invalidationThs

AdaptInv == SharedInv /\ RunsTyped /\ ThresholdsTyped /\ RunMarksOwner /\ NearGrant

LEMMA RunsFit ==
  RunMarksOwner <=> \A c \in Caches, s \in Sets, w \in Ways :
                      RunFits(lines[c][s][w], writeRunCounter[c][s][w])
  BY DEF RunMarksOwner, RunFits

LEMMA LongerRun ==
  ASSUME NEW n \in RunLengths
  PROVE  n \in Nat /\ 0 \in RunLengths /\ Longer(n) \in RunLengths /\ Longer(n) > 0
  BY AdaptAssumption DEF RunLengths, Longer

\* The run of a present block stands next to its line.
LEMMA OwnRun ==
  ASSUME AdaptInv, NEW c \in Caches, NEW b \in Cacheable, Present(c, b)
  PROVE  /\ SetOf[b] \in Sets /\ tagMap[c][b] \in Ways /\ WayOf(c, b) = tagMap[c][b]
         /\ RunOf(c, b) = writeRunCounter[c][SetOf[b]][tagMap[c][b]]
         /\ RunOf(c, b) \in RunLengths
         /\ RunFits(LineOf(c, b), RunOf(c, b))
         /\ isHit(c, b) => LineOf(c, b).cohState \in CoherenceStates \ {"Invalid"}
<1>1. SetOf[b] \in Sets /\ tagMap[c][b] \in Ways
  BY SetOfTyped DEF AdaptInv, SharedInv, FramesInv, SetsTypeOK, Present
<1>2. WayOf(c, b) = tagMap[c][b]
  BY DEF WayOf
<1>3. RunOf(c, b) = writeRunCounter[c][SetOf[b]][tagMap[c][b]]
  BY <1>2 DEF RunOf, AtBlock
<1>4. RunFits(LineOf(c, b), RunOf(c, b)) /\ RunOf(c, b) \in RunLengths
  BY <1>1, <1>3, RunsFit DEF AdaptInv, LineOf, RunsTyped
<1>5. isHit(c, b) => LineOf(c, b).cohState \in CoherenceStates \ {"Invalid"}
  BY <1>1 DEF AdaptInv, SharedInv, FramesInv, SetsTypeOK, LineOf, Frame, isHit
<1> QED  BY <1>1, <1>2, <1>3, <1>4, <1>5

\* A snoop ends the run of every copy it reaches.
LEMMA SnoopedRuns ==
  ASSUME AdaptInv, NEW m, m.pkt.blk \in Cacheable
  PROVE  /\ RunsAfterSnoop(m) \in [Caches -> [Sets -> [Ways -> RunLengths]]]
         /\ \A c \in Caches : c = m.from => RunsAfterSnoop(m)[c] = writeRunCounter[c]
         /\ \A d \in Caches, s \in Sets, w \in Ways :
              RunFits(LinesAfterSnoop(m)[d][s][w], RunsAfterSnoop(m)[d][s][w])
<1> DEFINE b == m.pkt.blk
           new == [d \in SnoopHits(m) |-> IF EndsRun(d, m) THEN 0 ELSE RunOf(d, b)]
           R == RunsAfterSnoop(m)
<1>1. /\ FramesInv
      /\ writeRunCounter \in [Caches -> [Sets -> [Ways -> RunLengths]]]
      /\ 0 \in RunLengths
  BY AdaptAssumption DEF AdaptInv, SharedInv, RunsTyped, RunLengths
<1>2. \A d \in SnoopHits(m) : d \in Caches /\ Present(d, b) /\ isHit(d, b)
  BY DEF SnoopHits, isHit
<1>3. \A d \in SnoopHits(m) : new[d] = 0
  <2> TAKE d \in SnoopHits(m)
  <2>1. /\ RunOf(d, b) \in Nat
        /\ RunOf(d, b) > 0 => LineOf(d, b).cohState \in {"Modified", "SharedMod"}
    BY <1>2, OwnRun, LongerRun DEF RunFits
  <2>2. ~EndsRun(d, m) => RunOf(d, b) = 0
    BY <2>1 DEF EndsRun
  <2> QED  BY <2>2
<1>4. R = [d \in Caches |->
             IF d \in SnoopHits(m)
               THEN [writeRunCounter EXCEPT ![d][SetOf[b]][WayOf(d, b)] = new[d]][d]
               ELSE writeRunCounter[d]]
  BY DEF RunsAfterSnoop, FieldAfterSnoop, WithField
<1> HIDE DEF R, new
<1>5. \A d \in SnoopHits(m) :
        /\ SetOf[b] \in Sets /\ tagMap[d][b] \in Ways
        /\ R[d] = [writeRunCounter[d] EXCEPT ![SetOf[b]][tagMap[d][b]] = 0]
  BY <1>1, <1>2, <1>3, <1>4, OwnRun
<1>6. \A d \in Caches : d \notin SnoopHits(m) => R[d] = writeRunCounter[d]
  BY <1>4
<1>7. \A d \in Caches : R[d] \in [Sets -> [Ways -> RunLengths]]
  <2> TAKE d \in Caches
  <2>1. PICK f \in [Sets -> [Ways -> RunLengths]] : f = writeRunCounter[d]
    BY <1>1
  <2>2. CASE d \in SnoopHits(m)
    <3>1. PICK x \in Sets, y \in Ways : x = SetOf[b] /\ y = tagMap[d][b]
      BY <1>5, <2>2
    <3>2. R[d] = [f EXCEPT ![x][y] = 0]
      BY <1>5, <2>1, <2>2, <3>1
    <3> QED  BY <1>1, <3>2
  <2>3. CASE d \notin SnoopHits(m)
    BY <1>6, <2>1, <2>3
  <2> QED  BY <2>2, <2>3
<1>8. R \in [Caches -> [Sets -> [Ways -> RunLengths]]]
  BY <1>4, <1>7
<1>9. ASSUME NEW d \in Caches, NEW s \in Sets, NEW w \in Ways
      PROVE  RunFits(LinesAfterSnoop(m)[d][s][w], R[d][s][w])
  <2>1. RunFits(lines[d][s][w], writeRunCounter[d][s][w])
    BY RunsFit DEF AdaptInv
  <2>2. PICK f \in [Sets -> [Ways -> RunLengths]] : f = writeRunCounter[d]
    BY <1>1
  <2>3. R[d][s][w] = IF d \in SnoopHits(m) /\ s = SetOf[b] /\ w = tagMap[d][b]
                       THEN 0 ELSE f[s][w]
    <3>1. CASE d \in SnoopHits(m)
      <4>1. /\ R[d] = [f EXCEPT ![SetOf[b]][tagMap[d][b]] = 0]
            /\ SetOf[b] \in Sets /\ tagMap[d][b] \in Ways
        BY <1>5, <2>2, <3>1
      <4> QED  BY <3>1, <4>1
    <3>2. CASE d \notin SnoopHits(m)
      BY <1>6, <2>2, <3>2
    <3> QED  BY <3>1, <3>2
  <2>4. LinesAfterSnoop(m)[d][s][w] =
          IF d \in SnoopHits(m) /\ s = SetOf[b] /\ w = tagMap[d][b]
            THEN SnoopedLine(LineOf(d, b), m.pkt) ELSE lines[d][s][w]
    BY <1>1, SnoopedFrames
  <2>5. d \in SnoopHits(m) => SnoopedLine(LineOf(d, b), m.pkt).cohState # "Modified"
    <3>1. d \in SnoopHits(m) => LineOf(d, b) \in Frame(CoherenceStates)
      BY <1>1, <1>2, LineFacts DEF FramesInv
    <3> QED  BY <3>1 DEF SnoopedLine, SnoopedState, Frame
  <2> QED  BY <2>1, <2>2, <2>3, <2>4, <2>5 DEF RunFits
<1>10. \A c \in Caches : c = m.from => R[c] = writeRunCounter[c]
  BY <1>6 DEF SnoopHits
<1> QED  BY <1>8, <1>9, <1>10 DEF R

\* The end of a transaction leaves each run of its cache fitting its line.
LEMMA FilledRuns ==
  ASSUME AdaptInv, NEW c \in Caches, NEW b \in Cacheable, NEW l,
         NEW n \in RunLengths, RunFits(l, n),
         NEW runs \in [Caches -> [Sets -> [Ways -> RunLengths]]], runs[c] = writeRunCounter[c]
  PROVE  /\ WithField(runs, c, b, n) \in [Caches -> [Sets -> [Ways -> RunLengths]]]
         /\ \A d \in Caches \ {c} : WithField(runs, c, b, n)[d] = runs[d]
         /\ \A s \in Sets, w \in Ways :
              RunFits(LinesWith(c, b, l)[s][w], WithField(runs, c, b, n)[c][s][w])
<1> DEFINE R == WithField(runs, c, b, n)
<1>1. FramesInv /\ SetOf[b] \in Sets
  BY SetOfTyped DEF AdaptInv, SharedInv
<1>2. PICK v : v = WayOf(c, b)
  OBVIOUS
<1>3. R = [runs EXCEPT ![c][SetOf[b]][v] = n]
  BY <1>2 DEF WithField
<1>4. R \in [Caches -> [Sets -> [Ways -> RunLengths]]] /\ \A d \in Caches \ {c} : R[d] = runs[d]
  <2> HIDE DEF R
  <2> QED  BY <1>1, <1>3
<1>5. ASSUME NEW s \in Sets, NEW w \in Ways
      PROVE  RunFits(LinesWith(c, b, l)[s][w], R[c][s][w])
  <2>1. R[c][s][w] = IF s = SetOf[b] /\ w = v THEN n ELSE writeRunCounter[c][s][w]
    <3> HIDE DEF R
    <3> QED  BY <1>1, <1>3
  <2>2. RunFits(lines[c][s][w], writeRunCounter[c][s][w])
    BY RunsFit DEF AdaptInv
  <2>3. IF s = SetOf[b] /\ w = v
          THEN LinesWith(c, b, l)[s][w] = l
          ELSE LinesWith(c, b, l)[s][w].cohState = lines[c][s][w].cohState
    BY <1>1, <1>2, FilledFrames DEF WayOf, SameButFlag
  <2> HIDE DEF R
  <2> QED  BY <2>1, <2>2, <2>3 DEF RunFits
<1> QED  BY <1>4, <1>5

\* The run of the line that ends a transaction fits it.
LEMMA FilledRunFits ==
  ASSUME AdaptInv, NEW c \in Caches, NEW p \in Packet, p.blk \in Cacheable, NEW r,
         NEW wire \in BOOLEAN, NEW remote, p.cmd = "Read" => ~isHit(c, p.blk)
  PROVE  /\ FilledRun(c, p, wire, remote) \in RunLengths
         /\ RunFits(FilledLine(c, p, r, wire), FilledRun(c, p, wire, remote))
<1> DEFINE b == p.blk
           n == IF Present(c, b) /\ ~Interrupted(c, p, wire, remote) THEN RunOf(c, b) ELSE 0
<1>1. n \in RunLengths /\ p.cmd \in {"Read", "Write"}
  BY OwnRun, AdaptAssumption DEF RunLengths, Packet
<1>2. p.cmd = "Read" => n = 0
  <2>1. ASSUME Present(c, b), ~isHit(c, b) PROVE RunOf(c, b) = 0
    <3>1. LineOf(c, b).cohState = "Invalid"
      BY <2>1 DEF isHit
    <3>2. RunFits(LineOf(c, b), RunOf(c, b)) /\ RunOf(c, b) \in Nat
      BY <2>1, OwnRun, LongerRun
    <3> QED  BY <3>1, <3>2 DEF RunFits
  <2> QED  BY <2>1
<1>3. FilledRun(c, p, wire, remote) = IF p.cmd = "Read" THEN n ELSE Longer(n)
  BY DEF FilledRun
<1>4. FilledLine(c, p, r, wire).cohState =
        IF p.cmd = "Read" THEN (IF wire THEN "SharedClean" ELSE "Exclusive")
                          ELSE (IF wire THEN "SharedMod" ELSE "Modified")
  <2>1. OldLine(c, b) \in Frame(CoherenceStates)
    BY OldLineFacts DEF AdaptInv, SharedInv, FramesInv
  <2> QED  BY <2>1 DEF FilledLine, WrittenLine, Frame
<1> HIDE DEF n
<1>5. n \in Nat /\ Longer(n) \in RunLengths /\ Longer(n) > 0
  BY <1>1, LongerRun
<1> QED  BY <1>1, <1>2, <1>3, <1>4, <1>5 DEF RunFits

-----------------------------------------------------------------------------
(* The thresholds.                                                         *)

LEMMA VerdictIsOne == \A run : RunVerdict(run) \in {-1, 1}
  BY DEF RunVerdict

\* Whatever the snoop finds, at most one cache has a run of the block to end.
LEMMA OneRunEnds ==
  ASSUME AdaptInv, NEW m, m.pkt.blk \in Cacheable
  PROVE  \/ EndedBySnoop(m) = {}
         \/ \E d \in SnoopHits(m) : /\ EndedBySnoop(m) = {d}
                                    /\ InState(d, m.pkt.blk, {"Modified", "SharedMod"})
<1> DEFINE b == m.pkt.blk
<1>1. \A d \in EndedBySnoop(m) :
        d \in SnoopHits(m) /\ d \in Caches /\ InState(d, b, {"Modified", "SharedMod"})
  BY DEF EndedBySnoop, EndsRun, SnoopHits, InState
<1>2. SingleOwner
  BY DEF AdaptInv, SharedInv, CopiesInv
<1>3. \A d, e \in EndedBySnoop(m) : d = e
  BY <1>1, <1>2 DEF SingleOwner, InState
<1> QED  BY <1>1, <1>3

LEMMA SnoopMovesOnce ==
  ASSUME AdaptInv, NEW m, m.pkt.blk \in Cacheable
  PROVE  /\ ThresholdsAfterSnoop(m) \in [Cacheable -> Int]
         /\ \A x \in Cacheable \ {m.pkt.blk} : ThresholdsAfterSnoop(m)[x] = invalidationThs[x]
         /\ ThresholdsAfterSnoop(m)[m.pkt.blk] - invalidationThs[m.pkt.blk] \in -1..1
         /\ EndedBySnoop(m) = {} =>
              ThresholdsAfterSnoop(m)[m.pkt.blk] = invalidationThs[m.pkt.blk]
<1> DEFINE b == m.pkt.blk
           E == EndedBySnoop(m)
           long == {d \in E : RunVerdict(RunOf(d, b)) < 0}
           delta == Cardinality(E \ long) - Cardinality(long)
<1>1. ThresholdsAfterSnoop(m) =
        [invalidationThs EXCEPT ![b] = @ + Cardinality(E \ long) - Cardinality(long)]
  BY DEF ThresholdsAfterSnoop
<1>2. /\ Cardinality(E \ long) \in 0..1 /\ Cardinality(long) \in 0..1
      /\ E = {} => Cardinality(E \ long) = 0 /\ Cardinality(long) = 0
  <2> HIDE DEF E
  <2>1. CASE E = {}
    <3>1. long = {} /\ E \ long = {}
      BY <2>1
    <3> QED  BY <3>1, FS_EmptySet
  <2>2. ASSUME NEW d, E = {d}
        PROVE  Cardinality(E \ long) \in 0..1 /\ Cardinality(long) \in 0..1
    <3>1. \/ long = {} /\ E \ long = {d}
          \/ long = {d} /\ E \ long = {}
      BY <2>2
    <3>2. Cardinality({d}) = 1 /\ Cardinality({}) = 0
      BY FS_Singleton, FS_EmptySet
    <3> HIDE DEF long
    <3> QED  BY <3>1, <3>2
  <2>3. E = {} \/ \E d : E = {d}
    BY OneRunEnds DEF E
  <2>4. ASSUME E # {}
        PROVE  Cardinality(E \ long) \in 0..1 /\ Cardinality(long) \in 0..1
    BY <2>2, <2>3, <2>4
  <2> QED  BY <2>1, <2>4
<1>3. invalidationThs \in [Cacheable -> Int]
  BY DEF AdaptInv, ThresholdsTyped
<1> HIDE DEF E, long
<1>4. PICK i \in 0..1, j \in 0..1 : i = Cardinality(E \ long) /\ j = Cardinality(long)
  BY <1>2
<1>5. ThresholdsAfterSnoop(m) = [invalidationThs EXCEPT ![b] = invalidationThs[b] + i - j]
  BY <1>1, <1>4
<1> QED  BY <1>2, <1>3, <1>4, <1>5 DEF E

\* The end of a transaction moves the threshold of its block by one for an
\* eviction, and by one for an interrupted run, which evicts nothing.
LEMMA FillMoves ==
  ASSUME NEW c \in Caches, NEW p \in Packet, p.blk \in Cacheable, NEW wire, NEW remote,
         NEW ths \in [Cacheable -> Int]
  PROVE  LET new == ThresholdsAfterFill(c, p, wire, remote, ths) IN
           /\ new \in [Cacheable -> Int]
           /\ \A x \in Cacheable \ {p.blk} : new[x] = ths[x]
           /\ new[p.blk] - ths[p.blk] \in -1..1
           /\ ~InRun(c, p.blk) /\ ~EvictsFor(c, p.blk) => new[p.blk] = ths[p.blk]
<1> DEFINE b == p.blk
<1>1. PICK e \in -1..1 : e = IF EvictsFor(c, b) THEN RunVerdict(RunOf(c, b)) ELSE 0
  BY VerdictIsOne
<1>2. PICK i \in -1..1 : i = IF Interrupted(c, p, wire, remote) THEN RunVerdict(RunOf(c, b)) ELSE 0
  BY VerdictIsOne
<1>3. ThresholdsAfterFill(c, p, wire, remote, ths) = [ths EXCEPT ![b] = ths[b] + e + i]
  BY <1>1, <1>2 DEF ThresholdsAfterFill, ThresholdAfterEvict
<1>4. EvictsFor(c, b) => ~Interrupted(c, p, wire, remote)
  BY DEF EvictsFor, Interrupted, InRun, isHit
<1>5. Interrupted(c, p, wire, remote) => InRun(c, b)
  BY DEF Interrupted
<1> QED  BY <1>1, <1>2, <1>3, <1>4, <1>5

-----------------------------------------------------------------------------
(* The invariant.                                                          *)

RunsInv == RunsTyped /\ ThresholdsTyped /\ RunMarksOwner

\* The step that ThresholdMovesOnce allows.
MovesOnce ==
  \A b \in Cacheable :
    LET moved == invalidationThs'[b] - thsAtGrant[b]
        evicts == currentGranted # NoCache /\ EvictsFor(currentGranted, b)
                  /\ tagMap'[currentGranted][b] # NotExist
    IN moved \in IF evicts THEN -2..2 ELSE -1..1

\* A transaction that goes on has evicted nothing, and has had its snoop if
\* it moved a threshold.
StaysNear ==
  currentGranted' = currentGranted =>
    /\ \A b \in Cacheable : invalidationThs'[b] - thsAtGrant[b] \in -1..1
    /\ memReqQueue' # <<>> => UNCHANGED invalidationThs

LEMMA NearMoves ==
  ASSUME \A b \in Cacheable : invalidationThs'[b] - thsAtGrant[b] \in -1..1,
         memReqQueue' # <<>> => UNCHANGED invalidationThs
  PROVE  MovesOnce /\ StaysNear
<1>1. -1..1 \subseteq -2..2
  OBVIOUS
<1> QED  BY <1>1 DEF MovesOnce, StaysNear

\* A step that moves no threshold.
LEMMA ThresholdsKept ==
  ASSUME AdaptInv, UNCHANGED invalidationThs
  PROVE  ThresholdsTyped' /\ MovesOnce /\ StaysNear
<1>1. \A b \in Cacheable : invalidationThs'[b] - thsAtGrant[b] \in -1..1
  BY DEF AdaptInv, NearGrant
<1> QED  BY <1>1, NearMoves DEF AdaptInv, ThresholdsTyped

\* A step in which no line of a cache changes, nor what the policy keeps.
LEMMA AdaptQuietStep ==
  ASSUME AdaptInv, UNCHANGED <<lines, writeRunCounter, invalidationThs>>
  PROVE  RunsInv' /\ MovesOnce /\ StaysNear
  BY ThresholdsKept DEF AdaptInv, RunsInv, RunsTyped, RunMarksOwner

\* Only a grant puts a packet into an empty queue.
LEMMA QueuedByGrant ==
  ASSUME [SharedWriteNext]_sharedVars, currentGranted # NoCache, memReqQueue = <<>>
  PROVE  memReqQueue' = <<>>
<1>1. ASSUME NEW c, GrantNext(c) PROVE FALSE
  BY <1>1 DEF GrantNext
<1>2. ASSUME BaseStep PROVE memReqQueue' = memReqQueue
  BY <1>1, <1>2
     DEF BaseStep, UncachedRequest, UncachedGrant, IdleGrant, GrantNobody, UncachedResponse,
         MemorySide, RecvReqRetry, MemAccess, ProcessCpuResp, WaitForBus, Request, busVars
<1>3. ASSUME NEW c \in Caches, NEW p \in CpuPackets,
             ReadHit(c, p) \/ WriteHit(c, p) \/ BusRequest(c, p)
      PROVE  memReqQueue' = memReqQueue
  BY <1>3 DEF ReadHit, WriteHit, BusRequest, AnswerAtOnce, WaitForBus, busVars
<1>4. ASSUME NEW c \in Caches, NEW op \in BusOps, BusGrant(c, op) PROVE FALSE
  BY <1>1, <1>4 DEF BusGrant
<1>5. ASSUME NEW m, NEW c \in Caches, MemResp(m, c) PROVE memReqQueue' = memReqQueue
  BY <1>5 DEF MemResp
<1>6. CASE UNCHANGED sharedVars
  BY <1>6 DEF sharedVars, busVars
<1> QED  BY <1>2, <1>3, <1>4, <1>5, <1>6 DEF SharedWriteNext

\* The history moves with the bus, and never far behind the thresholds.
LEMMA NearGrantStep ==
  ASSUME AdaptInv, [Next]_vars, ThresholdsTyped', StaysNear
  PROVE  NearGrant'
<1>1. CASE /\ currentGranted # NoCache /\ currentGranted' = currentGranted
           /\ thsAtGrant' = thsAtGrant
  <2>1. memReqQueue' # <<>> => memReqQueue # <<>>
    BY <1>1, AdaptStepIsShared, QueuedByGrant
  <2> QED  BY <1>1, <2>1 DEF AdaptInv, NearGrant, StaysNear
<1>2. CASE thsAtGrant' = invalidationThs'
  <2>1. \A b \in Cacheable : invalidationThs'[b] - thsAtGrant'[b] = 0
    BY <1>2 DEF ThresholdsTyped
  <2> QED  BY <1>2, <2>1 DEF ThresholdsTyped, NearGrant
<1>3. CASE UNCHANGED vars
  BY <1>3 DEF vars, sharedVars, busVars, arbiterVars, runVars, AdaptInv, NearGrant
<1> QED  BY <1>1, <1>2, <1>3 DEF Next, RememberThresholds

\* A silent write is a write of a run, which it may start.
LEMMA AdaptHitStep ==
  ASSUME AdaptInv, NEW c \in Caches, NEW p \in CpuPackets, handleCoherentCpuReq(c, p)
  PROVE  RunsInv' /\ MovesOnce /\ StaysNear
<1>1. UNCHANGED invalidationThs
  BY DEF handleCoherentCpuReq, runVars
<1>2. lines \in [Caches -> [Sets -> [Ways -> Frame(CoherenceStates)]]]
  BY DEF AdaptInv, SharedInv, FramesInv, SetsTypeOK
<1>3. RunsTyped' /\ RunMarksOwner'
  <2>1. CASE ReadHit(c, p) /\ UNCHANGED writeRunCounter
    <3>1. \A d \in Caches, s \in Sets, w \in Ways :
            lines'[d][s][w].cohState = lines[d][s][w].cohState
      <4>1. lines' = [lines EXCEPT ![c][SetOf[p.blk]][tagMap[c][p.blk]].clkFlag = 1]
        BY <2>1 DEF ReadHit
      <4> QED  BY <1>2, <4>1 DEF Frame
    <3> QED  BY <2>1, <3>1 DEF AdaptInv, RunsTyped, RunMarksOwner
  <2>2. CASE WriteHit(c, p) /\ CountSilentWrite(c, p)
    <3>1. PICK l : l = SilentWrite(LineOf(c, p.blk), p)
      OBVIOUS
    <3>2. /\ LineOf(c, p.blk) \in Frame(CoherenceStates)
          /\ SetOf[p.blk] \in Sets /\ tagMap[c][p.blk] \in Ways
          /\ WayOf(c, p.blk) = tagMap[c][p.blk]
          /\ RunOf(c, p.blk) \in RunLengths
      BY <2>2, OwnRun, LineFacts DEF WriteHit, isCacheablePacket, isHit, AdaptInv,
         SharedInv, FramesInv
    <3>3. PICK s \in Sets, w \in Ways : s = SetOf[p.blk] /\ w = tagMap[c][p.blk]
      BY <3>2
    <3>4. PICK n \in RunLengths : n = Longer(RunOf(c, p.blk)) /\ n > 0
      BY <3>2, LongerRun
    <3>5. l.cohState = "Modified"
      BY <3>1, <3>2 DEF SilentWrite, Frame
    <3>6. lines' = [lines EXCEPT ![c] = [lines[c] EXCEPT ![s][w] = l]]
      BY <2>2, <3>1, <3>3 DEF WriteHit, WithLine
    <3>7. writeRunCounter' = [writeRunCounter EXCEPT ![c][s][w] = n]
      BY <2>2, <3>2, <3>3, <3>4 DEF CountSilentWrite, WithField
    <3>8. writeRunCounter \in [Caches -> [Sets -> [Ways -> RunLengths]]]
      BY DEF AdaptInv, RunsTyped
    <3>9. \A d \in Caches, x \in Sets, y \in Ways :
            /\ lines'[d][x][y] = IF d = c /\ x = s /\ y = w THEN l ELSE lines[d][x][y]
            /\ writeRunCounter'[d][x][y] =
                 IF d = c /\ x = s /\ y = w THEN n ELSE writeRunCounter[d][x][y]
      BY <1>2, <3>6, <3>7, <3>8
    <3>10. RunsTyped'
      BY <3>7, <3>8 DEF RunsTyped
    <3>11. RunMarksOwner'
      BY <3>4, <3>5, <3>9 DEF AdaptInv, RunMarksOwner
    <3> QED  BY <3>10, <3>11
  <2>3. CASE BusRequest(c, p) /\ UNCHANGED runVars
    BY <2>3 DEF BusRequest, setVars, runVars, AdaptInv, RunsTyped, RunMarksOwner
  <2> QED  BY <2>1, <2>2, <2>3 DEF handleCoherentCpuReq
<1> QED  BY <1>1, <1>3, ThresholdsKept DEF RunsInv

\* The snoop of a transaction that goes on to memory.
LEMMA AdaptFetchStep ==
  ASSUME AdaptInv, NEW m, SnoopAndFetch(m), invalidationThs' = ThresholdsAfterSnoop(m),
         writeRunCounter' = RunsAfterSnoop(m)
  PROVE  RunsInv' /\ MovesOnce /\ StaysNear
<1>1. NextMemReq(m) /\ m.pkt.blk \in Cacheable /\ lines' = LinesAfterSnoop(m)
  BY DEF SnoopAndFetch, isCacheablePacket
<1>2. RunsTyped' /\ RunMarksOwner'
  BY <1>1, SnoopedRuns DEF RunsTyped, RunMarksOwner, RunFits
<1>3. ThresholdsTyped'
  BY <1>1, SnoopMovesOnce DEF ThresholdsTyped
<1>4. memReqQueue # <<>> /\ memReqQueue' = <<>>
  BY <1>1, SnoopFinds DEF AdaptInv, isCacheablePacket
<1>5. thsAtGrant = invalidationThs
  BY <1>4 DEF AdaptInv, NearGrant
<1>6. \A b \in Cacheable : invalidationThs'[b] - thsAtGrant[b] \in -1..1
  BY <1>1, <1>5, SnoopMovesOnce DEF AdaptInv, ThresholdsTyped
<1> QED  BY <1>2, <1>3, <1>4, <1>6, NearMoves DEF RunsInv

\* The end of a transaction of c, from runs and thresholds that its snoop may
\* have moved since the grant, but not if c's own line is in a run.
LEMMA AdaptFillStep ==
  ASSUME AdaptInv, NEW c \in Caches, currentGranted = c, currentGranted' = NoCache,
         NEW p \in Packet, p.blk \in Cacheable, NEW b, b = p.blk, NEW r,
         NEW wire \in BOOLEAN, NEW remote, NEW ths, NEW runs, NEW counters, NEW mid,
         p.cmd = "Read" => ~isHit(c, b),
         Fill(c, p, wire, remote, ths, runs, counters), PlaceBlock(c, b),
         mid \in [Caches -> {mid[d] : d \in Caches}],
         lines' = [mid EXCEPT ![c] = LinesWith(c, b, FilledLine(c, p, r, wire))],
         runs \in [Caches -> [Sets -> [Ways -> RunLengths]]], runs[c] = writeRunCounter[c],
         \A d \in Caches, s \in Sets, w \in Ways : RunFits(mid[d][s][w], runs[d][s][w]),
         ths \in [Cacheable -> Int],
         \A x \in Cacheable \ {b} : ths[x] = invalidationThs[x],
         ths[b] - thsAtGrant[b] \in -1..1,
         InRun(c, b) => ths[b] = thsAtGrant[b]
  PROVE  RunsInv' /\ MovesOnce /\ StaysNear
<1>1. PICK n \in RunLengths : n = FilledRun(c, p, wire, remote)
  BY FilledRunFits
<1>2. PICK l : l = FilledLine(c, p, r, wire)
  OBVIOUS
<1>3. RunFits(l, n)
  BY <1>1, <1>2, FilledRunFits
<1>4. writeRunCounter' = WithField(runs, c, b, n)
  BY <1>1 DEF Fill
<1>5. /\ writeRunCounter' \in [Caches -> [Sets -> [Ways -> RunLengths]]]
      /\ \A d \in Caches \ {c} : writeRunCounter'[d] = runs[d]
      /\ \A s \in Sets, w \in Ways :
           RunFits(LinesWith(c, b, l)[s][w], writeRunCounter'[c][s][w])
  <2>1. b \in Cacheable /\ runs \in [Caches -> [Sets -> [Ways -> RunLengths]]]
        /\ runs[c] = writeRunCounter[c]
    OBVIOUS
  <2>2. /\ WithField(runs, c, b, n) \in [Caches -> [Sets -> [Ways -> RunLengths]]]
        /\ \A d \in Caches \ {c} : WithField(runs, c, b, n)[d] = runs[d]
        /\ \A s \in Sets, w \in Ways :
             RunFits(LinesWith(c, b, l)[s][w], WithField(runs, c, b, n)[c][s][w])
    BY ONLY AdaptInv, <1>3, <2>1, FilledRuns
  <2> QED  BY ONLY <1>4, <2>2
<1>6. \A d \in Caches, s \in Sets, w \in Ways :
        RunFits(lines'[d][s][w], writeRunCounter'[d][s][w])
  <2> TAKE d \in Caches, s \in Sets, w \in Ways
  <2>1. lines'[d] = IF d = c THEN LinesWith(c, b, l) ELSE mid[d]
    BY <1>2
  <2> QED  BY <1>5, <2>1
<1>7. RunsTyped' /\ RunMarksOwner'
  BY <1>5, <1>6 DEF RunsTyped, RunMarksOwner, RunFits
<1>8. /\ invalidationThs' \in [Cacheable -> Int]
      /\ \A x \in Cacheable \ {b} : invalidationThs'[x] = ths[x]
      /\ invalidationThs'[b] - ths[b] \in -1..1
      /\ ~InRun(c, b) /\ ~EvictsFor(c, b) => invalidationThs'[b] = ths[b]
  <2>1. PICK new : new = ThresholdsAfterFill(c, p, wire, remote, ths)
    OBVIOUS
  <2>2. invalidationThs' = new
    BY <2>1 DEF Fill
  <2>3. p \in Packet /\ p.blk \in Cacheable /\ ths \in [Cacheable -> Int]
    OBVIOUS
  <2>4. /\ new \in [Cacheable -> Int]
        /\ \A x \in Cacheable \ {p.blk} : new[x] = ths[x]
        /\ new[p.blk] - ths[p.blk] \in -1..1
        /\ ~InRun(c, p.blk) /\ ~EvictsFor(c, p.blk) => new[p.blk] = ths[p.blk]
    BY ONLY <2>1, <2>3, FillMoves
  <2>5. b = p.blk
    OBVIOUS
  <2> QED  BY ONLY <2>2, <2>4, <2>5
<1>9. EvictsFor(c, b) => tagMap'[c][b] # NotExist
  <2> SUFFICES ASSUME EvictsFor(c, b) PROVE tagMap'[c][b] # NotExist
    OBVIOUS
  <2>1. tagMap' = [tagMap EXCEPT ![c] = TagMapAfterFill(c, b)]
    BY DEF PlaceBlock, EvictsFor
  <2>2. tagMap'[c][b] = FreeWay(c, b)
    BY <2>1 DEF TagMapAfterFill, AdaptInv, SharedInv, FramesInv, SetsTypeOK
  <2>3. FreeWay(c, b) \in Ways
    BY FreeWayFacts DEF AdaptInv, SharedInv, FramesInv, SharedCacheInv
  <2> QED  BY <2>2, <2>3, NumLinesAssumption DEF Ways, NotExist
<1>10. MovesOnce
  <2> SUFFICES ASSUME NEW x \in Cacheable
               PROVE  invalidationThs'[x] - thsAtGrant[x] \in
                        IF /\ currentGranted # NoCache /\ EvictsFor(currentGranted, x)
                           /\ tagMap'[currentGranted][x] # NotExist
                          THEN -2..2 ELSE -1..1
    BY DEF MovesOnce
  <2>1. thsAtGrant[x] \in Int /\ ths[x] \in Int /\ invalidationThs'[x] \in Int
    BY <1>8 DEF AdaptInv, NearGrant
  <2>2. CASE x # b
    <3>1. invalidationThs'[x] = invalidationThs[x] /\ invalidationThs[x] - thsAtGrant[x] \in -1..1
      BY <1>8, <2>2 DEF AdaptInv, NearGrant
    <3>2. -1..1 \subseteq -2..2
      OBVIOUS
    <3> QED  BY <3>1, <3>2
  <2>3. CASE x = b /\ EvictsFor(c, b)
    <3>1. invalidationThs'[b] - thsAtGrant[b] \in -2..2
      <4>1. PICK i \in Int, j \in Int, k \in Int :
              i = thsAtGrant[b] /\ j = ths[b] /\ k = invalidationThs'[b]
        BY <2>1, <2>3
      <4>2. j - i \in -1..1 /\ k - j \in -1..1
        BY <1>8, <4>1
      <4>3. k - i \in -2..2
        BY <4>2
      <4> QED  BY <4>1, <4>3
    <3> QED  BY <1>9, <2>3, <3>1, NobodyIsNoCache
  <2>4. CASE x = b /\ ~EvictsFor(c, b)
    <3>1. invalidationThs'[b] - thsAtGrant[b] \in -1..1
      BY <1>8, <2>1, <2>4
    <3> QED  BY <2>4, <3>1
  <2> QED  BY <2>2, <2>3, <2>4
<1>11. StaysNear
  BY NobodyIsNoCache DEF StaysNear
<1> QED  BY <1>7, <1>8, <1>10, <1>11 DEF RunsInv, ThresholdsTyped

\* The snoop and the end of a write that needs no memory.
LEMMA AdaptCompleteStep ==
  ASSUME AdaptInv, NEW m, SnoopAndComplete(m),
         Fill(m.from, requestPacket[m.from], WireAfterSnoop(m), RemoteWireAfterSnoop(m),
              ThresholdsAfterSnoop(m), RunsAfterSnoop(m), CountersAfterSnoop(m))
  PROVE  RunsInv' /\ MovesOnce /\ StaysNear
<1>1. NextMemReq(m) /\ isCacheablePacket(m.pkt)
  BY DEF SnoopAndComplete
<1>2. PICK c \in Caches : c = m.from /\ currentGranted = c /\ memReqQueue # <<>>
  BY <1>1, SnoopFinds DEF AdaptInv
<1>3. PICK p \in Packet : p = m.pkt /\ p = requestPacket[c] /\ p.blk \in Cacheable
  BY <1>1, <1>2, SnoopFinds DEF AdaptInv
<1>4. PICK b \in Cacheable : b = p.blk
  BY <1>3
<1>5. PICK wire \in BOOLEAN : wire = WireAfterSnoop(m)
  BY DEF WireAfterSnoop, Invalidates, AdaptInv, SharedInv, BaseInv, BaseTypeOK, BusTypeOK
<1>6. p.cmd = "Read" => ~isHit(c, b)
  BY <1>1, <1>2, <1>3, <1>4, SnoopFinds DEF AdaptInv
<1>7. PICK ths \in [Cacheable -> Int] :
        /\ ths = ThresholdsAfterSnoop(m)
        /\ \A x \in Cacheable \ {b} : ths[x] = invalidationThs[x]
        /\ ths[b] - thsAtGrant[b] \in -1..1
        /\ EndedBySnoop(m) = {} => ths[b] = thsAtGrant[b]
  <2>1. thsAtGrant = invalidationThs
    BY <1>2 DEF AdaptInv, NearGrant
  <2> QED  BY <1>3, <1>4, <2>1, SnoopMovesOnce
<1>8. InRun(c, b) => ths[b] = thsAtGrant[b]
  <2> SUFFICES ASSUME InRun(c, b) PROVE EndedBySnoop(m) = {}
    BY <1>7
  <2>1. InState(c, b, {"SharedMod"}) /\ isHit(c, b)
    BY DEF InRun, InState
  <2>2. \A d \in Caches \ {c} : ~InState(d, b, {"Modified", "SharedMod"})
    BY <2>1 DEF AdaptInv, SharedInv, CopiesInv, SingleOwner, InState
  <2>3. \A d \in SnoopHits(m) : d \in Caches \ {c}
    BY <1>2 DEF SnoopHits
  <2> QED  BY <1>3, <1>4, <2>2, <2>3, OneRunEnds
<1>9. PICK runs \in [Caches -> [Sets -> [Ways -> RunLengths]]] :
        /\ runs = RunsAfterSnoop(m) /\ runs[c] = writeRunCounter[c]
        /\ \A d \in Caches, s \in Sets, w \in Ways :
             RunFits(LinesAfterSnoop(m)[d][s][w], runs[d][s][w])
  BY <1>2, <1>3, SnoopedRuns
<1>10. PICK mid : mid = LinesAfterSnoop(m)
  OBVIOUS
<1>11. mid \in [Caches -> {mid[d] : d \in Caches}]
  BY <1>10 DEF LinesAfterSnoop
<1>12. /\ lines' = [mid EXCEPT ![c] = LinesWith(c, b, FilledLine(c, p, p, wire))]
       /\ PlaceBlock(c, b)
  BY <1>2, <1>3, <1>4, <1>5, <1>10 DEF SnoopAndComplete
<1>13. Fill(c, p, wire, RemoteWireAfterSnoop(m), ths, runs, CountersAfterSnoop(m))
  BY <1>2, <1>3, <1>5, <1>7, <1>9
<1>14. \A d \in Caches, s \in Sets, w \in Ways : RunFits(mid[d][s][w], runs[d][s][w])
  BY <1>9, <1>10
<1>15. /\ ths \in [Cacheable -> Int] /\ runs \in [Caches -> [Sets -> [Ways -> RunLengths]]]
       /\ runs[c] = writeRunCounter[c] /\ ths[b] - thsAtGrant[b] \in -1..1
       /\ \A x \in Cacheable \ {b} : ths[x] = invalidationThs[x]
  BY <1>7, <1>9
<1>16. /\ currentGranted = c /\ currentGranted' = NoCache
       /\ p.blk \in Cacheable /\ b = p.blk
  BY <1>2, <1>3, <1>4 DEF SnoopAndComplete, FinishTransaction, Release
<1> HIDE DEF Fill
<1> QED  BY <1>6, <1>8, <1>11, <1>12, <1>13, <1>14, <1>15, <1>16, AdaptFillStep

\* The block from memory ends a transaction.
LEMMA AdaptMemRespStep ==
  ASSUME AdaptInv, NEW m, NEW c \in Caches, handleCoherentMemResp(m, c)
  PROVE  RunsInv' /\ MovesOnce /\ StaysNear
<1>1. MemResp(m, c)
  BY DEF handleCoherentMemResp
<1>2. PICK p \in Packet : p = requestPacket[c] /\ p = cpuPkt[c] /\ p.blk \in Cacheable
  BY <1>1, MemRespEnds DEF AdaptInv
<1>3. PICK b \in Cacheable : b = p.blk
  BY <1>2
<1>4. /\ InCacheableTransaction /\ CurrentPacket = p /\ memReqQueue = <<>>
      /\ currentGranted = c
  BY <1>1, <1>2, MemRespEnds DEF AdaptInv
<1>5. PICK wire \in BOOLEAN : wire = sharedWire
  BY DEF AdaptInv, SharedInv, BaseInv, BaseTypeOK, BusTypeOK
<1>6. ~isHit(c, b) /\ ~InRun(c, b)
  BY <1>3, <1>4 DEF AdaptInv, SharedInv, FlightInv, GrantStillRight, InRun
<1>7. /\ lines' = [lines EXCEPT ![c] = LinesWith(c, b, FilledLine(c, p, m.pkt, wire))]
      /\ PlaceBlock(c, b)
  BY <1>1, <1>2, <1>3, <1>5 DEF MemResp
<1>8. Fill(c, p, wire, remoteAccessWire, invalidationThs, writeRunCounter, invalidCounter)
  BY <1>2, <1>5 DEF handleCoherentMemResp
<1>9. /\ lines \in [Caches -> {lines[d] : d \in Caches}]
      /\ writeRunCounter \in [Caches -> [Sets -> [Ways -> RunLengths]]]
      /\ \A d \in Caches, s \in Sets, w \in Ways : RunFits(lines[d][s][w], writeRunCounter[d][s][w])
      /\ invalidationThs \in [Cacheable -> Int]
      /\ invalidationThs[b] - thsAtGrant[b] \in -1..1
  <2>1. lines \in [Caches -> {lines[d] : d \in Caches}]
    BY DEF AdaptInv, SharedInv, FramesInv, SetsTypeOK
  <2>2. invalidationThs[b] - thsAtGrant[b] \in -1..1
    BY DEF AdaptInv, NearGrant
  <2> QED  BY <2>1, <2>2, RunsFit DEF AdaptInv, RunsTyped, ThresholdsTyped
<1>10. currentGranted' = NoCache
  BY <1>1, <1>4 DEF MemResp, FinishTransaction, Release
<1> QED  BY <1>2, <1>3, <1>4, <1>6, <1>7, <1>8, <1>9, <1>10, AdaptFillStep

LEMMA AdaptInvStep ==
  ASSUME AdaptInv, [Next]_vars
  PROVE  AdaptInv' /\ [MovesOnce]_vars
<1>1. SharedInv'
  BY AdaptStepIsShared, SharedInvStep DEF AdaptInv
<1>2. CASE UNCHANGED vars
  <2>1. UNCHANGED <<lines, writeRunCounter, invalidationThs>>
    BY <1>2 DEF vars, runVars, sharedVars, setVars
  <2>2. RunsInv' /\ StaysNear
    BY <2>1, AdaptQuietStep
  <2> QED  BY <1>1, <1>2, <2>2, NearGrantStep DEF AdaptInv, RunsInv
<1>3. ASSUME NEW c \in Caches, handleCoherentBusGrant(c)
      PROVE  RunsInv' /\ MovesOnce /\ StaysNear
  BY <1>3, AdaptQuietStep DEF handleCoherentBusGrant, BusGrant, setVars
<1>4. ASSUME NEW m, processMemReqEvent(m)
      PROVE  RunsInv' /\ MovesOnce /\ StaysNear
  BY <1>4, AdaptFetchStep, AdaptCompleteStep DEF processMemReqEvent
<1>5. ASSUME BaseStep, UNCHANGED runVars
      PROVE  RunsInv' /\ MovesOnce /\ StaysNear
  BY <1>5, AdaptQuietStep DEF BaseStep, setVars, runVars
<1>6. CASE Next
  <2>1. RunsInv' /\ MovesOnce /\ StaysNear
    BY <1>3, <1>4, <1>5, <1>6, AdaptHitStep, AdaptMemRespStep DEF Next, AdaptStep
  <2> QED  BY <1>1, <2>1, NearGrantStep DEF AdaptInv, RunsInv
<1> QED  BY <1>2, <1>6

\* The runs fit the lines at every instant.
THEOREM AdaptInvariant == Spec => []AdaptInv
<1>1. Init => AdaptInv
  <2> SUFFICES ASSUME Init PROVE AdaptInv
    OBVIOUS
  <2>1. SharedInit /\ SetsInit
    BY DEF Init, SharedInit
  <2>2. SharedInv
    BY <2>1, SharedInvInit
  <2>3. RunsTyped /\ ThresholdsTyped /\ RunMarksOwner
    BY <2>1, AdaptAssumption DEF Init, SetsInit, EmptyFrame, RunsTyped, RunLengths,
       ThresholdsTyped, RunMarksOwner
  <2>4. NearGrant
    BY <2>3 DEF Init, ThresholdsTyped, NearGrant
  <2> QED  BY <2>2, <2>3, <2>4 DEF AdaptInv
<1> QED  BY <1>1, AdaptInvStep, PTL DEF Spec

\* Only the owner of a block is in a run, and a Modified line always is, so the
\* asserts on the run never fail.
THEOREM AdaptRunMarksOwner == Spec => []RunMarksOwner
<1>1. AdaptInv => RunMarksOwner
  BY DEF AdaptInv
<1> QED  BY <1>1, AdaptInvariant, PTL

\* From its grant to its end a transaction moves a threshold at most by one,
\* and once more when it evicts, whatever copies it meets.
THEOREM AdaptThresholdMovesOnce == Spec => ThresholdMovesOnce
<1>1. AdaptInv /\ [Next]_vars => [MovesOnce]_vars
  BY AdaptInvStep
<1> QED  BY <1>1, AdaptInvariant, PTL DEF Spec, ThresholdMovesOnce, MovesOnce

-----------------------------------------------------------------------------
(* The counters.                                                           *)

CountersTyped == invalidCounter \in [Caches -> [Sets -> [Ways -> Int]]]

\* An update of its own copy that a cache has queued it can pay for.
UpdatePaid ==
  InCacheableTransaction /\ memReqQueue # <<>> /\ currBusOp = "BusUpd" =>
    /\ Present(currentGranted, CurrentPacket.blk)
    /\ CounterOf(currentGranted, CurrentPacket.blk) > 0

CountersInv == CountersTyped /\ UpdatePaid

PolicyInv == AdaptInv /\ CountersInv

\* The counter of a present block stands next to its line.
LEMMA OwnCounter ==
  ASSUME PolicyInv, NEW c \in Caches, NEW b \in Cacheable, Present(c, b)
  PROVE  /\ SetOf[b] \in Sets /\ tagMap[c][b] \in Ways /\ WayOf(c, b) = tagMap[c][b]
         /\ CounterOf(c, b) = invalidCounter[c][SetOf[b]][tagMap[c][b]]
         /\ CounterOf(c, b) \in Int
<1>1. SetOf[b] \in Sets /\ tagMap[c][b] \in Ways /\ WayOf(c, b) = tagMap[c][b]
  BY OwnRun DEF PolicyInv
<1>2. CounterOf(c, b) = invalidCounter[c][SetOf[b]][tagMap[c][b]]
  BY <1>1 DEF CounterOf, AtBlock
<1> QED  BY <1>1, <1>2 DEF PolicyInv, CountersInv, CountersTyped

\* A step that leaves the counters and the places of the lines alone, and the
\* transaction under way.
LEMMA CountersKept ==
  ASSUME PolicyInv, UNCHANGED <<invalidCounter, tagMap>>,
         UNCHANGED <<currentGranted, memReqQueue, currBusOp>>,
         currentGranted # NoCache => cpuPkt'[currentGranted] = cpuPkt[currentGranted]
  PROVE  CountersInv'
<1>1. CountersTyped'
  BY DEF PolicyInv, CountersInv, CountersTyped
<1>2. ASSUME InCacheableTransaction', memReqQueue' # <<>>, currBusOp' = "BusUpd"
      PROVE  /\ Present(currentGranted, CurrentPacket.blk)'
             /\ CounterOf(currentGranted, CurrentPacket.blk)' > 0
  <2>1. InCacheableTransaction /\ CurrentPacket' = CurrentPacket
    BY <1>2 DEF InCacheableTransaction, CurrentPacket, isCacheablePacket
  <2>2. /\ Present(currentGranted, CurrentPacket.blk)
        /\ CounterOf(currentGranted, CurrentPacket.blk) > 0
    BY <1>2, <2>1 DEF PolicyInv, CountersInv, UpdatePaid
  <2> QED  BY <2>1, <2>2 DEF Present, CounterOf, AtBlock, WayOf
<1> QED  BY <1>1, <1>2 DEF CountersInv, UpdatePaid

\* A step after which no update is queued.
LEMMA CountersUnqueued ==
  ASSUME CountersTyped', memReqQueue' = <<>> \/ ~InCacheableTransaction'
  PROVE  CountersInv'
  BY DEF CountersInv, UpdatePaid

\* A snoop changes the counter of the block in each cache that has a copy.
LEMMA SnoopedCounters ==
  ASSUME PolicyInv, NEW m, m.pkt.blk \in Cacheable
  PROVE  /\ CountersAfterSnoop(m) \in [Caches -> [Sets -> [Ways -> Int]]]
         /\ \A c \in Caches : c = m.from => CountersAfterSnoop(m)[c] = invalidCounter[c]
         /\ \A d \in Caches, s \in Sets, w \in Ways :
              s # SetOf[m.pkt.blk] \/ w # tagMap[d][m.pkt.blk] =>
                CountersAfterSnoop(m)[d][s][w] = invalidCounter[d][s][w]
<1> DEFINE b == m.pkt.blk
           Restores(st) == st = "SharedMod" \/ (st = "Modified" /\ Updates)
           new == [d \in SnoopHits(m) |->
                     IF Restores(LineOf(d, b).cohState)
                       THEN ThresholdsAfterSnoop(m)[b] ELSE CounterOf(d, b)]
           K == CountersAfterSnoop(m)
<1>1. invalidCounter \in [Caches -> [Sets -> [Ways -> Int]]]
  BY DEF PolicyInv, CountersInv, CountersTyped
<1>2. \A d \in SnoopHits(m) : d \in Caches /\ Present(d, b)
  BY DEF SnoopHits, isHit
<1>3. \A d \in SnoopHits(m) : new[d] \in Int
  <2> TAKE d \in SnoopHits(m)
  <2>1. CounterOf(d, b) \in Int
    BY <1>2, OwnCounter
  <2>2. ThresholdsAfterSnoop(m)[b] \in Int
    BY SnoopMovesOnce DEF PolicyInv
  <2> QED  BY <2>1, <2>2
<1>4. K = [d \in Caches |->
             IF d \in SnoopHits(m)
               THEN [invalidCounter EXCEPT ![d][SetOf[b]][WayOf(d, b)] = new[d]][d]
               ELSE invalidCounter[d]]
  BY DEF CountersAfterSnoop, FieldAfterSnoop, WithField
<1> HIDE DEF K, new
<1>5. \A d \in SnoopHits(m) :
        /\ SetOf[b] \in Sets /\ tagMap[d][b] \in Ways
        /\ K[d] = [invalidCounter[d] EXCEPT ![SetOf[b]][tagMap[d][b]] = new[d]]
  BY <1>1, <1>2, <1>4, OwnCounter
<1>6. \A d \in Caches : d \notin SnoopHits(m) => K[d] = invalidCounter[d]
  BY <1>4
<1>7. ASSUME NEW d \in Caches
      PROVE  /\ K[d] \in [Sets -> [Ways -> Int]]
             /\ \A s \in Sets, w \in Ways :
                  s # SetOf[b] \/ w # tagMap[d][b] => K[d][s][w] = invalidCounter[d][s][w]
  <2>1. PICK f \in [Sets -> [Ways -> Int]] : f = invalidCounter[d]
    BY <1>1
  <2>2. CASE d \in SnoopHits(m)
    <3>1. PICK x \in Sets, y \in Ways : x = SetOf[b] /\ y = tagMap[d][b]
      BY <1>5, <2>2
    <3>2. PICK k \in Int : k = new[d]
      BY <1>3, <2>2
    <3>3. K[d] = [f EXCEPT ![x][y] = k]
      BY <1>5, <2>1, <2>2, <3>1, <3>2
    <3> QED  BY <2>1, <3>1, <3>3
  <2>3. CASE d \notin SnoopHits(m)
    BY <1>6, <2>1, <2>3
  <2> QED  BY <2>2, <2>3
<1>8. K \in [Caches -> [Sets -> [Ways -> Int]]]
  BY <1>4, <1>7
<1>9. \A c \in Caches : c = m.from => K[c] = invalidCounter[c]
  BY <1>6 DEF SnoopHits
<1> QED  BY <1>7, <1>8, <1>9 DEF K

\* The end of a transaction changes the counter of its block.
LEMMA FilledCounters ==
  ASSUME PolicyInv, NEW c \in Caches, NEW b \in Cacheable, NEW k \in Int,
         NEW counters \in [Caches -> [Sets -> [Ways -> Int]]], counters[c] = invalidCounter[c],
         NEW K, K = WithField(counters, c, b, k)
  PROVE  /\ K \in [Caches -> [Sets -> [Ways -> Int]]]
         /\ \A d \in Caches \ {c} : K[d] = counters[d]
         /\ \A s \in Sets, w \in Ways :
              K[c][s][w] = IF s = SetOf[b] /\ w = WayOf(c, b) THEN k ELSE invalidCounter[c][s][w]
<1>1. /\ SetOf[b] \in Sets /\ c \in Caches /\ k \in Int
      /\ counters \in [Caches -> [Sets -> [Ways -> Int]]]
  BY SetOfTyped
<1>2. PICK v : v = WayOf(c, b)
  OBVIOUS
<1>3. K = [counters EXCEPT ![c][SetOf[b]][v] = k]
  BY <1>2 DEF WithField
<1>4. K \in [Caches -> [Sets -> [Ways -> Int]]] /\ \A d \in Caches \ {c} : K[d] = counters[d]
  BY ONLY <1>1, <1>3
<1>5. \A s \in Sets, w \in Ways :
        K[c][s][w] = IF s = SetOf[b] /\ w = v THEN k ELSE invalidCounter[c][s][w]
  BY <1>1, <1>3
<1> QED  BY <1>2, <1>4, <1>5

LEMMA FilledCounterTyped ==
  ASSUME PolicyInv, NEW c \in Caches, NEW p \in Packet, p.blk \in Cacheable,
         NEW wire \in BOOLEAN, NEW remote, NEW ths \in [Cacheable -> Int]
  PROVE  FilledCounter(c, p, wire, remote, ths) \in Int
<1>1. PICK i : i = ThresholdsAfterFill(c, p, wire, remote, ths)[p.blk]
  OBVIOUS
<1>2. i \in Int
  BY <1>1, FillMoves
<1>3. Present(c, p.blk) => CounterOf(c, p.blk) \in Int
  BY OwnCounter
<1> DEFINE renewed == \/ ~Present(c, p.blk)
                      \/ Interrupted(c, p, wire, remote)
                      \/ InRun(c, p.blk) /\ ~wire
<1>4. PICK start \in Int : start = IF renewed THEN i ELSE CounterOf(c, p.blk)
  BY <1>2, <1>3
<1>5. FilledCounter(c, p, wire, remote, ths) =
        IF p.cmd = "Write" /\ wire THEN start - 1 ELSE start
  BY <1>1, <1>4 DEF FilledCounter
<1> QED  BY <1>5

\* How line l and counter k of cache g end its transaction on block x.
EndsWithCounter(g, x, l, k, frames, counters) ==
  /\ k \in Int
  /\ lines' = [frames EXCEPT ![g] = LinesWith(g, x, l)]
  /\ PlaceBlock(g, x)
  /\ invalidCounter' = WithField(counters, g, x, k)
  /\ currentGranted' = NoCache

\* The snoop and the end of a write that needs no memory.
LEMMA AdaptCompletes ==
  ASSUME PolicyInv, NEW m, SnoopAndComplete(m),
         Fill(m.from, requestPacket[m.from], WireAfterSnoop(m), RemoteWireAfterSnoop(m),
              ThresholdsAfterSnoop(m), RunsAfterSnoop(m), CountersAfterSnoop(m)),
         NEW c \in Caches, c = m.from, NEW p \in Packet, p = m.pkt
  PROVE  /\ requestPacket[c] = p /\ p.cmd = "Write" /\ p.blk \in Cacheable
         /\ \E wire, l, k, ths :
              /\ wire \in BOOLEAN /\ wire = WireAfterSnoop(m)
              /\ l = FilledLine(c, p, p, wire)
              /\ k = FilledCounter(c, p, wire, RemoteWireAfterSnoop(m), ths)
              /\ EndsWithCounter(c, p.blk, l, k, LinesAfterSnoop(m), CountersAfterSnoop(m))
<1>1. NextMemReq(m) /\ isCacheablePacket(m.pkt)
  BY DEF SnoopAndComplete
<1>2. /\ requestPacket[c] = p /\ p.cmd = "Write" /\ p.blk \in Cacheable
      /\ currentGranted = c
  BY <1>1, SnoopFinds, SnoopAndCompleteEnds DEF PolicyInv, AdaptInv
<1>3. PICK b \in Cacheable : b = p.blk
  BY <1>2
<1>4. PICK wire \in BOOLEAN : wire = WireAfterSnoop(m)
  BY DEF WireAfterSnoop, Invalidates, PolicyInv, AdaptInv, SharedInv, BaseInv, BaseTypeOK,
     BusTypeOK
<1>5. PICK l : l = FilledLine(c, p, p, wire)
  OBVIOUS
<1>6. PICK ths \in [Cacheable -> Int] : ths = ThresholdsAfterSnoop(m)
  BY <1>2, SnoopMovesOnce DEF PolicyInv
<1>7. PICK k \in Int : k = FilledCounter(c, p, wire, RemoteWireAfterSnoop(m), ths)
  BY <1>2, FilledCounterTyped
<1>8. PICK counters : counters = CountersAfterSnoop(m)
  OBVIOUS
<1>9. /\ lines' = [LinesAfterSnoop(m) EXCEPT ![c] = LinesWith(c, b, l)]
      /\ PlaceBlock(c, b) /\ currentGranted' = NoCache
      /\ invalidCounter' = WithField(counters, c, b, k)
  <2>1. /\ lines' = [LinesAfterSnoop(m) EXCEPT ![c] = LinesWith(c, b, l)]
        /\ PlaceBlock(c, b) /\ FinishTransaction(c, p, FALSE)
    BY <1>2, <1>3, <1>4, <1>5 DEF SnoopAndComplete
  <2>2. invalidCounter' = WithField(counters, c, b, k)
    BY <1>2, <1>3, <1>4, <1>6, <1>7, <1>8 DEF Fill
  <2> QED  BY <1>2, <2>1, <2>2 DEF FinishTransaction, Release
<1> QED  BY <1>2, <1>3, <1>4, <1>5, <1>6, <1>7, <1>8, <1>9 DEF EndsWithCounter

\* The block from memory ends a transaction.
LEMMA AdaptRefills ==
  ASSUME PolicyInv, NEW m, NEW c \in Caches, handleCoherentMemResp(m, c)
  PROVE  /\ memReqQueue = <<>> /\ requestPacket[c].blk \in Cacheable
         /\ ~isHit(c, requestPacket[c].blk)
         /\ \E l, k : EndsWithCounter(c, requestPacket[c].blk, l, k, lines, invalidCounter)
<1>1. MemResp(m, c)
  BY DEF handleCoherentMemResp
<1>2. PICK p \in Packet : p = requestPacket[c] /\ p = cpuPkt[c] /\ p.blk \in Cacheable
  BY <1>1, MemRespEnds DEF PolicyInv, AdaptInv
<1>3. PICK b \in Cacheable : b = p.blk
  BY <1>2
<1>4. /\ InCacheableTransaction /\ CurrentPacket = p /\ memReqQueue = <<>>
      /\ currentGranted = c
  BY <1>1, <1>2, MemRespEnds DEF PolicyInv, AdaptInv
<1>5. PICK wire \in BOOLEAN : wire = sharedWire
  BY DEF PolicyInv, AdaptInv, SharedInv, BaseInv, BaseTypeOK, BusTypeOK
<1>6. PICK l : l = FilledLine(c, p, m.pkt, wire)
  OBVIOUS
<1>7. invalidationThs \in [Cacheable -> Int]
  BY DEF PolicyInv, AdaptInv, ThresholdsTyped
<1>8. PICK k \in Int : k = FilledCounter(c, p, wire, remoteAccessWire, invalidationThs)
  BY <1>2, <1>7, FilledCounterTyped
<1>9. /\ lines' = [lines EXCEPT ![c] = LinesWith(c, b, l)]
      /\ PlaceBlock(c, b) /\ currentGranted' = NoCache
      /\ invalidCounter' = WithField(invalidCounter, c, b, k)
  <2>1. /\ lines' = [lines EXCEPT ![c] = LinesWith(c, b, l)]
        /\ PlaceBlock(c, b) /\ currentGranted' = NoCache
    BY <1>1, <1>2, <1>3, <1>4, <1>5, <1>6 DEF MemResp, FinishTransaction, Release
  <2>2. invalidCounter' = WithField(invalidCounter, c, b, k)
    BY <1>2, <1>3, <1>5, <1>8 DEF handleCoherentMemResp, Fill
  <2> QED  BY <2>1, <2>2
<1>10. ~isHit(c, b)
  BY <1>3, <1>4 DEF PolicyInv, AdaptInv, SharedInv, FlightInv, GrantStillRight
<1> QED  BY <1>2, <1>3, <1>4, <1>9, <1>10 DEF EndsWithCounter

\* Either end leaves no update queued.
LEMMA AdaptEndStep ==
  ASSUME PolicyInv, NEW c \in Caches, NEW b \in Cacheable, NEW l, NEW k, NEW frames,
         NEW counters \in [Caches -> [Sets -> [Ways -> Int]]], counters[c] = invalidCounter[c],
         EndsWithCounter(c, b, l, k, frames, counters)
  PROVE  CountersInv'
<1>1. k \in Int /\ invalidCounter' = WithField(counters, c, b, k) /\ currentGranted' = NoCache
  BY DEF EndsWithCounter
<1>2. invalidCounter' \in [Caches -> [Sets -> [Ways -> Int]]]
  BY <1>1, FilledCounters
<1> QED  BY <1>1, <1>2, CountersUnqueued DEF CountersTyped, InCacheableTransaction

\* A grant queues an update of the cache's own copy only if one is left.
LEMMA AdaptGrantStep ==
  ASSUME PolicyInv, NEW c \in Caches, handleCoherentBusGrant(c)
  PROVE  CountersInv'
<1>1. currentGranted' = c /\ requestPacket[c] = cpuPkt[c] /\ cpuPkt[c] \in Packet
  BY GrantFinds DEF PolicyInv, AdaptInv, SharedInv, GrantNext, handleCoherentBusGrant, BusGrant
<1>2. PICK p \in Packet : p = cpuPkt[c]
  BY <1>1
<1>3. /\ currBusOp' = BusOp(c, p) /\ cpuPkt' = cpuPkt /\ p.blk \in Cacheable
      /\ UNCHANGED <<lines, tagMap, invalidCounter>>
  BY <1>1, <1>2 DEF handleCoherentBusGrant, BusGrant, sendMemReq, setVars, cpuSideVars,
     isCacheablePacket
<1>4. CurrentPacket' = p
  BY <1>1, <1>2, <1>3 DEF CurrentPacket
<1>5. BusOp(c, p) = "BusUpd" => Present(c, p.blk) /\ CounterOf(c, p.blk) > 0
  BY DEF BusOp, isHit
<1>6. UpdatePaid'
  BY <1>1, <1>3, <1>4, <1>5 DEF UpdatePaid, CounterOf, AtBlock, WayOf, Present
<1> QED  BY <1>3, <1>6 DEF PolicyInv, CountersInv, CountersTyped

\* The steps in which no line of a cache changes.
LEMMA AdaptBaseStep ==
  ASSUME PolicyInv, BaseStep, UNCHANGED runVars
  PROVE  CountersInv'
<1> USE DEF PolicyInv, AdaptInv
<1>1. UNCHANGED <<invalidCounter, tagMap>> /\ CountersTyped'
  BY DEF BaseStep, setVars, runVars, CountersInv, CountersTyped
<1>2. ASSUME UNCHANGED <<currentGranted, memReqQueue, currBusOp>>,
             currentGranted # NoCache => cpuPkt'[currentGranted] = cpuPkt[currentGranted]
      PROVE  CountersInv'
  BY <1>1, <1>2, CountersKept
<1>3. ASSUME memReqQueue' = <<>> \/ ~InCacheableTransaction' PROVE CountersInv'
  BY <1>1, <1>3, CountersUnqueued
<1>4. ASSUME NEW c \in Caches, NEW p \in CpuPackets, UncachedRequest(c, p)
      PROVE  CountersInv'
  <2>1. /\ UNCHANGED <<currentGranted, memReqQueue, currBusOp>>
        /\ \A d \in Caches \ {c} : cpuPkt'[d] = cpuPkt[d]
        /\ ~blocked[c]
    BY <1>4 DEF UncachedRequest, WaitForBus, Request, AcceptFromCpu, SharedInv, BaseInv,
       BaseTypeOK
  <2>2. currentGranted # NoCache => cpuPkt'[currentGranted] = cpuPkt[currentGranted]
    BY <2>1 DEF SharedInv, BaseInv, BlockedAccounted, BaseTypeOK, BusTypeOK
  <2> QED  BY <1>2, <2>1, <2>2
<1>5. ASSUME NEW c \in Caches, UncachedGrant(c) PROVE CountersInv'
  <2>1. ~InCacheableTransaction'
    BY <1>5, GrantFinds DEF SharedInv, GrantNext, UncachedGrant, InCacheableTransaction,
       CurrentPacket, isCacheablePacket
  <2> QED  BY <1>3, <2>1
<1>6. ASSUME IdleGrant PROVE CountersInv'
  BY <1>3, <1>6 DEF IdleGrant, GrantNobody, InCacheableTransaction
<1>7. ASSUME NEW m, UncachedForward(m) PROVE CountersInv'
  <2>1. memReqQueue' = <<>>
    BY <1>7, QueuedFacts DEF UncachedForward, SharedInv
  <2> QED  BY <1>3, <2>1
<1>8. ASSUME MemorySide PROVE CountersInv'
  BY <1>2, <1>8 DEF MemorySide, RecvReqRetry, MemAccess, cpuSideVars, arbiterVars
<1>9. ASSUME NEW m \in inMemory, NEW c \in Caches, UncachedResponse(m, c)
      PROVE  CountersInv'
  BY <1>3, <1>9, AnsweredFacts DEF UncachedResponse, Release, SharedInv,
     InCacheableTransaction
<1>10. ASSUME NEW c \in Caches, ProcessCpuResp(c) PROVE CountersInv'
  <2>1. /\ UNCHANGED <<currentGranted, memReqQueue, currBusOp>>
        /\ \A d \in Caches \ {c} : cpuPkt'[d] = cpuPkt[d]
        /\ cpuRespQueue[c] # <<>>
    BY <1>10 DEF ProcessCpuResp, busVars, arbiterVars, SharedInv, BaseInv, BaseTypeOK
  <2>2. currentGranted # NoCache => cpuPkt'[currentGranted] = cpuPkt[currentGranted]
    BY <2>1, AccessFacts DEF SharedInv, BaseInv, BaseTypeOK, BusTypeOK
  <2> QED  BY <1>2, <2>1, <2>2
<1> QED  BY <1>4, <1>5, <1>6, <1>7, <1>8, <1>9, <1>10 DEF BaseStep

LEMMA CountersInvStep ==
  ASSUME PolicyInv, [Next]_vars
  PROVE  CountersInv'
<1>1. ASSUME NEW c \in Caches, NEW p \in CpuPackets, handleCoherentCpuReq(c, p)
      PROVE  CountersInv'
  <2>1. /\ UNCHANGED <<invalidCounter, tagMap, currentGranted, memReqQueue, currBusOp>>
        /\ \A d \in Caches \ {c} : cpuPkt'[d] = cpuPkt[d]
        /\ ~blocked[c]
    BY <1>1 DEF handleCoherentCpuReq, ReadHit, WriteHit, BusRequest, AnswerAtOnce, WaitForBus,
       Request, AcceptFromCpu, busVars, arbiterVars, setVars, runVars, PolicyInv, AdaptInv,
       SharedInv, BaseInv, BaseTypeOK
  <2>2. currentGranted # NoCache => cpuPkt'[currentGranted] = cpuPkt[currentGranted]
    BY <2>1 DEF PolicyInv, AdaptInv, SharedInv, BaseInv, BlockedAccounted, BaseTypeOK, BusTypeOK
  <2> QED  BY <2>1, <2>2, CountersKept
<1>2. ASSUME NEW m, SnoopAndFetch(m), invalidCounter' = CountersAfterSnoop(m)
      PROVE  CountersInv'
  <2>1. NextMemReq(m) /\ isCacheablePacket(m.pkt)
    BY <1>2 DEF SnoopAndFetch
  <2>2. memReqQueue' = <<>> /\ m.pkt.blk \in Cacheable
    BY <2>1, SnoopFinds DEF PolicyInv, AdaptInv
  <2> QED  BY <1>2, <2>2, SnoopedCounters, CountersUnqueued DEF CountersTyped
<1>3. ASSUME NEW m, SnoopAndComplete(m),
             Fill(m.from, requestPacket[m.from], WireAfterSnoop(m), RemoteWireAfterSnoop(m),
                  ThresholdsAfterSnoop(m), RunsAfterSnoop(m), CountersAfterSnoop(m))
      PROVE  CountersInv'
  <2>1. NextMemReq(m) /\ isCacheablePacket(m.pkt)
    BY <1>3 DEF SnoopAndComplete
  <2>2. PICK c \in Caches, p \in Packet : c = m.from /\ p = m.pkt
    BY <2>1, SnoopFinds DEF PolicyInv, AdaptInv
  <2>3. PICK b, l, k :
          /\ b \in Cacheable /\ b = p.blk
          /\ EndsWithCounter(c, b, l, k, LinesAfterSnoop(m), CountersAfterSnoop(m))
    BY <1>3, <2>2, AdaptCompletes
  <2>4. /\ CountersAfterSnoop(m) \in [Caches -> [Sets -> [Ways -> Int]]]
        /\ CountersAfterSnoop(m)[c] = invalidCounter[c]
    BY <2>2, <2>3, SnoopedCounters
  <2> QED  BY <2>3, <2>4, AdaptEndStep
<1>4. ASSUME NEW m, NEW c \in Caches, handleCoherentMemResp(m, c)
      PROVE  CountersInv'
  <2>1. PICK b, l, k :
          b \in Cacheable /\ EndsWithCounter(c, b, l, k, lines, invalidCounter)
    BY <1>4, AdaptRefills
  <2>2. invalidCounter \in [Caches -> [Sets -> [Ways -> Int]]]
    BY DEF PolicyInv, CountersInv, CountersTyped
  <2> QED  BY <2>1, <2>2, AdaptEndStep
<1>5. CASE UNCHANGED vars
  BY <1>5, CountersKept DEF vars, runVars, sharedVars, setVars, busVars, arbiterVars, cpuSideVars
<1> QED  BY <1>1, <1>2, <1>3, <1>4, <1>5, AdaptGrantStep, AdaptBaseStep
         DEF Next, AdaptStep, processMemReqEvent

\* The counters are numbers, and an update that is queued was allowed by one.
LEMMA PolicyInvariant == Spec => []PolicyInv
<1>1. Init => CountersInv
  BY AdaptAssumption DEF Init, RunsInit, CountersInv, CountersTyped, UpdatePaid, SharedInit,
     BaseInit, BusInit
<1>2. AdaptInv /\ CountersInv /\ [Next]_vars => CountersInv'
  BY CountersInvStep DEF PolicyInv
<1> QED  BY <1>1, <1>2, AdaptInvariant, PTL DEF Spec, PolicyInv

-----------------------------------------------------------------------------
(* What a run of updates costs.                                            *)

\* The wire reports a read of one of the copies that were snooped.
LEMMA WireReportsRead ==
  ASSUME NEW m, SnoopHits(m) # {}, RemoteWireAfterSnoop(m)
  PROVE  \E d \in Caches \ {m.from} :
           isHit(d, m.pkt.blk) /\ AtBlock(accessSinceUpd, d, m.pkt.blk)
<1>1. PICK last : /\ last = CHOOSE d \in SnoopHits(m) : \A e \in SnoopHits(m) : e <= d
                  /\ RemoteWireAfterSnoop(m) = AtBlock(accessSinceUpd, last, m.pkt.blk)
  BY DEF RemoteWireAfterSnoop
<1>2. last \in SnoopHits(m)
  BY <1>1, LastSnooped, RunsAssumption
<1>3. AtBlock(accessSinceUpd, last, m.pkt.blk)
  BY <1>1
<1> QED  BY <1>2, <1>3 DEF SnoopHits

\* The step that UpdatesRunDown allows a line that stays in a run.
RunsDown(c, b) ==
  LET k == CounterOf(c, b) IN
    IF SendsUpdate(c, b)
      THEN k > 0 /\ (k' = k - 1 \/ ReadElsewhere(c, b))
      ELSE \/ k' = k
           \/ currentGranted \notin {c, NoCache} /\ CurrentPacket.blk = b

\* A line that stays in a run is found in its frame before and after.
LEMMA RunInPlace ==
  ASSUME PolicyInv, NEW c \in Caches, NEW b \in Cacheable, InRun(c, b), InRun(c, b)'
  PROVE  /\ Present(c, b) /\ Present(c, b)' /\ isHit(c, b)
         /\ SetOf[b] \in Sets /\ tagMap[c][b] \in Ways
         /\ CounterOf(c, b) = invalidCounter[c][SetOf[b]][tagMap[c][b]]
         /\ CounterOf(c, b)' = invalidCounter'[c][SetOf[b]][tagMap'[c][b]]
<1>1. Present(c, b) /\ Present(c, b)' /\ isHit(c, b)
  BY DEF InRun, isHit
<1>2. CounterOf(c, b)' = invalidCounter'[c][SetOf[b]][tagMap'[c][b]]
  BY <1>1 DEF CounterOf, AtBlock, WayOf
<1> QED  BY <1>1, <1>2, OwnCounter

\* A step that leaves all counters and frames alone, and sends no update.
LEMMA RunUntouched ==
  ASSUME PolicyInv, NEW c \in Caches, NEW b \in Cacheable, InRun(c, b), InRun(c, b)',
         UNCHANGED <<invalidCounter, tagMap>>, ~SendsUpdate(c, b)
  PROVE  RunsDown(c, b)
  BY RunInPlace DEF RunsDown

\* A transaction of another block or another cache passes a line's snoop.
LEMMA RunSnooped ==
  ASSUME PolicyInv, NEW m, NextMemReq(m), isCacheablePacket(m.pkt),
         NEW c \in Caches, NEW b \in Cacheable, Present(c, b)
  PROVE  \/ m.from # c /\ m.pkt.blk = b /\ currentGranted \notin {c, NoCache}
              /\ CurrentPacket.blk = b /\ ~SendsUpdate(c, b)
         \/ CountersAfterSnoop(m)[c][SetOf[b]][tagMap[c][b]] =
              invalidCounter[c][SetOf[b]][tagMap[c][b]]
<1>1. /\ m.pkt.blk \in Cacheable /\ m.from \in Caches
      /\ currentGranted = m.from /\ CurrentPacket = m.pkt
  BY SnoopFinds DEF PolicyInv, AdaptInv
<1>2. SetOf[b] \in Sets /\ tagMap[c][b] \in Ways
  BY OwnCounter
<1>3. CASE m.from = c
  BY <1>1, <1>3, SnoopedCounters
<1>4. CASE m.from # c /\ m.pkt.blk = b
  BY <1>1, <1>4, NobodyIsNoCache DEF SendsUpdate
<1>5. CASE m.pkt.blk # b
  <2>1. PICK x \in Cacheable : x = m.pkt.blk
    BY <1>1
  <2>2. SetOf[b] # SetOf[x] \/ tagMap[c][b] # tagMap[c][x]
    <3>1. CASE Present(c, x)
      BY <1>5, <2>1, <3>1, FramesApart DEF PolicyInv, AdaptInv, SharedInv
    <3>2. CASE ~Present(c, x)
      BY <1>2, <3>2 DEF Present, NotExist, Ways
    <3> QED  BY <3>1, <3>2
  <2> QED  BY <1>1, <1>2, <2>1, <2>2, SnoopedCounters
<1> QED  BY <1>3, <1>4, <1>5


\* A transaction ends at another cache, or at the run's for another block.
LEMMA RunPassedBy ==
  ASSUME PolicyInv, PolicyInv', NEW g \in Caches, NEW x \in Cacheable, PlaceBlock(g, x),
         NEW k \in Int,
         NEW counters \in [Caches -> [Sets -> [Ways -> Int]]], counters[g] = invalidCounter[g],
         invalidCounter' = WithField(counters, g, x, k),
         NEW c \in Caches, NEW b \in Cacheable, InRun(c, b), InRun(c, b)', c # g \/ b # x
  PROVE  /\ CounterOf(c, b) = invalidCounter[c][SetOf[b]][tagMap[c][b]]
         /\ CounterOf(c, b)' = counters[c][SetOf[b]][tagMap[c][b]]
<1>1. /\ Present(c, b) /\ Present(c, b)'
      /\ SetOf[b] \in Sets /\ tagMap[c][b] \in Ways
      /\ CounterOf(c, b) = invalidCounter[c][SetOf[b]][tagMap[c][b]]
      /\ CounterOf(c, b)' = invalidCounter'[c][SetOf[b]][tagMap'[c][b]]
  BY RunInPlace
<1>2. /\ tagMap'[c][b] = tagMap[c][b]
      /\ c = g /\ b # x /\ SetOf[b] = SetOf[x] =>
           tagMap[c][b] # IF Present(g, x) THEN tagMap[g][x] ELSE FreeWay(g, x)
  BY <1>1, PlacesKept DEF PolicyInv, AdaptInv, SharedInv
<1>3. CASE c # g
  <2>1. invalidCounter'[c] = counters[c]
    BY <1>3, FilledCounters
  <2> QED  BY <1>1, <1>2, <2>1
<1>4. CASE c = g
  <2>1. SetOf[b] # SetOf[x] \/ tagMap[c][b] # WayOf(g, x)
    BY <1>2, <1>4 DEF WayOf
  <2>2. \A s \in Sets, w \in Ways :
          invalidCounter'[g][s][w] = IF s = SetOf[x] /\ w = WayOf(g, x)
                                       THEN k ELSE invalidCounter[g][s][w]
    BY FilledCounters
  <2> QED  BY <1>1, <1>2, <1>4, <2>1, <2>2
<1> QED  BY <1>3, <1>4

\* The writer's own update of a line that stays in a run.
LEMMA RunPays ==
  ASSUME PolicyInv, NEW m, SnoopAndComplete(m),
         Fill(m.from, requestPacket[m.from], WireAfterSnoop(m), RemoteWireAfterSnoop(m),
              ThresholdsAfterSnoop(m), RunsAfterSnoop(m), CountersAfterSnoop(m)),
         NEW c \in Caches, NEW b \in Cacheable, InRun(c, b), InRun(c, b)',
         c = m.from, b = m.pkt.blk
  PROVE  RunsDown(c, b)
<1>1. NextMemReq(m) /\ isCacheablePacket(m.pkt)
  BY DEF SnoopAndComplete
<1>2. /\ m.pkt \in Packet /\ currentGranted = c /\ CurrentPacket = m.pkt
      /\ memReqQueue # <<>> /\ memReqQueue' = <<>> /\ ~sharedWire
      /\ currBusOp \in Ops(c, m.pkt)
  BY <1>1, SnoopFinds DEF PolicyInv, AdaptInv, NextMemReq
<1>3. PICK p \in Packet : p = m.pkt /\ b = p.blk
  BY <1>2
<1>4. PICK wire, l, k, ths :
        /\ wire \in BOOLEAN /\ wire = WireAfterSnoop(m)
        /\ l = FilledLine(c, p, p, wire)
        /\ k = FilledCounter(c, p, wire, RemoteWireAfterSnoop(m), ths)
        /\ EndsWithCounter(c, b, l, k, LinesAfterSnoop(m), CountersAfterSnoop(m))
  BY <1>3, AdaptCompletes
<1>5. p.cmd = "Write"
  BY <1>3, AdaptCompletes
<1>6. /\ Present(c, b) /\ isHit(c, b) /\ SetOf[b] \in Sets /\ tagMap[c][b] \in Ways
      /\ WayOf(c, b) = tagMap[c][b] /\ tagMap' = tagMap
  BY <1>4, RunInPlace, OwnCounter DEF EndsWithCounter, PlaceBlock
<1>7. wire
  <2>1. LineOf(c, b)' = l
    <3>1. lines'[c] = LinesWith(c, b, l)
      BY <1>4 DEF EndsWithCounter, LinesAfterSnoop
    <3> QED  BY <1>6, <3>1, FilledFrames DEF LineOf, PolicyInv, AdaptInv, SharedInv
  <2>2. l.cohState = "SharedMod"
    BY <2>1 DEF InRun
  <2>3. OldLine(c, b) \in Frame(CoherenceStates)
    BY OldLineFacts DEF PolicyInv, AdaptInv, SharedInv, FramesInv
  <2> QED  BY <1>3, <1>4, <1>5, <2>2, <2>3 DEF FilledLine, WrittenLine, Frame
<1>8. SnoopHits(m) # {} /\ currBusOp = "BusUpd" /\ Updates
  <2>1. SnoopHits(m) # {} /\ ~Invalidates
    BY <1>2, <1>4, <1>7 DEF WireAfterSnoop
  <2> QED  BY <1>2, <1>3, <1>6, <2>1 DEF Ops, Invalidates, Updates, hasBusUpd
<1>9. SendsUpdate(c, b)
  BY <1>2, <1>3, <1>8 DEF SendsUpdate
<1>10. CounterOf(c, b) > 0
  BY <1>1, <1>2, <1>3, <1>8, SnoopFinds DEF PolicyInv, AdaptInv, CountersInv, UpdatePaid
<1>11. CounterOf(c, b)' = k
  <2>1. /\ CountersAfterSnoop(m) \in [Caches -> [Sets -> [Ways -> Int]]]
        /\ CountersAfterSnoop(m)[c] = invalidCounter[c]
    BY <1>1, SnoopedCounters DEF isCacheablePacket
  <2>2. k \in Int /\ invalidCounter' = WithField(CountersAfterSnoop(m), c, b, k)
    BY <1>4 DEF EndsWithCounter
  <2>3. \A s \in Sets, w \in Ways :
          invalidCounter'[c][s][w] = IF s = SetOf[b] /\ w = WayOf(c, b)
                                       THEN k ELSE invalidCounter[c][s][w]
    BY <2>1, <2>2, FilledCounters
  <2> QED  BY <1>6, <2>3, RunInPlace
<1>12. k = CounterOf(c, b) - 1 \/ ReadElsewhere(c, b)
  <2>1. CASE RemoteWireAfterSnoop(m)
    BY <1>3, <1>8, <2>1, WireReportsRead DEF ReadElsewhere
  <2>2. CASE ~RemoteWireAfterSnoop(m)
    BY <1>3, <1>4, <1>5, <1>6, <1>7, <2>2 DEF FilledCounter, Interrupted
  <2> QED  BY <2>1, <2>2
<1> QED  BY <1>9, <1>10, <1>11, <1>12 DEF RunsDown

\* A transaction that neither is of the line's cache on its block.
LEMMA RunOfAnother ==
  ASSUME PolicyInv, PolicyInv', NEW m, SnoopAndComplete(m),
         Fill(m.from, requestPacket[m.from], WireAfterSnoop(m), RemoteWireAfterSnoop(m),
              ThresholdsAfterSnoop(m), RunsAfterSnoop(m), CountersAfterSnoop(m)),
         NEW c \in Caches, NEW b \in Cacheable, InRun(c, b), InRun(c, b)',
         c # m.from \/ b # m.pkt.blk
  PROVE  RunsDown(c, b)
<1>1. NextMemReq(m) /\ isCacheablePacket(m.pkt)
  BY DEF SnoopAndComplete
<1>2. PICK g \in Caches, p \in Packet : g = m.from /\ p = m.pkt
  BY <1>1, SnoopFinds DEF PolicyInv, AdaptInv
<1>3. PICK x, l, k :
        /\ x \in Cacheable /\ x = p.blk
        /\ EndsWithCounter(g, x, l, k, LinesAfterSnoop(m), CountersAfterSnoop(m))
  BY <1>2, AdaptCompletes
<1>4. currentGranted = g /\ CurrentPacket = p
  BY <1>1, <1>2, SnoopFinds DEF PolicyInv, AdaptInv
<1>5. ~SendsUpdate(c, b)
  BY <1>2, <1>4 DEF SendsUpdate
<1>6. /\ CountersAfterSnoop(m) \in [Caches -> [Sets -> [Ways -> Int]]]
      /\ CountersAfterSnoop(m)[g] = invalidCounter[g]
  BY <1>2, <1>3, SnoopedCounters
<1>7. /\ CounterOf(c, b) = invalidCounter[c][SetOf[b]][tagMap[c][b]]
      /\ CounterOf(c, b)' = CountersAfterSnoop(m)[c][SetOf[b]][tagMap[c][b]]
  <2>1. c # g \/ b # x
    BY <1>2, <1>3
  <2>2. PICK counters : counters = CountersAfterSnoop(m)
    OBVIOUS
  <2>3. /\ x \in Cacheable /\ PlaceBlock(g, x) /\ k \in Int
        /\ invalidCounter' = WithField(counters, g, x, k)
    BY <1>3, <2>2 DEF EndsWithCounter
  <2> QED  BY <1>6, <2>1, <2>2, <2>3, RunPassedBy
<1>8. Present(c, b)
  BY DEF InRun, isHit
<1> QED  BY <1>1, <1>5, <1>7, <1>8, RunSnooped DEF RunsDown

\* Every step lets a run of updates down as UpdatesRunDown says.
LEMMA AdaptRunStep ==
  ASSUME PolicyInv, PolicyInv', Next, NEW c \in Caches, NEW b \in Cacheable,
         InRun(c, b), InRun(c, b)'
  PROVE  RunsDown(c, b)
<1>1. ASSUME NEW d \in Caches, NEW p \in CpuPackets, handleCoherentCpuReq(d, p)
      PROVE  RunsDown(c, b)
  <2>1. UNCHANGED <<invalidCounter, tagMap, memReqQueue>>
    BY <1>1 DEF handleCoherentCpuReq, ReadHit, WriteHit, BusRequest, AnswerAtOnce,
       WaitForBus, busVars, setVars, runVars
  <2> QED  BY <2>1, RunUntouched DEF SendsUpdate
<1>2. ASSUME NEW d \in Caches, handleCoherentBusGrant(d)
      PROVE  RunsDown(c, b)
  <2>1. memReqQueue = <<>> /\ UNCHANGED <<invalidCounter, tagMap>>
    BY <1>2, GrantFinds DEF PolicyInv, AdaptInv, SharedInv, Idle, GrantNext, handleCoherentBusGrant,
       BusGrant, setVars
  <2> QED  BY <2>1, RunUntouched DEF SendsUpdate
<1>3. ASSUME NEW m, SnoopAndFetch(m), invalidCounter' = CountersAfterSnoop(m)
      PROVE  RunsDown(c, b)
  <2>1. NextMemReq(m) /\ isCacheablePacket(m.pkt) /\ m.toMem /\ tagMap' = tagMap
    BY <1>3 DEF SnoopAndFetch
  <2>2. ~SendsUpdate(c, b)
    <3>1. /\ m.toMem = NeedsMemory(m.from, m.pkt)
          /\ currentGranted = m.from /\ CurrentPacket = m.pkt
      BY <2>1, SnoopFinds DEF PolicyInv, AdaptInv
    <3> QED  BY <2>1, <3>1, RunInPlace DEF NeedsMemory, SendsUpdate
  <2> QED  BY <1>3, <2>1, <2>2, RunSnooped, RunInPlace DEF RunsDown
<1>4. ASSUME NEW m, SnoopAndComplete(m),
             Fill(m.from, requestPacket[m.from], WireAfterSnoop(m), RemoteWireAfterSnoop(m),
                  ThresholdsAfterSnoop(m), RunsAfterSnoop(m), CountersAfterSnoop(m))
      PROVE  RunsDown(c, b)
  BY <1>4, RunPays, RunOfAnother
<1>5. ASSUME NEW m, NEW g \in Caches, handleCoherentMemResp(m, g)
      PROVE  RunsDown(c, b)
  <2>1. PICK x, l, k :
          /\ x \in Cacheable /\ ~isHit(g, x)
          /\ EndsWithCounter(g, x, l, k, lines, invalidCounter)
          /\ memReqQueue = <<>>
    BY <1>5, AdaptRefills
  <2>2. c # g \/ b # x
    BY <2>1, RunInPlace
  <2>3. invalidCounter \in [Caches -> [Sets -> [Ways -> Int]]]
    BY DEF PolicyInv, CountersInv, CountersTyped
  <2>4. PICK counters : counters = invalidCounter
    OBVIOUS
  <2>5. /\ x \in Cacheable /\ PlaceBlock(g, x) /\ k \in Int
        /\ invalidCounter' = WithField(counters, g, x, k)
    BY <2>1, <2>4 DEF EndsWithCounter
  <2>6. /\ counters \in [Caches -> [Sets -> [Ways -> Int]]]
        /\ counters[g] = invalidCounter[g]
    BY <2>3, <2>4
  <2>7. /\ CounterOf(c, b) = invalidCounter[c][SetOf[b]][tagMap[c][b]]
        /\ CounterOf(c, b)' = counters[c][SetOf[b]][tagMap[c][b]]
    BY <2>2, <2>5, <2>6, RunPassedBy
  <2> QED  BY <2>1, <2>4, <2>7 DEF RunsDown, SendsUpdate
<1>6. ASSUME BaseStep, UNCHANGED runVars PROVE RunsDown(c, b)
  <2>1. UNCHANGED <<invalidCounter, tagMap>>
    BY <1>6 DEF BaseStep, setVars, runVars
  <2>2. ASSUME SendsUpdate(c, b) PROVE FALSE
    <3>1. isCacheablePacket(CurrentPacket) /\ memReqQueue' # memReqQueue
          /\ memReqQueue # <<>> /\ memReqQueue' = <<>>
      BY <2>2 DEF SendsUpdate, isCacheablePacket
    <3>2. ASSUME NEW m, UncachedForward(m) PROVE FALSE
      BY <3>1, <3>2, QueuedFacts DEF UncachedForward, PolicyInv, AdaptInv, SharedInv, CurrentPacket,
         isCacheablePacket
    <3>3. ASSUME NEW d \in Caches, UncachedGrant(d) PROVE FALSE
      BY <3>1, <3>3, GrantFinds DEF UncachedGrant, PolicyInv, AdaptInv, SharedInv, Idle, GrantNext
    <3>4. \/ UNCHANGED memReqQueue
          \/ \E d \in Caches : UncachedGrant(d)
          \/ \E m : UncachedForward(m)
      BY <1>6 DEF BaseStep, UncachedRequest, WaitForBus, IdleGrant, MemorySide, RecvReqRetry,
         MemAccess, UncachedResponse, ProcessCpuResp, busVars
    <3> QED  BY <3>1, <3>2, <3>3, <3>4
  <2> QED  BY <2>1, <2>2, RunUntouched
<1> QED  BY <1>1, <1>2, <1>3, <1>4, <1>5, <1>6 DEF Next, AdaptStep, processMemReqEvent

\* Every update a writer sends while it goes on sharing its line costs one of
\* those it has left, unless a copy was read since the last; nothing else of
\* its own changes what is left, whatever becomes of the threshold meanwhile.
THEOREM AdaptUpdatesRunDown == Spec => UpdatesRunDown
<1>1. ASSUME PolicyInv, PolicyInv', [Next]_vars
      PROVE  [\A c \in Caches, b \in Cacheable :
                InRun(c, b) /\ InRun(c, b)' => RunsDown(c, b)]_<<sharedVars, invalidCounter>>
  <2>1. CASE Next
    BY <1>1, <2>1, AdaptRunStep
  <2>2. CASE UNCHANGED vars
    BY <2>2 DEF vars, runVars
  <2> QED  BY <1>1, <2>1, <2>2
<1>2. ASSUME PolicyInv, PolicyInv', [Next]_vars
      PROVE  [\A c \in Caches, b \in Cacheable :
                InRun(c, b) /\ InRun(c, b)' =>
                  LET k == AtBlock(invalidCounter, c, b) IN
                    IF SendsUpdate(c, b)
                      THEN k > 0 /\ (k' = k - 1 \/ ReadElsewhere(c, b))
                      ELSE \/ k' = k
                           \/ currentGranted \notin {c, NoCache} /\ CurrentPacket.blk = b
             ]_<<sharedVars, invalidCounter>>
  BY <1>1, <1>2 DEF RunsDown, CounterOf
<1> QED  BY <1>2, PolicyInvariant, PTL DEF Spec, UpdatesRunDown

=============================================================================
