------------------------------ MODULE AdaptCache ------------------------------
(***************************************************************************)
(* A system of adaptive write-back caches on the serializing bus           *)
(* (src/cc/src/adapt_cache.cc).  As in the hybrid cache a counter at the   *)
(* writer decides between updating and invalidating, but it starts from a  *)
(* threshold the bus keeps for every block, which moves by one whenever a  *)
(* run of writes ends: up after a short run, down after a long one.        *)
(***************************************************************************)
EXTENDS UpdateRuns

CONSTANTS
  InvalidThreshold,            \* the initial threshold of every block
  InvalidationRatio,           \* the length from which a run is long
  MinThreshold, MaxThreshold   \* bounds: no access is issued beyond them

ASSUME AdaptAssumption ==
  /\ InvalidThreshold \in Int /\ InvalidationRatio \in Nat \ {0}
  /\ MinThreshold \in Int /\ MaxThreshold \in Int

VARIABLES
  writeRunCounter,  \* writes in the current run, by cache, set and way
  invalidationThs,  \* the thresholds of the bus, by block
  thsAtGrant        \* history: the thresholds the transaction under way found

runVars == <<invalidCounter, accessVars, writeRunCounter, invalidationThs>>
vars == <<sharedVars, runVars, thsAtGrant>>

\* Runs are only compared with 0 and with the ratio, so longer ones need not
\* be told apart.
RunLengths == 0..InvalidationRatio
Longer(run) == IF run < InvalidationRatio THEN run + 1 ELSE run

Init ==
  /\ SharedInit /\ RunsInit(InvalidThreshold)
  /\ writeRunCounter = [c \in Caches |-> [s \in Sets |-> [w \in Ways |-> 0]]]
  /\ invalidationThs = [b \in Cacheable |-> InvalidThreshold]
  /\ thsAtGrant = invalidationThs

CounterOf(c, b) == AtBlock(invalidCounter, c, b)
RunOf(c, b)     == AtBlock(writeRunCounter, c, b)

\* endWriteRun: what the end of a run adds to a threshold.
RunVerdict(run) == IF run < InvalidationRatio THEN 1 ELSE -1

-----------------------------------------------------------------------------
(* The choice at the grant.                                                *)

BusOp(c, p) ==
  IF isHit(c, p.blk) THEN IF CounterOf(c, p.blk) > 0 THEN "BusUpd" ELSE "BusRdX"
  ELSE IF p.cmd = "Read" THEN "BusRd"
  ELSE IF invalidationThs[p.blk] > 0 THEN "BusRdUpd" ELSE "BusRdX"

-----------------------------------------------------------------------------
(* Snooping: another cache's transaction ends the run of the block's owner. *)

\* The owners whose run ends, and by how much each moves the threshold.  A
\* Modified line ends its run whatever its length; when it falls through to
\* the SharedMod case the run is 0 and does not end a second time.
EndsRun(d, m) ==
  LET st == LineOf(d, m.pkt.blk).cohState IN
    st = "Modified" \/ (st = "SharedMod" /\ RunOf(d, m.pkt.blk) > 0)

EndedBySnoop(m) == {d \in SnoopHits(m) : EndsRun(d, m)}

ThresholdsAfterSnoop(m) ==
  LET long == {d \in EndedBySnoop(m) : RunVerdict(RunOf(d, m.pkt.blk)) < 0}
  IN [invalidationThs EXCEPT ![m.pkt.blk] =
        @ + Cardinality(EndedBySnoop(m) \ long) - Cardinality(long)]

\* Fault: an updated SharedMod line keeps its run.
RunsKeptByUpdates(m) ==
  FieldAfterSnoop(writeRunCounter, m,
    [d \in SnoopHits(m) |-> IF EndsRun(d, m) /\ ~Updates THEN 0 ELSE RunOf(d, m.pkt.blk)])

RunsAfterSnoop(m) ==
  FieldAfterSnoop(writeRunCounter, m,
    [d \in SnoopHits(m) |-> IF EndsRun(d, m) THEN 0 ELSE RunOf(d, m.pkt.blk)])

\* The SharedMod case takes the new threshold over; a Modified line comes to
\* it only by an update.  At most one cache has the block in either state
\* (SingleOwner), so the order of the snoops does not matter here.
CountersAfterSnoop(m) ==
  LET Restores(st) == st = "SharedMod" \/ (st = "Modified" /\ Updates)
  IN FieldAfterSnoop(invalidCounter, m,
       [d \in SnoopHits(m) |->
          IF Restores(LineOf(d, m.pkt.blk).cohState)
            THEN ThresholdsAfterSnoop(m)[m.pkt.blk] ELSE CounterOf(d, m.pkt.blk)])

-----------------------------------------------------------------------------
(* The response: one more write of c, perhaps in a newly allocated line.   *)

\* evict ends the run of its victim, and moves the threshold of the block it
\* makes room for; allocate starts from that threshold.
EvictsFor(c, b) == ~Present(c, b) /\ Evicts(c, b)

ThresholdAfterEvict(c, b, ths) ==
  ths[b] + IF EvictsFor(c, b) THEN RunVerdict(RunOf(c, b)) ELSE 0

\* Fault: the response ends the owner's run that the snoop has ended already.
InterruptedByFetch(c, p, wire, remote) == p.cmd = "Write" /\ wire /\ remote

\* A read of a copy between two updates ends the run.
Interrupted(c, p, wire, remote) == InRun(c, p.blk) /\ p.cmd = "Write" /\ wire /\ remote

ThresholdsAfterFill(c, p, wire, remote, ths) ==
  [ths EXCEPT ![p.blk] =
     ThresholdAfterEvict(c, p.blk, ths)
       + IF Interrupted(c, p, wire, remote) THEN RunVerdict(RunOf(c, p.blk)) ELSE 0]

FilledRun(c, p, wire, remote) ==
  LET run == IF Present(c, p.blk) /\ ~Interrupted(c, p, wire, remote)
               THEN RunOf(c, p.blk) ELSE 0
  IN IF p.cmd = "Read" THEN run ELSE Longer(run)

\* Fault: an update of a run that goes on costs nothing.
UpdatesCostNothing(c, p, wire, remote, ths) ==
  IF InRun(c, p.blk) /\ wire THEN CounterOf(c, p.blk)
  ELSE ThresholdsAfterFill(c, p, wire, remote, ths)[p.blk] - (IF wire THEN 1 ELSE 0)

\* allocate, an interrupted run and the step from SharedMod to Modified take
\* the threshold over; every update costs one.
FilledCounter(c, p, wire, remote, ths) ==
  LET renewed == \/ ~Present(c, p.blk)
                 \/ Interrupted(c, p, wire, remote)
                 \/ InRun(c, p.blk) /\ ~wire
      start == IF renewed THEN ThresholdsAfterFill(c, p, wire, remote, ths)[p.blk]
                          ELSE CounterOf(c, p.blk)
  IN IF p.cmd = "Write" /\ wire THEN start - 1 ELSE start

\* ths, runs and counters are what the snoop left, none of them of c's lines.
Fill(c, p, wire, remote, ths, runs, counters) ==
  /\ invalidationThs' = ThresholdsAfterFill(c, p, wire, remote, ths)
  /\ writeRunCounter' = WithField(runs, c, p.blk, FilledRun(c, p, wire, remote))
  /\ invalidCounter' = WithField(counters, c, p.blk,
                                 FilledCounter(c, p, wire, remote, ths))

-----------------------------------------------------------------------------
(* The handlers.                                                           *)

\* Fault: a write to a Modified line that is exclusive starts no run.
SilentWritesUncounted(c, p) == UNCHANGED writeRunCounter

CountSilentWrite(c, p) ==
  writeRunCounter' = WithField(writeRunCounter, c, p.blk, Longer(RunOf(c, p.blk)))

WithinBounds == \A b \in Cacheable : invalidationThs[b] \in MinThreshold..MaxThreshold

handleCoherentCpuReq(c, p) ==
  \/ /\ ReadHit(c, p) /\ MarkRead(c, p)
     /\ UNCHANGED <<invalidCounter, writeRunCounter, invalidationThs>>
  \/ /\ WriteHit(c, p) /\ CountSilentWrite(c, p)
     /\ UNCHANGED <<invalidCounter, accessVars, invalidationThs>>
  \/ BusRequest(c, p) /\ WithinBounds /\ UNCHANGED runVars

handleCoherentBusGrant(c) ==
  /\ BusGrant(c, BusOp(c, requestPacket[c]))
  /\ remoteAccessWire' = FALSE
  /\ UNCHANGED <<invalidCounter, accessSinceUpd, writeRunCounter, invalidationThs>>

processMemReqEvent(m) ==
  \/ /\ SnoopAndFetch(m)
     /\ ReportReads(m)
     /\ invalidationThs' = ThresholdsAfterSnoop(m)
     /\ writeRunCounter' = RunsAfterSnoop(m)
     /\ invalidCounter' = CountersAfterSnoop(m)
  \/ /\ SnoopAndComplete(m)
     /\ ReportReads(m)
     /\ Fill(m.from, requestPacket[m.from], WireAfterSnoop(m), RemoteWireAfterSnoop(m),
             ThresholdsAfterSnoop(m), RunsAfterSnoop(m), CountersAfterSnoop(m))

handleCoherentMemResp(m, c) ==
  /\ MemResp(m, c)
  /\ Fill(c, requestPacket[c], sharedWire, remoteAccessWire,
          invalidationThs, writeRunCounter, invalidCounter)
  /\ UNCHANGED accessVars

AdaptStep ==
  \/ \E c \in Caches, p \in CpuPackets : handleCoherentCpuReq(c, p)
  \/ \E c \in Caches : handleCoherentBusGrant(c)
  \/ memReqQueue # <<>> /\ processMemReqEvent(Head(memReqQueue))
  \/ \E m \in inMemory, c \in Caches : handleCoherentMemResp(m, c)
  \/ BaseStep /\ UNCHANGED runVars

\* While one cache keeps the bus the history stands still.
RememberThresholds ==
  thsAtGrant' = IF currentGranted # NoCache /\ currentGranted' = currentGranted
                  THEN thsAtGrant ELSE invalidationThs'

Next == AdaptStep /\ RememberThresholds

Spec == Init /\ [][Next]_vars

-----------------------------------------------------------------------------
(* Properties.                                                             *)

\* The asserts on the run (adapt_cache.cc:476, 577, 739, 760): only the owner
\* of a block is in a run, so a line that was updated, invalidated or evicted
\* by whatever transaction starts from 0; and a Modified line always is, so
\* the snoop that ends its run unasked never counts a run of length 0.
RunMarksOwner ==
  \A c \in Caches, s \in Sets, w \in Ways :
    LET st == lines[c][s][w].cohState IN
      /\ writeRunCounter[c][s][w] > 0 => st \in {"Modified", "SharedMod"}
      /\ st = "Modified" => writeRunCounter[c][s][w] > 0

\* "prevent double update from the fall off" (adapt_cache.cc:724): from its
\* grant to its end a transaction moves a threshold at most by one, whichever
\* copies it meets and whether the snoop or the response ends their runs; and
\* once more when it evicts.
ThresholdMovesOnce ==
  [][\A b \in Cacheable :
       LET moved == invalidationThs'[b] - thsAtGrant[b]
           evicts == currentGranted # NoCache /\ EvictsFor(currentGranted, b)
                     /\ tagMap'[currentGranted][b] # NotExist
       IN moved \in IF evicts THEN -2..2 ELSE -1..1]_vars

\* "record write run and update Ths" (adapt_cache.cc:181): what moves the
\* threshold of a block is a run of writes to that block.
ThresholdFollowsOwnRuns ==
  [][\A b \in Cacheable :
       invalidationThs'[b] # invalidationThs[b] =>
         \E c \in Caches : Present(c, b) /\ RunOf(c, b) > 0]_vars
==============================================================================
