----------------------------- MODULE HybridCache -----------------------------
(***************************************************************************)
(* A system of hybrid write-back caches on the serializing bus             *)
(* (src/cc/src/hybrid_cache.cc).  A write to a shared block updates the    *)
(* other copies as Dragon does, until a counter at the writer runs out;    *)
(* then it invalidates them as MESI does.                                  *)
(***************************************************************************)
EXTENDS UpdateRuns

CONSTANT InvalidThreshold   \* updates in a row before an invalidation

ASSUME HybridAssumption == InvalidThreshold \in Nat

runVars == <<invalidCounter, accessVars>>
vars == <<sharedVars, runVars>>

Init == SharedInit /\ RunsInit(InvalidThreshold)

CounterOf(c, b) == AtBlock(invalidCounter, c, b)

-----------------------------------------------------------------------------
(* The choice at the grant.                                                *)

\* Fault: an exhausted counter sends updates all the same.
AlwaysUpdates(c, p) ==
  IF isHit(c, p.blk) THEN "BusUpd"
  ELSE IF p.cmd = "Read" THEN "BusRd" ELSE "BusRdUpd"

\* A hit updates while its counter lasts and invalidates after; a write miss
\* goes by the threshold alone.
BusOp(c, p) ==
  IF isHit(c, p.blk) THEN IF CounterOf(c, p.blk) > 0 THEN "BusUpd" ELSE "BusRdX"
  ELSE IF p.cmd = "Read" THEN "BusRd"
  ELSE IF InvalidThreshold > 0 THEN "BusRdUpd" ELSE "BusRdX"

-----------------------------------------------------------------------------
(* The counter.                                                            *)

\* Fault: the counter goes on where the interrupted run of updates left it.
CounterKept(d, m) == CounterOf(d, m.pkt.blk)

\* Any transaction of another cache ends a run of updates; one that finds the
\* block Modified does so only if it updates.
SnoopedCounter(d, m) ==
  LET st == LineOf(d, m.pkt.blk).cohState IN
    IF st = "SharedMod" \/ (st = "Modified" /\ Updates)
      THEN InvalidThreshold ELSE CounterOf(d, m.pkt.blk)

CountersAfterSnoop(m) ==
  FieldAfterSnoop(invalidCounter, m, [d \in SnoopHits(m) |-> SnoopedCounter(d, m)])

\* Fault: a run of updates that ends in Modified does not restore the counter.
CounterNotRestored(c, p, wire, remote) == CounterOf(c, p.blk) - (IF wire THEN 1 ELSE 0)

\* Fault: every copy that still shares the block counts as read.
UpdatesCostNothing(c, p, wire, remote) ==
  LET k == IF Present(c, p.blk) THEN CounterOf(c, p.blk) ELSE InvalidThreshold
  IN IF p.cmd = "Read" THEN k
     ELSE IF wire THEN (IF InRun(c, p.blk) THEN InvalidThreshold ELSE k) - 1
     ELSE IF InRun(c, p.blk) THEN InvalidThreshold ELSE k

\* One more update was sent, unless nobody has a copy any more.  A read of a
\* copy between two updates starts the run anew.
FilledCounter(c, p, wire, remote) ==
  LET k == IF Present(c, p.blk) THEN CounterOf(c, p.blk) ELSE InvalidThreshold
  IN IF p.cmd = "Read" THEN k
     ELSE IF wire THEN (IF InRun(c, p.blk) /\ remote THEN InvalidThreshold ELSE k) - 1
     ELSE IF InRun(c, p.blk) THEN InvalidThreshold ELSE k

\* counters is invalidCounter after the snoop, which leaves c's as they were.
CountersAfterFill(c, p, wire, remote, counters) ==
  WithField(counters, c, p.blk, FilledCounter(c, p, wire, remote))

-----------------------------------------------------------------------------
(* The handlers.                                                           *)

handleCoherentCpuReq(c, p) ==
  \/ ReadHit(c, p) /\ MarkRead(c, p) /\ UNCHANGED invalidCounter
  \/ WriteHit(c, p) /\ UNCHANGED runVars
  \/ BusRequest(c, p) /\ UNCHANGED runVars

handleCoherentBusGrant(c) ==
  /\ BusGrant(c, BusOp(c, requestPacket[c]))
  /\ remoteAccessWire' = FALSE
  /\ UNCHANGED <<invalidCounter, accessSinceUpd>>

\* The snoop, after which a write that needs no memory is completed at once.
processMemReqEvent(m) ==
  \/ /\ SnoopAndFetch(m)
     /\ invalidCounter' = CountersAfterSnoop(m)
     /\ ReportReads(m)
  \/ /\ SnoopAndComplete(m)
     /\ invalidCounter' = CountersAfterFill(m.from, requestPacket[m.from],
                            WireAfterSnoop(m), RemoteWireAfterSnoop(m),
                            CountersAfterSnoop(m))
     /\ ReportReads(m)

handleCoherentMemResp(m, c) ==
  /\ MemResp(m, c)
  /\ invalidCounter' = CountersAfterFill(c, requestPacket[c], sharedWire,
                                         remoteAccessWire, invalidCounter)
  /\ UNCHANGED accessVars

Next ==
  \/ \E c \in Caches, p \in CpuPackets : handleCoherentCpuReq(c, p)
  \/ \E c \in Caches : handleCoherentBusGrant(c)
  \/ memReqQueue # <<>> /\ processMemReqEvent(Head(memReqQueue))
  \/ \E m \in inMemory, c \in Caches : handleCoherentMemResp(m, c)
  \/ BaseStep /\ UNCHANGED runVars

Spec == Init /\ [][Next]_vars

-----------------------------------------------------------------------------
(* Properties.                                                             *)

\* A counter counts one run of updates: it never falls below zero, and every
\* way out of SharedMod, by a write, a snoop or a reused frame, restores it.
CounterCountsRun ==
  \A c \in Caches, s \in Sets, w \in Ways :
    /\ invalidCounter[c][s][w] \in 0..InvalidThreshold
    /\ lines[c][s][w].cohState # "SharedMod" => invalidCounter[c][s][w] = InvalidThreshold

\* "if there's remote access during two updates, reset counterR"
\* (hybrid_cache.cc:453): an update of a SharedMod line that finds a copy read
\* since the last one starts the count anew.
RemoteAccessResetsCounter ==
  [][\A c \in Caches, b \in Cacheable :
       /\ memReqQueue # <<>> /\ currBusOp = "BusUpd"
       /\ c = currentGranted /\ b = CurrentPacket.blk
       /\ InState(c, b, {"SharedMod"})
       /\ \E d \in Caches \ {c} : isHit(d, b) /\ AtBlock(accessSinceUpd, d, b)
       /\ memReqQueue' = <<>>
       => CounterOf(c, b)' = InvalidThreshold - 1]_vars
==============================================================================
