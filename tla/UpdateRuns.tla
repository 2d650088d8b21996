------------------------------ MODULE UpdateRuns ------------------------------
(***************************************************************************)
(* What a writer of a shared block knows to choose between updating and    *)
(* invalidating: how many more updates it may send, and whether another    *)
(* CPU read its copy since the last one.  Common to                        *)
(* src/cc/src/hybrid_cache.cc and src/cc/src/adapt_cache.cc.               *)
(***************************************************************************)
EXTENDS SharedWriteCache

\* cacheMap holds finitely many caches, so one of them is snooped last.
ASSUME RunsAssumption == IsFiniteSet(Caches)

VARIABLES
  invalidCounter,    \* updates left, by cache, set and way
  accessSinceUpd,    \* the CPU read the line since it was last updated
  remoteAccessWire   \* driven by snooping caches with accessSinceUpd

accessVars == <<accessSinceUpd, remoteAccessWire>>

RunsInit(threshold) ==
  /\ invalidCounter = [c \in Caches |-> [s \in Sets |-> [w \in Ways |-> threshold]]]
  /\ accessSinceUpd = [c \in Caches |-> [s \in Sets |-> [w \in Ways |-> FALSE]]]
  /\ remoteAccessWire = FALSE

\* The frame where block b sits, or will once evict and allocate made room.
WayOf(c, b) == IF Present(c, b) THEN tagMap[c][b] ELSE FreeWay(c, b)

\* A field of the line of block b.
AtBlock(field, c, b) == field[c][SetOf[b]][WayOf(c, b)]

\* The field with value v for the line of block b.
WithField(field, c, b, v) == [field EXCEPT ![c][SetOf[b]][WayOf(c, b)] = v]

\* The field once each cache d that snoops a hit changed its line's to new[d].
FieldAfterSnoop(field, m, new) ==
  [d \in Caches |->
     IF d \in SnoopHits(m) THEN WithField(field, d, m.pkt.blk, new[d])[d] ELSE field[d]]

-----------------------------------------------------------------------------
(* The marks of reads, and the wire that reports them.                     *)

\* A read hit leaves its mark for the next writer; a read miss does not.
MarkRead(c, p) ==
  /\ accessSinceUpd' = WithField(accessSinceUpd, c, p.blk, TRUE)
  /\ UNCHANGED remoteAccessWire

\* An update takes the mark of the last read away.
AccessesAfterSnoop(m) ==
  FieldAfterSnoop(accessSinceUpd, m,
    [d \in SnoopHits(m) |-> AtBlock(accessSinceUpd, d, m.pkt.blk) /\ ~Updates])

\* Every copy drives the wire; the last one in id order prevails.
RemoteWireAfterSnoop(m) ==
  LET last == CHOOSE d \in SnoopHits(m) : \A e \in SnoopHits(m) : e <= d
  IN IF SnoopHits(m) = {} THEN remoteAccessWire
     ELSE AtBlock(accessSinceUpd, last, m.pkt.blk)

ReportReads(m) ==
  /\ accessSinceUpd' = AccessesAfterSnoop(m)
  /\ remoteAccessWire' = RemoteWireAfterSnoop(m)

\* The writer's line goes on from an earlier update of its own.
InRun(c, b) == isHit(c, b) /\ LineOf(c, b).cohState = "SharedMod"

-----------------------------------------------------------------------------
(* What the choice is for.                                                 *)

SendsUpdate(c, b) ==
  /\ memReqQueue # <<>> /\ memReqQueue' = <<>>
  /\ currentGranted = c /\ CurrentPacket.blk = b /\ currBusOp = "BusUpd"

\* A writer that updates others in a run has an update left and pays for it,
\* unless a copy was read since the last one; and until its next update the
\* count of its run changes by an access of another cache to the block only.
\* So it comes to an invalidation after as many updates as it started with.
ReadElsewhere(c, b) ==
  \E d \in Caches \ {c} : isHit(d, b) /\ AtBlock(accessSinceUpd, d, b)

UpdatesRunDown ==
  [][\A c \in Caches, b \in Cacheable :
       InRun(c, b) /\ InRun(c, b)' =>
         LET k == AtBlock(invalidCounter, c, b) IN
           IF SendsUpdate(c, b)
             THEN k > 0 /\ (k' = k - 1 \/ ReadElsewhere(c, b))
             ELSE \/ k' = k
                  \/ currentGranted \notin {c, NoCache} /\ CurrentPacket.blk = b
    ]_<<sharedVars, invalidCounter>>

\* Another CPU starts an access to b, or c has to give its own copy up.
Disturbs(c, b) ==
  \/ \E d \in Caches \ {c} :
       cpuPkt[d] = NoPacket /\ cpuPkt'[d] # NoPacket /\ cpuPkt'[d].blk = b
  \/ Present(c, b) /\ tagMap'[c][b] = NotExist

\* A writer does not update copies nobody reads for ever: if it keeps sending
\* updates of a block, other CPUs keep accessing that block, or its own copy
\* keeps being evicted.
UpdatesNeedReaders ==
  \A c \in Caches, b \in Cacheable :
    []<><<SendsUpdate(c, b)>>_sharedVars => []<><<Disturbs(c, b)>>_sharedVars
==============================================================================
