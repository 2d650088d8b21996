-------------------------- MODULE CoherentCacheBase --------------------------
(***************************************************************************)
(* The part every cache inherits (src/cc/src/coherent_cache_base.cc): the  *)
(* blocked flag, the packet that waits for the bus, the response event     *)
(* towards the CPU, and the path of packets outside the cacheable range.   *)
(*                                                                         *)
(* A CPU has one packet outstanding at a time and sends the next one after *)
(* it received the response (TimingSimpleCPU, in every configuration under *)
(* cc/configs), so a request is never refused and never retried here.      *)
(***************************************************************************)
EXTENDS SerializingBus

VARIABLES
  cpuPkt,         \* the CPU's outstanding packet, or NoPacket
  blocked,        \* the cache accepts no request
  requestPacket,  \* the packet the cache asked the bus for; it is not
                  \* reset on every path, and then outlives the packet
  cpuRespQueue    \* responses the scheduled cpuRespEvent will send

cpuSideVars == <<cpuPkt, blocked, requestPacket, cpuRespQueue>>

BaseTypeOK ==
  /\ BusTypeOK
  /\ cpuPkt \in [Caches -> Packet \cup {NoPacket}]
  /\ blocked \in [Caches -> BOOLEAN]
  /\ requestPacket \in [Caches -> Packet \cup {NoPacket, Freed}]
  /\ cpuRespQueue \in [Caches -> Seq(Packet)]

BaseInit ==
  /\ BusInit
  /\ cpuPkt = [c \in Caches |-> NoPacket]
  /\ blocked = [c \in Caches |-> FALSE]
  /\ requestPacket = [c \in Caches |-> NoPacket]
  /\ cpuRespQueue = [c \in Caches |-> <<>>]

-----------------------------------------------------------------------------
(* Requests of the CPU.                                                    *)

\* handleRequest accepts a packet.
AcceptFromCpu(c, p) ==
  /\ cpuPkt[c] = NoPacket
  /\ ~blocked[c]
  /\ cpuPkt' = [cpuPkt EXCEPT ![c] = p]

\* The cache answers without the bus: sendCpuResp, and it stays unblocked.
AnswerAtOnce(c, p, resp) ==
  /\ AcceptFromCpu(c, p)
  /\ cpuRespQueue' = [cpuRespQueue EXCEPT ![c] = Append(@, resp)]
  /\ UNCHANGED <<blocked, requestPacket, busVars>>

\* The cache blocks, keeps the packet and asks for the bus.
WaitForBus(c, p) ==
  /\ AcceptFromCpu(c, p)
  /\ blocked' = [blocked EXCEPT ![c] = TRUE]
  /\ requestPacket' = [requestPacket EXCEPT ![c] = p]
  /\ Request(c)
  /\ UNCHANGED <<cpuRespQueue, memReqQueue, currBusOp, sharedWire, memPortVars>>

\* handleRequest for a packet outside the cacheable range.
UncachedRequest(c, p) ==
  /\ ~isCacheablePacket(p)
  /\ WaitForBus(c, p)
  /\ UNCHANGED memory

-----------------------------------------------------------------------------
(* Grant, response and delivery.                                           *)

\* handleBusGrant for a packet outside the cacheable range.
UncachedGrant(c) ==
  /\ GrantNext(c)
  /\ ~isCacheablePacket(requestPacket[c])
  /\ sendMemReq(requestPacket[c], TRUE, "BusRd", c)
  /\ requestPacket' = [requestPacket EXCEPT ![c] = NoPacket]
  /\ UNCHANGED <<cpuPkt, blocked, cpuRespQueue, sharedWire, memPortVars, memory>>

IdleGrant ==
  /\ GrantNobody
  /\ UNCHANGED <<cpuSideVars, memReqQueue, currBusOp, sharedWire, memPortVars, memory>>

\* Fault: every packet towards memory is turned into an aligned read.
UncachedForwardAligned(m) ==
  /\ NextMemReq(m)
  /\ ~isCacheablePacket(m.pkt)
  /\ sendPacket([pkt |-> generateAlignAccess(m.pkt), from |-> m.from])
  /\ UNCHANGED <<cpuSideVars, arbiterVars, currBusOp, sharedWire, memory>>

\* processMemReqEvent for a packet outside the cacheable range: the snooped
\* caches ignore it and the packet itself goes to memory.
UncachedForward(m) ==
  /\ NextMemReq(m)
  /\ ~isCacheablePacket(m.pkt)
  /\ sendPacket([pkt |-> m.pkt, from |-> m.from])
  /\ UNCHANGED <<cpuSideVars, arbiterVars, currBusOp, sharedWire, memory>>

\* handleResponse outside the cacheable range: the response goes to the CPU in
\* the same step.
UncachedResponse(m, c) ==
  /\ TakeResponse(m, c)
  /\ ~isCacheablePacket(m.pkt)
  /\ Release(c)
  /\ blocked' = [blocked EXCEPT ![c] = FALSE]
  /\ cpuPkt' = [cpuPkt EXCEPT ![c] = NoPacket]
  /\ UNCHANGED <<requestPacket, cpuRespQueue, memReqQueue, currBusOp, sharedWire, memory>>

\* Fault: the cache stays blocked after it gave the bus back.
FinishStillBlocked(c, resp, memoryFetch) ==
  /\ cpuRespQueue' = [cpuRespQueue EXCEPT ![c] = Append(@, resp)]
  /\ Release(c)
  /\ requestPacket' = IF memoryFetch THEN [requestPacket EXCEPT ![c] = NoPacket]
                                     ELSE requestPacket
  /\ UNCHANGED <<cpuPkt, blocked>>

\* Fault: only fetches are answered, writes that stay in the cache are not.
FinishUnanswered(c, resp, memoryFetch) ==
  /\ cpuRespQueue' = IF memoryFetch THEN [cpuRespQueue EXCEPT ![c] = Append(@, resp)]
                                    ELSE cpuRespQueue
  /\ Release(c)
  /\ blocked' = [blocked EXCEPT ![c] = FALSE]
  /\ requestPacket' = IF memoryFetch THEN [requestPacket EXCEPT ![c] = NoPacket]
                                     ELSE requestPacket
  /\ UNCHANGED cpuPkt

\* How a protocol's handleCoherentMemResp ends: respond, release, unblock.
\* Only a transaction that fetched from memory resets requestPacket.
FinishTransaction(c, resp, memoryFetch) ==
  /\ cpuRespQueue' = [cpuRespQueue EXCEPT ![c] = Append(@, resp)]
  /\ Release(c)
  /\ blocked' = [blocked EXCEPT ![c] = FALSE]
  /\ requestPacket' = IF memoryFetch THEN [requestPacket EXCEPT ![c] = NoPacket]
                                     ELSE requestPacket
  /\ UNCHANGED cpuPkt

\* processCpuResp: the CPU consumes the response and deletes the packet, which
\* leaves a requestPacket that was not reset pointing to freed memory.
ProcessCpuResp(c) ==
  /\ cpuRespQueue[c] # <<>>
  /\ cpuRespQueue' = [cpuRespQueue EXCEPT ![c] = <<>>]
  /\ cpuPkt' = [cpuPkt EXCEPT ![c] = NoPacket]
  /\ requestPacket' = [requestPacket EXCEPT ![c] = IF @ = NoPacket THEN @ ELSE Freed]
  /\ UNCHANGED <<blocked, busVars, memory>>

\* The memory side of the bus moves on its own.
MemorySide ==
  /\ RecvReqRetry \/ \E m \in inMemory : MemAccess(m)
  /\ UNCHANGED cpuSideVars

-----------------------------------------------------------------------------
(* The base class with its virtual handlers left open: a protocol may      *)
(* answer any cacheable request at once or wait for the bus, may or may    *)
(* not fetch, may drive the shared wire and write back blocks as it likes. *)
(* Every protocol on this base is a restriction of this specification.     *)

baseVars == <<busVars, memory, cpuSideVars>>

\* What p looks like when it comes back.
Responses(p) == {[p EXCEPT !.data = d] : d \in [Words -> Values]}

AnyWire == sharedWire' \in BOOLEAN
AnyWriteback == memory' \in [Blocks -> [Words -> Values]]

CacheAnswers(c, p) ==
  /\ isCacheablePacket(p)
  /\ \E r \in Responses(p) : AnswerAtOnce(c, p, r)
  /\ UNCHANGED memory

CacheWaits(c, p) ==
  /\ isCacheablePacket(p)
  /\ WaitForBus(c, p)
  /\ UNCHANGED memory

\* Fault: the request packet is reset at the grant, as the default
\* handleCoherentBusGrant of the base class does.
GrantResetsRequest(c) ==
  /\ GrantNext(c)
  /\ isCacheablePacket(requestPacket[c])
  /\ \E toMem \in BOOLEAN, op \in BusOps :
       /\ requestPacket[c].cmd = "Read" => toMem
       /\ sendMemReq(requestPacket[c], toMem, op, c)
  /\ requestPacket' = [requestPacket EXCEPT ![c] = NoPacket]
  /\ AnyWire
  /\ UNCHANGED <<cpuPkt, blocked, cpuRespQueue, memPortVars, memory>>

\* A read always goes to memory (assert(!isRead), serializing_bus.cc:89).
CacheGranted(c) ==
  /\ GrantNext(c)
  /\ isCacheablePacket(requestPacket[c])
  /\ \E toMem \in BOOLEAN, op \in BusOps :
       /\ requestPacket[c].cmd = "Read" => toMem
       /\ sendMemReq(requestPacket[c], toMem, op, c)
  /\ AnyWire
  /\ UNCHANGED <<cpuSideVars, memPortVars, memory>>

CacheFetches(m) ==
  /\ NextMemReq(m)
  /\ isCacheablePacket(m.pkt) /\ m.toMem
  /\ sendPacket([pkt |-> generateAlignAccess(m.pkt), from |-> m.from])
  /\ AnyWire /\ AnyWriteback
  /\ UNCHANGED <<cpuSideVars, arbiterVars, currBusOp>>

CacheCompletes(m) ==
  /\ NextMemReq(m)
  /\ isCacheablePacket(m.pkt) /\ ~m.toMem
  /\ FinishTransaction(m.from, m.pkt, FALSE)
  /\ AnyWire /\ AnyWriteback
  /\ UNCHANGED <<currBusOp, memPortVars>>

CacheFilled(m, c) ==
  /\ TakeResponse(m, c)
  /\ isCacheablePacket(m.pkt)
  /\ \E r \in Responses(requestPacket[c]) : FinishTransaction(c, r, TRUE)
  /\ AnyWire /\ AnyWriteback
  /\ UNCHANGED <<memReqQueue, currBusOp>>

BaseNext ==
  \/ \E c \in Caches, p \in CpuPackets :
       CacheAnswers(c, p) \/ CacheWaits(c, p) \/ UncachedRequest(c, p)
  \/ \E c \in Caches : CacheGranted(c) \/ UncachedGrant(c)
  \/ IdleGrant
  \/ memReqQueue # <<>> /\ LET m == Head(memReqQueue) IN
       CacheFetches(m) \/ CacheCompletes(m) \/ UncachedForward(m)
  \/ MemorySide
  \/ \E m \in inMemory, c \in Caches : CacheFilled(m, c) \/ UncachedResponse(m, c)
  \/ \E c \in Caches : ProcessCpuResp(c)

BaseSpec == BaseInit /\ [][BaseNext]_baseVars

-----------------------------------------------------------------------------
(* What the base class promises.                                           *)

Waiting(c) == \E i \in DOMAIN busRequestQueue : busRequestQueue[i] = c

\* A blocked cache waits exactly once or owns the bus, an unblocked one does
\* neither; so no request is lost, doubled or left behind by release()
\* (assert(blocked) of handleResponse, coherent_cache_base.cc:114).
BlockedAccounted ==
  /\ \A c \in Caches : blocked[c] <=> (Waiting(c) \/ currentGranted = c)
  /\ \A i, j \in DOMAIN busRequestQueue :
       busRequestQueue[i] = busRequestQueue[j] => i = j
  /\ currentGranted # NoCache => ~Waiting(currentGranted)

\* The packet a cache keeps for the bus is the packet its CPU waits for, at
\* the grant and at every step of a cacheable transaction that still reads
\* it; a freed or null pointer is never used (assert(requestPacket != nullptr),
\* coherent_cache_base.cc:175 and mesi_cache.cc:288,353).
RequestPacketLive ==
  \A c \in Caches :
    /\ Waiting(c) => requestPacket[c] = cpuPkt[c] /\ cpuPkt[c] \in Packet
    /\ currentGranted = c =>
         /\ cpuPkt[c] \in Packet
         /\ isCacheablePacket(cpuPkt[c]) => requestPacket[c] = cpuPkt[c]

\* Exactly the CPUs whose cache is not working on their packet have a response
\* on its way, and it is a response to that packet; no CPU is forgotten and
\* cpuRespEvent is never scheduled twice (sendCpuResp schedules it unguarded).
ResponseAccounted ==
  \A c \in Caches :
    IF cpuPkt[c] # NoPacket /\ ~blocked[c]
      THEN \E r \in Responses(cpuPkt[c]) : cpuRespQueue[c] = <<r>>
      ELSE cpuRespQueue[c] = <<>>

\* No packet of a CPU is lost, used after it is freed or answered twice.
PacketsAccounted == BlockedAccounted /\ RequestPacketLive /\ ResponseAccounted

\* What the bus carries to memory is the granted cache's packet, or the aligned
\* read of its block when the block is cacheable: an uncached write reaches
\* memory as a write, a cacheable one never does.
TransactionMatches ==
  LET p == cpuPkt[currentGranted]
      Sent(q) == LET s == IF isCacheablePacket(p) THEN generateAlignAccess(p) ELSE p
                 IN q.cmd = s.cmd /\ q.blk = s.blk /\ q.words = s.words
  IN /\ memReqQueue # <<>> => Head(memReqQueue).pkt = p
     /\ blockedPacket # NoPacket => Sent(blockedPacket.pkt)
     /\ \A m \in inMemory : Sent(m.pkt)

\* The arbiter is fair: between its request and its grant a cache is never
\* overtaken, its place in the queue only moves towards the front.
NeverOvertaken ==
  [][\A i \in DOMAIN busRequestQueue :
       LET c == busRequestQueue[i] IN
         \/ i = 1 /\ currentGranted' = c
         \/ \E j \in DOMAIN busRequestQueue' : j <= i /\ busRequestQueue'[j] = c
    ]_busRequestQueue

\* Every CPU that waits has its response on the way or can expect a step of
\* the bus: a grant that is scheduled and finds the bus free, or the next step
\* of the owner's transaction.  So the caches never all wait for each other.
BusCanMove ==
  \/ grantEvent /\ currentGranted = NoCache
  \/ /\ currentGranted # NoCache
     /\ memReqQueue # <<>> \/ blockedPacket # NoPacket \/ inMemory # {}

NobodyStuck ==
  \A c \in Caches : cpuPkt[c] # NoPacket => cpuRespQueue[c] # <<>> \/ BusCanMove

\* How far the owner's transaction is from its release.
StepsToRelease ==
  IF memReqQueue # <<>> THEN 4
  ELSE IF blockedPacket # NoPacket THEN 3
  ELSE IF \E m \in inMemory : ~m.answered THEN 2
  ELSE IF inMemory # {} THEN 1
  ELSE 0

\* How far a blocked cache is from its answer: five steps for every grant it
\* still needs, the one to itself included, and those of the transaction.
Place(c) ==
  IF currentGranted = c THEN 0
  ELSE CHOOSE i \in DOMAIN busRequestQueue : busRequestQueue[i] = c
Distance(c) == 5 * Place(c) + StepsToRelease

\* Every step of the bus brings every blocked cache closer to its answer, and
\* no other step, not even a request of another cache, takes it further away.
WaitShrinks ==
  [][\A c \in Caches : blocked[c] /\ blocked'[c] =>
       IF UNCHANGED <<currentGranted, memReqQueue, blockedPacket, inMemory>>
         THEN Distance(c)' = Distance(c)
         ELSE Distance(c)' < Distance(c)
    ]_baseVars

-----------------------------------------------------------------------------
(* The access of a CPU, for statements about a protocol.                   *)

\* The packet of the cacheable transaction that is under way.
CurrentPacket == cpuPkt[currentGranted]
InCacheableTransaction == currentGranted # NoCache /\ isCacheablePacket(CurrentPacket)

\* An uncached access has happened once memory answered it.
UncachedAnswer(c) ==
  {m \in inMemory : m.from = c /\ m.answered /\ ~isCacheablePacket(m.pkt)}

Answered(c) == cpuRespQueue[c] # <<>> \/ UncachedAnswer(c) # {}

Operation(c) ==
  IF cpuRespQueue[c] # <<>> THEN Head(cpuRespQueue[c])
  ELSE IF UncachedAnswer(c) # {} THEN (CHOOSE m \in UncachedAnswer(c) : TRUE).pkt
  ELSE cpuPkt[c]
==============================================================================
