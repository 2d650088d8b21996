----------------------------- MODULE BaseProofs -----------------------------
(***************************************************************************)
(* What every protocol builds on, proved for any number of caches, blocks, *)
(* words, values, sets and ways.  The bus and the base class keep one      *)
(* transaction at a time and lose none, whatever the protocol on top does, *)
(* and every step of the bus brings every waiting cache closer.  The loop  *)
(* that picks a victim computes the closed form the caches use.  Splitting *)
(* an address and numbering its block lose nothing, for any geometry.      *)
(* Lookup, evict and allocate keep the frames, tagMap and clkPtr of a      *)
(* cache consistent for the line states of any protocol: a protocol's      *)
(* proof cites LineReplaced for a hit or a snoop and LineFilled for the    *)
(* end of a miss.                                                          *)
(***************************************************************************)
EXTENDS CacheSets, SetLookup, SequenceTheorems, FiniteSetTheorems, WellFoundedInduction, TLAPS

Idle == memReqQueue = <<>> /\ blockedPacket = NoPacket /\ inMemory = {}

\* The transaction waits for its snoop.
Queued ==
  /\ \E m \in MemReq : memReqQueue = <<m>> /\ m.from = currentGranted
  /\ blockedPacket = NoPacket
  /\ inMemory = {}

\* Memory refused the packet.
Refused ==
  /\ memReqQueue = <<>>
  /\ blockedPacket \in MemMsg \ {NoPacket} /\ blockedPacket.from = currentGranted
  /\ inMemory = {}

\* Memory has the packet.
AtMemory ==
  /\ memReqQueue = <<>>
  /\ blockedPacket = NoPacket
  /\ \E m \in MemEntry : inMemory = {m} /\ m.from = currentGranted

\* A transaction is in one place, and there is one while the bus is granted.
TransactionShape ==
  IF currentGranted = NoCache THEN Idle ELSE Queued \/ Refused \/ AtMemory

\* The grant event never finds the bus taken (assert(currentGranted == -1),
\* serializing_bus.cc:165).
GrantFindsBusFree == grantEvent => currentGranted = NoCache

BaseInv ==
  /\ BaseTypeOK
  /\ TransactionShape
  /\ GrantFindsBusFree
  /\ NoLostGrant
  /\ BlockedAccounted
  /\ RequestPacketLive
  /\ ResponseAccounted
  /\ TransactionMatches

-----------------------------------------------------------------------------
(* Packets and sequences.                                                  *)

LEMMA NobodyIsNoCache == NoCache \notin Caches
  BY BusAssumption DEF NoCache

LEMMA CpuPacketsTyped ==
  /\ CpuPackets \subseteq Packet
  /\ NoPacket \notin Packet /\ NoPacket \notin MemMsg
  BY BusAssumption

LEMMA EmptyBlockTyped == EmptyBlock \in [Words -> Values]
  BY BusAssumption DEF EmptyBlock

\* An aligned read is a packet for the same block.
LEMMA AlignTyped ==
  ASSUME NEW p \in Packet
  PROVE  generateAlignAccess(p) \in Packet /\ generateAlignAccess(p).blk = p.blk
  BY EmptyBlockTyped DEF generateAlignAccess, Packet

\* A response is the packet itself up to its data.
LEMMA ResponsesTyped ==
  ASSUME NEW p \in Packet, NEW r \in Responses(p)
  PROVE  r \in Packet /\ r.cmd = p.cmd /\ r.blk = p.blk /\ r.words = p.words
  BY DEF Responses, Packet

LEMMA SetDataTyped ==
  ASSUME NEW p \in Packet, NEW block \in [Words -> Values]
  PROVE  /\ SetDataFromBlock(p, block) \in Packet
         /\ SetDataFromBlock(p, block).cmd = p.cmd
         /\ SetDataFromBlock(p, block).blk = p.blk
         /\ SetDataFromBlock(p, block).words = p.words
  BY DEF SetDataFromBlock, Packet

LEMMA WriteDataTyped ==
  ASSUME NEW p \in Packet, NEW block \in [Words -> Values]
  PROVE  WriteDataToBlock(p, block) \in [Words -> Values]
  BY DEF WriteDataToBlock, Packet

\* The elements of a sequence with one more at the end.
LEMMA AppendElements ==
  ASSUME NEW S, NEW q \in Seq(S), NEW e \in S
  PROVE  /\ Append(q, e) \in Seq(S)
         /\ Append(q, e) # <<>>
         /\ DOMAIN Append(q, e) = 1 .. Len(q) + 1
         /\ \A i \in 1 .. Len(q) : Append(q, e)[i] = q[i]
         /\ Append(q, e)[Len(q) + 1] = e
  OBVIOUS

\* The elements of a sequence without its first.
LEMMA TailElements ==
  ASSUME NEW S, NEW q \in Seq(S), q # <<>>
  PROVE  /\ Head(q) \in S /\ Head(q) = q[1]
         /\ Tail(q) \in Seq(S)
         /\ Len(q) \in Nat \ {0}
         /\ DOMAIN Tail(q) = 1 .. Len(q) - 1
         /\ \A i \in 1 .. Len(q) - 1 : Tail(q)[i] = q[i + 1]
  OBVIOUS

-----------------------------------------------------------------------------
(* How the queue of waiting caches moves.                                  *)

ArbiterTypes ==
  /\ currentGranted \in Caches \cup {NoCache}
  /\ busRequestQueue \in Seq(Caches)
  /\ blocked \in [Caches -> BOOLEAN]

\* A request makes the cache wait, once.
LEMMA RequestMoves ==
  ASSUME ArbiterTypes, BlockedAccounted, NEW c \in Caches, ~blocked[c],
         Request(c), blocked' = [blocked EXCEPT ![c] = TRUE]
  PROVE  /\ BlockedAccounted'
         /\ \A d \in Caches : Waiting(d)' <=> Waiting(d) \/ d = c
<1> DEFINE q == busRequestQueue
           n == Len(q)
<1>1. /\ n \in Nat
      /\ DOMAIN q = 1 .. n
      /\ \A i \in 1 .. n : q[i] \in Caches
      /\ DOMAIN q' = 1 .. n + 1
      /\ \A i \in 1 .. n : q'[i] = q[i]
      /\ q'[n + 1] = c
  BY AppendElements DEF ArbiterTypes, Request
<1>2. \A d \in Caches : Waiting(d)' <=> Waiting(d) \/ d = c
  <2>1. ASSUME NEW d \in Caches, Waiting(d)' PROVE Waiting(d) \/ d = c
    BY <1>1, <2>1 DEF Waiting
  <2>2. ASSUME NEW d \in Caches, Waiting(d) PROVE Waiting(d)'
    BY <1>1, <2>2 DEF Waiting
  <2>3. Waiting(c)'
    BY <1>1 DEF Waiting
  <2> QED  BY <2>1, <2>2, <2>3
<1>3. ~Waiting(c) /\ currentGranted # c
  BY DEF BlockedAccounted
<1>4. \A d \in Caches : blocked'[d] <=> (blocked[d] \/ d = c)
  BY DEF ArbiterTypes
<1>5. \A d \in Caches : blocked'[d] <=> (Waiting(d)' \/ currentGranted' = d)
  BY <1>2, <1>3, <1>4 DEF BlockedAccounted, Request
<1>6. \A i, j \in DOMAIN q' : q'[i] = q'[j] => i = j
  BY <1>1, <1>3 DEF BlockedAccounted, Waiting
<1>7. currentGranted' # NoCache => ~Waiting(currentGranted)'
  BY <1>2, <1>3 DEF BlockedAccounted, Request, ArbiterTypes, Waiting
<1> QED  BY <1>2, <1>5, <1>6, <1>7 DEF BlockedAccounted

\* A grant ends the wait of the cache at the head.
LEMMA GrantMoves ==
  ASSUME ArbiterTypes, BlockedAccounted, NEW c \in Caches,
         GrantNext(c), blocked' = blocked
  PROVE  /\ BlockedAccounted'
         /\ Waiting(c)
         /\ \A d \in Caches : Waiting(d)' <=> Waiting(d) /\ d # c
<1> DEFINE q == busRequestQueue
           n == Len(q)
<1>1. /\ n \in Nat \ {0}
      /\ DOMAIN q = 1 .. n
      /\ \A i \in 1 .. n : q[i] \in Caches
      /\ DOMAIN q' = 1 .. n - 1
      /\ \A i \in 1 .. n - 1 : q'[i] = q[i + 1]
      /\ q[1] = c
  BY TailElements DEF ArbiterTypes, GrantNext
<1>2. \A i, j \in 1 .. n : q[i] = q[j] => i = j
  BY <1>1 DEF BlockedAccounted
<1>3. Waiting(c)
  BY <1>1 DEF Waiting
<1>4. \A d \in Caches : Waiting(d)' <=> Waiting(d) /\ d # c
  <2>1. ASSUME NEW d \in Caches, Waiting(d)' PROVE Waiting(d) /\ d # c
    <3>1. PICK i \in 1 .. n - 1 : q'[i] = d
      BY <1>1, <2>1 DEF Waiting
    <3>2. i + 1 \in 1 .. n /\ q[i + 1] = d /\ i + 1 # 1
      BY <1>1, <3>1
    <3> QED  BY <1>1, <1>2, <3>2 DEF Waiting
  <2>2. ASSUME NEW d \in Caches, Waiting(d), d # c PROVE Waiting(d)'
    <3>1. PICK i \in 1 .. n : q[i] = d
      BY <1>1, <2>2 DEF Waiting
    <3>2. i - 1 \in 1 .. n - 1 /\ q'[i - 1] = d
      BY <1>1, <2>2, <3>1
    <3> QED  BY <1>1, <3>2 DEF Waiting
  <2> QED  BY <2>1, <2>2
<1>5. currentGranted = NoCache /\ currentGranted' = c
  BY DEF GrantNext
<1>6. \A d \in Caches : blocked'[d] <=> (Waiting(d)' \/ currentGranted' = d)
  BY <1>3, <1>4, <1>5, NobodyIsNoCache DEF BlockedAccounted
<1>7. \A i, j \in DOMAIN q' : q'[i] = q'[j] => i = j
  <2> SUFFICES ASSUME NEW i \in 1 .. n - 1, NEW j \in 1 .. n - 1, q'[i] = q'[j]
               PROVE  i = j
    BY <1>1
  <2>1. i + 1 \in 1 .. n /\ j + 1 \in 1 .. n /\ q[i + 1] = q[j + 1]
    BY <1>1
  <2> QED  BY <1>2, <2>1
<1>8. currentGranted' # NoCache => ~Waiting(currentGranted)'
  BY <1>4, <1>5
<1> QED  BY <1>3, <1>4, <1>6, <1>7, <1>8 DEF BlockedAccounted

\* A release leaves the queue alone.
LEMMA ReleaseMoves ==
  ASSUME ArbiterTypes, BlockedAccounted, NEW c \in Caches, currentGranted = c,
         Release(c), blocked' = [blocked EXCEPT ![c] = FALSE]
  PROVE  /\ BlockedAccounted'
         /\ \A d : Waiting(d)' <=> Waiting(d)
<1>1. currentGranted' = NoCache /\ busRequestQueue' = busRequestQueue
  BY DEF Release
<1>2. \A d : Waiting(d)' <=> Waiting(d)
  BY <1>1 DEF Waiting
<1>3. ~Waiting(c)
  BY NobodyIsNoCache DEF BlockedAccounted
<1>4. \A d \in Caches : blocked'[d] <=> (Waiting(d)' \/ currentGranted' = d)
  BY <1>1, <1>2, <1>3, NobodyIsNoCache DEF BlockedAccounted, ArbiterTypes
<1> QED  BY <1>1, <1>2, <1>4 DEF BlockedAccounted

-----------------------------------------------------------------------------
(* One lemma per action.                                                   *)

LEMMA AnswerAtOnceStep ==
  ASSUME BaseInv, NEW c \in Caches, NEW p \in CpuPackets, NEW r \in Responses(p),
         AnswerAtOnce(c, p, r), memory' = memory
  PROVE  BaseInv'
<1>1. p \in Packet /\ p # NoPacket /\ r \in Packet
      /\ r.cmd = p.cmd /\ r.blk = p.blk /\ r.words = p.words
  BY CpuPacketsTyped, ResponsesTyped
<1>2. /\ cpuPkt[c] = NoPacket /\ ~blocked[c]
      /\ cpuPkt' = [cpuPkt EXCEPT ![c] = p]
      /\ cpuRespQueue' = [cpuRespQueue EXCEPT ![c] = <<r>>]
      /\ UNCHANGED <<blocked, requestPacket, busVars>>
  <2>1. cpuRespQueue[c] = <<>>
    BY DEF AnswerAtOnce, AcceptFromCpu, BaseInv, ResponseAccounted
  <2>2. Append(<<>>, r) = <<r>>
    OBVIOUS
  <2> QED  BY <2>1, <2>2 DEF AnswerAtOnce, AcceptFromCpu
<1>3. BaseTypeOK'
  BY <1>1, <1>2 DEF BaseInv, BaseTypeOK, BusTypeOK, busVars, arbiterVars, memPortVars
<1>4. ~Waiting(c) /\ currentGranted # c
  BY <1>2 DEF BaseInv, BlockedAccounted
<1>5. TransactionShape' /\ GrantFindsBusFree' /\ NoLostGrant' /\ BlockedAccounted'
  BY <1>2 DEF BaseInv, TransactionShape, Idle, Queued, Refused, AtMemory,
     GrantFindsBusFree, NoLostGrant, BlockedAccounted, Waiting,
     busVars, arbiterVars, memPortVars
<1>6. RequestPacketLive'
  BY <1>2, <1>4 DEF BaseInv, BaseTypeOK, RequestPacketLive, Waiting,
     busVars, arbiterVars, memPortVars
<1>7. ResponseAccounted'
  BY <1>1, <1>2 DEF BaseInv, BaseTypeOK, ResponseAccounted
<1>8. TransactionMatches'
  BY <1>2, <1>4 DEF BaseInv, BaseTypeOK, TransactionMatches, TransactionShape, Idle,
     busVars, arbiterVars, memPortVars
<1> QED  BY <1>3, <1>5, <1>6, <1>7, <1>8 DEF BaseInv

LEMMA WaitForBusStep ==
  ASSUME BaseInv, NEW c \in Caches, NEW p \in CpuPackets,
         WaitForBus(c, p), memory' = memory
  PROVE  BaseInv'
<1>1. p \in Packet /\ p # NoPacket
  BY CpuPacketsTyped
<1>2. /\ cpuPkt[c] = NoPacket /\ ~blocked[c]
      /\ cpuPkt' = [cpuPkt EXCEPT ![c] = p]
      /\ blocked' = [blocked EXCEPT ![c] = TRUE]
      /\ requestPacket' = [requestPacket EXCEPT ![c] = p]
      /\ Request(c)
      /\ UNCHANGED <<cpuRespQueue, memReqQueue, currBusOp, sharedWire, memPortVars>>
  BY DEF WaitForBus, AcceptFromCpu
<1>3. BaseTypeOK'
  BY <1>1, <1>2, AppendElements
     DEF BaseInv, BaseTypeOK, BusTypeOK, Request, memPortVars
<1>4. ~Waiting(c) /\ currentGranted # c
  BY <1>2 DEF BaseInv, BlockedAccounted
<1>5. BlockedAccounted' /\ \A d \in Caches : Waiting(d)' <=> Waiting(d) \/ d = c
  BY <1>2, RequestMoves DEF BaseInv, BaseTypeOK, BusTypeOK, ArbiterTypes
<1>6. TransactionShape' /\ GrantFindsBusFree' /\ NoLostGrant'
  BY <1>2 DEF BaseInv, TransactionShape, Idle, Queued, Refused, AtMemory,
     GrantFindsBusFree, NoLostGrant, Request, memPortVars
<1>7. RequestPacketLive'
  BY <1>1, <1>2, <1>4, <1>5
     DEF BaseInv, BaseTypeOK, RequestPacketLive, Request
<1>8. ResponseAccounted'
  BY <1>1, <1>2 DEF BaseInv, BaseTypeOK, ResponseAccounted
<1>9. TransactionMatches'
  BY <1>2, <1>4 DEF BaseInv, BaseTypeOK, TransactionMatches, TransactionShape, Idle,
     Request, memPortVars
<1> QED  BY <1>3, <1>5, <1>6, <1>7, <1>8, <1>9 DEF BaseInv

\* What a grant finds, whatever the cache asks memory for.
LEMMA GrantFinds ==
  ASSUME BaseInv, NEW c \in Caches, GrantNext(c)
  PROVE  /\ Idle /\ currentGranted = NoCache
         /\ Waiting(c)
         /\ requestPacket[c] = cpuPkt[c] /\ cpuPkt[c] \in Packet
<1>1. Waiting(c)
  BY TailElements DEF BaseInv, BaseTypeOK, BusTypeOK, GrantNext, Waiting
<1> QED  BY <1>1 DEF BaseInv, TransactionShape, RequestPacketLive, GrantNext

\* A grant starts the transaction of the cache's packet.
LEMMA GrantStep ==
  ASSUME BaseInv, NEW c \in Caches, GrantNext(c),
         NEW toMem \in BOOLEAN, NEW op \in BusOps,
         sendMemReq(requestPacket[c], toMem, op, c),
         requestPacket' = requestPacket
           \/ /\ requestPacket' = [requestPacket EXCEPT ![c] = NoPacket]
              /\ ~isCacheablePacket(requestPacket[c]),
         sharedWire' \in BOOLEAN,
         UNCHANGED <<cpuPkt, blocked, cpuRespQueue, memPortVars, memory>>
  PROVE  BaseInv'
<1>1. /\ Idle /\ currentGranted = NoCache
      /\ requestPacket[c] = cpuPkt[c] /\ cpuPkt[c] \in Packet
  BY GrantFinds
<1> DEFINE m == [pkt |-> cpuPkt[c], toMem |-> toMem, from |-> c]
<1>2. m \in MemReq /\ m.pkt = cpuPkt[c] /\ m.from = c
  BY <1>1 DEF MemReq
<1>3. memReqQueue' = <<m>> /\ Head(<<m>>) = m /\ <<m>> \in Seq(MemReq) /\ currBusOp' = op
  BY <1>1, <1>2 DEF Idle, sendMemReq
<1>4. /\ currentGranted' = c /\ grantEvent' = FALSE
      /\ busRequestQueue' = Tail(busRequestQueue)
      /\ busRequestQueue \in Seq(Caches) /\ busRequestQueue # <<>>
      /\ UNCHANGED <<cpuPkt, blocked, cpuRespQueue, blockedPacket, inMemory, memory>>
  BY DEF GrantNext, memPortVars, BaseInv, BaseTypeOK, BusTypeOK
<1>5. BaseTypeOK'
  <2>1. busRequestQueue' \in Seq(Caches)
    BY <1>4, TailElements
  <2> QED  BY <2>1, <1>3, <1>4 DEF BaseInv, BaseTypeOK, BusTypeOK
<1>6. TransactionShape'
  BY <1>1, <1>2, <1>3, <1>4, NobodyIsNoCache DEF TransactionShape, Idle, Queued
<1>7. GrantFindsBusFree' /\ NoLostGrant'
  BY <1>4, NobodyIsNoCache DEF GrantFindsBusFree, NoLostGrant
<1>8. BlockedAccounted' /\ \A d \in Caches : Waiting(d)' <=> Waiting(d) /\ d # c
  BY <1>4, GrantMoves DEF BaseInv, BaseTypeOK, BusTypeOK, ArbiterTypes
<1>9. RequestPacketLive'
  <2>1. \A d \in Caches : d # c => requestPacket'[d] = requestPacket[d]
    BY DEF BaseInv, BaseTypeOK
  <2>2. isCacheablePacket(cpuPkt[c]) => requestPacket'[c] = requestPacket[c]
    BY <1>1
  <2>3. ~Waiting(c)' /\ \A d \in Caches : currentGranted' = d => d = c
    BY <1>4, <1>8
  <2> QED  BY <1>1, <1>4, <1>8, <2>1, <2>2, <2>3
              DEF BaseInv, RequestPacketLive, isCacheablePacket
<1>10. ResponseAccounted'
  BY <1>4 DEF BaseInv, ResponseAccounted
<1>11. TransactionMatches'
  BY <1>1, <1>2, <1>3, <1>4 DEF Idle, TransactionMatches
<1> QED  BY <1>5, <1>6, <1>7, <1>8, <1>9, <1>10, <1>11 DEF BaseInv

LEMMA IdleGrantStep ==
  ASSUME BaseInv, IdleGrant
  PROVE  BaseInv'
<1>1. /\ grantEvent' = FALSE /\ currentGranted = NoCache /\ busRequestQueue = <<>>
      /\ UNCHANGED <<currentGranted, busRequestQueue, memReqQueue, currBusOp,
                     sharedWire, blockedPacket, inMemory, memory>>
      /\ UNCHANGED <<cpuPkt, blocked, requestPacket, cpuRespQueue>>
  BY DEF IdleGrant, GrantNobody, cpuSideVars, memPortVars
<1>2. BaseTypeOK'
  BY <1>1 DEF BaseInv, BaseTypeOK, BusTypeOK
<1>3. TransactionShape' /\ GrantFindsBusFree' /\ NoLostGrant' /\ BlockedAccounted'
  BY <1>1 DEF BaseInv, TransactionShape, Idle, GrantFindsBusFree, NoLostGrant,
     BlockedAccounted, Waiting
<1>4. RequestPacketLive' /\ ResponseAccounted'
  BY <1>1 DEF BaseInv, RequestPacketLive, Waiting, ResponseAccounted
<1>5. TransactionMatches'
  BY <1>1 DEF BaseInv, TransactionMatches
<1> QED  BY <1>2, <1>3, <1>4, <1>5 DEF BaseInv

\* What the bus has in hand when it takes up a transaction.
LEMMA QueuedFacts ==
  ASSUME BaseInv, NEW m, NextMemReq(m)
  PROVE  /\ m \in MemReq /\ memReqQueue = <<m>> /\ memReqQueue' = <<>>
         /\ m.from \in Caches /\ m.from = currentGranted
         /\ m.pkt = cpuPkt[m.from] /\ m.pkt \in Packet
         /\ blockedPacket = NoPacket /\ inMemory = {}
<1>1. memReqQueue # <<>> /\ currentGranted # NoCache
  BY DEF NextMemReq
<1>2. Queued
  BY <1>1 DEF BaseInv, TransactionShape, Refused, AtMemory
<1>3. PICK r \in MemReq : memReqQueue = <<r>> /\ r.from = currentGranted
  BY <1>2 DEF Queued
<1>4. Head(<<r>>) = r /\ Tail(<<r>>) = <<>>
  OBVIOUS
<1>5. m = r /\ memReqQueue' = <<>>
  BY <1>3, <1>4 DEF NextMemReq
<1>6. m.pkt = cpuPkt[m.from]
  BY <1>1, <1>3, <1>5 DEF BaseInv, TransactionMatches, NextMemReq
<1> QED  BY <1>2, <1>3, <1>5, <1>6 DEF Queued, MemReq

\* The bus hands a packet to memory, which takes or refuses it.
LEMMA ForwardStep ==
  ASSUME BaseInv, NEW m, NextMemReq(m), NEW q,
         q = IF isCacheablePacket(m.pkt) THEN generateAlignAccess(m.pkt) ELSE m.pkt,
         sendPacket([pkt |-> q, from |-> m.from]),
         sharedWire' \in BOOLEAN,
         memory' \in [Blocks -> [Words -> Values]],
         UNCHANGED <<cpuSideVars, arbiterVars, currBusOp>>
  PROVE  BaseInv'
<1>1. /\ m \in MemReq /\ memReqQueue = <<m>> /\ memReqQueue' = <<>>
      /\ m.from \in Caches /\ m.from = currentGranted
      /\ m.pkt = cpuPkt[m.from] /\ m.pkt \in Packet
      /\ blockedPacket = NoPacket /\ inMemory = {}
  BY QueuedFacts
<1>2. q \in Packet
  BY <1>1, AlignTyped
<1> DEFINE sent == [pkt |-> q, from |-> m.from]
           entry == [pkt |-> q, from |-> m.from, answered |-> FALSE]
<1>3. sent \in MemMsg /\ entry \in MemEntry /\ sent.from = m.from /\ entry.from = m.from
      /\ sent.pkt = q /\ entry.pkt = q
  BY <1>1, <1>2 DEF MemMsg, MemEntry
<1>4. \/ inMemory' = {entry} /\ blockedPacket' = NoPacket
      \/ inMemory' = {} /\ blockedPacket' = sent
  BY <1>1 DEF sendPacket, Accept
<1>5. UNCHANGED <<cpuPkt, blocked, requestPacket, cpuRespQueue, currentGranted,
                  busRequestQueue, grantEvent, currBusOp>>
  BY DEF cpuSideVars, arbiterVars
<1>6. BaseTypeOK'
  <2>1. blockedPacket' \in MemMsg \cup {NoPacket} /\ inMemory' \in SUBSET MemEntry
    BY <1>3, <1>4
  <2>2. memReqQueue' \in Seq(MemReq)
    BY <1>1
  <2> QED  BY <2>1, <2>2, <1>5 DEF BaseInv, BaseTypeOK, BusTypeOK
<1>7. currentGranted # NoCache
  BY <1>1, NobodyIsNoCache
<1>8. TransactionShape'
  BY <1>1, <1>3, <1>4, <1>5, <1>7, CpuPacketsTyped
     DEF TransactionShape, Refused, AtMemory
<1>9. GrantFindsBusFree' /\ NoLostGrant' /\ BlockedAccounted' /\ RequestPacketLive'
      /\ ResponseAccounted'
  BY <1>5 DEF BaseInv, GrantFindsBusFree, NoLostGrant, BlockedAccounted, Waiting,
     RequestPacketLive, ResponseAccounted
<1>10. TransactionMatches'
  <2>1. q = IF isCacheablePacket(cpuPkt[currentGranted])
              THEN generateAlignAccess(cpuPkt[currentGranted])
              ELSE cpuPkt[currentGranted]
    BY <1>1
  <2>2. memReqQueue' = <<>>
        /\ (blockedPacket' # NoPacket => blockedPacket'.pkt = q)
        /\ (\A e \in inMemory' : e.pkt = q)
    BY <1>1, <1>3, <1>4
  <2> QED  BY <1>5, <2>1, <2>2 DEF TransactionMatches, isCacheablePacket, generateAlignAccess
<1> QED  BY <1>6, <1>8, <1>9, <1>10 DEF BaseInv

\* The end of a cacheable transaction, fetched or not.
LEMMA FinishStep ==
  ASSUME BaseInv, NEW c \in Caches, currentGranted = c,
         NEW r \in Responses(cpuPkt[c]), NEW memoryFetch \in BOOLEAN,
         FinishTransaction(c, r, memoryFetch),
         memReqQueue' = <<>>, blockedPacket' = NoPacket, inMemory' = {},
         sharedWire' \in BOOLEAN,
         memory' \in [Blocks -> [Words -> Values]],
         UNCHANGED currBusOp
  PROVE  BaseInv'
<1>1. cpuPkt[c] \in Packet /\ cpuPkt[c] # NoPacket /\ r \in Packet
  BY CpuPacketsTyped, ResponsesTyped DEF BaseInv, RequestPacketLive
<1>2. blocked[c] /\ ~Waiting(c)
  BY NobodyIsNoCache DEF BaseInv, BlockedAccounted
<1>3. /\ Release(c)
      /\ blocked' = [blocked EXCEPT ![c] = FALSE]
      /\ cpuPkt' = cpuPkt
  BY DEF FinishTransaction
<1>4. cpuRespQueue' = [cpuRespQueue EXCEPT ![c] = <<r>>]
  <2>1. cpuRespQueue[c] = <<>>
    BY <1>2 DEF BaseInv, ResponseAccounted
  <2>2. Append(<<>>, r) = <<r>>
    OBVIOUS
  <2> QED  BY <2>1, <2>2 DEF FinishTransaction
<1>5. \A d \in Caches : d # c => requestPacket'[d] = requestPacket[d]
  BY DEF FinishTransaction, BaseInv, BaseTypeOK
<1>6. currentGranted' = NoCache /\ grantEvent' = TRUE /\ busRequestQueue' = busRequestQueue
  BY <1>3 DEF Release
<1>7. BaseTypeOK'
  <2>1. requestPacket' \in [Caches -> Packet \cup {NoPacket, Freed}]
    BY DEF FinishTransaction, BaseInv, BaseTypeOK
  <2>2. cpuRespQueue' \in [Caches -> Seq(Packet)]
    BY <1>1, <1>4 DEF BaseInv, BaseTypeOK
  <2>3. memReqQueue' \in Seq(MemReq) /\ inMemory' \in SUBSET MemEntry
    OBVIOUS
  <2> QED  BY <1>3, <1>6, <2>1, <2>2, <2>3 DEF BaseInv, BaseTypeOK, BusTypeOK
<1>8. TransactionShape' /\ GrantFindsBusFree' /\ NoLostGrant'
  BY <1>6 DEF TransactionShape, Idle, GrantFindsBusFree, NoLostGrant
<1>9. BlockedAccounted' /\ \A d : Waiting(d)' <=> Waiting(d)
  BY <1>3, ReleaseMoves DEF BaseInv, BaseTypeOK, BusTypeOK, ArbiterTypes
<1>10. RequestPacketLive'
  BY <1>2, <1>3, <1>5, <1>6, <1>9, NobodyIsNoCache DEF BaseInv, RequestPacketLive
<1>11. ResponseAccounted'
  BY <1>1, <1>3, <1>4 DEF BaseInv, BaseTypeOK, ResponseAccounted
<1>12. TransactionMatches'
  BY DEF TransactionMatches
<1> QED  BY <1>7, <1>8, <1>9, <1>10, <1>11, <1>12 DEF BaseInv

LEMMA CacheCompletesStep ==
  ASSUME BaseInv, NEW m, CacheCompletes(m)
  PROVE  BaseInv'
<1>1. /\ m.from \in Caches /\ currentGranted = m.from
      /\ m.pkt = cpuPkt[m.from] /\ m.pkt \in Packet
      /\ memReqQueue' = <<>> /\ blockedPacket = NoPacket /\ inMemory = {}
  BY QueuedFacts DEF CacheCompletes
<1>2. m.pkt \in Responses(cpuPkt[m.from])
  <2>1. m.pkt = [m.pkt EXCEPT !.data = m.pkt.data] /\ m.pkt.data \in [Words -> Values]
    BY <1>1 DEF Packet
  <2> QED  BY <1>1, <2>1 DEF Responses
<1>3. /\ FinishTransaction(m.from, m.pkt, FALSE)
      /\ blockedPacket' = NoPacket /\ inMemory' = {}
      /\ sharedWire' \in BOOLEAN
      /\ memory' \in [Blocks -> [Words -> Values]]
      /\ UNCHANGED currBusOp
  BY <1>1 DEF CacheCompletes, AnyWire, AnyWriteback, memPortVars
<1> QED  BY <1>1, <1>2, <1>3, FinishStep

\* What the bus has in hand when a response arrives.
LEMMA AnsweredFacts ==
  ASSUME BaseInv, NEW m, NEW c \in Caches, TakeResponse(m, c)
  PROVE  /\ currentGranted = c
         /\ m \in MemEntry /\ inMemory = {m} /\ inMemory' = {}
         /\ memReqQueue = <<>> /\ blockedPacket = NoPacket /\ blockedPacket' = NoPacket
         /\ cpuPkt[c] \in Packet /\ m.pkt.blk = cpuPkt[c].blk
<1>1. currentGranted = c /\ currentGranted # NoCache /\ m \in inMemory
      /\ inMemory' = inMemory \ {m} /\ blockedPacket' = blockedPacket
  BY DEF TakeResponse
<1>2. AtMemory
  BY <1>1 DEF BaseInv, TransactionShape, Queued, Refused
<1>3. m.pkt.blk = cpuPkt[c].blk
  BY <1>1 DEF BaseInv, TransactionMatches, generateAlignAccess
<1>4. cpuPkt[c] \in Packet
  BY <1>1 DEF BaseInv, RequestPacketLive
<1> QED  BY <1>1, <1>2, <1>3, <1>4 DEF AtMemory

LEMMA CacheFilledStep ==
  ASSUME BaseInv, NEW m, NEW c \in Caches, CacheFilled(m, c)
  PROVE  BaseInv'
<1>1. /\ currentGranted = c /\ inMemory' = {}
      /\ memReqQueue = <<>> /\ blockedPacket' = NoPacket
      /\ cpuPkt[c] \in Packet /\ m.pkt.blk = cpuPkt[c].blk
  BY AnsweredFacts DEF CacheFilled
<1>2. requestPacket[c] = cpuPkt[c]
  BY <1>1 DEF BaseInv, RequestPacketLive, CacheFilled, isCacheablePacket
<1>3. PICK r \in Responses(cpuPkt[c]) : FinishTransaction(c, r, TRUE)
  BY <1>2 DEF CacheFilled
<1>4. /\ memReqQueue' = <<>>
      /\ sharedWire' \in BOOLEAN
      /\ memory' \in [Blocks -> [Words -> Values]]
      /\ UNCHANGED currBusOp
  BY <1>1 DEF CacheFilled, AnyWire, AnyWriteback
<1> QED  BY <1>1, <1>3, <1>4, FinishStep

\* Memory takes the packet it refused.
LEMMA RecvReqRetryStep ==
  ASSUME BaseInv, RecvReqRetry, UNCHANGED cpuSideVars
  PROVE  BaseInv'
<1>1. blockedPacket # NoPacket /\ blockedPacket' = NoPacket
      /\ inMemory' = Accept(blockedPacket)
      /\ UNCHANGED <<currentGranted, busRequestQueue, grantEvent, memReqQueue, currBusOp,
                     sharedWire, memory, cpuPkt, blocked, requestPacket, cpuRespQueue>>
  BY DEF RecvReqRetry, arbiterVars, cpuSideVars
<1>2. Refused /\ currentGranted # NoCache
  BY <1>1 DEF BaseInv, TransactionShape, Idle, Queued, AtMemory
<1> DEFINE entry == [pkt |-> blockedPacket.pkt, from |-> blockedPacket.from,
                     answered |-> FALSE]
<1>3. /\ entry \in MemEntry
      /\ entry.from = currentGranted /\ entry.pkt = blockedPacket.pkt
  BY <1>2 DEF Refused, MemMsg, MemEntry
<1>4. inMemory' = {entry}
  BY <1>1, <1>2 DEF Accept, Refused
<1>5. BaseTypeOK'
  BY <1>1, <1>3, <1>4 DEF BaseInv, BaseTypeOK, BusTypeOK
<1>6. TransactionShape'
  BY <1>1, <1>2, <1>3, <1>4 DEF TransactionShape, Refused, AtMemory
<1>7. GrantFindsBusFree' /\ NoLostGrant' /\ BlockedAccounted' /\ RequestPacketLive'
      /\ ResponseAccounted'
  BY <1>1 DEF BaseInv, GrantFindsBusFree, NoLostGrant, BlockedAccounted, Waiting,
     RequestPacketLive, ResponseAccounted
<1>8. TransactionMatches'
  BY <1>1, <1>2, <1>3, <1>4 DEF BaseInv, TransactionMatches, Refused
<1> QED  BY <1>5, <1>6, <1>7, <1>8 DEF BaseInv

\* Memory performs the packet it took.
LEMMA MemAccessStep ==
  ASSUME BaseInv, NEW m, MemAccess(m), UNCHANGED cpuSideVars
  PROVE  BaseInv'
<1>1. /\ m \in inMemory
      /\ UNCHANGED <<currentGranted, busRequestQueue, grantEvent, memReqQueue, currBusOp,
                     sharedWire, blockedPacket>>
      /\ UNCHANGED <<cpuPkt, blocked, requestPacket, cpuRespQueue>>
  BY DEF MemAccess, arbiterVars, cpuSideVars
<1>2. AtMemory /\ currentGranted # NoCache
  BY <1>1 DEF BaseInv, TransactionShape, Idle, Queued, Refused
<1>3. /\ m \in MemEntry /\ inMemory = {m} /\ m.from = currentGranted
      /\ m.pkt \in Packet /\ m.pkt.blk \in Blocks
  BY <1>1, <1>2 DEF AtMemory, MemEntry, Packet
<1> DEFINE q == IF m.pkt.cmd = "Read"
                  THEN SetDataFromBlock(m.pkt, memory[m.pkt.blk]) ELSE m.pkt
           entry == [m EXCEPT !.answered = TRUE, !.pkt = q]
<1>4. q \in Packet /\ q.cmd = m.pkt.cmd /\ q.blk = m.pkt.blk /\ q.words = m.pkt.words
  BY <1>3, SetDataTyped DEF BaseInv, BaseTypeOK, BusTypeOK
<1>5. entry \in MemEntry /\ entry.from = m.from /\ entry.pkt = q
  BY <1>3, <1>4 DEF MemEntry
<1>6. inMemory' = {entry}
  BY <1>3 DEF MemAccess
<1>7. memory' \in [Blocks -> [Words -> Values]]
  <2>1. WriteDataToBlock(m.pkt, memory[m.pkt.blk]) \in [Words -> Values]
    BY <1>3, WriteDataTyped DEF BaseInv, BaseTypeOK, BusTypeOK
  <2> QED  BY <2>1, <1>3 DEF MemAccess, BaseInv, BaseTypeOK, BusTypeOK
<1>8. BaseTypeOK'
  BY <1>1, <1>5, <1>6, <1>7 DEF BaseInv, BaseTypeOK, BusTypeOK
<1>9. TransactionShape'
  <2>1. AtMemory'
    BY <1>1, <1>2, <1>3, <1>5, <1>6 DEF AtMemory
  <2> QED  BY <1>1, <1>2, <2>1 DEF TransactionShape
<1>10. GrantFindsBusFree' /\ NoLostGrant' /\ BlockedAccounted' /\ RequestPacketLive'
       /\ ResponseAccounted'
  BY <1>1 DEF BaseInv, GrantFindsBusFree, NoLostGrant, BlockedAccounted, Waiting,
     RequestPacketLive, ResponseAccounted
<1>11. TransactionMatches'
  <2>1. memReqQueue' = <<>> /\ blockedPacket' = NoPacket
    BY <1>1, <1>2 DEF AtMemory
  <2>2. \A e \in inMemory' : e.pkt.cmd = m.pkt.cmd /\ e.pkt.blk = m.pkt.blk
                             /\ e.pkt.words = m.pkt.words
    BY <1>4, <1>5, <1>6
  <2> QED  BY <1>1, <2>1, <2>2 DEF BaseInv, TransactionMatches
<1> QED  BY <1>8, <1>9, <1>10, <1>11 DEF BaseInv

LEMMA UncachedResponseStep ==
  ASSUME BaseInv, NEW m, NEW c \in Caches, UncachedResponse(m, c)
  PROVE  BaseInv'
<1>1. /\ currentGranted = c /\ inMemory' = {}
      /\ memReqQueue' = <<>> /\ blockedPacket' = NoPacket
      /\ cpuPkt[c] \in Packet
      /\ blocked' = [blocked EXCEPT ![c] = FALSE]
      /\ cpuPkt' = [cpuPkt EXCEPT ![c] = NoPacket]
      /\ Release(c)
      /\ UNCHANGED <<requestPacket, cpuRespQueue, currBusOp, sharedWire, memory>>
  BY AnsweredFacts DEF UncachedResponse
<1>2. blocked[c] /\ ~Waiting(c)
  BY <1>1, NobodyIsNoCache DEF BaseInv, BlockedAccounted
<1>3. cpuRespQueue[c] = <<>>
  BY <1>2 DEF BaseInv, ResponseAccounted
<1>4. currentGranted' = NoCache /\ grantEvent' = TRUE /\ busRequestQueue' = busRequestQueue
  BY <1>1 DEF Release
<1>5. BaseTypeOK'
  <2>1. memReqQueue' \in Seq(MemReq) /\ inMemory' \in SUBSET MemEntry
    BY <1>1
  <2> QED  BY <1>1, <1>4, <2>1 DEF BaseInv, BaseTypeOK, BusTypeOK
<1>6. TransactionShape' /\ GrantFindsBusFree' /\ NoLostGrant'
  BY <1>1, <1>4 DEF TransactionShape, Idle, GrantFindsBusFree, NoLostGrant
<1>7. BlockedAccounted' /\ \A d : Waiting(d)' <=> Waiting(d)
  BY <1>1, ReleaseMoves DEF BaseInv, BaseTypeOK, BusTypeOK, ArbiterTypes
<1>8. RequestPacketLive'
  BY <1>1, <1>2, <1>4, <1>7, NobodyIsNoCache
     DEF BaseInv, BaseTypeOK, RequestPacketLive
<1>9. ResponseAccounted'
  BY <1>1, <1>3 DEF BaseInv, BaseTypeOK, ResponseAccounted
<1>10. TransactionMatches'
  BY <1>1 DEF TransactionMatches
<1> QED  BY <1>5, <1>6, <1>7, <1>8, <1>9, <1>10 DEF BaseInv

LEMMA ProcessCpuRespStep ==
  ASSUME BaseInv, NEW c \in Caches, ProcessCpuResp(c)
  PROVE  BaseInv'
<1>1. /\ cpuRespQueue[c] # <<>>
      /\ cpuRespQueue' = [cpuRespQueue EXCEPT ![c] = <<>>]
      /\ cpuPkt' = [cpuPkt EXCEPT ![c] = NoPacket]
      /\ requestPacket' = [requestPacket EXCEPT ![c] = IF @ = NoPacket THEN @ ELSE Freed]
      /\ UNCHANGED <<blocked, memory, currentGranted, busRequestQueue, grantEvent,
                     memReqQueue, currBusOp, sharedWire, blockedPacket, inMemory>>
  BY DEF ProcessCpuResp, busVars, arbiterVars, memPortVars
<1>2. ~blocked[c]
  BY <1>1 DEF BaseInv, ResponseAccounted
<1>3. ~Waiting(c) /\ currentGranted # c
  BY <1>2 DEF BaseInv, BlockedAccounted
<1>4. BaseTypeOK'
  <2>1. cpuRespQueue' \in [Caches -> Seq(Packet)]
    BY <1>1 DEF BaseInv, BaseTypeOK
  <2>2. requestPacket' \in [Caches -> Packet \cup {NoPacket, Freed}]
    BY <1>1 DEF BaseInv, BaseTypeOK
  <2> QED  BY <1>1, <2>1, <2>2 DEF BaseInv, BaseTypeOK, BusTypeOK
<1>5. TransactionShape' /\ GrantFindsBusFree' /\ NoLostGrant' /\ BlockedAccounted'
  BY <1>1 DEF BaseInv, TransactionShape, Idle, Queued, Refused, AtMemory,
     GrantFindsBusFree, NoLostGrant, BlockedAccounted, Waiting
<1>6. RequestPacketLive'
  BY <1>1, <1>3 DEF BaseInv, BaseTypeOK, RequestPacketLive, Waiting
<1>7. ResponseAccounted'
  BY <1>1 DEF BaseInv, BaseTypeOK, ResponseAccounted
<1>8. TransactionMatches'
  <2>1. CASE currentGranted = NoCache
    BY <1>1, <2>1 DEF BaseInv, TransactionShape, Idle, TransactionMatches
  <2>2. CASE currentGranted # NoCache
    <3>1. cpuPkt'[currentGranted] = cpuPkt[currentGranted]
      BY <1>1, <1>3, <2>2 DEF BaseInv, BaseTypeOK, BusTypeOK
    <3> QED  BY <1>1, <3>1 DEF BaseInv, TransactionMatches
  <2> QED  BY <2>1, <2>2
<1> QED  BY <1>4, <1>5, <1>6, <1>7, <1>8 DEF BaseInv

-----------------------------------------------------------------------------
(* The invariant.                                                          *)

LEMMA BaseInvInit ==
  ASSUME BaseInit
  PROVE  BaseInv
<1> USE DEF BaseInit, BusInit
<1>1. BaseTypeOK
  <2>1. /\ currBusOp \in BusOps /\ currentGranted \in Caches \cup {NoCache}
        /\ blockedPacket \in MemMsg \cup {NoPacket} /\ inMemory \in SUBSET MemEntry
    BY DEF BusOps
  <2>2. busRequestQueue \in Seq(Caches) /\ memReqQueue \in Seq(MemReq)
    OBVIOUS
  <2>3. cpuRespQueue \in [Caches -> Seq(Packet)]
    OBVIOUS
  <2> QED  BY <2>1, <2>2, <2>3 DEF BaseTypeOK, BusTypeOK
<1>2. TransactionShape /\ GrantFindsBusFree /\ NoLostGrant
  BY DEF TransactionShape, Idle, GrantFindsBusFree, NoLostGrant
<1>3. \A d : ~Waiting(d)
  BY DEF Waiting
<1>4. BlockedAccounted /\ RequestPacketLive
  BY <1>3, NobodyIsNoCache DEF BlockedAccounted, RequestPacketLive
<1>5. ResponseAccounted /\ TransactionMatches
  BY DEF ResponseAccounted, TransactionMatches
<1> QED  BY <1>1, <1>2, <1>4, <1>5 DEF BaseInv

LEMMA BaseInvStep ==
  ASSUME BaseInv, [BaseNext]_baseVars
  PROVE  BaseInv'
<1>1. ASSUME NEW c \in Caches, NEW p \in CpuPackets,
             CacheAnswers(c, p) \/ CacheWaits(c, p) \/ UncachedRequest(c, p)
      PROVE  BaseInv'
  BY <1>1, AnswerAtOnceStep, WaitForBusStep DEF CacheAnswers, CacheWaits, UncachedRequest
<1>2. ASSUME NEW c \in Caches, CacheGranted(c)
      PROVE  BaseInv'
  <2>1. PICK toMem \in BOOLEAN, op \in BusOps : sendMemReq(requestPacket[c], toMem, op, c)
    BY <1>2 DEF CacheGranted
  <2> QED  BY <1>2, <2>1, GrantStep DEF CacheGranted, AnyWire, cpuSideVars
<1>3. ASSUME NEW c \in Caches, UncachedGrant(c)
      PROVE  BaseInv'
  <2>1. "BusRd" \in BusOps /\ sharedWire' \in BOOLEAN
    BY <1>3 DEF BusOps, UncachedGrant, BaseInv, BaseTypeOK, BusTypeOK
  <2> QED  BY <1>3, <2>1, GrantStep DEF UncachedGrant
<1>4. CASE IdleGrant
  BY <1>4, IdleGrantStep
<1>5. ASSUME NEW m, CacheFetches(m)
      PROVE  BaseInv'
  BY <1>5, ForwardStep DEF CacheFetches, AnyWire, AnyWriteback
<1>6. ASSUME NEW m, CacheCompletes(m)
      PROVE  BaseInv'
  BY <1>6, CacheCompletesStep
<1>7. ASSUME NEW m, UncachedForward(m)
      PROVE  BaseInv'
  <2>1. sharedWire' \in BOOLEAN /\ memory' \in [Blocks -> [Words -> Values]]
    BY <1>7 DEF UncachedForward, BaseInv, BaseTypeOK, BusTypeOK
  <2> QED  BY <1>7, <2>1, ForwardStep DEF UncachedForward
<1>8. CASE MemorySide
  BY <1>8, RecvReqRetryStep, MemAccessStep DEF MemorySide
<1>9. ASSUME NEW m, NEW c \in Caches, CacheFilled(m, c) \/ UncachedResponse(m, c)
      PROVE  BaseInv'
  BY <1>9, CacheFilledStep, UncachedResponseStep
<1>10. ASSUME NEW c \in Caches, ProcessCpuResp(c)
       PROVE  BaseInv'
  BY <1>10, ProcessCpuRespStep
<1>11. CASE UNCHANGED baseVars
  <2>1. UNCHANGED <<currentGranted, busRequestQueue, grantEvent, memReqQueue, currBusOp,
                    sharedWire, blockedPacket, inMemory, memory>>
        /\ UNCHANGED <<cpuPkt, blocked, requestPacket, cpuRespQueue>>
    BY <1>11 DEF baseVars, busVars, arbiterVars, memPortVars, cpuSideVars
  <2>2. BaseTypeOK' /\ TransactionShape' /\ GrantFindsBusFree' /\ NoLostGrant'
    BY <2>1 DEF BaseInv, BaseTypeOK, BusTypeOK, TransactionShape, Idle, Queued, Refused,
       AtMemory, GrantFindsBusFree, NoLostGrant
  <2>3. BlockedAccounted' /\ RequestPacketLive' /\ ResponseAccounted'
        /\ TransactionMatches'
    BY <2>1 DEF BaseInv, BlockedAccounted, Waiting, RequestPacketLive, ResponseAccounted,
       TransactionMatches
  <2> QED  BY <2>2, <2>3 DEF BaseInv
<1>12. CASE BaseNext
  BY <1>12, <1>1, <1>2, <1>3, <1>4, <1>5, <1>6, <1>7, <1>8, <1>9, <1>10 DEF BaseNext
<1> QED  BY <1>11, <1>12

\* A transaction is counted once.
LEMMA OneTransactionFollows ==
  ASSUME BaseInv
  PROVE  OneTransaction
<1>1. Cardinality({}) = 0 /\ \A x : Cardinality({x}) = 1
  BY FS_EmptySet, FS_Singleton
<1>2. Len(<<>>) = 0 /\ \A m : Len(<<m>>) = 1 /\ Head(<<m>>) = m
  OBVIOUS
<1>3. CASE currentGranted = NoCache
  BY <1>1, <1>2, <1>3 DEF BaseInv, TransactionShape, Idle, GrantFindsBusFree,
     OneTransaction, Outstanding
<1>4. CASE currentGranted # NoCache /\ Queued
  BY <1>1, <1>2, <1>4 DEF BaseInv, Queued, GrantFindsBusFree, OneTransaction, Outstanding
<1>5. CASE currentGranted # NoCache /\ Refused
  BY <1>1, <1>2, <1>5 DEF BaseInv, Refused, GrantFindsBusFree, OneTransaction, Outstanding
<1>6. CASE currentGranted # NoCache /\ AtMemory
  <2>1. PICK m \in MemEntry : inMemory = {m} /\ m.from = currentGranted
    BY <1>6 DEF AtMemory
  <2>2. Cardinality(inMemory) = 1
    BY <1>1, <2>1
  <2>3. Outstanding = 1 /\ memReqQueue = <<>> /\ blockedPacket = NoPacket
    BY <1>2, <1>6, <2>2 DEF AtMemory, Outstanding
  <2> QED  BY <1>6, <2>1, <2>3 DEF BaseInv, GrantFindsBusFree, OneTransaction
<1> QED  BY <1>3, <1>4, <1>5, <1>6 DEF BaseInv, TransactionShape

\* For any protocol on the base class: one transaction at a time, in one place,
\* of the cache that owns the bus; the grant, the queue and the blocked flags
\* agree; a CPU's packet is live while it is used and is answered once.
THEOREM BaseInvariant == BaseSpec => []BaseInv
<1>1. BaseInit => BaseInv
  BY BaseInvInit
<1>2. BaseInv /\ [BaseNext]_baseVars => BaseInv'
  BY BaseInvStep
<1> QED  BY <1>1, <1>2, PTL DEF BaseSpec

\* The bus has one transaction, in one place, of the cache it belongs to.
THEOREM BaseOneTransaction == BaseSpec => []OneTransaction
<1>1. BaseInv => OneTransaction
  BY OneTransactionFollows
<1> QED  BY <1>1, BaseInvariant, PTL

\* While somebody waits for the bus a grant is under way.
THEOREM BaseNoLostGrant == BaseSpec => []NoLostGrant
<1>1. BaseInv => NoLostGrant
  BY DEF BaseInv
<1> QED  BY <1>1, BaseInvariant, PTL

\* No packet of a CPU is lost, used after it is freed or answered twice: a
\* cache is blocked exactly while it waits for the bus or holds it, its kept
\* packet is live, and every other CPU has its one response on the way.
THEOREM BasePacketsAccounted == BaseSpec => []PacketsAccounted
<1>1. BaseInv => PacketsAccounted
  BY DEF BaseInv, PacketsAccounted
<1> QED  BY <1>1, BaseInvariant, PTL

\* Memory sees the granted cache's packet, aligned exactly when cacheable.
THEOREM BaseTransactionMatches == BaseSpec => []TransactionMatches
<1>1. BaseInv => TransactionMatches
  BY DEF BaseInv
<1> QED  BY <1>1, BaseInvariant, PTL

-----------------------------------------------------------------------------
(* The arbiter is fair.                                                    *)

\* The queue of waiting caches moves by requests and grants only.
LEMMA QueueMoves ==
  ASSUME [BaseNext]_baseVars
  PROVE  \/ UNCHANGED busRequestQueue
         \/ \E c \in Caches : Request(c) \/ GrantNext(c)
<1> USE DEF arbiterVars, busVars
<1>1. ASSUME NEW c \in Caches, NEW p \in CpuPackets,
             CacheAnswers(c, p) \/ CacheWaits(c, p) \/ UncachedRequest(c, p)
      PROVE  UNCHANGED busRequestQueue \/ Request(c)
  BY <1>1 DEF CacheAnswers, AnswerAtOnce, CacheWaits, UncachedRequest, WaitForBus
<1>2. ASSUME NEW c \in Caches, CacheGranted(c) \/ UncachedGrant(c)
      PROVE  GrantNext(c)
  BY <1>2 DEF CacheGranted, UncachedGrant
<1>3. CASE IdleGrant
  BY <1>3 DEF IdleGrant, GrantNobody
<1>4. ASSUME NEW m, CacheFetches(m) \/ CacheCompletes(m) \/ UncachedForward(m)
      PROVE  UNCHANGED busRequestQueue
  BY <1>4 DEF CacheFetches, CacheCompletes, FinishTransaction, Release, UncachedForward
<1>5. CASE MemorySide
  BY <1>5 DEF MemorySide, RecvReqRetry, MemAccess
<1>6. ASSUME NEW m, NEW c \in Caches, CacheFilled(m, c) \/ UncachedResponse(m, c)
      PROVE  UNCHANGED busRequestQueue
  BY <1>6 DEF CacheFilled, FinishTransaction, UncachedResponse, Release
<1>7. ASSUME NEW c \in Caches, ProcessCpuResp(c)
      PROVE  UNCHANGED busRequestQueue
  BY <1>7 DEF ProcessCpuResp
<1>8. CASE UNCHANGED baseVars
  BY <1>8 DEF baseVars
<1> QED  BY <1>1, <1>2, <1>3, <1>4, <1>5, <1>6, <1>7, <1>8 DEF BaseNext

\* A cache that waits is never overtaken, whatever the protocol and however
\* many caches compete.
THEOREM BaseNeverOvertaken == BaseSpec => NeverOvertaken
<1> DEFINE q == busRequestQueue
           Advances == \A i \in DOMAIN q :
                         \/ i = 1 /\ currentGranted' = q[i]
                         \/ \E j \in DOMAIN q' : j <= i /\ q'[j] = q[i]
<1>1. ASSUME BaseInv, [BaseNext]_baseVars PROVE [Advances]_q
  <2>1. q \in Seq(Caches)
    BY <1>1 DEF BaseInv, BaseTypeOK, BusTypeOK
  <2>2. ASSUME NEW c \in Caches, Request(c) PROVE Advances
    <3>1. DOMAIN q = 1 .. Len(q) /\ DOMAIN q' = 1 .. Len(q) + 1
          /\ Len(q) \in Nat /\ \A i \in 1 .. Len(q) : q'[i] = q[i]
      BY <2>1, <2>2, AppendElements DEF Request
    <3> QED  BY <3>1
  <2>3. ASSUME NEW c \in Caches, GrantNext(c) PROVE Advances
    <3>1. /\ DOMAIN q = 1 .. Len(q) /\ DOMAIN q' = 1 .. Len(q) - 1
          /\ Len(q) \in Nat /\ currentGranted' = q[1]
          /\ \A i \in 1 .. Len(q) - 1 : q'[i] = q[i + 1]
      BY <2>1, <2>3, TailElements DEF GrantNext
    <3> SUFFICES ASSUME NEW i \in 1 .. Len(q), i # 1
                 PROVE  \E j \in DOMAIN q' : j <= i /\ q'[j] = q[i]
      BY <3>1
    <3>2. i - 1 \in 1 .. Len(q) - 1 /\ q'[i - 1] = q[i]
      BY <3>1
    <3> QED  BY <3>1, <3>2
  <2> HIDE DEF Advances
  <2> QED  BY <1>1, <2>2, <2>3, QueueMoves
<1>2. BaseInv /\ [BaseNext]_baseVars => [Advances]_q
  BY <1>1
<1> QED  BY <1>2, BaseInvariant, PTL DEF BaseSpec, NeverOvertaken

-----------------------------------------------------------------------------
(* The way of a blocked cache to its answer.                               *)

\* A transaction under way has steps left, and a free bus has none.
LEMMA StepsLeft ==
  ASSUME BaseInv
  PROVE  IF currentGranted = NoCache THEN StepsToRelease = 0 ELSE StepsToRelease \in 1..4
<1> USE DEF StepsToRelease
<1>1. CASE Queued
  <2>1. memReqQueue # <<>>
    BY <1>1 DEF Queued
  <2> QED  BY <2>1 DEF BaseInv, TransactionShape, Idle
<1>2. CASE Refused
  <2>1. memReqQueue = <<>> /\ blockedPacket # NoPacket
    BY <1>2 DEF Refused
  <2> QED  BY <2>1 DEF BaseInv, TransactionShape, Idle
<1>3. CASE AtMemory
  <2>1. memReqQueue = <<>> /\ blockedPacket = NoPacket /\ inMemory # {}
    BY <1>3 DEF AtMemory
  <2> QED  BY <2>1 DEF BaseInv, TransactionShape, Idle
<1>4. CASE Idle
  BY <1>1, <1>2, <1>3, <1>4 DEF BaseInv, TransactionShape, Idle
<1> QED  BY <1>1, <1>2, <1>3, <1>4 DEF BaseInv, TransactionShape

\* While a CPU waits without a response, its cache is blocked, so it waits for
\* a bus that is taken or granted next, or has it.
LEMMA NobodyStuckFollows ==
  ASSUME BaseInv
  PROVE  NobodyStuck
<1> SUFFICES ASSUME NEW c \in Caches, cpuPkt[c] # NoPacket, cpuRespQueue[c] = <<>>
             PROVE  BusCanMove
  BY DEF NobodyStuck
<1>1. blocked[c]
  <2>1. \A r : <<r>> # <<>>
    OBVIOUS
  <2> QED  BY <2>1 DEF BaseInv, ResponseAccounted
<1>2. CASE currentGranted # NoCache
  <2>1. StepsToRelease \in 1..4
    BY <1>2, StepsLeft
  <2> QED  BY <1>2, <2>1 DEF StepsToRelease, BusCanMove
<1>3. CASE currentGranted = NoCache
  <2>1. Waiting(c)
    BY <1>1, <1>3, NobodyIsNoCache DEF BaseInv, BlockedAccounted
  <2>2. busRequestQueue # <<>>
    BY <2>1 DEF Waiting
  <2> QED  BY <1>3, <2>2 DEF BaseInv, NoLostGrant, BusCanMove
<1> QED  BY <1>2, <1>3

\* The caches and the bus never all wait for each other.
THEOREM BaseNobodyStuck == BaseSpec => []NobodyStuck
<1>1. BaseInv => NobodyStuck
  BY NobodyStuckFollows
<1> QED  BY <1>1, BaseInvariant, PTL

\* A step moves neither the owner nor its transaction, though a cache may ask
\* for the bus; or grants the bus; or moves the transaction on; or ends it.
OwnerAndTransactionStay ==
  /\ UNCHANGED <<currentGranted, memReqQueue, blockedPacket, inMemory>>
  /\ UNCHANGED busRequestQueue \/ \E d \in Caches : ~blocked[d] /\ Request(d)
  /\ \A d \in Caches : ~Waiting(d) /\ currentGranted # d => ~blocked[d]

BusIsGranted ==
  \E d \in Caches : GrantNext(d) /\ memReqQueue' # <<>>

TransactionMovesOn ==
  UNCHANGED <<currentGranted, busRequestQueue>> /\ StepsToRelease' < StepsToRelease

BusIsReleased ==
  /\ currentGranted \in Caches
  /\ Release(currentGranted) /\ blocked' = [blocked EXCEPT ![currentGranted] = FALSE]
  /\ StepsToRelease' = 0

LEMMA StepKinds ==
  ASSUME BaseInv, [BaseNext]_baseVars
  PROVE  \/ OwnerAndTransactionStay \/ BusIsGranted
         \/ TransactionMovesOn \/ BusIsReleased
<1> USE DEF arbiterVars, busVars, memPortVars, cpuSideVars
<1>1. \A d \in Caches : ~Waiting(d) /\ currentGranted # d => ~blocked[d]
  BY DEF BaseInv, BlockedAccounted
<1>2. ASSUME NEW c \in Caches, NEW p \in CpuPackets,
             CacheAnswers(c, p) \/ CacheWaits(c, p) \/ UncachedRequest(c, p)
      PROVE  OwnerAndTransactionStay
  <2>1. CASE CacheAnswers(c, p)
    BY <1>1, <2>1 DEF CacheAnswers, AnswerAtOnce, OwnerAndTransactionStay
  <2>2. CASE WaitForBus(c, p)
    BY <1>1, <2>2 DEF WaitForBus, AcceptFromCpu, Request, OwnerAndTransactionStay
  <2> QED  BY <1>2, <2>1, <2>2 DEF CacheWaits, UncachedRequest
<1>3. ASSUME NEW c \in Caches, CacheGranted(c) \/ UncachedGrant(c)
      PROVE  BusIsGranted
  <2>1. GrantNext(c) /\ \E toMem \in BOOLEAN, op \in BusOps : sendMemReq(requestPacket[c], toMem, op, c)
    BY <1>3 DEF CacheGranted, UncachedGrant, BusOps
  <2>2. memReqQueue \in Seq(MemReq) /\ currentGranted = NoCache
    BY <2>1 DEF BaseInv, BaseTypeOK, BusTypeOK, GrantNext
  <2>3. memReqQueue = <<>>
    BY <2>2 DEF BaseInv, TransactionShape, Idle
  <2>4. \A e : Append(<<>>, e) = <<e>> /\ <<e>> # <<>>
    OBVIOUS
  <2> QED  BY <2>1, <2>3, <2>4 DEF sendMemReq, BusIsGranted
<1>4. CASE IdleGrant
  BY <1>1, <1>4 DEF IdleGrant, GrantNobody, OwnerAndTransactionStay
<1>5. ASSUME NEW m, NextMemReq(m) PROVE StepsToRelease = 4 /\ memReqQueue' = <<>>
  BY <1>5, QueuedFacts DEF NextMemReq, StepsToRelease
<1>6. ASSUME NEW m, CacheFetches(m) \/ UncachedForward(m)
      PROVE  TransactionMovesOn
  <2>1. NextMemReq(m) /\ UNCHANGED <<currentGranted, busRequestQueue>>
    BY <1>6 DEF CacheFetches, UncachedForward
  <2>2. StepsToRelease = 4 /\ memReqQueue' = <<>>
    BY <1>5, <2>1
  <2>3. StepsToRelease' \in 0..3
    BY <2>2 DEF StepsToRelease
  <2> QED  BY <2>1, <2>2, <2>3 DEF TransactionMovesOn
<1>7. ASSUME NEW m, CacheCompletes(m)
      PROVE  BusIsReleased
  <2>1. NextMemReq(m) /\ FinishTransaction(m.from, m.pkt, FALSE)
        /\ UNCHANGED <<blockedPacket, inMemory>>
    BY <1>7 DEF CacheCompletes
  <2>2. /\ m.from = currentGranted /\ m.from \in Caches /\ memReqQueue' = <<>>
        /\ blockedPacket = NoPacket /\ inMemory = {}
    BY <2>1, QueuedFacts
  <2>3. StepsToRelease' = 0
    BY <2>1, <2>2 DEF StepsToRelease
  <2> QED  BY <2>1, <2>2, <2>3 DEF FinishTransaction, BusIsReleased
<1>8. CASE RecvReqRetry
  <2>1. blockedPacket # NoPacket /\ blockedPacket' = NoPacket
        /\ UNCHANGED <<currentGranted, busRequestQueue, memReqQueue>>
    BY <1>8 DEF RecvReqRetry
  <2>2. memReqQueue = <<>>
    BY <2>1 DEF BaseInv, TransactionShape, Idle, Queued, Refused, AtMemory
  <2>3. StepsToRelease = 3 /\ StepsToRelease' \in 0..2
    BY <2>1, <2>2 DEF StepsToRelease
  <2> QED  BY <2>1, <2>3 DEF TransactionMovesOn
<1>9. ASSUME NEW m \in inMemory, MemAccess(m)
      PROVE  TransactionMovesOn
  <2>1. /\ ~m.answered
        /\ UNCHANGED <<currentGranted, busRequestQueue, memReqQueue, blockedPacket>>
    BY <1>9 DEF MemAccess
  <2>2. AtMemory
    BY DEF BaseInv, TransactionShape, Idle, Queued, Refused
  <2>3. PICK e \in MemEntry : inMemory = {e}
    BY <2>2 DEF AtMemory
  <2>4. m = e /\ m \in MemEntry
    BY <2>3
  <2>5. PICK q : inMemory' = (inMemory \ {m}) \cup {[m EXCEPT !.answered = TRUE, !.pkt = q]}
    BY <1>9 DEF MemAccess
  <2>6. inMemory' = {[m EXCEPT !.answered = TRUE, !.pkt = q]}
    BY <2>3, <2>4, <2>5
  <2>7. [m EXCEPT !.answered = TRUE, !.pkt = q].answered = TRUE
    BY <2>4 DEF MemEntry
  <2>8. StepsToRelease = 2
    BY <2>1, <2>2 DEF AtMemory, StepsToRelease
  <2>9. \A f \in inMemory' : f.answered
    BY <2>6, <2>7
  <2>10. StepsToRelease' = 1
    BY <2>1, <2>2, <2>6, <2>9 DEF AtMemory, StepsToRelease
  <2> QED  BY <2>1, <2>8, <2>10 DEF TransactionMovesOn
<1>10. ASSUME NEW m, NEW c \in Caches, CacheFilled(m, c) \/ UncachedResponse(m, c)
       PROVE  BusIsReleased
  <2>1. TakeResponse(m, c) /\ memReqQueue' = memReqQueue /\ Release(c)
        /\ blocked' = [blocked EXCEPT ![c] = FALSE]
    BY <1>10 DEF CacheFilled, UncachedResponse, FinishTransaction
  <2>2. /\ currentGranted = c /\ inMemory' = {}
        /\ memReqQueue' = <<>> /\ blockedPacket' = NoPacket
    BY <2>1, AnsweredFacts
  <2>3. StepsToRelease' = 0
    BY <2>2 DEF StepsToRelease
  <2> QED  BY <2>1, <2>2, <2>3 DEF BusIsReleased
<1>11. ASSUME NEW c \in Caches, ProcessCpuResp(c)
       PROVE  OwnerAndTransactionStay
  BY <1>1, <1>11 DEF ProcessCpuResp, OwnerAndTransactionStay
<1>12. CASE UNCHANGED baseVars
  BY <1>1, <1>12 DEF baseVars, OwnerAndTransactionStay
<1> QED  BY <1>2, <1>3, <1>4, <1>6, <1>7, <1>8, <1>9, <1>10, <1>11, <1>12
         DEF BaseNext, MemorySide

\* A cache is in one place of the queue.
LEMMA OnePlace ==
  ASSUME NEW q, NEW c, NEW i \in DOMAIN q, q[i] = c,
         \A j, k \in DOMAIN q : q[j] = q[k] => j = k
  PROVE  (CHOOSE j \in DOMAIN q : q[j] = c) = i
  OBVIOUS

\* However many caches compete and whatever the protocol on top does, a cache
\* that waits for its answer comes closer with every step of the bus: it waits
\* for no more than five steps for every cache in front of it and its own
\* transaction.
THEOREM BaseWaitShrinks == BaseSpec => WaitShrinks
<1> DEFINE q == busRequestQueue
           Stays == UNCHANGED <<currentGranted, memReqQueue, blockedPacket, inMemory>>
           Shrinks(c) == IF Stays THEN Distance(c)' = Distance(c)
                                  ELSE Distance(c)' < Distance(c)
<1>1. ASSUME BaseInv, BaseInv', [BaseNext]_baseVars,
             NEW c \in Caches, blocked[c], blocked'[c]
      PROVE  Shrinks(c)
  <2>1. /\ q \in Seq(Caches)
        /\ \A j, k \in DOMAIN q : q[j] = q[k] => j = k
        /\ \A j, k \in DOMAIN q' : q'[j] = q'[k] => j = k
    BY <1>1 DEF BaseInv, BaseTypeOK, BusTypeOK, BlockedAccounted
  <2>2. Len(q) \in Nat /\ DOMAIN q = 1 .. Len(q)
    BY <2>1
  <2>3. StepsToRelease \in 0..4 /\ (currentGranted = NoCache => StepsToRelease = 0)
        /\ (currentGranted # NoCache => StepsToRelease > 0)
    BY <1>1, StepsLeft
  <2>4. \/ currentGranted = c /\ Place(c) = 0
        \/ /\ currentGranted # c
           /\ Place(c) \in DOMAIN q /\ Place(c) \in Nat \ {0} /\ q[Place(c)] = c
    <3>1. CASE currentGranted = c
      BY <3>1 DEF Place
    <3>2. CASE currentGranted # c
      <4>1. PICK i \in DOMAIN q : q[i] = c
        BY <1>1, <3>2 DEF BaseInv, BlockedAccounted, Waiting
      <4>2. Place(c) = i
        BY <2>1, <3>2, <4>1, OnePlace DEF Place
      <4> QED  BY <2>2, <3>2, <4>1, <4>2
    <3> QED  BY <3>1, <3>2
  <2>5. \A i \in DOMAIN q' : currentGranted' # c /\ q'[i] = c => Place(c)' = i
    BY <2>1, OnePlace DEF Place
  <2>6. CASE OwnerAndTransactionStay
    <3>1. Stays /\ StepsToRelease' = StepsToRelease /\ currentGranted' = currentGranted
      BY <2>6 DEF OwnerAndTransactionStay, StepsToRelease
    <3>2. Place(c)' = Place(c)
      <4>1. CASE currentGranted = c
        BY <3>1, <4>1 DEF Place
      <4>2. CASE currentGranted # c /\ UNCHANGED q
        BY <3>1, <4>2 DEF Place
      <4>3. ASSUME NEW d \in Caches, Request(d), currentGranted # c PROVE Place(c)' = Place(c)
        <5>1. Place(c) \in DOMAIN q' /\ q'[Place(c)] = c
          BY <2>1, <2>2, <2>4, <4>3, AppendElements DEF Request
        <5> QED  BY <2>5, <3>1, <4>3, <5>1
      <4> QED  BY <2>6, <4>1, <4>2, <4>3 DEF OwnerAndTransactionStay
    <3> QED  BY <3>1, <3>2 DEF Distance
  <2>7. CASE BusIsGranted
    <3>1. PICK d \in Caches : GrantNext(d) /\ memReqQueue' # <<>>
      BY <2>7 DEF BusIsGranted
    <3>2. /\ currentGranted = NoCache /\ currentGranted' = d /\ d # NoCache
          /\ StepsToRelease = 0 /\ StepsToRelease' = 4 /\ ~Stays
      BY <2>3, <3>1, NobodyIsNoCache DEF GrantNext, StepsToRelease
    <3>3. /\ q[1] = d /\ DOMAIN q' = 1 .. Len(q) - 1
          /\ \A i \in 1 .. Len(q) - 1 : q'[i] = q[i + 1]
      BY <2>1, <3>1, TailElements DEF GrantNext
    <3>4. c # NoCache
      BY NobodyIsNoCache
    <3>5. Place(c) \in 1 .. Len(q) /\ q[Place(c)] = c
      BY <2>2, <2>4, <3>2, <3>4
    <3>6. CASE c = d
      <4>1. Place(c)' = 0
        BY <3>2, <3>6 DEF Place
      <4> QED  BY <2>2, <3>2, <3>5, <4>1 DEF Distance
    <3>7. CASE c # d
      <4>1. Place(c) # 1
        BY <3>3, <3>5, <3>7
      <4>2. Place(c) - 1 \in DOMAIN q' /\ q'[Place(c) - 1] = c
        BY <2>2, <3>3, <3>5, <4>1
      <4>3. Place(c)' = Place(c) - 1
        BY <2>5, <3>2, <3>7, <4>2
      <4> QED  BY <2>2, <3>2, <3>5, <4>3 DEF Distance
    <3> QED  BY <3>6, <3>7
  <2>8. CASE TransactionMovesOn
    <3>1. Place(c)' = Place(c) /\ StepsToRelease' < StepsToRelease
      BY <2>8 DEF TransactionMovesOn, Place
    <3>2. ~Stays
      <4> SUFFICES ASSUME Stays PROVE FALSE
        OBVIOUS
      <4>1. StepsToRelease' = StepsToRelease
        BY DEF StepsToRelease
      <4> QED  BY <2>3, <3>1, <4>1
    <3>3. StepsToRelease' \in 0..4 /\ Place(c) \in Nat
      BY <2>4 DEF StepsToRelease
    <3> QED  BY <2>3, <3>1, <3>2, <3>3 DEF Distance
  <2>9. CASE BusIsReleased
    <3>1. /\ currentGranted # NoCache /\ currentGranted' = NoCache /\ q' = q
          /\ StepsToRelease' = 0 /\ blocked'[currentGranted] = FALSE
      BY <1>1, <2>9, NobodyIsNoCache
         DEF BusIsReleased, Release, BaseInv, BaseTypeOK
    <3>2. currentGranted # c /\ currentGranted' # c /\ ~Stays
      BY <1>1, <3>1, NobodyIsNoCache
    <3>3. Place(c)' = Place(c)
      BY <3>1, <3>2 DEF Place
    <3>4. Place(c) \in Nat
      BY <2>4, <3>2
    <3> QED  BY <2>3, <3>1, <3>2, <3>3, <3>4 DEF Distance
  <2> HIDE DEF Shrinks
  <2> QED  BY <1>1, <2>6, <2>7, <2>8, <2>9, StepKinds
<1>2. BaseInv /\ BaseInv' /\ [BaseNext]_baseVars =>
        [\A c \in Caches : blocked[c] /\ blocked'[c] => Shrinks(c)]_baseVars
  <2> HIDE DEF Shrinks
  <2> QED  BY <1>1
<1> QED  BY <1>2, BaseInvariant, PTL DEF BaseSpec, WaitShrinks

-----------------------------------------------------------------------------
(* The access of a CPU: what each step does to Operation and Answered.     *)

\* The packet of an uncached transaction goes to memory as the CPU sent it.
PacketCarried ==
  currentGranted # NoCache /\ ~isCacheablePacket(CurrentPacket) =>
    /\ blockedPacket # NoPacket => blockedPacket.pkt = CurrentPacket
    /\ \A m \in inMemory : ~m.answered => m.pkt = CurrentPacket

SameAccess(d) == Operation(d)' = Operation(d) /\ (Answered(d)' <=> Answered(d))

\* The step leaves the accesses of the other CPUs alone.
OthersSame(c) == \A d \in Caches \ {c} : SameAccess(d)

\* Memory holds at most the granted cache's packet, which is not answered yet.
LEMMA AccessFacts ==
  ASSUME BaseInv, NEW c \in Caches
  PROVE  /\ currentGranted # c => UncachedAnswer(c) = {}
         /\ currentGranted = c => cpuRespQueue[c] = <<>> /\ cpuPkt[c] \in Packet
         /\ Waiting(c) => cpuRespQueue[c] = <<>>
         /\ cpuPkt[c] = NoPacket =>
              /\ currentGranted # c /\ cpuRespQueue[c] = <<>>
              /\ Operation(c) = NoPacket /\ ~Answered(c)
<1>1. \A m \in inMemory : m.from = currentGranted
  BY DEF BaseInv, TransactionShape, Idle, Queued, Refused, AtMemory
<1>2. currentGranted # c => UncachedAnswer(c) = {}
  BY <1>1 DEF UncachedAnswer
<1>3. currentGranted = c => cpuRespQueue[c] = <<>> /\ cpuPkt[c] \in Packet
  BY DEF BaseInv, BlockedAccounted, ResponseAccounted, RequestPacketLive
<1>4. Waiting(c) => cpuRespQueue[c] = <<>>
  BY DEF BaseInv, BlockedAccounted, ResponseAccounted
<1>5. ASSUME cpuPkt[c] = NoPacket
      PROVE  currentGranted # c /\ cpuRespQueue[c] = <<>>
  BY <1>3, <1>5, CpuPacketsTyped DEF BaseInv, ResponseAccounted
<1>6. ASSUME cpuPkt[c] = NoPacket
      PROVE  Operation(c) = NoPacket /\ ~Answered(c)
  BY <1>2, <1>5, <1>6 DEF Operation, Answered
<1> QED  BY <1>2, <1>3, <1>4, <1>5, <1>6

LEMMA SameAccessFrom ==
  ASSUME NEW d, cpuRespQueue'[d] = cpuRespQueue[d], cpuPkt'[d] = cpuPkt[d],
         UncachedAnswer(d)' = UncachedAnswer(d)
  PROVE  SameAccess(d)
  BY DEF SameAccess, Operation, Answered

\* A step that leaves memory's packets alone.
LEMMA QuietAccess ==
  ASSUME UNCHANGED <<inMemory, cpuPkt, cpuRespQueue>>, NEW d
  PROVE  SameAccess(d)
<1>1. UncachedAnswer(d)' = UncachedAnswer(d)
  BY DEF UncachedAnswer, isCacheablePacket
<1> QED  BY <1>1, SameAccessFrom

LEMMA AnswerAccess ==
  ASSUME BaseInv, NEW c \in Caches, NEW p, NEW r, AnswerAtOnce(c, p, r)
  PROVE  /\ Operation(c) = NoPacket /\ ~Answered(c) /\ currentGranted # c
         /\ Operation(c)' = r /\ Answered(c)'
         /\ OthersSame(c)
<1>1. /\ cpuPkt[c] = NoPacket /\ inMemory' = inMemory
      /\ cpuPkt' = [cpuPkt EXCEPT ![c] = p]
      /\ cpuRespQueue' = [cpuRespQueue EXCEPT ![c] = Append(@, r)]
  BY DEF AnswerAtOnce, AcceptFromCpu, busVars, memPortVars
<1>2. /\ Operation(c) = NoPacket /\ ~Answered(c) /\ currentGranted # c
      /\ cpuRespQueue[c] = <<>>
  BY <1>1, AccessFacts
<1>3. cpuRespQueue'[c] = <<r>>
  BY <1>1, <1>2 DEF BaseInv, BaseTypeOK
<1>4. Operation(c)' = r /\ Answered(c)'
  BY <1>3 DEF Operation, Answered
<1>5. OthersSame(c)
  <2> SUFFICES ASSUME NEW d \in Caches \ {c} PROVE SameAccess(d)
    BY DEF OthersSame
  <2>1. UncachedAnswer(d)' = UncachedAnswer(d)
    BY <1>1 DEF UncachedAnswer, isCacheablePacket
  <2>2. cpuRespQueue'[d] = cpuRespQueue[d] /\ cpuPkt'[d] = cpuPkt[d]
    BY <1>1 DEF BaseInv, BaseTypeOK
  <2> QED  BY <2>1, <2>2, SameAccessFrom
<1> QED  BY <1>2, <1>4, <1>5

LEMMA WaitAccess ==
  ASSUME BaseInv, NEW c \in Caches, NEW p, WaitForBus(c, p)
  PROVE  /\ Operation(c) = NoPacket /\ ~Answered(c) /\ currentGranted # c
         /\ Operation(c)' = p /\ ~Answered(c)'
         /\ OthersSame(c)
<1>1. /\ cpuPkt[c] = NoPacket /\ inMemory' = inMemory
      /\ cpuPkt' = [cpuPkt EXCEPT ![c] = p]
      /\ cpuRespQueue' = cpuRespQueue
  BY DEF WaitForBus, AcceptFromCpu, memPortVars
<1>2. /\ Operation(c) = NoPacket /\ ~Answered(c) /\ currentGranted # c
      /\ cpuRespQueue[c] = <<>> /\ UncachedAnswer(c) = {}
  BY <1>1, AccessFacts
<1>3. \A d : UncachedAnswer(d)' = UncachedAnswer(d)
  BY <1>1 DEF UncachedAnswer, isCacheablePacket
<1>4. cpuPkt'[c] = p
  BY <1>1 DEF BaseInv, BaseTypeOK
<1>5. Operation(c)' = p /\ ~Answered(c)'
  BY <1>1, <1>2, <1>3, <1>4 DEF Operation, Answered
<1>6. OthersSame(c)
  BY <1>1, <1>3, SameAccessFrom DEF OthersSame, BaseInv, BaseTypeOK
<1> QED  BY <1>2, <1>5, <1>6

\* A packet on its way to memory is not an answer.
LEMMA SendAccess ==
  ASSUME NEW msg, sendPacket(msg), UNCHANGED <<cpuPkt, cpuRespQueue>>, NEW d
  PROVE  SameAccess(d)
<1>1. inMemory' = inMemory \/ inMemory' = Accept(msg)
  BY DEF sendPacket
<1>2. UncachedAnswer(d)' = UncachedAnswer(d)
  BY <1>1 DEF UncachedAnswer, isCacheablePacket, Accept
<1> QED  BY <1>2, SameAccessFrom

LEMMA RetryAccess ==
  ASSUME RecvReqRetry, UNCHANGED <<cpuPkt, cpuRespQueue>>, NEW d
  PROVE  SameAccess(d)
<1>1. inMemory' = Accept(blockedPacket)
  BY DEF RecvReqRetry
<1>2. UncachedAnswer(d)' = UncachedAnswer(d)
  BY <1>1 DEF UncachedAnswer, isCacheablePacket, Accept
<1> QED  BY <1>2, SameAccessFrom

\* A cacheable transaction ends: the response is the answer.
LEMMA FinishAccess ==
  ASSUME BaseInv, NEW c \in Caches, currentGranted = c, NEW r, NEW fetched,
         \A m \in inMemory : isCacheablePacket(m.pkt),
         inMemory' \subseteq inMemory,
         FinishTransaction(c, r, fetched)
  PROVE  /\ Operation(c) = cpuPkt[c] /\ cpuPkt[c] \in Packet /\ ~Answered(c)
         /\ Operation(c)' = r /\ Answered(c)'
         /\ OthersSame(c) /\ currentGranted' = NoCache
<1>1. cpuRespQueue[c] = <<>> /\ cpuPkt[c] \in Packet
  BY AccessFacts
<1>2. /\ cpuRespQueue' = [cpuRespQueue EXCEPT ![c] = Append(@, r)]
      /\ cpuPkt' = cpuPkt /\ currentGranted' = NoCache
  BY DEF FinishTransaction, Release
<1>3. \A d : UncachedAnswer(d) = {} /\ UncachedAnswer(d)' = {}
  BY DEF UncachedAnswer, isCacheablePacket
<1>4. Operation(c) = cpuPkt[c] /\ ~Answered(c)
  BY <1>1, <1>3 DEF Operation, Answered
<1>5. cpuRespQueue'[c] = <<r>>
  BY <1>1, <1>2 DEF BaseInv, BaseTypeOK
<1>6. Operation(c)' = r /\ Answered(c)'
  BY <1>5 DEF Operation, Answered
<1>7. OthersSame(c)
  <2> SUFFICES ASSUME NEW d \in Caches \ {c} PROVE SameAccess(d)
    BY DEF OthersSame
  <2>1. cpuRespQueue'[d] = cpuRespQueue[d] /\ cpuPkt'[d] = cpuPkt[d]
    BY <1>2 DEF BaseInv, BaseTypeOK
  <2>2. UncachedAnswer(d)' = UncachedAnswer(d)
    BY <1>3
  <2> QED  BY <2>1, <2>2, SameAccessFrom
<1> QED  BY <1>1, <1>2, <1>4, <1>6, <1>7

\* Memory performs the read of a cacheable transaction.
LEMMA FetchAccess ==
  ASSUME BaseInv, NEW m, MemAccess(m), UNCHANGED cpuSideVars,
         isCacheablePacket(CurrentPacket), NEW d
  PROVE  SameAccess(d)
<1>1. /\ m \in inMemory /\ UNCHANGED <<cpuPkt, cpuRespQueue>>
  BY DEF MemAccess, cpuSideVars
<1>2. AtMemory
  BY <1>1 DEF BaseInv, TransactionShape, Idle, Queued, Refused
<1>3. inMemory = {m} /\ m \in MemEntry
  BY <1>1, <1>2 DEF AtMemory
<1>4. m.pkt \in Packet /\ isCacheablePacket(m.pkt)
  BY <1>1, <1>3 DEF BaseInv, TransactionMatches, CurrentPacket, isCacheablePacket,
     generateAlignAccess, MemEntry
<1>5. \A e \in inMemory' : e.pkt.blk = m.pkt.blk
  <2>1. SetDataFromBlock(m.pkt, memory[m.pkt.blk]).blk = m.pkt.blk
    BY <1>4 DEF SetDataFromBlock, Packet
  <2> QED  BY <1>3, <2>1 DEF MemAccess, MemEntry
<1>6. UncachedAnswer(d) = {} /\ UncachedAnswer(d)' = {}
  BY <1>3, <1>4, <1>5 DEF UncachedAnswer, isCacheablePacket
<1> QED  BY <1>1, <1>6, SameAccessFrom

\* Memory performs an uncached access, which answers it.
LEMMA UncachedAccess ==
  ASSUME BaseInv, PacketCarried, NEW m, MemAccess(m), UNCHANGED cpuSideVars,
         ~isCacheablePacket(CurrentPacket), NEW c, c = currentGranted
  PROVE  /\ c \in Caches /\ Operation(c) = cpuPkt[c] /\ cpuPkt[c] \in Packet /\ ~Answered(c)
         /\ m.pkt = cpuPkt[c]
         /\ Operation(c)' = IF m.pkt.cmd = "Read"
                              THEN SetDataFromBlock(m.pkt, memory[m.pkt.blk]) ELSE m.pkt
         /\ Answered(c)'
         /\ OthersSame(c)
<1>1. /\ m \in inMemory /\ ~m.answered /\ UNCHANGED <<currentGranted, cpuPkt, cpuRespQueue>>
  BY DEF MemAccess, cpuSideVars, arbiterVars
<1>2. AtMemory /\ c # NoCache /\ c \in Caches
  BY <1>1 DEF BaseInv, TransactionShape, Idle, Queued, Refused, BaseTypeOK, BusTypeOK
<1>3. inMemory = {m} /\ m \in MemEntry /\ m.from = c
  BY <1>1, <1>2 DEF AtMemory
<1>4. m.pkt = cpuPkt[c] /\ ~isCacheablePacket(m.pkt)
  BY <1>1, <1>2 DEF PacketCarried, CurrentPacket
<1>5. cpuRespQueue[c] = <<>> /\ cpuPkt[c] \in Packet
  BY <1>2, AccessFacts
<1>6. UncachedAnswer(c) = {}
  BY <1>1, <1>3 DEF UncachedAnswer
<1>7. PICK q : q = IF m.pkt.cmd = "Read"
                     THEN SetDataFromBlock(m.pkt, memory[m.pkt.blk]) ELSE m.pkt
  OBVIOUS
<1>8. q.blk = m.pkt.blk
  BY <1>4, <1>5, <1>7 DEF SetDataFromBlock, Packet
<1>9. PICK e : e = [m EXCEPT !.answered = TRUE, !.pkt = q]
  OBVIOUS
<1>10. e.answered /\ e.pkt = q /\ e.from = c
  BY <1>3, <1>9 DEF MemEntry
<1>11. inMemory' = {e}
  BY <1>3, <1>7, <1>9 DEF MemAccess
<1>12. ~isCacheablePacket(q)
  BY <1>4, <1>8 DEF isCacheablePacket
<1>13. UncachedAnswer(c)' = {e}
  BY <1>10, <1>11, <1>12 DEF UncachedAnswer, isCacheablePacket
<1>14. Operation(c)' = q /\ Answered(c)'
  BY <1>1, <1>5, <1>10, <1>13 DEF Operation, Answered
<1>15. OthersSame(c)
  <2> SUFFICES ASSUME NEW d \in Caches \ {c} PROVE SameAccess(d)
    BY DEF OthersSame
  <2>1. UncachedAnswer(d) = {} /\ UncachedAnswer(d)' = {}
    BY <1>3, <1>10, <1>11 DEF UncachedAnswer
  <2> QED  BY <1>1, <2>1, SameAccessFrom
<1>16. Operation(c) = cpuPkt[c] /\ ~Answered(c)
  BY <1>5, <1>6 DEF Operation, Answered
<1> QED  BY <1>2, <1>4, <1>5, <1>7, <1>14, <1>15, <1>16

LEMMA UncachedResponseAccess ==
  ASSUME BaseInv, NEW m, NEW c \in Caches, UncachedResponse(m, c)
  PROVE  /\ Answered(c) /\ Operation(c)' = NoPacket /\ ~Answered(c)'
         /\ OthersSame(c) /\ currentGranted = c /\ currentGranted' = NoCache
         /\ ~isCacheablePacket(cpuPkt[c])
<1>1. /\ currentGranted = c /\ inMemory = {m} /\ inMemory' = {} /\ m \in MemEntry
      /\ m.pkt.blk = cpuPkt[c].blk /\ m.answered /\ ~isCacheablePacket(m.pkt)
      /\ cpuPkt' = [cpuPkt EXCEPT ![c] = NoPacket]
      /\ cpuRespQueue' = cpuRespQueue /\ currentGranted' = NoCache
  BY AnsweredFacts DEF UncachedResponse, TakeResponse, Release
<1>2. m.from = c
  BY <1>1, NobodyIsNoCache DEF BaseInv, TransactionShape, Idle, Queued, Refused, AtMemory
<1>3. Answered(c)
  BY <1>1, <1>2 DEF Answered, UncachedAnswer
<1>4. \A d : UncachedAnswer(d)' = {}
  BY <1>1 DEF UncachedAnswer
<1>5. cpuRespQueue'[c] = <<>> /\ cpuPkt'[c] = NoPacket
  BY <1>1, AccessFacts DEF BaseInv, BaseTypeOK
<1>6. Operation(c)' = NoPacket /\ ~Answered(c)'
  BY <1>4, <1>5 DEF Operation, Answered
<1>7. OthersSame(c)
  <2> SUFFICES ASSUME NEW d \in Caches \ {c} PROVE SameAccess(d)
    BY DEF OthersSame
  <2>1. UncachedAnswer(d) = {}
    BY <1>1, AccessFacts
  <2>2. cpuPkt'[d] = cpuPkt[d]
    BY <1>1 DEF BaseInv, BaseTypeOK
  <2> QED  BY <1>1, <1>4, <2>1, <2>2, SameAccessFrom
<1> QED  BY <1>1, <1>3, <1>6, <1>7 DEF isCacheablePacket

LEMMA DeliveryAccess ==
  ASSUME BaseInv, NEW c \in Caches, ProcessCpuResp(c)
  PROVE  /\ Answered(c) /\ Operation(c)' = NoPacket /\ ~Answered(c)'
         /\ OthersSame(c) /\ currentGranted # c
<1>1. /\ cpuRespQueue[c] # <<>> /\ inMemory' = inMemory
      /\ cpuRespQueue' = [cpuRespQueue EXCEPT ![c] = <<>>]
      /\ cpuPkt' = [cpuPkt EXCEPT ![c] = NoPacket]
  BY DEF ProcessCpuResp, busVars, memPortVars
<1>2. currentGranted # c /\ UncachedAnswer(c) = {}
  BY <1>1, AccessFacts
<1>3. \A d : UncachedAnswer(d)' = UncachedAnswer(d)
  BY <1>1 DEF UncachedAnswer, isCacheablePacket
<1>4. cpuRespQueue'[c] = <<>> /\ cpuPkt'[c] = NoPacket
  BY <1>1 DEF BaseInv, BaseTypeOK
<1>5. Answered(c) /\ Operation(c)' = NoPacket /\ ~Answered(c)'
  BY <1>1, <1>2, <1>3, <1>4 DEF Operation, Answered
<1>6. OthersSame(c)
  BY <1>1, <1>3, SameAccessFrom DEF OthersSame, BaseInv, BaseTypeOK
<1> QED  BY <1>2, <1>5, <1>6

\* CurrentPacket does not change under a transaction.
LEMMA CarriedKept ==
  ASSUME PacketCarried,
         UNCHANGED <<currentGranted, blockedPacket, inMemory>>,
         currentGranted # NoCache => cpuPkt'[currentGranted] = cpuPkt[currentGranted]
  PROVE  PacketCarried'
  BY DEF PacketCarried, CurrentPacket, isCacheablePacket

LEMMA PacketCarriedStep ==
  ASSUME BaseInv, PacketCarried, [BaseNext]_baseVars
  PROVE  PacketCarried'
<1>1. ASSUME NEW c \in Caches, NEW p, AcceptFromCpu(c, p),
             UNCHANGED <<currentGranted, blockedPacket, inMemory>>
      PROVE  PacketCarried'
  <2>1. currentGranted # c /\ cpuPkt' = [cpuPkt EXCEPT ![c] = p]
    BY <1>1, AccessFacts DEF AcceptFromCpu
  <2>2. currentGranted # NoCache => cpuPkt'[currentGranted] = cpuPkt[currentGranted]
    BY <2>1 DEF BaseInv, BaseTypeOK, BusTypeOK
  <2> QED  BY <1>1, <2>2, CarriedKept
<1>2. ASSUME currentGranted = NoCache \/ currentGranted' = NoCache, UNCHANGED memPortVars
      PROVE  PacketCarried'
  <2>1. CASE currentGranted' = NoCache
    BY <2>1 DEF PacketCarried
  <2>2. CASE currentGranted = NoCache
    BY <1>2, <2>2 DEF BaseInv, TransactionShape, Idle, PacketCarried, memPortVars
  <2> QED  BY <1>2, <2>1, <2>2
<1>3. ASSUME NEW c \in Caches, NEW p,
             \/ \E r : AnswerAtOnce(c, p, r)
             \/ WaitForBus(c, p)
      PROVE  PacketCarried'
  BY <1>1, <1>3 DEF AnswerAtOnce, WaitForBus, Request, busVars, arbiterVars, memPortVars
<1>4. ASSUME NEW c \in Caches, GrantNext(c), UNCHANGED memPortVars
      PROVE  PacketCarried'
  BY <1>2, <1>4 DEF GrantNext
<1>5. ASSUME IdleGrant PROVE PacketCarried'
  BY <1>2, <1>5 DEF IdleGrant, GrantNobody
<1>6. ASSUME NEW m, NextMemReq(m), NEW q, sendPacket([pkt |-> q, from |-> m.from]),
             isCacheablePacket(m.pkt) \/ q = m.pkt,
             UNCHANGED <<cpuPkt, currentGranted>>
      PROVE  PacketCarried'
  <2>1. m.pkt = CurrentPacket /\ inMemory = {} /\ blockedPacket = NoPacket
    BY <1>6, QueuedFacts DEF CurrentPacket
  <2>2. CurrentPacket' = CurrentPacket
    BY <1>6 DEF CurrentPacket
  <2>3. CASE isCacheablePacket(m.pkt)
    BY <2>1, <2>2, <2>3 DEF PacketCarried, isCacheablePacket
  <2>4. CASE q = m.pkt
    BY <1>6, <2>1, <2>2, <2>4 DEF PacketCarried, sendPacket, Accept, isCacheablePacket
  <2> QED  BY <1>6, <2>3, <2>4
<1>7. ASSUME NEW c, NEW r, NEW f, FinishTransaction(c, r, f), currentGranted = c
      PROVE  PacketCarried'
  BY <1>7 DEF FinishTransaction, Release, PacketCarried
<1>8. ASSUME RecvReqRetry, UNCHANGED cpuSideVars
      PROVE  PacketCarried'
  <2>1. inMemory = {}
    BY <1>8 DEF RecvReqRetry, BaseInv, TransactionShape, Idle, Queued, Refused, AtMemory
  <2>2. /\ blockedPacket # NoPacket /\ blockedPacket' = NoPacket
        /\ inMemory' = Accept(blockedPacket) /\ UNCHANGED <<currentGranted, cpuPkt>>
    BY <1>8 DEF RecvReqRetry, arbiterVars, cpuSideVars
  <2> QED  BY <2>1, <2>2 DEF PacketCarried, CurrentPacket, isCacheablePacket, Accept
<1>9. ASSUME NEW m \in inMemory, MemAccess(m), UNCHANGED cpuSideVars
      PROVE  PacketCarried'
  <2>1. AtMemory
    BY <1>9 DEF BaseInv, TransactionShape, Idle, Queued, Refused
  <2>2. inMemory = {m} /\ m \in MemEntry
    BY <1>9, <2>1 DEF AtMemory
  <2>3. blockedPacket' = NoPacket /\ \A e \in inMemory' : e.answered
    BY <1>9, <2>1, <2>2 DEF AtMemory, MemAccess, MemEntry
  <2> QED  BY <2>3 DEF PacketCarried
<1>10. ASSUME NEW c \in Caches, ProcessCpuResp(c)
       PROVE  PacketCarried'
  <2>1. currentGranted # c
    BY <1>10, DeliveryAccess
  <2>2. currentGranted # NoCache => cpuPkt'[currentGranted] = cpuPkt[currentGranted]
    BY <1>10, <2>1 DEF ProcessCpuResp, BaseInv, BaseTypeOK, BusTypeOK
  <2> QED  BY <1>10, <2>2, CarriedKept DEF ProcessCpuResp, busVars, arbiterVars, memPortVars
<1>11. ASSUME NEW m, NEW c \in Caches, UncachedResponse(m, c)
       PROVE  PacketCarried'
  BY <1>11, UncachedResponseAccess DEF PacketCarried
<1>12. ASSUME NEW m, CacheFetches(m) \/ UncachedForward(m)
       PROVE  PacketCarried'
  BY <1>6, <1>12 DEF CacheFetches, UncachedForward, cpuSideVars, arbiterVars
<1>13. ASSUME NEW m, CacheCompletes(m)
       PROVE  PacketCarried'
  BY <1>7, <1>13, QueuedFacts DEF CacheCompletes
<1>14. ASSUME NEW m, NEW c \in Caches, CacheFilled(m, c)
       PROVE  PacketCarried'
  BY <1>7, <1>14, AnsweredFacts DEF CacheFilled
<1>15. CASE BaseNext
  <2>1. ASSUME NEW c \in Caches, NEW p,
               CacheAnswers(c, p) \/ CacheWaits(c, p) \/ UncachedRequest(c, p)
        PROVE  PacketCarried'
    BY <1>3, <2>1 DEF CacheAnswers, CacheWaits, UncachedRequest
  <2>2. ASSUME NEW c \in Caches, CacheGranted(c) \/ UncachedGrant(c)
        PROVE  PacketCarried'
    BY <1>4, <2>2 DEF CacheGranted, UncachedGrant
  <2>3. ASSUME MemorySide PROVE PacketCarried'
    BY <1>8, <1>9, <2>3 DEF MemorySide
  <2> QED  BY <1>5, <1>10, <1>11, <1>12, <1>13, <1>14, <1>15, <2>1, <2>2, <2>3 DEF BaseNext
<1>16. CASE UNCHANGED baseVars
  BY <1>16, CarriedKept DEF baseVars, busVars, arbiterVars, memPortVars, cpuSideVars
<1> QED  BY <1>15, <1>16

\* An uncached packet is not changed on its way to memory.
LEMMA PacketCarriedAlways == BaseSpec => []PacketCarried
<1>1. BaseInit => PacketCarried
  BY DEF BaseInit, BusInit, PacketCarried
<1>2. BaseInv /\ PacketCarried /\ [BaseNext]_baseVars => PacketCarried'
  BY PacketCarriedStep
<1> QED  BY <1>1, <1>2, BaseInvariant, PTL DEF BaseSpec

-----------------------------------------------------------------------------
(* The sets of a cache.                                                    *)

CacheTyped(c, states) ==
  /\ lines[c] \in [Sets -> [Ways -> Frame(states)]]
  /\ tagMap[c] \in [Cacheable -> Ways \cup {NotExist}]
  /\ clkPtr[c] \in [Sets -> Ways]

\* TagMapAgrees at one cache.
MapAgrees(c) ==
  /\ \A b \in Cacheable : Present(c, b) =>
       LineOf(c, b).valid /\ LineOf(c, b).tag = b
  /\ \A s \in Sets, w \in Ways : lines[c][s][w].valid =>
       LET b == lines[c][s][w].tag IN
         b \in Cacheable /\ SetOf[b] = s /\ tagMap[c][b] = w

SetFull(c, s) == \A w \in Ways : lines[c][s][w].valid

\* Frames are handed out in order: until a set is full, those below the hand
\* are taken and those from the hand on are free.
FillOrder(c) ==
  \A s \in Sets :
    SetFull(c, s) \/ \A w \in Ways : lines[c][s][w].valid <=> w < clkPtr[c][s]

CacheInv(c, states) == CacheTyped(c, states) /\ MapAgrees(c) /\ FillOrder(c)

SameButFlag(k, l) ==
  /\ l.tag = k.tag /\ l.valid = k.valid /\ l.data = k.data
  /\ l.cohState = k.cohState /\ l.dirty = k.dirty

-----------------------------------------------------------------------------
(* The sweep.                                                              *)

LEMMA WaysFinite == IsFiniteSet(Ways) /\ Cardinality(Ways) = NumLines
  BY NumLinesAssumption, FS_Interval DEF Ways

\* The hand stays on the circular array.
LEMMA AfterIsWay ==
  ASSUME NEW ptr \in Nat, NEW k \in Nat
  PROVE  After(ptr, k) \in Ways
  BY NumLinesAssumption DEF After, Ways

\* Every non-empty set of natural numbers has a least element.
LEMMA LeastNatural ==
  ASSUME NEW T \in SUBSET Nat, T # {}
  PROVE  \E x \in T : \A y \in T : x <= y
<1> DEFINE R == OpToRel(<, Nat)
<1>1. \E x \in T : \A y \in T : <<y, x>> \notin R
  <2>1. IsWellFoundedOn(R, Nat)
    BY NatLessThanWellFounded
  <2> HIDE DEF R
  <2> QED  BY <2>1, WFMin
<1>2. \A x, y \in Nat : <<y, x>> \notin R => x <= y
  BY DEF OpToRel
<1> HIDE DEF R
<1> QED  BY <1>1, <1>2

\* Where the hand is after k places.
LEMMA AfterIs ==
  ASSUME NEW ptr \in Ways, NEW k \in 0..NumLines
  PROVE  After(ptr, k) = IF ptr + k < NumLines THEN ptr + k ELSE ptr + k - NumLines
<1>1. NumLines \in Nat /\ NumLines > 0 /\ ptr \in Nat /\ ptr < NumLines /\ k \in Nat /\ k <= NumLines
  BY NumLinesAssumption DEF Ways
<1>2. CASE ptr + k < NumLines
  BY <1>1, <1>2 DEF After
<1>3. CASE ptr + k >= NumLines
  <2>1. (ptr + k - NumLines) \in 0..NumLines - 1
    BY <1>1, <1>3
  <2>2. (ptr + k) % NumLines = ptr + k - NumLines
    BY <1>1, <1>3, <2>1
  <2> QED  BY <1>1, <1>3, <2>2 DEF After
<1> QED  BY <1>1, <1>2, <1>3

\* In one round the hand meets every frame once.
LEMMA OneRound ==
  ASSUME NEW ptr \in Ways
  PROVE  /\ \A w \in Ways : \E k \in Ways : After(ptr, k) = w
         /\ \A j, k \in Ways : After(ptr, j) = After(ptr, k) => j = k
<1>1. NumLines \in Nat /\ NumLines > 0 /\ ptr \in 0..NumLines - 1
  BY NumLinesAssumption DEF Ways
<1>2. \A k \in Ways :
        After(ptr, k) = IF ptr + k < NumLines THEN ptr + k ELSE ptr + k - NumLines
  <2> TAKE k \in Ways
  <2>1. k \in 0..NumLines
    BY <1>1 DEF Ways
  <2> QED  BY <2>1, AfterIs
<1>3. ASSUME NEW w \in Ways PROVE \E k \in Ways : After(ptr, k) = w
  <2> DEFINE k == IF w >= ptr THEN w - ptr ELSE w - ptr + NumLines
  <2>1. k \in Ways /\ (IF ptr + k < NumLines THEN ptr + k ELSE ptr + k - NumLines) = w
    BY <1>1 DEF Ways
  <2> HIDE DEF k
  <2> QED  BY <1>2, <2>1
<1>4. ASSUME NEW j \in Ways, NEW k \in Ways, After(ptr, j) = After(ptr, k) PROVE j = k
  <2>1. (IF ptr + j < NumLines THEN ptr + j ELSE ptr + j - NumLines)
          = IF ptr + k < NumLines THEN ptr + k ELSE ptr + k - NumLines
    BY <1>2, <1>4
  <2> QED  BY <1>1, <2>1 DEF Ways
<1> QED  BY <1>3, <1>4

\* The frames the sweep passes are marked, and the next one, if there is one
\* in this round, is not.
LEMMA PassedFacts ==
  ASSUME NEW clk, NEW ptr \in Ways
  PROVE  /\ Passed(clk, ptr) \in 0..NumLines
         /\ \A j \in Ways : j < Passed(clk, ptr) => clk[After(ptr, j)] # 0
         /\ Passed(clk, ptr) # NumLines => clk[After(ptr, Passed(clk, ptr))] = 0
<1> DEFINE T == {k \in Ways : clk[After(ptr, k)] = 0}
<1>1. CASE T # {}
  <2>1. PICK k \in T : \A j \in T : k <= j
    <3>1. T \in SUBSET Nat
      BY NumLinesAssumption DEF Ways
    <3> QED  BY <1>1, <3>1, LeastNatural
  <2>2. k \in Ways /\ clk[After(ptr, k)] = 0 /\ \A j \in Ways : j < k => clk[After(ptr, j)] # 0
    BY <2>1, NumLinesAssumption DEF Ways
  <2>3. /\ Passed(clk, ptr) \in Ways
        /\ clk[After(ptr, Passed(clk, ptr))] = 0
        /\ \A j \in Ways : j < Passed(clk, ptr) => clk[After(ptr, j)] # 0
    BY <2>2 DEF Passed
  <2> QED  BY <2>3, NumLinesAssumption DEF Ways
<1>2. CASE T = {}
  <2>1. Passed(clk, ptr) = NumLines /\ \A j \in Ways : clk[After(ptr, j)] # 0
    BY <1>2 DEF Passed
  <2> QED  BY <2>1, NumLinesAssumption
<1> QED  BY <1>1, <1>2

\* The sweep ends at a frame of the set and leaves flags.
LEMMA SweepTyped ==
  ASSUME NEW clk \in [Ways -> {0, 1}], NEW ptr \in Ways
  PROVE  /\ VictimWay(clk, ptr) \in Ways
         /\ FlagsAfterSweep(clk, ptr) \in [Ways -> {0, 1}]
<1>1. Passed(clk, ptr) \in Nat
  BY PassedFacts, NumLinesAssumption
<1>2. ptr \in Nat
  BY NumLinesAssumption DEF Ways
<1> QED  BY <1>1, <1>2, AfterIsWay DEF VictimWay, FlagsAfterSweep

\* The loop after n iterations: the hand is n frames on, and the flags of the
\* frames it passed are cleared.
Walked(n) ==
  /\ clkHand = After(before.hand, n)
  /\ clkFlags = [w \in Ways |-> IF \E k \in Ways : k < n /\ w = After(before.hand, k)
                                  THEN 0 ELSE before.flags[w]]

SweepInv ==
  /\ clkFlags \in [Ways -> {0, 1}] /\ clkHand \in Ways
  /\ before \in [flags : [Ways -> {0, 1}], hand : Ways]
  /\ phase \in {"serving", "sweeping", "evicted"}
  /\ phase = "sweeping" => \E n \in 0..Passed(before.flags, before.hand) : Walked(n)
  /\ phase = "evicted" => Walked(Passed(before.flags, before.hand))

LEMMA SweepBegins ==
  ASSUME SweepInv, Miss
  PROVE  SweepInv'
<1>1. /\ before' = [flags |-> clkFlags, hand |-> clkHand]
      /\ before'.flags = clkFlags /\ before'.hand = clkHand
      /\ clkFlags' = clkFlags /\ clkHand' = clkHand /\ phase' = "sweeping"
  BY DEF Miss
<1>2. Passed(clkFlags, clkHand) \in 0..NumLines
  BY PassedFacts DEF SweepInv
<1>3. Walked(0)'
  <2>1. After(clkHand, 0) = clkHand
    BY AfterIs, NumLinesAssumption DEF SweepInv, Ways
  <2>2. \A k \in Ways : ~(k < 0)
    BY DEF Ways
  <2>3. clkFlags = [w \in Ways |-> clkFlags[w]]
    BY DEF SweepInv
  <2> QED  BY <1>1, <2>1, <2>2, <2>3 DEF Walked
<1> QED  BY <1>1, <1>2, <1>3, NumLinesAssumption DEF SweepInv

LEMMA SweepGoesOn ==
  ASSUME SweepInv, SweepStep
  PROVE  SweepInv'
<1> DEFINE h == before.hand
           p == Passed(before.flags, before.hand)
<1>1. /\ before' = before /\ phase' = "sweeping" /\ phase = "sweeping"
      /\ clkFlags[clkHand] = 1 /\ clkHand' = After(clkHand, 1)
      /\ clkFlags' = [clkFlags EXCEPT ![clkHand] = 0]
  BY DEF SweepStep, NextHand
<1>2. PICK n \in 0..p : Walked(n)
  BY <1>1 DEF SweepInv
<1>3. /\ h \in Ways /\ before.flags \in [Ways -> {0, 1}] /\ p \in 0..NumLines
      /\ \A j \in Ways : j < p => before.flags[After(h, j)] # 0
      /\ p # NumLines => before.flags[After(h, p)] = 0
  BY PassedFacts DEF SweepInv
<1>4. /\ clkHand = After(h, n) /\ clkHand \in Ways
      /\ \A w \in Ways :
           clkFlags[w] = IF \E k \in Ways : k < n /\ w = After(h, k) THEN 0 ELSE before.flags[w]
  BY <1>2 DEF Walked, SweepInv
<1> HIDE DEF h, p
<1>5. n \in Ways /\ n + 1 \in 0..p
  <2>1. CASE n < p
    BY <1>3, <2>1, NumLinesAssumption DEF Ways
  <2>2. CASE n = p /\ p # NumLines
    BY <1>1, <1>3, <1>4, <2>2
  <2>3. CASE n = p /\ p = NumLines
    <3>1. PICK k \in Ways : After(h, k) = clkHand
      BY <1>3, <1>4, OneRound
    <3>2. k < n
      BY <2>3, <3>1, NumLinesAssumption DEF Ways
    <3> QED  BY <1>1, <1>4, <3>1, <3>2
  <2> QED  BY <1>2, <1>3, <2>1, <2>2, <2>3, NumLinesAssumption
<1>6. After(clkHand, 1) = After(h, n + 1) /\ After(clkHand, 1) \in Ways
  <2>1. NumLines \in Nat \ {0} /\ h \in 0..NumLines - 1 /\ n \in 0..NumLines - 1
    BY <1>3, <1>5, NumLinesAssumption DEF Ways
  <2>2. After(h, n) = IF h + n < NumLines THEN h + n ELSE h + n - NumLines
    BY <1>3, <2>1, AfterIs
  <2>3. After(h, n + 1) = IF h + n + 1 < NumLines THEN h + n + 1 ELSE h + n + 1 - NumLines
    <3>1. n + 1 \in 0..NumLines
      BY <2>1
    <3>2. After(h, n + 1) = IF h + (n + 1) < NumLines THEN h + (n + 1) ELSE h + (n + 1) - NumLines
      BY <1>3, <3>1, AfterIs
    <3> QED  BY <2>1, <3>2
  <2>4. After(clkHand, 1) = IF clkHand + 1 < NumLines THEN clkHand + 1 ELSE clkHand + 1 - NumLines
    <3>1. 1 \in 0..NumLines
      BY <2>1
    <3> QED  BY <1>4, <3>1, AfterIs
  <2>5. After(clkHand, 1) = After(h, n + 1)
    BY <1>4, <2>1, <2>2, <2>3, <2>4
  <2>6. h \in Nat /\ n + 1 \in Nat
    BY <2>1
  <2> QED  BY <2>5, <2>6, AfterIsWay
<1>7. Walked(n + 1)'
  <2>1. \A k \in Ways : k < n + 1 <=> k < n \/ k = n
    BY <1>5, NumLinesAssumption DEF Ways
  <2>2. clkFlags' = [w \in Ways |-> IF w = clkHand THEN 0 ELSE clkFlags[w]]
    BY <1>1, <1>4 DEF SweepInv
  <2>3. ASSUME NEW w \in Ways
        PROVE  (IF w = clkHand THEN 0 ELSE clkFlags[w])
                 = IF \E k \in Ways : k < n + 1 /\ w = After(h, k) THEN 0 ELSE before.flags[w]
    <3>1. (\E k \in Ways : k < n + 1 /\ w = After(h, k))
            <=> w = clkHand \/ \E k \in Ways : k < n /\ w = After(h, k)
      BY <1>4, <1>5, <2>1
    <3> QED  BY <1>4, <3>1
  <2>4. clkFlags' = [w \in Ways |-> IF \E k \in Ways : k < n + 1 /\ w = After(h, k)
                                      THEN 0 ELSE before.flags[w]]
    BY <2>2, <2>3
  <2>5. clkHand' = After(before'.hand, n + 1)
    BY <1>1, <1>6 DEF h
  <2>6. clkFlags' = [w \in Ways |-> IF \E k \in Ways : k < n + 1 /\ w = After(before'.hand, k)
                                      THEN 0 ELSE before'.flags[w]]
    BY <1>1, <2>4 DEF h
  <2> QED  BY <2>5, <2>6 DEF Walked
<1>8. clkFlags' \in [Ways -> {0, 1}]
  BY <1>1 DEF SweepInv
<1> QED  BY <1>1, <1>5, <1>6, <1>7, <1>8 DEF SweepInv, p

\* The hand stops only where the closed form says.
LEMMA SweepStops ==
  ASSUME SweepInv, EvictFrame
  PROVE  SweepInv'
<1> DEFINE h == before.hand
           p == Passed(before.flags, before.hand)
<1>1. /\ before' = before /\ phase' = "evicted" /\ phase = "sweeping"
      /\ clkFlags[clkHand] = 0 /\ clkHand' = clkHand /\ clkFlags' = clkFlags
  BY DEF EvictFrame
<1>2. PICK n \in 0..p : Walked(n)
  BY <1>1 DEF SweepInv
<1>3. /\ h \in Ways /\ p \in 0..NumLines
      /\ \A j \in Ways : j < p => before.flags[After(h, j)] # 0
  BY PassedFacts DEF SweepInv
<1>4. /\ clkHand = After(h, n) /\ clkHand \in Ways
      /\ \A w \in Ways :
           clkFlags[w] = IF \E k \in Ways : k < n /\ w = After(h, k) THEN 0 ELSE before.flags[w]
  BY <1>2 DEF Walked, SweepInv
<1> HIDE DEF h, p
<1>5. n = p
  <2>1. SUFFICES ASSUME n < p PROVE FALSE
    BY <1>2, <1>3
  <2>2. n \in Ways
    BY <1>2, <1>3, <2>1, NumLinesAssumption DEF Ways
  <2>3. PICK k \in Ways : k < n /\ clkHand = After(h, k)
    BY <1>1, <1>3, <1>4, <2>1, <2>2
  <2>4. k = n
    <3>1. \A i, j \in Ways : After(h, i) = After(h, j) => i = j
      BY <1>3, OneRound
    <3> QED  BY <1>4, <2>2, <2>3, <3>1
  <2> QED  BY <2>3, <2>4, NumLinesAssumption DEF Ways
<1>6. Walked(p)'
  BY <1>1, <1>2, <1>5 DEF Walked, p
<1> QED  BY <1>1, <1>6 DEF SweepInv, p

LEMMA SweepInvStep ==
  ASSUME SweepInv, [SweepNext]_sweepVars
  PROVE  SweepInv'
<1>1. ASSUME NEW w \in Ways, Hit(w) PROVE SweepInv'
  BY <1>1 DEF Hit, SweepInv
<1>2. CASE AllocateFrame
  <2>1. clkHand \in Nat /\ 1 \in Nat
    BY NumLinesAssumption DEF SweepInv, Ways
  <2>2. NextHand(clkHand) \in Ways
    BY <2>1, AfterIsWay DEF NextHand
  <2> QED  BY <1>2, <2>2 DEF AllocateFrame, SweepInv
<1>3. CASE UNCHANGED sweepVars
  <2>1. clkFlags' = clkFlags /\ clkHand' = clkHand /\ phase' = phase /\ before' = before
    BY <1>3 DEF sweepVars
  <2> QED  BY <2>1 DEF SweepInv, Walked
<1> QED  BY <1>1, <1>2, <1>3, SweepBegins, SweepGoesOn, SweepStops DEF SweepNext

\* Lookups of addresses do not touch the sweep.
LEMMA LookupSweeps == LookupSpec => []SweepInv /\ [][SweepNext]_sweepVars
<1>1. LookupInit => SweepInv
  BY DEF LookupInit, SweepInit, SweepInv
<1>2. [LookupNext]_lookupVars => [SweepNext]_sweepVars
  BY DEF LookupNext, lookupVars
<1> QED  BY <1>1, <1>2, SweepInvStep, PTL DEF LookupSpec

\* The loop of evict() stops at the frame, and with the flags, that the closed
\* form used by every protocol gives, for any number of ways.
THEOREM SweepMatchesClosedForm == LookupSpec => []MatchesClosedForm
<1>1. SweepInv => MatchesClosedForm
  BY DEF SweepInv, Walked, MatchesClosedForm, VictimWay, FlagsAfterSweep
<1> QED  BY <1>1, LookupSweeps, PTL

\* Every iteration of the loop that does not leave it clears a flag and sets
\* none: evict() cannot loop for ever, for any number of ways.
THEOREM SweepAlwaysShortens == LookupSpec => SweepShortens
<1>1. ASSUME SweepInv, [SweepNext]_sweepVars, phase = "sweeping", phase' = "sweeping",
             ~UNCHANGED sweepVars
      PROVE  SetFlags' \subseteq SetFlags /\ SetFlags' # SetFlags
  <2>1. SweepStep
    BY <1>1 DEF SweepNext, Hit, Miss, EvictFrame, AllocateFrame
  <2>2. clkHand \in SetFlags /\ clkHand \notin SetFlags'
    BY <1>1, <2>1 DEF SweepStep, SweepInv, SetFlags
  <2>3. SetFlags' \subseteq SetFlags
    BY <1>1, <2>1 DEF SweepStep, SweepInv, SetFlags
  <2> QED  BY <2>2, <2>3
<1>2. SweepInv /\ [SweepNext]_sweepVars =>
        [phase = "sweeping" /\ phase' = "sweeping" =>
           SetFlags' \subseteq SetFlags /\ SetFlags' # SetFlags]_sweepVars
  BY <1>1
<1> QED  BY <1>2, LookupSweeps, PTL DEF SweepShortens

-----------------------------------------------------------------------------
(* Addresses.                                                              *)

\* Shifting a word to the right and back clears its n low bits.
LEMMA ShiftedBack ==
  ASSUME NEW w \in SUBSET Bits, NEW n \in Nat
  PROVE  \A i : i \in ShiftLeft(ShiftRight(w, n), n) <=> i \in w /\ i >= n
<1> SUFFICES ASSUME NEW i \in Bits
             PROVE  i \in ShiftLeft(ShiftRight(w, n), n) <=> i \in w /\ i >= n
  BY DEF ShiftLeft
<1>1. i \in Int /\ (i - n \in Bits <=> i >= n) /\ (i - n) + n = i
  BY GeometryAssumption DEF Bits
<1>2. i \in ShiftLeft(ShiftRight(w, n), n) <=> i - n \in ShiftRight(w, n)
  BY DEF ShiftLeft
<1>3. i - n \in ShiftRight(w, n) <=> i - n \in Bits /\ (i - n) + n \in w
  BY DEF ShiftRight
<1> QED  BY <1>1, <1>2, <1>3

\* What the functions make of a word, position by position.
LEMMA PartsOfWord ==
  ASSUME NEW w \in SUBSET Bits
  PROVE  /\ \A i : i \in ShiftLeft(getTag(w), blockOffset + setBit)
                 <=> i \in w /\ i >= blockOffset + setBit
         /\ \A i : i \in ShiftLeft(getSet(w), blockOffset)
                 <=> i \in w /\ i >= blockOffset /\ i < blockOffset + setBit
         /\ \A i : i \in getBlkAddr(w) <=> i \in w /\ i >= blockOffset
         /\ getSet(w) \subseteq 0 .. setBit - 1
<1>1. /\ blockOffset \in Nat /\ setBit \in Nat /\ WordBits \in Nat
      /\ blockOffset + setBit \in Nat
  BY GeometryAssumption
<1>2. w \cap Mask(blockOffset + setBit) \in SUBSET Bits
  BY DEF Mask
<1>3. \A i : i \in ShiftLeft(getTag(w), blockOffset + setBit)
              <=> i \in w /\ i >= blockOffset + setBit
  BY <1>1, ShiftedBack DEF getTag
<1>4. \A i : i \in ShiftLeft(getSet(w), blockOffset)
              <=> i \in w /\ i >= blockOffset /\ i < blockOffset + setBit
  <2>1. \A i : i \in ShiftLeft(getSet(w), blockOffset)
                <=> i \in w \cap Mask(blockOffset + setBit) /\ i >= blockOffset
    BY <1>1, <1>2, ShiftedBack DEF getSet
  <2> QED  BY <2>1 DEF Mask
<1>5. \A i : i \in getBlkAddr(w) <=> i \in w /\ i >= blockOffset
  BY <1>1, ShiftedBack DEF getBlkAddr
<1>6. getSet(w) \subseteq 0 .. setBit - 1
  BY <1>1 DEF ShiftRight, getSet, Mask, Bits
<1> QED  BY <1>3, <1>4, <1>5, <1>6

\* Tag and set name the block.
LEMMA TagAndSetNameBlock ==
  ASSUME NEW w \in SUBSET Bits, NEW r \in SUBSET Bits
  PROVE  (getTag(w) = getTag(r) /\ getSet(w) = getSet(r)) <=> getBlkAddr(w) = getBlkAddr(r)
<1>1. blockOffset \in Nat /\ setBit \in Nat /\ WordBits \in Nat
  BY GeometryAssumption
<1>2. ASSUME getTag(w) = getTag(r), getSet(w) = getSet(r) PROVE getBlkAddr(w) = getBlkAddr(r)
  <2>1. \A i \in Bits : i >= blockOffset =>
          (i < blockOffset + setBit \/ i >= blockOffset + setBit)
    BY <1>1 DEF Bits
  <2>2. \A i \in Bits : i >= blockOffset + setBit => i >= blockOffset
    BY <1>1 DEF Bits
  <2>3. \A i : i \in w /\ i >= blockOffset <=> i \in r /\ i >= blockOffset
    <3>1. \A i : i \in w /\ i >= blockOffset + setBit <=> i \in r /\ i >= blockOffset + setBit
      BY <1>2, PartsOfWord
    <3>2. \A i : i \in w /\ i >= blockOffset /\ i < blockOffset + setBit
                <=> i \in r /\ i >= blockOffset /\ i < blockOffset + setBit
      BY <1>2, PartsOfWord
    <3> QED  BY <2>1, <2>2, <3>1, <3>2
  <2>4. \A i : i \in getBlkAddr(w) <=> i \in getBlkAddr(r)
    BY <2>3, PartsOfWord
  <2>5. getBlkAddr(w) \subseteq Bits /\ getBlkAddr(r) \subseteq Bits
    BY DEF getBlkAddr, ShiftLeft
  <2> QED  BY <2>4, <2>5
<1>3. ASSUME getBlkAddr(w) = getBlkAddr(r) PROVE getTag(w) = getTag(r) /\ getSet(w) = getSet(r)
  <2>1. \A i \in Bits : i >= blockOffset => (i \in w <=> i \in r)
    BY <1>3, PartsOfWord
  <2>2. \A i \in Bits : i + (blockOffset + setBit) \in w <=> i + (blockOffset + setBit) \in r
    BY <1>1, <2>1 DEF Bits
  <2>3. \A i \in Bits : i + blockOffset \in w <=> i + blockOffset \in r
    BY <1>1, <2>1 DEF Bits
  <2>4. getTag(w) = getTag(r)
    BY <2>2 DEF getTag, ShiftRight
  <2>5. getSet(w) = getSet(r)
    BY <2>3 DEF getSet, ShiftRight
  <2> QED  BY <2>4, <2>5
<1> QED  BY <1>2, <1>3

\* A write-back goes to the block the line was fetched from and a lookup finds
\* the lines of its own block only, for words and geometries of any size: the
\* other modules may take the block for its tag and set.
THEOREM SplitAlwaysExact == LookupSpec => []SplitIsExact
<1>1. SplitIsExact
  <2> DEFINE w == Word(addr)
             r == Word(resident)
  <2>1. w \in SUBSET Bits /\ r \in SUBSET Bits
    BY DEF Word
  <2> HIDE DEF w, r
  <2>2. \A i \in Bits :
          (i >= blockOffset <=>
             i >= blockOffset + setBit \/ (i >= blockOffset /\ i < blockOffset + setBit))
          /\ (i < blockOffset \/ i >= blockOffset)
    BY GeometryAssumption DEF Bits
  <2>3. constructAddr(getTag(r), getSet(r), {}) = getBlkAddr(r)
    <3>1. \A i : i \in constructAddr(getTag(r), getSet(r), {}) <=> i \in getBlkAddr(r)
      BY <2>1, <2>2, PartsOfWord DEF constructAddr
    <3>2. constructAddr(getTag(r), getSet(r), {}) \subseteq Bits /\ getBlkAddr(r) \subseteq Bits
      BY DEF constructAddr, getBlkAddr, ShiftLeft
    <3> QED  BY <3>1, <3>2
  <2>6. constructAddr(getTag(r), getSet(r), r \cap Mask(blockOffset)) = r
    <3>1. \A i : i \in r \cap Mask(blockOffset) <=> i \in r /\ i < blockOffset
      BY <2>1 DEF Mask
    <3>2. \A i : i \in constructAddr(getTag(r), getSet(r), r \cap Mask(blockOffset)) <=> i \in r
      BY <2>1, <2>2, <3>1, PartsOfWord DEF constructAddr
    <3>3. constructAddr(getTag(r), getSet(r), r \cap Mask(blockOffset)) \subseteq Bits
      BY DEF constructAddr, Mask, ShiftLeft
    <3> QED  BY <2>1, <3>2, <3>3
  <2>4. getSet(w) \subseteq 0 .. setBit - 1
    BY <2>1, PartsOfWord
  <2>5. (getTag(w) = getTag(r) /\ getSet(w) = getSet(r)) <=> getBlkAddr(w) = getBlkAddr(r)
    BY <2>1, TagAndSetNameBlock
  <2> QED  BY <2>3, <2>4, <2>5, <2>6 DEF SplitIsExact, w, r
<1> QED  BY <1>1, PTL

\* The quotient is the number of whole blocks.
LEMMA QuotientIs ==
  ASSUME NEW b \in Nat \ {0}, NEW q \in Nat, NEW r \in Nat, r < b
  PROVE  (b * q + r) \div b = q
  OBVIOUS

LEMMA QuotientBounds ==
  ASSUME NEW b \in Nat \ {0}, NEW a \in Nat
  PROVE  a \div b \in Nat /\ b * (a \div b) <= a /\ a < b * (a \div b) + b
<1>1. a \div b \in Nat
  OBVIOUS
<1>2. b * (a \div b) <= a
  OBVIOUS
<1>3. a < b * (a \div b) + b
  OBVIOUS
<1> QED  BY <1>1, <1>2, <1>3

\* Quotients by the block size, from a multiple of it on.
LEMMA WholeBlocks ==
  ASSUME NEW b \in Nat \ {0}, NEW a \in Nat, NEW m \in Nat, m % b = 0
  PROVE  /\ a >= m <=> a \div b >= m \div b
         /\ a >= m => (a - m) \div b = a \div b - m \div b
         /\ (a + b) \div b = a \div b + 1
<1> DEFINE q == a \div b
           n == m \div b
           r == a - b * q
<1>1. q \in Nat /\ n \in Nat /\ b * q <= a /\ a < b * q + b
  BY QuotientBounds
<1>2. m = b * n
  OBVIOUS
<1> HIDE DEF q, n
<1>3. b * q \in Nat /\ r \in Nat /\ r < b /\ a = b * q + r
  BY <1>1
<1>4. ASSUME q >= n PROVE a >= m
  <2>1. b * q >= b * n
    BY <1>1, <1>4
  <2> QED  BY <1>1, <1>2, <2>1
<1>5. ASSUME q < n PROVE a < m
  <2>1. b * n >= b * (q + 1)
    BY <1>1, <1>5
  <2>2. b * (q + 1) = b * q + b
    BY <1>1
  <2> QED  BY <1>1, <1>2, <2>1, <2>2
<1> HIDE DEF r
<1>6. ASSUME q >= n PROVE (a - m) \div b = q - n
  <2>1. b * (q - n) = b * q - b * n
    BY <1>1
  <2>2. q - n \in Nat /\ b * (q - n) \in Int /\ b * n \in Int
    BY <1>1, <1>6
  <2>3. a - m = b * (q - n) + r
    BY <1>2, <1>3, <2>1, <2>2
  <2> QED  BY <1>3, <2>2, <2>3, QuotientIs
<1>7. (a + b) \div b = q + 1
  <2>1. b * (q + 1) = b * q + b
    BY <1>1
  <2>2. a + b = b * (q + 1) + r
    BY <1>3, <2>1
  <2> QED  BY <1>1, <1>3, <2>2, QuotientIs
<1> QED  BY <1>1, <1>4, <1>5, <1>6, <1>7 DEF q, n

\* The threshold of every cacheable block is in the vector, and blocks next to
\* each other have thresholds next to each other, for every block size that
\* divides the shared range.
THEOREM NumbersAlwaysFit == LookupSpec => []NumbersFit
<1>1. LookupSpec => [](addr \in Addresses)
  <2>1. LookupInit => addr \in Addresses
    BY DEF LookupInit, AddressInit
  <2>2. addr \in Addresses /\ [LookupNext]_lookupVars => (addr \in Addresses)'
    BY DEF LookupNext, Lookup, lookupVars, addressVars
  <2> QED  BY <2>1, <2>2, PTL DEF LookupSpec
<1>2. addr \in Addresses => NumbersFit
  <2> SUFFICES ASSUME addr \in Nat, addr >= SharedMemStart, addr < SharedMemEnd
               PROVE  /\ getBlkNumber(addr) \in 0 .. ThresholdCount - 1
                      /\ getBlkNumber(addr + blockSize) = getBlkNumber(addr) + 1
    BY GeometryAssumption DEF NumbersFit, isCacheableAddr
  <2> DEFINE S == SharedMemStart
             E == SharedMemEnd
             b == blockSize
  <2>1. /\ b \in Nat \ {0} /\ S \in Nat /\ E \in Nat /\ S <= E
        /\ S % b = 0 /\ E % b = 0 /\ addr >= S /\ addr < E
    BY GeometryAssumption DEF SharedMemStart, SharedMemEnd
  <2> HIDE DEF S, E, b
  <2>2. addr \div b >= S \div b /\ addr \div b < E \div b
    <3>1. addr \div b \in Nat /\ S \div b \in Nat /\ E \div b \in Nat
      BY <2>1
    <3>2. addr >= E <=> addr \div b >= E \div b
      BY <2>1, WholeBlocks
    <3>3. addr >= S <=> addr \div b >= S \div b
      BY <2>1, WholeBlocks
    <3> QED  BY <2>1, <3>1, <3>2, <3>3
  <2>3. (E - S) \div b = E \div b - S \div b
    BY <2>1, WholeBlocks
  <2>4. (addr + b) \div b = addr \div b + 1
    BY <2>1, WholeBlocks
  <2>5. addr \div b \in Int /\ S \div b \in Int /\ E \div b \in Int
    BY <2>1
  <2> QED  BY <2>2, <2>3, <2>4, <2>5 DEF getBlkNumber, ThresholdCount, S, E, b
<1> QED  BY <1>1, <1>2, PTL

-----------------------------------------------------------------------------
(* tagMap is short exactly while a frame is free.                          *)

LEMMA SetOfTyped == \A b \in Cacheable : SetOf[b] \in Sets
  BY SetsAssumption

\* tagMap maps the blocks of a set one to one to the set's valid frames.
LEMMA ShortWhileNotFull ==
  ASSUME NEW states, NEW c, NEW s \in Sets, CacheTyped(c, states), MapAgrees(c)
  PROVE  HasUnallocated(c, s) <=> ~SetFull(c, s)
<1> DEFINE V == {w \in Ways : lines[c][s][w].valid}
           f == [b \in InSet(c, s) |-> tagMap[c][b]]
<1>1. f \in [InSet(c, s) -> V]
  BY DEF InSet, CacheTyped, MapAgrees, Present, LineOf
<1>2. \A x, y \in InSet(c, s) : f[x] = f[y] => x = y
  BY DEF InSet, CacheTyped, MapAgrees, Present, LineOf
<1>3. \A w \in V : \E b \in InSet(c, s) : f[b] = w
  <2> TAKE w \in V
  <2> DEFINE b == lines[c][s][w].tag
  <2>1. b \in Cacheable /\ SetOf[b] = s /\ tagMap[c][b] = w
    BY DEF MapAgrees
  <2>2. w # NotExist
    BY NumLinesAssumption DEF Ways, NotExist
  <2>3. b \in InSet(c, s)
    BY <2>1, <2>2 DEF InSet, Present
  <2> QED  BY <2>1, <2>3
<1>4. IsFiniteSet(V) /\ Cardinality(V) <= NumLines /\ (Cardinality(V) = NumLines => V = Ways)
  BY WaysFinite, FS_Subset
<1>5. f \in Injection(InSet(c, s), V) /\ f \in Surjection(InSet(c, s), V)
  <2> HIDE DEF f, V
  <2> QED  BY <1>1, <1>2, <1>3 DEF Injection, Surjection, IsInjective
<1>6. Cardinality(InSet(c, s)) = Cardinality(V)
  <2> HIDE DEF f, V
  <2> QED  BY <1>4, <1>5, FS_Injection
<1>7. Cardinality(V) \in Nat
  BY <1>4, FS_CardinalityType
<1>8. SetFull(c, s) <=> V = Ways
  BY DEF SetFull
<1>9. V = Ways => Cardinality(V) = NumLines
  BY WaysFinite
<1> HIDE DEF V
<1> QED  BY <1>4, <1>6, <1>7, <1>8, <1>9, NumLinesAssumption DEF HasUnallocated

\* What evict and allocate choose.
LEMMA FreeWayFacts ==
  ASSUME NEW states, NEW c, NEW b \in Cacheable, CacheInv(c, states)
  PROVE  /\ FreeWay(c, b) \in Ways
         /\ SweptFlags(c, b) \in [Ways -> {0, 1}]
         /\ Evicts(c, b) <=> SetFull(c, SetOf[b])
         /\ ~Evicts(c, b) =>
              /\ FreeWay(c, b) = clkPtr[c][SetOf[b]]
              /\ \A w \in Ways : lines[c][SetOf[b]][w].valid <=> w < FreeWay(c, b)
<1> DEFINE s == SetOf[b]
<1>1. s \in Sets
  BY SetOfTyped
<1>2. ClkFlags(c, s) \in [Ways -> {0, 1}] /\ clkPtr[c][s] \in Ways
  BY <1>1 DEF ClkFlags, CacheInv, CacheTyped, Frame
<1>3. HasUnallocated(c, s) <=> ~SetFull(c, s)
  BY <1>1, ShortWhileNotFull DEF CacheInv
<1>4. FreeWay(c, b) \in Ways /\ SweptFlags(c, b) \in [Ways -> {0, 1}]
  BY <1>2, SweepTyped DEF FreeWay, SweptFlags
<1>5. HasUnallocated(c, s) => FreeWay(c, b) = clkPtr[c][s]
  BY DEF FreeWay
<1>6. HasUnallocated(c, s) => \A w \in Ways : lines[c][s][w].valid <=> w < clkPtr[c][s]
  BY <1>1, <1>3 DEF CacheInv, FillOrder
<1> QED  BY <1>3, <1>4, <1>5, <1>6 DEF Evicts

\* The frame an eviction empties belongs to the block its tag names.
LEMMA VictimFacts ==
  ASSUME NEW states, NEW c, NEW b \in Cacheable, CacheInv(c, states), Evicts(c, b)
  PROVE  LET x == Victim(c, b).tag IN
           /\ x \in Cacheable /\ SetOf[x] = SetOf[b]
           /\ Present(c, x) /\ tagMap[c][x] = FreeWay(c, b) /\ LineOf(c, x) = Victim(c, b)
<1> DEFINE x == Victim(c, b).tag
<1>1. FreeWay(c, b) \in Ways /\ Victim(c, b).valid
  BY FreeWayFacts DEF SetFull, Victim
<1>2. x \in Cacheable /\ SetOf[x] = SetOf[b] /\ tagMap[c][x] = FreeWay(c, b)
  BY <1>1, SetOfTyped DEF Victim, CacheInv, MapAgrees
<1>3. FreeWay(c, b) # NotExist
  BY <1>1, NumLinesAssumption DEF Ways, NotExist
<1> QED  BY <1>2, <1>3 DEF Present, LineOf, Victim

\* While tagMap is short the hand is at a free frame.
LEMMA HandAtFreeFrame ==
  ASSUME NEW states, NEW c, NEW s \in Sets, CacheInv(c, states), HasUnallocated(c, s)
  PROVE  ~lines[c][s][clkPtr[c][s]].valid
<1>1. ~SetFull(c, s)
  BY ShortWhileNotFull DEF CacheInv
<1>2. \A w \in Ways : lines[c][s][w].valid <=> w < clkPtr[c][s]
  BY <1>1 DEF CacheInv, FillOrder
<1>3. clkPtr[c][s] \in Ways /\ ~(clkPtr[c][s] < clkPtr[c][s])
  BY DEF CacheInv, CacheTyped, Ways
<1> QED  BY <1>2, <1>3

\* Every cache starts with empty frames.
LEMMA CacheInvInit ==
  ASSUME NEW states, "Invalid" \in states, NEW c \in Caches, SetsInit
  PROVE  CacheInv(c, states)
<1>1. EmptyBlock \in [Words -> Values]
  BY BusAssumption DEF EmptyBlock
<1>2. EmptyFrame \in Frame(states) /\ ~EmptyFrame.valid
  BY <1>1 DEF EmptyFrame, Frame
<1>3. \A s \in Sets, w \in Ways : lines[c][s][w] = EmptyFrame
  BY DEF SetsInit
<1>4. 0 \in Ways /\ \A w \in Ways : ~(w < 0)
  BY NumLinesAssumption DEF Ways
<1>5. CacheTyped(c, states)
  <2>1. lines[c] \in [Sets -> [Ways -> Frame(states)]]
    BY <1>2 DEF SetsInit
  <2> QED  BY <1>4, <2>1 DEF CacheTyped, SetsInit
<1>6. MapAgrees(c)
  <2>1. \A b \in Cacheable : ~Present(c, b)
    BY DEF Present, SetsInit
  <2> QED  BY <1>2, <1>3, <2>1 DEF MapAgrees
<1>7. FillOrder(c)
  <2>1. \A s \in Sets : clkPtr[c][s] = 0
    BY DEF SetsInit
  <2> QED  BY <1>2, <1>3, <1>4, <2>1 DEF FillOrder
<1> QED  BY <1>5, <1>6, <1>7 DEF CacheInv

-----------------------------------------------------------------------------
(* What the steps of a protocol do to one cache, seen block by block.      *)

\* A hit, or a snoop that hits, replaces the line of the block and leaves the
\* other blocks alone.
LEMMA LineReplaced ==
  ASSUME NEW states, NEW c, NEW b \in Cacheable, NEW l \in Frame(states),
         CacheInv(c, states), Present(c, b), l.tag = b, l.valid,
         lines'[c] = WithLine(c, SetOf[b], tagMap[c][b], l),
         tagMap'[c] = tagMap[c], clkPtr'[c] = clkPtr[c]
  PROVE  /\ CacheInv(c, states)'
         /\ \A x \in Cacheable : Present(c, x)' <=> Present(c, x)
         /\ LineOf(c, b)' = l
         /\ \A x \in Cacheable \ {b} : Present(c, x) => LineOf(c, x)' = LineOf(c, x)
         /\ \A s \in Sets, w \in Ways :
              lines'[c][s][w] = l \/ lines'[c][s][w] = lines[c][s][w]
<1> DEFINE s0 == SetOf[b]
           w0 == tagMap[c][b]
<1>1. s0 \in Sets /\ w0 \in Ways
  BY SetOfTyped DEF CacheInv, CacheTyped, Present
<1>2. lines[c][s0][w0].valid /\ lines[c][s0][w0].tag = b
  BY DEF CacheInv, MapAgrees, LineOf
<1>3. /\ lines'[c] \in [Sets -> [Ways -> Frame(states)]]
      /\ lines'[c][s0][w0] = l
      /\ \A s \in Sets, w \in Ways : s # s0 \/ w # w0 => lines'[c][s][w] = lines[c][s][w]
  BY <1>1 DEF CacheInv, CacheTyped, WithLine
<1>4. CacheTyped(c, states)'
  BY <1>3 DEF CacheInv, CacheTyped
<1>5. \A x \in Cacheable : Present(c, x)' <=> Present(c, x)
  BY DEF Present
<1>6. \A x \in Cacheable \ {b} : Present(c, x) => SetOf[x] # s0 \/ tagMap[c][x] # w0
  BY <1>1, <1>2 DEF CacheInv, MapAgrees, LineOf
<1>7. \A x \in Cacheable : Present(c, x) => tagMap[c][x] \in Ways /\ SetOf[x] \in Sets
  BY SetOfTyped DEF CacheInv, CacheTyped, Present
<1>8. \A x \in Cacheable \ {b} : Present(c, x) => LineOf(c, x)' = LineOf(c, x)
  BY <1>3, <1>6, <1>7 DEF LineOf
<1>9. LineOf(c, b)' = l
  BY <1>3 DEF LineOf
<1>10. \A s \in Sets, w \in Ways :
         /\ lines'[c][s][w].valid <=> lines[c][s][w].valid
         /\ lines'[c][s][w].tag = lines[c][s][w].tag
  BY <1>2, <1>3
<1>11. MapAgrees(c)'
  <2>1. \A x \in Cacheable : Present(c, x)' => LineOf(c, x)'.valid /\ LineOf(c, x)'.tag = x
    BY <1>5, <1>8, <1>9 DEF CacheInv, MapAgrees
  <2>2. \A s \in Sets, w \in Ways : lines'[c][s][w].valid =>
          LET x == lines'[c][s][w].tag IN
            x \in Cacheable /\ SetOf[x] = s /\ tagMap'[c][x] = w
    BY <1>10 DEF CacheInv, MapAgrees
  <2> QED  BY <2>1, <2>2 DEF MapAgrees
<1>12. FillOrder(c)'
  <2> SUFFICES \A s \in Sets :
        SetFull(c, s)' \/ \A w \in Ways : lines'[c][s][w].valid <=> w < clkPtr'[c][s]
    BY DEF FillOrder
  <2>1. \A s \in Sets : SetFull(c, s)' <=> SetFull(c, s)
    BY <1>10 DEF SetFull
  <2> TAKE s \in Sets
  <2>2. CASE SetFull(c, s)
    BY <2>1, <2>2
  <2>3. CASE \A w \in Ways : lines[c][s][w].valid <=> w < clkPtr[c][s]
    <3>1. clkPtr'[c][s] = clkPtr[c][s]
      OBVIOUS
    <3>2. \A w \in Ways : lines'[c][s][w].valid <=> w < clkPtr'[c][s]
      BY <1>10, <2>3, <3>1
    <3> QED  BY <3>2
  <2> QED  BY <2>2, <2>3 DEF CacheInv, FillOrder
<1>13. \A s \in Sets, w \in Ways : lines'[c][s][w] = l \/ lines'[c][s][w] = lines[c][s][w]
  BY <1>3
<1> QED  BY <1>4, <1>5, <1>8, <1>9, <1>11, <1>12, <1>13 DEF CacheInv

\* The end of a miss puts the line where evict and allocate made room: the
\* block is present with that line, at most the victim is gone, and the other
\* lines only had their flags swept.
LEMMA LineFilled ==
  ASSUME NEW states, NEW c, NEW b \in Cacheable, NEW l \in Frame(states),
         CacheInv(c, states), ~Present(c, b), l.tag = b, l.valid,
         lines'[c] = LinesAfterFill(c, b, l),
         tagMap'[c] = TagMapAfterFill(c, b), clkPtr'[c] = ClkPtrAfterFill(c, b)
  PROVE  /\ CacheInv(c, states)'
         /\ Present(c, b)' /\ LineOf(c, b)' = l
         /\ \A x \in Cacheable \ {b} :
              /\ Present(c, x)' <=> Present(c, x) /\ ~(Evicts(c, b) /\ x = Victim(c, b).tag)
              /\ Present(c, x)' => SameButFlag(LineOf(c, x), LineOf(c, x)')
         /\ \A s \in Sets, w \in Ways :
              lines'[c][s][w] = l \/ SameButFlag(lines[c][s][w], lines'[c][s][w])
<1> DEFINE s0 == SetOf[b]
           w0 == FreeWay(c, b)
<1>1. s0 \in Sets /\ w0 \in Ways /\ SweptFlags(c, b) \in [Ways -> {0, 1}]
  BY SetOfTyped, FreeWayFacts
<1>2. /\ lines'[c] \in [Sets -> [Ways -> Frame(states)]]
      /\ lines'[c][s0][w0] = l
      /\ \A s \in Sets, w \in Ways : s # s0 \/ w # w0 =>
           SameButFlag(lines[c][s][w], lines'[c][s][w])
  <2>1. lines[c] \in [Sets -> [Ways -> Frame(states)]]
    BY DEF CacheInv, CacheTyped
  <2>2. lines'[c] = [lines[c] EXCEPT ![s0] = lines'[c][s0]]
    BY <1>1, <2>1 DEF LinesAfterFill
  <2>3. lines'[c][s0] =
          [w \in Ways |-> IF w = w0 THEN l
                          ELSE [lines[c][s0][w] EXCEPT !.clkFlag = SweptFlags(c, b)[w]]]
    BY <1>1, <2>1 DEF LinesAfterFill
  <2>4. \A w \in Ways : w # w0 =>
          /\ lines'[c][s0][w] \in Frame(states)
          /\ SameButFlag(lines[c][s0][w], lines'[c][s0][w])
    <3> TAKE w \in Ways
    <3> DEFINE k == lines[c][s0][w]
    <3>1. k \in Frame(states) /\ SweptFlags(c, b)[w] \in {0, 1}
      BY <1>1, <2>1
    <3>2. [k EXCEPT !.clkFlag = SweptFlags(c, b)[w]] \in Frame(states)
          /\ SameButFlag(k, [k EXCEPT !.clkFlag = SweptFlags(c, b)[w]])
      <4> HIDE DEF k
      <4> QED  BY <3>1 DEF Frame, SameButFlag
    <3> QED  BY <2>3, <3>2
  <2>5. lines'[c][s0][w0] = l /\ lines'[c][s0] \in [Ways -> Frame(states)]
    <3>1. lines'[c][s0][w0] = l
      BY <1>1, <2>3
    <3>2. \A w \in Ways : lines'[c][s0][w] \in Frame(states)
      BY <2>4, <3>1
    <3> QED  BY <2>3, <3>1, <3>2
  <2>6. \A s \in Sets : s # s0 => lines'[c][s] = lines[c][s]
    BY <2>1, <2>2
  <2>7. lines'[c] \in [Sets -> [Ways -> Frame(states)]]
    BY <1>1, <2>1, <2>2, <2>5
  <2>8. \A s \in Sets, w \in Ways : s # s0 => SameButFlag(lines[c][s][w], lines'[c][s][w])
    BY <2>6 DEF SameButFlag
  <2> QED  BY <2>4, <2>5, <2>7, <2>8
<1>3. CacheTyped(c, states)'
  <2>1. tagMap'[c] \in [Cacheable -> Ways \cup {NotExist}]
    BY <1>1 DEF CacheInv, CacheTyped, TagMapAfterFill
  <2>2. clkPtr'[c] \in [Sets -> Ways]
    <3>1. After(w0, 1) \in Ways
      BY <1>1, AfterIsWay, NumLinesAssumption DEF Ways
    <3> QED  BY <3>1 DEF CacheInv, CacheTyped, ClkPtrAfterFill
  <2> QED  BY <1>2, <2>1, <2>2 DEF CacheTyped
\* Who is where afterwards.
<1>4. w0 # NotExist
  BY <1>1, NumLinesAssumption DEF Ways, NotExist
<1>5. /\ tagMap'[c][b] = w0
      /\ \A x \in Cacheable \ {b} :
           tagMap'[c][x] = IF Evicts(c, b) /\ x = Victim(c, b).tag
                             THEN NotExist ELSE tagMap[c][x]
  BY DEF TagMapAfterFill
<1>6. Present(c, b)' /\ LineOf(c, b)' = l
  BY <1>2, <1>4, <1>5 DEF Present, LineOf
<1>7. \A x \in Cacheable \ {b} :
        Present(c, x)' <=> Present(c, x) /\ ~(Evicts(c, b) /\ x = Victim(c, b).tag)
  BY <1>5 DEF Present
\* The frame taken was empty or the victim's, so nobody else sat there.
<1>8. \A x \in Cacheable \ {b} : Present(c, x)' =>
        /\ tagMap'[c][x] = tagMap[c][x] /\ tagMap[c][x] \in Ways /\ SetOf[x] \in Sets
        /\ SetOf[x] # s0 \/ tagMap[c][x] # w0
  <2> TAKE x \in Cacheable \ {b}
  <2> HAVE Present(c, x)'
  <2>1. Present(c, x) /\ tagMap'[c][x] = tagMap[c][x]
    BY <1>5, <1>7
  <2>2. tagMap[c][x] \in Ways /\ SetOf[x] \in Sets
    BY <2>1, SetOfTyped DEF CacheInv, CacheTyped, Present
  <2>3. LineOf(c, x).valid /\ LineOf(c, x).tag = x
    BY <2>1 DEF CacheInv, MapAgrees
  <2>4. ASSUME SetOf[x] = s0, tagMap[c][x] = w0 PROVE FALSE
    <3>1. LineOf(c, x) = Victim(c, b)
      BY <2>4 DEF LineOf, Victim
    <3>2. CASE Evicts(c, b)
      BY <1>7, <2>3, <3>1, <3>2
    <3>3. CASE ~Evicts(c, b)
      <4>1. ~Victim(c, b).valid
        BY <1>1, <3>3, FreeWayFacts DEF Victim, Ways
      <4> QED  BY <2>3, <3>1, <4>1
    <3> QED  BY <3>2, <3>3
  <2> QED  BY <2>1, <2>2, <2>4
<1>9. \A x \in Cacheable \ {b} : Present(c, x)' => SameButFlag(LineOf(c, x), LineOf(c, x)')
  BY <1>2, <1>8 DEF LineOf
<1>10. \A s \in Sets, w \in Ways :
         lines'[c][s][w] = l \/ SameButFlag(lines[c][s][w], lines'[c][s][w])
  BY <1>2
<1>11. MapAgrees(c)'
  <2>1. \A x \in Cacheable : Present(c, x)' => LineOf(c, x)'.valid /\ LineOf(c, x)'.tag = x
    <3>1. \A x \in Cacheable \ {b} : Present(c, x)' =>
            LineOf(c, x)'.valid /\ LineOf(c, x)'.tag = x
      BY <1>7, <1>9 DEF CacheInv, MapAgrees, SameButFlag
    <3> QED  BY <1>6, <3>1
  <2>2. ASSUME NEW s \in Sets, NEW w \in Ways, lines'[c][s][w].valid
        PROVE  LET x == lines'[c][s][w].tag IN
                 x \in Cacheable /\ SetOf[x] = s /\ tagMap'[c][x] = w
    <3>1. CASE s = s0 /\ w = w0
      BY <1>2, <1>5, <3>1
    <3>2. CASE s # s0 \/ w # w0
      <4> DEFINE x == lines'[c][s][w].tag
      <4>1. lines[c][s][w].valid /\ x = lines[c][s][w].tag
        BY <1>2, <2>2, <3>2 DEF SameButFlag
      <4>2. x \in Cacheable /\ SetOf[x] = s /\ tagMap[c][x] = w
        BY <4>1 DEF CacheInv, MapAgrees
      <4>3. x # b
        <5>1. w # NotExist
          BY NumLinesAssumption DEF Ways, NotExist
        <5> QED  BY <4>2, <5>1 DEF Present
      <4>4. ~(Evicts(c, b) /\ x = Victim(c, b).tag)
        BY <3>2, <4>2, VictimFacts
      <4> QED  BY <1>5, <4>2, <4>3, <4>4
    <3> QED  BY <3>1, <3>2
  <2> QED  BY <2>1, <2>2 DEF MapAgrees
<1>12. FillOrder(c)'
  <2>1. \A s \in Sets, w \in Ways : s # s0 \/ w # w0 =>
          (lines'[c][s][w].valid <=> lines[c][s][w].valid)
    BY <1>2 DEF SameButFlag
  <2>2. clkPtr'[c][s0] = After(w0, 1) /\ \A s \in Sets : s # s0 => clkPtr'[c][s] = clkPtr[c][s]
    BY <1>1 DEF CacheInv, CacheTyped, ClkPtrAfterFill
  <2>3. \A s \in Sets : s # s0 =>
          SetFull(c, s)' \/ \A w \in Ways : lines'[c][s][w].valid <=> w < clkPtr'[c][s]
    <3> TAKE s \in Sets
    <3> HAVE s # s0
    <3>1. CASE SetFull(c, s)
      BY <2>1, <3>1 DEF SetFull
    <3>2. CASE \A w \in Ways : lines[c][s][w].valid <=> w < clkPtr[c][s]
      BY <2>1, <2>2, <3>2
    <3> QED  BY <3>1, <3>2 DEF CacheInv, FillOrder
  <2>4. CASE Evicts(c, b)
    <3>1. \A w \in Ways : lines'[c][s0][w].valid
      BY <1>2, <2>1, <2>4, <1>1, FreeWayFacts DEF SetFull
    <3>2. SetFull(c, s0)'
      BY <3>1 DEF SetFull
    <3> QED  BY <2>3, <3>2 DEF FillOrder
  <2>5. CASE ~Evicts(c, b)
    <3>1. \A w \in Ways : lines'[c][s0][w].valid <=> w < w0 + 1
      BY <1>1, <1>2, <2>1, <2>5, FreeWayFacts DEF Ways
    <3>2. CASE w0 + 1 = NumLines
      <4>1. SetFull(c, s0)'
        BY <3>1, <3>2, NumLinesAssumption DEF SetFull, Ways
      <4> QED  BY <2>3, <4>1 DEF FillOrder
    <3>3. CASE w0 + 1 # NumLines
      <4>1. After(w0, 1) = w0 + 1
        BY <1>1, <3>3, NumLinesAssumption DEF After, Ways
      <4> QED  BY <2>2, <2>3, <3>1, <4>1 DEF FillOrder
    <3> QED  BY <3>2, <3>3
  <2> QED  BY <2>4, <2>5
<1> QED  BY <1>3, <1>6, <1>7, <1>9, <1>10, <1>11, <1>12 DEF CacheInv

=============================================================================
