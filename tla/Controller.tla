------------------------------ MODULE Controller ------------------------------
(***************************************************************************)
(* The memory controller: its request queues, the write mode, the          *)
(* scheduler that picks the next request, the row policy that precharges   *)
(* when there is nothing to schedule, and the row table that follows the   *)
(* channel (src/Controller.h, src/Scheduler.h), for one rank.              *)
(*                                                                         *)
(* The channel is external: it knows the open row of every bank, decodes   *)
(* the next command of a request, and says in each cycle which commands    *)
(* its timing allows.  Queues are in order of arrival, so a position       *)
(* stands for the arrive time of a request.                                *)
(***************************************************************************)
EXTENDS Integers, Sequences, FiniteSets, SequencesExt

CONSTANTS
  Addrs, BankOf, RowOf,  \* an address, its bank and its row
  NoRow,                 \* a closed bank
  Requests,              \* what arrives: type and address
  SchedulerTypes,        \* FCFS, FCFSBank, FRFCFS; BLISS and Custom compare as FRFCFS
  PolicyTypes,           \* Closed, ClosedAP, Opened, Timeout
  QueueMax,              \* Queue::max
  HighMark, LowMark,     \* the watermarks times max, rounded down
  ReadLatency,           \* of the channel
  MaxPending             \* bound: no request arrives while more reads are on their way

ASSUME ControllerAssumption ==
  /\ BankOf \in [Addrs -> Nat]
  /\ Requests \subseteq {"READ", "WRITE"} \X Addrs
  /\ NoRow \notin {RowOf[a] : a \in Addrs}
  /\ SchedulerTypes \subseteq {"FCFS", "FCFSBank", "FRFCFS"}
  /\ PolicyTypes \subseteq {"Closed", "ClosedAP", "Opened", "Timeout"}
  /\ QueueMax \in Nat \ {0} /\ ReadLatency \in Nat \ {0}
  /\ HighMark \in 0..(QueueMax - 1)
  /\ LowMark \in 1..QueueMax

Banks == {BankOf[a] : a \in Addrs}
Rows  == {RowOf[a] : a \in Addrs}

VARIABLES
  readq, writeq, actq,  \* requests, in order of arrival
  otherq,               \* the number of refresh requests
  pending,              \* reads about to receive data, with the cycles left
  writeMode,            \* write_mode
  open,                 \* the channel: open row of every bank
  rowTable,             \* RowTable::table: the row of a bank's entry
  serving,              \* cur_serving_requests of the channel
  sched, policy         \* Scheduler::type, RowPolicy::type

queues == <<readq, writeq, actq, otherq, pending>>
vars   == <<queues, writeMode, open, rowTable, serving, sched, policy>>

\* isFirst: is_first_command.  older: history, the writes to the address that
\* arrived before the request and have not been performed.
Request == [type : {"READ", "WRITE"}, addr : Addrs, isFirst : BOOLEAN, older : Nat]

-----------------------------------------------------------------------------
(* The channel *)

\* decode: the next command of a request.
FirstCommand(r) ==
  LET row == open[BankOf[r.addr]]
  IN IF row = NoRow THEN "ACT"
     ELSE IF row # RowOf[r.addr] THEN "PRE"
     ELSE IF r.type = "READ" THEN "RD" ELSE "WR"

\* decode of a refresh: all banks are precharged first.
AllClosed == [b \in Banks |-> NoRow]
RefreshCommand == IF open = AllClosed THEN "REF" ELSE "PREA"

IsRowOpen(r) == open[BankOf[r.addr]] # NoRow
IsRowHit(r)  == open[BankOf[r.addr]] = RowOf[r.addr]

IsReady(r, ready) == <<FirstCommand(r), BankOf[r.addr]>> \in ready

OpenBanks == {b \in Banks : open[b] # NoRow}
Queued == ToSet(readq) \cup ToSet(writeq) \cup ToSet(actq)

\* The commands somebody may ask about.
Commands ==
  {<<FirstCommand(r), BankOf[r.addr]>> : r \in Queued}
    \cup {<<"PRE", b>> : b \in OpenBanks} \cup {<<RefreshCommand, 0>>}

\* The commands timing may allow in a cycle.  A bank activated for a request
\* can be accessed before it can be precharged (tRCD is shorter than tRAS).
ReadySets ==
  {ready \in SUBSET Commands :
     \A r \in ToSet(actq) :
       /\ IsRowHit(r)
       /\ <<"PRE", BankOf[r.addr]>> \in ready
       => IsReady(r, ready)}

-----------------------------------------------------------------------------
(* Scheduler *)

First(s) == {i \in s : \A j \in s : i <= j}
Prefer(s, best) == IF s \cap best # {} THEN First(s \cap best) ELSE First(s)

\* FRFCFS leaves out what would close a row that another request hits.
ViolatesHit(q, r) ==
  /\ ~IsRowHit(r) /\ IsRowOpen(r)
  /\ \E i \in DOMAIN q : IsRowHit(q[i]) /\ BankOf[q[i].addr] = BankOf[r.addr]

\* Scheduler::get_head: the position of the request to serve, if any.
GetHead(q, ready) ==
  LET readyOnes == {i \in DOMAIN q : IsReady(q[i], ready)}
      readyHits == {i \in readyOnes : IsRowHit(q[i])}
  IN CASE sched = "FCFS" -> First(DOMAIN q)
       [] sched = "FCFSBank" -> Prefer(DOMAIN q, readyOnes)
       [] sched = "FRFCFS" ->
            IF readyHits # {} THEN First(readyHits)
            ELSE Prefer({i \in DOMAIN q : ~ViolatesHit(q, q[i])}, readyOnes)

\* Fault: others are served while the activated one is not ready.
SourceOfAnyReady(mode, others) ==
  IF others > 0 THEN "other" ELSE IF mode /\ writeq # <<>> THEN "write"
  ELSE IF readq # <<>> THEN "read" ELSE "act"

\* The queue that is served: activated requests before anything else, then
\* refreshes, then reads or writes.
Source(mode, others) ==
  IF actq # <<>> THEN "act"
  ELSE IF others > 0 THEN "other"
  ELSE IF mode THEN "write" ELSE "read"

QueueOf(source) ==
  CASE source = "act" -> actq [] source = "write" -> writeq [] source = "read" -> readq
    [] OTHER -> <<>>

\* The position of the request a command is issued for.
Chosen(source, ready) ==
  {i \in GetHead(QueueOf(source), ready) : IsReady(QueueOf(source)[i], ready)}

-----------------------------------------------------------------------------
(* Controller *)

Init ==
  /\ readq = <<>> /\ writeq = <<>> /\ actq = <<>> /\ otherq = 0 /\ pending = <<>>
  /\ writeMode = FALSE
  /\ open = AllClosed /\ rowTable = AllClosed
  /\ serving = 0
  /\ sched \in SchedulerTypes /\ policy \in PolicyTypes

WritesTo(q, a) == {i \in DOMAIN q : q[i].type = "WRITE" /\ q[i].addr = a}

Arriving(type, a) ==
  [type |-> type, addr |-> a, isFirst |-> TRUE,
   older |-> Cardinality(WritesTo(writeq, a)) + Cardinality(WritesTo(actq, a))]

\* Fault: reads are never forwarded.
NeverForwarded(a) == FALSE

\* A read of an address in the write queue is answered in the next cycle.
Forwarded(a) == WritesTo(writeq, a) # {}

\* Fault: the queue is full one request later.
HasRoomAtLimit(q) == Len(q) <= QueueMax

HasRoom(q) == Len(q) < QueueMax

\* enqueue, while the queue has room; when it is full nothing happens.
Enqueue(type, a) ==
  /\ Len(pending) <= MaxPending
  /\ HasRoom(IF type = "READ" THEN readq ELSE writeq)
  /\ IF type = "WRITE"
     THEN writeq' = Append(writeq, Arriving(type, a)) /\ UNCHANGED <<readq, pending>>
     ELSE IF Forwarded(a)
     THEN pending' = Append(pending, [left |-> 1, accessed |-> FALSE]) /\ UNCHANGED <<readq, writeq>>
     ELSE readq' = Append(readq, Arriving(type, a)) /\ UNCHANGED <<writeq, pending>>
  /\ UNCHANGED <<actq, otherq, writeMode, open, rowTable, serving, sched, policy>>

\* Fault: forwarded reads end what they never started.
ServingOfAll ==
  IF pending # <<>> /\ pending[1].left <= 1 THEN serving - 1 ELSE serving

\* One completed read is answered per cycle, and only the head is looked at.
OneCycleOn == [i \in DOMAIN pending |-> [pending[i] EXCEPT !.left = IF @ = 0 THEN 0 ELSE @ - 1]]
Answers    == pending # <<>> /\ pending[1].left <= 1
PendingNow == IF Answers THEN Tail(OneCycleOn) ELSE OneCycleOn
ServingNow == IF Answers /\ pending[1].accessed THEN serving - 1 ELSE serving

\* Fault: write mode ends below an empty queue.
ModeKept ==
  IF ~writeMode THEN Len(writeq) > HighMark \/ readq = <<>>
  ELSE ~(Len(writeq) < LowMark - 1 /\ readq # <<>>)

\* Whether to schedule writes.
ModeNow ==
  IF ~writeMode THEN Len(writeq) > HighMark \/ readq = <<>>
  ELSE ~(Len(writeq) < LowMark /\ readq # <<>>)

\* What every cycle does before it looks for a command.  Refreshes are far
\* apart: one arrives when the last one is done.
StartCycle(refresh) ==
  /\ refresh \in BOOLEAN /\ (refresh => otherq = 0)
  /\ writeMode' = ModeNow
  /\ UNCHANGED <<sched, policy>>
Others(refresh) == IF refresh THEN otherq + 1 ELSE otherq
From(refresh)   == Source(ModeNow, Others(refresh))

\* RowTable::update: insert keeps an entry that is there.
RowTableOpened(a) ==
  [rowTable EXCEPT ![BankOf[a]] = IF @ = NoRow THEN RowOf[a] ELSE @]

\* Fault: only a precharge of one bank removes its entry.
OneEntryClosed(banks) == [b \in Banks |-> IF banks = {b} THEN NoRow ELSE rowTable[b]]

\* RowTable::update: a precharge removes the entries of its banks.
RowTableClosed(banks) == [b \in Banks |-> IF b \in banks THEN NoRow ELSE rowTable[b]]

ClosedNow(banks) == [b \in Banks |-> IF b \in banks THEN NoRow ELSE open[b]]

\* cmd_issue_autoprecharge: how many requests hit the row, in the queue of the
\* mode or else among the activated ones.
HitsIn(q, a) == Cardinality({i \in DOMAIN q : IsRowHit(q[i]) /\ BankOf[q[i].addr] = BankOf[a]})
NumRowHits(a) ==
  LET here == HitsIn(IF ModeNow THEN writeq ELSE readq, a)
  IN IF here = 0 THEN HitsIn(actq, a) ELSE here
Autoprecharges(a) == policy = "ClosedAP" /\ NumRowHits(a) = 1

\* A served request leaves its queue; later requests wait for one write less.
WriteDone(q, r) ==
  [i \in DOMAIN q |-> [q[i] EXCEPT !.older =
     IF r.type = "WRITE" /\ q[i].addr = r.addr /\ @ > 0 THEN @ - 1 ELSE @]]
Without(q, source, name, i) == IF source = name THEN RemoveAt(q, i) ELSE q
Touched(q, source, name, i) ==
  IF source = name THEN [q EXCEPT ![i].isFirst = FALSE] ELSE q
ServingWith(r) == IF r.isFirst THEN ServingNow + 1 ELSE ServingNow

\* A request accesses its row and is finished, a read after ReadLatency.
TickAccess(ready, refresh) ==
  /\ StartCycle(refresh)
  /\ otherq' = Others(refresh)
  /\ \E i \in Chosen(From(refresh), ready) :
       LET s == From(refresh)
           r == QueueOf(s)[i]
       IN /\ FirstCommand(r) \in {"RD", "WR"}
          /\ readq'  = WriteDone(Without(readq, s, "read", i), r)
          /\ writeq' = WriteDone(Without(writeq, s, "write", i), r)
          /\ actq'   = WriteDone(Without(actq, s, "act", i), r)
          /\ pending' = IF r.type = "READ"
                        THEN Append(PendingNow, [left |-> ReadLatency, accessed |-> TRUE])
                        ELSE PendingNow
          /\ serving' = IF r.type = "READ" THEN ServingWith(r) ELSE ServingWith(r) - 1
          /\ IF Autoprecharges(r.addr)
             THEN open' = ClosedNow({BankOf[r.addr]}) /\ rowTable' = RowTableClosed({BankOf[r.addr]})
             ELSE UNCHANGED <<open, rowTable>>

\* A request opens its row and moves to actq.
TickOpen(ready, refresh) ==
  /\ StartCycle(refresh)
  /\ otherq' = Others(refresh) /\ pending' = PendingNow
  /\ \E i \in Chosen(From(refresh), ready) :
       LET s == From(refresh)
           r == QueueOf(s)[i]
       IN /\ FirstCommand(r) = "ACT"
          /\ readq'  = Without(readq, s, "read", i)
          /\ writeq' = Without(writeq, s, "write", i)
          /\ actq'   = Append(Without(actq, s, "act", i), [r EXCEPT !.isFirst = FALSE])
          /\ serving' = ServingWith(r)
          /\ open' = [open EXCEPT ![BankOf[r.addr]] = RowOf[r.addr]]
          /\ rowTable' = RowTableOpened(r.addr)

\* A request closes the row that is in its way.
TickClose(ready, refresh) ==
  /\ StartCycle(refresh)
  /\ otherq' = Others(refresh) /\ pending' = PendingNow
  /\ \E i \in Chosen(From(refresh), ready) :
       LET s == From(refresh)
           r == QueueOf(s)[i]
       IN /\ FirstCommand(r) = "PRE"
          /\ readq'  = Touched(readq, s, "read", i)
          /\ writeq' = Touched(writeq, s, "write", i)
          /\ actq'   = Touched(actq, s, "act", i)
          /\ serving' = ServingWith(r)
          /\ open' = ClosedNow({BankOf[r.addr]}) /\ rowTable' = RowTableClosed({BankOf[r.addr]})

\* A refresh precharges all banks and is done when they are closed.
TickRefresh(ready, refresh) ==
  /\ StartCycle(refresh)
  /\ From(refresh) = "other" /\ <<RefreshCommand, 0>> \in ready
  /\ otherq' = IF RefreshCommand = "REF" THEN Others(refresh) - 1 ELSE Others(refresh)
  /\ open' = AllClosed /\ rowTable' = RowTableClosed(OpenBanks)
  /\ pending' = PendingNow /\ serving' = ServingNow
  /\ UNCHANGED <<readq, writeq, actq>>

\* Nothing can be scheduled: the row policy may name a row to close.
NothingReady(ready, refresh) ==
  /\ Chosen(From(refresh), ready) = {}
  /\ ~(From(refresh) = "other" /\ <<RefreshCommand, 0>> \in ready)

\* Rows the policy wants closed; Timeout goes by the time of the last access.
Unwanted(expired) ==
  CASE policy \in {"Closed", "ClosedAP"} -> {b \in Banks : rowTable[b] # NoRow}
    [] policy = "Opened" -> {}
    [] policy = "Timeout" -> {b \in expired : rowTable[b] # NoRow}

Victims(expired, ready) == First({b \in Unwanted(expired) : <<"PRE", b>> \in ready})

TickSpeculate(ready, refresh, expired) ==
  /\ StartCycle(refresh)
  /\ NothingReady(ready, refresh)
  /\ open' = ClosedNow(Victims(expired, ready))
  /\ rowTable' = RowTableClosed(Victims(expired, ready))
  /\ otherq' = Others(refresh) /\ pending' = PendingNow /\ serving' = ServingNow
  /\ UNCHANGED <<readq, writeq, actq>>

Tick(ready, refresh) ==
  \/ TickAccess(ready, refresh)
  \/ TickOpen(ready, refresh)
  \/ TickClose(ready, refresh)
  \/ TickRefresh(ready, refresh)
  \/ \E expired \in SUBSET OpenBanks : TickSpeculate(ready, refresh, expired)

Arrival == \E r \in Requests : Enqueue(r[1], r[2])

Next ==
  \/ Arrival
  \/ \E ready \in ReadySets, refresh \in BOOLEAN : Tick(ready, refresh)

Spec == Init /\ [][Next]_vars

\* Cycles in which the timing allows every command and no refresh is due come
\* again and again; so do others.
QuietTick == otherq = 0 /\ Tick(Commands, FALSE)
RefreshTick == otherq > 0 /\ Tick(Commands, FALSE)

FairSpec == Spec /\ SF_vars(QuietTick) /\ SF_vars(RefreshTick)

-----------------------------------------------------------------------------

\* Every variable keeps its type, and the queues their limits.
TypeOK ==
  /\ \A q \in {readq, writeq, actq} : q \in Seq(Request) /\ Len(q) <= QueueMax
  /\ otherq \in 0..1
  /\ pending \in Seq([left : 0..ReadLatency, accessed : BOOLEAN])
  /\ writeMode \in BOOLEAN
  /\ open \in [Banks -> Rows \cup {NoRow}] /\ rowTable \in [Banks -> Rows \cup {NoRow}]
  /\ serving \in Int

\* The row table follows the channel: the entry an access looks up is there
\* and is of its row, and a precharge removes one (the asserts of
\* RowTable::update, Scheduler.h:348, 349 and 372).
RowTableAgrees == rowTable = open

\* "avoiding useless activations (i.e., PRECHARGE after ACTIVATE w/o READ of
\* WRITE command)" (Controller.h:89): one request at a time is activated, and
\* its row stays open until it is served.
ActivatesUsed ==
  /\ Len(actq) <= 1
  /\ \A r \in ToSet(actq) : IsRowHit(r)

\* "necessary for coherence" (Controller.h:322): whatever the timing, a
\* request accesses its address after all writes to it that arrived earlier.
\* The activated write is in no queue that enqueue searches.
ScheduledInOrder ==
  \A ready \in ReadySets, refresh \in BOOLEAN :
    LET q == QueueOf(From(refresh))
    IN \A i \in Chosen(From(refresh), ready) :
         FirstCommand(q[i]) \in {"RD", "WR"} => q[i].older = 0

\* The channel is told of every request that starts and ends: it serves the
\* queued requests a command was issued for and the reads of rows on their way.
ServingCounted ==
  serving = Cardinality({i \in DOMAIN readq : ~readq[i].isFirst})
              + Cardinality({i \in DOMAIN writeq : ~writeq[i].isFirst})
              + Cardinality({i \in DOMAIN actq : ~actq[i].isFirst})
              + Cardinality({i \in DOMAIN pending : pending[i].accessed})

\* Once no more requests arrive, every one is served: write mode is left for
\* reads that wait and entered for writes that are left (Controller.h:356).
Drained == readq = <<>> /\ writeq = <<>> /\ actq = <<>> /\ pending = <<>>
QueuesDrain == <>[][~Arrival]_vars => <>[]Drained
==============================================================================
