--------------------------- MODULE ControllerProofs ---------------------------
(***************************************************************************)
(* The memory controller, proved for any number of addresses, banks and    *)
(* rows, any queue length and watermarks, and every scheduler and row      *)
(* policy: the row table follows the channel, an activation is used, the   *)
(* channel's count of requests is right, and no request overtakes an       *)
(* earlier write to its address.                                           *)
(***************************************************************************)
EXTENDS Controller, SequenceTheorems, FiniteSetTheorems, TLAPS

-----------------------------------------------------------------------------
(* Counting in queues.                                                     *)

\* Which of the first n elements of q are in T, and how many.
Marks(q, n, T)   == {j \in 1..n : q[j] \in T}
CountTo(q, n, T) == Cardinality(Marks(q, n, T))

One(p) == IF p THEN 1 ELSE 0

LEMMA CountTyped ==
  ASSUME NEW q, NEW n \in Int, NEW T
  PROVE  IsFiniteSet(Marks(q, n, T)) /\ CountTo(q, n, T) \in Nat
<1>1. IsFiniteSet(1..n) /\ Marks(q, n, T) \in SUBSET (1..n)
  BY FS_Interval DEF Marks
<1> QED  BY <1>1, FS_Subset, FS_CardinalityType DEF CountTo

LEMMA CountNone ==
  ASSUME NEW q, NEW n \in Int, NEW T, \A j \in 1..n : q[j] \notin T
  PROVE  CountTo(q, n, T) = 0
<1>1. Marks(q, n, T) = {}
  BY DEF Marks
<1> QED  BY <1>1, FS_EmptySet DEF CountTo

LEMMA CountPositive ==
  ASSUME NEW q, NEW n \in Int, NEW T, NEW j \in 1..n, q[j] \in T
  PROVE  CountTo(q, n, T) \in Nat /\ CountTo(q, n, T) >= 1
<1>1. Marks(q, n, T) # {}
  BY DEF Marks
<1>2. IsFiniteSet(Marks(q, n, T)) /\ CountTo(q, n, T) \in Nat
  BY CountTyped
<1>3. CountTo(q, n, T) # 0
  BY <1>1, <1>2, FS_EmptySet DEF CountTo
<1> QED  BY <1>2, <1>3

LEMMA CountSame ==
  ASSUME NEW q, NEW s, NEW n \in Int, NEW T, \A j \in 1..n : q[j] \in T <=> s[j] \in T
  PROVE  CountTo(q, n, T) = CountTo(s, n, T)
<1>1. Marks(q, n, T) = Marks(s, n, T)
  BY DEF Marks
<1> QED  BY <1>1 DEF CountTo

\* One element more.
LEMMA CountNext ==
  ASSUME NEW q, NEW n \in Nat, NEW T
  PROVE  CountTo(q, n + 1, T) = CountTo(q, n, T) + One(q[n + 1] \in T)
<1>1. /\ IsFiniteSet(Marks(q, n, T)) /\ CountTo(q, n, T) \in Nat
      /\ n + 1 \notin Marks(q, n, T)
  BY CountTyped DEF Marks
<1>2. Marks(q, n + 1, T) = IF q[n + 1] \in T THEN Marks(q, n, T) \cup {n + 1} ELSE Marks(q, n, T)
  BY DEF Marks
<1> QED  BY <1>1, <1>2, FS_AddElement DEF CountTo, One

\* The count without position k.
LEMMA CountWithout ==
  ASSUME NEW q, NEW n \in Int, NEW T, NEW k \in 1..n
  PROVE  /\ IsFiniteSet(Marks(q, n, T) \ {k})
         /\ Cardinality(Marks(q, n, T) \ {k}) = CountTo(q, n, T) - One(q[k] \in T)
<1>1. /\ IsFiniteSet(Marks(q, n, T)) /\ CountTo(q, n, T) \in Nat
      /\ k \in Marks(q, n, T) <=> q[k] \in T
  BY CountTyped DEF Marks
<1> QED  BY <1>1, FS_RemoveElement DEF CountTo, One

\* One element changed.
LEMMA CountChanged ==
  ASSUME NEW q, NEW s, NEW n \in Int, NEW T, NEW k \in 1..n,
         \A j \in (1..n) \ {k} : s[j] = q[j]
  PROVE  CountTo(s, n, T) = CountTo(q, n, T) - One(q[k] \in T) + One(s[k] \in T)
<1>1. Marks(q, n, T) \ {k} = Marks(s, n, T) \ {k}
  BY DEF Marks
<1>2. CountTo(q, n, T) \in Nat /\ CountTo(s, n, T) \in Nat
  BY CountTyped
<1>3. Cardinality(Marks(q, n, T) \ {k}) = CountTo(q, n, T) - One(q[k] \in T)
  BY CountWithout
<1>4. Cardinality(Marks(s, n, T) \ {k}) = CountTo(s, n, T) - One(s[k] \in T)
  BY CountWithout
<1>5. One(q[k] \in T) \in Nat /\ One(s[k] \in T) \in Nat
  BY DEF One
<1>6. CountTo(q, n, T) - One(q[k] \in T) = CountTo(s, n, T) - One(s[k] \in T)
  BY <1>1, <1>3, <1>4
<1> QED  BY <1>2, <1>5, <1>6

LEMMA RemoveAtElements ==
  ASSUME NEW S, NEW q \in Seq(S), NEW k \in 1..Len(q)
  PROVE  /\ RemoveAt(q, k) \in Seq(S)
         /\ Len(RemoveAt(q, k)) = Len(q) - 1
         /\ \A j \in 1..(Len(q) - 1) : RemoveAt(q, k)[j] = IF j < k THEN q[j] ELSE q[j + 1]
<1>1. /\ \A j \in 1..(k - 1) : q[j] \in S
      /\ \A j \in (k + 1)..Len(q) : q[j] \in S
      /\ Len(q) \in Nat /\ k \in Int
  BY ElementOfSeq, LenProperties
<1>2. PICK a : a = SubSeq(q, 1, k - 1)
  OBVIOUS
<1>3. PICK b : b = SubSeq(q, k + 1, Len(q))
  OBVIOUS
<1>4. a \in Seq(S) /\ Len(a) = k - 1 /\ \A j \in 1..(k - 1) : a[j] = q[j]
  BY <1>1, <1>2, SubSeqProperties
<1>5. b \in Seq(S) /\ Len(b) = Len(q) - k /\ \A j \in 1..(Len(q) - k) : b[j] = q[k + j]
  BY <1>1, <1>3, SubSeqProperties
<1>6. /\ a \o b \in Seq(S) /\ Len(a \o b) = Len(q) - 1
      /\ \A j \in 1..(Len(q) - 1) : (a \o b)[j] = IF j <= k - 1 THEN a[j] ELSE b[j - (k - 1)]
  <2>1. Len(a) + Len(b) = Len(q) - 1
    BY <1>1, <1>4, <1>5
  <2>2. /\ a \o b \in Seq(S) /\ Len(a \o b) = Len(a) + Len(b)
        /\ \A j \in 1..(Len(a) + Len(b)) :
             (a \o b)[j] = IF j <= Len(a) THEN a[j] ELSE b[j - Len(a)]
    BY <1>4, <1>5, ConcatProperties
  <2> QED  BY <1>4, <2>1, <2>2
<1>7. \A j \in 1..(Len(q) - 1) : (a \o b)[j] = IF j < k THEN q[j] ELSE q[j + 1]
  BY <1>1, <1>4, <1>5, <1>6
<1> QED  BY <1>2, <1>3, <1>6, <1>7 DEF RemoveAt

\* The count up to n of a queue that lost an element at or before n.
LEMMA CountRemoved ==
  ASSUME NEW S, NEW q \in Seq(S), NEW k \in 1..Len(q), NEW n \in k..Len(q), NEW T
  PROVE  CountTo(RemoveAt(q, k), n - 1, T) = CountTo(q, n, T) - One(q[k] \in T)
<1>1. PICK r : r = RemoveAt(q, k)
  OBVIOUS
<1>2. Len(q) \in Nat /\ n \in Nat /\ k \in Nat
  BY LenProperties
<1>3. \A j \in 1..(Len(q) - 1) : r[j] = IF j < k THEN q[j] ELSE q[j + 1]
  BY <1>1, RemoveAtElements
<1> DEFINE A == Marks(q, n, T) \ {k}
           B == Marks(r, n - 1, T)
           f == [j \in B |-> IF j < k THEN j ELSE j + 1]
<1>4. f \in [B -> A]
  BY <1>2, <1>3 DEF Marks
<1>5. \A x, y \in B : f[x] = f[y] => x = y
  BY <1>2 DEF Marks
<1>6. \A y \in A : \E x \in B : f[x] = y
  <2> TAKE y \in A
  <2> DEFINE x == IF y < k THEN y ELSE y - 1
  <2>1. y \in 1..n /\ y # k /\ q[y] \in T
    BY DEF Marks
  <2>2. x \in 1..(n - 1) /\ r[x] = q[y]
    BY <1>2, <1>3, <2>1
  <2>3. x \in B
    BY <2>1, <2>2 DEF Marks
  <2>4. f[x] = y
    BY <1>2, <2>1, <2>3
  <2> QED  BY <2>3, <2>4
<1>7. ExistsBijection(B, A)
  <2>1. f \in Bijection(B, A)
    BY <1>4, <1>5, <1>6 DEF Bijection, Injection, Surjection, IsInjective
  <2> QED  BY <2>1 DEF ExistsBijection
<1>8. IsFiniteSet(B) /\ IsFiniteSet(A) /\ Cardinality(A) = CountTo(q, n, T) - One(q[k] \in T)
  <2>1. IsFiniteSet(B)
    BY <1>2, CountTyped
  <2>2. n \in Int /\ k \in 1..n
    BY <1>2
  <2> QED  BY <2>1, <2>2, CountWithout
<1>9. Cardinality(B) = Cardinality(A)
  <2> HIDE DEF A, B
  <2> QED  BY <1>7, <1>8, FS_Bijection
<1> QED  BY <1>1, <1>8, <1>9 DEF CountTo

\* The whole queue, with or without one element.
Count(q, T) == CountTo(q, Len(q), T)

LEMMA CountAppend ==
  ASSUME NEW S, NEW q \in Seq(S), NEW e \in S, NEW T
  PROVE  Count(Append(q, e), T) = Count(q, T) + One(e \in T)
<1>1. PICK r : r = Append(q, e)
  OBVIOUS
<1>2. PICK n \in Nat : n = Len(q)
  BY LenProperties
<1>3. Len(r) = n + 1 /\ r[n + 1] = e /\ \A j \in 1..n : r[j] = q[j]
  BY <1>1, <1>2, AppendProperties
<1>4. CountTo(r, n, T) = CountTo(q, n, T)
  BY <1>3, CountSame
<1>5. CountTo(r, n + 1, T) = CountTo(r, n, T) + One(r[n + 1] \in T)
  BY CountNext
<1> QED  BY <1>1, <1>2, <1>3, <1>4, <1>5 DEF Count

LEMMA CountTail ==
  ASSUME NEW S, NEW q \in Seq(S), q # <<>>, NEW T
  PROVE  Count(Tail(q), T) = Count(q, T) - One(q[1] \in T)
<1>1. PICK t : t = Tail(q)
  OBVIOUS
<1>2. PICK n \in Nat \ {0} : n = Len(q)
  BY EmptySeq
<1>3. Len(t) = n - 1 /\ \A j \in 1..(n - 1) : t[j] = q[j + 1]
  BY <1>1, <1>2, HeadTailProperties
<1>4. PICK r : r = RemoveAt(q, 1)
  OBVIOUS
<1>5. \A j \in 1..(n - 1) : r[j] = t[j]
  <2>1. 1 \in 1..Len(q)
    BY <1>2
  <2>2. \A j \in 1..(n - 1) : r[j] = IF j < 1 THEN q[j] ELSE q[j + 1]
    BY <1>2, <1>4, <2>1, RemoveAtElements
  <2> QED  BY <1>2, <1>3, <2>2
<1>6. CountTo(r, n - 1, T) = CountTo(t, n - 1, T)
  BY <1>5, CountSame
<1>7. CountTo(r, n - 1, T) = CountTo(q, n, T) - One(q[1] \in T)
  BY <1>2, <1>4, CountRemoved
<1> QED  BY <1>1, <1>2, <1>3, <1>6, <1>7 DEF Count

-----------------------------------------------------------------------------
(* The inductive invariant.                                                *)

PendingRead == [left : 0..ReadLatency, accessed : BOOLEAN]
Started     == {r \in Request : ~r.isFirst}
Accessing   == {p \in PendingRead : p.accessed}
WritesAt(a) == {r \in Request : r.type = "WRITE" /\ r.addr = a}

\* Each queue holds the requests it is named for.
QueuesSorted ==
  /\ \A i \in 1..Len(readq) : readq[i].type = "READ"
  /\ \A i \in 1..Len(writeq) : writeq[i].type = "WRITE"

\* A request has at most the writes before it to wait for: those in front of
\* it in the write queue, and the activated one.
OlderBounded ==
  /\ \A i \in 1..Len(readq) : readq[i].older <= Count(actq, WritesAt(readq[i].addr))
  /\ \A i \in 1..Len(writeq) :
       writeq[i].older <= CountTo(writeq, i - 1, WritesAt(writeq[i].addr))
                            + Count(actq, WritesAt(writeq[i].addr))
  /\ \A i \in 1..Len(actq) : actq[i].older = 0

ControllerInv ==
  /\ TypeOK /\ sched \in SchedulerTypes /\ policy \in PolicyTypes
  /\ RowTableAgrees
  /\ ActivatesUsed
  /\ ServingCounted
  /\ QueuesSorted
  /\ OlderBounded

\* TypeOK without its sets of queues.
LEMMA QueuesTyped ==
  TypeOK <=> /\ readq \in Seq(Request) /\ Len(readq) <= QueueMax
             /\ writeq \in Seq(Request) /\ Len(writeq) <= QueueMax
             /\ actq \in Seq(Request) /\ Len(actq) <= QueueMax
             /\ otherq \in 0..1
             /\ pending \in Seq(PendingRead)
             /\ writeMode \in BOOLEAN
             /\ open \in [Banks -> Rows \cup {NoRow}] /\ rowTable \in [Banks -> Rows \cup {NoRow}]
             /\ serving \in Int
  BY DEF TypeOK, PendingRead

\* What ServingCounted says in counts of queues.
TotalStarted ==
  Count(readq, Started) + Count(writeq, Started) + Count(actq, Started) + Count(pending, Accessing)

LEMMA StartedPositions ==
  ASSUME NEW q \in Seq(Request)
  PROVE  Cardinality({i \in DOMAIN q : ~q[i].isFirst}) = Count(q, Started)
<1>1. DOMAIN q = 1..Len(q) /\ \A i \in 1..Len(q) : q[i] \in Request
  BY LenProperties, ElementOfSeq
<1>2. {i \in DOMAIN q : ~q[i].isFirst} = Marks(q, Len(q), Started)
  BY <1>1 DEF Marks, Started
<1> QED  BY <1>2 DEF Count, CountTo

LEMMA WritePositions ==
  ASSUME NEW q \in Seq(Request), NEW a
  PROVE  Cardinality(WritesTo(q, a)) = Count(q, WritesAt(a))
<1>1. DOMAIN q = 1..Len(q) /\ \A i \in 1..Len(q) : q[i] \in Request
  BY LenProperties, ElementOfSeq
<1>2. WritesTo(q, a) = Marks(q, Len(q), WritesAt(a))
  BY <1>1 DEF Marks, WritesAt, WritesTo
<1> QED  BY <1>2 DEF Count, CountTo

LEMMA AccessedPositions ==
  ASSUME NEW q \in Seq(PendingRead)
  PROVE  Cardinality({i \in DOMAIN q : q[i].accessed}) = Count(q, Accessing)
<1>1. DOMAIN q = 1..Len(q) /\ \A i \in 1..Len(q) : q[i] \in PendingRead
  BY LenProperties, ElementOfSeq
<1>2. {i \in DOMAIN q : q[i].accessed} = Marks(q, Len(q), Accessing)
  BY <1>1 DEF Marks, Accessing
<1> QED  BY <1>2 DEF Count, CountTo

LEMMA ServingTotal ==
  ASSUME TypeOK
  PROVE  ServingCounted <=> serving = TotalStarted
  BY QueuesTyped, StartedPositions, AccessedPositions DEF ServingCounted, TotalStarted

-----------------------------------------------------------------------------
(* The scheduler.                                                          *)

LEMMA AddressTyped ==
  ASSUME NEW a \in Addrs
  PROVE  BankOf[a] \in Banks /\ RowOf[a] \in Rows /\ RowOf[a] # NoRow
  BY ControllerAssumption DEF Banks, Rows

LEMMA HeadInQueue ==
  ASSUME sched \in SchedulerTypes, NEW q, NEW ready
  PROVE  GetHead(q, ready) \subseteq DOMAIN q
  BY ControllerAssumption DEF GetHead, First, Prefer

\* A ready request that is alone is picked by every scheduler.
LEMMA AloneIsHead ==
  ASSUME sched \in SchedulerTypes, NEW q, DOMAIN q = {1}, NEW ready, IsReady(q[1], ready),
         IsRowHit(q[1])
  PROVE  1 \in GetHead(q, ready)
<1>1. CASE sched = "FCFS" \/ sched = "FCFSBank"
  BY <1>1 DEF GetHead, First, Prefer
<1>2. CASE sched = "FRFCFS"
  BY <1>2 DEF GetHead, First
<1> QED  BY <1>1, <1>2, ControllerAssumption

\* Of two requests of one kind to an address every scheduler picks the older.
LEMMA OlderIsHead ==
  ASSUME sched \in SchedulerTypes, NEW q, NEW ready,
         NEW i \in GetHead(q, ready), IsReady(q[i], ready),
         NEW j \in DOMAIN q, q[j].addr = q[i].addr, q[j].type = q[i].type
  PROVE  i <= j
<1>1. /\ IsReady(q[j], ready)
      /\ IsRowHit(q[j]) <=> IsRowHit(q[i])
      /\ ViolatesHit(q, q[j]) <=> ViolatesHit(q, q[i])
  BY DEF IsReady, FirstCommand, IsRowHit, IsRowOpen, ViolatesHit
<1>2. CASE sched = "FCFS" \/ sched = "FCFSBank"
  BY <1>1, <1>2 DEF GetHead, First, Prefer
<1>3. CASE sched = "FRFCFS"
  <2> DEFINE readyOnes == {k \in DOMAIN q : IsReady(q[k], ready)}
             readyHits == {k \in readyOnes : IsRowHit(q[k])}
             others    == {k \in DOMAIN q : ~ViolatesHit(q, q[k])}
  <2>1. GetHead(q, ready) = IF readyHits # {} THEN First(readyHits) ELSE Prefer(others, readyOnes)
    BY <1>3 DEF GetHead
  <2>2. i \in DOMAIN q
    BY HeadInQueue
  <2>3. CASE readyHits # {}
    BY <1>1, <2>1, <2>3 DEF First
  <2>4. CASE readyHits = {}
    <3>1. i \in Prefer(others, readyOnes)
      BY <2>1, <2>4
    <3>2. i \in others
      BY <3>1 DEF Prefer, First
    <3>3. j \in others \cap readyOnes
      BY <1>1, <3>2
    <3> QED  BY <3>1, <3>3 DEF Prefer, First
  <2> QED  BY <2>3, <2>4
<1> QED  BY <1>2, <1>3, ControllerAssumption

\* What is known of the request a cycle issues a command for.
Picked(source, i) ==
  LET q == QueueOf(source) IN
  /\ i \in 1..Len(q) /\ q[i] \in Request
  /\ \/ source = "act" /\ i = 1 /\ Len(actq) = 1 /\ IsRowHit(q[i])
     \/ source \in {"read", "write"} /\ Len(actq) = 0
  /\ source = "write" => \A j \in 1..(i - 1) : writeq[j].addr # q[i].addr
  /\ q[i].older = 0

LEMMA ChosenPicked ==
  ASSUME ControllerInv, NEW ready, NEW refresh \in BOOLEAN,
         NEW i \in Chosen(From(refresh), ready)
  PROVE  Picked(From(refresh), i)
<1>1. PICK source : source = From(refresh)
  OBVIOUS
<1>2. PICK q : q = QueueOf(source)
  OBVIOUS
<1>3. /\ readq \in Seq(Request) /\ writeq \in Seq(Request) /\ actq \in Seq(Request)
      /\ Len(actq) \in Nat /\ Len(actq) <= 1
  BY QueuesTyped, LenProperties DEF ControllerInv, ActivatesUsed
<1>4. /\ source \in {"act", "other", "read", "write"}
      /\ source = "act" <=> Len(actq) # 0
  BY <1>1, <1>3, EmptySeq DEF From, Source
<1>5. q \in Seq(Request) /\ i \in 1..Len(q) /\ i \in GetHead(q, ready) /\ IsReady(q[i], ready)
  <2>1. i \in GetHead(q, ready) /\ IsReady(q[i], ready)
    BY <1>1, <1>2 DEF Chosen
  <2>2. q \in Seq(Request)
    BY <1>2, <1>3, <1>4, EmptySeq DEF QueueOf
  <2> QED  BY <2>1, <2>2, HeadInQueue, LenProperties DEF ControllerInv
<1>6. source # "other"
  BY <1>2, <1>4, <1>5, EmptySeq DEF QueueOf
<1>7. q[i] \in Request
  BY <1>5, ElementOfSeq
<1>8. CASE source = "act"
  <2>1. q = actq /\ Len(actq) = 1 /\ i = 1
    <3>1. q = actq
      BY <1>2, <1>8 DEF QueueOf
    <3>2. Len(q) \in Nat /\ Len(q) <= 1 /\ i \in 1..Len(q)
      BY <1>3, <1>5, <3>1
    <3>3. Len(q) = 1 /\ i = 1
      BY <3>2
    <3> QED  BY <3>1, <3>3
  <2>2. actq[1] \in ToSet(actq)
    BY <1>3, <2>1, LenProperties DEF ToSet
  <2>3. IsRowHit(actq[1]) /\ actq[1].older = 0
    BY <2>1, <2>2 DEF ControllerInv, ActivatesUsed, OlderBounded
  <2> QED  BY <1>1, <1>2, <1>5, <1>7, <1>8, <2>1, <2>3 DEF Picked
<1>9. ASSUME source \in {"read", "write"} PROVE \A a : Count(actq, WritesAt(a)) = 0
  <2> TAKE a
  <2>1. Len(actq) = 0
    BY <1>3, <1>4, <1>9
  <2> QED  BY <2>1, CountNone DEF Count
<1>10. CASE source = "read"
  <2>1. q = readq /\ q[i].older \in Nat /\ q[i].older <= Count(actq, WritesAt(q[i].addr))
    BY <1>2, <1>5, <1>7, <1>10 DEF QueueOf, ControllerInv, OlderBounded, Request
  <2>2. q[i].older = 0
    BY <1>9, <1>10, <2>1
  <2> QED  BY <1>1, <1>2, <1>3, <1>4, <1>5, <1>7, <1>10, <2>2 DEF Picked
<1>11. CASE source = "write"
  <2>1. PICK a : a = q[i].addr
    OBVIOUS
  <2>2. /\ q = writeq /\ q[i].older \in Nat
        /\ q[i].older <= CountTo(writeq, i - 1, WritesAt(a)) + Count(actq, WritesAt(a))
    BY <1>2, <1>5, <1>7, <1>11, <2>1 DEF QueueOf, ControllerInv, OlderBounded, Request
  <2>3. i \in Nat /\ DOMAIN q = 1..Len(q) /\ Len(q) \in Nat
    BY <1>5, LenProperties
  <2>4. ASSUME NEW j \in 1..(i - 1) PROVE q[j].addr # a
    <3>1. j \in DOMAIN q /\ q[j].type = q[i].type /\ ~(i <= j)
      BY <1>5, <2>2, <2>3 DEF ControllerInv, QueuesSorted
    <3> QED  BY <1>5, <2>1, <3>1, OlderIsHead DEF ControllerInv
  <2>5. CountTo(writeq, i - 1, WritesAt(a)) = 0
    <3>1. \A j \in 1..(i - 1) : writeq[j] \notin WritesAt(a)
      BY <2>2, <2>4 DEF WritesAt
    <3> QED  BY <2>3, <3>1, CountNone
  <2>6. q[i].older = 0
    BY <1>9, <1>11, <2>2, <2>5
  <2> QED  BY <1>1, <1>2, <1>3, <1>4, <1>5, <1>7, <1>11, <2>1, <2>2, <2>4, <2>6 DEF Picked
<1> QED  BY <1>4, <1>6, <1>8, <1>10, <1>11

\* The commands of typed requests.
LEMMA CommandOf ==
  ASSUME ControllerInv, NEW r \in Request
  PROVE  /\ FirstCommand(r) \in {"RD", "WR"} <=> IsRowHit(r)
         /\ FirstCommand(r) = "ACT" <=> open[BankOf[r.addr]] = NoRow
         /\ FirstCommand(r) = "PRE" <=> ~IsRowHit(r) /\ IsRowOpen(r)
<1>1. r.addr \in Addrs /\ r.type \in {"READ", "WRITE"}
  BY DEF Request
<1> QED  BY <1>1, AddressTyped DEF FirstCommand, IsRowHit, IsRowOpen

-----------------------------------------------------------------------------
(* What an action does to a queue.                                         *)

LEMMA TakenFrom ==
  ASSUME NEW q \in Seq(Request), NEW source, NEW name, NEW i, source = name => i \in 1..Len(q),
         NEW p, p = Without(q, source, name, i)
  PROVE  /\ p \in Seq(Request) /\ Len(p) \in Nat
         /\ Len(p) = Len(q) - IF source = name THEN 1 ELSE 0
         /\ \A j \in 1..Len(p) : p[j] = IF source = name /\ j >= i THEN q[j + 1] ELSE q[j]
         /\ \A T : Count(p, T) = Count(q, T) - IF source = name THEN One(q[i] \in T) ELSE 0
<1>1. Len(q) \in Nat
  BY LenProperties
<1>2. CASE source = name
  <2>1. p = RemoveAt(q, i) /\ i \in 1..Len(q)
    BY <1>2 DEF Without
  <2>2. /\ p \in Seq(Request) /\ Len(p) = Len(q) - 1
        /\ \A j \in 1..(Len(q) - 1) : p[j] = IF j < i THEN q[j] ELSE q[j + 1]
    BY <2>1, RemoveAtElements
  <2>3. ASSUME NEW T PROVE Count(p, T) = Count(q, T) - One(q[i] \in T)
    <3>1. Len(q) \in i..Len(q)
      BY <1>1, <2>1
    <3> QED  BY <2>1, <2>2, <3>1, CountRemoved DEF Count
  <2>4. Len(p) \in Nat /\ Len(p) = Len(q) - 1
    BY <1>1, <2>1, <2>2
  <2>5. \A j \in 1..Len(p) : p[j] = IF j >= i THEN q[j + 1] ELSE q[j]
    BY <1>1, <2>1, <2>2
  <2> QED  BY <1>2, <2>2, <2>3, <2>4, <2>5
<1>3. CASE source # name
  <2>1. p = q
    BY <1>3 DEF Without
  <2>2. \A T : Count(q, T) \in Nat
    BY <1>1, CountTyped DEF Count
  <2> QED  BY <1>1, <1>3, <2>1, <2>2 DEF One
<1> QED  BY <1>2, <1>3

\* Two queues of the same writes.
SameWrites(q, p) ==
  /\ Len(p) = Len(q)
  /\ \A j \in 1..Len(q) : p[j].type = q[j].type /\ p[j].addr = q[j].addr

LEMMA SameWritesCount ==
  ASSUME NEW q \in Seq(Request), NEW p \in Seq(Request), SameWrites(q, p), NEW a
  PROVE  /\ \A n \in 0..Len(q) : CountTo(p, n, WritesAt(a)) = CountTo(q, n, WritesAt(a))
         /\ Count(p, WritesAt(a)) = Count(q, WritesAt(a))
<1>1. Len(q) \in Nat /\ \A j \in 1..Len(q) : q[j] \in Request /\ p[j] \in Request
  BY LenProperties, ElementOfSeq DEF SameWrites
<1>2. \A j \in 1..Len(q) : p[j] \in WritesAt(a) <=> q[j] \in WritesAt(a)
  BY <1>1 DEF WritesAt, SameWrites
<1>3. ASSUME NEW n \in 0..Len(q) PROVE CountTo(p, n, WritesAt(a)) = CountTo(q, n, WritesAt(a))
  BY <1>1, <1>2, CountSame
<1> QED  BY <1>1, <1>3 DEF Count, SameWrites

\* The writes the request with o of them to wait for has after the access of r.
AfterAccess(o, a, r) == IF r.type = "WRITE" /\ a = r.addr /\ o > 0 THEN o - 1 ELSE o

LEMMA WriteDoneElements ==
  ASSUME NEW q \in Seq(Request), NEW r \in Request, NEW p, p = WriteDone(q, r)
  PROVE  /\ p \in Seq(Request) /\ SameWrites(q, p)
         /\ \A j \in 1..Len(q) : p[j].older = AfterAccess(q[j].older, q[j].addr, r)
         /\ Count(p, Started) = Count(q, Started)
<1>1. Len(q) \in Nat /\ DOMAIN q = 1..Len(q) /\ \A j \in 1..Len(q) : q[j] \in Request
  BY LenProperties, ElementOfSeq
<1>2. \A j \in 1..Len(q) :
        p[j] = [q[j] EXCEPT !.older = AfterAccess(q[j].older, q[j].addr, r)]
  BY <1>1 DEF WriteDone, AfterAccess
<1>3. \A j \in 1..Len(q) :
        /\ p[j] \in Request
        /\ p[j].type = q[j].type /\ p[j].addr = q[j].addr /\ p[j].isFirst = q[j].isFirst
        /\ p[j].older = AfterAccess(q[j].older, q[j].addr, r)
  <2> TAKE j \in 1..Len(q)
  <2>1. q[j] \in Request /\ q[j].older \in Nat
    BY <1>1 DEF Request
  <2>2. PICK o \in Nat : o = AfterAccess(q[j].older, q[j].addr, r)
    BY <2>1 DEF AfterAccess
  <2>3. p[j] = [q[j] EXCEPT !.older = o]
    BY <1>2, <2>2
  <2>4. /\ p[j] \in Request /\ p[j].older = o
        /\ p[j].type = q[j].type /\ p[j].addr = q[j].addr /\ p[j].isFirst = q[j].isFirst
    BY <2>1, <2>3 DEF Request
  <2> QED  BY <2>2, <2>4
<1>4. p \in [1..Len(q) -> Request]
  BY <1>1, <1>3 DEF WriteDone
<1>5. p \in Seq(Request) /\ Len(p) = Len(q)
  BY <1>1, <1>4
<1>6. \A j \in 1..Len(q) : p[j] \in Started <=> q[j] \in Started
  BY <1>1, <1>3 DEF Started
<1>7. CountTo(p, Len(q), Started) = CountTo(q, Len(q), Started)
  BY <1>1, <1>6, CountSame
<1> QED  BY <1>3, <1>5, <1>7 DEF SameWrites, Count

LEMMA TouchedElements ==
  ASSUME NEW q \in Seq(Request), NEW source, NEW name, NEW i, source = name => i \in 1..Len(q),
         NEW p, p = Touched(q, source, name, i)
  PROVE  /\ p \in Seq(Request) /\ SameWrites(q, p)
         /\ \A j \in 1..Len(q) : p[j].older = q[j].older
         /\ Count(p, Started) = Count(q, Started) + IF source = name THEN One(q[i].isFirst) ELSE 0
<1>1. Len(q) \in Nat /\ DOMAIN q = 1..Len(q) /\ \A j \in 1..Len(q) : q[j] \in Request
  BY LenProperties, ElementOfSeq
<1>2. Count(q, Started) \in Nat
  BY <1>1, CountTyped DEF Count
<1>3. CASE source = name
  <2>1. PICK e : e = [q[i] EXCEPT !.isFirst = FALSE]
    OBVIOUS
  <2>2. /\ i \in 1..Len(q) /\ q[i] \in Request
        /\ e \in Request /\ e \in Started /\ (q[i] \in Started <=> ~q[i].isFirst)
        /\ e.type = q[i].type /\ e.addr = q[i].addr /\ e.older = q[i].older
    BY <1>1, <1>3, <2>1 DEF Request, Started
  <2>3. p = [q EXCEPT ![i] = e]
    BY <1>3, <2>1 DEF Touched
  <2>4. /\ p \in Seq(Request) /\ Len(p) = Len(q)
        /\ \A j \in 1..Len(q) : p[j] = IF j = i THEN e ELSE q[j]
    <3>1. i \in 1..Len(q) /\ e \in Request
      BY <2>2
    <3> QED  BY <2>3, <3>1, ExceptSeq
  <2>5. CountTo(p, Len(q), Started)
          = CountTo(q, Len(q), Started) - One(q[i] \in Started) + One(p[i] \in Started)
    BY <1>1, <2>2, <2>4, CountChanged
  <2>6. One(p[i] \in Started) = 1 /\ One(q[i] \in Started) = 1 - One(q[i].isFirst)
    <3>1. One(p[i] \in Started) = 1
      BY <2>2, <2>4 DEF One
    <3>2. CASE q[i].isFirst
      BY <2>2, <3>1, <3>2 DEF One
    <3>3. CASE ~q[i].isFirst
      BY <2>2, <3>1, <3>3 DEF One
    <3> QED  BY <3>2, <3>3
  <2>7. Count(p, Started) = Count(q, Started) + One(q[i].isFirst)
    BY <1>2, <2>4, <2>5, <2>6 DEF Count, One
  <2> QED  BY <1>3, <2>2, <2>4, <2>7 DEF SameWrites
<1>4. CASE source # name
  <2>1. p = q
    BY <1>4 DEF Touched
  <2> QED  BY <1>2, <1>4, <2>1 DEF SameWrites, One
<1> QED  BY <1>3, <1>4

\* The reads on their way after a cycle, and what the channel is told of.
LEMMA PendingStep ==
  ASSUME ControllerInv
  PROVE  /\ PendingNow \in Seq(PendingRead) /\ ServingNow \in Int
         /\ ServingNow = serving - Count(pending, Accessing) + Count(PendingNow, Accessing)
<1>1. pending \in Seq(PendingRead) /\ serving \in Int
  BY QueuesTyped DEF ControllerInv
<1>2. PICK n \in Nat : n = Len(pending) /\ DOMAIN pending = 1..n
                         /\ \A j \in 1..n : pending[j] \in PendingRead
  BY <1>1, LenProperties, ElementOfSeq
<1>3. PICK p : p = OneCycleOn
  OBVIOUS
<1>4. \A j \in 1..n : p[j] \in PendingRead /\ p[j].accessed = pending[j].accessed
  BY <1>2, <1>3, ControllerAssumption DEF OneCycleOn, PendingRead
<1>5. p \in [1..n -> PendingRead]
  BY <1>2, <1>3, <1>4 DEF OneCycleOn
<1>6. p \in Seq(PendingRead) /\ Len(p) = n
  BY <1>5
<1>7. \A j \in 1..n : p[j] \in Accessing <=> pending[j] \in Accessing
  BY <1>2, <1>4 DEF Accessing
<1>8. Count(p, Accessing) = Count(pending, Accessing)
  BY <1>2, <1>6, <1>7, CountSame DEF Count
<1>9. Count(p, Accessing) \in Nat
  BY <1>2, <1>6, CountTyped DEF Count
<1>10. CASE Answers
  <2>1. n # 0 /\ pending # <<>> /\ p # <<>>
    BY <1>1, <1>2, <1>6, <1>10, EmptySeq DEF Answers
  <2>2. /\ PendingNow = Tail(p)
        /\ ServingNow = serving - One(pending[1].accessed)
    BY <1>1, <1>3, <1>10 DEF PendingNow, ServingNow, One
  <2>3. PendingNow \in Seq(PendingRead)
    BY <1>6, <2>1, <2>2, HeadTailProperties
  <2>4. Count(Tail(p), Accessing) = Count(p, Accessing) - One(p[1] \in Accessing)
    BY <1>6, <2>1, CountTail
  <2>5. One(p[1] \in Accessing) = One(pending[1].accessed) /\ One(pending[1].accessed) \in Nat
    BY <1>2, <1>4, <2>1 DEF Accessing, One
  <2> QED  BY <1>1, <1>8, <1>9, <2>2, <2>3, <2>4, <2>5
<1>11. CASE ~Answers
  <2>1. PendingNow = p /\ ServingNow = serving
    BY <1>3, <1>11 DEF PendingNow, ServingNow
  <2> QED  BY <1>1, <1>6, <1>8, <1>9, <2>1
<1> QED  BY <1>10, <1>11

LEMMA CountOfOne ==
  ASSUME NEW q, NEW T, Len(q) = 1
  PROVE  Count(q, T) = One(q[1] \in T)
<1>1. CountTo(q, 0 + 1, T) = CountTo(q, 0, T) + One(q[0 + 1] \in T)
  BY CountNext
<1>2. CountTo(q, 0, T) = 0
  BY CountNone
<1>3. One(q[1] \in T) \in Nat
  BY DEF One
<1> QED  BY <1>1, <1>2, <1>3 DEF Count

-----------------------------------------------------------------------------
(* Requests wait for the writes before them.                               *)

\* The access of r ends the wait of the requests behind it.
LEMMA AccessQueues ==
  ASSUME ControllerInv, NEW source, NEW i, Picked(source, i),
         NEW r, r = QueueOf(source)[i],
         readq'  = WriteDone(Without(readq, source, "read", i), r),
         writeq' = WriteDone(Without(writeq, source, "write", i), r),
         actq'   = WriteDone(Without(actq, source, "act", i), r)
  PROVE  /\ readq' \in Seq(Request) /\ Len(readq') <= Len(readq)
         /\ writeq' \in Seq(Request) /\ Len(writeq') <= Len(writeq)
         /\ actq' \in Seq(Request) /\ Len(actq') = 0
         /\ QueuesSorted' /\ OlderBounded'
         /\ Count(readq', Started) + Count(writeq', Started) + Count(actq', Started)
              = Count(readq, Started) + Count(writeq, Started) + Count(actq, Started)
                  - One(r \in Started)
<1>1. /\ readq \in Seq(Request) /\ writeq \in Seq(Request) /\ actq \in Seq(Request)
      /\ Len(readq) \in Nat /\ Len(writeq) \in Nat /\ Len(actq) \in Nat
  BY QueuesTyped, LenProperties DEF ControllerInv
<1>2. /\ source \in {"act", "read", "write"}
      /\ source = "act" => QueueOf(source) = actq /\ Len(actq) = 1 /\ i = 1
      /\ source = "read" => QueueOf(source) = readq /\ Len(actq) = 0
      /\ source = "write" => QueueOf(source) = writeq /\ Len(actq) = 0
      /\ i \in 1..Len(QueueOf(source)) /\ r \in Request
  BY DEF Picked, QueueOf
<1>3. PICK rq : rq = Without(readq, source, "read", i)
  OBVIOUS
<1>4. PICK wq : wq = Without(writeq, source, "write", i)
  OBVIOUS
<1>5. PICK aq : aq = Without(actq, source, "act", i)
  OBVIOUS
<1>6. /\ rq \in Seq(Request) /\ Len(rq) = Len(readq) - IF source = "read" THEN 1 ELSE 0
      /\ \A j \in 1..Len(rq) : rq[j] = IF source = "read" /\ j >= i THEN readq[j + 1] ELSE readq[j]
      /\ Count(rq, Started) = Count(readq, Started)
                                - IF source = "read" THEN One(readq[i] \in Started) ELSE 0
  BY <1>1, <1>2, <1>3, TakenFrom
<1>7. /\ wq \in Seq(Request) /\ Len(wq) = Len(writeq) - IF source = "write" THEN 1 ELSE 0
      /\ \A j \in 1..Len(wq) : wq[j] = IF source = "write" /\ j >= i THEN writeq[j + 1] ELSE writeq[j]
      /\ Count(wq, Started) = Count(writeq, Started)
                                - IF source = "write" THEN One(writeq[i] \in Started) ELSE 0
  BY <1>1, <1>2, <1>4, TakenFrom
<1>8. /\ aq \in Seq(Request) /\ Len(aq) = Len(actq) - IF source = "act" THEN 1 ELSE 0
      /\ Count(aq, Started) = Count(actq, Started)
                                - IF source = "act" THEN One(actq[i] \in Started) ELSE 0
  BY <1>1, <1>2, <1>5, TakenFrom
<1>9. /\ readq' \in Seq(Request) /\ SameWrites(rq, readq')
      /\ \A j \in 1..Len(rq) : readq'[j].older = AfterAccess(rq[j].older, rq[j].addr, r)
      /\ Count(readq', Started) = Count(rq, Started)
  <2>1. PICK p : p = WriteDone(rq, r)
    OBVIOUS
  <2>2. p = readq'
    BY <1>3, <2>1
  <2>3. /\ p \in Seq(Request) /\ SameWrites(rq, p)
        /\ \A j \in 1..Len(rq) : p[j].older = AfterAccess(rq[j].older, rq[j].addr, r)
        /\ Count(p, Started) = Count(rq, Started)
    BY <1>2, <1>6, <2>1, WriteDoneElements
  <2> QED  BY <2>2, <2>3
<1>10. /\ writeq' \in Seq(Request) /\ SameWrites(wq, writeq')
       /\ \A j \in 1..Len(wq) : writeq'[j].older = AfterAccess(wq[j].older, wq[j].addr, r)
       /\ Count(writeq', Started) = Count(wq, Started)
  <2>1. PICK p : p = WriteDone(wq, r)
    OBVIOUS
  <2>2. p = writeq'
    BY <1>4, <2>1
  <2>3. /\ p \in Seq(Request) /\ SameWrites(wq, p)
        /\ \A j \in 1..Len(wq) : p[j].older = AfterAccess(wq[j].older, wq[j].addr, r)
        /\ Count(p, Started) = Count(wq, Started)
    BY <1>2, <1>7, <2>1, WriteDoneElements
  <2> QED  BY <2>2, <2>3
<1>11. /\ actq' \in Seq(Request) /\ SameWrites(aq, actq')
       /\ Count(actq', Started) = Count(aq, Started)
  BY <1>2, <1>5, <1>8, WriteDoneElements
<1>12. Len(actq') = 0
  <2>1. Len(actq') = Len(aq)
    BY <1>11 DEF SameWrites
  <2>2. CASE source = "act"
    BY <1>2, <1>8, <2>1, <2>2
  <2>3. CASE source # "act"
    BY <1>2, <1>8, <2>1, <2>3
  <2> QED  BY <2>2, <2>3
<1>13. Len(readq') <= Len(readq) /\ Len(writeq') <= Len(writeq)
  BY <1>1, <1>6, <1>7, <1>9, <1>10 DEF SameWrites
<1>14. \A a : Count(actq', WritesAt(a)) = 0
  BY <1>12, CountNone DEF Count
<1>15. \A a : source # "act" => Count(actq, WritesAt(a)) = 0
  BY <1>2, CountNone DEF Count
<1>16. \A a : source = "act" => Count(actq, WritesAt(a)) = One(r \in WritesAt(a))
  BY <1>2, CountOfOne
<1>from. /\ \A j \in 1..Len(rq) : \E k \in 1..Len(readq) : rq[j] = readq[k]
       /\ \A j \in 1..Len(wq) : \E k \in 1..Len(writeq) : wq[j] = writeq[k]
  <2>1. ASSUME NEW j \in 1..Len(rq) PROVE \E k \in 1..Len(readq) : rq[j] = readq[k]
    <3>1. CASE source = "read" /\ j >= i
      BY <1>1, <1>2, <1>6, <3>1
    <3>2. CASE ~(source = "read" /\ j >= i)
      BY <1>1, <1>2, <1>6, <3>2
    <3> QED  BY <3>1, <3>2
  <2>2. ASSUME NEW j \in 1..Len(wq) PROVE \E k \in 1..Len(writeq) : wq[j] = writeq[k]
    <3>1. CASE source = "write" /\ j >= i
      BY <1>1, <1>2, <1>7, <3>1
    <3>2. CASE ~(source = "write" /\ j >= i)
      BY <1>1, <1>2, <1>7, <3>2
    <3> QED  BY <3>1, <3>2
  <2> QED  BY <2>1, <2>2
<1>17. QueuesSorted'
  <2>1. \A j \in 1..Len(readq') : readq'[j].type = "READ"
    BY <1>9, <1>from DEF SameWrites, ControllerInv, QueuesSorted
  <2>2. \A j \in 1..Len(writeq') : writeq'[j].type = "WRITE"
    BY <1>10, <1>from DEF SameWrites, ControllerInv, QueuesSorted
  <2> QED  BY <2>1, <2>2 DEF QueuesSorted
<1>18. \A b : r \in WritesAt(b) <=> r.type = "WRITE" /\ r.addr = b
  BY <1>2 DEF WritesAt
<1>19. ASSUME NEW j \in 1..Len(readq')
       PROVE  readq'[j].older <= Count(actq', WritesAt(readq'[j].addr))
  <2>1. j \in 1..Len(rq)
    BY <1>9 DEF SameWrites
  <2>2. PICK k \in 1..Len(readq) : rq[j] = readq[k]
    BY <1>from, <2>1
  <2>3. PICK o, a : o = readq[k].older /\ a = readq[k].addr
    OBVIOUS
  <2>4. o \in Nat /\ o <= Count(actq, WritesAt(a))
    <3>1. readq[k] \in Request
      BY <1>1, ElementOfSeq
    <3>2. o \in Nat
      BY <2>3, <3>1 DEF Request
    <3> QED  BY <2>3, <3>2 DEF ControllerInv, OlderBounded
  <2>5. AfterAccess(o, a, r) = 0
    <3>1. CASE source # "act"
      BY <1>15, <2>4, <3>1 DEF AfterAccess
    <3>2. CASE source = "act"
      <4>1. o <= One(r \in WritesAt(a))
        BY <1>16, <2>4, <3>2
      <4> QED  BY <1>18, <2>4, <4>1 DEF AfterAccess, One
    <3> QED  BY <3>1, <3>2
  <2> QED  BY <1>9, <1>14, <2>1, <2>2, <2>3, <2>5
<1>20. ASSUME NEW j \in 1..Len(writeq')
       PROVE  writeq'[j].older <= CountTo(writeq', j - 1, WritesAt(writeq'[j].addr))
                                    + Count(actq', WritesAt(writeq'[j].addr))
  <2>1. j \in 1..Len(wq) /\ Len(wq) \in Nat
    BY <1>7, <1>10, LenProperties DEF SameWrites
  <2>2. PICK o, a : o = wq[j].older /\ a = wq[j].addr
    OBVIOUS
  <2>3. /\ CountTo(writeq', j - 1, WritesAt(a)) = CountTo(wq, j - 1, WritesAt(a))
        /\ writeq'[j].addr = a /\ writeq'[j].older = AfterAccess(o, a, r)
        /\ CountTo(wq, j - 1, WritesAt(a)) \in Nat
    <3>1. PICK n \in 0..Len(wq) : n = j - 1 /\ n \in Int
      BY <2>1
    <3>2. CountTo(writeq', n, WritesAt(a)) = CountTo(wq, n, WritesAt(a))
      BY <1>7, <1>10, SameWritesCount
    <3>3. CountTo(wq, n, WritesAt(a)) \in Nat
      BY <3>1, CountTyped
    <3>4. writeq'[j].addr = a /\ writeq'[j].older = AfterAccess(o, a, r)
      BY <1>10, <2>1, <2>2 DEF SameWrites
    <3> QED  BY <3>1, <3>2, <3>3, <3>4
  <2>4. ASSUME NEW k \in 1..Len(writeq), wq[j] = writeq[k]
        PROVE  /\ o \in Nat
               /\ o <= CountTo(writeq, k - 1, WritesAt(a)) + Count(actq, WritesAt(a))
               /\ CountTo(writeq, k - 1, WritesAt(a)) \in Nat
    <3>1. writeq[k] \in Request /\ k - 1 \in Int
      BY <1>1, ElementOfSeq
    <3> QED  BY <2>2, <2>4, <3>1, CountTyped DEF Request, ControllerInv, OlderBounded
  <2>5. AfterAccess(o, a, r) <= CountTo(wq, j - 1, WritesAt(a))
    <3>1. CASE source = "act"
      <4>1. wq = writeq
        BY <1>4, <3>1 DEF Without
      <4>2. o \in Nat /\ o <= CountTo(wq, j - 1, WritesAt(a)) + One(r \in WritesAt(a))
        BY <1>16, <2>1, <2>4, <3>1, <4>1
      <4> QED  BY <1>18, <2>3, <4>2 DEF AfterAccess, One
    <3>2. CASE source = "read"
      <4>1. wq = writeq /\ r.type = "READ"
        BY <1>2, <1>4, <3>2 DEF Without, ControllerInv, QueuesSorted
      <4>2. o \in Nat /\ o <= CountTo(wq, j - 1, WritesAt(a))
        BY <1>15, <2>1, <2>3, <2>4, <3>2, <4>1
      <4> QED  BY <4>1, <4>2 DEF AfterAccess
    <3>3. CASE source = "write" /\ j < i
      <4>1. j \in 1..Len(writeq) /\ j \in 1..(i - 1) /\ wq[j] = writeq[j]
        BY <1>1, <1>2, <1>7, <2>1, <3>3 DEF One
      <4>2. a # r.addr
        BY <1>2, <2>2, <3>3, <4>1 DEF Picked
      <4>3. o \in Nat /\ o <= CountTo(writeq, j - 1, WritesAt(a))
        BY <1>15, <2>4, <3>3, <4>1
      <4>4. CountTo(writeq, j - 1, WritesAt(a)) = CountTo(wq, j - 1, WritesAt(a))
        <5>1. j - 1 \in Int /\ \A k \in 1..(j - 1) : wq[k] = writeq[k]
          BY <1>1, <1>2, <1>7, <2>1, <3>3
        <5> QED  BY <5>1, CountSame
      <4> QED  BY <4>2, <4>3, <4>4 DEF AfterAccess
    <3>4. CASE source = "write" /\ j >= i
      <4>1. /\ j + 1 \in 1..Len(writeq) /\ wq[j] = writeq[j + 1] /\ i \in 1..Len(writeq)
            /\ j \in i..Len(writeq)
        BY <1>1, <1>2, <1>7, <2>1, <3>4 DEF One
      <4>2. PICK n : n = CountTo(writeq, j, WritesAt(a))
        OBVIOUS
      <4>3. o \in Nat /\ n \in Nat /\ o <= n
        BY <1>15, <2>4, <3>4, <4>1, <4>2
      <4>4. CountTo(wq, j - 1, WritesAt(a)) = n - One(r \in WritesAt(a))
        BY <1>1, <1>2, <1>4, <3>4, <4>1, <4>2, CountRemoved DEF Without
      <4>5. r \in WritesAt(a) => n >= 1
        <5>1. i \in 1..j /\ j \in Int
          BY <4>1
        <5> QED  BY <1>2, <3>4, <4>2, <5>1, CountPositive
      <4> QED  BY <1>18, <4>3, <4>4, <4>5 DEF AfterAccess, One
    <3> QED  BY <1>2, <2>1, <3>1, <3>2, <3>3, <3>4
  <2> QED  BY <1>14, <2>3, <2>5
<1>21. OlderBounded'
  BY <1>12, <1>19, <1>20 DEF OlderBounded
<1>23. /\ Count(readq, Started) \in Nat /\ Count(writeq, Started) \in Nat
       /\ Count(actq, Started) \in Nat /\ One(r \in Started) \in Nat
  BY <1>1, CountTyped DEF Count, One
<1>24. Count(readq', Started) + Count(writeq', Started) + Count(actq', Started)
         = Count(readq, Started) + Count(writeq, Started) + Count(actq, Started)
             - One(r \in Started)
  <2>1. CASE source = "act"
    <3>1. r = actq[i]
      BY <1>2, <2>1
    <3> QED  BY <1>6, <1>7, <1>8, <1>9, <1>10, <1>11, <1>23, <2>1, <3>1
  <2>2. CASE source = "read"
    <3>1. r = readq[i]
      BY <1>2, <2>2
    <3> QED  BY <1>6, <1>7, <1>8, <1>9, <1>10, <1>11, <1>23, <2>2, <3>1
  <2>3. CASE source = "write"
    <3>1. r = writeq[i]
      BY <1>2, <2>3
    <3> QED  BY <1>6, <1>7, <1>8, <1>9, <1>10, <1>11, <1>23, <2>3, <3>1
  <2> QED  BY <1>2, <2>1, <2>2, <2>3
<1> QED  BY <1>9, <1>10, <1>11, <1>12, <1>13, <1>17, <1>21, <1>24
-----------------------------------------------------------------------------
(* Every step keeps the invariant.                                         *)

\* The parts of the invariant after a step.
LEMMA Assembled ==
  ASSUME writeMode' \in BOOLEAN, sched' \in SchedulerTypes, policy' \in PolicyTypes,
         readq' \in Seq(Request), Len(readq') <= QueueMax,
         writeq' \in Seq(Request), Len(writeq') <= QueueMax,
         actq' \in Seq(Request), ActivatesUsed',
         otherq' \in 0..1, pending' \in Seq(PendingRead),
         open' \in [Banks -> Rows \cup {NoRow}], rowTable' = open',
         serving' = TotalStarted', QueuesSorted', OlderBounded'
  PROVE  ControllerInv'
<1>1. /\ Count(readq', Started) \in Nat /\ Count(writeq', Started) \in Nat
      /\ Count(actq', Started) \in Nat /\ Count(pending', Accessing) \in Nat
  BY LenProperties, CountTyped DEF Count
<1>2. serving' \in Int
  BY <1>1 DEF TotalStarted
<1>3. Len(actq') <= QueueMax
  BY LenProperties, ControllerAssumption DEF ActivatesUsed
<1>4. TypeOK'
  BY <1>2, <1>3 DEF TypeOK, PendingRead, RowTableAgrees
<1>5. ServingCounted'
  BY StartedPositions, AccessedPositions DEF ServingCounted, TotalStarted
<1> QED  BY <1>4, <1>5 DEF ControllerInv, RowTableAgrees

LEMMA InitStep ==
  ASSUME Init
  PROVE  ControllerInv
<1>1. /\ readq = <<>> /\ writeq = <<>> /\ actq = <<>> /\ pending = <<>>
      /\ otherq = 0 /\ writeMode = FALSE /\ serving = 0
      /\ open = AllClosed /\ rowTable = AllClosed
      /\ sched \in SchedulerTypes /\ policy \in PolicyTypes
  BY DEF Init
<1>2. /\ Len(readq) = 0 /\ Len(writeq) = 0 /\ Len(actq) = 0 /\ Len(pending) = 0
      /\ readq \in Seq(Request) /\ writeq \in Seq(Request) /\ actq \in Seq(Request)
      /\ pending \in Seq(PendingRead) /\ ToSet(actq) = {}
  BY <1>1, EmptySeq DEF ToSet
<1>3. AllClosed \in [Banks -> Rows \cup {NoRow}]
  BY DEF AllClosed
<1>4. TypeOK
  <2>1. /\ Len(readq) <= QueueMax /\ Len(writeq) <= QueueMax /\ Len(actq) <= QueueMax
        /\ otherq \in 0..1 /\ serving \in Int
    BY <1>1, <1>2, ControllerAssumption
  <2>2. /\ open \in [Banks -> Rows \cup {NoRow}] /\ rowTable \in [Banks -> Rows \cup {NoRow}]
        /\ writeMode \in BOOLEAN
    BY <1>1, <1>3
  <2> QED  BY <1>2, <2>1, <2>2, QueuesTyped
<1>5. TotalStarted = 0
  <2>1. \A T : /\ Count(readq, T) = 0 /\ Count(writeq, T) = 0
               /\ Count(actq, T) = 0 /\ Count(pending, T) = 0
    BY <1>2, CountNone DEF Count
  <2> QED  BY <2>1 DEF TotalStarted
<1>6. ServingCounted
  BY <1>1, <1>4, <1>5, ServingTotal
<1>7. ActivatesUsed /\ QueuesSorted /\ OlderBounded
  BY <1>2 DEF ActivatesUsed, QueuesSorted, OlderBounded
<1> QED  BY <1>1, <1>4, <1>6, <1>7 DEF ControllerInv, RowTableAgrees

\* What the invariant says in a form every step needs.
LEMMA InvParts ==
  ASSUME ControllerInv
  PROVE  /\ readq \in Seq(Request) /\ Len(readq) <= QueueMax /\ Len(readq) \in Nat
         /\ writeq \in Seq(Request) /\ Len(writeq) <= QueueMax /\ Len(writeq) \in Nat
         /\ actq \in Seq(Request) /\ Len(actq) <= 1 /\ Len(actq) \in Nat
         /\ otherq \in 0..1 /\ pending \in Seq(PendingRead) /\ Len(pending) \in Nat
         /\ writeMode \in BOOLEAN /\ sched \in SchedulerTypes /\ policy \in PolicyTypes
         /\ open \in [Banks -> Rows \cup {NoRow}] /\ rowTable = open
         /\ serving = TotalStarted
         /\ \A T : /\ Count(readq, T) \in Nat /\ Count(writeq, T) \in Nat
                   /\ Count(actq, T) \in Nat /\ Count(pending, T) \in Nat
<1>1. /\ readq \in Seq(Request) /\ Len(readq) <= QueueMax
      /\ writeq \in Seq(Request) /\ Len(writeq) <= QueueMax
      /\ actq \in Seq(Request) /\ Len(actq) <= 1
      /\ otherq \in 0..1 /\ pending \in Seq(PendingRead)
      /\ writeMode \in BOOLEAN /\ sched \in SchedulerTypes /\ policy \in PolicyTypes
      /\ open \in [Banks -> Rows \cup {NoRow}] /\ rowTable = open
      /\ serving = TotalStarted
  BY QueuesTyped, ServingTotal DEF ControllerInv, RowTableAgrees, ActivatesUsed
<1>2. Len(readq) \in Nat /\ Len(writeq) \in Nat /\ Len(actq) \in Nat /\ Len(pending) \in Nat
  BY <1>1, LenProperties
<1>3. \A T : /\ Count(readq, T) \in Nat /\ Count(writeq, T) \in Nat
             /\ Count(actq, T) \in Nat /\ Count(pending, T) \in Nat
  BY <1>2, CountTyped DEF Count
<1> QED  BY <1>1, <1>2, <1>3

LEMMA ArrivingTyped ==
  ASSUME ControllerInv, NEW type \in {"READ", "WRITE"}, NEW a \in Addrs
  PROVE  /\ Arriving(type, a) \in Request /\ Arriving(type, a) \notin Started
         /\ Arriving(type, a).type = type /\ Arriving(type, a).addr = a
         /\ Arriving(type, a).older = Count(writeq, WritesAt(a)) + Count(actq, WritesAt(a))
<1>1. /\ Cardinality(WritesTo(writeq, a)) = Count(writeq, WritesAt(a))
      /\ Cardinality(WritesTo(actq, a)) = Count(actq, WritesAt(a))
      /\ Count(writeq, WritesAt(a)) \in Nat /\ Count(actq, WritesAt(a)) \in Nat
  BY InvParts, WritePositions
<1>2. PICK o \in Nat : o = Count(writeq, WritesAt(a)) + Count(actq, WritesAt(a))
  BY <1>1
<1>3. Arriving(type, a) = [type |-> type, addr |-> a, isFirst |-> TRUE, older |-> o]
  BY <1>1, <1>2 DEF Arriving
<1> QED  BY <1>2, <1>3 DEF Request, Started

LEMMA EnqueueStep ==
  ASSUME ControllerInv, NEW type \in {"READ", "WRITE"}, NEW a \in Addrs, Enqueue(type, a)
  PROVE  ControllerInv'
<1>1. /\ Len(IF type = "READ" THEN readq ELSE writeq) < QueueMax
      /\ actq' = actq /\ otherq' = otherq /\ writeMode' = writeMode /\ open' = open
      /\ rowTable' = rowTable /\ serving' = serving /\ sched' = sched /\ policy' = policy
  BY DEF Enqueue, HasRoom
<1>2. ActivatesUsed'
  BY <1>1 DEF ControllerInv, ActivatesUsed, IsRowHit
<1>3. /\ readq \in Seq(Request) /\ Len(readq) <= QueueMax /\ Len(readq) \in Nat
      /\ writeq \in Seq(Request) /\ Len(writeq) <= QueueMax /\ Len(writeq) \in Nat
      /\ actq \in Seq(Request) /\ pending \in Seq(PendingRead)
      /\ serving = TotalStarted /\ QueueMax \in Nat
      /\ \A T : /\ Count(readq, T) \in Nat /\ Count(writeq, T) \in Nat
                /\ Count(actq, T) \in Nat /\ Count(pending, T) \in Nat
  BY InvParts, ControllerAssumption
<1>4. PICK e : e = Arriving(type, a)
  OBVIOUS
<1>5. /\ e \in Request /\ e \notin Started /\ e.type = type /\ e.addr = a
      /\ e.older = Count(writeq, WritesAt(a)) + Count(actq, WritesAt(a))
  BY <1>4, ArrivingTyped
<1>6. One(e \in Started) = 0
  BY <1>5 DEF One
<1>7. CASE type = "WRITE"
  <2>1. writeq' = Append(writeq, e) /\ readq' = readq /\ pending' = pending
    BY <1>4, <1>7 DEF Enqueue
  <2>2. PICK n \in Nat : n = Len(writeq)
    BY <1>3
  <2>3. /\ writeq' \in Seq(Request) /\ Len(writeq') = n + 1 /\ writeq'[n + 1] = e
        /\ \A j \in 1..n : writeq'[j] = writeq[j]
    BY <1>3, <1>5, <2>1, <2>2, AppendProperties
  <2>4. serving' = TotalStarted'
    <3>1. Count(writeq', Started) = Count(writeq, Started)
      BY <1>3, <1>5, <1>6, <2>1, CountAppend
    <3> QED  BY <1>1, <1>3, <2>1, <3>1 DEF TotalStarted
  <2>5. QueuesSorted'
    BY <1>5, <1>7, <2>1, <2>2, <2>3 DEF ControllerInv, QueuesSorted
  <2>6. ASSUME NEW j \in 1..Len(writeq')
        PROVE  writeq'[j].older <= CountTo(writeq', j - 1, WritesAt(writeq'[j].addr))
                                     + Count(actq', WritesAt(writeq'[j].addr))
    <3>1. \A T : CountTo(writeq', j - 1, T) = CountTo(writeq, j - 1, T)
      <4>1. j - 1 \in Int /\ \A k \in 1..(j - 1) : writeq'[k] = writeq[k]
        BY <2>2, <2>3
      <4> QED  BY <4>1, CountSame
    <3>2. CASE j \in 1..n
      <4>1. writeq'[j] = writeq[j] /\ j \in 1..Len(writeq)
        BY <2>2, <2>3, <3>2
      <4> QED  BY <1>1, <3>1, <4>1 DEF ControllerInv, OlderBounded
    <3>3. CASE j = n + 1
      <4>1. CountTo(writeq', n, WritesAt(a)) = Count(writeq, WritesAt(a)) /\ j - 1 = n
        BY <2>2, <3>1, <3>3 DEF Count
      <4>2. writeq'[j] = e
        BY <2>3, <3>3
      <4>3. writeq'[j].older
              = CountTo(writeq', j - 1, WritesAt(a)) + Count(actq', WritesAt(a))
        BY <1>1, <1>5, <4>1, <4>2
      <4>4. writeq'[j].older \in Nat
        BY <1>5, <4>2 DEF Request
      <4> QED  BY <1>5, <4>2, <4>3, <4>4
    <3> QED  BY <2>3, <3>2, <3>3
  <2>7. OlderBounded'
    <3>1. /\ \A j \in 1..Len(readq') : readq'[j].older <= Count(actq', WritesAt(readq'[j].addr))
          /\ \A j \in 1..Len(actq') : actq'[j].older = 0
      BY <1>1, <2>1 DEF ControllerInv, OlderBounded
    <3> QED  BY <2>6, <3>1 DEF OlderBounded
  <2>8. Len(writeq') <= QueueMax
    BY <1>1, <1>3, <1>7, <2>2, <2>3
  <2> QED  BY <1>1, <1>2, <1>3, <2>1, <2>3, <2>4, <2>5, <2>7, <2>8, InvParts, Assembled
<1>8. CASE type = "READ" /\ Forwarded(a)
  <2>1. PICK p : p = [left |-> 1, accessed |-> FALSE]
    OBVIOUS
  <2>2. pending' = Append(pending, p) /\ readq' = readq /\ writeq' = writeq
    BY <1>8, <2>1 DEF Enqueue
  <2>3. p \in PendingRead /\ One(p \in Accessing) = 0
    BY <2>1, ControllerAssumption DEF PendingRead, Accessing, One
  <2>4. pending' \in Seq(PendingRead)
    BY <1>3, <2>2, <2>3, AppendProperties
  <2>5. Count(pending', Accessing) = Count(pending, Accessing)
    BY <1>3, <2>2, <2>3, CountAppend
  <2>6. serving' = TotalStarted'
    BY <1>1, <1>3, <2>2, <2>5 DEF TotalStarted
  <2>7. QueuesSorted' /\ OlderBounded'
    BY <1>1, <2>2 DEF ControllerInv, QueuesSorted, OlderBounded
  <2> QED  BY <1>1, <1>2, <1>3, <2>2, <2>4, <2>6, <2>7, InvParts, Assembled
<1>9. CASE type = "READ" /\ ~Forwarded(a)
  <2>1. readq' = Append(readq, e) /\ writeq' = writeq /\ pending' = pending
    BY <1>4, <1>9 DEF Enqueue
  <2>2. PICK n \in Nat : n = Len(readq)
    BY <1>3
  <2>3. /\ readq' \in Seq(Request) /\ Len(readq') = n + 1 /\ readq'[n + 1] = e
        /\ \A j \in 1..n : readq'[j] = readq[j]
    BY <1>3, <1>5, <2>1, <2>2, AppendProperties
  <2>4. serving' = TotalStarted'
    <3>1. Count(readq', Started) = Count(readq, Started)
      BY <1>3, <1>5, <1>6, <2>1, CountAppend
    <3> QED  BY <1>1, <1>3, <2>1, <3>1 DEF TotalStarted
  <2>5. QueuesSorted'
    BY <1>5, <1>9, <2>1, <2>2, <2>3 DEF ControllerInv, QueuesSorted
  <2>6. e.older = Count(actq, WritesAt(a))
    <3>1. Count(writeq, WritesAt(a)) = 0
      BY <1>3, <1>9, WritePositions, FS_EmptySet DEF Forwarded
    <3> QED  BY <1>3, <1>5, <3>1
  <2>7. ASSUME NEW j \in 1..Len(readq')
        PROVE  readq'[j].older <= Count(actq', WritesAt(readq'[j].addr))
    <3>1. CASE j \in 1..n
      <4>1. readq'[j] = readq[j] /\ j \in 1..Len(readq)
        BY <2>2, <2>3, <3>1
      <4> QED  BY <1>1, <4>1 DEF ControllerInv, OlderBounded
    <3>2. CASE j = n + 1
      <4>1. readq'[j] = e
        BY <2>3, <3>2
      <4>2. PICK c \in Nat : c = Count(actq', WritesAt(a))
        BY <1>1, <1>3
      <4>3. readq'[j].addr = a /\ readq'[j].older = c
        BY <1>1, <1>5, <2>6, <4>1, <4>2
      <4> QED  BY <4>2, <4>3
    <3> QED  BY <2>3, <3>1, <3>2
  <2>8. OlderBounded'
    <3>1. /\ \A j \in 1..Len(writeq') :
               writeq'[j].older <= CountTo(writeq', j - 1, WritesAt(writeq'[j].addr))
                                     + Count(actq', WritesAt(writeq'[j].addr))
          /\ \A j \in 1..Len(actq') : actq'[j].older = 0
      BY <1>1, <2>1 DEF ControllerInv, OlderBounded
    <3> QED  BY <2>7, <3>1 DEF OlderBounded
  <2>9. Len(readq') <= QueueMax
    BY <1>1, <1>3, <1>9, <2>2, <2>3
  <2> QED  BY <1>1, <1>2, <1>3, <2>1, <2>3, <2>4, <2>5, <2>8, <2>9, InvParts, Assembled
<1> QED  BY <1>7, <1>8, <1>9
\* A row that is closed is closed in the row table too.
LEMMA RowsClosed ==
  ASSUME ControllerInv, NEW banks
  PROVE  /\ ClosedNow(banks) \in [Banks -> Rows \cup {NoRow}]
         /\ RowTableClosed(banks) = ClosedNow(banks)
  BY InvParts DEF ClosedNow, RowTableClosed

LEMMA CycleStarted ==
  ASSUME ControllerInv, NEW refresh, StartCycle(refresh)
  PROVE  /\ writeMode' \in BOOLEAN /\ sched' \in SchedulerTypes /\ policy' \in PolicyTypes
         /\ Others(refresh) \in 0..1
<1>1. ModeNow \in BOOLEAN
  BY DEF ModeNow
<1> QED  BY <1>1, InvParts DEF StartCycle, Others

\* The activated request is alone in actq, and its row is open.
LEMMA ActivatedOnly ==
  ASSUME actq' \in Seq(Request), Len(actq') \in 0..1,
         Len(actq') <= 1, Len(actq') = 1 => open'[BankOf[actq'[1].addr]] = RowOf[actq'[1].addr]
  PROVE  ActivatesUsed'
<1>1. \A r \in ToSet(actq') : Len(actq') = 1 /\ r = actq'[1]
  <2> TAKE r \in ToSet(actq')
  <2>1. PICK k \in 1..Len(actq') : r = actq'[k]
    BY LenProperties DEF ToSet
  <2> QED  BY <2>1
<1>2. \A r \in ToSet(actq') : open'[BankOf[r.addr]] = RowOf[r.addr]
  BY <1>1
<1> QED  BY <1>2 DEF ActivatesUsed, IsRowHit

LEMMA AccessStep ==
  ASSUME ControllerInv, NEW ready, NEW refresh \in BOOLEAN, TickAccess(ready, refresh)
  PROVE  ControllerInv'
<1>1. PICK i : /\ i \in Chosen(From(refresh), ready)
               /\ LET s == From(refresh)
                      r == QueueOf(s)[i]
                  IN /\ FirstCommand(r) \in {"RD", "WR"}
                     /\ readq'  = WriteDone(Without(readq, s, "read", i), r)
                     /\ writeq' = WriteDone(Without(writeq, s, "write", i), r)
                     /\ actq'   = WriteDone(Without(actq, s, "act", i), r)
                     /\ pending' = IF r.type = "READ"
                                   THEN Append(PendingNow, [left |-> ReadLatency, accessed |-> TRUE])
                                   ELSE PendingNow
                     /\ serving' = IF r.type = "READ" THEN ServingWith(r) ELSE ServingWith(r) - 1
                     /\ IF Autoprecharges(r.addr)
                        THEN /\ open' = ClosedNow({BankOf[r.addr]})
                             /\ rowTable' = RowTableClosed({BankOf[r.addr]})
                        ELSE UNCHANGED <<open, rowTable>>
  BY DEF TickAccess
<1>2. StartCycle(refresh) /\ otherq' = Others(refresh)
  BY DEF TickAccess
<1>3. PICK source : source = From(refresh)
  OBVIOUS
<1>4. PICK r : r = QueueOf(source)[i]
  OBVIOUS
<1>5. Picked(source, i) /\ r \in Request
  BY <1>1, <1>3, <1>4, ChosenPicked DEF Picked
<1>6. /\ readq'  = WriteDone(Without(readq, source, "read", i), r)
      /\ writeq' = WriteDone(Without(writeq, source, "write", i), r)
      /\ actq'   = WriteDone(Without(actq, source, "act", i), r)
  BY <1>1, <1>3, <1>4
<1>7. /\ readq' \in Seq(Request) /\ Len(readq') <= Len(readq)
      /\ writeq' \in Seq(Request) /\ Len(writeq') <= Len(writeq)
      /\ actq' \in Seq(Request) /\ Len(actq') = 0
      /\ QueuesSorted' /\ OlderBounded'
      /\ Count(readq', Started) + Count(writeq', Started) + Count(actq', Started)
           = Count(readq, Started) + Count(writeq, Started) + Count(actq, Started)
               - One(r \in Started)
  BY <1>4, <1>5, <1>6, AccessQueues
<1>8. ActivatesUsed'
  <2>1. Len(actq') \in 0..1 /\ Len(actq') <= 1 /\ Len(actq') # 1
    BY <1>7
  <2> QED  BY <1>7, <2>1, ActivatedOnly
<1>9. open' \in [Banks -> Rows \cup {NoRow}] /\ rowTable' = open'
  BY <1>1, InvParts, RowsClosed
<1>10. Len(readq') <= QueueMax /\ Len(writeq') <= QueueMax
  BY <1>7, InvParts, LenProperties, ControllerAssumption
<1>11. /\ PendingNow \in Seq(PendingRead) /\ ServingNow \in Int
       /\ ServingNow = serving - Count(pending, Accessing) + Count(PendingNow, Accessing)
  BY PendingStep
<1>12. Count(PendingNow, Accessing) \in Nat
  BY <1>11, LenProperties, CountTyped DEF Count
<1>13. PICK o \in 0..1 : ServingWith(r) = ServingNow + o /\ One(r \in Started) = 1 - o
  <2>1. CASE r.isFirst
    <3>1. ServingWith(r) = ServingNow + 1 /\ One(r \in Started) = 0
      BY <2>1 DEF ServingWith, Started, One
    <3> QED  BY <3>1
  <2>2. CASE ~r.isFirst
    <3>1. ServingWith(r) = ServingNow + 0 /\ One(r \in Started) = 1
      BY <1>5, <1>11, <2>2 DEF ServingWith, Started, One
    <3> QED  BY <3>1
  <2> QED  BY <2>1, <2>2
<1>14. pending' \in Seq(PendingRead) /\ serving' = TotalStarted'
  <2>1. PICK c \in Int : c = Count(readq', Started) + Count(writeq', Started) + Count(actq', Started)
    BY <1>7, LenProperties, CountTyped DEF Count
  <2>2. c = serving - Count(pending, Accessing) - (1 - o)
    <3>1. PICK d \in Int : d = Count(readq, Started) + Count(writeq, Started) + Count(actq, Started)
      BY InvParts
    <3>2. serving = d + Count(pending, Accessing) /\ Count(pending, Accessing) \in Nat
      BY <3>1, InvParts DEF TotalStarted
    <3>3. c = d - (1 - o)
      <4>1. PICK n \in Int : n = One(r \in Started) /\ n = 1 - o
        BY <1>13
      <4>2. c = d - n
        <5>1. Count(readq', Started) + Count(writeq', Started) + Count(actq', Started)
                = Count(readq, Started) + Count(writeq, Started) + Count(actq, Started) - n
          BY <1>7, <4>1
        <5>2. /\ Count(readq, Started) \in Nat /\ Count(writeq, Started) \in Nat
              /\ Count(actq, Started) \in Nat
          BY InvParts
        <5> QED  BY <2>1, <3>1, <5>1, <5>2
      <4> QED  BY <4>1, <4>2
    <3> QED  BY <3>1, <3>2, <3>3
  <2>3. TotalStarted' = c + Count(pending', Accessing)
    BY <2>1 DEF TotalStarted
  <2>4. serving \in Int /\ Count(pending, Accessing) \in Nat
    BY InvParts, QueuesTyped DEF ControllerInv
  <2>7. /\ ServingNow + o = c + (Count(PendingNow, Accessing) + 1)
        /\ ServingNow + o - 1 = c + Count(PendingNow, Accessing)
    BY <1>11, <1>12, <2>1, <2>2, <2>4
  <2>5. CASE r.type = "READ"
    <3>1. PICK p : p = [left |-> ReadLatency, accessed |-> TRUE]
      OBVIOUS
    <3>2. p \in PendingRead /\ p \in Accessing
      BY <3>1, ControllerAssumption DEF PendingRead, Accessing
    <3>3. pending' = Append(PendingNow, p) /\ serving' = ServingWith(r)
      BY <1>1, <1>3, <1>4, <2>5, <3>1
    <3>4. pending' \in Seq(PendingRead)
      BY <1>11, <3>2, <3>3, AppendProperties
    <3>5. Count(Append(PendingNow, p), Accessing)
            = Count(PendingNow, Accessing) + One(p \in Accessing)
      BY <1>11, <3>2, CountAppend
    <3>6. Count(pending', Accessing) = Count(PendingNow, Accessing) + 1
      BY <3>2, <3>3, <3>5 DEF One
    <3>7. TotalStarted' = c + (Count(PendingNow, Accessing) + 1)
      BY <2>3, <3>6
    <3>8. serving' = ServingNow + o
      BY <1>13, <3>3
    <3> QED  BY <3>4, <3>7, <3>8, <2>7
  <2>6. CASE r.type # "READ"
    <3>1. pending' = PendingNow /\ serving' = ServingWith(r) - 1
      BY <1>1, <1>3, <1>4, <2>6
    <3>2. TotalStarted' = c + Count(PendingNow, Accessing)
      BY <2>3, <3>1
    <3>3. serving' = ServingNow + o - 1
      <4>1. ServingWith(r) = ServingNow + o
        BY <1>13
      <4> QED  BY <1>11, <3>1, <4>1
    <3> QED  BY <1>11, <2>7, <3>1, <3>2, <3>3
  <2> QED  BY <2>5, <2>6
<1>15. otherq' \in 0..1 /\ writeMode' \in BOOLEAN /\ sched' \in SchedulerTypes /\ policy' \in PolicyTypes
  BY <1>2, CycleStarted
<1> QED  BY <1>7, <1>8, <1>9, <1>10, <1>14, <1>15, Assembled

\* The count of an action that leaves the number of queued requests alone.
LEMMA ServingStep ==
  ASSUME ControllerInv, NEW o \in 0..1, pending' = PendingNow,
         serving' = ServingNow + o,
         Count(readq', Started) + Count(writeq', Started) + Count(actq', Started)
           = Count(readq, Started) + Count(writeq, Started) + Count(actq, Started) + o
  PROVE  pending' \in Seq(PendingRead) /\ serving' = TotalStarted'
<1>1. /\ PendingNow \in Seq(PendingRead) /\ ServingNow \in Int
      /\ ServingNow = serving - Count(pending, Accessing) + Count(PendingNow, Accessing)
  BY PendingStep
<1>2. Count(PendingNow, Accessing) \in Nat
  BY <1>1, LenProperties, CountTyped DEF Count
<1>3. PICK d \in Int : d = Count(readq, Started) + Count(writeq, Started) + Count(actq, Started)
  BY InvParts
<1>4. serving = d + Count(pending, Accessing) /\ Count(pending, Accessing) \in Nat
  BY <1>3, InvParts DEF TotalStarted
<1>5. TotalStarted' = d + o + Count(pending', Accessing)
  BY <1>3 DEF TotalStarted
<1>6. ServingNow + o = d + o + Count(PendingNow, Accessing)
  <2>1. ServingNow = d + Count(PendingNow, Accessing)
    BY <1>1, <1>2, <1>4
  <2> QED  BY <1>2, <2>1
<1>7. serving' = TotalStarted'
  BY <1>5, <1>6
<1> QED  BY <1>1, <1>7
LEMMA OpenStep ==
  ASSUME ControllerInv, NEW ready, NEW refresh \in BOOLEAN, TickOpen(ready, refresh)
  PROVE  ControllerInv'
<1>1. PICK i : /\ i \in Chosen(From(refresh), ready)
               /\ LET s == From(refresh)
                      r == QueueOf(s)[i]
                  IN /\ FirstCommand(r) = "ACT"
                     /\ readq'  = Without(readq, s, "read", i)
                     /\ writeq' = Without(writeq, s, "write", i)
                     /\ actq'   = Append(Without(actq, s, "act", i), [r EXCEPT !.isFirst = FALSE])
                     /\ serving' = ServingWith(r)
                     /\ open' = [open EXCEPT ![BankOf[r.addr]] = RowOf[r.addr]]
                     /\ rowTable' = RowTableOpened(r.addr)
  BY DEF TickOpen
<1>2. StartCycle(refresh) /\ otherq' = Others(refresh) /\ pending' = PendingNow
  BY DEF TickOpen
<1>3. PICK source : source = From(refresh)
  OBVIOUS
<1>4. PICK r : r = QueueOf(source)[i]
  OBVIOUS
<1>5. Picked(source, i) /\ r \in Request /\ r.older = 0
  BY <1>1, <1>3, <1>4, ChosenPicked DEF Picked
<1>6. PICK e : e = [r EXCEPT !.isFirst = FALSE]
  OBVIOUS
<1>7. /\ e \in Request /\ e \in Started /\ e.type = r.type /\ e.addr = r.addr /\ e.older = 0
  BY <1>5, <1>6 DEF Request, Started
<1>8. /\ FirstCommand(r) = "ACT" /\ serving' = ServingWith(r)
      /\ readq'  = Without(readq, source, "read", i)
      /\ writeq' = Without(writeq, source, "write", i)
      /\ actq' = Append(Without(actq, source, "act", i), e)
      /\ open' = [open EXCEPT ![BankOf[r.addr]] = RowOf[r.addr]]
      /\ rowTable' = RowTableOpened(r.addr)
  BY <1>1, <1>3, <1>4, <1>6
<1>9. r.addr \in Addrs /\ BankOf[r.addr] \in Banks /\ RowOf[r.addr] \in Rows /\ RowOf[r.addr] # NoRow
  BY <1>5, AddressTyped DEF Request
<1>10. open[BankOf[r.addr]] = NoRow /\ ~IsRowHit(r)
  BY <1>5, <1>8, <1>9, CommandOf DEF IsRowHit
\* The activated request would hit its row.
<1>11. source \in {"read", "write"} /\ Len(actq) = 0
  BY <1>4, <1>5, <1>10 DEF Picked
<1>12. actq = <<>> /\ actq' = <<e>> /\ Len(actq') = 1 /\ actq'[1] = e /\ actq' \in Seq(Request)
  <2>1. actq = <<>>
    BY <1>11, InvParts, EmptySeq
  <2>2. actq' = Append(<<>>, e)
    BY <1>8, <1>11, <2>1 DEF Without
  <2> QED  BY <1>7, <2>1, <2>2
<1>13. /\ readq \in Seq(Request) /\ writeq \in Seq(Request)
       /\ Len(readq) \in Nat /\ Len(writeq) \in Nat
       /\ Len(readq) <= QueueMax /\ Len(writeq) <= QueueMax /\ QueueMax \in Nat
  BY InvParts, ControllerAssumption
<1>14. /\ source = "read" => r = readq[i] /\ i \in 1..Len(readq)
       /\ source = "write" => r = writeq[i] /\ i \in 1..Len(writeq)
  BY <1>4, <1>5 DEF Picked, QueueOf
<1>15. /\ readq' \in Seq(Request) /\ Len(readq') \in Nat
       /\ Len(readq') = Len(readq) - IF source = "read" THEN 1 ELSE 0
       /\ \A j \in 1..Len(readq') : readq'[j] = IF source = "read" /\ j >= i THEN readq[j + 1] ELSE readq[j]
       /\ Count(readq', Started) = Count(readq, Started)
                                     - IF source = "read" THEN One(readq[i] \in Started) ELSE 0
  BY <1>8, <1>13, <1>14, TakenFrom
<1>16. /\ writeq' \in Seq(Request) /\ Len(writeq') \in Nat
       /\ Len(writeq') = Len(writeq) - IF source = "write" THEN 1 ELSE 0
       /\ \A j \in 1..Len(writeq') : writeq'[j] = IF source = "write" /\ j >= i THEN writeq[j + 1] ELSE writeq[j]
       /\ Count(writeq', Started) = Count(writeq, Started)
                                      - IF source = "write" THEN One(writeq[i] \in Started) ELSE 0
  BY <1>8, <1>13, <1>14, TakenFrom
<1>17. /\ \A j \in 1..Len(readq') : \E k \in 1..Len(readq) : readq'[j] = readq[k]
       /\ \A j \in 1..Len(writeq') : \E k \in 1..Len(writeq) : writeq'[j] = writeq[k]
  <2>1. ASSUME NEW j \in 1..Len(readq') PROVE \E k \in 1..Len(readq) : readq'[j] = readq[k]
    <3>1. CASE source = "read" /\ j >= i
      BY <1>13, <1>14, <1>15, <3>1
    <3>2. CASE ~(source = "read" /\ j >= i)
      BY <1>13, <1>14, <1>15, <3>2
    <3> QED  BY <3>1, <3>2
  <2>2. ASSUME NEW j \in 1..Len(writeq') PROVE \E k \in 1..Len(writeq) : writeq'[j] = writeq[k]
    <3>1. CASE source = "write" /\ j >= i
      BY <1>13, <1>14, <1>16, <3>1
    <3>2. CASE ~(source = "write" /\ j >= i)
      BY <1>13, <1>14, <1>16, <3>2
    <3> QED  BY <3>1, <3>2
  <2> QED  BY <2>1, <2>2
<1>18. QueuesSorted'
  <2>1. \A j \in 1..Len(readq') : readq'[j].type = "READ"
    BY <1>17 DEF ControllerInv, QueuesSorted
  <2>2. \A j \in 1..Len(writeq') : writeq'[j].type = "WRITE"
    BY <1>17 DEF ControllerInv, QueuesSorted
  <2> QED  BY <2>1, <2>2 DEF QueuesSorted
<1>19. \A a : /\ Count(actq, WritesAt(a)) = 0
              /\ Count(actq', WritesAt(a)) = One(r \in WritesAt(a))
              /\ One(r \in WritesAt(a)) \in Nat
  <2> TAKE a
  <2>1. Count(actq, WritesAt(a)) = 0
    BY <1>11, CountNone DEF Count
  <2>2. Count(actq', WritesAt(a)) = One(e \in WritesAt(a))
    BY <1>12, CountOfOne
  <2>3. e \in WritesAt(a) <=> r \in WritesAt(a)
    BY <1>5, <1>7 DEF WritesAt
  <2>4. One(e \in WritesAt(a)) = One(r \in WritesAt(a)) /\ One(r \in WritesAt(a)) \in Nat
    BY <2>3 DEF One
  <2> QED  BY <2>1, <2>2, <2>4
<1>20. ASSUME NEW j \in 1..Len(readq')
       PROVE  readq'[j].older <= Count(actq', WritesAt(readq'[j].addr))
  <2>1. PICK k \in 1..Len(readq) : readq'[j] = readq[k]
    BY <1>17
  <2>2. PICK o, a : o = readq[k].older /\ a = readq[k].addr
    OBVIOUS
  <2>3. readq[k] \in Request
    BY <1>13, ElementOfSeq
  <2>4. o \in Nat /\ o <= Count(actq, WritesAt(a))
    BY <2>2, <2>3 DEF Request, ControllerInv, OlderBounded
  <2>5. o <= Count(actq', WritesAt(a))
    BY <1>19, <2>4
  <2> QED  BY <2>1, <2>2, <2>5
<1>21. ASSUME NEW j \in 1..Len(writeq')
       PROVE  writeq'[j].older <= CountTo(writeq', j - 1, WritesAt(writeq'[j].addr))
                                    + Count(actq', WritesAt(writeq'[j].addr))
  <2>1. PICK o, a : o = writeq'[j].older /\ a = writeq'[j].addr
    OBVIOUS
  <2>2. ASSUME NEW k \in 1..Len(writeq), writeq'[j] = writeq[k]
        PROVE  o \in Nat /\ o <= CountTo(writeq, k - 1, WritesAt(a))
               /\ CountTo(writeq, k - 1, WritesAt(a)) \in Nat
    <3>1. writeq[k] \in Request /\ k - 1 \in Int
      BY <1>13, ElementOfSeq
    <3>2. o \in Nat /\ o <= CountTo(writeq, k - 1, WritesAt(a)) + Count(actq, WritesAt(a))
      BY <2>1, <2>2, <3>1 DEF Request, ControllerInv, OlderBounded
    <3>3. CountTo(writeq, k - 1, WritesAt(a)) \in Nat
      BY <3>1, CountTyped
    <3> QED  BY <1>19, <3>2, <3>3
  <2>3. PICK c : c = One(r \in WritesAt(a))
    OBVIOUS
  <2>4. c \in Nat /\ Count(actq', WritesAt(a)) = c
    BY <1>19, <2>3
  <2>5. PICK m : m = CountTo(writeq', j - 1, WritesAt(a))
    OBVIOUS
  <2>6. o <= m + c
    <3>1. CASE source = "write" /\ j >= i
      <4>1. /\ j + 1 \in 1..Len(writeq) /\ writeq'[j] = writeq[j + 1] /\ i \in 1..Len(writeq)
            /\ j \in i..Len(writeq)
        BY <1>13, <1>14, <1>16, <3>1
      <4>2. PICK n : n = CountTo(writeq, j, WritesAt(a))
        OBVIOUS
      <4>3. o \in Nat /\ n \in Nat /\ o <= n
        BY <2>2, <4>1, <4>2
      <4>4. writeq' = RemoveAt(writeq, i)
        BY <1>8, <3>1 DEF Without
      <4>5. CountTo(RemoveAt(writeq, i), j - 1, WritesAt(a))
              = CountTo(writeq, j, WritesAt(a)) - One(writeq[i] \in WritesAt(a))
        BY <1>13, <4>1, CountRemoved
      <4>6. m = n - c
        BY <1>14, <2>3, <2>5, <3>1, <4>2, <4>4, <4>5
      <4> QED  BY <2>4, <4>3, <4>6
    <3>2. CASE ~(source = "write" /\ j >= i)
      <4>1. j \in 1..Len(writeq) /\ writeq'[j] = writeq[j] /\ j - 1 \in Int
        BY <1>13, <1>14, <1>16, <3>2
      <4>2. ASSUME NEW k \in 1..(j - 1) PROVE writeq'[k] = writeq[k]
        <5>1. k \in 1..Len(writeq') /\ k < j
          BY <1>16
        <5>2. ~(source = "write" /\ k >= i)
          <6>1. CASE source # "write"
            BY <6>1
          <6>2. CASE source = "write"
            BY <1>14, <3>2, <5>1, <6>2
          <6> QED  BY <6>1, <6>2
        <5> QED  BY <1>16, <5>1, <5>2
      <4>3. m = CountTo(writeq, j - 1, WritesAt(a))
        BY <2>5, <4>1, <4>2, CountSame
      <4> QED  BY <2>2, <2>4, <4>1, <4>3
    <3> QED  BY <3>1, <3>2
  <2> QED  BY <2>1, <2>4, <2>5, <2>6
<1>22. OlderBounded'
  <2>1. \A j \in 1..Len(actq') : actq'[j].older = 0
    BY <1>7, <1>12
  <2> QED  BY <1>20, <1>21, <2>1 DEF OlderBounded
<1>23. open' \in [Banks -> Rows \cup {NoRow}] /\ rowTable' = open'
  BY <1>8, <1>9, <1>10, InvParts DEF RowTableOpened
<1>24. ActivatesUsed'
  <2>1. open'[BankOf[e.addr]] = RowOf[e.addr]
    BY <1>7, <1>8, <1>9, InvParts
  <2>2. Len(actq') \in 0..1 /\ Len(actq') <= 1
    BY <1>12
  <2> QED  BY <1>12, <2>1, <2>2, ActivatedOnly
<1>25. PICK o \in 0..1 : serving' = ServingNow + o /\ One(r \in Started) = 1 - o
  <2>1. CASE r.isFirst
    <3>1. serving' = ServingNow + 1 /\ One(r \in Started) = 0
      BY <1>8, <2>1 DEF ServingWith, Started, One
    <3> QED  BY <3>1
  <2>2. CASE ~r.isFirst
    <3>1. serving' = ServingNow + 0 /\ One(r \in Started) = 1
      BY <1>5, <1>8, <2>2, PendingStep DEF ServingWith, Started, One
    <3> QED  BY <3>1
  <2> QED  BY <2>1, <2>2
<1>26. Count(readq', Started) + Count(writeq', Started) + Count(actq', Started)
         = Count(readq, Started) + Count(writeq, Started) + Count(actq, Started) + o
  <2>1. One(r \in Started) = 1 - o
    BY <1>25
  <2>2. Count(actq', Started) = 1 /\ Count(actq, Started) = 0
    <3>1. Count(actq', Started) = One(e \in Started)
      BY <1>12, CountOfOne
    <3>2. Count(actq, Started) = 0
      BY <1>11, CountNone DEF Count
    <3> QED  BY <1>7, <3>1, <3>2 DEF One
  <2>3. Count(readq, Started) \in Nat /\ Count(writeq, Started) \in Nat
    BY InvParts
  <2>4. CASE source = "read"
    <3>1. /\ Count(readq', Started) = Count(readq, Started) - One(r \in Started)
          /\ Count(writeq', Started) = Count(writeq, Started)
      BY <1>14, <1>15, <1>16, <2>3, <2>4
    <3> QED  BY <2>1, <2>2, <2>3, <3>1
  <2>5. CASE source = "write"
    <3>1. /\ Count(readq', Started) = Count(readq, Started)
          /\ Count(writeq', Started) = Count(writeq, Started) - One(r \in Started)
      BY <1>14, <1>15, <1>16, <2>3, <2>5
    <3> QED  BY <2>1, <2>2, <2>3, <3>1
  <2> QED  BY <1>11, <2>4, <2>5
<1>27. pending' \in Seq(PendingRead) /\ serving' = TotalStarted'
  BY <1>2, <1>25, <1>26, ServingStep
<1>28. Len(readq') <= QueueMax /\ Len(writeq') <= QueueMax
  BY <1>13, <1>15, <1>16
<1>29. otherq' \in 0..1 /\ writeMode' \in BOOLEAN /\ sched' \in SchedulerTypes /\ policy' \in PolicyTypes
  BY <1>2, CycleStarted
<1> QED  BY <1>12, <1>15, <1>16, <1>18, <1>22, <1>23, <1>24, <1>27, <1>28, <1>29, Assembled
\* A precharge for a request: the queue of its mode is served, so no row of an
\* activated request is closed.
LEMMA CloseStep ==
  ASSUME ControllerInv, NEW ready, NEW refresh \in BOOLEAN, TickClose(ready, refresh)
  PROVE  ControllerInv'
<1>1. PICK i : /\ i \in Chosen(From(refresh), ready)
               /\ LET s == From(refresh)
                      r == QueueOf(s)[i]
                  IN /\ FirstCommand(r) = "PRE"
                     /\ readq'  = Touched(readq, s, "read", i)
                     /\ writeq' = Touched(writeq, s, "write", i)
                     /\ actq'   = Touched(actq, s, "act", i)
                     /\ serving' = ServingWith(r)
                     /\ open' = ClosedNow({BankOf[r.addr]})
                     /\ rowTable' = RowTableClosed({BankOf[r.addr]})
  BY DEF TickClose
<1>2. StartCycle(refresh) /\ otherq' = Others(refresh) /\ pending' = PendingNow
  BY DEF TickClose
<1>3. PICK source : source = From(refresh)
  OBVIOUS
<1>4. PICK r : r = QueueOf(source)[i]
  OBVIOUS
<1>5. Picked(source, i) /\ r \in Request
  BY <1>1, <1>3, <1>4, ChosenPicked DEF Picked
<1>6. /\ FirstCommand(r) = "PRE" /\ serving' = ServingWith(r)
      /\ readq'  = Touched(readq, source, "read", i)
      /\ writeq' = Touched(writeq, source, "write", i)
      /\ actq' = Touched(actq, source, "act", i)
  BY <1>1, <1>3, <1>4
<1>7. ~IsRowHit(r)
  BY <1>5, <1>6, CommandOf
<1>8. source \in {"read", "write"} /\ Len(actq) = 0 /\ actq' = actq
  BY <1>4, <1>5, <1>6, <1>7 DEF Picked, Touched
<1>9. /\ readq \in Seq(Request) /\ writeq \in Seq(Request) /\ actq \in Seq(Request)
      /\ Len(readq) \in Nat /\ Len(writeq) \in Nat
      /\ Len(readq) <= QueueMax /\ Len(writeq) <= QueueMax
  BY InvParts
<1>10. /\ source = "read" => r = readq[i] /\ i \in 1..Len(readq)
       /\ source = "write" => r = writeq[i] /\ i \in 1..Len(writeq)
  BY <1>4, <1>5 DEF Picked, QueueOf
<1>11. /\ readq' \in Seq(Request) /\ SameWrites(readq, readq')
       /\ \A j \in 1..Len(readq) : readq'[j].older = readq[j].older
       /\ Count(readq', Started)
            = Count(readq, Started) + IF source = "read" THEN One(readq[i].isFirst) ELSE 0
  BY <1>6, <1>9, <1>10, TouchedElements
<1>12. /\ writeq' \in Seq(Request) /\ SameWrites(writeq, writeq')
       /\ \A j \in 1..Len(writeq) : writeq'[j].older = writeq[j].older
       /\ Count(writeq', Started)
            = Count(writeq, Started) + IF source = "write" THEN One(writeq[i].isFirst) ELSE 0
  BY <1>6, <1>9, <1>10, TouchedElements
<1>13. QueuesSorted'
  BY <1>11, <1>12 DEF SameWrites, ControllerInv, QueuesSorted
<1>14. ASSUME NEW j \in 1..Len(readq')
       PROVE  readq'[j].older <= Count(actq', WritesAt(readq'[j].addr))
  <2>1. j \in 1..Len(readq) /\ readq'[j].older = readq[j].older /\ readq'[j].addr = readq[j].addr
    BY <1>11 DEF SameWrites
  <2> QED  BY <1>8, <2>1 DEF ControllerInv, OlderBounded
<1>15. ASSUME NEW j \in 1..Len(writeq')
       PROVE  writeq'[j].older <= CountTo(writeq', j - 1, WritesAt(writeq'[j].addr))
                                    + Count(actq', WritesAt(writeq'[j].addr))
  <2>1. /\ j \in 1..Len(writeq)
        /\ writeq'[j].older = writeq[j].older /\ writeq'[j].addr = writeq[j].addr
    BY <1>12 DEF SameWrites
  <2>2. PICK a : a = writeq[j].addr
    OBVIOUS
  <2>3. PICK n \in 0..Len(writeq) : n = j - 1
    BY <1>9, <2>1
  <2>4. CountTo(writeq', n, WritesAt(a)) = CountTo(writeq, n, WritesAt(a))
    BY <1>9, <1>12, SameWritesCount
  <2>5. writeq[j].older <= CountTo(writeq, j - 1, WritesAt(a)) + Count(actq, WritesAt(a))
    BY <2>1, <2>2 DEF ControllerInv, OlderBounded
  <2> QED  BY <1>8, <2>1, <2>2, <2>3, <2>4, <2>5
<1>16. OlderBounded'
  <2>1. \A j \in 1..Len(actq') : actq'[j].older = 0
    BY <1>8 DEF ControllerInv, OlderBounded
  <2> QED  BY <1>14, <1>15, <2>1 DEF OlderBounded
<1>17. open' \in [Banks -> Rows \cup {NoRow}] /\ rowTable' = open'
  BY <1>1, RowsClosed
<1>18. ActivatesUsed'
  <2>1. Len(actq') \in 0..1 /\ Len(actq') <= 1 /\ Len(actq') # 1
    BY <1>8
  <2> QED  BY <1>8, <1>9, <2>1, ActivatedOnly
<1>19. PICK o \in 0..1 : serving' = ServingNow + o /\ One(r.isFirst) = o
  <2>1. CASE r.isFirst
    <3>1. serving' = ServingNow + 1 /\ One(r.isFirst) = 1
      BY <1>6, <2>1 DEF ServingWith, One
    <3> QED  BY <3>1
  <2>2. CASE ~r.isFirst
    <3>1. serving' = ServingNow + 0 /\ One(r.isFirst) = 0
      BY <1>6, <2>2, PendingStep DEF ServingWith, One
    <3> QED  BY <3>1
  <2> QED  BY <2>1, <2>2
<1>20. Count(readq', Started) + Count(writeq', Started) + Count(actq', Started)
         = Count(readq, Started) + Count(writeq, Started) + Count(actq, Started) + o
  <2>1. /\ Count(readq, Started) \in Nat /\ Count(writeq, Started) \in Nat
        /\ Count(actq, Started) \in Nat /\ Count(actq', Started) = Count(actq, Started)
    BY <1>8, InvParts
  <2>2. CASE source = "read"
    <3>1. /\ Count(readq', Started) = Count(readq, Started) + o
          /\ Count(writeq', Started) = Count(writeq, Started)
      BY <1>10, <1>11, <1>12, <1>19, <2>1, <2>2
    <3> QED  BY <2>1, <3>1
  <2>3. CASE source = "write"
    <3>1. /\ Count(readq', Started) = Count(readq, Started)
          /\ Count(writeq', Started) = Count(writeq, Started) + o
      BY <1>10, <1>11, <1>12, <1>19, <2>1, <2>3
    <3> QED  BY <2>1, <3>1
  <2> QED  BY <1>8, <2>2, <2>3
<1>21. pending' \in Seq(PendingRead) /\ serving' = TotalStarted'
  BY <1>2, <1>19, <1>20, ServingStep
<1>22. Len(readq') <= QueueMax /\ Len(writeq') <= QueueMax
  BY <1>9, <1>11, <1>12 DEF SameWrites
<1>23. otherq' \in 0..1 /\ writeMode' \in BOOLEAN /\ sched' \in SchedulerTypes /\ policy' \in PolicyTypes
  BY <1>2, CycleStarted
<1>24. actq' \in Seq(Request)
  BY <1>8, <1>9
<1> QED  BY <1>11, <1>12, <1>13, <1>16, <1>17, <1>18, <1>21, <1>22, <1>23, <1>24, Assembled

\* A cycle without a command for a request leaves the queues alone.
LEMMA QueuesKept ==
  ASSUME ControllerInv, NEW refresh, StartCycle(refresh), otherq' \in 0..1,
         UNCHANGED <<readq, writeq, actq>>, pending' = PendingNow, serving' = ServingNow,
         open' \in [Banks -> Rows \cup {NoRow}], rowTable' = open',
         ActivatesUsed'
  PROVE  ControllerInv'
<1>1. /\ readq' \in Seq(Request) /\ Len(readq') <= QueueMax
      /\ writeq' \in Seq(Request) /\ Len(writeq') <= QueueMax
      /\ actq' \in Seq(Request)
  BY InvParts
<1>2. QueuesSorted' /\ OlderBounded'
  BY DEF ControllerInv, QueuesSorted, OlderBounded
<1>3. serving' = ServingNow + 0 /\ 0 \in 0..1
  BY PendingStep
<1>4. Count(readq', Started) + Count(writeq', Started) + Count(actq', Started)
        = Count(readq, Started) + Count(writeq, Started) + Count(actq, Started) + 0
  <2>1. /\ Count(readq, Started) \in Nat /\ Count(writeq, Started) \in Nat
        /\ Count(actq, Started) \in Nat
    BY InvParts
  <2> QED  BY <2>1
<1>5. pending' \in Seq(PendingRead) /\ serving' = TotalStarted'
  BY <1>3, <1>4, ServingStep
<1>6. writeMode' \in BOOLEAN /\ sched' \in SchedulerTypes /\ policy' \in PolicyTypes
  BY CycleStarted
<1> QED  BY <1>1, <1>2, <1>5, <1>6, Assembled

\* Refreshes wait for the activated request.
LEMMA RefreshStep ==
  ASSUME ControllerInv, NEW ready, NEW refresh \in BOOLEAN, TickRefresh(ready, refresh)
  PROVE  ControllerInv'
<1>1. /\ StartCycle(refresh) /\ From(refresh) = "other"
      /\ otherq' = IF RefreshCommand = "REF" THEN Others(refresh) - 1 ELSE Others(refresh)
      /\ open' = AllClosed /\ rowTable' = RowTableClosed(OpenBanks)
      /\ pending' = PendingNow /\ serving' = ServingNow
      /\ UNCHANGED <<readq, writeq, actq>>
  BY DEF TickRefresh
<1>2. actq = <<>> /\ Others(refresh) > 0
  BY <1>1 DEF From, Source
<1>3. otherq' \in 0..1
  BY <1>1, <1>2, CycleStarted
<1>4. open' \in [Banks -> Rows \cup {NoRow}]
  BY <1>1 DEF AllClosed
<1>5. rowTable' = open'
  BY <1>1, InvParts DEF AllClosed, RowTableClosed, OpenBanks
<1>6. ActivatesUsed'
  <2>1. actq' \in Seq(Request) /\ Len(actq') = 0
    BY <1>1, <1>2, InvParts
  <2>2. Len(actq') \in 0..1 /\ Len(actq') <= 1 /\ Len(actq') # 1
    BY <2>1
  <2> QED  BY <2>1, <2>2, ActivatedOnly
<1> QED  BY <1>1, <1>3, <1>4, <1>5, <1>6, QueuesKept

\* The row policy closes no row of an activated request: when the bank may be
\* precharged the request may be served, and it would have been.
LEMMA SpeculateStep ==
  ASSUME ControllerInv, NEW ready \in ReadySets, NEW refresh \in BOOLEAN,
         NEW expired, TickSpeculate(ready, refresh, expired)
  PROVE  ControllerInv'
<1>1. PICK banks : banks = Victims(expired, ready)
  OBVIOUS
<1>2. /\ StartCycle(refresh) /\ NothingReady(ready, refresh)
      /\ open' = ClosedNow(banks) /\ rowTable' = RowTableClosed(banks)
      /\ otherq' = Others(refresh) /\ pending' = PendingNow /\ serving' = ServingNow
      /\ UNCHANGED <<readq, writeq, actq>>
  BY <1>1 DEF TickSpeculate
<1>3. \A b \in banks : <<"PRE", b>> \in ready
  BY <1>1 DEF Victims, First
<1>4. open' \in [Banks -> Rows \cup {NoRow}] /\ rowTable' = open'
  BY <1>2, RowsClosed
<1>5. actq \in Seq(Request) /\ Len(actq) \in Nat /\ Len(actq) <= 1 /\ sched \in SchedulerTypes
  BY InvParts
<1>6. ASSUME Len(actq) = 1 PROVE open'[BankOf[actq[1].addr]] = RowOf[actq[1].addr]
  <2>1. PICK r : r = actq[1]
    OBVIOUS
  <2>2. r \in Request /\ r \in ToSet(actq) /\ DOMAIN actq = {1} /\ actq # <<>>
    BY <1>5, <1>6, <2>1, LenProperties, ElementOfSeq, EmptySeq DEF ToSet
  <2>3. IsRowHit(r)
    BY <2>2 DEF ControllerInv, ActivatesUsed
  <2>4. BankOf[r.addr] \notin banks
    <3> SUFFICES ASSUME BankOf[r.addr] \in banks PROVE FALSE
      OBVIOUS
    <3>1. IsReady(r, ready)
      BY <1>3, <2>2, <2>3 DEF ReadySets
    <3>2. 1 \in GetHead(actq, ready)
      BY <1>5, <2>1, <2>2, <2>3, <3>1, AloneIsHead
    <3>3. From(refresh) = "act"
      BY <2>2 DEF From, Source
    <3>4. 1 \in Chosen(From(refresh), ready)
      BY <2>1, <3>1, <3>2, <3>3 DEF Chosen, QueueOf
    <3> QED  BY <1>2, <3>4 DEF NothingReady
  <2>5. r.addr \in Addrs /\ BankOf[r.addr] \in Banks
    BY <2>2, AddressTyped DEF Request
  <2> QED  BY <1>2, <2>1, <2>3, <2>4, <2>5 DEF ClosedNow, IsRowHit
<1>7. ActivatesUsed'
  <2>1. PICK n \in 0..1 : n = Len(actq)
    BY <1>5
  <2>2. actq' = actq /\ Len(actq') \in 0..1
    BY <1>2, <2>1
  <2> QED  BY <1>5, <1>6, <2>2, ActivatedOnly
<1>8. otherq' \in 0..1
  BY <1>2, CycleStarted
<1> QED  BY <1>2, <1>4, <1>7, <1>8, QueuesKept

-----------------------------------------------------------------------------
(* The theorems.                                                           *)

\* The memory controller keeps its invariant: whatever the timing of the
\* channel, the scheduler and the row policy.
THEOREM ControllerInvariant == Spec => []ControllerInv
<1>1. Init => ControllerInv
  BY InitStep
<1>2. ControllerInv /\ [Next]_vars => ControllerInv'
  <2> SUFFICES ASSUME ControllerInv, [Next]_vars PROVE ControllerInv'
    OBVIOUS
  <2>1. CASE Arrival
    <3>1. PICK r \in Requests : Enqueue(r[1], r[2])
      BY <2>1 DEF Arrival
    <3>2. r[1] \in {"READ", "WRITE"} /\ r[2] \in Addrs
      BY <3>1, ControllerAssumption
    <3> QED  BY <3>1, <3>2, EnqueueStep
  <2>2. ASSUME NEW ready \in ReadySets, NEW refresh \in BOOLEAN, Tick(ready, refresh)
        PROVE  ControllerInv'
    <3>1. CASE TickAccess(ready, refresh)
      BY <3>1, AccessStep
    <3>2. CASE TickOpen(ready, refresh)
      BY <3>2, OpenStep
    <3>3. CASE TickClose(ready, refresh)
      BY <3>3, CloseStep
    <3>4. CASE TickRefresh(ready, refresh)
      BY <3>4, RefreshStep
    <3>5. ASSUME NEW expired, TickSpeculate(ready, refresh, expired) PROVE ControllerInv'
      BY <3>5, SpeculateStep
    <3> QED  BY <2>2, <3>1, <3>2, <3>3, <3>4, <3>5 DEF Tick
  <2>3. CASE UNCHANGED vars
    <3>1. /\ readq' = readq /\ writeq' = writeq /\ actq' = actq /\ otherq' = otherq
          /\ pending' = pending /\ writeMode' = writeMode /\ open' = open
          /\ rowTable' = rowTable /\ serving' = serving /\ sched' = sched /\ policy' = policy
      BY <2>3 DEF vars, queues
    <3>2. /\ TypeOK' /\ sched' \in SchedulerTypes /\ policy' \in PolicyTypes
          /\ RowTableAgrees'
      BY <3>1 DEF ControllerInv, TypeOK, RowTableAgrees
    <3>3. ActivatesUsed' /\ ServingCounted'
      BY <3>1 DEF ControllerInv, ActivatesUsed, IsRowHit, ServingCounted
    <3>4. QueuesSorted' /\ OlderBounded'
      BY <3>1 DEF ControllerInv, QueuesSorted, OlderBounded
    <3> QED  BY <3>2, <3>3, <3>4 DEF ControllerInv
  <2> QED  BY <2>1, <2>2, <2>3 DEF Next
<1> QED  BY <1>1, <1>2, PTL DEF Spec

\* The queues of the controller keep their limits, and every variable its type.
THEOREM ControllerTypes == Spec => []TypeOK
<1>1. ControllerInv => TypeOK
  BY DEF ControllerInv
<1> QED  BY <1>1, ControllerInvariant, PTL

\* The row table follows the channel (the asserts of RowTable::update).
THEOREM RowTableFollows == Spec => []RowTableAgrees
<1>1. ControllerInv => RowTableAgrees
  BY DEF ControllerInv
<1> QED  BY <1>1, ControllerInvariant, PTL

\* No row is closed between its activation and the access it was opened for,
\* by a request, a refresh or the row policy.
THEOREM ActivationsUsed == Spec => []ActivatesUsed
<1>1. ControllerInv => ActivatesUsed
  BY DEF ControllerInv
<1> QED  BY <1>1, ControllerInvariant, PTL

\* The channel is told once of every request that starts and once when it ends.
THEOREM ServingIsCounted == Spec => []ServingCounted
<1>1. ControllerInv => ServingCounted
  BY DEF ControllerInv
<1> QED  BY <1>1, ControllerInvariant, PTL

\* No access overtakes an earlier write to its address, whichever scheduler
\* reorders the requests.
THEOREM AccessesInOrder == Spec => []ScheduledInOrder
<1>1. ControllerInv => ScheduledInOrder
  <2> SUFFICES ASSUME ControllerInv, NEW ready \in ReadySets, NEW refresh \in BOOLEAN,
                      NEW i \in Chosen(From(refresh), ready)
               PROVE  QueueOf(From(refresh))[i].older = 0
    BY DEF ScheduledInOrder
  <2> QED  BY ChosenPicked DEF Picked
<1> QED  BY <1>1, ControllerInvariant, PTL
=============================================================================
