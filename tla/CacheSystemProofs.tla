--------------------------- MODULE CacheSystemProofs ---------------------------
(***************************************************************************)
(* The cache hierarchy, proved for any tree of caches, any sets, ways and  *)
(* MSHRs and any latencies: MSHR entries and locked lines match, a store   *)
(* stays in a dirty line until its write-back is on the way, and somebody  *)
(* is always going to answer a miss.                                       *)
(***************************************************************************)
EXTENDS CacheSystem, SequenceTheorems, FiniteSetTheorems, WellFoundedInduction, TLAPS

-----------------------------------------------------------------------------
(* Numbers and sequences.                                                  *)

\* Every non-empty set of natural numbers has a least element.
LEMMA LeastNumber ==
  ASSUME NEW T \in SUBSET Nat, T # {}
  PROVE  \E x \in T : \A y \in T : x <= y
<1> DEFINE R == OpToRel(<, Nat)
<1>1. \E x \in T : \A y \in T : <<y, x>> \notin R
  <2>1. IsWellFoundedOn(R, Nat)
    BY NatLessThanWellFounded
  <2> HIDE DEF R
  <2> QED  BY <2>1, WFMin
<1>2. \A x, y \in Nat : <<y, x>> \notin R => x <= y
  BY DEF OpToRel
<1> HIDE DEF R
<1> QED  BY <1>1, <1>2

LEMMA RemovedAt ==
  ASSUME NEW S, NEW q \in Seq(S), NEW k \in 1..Len(q)
  PROVE  /\ RemoveAt(q, k) \in Seq(S)
         /\ Len(RemoveAt(q, k)) = Len(q) - 1
         /\ \A j \in 1..(Len(q) - 1) : RemoveAt(q, k)[j] = IF j < k THEN q[j] ELSE q[j + 1]
<1>1. /\ \A j \in 1..(k - 1) : q[j] \in S
      /\ \A j \in (k + 1)..Len(q) : q[j] \in S
      /\ Len(q) \in Nat /\ k \in Int
  BY ElementOfSeq, LenProperties
<1>2. PICK a : a = SubSeq(q, 1, k - 1)
  OBVIOUS
<1>3. PICK b : b = SubSeq(q, k + 1, Len(q))
  OBVIOUS
<1>4. a \in Seq(S) /\ Len(a) = k - 1 /\ \A j \in 1..(k - 1) : a[j] = q[j]
  BY <1>1, <1>2, SubSeqProperties
<1>5. b \in Seq(S) /\ Len(b) = Len(q) - k /\ \A j \in 1..(Len(q) - k) : b[j] = q[k + j]
  BY <1>1, <1>3, SubSeqProperties
<1>6. /\ a \o b \in Seq(S) /\ Len(a \o b) = Len(q) - 1
      /\ \A j \in 1..(Len(q) - 1) : (a \o b)[j] = IF j <= k - 1 THEN a[j] ELSE b[j - (k - 1)]
  <2>1. Len(a) + Len(b) = Len(q) - 1
    BY <1>1, <1>4, <1>5
  <2>2. /\ a \o b \in Seq(S) /\ Len(a \o b) = Len(a) + Len(b)
        /\ \A j \in 1..(Len(a) + Len(b)) :
             (a \o b)[j] = IF j <= Len(a) THEN a[j] ELSE b[j - Len(a)]
    BY <1>4, <1>5, ConcatProperties
  <2> QED  BY <1>4, <2>1, <2>2
<1>7. \A j \in 1..(Len(q) - 1) : (a \o b)[j] = IF j < k THEN q[j] ELSE q[j + 1]
  BY <1>1, <1>4, <1>5, <1>6
<1> QED  BY <1>2, <1>3, <1>6, <1>7 DEF RemoveAt

\* Removing a position removes no other one.
LEMMA OthersKept ==
  ASSUME NEW S, NEW q \in Seq(S), NEW k \in 1..Len(q)
  PROVE  /\ \A j \in 1..Len(RemoveAt(q, k)) :
              \E i \in 1..Len(q) : i # k /\ RemoveAt(q, k)[j] = q[i]
         /\ \A i \in 1..Len(q) : i # k => \E j \in 1..Len(RemoveAt(q, k)) : RemoveAt(q, k)[j] = q[i]
<1>0. PICK r : r = RemoveAt(q, k)
  OBVIOUS
<1>1. /\ r \in Seq(S) /\ Len(r) = Len(q) - 1
      /\ \A j \in 1..(Len(q) - 1) : r[j] = IF j < k THEN q[j] ELSE q[j + 1]
  BY <1>0, RemovedAt
<1>2. Len(q) \in Nat
  BY LenProperties
<1>3. ASSUME NEW j \in 1..Len(r) PROVE \E i \in 1..Len(q) : i # k /\ r[j] = q[i]
  <2>1. CASE j < k
    BY <1>1, <1>2, <2>1
  <2>2. CASE j >= k
    <3>1. j + 1 \in 1..Len(q) /\ j + 1 # k /\ r[j] = q[j + 1]
      BY <1>1, <1>2, <2>2
    <3> QED  BY <3>1
  <2> QED  BY <1>1, <2>1, <2>2
<1>4. ASSUME NEW i \in 1..Len(q), i # k PROVE \E j \in 1..Len(r) : r[j] = q[i]
  <2>1. CASE i < k
    BY <1>1, <1>2, <1>4, <2>1
  <2>2. CASE i > k
    <3>1. i - 1 \in 1..Len(r) /\ r[i - 1] = q[i]
      BY <1>1, <1>2, <2>2
    <3> QED  BY <3>1
  <2> QED  BY <1>2, <1>4, <2>1, <2>2
<1> QED  BY <1>0, <1>1, <1>3, <1>4

-----------------------------------------------------------------------------
(* The lines of a set.                                                     *)

Unique(s)      == \A i, j \in 1..Len(s) : s[i].block = s[j].block => i = j
HasLine(s, x)  == \E i \in 1..Len(s) : s[i].block = x
LockedIn(s, x) == \E i \in 1..Len(s) : s[i].block = x /\ s[i].lock
DirtyIn(s, x)  == \E i \in 1..Len(s) : s[i].block = x /\ s[i].dirty

\* t is s without position k and with line l.
Refilled(s, k, l, t) ==
  /\ \A j \in 1..Len(t) : t[j] = l \/ \E i \in 1..Len(s) : i # k /\ t[j] = s[i]
  /\ \A i \in 1..Len(s) : i # k => \E j \in 1..Len(t) : t[j] = s[i]
  /\ \E j \in 1..Len(t) : t[j] = l

LEMMA AppendedLine ==
  ASSUME NEW s \in Seq(Line), NEW l \in Line, Unique(s), ~HasLine(s, l.block),
         NEW t, t = Append(s, l)
  PROVE  t \in Seq(Line) /\ Len(t) = Len(s) + 1 /\ Unique(t) /\ Refilled(s, 0, l, t)
<1>1. PICK n \in Nat : n = Len(s)
  BY LenProperties
<1>2. /\ t \in Seq(Line) /\ Len(t) = n + 1 /\ t[n + 1] = l
      /\ \A j \in 1..n : t[j] = s[j]
  BY <1>1, AppendProperties
<1>3. Unique(t)
  <2> SUFFICES ASSUME NEW i \in 1..(n + 1), NEW j \in 1..(n + 1), t[i].block = t[j].block
               PROVE  i = j
    BY <1>2 DEF Unique
  <2>1. CASE i \in 1..n /\ j \in 1..n
    BY <1>1, <1>2, <2>1 DEF Unique
  <2>2. CASE i \in 1..n /\ j = n + 1
    BY <1>1, <1>2, <2>2 DEF HasLine
  <2>3. CASE i = n + 1 /\ j \in 1..n
    BY <1>1, <1>2, <2>3 DEF HasLine
  <2> QED  BY <2>1, <2>2, <2>3
<1>4. Refilled(s, 0, l, t)
  <2>1. \A j \in 1..Len(t) : t[j] = l \/ \E i \in 1..Len(s) : i # 0 /\ t[j] = s[i]
    BY <1>1, <1>2
  <2>2. \A i \in 1..Len(s) : i # 0 => \E j \in 1..Len(t) : t[j] = s[i]
    BY <1>1, <1>2
  <2>3. n + 1 \in 1..Len(t)
    BY <1>2
  <2> QED  BY <1>2, <2>1, <2>2, <2>3 DEF Refilled
<1> QED  BY <1>1, <1>2, <1>3, <1>4

LEMMA ReplacedLine ==
  ASSUME NEW s \in Seq(Line), NEW l \in Line, Unique(s), NEW k \in 1..Len(s),
         \A i \in 1..Len(s) : i # k => s[i].block # l.block,
         NEW t, t = Append(RemoveAt(s, k), l)
  PROVE  t \in Seq(Line) /\ Len(t) = Len(s) /\ Unique(t) /\ Refilled(s, k, l, t)
<1>1. PICK r : r = RemoveAt(s, k)
  OBVIOUS
<1>2. /\ \A j \in 1..Len(r) : \E i \in 1..Len(s) : i # k /\ r[j] = s[i]
      /\ \A i \in 1..Len(s) : i # k => \E j \in 1..Len(r) : r[j] = s[i]
      /\ r \in Seq(Line) /\ Len(r) = Len(s) - 1
  BY <1>1, RemovedAt, OthersKept
<1>3. Len(s) \in Nat
  BY LenProperties
<1>4. Unique(r)
  <2>1. \A j \in 1..(Len(s) - 1) : r[j] = IF j < k THEN s[j] ELSE s[j + 1]
    BY <1>1, RemovedAt
  <2> SUFFICES ASSUME NEW i \in 1..Len(r), NEW j \in 1..Len(r), r[i].block = r[j].block
               PROVE  i = j
    BY DEF Unique
  <2> DEFINE p == IF i < k THEN i ELSE i + 1
             q == IF j < k THEN j ELSE j + 1
  <2>2. /\ p \in 1..Len(s) /\ r[i] = s[p]
        /\ q \in 1..Len(s) /\ r[j] = s[q]
    <3>1. i \in 1..(Len(s) - 1) /\ j \in 1..(Len(s) - 1)
      BY <1>2
    <3>2. p \in 1..Len(s) /\ q \in 1..Len(s)
      BY <1>3, <3>1
    <3> QED  BY <2>1, <3>1, <3>2
  <2>3. p = q
    <3> HIDE DEF p, q
    <3> QED  BY <2>2 DEF Unique
  <2> QED  BY <2>3
<1>5. ~HasLine(r, l.block)
  BY <1>2 DEF HasLine
<1>6. t \in Seq(Line) /\ Len(t) = Len(r) + 1 /\ Unique(t) /\ Refilled(r, 0, l, t)
  BY <1>1, <1>2, <1>4, <1>5, AppendedLine
<1>7. Refilled(s, k, l, t)
  <2>1. ASSUME NEW j \in 1..Len(t) PROVE t[j] = l \/ \E i \in 1..Len(s) : i # k /\ t[j] = s[i]
    <3>1. CASE t[j] = l
      BY <3>1
    <3>2. CASE t[j] # l
      <4>1. PICK h \in 1..Len(r) : t[j] = r[h]
        BY <1>6, <3>2 DEF Refilled
      <4>2. PICK i \in 1..Len(s) : i # k /\ r[h] = s[i]
        BY <1>2
      <4> QED  BY <4>1, <4>2
    <3> QED  BY <3>1, <3>2
  <2>2. ASSUME NEW i \in 1..Len(s), i # k PROVE \E j \in 1..Len(t) : t[j] = s[i]
    <3>1. PICK h \in 1..Len(r) : r[h] = s[i]
      BY <1>2, <2>2
    <3>2. h # 0
      BY <3>1
    <3> QED  BY <1>6, <3>1, <3>2 DEF Refilled
  <2> QED  BY <1>6, <2>1, <2>2 DEF Refilled
<1> QED  BY <1>2, <1>3, <1>6, <1>7

-----------------------------------------------------------------------------
(* The tree of caches.                                                     *)

LEMMA PathFacts ==
  ASSUME NEW c \in Caches
  PROVE  /\ Path[c] \in Seq(Caches) /\ Len(Path[c]) \in Nat \ {0} /\ Path[c][1] = c
         /\ Below(c) \subseteq Caches /\ c \in Below(c)
         /\ Lower[c] = NoCache <=> Len(Path[c]) = 1
         /\ Lower[c] = NoCache => Below(c) = {c}
         /\ Lower[c] # NoCache =>
              /\ Lower[c] \in Caches
              /\ Len(Path[Lower[c]]) = Len(Path[c]) - 1
              /\ \A i \in 1..(Len(Path[c]) - 1) : Path[c][i + 1] = Path[Lower[c]][i]
              /\ Below(c) = {c} \cup Below(Lower[c])
<1>1. PICK p : p = Path[c]
  OBVIOUS
<1>2. p \in Seq(Caches) /\ p # <<>> /\ p[1] = c
  BY <1>1, HierarchyAssumption
<1>3. PICK n \in Nat \ {0} : n = Len(p)
  BY <1>2, EmptySeq
<1>4. DOMAIN p = 1..n /\ \A i \in 1..n : p[i] \in Caches
  BY <1>2, <1>3, LenProperties, ElementOfSeq
<1>5. Below(c) = {p[i] : i \in 1..n}
  BY <1>1, <1>4 DEF Below, ToSet
<1>6. c \in Below(c) /\ Below(c) \subseteq Caches
  BY <1>2, <1>4, <1>5
<1>7. CASE n = 1
  <2>1. Lower[c] = NoCache
    BY <1>1, <1>3, <1>7 DEF Lower
  <2>2. \A i \in 1..n : p[i] = c
    BY <1>2, <1>7
  <2>3. Below(c) = {c}
    BY <1>5, <1>6, <2>2
  <2> QED  BY <1>1, <1>2, <1>3, <1>6, <1>7, <2>1, <2>3
<1>8. CASE n # 1
  <2>1. PICK d : d = p[2]
    OBVIOUS
  <2>2. Lower[c] = d /\ d \in Caches /\ d # NoCache /\ Path[d] = Tail(p)
    <3>1. 2 \in 1..n /\ Len(Path[c]) # 1
      <4>1. 2 \in 1..n
        BY <1>8
      <4> QED  BY <1>1, <1>3, <1>8, <4>1
    <3>2. Lower[c] = Path[c][2]
      BY <3>1 DEF Lower
    <3>3. Path[Path[c][2]] = Tail(Path[c])
      BY <3>1, HierarchyAssumption
    <3> QED  BY <1>1, <1>4, <2>1, <3>1, <3>2, <3>3, HierarchyAssumption
  <2>3. PICK q : q = Path[d]
    OBVIOUS
  <2>4. q \in Seq(Caches) /\ Len(q) = n - 1 /\ \A i \in 1..(n - 1) : q[i] = p[i + 1]
    BY <1>2, <1>3, <2>2, <2>3, HeadTailProperties
  <2>5. Below(d) = {q[i] : i \in 1..(n - 1)}
    BY <2>3, <2>4, LenProperties DEF Below, ToSet
  <2>6. Below(c) = {c} \cup Below(d)
    <3>1. \A i \in 1..n : p[i] \in {c} \cup Below(d)
      <4> TAKE i \in 1..n
      <4>1. CASE i = 1
        BY <1>2, <4>1
      <4>2. CASE i # 1
        <5>1. i - 1 \in 1..(n - 1) /\ p[i] = q[i - 1]
          BY <2>4, <4>2
        <5> QED  BY <2>5, <5>1
      <4> QED  BY <4>1, <4>2
    <3>2. \A i \in 1..(n - 1) : q[i] \in Below(c)
      BY <1>5, <2>4
    <3> QED  BY <1>5, <1>6, <2>5, <3>1, <3>2
  <2> QED  BY <1>1, <1>2, <1>3, <1>6, <1>8, <2>2, <2>3, <2>4, <2>6
<1> QED  BY <1>7, <1>8

LEMMA LastLevelIs ==
  /\ LastLevel \in Caches /\ Lower[LastLevel] = NoCache
  /\ \A c \in Caches : Lower[c] = NoCache <=> c = LastLevel
<1>1. PICK d \in Caches : \A c \in Caches : Lower[c] = NoCache <=> c = d
  BY HierarchyAssumption
<1> QED  BY <1>1 DEF LastLevel

\* Of caches with a property one has the shortest way down.
LEMMA LowestOf ==
  ASSUME NEW S, S \subseteq Caches, S # {}
  PROVE  \E c \in S : \A d \in S : Len(Path[c]) <= Len(Path[d])
<1> DEFINE T == {Len(Path[c]) : c \in S}
<1>1. T \in SUBSET Nat /\ T # {}
  <2>1. \A c \in S : Len(Path[c]) \in Nat
    BY PathFacts
  <2> QED  BY <2>1
<1>2. PICK x \in T : \A y \in T : x <= y
  BY <1>1, LeastNumber
<1> QED  BY <1>2

LEMMA BelowShorter ==
  ASSUME NEW c \in Caches, NEW d \in Below(c)
  PROVE  d = c \/ Len(Path[d]) < Len(Path[c])
<1> DEFINE Bad == {e \in Caches : \E f \in Below(e) : f # e /\ ~(Len(Path[f]) < Len(Path[e]))}
<1> SUFFICES ASSUME Bad # {} PROVE FALSE
  OBVIOUS
<1>1. PICK e \in Bad : \A f \in Bad : Len(Path[e]) <= Len(Path[f])
  BY LowestOf
<1>2. PICK f \in Below(e) : f # e /\ ~(Len(Path[f]) < Len(Path[e]))
  BY <1>1
<1>3. e \in Caches /\ f \in Caches /\ Len(Path[e]) \in Nat /\ Len(Path[f]) \in Nat
  BY <1>1, <1>2, PathFacts
<1>4. /\ Lower[e] \in Caches /\ Len(Path[Lower[e]]) = Len(Path[e]) - 1
      /\ f \in Below(Lower[e])
  BY <1>2, <1>3, PathFacts
<1>5. Lower[e] \notin Bad
  BY <1>1, <1>3, <1>4
<1>6. f = Lower[e] \/ Len(Path[f]) < Len(Path[Lower[e]])
  BY <1>4, <1>5
<1> QED  BY <1>2, <1>3, <1>4, <1>6

LEMMA BelowBelow ==
  ASSUME NEW c \in Caches, NEW d \in Below(c), NEW e \in Below(d)
  PROVE  e \in Below(c)
<1> DEFINE Bad == {h \in Caches : \E f \in Below(h) : ~(Below(f) \subseteq Below(h))}
<1> SUFFICES ASSUME Bad # {} PROVE FALSE
  OBVIOUS
<1>1. PICK h \in Bad : \A f \in Bad : Len(Path[h]) <= Len(Path[f])
  BY LowestOf
<1>2. PICK f \in Below(h) : ~(Below(f) \subseteq Below(h))
  BY <1>1
<1>3. h \in Caches /\ Len(Path[h]) \in Nat /\ f # h
  BY <1>1, <1>2, PathFacts
<1>4. /\ Lower[h] \in Caches /\ Len(Path[Lower[h]]) = Len(Path[h]) - 1
      /\ f \in Below(Lower[h]) /\ Below(Lower[h]) \subseteq Below(h)
  BY <1>2, <1>3, PathFacts
<1>5. Lower[h] \notin Bad
  BY <1>1, <1>3, <1>4
<1> QED  BY <1>2, <1>4, <1>5

\* The caches below one are on different levels.
LEMMA LevelsDiffer ==
  ASSUME NEW c \in Caches, NEW d \in Below(c), NEW e \in Below(c), Len(Path[d]) = Len(Path[e])
  PROVE  d = e
<1> DEFINE Bad == {h \in Caches : \E f, g \in Below(h) : f # g /\ Len(Path[f]) = Len(Path[g])}
<1> SUFFICES ASSUME Bad # {} PROVE FALSE
  OBVIOUS
<1>1. PICK h \in Bad : \A f \in Bad : Len(Path[h]) <= Len(Path[f])
  BY LowestOf
<1>2. PICK f, g \in Below(h) : f # g /\ Len(Path[f]) = Len(Path[g])
  BY <1>1
<1>3. h \in Caches /\ Len(Path[h]) \in Nat /\ f \in Caches /\ g \in Caches
  BY <1>1, <1>2, PathFacts
<1>4. f # h /\ g # h
  BY <1>2, <1>3, BelowShorter, PathFacts
<1>5. /\ Lower[h] \in Caches /\ Len(Path[Lower[h]]) = Len(Path[h]) - 1
      /\ f \in Below(Lower[h]) /\ g \in Below(Lower[h])
  BY <1>2, <1>3, <1>4, PathFacts
<1>6. Lower[h] \notin Bad
  BY <1>1, <1>3, <1>5
<1> QED  BY <1>2, <1>5, <1>6

\* Nothing is above a first level.
LEMMA FirstNotBelow ==
  ASSUME NEW c \in Caches, NEW d \in Below(c), d \in FirstLevel
  PROVE  d = c
<1> DEFINE Bad == {h \in Caches : \E f \in Below(h) : f # h /\ f \in FirstLevel}
<1> SUFFICES ASSUME Bad # {} PROVE FALSE
  OBVIOUS
<1>1. PICK h \in Bad : \A f \in Bad : Len(Path[h]) <= Len(Path[f])
  BY LowestOf
<1>2. PICK f \in Below(h) : f # h /\ f \in FirstLevel
  BY <1>1
<1>3. h \in Caches /\ Len(Path[h]) \in Nat
  BY <1>1, PathFacts
<1>4. /\ Lower[h] \in Caches /\ Len(Path[Lower[h]]) = Len(Path[h]) - 1
      /\ f \in Below(Lower[h]) /\ f # Lower[h]
  BY <1>2, <1>3, PathFacts DEF FirstLevel
<1>5. Lower[h] \notin Bad
  BY <1>1, <1>3, <1>4
<1> QED  BY <1>2, <1>4, <1>5
\* Only the end of a way down is the last level.
LEMMA NotLast ==
  ASSUME NEW c \in Caches, NEW i \in 1..(Len(Path[c]) - 1)
  PROVE  Path[c][i] # LastLevel
<1> DEFINE Bad == {h \in Caches : \E j \in 1..(Len(Path[h]) - 1) : Path[h][j] = LastLevel}
<1> SUFFICES ASSUME Bad # {} PROVE FALSE
  OBVIOUS
<1>1. PICK h \in Bad : \A f \in Bad : Len(Path[h]) <= Len(Path[f])
  BY LowestOf
<1>2. PICK j \in 1..(Len(Path[h]) - 1) : Path[h][j] = LastLevel
  BY <1>1
<1>3. h \in Caches /\ Len(Path[h]) \in Nat \ {0} /\ Len(Path[h]) # 1
  <2>1. h \in Caches /\ Len(Path[h]) \in Nat \ {0}
    BY <1>1, PathFacts
  <2>2. PICK m \in Nat : m = Len(Path[h])
    BY <2>1
  <2>3. j \in 1..(m - 1)
    BY <1>2, <2>2
  <2>4. m # 1
    BY <2>3
  <2> QED  BY <2>1, <2>2, <2>4
<1>4. /\ Lower[h] \in Caches /\ Len(Path[Lower[h]]) = Len(Path[h]) - 1
      /\ \A k \in 1..(Len(Path[h]) - 1) : Path[h][k + 1] = Path[Lower[h]][k]
  BY <1>3, PathFacts
<1>5. j # 1
  BY <1>3, <1>2, PathFacts, LastLevelIs
<1>6. j - 1 \in 1..(Len(Path[Lower[h]]) - 1) /\ j - 1 \in 1..(Len(Path[h]) - 1) /\ (j - 1) + 1 = j
  BY <1>3, <1>4, <1>5
<1>7. Path[Lower[h]][j - 1] = LastLevel
  BY <1>2, <1>4, <1>6
<1>8. Lower[h] \in Bad
  BY <1>4, <1>6, <1>7
<1>9. Len(Path[h]) <= Len(Path[Lower[h]])
  BY <1>1, <1>8
<1> QED  BY <1>3, <1>4, <1>9

\* tick() retries at a cache and below it, but not at the last level.
LEMMA TickedTyped ==
  ASSUME NEW c \in FirstLevel
  PROVE  Ticked(c) \in Seq(Caches \ {LastLevel}) \ {<<>>}
<1>1. c \in Caches /\ c # LastLevel
  BY HierarchyAssumption DEF FirstLevel
<1>2. PICK n \in Nat : n = Len(Path[c]) /\ n > 1
  BY <1>1, PathFacts, LastLevelIs
<1>3. PICK p : p = Path[c]
  OBVIOUS
<1>4. PICK r : r = Reverse(p)
  OBVIOUS
<1>5. /\ p \in Seq(Caches) /\ Len(p) = n
      /\ \A i \in 1..n : p[i] \in Caches
      /\ \A i \in 1..(n - 1) : p[i] # LastLevel
  BY <1>1, <1>2, <1>3, PathFacts, ElementOfSeq, NotLast
<1>6. r \in [1..n -> Caches] /\ \A i \in 1..n : r[i] = p[(n - i) + 1]
  <2>1. r = [i \in 1..n |-> p[(n - i) + 1]]
    BY <1>4, <1>5 DEF Reverse
  <2>2. \A i \in 1..n : (n - i) + 1 \in 1..n
    BY <1>2
  <2> QED  BY <1>5, <2>1, <2>2
<1>7. r \in Seq(Caches) /\ Len(r) = n /\ r # <<>>
  <2>1. r \in Seq(Caches) /\ Len(r) = n
    BY <1>6
  <2> QED  BY <1>2, <2>1, EmptySeq
<1>8. PICK t : t = Tail(r)
  OBVIOUS
<1>9. /\ t \in Seq(Caches) /\ Len(t) = n - 1
      /\ \A i \in 1..(n - 1) : t[i] = r[i + 1]
  BY <1>7, <1>8, HeadTailProperties
<1>10. \A i \in 1..(n - 1) : t[i] \in Caches \ {LastLevel}
  <2> TAKE i \in 1..(n - 1)
  <2>1. i + 1 \in 1..n /\ n - i \in 1..(n - 1) /\ (n - (i + 1)) + 1 = n - i /\ n - i \in 1..n
    BY <1>2
  <2>2. t[i] = p[n - i]
    BY <1>6, <1>9, <2>1
  <2> QED  BY <1>5, <2>1, <2>2
<1>11. t \in [1..(n - 1) -> Caches \ {LastLevel}]
  BY <1>9, <1>10, LenProperties
<1>12. t \in Seq(Caches \ {LastLevel}) /\ t # <<>>
  <2>1. n - 1 \in Nat
    BY <1>2
  <2>2. t \in Seq(Caches \ {LastLevel})
    BY <1>11, <2>1
  <2> QED  BY <1>2, <1>9, <2>2, EmptySeq
<1> QED  BY <1>3, <1>4, <1>8, <1>12 DEF Ticked

LEMMA BelowFinite ==
  ASSUME NEW c \in Caches
  PROVE  IsFiniteSet(Below(c))
<1>1. PICK n \in Nat : n = Len(Path[c])
  BY PathFacts
<1>2. PICK p : p = Path[c]
  OBVIOUS
<1>3. p \in [1..n -> Caches]
  BY <1>1, <1>2, PathFacts, LenProperties
<1>4. Below(c) = {p[i] : i \in 1..n}
  BY <1>2, <1>3 DEF Below, ToSet
<1>5. p \in Surjection(1..n, Below(c))
  BY <1>3, <1>4 DEF Surjection
<1>6. IsFiniteSet(1..n)
  BY FS_Interval
<1> QED  BY <1>5, <1>6, FS_Surjection

\* Deepest counts the caches that write back from below, each once.
LEMMA DeepestIs ==
  ASSUME NEW c \in Caches, NEW W, W \subseteq Below(c)
  PROVE  /\ Cardinality(W) \in Nat
         /\ \A i \in 1..Cardinality(W) : Deepest(W, i) \in W
         /\ \A d \in W : \E i \in 1..Cardinality(W) : Deepest(W, i) = d
<1>1. IsFiniteSet(W) /\ Cardinality(W) \in Nat
  BY BelowFinite, FS_Subset, FS_CardinalityType
<1>2. \A d \in W : d \in Caches /\ Len(Path[d]) \in Nat
  BY PathFacts
<1> DEFINE UpTo(d) == {e \in W : Len(Path[e]) <= Len(Path[d])}
           n == Cardinality(W)
           rank == [d \in W |-> Cardinality(UpTo(d))]
<1>3. \A d \in W : /\ IsFiniteSet(UpTo(d)) /\ Cardinality(UpTo(d)) \in 1..n
  <2> TAKE d \in W
  <2>1. UpTo(d) \in SUBSET W /\ d \in UpTo(d)
    BY <1>2
  <2>2. IsFiniteSet(UpTo(d)) /\ Cardinality(UpTo(d)) <= n /\ Cardinality(UpTo(d)) \in Nat
    BY <1>1, <2>1, FS_Subset, FS_CardinalityType
  <2>3. Cardinality(UpTo(d)) # 0
    BY <2>1, <2>2, FS_EmptySet
  <2> HIDE DEF UpTo
  <2> QED  BY <1>1, <2>2, <2>3
<1>4. ASSUME NEW d \in W, NEW e \in W, Len(Path[d]) < Len(Path[e])
      PROVE  Cardinality(UpTo(d)) # Cardinality(UpTo(e))
  <2>1. UpTo(d) \in SUBSET UpTo(e) /\ e \in UpTo(e) /\ e \notin UpTo(d)
    BY <1>2, <1>4
  <2>2. IsFiniteSet(UpTo(e))
    BY <1>3
  <2> HIDE DEF UpTo
  <2> QED  BY <2>1, <2>2, FS_Subset
<1>5. \A d, e \in W : rank[d] = rank[e] => d = e
  <2> SUFFICES ASSUME NEW d \in W, NEW e \in W, d # e PROVE rank[d] # rank[e]
    OBVIOUS
  <2>1. Len(Path[d]) # Len(Path[e])
    BY LevelsDiffer
  <2>2. Len(Path[d]) < Len(Path[e]) \/ Len(Path[e]) < Len(Path[d])
    BY <1>2, <2>1
  <2> QED  BY <1>4, <2>2
<1>6. rank \in [W -> 1..n]
  BY <1>3
<1>7. rank \in Surjection(W, 1..n)
  <2>1. rank \in Injection(W, 1..n)
    BY <1>5, <1>6 DEF Injection, IsInjective
  <2>2. IsFiniteSet(1..n) /\ Cardinality(1..n) = n
    <3>1. Cardinality(1..n) = IF 1 > n THEN 0 ELSE n - 1 + 1
      BY <1>1, FS_Interval
    <3> HIDE DEF n
    <3>2. n \in Nat
      BY <1>1 DEF n
    <3> QED  BY <3>1, <3>2, FS_Interval
  <2> HIDE DEF rank
  <2> QED  BY <2>1, <2>2, FS_Injection
<1>8. \A d \in W, i \in 1..n : i = rank[d] => Deepest(W, i) = d
  <2> TAKE d \in W, i \in 1..n
  <2> HAVE i = rank[d]
  <2>1. Deepest(W, i) = CHOOSE e \in W : i = rank[e]
    BY DEF Deepest
  <2> HIDE DEF rank
  <2> QED  BY <1>5, <2>1
<1>9. \A i \in 1..n : \E d \in W : rank[d] = i
  BY <1>7 DEF Surjection
<1> HIDE DEF rank, n
<1>10. n = Cardinality(W)
  BY DEF n
<1> QED  BY <1>1, <1>6, <1>8, <1>9, <1>10

-----------------------------------------------------------------------------
(* The inductive invariant.                                                *)

\* No set has two lines of a block.
SetsUnique == \A c \in Caches, i \in Indexes : Unique(sets[c][i])

\* A block is locked exactly while it has an MSHR entry.
LocksMatch == \A c \in Caches, b \in Blocks : b \in mshr[c] <=> LockedIn(SetOf(c, b), b)

SystemInv ==
  /\ TypeOK /\ \A c \in Caches : IsFiniteSet(mshr[c])
  /\ SetsUnique
  /\ LocksMatch
  /\ StoresKept
  /\ MissesAwaited

LEMMA SetFacts ==
  ASSUME SystemInv, NEW c \in Caches, NEW b \in Blocks
  PROVE  /\ IndexOf[c][b] \in Indexes /\ SetOf(c, b) = sets[c][IndexOf[c][b]]
         /\ SetOf(c, b) \in Seq(Line) /\ Unique(SetOf(c, b))
         /\ Len(SetOf(c, b)) \in Nat /\ Len(SetOf(c, b)) <= Assoc[c] /\ Assoc[c] \in Nat \ {0}
         /\ DOMAIN SetOf(c, b) = 1..Len(SetOf(c, b))
         /\ \A i \in 1..Len(SetOf(c, b)) : SetOf(c, b)[i] \in Line
         /\ Places(c, b) = {i \in 1..Len(SetOf(c, b)) : SetOf(c, b)[i].block = b}
<1>1. IndexOf[c][b] \in Indexes /\ Assoc[c] \in Nat \ {0}
  BY HierarchyAssumption
<1>2. /\ SetOf(c, b) \in Seq(Line) /\ Unique(SetOf(c, b))
      /\ Len(SetOf(c, b)) <= Assoc[c]
  BY <1>1 DEF SystemInv, TypeOK, SetsUnique, SetOf
<1>3. /\ Len(SetOf(c, b)) \in Nat /\ DOMAIN SetOf(c, b) = 1..Len(SetOf(c, b))
      /\ \A i \in 1..Len(SetOf(c, b)) : SetOf(c, b)[i] \in Line
  BY <1>2, LenProperties, ElementOfSeq
<1> QED  BY <1>1, <1>2, <1>3 DEF Places, SetOf

\* The lines after a hit, a merge or an allocation in a set s.
AfterSend(c, b, w, s, t) ==
  /\ t \in Seq(Line) /\ Len(t) <= Assoc[c] /\ Unique(t)
  /\ \A x : LockedIn(t, x) <=> LockedIn(s, x) \/ (x = b /\ Outcome(c, b) = "allocated")
  /\ \A x : DirtyIn(s, x) /\ ~(Outcome(c, b) = "allocated" /\ x \in DirtyVictims(c, b))
              => DirtyIn(t, x)
  /\ w /\ Outcome(c, b) # "stalled" => DirtyIn(t, b)

LEMMA HitSet ==
  ASSUME SystemInv, NEW c \in Caches, NEW b \in Blocks, NEW w \in BOOLEAN, IsHit(c, b)
  PROVE  AfterSend(c, b, w, SetOf(c, b), MovedToBack(c, b, w))
<1>1. PICK s : s = SetOf(c, b)
  OBVIOUS
<1>2. PICK t : t = MovedToBack(c, b, w)
  OBVIOUS
<1>3. /\ s \in Seq(Line) /\ Unique(s) /\ Len(s) <= Assoc[c]
      /\ \A i \in 1..Len(s) : s[i] \in Line
      /\ Places(c, b) = {i \in 1..Len(s) : s[i].block = b}
  BY <1>1, SetFacts
<1>4. PICK k \in Places(c, b) : ~s[k].lock
  BY <1>1 DEF IsHit
<1>5. k \in 1..Len(s) /\ s[k].block = b /\ \A j \in Places(c, b) : j = k
  BY <1>3, <1>4 DEF Unique
<1>6. (CHOOSE j \in Places(c, b) : TRUE) = k
  BY <1>4, <1>5
<1>7. PICK l : l = [block |-> b, lock |-> FALSE, dirty |-> s[k].dirty \/ w]
  OBVIOUS
<1>8. /\ l \in Line /\ l.block = b /\ ~l.lock
      /\ l.dirty <=> s[k].dirty \/ w
  BY <1>7 DEF Line
<1>9. t = Append(RemoveAt(s, k), l)
  BY <1>1, <1>2, <1>6, <1>7 DEF MovedToBack
<1>10. \A i \in 1..Len(s) : i # k => s[i].block # l.block
  BY <1>3, <1>5, <1>8
<1>11. t \in Seq(Line) /\ Len(t) = Len(s) /\ Unique(t) /\ Refilled(s, k, l, t)
  BY <1>3, <1>5, <1>8, <1>9, <1>10, ReplacedLine
<1>12. Outcome(c, b) = "hit"
  BY DEF Outcome
<1>13. ASSUME NEW x PROVE LockedIn(t, x) <=> LockedIn(s, x)
  <2>1. LockedIn(t, x) => LockedIn(s, x)
    BY <1>8, <1>11 DEF LockedIn, Refilled
  <2>2. LockedIn(s, x) => LockedIn(t, x)
    BY <1>4, <1>11 DEF LockedIn, Refilled
  <2> QED  BY <2>1, <2>2
<1>14. ASSUME NEW x, DirtyIn(s, x) PROVE DirtyIn(t, x)
  <2>1. PICK i \in 1..Len(s) : s[i].block = x /\ s[i].dirty
    BY <1>14 DEF DirtyIn
  <2>2. CASE i = k
    BY <1>5, <1>8, <1>11, <2>1, <2>2 DEF DirtyIn, Refilled
  <2>3. CASE i # k
    BY <1>11, <2>1, <2>3 DEF DirtyIn, Refilled
  <2> QED  BY <2>2, <2>3
<1>15. w => DirtyIn(t, b)
  BY <1>8, <1>11 DEF DirtyIn, Refilled
<1> QED  BY <1>1, <1>2, <1>3, <1>11, <1>12, <1>13, <1>14, <1>15 DEF AfterSend

LEMMA MergedSet ==
  ASSUME SystemInv, NEW c \in Caches, NEW b \in Blocks, NEW w \in BOOLEAN,
         Outcome(c, b) = "mshr_hit"
  PROVE  AfterSend(c, b, w, SetOf(c, b), MarkedDirty(c, b, w))
<1>1. PICK s : s = SetOf(c, b)
  OBVIOUS
<1>2. PICK t : t = MarkedDirty(c, b, w)
  OBVIOUS
<1>3. /\ s \in Seq(Line) /\ Unique(s) /\ Len(s) <= Assoc[c] /\ Len(s) \in Nat
      /\ DOMAIN s = 1..Len(s) /\ \A i \in 1..Len(s) : s[i] \in Line
      /\ Places(c, b) = {i \in 1..Len(s) : s[i].block = b}
  BY <1>1, SetFacts
<1>4. b \in mshr[c] /\ LockedIn(s, b)
  BY <1>1 DEF Outcome, SystemInv, LocksMatch
<1>5. \A i \in 1..Len(s) :
        /\ t[i] \in Line /\ t[i].block = s[i].block /\ t[i].lock = s[i].lock
        /\ t[i].dirty <=> s[i].dirty \/ (w /\ s[i].block = b)
  <2> TAKE i \in 1..Len(s)
  <2>1. t[i] = [s[i] EXCEPT !.dirty = @ \/ (w /\ i \in Places(c, b))]
    BY <1>1, <1>2, <1>3 DEF MarkedDirty
  <2>2. PICK d \in BOOLEAN : d = (s[i].dirty \/ (w /\ i \in Places(c, b)))
    OBVIOUS
  <2>3. t[i] = [s[i] EXCEPT !.dirty = d]
    BY <2>1, <2>2
  <2>4. i \in Places(c, b) <=> s[i].block = b
    BY <1>3
  <2> QED  BY <1>3, <2>2, <2>3, <2>4 DEF Line
<1>6. t \in [1..Len(s) -> Line]
  BY <1>1, <1>2, <1>3, <1>5 DEF MarkedDirty
<1>7. t \in Seq(Line) /\ Len(t) = Len(s)
  BY <1>3, <1>6
<1>8. Unique(t)
  BY <1>3, <1>5, <1>7 DEF Unique
<1>9. \A x : LockedIn(t, x) <=> LockedIn(s, x)
  BY <1>5, <1>7 DEF LockedIn
<1>10. \A x : DirtyIn(s, x) => DirtyIn(t, x)
  BY <1>5, <1>7 DEF DirtyIn
<1>11. w => DirtyIn(t, b)
  BY <1>4, <1>5, <1>7 DEF LockedIn, DirtyIn
<1> QED  BY <1>1, <1>2, <1>3, <1>7, <1>8, <1>9, <1>10, <1>11 DEF AfterSend

\* An allocation takes the place of the oldest unlocked line, if the set is full.
LEMMA VictimOf ==
  ASSUME SystemInv, NEW c \in Caches, NEW b \in Blocks, Outcome(c, b) = "allocated"
  PROVE  \/ Evicted(c, b) = {} /\ Len(SetOf(c, b)) < Assoc[c]
         \/ \E k \in 1..Len(SetOf(c, b)) : Evicted(c, b) = {k} /\ ~SetOf(c, b)[k].lock
<1>1. PICK s : s = SetOf(c, b)
  OBVIOUS
<1>2. Len(s) \in Nat /\ DOMAIN s = 1..Len(s) /\ Assoc[c] \in Nat
  BY <1>1, SetFacts
<1>3. CASE ~SetFull(c, b)
  BY <1>1, <1>2, <1>3 DEF Evicted, SetFull
<1>4. CASE SetFull(c, b)
  <2> DEFINE free == {i \in DOMAIN s : ~s[i].lock}
  <2>1. free # {}
    BY <1>1, <1>4 DEF Outcome, AllLocked
  <2>2. free \in SUBSET Nat
    BY <1>2
  <2>3. PICK k \in free : \A j \in free : k <= j
    BY <2>1, <2>2, LeastNumber
  <2>4. Evicted(c, b) = {i \in free : \A j \in free : i <= j}
    BY <1>1, <1>4 DEF Evicted
  <2>5. Evicted(c, b) = {k}
    BY <2>2, <2>3, <2>4
  <2> QED  BY <1>1, <1>2, <2>3, <2>5
<1> QED  BY <1>3, <1>4

LEMMA AllocatedSet ==
  ASSUME SystemInv, NEW c \in Caches, NEW b \in Blocks, NEW w \in BOOLEAN,
         Outcome(c, b) = "allocated"
  PROVE  AfterSend(c, b, w, SetOf(c, b), NewLines(c, b, w))
<1>1. PICK s : s = SetOf(c, b)
  OBVIOUS
<1>2. PICK t : t = NewLines(c, b, w)
  OBVIOUS
<1>3. /\ s \in Seq(Line) /\ Unique(s) /\ Len(s) <= Assoc[c]
      /\ Len(s) \in Nat /\ Assoc[c] \in Nat /\ DOMAIN s = 1..Len(s)
      /\ \A i \in 1..Len(s) : s[i] \in Line
      /\ Places(c, b) = {i \in 1..Len(s) : s[i].block = b}
  BY <1>1, SetFacts
<1>4. ~HasLine(s, b)
  <2>1. ~IsHit(c, b) /\ b \notin mshr[c]
    BY DEF Outcome
  <2>2. ~LockedIn(s, b)
    BY <1>1, <2>1 DEF SystemInv, LocksMatch
  <2> QED  BY <1>1, <1>3, <2>1, <2>2 DEF HasLine, LockedIn, IsHit
<1>5. PICK l : l = [block |-> b, lock |-> TRUE, dirty |-> w]
  OBVIOUS
<1>6. l \in Line /\ l.block = b /\ l.lock /\ (l.dirty <=> w)
  BY <1>5 DEF Line
<1>7. PICK k \in 0..Len(s) :
        /\ t \in Seq(Line) /\ Len(t) <= Assoc[c] /\ Unique(t) /\ Refilled(s, k, l, t)
        /\ k # 0 => ~s[k].lock /\ (s[k].dirty => s[k].block \in DirtyVictims(c, b))
  <2>1. CASE Evicted(c, b) = {} /\ Len(s) < Assoc[c]
    <3>1. t = Append(s, l)
      BY <1>1, <1>2, <1>5, <2>1 DEF NewLines
    <3>2. t \in Seq(Line) /\ Len(t) = Len(s) + 1 /\ Unique(t) /\ Refilled(s, 0, l, t)
      BY <1>3, <1>4, <1>6, <3>1, AppendedLine
    <3> QED  BY <1>3, <2>1, <3>2
  <2>2. ASSUME NEW k \in 1..Len(s), Evicted(c, b) = {k}, ~s[k].lock
        PROVE  /\ t \in Seq(Line) /\ Len(t) <= Assoc[c] /\ Unique(t) /\ Refilled(s, k, l, t)
               /\ ~s[k].lock /\ (s[k].dirty => s[k].block \in DirtyVictims(c, b))
    <3>1. (CHOOSE i \in Evicted(c, b) : TRUE) = k
      BY <2>2
    <3>2. t = Append(RemoveAt(s, k), l)
      BY <1>1, <1>2, <1>5, <2>2, <3>1 DEF NewLines
    <3>3. \A i \in 1..Len(s) : i # k => s[i].block # l.block
      BY <1>4, <1>6 DEF HasLine
    <3>4. t \in Seq(Line) /\ Len(t) = Len(s) /\ Unique(t) /\ Refilled(s, k, l, t)
      BY <1>3, <1>6, <3>2, <3>3, ReplacedLine
    <3>5. s[k].dirty => s[k].block \in DirtyVictims(c, b)
      BY <1>1, <2>2 DEF DirtyVictims
    <3> QED  BY <1>3, <2>2, <3>4, <3>5
  <2>3. \A k \in 1..Len(s) : k \in 0..Len(s) /\ k # 0
    BY <1>3
  <2>4. \/ Evicted(c, b) = {} /\ Len(s) < Assoc[c]
        \/ \E k \in 1..Len(s) : Evicted(c, b) = {k} /\ ~s[k].lock
    BY <1>1, VictimOf
  <2> QED  BY <2>1, <2>2, <2>3, <2>4
<1>8. ASSUME NEW x PROVE LockedIn(t, x) <=> LockedIn(s, x) \/ x = b
  <2>1. LockedIn(t, x) => LockedIn(s, x) \/ x = b
    BY <1>6, <1>7 DEF LockedIn, Refilled
  <2>2. LockedIn(s, x) => LockedIn(t, x)
    BY <1>3, <1>7 DEF LockedIn, Refilled
  <2>3. LockedIn(t, b)
    BY <1>6, <1>7 DEF LockedIn, Refilled
  <2> QED  BY <2>1, <2>2, <2>3
<1>9. ASSUME NEW x, DirtyIn(s, x), x \notin DirtyVictims(c, b) PROVE DirtyIn(t, x)
  <2>1. PICK i \in 1..Len(s) : s[i].block = x /\ s[i].dirty
    BY <1>9 DEF DirtyIn
  <2>2. i # k
    BY <1>3, <1>7, <1>9, <2>1
  <2> QED  BY <1>7, <2>1, <2>2 DEF DirtyIn, Refilled
<1>10. w => DirtyIn(t, b)
  BY <1>6, <1>7 DEF DirtyIn, Refilled
<1> QED  BY <1>1, <1>2, <1>7, <1>8, <1>9, <1>10 DEF AfterSend

\* What one cache of the descent makes of the block.
LEMMA SendSet ==
  ASSUME SystemInv, NEW c \in Caches, NEW b \in Blocks, NEW w \in BOOLEAN
  PROVE  AfterSend(c, b, w, SetOf(c, b), SetAfterSend(c, b, w))
<1>1. CASE Outcome(c, b) = "hit"
  <2>1. IsHit(c, b)
    BY <1>1 DEF Outcome
  <2> QED  BY <1>1, <2>1, HitSet DEF SetAfterSend
<1>2. CASE Outcome(c, b) = "mshr_hit"
  BY <1>2, MergedSet DEF SetAfterSend
<1>3. CASE Outcome(c, b) = "allocated"
  BY <1>3, AllocatedSet DEF SetAfterSend
<1>4. CASE Outcome(c, b) = "stalled"
  BY <1>4, SetFacts DEF SetAfterSend, AfterSend
<1> QED  BY <1>1, <1>2, <1>3, <1>4 DEF Outcome

-----------------------------------------------------------------------------
(* Cache::send.                                                            *)

\* The descent goes through caches that allocate, from c on.
LEMMA ReachedFacts ==
  ASSUME NEW c \in Caches, NEW b
  PROVE  /\ Reached(c, b) \subseteq Below(c)
         /\ \A d \in Reached(c, b) : Outcome(d, b) = "allocated"
         /\ Outcome(c, b) = "allocated" => c \in Reached(c, b)
         /\ Outcome(c, b) # "allocated" => Reached(c, b) = {}
<1> DEFINE R == Reached(c, b)
           A == {d \in Below(c) : Outcome(d, b) = "allocated"}
<1>1. R = {d \in A : \A e \in Below(c) \ A : e \in Below(d)}
  BY DEF Reached
<1>2. c \in Below(c) /\ Below(c) \subseteq Caches
  BY PathFacts
<1>3. Outcome(c, b) = "allocated" => c \in R
  BY <1>1, <1>2
<1>4. ASSUME Outcome(c, b) # "allocated", NEW d \in R
      PROVE  FALSE
  <2>1. d \in Below(c) /\ c \in Below(d) /\ d # c /\ d \in Caches
    BY <1>1, <1>2, <1>4
  <2>2. Len(Path[c]) < Len(Path[d]) /\ Len(Path[d]) < Len(Path[c])
    BY <2>1, BelowShorter
  <2>3. Len(Path[c]) \in Nat /\ Len(Path[d]) \in Nat
    BY <2>1, PathFacts
  <2> QED  BY <2>2, <2>3
<1> QED  BY <1>1, <1>3, <1>4

\* Below a cache that allocates the descent goes on or ends.
LEMMA StopFacts ==
  ASSUME NEW c \in Caches, NEW b
  PROVE  LET R == Reached(c, b)
             stop == StopsAt(c, R)
         IN /\ stop \subseteq Below(c)
            /\ \A d \in stop : d \notin R /\ Outcome(d, b) # "allocated"
            /\ Outcome(c, b) # "allocated" => stop = {c}
            /\ \A d \in R : Lower[d] # NoCache => Lower[d] \in R \cup stop
<1> DEFINE R == Reached(c, b)
           stop == StopsAt(c, R)
           A == {d \in Below(c) : Outcome(d, b) = "allocated"}
<1>1. R = {d \in A : \A e \in Below(c) \ A : e \in Below(d)}
  BY DEF Reached
<1>2. c \in Below(c) /\ Below(c) \subseteq Caches
  BY PathFacts
<1>3. /\ R \subseteq A /\ (Outcome(c, b) = "allocated" => c \in R)
      /\ (Outcome(c, b) # "allocated" => R = {})
  BY ReachedFacts
<1>4. stop = {d \in Below(c) \ R : d = c \/ \E e \in R : Lower[e] = d}
  BY DEF StopsAt
<1>5. ASSUME NEW d \in stop PROVE Outcome(d, b) # "allocated"
  <2> SUFFICES ASSUME Outcome(d, b) = "allocated" PROVE FALSE
    OBVIOUS
  <2>1. d \in Below(c) /\ d \notin R
    BY <1>4
  <2>2. PICK e \in R : Lower[e] = d
    BY <1>3, <1>4
  <2>3. e \in Caches /\ d \in Caches /\ d # NoCache
    BY <1>1, <1>2, <2>1, <2>2, HierarchyAssumption
  <2>4. Below(e) = {e} \cup Below(d)
    BY <2>2, <2>3, PathFacts
  <2>5. \A f \in Below(c) \ A : f \in Below(d)
    BY <1>1, <2>4
  <2> QED  BY <1>1, <2>1, <2>5
<1>6. ASSUME NEW d \in R, Lower[d] # NoCache PROVE Lower[d] \in R \cup stop
  <2>1. d \in Below(c) /\ d \in Caches
    BY <1>1, <1>2
  <2>2. Lower[d] \in Caches /\ Lower[d] \in Below(d)
    BY <1>6, <2>1, PathFacts
  <2>3. Lower[d] \in Below(c)
    BY <2>1, <2>2, BelowBelow
  <2> QED  BY <1>4, <2>3
<1> HIDE DEF R, stop, A
<1>7. Outcome(c, b) # "allocated" => stop = {c}
  BY <1>2, <1>3, <1>4
<1> QED  BY <1>3, <1>4, <1>5, <1>6, <1>7 DEF R, stop

Requests == [type : Types, block : Blocks, left : Nat]

\* The last level asks for the block, and every dirty victim goes to memory.
LEMMA ToMemoryIs ==
  ASSUME SystemInv, NEW c \in Caches, NEW b \in Blocks,
         NEW q, q = ToMemory(b, Reached(c, b))
  PROVE  /\ q \in Seq(Requests)
         /\ LastLevel \in Reached(c, b) =>
              \E i \in 1..Len(q) : q[i].type = "READ" /\ q[i].block = b
         /\ \A d \in Reached(c, b) : \A v \in DirtyVictims(d, b) :
              \E i \in 1..Len(q) : q[i].type = "WRITE" /\ q[i].block = v
<1> DEFINE R == Reached(c, b)
           W == WritersBack(R, b)
           n == Cardinality(W)
<1>1. R \subseteq Below(c) /\ Below(c) \subseteq Caches /\ \A d \in R : Outcome(d, b) = "allocated"
  BY ReachedFacts, PathFacts
<1>2. W \subseteq R /\ \A d \in W : DirtyVictims(d, b) # {}
  BY DEF WritersBack
<1>3. /\ n \in Nat /\ \A i \in 1..n : Deepest(W, i) \in W
      /\ \A d \in W : \E i \in 1..n : Deepest(W, i) = d
  BY <1>1, <1>2, DeepestIs
<1>4. ASSUME NEW d \in R, NEW v \in DirtyVictims(d, b)
      PROVE  v \in Blocks /\ \A u \in DirtyVictims(d, b) : u = v
  <2>1. d \in Caches /\ Outcome(d, b) = "allocated"
    BY <1>1
  <2>2. PICK s : s = SetOf(d, b)
    OBVIOUS
  <2>3. DirtyVictims(d, b) = {s[i].block : i \in {j \in Evicted(d, b) : s[j].dirty}}
    BY <2>2 DEF DirtyVictims
  <2>4. PICK k \in 1..Len(s) : Evicted(d, b) = {k}
    BY <1>4, <2>1, <2>2, <2>3, VictimOf
  <2>5. s[k] \in Line
    BY <2>1, <2>2, SetFacts
  <2> QED  BY <1>4, <2>3, <2>4, <2>5 DEF Line
<1>5. \A d \in Caches : Latency[d] \in Nat
  BY HierarchyAssumption
<1>6. ASSUME NEW d \in R, NEW v \in DirtyVictims(d, b)
      PROVE  WriteBack(d, b) \in Requests /\ WriteBack(d, b).type = "WRITE" /\ WriteBack(d, b).block = v
  <2>1. (CHOOSE u \in DirtyVictims(d, b) : TRUE) = v
    BY <1>4, <1>6
  <2>2. WriteBack(d, b) = [type |-> "WRITE", block |-> v, left |-> Latency[d]]
    BY <2>1 DEF WriteBack, Request
  <2>3. v \in Blocks /\ Latency[d] \in Nat
    BY <1>1, <1>4, <1>5, <1>6
  <2> QED  BY <2>2, <2>3 DEF Requests, Types
<1> DEFINE back == [i \in 1..n |-> WriteBack(Deepest(W, i), b)]
           ask  == IF LastLevel \in R THEN <<Request("READ", b, LastLevel)>> ELSE <<>>
<1>7. back \in Seq(Requests) /\ Len(back) = n
  <2>1. \A i \in 1..n : WriteBack(Deepest(W, i), b) \in Requests
    BY <1>2, <1>3, <1>6
  <2>2. back \in [1..n -> Requests]
    BY <2>1
  <2> HIDE DEF back, n
  <2> QED  BY <1>3, <2>2
<1>8. /\ ask \in Seq(Requests)
      /\ LastLevel \in R => ask # <<>> /\ Len(ask) = 1 /\ ask[1].type = "READ" /\ ask[1].block = b
  <2>1. Request("READ", b, LastLevel) = [type |-> "READ", block |-> b, left |-> Latency[LastLevel]]
    BY DEF Request
  <2>2. Latency[LastLevel] \in Nat
    BY <1>5, LastLevelIs
  <2>3. PICK r : r = Request("READ", b, LastLevel)
    OBVIOUS
  <2>4. r \in Requests /\ r.type = "READ" /\ r.block = b
    BY <2>1, <2>2, <2>3 DEF Requests, Types
  <2>5. CASE LastLevel \in R
    <3>1. ask = <<r>>
      BY <2>3, <2>5
    <3> HIDE DEF ask
    <3> QED  BY <2>4, <3>1
  <2>6. CASE LastLevel \notin R
    <3>1. ask = <<>>
      BY <2>6
    <3> HIDE DEF ask
    <3> QED  BY <2>6, <3>1
  <2> QED  BY <2>5, <2>6
<1>9. q = ask \o back
  BY DEF ToMemory
<1>10. PICK x : x = ask
  OBVIOUS
<1>11. PICK y : y = back
  OBVIOUS
<1>12. /\ q \in Seq(Requests) /\ Len(q) = Len(x) + Len(y) /\ Len(x) \in Nat /\ Len(y) = n
       /\ \A i \in 1..(Len(x) + Len(y)) : q[i] = IF i <= Len(x) THEN x[i] ELSE y[i - Len(x)]
  <2>1. x \in Seq(Requests) /\ y \in Seq(Requests) /\ Len(y) = n /\ q = x \o y
    BY <1>7, <1>8, <1>9, <1>10, <1>11
  <2> QED  BY <2>1, ConcatProperties, LenProperties
<1>13. LastLevel \in R => \E i \in 1..Len(q) : q[i].type = "READ" /\ q[i].block = b
  <2> HAVE LastLevel \in R
  <2>1. Len(x) = 1 /\ x[1].type = "READ" /\ x[1].block = b
    BY <1>8, <1>10
  <2>2. 1 \in 1..(Len(x) + Len(y)) /\ 1 <= Len(x)
    BY <1>3, <1>12, <2>1
  <2> QED  BY <1>12, <2>1, <2>2
<1>14. ASSUME NEW d \in R, NEW v \in DirtyVictims(d, b)
       PROVE  \E i \in 1..Len(q) : q[i].type = "WRITE" /\ q[i].block = v
  <2>1. d \in W
    BY <1>14 DEF WritersBack
  <2>2. PICK j \in 1..n : Deepest(W, j) = d
    BY <1>3, <2>1
  <2>3. y[j] = WriteBack(d, b)
    BY <1>11, <2>2
  <2>4. PICK i : i = Len(x) + j
    OBVIOUS
  <2>5. i \in 1..(Len(x) + Len(y)) /\ ~(i <= Len(x)) /\ i - Len(x) = j
    BY <1>3, <1>12, <2>4
  <2>6. q[i] = WriteBack(d, b)
    BY <1>12, <2>3, <2>5
  <2> QED  BY <1>6, <1>12, <1>14, <2>5, <2>6
<1> QED  BY <1>12, <1>13, <1>14

\* What a request makes of the sets: t is the set of x afterwards.
LEMMA SendLines ==
  ASSUME SystemInv, NEW c \in Caches, NEW b \in Blocks, NEW w \in BOOLEAN, NEW touched,
         sets' = SetsAfterSend(c, b, w, touched), NEW d \in Caches, NEW i \in Indexes
  PROVE  /\ sets' \in [Caches -> [Indexes -> Seq(Line)]]
         /\ d \in touched /\ i = IndexOf[d][b] =>
              AfterSend(d, b, w /\ d = c, SetOf(d, b), sets'[d][i])
         /\ ~(d \in touched /\ i = IndexOf[d][b]) => sets'[d][i] = sets[d][i]
<1>1. \A e \in Caches : AfterSend(e, b, w /\ e = c, SetOf(e, b), SetAfterSend(e, b, w /\ e = c))
  BY SendSet
<1>2. sets \in [Caches -> [Indexes -> Seq(Line)]] /\ \A e \in Caches : IndexOf[e][b] \in Indexes
  <2>1. sets \in [Caches -> [Indexes -> Seq(Line)]]
    BY DEF SystemInv, TypeOK
  <2>2. \A e \in Caches : IndexOf[e][b] \in Indexes
    BY HierarchyAssumption
  <2> QED  BY <2>1, <2>2
<1>3. \A e \in Caches : SetAfterSend(e, b, w /\ e = c) \in Seq(Line)
  BY <1>1 DEF AfterSend
<1>4. sets' = [e \in Caches |->
                 IF e \in touched
                 THEN [sets[e] EXCEPT ![IndexOf[e][b]] = SetAfterSend(e, b, w /\ e = c)]
                 ELSE sets[e]]
  BY DEF SetsAfterSend
<1>5. \A e \in Caches : sets'[e] \in [Indexes -> Seq(Line)]
  BY <1>2, <1>3, <1>4
<1>6. d \in touched /\ i = IndexOf[d][b] => sets'[d][i] = SetAfterSend(d, b, w /\ d = c)
  BY <1>2, <1>4
<1>7. ~(d \in touched /\ i = IndexOf[d][b]) => sets'[d][i] = sets[d][i]
  BY <1>2, <1>4
<1> QED  BY <1>1, <1>4, <1>5, <1>6, <1>7

LEMMA SendKeepsSets ==
  ASSUME SystemInv, NEW c \in Caches, NEW b \in Blocks, NEW w \in BOOLEAN, NEW retries,
         Send(c, b, w, retries)
  PROVE  /\ sets' \in [Caches -> [Indexes -> Seq(Line)]]
         /\ \A d \in Caches, i \in Indexes : Len(sets'[d][i]) <= Assoc[d]
         /\ SetsUnique'
<1> DEFINE touched == Reached(c, b) \cup StopsAt(c, Reached(c, b))
<1>1. sets' = SetsAfterSend(c, b, w, touched)
  BY DEF Send
<1>2. \A d \in Caches, i \in Indexes :
        /\ sets' \in [Caches -> [Indexes -> Seq(Line)]]
        /\ d \in touched /\ i = IndexOf[d][b] =>
             AfterSend(d, b, w /\ d = c, SetOf(d, b), sets'[d][i])
        /\ ~(d \in touched /\ i = IndexOf[d][b]) => sets'[d][i] = sets[d][i]
  <2> HIDE DEF touched
  <2> QED  BY <1>1, SendLines
<1>3. \A d \in Caches : IndexOf[d][b] \in Indexes
  BY SetFacts
<1>4. \A d \in Caches, i \in Indexes : Len(sets[d][i]) <= Assoc[d] /\ Unique(sets[d][i])
  BY DEF SystemInv, TypeOK, SetsUnique
<1> HIDE DEF touched
<1>5. \A d \in Caches, i \in Indexes : Len(sets'[d][i]) <= Assoc[d] /\ Unique(sets'[d][i])
  BY <1>2, <1>4 DEF AfterSend
<1>6. sets' \in [Caches -> [Indexes -> Seq(Line)]]
  BY <1>2, <1>3
<1> QED  BY <1>5, <1>6 DEF SetsUnique

\* An MSHR entry comes with its locked line, and there is room for it.
LEMMA SendKeepsLocks ==
  ASSUME SystemInv, NEW c \in Caches, NEW b \in Blocks, NEW w \in BOOLEAN, NEW retries,
         Send(c, b, w, retries)
  PROVE  /\ mshr' \in [Caches -> SUBSET Blocks]
         /\ \A d \in Caches : IsFiniteSet(mshr'[d]) /\ Cardinality(mshr'[d]) <= MshrNum[d]
         /\ LocksMatch'
<1> DEFINE R == Reached(c, b)
           stop == StopsAt(c, R)
           touched == R \cup stop
<1>1. /\ R \subseteq Caches
      /\ \A d \in R : Outcome(d, b) = "allocated"
      /\ \A d \in stop : d \notin R /\ Outcome(d, b) # "allocated"
  BY ReachedFacts, StopFacts, PathFacts
<1>2. /\ mshr \in [Caches -> SUBSET Blocks]
      /\ \A d \in Caches : IsFiniteSet(mshr[d]) /\ Cardinality(mshr[d]) <= MshrNum[d]
  BY DEF SystemInv, TypeOK
<1>3. mshr' = [d \in Caches |-> IF d \in R THEN mshr[d] \cup {b} ELSE mshr[d]]
  BY DEF Send
<1>4. mshr' \in [Caches -> SUBSET Blocks]
  BY <1>2, <1>3
<1>5. ASSUME NEW d \in Caches
      PROVE  IsFiniteSet(mshr'[d]) /\ Cardinality(mshr'[d]) <= MshrNum[d]
  <2>1. CASE d \in R
    <3>1. b \notin mshr[d] /\ Cardinality(mshr[d]) # MshrNum[d]
      BY <1>1, <2>1 DEF Outcome, MshrFull
    <3>2. Cardinality(mshr[d]) \in Nat /\ MshrNum[d] \in Nat
      BY <1>2, FS_CardinalityType, HierarchyAssumption
    <3>3. Cardinality(mshr[d] \cup {b}) = Cardinality(mshr[d]) + 1 /\ IsFiniteSet(mshr[d] \cup {b})
      BY <1>2, <3>1, FS_AddElement
    <3>4. mshr'[d] = mshr[d] \cup {b}
      BY <1>3, <2>1
    <3> QED  BY <1>2, <3>1, <3>2, <3>3, <3>4
  <2>2. CASE d \notin R
    BY <1>2, <1>3, <2>2
  <2> QED  BY <2>1, <2>2
<1>6. ASSUME NEW d \in Caches, NEW x \in Blocks
      PROVE  x \in mshr'[d] <=> LockedIn(sets'[d][IndexOf[d][x]], x)
  <2>1. IndexOf[d][x] \in Indexes /\ IndexOf[d][b] \in Indexes
    BY SetFacts
  <2>2. x \in mshr[d] <=> LockedIn(sets[d][IndexOf[d][x]], x)
    BY DEF SystemInv, LocksMatch, SetOf
  <2>3. sets' = SetsAfterSend(c, b, w, touched)
    BY DEF Send
  <2>4. /\ d \in touched /\ IndexOf[d][x] = IndexOf[d][b] =>
             AfterSend(d, b, w /\ d = c, SetOf(d, b), sets'[d][IndexOf[d][x]])
        /\ ~(d \in touched /\ IndexOf[d][x] = IndexOf[d][b]) =>
             sets'[d][IndexOf[d][x]] = sets[d][IndexOf[d][x]]
    <3> HIDE DEF touched
    <3> QED  BY <2>1, <2>3, SendLines
  <2>5. CASE d \in touched /\ IndexOf[d][x] = IndexOf[d][b]
    <3>1. SetOf(d, b) = sets[d][IndexOf[d][x]]
      BY <2>5 DEF SetOf
    <3>2. LockedIn(sets'[d][IndexOf[d][x]], x)
            <=> LockedIn(sets[d][IndexOf[d][x]], x) \/ (x = b /\ Outcome(d, b) = "allocated")
      BY <2>4, <2>5, <3>1 DEF AfterSend
    <3>3. x \in mshr'[d] <=> x \in mshr[d] \/ (x = b /\ d \in R)
      BY <1>3
    <3>4. d \in R <=> Outcome(d, b) = "allocated"
      BY <1>1, <2>5
    <3> QED  BY <2>2, <3>2, <3>3, <3>4
  <2>6. CASE ~(d \in touched /\ IndexOf[d][x] = IndexOf[d][b])
    <3>1. x \in mshr'[d] <=> x \in mshr[d]
      BY <1>3, <2>6
    <3> QED  BY <2>2, <2>4, <2>6, <3>1
  <2> QED  BY <2>5, <2>6
<1> QED  BY <1>4, <1>5, <1>6 DEF LocksMatch, SetOf

\* The lists keep their types.
LEMMA SendKeepsLists ==
  ASSUME SystemInv, NEW c \in Caches, NEW b \in Blocks, NEW w \in BOOLEAN,
         NEW retries \in [Caches -> Seq(Blocks)], Send(c, b, w, retries)
  PROVE  /\ retryList' \in [Caches -> Seq(Blocks)]
         /\ waitList' \in Seq(Requests)
         /\ hitList' \in Seq([block : Blocks, left : Nat])
<1> DEFINE R == Reached(c, b)
           stop == StopsAt(c, R)
           H == [block : Blocks, left : Nat]
<1>1. retryList' \in [Caches -> Seq(Blocks)]
  <2>1. retryList' = [d \in Caches |-> IF d \in RefusedBelow(R, stop, b)
                                       THEN Append(retries[d], b) ELSE retries[d]]
    BY DEF Send
  <2>2. \A d \in Caches : Append(retries[d], b) \in Seq(Blocks)
    BY AppendProperties
  <2> QED  BY <2>1, <2>2
<1>2. waitList' \in Seq(Requests)
  <2>1. PICK q : q = ToMemory(b, R)
    OBVIOUS
  <2>2. q \in Seq(Requests) /\ waitList' = waitList \o q
    BY <2>1, ToMemoryIs DEF Send
  <2>3. waitList \in Seq(Requests)
    BY DEF SystemInv, TypeOK, Requests
  <2> QED  BY <2>2, <2>3, ConcatProperties
<1>3. hitList' \in Seq(H)
  <2>1. HitsAt(stop, b) \in Seq(H)
    <3> DEFINE hits == {d \in stop : Outcome(d, b) = "hit"}
    <3>1. CASE hits = {}
      BY <3>1 DEF HitsAt
    <3>2. CASE hits # {}
      <4>1. PICK d : d = (CHOOSE e \in hits : TRUE)
        OBVIOUS
      <4>2. d \in Caches
        BY <3>2, <4>1, StopFacts, PathFacts
      <4>3. HitsAt(stop, b) = <<[block |-> b, left |-> Latency[d]]>>
        BY <3>2, <4>1 DEF HitsAt
      <4>4. Latency[d] \in Nat
        BY <4>2, HierarchyAssumption
      <4> QED  BY <4>3, <4>4
    <3> QED  BY <3>1, <3>2
  <2>2. hitList' = hitList \o HitsAt(stop, b) /\ hitList \in Seq(H)
    BY DEF Send, SystemInv, TypeOK
  <2> QED  BY <2>1, <2>2, ConcatProperties
<1> QED  BY <1>1, <1>2, <1>3

LEMMA StoresDirty ==
  ASSUME SystemInv, NEW c \in FirstLevel, NEW x \in unsaved[c]
  PROVE  x \in Blocks /\ DirtyIn(SetOf(c, x), x)
<1>1. c \in Caches /\ x \in Blocks
  BY DEF FirstLevel, SystemInv, TypeOK
<1>2. \E i \in Places(c, x) : SetOf(c, x)[i].dirty
  BY DEF SystemInv, StoresKept
<1> QED  BY <1>1, <1>2, SetFacts DEF DirtyIn

\* A dirty line leaves its cache with its write-back, and nobody but its
\* cache's own requests touches a first level.
LEMMA SendKeepsStores ==
  ASSUME SystemInv, NEW c \in Caches, NEW b \in Blocks, NEW w \in BOOLEAN, NEW retries,
         Send(c, b, w, retries)
  PROVE  unsaved' \in [FirstLevel -> SUBSET Blocks] /\ StoresKept'
<1> DEFINE R == Reached(c, b)
           stop == StopsAt(c, R)
           touched == R \cup stop
           Saved(d, q) == {q[i].block : i \in {j \in DOMAIN q :
                             q[j].type = "WRITE" /\ q[j].block \in EvictedBlocks(d, b)}}
<1>1. PICK q : q = ToMemory(b, R)
  OBVIOUS
<1>2. unsaved' = [d \in FirstLevel |->
                    IF d # c THEN unsaved[d]
                    ELSE (unsaved[d] \ Saved(d, q)) \cup (IF w /\ Handled(d, b) THEN {b} ELSE {})]
  BY <1>1 DEF Send, UnsavedAfterSend
<1>3. unsaved \in [FirstLevel -> SUBSET Blocks] /\ FirstLevel \subseteq Caches
  BY DEF SystemInv, TypeOK, FirstLevel
<1>4. unsaved' \in [FirstLevel -> SUBSET Blocks]
  <2> HIDE DEF Saved
  <2> QED  BY <1>2, <1>3
<1>5. sets' = SetsAfterSend(c, b, w, touched)
  BY DEF Send
<1>6. touched \subseteq Below(c) /\ c \in touched
      /\ (Outcome(c, b) = "allocated" => c \in R)
  BY ReachedFacts, StopFacts
<1>7. q \in Seq(Requests)
      /\ \A d \in R : \A v \in DirtyVictims(d, b) :
           \E i \in 1..Len(q) : q[i].type = "WRITE" /\ q[i].block = v
  BY <1>1, ToMemoryIs
<1>8. ASSUME NEW d \in FirstLevel, NEW x \in unsaved'[d]
      PROVE  DirtyIn(sets'[d][IndexOf[d][x]], x)
  <2>1. d \in Caches /\ x \in Blocks
    BY <1>3, <1>4
  <2>2. IndexOf[d][x] \in Indexes /\ IndexOf[d][b] \in Indexes
    BY <2>1, SetFacts
  <2>3. /\ d \in touched /\ IndexOf[d][x] = IndexOf[d][b] =>
             AfterSend(d, b, w /\ d = c, SetOf(d, b), sets'[d][IndexOf[d][x]])
        /\ ~(d \in touched /\ IndexOf[d][x] = IndexOf[d][b]) =>
             sets'[d][IndexOf[d][x]] = sets[d][IndexOf[d][x]]
    <3> HIDE DEF touched
    <3> QED  BY <1>5, <2>1, <2>2, SendLines
  <2>4. CASE d # c
    <3>1. d \notin touched
      BY <1>6, <2>4, FirstNotBelow
    <3>2. x \in unsaved[d]
      BY <1>2, <2>4
    <3>3. DirtyIn(SetOf(d, x), x)
      BY <3>2, StoresDirty
    <3> QED  BY <2>3, <3>1, <3>3 DEF SetOf
  <2>5. CASE d = c /\ x = b /\ w /\ Handled(d, b)
    <3>1. AfterSend(d, b, w /\ d = c, SetOf(d, b), sets'[d][IndexOf[d][x]])
      BY <1>6, <2>3, <2>5
    <3> QED  BY <2>5, <3>1 DEF AfterSend, Handled
  <2>6. CASE d = c /\ x \in unsaved[d] /\ x \notin Saved(d, q)
    <3>1. DirtyIn(SetOf(d, x), x)
      BY <2>6, StoresDirty
    <3>2. CASE IndexOf[d][x] # IndexOf[d][b]
      BY <2>3, <3>1, <3>2 DEF SetOf
    <3>3. CASE IndexOf[d][x] = IndexOf[d][b]
      <4>1. AfterSend(d, b, w /\ d = c, SetOf(d, x), sets'[d][IndexOf[d][x]])
        BY <1>6, <2>3, <2>6, <3>3 DEF SetOf
      <4>2. ~(Outcome(d, b) = "allocated" /\ x \in DirtyVictims(d, b))
        <5> SUFFICES ASSUME Outcome(d, b) = "allocated", x \in DirtyVictims(d, b)
                     PROVE  FALSE
          OBVIOUS
        <5>1. d \in R
          BY <1>6, <2>6
        <5>2. PICK i \in 1..Len(q) : q[i].type = "WRITE" /\ q[i].block = x
          BY <1>7, <5>1
        <5>3. x \in EvictedBlocks(d, b)
          BY DEF DirtyVictims, EvictedBlocks
        <5>4. i \in DOMAIN q
          BY <1>7, LenProperties
        <5> QED  BY <2>6, <5>2, <5>3, <5>4
      <4> QED  BY <3>1, <4>1, <4>2 DEF AfterSend
    <3> QED  BY <3>2, <3>3
  <2>7. d # c \/ (d = c /\ x = b /\ w /\ Handled(d, b))
        \/ (d = c /\ x \in unsaved[d] /\ x \notin Saved(d, q))
    <3> HIDE DEF Saved
    <3> QED  BY <1>2
  <2> QED  BY <2>4, <2>5, <2>6, <2>7
<1>9. StoresKept'
  <2> SUFFICES ASSUME NEW d \in FirstLevel, NEW x \in unsaved'[d]
               PROVE  \E i \in Places(d, x)' : SetOf(d, x)'[i].dirty
    BY DEF StoresKept
  <2>1. d \in Caches /\ x \in Blocks
    BY <1>3, <1>4
  <2>2. PICK t : t = sets'[d][IndexOf[d][x]]
    OBVIOUS
  <2>3. t \in Seq(Line)
    BY <2>1, <2>2, SetFacts, SendKeepsSets
  <2>4. DOMAIN t = 1..Len(t)
    BY <2>3, LenProperties
  <2>5. PICK i \in 1..Len(t) : t[i].block = x /\ t[i].dirty
    BY <1>8, <2>2 DEF DirtyIn
  <2> QED  BY <2>2, <2>4, <2>5 DEF Places, SetOf
<1> QED  BY <1>4, <1>9

-----------------------------------------------------------------------------
(* Who answers a miss.                                                     *)

AsksFor(q, x) == \E i \in DOMAIN q : q[i].type = "READ" /\ q[i].block = x
HitOn(h, x)   == \E i \in DOMAIN h : h[i].block = x
Within(s, x)  == \E i \in DOMAIN s : s[i] = x

LEMMA AwaitedIs ==
  ASSUME NEW c \in Caches, NEW x
  PROVE  Awaited(c, x) <=> \/ AsksFor(waitList, x)
                           \/ atMemory["READ"][x] > 0
                           \/ HitOn(hitList, x)
                           \/ \E d \in Below(c) : Within(retryList[d], x)
  BY DEF Awaited, AsksFor, HitOn, Within

Includes(u, s) == \A i \in DOMAIN s : \E j \in DOMAIN u : u[j] = s[i]

LEMMA ConcatKeeps ==
  ASSUME NEW S, NEW s \in Seq(S), NEW t \in Seq(S), NEW u, u = s \o t
  PROVE  Includes(u, s) /\ Includes(u, t)
<1>1. PICK m \in Nat : m = Len(s)
  BY LenProperties
<1>2. PICK n \in Nat : n = Len(t)
  BY LenProperties
<1>4. /\ DOMAIN s = 1..m /\ DOMAIN t = 1..n /\ DOMAIN u = 1..(m + n)
      /\ \A i \in 1..(m + n) : u[i] = IF i <= m THEN s[i] ELSE t[i - m]
  BY <1>1, <1>2, ConcatProperties, LenProperties
<1>5. \A i \in 1..m : i \in DOMAIN u /\ u[i] = s[i]
  BY <1>4
<1>6. \A i \in 1..n : m + i \in DOMAIN u /\ u[m + i] = t[i]
  <2> TAKE i \in 1..n
  <2>1. m + i \in 1..(m + n) /\ ~(m + i <= m) /\ (m + i) - m = i
    OBVIOUS
  <2> QED  BY <1>4, <2>1
<1> QED  BY <1>4, <1>5, <1>6 DEF Includes

LEMMA AppendKeeps ==
  ASSUME NEW S, NEW s \in Seq(S), NEW e \in S
  PROVE  \A x : Within(Append(s, e), x) <=> Within(s, x) \/ x = e
<1>1. PICK n \in Nat : n = Len(s)
  BY LenProperties
<1>2. PICK u : u = Append(s, e)
  OBVIOUS
<1>3. /\ DOMAIN s = 1..n /\ DOMAIN u = 1..(n + 1) /\ u[n + 1] = e
      /\ \A i \in 1..n : u[i] = s[i]
  BY <1>1, <1>2, AppendProperties, LenProperties
<1>4. n + 1 \in DOMAIN u /\ \A i \in DOMAIN u : i \in DOMAIN s \/ i = n + 1
  BY <1>3
<1>5. DOMAIN s \subseteq DOMAIN u
  BY <1>3
<1> QED  BY <1>2, <1>3, <1>4, <1>5 DEF Within

\* What a request asks for goes to memory, to the list of hits or to a retry list.
LEMMA SendKeepsAwaited ==
  ASSUME SystemInv, NEW c \in Caches, NEW b \in Blocks, NEW w \in BOOLEAN,
         NEW retries \in [Caches -> Seq(Blocks)], Send(c, b, w, retries), atMemory' = atMemory,
         \A d \in Below(c) : retries[d] = retryList[d],
         \A d \in Caches : \A x : Within(retryList[d], x) =>
           Within(retries[d], x) \/ (x = b /\ c \in Below(d) /\ Handled(c, b))
  PROVE  MissesAwaited'
<1> DEFINE R == Reached(c, b)
           stop == StopsAt(c, R)
           AwaitedNext(d, x) == \/ AsksFor(waitList', x)
                                \/ atMemory["READ"][x] > 0
                                \/ HitOn(hitList', x)
                                \/ \E e \in Below(d) : Within(retryList'[e], x)
<1>1. /\ R \subseteq Below(c) /\ stop \subseteq Below(c) /\ Below(c) \subseteq Caches
      /\ \A d \in stop : Outcome(d, b) # "allocated"
      /\ Outcome(c, b) = "allocated" => c \in R
      /\ Outcome(c, b) # "allocated" => stop = {c}
      /\ \A d \in R : Lower[d] # NoCache => Lower[d] \in R \cup stop
  BY ReachedFacts, StopFacts, PathFacts
<1>2. PICK q : q = ToMemory(b, R)
  OBVIOUS
<1>3. /\ waitList' = waitList \o q /\ hitList' = hitList \o HitsAt(stop, b)
      /\ retryList' = [d \in Caches |-> IF d \in RefusedBelow(R, stop, b)
                                        THEN Append(retries[d], b) ELSE retries[d]]
  BY <1>2 DEF Send
<1>4. /\ waitList \in Seq(Requests) /\ hitList \in Seq([block : Blocks, left : Nat])
      /\ q \in Seq(Requests)
      /\ LastLevel \in R => AsksFor(q, b)
  <2>1. q \in Seq(Requests)
        /\ (LastLevel \in R => \E i \in 1..Len(q) : q[i].type = "READ" /\ q[i].block = b)
    BY <1>2, ToMemoryIs
  <2>2. DOMAIN q = 1..Len(q)
    BY <2>1, LenProperties
  <2> QED  BY <2>1, <2>2 DEF AsksFor, SystemInv, TypeOK, Requests
<1>5. \A x : AsksFor(waitList, x) \/ AsksFor(q, x) => AsksFor(waitList', x)
  <2>1. PICK u : u = waitList'
    OBVIOUS
  <2>2. Includes(u, waitList) /\ Includes(u, q)
    BY <1>3, <1>4, <2>1, ConcatKeeps
  <2> QED  BY <2>1, <2>2 DEF AsksFor, Includes
<1>6. PICK h : h = HitsAt(stop, b)
  OBVIOUS
<1>7. h \in Seq([block : Blocks, left : Nat])
      /\ \A d \in stop : Outcome(d, b) = "hit" => HitOn(h, b)
  <2> DEFINE hits == {d \in stop : Outcome(d, b) = "hit"}
  <2>1. CASE hits = {}
    BY <1>6, <2>1 DEF HitsAt
  <2>2. CASE hits # {}
    <3>1. PICK d : d = (CHOOSE e \in hits : TRUE)
      OBVIOUS
    <3>2. Latency[d] \in Nat
      BY <1>1, <2>2, <3>1, HierarchyAssumption
    <3>3. h = <<[block |-> b, left |-> Latency[d]]>>
      BY <1>6, <2>2, <3>1 DEF HitsAt
    <3> QED  BY <3>2, <3>3 DEF HitOn
  <2> QED  BY <2>1, <2>2
<1>8. \A x : HitOn(hitList, x) \/ HitOn(h, x) => HitOn(hitList', x)
  <2>1. PICK u : u = hitList'
    OBVIOUS
  <2>2. Includes(u, hitList) /\ Includes(u, h)
    BY <1>3, <1>4, <1>6, <1>7, <2>1, ConcatKeeps
  <2> QED  BY <2>1, <2>2 DEF HitOn, Includes
<1>9. ASSUME NEW d \in Caches, NEW x
      PROVE  /\ Within(retries[d], x) => Within(retryList'[d], x)
             /\ d \in RefusedBelow(R, stop, b) => Within(retryList'[d], b)
  <2>1. retries[d] \in Seq(Blocks)
    OBVIOUS
  <2>2. \A y : Within(Append(retries[d], b), y) <=> Within(retries[d], y) \/ y = b
    BY <2>1, AppendKeeps
  <2> QED  BY <1>3, <2>2
<1> HIDE DEF R, stop
\* What is awaited at a cache below c stays so.
<1>10. ASSUME NEW d \in Below(c), NEW x, Awaited(d, x)
       PROVE  AwaitedNext(d, x)
  <2>1. d \in Caches /\ Below(d) \subseteq Below(c)
    BY <1>1, BelowBelow
  <2>2. CASE \E e \in Below(d) : Within(retryList[e], x)
    <3>1. PICK e \in Below(d) : Within(retryList[e], x)
      BY <2>2
    <3>2. Within(retryList'[e], x)
      BY <1>1, <1>9, <2>1, <3>1
    <3> QED  BY <3>1, <3>2
  <2> QED  BY <1>5, <1>8, <1>10, <2>1, <2>2, AwaitedIs
\* What is awaited at a cache is awaited above it.
<1>11. ASSUME NEW d \in Caches, NEW e \in Below(d), NEW x, AwaitedNext(e, x)
       PROVE  AwaitedNext(d, x)
  BY <1>11, BelowBelow
<1>12. ASSUME NEW d \in stop, NEW e \in Caches, d \in Below(e),
              Outcome(d, b) = "stalled" => e \in RefusedBelow(R, stop, b)
       PROVE  AwaitedNext(e, b)
  <2>1. CASE Outcome(d, b) = "hit"
    BY <1>7, <1>8, <2>1 DEF stop
  <2>2. CASE Outcome(d, b) = "mshr_hit"
    <3>1. b \in mshr[d]
      BY <2>2 DEF Outcome
    <3>2. Awaited(d, b)
      BY <1>1, <3>1 DEF SystemInv, MissesAwaited
    <3> QED  BY <1>1, <1>10, <1>11, <1>12, <3>2
  <2>3. CASE Outcome(d, b) = "stalled"
    <3>1. Within(retryList'[e], b) /\ e \in Below(e)
      BY <1>9, <1>12, <2>3, PathFacts
    <3> QED  BY <3>1
  <2>4. Outcome(d, b) \in {"hit", "mshr_hit", "stalled"}
    BY <1>1 DEF Outcome
  <2> QED  BY <2>1, <2>2, <2>3, <2>4
\* The lowest cache that allocated asked memory, or is answered below.
<1>13. ASSUME NEW d \in R PROVE AwaitedNext(d, b)
  <2>1. d \in Caches
    BY <1>1
  <2>2. d \in R \cap Below(d) /\ R \cap Below(d) \subseteq Caches
    BY <1>1, <2>1, PathFacts
  <2>3. PICK e \in R \cap Below(d) : \A f \in R \cap Below(d) : Len(Path[e]) <= Len(Path[f])
    BY <2>2, LowestOf
  <2>4. e \in Caches /\ Len(Path[e]) \in Nat
    BY <2>2, <2>3, PathFacts
  <2>5. CASE Lower[e] = NoCache
    <3>1. e = LastLevel
      BY <2>4, <2>5, LastLevelIs
    <3>2. AsksFor(waitList', b)
      BY <1>4, <1>5, <2>3, <3>1
    <3> QED  BY <3>2
  <2>6. CASE Lower[e] # NoCache
    <3>1. /\ Lower[e] \in Caches /\ Lower[e] \in Below(e)
          /\ Len(Path[Lower[e]]) = Len(Path[e]) - 1
      BY <2>4, <2>6, PathFacts
    <3>2. Lower[e] \in Below(d)
      BY <2>1, <2>3, <3>1, BelowBelow
    <3>3. Lower[e] \notin R
      <4> SUFFICES ASSUME Lower[e] \in R PROVE FALSE
        OBVIOUS
      <4>1. Len(Path[e]) <= Len(Path[Lower[e]])
        BY <2>3, <3>2
      <4> QED  BY <2>4, <3>1, <4>1
    <3>4. Lower[e] \in stop
      BY <1>1, <2>3, <2>6, <3>3
    <3>5. Outcome(Lower[e], b) = "stalled" => e \in RefusedBelow(R, stop, b)
      BY <2>3, <3>4 DEF RefusedBelow
    <3>6. AwaitedNext(e, b)
      BY <1>12, <2>4, <3>1, <3>4, <3>5
    <3> QED  BY <1>11, <2>1, <2>3, <3>6
  <2> QED  BY <2>5, <2>6
<1>14. Handled(c, b) => AwaitedNext(c, b)
  <2> HAVE Handled(c, b)
  <2>1. CASE Outcome(c, b) = "allocated"
    BY <1>1, <1>13, <2>1
  <2>2. CASE Outcome(c, b) # "allocated"
    <3>1. c \in stop /\ c \in Below(c) /\ Outcome(c, b) # "stalled"
      BY <1>1, <2>2, PathFacts DEF Handled
    <3> QED  BY <1>12, <3>1
  <2> QED  BY <2>1, <2>2
<1>15. ASSUME NEW d \in Caches, NEW x, Awaited(d, x)
       PROVE  AwaitedNext(d, x)
  <2>1. CASE \E e \in Below(d) : Within(retryList[e], x)
    <3>1. PICK e \in Below(d) : Within(retryList[e], x)
      BY <2>1
    <3>2. e \in Caches
      BY PathFacts
    <3>3. CASE Within(retries[e], x)
      BY <1>9, <3>1, <3>2, <3>3
    <3>4. CASE x = b /\ c \in Below(e) /\ Handled(c, b)
      <4>1. AwaitedNext(c, b) /\ c \in Below(d)
        BY <1>14, <3>1, <3>4, BelowBelow
      <4> QED  BY <1>11, <3>4, <4>1
    <3> QED  BY <3>1, <3>2, <3>3, <3>4
  <2> QED  BY <1>5, <1>8, <1>15, <2>1, AwaitedIs
<1>16. ASSUME NEW d \in Caches, NEW x \in mshr'[d]
       PROVE  AwaitedNext(d, x)
  <2>1. mshr' = [e \in Caches |-> IF e \in R THEN mshr[e] \cup {b} ELSE mshr[e]]
    BY DEF Send, R
  <2>2. CASE x \in mshr[d]
    <3>1. Awaited(d, x)
      BY <2>2 DEF SystemInv, MissesAwaited
    <3> QED  BY <1>15, <3>1
  <2>3. CASE x = b /\ d \in R
    BY <1>13, <2>3
  <2> QED  BY <2>1, <2>2, <2>3
<1> QED  BY <1>16 DEF MissesAwaited, Awaited, AsksFor, HitOn, Within

-----------------------------------------------------------------------------
(* Cache::callback.                                                        *)

\* An answer unlocks the lines that waited for it and touches nothing else.
LEMMA UnlockedLines ==
  ASSUME SystemInv, NEW c \in Caches, NEW b \in Blocks, NEW i \in Indexes,
         NEW s, s = sets[c][i], NEW t, t = Unlocked(c, b)[i]
  PROVE  /\ t \in Seq(Line) /\ Len(t) = Len(s)
         /\ \A k \in 1..Len(s) :
              /\ t[k].block = s[k].block /\ t[k].dirty = s[k].dirty
              /\ t[k].lock <=> s[k].lock /\ ~(s[k].block = b /\ i = IndexOf[c][b] /\ b \in mshr[c])
<1>1. s \in Seq(Line)
  BY DEF SystemInv, TypeOK
<1>2. Len(s) \in Nat /\ DOMAIN s = 1..Len(s) /\ \A k \in 1..Len(s) : s[k] \in Line
  BY <1>1, LenProperties, ElementOfSeq
<1>3. CASE i = IndexOf[c][b] /\ b \in mshr[c]
  <2>1. t = [k \in 1..Len(s) |-> [s[k] EXCEPT !.lock = @ /\ s[k].block # b]]
    BY <1>2, <1>3 DEF Unlocked
  <2>2. \A k \in 1..Len(s) :
          /\ t[k] \in Line /\ t[k].block = s[k].block /\ t[k].dirty = s[k].dirty
          /\ t[k].lock <=> s[k].lock /\ s[k].block # b
    <3> TAKE k \in 1..Len(s)
    <3>1. PICK l \in BOOLEAN : l = (s[k].lock /\ s[k].block # b)
      OBVIOUS
    <3>2. t[k] = [s[k] EXCEPT !.lock = l]
      BY <2>1, <3>1
    <3>3. s[k] \in Line
      BY <1>2
    <3> QED  BY <3>1, <3>2, <3>3 DEF Line
  <2>3. t \in [1..Len(s) -> Line]
    BY <2>1, <2>2
  <2>4. t \in Seq(Line) /\ Len(t) = Len(s)
    BY <1>2, <2>3
  <2> QED  BY <1>3, <2>2, <2>4
<1>4. CASE ~(i = IndexOf[c][b] /\ b \in mshr[c])
  <2>1. t = s
    BY <1>4 DEF Unlocked
  <2> QED  BY <1>1, <1>4, <2>1
<1> QED  BY <1>3, <1>4

LEMMA CallbackKeeps ==
  ASSUME SystemInv, NEW b \in Blocks, Callback(b), unsaved' = unsaved
  PROVE  /\ sets' \in [Caches -> [Indexes -> Seq(Line)]]
         /\ \A c \in Caches, i \in Indexes : Len(sets'[c][i]) <= Assoc[c]
         /\ mshr' \in [Caches -> SUBSET Blocks]
         /\ \A c \in Caches : IsFiniteSet(mshr'[c]) /\ Cardinality(mshr'[c]) <= MshrNum[c]
         /\ \A c \in Caches : mshr'[c] = mshr[c] \ {b}
         /\ SetsUnique' /\ LocksMatch' /\ StoresKept'
<1>1. /\ sets' = [c \in Caches |-> Unlocked(c, b)]
      /\ mshr' = [c \in Caches |-> mshr[c] \ {b}]
  BY DEF Callback
<1>2. /\ mshr \in [Caches -> SUBSET Blocks]
      /\ \A c \in Caches : IsFiniteSet(mshr[c]) /\ Cardinality(mshr[c]) <= MshrNum[c]
      /\ \A c \in Caches, i \in Indexes : Len(sets[c][i]) <= Assoc[c] /\ Unique(sets[c][i])
      /\ unsaved \in [FirstLevel -> SUBSET Blocks] /\ FirstLevel \subseteq Caches
  BY DEF SystemInv, TypeOK, SetsUnique, FirstLevel
<1>3. ASSUME NEW c \in Caches, NEW i \in Indexes
      PROVE  /\ sets'[c][i] \in Seq(Line) /\ Len(sets'[c][i]) = Len(sets[c][i])
             /\ \A k \in 1..Len(sets[c][i]) :
                  /\ sets'[c][i][k].block = sets[c][i][k].block
                  /\ sets'[c][i][k].dirty = sets[c][i][k].dirty
                  /\ sets'[c][i][k].lock <=>
                       sets[c][i][k].lock
                         /\ ~(sets[c][i][k].block = b /\ i = IndexOf[c][b] /\ b \in mshr[c])
  <2>1. PICK s : s = sets[c][i]
    OBVIOUS
  <2>2. PICK t : t = Unlocked(c, b)[i]
    OBVIOUS
  <2>3. sets'[c][i] = t
    BY <1>1, <2>2
  <2>4. /\ t \in Seq(Line) /\ Len(t) = Len(s)
        /\ \A k \in 1..Len(s) :
             /\ t[k].block = s[k].block /\ t[k].dirty = s[k].dirty
             /\ t[k].lock <=> s[k].lock /\ ~(s[k].block = b /\ i = IndexOf[c][b] /\ b \in mshr[c])
    BY <2>1, <2>2, UnlockedLines
  <2> QED  BY <2>1, <2>3, <2>4
<1>4. sets' \in [Caches -> [Indexes -> Seq(Line)]]
  <2>1. \A c \in Caches : sets'[c] = Unlocked(c, b)
    BY <1>1
  <2>2. \A c \in Caches : sets'[c] = [i \in Indexes |-> sets'[c][i]]
    BY <2>1 DEF Unlocked
  <2>3. \A c \in Caches : sets'[c] \in [Indexes -> Seq(Line)]
    BY <1>3, <2>2
  <2> QED  BY <1>1, <2>3
<1>5. \A c \in Caches, i \in Indexes : Len(sets'[c][i]) <= Assoc[c]
  BY <1>2, <1>3
<1>6. mshr' \in [Caches -> SUBSET Blocks] /\ \A c \in Caches : mshr'[c] = mshr[c] \ {b}
  BY <1>1, <1>2
<1>7. ASSUME NEW c \in Caches PROVE IsFiniteSet(mshr'[c]) /\ Cardinality(mshr'[c]) <= MshrNum[c]
  <2>1. PICK S : S = mshr[c]
    OBVIOUS
  <2>2. PICK T : T = mshr'[c]
    OBVIOUS
  <2>3. T \in SUBSET S /\ IsFiniteSet(S) /\ Cardinality(S) <= MshrNum[c]
    BY <1>2, <1>6, <2>1, <2>2
  <2>4. IsFiniteSet(T) /\ Cardinality(T) <= Cardinality(S)
    BY <2>3, FS_Subset
  <2>5. Cardinality(T) \in Nat /\ Cardinality(S) \in Nat /\ MshrNum[c] \in Nat
    BY <2>3, <2>4, FS_CardinalityType, HierarchyAssumption
  <2>6. Cardinality(T) <= MshrNum[c]
    BY <2>3, <2>4, <2>5
  <2> QED  BY <2>2, <2>4, <2>6
<1>8. SetsUnique'
  <2>1. \A c \in Caches, i \in Indexes : Unique(sets'[c][i])
    BY <1>2, <1>3 DEF Unique
  <2> QED  BY <2>1 DEF SetsUnique
<1>9. LocksMatch'
  <2> SUFFICES ASSUME NEW c \in Caches, NEW x \in Blocks
               PROVE  x \in mshr'[c] <=> LockedIn(sets'[c][IndexOf[c][x]], x)
    BY DEF LocksMatch, SetOf
  <2>1. PICK i \in Indexes : i = IndexOf[c][x]
    BY SetFacts
  <2>2. x \in mshr[c] <=> LockedIn(sets[c][i], x)
    BY <2>1 DEF SystemInv, LocksMatch, SetOf
  <2>3. LockedIn(sets'[c][i], x) <=> LockedIn(sets[c][i], x) /\ ~(x = b /\ i = IndexOf[c][b] /\ b \in mshr[c])
    BY <1>3 DEF LockedIn
  <2> QED  BY <1>6, <2>1, <2>2, <2>3
<1>10. StoresKept'
  <2> SUFFICES ASSUME NEW d \in FirstLevel, NEW x \in unsaved[d]
               PROVE  \E k \in Places(d, x)' : SetOf(d, x)'[k].dirty
    BY DEF StoresKept
  <2>1. d \in Caches /\ x \in Blocks /\ DirtyIn(SetOf(d, x), x)
    BY <1>2, StoresDirty
  <2>2. PICK i \in Indexes : i = IndexOf[d][x]
    BY <2>1, SetFacts
  <2>3. PICK k \in 1..Len(sets[d][i]) : sets[d][i][k].block = x /\ sets[d][i][k].dirty
    BY <2>1, <2>2 DEF DirtyIn, SetOf
  <2>4. sets'[d][i][k].block = x /\ sets'[d][i][k].dirty
    BY <1>3, <2>1, <2>3
  <2>5. PICK t : t = sets'[d][i]
    OBVIOUS
  <2>6. t \in Seq(Line) /\ Len(t) = Len(sets[d][i])
    BY <1>3, <2>1, <2>5
  <2>7. k \in DOMAIN t
    BY <2>3, <2>6, LenProperties
  <2> QED  BY <2>2, <2>4, <2>5, <2>7 DEF Places, SetOf
<1> QED  BY <1>4, <1>5, <1>6, <1>7, <1>8, <1>9, <1>10

\* Lists that lose no element but the answered one keep the others awaited.
LEMMA OthersStayAwaited ==
  ASSUME SystemInv,
         \A c \in Caches, x \in Blocks : x \in mshr'[c] =>
           /\ x \in mshr[c]
           /\ AsksFor(waitList, x) \/ atMemory["READ"][x] > 0 \/ HitOn(hitList, x) =>
                AsksFor(waitList', x) \/ atMemory'["READ"][x] > 0 \/ HitOn(hitList', x),
         mshr' \in [Caches -> SUBSET Blocks],
         retryList' = retryList
  PROVE  MissesAwaited'
<1> SUFFICES ASSUME NEW c \in Caches, NEW x \in mshr'[c]
             PROVE  Awaited(c, x)'
  BY DEF MissesAwaited
<1>1. x \in Blocks /\ x \in mshr[c]
  OBVIOUS
<1>2. Awaited(c, x)
  BY <1>1 DEF SystemInv, MissesAwaited
<1>3. \/ AsksFor(waitList, x) \/ atMemory["READ"][x] > 0 \/ HitOn(hitList, x)
      \/ \E d \in Below(c) : Within(retryList[d], x)
  BY <1>2, AwaitedIs
<1>4. \/ AsksFor(waitList', x) \/ atMemory'["READ"][x] > 0 \/ HitOn(hitList', x)
      \/ \E d \in Below(c) : Within(retryList[d], x)
  BY <1>1, <1>3
<1> QED  BY <1>4 DEF Awaited, AsksFor, HitOn, Within

-----------------------------------------------------------------------------
(* Every step keeps the invariant.                                         *)

Hits == [block : Blocks, left : Nat]

LEMMA SystemInit ==
  ASSUME Init
  PROVE  SystemInv
<1>1. /\ \A c \in Caches : mshr[c] = {}
      /\ \A c \in Caches, i \in Indexes : sets[c][i] = <<>>
      /\ \A c \in FirstLevel : unsaved[c] = {}
  BY DEF Init
<1>2. \A c \in Caches : IsFiniteSet(mshr[c]) /\ Cardinality(mshr[c]) = 0
  BY <1>1, FS_EmptySet
<1>3. \A c \in Caches, i \in Indexes : Len(sets[c][i]) = 0
  BY <1>1
<1>4. \A c \in Caches : Assoc[c] \in Nat /\ MshrNum[c] \in Nat
  BY HierarchyAssumption
<1>5. TypeOK
  <2>1. sets \in [Caches -> [Indexes -> Seq(Line)]]
    BY DEF Init
  <2>2. \A c \in Caches, i \in Indexes : Len(sets[c][i]) <= Assoc[c]
    BY <1>3, <1>4
  <2>3. \A c \in Caches : Cardinality(mshr[c]) <= MshrNum[c]
    BY <1>2, <1>4
  <2>4. /\ mshr \in [Caches -> SUBSET Blocks] /\ retryList \in [Caches -> Seq(Blocks)]
        /\ waitList \in Seq([type : Types, block : Blocks, left : Nat])
        /\ hitList \in Seq([block : Blocks, left : Nat])
        /\ atMemory \in [Types -> [Blocks -> Nat]]
        /\ unsaved \in [FirstLevel -> SUBSET Blocks]
    BY DEF Init
  <2>5. loop \in Loops
    BY DEF Init, Loops
  <2> QED  BY <2>1, <2>2, <2>3, <2>4, <2>5 DEF TypeOK
<1>6. SetsUnique
  BY <1>3 DEF SetsUnique, Unique
<1>7. LocksMatch
  <2>1. \A c \in Caches, b \in Blocks : Len(SetOf(c, b)) = 0
    <3>1. \A c \in Caches, b \in Blocks : IndexOf[c][b] \in Indexes
      BY HierarchyAssumption
    <3> QED  BY <1>3, <3>1 DEF SetOf
  <2> QED  BY <1>1, <2>1 DEF LocksMatch, LockedIn
<1> QED  BY <1>1, <1>2, <1>5, <1>6, <1>7 DEF SystemInv, StoresKept, MissesAwaited

LEMMA LoopIs ==
  ASSUME SystemInv
  PROVE  /\ loop.at = "retry" =>
              /\ loop = [at |-> "retry", caches |-> loop.caches, pos |-> loop.pos]
              /\ loop.caches \in Seq(Caches \ {LastLevel}) /\ loop.caches # <<>>
              /\ loop.pos \in Nat \ {0}
              /\ Head(loop.caches) \in Caches /\ Head(loop.caches) # LastLevel
         /\ loop.at = "wait" =>
              loop = [at |-> "wait", pos |-> loop.pos] /\ loop.pos \in Nat \ {0}
<1>1. loop \in Loops
  BY DEF SystemInv, TypeOK
<1>2. loop.at = "retry" =>
        loop \in [at : {"retry"}, caches : Seq(Caches \ {LastLevel}) \ {<<>>}, pos : Nat \ {0}]
  BY <1>1 DEF Loops, Idle
<1>3. loop.at = "wait" => loop \in [at : {"wait"}, pos : Nat \ {0}]
  BY <1>1 DEF Loops, Idle
<1>4. loop.at = "retry" => Head(loop.caches) \in Caches \ {LastLevel}
  <2> HAVE loop.at = "retry"
  <2>1. PICK p : p = loop.caches
    OBVIOUS
  <2>2. p \in Seq(Caches \ {LastLevel}) /\ p # <<>>
    BY <1>2, <2>1
  <2>3. Head(p) \in Caches \ {LastLevel}
    BY <2>2, HeadTailProperties
  <2> QED  BY <2>1, <2>3
<1> QED  BY <1>2, <1>3, <1>4

\* Steps that move requests on, and leave the caches alone.
LEMMA QueuesMove ==
  ASSUME SystemInv,
         sets' = sets, mshr' = mshr, unsaved' = unsaved, retryList' = retryList,
         waitList' \in Seq(Requests), hitList' \in Seq(Hits),
         atMemory' \in [Types -> [Blocks -> Nat]], loop' \in Loops,
         \A x \in Blocks :
           AsksFor(waitList, x) \/ atMemory["READ"][x] > 0 \/ HitOn(hitList, x) =>
             AsksFor(waitList', x) \/ atMemory'["READ"][x] > 0 \/ HitOn(hitList', x)
  PROVE  SystemInv'
<1>1. TypeOK'
  BY DEF SystemInv, TypeOK, Requests, Hits
<1>2. MissesAwaited'
  <2>1. mshr' \in [Caches -> SUBSET Blocks]
    BY DEF SystemInv, TypeOK
  <2>2. \A c \in Caches, x \in Blocks : x \in mshr'[c] => x \in mshr[c]
    OBVIOUS
  <2> QED  BY <2>1, <2>2, OthersStayAwaited
<1>3. (\A c \in Caches : IsFiniteSet(mshr'[c])) /\ SetsUnique' /\ LocksMatch' /\ StoresKept'
  BY DEF SystemInv, SetsUnique, LocksMatch, StoresKept, Places, SetOf
<1> QED  BY <1>1, <1>2, <1>3 DEF SystemInv

LEMMA LoopMoves ==
  ASSUME SystemInv, loop' \in Loops,
         UNCHANGED <<sets, mshr, retryList, waitList, hitList, atMemory, unsaved>>
  PROVE  SystemInv'
<1>1. /\ waitList' \in Seq(Requests) /\ hitList' \in Seq(Hits)
      /\ atMemory' \in [Types -> [Blocks -> Nat]]
  BY DEF SystemInv, TypeOK, Requests, Hits
<1> QED  BY <1>1, QueuesMove

\* Steps that send a request down.
LEMMA SendKeeps ==
  ASSUME SystemInv, NEW c \in Caches, NEW b \in Blocks, NEW w \in BOOLEAN,
         NEW retries \in [Caches -> Seq(Blocks)], Send(c, b, w, retries), atMemory' = atMemory,
         loop' \in Loops,
         \A d \in Below(c) : retries[d] = retryList[d],
         \A d \in Caches : \A x : Within(retryList[d], x) =>
           Within(retries[d], x) \/ (x = b /\ c \in Below(d) /\ Handled(c, b))
  PROVE  SystemInv'
<1>1. /\ sets' \in [Caches -> [Indexes -> Seq(Line)]]
      /\ \A d \in Caches, i \in Indexes : Len(sets'[d][i]) <= Assoc[d]
      /\ SetsUnique'
  BY SendKeepsSets
<1>2. /\ mshr' \in [Caches -> SUBSET Blocks]
      /\ \A d \in Caches : IsFiniteSet(mshr'[d]) /\ Cardinality(mshr'[d]) <= MshrNum[d]
      /\ LocksMatch'
  BY SendKeepsLocks
<1>3. /\ retryList' \in [Caches -> Seq(Blocks)]
      /\ waitList' \in Seq(Requests)
      /\ hitList' \in Seq([block : Blocks, left : Nat])
  BY SendKeepsLists
<1>4. unsaved' \in [FirstLevel -> SUBSET Blocks] /\ StoresKept'
  BY SendKeepsStores
<1>5. MissesAwaited'
  BY SendKeepsAwaited
<1>6. atMemory' \in [Types -> [Blocks -> Nat]]
  BY DEF SystemInv, TypeOK
<1>7. TypeOK'
  BY <1>1, <1>2, <1>3, <1>4, <1>6 DEF TypeOK, Requests
<1> QED  BY <1>1, <1>2, <1>4, <1>5, <1>7 DEF SystemInv

\* Steps that answer a block.
LEMMA AnswerKeeps ==
  ASSUME SystemInv, NEW b \in Blocks, Callback(b), unsaved' = unsaved, retryList' = retryList,
         waitList' = waitList, hitList' \in Seq(Hits),
         atMemory' \in [Types -> [Blocks -> Nat]], loop' \in Loops,
         \A x \in Blocks : x # b =>
           /\ atMemory["READ"][x] > 0 => atMemory'["READ"][x] > 0
           /\ HitOn(hitList, x) => HitOn(hitList', x)
  PROVE  SystemInv'
<1>1. /\ sets' \in [Caches -> [Indexes -> Seq(Line)]]
      /\ \A c \in Caches, i \in Indexes : Len(sets'[c][i]) <= Assoc[c]
      /\ mshr' \in [Caches -> SUBSET Blocks]
      /\ \A c \in Caches : IsFiniteSet(mshr'[c]) /\ Cardinality(mshr'[c]) <= MshrNum[c]
      /\ \A c \in Caches : mshr'[c] = mshr[c] \ {b}
      /\ SetsUnique' /\ LocksMatch' /\ StoresKept'
  BY CallbackKeeps
<1>2. MissesAwaited'
  <2>1. \A c \in Caches, x \in Blocks : x \in mshr'[c] =>
          /\ x \in mshr[c]
          /\ AsksFor(waitList, x) \/ atMemory["READ"][x] > 0 \/ HitOn(hitList, x) =>
               AsksFor(waitList', x) \/ atMemory'["READ"][x] > 0 \/ HitOn(hitList', x)
    <3> TAKE c \in Caches, x \in Blocks
    <3> HAVE x \in mshr'[c]
    <3>1. x \in mshr[c] /\ x # b
      BY <1>1
    <3> QED  BY <3>1
  <2> QED  BY <1>1, <2>1, OthersStayAwaited
<1>3. TypeOK'
  BY <1>1 DEF SystemInv, TypeOK, Hits
<1> QED  BY <1>1, <1>2, <1>3 DEF SystemInv

LEMMA CoreSendKeeps ==
  ASSUME SystemInv, NEW r \in CoreRequests, CoreSend(r[1], r[2], r[3])
  PROVE  SystemInv'
<1>1. r[1] \in Caches /\ r[2] \in Blocks
  BY HierarchyAssumption DEF FirstLevel
<1>2. PICK w \in BOOLEAN : w = (r[3] = "WRITE")
  OBVIOUS
<1>3. Send(r[1], r[2], w, retryList) /\ atMemory' = atMemory /\ loop' = loop
  BY <1>2 DEF CoreSend
<1>4. retryList \in [Caches -> Seq(Blocks)] /\ loop' \in Loops
  BY <1>3 DEF SystemInv, TypeOK
<1> QED  BY <1>1, <1>3, <1>4, SendKeeps

\* A request taken off a retry list is kept by a cache below, or answered.
LEMMA RetryStepKeeps ==
  ASSUME SystemInv, RetryStep
  PROVE  SystemInv'
<1>1. PICK c : c = Head(loop.caches)
  OBVIOUS
<1>2. PICK k : k = loop.pos
  OBVIOUS
<1>3. PICK s : s = retryList[c]
  OBVIOUS
<1>4. PICK b : b = s[k]
  OBVIOUS
<1>5. /\ c \in Caches /\ c # LastLevel /\ k \in Nat \ {0}
      /\ loop = [at |-> "retry", caches |-> loop.caches, pos |-> k]
      /\ loop.caches \in Seq(Caches \ {LastLevel}) \ {<<>>}
  BY <1>1, <1>2, LoopIs DEF RetryStep
<1>6. s \in Seq(Blocks) /\ k \in 1..Len(s) /\ b \in Blocks
  <2>1. s \in Seq(Blocks)
    BY <1>3, <1>5 DEF SystemInv, TypeOK
  <2>2. k <= Len(s) /\ Len(s) \in Nat
    BY <1>1, <1>2, <1>3, <2>1, LenProperties DEF RetryStep
  <2>3. k \in 1..Len(s)
    BY <1>5, <2>2
  <2> QED  BY <1>4, <2>1, <2>3, ElementOfSeq
<1>7. PICK l : l = Lower[c]
  OBVIOUS
<1>8. /\ l \in Caches /\ Len(Path[l]) = Len(Path[c]) - 1 /\ Len(Path[c]) \in Nat
      /\ l \in Below(c)
  BY <1>5, <1>7, PathFacts, LastLevelIs
<1>9. \A p \in Nat \ {0} : [loop EXCEPT !.pos = p] \in Loops
  <2> TAKE p \in Nat \ {0}
  <2>1. [loop EXCEPT !.pos = p] = [at |-> "retry", caches |-> loop.caches, pos |-> p]
    BY <1>5
  <2> QED  BY <1>5, <2>1 DEF Loops
<1>10. atMemory' = atMemory
  BY DEF RetryStep
<1>11. CASE Handled(l, b)
  <2>1. PICK q : q = RemoveAt(s, k)
    OBVIOUS
  <2>2. PICK retries : retries = [retryList EXCEPT ![c] = q]
    OBVIOUS
  <2>3. Send(l, b, FALSE, retries)
    BY <1>1, <1>2, <1>3, <1>4, <1>7, <1>11, <2>1, <2>2 DEF RetryStep
  <2>4. loop' = [loop EXCEPT !.pos = AfterErase(k, Len(s) - 1)]
    BY <1>1, <1>2, <1>3, <1>4, <1>7, <1>11 DEF RetryStep
  <2>5. AfterErase(k, Len(s) - 1) \in Nat \ {0}
    BY <1>5 DEF AfterErase
  <2>6. loop' \in Loops
    BY <1>9, <2>4, <2>5
  <2>7. /\ retryList \in [Caches -> Seq(Blocks)] /\ q \in Seq(Blocks)
        /\ retries \in [Caches -> Seq(Blocks)]
        /\ \A d \in Caches : retries[d] = IF d = c THEN q ELSE retryList[d]
    <3>1. retryList \in [Caches -> Seq(Blocks)]
      BY DEF SystemInv, TypeOK
    <3>2. q \in Seq(Blocks)
      BY <1>6, <2>1, RemovedAt
    <3> QED  BY <2>2, <3>1, <3>2
  <2>8. \A d \in Below(l) : retries[d] = retryList[d]
    <3> TAKE d \in Below(l)
    <3>1. d \in Caches /\ Len(Path[l]) \in Nat /\ Len(Path[d]) \in Nat
      BY <1>8, PathFacts
    <3>2. d = l \/ Len(Path[d]) < Len(Path[l])
      BY <1>8, BelowShorter
    <3>3. d # c
      BY <1>8, <3>1, <3>2
    <3> QED  BY <2>7, <3>1, <3>3
  <2>9. ASSUME NEW d \in Caches, NEW x, Within(retryList[d], x)
        PROVE  Within(retries[d], x) \/ (x = b /\ l \in Below(d) /\ Handled(l, b))
    <3>1. CASE d # c
      BY <2>7, <2>9, <3>1
    <3>2. CASE d = c
      <4>1. PICK i \in DOMAIN s : s[i] = x
        BY <1>3, <2>9, <3>2 DEF Within
      <4>2. CASE i = k
        BY <1>4, <1>8, <1>11, <3>2, <4>1, <4>2
      <4>3. CASE i # k
        <5>1. i \in 1..Len(s)
          BY <1>6, <4>1, LenProperties
        <5>2. PICK j \in 1..Len(q) : q[j] = x
          BY <1>6, <2>1, <4>1, <4>3, <5>1, OthersKept
        <5>3. j \in DOMAIN q
          BY <2>7, <5>2, LenProperties
        <5> QED  BY <2>7, <3>2, <5>2, <5>3 DEF Within
      <4> QED  BY <4>2, <4>3
    <3> QED  BY <3>1, <3>2
  <2>10. FALSE \in BOOLEAN
    OBVIOUS
  <2> QED  BY <1>6, <1>8, <1>10, <2>3, <2>6, <2>7, <2>8, <2>9, <2>10, SendKeeps
<1>12. CASE ~Handled(l, b)
  <2>1. /\ loop' = [loop EXCEPT !.pos = k + 1]
        /\ UNCHANGED <<sets, mshr, retryList, waitList, hitList, unsaved>>
    BY <1>1, <1>2, <1>3, <1>4, <1>7, <1>12 DEF RetryStep
  <2>2. k + 1 \in Nat \ {0}
    BY <1>5
  <2>3. loop' \in Loops
    BY <1>9, <2>1, <2>2
  <2> QED  BY <1>10, <2>1, <2>3, LoopMoves
<1> QED  BY <1>11, <1>12

LEMMA CacheTickKeeps ==
  ASSUME SystemInv, NEW c \in FirstLevel, CacheTick(c)
  PROVE  SystemInv'
<1>1. Ticked(c) \in Seq(Caches \ {LastLevel}) \ {<<>>}
  BY TickedTyped
<1>2. loop' = [at |-> "retry", caches |-> Ticked(c), pos |-> 1]
  BY DEF CacheTick
<1>3. loop' \in Loops
  BY <1>1, <1>2 DEF Loops
<1> QED  BY <1>3, LoopMoves DEF CacheTick

LEMMA RetryEndsKeeps ==
  ASSUME SystemInv, RetryEnds
  PROVE  SystemInv'
<1>1. PICK p : p = loop.caches
  OBVIOUS
<1>2. /\ p \in Seq(Caches \ {LastLevel}) /\ p # <<>>
      /\ loop = [at |-> "retry", caches |-> p, pos |-> loop.pos]
  BY <1>1, LoopIs DEF RetryEnds
<1>3. loop' \in Loops
  <2>1. CASE Len(p) = 1
    BY <1>1, <2>1 DEF RetryEnds, Loops
  <2>2. CASE Len(p) # 1
    <3>1. PICK q : q = Tail(p)
      OBVIOUS
    <3>2. q \in Seq(Caches \ {LastLevel}) /\ q # <<>>
      <4>1. q \in Seq(Caches \ {LastLevel}) /\ Len(q) = Len(p) - 1
        BY <1>2, <3>1, HeadTailProperties
      <4>2. Len(p) \in Nat
        BY <1>2, LenProperties
      <4>3. Len(q) # 0
        BY <2>2, <4>1, <4>2
      <4> QED  BY <4>1, <4>3
    <3>3. loop' = [at |-> "retry", caches |-> q, pos |-> 1]
      BY <1>1, <2>2, <3>1 DEF RetryEnds
    <3> QED  BY <3>2, <3>3 DEF Loops
  <2> QED  BY <2>1, <2>2
<1> QED  BY <1>3, LoopMoves DEF RetryEnds

LEMMA LoopEndsKeep ==
  ASSUME SystemInv, WaitEnds \/ HitsEnd
  PROVE  SystemInv'
<1>1. loop' \in Loops
  BY DEF WaitEnds, HitsEnd, Loops
<1> QED  BY <1>1, LoopMoves DEF WaitEnds, HitsEnd

\* Counting down keeps what the lists ask for.
LEMMA SystemTickKeeps ==
  ASSUME SystemInv, SystemTick
  PROVE  SystemInv'
<1>1. /\ waitList' = Sooner(waitList) /\ hitList' = Sooner(hitList)
      /\ loop' = [at |-> "wait", pos |-> 1]
      /\ UNCHANGED <<sets, mshr, retryList, atMemory, unsaved>>
  BY DEF SystemTick
<1>2. loop' \in Loops
  BY <1>1 DEF Loops
<1>3. waitList' \in Seq(Requests) /\ \A x : AsksFor(waitList, x) => AsksFor(waitList', x)
  <2>1. PICK q : q = waitList
    OBVIOUS
  <2>2. q \in Seq(Requests)
    BY <2>1 DEF SystemInv, TypeOK, Requests
  <2>3. PICK n \in Nat : n = Len(q) /\ DOMAIN q = 1..n /\ \A i \in 1..n : q[i] \in Requests
    BY <2>2, LenProperties, ElementOfSeq
  <2>4. PICK u : u = Sooner(q)
    OBVIOUS
  <2>5. u = [i \in 1..n |-> [q[i] EXCEPT !.left = IF @ = 0 THEN 0 ELSE @ - 1]]
    BY <2>3, <2>4 DEF Sooner
  <2>6. \A i \in 1..n : u[i] \in Requests /\ u[i].type = q[i].type /\ u[i].block = q[i].block
    <3> TAKE i \in 1..n
    <3>1. PICK m : m = IF q[i].left = 0 THEN 0 ELSE q[i].left - 1
      OBVIOUS
    <3>2. q[i] \in Requests /\ u[i] = [q[i] EXCEPT !.left = m]
      BY <2>3, <2>5, <3>1
    <3>3. q[i].left \in Nat
      BY <3>2 DEF Requests
    <3>4. m \in Nat
      BY <3>1, <3>3
    <3> QED  BY <3>2, <3>4 DEF Requests
  <2>7. u \in [1..n -> Requests] /\ DOMAIN u = DOMAIN q
    BY <2>3, <2>5, <2>6
  <2>8. u \in Seq(Requests)
    BY <2>7
  <2>9. \A x : AsksFor(q, x) => AsksFor(u, x)
    BY <2>3, <2>6, <2>7 DEF AsksFor
  <2> QED  BY <1>1, <2>1, <2>4, <2>8, <2>9
<1>4. hitList' \in Seq(Hits) /\ \A x : HitOn(hitList, x) => HitOn(hitList', x)
  <2>1. PICK q : q = hitList
    OBVIOUS
  <2>2. q \in Seq(Hits)
    BY <2>1 DEF SystemInv, TypeOK, Hits
  <2>3. PICK n \in Nat : n = Len(q) /\ DOMAIN q = 1..n /\ \A i \in 1..n : q[i] \in Hits
    BY <2>2, LenProperties, ElementOfSeq
  <2>4. PICK u : u = Sooner(q)
    OBVIOUS
  <2>5. u = [i \in 1..n |-> [q[i] EXCEPT !.left = IF @ = 0 THEN 0 ELSE @ - 1]]
    BY <2>3, <2>4 DEF Sooner
  <2>6. \A i \in 1..n : u[i] \in Hits /\ u[i].block = q[i].block
    <3> TAKE i \in 1..n
    <3>1. PICK m : m = IF q[i].left = 0 THEN 0 ELSE q[i].left - 1
      OBVIOUS
    <3>2. q[i] \in Hits /\ u[i] = [q[i] EXCEPT !.left = m]
      BY <2>3, <2>5, <3>1
    <3>3. q[i].left \in Nat
      BY <3>2 DEF Hits
    <3>4. m \in Nat
      BY <3>1, <3>3
    <3> QED  BY <3>2, <3>4 DEF Hits
  <2>7. u \in [1..n -> Hits] /\ DOMAIN u = DOMAIN q
    BY <2>3, <2>5, <2>6
  <2>8. u \in Seq(Hits)
    BY <2>7
  <2>9. \A x : HitOn(q, x) => HitOn(u, x)
    BY <2>3, <2>6, <2>7 DEF HitOn
  <2> QED  BY <1>1, <2>1, <2>4, <2>8, <2>9
<1>5. atMemory' \in [Types -> [Blocks -> Nat]]
  BY <1>1 DEF SystemInv, TypeOK
<1> QED  BY <1>1, <1>2, <1>3, <1>4, <1>5, QueuesMove

\* A request leaves the list when the memory takes it.
LEMMA WaitStepKeeps ==
  ASSUME SystemInv, WaitStep
  PROVE  SystemInv'
<1>1. PICK q : q = waitList
  OBVIOUS
<1>2. PICK k : k = loop.pos
  OBVIOUS
<1>3. PICK r : r = q[k]
  OBVIOUS
<1>4. /\ q \in Seq(Requests) /\ hitList \in Seq(Hits)
      /\ atMemory \in [Types -> [Blocks -> Nat]] /\ loop \in Loops
  BY <1>1 DEF SystemInv, TypeOK, Requests, Hits
<1>5. k \in 1..Len(q) /\ r \in Requests
  <2>1. k \in DOMAIN q
    BY <1>1, <1>2 DEF WaitStep, WaitStops
  <2>2. k \in 1..Len(q)
    BY <1>4, <2>1, LenProperties
  <2> QED  BY <1>3, <1>4, <2>2, ElementOfSeq
<1>6. r.type \in Types /\ r.block \in Blocks
  BY <1>5 DEF Requests
<1>7. UNCHANGED <<sets, mshr, retryList, hitList, unsaved>>
  BY DEF WaitStep
<1>8. CASE Queued(r.type) < MemQueue
  <2>1. PICK t : t = RemoveAt(q, k)
    OBVIOUS
  <2>2. /\ waitList' = t /\ loop' = loop
        /\ atMemory' = [atMemory EXCEPT ![r.type][r.block] = @ + 1]
    BY <1>1, <1>2, <1>3, <1>8, <2>1 DEF WaitStep
  <2>3. t \in Seq(Requests)
    BY <1>4, <1>5, <2>1, RemovedAt
  <2>4. atMemory' \in [Types -> [Blocks -> Nat]]
        /\ atMemory'[r.type][r.block] = atMemory[r.type][r.block] + 1
        /\ \A x \in Blocks : x # r.block \/ r.type # "READ" =>
             atMemory'["READ"][x] = atMemory["READ"][x]
    BY <1>4, <1>6, <2>2 DEF Types
  <2>5. ASSUME NEW x \in Blocks, AsksFor(q, x)
        PROVE  AsksFor(t, x) \/ atMemory'["READ"][x] > 0
    <3>1. PICK i \in DOMAIN q : q[i].type = "READ" /\ q[i].block = x
      BY <2>5 DEF AsksFor
    <3>2. CASE i = k
      <4>1. r.type = "READ" /\ r.block = x
        BY <1>3, <3>1, <3>2
      <4>2. atMemory["READ"][x] \in Nat
        BY <1>4 DEF Types
      <4>3. atMemory'["READ"][x] = atMemory["READ"][x] + 1
        BY <2>4, <4>1
      <4> QED  BY <4>2, <4>3
    <3>3. CASE i # k
      <4>1. i \in 1..Len(q)
        BY <1>4, <3>1, LenProperties
      <4>2. PICK j \in 1..Len(t) : t[j] = q[i]
        BY <1>4, <1>5, <2>1, <3>3, <4>1, OthersKept
      <4>3. j \in DOMAIN t
        BY <2>3, <4>2, LenProperties
      <4> QED  BY <3>1, <4>2, <4>3 DEF AsksFor
    <3> QED  BY <3>2, <3>3
  <2>6. ASSUME NEW x \in Blocks, atMemory["READ"][x] > 0
        PROVE  atMemory'["READ"][x] > 0
    <3>1. CASE x = r.block /\ r.type = "READ"
      <4>1. atMemory["READ"][x] \in Nat
        BY <1>4 DEF Types
      <4>2. atMemory'["READ"][x] = atMemory["READ"][x] + 1
        BY <2>4, <3>1
      <4> QED  BY <4>1, <4>2
    <3>2. CASE ~(x = r.block /\ r.type = "READ")
      BY <2>4, <2>6, <3>2
    <3> QED  BY <3>1, <3>2
  <2> QED  BY <1>1, <1>4, <1>7, <2>2, <2>3, <2>4, <2>5, <2>6, QueuesMove
<1>9. CASE ~(Queued(r.type) < MemQueue)
  <2>1. /\ loop' = [loop EXCEPT !.pos = k + 1]
        /\ UNCHANGED <<waitList, atMemory>>
    BY <1>1, <1>2, <1>3, <1>9 DEF WaitStep
  <2>2. loop = [at |-> "wait", pos |-> k] /\ k \in Nat \ {0}
    BY <1>2, LoopIs DEF WaitStep
  <2>3. loop' = [at |-> "wait", pos |-> k + 1] /\ k + 1 \in Nat \ {0}
    BY <2>1, <2>2
  <2>4. loop' \in Loops
    BY <2>3 DEF Loops
  <2> QED  BY <1>7, <2>1, <2>4, LoopMoves
<1> QED  BY <1>8, <1>9

LEMMA HitStepKeeps ==
  ASSUME SystemInv, HitStep
  PROVE  SystemInv'
<1>1. PICK q : q = hitList
  OBVIOUS
<1>2. q \in Seq(Hits)
  BY <1>1 DEF SystemInv, TypeOK, Hits
<1>3. PICK k : k = CHOOSE j \in Due : \A i \in Due : j <= i
  OBVIOUS
<1>4. k \in 1..Len(q) /\ q[k] \in Hits
  <2>1. Due \in SUBSET Nat /\ Due \subseteq 1..Len(q) /\ Due # {}
    <3>1. DOMAIN q = 1..Len(q) /\ Len(q) \in Nat
      BY <1>2, LenProperties
    <3> QED  BY <1>1, <3>1 DEF Due, HitStep
  <2>2. \E j \in Due : \A i \in Due : j <= i
    BY <2>1, LeastNumber
  <2>3. k \in Due
    BY <1>3, <2>2
  <2>4. k \in 1..Len(q)
    BY <2>1, <2>3
  <2> QED  BY <1>2, <2>4, ElementOfSeq
<1>5. PICK b : b = q[k].block
  OBVIOUS
<1>6. PICK t : t = RemoveAt(q, k)
  OBVIOUS
<1>7. b \in Blocks
  BY <1>4, <1>5 DEF Hits
<1>8. /\ Callback(b) /\ hitList' = t
      /\ UNCHANGED <<retryList, waitList, atMemory, loop, unsaved>>
  BY <1>1, <1>3, <1>5, <1>6 DEF HitStep
<1>9. t \in Seq(Hits)
  BY <1>2, <1>4, <1>6, RemovedAt
<1>10. ASSUME NEW x \in Blocks, x # b, HitOn(q, x)
       PROVE  HitOn(t, x)
  <2>1. PICK i \in DOMAIN q : q[i].block = x
    BY <1>10 DEF HitOn
  <2>2. i # k /\ i \in 1..Len(q)
    BY <1>2, <1>5, <1>10, <2>1, LenProperties
  <2>3. PICK j \in 1..Len(t) : t[j] = q[i]
    BY <1>2, <1>4, <1>6, <2>2, OthersKept
  <2>4. j \in DOMAIN t
    BY <1>9, <2>3, LenProperties
  <2> QED  BY <2>1, <2>3, <2>4 DEF HitOn
<1>11. atMemory' \in [Types -> [Blocks -> Nat]] /\ loop' \in Loops /\ atMemory' = atMemory
  BY <1>8 DEF SystemInv, TypeOK
<1> QED  BY <1>1, <1>7, <1>8, <1>9, <1>10, <1>11, AnswerKeeps

LEMMA MemoryFinishesKeeps ==
  ASSUME SystemInv, NEW type \in Types, NEW b \in Blocks, MemoryFinishes(type, b)
  PROVE  SystemInv'
<1>1. /\ atMemory[type][b] > 0 /\ atMemory' = [atMemory EXCEPT ![type][b] = @ - 1]
      /\ UNCHANGED <<retryList, waitList, hitList, loop, unsaved>>
  BY DEF MemoryFinishes
<1>2. /\ atMemory \in [Types -> [Blocks -> Nat]]
      /\ waitList \in Seq(Requests) /\ hitList \in Seq(Hits) /\ loop \in Loops
  BY DEF SystemInv, TypeOK, Requests, Hits
<1>3. atMemory[type][b] - 1 \in Nat
  <2>1. atMemory[type][b] \in Nat
    BY <1>2
  <2> QED  BY <1>1, <2>1
<1>4. atMemory' \in [Types -> [Blocks -> Nat]]
  <2>1. PICK n \in Nat : n = atMemory[type][b] - 1
    BY <1>3
  <2>2. atMemory' = [atMemory EXCEPT ![type][b] = n]
    BY <1>1, <2>1
  <2> QED  BY <1>2, <2>2
<1>5. \A x \in Blocks : type # "READ" \/ x # b => atMemory'["READ"][x] = atMemory["READ"][x]
  BY <1>1, <1>2 DEF Types
<1>6. CASE type = "READ"
  <2>1. Callback(b)
    BY <1>6 DEF MemoryFinishes
  <2> QED  BY <1>1, <1>2, <1>4, <1>5, <2>1, AnswerKeeps
<1>7. CASE type # "READ"
  <2>1. UNCHANGED <<sets, mshr>>
    BY <1>7 DEF MemoryFinishes
  <2> QED  BY <1>1, <1>2, <1>4, <1>5, <1>7, <2>1, QueuesMove
<1> QED  BY <1>6, <1>7

\* The conjuncts of SystemInv hold initially and every step keeps them.
THEOREM SystemInvariant == Spec => []SystemInv
<1>1. Init => SystemInv
  BY SystemInit
<1>2. SystemInv /\ [Next]_vars => SystemInv'
  <2> SUFFICES ASSUME SystemInv, [Next]_vars PROVE SystemInv'
    OBVIOUS
  <2>1. ASSUME NEW r \in CoreRequests, CoreSend(r[1], r[2], r[3]) PROVE SystemInv'
    BY <2>1, CoreSendKeeps
  <2>2. ASSUME NEW c \in FirstLevel, CacheTick(c) PROVE SystemInv'
    BY <2>2, CacheTickKeeps
  <2>3. CASE SystemTick
    BY <2>3, SystemTickKeeps
  <2>4. CASE RetryStep
    BY <2>4, RetryStepKeeps
  <2>5. CASE RetryEnds
    BY <2>5, RetryEndsKeeps
  <2>6. CASE WaitStep
    BY <2>6, WaitStepKeeps
  <2>7. CASE WaitEnds \/ HitsEnd
    BY <2>7, LoopEndsKeep
  <2>8. CASE HitStep
    BY <2>8, HitStepKeeps
  <2>9. ASSUME NEW type \in Types, NEW b \in Blocks, MemoryFinishes(type, b) PROVE SystemInv'
    BY <2>9, MemoryFinishesKeeps
  <2>10. CASE UNCHANGED vars
    <3>1. loop' \in Loops /\ UNCHANGED <<sets, mshr, retryList, waitList, hitList, atMemory, unsaved>>
      BY <2>10 DEF vars, SystemInv, TypeOK
    <3> QED  BY <3>1, LoopMoves
  <2> QED
    BY <2>1, <2>2, <2>3, <2>4, <2>5, <2>6, <2>7, <2>8, <2>9, <2>10 DEF Next, LoopStep
<1> QED  BY <1>1, <1>2, PTL DEF Spec

\* Every variable of the hierarchy keeps its type, no set holds more lines
\* than ways and no cache more MSHR entries than it has (TypeOK).
THEOREM SystemTypes == Spec => []TypeOK
<1>1. SystemInv => TypeOK
  BY DEF SystemInv
<1> QED  BY <1>1, SystemInvariant, PTL

\* The locked lines of a cache are exactly those of its MSHR entries, and a
\* block has one line at most: the iterators of SimpleLLC stay valid.
THEOREM MshrEntriesPinLines == Spec => []MshrPinsLines
<1>1. SystemInv => MshrPinsLines
  <2> SUFFICES ASSUME SystemInv, NEW c \in Caches
               PROVE  /\ \A b \in mshr[c] : \E i \in Places(c, b) : SetOf(c, b)[i].lock
                      /\ \A b \in Blocks : Cardinality(Places(c, b)) <= 1
                      /\ \A b \in Blocks : \A i \in Places(c, b) : SetOf(c, b)[i].lock => b \in mshr[c]
    BY DEF MshrPinsLines
  <2>1. ASSUME NEW b \in mshr[c] PROVE \E i \in Places(c, b) : SetOf(c, b)[i].lock
    <3>1. b \in Blocks
      BY DEF SystemInv, TypeOK
    <3>2. LockedIn(SetOf(c, b), b)
      BY <3>1 DEF SystemInv, LocksMatch
    <3> QED  BY <3>1, <3>2, SetFacts DEF LockedIn
  <2>2. ASSUME NEW b \in Blocks PROVE Cardinality(Places(c, b)) <= 1
    <3>1. \A i, j \in Places(c, b) : i = j
      BY SetFacts DEF Unique
    <3>2. CASE Places(c, b) = {}
      BY <3>2, FS_EmptySet
    <3>3. CASE Places(c, b) # {}
      <4>1. PICK i : Places(c, b) = {i}
        BY <3>1, <3>3
      <4>2. Cardinality({i}) = 1
        BY FS_Singleton
      <4> QED  BY <4>1, <4>2
    <3> QED  BY <3>2, <3>3
  <2>3. ASSUME NEW b \in Blocks, NEW i \in Places(c, b), SetOf(c, b)[i].lock PROVE b \in mshr[c]
    <3>1. LockedIn(SetOf(c, b), b)
      BY <2>3, SetFacts DEF LockedIn
    <3> QED  BY <3>1 DEF SystemInv, LocksMatch
  <2> QED  BY <2>1, <2>2, <2>3
<1> QED  BY <1>1, SystemInvariant, PTL

\* A stored block stays dirty in its first-level cache until its write-back
\* is on the way to memory (SimpleLLC::send and allocate_line).
THEOREM StoresAreKept == Spec => []StoresKept
<1>1. SystemInv => StoresKept
  BY DEF SystemInv
<1> QED  BY <1>1, SystemInvariant, PTL

\* Every MSHR entry has somebody who will answer it: memory, a hit below or
\* a retry list on the way down (Cache::send and Cache::tick).
THEOREM EveryMissIsAwaited == Spec => []MissesAwaited
<1>1. SystemInv => MissesAwaited
  BY DEF SystemInv
<1> QED  BY <1>1, SystemInvariant, PTL
=============================================================================
