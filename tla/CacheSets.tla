------------------------------ MODULE CacheSets ------------------------------
(***************************************************************************)
(* The set managers of a cache: frames, tagMap and clkPtr of every set,    *)
(* and the lookup, evict and allocate every protocol shares up to the name *)
(* of the class (src/cc/src/mesi_cache.cc 83-170).                         *)
(*                                                                         *)
(* A tag within its set names one block (AddressMap checks constructAddr   *)
(* against getTag and getSet), so a line's tag is the block itself, and    *)
(* tagMap is a function of the block.                                      *)
(***************************************************************************)
EXTENDS CoherentCacheBase, ClockReplacement

CONSTANTS
  Sets,     \* set indices
  SetOf,    \* getSet, by cacheable block
  NoBlock   \* the tag of a frame that was never allocated

NotExist == -1

ASSUME SetsAssumption ==
  /\ SetOf \in [Cacheable -> Sets]
  /\ NoBlock \notin Blocks

VARIABLES
  lines,    \* cacheSet: by cache, set and way
  tagMap,   \* by cache and block: the way, or NotExist
  clkPtr    \* by cache and set

setVars == <<lines, tagMap, clkPtr>>

\* A cache line, with the coherence states of the protocol.
Frame(states) ==
  [tag      : Cacheable \cup {NoBlock},
   valid    : BOOLEAN,
   cohState : states,
   dirty    : BOOLEAN,
   clkFlag  : {0, 1},
   data     : [Words -> Values]]

SetsTypeOK(states) ==
  /\ lines \in [Caches -> [Sets -> [Ways -> Frame(states)]]]
  /\ tagMap \in [Caches -> [Cacheable -> Ways \cup {NotExist}]]
  /\ clkPtr \in [Caches -> [Sets -> Ways]]

EmptyFrame == [tag |-> NoBlock, valid |-> FALSE, cohState |-> "Invalid",
               dirty |-> FALSE, clkFlag |-> 0, data |-> EmptyBlock]

SetsInit ==
  /\ lines = [c \in Caches |-> [s \in Sets |-> [w \in Ways |-> EmptyFrame]]]
  /\ tagMap = [c \in Caches |-> [b \in Cacheable |-> NotExist]]
  /\ clkPtr = [c \in Caches |-> [s \in Sets |-> 0]]

\* The line at which a block sits, when tagMap has it.
LineOf(c, b) == lines[c][SetOf[b]][tagMap[c][b]]

Present(c, b) == tagMap[c][b] # NotExist

\* isHit: a block can sit in the cache with its line invalidated.
isHit(c, b) == Present(c, b) /\ LineOf(c, b).cohState # "Invalid"

\* Frame w of set s of cache c holds l.
WithLine(c, s, w, l) == [lines[c] EXCEPT ![s][w] = l]

-----------------------------------------------------------------------------
(* evict and allocate: where a block that is not present will sit.         *)

ClkFlags(c, s) == [w \in Ways |-> lines[c][s][w].clkFlag]

\* tagMap.size() of set s.
InSet(c, s) == {b \in Cacheable : SetOf[b] = s /\ Present(c, b)}

HasUnallocated(c, s) == Cardinality(InSet(c, s)) < NumLines

\* The frame evict leaves clkPtr at, which is the frame allocate takes.
FreeWay(c, b) ==
  LET s == SetOf[b] IN
    IF HasUnallocated(c, s) THEN clkPtr[c][s]
                            ELSE VictimWay(ClkFlags(c, s), clkPtr[c][s])

\* The flags of the frames of the set after evict.
SweptFlags(c, b) ==
  LET s == SetOf[b] IN
    IF HasUnallocated(c, s) THEN ClkFlags(c, s)
                            ELSE FlagsAfterSweep(ClkFlags(c, s), clkPtr[c][s])

\* The line evict throws out to make room for b.
Victim(c, b) == lines[c][SetOf[b]][FreeWay(c, b)]

\* evict erases a block from tagMap when the set is full.
Evicts(c, b) == ~HasUnallocated(c, SetOf[b])

\* Fault: a victim is dropped without a write-back.
EvictDropsData(c, b, mem) == mem

\* The victim is written back before its frame is reused.
MemoryAfterEvict(c, b, mem) ==
  IF Evicts(c, b) /\ Victim(c, b).dirty
    THEN [mem EXCEPT ![Victim(c, b).tag] = Victim(c, b).data]
    ELSE mem

\* The frames of cache c once evict and allocate made room for b and the
\* protocol stored line l in the frame.
LinesAfterFill(c, b, l) ==
  [lines[c] EXCEPT ![SetOf[b]] =
     [w \in Ways |-> IF w = FreeWay(c, b) THEN l
                     ELSE [@[w] EXCEPT !.clkFlag = SweptFlags(c, b)[w]]]]

\* Fault: evict does not erase the victim from tagMap.
TagMapKeepsVictim(c, b) ==
  [x \in Cacheable |-> IF x = b THEN FreeWay(c, b) ELSE tagMap[c][x]]

TagMapAfterFill(c, b) ==
  [x \in Cacheable |->
     IF x = b THEN FreeWay(c, b)
     ELSE IF Evicts(c, b) /\ x = Victim(c, b).tag THEN NotExist
     ELSE tagMap[c][x]]

\* Fault: the hand runs off the end of the circular array.
ClkPtrRunsOff(c, b) == [clkPtr[c] EXCEPT ![SetOf[b]] = FreeWay(c, b) + 1]

\* Fault: the hand stays at the line it just allocated.
ClkPtrStays(c, b) == [clkPtr[c] EXCEPT ![SetOf[b]] = FreeWay(c, b)]

ClkPtrAfterFill(c, b) ==
  [clkPtr[c] EXCEPT ![SetOf[b]] = After(FreeWay(c, b), 1)]

\* tagMap and clkPtr when a transaction of c ends with b in the cache.
PlaceBlock(c, b) ==
  IF Present(c, b)
    THEN UNCHANGED <<tagMap, clkPtr>>
    ELSE /\ tagMap' = [tagMap EXCEPT ![c] = TagMapAfterFill(c, b)]
         /\ clkPtr' = [clkPtr EXCEPT ![c] = ClkPtrAfterFill(c, b)]

\* The frames of cache c when a transaction ends with line l for b in place.
LinesWith(c, b, l) ==
  IF Present(c, b) THEN WithLine(c, SetOf[b], tagMap[c][b], l)
                   ELSE LinesAfterFill(c, b, l)

\* Memory when the same transaction made room for b.
MemoryAfterPlacing(c, b, mem) ==
  IF Present(c, b) THEN mem ELSE MemoryAfterEvict(c, b, mem)

-----------------------------------------------------------------------------
\* "valid ... should be the same as found in tagMap" (mesi_cache.hh:39-41):
\* the frames marked valid are the frames tagMap points to, each holds the
\* block that points to it, and no two blocks share a frame.
TagMapAgrees ==
  \A c \in Caches :
    /\ \A b \in Cacheable : Present(c, b) =>
         LineOf(c, b).valid /\ LineOf(c, b).tag = b
    /\ \A s \in Sets, w \in Ways : lines[c][s][w].valid =>
         LET b == lines[c][s][w].tag IN
           b \in Cacheable /\ SetOf[b] = s /\ tagMap[c][b] = w

\* "assume clk_ptr now points to a empty line" (mesi_cache.cc:102,108): when
\* evict returns early because tagMap is short, the frame at clkPtr is free.
ClkPtrFindsFreeFrame ==
  \A c \in Caches, s \in Sets :
    HasUnallocated(c, s) => ~lines[c][s][clkPtr[c][s]].valid

\* Frames, tagMap and the hand account for each other.
FramesAccounted == TagMapAgrees /\ ClkPtrFindsFreeFrame
==============================================================================
