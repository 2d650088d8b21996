----------------------------- MODULE AddressMap -----------------------------
(***************************************************************************)
(* How the caches split an address into tag, set and offset, put it        *)
(* together again for a write-back, and number the blocks of the shared    *)
(* range (src/cc/src/mesi_cache.cc 64-81, src/cc/src/adapt_cache.cc 88-90; *)
(* the other caches have the same functions).  The other modules take a    *)
(* block for a tag and a set, and for the index of its threshold; this     *)
(* module checks that they may.                                            *)
(*                                                                         *)
(* A cache looks one address up after the other; the block the previous    *)
(* one brought in is what an eviction writes back.  A machine word is the  *)
(* set of the positions of its 1 bits.                                     *)
(***************************************************************************)
EXTENDS Integers

CONSTANTS
  WordBits,      \* the width of uint64_t
  blockOffset,   \* bits of the offset in a block
  setBit,        \* bits of the set index
  Addresses      \* the addresses that are looked up

blockSize == 2 ^ blockOffset

SharedMemStart == 32768   \* 0x8000
SharedMemEnd   == 40960   \* 0xa000

\* The masks are made of an int, and the shared range is a whole number of
\* blocks: blocks of more than 8 kB are not configured.
ASSUME GeometryAssumption ==
  /\ WordBits \in Nat /\ blockOffset \in Nat /\ setBit \in Nat
  /\ blockOffset + setBit < 31
  /\ Addresses \subseteq Nat
  /\ blockSize \in Nat \ {0}
  /\ SharedMemStart % blockSize = 0 /\ SharedMemEnd % blockSize = 0

VARIABLES addr, resident

addressVars == <<addr, resident>>

-----------------------------------------------------------------------------
(* Words: a shift moves positions, & and | are \cap and \cup.              *)

Bits == 0 .. WordBits - 1
Word(a) == {i \in Bits : (a \div 2 ^ i) % 2 = 1}

ShiftRight(w, n) == {i \in Bits : i + n \in w}
ShiftLeft(w, n)  == {i \in Bits : i - n \in w}
Mask(n)          == {i \in Bits : i < n}

-----------------------------------------------------------------------------
getTag(w) == ShiftRight(w, blockOffset + setBit)

\* Fault: the mask leaves out one bit of the set index.
getSetNarrow(w) == ShiftRight(w \cap Mask(blockOffset + setBit - 1), blockOffset)

getSet(w) == ShiftRight(w \cap Mask(blockOffset + setBit), blockOffset)

getBlkAddr(w) == ShiftLeft(ShiftRight(w, blockOffset), blockOffset)

\* Fault: the tag is shifted by the set bits only.
constructAddrShort(tag, set, offset) ==
  ShiftLeft(tag, setBit) \cup ShiftLeft(set, blockOffset) \cup offset

constructAddr(tag, set, offset) ==
  ShiftLeft(tag, blockOffset + setBit) \cup ShiftLeft(set, blockOffset) \cup offset

\* The thresholds of the bus: one for every block of the shared range.
ThresholdCount == (SharedMemEnd - SharedMemStart) \div blockSize

\* Fault: blocks are numbered from address 0.
getBlkNumberUnbased(a) == a \div blockSize

getBlkNumber(a) == a \div blockSize - SharedMemStart \div blockSize

isCacheableAddr(a) == a >= SharedMemStart /\ a < SharedMemEnd

-----------------------------------------------------------------------------
AddressInit == addr \in Addresses /\ resident = addr

Lookup == addr' \in Addresses /\ resident' = addr

\* The address a victim is written back to is the block it was fetched from,
\* and the offset put back gives the address that brought it in.  A lookup in
\* the set's tagMap takes two addresses for the same line exactly when they
\* are in the same block, and never leaves the 2 ^ setBit sets there are.
SplitIsExact ==
  LET w == Word(addr)
      r == Word(resident)
  IN /\ constructAddr(getTag(r), getSet(r), {}) = getBlkAddr(r)
     /\ constructAddr(getTag(r), getSet(r), r \cap Mask(blockOffset)) = r
     /\ getSet(w) \subseteq 0 .. setBit - 1
     /\ (getTag(w) = getTag(r) /\ getSet(w) = getSet(r))
          <=> getBlkAddr(w) = getBlkAddr(r)

\* invalidationThs[getBlkNumber(addr)] stays inside the vector for every
\* address isCacheablePacket lets through, although the three ranges are
\* written down in different files, and blocks next to each other do not
\* share a threshold (adapt_cache.cc:53, 88-90, coherent_cache_base.cc:90).
NumbersFit ==
  isCacheableAddr(addr) =>
    /\ getBlkNumber(addr) \in 0 .. ThresholdCount - 1
    /\ isCacheableAddr(addr + blockSize) =>
         getBlkNumber(addr + blockSize) = getBlkNumber(addr) + 1
=============================================================================
