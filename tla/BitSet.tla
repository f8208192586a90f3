--------------------------------- MODULE BitSet ---------------------------------
(***************************************************************************)
(* bitset.c: a set of numbers as an array of chunks of bits, and the scan  *)
(* for the next member that the search iterates with.  The scan keeps an   *)
(* index and, beside it, a pointer to a chunk and a mask within it; it may *)
(* read one chunk past the end of the array, where anything may be.        *)
(*                                                                         *)
(* A chunk is the set of the bits that are set in it.  A mask is the       *)
(* number of its bit, and CHUNK once the bit has been shifted out.         *)
(***************************************************************************)
EXTENDS Integers, FiniteSets

CONSTANTS CHUNK,        \* bits of a chunk: 64
          capacity

ASSUME ChunkAssumption == CHUNK \in Nat \ {0}
ASSUME CapacityAssumption == capacity \in Nat \ {0}

VARIABLES chunks,       \* the array
          members,      \* history: what has been set and not unset since
          scan,         \* which loop of a scan is running, "bits" or "chunks"; or "done", "none"
          index, chunk, mask,   \* the locals of bitset_next_set_bit
          from,         \* its argument
          found         \* its result

bitset_vars == <<chunks, members, scan, index, chunk, mask, from, found>>

BITSET_NONE == -1
Member == 0 .. capacity - 1
nchunks == (capacity + CHUNK - 1) \div CHUNK

bitset_new ==
    /\ chunks = [c \in 0 .. nchunks - 1 |-> {}] /\ members = {}
    /\ scan = "none" /\ index = 0 /\ chunk = 0 /\ mask = 0 /\ from = 0 /\ found = BITSET_NONE

Locals == <<index, chunk, mask, from, found>>
Idle == scan \in {"none", "done"}

\* The index check ends the program, so no other numbers are ever given.
bitset_set(i) ==
    /\ Idle /\ scan' = "none"
    /\ chunks' = [chunks EXCEPT ![i \div CHUNK] = @ \cup {i % CHUNK}]
    /\ members' = members \cup {i}
    /\ UNCHANGED Locals

bitset_unset(i) ==
    /\ Idle /\ scan' = "none"
    /\ chunks' = [chunks EXCEPT ![i \div CHUNK] = @ \ {i % CHUNK}]
    /\ members' = members \ {i}
    /\ UNCHANGED Locals

bitset_reset ==
    /\ Idle /\ scan' = "none"
    /\ chunks' = [c \in DOMAIN chunks |-> {}] /\ members' = {}
    /\ UNCHANGED Locals

\* bitset_next_set_bit is called: with 0, or with the successor of what it found.
bitset_next_set_bit(i) ==
    /\ Idle
    /\ scan' = "bits" /\ index' = i /\ chunk' = i \div CHUNK /\ mask' = i % CHUNK /\ from' = i
    /\ UNCHANGED <<chunks, members, found>>

Return(i) == scan' = "done" /\ found' = i /\ UNCHANGED <<chunks, members, from, chunk, mask, index>>

\* The outer loop ends, or finds the current bit set, or moves to the next bit.
ScanEnds == scan = "bits" /\ index >= capacity /\ Return(BITSET_NONE)

ScanFinds == scan = "bits" /\ index < capacity /\ mask \in chunks[chunk] /\ Return(index)

ScanMoves ==
    /\ scan = "bits" /\ index < capacity /\ mask \notin chunks[chunk]
    /\ index' = index + 1
    /\ IF mask + 1 = CHUNK THEN mask' = 0 /\ chunk' = chunk + 1 /\ scan' = "chunks"
                           ELSE mask' = mask + 1 /\ UNCHANGED <<chunk, scan>>
    /\ UNCHANGED <<chunks, members, from, found>>

\* What the program reads as the current chunk: past the end, it is anything.
ChunkMayBeEmpty == chunk \in DOMAIN chunks => chunks[chunk] = {}
ChunkMayBeSet == chunk \in DOMAIN chunks => chunks[chunk] # {}

\* The inner loop spins over empty chunks and gives up past the capacity.
SpinEnds == scan = "chunks" /\ ChunkMayBeSet /\ scan' = "bits" /\ UNCHANGED <<chunks, members, Locals>>

\* Fault: the index stays behind the chunk.
SpinMovesChunk ==
    /\ scan = "chunks" /\ ChunkMayBeEmpty
    /\ chunk' = chunk + 1
    /\ IF index + CHUNK >= capacity THEN scan' = "done" /\ found' = BITSET_NONE
                                    ELSE UNCHANGED <<scan, found>>
    /\ UNCHANGED <<chunks, members, mask, from, index>>

SpinMoves ==
    /\ scan = "chunks" /\ ChunkMayBeEmpty
    /\ chunk' = chunk + 1 /\ index' = index + CHUNK
    /\ IF index + CHUNK >= capacity THEN scan' = "done" /\ found' = BITSET_NONE
                                    ELSE UNCHANGED <<scan, found>>
    /\ UNCHANGED <<chunks, members, mask, from>>

ScanStep == ScanEnds \/ ScanFinds \/ ScanMoves \/ SpinEnds \/ SpinMoves

BitSetNext ==
    \/ \E i \in Member : bitset_set(i) \/ bitset_unset(i)
    \/ bitset_reset
    \/ \E i \in {0, found + 1} : bitset_next_set_bit(i)
    \/ ScanStep

BitSetSpec == bitset_new /\ [][BitSetNext]_bitset_vars

--------------------------------------------------------------------------------
\* The chunk that is read is within the array, or the one after it when no index is left.
ScanInBounds == ~Idle => chunk \in 0 .. nchunks /\ (index < capacity => chunk < nchunks)

\* The scan finds the least member at or after its argument, if there is one and nothing
\* else, whatever is in the memory behind the array, and reads no further than one chunk
\* behind it (bitset.c:88-117).  router.c iterates over stops and routes with it.
NextSetBitExact ==
    /\ ScanInBounds
    /\ scan = "done" =>
         IF found = BITSET_NONE THEN \A i \in members : i < from
         ELSE found \in members /\ found >= from /\ \A i \in members : i < from \/ i >= found

================================================================================
