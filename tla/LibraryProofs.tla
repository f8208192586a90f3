------------------------------ MODULE LibraryProofs ------------------------------
(***************************************************************************)
(* The small libraries, for every value of their constants.  The scan of   *)
(* bitset.c is exact for every capacity and every width of a chunk: the    *)
(* index, the chunk pointer and the mask never come apart, so what is read *)
(* at one is what was asked of the other.  The queue of binheap.c gives    *)
(* out what is least and the allocator of slab.c what is free, for every   *)
(* sequence of calls.  A query of hashgrid.c walks over all bins of its    *)
(* box.  The tree of radixtree.c finds every string with its number.       *)
(***************************************************************************)
EXTENDS BitSet, RadixTree, Containers, HashGrid, Induction, FiniteSetTheorems, SequenceTheorems, TLAPS

\* Quotient and remainder.
LEMMA Division ==
    ASSUME NEW n \in Nat, NEW d \in Nat \ {0}
    PROVE  n \div d \in Nat /\ n % d \in 0 .. d - 1 /\ n = (n \div d) * d + (n % d)
OBVIOUS

\* They are the only ones.
LEMMA DivisionUnique ==
    ASSUME NEW q \in Nat, NEW d \in Nat \ {0}, NEW m \in 0 .. d - 1
    PROVE  q * d + m \in Nat /\ (q * d + m) \div d = q /\ (q * d + m) % d = m
OBVIOUS

\* Quotient and remainder by the width of a chunk.
LEMMA ChunkOf ==
    ASSUME NEW i \in Nat
    PROVE  /\ i \div CHUNK \in Nat /\ i % CHUNK \in 0 .. CHUNK - 1
           /\ i = (i \div CHUNK) * CHUNK + (i % CHUNK)
BY ChunkAssumption, Division

\* A bit of a chunk is the bit of one number only.
LEMMA ChunkBit ==
    ASSUME NEW c \in Nat, NEW m \in 0 .. CHUNK - 1
    PROVE  c * CHUNK + m \in Nat /\ (c * CHUNK + m) \div CHUNK = c /\ (c * CHUNK + m) % CHUNK = m
BY ChunkAssumption, DivisionUnique

\* The chunks before the capacity are those of the array.
LEMMA ChunkRange ==
    /\ nchunks \in Nat
    /\ \A c \in Nat : (c * CHUNK < capacity => c < nchunks) /\ (c * CHUNK <= capacity => c <= nchunks)
<1>1. nchunks \in Nat /\ capacity + CHUNK - 1 < (nchunks + 1) * CHUNK
  <2>1. capacity + CHUNK - 1 \in Nat
    BY ChunkAssumption, CapacityAssumption
  <2>2. /\ nchunks \in Nat /\ (capacity + CHUNK - 1) % CHUNK < CHUNK
        /\ capacity + CHUNK - 1 = nchunks * CHUNK + ((capacity + CHUNK - 1) % CHUNK)
    BY <2>1, ChunkOf, ChunkAssumption DEF nchunks
  <2> QED
    BY <2>2, ChunkAssumption, CapacityAssumption
<1>2. capacity <= nchunks * CHUNK
  BY <1>1, ChunkAssumption, CapacityAssumption
<1>3. ASSUME NEW c \in Nat, c * CHUNK < capacity PROVE c < nchunks
  <2>1. c * CHUNK < nchunks * CHUNK
    BY <1>1, <1>2, <1>3, ChunkAssumption, CapacityAssumption
  <2> QED
    BY <1>1, <2>1, ChunkAssumption
<1>4. ASSUME NEW c \in Nat, c * CHUNK <= capacity PROVE c <= nchunks
  <2>1. c * CHUNK <= nchunks * CHUNK
    BY <1>1, <1>2, <1>4, ChunkAssumption, CapacityAssumption
  <2> QED
    BY <1>1, <2>1, ChunkAssumption
<1> QED
  BY <1>1, <1>3, <1>4

--------------------------------------------------------------------------------
\* A number is a member exactly when its bit is set.
StoredInv ==
    /\ DOMAIN chunks = 0 .. nchunks - 1 /\ members \subseteq Member
    /\ \A i \in Member : i \in members <=> (i % CHUNK) \in chunks[i \div CHUNK]

\* The index is the number of the bit that the chunk pointer and the mask select, and
\* there is no member between the argument and the index.
ScanInv ==
    ~Idle => /\ from \in Nat /\ index \in Nat /\ chunk \in Nat /\ mask \in 0 .. CHUNK - 1
             /\ index = chunk * CHUNK + mask /\ from <= index /\ index <= capacity
             /\ scan = "chunks" => mask = 0
             /\ \A i \in members : i < from \/ i >= index

ResultInv ==
    scan = "done" =>
         IF found = BITSET_NONE THEN \A i \in members : i < from
         ELSE found \in members /\ found >= from /\ \A i \in members : i < from \/ i >= found

BitSetInv ==
    /\ scan \in {"none", "bits", "chunks", "done"} /\ found \in {BITSET_NONE} \cup Member
    /\ StoredInv /\ ScanInv /\ ResultInv

\* The chunk and the bit of a number are within the array.
LEMMA MemberChunk ==
    ASSUME NEW i \in Member
    PROVE  i \in Nat /\ i \div CHUNK \in 0 .. nchunks - 1 /\ i % CHUNK \in 0 .. CHUNK - 1
<1>1. i \in Nat /\ i < capacity
  BY CapacityAssumption DEF Member
<1>2. (i \div CHUNK) * CHUNK < capacity
  BY <1>1, ChunkOf, ChunkAssumption, CapacityAssumption
<1> QED
  BY <1>1, <1>2, ChunkOf, ChunkRange

\* Two numbers with the same chunk and the same bit are one.
LEMMA MemberBit ==
    ASSUME NEW i \in Nat, NEW j \in Nat, i \div CHUNK = j \div CHUNK, i % CHUNK = j % CHUNK
    PROVE  i = j
BY ChunkOf

\* Setting and unsetting changes the bit of the number and of no other.
LEMMA StoredWrite ==
    ASSUME BitSetInv, NEW i \in Member, bitset_set(i) \/ bitset_unset(i)
    PROVE  StoredInv'
<1>1. i \in Nat /\ i \div CHUNK \in 0 .. nchunks - 1 /\ i % CHUNK \in 0 .. CHUNK - 1
  BY MemberChunk
<1>2. DOMAIN chunks' = 0 .. nchunks - 1 /\ members' \subseteq Member
  BY DEF bitset_set, bitset_unset, BitSetInv, StoredInv
<1>3. ASSUME NEW j \in Member PROVE j \in members' <=> (j % CHUNK) \in chunks'[j \div CHUNK]
  <2>1. j \in Nat /\ j \div CHUNK \in 0 .. nchunks - 1
    BY MemberChunk
  <2>2. j \in members <=> (j % CHUNK) \in chunks[j \div CHUNK]
    BY DEF BitSetInv, StoredInv
  <2>3. j # i => j \div CHUNK # i \div CHUNK \/ j % CHUNK # i % CHUNK
    BY <1>1, <2>1, MemberBit
  <2> DEFINE c == j \div CHUNK
             b == j % CHUNK
             d == i \div CHUNK
             e == i % CHUNK
  <2>4. /\ c \in DOMAIN chunks /\ d \in DOMAIN chunks
        /\ (j \in members <=> b \in chunks[c]) /\ (j # i => c # d \/ b # e)
        /\ (j = i => c = d /\ b = e)
    BY <1>1, <2>1, <2>2, <2>3 DEF BitSetInv, StoredInv
  <2>5. CASE bitset_set(i)
    <3>1. chunks' = [chunks EXCEPT ![d] = @ \cup {e}] /\ members' = members \cup {i}
      BY <2>5 DEF bitset_set
    <3> HIDE DEF c, b, d, e
    <3>2. j \in members' <=> b \in chunks'[c]
      BY <2>4, <3>1
    <3> QED
      BY <3>2 DEF c, b
  <2>6. CASE bitset_unset(i)
    <3>1. chunks' = [chunks EXCEPT ![d] = @ \ {e}] /\ members' = members \ {i}
      BY <2>6 DEF bitset_unset
    <3> HIDE DEF c, b, d, e
    <3>2. j \in members' <=> b \in chunks'[c]
      BY <2>4, <3>1
    <3> QED
      BY <3>2 DEF c, b
  <2> QED
    BY <2>5, <2>6
<1> QED
  BY <1>2, <1>3 DEF StoredInv

\* At an index below the capacity, the bit under the mask is the bit of the index.
LEMMA CurrentBit ==
    ASSUME BitSetInv, ~Idle, index < capacity
    PROVE  /\ index \in Member /\ chunk \in DOMAIN chunks
           /\ index \in members <=> mask \in chunks[chunk]
<1>1. /\ index \in Nat /\ chunk \in Nat /\ mask \in 0 .. CHUNK - 1
      /\ index = chunk * CHUNK + mask
  BY DEF BitSetInv, ScanInv
<1>2. index \div CHUNK = chunk /\ index % CHUNK = mask
  BY <1>1, ChunkBit
<1>3. index \in Member
  BY <1>1, CapacityAssumption DEF Member
<1> QED
  BY <1>2, <1>3, MemberChunk DEF BitSetInv, StoredInv

\* While a scan runs, the chunk pointer is in the array, or right behind it at the end.
LEMMA ScanBounds == ASSUME BitSetInv PROVE ScanInBounds
<1> SUFFICES ASSUME ~Idle PROVE chunk \in 0 .. nchunks /\ (index < capacity => chunk < nchunks)
  BY DEF ScanInBounds
<1>1. /\ index \in Nat /\ chunk \in Nat /\ mask \in Nat
      /\ index = chunk * CHUNK + mask /\ index <= capacity
  BY ChunkAssumption DEF BitSetInv, ScanInv
<1>2. chunk * CHUNK <= capacity /\ (index < capacity => chunk * CHUNK < capacity)
  BY <1>1, ChunkAssumption, CapacityAssumption
<1> QED
  BY <1>1, <1>2, ChunkRange

\* No member is passed over with a chunk that reads as empty, be it in the array or behind.
LEMMA EmptyChunk ==
    ASSUME BitSetInv, scan = "chunks", ChunkMayBeEmpty, NEW i \in members
    PROVE  i < from \/ i >= index + CHUNK
<1>1. /\ index \in Nat /\ chunk \in Nat /\ from \in Nat /\ index = chunk * CHUNK + 0 /\ mask = 0
      /\ index <= capacity /\ (i < from \/ i >= index)
  BY DEF BitSetInv, ScanInv, Idle
<1>2. i \in Member /\ (i % CHUNK) \in chunks[i \div CHUNK] /\ DOMAIN chunks = 0 .. nchunks - 1
  BY DEF BitSetInv, StoredInv
<1>3. i \in Nat /\ i < capacity /\ i \div CHUNK \in 0 .. nchunks - 1
  BY <1>2, MemberChunk, CapacityAssumption DEF Member
<1> SUFFICES ASSUME i >= index, i < index + CHUNK PROVE FALSE
  BY <1>1, <1>3, ChunkAssumption
<1>4. i - index \in 0 .. CHUNK - 1 /\ i = chunk * CHUNK + (i - index)
  BY <1>1, <1>3, ChunkAssumption
<1>5. i \div CHUNK = chunk
  BY <1>1, <1>4, ChunkBit
<1>6. chunk \in DOMAIN chunks /\ chunks[chunk] # {}
  BY <1>2, <1>3, <1>5
<1> QED
  BY <1>6 DEF ChunkMayBeEmpty

\* A bit that is not set is no member, and the locals move to the next bit together.
LEMMA BitMoves == ASSUME BitSetInv, ScanMoves PROVE BitSetInv'
<1>1. /\ from \in Nat /\ index \in Nat /\ chunk \in Nat /\ mask \in 0 .. CHUNK - 1
      /\ index = chunk * CHUNK + mask /\ from <= index /\ index < capacity
      /\ \A i \in members : i < from \/ i >= index
  BY DEF BitSetInv, ScanInv, Idle, ScanMoves
<1>2. index \notin members
  BY CurrentBit DEF ScanMoves, Idle
<1>3. UNCHANGED <<chunks, members, from, found>> /\ index' = index + 1
  BY DEF ScanMoves
<1>4. \A i \in members : i \in Nat
  BY CapacityAssumption DEF BitSetInv, StoredInv, Member
<1>5. \A i \in members : i < from \/ i >= index + 1
  BY <1>1, <1>2, <1>4
<1>6. index + 1 = chunk' * CHUNK + mask' /\ chunk' \in Nat /\ mask' \in 0 .. CHUNK - 1
      /\ (scan' = "chunks" => mask' = 0) /\ scan' \in {"bits", "chunks"}
  <2>1. CASE mask + 1 = CHUNK
    <3>1. mask' = 0 /\ chunk' = chunk + 1 /\ scan' = "chunks"
      BY <2>1 DEF ScanMoves
    <3>2. (chunk + 1) * CHUNK + 0 = chunk * CHUNK + CHUNK
      BY <1>1, ChunkAssumption
    <3> QED
      BY <1>1, <2>1, <3>1, <3>2, ChunkAssumption
  <2>2. CASE mask + 1 # CHUNK
    <3>1. mask' = mask + 1 /\ chunk' = chunk /\ scan' = scan /\ scan = "bits"
      BY <2>2 DEF ScanMoves
    <3>2. chunk * CHUNK \in Nat
      BY <1>1, ChunkAssumption
    <3>3. mask + 1 \in 0 .. CHUNK - 1 /\ index + 1 = chunk * CHUNK + (mask + 1)
      BY <1>1, <2>2, <3>2, ChunkAssumption
    <3> QED
      BY <1>1, <3>1, <3>3
  <2> QED
    BY <2>1, <2>2
<1>7. ScanInv'
  BY <1>1, <1>3, <1>5, <1>6, CapacityAssumption DEF ScanInv, Idle
<1> QED
  BY <1>3, <1>6, <1>7 DEF BitSetInv, StoredInv, ResultInv

\* The inner loop of the scan keeps the index at the first bit of the chunk.
LEMMA ChunkMoves == ASSUME BitSetInv, SpinMoves PROVE BitSetInv'
<1>1. /\ from \in Nat /\ index \in Nat /\ chunk \in Nat /\ mask \in 0 .. CHUNK - 1 /\ mask = 0
      /\ index = chunk * CHUNK + mask /\ from <= index /\ scan = "chunks" /\ ChunkMayBeEmpty
  BY DEF BitSetInv, ScanInv, Idle, SpinMoves
<1>2. /\ UNCHANGED <<chunks, members, mask, from>> /\ index' = index + CHUNK /\ chunk' = chunk + 1
  BY DEF SpinMoves
<1>3. \A i \in members : i < from \/ i >= index + CHUNK
  BY <1>1, EmptyChunk
<1>4. \A i \in members : i \in Nat /\ i < capacity
  BY CapacityAssumption DEF BitSetInv, StoredInv, Member
<1>5. index + CHUNK = (chunk + 1) * CHUNK + mask
  BY <1>1, ChunkAssumption
<1>6. CASE index + CHUNK >= capacity
  <2>1. scan' = "done" /\ found' = BITSET_NONE
    BY <1>6 DEF SpinMoves
  <2>2. \A i \in members : i < from
    BY <1>1, <1>3, <1>4, <1>6, ChunkAssumption, CapacityAssumption
  <2> QED
    BY <1>2, <2>1, <2>2 DEF BitSetInv, StoredInv, ScanInv, ResultInv, Idle
<1>7. CASE ~(index + CHUNK >= capacity)
  <2>1. scan' = scan /\ found' = found
    BY <1>7 DEF SpinMoves
  <2>2. index + CHUNK \in Nat /\ index + CHUNK <= capacity /\ from <= index + CHUNK
    BY <1>1, <1>7, ChunkAssumption, CapacityAssumption
  <2>3. ScanInv'
    BY <1>1, <1>2, <1>3, <1>5, <2>1, <2>2 DEF ScanInv
  <2> QED
    BY <1>1, <1>2, <2>1, <2>3 DEF BitSetInv, StoredInv, ResultInv
<1> QED
  BY <1>6, <1>7

\* A scan starts at the bit of its argument.
LEMMA ScanStarts ==
    ASSUME BitSetInv, NEW i \in {0, found + 1}, bitset_next_set_bit(i)
    PROVE  BitSetInv'
<1>1. i \in Nat /\ i <= capacity
  BY CapacityAssumption DEF BitSetInv, Member, BITSET_NONE
<1>2. i = (i \div CHUNK) * CHUNK + (i % CHUNK) /\ i \div CHUNK \in Nat /\ i % CHUNK \in 0 .. CHUNK - 1
  BY <1>1, ChunkOf
<1>3. /\ scan' = "bits" /\ index' = i /\ chunk' = i \div CHUNK /\ mask' = i % CHUNK /\ from' = i
      /\ UNCHANGED <<chunks, members, found>>
  BY DEF bitset_next_set_bit
<1>4. \A j \in members : j \in Nat
  BY CapacityAssumption DEF BitSetInv, StoredInv, Member
<1>5. \A j \in members : j < i \/ j >= i
  BY <1>1, <1>4
<1>6. ScanInv'
  BY <1>1, <1>2, <1>3, <1>5 DEF ScanInv
<1> QED
  BY <1>3, <1>6 DEF BitSetInv, StoredInv, ResultInv

\* Every step of bitset.c keeps array, members and locals together.
LEMMA BitSetStep == ASSUME BitSetInv, [BitSetNext]_bitset_vars PROVE BitSetInv'
<1>1. ASSUME NEW i \in Member, bitset_set(i) \/ bitset_unset(i) PROVE BitSetInv'
  <2>1. StoredInv'
    BY <1>1, StoredWrite
  <2>2. scan' = "none" /\ UNCHANGED Locals
    BY <1>1 DEF bitset_set, bitset_unset
  <2> QED
    BY <2>1, <2>2 DEF BitSetInv, ScanInv, ResultInv, Idle, Locals
<1>2. CASE bitset_reset
  <2>1. StoredInv'
    <3>1. \A i \in Member : i \div CHUNK \in DOMAIN chunks
      BY MemberChunk DEF BitSetInv, StoredInv
    <3> QED
      BY <1>2, <3>1 DEF bitset_reset, BitSetInv, StoredInv
  <2> QED
    BY <1>2, <2>1 DEF bitset_reset, BitSetInv, ScanInv, ResultInv, Idle, Locals
<1>3. ASSUME NEW i \in {0, found + 1}, bitset_next_set_bit(i) PROVE BitSetInv'
  BY <1>3, ScanStarts
<1>4. CASE ScanEnds
  <2>1. /\ index >= capacity /\ index \in Nat /\ from \in Nat
        /\ \A i \in members : i < from \/ i >= index
    BY <1>4 DEF ScanEnds, BitSetInv, ScanInv, Idle
  <2>2. \A i \in members : i \in Nat /\ i < capacity
    BY CapacityAssumption DEF BitSetInv, StoredInv, Member
  <2>3. \A i \in members : i < from
    BY <2>1, <2>2, CapacityAssumption
  <2> QED
    BY <1>4, <2>3 DEF ScanEnds, Return, BitSetInv, StoredInv, ScanInv, ResultInv, Idle
<1>5. CASE ScanFinds
  <2>1. /\ from <= index /\ index \in Nat /\ from \in Nat /\ index \in members /\ index \in Member
        /\ \A i \in members : i < from \/ i >= index
    BY <1>5, CurrentBit DEF ScanFinds, BitSetInv, ScanInv, Idle
  <2>2. /\ scan' = "done" /\ found' = index /\ UNCHANGED <<chunks, members, from>>
    BY <1>5 DEF ScanFinds, Return
  <2>3. ResultInv'
    BY <2>1, <2>2 DEF ResultInv, BITSET_NONE
  <2> QED
    BY <2>1, <2>2, <2>3 DEF BitSetInv, StoredInv, ScanInv, Idle
<1>6. CASE ScanMoves
  BY <1>6, BitMoves
<1>7. CASE SpinEnds
  BY <1>7 DEF SpinEnds, BitSetInv, StoredInv, ScanInv, ResultInv, Idle, Locals
<1>8. CASE SpinMoves
  BY <1>8, ChunkMoves
<1>9. CASE UNCHANGED bitset_vars
  BY <1>9 DEF bitset_vars, BitSetInv, StoredInv, ScanInv, ResultInv, Idle
<1> QED
  BY <1>1, <1>2, <1>3, <1>4, <1>5, <1>6, <1>7, <1>8, <1>9 DEF BitSetNext, ScanStep

\* Iterating over a bit set visits its members and nothing else, in order: for every
\* capacity, chunk width and sequence of set, unset and reset, bitset_next_set_bit returns
\* the least member at or after its argument, or none if there is none, whatever the memory
\* behind the array holds, and reads at most one chunk behind it (bitset.c:88-117).  The
\* search of router.c takes stops and routes from a set in this order.
THEOREM NextSetBitFindsLeast == BitSetSpec => []NextSetBitExact
<1>1. bitset_new => BitSetInv
  <2> SUFFICES ASSUME bitset_new PROVE BitSetInv
    OBVIOUS
  <2>1. \A i \in Member : i \div CHUNK \in 0 .. nchunks - 1
    BY MemberChunk
  <2>2. StoredInv
    BY <2>1 DEF bitset_new, StoredInv
  <2> QED
    BY <2>2 DEF bitset_new, BitSetInv, ScanInv, ResultInv, Idle
<1>2. BitSetInv /\ [BitSetNext]_bitset_vars => BitSetInv'
  BY BitSetStep
<1>3. BitSetInv => NextSetBitExact
  BY ScanBounds DEF BitSetInv, ResultInv, NextSetBitExact
<1> QED
  BY <1>1, <1>2, <1>3, PTL DEF BitSetSpec

--------------------------------------------------------------------------------
(***************************************************************************)
(* The heap.                                                               *)
(***************************************************************************)
Elements == [prio : Int, elem : Nat]

\* The first n places of v hold the elements of S, each once.
Holds(v, n, S) ==
    /\ \A k \in 1 .. n : v[k] \in S
    /\ \A y \in S : \E k \in 1 .. n : v[k] = y
    /\ \A j, k \in 1 .. n : v[j] = v[k] => j = k

\* Each element is at least the one above it; but for the one at i, going up; but for those
\* below i, going down, where what is above i is not greater than those either.
Ordered(v, n) == \A k \in 2 .. n : v[k \div 2].prio <= v[k].prio
RaiseOrder(v, n, i) ==
    \A k \in 2 .. n : /\ k # i => v[k \div 2].prio <= v[k].prio
                      /\ k \div 2 = i /\ i > 1 => v[i \div 2].prio <= v[k].prio
LowerOrder(v, n, i) ==
    \A k \in 2 .. n : /\ k \div 2 # i => v[k \div 2].prio <= v[k].prio
                      /\ k \div 2 = i /\ i > 1 => v[i \div 2].prio <= v[k].prio

Swapped(v, i, j) == [v EXCEPT ![i] = v[j], ![j] = v[i]]

\* Half of a place is the place above it.
LEMMA Halves ==
    ASSUME NEW k \in Nat, k >= 2
    PROVE  k \div 2 \in Nat /\ k \div 2 >= 1 /\ k \div 2 < k /\ (k = 2 * (k \div 2) \/ k = 2 * (k \div 2) + 1)
OBVIOUS

\* The first element of a heap is the least.
LEMMA RootLeast ==
    ASSUME NEW n \in Nat, NEW v, \A k \in 1 .. n : v[k] \in Elements, Ordered(v, n)
    PROVE  \A k \in 1 .. n : v[1].prio <= v[k].prio
<1> DEFINE bad == {k \in 1 .. n : ~(v[1].prio <= v[k].prio)}
<1>1. \A k \in 1 .. n : v[k].prio \in Int
  BY DEF Elements
<1> SUFFICES ASSUME bad # {} PROVE FALSE
  OBVIOUS
<1>2. bad \in SUBSET Nat
  OBVIOUS
<1>3. PICK k \in bad : \A j \in bad : k <= j
  BY <1>2, LeastNat
<1>4. k >= 2 /\ k \in Nat /\ k <= n
  BY <1>1, <1>3
<1>5. PICK j : j = k \div 2
  OBVIOUS
<1>6. j \in 1 .. n /\ j < k /\ v[j].prio <= v[k].prio
  BY <1>4, <1>5, Halves DEF Ordered
<1>7. v[1].prio <= v[j].prio
  BY <1>3, <1>6
<1> QED
  BY <1>1, <1>3, <1>4, <1>6, <1>7

\* Two elements change places.
LEMMA SwapHolds ==
    ASSUME NEW n \in Nat, NEW v, 1 .. n \subseteq DOMAIN v, NEW S, Holds(v, n, S), NEW i \in 1 .. n, NEW j \in 1 .. n, i # j
    PROVE  Holds(Swapped(v, i, j), n, S)
<1>1. PICK w : w = Swapped(v, i, j)
  OBVIOUS
<1>2. /\ w[i] = v[j] /\ w[j] = v[i]
      /\ \A k \in 1 .. n : k # i /\ k # j => w[k] = v[k]
  BY <1>1 DEF Swapped
<1>3. \A k \in 1 .. n : w[k] \in S
  BY <1>2 DEF Holds
<1>4. ASSUME NEW y \in S PROVE \E k \in 1 .. n : w[k] = y
  <2>1. PICK k \in 1 .. n : v[k] = y
    BY DEF Holds
  <2> QED
    BY <1>2, <2>1
<1>5. ASSUME NEW a \in 1 .. n, NEW b \in 1 .. n, w[a] = w[b] PROVE a = b
  BY <1>2, <1>5 DEF Holds
<1> QED
  BY <1>1, <1>3, <1>4, <1>5 DEF Holds

\* Going up.
LEMMA RaiseMoves ==
    ASSUME NEW n \in Nat, NEW v, 1 .. n \subseteq DOMAIN v, \A k \in 1 .. n : v[k] \in Elements,
           NEW i \in 2 .. n, RaiseOrder(v, n, i), NEW p, p = i \div 2, v[p].prio > v[i].prio
    PROVE  RaiseOrder(Swapped(v, i, p), n, p)
<1>1. PICK w : w = Swapped(v, i, p)
  OBVIOUS
<1>2. p \in 1 .. n /\ p < i
  BY Halves
<1>3. /\ w[i] = v[p] /\ w[p] = v[i]
      /\ \A k \in 1 .. n : k # i /\ k # p => w[k] = v[k]
  BY <1>1, <1>2 DEF Swapped
<1>4. \A k \in 1 .. n : v[k].prio \in Int
  BY DEF Elements
<1>5. ASSUME NEW k \in 2 .. n, k # p PROVE w[k \div 2].prio <= w[k].prio
  <2>1. PICK h : h = k \div 2 /\ h \in 1 .. n /\ h < k
    BY Halves
  <2>2. CASE k = i
    BY <1>3, <1>4, <2>1, <2>2
  <2>3. CASE k # i /\ h = i
    <3>1. v[p].prio <= v[k].prio
      BY <2>1, <2>3 DEF RaiseOrder
    <3> QED
      BY <1>3, <1>5, <2>1, <2>3, <3>1
  <2>4. CASE k # i /\ h = p
    <3>1. v[p].prio <= v[k].prio
      BY <2>1, <2>4 DEF RaiseOrder
    <3> QED
      BY <1>2, <1>3, <1>4, <1>5, <2>1, <2>4, <3>1
  <2>5. CASE k # i /\ h # i /\ h # p
    <3>1. v[h].prio <= v[k].prio
      BY <2>1, <2>5 DEF RaiseOrder
    <3> QED
      BY <1>3, <1>5, <2>1, <2>5, <3>1
  <2> QED
    BY <2>2, <2>3, <2>4, <2>5
<1>6. ASSUME NEW k \in 2 .. n, k \div 2 = p, p > 1 PROVE w[p \div 2].prio <= w[k].prio
  <2>1. PICK h : h = p \div 2 /\ h \in 1 .. n /\ h < p
    BY <1>2, <1>6, Halves
  <2>2. v[h].prio <= v[p].prio
    BY <1>2, <1>6, <2>1 DEF RaiseOrder
  <2>3. k # p
    BY <1>6, Halves
  <2>4. CASE k = i
    BY <1>2, <1>3, <2>1, <2>2, <2>4
  <2>5. CASE k # i
    <3>1. v[p].prio <= v[k].prio
      BY <1>6, <2>5 DEF RaiseOrder
    <3> QED
      BY <1>2, <1>3, <1>4, <2>1, <2>2, <2>3, <2>5, <3>1
  <2> QED
    BY <2>4, <2>5
<1> QED
  BY <1>1, <1>5, <1>6 DEF RaiseOrder

\* Going down, to the lesser of two places.
LEMMA LowerMoves ==
    ASSUME NEW n \in Nat, NEW v, 1 .. n \subseteq DOMAIN v, \A k \in 1 .. n : v[k] \in Elements,
           NEW i \in 1 .. n, LowerOrder(v, n, i), NEW c \in 2 .. n, c \div 2 = i, v[i].prio > v[c].prio,
           \A k \in 2 .. n : k \div 2 = i => v[c].prio <= v[k].prio
    PROVE  LowerOrder(Swapped(v, i, c), n, c)
<1>1. PICK w : w = Swapped(v, i, c)
  OBVIOUS
<1>2. c \in 1 .. n /\ i < c
  BY Halves
<1>3. /\ w[i] = v[c] /\ w[c] = v[i]
      /\ \A k \in 1 .. n : k # i /\ k # c => w[k] = v[k]
  BY <1>1, <1>2 DEF Swapped
<1>4. \A k \in 1 .. n : v[k].prio \in Int
  BY DEF Elements
<1>5. ASSUME NEW k \in 2 .. n, k \div 2 # c PROVE w[k \div 2].prio <= w[k].prio
  <2>1. PICK h : h = k \div 2 /\ h \in 1 .. n /\ h < k /\ h # c
    BY <1>5, Halves
  <2>2. CASE h = i
    <3>1. v[c].prio <= v[k].prio
      BY <2>1, <2>2
    <3> QED
      BY <1>2, <1>3, <1>4, <2>1, <2>2, <3>1
  <2>3. CASE h # i /\ k = i
    <3>1. v[h].prio <= v[c].prio
      BY <2>1, <2>3 DEF LowerOrder
    <3> QED
      BY <1>3, <2>1, <2>3, <3>1
  <2>4. CASE h # i /\ k # i
    <3>1. v[h].prio <= v[k].prio /\ k # c
      BY <2>1, <2>4 DEF LowerOrder
    <3> QED
      BY <1>3, <2>1, <2>4, <3>1
  <2> QED
    BY <2>2, <2>3, <2>4
<1>6. ASSUME NEW k \in 2 .. n, k \div 2 = c PROVE w[c \div 2].prio <= w[k].prio
  <2>1. v[c].prio <= v[k].prio /\ c < k
    BY <1>2, <1>6, Halves DEF LowerOrder
  <2> QED
    BY <1>2, <1>3, <2>1
<1> QED
  BY <1>1, <1>5, <1>6 DEF LowerOrder

\* The array with the element that is under way at its place.
Placed(h) == IF h.loop = "none" THEN h.array ELSE [h.array EXCEPT ![h.i] = h.x]

\* The fields of the queue, and how far the array goes.
HeapType(h) ==
    /\ {"array", "size", "loop", "i", "x", "queued", "min"} \subseteq DOMAIN h
    /\ h.array \in [1 .. h.capacity -> Elements] /\ h.size \in Nat /\ h.capacity \in Nat /\ h.inserted \in Nat
    /\ h.loop \in {"none", "raise", "lower"} /\ h.i \in Nat /\ h.x \in Elements
    /\ h.queued \subseteq Elements /\ h.min \subseteq Elements
    /\ h.size <= h.capacity /\ h.capacity >= 1
    /\ h.loop = "raise" => h.i \in 1 .. h.size
    /\ h.loop = "lower" => h.i \in 1 .. h.capacity /\ (h.size > 0 => h.i <= h.size)

\* What should be in the queue is in its places, each once and in the order of the loop.
HeapOK(h) ==
    /\ HeapType(h)
    /\ IsFiniteSet(h.queued) /\ Cardinality(h.queued) = h.size
    /\ \A y \in h.queued : y.elem <= h.inserted
    /\ \A y \in h.min, z \in h.queued : y.prio <= z.prio
    /\ Holds(Placed(h), h.size, h.queued)
    /\ h.loop = "none" => Ordered(h.array, h.size)
    /\ h.loop = "raise" => RaiseOrder(Placed(h), h.size, h.i)
    /\ h.loop = "lower" => LowerOrder(Placed(h), h.size, h.i)

\* The elements in the heap, and the array they are in.
LEMMA PlacedType ==
    ASSUME NEW h, HeapType(h)
    PROVE  /\ Placed(h) \in [1 .. h.capacity -> Elements] /\ 1 .. h.size \subseteq 1 .. h.capacity
           /\ h.loop # "none" => Placed(h)[h.i] = h.x /\ h.i \in 1 .. h.capacity
           /\ \A k \in 1 .. h.capacity : k # h.i \/ h.loop = "none" => Placed(h)[k] = h.array[k]
<1>1. /\ h.array \in [1 .. h.capacity -> Elements] /\ h.x \in Elements /\ h.loop \in {"none", "raise", "lower"}
      /\ h.size \in Nat /\ h.capacity \in Nat /\ h.size <= h.capacity
  BY DEF HeapType
<1>2. h.loop # "none" => h.i \in 1 .. h.capacity
  BY <1>1 DEF HeapType
<1> QED
  BY <1>1, <1>2 DEF Placed

\* The loops move an element along the heap.
Moved(h, k) == [h EXCEPT !.array[h.i] = h.array[k], !.i = k]

\* A move exchanges the element under way with the one whose place it takes.
LEMMA Moves ==
    ASSUME NEW h, HeapOK(h), h.loop # "none", NEW k \in 1 .. h.size, k # h.i, h.i \in 1 .. h.size,
           NEW g, g = Moved(h, k)
    PROVE  /\ HeapType(g) /\ Placed(g) = Swapped(Placed(h), h.i, k) /\ Holds(Placed(g), g.size, g.queued)
           /\ g.size = h.size /\ g.queued = h.queued /\ g.inserted = h.inserted /\ g.min = h.min /\ g.loop = h.loop
           /\ g.i = k
<1> DEFINE v == Placed(h)
<1>1. HeapType(h) /\ v \in [1 .. h.capacity -> Elements] /\ 1 .. h.size \subseteq 1 .. h.capacity /\ h.i \in 1 .. h.capacity
      /\ k \in 1 .. h.capacity
  BY PlacedType DEF HeapOK
<1>2. /\ g.array = [h.array EXCEPT ![h.i] = h.array[k]] /\ g.i = k
      /\ g.size = h.size /\ g.capacity = h.capacity /\ g.queued = h.queued /\ g.inserted = h.inserted
      /\ g.min = h.min /\ g.loop = h.loop /\ g.x = h.x
      /\ DOMAIN g = DOMAIN h
  BY <1>1 DEF HeapType, Moved
<1>3. HeapType(g)
  <2>1. g.array \in [1 .. h.capacity -> Elements]
    BY <1>1, <1>2 DEF HeapType
  <2> QED
    BY <1>1, <1>2, <2>1 DEF HeapType
<1>4. Placed(g) = Swapped(v, h.i, k)
  <2>1. v[k] = h.array[k] /\ v[h.i] = h.x
    BY <1>1, PlacedType
  <2>2. Placed(g) = [[h.array EXCEPT ![h.i] = h.array[k]] EXCEPT ![k] = h.x]
    BY <1>2 DEF Placed
  <2>3. v = [h.array EXCEPT ![h.i] = h.x] /\ DOMAIN h.array = 1 .. h.capacity
    BY <1>1 DEF Placed, HeapType
  <2> QED
    BY <1>1, <2>1, <2>2, <2>3 DEF Swapped
<1>5. Holds(Swapped(v, h.i, k), h.size, h.queued)
  <2>1. DOMAIN v = 1 .. h.capacity /\ h.size \in Nat
    BY <1>1 DEF HeapType
  <2> QED
    BY <1>1, <2>1, SwapHolds DEF HeapOK
<1> QED
  BY <1>2, <1>3, <1>4, <1>5

\* A round of the loop of binheap_insert keeps the order but at the new place
\* (binheap.c:79-82).
LEMMA RaiseStep ==
    ASSUME HeapOK(heap), Raise
    PROVE  HeapOK(heap')
<1>1. PICK h, g, p : h = heap /\ g = heap' /\ p = h.i \div 2
  OBVIOUS
<1>2. HeapOK(h) /\ HeapType(h)
  BY <1>1 DEF HeapOK
<1>3. /\ h.loop = "raise" /\ h.i > 1 /\ h.array[p].prio > h.x.prio
      /\ g = Moved(h, p)
  BY <1>1 DEF Raise, Raises, Above, MoveTo, Moved
<1>4. h.i \in 2 .. h.size /\ h.size \in Nat /\ h.loop # "none"
  BY <1>2, <1>3 DEF HeapType
<1>5. p \in 1 .. h.size /\ p # h.i
  BY <1>1, <1>4, Halves
<1>6. PICK v : v = Placed(h)
  OBVIOUS
<1>7. /\ v[p] = h.array[p] /\ v[h.i] = h.x /\ v \in [1 .. h.capacity -> Elements]
      /\ 1 .. h.size \subseteq DOMAIN v /\ \A k \in 1 .. h.size : v[k] \in Elements
  BY <1>2, <1>4, <1>5, <1>6, PlacedType
<1>8. RaiseOrder(v, h.size, h.i)
  BY <1>2, <1>3, <1>6 DEF HeapOK
<1>9. RaiseOrder(Swapped(v, h.i, p), h.size, p)
  BY <1>1, <1>3, <1>4, <1>7, <1>8, RaiseMoves
<1>10. /\ HeapType(g) /\ Placed(g) = Swapped(Placed(h), h.i, p) /\ Holds(Placed(g), g.size, g.queued)
       /\ g.size = h.size /\ g.queued = h.queued /\ g.inserted = h.inserted /\ g.min = h.min /\ g.loop = h.loop
       /\ g.i = p
  <2>1. h.i \in 1 .. h.size
    BY <1>4
  <2> QED
    BY <1>2, <1>3, <1>4, <1>5, <2>1, Moves
<1>11. HeapOK(g)
  BY <1>2, <1>3, <1>6, <1>9, <1>10 DEF HeapOK
<1> QED
  BY <1>1, <1>11

\* A round of the loop of binheap_extract_min does so going down (binheap.c:94-101).
LEMMA LowerStep ==
    ASSUME HeapOK(heap), Lower
    PROVE  HeapOK(heap')
<1>1. PICK h, g, c : h = heap /\ g = heap' /\ c = Below
  OBVIOUS
<1>2. HeapOK(h) /\ HeapType(h)
  BY <1>1 DEF HeapOK
<1>3. /\ h.loop = "lower" /\ 2 * h.i <= h.size /\ h.x.prio > h.array[c].prio
      /\ g = Moved(h, c)
  BY <1>1 DEF Lower, Lowers, MoveTo, Moved
<1>4. h.i \in 1 .. h.size /\ h.size \in Nat /\ h.loop # "none"
  BY <1>2, <1>3 DEF HeapType
<1>5. PICK l \in Nat : l = 2 * h.i /\ l >= 2 /\ l <= h.size /\ l # h.i /\ l + 1 # h.i
  BY <1>3, <1>4
<1>6. c = IF l # h.size /\ h.array[l + 1].prio < h.array[l].prio THEN l + 1 ELSE l
  BY <1>1, <1>5 DEF Below
<1>7. c \in 2 .. h.size /\ c \in 1 .. h.size /\ c # h.i /\ c \div 2 = h.i
  <2>1. c = l \/ (c = l + 1 /\ l + 1 <= h.size)
    BY <1>4, <1>5, <1>6
  <2>2. l \div 2 = h.i /\ (l + 1) \div 2 = h.i
    BY <1>4, <1>5
  <2> QED
    BY <1>4, <1>5, <2>1, <2>2
<1>8. PICK v : v = Placed(h)
  OBVIOUS
<1>9. /\ v[c] = h.array[c] /\ v[h.i] = h.x /\ v \in [1 .. h.capacity -> Elements]
      /\ v[l] = h.array[l] /\ (l + 1 <= h.size => v[l + 1] = h.array[l + 1])
      /\ 1 .. h.size \subseteq DOMAIN v /\ \A k \in 1 .. h.size : v[k] \in Elements
  <2>1. l \in 1 .. h.capacity /\ (l + 1 <= h.size => l + 1 \in 1 .. h.capacity) /\ c \in 1 .. h.capacity
    BY <1>2, <1>4, <1>5, <1>7 DEF HeapType
  <2> QED
    BY <1>2, <1>4, <1>5, <1>7, <1>8, <2>1, PlacedType
<1>10. ASSUME NEW k \in 2 .. h.size, k \div 2 = h.i PROVE v[c].prio <= v[k].prio
  <2>1. k = l \/ k = l + 1
    BY <1>5, <1>10, Halves
  <2>2. v[k].prio \in Int /\ v[l].prio \in Int /\ v[c].prio \in Int
    <3>1. k \in 1 .. h.size /\ l \in 1 .. h.size
      BY <1>4, <1>5
    <3> QED
      BY <1>7, <1>9, <3>1 DEF Elements
  <2>3. CASE k = l
    <3>1. l # h.size => l + 1 <= h.size
      BY <1>4, <1>5
    <3>2. c = l \/ (c = l + 1 /\ l # h.size /\ h.array[l + 1].prio < h.array[l].prio)
      BY <1>6
    <3> QED
      BY <1>9, <2>2, <2>3, <3>1, <3>2
  <2>4. CASE k = l + 1
    <3>1. l + 1 <= h.size /\ l # h.size /\ v[l + 1].prio \in Int
      BY <1>4, <1>5, <2>2, <2>4
    <3> QED
      BY <1>6, <1>9, <2>2, <2>4, <3>1
  <2> QED
    BY <2>1, <2>3, <2>4
<1>11. LowerOrder(v, h.size, h.i)
  BY <1>2, <1>3, <1>8 DEF HeapOK
<1>12. LowerOrder(Swapped(v, h.i, c), h.size, c)
  BY <1>3, <1>4, <1>7, <1>9, <1>10, <1>11, LowerMoves
<1>13. /\ HeapType(g) /\ Placed(g) = Swapped(Placed(h), h.i, c) /\ Holds(Placed(g), g.size, g.queued)
       /\ g.size = h.size /\ g.queued = h.queued /\ g.inserted = h.inserted /\ g.min = h.min /\ g.loop = h.loop
       /\ g.i = c
  BY <1>2, <1>3, <1>4, <1>7, Moves
<1>14. HeapOK(g)
  BY <1>2, <1>3, <1>8, <1>12, <1>13 DEF HeapOK
<1> QED
  BY <1>1, <1>14

\* Where a loop ends the element is in order too.
LEMMA SettleStep ==
    ASSUME HeapOK(heap), Settle
    PROVE  HeapOK(heap')
<1>1. PICK h, g, v : h = heap /\ g = heap' /\ v = Placed(h)
  OBVIOUS
<1>2. HeapOK(h) /\ HeapType(h)
  BY <1>1 DEF HeapOK
<1>3. h.loop # "none" /\ g = [h EXCEPT !.array[h.i] = h.x, !.loop = "none"]
  BY <1>1 DEF Settle
<1>4. /\ g.array = v /\ g.loop = "none"
      /\ g.size = h.size /\ g.capacity = h.capacity /\ g.queued = h.queued /\ g.inserted = h.inserted
      /\ g.min = h.min /\ g.x = h.x /\ g.i = h.i
      /\ DOMAIN g = DOMAIN h
  BY <1>1, <1>2, <1>3 DEF HeapType, Placed
<1>5. v \in [1 .. h.capacity -> Elements] /\ v[h.i] = h.x /\ \A k \in 1 .. h.capacity : k # h.i => v[k] = h.array[k]
  BY <1>1, <1>2, <1>3, PlacedType
<1>6. HeapType(g)
  BY <1>2, <1>4, <1>5 DEF HeapType
<1>7. Ordered(v, h.size)
  <2> SUFFICES ASSUME NEW k \in 2 .. h.size PROVE v[k \div 2].prio <= v[k].prio
    BY DEF Ordered
  <2>1. PICK j : j = k \div 2 /\ j \in 1 .. h.size /\ k \in 1 .. h.size /\ j < k
    BY <1>2, Halves DEF HeapType
  <2>2. v[j].prio \in Int /\ v[k].prio \in Int /\ j \in 1 .. h.capacity /\ k \in 1 .. h.capacity
    <3>1. j \in 1 .. h.capacity /\ k \in 1 .. h.capacity
      BY <1>2, <2>1 DEF HeapType
    <3> QED
      BY <1>5, <3>1 DEF Elements
  <2>3. CASE h.loop = "raise"
    <3>1. CASE k # h.i
      BY <1>1, <1>2, <2>1, <2>3, <3>1 DEF HeapOK, RaiseOrder
    <3>2. CASE k = h.i
      <4>1. ~(h.array[j].prio > h.x.prio)
        BY <1>1, <2>1, <2>3, <3>2 DEF Settle, Raises, Above
      <4> QED
        BY <1>5, <2>1, <2>2, <3>2, <4>1
    <3> QED
      BY <3>1, <3>2
  <2>4. CASE h.loop = "lower"
    <3>1. CASE j # h.i
      BY <1>1, <1>2, <2>1, <2>4, <3>1 DEF HeapOK, LowerOrder
    <3>2. CASE j = h.i
      <4>1. PICK l \in Nat : l = 2 * h.i /\ l \in 1 .. h.size /\ l # h.i /\ (k = l \/ k = l + 1)
        <5>1. k \in Nat /\ k >= 2 /\ k <= h.size /\ h.size \in Nat /\ h.i = k \div 2
          BY <1>2, <2>1, <3>2 DEF HeapType
        <5>2. h.i \in Nat /\ h.i >= 1 /\ (k = 2 * h.i \/ k = 2 * h.i + 1)
          BY <5>1, Halves
        <5> QED
          BY <5>1, <5>2
      <4>2. PICK c : c = IF l # h.size /\ h.array[l + 1].prio < h.array[l].prio THEN l + 1 ELSE l
        OBVIOUS
      <4>3. ~(h.x.prio > h.array[c].prio)
        BY <1>1, <2>4, <4>1, <4>2 DEF Settle, Lowers, Below
      <4>4. /\ c \in 1 .. h.capacity /\ c # h.i /\ l \in 1 .. h.capacity /\ (l # h.size => l + 1 \in 1 .. h.capacity)
        BY <1>2, <3>2, <2>1, <4>1, <4>2 DEF HeapType
      <4>5. v[c] = h.array[c] /\ v[l] = h.array[l] /\ (l # h.size => v[l + 1] = h.array[l + 1])
        <5>1. l + 1 # h.i
          BY <2>1, <3>2, <4>1
        <5> QED
          BY <1>5, <4>1, <4>4, <5>1
      <4>6. v[c].prio \in Int /\ v[l].prio \in Int /\ (l # h.size => v[l + 1].prio \in Int)
        BY <1>5, <4>4 DEF Elements
      <4>7. v[c].prio <= v[k].prio
        <5>1. CASE k = l
          BY <4>2, <4>5, <4>6, <5>1
        <5>2. CASE k = l + 1
          <6>1. l # h.size
            BY <2>1, <5>2
          <6> QED
            BY <4>2, <4>5, <4>6, <5>2, <6>1
        <5> QED
          BY <4>1, <5>1, <5>2
      <4> QED
        BY <1>5, <2>1, <2>2, <3>2, <4>3, <4>5, <4>6, <4>7
    <3> QED
      BY <3>1, <3>2
  <2> QED
    BY <1>2, <1>3, <2>3, <2>4 DEF HeapType
<1>8. HeapOK(g)
  <2>1. Placed(g) = v
    BY <1>4 DEF Placed
  <2> QED
    BY <1>1, <1>2, <1>4, <1>6, <1>7, <2>1 DEF HeapOK
<1> QED
  BY <1>1, <1>8

\* An insertion begins with the new element in the last place, in a larger array if need be
\* (binheap.c:72-78).
LEMMA InsertStep ==
    ASSUME HeapOK(heap), NEW p \in Priorities, binheap_insert(p)
    PROVE  HeapOK(heap')
<1>1. PICK h, g, x, n, c :
         /\ h = heap /\ g = heap' /\ x = [prio |-> p, elem |-> h.inserted + 1] /\ n = h.size + 1
         /\ c = IF n > h.capacity THEN 2 * h.capacity ELSE h.capacity
  OBVIOUS
<1>2. HeapOK(h) /\ HeapType(h) /\ h.loop = "none"
  BY <1>1 DEF HeapOK, binheap_insert
<1>3. g = [array |-> [k \in 1 .. c |-> IF k <= h.capacity THEN h.array[k] ELSE NoElement],
           size |-> n, capacity |-> c, loop |-> "raise", i |-> n, x |-> x,
           queued |-> h.queued \cup {x}, inserted |-> h.inserted + 1, min |-> {}]
  BY <1>1 DEF binheap_insert
<1>4. /\ g.array = [k \in 1 .. c |-> IF k <= h.capacity THEN h.array[k] ELSE NoElement]
      /\ g.size = n /\ g.capacity = c /\ g.loop = "raise" /\ g.i = n /\ g.x = x
      /\ g.queued = h.queued \cup {x} /\ g.inserted = h.inserted + 1 /\ g.min = {}
      /\ {"array", "size", "loop", "i", "x", "queued", "min"} \subseteq DOMAIN g
  BY <1>3
<1>5. /\ h.size \in Nat /\ h.capacity \in Nat /\ h.inserted \in Nat /\ h.size <= h.capacity /\ h.capacity >= 1
      /\ h.array \in [1 .. h.capacity -> Elements] /\ h.queued \subseteq Elements
  BY <1>2 DEF HeapType
<1>6. n \in Nat /\ n >= 1 /\ c \in Nat /\ n <= c /\ h.capacity <= c /\ n - 1 = h.size
  BY <1>1, <1>5
<1>7. x \in Elements /\ NoElement \in Elements /\ x.elem = h.inserted + 1
  BY <1>1, <1>5, ContainersAssumption DEF Elements, NoElement
<1>8. HeapType(g)
  <2>1. g.array \in [1 .. c -> Elements]
    <3>1. \A k \in 1 .. c : k <= h.capacity => k \in 1 .. h.capacity
      BY <1>5, <1>6
    <3> QED
      BY <1>4, <1>5, <1>7, <3>1
  <2>2. n \in 1 .. n
    BY <1>6
  <2>3. g.queued \subseteq Elements /\ g.min \subseteq Elements /\ g.inserted \in Nat
    BY <1>4, <1>5, <1>7
  <2> QED
    BY <1>4, <1>6, <1>7, <2>1, <2>2, <2>3 DEF HeapType
<1>9. x \notin h.queued
  <2>1. \A y \in h.queued : y.elem <= h.inserted
    BY <1>2 DEF HeapOK
  <2> QED
    BY <1>5, <1>7, <2>1
<1>10. IsFiniteSet(g.queued) /\ Cardinality(g.queued) = g.size
  <2>1. PICK S : S = h.queued /\ IsFiniteSet(S) /\ Cardinality(S) = h.size
    BY <1>2 DEF HeapOK
  <2>2. IsFiniteSet(S \cup {x}) /\ Cardinality(S \cup {x}) = h.size + 1
    BY <1>9, <2>1, FS_AddElement
  <2> QED
    BY <1>1, <1>4, <2>1, <2>2
<1>11. \A y \in g.queued : y.elem <= g.inserted
  <2>1. \A y \in h.queued : y.elem <= h.inserted /\ y.elem \in Nat
    BY <1>2, <1>5 DEF HeapOK, Elements
  <2> QED
    BY <1>4, <1>5, <1>7, <2>1
<1>12. PICK v : v = Placed(g)
  OBVIOUS
<1>13. v[n] = x /\ \A k \in 1 .. h.size : v[k] = h.array[k]
  <2>1. v = [g.array EXCEPT ![n] = x]
    BY <1>4, <1>12 DEF Placed
  <2>2. n \in 1 .. c /\ \A k \in 1 .. h.size : k \in 1 .. c /\ k <= h.capacity /\ k # n
    BY <1>5, <1>6
  <2>3. DOMAIN g.array = 1 .. c /\ \A k \in 1 .. h.size : g.array[k] = h.array[k]
    BY <1>4, <2>2
  <2> QED
    BY <2>1, <2>2, <2>3
<1>14. Holds(h.array, h.size, h.queued) /\ Ordered(h.array, h.size)
  BY <1>2 DEF HeapOK, Placed
<1>15. \A k \in 1 .. n : k = n \/ k \in 1 .. h.size
  BY <1>5, <1>6
<1>16. Holds(v, n, h.queued \cup {x})
  <2>1. \A k \in 1 .. n : v[k] \in h.queued \cup {x}
    BY <1>13, <1>14, <1>15 DEF Holds
  <2>2. ASSUME NEW y \in h.queued \cup {x} PROVE \E k \in 1 .. n : v[k] = y
    <3>1. CASE y = x
      BY <1>6, <1>13, <3>1
    <3>2. CASE y \in h.queued
      <4>1. PICK k \in 1 .. h.size : h.array[k] = y
        BY <1>14, <3>2 DEF Holds
      <4> QED
        BY <1>5, <1>6, <1>13, <4>1
    <3> QED
      BY <3>1, <3>2
  <2>3. ASSUME NEW j \in 1 .. n, NEW k \in 1 .. n, v[j] = v[k] PROVE j = k
    <3>1. \A m \in 1 .. h.size : v[m] # x
      BY <1>9, <1>13, <1>14 DEF Holds
    <3> QED
      BY <1>13, <1>14, <1>15, <2>3, <3>1 DEF Holds
  <2> QED
    BY <2>1, <2>2, <2>3 DEF Holds
<1>17. RaiseOrder(v, n, n)
  <2> SUFFICES ASSUME NEW k \in 2 .. n
               PROVE  /\ k # n => v[k \div 2].prio <= v[k].prio
                      /\ k \div 2 # n
    BY DEF RaiseOrder
  <2>1. PICK j : j = k \div 2 /\ j >= 1 /\ j \in Nat /\ j < k
    BY Halves
  <2>2. j # n
    BY <1>6, <2>1
  <2>3. k # n => k \in 2 .. h.size /\ k \in 1 .. h.size /\ j \in 1 .. h.size
    BY <1>5, <1>6, <2>1
  <2> QED
    BY <1>13, <1>14, <2>1, <2>2, <2>3 DEF Ordered
<1>18. HeapOK(g)
  BY <1>4, <1>8, <1>10, <1>11, <1>12, <1>16, <1>17 DEF HeapOK
<1> QED
  BY <1>1, <1>18

\* An extraction begins with the last element in the place of the first, which was least
\* (binheap.c:87-93).
LEMMA ExtractStep ==
    ASSUME HeapOK(heap), binheap_extract_min
    PROVE  HeapOK(heap')
<1>1. PICK h, g, a, n, m :
         h = heap /\ g = heap' /\ a = h.array /\ n = h.size /\ m = n - 1
  OBVIOUS
<1>2. HeapOK(h) /\ HeapType(h) /\ h.loop = "none" /\ n > 0
  BY <1>1 DEF HeapOK, binheap_extract_min
<1>3. g = [h EXCEPT !.size = h.size - 1, !.loop = "lower", !.i = 1, !.x = h.array[h.size],
                    !.queued = h.queued \ {h.array[1]}, !.min = {h.array[1]}]
  BY <1>1 DEF binheap_extract_min
<1>4. /\ g.array = a /\ g.size = m /\ g.capacity = h.capacity /\ g.loop = "lower" /\ g.i = 1 /\ g.x = a[n]
      /\ g.queued = h.queued \ {a[1]} /\ g.inserted = h.inserted /\ g.min = {a[1]}
      /\ DOMAIN g = DOMAIN h
  BY <1>1, <1>2, <1>3 DEF HeapType
<1>5. /\ n \in Nat /\ m \in Nat /\ n = m + 1 /\ h.capacity \in Nat /\ h.inserted \in Nat /\ n <= h.capacity
      /\ a \in [1 .. h.capacity -> Elements] /\ h.queued \subseteq Elements
      /\ 1 \in 1 .. n /\ n \in 1 .. n /\ 1 .. n \subseteq 1 .. h.capacity
  BY <1>1, <1>2 DEF HeapType
<1>6. a[1] \in Elements /\ a[n] \in Elements
  BY <1>5
<1>7. HeapType(g)
  <2>1. 1 \in 1 .. h.capacity /\ (m > 0 => 1 <= m) /\ m <= h.capacity
    BY <1>5
  <2>2. g.queued \subseteq Elements /\ g.min \subseteq Elements
    BY <1>4, <1>5, <1>6
  <2> QED
    BY <1>2, <1>4, <1>5, <1>6, <2>1, <2>2 DEF HeapType
<1>8. Holds(a, n, h.queued) /\ Ordered(a, n)
  BY <1>1, <1>2 DEF HeapOK, Placed
<1>9. a[1] \in h.queued
  BY <1>5, <1>8 DEF Holds
<1>10. IsFiniteSet(g.queued) /\ Cardinality(g.queued) = g.size
  <2>1. PICK S, y : S = h.queued /\ y = a[1] /\ IsFiniteSet(S) /\ Cardinality(S) = n
    BY <1>1, <1>2 DEF HeapOK
  <2>2. IsFiniteSet(S \ {y}) /\ Cardinality(S \ {y}) = n - 1
    BY <1>9, <2>1, FS_RemoveElement
  <2> QED
    BY <1>1, <1>4, <2>1, <2>2
<1>11. \A y \in g.queued : y.elem <= g.inserted
  BY <1>2, <1>4 DEF HeapOK
<1>12. \A y \in g.min, z \in g.queued : y.prio <= z.prio
  <2>1. \A k \in 1 .. n : a[k] \in Elements
    BY <1>5
  <2>2. \A k \in 1 .. n : a[1].prio <= a[k].prio
    BY <1>5, <1>8, <2>1, RootLeast
  <2> QED
    BY <1>4, <1>8, <2>2 DEF Holds
<1>13. PICK v : v = Placed(g)
  OBVIOUS
<1>14. v[1] = a[n] /\ \A k \in 1 .. m : k # 1 => v[k] = a[k]
  <2>1. v = [a EXCEPT ![1] = a[n]]
    BY <1>4, <1>13 DEF Placed
  <2>2. DOMAIN a = 1 .. h.capacity /\ 1 .. m \subseteq 1 .. h.capacity
    BY <1>5
  <2> QED
    BY <1>5, <2>1, <2>2
<1>15. \A k \in 1 .. m : k \in 1 .. n /\ k # n
  BY <1>5
<1>16. Holds(v, m, h.queued \ {a[1]})
  <2>1. ASSUME NEW k \in 1 .. m PROVE v[k] \in h.queued \ {a[1]}
    <3>1. CASE k = 1
      <4>1. n # 1
        BY <1>15, <3>1
      <4> QED
        BY <1>5, <1>8, <1>14, <3>1, <4>1 DEF Holds
    <3>2. CASE k # 1
      BY <1>5, <1>8, <1>14, <1>15, <3>2 DEF Holds
    <3> QED
      BY <3>1, <3>2
  <2>2. ASSUME NEW y \in h.queued \ {a[1]} PROVE \E k \in 1 .. m : v[k] = y
    <3>1. PICK k \in 1 .. n : a[k] = y /\ k # 1
      BY <1>8 DEF Holds
    <3>2. CASE k = n
      <4>1. 1 \in 1 .. m
        BY <1>5, <3>1, <3>2
      <4> QED
        BY <1>14, <3>1, <3>2, <4>1
    <3>3. CASE k # n
      <4>1. k \in 1 .. m
        BY <1>5, <3>3
      <4> QED
        BY <1>14, <3>1, <4>1
    <3> QED
      BY <3>2, <3>3
  <2>3. ASSUME NEW j \in 1 .. m, NEW k \in 1 .. m, v[j] = v[k] PROVE j = k
    <3>1. \A i \in 1 .. m : v[i] = a[IF i = 1 THEN n ELSE i]
      BY <1>14
    <3>2. PICK jj, kk : jj = (IF j = 1 THEN n ELSE j) /\ kk = (IF k = 1 THEN n ELSE k)
      OBVIOUS
    <3>3. jj \in 1 .. n /\ kk \in 1 .. n /\ a[jj] = a[kk]
      BY <1>5, <1>15, <2>3, <3>1, <3>2
    <3>4. jj = kk
      BY <1>8, <3>3 DEF Holds
    <3> QED
      BY <1>15, <3>2, <3>4
  <2> QED
    BY <2>1, <2>2, <2>3 DEF Holds
<1>17. LowerOrder(v, m, 1)
  <2> SUFFICES ASSUME NEW k \in 2 .. m, k \div 2 # 1
               PROVE  v[k \div 2].prio <= v[k].prio
    BY DEF LowerOrder
  <2>1. PICK j : j = k \div 2 /\ j \in 1 .. m /\ j # 1 /\ j < k
    BY <1>5, Halves
  <2>2. k \in 1 .. m /\ k # 1 /\ k \in 2 .. n
    BY <1>5
  <2> QED
    BY <1>8, <1>14, <2>1, <2>2 DEF Ordered
<1>18. HeapOK(g)
  BY <1>4, <1>7, <1>10, <1>11, <1>12, <1>13, <1>16, <1>17 DEF HeapOK
<1> QED
  BY <1>1, <1>18

\* An empty queue, whatever the array still has.
LEMMA ResetStep ==
    ASSUME HeapOK(heap), binheap_reset
    PROVE  HeapOK(heap')
<1>1. PICK h, g : h = heap /\ g = heap'
  OBVIOUS
<1>2. HeapOK(h) /\ HeapType(h) /\ h.loop = "none" /\ g = [h EXCEPT !.size = 0, !.queued = {}, !.min = {}]
  BY <1>1 DEF HeapOK, binheap_reset
<1>3. /\ g.array = h.array /\ g.size = 0 /\ g.capacity = h.capacity /\ g.loop = "none" /\ g.i = h.i /\ g.x = h.x
      /\ g.queued = {} /\ g.inserted = h.inserted /\ g.min = {} /\ DOMAIN g = DOMAIN h
  BY <1>2 DEF HeapType
<1>4. HeapType(g)
  BY <1>2, <1>3 DEF HeapType
<1>5. Holds(Placed(g), 0, {}) /\ Ordered(g.array, 0)
  BY DEF Holds, Ordered
<1>6. HeapOK(g)
  BY <1>3, <1>4, <1>5, FS_EmptySet DEF HeapOK
<1> QED
  BY <1>1, <1>6

\* A new queue is one.
LEMMA HeapBegins == HeapOK(binheap_new)
<1>1. PICK g : g = binheap_new
  OBVIOUS
<1>2. /\ g.array = [k \in 1 .. MinCapacity |-> NoElement] /\ g.size = 0 /\ g.capacity = MinCapacity
      /\ g.loop = "none" /\ g.i = 0 /\ g.x = NoElement
      /\ g.queued = {} /\ g.inserted = 0 /\ g.min = {}
      /\ {"array", "size", "loop", "i", "x", "queued", "min"} \subseteq DOMAIN g
  BY <1>1 DEF binheap_new
<1>3. NoElement \in Elements
  BY DEF NoElement, Elements
<1>4. HeapType(g)
  BY <1>2, <1>3, ContainersAssumption DEF HeapType
<1>5. Holds(Placed(g), 0, {}) /\ Ordered(g.array, 0)
  BY DEF Holds, Ordered
<1> QED
  BY <1>1, <1>2, <1>4, <1>5, FS_EmptySet DEF HeapOK

(***************************************************************************)
(* The slabs.                                                              *)
(***************************************************************************)
Apart(x, y) == x.slab = y.slab => x.to <= y.from \/ y.to <= x.from

\* What was given out lies in the slabs up to the last, and in that before cur.
SlabOK(s) ==
    /\ {"last", "cur", "live"} \subseteq DOMAIN s
    /\ s.chain \in Nat /\ s.last \in Nat /\ s.cur \in Nat
    /\ 1 <= s.last /\ s.last <= s.chain /\ s.cur <= slab_size
    /\ \A x \in s.live : /\ x.slab \in Nat /\ x.from \in Nat /\ x.to \in Nat /\ x.to <= slab_size
                         /\ x.slab <= s.last /\ (x.slab = s.last => x.to <= s.cur)
    /\ \A x, y \in s.live : x # y => Apart(x, y)

\* A request is given what is behind all others in the last slab, or in a new one
\* (slab.c:80-99).
LEMMA AllocStep ==
    ASSUME SlabOK(slab), NEW bytes \in Sizes, slab_alloc(bytes)
    PROVE  SlabOK(slab')
<1>1. PICK s, g, at, begin, x :
         /\ s = slab /\ g = slab' /\ at = (IF Full(bytes) THEN s.last + 1 ELSE s.last)
         /\ begin = (IF Full(bytes) THEN 0 ELSE s.cur) /\ x = [slab |-> at, from |-> begin, to |-> begin + bytes]
  OBVIOUS
<1>2. SlabOK(s) /\ bytes \in Nat /\ slab_size \in Nat /\ bytes <= slab_size
  BY <1>1, ContainersAssumption DEF slab_alloc
<1>3. g = [chain |-> IF at > s.chain THEN at ELSE s.chain, last |-> at, cur |-> begin + bytes, live |-> s.live \cup {x}]
  BY <1>1 DEF slab_alloc
<1>4. /\ g.chain = (IF at > s.chain THEN at ELSE s.chain) /\ g.last = at /\ g.cur = begin + bytes
      /\ g.live = s.live \cup {x} /\ {"last", "cur", "live"} \subseteq DOMAIN g
      /\ x.slab = at /\ x.from = begin /\ x.to = begin + bytes
  BY <1>1, <1>3
<1>5. /\ s.chain \in Nat /\ s.last \in Nat /\ s.cur \in Nat
      /\ 1 <= s.last /\ s.last <= s.chain /\ s.cur <= slab_size
      /\ \A y \in s.live : /\ y.slab \in Nat /\ y.from \in Nat /\ y.to \in Nat /\ y.to <= slab_size
                           /\ y.slab <= s.last /\ (y.slab = s.last => y.to <= s.cur)
      /\ \A y, z \in s.live : y # z => Apart(y, z)
  BY <1>2 DEF SlabOK
<1>6. /\ at \in Nat /\ begin \in Nat /\ begin + bytes \in Nat /\ begin + bytes <= slab_size
      /\ at >= s.last /\ (at = s.last => begin = s.cur)
  BY <1>1, <1>2, <1>5 DEF Full
<1>7. ASSUME NEW y \in s.live
      PROVE  y.slab <= at /\ (y.slab = at => y.to <= begin /\ y.to <= begin + bytes)
  BY <1>2, <1>5, <1>6
<1>8. ASSUME NEW y \in g.live
      PROVE  /\ y.slab \in Nat /\ y.from \in Nat /\ y.to \in Nat /\ y.to <= slab_size
             /\ y.slab <= at /\ (y.slab = at => y.to <= begin + bytes)
  BY <1>4, <1>5, <1>6, <1>7
<1>9. ASSUME NEW y \in g.live, NEW z \in g.live, y # z PROVE Apart(y, z)
  BY <1>4, <1>5, <1>7, <1>9 DEF Apart
<1>10. g.chain \in Nat /\ 1 <= at /\ at <= g.chain
  BY <1>4, <1>5, <1>6
<1>11. SlabOK(g)
  BY <1>4, <1>6, <1>8, <1>9, <1>10 DEF SlabOK
<1> QED
  BY <1>1, <1>11

\* Nothing is given out after slab_free, and the chain of slabs stays.
LEMMA FreeStep ==
    ASSUME SlabOK(slab), slab_free
    PROVE  SlabOK(slab')
<1>1. PICK s, g : s = slab /\ g = slab'
  OBVIOUS
<1>2. SlabOK(s) /\ g = [s EXCEPT !.last = 1, !.cur = 0, !.live = {}]
  BY <1>1 DEF slab_free
<1>3. g.chain = s.chain /\ g.last = 1 /\ g.cur = 0 /\ g.live = {} /\ DOMAIN g = DOMAIN s
  BY <1>2 DEF SlabOK
<1>4. SlabOK(g)
  BY <1>2, <1>3, ContainersAssumption DEF SlabOK
<1> QED
  BY <1>1, <1>4

\* The queue and the allocator keep their promises for all priorities and sizes, however the
\* calls follow each other (binheap.c:75-105, slab.c:80-106).
THEOREM ContainersKeep == ContainersSpec => []ContainersSound
<1> DEFINE Inv == HeapOK(heap) /\ SlabOK(slab)
<1>1. ContainersInit => Inv
  <2>1. SlabOK(slab_init)
    <3>1. PICK s : s = slab_init
      OBVIOUS
    <3>2. s.chain = 1 /\ s.last = 1 /\ s.cur = 0 /\ s.live = {} /\ {"last", "cur", "live"} \subseteq DOMAIN s
      BY <3>1 DEF slab_init
    <3>3. SlabOK(s)
      BY <3>2, ContainersAssumption DEF SlabOK
    <3> QED
      BY <3>1, <3>3
  <2> QED
    BY <2>1, HeapBegins DEF ContainersInit
<1>2. Inv /\ [HeapNext \/ SlabNext]_container_vars => Inv'
  <2> SUFFICES ASSUME HeapOK(heap), SlabOK(slab), [HeapNext \/ SlabNext]_container_vars
               PROVE  HeapOK(heap') /\ SlabOK(slab')
    OBVIOUS
  <2>1. CASE HeapNext
    <3>1. HeapOK(heap')
      BY <2>1, InsertStep, ExtractStep, ResetStep, RaiseStep, LowerStep, SettleStep DEF HeapNext
    <3>2. UNCHANGED slab
      BY <2>1 DEF HeapNext, binheap_insert, binheap_extract_min, binheap_reset, Raise, Lower, MoveTo, Settle
    <3> QED
      BY <3>1, <3>2
  <2>2. CASE SlabNext
    <3>1. SlabOK(slab')
      BY <2>2, AllocStep, FreeStep DEF SlabNext
    <3>2. UNCHANGED heap
      BY <2>2 DEF SlabNext, slab_alloc, slab_free
    <3> QED
      BY <3>1, <3>2
  <2>3. CASE UNCHANGED container_vars
    BY <2>3 DEF container_vars
  <2> QED
    BY <2>1, <2>2, <2>3
<1>3. Inv => ContainersSound
  <2> SUFFICES ASSUME HeapOK(heap), SlabOK(slab) PROVE QueueInOrder /\ AllocationsDisjoint
    BY DEF ContainersSound
  <2>1. QueueInOrder
    <3>1. heap.loop = "none" => {heap.array[k] : k \in 1 .. heap.size} = heap.queued
      BY DEF HeapOK, Placed, Holds
    <3> QED
      BY <3>1 DEF QueueInOrder, HeapOK, HeapType
  <2>2. AllocationsDisjoint
    <3>1. \A x \in slab.live : x.slab <= slab.chain /\ x.to <= slab_size
      BY DEF SlabOK
    <3> QED
      BY <3>1 DEF AllocationsDisjoint, SlabOK, Apart
  <2> QED
    BY <2>1, <2>2
<1> QED
  BY <1>1, <1>2, <1>3, PTL DEF ContainersSpec

--------------------------------------------------------------------------------
(***************************************************************************)
(* The grid.                                                               *)
(***************************************************************************)
\* Multiples are ordered as their factors are.
LEMMA FactorLess ==
    ASSUME NEW m \in Int, NEW n \in Int, NEW d \in Nat \ {0}, m * d < n * d
    PROVE  m < n
<1> SUFFICES ASSUME m >= n PROVE FALSE
  OBVIOUS
<1>1. PICK e \in Nat : m = n + e
  <2>1. m - n \in Nat /\ m = n + (m - n)
    OBVIOUS
  <2> QED
    BY <2>1
<1>2. m * d = n * d + e * d /\ e * d \in Nat /\ n * d \in Int
  BY <1>1
<1> QED
  BY <1>2

\* The bin after the one of n is the one of n + 1.
LEMMA NextBin ==
    ASSUME NEW n \in Nat, NEW d \in Nat \ {0}
    PROVE  ((n % d) + 1) % d = (n + 1) % d
<1>1. PICK q, m : q = n \div d /\ m = n % d
  OBVIOUS
<1>2. q \in Nat /\ m \in 0 .. d - 1 /\ n = q * d + m
  BY <1>1, Division
<1>3. CASE m + 1 < d
  <2>1. PICK k : k = m + 1
    OBVIOUS
  <2>2. k \in 0 .. d - 1 /\ n + 1 = q * d + k
    BY <1>2, <1>3, <2>1
  <2>3. (n + 1) % d = k
    BY <1>2, <2>2, DivisionUnique
  <2>4. k % d = k
    BY <2>2
  <2> QED
    BY <1>1, <2>1, <2>3, <2>4
<1>4. CASE m + 1 = d
  <2>1. PICK k \in Nat : k = q + 1
    BY <1>2
  <2>2. n + 1 = k * d + 0 /\ 0 \in 0 .. d - 1
    BY <1>2, <1>4, <2>1
  <2>3. (n + 1) % d = 0
    <3>1. PICK z : z = 0 /\ z \in 0 .. d - 1 /\ n + 1 = k * d + z
      BY <2>2
    <3>2. (k * d + z) % d = z
      BY <3>1, DivisionUnique
    <3> QED
      BY <3>1, <3>2
  <2>4. d % d = 0
    OBVIOUS
  <2> QED
    BY <1>1, <1>4, <2>3, <2>4
<1> QED
  BY <1>2, <1>3, <1>4

\* Numbers less than d apart have the same remainder only if they are equal.
LEMMA SameBin ==
    ASSUME NEW n \in Nat, NEW m \in Nat, NEW d \in Nat \ {0}, n <= m, m - n < d, n % d = m % d
    PROVE  n = m
<1>1. PICK q, p, k : q = n \div d /\ p = m \div d /\ k = n % d
  OBVIOUS
<1>2. q \in Nat /\ p \in Nat /\ k \in 0 .. d - 1 /\ n = q * d + k /\ m = p * d + k
  BY <1>1, Division
<1>3. PICK u \in Int : u = q + 1
  BY <1>2
<1>4. p * d < u * d
  BY <1>2, <1>3
<1>5. PICK w \in Int : w = p + 1
  BY <1>2
<1>6. q * d < w * d
  BY <1>2, <1>5
<1>7. p < u /\ q < w
  BY <1>2, <1>4, <1>6, FactorLess
<1> QED
  BY <1>2, <1>3, <1>5, <1>7

\* A point between two others is in a bin between theirs.
LEMMA BinsBetween ==
    ASSUME NEW m \in Nat, NEW n \in Nat, m <= n, NEW d \in Nat \ {0}
    PROVE  m \div d <= n \div d
<1>1. PICK q, p, j, k : q = m \div d /\ p = n \div d /\ j = m % d /\ k = n % d
  OBVIOUS
<1>2. q \in Nat /\ p \in Nat /\ j \in 0 .. d - 1 /\ k \in 0 .. d - 1 /\ m = q * d + j /\ n = p * d + k
  BY <1>1, Division
<1>3. PICK w \in Int : w = p + 1
  BY <1>2
<1>4. q * d < w * d
  BY <1>2, <1>3
<1>5. q < w
  BY <1>2, <1>4, FactorLess
<1> QED
  BY <1>1, <1>2, <1>3, <1>5

\* A box that is smaller than the grid has no bin twice.
LEMMA BoxFits ==
    ASSUME NEW m \in Nat, NEW n \in Nat, NEW d \in Nat \ {0}, NEW g \in Nat \ {0}, n - m < (g - 1) * d
    PROVE  (n \div d) - (m \div d) < g
<1>1. PICK q, p, j, k : q = m \div d /\ p = n \div d /\ j = m % d /\ k = n % d
  OBVIOUS
<1>2. q \in Nat /\ p \in Nat /\ j \in 0 .. d - 1 /\ k \in 0 .. d - 1 /\ m = q * d + j /\ n = p * d + k
  BY <1>1, Division
<1>3. PICK e \in Int, w \in Int : e = g - 1 /\ w = q + e + 1
  BY <1>2
<1>4. w * d = q * d + e * d + d /\ e * d \in Int /\ q * d \in Int /\ p * d \in Int /\ w * d \in Int
  BY <1>2, <1>3
<1>5. p * d < w * d
  BY <1>2, <1>3, <1>4
<1>6. p < w
  BY <1>2, <1>5, FactorLess
<1> QED
  BY <1>1, <1>2, <1>3, <1>6

\* What is nearer than the radius is so along each axis.
LEMMA NearAlongAxis ==
    ASSUME NEW m \in Int, NEW n \in Int, NEW d \in Nat, m * m + n * n < d * d
    PROVE  -d < m /\ m < d
<1>1. n * n >= 0 /\ n * n \in Int /\ m * m \in Int /\ d * d \in Int
  OBVIOUS
<1>2. m * m < d * d
  BY <1>1
<1>3. ASSUME NEW e \in Nat, e * e < d * d PROVE e < d
  <2> SUFFICES ASSUME e >= d PROVE FALSE
    OBVIOUS
  <2>1. PICK f \in Nat : e = d + f
    <3>1. e - d \in Nat /\ e = d + (e - d)
      OBVIOUS
    <3> QED
      BY <3>1
  <2>2. e * e = d * d + 2 * (d * f) + f * f /\ d * f \in Nat /\ f * f \in Nat /\ d * d \in Nat
    BY <2>1
  <2> QED
    BY <1>3, <2>2
<1>4. CASE m >= 0
  BY <1>2, <1>3, <1>4
<1>5. CASE m < 0
  <2>1. PICK e \in Nat : e = -m
    BY <1>5
  <2>2. e * e = m * m
    BY <2>1
  <2> QED
    BY <1>2, <1>3, <1>5, <2>1, <2>2
<1> QED
  BY <1>4, <1>5

\* Every number has a bin.
LEMMA BinIsOne ==
    ASSUME NEW x \in Int
    PROVE  bin(x) \in 0 .. grid_dim - 1
<1>1. PICK m \in Nat : m = Magnitude(x)
  BY DEF Magnitude
<1>2. m \div bin_size \in Nat
  BY HashGridAssumption, Division
<1> QED
  BY <1>1, <1>2, HashGridAssumption, Division DEF bin

\* Every point has a cell, and it is a row and a column.
LEMMA CellIsOne ==
    ASSUME NEW points \in [Item -> Coords], NEW i \in Item
    PROVE  /\ cell(points[i]) \in Cells
           /\ cell(points[i])[1] \in Int /\ cell(points[i])[2] \in Int /\ i \in Int
           /\ cell(points[i]) = <<cell(points[i])[1], cell(points[i])[2]>>
<1>1. points[i].x \in Int /\ points[i].y \in Int
  BY HashGridAssumption
<1>2. PICK u, v : u = bin(points[i].y) /\ v = bin(points[i].x)
  OBVIOUS
<1>3. u \in 0 .. grid_dim - 1 /\ v \in 0 .. grid_dim - 1 /\ cell(points[i]) = <<u, v>>
  BY <1>1, <1>2, BinIsOne DEF cell
<1>4. u \in Int /\ v \in Int /\ i \in Int
  BY <1>3, HashGridAssumption DEF Item
<1> QED
  BY <1>3, <1>4 DEF Cells

\* The items that come before one in the array, and where that leaves it.
Earlier(points, i) == InBinsBefore(points, cell(points[i])) \cup {j \in InBin(points, cell(points[i])) : j < i}
Place(points, i) == Cardinality(InBinsBefore(points, cell(points[i]))) + Rank(points, i) + 1

\* An item is behind those that come before it, and its rank is less than the number of its bin.
LEMMA PlaceCounts ==
    ASSUME NEW points \in [Item -> Coords], NEW i \in Item
    PROVE  /\ Earlier(points, i) \subseteq Item \ {i}
           /\ IsFiniteSet(Earlier(points, i)) /\ Cardinality(Earlier(points, i)) \in Nat
           /\ Place(points, i) = Cardinality(Earlier(points, i)) + 1
           /\ Rank(points, i) \in Nat
           /\ Rank(points, i) < Cardinality(InBin(points, cell(points[i])))
<1>1. IsFiniteSet(Item)
  BY HashGridAssumption, FS_Interval DEF Item
<1>2. PICK A, B, C, d : /\ A = InBinsBefore(points, cell(points[i])) /\ C = InBin(points, cell(points[i]))
                        /\ B = {j \in C : j < i} /\ d = cell(points[i])
  OBVIOUS
<1>3. A \subseteq Item /\ C \subseteq Item /\ B \subseteq C \ {i} /\ i \in C
  BY <1>2 DEF InBinsBefore, InBin, Item
<1>4. A \cap C = {} /\ i \notin A
  BY <1>2, <1>3, CellIsOne DEF InBinsBefore, InBin
<1>5. IsFiniteSet(A) /\ IsFiniteSet(B) /\ IsFiniteSet(C)
  BY <1>1, <1>3, FS_Subset
<1>6. Cardinality(A) \in Nat /\ Cardinality(B) \in Nat /\ Cardinality(C) \in Nat
  BY <1>5, FS_CardinalityType
<1>7. IsFiniteSet(A \cup B) /\ Cardinality(A \cup B) = Cardinality(A) + Cardinality(B)
  <2>1. A \cap B = {}
    BY <1>3, <1>4
  <2> QED
    BY <1>5, <1>6, <2>1, FS_Union, FS_EmptySet
<1>8. Cardinality(B) < Cardinality(C)
  <2>1. Cardinality(B) <= Cardinality(C) /\ Cardinality(C) # Cardinality(B)
    <3>1. B \in SUBSET C /\ C # B
      BY <1>3
    <3> QED
      BY <1>5, <3>1, FS_Subset
  <2> QED
    BY <1>6, <2>1
<1> QED
  BY <1>2, <1>3, <1>4, <1>6, <1>7, <1>8 DEF Earlier, Place, Rank

\* No two items have the same place.
LEMMA PlacesDiffer ==
    ASSUME NEW points \in [Item -> Coords], NEW i \in Item, NEW j \in Item, i # j
    PROVE  Place(points, i) # Place(points, j)
<1> DEFINE Ahead(h, k) == LET c == cell(points[h])
                              d == cell(points[k])
                          IN  c[1] < d[1] \/ (c[1] = d[1] /\ c[2] < d[2]) \/ (c = d /\ h < k)
<1>1. ASSUME NEW h \in Item, NEW k \in Item, Ahead(h, k) PROVE Place(points, h) < Place(points, k)
  <2>1. PICK S, T : S = Earlier(points, h) /\ T = Earlier(points, k)
    OBVIOUS
  <2>2. S \cup {h} \subseteq T /\ h \notin S
    <3>1. PICK c, d : c = cell(points[h]) /\ d = cell(points[k])
      OBVIOUS
    <3>2. /\ c[1] \in Int /\ c[2] \in Int /\ d[1] \in Int /\ d[2] \in Int /\ h \in Int /\ k \in Int
          /\ \A m \in Item : cell(points[m])[1] \in Int /\ cell(points[m])[2] \in Int /\ m \in Int
      BY <3>1, CellIsOne
    <3>3. h \in T
      BY <1>1, <2>1, <3>1 DEF Earlier, InBinsBefore, InBin
    <3>4. ASSUME NEW m \in S PROVE m \in T
      <4>1. PICK e : e = cell(points[m]) /\ m \in Item /\ e[1] \in Int /\ e[2] \in Int /\ m \in Int
        BY <2>1, <3>2 DEF Earlier, InBinsBefore, InBin
      <4>2. (e[1] < c[1] \/ (e[1] = c[1] /\ e[2] < c[2])) \/ (e = c /\ m < h)
        BY <2>1, <3>1, <4>1 DEF Earlier, InBinsBefore, InBin
      <4>3. (c[1] < d[1] \/ (c[1] = d[1] /\ c[2] < d[2])) \/ (c = d /\ h < k)
        BY <1>1, <3>1
      <4>4. (e[1] < d[1] \/ (e[1] = d[1] /\ e[2] < d[2])) \/ (e = d /\ m < k)
        <5>1. CASE c = d
          BY <3>2, <4>1, <4>2, <4>3, <5>1
        <5>2. CASE e = c
          BY <3>2, <4>1, <4>2, <4>3, <5>2
        <5>3. CASE c # d /\ e # c
          BY <3>2, <4>1, <4>2, <4>3, <5>3
        <5> QED
          BY <5>1, <5>2, <5>3
      <4> QED
        BY <2>1, <3>1, <4>1, <4>4 DEF Earlier, InBinsBefore, InBin
    <3>5. h \notin S
      BY <2>1, PlaceCounts
    <3> QED
      BY <3>3, <3>4, <3>5
  <2>3. IsFiniteSet(S) /\ IsFiniteSet(T) /\ Cardinality(S) \in Nat /\ Cardinality(T) \in Nat
    BY <2>1, PlaceCounts
  <2>4. Cardinality(S \cup {h}) = Cardinality(S) + 1
    BY <2>2, <2>3, FS_AddElement
  <2>5. Cardinality(S \cup {h}) <= Cardinality(T)
    BY <2>2, <2>3, FS_Subset
  <2> QED
    BY <2>1, <2>3, <2>4, <2>5, PlaceCounts
<1>2. Ahead(i, j) \/ Ahead(j, i)
  <2>1. PICK c, d : c = cell(points[i]) /\ d = cell(points[j])
    OBVIOUS
  <2>2. /\ c[1] \in Int /\ c[2] \in Int /\ d[1] \in Int /\ d[2] \in Int /\ i \in Int /\ j \in Int
        /\ c = <<c[1], c[2]>> /\ d = <<d[1], d[2]>>
    BY <2>1, CellIsOne
  <2>3. c[1] = d[1] /\ c[2] = d[2] => c = d
    BY <2>2
  <2> QED
    BY <2>1, <2>2, <2>3
<1>3. Place(points, i) \in Int /\ Place(points, j) \in Int
  <2>1. \A k \in Item : Cardinality(Earlier(points, k)) \in Nat /\ Place(points, k) = Cardinality(Earlier(points, k)) + 1
    BY PlaceCounts
  <2> QED
    BY <2>1
<1> QED
  BY <1>1, <1>2, <1>3

\* Every place is in the array.
LEMMA PlaceInArray ==
    ASSUME NEW points \in [Item -> Coords], NEW i \in Item
    PROVE  Place(points, i) \in 1 .. n_items
<1>1. PICK S : S = Item /\ IsFiniteSet(S) /\ Cardinality(S) = n_items
  <2>1. n_items - 1 \in Int /\ n_items \in Nat
    BY HashGridAssumption
  <2>2. IsFiniteSet(0 .. n_items - 1) /\ Cardinality(0 .. n_items - 1) = n_items
    BY <2>1, FS_Interval
  <2> QED
    BY <2>2 DEF Item
<1>2. IsFiniteSet(S \ {i}) /\ Cardinality(S \ {i}) = n_items - 1
  BY <1>1, FS_RemoveElement
<1>3. Cardinality(Earlier(points, i)) <= n_items - 1
  <2>1. Earlier(points, i) \subseteq S \ {i}
    BY <1>1, PlaceCounts
  <2> QED
    BY <1>2, <2>1, FS_Subset
<1>4. Cardinality(Earlier(points, i)) \in Nat /\ Place(points, i) = Cardinality(Earlier(points, i)) + 1
  BY PlaceCounts
<1> QED
  BY <1>3, <1>4, HashGridAssumption

\* Every place has an item: there are as many of the ones as of the others.
LEMMA PlacesFilled ==
    ASSUME NEW points \in [Item -> Coords], NEW p \in 1 .. n_items
    PROVE  \E i \in Item : Place(points, i) = p
<1> SUFFICES ASSUME \A i \in Item : Place(points, i) # p PROVE FALSE
  OBVIOUS
<1>1. PICK S, T, f : S = Item /\ T = (1 .. n_items) \ {p} /\ f = [i \in Item |-> Place(points, i)]
  OBVIOUS
<1>2. IsFiniteSet(S) /\ Cardinality(S) = n_items
  <2>1. n_items - 1 \in Int /\ n_items \in Nat
    BY HashGridAssumption
  <2>2. IsFiniteSet(0 .. n_items - 1) /\ Cardinality(0 .. n_items - 1) = n_items
    BY <2>1, FS_Interval
  <2> QED
    BY <1>1, <2>2 DEF Item
<1>3. IsFiniteSet(T) /\ Cardinality(T) = n_items - 1
  <2>1. PICK U : U = 1 .. n_items /\ IsFiniteSet(U) /\ Cardinality(U) = n_items
    BY HashGridAssumption, FS_Interval
  <2> QED
    BY <1>1, <2>1, FS_RemoveElement
<1>4. f \in [S -> T]
  BY <1>1, PlaceInArray
<1>5. Cardinality(T) < Cardinality(S)
  BY <1>2, <1>3, HashGridAssumption
<1>6. PICK i \in S, j \in S : i # j /\ f[i] = f[j]
  BY <1>2, <1>3, <1>4, <1>5, FS_PigeonHole
<1> QED
  BY <1>1, <1>6, PlacesDiffer

\* The grid has each item where its bin and its rank there say.
GridOf(points, g) ==
    /\ DOMAIN g.items = 1 .. n_items /\ \A p \in 1 .. n_items : g.items[p] \in Item
    /\ \A i \in Item : LET c == cell(points[i])
                           p == g.bins[c] + Rank(points, i) + 1
                       IN  /\ p \in 1 .. n_items /\ g.items[p] = i
                           /\ Rank(points, i) \in Nat /\ Rank(points, i) < g.counts[c]
    /\ \A c \in Cells : g.bins[c] \in Nat /\ g.counts[c] \in Nat

\* HashGrid_init fills it like that (hashgrid.c:153-176).
LEMMA GridIsFilled ==
    ASSUME NEW points \in [Item -> Coords]
    PROVE  GridOf(points, HashGrid_init(points))
<1>1. PICK g : g = HashGrid_init(points)
  OBVIOUS
<1>2. /\ g.bins = [c \in Cells |-> Cardinality(InBinsBefore(points, c))]
      /\ g.counts = [c \in Cells |-> Cardinality(InBin(points, c))]
      /\ g.items = [p \in 1 .. n_items |-> CHOOSE i \in Item : p = g.bins[cell(points[i])] + Rank(points, i) + 1]
  BY <1>1 DEF HashGrid_init
<1>3. ASSUME NEW p \in 1 .. n_items PROVE g.items[p] \in Item /\ Place(points, g.items[p]) = p
  <2>1. \A i \in Item : Place(points, i) = g.bins[cell(points[i])] + Rank(points, i) + 1
    BY <1>2, CellIsOne DEF Place
  <2>2. \E i \in Item : p = g.bins[cell(points[i])] + Rank(points, i) + 1
    BY <2>1, PlacesFilled
  <2>3. g.items[p] = CHOOSE i \in Item : p = g.bins[cell(points[i])] + Rank(points, i) + 1
    BY <1>2
  <2> QED
    BY <2>1, <2>2, <2>3
<1>4. ASSUME NEW i \in Item
      PROVE  LET c == cell(points[i])
                 p == g.bins[c] + Rank(points, i) + 1
             IN  /\ p \in 1 .. n_items /\ g.items[p] = i
                 /\ Rank(points, i) \in Nat /\ Rank(points, i) < g.counts[c]
  <2>1. cell(points[i]) \in Cells
    BY CellIsOne
  <2>2. PICK p : p = g.bins[cell(points[i])] + Rank(points, i) + 1
    OBVIOUS
  <2>3. p = Place(points, i)
    BY <1>2, <2>1, <2>2 DEF Place
  <2>4. p \in 1 .. n_items
    BY <2>3, PlaceInArray
  <2>5. g.items[p] = i
    BY <1>3, <2>3, <2>4, PlacesDiffer
  <2>6. Rank(points, i) \in Nat /\ Rank(points, i) < g.counts[cell(points[i])]
    BY <1>2, <2>1, PlaceCounts
  <2> QED
    BY <2>2, <2>4, <2>5, <2>6
<1>5. ASSUME NEW c \in Cells PROVE g.bins[c] \in Nat /\ g.counts[c] \in Nat
  <2>1. IsFiniteSet(Item)
    BY HashGridAssumption, FS_Interval DEF Item
  <2>2. IsFiniteSet(InBinsBefore(points, c)) /\ IsFiniteSet(InBin(points, c))
    <3>1. InBinsBefore(points, c) \in SUBSET Item /\ InBin(points, c) \in SUBSET Item
      BY DEF InBinsBefore, InBin
    <3> QED
      BY <2>1, <3>1, FS_Subset
  <2> QED
    BY <1>2, <2>2, FS_CardinalityType
<1>6. DOMAIN g.items = 1 .. n_items
  BY <1>2
<1> QED
  BY <1>1, <1>3, <1>4, <1>5, <1>6 DEF GridOf

(***************************************************************************)
(* The query.  Its bins are counted from the corner of the box, before     *)
(* they wrap around.                                                       *)
(***************************************************************************)
Row(q) == q.min.y \div bin_size
Column(q) == q.min.x \div bin_size
Rows(q) == (q.max.y \div bin_size) - Row(q)
Columns(q) == (q.max.x \div bin_size) - Column(q)
BinAt(q, b, a) == <<(Row(q) + b) % grid_dim, (Column(q) + a) % grid_dim>>

\* The fields that HashGrid_query sets once, and a query that has them.
SetOnce(q) == <<q.coord, q.radius, q.min, q.max, q.xmin, q.ymin, q.xmax, q.ymax>>
QueryOf(q) ==
    /\ {"x", "y", "i", "has_next"} \subseteq DOMAIN q
    /\ q.coord.x \in Int /\ q.coord.y \in Int /\ q.radius \in Nat
    /\ q.min.x = q.coord.x - q.radius /\ q.min.y = q.coord.y - q.radius
    /\ q.max.x = q.coord.x + q.radius /\ q.max.y = q.coord.y + q.radius
    /\ q.xmin = bin(q.min.x) /\ q.ymin = bin(q.min.y) /\ q.xmax = bin(q.max.x) /\ q.ymax = bin(q.max.y)

InOrder(q) ==
    /\ q.min.x >= 0 /\ q.min.y >= 0
    /\ (q.max.x - q.min.x) < (grid_dim - 1) * bin_size /\ (q.max.y - q.min.y) < (grid_dim - 1) * bin_size

\* The items of the bins before that at b and a, and of that up to rank n, are in S.
Passed(points, q, S, b, a, n) ==
    \A i \in Item, y \in 0 .. Rows(q), x \in 0 .. Columns(q) :
       /\ cell(points[i]) = BinAt(q, y, x)
       /\ y < b \/ (y = b /\ x < a) \/ (y = b /\ x = a /\ Rank(points, i) <= n)
       => i \in S

\* A query in order has passed all bins up to its place, and when it is over all of them.
Walked(points, q, S) ==
    IF q.has_next
    THEN \E b \in 0 .. Rows(q), a \in 0 .. Columns(q) :
           q.y = BinAt(q, b, a)[1] /\ q.x = BinAt(q, b, a)[2] /\ q.i \in Nat /\ Passed(points, q, S, b, a, q.i)
    ELSE \A i \in Item, y \in 0 .. Rows(q), x \in 0 .. Columns(q) : cell(points[i]) = BinAt(q, y, x) => i \in S

\* The bins along one side of a box.
LEMMA SideOfBox ==
    ASSUME NEW m \in Int, NEW n \in Int, m >= 0, n >= m, n - m < (grid_dim - 1) * bin_size
    PROVE  /\ m \div bin_size \in Nat /\ (n \div bin_size) - (m \div bin_size) \in Nat
           /\ (n \div bin_size) - (m \div bin_size) < grid_dim
           /\ bin(m) = (m \div bin_size) % grid_dim
           /\ bin(n) = ((m \div bin_size) + ((n \div bin_size) - (m \div bin_size))) % grid_dim
<1>1. m \in Nat /\ n \in Nat /\ bin_size \in Nat \ {0} /\ grid_dim \in Nat \ {0} /\ m <= n
  BY HashGridAssumption
<1>2. PICK q, p : q = m \div bin_size /\ p = n \div bin_size
  OBVIOUS
<1>3. q \in Nat /\ p \in Nat
  BY <1>1, <1>2, Division
<1>4. q <= p
  BY <1>1, <1>2, BinsBetween
<1>5. p - q < grid_dim
  BY <1>1, <1>2, BoxFits
<1>6. bin(m) = q % grid_dim /\ bin(n) = p % grid_dim
  BY <1>1, <1>2 DEF bin, Magnitude
<1>7. q + (p - q) = p /\ p - q \in Nat
  BY <1>3, <1>4
<1> QED
  BY <1>2, <1>3, <1>5, <1>6, <1>7

\* The corners of a query in order, counted like that.
LEMMA BoxOfQuery ==
    ASSUME NEW q, QueryOf(q), InOrder(q)
    PROVE  /\ Row(q) \in Nat /\ Column(q) \in Nat /\ Rows(q) \in Nat /\ Columns(q) \in Nat
           /\ Rows(q) < grid_dim /\ Columns(q) < grid_dim
           /\ q.ymin = Row(q) % grid_dim /\ q.xmin = Column(q) % grid_dim
           /\ q.ymax = (Row(q) + Rows(q)) % grid_dim /\ q.xmax = (Column(q) + Columns(q)) % grid_dim
<1>1. /\ q.min.x \in Int /\ q.min.y \in Int /\ q.max.x \in Int /\ q.max.y \in Int
      /\ q.min.x >= 0 /\ q.min.y >= 0 /\ q.max.x >= q.min.x /\ q.max.y >= q.min.y
      /\ q.max.x - q.min.x < (grid_dim - 1) * bin_size /\ q.max.y - q.min.y < (grid_dim - 1) * bin_size
  BY DEF QueryOf, InOrder
<1>2. q.xmin = bin(q.min.x) /\ q.ymin = bin(q.min.y) /\ q.xmax = bin(q.max.x) /\ q.ymax = bin(q.max.y)
  BY DEF QueryOf
<1> QED
  BY <1>1, <1>2, SideOfBox DEF Row, Column, Rows, Columns

\* The last bin is known by its number, and the one after another follows it.
LEMMA BinsInBox ==
    ASSUME NEW q, QueryOf(q), InOrder(q), NEW b \in 0 .. Rows(q), NEW a \in 0 .. Columns(q)
    PROVE  /\ BinAt(q, b, a) \in Cells
           /\ BinAt(q, b, a)[2] = q.xmax <=> a = Columns(q)
           /\ BinAt(q, b, a)[1] = q.ymax <=> b = Rows(q)
           /\ BinAt(q, b, 0)[2] = q.xmin /\ BinAt(q, 0, a)[1] = q.ymin
           /\ (BinAt(q, b, a)[2] + 1) % grid_dim = BinAt(q, b, a + 1)[2]
           /\ (BinAt(q, b, a)[1] + 1) % grid_dim = BinAt(q, b + 1, a)[1]
<1>1. PICK row, column, rows, columns : row = Row(q) /\ column = Column(q) /\ rows = Rows(q) /\ columns = Columns(q)
  OBVIOUS
<1>2. /\ row \in Nat /\ column \in Nat /\ rows \in Nat /\ columns \in Nat /\ rows < grid_dim /\ columns < grid_dim
      /\ q.ymin = row % grid_dim /\ q.xmin = column % grid_dim
      /\ q.ymax = (row + rows) % grid_dim /\ q.xmax = (column + columns) % grid_dim
      /\ grid_dim \in Nat \ {0} /\ a \in 0 .. columns /\ b \in 0 .. rows
  BY <1>1, BoxOfQuery, HashGridAssumption
<1>3. PICK m, n, s, t : m = row + b /\ n = row + rows /\ s = column + a /\ t = column + columns
  OBVIOUS
<1>4. m \in Nat /\ n \in Nat /\ s \in Nat /\ t \in Nat /\ m <= n /\ n - m < grid_dim /\ s <= t /\ t - s < grid_dim
  BY <1>2, <1>3
<1>5. BinAt(q, b, a)[1] = m % grid_dim /\ BinAt(q, b, a)[2] = s % grid_dim
  BY <1>1, <1>3 DEF BinAt
<1>6. (m % grid_dim = n % grid_dim <=> b = rows) /\ (s % grid_dim = t % grid_dim <=> a = columns)
  <2>1. m % grid_dim = n % grid_dim => m = n
    BY <1>2, <1>4, SameBin
  <2>2. s % grid_dim = t % grid_dim => s = t
    BY <1>2, <1>4, SameBin
  <2> QED
    BY <1>2, <1>3, <2>1, <2>2
<1>7. m % grid_dim \in 0 .. grid_dim - 1 /\ s % grid_dim \in 0 .. grid_dim - 1
  BY <1>2, <1>4, Division
<1>8. BinAt(q, b, a) \in Cells
  BY <1>1, <1>3, <1>7 DEF BinAt, Cells
<1>9. BinAt(q, b, 0)[2] = q.xmin /\ BinAt(q, 0, a)[1] = q.ymin
  BY <1>1, <1>2 DEF BinAt
<1>10. ((s % grid_dim) + 1) % grid_dim = (s + 1) % grid_dim /\ ((m % grid_dim) + 1) % grid_dim = (m + 1) % grid_dim
  BY <1>2, <1>4, NextBin
<1>11. s + 1 = column + (a + 1) /\ m + 1 = row + (b + 1)
  BY <1>2, <1>3
<1>12. BinAt(q, b, a + 1)[2] = (s + 1) % grid_dim /\ BinAt(q, b + 1, a)[1] = (m + 1) % grid_dim
  BY <1>1, <1>11 DEF BinAt
<1> QED
  BY <1>1, <1>2, <1>3, <1>5, <1>6, <1>8, <1>9, <1>10, <1>12

\* A point of the box is in one of its bins.
LEMMA BoxHasBin ==
    ASSUME NEW q, QueryOf(q), InOrder(q), NEW c \in Coords,
           q.min.x < c.x, c.x < q.max.x, q.min.y < c.y, c.y < q.max.y
    PROVE  \E b \in 0 .. Rows(q), a \in 0 .. Columns(q) : cell(c) = BinAt(q, b, a)
<1>1. /\ q.min.x \in Nat /\ q.min.y \in Nat /\ q.max.x \in Nat /\ q.max.y \in Nat /\ c.x \in Nat /\ c.y \in Nat
      /\ q.min.x <= c.x /\ c.x <= q.max.x /\ q.min.y <= c.y /\ c.y <= q.max.y
      /\ bin_size \in Nat \ {0}
  BY HashGridAssumption DEF QueryOf, InOrder
<1>2. PICK y, x : y = c.y \div bin_size /\ x = c.x \div bin_size
  OBVIOUS
<1>3. y \in Nat /\ x \in Nat
  BY <1>1, <1>2, Division
<1>4. Column(q) <= x /\ x <= q.max.x \div bin_size /\ Row(q) <= y /\ y <= q.max.y \div bin_size
  BY <1>1, <1>2, BinsBetween DEF Row, Column
<1>5. q.max.x \div bin_size \in Nat /\ q.max.y \div bin_size \in Nat
  BY <1>1, Division
<1>6. PICK b, a : b = y - Row(q) /\ a = x - Column(q)
  OBVIOUS
<1>7. Row(q) \in Nat /\ Column(q) \in Nat
  BY BoxOfQuery
<1>8. b \in 0 .. Rows(q) /\ a \in 0 .. Columns(q) /\ Row(q) + b = y /\ Column(q) + a = x
  BY <1>3, <1>4, <1>5, <1>6, <1>7 DEF Rows, Columns
<1>9. cell(c) = <<y % grid_dim, x % grid_dim>>
  BY <1>1, <1>2 DEF cell, bin, Magnitude
<1> QED
  BY <1>8, <1>9 DEF BinAt

\* When the last of a bin has been read, all of the bin has been.
LEMMA BinPassed ==
    ASSUME NEW points \in [Item -> Coords], NEW g, GridOf(points, g), NEW q, QueryOf(q), InOrder(q), NEW S,
           NEW b \in 0 .. Rows(q), NEW a \in 0 .. Columns(q), NEW n \in Nat, Passed(points, q, S, b, a, n),
           n + 1 >= g.counts[BinAt(q, b, a)]
    PROVE  \A i \in Item, y \in 0 .. Rows(q), x \in 0 .. Columns(q) :
              cell(points[i]) = BinAt(q, y, x) /\ (y < b \/ (y = b /\ x <= a)) => i \in S
<1> SUFFICES ASSUME NEW i \in Item, NEW y \in 0 .. Rows(q), NEW x \in 0 .. Columns(q),
                    cell(points[i]) = BinAt(q, y, x), y < b \/ (y = b /\ x <= a)
             PROVE  i \in S
  OBVIOUS
<1>1. CASE y < b \/ (y = b /\ x < a)
  BY <1>1 DEF Passed
<1>2. CASE y = b /\ x = a
  <2>1. Rank(points, i) \in Nat /\ Rank(points, i) < g.counts[BinAt(q, b, a)]
    BY <1>2 DEF GridOf
  <2>2. g.counts[BinAt(q, b, a)] \in Nat
    BY BinsInBox DEF GridOf
  <2>3. Rank(points, i) <= n
    BY <2>1, <2>2
  <2> QED
    BY <1>2, <2>3 DEF Passed
<1> QED
  BY <1>1, <1>2, BoxOfQuery

\* What is read at a place of a bin is the item of that rank.
LEMMA ReadsItem ==
    ASSUME NEW points \in [Item -> Coords], NEW g, GridOf(points, g), NEW i \in Item,
           NEW c, c = cell(points[i]), NEW n \in Nat, Rank(points, i) = n
    PROVE  g.bins[c] + n + 1 \in DOMAIN g.items /\ g.items[g.bins[c] + n + 1] = i
BY DEF GridOf

\* The first item of the first bin, and what holds of a query at any time.
First(g, q) == IF g.counts[<<q.ymin, q.xmin>>] = 0 THEN {} ELSE {g.items[g.bins[<<q.ymin, q.xmin>>] + 1]}

GridInv ==
    /\ coords \in [Item -> Coords] /\ hg = HashGrid_init(coords) /\ returned \subseteq Item
    /\ r # NoQuery => QueryOf(r) /\ (InOrder(r) => Walked(coords, r, returned \cup First(hg, r)))

\* A query at another place of the grid is the same query.
LEMMA SameQuery ==
    ASSUME NEW q, QueryOf(q), NEW p, SetOnce(p) = SetOnce(q), {"x", "y", "i", "has_next"} \subseteq DOMAIN p
    PROVE  /\ QueryOf(p) /\ InOrder(p) = InOrder(q) /\ \A g : First(g, p) = First(g, q)
           /\ Rows(p) = Rows(q) /\ Columns(p) = Columns(q) /\ p.xmin = q.xmin /\ p.ymin = q.ymin
           /\ \A b, a : BinAt(p, b, a) = BinAt(q, b, a)
<1>1. /\ p.coord = q.coord /\ p.radius = q.radius /\ p.min = q.min /\ p.max = q.max
      /\ p.xmin = q.xmin /\ p.ymin = q.ymin /\ p.xmax = q.xmax /\ p.ymax = q.ymax
  BY DEF SetOnce
<1> QED
  BY <1>1 DEF QueryOf, InOrder, First, Rows, Columns, Row, Column, BinAt

\* A query begins at the corner of its box, where only the first item is passed over.
LEMMA AskStep ==
    ASSUME GridInv, NEW k \in Queries, Ask(k)
    PROVE  GridInv'
<1>1. PICK points, g, q : points = coords /\ g = hg /\ q = r'
  OBVIOUS
<1>2. points \in [Item -> Coords] /\ GridOf(points, g)
  BY <1>1, GridIsFilled DEF GridInv
<1>3. q = HashGrid_query(k)
  BY <1>1 DEF Ask
<1>4. /\ QueryOf(q)
      /\ q.has_next = TRUE /\ q.i = 0 /\ q.x = q.xmin /\ q.y = q.ymin
  <2>1. k.coord.x \in Int /\ k.coord.y \in Int /\ k.radius \in Nat
    BY HashGridAssumption
  <2> QED
    BY <1>3, <2>1 DEF HashGrid_query, QueryOf
<1>5. ASSUME InOrder(q) PROVE Walked(points, q, returned \cup First(g, q))
  <2>1. 0 \in 0 .. Rows(q) /\ 0 \in 0 .. Columns(q)
    BY <1>4, <1>5, BoxOfQuery
  <2>2. BinAt(q, 0, 0) \in Cells /\ BinAt(q, 0, 0)[1] = q.ymin /\ BinAt(q, 0, 0)[2] = q.xmin
    BY <1>4, <1>5, <2>1, BinsInBox
  <2>3. BinAt(q, 0, 0) = <<q.ymin, q.xmin>>
    BY <2>2 DEF BinAt
  <2>4. ASSUME NEW i \in Item, cell(points[i]) = BinAt(q, 0, 0), Rank(points, i) <= 0
        PROVE  i \in First(g, q)
    <3>1. Rank(points, i) = 0 /\ 0 < g.counts[cell(points[i])]
      BY <1>2, <2>4 DEF GridOf
    <3>2. PICK c, n : c = cell(points[i]) /\ n = 0 /\ n \in Nat /\ Rank(points, i) = n
      BY <3>1
    <3>3. g.items[g.bins[c] + n + 1] = i /\ g.bins[c] \in Nat
      BY <1>2, <2>2, <2>4, <3>2, ReadsItem DEF GridOf
    <3>4. g.bins[c] + n + 1 = g.bins[c] + 1
      BY <3>2, <3>3
    <3> QED
      BY <2>3, <2>4, <3>1, <3>2, <3>3, <3>4 DEF First
  <2>5. Passed(points, q, returned \cup First(g, q), 0, 0, 0)
    <3> SUFFICES ASSUME NEW i \in Item, NEW y \in 0 .. Rows(q), NEW x \in 0 .. Columns(q),
                        cell(points[i]) = BinAt(q, y, x),
                        y < 0 \/ (y = 0 /\ x < 0) \/ (y = 0 /\ x = 0 /\ Rank(points, i) <= 0)
                 PROVE  i \in First(g, q)
      BY DEF Passed
    <3>1. y = 0 /\ x = 0 /\ Rank(points, i) <= 0
      OBVIOUS
    <3> QED
      BY <2>4, <3>1
  <2> QED
    BY <1>4, <2>1, <2>2, <2>5 DEF Walked
<1> QED
  BY <1>1, <1>4, <1>5 DEF GridInv, Ask

\* Each step reads one item more, or goes on from a bin that has been read.
LEMMA NextStep ==
    ASSUME GridInv, HashGridResult_next
    PROVE  GridInv'
<1>1. PICK points, g, q, p, S, U : /\ points = coords /\ g = hg /\ q = r /\ p = r'
                                   /\ S = returned \cup First(g, q) /\ U = returned' \cup First(g, q)
  OBVIOUS
<1>2. points \in [Item -> Coords] /\ GridOf(points, g)
  BY <1>1, GridIsFilled DEF GridInv
<1>3. /\ QueryOf(q) /\ (InOrder(q) => Walked(points, q, S)) /\ q.has_next
  BY <1>1 DEF GridInv, HashGridResult_next, NoQuery
<1>4. PICK last, m : last = LastOfBin /\ m = g.counts[<<q.y, q.x>>]
  OBVIOUS
<1>5. /\ last <=> q.i + 1 >= m
      /\ ~(last /\ q.x = q.xmax /\ q.y = q.ymax)
      /\ p = IF ~last THEN [q EXCEPT !.i = @ + 1]
             ELSE IF q.x = q.xmax THEN [q EXCEPT !.i = 0, !.x = q.xmin, !.y = (@ + 1) % grid_dim]
             ELSE [q EXCEPT !.i = 0, !.x = (@ + 1) % grid_dim]
  BY <1>1, <1>4 DEF HashGridResult_next, LastOfBin, LastBin, Advanced
<1>6. PICK item \in ItemsAt(p) : returned' = returned \cup {item}
  BY <1>1 DEF HashGridResult_next
<1>7. /\ item \in Item
      /\ g.bins[<<p.y, p.x>>] + p.i + 1 \in DOMAIN g.items => item = g.items[g.bins[<<p.y, p.x>>] + p.i + 1]
  BY <1>1, <1>2, <1>6 DEF ItemsAt, GridOf
<1>8. SetOnce(p) = SetOnce(q) /\ DOMAIN p = DOMAIN q /\ p.has_next = q.has_next
  <2>1. CASE ~last
    BY <1>5, <2>1 DEF SetOnce
  <2>2. CASE last /\ q.x = q.xmax
    BY <1>5, <2>2 DEF SetOnce
  <2>3. CASE last /\ q.x # q.xmax
    BY <1>5, <2>3 DEF SetOnce
  <2> QED
    BY <2>1, <2>2, <2>3
<1>9. /\ QueryOf(p) /\ InOrder(p) = InOrder(q) /\ First(g, p) = First(g, q)
      /\ Rows(p) = Rows(q) /\ Columns(p) = Columns(q)
      /\ \A b, a : BinAt(p, b, a) = BinAt(q, b, a)
  <2>1. {"x", "y", "i", "has_next"} \subseteq DOMAIN p
    BY <1>3, <1>8 DEF QueryOf
  <2> QED
    BY <1>3, <1>8, <2>1, SameQuery
<1>10. ASSUME InOrder(q) PROVE Walked(points, p, U)
  <2>1. PICK b \in 0 .. Rows(q), a \in 0 .. Columns(q) :
          /\ q.y = BinAt(q, b, a)[1] /\ q.x = BinAt(q, b, a)[2] /\ q.i \in Nat
          /\ Passed(points, q, S, b, a, q.i)
    BY <1>3, <1>10 DEF Walked
  <2>2. PICK rows, columns : rows = Rows(q) /\ columns = Columns(q) /\ rows \in Nat /\ columns \in Nat
    BY <1>3, <1>10, BoxOfQuery
  <2>3. b \in 0 .. rows /\ a \in 0 .. columns /\ b \in Int /\ a \in Int
    BY <2>1, <2>2
  <2>4. BinAt(q, b, a) = <<q.y, q.x>>
    BY <2>1 DEF BinAt
  <2>5. /\ q.x = q.xmax <=> a = columns
        /\ q.y = q.ymax <=> b = rows
        /\ (q.x + 1) % grid_dim = BinAt(q, b, a + 1)[2]
        /\ (q.y + 1) % grid_dim = BinAt(q, b + 1, a)[1]
        /\ \A n \in 0 .. rows : BinAt(q, n, 0)[2] = q.xmin
    <3>1. \A n \in 0 .. rows : BinAt(q, n, 0)[2] = q.xmin
      <4>1. 0 \in 0 .. Columns(q)
        BY <2>2
      <4> QED
        BY <1>3, <1>10, <2>2, <4>1, BinsInBox
    <3> QED
      BY <1>3, <1>10, <2>1, <2>2, <3>1, BinsInBox
  <2>6. S \subseteq U /\ U = S \cup {item}
    BY <1>1, <1>6
  <2>7. ASSUME NEW y \in 0 .. rows, NEW x \in 0 .. columns, NEW n \in Nat, NEW i \in Item,
               p.y = BinAt(q, y, x)[1], p.x = BinAt(q, y, x)[2], p.i = n,
               cell(points[i]) = BinAt(q, y, x), Rank(points, i) = n
        PROVE  i \in U
    <3>1. PICK c : c = BinAt(q, y, x) /\ c = <<p.y, p.x>>
      BY <2>7 DEF BinAt
    <3>2. g.bins[c] + n + 1 \in DOMAIN g.items /\ g.items[g.bins[c] + n + 1] = i
      BY <1>2, <2>7, <3>1, ReadsItem
    <3>3. item = i
      BY <1>7, <2>7, <3>1, <3>2
    <3> QED
      BY <2>6, <3>3
  <2>8. CASE ~last
    <3>1. PICK n \in Nat : n = q.i + 1
      BY <2>1
    <3>2. p.i = n /\ p.x = q.x /\ p.y = q.y
      BY <1>3, <1>5, <2>8, <3>1 DEF QueryOf
    <3>3. Passed(points, q, U, b, a, n)
      <4> SUFFICES ASSUME NEW i \in Item, NEW y \in 0 .. rows, NEW x \in 0 .. columns,
                          cell(points[i]) = BinAt(q, y, x),
                          y < b \/ (y = b /\ x < a) \/ (y = b /\ x = a /\ Rank(points, i) <= n)
                   PROVE  i \in U
        BY <2>2 DEF Passed
      <4>1. Rank(points, i) \in Nat
        BY <1>2 DEF GridOf
      <4>2. CASE y = b /\ x = a /\ Rank(points, i) = n
        BY <2>1, <2>7, <3>2, <4>2
      <4>3. CASE y < b \/ (y = b /\ x < a) \/ (y = b /\ x = a /\ Rank(points, i) <= q.i)
        <5>1. i \in S
          BY <2>1, <2>2, <4>3 DEF Passed
        <5> QED
          BY <2>6, <5>1
      <4> QED
        BY <2>1, <3>1, <4>1, <4>2, <4>3
    <3>4. Passed(points, p, U, b, a, n)
      BY <1>9, <3>3 DEF Passed
    <3> QED
      BY <1>3, <1>8, <1>9, <2>1, <3>1, <3>2, <3>4 DEF Walked
  <2>9. CASE last
    <3>1. ASSUME NEW y \in 0 .. rows, NEW x \in 0 .. columns,
                 p.y = BinAt(q, y, x)[1], p.x = BinAt(q, y, x)[2], p.i = 0,
                 \A s \in 0 .. rows, t \in 0 .. columns : s < y \/ (s = y /\ t < x) => s < b \/ (s = b /\ t <= a)
          PROVE  Walked(points, p, U)
      <4>1. q.i + 1 >= g.counts[BinAt(q, b, a)]
        BY <1>4, <1>5, <2>4, <2>9
      <4>2. \A i \in Item, s \in 0 .. rows, t \in 0 .. columns :
              cell(points[i]) = BinAt(q, s, t) /\ (s < b \/ (s = b /\ t <= a)) => i \in S
        BY <1>2, <1>3, <1>10, <2>1, <2>2, <4>1, BinPassed
      <4>3. ASSUME NEW i \in Item, NEW s \in 0 .. rows, NEW t \in 0 .. columns,
                   cell(points[i]) = BinAt(q, s, t),
                   s < y \/ (s = y /\ t < x) \/ (s = y /\ t = x /\ Rank(points, i) <= 0)
            PROVE  i \in U
        <5>1. CASE s < y \/ (s = y /\ t < x)
          BY <2>6, <3>1, <4>2, <4>3, <5>1
        <5>2. CASE s = y /\ t = x /\ Rank(points, i) <= 0
          <6>1. PICK n : n = 0 /\ n \in Nat /\ Rank(points, i) = n
            BY <1>2, <5>2 DEF GridOf
          <6> QED
            BY <2>7, <3>1, <4>3, <5>2, <6>1
        <5> QED
          BY <4>3, <5>1, <5>2
      <4>4. Passed(points, p, U, y, x, 0)
        BY <1>9, <2>2, <4>3 DEF Passed
      <4> QED
        BY <1>3, <1>8, <1>9, <2>2, <3>1, <4>4 DEF Walked
    <3>2. CASE q.x = q.xmax
      <4>1. a = columns /\ b # rows
        BY <1>5, <2>5, <2>9, <3>2
      <4>2. PICK y \in 0 .. rows, x \in 0 .. columns : y = b + 1 /\ x = 0
        BY <2>2, <2>3, <4>1
      <4>3. p.i = 0 /\ p.x = q.xmin /\ p.y = (q.y + 1) % grid_dim
        BY <1>3, <1>5, <2>9, <3>2 DEF QueryOf
      <4>4. p.x = BinAt(q, y, x)[2] /\ p.y = BinAt(q, y, x)[1]
        <5>1. BinAt(q, y, x)[2] = q.xmin
          BY <2>5, <4>2
        <5>2. BinAt(q, y, x)[1] = BinAt(q, b + 1, a)[1]
          BY <4>2 DEF BinAt
        <5> QED
          BY <2>5, <4>3, <5>1, <5>2
      <4>5. \A s \in 0 .. rows, t \in 0 .. columns : s < y \/ (s = y /\ t < x) => s < b \/ (s = b /\ t <= a)
        BY <2>2, <2>3, <4>1, <4>2
      <4> QED
        BY <3>1, <4>3, <4>4, <4>5
    <3>3. CASE q.x # q.xmax
      <4>1. a # columns
        BY <2>5, <3>3
      <4>2. PICK x \in 0 .. columns : x = a + 1
        BY <2>2, <2>3, <4>1
      <4>3. p.i = 0 /\ p.x = (q.x + 1) % grid_dim /\ p.y = q.y
        BY <1>3, <1>5, <2>9, <3>3 DEF QueryOf
      <4>4. p.x = BinAt(q, b, x)[2] /\ p.y = BinAt(q, b, x)[1]
        <5>1. BinAt(q, b, x)[1] = BinAt(q, b, a)[1]
          BY DEF BinAt
        <5> QED
          BY <2>1, <2>5, <4>2, <4>3, <5>1
      <4>5. \A s \in 0 .. rows, t \in 0 .. columns : s < b \/ (s = b /\ t < x) => s < b \/ (s = b /\ t <= a)
        BY <2>3, <4>2
      <4> QED
        BY <2>3, <3>1, <4>3, <4>4, <4>5
    <3> QED
      BY <3>2, <3>3
  <2> QED
    BY <2>8, <2>9
<1>11. coords' = coords /\ hg' = hg /\ returned' \subseteq Item
  BY <1>6, <1>7 DEF GridInv, HashGridResult_next
<1> QED
  BY <1>1, <1>9, <1>10, <1>11 DEF GridInv

\* A query ends where the last bin of its box has been read.
LEMMA EndStep ==
    ASSUME GridInv, QueryEnds
    PROVE  GridInv'
<1>1. PICK points, g, q, p, S : /\ points = coords /\ g = hg /\ q = r /\ p = r'
                                /\ S = returned \cup First(g, q)
  OBVIOUS
<1>2. points \in [Item -> Coords] /\ GridOf(points, g)
  BY <1>1, GridIsFilled DEF GridInv
<1>3. /\ QueryOf(q) /\ (InOrder(q) => Walked(points, q, S)) /\ q.has_next
  BY <1>1 DEF GridInv, QueryEnds, NoQuery
<1>4. /\ q.i + 1 >= g.counts[<<q.y, q.x>>] /\ q.x = q.xmax /\ q.y = q.ymax
      /\ p = [q EXCEPT !.i = 0, !.x = q.xmin, !.has_next = FALSE]
  BY <1>1 DEF QueryEnds, LastOfBin, LastBin
<1>5. SetOnce(p) = SetOnce(q) /\ DOMAIN p = DOMAIN q /\ p.has_next = FALSE
  BY <1>3, <1>4 DEF SetOnce, QueryOf
<1>6. /\ QueryOf(p) /\ InOrder(p) = InOrder(q) /\ First(g, p) = First(g, q)
      /\ Rows(p) = Rows(q) /\ Columns(p) = Columns(q)
      /\ \A b, a : BinAt(p, b, a) = BinAt(q, b, a)
  <2>1. {"x", "y", "i", "has_next"} \subseteq DOMAIN p
    BY <1>3, <1>5 DEF QueryOf
  <2> QED
    BY <1>3, <1>5, <2>1, SameQuery
<1>7. ASSUME InOrder(q) PROVE Walked(points, p, S)
  <2>1. PICK b \in 0 .. Rows(q), a \in 0 .. Columns(q) :
          /\ q.y = BinAt(q, b, a)[1] /\ q.x = BinAt(q, b, a)[2] /\ q.i \in Nat
          /\ Passed(points, q, S, b, a, q.i)
    BY <1>3, <1>7 DEF Walked
  <2>2. BinAt(q, b, a) = <<q.y, q.x>>
    BY <2>1 DEF BinAt
  <2>3. a = Columns(q) /\ b = Rows(q)
    <3>1. /\ BinAt(q, b, a)[2] = q.xmax <=> a = Columns(q)
          /\ BinAt(q, b, a)[1] = q.ymax <=> b = Rows(q)
      BY <1>3, <1>7, BinsInBox
    <3>2. BinAt(q, b, a)[2] = q.xmax /\ BinAt(q, b, a)[1] = q.ymax
      BY <1>4, <2>1
    <3> QED
      BY <3>1, <3>2
  <2>4. \A i \in Item, y \in 0 .. Rows(q), x \in 0 .. Columns(q) :
          cell(points[i]) = BinAt(q, y, x) /\ (y < b \/ (y = b /\ x <= a)) => i \in S
    BY <1>2, <1>3, <1>4, <1>7, <2>1, <2>2, BinPassed
  <2>5. \A y \in 0 .. Rows(q), x \in 0 .. Columns(q) : y < b \/ (y = b /\ x <= a)
    BY <1>3, <1>7, <2>3, BoxOfQuery
  <2> QED
    BY <1>5, <1>6, <2>4, <2>5 DEF Walked
<1> QED
  BY <1>1, <1>6, <1>7 DEF GridInv, QueryEnds

\* What the invariant says of a query that is over.
LEMMA NoneMissed ==
    ASSUME GridInv
    PROVE  GridMissesOnlyFirst
<1> SUFFICES ASSUME Asked, Ordinary
             PROVE  /\ \A item \in Item : Near(item) => item \in Filtered \cup FirstItem
                    /\ Closest = {} => \A item \in Item : Near(item) => item \in FirstItem
                    /\ \A c \in Closest, item \in Filtered :
                          ersatz_distance(r.coord, coords[c]) <= ersatz_distance(r.coord, coords[item])
  BY DEF GridMissesOnlyFirst
<1>1. PICK q : q = r
  OBVIOUS
<1>2. /\ QueryOf(q) /\ InOrder(q) /\ ~q.has_next /\ Walked(coords, q, returned \cup First(hg, q))
      /\ coords \in [Item -> Coords] /\ returned \subseteq Item
  BY <1>1 DEF GridInv, Asked, Ordinary, InOrder
<1>3. First(hg, q) = FirstItem
  BY <1>1 DEF First, FirstItem
<1>4. \A i \in Item : coords[i].x \in Int /\ coords[i].y \in Int /\ coords[i] \in Coords
  BY <1>2, HashGridAssumption
<1>5. ASSUME NEW item \in Item, Near(item) PROVE item \in Filtered \cup FirstItem
  <2>1. PICK m \in Int, n \in Int, d \in Nat :
          /\ m = q.coord.x - coords[item].x /\ n = q.coord.y - coords[item].y /\ d = q.radius
          /\ m * m + n * n < d * d
    BY <1>1, <1>2, <1>4, <1>5 DEF Near, ersatz_distance, QueryOf
  <2>2. -d < m /\ m < d /\ -d < n /\ n < d
    <3>1. n * n + m * m = m * m + n * n
      BY <2>1
    <3> QED
      BY <2>1, <3>1, NearAlongAxis
  <2>3. q.min.x < coords[item].x /\ coords[item].x < q.max.x /\ q.min.y < coords[item].y /\ coords[item].y < q.max.y
    BY <1>2, <1>4, <2>1, <2>2 DEF QueryOf
  <2>4. item \in returned \cup FirstItem
    <3>1. \E b \in 0 .. Rows(q), a \in 0 .. Columns(q) : cell(coords[item]) = BinAt(q, b, a)
      BY <1>2, <1>4, <2>3, BoxHasBin
    <3> QED
      BY <1>2, <1>3, <3>1 DEF Walked
  <2>5. InBox(coords[item])
    BY <1>1, <1>2, <1>4, <2>3 DEF InBox, QueryOf
  <2> QED
    BY <1>5, <2>4, <2>5 DEF Filtered
<1>6. ASSUME Closest = {} PROVE \A item \in Item : Near(item) => item \in FirstItem
  <2> DEFINE boxed == {i \in returned : InBox(coords[i])}
             distances == {ersatz_distance(r.coord, coords[i]) : i \in boxed}
  <2>1. \A i \in boxed : ersatz_distance(r.coord, coords[i]) \in Nat
    <3> SUFFICES ASSUME NEW i \in boxed PROVE ersatz_distance(r.coord, coords[i]) \in Nat
      OBVIOUS
    <3>1. PICK m \in Int, n \in Int : m = q.coord.x - coords[i].x /\ n = q.coord.y - coords[i].y
      BY <1>2, <1>4 DEF QueryOf
    <3>2. m * m \in Nat /\ n * n \in Nat
      OBVIOUS
    <3> QED
      BY <1>1, <3>1, <3>2 DEF ersatz_distance
  <2>2. boxed = {}
    <3> SUFFICES ASSUME boxed # {} PROVE FALSE
      OBVIOUS
    <3>1. distances \in SUBSET Nat /\ distances # {}
      BY <2>1
    <3>2. PICK d \in distances : \A e \in distances : d <= e
      BY <3>1, LeastNat
    <3>3. PICK i \in boxed : d = ersatz_distance(r.coord, coords[i])
      BY <3>2
    <3>4. i \in Closest
      BY <3>2, <3>3 DEF Closest
    <3> QED
      BY <1>6, <3>4
  <2>3. Filtered = {}
    BY <2>2 DEF Filtered
  <2> QED
    BY <1>5, <2>3
<1>7. ASSUME NEW c \in Closest, NEW item \in Filtered
      PROVE  ersatz_distance(r.coord, coords[c]) <= ersatz_distance(r.coord, coords[item])
  BY <1>7 DEF Closest, Filtered
<1> QED
  BY <1>5, <1>6, <1>7

\* Of the points within the radius a query that does not cross the equator or the meridian of
\* Greenwich and is smaller than the grid misses none but the first item of its first bin,
\* and the closest point is the closest, for every grid, all points and every query
\* (hashgrid.c:39-80, 112-131).
THEOREM GridQueries == HashGridSpec => []GridMissesOnlyFirst
<1>1. HashGridInit => GridInv
  BY DEF HashGridInit, GridInv
<1>2. GridInv /\ [HashGridNext]_hashgrid_vars => GridInv'
  <2> SUFFICES ASSUME GridInv, [HashGridNext]_hashgrid_vars PROVE GridInv'
    OBVIOUS
  <2>1. CASE HashGridNext
    BY <2>1, AskStep, NextStep, EndStep DEF HashGridNext
  <2>2. CASE UNCHANGED hashgrid_vars
    BY <2>2 DEF hashgrid_vars, GridInv
  <2> QED
    BY <2>1, <2>2
<1> QED
  BY <1>1, <1>2, NoneMissed, PTL DEF HashGridSpec

--------------------------------------------------------------------------------
\* radixtree.c.
EdgeType == [next : Nat, child : Nat, value : Int, prefix : Seq(Alphabet)]

\* Two words agree in their first n characters.
Agree(v, w, n) == \A i \in 1 .. n : v[i] = w[i]

\* Edges of one level, and an edge below the end of another.
Sib(W, B, f, g) == B[f] = B[g] /\ Agree(W[f], W[g], B[f])
Under(W, B, C, f, g) == B[f] < C[f] /\ C[f] = B[g] /\ Agree(W[f], W[g], B[g])

\* An edge f stands for the characters of a word W[f] after B[f] up to C[f].
Labelled(T, W, B, C) ==
    /\ T \in Seq(EdgeType) /\ Len(T) \in Nat /\ Len(T) >= 1
    /\ \A f \in 1 .. Len(T) : /\ B[f] \in Nat /\ C[f] \in Nat /\ C[f] = B[f] + Len(T[f].prefix)
                              /\ \A i \in 1 .. Len(T[f].prefix) : T[f].prefix[i] = W[f][B[f] + i]
    /\ B[1] = 0

\* The edges of a level are chained in the order of their numbers.
Chained(T, W, B) ==
    \A f \in 1 .. Len(T) :
       /\ T[f].next # 0 => T[f].next \in 1 .. Len(T) /\ f < T[f].next /\ Sib(W, B, f, T[f].next)
       /\ \A g \in 1 .. Len(T) : f < g /\ Sib(W, B, f, g) => T[f].next # 0 /\ T[f].next <= g

\* The child is the first edge of its level, and each level but the first has its parent.
Parented(T, W, B, C) ==
    /\ \A f \in 1 .. Len(T) :
         /\ T[f].child # 0 => T[f].child \in 1 .. Len(T) /\ Under(W, B, C, f, T[f].child)
         /\ \A g \in 1 .. Len(T) : Under(W, B, C, f, g) => T[f].child # 0 /\ T[f].child <= g
    /\ \A g \in 1 .. Len(T) : B[g] > 0 => \E f \in 1 .. Len(T) : Under(W, B, C, f, g)

\* An edge that agrees with the first character of another, at or above its level, is passed
\* on the way to it.
Branching(T, W, B, C) ==
    \A f, g \in 1 .. Len(T) :
       B[f] < C[f] /\ f # g /\ B[f] <= B[g] /\ B[f] + 1 <= C[g] /\ Agree(W[f], W[g], B[f] + 1)
       => C[f] <= B[g] /\ Agree(W[f], W[g], C[f])

Tree(T, W, B, C) == Labelled(T, W, B, C) /\ Chained(T, W, B) /\ Parented(T, W, B, C) /\ Branching(T, W, B, C)

\* Agreement carries over.
LEMMA AgreeTrans ==
    ASSUME NEW u, NEW v, NEW w, NEW m \in Nat, NEW n \in Nat, m <= n, Agree(u, v, m) \/ Agree(v, u, m), Agree(v, w, n) \/ Agree(w, v, n)
    PROVE  Agree(u, w, m) /\ Agree(w, u, m)
<1>1. \A i \in 1 .. m : i \in 1 .. n
  OBVIOUS
<1> QED
  BY <1>1 DEF Agree

\* Two edges that end with the same word are one.
LEMMA SameWord ==
    ASSUME NEW T, NEW W, NEW B, NEW C, Tree(T, W, B, C),
           NEW f \in 1 .. Len(T), NEW g \in 1 .. Len(T),
           B[f] < C[f], B[g] < C[g], C[f] = C[g], Agree(W[f], W[g], C[f])
    PROVE  f = g
<1> SUFFICES ASSUME f # g PROVE FALSE
  OBVIOUS
<1>1. B[f] \in Nat /\ C[f] \in Nat /\ B[g] \in Nat
  BY DEF Tree, Labelled
<1>2. Agree(W[f], W[g], B[f] + 1) /\ Agree(W[g], W[f], B[g] + 1)
  BY <1>1 DEF Agree
<1>3. CASE B[f] <= B[g]
  BY <1>1, <1>2, <1>3 DEF Tree, Branching
<1>4. CASE B[g] <= B[f]
  BY <1>1, <1>2, <1>4 DEF Tree, Branching
<1> QED
  BY <1>1, <1>3, <1>4

\* The level at depth d of a word: its edges begin with other characters than the word goes
\* on with, and it has a parent.
Missing(T, W, B, C, s, d) ==
    /\ d > 0 => \E q \in 1 .. Len(T) : B[q] < C[q] /\ C[q] = d /\ Agree(W[q], s, d)
    /\ \A g \in 1 .. Len(T) : B[g] = d /\ B[g] < C[g] /\ Agree(W[g], s, d) => W[g][d + 1] # s[d + 1]

\* What comes above such a level ends there, on the way of the word.
LEMMA EdgeAbove ==
    ASSUME NEW T, NEW W, NEW B, NEW C, Tree(T, W, B, C), NEW s, NEW d \in Nat,
           d > 0 => \E q \in 1 .. Len(T) : B[q] < C[q] /\ C[q] = d /\ Agree(W[q], s, d),
           NEW f \in 1 .. Len(T), B[f] < C[f], B[f] < d, Agree(W[f], s, B[f] + 1)
    PROVE  C[f] <= d /\ Agree(W[f], s, C[f])
<1>1. /\ B[f] \in Nat /\ C[f] \in Nat
      /\ \A g \in 1 .. Len(T) : B[g] \in Nat /\ C[g] \in Nat
  BY DEF Tree, Labelled
<1>2. PICK q \in 1 .. Len(T) : B[q] < C[q] /\ C[q] = d /\ Agree(W[q], s, d)
  BY <1>1
<1>3. CASE q = f
  BY <1>2, <1>3
<1>4. CASE q # f /\ B[f] <= B[q]
  <2>1. Agree(W[f], W[q], B[f] + 1)
    BY <1>1, <1>2, AgreeTrans
  <2>2. C[f] <= B[q] /\ Agree(W[f], W[q], C[f])
    BY <1>1, <1>2, <1>4, <2>1 DEF Tree, Branching
  <2> QED
    BY <1>1, <1>2, <2>2, AgreeTrans
<1>5. CASE q # f /\ B[q] <= B[f]
  <2>1. Agree(W[q], W[f], B[q] + 1)
    <3>1. PICK m \in Nat : m = B[q] + 1
      BY <1>1
    <3>2. m <= d /\ m <= B[f] + 1 /\ B[f] + 1 \in Nat
      BY <1>1, <1>2, <1>5, <3>1
    <3>3. Agree(W[q], s, m) /\ Agree(W[f], s, m)
      BY <1>2, <3>2 DEF Agree
    <3> QED
      BY <3>1, <3>3 DEF Agree
  <2>2. C[q] <= B[f]
    BY <1>1, <1>2, <1>5, <2>1 DEF Tree, Branching
  <2> QED
    BY <1>1, <1>2, <2>2
<1> QED
  BY <1>1, <1>2, <1>3, <1>4, <1>5

\* Below such a level nothing goes on like the word.
LEMMA NothingBelow ==
    ASSUME NEW T, NEW W, NEW B, NEW C, Tree(T, W, B, C), NEW s, NEW d \in Nat, Missing(T, W, B, C, s, d),
           NEW g \in 1 .. Len(T), d <= B[g], d + 1 <= C[g]
    PROVE  ~Agree(W[g], s, d + 1)
<1> DEFINE bad == {h \in 1 .. Len(T) : d <= B[h] /\ d + 1 <= C[h] /\ Agree(W[h], s, d + 1)}
           depths == {B[h] : h \in bad}
<1>1. \A h \in 1 .. Len(T) : B[h] \in Nat /\ C[h] \in Nat /\ B[h] <= C[h]
  BY DEF Tree, Labelled
<1> SUFFICES ASSUME g \in bad PROVE FALSE
  OBVIOUS
<1>2. PICK h \in bad : \A j \in bad : B[h] <= B[j]
  <2>1. depths \in SUBSET Nat /\ depths # {}
    BY <1>1
  <2> HIDE DEF depths
  <2>2. PICK b \in depths : \A c \in depths : b <= c
    BY <2>1, LeastNat
  <2> QED
    BY <2>2 DEF depths
<1>3. h \in 1 .. Len(T) /\ d <= B[h] /\ d + 1 <= C[h] /\ Agree(W[h], s, d + 1)
  OBVIOUS
<1>4. CASE B[h] = d
  <2>1. B[h] < C[h] /\ Agree(W[h], s, d) /\ W[h][d + 1] = s[d + 1]
    BY <1>1, <1>3, <1>4 DEF Agree
  <2> QED
    BY <1>3, <1>4, <2>1 DEF Missing
<1>5. CASE B[h] > d
  <2>1. PICK p \in 1 .. Len(T) : B[p] < C[p] /\ C[p] = B[h] /\ Agree(W[p], W[h], B[h])
    BY <1>1, <1>3, <1>5 DEF Tree, Parented, Under
  <2>2. C[p] >= d + 1 /\ Agree(W[p], s, d + 1)
    <3>1. \A i \in 1 .. d + 1 : i \in 1 .. B[h]
      BY <1>1, <1>3, <1>5
    <3> QED
      BY <1>1, <1>3, <1>5, <2>1, <3>1 DEF Agree
  <2>3. CASE d <= B[p]
    <3>1. p \in bad
      BY <1>1, <2>1, <2>2, <2>3
    <3> QED
      BY <1>1, <1>2, <2>1, <3>1
  <2>4. CASE B[p] < d
    <3>1. Agree(W[p], s, B[p] + 1)
      BY <1>1, <2>2, <2>4 DEF Agree
    <3>2. C[p] <= d
      BY <1>1, <2>1, <2>4, <3>1, EdgeAbove DEF Missing
    <3> QED
      BY <1>1, <2>2, <3>2
  <2> QED
    BY <1>1, <2>3, <2>4
<1> QED
  BY <1>1, <1>3, <1>4, <1>5

IsWord(W, C, f, s) == C[f] = Len(s) /\ Agree(W[f], s, C[f])

\* And no edge ends with the word.
LEMMA NoWord ==
    ASSUME NEW T, NEW W, NEW B, NEW C, Tree(T, W, B, C), NEW s, NEW d \in Nat, Missing(T, W, B, C, s, d), d < Len(s),
           NEW f \in 1 .. Len(T), B[f] < C[f], Len(s) \in Nat
    PROVE  ~IsWord(W, C, f, s)
<1> SUFFICES ASSUME IsWord(W, C, f, s) PROVE FALSE
  OBVIOUS
<1>1. B[f] \in Nat /\ C[f] \in Nat /\ C[f] = Len(s) /\ Agree(W[f], s, C[f])
  BY DEF Tree, Labelled, IsWord
<1>2. CASE d <= B[f]
  <2>1. d + 1 <= C[f] /\ Agree(W[f], s, d + 1)
    BY <1>1, <1>2 DEF Agree
  <2>2. ~Agree(W[f], s, d + 1)
    BY <1>2, <2>1, NothingBelow
  <2> QED
    BY <2>1, <2>2
<1>3. CASE B[f] < d
  <2>1. Agree(W[f], s, B[f] + 1)
    BY <1>1 DEF Agree
  <2>2. C[f] <= d
    BY <1>3, <2>1, EdgeAbove DEF Missing
  <2> QED
    BY <1>1, <2>2
<1> QED
  BY <1>1, <1>2, <1>3

\* The depths of a tree.
LEMMA Depths ==
    ASSUME NEW T, NEW W, NEW B, NEW C, Tree(T, W, B, C)
    PROVE  /\ Labelled(T, W, B, C) /\ Len(T) \in Nat /\ Len(T) >= 1
           /\ \A f \in 1 .. Len(T) : B[f] \in Nat /\ C[f] \in Nat /\ B[f] <= C[f] /\ T[f] \in EdgeType
BY DEF Tree, Labelled

\* An empty edge takes the characters that follow in the word.
FilledWith(T, W, B, C, T2, W2, C2, s, e) ==
    /\ T2 \in Seq(EdgeType) /\ Len(T2) = Len(T)
    /\ \A f \in 1 .. Len(T) : T2[f].next = T[f].next /\ T2[f].child = T[f].child
    /\ \A f \in 1 .. Len(T) : f # e => T2[f].prefix = T[f].prefix /\ W2[f] = W[f] /\ C2[f] = C[f]
    /\ W2[e] = s /\ C2[e] = B[e] + Len(T2[e].prefix) /\ T2[e].prefix # << >>
    /\ \A i \in 1 .. Len(T2[e].prefix) : T2[e].prefix[i] = s[B[e] + i]

\* The tree stays one.
LEMMA FillTree ==
    ASSUME NEW T, NEW W, NEW B, NEW C, Tree(T, W, B, C), NEW s, NEW e \in 1 .. Len(T),
           B[e] = C[e], T[e].child = 0, Agree(W[e], s, B[e]), Missing(T, W, B, C, s, B[e]),
           NEW T2, NEW W2, NEW C2, FilledWith(T, W, B, C, T2, W2, C2, s, e)
    PROVE  Tree(T2, W2, B, C2)
<1>1. /\ Labelled(T, W, B, C) /\ B[e] \in Nat
      /\ \A f \in 1 .. Len(T) : B[f] \in Nat /\ C[f] \in Nat /\ B[f] <= C[f]
  BY Depths
<1>0. /\ \A f \in 1 .. Len(T) : f # e => W2[f] = W[f] /\ C2[f] = C[f]
      /\ W2[e] = s /\ Len(T2) = Len(T)
      /\ \A f \in 1 .. Len(T) : T2[f].next = T[f].next /\ T2[f].child = T[f].child
  BY DEF FilledWith
<1>2. Len(T2[e].prefix) \in Nat /\ Len(T2[e].prefix) > 0 /\ C2[e] \in Nat /\ C2[e] >= B[e] + 1
  <2>1. T2[e] \in EdgeType /\ T2[e].prefix # << >> /\ C2[e] = B[e] + Len(T2[e].prefix)
    BY DEF FilledWith
  <2>2. T2[e].prefix \in Seq(Alphabet)
    BY <2>1 DEF EdgeType
  <2>3. Len(T2[e].prefix) \in Nat /\ Len(T2[e].prefix) > 0
    BY <2>1, <2>2
  <2> QED
    BY <1>1, <2>1, <2>3
<1>3. Labelled(T2, W2, B, C2)
  <2>1. ASSUME NEW f \in 1 .. Len(T)
        PROVE  /\ B[f] \in Nat /\ C2[f] \in Nat /\ C2[f] = B[f] + Len(T2[f].prefix)
               /\ \A i \in 1 .. Len(T2[f].prefix) : T2[f].prefix[i] = W2[f][B[f] + i]
    <3>1. CASE f = e
      BY <1>0, <1>1, <1>2, <3>1 DEF FilledWith
    <3>2. CASE f # e
      <4>1. T2[f].prefix = T[f].prefix /\ W2[f] = W[f] /\ C2[f] = C[f]
        BY <3>2 DEF FilledWith
      <4>2. /\ B[f] \in Nat /\ C[f] \in Nat /\ C[f] = B[f] + Len(T[f].prefix)
            /\ \A i \in 1 .. Len(T[f].prefix) : T[f].prefix[i] = W[f][B[f] + i]
        BY <1>1 DEF Labelled
      <4> QED
        BY <4>1, <4>2
    <3> QED
      BY <3>1, <3>2
  <2> QED
    BY <1>0, <1>1, <2>1 DEF Labelled, FilledWith
<1>4. \A f, g \in 1 .. Len(T) : Sib(W2, B, f, g) <=> Sib(W, B, f, g)
  <2> SUFFICES ASSUME NEW f \in 1 .. Len(T), NEW g \in 1 .. Len(T), B[f] = B[g]
               PROVE  Agree(W2[f], W2[g], B[f]) <=> Agree(W[f], W[g], B[f])
    BY DEF Sib
  <2>1. \A i \in 1 .. B[e] : W[e][i] = s[i]
    BY DEF Agree
  <2> QED
    BY <1>0, <2>1 DEF Agree
<1>5. Chained(T2, W2, B)
  BY <1>0, <1>4 DEF Tree, Chained
<1>6. \A g \in 1 .. Len(T) : B[e] <= B[g] /\ B[e] + 1 <= C[g] => ~Agree(W[g], s, B[e] + 1)
  BY <1>1, NothingBelow
<1>7. \A g \in 1 .. Len(T) : ~Under(W2, B, C2, e, g)
  <2> SUFFICES ASSUME NEW g \in 1 .. Len(T), Under(W2, B, C2, e, g) PROVE FALSE
    OBVIOUS
  <2>1. g # e /\ B[e] + 1 <= B[g] /\ B[g] \in Nat /\ Agree(s, W[g], B[g])
    BY <1>0, <1>1, <1>2 DEF Under
  <2>2. B[e] + 1 <= C[g] /\ Agree(W[g], s, B[e] + 1)
    BY <1>1, <2>1 DEF Agree
  <2> QED
    BY <1>1, <1>6, <2>1, <2>2
<1>8. \A f, g \in 1 .. Len(T) : f # e => (Under(W2, B, C2, f, g) <=> Under(W, B, C, f, g))
  <2> SUFFICES ASSUME NEW f \in 1 .. Len(T), NEW g \in 1 .. Len(T), f # e, C[f] = B[g]
               PROVE  Agree(W2[f], W2[g], B[g]) <=> Agree(W[f], W[g], B[g])
    BY <1>0 DEF Under
  <2>1. \A i \in 1 .. B[e] : W[e][i] = s[i]
    BY DEF Agree
  <2> QED
    BY <1>0, <2>1 DEF Agree
<1>9. \A g \in 1 .. Len(T) : ~Under(W, B, C, e, g)
  BY <1>1 DEF Under
<1>10. Parented(T2, W2, B, C2)
  <2>1. Parented(T, W, B, C)
    BY DEF Tree
  <2>2. ASSUME NEW g \in 1 .. Len(T), B[g] > 0
        PROVE  \E f \in 1 .. Len(T) : Under(W2, B, C2, f, g)
    BY <1>8, <1>9, <2>1, <2>2 DEF Parented
  <2> QED
    BY <1>0, <1>7, <1>8, <2>1, <2>2 DEF Parented
<1>11. ASSUME NEW f \in 1 .. Len(T), NEW g \in 1 .. Len(T), B[f] < C2[f], f # g, B[f] <= B[g],
              B[f] + 1 <= C2[g], Agree(W2[f], W2[g], B[f] + 1)
       PROVE  C2[f] <= B[g] /\ Agree(W2[f], W2[g], C2[f])
  <2>1. CASE f = e
    <3>1. Agree(W[g], s, B[e] + 1)
      BY <1>0, <1>11, <2>1 DEF Agree
    <3> QED
      BY <1>0, <1>6, <1>11, <2>1, <3>1
  <2>2. CASE g = e
    <3>1. B[f] < C[f] /\ Agree(W[f], s, B[f] + 1)
      BY <1>0, <1>11, <2>2
    <3>2. B[f] # B[e]
      <4> SUFFICES ASSUME B[f] = B[e] PROVE FALSE
        OBVIOUS
      <4>1. B[e] <= B[f] /\ B[e] + 1 <= C[f] /\ Agree(W[f], s, B[e] + 1)
        BY <1>1, <3>1
      <4> QED
        BY <1>6, <4>1
    <3>3. B[f] < B[e]
      BY <1>1, <1>11, <2>2, <3>2
    <3>4. C[f] <= B[e] /\ Agree(W[f], s, C[f])
      BY <1>1, <3>1, <3>3, EdgeAbove DEF Missing
    <3> QED
      BY <1>0, <1>11, <2>2, <3>4
  <2>3. CASE f # e /\ g # e
    BY <1>0, <1>11, <2>3 DEF Tree, Branching
  <2> QED
    BY <2>1, <2>2, <2>3
<1>12. Branching(T2, W2, B, C2)
  BY <1>0, <1>11 DEF Branching
<1> QED
  BY <1>3, <1>5, <1>10, <1>12 DEF Tree

\* A new edge, still empty, at depth d of a word.
Grown(T, W, B, C, T2, W2, B2, C2, s, d) ==
    /\ T2 \in Seq(EdgeType) /\ Len(T2) = Len(T) + 1
    /\ \A f \in 1 .. Len(T) : T2[f].prefix = T[f].prefix /\ W2[f] = W[f] /\ B2[f] = B[f] /\ C2[f] = C[f]
    /\ T2[Len(T) + 1].next = 0 /\ T2[Len(T) + 1].child = 0 /\ T2[Len(T) + 1].prefix = << >>
    /\ W2[Len(T) + 1] = s /\ B2[Len(T) + 1] = d /\ C2[Len(T) + 1] = d

\* It disturbs neither what the edges stand for nor where words part.
LEMMA GrownEdges ==
    ASSUME NEW T, NEW W, NEW B, NEW C, Tree(T, W, B, C), NEW s, NEW d \in Nat,
           d > 0 => \E q \in 1 .. Len(T) : B[q] < C[q] /\ C[q] = d /\ Agree(W[q], s, d),
           NEW T2, NEW W2, NEW B2, NEW C2, Grown(T, W, B, C, T2, W2, B2, C2, s, d)
    PROVE  Labelled(T2, W2, B2, C2) /\ Branching(T2, W2, B2, C2)
<1>1. /\ Labelled(T, W, B, C) /\ Len(T) \in Nat /\ Len(T) >= 1
      /\ \A f \in 1 .. Len(T) : B[f] \in Nat /\ C[f] \in Nat /\ B[f] <= C[f]
  BY Depths
<1>2. PICK n : n = Len(T) + 1
  OBVIOUS
<1>3. /\ n \in Nat /\ n > 1
      /\ \A f \in 1 .. n : f = n \/ f \in 1 .. Len(T)
      /\ \A f \in 1 .. Len(T) : f \in 1 .. n /\ f # n
  BY <1>1, <1>2
<1>4. /\ T2 \in Seq(EdgeType) /\ Len(T2) = n
      /\ \A f \in 1 .. Len(T) : T2[f].prefix = T[f].prefix /\ W2[f] = W[f] /\ B2[f] = B[f] /\ C2[f] = C[f]
      /\ T2[n].prefix = << >> /\ W2[n] = s /\ B2[n] = d /\ C2[n] = d
  BY <1>2 DEF Grown
<1>5. Labelled(T2, W2, B2, C2)
  <2>1. ASSUME NEW f \in 1 .. n
        PROVE  /\ B2[f] \in Nat /\ C2[f] \in Nat /\ C2[f] = B2[f] + Len(T2[f].prefix)
               /\ \A i \in 1 .. Len(T2[f].prefix) : T2[f].prefix[i] = W2[f][B2[f] + i]
    <3>1. CASE f = n
      BY <1>4, <3>1
    <3>2. CASE f \in 1 .. Len(T)
      BY <1>1, <1>4, <3>2 DEF Labelled
    <3> QED
      BY <1>3, <3>1, <3>2
  <2>2. B2[1] = 0
    BY <1>1, <1>4 DEF Labelled
  <2> QED
    BY <1>3, <1>4, <2>1, <2>2 DEF Labelled
<1>6. ASSUME NEW f \in 1 .. n, NEW g \in 1 .. n, B2[f] < C2[f], f # g, B2[f] <= B2[g],
             B2[f] + 1 <= C2[g], Agree(W2[f], W2[g], B2[f] + 1)
      PROVE  C2[f] <= B2[g] /\ Agree(W2[f], W2[g], C2[f])
  <2>1. f \in 1 .. Len(T)
    BY <1>3, <1>4, <1>6
  <2>2. CASE g = n
    <3>1. B[f] < d /\ B[f] < C[f] /\ Agree(W[f], s, B[f] + 1)
      BY <1>1, <1>4, <1>6, <2>1, <2>2
    <3>2. C[f] <= d /\ Agree(W[f], s, C[f])
      BY <2>1, <3>1, EdgeAbove
    <3> QED
      BY <1>4, <2>1, <2>2, <3>2
  <2>3. CASE g \in 1 .. Len(T)
    BY <1>4, <1>6, <2>1, <2>3 DEF Tree, Branching
  <2> QED
    BY <1>3, <2>2, <2>3
<1>7. Branching(T2, W2, B2, C2)
  BY <1>4, <1>6 DEF Branching
<1> QED
  BY <1>5, <1>7

\* It begins the level below an edge.
HungBelow(T, T2, e) ==
    /\ T2[e].child = Len(T) + 1
    /\ \A f \in 1 .. Len(T) : T2[f].next = T[f].next /\ (f # e => T2[f].child = T[f].child)

\* The tree with the new level.
LEMMA GrowChild ==
    ASSUME NEW T, NEW W, NEW B, NEW C, Tree(T, W, B, C), NEW s, NEW e \in 1 .. Len(T),
           B[e] < C[e], T[e].child = 0, Agree(W[e], s, C[e]),
           NEW T2, NEW W2, NEW B2, NEW C2, Grown(T, W, B, C, T2, W2, B2, C2, s, C[e]), HungBelow(T, T2, e)
    PROVE  Tree(T2, W2, B2, C2)
<1>1. /\ Len(T) \in Nat /\ Len(T) >= 1
      /\ \A f \in 1 .. Len(T) : B[f] \in Nat /\ C[f] \in Nat /\ B[f] <= C[f]
  BY Depths
<1>2. PICK n : n = Len(T) + 1
  OBVIOUS
<1>3. /\ n \in Nat /\ n > 1
      /\ \A f \in 1 .. n : f = n \/ f \in 1 .. Len(T)
      /\ \A f \in 1 .. Len(T) : f \in 1 .. n /\ f # n /\ f <= n /\ f < n
  BY <1>1, <1>2
<1>4. /\ Len(T2) = n
      /\ \A f \in 1 .. Len(T) : W2[f] = W[f] /\ B2[f] = B[f] /\ C2[f] = C[f]
      /\ T2[n].next = 0 /\ T2[n].child = 0 /\ W2[n] = s /\ B2[n] = C[e] /\ C2[n] = C[e]
  BY <1>2 DEF Grown
<1>5. T2[e].child = n /\ \A f \in 1 .. Len(T) : T2[f].next = T[f].next /\ (f # e => T2[f].child = T[f].child)
  BY <1>2 DEF HungBelow
<1>6. Labelled(T2, W2, B2, C2) /\ Branching(T2, W2, B2, C2)
  BY <1>1, GrownEdges
<1>7. \A g \in 1 .. Len(T) : ~Under(W, B, C, e, g)
  BY DEF Tree, Parented
<1>8. \A f \in 1 .. Len(T) : ~Sib(W2, B2, f, n)
  <2> SUFFICES ASSUME NEW f \in 1 .. Len(T), Sib(W2, B2, f, n) PROVE FALSE
    OBVIOUS
  <2>1. B[f] = C[e] /\ Agree(W[f], s, B[f])
    BY <1>4 DEF Sib
  <2>2. Agree(W[e], W[f], B[f])
    BY <2>1 DEF Agree
  <2> QED
    BY <1>7, <2>1, <2>2 DEF Under
<1>9. Chained(T, W, B) /\ Parented(T, W, B, C)
  BY DEF Tree
<1>10. Chained(T2, W2, B2)
  <2>1. \A f, g \in 1 .. Len(T) : Sib(W2, B2, f, g) <=> Sib(W, B, f, g)
    BY <1>4 DEF Sib
  <2>2. ASSUME NEW f \in 1 .. n
        PROVE  /\ T2[f].next # 0 => T2[f].next \in 1 .. n /\ f < T2[f].next /\ Sib(W2, B2, f, T2[f].next)
               /\ \A g \in 1 .. n : f < g /\ Sib(W2, B2, f, g) => T2[f].next # 0 /\ T2[f].next <= g
    <3>1. CASE f = n
      BY <1>3, <1>4, <3>1
    <3>2. CASE f \in 1 .. Len(T)
      BY <1>3, <1>5, <1>8, <1>9, <2>1, <3>2 DEF Chained
    <3> QED
      BY <1>3, <3>1, <3>2
  <2> QED
    BY <1>4, <2>2 DEF Chained
<1>11. \A f, g \in 1 .. Len(T) : Under(W2, B2, C2, f, g) <=> Under(W, B, C, f, g)
  BY <1>4 DEF Under
<1>12. Under(W2, B2, C2, e, n) /\ \A g \in 1 .. n : ~Under(W2, B2, C2, n, g)
  BY <1>1, <1>4 DEF Under
<1>13. ASSUME NEW f \in 1 .. Len(T), f # e PROVE ~Under(W2, B2, C2, f, n)
  <2> SUFFICES ASSUME Under(W2, B2, C2, f, n) PROVE FALSE
    OBVIOUS
  <2>1. B[f] < C[f] /\ C[f] = C[e] /\ Agree(W[f], s, C[e])
    BY <1>4 DEF Under
  <2>2. Agree(W[f], W[e], C[f])
    BY <2>1 DEF Agree
  <2> QED
    BY <1>13, <2>1, <2>2, SameWord
<1>14. Parented(T2, W2, B2, C2)
  <2>1. ASSUME NEW f \in 1 .. n
        PROVE  /\ T2[f].child # 0 => T2[f].child \in 1 .. n /\ Under(W2, B2, C2, f, T2[f].child)
               /\ \A g \in 1 .. n : Under(W2, B2, C2, f, g) => T2[f].child # 0 /\ T2[f].child <= g
    <3>1. CASE f = n
      BY <1>4, <1>12, <3>1
    <3>2. CASE f = e
      BY <1>3, <1>5, <1>7, <1>11, <1>12, <3>2
    <3>3. CASE f \in 1 .. Len(T) /\ f # e
      BY <1>3, <1>5, <1>9, <1>11, <1>13, <3>3 DEF Parented
    <3> QED
      BY <1>3, <3>1, <3>2, <3>3
  <2>2. ASSUME NEW g \in 1 .. n, B2[g] > 0 PROVE \E f \in 1 .. n : Under(W2, B2, C2, f, g)
    <3>1. CASE g = n
      BY <1>3, <1>12, <3>1
    <3>2. CASE g \in 1 .. Len(T)
      <4>1. PICK f \in 1 .. Len(T) : Under(W, B, C, f, g)
        BY <1>4, <1>9, <2>2, <3>2 DEF Parented
      <4> QED
        BY <1>3, <1>11, <3>2, <4>1
    <3> QED
      BY <1>3, <3>1, <3>2
  <2> QED
    BY <1>4, <2>1, <2>2 DEF Parented
<1> QED
  BY <1>6, <1>10, <1>14 DEF Tree

\* It is the last of a level.
HungBeside(T, T2, e) ==
    /\ T2[e].next = Len(T) + 1
    /\ \A f \in 1 .. Len(T) : T2[f].child = T[f].child /\ (f # e => T2[f].next = T[f].next)

\* The tree with the longer level.
LEMMA GrowNext ==
    ASSUME NEW T, NEW W, NEW B, NEW C, Tree(T, W, B, C), NEW s, NEW e \in 1 .. Len(T),
           T[e].next = 0, Agree(W[e], s, B[e]),
           NEW T2, NEW W2, NEW B2, NEW C2, Grown(T, W, B, C, T2, W2, B2, C2, s, B[e]), HungBeside(T, T2, e)
    PROVE  Tree(T2, W2, B2, C2)
<1>1. /\ Len(T) \in Nat /\ Len(T) >= 1
      /\ \A f \in 1 .. Len(T) : B[f] \in Nat /\ C[f] \in Nat /\ B[f] <= C[f]
  BY Depths
<1>2. PICK n : n = Len(T) + 1
  OBVIOUS
<1>3. /\ n \in Nat /\ n > 1
      /\ \A f \in 1 .. n : f = n \/ f \in 1 .. Len(T)
      /\ \A f \in 1 .. Len(T) : f \in 1 .. n /\ f # n /\ f <= n /\ f < n
  BY <1>1, <1>2
<1>4. /\ Len(T2) = n
      /\ \A f \in 1 .. Len(T) : W2[f] = W[f] /\ B2[f] = B[f] /\ C2[f] = C[f]
      /\ T2[n].next = 0 /\ T2[n].child = 0 /\ W2[n] = s /\ B2[n] = B[e] /\ C2[n] = B[e]
  BY <1>2 DEF Grown
<1>5. T2[e].next = n /\ \A f \in 1 .. Len(T) : T2[f].child = T[f].child /\ (f # e => T2[f].next = T[f].next)
  BY <1>2 DEF HungBeside
<1>6. Chained(T, W, B) /\ Parented(T, W, B, C)
  BY DEF Tree
<1>7. ASSUME NEW f \in 1 .. Len(T), Under(W, B, C, f, e)
      PROVE  B[f] < C[f] /\ C[f] = B[e] /\ Agree(W[f], s, B[e])
  BY <1>7 DEF Under, Agree
<1>8. Labelled(T2, W2, B2, C2) /\ Branching(T2, W2, B2, C2)
  <2>1. B[e] > 0 => \E q \in 1 .. Len(T) : B[q] < C[q] /\ C[q] = B[e] /\ Agree(W[q], s, B[e])
    BY <1>6, <1>7 DEF Parented
  <2> QED
    BY <1>1, <2>1, GrownEdges
<1>9. ASSUME NEW f \in 1 .. Len(T) PROVE Sib(W2, B2, f, n) <=> Sib(W, B, f, e)
  <2>1. \A i \in 1 .. B[e] : W[e][i] = s[i]
    BY DEF Agree
  <2> QED
    BY <1>4, <2>1 DEF Sib, Agree
<1>10. Chained(T2, W2, B2)
  <2>1. \A f, g \in 1 .. Len(T) : Sib(W2, B2, f, g) <=> Sib(W, B, f, g)
    BY <1>4 DEF Sib
  <2>2. ASSUME NEW f \in 1 .. n
        PROVE  /\ T2[f].next # 0 => T2[f].next \in 1 .. n /\ f < T2[f].next /\ Sib(W2, B2, f, T2[f].next)
               /\ \A g \in 1 .. n : f < g /\ Sib(W2, B2, f, g) => T2[f].next # 0 /\ T2[f].next <= g
    <3>1. CASE f = n
      BY <1>3, <1>4, <3>1
    <3>2. CASE f = e
      <4>1. Sib(W2, B2, e, n)
        BY <1>9 DEF Sib, Agree
      <4>2. \A g \in 1 .. Len(T) : e < g => ~Sib(W2, B2, e, g)
        BY <1>6, <2>1 DEF Chained
      <4> QED
        BY <1>3, <1>5, <3>2, <4>1, <4>2
    <3>3. CASE f \in 1 .. Len(T) /\ f # e
      <4>1. ASSUME Sib(W2, B2, f, n) PROVE T2[f].next # 0 /\ T2[f].next <= n
        <5>1. Sib(W, B, f, e) /\ Sib(W, B, e, f)
          BY <1>9, <3>3, <4>1 DEF Sib, Agree
        <5>2. ~(e < f)
          BY <1>6, <3>3, <5>1 DEF Chained
        <5>3. f < e
          BY <3>3, <5>2
        <5>4. T[f].next # 0 /\ T[f].next \in 1 .. Len(T)
          BY <1>6, <3>3, <5>1, <5>3 DEF Chained
        <5> QED
          BY <1>3, <1>5, <3>3, <5>4
      <4> QED
        BY <1>3, <1>5, <1>6, <2>1, <3>3, <4>1 DEF Chained
    <3> QED
      BY <1>3, <3>1, <3>2, <3>3
  <2> QED
    BY <1>4, <2>2 DEF Chained
<1>11. \A f, g \in 1 .. Len(T) : Under(W2, B2, C2, f, g) <=> Under(W, B, C, f, g)
  BY <1>4 DEF Under
<1>12. \A g \in 1 .. n : ~Under(W2, B2, C2, n, g)
  BY <1>1, <1>4 DEF Under
<1>13. ASSUME NEW f \in 1 .. Len(T) PROVE Under(W2, B2, C2, f, n) <=> Under(W, B, C, f, e)
  <2>1. \A i \in 1 .. B[e] : W[e][i] = s[i]
    BY DEF Agree
  <2> QED
    BY <1>4, <2>1 DEF Under, Agree
<1>14. Parented(T2, W2, B2, C2)
  <2>1. ASSUME NEW f \in 1 .. n
        PROVE  /\ T2[f].child # 0 => T2[f].child \in 1 .. n /\ Under(W2, B2, C2, f, T2[f].child)
               /\ \A g \in 1 .. n : Under(W2, B2, C2, f, g) => T2[f].child # 0 /\ T2[f].child <= g
    <3>1. CASE f = n
      BY <1>4, <1>12, <3>1
    <3>2. CASE f \in 1 .. Len(T)
      <4>1. ASSUME Under(W2, B2, C2, f, n) PROVE T2[f].child # 0 /\ T2[f].child <= n
        <5>1. T[f].child # 0 /\ T[f].child \in 1 .. Len(T)
          BY <1>6, <1>13, <3>2, <4>1 DEF Parented
        <5> QED
          BY <1>3, <1>5, <3>2, <5>1
      <4> QED
        BY <1>3, <1>5, <1>6, <1>11, <3>2, <4>1 DEF Parented
    <3> QED
      BY <1>3, <3>1, <3>2
  <2>2. ASSUME NEW g \in 1 .. n, B2[g] > 0 PROVE \E f \in 1 .. n : Under(W2, B2, C2, f, g)
    <3>1. CASE g = n
      <4>1. PICK f \in 1 .. Len(T) : Under(W, B, C, f, e)
        BY <1>4, <1>6, <2>2, <3>1 DEF Parented
      <4> QED
        BY <1>3, <1>13, <3>1, <4>1
    <3>2. CASE g \in 1 .. Len(T)
      <4>1. PICK f \in 1 .. Len(T) : Under(W, B, C, f, g)
        BY <1>4, <1>6, <2>2, <3>2 DEF Parented
      <4> QED
        BY <1>3, <1>11, <3>2, <4>1
    <3> QED
      BY <1>3, <3>1, <3>2
  <2> QED
    BY <1>4, <2>1, <2>2 DEF Parented
<1> QED
  BY <1>8, <1>10, <1>14 DEF Tree

\* An edge e is cut at depth m: the rest of it becomes an edge below, which keeps what was
\* below e.
Cut(T, W, B, C, T2, W2, B2, C2, e, m) ==
    /\ T2 \in Seq(EdgeType) /\ Len(T2) = Len(T) + 1
    /\ \A f \in 1 .. Len(T) : /\ T2[f].next = T[f].next /\ W2[f] = W[f] /\ B2[f] = B[f]
                              /\ f # e => T2[f].child = T[f].child /\ T2[f].prefix = T[f].prefix /\ C2[f] = C[f]
    /\ T2[e].child = Len(T) + 1 /\ C2[e] = m /\ Len(T2[e].prefix) = m - B[e]
    /\ \A i \in 1 .. m - B[e] : T2[e].prefix[i] = T[e].prefix[i]
    /\ T2[Len(T) + 1].next = 0 /\ T2[Len(T) + 1].child = T[e].child
    /\ Len(T2[Len(T) + 1].prefix) = C[e] - m
    /\ \A i \in 1 .. C[e] - m : T2[Len(T) + 1].prefix[i] = T[e].prefix[m - B[e] + i]
    /\ W2[Len(T) + 1] = W[e] /\ B2[Len(T) + 1] = m /\ C2[Len(T) + 1] = C[e]

\* The tree stays one: no word passes the place of the cut on another edge.
LEMMA CutTree ==
    ASSUME NEW T, NEW W, NEW B, NEW C, Tree(T, W, B, C), NEW e \in 1 .. Len(T), NEW m \in Nat, B[e] < m, m < C[e],
           NEW T2, NEW W2, NEW B2, NEW C2, Cut(T, W, B, C, T2, W2, B2, C2, e, m)
    PROVE  Tree(T2, W2, B2, C2)
<1>1. /\ Len(T) \in Nat /\ Len(T) >= 1
      /\ \A f \in 1 .. Len(T) : B[f] \in Nat /\ C[f] \in Nat /\ B[f] <= C[f]
  BY Depths
<1>2. PICK n : n = Len(T) + 1
  OBVIOUS
<1>3. /\ n \in Nat /\ n > 1
      /\ \A f \in 1 .. n : f = n \/ f \in 1 .. Len(T)
      /\ \A f \in 1 .. Len(T) : f \in 1 .. n /\ f # n /\ f <= n /\ f < n
  BY <1>1, <1>2
<1>4. /\ Len(T2) = n
      /\ \A f \in 1 .. Len(T) : W2[f] = W[f] /\ B2[f] = B[f] /\ (f # e => C2[f] = C[f])
      /\ C2[e] = m /\ W2[n] = W[e] /\ B2[n] = m /\ C2[n] = C[e]
  BY <1>2 DEF Cut
<1>5. /\ \A f \in 1 .. Len(T) : T2[f].next = T[f].next /\ (f # e => T2[f].child = T[f].child)
      /\ T2[e].child = n /\ T2[n].next = 0 /\ T2[n].child = T[e].child
  BY <1>2 DEF Cut
<1>6. Chained(T, W, B) /\ Parented(T, W, B, C) /\ Branching(T, W, B, C) /\ Labelled(T, W, B, C)
  BY DEF Tree
<1>7. Labelled(T2, W2, B2, C2)
  <2>1. /\ Len(T[e].prefix) = C[e] - B[e]
        /\ \A i \in 1 .. C[e] - B[e] : T[e].prefix[i] = W[e][B[e] + i]
    <3>1. C[e] = B[e] + Len(T[e].prefix) /\ T[e] \in EdgeType /\ \A i \in 1 .. Len(T[e].prefix) : T[e].prefix[i] = W[e][B[e] + i]
      BY <1>6 DEF Labelled
    <3>2. Len(T[e].prefix) = C[e] - B[e]
      BY <1>1, <3>1 DEF EdgeType
    <3> QED
      BY <3>1, <3>2
  <2>2. ASSUME NEW f \in 1 .. n
        PROVE  /\ B2[f] \in Nat /\ C2[f] \in Nat /\ C2[f] = B2[f] + Len(T2[f].prefix)
               /\ \A i \in 1 .. Len(T2[f].prefix) : T2[f].prefix[i] = W2[f][B2[f] + i]
    <3>1. CASE f = n
      <4>1. /\ Len(T2[n].prefix) = C[e] - m
            /\ \A i \in 1 .. C[e] - m : T2[n].prefix[i] = T[e].prefix[m - B[e] + i]
        BY <1>2 DEF Cut
      <4>2. ASSUME NEW i \in 1 .. C[e] - m PROVE T2[n].prefix[i] = W[e][m + i]
        <5>1. PICK j : j = m - B[e] + i
          OBVIOUS
        <5>2. j \in 1 .. C[e] - B[e] /\ B[e] + j = m + i
          BY <1>1, <5>1
        <5>3. T[e].prefix[j] = W[e][m + i]
          BY <2>1, <5>2
        <5> QED
          BY <4>1, <5>1, <5>3
      <4> QED
        BY <1>1, <1>4, <3>1, <4>1, <4>2
    <3>2. CASE f = e
      <4>1. Len(T2[e].prefix) = m - B[e] /\ \A i \in 1 .. m - B[e] : T2[e].prefix[i] = T[e].prefix[i]
        BY DEF Cut
      <4>2. \A i \in 1 .. m - B[e] : i \in 1 .. C[e] - B[e]
        BY <1>1
      <4> QED
        BY <1>1, <1>4, <2>1, <3>2, <4>1, <4>2
    <3>3. CASE f \in 1 .. Len(T) /\ f # e
      <4>1. T2[f].prefix = T[f].prefix
        BY <3>3 DEF Cut
      <4>2. /\ B[f] \in Nat /\ C[f] \in Nat /\ C[f] = B[f] + Len(T[f].prefix)
            /\ \A i \in 1 .. Len(T[f].prefix) : T[f].prefix[i] = W[f][B[f] + i]
        BY <1>6, <3>3 DEF Labelled
      <4> QED
        BY <1>4, <3>3, <4>1, <4>2
    <3> QED
      BY <1>3, <3>1, <3>2, <3>3
  <2>3. T2 \in Seq(EdgeType) /\ B2[1] = 0
    BY <1>1, <1>4, <1>6 DEF Labelled, Cut
  <2> QED
    BY <1>3, <1>4, <2>2, <2>3 DEF Labelled
<1>8. \A g \in 1 .. Len(T) : g # e /\ B[e] <= B[g] /\ B[e] + 1 <= C[g] /\ Agree(W[e], W[g], B[e] + 1)
                             => C[e] <= B[g] /\ Agree(W[e], W[g], C[e])
  BY <1>1, <1>6 DEF Branching
\* Nothing else hangs at depth m of this word, nor ends there.
<1>9. ASSUME NEW g \in 1 .. Len(T), g # e, B[e] <= B[g], B[g] <= m, B[e] + 1 <= C[g] PROVE ~Agree(W[e], W[g], B[e] + 1)
  BY <1>1, <1>8, <1>9
<1>10. ASSUME NEW g \in 1 .. Len(T), B[g] = m PROVE ~Agree(W[e], W[g], m)
  <2> SUFFICES ASSUME Agree(W[e], W[g], m) PROVE FALSE
    OBVIOUS
  <2>1. Agree(W[e], W[g], B[e] + 1) /\ g # e /\ B[e] <= B[g] /\ B[e] + 1 <= C[g] /\ B[g] <= m
    BY <1>1, <1>10 DEF Agree
  <2> QED
    BY <1>9, <2>1
<1>11. ASSUME NEW f \in 1 .. Len(T), f # e, B[f] < C[f], C[f] = m PROVE ~Agree(W[f], W[e], m)
  <2> SUFFICES ASSUME Agree(W[f], W[e], m) PROVE FALSE
    OBVIOUS
  <2>1. CASE B[f] <= B[e]
    <3>1. Agree(W[f], W[e], B[f] + 1) /\ B[f] + 1 <= C[e]
      BY <1>1, <1>11, <2>1 DEF Agree
    <3>2. C[f] <= B[e]
      BY <1>6, <1>11, <2>1, <3>1 DEF Branching
    <3> QED
      BY <1>1, <1>11, <3>2
  <2>2. CASE B[e] <= B[f]
    <3>1. Agree(W[e], W[f], B[e] + 1) /\ B[e] + 1 <= C[f] /\ B[f] <= m
      BY <1>1, <1>11, <2>2 DEF Agree
    <3> QED
      BY <1>9, <1>11, <2>2, <3>1
  <2> QED
    BY <1>1, <2>1, <2>2
<1>12. Chained(T2, W2, B2)
  <2>1. \A f, g \in 1 .. Len(T) : Sib(W2, B2, f, g) <=> Sib(W, B, f, g)
    BY <1>4 DEF Sib
  <2>2. ASSUME NEW f \in 1 .. Len(T) PROVE ~Sib(W2, B2, f, n)
    <3> SUFFICES ASSUME B[f] = m, Agree(W[f], W[e], m) PROVE FALSE
      BY <1>4 DEF Sib
    <3> QED
      BY <1>10 DEF Agree
  <2>3. ASSUME NEW f \in 1 .. n
        PROVE  /\ T2[f].next # 0 => T2[f].next \in 1 .. n /\ f < T2[f].next /\ Sib(W2, B2, f, T2[f].next)
               /\ \A g \in 1 .. n : f < g /\ Sib(W2, B2, f, g) => T2[f].next # 0 /\ T2[f].next <= g
    <3>1. CASE f = n
      BY <1>3, <1>5, <3>1
    <3>2. CASE f \in 1 .. Len(T)
      BY <1>3, <1>5, <1>6, <2>1, <2>2, <3>2 DEF Chained
    <3> QED
      BY <1>3, <3>1, <3>2
  <2> QED
    BY <1>4, <2>3 DEF Chained
<1>13. \A f, g \in 1 .. Len(T) : f # e => (Under(W2, B2, C2, f, g) <=> Under(W, B, C, f, g))
  BY <1>4 DEF Under
<1>14. \A f \in 1 .. Len(T) : f # e => ~Under(W2, B2, C2, f, n)
  BY <1>4, <1>11 DEF Under
<1>15. Under(W2, B2, C2, e, n) /\ \A g \in 1 .. Len(T) : ~Under(W2, B2, C2, e, g)
  <2>1. Under(W2, B2, C2, e, n)
    BY <1>1, <1>4 DEF Under, Agree
  <2>2. ASSUME NEW g \in 1 .. Len(T), Under(W2, B2, C2, e, g) PROVE FALSE
    <3>1. B[g] = m /\ Agree(W[e], W[g], m)
      BY <1>4, <2>2 DEF Under
    <3> QED
      BY <1>10, <3>1
  <2> QED
    BY <2>1, <2>2
<1>16. ~Under(W2, B2, C2, n, n) /\ \A g \in 1 .. Len(T) : Under(W2, B2, C2, n, g) <=> Under(W, B, C, e, g)
  BY <1>1, <1>4 DEF Under
<1>17. Parented(T2, W2, B2, C2)
  <2>1. ASSUME NEW f \in 1 .. n
        PROVE  /\ T2[f].child # 0 => T2[f].child \in 1 .. n /\ Under(W2, B2, C2, f, T2[f].child)
               /\ \A g \in 1 .. n : Under(W2, B2, C2, f, g) => T2[f].child # 0 /\ T2[f].child <= g
    <3>1. CASE f = n
      BY <1>3, <1>5, <1>6, <1>16, <3>1 DEF Parented
    <3>2. CASE f = e
      BY <1>3, <1>5, <1>15, <3>2
    <3>3. CASE f \in 1 .. Len(T) /\ f # e
      BY <1>3, <1>5, <1>6, <1>13, <1>14, <3>3 DEF Parented
    <3> QED
      BY <1>3, <3>1, <3>2, <3>3
  <2>2. ASSUME NEW g \in 1 .. n, B2[g] > 0 PROVE \E f \in 1 .. n : Under(W2, B2, C2, f, g)
    <3>1. CASE g = n
      BY <1>3, <1>15, <3>1
    <3>2. CASE g \in 1 .. Len(T)
      <4>1. PICK f \in 1 .. Len(T) : Under(W, B, C, f, g)
        BY <1>4, <1>6, <2>2, <3>2 DEF Parented
      <4> QED
        BY <1>3, <1>13, <1>16, <3>2, <4>1
    <3> QED
      BY <1>3, <3>1, <3>2
  <2> QED
    BY <1>4, <2>1, <2>2 DEF Parented
<1>18. ASSUME NEW f \in 1 .. n, NEW g \in 1 .. n, B2[f] < C2[f], f # g, B2[f] <= B2[g],
              B2[f] + 1 <= C2[g], Agree(W2[f], W2[g], B2[f] + 1)
       PROVE  C2[f] <= B2[g] /\ Agree(W2[f], W2[g], C2[f])
  <2>1. CASE f = n /\ g = e
    BY <1>1, <1>4, <1>18, <2>1
  <2>2. CASE f = e /\ g = n
    BY <1>1, <1>4, <2>2 DEF Agree
  <2>3. CASE f = n /\ g \in 1 .. Len(T) /\ g # e
    <3>1. m <= B[g] /\ m + 1 <= C[g] /\ Agree(W[e], W[g], m + 1)
      BY <1>4, <1>18, <2>3
    <3>2. B[e] <= B[g] /\ B[e] + 1 <= C[g]
      BY <1>1, <2>3, <3>1
    <3>3. Agree(W[e], W[g], B[e] + 1)
      BY <1>1, <3>1 DEF Agree
    <3> QED
      BY <1>4, <1>8, <2>3, <3>2, <3>3
  <2>4. CASE f = e /\ g \in 1 .. Len(T)
    <3>1. C[e] <= B[g] /\ Agree(W[e], W[g], C[e])
      BY <1>4, <1>8, <1>18, <2>4
    <3> QED
      BY <1>1, <1>4, <2>4, <3>1 DEF Agree
  <2>5. CASE f \in 1 .. Len(T) /\ f # e /\ g = n
    <3>1. B[f] < C[f] /\ B[f] <= m /\ B[f] + 1 <= C[e] /\ Agree(W[f], W[e], B[f] + 1)
      BY <1>4, <1>18, <2>5
    <3>2. CASE B[f] <= B[e]
      <4>1. C[f] <= B[e] /\ Agree(W[f], W[e], C[f])
        BY <1>6, <2>5, <3>1, <3>2 DEF Branching
      <4> QED
        BY <1>1, <1>4, <2>5, <4>1
    <3>3. CASE B[e] < B[f]
      <4>1. B[e] + 1 <= C[f] /\ B[e] <= B[f]
        BY <1>1, <2>5, <3>1, <3>3
      <4>2. Agree(W[e], W[f], B[e] + 1)
        BY <1>1, <2>5, <3>1, <3>3 DEF Agree
      <4> QED
        BY <1>9, <2>5, <3>1, <4>1, <4>2
    <3> QED
      BY <1>1, <2>5, <3>2, <3>3
  <2>6. CASE f \in 1 .. Len(T) /\ f # e /\ g \in 1 .. Len(T)
    <3>1. B[f] < C[f] /\ B[f] <= B[g] /\ B[f] + 1 <= C[g] /\ Agree(W[f], W[g], B[f] + 1)
      BY <1>1, <1>4, <1>18, <2>6
    <3>2. C[f] <= B[g] /\ Agree(W[f], W[g], C[f])
      BY <1>6, <1>18, <2>6, <3>1 DEF Branching
    <3> QED
      BY <1>4, <2>6, <3>2
  <2> QED
    BY <1>3, <1>18, <2>1, <2>2, <2>3, <2>4, <2>5, <2>6
<1>19. Branching(T2, W2, B2, C2)
  BY <1>4, <1>18 DEF Branching
<1> QED
  BY <1>7, <1>12, <1>17, <1>19 DEF Tree

\* Every edge is reached from the root: the first of a level from its parent, another from
\* the one before it.
LEMMA AllReached ==
    ASSUME NEW T, NEW W, NEW B, NEW C, Tree(T, W, B, C), NEW S, 1 \in S,
           \A f \in 1 .. Len(T) : f \in S => /\ T[f].next # 0 => T[f].next \in S
                                             /\ T[f].child # 0 => T[f].child \in S
    PROVE  \A g \in 1 .. Len(T) : g \in S
<1> DEFINE bad == {g \in 1 .. Len(T) : g \notin S}
           depths == {B[g] : g \in bad}
<1>1. /\ Labelled(T, W, B, C) /\ Len(T) \in Nat /\ Len(T) >= 1
      /\ \A f \in 1 .. Len(T) : B[f] \in Nat /\ C[f] \in Nat
  BY Depths
<1> SUFFICES ASSUME bad # {} PROVE FALSE
  OBVIOUS
<1>2. PICK b \in depths : \A c \in depths : b <= c
  <2>1. depths \in SUBSET Nat /\ depths # {}
    BY <1>1
  <2> HIDE DEF depths
  <2> QED
    BY <2>1, LeastNat
<1>3. PICK g \in {h \in bad : B[h] = b} : \A h \in {h \in bad : B[h] = b} : g <= h
  <2> DEFINE these == {h \in bad : B[h] = b}
  <2>1. these \in SUBSET Nat /\ these # {}
    BY <1>2
  <2> HIDE DEF these
  <2>2. \E g \in these : \A h \in these : g <= h
    BY <2>1, LeastNat
  <2> QED
    BY <2>2 DEF these
<1>4. g \in 1 .. Len(T) /\ g \notin S /\ g # 1 /\ g > 1 /\ B[g] \in Nat
  BY <1>1, <1>3
<1>5. ASSUME NEW h \in 1 .. Len(T), B[h] < B[g] \/ (B[h] = B[g] /\ h < g) PROVE h \in S
  <2> SUFFICES ASSUME h \in bad PROVE FALSE
    OBVIOUS
  <2>1. B[h] \in depths /\ B[g] = b /\ B[h] \in Nat
    BY <1>1, <1>3
  <2>2. b <= B[h] /\ (B[h] = b => g <= h)
    BY <1>2, <1>3, <2>1
  <2> QED
    BY <1>4, <1>5, <2>1, <2>2
<1> DEFINE earlier == {h \in 1 .. Len(T) : h < g /\ Sib(W, B, h, g)}
<1>6. CASE earlier # {}
  <2>1. earlier \in SUBSET (0 .. Len(T))
    OBVIOUS
  <2>2. PICK h \in earlier : \A j \in earlier : j <= h
    <3> HIDE DEF earlier
    <3> QED
      BY <1>1, <1>6, <2>1, GreatestIndex
  <2>3. h \in 1 .. Len(T) /\ h < g /\ Sib(W, B, h, g) /\ h \in S
    BY <1>5 DEF Sib
  <2>4. /\ T[h].next # 0 /\ T[h].next <= g /\ T[h].next \in 1 .. Len(T) /\ h < T[h].next
        /\ Sib(W, B, h, T[h].next)
    BY <1>4, <2>3 DEF Tree, Chained
  <2>5. Sib(W, B, T[h].next, g)
    BY <2>3, <2>4 DEF Sib, Agree
  <2>6. T[h].next = g
    BY <1>4, <2>2, <2>3, <2>4, <2>5
  <2> QED
    BY <1>4, <2>3, <2>4, <2>6
<1>7. CASE earlier = {}
  <2>1. ~Sib(W, B, 1, g)
    BY <1>1, <1>4, <1>7
  <2>2. B[g] > 0
    BY <1>1, <1>4, <2>1 DEF Labelled, Sib, Agree
  <2>3. PICK p \in 1 .. Len(T) : Under(W, B, C, p, g)
    BY <1>4, <2>2 DEF Tree, Parented
  <2>4. p \in S
    BY <1>1, <1>4, <1>5, <2>3 DEF Under
  <2>5. T[p].child # 0 /\ T[p].child <= g /\ T[p].child \in 1 .. Len(T) /\ Under(W, B, C, p, T[p].child)
    BY <1>4, <2>3 DEF Tree, Parented
  <2>6. Sib(W, B, T[p].child, g)
    BY <2>3, <2>5 DEF Sib, Under, Agree
  <2>7. T[p].child = g
    BY <1>4, <1>7, <2>5, <2>6
  <2> QED
    BY <1>4, <2>4, <2>5, <2>7
<1> QED
  BY <1>6, <1>7

\* No edge hangs in two places.
LEMMA HangsOnce ==
    ASSUME NEW T, NEW W, NEW B, NEW C, Tree(T, W, B, C),
           NEW f \in 1 .. Len(T), NEW h \in 1 .. Len(T), NEW g, g # 0
    PROVE  /\ T[f].next = g /\ T[h].next = g => f = h
           /\ T[f].child = g /\ T[h].child = g => f = h
           /\ ~(T[f].next = g /\ T[h].child = g)
<1>1. Chained(T, W, B) /\ Parented(T, W, B, C)
  BY DEF Tree
<1>2. ASSUME NEW x \in 1 .. Len(T), NEW y \in 1 .. Len(T), T[x].next = g, T[y].next = g, x < y PROVE FALSE
  <2>1. g \in 1 .. Len(T) /\ y < g /\ Sib(W, B, x, g) /\ Sib(W, B, y, g)
    BY <1>1, <1>2 DEF Chained
  <2>2. Sib(W, B, x, y)
    BY <2>1 DEF Sib, Agree
  <2>3. T[x].next <= y
    BY <1>1, <1>2, <2>2 DEF Chained
  <2> QED
    BY <1>2, <2>1, <2>3
<1>3. ASSUME T[f].child = g, T[h].child = g PROVE f = h
  <2>1. Under(W, B, C, f, g) /\ Under(W, B, C, h, g)
    BY <1>1, <1>3 DEF Parented
  <2>2. B[f] < C[f] /\ B[h] < C[h] /\ C[f] = C[h] /\ Agree(W[f], W[h], C[f])
    BY <2>1 DEF Under, Agree
  <2> QED
    BY <2>2, SameWord
<1>4. ASSUME T[f].next = g, T[h].child = g PROVE FALSE
  <2>1. g \in 1 .. Len(T) /\ f < g /\ Sib(W, B, f, g) /\ Under(W, B, C, h, g)
    BY <1>1, <1>4 DEF Chained, Parented
  <2>2. Under(W, B, C, h, f)
    BY <2>1 DEF Sib, Under, Agree
  <2>3. T[h].child <= f
    BY <1>1, <2>2 DEF Parented
  <2> QED
    BY <1>4, <2>1, <2>3
<1> QED
  BY <1>2, <1>3, <1>4

\* The values are the numbers of the first m strings, each of which is found at an edge.
Numbered(T, W, B, C, ss, m) ==
    /\ \A f \in 1 .. Len(T) : T[f].value # RADIX_TREE_NONE =>
          B[f] < C[f] /\ \E i \in 1 .. m : /\ IsWord(W, C, f, ss[i]) /\ T[f].value = i - 1
                                           /\ \A j \in 1 .. m : ss[j] = ss[i] => j <= i
    /\ \A i \in 1 .. m : ss[i] # << >> =>
          \E f \in 1 .. Len(T) : B[f] < C[f] /\ IsWord(W, C, f, ss[i]) /\ T[f].value # RADIX_TREE_NONE

\* A step that leaves the edges with characters alone.
Kept(T, W, B, C, T2, W2, B2, C2) ==
    /\ Len(T) \in Nat /\ Len(T2) \in Nat /\ Len(T) <= Len(T2)
    /\ \A f \in 1 .. Len(T) : T2[f].value = T[f].value
    /\ \A f \in 1 .. Len(T) : B[f] < C[f] => W2[f] = W[f] /\ B2[f] = B[f] /\ C2[f] = C[f]
    /\ \A f \in 1 .. Len(T2) : f > Len(T) => T2[f].value = RADIX_TREE_NONE

\* The strings keep their numbers.
LEMMA KeepsNumbers ==
    ASSUME NEW T, NEW W, NEW B, NEW C, NEW ss, NEW m, Numbered(T, W, B, C, ss, m),
           NEW T2, NEW W2, NEW B2, NEW C2, Kept(T, W, B, C, T2, W2, B2, C2)
    PROVE  Numbered(T2, W2, B2, C2, ss, m)
<1>0. PICK k \in Nat : k = Len(T)
  BY DEF Kept
<1>10. /\ Len(T2) \in Nat /\ k <= Len(T2)
       /\ \A f \in 1 .. k : T2[f].value = T[f].value
       /\ \A f \in 1 .. k : B[f] < C[f] => W2[f] = W[f] /\ B2[f] = B[f] /\ C2[f] = C[f]
       /\ \A f \in 1 .. Len(T2) : f > k => T2[f].value = RADIX_TREE_NONE
  BY <1>0 DEF Kept
<1>1. \A f \in 1 .. k : f \in 1 .. Len(T2)
  BY <1>10
<1>2. ASSUME NEW f \in 1 .. Len(T2), T2[f].value # RADIX_TREE_NONE
      PROVE  B2[f] < C2[f] /\ \E i \in 1 .. m : /\ IsWord(W2, C2, f, ss[i]) /\ T2[f].value = i - 1
                                               /\ \A j \in 1 .. m : ss[j] = ss[i] => j <= i
  <2>1. f \in 1 .. k
    BY <1>2, <1>10
  <2>2. PICK i \in 1 .. m : IsWord(W, C, f, ss[i]) /\ T[f].value = i - 1 /\ \A j \in 1 .. m : ss[j] = ss[i] => j <= i
    BY <1>0, <1>2, <1>10, <2>1 DEF Numbered
  <2>3. B[f] < C[f]
    BY <1>0, <1>2, <1>10, <2>1 DEF Numbered
  <2>4. IsWord(W2, C2, f, ss[i]) /\ T2[f].value = i - 1 /\ B2[f] < C2[f]
    BY <1>10, <2>1, <2>2, <2>3 DEF IsWord
  <2> QED
    BY <2>2, <2>4
<1>3. ASSUME NEW i \in 1 .. m, ss[i] # << >>
      PROVE  \E f \in 1 .. Len(T2) : B2[f] < C2[f] /\ IsWord(W2, C2, f, ss[i]) /\ T2[f].value # RADIX_TREE_NONE
  <2>1. PICK f \in 1 .. k : B[f] < C[f] /\ IsWord(W, C, f, ss[i]) /\ T[f].value # RADIX_TREE_NONE
    BY <1>0, <1>3 DEF Numbered
  <2>2. B2[f] < C2[f] /\ IsWord(W2, C2, f, ss[i]) /\ T2[f].value # RADIX_TREE_NONE
    BY <1>10, <2>1 DEF IsWord
  <2> QED
    BY <1>1, <2>2
<1> QED
  BY <1>2, <1>3 DEF Numbered

\* A cut hands the number on.
HandedOn(T, T2, e) ==
    /\ \A f \in 1 .. Len(T) : T2[f].value = IF f = e THEN RADIX_TREE_NONE ELSE T[f].value
    /\ T2[Len(T) + 1].value = T[e].value

\* The string that ended with the edge ends with its rest.
LEMMA CutNumbers ==
    ASSUME NEW T, NEW W, NEW B, NEW C, Tree(T, W, B, C), NEW ss, NEW m, Numbered(T, W, B, C, ss, m),
           NEW e \in 1 .. Len(T), NEW k \in Nat, B[e] < k, k < C[e],
           NEW T2, NEW W2, NEW B2, NEW C2, Cut(T, W, B, C, T2, W2, B2, C2, e, k), HandedOn(T, T2, e)
    PROVE  Numbered(T2, W2, B2, C2, ss, m)
<1>1. PICK n : n = Len(T) + 1
  OBVIOUS
<1>2. /\ Len(T) \in Nat
      /\ \A f \in 1 .. n : f = n \/ f \in 1 .. Len(T)
      /\ \A f \in 1 .. Len(T) : f \in 1 .. n /\ f # n
      /\ n \in 1 .. n
  <2>1. Len(T) \in Nat
    BY Depths
  <2> QED
    BY <1>1, <2>1
<1>3. /\ Len(T2) = n
      /\ \A f \in 1 .. Len(T) : W2[f] = W[f] /\ B2[f] = B[f] /\ (f # e => C2[f] = C[f])
      /\ W2[n] = W[e] /\ B2[n] = k /\ C2[n] = C[e] /\ T2[n].value = T[e].value
  BY <1>1 DEF Cut, HandedOn
<1>4. \A i \in 1 .. m : IsWord(W2, C2, n, ss[i]) <=> IsWord(W, C, e, ss[i])
  BY <1>3 DEF IsWord
<1>5. \A i \in 1 .. m, f \in 1 .. Len(T) : f # e => (IsWord(W2, C2, f, ss[i]) <=> IsWord(W, C, f, ss[i]))
  BY <1>3 DEF IsWord
<1>6. ASSUME NEW f \in 1 .. n, T2[f].value # RADIX_TREE_NONE
      PROVE  B2[f] < C2[f] /\ \E i \in 1 .. m : /\ IsWord(W2, C2, f, ss[i]) /\ T2[f].value = i - 1
                                               /\ \A j \in 1 .. m : ss[j] = ss[i] => j <= i
  <2>1. CASE f = n
    BY <1>3, <1>4, <1>6, <2>1 DEF Numbered
  <2>2. CASE f \in 1 .. Len(T)
    <3>1. f # e /\ T2[f].value = T[f].value
      BY <1>6, <2>2 DEF HandedOn
    <3> QED
      BY <1>3, <1>5, <1>6, <2>2, <3>1 DEF Numbered
  <2> QED
    BY <1>2, <2>1, <2>2
<1>7. ASSUME NEW i \in 1 .. m, ss[i] # << >>
      PROVE  \E f \in 1 .. n : B2[f] < C2[f] /\ IsWord(W2, C2, f, ss[i]) /\ T2[f].value # RADIX_TREE_NONE
  <2>1. PICK f \in 1 .. Len(T) : B[f] < C[f] /\ IsWord(W, C, f, ss[i]) /\ T[f].value # RADIX_TREE_NONE
    BY <1>7 DEF Numbered
  <2>2. CASE f = e
    <3>1. B2[n] < C2[n] /\ IsWord(W2, C2, n, ss[i]) /\ T2[n].value # RADIX_TREE_NONE
      BY <1>3, <1>4, <2>1, <2>2
    <3> QED
      BY <1>2, <3>1
  <2>3. CASE f # e
    <3>1. B2[f] < C2[f] /\ IsWord(W2, C2, f, ss[i]) /\ T2[f].value # RADIX_TREE_NONE
      BY <1>3, <1>5, <2>1, <2>3 DEF HandedOn
    <3> QED
      BY <1>2, <3>1
  <2> QED
    BY <2>2, <2>3
<1> QED
  BY <1>3, <1>6, <1>7 DEF Numbered

\* The last string gets its number, at the edge that ends with it.
Saved(T, T2, e, m) ==
    Len(T2) = Len(T) /\ \A f \in 1 .. Len(T) : T2[f].value = IF f = e THEN m ELSE T[f].value

\* What was numbered before keeps its number, but for the string itself.
LEMMA SaveNumber ==
    ASSUME NEW T, NEW W, NEW B, NEW C, Tree(T, W, B, C), NEW ss, NEW m \in Nat, Numbered(T, W, B, C, ss, m),
           NEW n \in Nat, n = m + 1, NEW e \in 1 .. Len(T), B[e] < C[e], IsWord(W, C, e, ss[n]),
           NEW T2, Saved(T, T2, e, m)
    PROVE  Numbered(T2, W, B, C, ss, n)
<1>1. Len(T2) = Len(T) /\ \A f \in 1 .. Len(T) : T2[f].value = IF f = e THEN m ELSE T[f].value
  BY DEF Saved
<1>2. /\ \A i \in 1 .. n : i = n \/ i \in 1 .. m
      /\ \A i \in 1 .. m : i \in 1 .. n /\ i < n
      /\ n \in 1 .. n /\ n - 1 = m /\ m # RADIX_TREE_NONE
  <2>1. /\ \A i \in 1 .. n : i = n \/ i \in 1 .. m
        /\ \A i \in 1 .. m : i \in 1 .. n /\ i < n
        /\ n \in 1 .. n /\ n - 1 = m
    OBVIOUS
  <2>2. m # RADIX_TREE_NONE
    BY DEF RADIX_TREE_NONE
  <2> QED
    BY <2>1, <2>2
<1>3. IsWord(W, C, e, ss[n])
  OBVIOUS
<1>4. ASSUME NEW f \in 1 .. Len(T), T2[f].value # RADIX_TREE_NONE
      PROVE  B[f] < C[f] /\ \E i \in 1 .. n : /\ IsWord(W, C, f, ss[i]) /\ T2[f].value = i - 1
                                             /\ \A j \in 1 .. n : ss[j] = ss[i] => j <= i
  <2>1. CASE f = e
    BY <1>1, <1>2, <1>3, <2>1
  <2>2. CASE f # e
    <3>1. PICK i \in 1 .. m : IsWord(W, C, f, ss[i]) /\ T[f].value = i - 1 /\ \A j \in 1 .. m : ss[j] = ss[i] => j <= i
      BY <1>1, <1>4, <2>2 DEF Numbered
    <3>2. B[f] < C[f]
      BY <1>1, <1>4, <2>2 DEF Numbered
    <3>3. ss[n] # ss[i]
      <4> SUFFICES ASSUME ss[n] = ss[i] PROVE FALSE
        OBVIOUS
      <4>1. C[f] = C[e] /\ Agree(W[f], W[e], C[f])
        BY <1>3, <3>1 DEF IsWord, Agree
      <4> QED
        BY <2>2, <3>2, <4>1, SameWord
    <3>4. i \in 1 .. n /\ T2[f].value = i - 1 /\ \A j \in 1 .. n : ss[j] = ss[i] => j <= i
      BY <1>1, <1>2, <2>2, <3>1, <3>3
    <3> QED
      BY <3>1, <3>2, <3>4
  <2> QED
    BY <2>1, <2>2
<1>5. ASSUME NEW i \in 1 .. n, ss[i] # << >>
      PROVE  \E f \in 1 .. Len(T) : B[f] < C[f] /\ IsWord(W, C, f, ss[i]) /\ T2[f].value # RADIX_TREE_NONE
  <2>1. CASE i = n
    BY <1>1, <1>2, <1>3, <2>1
  <2>2. CASE i \in 1 .. m
    <3>1. PICK f \in 1 .. Len(T) : B[f] < C[f] /\ IsWord(W, C, f, ss[i]) /\ T[f].value # RADIX_TREE_NONE
      BY <1>5, <2>2 DEF Numbered
    <3>2. T2[f].value # RADIX_TREE_NONE
      BY <1>1, <1>2, <3>1
    <3> QED
      BY <3>1, <3>2
  <2> QED
    BY <1>2, <2>1, <2>2
<1> QED
  BY <1>1, <1>4, <1>5 DEF Numbered

\* An empty string is nowhere.
LEMMA SkipNumber ==
    ASSUME NEW T, NEW W, NEW B, NEW C, Tree(T, W, B, C), NEW ss, NEW m \in Nat, Numbered(T, W, B, C, ss, m),
           NEW n \in Nat, n = m + 1, ss[n] = << >>
    PROVE  Numbered(T, W, B, C, ss, n)
<1>2. /\ \A i \in 1 .. n : i = n \/ i \in 1 .. m
      /\ \A i \in 1 .. m : i \in 1 .. n /\ i < n
      /\ ss[n] = << >>
  OBVIOUS
<1>3. ASSUME NEW f \in 1 .. Len(T), T[f].value # RADIX_TREE_NONE
      PROVE  B[f] < C[f] /\ \E i \in 1 .. n : /\ IsWord(W, C, f, ss[i]) /\ T[f].value = i - 1
                                             /\ \A j \in 1 .. n : ss[j] = ss[i] => j <= i
  <2>1. PICK i \in 1 .. m : IsWord(W, C, f, ss[i]) /\ T[f].value = i - 1 /\ \A j \in 1 .. m : ss[j] = ss[i] => j <= i
    BY <1>3 DEF Numbered
  <2>2. B[f] < C[f] /\ B[f] \in Nat /\ C[f] \in Nat
    BY <1>3, Depths DEF Numbered
  <2>3. ss[i] # ss[n]
    BY <1>2, <2>1, <2>2 DEF IsWord
  <2>4. i \in 1 .. n /\ \A j \in 1 .. n : ss[j] = ss[i] => j <= i
    BY <1>2, <2>1, <2>3
  <2> QED
    BY <2>1, <2>2, <2>4
<1>4. ASSUME NEW i \in 1 .. n, ss[i] # << >>
      PROVE  \E f \in 1 .. Len(T) : B[f] < C[f] /\ IsWord(W, C, f, ss[i]) /\ T[f].value # RADIX_TREE_NONE
  BY <1>2, <1>4 DEF Numbered
<1> QED
  BY <1>3, <1>4 DEF Numbered

\* Writing a field of an edge.
LEMMA SetEdge ==
    ASSUME NEW T \in Seq(EdgeType), NEW e \in 1 .. Len(T), NEW y \in EdgeType
    PROVE  LET U == [T EXCEPT ![e] = y] IN
           /\ U \in Seq(EdgeType) /\ Len(U) = Len(T) /\ U[e] = y
           /\ \A f \in 1 .. Len(T) : f # e => U[f] = T[f]
OBVIOUS

\* Its characters,
LEMMA SetPrefix ==
    ASSUME NEW T \in Seq(EdgeType), NEW e \in 1 .. Len(T), NEW x \in Seq(Alphabet)
    PROVE  LET U == [T EXCEPT ![e].prefix = x] IN
           /\ U \in Seq(EdgeType) /\ Len(U) = Len(T) /\ U[e].prefix = x
           /\ \A f \in 1 .. Len(T) : /\ U[f].next = T[f].next /\ U[f].child = T[f].child /\ U[f].value = T[f].value
                                     /\ f # e => U[f].prefix = T[f].prefix
<1>1. PICK y : y = [T[e] EXCEPT !.prefix = x]
  OBVIOUS
<1>2. T[e] \in EdgeType
  OBVIOUS
<1>3. y \in EdgeType /\ y.prefix = x /\ y.next = T[e].next /\ y.child = T[e].child /\ y.value = T[e].value
  BY <1>1, <1>2 DEF EdgeType
<1>4. [T EXCEPT ![e].prefix = x] = [T EXCEPT ![e] = y]
  BY <1>1
<1>5. PICK U : U = [T EXCEPT ![e] = y]
  OBVIOUS
<1>6. /\ U \in Seq(EdgeType) /\ Len(U) = Len(T) /\ U[e] = y
      /\ \A f \in 1 .. Len(T) : f # e => U[f] = T[f]
  BY <1>3, <1>5, SetEdge
<1> QED
  BY <1>3, <1>4, <1>5, <1>6

\* its child,
LEMMA SetChild ==
    ASSUME NEW T \in Seq(EdgeType), NEW e \in 1 .. Len(T), NEW x \in Nat
    PROVE  LET U == [T EXCEPT ![e].child = x] IN
           /\ U \in Seq(EdgeType) /\ Len(U) = Len(T) /\ U[e].child = x
           /\ \A f \in 1 .. Len(T) : /\ U[f].next = T[f].next /\ U[f].value = T[f].value /\ U[f].prefix = T[f].prefix
                                     /\ f # e => U[f].child = T[f].child
<1>1. PICK y : y = [T[e] EXCEPT !.child = x]
  OBVIOUS
<1>2. T[e] \in EdgeType
  OBVIOUS
<1>3. y \in EdgeType /\ y.child = x /\ y.next = T[e].next /\ y.value = T[e].value /\ y.prefix = T[e].prefix
  BY <1>1, <1>2 DEF EdgeType
<1>4. [T EXCEPT ![e].child = x] = [T EXCEPT ![e] = y]
  BY <1>1
<1>5. PICK U : U = [T EXCEPT ![e] = y]
  OBVIOUS
<1>6. /\ U \in Seq(EdgeType) /\ Len(U) = Len(T) /\ U[e] = y
      /\ \A f \in 1 .. Len(T) : f # e => U[f] = T[f]
  BY <1>3, <1>5, SetEdge
<1> QED
  BY <1>3, <1>4, <1>5, <1>6

\* its next edge,
LEMMA SetNext ==
    ASSUME NEW T \in Seq(EdgeType), NEW e \in 1 .. Len(T), NEW x \in Nat
    PROVE  LET U == [T EXCEPT ![e].next = x] IN
           /\ U \in Seq(EdgeType) /\ Len(U) = Len(T) /\ U[e].next = x
           /\ \A f \in 1 .. Len(T) : /\ U[f].child = T[f].child /\ U[f].value = T[f].value /\ U[f].prefix = T[f].prefix
                                     /\ f # e => U[f].next = T[f].next
<1>1. PICK y : y = [T[e] EXCEPT !.next = x]
  OBVIOUS
<1>2. T[e] \in EdgeType
  OBVIOUS
<1>3. y \in EdgeType /\ y.next = x /\ y.child = T[e].child /\ y.value = T[e].value /\ y.prefix = T[e].prefix
  BY <1>1, <1>2 DEF EdgeType
<1>4. [T EXCEPT ![e].next = x] = [T EXCEPT ![e] = y]
  BY <1>1
<1>5. PICK U : U = [T EXCEPT ![e] = y]
  OBVIOUS
<1>6. /\ U \in Seq(EdgeType) /\ Len(U) = Len(T) /\ U[e] = y
      /\ \A f \in 1 .. Len(T) : f # e => U[f] = T[f]
  BY <1>3, <1>5, SetEdge
<1> QED
  BY <1>3, <1>4, <1>5, <1>6

\* and its value.
LEMMA SetValue ==
    ASSUME NEW T \in Seq(EdgeType), NEW e \in 1 .. Len(T), NEW x \in Int
    PROVE  LET U == [T EXCEPT ![e].value = x] IN
           /\ U \in Seq(EdgeType) /\ Len(U) = Len(T) /\ U[e].value = x
           /\ \A f \in 1 .. Len(T) : /\ U[f].next = T[f].next /\ U[f].child = T[f].child /\ U[f].prefix = T[f].prefix
                                     /\ f # e => U[f].value = T[f].value
<1>1. PICK y : y = [T[e] EXCEPT !.value = x]
  OBVIOUS
<1>2. T[e] \in EdgeType
  OBVIOUS
<1>3. y \in EdgeType /\ y.value = x /\ y.next = T[e].next /\ y.child = T[e].child /\ y.prefix = T[e].prefix
  BY <1>1, <1>2 DEF EdgeType
<1>4. [T EXCEPT ![e].value = x] = [T EXCEPT ![e] = y]
  BY <1>1
<1>5. PICK U : U = [T EXCEPT ![e] = y]
  OBVIOUS
<1>6. /\ U \in Seq(EdgeType) /\ Len(U) = Len(T) /\ U[e] = y
      /\ \A f \in 1 .. Len(T) : f # e => U[f] = T[f]
  BY <1>3, <1>5, SetEdge
<1> QED
  BY <1>3, <1>4, <1>5, <1>6

\* Allocating an edge.
LEMMA AppendEdge ==
    ASSUME NEW T \in Seq(EdgeType), NEW x \in EdgeType
    PROVE  /\ Append(T, x) \in Seq(EdgeType) /\ Len(Append(T, x)) = Len(T) + 1 /\ Append(T, x)[Len(T) + 1] = x
           /\ \A f \in 1 .. Len(T) : Append(T, x)[f] = T[f]
OBVIOUS

\* It is empty.
LEMMA NewEdge ==
    /\ edge_new \in EdgeType /\ edge_new.next = 0 /\ edge_new.child = 0
    /\ edge_new.value = RADIX_TREE_NONE /\ edge_new.prefix = << >>
BY DEF edge_new, EdgeType, RADIX_TREE_NONE

\* Common is how far two strings agree.
LEMMA CommonIs ==
    ASSUME NEW p \in Seq(Alphabet), NEW q \in Seq(Alphabet)
    PROVE  /\ Common(p, q) \in Nat /\ Common(p, q) <= Len(p) /\ Common(p, q) <= Len(q)
           /\ Agree(p, q, Common(p, q))
           /\ Common(p, q) < Len(p) /\ Common(p, q) < Len(q) => p[Common(p, q) + 1] # q[Common(p, q) + 1]
<1> DEFINE P(n) == /\ n <= Len(q) /\ \A i \in 1 .. n : p[i] = q[i]
                   /\ n < Len(p) /\ n < Len(q) => p[n + 1] # q[n + 1]
           S == {k \in 0 .. Len(p) : k <= Len(q) /\ \A i \in 1 .. k : p[i] = q[i]}
<1>1. Len(p) \in Nat /\ Len(q) \in Nat
  OBVIOUS
<1>2. \E n \in 0 .. Len(p) : P(n)
  <2>1. 0 \in S
    BY <1>1
  <2>2. S \in SUBSET (0 .. Len(p))
    OBVIOUS
  <2>3. PICK n \in S : \A k \in S : k <= n
    <3> HIDE DEF S
    <3> QED
      BY <1>1, <2>1, <2>2, GreatestIndex
  <2>4. ASSUME n < Len(p), n < Len(q), p[n + 1] = q[n + 1] PROVE FALSE
    <3>1. PICK k : k = n + 1
      OBVIOUS
    <3>2. k \in 0 .. Len(p) /\ k <= Len(q) /\ p[k] = q[k] /\ \A i \in 1 .. k : i = k \/ i \in 1 .. n
      BY <1>1, <2>3, <2>4, <3>1
    <3>3. k \in S
      BY <2>3, <3>2
    <3> QED
      BY <2>3, <3>1, <3>3
  <2> QED
    BY <2>3, <2>4
<1>3. Common(p, q) = CHOOSE n \in 0 .. Len(p) : P(n)
  BY DEF Common
<1>4. Common(p, q) \in 0 .. Len(p) /\ P(Common(p, q))
  <2> HIDE DEF P
  <2> QED
    BY <1>2, <1>3
<1> QED
  BY <1>1, <1>4 DEF Agree

\* The place of a search for the word s: an edge of a level that the word has come down to,
\* the edges before it begin with other characters, and z is what is left of the word.
At(T, W, B, e, s, z) ==
    /\ e \in 1 .. Len(T) /\ s \in Seq(Alphabet) /\ z \in Seq(Alphabet)
    /\ B[e] \in Nat /\ B[e] + Len(z) = Len(s) /\ \A i \in 1 .. Len(z) : z[i] = s[B[e] + i]
    /\ Agree(W[e], s, B[e])
    /\ z = << >> => B[e] = 0

PassedBy(T, W, B, C, e, s) ==
    s # << >> => \A f \in 1 .. Len(T) : f < e /\ Sib(W, B, f, e) /\ B[f] < C[f] => W[f][B[e] + 1] # s[B[e] + 1]

\* The edge is not the one to go on with.
Other(W, B, C, e, s) == s = << >> \/ B[e] = C[e] \/ W[e][B[e] + 1] # s[B[e] + 1]

\* A level without such an edge has none.
LEMMA EndOfLevel ==
    ASSUME NEW T, NEW W, NEW B, NEW C, Tree(T, W, B, C), NEW e, NEW s, NEW z,
           At(T, W, B, e, s, z), PassedBy(T, W, B, C, e, s), Other(W, B, C, e, s), T[e].next = 0, s # << >>
    PROVE  Missing(T, W, B, C, s, B[e])
<1>1. /\ e \in 1 .. Len(T) /\ Agree(W[e], s, B[e]) /\ B[e] \in Nat
      /\ Chained(T, W, B) /\ Parented(T, W, B, C) /\ Len(T) \in Nat
  BY Depths DEF At, Tree
<1>2. ASSUME B[e] > 0 PROVE \E q \in 1 .. Len(T) : B[q] < C[q] /\ C[q] = B[e] /\ Agree(W[q], s, B[e])
  <2>1. PICK q \in 1 .. Len(T) : Under(W, B, C, q, e)
    BY <1>1, <1>2 DEF Parented
  <2>2. B[q] < C[q] /\ C[q] = B[e] /\ Agree(W[q], W[e], B[e])
    BY <2>1 DEF Under
  <2> QED
    BY <1>1, <2>2 DEF Agree
<1>3. ASSUME NEW g \in 1 .. Len(T), B[g] = B[e], B[g] < C[g], Agree(W[g], s, B[e]) PROVE W[g][B[e] + 1] # s[B[e] + 1]
  <2>1. Sib(W, B, g, e) /\ Sib(W, B, e, g)
    BY <1>1, <1>3 DEF Sib, Agree
  <2>2. CASE g < e
    BY <1>3, <2>1, <2>2 DEF PassedBy
  <2>3. CASE g = e
    BY <1>1, <1>3, <2>3, Depths DEF Other
  <2>4. CASE e < g
    BY <1>1, <2>1, <2>4 DEF Chained
  <2> QED
    BY <1>1, <2>2, <2>3, <2>4
<1> QED
  BY <1>2, <1>3 DEF Missing

\* The search goes on to the next edge of the level,
LEMMA MoveOn ==
    ASSUME NEW T, NEW W, NEW B, NEW C, Tree(T, W, B, C), NEW e, NEW s, NEW z,
           At(T, W, B, e, s, z), PassedBy(T, W, B, C, e, s), Other(W, B, C, e, s), NEW g, g = T[e].next, g # 0
    PROVE  At(T, W, B, g, s, z) /\ PassedBy(T, W, B, C, g, s)
<1>1. /\ e \in 1 .. Len(T) /\ Agree(W[e], s, B[e]) /\ B[e] \in Nat
      /\ Chained(T, W, B) /\ Len(T) \in Nat
      /\ \A f \in 1 .. Len(T) : B[f] \in Nat /\ C[f] \in Nat
  BY Depths DEF At, Tree
<1>2. g \in 1 .. Len(T) /\ e < g /\ Sib(W, B, e, g)
  BY <1>1 DEF Chained
<1>3. B[g] = B[e] /\ Agree(W[g], s, B[e])
  BY <1>1, <1>2 DEF Sib, Agree
<1>4. At(T, W, B, g, s, z)
  BY <1>2, <1>3 DEF At
<1>5. ASSUME NEW f \in 1 .. Len(T), f < g, Sib(W, B, f, g), B[f] < C[f], s # << >> PROVE W[f][B[e] + 1] # s[B[e] + 1]
  <2>1. Sib(W, B, f, e) /\ Sib(W, B, e, f)
    BY <1>2, <1>5 DEF Sib, Agree
  <2>2. CASE f < e
    BY <1>5, <2>1, <2>2 DEF PassedBy
  <2>3. CASE f = e
    BY <1>1, <1>5, <2>3 DEF Other
  <2>4. CASE e < f
    BY <1>1, <1>2, <1>5, <2>1, <2>4 DEF Chained
  <2> QED
    BY <1>1, <2>2, <2>3, <2>4
<1> QED
  BY <1>3, <1>4, <1>5 DEF PassedBy

\* What is left of a word after d characters.
Rest(s, d, z) ==
    /\ s \in Seq(Alphabet) /\ z \in Seq(Alphabet) /\ z # << >>
    /\ d + Len(z) = Len(s) /\ \A i \in 1 .. Len(z) : z[i] = s[d + i]

\* or down to the first edge of the level below.
LEMMA GoDown ==
    ASSUME NEW T, NEW W, NEW B, NEW C, Tree(T, W, B, C), NEW e \in 1 .. Len(T), B[e] < C[e],
           NEW s, NEW z, Rest(s, C[e], z), Agree(W[e], s, C[e]), NEW g, g = T[e].child, g # 0
    PROVE  At(T, W, B, g, s, z) /\ PassedBy(T, W, B, C, g, s)
<1>1. Parented(T, W, B, C) /\ \A f \in 1 .. Len(T) : B[f] \in Nat /\ C[f] \in Nat
  BY Depths DEF Tree
<1>2. g \in 1 .. Len(T) /\ Under(W, B, C, e, g)
  BY <1>1 DEF Parented
<1>3. B[g] = C[e] /\ Agree(W[g], s, C[e])
  BY <1>2 DEF Under, Agree
<1>4. At(T, W, B, g, s, z)
  BY <1>1, <1>2, <1>3 DEF At, Rest
<1>5. ASSUME NEW f \in 1 .. Len(T), f < g, Sib(W, B, f, g) PROVE FALSE
  <2>1. Under(W, B, C, e, f)
    BY <1>2, <1>5 DEF Sib, Under, Agree
  <2> QED
    BY <1>1, <1>2, <1>5, <2>1 DEF Parented
<1> QED
  BY <1>4, <1>5 DEF PassedBy

\* What is left of the word, compared with the characters of the edge.
LEMMA SameLetters ==
    ASSUME NEW T, NEW W, NEW B, NEW C, Tree(T, W, B, C), NEW e, NEW s, NEW z, At(T, W, B, e, s, z),
           NEW n \in Nat, n <= Len(T[e].prefix), n <= Len(z), Agree(T[e].prefix, z, n)
    PROVE  /\ B[e] + n \in Nat /\ B[e] + n <= C[e] /\ B[e] + n <= Len(s) /\ Agree(W[e], s, B[e] + n)
           /\ n < Len(T[e].prefix) /\ n < Len(z) /\ T[e].prefix[n + 1] # z[n + 1]
                 => W[e][B[e] + n + 1] # s[B[e] + n + 1]
<1>1. /\ e \in 1 .. Len(T) /\ Agree(W[e], s, B[e]) /\ B[e] \in Nat /\ B[e] + Len(z) = Len(s)
      /\ s \in Seq(Alphabet) /\ z \in Seq(Alphabet)
      /\ \A i \in 1 .. Len(z) : z[i] = s[B[e] + i]
  BY DEF At
<1>2. /\ C[e] \in Nat /\ C[e] = B[e] + Len(T[e].prefix) /\ T[e] \in EdgeType
      /\ \A i \in 1 .. Len(T[e].prefix) : T[e].prefix[i] = W[e][B[e] + i]
  BY <1>1 DEF Tree, Labelled
<1>3. Len(T[e].prefix) \in Nat /\ Len(z) \in Nat /\ Len(s) \in Nat
  BY <1>1, <1>2 DEF EdgeType
<1>4. B[e] + n \in Nat /\ B[e] + n <= C[e] /\ B[e] + n <= Len(s)
  BY <1>1, <1>2, <1>3
<1>5. ASSUME NEW j \in 1 .. B[e] + n PROVE W[e][j] = s[j]
  <2>1. CASE j <= B[e]
    BY <1>1, <2>1 DEF Agree
  <2>2. CASE j > B[e]
    <3>1. PICK i : i = j - B[e]
      OBVIOUS
    <3>2. i \in 1 .. n /\ j = B[e] + i
      BY <1>1, <2>2, <3>1
    <3>3. i \in 1 .. Len(T[e].prefix) /\ i \in 1 .. Len(z) /\ T[e].prefix[i] = z[i]
      BY <1>3, <3>2 DEF Agree
    <3> QED
      BY <1>1, <1>2, <3>2, <3>3
  <2> QED
    BY <1>1, <2>1, <2>2
<1>6. ASSUME n < Len(T[e].prefix), n < Len(z), T[e].prefix[n + 1] # z[n + 1]
      PROVE  W[e][B[e] + n + 1] # s[B[e] + n + 1]
  <2>1. PICK k : k = n + 1
    OBVIOUS
  <2>0. PICK l \in Nat : l = Len(T[e].prefix)
    BY <1>3
  <2>2. k \in 1 .. Len(T[e].prefix) /\ k \in 1 .. Len(z) /\ B[e] + k = B[e] + n + 1
    <3>1. k \in 1 .. l /\ k \in 1 .. Len(z)
      BY <1>3, <1>6, <2>0, <2>1
    <3>2. B[e] + k = B[e] + n + 1
      <4>1. PICK b \in Nat : b = B[e]
        BY <1>1
      <4>2. b + k = b + n + 1
        BY <2>1
      <4> QED
        BY <4>1, <4>2
    <3> QED
      BY <2>0, <3>1, <3>2
  <2>3. T[e].prefix[k] = W[e][B[e] + k] /\ z[k] = s[B[e] + k] /\ T[e].prefix[k] # z[k]
    BY <1>1, <1>2, <1>6, <2>1, <2>2
  <2> QED
    BY <2>2, <2>3
<1> QED
  BY <1>4, <1>5, <1>6 DEF Agree

\* The first characters tell which edge to go on with.
LEMMA FirstChars ==
    ASSUME NEW T, NEW W, NEW B, NEW C, Tree(T, W, B, C), NEW e, NEW s, NEW z, At(T, W, B, e, s, z), NUL \notin Alphabet
    PROVE  /\ FirstChar(z) # FirstChar(T[e].prefix) => Other(W, B, C, e, s)
           /\ FirstChar(z) = FirstChar(T[e].prefix) /\ (z # << >> \/ T[e].prefix # << >>) =>
                 /\ z # << >> /\ T[e].prefix # << >> /\ B[e] < C[e] /\ B[e] + 1 <= Len(s)
                 /\ z[1] = T[e].prefix[1] /\ Agree(W[e], s, B[e] + 1)
           /\ B[e] = C[e] <=> T[e].prefix = << >>
<1>1. /\ e \in 1 .. Len(T) /\ B[e] \in Nat /\ B[e] + Len(z) = Len(s) /\ Agree(W[e], s, B[e])
      /\ s \in Seq(Alphabet) /\ z \in Seq(Alphabet)
      /\ \A i \in 1 .. Len(z) : z[i] = s[B[e] + i]
  BY DEF At
<1>2. /\ C[e] \in Nat /\ C[e] = B[e] + Len(T[e].prefix) /\ T[e] \in EdgeType
      /\ \A i \in 1 .. Len(T[e].prefix) : T[e].prefix[i] = W[e][B[e] + i]
  BY <1>1 DEF Tree, Labelled
<1>3. T[e].prefix \in Seq(Alphabet)
  BY <1>2 DEF EdgeType
<1>4. B[e] = C[e] <=> T[e].prefix = << >>
  <2>1. Len(T[e].prefix) \in Nat /\ (Len(T[e].prefix) = 0 <=> T[e].prefix = << >>)
    BY <1>3
  <2> QED
    BY <1>1, <1>2, <2>1
<1>5. ASSUME z # << >> PROVE FirstChar(z) = z[1] /\ z[1] \in Alphabet /\ z[1] = s[B[e] + 1] /\ B[e] + 1 <= Len(s)
  <2>1. Len(z) \in Nat /\ Len(z) >= 1 /\ 1 \in 1 .. Len(z)
    BY <1>1, <1>5
  <2>2. z[1] \in Alphabet
    BY <1>1, <2>1
  <2> QED
    BY <1>1, <1>5, <2>1, <2>2 DEF FirstChar
<1>6. ASSUME T[e].prefix # << >>
      PROVE  FirstChar(T[e].prefix) = T[e].prefix[1] /\ T[e].prefix[1] \in Alphabet /\ T[e].prefix[1] = W[e][B[e] + 1] /\ B[e] < C[e]
  <2>0. PICK p : p = T[e].prefix
    OBVIOUS
  <2>1. p \in Seq(Alphabet) /\ p # << >>
    BY <1>3, <1>6, <2>0
  <2>2. Len(p) \in Nat /\ Len(p) >= 1 /\ 1 \in 1 .. Len(p)
    BY <2>1
  <2>3. p[1] \in Alphabet
    BY <2>1, <2>2
  <2> QED
    BY <1>1, <1>2, <1>6, <2>0, <2>2, <2>3 DEF FirstChar
<1>7. /\ z = << >> => FirstChar(z) = NUL
      /\ T[e].prefix = << >> => FirstChar(T[e].prefix) = NUL
  BY DEF FirstChar
<1>8. ASSUME FirstChar(z) = FirstChar(T[e].prefix), z # << >> \/ T[e].prefix # << >>
      PROVE  /\ z # << >> /\ T[e].prefix # << >> /\ B[e] < C[e] /\ B[e] + 1 <= Len(s)
             /\ z[1] = T[e].prefix[1] /\ Agree(W[e], s, B[e] + 1)
  <2>1. z # << >> /\ T[e].prefix # << >>
    BY <1>5, <1>6, <1>7, <1>8
  <2>2. W[e][B[e] + 1] = s[B[e] + 1]
    BY <1>5, <1>6, <1>8, <2>1
  <2>3. Agree(W[e], s, B[e] + 1)
    BY <1>1, <2>2 DEF Agree
  <2> QED
    BY <1>5, <1>6, <1>8, <2>1, <2>3
<1>9. ASSUME FirstChar(z) # FirstChar(T[e].prefix) PROVE Other(W, B, C, e, s)
  <2>0. z = << >> => s = << >>
    <3>1. z = << >> => Len(s) = 0
      BY DEF At
    <3> QED
      BY <1>1, <3>1
  <2>1. CASE T[e].prefix = << >>
    BY <1>4, <2>1 DEF Other
  <2>2. CASE T[e].prefix # << >> /\ z # << >>
    BY <1>5, <1>6, <1>9, <2>2 DEF Other
  <2> QED
    BY <2>0, <2>1, <2>2 DEF Other
<1> QED
  BY <1>4, <1>8, <1>9


\* A word that leaves an edge before its end ends nowhere.
LEMMA NotInside ==
    ASSUME NEW T, NEW W, NEW B, NEW C, Tree(T, W, B, C), NEW e \in 1 .. Len(T), B[e] < C[e],
           NEW s, Len(s) \in Nat, B[e] + 1 <= Len(s), Agree(W[e], s, B[e] + 1),
           ~(C[e] <= Len(s) /\ Agree(W[e], s, C[e])),
           NEW g \in 1 .. Len(T), B[g] < C[g]
    PROVE  ~IsWord(W, C, g, s)
<1> SUFFICES ASSUME IsWord(W, C, g, s) PROVE FALSE
  OBVIOUS
<1>1. Branching(T, W, B, C) /\ B[e] \in Nat /\ C[e] \in Nat /\ B[g] \in Nat /\ C[g] \in Nat
  BY Depths DEF Tree
<1>2. C[g] = Len(s) /\ Agree(W[g], s, C[g]) /\ e # g
  BY <1>1 DEF IsWord
<1>3. CASE B[e] <= B[g]
  <2>1. Agree(W[e], W[g], B[e] + 1) /\ B[e] + 1 <= C[g]
    BY <1>1, <1>2, AgreeTrans
  <2>2. C[e] <= B[g] /\ Agree(W[e], W[g], C[e])
    BY <1>1, <1>2, <1>3, <2>1 DEF Branching
  <2>3. C[e] <= Len(s) /\ Agree(W[e], s, C[e])
    BY <1>1, <1>2, <2>2 DEF Agree
  <2> QED
    BY <2>3
<1>4. CASE B[g] < B[e]
  <2>1. Agree(W[g], W[e], B[g] + 1)
    BY <1>1, <1>2, <1>4 DEF Agree
  <2>2. C[g] <= B[e]
    BY <1>1, <1>2, <1>4, <2>1 DEF Branching
  <2> QED
    BY <1>1, <1>2, <2>2
<1> QED
  BY <1>1, <1>3, <1>4

\* What a search for a key should return: the number of its last place in the table.
LastOf(ss, key, v) ==
    \/ v = RADIX_TREE_NONE /\ (key = << >> \/ \A i \in 1 .. Len(ss) : ss[i] # key)
    \/ key # << >> /\ \E i \in 1 .. Len(ss) : ss[i] = key /\ v = i - 1 /\ \A j \in 1 .. Len(ss) : ss[j] = key => j <= i

\* A word that no edge ends with is not there.
LEMMA NotThere ==
    ASSUME NEW T, NEW W, NEW B, NEW C, NEW ss, Numbered(T, W, B, C, ss, Len(ss)), NEW key,
           key # << >> => \A g \in 1 .. Len(T) : B[g] < C[g] => ~IsWord(W, C, g, key)
    PROVE  LastOf(ss, key, RADIX_TREE_NONE)
BY DEF LastOf, Numbered

\* The value of the edge that a string ends with is its number.
LEMMA FoundAt ==
    ASSUME NEW T, NEW W, NEW B, NEW C, Tree(T, W, B, C), NEW ss \in Seq(Seq(Alphabet)),
           Numbered(T, W, B, C, ss, Len(ss)), NEW key \in Seq(Alphabet),
           NEW e \in 1 .. Len(T), B[e] < C[e], IsWord(W, C, e, key), key # << >>
    PROVE  LastOf(ss, key, T[e].value)
<1>1. PICK m \in Nat : m = Len(ss)
  OBVIOUS
<1>2. \A i \in 1 .. m : ss[i] \in Seq(Alphabet)
  BY <1>1
<1>3. CASE T[e].value # RADIX_TREE_NONE
  <2>1. PICK i \in 1 .. m : IsWord(W, C, e, ss[i]) /\ T[e].value = i - 1 /\ \A j \in 1 .. m : ss[j] = ss[i] => j <= i
    BY <1>1, <1>3 DEF Numbered
  <2>2. ss[i] = key
    <3>1. PICK w \in Seq(Alphabet) : w = ss[i]
      BY <1>2
    <3>2. Len(w) = Len(key) /\ \A j \in 1 .. Len(key) : w[j] = key[j]
      BY <2>1, <3>1 DEF IsWord, Agree
    <3> QED
      BY <3>1, <3>2, SeqEqual
  <2> QED
    BY <1>1, <2>1, <2>2 DEF LastOf
<1>4. CASE T[e].value = RADIX_TREE_NONE
  <2>1. ASSUME NEW i \in 1 .. m, ss[i] = key PROVE FALSE
    <3>1. PICK f \in 1 .. Len(T) : B[f] < C[f] /\ IsWord(W, C, f, key) /\ T[f].value # RADIX_TREE_NONE
      BY <1>1, <2>1 DEF Numbered
    <3>2. C[e] = C[f] /\ Agree(W[e], W[f], C[e])
      BY <3>1 DEF IsWord, Agree
    <3>3. e = f
      BY <3>1, <3>2, SameWord
    <3> QED
      BY <1>4, <3>1, <3>3
  <2> QED
    BY <1>1, <1>4, <2>1 DEF LastOf
<1> QED
  BY <1>3, <1>4

\* There is one such number, NumberOf.
LEMMA NumberIs ==
    ASSUME strings \in Seq(Seq(Alphabet)), NEW key, NEW v, LastOf(strings, key, v)
    PROVE  v = NumberOf(key)
<1>1. PICK ss \in Seq(Seq(Alphabet)) : ss = strings
  OBVIOUS
<1>2. PlacesOf(key) = {i \in 1 .. Len(ss) : ss[i] = key} /\ LastOf(ss, key, v)
  BY <1>1 DEF PlacesOf
<1>3. CASE v = RADIX_TREE_NONE /\ (key = << >> \/ \A i \in 1 .. Len(ss) : ss[i] # key)
  BY <1>2, <1>3 DEF NumberOf
<1>4. CASE key # << >> /\ \E i \in 1 .. Len(ss) : ss[i] = key /\ v = i - 1 /\ \A j \in 1 .. Len(ss) : ss[j] = key => j <= i
  <2>1. PICK i \in 1 .. Len(ss) : ss[i] = key /\ v = i - 1 /\ \A j \in 1 .. Len(ss) : ss[j] = key => j <= i
    BY <1>4
  <2>2. PICK S : S = PlacesOf(key)
    OBVIOUS
  <2>3. i \in S /\ (\A j \in S : j <= i) /\ \A j \in S : j \in Int
    BY <1>2, <2>1, <2>2
  <2>4. (CHOOSE k \in S : \A j \in S : j <= k) = i
    <3>1. \A k \in S : (\A j \in S : j <= k) => k = i
      BY <2>3
    <3> QED
      BY <2>3, <3>1
  <2> QED
    BY <1>4, <2>1, <2>2, <2>3, <2>4 DEF NumberOf
<1> QED
  BY <1>2, <1>3, <1>4 DEF LastOf


\* The characters after the first n.
LEMMA RestOf ==
    ASSUME NEW z \in Seq(Alphabet), NEW n \in Nat, n < Len(z)
    PROVE  /\ From(z, n) \in Seq(Alphabet) /\ From(z, n) # << >> /\ Len(From(z, n)) = Len(z) - n
           /\ \A i \in 1 .. Len(z) - n : From(z, n)[i] = z[n + i]
<1>1. PICK k : k = n + 1
  OBVIOUS
<1>2. PICK m : m = Len(z)
  OBVIOUS
<1>3. m \in Nat /\ k \in Int /\ k <= m /\ \A i \in k .. m : z[i] \in Alphabet
  BY <1>1, <1>2
<1>4. From(z, n) = SubSeq(z, k, m)
  BY <1>1, <1>2 DEF From
<1>5. PICK y : y = SubSeq(z, k, m)
  OBVIOUS
<1>6. /\ y \in Seq(Alphabet) /\ Len(y) = m - k + 1
      /\ \A i \in 1 .. m - k + 1 : y[i] = z[k + i - 1]
  BY <1>3, <1>5, SubSeqProperties
<1>7. Len(y) = m - n /\ Len(y) > 0 /\ \A i \in 1 .. m - n : y[i] = z[n + i]
  <2>1. m - k + 1 = m - n /\ m - n > 0 /\ m - n \in Nat
    BY <1>1, <1>2, <1>3
  <2>2. ASSUME NEW i \in 1 .. m - n PROVE y[i] = z[n + i]
    <3>1. k + i - 1 = n + i
      BY <1>1, <2>1
    <3>2. y[i] = z[k + i - 1]
      BY <1>6, <2>1
    <3> QED
      BY <3>1, <3>2
  <2> QED
    BY <1>6, <2>1, <2>2
<1>8. y # << >>
  BY <1>7
<1> QED
  BY <1>2, <1>4, <1>5, <1>6, <1>7, <1>8

\* Values do not matter to the shape of a tree.
LEMMA SameShape ==
    ASSUME NEW T, NEW W, NEW B, NEW C, Tree(T, W, B, C), NEW T2, T2 \in Seq(EdgeType), Len(T2) = Len(T),
           \A f \in 1 .. Len(T) : T2[f].next = T[f].next /\ T2[f].child = T[f].child /\ T2[f].prefix = T[f].prefix
    PROVE  Tree(T2, W, B, C)
<1>1. Labelled(T2, W, B, C)
  BY DEF Tree, Labelled
<1>2. Chained(T2, W, B)
  BY DEF Tree, Chained
<1>3. Parented(T2, W, B, C)
  BY DEF Tree, Parented
<1>4. Branching(T2, W, B, C)
  BY DEF Tree, Branching
<1> QED
  BY <1>1, <1>2, <1>3, <1>4 DEF Tree

\* A new edge, pointed to by another.
LEMMA AppendChild ==
    ASSUME NEW T \in Seq(EdgeType), NEW e \in 1 .. Len(T), NEW n \in Nat
    PROVE  LET T2 == Append([T EXCEPT ![e].child = n], edge_new) IN
           /\ T2 \in Seq(EdgeType) /\ Len(T2) = Len(T) + 1 /\ T2[Len(T) + 1] = edge_new /\ T2[e].child = n
           /\ \A f \in 1 .. Len(T) : /\ T2[f].next = T[f].next /\ T2[f].value = T[f].value /\ T2[f].prefix = T[f].prefix
                                     /\ f # e => T2[f].child = T[f].child
<1>1. PICK U : U = [T EXCEPT ![e].child = n]
  OBVIOUS
<1>2. /\ U \in Seq(EdgeType) /\ Len(U) = Len(T) /\ U[e].child = n
      /\ \A f \in 1 .. Len(T) : /\ U[f].next = T[f].next /\ U[f].value = T[f].value /\ U[f].prefix = T[f].prefix
                                /\ f # e => U[f].child = T[f].child
  BY <1>1, SetChild
<1>3. PICK T2 : T2 = Append(U, edge_new)
  OBVIOUS
<1>4. /\ T2 \in Seq(EdgeType) /\ Len(T2) = Len(U) + 1 /\ T2[Len(U) + 1] = edge_new
      /\ \A f \in 1 .. Len(U) : T2[f] = U[f]
  BY <1>2, <1>3, NewEdge, AppendEdge
<1>5. /\ T2 \in Seq(EdgeType) /\ Len(T2) = Len(T) + 1 /\ T2[Len(T) + 1] = edge_new /\ T2[e].child = n
      /\ \A f \in 1 .. Len(T) : /\ T2[f].next = T[f].next /\ T2[f].value = T[f].value /\ T2[f].prefix = T[f].prefix
                                /\ f # e => T2[f].child = T[f].child
  BY <1>2, <1>4
<1> QED
  BY <1>1, <1>3, <1>5

\* The same, beside an edge.
LEMMA AppendNext ==
    ASSUME NEW T \in Seq(EdgeType), NEW e \in 1 .. Len(T), NEW n \in Nat
    PROVE  LET T2 == Append([T EXCEPT ![e].next = n], edge_new) IN
           /\ T2 \in Seq(EdgeType) /\ Len(T2) = Len(T) + 1 /\ T2[Len(T) + 1] = edge_new /\ T2[e].next = n
           /\ \A f \in 1 .. Len(T) : /\ T2[f].child = T[f].child /\ T2[f].value = T[f].value /\ T2[f].prefix = T[f].prefix
                                     /\ f # e => T2[f].next = T[f].next
<1>1. PICK U : U = [T EXCEPT ![e].next = n]
  OBVIOUS
<1>2. /\ U \in Seq(EdgeType) /\ Len(U) = Len(T) /\ U[e].next = n
      /\ \A f \in 1 .. Len(T) : /\ U[f].child = T[f].child /\ U[f].value = T[f].value /\ U[f].prefix = T[f].prefix
                                /\ f # e => U[f].next = T[f].next
  BY <1>1, SetNext
<1>3. PICK T2 : T2 = Append(U, edge_new)
  OBVIOUS
<1>4. /\ T2 \in Seq(EdgeType) /\ Len(T2) = Len(U) + 1 /\ T2[Len(U) + 1] = edge_new
      /\ \A f \in 1 .. Len(U) : T2[f] = U[f]
  BY <1>2, <1>3, NewEdge, AppendEdge
<1>5. /\ T2 \in Seq(EdgeType) /\ Len(T2) = Len(T) + 1 /\ T2[Len(T) + 1] = edge_new /\ T2[e].next = n
      /\ \A f \in 1 .. Len(T) : /\ T2[f].child = T[f].child /\ T2[f].value = T[f].value /\ T2[f].prefix = T[f].prefix
                                /\ f # e => T2[f].next = T[f].next
  BY <1>2, <1>4
<1> QED
  BY <1>1, <1>3, <1>5

\* Edges without characters: the root of a tree without strings, and the edge that was made
\* last while a string is inserted.
AllFilled(T, B, C) == \A f \in 1 .. Len(T) : B[f] < C[f]
Fresh(T, B, C, e, z) ==
    \A f \in 1 .. Len(T) : B[f] = C[f] => T[f].next = 0 /\ (Len(T) = 1 \/ (f = e /\ z # << >>))

\* The tree with the first m strings, and while the next, s, is inserted.
Complete(T, W, B, C, ss, m) ==
    Tree(T, W, B, C) /\ Numbered(T, W, B, C, ss, m) /\ Fresh(T, B, C, 0, << >>)
Inserting(T, W, B, C, ss, m, s, e, z) ==
    /\ Tree(T, W, B, C) /\ Numbered(T, W, B, C, ss, m) /\ Fresh(T, B, C, e, z)
    /\ At(T, W, B, e, s, z) /\ PassedBy(T, W, B, C, e, s)

\* An edge with characters is looked at: all edges have some.
LEMMA NoneEmpty ==
    ASSUME NEW T, NEW W, NEW B, NEW C, NEW e \in 1 .. Len(T), NEW z, Tree(T, W, B, C), Fresh(T, B, C, e, z), B[e] < C[e]
    PROVE  AllFilled(T, B, C)
<1>1. /\ Len(T) \in Nat
      /\ \A f \in 1 .. Len(T) : B[f] \in Nat /\ C[f] \in Nat /\ B[f] <= C[f]
  BY Depths
<1>2. ASSUME NEW f \in 1 .. Len(T), B[f] = C[f] PROVE FALSE
  <2>1. Len(T) = 1 \/ f = e
    BY <1>2 DEF Fresh
  <2>2. CASE Len(T) = 1
    <3>1. \A x \in 1 .. Len(T) : x = 1
      BY <2>2
    <3>2. f = e
      BY <3>1
    <3> QED
      BY <1>1, <1>2, <3>2
  <2> QED
    BY <1>1, <1>2, <2>1, <2>2
<1> QED
  BY <1>1, <1>2 DEF AllFilled

\* The number is saved at an edge that ends with the string.
SavedAt(T, e, m, T2) == T2 = [T EXCEPT ![e].value = m]

\* The string is then in the tree.
LEMMA SaveAt ==
    ASSUME NEW T, NEW W, NEW B, NEW C, Tree(T, W, B, C), AllFilled(T, B, C), NEW ss, NEW m \in Nat,
           Numbered(T, W, B, C, ss, m), NEW n \in Nat, n = m + 1,
           NEW e \in 1 .. Len(T), IsWord(W, C, e, ss[n]),
           NEW T2, SavedAt(T, e, m, T2)
    PROVE  Complete(T2, W, B, C, ss, n)
<1>1. T \in Seq(EdgeType) /\ m \in Int /\ \A f \in 1 .. Len(T) : B[f] \in Nat /\ C[f] \in Nat
  BY Depths DEF Labelled
<1>2. /\ T2 \in Seq(EdgeType) /\ Len(T2) = Len(T) /\ T2[e].value = m
      /\ \A f \in 1 .. Len(T) : /\ T2[f].next = T[f].next /\ T2[f].child = T[f].child /\ T2[f].prefix = T[f].prefix
                                /\ f # e => T2[f].value = T[f].value
  BY <1>1, SetValue DEF SavedAt
<1>3. Tree(T2, W, B, C)
  BY <1>2, SameShape
<1>4. Numbered(T2, W, B, C, ss, n)
  <2>1. B[e] < C[e] /\ Saved(T, T2, e, m)
    BY <1>2 DEF AllFilled, Saved
  <2> QED
    BY <2>1, SaveNumber
<1>5. Fresh(T2, B, C, 0, << >>)
  BY <1>1, <1>2 DEF Fresh, AllFilled
<1> QED
  BY <1>3, <1>4, <1>5 DEF Complete

\* An edge below takes the rest of the string.
WithChild(T, e, T2) == T2 = Append([T EXCEPT ![e].child = Len(T) + 1], edge_new)
WithNext(T, e, T2) == T2 = Append([T EXCEPT ![e].next = Len(T) + 1], edge_new)

\* The insertion goes on at a new edge below,
LEMMA GrowAt ==
    ASSUME NEW T, NEW W, NEW B, NEW C, Tree(T, W, B, C), AllFilled(T, B, C), NEW ss, NEW m \in Nat,
           Numbered(T, W, B, C, ss, m), NEW e \in 1 .. Len(T), T[e].child = 0,
           NEW s, Agree(W[e], s, C[e]), NEW z, Rest(s, C[e], z),
           NEW n, n = Len(T) + 1, NEW T2, WithChild(T, e, T2)
    PROVE  \E W2, B2, C2 : Inserting(T2, W2, B2, C2, ss, m, s, n, z)
<1>1. /\ T \in Seq(EdgeType) /\ Len(T) \in Nat /\ Len(T) >= 1 /\ n \in Nat
      /\ \A f \in 1 .. Len(T) : B[f] \in Nat /\ C[f] \in Nat /\ B[f] < C[f]
  BY Depths DEF Labelled, AllFilled
<1>5. /\ T2 \in Seq(EdgeType) /\ Len(T2) = n /\ T2[n] = edge_new /\ T2[e].child = n
      /\ \A f \in 1 .. Len(T) : /\ T2[f].next = T[f].next /\ T2[f].value = T[f].value /\ T2[f].prefix = T[f].prefix
                                /\ f # e => T2[f].child = T[f].child
  <2>1. PICK k \in Nat : k = Len(T) + 1
    BY <1>1
  <2>2. PICK U : U = Append([T EXCEPT ![e].child = k], edge_new)
    OBVIOUS
  <2>3. /\ U \in Seq(EdgeType) /\ Len(U) = Len(T) + 1 /\ U[Len(T) + 1] = edge_new /\ U[e].child = k
        /\ \A f \in 1 .. Len(T) : /\ U[f].next = T[f].next /\ U[f].value = T[f].value /\ U[f].prefix = T[f].prefix
                                  /\ f # e => U[f].child = T[f].child
    BY <1>1, <2>2, AppendChild
  <2>4. U = T2 /\ k = n
    BY <2>1, <2>2 DEF WithChild
  <2> QED
    BY <2>3, <2>4
<1>6. PICK W2 : W2 = [f \in 1 .. n |-> IF f = n THEN s ELSE W[f]]
  OBVIOUS
<1>7. PICK B2 : B2 = [f \in 1 .. n |-> IF f = n THEN C[e] ELSE B[f]]
  OBVIOUS
<1>8. PICK C2 : C2 = [f \in 1 .. n |-> IF f = n THEN C[e] ELSE C[f]]
  OBVIOUS
<1>9. /\ n \in 1 .. n /\ \A f \in 1 .. Len(T) : f \in 1 .. n /\ f # n
      /\ \A f \in 1 .. n : f = n \/ f \in 1 .. Len(T)
  BY <1>1
<1>10. /\ W2[n] = s /\ B2[n] = C[e] /\ C2[n] = C[e]
       /\ \A f \in 1 .. Len(T) : W2[f] = W[f] /\ B2[f] = B[f] /\ C2[f] = C[f]
  BY <1>6, <1>7, <1>8, <1>9
<1> HIDE <1>6, <1>7, <1>8
<1>11. Grown(T, W, B, C, T2, W2, B2, C2, s, C[e])
  BY <1>5, <1>10, NewEdge DEF Grown
<1>12. Tree(T2, W2, B2, C2)
  <2>1. HungBelow(T, T2, e) /\ B[e] < C[e]
    BY <1>1, <1>5 DEF HungBelow
  <2> QED
    BY <1>11, <2>1, GrowChild
<1>13. Numbered(T2, W2, B2, C2, ss, m)
  <2>1. /\ \A f \in 1 .. Len(T) : T2[f].value = T[f].value
        /\ \A f \in 1 .. Len(T2) : f > Len(T) => T2[f].value = RADIX_TREE_NONE
    BY <1>5, <1>9, NewEdge
  <2>2. Kept(T, W, B, C, T2, W2, B2, C2)
    BY <1>1, <1>5, <1>10, <2>1 DEF Kept
  <2> QED
    BY <2>2, KeepsNumbers
<1>14. Fresh(T2, B2, C2, n, z)
  <2>1. ASSUME NEW f \in 1 .. n, B2[f] = C2[f] PROVE f = n
    <3>1. ASSUME f \in 1 .. Len(T) PROVE FALSE
      <4>1. B[f] = C[f] /\ B[f] < C[f] /\ B[f] \in Nat
        BY <1>1, <1>10, <2>1, <3>1
      <4> QED
        BY <4>1
    <3> QED
      BY <1>9, <3>1
  <2>2. T2[n].next = 0 /\ z # << >>
    BY <1>5, NewEdge DEF Rest
  <2> QED
    BY <1>5, <2>1, <2>2 DEF Fresh
<1>15. At(T2, W2, B2, n, s, z) /\ PassedBy(T2, W2, B2, C2, n, s)
  <2>1. e \in 1 .. Len(T2) /\ B2[e] < C2[e] /\ C2[e] = C[e] /\ W2[e] = W[e] /\ n = T2[e].child /\ n # 0
    BY <1>1, <1>5, <1>9, <1>10
  <2>2. Rest(s, C2[e], z) /\ Agree(W2[e], s, C2[e])
    BY <2>1
  <2> QED
    BY <1>12, <2>1, <2>2, GoDown
<1> QED
  BY <1>12, <1>13, <1>14, <1>15 DEF Inserting


\* The first characters of what is left.
LEMMA FirstOf ==
    ASSUME NEW z \in Seq(Alphabet), NEW n \in Nat, n <= Len(z)
    PROVE  /\ SubSeq(z, 1, n) \in Seq(Alphabet) /\ Len(SubSeq(z, 1, n)) = n
           /\ \A i \in 1 .. n : SubSeq(z, 1, n)[i] = z[i]
OBVIOUS

\* An empty edge is filled: the word has no other edge to go on with.
FilledTo(T, e, z, n, F) == F = [T EXCEPT ![e].prefix = SubSeq(z, 1, n)]

\* The tree with the edge filled.
LEMMA FillAt ==
    ASSUME NEW T, NEW W, NEW B, NEW C, NEW ss, NEW m, NEW e, NEW s, NEW z,
           Inserting(T, W, B, C, ss, m, s, e, z), z # << >>, T[e].prefix = << >>,
           NEW n \in Nat, n >= 1, n <= Len(z),
           NEW F, FilledTo(T, e, z, n, F)
    PROVE  \E W2, C2 : /\ Tree(F, W2, B, C2) /\ AllFilled(F, B, C2) /\ Numbered(F, W2, B, C2, ss, m)
                       /\ e \in 1 .. Len(F) /\ F[e].child = 0 /\ W2[e] = s /\ C2[e] = B[e] + n /\ Len(F) = Len(T)
<1>1. /\ Tree(T, W, B, C) /\ Numbered(T, W, B, C, ss, m) /\ Fresh(T, B, C, e, z)
      /\ At(T, W, B, e, s, z) /\ PassedBy(T, W, B, C, e, s)
  BY DEF Inserting
<1>2. /\ e \in 1 .. Len(T) /\ s \in Seq(Alphabet) /\ z \in Seq(Alphabet) /\ B[e] \in Nat
      /\ B[e] + Len(z) = Len(s) /\ \A i \in 1 .. Len(z) : z[i] = s[B[e] + i]
      /\ Agree(W[e], s, B[e])
  BY <1>1 DEF At
<1>3. /\ T \in Seq(EdgeType) /\ Len(T) \in Nat
      /\ \A f \in 1 .. Len(T) : B[f] \in Nat /\ C[f] \in Nat /\ B[f] <= C[f] /\ C[f] = B[f] + Len(T[f].prefix)
  BY <1>1, Depths DEF Labelled
<1>4. B[e] = C[e] /\ s # << >>
  <2>1. Len(z) \in Nat /\ Len(z) >= 1
    BY <1>2
  <2>2. Len(s) >= 1
    BY <1>2, <2>1
  <2>3. s # << >>
    BY <2>2
  <2>4. C[e] = B[e] + 0
    BY <1>2, <1>3
  <2> QED
    BY <1>2, <2>3, <2>4
<1>5. T[e].next = 0 /\ Missing(T, W, B, C, s, B[e])
  <2>1. T[e].next = 0 /\ Other(W, B, C, e, s)
    BY <1>1, <1>2, <1>4 DEF Fresh, Other
  <2> QED
    BY <1>1, <1>4, <2>1, EndOfLevel
<1>6. T[e].child = 0
  <2> SUFFICES ASSUME T[e].child # 0 PROVE FALSE
    OBVIOUS
  <2>1. B[e] < C[e]
    BY <1>1, <1>2 DEF Tree, Parented, Under
  <2> QED
    BY <1>2, <1>4, <2>1
<1>7. PICK x : x = SubSeq(z, 1, n)
  OBVIOUS
<1>8. x \in Seq(Alphabet) /\ Len(x) = n /\ x # << >> /\ \A i \in 1 .. n : x[i] = z[i]
  <2>1. x \in Seq(Alphabet) /\ Len(x) = n /\ \A i \in 1 .. n : x[i] = z[i]
    BY <1>2, <1>7, FirstOf
  <2>2. x # << >>
    BY <2>1
  <2> QED
    BY <2>1, <2>2
<1>9. /\ F \in Seq(EdgeType) /\ Len(F) = Len(T) /\ F[e].prefix = x
      /\ \A f \in 1 .. Len(T) : /\ F[f].next = T[f].next /\ F[f].child = T[f].child /\ F[f].value = T[f].value
                                /\ f # e => F[f].prefix = T[f].prefix
  <2>1. PICK U : U = [T EXCEPT ![e].prefix = x]
    OBVIOUS
  <2>2. /\ U \in Seq(EdgeType) /\ Len(U) = Len(T) /\ U[e].prefix = x
        /\ \A f \in 1 .. Len(T) : /\ U[f].next = T[f].next /\ U[f].child = T[f].child /\ U[f].value = T[f].value
                                  /\ f # e => U[f].prefix = T[f].prefix
    BY <1>2, <1>3, <1>8, <2>1, SetPrefix
  <2>3. U = F
    BY <1>7, <2>1 DEF FilledTo
  <2> QED
    BY <2>2, <2>3
<1>10. PICK W2 : W2 = [f \in 1 .. Len(T) |-> IF f = e THEN s ELSE W[f]]
  OBVIOUS
<1>11. PICK C2 : C2 = [f \in 1 .. Len(T) |-> IF f = e THEN B[e] + n ELSE C[f]]
  OBVIOUS
<1>12. /\ W2[e] = s /\ C2[e] = B[e] + n
       /\ \A f \in 1 .. Len(T) : f # e => W2[f] = W[f] /\ C2[f] = C[f]
  BY <1>2, <1>10, <1>11
<1> HIDE <1>10, <1>11
<1>13. Tree(F, W2, B, C2)
  <2>1. ASSUME NEW i \in 1 .. n PROVE x[i] = s[B[e] + i]
    <3>1. Len(z) \in Nat
      BY <1>2
    <3>2. i \in 1 .. Len(z)
      BY <3>1
    <3> QED
      BY <1>2, <1>8, <3>2
  <2>2. FilledWith(T, W, B, C, F, W2, C2, s, e)
    BY <1>8, <1>9, <1>12, <2>1 DEF FilledWith
  <2> QED
    BY <1>1, <1>2, <1>4, <1>5, <1>6, <2>2, FillTree
<1>14. AllFilled(F, B, C2)
  <2>1. ASSUME NEW f \in 1 .. Len(T), f # e PROVE B[f] < C[f]
    <3>1. ASSUME B[f] = C[f] PROVE FALSE
      <4>1. Len(T) = 1
        BY <1>1, <2>1, <3>1 DEF Fresh
      <4>2. \A y \in 1 .. Len(T) : y = 1
        BY <4>1
      <4> QED
        BY <1>2, <2>1, <4>2
    <3> QED
      BY <1>3, <3>1
  <2>2. B[e] < C2[e]
    BY <1>2, <1>12
  <2> QED
    BY <1>9, <1>12, <2>1, <2>2 DEF AllFilled
<1>15. Numbered(F, W2, B, C2, ss, m)
  <2>1. \A f \in 1 .. Len(T) : B[f] < C[f] => f # e
    BY <1>2, <1>4
  <2>2. Kept(T, W, B, C, F, W2, B, C2)
    BY <1>3, <1>9, <1>12, <2>1 DEF Kept
  <2> QED
    BY <1>1, <2>2, KeepsNumbers
<1>16. e \in 1 .. Len(F) /\ F[e].child = 0 /\ Len(F) = Len(T)
  BY <1>2, <1>6, <1>9
<1> QED
  BY <1>12, <1>13, <1>14, <1>15, <1>16

\* A new edge at the end of a level.
LEMMA NextAt ==
    ASSUME NEW T, NEW W, NEW B, NEW C, NEW ss, NEW m, NEW e, NEW s, NEW z,
           Inserting(T, W, B, C, ss, m, s, e, z), z # << >>, T[e].prefix # << >>, T[e].next = 0, Other(W, B, C, e, s),
           NEW n, n = Len(T) + 1, NEW T2, WithNext(T, e, T2)
    PROVE  \E W2, B2, C2 : Inserting(T2, W2, B2, C2, ss, m, s, n, z)
<1>1. /\ Tree(T, W, B, C) /\ Numbered(T, W, B, C, ss, m) /\ Fresh(T, B, C, e, z)
      /\ At(T, W, B, e, s, z) /\ PassedBy(T, W, B, C, e, s)
  BY DEF Inserting
<1>2. /\ e \in 1 .. Len(T) /\ s \in Seq(Alphabet) /\ z \in Seq(Alphabet) /\ B[e] \in Nat
      /\ B[e] + Len(z) = Len(s) /\ \A i \in 1 .. Len(z) : z[i] = s[B[e] + i]
      /\ Agree(W[e], s, B[e])
  BY <1>1 DEF At
<1>3. /\ T \in Seq(EdgeType) /\ Len(T) \in Nat /\ Len(T) >= 1 /\ n \in Nat /\ T[e] \in EdgeType
      /\ \A f \in 1 .. Len(T) : B[f] \in Nat /\ C[f] \in Nat /\ B[f] <= C[f] /\ C[f] = B[f] + Len(T[f].prefix)
  BY <1>1, <1>2, Depths DEF Labelled
<1>4. AllFilled(T, B, C)
  <2>1. PICK p \in Seq(Alphabet) : p = T[e].prefix
    BY <1>3 DEF EdgeType
  <2>2. Len(p) \in Nat /\ Len(p) >= 1
    BY <2>1
  <2>3. B[e] < C[e]
    BY <1>2, <1>3, <2>1, <2>2
  <2> QED
    BY <1>1, <1>2, <2>3, NoneEmpty
<1>5. /\ T2 \in Seq(EdgeType) /\ Len(T2) = n /\ T2[n] = edge_new /\ T2[e].next = n
      /\ \A f \in 1 .. Len(T) : /\ T2[f].child = T[f].child /\ T2[f].value = T[f].value /\ T2[f].prefix = T[f].prefix
                                /\ f # e => T2[f].next = T[f].next
  <2>1. PICK k \in Nat : k = Len(T) + 1
    BY <1>3
  <2>2. PICK U : U = Append([T EXCEPT ![e].next = k], edge_new)
    OBVIOUS
  <2>3. /\ U \in Seq(EdgeType) /\ Len(U) = Len(T) + 1 /\ U[Len(T) + 1] = edge_new /\ U[e].next = k
        /\ \A f \in 1 .. Len(T) : /\ U[f].child = T[f].child /\ U[f].value = T[f].value /\ U[f].prefix = T[f].prefix
                                  /\ f # e => U[f].next = T[f].next
    BY <1>2, <1>3, <2>2, AppendNext
  <2>4. U = T2 /\ k = n
    BY <2>1, <2>2 DEF WithNext
  <2> QED
    BY <2>3, <2>4
<1>6. PICK W2 : W2 = [f \in 1 .. n |-> IF f = n THEN s ELSE W[f]]
  OBVIOUS
<1>7. PICK B2 : B2 = [f \in 1 .. n |-> IF f = n THEN B[e] ELSE B[f]]
  OBVIOUS
<1>8. PICK C2 : C2 = [f \in 1 .. n |-> IF f = n THEN B[e] ELSE C[f]]
  OBVIOUS
<1>9. /\ n \in 1 .. n /\ \A f \in 1 .. Len(T) : f \in 1 .. n /\ f # n
      /\ \A f \in 1 .. n : f = n \/ f \in 1 .. Len(T)
  BY <1>3
<1>10. /\ W2[n] = s /\ B2[n] = B[e] /\ C2[n] = B[e]
       /\ \A f \in 1 .. Len(T) : W2[f] = W[f] /\ B2[f] = B[f] /\ C2[f] = C[f]
  BY <1>6, <1>7, <1>8, <1>9
<1> HIDE <1>6, <1>7, <1>8
<1>11. Grown(T, W, B, C, T2, W2, B2, C2, s, B[e])
  BY <1>5, <1>10, NewEdge DEF Grown
<1>12. Tree(T2, W2, B2, C2)
  <2>1. HungBeside(T, T2, e)
    BY <1>3, <1>5 DEF HungBeside
  <2> QED
    BY <1>1, <1>2, <1>11, <2>1, GrowNext
<1>13. Numbered(T2, W2, B2, C2, ss, m)
  <2>1. /\ \A f \in 1 .. Len(T) : T2[f].value = T[f].value
        /\ \A f \in 1 .. Len(T2) : f > Len(T) => T2[f].value = RADIX_TREE_NONE
    BY <1>5, <1>9, NewEdge
  <2>2. Kept(T, W, B, C, T2, W2, B2, C2)
    BY <1>3, <1>5, <1>10, <2>1 DEF Kept
  <2> QED
    BY <1>1, <2>2, KeepsNumbers
<1>14. Fresh(T2, B2, C2, n, z)
  <2>1. ASSUME NEW f \in 1 .. n, B2[f] = C2[f] PROVE f = n
    <3>1. ASSUME f \in 1 .. Len(T) PROVE FALSE
      <4>1. B[f] = C[f] /\ B[f] < C[f] /\ B[f] \in Nat
        BY <1>3, <1>4, <1>10, <2>1, <3>1 DEF AllFilled
      <4> QED
        BY <4>1
    <3> QED
      BY <1>9, <3>1
  <2>2. T2[n].next = 0
    BY <1>5, NewEdge
  <2> QED
    BY <1>5, <2>1, <2>2 DEF Fresh
<1>15. At(T2, W2, B2, n, s, z) /\ PassedBy(T2, W2, B2, C2, n, s)
  <2>1. e \in 1 .. n /\ B2[e] = B[e] /\ C2[e] = C[e] /\ W2[e] = W[e] /\ n = T2[e].next /\ n # 0
    BY <1>2, <1>3, <1>5, <1>9, <1>10
  <2>2. At(T2, W2, B2, e, s, z)
    BY <1>1, <1>5, <2>1 DEF At
  <2>3. PassedBy(T2, W2, B2, C2, e, s)
    <3> SUFFICES ASSUME s # << >>, NEW f \in 1 .. n, f < e, Sib(W2, B2, f, e), B2[f] < C2[f]
                 PROVE  W2[f][B2[e] + 1] # s[B2[e] + 1]
      BY <1>5 DEF PassedBy
    <3>1. f \in 1 .. Len(T)
      BY <1>2, <1>3, <1>9
    <3>2. Sib(W, B, f, e) /\ B[f] < C[f] /\ W2[f] = W[f]
      BY <1>10, <2>1, <3>1 DEF Sib
    <3> QED
      BY <1>1, <2>1, <3>1, <3>2 DEF PassedBy
  <2>4. Other(W2, B2, C2, e, s)
    BY <2>1 DEF Other
  <2> QED
    BY <1>12, <2>1, <2>2, <2>3, <2>4, MoveOn
<1> QED
  BY <1>12, <1>13, <1>14, <1>15 DEF Inserting


\* The edge for the characters after the first n.
LEMMA LowerPart ==
    ASSUME NEW o \in EdgeType, NEW x \in Seq(Alphabet)
    PROVE  LET y == [edge_new EXCEPT !.value = o.value, !.child = o.child, !.prefix = x] IN
           y \in EdgeType /\ y.value = o.value /\ y.child = o.child /\ y.prefix = x /\ y.next = 0
BY DEF edge_new, EdgeType

\* An edge is cut after n of its characters, and what the steps before know of it.
CutInTwo(T, T2, e, n) ==
    /\ T2 \in Seq(EdgeType) /\ Len(T2) = Len(T) + 1
    /\ \A f \in 1 .. Len(T) : T2[f].next = T[f].next
    /\ \A f \in 1 .. Len(T) : f # e => T2[f].child = T[f].child /\ T2[f].value = T[f].value /\ T2[f].prefix = T[f].prefix
    /\ T2[e].child = Len(T) + 1 /\ T2[e].value = RADIX_TREE_NONE /\ Len(T2[e].prefix) = n
    /\ \A i \in 1 .. n : T2[e].prefix[i] = T[e].prefix[i]
    /\ T2[Len(T) + 1].next = 0 /\ T2[Len(T) + 1].child = T[e].child /\ T2[Len(T) + 1].value = T[e].value
    /\ Len(T2[Len(T) + 1].prefix) = Len(T[e].prefix) - n
    /\ \A i \in 1 .. Len(T[e].prefix) - n : T2[Len(T) + 1].prefix[i] = T[e].prefix[n + i]

\* That is what SplitTree makes.
LEMMA CutEdges ==
    ASSUME NEW T \in Seq(EdgeType), NEW e \in 1 .. Len(T), NEW n \in Nat, n < Len(T[e].prefix)
    PROVE  CutInTwo(T, Append([T EXCEPT ![e].value = RADIX_TREE_NONE, ![e].child = Len(T) + 1,
                                        ![e].prefix = SubSeq(@, 1, n)],
                              [edge_new EXCEPT !.value = T[e].value, !.child = T[e].child,
                                               !.prefix = From(T[e].prefix, n)]), e, n)
<1>1. PICK U1 : U1 = [T EXCEPT ![e].value = RADIX_TREE_NONE]
  OBVIOUS
<1>2. /\ U1 \in Seq(EdgeType) /\ Len(U1) = Len(T) /\ U1[e].value = RADIX_TREE_NONE
      /\ \A f \in 1 .. Len(T) : /\ U1[f].next = T[f].next /\ U1[f].child = T[f].child /\ U1[f].prefix = T[f].prefix
                                /\ f # e => U1[f].value = T[f].value
  <2>1. RADIX_TREE_NONE \in Int
    BY DEF RADIX_TREE_NONE
  <2> QED
    BY <1>1, <2>1, SetValue
<1>3. PICK x \in Nat : x = Len(T) + 1
  OBVIOUS
<1>4. PICK U2 : U2 = [U1 EXCEPT ![e].child = x]
  OBVIOUS
<1>5. e \in 1 .. Len(U1)
  BY <1>2
<1>6. /\ U2 \in Seq(EdgeType) /\ Len(U2) = Len(U1) /\ U2[e].child = x
      /\ \A f \in 1 .. Len(U1) : /\ U2[f].next = U1[f].next /\ U2[f].value = U1[f].value /\ U2[f].prefix = U1[f].prefix
                                 /\ f # e => U2[f].child = U1[f].child
  BY <1>2, <1>4, <1>5, SetChild
<1>7. PICK p : p = T[e].prefix
  OBVIOUS
<1>8. p \in Seq(Alphabet) /\ Len(p) \in Nat /\ n < Len(p) /\ n <= Len(p) /\ T[e] \in EdgeType
  <2>1. T[e] \in EdgeType
    OBVIOUS
  <2>2. p \in Seq(Alphabet)
    BY <1>7, <2>1 DEF EdgeType
  <2> QED
    BY <1>7, <2>1, <2>2
<1>9. PICK y : y = SubSeq(p, 1, n)
  OBVIOUS
<1>10. y \in Seq(Alphabet) /\ Len(y) = n /\ \A i \in 1 .. n : y[i] = p[i]
  BY <1>8, <1>9, FirstOf
<1>11. e \in 1 .. Len(U2) /\ U2[e].prefix = p
  BY <1>2, <1>6, <1>7
<1>12. PICK U3 : U3 = [U2 EXCEPT ![e].prefix = y]
  OBVIOUS
<1>13. /\ U3 \in Seq(EdgeType) /\ Len(U3) = Len(U2) /\ U3[e].prefix = y
       /\ \A f \in 1 .. Len(U2) : /\ U3[f].next = U2[f].next /\ U3[f].child = U2[f].child /\ U3[f].value = U2[f].value
                                  /\ f # e => U3[f].prefix = U2[f].prefix
  BY <1>6, <1>10, <1>11, <1>12, SetPrefix
<1>14. U3 = [T EXCEPT ![e].value = RADIX_TREE_NONE, ![e].child = Len(T) + 1, ![e].prefix = SubSeq(@, 1, n)]
  <2>1. [T EXCEPT ![e].value = RADIX_TREE_NONE, ![e].child = Len(T) + 1, ![e].prefix = SubSeq(@, 1, n)]
           = [[[T EXCEPT ![e].value = RADIX_TREE_NONE] EXCEPT ![e].child = Len(T) + 1] EXCEPT ![e].prefix = SubSeq(@, 1, n)]
    OBVIOUS
  <2>2. U3 = [U2 EXCEPT ![e].prefix = SubSeq(@, 1, n)]
    BY <1>6, <1>9, <1>11, <1>12
  <2> QED
    BY <1>1, <1>3, <1>4, <2>1, <2>2
<1> HIDE <1>1, <1>4, <1>12
<1>15. PICK w : w = From(p, n)
  OBVIOUS
<1>16. w \in Seq(Alphabet) /\ Len(w) = Len(p) - n /\ \A i \in 1 .. Len(p) - n : w[i] = p[n + i]
  BY <1>8, <1>15, RestOf
<1>17. PICK low : low = [edge_new EXCEPT !.value = T[e].value, !.child = T[e].child, !.prefix = w]
  OBVIOUS
<1>18. low \in EdgeType /\ low.value = T[e].value /\ low.child = T[e].child /\ low.prefix = w /\ low.next = 0
  BY <1>8, <1>16, <1>17, LowerPart
<1>19. PICK T2 : T2 = Append(U3, low)
  OBVIOUS
<1>20. /\ T2 \in Seq(EdgeType) /\ Len(T2) = Len(U3) + 1 /\ T2[Len(U3) + 1] = low
       /\ \A f \in 1 .. Len(U3) : T2[f] = U3[f]
  BY <1>13, <1>18, <1>19, AppendEdge
<1>21. T2 = Append([T EXCEPT ![e].value = RADIX_TREE_NONE, ![e].child = Len(T) + 1, ![e].prefix = SubSeq(@, 1, n)],
                   [edge_new EXCEPT !.value = T[e].value, !.child = T[e].child, !.prefix = From(T[e].prefix, n)])
  BY <1>7, <1>14, <1>15, <1>17, <1>19
<1> HIDE <1>14, <1>17, <1>19
<1>22. CutInTwo(T, T2, e, n)
  <2>1. Len(U3) = Len(T) /\ Len(U2) = Len(T) /\ Len(U1) = Len(T)
    BY <1>2, <1>6, <1>13
  <2>2. /\ \A f \in 1 .. Len(T) : T2[f].next = T[f].next
        /\ \A f \in 1 .. Len(T) : f # e => T2[f].child = T[f].child /\ T2[f].value = T[f].value /\ T2[f].prefix = T[f].prefix
    <3> SUFFICES ASSUME NEW f \in 1 .. Len(T)
                 PROVE  /\ T2[f].next = T[f].next
                        /\ f # e => T2[f].child = T[f].child /\ T2[f].value = T[f].value /\ T2[f].prefix = T[f].prefix
      OBVIOUS
    <3>1. /\ U1[f].next = T[f].next /\ U1[f].child = T[f].child /\ U1[f].prefix = T[f].prefix
          /\ f # e => U1[f].value = T[f].value
      BY <1>2
    <3>2. /\ U2[f].next = U1[f].next /\ U2[f].value = U1[f].value /\ U2[f].prefix = U1[f].prefix
          /\ f # e => U2[f].child = U1[f].child
      BY <1>6, <2>1
    <3>3. /\ U3[f].next = U2[f].next /\ U3[f].child = U2[f].child /\ U3[f].value = U2[f].value
          /\ f # e => U3[f].prefix = U2[f].prefix
      BY <1>13, <2>1
    <3>4. T2[f] = U3[f]
      BY <1>20, <2>1
    <3> QED
      BY <3>1, <3>2, <3>3, <3>4
  <2>3. T2[e].child = Len(T) + 1 /\ T2[e].value = RADIX_TREE_NONE /\ T2[e].prefix = y
    BY <1>2, <1>3, <1>6, <1>13, <1>20, <2>1
  <2>4. T2[Len(T) + 1] = low /\ Len(T2) = Len(T) + 1
    BY <1>20, <2>1
  <2> QED
    BY <1>7, <1>10, <1>16, <1>18, <1>20, <2>2, <2>3, <2>4 DEF CutInTwo
<1> QED
  BY <1>21, <1>22

\* An edge that the word leaves before its end is cut in two.
CutReady(T, W, B, C, ss, m, e, n, j, T2) ==
    /\ Tree(T, W, B, C) /\ AllFilled(T, B, C) /\ Numbered(T, W, B, C, ss, m) /\ e \in 1 .. Len(T)
    /\ n \in Nat /\ n >= 1 /\ n < Len(T[e].prefix) /\ j = Len(T) + 1 /\ CutInTwo(T, T2, e, n)
CutDone(T2, W, B, W2, B2, C2, ss, m, e, n, j) ==
    /\ Tree(T2, W2, B2, C2) /\ AllFilled(T2, B2, C2) /\ Numbered(T2, W2, B2, C2, ss, m)
    /\ e \in 1 .. Len(T2) /\ T2[e].child = j /\ j # 0
    /\ W2[e] = W[e] /\ C2[e] = B[e] + n

\* The tree with the edge in two, and what it stands for.
LEMMA CutAt ==
    ASSUME NEW T, NEW W, NEW B, NEW C, NEW ss, NEW m, NEW e, NEW n, NEW j, NEW T2, CutReady(T, W, B, C, ss, m, e, n, j, T2)
    PROVE  \E W2, B2, C2 : CutDone(T2, W, B, W2, B2, C2, ss, m, e, n, j)
<1>0. /\ Tree(T, W, B, C) /\ AllFilled(T, B, C) /\ Numbered(T, W, B, C, ss, m) /\ e \in 1 .. Len(T)
      /\ n \in Nat /\ n >= 1 /\ n < Len(T[e].prefix) /\ j = Len(T) + 1 /\ CutInTwo(T, T2, e, n)
  BY DEF CutReady
<1>1. /\ T \in Seq(EdgeType) /\ Len(T) \in Nat /\ Len(T) >= 1 /\ j \in Nat /\ T[e] \in EdgeType
      /\ \A f \in 1 .. Len(T) : B[f] \in Nat /\ C[f] \in Nat /\ B[f] < C[f] /\ C[f] = B[f] + Len(T[f].prefix)
  <2>1. T \in Seq(EdgeType) /\ Len(T) \in Nat /\ Len(T) >= 1 /\ \A f \in 1 .. Len(T) : B[f] \in Nat /\ C[f] \in Nat /\ C[f] = B[f] + Len(T[f].prefix)
    BY <1>0, Depths DEF Labelled
  <2> QED
    BY <1>0, <2>1 DEF AllFilled
<1>2. PICK l \in Nat : l = Len(T[e].prefix)
  BY <1>0, <1>1 DEF EdgeType
<1>14. /\ T2 \in Seq(EdgeType) /\ Len(T2) = j
       /\ \A f \in 1 .. Len(T) : T2[f].next = T[f].next
       /\ \A f \in 1 .. Len(T) : f # e => T2[f].child = T[f].child /\ T2[f].value = T[f].value /\ T2[f].prefix = T[f].prefix
       /\ T2[e].child = j /\ T2[e].value = RADIX_TREE_NONE /\ Len(T2[e].prefix) = n
       /\ \A i \in 1 .. n : T2[e].prefix[i] = T[e].prefix[i]
       /\ T2[j].next = 0 /\ T2[j].child = T[e].child /\ T2[j].value = T[e].value
       /\ Len(T2[j].prefix) = l - n
       /\ \A i \in 1 .. l - n : T2[j].prefix[i] = T[e].prefix[n + i]
  BY <1>0, <1>2 DEF CutInTwo
<1>15. PICK W2 : W2 = [f \in 1 .. j |-> IF f = j THEN W[e] ELSE W[f]]
  OBVIOUS
<1>16. PICK d : d = B[e] + n
  OBVIOUS
<1>17. PICK B2 : B2 = [f \in 1 .. j |-> IF f = j THEN d ELSE B[f]]
  OBVIOUS
<1>18. PICK C2 : C2 = [f \in 1 .. j |-> IF f = j THEN C[e] ELSE IF f = e THEN d ELSE C[f]]
  OBVIOUS
<1>19. /\ j \in 1 .. j /\ \A f \in 1 .. Len(T) : f \in 1 .. j /\ f # j
       /\ \A f \in 1 .. j : f = j \/ f \in 1 .. Len(T)
  BY <1>0, <1>1
<1>20. /\ W2[j] = W[e] /\ B2[j] = d /\ C2[j] = C[e] /\ C2[e] = d
       /\ \A f \in 1 .. Len(T) : W2[f] = W[f] /\ B2[f] = B[f] /\ (f # e => C2[f] = C[f])
  BY <1>0, <1>15, <1>17, <1>18, <1>19
<1> HIDE <1>15, <1>17, <1>18
<1>21. d \in Nat /\ B[e] < d /\ d < C[e] /\ d - B[e] = n /\ C[e] - d = l - n
  BY <1>0, <1>1, <1>2, <1>16
<1>22. Cut(T, W, B, C, T2, W2, B2, C2, e, d)
  <2>1. T2[j].next = 0 /\ T2[j].child = T[e].child /\ Len(T2[j].prefix) = C[e] - d
    BY <1>0, <1>14, <1>21
  <2>2. \A i \in 1 .. C[e] - d : T2[j].prefix[i] = T[e].prefix[d - B[e] + i]
    BY <1>0, <1>14, <1>21
  <2>3. Len(T2[e].prefix) = d - B[e] /\ \A i \in 1 .. d - B[e] : T2[e].prefix[i] = T[e].prefix[i]
    BY <1>0, <1>14, <1>21
  <2>4. T2[e].child = j /\ \A f \in 1 .. Len(T) : T2[f].next = T[f].next
    BY <1>0, <1>14
  <2>5. \A f \in 1 .. Len(T) : f # e => T2[f].child = T[f].child /\ T2[f].prefix = T[f].prefix
    BY <1>0, <1>14
  <2>6. T2 \in Seq(EdgeType) /\ Len(T2) = Len(T) + 1 /\ j = Len(T) + 1
    BY <1>0, <1>14
  <2> QED
    BY <1>0, <1>20, <2>1, <2>2, <2>3, <2>4, <2>5, <2>6 DEF Cut
<1>23. Tree(T2, W2, B2, C2)
  BY <1>0, <1>21, <1>22, CutTree
<1>24. Numbered(T2, W2, B2, C2, ss, m)
  <2>1. HandedOn(T, T2, e)
    BY <1>0, <1>14 DEF HandedOn
  <2> QED
    BY <1>0, <1>21, <1>22, <2>1, CutNumbers
<1>25. AllFilled(T2, B2, C2)
  <2>1. ASSUME NEW f \in 1 .. j PROVE B2[f] < C2[f]
    <3>1. CASE f = j
      BY <1>0, <1>20, <1>21, <3>1
    <3>2. CASE f = e
      BY <1>0, <1>20, <1>21, <3>2
    <3>3. CASE f \in 1 .. Len(T) /\ f # e
      <4>1. B2[f] = B[f] /\ C2[f] = C[f]
        BY <1>0, <1>20, <3>3
      <4> QED
        BY <1>0, <1>1, <3>3, <4>1
    <3> QED
      BY <1>0, <1>19, <3>1, <3>2, <3>3
  <2> QED
    BY <1>0, <1>14, <2>1 DEF AllFilled
<1>26. e \in 1 .. Len(T2) /\ T2[e].child = j /\ j # 0 /\ W2[e] = W[e] /\ C2[e] = B[e] + n
  BY <1>0, <1>1, <1>14, <1>16, <1>19, <1>20
<1> QED
  BY <1>23, <1>24, <1>25, <1>26 DEF CutDone


\* What is left after n more characters.
LEMMA RestAt ==
    ASSUME NEW T, NEW W, NEW B, NEW e, NEW s, NEW z, At(T, W, B, e, s, z), NEW n \in Nat, n < Len(z)
    PROVE  Rest(s, B[e] + n, From(z, n))
<1>1. /\ s \in Seq(Alphabet) /\ z \in Seq(Alphabet) /\ B[e] \in Nat /\ B[e] + Len(z) = Len(s)
      /\ \A i \in 1 .. Len(z) : z[i] = s[B[e] + i]
  BY DEF At
<1>2. PICK b \in Nat : b = B[e]
  BY <1>1
<1>3. PICK l \in Nat : l = Len(z)
  BY <1>1
<1>4. PICK y : y = From(z, n)
  OBVIOUS
<1>5. y \in Seq(Alphabet) /\ y # << >> /\ Len(y) = l - n /\ \A i \in 1 .. l - n : y[i] = z[n + i]
  BY <1>1, <1>3, <1>4, RestOf
<1>6. b + n + (l - n) = b + l /\ l - n \in Nat
  BY <1>3
<1>7. ASSUME NEW i \in 1 .. l - n PROVE y[i] = s[b + n + i]
  <2>1. PICK j : j = n + i
    OBVIOUS
  <2>2. j \in 1 .. l /\ b + j = b + n + i
    BY <1>3, <1>6, <2>1
  <2> QED
    BY <1>1, <1>2, <1>3, <1>5, <2>1, <2>2
<1> QED
  BY <1>1, <1>2, <1>3, <1>4, <1>5, <1>6, <1>7 DEF Rest

\* The prefix of an edge on the way of a word, and how far it agrees with what is left.
LEMMA Comparison ==
    ASSUME NEW T, NEW W, NEW B, NEW C, Tree(T, W, B, C), NEW e, NEW s, NEW z, At(T, W, B, e, s, z),
           NEW n, n = Common(T[e].prefix, z), NUL \notin Alphabet
    PROVE  /\ n \in Nat /\ n <= Len(T[e].prefix) /\ n <= Len(z) /\ Agree(T[e].prefix, z, n)
           /\ T[e].prefix \in Seq(Alphabet) /\ z \in Seq(Alphabet)
           /\ n < Len(T[e].prefix) /\ n < Len(z) => T[e].prefix[n + 1] # z[n + 1]
           /\ FirstChar(z) = FirstChar(T[e].prefix) /\ (z # << >> \/ T[e].prefix # << >>) => n >= 1
<1>1. /\ e \in 1 .. Len(T) /\ z \in Seq(Alphabet) /\ \A f \in 1 .. Len(T) : T[f] \in EdgeType
  BY Depths DEF At
<1>2. PICK p \in Seq(Alphabet) : p = T[e].prefix
  BY <1>1 DEF EdgeType
<1>3. PICK q \in Seq(Alphabet) : q = z
  BY <1>1
<1>4. n = Common(p, q)
  BY <1>2, <1>3
<1>5. /\ n \in Nat /\ n <= Len(p) /\ n <= Len(q) /\ Agree(p, q, n)
      /\ n < Len(p) /\ n < Len(q) => p[n + 1] # q[n + 1]
  BY <1>4, CommonIs
<1>6. ASSUME FirstChar(q) = FirstChar(p), q # << >> \/ p # << >> PROVE n >= 1
  <2>1. q # << >> /\ p # << >> /\ q[1] = p[1]
    BY <1>1, <1>2, <1>3, <1>6, FirstChars
  <2>2. Len(p) \in Nat /\ Len(p) >= 1 /\ Len(q) \in Nat /\ Len(q) >= 1
    BY <2>1
  <2>3. n # 0
    BY <1>5, <2>1, <2>2
  <2> QED
    BY <1>5, <2>3
<1> QED
  BY <1>2, <1>3, <1>5, <1>6

\* A step of a search through the tree of all strings.
LEMMA Lookup ==
    ASSUME NUL \notin Alphabet, NEW T, NEW W, NEW B, NEW C, NEW ss \in Seq(Seq(Alphabet)),
           Complete(T, W, B, C, ss, Len(ss)), NEW e, NEW key, NEW z,
           At(T, W, B, e, key, z), PassedBy(T, W, B, C, e, key), NEW n, n = Common(T[e].prefix, z)
    PROVE  /\ FirstChar(z) # FirstChar(T[e].prefix) =>
                 IF T[e].next = 0 THEN LastOf(ss, key, RADIX_TREE_NONE)
                 ELSE At(T, W, B, T[e].next, key, z) /\ PassedBy(T, W, B, C, T[e].next, key)
           /\ FirstChar(z) = FirstChar(T[e].prefix) =>
                 IF n < Len(T[e].prefix) THEN LastOf(ss, key, RADIX_TREE_NONE)
                 ELSE IF n = Len(z) THEN LastOf(ss, key, T[e].value)
                 ELSE IF T[e].child = 0 THEN LastOf(ss, key, RADIX_TREE_NONE)
                 ELSE At(T, W, B, T[e].child, key, From(z, n)) /\ PassedBy(T, W, B, C, T[e].child, key)
<1>1. Tree(T, W, B, C) /\ Numbered(T, W, B, C, ss, Len(ss)) /\ Fresh(T, B, C, 0, << >>)
  BY DEF Complete
<1>2. /\ e \in 1 .. Len(T) /\ key \in Seq(Alphabet) /\ z \in Seq(Alphabet) /\ B[e] \in Nat /\ Len(key) \in Nat
      /\ B[e] + Len(z) = Len(key) /\ Agree(W[e], key, B[e]) /\ (z = << >> => B[e] = 0)
  BY DEF At
<1>3. /\ C[e] \in Nat /\ B[e] <= C[e] /\ C[e] = B[e] + Len(T[e].prefix)
      /\ \A f \in 1 .. Len(T) : B[f] \in Nat /\ C[f] \in Nat
  BY <1>1, <1>2, Depths DEF Labelled
<1>4. /\ n \in Nat /\ n <= Len(T[e].prefix) /\ n <= Len(z) /\ Agree(T[e].prefix, z, n)
      /\ T[e].prefix \in Seq(Alphabet)
      /\ n < Len(T[e].prefix) /\ n < Len(z) => T[e].prefix[n + 1] # z[n + 1]
      /\ FirstChar(z) = FirstChar(T[e].prefix) /\ (z # << >> \/ T[e].prefix # << >>) => n >= 1
  BY <1>1, Comparison
<1>5. PICK l \in Nat : l = Len(T[e].prefix) /\ (T[e].prefix = << >> <=> l = 0)
  BY <1>4
<1>6. PICK k \in Nat : k = Len(z) /\ (z = << >> <=> k = 0)
  BY <1>2
<1>7. z = << >> => key = << >>
  <2>1. z = << >> => Len(key) = 0
    BY <1>2, <1>6
  <2> QED
    BY <1>2, <2>1
<1>8. /\ B[e] + n \in Nat /\ B[e] + n <= C[e] /\ B[e] + n <= Len(key) /\ Agree(W[e], key, B[e] + n)
      /\ n < Len(T[e].prefix) /\ n < Len(z) /\ T[e].prefix[n + 1] # z[n + 1]
            => W[e][B[e] + n + 1] # key[B[e] + n + 1]
  BY <1>1, <1>4, SameLetters
<1>9. ASSUME FirstChar(z) # FirstChar(T[e].prefix)
      PROVE  IF T[e].next = 0 THEN LastOf(ss, key, RADIX_TREE_NONE)
             ELSE At(T, W, B, T[e].next, key, z) /\ PassedBy(T, W, B, C, T[e].next, key)
  <2>1. Other(W, B, C, e, key)
    BY <1>1, <1>9, FirstChars
  <2>2. CASE T[e].next # 0
    BY <1>1, <2>1, <2>2, MoveOn
  <2>3. CASE T[e].next = 0
    <3>1. ASSUME key # << >>, NEW g \in 1 .. Len(T), B[g] < C[g] PROVE ~IsWord(W, C, g, key)
      <4>1. Missing(T, W, B, C, key, B[e])
        BY <1>1, <2>1, <2>3, <3>1, EndOfLevel
      <4>2. B[e] < Len(key)
        BY <1>2, <1>6, <1>7, <3>1
      <4> QED
        BY <1>1, <1>2, <3>1, <4>1, <4>2, NoWord
    <3> QED
      BY <1>1, <2>3, <3>1, NotThere
  <2> QED
    BY <2>2, <2>3
<1>10. ASSUME FirstChar(z) = FirstChar(T[e].prefix), n < Len(T[e].prefix) PROVE LastOf(ss, key, RADIX_TREE_NONE)
  <2>1. z # << >> /\ B[e] < C[e] /\ B[e] + 1 <= Len(key) /\ Agree(W[e], key, B[e] + 1)
    BY <1>1, <1>5, <1>10, <1>4, FirstChars
  <2>2. ASSUME C[e] <= Len(key), Agree(W[e], key, C[e]) PROVE FALSE
    <3>1. n < k
      BY <1>2, <1>3, <1>4, <1>5, <1>6, <1>10, <2>2
    <3>2. PICK j : j = B[e] + n + 1
      OBVIOUS
    <3>3. W[e][j] # key[j]
      BY <1>4, <1>6, <1>8, <1>10, <3>1, <3>2
    <3>4. j \in 1 .. C[e]
      <4>1. PICK b \in Nat : b = B[e]
        BY <1>2
      <4>2. PICK c \in Nat : c = C[e]
        BY <1>3
      <4>3. n \in Nat /\ n < l /\ c = b + l /\ j = b + n + 1
        BY <1>3, <1>4, <1>5, <1>10, <3>2, <4>1, <4>2
      <4>4. j \in 1 .. c
        BY <4>3
      <4> QED
        BY <4>2, <4>4
    <3> QED
      BY <2>2, <3>3, <3>4 DEF Agree
  <2>3. \A g \in 1 .. Len(T) : B[g] < C[g] => ~IsWord(W, C, g, key)
    BY <1>1, <1>2, <2>1, <2>2, NotInside
  <2> QED
    BY <1>1, <2>3, NotThere
<1>11. ASSUME FirstChar(z) = FirstChar(T[e].prefix), n = Len(T[e].prefix), n = Len(z) PROVE LastOf(ss, key, T[e].value)
  <2>1. C[e] = Len(key) /\ Agree(W[e], key, C[e])
    BY <1>2, <1>3, <1>8, <1>11
  <2>2. CASE n = 0
    <3>1. key = << >> /\ B[e] = C[e]
      BY <1>2, <1>3, <1>5, <1>6, <1>7, <1>11, <2>2
    <3>2. T[e].value = RADIX_TREE_NONE
      BY <1>1, <1>2, <3>1 DEF Numbered
    <3> QED
      BY <3>1, <3>2 DEF LastOf
  <2>3. CASE n # 0
    <3>1. B[e] < C[e]
      BY <1>2, <1>3, <1>4, <1>11, <2>3
    <3>2. key # << >> /\ IsWord(W, C, e, key)
      <4>1. Len(key) # 0
        BY <1>2, <2>1, <3>1
      <4> QED
        BY <2>1, <4>1 DEF IsWord
    <3> QED
      BY <1>1, <1>2, <3>1, <3>2, FoundAt
  <2> QED
    BY <2>2, <2>3
<1>12. ASSUME FirstChar(z) = FirstChar(T[e].prefix), n = Len(T[e].prefix), n # Len(z)
       PROVE  IF T[e].child = 0 THEN LastOf(ss, key, RADIX_TREE_NONE)
              ELSE At(T, W, B, T[e].child, key, From(z, n)) /\ PassedBy(T, W, B, C, T[e].child, key)
  <2>1. n < Len(z) /\ z # << >>
    BY <1>4, <1>6, <1>12
  <2>2. B[e] < C[e] /\ C[e] = B[e] + n /\ Agree(W[e], key, C[e]) /\ C[e] < Len(key)
    <3>1. B[e] < C[e]
      BY <1>1, <1>12, <2>1, FirstChars
    <3> QED
      BY <1>2, <1>3, <1>4, <1>6, <1>8, <1>12, <2>1, <3>1
  <2>3. Rest(key, C[e], From(z, n))
    BY <1>4, <2>1, <2>2, RestAt
  <2>4. CASE T[e].child # 0
    BY <1>1, <1>2, <2>2, <2>3, <2>4, GoDown
  <2>5. CASE T[e].child = 0
    <3>1. Missing(T, W, B, C, key, C[e])
      <4>1. \E q \in 1 .. Len(T) : B[q] < C[q] /\ C[q] = C[e] /\ Agree(W[q], key, C[e])
        BY <1>2, <2>2
      <4>2. ASSUME NEW g \in 1 .. Len(T), B[g] = C[e], Agree(W[g], key, C[e]) PROVE FALSE
        <5>1. Under(W, B, C, e, g)
          BY <2>2, <4>2 DEF Under, Agree
        <5> QED
          BY <1>1, <1>2, <2>5, <5>1 DEF Tree, Parented
      <4> QED
        BY <4>1, <4>2 DEF Missing
    <3>2. \A g \in 1 .. Len(T) : B[g] < C[g] => ~IsWord(W, C, g, key)
      BY <1>1, <1>2, <1>3, <2>2, <3>1, NoWord
    <3> QED
      BY <1>1, <2>5, <3>2, NotThere
  <2> QED
    BY <2>4, <2>5
<1>13. n < Len(T[e].prefix) \/ n = Len(T[e].prefix)
  BY <1>4, <1>5
<1> QED
  BY <1>9, <1>10, <1>11, <1>12, <1>13


\* The tree between two insertions and during one: e is the edge that is looked at, and z
\* what is left of the last string.
Indexed(T, ss, e, z) ==
    /\ e = 0 => \E W, B, C : Complete(T, W, B, C, ss, Len(ss))
    /\ e # 0 => Len(ss) >= 1 /\ \E W, B, C : Inserting(T, W, B, C, ss, Len(ss) - 1, ss[Len(ss)], e, z)

\* The string that is inserted.
LEMMA Underway ==
    ASSUME NEW T, NEW ss \in Seq(Seq(Alphabet)), NEW e, e # 0, NEW z, Indexed(T, ss, e, z)
    PROVE  \E W, B, C : \E m, n \in Nat : /\ n = m + 1 /\ n = Len(ss)
                                         /\ Inserting(T, W, B, C, ss, m, ss[n], e, z)
<1>1. PICK W, B, C : Inserting(T, W, B, C, ss, Len(ss) - 1, ss[Len(ss)], e, z)
  BY DEF Indexed
<1>2. PICK n \in Nat : n = Len(ss)
  OBVIOUS
<1>3. n >= 1
  BY <1>2 DEF Indexed
<1>4. PICK m \in Nat : m = n - 1
  BY <1>3
<1>5. Inserting(T, W, B, C, ss, m, ss[n], e, z) /\ n = m + 1
  BY <1>1, <1>2, <1>4
<1> QED
  BY <1>2, <1>5

\* Between two insertions.
LEMMA Finished ==
    ASSUME NEW T, NEW ss, NEW n, n = Len(ss), NEW W, NEW B, NEW C, Complete(T, W, B, C, ss, n), NEW z
    PROVE  Indexed(T, ss, 0, z)
BY DEF Indexed

\* The insertion goes on.
LEMMA Continued ==
    ASSUME NEW T, NEW ss, NEW m \in Nat, NEW n, n = m + 1, n = Len(ss), NEW e, e # 0, NEW z,
           NEW W, NEW B, NEW C, Inserting(T, W, B, C, ss, m, ss[n], e, z)
    PROVE  Indexed(T, ss, e, z)
<1>1. m = Len(ss) - 1 /\ Len(ss) >= 1
  OBVIOUS
<1> QED
  BY <1>1 DEF Indexed

\* A string is refused.
LEMMA InsertNothing ==
    ASSUME NEW T, NEW ss \in Seq(Seq(Alphabet)), NEW e, e # 0, Indexed(T, ss, e, << >>)
    PROVE  Indexed(T, ss, 0, << >>)
<1>1. PICK W, B, C : \E m, n \in Nat : n = m + 1 /\ n = Len(ss) /\ Inserting(T, W, B, C, ss, m, ss[n], e, << >>)
  BY Underway
<1>2. PICK m \in Nat, n \in Nat : n = m + 1 /\ n = Len(ss) /\ Inserting(T, W, B, C, ss, m, ss[n], e, << >>)
  BY <1>1
<1>3. PICK s : s = ss[n]
  OBVIOUS
<1>4. /\ Tree(T, W, B, C) /\ Numbered(T, W, B, C, ss, m) /\ Fresh(T, B, C, e, << >>) /\ At(T, W, B, e, s, << >>)
  BY <1>2, <1>3 DEF Inserting
<1>5. s = << >>
  <2>1. s \in Seq(Alphabet) /\ B[e] + Len(<< >>) = Len(s) /\ B[e] = 0
    BY <1>4 DEF At
  <2>2. Len(s) = 0
    BY <2>1
  <2> QED
    BY <2>1, <2>2
<1>6. Numbered(T, W, B, C, ss, n)
  BY <1>2, <1>3, <1>4, <1>5, SkipNumber
<1>7. Fresh(T, B, C, 0, << >>)
  BY <1>4 DEF Fresh
<1> QED
  BY <1>2, <1>4, <1>6, <1>7, Finished DEF Complete

\* An empty edge takes characters.
LEMMA InsertFresh ==
    ASSUME NEW T, NEW ss \in Seq(Seq(Alphabet)), NEW e, e # 0, NEW z, Indexed(T, ss, e, z),
           z # << >>, T[e].prefix = << >>, NEW k \in Nat, k >= 1, k <= Len(z),
           NEW F, FilledTo(T, e, z, k, F), NEW T2
    PROVE  /\ Len(F) = Len(T)
           /\ k = Len(z) /\ SavedAt(F, e, Len(ss) - 1, T2) => Indexed(T2, ss, 0, << >>)
           /\ k # Len(z) /\ WithChild(F, e, T2) => Indexed(T2, ss, Len(T) + 1, From(z, k))
<1>1. PICK W, B, C : \E m, n \in Nat : n = m + 1 /\ n = Len(ss) /\ Inserting(T, W, B, C, ss, m, ss[n], e, z)
  BY Underway
<1>2. PICK m \in Nat, n \in Nat : n = m + 1 /\ n = Len(ss) /\ Inserting(T, W, B, C, ss, m, ss[n], e, z)
  BY <1>1
<1>3. PICK s : s = ss[n]
  OBVIOUS
<1>4. At(T, W, B, e, s, z) /\ T \in Seq(EdgeType) /\ Len(T) \in Nat
  BY <1>2, <1>3, Depths DEF Inserting, Labelled
<1>5. PICK W2, C2 : /\ Tree(F, W2, B, C2) /\ AllFilled(F, B, C2) /\ Numbered(F, W2, B, C2, ss, m)
                   /\ e \in 1 .. Len(F) /\ F[e].child = 0 /\ W2[e] = s /\ C2[e] = B[e] + k /\ Len(F) = Len(T)
  <2>1. Inserting(T, W, B, C, ss, m, s, e, z)
    BY <1>2, <1>3
  <2> QED
    BY <2>1, FillAt
<1>7. /\ e \in 1 .. Len(T) /\ s \in Seq(Alphabet) /\ z \in Seq(Alphabet) /\ B[e] \in Nat /\ B[e] + Len(z) = Len(s)
  BY <1>4 DEF At
<1>8. Agree(W2[e], s, C2[e])
  BY <1>5 DEF Agree
<1>9. ASSUME k = Len(z), SavedAt(F, e, Len(ss) - 1, T2) PROVE Indexed(T2, ss, 0, << >>)
  <2>1. SavedAt(F, e, m, T2)
    <3>1. m = Len(ss) - 1
      BY <1>2
    <3> QED
      BY <1>9, <3>1
  <2>2. IsWord(W2, C2, e, ss[n])
    BY <1>3, <1>5, <1>7, <1>8, <1>9 DEF IsWord
  <2>3. Complete(T2, W2, B, C2, ss, n)
    BY <1>2, <1>5, <2>1, <2>2, SaveAt
  <2> QED
    BY <1>2, <2>3, Finished
<1>10. ASSUME k # Len(z), WithChild(F, e, T2) PROVE Indexed(T2, ss, Len(T) + 1, From(z, k))
  <2>1. PICK y : y = From(z, k)
    OBVIOUS
  <2>2. Rest(s, C2[e], y)
    <3>1. k < Len(z)
      <4>1. Len(z) \in Nat
        BY <1>7
      <4> QED
        BY <1>10, <4>1
    <3> QED
      BY <1>4, <1>5, <2>1, <3>1, RestAt
  <2>3. PICK j : j = Len(F) + 1
    OBVIOUS
  <2>4. PICK W3, B3, C3 : Inserting(T2, W3, B3, C3, ss, m, s, j, y)
    BY <1>5, <1>8, <1>10, <2>2, <2>3, GrowAt
  <2>5. j = Len(T) + 1 /\ j # 0
    BY <1>4, <1>5, <2>3
  <2>6. Indexed(T2, ss, j, y)
    BY <1>2, <1>3, <2>4, <2>5, Continued
  <2> QED
    BY <2>1, <2>5, <2>6
<1> QED
  BY <1>5, <1>9, <1>10


\* All of an edge matches.
LEMMA InsertWhole ==
    ASSUME NUL \notin Alphabet, NEW T, NEW ss \in Seq(Seq(Alphabet)), NEW e, e # 0, NEW z, Indexed(T, ss, e, z),
           z # << >>, FirstChar(z) = FirstChar(T[e].prefix), NEW k, k = Common(T[e].prefix, z), k = Len(T[e].prefix), NEW T2
    PROVE  /\ k = Len(z) /\ SavedAt(T, e, Len(ss) - 1, T2) => Indexed(T2, ss, 0, << >>)
           /\ k # Len(z) /\ T[e].child # 0 => Indexed(T, ss, T[e].child, From(z, k))
           /\ k # Len(z) /\ T[e].child = 0 /\ WithChild(T, e, T2) => T2[e].child = Len(T) + 1 /\ Indexed(T2, ss, Len(T) + 1, From(z, k))
<1>1. PICK W, B, C : \E m, n \in Nat : n = m + 1 /\ n = Len(ss) /\ Inserting(T, W, B, C, ss, m, ss[n], e, z)
  BY Underway
<1>2. PICK m \in Nat, n \in Nat : n = m + 1 /\ n = Len(ss) /\ Inserting(T, W, B, C, ss, m, ss[n], e, z)
  BY <1>1
<1>3. PICK s : s = ss[n]
  OBVIOUS
<1>4. /\ Inserting(T, W, B, C, ss, m, s, e, z) /\ Tree(T, W, B, C) /\ Numbered(T, W, B, C, ss, m)
      /\ Fresh(T, B, C, e, z) /\ At(T, W, B, e, s, z) /\ PassedBy(T, W, B, C, e, s)
  BY <1>2, <1>3 DEF Inserting
<1>5. /\ e \in 1 .. Len(T) /\ s \in Seq(Alphabet) /\ z \in Seq(Alphabet) /\ B[e] \in Nat /\ B[e] + Len(z) = Len(s)
      /\ T \in Seq(EdgeType) /\ Len(T) \in Nat /\ C[e] \in Nat /\ C[e] = B[e] + Len(T[e].prefix)
  BY <1>4, Depths DEF At, Labelled
<1>6. /\ k \in Nat /\ k <= Len(T[e].prefix) /\ k <= Len(z) /\ Agree(T[e].prefix, z, k)
      /\ T[e].prefix \in Seq(Alphabet) /\ k >= 1
  BY <1>4, Comparison
<1>7. B[e] < C[e]
  BY <1>4, FirstChars
<1>8. AllFilled(T, B, C)
  BY <1>4, <1>5, <1>7, NoneEmpty
<1>9. Agree(W[e], s, B[e] + k)
  BY <1>4, <1>6, SameLetters
<1>10. Agree(W[e], s, C[e]) /\ C[e] = B[e] + k
  BY <1>5, <1>9
<1>11. ASSUME k = Len(z), SavedAt(T, e, Len(ss) - 1, T2) PROVE Indexed(T2, ss, 0, << >>)
  <2>1. SavedAt(T, e, m, T2)
    <3>1. m = Len(ss) - 1
      BY <1>2
    <3> QED
      BY <1>11, <3>1
  <2>2. IsWord(W, C, e, ss[n])
    BY <1>3, <1>5, <1>10, <1>11 DEF IsWord
  <2>3. Complete(T2, W, B, C, ss, n)
    BY <1>2, <1>4, <1>5, <1>8, <2>1, <2>2, SaveAt
  <2> QED
    BY <1>2, <2>3, Finished
<1>12. PICK y : y = From(z, k)
  OBVIOUS
<1>13. ASSUME k # Len(z) PROVE Rest(s, C[e], y)
  <2>1. k < Len(z)
    <3>1. Len(z) \in Nat
      BY <1>5
    <3> QED
      BY <1>6, <1>13, <3>1
  <2> QED
    BY <1>4, <1>6, <1>10, <1>12, <2>1, RestAt
<1>14. ASSUME k # Len(z), T[e].child # 0 PROVE Indexed(T, ss, T[e].child, y)
  <2>1. PICK g : g = T[e].child
    OBVIOUS
  <2>2. At(T, W, B, g, s, y) /\ PassedBy(T, W, B, C, g, s)
    BY <1>4, <1>5, <1>7, <1>10, <1>13, <1>14, <2>1, GoDown
  <2>3. Fresh(T, B, C, g, y)
    BY <1>5, <1>8, Depths, <1>4 DEF Fresh, AllFilled
  <2>4. Inserting(T, W, B, C, ss, m, ss[n], g, y)
    BY <1>3, <1>4, <2>2, <2>3 DEF Inserting
  <2> QED
    BY <1>2, <1>14, <2>1, <2>4, Continued
<1>15. ASSUME k # Len(z), T[e].child = 0, WithChild(T, e, T2)
       PROVE  T2[e].child = Len(T) + 1 /\ Indexed(T2, ss, Len(T) + 1, y)
  <2>1. PICK j : j = Len(T) + 1
    OBVIOUS
  <2>2. PICK W3, B3, C3 : Inserting(T2, W3, B3, C3, ss, m, s, j, y)
    BY <1>4, <1>5, <1>8, <1>10, <1>13, <1>15, <2>1, GrowAt
  <2>3. j # 0
    BY <1>5, <2>1
  <2>4. Indexed(T2, ss, j, y)
    BY <1>2, <1>3, <2>2, <2>3, Continued
  <2>5. T2[e].child = j
    <3>1. PICK i \in Nat : i = Len(T) + 1
      BY <1>5
    <3>2. PICK U : U = Append([T EXCEPT ![e].child = i], edge_new)
      OBVIOUS
    <3>3. U[e].child = i
      BY <1>5, <3>2, AppendChild
    <3>4. U = T2 /\ i = j
      BY <1>15, <2>1, <3>1, <3>2 DEF WithChild
    <3> QED
      BY <3>3, <3>4
  <2> QED
    BY <2>1, <2>4, <2>5
<1> QED
  BY <1>11, <1>12, <1>14, <1>15

\* Part of an edge matches.
LEMMA InsertSplit ==
    ASSUME NUL \notin Alphabet, NEW T, NEW ss \in Seq(Seq(Alphabet)), NEW e, e # 0, NEW z, Indexed(T, ss, e, z),
           z # << >>, FirstChar(z) = FirstChar(T[e].prefix), NEW k, k = Common(T[e].prefix, z), k < Len(T[e].prefix),
           NEW S, CutInTwo(T, S, e, k), NEW T2
    PROVE  /\ k = Len(z) /\ SavedAt(S, e, Len(ss) - 1, T2) => Indexed(T2, ss, 0, << >>)
           /\ k # Len(z) => Indexed(S, ss, Len(T) + 1, From(z, k))
<1>1. PICK W, B, C : \E m, n \in Nat : n = m + 1 /\ n = Len(ss) /\ Inserting(T, W, B, C, ss, m, ss[n], e, z)
  BY Underway
<1>2. PICK m \in Nat, n \in Nat : n = m + 1 /\ n = Len(ss) /\ Inserting(T, W, B, C, ss, m, ss[n], e, z)
  BY <1>1
<1>3. PICK s : s = ss[n]
  OBVIOUS
<1>4. /\ Inserting(T, W, B, C, ss, m, s, e, z) /\ Tree(T, W, B, C) /\ Numbered(T, W, B, C, ss, m)
      /\ Fresh(T, B, C, e, z) /\ At(T, W, B, e, s, z) /\ PassedBy(T, W, B, C, e, s)
  BY <1>2, <1>3 DEF Inserting
<1>5. /\ e \in 1 .. Len(T) /\ s \in Seq(Alphabet) /\ z \in Seq(Alphabet) /\ B[e] \in Nat /\ B[e] + Len(z) = Len(s)
      /\ T \in Seq(EdgeType) /\ Len(T) \in Nat /\ C[e] \in Nat /\ C[e] = B[e] + Len(T[e].prefix)
  BY <1>4, Depths DEF At, Labelled
<1>6. /\ k \in Nat /\ k <= Len(T[e].prefix) /\ k <= Len(z) /\ Agree(T[e].prefix, z, k)
      /\ T[e].prefix \in Seq(Alphabet) /\ k >= 1
  BY <1>4, Comparison
<1>7. B[e] < C[e]
  BY <1>4, FirstChars
<1>8. AllFilled(T, B, C)
  BY <1>4, <1>5, <1>7, NoneEmpty
<1>9. Agree(W[e], s, B[e] + k)
  BY <1>4, <1>6, SameLetters
<1>10. PICK j : j = Len(T) + 1
  OBVIOUS
<1>11. PICK W2, B2, C2 : /\ Tree(S, W2, B2, C2) /\ AllFilled(S, B2, C2) /\ Numbered(S, W2, B2, C2, ss, m)
                        /\ e \in 1 .. Len(S) /\ S[e].child = j /\ j # 0
                        /\ W2[e] = W[e] /\ C2[e] = B[e] + k
  <2>1. CutReady(T, W, B, C, ss, m, e, k, j, S)
    BY <1>4, <1>5, <1>6, <1>8, <1>10 DEF CutReady
  <2>2. \E W2, B2, C2 : CutDone(S, W, B, W2, B2, C2, ss, m, e, k, j)
    BY <2>1, CutAt
  <2> QED
    BY <2>2 DEF CutDone
<1>12. Agree(W2[e], s, C2[e])
  BY <1>9, <1>11
<1>13. ASSUME k = Len(z), SavedAt(S, e, Len(ss) - 1, T2) PROVE Indexed(T2, ss, 0, << >>)
  <2>1. SavedAt(S, e, m, T2)
    <3>1. m = Len(ss) - 1
      BY <1>2
    <3> QED
      BY <1>13, <3>1
  <2>2. IsWord(W2, C2, e, ss[n])
    BY <1>3, <1>5, <1>11, <1>12, <1>13 DEF IsWord
  <2>3. Complete(T2, W2, B2, C2, ss, n)
    BY <1>2, <1>11, <2>1, <2>2, SaveAt
  <2> QED
    BY <1>2, <2>3, Finished
<1>14. ASSUME k # Len(z) PROVE Indexed(S, ss, j, From(z, k))
  <2>1. PICK y : y = From(z, k)
    OBVIOUS
  <2>2. Rest(s, C2[e], y)
    <3>1. k < Len(z)
      <4>1. Len(z) \in Nat
        BY <1>5
      <4> QED
        BY <1>6, <1>14, <4>1
    <3> QED
      BY <1>4, <1>6, <1>11, <2>1, <3>1, RestAt
  <2>3. B2[e] < C2[e]
    BY <1>11 DEF AllFilled
  <2>4. At(S, W2, B2, j, s, y) /\ PassedBy(S, W2, B2, C2, j, s)
    BY <1>11, <1>12, <2>2, <2>3, GoDown
  <2>5. Fresh(S, B2, C2, j, y)
    BY <1>11, Depths DEF Fresh, AllFilled
  <2>6. Inserting(S, W2, B2, C2, ss, m, ss[n], j, y)
    BY <1>3, <1>11, <2>4, <2>5 DEF Inserting
  <2> QED
    BY <1>2, <1>11, <2>1, <2>6, Continued
<1> QED
  BY <1>10, <1>13, <1>14

\* An edge does not match.
LEMMA InsertNext ==
    ASSUME NUL \notin Alphabet, NEW T, NEW ss \in Seq(Seq(Alphabet)), NEW e, e # 0, NEW z, Indexed(T, ss, e, z),
           z # << >>, T[e].prefix # << >>, FirstChar(z) # FirstChar(T[e].prefix), NEW T2
    PROVE  /\ T[e].next # 0 => Indexed(T, ss, T[e].next, z)
           /\ T[e].next = 0 /\ WithNext(T, e, T2) => T2[e].next = Len(T) + 1 /\ Indexed(T2, ss, Len(T) + 1, z)
<1>1. PICK W, B, C : \E m, n \in Nat : n = m + 1 /\ n = Len(ss) /\ Inserting(T, W, B, C, ss, m, ss[n], e, z)
  BY Underway
<1>2. PICK m \in Nat, n \in Nat : n = m + 1 /\ n = Len(ss) /\ Inserting(T, W, B, C, ss, m, ss[n], e, z)
  BY <1>1
<1>3. PICK s : s = ss[n]
  OBVIOUS
<1>4. /\ Inserting(T, W, B, C, ss, m, s, e, z) /\ Tree(T, W, B, C) /\ Numbered(T, W, B, C, ss, m)
      /\ Fresh(T, B, C, e, z) /\ At(T, W, B, e, s, z) /\ PassedBy(T, W, B, C, e, s)
  BY <1>2, <1>3 DEF Inserting
<1>5. /\ e \in 1 .. Len(T) /\ s \in Seq(Alphabet) /\ z \in Seq(Alphabet) /\ B[e] \in Nat /\ B[e] + Len(z) = Len(s)
      /\ T \in Seq(EdgeType) /\ Len(T) \in Nat /\ C[e] \in Nat /\ C[e] = B[e] + Len(T[e].prefix)
  BY <1>4, Depths DEF At, Labelled
<1>6. Other(W, B, C, e, s) /\ B[e] # C[e]
  BY <1>4, FirstChars
<1>7. AllFilled(T, B, C)
  <2>1. B[e] < C[e]
    BY <1>4, <1>5, <1>6, Depths
  <2> QED
    BY <1>4, <1>5, <2>1, NoneEmpty
<1>8. ASSUME T[e].next # 0 PROVE Indexed(T, ss, T[e].next, z)
  <2>1. PICK g : g = T[e].next
    OBVIOUS
  <2>2. At(T, W, B, g, s, z) /\ PassedBy(T, W, B, C, g, s)
    BY <1>4, <1>6, <1>8, <2>1, MoveOn
  <2>3. Fresh(T, B, C, g, z)
    BY <1>4, <1>7, Depths DEF Fresh, AllFilled
  <2>4. Inserting(T, W, B, C, ss, m, ss[n], g, z)
    BY <1>3, <1>4, <2>2, <2>3 DEF Inserting
  <2> QED
    BY <1>2, <1>8, <2>1, <2>4, Continued
<1>9. ASSUME T[e].next = 0, WithNext(T, e, T2) PROVE T2[e].next = Len(T) + 1 /\ Indexed(T2, ss, Len(T) + 1, z)
  <2>1. PICK j : j = Len(T) + 1
    OBVIOUS
  <2>2. PICK W3, B3, C3 : Inserting(T2, W3, B3, C3, ss, m, s, j, z)
    BY <1>4, <1>6, <1>9, <2>1, NextAt
  <2>3. j # 0
    BY <1>5, <2>1
  <2>4. Indexed(T2, ss, j, z)
    BY <1>2, <1>3, <2>2, <2>3, Continued
  <2>5. T2[e].next = j
    <3>1. PICK i \in Nat : i = Len(T) + 1
      BY <1>5
    <3>2. PICK U : U = Append([T EXCEPT ![e].next = i], edge_new)
      OBVIOUS
    <3>3. U[e].next = i
      BY <1>5, <3>2, AppendNext
    <3>4. U = T2 /\ i = j
      BY <1>9, <2>1, <3>1, <3>2 DEF WithNext
    <3> QED
      BY <3>3, <3>4
  <2> QED
    BY <2>1, <2>4, <2>5
<1> QED
  BY <1>8, <1>9

--------------------------------------------------------------------------------
LookupType == [key : Seq(Alphabet), edge : Nat, rest : Seq(Alphabet), value : Int]

\* A search: the place it has come to, or what it has returned.
Sought(T, ss, l) ==
    /\ l.edge # 0 => /\ l.value = RADIX_TREE_NONE
                     /\ \E W, B, C : /\ Complete(T, W, B, C, ss, Len(ss))
                                     /\ At(T, W, B, l.edge, l.key, l.rest) /\ PassedBy(T, W, B, C, l.edge, l.key)
    /\ l.edge = 0 => l = NoLookup \/ LastOf(ss, l.key, l.value)

RadixTreeInv ==
    /\ strings \in Seq(Seq(Alphabet)) /\ find \in LookupType
    /\ Indexed(edges, strings, edge, rest)
    /\ Sought(edges, strings, find)
    /\ edge # 0 => find = NoLookup

\* The tree of no strings is its root.
LEMMA EmptyTree ==
    ASSUME NEW T, T = <<edge_new>>, NEW ss, ss = << >>, NEW z
    PROVE  Indexed(T, ss, 0, z)
<1>1. edge_new \in EdgeType /\ Len(edge_new.prefix) = 0
      /\ edge_new.next = 0 /\ edge_new.child = 0 /\ edge_new.value = RADIX_TREE_NONE
  BY DEF edge_new, EdgeType, RADIX_TREE_NONE
<1>2. T \in Seq(EdgeType) /\ Len(T) = 1 /\ T[1] = edge_new /\ 1 .. Len(T) = {1}
  BY <1>1
<1>3. PICK B : B = <<0>>
  OBVIOUS
<1>4. PICK W : W = <<ss>>
  OBVIOUS
<1>5. B[1] = 0
  BY <1>3
<1> HIDE <1>3, <1>4
<1>6. Labelled(T, W, B, B)
  <2>1. \A i \in 1 .. Len(T[1].prefix) : FALSE
    BY <1>1, <1>2
  <2> QED
    BY <1>1, <1>2, <1>5, <2>1 DEF Labelled
<1>7. Chained(T, W, B)
  BY <1>1, <1>2 DEF Chained
<1>8. Parented(T, W, B, B)
  BY <1>1, <1>2, <1>5 DEF Parented, Under
<1>9. Branching(T, W, B, B)
  BY <1>2 DEF Branching
<1>10. Numbered(T, W, B, B, ss, 0)
  BY <1>1, <1>2 DEF Numbered
<1>11. Fresh(T, B, B, 0, ss)
  <2>1. Len(T) = 1 /\ \A f \in 1 .. Len(T) : T[f].next = 0
    BY <1>1, <1>2
  <2> QED
    BY <2>1 DEF Fresh
<1>12. Complete(T, W, B, B, ss, 0)
  BY <1>6, <1>7, <1>8, <1>9, <1>10, <1>11 DEF Complete, Tree
<1>13. Len(ss) = 0
  OBVIOUS
<1> QED
  BY <1>12, <1>13, Finished

\* The next string starts at the root,
LEMMA InsertStarts ==
    ASSUME NEW T, NEW ss \in Seq(Seq(Alphabet)), NEW q, Indexed(T, ss, 0, q), NEW key \in Seq(Alphabet),
           NEW ss2, ss2 = Append(ss, key)
    PROVE  ss2 \in Seq(Seq(Alphabet)) /\ Indexed(T, ss2, 1, key)
<1>1. PICK W, B, C : Complete(T, W, B, C, ss, Len(ss))
  BY DEF Indexed
<1>2. PICK m \in Nat : m = Len(ss)
  OBVIOUS
<1>3. PICK n \in Nat : n = m + 1
  BY <1>2
<1>4. ss2 \in Seq(Seq(Alphabet)) /\ Len(ss2) = n /\ ss2[n] = key /\ \A i \in 1 .. m : ss2[i] = ss[i]
  BY <1>2, <1>3
<1>5. Tree(T, W, B, C) /\ Numbered(T, W, B, C, ss, m) /\ Fresh(T, B, C, 0, << >>)
  BY <1>1, <1>2 DEF Complete
<1>6. Numbered(T, W, B, C, ss2, m)
  BY <1>4, <1>5 DEF Numbered
<1>7. Fresh(T, B, C, 1, key)
  <2>1. Len(T) \in Nat
    BY <1>5, Depths
  <2> QED
    BY <1>5, <2>1 DEF Fresh
<1>8. At(T, W, B, 1, key, key) /\ PassedBy(T, W, B, C, 1, key)
  <2>1. Len(T) \in Nat /\ Len(T) >= 1 /\ B[1] = 0
    BY <1>5, Depths DEF Tree, Labelled
  <2>2. 1 \in 1 .. Len(T) /\ \A f \in 1 .. Len(T) : ~(f < 1)
    BY <2>1
  <2>3. 0 + Len(key) = Len(key) /\ \A i \in 1 .. Len(key) : key[i] = key[0 + i]
    OBVIOUS
  <2> QED
    BY <2>1, <2>2, <2>3 DEF At, PassedBy, Agree
<1>9. Inserting(T, W, B, C, ss2, m, ss2[n], 1, key)
  BY <1>4, <1>5, <1>6, <1>7, <1>8 DEF Inserting
<1>10. n = Len(ss2) /\ 1 # 0
  BY <1>4
<1>11. Indexed(T, ss2, 1, key)
  <2> HIDE <1>2
  <2> QED
    BY <1>3, <1>9, <1>10, Continued
<1> QED
  BY <1>4, <1>11

\* and a search too.
LEMMA SearchStarts ==
    ASSUME NEW T, NEW ss, NEW q, Indexed(T, ss, 0, q), NEW key \in Seq(Alphabet)
    PROVE  \E W, B, C : Complete(T, W, B, C, ss, Len(ss)) /\ At(T, W, B, 1, key, key) /\ PassedBy(T, W, B, C, 1, key)
<1>1. PICK W, B, C : Complete(T, W, B, C, ss, Len(ss))
  BY DEF Indexed
<1>2. Len(T) \in Nat /\ Len(T) >= 1 /\ B[1] = 0
  BY <1>1, Depths DEF Complete, Tree, Labelled
<1>3. 1 \in 1 .. Len(T) /\ \A f \in 1 .. Len(T) : ~(f < 1)
  BY <1>2
<1>4. 0 + Len(key) = Len(key) /\ \A i \in 1 .. Len(key) : key[i] = key[0 + i]
  OBVIOUS
<1>5. At(T, W, B, 1, key, key) /\ PassedBy(T, W, B, C, 1, key)
  BY <1>2, <1>3, <1>4 DEF At, PassedBy, Agree
<1> QED
  BY <1>1, <1>5

\* A step of an insertion leaves the searches alone.
LEMMA InsertionKeeps ==
    ASSUME RadixTreeInv, edge # 0, UNCHANGED <<strings, find>>, Indexed(edges', strings, edge', rest')
    PROVE  RadixTreeInv'
<1>1. find = NoLookup /\ find' = find /\ strings' = strings
  BY DEF RadixTreeInv
<1>2. Sought(edges', strings', find')
  BY <1>1 DEF Sought, NoLookup
<1> QED
  BY <1>1, <1>2 DEF RadixTreeInv

\* What an insertion under way knows of the tree.
LEMMA InsertionAt ==
    ASSUME RadixTreeInv, edge # 0
    PROVE  /\ strings \in Seq(Seq(Alphabet)) /\ Indexed(edges, strings, edge, rest)
           /\ rest \in Seq(Alphabet) /\ edges \in Seq(EdgeType) /\ edge \in 1 .. Len(edges)
           /\ edges[edge].prefix \in Seq(Alphabet)
<1>1. strings \in Seq(Seq(Alphabet)) /\ Indexed(edges, strings, edge, rest)
  BY DEF RadixTreeInv
<1>2. PICK W, B, C : \E m, n \in Nat : /\ n = m + 1 /\ n = Len(strings)
                                      /\ Inserting(edges, W, B, C, strings, m, strings[n], edge, rest)
  BY <1>1, Underway
<1>3. PICK m \in Nat, n \in Nat : Inserting(edges, W, B, C, strings, m, strings[n], edge, rest)
  BY <1>2
<1>4. edge \in 1 .. Len(edges) /\ rest \in Seq(Alphabet) /\ edges \in Seq(EdgeType)
  <2>1. PICK s : s = strings[n]
    OBVIOUS
  <2>2. Tree(edges, W, B, C) /\ At(edges, W, B, edge, s, rest)
    BY <1>3, <2>1 DEF Inserting
  <2>3. Labelled(edges, W, B, C)
    BY <2>2 DEF Tree
  <2> QED
    BY <2>2, <2>3 DEF At, Labelled
<1>5. edges[edge].prefix \in Seq(Alphabet)
  <2>1. edges[edge] \in EdgeType
    BY <1>4
  <2> QED
    BY <2>1 DEF EdgeType
<1> QED
  BY <1>1, <1>4, <1>5

\* Case 1 of rxt_insert.
LEMMA FreshEdgeKeeps ==
    ASSUME RadixTreeInv, FreshEdge
    PROVE  RadixTreeInv'
<1>1. edge # 0 /\ rest # << >> /\ edges[edge].prefix = << >> /\ UNCHANGED <<strings, find>>
  BY DEF FreshEdge
<1>2. /\ strings \in Seq(Seq(Alphabet)) /\ Indexed(edges, strings, edge, rest)
      /\ rest \in Seq(Alphabet)
  BY <1>1, InsertionAt
<1>3. PICK k : k = IF Len(rest) < PREFIX_SIZE THEN Len(rest) ELSE PREFIX_SIZE
  OBVIOUS
<1>4. k \in Nat /\ k >= 1 /\ k <= Len(rest)
  <2>1. PREFIX_SIZE \in Nat /\ PREFIX_SIZE >= 1
    BY RadixTreeAssumption
  <2>2. Len(rest) \in Nat /\ Len(rest) >= 1
    BY <1>1, <1>2
  <2> QED
    BY <1>3, <2>1, <2>2
<1>5. PICK F : F = [edges EXCEPT ![edge].prefix = SubSeq(rest, 1, k)]
  OBVIOUS
<1>6. /\ k = Len(rest) => edges' = [F EXCEPT ![edge].value = value] /\ edge' = 0 /\ rest' = << >>
      /\ k # Len(rest) => /\ edges' = Append([F EXCEPT ![edge].child = Len(edges) + 1], edge_new)
                          /\ edge' = Len(edges) + 1 /\ rest' = From(rest, k)
  BY <1>3, <1>5 DEF FreshEdge, SaveValue
<1>7. FilledTo(edges, edge, rest, k, F)
  BY <1>5 DEF FilledTo
<1>8. NUL \notin Alphabet
  BY RadixTreeAssumption
<1>9. /\ Len(F) = Len(edges)
      /\ k = Len(rest) /\ SavedAt(F, edge, Len(strings) - 1, edges') => Indexed(edges', strings, 0, << >>)
      /\ k # Len(rest) /\ WithChild(F, edge, edges') => Indexed(edges', strings, Len(edges) + 1, From(rest, k))
  BY <1>1, <1>2, <1>4, <1>7, <1>8, InsertFresh
<1>10. CASE k = Len(rest)
  <2>1. SavedAt(F, edge, Len(strings) - 1, edges')
    BY <1>6, <1>10 DEF SavedAt, value
  <2>2. Indexed(edges', strings, edge', rest')
    BY <1>6, <1>9, <1>10, <2>1
  <2> QED
    BY <1>1, <2>2, InsertionKeeps
<1>11. CASE k # Len(rest)
  <2>1. WithChild(F, edge, edges')
    BY <1>6, <1>9, <1>11 DEF WithChild
  <2>2. Indexed(edges', strings, edge', rest')
    BY <1>6, <1>9, <1>11, <2>1
  <2> QED
    BY <1>1, <2>2, InsertionKeeps
<1> QED
  BY <1>10, <1>11

\* Case 2 of rxt_insert: all of the edge,
LEMMA WholeEdgeKeeps ==
    ASSUME RadixTreeInv, WholeEdge
    PROVE  RadixTreeInv'
<1>1. /\ edge # 0 /\ rest # << >> /\ FirstChar(rest) = FirstChar(edges[edge].prefix)
      /\ UNCHANGED <<strings, find>>
  BY DEF WholeEdge, Matches
<1>2. /\ strings \in Seq(Seq(Alphabet)) /\ Indexed(edges, strings, edge, rest)
      /\ NUL \notin Alphabet
  BY <1>1, InsertionAt, RadixTreeAssumption
<1>3. PICK k : k = Common(edges[edge].prefix, rest)
  OBVIOUS
<1>4. /\ k = Len(edges[edge].prefix)
      /\ k = Len(rest) => edges' = [edges EXCEPT ![edge].value = value] /\ edge' = 0 /\ rest' = << >>
      /\ k # Len(rest) => /\ edges' = IF edges[edge].child # 0 THEN edges
                                       ELSE Append([edges EXCEPT ![edge].child = Len(edges) + 1], edge_new)
                          /\ edge' = edges'[edge].child /\ rest' = From(rest, k)
  BY <1>3 DEF WholeEdge, SaveValue, Agreeing
<1>5. /\ k = Len(rest) /\ SavedAt(edges, edge, Len(strings) - 1, edges') => Indexed(edges', strings, 0, << >>)
      /\ k # Len(rest) /\ edges[edge].child # 0 => Indexed(edges, strings, edges[edge].child, From(rest, k))
      /\ k # Len(rest) /\ edges[edge].child = 0 /\ WithChild(edges, edge, edges') =>
            edges'[edge].child = Len(edges) + 1 /\ Indexed(edges', strings, Len(edges) + 1, From(rest, k))
  BY <1>1, <1>2, <1>3, <1>4, InsertWhole
<1>6. CASE k = Len(rest)
  <2>1. SavedAt(edges, edge, Len(strings) - 1, edges')
    BY <1>4, <1>6 DEF SavedAt, value
  <2>2. Indexed(edges', strings, edge', rest')
    BY <1>4, <1>5, <1>6, <2>1
  <2> QED
    BY <1>1, <2>2, InsertionKeeps
<1>7. CASE k # Len(rest) /\ edges[edge].child # 0
  <2>1. edges' = edges /\ edge' = edges[edge].child /\ rest' = From(rest, k)
    BY <1>4, <1>7
  <2>2. Indexed(edges', strings, edge', rest')
    BY <1>5, <1>7, <2>1
  <2> QED
    BY <1>1, <2>2, InsertionKeeps
<1>8. CASE k # Len(rest) /\ edges[edge].child = 0
  <2>1. WithChild(edges, edge, edges') /\ edge' = edges'[edge].child /\ rest' = From(rest, k)
    BY <1>4, <1>8 DEF WithChild
  <2>2. Indexed(edges', strings, edge', rest')
    BY <1>5, <1>8, <2>1
  <2> QED
    BY <1>1, <2>2, InsertionKeeps
<1> QED
  BY <1>6, <1>7, <1>8

\* and a part of it.
LEMMA SplitEdgeKeeps ==
    ASSUME RadixTreeInv, SplitEdge
    PROVE  RadixTreeInv'
<1>1. /\ edge # 0 /\ rest # << >> /\ FirstChar(rest) = FirstChar(edges[edge].prefix)
      /\ UNCHANGED <<strings, find>>
  BY DEF SplitEdge, Matches
<1>2. /\ strings \in Seq(Seq(Alphabet)) /\ Indexed(edges, strings, edge, rest)
      /\ edges \in Seq(EdgeType) /\ edge \in 1 .. Len(edges) /\ rest \in Seq(Alphabet)
      /\ edges[edge].prefix \in Seq(Alphabet) /\ NUL \notin Alphabet
  BY <1>1, InsertionAt, RadixTreeAssumption
<1>3. PICK k : k = Common(edges[edge].prefix, rest)
  OBVIOUS
<1>4. PICK S : S = SplitTree
  OBVIOUS
<1>5. /\ k < Len(edges[edge].prefix)
      /\ k = Len(rest) => edges' = [S EXCEPT ![edge].value = value] /\ edge' = 0 /\ rest' = << >>
      /\ k # Len(rest) => edges' = S /\ edge' = Len(edges) + 1 /\ rest' = From(rest, k)
  BY <1>3, <1>4 DEF SplitEdge, SaveValue, Agreeing
<1>6. k \in Nat
  BY <1>2, <1>3, CommonIs
<1>7. CutInTwo(edges, S, edge, k)
  <2>1. CutInTwo(edges, Append([edges EXCEPT ![edge].value = RADIX_TREE_NONE, ![edge].child = Len(edges) + 1,
                                             ![edge].prefix = SubSeq(@, 1, k)],
                               [edge_new EXCEPT !.value = edges[edge].value, !.child = edges[edge].child,
                                                !.prefix = From(edges[edge].prefix, k)]), edge, k)
    BY <1>2, <1>5, <1>6, CutEdges
  <2> QED
    BY <1>3, <1>4, <2>1 DEF SplitTree, Agreeing
<1>8. /\ k = Len(rest) /\ SavedAt(S, edge, Len(strings) - 1, edges') => Indexed(edges', strings, 0, << >>)
      /\ k # Len(rest) => Indexed(S, strings, Len(edges) + 1, From(rest, k))
  BY <1>1, <1>2, <1>3, <1>5, <1>7, InsertSplit
<1>9. CASE k = Len(rest)
  <2>1. SavedAt(S, edge, Len(strings) - 1, edges')
    BY <1>5, <1>9 DEF SavedAt, value
  <2>2. Indexed(edges', strings, edge', rest')
    BY <1>5, <1>8, <1>9, <2>1
  <2> QED
    BY <1>1, <2>2, InsertionKeeps
<1>10. CASE k # Len(rest)
  <2>1. Indexed(edges', strings, edge', rest')
    BY <1>5, <1>8, <1>10
  <2> QED
    BY <1>1, <2>1, InsertionKeeps
<1> QED
  BY <1>9, <1>10

\* Case 3 of rxt_insert.
LEMMA NextEdgeKeeps ==
    ASSUME RadixTreeInv, NextEdge
    PROVE  RadixTreeInv'
<1>1. /\ edge # 0 /\ rest # << >> /\ edges[edge].prefix # << >> /\ FirstChar(rest) # FirstChar(edges[edge].prefix)
      /\ UNCHANGED <<strings, find>> /\ rest' = rest
      /\ edges' = IF edges[edge].next # 0 THEN edges
                  ELSE Append([edges EXCEPT ![edge].next = Len(edges) + 1], edge_new)
      /\ edge' = edges'[edge].next
  BY DEF NextEdge
<1>2. /\ strings \in Seq(Seq(Alphabet)) /\ Indexed(edges, strings, edge, rest)
      /\ NUL \notin Alphabet
  BY <1>1, InsertionAt, RadixTreeAssumption
<1>3. /\ edges[edge].next # 0 => Indexed(edges, strings, edges[edge].next, rest)
      /\ edges[edge].next = 0 /\ WithNext(edges, edge, edges') =>
            edges'[edge].next = Len(edges) + 1 /\ Indexed(edges', strings, Len(edges) + 1, rest)
  BY <1>1, <1>2, InsertNext
<1>4. CASE edges[edge].next # 0
  <2>1. edges' = edges /\ edge' = edges[edge].next
    BY <1>1, <1>4
  <2>2. Indexed(edges', strings, edge', rest')
    BY <1>1, <1>3, <1>4, <2>1
  <2> QED
    BY <1>1, <2>2, InsertionKeeps
<1>5. CASE edges[edge].next = 0
  <2>1. WithNext(edges, edge, edges')
    BY <1>1, <1>5 DEF WithNext
  <2>2. Indexed(edges', strings, edge', rest')
    BY <1>1, <1>3, <1>5, <2>1
  <2> QED
    BY <1>1, <2>2, InsertionKeeps
<1> QED
  BY <1>4, <1>5

\* The empty string.
LEMMA RefuseEmptyKeeps ==
    ASSUME RadixTreeInv, RefuseEmpty
    PROVE  RadixTreeInv'
<1>1. edge # 0 /\ rest = << >> /\ edge' = 0 /\ edges' = edges /\ rest' = rest /\ UNCHANGED <<strings, find>>
  BY DEF RefuseEmpty
<1>2. strings \in Seq(Seq(Alphabet)) /\ Indexed(edges, strings, edge, << >>)
  BY <1>1, InsertionAt
<1>3. Indexed(edges, strings, 0, << >>)
  BY <1>1, <1>2, InsertNothing
<1> QED
  BY <1>1, <1>3, InsertionKeeps

\* rxt_insert, when nothing is under way.
LEMMA InsertKeeps ==
    ASSUME RadixTreeInv, NEW key \in Keys, rxt_insert(key)
    PROVE  RadixTreeInv'
<1>1. /\ edge = 0 /\ strings' = Append(strings, key) /\ edge' = 1 /\ rest' = key /\ find' = NoLookup
      /\ edges' = edges
  BY DEF rxt_insert
<1>2. key \in Seq(Alphabet)
  BY RadixTreeAssumption
<1>3. strings \in Seq(Seq(Alphabet)) /\ Indexed(edges, strings, 0, rest)
  BY <1>1 DEF RadixTreeInv
<1>4. strings' \in Seq(Seq(Alphabet)) /\ Indexed(edges, strings', 1, key)
  BY <1>1, <1>2, <1>3, InsertStarts
<1>5. Sought(edges', strings', find') /\ find' \in LookupType
  BY <1>1 DEF Sought, NoLookup, LookupType, RADIX_TREE_NONE
<1> QED
  BY <1>1, <1>4, <1>5 DEF RadixTreeInv

\* rxt_find, at the root.
LEMMA FindKeeps ==
    ASSUME RadixTreeInv, NEW key \in Keys, rxt_find(key)
    PROVE  RadixTreeInv'
<1>1. /\ edge = 0 /\ find' = [key |-> key, edge |-> 1, rest |-> key, value |-> RADIX_TREE_NONE]
      /\ edges' = edges /\ strings' = strings /\ edge' = edge /\ rest' = rest
  BY DEF rxt_find
<1>2. key \in Seq(Alphabet)
  BY RadixTreeAssumption
<1>3. strings \in Seq(Seq(Alphabet)) /\ Indexed(edges, strings, edge, rest)
  BY DEF RadixTreeInv
<1>4. \E W, B, C : /\ Complete(edges, W, B, C, strings, Len(strings))
                   /\ At(edges, W, B, 1, key, key) /\ PassedBy(edges, W, B, C, 1, key)
  BY <1>1, <1>2, <1>3, SearchStarts
<1>5. /\ find'.key = key /\ find'.edge = 1 /\ find'.rest = key /\ find'.value = RADIX_TREE_NONE
      /\ find' \in LookupType
  BY <1>1, <1>2 DEF LookupType, RADIX_TREE_NONE
<1>6. Sought(edges', strings', find')
  BY <1>1, <1>4, <1>5 DEF Sought
<1> QED
  BY <1>1, <1>3, <1>5, <1>6 DEF RadixTreeInv

\* What a search returns, or where it goes on.
LEMMA Returned ==
    ASSUME NEW T, NEW ss, NEW l, l.edge = 0, LastOf(ss, l.key, l.value)
    PROVE  Sought(T, ss, l)
BY DEF Sought

\* It is still under way.
LEMMA GoesOn ==
    ASSUME NEW T, NEW ss, NEW W, NEW B, NEW C, Complete(T, W, B, C, ss, Len(ss)), NEW l, l.value = RADIX_TREE_NONE,
           NEW e, e # 0, NEW key, NEW z, l.edge = e, l.key = key, l.rest = z,
           At(T, W, B, e, key, z), PassedBy(T, W, B, C, e, key)
    PROVE  Sought(T, ss, l)
<1>1. At(T, W, B, l.edge, l.key, l.rest) /\ PassedBy(T, W, B, C, l.edge, l.key) /\ l.edge # 0
  OBVIOUS
<1> QED
  BY <1>1 DEF Sought

\* A step of rxt_find.
LEMMA FindStepKeeps ==
    ASSUME RadixTreeInv, FindStep
    PROVE  RadixTreeInv'
<1>1. PICK T : T = edges
  OBVIOUS
<1>2. PICK ss : ss = strings
  OBVIOUS
<1>3. PICK l : l = find
  OBVIOUS
<1>4. PICK e : e = l.edge
  OBVIOUS
<1>5. PICK n : n = Common(T[e].prefix, l.rest)
  OBVIOUS
<1>6. /\ e # 0 /\ edges' = edges /\ strings' = strings /\ edge' = edge /\ rest' = rest
      /\ find' = IF FirstChar(T[e].prefix) # FirstChar(l.rest) THEN [l EXCEPT !.edge = T[e].next]
                 ELSE IF n < Len(T[e].prefix) THEN [l EXCEPT !.edge = 0]
                 ELSE IF n = Len(l.rest) THEN [l EXCEPT !.edge = 0, !.value = T[e].value]
                 ELSE [l EXCEPT !.edge = T[e].child, !.rest = From(l.rest, n)]
  BY <1>1, <1>3, <1>4, <1>5 DEF FindStep
<1>7. /\ ss \in Seq(Seq(Alphabet)) /\ l \in LookupType /\ Indexed(T, ss, edge, rest) /\ Sought(T, ss, l)
      /\ edge = 0
  <2>1. edge # 0 => find.edge = 0
    BY DEF RadixTreeInv, NoLookup
  <2> QED
    BY <1>1, <1>2, <1>3, <1>4, <1>6, <2>1 DEF RadixTreeInv
<1>8. PICK W, B, C : /\ Complete(T, W, B, C, ss, Len(ss))
                    /\ At(T, W, B, e, l.key, l.rest) /\ PassedBy(T, W, B, C, e, l.key)
  BY <1>4, <1>6, <1>7 DEF Sought
<1>9. PICK key, z, v : key = l.key /\ z = l.rest /\ v = l.value
  OBVIOUS
<1>10. /\ l = [key |-> key, edge |-> e, rest |-> z, value |-> v] /\ key \in Seq(Alphabet) /\ z \in Seq(Alphabet)
       /\ v = RADIX_TREE_NONE /\ v \in Int /\ e \in Nat
  BY <1>4, <1>6, <1>7, <1>9 DEF LookupType, Sought
<1>11. /\ Complete(T, W, B, C, ss, Len(ss)) /\ At(T, W, B, e, key, z) /\ PassedBy(T, W, B, C, e, key)
       /\ n = Common(T[e].prefix, z)
  BY <1>5, <1>8, <1>9
<1>12. /\ FirstChar(z) # FirstChar(T[e].prefix) =>
                 IF T[e].next = 0 THEN LastOf(ss, key, RADIX_TREE_NONE)
                 ELSE At(T, W, B, T[e].next, key, z) /\ PassedBy(T, W, B, C, T[e].next, key)
       /\ FirstChar(z) = FirstChar(T[e].prefix) =>
                 IF n < Len(T[e].prefix) THEN LastOf(ss, key, RADIX_TREE_NONE)
                 ELSE IF n = Len(z) THEN LastOf(ss, key, T[e].value)
                 ELSE IF T[e].child = 0 THEN LastOf(ss, key, RADIX_TREE_NONE)
                 ELSE At(T, W, B, T[e].child, key, From(z, n)) /\ PassedBy(T, W, B, C, T[e].child, key)
  BY <1>7, <1>11, RadixTreeAssumption, Lookup
<1>13. T[e].next \in Nat /\ T[e].child \in Nat /\ T[e].value \in Int
  <2>1. T \in Seq(EdgeType) /\ e \in 1 .. Len(T)
    BY <1>11 DEF Complete, Tree, Labelled, At
  <2>2. T[e] \in EdgeType
    BY <2>1
  <2> QED
    BY <2>2 DEF EdgeType
<1>14. \A d, c : d # 0 /\ At(T, W, B, d, key, c) => c \in Seq(Alphabet)
  BY DEF At
<1>15. PICK l2 : l2 = find'
  OBVIOUS
<1>16. CASE FirstChar(z) # FirstChar(T[e].prefix)
  <2>1. PICK d \in Nat : d = T[e].next
    BY <1>13
  <2>2. l2 = [key |-> key, edge |-> d, rest |-> z, value |-> v]
    BY <1>6, <1>9, <1>10, <1>15, <1>16, <2>1
  <2>3. l2.key = key /\ l2.edge = d /\ l2.rest = z /\ l2.value = v /\ l2 \in LookupType
    BY <1>10, <2>2 DEF LookupType
  <2>4. CASE d = 0
    <3>1. LastOf(ss, l2.key, l2.value)
      BY <1>10, <1>12, <1>16, <2>1, <2>3, <2>4
    <3> QED
      BY <1>1, <1>2, <1>6, <1>7, <1>15, <2>3, <2>4, <3>1, Returned DEF RadixTreeInv
  <2>5. CASE d # 0
    <3>1. At(T, W, B, d, key, z) /\ PassedBy(T, W, B, C, d, key)
      BY <1>12, <1>16, <2>1, <2>5
    <3>2. Sought(T, ss, l2)
      BY <1>10, <1>11, <2>3, <2>5, <3>1, GoesOn
    <3> QED
      BY <1>1, <1>2, <1>6, <1>7, <1>15, <2>3, <3>2 DEF RadixTreeInv
  <2> QED
    BY <2>4, <2>5
<1>17. CASE FirstChar(z) = FirstChar(T[e].prefix) /\ n < Len(T[e].prefix)
  <2>1. l2 = [key |-> key, edge |-> 0, rest |-> z, value |-> v]
    BY <1>6, <1>9, <1>10, <1>15, <1>17
  <2>2. l2.key = key /\ l2.edge = 0 /\ l2.rest = z /\ l2.value = v /\ l2 \in LookupType
    BY <1>10, <2>1 DEF LookupType
  <2>3. LastOf(ss, l2.key, l2.value)
    BY <1>10, <1>12, <1>17, <2>2
  <2> QED
    BY <1>1, <1>2, <1>6, <1>7, <1>15, <2>2, <2>3, Returned DEF RadixTreeInv
<1>18. CASE FirstChar(z) = FirstChar(T[e].prefix) /\ ~(n < Len(T[e].prefix)) /\ n = Len(z)
  <2>1. PICK w \in Int : w = T[e].value
    BY <1>13
  <2>2. l2 = [key |-> key, edge |-> 0, rest |-> z, value |-> w]
    BY <1>6, <1>9, <1>10, <1>15, <1>18, <2>1
  <2>3. l2.key = key /\ l2.edge = 0 /\ l2.rest = z /\ l2.value = w /\ l2 \in LookupType
    BY <1>10, <2>2 DEF LookupType
  <2>4. LastOf(ss, l2.key, l2.value)
    BY <1>12, <1>18, <2>1, <2>3
  <2> QED
    BY <1>1, <1>2, <1>6, <1>7, <1>15, <2>3, <2>4, Returned DEF RadixTreeInv
<1>19. CASE FirstChar(z) = FirstChar(T[e].prefix) /\ ~(n < Len(T[e].prefix)) /\ n # Len(z)
  <2>1. PICK d \in Nat : d = T[e].child
    BY <1>13
  <2>2. PICK y : y = From(z, n)
    OBVIOUS
  <2>3. l2 = [key |-> key, edge |-> d, rest |-> y, value |-> v]
    BY <1>6, <1>9, <1>10, <1>15, <1>19, <2>1, <2>2
  <2>4. l2.key = key /\ l2.edge = d /\ l2.rest = y /\ l2.value = v
    BY <2>3
  <2>5. y \in Seq(Alphabet)
    <3>1. n \in Nat
      <4>1. T \in Seq(EdgeType) /\ e \in 1 .. Len(T)
        BY <1>11 DEF Complete, Tree, Labelled, At
      <4>2. T[e] \in EdgeType
        BY <4>1
      <4>3. T[e].prefix \in Seq(Alphabet)
        BY <4>2 DEF EdgeType
      <4> QED
        BY <1>10, <1>11, <4>3, CommonIs
    <3> QED
      BY <1>10, <2>2, <3>1 DEF From
  <2>6. l2 \in LookupType
    BY <1>10, <2>3, <2>5 DEF LookupType
  <2>7. CASE d = 0
    <3>1. LastOf(ss, l2.key, l2.value)
      BY <1>10, <1>12, <1>19, <2>1, <2>4, <2>7
    <3> QED
      BY <1>1, <1>2, <1>6, <1>7, <1>15, <2>4, <2>6, <2>7, <3>1, Returned DEF RadixTreeInv
  <2>8. CASE d # 0
    <3>1. At(T, W, B, d, key, y) /\ PassedBy(T, W, B, C, d, key)
      BY <1>12, <1>19, <2>1, <2>2, <2>8
    <3>2. Sought(T, ss, l2)
      BY <1>10, <1>11, <2>4, <2>8, <3>1, GoesOn
    <3> QED
      BY <1>1, <1>2, <1>6, <1>7, <1>15, <2>6, <3>2 DEF RadixTreeInv
  <2> QED
    BY <2>7, <2>8
<1> QED
  BY <1>16, <1>17, <1>18, <1>19

\* What the places of the strings, of the edges and of a search say together.
LEMMA IndexSound ==
    ASSUME RadixTreeInv
    PROVE  IndexExact
<1>1. PICK l : l = find
  OBVIOUS
<1>2. ASSUME find.edge = 0, find # NoLookup PROVE find.value = NumberOf(find.key)
  <2>1. strings \in Seq(Seq(Alphabet)) /\ LastOf(strings, find.key, find.value)
    BY <1>2 DEF RadixTreeInv, Sought
  <2> QED
    BY <2>1, NumberIs
<1>3. ASSUME edge = 0
      PROVE  /\ \A S \in SUBSET DOMAIN edges : 1 \in S /\ Closed(S) => S = DOMAIN edges
             /\ \A g \in DOMAIN edges \ {1} : \A p, q \in Parents(g) : p = q
  <2>1. PICK T : T = edges
    OBVIOUS
  <2>2. PICK W, B, C : Tree(T, W, B, C)
    BY <1>3, <2>1 DEF RadixTreeInv, Indexed, Complete
  <2>3. DOMAIN T = 1 .. Len(T) /\ Len(T) \in Nat
    BY <2>2 DEF Tree, Labelled
  <2>4. ASSUME NEW S \in SUBSET DOMAIN T, 1 \in S, Closed(S) PROVE S = DOMAIN T
    <3>1. \A f \in 1 .. Len(T) : f \in S => /\ T[f].next # 0 => T[f].next \in S
                                            /\ T[f].child # 0 => T[f].child \in S
      BY <2>1, <2>4 DEF Closed
    <3>2. \A g \in 1 .. Len(T) : g \in S
      BY <2>2, <2>4, <3>1, AllReached
    <3> QED
      BY <2>3, <3>2
  <2>5. ASSUME NEW g \in DOMAIN T \ {1}, NEW p \in Parents(g), NEW q \in Parents(g) PROVE p = q
    <3>1. g # 0
      BY <2>3
    <3>2. \A x \in Parents(g) : (x \in 1 .. Len(T) /\ T[x].next = g)
                                \/ \E f \in 1 .. Len(T) : x = -f /\ T[f].child = g
      BY <2>1, <2>3 DEF Parents
    <3>3. CASE p \in 1 .. Len(T) /\ T[p].next = g
      <4>1. CASE q \in 1 .. Len(T) /\ T[q].next = g
        BY <2>2, <3>1, <3>3, <4>1, HangsOnce
      <4>2. ASSUME NEW f \in 1 .. Len(T), T[f].child = g PROVE FALSE
        BY <2>2, <3>1, <3>3, <4>2, HangsOnce
      <4> QED
        BY <3>2, <4>1, <4>2
    <3>4. ASSUME NEW f \in 1 .. Len(T), p = -f, T[f].child = g PROVE p = q
      <4>1. CASE q \in 1 .. Len(T) /\ T[q].next = g
        BY <2>2, <3>1, <3>4, <4>1, HangsOnce
      <4>2. ASSUME NEW h \in 1 .. Len(T), q = -h, T[h].child = g PROVE p = q
        <5>1. f = h
          BY <2>2, <3>1, <3>4, <4>2, HangsOnce
        <5> QED
          BY <3>4, <4>2, <5>1
      <4> QED
        BY <3>2, <4>1, <4>2
    <3> QED
      BY <3>2, <3>3, <3>4
  <2> QED
    BY <2>1, <2>4, <2>5
<1> QED
  BY <1>2, <1>3 DEF IndexExact

\* Every string of the table is found with its number, the last one if it is there more than
\* once, and no other string is found, in whatever order they came and however their edges
\* were split; no edge is lost to the tree or hangs in it twice (radixtree.c:72-169).
THEOREM RadixTreeExact == RadixTreeSpec => []IndexExact
<1>1. rxt_new => RadixTreeInv
  <2> SUFFICES ASSUME rxt_new PROVE RadixTreeInv
    OBVIOUS
  <2>1. edges = <<edge_new>> /\ strings = << >> /\ edge = 0 /\ rest = << >> /\ find = NoLookup
    BY DEF rxt_new
  <2>2. Indexed(edges, strings, edge, rest)
    BY <2>1, EmptyTree
  <2>3. NoLookup \in LookupType /\ NoLookup.edge = 0
    BY DEF NoLookup, LookupType, RADIX_TREE_NONE
  <2> QED
    BY <2>1, <2>2, <2>3 DEF RadixTreeInv, Sought
<1>2. RadixTreeInv /\ [RadixTreeNext]_rxt_vars => RadixTreeInv'
  <2> SUFFICES ASSUME RadixTreeInv, [RadixTreeNext]_rxt_vars PROVE RadixTreeInv'
    OBVIOUS
  <2>1. ASSUME NEW key \in Keys, rxt_insert(key) PROVE RadixTreeInv'
    BY <2>1, InsertKeeps
  <2>2. CASE FreshEdge
    BY <2>2, FreshEdgeKeeps
  <2>3. CASE WholeEdge
    BY <2>3, WholeEdgeKeeps
  <2>4. CASE SplitEdge
    BY <2>4, SplitEdgeKeeps
  <2>5. CASE NextEdge
    BY <2>5, NextEdgeKeeps
  <2>6. CASE RefuseEmpty
    BY <2>6, RefuseEmptyKeeps
  <2>7. ASSUME NEW key \in Keys, rxt_find(key) PROVE RadixTreeInv'
    BY <2>7, FindKeeps
  <2>8. CASE FindStep
    BY <2>8, FindStepKeeps
  <2>9. CASE UNCHANGED rxt_vars
    <3>1. edges' = edges /\ strings' = strings /\ edge' = edge /\ rest' = rest /\ find' = find
      BY <2>9 DEF rxt_vars
    <3> QED
      BY <3>1 DEF RadixTreeInv
  <2> QED
    BY <2>1, <2>2, <2>3, <2>4, <2>5, <2>6, <2>7, <2>8, <2>9 DEF RadixTreeNext
<1>3. RadixTreeInv => IndexExact
  BY IndexSound
<1> QED
  BY <1>1, <1>2, <1>3, PTL DEF RadixTreeSpec

================================================================================
