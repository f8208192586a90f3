------------------------------- MODULE Containers -------------------------------
(***************************************************************************)
(* binheap.c and slab.c: a priority queue and an allocator that frees all  *)
(* at once, kept for a later kind of search.  Each is a record of its      *)
(* static variables with a history of what it is meant to hold.            *)
(***************************************************************************)
EXTENDS Integers, FiniteSets

CONSTANTS Priorities, MinCapacity, MaxQueued,   \* heap: keys, BINHEAP_MIN_CAPACITY, bound
          slab_size, Sizes, MaxSlabs            \* slab: its size, requests, bound

ASSUME ContainersAssumption ==
    MinCapacity \in Nat \ {0} /\ Priorities \subseteq Int /\ slab_size \in Nat \ {0} /\ Sizes \subseteq Nat

VARIABLES heap,     \* array[k] is prio[k] and elem[k]; queued: what should be in it
          slab      \* slabs are numbered along their chain; live: what has been given out

container_vars == <<heap, slab>>

--------------------------------------------------------------------------------
\* What is in memory that has not been written.
NoElement == [prio |-> 0, elem |-> 0]

binheap_new ==
    [array |-> [k \in 1 .. MinCapacity |-> NoElement], size |-> 0, capacity |-> MinCapacity,
     loop |-> "none", i |-> 0, x |-> NoElement, queued |-> {}, inserted |-> 0, min |-> {}]

\* An insertion or an extraction begins with a place i for an element x, which the loop then
\* moves.  The elements, pointers in the code, are numbered as they come.
binheap_insert(p) ==
    LET x == [prio |-> p, elem |-> heap.inserted + 1]
        size == heap.size + 1
        grown == IF size > heap.capacity THEN 2 * heap.capacity ELSE heap.capacity
    IN  /\ heap.loop = "none" /\ heap.inserted < MaxQueued
        /\ heap' = [array |-> [k \in 1 .. grown |-> IF k <= heap.capacity THEN heap.array[k] ELSE NoElement],
                    size |-> size, capacity |-> grown, loop |-> "raise", i |-> size, x |-> x,
                    queued |-> heap.queued \cup {x}, inserted |-> heap.inserted + 1, min |-> {}]
        /\ UNCHANGED slab

\* min is the element returned; an empty queue returns none and stays as it is.
binheap_extract_min ==
    LET gone == heap.array[1] IN
    /\ heap.loop = "none" /\ heap.size > 0
    /\ heap' = [heap EXCEPT !.size = @ - 1, !.loop = "lower", !.i = 1, !.x = heap.array[heap.size],
                            !.queued = @ \ {gone}, !.min = {gone}]
    /\ UNCHANGED slab

binheap_reset ==
    /\ heap.loop = "none"
    /\ heap' = [heap EXCEPT !.size = 0, !.queued = {}, !.min = {}]
    /\ UNCHANGED slab

\* An inserted element goes up while the one above it is greater; the last element, in place
\* of the first, goes down while the lesser one below it is.
Above == heap.i \div 2
Below ==
    LET left == 2 * heap.i
    IN  IF left # heap.size /\ heap.array[left + 1].prio < heap.array[left].prio THEN left + 1 ELSE left

Raises == heap.loop = "raise" /\ heap.i > 1 /\ heap.array[Above].prio > heap.x.prio
Lowers == heap.loop = "lower" /\ 2 * heap.i <= heap.size /\ heap.x.prio > heap.array[Below].prio

MoveTo(k) ==
    /\ heap' = [heap EXCEPT !.array[heap.i] = heap.array[k], !.i = k]
    /\ UNCHANGED slab

Raise == Raises /\ MoveTo(Above)
Lower == Lowers /\ MoveTo(Below)

\* The element is written where the loop ends, and the call returns.
Settle ==
    /\ heap.loop # "none" /\ ~Raises /\ ~Lowers
    /\ heap' = [heap EXCEPT !.array[heap.i] = heap.x, !.loop = "none"]
    /\ UNCHANGED slab

--------------------------------------------------------------------------------
slab_init == [chain |-> 1, last |-> 1, cur |-> 0, live |-> {}]

\* Fault: only the beginning of the request has to be within the slab.
Full_at_end(bytes) == slab.cur >= slab_size

\* The request does not end before the end of the current slab.
Full(bytes) == slab.cur + bytes >= slab_size

\* Such a request begins the next slab, which is allocated unless it is still there from
\* before; one that is larger than a slab is refused.
slab_alloc(bytes) ==
    LET at == IF Full(bytes) THEN slab.last + 1 ELSE slab.last
        from == IF Full(bytes) THEN 0 ELSE slab.cur
    IN  /\ bytes <= slab_size /\ at <= MaxSlabs
        /\ slab' = [chain |-> IF at > slab.chain THEN at ELSE slab.chain, last |-> at, cur |-> from + bytes,
                    live |-> slab.live \cup {[slab |-> at, from |-> from, to |-> from + bytes]}]
        /\ UNCHANGED heap

slab_free ==
    /\ slab' = [slab EXCEPT !.last = 1, !.cur = 0, !.live = {}]
    /\ UNCHANGED heap

--------------------------------------------------------------------------------
ContainersInit == heap = binheap_new /\ slab = slab_init

HeapNext == (\E p \in Priorities : binheap_insert(p)) \/ binheap_extract_min \/ binheap_reset
              \/ Raise \/ Lower \/ Settle
SlabNext == (\E bytes \in Sizes : slab_alloc(bytes)) \/ slab_free

ContainersSpec == ContainersInit /\ [][HeapNext \/ SlabNext]_container_vars

QueueInOrder ==
    /\ heap.loop = "none" => {heap.array[k] : k \in 1 .. heap.size} = heap.queued
    /\ heap.size = Cardinality(heap.queued) /\ heap.size <= heap.capacity
    /\ \A x \in heap.min, y \in heap.queued : x.prio <= y.prio

AllocationsDisjoint ==
    /\ \A x \in slab.live : x.slab <= slab.chain /\ x.to <= slab_size
    /\ \A x, y \in slab.live : x # y /\ x.slab = y.slab => x.to <= y.from \/ y.to <= x.from

\* The queue holds what was inserted and not yet extracted, at most as much as fits, and
\* what is extracted is least, although elements change places with every call and the
\* array keeps the remains of others behind them (binheap.c:72-105).  What slab_alloc has
\* given out since the last slab_free lies within slabs and does not overlap, also when the
\* slabs of an earlier round are used again (slab.c:79-106).
ContainersSound == QueueInOrder /\ AllocationsDisjoint

================================================================================
