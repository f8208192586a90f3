------------------------------- MODULE MCLibrary --------------------------------
(***************************************************************************)
(* The parts that the programs are built on, each explored on its own: the *)
(* one that is chosen at first is the only one that moves.  The search of  *)
(* profile.c is one of them.                                               *)
(***************************************************************************)
EXTENDS BitSet, RadixTree, HashGrid, Containers, Profile

VARIABLE part

ShortKeys == UNION {[1 .. n -> Alphabet] : n \in 0 .. 3}
                \cup {<<"a", "b", "a", "b">>, <<"a", "b", "a", "b", "a">>, <<"a", "a", "a", "a", "b">>}

Points == {[x |-> x, y |-> y] : x \in {-7, 3, 8, 12, 17}, y \in {4, 9}} \cup {[x |-> 13, y |-> -2], [x |-> 9, y |-> 12]}
Circles == [coord : {[x |-> 10, y |-> 9], [x |-> 14, y |-> 5], [x |-> -8, y |-> 8], [x |-> 2, y |-> 1]},
            radius : {4, 6}]

\* Two lines that cross, a third that may be a loop or come back, trips of different
\* speed, stops with footpaths and one without.
Lines == {<<<<1, 2, 3>>, <<4, 3, 5>>>>, <<<<1, 3, 5>>, <<2, 5, 4>>>>}
ThirdLines == {<<3, 1, 4>>, <<2, 4, 2, 5>>, <<5, 1>>}
Speeds == {<<<<0, 4, 9, 12>>>>, <<<<0, 6, 8, 11>>, <<0, 3, 9, 20>>>>}
Paths == {[x \in 1 .. 5 |-> IF x \in {2, 4} THEN <<6 - x>> ELSE IF x = 3 THEN <<5>> ELSE IF x = 5 THEN <<3>> ELSE << >>],
          [x \in 1 .. 5 |-> IF x = 1 THEN <<2, 4>> ELSE IF x = 3 THEN << >> ELSE <<1>>]}
SmallNetworks ==
    {[routes |-> [x \in 1 .. 3 |-> [stops |-> IF x = 3 THEN third ELSE two[x], trips |-> speed]], transfers |-> paths] :
        two \in Lines, third \in ThirdLines, speed \in Speeds, paths \in Paths}

LibraryInit ==
    /\ part \in {"bits", "tree", "grid", "heap", "slab", "profile"}
    /\ bitset_new /\ rxt_new /\ ContainersInit
    /\ IF part = "grid" THEN HashGridInit
       ELSE coords = << >> /\ hg = << >> /\ r = NoQuery /\ returned = {}
    /\ IF part = "profile" THEN ProfileInit
       ELSE /\ network = << >> /\ states = << >> /\ states_head = 1
            /\ exploring = << >> /\ hits = << >> /\ ended = FALSE

LibraryNext ==
    /\ UNCHANGED part
    /\ \/ part = "bits" /\ BitSetNext /\ UNCHANGED <<rxt_vars, hashgrid_vars, container_vars, profile_vars>>
       \/ part = "tree" /\ RadixTreeNext /\ UNCHANGED <<bitset_vars, hashgrid_vars, container_vars, profile_vars>>
       \/ part = "grid" /\ HashGridNext /\ UNCHANGED <<bitset_vars, rxt_vars, container_vars, profile_vars>>
       \/ part = "heap" /\ HeapNext /\ UNCHANGED <<bitset_vars, rxt_vars, hashgrid_vars, profile_vars>>
       \/ part = "profile" /\ ProfileNext /\ UNCHANGED <<bitset_vars, rxt_vars, hashgrid_vars, container_vars>>
       \/ part = "slab" /\ SlabNext /\ UNCHANGED <<bitset_vars, rxt_vars, hashgrid_vars, profile_vars>>

LibrarySpec == LibraryInit /\ [][LibraryNext]_<<part, bitset_vars, rxt_vars, hashgrid_vars, container_vars, profile_vars>>

================================================================================
