------------------------------- MODULE RadixTree --------------------------------
(***************************************************************************)
(* radixtree.c: the index from the ids of trips, routes and stops to their *)
(* numbers.  An edge holds up to PREFIX_SIZE characters, a value and the   *)
(* first edge of the next level; edges of one level are chained.  Keys are *)
(* inserted and never removed; insertion splits an edge that matches a key *)
(* only in part.                                                           *)
(*                                                                         *)
(* A key is a sequence of characters.  Edges are numbered in the order of  *)
(* their allocation, the root is 1, and 0 is the null pointer.             *)
(***************************************************************************)
EXTENDS Integers, Sequences

CONSTANTS PREFIX_SIZE,      \* RADIX_TREE_PREFIX_SIZE: 4
          Alphabet,         \* characters
          Keys,             \* the strings that may be indexed or looked up
          MaxStrings        \* bound: strings of a table

NUL == "\\0"

ASSUME RadixTreeAssumption ==
    PREFIX_SIZE \in Nat \ {0} /\ NUL \notin Alphabet /\ Keys \subseteq Seq(Alphabet)

VARIABLES edges,            \* the edges allocated so far
          strings,          \* the strings inserted, or being inserted
          edge, rest,       \* the locals e and k of rxt_insert: edge (0: returned), rest of the key
          find              \* rxt_find: the key, its locals edge and rest, what it returns

rxt_vars == <<edges, strings, edge, rest, find>>

RADIX_TREE_NONE == -1

edge_new == [next |-> 0, child |-> 0, value |-> RADIX_TREE_NONE, prefix |-> << >>]

NoLookup == [key |-> << >>, edge |-> 0, rest |-> << >>, value |-> RADIX_TREE_NONE]

rxt_new == edges = <<edge_new>> /\ strings = << >> /\ edge = 0 /\ rest = << >> /\ find = NoLookup

\* The value of a string is its place in the table.
value == Len(strings) - 1

\* How many characters of two strings agree.
Common(p, q) ==
    CHOOSE n \in 0 .. Len(p) : /\ n <= Len(q) /\ \A i \in 1 .. n : p[i] = q[i]
                               /\ n < Len(p) /\ n < Len(q) => p[n + 1] # q[n + 1]

FirstChar(s) == IF s = << >> THEN NUL ELSE s[1]
From(s, n) == SubSeq(s, n + 1, Len(s))

--------------------------------------------------------------------------------
\* rxt_load_strings_from_tdata: the next string of the table.
rxt_insert(key) ==
    /\ edge = 0 /\ find.edge = 0 /\ Len(strings) < MaxStrings
    /\ strings' = Append(strings, key)
    /\ edge' = 1 /\ rest' = key /\ find' = NoLookup
    /\ UNCHANGED edges

\* The edge consumes the last characters of the key, and keeps the value.
SaveValue(tree) == edges' = [tree EXCEPT ![edge].value = value] /\ edge' = 0 /\ rest' = << >>

\* Case 1: an empty edge takes as many characters as fit.
FreshEdge ==
    /\ edge # 0 /\ rest # << >> /\ edges[edge].prefix = << >>
    /\ LET n == IF Len(rest) < PREFIX_SIZE THEN Len(rest) ELSE PREFIX_SIZE
           filled == [edges EXCEPT ![edge].prefix = SubSeq(rest, 1, n)]
       IN  IF n = Len(rest) THEN SaveValue(filled)
           ELSE /\ edges' = Append([filled EXCEPT ![edge].child = Len(edges) + 1], edge_new)
                /\ edge' = Len(edges) + 1 /\ rest' = From(rest, n)
    /\ UNCHANGED <<strings, find>>

Matches == edge # 0 /\ rest # << >> /\ edges[edge].prefix # << >> /\ FirstChar(rest) = FirstChar(edges[edge].prefix)
Agreeing == Common(edges[edge].prefix, rest)

\* Case 2: the edge matches.  All of it: its value is replaced, or its child is next.
WholeEdge ==
    /\ Matches /\ Agreeing = Len(edges[edge].prefix)
    /\ IF Agreeing = Len(rest) THEN SaveValue(edges)
       ELSE /\ edges' = IF edges[edge].child # 0 THEN edges
                        ELSE Append([edges EXCEPT ![edge].child = Len(edges) + 1], edge_new)
            /\ edge' = edges'[edge].child /\ rest' = From(rest, Agreeing)
    /\ UNCHANGED <<strings, find>>

\* Fault: the new edge does not take the children over.
SplitTree_childless ==
    LET new == [edge_new EXCEPT !.value = edges[edge].value, !.prefix = From(edges[edge].prefix, Agreeing)]
    IN  Append([edges EXCEPT ![edge].value = RADIX_TREE_NONE, ![edge].child = Len(edges) + 1,
                             ![edge].prefix = SubSeq(@, 1, Agreeing)], new)

\* Part of it: the rest goes to a new edge below, with the value and the children.
SplitTree ==
    LET new == [edge_new EXCEPT !.value = edges[edge].value, !.child = edges[edge].child,
                                !.prefix = From(edges[edge].prefix, Agreeing)]
    IN  Append([edges EXCEPT ![edge].value = RADIX_TREE_NONE, ![edge].child = Len(edges) + 1,
                             ![edge].prefix = SubSeq(@, 1, Agreeing)], new)

SplitEdge ==
    /\ Matches /\ Agreeing < Len(edges[edge].prefix)
    /\ IF Agreeing = Len(rest) THEN SaveValue(SplitTree)
       ELSE edges' = SplitTree /\ edge' = Len(edges) + 1 /\ rest' = From(rest, Agreeing)
    /\ UNCHANGED <<strings, find>>

\* Case 3: the next edge of this level, a new one if need be.
NextEdge ==
    /\ edge # 0 /\ rest # << >> /\ edges[edge].prefix # << >> /\ FirstChar(rest) # FirstChar(edges[edge].prefix)
    /\ edges' = IF edges[edge].next # 0 THEN edges
                ELSE Append([edges EXCEPT ![edge].next = Len(edges) + 1], edge_new)
    /\ edge' = edges'[edge].next
    /\ UNCHANGED <<rest, strings, find>>

\* An empty string is refused, but takes a number.
RefuseEmpty == edge # 0 /\ rest = << >> /\ edge' = 0 /\ UNCHANGED <<edges, strings, rest, find>>

--------------------------------------------------------------------------------
rxt_find(key) ==
    /\ edge = 0 /\ find.edge = 0
    /\ find' = [key |-> key, edge |-> 1, rest |-> key, value |-> RADIX_TREE_NONE]
    /\ UNCHANGED <<edges, strings, edge, rest>>

\* The next edge of the level, or of the next level; RADIX_TREE_NONE is returned without one.
\* Of an edge that begins with the key's first character all has to agree.
FindStep ==
    LET prefix == edges[find.edge].prefix
        n == Common(prefix, find.rest)
    IN  /\ find.edge # 0
        /\ find' = IF FirstChar(prefix) # FirstChar(find.rest) THEN [find EXCEPT !.edge = edges[find.edge].next]
                   ELSE IF n < Len(prefix) THEN [find EXCEPT !.edge = 0]
                   ELSE IF n = Len(find.rest) THEN [find EXCEPT !.edge = 0, !.value = edges[find.edge].value]
                   ELSE [find EXCEPT !.edge = edges[find.edge].child, !.rest = From(@, n)]
        /\ UNCHANGED <<edges, strings, edge, rest>>

RadixTreeNext ==
    \/ \E key \in Keys : rxt_insert(key)
    \/ FreshEdge \/ WholeEdge \/ SplitEdge \/ NextEdge \/ RefuseEmpty
    \/ \E key \in Keys : rxt_find(key)
    \/ FindStep

RadixTreeSpec == rxt_new /\ [][RadixTreeNext]_rxt_vars

--------------------------------------------------------------------------------
\* The number of a string: that of the last of its places.
PlacesOf(key) == {i \in DOMAIN strings : strings[i] = key}
NumberOf(key) ==
    IF key = << >> \/ PlacesOf(key) = {} THEN RADIX_TREE_NONE
    ELSE (CHOOSE i \in PlacesOf(key) : \A j \in PlacesOf(key) : j <= i) - 1

\* Where an edge hangs, and what follows the edges of a set.
Parents(g) == {f \in DOMAIN edges : edges[f].next = g} \cup {-f : f \in {f \in DOMAIN edges : edges[f].child = g}}
Closed(S) == \A f \in S : {edges[f].next, edges[f].child} \ {0} \subseteq S

\* Every string of the table is found with its number, the last one if it is there more
\* than once, and no other string is found, in whatever order they came and however their
\* edges were split (radixtree.c:72-169): tdata_apply_gtfsrt writes delays by this index.
\* No edge that was allocated is lost to the tree, or hangs in it twice.
IndexExact ==
    /\ find.edge = 0 /\ find # NoLookup => find.value = NumberOf(find.key)
    /\ edge = 0 /\ find = NoLookup =>
          /\ \A S \in SUBSET DOMAIN edges : 1 \in S /\ Closed(S) => S = DOMAIN edges
          /\ \A g \in DOMAIN edges \ {1} : \A p, q \in Parents(g) : p = q

================================================================================
