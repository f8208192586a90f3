-------------------------------- MODULE HashGrid --------------------------------
(***************************************************************************)
(* hashgrid.c: points in a grid of bins that wraps around, and the query   *)
(* that walks over the bins of a box.  Coordinates are whole numbers of    *)
(* brads (geometry.c); distances are compared by their squares, where the  *)
(* code takes the root.                                                    *)
(***************************************************************************)
EXTENDS Integers, FiniteSets

CONSTANTS grid_dim,         \* bins along each axis
          bin_size,         \* in brads
          Coords,           \* where points may be
          n_items,          \* how many there are
          Queries           \* [coord, radius] that may be asked

ASSUME HashGridAssumption ==
    /\ grid_dim \in Nat \ {0} /\ bin_size \in Nat \ {0} /\ n_items \in Nat
    /\ Coords \subseteq [x : Int, y : Int] /\ Queries \subseteq [coord : [x : Int, y : Int], radius : Nat]

VARIABLES coords,           \* the points
          hg,               \* the grid: items, with the offset and the number of each bin
          r,                \* the query: struct HashGridResult
          returned          \* items that HashGridResult_next has returned

hashgrid_vars == <<coords, hg, r, returned>>

Item == 0 .. n_items - 1
Cells == (0 .. grid_dim - 1) \X (0 .. grid_dim - 1)      \* row and column

\* C division rounds towards zero, so bin 0 is twice as wide as the others.
Magnitude(x) == IF x < 0 THEN -x ELSE x
bin(x) == (Magnitude(x) \div bin_size) % grid_dim
cell(c) == <<bin(c.y), bin(c.x)>>

\* The points are counted, the bins laid out row by row in one array, and each is filled in
\* the order of its points.
InBin(points, c) == {i \in Item : cell(points[i]) = c}
InBinsBefore(points, c) ==
    {i \in Item : LET d == cell(points[i]) IN d[1] < c[1] \/ (d[1] = c[1] /\ d[2] < c[2])}
Rank(points, i) == Cardinality({j \in InBin(points, cell(points[i])) : j < i})

HashGrid_init(points) ==
    LET bins == [c \in Cells |-> Cardinality(InBinsBefore(points, c))]
    IN  [counts |-> [c \in Cells |-> Cardinality(InBin(points, c))], bins |-> bins,
         items |-> [p \in 1 .. n_items |-> CHOOSE i \in Item : p = bins[cell(points[i])] + Rank(points, i) + 1]]

NoQuery == [has_next |-> FALSE]

\* Fault: the far corner of the box is cut off.
HashGrid_query_short(q) ==
    LET low == [x |-> q.coord.x - q.radius, y |-> q.coord.y - q.radius]
        high == [x |-> q.coord.x + q.radius, y |-> q.coord.y + q.radius]
    IN  [coord |-> q.coord, radius |-> q.radius, min |-> low, max |-> high,
         xmin |-> bin(low.x), ymin |-> bin(low.y), xmax |-> bin(q.coord.x), ymax |-> bin(high.y),
         x |-> bin(low.x), y |-> bin(low.y), i |-> 0, has_next |-> TRUE]

HashGrid_query(q) ==
    LET low == [x |-> q.coord.x - q.radius, y |-> q.coord.y - q.radius]
        high == [x |-> q.coord.x + q.radius, y |-> q.coord.y + q.radius]
    IN  [coord |-> q.coord, radius |-> q.radius, min |-> low, max |-> high,
         xmin |-> bin(low.x), ymin |-> bin(low.y), xmax |-> bin(high.x), ymax |-> bin(high.y),
         x |-> bin(low.x), y |-> bin(low.y), i |-> 0, has_next |-> TRUE]

HashGridInit ==
    /\ coords \in [Item -> Coords]
    /\ hg = HashGrid_init(coords) /\ r = NoQuery /\ returned = {}

Ask(q) == r = NoQuery /\ r' = HashGrid_query(q) /\ UNCHANGED <<coords, hg, returned>>

\* The place is advanced before it is read.
LastOfBin == r.i + 1 >= hg.counts[<<r.y, r.x>>]
LastBin == r.x = r.xmax /\ r.y = r.ymax

Advanced ==
    IF ~LastOfBin THEN [r EXCEPT !.i = @ + 1]
    ELSE IF r.x = r.xmax THEN [r EXCEPT !.i = 0, !.x = r.xmin, !.y = (@ + 1) % grid_dim]
    ELSE [r EXCEPT !.i = 0, !.x = (@ + 1) % grid_dim]

\* What is read there: an item, of a later bin if this one is empty; behind the last item,
\* anything.
ItemsAt(q) ==
    LET place == hg.bins[<<q.y, q.x>>] + q.i + 1
    IN  IF place \in DOMAIN hg.items THEN {hg.items[place]} ELSE Item

HashGridResult_next ==
    /\ r.has_next /\ ~(LastOfBin /\ LastBin)
    /\ r' = Advanced
    /\ \E item \in ItemsAt(Advanced) : returned' = returned \cup {item}
    /\ UNCHANGED <<coords, hg>>

QueryEnds ==
    /\ r.has_next /\ LastOfBin /\ LastBin
    /\ r' = [r EXCEPT !.i = 0, !.x = r.xmin, !.has_next = FALSE]
    /\ UNCHANGED <<coords, hg, returned>>

HashGridNext == (\E q \in Queries : Ask(q)) \/ HashGridResult_next \/ QueryEnds

HashGridSpec == HashGridInit /\ [][HashGridNext]_hashgrid_vars

--------------------------------------------------------------------------------
ersatz_distance(c, d) == (c.x - d.x) * (c.x - d.x) + (c.y - d.y) * (c.y - d.y)

InBox(c) == /\ c.x > r.min.x /\ c.x < r.max.x
            /\ c.y > r.min.y /\ c.y < r.max.y

Near(item) == ersatz_distance(r.coord, coords[item]) < r.radius * r.radius

\* All that HashGridResult_next_filtered returns, and what HashGridResult_closest does.
Filtered == {item \in returned : InBox(coords[item]) /\ Near(item)}
Closest == LET boxed == {item \in returned : InBox(coords[item])}
           IN  {item \in boxed : \A j \in boxed :
                   ersatz_distance(r.coord, coords[item]) <= ersatz_distance(r.coord, coords[j])}

Asked == r # NoQuery /\ ~r.has_next

\* The box is north of the equator and east of Greenwich: elsewhere the bins are reflected,
\* and run through in the wrong direction.  And it is smaller than the grid.
Ordinary ==
    /\ r.min.x >= 0 /\ r.min.y >= 0
    /\ (r.max.x - r.min.x) < (grid_dim - 1) * bin_size /\ (r.max.y - r.min.y) < (grid_dim - 1) * bin_size

FirstItem == IF hg.counts[<<r.ymin, r.xmin>>] = 0 THEN {} ELSE {hg.items[hg.bins[<<r.ymin, r.xmin>>] + 1]}

\* Of the points within the radius none is missed but, perhaps, the one that comes first
\* in the first bin of the box (hashgrid.c:39-80), if the query is an ordinary one; and the
\* closest point that is reported is as close as any other of those (hashgrid.c:112-131).
GridMissesOnlyFirst ==
    Asked /\ Ordinary =>
        /\ \A item \in Item : Near(item) => item \in Filtered \cup FirstItem
        /\ Closest = {} => \A item \in Item : Near(item) => item \in FirstItem
        /\ \A c \in Closest, item \in Filtered :
             ersatz_distance(r.coord, coords[c]) <= ersatz_distance(r.coord, coords[item])

\* "The hashgrid can provide many false positives, but no false negatives" (hashgrid.c:88).
NoFalseNegatives == Asked => \A item \in Item : Near(item) => item \in Filtered

================================================================================
