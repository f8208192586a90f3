----------------------------- MODULE RealtimeProofs -----------------------------
(***************************************************************************)
(* What the realtime process and the test program write into the timetable *)
(* file, for all feeds, messages and alerts: delays and nothing else, the  *)
(* ones that were sent, and alerts about what they name.                   *)
(***************************************************************************)
EXTENDS RealtimeProperties, Induction, TLAPS

(***************************************************************************)
(* The tables of a file.                                                   *)
(***************************************************************************)
Names == ToSet(HeaderRead)
Table(f, name) == f.entries[HeaderPlace[name]]

\* Those that realtime updates and alerts are about.
Used == {"trips", "trip_ids", "routes", "n_routes", "n_stops", "route_ids", "stop_ids", "route_stops"}

\* Each name of the header has a place of its own.
LEMMA Places ==
    /\ \A x \in Names : HeaderPlace[x] \in DOMAIN HeaderRead /\ HeaderRead[HeaderPlace[x]] = x
    /\ \A x \in Names \ {"trips"} : HeaderPlace[x] # HeaderPlace["trips"]
    /\ Used \subseteq Names
<1>1. \A x \in Names : HeaderPlace[x] \in DOMAIN HeaderRead /\ HeaderRead[HeaderPlace[x]] = x
  BY DEF HeaderPlace, Names, ToSet
<1>2. Used \subseteq Names
  <2>1. /\ HeaderRead[13] = "trips" /\ HeaderRead[31] = "trip_ids" /\ HeaderRead[9] = "routes"
        /\ HeaderRead[4] = "n_routes" /\ HeaderRead[29] = "route_ids" /\ HeaderRead[30] = "stop_ids"
        /\ HeaderRead[10] = "route_stops" /\ HeaderRead[3] = "n_stops" /\ {3, 4, 9, 10, 13, 29, 30, 31} \subseteq DOMAIN HeaderRead
    BY DEF HeaderRead
  <2> QED
    BY <2>1 DEF Names, ToSet, Used
<1> QED
  BY <1>1, <1>2 DEF Used

\* tdata_load finds each table at its place.
LEMMA Loaded ==
    ASSUME NEW f, NEW x \in Names, x # "n_agencies"
    PROVE  tdata_load(f)[x] = Table(f, x)
BY DEF tdata_load, Table, HeaderPlace, Names

\* A file is a header with its entries, and a trip has a delay.
IsFile(f) ==
    /\ "entries" \in DOMAIN f /\ DOMAIN f.entries = DOMAIN HeaderRead
    /\ DOMAIN Table(f, "trips") = DOMAIN Table(f, "trip_ids")
    /\ \A i \in DOMAIN Table(f, "trips") : "realtime_delay" \in DOMAIN Table(f, "trips")[i]

\* Two files that differ in delays at most.
SameTables(f, g) == \A x \in Names \ {"trips"} : Table(f, x) = Table(g, x)

\* Writing delays leaves all other tables alone.
LEMMA DelaysWritten ==
    ASSUME NEW f, IsFile(f), NEW delays
    PROVE  /\ IsFile(WithDelays(f, delays)) /\ SameTables(WithDelays(f, delays), f)
           /\ \A i \in DOMAIN Table(f, "trips") :
                 Table(WithDelays(f, delays), "trips")[i].realtime_delay =
                     IF i \in DOMAIN delays THEN delays[i] ELSE Table(f, "trips")[i].realtime_delay
<1> DEFINE old == Table(f, "trips")
           new == [i \in DOMAIN old |-> IF i \in DOMAIN delays THEN [old[i] EXCEPT !.realtime_delay = delays[i]]
                                        ELSE old[i]]
           g == WithDelays(f, delays)
<1>1. g = [f EXCEPT !.entries = [f.entries EXCEPT ![HeaderPlace["trips"]] = new]]
  BY DEF WithDelays, Table
<1> HIDE DEF g, new
<1>2. /\ "entries" \in DOMAIN g /\ g.entries = [f.entries EXCEPT ![HeaderPlace["trips"]] = new]
  BY <1>1 DEF IsFile
<1>3. /\ DOMAIN g.entries = DOMAIN HeaderRead /\ Table(g, "trips") = new
      /\ \A x \in Names \ {"trips"} : Table(g, x) = Table(f, x)
  BY <1>2, Places DEF IsFile, Table, Used
<1>4. DOMAIN new = DOMAIN old
  BY DEF new
<1>5. ASSUME NEW i \in DOMAIN old
      PROVE  /\ "realtime_delay" \in DOMAIN new[i]
             /\ new[i].realtime_delay = IF i \in DOMAIN delays THEN delays[i] ELSE old[i].realtime_delay
  <2>1. "realtime_delay" \in DOMAIN old[i]
    BY DEF IsFile
  <2>2. new[i] = IF i \in DOMAIN delays THEN [old[i] EXCEPT !.realtime_delay = delays[i]] ELSE old[i]
    BY DEF new
  <2> HIDE DEF old
  <2> QED
    BY <2>1, <2>2
<1>6. DOMAIN Table(g, "trips") = DOMAIN Table(g, "trip_ids")
  BY <1>3, <1>4, Places DEF IsFile, Used
<1> QED
  BY <1>2, <1>3, <1>4, <1>5, <1>6 DEF IsFile, SameTables, g

(***************************************************************************)
(* Applying a message.                                                     *)
(***************************************************************************)
\* A set of indexes that is not empty has a maximum.
LEMMA MaxOf ==
    ASSUME NEW n \in Nat, NEW S \in SUBSET (0 .. n), S # {}
    PROVE  Max(S) \in S /\ \A y \in S : y <= Max(S)
<1>1. \E x \in S : \A y \in S : x >= y
  <2>1. PICK x \in S : \A y \in S : y <= x
    BY GreatestIndex
  <2> QED
    BY <2>1
<1> QED
  BY <1>1 DEF Max

\* Ids, numbered from 1.
IsTable(ids) == \E n \in Nat : DOMAIN ids = 1 .. n

\* The index of an id is a place where it is, or NONE if there is none.
LEMMA IndexFound ==
    ASSUME NEW ids, IsTable(ids), NEW id
    PROVE  /\ Index(ids, id) \in Int
           /\ Index(ids, id) # NONE => Index(ids, id) + 1 \in DOMAIN ids /\ ids[Index(ids, id) + 1] = id
           /\ \A i \in DOMAIN ids : ids[i] = id => Index(ids, id) # NONE
<1> DEFINE S == {i \in DOMAIN ids : ids[i] = id}
           found == {0} \cup S
<1>1. PICK n \in Nat : DOMAIN ids = 1 .. n
  BY DEF IsTable
<1>2. found \in SUBSET (0 .. n) /\ found # {}
  BY <1>1
<1>3. PICK m \in found : m = Max(found) /\ \A y \in found : y <= m
  BY <1>2, MaxOf
<1>4. m \in Int /\ Index(ids, id) = m - 1 /\ m - 1 + 1 = m
  BY <1>2, <1>3 DEF Index
<1>5. m - 1 # NONE => m \in S
  BY <1>3, <1>4 DEF NONE
<1>6. ASSUME NEW i \in DOMAIN ids, ids[i] = id PROVE m - 1 # NONE
  <2>1. i \in found /\ i \in Int /\ i >= 1
    BY <1>1, <1>6
  <2>2. i <= m
    BY <1>3, <2>1
  <2> QED
    BY <1>4, <2>1, <2>2 DEF NONE
<1> QED
  BY <1>4, <1>5, <1>6

\* Each id has one place.
Distinct(ids) == \A i, j \in DOMAIN ids : ids[i] = ids[j] => i = j

\* The entities of a list that are applied to a trip.
About(entities, id) == {k \in Applied(entities) : entities[k].trip_id = id}

\* A message changes the delays of the trips it names, to what it says last of them.
LEMMA MessageApplied ==
    ASSUME NEW f, IsFile(f), IsTable(Table(f, "trip_ids")), Distinct(Table(f, "trip_ids")), NEW entities
    PROVE  /\ IsFile(tdata_apply_gtfsrt(f, entities)) /\ SameTables(tdata_apply_gtfsrt(f, entities), f)
           /\ \A i \in DOMAIN Table(f, "trips") :
                 Table(tdata_apply_gtfsrt(f, entities), "trips")[i].realtime_delay =
                     IF About(entities, Table(f, "trip_ids")[i]) = {} THEN Table(f, "trips")[i].realtime_delay
                     ELSE StoredDelay(entities[Max(About(entities, Table(f, "trip_ids")[i]))])
<1> DEFINE ids == Table(f, "trip_ids")
           named == {i \in DOMAIN Table(f, "trips") : Naming(ids, entities, i) # {}}
           delays == [i \in named |-> StoredDelay(entities[Max(Naming(ids, entities, i))])]
<1>1. tdata_load(f).trip_ids = ids /\ tdata_load(f).trips = Table(f, "trips")
  BY Loaded, Places DEF Used
<1>2. tdata_apply_gtfsrt(f, entities) = WithDelays(f, delays)
  BY <1>1 DEF tdata_apply_gtfsrt
<1>3. ASSUME NEW i \in DOMAIN Table(f, "trips") PROVE Naming(ids, entities, i) = About(entities, ids[i])
  <2>1. i \in DOMAIN ids /\ i \in Nat /\ i >= 1
    BY DEF IsFile, IsTable
  <2>2. ASSUME NEW k \in Applied(entities)
        PROVE  Index(ids, entities[k].trip_id) = i - 1 <=> entities[k].trip_id = ids[i]
    <3>1. ASSUME Index(ids, entities[k].trip_id) = i - 1 PROVE entities[k].trip_id = ids[i]
      <4>1. i - 1 # NONE /\ i - 1 + 1 = i
        BY <2>1 DEF NONE
      <4> QED
        BY <3>1, <4>1, IndexFound
    <3>2. ASSUME entities[k].trip_id = ids[i] PROVE Index(ids, entities[k].trip_id) = i - 1
      <4>1. PICK m \in Int : m = Index(ids, entities[k].trip_id)
        BY IndexFound
      <4>2. m + 1 \in DOMAIN ids /\ ids[m + 1] = ids[i]
        BY <2>1, <3>2, <4>1, IndexFound
      <4>3. m + 1 = i
        BY <2>1, <4>2 DEF Distinct
      <4> QED
        BY <2>1, <4>1, <4>3
    <3> QED
      BY <3>1, <3>2
  <2> QED
    BY <2>2 DEF Naming, About
<1>4. ASSUME NEW i \in DOMAIN Table(f, "trips")
      PROVE  Table(WithDelays(f, delays), "trips")[i].realtime_delay =
                 IF About(entities, ids[i]) = {} THEN Table(f, "trips")[i].realtime_delay
                 ELSE StoredDelay(entities[Max(About(entities, ids[i]))])
  <2>1. i \in DOMAIN delays <=> About(entities, ids[i]) # {}
    BY <1>3
  <2>2. i \in DOMAIN delays => delays[i] = StoredDelay(entities[Max(About(entities, ids[i]))])
    BY <1>3
  <2> HIDE DEF delays
  <2> QED
    BY <2>1, <2>2, DelaysWritten
<1>5. IsFile(WithDelays(f, delays)) /\ SameTables(WithDelays(f, delays), f)
  BY DelaysWritten
<1> QED
  BY <1>2, <1>4, <1>5

\* Every place in the table of trips is one of a route.
Covered(f) == \A i \in DOMAIN Table(f, "trips") : \E r \in Routes(tdata_load(f)) : i \in TripPlaces(tdata_load(f), r)

\* Clearing leaves no delay.
LEMMA DelaysCleared ==
    ASSUME NEW f, IsFile(f), Covered(f)
    PROVE  /\ IsFile(tdata_clear_gtfsrt(f)) /\ SameTables(tdata_clear_gtfsrt(f), f)
           /\ \A i \in DOMAIN Table(f, "trips") : Table(tdata_clear_gtfsrt(f), "trips")[i].realtime_delay = 0
<1> DEFINE places == UNION {TripPlaces(tdata_load(f), r) : r \in Routes(tdata_load(f))}
           delays == [i \in places |-> 0]
<1>1. tdata_clear_gtfsrt(f) = WithDelays(f, delays)
  BY DEF tdata_clear_gtfsrt
<1>2. \A i \in DOMAIN Table(f, "trips") : i \in DOMAIN delays /\ delays[i] = 0
  BY DEF Covered
<1> HIDE DEF delays
<1> QED
  BY <1>1, <1>2, DelaysWritten

(***************************************************************************)
(* The bytes of a message.                                                 *)
(***************************************************************************)
\* The entities of a message, and what a buffer with some of its pieces may hold.
EntitiesIn(m) == UNION {ToSet(m[k].entities) : k \in DOMAIN m}
BytesOf(m) == [len : Nat, header : BOOLEAN, entities : Seq(EntitiesIn(m))]

LEMMA PieceType ==
    ASSUME NEW m \in Messages, NEW k \in DOMAIN m
    PROVE  /\ Len(m) \in Nat /\ Len(m) >= 1 /\ DOMAIN m = 1 .. Len(m)
           /\ m[k].len \in Nat /\ m[k].header \in BOOLEAN /\ m[k].entities \in Seq(EntitiesIn(m))
           /\ m[k].len = 0 => m[k].entities = << >> /\ ~m[k].header
<1>1. m \in Seq(ToSet(m)) /\ m # << >>
  BY MessagesAssumption
<1>2. Len(m) \in Nat /\ Len(m) >= 1 /\ DOMAIN m = 1 .. Len(m)
  BY <1>1
<1>3. /\ m[k].len \in Nat /\ m[k].header \in BOOLEAN
      /\ m[k].entities \in Seq(ToSet(m[k].entities))
      /\ m[k].len = 0 => m[k].entities = << >> /\ ~m[k].header
  BY MessagesAssumption
<1>4. m[k].entities \in Seq(EntitiesIn(m))
  <2>1. PICK s : s = m[k].entities
    OBVIOUS
  <2>2. s \in Seq(ToSet(s)) /\ ToSet(s) \subseteq EntitiesIn(m)
    BY <1>3, <2>1 DEF EntitiesIn
  <2>3. \A i \in 1 .. Len(s) : s[i] \in EntitiesIn(m)
    BY <2>2 DEF ToSet
  <2>4. s \in [1 .. Len(s) -> EntitiesIn(m)] /\ Len(s) \in Nat
    BY <2>2, <2>3
  <2> QED
    BY <2>1, <2>4
<1> QED
  BY <1>2, <1>3, <1>4

\* What is added to the bytes by a piece.
LEMMA WithFields ==
    ASSUME NEW b, NEW p
    PROVE  With(b, p).len = b.len + p.len /\ With(b, p).entities = b.entities \o p.entities
BY Zenon DEF With

LEMMA WithType ==
    ASSUME NEW m \in Messages, NEW k \in DOMAIN m, NEW b \in BytesOf(m)
    PROVE  With(b, m[k]) \in BytesOf(m)
<1>1. /\ m[k].len \in Nat /\ m[k].header \in BOOLEAN /\ m[k].entities \in Seq(EntitiesIn(m))
  BY PieceType
<1>2. b.len \in Nat /\ b.header \in BOOLEAN /\ b.entities \in Seq(EntitiesIn(m))
  BY DEF BytesOf
<1>3. b.len + m[k].len \in Nat /\ b.entities \o m[k].entities \in Seq(EntitiesIn(m))
  BY <1>1, <1>2
<1>4. (b.header \/ m[k].header) \in BOOLEAN
  OBVIOUS
<1> QED
  BY <1>3, <1>4 DEF With, BytesOf

\* Bytes(m, k) is the bytes of the first k pieces, one after the other.
LEMMA BytesLoop ==
    ASSUME NEW m \in Messages
    PROVE  /\ Bytes(m, 0) = NoBytes
           /\ \A k \in 0 .. Len(m) : Bytes(m, k) \in BytesOf(m)
           /\ \A k \in 1 .. Len(m) : Bytes(m, k) = With(Bytes(m, k - 1), m[k])
<1> DEFINE n == Len(m)
           X == BytesOf(m)
           step == [p \in (1 .. n) \X X |-> With(p[2], m[p[1]])]
           IsFirst(g) == g = [k \in 0 .. n |-> IF k = 0 THEN NoBytes ELSE With(g[k - 1], m[k])]
<1>1. n \in Nat /\ DOMAIN m = 1 .. n
  BY MessagesAssumption
<1>2. NoBytes \in X
  <2>1. << >> \in Seq(EntitiesIn(m))
    OBVIOUS
  <2> QED
    BY <2>1 DEF NoBytes, BytesOf
<1>3. step \in [(1 .. n) \X X -> X]
  BY <1>1, WithType
<1>4. PICK f : IsLoop(f, X, n, NoBytes, step)
  <2> HIDE DEF step, n, X
  <2> QED
    BY <1>1, <1>2, <1>3, LoopExists
<1>5. f \in [0 .. n -> X] /\ f[0] = NoBytes
  BY <1>4 DEF IsLoop
<1>6. ASSUME NEW k \in 1 .. n PROVE f[k] = With(f[k - 1], m[k])
  <2>1. k - 1 \in 0 .. n /\ f[k - 1] \in X
    BY <1>1, <1>5
  <2>2. step[<<k, f[k - 1]>>] = With(f[k - 1], m[k])
    BY <2>1
  <2> HIDE DEF step
  <2> QED
    BY <1>4, <2>2 DEF IsLoop
<1>7. IsFirst(f)
  <2> DEFINE h == [k \in 0 .. n |-> IF k = 0 THEN NoBytes ELSE With(f[k - 1], m[k])]
  <2>1. ASSUME NEW k \in 0 .. n PROVE f[k] = h[k]
    BY <1>1, <1>5, <1>6
  <2> QED
    BY <1>5, <2>1
<1>8. PICK g : IsFirst(g) /\ \A k \in 0 .. n : Bytes(m, k) = g[k]
  <2> DEFINE g == CHOOSE g : IsFirst(g)
  <2>1. IsFirst(g)
    BY <1>7
  <2>2. \A k : Bytes(m, k) = g[k]
    BY DEF Bytes
  <2> QED
    BY <2>1, <2>2
<1>9. g[0] = NoBytes /\ \A k \in 1 .. n : g[k] = With(g[k - 1], m[k])
  BY <1>1, <1>8
<1>10. \A k \in 0 .. n : g[k] \in X
  <2> DEFINE S == {k \in 0 .. n : g[k] \in X}
  <2>1. 0 \in S
    BY <1>1, <1>2, <1>9
  <2>2. ASSUME NEW k \in 0 .. n, k < n, k \in S PROVE k + 1 \in S
    <3>1. PICK j \in 1 .. n : j = k + 1 /\ j - 1 = k
      BY <1>1, <2>2
    <3>2. g[j] = With(g[k], m[j])
      BY <1>9, <3>1
    <3> QED
      BY <1>1, <2>2, <3>1, <3>2, WithType
  <2> HIDE DEF S
  <2>3. \A k \in 0 .. n : k \in S
    BY <1>1, <2>1, <2>2, IndexInduction
  <2> QED
    BY <2>3 DEF S
<1> QED
  BY <1>1, <1>8, <1>9, <1>10

\* What is in one of two sequences is in the two of them joined.
LEMMA ConcatSet ==
    ASSUME NEW E, NEW s \in Seq(E), NEW t \in Seq(E)
    PROVE  ToSet(s) \cup ToSet(t) \subseteq ToSet(s \o t)
<1>1. ASSUME NEW i \in DOMAIN s PROVE i \in DOMAIN (s \o t) /\ (s \o t)[i] = s[i]
  OBVIOUS
<1>2. ASSUME NEW i \in DOMAIN t PROVE \E x \in DOMAIN (s \o t) : (s \o t)[x] = t[i]
  <2>1. Len(s) \in Nat /\ Len(t) \in Nat /\ i \in 1 .. Len(t) /\ Len(s \o t) = Len(s) + Len(t)
    OBVIOUS
  <2>2. PICK x \in Nat : x = Len(s) + i
    BY <2>1
  <2>3. x \in 1 .. Len(s) + Len(t) /\ x > Len(s) /\ x - Len(s) = i
    BY <2>1, <2>2
  <2>4. x \in DOMAIN (s \o t) /\ (s \o t)[x] = t[i]
    BY <2>1, <2>3
  <2> QED
    BY <2>4
<1> QED
  BY <1>1, <1>2 DEF ToSet

\* A message has all the bytes, and all the entities, of its pieces.
LEMMA WholeMessage ==
    ASSUME NEW m \in Messages
    PROVE  /\ Whole(m) \in BytesOf(m)
           /\ \A k \in 0 .. Len(m) : Bytes(m, k).len <= Whole(m).len
           /\ \A e \in EntitiesIn(m) : \E j \in DOMAIN Whole(m).entities : Whole(m).entities[j] = e
<1>1. Len(m) \in Nat /\ DOMAIN m = 1 .. Len(m)
  BY MessagesAssumption
<1>2. PICK n \in Nat : n = Len(m)
  BY <1>1
<1>3. \A k \in 0 .. n : Bytes(m, k) \in BytesOf(m)
  BY <1>2, BytesLoop
<1>4. ASSUME NEW k \in 0 .. n, k < n
      PROVE  /\ Bytes(m, k).len <= Bytes(m, k + 1).len
             /\ ToSet(Bytes(m, k).entities) \cup ToSet(m[k + 1].entities) \subseteq ToSet(Bytes(m, k + 1).entities)
  <2>1. PICK j \in 1 .. n : j = k + 1 /\ j - 1 = k
    BY <1>4
  <2>2. PICK b, p : b \in BytesOf(m) /\ b = Bytes(m, k) /\ p = m[j]
    BY <1>3
  <2>3. /\ p.len \in Nat /\ p.entities \in Seq(EntitiesIn(m))
        /\ b.len \in Nat /\ b.entities \in Seq(EntitiesIn(m))
    BY <1>1, <1>2, <2>2, PieceType DEF BytesOf
  <2>4. Bytes(m, j).len = b.len + p.len /\ Bytes(m, j).entities = b.entities \o p.entities
    <3>1. Bytes(m, j) = With(Bytes(m, j - 1), m[j])
      BY <1>2, BytesLoop
    <3>2. Bytes(m, j) = With(b, p)
      BY <2>1, <2>2, <3>1
    <3> QED
      BY <3>2, WithFields
  <2>5. ToSet(b.entities) \cup ToSet(p.entities) \subseteq ToSet(b.entities \o p.entities)
    BY <2>3, ConcatSet
  <2>6. Bytes(m, k).len <= Bytes(m, j).len
    BY <2>2, <2>3, <2>4
  <2>7. ToSet(Bytes(m, k).entities) \cup ToSet(m[j].entities) \subseteq ToSet(Bytes(m, j).entities)
    BY <2>2, <2>4, <2>5
  <2> QED
    BY <2>1, <2>6, <2>7
<1>5. \A k \in 0 .. n : Bytes(m, k).len <= Bytes(m, n).len
  <2> DEFINE S == {k \in 0 .. n : Bytes(m, k).len <= Bytes(m, n).len}
  <2>1. \A k \in 0 .. n : Bytes(m, k).len \in Nat
    BY <1>3 DEF BytesOf
  <2>2. n \in S
    BY <2>1
  <2>3. ASSUME NEW k \in 0 .. n, k < n, k + 1 \in S PROVE k \in S
    BY <1>4, <2>1, <2>3
  <2> HIDE DEF S
  <2>4. \A k \in 0 .. n : k \in S
    BY <2>2, <2>3, IndexInductionDown
  <2> QED
    BY <2>4 DEF S
<1>6. \A k \in 0 .. n : \A i \in 1 .. k : ToSet(m[i].entities) \subseteq ToSet(Bytes(m, k).entities)
  <2> DEFINE S == {k \in 0 .. n : \A i \in 1 .. k : ToSet(m[i].entities) \subseteq ToSet(Bytes(m, k).entities)}
  <2>1. 0 \in S
    OBVIOUS
  <2>2. ASSUME NEW k \in 0 .. n, k < n, k \in S PROVE k + 1 \in S
    <3>1. ASSUME NEW i \in 1 .. k + 1 PROVE ToSet(m[i].entities) \subseteq ToSet(Bytes(m, k + 1).entities)
      <4>1. i = k + 1 \/ i \in 1 .. k
        OBVIOUS
      <4> QED
        BY <1>4, <2>2, <4>1
    <3> QED
      BY <2>2, <3>1
  <2> HIDE DEF S
  <2>3. \A k \in 0 .. n : k \in S
    BY <2>1, <2>2, IndexInduction
  <2> QED
    BY <2>3 DEF S
<1>7. EntitiesIn(m) \subseteq ToSet(Bytes(m, n).entities)
  <2>1. \A i \in DOMAIN m : ToSet(m[i].entities) \subseteq ToSet(Bytes(m, n).entities)
    BY <1>1, <1>2, <1>6
  <2> QED
    BY <2>1 DEF EntitiesIn
<1>8. Whole(m) = Bytes(m, n)
  BY <1>2 DEF Whole
<1>9. \A e \in EntitiesIn(m) : \E j \in DOMAIN Whole(m).entities : Whole(m).entities[j] = e
  BY <1>7, <1>8 DEF ToSet
<1> QED
  BY <1>2, <1>3, <1>5, <1>8, <1>9

(***************************************************************************)
(* The file that the builder writes.                                       *)
(***************************************************************************)
\* The tables of trips go together, and no trip has a delay.
LEMMA TripTables ==
    ASSUME NEW g, NEW order, NEW tables, tables = Tables(g, order)
    PROVE  /\ Used \subseteq DOMAIN tables
           /\ DOMAIN tables.trips = DOMAIN tables.trip_ids
           /\ \A i \in DOMAIN tables.trips : /\ "realtime_delay" \in DOMAIN tables.trips[i]
                                             /\ tables.trips[i].realtime_delay = 0
<1>1. PICK groups, ids : tables.trip_ids = ids /\ tables.trips = [i \in DOMAIN ids |-> TripStruct(g, groups, ids[i])]
  BY Zenon DEF Tables, Gather
<1>2. Used \subseteq DOMAIN tables
  BY DEF Tables, Used
<1>3. ASSUME NEW t PROVE /\ "realtime_delay" \in DOMAIN TripStruct(g, groups, t)
                         /\ TripStruct(g, groups, t).realtime_delay = 0
  BY DEF TripStruct
<1> QED
  BY <1>1, <1>2, <1>3

\* A new file is one, with the tables at their places.
LEMMA NewFile ==
    ASSUME NEW g, NEW order
    PROVE  /\ IsFile(timetable_dat(g, order))
           /\ \A x \in Used :
                 Table(timetable_dat(g, order), x) = Tables(g, order)[x]
           /\ \A i \in DOMAIN Table(timetable_dat(g, order), "trips") :
                 Table(timetable_dat(g, order), "trips")[i].realtime_delay = 0
<1> DEFINE f == timetable_dat(g, order)
<1>1. PICK tables : tables = Tables(g, order)
  OBVIOUS
<1>2. HeaderWritten = HeaderRead
  BY DEF HeaderWritten, HeaderRead
<1>3. /\ "entries" \in DOMAIN f
      /\ f.entries = [i \in DOMAIN HeaderRead |->
                         IF HeaderRead[i] \in DOMAIN tables THEN tables[HeaderRead[i]] ELSE HeaderRead[i]]
  BY <1>1, <1>2 DEF timetable_dat, write_header, Gather
<1> HIDE DEF f
<1>4. ASSUME NEW x \in Used PROVE Table(f, x) = tables[x]
  <2>1. HeaderPlace[x] \in DOMAIN HeaderRead /\ HeaderRead[HeaderPlace[x]] = x
    BY Places
  <2>2. x \in DOMAIN tables
    BY <1>1, TripTables
  <2> QED
    BY <1>3, <2>1, <2>2 DEF Table
<1>5. Table(f, "trips") = tables.trips /\ Table(f, "trip_ids") = tables.trip_ids
  BY <1>4 DEF Used
<1>6. IsFile(f) /\ \A i \in DOMAIN Table(f, "trips") : Table(f, "trips")[i].realtime_delay = 0
  BY <1>1, <1>3, <1>5, TripTables DEF IsFile
<1> QED
  BY <1>1, <1>4, <1>6 DEF f

(***************************************************************************)
(* The invariant.                                                          *)
(***************************************************************************)
\* The file is the one that was built, but for its delays.
FileInv ==
    /\ feed \in Feeds /\ IsFile(file)
    /\ \E order \in SetToSeqs(bundles(feed)) : SameTables(file, timetable_dat(feed, order))

\* Each trip has a delay that is expected, also while a message is under way.
DelaysInv ==
    /\ DOMAIN expected = DOMAIN feed.trips
    /\ \A i \in DOMAIN Table(file, "trips") :
          Table(file, "trips")[i].realtime_delay \in expected[Table(file, "trip_ids")[i]]

\* The buffer is empty between messages.  Within a message it holds nothing else than
\* pieces of it, and all that have arrived if the message fits.
BufferInv ==
    /\ under_way = << >> \/ under_way \in Messages
    /\ process = "down" => under_way = << >>
    /\ arrived \in 0 .. Len(under_way)
    /\ arrived = Len(under_way) => msg = NoBytes
    /\ arrived < Len(under_way) =>
          /\ msg \in BytesOf(under_way) /\ (msg.len = 0 => msg = NoBytes)
          /\ Fits(under_way) => msg = Bytes(under_way, arrived)

\* What the builder owes the realtime process.
LEMMA TablesBuilt ==
    ASSUME FileInv
    PROVE  /\ IsTable(Table(file, "trip_ids")) /\ Distinct(Table(file, "trip_ids")) /\ Covered(file)
           /\ \A i \in DOMAIN Table(file, "trips") : Table(file, "trip_ids")[i] \in DOMAIN feed.trips
           /\ IsTable(Table(file, "route_ids")) /\ IsTable(Table(file, "stop_ids"))
           /\ \A r \in Routes(td) : ToSet(tdata_stops_for_route(td, r)) \subseteq Nat
<1>1. PICK order \in SetToSeqs(bundles(feed)) : SameTables(file, timetable_dat(feed, order))
  BY DEF FileInv
<1>2. PICK tables : tables = Tables(feed, order)
  OBVIOUS
<1>3. /\ tables.trip_ids \in Seq(DOMAIN feed.trips)
      /\ \A i, j \in DOMAIN tables.trip_ids : tables.trip_ids[i] = tables.trip_ids[j] => i = j
      /\ \A i \in DOMAIN tables.trip_ids : \E r \in Routes(tables) : i \in TripPlaces(tables, r)
      /\ tables.n_routes \in Nat /\ DOMAIN tables.route_ids = 1 .. tables.n_routes
      /\ tables.n_stops \in Nat /\ DOMAIN tables.stop_ids = 1 .. tables.n_stops
      /\ \A r \in Routes(tables) : ToSet(tdata_stops_for_route(tables, r)) \subseteq Stops(tables)
  BY <1>2, TablesAssumption DEF FileInv
<1>4. ASSUME NEW x \in Used \ {"trips"}
      PROVE  Table(file, x) = tables[x] /\ tdata_load(file)[x] = tables[x]
  <2>1. Table(file, x) = tables[x]
    BY <1>1, <1>2, Places, NewFile DEF SameTables
  <2>2. x # "n_agencies"
    BY DEF Used
  <2> QED
    BY <2>1, <2>2, Places, Loaded
<1>5. Table(file, "trip_ids") = tables.trip_ids /\ DOMAIN Table(file, "trips") = DOMAIN tables.trip_ids
  BY <1>4 DEF FileInv, IsFile, Used
<1>6. tdata_load(file).routes = tables.routes /\ tdata_load(file).n_routes = tables.n_routes
  BY <1>4 DEF Used
<1>7. Covered(file)
  BY <1>3, <1>5, <1>6 DEF Covered, TripPlaces, Routes
<1>8. IsTable(tables.trip_ids) /\ Distinct(tables.trip_ids)
  BY <1>3 DEF IsTable, Distinct
<1>9. \A i \in DOMAIN tables.trip_ids : tables.trip_ids[i] \in DOMAIN feed.trips
  BY <1>3
<1>10. IsTable(Table(file, "route_ids")) /\ IsTable(Table(file, "stop_ids"))
  BY <1>3, <1>4 DEF IsTable, Used
<1>11. ASSUME NEW r \in Routes(td) PROVE ToSet(tdata_stops_for_route(td, r)) \subseteq Nat
  <2>1. r \in Routes(tables) /\ td.route_stops = tables.route_stops /\ td.routes = tables.routes
    BY <1>4, <1>6 DEF td, Routes, Used
  <2>2. tdata_stops_for_route(td, r) = tdata_stops_for_route(tables, r)
    BY <2>1 DEF tdata_stops_for_route
  <2>3. Stops(tables) \subseteq Nat
    BY <1>3 DEF Stops
  <2> QED
    BY <1>3, <2>1, <2>2, <2>3
<1> QED
  BY <1>5, <1>7, <1>8, <1>9, <1>10, <1>11

(***************************************************************************)
(* What a message leaves behind.                                           *)
(***************************************************************************)
\* The delays of a file are among those given for its trips.
DelaysIn(f, old) ==
    \A i \in DOMAIN Table(f, "trips") : Table(f, "trips")[i].realtime_delay \in old[Table(f, "trip_ids")[i]]

\* The trips of a file can be found, and are those of old.
TripsOf(f, old) ==
    /\ IsFile(f) /\ IsTable(Table(f, "trip_ids")) /\ Distinct(Table(f, "trip_ids"))
    /\ \A i \in DOMAIN Table(f, "trips") : Table(f, "trip_ids")[i] \in DOMAIN old

\* The entities about a trip are indexes of the list.
LEMMA AboutIndexes ==
    ASSUME NEW E, NEW entities \in Seq(E), NEW id, About(entities, id) # {}
    PROVE  Max(About(entities, id)) \in About(entities, id)
<1>1. PICK n \in Nat : n = Len(entities)
  OBVIOUS
<1>2. About(entities, id) \in SUBSET (0 .. n)
  BY <1>1 DEF About, Applied
<1> QED
  BY <1>2, MaxOf

\* Of a message that is applied as a whole the last mention of each trip remains.
LEMMA WholeDelays ==
    ASSUME NEW f, NEW old, TripsOf(f, old), DelaysIn(f, old), NEW m \in Messages, NEW whole, whole,
           NEW g, g = tdata_apply_gtfsrt(f, Whole(m).entities)
    PROVE  IsFile(g) /\ SameTables(g, f) /\ DelaysIn(g, Expect(old, m, whole))
<1>1. PICK all \in Seq(EntitiesIn(m)) : all = Whole(m).entities
  BY WholeMessage DEF BytesOf
<1>2. /\ IsFile(g) /\ SameTables(g, f)
      /\ \A i \in DOMAIN Table(f, "trips") :
            Table(g, "trips")[i].realtime_delay =
                IF About(all, Table(f, "trip_ids")[i]) = {} THEN Table(f, "trips")[i].realtime_delay
                ELSE StoredDelay(all[Max(About(all, Table(f, "trip_ids")[i]))])
  BY <1>1, MessageApplied DEF TripsOf
<1>3. Table(g, "trip_ids") = Table(f, "trip_ids") /\ DOMAIN Table(g, "trips") = DOMAIN Table(f, "trips")
  BY <1>2, Places DEF SameTables, IsFile, TripsOf, Used
<1>4. ASSUME NEW i \in DOMAIN Table(f, "trips")
      PROVE  Table(g, "trips")[i].realtime_delay \in Expect(old, m, whole)[Table(f, "trip_ids")[i]]
  <2>1. PICK t \in DOMAIN old : t = Table(f, "trip_ids")[i]
    BY DEF TripsOf
  <2> DEFINE said == {k \in DOMAIN all : all[k].trip_id = t /\ all[k].usable}
             applied == {k \in said : \A j \in 1 .. k : all[j].usable}
  <2>2. applied = About(all, t)
    <3>1. \A k \in DOMAIN all : k \in 1 .. k
      OBVIOUS
    <3> QED
      BY <3>1 DEF About, Applied
  <2>3. Expect(old, m, whole)[t] = IF applied = {} THEN old[t] ELSE {StoredDelay(all[Max(applied)])}
    BY <1>1 DEF Expect
  <2> HIDE DEF applied
  <2>4. CASE About(all, t) = {}
    BY <1>2, <2>1, <2>2, <2>3, <2>4 DEF DelaysIn
  <2>5. CASE About(all, t) # {}
    BY <1>2, <2>1, <2>2, <2>3, <2>5
  <2> QED
    BY <2>4, <2>5
<1> QED
  BY <1>2, <1>3, <1>4 DEF DelaysIn

\* Of a message of which a part is applied, or nothing, any mention may remain.
LEMMA PartDelays ==
    ASSUME NEW f, NEW old, TripsOf(f, old), DelaysIn(f, old), NEW m \in Messages, NEW whole, ~whole,
           NEW b \in BytesOf(m), NEW g, g \in {f, tdata_apply_gtfsrt(f, b.entities)}
    PROVE  IsFile(g) /\ SameTables(g, f) /\ DelaysIn(g, Expect(old, m, whole))
<1>1. PICK all : all = Whole(m).entities
  OBVIOUS
<1>2. ASSUME NEW t \in DOMAIN old
      PROVE  Expect(old, m, whole)[t] =
                 old[t] \cup {StoredDelay(all[k]) : k \in {k \in DOMAIN all : all[k].trip_id = t /\ all[k].usable}}
  BY <1>1 DEF Expect
<1>3. CASE g = f
  <2>1. \A i \in DOMAIN Table(f, "trips") : Table(f, "trips")[i].realtime_delay \in Expect(old, m, whole)[Table(f, "trip_ids")[i]]
    BY <1>2 DEF TripsOf, DelaysIn
  <2> QED
    BY <1>3, <2>1 DEF TripsOf, SameTables, DelaysIn
<1>4. CASE g = tdata_apply_gtfsrt(f, b.entities)
  <2>1. PICK es \in Seq(EntitiesIn(m)) : es = b.entities
    BY DEF BytesOf
  <2>2. /\ IsFile(g) /\ SameTables(g, f)
        /\ \A i \in DOMAIN Table(f, "trips") :
              Table(g, "trips")[i].realtime_delay =
                  IF About(es, Table(f, "trip_ids")[i]) = {} THEN Table(f, "trips")[i].realtime_delay
                  ELSE StoredDelay(es[Max(About(es, Table(f, "trip_ids")[i]))])
    BY <1>4, <2>1, MessageApplied DEF TripsOf
  <2>3. Table(g, "trip_ids") = Table(f, "trip_ids") /\ DOMAIN Table(g, "trips") = DOMAIN Table(f, "trips")
    BY <2>2, Places DEF SameTables, IsFile, TripsOf, Used
  <2>4. ASSUME NEW i \in DOMAIN Table(f, "trips")
        PROVE  Table(g, "trips")[i].realtime_delay \in Expect(old, m, whole)[Table(f, "trip_ids")[i]]
    <3>1. PICK t \in DOMAIN old : t = Table(f, "trip_ids")[i]
      BY DEF TripsOf
    <3>2. CASE About(es, t) = {}
      BY <1>2, <2>2, <3>1, <3>2 DEF DelaysIn
    <3>3. CASE About(es, t) # {}
      <4>1. PICK k \in About(es, t) : k = Max(About(es, t))
        BY <3>3, AboutIndexes
      <4>2. k \in DOMAIN es /\ k \in 1 .. k /\ es[k].trip_id = t /\ es[k].usable /\ es[k] \in EntitiesIn(m)
        BY DEF About, Applied
      <4>3. PICK j \in DOMAIN all : all[j] = es[k]
        BY <1>1, <4>2, WholeMessage
      <4>4. Table(g, "trips")[i].realtime_delay = StoredDelay(all[j]) /\ all[j].trip_id = t /\ all[j].usable
        BY <2>2, <3>1, <3>3, <4>1, <4>2, <4>3
      <4> QED
        BY <1>2, <3>1, <4>4
    <3> QED
      BY <3>2, <3>3
  <2> QED
    BY <2>2, <2>3, <2>4 DEF DelaysIn
<1> QED
  BY <1>3, <1>4

\* Unpacking what the buffer holds at the end of a message.
LEMMA Unpacked ==
    ASSUME NEW f, NEW old, TripsOf(f, old), DelaysIn(f, old), under_way \in Messages,
           NEW b \in BytesOf(under_way), Fits(under_way) => b = Whole(under_way),
           NEW g \in AfterUnpacking(f, b)
    PROVE  IsFile(g) /\ SameTables(g, f) /\ DelaysIn(g, Expect(old, under_way, Fits(under_way)))
<1>1. CASE Fits(under_way)
  <2>1. g = tdata_apply_gtfsrt(f, Whole(under_way).entities)
    BY <1>1 DEF AfterUnpacking
  <2> QED
    BY <1>1, <2>1, WholeDelays
<1>2. CASE ~Fits(under_way)
  <2>1. g \in {f, tdata_apply_gtfsrt(f, b.entities)}
    BY DEF AfterUnpacking
  <2> QED
    BY <1>2, <2>1, PartDelays
<1> QED
  BY <1>1, <1>2

(***************************************************************************)
(* The steps.                                                              *)
(***************************************************************************)
\* A file with the same tables is still the one that was built.
LEMMA FileKept ==
    ASSUME FileInv, feed' = feed, IsFile(file'), SameTables(file', file)
    PROVE  FileInv'
BY DEF FileInv, SameTables, Table, IsFile

\* Nothing is added to the bytes by a piece that has none.
LEMMA WithNothing ==
    ASSUME NEW m \in Messages, NEW k \in DOMAIN m, m[k].len = 0
    PROVE  With(NoBytes, m[k]) = NoBytes
<1>1. m[k].entities = << >> /\ m[k].header = FALSE
  BY PieceType
<1>2. << >> \o << >> = << >> /\ 0 + 0 = 0
  OBVIOUS
<1> QED
  BY <1>1, <1>2 DEF With, NoBytes

\* A piece that ends no message is dropped or kept, and the file is left alone.
LEMMA PieceArrives ==
    ASSUME BufferInv, Receive, arrived + 1 < Len(under_way)
    PROVE  BufferInv' /\ UNCHANGED <<file, expected>>
<1> DEFINE m == under_way
           n == arrived + 1
           piece == m[n]
<1>1. /\ m \in Messages /\ n \in DOMAIN m /\ n \in 1 .. Len(m) /\ n - 1 = arrived /\ n < Len(m) /\ arrived < Len(m)
      /\ Len(m) \in Nat /\ DOMAIN m = 1 .. Len(m)
  <2>1. m # << >>
    BY DEF Receive, BufferInv
  <2>2. m \in Messages
    BY <2>1 DEF BufferInv
  <2> QED
    BY <2>2, MessagesAssumption DEF BufferInv
<1>2. ~(piece.final /\ ~piece.remaining)
  BY <1>1, MessagesAssumption
<1>3. DropPart(piece) \/ Fragment(piece)
  BY <1>2 DEF Receive, SingleFrame, LastFrame
<1>4. arrived' = n /\ UNCHANGED <<under_way, process, expected>> /\ process = "connected"
  <2>1. n # Len(m)
    BY <1>1
  <2> QED
    BY <2>1 DEF Receive
<1>5. UNCHANGED file
  BY <1>3 DEF DropPart, Fragment
<1>6. /\ msg \in BytesOf(m) /\ (msg.len = 0 => msg = NoBytes)
      /\ Fits(m) => msg = Bytes(m, arrived)
  BY <1>1 DEF BufferInv
<1> HIDE DEF m, n, piece
<1>7. /\ msg' \in BytesOf(m) /\ (msg'.len = 0 => msg' = NoBytes)
      /\ Fits(m) => msg' = Bytes(m, n)
  <2>1. CASE DropPart(piece)
    <3>1. ~Fits(m)
      BY <1>1, <2>1 DEF Fits, DropPart, piece
    <3> QED
      BY <1>6, <2>1, <3>1 DEF DropPart
  <2>2. CASE Fragment(piece)
    <3>1. With(msg, piece) \in BytesOf(m) /\ NoBytes \in BytesOf(m)
      <4>1. With(msg, piece) \in BytesOf(m)
        BY <1>1, <1>6, WithType DEF piece
      <4>2. Bytes(m, 0) = NoBytes /\ 0 \in 0 .. Len(m)
        BY <1>1, BytesLoop
      <4> QED
        BY <1>1, <4>1, <4>2, BytesLoop
    <3>2. With(msg, piece).len = msg.len + piece.len /\ msg.len \in Nat /\ piece.len \in Nat
      BY <1>1, <1>6, WithFields, PieceType DEF BytesOf, piece
    <3>3. With(msg, piece).len = 0 => With(msg, piece) = NoBytes
      <4>1. SUFFICES ASSUME With(msg, piece).len = 0 PROVE With(msg, piece) = NoBytes
        OBVIOUS
      <4>2. msg.len = 0 /\ piece.len = 0
        BY <3>2, <4>1
      <4> QED
        BY <1>1, <1>6, <4>2, WithNothing DEF piece
    <3>4. msg' = IF msg.len + piece.len > MAX_MESSAGE_LENGTH THEN NoBytes ELSE With(msg, piece)
      BY <2>2 DEF Fragment, msg_add_frame
    <3>5. ASSUME Fits(m) PROVE msg' = Bytes(m, n)
      <4>1. Bytes(m, n) = With(Bytes(m, n - 1), m[n])
        BY <1>1, BytesLoop
      <4>2. Bytes(m, n) = With(msg, piece)
        BY <1>1, <1>6, <3>5, <4>1 DEF piece
      <4>3. Bytes(m, n).len <= Whole(m).len /\ Whole(m).len <= MAX_MESSAGE_LENGTH /\ Whole(m).len \in Nat
        <5>1. n \in 0 .. Len(m) /\ Len(m) # 1
          BY <1>1
        <5>2. Whole(m).len \in Nat /\ Bytes(m, n).len <= Whole(m).len
          BY <1>1, <5>1, WholeMessage DEF BytesOf
        <5> QED
          BY <3>5, <5>1, <5>2 DEF Fits
      <4>4. ~(msg.len + piece.len > MAX_MESSAGE_LENGTH)
        BY <3>2, <4>2, <4>3, MessagesAssumption
      <4> QED
        BY <3>4, <4>2, <4>4
    <3> QED
      BY <3>1, <3>3, <3>4, <3>5 DEF NoBytes
  <2> QED
    BY <1>3, <2>1, <2>2
<1>8. BufferInv'
  <2>1. under_way' = m /\ arrived' = n /\ process' # "down"
    BY <1>4 DEF m
  <2>2. (Fits(m) => msg' = Bytes(m, n)) => (Fits(under_way) => msg = Bytes(under_way, arrived))'
    BY <2>1 DEF Fits, Whole, Bytes
  <2>3. (msg' \in BytesOf(m)) => (msg \in BytesOf(under_way))'
    BY <2>1 DEF BytesOf, EntitiesIn
  <2> QED
    BY <1>1, <1>7, <2>1, <2>2, <2>3 DEF BufferInv
<1> QED
  BY <1>4, <1>5, <1>8


\* The piece that ends a message has it applied, and leaves an empty buffer.
LEMMA MessageEnds ==
    ASSUME FileInv, DelaysInv, BufferInv, Receive, arrived + 1 = Len(under_way)
    PROVE  FileInv' /\ DelaysInv' /\ BufferInv' /\ SameTables(file', file)
<1> DEFINE m == under_way
           n == arrived + 1
           piece == m[n]
<1>1. /\ m \in Messages /\ n = Len(m) /\ n \in DOMAIN m /\ n \in 1 .. Len(m) /\ n - 1 = arrived /\ arrived < Len(m)
      /\ Len(m) \in Nat /\ DOMAIN m = 1 .. Len(m)
  <2>1. m # << >>
    BY DEF Receive, BufferInv
  <2>2. m \in Messages
    BY <2>1 DEF BufferInv
  <2> QED
    BY <2>2, MessagesAssumption DEF BufferInv
<1>2. piece.final /\ ~piece.remaining
  BY <1>1, MessagesAssumption
<1>3. SingleFrame(piece) \/ LastFrame(piece)
  BY <1>2 DEF Receive, DropPart, Fragment
<1>4. /\ arrived' = n /\ UNCHANGED <<feed, under_way, process>> /\ process = "connected"
      /\ expected' = Expect(expected, m, Fits(m))
  BY <1>1 DEF Receive
<1>5. /\ msg \in BytesOf(m) /\ (msg.len = 0 => msg = NoBytes)
      /\ Fits(m) => msg = Bytes(m, arrived)
  BY <1>1 DEF BufferInv
<1>6. TripsOf(file, expected) /\ DelaysIn(file, expected)
  BY TablesBuilt DEF TripsOf, DelaysIn, FileInv, DelaysInv
<1>7. PICK g : g = file'
  OBVIOUS
<1>8. NoBytes \in BytesOf(m) /\ Bytes(m, 0) = NoBytes
  <2>1. Bytes(m, 0) = NoBytes /\ 0 \in 0 .. Len(m)
    BY <1>1, BytesLoop
  <2> QED
    BY <1>1, <2>1, BytesLoop
<1>9. Bytes(m, n) = With(Bytes(m, arrived), piece) /\ Whole(m) = Bytes(m, n)
  BY <1>1, BytesLoop DEF Whole
<1>10. ASSUME NEW b, b = With(msg, piece)
       PROVE  b \in BytesOf(m) /\ (Fits(m) => b = Whole(m))
  <2>1. b \in BytesOf(m)
    BY <1>1, <1>5, <1>10, WithType
  <2>2. Fits(m) => b = Whole(m)
    <3> HIDE DEF piece, n, m
    <3> QED
      BY <1>5, <1>9, <1>10
  <2> QED
    BY <2>1, <2>2
<1>11. msg' = NoBytes /\ IsFile(g) /\ SameTables(g, file) /\ DelaysIn(g, Expect(expected, m, Fits(m)))
  <2>1. CASE SingleFrame(piece) /\ piece.len > 0
    <3>1. msg = NoBytes /\ msg' = NoBytes /\ g \in AfterUnpacking(file, With(NoBytes, piece))
      BY <1>5, <1>7, <2>1 DEF SingleFrame
    <3> QED
      BY <1>1, <1>6, <1>10, <3>1, Unpacked
  <2>2. CASE SingleFrame(piece) /\ ~(piece.len > 0)
    <3>1. msg = NoBytes /\ msg' = NoBytes /\ g = file
      BY <1>5, <1>7, <2>2 DEF SingleFrame
    <3>2. piece.len = 0
      BY <1>1, <2>2, PieceType
    <3>3. With(NoBytes, piece) = NoBytes
      BY <1>1, <3>2, WithNothing
    <3>4. CASE Fits(m)
      <4>1. Whole(m).entities = << >>
        BY <1>10, <3>1, <3>3, <3>4 DEF NoBytes
      <4>2. \A t \in DOMAIN expected : Expect(expected, m, Fits(m))[t] = expected[t]
        <5>1. ASSUME NEW all, all = << >> PROVE DOMAIN all = {}
          BY <5>1
        <5> QED
          BY <3>4, <4>1, <5>1 DEF Expect
      <4> QED
        BY <1>6, <3>1, <4>2 DEF TripsOf, DelaysIn, SameTables
    <3>5. CASE ~Fits(m)
      BY <1>1, <1>6, <1>8, <3>1, <3>5, PartDelays
    <3> QED
      BY <3>4, <3>5
  <2>3. CASE LastFrame(piece)
    <3>1. msg.len > 0 /\ msg' = NoBytes /\ g \in AfterUnpacking(file, msg_add_frame(piece))
      BY <1>7, <2>3 DEF LastFrame
    <3>2. msg_add_frame(piece) \in BytesOf(m)
      BY <1>8, <1>10 DEF msg_add_frame
    <3>3. Fits(m) => msg_add_frame(piece) = Whole(m)
      <4>1. SUFFICES ASSUME Fits(m) PROVE msg_add_frame(piece) = Whole(m)
        OBVIOUS
      <4>2. Len(m) # 1
        <5>1. SUFFICES ASSUME Len(m) = 1 PROVE FALSE
          OBVIOUS
        <5>2. arrived = 0
          BY <1>1, <5>1 DEF BufferInv
        <5>3. msg = NoBytes
          BY <1>5, <1>8, <4>1, <5>2
        <5> QED
          BY <3>1, <5>3 DEF NoBytes
      <4>3. With(msg, piece) = Whole(m) /\ Whole(m).len <= MAX_MESSAGE_LENGTH
        BY <1>10, <4>1, <4>2 DEF Fits
      <4>4. With(msg, piece).len = msg.len + piece.len /\ Whole(m).len \in Nat
        BY <1>1, WithFields, WholeMessage DEF BytesOf
      <4>5. ~(msg.len + piece.len > MAX_MESSAGE_LENGTH)
        <5> HIDE DEF piece, m
        <5> QED
          BY <4>3, <4>4, MessagesAssumption
      <4> QED
        BY <4>3, <4>5 DEF msg_add_frame
    <3> QED
      BY <1>1, <1>6, <3>1, <3>2, <3>3, Unpacked
  <2> QED
    BY <1>3, <2>1, <2>2, <2>3
<1>12. IsFile(file') /\ SameTables(file', file) /\ DelaysIn(file', Expect(expected, m, Fits(m)))
  BY <1>7, <1>11
<1>13. FileInv'
  BY <1>4, <1>12, FileKept
<1>14. DelaysInv'
  <2>1. DOMAIN Expect(expected, m, Fits(m)) = DOMAIN feed.trips
    BY DEF Expect, DelaysInv
  <2>2. DelaysIn(file', expected')
    BY <1>4, <1>12
  <2> QED
    BY <1>4, <2>1, <2>2 DEF DelaysInv, DelaysIn, Table
<1>15. BufferInv'
  <2>1. under_way' = m /\ arrived' = n /\ process' # "down" /\ msg' = NoBytes
    BY <1>4, <1>11
  <2> QED
    BY <1>1, <2>1 DEF BufferInv
<1> QED
  BY <1>12, <1>13, <1>14, <1>15

\* A process that ends, ends a message early: the buffer goes with it, the file stays.
LEMMA ConnectionSteps ==
    ASSUME FileInv, DelaysInv, BufferInv, NEW m \in Messages, Connect \/ SendMessage(m) \/ Close
    PROVE  FileInv' /\ DelaysInv' /\ BufferInv'
<1>1. UNCHANGED <<feed, file, expected>>
  BY DEF Connect, SendMessage, Close
<1>2. FileInv' /\ DelaysInv'
  BY <1>1 DEF FileInv, DelaysInv, Table
<1>3. ASSUME under_way' = << >>, arrived' = 0, msg' = NoBytes PROVE BufferInv'
  <2>1. PICK e : e = << >> /\ Len(e) = 0
    OBVIOUS
  <2>2. under_way' = e /\ 0 \in 0 .. Len(e) /\ ~(0 < Len(e))
    BY <1>3, <2>1
  <2> QED
    BY <1>3, <2>1, <2>2 DEF BufferInv
<1>4. CASE Connect
  <2>1. under_way = << >> /\ under_way' = << >> /\ msg' = NoBytes /\ arrived' = arrived
    BY <1>4 DEF Connect, BufferInv
  <2>2. arrived = 0
    BY <2>1 DEF BufferInv
  <2> QED
    BY <1>2, <1>3, <2>1, <2>2
<1>5. CASE SendMessage(m)
  <2>1. /\ under_way' = m /\ arrived' = 0 /\ process' # "down" /\ msg' = msg /\ msg = NoBytes
    BY <1>5 DEF SendMessage, BufferInv
  <2>2. Len(m) \in Nat /\ Len(m) >= 1 /\ 0 \in 0 .. Len(m)
    BY MessagesAssumption
  <2>3. Bytes(m, 0) = NoBytes /\ NoBytes \in BytesOf(m)
    BY <2>2, BytesLoop
  <2>4. msg' = Bytes(m, 0)
    BY <2>1, <2>3
  <2>5. (Fits(under_way) => msg = Bytes(under_way, arrived))'
    BY <2>1, <2>4 DEF Bytes
  <2>6. (msg \in BytesOf(under_way) /\ (msg.len = 0 => msg = NoBytes))'
    BY <2>1, <2>3 DEF BytesOf, EntitiesIn
  <2>7. (under_way \in Messages /\ process # "down" /\ arrived \in 0 .. Len(under_way) /\ arrived # Len(under_way))'
    BY <2>1, <2>2
  <2> QED
    BY <1>2, <2>5, <2>6, <2>7 DEF BufferInv
<1>6. CASE Close
  BY <1>2, <1>3, <1>6 DEF Close
<1> QED
  BY <1>4, <1>5, <1>6

\* The test program leaves no delay but those of its message, whatever is under way.
LEMMA TesterStep ==
    ASSUME FileInv, DelaysInv, BufferInv, NEW m \in Messages \cup {NULL}, NEW a, Tester(m, a)
    PROVE  FileInv' /\ DelaysInv' /\ BufferInv' /\ SameTables(file', file)
<1>1. BufferInv'
  <2>1. UNCHANGED <<process, msg, under_way, arrived>>
    BY DEF Tester
  <2> QED
    BY <2>1 DEF BufferInv, BytesOf, EntitiesIn, Fits, Whole, Bytes
<1>2. CASE m = NULL
  <2>1. UNCHANGED <<feed, file, expected>>
    BY <1>2 DEF Tester
  <2> QED
    BY <1>1, <2>1 DEF FileInv, DelaysInv, Table, SameTables
<1>3. CASE m # NULL
  <2>1. /\ file' = tdata_apply_gtfsrt(tdata_clear_gtfsrt(file), Whole(m).entities)
        /\ expected' = Expect([t \in DOMAIN expected |-> {0}], m, TRUE)
        /\ feed' = feed /\ m \in Messages
    BY <1>3 DEF Tester
  <2>2. PICK c : c = tdata_clear_gtfsrt(file)
    OBVIOUS
  <2>3. PICK old : old = [t \in DOMAIN expected |-> {0}]
    OBVIOUS
  <2>4. /\ IsFile(c) /\ SameTables(c, file)
        /\ \A i \in DOMAIN Table(file, "trips") : Table(c, "trips")[i].realtime_delay = 0
    BY <2>2, TablesBuilt, DelaysCleared DEF FileInv
  <2>5. Table(c, "trip_ids") = Table(file, "trip_ids") /\ DOMAIN Table(c, "trips") = DOMAIN Table(file, "trips")
    BY <2>4, Places DEF SameTables, IsFile, FileInv, Used
  <2>6. TripsOf(c, old) /\ DelaysIn(c, old)
    BY <2>3, <2>4, <2>5, TablesBuilt DEF TripsOf, DelaysIn, DelaysInv
  <2>7. PICK g : g = tdata_apply_gtfsrt(c, Whole(m).entities)
    OBVIOUS
  <2>8. IsFile(g) /\ SameTables(g, c) /\ DelaysIn(g, Expect(old, m, TRUE))
    BY <2>1, <2>6, <2>7, WholeDelays
  <2>9. IsFile(file') /\ SameTables(file', file) /\ DelaysIn(file', Expect(old, m, TRUE))
    <3>1. file' = g
      BY <2>1, <2>2, <2>7
    <3>2. SameTables(g, file)
      BY <2>4, <2>8 DEF SameTables
    <3> QED
      BY <2>8, <3>1, <3>2
  <2>10. FileInv'
    BY <2>1, <2>9, FileKept
  <2>11. DelaysInv'
    <3>1. DOMAIN expected' = DOMAIN feed.trips /\ expected' = Expect(old, m, TRUE)
      BY <2>1, <2>3 DEF Expect, DelaysInv
    <3> QED
      BY <2>1, <2>9, <3>1 DEF DelaysInv, DelaysIn, Table
  <2> QED
    BY <1>1, <2>9, <2>10, <2>11
<1> QED
  BY <1>2, <1>3

\* In a new file no trip is delayed.
LEMMA Begins ==
    ASSUME Init
    PROVE  FileInv /\ DelaysInv /\ BufferInv
<1>1. PICK order \in SetToSeqs(bundles(feed)) : file = timetable_dat(feed, order)
  BY DEF Init
<1>2. FileInv
  BY <1>1, NewFile DEF Init, FileInv, SameTables
<1>3. DelaysInv
  BY <1>1, <1>2, NewFile, TablesBuilt DEF Init, DelaysInv
<1>4. BufferInv
  <2>1. Len(<< >>) = 0 /\ 0 \in 0 .. 0
    OBVIOUS
  <2> QED
    BY <2>1 DEF Init, BufferInv
<1> QED
  BY <1>2, <1>3, <1>4

\* No step breaks the invariant, or writes anything but delays.
LEMMA Step ==
    ASSUME FileInv, DelaysInv, BufferInv, Next
    PROVE  FileInv' /\ DelaysInv' /\ BufferInv' /\ SameTables(file', file)
<1>1. CASE Connect \/ Close
  <2>1. SameTables(file', file)
    BY <1>1 DEF Connect, Close, SameTables
  <2>2. CASE Messages = {}
    <3>1. under_way = << >> /\ arrived = 0
      <4>1. under_way = << >>
        BY <2>2 DEF BufferInv
      <4> QED
        BY <4>1 DEF BufferInv
    <3>2. UNCHANGED <<feed, file, expected>> /\ under_way' = << >> /\ arrived' = 0 /\ msg' = NoBytes
      BY <1>1, <3>1 DEF Connect, Close
    <3>3. PICK e : e = << >> /\ Len(e) = 0
      OBVIOUS
    <3>4. under_way' = e /\ 0 \in 0 .. Len(e) /\ ~(0 < Len(e))
      BY <3>2, <3>3
    <3> QED
      BY <2>1, <3>2, <3>3, <3>4 DEF FileInv, DelaysInv, BufferInv, Table
  <2>3. CASE Messages # {}
    BY <1>1, <2>1, <2>3, ConnectionSteps
  <2> QED
    BY <2>2, <2>3
<1>2. CASE \E m \in Messages : SendMessage(m)
  <2>1. SameTables(file', file)
    BY <1>2 DEF SendMessage, SameTables
  <2> QED
    BY <1>2, <2>1, ConnectionSteps
<1>3. CASE Receive
  <2>1. arrived + 1 < Len(under_way) \/ arrived + 1 = Len(under_way)
    <3>1. arrived \in Nat /\ Len(under_way) \in Nat /\ arrived < Len(under_way)
      <4>1. under_way \in Seq(ToSet(under_way))
        BY <1>3, MessagesAssumption DEF BufferInv, Receive
      <4> QED
        BY <1>3, <4>1 DEF BufferInv, Receive
    <3> QED
      BY <3>1
  <2>2. CASE arrived + 1 < Len(under_way)
    <3>1. BufferInv' /\ UNCHANGED <<feed, file, expected>>
      BY <1>3, <2>2, PieceArrives DEF Receive
    <3> QED
      BY <3>1 DEF FileInv, DelaysInv, Table, SameTables
  <2> QED
    BY <1>3, <2>1, <2>2, MessageEnds
<1>4. CASE \E m \in Messages \cup {NULL}, a \in AlertMessages \cup {NULL} : Tester(m, a)
  BY <1>4, TesterStep
<1> QED
  BY <1>1, <1>2, <1>3, <1>4 DEF Next

\* The three parts of the invariant hold throughout, so that the buffer of the realtime process
\* never holds anything of an earlier message when a new one begins (realtime.c:59-129).
THEOREM RealtimeInvariant == Spec => [](FileInv /\ DelaysInv /\ BufferInv)
<1>1. Init => FileInv /\ DelaysInv /\ BufferInv
  BY Begins
<1>2. FileInv /\ DelaysInv /\ BufferInv /\ [Next]_vars => (FileInv /\ DelaysInv /\ BufferInv)'
  <2>1. CASE UNCHANGED vars
    BY <2>1 DEF vars, FileInv, DelaysInv, BufferInv, Table, BytesOf, EntitiesIn, Fits, Whole, Bytes
  <2> QED
    BY <2>1, Step
<1> QED
  BY <1>1, <1>2, PTL DEF Spec

\* Between messages each trip has the delay that the last message that named it gave it, for
\* all feeds and messages: nothing of a message that was cut off, was too long or was left in
\* the buffer gets into the delays of the next (realtime.c:59-129, tdata.c:476-508).
THEOREM DelaysAsSent == Spec => []DelayAsSent
<1>1. FileInv /\ DelaysInv /\ BufferInv => DelayAsSent
  <2>1. td.trips = Table(file, "trips") /\ td.trip_ids = Table(file, "trip_ids")
    BY Loaded, Places DEF td, Used
  <2> QED
    BY <2>1 DEF DelaysInv, DelayAsSent
<1> QED
  BY <1>1, RealtimeInvariant, PTL

(***************************************************************************)
(* Alerts.                                                                 *)
(***************************************************************************)
\* Alerts hold the indexes of what they were sent with, in a file that has not changed since.
AlertsInv ==
    \A a \in ToSet(alerts) : \A x \in a.informed : \E y \in a.source.informed :
        /\ x.route = IndexOrNull(Table(file, "route_ids"), y.route)
        /\ x.stop = IndexOrNull(Table(file, "stop_ids"), y.stop)

\* The ids of routes and stops have a table.
LEMMA IdsLoaded == td.route_ids = Table(file, "route_ids") /\ td.stop_ids = Table(file, "stop_ids")
BY Loaded, Places DEF td, Used

\* Reading alerts.
LEMMA AlertsRead ==
    ASSUME NEW m, NEW a \in ToSet(tdata_apply_gtfsrt_alerts(m)), NEW x \in a.informed
    PROVE  \E y \in a.source.informed : /\ x.route = IndexOrNull(td.route_ids, y.route)
                                        /\ x.stop = IndexOrNull(td.stop_ids, y.stop)
<1> DEFINE Told(k) == {[route |-> IndexOrNull(td.route_ids, y.route), stop |-> IndexOrNull(td.stop_ids, y.stop),
                        trip |-> IndexOrNull(td.trip_ids, y.trip)] : y \in m[k].informed}
<1>1. CASE \E e \in ToSet(m) : ~e.alert
  <2>1. tdata_apply_gtfsrt_alerts(m) = << >>
    BY <1>1 DEF tdata_apply_gtfsrt_alerts
  <2>2. ToSet(<< >>) = {}
    BY DEF ToSet
  <2> QED
    BY <2>1, <2>2
<1>2. CASE ~ \E e \in ToSet(m) : ~e.alert
  <2>1. tdata_apply_gtfsrt_alerts(m) = [k \in DOMAIN m |-> [informed |-> Told(k), source |-> m[k]]]
    BY <1>2 DEF tdata_apply_gtfsrt_alerts
  <2> HIDE DEF Told
  <2>2. PICK k \in DOMAIN m : a = [informed |-> Told(k), source |-> m[k]]
    BY <2>1 DEF ToSet
  <2>3. a.informed = Told(k) /\ a.source = m[k]
    BY <2>2
  <2>4. PICK y \in m[k].informed :
           x = [route |-> IndexOrNull(td.route_ids, y.route), stop |-> IndexOrNull(td.stop_ids, y.stop),
                trip |-> IndexOrNull(td.trip_ids, y.trip)]
    BY <2>3 DEF Told
  <2> QED
    BY <2>3, <2>4
<1> QED
  BY <1>1, <1>2

\* What an index stands for, where a route or stop is looked for.
LEMMA IndexStandsFor ==
    ASSUME NEW ids, IsTable(ids), NEW id, NEW i \in Nat, IndexOrNull(ids, id) \in {NULL, i}
    PROVE  id \in {NULL, At(ids, i)}
<1>1. CASE id = NULL
  BY <1>1
<1>2. CASE id # NULL
  <2>1. Index(ids, id) = i /\ i # NONE
    <3>1. IndexOrNull(ids, id) = Index(ids, id) /\ Index(ids, id) \in Int /\ i # NONE
      BY <1>2, IndexFound DEF IndexOrNull, NONE
    <3> QED
      BY <3>1, NullAssumption
  <2> QED
    BY <2>1, IndexFound DEF At
<1> QED
  BY <1>1, <1>2

\* A step leaves alerts alone, or reads new ones with the ids of the file.
LEMMA AlertsStep ==
    ASSUME AlertsInv, Next, SameTables(file', file)
    PROVE  AlertsInv'
<1>1. PICK f, routes, stops :
         f = file' /\ routes = Table(f, "route_ids") /\ stops = Table(f, "stop_ids")
  OBVIOUS
<1>2. routes = Table(file, "route_ids") /\ stops = Table(file, "stop_ids")
  BY <1>1, Places DEF SameTables, Used
<1>3. ASSUME NEW a \in ToSet(alerts'), NEW x \in a.informed
      PROVE  \E y \in a.source.informed : x.route = IndexOrNull(routes, y.route) /\ x.stop = IndexOrNull(stops, y.stop)
  <2>1. alerts' = alerts \/ alerts' = << >> \/ \E m : alerts' = tdata_apply_gtfsrt_alerts(m)
    BY DEF Next, Connect, SendMessage, Receive, Close, Tester
  <2>2. CASE alerts' = alerts
    BY <1>2, <1>3, <2>2 DEF AlertsInv
  <2>3. CASE alerts' = << >>
    BY <1>3, <2>3 DEF ToSet
  <2>4. CASE \E m : alerts' = tdata_apply_gtfsrt_alerts(m)
    BY <1>2, <1>3, <2>4, AlertsRead, IdsLoaded
  <2> QED
    BY <2>1, <2>2, <2>3, <2>4
<1>4. Table(file', "route_ids") = routes /\ Table(file', "stop_ids") = stops
  BY <1>1
<1> QED
  BY <1>3, <1>4 DEF AlertsInv, Table, ToSet

\* An alert that is shown with a ride names its route and its stop, or none, for all feeds and
\* alerts: an id that is not known is an index of nothing (router.c:899-924, tdata.c:523-587).
THEOREM AlertsAreSound == Spec => []AlertsSound
<1>1. Init => AlertsInv
  BY DEF Init, AlertsInv, ToSet
<1>2. (FileInv /\ DelaysInv /\ BufferInv) /\ AlertsInv /\ [Next]_vars => AlertsInv'
  <2>1. CASE UNCHANGED vars
    BY <2>1 DEF vars, AlertsInv, Table, ToSet
  <2> QED
    BY <2>1, Step, AlertsStep
<1>3. FileInv /\ AlertsInv => AlertsSound
  <2> SUFFICES ASSUME FileInv, AlertsInv, NEW r \in Routes(td), NEW s \in ToSet(tdata_stops_for_route(td, r)),
                      NEW t \in 0 .. At(td.routes, r).n_trips - 1,
                      NEW a \in alert_msg([route |-> r, s0 |-> s, trip |-> t])
               PROVE  \E x \in a.source.informed : /\ x.route \in {NULL, tdata_route_id_for_index(td, r)}
                                                   /\ x.stop \in {NULL, tdata_stop_id_for_index(td, s)}
    BY DEF AlertsSound
  <2>1. PICK x \in a.informed : a \in ToSet(alerts) /\ x.route \in {NULL, r} /\ x.stop \in {NULL, s}
    BY DEF alert_msg
  <2>2. PICK y \in a.source.informed : /\ x.route = IndexOrNull(td.route_ids, y.route)
                                       /\ x.stop = IndexOrNull(td.stop_ids, y.stop)
    BY <2>1, IdsLoaded DEF AlertsInv
  <2>3. IsTable(td.route_ids) /\ IsTable(td.stop_ids) /\ s \in Nat /\ r \in Nat
    BY TablesBuilt, IdsLoaded DEF Routes
  <2> QED
    BY <2>1, <2>2, <2>3, IndexStandsFor DEF tdata_route_id_for_index, tdata_stop_id_for_index
<1> QED
  BY <1>1, <1>2, <1>3, RealtimeInvariant, PTL DEF Spec
================================================================================
