-------------------------------- MODULE Polyline --------------------------------
(***************************************************************************)
(* polyline.c: the line of a leg, as differences of coordinates, each a    *)
(* number of five-bit chunks.  Coordinates count fractions of the          *)
(* resolution of the encoding, GRAIN to one step of it (1e-5 degrees), as  *)
(* the coordinates of stops are finer than that.  A character is its code  *)
(* less 63.                                                                *)
(***************************************************************************)
EXTENDS Integers, Sequences, SequencesExt

CONSTANTS GRAIN,
          BUFLEN,           \* of the buffer: 1024
          Lines             \* [stops, s0, s1, walk] a leg may have; a stop is its [lat, lon]

VARIABLES leg,              \* the leg whose line is drawn
          s, output,        \* the locals of polyline_for_leg: place in the route, s0 was seen
          drawn,            \* history: the points given to polyline_point
          last, buf, n_points       \* the buffer

\* Of the chunks of a number: 2^(5 * i) for i from 0 to 5.
WEIGHT == <<1, 32, 1024, 32768, 1048576, 33554432>>

DEGREE == 100000 * GRAIN
Point == [lat : -90 * DEGREE .. 90 * DEGREE, lon : -180 * DEGREE .. 180 * DEGREE]

\* Stops are on the globe, and a ride is from a stop of its route to one that is not before it.
ASSUME PolylineAssumption ==
    /\ GRAIN \in Nat \ {0} /\ BUFLEN \in Nat \ {0}
    /\ \A l \in Lines :
         /\ l.walk \in BOOLEAN /\ l.stops \in Seq(Point) /\ l.s0 \in Point /\ l.s1 \in Point
         /\ ~l.walk => \E p, q \in DOMAIN l.stops : p <= q /\ l.stops[p] = l.s0 /\ l.stops[q] = l.s1

polyline_vars == <<leg, s, output, drawn, last, buf, n_points>>

Truncated(c) == IF c < 0 THEN -((-c) \div GRAIN) ELSE c \div GRAIN

\* The number as 32 bits, shifted to make room for the sign; six chunks take 30 of them.
\* Less than one step below zero there is nothing but the sign.
Binary(c) == (IF c < 0 THEN -2 * Truncated(c) - 1 ELSE 2 * Truncated(c)) % (32 * WEIGHT[6])

Chunk(c, i) == (Binary(c) \div WEIGHT[i]) % 32

\* Fault: a chunk that is zero is taken for the end.
last_chunk_zero(c) ==
    CHOOSE n \in 1 .. 6 : /\ \A i \in 2 .. n : Chunk(c, i) # 0
                          /\ n = 6 \/ Chunk(c, n + 1) = 0

\* There may be zeros between chunks that are not.
last_chunk(c) ==
    LET nonzero == {i \in 1 .. 6 : Chunk(c, i) # 0}
    IN  IF nonzero = {} THEN 1 ELSE CHOOSE i \in nonzero : \A j \in nonzero : j <= i

\* The chunks from the lowest to the last that is not zero; a high bit if another follows.
encode_double(c) == [i \in 1 .. last_chunk(c) |-> Chunk(c, i) + (IF i < last_chunk(c) THEN 32 ELSE 0)]

\* A point is left out if the two numbers might not fit any more.
polyline_point(p) ==
    /\ drawn' = Append(drawn, p)
    /\ IF Len(buf) >= BUFLEN - 13 THEN UNCHANGED <<last, buf, n_points>>
       ELSE /\ buf' = buf \o encode_double(p.lat - last.lat) \o encode_double(p.lon - last.lon)
            /\ last' = p /\ n_points' = n_points + 1

polyline_begin == last = [lat |-> 0, lon |-> 0] /\ buf = << >> /\ n_points = 0

PolylineInit == leg \in Lines /\ s = 1 /\ output = FALSE /\ drawn = << >> /\ polyline_begin

\* polyline_for_leg: the ends of a walk.
WalkLine ==
    /\ leg.walk /\ s <= 2
    /\ polyline_point(IF s = 1 THEN leg.s0 ELSE leg.s1)
    /\ s' = s + 1
    /\ UNCHANGED <<leg, output>>

\* The next stop of the route: drawn from s0 on, and s1 ends the line.
RideLine ==
    /\ ~leg.walk /\ s <= Len(leg.stops)
    /\ LET stop == leg.stops[s] IN
         /\ output' = (output \/ stop = leg.s0)
         /\ IF output' THEN polyline_point(stop) ELSE UNCHANGED <<drawn, last, buf, n_points>>
         /\ s' = IF stop = leg.s1 THEN Len(leg.stops) + 1 ELSE s + 1
    /\ UNCHANGED leg

PolylineNext == WalkLine \/ RideLine

PolylineSpec == PolylineInit /\ [][PolylineNext]_polyline_vars

--------------------------------------------------------------------------------
\* The published decoding, character by character: numbers end with a chunk without the
\* high bit, the lowest bit is the sign, and latitudes and longitudes alternate and add up.
Signed(n) == IF n % 2 = 1 THEN -(n \div 2) - 1 ELSE n \div 2

Decoder(number, weight, axis, at, points) ==
    [number |-> number, weight |-> weight, axis |-> axis, at |-> at, points |-> points]

Undecoded == Decoder(0, 1, "lat", [lat |-> 0, lon |-> 0], << >>)

Moved(at, axis, v) ==
    IF axis = "lat" THEN [lat |-> at.lat + v, lon |-> at.lon] ELSE [lat |-> at.lat, lon |-> at.lon + v]

DecodeChar(d, x) ==
    LET n == d.number + (x % 32) * d.weight
        at == Moved(d.at, d.axis, Signed(n))
    IN  IF x >= 32 THEN Decoder(n, 32 * d.weight, d.axis, d.at, d.points)
        ELSE IF d.axis = "lat" THEN Decoder(0, 1, "lon", at, d.points)
        ELSE Decoder(0, 1, "lat", at, Append(d.points, at))

Decoding(chars) ==
    LET d[i \in 0 .. Len(chars)] == IF i = 0 THEN Undecoded ELSE DecodeChar(d[i - 1], chars[i])
    IN  d

Decoded == Decoding(buf)[Len(buf)].points

\* No difference is negative and less than a step, which becomes a jump of half the globe.
Fine(difference) == difference >= 0 \/ difference <= -GRAIN
Before(i) == IF i = 1 THEN [lat |-> 0, lon |-> 0] ELSE drawn[i - 1]
NoSmallStepBack ==
    \A i \in DOMAIN drawn : Fine(drawn[i].lat - Before(i).lat) /\ Fine(drawn[i].lon - Before(i).lon)

\* Each difference is cut towards zero: the line may be off by one step more with each point.
Close(code, c, n) == code * GRAIN - c \in -(n * GRAIN) .. n * GRAIN

\* The buffer is never overrun, and points are left out only when it is nearly full.
LineFits ==
    /\ Len(buf) <= BUFLEN - 1
    /\ n_points <= Len(drawn)
    /\ n_points < Len(drawn) => Len(buf) > BUFLEN - 14

\* Every point that was put into the buffer can be read from it.
LineReads ==
    /\ Len(Decoded) = n_points
    /\ \A i \in 1 .. n_points : /\ Close(Decoded[i].lat, drawn[i].lat, i)
                                /\ Close(Decoded[i].lon, drawn[i].lon, i)

\* The points are the stops of the leg.  A route that calls at a stop twice may have another
\* line (polyline_for_leg looks for the stops in its order).
LineOfLeg ==
    ~leg.walk /\ IsInjective(leg.stops) /\ s > Len(leg.stops) =>
        drawn = SubSeq(leg.stops, SelectInSeq(leg.stops, LAMBDA p : p = leg.s0),
                                  SelectInSeq(leg.stops, LAMBDA p : p = leg.s1))

\* What a map decodes from the line of a leg is the stops of the leg from the first to the
\* last, or as many of them as fit, each less than a step off for each point up to it
\* (polyline.c:37-142); the buffer is never overrun.
PolylineDecodes == LineFits /\ (NoSmallStepBack => LineReads) /\ LineOfLeg

================================================================================
