------------------------------- MODULE Timetable -------------------------------
(***************************************************************************)
(* The timetable a worker searches, and the time arithmetic of the search. *)
(*                                                                         *)
(* Times are rtime_t values (util.h): 16-bit counts of four-second units   *)
(* from midnight of the service day before the one searched, so that a     *)
(* search sees yesterday, today and tomorrow.  The numbers below are the   *)
(* ones of the code and every sum is reduced to 16 bits where the C code   *)
(* stores it in an rtime_t.                                                *)
(*                                                                         *)
(* A timetable td (tdata_t) is a record with                               *)
(*   td.routes[r]        the stops in travel order, the positions where    *)
(*                       boarding and alighting are allowed, the trips,    *)
(*                       mode, agency and time range of route r            *)
(*   td.transfers[s]     a function from the stops one can walk to from s  *)
(*                       to the distance in units of 16 meters             *)
(* Calendars (32-bit masks) are sets of day numbers.  Positions and trips  *)
(* are numbered from 1, stops and routes from 0.                           *)
(***************************************************************************)
EXTENDS Integers, Sequences, FiniteSets

CONSTANTS n_stops,          \* number of stops in the timetable
          n_routes,         \* number of routes
          RRRR_MAX_ROUNDS   \* config.h: rows of router states, 6 in the code

\* Row 1 of the states holds the initial state of round 0, so there are two rows.
ASSUME SizesAssumption ==
    /\ n_stops \in Nat \ {0}
    /\ n_routes \in Nat
    /\ RRRR_MAX_ROUNDS \in Nat \ {0, 1}

Stop == 0 .. n_stops - 1
Route == 0 .. n_routes - 1
Round == 0 .. RRRR_MAX_ROUNDS - 1

(***************************************************************************)
(* util.h: the rtime_t type and its reserved values.                       *)
(***************************************************************************)
RTIME_ONE_DAY == 21600
RTIME_TWO_DAYS == 43200
RTIME_THREE_DAYS == 64800
UNREACHED == 65535
CANCELED == 32767

\* uint32_t sentinels, outside the range of every index.
NONE == -1
WALK == -2
ONBOARD == -3

Byte == 0 .. 255
RTime == 0 .. 65535
Int16 == -32768 .. 32767
ToRTime(x) == x % 65536
SEC_TO_RTIME(sec) == sec \div 4
CalendarDay == 0 .. 31

--------------------------------------------------------------------------------
(***************************************************************************)
(* Accessors over one timetable.                                           *)
(***************************************************************************)
Positions(td, r) == DOMAIN td.routes[r].stops
Trips(td, r) == DOMAIN td.routes[r].trips

tdata_routes_for_stop(td, s) ==
    {r \in Route : \E p \in Positions(td, r) : td.routes[r].stops[p] = s}

\* The days on which at least one trip of the route runs.
route_active(td, r) == UNION {td.routes[r].trips[t].mask : t \in Trips(td, r)}

tdata_depart(td, r, t, p) ==
    ToRTime(td.routes[r].trips[t].begin_time + td.routes[r].trips[t].departure[p])

tdata_arrive(td, r, t, p) ==
    ToRTime(td.routes[r].trips[t].begin_time + td.routes[r].trips[t].arrival[p])

\* Arrival or departure of a trip on a service day.  A scheduled time that falls
\* past 16 bits reads UNREACHED; the delay is added after that test and may wrap.
tdata_stoptime(td, delay, r, t, p, arrive, day) ==
    LET time == IF arrive THEN tdata_arrive(td, r, t, p) ELSE tdata_depart(td, r, t, p)
        adjusted == ToRTime(time + day.midnight)
    IN  IF adjusted < time THEN UNREACHED
        ELSE IF day.apply_realtime THEN ToRTime(adjusted + delay[r][t])
        ELSE adjusted

\* Walking time between two stops, in rtime units.  walk_speed is in tenths of a
\* meter per second and walk_slack in seconds.
walk_duration(dist, q) ==
    ToRTime(SEC_TO_RTIME((dist * 160) \div q.walk_speed + q.walk_slack))

\* UNREACHED when no footpath joins the two stops.
transfer_duration(td, q, s, u) ==
    IF s = u THEN 0
    ELSE IF u \in DOMAIN td.transfers[s] THEN walk_duration(td.transfers[s][u], q)
    ELSE UNREACHED

\* Yesterday, today and tomorrow of a day mask; realtime data applies on the
\* calendar day `now` only.  Bits shifted out of the 32-bit calendar are lost.
ServiceDay(midnight, mask, now) ==
    [midnight |-> midnight, mask |-> mask, apply_realtime |-> now \in mask]

ServiceDays(day_mask, arrive_by, now) ==
    LET yesterday == ServiceDay(0, {d - 1 : d \in day_mask} \cap CalendarDay, now)
        today     == ServiceDay(RTIME_ONE_DAY, day_mask, now)
        tomorrow  == ServiceDay(RTIME_TWO_DAYS, {d + 1 : d \in day_mask} \cap CalendarDay, now)
    IN  IF arrive_by THEN <<tomorrow, today, yesterday>>
        ELSE <<yesterday, today, tomorrow>>

--------------------------------------------------------------------------------
(***************************************************************************)
(* Comparing times in the direction of the search: an earlier time is      *)
(* better in a depart-after search, a later one in an arrive-by search.    *)
(***************************************************************************)
Better(arrive_by, a, b) == IF arrive_by THEN a > b ELSE a < b

Improves(arrive_by, a, b) == b = UNREACHED \/ Better(arrive_by, a, b)

\* The time range timetable.py stores for a route: first begin time to last
\* arrival at the last stop, over all trips and without delays.
find_time_range(trips) ==
    LET begins == {trips[t].begin_time : t \in DOMAIN trips}
        ends == {trips[t].begin_time + trips[t].arrival[Len(trips[t].arrival)] : t \in DOMAIN trips}
    IN  <<CHOOSE x \in begins : \A y \in begins : x <= y,
          CHOOSE x \in ends : \A y \in ends : x >= y>>

--------------------------------------------------------------------------------
(***************************************************************************)
(* What a timetable file written by timetable.py looks like.               *)
(***************************************************************************)
TripRec(n) ==
    [begin_time : RTime, mask : SUBSET CalendarDay, attributes : SUBSET {"accessible", "toilet", "wifi"},
     arrival : [1..n -> RTime], departure : [1..n -> RTime], realtime_delay : Int16]

IsRoute(route) ==
    /\ route.stops \in Seq(Stop)
    /\ route.boarding \subseteq DOMAIN route.stops
    /\ route.alighting \subseteq DOMAIN route.stops
    /\ route.min_time \in RTime /\ route.max_time \in RTime
    /\ route.attributes \subseteq {"tram", "subway", "rail", "bus", "ferry"}
    /\ route.agency \in Nat
    /\ route.trips \in Seq(TripRec(Len(route.stops)))

\* Footpaths are symmetric and join different stops (transfers.py, gtfsdb.py: gettransfers).
IsTimetable(td) ==
    /\ DOMAIN td.routes = Route
    /\ \A r \in Route : IsRoute(td.routes[r])
    /\ DOMAIN td.transfers = Stop
    /\ \A s \in Stop :
         /\ DOMAIN td.transfers[s] \subseteq Stop \ {s}
         /\ \A u \in DOMAIN td.transfers[s] :
              /\ td.transfers[s][u] \in Byte
              /\ s \in DOMAIN td.transfers[u]
              /\ td.transfers[u][s] = td.transfers[s][u]

================================================================================
