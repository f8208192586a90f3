--------------------------- MODULE RealtimeProperties ---------------------------
(***************************************************************************)
(* What builder, loader and realtime process owe the feed and the search.  *)
(***************************************************************************)
EXTENDS Realtime

\* What the tables of the builder are like: those of trips list each trip once, and each place
\* in them is one of a route; the ids are numbered, and the stops of a route are among them
\* (timetable.py:447-591).
ASSUME TablesAssumption ==
    \A g \in Feeds : \A order \in SetToSeqs(bundles(g)) :
        LET tables == Tables(g, order) IN
        /\ tables.trip_ids \in Seq(DOMAIN g.trips)
        /\ \A i, j \in DOMAIN tables.trip_ids : tables.trip_ids[i] = tables.trip_ids[j] => i = j
        /\ \A i \in DOMAIN tables.trip_ids : \E r \in Routes(tables) : i \in TripPlaces(tables, r)
        /\ tables.n_routes \in Nat /\ DOMAIN tables.route_ids = 1 .. tables.n_routes
        /\ tables.n_stops \in Nat /\ DOMAIN tables.stop_ids = 1 .. tables.n_stops
        /\ \A r \in Routes(tables) : ToSet(tdata_stops_for_route(tables, r)) \subseteq Stops(tables)

\* Whether the feed has a service run on a date, said without the steps of gtfsdb.py.
RunsOn(s, date) ==
    LET excepted(type) == \E x \in feed.calendar_dates : x.service_id = s /\ x.date = date /\ x.type = type
        regular == s \in DOMAIN feed.calendar /\ date \in feed.calendar[s].start .. feed.calendar[s].end
                                              /\ date % 7 \in feed.calendar[s].days
    IN  (regular \/ excepted(1)) /\ ~excepted(2)

DaysOf(t) == {d \in 0 .. Days - 1 : RunsOn(feed.trips[t].service_id, td.calendar_start_time + d)}

\* A time of the feed in seconds, and the same in four-second units: begin time and
\* travel time are cut off separately, so a vehicle may come one unit early, never late.
Keeps(sec, units) == units \in {sec \div 4 - 1, sec \div 4}

\* Place p of route r is the trip t of the feed: its stops, times, days and permissions.
IsTrip(t, r, p) ==
    LET trip == TripView(td, r, p)
        calls == feed.trips[t].stop_times
    IN  /\ tdata_trip_ids_for_route(td, r)[p] = t /\ tdata_trip_id_for_route_trip_index(td, r, p - 1) = t
        /\ tdata_route_id_for_index(td, r) = feed.trips[t].route_id
        /\ Gather(LAMBDA s : tdata_stop_id_for_index(td, s), tdata_stops_for_route(td, r)) = Gather(LAMBDA c : c.stop, calls)
        /\ PositionsWith(td, r, "boarding") = {k \in DOMAIN calls : calls[k].pickup # 1}
        /\ PositionsWith(td, r, "alighting") = {k \in DOMAIN calls : calls[k].drop_off # 1}
        /\ \A k \in DOMAIN calls : /\ Keeps(calls[k].arrival, trip.begin_time + trip.arrival[k])
                                   /\ Keeps(calls[k].departure, trip.begin_time + trip.departure[k])
        /\ trip.mask = DaysOf(t) /\ trip.attributes = feed.trips[t].accessible
        /\ tdata_agency_id_for_route(td, r) = feed.routes[feed.trips[t].route_id].agency_id
        /\ tdata_agency_name_for_route(td, r) = feed.agencies[feed.routes[feed.trips[t].route_id].agency_id]
        /\ tdata_shortname_for_route(td, r) = feed.routes[feed.trips[t].route_id].short_name
        /\ At(td.routes, r).min_time <= trip.begin_time
        /\ At(td.routes, r).max_time >= trip.begin_time + Last(trip.arrival)

\* The file a program loads says what the feed said: it has each trip that runs within the
\* calendar once, and no other, although seven tables and three kinds of offsets have to
\* agree on where (timetable.py:447-591, tdata.c:58-206); trips of a route are in the order
\* of their departure (gtfsdb.py:182-193), and each stop knows its routes and its name.
LoadedAsPublished ==
    LET places == {x \in Routes(td) \X (1 .. td.n_trips) : x[2] <= At(td.routes, x[1]).n_trips} IN
    /\ Cardinality(places) = Cardinality({t \in DOMAIN feed.trips : DaysOf(t) # {}})
    /\ \A t \in DOMAIN feed.trips : DaysOf(t) # {} => \E x \in places : IsTrip(t, x[1], x[2])
    /\ \A x \in places : x[2] > 1 =>
         LET departs(p) == TripView(td, x[1], p).begin_time + TripView(td, x[1], p).departure[1]
         IN  departs(x[2] - 1) <= departs(x[2])
    /\ \A r \in Routes(td) : At(td.route_active, r) = UNION ToSet(tdata_trip_masks_for_route(td, r))
    /\ \A s \in Stops(td) :
         /\ ToSet(tdata_routes_for_stop(td, s)) = {r \in Routes(td) : s \in ToSet(tdata_stops_for_route(td, r))}
         /\ tdata_stop_name_for_index(td, s) = feed.stops[s + 1].name
         /\ tdata_platformcode_for_index(td, s) = feed.stops[s + 1].platform_code
    /\ \A r \in Routes(td) : \E t \in ToSet(tdata_trip_ids_for_route(td, r)) :
         tdata_headsign_for_route(td, r) = feed.trips[t].headsign

\* tdata_check_coherent finds nothing to complain of (tdata.c:208-277), and the timetable is
\* one that the search was checked with: module Router assumes IsTimetable.
Coherent == tdata_check_coherent(td) = {} /\ T(td)!IsTimetable(View(td))

\* Between messages each trip has the delay of the last message that named it, whatever
\* went wrong with other messages, connections and processes since: a message too long for
\* the buffer, a frame too long, a process that ended in the middle (realtime.c:59-129).
DelayAsSent ==
    arrived = Len(under_way) =>
        \A i \in DOMAIN td.trips : td.trips[i].realtime_delay \in expected[td.trip_ids[i]]

\* An alert shown with a ride names the route or the stop of it, or neither
\* (router.c:899-924): ids are replaced by indexes in place, and unknown ids by a marker.
\* No such thing holds of the trip it names.
AlertsSound ==
    \A r \in Routes(td) : \A s \in ToSet(tdata_stops_for_route(td, r)), t \in 0 .. At(td.routes, r).n_trips - 1 :
        \A a \in alert_msg([route |-> r, s0 |-> s, trip |-> t]) :
            \E x \in a.source.informed : /\ x.route \in {NULL, tdata_route_id_for_index(td, r)}
                                         /\ x.stop \in {NULL, tdata_stop_id_for_index(td, s)}

================================================================================
