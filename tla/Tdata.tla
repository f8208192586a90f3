--------------------------------- MODULE Tdata ---------------------------------
(***************************************************************************)
(* The timetable file as the C programs see it: tdata_load reconstructs    *)
(* pointers to the tables from the header, the accessors follow offsets,   *)
(* tdata_check_coherent looks the tables over.                             *)
(*                                                                         *)
(* A loaded timetable td is a function from the names of its members to    *)
(* numbers and tables.  Stops, routes and trips are numbered from 0, and   *)
(* At(table, i) is table[i] of the C code.                                 *)
(***************************************************************************)
EXTENDS Builder

NONE == -1

At(table, i) == table[i + 1]
Slice(table, from, n) == SubSeq(table, from + 1, from + n)

\* struct tdata_header, after its version string.
HeaderRead ==
    <<"calendar_start_time", "dst_active", "n_stops", "n_routes", "n_trips", "stops", "stop_attributes",
      "stop_coords", "routes", "route_stops", "route_stop_attributes", "stop_times", "trips",
      "trip_attributes", "stop_routes", "transfer_target_stops", "transfer_dist_meters", "trip_active",
      "route_active", "platformcodes", "stop_names", "stop_nameidx", "agency_ids", "agency_names",
      "agency_urls", "headsigns", "route_shortnames", "productcategories", "route_ids", "stop_ids",
      "trip_ids">>

HeaderPlace == [f \in ToSet(HeaderRead) |-> CHOOSE i \in DOMAIN HeaderRead : HeaderRead[i] = f]

\* There are no agencies in the header: the number is the highest index in use, which is
\* one too few.  The program ends if the version is another.
tdata_load(file) ==
    LET field(f) == file.entries[HeaderPlace[f]]
        last_agency == Max({0} \cup {At(field("routes"), r).agency_index : r \in 0 .. field("n_routes") - 1})
    IN  [f \in {"n_agencies"} \cup DOMAIN HeaderPlace |-> IF f = "n_agencies" THEN last_agency ELSE field(f)]

Stops(td) == 0 .. td.n_stops - 1
Routes(td) == 0 .. td.n_routes - 1

--------------------------------------------------------------------------------
(***************************************************************************)
(* Accessors.                                                              *)
(***************************************************************************)
tdata_stops_for_route(td, r) ==
    Slice(td.route_stops, At(td.routes, r).route_stops_offset, At(td.routes, r).n_stops)

tdata_stop_attributes_for_route(td, r) ==
    Slice(td.route_stop_attributes, At(td.routes, r).route_stops_offset, At(td.routes, r).n_stops)

tdata_routes_for_stop(td, s) ==
    Slice(td.stop_routes, At(td.stops, s).stop_routes_offset,
          At(td.stops, s + 1).stop_routes_offset - At(td.stops, s).stop_routes_offset)

\* Every per-trip table uses the offset of the route's first trip id.
OfRoute(td, table, r) == Slice(table, At(td.routes, r).trip_ids_offset, At(td.routes, r).n_trips)
tdata_trips_for_route(td, r) == OfRoute(td, td.trips, r)
tdata_trip_attributes_for_route(td, r) == OfRoute(td, td.trip_attributes, r)
tdata_trip_masks_for_route(td, r) == OfRoute(td, td.trip_active, r)
tdata_trip_ids_for_route(td, r) == OfRoute(td, td.trip_ids, r)

tdata_timedemand_type(td, r, t) ==
    Slice(td.stop_times, tdata_trips_for_route(td, r)[t].stop_times_offset, At(td.routes, r).n_stops)

tdata_route_id_for_index(td, r) == At(td.route_ids, r)
tdata_stop_id_for_index(td, s) == At(td.stop_ids, s)
tdata_trip_id_for_route_trip_index(td, r, t) == At(td.trip_ids, At(td.routes, r).trip_ids_offset + t)

\* Markers (NONE, ONBOARD) have names of their own, which are left out.
tdata_stop_name_for_index(td, s) == At(td.stop_names, At(td.stop_nameidx, s))
tdata_platformcode_for_index(td, s) == At(td.platformcodes, s)
tdata_agency_id_for_route(td, r) == At(td.agency_ids, At(td.routes, r).agency_index)
tdata_agency_name_for_route(td, r) == At(td.agency_names, At(td.routes, r).agency_index)
tdata_headsign_for_route(td, r) == At(td.headsigns, At(td.routes, r).headsign_offset)
tdata_shortname_for_route(td, r) == At(td.route_shortnames, At(td.routes, r).shortname_index)

\* The footpaths of a stop, target and distance in units of 16 meters.
Footpaths(td, s) ==
    LET from == At(td.stops, s).transfers_offset
        n == At(td.stops, s + 1).transfers_offset - from
    IN  Zip(Slice(td.transfer_target_stops, from, n), Slice(td.transfer_dist_meters, from, n))

--------------------------------------------------------------------------------
\* What tdata_check_coherent complains of.  Coordinates are not modelled.
tdata_check_coherent(td) ==
    LET times(r, t) == tdata_timedemand_type(td, r, t)
        trips(r) == 1 .. At(td.routes, r).n_trips
        reverse(s, x) == SelectSeq(Footpaths(td, x[1]), LAMBDA y : y[1] = s)
    IN  {<<"begins late", x>> : x \in
            {x \in Routes(td) \X (1 .. td.n_trips) : x[2] \in trips(x[1]) /\ times(x[1], x[2])[1].arrival # 0}}
        \cup {<<"negative travel time", r>> : r \in {r \in Routes(td) : \E t \in trips(r) :
                \/ \E p \in DOMAIN times(r, t) : times(r, t)[p].departure < times(r, t)[p].arrival
                \/ \E p \in 2 .. Len(times(r, t)) : times(r, t)[p].arrival < times(r, t)[p - 1].departure}}
        \cup {<<"transfer not symmetric", s>> : s \in {s \in Stops(td) : \E x \in ToSet(Footpaths(td, s)) :
                x[1] = s \/ reverse(s, x) = << >> \/ reverse(s, x)[1][2] # x[2]}}

--------------------------------------------------------------------------------
(***************************************************************************)
(* The timetable as module Timetable, and so the search, sees it.          *)
(***************************************************************************)
T(td) == INSTANCE Timetable WITH n_stops <- td.n_stops, n_routes <- td.n_routes, RRRR_MAX_ROUNDS <- 6

PositionsWith(td, r, attribute) ==
    {p \in 1 .. At(td.routes, r).n_stops : attribute \in tdata_stop_attributes_for_route(td, r)[p]}

TripView(td, r, t) ==
    [begin_time |-> tdata_trips_for_route(td, r)[t].begin_time,
     mask |-> tdata_trip_masks_for_route(td, r)[t],
     attributes |-> tdata_trip_attributes_for_route(td, r)[t],
     arrival |-> Gather(LAMBDA x : x.arrival, tdata_timedemand_type(td, r, t)),
     departure |-> Gather(LAMBDA x : x.departure, tdata_timedemand_type(td, r, t)),
     realtime_delay |-> tdata_trips_for_route(td, r)[t].realtime_delay]

View(td) ==
    [routes |-> [r \in Routes(td) |->
        [stops |-> tdata_stops_for_route(td, r),
         trips |-> [t \in 1 .. At(td.routes, r).n_trips |-> TripView(td, r, t)],
         boarding |-> PositionsWith(td, r, "boarding"), alighting |-> PositionsWith(td, r, "alighting"),
         min_time |-> At(td.routes, r).min_time, max_time |-> At(td.routes, r).max_time,
         attributes |-> At(td.routes, r).attributes, agency |-> At(td.routes, r).agency_index]],
     transfers |-> [s \in Stops(td) |->
        [u \in {x[1] : x \in ToSet(Footpaths(td, s))} |->
            (CHOOSE x \in ToSet(Footpaths(td, s)) : x[1] = u)[2]]]]

================================================================================
