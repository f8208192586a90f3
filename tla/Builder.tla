-------------------------------- MODULE Builder --------------------------------
(***************************************************************************)
(* The timetable builder: gtfsdb.py and timetable.py turn a GTFS feed into *)
(* the tables of a timetable file, which tdata.c maps into memory.         *)
(*                                                                         *)
(* A feed g has the tables of its database that matter here:               *)
(*   g.stops            a sequence of [id, name, platform_code,            *)
(*                      attributes], ordered by id                         *)
(*   g.trips[t]         [route_id, service_id, accessible, headsign,       *)
(*                      stop_times]; a stop time is [stop, arrival,        *)
(*                      departure, pickup, drop_off, timepoint], in        *)
(*                      seconds                                            *)
(*   g.routes[r]        [agency_id, route_type, short_name]                *)
(*   g.agencies[a]      the name of the agency                             *)
(*   g.calendar[s]      [days, start, end]: weekdays, first and last date  *)
(*   g.calendar_dates   a set of [service_id, date, type], 1 adds, 2 takes *)
(*   g.transfers        a set of [from, to, cost], the cost may be NULL    *)
(* Dates count days, day 0 is a Monday.  Identifiers are numbers in their  *)
(* alphabetic order.  Offsets count from 0 as in the file, tables are      *)
(* sequences.                                                              *)
(***************************************************************************)
EXTENDS Integers, Sequences, FiniteSets, SequencesExt, FiniteSetsExt, TLC

CONSTANT NULL       \* an empty column

Days == 32          \* of the calendar of a timetable

Before(x, y) == x[1] < y[1] \/ (x[1] = y[1] /\ x[2] < y[2])
Gather(T(_), s) == [i \in DOMAIN s |-> T(s[i])]

--------------------------------------------------------------------------------
(***************************************************************************)
(* gtfsdb.py: the service calendar.                                        *)
(***************************************************************************)
Added(g) == {x.date : x \in {x \in g.calendar_dates : x.type = 1}}

date_range(g) ==
    <<Min(Added(g) \cup {g.calendar[s].start : s \in DOMAIN g.calendar}),
      Max(Added(g) \cup {g.calendar[s].end : s \in DOMAIN g.calendar})>>

service_ids(g) == DOMAIN g.calendar \cup {x.service_id : x \in g.calendar_dates}

\* The services that run on a date: by weekday and period, then the exceptions.
service_periods(g, date) ==
    LET regular == {s \in DOMAIN g.calendar : /\ date % 7 \in g.calendar[s].days
                                              /\ date \in g.calendar[s].start .. g.calendar[s].end}
        exceptions(type) == {x.service_id : x \in {x \in g.calendar_dates : x.date = date /\ x.type = type}}
    IN  IF date < date_range(g)[1] \/ date > date_range(g)[2] THEN {}
        ELSE (regular \cup exceptions(1)) \ exceptions(2)

\* Services per day of the feed, to choose the calendar's first date by.  The date is
\* advanced before its weekday is looked at, and periods of services are not, so this
\* is an estimate.
n_services_on_day(g, i) ==
    LET first == date_range(g)[1]
        on(type) == Cardinality({x \in g.calendar_dates : x.date = first + i /\ x.type = type})
    IN  Cardinality({s \in DOMAIN g.calendar : (first + i + 1) % 7 \in g.calendar[s].days})
          + on(1) - on(2)

find_max_service(g) ==
    LET first == date_range(g)[1]
        n_days == date_range(g)[2] - first + 1
        month(i) == MapThenSumSet(LAMBDA d : n_services_on_day(g, d), i .. i + Days - 1)
        starts == 0 .. n_days - Days - 1
    IN  IF starts = {} THEN first
        ELSE first + Min({i \in starts : \A j \in starts : month(i) >= month(j)})

\* The days of the calendar on which a service runs, from the given first date on.
bitmask_for_sid(g, start_date, s) ==
    {d \in 0 .. Days - 1 : s \in service_periods(g, start_date + d)}

--------------------------------------------------------------------------------
(***************************************************************************)
(* gtfsdb.py: trips grouped into routes of the search.                     *)
(***************************************************************************)
Calls(g, t) == g.trips[t].stop_times

\* A trip's begin time is its first arrival; its time demand group is what remains.
trip_begin_time(g, t) == Calls(g, t)[1].arrival

timedemandgroup(g, t) ==
    Gather(LAMBDA c : [drive |-> c.arrival - trip_begin_time(g, t), dwell |-> c.departure - c.arrival],
           Calls(g, t))

\* The stops of a trip with their permissions; the first stop is made a time point.
Pattern(g, t) ==
    [p \in DOMAIN Calls(g, t) |->
        LET c == Calls(g, t)[p]
        IN  [stop |-> c.stop, pickup |-> c.pickup, drop_off |-> c.drop_off,
             timepoint |-> IF p = 1 THEN 1 ELSE c.timepoint]]

\* Trips with the same pattern and GTFS route share a route of the search.
pattern_signature(g, t) == <<Pattern(g, t), g.trips[t].route_id>>

bundles(g) == {{u \in DOMAIN g.trips : pattern_signature(g, u) = pattern_signature(g, t)}
                 : t \in DOMAIN g.trips}

first_departure(g, t) == Min({c.departure : c \in ToSet(Calls(g, t))})

\* Fault: the trips of a route in the order of their ids.
sorted_trip_ids_by_id(g, trips) == SetToSortSeq(trips, <)

sorted_trip_ids(g, trips) ==
    SetToSortSeq(trips, LAMBDA t, u : Before(<<first_departure(g, t), t>>, <<first_departure(g, u), u>>))

--------------------------------------------------------------------------------
(***************************************************************************)
(* timetable.py: the tables.  The bundles come in no particular order.     *)
(***************************************************************************)
TripMask(g, t) == bitmask_for_sid(g, find_max_service(g), g.trips[t].service_id)

running_trips(g, bundle) ==
    {t \in bundle : g.trips[t].service_id \in service_ids(g) /\ TripMask(g, t) # {}}

\* The routes that run at some time within the calendar, with the trips that do.
route_for_idx(g, order) ==
    SelectSeq(Gather(LAMBDA b : running_trips(g, b), order), LAMBDA trips : trips # {})

\* Where each part of a table of parts begins, with a sentinel at the end.
Offsets(parts) ==
    [i \in 1 .. Len(parts) + 1 |-> Len(FlattenSeq(SubSeq(parts, 1, i - 1)))]

\* The position of a name in a table that holds every name once.
IndexIn(table, name) == SelectInSeq(table, LAMBDA n : n = name) - 1

\* A list without repetitions, in the order of first appearance.
FirstAppearances(names) ==
    FoldLeft(LAMBDA seen, n : IF Contains(seen, n) THEN seen ELSE Append(seen, n), << >>, names)

idx_for_stop_id(g, id) == SelectInSeq(g.stops, LAMBDA s : s.id = id) - 1

route_stop_attributes(c) ==
    (IF c.timepoint = 1 THEN {"waitingpoint"} ELSE {})
      \cup (IF c.pickup # 1 THEN {"boarding"} ELSE {})
      \cup (IF c.drop_off # 1 THEN {"alighting"} ELSE {})

\* The stop times of a time demand group, in units of four seconds.
StopTimes(group) ==
    Gather(LAMBDA x : [arrival |-> x.drive \div 4, departure |-> (x.drive + x.dwell) \div 4], group)

\* Time demand groups are written once each.
GroupsWritten(g, routes) ==
    FirstAppearances(FlattenSeq(
        Gather(LAMBDA trips : Gather(LAMBDA t : timedemandgroup(g, t), SetToSortSeq(trips, <)), routes)))

\* Fault: a transfer is only found in the direction it was entered.
gettransfers_forward(g, from) ==
    LET rows == {x \in g.transfers : x.from = from}
        targets == {x.to : x \in rows}
        cost(to) == Min({x.cost : x \in {x \in rows : x.to = to}} \ {NULL})
    IN  SetToSortSeq({[to |-> to, cost |-> cost(to)] : to \in
                        {to \in targets : \E x \in rows : x.to = to /\ x.cost # NULL}},
                     LAMBDA a, b : Before(<<a.cost, a.to>>, <<b.cost, b.to>>))

\* Transfers out of a stop, entered in either direction, the cheapest of each pair;
\* those without a cost are skipped (timetable.py).
gettransfers(g, from) ==
    LET rows == {x \in g.transfers : x.from = from}
                  \cup {[from |-> from, to |-> x.from, cost |-> x.cost] : x \in {x \in g.transfers : x.to = from}}
        targets == {x.to : x \in {x \in rows : x.cost # NULL}}
        cost(to) == Min({x.cost : x \in {x \in rows : x.to = to}} \ {NULL})
    IN  SetToSortSeq({[to |-> to, cost |-> cost(to)] : to \in targets},
                     LAMBDA a, b : Before(<<a.cost, a.to>>, <<b.cost, b.to>>))

\* The trip that stands for its route in the tables of routes.
exemplar_trip(trips) == Min(trips)
exemplars(routes) == Gather(exemplar_trip, routes)

\* The names of a table that holds each once, in the order of their routes.
AgenciesWritten(g, routes) ==
    FirstAppearances(Gather(LAMBDA t : g.routes[g.trips[t].route_id].agency_id, exemplars(routes)))
HeadsignsWritten(g, routes) == FirstAppearances(Gather(LAMBDA t : g.trips[t].headsign, exemplars(routes)))
ShortnamesWritten(g, routes) ==
    FirstAppearances(Gather(LAMBDA t : g.routes[g.trips[t].route_id].short_name, exemplars(routes)))
NamesWritten(g) == FirstAppearances(Gather(LAMBDA s : s.name, g.stops))

route_stops(g, routes) ==
    Gather(LAMBDA t : Gather(LAMBDA c : idx_for_stop_id(g, c.stop), Pattern(g, t)), exemplars(routes))

\* The routes of each stop, in their order; once for each call of the route at it.
stop_routes(g, routes) ==
    Gather(LAMBDA s : FlattenSeq([i \in DOMAIN routes |->
                          Gather(LAMBDA c : i - 1, SelectSeq(Pattern(g, exemplar_trip(routes[i])),
                                                             LAMBDA c : c.stop = s.id))]),
           g.stops)

\* One route struct; the last is a sentinel of which only the offsets are meant.
RouteStruct(g, routes, offsets, i) ==
    IF i > Len(routes) THEN offsets @@ [n_stops |-> 0, n_trips |-> 0, attributes |-> {}, agency_index |-> 0,
                                        headsign_offset |-> 0, shortname_index |-> 0, min_time |-> 0, max_time |-> 0]
    ELSE LET trips == routes[i]
             trip == g.trips[exemplar_trip(trips)]
             route == g.routes[trip.route_id]
             last_arrival(t) == Last(Calls(g, t)).arrival
         IN  offsets @@
             [n_stops |-> Len(trip.stop_times), n_trips |-> Cardinality(trips), attributes |-> {route.route_type},
              agency_index |-> IndexIn(AgenciesWritten(g, routes), route.agency_id),
              headsign_offset |-> IndexIn(HeadsignsWritten(g, routes), trip.headsign),
              shortname_index |-> IndexIn(ShortnamesWritten(g, routes), route.short_name),
              min_time |-> Min({trip_begin_time(g, t) : t \in trips}) \div 4,
              max_time |-> Max({last_arrival(t) : t \in trips}) \div 4]

\* One trip struct, for a table of time demand groups.
TripStruct(g, groups, t) ==
    [stop_times_offset |-> Offsets(groups)[IndexIn(groups, timedemandgroup(g, t)) + 1],
     begin_time |-> trip_begin_time(g, t) \div 4, realtime_delay |-> 0]

\* All tables of the file, by the name of their entry in the header.
Tables(g, order) ==
    LET routes == route_for_idx(g, order)
        groups == GroupsWritten(g, routes)
        trip_ids == Gather(LAMBDA trips : sorted_trip_ids(g, trips), routes)
        all_trip_ids == FlattenSeq(trip_ids)
        transfers == Gather(LAMBDA s : gettransfers(g, s.id), g.stops)
        RouteOffsets(i) == [route_stops_offset |-> Offsets(route_stops(g, routes))[i],
                            trip_ids_offset |-> Offsets(trip_ids)[i]]
        StopStruct(i) == [stop_routes_offset |-> Offsets(stop_routes(g, routes))[i],
                          transfers_offset |-> Offsets(transfers)[i]]
    IN  [calendar_start_time |-> find_max_service(g),
         n_stops |-> Len(g.stops), n_routes |-> Len(routes), n_trips |-> Len(all_trip_ids),
         stops |-> [i \in 1 .. Len(g.stops) + 1 |-> StopStruct(i)],
         stop_attributes |-> Gather(LAMBDA s : s.attributes, g.stops),
         routes |-> [i \in 1 .. Len(routes) + 1 |-> RouteStruct(g, routes, RouteOffsets(i), i)],
         route_stops |-> FlattenSeq(route_stops(g, routes)),
         route_stop_attributes |->
            FlattenSeq(Gather(LAMBDA t : Gather(route_stop_attributes, Pattern(g, t)), exemplars(routes))),
         stop_times |-> FlattenSeq(Gather(StopTimes, groups)),
         trips |-> Gather(LAMBDA t : TripStruct(g, groups, t), all_trip_ids),
         trip_attributes |-> Gather(LAMBDA t : g.trips[t].accessible, all_trip_ids),
         stop_routes |-> FlattenSeq(stop_routes(g, routes)),
         transfer_target_stops |-> Gather(LAMBDA x : idx_for_stop_id(g, x.to), FlattenSeq(transfers)),
         transfer_dist_meters |-> Gather(LAMBDA x : (x.cost + 8) \div 16, FlattenSeq(transfers)),
         trip_active |-> Gather(LAMBDA t : TripMask(g, t), all_trip_ids),
         route_active |-> Gather(LAMBDA trips : UNION {TripMask(g, t) : t \in trips}, routes),
         platformcodes |-> Gather(LAMBDA s : s.platform_code, g.stops),
         stop_names |-> NamesWritten(g),
         stop_nameidx |-> Gather(LAMBDA s : IndexIn(NamesWritten(g), s.name), g.stops),
         agency_ids |-> AgenciesWritten(g, routes),
         agency_names |-> Gather(LAMBDA a : g.agencies[a], AgenciesWritten(g, routes)),
         headsigns |-> HeadsignsWritten(g, routes), route_shortnames |-> ShortnamesWritten(g, routes),
         route_ids |-> Gather(LAMBDA t : g.trips[t].route_id, exemplars(routes)),
         stop_ids |-> Gather(LAMBDA s : s.id, g.stops),
         trip_ids |-> all_trip_ids]

\* The order in which write_header puts the numbers and the places of the tables.
HeaderWritten ==
    <<"calendar_start_time", "dst_active", "n_stops", "n_routes", "n_trips", "stops", "stop_attributes",
      "stop_coords", "routes", "route_stops", "route_stop_attributes", "stop_times", "trips",
      "trip_attributes", "stop_routes", "transfer_target_stops", "transfer_dist_meters", "trip_active",
      "route_active", "platformcodes", "stop_names", "stop_nameidx", "agency_ids", "agency_names",
      "agency_urls", "headsigns", "route_shortnames", "productcategories", "route_ids", "stop_ids",
      "trip_ids">>

\* Tables that are not modelled are there by name.
write_header(tables) ==
    [version |-> "TTABLEV2",
     entries |-> Gather(LAMBDA f : IF f \in DOMAIN tables THEN tables[f] ELSE f, HeaderWritten)]

timetable_dat(g, order) == write_header(Tables(g, order))

================================================================================
