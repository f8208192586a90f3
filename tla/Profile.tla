-------------------------------- MODULE Profile ---------------------------------
(***************************************************************************)
(* profile.c: all ways from one stop to others by rides and changes, each  *)
(* with the least and the greatest time it may take.  The states are a     *)
(* pool that is also the queue; a way is read back through back_state.     *)
(*                                                                         *)
(* A network is [routes, transfers]: a route is its stops and the arrivals *)
(* of its trips at them, in rtime since the first departure, and           *)
(* transfers[s] the stops to which there is a footpath.  The mean is left  *)
(* out: it is a floating point number that is added up like the others.    *)
(***************************************************************************)
EXTENDS Integers, Sequences, FiniteSets, SequencesExt, FiniteSetsExt

CONSTANTS Networks,
          start_stop, target_stop,      \* 1200 and 1344
          MAX_STATES                    \* size of the pool

VARIABLES network,
          states,           \* the pool; back_state is a place in it, or 0
          states_head,      \* states that have been explored
          exploring,        \* <<stop, route>> still to come for the state at states_head
          hits,             \* places of the states printed as having reached the target
          ended             \* the pool was full, and the program ended

profile_vars == <<network, states, states_head, exploring, hits, ended>>

NONE == -1
UNREACHED == 65535

--------------------------------------------------------------------------------
\* Statistics are 16 bits wide.
stats_init == [min |-> UNREACHED, max |-> 0]
stats_subtract(a, b) == [min |-> (a.min - b.min) % 65536, max |-> (a.max - b.max) % 65536]
stats_add(a, b) == [min |-> (a.min + b.min) % 65536, max |-> (a.max + b.max) % 65536]

\* Of the arrivals of all trips at place p of a route (compute_route_stats).
route_stats(route, p) ==
    LET arrivals == {trip[p] : trip \in ToSet(route.trips)}
    IN  [min |-> Min(arrivals \cup {stats_init.min}), max |-> Max(arrivals \cup {stats_init.max})]

--------------------------------------------------------------------------------
\* The states from the first to place i, through back_state.
PathTo(pool, i) ==
    LET path[k \in 0 .. i] == IF k = 0 THEN << >> ELSE Append(path[pool[k].back_state], pool[k])
    IN  path[i]

path_has_stop(i, stop) == \E s \in ToSet(PathTo(states, i)) : s.stop = stop

\* Fault: only remembers the last ride.
path_has_last_route(i, route) == states[i].back_route = route

path_has_route(i, route) == \E s \in ToSet(PathTo(states, i)) : s.back_route = route

HasTransfers(stop) == network.transfers[stop] # << >>

ProfileInit ==
    /\ network \in Networks
    /\ states = <<[back_state |-> 0, stop |-> start_stop, back_route |-> NONE, stats |-> stats_init]>>
    /\ states_head = 0 /\ exploring = << >> /\ hits = << >> /\ ended = FALSE

tdata_routes_for_stop(stop) ==
    SetToSortSeq({x \in DOMAIN network.routes : stop \in ToSet(network.routes[x].stops)}, <)

\* explore_transfers: the stops a footpath leads to, then the stop itself; at each of them
\* its routes (explore_stop).
explore_transfers ==
    /\ ~ended /\ exploring = << >> /\ states_head < Len(states)
    /\ LET stop == states[states_head + 1].stop
           routes_at(x) == [k \in DOMAIN tdata_routes_for_stop(x) |-> <<x, tdata_routes_for_stop(x)[k]>>]
           stops == Append(network.transfers[stop], stop)
       IN  exploring' = FlattenSeq([k \in DOMAIN stops |-> routes_at(stops[k])])
    /\ states_head' = states_head + 1
    /\ UNCHANGED <<network, states, hits, ended>>

\* The states that a ride with a route from the stop leads to: from where the route first
\* calls at it, to stops with footpaths where the way has not been yet.
NewStates(stop, route) ==
    LET rt == network.routes[route]
        board == SelectInSeq(rt.stops, LAMBDA x : x = stop)
        alights == SelectSeq([p \in DOMAIN rt.stops |-> p],
                             LAMBDA p : /\ p > board /\ HasTransfers(rt.stops[p])
                                        /\ ~path_has_stop(states_head, rt.stops[p]))
    IN  [k \in DOMAIN alights |->
            [back_state |-> states_head, stop |-> rt.stops[alights[k]], back_route |-> route,
             stats |-> stats_add(stats_subtract(route_stats(rt, alights[k]), route_stats(rt, board)),
                                 states[states_head].stats)]]

\* The next route at the next stop is ridden, unless the way has used it already.  A state
\* too many ends the program.
explore_route ==
    /\ ~ended /\ exploring # << >>
    /\ LET stop == Head(exploring)[1]
           route == Head(exploring)[2]
           new == IF path_has_route(states_head, route) THEN << >> ELSE NewStates(stop, route)
           room == MAX_STATES - Len(states)
           kept == SubSeq(new, 1, IF Len(new) > room THEN room ELSE Len(new))
           reached == SelectSeq([k \in DOMAIN kept |-> k], LAMBDA k : kept[k].stop = target_stop)
       IN  /\ states' = states \o kept
           /\ hits' = hits \o [k \in DOMAIN reached |-> Len(states) + reached[k]]
           /\ ended' = (Len(new) > room)
    /\ exploring' = Tail(exploring)
    /\ UNCHANGED <<network, states_head>>

ProfileNext == explore_transfers \/ explore_route

ProfileSpec == ProfileInit /\ [][ProfileNext]_profile_vars

--------------------------------------------------------------------------------
(***************************************************************************)
(* The ways there are, said without the queue: rides [board, route, p, q]  *)
(* with a route from the p-th of its stops to the q-th.                    *)
(***************************************************************************)
Rides ==
    LET stops_of(x) == network.routes[x].stops
    IN  UNION {{[board |-> stops_of(x)[p], route |-> x, p |-> p, q |-> q] :
                    p \in {p \in DOMAIN stops_of(x) : \A k \in 1 .. p - 1 : stops_of(x)[k] # stops_of(x)[p]},
                    q \in DOMAIN stops_of(x)} : x \in DOMAIN network.routes}

Alight(ride) == network.routes[ride.route].stops[ride.q]
EndOf(way) == IF way = << >> THEN start_stop ELSE Alight(Last(way))
StopsOf(way) == {start_stop} \cup {Alight(ride) : ride \in ToSet(way)}

Continues(way, ride) ==
    /\ ride.p < ride.q
    /\ ride.board = EndOf(way) \/ ride.board \in ToSet(network.transfers[EndOf(way)])
    /\ Alight(ride) \notin StopsOf(way) /\ HasTransfers(Alight(ride))
    /\ \A x \in ToSet(way) : x.route # ride.route

Ways ==
    LET with[n \in 0 .. Len(network.routes)] ==
            IF n = 0 THEN {<< >>}
            ELSE {Append(x[1], x[2]) : x \in {y \in with[n - 1] \X Rides : Continues(y[1], y[2])}}
    IN  UNION {with[n] : n \in DOMAIN with}

\* The time on board, ride by ride, by the statistic f of the arrivals.
OnBoard(way, f) ==
    FoldLeft(LAMBDA sum, ride : LET rt == network.routes[ride.route]
                                IN  sum + route_stats(rt, ride.q)[f] - route_stats(rt, ride.p)[f], 0, way)

\* A way as it is read back: where it leads, by which routes, and its time.  The least time
\* begins with UNREACHED, and is one less than the sum for that.
Described(way) ==
    [calls |-> <<<<NONE, start_stop>>>> \o [k \in DOMAIN way |-> <<way[k].route, Alight(way[k])>>],
     stats |-> [min |-> (OnBoard(way, "min") - 1) % 65536, max |-> OnBoard(way, "max")]]

AsRead(i) ==
    LET path == PathTo(states, i)
    IN  [calls |-> [k \in DOMAIN path |-> <<path[k].back_route, path[k].stop>>], stats |-> states[i].stats]

\* The ways that can be read back from the pool are, at the end, all ways that use no route
\* twice and leave no vehicle twice at the same stop, each once with its time added up over
\* all the states behind it, and those to the target have been printed; if the pool is too
\* small they are some of those (profile.c:99-201, 279-297).
ProfileComplete ==
    LET read == {AsRead(i) : i \in DOMAIN states}
        finished == exploring = << >> /\ states_head = Len(states)
    IN  /\ finished \/ ended =>
             /\ read \subseteq {Described(w) : w \in Ways}
             /\ ToSet(hits) = {i \in DOMAIN states \ {1} : states[i].stop = target_stop}
        /\ finished /\ ~ended => /\ {Described(w) : w \in Ways} \subseteq read
                                 /\ Len(states) = Cardinality(Ways)

================================================================================
