--------------------------- MODULE RouterProperties ----------------------------
(***************************************************************************)
(* What makes an answer of the router correct: properties of the search,   *)
(* of the reversals and of the plan, and a reference definition of the     *)
(* best journey to compare the search with.                                *)
(***************************************************************************)
EXTENDS Router

\* Times, indexes and program counters are in range: no subscript of the search
\* (router.c:461-672) leaves its array.
TypeOK ==
    /\ tdata \in Timetables
    /\ pc \in {"idle", "start", "transfers", "routes", "ride", "searched", "planned", "crashed"}
    /\ best_time \in [Stop -> RTime]
    /\ DOMAIN states = Round
    /\ \A r \in Round : DOMAIN states[r] = Stop /\ \A s \in Stop : states[r][s] \in StateRec
    /\ updated_stops \subseteq Stop /\ updated_routes \subseteq Route
    /\ round \in Round \cup {NONE}
    /\ pc = "transfers" => todo \subseteq Stop
    /\ pc = "routes" => todo \subseteq Route
    /\ pc = "ride" => ride.route \in Route /\ ride.stop \in Positions(tdata, ride.route)

(***************************************************************************)
(* The search.                                                             *)
(***************************************************************************)
\* The search never sets out on foot from a stop it did not reach (the ERROR branch at
\* router.c:142-145 is dead, although stops are flagged in one loop and expanded in
\* another), and when apply_transfers ends, every stop reached in the round (and not
\* banned) has a best time equal to its walk time, and a walk time no worse than its
\* ride time: the invariant apply_transfers states at router.c:199-203.
TransfersSettled ==
    pc = "transfers" =>
        /\ \A s \in todo : states[Row(round)][s].time # UNREACHED
        /\ todo = {} => \A s \in updated_stops :
              LET st == states[Row(round)][s]
              IN  /\ st.walk_time = best_time[s]
                  /\ ~Better(req.arrive_by, st.time, st.walk_time)

\* Within a search the best time of a stop only improves, and a row of states is
\* final once its round is over: later rounds and itineraries rely on it
\* (router.c:525-543, 773-860).  Row 1 is exempt while it holds the initial state.
SearchStep ==
    (pc \in {"transfers", "routes", "ride"} /\ pc' # "start") =>
        /\ \A s \in Stop : best_time'[s] = best_time[s]
                              \/ Improves(req.arrive_by, best_time'[s], best_time[s])
        /\ \A r \in Round : (r < round /\ round # NONE) => states'[r] = states[r]

SearchMonotone == [][SearchStep]_vars

\* Every request that arrives is answered with a plan.
RequestAnswered == (pc = "start") ~> (pc = "planned")

\* No reversal takes the marker of a passenger on board for a stop and reads router states
\* outside the array: "do not reverse requests starting on board" (reversal.c:28).  The
\* drivers that make this test keep it, worker.c does not (worker.c:66-68).
NoWildRead == pc # "crashed"

(***************************************************************************)
(* The plan: what check_plan_invariants (router.c:683-771) asks of it.     *)
(***************************************************************************)
\* The time by which itineraries are compared: arrival of a depart-after plan,
\* departure of an arrive-by plan.
TargetTime(legs) == IF req.arrive_by THEN legs[1].t0 ELSE legs[Len(legs)].t1

\* Following the back pointers from the target never meets a stop that was not
\* reached: no itinerary is left half written (router.c:791-813), whatever
\* earlier searches left in the scratch memory.
ChainsUnbroken ==
    pc = "planned" => \A i \in DOMAIN plan : plan[i].ok

\* Legs alternate walk and ride, begin and end at the requested places, and each begins
\* where the one before it ended, although they are read from states of several rounds
\* ("Check that itinerary does indeed connect the places in the request", router.c:714).
PlanConnected ==
    pc = "planned" => \A i \in DOMAIN plan :
        LET legs == plan[i].legs IN
        /\ Len(legs) % 2 = 1
        /\ legs[1].s0 = req.from /\ legs[Len(legs)].s1 = req.to
        /\ \A l \in DOMAIN legs : (legs[l].route = WALK) <=> (l % 2 = 1)
        /\ \A l \in 2..Len(legs) : legs[l].s0 = legs[l - 1].s1

\* Itineraries are ordered by number of legs, and each further ride pays for
\* itself with a strictly better time at the target (router.c:703-712).
PlanPareto ==
    pc = "planned" => \A i, j \in DOMAIN plan : i < j =>
        /\ Len(plan[i].legs) < Len(plan[j].legs)
        /\ Better(req.arrive_by, TargetTime(plan[j].legs), TargetTime(plan[i].legs))

\* A ride leg is a trip that runs that day, boarded and left where that is
\* allowed, at its times; a walk leg takes at least the time the footpath takes.
RideExists(leg) ==
    \E p, q \in Positions(tdata, leg.route), d \in 1..3 :
        LET route == tdata.routes[leg.route] IN
        /\ p < q /\ p \in route.boarding /\ q \in route.alighting
        /\ route.stops[p] = leg.s0 /\ route.stops[q] = leg.s1
        /\ servicedays[d].mask \cap route.trips[leg.trip].mask # {}
        /\ req.trip_attributes \subseteq route.trips[leg.trip].attributes
        /\ leg.t0 = tdata_stoptime(tdata, realtime_delay, leg.route, leg.trip, p, FALSE, servicedays[d])
        /\ leg.t1 = tdata_stoptime(tdata, realtime_delay, leg.route, leg.trip, q, TRUE, servicedays[d])

WalkExists(leg) ==
    /\ leg.s0 = leg.s1 \/ leg.s1 \in DOMAIN tdata.transfers[leg.s0]
    /\ leg.t1 - leg.t0 >= transfer_duration(tdata, req, leg.s0, leg.s1)

\* Every leg of a plan can be travelled on the timetable of the day, with no more
\* transfers than requested.  (The back pointers are written over several rounds,
\* and states never store the service day of a ride: router.c:647-652.)
PlanTravels ==
    (pc = "planned" /\ updates = 0 /\ preq.start_trip_trip = NONE) =>
        \A i \in DOMAIN plan :
            LET legs == plan[i].legs IN
            /\ \A l \in DOMAIN legs : IF legs[l].route = WALK THEN WalkExists(legs[l])
                                      ELSE RideExists(legs[l])
            /\ Len(legs) <= 2 * preq.max_transfers + 3

\* Every connection of a plan is made, also when delays change during the search: no leg
\* begins before the one before it ends, and no walk ends before it begins.
ConnectionsMade ==
    pc = "planned" => \A i \in DOMAIN plan :
        LET legs == plan[i].legs IN
        /\ \A l \in 2..Len(legs) : legs[l - 1].t1 <= legs[l].t0
        /\ \A l \in DOMAIN legs : legs[l].route = WALK => legs[l].t0 <= legs[l].t1

\* Whether an itinerary keeps to the time that was asked for, as check_plan_invariants has
\* it: it leaves no earlier, or arrives no later.
MeetsCriterion(legs) ==
    IF preq.arrive_by THEN legs[Len(legs)].t1 <= preq.time ELSE legs[1].t0 >= preq.time

\* No ride of the itinerary ends after the time that was asked for.
RidesByTime(legs) ==
    \A l \in DOMAIN legs : legs[l].route # WALK => legs[l].t1 <= preq.time

\* Times never decrease along a plan, and after all reversals it keeps to the time asked
\* for as far as the searches do.  The cutoff that a reversal sets ends rides, but a walk
\* passes it (router.c:178), and a search is reversed from the result of one round only
\* (router.c:1123-1133).  So of an arrive-by plan the itinerary with most rides arrives in
\* time, and so does every ride of the others.  A depart-after plan does not leave early,
\* unless few transfers are preferred, which may reverse the search from a walk past its cutoff.
PlanInTime ==
    /\ ConnectionsMade
    /\ pc = "planned" => \A i \in DOMAIN plan :
        LET legs == plan[i].legs IN
        /\ \A l \in DOMAIN legs : legs[l].t0 <= legs[l].t1
        /\ (preq.start_trip_trip = NONE /\ preq.arrive_by) =>
              RidesByTime(legs) /\ (i = Len(plan) => MeetsCriterion(legs))
        /\ (preq.start_trip_trip = NONE /\ ~preq.arrive_by /\ preq.optimise # {"transfers"}) =>
              MeetsCriterion(legs)

(***************************************************************************)
(* Reversals.                                                              *)
(***************************************************************************)
\* A request without a via stop, bans or filters.
Unrestricted(q) ==
    \A f \in {"via", "mode", "agency", "trip_attributes", "banned_route", "banned_stop",
              "banned_stop_hard", "banned_trip"} : q[f] = router_request_initialize[f]

Best(times) ==
    LET reached == times \ {UNREACHED}
    IN  IF reached = {} THEN UNREACHED
        ELSE CHOOSE x \in reached : \A y \in reached : ~Better(req.arrive_by, y, x)

FoundBy(k) == Best({states[r][target].walk_time : r \in {r \in Round : r <= k}})

\* Repeating the search in reverse "to compact transfers" keeps the journey: each
\* reversed search reaches its target, at a time that meets the cutoff the search
\* before it has set.
ReversalKeepsJourney ==
    (pc = "searched" /\ req.time_cutoff # UNREACHED /\ Unrestricted(req)) =>
        LET found == FoundBy(req.max_transfers)
        IN  found # UNREACHED /\ ~Better(req.arrive_by, req.time_cutoff, found)

(***************************************************************************)
(* Bans.                                                                   *)
(***************************************************************************)
RideLegs == UNION {{plan[i].legs[l] : l \in {l \in DOMAIN plan[i].legs : l % 2 = 0}} : i \in DOMAIN plan}

\* The ride is made without a call at this stop on its way: between the place where it is
\* boarded (any, for a passenger on board) and a later one where it is left.
NotThrough(leg, stop) ==
    \E p, q \in Positions(tdata, leg.route) :
        LET stops == tdata.routes[leg.route].stops
        IN  /\ p < q /\ (stops[p] = leg.s0 \/ leg.s0 = ONBOARD)
            /\ stops[q] = leg.s1
            /\ \A b \in Positions(tdata, leg.route) : p < b /\ b < q => stops[b] # stop

\* A banned route is never ridden, but by a passenger who is on it (router.c:64-68).
BannedRouteNotRidden ==
    (pc = "planned" /\ preq.start_trip_trip = NONE) =>
        \A leg \in RideLegs : leg.route # preq.banned_route

\* No ride calls at a hard-banned stop on its way ("we do not want to transit through this
\* station", router.c:509-513).
HardBanKept ==
    pc = "planned" => \A leg \in RideLegs : NotThrough(leg, preq.banned_stop_hard)

\* The first ride of a passenger on board is on the trip they are on.
StaysOnBoard ==
    (pc = "planned" /\ preq.start_trip_trip # NONE /\ req.from = ONBOARD) =>
        \A i \in DOMAIN plan : /\ plan[i].legs[2].route = preq.start_trip_route
                               /\ plan[i].legs[2].trip = preq.start_trip_trip

\* What is printed for a passenger who wants few transfers, or a short journey, is the
\* best of the plan (router.c:939-962).
RenderedBest ==
    LET shortest == plan_render({"shortest"})
        fewest == plan_render({"transfers"})
    IN  pc = "planned" => \A i \in DOMAIN plan :
          /\ ~Better(req.arrive_by, TargetTime(plan[i].legs), TargetTime(shortest[1].legs))
          /\ Len(fewest[1].legs) <= Len(plan[i].legs)

\* Every ride is on a route of a mode and of the agency asked for, on a trip with the
\* attributes asked for (router.c:56-57, 475, 581): routes are filtered where they are flagged,
\* again where they are ridden, and trips where they are boarded.
FiltersKept ==
    (pc = "planned" /\ preq.start_trip_trip = NONE) => \A leg \in RideLegs :
        LET route == tdata.routes[leg.route] IN
        /\ preq.mode \cap route.attributes # {}
        /\ preq.agency \in {NONE, route.agency}
        /\ preq.trip_attributes \subseteq route.trips[leg.trip].attributes

\* However its routes and stops were flagged, by whichever of three searches, a plan keeps
\* to these restrictions: no banned route, no hard-banned stop on the way of a ride, the
\* modes, the agency and the attributes asked for, the trip that a passenger on board is on
\* as their first, and the preference between few transfers and a short journey.  It does
\* not always keep to a banned trip (router.c:576), to a stop that is banned otherwise, or
\* to a stop to change at: README, section 6.
RestrictionsKept ==
    BannedRouteNotRidden /\ HardBanKept /\ FiltersKept /\ StaysOnBoard /\ RenderedBest

(***************************************************************************)
(* Realtime.                                                               *)
(***************************************************************************)
\* "skip this trip if the realtime delay equals CANCELED" (router.c:582): a trip
\* the feed has canceled is never boarded.
CanceledTripNotBoarded ==
    [][(ride'.trip # ride.trip /\ ride'.trip # NONE) =>
        realtime_delay[ride'.route][ride'.trip]
            # StoredDelay([canceled |-> TRUE, delay |-> 0])]_vars

(***************************************************************************)
(* The reference: every place and time a passenger can be at, by           *)
(* quantifying over every trip one could board and leave.                  *)
(***************************************************************************)
\* Whether time b can follow time a in the direction of the search.
Follows(a, b) == a # UNREACHED /\ b # UNREACHED /\ ~Better(req.arrive_by, b, a)

\* Places and times after staying, or walking along one footpath, from <<s, t>>.
AfterWalk(at) ==
    {x \in {LET d == transfer_duration(tdata, req, at[1], u)
            IN  <<u, IF req.arrive_by THEN at[2] - d ELSE at[2] + d>>
              : u \in {at[1]} \cup DOMAIN tdata.transfers[at[1]]} :
        x[2] \in 0..RTIME_THREE_DAYS}

\* Places and times after one ride on trip t of route r on service day d, begun
\* at one of the places and times in A.
AfterRide(A, r, t, d) ==
    LET route == tdata.routes[r]
        on  == IF req.arrive_by THEN route.alighting ELSE route.boarding
        off == IF req.arrive_by THEN route.boarding ELSE route.alighting
        begin(p) == tdata_stoptime(tdata, realtime_delay, r, t, p, req.arrive_by, servicedays[d])
        end(p) == tdata_stoptime(tdata, realtime_delay, r, t, p, ~req.arrive_by, servicedays[d])
        boarded == {p \in on : \E at \in A : at[1] = route.stops[p] /\ Follows(at[2], begin(p))}
    IN  IF servicedays[d].mask \cap route.trips[t].mask = {} THEN {}
        ELSE {<<route.stops[q], end(q)>> : q \in {q \in off :
                /\ end(q) <= RTIME_THREE_DAYS
                /\ \E p \in boarded : Better(req.arrive_by, p, q) /\ Follows(begin(p), end(q))}}

TripDays == {x \in Route \X (1..8) \X (1..3) : x[2] \in Trips(tdata, x[1])}

\* Where and when a passenger can be after at most k rides, each followed by a walk.
Reachable ==
    LET reach[k \in 0..NRounds] ==
          IF k = 0 THEN AfterWalk(<<origin, req.time>>)
          ELSE LET A == reach[k - 1]
                   R == UNION {AfterRide(A, x[1], x[2], x[3]) : x \in TripDays}
               IN  A \cup UNION {AfterWalk(at) : at \in R}
    IN  reach

\* A search without restrictions finds, for each number of rides, the best time at
\* its target that any journey with so many rides can achieve, unless walking alone
\* is as good (router.h:140 "A plan is several pareto-optimal itineraries").
FindsOptimum ==
    (pc = "searched" /\ req.time_cutoff = UNREACHED /\ ~OnBoardStart(req) /\ Unrestricted(req)) =>
        LET reach == Reachable
            optimum(k) == Best({at[2] : at \in {at \in reach[k] : at[1] = target}})
        IN  \A k \in 1..NRounds :
              FoundBy(k - 1) = IF optimum(k) = optimum(0) THEN UNREACHED ELSE optimum(k)

================================================================================
