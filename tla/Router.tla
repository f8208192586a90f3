-------------------------------- MODULE Router ---------------------------------
(***************************************************************************)
(* One worker process answering routing requests: the RAPTOR search of     *)
(* router.c, the reversals the drivers wrap around it (worker.c,           *)
(* worker-web.c, tester.c, reversal.c) and the construction of the plan.   *)
(*                                                                         *)
(* A request is copied (preq), searched, then searched again in the        *)
(* opposite direction up to twice to compress the waiting time, and the    *)
(* last search is turned into a plan.  A search is a sequence of rounds;   *)
(* each round rides every flagged route once, stop by stop, and then       *)
(* applies the footpaths of every stop it improved.                        *)
(*                                                                         *)
(* The delays of the trips live in the timetable file, which every worker  *)
(* maps shared; the realtime process writes them at any moment of a        *)
(* search (TripUpdate).  One step of this module is one stop of one route, *)
(* or the footpaths of one stop; a delay does not change within a step.    *)
(***************************************************************************)
EXTENDS Timetable

CONSTANTS Timetables,    \* the timetable files a worker may have loaded
          Requests(_),   \* the requests clients may send a worker with a timetable
          NowDays,       \* calendar days on which time(NULL) may fall
          TripUpdates,   \* what the realtime feed may say of a trip
          MaxRequests,   \* bound: requests one worker answers
          MaxUpdates,    \* bound: trip updates the realtime process applies
          OnboardGuard   \* the driver tests start_trip_trip before reversing:
                         \* TRUE in worker-web.c, tester.c and reversal.c,
                         \* FALSE in worker.c

VARIABLES
    tdata,           \* the timetable, fixed after tdata_load
    realtime_delay,  \* [route][trip] -> int16_t, shared with the realtime process
    updates,         \* trip updates applied so far
    preq, req,       \* the request as received, and the driver's copy
    reversals,       \* iterations left of the driver's reversal loop
    answered,        \* requests answered so far
    pc,              \* where the worker is
    best_time,       \* best known time at each stop
    states,          \* [round][stop] -> router_state_t
    updated_stops, updated_routes,
    origin, target, servicedays,
    round,           \* round in progress, NONE during the initial transfers
    todo,            \* indexes the current bitset iteration has still to visit
    ride,            \* locals of router_round for the route being ridden
    plan             \* the itineraries of the last answer

request  == <<preq, req, reversals, answered>>
scratch  == <<best_time, states, updated_stops, updated_routes>>
search   == <<origin, target, servicedays>>
position == <<round, todo, ride>>
realtime == <<realtime_delay, updates>>
vars == <<tdata, realtime, request, pc, scratch, search, position, plan>>

StateRec ==
    [time : RTime, board_time : RTime, walk_time : RTime,
     back_stop : Stop \cup {NONE}, back_route : Route \cup {NONE},
     back_trip : Nat \cup {NONE}, walk_from : Stop \cup {NONE}]

\* Every bit of the field is set.
o_all == {"shortest", "transfers", "others"}

\* The defaults every request starts from; parsing overwrites some of the fields.
\* NONE stands for an unset ban and for AGENCY_UNFILTERED.
router_request_initialize ==
    [from |-> NONE, to |-> NONE, via |-> NONE,
     start_trip_route |-> NONE, start_trip_trip |-> NONE,
     time |-> UNREACHED, time_cutoff |-> UNREACHED, walk_speed |-> 15, walk_slack |-> 0,
     arrive_by |-> TRUE, max_transfers |-> RRRR_MAX_ROUNDS - 1, day_mask |-> {},
     mode |-> {"tram", "subway", "rail", "bus", "ferry"}, agency |-> NONE,
     trip_attributes |-> {}, optimise |-> o_all,
     banned_route |-> NONE, banned_stop |-> NONE, banned_stop_hard |-> NONE,
     banned_trip |-> <<NONE, NONE>>]

\* A request to a worker with timetable td.
IsRequest(td, q) ==
    /\ DOMAIN q = DOMAIN router_request_initialize
    /\ q.time \in 0..RTIME_THREE_DAYS /\ q.time_cutoff = UNREACHED
    /\ q.walk_speed \in Nat \ {0} /\ q.walk_slack \in Byte
    /\ q.arrive_by \in BOOLEAN /\ q.max_transfers \in Nat
    /\ q.day_mask \subseteq CalendarDay
    /\ q.optimise \subseteq o_all

\* Its stops, and the trip of a passenger on board, exist.
InRange(td, q) ==
    /\ q.from \in Stop /\ q.to \in Stop /\ q.via \in Stop \cup {NONE}
    /\ \/ q.start_trip_route = NONE /\ q.start_trip_trip = NONE
       \/ q.start_trip_route \in Route /\ q.start_trip_trip \in Trips(td, q.start_trip_route)

ASSUME RouterAssumption ==
    /\ \A td \in Timetables : IsTimetable(td)
    /\ \A td \in Timetables : \A q \in Requests(td) : IsRequest(td, q)
    /\ NowDays \subseteq CalendarDay
    /\ \A u \in TripUpdates : u.canceled \in BOOLEAN /\ u.delay \in Int
    /\ MaxRequests \in Nat /\ MaxUpdates \in Nat
    /\ OnboardGuard \in BOOLEAN

\* An assumption on the clients.  No program tests it: parse.c takes any number, range_check
\* (router.c:1149) is called by nothing, and requests that do not meet it "can and will cause
\* segfaults" (router.c:1142-1147).
ASSUME RangeAssumption == \A td \in Timetables : \A q \in Requests(td) : InRange(td, q)

--------------------------------------------------------------------------------
(***************************************************************************)
(* Realtime updates (tdata_apply_gtfsrt, one entity of a feed message).    *)
(***************************************************************************)

\* The delay stored for an update: a cancellation is the number CANCELED taken
\* for seconds, a delay of more than two hours is dropped, and both go through
\* the conversion to four-second units.
StoredDelay(u) ==
    LET delay_sec == IF u.canceled THEN CANCELED
                     ELSE IF u.delay > 7200 \/ u.delay < -7200 THEN 0
                     ELSE u.delay
    IN  SEC_TO_RTIME(delay_sec)

TripUpdate(u) ==
    /\ updates < MaxUpdates
    /\ u.route \in Route /\ u.trip \in Trips(tdata, u.route)
    /\ realtime_delay' = [realtime_delay EXCEPT ![u.route][u.trip] = StoredDelay(u)]
    /\ updates' = updates + 1
    /\ UNCHANGED <<tdata, request, pc, scratch, search, position, plan>>

--------------------------------------------------------------------------------
(***************************************************************************)
(* The driver: receiving a request and starting a search.                  *)
(***************************************************************************)
OnBoardStart(q) == q.start_trip_route # NONE /\ q.start_trip_trip # NONE

\* Fault: a driver without the test for on-board requests.
NReversalsUnguarded(q) == IF q.arrive_by THEN 1 ELSE 2

NReversals(q) ==
    IF OnboardGuard /\ q.start_trip_trip # NONE THEN 0
    ELSE IF q.arrive_by THEN 1 ELSE 2

Receive(q) ==
    /\ pc = "idle"
    /\ answered < MaxRequests
    /\ preq' = q /\ req' = q
    /\ reversals' = NReversals(q)
    /\ pc' = "start"
    /\ UNCHANGED <<answered, tdata, realtime, scratch, search, position, plan>>

\* Iterating over a bitset: the lowest index, and what is left after it.
FirstOf(S) == CHOOSE x \in S : \A y \in S : x <= y
\* Fault: the iteration resumes at the index just visited.
NextSetBitsAgain(i) == {x \in todo : x >= i}

NextSetBits(i) == {x \in todo : x > i}

unflag_banned_routes(R) == R \ {req.banned_route}
unflag_banned_stops(S) == S \ {req.banned_stop}

\* The row of states a pass of apply_transfers works on, and the row whose walks
\* a round boards from: round 1 lends its row to the initial state.
Row(rnd) == IF rnd = NONE THEN 1 ELSE rnd
LastRow(rnd) == IF rnd = 0 THEN 1 ELSE rnd - 1

\* Fault: walk times survive from one search to the next.
ResetRideTimes ==
    [r \in Round |-> [s \in Stop |-> [states[r][s] EXCEPT !.time = UNREACHED]]]

\* Only the two times are reset: the other fields keep what earlier searches
\* (or malloc) left in them.
ResetStates ==
    [r \in Round |-> [s \in Stop |->
        [states[r][s] EXCEPT !.time = UNREACHED, !.walk_time = UNREACHED]]]

NoRide == [route |-> NONE, stop |-> 0, trip |-> NONE,
           board_stop |-> 0, board_time |-> 0, board_day |-> 0]

\* The stop an on-board passenger passed last, as <<position, time>>: the latest
\* departure of the start trip before the requested time, on service day 1.
PreviousStops(q, days) ==
    LET r == q.start_trip_route
        t == q.start_trip_trip
        dep(p) == tdata_stoptime(tdata, realtime_delay, r, t, p, FALSE, days[2])
        passed == {p \in Positions(tdata, r) : dep(p) < q.time}
    IN  {<<p, dep(p)>> : p \in {p \in passed : \A o \in passed :
            dep(p) > dep(o) \/ (dep(p) = dep(o) /\ p <= o)}}

StartOnBoard(prev) ==
    LET stop == tdata.routes[req.start_trip_route].stops[prev[1]]
    IN  /\ req' = [req EXCEPT !.from = ONBOARD]
        /\ origin' = stop
        /\ best_time' = [s \in Stop |-> IF s = stop THEN prev[2] ELSE UNREACHED]
        /\ states' = [ResetStates EXCEPT ![1][stop].time = prev[2],
                                         ![1][stop].walk_time = prev[2]]
        /\ updated_stops' = {}
        /\ updated_routes' = {req.start_trip_route}
        /\ round' = 0
        /\ todo' = {req.start_trip_route}
        /\ pc' = "routes"

StartAtStop(stop) ==
    /\ origin' = stop
    /\ best_time' = [s \in Stop |-> IF s = stop THEN req.time ELSE UNREACHED]
    /\ states' = [ResetStates EXCEPT
                    ![1][stop] = [@ EXCEPT !.time = req.time, !.back_stop = NONE,
                                           !.back_route = NONE, !.back_trip = NONE,
                                           !.board_time = UNREACHED],
                    ![0][stop].time = req.time]
    /\ updated_stops' = unflag_banned_stops({stop})
    /\ updated_routes' = {}
    /\ round' = NONE
    /\ todo' = unflag_banned_stops({stop})
    /\ pc' = "transfers"
    /\ UNCHANGED req

\* An on-board request in an arrive-by search is refused once the states are reset.
RefuseOnBoard ==
    /\ origin' = req.to
    /\ best_time' = [s \in Stop |-> UNREACHED]
    /\ states' = ResetStates
    /\ round' = NONE
    /\ todo' = {}
    /\ pc' = "searched"
    /\ UNCHANGED <<req, updated_stops, updated_routes>>

\* router_route up to the first round.
StartSearch(now) ==
    LET days == ServiceDays(req.day_mask, req.arrive_by, now)
        prev == IF OnBoardStart(req) THEN PreviousStops(req, days) ELSE {}
    IN  /\ pc = "start"
        /\ servicedays' = days
        /\ target' = IF req.arrive_by THEN req.from ELSE req.to
        /\ \/ OnBoardStart(req) /\ req.arrive_by /\ RefuseOnBoard
           \/ /\ OnBoardStart(req) /\ ~req.arrive_by
              /\ \E p \in prev : StartOnBoard(p)
           \/ /\ ~(OnBoardStart(req) /\ req.arrive_by) /\ prev = {}
              /\ StartAtStop(IF req.arrive_by THEN req.to ELSE req.from)
        /\ ride' = NoRide
        /\ UNCHANGED <<tdata, realtime, preq, reversals, answered, plan>>

--------------------------------------------------------------------------------
(***************************************************************************)
(* apply_transfers, one updated stop per step.                             *)
(***************************************************************************)
DayMask == UNION {servicedays[d].mask : d \in DOMAIN servicedays}

flag_routes_for_stop(s) ==
    {r \in tdata_routes_for_stop(tdata, s) :
        /\ DayMask \cap route_active(tdata, r) # {}
        /\ req.mode \cap tdata.routes[r].attributes # {}}

\* Fault: walking takes no time.
WalkTimeInstant(s, u, t) == t

\* Time at u after walking there from a stop left at time t.
WalkTime(s, u, t) ==
    LET duration == walk_duration(tdata.transfers[s][u], req)
    IN  ToRTime(IF req.arrive_by THEN t - duration ELSE t + duration)

\* Fault: every walk counts as an improvement.
WalkAlways(s, t) ==
    {u \in DOMAIN tdata.transfers[s] :
        /\ WalkTime(s, u, t) <= RTIME_THREE_DAYS
        /\ ~Better(req.arrive_by, WalkTime(s, u, t), t)}

\* Stops whose best time a walk from s, reached by riding at time t, improves.
\* Results past three days and results that wrapped are dropped.
WalkImproves(s, t) ==
    {u \in DOMAIN tdata.transfers[s] :
        LET to == WalkTime(s, u, t)
        IN  /\ to <= RTIME_THREE_DAYS
            /\ ~Better(req.arrive_by, to, t)
            /\ Improves(req.arrive_by, to, best_time[u])}

\* Fault: the better footpath is overwritten.
SelfTransferAlways(s, t) == {s}

\* The stop itself, unless a footpath from elsewhere is a better way to it by now.
SelfTransfer(s, t) == {u \in {s} : t = best_time[s]}

TransferFrom(s) ==
    LET row == Row(round)
        t == states[row][s].time
        self == SelfTransfer(s, t)
        walked == WalkImproves(s, t)
    IN  /\ pc = "transfers" /\ s \in todo
        /\ s = FirstOf(todo)
        /\ todo' = NextSetBits(s)
        /\ IF t = UNREACHED
           THEN UNCHANGED scratch
           ELSE /\ best_time' = [u \in Stop |-> IF u \in walked THEN WalkTime(s, u, t)
                                                ELSE best_time[u]]
                /\ states' = [states EXCEPT ![row] = [u \in Stop |->
                     IF u \in walked
                     THEN [@[u] EXCEPT !.walk_time = WalkTime(s, u, t), !.walk_from = s]
                     ELSE IF u \in self
                     THEN [@[u] EXCEPT !.walk_time = t, !.walk_from = s]
                     ELSE @[u]]]
                /\ updated_routes' =
                     unflag_banned_routes(updated_routes \cup
                        UNION {flag_routes_for_stop(u) : u \in self \cup walked})
                /\ UNCHANGED updated_stops
        /\ UNCHANGED <<tdata, realtime, request, pc, search, round, ride, plan>>

NRounds == IF req.max_transfers + 1 > RRRR_MAX_ROUNDS THEN RRRR_MAX_ROUNDS
           ELSE req.max_transfers + 1

\* Fault: the initial walks stay in row 1.
keep_transfers == states

\* Forget the walks of the initial state, held in row 1 until round 0 has used them.
initialize_transfers ==
    [states EXCEPT ![1] = [s \in Stop |->
        IF s = origin \/ s \in DOMAIN tdata.transfers[origin]
        THEN [@[s] EXCEPT !.walk_time = UNREACHED] ELSE @[s]]]

\* All transfers are done: clear the stops (router.c:197-198), forget the initial
\* walks after round 0 (668-669), and begin the next round or return (449-457).
EndTransfers ==
    LET next == IF round = NONE THEN 0 ELSE round + 1
    IN  /\ pc = "transfers" /\ todo = {}
        /\ updated_stops' = {}
        /\ states' = IF round = 0 THEN initialize_transfers ELSE states
        /\ \/ /\ next < NRounds
              /\ round' = next /\ pc' = "routes" /\ todo' = updated_routes
           \/ /\ next >= NRounds
              /\ round' = round /\ pc' = "searched" /\ todo' = {}
        /\ UNCHANGED <<tdata, realtime, request, best_time, updated_routes, search, ride, plan>>

--------------------------------------------------------------------------------
(***************************************************************************)
(* router_round: riding the flagged routes.                                *)
(***************************************************************************)
FirstPosition(r) == IF req.arrive_by THEN Len(tdata.routes[r].stops) ELSE 1

StartRoute(r) ==
    /\ pc = "routes" /\ r \in todo
    /\ r = FirstOf(todo)
    /\ todo' = NextSetBits(r)
    /\ \/ /\ req.agency \in {NONE, tdata.routes[r].agency}
          /\ Positions(tdata, r) # {}
          /\ ride' = [NoRide EXCEPT !.route = r, !.stop = FirstPosition(r)]
          /\ pc' = "ride"
       \/ /\ req.agency \notin {NONE, tdata.routes[r].agency} \/ Positions(tdata, r) = {}
          /\ UNCHANGED <<ride, pc>>
    /\ UNCHANGED <<tdata, realtime, request, scratch, search, round, plan>>

\* After the last route: banned stops make no transfers, and apply_transfers
\* starts by clearing the flagged routes.
EndRoutes ==
    /\ pc = "routes" /\ todo = {}
    /\ updated_stops' = unflag_banned_stops(updated_stops)
    /\ updated_routes' = {}
    /\ todo' = unflag_banned_stops(updated_stops)
    /\ pc' = "transfers"
    /\ UNCHANGED <<tdata, realtime, request, best_time, states, search, round, ride, plan>>

RideStop == tdata.routes[ride.route].stops[ride.stop]

PrevTime == states[LastRow(round)][RideStop].walk_time

\* Fault: hard bans are ignored.
RideTripOn == ride.trip

\* A hard-banned stop puts the passenger off the trip; the `continue` that
\* follows belongs to the loop over the bans, so the stop itself is not skipped.
RideTrip == IF RideStop = req.banned_stop_hard THEN NONE ELSE ride.trip

StopTime(t, arrive, d) ==
    tdata_stoptime(tdata, realtime_delay, ride.route, t, ride.stop, arrive, servicedays[d])

\* Whether to look for a (better) trip to board at this stop.
AttemptBoard ==
    /\ PrevTime # UNREACHED
    /\ \/ RideTrip = NONE
       \/ req.via = RideStop
       \/ /\ RideTrip # NONE
          /\ ~(req.via # NONE /\ req.via = ride.board_stop)
          /\ LET trip_time == StopTime(RideTrip, req.arrive_by, ride.board_day)
             IN  trip_time # UNREACHED /\ Better(req.arrive_by, PrevTime, trip_time)

\* In time order one boards, then alights; an arrive-by search meets them reversed.
Barred ==
    LET wantsOn  == IF req.arrive_by THEN RideTrip # NONE ELSE AttemptBoard
        wantsOff == IF req.arrive_by THEN AttemptBoard ELSE RideTrip # NONE
    IN  \/ ride.stop \notin tdata.routes[ride.route].boarding /\ wantsOn
        \/ ride.stop \notin tdata.routes[ride.route].alighting /\ wantsOff

\* Faults: a trip may be boarded after it has left; a trip may be boarded on days it does
\* not run, or without the attributes asked for.
BoardableLate(d) == {t \in Trips(tdata, ride.route) : StopTime(t, req.arrive_by, d) # UNREACHED}
BoardableAny(d) ==
    {t \in BoardableLate(d) : ~Better(req.arrive_by, StopTime(t, req.arrive_by, d), PrevTime)}

\* Trips of service day d that can be boarded here.  A banned trip is not skipped:
\* the `continue` meant to skip it belongs to the loop over the bans.
Boardable(d) ==
    {t \in Trips(tdata, ride.route) :
        LET time == StopTime(t, req.arrive_by, d)
            trip == tdata.routes[ride.route].trips[t]
        IN  /\ servicedays[d].mask \cap trip.mask # {}
            /\ req.trip_attributes \subseteq trip.attributes
            /\ realtime_delay[ride.route][t] # CANCELED
            /\ time # UNREACHED
            /\ time = PrevTime \/ Better(req.arrive_by, PrevTime, time)
            /\ req.arrive_by => time > 0}

\* Days on which, by the scheduled time range of the route, trips still run.
RouteRuns(d) ==
    LET route == tdata.routes[ride.route]
    IN  IF req.arrive_by THEN PrevTime >= servicedays[d].midnight + route.min_time
        ELSE PrevTime <= servicedays[d].midnight + route.max_time

\* Fault: the scan stops after the first day even where days overlap.
ScannedDaysFirst ==
    {d \in 1..3 : RouteRuns(d) /\ \A e \in 1..(d - 1) : ~RouteRuns(e) \/ Boardable(e) = {}}

\* Unless the days overlap, the scan stops after the first day that has a trip.
ScannedDays ==
    LET route == tdata.routes[ride.route]
        overlap == route.min_time < route.max_time - RTIME_ONE_DAY
    IN  {d \in 1..3 : RouteRuns(d) /\
            (overlap \/ \A e \in 1..(d - 1) : ~RouteRuns(e) \/ Boardable(e) = {})}

BoardOptions == {o \in (1..3) \X Trips(tdata, ride.route) :
                    o[1] \in ScannedDays /\ o[2] \in Boardable(o[1])}

OptionTime(o) == StopTime(o[2], req.arrive_by, o[1])

\* The scan keeps the first of the best times, in the order of days, then trips.
BestOption(o) ==
    \A p \in BoardOptions :
        \/ Better(req.arrive_by, OptionTime(o), OptionTime(p))
        \/ /\ OptionTime(o) = OptionTime(p)
           /\ o[1] < p[1] \/ (o[1] = p[1] /\ o[2] <= p[2])

\* Fault: the iteration over the stops of a route ends one stop late.
StepRideTooFar(rd) ==
    /\ ride' = [rd EXCEPT !.stop = IF req.arrive_by THEN rd.stop - 1 ELSE rd.stop + 1]
    /\ pc' = IF rd.stop \in Positions(tdata, rd.route) THEN "ride" ELSE "routes"

\* Continue with the next stop of the route, on the given ride.
StepRide(rd) ==
    LET next == IF req.arrive_by THEN rd.stop - 1 ELSE rd.stop + 1
    IN  /\ ride' = [rd EXCEPT !.stop = next]
        /\ pc' = IF next \in Positions(tdata, rd.route) THEN "ride" ELSE "routes"

\* Boarding a trip that leaves before the requested time is refused, except for
\* a passenger who is already on board.
BoardAtStop ==
    /\ pc = "ride" /\ ~Barred /\ AttemptBoard
    /\ \/ BoardOptions = {} /\ StepRide([ride EXCEPT !.trip = RideTrip])
       \/ \E o \in BoardOptions :
            /\ BestOption(o)
            /\ IF Better(req.arrive_by, OptionTime(o), req.time) /\ req.from # ONBOARD
               THEN StepRide([ride EXCEPT !.trip = RideTrip])
               ELSE StepRide([ride EXCEPT !.trip = o[2], !.board_stop = RideStop,
                                          !.board_time = OptionTime(o), !.board_day = o[1]])
    /\ UNCHANGED <<tdata, realtime, request, scratch, search, round, todo, plan>>

\* Fault: equal times are recorded again.
WorthRecordingEqual(time) ==
    /\ time # UNREACHED /\ time <= RTIME_THREE_DAYS
    /\ ~(best_time[target] # UNREACHED /\ Better(req.arrive_by, best_time[target], time))

\* Fault: the cutoff of the search before is not tested.
WorthRecordingAnyTime(time) ==
    /\ time # UNREACHED /\ time <= RTIME_THREE_DAYS
    /\ ~(best_time[target] # UNREACHED /\ Better(req.arrive_by, best_time[target], time))
    /\ Improves(req.arrive_by, time, best_time[RideStop])
    /\ ~Better(req.arrive_by, time, req.time)

\* Whether reaching this stop at the given time is worth recording.
WorthRecording(time) ==
    /\ time # UNREACHED
    /\ ~(best_time[target] # UNREACHED /\ Better(req.arrive_by, best_time[target], time))
    /\ ~(req.time_cutoff # UNREACHED /\ Better(req.arrive_by, req.time_cutoff, time))
    /\ Improves(req.arrive_by, time, best_time[RideStop])
    /\ time <= RTIME_THREE_DAYS
    /\ ~Better(req.arrive_by, time, req.time)

AlightAtStop ==
    LET time == StopTime(RideTrip, ~req.arrive_by, ride.board_day)
    IN  /\ pc = "ride" /\ ~Barred /\ ~AttemptBoard /\ RideTrip # NONE
        /\ \/ ~WorthRecording(time) /\ UNCHANGED scratch
           \/ /\ WorthRecording(time)
              /\ best_time' = [best_time EXCEPT ![RideStop] = time]
              /\ states' = [states EXCEPT ![round][RideStop] =
                    [@ EXCEPT !.time = time, !.back_route = ride.route,
                              !.back_trip = RideTrip, !.back_stop = ride.board_stop,
                              !.board_time = ride.board_time]]
              /\ updated_stops' = updated_stops \cup {RideStop}
              /\ UNCHANGED updated_routes
        /\ StepRide(ride)
        /\ UNCHANGED <<tdata, realtime, request, search, round, todo, plan>>

\* Boarding or alighting is not allowed here, or there is no trip to ride.
PassStop ==
    /\ pc = "ride"
    /\ Barred \/ (~AttemptBoard /\ RideTrip = NONE)
    /\ StepRide([ride EXCEPT !.trip = RideTrip])
    /\ UNCHANGED <<tdata, realtime, request, scratch, search, round, todo, plan>>

--------------------------------------------------------------------------------
(***************************************************************************)
(* router_request_reverse, as the drivers call it: whether or not the      *)
(* request could be reversed, the search runs again.                       *)
(***************************************************************************)
TargetOf(q) == IF q.arrive_by THEN q.from ELSE q.to

ReachedRounds(q) ==
    {r \in Round : r <= q.max_transfers /\ states[r][TargetOf(q)].walk_time # UNREACHED}

\* Fault: the reversed search starts from the end of the ride, before the last walk.
ReversedFromRide(q, r) ==
    [q EXCEPT !.max_transfers = r, !.time_cutoff = q.time,
              !.time = states[r][TargetOf(q)].time, !.arrive_by = ~q.arrive_by]

\* The request in the opposite direction, from the result found in round r.
Reversed(q, r) ==
    [q EXCEPT !.max_transfers = r, !.time_cutoff = q.time,
              !.time = states[r][TargetOf(q)].walk_time, !.arrive_by = ~q.arrive_by]

\* The round whose result is reversed: the last one reached, or the first.
ReversedRound(q) ==
    CHOOSE r \in ReachedRounds(q) : \A o \in ReachedRounds(q) :
        IF q.optimise = {"transfers"} THEN r <= o ELSE r >= o

\* A request that starts on board has no stop as its origin: reversed twice, it
\* reads states some 2^32 elements past the array, which ends the worker.
Reverse ==
    /\ pc = "searched" /\ reversals > 0
    /\ reversals' = reversals - 1
    /\ req' = IF TargetOf(req) \notin Stop THEN req
              ELSE IF ReachedRounds(req) = {} THEN req
              ELSE Reversed(req, ReversedRound(req))
    /\ pc' = IF TargetOf(req) \in Stop THEN "start" ELSE "crashed"
    /\ UNCHANGED <<tdata, realtime, preq, answered, scratch, search, position, plan>>

--------------------------------------------------------------------------------
(***************************************************************************)
(* router_result_to_plan: one itinerary for each number of transfers that  *)
(* reached the target, its legs read backward along the chain of states.   *)
(***************************************************************************)
Leg(s0, s1, t0, t1, route, trip) ==
    [s0 |-> s0, s1 |-> s1, t0 |-> t0, t1 |-> t1, route |-> route, trip |-> trip]

leg_swap(l) == [l EXCEPT !.s0 = l.s1, !.s1 = l.s0, !.t0 = l.t1, !.t1 = l.t0]

Swapped(l) == IF req.arrive_by THEN leg_swap(l) ELSE l

\* Fault: the chain continues from the end of the walk instead of its beginning.
BoardedAtWalk(r, s) ==
    IF s \notin Stop \/ states[r][s].walk_time = UNREACHED THEN NONE ELSE states[r][s].back_stop

\* The stop where the ride was boarded whose walk in round r ends at s: NONE if the chain
\* meets a stop out of range or unreached (the ERROR branches, which leave the rest of
\* the itinerary unwritten).
BoardedAt(r, s) ==
    IF s \notin Stop \/ states[r][s].walk_time = UNREACHED THEN NONE
    ELSE LET u == states[r][s].walk_from IN
         IF u \notin Stop \/ states[r][u].time = UNREACHED THEN NONE ELSE states[r][u].back_stop

\* chain[r]: the stop whose walk in round r the itinerary uses.
Chain(n_xfers) ==
    LET chain[r \in 0..n_xfers] == IF r = n_xfers THEN TargetOf(req) ELSE BoardedAt(r + 1, chain[r + 1])
    IN  chain

ChainOk(n_xfers) ==
    \A r \in 0..n_xfers :
        LET s == Chain(n_xfers)[r] IN
        /\ s \in Stop /\ states[r][s].walk_time # UNREACHED
        /\ states[r][s].walk_from \in Stop
        /\ states[r][states[r][s].walk_from].time # UNREACHED
        /\ states[r][states[r][s].walk_from].back_stop \in Stop

WalkLeg(r, s) ==
    LET u == states[r][s].walk_from
    IN  Swapped(Leg(u, s, states[r][u].time, states[r][s].walk_time, WALK, WALK))

RideLeg(r, s) ==
    LET u == states[r][s].walk_from
        st == states[r][u]
    IN  Swapped(Leg(st.back_stop, u, st.board_time, st.time, st.back_route, st.back_trip))

\* The walk out of the origin is looked up again, not read from the states.
FirstWalk(stop) ==
    LET from == IF req.arrive_by THEN req.to ELSE req.from
        t0 == states[0][from].time
        duration == transfer_duration(tdata, req, from, stop)
    IN  Swapped(Leg(from, stop, t0, ToRTime(IF req.arrive_by THEN t0 - duration ELSE t0 + duration),
                    WALK, WALK))

\* The k-th leg of an itinerary, counted from the search's origin: one walk, then a ride
\* and a walk for each round.
SearchLeg(n_xfers, k) ==
    LET chain == Chain(n_xfers)
        boarded == states[0][states[0][chain[0]].walk_from].back_stop
    IN  IF k = 1
        THEN IF req.start_trip_trip # NONE
             THEN Leg(ONBOARD, ONBOARD, req.time, req.time, WALK, WALK)
             ELSE FirstWalk(boarded)
        ELSE IF k % 2 = 1 THEN WalkLeg((k - 3) \div 2, chain[(k - 3) \div 2])
        ELSE IF k = 2 /\ req.start_trip_trip # NONE
        THEN [RideLeg(0, chain[0]) EXCEPT !.s0 = ONBOARD, !.t0 = req.time]
        ELSE RideLeg((k - 2) \div 2, chain[(k - 2) \div 2])

\* The legs of an itinerary in the order they are travelled.
Legs(n_xfers) ==
    LET n == 2 * n_xfers + 3
    IN  [k \in 1..n |-> SearchLeg(n_xfers, IF req.arrive_by THEN n + 1 - k ELSE k)]

Itinerary(n_xfers) ==
    IF ChainOk(n_xfers) THEN [ok |-> TRUE, legs |-> Legs(n_xfers)]
    ELSE [ok |-> FALSE, legs |-> <<>>]

\* Rounds for which the plan gets an itinerary, in increasing order.
PlanRounds == {r \in Round : states[r][TargetOf(req)].walk_time # UNREACHED}

router_result_to_plan ==
    [i \in 1..Cardinality(PlanRounds) |->
        Itinerary(CHOOSE r \in PlanRounds :
                     Cardinality({o \in PlanRounds : o < r}) = i - 1)]

\* The itineraries that router_result_dump prints: with o_all every one of the plan, else the
\* first, which has the fewest rides, and the last, which is the shortest in time, as wished.
plan_render(optimise) ==
    IF optimise = o_all \/ plan = <<>> THEN plan
    ELSE (IF "transfers" \in optimise THEN <<Head(plan)>> ELSE <<>>)
            \o (IF "shortest" \in optimise THEN <<plan[Len(plan)]>> ELSE <<>>)

\* The answer carries the original request time.
MakePlan ==
    /\ pc = "searched" /\ reversals = 0
    /\ plan' = router_result_to_plan
    /\ pc' = "planned"
    /\ UNCHANGED <<tdata, realtime, request, scratch, search, position>>

Answer ==
    /\ pc = "planned"
    /\ pc' = "idle"
    /\ plan' = <<>>
    /\ answered' = answered + 1
    /\ UNCHANGED <<tdata, realtime, preq, req, reversals, scratch, search, position>>

--------------------------------------------------------------------------------
(***************************************************************************)
(* The specification.                                                      *)
(***************************************************************************)

\* What malloc left in the states: NONE, no index of anything, so that a chain that
\* reads a field nobody wrote breaks (ChainOk).
UndefinedState ==
    [time |-> UNREACHED, board_time |-> UNREACHED, walk_time |-> UNREACHED,
     back_stop |-> NONE, back_route |-> NONE, back_trip |-> NONE, walk_from |-> NONE]

\* tdata_load and router_setup; no request has been read.  The delays are part of
\* the file, so a worker starts with those the realtime process last wrote.
Init ==
    /\ tdata \in Timetables
    /\ realtime_delay = [r \in Route |-> 
                            [t \in Trips(tdata, r) |-> tdata.routes[r].trips[t].realtime_delay]]
    /\ updates = 0
    /\ preq = router_request_initialize /\ req = router_request_initialize
    /\ reversals = 0 /\ answered = 0
    /\ pc = "idle"
    /\ best_time = [s \in Stop |-> UNREACHED]
    /\ states = [r \in Round |-> [s \in Stop |-> UndefinedState]]
    /\ updated_stops = {} /\ updated_routes = {}
    /\ origin = 0 /\ target = 0
    /\ servicedays = ServiceDays({}, FALSE, 0)
    /\ round = NONE /\ todo = {} /\ ride = NoRide
    /\ plan = <<>>

\* A step of the search or of the driver around it.
WorkerStep ==
    \/ \E now \in NowDays : StartSearch(now)
    \/ \E s \in todo : TransferFrom(s)
    \/ EndTransfers
    \/ \E r \in todo : StartRoute(r)
    \/ EndRoutes
    \/ BoardAtStop
    \/ AlightAtStop
    \/ PassStop
    \/ Reverse
    \/ MakePlan
    \/ Answer

\* The bound on requests is reached and the worker waits for another.
Waiting ==
    /\ pc = "idle" /\ answered = MaxRequests
    /\ UNCHANGED vars

Next ==
    \/ \E q \in Requests(tdata) : Receive(q)
    \/ WorkerStep
    \/ \E u \in TripUpdates : TripUpdate(u)
    \/ Waiting

Spec == Init /\ [][Next]_vars

\* The worker is one thread that never blocks inside a search.
FairSpec == Spec /\ WF_vars(WorkerStep)

================================================================================
