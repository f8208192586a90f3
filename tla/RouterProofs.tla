----------------------------- MODULE RouterProofs ------------------------------
(***************************************************************************)
(* What the search guarantees for every timetable, every request and every *)
(* interleaving with the realtime process, in the drivers that test for    *)
(* passengers on board before they reverse a request (OnboardGuard).       *)
(***************************************************************************)
EXTENDS RouterProperties, Induction, TLAPS

(***************************************************************************)
(* Times.                                                                  *)
(***************************************************************************)
\* Whatever an rtime_t is computed from, it is one once it is stored (util.h).
LEMMA ToRTimeType == ASSUME NEW x \in Int PROVE ToRTime(x) \in RTime
BY DEF ToRTime, RTime

\* Stored times are numbers.
LEMMA RTimeInt ==
    (\A x \in RTime : x \in Int /\ x <= UNREACHED) /\ UNREACHED \in RTime /\ 0 \in RTime
<1> DEFINE max == 65535
<1>1. RTime = 0 .. max /\ UNREACHED = max /\ max \in Nat
  BY DEF RTime, UNREACHED
<1> HIDE DEF max
<1> QED
  BY <1>1

\* A time of up to three days is a time a stop can be reached at.
LEMMA ThreeDays ==
    ASSUME NEW x \in 0 .. RTIME_THREE_DAYS
    PROVE  x \in RTime \ {UNREACHED}
<1> DEFINE max == 65535
<1>1. RTime = 0 .. max /\ UNREACHED = max
  BY DEF RTime, UNREACHED
<1>2. max \in Int /\ RTIME_THREE_DAYS \in Int /\ RTIME_THREE_DAYS < max
  BY DEF RTIME_THREE_DAYS
<1> HIDE DEF max
<1> QED
  BY <1>1, <1>2

\* The fields of footpaths and of walking speed and slack are numbers.
LEMMA ByteNat == \A x \in Byte : x \in Nat /\ x \in Int
BY DEF Byte

\* So are delays.
LEMMA Int16Int == \A x \in Int16 : x \in Int
BY DEF Int16

\* The times of a timetable are times, whatever delay is added to them.
LEMMA StopTimeType ==
    ASSUME NEW td, IsTimetable(td), NEW delay, NEW r \in Route, NEW t \in Trips(td, r),
           NEW p \in Positions(td, r), NEW arrive \in BOOLEAN, NEW day,
           day.midnight \in Int, delay[r][t] \in Int
    PROVE  tdata_stoptime(td, delay, r, t, p, arrive, day) \in RTime
<1> DEFINE route == td.routes[r]
           trip == route.trips[t]
<1>1. /\ route.stops \in Seq(Stop) /\ route.trips \in Seq(TripRec(Len(route.stops)))
      /\ p \in 1 .. Len(route.stops) /\ t \in 1 .. Len(route.trips)
  BY DEF IsTimetable, IsRoute, Positions, Trips
<1>2. trip \in TripRec(Len(route.stops))
  BY <1>1
<1>3. trip.begin_time \in Int /\ trip.departure[p] \in Int /\ trip.arrival[p] \in Int
  BY <1>1, <1>2, RTimeInt DEF TripRec
<1>4. tdata_depart(td, r, t, p) \in RTime /\ tdata_arrive(td, r, t, p) \in RTime
  <2> HIDE DEF route
  <2>1. trip.begin_time + trip.departure[p] \in Int /\ trip.begin_time + trip.arrival[p] \in Int
    BY <1>3
  <2> QED
    BY <2>1, ToRTimeType DEF tdata_depart, tdata_arrive, route
<1> DEFINE time == IF arrive THEN tdata_arrive(td, r, t, p) ELSE tdata_depart(td, r, t, p)
           adjusted == ToRTime(time + day.midnight)
<1>5. time \in Int
  BY <1>4, RTimeInt
<1> HIDE DEF time
<1>6. adjusted \in RTime
  BY <1>5, ToRTimeType
<1> HIDE DEF adjusted
<1>7. ToRTime(adjusted + delay[r][t]) \in RTime
  BY <1>6, RTimeInt, ToRTimeType
<1> QED
  BY <1>6, <1>7, RTimeInt DEF tdata_stoptime, time, adjusted

\* A walk takes a time, whatever the speed.
LEMMA WalkDurationType ==
    ASSUME NEW dist \in Nat, NEW q, q.walk_speed \in Nat \ {0}, q.walk_slack \in Byte
    PROVE  walk_duration(dist, q) \in RTime
<1>1. ASSUME NEW x \in Int, NEW y \in Nat \ {0} PROVE x \div y \in Int
  OBVIOUS
<1>2. dist * 160 \in Int
  OBVIOUS
<1>3. (dist * 160) \div q.walk_speed \in Int
  BY <1>1, <1>2
<1> DEFINE sec == (dist * 160) \div q.walk_speed + q.walk_slack
<1>4. sec \in Int
  <2>1. q.walk_slack \in Int
    BY ByteNat
  <2> QED
    BY <1>3, <2>1
<1> HIDE DEF sec
<1>5. sec \div 4 \in Int
  BY <1>1, <1>4
<1> QED
  BY <1>5, ToRTimeType DEF walk_duration, SEC_TO_RTIME, sec

(***************************************************************************)
(* Types.                                                                  *)
(***************************************************************************)
\* While a request is worked on, its copy is well formed.  A passenger on board has no
\* stop of origin once the search has begun, and is searched for only once.
RequestInv ==
    pc # "idle" =>
        /\ DOMAIN req = DOMAIN router_request_initialize
        /\ req.to \in Stop /\ req.from \in Stop \cup {ONBOARD}
        /\ req.time \in RTime \ {UNREACHED}
        /\ req.walk_speed \in Nat \ {0} /\ req.walk_slack \in Byte
        /\ req.arrive_by \in BOOLEAN /\ req.max_transfers \in Nat
        /\ OnBoardStart(req) => /\ req.start_trip_route \in Route
                                /\ req.start_trip_trip \in Trips(tdata, req.start_trip_route)
        /\ req.start_trip_trip # NONE => reversals = 0
        /\ req.from = ONBOARD => req.start_trip_trip # NONE /\ pc # "start" /\ ~req.arrive_by

\* The delays have the shape of the timetable.
DelayInv ==
    /\ DOMAIN realtime_delay = Route
    /\ \A r \in Route : realtime_delay[r] \in [Trips(tdata, r) -> Int]

RideRec ==
    [route : Route \cup {NONE}, stop : Int, trip : Nat \cup {NONE},
     board_stop : Stop, board_time : RTime, board_day : 0 .. 3]

\* Three days, and the locals of a ride.
RideInv ==
    /\ \A d \in 1 .. 3 : servicedays[d].midnight \in Int
    /\ origin \in Stop
    /\ ride \in RideRec
    /\ pc \in {"routes", "ride"} => round \in Round /\ todo \subseteq Route
    /\ pc = "ride" /\ ride.trip # NONE =>
         ride.trip \in Trips(tdata, ride.route) /\ ride.board_day \in 1 .. 3

TypeInv == TypeOK /\ NoWildRead /\ RequestInv /\ DelayInv /\ RideInv

\* The stop a ride calls at is a stop of the timetable, and the ride is on one of the
\* trips of its route or on none.
LEMMA RideFacts ==
    ASSUME TypeInv, pc = "ride"
    PROVE  /\ IsTimetable(tdata)
           /\ RideStop \in Stop
           /\ Trips(tdata, ride.route) \subseteq Nat
           /\ RideTrip # NONE => RideTrip = ride.trip
<1>1. IsTimetable(tdata) /\ ride.route \in Route /\ ride.stop \in Positions(tdata, ride.route)
  BY RouterAssumption DEF TypeInv, TypeOK
<1>2. /\ tdata.routes[ride.route].stops \in Seq(Stop)
      /\ tdata.routes[ride.route].trips \in Seq(TripRec(Len(tdata.routes[ride.route].stops)))
  BY <1>1 DEF IsTimetable, IsRoute
<1>3. RideStop \in Stop
  BY <1>1, <1>2 DEF RideStop, Positions
<1>4. Trips(tdata, ride.route) \subseteq Nat
  BY <1>2 DEF Trips
<1> QED
  BY <1>1, <1>3, <1>4 DEF RideTrip

\* The times a ride compares are times.
LEMMA RideTimes ==
    ASSUME TypeInv, pc = "ride", NEW t \in Trips(tdata, ride.route), NEW arrive \in BOOLEAN,
           NEW d \in 1 .. 3
    PROVE  StopTime(t, arrive, d) \in RTime
<1>1. IsTimetable(tdata) /\ ride.route \in Route /\ ride.stop \in Positions(tdata, ride.route)
  BY RouterAssumption DEF TypeInv, TypeOK
<1>2. realtime_delay[ride.route][t] \in Int /\ servicedays[d].midnight \in Int
  BY <1>1 DEF TypeInv, DelayInv, RideInv
<1> QED
  BY <1>1, <1>2, StopTimeType DEF StopTime

\* Walking from a stop that was left at some time takes until some time.
LEMMA WalkTimes ==
    ASSUME TypeInv, pc # "idle", NEW s \in Stop, NEW u \in DOMAIN tdata.transfers[s], NEW t \in RTime
    PROVE  u \in Stop /\ WalkTime(s, u, t) \in RTime
<1>0. IsTimetable(tdata)
  BY RouterAssumption DEF TypeInv, TypeOK
<1>1. u \in Stop /\ tdata.transfers[s][u] \in Nat
  BY <1>0, ByteNat DEF IsTimetable
<1>2. req.walk_speed \in Nat \ {0} /\ req.walk_slack \in Byte
  BY DEF TypeInv, RequestInv
<1>3. walk_duration(tdata.transfers[s][u], req) \in Int /\ t \in Int
  BY <1>1, <1>2, WalkDurationType, RTimeInt
<1>4. /\ t - walk_duration(tdata.transfers[s][u], req) \in Int
      /\ t + walk_duration(tdata.transfers[s][u], req) \in Int
  BY <1>3
<1> QED
  BY <1>1, <1>4, ToRTimeType DEF WalkTime

\* A step along a route changes nothing of the ride but its position.
LEMMA StepRideType ==
    ASSUME TypeInv, pc = "ride",
           NEW rd \in RideRec,
           rd.route = ride.route, rd.stop = ride.stop,
           rd.trip # NONE => rd.trip \in Trips(tdata, rd.route) /\ rd.board_day \in 1 .. 3,
           StepRide(rd), UNCHANGED <<tdata, round, todo, servicedays, origin>>
    PROVE  /\ pc' \in {"ride", "routes"}
           /\ pc' = "ride" => ride'.route \in Route /\ ride'.stop \in Positions(tdata', ride'.route)
           /\ RideInv'
BY DEF StepRide, TypeInv, TypeOK, RideInv, RideRec

\* Resetting the states before a search keeps them states.
LEMMA ResetStatesType ==
    ASSUME TypeInv
    PROVE  /\ DOMAIN ResetStates = Round
           /\ \A r \in Round : /\ DOMAIN ResetStates[r] = Stop
                               /\ \A s \in Stop : ResetStates[r][s] \in StateRec
<1>1. ASSUME NEW r \in Round, NEW s \in Stop PROVE ResetStates[r][s] \in StateRec
  <2>1. states[r][s] \in StateRec
    BY DEF TypeInv, TypeOK
  <2> QED
    BY <2>1, RTimeInt DEF ResetStates, StateRec
<1> QED
  BY <1>1 DEF ResetStates

\* A worker that waits for its first request is in bounds.
LEMMA TypeInvInit == Init => TypeInv
<1> SUFFICES ASSUME Init PROVE TypeInv
  OBVIOUS
<1> USE DEF Init
<1>1. TypeOK
  BY RTimeInt, SizesAssumption DEF TypeOK, UndefinedState, StateRec, Stop, Round
<1>2. NoWildRead /\ RequestInv
  BY DEF NoWildRead, RequestInv
<1>3. DelayInv
  <2>1. ASSUME NEW r \in Route, NEW t \in Trips(tdata, r)
        PROVE  tdata.routes[r].trips[t].realtime_delay \in Int
    <3>1. IsTimetable(tdata)
      BY RouterAssumption
    <3>2. tdata.routes[r].trips \in Seq(TripRec(Len(tdata.routes[r].stops)))
      BY <3>1 DEF IsTimetable, IsRoute
    <3>3. tdata.routes[r].trips[t] \in TripRec(Len(tdata.routes[r].stops))
      BY <3>2 DEF Trips
    <3> QED
      BY <3>3, Int16Int DEF TripRec
  <2> QED
    BY <2>1 DEF DelayInv
<1>4. RideInv
  BY RTimeInt, SizesAssumption
  DEF RideInv, RideRec, ServiceDays, ServiceDay, NoRide, Stop, RTIME_ONE_DAY, RTIME_TWO_DAYS
<1> QED
  BY <1>1, <1>2, <1>3, <1>4 DEF TypeInv

\* A request that is received is one, and its search has not begun.
LEMMA TypeInvReceive ==
    ASSUME TypeInv, OnboardGuard, NEW q \in Requests(tdata), Receive(q)
    PROVE  TypeInv'
<1>1. IsRequest(tdata, q) /\ InRange(tdata, q)
  BY RouterAssumption, RangeAssumption DEF TypeInv, TypeOK
<1>2. q.time \in RTime \ {UNREACHED}
  BY <1>1, ThreeDays DEF IsRequest
<1>3. q.from # ONBOARD
  BY <1>1 DEF InRange, Stop, ONBOARD
<1>4. RequestInv'
  BY <1>1, <1>2, <1>3 DEF Receive, RequestInv, IsRequest, InRange, NReversals, OnBoardStart
<1>5. (TypeOK /\ NoWildRead /\ DelayInv /\ RideInv)'
  BY DEF Receive, TypeInv, TypeOK, NoWildRead, DelayInv, RideInv, realtime, scratch, search, position
<1> QED
  BY <1>4, <1>5 DEF TypeInv

\* A delay or a cancellation leaves the timetable a timetable.
LEMMA TypeInvTripUpdate ==
    ASSUME TypeInv, NEW u \in TripUpdates, TripUpdate(u)
    PROVE  TypeInv'
<1>1. StoredDelay(u) \in Int
  <2>1. u.canceled \in BOOLEAN /\ u.delay \in Int
    BY RouterAssumption
  <2> QED
    BY <2>1 DEF StoredDelay, SEC_TO_RTIME, CANCELED
<1>2. DelayInv'
  BY <1>1 DEF TripUpdate, TypeInv, DelayInv
<1>3. (TypeOK /\ NoWildRead /\ RequestInv /\ RideInv)'
  BY DEF TripUpdate, TypeInv, TypeOK, NoWildRead, RequestInv, RideInv, request, scratch, search, position
<1> QED
  BY <1>2, <1>3 DEF TypeInv

\* The three days of a search have midnights (router.c: service_day arrays).
LEMMA ServiceDaysType ==
    ASSUME NEW mask, NEW arrive \in BOOLEAN, NEW now, NEW d \in 1 .. 3
    PROVE  ServiceDays(mask, arrive, now)[d].midnight \in Int
BY DEF ServiceDays, ServiceDay, RTIME_ONE_DAY, RTIME_TWO_DAYS

\* The stop a passenger on board passed last is a stop of the trip, passed before the
\* time of the request.
LEMMA PreviousStopsType ==
    ASSUME TypeInv, pc # "idle", OnBoardStart(req), NEW days, days[2].midnight \in Int,
           NEW x \in PreviousStops(req, days)
    PROVE  /\ tdata.routes[req.start_trip_route].stops[x[1]] \in Stop
           /\ x[2] \in RTime \ {UNREACHED}
<1> DEFINE r == req.start_trip_route
           t == req.start_trip_trip
           dep(p) == tdata_stoptime(tdata, realtime_delay, r, t, p, FALSE, days[2])
<1>1. r \in Route /\ t \in Trips(tdata, r) /\ IsTimetable(tdata) /\ realtime_delay[r][t] \in Int
  BY RouterAssumption DEF TypeInv, TypeOK, RequestInv, DelayInv
<1>2. PICK p \in Positions(tdata, r) : x = <<p, dep(p)>> /\ dep(p) < req.time
  BY DEF PreviousStops
<1>3. dep(p) \in RTime
  BY <1>1, StopTimeType
<1>4. tdata.routes[r].stops[p] \in Stop
  BY <1>1 DEF IsTimetable, IsRoute, Positions
<1>5. dep(p) # UNREACHED
  <2> HIDE DEF dep
  <2>2. req.time \in RTime
    BY DEF TypeInv, RequestInv
  <2>3. req.time \in Int /\ dep(p) \in Int /\ UNREACHED \in Int /\ req.time <= UNREACHED
    BY <1>3, <2>2, RTimeInt
  <2> QED
    BY <1>2, <2>3
<1> QED
  BY <1>2, <1>3, <1>4, <1>5

\* A search on board sets out from the next stop of its trip, or from its origin.
LEMMA TypeInvStartOnBoard ==
    ASSUME TypeInv, pc = "start", NEW x, StartOnBoard(x), OnBoardStart(req), ~req.arrive_by,
           tdata.routes[req.start_trip_route].stops[x[1]] \in Stop, x[2] \in RTime \ {UNREACHED},
           UNCHANGED <<tdata, reversals>>
    PROVE  /\ TypeOK' /\ RequestInv'
           /\ pc' = "routes" /\ round' = 0 /\ origin' \in Stop
<1> DEFINE stop == tdata.routes[req.start_trip_route].stops[x[1]]
<1>1. req.start_trip_route \in Route /\ 0 \in Round
  BY SizesAssumption DEF TypeInv, RequestInv, Round
<1>2. RequestInv'
  BY DEF StartOnBoard, TypeInv, RequestInv, OnBoardStart, router_request_initialize
<1>3. ASSUME NEW r \in Round
      PROVE  DOMAIN states'[r] = Stop /\ \A s \in Stop : states'[r][s] \in StateRec
  <2>1. DOMAIN states'[r] = Stop
    BY ResetStatesType DEF StartOnBoard
  <2>2. ASSUME NEW s \in Stop PROVE states'[r][s] \in StateRec
    <3>1. ResetStates[r][s] \in StateRec
      BY ResetStatesType
    <3>2. states'[r][s] = IF r = 1 /\ s = stop
                          THEN [ResetStates[r][s] EXCEPT !.time = x[2], !.walk_time = x[2]]
                          ELSE ResetStates[r][s]
      BY ResetStatesType DEF StartOnBoard, StateRec
    <3> QED
      BY <3>1, <3>2 DEF StateRec
  <2> QED
    BY <2>1, <2>2
<1>4. DOMAIN states' = Round /\ best_time' \in [Stop -> RTime]
  BY ResetStatesType, RTimeInt DEF StartOnBoard
<1> QED
  BY <1>1, <1>2, <1>3, <1>4 DEF StartOnBoard, TypeInv, TypeOK

\* A search at a stop sets out with the time that was asked for.
LEMMA TypeInvStartAtStop ==
    ASSUME TypeInv, pc = "start", NEW stop \in Stop, StartAtStop(stop), UNCHANGED <<tdata, reversals>>
    PROVE  /\ TypeOK' /\ RequestInv'
           /\ pc' = "transfers" /\ origin' \in Stop
<1>1. req.time \in RTime /\ DOMAIN req = DOMAIN router_request_initialize
  BY DEF TypeInv, RequestInv
<1>2. RequestInv'
  BY DEF StartAtStop, TypeInv, RequestInv, OnBoardStart
<1>3. ASSUME NEW r \in Round
      PROVE  DOMAIN states'[r] = Stop /\ \A s \in Stop : states'[r][s] \in StateRec
  <2>1. DOMAIN states'[r] = Stop
    BY ResetStatesType DEF StartAtStop
  <2>2. ASSUME NEW s \in Stop PROVE states'[r][s] \in StateRec
    <3>1. ResetStates[r][s] \in StateRec
      BY ResetStatesType
    <3>2. states'[r][s] = IF r = 1 /\ s = stop
                          THEN [ResetStates[r][s] EXCEPT !.time = req.time, !.back_stop = NONE,
                                  !.back_route = NONE, !.back_trip = NONE, !.board_time = UNREACHED]
                          ELSE IF r = 0 /\ s = stop THEN [ResetStates[r][s] EXCEPT !.time = req.time]
                          ELSE ResetStates[r][s]
      BY ResetStatesType DEF StartAtStop, StateRec
    <3> QED
      BY <1>1, <3>1, <3>2, RTimeInt DEF StateRec
  <2> QED
    BY <2>1, <2>2
<1>4. DOMAIN states' = Round /\ best_time' \in [Stop -> RTime]
  BY <1>1, ResetStatesType, RTimeInt DEF StartAtStop
<1> QED
  BY <1>2, <1>3, <1>4 DEF StartAtStop, unflag_banned_stops, TypeInv, TypeOK

\* However a search sets out, there is one state, in the second row, and no other.
LEMMA TypeInvStartSearch ==
    ASSUME TypeInv, NEW now \in NowDays, StartSearch(now)
    PROVE  TypeInv'
<1> DEFINE days == ServiceDays(req.day_mask, req.arrive_by, now)
<1>1. pc = "start" /\ req.arrive_by \in BOOLEAN /\ req.to \in Stop /\ req.from \in Stop
  BY DEF StartSearch, TypeInv, RequestInv
<1>2. \A d \in 1 .. 3 : days[d].midnight \in Int
  BY <1>1, ServiceDaysType
<1>3. /\ servicedays' = days /\ ride' = NoRide
      /\ UNCHANGED <<tdata, reversals, realtime_delay>>
  BY DEF StartSearch, realtime
<1>4. TypeOK' /\ RequestInv' /\ origin' \in Stop /\ pc' \in {"routes", "transfers", "searched"}
      /\ (pc' = "routes" => round' = 0)
  <2>1. CASE OnBoardStart(req) /\ req.arrive_by /\ RefuseOnBoard
    <3>1. RequestInv'
      BY <1>1, <1>3, <2>1 DEF RefuseOnBoard, TypeInv, RequestInv, OnBoardStart
    <3> QED
      BY <1>1, <1>3, <2>1, <3>1, ResetStatesType, RTimeInt DEF RefuseOnBoard, TypeInv, TypeOK
  <2>2. ASSUME OnBoardStart(req), ~req.arrive_by, NEW x \in PreviousStops(req, days), StartOnBoard(x)
        PROVE  TypeOK' /\ RequestInv' /\ origin' \in Stop /\ pc' = "routes" /\ round' = 0
    <3>1. tdata.routes[req.start_trip_route].stops[x[1]] \in Stop /\ x[2] \in RTime \ {UNREACHED}
      <4> HIDE DEF days
      <4> QED
        BY <1>1, <1>2, <2>2, PreviousStopsType
    <3> QED
      BY <1>1, <1>3, <2>2, <3>1, TypeInvStartOnBoard
  <2>3. CASE StartAtStop(IF req.arrive_by THEN req.to ELSE req.from)
    BY <1>1, <1>3, <2>3, TypeInvStartAtStop
  <2> QED
    BY <1>1, <2>1, <2>2, <2>3 DEF StartSearch
<1>5. NoWildRead' /\ DelayInv'
  BY <1>3, <1>4 DEF TypeInv, NoWildRead, DelayInv
<1>6. RideInv'
  BY <1>2, <1>3, <1>4, SizesAssumption, RTimeInt DEF TypeOK, RideInv, RideRec, NoRide, Stop, Round
<1> QED
  BY <1>4, <1>5, <1>6 DEF TypeInv

\* Walking from a stop writes times and distances that are such.
LEMMA TypeInvTransferFrom ==
    ASSUME TypeInv, NEW s \in todo, TransferFrom(s)
    PROVE  TypeInv'
<1> DEFINE row == Row(round)
           t == states[row][s].time
           self == SelfTransfer(s, t)
           walked == WalkImproves(s, t)
<1>1. /\ pc = "transfers" /\ s \in Stop /\ row \in Round
      /\ UNCHANGED <<tdata, realtime_delay, req, reversals, pc, origin, servicedays, round, ride, updated_stops>>
  <2>1. row \in Round
    BY SizesAssumption DEF TypeInv, TypeOK, Row, Round
  <2>2. pc = "transfers" /\ s \in Stop
    BY DEF TransferFrom, TypeInv, TypeOK
  <2>3. UNCHANGED updated_stops
    BY DEF TransferFrom, scratch
  <2>4. UNCHANGED <<tdata, realtime_delay, req, reversals, pc, origin, servicedays, round, ride>>
    BY DEF TransferFrom, request, realtime, search
  <2> QED
    BY <2>1, <2>2, <2>3, <2>4
<1>2. todo' \subseteq Stop
  BY <1>1 DEF TransferFrom, NextSetBits, TypeInv, TypeOK
<1>3. states[row][s] \in StateRec
  BY <1>1 DEF TypeInv, TypeOK
<1>4. t \in RTime
  BY <1>3 DEF StateRec
<1> HIDE DEF row, t
<1>5. \A u \in walked : u \in Stop /\ WalkTime(s, u, t) \in RTime
  <2>1. \A u \in walked : u \in DOMAIN tdata.transfers[s]
    BY DEF WalkImproves
  <2> QED
    BY <1>1, <1>4, <2>1, WalkTimes
<1>6. CASE t = UNREACHED
  <2>1. UNCHANGED scratch
    BY <1>6 DEF TransferFrom, t, row
  <2> QED
    BY <1>1, <1>2, <2>1 DEF TypeInv, TypeOK, NoWildRead, RequestInv, DelayInv, RideInv, scratch
<1>7. CASE t # UNREACHED
  <2> HIDE DEF walked, self
  <2>1. /\ best_time' = [u \in Stop |-> IF u \in walked THEN WalkTime(s, u, t) ELSE best_time[u]]
        /\ states' = [states EXCEPT ![row] = [u \in Stop |->
              IF u \in walked
              THEN [@[u] EXCEPT !.walk_time = WalkTime(s, u, t), !.walk_from = s]
              ELSE IF u \in self
              THEN [@[u] EXCEPT !.walk_time = t, !.walk_from = s]
              ELSE @[u]]]
        /\ updated_routes' =
              unflag_banned_routes(updated_routes \cup
                 UNION {flag_routes_for_stop(u) : u \in self \cup walked})
    BY <1>7 DEF TransferFrom, t, row, walked, self
  <2>2. best_time' \in [Stop -> RTime]
    BY <1>5, <2>1 DEF TypeInv, TypeOK
  <2>3. updated_routes' \subseteq Route
    BY <2>1 DEF unflag_banned_routes, flag_routes_for_stop, tdata_routes_for_stop, TypeInv, TypeOK
  <2>4. DOMAIN states' = Round
    BY <2>1 DEF TypeInv, TypeOK
  <2>5. ASSUME NEW r \in Round
        PROVE  DOMAIN states'[r] = Stop /\ \A u \in Stop : states'[r][u] \in StateRec
    <3>1. CASE r = row
      <4>1. DOMAIN states'[r] = Stop
        BY <1>1, <2>1, <3>1 DEF TypeInv, TypeOK
      <4>2. ASSUME NEW u \in Stop PROVE states'[r][u] \in StateRec
        <5>1. states[r][u] \in StateRec
          BY DEF TypeInv, TypeOK
        <5>2. states'[r][u] = IF u \in walked
                  THEN [states[r][u] EXCEPT !.walk_time = WalkTime(s, u, t), !.walk_from = s]
                  ELSE IF u \in self THEN [states[r][u] EXCEPT !.walk_time = t, !.walk_from = s]
                  ELSE states[r][u]
          BY <2>1, <3>1 DEF TypeInv, TypeOK
        <5> QED
          BY <1>1, <1>4, <1>5, <5>1, <5>2 DEF StateRec
      <4> QED
        BY <4>1, <4>2
    <3>2. CASE r # row
      BY <2>1, <3>2 DEF TypeInv, TypeOK
    <3> QED
      BY <3>1, <3>2
  <2>6. TypeOK'
    BY <1>1, <1>2, <2>2, <2>3, <2>4, <2>5 DEF TypeInv, TypeOK
  <2> QED
    BY <1>1, <2>6 DEF TypeInv, NoWildRead, RequestInv, DelayInv, RideInv
<1> QED
  BY <1>6, <1>7

\* The next round has a row of its own, or the search is over.
LEMMA TypeInvEndTransfers ==
    ASSUME TypeInv, EndTransfers
    PROVE  TypeInv'
<1>1. /\ pc = "transfers" /\ pc' \in {"routes", "searched"}
      /\ todo' \subseteq updated_routes
      /\ UNCHANGED <<tdata, realtime_delay, req, reversals, origin, servicedays, ride, best_time, updated_routes>>
      /\ updated_stops' = {}
      /\ states' = IF round = 0 THEN initialize_transfers ELSE states
  BY DEF EndTransfers, request, realtime, search
<1>2. round' \in Round \cup {NONE} /\ (pc' = "routes" => round' \in Round)
  <2>1. NRounds \in Int /\ NRounds <= RRRR_MAX_ROUNDS /\ RRRR_MAX_ROUNDS \in Nat
    BY <1>1, SizesAssumption DEF NRounds, TypeInv, RequestInv
  <2> QED
    BY <1>1, <2>1 DEF EndTransfers, Round, NONE, TypeInv, TypeOK
<1>3. DOMAIN states' = Round
  BY <1>1 DEF initialize_transfers, TypeInv, TypeOK
<1>4. ASSUME NEW r \in Round
      PROVE  DOMAIN states'[r] = Stop /\ \A s \in Stop : states'[r][s] \in StateRec
  <2>1. DOMAIN states'[r] = Stop
    BY <1>1 DEF initialize_transfers, TypeInv, TypeOK
  <2>2. ASSUME NEW s \in Stop PROVE states'[r][s] \in StateRec
    <3>1. states[r][s] \in StateRec
      BY DEF TypeInv, TypeOK
    <3>2. states'[r][s] \in {states[r][s], [states[r][s] EXCEPT !.walk_time = UNREACHED]}
      BY <1>1 DEF initialize_transfers, TypeInv, TypeOK
    <3> QED
      BY <3>1, <3>2, RTimeInt DEF StateRec
  <2> QED
    BY <2>1, <2>2
<1>5. TypeOK'
  BY <1>1, <1>2, <1>3, <1>4 DEF TypeInv, TypeOK
<1> QED
  BY <1>1, <1>2, <1>5 DEF TypeInv, TypeOK, NoWildRead, RequestInv, DelayInv, RideInv

\* A ride starts at the end of the route it is scanned from.
LEMMA TypeInvStartRoute ==
    ASSUME TypeInv, NEW r \in todo, StartRoute(r)
    PROVE  TypeInv'
<1>1. /\ pc = "routes" /\ r \in Route /\ todo' \subseteq todo /\ pc' \in {"ride", "routes"}
      /\ UNCHANGED <<tdata, realtime_delay, req, reversals, origin, servicedays, round, scratch>>
  BY DEF StartRoute, NextSetBits, TypeInv, TypeOK, request, realtime, search
<1>2. tdata.routes[r].stops \in Seq(Stop) /\ req.arrive_by \in BOOLEAN
  BY <1>1, RouterAssumption DEF TypeInv, TypeOK, RequestInv, IsTimetable, IsRoute
<1>3. Positions(tdata, r) # {} => FirstPosition(r) \in Positions(tdata, r) /\ FirstPosition(r) \in Int
  BY <1>2 DEF FirstPosition, Positions
<1>4. /\ pc' = "ride" => ride' = [NoRide EXCEPT !.route = r, !.stop = FirstPosition(r)] /\ Positions(tdata, r) # {}
      /\ pc' # "ride" => ride' = ride
  BY <1>1 DEF StartRoute
<1>5. pc' = "ride" => ride'.route \in Route /\ ride'.stop \in Positions(tdata, ride'.route)
  BY <1>1, <1>3, <1>4 DEF NoRide
<1>6. TypeOK'
  BY <1>1, <1>5 DEF TypeInv, TypeOK, scratch
<1>7. RideInv'
  <2>1. 0 \in Stop
    BY SizesAssumption DEF Stop
  <2>2. CASE pc' = "ride"
    <3>1. ride' = [route |-> r, stop |-> FirstPosition(r), trip |-> NONE,
                   board_stop |-> 0, board_time |-> 0, board_day |-> 0]
      BY <1>4, <2>2 DEF NoRide
    <3>2. ride' \in RideRec
      BY <1>1, <1>3, <1>4, <2>1, <2>2, <3>1, RTimeInt DEF RideRec
    <3> QED
      BY <1>1, <3>1, <3>2 DEF TypeInv, RideInv
  <2>3. CASE pc' # "ride"
    BY <1>1, <1>4, <2>3 DEF TypeInv, RideInv
  <2> QED
    BY <2>2, <2>3
<1> QED
  BY <1>1, <1>6, <1>7 DEF TypeInv, NoWildRead, RequestInv, DelayInv

\* After the routes come the transfers of the same round.
LEMMA TypeInvEndRoutes ==
    ASSUME TypeInv, EndRoutes
    PROVE  TypeInv'
BY DEF EndRoutes, unflag_banned_stops, TypeInv, TypeOK, NoWildRead, RequestInv, DelayInv, RideInv,
       request, realtime, search

\* What the next step of a ride leaves alone.
LEMMA TypeInvRide ==
    ASSUME TypeInv, pc = "ride", TypeOK', RideInv', pc' \in {"ride", "routes"},
           UNCHANGED <<tdata, realtime, request>>
    PROVE  TypeInv'
BY DEF TypeInv, NoWildRead, RequestInv, DelayInv, request, realtime

\* A trip is boarded at a stop of its route, on a service day of the search.
LEMMA TypeInvBoardAtStop ==
    ASSUME TypeInv, BoardAtStop
    PROVE  TypeInv'
<1>1. pc = "ride" /\ UNCHANGED <<tdata, realtime, request, scratch, search, round, todo, plan>>
  BY DEF BoardAtStop
<1>2. ride \in RideRec
      /\ (ride.trip # NONE => ride.trip \in Trips(tdata, ride.route) /\ ride.board_day \in 1 .. 3)
  BY <1>1 DEF TypeInv, RideInv
<1>3. RideStop \in Stop /\ Trips(tdata, ride.route) \subseteq Nat /\ (RideTrip # NONE => RideTrip = ride.trip)
  BY <1>1, RideFacts
<1> DEFINE Steps == /\ pc' \in {"ride", "routes"}
                    /\ pc' = "ride" => ride'.route \in Route /\ ride'.stop \in Positions(tdata', ride'.route)
                    /\ RideInv'
<1>4. ASSUME StepRide([ride EXCEPT !.trip = RideTrip]) PROVE Steps
  <2> DEFINE rd == [ride EXCEPT !.trip = RideTrip]
  <2>1. rd \in RideRec
    BY <1>2, <1>3 DEF RideRec
  <2>2. /\ rd.route = ride.route /\ rd.stop = ride.stop
        /\ rd.trip # NONE => rd.trip \in Trips(tdata, rd.route) /\ rd.board_day \in 1 .. 3
    BY <1>2, <1>3 DEF RideRec
  <2> HIDE DEF rd
  <2>3. StepRide(rd) /\ UNCHANGED <<tdata, round, todo, servicedays, origin>>
    BY <1>1, <1>4 DEF rd, search
  <2> QED
    BY <1>1, <2>1, <2>2, <2>3, StepRideType
<1>5. ASSUME NEW o \in BoardOptions,
             StepRide([ride EXCEPT !.trip = o[2], !.board_stop = RideStop,
                                   !.board_time = OptionTime(o), !.board_day = o[1]])
      PROVE  Steps
  <2> DEFINE rd == [ride EXCEPT !.trip = o[2], !.board_stop = RideStop,
                                !.board_time = OptionTime(o), !.board_day = o[1]]
  <2>1. o[1] \in 1 .. 3 /\ o[2] \in Trips(tdata, ride.route)
    BY DEF BoardOptions
  <2>2. OptionTime(o) \in RTime
    <3>1. req.arrive_by \in BOOLEAN
      BY <1>1 DEF TypeInv, RequestInv
    <3> QED
      BY <1>1, <2>1, <3>1, RideTimes DEF OptionTime
  <2>3. rd \in RideRec
    <3>1. o[1] \in 0 .. 3 /\ o[2] \in Nat \cup {NONE}
      BY <1>3, <2>1
    <3> DEFINE a == [ride EXCEPT !.trip = o[2]]
               b == [a EXCEPT !.board_stop = RideStop]
               c == [b EXCEPT !.board_time = OptionTime(o)]
    <3>2. a \in RideRec
      BY <1>2, <3>1 DEF RideRec
    <3> HIDE DEF a
    <3>3. b \in RideRec
      BY <1>3, <3>2 DEF RideRec
    <3> HIDE DEF b
    <3>4. c \in RideRec
      BY <2>2, <3>3 DEF RideRec
    <3> HIDE DEF c
    <3>5. [c EXCEPT !.board_day = o[1]] \in RideRec
      BY <3>1, <3>4 DEF RideRec
    <3> QED
      BY <3>5 DEF a, b, c
  <2>4. /\ rd.route = ride.route /\ rd.stop = ride.stop
        /\ rd.trip # NONE => rd.trip \in Trips(tdata, rd.route) /\ rd.board_day \in 1 .. 3
    BY <1>2, <2>1 DEF RideRec
  <2> HIDE DEF rd
  <2>5. StepRide(rd) /\ UNCHANGED <<tdata, round, todo, servicedays, origin>>
    BY <1>1, <1>5 DEF rd, search
  <2> QED
    BY <1>1, <2>3, <2>4, <2>5, StepRideType
<1>6. Steps
  BY <1>4, <1>5 DEF BoardAtStop
<1> HIDE DEF Steps
<1>7. TypeOK'
  BY <1>1, <1>6 DEF TypeInv, TypeOK, RideInv, scratch, Steps
<1> QED
  BY <1>1, <1>6, <1>7, TypeInvRide DEF Steps

\* Passing a stop, the scan moves on along the route.
LEMMA TypeInvPassStop ==
    ASSUME TypeInv, PassStop
    PROVE  TypeInv'
<1> DEFINE rd == [ride EXCEPT !.trip = RideTrip]
<1>1. pc = "ride" /\ UNCHANGED <<tdata, realtime, request, scratch, search, round, todo, plan>>
  BY DEF PassStop
<1>2. ride \in RideRec
      /\ (ride.trip # NONE => ride.trip \in Trips(tdata, ride.route) /\ ride.board_day \in 1 .. 3)
  BY <1>1 DEF TypeInv, RideInv
<1>3. RideTrip # NONE => RideTrip = ride.trip
  BY <1>1, RideFacts
<1>4. rd \in RideRec
  BY <1>2, <1>3 DEF RideRec
<1>5. /\ rd.route = ride.route /\ rd.stop = ride.stop
      /\ rd.trip # NONE => rd.trip \in Trips(tdata, rd.route) /\ rd.board_day \in 1 .. 3
  BY <1>2, <1>3 DEF RideRec
<1> HIDE DEF rd
<1>6. StepRide(rd) /\ UNCHANGED <<tdata, round, todo, servicedays, origin>>
  BY <1>1 DEF PassStop, rd, search
<1>7. /\ pc' \in {"ride", "routes"}
      /\ pc' = "ride" => ride'.route \in Route /\ ride'.stop \in Positions(tdata', ride'.route)
      /\ RideInv'
  BY <1>1, <1>4, <1>5, <1>6, StepRideType
<1>8. TypeOK'
  BY <1>1, <1>7 DEF TypeInv, TypeOK, RideInv, scratch
<1> QED
  BY <1>1, <1>7, <1>8, TypeInvRide

\* What is recorded at a stop is a trip of a route, where it was boarded and when.
LEMMA TypeInvAlightAtStop ==
    ASSUME TypeInv, AlightAtStop
    PROVE  TypeInv'
<1> DEFINE time == StopTime(RideTrip, ~req.arrive_by, ride.board_day)
<1>1. /\ pc = "ride" /\ RideTrip # NONE /\ StepRide(ride)
      /\ UNCHANGED <<tdata, realtime, request, search, round, todo, plan>>
  BY DEF AlightAtStop
<1>2. ride \in RideRec
      /\ (ride.trip # NONE => ride.trip \in Trips(tdata, ride.route) /\ ride.board_day \in 1 .. 3)
  BY <1>1 DEF TypeInv, RideInv
<1>3. RideStop \in Stop /\ RideTrip = ride.trip /\ Trips(tdata, ride.route) \subseteq Nat
  BY <1>1, RideFacts
<1>4. time \in RTime
  BY <1>1, <1>2, <1>3, RideTimes DEF TypeInv, RequestInv
<1> HIDE DEF time
<1>5. /\ pc' \in {"ride", "routes"}
      /\ pc' = "ride" => ride'.route \in Route /\ ride'.stop \in Positions(tdata', ride'.route)
      /\ RideInv'
  BY <1>1, <1>2, StepRideType DEF search
<1>6. CASE UNCHANGED scratch
  <2>1. TypeOK'
    BY <1>1, <1>5, <1>6 DEF TypeInv, TypeOK, RideInv, scratch
  <2> QED
    BY <1>1, <1>5, <2>1, TypeInvRide
<1>7. CASE /\ best_time' = [best_time EXCEPT ![RideStop] = time]
           /\ states' = [states EXCEPT ![round][RideStop] =
                 [@ EXCEPT !.time = time, !.back_route = ride.route,
                           !.back_trip = RideTrip, !.back_stop = ride.board_stop,
                           !.board_time = ride.board_time]]
           /\ updated_stops' = updated_stops \cup {RideStop}
           /\ UNCHANGED updated_routes
  <2>1. best_time' \in [Stop -> RTime] /\ updated_stops' \subseteq Stop
    BY <1>3, <1>4, <1>7 DEF TypeInv, TypeOK
  <2>2. DOMAIN states' = Round
    BY <1>7 DEF TypeInv, TypeOK
  <2>3. ASSUME NEW r \in Round
        PROVE  DOMAIN states'[r] = Stop /\ \A s \in Stop : states'[r][s] \in StateRec
    <3>1. DOMAIN states'[r] = Stop
      BY <1>7 DEF TypeInv, TypeOK
    <3>2. ASSUME NEW s \in Stop PROVE states'[r][s] \in StateRec
      <4>1. states[r][s] \in StateRec
        BY DEF TypeInv, TypeOK
      <4>2. states'[r][s] = IF r = round /\ s = RideStop
                            THEN [states[r][s] EXCEPT !.time = time, !.back_route = ride.route,
                                    !.back_trip = RideTrip, !.back_stop = ride.board_stop,
                                    !.board_time = ride.board_time]
                            ELSE states[r][s]
        BY <1>7 DEF TypeInv, TypeOK
      <4> QED
        BY <1>1, <1>2, <1>3, <1>4, <4>1, <4>2 DEF StateRec, RideRec
    <3> QED
      BY <3>1, <3>2
  <2>4. TypeOK'
    BY <1>1, <1>5, <1>7, <2>1, <2>2, <2>3 DEF TypeInv, TypeOK, RideInv
  <2> QED
    BY <1>1, <1>5, <2>4, TypeInvRide
<1> QED
  BY <1>6, <1>7 DEF AlightAtStop, time, scratch

\* A search that reached its target has a round to reverse.
LEMMA ReversedRoundType ==
    ASSUME TypeInv, ReachedRounds(req) # {}
    PROVE  ReversedRound(req) \in ReachedRounds(req)
<1> DEFINE n == RRRR_MAX_ROUNDS - 1
           S == ReachedRounds(req)
<1>1. n \in Nat /\ S \in SUBSET (0 .. n)
  BY SizesAssumption DEF ReachedRounds, Round
<1>2. \E x \in S : \A y \in S : x <= y
  <2>1. S \in SUBSET Nat
    BY <1>1
  <2> HIDE DEF S
  <2> QED
    BY <2>1, LeastNat DEF S
<1>3. \E x \in S : \A y \in S : x >= y
  <2> HIDE DEF S, n
  <2>1. \E x \in S : \A y \in S : y <= x
    BY <1>1, GreatestIndex DEF S
  <2> QED
    BY <1>1, <2>1
<1>4. \E x \in S : \A y \in S : IF req.optimise = {"transfers"} THEN x <= y ELSE x >= y
  <2> HIDE DEF S
  <2> QED
    BY <1>2, <1>3
<1> QED
  BY <1>4 DEF ReversedRound

\* The reversed search is for a time that was reached.
LEMMA TypeInvReverse ==
    ASSUME TypeInv, Reverse
    PROVE  TypeInv'
<1>1. /\ pc = "searched" /\ reversals > 0 /\ reversals' = reversals - 1
      /\ UNCHANGED <<tdata, realtime_delay, scratch, search, position>>
  BY DEF Reverse, realtime
<1>2. req.start_trip_trip = NONE /\ req.from \in Stop /\ req.to \in Stop /\ req.arrive_by \in BOOLEAN
  BY <1>1 DEF TypeInv, RequestInv
<1>3. TargetOf(req) \in Stop
  BY <1>2 DEF TargetOf
<1>4. pc' = "start" /\ req' = IF ReachedRounds(req) = {} THEN req ELSE Reversed(req, ReversedRound(req))
  BY <1>3 DEF Reverse
<1>5. RequestInv'
  <2>1. CASE ReachedRounds(req) = {}
    BY <1>1, <1>2, <1>4, <2>1 DEF TypeInv, RequestInv, OnBoardStart
  <2>2. CASE ReachedRounds(req) # {}
    <3> DEFINE r == ReversedRound(req)
               time == states[r][TargetOf(req)].walk_time
    <3>1. r \in Round /\ time # UNREACHED
      BY <2>2, ReversedRoundType DEF ReachedRounds
    <3>2. r \in Nat
      BY <3>1 DEF Round
    <3>3. time \in RTime
      BY <1>3, <3>1 DEF TypeInv, TypeOK, StateRec
    <3> HIDE DEF r, time
    <3>4. req' = [req EXCEPT !.max_transfers = r, !.time_cutoff = req.time,
                             !.time = time, !.arrive_by = ~req.arrive_by]
      BY <1>4, <2>2 DEF Reversed, r, time
    <3>5. DOMAIN req = DOMAIN router_request_initialize
      BY <1>1 DEF TypeInv, RequestInv
    <3>6. /\ DOMAIN req' = DOMAIN router_request_initialize
          /\ req'.time = time /\ req'.max_transfers = r /\ req'.arrive_by = ~req.arrive_by
          /\ req'.from = req.from /\ req'.to = req.to
          /\ req'.start_trip_trip = req.start_trip_trip
          /\ req'.walk_speed = req.walk_speed /\ req'.walk_slack = req.walk_slack
      BY <3>4, <3>5 DEF router_request_initialize
    <3>7. req.from # ONBOARD
      BY <1>2 DEF Stop, ONBOARD
    <3> QED
      BY <1>1, <1>2, <1>4, <3>1, <3>2, <3>3, <3>6, <3>7 DEF TypeInv, RequestInv, OnBoardStart
  <2> QED
    BY <2>1, <2>2
<1>6. TypeOK'
  BY <1>1, <1>4 DEF TypeInv, TypeOK, scratch, search, position
<1> QED
  BY <1>1, <1>4, <1>5, <1>6 DEF TypeInv, NoWildRead, DelayInv, RideInv, search, position

\* Having answered, the worker waits again.
LEMMA TypeInvAnswer ==
    ASSUME TypeInv, MakePlan \/ Answer \/ UNCHANGED vars
    PROVE  TypeInv'
<1>1. UNCHANGED <<tdata, realtime, req, reversals, scratch, search, position>>
  BY DEF MakePlan, Answer, vars, request
<1>2. \/ pc = "searched" /\ pc' = "planned"
      \/ pc = "planned" /\ pc' = "idle"
      \/ pc' = pc
  BY DEF MakePlan, Answer, vars
<1>3. TypeOK'
  BY <1>1, <1>2 DEF TypeInv, TypeOK, scratch, search, position
<1>4. (NoWildRead /\ DelayInv /\ RideInv)'
  BY <1>1, <1>2 DEF TypeInv, NoWildRead, DelayInv, RideInv, realtime, search, position
<1>5. RequestInv'
  BY <1>1, <1>2 DEF TypeInv, RequestInv
<1> QED
  BY <1>3, <1>4, <1>5 DEF TypeInv

\* The step of the type invariant: every action is one of the cases above.
LEMMA TypeInvStep ==
    ASSUME TypeInv, OnboardGuard, [Next]_vars
    PROVE  TypeInv'
<1>1. ASSUME NEW q \in Requests(tdata), Receive(q) PROVE TypeInv'
  BY <1>1, TypeInvReceive
<1>2. ASSUME NEW u \in TripUpdates, TripUpdate(u) PROVE TypeInv'
  BY <1>2, TypeInvTripUpdate
<1>3. ASSUME NEW now \in NowDays, StartSearch(now) PROVE TypeInv'
  BY <1>3, TypeInvStartSearch
<1>4. ASSUME NEW s \in todo, TransferFrom(s) \/ StartRoute(s) PROVE TypeInv'
  BY <1>4, TypeInvTransferFrom, TypeInvStartRoute
<1>5. ASSUME EndTransfers \/ EndRoutes PROVE TypeInv'
  BY <1>5, TypeInvEndTransfers, TypeInvEndRoutes
<1>6. ASSUME BoardAtStop \/ AlightAtStop \/ PassStop PROVE TypeInv'
  BY <1>6, TypeInvBoardAtStop, TypeInvAlightAtStop, TypeInvPassStop
<1>7. ASSUME Reverse PROVE TypeInv'
  BY <1>7, TypeInvReverse
<1>8. ASSUME MakePlan \/ Answer \/ UNCHANGED vars PROVE TypeInv'
  BY <1>8, TypeInvAnswer
<1> QED
  BY <1>1, <1>2, <1>3, <1>4, <1>5, <1>6, <1>7, <1>8 DEF Next, WorkerStep, Waiting

\* The invariant that everything below rests on.
LEMMA TypeInvariant == ASSUME OnboardGuard PROVE Spec => []TypeInv
<1>1. TypeInv /\ [Next]_vars => TypeInv'
  BY TypeInvStep
<1> QED
  BY <1>1, TypeInvInit, PTL DEF Spec

\* With a request whose stops and trip exist (RangeAssumption), no subscript of the search
\* leaves its array (router.c:461-672), whatever timetable is loaded, whatever else is asked
\* and whenever the delays change.
THEOREM SearchInBounds == ASSUME OnboardGuard PROVE Spec => []TypeOK
<1>1. TypeInv => TypeOK
  BY DEF TypeInv
<1> QED
  BY <1>1, TypeInvariant, PTL

\* A driver that does not reverse the requests of passengers on board never reads the
\* states of a stop that does not exist (router.c:1110-1140).
THEOREM OnBoardNeverReversed == ASSUME OnboardGuard PROVE Spec => []NoWildRead
<1>1. TypeInv => NoWildRead
  BY DEF TypeInv
<1> QED
  BY <1>1, TypeInvariant, PTL

(***************************************************************************)
(* Progress of a search.                                                   *)
(***************************************************************************)
LEMMA SearchStepHolds ==
    ASSUME TypeInv, [Next]_vars
    PROVE  SearchStep
<1> SUFFICES ASSUME pc \in {"transfers", "routes", "ride"}
             PROVE  /\ \A s \in Stop : best_time'[s] = best_time[s]
                                          \/ Improves(req.arrive_by, best_time'[s], best_time[s])
                    /\ \A r \in Round : (r < round /\ round # NONE) => states'[r] = states[r]
  BY DEF SearchStep
<1>1. CASE UNCHANGED <<best_time, states>>
  BY <1>1
<1>2. ASSUME NEW s \in todo, TransferFrom(s), ~UNCHANGED scratch
      PROVE  /\ \A u \in Stop : best_time'[u] = best_time[u]
                                   \/ Improves(req.arrive_by, best_time'[u], best_time[u])
             /\ \A r \in Round : (r < round /\ round # NONE) => states'[r] = states[r]
  <2> DEFINE t == states[Row(round)][s].time
  <2>1. /\ best_time' = [u \in Stop |-> IF u \in WalkImproves(s, t) THEN WalkTime(s, u, t) ELSE best_time[u]]
        /\ \A r \in Round : r # Row(round) => states'[r] = states[r]
    BY <1>2 DEF TransferFrom, TypeInv, TypeOK
  <2>2. \A u \in WalkImproves(s, t) : Improves(req.arrive_by, WalkTime(s, u, t), best_time[u])
    BY DEF WalkImproves
  <2>3. \A r \in Round : (r < round /\ round # NONE) => r # Row(round)
    BY DEF Row, TypeInv, TypeOK, Round
  <2> HIDE DEF t
  <2> QED
    BY <2>1, <2>2, <2>3
<1>3. CASE EndTransfers
  BY <1>3 DEF EndTransfers, initialize_transfers, Round, TypeInv, TypeOK
<1>4. CASE AlightAtStop
  <2> DEFINE time == StopTime(RideTrip, ~req.arrive_by, ride.board_day)
  <2> SUFFICES ASSUME ~UNCHANGED scratch
               PROVE  /\ \A s \in Stop : best_time'[s] = best_time[s]
                                            \/ Improves(req.arrive_by, best_time'[s], best_time[s])
                      /\ \A r \in Round : (r < round /\ round # NONE) => states'[r] = states[r]
    BY <1>1 DEF scratch
  <2>1. /\ WorthRecording(time)
        /\ best_time' = [best_time EXCEPT ![RideStop] = time]
        /\ \A r \in Round : r # round => states'[r] = states[r]
    BY <1>4 DEF AlightAtStop, TypeInv, TypeOK
  <2>2. Improves(req.arrive_by, time, best_time[RideStop])
    BY <2>1 DEF WorthRecording
  <2> HIDE DEF time
  <2>3. \A s \in Stop : best_time'[s] = best_time[s] \/ Improves(req.arrive_by, best_time'[s], best_time[s])
    BY <2>1, <2>2 DEF TypeInv, TypeOK
  <2>4. \A r \in Round : (r < round /\ round # NONE) => r # round
    BY DEF TypeInv, TypeOK, Round
  <2> QED
    BY <2>1, <2>3, <2>4
<1>5. \/ UNCHANGED <<best_time, states>>
      \/ EndTransfers \/ AlightAtStop
      \/ \E s \in todo : TransferFrom(s)
  BY DEF Next, WorkerStep, Waiting, Receive, TripUpdate, StartSearch, StartRoute, EndRoutes, BoardAtStop, PassStop,
         Reverse, MakePlan, Answer, scratch, vars
<1> QED
  BY <1>1, <1>2, <1>3, <1>4, <1>5 DEF scratch

\* In every search the best time of a stop only improves, and the rounds before the
\* current one are final (router.c:525-543, 773-860): later rounds board from them and
\* the itineraries are read from them.
THEOREM SearchesProgress == ASSUME OnboardGuard PROVE Spec => SearchMonotone
<1>1. TypeInv /\ [Next]_vars => [SearchStep]_vars
  BY SearchStepHolds
<1> QED
  BY <1>1, TypeInvariant, PTL DEF Spec, SearchMonotone

(***************************************************************************)
(* Footpaths.                                                              *)
(***************************************************************************)
\* A stop that was flagged has been ridden to in this round at its best time; while
\* apply_transfers runs, a walk from elsewhere may have improved on the ride, and then
\* the walk time is the best time; once a stop has been visited it is.
SettledInv ==
    /\ pc \in {"routes", "ride"} =>
         \A s \in updated_stops : states[round][s].time = best_time[s] /\ best_time[s] # UNREACHED
    /\ pc = "transfers" =>
         /\ todo \subseteq updated_stops
         /\ \A s \in updated_stops :
              LET st == states[Row(round)][s]
              IN  /\ st.time # UNREACHED /\ best_time[s] # UNREACHED
                  /\ ~Better(req.arrive_by, st.time, best_time[s])
                  /\ st.time = best_time[s] \/ st.walk_time = best_time[s]
                  /\ s \notin todo => st.walk_time = best_time[s]

\* There is nothing to settle before the first search.
LEMMA SettledInit == Init => SettledInv
BY DEF Init, SettledInv

\* The first row is settled by the transfers of the origin.
LEMMA SettledStart ==
    ASSUME TypeInv, NEW now \in NowDays, StartSearch(now)
    PROVE  SettledInv'
<1>1. pc = "start" /\ req.arrive_by \in BOOLEAN /\ req.to \in Stop /\ req.from \in Stop
      /\ req.time \in RTime \ {UNREACHED}
  BY DEF StartSearch, TypeInv, RequestInv
<1>2. CASE RefuseOnBoard \/ \E x : StartOnBoard(x)
  BY <1>2 DEF RefuseOnBoard, StartOnBoard, SettledInv
<1>3. ASSUME NEW stop \in Stop, StartAtStop(stop) PROVE SettledInv'
  <2>1. /\ pc' = "transfers" /\ round' = NONE /\ updated_stops' \subseteq {stop} /\ todo' = updated_stops'
        /\ best_time'[stop] = req.time /\ req' = req
    BY <1>3 DEF StartAtStop, unflag_banned_stops
  <2>2. states'[1][stop].time = req.time
    <3>1. /\ DOMAIN ResetStates = Round /\ DOMAIN ResetStates[1] = Stop /\ ResetStates[1][stop] \in StateRec
          /\ 0 \in Round /\ 1 \in Round
      BY ResetStatesType, SizesAssumption DEF Round
    <3> QED
      BY <1>3, <3>1 DEF StartAtStop, StateRec
  <2>3. ~Better(req.arrive_by, req.time, req.time)
    BY <1>1, RTimeInt DEF Better
  <2> QED
    BY <1>1, <2>1, <2>2, <2>3 DEF SettledInv, Row
<1> QED
  BY <1>1, <1>2, <1>3 DEF StartSearch

\* Walking from a stop settles it, and leaves settled what was.
LEMMA SettledTransfer ==
    ASSUME TypeInv, SettledInv, NEW s \in todo, TransferFrom(s)
    PROVE  SettledInv'
<1> DEFINE row == Row(round)
           t == states[row][s].time
           walked == WalkImproves(s, t)
<1>1. /\ pc = "transfers" /\ pc' = pc /\ round' = round /\ req' = req /\ todo' = NextSetBits(s)
      /\ s = FirstOf(todo)
  BY DEF TransferFrom, request
<1>2. s \in Stop /\ row \in Round /\ todo \subseteq updated_stops /\ updated_stops \subseteq Stop
  BY <1>1, SizesAssumption DEF SettledInv, TypeInv, TypeOK, Row, Round
<1>3. t # UNREACHED /\ t \in RTime
  BY <1>1, <1>2 DEF SettledInv, TypeInv, TypeOK, StateRec
<1>4. /\ updated_stops' = updated_stops
      /\ best_time' = [u \in Stop |-> IF u \in walked THEN WalkTime(s, u, t) ELSE best_time[u]]
      /\ states' = [states EXCEPT ![row] = [u \in Stop |->
            IF u \in walked
            THEN [@[u] EXCEPT !.walk_time = WalkTime(s, u, t), !.walk_from = s]
            ELSE IF u \in SelfTransfer(s, t)
            THEN [@[u] EXCEPT !.walk_time = t, !.walk_from = s]
            ELSE @[u]]]
  BY <1>3 DEF TransferFrom
<1>5. ASSUME NEW u \in walked
      PROVE  /\ u \in Stop /\ u # s
             /\ WalkTime(s, u, t) \in RTime /\ WalkTime(s, u, t) # UNREACHED
             /\ Improves(req.arrive_by, WalkTime(s, u, t), best_time[u])
  <2>1. /\ u \in DOMAIN tdata.transfers[s] /\ WalkTime(s, u, t) <= RTIME_THREE_DAYS
        /\ Improves(req.arrive_by, WalkTime(s, u, t), best_time[u])
    BY DEF WalkImproves
  <2>2. u \in Stop /\ WalkTime(s, u, t) \in RTime
    BY <1>1, <1>2, <1>3, <2>1, WalkTimes
  <2>3. u # s
    <3>1. IsTimetable(tdata)
      BY RouterAssumption DEF TypeInv, TypeOK
    <3> QED
      BY <1>2, <2>1, <3>1 DEF IsTimetable
  <2>4. WalkTime(s, u, t) # UNREACHED
    BY <2>1 DEF RTIME_THREE_DAYS, UNREACHED
  <2> QED
    BY <2>1, <2>2, <2>3, <2>4
<1> HIDE DEF walked, t, row
<1>6. ASSUME NEW u \in updated_stops
      PROVE  /\ states'[row][u].time = states[row][u].time
             /\ states'[row][u].walk_time = IF u \in walked THEN WalkTime(s, u, t)
                                            ELSE IF u \in SelfTransfer(s, t) THEN t
                                            ELSE states[row][u].walk_time
             /\ best_time'[u] = IF u \in walked THEN WalkTime(s, u, t) ELSE best_time[u]
  <2>1. u \in Stop /\ states[row][u] \in StateRec
    BY <1>2 DEF TypeInv, TypeOK
  <2> QED
    BY <1>2, <1>4, <2>1 DEF StateRec, TypeInv, TypeOK
<1>7. ASSUME NEW u \in updated_stops
      PROVE  /\ states'[row][u].time # UNREACHED /\ best_time'[u] # UNREACHED
             /\ ~Better(req.arrive_by, states'[row][u].time, best_time'[u])
             /\ states'[row][u].time = best_time'[u] \/ states'[row][u].walk_time = best_time'[u]
             /\ u \notin todo' => states'[row][u].walk_time = best_time'[u]
  <2> DEFINE st == states[row][u]
  <2>1. /\ st.time # UNREACHED /\ best_time[u] # UNREACHED
        /\ ~Better(req.arrive_by, st.time, best_time[u])
        /\ st.time = best_time[u] \/ st.walk_time = best_time[u]
        /\ u \notin todo => st.walk_time = best_time[u]
    BY <1>1 DEF SettledInv, row
  <2>2. st.time \in Int /\ best_time[u] \in Int /\ req.arrive_by \in BOOLEAN
    BY <1>1, <1>2, RTimeInt DEF TypeInv, TypeOK, StateRec, RequestInv
  <2>3. CASE u \in walked
    <3>1. WalkTime(s, u, t) \in Int /\ Better(req.arrive_by, WalkTime(s, u, t), best_time[u])
      BY <1>5, <2>1, <2>3, RTimeInt DEF Improves
    <3>2. ~Better(req.arrive_by, st.time, WalkTime(s, u, t))
      BY <2>1, <2>2, <3>1 DEF Better
    <3> QED
      BY <1>5, <1>6, <2>1, <2>3, <3>2
  <2>4. CASE u \notin walked /\ u = s
    <3>1. st.time = t
      BY <2>4 DEF t
    <3> QED
      BY <1>6, <2>1, <2>4, <3>1 DEF SelfTransfer
  <2>5. CASE u \notin walked /\ u # s
    <3>1. u \notin todo' => u \notin todo
      <4>1. ASSUME u \in todo PROVE u > s
        <5>1. todo \in SUBSET Nat /\ todo # {}
          BY <1>2 DEF Stop
        <5>2. \E x \in todo : \A y \in todo : x <= y
          BY <5>1, LeastNat
        <5>3. s <= u
          BY <1>1, <4>1, <5>2 DEF FirstOf
        <5> QED
          BY <1>2, <2>5, <4>1, <5>1, <5>3
      <4> QED
        BY <1>1, <4>1 DEF NextSetBits
    <3> QED
      BY <1>6, <2>1, <2>5, <3>1 DEF SelfTransfer
  <2> QED
    BY <2>3, <2>4, <2>5
<1>8. todo' \subseteq updated_stops'
  BY <1>1, <1>2, <1>4 DEF NextSetBits
<1>9. Row(round') = row
  BY <1>1 DEF row
<1> QED
  BY <1>1, <1>4, <1>7, <1>8, <1>9 DEF SettledInv

\* An improvement in a round marks its stop for the transfers of that round.
LEMMA SettledAlight ==
    ASSUME TypeInv, SettledInv, AlightAtStop
    PROVE  SettledInv'
<1> DEFINE time == StopTime(RideTrip, ~req.arrive_by, ride.board_day)
<1>1. /\ pc = "ride" /\ pc' \in {"ride", "routes"} /\ round' = round
  BY DEF AlightAtStop, StepRide
<1>2. CASE UNCHANGED scratch
  BY <1>1, <1>2 DEF SettledInv, scratch
<1>3. CASE ~UNCHANGED scratch
  <2>1. /\ WorthRecording(time)
        /\ best_time' = [best_time EXCEPT ![RideStop] = time]
        /\ states' = [states EXCEPT ![round][RideStop] =
              [@ EXCEPT !.time = time, !.back_route = ride.route,
                        !.back_trip = RideTrip, !.back_stop = ride.board_stop,
                        !.board_time = ride.board_time]]
        /\ updated_stops' = updated_stops \cup {RideStop}
    BY <1>3 DEF AlightAtStop
  <2>2. time # UNREACHED
    BY <2>1 DEF WorthRecording
  <2> HIDE DEF time
  <2>3. RideStop \in Stop /\ round \in Round /\ updated_stops \subseteq Stop
    BY <1>1, RideFacts DEF TypeInv, TypeOK, RideInv
  <2>4. states[round][RideStop] \in StateRec
    BY <2>3 DEF TypeInv, TypeOK
  <2>5. best_time'[RideStop] = time /\ states'[round][RideStop].time = time
    BY <2>1, <2>3, <2>4 DEF TypeInv, TypeOK, StateRec
  <2>6. \A s \in Stop : s # RideStop =>
            best_time'[s] = best_time[s] /\ states'[round][s] = states[round][s]
    BY <2>1, <2>3 DEF TypeInv, TypeOK
  <2> QED
    BY <1>1, <2>1, <2>2, <2>3, <2>5, <2>6 DEF SettledInv
<1> QED
  BY <1>2, <1>3

\* Every step keeps account of the stops whose transfers are still to come.
LEMMA SettledStep ==
    ASSUME TypeInv, SettledInv, [Next]_vars
    PROVE  SettledInv'
<1>1. ASSUME NEW now \in NowDays, StartSearch(now) PROVE SettledInv'
  BY <1>1, SettledStart
<1>2. ASSUME NEW s \in todo, TransferFrom(s) PROVE SettledInv'
  BY <1>2, SettledTransfer
<1>3. CASE EndTransfers
  BY <1>3 DEF EndTransfers, SettledInv
<1>4. ASSUME NEW r \in todo, StartRoute(r) PROVE SettledInv'
  BY <1>4 DEF StartRoute, SettledInv, scratch
<1>5. CASE EndRoutes
  <2>1. /\ pc = "routes" /\ pc' = "transfers" /\ round \in Round /\ Row(round) = round
        /\ round' = round /\ UNCHANGED <<best_time, states, req>>
        /\ updated_stops' \subseteq updated_stops /\ todo' = updated_stops'
    BY <1>5 DEF EndRoutes, unflag_banned_stops, TypeInv, RideInv, Row, Round, NONE, request
  <2>2. \A s \in updated_stops : ~Better(req.arrive_by, best_time[s], best_time[s])
    BY <2>1, RTimeInt DEF TypeInv, TypeOK, Better
  <2> QED
    BY <2>1, <2>2 DEF SettledInv, Row
<1>6. CASE BoardAtStop \/ PassStop
  BY <1>6 DEF BoardAtStop, PassStop, StepRide, SettledInv, scratch
<1>7. CASE AlightAtStop
  BY <1>7, SettledAlight
<1>8. CASE Reverse \/ MakePlan \/ Answer \/ \E q \in Requests(tdata) : Receive(q)
  BY <1>8 DEF Reverse, MakePlan, Answer, Receive, SettledInv
<1>9. CASE UNCHANGED vars \/ \E u \in TripUpdates : TripUpdate(u)
  BY <1>9 DEF vars, TripUpdate, SettledInv, Row, scratch, request, position
<1> QED
  BY <1>1, <1>2, <1>3, <1>4, <1>5, <1>6, <1>7, <1>8, <1>9 DEF Next, WorkerStep, Waiting

\* The invariant that apply_transfers states of itself (router.c:199-203) holds in every
\* round of every search: footpaths are only taken from stops that were reached, and
\* afterwards no stop has a walk time worse than its ride time.
THEOREM TransfersAlwaysSettle == ASSUME OnboardGuard PROVE Spec => []TransfersSettled
<1>1. TypeInv /\ SettledInv /\ [Next]_vars => SettledInv'
  BY SettledStep
<1>2. SettledInv => TransfersSettled
  BY DEF SettledInv, TransfersSettled
<1> QED
  BY <1>1, <1>2, SettledInit, TypeInvariant, PTL DEF Spec

(***************************************************************************)
(* Itineraries.                                                            *)
(***************************************************************************)
Searching == pc \in {"transfers", "routes", "ride"}

\* Until round 0 is over, row 1 of the states is lent to the initial state.
Lent(r) == r = 1 /\ Searching /\ round \in {NONE, 0}

\* The routes that a passenger who is not on board may ride, as they are flagged.
Flaggable ==
    {r \in Route : req.start_trip_trip = NONE =>
        r # req.banned_route /\ req.mode \cap tdata.routes[r].attributes # {}}

\* The flagged routes that are then ridden.
Rideable == {r \in Flaggable : req.agency \in {NONE, tdata.routes[r].agency}}

\* Stop u was ridden to in round r, from a stop where the round before had arrived.
Ridden(r, u) ==
    /\ states[r][u].time # UNREACHED /\ states[r][u].back_stop \in Stop
    /\ states[r][u].back_route \in Rideable
    /\ r > 0 => states[r - 1][states[r][u].back_stop].walk_time # UNREACHED

\* The walk of round r that ends at s set out from a stop ridden to in the same round.
Walked(r, s) ==
    r <= round /\ states[r][s].walk_from \in Stop /\ Ridden(r, states[r][s].walk_from)

WalksInv ==
    \A r \in Round, s \in Stop : states[r][s].walk_time # UNREACHED /\ ~Lent(r) => Walked(r, s)

\* initialize_transfers will forget all that the initial state wrote.
LentInv ==
    Lent(1) => \A s \in Stop : states[1][s].walk_time # UNREACHED =>
                   s = origin \/ s \in DOMAIN tdata.transfers[origin]

FlaggedInv ==
    Searching => IF round = NONE THEN pc = "transfers" /\ todo \subseteq {origin}
                 ELSE \A s \in updated_stops : Ridden(round, s)

TodoInv == pc = "transfers" /\ round # NONE => todo \subseteq updated_stops

BoardedInv ==
    pc = "ride" /\ ride.trip # NONE => states[LastRow(round)][ride.board_stop].walk_time # UNREACHED

RoutesInv ==
    Searching => /\ updated_routes \subseteq Flaggable
                 /\ pc \in {"routes", "ride"} => todo \subseteq Flaggable
                 /\ pc = "ride" => ride.route \in Rideable

\* Whatever the scratch memory held before, every walk of a round begins where a ride
\* of the same round ended, and every ride where a walk of the round before did.
ChainInv ==
    Searching \/ pc = "searched" =>
        WalksInv /\ LentInv /\ FlaggedInv /\ TodoInv /\ BoardedInv /\ RoutesInv

\* Before the first search there is nothing to follow.
LEMMA ChainInit == Init => ChainInv
BY DEF Init, ChainInv, Searching

\* The row that a round works on.
LEMMA RowType ==
    ASSUME TypeInv
    PROVE  /\ Row(round) \in Round /\ 0 \in Round /\ 1 \in Round /\ NONE \notin Round
           /\ round # NONE => Row(round) = round
           /\ round = NONE => Row(round) = 1
           /\ round \in Round \cup {NONE}
           /\ \A r \in Round : r \in Int /\ r >= 0 /\ (r > 0 => r - 1 \in Round)
           /\ \A r \in Round : LastRow(r) \in Round
BY SizesAssumption DEF TypeInv, TypeOK, Row, LastRow, Round, NONE

\* What resetting the states leaves of earlier searches: no walk.
LEMMA ChainStart ==
    ASSUME TypeInv, NEW now \in NowDays, StartSearch(now)
    PROVE  ChainInv'
<1>1. pc = "start" /\ req.arrive_by \in BOOLEAN /\ req.to \in Stop /\ req.from \in Stop
  BY DEF StartSearch, TypeInv, RequestInv
<1>2. /\ 0 \in Round /\ 1 \in Round /\ NONE \notin Round /\ DOMAIN ResetStates = Round
      /\ \A r \in Round : DOMAIN ResetStates[r] = Stop
      /\ \A r \in Round, s \in Stop : ResetStates[r][s] \in StateRec
  BY ResetStatesType, RowType
<1>3. \A r \in Round, s \in Stop : ResetStates[r][s].walk_time = UNREACHED
  <2>1. \A r \in Round, s \in Stop : states[r][s] \in StateRec
    BY DEF TypeInv, TypeOK
  <2> QED
    BY <2>1 DEF ResetStates, StateRec
<1>4. CASE RefuseOnBoard
  BY <1>2, <1>3, <1>4
  DEF RefuseOnBoard, ChainInv, WalksInv, LentInv, FlaggedInv, TodoInv, BoardedInv, RoutesInv, Searching, Lent
<1>5. ASSUME NEW x, OnBoardStart(req), StartOnBoard(x) PROVE ChainInv'
  <2> DEFINE stop == tdata.routes[req.start_trip_route].stops[x[1]]
  <2>1. /\ pc' = "routes" /\ round' = 0 /\ origin' = stop /\ updated_stops' = {}
        /\ states' = [ResetStates EXCEPT ![1][stop].time = x[2], ![1][stop].walk_time = x[2]]
    BY <1>5 DEF StartOnBoard
  <2> HIDE DEF stop
  <2>2. \A r \in Round, s \in Stop : states'[r][s].walk_time # UNREACHED => r = 1 /\ s = stop
    BY <1>2, <1>3, <2>1 DEF StateRec
  <2>3. /\ updated_routes' = {req.start_trip_route} /\ todo' = {req.start_trip_route}
        /\ req.start_trip_route \in Flaggable'
    BY <1>1, <1>5 DEF StartOnBoard, OnBoardStart, Flaggable, TypeInv, RequestInv, router_request_initialize
  <2> QED
    BY <1>2, <2>1, <2>2, <2>3
    DEF ChainInv, WalksInv, LentInv, FlaggedInv, TodoInv, BoardedInv, RoutesInv, Searching, Lent, NONE
<1>6. ASSUME NEW stop \in Stop, StartAtStop(stop) PROVE ChainInv'
  <2>1. /\ pc' = "transfers" /\ round' = NONE /\ origin' = stop /\ todo' \subseteq {stop}
        /\ updated_routes' = {}
    BY <1>6 DEF StartAtStop, unflag_banned_stops
  <2>2. \A r \in Round, s \in Stop : states'[r][s].walk_time = UNREACHED
    <3>1. ASSUME NEW r \in Round, NEW s \in Stop
          PROVE  states'[r][s] = IF r = 1 /\ s = stop
                     THEN [ResetStates[r][s] EXCEPT !.time = req.time, !.back_stop = NONE,
                             !.back_route = NONE, !.back_trip = NONE, !.board_time = UNREACHED]
                     ELSE IF r = 0 /\ s = stop THEN [ResetStates[r][s] EXCEPT !.time = req.time]
                     ELSE ResetStates[r][s]
      BY <1>2, <1>6 DEF StartAtStop, StateRec
    <3>2. ASSUME NEW r \in Round, NEW s \in Stop PROVE states'[r][s].walk_time = UNREACHED
      <4>1. ResetStates[r][s] \in StateRec /\ ResetStates[r][s].walk_time = UNREACHED
        BY <1>2, <1>3
      <4>2. CASE r = 1 /\ s = stop
        BY <3>1, <4>1, <4>2 DEF StateRec
      <4>3. CASE r = 0 /\ s = stop
        BY <3>1, <4>1, <4>3 DEF StateRec
      <4>4. CASE ~(r = 1 /\ s = stop) /\ ~(r = 0 /\ s = stop)
        BY <3>1, <4>1, <4>4
      <4> QED
        BY <4>2, <4>3, <4>4
    <3> QED
      BY <3>2
  <2> QED
    BY <1>2, <2>1, <2>2
    DEF ChainInv, WalksInv, LentInv, FlaggedInv, TodoInv, BoardedInv, RoutesInv, Searching
<1> QED
  BY <1>1, <1>4, <1>5, <1>6 DEF StartSearch

\* A step of apply_transfers writes walks from one stop, and nothing else of the states.
LEMMA TransferEffect ==
    ASSUME TypeInv, NEW s \in todo, TransferFrom(s), NEW r \in Round, NEW u \in Stop
    PROVE  /\ states'[r][u].time = states[r][u].time
           /\ states'[r][u].back_stop = states[r][u].back_stop
           /\ states'[r][u].back_route = states[r][u].back_route
           /\ \/ /\ states'[r][u].walk_time = states[r][u].walk_time
                 /\ states'[r][u].walk_from = states[r][u].walk_from
              \/ /\ r = Row(round) /\ u \in {s} \cup DOMAIN tdata.transfers[s]
                 /\ states'[r][u].walk_time # UNREACHED /\ states'[r][u].walk_from = s
<1> DEFINE row == Row(round)
           t == states[row][s].time
           walked == WalkImproves(s, t)
<1>1. CASE UNCHANGED states
  BY <1>1
<1>2. CASE ~UNCHANGED states
  <2>1. /\ t # UNREACHED
        /\ states' = [states EXCEPT ![row] = [v \in Stop |->
              IF v \in walked
              THEN [@[v] EXCEPT !.walk_time = WalkTime(s, v, t), !.walk_from = s]
              ELSE IF v \in SelfTransfer(s, t)
              THEN [@[v] EXCEPT !.walk_time = t, !.walk_from = s]
              ELSE @[v]]]
    BY <1>2 DEF TransferFrom, scratch
  <2>2. /\ walked \subseteq DOMAIN tdata.transfers[s] /\ SelfTransfer(s, t) \subseteq {s}
        /\ \A v \in walked : WalkTime(s, v, t) # UNREACHED
    BY DEF WalkImproves, SelfTransfer, RTIME_THREE_DAYS, UNREACHED
  <2> HIDE DEF walked, t, row
  <2>3. states[r][u] \in StateRec /\ DOMAIN states = Round
    BY DEF TypeInv, TypeOK
  <2>4. CASE r # row
    BY <2>1, <2>3, <2>4
  <2>5. CASE r = row
    <3>1. states'[r][u] = IF u \in walked
              THEN [states[r][u] EXCEPT !.walk_time = WalkTime(s, u, t), !.walk_from = s]
              ELSE IF u \in SelfTransfer(s, t)
              THEN [states[r][u] EXCEPT !.walk_time = t, !.walk_from = s]
              ELSE states[r][u]
      BY <2>1, <2>3, <2>5
    <3>2. CASE u \in walked
      BY <2>2, <2>3, <2>5, <3>1, <3>2 DEF StateRec, row
    <3>3. CASE u \notin walked /\ u \in SelfTransfer(s, t)
      BY <2>1, <2>2, <2>3, <2>5, <3>1, <3>3 DEF StateRec, row
    <3>4. CASE u \notin walked /\ u \notin SelfTransfer(s, t)
      BY <3>1, <3>4
    <3> QED
      BY <3>2, <3>3, <3>4
  <2> QED
    BY <2>4, <2>5
<1> QED
  BY <1>1, <1>2

\* Leaving a ride writes the ride into the state of one stop, and no walk.
LEMMA AlightEffect ==
    ASSUME TypeInv, AlightAtStop, NEW r \in Round, NEW u \in Stop
    PROVE  /\ states'[r][u].walk_time = states[r][u].walk_time
           /\ states'[r][u].walk_from = states[r][u].walk_from
           /\ \/ /\ states'[r][u].time = states[r][u].time
                 /\ states'[r][u].back_stop = states[r][u].back_stop
                 /\ states'[r][u].back_route = states[r][u].back_route
                 /\ r = round /\ u \in updated_stops' => u \in updated_stops
              \/ /\ r = round /\ u = RideStop /\ states'[r][u].time # UNREACHED
                 /\ states'[r][u].back_stop = ride.board_stop
                 /\ states'[r][u].back_route = ride.route
<1> DEFINE time == StopTime(RideTrip, ~req.arrive_by, ride.board_day)
<1>1. CASE UNCHANGED scratch
  BY <1>1 DEF scratch
<1>2. CASE ~UNCHANGED scratch
  <2>1. /\ WorthRecording(time)
        /\ states' = [states EXCEPT ![round][RideStop] =
              [@ EXCEPT !.time = time, !.back_route = ride.route,
                        !.back_trip = RideTrip, !.back_stop = ride.board_stop,
                        !.board_time = ride.board_time]]
        /\ updated_stops' = updated_stops \cup {RideStop}
    BY <1>2 DEF AlightAtStop
  <2>2. time # UNREACHED
    BY <2>1 DEF WorthRecording
  <2> HIDE DEF time
  <2>3. states[r][u] \in StateRec
    BY DEF TypeInv, TypeOK
  <2>4. states'[r][u] = IF r = round /\ u = RideStop
                        THEN [states[r][u] EXCEPT !.time = time, !.back_route = ride.route,
                                !.back_trip = RideTrip, !.back_stop = ride.board_stop,
                                !.board_time = ride.board_time]
                        ELSE states[r][u]
    BY <2>1 DEF TypeInv, TypeOK
  <2>5. CASE r = round /\ u = RideStop
    BY <2>2, <2>3, <2>4, <2>5 DEF StateRec
  <2>6. CASE ~(r = round /\ u = RideStop)
    BY <2>1, <2>4, <2>6
  <2> QED
    BY <2>5, <2>6
<1> QED
  BY <1>1, <1>2

\* apply_transfers keeps the chains whole: it sets out only from stops ridden to in this
\* round, and in the initial transfers from the origin.
LEMMA ChainTransfer ==
    ASSUME TypeInv, ChainInv, NEW s \in todo, TransferFrom(s)
    PROVE  ChainInv'
<1>1. /\ pc = "transfers" /\ pc' = pc /\ round' = round /\ todo' \subseteq todo
      /\ UNCHANGED <<tdata, origin, ride>> /\ s \in Stop
  BY DEF TransferFrom, NextSetBits, search, TypeInv, TypeOK
<1>2. updated_stops' = updated_stops /\ Rideable' = Rideable /\ Flaggable' = Flaggable
  BY DEF TransferFrom, scratch, request, Rideable, Flaggable
<1>3. Searching /\ Searching' /\ (\A r \in Round : Lent(r)' <=> Lent(r))
  BY <1>1 DEF Searching, Lent
<1>4. WalksInv /\ LentInv /\ FlaggedInv /\ TodoInv /\ RoutesInv
  BY <1>3 DEF ChainInv
<1>5. ASSUME NEW r \in Round, NEW u \in Stop, Ridden(r, u) PROVE Ridden(r, u)'
  <2>1. /\ states'[r][u].time = states[r][u].time
        /\ states'[r][u].back_stop = states[r][u].back_stop
        /\ states'[r][u].back_route = states[r][u].back_route
    BY TransferEffect
  <2>2. r > 0 => states'[r - 1][states[r][u].back_stop].walk_time # UNREACHED
    BY <1>5, RowType, TransferEffect DEF Ridden
  <2> QED
    BY <1>2, <1>5, <2>1, <2>2 DEF Ridden
<1>6. WalksInv'
  <2> SUFFICES ASSUME NEW r \in Round, NEW u \in Stop, states'[r][u].walk_time # UNREACHED, ~Lent(r)'
               PROVE  Walked(r, u)'
    BY DEF WalksInv
  <2>1. CASE /\ states'[r][u].walk_time = states[r][u].walk_time
             /\ states'[r][u].walk_from = states[r][u].walk_from
    <3>1. Walked(r, u)
      BY <1>3, <1>4, <2>1 DEF WalksInv
    <3>2. PICK w \in Stop : w = states[r][u].walk_from
      BY <3>1 DEF Walked
    <3>3. Ridden(r, w)'
      BY <1>5, <3>1, <3>2 DEF Walked
    <3> QED
      BY <1>1, <2>1, <3>1, <3>2, <3>3 DEF Walked, Ridden
  <2>2. CASE r = Row(round) /\ states'[r][u].walk_from = s
    <3>1. round # NONE
      BY <1>3, <2>2, RowType DEF Lent
    <3>2. r = round /\ r <= round
      BY <2>2, <3>1, RowType
    <3>3. Ridden(r, s)'
      BY <1>1, <1>3, <1>4, <1>5, <3>1, <3>2 DEF FlaggedInv, TodoInv
    <3> QED
      BY <1>1, <2>2, <3>2, <3>3 DEF Walked, Ridden
  <2> QED
    BY <2>1, <2>2, TransferEffect
<1>7. LentInv'
  <2> SUFFICES ASSUME NEW u \in Stop, Lent(1), states'[1][u].walk_time # UNREACHED
               PROVE  u = origin \/ u \in DOMAIN tdata.transfers[origin]
    BY <1>1, <1>3, RowType DEF LentInv
  <2>1. CASE states'[1][u].walk_time = states[1][u].walk_time
    BY <1>4, <2>1 DEF LentInv
  <2>2. CASE 1 = Row(round) /\ u \in {s} \cup DOMAIN tdata.transfers[s]
    <3>1. round = NONE
      BY <2>2, RowType DEF Lent
    <3>2. s = origin
      BY <1>3, <1>4, <3>1 DEF FlaggedInv
    <3> QED
      BY <2>2, <3>2
  <2> QED
    BY <2>1, <2>2, RowType, TransferEffect
<1>8. FlaggedInv'
  <2>1. updated_stops \subseteq Stop
    BY DEF TypeInv, TypeOK
  <2>2. CASE round = NONE
    BY <1>1, <1>3, <1>4, <2>2 DEF FlaggedInv
  <2>3. CASE round # NONE
    <3>1. PICK k \in Round : k = round /\ k = round'
      BY <1>1, <2>3, RowType
    <3>2. \A x \in updated_stops : Ridden(k, x)
      BY <1>3, <1>4, <2>3, <3>1 DEF FlaggedInv
    <3>3. \A x \in updated_stops : Ridden(k, x)'
      BY <1>5, <2>1, <3>2
    <3> QED
      BY <1>1, <1>2, <2>3, <3>1, <3>3 DEF FlaggedInv, Ridden
  <2> QED
    BY <2>2, <2>3
<1>9. TodoInv'
  BY <1>1, <1>2, <1>4 DEF TodoInv
<1>10. RoutesInv'
  <2>1. updated_routes' \subseteq Flaggable
    <3>1. CASE UNCHANGED scratch
      BY <1>3, <1>4, <3>1 DEF scratch, RoutesInv
    <3>2. CASE ~UNCHANGED scratch
      <4>1. PICK S : updated_routes' = unflag_banned_routes(
                         updated_routes \cup UNION {flag_routes_for_stop(u) : u \in S})
        BY <3>2 DEF TransferFrom
      <4>2. updated_routes' \subseteq Route
        BY <1>1, TypeInvTransferFrom DEF TypeInv, TypeOK
      <4>3. updated_routes \subseteq Flaggable
        BY <1>3, <1>4 DEF RoutesInv
      <4>4. ASSUME NEW x \in updated_routes', x \notin updated_routes
            PROVE  x # req.banned_route /\ req.mode \cap tdata.routes[x].attributes # {}
        BY <4>1, <4>4 DEF flag_routes_for_stop, unflag_banned_routes
      <4> QED
        BY <4>2, <4>3, <4>4 DEF Flaggable
    <3> QED
      BY <3>1, <3>2
  <2> QED
    BY <1>1, <1>2, <2>1 DEF RoutesInv
<1> QED
  BY <1>1, <1>6, <1>7, <1>8, <1>9, <1>10 DEF ChainInv, BoardedInv

\* Ending a round writes nothing but the walks of the initial state, which it forgets.
LEMMA EndTransfersEffect ==
    ASSUME TypeInv, EndTransfers, NEW r \in Round, NEW u \in Stop
    PROVE  /\ states'[r][u].time = states[r][u].time
           /\ states'[r][u].back_stop = states[r][u].back_stop
           /\ states'[r][u].back_route = states[r][u].back_route
           /\ states'[r][u].back_trip = states[r][u].back_trip
           /\ states'[r][u].board_time = states[r][u].board_time
           /\ states'[r][u].walk_from = states[r][u].walk_from
           /\ \/ states'[r][u].walk_time = states[r][u].walk_time
              \/ r = 1 /\ round = 0 /\ states'[r][u].walk_time = UNREACHED
           /\ round = 0 /\ r = 1 /\ (u = origin \/ u \in DOMAIN tdata.transfers[origin]) =>
                states'[r][u].walk_time = UNREACHED
<1>1. CASE round # 0
  BY <1>1 DEF EndTransfers
<1>2. CASE round = 0
  <2>1. states' = initialize_transfers
    BY <1>2 DEF EndTransfers
  <2>2. states[r][u] \in StateRec
    BY DEF TypeInv, TypeOK
  <2>3. states'[r][u] = IF r = 1 /\ (u = origin \/ u \in DOMAIN tdata.transfers[origin])
                        THEN [states[r][u] EXCEPT !.walk_time = UNREACHED] ELSE states[r][u]
    BY <2>1, RowType DEF initialize_transfers, TypeInv, TypeOK
  <2>4. CASE r = 1 /\ (u = origin \/ u \in DOMAIN tdata.transfers[origin])
    BY <1>2, <2>2, <2>3, <2>4 DEF StateRec
  <2>5. CASE ~(r = 1 /\ (u = origin \/ u \in DOMAIN tdata.transfers[origin]))
    BY <2>3, <2>5
  <2> QED
    BY <2>4, <2>5
<1> QED
  BY <1>1, <1>2

\* Once round 0 has used the walks of the initial state, row 1 is empty again and later
\* rounds find only their own walks in it.
LEMMA ChainEndTransfers ==
    ASSUME TypeInv, ChainInv, EndTransfers
    PROVE  ChainInv'
<1>1. /\ pc = "transfers" /\ pc' \in {"routes", "searched"} /\ updated_stops' = {}
      /\ UNCHANGED <<tdata, origin, updated_routes>> /\ Rideable' = Rideable /\ Flaggable' = Flaggable
      /\ pc' = "routes" => todo' = updated_routes
      /\ pc' = "routes" => round' = IF round = NONE THEN 0 ELSE round + 1
      /\ pc' = "searched" => round' = round
  BY DEF EndTransfers, search, request, Rideable, Flaggable
<1>2. WalksInv /\ LentInv /\ RoutesInv /\ Searching
  BY <1>1 DEF ChainInv, Searching
<1>3. round = NONE => pc' = "routes"
  <2>1. NRounds \in Int /\ NRounds > 0
    BY <1>1, SizesAssumption DEF NRounds, TypeInv, RequestInv
  <2> QED
    BY <2>1 DEF EndTransfers
<1>4. round = 0 => \A u \in Stop : states'[1][u].walk_time = UNREACHED
  BY <1>2, RowType, EndTransfersEffect DEF LentInv, Lent
<1>5. WalksInv'
  <2> SUFFICES ASSUME NEW r \in Round, NEW u \in Stop, states'[r][u].walk_time # UNREACHED, ~Lent(r)'
               PROVE  Walked(r, u)'
    BY DEF WalksInv
  <2>1. states[r][u].walk_time # UNREACHED
    BY EndTransfersEffect
  <2>2. ~Lent(r)
    BY <1>1, <1>3, <1>4 DEF Lent, Searching
  <2>3. Walked(r, u)
    BY <1>2, <2>1, <2>2 DEF WalksInv
  <2>4. round # NONE /\ r <= round' /\ (round = 0 => r = 0)
    <3>1. r <= round /\ r \in Int /\ r >= 0
      BY <2>3, RowType DEF Walked
    <3>2. round # NONE
      BY <3>1 DEF NONE
    <3>3. round \in Int
      BY <3>2, RowType
    <3> QED
      BY <1>1, <3>1, <3>2, <3>3
  <2>5. PICK w \in Stop : w = states[r][u].walk_from
    BY <2>3 DEF Walked
  <2>6. /\ states[r][w].time # UNREACHED /\ states[r][w].back_stop \in Stop
        /\ states[r][w].back_route \in Rideable
    BY <2>3, <2>5 DEF Walked, Ridden
  <2>7. PICK b \in Stop : b = states[r][w].back_stop
    BY <2>6
  <2>8. r > 0 => states'[r - 1][b].walk_time # UNREACHED
    <3> SUFFICES ASSUME r > 0 PROVE states'[r - 1][b].walk_time # UNREACHED
      OBVIOUS
    <3>1. r - 1 \in Round /\ states[r - 1][b].walk_time # UNREACHED
      BY <2>3, <2>5, <2>7, RowType DEF Walked, Ridden
    <3>2. round # 0
      BY <2>4, RowType
    <3> QED
      BY <3>1, <3>2, EndTransfersEffect
  <2>9. /\ states'[r][u].walk_from = w /\ states'[r][w].time # UNREACHED
        /\ states'[r][w].back_stop = b /\ states'[r][w].back_route \in Rideable
    BY <2>5, <2>6, <2>7, EndTransfersEffect
  <2> QED
    BY <1>1, <2>4, <2>8, <2>9 DEF Walked, Ridden
<1>6. LentInv'
  <2> SUFFICES ASSUME NEW u \in Stop, Lent(1)', states'[1][u].walk_time # UNREACHED
               PROVE  u = origin \/ u \in DOMAIN tdata.transfers[origin]
    BY <1>1, RowType DEF LentInv
  <2>1. round = NONE
    <3>1. pc' = "routes" /\ round' \in {NONE, 0}
      BY <1>1 DEF Lent, Searching
    <3>2. ASSUME round \in Round PROVE FALSE
      <4>1. round \in Int /\ round >= 0 /\ round' = round + 1
        BY <1>1, <3>1, <3>2, RowType
      <4> QED
        BY <3>1, <4>1 DEF NONE
    <3> QED
      BY <3>2, RowType
  <2>2. Lent(1) /\ states[1][u].walk_time # UNREACHED
    BY <1>2, <2>1, RowType, EndTransfersEffect DEF Lent
  <2> QED
    BY <1>2, <2>2 DEF LentInv
<1>7. FlaggedInv'
  <2>1. ASSUME pc' = "routes" PROVE round' # NONE
    <3>1. round' = IF round = NONE THEN 0 ELSE round + 1
      BY <1>1, <2>1
    <3>2. round # NONE => round \in Int /\ round >= 0
      BY RowType
    <3> QED
      BY <3>1, <3>2 DEF NONE
  <2> QED
    BY <1>1, <2>1 DEF FlaggedInv, Searching
<1>8. RoutesInv'
  BY <1>1, <1>2 DEF RoutesInv, Searching
<1> QED
  BY <1>1, <1>5, <1>6, <1>7, <1>8 DEF ChainInv, TodoInv, BoardedInv

\* Steps along a route that record nothing: a trip is boarded only where the walks of the
\* round before arrived.
LEMMA ChainBoard ==
    ASSUME TypeInv, ChainInv, BoardAtStop \/ PassStop
    PROVE  ChainInv'
<1>1. /\ pc = "ride" /\ pc' \in {"ride", "routes"}
      /\ UNCHANGED <<tdata, origin, states, updated_stops, updated_routes, round, todo>>
      /\ Rideable' = Rideable /\ Flaggable' = Flaggable
  BY DEF BoardAtStop, PassStop, StepRide, scratch, search, request, Rideable, Flaggable
<1>2. Searching /\ Searching' /\ (\A r \in Round : Lent(r)' <=> Lent(r)) /\ round # NONE
  BY <1>1, RowType DEF Searching, Lent, TypeInv, RideInv
<1>3. WalksInv /\ LentInv /\ FlaggedInv /\ BoardedInv /\ RoutesInv
  BY <1>2 DEF ChainInv
<1>4. WalksInv' /\ LentInv'
  BY <1>1, <1>2, <1>3, RowType DEF WalksInv, LentInv, Walked, Ridden
<1>5. FlaggedInv' /\ TodoInv'
  BY <1>1, <1>2, <1>3 DEF FlaggedInv, TodoInv, Ridden
<1>6. BoardedInv'
  <2>1. ride \in RideRec /\ (RideTrip # NONE => RideTrip = ride.trip)
    BY <1>1, RideFacts DEF TypeInv, RideInv
  <2>2. CASE StepRide([ride EXCEPT !.trip = RideTrip])
    <3>1. ride'.trip = RideTrip /\ ride'.board_stop = ride.board_stop
      BY <2>1, <2>2 DEF StepRide, RideRec
    <3> QED
      BY <1>1, <1>3, <2>1, <3>1 DEF BoardedInv, LastRow
  <2>3. ASSUME AttemptBoard, NEW o,
               StepRide([ride EXCEPT !.trip = o[2], !.board_stop = RideStop,
                                     !.board_time = OptionTime(o), !.board_day = o[1]])
        PROVE  BoardedInv'
    <3>1. ride'.board_stop = RideStop
      BY <2>1, <2>3 DEF StepRide, RideRec
    <3>2. states[LastRow(round)][RideStop].walk_time # UNREACHED
      BY <2>3 DEF AttemptBoard, PrevTime
    <3> QED
      BY <1>1, <3>1, <3>2 DEF BoardedInv, LastRow
  <2> QED
    BY <2>2, <2>3 DEF BoardAtStop, PassStop
<1>7. RoutesInv'
  <2>1. ride'.route = ride.route
    BY <1>1 DEF BoardAtStop, PassStop, StepRide, TypeInv, RideInv, RideRec
  <2> QED
    BY <1>1, <1>2, <1>3, <2>1 DEF RoutesInv
<1> QED
  BY <1>4, <1>5, <1>6, <1>7 DEF ChainInv

\* A recorded ride was boarded where the walks of the round before arrived.
LEMMA ChainAlight ==
    ASSUME TypeInv, ChainInv, AlightAtStop
    PROVE  ChainInv'
<1>1. /\ pc = "ride" /\ pc' \in {"ride", "routes"} /\ RideTrip # NONE
      /\ UNCHANGED <<tdata, origin, round, todo, updated_routes>> /\ Rideable' = Rideable /\ Flaggable' = Flaggable
      /\ ride' = [ride EXCEPT !.stop = ride'.stop]
  <2>1. ride \in RideRec
    BY DEF TypeInv, RideInv
  <2> QED
    BY <2>1 DEF AlightAtStop, StepRide, search, scratch, request, Rideable, Flaggable, RideRec
<1>2. /\ ride \in RideRec /\ ride.board_stop \in Stop /\ round \in Round /\ round # NONE
      /\ ride.trip # NONE /\ updated_stops \subseteq Stop /\ RideStop \in Stop
  BY <1>1, RideFacts, RowType DEF TypeInv, TypeOK, RideInv, RideRec
<1>3. Searching /\ Searching' /\ (\A r \in Round : Lent(r)' <=> Lent(r))
  BY <1>1 DEF Searching, Lent
<1>4. WalksInv /\ LentInv /\ FlaggedInv /\ BoardedInv /\ RoutesInv
  BY <1>3 DEF ChainInv
<1>5. states[LastRow(round)][ride.board_stop].walk_time # UNREACHED
  BY <1>1, <1>2, <1>4 DEF BoardedInv
<1>6. ASSUME NEW r \in Round, NEW u \in Stop,
             Ridden(r, u) \/ (r = round /\ u \in updated_stops')
      PROVE  Ridden(r, u)'
  <2>1. CASE /\ states'[r][u].time = states[r][u].time
             /\ states'[r][u].back_stop = states[r][u].back_stop
             /\ states'[r][u].back_route = states[r][u].back_route
             /\ r = round /\ u \in updated_stops' => u \in updated_stops
    <3>1. Ridden(r, u)
      BY <1>2, <1>3, <1>4, <1>6, <2>1 DEF FlaggedInv
    <3>2. PICK b \in Stop : b = states[r][u].back_stop
      BY <3>1 DEF Ridden
    <3>3. r > 0 => states'[r - 1][b].walk_time = states[r - 1][b].walk_time
      BY RowType, AlightEffect
    <3> QED
      BY <1>1, <2>1, <3>1, <3>2, <3>3 DEF Ridden
  <2>2. CASE /\ r = round /\ u = RideStop /\ states'[r][u].time # UNREACHED
             /\ states'[r][u].back_stop = ride.board_stop
             /\ states'[r][u].back_route = ride.route
    <3>1. r > 0 => LastRow(round) = r - 1 /\ r - 1 \in Round
      BY <2>2, RowType DEF LastRow
    <3>2. r > 0 => states'[r - 1][ride.board_stop].walk_time # UNREACHED
      BY <1>2, <1>5, <3>1, AlightEffect
    <3>3. ride.route \in Rideable
      BY <1>1, <1>3, <1>4 DEF RoutesInv
    <3> QED
      BY <1>1, <1>2, <2>2, <3>2, <3>3 DEF Ridden
  <2> QED
    BY <2>1, <2>2, AlightEffect
<1>7. WalksInv'
  <2> SUFFICES ASSUME NEW r \in Round, NEW u \in Stop, states'[r][u].walk_time # UNREACHED, ~Lent(r)'
               PROVE  Walked(r, u)'
    BY DEF WalksInv
  <2>1. Walked(r, u)
    BY <1>3, <1>4, AlightEffect DEF WalksInv
  <2>2. PICK w \in Stop : w = states[r][u].walk_from
    BY <2>1 DEF Walked
  <2>3. Ridden(r, w)'
    BY <1>6, <2>1, <2>2 DEF Walked
  <2>4. states'[r][u].walk_from = w
    BY <2>2, AlightEffect
  <2> QED
    BY <1>1, <2>1, <2>3, <2>4 DEF Walked, Ridden
<1>8. LentInv'
  BY <1>1, <1>3, <1>4, RowType, AlightEffect DEF LentInv
<1>9. FlaggedInv' /\ TodoInv'
  <2>1. updated_stops' \subseteq Stop
    BY <1>2 DEF AlightAtStop, scratch
  <2>2. PICK k \in Round : k = round /\ k = round'
    BY <1>1, <1>2
  <2>3. \A x \in updated_stops' : Ridden(k, x)'
    BY <1>6, <2>1, <2>2
  <2> QED
    BY <1>1, <1>2, <2>2, <2>3 DEF FlaggedInv, TodoInv, Ridden
<1>10. BoardedInv'
  <2>1. ride'.board_stop = ride.board_stop
    BY <1>1, <1>2 DEF RideRec
  <2>2. states'[LastRow(round)][ride.board_stop].walk_time # UNREACHED
    BY <1>2, <1>5, RowType, AlightEffect
  <2> QED
    BY <1>1, <2>1, <2>2 DEF BoardedInv, LastRow
<1>11. RoutesInv'
  <2>1. ride'.route = ride.route
    BY <1>1, <1>2 DEF RideRec
  <2> QED
    BY <1>1, <1>3, <1>4, <2>1 DEF RoutesInv
<1> QED
  BY <1>7, <1>8, <1>9, <1>10, <1>11 DEF ChainInv

\* Every step of the worker and of the realtime process keeps the chains whole.
LEMMA ChainStep ==
    ASSUME TypeInv, ChainInv, [Next]_vars
    PROVE  ChainInv'
<1> USE DEF ChainInv, WalksInv, LentInv, FlaggedInv, TodoInv, BoardedInv, RoutesInv, Walked, Ridden, Lent, Searching
<1>1. ASSUME NEW now \in NowDays, StartSearch(now) PROVE ChainInv'
  <2> HIDE DEF ChainInv
  <2> QED
    BY <1>1, ChainStart
<1>2. ASSUME NEW s \in todo, TransferFrom(s) PROVE ChainInv'
  <2> HIDE DEF ChainInv
  <2> QED
    BY <1>2, ChainTransfer
<1>3. CASE EndTransfers
  <2> HIDE DEF ChainInv
  <2> QED
    BY <1>3, ChainEndTransfers
<1>4. ASSUME NEW r \in todo, StartRoute(r) PROVE ChainInv'
  <2>1. /\ pc = "routes" /\ pc' \in {"routes", "ride"}
        /\ UNCHANGED <<tdata, origin, states, updated_stops, updated_routes, round>>
        /\ pc' = "ride" => ride'.trip = NONE /\ ride'.route = r /\ (r \in Flaggable => r \in Rideable)
        /\ todo' \subseteq todo /\ Rideable' = Rideable /\ Flaggable' = Flaggable
    <3>1. pc' = "ride" => req.agency \in {NONE, tdata.routes[r].agency}
      BY <1>4 DEF StartRoute
    <3> QED
      BY <3>1, <1>4 DEF StartRoute, NextSetBits, scratch, search, request, NoRide, Rideable, Flaggable
  <2>2. round # NONE
    BY <2>1, RowType DEF TypeInv, RideInv
  <2> QED
    BY <2>1, <2>2
<1>5. CASE EndRoutes
  <2>1. /\ pc = "routes" /\ pc' = "transfers" /\ UNCHANGED <<tdata, origin, states, round>>
        /\ updated_stops' \subseteq updated_stops /\ todo' = updated_stops'
        /\ updated_routes' = {} /\ Rideable' = Rideable /\ Flaggable' = Flaggable
    BY <1>5 DEF EndRoutes, unflag_banned_stops, search, request, Rideable, Flaggable
  <2>2. round # NONE
    BY <2>1, RowType DEF TypeInv, RideInv
  <2> QED
    BY <2>1, <2>2
<1>6. CASE BoardAtStop \/ PassStop
  <2> HIDE DEF ChainInv
  <2> QED
    BY <1>6, ChainBoard
<1>7. CASE AlightAtStop
  <2> HIDE DEF ChainInv
  <2> QED
    BY <1>7, ChainAlight
<1>8. CASE Reverse \/ MakePlan \/ Answer \/ \E q \in Requests(tdata) : Receive(q)
  BY <1>8 DEF Reverse, MakePlan, Answer, Receive
<1>9. CASE UNCHANGED vars \/ \E u \in TripUpdates : TripUpdate(u)
  <2>1. UNCHANGED <<tdata, pc, scratch, search, position, Rideable, Flaggable>>
    BY <1>9 DEF vars, TripUpdate, request, Rideable, Flaggable
  <2> QED
    BY <2>1 DEF LastRow, scratch, search, position
<1> QED
  BY <1>1, <1>2, <1>3, <1>4, <1>5, <1>6, <1>7, <1>8, <1>9 DEF Next, WorkerStep, Waiting

\* A plan is read backward from a stop of the timetable, also for a passenger on board.
LEMMA TargetStop == ASSUME TypeInv, pc # "idle" PROVE TargetOf(req) \in Stop
BY DEF TypeInv, RequestInv, TargetOf

\* A step back along the states leads to a stop or nowhere.
LEMMA BoardedAtType ==
    ASSUME TypeInv, NEW r \in Round, NEW s
    PROVE  BoardedAt(r, s) \in Stop \cup {NONE}
BY DEF BoardedAt, TypeInv, TypeOK, StateRec

\* The loop of router_result_to_plan over the rounds is what its recursive definition says.
LEMMA ChainUnfold ==
    ASSUME TypeInv, pc # "idle", NEW n \in Round
    PROVE  /\ Chain(n)[n] = TargetOf(req)
           /\ \A r \in 0 .. n : r < n => Chain(n)[r] = BoardedAt(r + 1, Chain(n)[r + 1])
<1> DEFINE X == Stop \cup {NONE}
           step == [p \in (1 .. n) \X X |-> BoardedAt((n - p[1]) + 1, p[2])]
           IsChain(g) == g = [r \in 0 .. n |-> IF r = n THEN TargetOf(req) ELSE BoardedAt(r + 1, g[r + 1])]
<1>1. n \in Nat /\ \A i \in 1 .. n : (n - i) + 1 \in Round
  BY SizesAssumption DEF Round
<1>2. step \in [(1 .. n) \X X -> X]
  BY <1>1, BoardedAtType
<1>3. TargetOf(req) \in X
  BY TargetStop
<1>4. PICK f : IsLoop(f, X, n, TargetOf(req), step)
  <2> HIDE DEF X, step
  <2> QED
    BY <1>1, <1>2, <1>3, LoopExists
<1> DEFINE g == [r \in 0 .. n |-> f[n - r]]
<1>5. ASSUME NEW r \in 0 .. n, r # n PROVE g[r] = BoardedAt(r + 1, g[r + 1])
  <2>1. n - r \in 1 .. n /\ (n - r) - 1 = n - (r + 1) /\ r + 1 \in 0 .. n /\ (n - (n - r)) + 1 = r + 1
    BY <1>1, <1>5
  <2>2. g[r] = f[n - r] /\ g[r + 1] = f[(n - r) - 1] /\ f[(n - r) - 1] \in X
    BY <1>1, <1>4, <2>1 DEF IsLoop
  <2>3. step[<<n - r, f[(n - r) - 1]>>] = BoardedAt((n - (n - r)) + 1, f[(n - r) - 1])
    BY <2>1, <2>2
  <2> HIDE DEF step, g, X
  <2> QED
    BY <1>4, <2>1, <2>2, <2>3 DEF IsLoop
<1>6. g[n] = TargetOf(req)
  BY <1>1, <1>4 DEF IsLoop
<1>7. IsChain(g)
  <2> DEFINE h == [r \in 0 .. n |-> IF r = n THEN TargetOf(req) ELSE BoardedAt(r + 1, g[r + 1])]
  <2>1. \A r \in 0 .. n : g[r] = h[r]
    <3> HIDE DEF g
    <3> QED
      BY <1>5, <1>6
  <2>2. g = [r \in 0 .. n |-> g[r]] /\ h = [r \in 0 .. n |-> h[r]]
    OBVIOUS
  <2>3. g = h
    <3> HIDE DEF g, h
    <3> QED
      BY <2>1, <2>2
  <2> QED
    BY <2>3
<1>8. IsChain(CHOOSE c : IsChain(c))
  <2> HIDE DEF IsChain, g
  <2> QED
    BY <1>7
<1>9. Chain(n) = CHOOSE c : IsChain(c)
  BY DEF Chain
<1>10. IsChain(Chain(n))
  <2> HIDE DEF IsChain
  <2> QED
    BY <1>8, <1>9
<1> QED
  BY <1>1, <1>10

\* Following the back pointers from a target that was reached meets only stops that were
\* reached, each on foot from a stop where a ride of its round had ended.
LEMMA ReachedChain ==
    ASSUME TypeInv, ChainInv, pc = "searched", NEW n \in PlanRounds, NEW k \in 0 .. n
    PROVE  /\ n \in Nat /\ k \in Round /\ Chain(n)[k] \in Stop
           /\ states[k][Chain(n)[k]].walk_time # UNREACHED /\ Walked(k, Chain(n)[k])
           /\ k < n => Chain(n)[k] = states[k + 1][states[k + 1][Chain(n)[k + 1]].walk_from].back_stop
<1> DEFINE Whole(r) == Chain(n)[r] \in Stop /\ states[r][Chain(n)[r]].walk_time # UNREACHED
           S == {r \in 0 .. n : Whole(r)}
<1>1. n \in Round /\ n \in Nat /\ (0 .. n) \subseteq Round
  BY SizesAssumption DEF PlanRounds, Round
<1>2. \A r \in 0 .. n : Whole(r) => Walked(r, Chain(n)[r])
  BY <1>1 DEF ChainInv, WalksInv, Lent, Searching
<1>3. n \in S
  BY <1>1, ChainUnfold, TargetStop DEF PlanRounds
<1>4. ASSUME NEW i \in 0 .. n, i < n, Whole(i + 1)
      PROVE  /\ Chain(n)[i] = states[i + 1][states[i + 1][Chain(n)[i + 1]].walk_from].back_stop
             /\ Whole(i)
  <2>1. PICK s \in Stop : s = Chain(n)[i + 1]
    BY <1>4
  <2>2. states[i + 1][s].walk_time # UNREACHED /\ Walked(i + 1, s) /\ i + 1 > 0 /\ (i + 1) - 1 = i
    BY <1>1, <1>2, <1>4, <2>1
  <2>3. Chain(n)[i] = BoardedAt(i + 1, s)
    BY <1>1, <1>4, <2>1, ChainUnfold
  <2>4. PICK u \in Stop : u = states[i + 1][s].walk_from
    BY <2>2 DEF Walked
  <2>5. Ridden(i + 1, u)
    BY <2>2, <2>4 DEF Walked
  <2>6. BoardedAt(i + 1, s) = states[i + 1][u].back_stop
    BY <2>2, <2>4, <2>5 DEF BoardedAt, Ridden
  <2>7. states[i + 1][u].back_stop \in Stop /\ states[i][states[i + 1][u].back_stop].walk_time # UNREACHED
    BY <2>2, <2>5 DEF Ridden
  <2> QED
    BY <2>1, <2>3, <2>4, <2>6, <2>7
<1>5. \A r \in 0 .. n : r \in S
  <2>1. ASSUME NEW i \in 0 .. n, i < n, i + 1 \in S PROVE i \in S
    BY <1>4, <2>1
  <2> HIDE DEF S
  <2> QED
    BY <1>1, <1>3, <2>1, IndexInductionDown
<1>6. k < n => k + 1 \in 0 .. n
  BY <1>1
<1> QED
  BY <1>1, <1>2, <1>4, <1>5, <1>6

\* So the itinerary of a round that reached the target is written to its end.
LEMMA ReachedChainOk ==
    ASSUME TypeInv, ChainInv, pc = "searched", NEW n \in PlanRounds
    PROVE  ChainOk(n)
BY ReachedChain DEF ChainOk, Walked, Ridden

\* The round whose itinerary is the i-th of the plan.
PlanRound(i) == CHOOSE r \in PlanRounds : Cardinality({o \in PlanRounds : o < r}) = i - 1

\* Every itinerary of a plan is read along the whole chain of a round that reached the
\* target.
LEMMA PlanMade ==
    ASSUME TypeInv, ChainInv, MakePlan
    PROVE  /\ pc = "searched" /\ DOMAIN plan' = 1 .. Cardinality(PlanRounds)
           /\ \A i \in DOMAIN plan' :
                 /\ PlanRound(i) \in PlanRounds
                 /\ Cardinality({o \in PlanRounds : o < PlanRound(i)}) = i - 1
                 /\ plan'[i].ok /\ plan'[i].legs = Legs(PlanRound(i))
<1>1. pc = "searched" /\ plan' = [i \in 1 .. Cardinality(PlanRounds) |-> Itinerary(PlanRound(i))]
  BY DEF MakePlan, router_result_to_plan, PlanRound
<1>2. ASSUME NEW i \in 1 .. Cardinality(PlanRounds)
      PROVE  PlanRound(i) \in PlanRounds /\ Cardinality({o \in PlanRounds : o < PlanRound(i)}) = i - 1
  <2>1. RRRR_MAX_ROUNDS - 1 \in Nat /\ PlanRounds \in SUBSET (0 .. RRRR_MAX_ROUNDS - 1)
    BY SizesAssumption DEF PlanRounds, Round
  <2>2. \E r \in PlanRounds : Cardinality({o \in PlanRounds : o < r}) = i - 1
    BY <2>1, RankExists
  <2> QED
    BY <2>2 DEF PlanRound
<1>3. ASSUME NEW i \in 1 .. Cardinality(PlanRounds)
      PROVE  Itinerary(PlanRound(i)) = [ok |-> TRUE, legs |-> Legs(PlanRound(i))]
  <2>1. ChainOk(PlanRound(i))
    BY <1>1, <1>2, ReachedChainOk
  <2> QED
    BY <2>1 DEF Itinerary
<1>4. DOMAIN plan' = 1 .. Cardinality(PlanRounds)
  BY <1>1
<1>5. ASSUME NEW i \in DOMAIN plan' PROVE plan'[i] = [ok |-> TRUE, legs |-> Legs(PlanRound(i))]
  BY <1>1, <1>3, <1>4, <1>5
<1> QED
  BY <1>1, <1>2, <1>4, <1>5

\* No other step makes a plan or changes the one that was made.
LEMMA PlanKept ==
    ASSUME [Next]_vars
    PROVE  MakePlan \/ UNCHANGED <<pc, plan, req, preq>> \/ pc' # "planned"
BY DEF Next, WorkerStep, Waiting, Receive, StartSearch, RefuseOnBoard, StartOnBoard, StartAtStop,
       TransferFrom, EndTransfers, StartRoute, EndRoutes, BoardAtStop, AlightAtStop, PassStop,
       StepRide, Reverse, Answer, TripUpdate, request, vars

\* The invariant of all that is said about plans.
LEMMA ChainInvariant == ASSUME OnboardGuard PROVE Spec => [](TypeInv /\ ChainInv)
<1>1. TypeInv /\ ChainInv /\ [Next]_vars => ChainInv'
  BY ChainStep
<1> QED
  BY <1>1, ChainInit, TypeInvariant, PTL DEF Spec

\* No itinerary is left half written: whatever earlier searches, requests and reversals
\* left in the scratch memory, and whatever the realtime process does meanwhile, following
\* the back pointers from the target never meets a stop that was not reached, so the ERROR
\* branches of router_result_to_plan (router.c:791-813) are dead.
THEOREM ItinerariesComplete == ASSUME OnboardGuard PROVE Spec => []ChainsUnbroken
<1>1. Init => ChainsUnbroken
  BY DEF Init, ChainsUnbroken
<1>2. TypeInv /\ ChainInv /\ ChainsUnbroken /\ [Next]_vars => ChainsUnbroken'
  BY PlanMade, PlanKept DEF ChainsUnbroken
<1> QED
  BY <1>1, <1>2, ChainInvariant, PTL DEF Spec

(***************************************************************************)
(* Legs.                                                                   *)
(***************************************************************************)
\* The trip that a passenger on board asked for had left: the search began on board.
StartTripLeft == req.start_trip_trip # NONE => req.from = ONBOARD

\* Where a leg begins and ends, and when it ends, in the direction of the search.
LegFrom(l) == IF req.arrive_by THEN l.s1 ELSE l.s0
LegTo(l) == IF req.arrive_by THEN l.s0 ELSE l.s1
LegEnd(l) == IF req.arrive_by THEN l.t0 ELSE l.t1

\* The walk of a round leads from where its ride ended to a stop of the chain.
LEMMA WalkLegEnds ==
    ASSUME NEW r, NEW s
    PROVE  /\ WalkLeg(r, s).route = WALK
           /\ LegFrom(WalkLeg(r, s)) = states[r][s].walk_from
           /\ LegTo(WalkLeg(r, s)) = s
           /\ LegEnd(WalkLeg(r, s)) = states[r][s].walk_time
BY DEF WalkLeg, Swapped, leg_swap, Leg, LegFrom, LegTo, LegEnd

\* The ride of a round leads from where it was boarded to where the walk sets out.
LEMMA RideLegEnds ==
    ASSUME NEW r, NEW s
    PROVE  /\ RideLeg(r, s).route = states[r][states[r][s].walk_from].back_route
           /\ LegFrom(RideLeg(r, s)) = states[r][states[r][s].walk_from].back_stop
           /\ LegTo(RideLeg(r, s)) = states[r][s].walk_from
BY DEF RideLeg, Swapped, leg_swap, Leg, LegFrom, LegTo

\* The first walk leads out of the place that was asked for.
LEMMA FirstWalkEnds ==
    ASSUME NEW s
    PROVE  /\ FirstWalk(s).route = WALK
           /\ LegFrom(FirstWalk(s)) = IF req.arrive_by THEN req.to ELSE req.from
           /\ LegTo(FirstWalk(s)) = s
BY DEF FirstWalk, Swapped, leg_swap, Leg, LegFrom, LegTo

\* Legs of even and odd number.
LEMMA LegNumbers ==
    /\ \A r \in Nat : /\ ((2 * r + 3) - 3) \div 2 = r /\ (2 * r + 3) % 2 = 1 /\ 2 * r + 3 # 1
                      /\ ((2 * r + 2) - 2) \div 2 = r /\ (2 * r + 2) % 2 = 0 /\ 2 * r + 2 # 1
                      /\ (2 * r + 2 = 2 <=> r = 0)
    /\ \A k \in Nat \ {0} : \/ k = 1 \/ (\E r \in Nat : k = 2 * r + 3) \/ (\E r \in Nat : k = 2 * r + 2)
<1>1. ASSUME NEW r \in Nat
      PROVE  /\ ((2 * r + 3) - 3) \div 2 = r /\ (2 * r + 3) % 2 = 1 /\ 2 * r + 3 # 1
             /\ ((2 * r + 2) - 2) \div 2 = r /\ (2 * r + 2) % 2 = 0 /\ 2 * r + 2 # 1
             /\ (2 * r + 2 = 2 <=> r = 0)
  OBVIOUS
<1>2. ASSUME NEW k \in Nat \ {0}
      PROVE  k = 1 \/ (\E r \in Nat : k = 2 * r + 3) \/ (\E r \in Nat : k = 2 * r + 2)
  <2>1. CASE k % 2 = 1 /\ k # 1
    <3>1. (k - 3) \div 2 \in Nat /\ k = 2 * ((k - 3) \div 2) + 3
      BY <2>1
    <3> QED
      BY <3>1
  <2>2. CASE k % 2 = 0
    <3>1. (k - 2) \div 2 \in Nat /\ k = 2 * ((k - 2) \div 2) + 2
      BY <2>2
    <3> QED
      BY <3>1
  <2> QED
    BY <2>1, <2>2
<1> QED
  BY <1>1, <1>2

\* The first leg: the walk out of the place that was asked for, or the place on board.
LEMMA FirstLeg ==
    ASSUME TypeInv, pc = "searched", StartTripLeft, NEW n
    PROVE  /\ SearchLeg(n, 1).route = WALK
           /\ LegFrom(SearchLeg(n, 1)) = IF req.arrive_by THEN req.to ELSE req.from
           /\ req.start_trip_trip = NONE =>
                 LegTo(SearchLeg(n, 1)) = states[0][states[0][Chain(n)[0]].walk_from].back_stop
           /\ req.start_trip_trip # NONE => LegTo(SearchLeg(n, 1)) = ONBOARD /\ ~req.arrive_by
<1>1. CASE req.start_trip_trip = NONE
  BY <1>1, FirstWalkEnds DEF SearchLeg
<1>2. CASE req.start_trip_trip # NONE
  <2>1. req.from = ONBOARD /\ ~req.arrive_by
    BY <1>2 DEF StartTripLeft, TypeInv, RequestInv
  <2>2. SearchLeg(n, 1) = Leg(ONBOARD, ONBOARD, req.time, req.time, WALK, WALK)
    BY <1>2 DEF SearchLeg
  <2> QED
    BY <1>2, <2>1, <2>2 DEF Leg, LegFrom, LegTo
<1> QED
  BY <1>1, <1>2

\* The walk of round r.
LEMMA WalkLegOf ==
    ASSUME NEW n, NEW r \in Nat
    PROVE  SearchLeg(n, 2 * r + 3) = WalkLeg(r, Chain(n)[r])
BY LegNumbers DEF SearchLeg

\* The ride of round r.
LEMMA RideLegOf ==
    ASSUME NEW n, NEW r \in Nat
    PROVE  SearchLeg(n, 2 * r + 2) = IF r = 0 /\ req.start_trip_trip # NONE
               THEN [RideLeg(r, Chain(n)[r]) EXCEPT !.s0 = ONBOARD, !.t0 = req.time]
               ELSE RideLeg(r, Chain(n)[r])
<1> DEFINE k == 2 * r + 2
<1>1. (k - 2) \div 2 = r /\ k % 2 = 0 /\ k # 1 /\ (k = 2 <=> r = 0)
  BY LegNumbers
<1> HIDE DEF k
<1>2. k % 2 # 1
  BY <1>1
<1>3. SearchLeg(n, k) = IF r = 0 /\ req.start_trip_trip # NONE
               THEN [RideLeg(r, Chain(n)[r]) EXCEPT !.s0 = ONBOARD, !.t0 = req.time]
               ELSE RideLeg(r, Chain(n)[r])
  BY <1>1, <1>2 DEF SearchLeg
<1> QED
  BY <1>3 DEF k

\* Counted from the origin of the search, every leg begins where the one before it ended.
LEMMA SearchLegs ==
    ASSUME TypeInv, ChainInv, pc = "searched", StartTripLeft, NEW n \in PlanRounds, NEW r \in 0 .. n
    PROVE  /\ SearchLeg(n, 2 * r + 2).route \in Rideable
           /\ SearchLeg(n, 2 * r + 3).route = WALK
           /\ LegFrom(SearchLeg(n, 2 * r + 2)) = LegTo(SearchLeg(n, 2 * r + 1))
           /\ LegFrom(SearchLeg(n, 2 * r + 3)) = LegTo(SearchLeg(n, 2 * r + 2))
           /\ LegTo(SearchLeg(n, 2 * r + 3)) = Chain(n)[r]
           /\ LegEnd(SearchLeg(n, 2 * r + 3)) = states[r][Chain(n)[r]].walk_time
<1> DEFINE c == Chain(n)[r]
           u == states[r][c].walk_from
           st == states[r][u]
<1>1. r \in Nat /\ n \in Nat
  BY ReachedChain
<1>2. st.back_route \in Rideable
  BY ReachedChain DEF Walked, Ridden
<1>3. /\ SearchLeg(n, 2 * r + 3).route = WALK /\ LegFrom(SearchLeg(n, 2 * r + 3)) = u
      /\ LegTo(SearchLeg(n, 2 * r + 3)) = c /\ LegEnd(SearchLeg(n, 2 * r + 3)) = states[r][c].walk_time
  BY <1>1, WalkLegOf, WalkLegEnds
<1>4. CASE r = 0 /\ req.start_trip_trip # NONE
  <2>1. ~req.arrive_by /\ LegTo(SearchLeg(n, 1)) = ONBOARD
    BY <1>4, FirstLeg
  <2>2. SearchLeg(n, 2 * r + 2) = [RideLeg(r, c) EXCEPT !.s0 = ONBOARD, !.t0 = req.time]
    BY <1>1, <1>4, RideLegOf
  <2>3. RideLeg(r, c).route = st.back_route /\ RideLeg(r, c).s1 = u
    BY <2>1, RideLegEnds DEF LegTo
  <2>4. DOMAIN RideLeg(r, c) = {"s0", "s1", "t0", "t1", "route", "trip"}
    BY <2>1 DEF RideLeg, Swapped, Leg
  <2>5. /\ SearchLeg(n, 2 * r + 2).route = st.back_route /\ SearchLeg(n, 2 * r + 2).s1 = u
        /\ SearchLeg(n, 2 * r + 2).s0 = ONBOARD
    <3> DEFINE l == RideLeg(r, c)
    <3> HIDE DEF l
    <3> QED
      BY <2>2, <2>3, <2>4 DEF l
  <2>6. 2 * r + 1 = 1
    BY <1>4
  <2> QED
    BY <1>2, <1>3, <2>1, <2>5, <2>6 DEF LegFrom, LegTo
<1>5. CASE ~(r = 0 /\ req.start_trip_trip # NONE)
  <2>1. SearchLeg(n, 2 * r + 2) = RideLeg(r, c)
    BY <1>1, <1>5, RideLegOf
  <2>2. /\ SearchLeg(n, 2 * r + 2).route = st.back_route /\ LegTo(SearchLeg(n, 2 * r + 2)) = u
        /\ LegFrom(SearchLeg(n, 2 * r + 2)) = st.back_stop
    BY <2>1, RideLegEnds
  <2>3. LegTo(SearchLeg(n, 2 * r + 1)) = st.back_stop
    <3>1. CASE r = 0
      <4>1. 2 * r + 1 = 1
        BY <3>1
      <4> QED
        BY <1>5, <3>1, <4>1, FirstLeg
    <3>2. CASE r # 0
      <4>1. r - 1 \in Nat /\ r - 1 \in 0 .. n /\ r - 1 < n /\ (r - 1) + 1 = r /\ 2 * (r - 1) + 3 = 2 * r + 1
        BY <1>1, <3>2
      <4>2. LegTo(SearchLeg(n, 2 * r + 1)) = Chain(n)[r - 1]
        BY <4>1, WalkLegOf, WalkLegEnds
      <4>3. Chain(n)[r - 1] = st.back_stop
        BY <4>1, ReachedChain
      <4> QED
        BY <4>2, <4>3
    <3> QED
      BY <3>1, <3>2
  <2> QED
    BY <1>2, <1>3, <2>2, <2>3
<1> QED
  BY <1>4, <1>5

\* The legs between the first and the last, in pairs.
LEMMA LegPairs ==
    ASSUME NEW n \in Nat, NEW k \in 1 .. 2 * n + 3
    PROVE  /\ k = 1 \/ (\E r \in 0 .. n : k = 2 * r + 3) \/ (\E r \in 0 .. n : k = 2 * r + 2)
           /\ k < 2 * n + 3 =>
                (\E r \in 0 .. n : k = 2 * r + 1) \/ (\E r \in 0 .. n : k = 2 * r + 2)
<1>1. CASE \E r \in Nat : k = 2 * r + 3
  <2>1. PICK r \in Nat : k = 2 * r + 3
    BY <1>1
  <2>2. r \in 0 .. n /\ (k < 2 * n + 3 => r + 1 \in 0 .. n) /\ k = 2 * (r + 1) + 1
    BY <2>1
  <2> QED
    BY <2>1, <2>2
<1>2. CASE \E r \in Nat : k = 2 * r + 2
  <2>1. PICK r \in Nat : k = 2 * r + 2
    BY <1>2
  <2>2. r \in 0 .. n
    BY <2>1
  <2> QED
    BY <2>1, <2>2
<1>3. CASE k = 1
  <2>1. 0 \in 0 .. n /\ k = 2 * 0 + 1
    BY <1>3
  <2> QED
    BY <1>3, <2>1
<1>4. k \in Nat \ {0}
  OBVIOUS
<1> QED
  BY <1>1, <1>2, <1>3, <1>4, LegNumbers

\* An itinerary connects the places that were asked for, and ends at the time at which
\* the search reached its target.
LEMMA LegsConnected ==
    ASSUME TypeInv, ChainInv, pc = "searched", StartTripLeft, NEW n \in PlanRounds
    PROVE  LET legs == Legs(n) IN
           /\ Len(legs) = 2 * n + 3 /\ DOMAIN legs = 1 .. Len(legs) /\ Len(legs) % 2 = 1
           /\ legs[1].s0 = req.from /\ legs[Len(legs)].s1 = req.to
           /\ \A l \in DOMAIN legs : (legs[l].route = WALK) <=> (l % 2 = 1)
           /\ \A l \in DOMAIN legs : l % 2 = 0 => legs[l].route \in Rideable
           /\ \A l \in 2 .. Len(legs) : legs[l].s0 = legs[l - 1].s1
<1> DEFINE N == 2 * n + 3
           legs == Legs(n)
           at(l) == IF req.arrive_by THEN N + 1 - l ELSE l
<1>1. n \in Nat /\ 0 \in 0 .. n /\ n \in 0 .. n /\ N \in Nat /\ N > 1 /\ N % 2 = 1
  <2>1. n \in Nat
    BY SizesAssumption DEF PlanRounds, Round
  <2> QED
    BY <2>1, LegNumbers
<1>2. legs = [l \in 1 .. N |-> SearchLeg(n, at(l))]
  BY DEF Legs
<1>3. Len(legs) = N /\ DOMAIN legs = 1 .. N
  <2> HIDE DEF N, at
  <2> QED
    BY <1>1, <1>2
<1>4. \A l \in 1 .. N : legs[l] = SearchLeg(n, at(l)) /\ at(l) \in 1 .. N
  <2>1. \A l \in 1 .. N : legs[l] = SearchLeg(n, at(l))
    BY <1>2
  <2>2. \A l \in 1 .. N : at(l) \in 1 .. N
    BY <1>1
  <2> QED
    BY <2>1, <2>2
<1>5. \A l \in 1 .. N : at(l) % 2 = l % 2
  <2> SUFFICES ASSUME NEW l \in 1 .. N PROVE (N + 1 - l) % 2 = l % 2
    OBVIOUS
  <2>1. N + 1 - l = 2 * (n + 2 - l) + l
    BY <1>1
  <2>2. n + 2 - l \in Int /\ l \in Int
    BY <1>1
  <2>3. \A a, b \in Int : (2 * a + b) % 2 = b % 2
    OBVIOUS
  <2> HIDE DEF N
  <2> QED
    BY <2>1, <2>2, <2>3
<1>6. ASSUME NEW k \in 1 .. N
      PROVE  /\ (SearchLeg(n, k).route = WALK) <=> (k % 2 = 1)
             /\ k % 2 = 0 => SearchLeg(n, k).route \in Rideable
  <2>1. Rideable \subseteq Route /\ WALK \notin Route
    BY DEF Rideable, Flaggable, Route, WALK
  <2>2. CASE k = 1
    BY <2>2, FirstLeg
  <2>3. ASSUME NEW r \in 0 .. n, k = 2 * r + 3
        PROVE  SearchLeg(n, k).route = WALK /\ k % 2 = 1
    <3>1. r \in Nat
      BY <1>1
    <3>2. k % 2 = 1
      BY <2>3, <3>1, LegNumbers
    <3> QED
      BY <2>3, <3>2, SearchLegs
  <2>4. ASSUME NEW r \in 0 .. n, k = 2 * r + 2
        PROVE  SearchLeg(n, k).route \in Rideable /\ k % 2 = 0
    <3>1. r \in Nat
      BY <1>1
    <3>2. k % 2 = 0
      BY <2>4, <3>1, LegNumbers
    <3> QED
      BY <2>4, <3>2, SearchLegs
  <2> QED
    BY <1>1, <2>1, <2>2, <2>3, <2>4, LegPairs
<1>7. ASSUME NEW k \in 1 .. N, k < N PROVE LegFrom(SearchLeg(n, k + 1)) = LegTo(SearchLeg(n, k))
  <2>1. ASSUME NEW r \in 0 .. n, k = 2 * r + 1
        PROVE  LegFrom(SearchLeg(n, k + 1)) = LegTo(SearchLeg(n, k))
    <3>1. k + 1 = 2 * r + 2
      BY <2>1
    <3> QED
      BY <2>1, <3>1, SearchLegs
  <2>2. ASSUME NEW r \in 0 .. n, k = 2 * r + 2
        PROVE  LegFrom(SearchLeg(n, k + 1)) = LegTo(SearchLeg(n, k))
    <3>1. k + 1 = 2 * r + 3
      BY <2>2
    <3> QED
      BY <2>2, <3>1, SearchLegs
  <2> QED
    BY <1>1, <1>7, <2>1, <2>2, LegPairs
<1>8. /\ LegFrom(SearchLeg(n, 1)) = IF req.arrive_by THEN req.to ELSE req.from
      /\ LegTo(SearchLeg(n, N)) = TargetOf(req)
  BY <1>1, FirstLeg, SearchLegs, ChainUnfold DEF PlanRounds
<1>9. req.arrive_by \in BOOLEAN
  BY DEF TypeInv, RequestInv
<1> HIDE DEF legs, N
<1>10. legs[1].s0 = req.from /\ legs[N].s1 = req.to
  <2>1. 1 \in 1 .. N /\ N \in 1 .. N /\ N + 1 - N = 1 /\ N + 1 - 1 = N
    BY <1>1
  <2> QED
    BY <1>4, <1>8, <1>9, <2>1 DEF LegFrom, LegTo, TargetOf
<1>11. ASSUME NEW l \in 2 .. N PROVE legs[l].s0 = legs[l - 1].s1
  <2>1. /\ l \in 1 .. N /\ l - 1 \in 1 .. N /\ l - 1 < N /\ (l - 1) + 1 = l
        /\ N + 1 - l \in 1 .. N /\ N + 1 - l < N /\ N + 1 - (l - 1) = (N + 1 - l) + 1
    BY <1>1
  <2>2. CASE req.arrive_by
    BY <1>4, <1>7, <2>1, <2>2 DEF LegFrom, LegTo
  <2>3. CASE ~req.arrive_by
    BY <1>4, <1>7, <2>1, <2>3 DEF LegFrom, LegTo
  <2> QED
    BY <2>2, <2>3
<1>12. ASSUME NEW l \in 1 .. N
       PROVE  /\ (legs[l].route = WALK) <=> (l % 2 = 1)
              /\ l % 2 = 0 => legs[l].route \in Rideable
  BY <1>4, <1>5, <1>6
<1> QED
  BY <1>1, <1>3, <1>10, <1>11, <1>12 DEF legs, N

\* Every plan connects the places of its request: its legs alternate walks and rides, each
\* begins where the one before ended, the first at the place of departure and the last at
\* the place of arrival (check_plan_invariants, router.c:714-760), for every timetable and
\* request.  The hypothesis leaves out the passenger on board whose trip had not left: for
\* them the code writes an itinerary that begins on board and searches from the stop.
THEOREM PlansConnect == ASSUME OnboardGuard PROVE Spec => [](StartTripLeft => PlanConnected)
<1> DEFINE Inv == StartTripLeft => PlanConnected
<1>1. Init => Inv
  BY DEF Init, PlanConnected
<1>2. TypeInv /\ ChainInv /\ Inv /\ [Next]_vars => Inv'
  <2> SUFFICES ASSUME TypeInv, ChainInv, Inv, [Next]_vars, StartTripLeft' PROVE PlanConnected'
    OBVIOUS
  <2>1. CASE MakePlan
    <3>1. UNCHANGED req /\ StartTripLeft
      BY <2>1 DEF MakePlan, request, StartTripLeft
    <3>2. ASSUME NEW i \in DOMAIN plan'
          PROVE  LET legs == plan'[i].legs IN
                 /\ Len(legs) % 2 = 1
                 /\ legs[1].s0 = req.from /\ legs[Len(legs)].s1 = req.to
                 /\ \A l \in DOMAIN legs : (legs[l].route = WALK) <=> (l % 2 = 1)
                 /\ \A l \in 2 .. Len(legs) : legs[l].s0 = legs[l - 1].s1
      <4>1. PlanRound(i) \in PlanRounds /\ plan'[i].legs = Legs(PlanRound(i)) /\ pc = "searched"
        BY <2>1, PlanMade
      <4> QED
        BY <3>1, <4>1, LegsConnected
    <3> QED
      BY <3>1, <3>2 DEF PlanConnected
  <2>2. CASE UNCHANGED <<pc, plan, req, preq>>
    BY <2>2 DEF PlanConnected, StartTripLeft
  <2>3. CASE pc' # "planned"
    BY <2>3 DEF PlanConnected
  <2> QED
    BY <2>1, <2>2, <2>3, PlanKept
<1> QED
  BY <1>1, <1>2, ChainInvariant, PTL DEF Spec

\* What the driver's copy of the request keeps of the request.
CopyInv ==
    pc # "idle" => /\ req.banned_route = preq.banned_route /\ req.banned_stop_hard = preq.banned_stop_hard
                   /\ req.start_trip_trip = preq.start_trip_trip /\ req.mode = preq.mode
                   /\ req.agency = preq.agency /\ req.trip_attributes = preq.trip_attributes

\* Reversals change the direction, the times and the number of transfers, nothing else.
LEMMA CopyStep == ASSUME TypeInv, CopyInv, [Next]_vars PROVE CopyInv'
<1>1. ASSUME NEW now, StartSearch(now) PROVE CopyInv'
  <2>1. pc = "start" /\ preq' = preq
    BY <1>1 DEF StartSearch
  <2>2. DOMAIN req = DOMAIN router_request_initialize
    BY <2>1 DEF TypeInv, RequestInv
  <2>3. UNCHANGED req \/ req' = [req EXCEPT !.from = ONBOARD]
    BY <1>1 DEF StartSearch, RefuseOnBoard, StartOnBoard, StartAtStop
  <2> QED
    BY <2>1, <2>2, <2>3 DEF CopyInv, router_request_initialize
<1>2. CASE Reverse
  <2>1. pc = "searched" /\ preq' = preq
    BY <1>2 DEF Reverse
  <2>2. DOMAIN req = DOMAIN router_request_initialize
    BY <2>1 DEF TypeInv, RequestInv
  <2>3. UNCHANGED req \/ req' = Reversed(req, ReversedRound(req))
    BY <1>2 DEF Reverse
  <2> QED
    BY <2>1, <2>2, <2>3 DEF CopyInv, Reversed, router_request_initialize
<1>3. CASE \E q \in Requests(tdata) : Receive(q)
  BY <1>3 DEF Receive, CopyInv
<1>4. CASE UNCHANGED <<req, preq>> /\ (pc' # "idle" => pc # "idle")
  BY <1>4 DEF CopyInv
<1>5. \/ (\E now \in NowDays : StartSearch(now)) \/ Reverse \/ (\E q \in Requests(tdata) : Receive(q))
      \/ UNCHANGED <<req, preq>> /\ (pc' # "idle" => pc # "idle")
  BY DEF Next, WorkerStep, Waiting, TransferFrom, EndTransfers, StartRoute, EndRoutes, BoardAtStop,
         AlightAtStop, PassStop, StepRide, MakePlan, Answer, TripUpdate, request, vars
<1> QED
  BY <1>1, <1>2, <1>3, <1>4, <1>5

\* No plan rides a route that its passenger has banned, unless they are on board already:
\* however often apply_transfers flags routes again, in whichever of the three searches,
\* the ban holds (router.c:64-68, 150-196).
THEOREM BansHold == ASSUME OnboardGuard PROVE Spec => []BannedRouteNotRidden
<1>1. Init => BannedRouteNotRidden /\ CopyInv
  BY DEF Init, BannedRouteNotRidden, CopyInv
<1>2. TypeInv /\ CopyInv /\ [Next]_vars => CopyInv'
  BY CopyStep
<1>3. TypeInv /\ ChainInv /\ CopyInv /\ BannedRouteNotRidden /\ [Next]_vars => BannedRouteNotRidden'
  <2> SUFFICES ASSUME TypeInv, ChainInv, CopyInv, BannedRouteNotRidden, [Next]_vars,
                      preq.start_trip_trip' = NONE
               PROVE  BannedRouteNotRidden'
    BY DEF BannedRouteNotRidden
  <2>1. CASE MakePlan
    <3>1. UNCHANGED <<req, preq>> /\ StartTripLeft
      BY <2>1 DEF MakePlan, request, StartTripLeft, CopyInv
    <3>2. ASSUME NEW leg \in RideLegs' PROVE leg.route \in Rideable
      <4>1. PICK i \in DOMAIN plan' :
               \E l \in DOMAIN plan'[i].legs : l % 2 = 0 /\ leg = plan'[i].legs[l]
        BY DEF RideLegs
      <4>2. PlanRound(i) \in PlanRounds /\ plan'[i].legs = Legs(PlanRound(i)) /\ pc = "searched"
        BY <2>1, PlanMade
      <4> QED
        BY <3>1, <4>1, <4>2, LegsConnected
    <3>3. pc = "searched"
      BY <2>1 DEF MakePlan
    <3> QED
      BY <3>1, <3>2, <3>3 DEF BannedRouteNotRidden, Rideable, Flaggable, CopyInv
  <2>2. CASE UNCHANGED <<pc, plan, req, preq>>
    BY <2>2 DEF BannedRouteNotRidden, RideLegs
  <2>3. CASE pc' # "planned"
    BY <2>3 DEF BannedRouteNotRidden
  <2> QED
    BY <2>1, <2>2, <2>3, PlanKept
<1> QED
  BY <1>1, <1>2, <1>3, ChainInvariant, PTL DEF Spec

(***************************************************************************)
(* Each further ride pays for itself.                                      *)
(***************************************************************************)
\* Stop s was reached in round r: not a walk of the initial state.
ReachedIn(r, s) == states[r][s].walk_time # UNREACHED /\ ~Lent(r)

\* The best time of a stop is no worse than any time at which it was reached.
BestInv ==
    \A r \in Round, s \in Stop : ReachedIn(r, s) =>
        best_time[s] # UNREACHED /\ ~Better(req.arrive_by, states[r][s].walk_time, best_time[s])

\* A ride of this round is recorded only where it beats the rounds before.
RecordedInv ==
    Searching /\ round # NONE => \A s \in updated_stops, r \in Round :
        r < round /\ ReachedIn(r, s) =>
            Better(req.arrive_by, states[round][s].time, states[r][s].walk_time)

\* What a round writes beats the rounds before.
RoundsInv ==
    \A r, k \in Round, s \in Stop : r < k /\ ReachedIn(r, s) /\ ReachedIn(k, s) =>
        Better(req.arrive_by, states[k][s].walk_time, states[r][s].walk_time)

ParetoInv == Searching \/ pc = "searched" => BestInv /\ RecordedInv /\ RoundsInv

\* What is better than the best is better than all that is no better than the best.
LEMMA BetterOrder ==
    ASSUME NEW d \in BOOLEAN, NEW a \in Int, NEW b \in Int, NEW c \in Int,
           Better(d, a, b), ~Better(d, c, b)
    PROVE  Better(d, a, c) /\ ~Better(d, c, a)
BY DEF Better

\* Times of the states are numbers that can be compared.
LEMMA StateTimes ==
    ASSUME TypeInv, NEW r \in Round, NEW s \in Stop
    PROVE  /\ states[r][s].time \in Int /\ states[r][s].walk_time \in Int /\ best_time[s] \in Int
           /\ pc # "idle" => req.arrive_by \in BOOLEAN
<1>1. states[r][s] \in StateRec /\ best_time[s] \in RTime
  BY DEF TypeInv, TypeOK
<1> QED
  BY <1>1, RTimeInt DEF StateRec, TypeInv, RequestInv

\* A walk is recorded when it improves the best time, or where a ride of this round has
\* set the best time.
LEMMA TransferTimes ==
    ASSUME TypeInv, NEW s \in todo, TransferFrom(s), NEW u \in Stop
    PROVE  \/ states'[Row(round)][u].walk_time = states[Row(round)][u].walk_time
           \/ /\ states'[Row(round)][u].walk_time = best_time'[u] /\ best_time'[u] # UNREACHED
              /\ \/ Improves(req.arrive_by, best_time'[u], best_time[u])
                 \/ u = s /\ best_time'[u] = states[Row(round)][s].time
<1> DEFINE row == Row(round)
           t == states[row][s].time
           walked == WalkImproves(s, t)
<1>1. CASE UNCHANGED scratch
  BY <1>1 DEF scratch
<1>2. CASE ~UNCHANGED scratch
  <2>1. /\ t # UNREACHED
        /\ best_time' = [v \in Stop |-> IF v \in walked THEN WalkTime(s, v, t) ELSE best_time[v]]
        /\ states' = [states EXCEPT ![row] = [v \in Stop |->
              IF v \in walked
              THEN [@[v] EXCEPT !.walk_time = WalkTime(s, v, t), !.walk_from = s]
              ELSE IF v \in SelfTransfer(s, t)
              THEN [@[v] EXCEPT !.walk_time = t, !.walk_from = s]
              ELSE @[v]]]
    BY <1>2 DEF TransferFrom, scratch
  <2>2. /\ SelfTransfer(s, t) \subseteq {s} /\ (s \in SelfTransfer(s, t) => t = best_time[s])
        /\ \A v \in walked : /\ WalkTime(s, v, t) # UNREACHED
                             /\ Improves(req.arrive_by, WalkTime(s, v, t), best_time[v])
    BY DEF WalkImproves, SelfTransfer, RTIME_THREE_DAYS, UNREACHED
  <2>3. row \in Round /\ states[row][u] \in StateRec /\ DOMAIN states = Round
    BY RowType DEF TypeInv, TypeOK
  <2> HIDE DEF walked, t, row
  <2>4. states'[row][u] = IF u \in walked
              THEN [states[row][u] EXCEPT !.walk_time = WalkTime(s, u, t), !.walk_from = s]
              ELSE IF u \in SelfTransfer(s, t)
              THEN [states[row][u] EXCEPT !.walk_time = t, !.walk_from = s]
              ELSE states[row][u]
    BY <2>1, <2>3
  <2>5. CASE u \in walked
    <3>1. states'[row][u].walk_time = WalkTime(s, u, t) /\ best_time'[u] = WalkTime(s, u, t)
      BY <2>1, <2>3, <2>4, <2>5 DEF StateRec
    <3> QED
      BY <2>2, <2>5, <3>1 DEF row
  <2>6. CASE u \notin walked /\ u \in SelfTransfer(s, t)
    <3>1. states'[row][u].walk_time = t /\ best_time'[u] = t /\ u = s
      BY <2>1, <2>2, <2>3, <2>4, <2>6 DEF StateRec
    <3> QED
      BY <2>1, <3>1 DEF row, t
  <2>7. CASE u \notin walked /\ u \notin SelfTransfer(s, t)
    BY <2>4, <2>7 DEF row
  <2> QED
    BY <2>5, <2>6, <2>7
<1> QED
  BY <1>1, <1>2

\* A ride is recorded when it improves the best time.
LEMMA AlightTimes ==
    ASSUME TypeInv, AlightAtStop, NEW u \in updated_stops'
    PROVE  \/ u \in updated_stops /\ states'[round][u].time = states[round][u].time
           \/ u \in Stop /\ Improves(req.arrive_by, states'[round][u].time, best_time[u])
<1> DEFINE time == StopTime(RideTrip, ~req.arrive_by, ride.board_day)
<1>1. CASE UNCHANGED scratch
  BY <1>1 DEF scratch
<1>2. CASE ~UNCHANGED scratch
  <2>1. /\ WorthRecording(time)
        /\ states' = [states EXCEPT ![round][RideStop] =
              [@ EXCEPT !.time = time, !.back_route = ride.route,
                        !.back_trip = RideTrip, !.back_stop = ride.board_stop,
                        !.board_time = ride.board_time]]
        /\ updated_stops' = updated_stops \cup {RideStop}
    BY <1>2 DEF AlightAtStop
  <2>2. Improves(req.arrive_by, time, best_time[RideStop])
    BY <2>1 DEF WorthRecording
  <2> HIDE DEF time
  <2>3. round \in Round /\ RideStop \in Stop /\ states[round][RideStop] \in StateRec
    BY RideFacts DEF AlightAtStop, TypeInv, TypeOK, RideInv
  <2>4. states'[round][RideStop].time = time
    BY <2>1, <2>3 DEF StateRec, TypeInv, TypeOK
  <2>5. \A x \in Stop : x # RideStop => states'[round][x] = states[round][x]
    BY <2>1, <2>3 DEF TypeInv, TypeOK
  <2>6. updated_stops \subseteq Stop
    BY DEF TypeInv, TypeOK
  <2> QED
    BY <2>1, <2>2, <2>3, <2>4, <2>5, <2>6
<1> QED
  BY <1>1, <1>2

\* A best time, once known, is never forgotten within a search.
LEMMA BestWritten ==
    ASSUME TypeInv, [Next]_vars, Searching, NEW s \in Stop
    PROVE  best_time'[s] = best_time[s] \/ best_time'[s] # UNREACHED
<1>1. ASSUME NEW x \in todo, TransferFrom(x) PROVE best_time'[s] = best_time[s] \/ best_time'[s] # UNREACHED
  <2> DEFINE t == states[Row(round)][x].time
             walked == WalkImproves(x, t)
  <2>1. CASE UNCHANGED scratch
    BY <2>1 DEF scratch
  <2>2. CASE ~UNCHANGED scratch
    <3>1. best_time' = [v \in Stop |-> IF v \in walked THEN WalkTime(x, v, t) ELSE best_time[v]]
      BY <1>1, <2>2 DEF TransferFrom
    <3>2. \A v \in walked : WalkTime(x, v, t) # UNREACHED
      BY DEF WalkImproves, RTIME_THREE_DAYS, UNREACHED
    <3> HIDE DEF walked, t
    <3> QED
      BY <3>1, <3>2
  <2> QED
    BY <2>1, <2>2
<1>2. ASSUME AlightAtStop PROVE best_time'[s] = best_time[s] \/ best_time'[s] # UNREACHED
  <2> DEFINE time == StopTime(RideTrip, ~req.arrive_by, ride.board_day)
  <2>1. CASE UNCHANGED scratch
    BY <2>1 DEF scratch
  <2>2. CASE ~UNCHANGED scratch
    <3>1. WorthRecording(time) /\ best_time' = [best_time EXCEPT ![RideStop] = time]
      BY <1>2, <2>2 DEF AlightAtStop
    <3>2. time # UNREACHED
      BY <3>1 DEF WorthRecording
    <3>3. DOMAIN best_time = Stop
      BY DEF TypeInv, TypeOK
    <3> HIDE DEF time
    <3> QED
      BY <3>1, <3>2, <3>3
  <2> QED
    BY <2>1, <2>2
<1>3. CASE UNCHANGED best_time
  BY <1>3
<1>4. (\E x \in todo : TransferFrom(x)) \/ AlightAtStop \/ UNCHANGED best_time
  BY DEF Next, WorkerStep, Waiting, Searching, StartSearch, EndTransfers, StartRoute, EndRoutes,
         BoardAtStop, PassStop, Reverse, MakePlan, Answer, Receive, TripUpdate, scratch, vars
<1> QED
  BY <1>1, <1>2, <1>3, <1>4

\* Where nothing new was reached, the best times still bound what was.
LEMMA BestKept ==
    ASSUME TypeInv, TypeInv', [Next]_vars, Searching, pc' # "start", req' = req,
           NEW r \in Round, NEW s \in Stop, best_time[s] # UNREACHED,
           ~Better(req.arrive_by, states[r][s].walk_time, best_time[s])
    PROVE  best_time'[s] # UNREACHED /\ ~Better(req.arrive_by, states[r][s].walk_time, best_time'[s])
<1>1. best_time'[s] = best_time[s] \/ Better(req.arrive_by, best_time'[s], best_time[s])
  BY SearchStepHolds DEF SearchStep, Searching, Improves
<1>2. CASE best_time'[s] = best_time[s]
  BY <1>2
<1>3. CASE Better(req.arrive_by, best_time'[s], best_time[s])
  <2>1. /\ best_time'[s] \in Int /\ best_time[s] \in Int /\ states[r][s].walk_time \in Int
        /\ req.arrive_by \in BOOLEAN
    BY StateTimes, RTimeInt DEF TypeInv, TypeOK, Searching
  <2>2. ~Better(req.arrive_by, states[r][s].walk_time, best_time'[s])
    BY <1>3, <2>1, BetterOrder
  <2>3. best_time'[s] # UNREACHED
    BY BestWritten
  <2> QED
    BY <2>2, <2>3
<1> QED
  BY <1>1, <1>2, <1>3

\* A search that begins has reached nothing yet.
LEMMA StartReaches ==
    ASSUME TypeInv, TypeInv', NEW now \in NowDays, StartSearch(now), NEW r \in Round, NEW s \in Stop
    PROVE  ~ReachedIn(r, s)'
<1> SUFFICES ASSUME ReachedIn(r, s)' PROVE FALSE
  OBVIOUS
<1>1. ChainInv'
  BY ChainStart
<1>2. pc' \in {"transfers", "routes", "searched"} /\ (pc' = "routes" => round' = 0)
      /\ (pc' # "routes" => round' = NONE)
  BY DEF StartSearch, RefuseOnBoard, StartOnBoard, StartAtStop
<1>3. Walked(r, s)'
  BY <1>1, <1>2 DEF ChainInv, WalksInv, ReachedIn, Searching
<1>4. r \in Int /\ r >= 0 /\ r <= round'
  BY <1>3, RowType DEF Walked
<1>5. pc' = "routes" /\ r = 0
  BY <1>2, <1>4 DEF NONE
<1>6. PICK x : StartOnBoard(x)
  BY <1>5 DEF StartSearch, RefuseOnBoard, StartAtStop
<1>7. states'[0] = ResetStates[0]
  <2>1. DOMAIN ResetStates = Round /\ 0 \in Round /\ 0 # 1
    BY RowType, ResetStatesType
  <2> QED
    BY <1>6, <2>1 DEF StartOnBoard
<1>8. states[0][s] \in StateRec /\ 0 \in Round
  BY RowType DEF TypeInv, TypeOK
<1> QED
  BY <1>5, <1>7, <1>8 DEF ReachedIn, ResetStates, StateRec

\* So there is nothing to be in order.
LEMMA ParetoStart ==
    ASSUME TypeInv, TypeInv', NEW now \in NowDays, StartSearch(now)
    PROVE  ParetoInv'
<1>1. \A r \in Round, s \in Stop : ~ReachedIn(r, s)'
  BY StartReaches
<1>2. BestInv' /\ RoundsInv'
  BY <1>1 DEF BestInv, RoundsInv
<1>3. RecordedInv'
  <2>1. pc' = "routes" => updated_stops' = {}
    BY DEF StartSearch, RefuseOnBoard, StartOnBoard, StartAtStop
  <2>2. pc' # "routes" => round' = NONE \/ ~Searching'
    BY DEF StartSearch, RefuseOnBoard, StartOnBoard, StartAtStop
  <2> QED
    BY <2>1, <2>2 DEF RecordedInv, Searching
<1> QED
  BY <1>2, <1>3 DEF ParetoInv

\* A walk is written only where it beats what the rounds before have reached: the best
\* time bounds all of them, also while it is the round's own ride that set it.
LEMMA ParetoTransfer ==
    ASSUME TypeInv, TypeInv', ChainInv, ParetoInv, NEW s \in todo, TransferFrom(s)
    PROVE  ParetoInv'
<1>1. /\ pc = "transfers" /\ pc' = pc /\ round' = round /\ s \in Stop
      /\ req' = req /\ updated_stops' = updated_stops
  BY DEF TransferFrom, request, scratch, TypeInv, TypeOK
<1>2. Searching /\ Searching' /\ (\A r \in Round : Lent(r)' <=> Lent(r))
  BY <1>1 DEF Searching, Lent
<1>3. WalksInv /\ FlaggedInv /\ TodoInv /\ BestInv /\ RecordedInv /\ RoundsInv
  BY <1>2 DEF ChainInv, ParetoInv
<1>4. [Next]_vars /\ pc' # "start"
  BY <1>1 DEF Next, WorkerStep
<1>5. /\ req.arrive_by \in BOOLEAN
      /\ \A r \in Round, u \in Stop : /\ states[r][u].time \in Int /\ states[r][u].walk_time \in Int
                                      /\ best_time[u] \in Int /\ best_time'[u] \in Int
  <2>1. best_time' \in [Stop -> RTime] /\ req.arrive_by \in BOOLEAN
    BY <1>1 DEF TypeInv, TypeOK, RequestInv
  <2> QED
    BY <2>1, StateTimes, RTimeInt
\* What is new in this step.
<1>6. ASSUME NEW r \in Round, NEW u \in Stop, ReachedIn(r, u)'
      PROVE  \/ ReachedIn(r, u) /\ states'[r][u].walk_time = states[r][u].walk_time
             \/ /\ r = round /\ round # NONE /\ states'[r][u].walk_time = best_time'[u]
                /\ best_time'[u] # UNREACHED
                /\ \/ Improves(req.arrive_by, best_time'[u], best_time[u])
                   \/ u = s /\ best_time'[u] = states[round][s].time
  <2>1. CASE states'[r][u].walk_time = states[r][u].walk_time
    BY <1>2, <1>6, <2>1 DEF ReachedIn
  <2>2. CASE states'[r][u].walk_time # states[r][u].walk_time
    <3>1. r = Row(round)
      BY <2>2, TransferEffect
    <3>2. round # NONE
      BY <1>2, <1>6, <3>1, RowType DEF ReachedIn, Lent
    <3>3. r = round /\ Row(round) = round
      BY <3>1, <3>2, RowType
    <3> QED
      BY <2>2, <3>2, <3>3, TransferTimes
  <2> QED
    BY <2>1, <2>2
\* A row that is over keeps its walks.
<1>7. ASSUME NEW r \in Round, NEW u \in Stop, round # NONE, r < round, ReachedIn(r, u)'
      PROVE  ReachedIn(r, u) /\ states'[r][u].walk_time = states[r][u].walk_time
  <2>1. r \in Int /\ round \in Int
    BY <1>7, RowType
  <2>2. r # round
    BY <1>7, <2>1
  <2> QED
    BY <1>6, <1>7, <2>2
<1>8. BestInv'
  <2> SUFFICES ASSUME NEW r \in Round, NEW u \in Stop, ReachedIn(r, u)'
               PROVE  best_time'[u] # UNREACHED
                      /\ ~Better(req.arrive_by, states'[r][u].walk_time, best_time'[u])
    BY <1>1 DEF BestInv
  <2>1. CASE ReachedIn(r, u) /\ states'[r][u].walk_time = states[r][u].walk_time
    <3>1. best_time[u] # UNREACHED /\ ~Better(req.arrive_by, states[r][u].walk_time, best_time[u])
      BY <1>3, <2>1 DEF BestInv
    <3> QED
      BY <1>1, <1>2, <1>4, <2>1, <3>1, BestKept
  <2>2. CASE states'[r][u].walk_time = best_time'[u] /\ best_time'[u] # UNREACHED
    BY <1>5, <2>2 DEF Better
  <2> QED
    BY <1>6, <2>1, <2>2
<1>9. RecordedInv'
  <2> SUFFICES ASSUME round # NONE, NEW u \in updated_stops, NEW r \in Round, r < round, ReachedIn(r, u)'
               PROVE  Better(req.arrive_by, states'[round][u].time, states'[r][u].walk_time)
    BY <1>1 DEF RecordedInv
  <2>1. u \in Stop /\ round \in Round
    BY RowType DEF TypeInv, TypeOK
  <2>2. ReachedIn(r, u) /\ states'[r][u].walk_time = states[r][u].walk_time
    BY <1>7, <2>1
  <2>3. states'[round][u].time = states[round][u].time
    BY <2>1, TransferEffect
  <2>4. Better(req.arrive_by, states[round][u].time, states[r][u].walk_time)
    BY <1>2, <1>3, <2>2 DEF RecordedInv
  <2> QED
    BY <2>2, <2>3, <2>4
<1>10. RoundsInv'
  <2> SUFFICES ASSUME NEW r \in Round, NEW k \in Round, NEW u \in Stop, r < k,
                      ReachedIn(r, u)', ReachedIn(k, u)'
               PROVE  Better(req.arrive_by, states'[k][u].walk_time, states'[r][u].walk_time)
    BY <1>1 DEF RoundsInv
  <2>1. CASE ReachedIn(k, u) /\ states'[k][u].walk_time = states[k][u].walk_time
    <3>1. k <= round
      BY <1>3, <2>1 DEF ReachedIn, WalksInv, Walked
    <3>2. round # NONE
      BY <3>1, RowType DEF NONE
    <3>3. r < round
      BY <3>1, <3>2, RowType
    <3>4. ReachedIn(r, u) /\ states'[r][u].walk_time = states[r][u].walk_time
      BY <1>7, <3>2, <3>3
    <3> QED
      BY <1>3, <2>1, <3>4 DEF RoundsInv
  <2>2. CASE /\ k = round /\ round # NONE /\ states'[k][u].walk_time = best_time'[u]
             /\ best_time'[u] # UNREACHED
             /\ \/ Improves(req.arrive_by, best_time'[u], best_time[u])
                \/ u = s /\ best_time'[u] = states[round][s].time
    <3>1. ReachedIn(r, u) /\ states'[r][u].walk_time = states[r][u].walk_time
      BY <1>7, <2>2
    <3>2. best_time[u] # UNREACHED /\ ~Better(req.arrive_by, states[r][u].walk_time, best_time[u])
      BY <1>3, <3>1 DEF BestInv
    <3>3. CASE Improves(req.arrive_by, best_time'[u], best_time[u])
      <4>1. Better(req.arrive_by, best_time'[u], best_time[u])
        BY <3>2, <3>3 DEF Improves
      <4>2. Better(req.arrive_by, best_time'[u], states[r][u].walk_time)
        BY <1>5, <3>2, <4>1, BetterOrder
      <4> QED
        BY <2>2, <3>1, <4>2
    <3>4. CASE u = s /\ best_time'[u] = states[round][s].time
      <4>1. s \in updated_stops
        BY <1>1, <1>3, <2>2 DEF TodoInv
      <4>2. Better(req.arrive_by, states[round][s].time, states[r][s].walk_time)
        BY <1>2, <1>3, <2>2, <3>1, <3>4, <4>1 DEF RecordedInv
      <4> QED
        BY <2>2, <3>1, <3>4, <4>2
    <3> QED
      BY <2>2, <3>3, <3>4
  <2> QED
    BY <1>6, <2>1, <2>2
<1> QED
  BY <1>8, <1>9, <1>10 DEF ParetoInv

\* Ending a round forgets the walks of the initial state before they count as reached.
LEMMA ParetoEndTransfers ==
    ASSUME TypeInv, ChainInv, ParetoInv, EndTransfers
    PROVE  ParetoInv'
<1>1. /\ pc = "transfers" /\ pc' \in {"routes", "searched"} /\ updated_stops' = {}
      /\ UNCHANGED <<req, best_time>>
      /\ pc' = "routes" => round' = IF round = NONE THEN 0 ELSE round + 1
      /\ pc' = "searched" => round' = round
  BY DEF EndTransfers, request
<1>2. LentInv /\ BestInv /\ RoundsInv /\ Searching
  BY <1>1 DEF ChainInv, ParetoInv, Searching
<1>3. round = NONE => pc' = "routes"
  <2>1. NRounds \in Int /\ NRounds > 0
    BY <1>1, SizesAssumption DEF NRounds, TypeInv, RequestInv
  <2> QED
    BY <2>1 DEF EndTransfers
<1>4. round = 0 => \A u \in Stop : states'[1][u].walk_time = UNREACHED
  BY <1>2, RowType, EndTransfersEffect DEF LentInv, Lent
<1>5. ASSUME NEW r \in Round, NEW u \in Stop, ReachedIn(r, u)'
      PROVE  ReachedIn(r, u) /\ states'[r][u].walk_time = states[r][u].walk_time
  <2>1. states[r][u].walk_time # UNREACHED /\ states'[r][u].walk_time = states[r][u].walk_time
    BY <1>5, EndTransfersEffect DEF ReachedIn
  <2>2. ~Lent(r)
    BY <1>1, <1>3, <1>4, <1>5 DEF Lent, Searching, ReachedIn
  <2> QED
    BY <2>1, <2>2 DEF ReachedIn
<1>6. BestInv'
  BY <1>1, <1>2, <1>5 DEF BestInv
<1>7. RoundsInv'
  BY <1>1, <1>2, <1>5 DEF RoundsInv
<1> QED
  BY <1>1, <1>6, <1>7 DEF ParetoInv, RecordedInv

\* A ride that is recorded improves the best time of its stop.
LEMMA ParetoAlight ==
    ASSUME TypeInv, TypeInv', ParetoInv, AlightAtStop
    PROVE  ParetoInv'
<1>1. pc = "ride" /\ pc' \in {"ride", "routes"} /\ UNCHANGED <<round, req>>
  BY DEF AlightAtStop, StepRide, request
<1>2. Searching /\ Searching' /\ (\A r \in Round : Lent(r)' <=> Lent(r)) /\ round \in Round
  BY <1>1 DEF Searching, Lent, TypeInv, RideInv
<1>3. BestInv /\ RecordedInv /\ RoundsInv
  BY <1>2 DEF ParetoInv
<1>4. [Next]_vars /\ pc' # "start"
  BY <1>1 DEF Next, WorkerStep
<1>5. \A r \in Round, u \in Stop : states'[r][u].walk_time = states[r][u].walk_time
  BY AlightEffect
<1>6. \A r \in Round, u \in Stop : ReachedIn(r, u)' <=> ReachedIn(r, u)
  BY <1>2, <1>5 DEF ReachedIn
<1>7. BestInv'
  <2> SUFFICES ASSUME NEW r \in Round, NEW u \in Stop, ReachedIn(r, u)
               PROVE  best_time'[u] # UNREACHED
                      /\ ~Better(req.arrive_by, states[r][u].walk_time, best_time'[u])
    BY <1>1, <1>5, <1>6 DEF BestInv
  <2>1. best_time[u] # UNREACHED /\ ~Better(req.arrive_by, states[r][u].walk_time, best_time[u])
    BY <1>3 DEF BestInv
  <2> QED
    BY <1>1, <1>2, <1>4, <2>1, BestKept
<1>8. RecordedInv'
  <2> SUFFICES ASSUME round # NONE, NEW u \in updated_stops', NEW r \in Round, r < round, ReachedIn(r, u)'
               PROVE  Better(req.arrive_by, states'[round][u].time, states'[r][u].walk_time)
    BY <1>1 DEF RecordedInv
  <2>1. u \in Stop
    BY DEF TypeInv, TypeOK
  <2>2. ReachedIn(r, u) /\ states'[r][u].walk_time = states[r][u].walk_time
    BY <1>5, <1>6, <2>1
  <2>3. CASE u \in updated_stops /\ states'[round][u].time = states[round][u].time
    BY <1>2, <1>3, <2>2, <2>3 DEF RecordedInv
  <2>4. CASE Improves(req.arrive_by, states'[round][u].time, best_time[u])
    <3>1. best_time[u] # UNREACHED /\ ~Better(req.arrive_by, states[r][u].walk_time, best_time[u])
      BY <1>3, <2>1, <2>2 DEF BestInv
    <3>2. Better(req.arrive_by, states'[round][u].time, best_time[u])
      BY <2>4, <3>1 DEF Improves
    <3>3. states'[round][u].time \in Int
      <4>1. states'[round][u] \in StateRec
        BY <1>2, <2>1 DEF TypeInv, TypeOK
      <4> QED
        BY <4>1, RTimeInt DEF StateRec
    <3>4. req.arrive_by \in BOOLEAN /\ states[r][u].walk_time \in Int /\ best_time[u] \in Int
      BY <1>1, <2>1, StateTimes
    <3>5. Better(req.arrive_by, states'[round][u].time, states[r][u].walk_time)
      BY <3>1, <3>2, <3>3, <3>4, BetterOrder
    <3> QED
      BY <2>2, <3>5
  <2> QED
    BY <2>3, <2>4, AlightTimes
<1>9. RoundsInv'
  BY <1>1, <1>3, <1>5, <1>6 DEF RoundsInv
<1> QED
  BY <1>7, <1>8, <1>9 DEF ParetoInv

\* Every step keeps the order of what the rounds have reached.
LEMMA ParetoStep ==
    ASSUME TypeInv, TypeInv', ChainInv, ParetoInv, [Next]_vars
    PROVE  ParetoInv'
<1>1. ASSUME NEW now \in NowDays, StartSearch(now) PROVE ParetoInv'
  BY <1>1, ParetoStart
<1>2. ASSUME NEW s \in todo, TransferFrom(s) PROVE ParetoInv'
  BY <1>2, ParetoTransfer
<1>3. CASE EndTransfers
  BY <1>3, ParetoEndTransfers
<1>4. CASE AlightAtStop
  BY <1>4, ParetoAlight
<1>5. CASE pc' \notin {"transfers", "routes", "ride", "searched"}
  BY <1>5 DEF ParetoInv, Searching
<1>6. CASE /\ UNCHANGED <<states, best_time, round, req>> /\ updated_stops' \subseteq updated_stops
           /\ Searching' <=> Searching
           /\ pc' = "searched" => pc = "searched"
  <2>1. \A r \in Round, u \in Stop : ReachedIn(r, u)' <=> ReachedIn(r, u)
    BY <1>6 DEF ReachedIn, Lent
  <2>2. BestInv => BestInv'
    BY <1>6, <2>1 DEF BestInv
  <2>3. RoundsInv => RoundsInv'
    BY <1>6, <2>1 DEF RoundsInv
  <2>4. RecordedInv => RecordedInv'
    <3>1. updated_stops \subseteq Stop
      BY DEF TypeInv, TypeOK
    <3> QED
      BY <1>6, <2>1, <3>1 DEF RecordedInv
  <2> QED
    BY <1>6, <2>2, <2>3, <2>4 DEF ParetoInv
<1>7. ASSUME NEW r \in todo, StartRoute(r) PROVE ParetoInv'
  BY <1>6, <1>7 DEF StartRoute, scratch, request, Searching
<1>8. ASSUME EndRoutes \/ BoardAtStop \/ PassStop PROVE ParetoInv'
  BY <1>6, <1>8 DEF EndRoutes, BoardAtStop, PassStop, StepRide, unflag_banned_stops, scratch, request, Searching
<1>9. ASSUME Reverse \/ MakePlan \/ Answer \/ \E q \in Requests(tdata) : Receive(q) PROVE ParetoInv'
  BY <1>5, <1>9 DEF Reverse, MakePlan, Answer, Receive
<1>10. ASSUME UNCHANGED vars \/ \E u \in TripUpdates : TripUpdate(u) PROVE ParetoInv'
  BY <1>6, <1>10 DEF TripUpdate, vars, scratch, request, position, Searching
<1> QED
  BY <1>1, <1>2, <1>3, <1>4, <1>7, <1>8, <1>9, <1>10 DEF Next, WorkerStep, Waiting

\* An itinerary has a walk more than rides twice over, and its time at the target is the
\* walk time of its round.
LEMMA LegsTime ==
    ASSUME TypeInv, pc = "searched", NEW n \in PlanRounds
    PROVE  Len(Legs(n)) = 2 * n + 3 /\ TargetTime(Legs(n)) = states[n][TargetOf(req)].walk_time
<1> DEFINE N == 2 * n + 3
<1>1. n \in Round /\ n \in Nat /\ N \in Nat /\ 1 \in 1 .. N /\ N \in 1 .. N /\ N + 1 - 1 = N
  BY SizesAssumption DEF PlanRounds, Round
<1>2. SearchLeg(n, N) = WalkLeg(n, TargetOf(req))
  BY <1>1, WalkLegOf, ChainUnfold
<1>3. Legs(n) = [k \in 1 .. N |-> SearchLeg(n, IF req.arrive_by THEN N + 1 - k ELSE k)]
  BY DEF Legs
<1> HIDE DEF N
<1>4. Len(Legs(n)) = N
  BY <1>1, <1>3
<1>5. LegEnd(SearchLeg(n, N)) = states[n][TargetOf(req)].walk_time
  BY <1>2, WalkLegEnds
<1>6. TargetTime(Legs(n)) = LegEnd(SearchLeg(n, N))
  BY <1>1, <1>3, <1>4 DEF TargetTime, LegEnd
<1> QED
  BY <1>4, <1>5, <1>6 DEF N

\* The itineraries of a plan follow the order of their rounds.
LEMMA PlanOrder ==
    ASSUME TypeInv, ChainInv, MakePlan, NEW i \in DOMAIN plan', NEW j \in DOMAIN plan', i < j
    PROVE  PlanRound(i) < PlanRound(j)
<1> DEFINE Below(r) == {o \in PlanRounds : o < r}
<1>1. /\ PlanRound(i) \in PlanRounds /\ Cardinality(Below(PlanRound(i))) = i - 1
      /\ PlanRound(j) \in PlanRounds /\ Cardinality(Below(PlanRound(j))) = j - 1
      /\ i \in Int /\ j \in Int
  <2>1. i \in DOMAIN plan' /\ j \in DOMAIN plan' /\ DOMAIN plan' = 1 .. Cardinality(PlanRounds)
    BY PlanMade
  <2> QED
    BY <2>1, PlanMade
<1>2. PICK n \in PlanRounds, m \in PlanRounds : n = PlanRound(i) /\ m = PlanRound(j)
  BY <1>1
<1>3. RRRR_MAX_ROUNDS - 1 \in Int /\ 0 \in Int /\ PlanRounds \subseteq 0 .. (RRRR_MAX_ROUNDS - 1)
  BY SizesAssumption DEF PlanRounds, Round
<1>4. PlanRounds \subseteq Int
  BY <1>3
<1>5. IsFiniteSet(PlanRounds)
  BY <1>3, FS_Interval, FS_Subset
<1>6. ASSUME m <= n PROVE FALSE
  <2>1. \A o \in PlanRounds : o < m => o < n
    BY <1>4, <1>6
  <2>2. Below(m) \subseteq Below(n) /\ Below(n) \subseteq PlanRounds
    BY <2>1
  <2>3. Cardinality(Below(m)) <= Cardinality(Below(n)) /\ IsFiniteSet(Below(n))
    <3> HIDE DEF Below
    <3> QED
      BY <1>5, <2>2, FS_Subset
  <2> QED
    BY <1>1, <1>2, <2>3
<1> QED
  BY <1>2, <1>4, <1>6

\* Each further ride of a plan pays for itself: itineraries come in the order of their
\* number of rides, and each is strictly better in time at the target than all with fewer
\* rides (check_plan_invariants, router.c:703-712).  No timetable, request, delay or
\* leftover of an earlier search makes the router offer a journey that is no faster than
\* one with fewer transfers.
THEOREM RidesPayOff == ASSUME OnboardGuard PROVE Spec => []PlanPareto
<1>1. Init => PlanPareto /\ ParetoInv
  BY DEF Init, PlanPareto, ParetoInv, Searching
<1>2. TypeInv /\ TypeInv' /\ ChainInv /\ ParetoInv /\ [Next]_vars => ParetoInv'
  BY ParetoStep
<1>3. TypeInv /\ ChainInv /\ ParetoInv /\ PlanPareto /\ [Next]_vars => PlanPareto'
  <2> SUFFICES ASSUME TypeInv, ChainInv, ParetoInv, PlanPareto, [Next]_vars PROVE PlanPareto'
    OBVIOUS
  <2>1. CASE MakePlan
    <3>1. UNCHANGED req /\ pc = "searched" /\ RoundsInv
      BY <2>1 DEF MakePlan, request, ParetoInv
    <3>2. ASSUME NEW i \in DOMAIN plan', NEW j \in DOMAIN plan', i < j
          PROVE  /\ Len(plan'[i].legs) < Len(plan'[j].legs)
                 /\ Better(req.arrive_by, TargetTime(plan'[j].legs), TargetTime(plan'[i].legs))
      <4>1. PICK n \in PlanRounds, m \in PlanRounds :
               n = PlanRound(i) /\ m = PlanRound(j) /\ n < m
        BY <2>1, <3>2, PlanMade, PlanOrder
      <4>2. plan'[i].legs = Legs(n) /\ plan'[j].legs = Legs(m)
        BY <2>1, <4>1, PlanMade
      <4>3. /\ Len(Legs(n)) = 2 * n + 3 /\ TargetTime(Legs(n)) = states[n][TargetOf(req)].walk_time
            /\ Len(Legs(m)) = 2 * m + 3 /\ TargetTime(Legs(m)) = states[m][TargetOf(req)].walk_time
        BY <3>1, LegsTime
      <4>4. n \in Round /\ m \in Round /\ n \in Int /\ m \in Int /\ TargetOf(req) \in Stop
        BY <3>1, TargetStop, SizesAssumption DEF PlanRounds, Round
      <4>5. ReachedIn(n, TargetOf(req)) /\ ReachedIn(m, TargetOf(req))
        BY <3>1, <4>4 DEF PlanRounds, ReachedIn, Lent, Searching
      <4>6. Better(req.arrive_by, states[m][TargetOf(req)].walk_time, states[n][TargetOf(req)].walk_time)
        BY <3>1, <4>1, <4>4, <4>5 DEF RoundsInv
      <4>7. 2 * n + 3 < 2 * m + 3
        BY <4>1, <4>4
      <4> QED
        BY <4>2, <4>3, <4>6, <4>7
    <3> QED
      BY <3>1, <3>2 DEF PlanPareto, TargetTime
  <2>2. CASE UNCHANGED <<pc, plan, req, preq>>
    BY <2>2 DEF PlanPareto, TargetTime
  <2>3. CASE pc' # "planned"
    BY <2>3 DEF PlanPareto
  <2> QED
    BY <2>1, <2>2, <2>3, PlanKept
<1> QED
  BY <1>1, <1>2, <1>3, ChainInvariant, PTL DEF Spec

================================================================================
