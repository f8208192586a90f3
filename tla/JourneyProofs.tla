---------------------------- MODULE JourneyProofs -----------------------------
(***************************************************************************)
(* That the plans of the router can be travelled: every ride of a plan is  *)
(* a trip that runs, boarded and left where that is allowed at the times   *)
(* of the timetable, every walk takes its time, and every connection is    *)
(* made; and that a plan keeps to what the passenger has ruled out.        *)
(***************************************************************************)
EXTENDS RouterProofs

(***************************************************************************)
(* Rides, in the direction of the search: an arrive-by search boards where *)
(* the passenger will alight, and meets the stops of a route backward.     *)
(***************************************************************************)
\* Trip `trip' runs on service day d, has the attributes asked for, and the search may
\* board it at place p, which is the stop `from'.
Boards(td, q, days, route, trip, from, p, d) ==
    /\ p \in Positions(td, route)
    /\ p \in IF q.arrive_by THEN td.routes[route].alighting ELSE td.routes[route].boarding
    /\ td.routes[route].stops[p] = from
    /\ days[d].mask \cap td.routes[route].trips[trip].mask # {}
    /\ q.trip_attributes \subseteq td.routes[route].trips[trip].attributes

\* The search may leave the route at place e, which is the stop `to'.
Leaves(td, q, route, to, e) ==
    /\ e \in Positions(td, route)
    /\ e \in IF q.arrive_by THEN td.routes[route].boarding ELSE td.routes[route].alighting
    /\ td.routes[route].stops[e] = to

\* Place e comes after place p, with no hard-banned stop between them.
OnTheWay(td, q, route, p, e) ==
    /\ Better(q.arrive_by, p, e)
    /\ \A b \in Positions(td, route) :
          Better(q.arrive_by, p, b) /\ Better(q.arrive_by, b, e) =>
              td.routes[route].stops[b] # q.banned_stop_hard

\* The times of the timetable at the two ends of a ride.
BoardTime(td, delay, q, days, route, trip, p, d) ==
    tdata_stoptime(td, delay, route, trip, p, q.arrive_by, days[d])
LeaveTime(td, delay, q, days, route, trip, e, d) ==
    tdata_stoptime(td, delay, route, trip, e, ~q.arrive_by, days[d])

\* The ride in progress was boarded behind where it is, at the time of the timetable
\* unless the realtime process has written to it.
Aboard ==
    \E p \in Positions(tdata, ride.route) :
        /\ Boards(tdata, req, servicedays, ride.route, ride.trip, ride.board_stop, p, ride.board_day)
        /\ OnTheWay(tdata, req, ride.route, p, ride.stop)
        /\ updates = 0 => ride.board_time =
              BoardTime(tdata, realtime_delay, req, servicedays, ride.route, ride.trip, p, ride.board_day)

\* What the state of stop u in round r says of a ride is a ride of the timetable.
RideFound(r, u) ==
    \E p, e \in Positions(tdata, states[r][u].back_route), d \in 1 .. 3 :
        /\ Boards(tdata, req, servicedays, states[r][u].back_route, states[r][u].back_trip,
                  states[r][u].back_stop, p, d)
        /\ Leaves(tdata, req, states[r][u].back_route, u, e)
        /\ OnTheWay(tdata, req, states[r][u].back_route, p, e)
        /\ updates = 0 =>
              /\ states[r][u].board_time = BoardTime(tdata, realtime_delay, req, servicedays,
                                              states[r][u].back_route, states[r][u].back_trip, p, d)
              /\ states[r][u].time = LeaveTime(tdata, realtime_delay, req, servicedays,
                                              states[r][u].back_route, states[r][u].back_trip, e, d)

(***************************************************************************)
(* Walks and connections.                                                  *)
(***************************************************************************)
\* One may walk from w to s, or stay.
Path(td, w, s) == s = w \/ s \in DOMAIN td.transfers[w]

\* When a walk from w, left at time t, ends at s: not reduced to 16 bits.
WalkEnd(td, q, w, s, t) ==
    IF q.arrive_by THEN t - transfer_duration(td, q, w, s) ELSE t + transfer_duration(td, q, w, s)

\* Stop b is at the end of a first walk that takes its time.
FirstWalked(b) == Path(tdata, origin, b) /\ WalkEnd(tdata, req, origin, b, req.time) \in RTime

\* A ride of round r that is boarded at stop b at the given time is boarded when the walk
\* to b has ended: a walk of the round before, or the first one.
Connects(r, b, time) ==
    IF r = 0
    THEN req.start_trip_trip = NONE =>
            /\ FirstWalked(b)
            /\ ~Better(req.arrive_by, time, WalkEnd(tdata, req, origin, b, req.time))
    ELSE ~Better(req.arrive_by, time, states[r - 1][b].walk_time)

Rode(r, u) == RideFound(r, u) /\ Connects(r, states[r][u].back_stop, states[r][u].board_time)

\* The walk of round r that ends at s takes its time.
WalkFits(r, s) ==
    /\ Path(tdata, states[r][s].walk_from, s)
    /\ states[r][s].walk_time = WalkEnd(tdata, req, states[r][s].walk_from, s,
                                        states[r][states[r][s].walk_from].time)

(***************************************************************************)
(* The invariant.                                                          *)
(***************************************************************************)
AboardInv ==
    pc = "ride" /\ ride.trip # NONE => Aboard /\ Connects(round, ride.board_stop, ride.board_time)

FlaggedRides == Searching /\ round # NONE => \A s \in updated_stops : Rode(round, s)

WalksFit ==
    \A r \in Round, s \in Stop : ReachedIn(r, s) => Rode(r, states[r][s].walk_from) /\ WalkFits(r, s)

\* The walks of the initial state, until round 0 has used them.
LentWalks ==
    Lent(1) /\ req.start_trip_trip = NONE =>
        \A s \in Stop : states[1][s].walk_time # UNREACHED =>
            FirstWalked(s) /\ states[1][s].walk_time = WalkEnd(tdata, req, origin, s, req.time)

\* The origin keeps the time that was asked for: nothing is recorded there that is better.
OriginInv ==
    req.start_trip_trip = NONE =>
        /\ origin = IF req.arrive_by THEN req.to ELSE req.from
        /\ best_time[origin] # UNREACHED /\ ~Better(req.arrive_by, req.time, best_time[origin])
        /\ states[0][origin].time = req.time
        /\ Searching /\ round = NONE => states[1][origin].time = req.time

\* A round rides before it walks.
CleanInv == pc \in {"routes", "ride"} => \A s \in Stop : states[round][s].walk_time = UNREACHED

BoundInv == round # NONE => round <= req.max_transfers

\* What the states, the flags and the locals of the search say of rides and walks is true
\* of the timetable, while a search is under way and once it is over.
JourneyInv ==
    Searching \/ pc = "searched" =>
        /\ AboardInv /\ FlaggedRides /\ WalksFit /\ LentWalks /\ OriginInv /\ CleanInv /\ BoundInv

(***************************************************************************)
(* What does not change while a request is searched for.                   *)
(***************************************************************************)
\* The timetable, the request, the day and, unless the realtime process has written to
\* them, the delays.
SearchKept ==
    /\ UNCHANGED <<tdata, req, servicedays, origin>>
    /\ updates' = 0 => updates = 0 /\ realtime_delay' = realtime_delay

\* A ride stays a ride of the timetable.
LEMMA RideKept ==
    ASSUME SearchKept, NEW r, NEW u, RideFound(r, u),
           states'[r][u].time = states[r][u].time, states'[r][u].back_stop = states[r][u].back_stop,
           states'[r][u].back_route = states[r][u].back_route,
           states'[r][u].back_trip = states[r][u].back_trip,
           states'[r][u].board_time = states[r][u].board_time
    PROVE  RideFound(r, u)'
BY DEF SearchKept, RideFound

\* And is boarded after the walk before it.
LEMMA RodeKept ==
    ASSUME SearchKept, NEW r, NEW u, Rode(r, u),
           states'[r][u].time = states[r][u].time, states'[r][u].back_stop = states[r][u].back_stop,
           states'[r][u].back_route = states[r][u].back_route,
           states'[r][u].back_trip = states[r][u].back_trip,
           states'[r][u].board_time = states[r][u].board_time,
           r # 0 => states'[r - 1][states[r][u].back_stop].walk_time
                      = states[r - 1][states[r][u].back_stop].walk_time
    PROVE  Rode(r, u)'
BY RideKept DEF SearchKept, Rode, Connects, FirstWalked

\* And a walk takes the time it took.
LEMMA WalkKept ==
    ASSUME SearchKept, NEW r, NEW s, WalkFits(r, s),
           states'[r][s].walk_from = states[r][s].walk_from,
           states'[r][s].walk_time = states[r][s].walk_time,
           states'[r][states[r][s].walk_from].time = states[r][states[r][s].walk_from].time
    PROVE  WalkFits(r, s)'
BY DEF SearchKept, WalkFits

\* Within a search nothing but its own scratch memory, and the delays, is written.
LEMMA SearchSteps ==
    ASSUME updates \in Nat,
           \/ (\E s \in todo : TransferFrom(s)) \/ EndTransfers \/ (\E r \in todo : StartRoute(r)) \/ EndRoutes
           \/ BoardAtStop \/ AlightAtStop \/ PassStop \/ MakePlan \/ Answer
           \/ (\E u \in TripUpdates : TripUpdate(u)) \/ UNCHANGED vars
    PROVE  SearchKept
<1>1. CASE \E u \in TripUpdates : TripUpdate(u)
  BY <1>1 DEF TripUpdate, SearchKept, request, search
<1> QED
  BY <1>1 DEF TransferFrom, EndTransfers, StartRoute, EndRoutes, BoardAtStop, AlightAtStop, PassStop, MakePlan,
      Answer, SearchKept, vars, request, search, realtime

(***************************************************************************)
(* What the steps write.                                                   *)
(***************************************************************************)
\* Times are not negative.
LEMMA RTimeNat == ASSUME NEW x \in RTime PROVE x \in Int /\ x >= 0
BY DEF RTime

\* A time fits in 16 bits.
LEMMA ToRTimeId == ASSUME NEW x \in RTime PROVE ToRTime(x) = x
<1> DEFINE M == 65536
<1>1. x \in Int /\ x >= 0 /\ x < M /\ M \in Nat \ {0} /\ ToRTime(x) = x % M
  BY DEF RTime, ToRTime
<1> HIDE DEF M
<1> QED
  BY <1>1

\* Sums of a time and a duration that did not wrap.
LEMMA NoWrap ==
    ASSUME NEW t \in RTime, NEW d \in RTime
    PROVE  /\ ~(ToRTime(t + d) < t) => ToRTime(t + d) = t + d
           /\ ~(ToRTime(t - d) > t) => ToRTime(t - d) = t - d
<1> DEFINE M == 65536
<1>1. t \in Int /\ d \in Int /\ t >= 0 /\ d >= 0 /\ t < M /\ d < M
  BY DEF RTime
<1>2. M \in Nat \ {0} /\ ToRTime(t + d) = (t + d) % M /\ ToRTime(t - d) = (t - d) % M
  BY DEF ToRTime
<1> HIDE DEF M
<1>3. ASSUME NEW x \in Int, x >= 0, x < M PROVE x % M = x
  BY <1>2, <1>3
<1>4. ASSUME NEW x \in Int, x >= M, x < 2 * M PROVE x % M = x - M
  <2>1. x = M * 1 + (x - M) /\ x - M >= 0 /\ x - M < M
    BY <1>2, <1>4
  <2> QED
    BY <1>2, <2>1
<1>5. ASSUME NEW x \in Int, x < 0, x >= -M PROVE x % M = x + M
  <2>1. x = M * (-1) + (x + M) /\ x + M >= 0 /\ x + M < M
    BY <1>2, <1>5
  <2> QED
    BY <1>2, <2>1
<1> QED
  BY <1>1, <1>2, <1>3, <1>4, <1>5

\* Stops, footpaths and their durations.
LEMMA Footpaths ==
    ASSUME TypeInv, pc # "idle", NEW w \in Stop, NEW s, Path(tdata, w, s)
    PROVE  /\ s \in Stop /\ Path(tdata, s, w)
           /\ transfer_duration(tdata, req, w, s) \in RTime
           /\ transfer_duration(tdata, req, s, w) = transfer_duration(tdata, req, w, s)
           /\ s = w => transfer_duration(tdata, req, w, s) = 0
           /\ s # w => transfer_duration(tdata, req, w, s) = walk_duration(tdata.transfers[w][s], req)
<1>1. IsTimetable(tdata)
  BY RouterAssumption DEF TypeInv, TypeOK
<1>2. req.walk_speed \in Nat \ {0} /\ req.walk_slack \in Byte
  BY DEF TypeInv, RequestInv
<1>3. CASE s = w
  BY <1>3, RTimeInt DEF transfer_duration, Path
<1>4. CASE s # w
  <2>1. /\ s \in DOMAIN tdata.transfers[w] /\ s \in Stop /\ w \in DOMAIN tdata.transfers[s]
        /\ tdata.transfers[s][w] = tdata.transfers[w][s] /\ tdata.transfers[w][s] \in Nat
    BY <1>1, <1>4, ByteNat DEF Path, IsTimetable
  <2>2. walk_duration(tdata.transfers[w][s], req) \in RTime
    BY <1>2, <2>1, WalkDurationType
  <2> QED
    BY <1>4, <2>1, <2>2 DEF transfer_duration, Path
<1> QED
  BY <1>3, <1>4

\* A walk that apply_transfers records did not wrap, so it ends when it should.
LEMMA WalkTimeExact ==
    ASSUME TypeInv, pc # "idle", NEW s \in Stop, NEW t \in RTime, NEW u \in WalkImproves(s, t)
    PROVE  /\ Path(tdata, s, u) /\ WalkTime(s, u, t) = WalkEnd(tdata, req, s, u, t)
           /\ WalkTime(s, u, t) \in RTime /\ WalkTime(s, u, t) # UNREACHED
<1> DEFINE d == walk_duration(tdata.transfers[s][u], req)
<1>1. u \in DOMAIN tdata.transfers[s] /\ ~Better(req.arrive_by, WalkTime(s, u, t), t)
  BY DEF WalkImproves
<1>2. IsTimetable(tdata) /\ req.arrive_by \in BOOLEAN
  BY RouterAssumption DEF TypeInv, TypeOK, RequestInv
<1>3. u # s /\ Path(tdata, s, u)
  BY <1>1, <1>2 DEF IsTimetable, Path
<1>4. transfer_duration(tdata, req, s, u) = d /\ d \in RTime
  BY <1>3, Footpaths
<1>5. WalkTime(s, u, t) = ToRTime(IF req.arrive_by THEN t - d ELSE t + d)
  BY DEF WalkTime
<1> HIDE DEF d
<1>6. WalkTime(s, u, t) = IF req.arrive_by THEN t - d ELSE t + d
  <2>1. CASE req.arrive_by
    BY <1>1, <1>4, <1>5, <2>1, NoWrap DEF Better
  <2>2. CASE ~req.arrive_by
    BY <1>1, <1>4, <1>5, <2>2, NoWrap DEF Better
  <2> QED
    BY <2>1, <2>2
<1>7. WalkTime(s, u, t) \in RTime
  BY <1>1, WalkTimes
<1>8. WalkTime(s, u, t) # UNREACHED
  BY DEF WalkImproves, RTIME_THREE_DAYS, UNREACHED
<1> QED
  BY <1>3, <1>4, <1>6, <1>7, <1>8 DEF WalkEnd

\* A step of apply_transfers writes walks from one stop that take their time.
LEMMA TransferWrites ==
    ASSUME TypeInv, NEW s \in todo, TransferFrom(s), NEW r \in Round, NEW u \in Stop
    PROVE  /\ states'[r][u].time = states[r][u].time
           /\ states'[r][u].back_stop = states[r][u].back_stop
           /\ states'[r][u].back_route = states[r][u].back_route
           /\ states'[r][u].back_trip = states[r][u].back_trip
           /\ states'[r][u].board_time = states[r][u].board_time
           /\ \/ /\ states'[r][u].walk_time = states[r][u].walk_time
                 /\ states'[r][u].walk_from = states[r][u].walk_from
              \/ /\ r = Row(round) /\ states[r][s].time # UNREACHED /\ Path(tdata, s, u)
                 /\ states'[r][u].walk_from = s /\ states'[r][u].walk_time \in RTime
                 /\ states'[r][u].walk_time = WalkEnd(tdata, req, s, u, states[r][s].time)
<1> DEFINE row == Row(round)
           t == states[row][s].time
           walked == WalkImproves(s, t)
<1>1. CASE UNCHANGED states
  BY <1>1
<1>2. CASE ~UNCHANGED states
  <2>1. /\ t # UNREACHED
        /\ states' = [states EXCEPT ![row] = [v \in Stop |->
              IF v \in walked
              THEN [@[v] EXCEPT !.walk_time = WalkTime(s, v, t), !.walk_from = s]
              ELSE IF v \in SelfTransfer(s, t)
              THEN [@[v] EXCEPT !.walk_time = t, !.walk_from = s]
              ELSE @[v]]]
    BY <1>2 DEF TransferFrom, scratch
  <2>2. pc = "transfers" /\ s \in Stop /\ row \in Round
    BY RowType DEF TransferFrom, TypeInv, TypeOK
  <2>3. t \in RTime
    BY <2>2 DEF TypeInv, TypeOK, StateRec
  <2>4. \A v \in walked : /\ Path(tdata, s, v) /\ WalkTime(s, v, t) = WalkEnd(tdata, req, s, v, t)
                           /\ WalkTime(s, v, t) \in RTime
    BY <2>2, <2>3, WalkTimeExact
  <2>5. SelfTransfer(s, t) \subseteq {s} /\ Path(tdata, s, s) /\ WalkEnd(tdata, req, s, s, t) = t
    BY <2>3, RTimeInt DEF SelfTransfer, Path, WalkEnd, transfer_duration
  <2>6. states[r][u] \in StateRec /\ DOMAIN states = Round
    BY DEF TypeInv, TypeOK
  <2>7. CASE r # row
    BY <2>1, <2>6, <2>7
  <2>8. CASE r = row
    <3> HIDE DEF walked, t, row
    <3>1. states'[r][u] = IF u \in walked
              THEN [states[r][u] EXCEPT !.walk_time = WalkTime(s, u, t), !.walk_from = s]
              ELSE IF u \in SelfTransfer(s, t)
              THEN [states[r][u] EXCEPT !.walk_time = t, !.walk_from = s]
              ELSE states[r][u]
      BY <2>1, <2>6, <2>8
    <3>2. CASE u \in walked
      BY <2>1, <2>4, <2>6, <2>8, <3>1, <3>2 DEF StateRec, row, t
    <3>3. CASE u \notin walked /\ u \in SelfTransfer(s, t)
      BY <2>1, <2>3, <2>5, <2>6, <2>8, <3>1, <3>3 DEF StateRec, row, t
    <3>4. CASE u \notin walked /\ u \notin SelfTransfer(s, t)
      BY <3>1, <3>4
    <3> QED
      BY <3>2, <3>3, <3>4
  <2> QED
    BY <2>7, <2>8
<1> QED
  BY <1>1, <1>2

\* Leaving a ride writes the ride into the state of one stop.
LEMMA AlightWrites ==
    ASSUME TypeInv, AlightAtStop, NEW r \in Round, NEW u \in Stop
    PROVE  /\ states'[r][u].walk_time = states[r][u].walk_time
           /\ states'[r][u].walk_from = states[r][u].walk_from
           /\ \/ /\ states'[r][u] = states[r][u]
                 /\ r = round /\ u \in updated_stops' => u \in updated_stops
              \/ /\ r = round /\ u = RideStop /\ WorthRecording(states'[r][u].time)
                 /\ states'[r][u].time = StopTime(RideTrip, ~req.arrive_by, ride.board_day)
                 /\ states'[r][u].back_stop = ride.board_stop
                 /\ states'[r][u].back_route = ride.route
                 /\ states'[r][u].back_trip = RideTrip
                 /\ states'[r][u].board_time = ride.board_time
<1> DEFINE time == StopTime(RideTrip, ~req.arrive_by, ride.board_day)
<1>1. CASE UNCHANGED scratch
  BY <1>1 DEF scratch
<1>2. CASE ~UNCHANGED scratch
  <2>1. /\ WorthRecording(time)
        /\ states' = [states EXCEPT ![round][RideStop] =
              [@ EXCEPT !.time = time, !.back_route = ride.route,
                        !.back_trip = RideTrip, !.back_stop = ride.board_stop,
                        !.board_time = ride.board_time]]
        /\ updated_stops' = updated_stops \cup {RideStop}
    BY <1>2 DEF AlightAtStop
  <2> HIDE DEF time
  <2>2. states[r][u] \in StateRec
    BY DEF TypeInv, TypeOK
  <2>3. states'[r][u] = IF r = round /\ u = RideStop
                        THEN [states[r][u] EXCEPT !.time = time, !.back_route = ride.route,
                                !.back_trip = RideTrip, !.back_stop = ride.board_stop,
                                !.board_time = ride.board_time]
                        ELSE states[r][u]
    BY <2>1 DEF TypeInv, TypeOK
  <2>4. CASE r = round /\ u = RideStop
    <3>1. /\ states'[r][u].time = time /\ states'[r][u].back_route = ride.route
          /\ states'[r][u].back_trip = RideTrip /\ states'[r][u].back_stop = ride.board_stop
          /\ states'[r][u].board_time = ride.board_time
          /\ states'[r][u].walk_time = states[r][u].walk_time
          /\ states'[r][u].walk_from = states[r][u].walk_from
      BY <2>2, <2>3, <2>4 DEF StateRec
    <3>2. WorthRecording(states'[r][u].time)
      BY <2>1, <3>1
    <3> QED
      BY <2>4, <3>1, <3>2 DEF time
  <2>5. CASE ~(r = round /\ u = RideStop)
    BY <2>1, <2>3, <2>5
  <2> QED
    BY <2>4, <2>5
<1> QED
  BY <1>1, <1>2

(***************************************************************************)
(* The steps of a search.                                                  *)
(***************************************************************************)
\* What StartAtStop writes into the states.
LEMMA StartStates ==
    ASSUME TypeInv, NEW stop \in Stop, StartAtStop(stop)
    PROVE  /\ \A r \in Round, s \in Stop : states'[r][s].walk_time = UNREACHED
           /\ states'[0][stop].time = req.time /\ states'[1][stop].time = req.time
<1>1. /\ 0 \in Round /\ 1 \in Round /\ DOMAIN ResetStates = Round
      /\ \A r \in Round : DOMAIN ResetStates[r] = Stop
      /\ \A r \in Round, s \in Stop : ResetStates[r][s] \in StateRec
  BY ResetStatesType, RowType
<1>2. \A r \in Round, s \in Stop : ResetStates[r][s].walk_time = UNREACHED
  <2>1. \A r \in Round, s \in Stop : states[r][s] \in StateRec
    BY DEF TypeInv, TypeOK
  <2> QED
    BY <2>1 DEF ResetStates, StateRec
<1>3. ASSUME NEW r \in Round, NEW s \in Stop
      PROVE  states'[r][s] = IF r = 1 /\ s = stop
                 THEN [ResetStates[r][s] EXCEPT !.time = req.time, !.back_stop = NONE,
                         !.back_route = NONE, !.back_trip = NONE, !.board_time = UNREACHED]
                 ELSE IF r = 0 /\ s = stop THEN [ResetStates[r][s] EXCEPT !.time = req.time]
                 ELSE ResetStates[r][s]
  BY <1>1 DEF StartAtStop, StateRec
<1>4. ASSUME NEW r \in Round, NEW s \in Stop
      PROVE  /\ states'[r][s].walk_time = UNREACHED
             /\ s = stop /\ r \in {0, 1} => states'[r][s].time = req.time
  <2>1. ResetStates[r][s] \in StateRec /\ ResetStates[r][s].walk_time = UNREACHED
    BY <1>1, <1>2
  <2>2. CASE r = 1 /\ s = stop
    BY <1>3, <2>1, <2>2 DEF StateRec
  <2>3. CASE r = 0 /\ s = stop
    BY <1>3, <2>1, <2>3 DEF StateRec
  <2>4. CASE ~(r = 1 /\ s = stop) /\ ~(r = 0 /\ s = stop)
    BY <1>3, <2>1, <2>4
  <2> QED
    BY <2>2, <2>3, <2>4
<1> QED
  BY <1>1, <1>4

\* A search begins with the time that was asked for at its origin and nothing else.
LEMMA JourneyStart ==
    ASSUME TypeInv, TypeInv', NEW now \in NowDays, StartSearch(now)
    PROVE  JourneyInv'
<1>1. /\ pc = "start" /\ req.arrive_by \in BOOLEAN /\ req.to \in Stop /\ req.from \in Stop
      /\ req.time \in RTime /\ req.time # UNREACHED /\ req.max_transfers \in Nat
      /\ DOMAIN req = DOMAIN router_request_initialize
  BY DEF StartSearch, TypeInv, RequestInv
<1>2. WalksFit'
  BY StartReaches DEF WalksFit
<1>3. CASE OnBoardStart(req) /\ RefuseOnBoard
  <2>1. pc' = "searched" /\ round' = NONE /\ req' = req /\ req.start_trip_trip # NONE
    BY <1>3 DEF RefuseOnBoard, OnBoardStart
  <2> QED
    BY <1>2, <2>1
    DEF JourneyInv, AboardInv, FlaggedRides, LentWalks, OriginInv, CleanInv, BoundInv, Searching, Lent
<1>4. ASSUME NEW x, OnBoardStart(req), StartOnBoard(x) PROVE JourneyInv'
  <2>1. /\ pc' = "routes" /\ round' = 0 /\ updated_stops' = {} /\ req' = [req EXCEPT !.from = ONBOARD]
    BY <1>4 DEF StartOnBoard
  <2>2. req'.start_trip_trip # NONE /\ req'.max_transfers \in Nat
    BY <1>1, <1>4, <2>1 DEF OnBoardStart, router_request_initialize
  <2>3. CleanInv'
    <3>1. \A s \in Stop : ~ReachedIn(0, s)'
      BY RowType, StartReaches
    <3>2. ~Lent(0)'
      BY DEF Lent
    <3> QED
      BY <2>1, <3>1, <3>2 DEF ReachedIn, CleanInv
  <2>4. BoundInv'
    BY <2>1, <2>2 DEF BoundInv
  <2> QED
    BY <1>2, <2>1, <2>2, <2>3, <2>4
    DEF JourneyInv, AboardInv, FlaggedRides, LentWalks, OriginInv
<1>5. ASSUME NEW stop, stop = (IF req.arrive_by THEN req.to ELSE req.from), StartAtStop(stop) PROVE JourneyInv'
  <2>1. /\ pc' = "transfers" /\ round' = NONE /\ origin' = stop /\ req' = req
        /\ best_time' = [s \in Stop |-> IF s = stop THEN req.time ELSE UNREACHED]
    BY <1>5 DEF StartAtStop
  <2>2. stop \in Stop
    BY <1>1, <1>5
  <2>3. /\ \A r \in Round, s \in Stop : states'[r][s].walk_time = UNREACHED
        /\ states'[0][stop].time = req.time /\ states'[1][stop].time = req.time
    BY <1>5, <2>2, StartStates
  <2>4. best_time'[stop] = req.time /\ ~Better(req.arrive_by, req.time, req.time)
    <3>1. req.time \in Int
      BY <1>1, RTimeInt
    <3> QED
      BY <2>1, <2>2, <3>1 DEF Better
  <2>5. OriginInv'
    BY <1>1, <1>5, <2>1, <2>3, <2>4 DEF OriginInv
  <2>6. LentWalks'
    BY <2>3, RowType DEF LentWalks
  <2> QED
    BY <1>2, <2>1, <2>5, <2>6 DEF JourneyInv, AboardInv, FlaggedRides, CleanInv, BoundInv
<1> QED
  BY <1>1, <1>3, <1>4, <1>5 DEF StartSearch

\* The time that was asked for stays no better than the best time of the origin.
LEMMA OriginBest ==
    ASSUME TypeInv, TypeInv', [Next]_vars, Searching, pc' # "start",
           NEW o \in Stop, best_time[o] # UNREACHED, ~Better(req.arrive_by, req.time, best_time[o])
    PROVE  best_time'[o] # UNREACHED /\ ~Better(req.arrive_by, req.time, best_time'[o])
<1>1. best_time'[o] = best_time[o] \/ Better(req.arrive_by, best_time'[o], best_time[o])
  BY SearchStepHolds DEF SearchStep, Searching, Improves
<1>2. CASE best_time'[o] = best_time[o]
  BY <1>2
<1>3. CASE Better(req.arrive_by, best_time'[o], best_time[o])
  <2>1. /\ best_time'[o] \in Int /\ best_time[o] \in Int /\ req.time \in Int
        /\ req.arrive_by \in BOOLEAN
    BY RTimeInt DEF TypeInv, TypeOK, RequestInv, Searching
  <2>2. ~Better(req.arrive_by, req.time, best_time'[o])
    BY <1>3, <2>1, BetterOrder
  <2>3. best_time'[o] # UNREACHED
    BY BestWritten
  <2> QED
    BY <2>2, <2>3
<1> QED
  BY <1>1, <1>2, <1>3

\* The walks that apply_transfers records begin where a ride of the round ended, or at the
\* origin.
LEMMA JourneyTransfer ==
    ASSUME TypeInv, TypeInv', ChainInv, JourneyInv, updates \in Nat, NEW s \in todo, TransferFrom(s)
    PROVE  JourneyInv'
<1>1. /\ pc = "transfers" /\ pc' = "transfers"
      /\ UNCHANGED <<tdata, req, servicedays, origin, round, updated_stops>>
  BY DEF TransferFrom, request, search, scratch
<1>2. SearchKept
  BY SearchSteps
<1>3. Searching /\ Searching' /\ (\A r \in Round : Lent(r)' <=> Lent(r)) /\ origin \in Stop
  BY <1>1 DEF Searching, Lent, TypeInv, RideInv
<1>4. /\ WalksInv /\ FlaggedInv /\ TodoInv
      /\ FlaggedRides /\ WalksFit /\ LentWalks /\ OriginInv /\ BoundInv
  BY <1>3 DEF ChainInv, JourneyInv
<1>5. s \in Stop /\ (round # NONE => s \in updated_stops /\ updated_stops \subseteq Stop)
  BY <1>1, <1>4 DEF TypeInv, TypeOK, TodoInv
<1>6. ASSUME NEW r \in Round, NEW w \in Stop, Rode(r, w), Ridden(r, w), r <= round
      PROVE  Rode(r, w)'
  <2>1. PICK b \in Stop : b = states[r][w].back_stop
    BY <1>6 DEF Ridden
  <2>2. r # 0 => states'[r - 1][b].walk_time = states[r - 1][b].walk_time
    <3> SUFFICES ASSUME r # 0 PROVE states'[r - 1][b].walk_time = states[r - 1][b].walk_time
      OBVIOUS
    <3>1. r \in Int /\ r > 0 /\ r - 1 \in Round
      BY RowType
    <3>2. round # NONE
      BY <1>6, <3>1 DEF NONE
    <3>3. PICK k \in Round : k = r - 1
      BY <3>1
    <3>4. k # Row(round)
      <4>1. round \in Int /\ Row(round) = round
        BY <3>2, RowType
      <4> QED
        BY <1>6, <3>1, <3>3, <4>1
    <3> QED
      BY <3>3, <3>4, TransferWrites
  <2> QED
    BY <1>2, <1>6, <2>1, <2>2, TransferWrites, RodeKept
<1>7. WalksFit'
  <2> SUFFICES ASSUME NEW r \in Round, NEW u \in Stop, ReachedIn(r, u)'
               PROVE  (Rode(r, states[r][u].walk_from) /\ WalkFits(r, u))'
    BY DEF WalksFit
  <2>1. CASE /\ states'[r][u].walk_time = states[r][u].walk_time
             /\ states'[r][u].walk_from = states[r][u].walk_from
    <3>1. ReachedIn(r, u)
      BY <1>3, <2>1 DEF ReachedIn
    <3>2. Walked(r, u) /\ Rode(r, states[r][u].walk_from) /\ WalkFits(r, u)
      BY <1>4, <3>1 DEF WalksInv, WalksFit, ReachedIn
    <3>3. PICK w \in Stop : w = states[r][u].walk_from /\ Ridden(r, w) /\ r <= round
      BY <3>2 DEF Walked
    <3>4. Rode(r, w)'
      BY <1>6, <3>2, <3>3
    <3>5. WalkFits(r, u)'
      BY <1>2, <2>1, <3>2, <3>3, TransferWrites, WalkKept
    <3>6. states'[r][u].walk_from = w
      BY <2>1, <3>3
    <3> QED
      BY <3>4, <3>5, <3>6 DEF Rode, RideFound, Connects
  <2>2. CASE /\ r = Row(round) /\ states[r][s].time # UNREACHED /\ Path(tdata, s, u)
             /\ states'[r][u].walk_from = s /\ states'[r][u].walk_time \in RTime
             /\ states'[r][u].walk_time = WalkEnd(tdata, req, s, u, states[r][s].time)
    <3>1. round # NONE
      BY <1>3, <2>2, RowType DEF ReachedIn, Lent
    <3>2. r = round /\ r <= round
      BY <2>2, <3>1, RowType
    <3>3. Rode(r, s) /\ Ridden(r, s)
      BY <1>3, <1>4, <1>5, <3>1, <3>2 DEF FlaggedRides, FlaggedInv
    <3>4. Rode(r, s)'
      BY <1>5, <1>6, <3>2, <3>3
    <3>5. states'[r][s].time = states[r][s].time
      BY <1>5, TransferWrites
    <3>6. WalkFits(r, u)'
      BY <1>1, <2>2, <3>5 DEF WalkFits
    <3> QED
      BY <2>2, <3>4, <3>6 DEF Rode, RideFound, Connects
  <2> QED
    BY <2>1, <2>2, TransferWrites
<1>8. FlaggedRides'
  <2> SUFFICES ASSUME round # NONE, NEW u \in updated_stops PROVE Rode(round, u)'
    BY <1>1 DEF FlaggedRides, Rode, RideFound, Connects
  <2>1. PICK r \in Round : r = round
    BY RowType
  <2>2. u \in Stop /\ Rode(r, u) /\ Ridden(r, u) /\ r <= round
    BY <1>3, <1>4, <1>5, <2>1, RowType DEF FlaggedRides, FlaggedInv
  <2>3. Rode(r, u)'
    BY <1>6, <2>2
  <2> QED
    BY <1>1, <2>1, <2>3 DEF Rode, RideFound, Connects
<1>9. LentWalks'
  <2> SUFFICES ASSUME Lent(1)', req.start_trip_trip = NONE, NEW u \in Stop, states'[1][u].walk_time # UNREACHED
               PROVE  FirstWalked(u) /\ states'[1][u].walk_time = WalkEnd(tdata, req, origin, u, req.time)
    BY <1>1 DEF LentWalks, FirstWalked
  <2>1. Lent(1) /\ 1 \in Round
    BY <1>3, RowType
  <2>2. CASE states'[1][u].walk_time = states[1][u].walk_time
    BY <1>4, <2>1, <2>2 DEF LentWalks
  <2>3. CASE /\ 1 = Row(round) /\ Path(tdata, s, u) /\ states'[1][u].walk_time \in RTime
             /\ states'[1][u].walk_time = WalkEnd(tdata, req, s, u, states[1][s].time)
    <3>1. round = NONE
      BY <2>1, <2>3, RowType DEF Lent
    <3>2. s = origin /\ states[1][s].time = req.time
      BY <1>3, <1>4, <3>1 DEF FlaggedInv, OriginInv
    <3> QED
      BY <2>3, <3>2 DEF FirstWalked
  <2> QED
    BY <2>1, <2>2, <2>3, TransferWrites
<1>10. OriginInv'
  <2> SUFFICES ASSUME req.start_trip_trip = NONE
               PROVE  OriginInv'
    BY <1>1 DEF OriginInv
  <2>1. PICK o \in Stop : o = origin
    BY <1>3
  <2>2. [Next]_vars
    BY DEF Next, WorkerStep
  <2>3. best_time'[o] # UNREACHED /\ ~Better(req.arrive_by, req.time, best_time'[o])
    BY <1>1, <1>3, <1>4, <2>1, <2>2, OriginBest DEF OriginInv
  <2>4. states'[0][o].time = states[0][o].time /\ states'[1][o].time = states[1][o].time
    BY RowType, TransferWrites
  <2> QED
    BY <1>1, <1>3, <1>4, <2>1, <2>3, <2>4 DEF OriginInv
<1>11. BoundInv'
  BY <1>1, <1>4 DEF BoundInv
<1> QED
  BY <1>1, <1>7, <1>8, <1>9, <1>10, <1>11 DEF JourneyInv, AboardInv, CleanInv

\* A round that begins finds no walks of its own.
LEMMA RoundClean ==
    ASSUME TypeInv, ChainInv, EndTransfers, pc' = "routes", NEW u \in Stop
    PROVE  round' \in Round /\ states'[round'][u].walk_time = UNREACHED
<1>1. /\ pc = "transfers" /\ round' = IF round = NONE THEN 0 ELSE round + 1
      /\ round' < NRounds
  BY DEF EndTransfers
<1>2. WalksInv /\ LentInv
  BY <1>1 DEF ChainInv, Searching
<1>3. round' \in Round /\ round' # round /\ ~(round' <= round)
  <2>1. NRounds \in Int /\ NRounds <= RRRR_MAX_ROUNDS
    BY <1>1, SizesAssumption DEF NRounds, TypeInv, RequestInv
  <2>2. CASE round = NONE
    BY <1>1, <2>2, RowType DEF NONE
  <2>3. CASE round \in Round
    BY <1>1, <2>1, <2>3, SizesAssumption, RowType DEF Round, NONE
  <2> QED
    BY <2>2, <2>3, RowType
<1>4. PICK k \in Round : k = round'
  BY <1>3
<1>5. states'[k][u].walk_time = UNREACHED
  <2> SUFFICES ASSUME states'[k][u].walk_time # UNREACHED PROVE FALSE
    OBVIOUS
  <2>1. states[k][u].walk_time # UNREACHED
    BY EndTransfersEffect
  <2>2. Lent(k)
    BY <1>2, <1>3, <1>4, <2>1 DEF WalksInv, Walked
  <2>3. k = 1 /\ round = 0
    BY <1>1, <1>4, <2>2 DEF Lent
  <2>4. u = origin \/ u \in DOMAIN tdata.transfers[origin]
    BY <1>2, <2>1, <2>2, <2>3 DEF LentInv
  <2> QED
    BY <2>3, <2>4, EndTransfersEffect
<1> QED
  BY <1>4, <1>5

\* The end of a round leaves its rides and walks as they are.
LEMMA JourneyEndTransfers ==
    ASSUME TypeInv, ChainInv, JourneyInv, updates \in Nat, EndTransfers
    PROVE  JourneyInv'
<1>1. /\ pc = "transfers" /\ pc' \in {"routes", "searched"} /\ updated_stops' = {}
      /\ UNCHANGED <<tdata, req, servicedays, origin, best_time>>
      /\ pc' = "routes" => round' = (IF round = NONE THEN 0 ELSE round + 1) /\ round' < NRounds
      /\ pc' = "searched" => round' = round
  BY DEF EndTransfers, search, request
<1>2. SearchKept
  BY SearchSteps
<1>3. /\ WalksInv /\ LentInv /\ WalksFit /\ LentWalks /\ OriginInv /\ BoundInv /\ Searching /\ origin \in Stop
  BY <1>1 DEF ChainInv, JourneyInv, Searching, TypeInv, RideInv
<1>4. round = 0 => \A u \in Stop : states'[1][u].walk_time = UNREACHED
  BY <1>3, RowType, EndTransfersEffect DEF LentInv, Lent
<1>5. (pc' = "routes" /\ round' # NONE) \/ pc' = "searched"
  <2>1. round \in Round => round + 1 # NONE
    BY RowType DEF NONE
  <2>2. 0 # NONE
    BY DEF NONE
  <2> QED
    BY <1>1, <2>1, <2>2, RowType
<1>6. round = NONE => pc' = "routes"
  <2>1. NRounds \in Int /\ NRounds > 0
    BY <1>1, SizesAssumption DEF NRounds, TypeInv, RequestInv
  <2> QED
    BY <2>1 DEF EndTransfers
<1>7. WalksFit'
  <2> SUFFICES ASSUME NEW r \in Round, NEW u \in Stop, ReachedIn(r, u)'
               PROVE  (Rode(r, states[r][u].walk_from) /\ WalkFits(r, u))'
    BY DEF WalksFit
  <2>1. states[r][u].walk_time # UNREACHED /\ states'[r][u].walk_time = states[r][u].walk_time
    BY EndTransfersEffect DEF ReachedIn
  <2>2. ReachedIn(r, u)
    BY <1>1, <1>4, <1>6, <2>1 DEF ReachedIn, Lent, Searching
  <2>3. Walked(r, u) /\ Rode(r, states[r][u].walk_from) /\ WalkFits(r, u)
    BY <1>3, <2>2 DEF WalksInv, WalksFit, ReachedIn
  <2>4. PICK w \in Stop : w = states[r][u].walk_from /\ Ridden(r, w) /\ r <= round
    BY <2>3 DEF Walked
  <2>5. PICK b \in Stop : b = states[r][w].back_stop
    BY <2>4 DEF Ridden
  <2>6. r # 0 => states'[r - 1][b].walk_time = states[r - 1][b].walk_time
    <3>1. ASSUME r # 0 PROVE r - 1 \in Round /\ round # 0
      BY <2>4, <3>1, RowType
    <3> QED
      BY <3>1, EndTransfersEffect
  <2>7. Rode(r, w)'
    BY <1>2, <2>3, <2>4, <2>5, <2>6, EndTransfersEffect, RodeKept
  <2>8. WalkFits(r, u)'
    BY <1>2, <2>1, <2>3, <2>4, EndTransfersEffect, WalkKept
  <2>9. states'[r][u].walk_from = w
    BY <2>4, EndTransfersEffect
  <2> QED
    BY <2>7, <2>8, <2>9 DEF Rode, RideFound, Connects
<1>8. LentWalks'
  <2> SUFFICES ASSUME Lent(1)', req.start_trip_trip = NONE, NEW u \in Stop, states'[1][u].walk_time # UNREACHED
               PROVE  FirstWalked(u) /\ states'[1][u].walk_time = WalkEnd(tdata, req, origin, u, req.time)
    BY <1>1 DEF LentWalks, FirstWalked
  <2>1. pc' = "routes" /\ round' = 0
    BY <1>1, <1>5 DEF Lent, Searching
  <2>2. round = NONE
    <3>1. ASSUME round \in Round PROVE round + 1 # 0
      <4>1. round \in Int /\ round >= 0
        BY <3>1, RowType
      <4> QED
        BY <4>1
    <3> QED
      BY <1>1, <2>1, <3>1, RowType
  <2>3. Lent(1) /\ states'[1][u].walk_time = states[1][u].walk_time
    BY <1>3, <2>2, RowType, EndTransfersEffect DEF Lent
  <2> QED
    BY <1>3, <2>3 DEF LentWalks
<1>9. OriginInv'
  <2>1. PICK o \in Stop : o = origin
    BY <1>3
  <2>2. states'[0][o].time = states[0][o].time
    BY RowType, EndTransfersEffect
  <2> QED
    BY <1>1, <1>3, <1>5, <2>1, <2>2 DEF OriginInv, Searching
<1>10. CleanInv'
  BY <1>1, RoundClean DEF CleanInv
<1>11. BoundInv'
  <2>1. CASE pc' = "searched"
    BY <1>1, <1>3, <2>1 DEF BoundInv
  <2>2. CASE pc' = "routes"
    <3>1. req.max_transfers \in Nat
      BY <1>1 DEF TypeInv, RequestInv
    <3>2. round' \in Int /\ NRounds <= req.max_transfers + 1 /\ NRounds \in Int
      BY <1>1, <2>2, <3>1, RowType, SizesAssumption DEF NRounds, NONE
    <3>3. round' <= req.max_transfers
      BY <1>1, <2>2, <3>1, <3>2
    <3> QED
      BY <1>1, <3>3 DEF BoundInv
  <2> QED
    BY <1>1, <2>1, <2>2
<1> QED
  BY <1>1, <1>7, <1>8, <1>9, <1>10, <1>11 DEF JourneyInv, AboardInv, FlaggedRides

\* Steps that write nothing of the states keep what they say.
LEMMA JourneyFrame ==
    ASSUME JourneyInv, SearchKept, UNCHANGED <<states, best_time, round>>, AboardInv',
           updated_stops' \subseteq updated_stops, Searching' <=> Searching,
           pc' = "searched" => pc = "searched",
           pc' \in {"routes", "ride"} => pc \in {"routes", "ride"}
    PROVE  JourneyInv'
<1> SUFFICES ASSUME Searching \/ pc = "searched"
             PROVE  JourneyInv'
  BY DEF JourneyInv
<1>1. FlaggedRides /\ WalksFit /\ LentWalks /\ OriginInv /\ CleanInv /\ BoundInv
  BY DEF JourneyInv
<1>2. \A r : Lent(r)' <=> Lent(r)
  BY DEF Lent
<1>3. ASSUME NEW r, NEW u, Rode(r, u) PROVE Rode(r, u)'
  BY <1>3, RodeKept
<1>4. ASSUME NEW r, NEW s, WalkFits(r, s) PROVE WalkFits(r, s)'
  BY <1>4, WalkKept
<1>5. WalksFit'
  <2> SUFFICES ASSUME NEW r \in Round, NEW s \in Stop, ReachedIn(r, s)'
               PROVE  (Rode(r, states[r][s].walk_from) /\ WalkFits(r, s))'
    BY DEF WalksFit
  <2>1. PICK w : w = states[r][s].walk_from
    OBVIOUS
  <2>2. Rode(r, w) /\ WalkFits(r, s)
    BY <1>1, <1>2, <2>1 DEF WalksFit, ReachedIn
  <2>3. states'[r][s].walk_from = w /\ Rode(r, w)' /\ WalkFits(r, s)'
    BY <1>3, <1>4, <2>1, <2>2
  <2> QED
    BY <2>3 DEF Rode, RideFound, Connects
<1>6. FlaggedRides'
  <2> SUFFICES ASSUME Searching', round' # NONE, NEW s \in updated_stops'
               PROVE  Rode(round, s)'
    BY DEF FlaggedRides
  <2>1. PICK r : r = round
    OBVIOUS
  <2>2. Rode(r, s)
    BY <1>1, <2>1 DEF FlaggedRides
  <2>3. round' = r /\ Rode(r, s)'
    BY <1>3, <2>1, <2>2
  <2> QED
    BY <2>3 DEF Rode, RideFound, Connects
<1>7. LentWalks' /\ OriginInv' /\ CleanInv' /\ BoundInv'
  BY <1>1, <1>2 DEF LentWalks, FirstWalked, OriginInv, CleanInv, BoundInv, SearchKept
<1> QED
  BY <1>5, <1>6, <1>7 DEF JourneyInv

\* One place further along the route, past a stop that is not banned.
LEMMA OnTheWayNext ==
    ASSUME NEW td, NEW q, q.arrive_by \in BOOLEAN, NEW route, Positions(td, route) \subseteq Int,
           NEW p \in Positions(td, route), NEW e \in Positions(td, route),
           NEW next, next = (IF q.arrive_by THEN e - 1 ELSE e + 1),
           OnTheWay(td, q, route, p, e), td.routes[route].stops[e] # q.banned_stop_hard
    PROVE  OnTheWay(td, q, route, p, next)
BY DEF OnTheWay, Better

\* A ride goes on past a stop.
LEMMA RidesOn ==
    ASSUME TypeInv, pc = "ride", Aboard, RideTrip # NONE,
           UNCHANGED <<tdata, req, servicedays, updates, realtime_delay>>,
           StepRide([ride EXCEPT !.trip = RideTrip]) \/ StepRide(ride)
    PROVE  Aboard' /\ ride'.board_stop = ride.board_stop /\ ride'.board_time = ride.board_time
<1>1. PICK next : next = IF req.arrive_by THEN ride.stop - 1 ELSE ride.stop + 1
  OBVIOUS
<1>2. /\ req.arrive_by \in BOOLEAN /\ ride \in RideRec /\ IsTimetable(tdata)
      /\ ride.stop \in Positions(tdata, ride.route) /\ ride.route \in Route
  BY RideFacts DEF TypeInv, TypeOK, RequestInv, RideInv
<1>3. Positions(tdata, ride.route) \subseteq Int
  BY <1>2 DEF IsTimetable, IsRoute, Positions
<1>4. RideTrip = ride.trip /\ RideStop # req.banned_stop_hard
  BY DEF RideTrip
<1>5. /\ ride'.route = ride.route /\ ride'.stop = next /\ ride'.trip = ride.trip
      /\ ride'.board_stop = ride.board_stop /\ ride'.board_time = ride.board_time
      /\ ride'.board_day = ride.board_day
  BY <1>1, <1>2, <1>4 DEF StepRide, RideRec
<1>6. PICK p \in Positions(tdata, ride.route) :
      /\ Boards(tdata, req, servicedays, ride.route, ride.trip, ride.board_stop, p, ride.board_day)
      /\ OnTheWay(tdata, req, ride.route, p, ride.stop)
      /\ updates = 0 => ride.board_time =
            BoardTime(tdata, realtime_delay, req, servicedays, ride.route, ride.trip, p, ride.board_day)
  BY DEF Aboard
<1>7. OnTheWay(tdata, req, ride.route, p, next)
  BY <1>1, <1>2, <1>3, <1>4, <1>6, OnTheWayNext DEF RideStop
<1> QED
  BY <1>5, <1>6, <1>7 DEF Aboard

\* A trip is boarded where and when the search can be there, and ridden on from there.
LEMMA JourneyBoard ==
    ASSUME TypeInv, JourneyInv, updates \in Nat, BoardAtStop \/ PassStop
    PROVE  JourneyInv'
<1>0. PICK next : next = IF req.arrive_by THEN ride.stop - 1 ELSE ride.stop + 1
  OBVIOUS
<1>1. /\ pc = "ride" /\ pc' \in {"ride", "routes"}
      /\ UNCHANGED <<tdata, req, servicedays, origin, states, best_time, updated_stops, round, updates, realtime_delay>>
  BY DEF BoardAtStop, PassStop, StepRide, scratch, search, request, realtime
<1>2. SearchKept
  BY SearchSteps
<1>3. /\ Searching /\ Searching' /\ round \in Round /\ req.arrive_by \in BOOLEAN
      /\ ride \in RideRec /\ ride.stop \in Positions(tdata, ride.route) /\ ride.route \in Route
      /\ RideStop \in Stop /\ IsTimetable(tdata)
      /\ ride.trip # NONE => ride.trip \in Trips(tdata, ride.route) /\ ride.board_day \in 1 .. 3
  BY <1>1, RideFacts DEF Searching, TypeInv, TypeOK, RequestInv, RideInv
<1>4. Positions(tdata, ride.route) \subseteq Int
  BY <1>3 DEF IsTimetable, IsRoute, Positions
<1>5. AboardInv /\ LentWalks
  BY <1>3 DEF JourneyInv
<1>6. ASSUME StepRide([ride EXCEPT !.trip = RideTrip])
      PROVE  AboardInv'
  <2> SUFFICES ASSUME ride'.trip # NONE
               PROVE  Aboard' /\ Connects(round, ride.board_stop, ride.board_time)'
    BY DEF AboardInv
  <2>1. ride'.trip = RideTrip
    BY <1>3, <1>6 DEF StepRide, RideRec
  <2>2. ride.trip # NONE /\ RideTrip # NONE
    BY <2>1 DEF RideTrip
  <2>3. Aboard /\ Connects(round, ride.board_stop, ride.board_time)
    BY <1>1, <1>5, <2>2 DEF AboardInv
  <2>4. Aboard' /\ ride'.board_stop = ride.board_stop /\ ride'.board_time = ride.board_time
    BY <1>1, <1>6, <2>2, <2>3, RidesOn
  <2> QED
    BY <1>1, <2>3, <2>4 DEF Connects, FirstWalked
<1>7. ASSUME ~Barred, AttemptBoard, NEW o \in BoardOptions,
             StepRide([ride EXCEPT !.trip = o[2], !.board_stop = RideStop,
                                   !.board_time = OptionTime(o), !.board_day = o[1]])
      PROVE  AboardInv'
  <2>1. /\ ride'.route = ride.route /\ ride'.stop = next /\ ride'.trip = o[2]
        /\ ride'.board_stop = RideStop /\ ride'.board_time = OptionTime(o)
        /\ ride'.board_day = o[1]
    BY <1>0, <1>3, <1>7 DEF StepRide, RideRec
  <2>2. o[1] \in 1 .. 3 /\ o[2] \in Trips(tdata, ride.route) /\ o[2] \in Boardable(o[1])
    BY <1>7 DEF BoardOptions
  <2>3. Boards(tdata, req, servicedays, ride.route, o[2], RideStop, ride.stop, o[1])
    <3>1. /\ servicedays[o[1]].mask \cap tdata.routes[ride.route].trips[o[2]].mask # {}
          /\ req.trip_attributes \subseteq tdata.routes[ride.route].trips[o[2]].attributes
      BY <2>2 DEF Boardable
    <3>2. ride.stop \in IF req.arrive_by THEN tdata.routes[ride.route].alighting ELSE tdata.routes[ride.route].boarding
      BY <1>7 DEF Barred
    <3> QED
      BY <1>3, <3>1, <3>2 DEF Boards, RideStop
  <2>4. OnTheWay(tdata, req, ride.route, ride.stop, next)
    BY <1>0, <1>3, <1>4 DEF OnTheWay, Better
  <2>5. OptionTime(o) = BoardTime(tdata, realtime_delay, req, servicedays, ride.route, o[2], ride.stop, o[1])
    BY DEF OptionTime, StopTime, BoardTime
  <2>6. Aboard'
    BY <1>1, <1>3, <2>1, <2>3, <2>4, <2>5 DEF Aboard
  <2>7. PrevTime # UNREACHED /\ ~Better(req.arrive_by, OptionTime(o), PrevTime)
    <3>1. PrevTime \in Int
      BY <1>3, RowType, StateTimes DEF PrevTime
    <3>2. OptionTime(o) \in Int
      BY <1>1, <1>3, <2>2, RideTimes, RTimeInt DEF OptionTime
    <3>3. OptionTime(o) = PrevTime \/ Better(req.arrive_by, PrevTime, OptionTime(o))
      BY <2>2 DEF Boardable, OptionTime
    <3>4. PrevTime # UNREACHED
      BY <1>7 DEF AttemptBoard
    <3> HIDE DEF PrevTime, OptionTime
    <3> QED
      BY <1>3, <3>1, <3>2, <3>3, <3>4 DEF Better
  <2>8. Connects(round, RideStop, OptionTime(o))
    <3>1. CASE round = 0
      <4>1. PrevTime = states[1][RideStop].walk_time /\ Lent(1)
        BY <1>3, <3>1 DEF PrevTime, LastRow, Lent
      <4> QED
        BY <1>3, <1>5, <2>7, <3>1, <4>1 DEF LentWalks, Connects
    <3>2. CASE round # 0
      BY <2>7, <3>2 DEF Connects, PrevTime, LastRow
    <3> QED
      BY <3>1, <3>2
  <2> QED
    BY <1>1, <2>1, <2>6, <2>8 DEF AboardInv, Connects, FirstWalked
<1>8. AboardInv'
  BY <1>6, <1>7 DEF BoardAtStop, PassStop
<1> QED
  BY <1>1, <1>2, <1>3, <1>8, JourneyFrame DEF Searching

\* A ride that is recorded is one of the timetable.
LEMMA RideRecorded ==
    ASSUME TypeInv, JourneyInv, updates \in Nat, AlightAtStop, NEW r \in Round, NEW u \in Stop,
           r = round, u = RideStop, WorthRecording(states'[r][u].time),
           states'[r][u].time = StopTime(RideTrip, ~req.arrive_by, ride.board_day),
           states'[r][u].back_stop = ride.board_stop, states'[r][u].back_route = ride.route,
           states'[r][u].back_trip = RideTrip, states'[r][u].board_time = ride.board_time
    PROVE  Rode(r, u)'
<1>1. /\ pc = "ride" /\ RideTrip # NONE /\ ~Barred
      /\ UNCHANGED <<tdata, req, servicedays, origin, round, updates, realtime_delay>>
  BY DEF AlightAtStop, search, request, realtime
<1>2. /\ Searching /\ req.arrive_by \in BOOLEAN /\ RideTrip = ride.trip
      /\ ride.stop \in Positions(tdata, ride.route) /\ ride.board_day \in 1 .. 3 /\ ride.board_stop \in Stop
  BY <1>1, RideFacts DEF Searching, TypeInv, TypeOK, RequestInv, RideInv, RideRec
<1>3. Aboard /\ Connects(r, ride.board_stop, ride.board_time)
  BY <1>1, <1>2 DEF JourneyInv, AboardInv
<1>4. PICK p \in Positions(tdata, ride.route) :
      /\ Boards(tdata, req, servicedays, ride.route, ride.trip, ride.board_stop, p, ride.board_day)
      /\ OnTheWay(tdata, req, ride.route, p, ride.stop)
      /\ updates = 0 => ride.board_time =
            BoardTime(tdata, realtime_delay, req, servicedays, ride.route, ride.trip, p, ride.board_day)
  BY <1>3 DEF Aboard
<1>5. Leaves(tdata, req, ride.route, u, ride.stop)
  BY <1>1, <1>2 DEF Leaves, Barred, RideStop
<1>6. states'[r][u].time = LeaveTime(tdata, realtime_delay, req, servicedays, ride.route, ride.trip,
                                     ride.stop, ride.board_day)
  BY <1>2 DEF StopTime, LeaveTime
<1>7. RideFound(r, u)'
  BY <1>1, <1>2, <1>4, <1>5, <1>6 DEF RideFound
<1>8. PICK b, t : b \in Stop /\ b = ride.board_stop /\ t = ride.board_time
  BY <1>2
<1>9. Connects(r, b, t)'
  <2>1. CASE r = 0
    BY <1>1, <1>3, <1>8, <2>1 DEF Connects, FirstWalked
  <2>2. CASE r # 0
    <3>1. PICK k \in Round : k = r - 1
      BY <2>2, RowType
    <3>2. states'[k][b].walk_time = states[k][b].walk_time
      BY <1>8, AlightWrites
    <3>3. ~Better(req.arrive_by, t, states'[k][b].walk_time)
      BY <1>3, <1>8, <2>2, <3>1, <3>2 DEF Connects
    <3> QED
      BY <1>1, <2>2, <3>1, <3>3 DEF Connects
  <2> QED
    BY <2>1, <2>2
<1>10. states'[r][u].back_stop = b /\ states'[r][u].board_time = t
  BY <1>8
<1> QED
  BY <1>7, <1>9, <1>10 DEF Rode, Connects

\* Recording a ride disturbs no walk, and nothing at the origin.
LEMMA JourneyAlight ==
    ASSUME TypeInv, TypeInv', ChainInv, JourneyInv, updates \in Nat, AlightAtStop
    PROVE  JourneyInv'
<1>1. /\ pc = "ride" /\ pc' \in {"ride", "routes"} /\ RideTrip # NONE /\ StepRide(ride)
      /\ UNCHANGED <<tdata, req, servicedays, origin, round, updates, realtime_delay>>
  BY DEF AlightAtStop, StepRide, search, request, realtime
<1>2. SearchKept
  BY SearchSteps
<1>3. /\ Searching /\ Searching' /\ (\A r \in Round : Lent(r)' <=> Lent(r)) /\ round # NONE
      /\ round \in Round /\ origin \in Stop /\ ride.trip # NONE /\ ride.board_stop \in Stop
  BY <1>1, RowType, RideFacts DEF Searching, Lent, TypeInv, RideInv, RideRec
<1>4. /\ WalksInv /\ FlaggedInv /\ AboardInv /\ FlaggedRides /\ WalksFit /\ LentWalks
      /\ OriginInv /\ CleanInv /\ BoundInv
  BY <1>3 DEF ChainInv, JourneyInv
<1>5. ASSUME NEW r \in Round, NEW u \in Stop,
             (Rode(r, u) /\ Ridden(r, u)) \/ (r = round /\ u \in updated_stops')
      PROVE  Rode(r, u)'
  <2>1. CASE states'[r][u] = states[r][u] /\ (r = round /\ u \in updated_stops' => u \in updated_stops)
    <3>1. Rode(r, u) /\ Ridden(r, u)
      BY <1>3, <1>4, <1>5, <2>1 DEF FlaggedRides, FlaggedInv
    <3>2. PICK b \in Stop : b = states[r][u].back_stop
      BY <3>1 DEF Ridden
    <3>3. r # 0 => states'[r - 1][b].walk_time = states[r - 1][b].walk_time
      BY RowType, AlightWrites
    <3> QED
      BY <1>2, <2>1, <3>1, <3>2, <3>3, RodeKept
  <2> QED
    BY <2>1, AlightWrites, RideRecorded
<1>6. WalksFit'
  <2> SUFFICES ASSUME NEW r \in Round, NEW u \in Stop, ReachedIn(r, u)'
               PROVE  (Rode(r, states[r][u].walk_from) /\ WalkFits(r, u))'
    BY DEF WalksFit
  <2>1. ReachedIn(r, u)
    BY <1>3, AlightWrites DEF ReachedIn
  <2>2. r # round
    BY <1>1, <1>4, <2>1 DEF CleanInv, ReachedIn
  <2>3. Walked(r, u) /\ Rode(r, states[r][u].walk_from) /\ WalkFits(r, u)
    BY <1>4, <2>1 DEF WalksInv, WalksFit, ReachedIn
  <2>4. PICK w \in Stop : w = states[r][u].walk_from /\ Ridden(r, w)
    BY <2>3 DEF Walked
  <2>5. states'[r][w] = states[r][w] /\ states'[r][u] = states[r][u]
    BY <2>2, AlightWrites
  <2>6. Rode(r, w)' /\ states'[r][u].walk_from = w
    BY <1>5, <2>3, <2>4, <2>5
  <2>7. WalkFits(r, u)'
    BY <1>2, <2>3, <2>4, <2>5, WalkKept
  <2> QED
    BY <2>6, <2>7 DEF Rode, RideFound, Connects
<1>7. FlaggedRides'
  <2>1. updated_stops' \subseteq Stop
    BY DEF TypeInv, TypeOK
  <2>2. PICK r \in Round : r = round /\ r = round'
    BY <1>1, <1>3
  <2>3. \A u \in updated_stops' : Rode(r, u)'
    BY <1>5, <2>1, <2>2
  <2> QED
    BY <2>2, <2>3 DEF FlaggedRides, Rode, RideFound, Connects
<1>8. LentWalks' /\ CleanInv' /\ BoundInv'
  <2>1. LentWalks'
    BY <1>1, <1>3, <1>4, RowType, AlightWrites DEF LentWalks, FirstWalked
  <2>2. CleanInv'
    BY <1>1, <1>3, <1>4, AlightWrites DEF CleanInv
  <2> QED
    BY <1>1, <1>4, <2>1, <2>2 DEF BoundInv
<1>9. OriginInv'
  <2> SUFFICES ASSUME req.start_trip_trip = NONE PROVE OriginInv'
    BY <1>1 DEF OriginInv
  <2>1. PICK o \in Stop : o = origin
    BY <1>3
  <2>2. best_time[o] # UNREACHED /\ ~Better(req.arrive_by, req.time, best_time[o])
    BY <1>4, <2>1 DEF OriginInv
  <2>3. [Next]_vars
    BY DEF Next, WorkerStep
  <2>4. best_time'[o] # UNREACHED /\ ~Better(req.arrive_by, req.time, best_time'[o])
    BY <1>1, <1>3, <2>2, <2>3, OriginBest
  <2>5. states'[0][o].time = states[0][o].time
    <3>1. PICK t : t = states'[0][o].time
      OBVIOUS
    <3>2. CASE o = RideStop /\ WorthRecording(states'[0][o].time)
      <4>1. Better(req.arrive_by, t, best_time[o]) /\ ~Better(req.arrive_by, t, req.time)
        BY <2>2, <3>1, <3>2 DEF WorthRecording, Improves
      <4>2. /\ t \in Int /\ best_time[o] \in Int /\ req.time \in Int /\ req.arrive_by \in BOOLEAN
        BY <1>1, <3>1, RowType, RTimeInt DEF TypeInv, TypeOK, RequestInv, StateRec
      <4> QED
        BY <2>2, <4>1, <4>2, BetterOrder
    <3> QED
      BY <3>2, RowType, AlightWrites
  <2> QED
    BY <1>1, <1>3, <1>4, <2>1, <2>4, <2>5 DEF OriginInv
<1>10. AboardInv'
  <2>1. Aboard /\ Connects(round, ride.board_stop, ride.board_time)
    BY <1>1, <1>3, <1>4 DEF AboardInv
  <2>2. Aboard' /\ ride'.board_stop = ride.board_stop /\ ride'.board_time = ride.board_time
    BY <1>1, <2>1, RidesOn
  <2>3. PICK r, b, t : r \in Round /\ b \in Stop /\ r = round /\ b = ride.board_stop /\ t = ride.board_time
    BY <1>3
  <2>4. r # 0 => states'[r - 1][b].walk_time = states[r - 1][b].walk_time
    BY <2>3, RowType, AlightWrites
  <2>5. Connects(r, b, t)'
    BY <1>1, <2>1, <2>3, <2>4 DEF Connects, FirstWalked
  <2>6. round' = r /\ ride'.board_stop = b /\ ride'.board_time = t
    BY <1>1, <2>2, <2>3
  <2> QED
    BY <2>2, <2>5, <2>6 DEF AboardInv, Connects
<1> QED
  BY <1>6, <1>7, <1>8, <1>9, <1>10 DEF JourneyInv

\* Every step keeps what the states say true of the timetable.
LEMMA JourneyStep ==
    ASSUME TypeInv, TypeInv', ChainInv, JourneyInv, updates \in Nat, [Next]_vars
    PROVE  JourneyInv'
<1>1. ASSUME NEW now \in NowDays, StartSearch(now) PROVE JourneyInv'
  BY <1>1, JourneyStart
<1>2. ASSUME NEW s \in todo, TransferFrom(s) PROVE JourneyInv'
  BY <1>2, JourneyTransfer
<1>3. CASE EndTransfers
  BY <1>3, JourneyEndTransfers
<1>4. ASSUME NEW r \in todo, StartRoute(r) PROVE JourneyInv'
  <2>1. /\ pc = "routes" /\ pc' \in {"routes", "ride"} /\ UNCHANGED <<states, best_time, round, updated_stops>>
        /\ pc' = "ride" => ride'.trip = NONE
    BY <1>4 DEF StartRoute, scratch, NoRide
  <2>2. SearchKept
    BY <1>4, SearchSteps
  <2>3. AboardInv'
    BY <2>1 DEF AboardInv
  <2> QED
    BY <2>1, <2>2, <2>3, JourneyFrame DEF Searching
<1>5. CASE EndRoutes
  <2>1. /\ pc = "routes" /\ pc' = "transfers" /\ UNCHANGED <<states, best_time, round>>
        /\ updated_stops' \subseteq updated_stops
    BY <1>5 DEF EndRoutes, unflag_banned_stops
  <2>2. SearchKept
    BY <1>5, SearchSteps
  <2>3. AboardInv'
    BY <2>1 DEF AboardInv
  <2> QED
    BY <2>1, <2>2, <2>3, JourneyFrame DEF Searching
<1>6. CASE BoardAtStop \/ PassStop
  BY <1>6, JourneyBoard
<1>7. CASE AlightAtStop
  BY <1>7, JourneyAlight
<1>8. CASE Reverse \/ MakePlan \/ Answer \/ \E q \in Requests(tdata) : Receive(q)
  BY <1>8 DEF Reverse, MakePlan, Answer, Receive, JourneyInv, Searching
<1>9. CASE UNCHANGED vars \/ \E u \in TripUpdates : TripUpdate(u)
  <2>1. UNCHANGED <<pc, states, best_time, round, updated_stops, ride>>
    BY <1>9 DEF TripUpdate, vars, scratch, position
  <2>2. SearchKept
    BY <1>9, SearchSteps
  <2>3. JourneyInv => AboardInv'
    <3>1. Aboard => Aboard'
      BY <2>1, <2>2 DEF Aboard, SearchKept
    <3> QED
      BY <2>1, <2>2, <3>1 DEF JourneyInv, AboardInv, Connects, FirstWalked, SearchKept, Searching
  <2> QED
    BY <2>1, <2>2, <2>3, JourneyFrame DEF Searching
<1> QED
  BY <1>1, <1>2, <1>3, <1>4, <1>5, <1>6, <1>7, <1>8, <1>9 DEF Next, WorkerStep, Waiting

(***************************************************************************)
(* What the driver's copy keeps of the request, beyond CopyInv.            *)
(***************************************************************************)
\* Reversals allow no more transfers than were asked for; and an arrive-by request of a
\* passenger on board is refused before its first round.
AskedInv ==
    pc # "idle" =>
        /\ preq.max_transfers \in Nat /\ req.max_transfers <= preq.max_transfers
        /\ req.start_trip_trip # NONE => req.start_trip_route # NONE
        /\ req.start_trip_trip # NONE /\ req.arrive_by =>
              pc \in {"start", "planned"} \/ (pc = "searched" /\ round = NONE)

\* Every step keeps to what was asked.
LEMMA AskedStep == ASSUME TypeInv, AskedInv, [Next]_vars PROVE AskedInv'
<1>1. ASSUME NEW now, StartSearch(now) PROVE AskedInv'
  <2>1. pc = "start" /\ preq' = preq
    BY <1>1 DEF StartSearch
  <2>2. DOMAIN req = DOMAIN router_request_initialize
    BY <2>1 DEF TypeInv, RequestInv
  <2>3. \/ UNCHANGED req /\ pc' = "searched" /\ round' = NONE
        \/ req' = [req EXCEPT !.from = ONBOARD] /\ ~req.arrive_by
        \/ UNCHANGED req /\ ~(OnBoardStart(req) /\ req.arrive_by)
    BY <1>1 DEF StartSearch, RefuseOnBoard, StartOnBoard, StartAtStop
  <2> QED
    BY <2>1, <2>2, <2>3 DEF AskedInv, OnBoardStart, router_request_initialize
<1>2. CASE Reverse
  <2>1. pc = "searched" /\ preq' = preq /\ reversals > 0
    BY <1>2 DEF Reverse
  <2>2. DOMAIN req = DOMAIN router_request_initialize /\ req.max_transfers \in Nat /\ req.start_trip_trip = NONE
    BY <2>1 DEF TypeInv, RequestInv
  <2>3. CASE UNCHANGED req
    BY <2>1, <2>2, <2>3 DEF AskedInv
  <2>4. CASE ReachedRounds(req) # {} /\ req' = Reversed(req, ReversedRound(req))
    <3>1. ReversedRound(req) \in Int /\ ReversedRound(req) <= req.max_transfers
      BY <2>4, ReversedRoundType, RowType DEF ReachedRounds
    <3>2. req'.max_transfers = ReversedRound(req) /\ req'.start_trip_trip = NONE
      BY <2>2, <2>4 DEF Reversed, router_request_initialize
    <3> QED
      BY <2>1, <2>2, <3>1, <3>2 DEF AskedInv
  <2> QED
    BY <1>2, <2>3, <2>4 DEF Reverse
<1>3. ASSUME NEW q \in Requests(tdata), Receive(q) PROVE AskedInv'
  <2>1. IsRequest(tdata, q) /\ InRange(tdata, q)
    BY RouterAssumption, RangeAssumption DEF TypeInv, TypeOK
  <2>2. q.max_transfers \in Nat /\ q.max_transfers <= q.max_transfers
        /\ (q.start_trip_trip # NONE => q.start_trip_route # NONE)
    BY <2>1 DEF IsRequest, InRange, Route, NONE
  <2>3. preq' = q /\ req' = q /\ pc' = "start"
    BY <1>3 DEF Receive
  <2> QED
    BY <2>2, <2>3 DEF AskedInv
<1>4. CASE /\ UNCHANGED <<req, preq>> /\ (pc' # "idle" => pc # "idle")
           /\ (UNCHANGED <<pc, round>> \/ pc \in {"transfers", "routes", "ride", "planned"} \/ pc' = "planned")
           /\ pc' \in {"idle", "planned"} \/ pc = pc' \/ pc # "planned"
  BY <1>4 DEF AskedInv
<1>5. \/ (\E now \in NowDays : StartSearch(now)) \/ Reverse \/ (\E q \in Requests(tdata) : Receive(q))
      \/ /\ UNCHANGED <<req, preq>> /\ (pc' # "idle" => pc # "idle")
         /\ (UNCHANGED <<pc, round>> \/ pc \in {"transfers", "routes", "ride", "planned"} \/ pc' = "planned")
         /\ pc' \in {"idle", "planned"} \/ pc = pc' \/ pc # "planned"
  BY DEF Next, WorkerStep, Waiting, TransferFrom, EndTransfers, StartRoute, EndRoutes, BoardAtStop,
         AlightAtStop, PassStop, StepRide, MakePlan, Answer, TripUpdate, request, position, vars
<1> QED
  BY <1>1, <1>2, <1>3, <1>4, <1>5

\* The invariant of what is said about the journeys of a plan.
LEMMA JourneyInvariant ==
    ASSUME OnboardGuard
    PROVE  Spec => [](TypeInv /\ ChainInv /\ CopyInv /\ JourneyInv /\ AskedInv /\ updates \in Nat)
<1>1. Init => CopyInv /\ JourneyInv /\ AskedInv /\ updates \in Nat
  BY DEF Init, CopyInv, JourneyInv, AskedInv, Searching
<1>2. TypeInv /\ TypeInv' /\ ChainInv /\ JourneyInv /\ updates \in Nat /\ [Next]_vars => JourneyInv'
  BY JourneyStep
<1>3. TypeInv /\ CopyInv /\ [Next]_vars => CopyInv'
  BY CopyStep
<1>4. TypeInv /\ AskedInv /\ [Next]_vars => AskedInv'
  BY AskedStep
<1>5. updates \in Nat /\ [Next]_vars => (updates \in Nat)'
  <2> SUFFICES ASSUME updates \in Nat, [Next]_vars PROVE updates' \in Nat
    OBVIOUS
  <2>1. updates' = updates \/ updates' = updates + 1
    BY DEF Next, WorkerStep, Waiting, Receive, StartSearch, TransferFrom, EndTransfers, StartRoute, EndRoutes,
           BoardAtStop, AlightAtStop, PassStop, Reverse, MakePlan, Answer, TripUpdate, realtime, vars
  <2> QED
    BY <2>1
<1> QED
  BY <1>1, <1>2, <1>3, <1>4, <1>5, ChainInvariant, PTL DEF Spec

(***************************************************************************)
(* The legs of an itinerary.                                               *)
(***************************************************************************)
\* The first ride of a passenger on board begins on board, at the time that was asked for.
OnBoardLeg(leg, l) ==
    /\ leg.s0 = ONBOARD /\ leg.t0 = req.time
    /\ leg.s1 = l.s1 /\ leg.t1 = l.t1 /\ leg.route = l.route /\ leg.trip = l.trip

\* The ride and the walk of round r, for which the chain of an itinerary passes c.
LEMMA RoundRode ==
    ASSUME TypeInv, ChainInv, JourneyInv, pc = "searched", NEW n \in PlanRounds, NEW r \in 0 .. n
    PROVE  \E c, u \in Stop :
              /\ r \in Round /\ r \in Nat /\ c = Chain(n)[r] /\ u = states[r][c].walk_from
              /\ Rode(r, u) /\ Ridden(r, u) /\ WalkFits(r, c)
              /\ SearchLeg(n, 2 * r + 3) = WalkLeg(r, c)
              /\ ~(r = 0 /\ req.start_trip_trip # NONE) => SearchLeg(n, 2 * r + 2) = RideLeg(r, c)
              /\ r = 0 /\ req.start_trip_trip # NONE => OnBoardLeg(SearchLeg(n, 2 * r + 2), RideLeg(r, c))
<1>1. /\ r \in Round /\ Chain(n)[r] \in Stop
      /\ states[r][Chain(n)[r]].walk_time # UNREACHED /\ Walked(r, Chain(n)[r])
  BY ReachedChain
<1>2. r \in Nat
  BY <1>1, RowType
<1>3. PICK c \in Stop, u \in Stop : c = Chain(n)[r] /\ u = states[r][c].walk_from
  BY <1>1 DEF Walked
<1>4. ReachedIn(r, c) /\ Ridden(r, u)
  BY <1>1, <1>3 DEF ReachedIn, Lent, Searching, Walked
<1>5. Rode(r, u) /\ WalkFits(r, c)
  BY <1>1, <1>3, <1>4 DEF JourneyInv, WalksFit
<1>6. /\ SearchLeg(n, 2 * r + 3) = WalkLeg(r, c)
      /\ ~(r = 0 /\ req.start_trip_trip # NONE) => SearchLeg(n, 2 * r + 2) = RideLeg(r, c)
  BY <1>2, <1>3, WalkLegOf, RideLegOf
<1>7. r = 0 /\ req.start_trip_trip # NONE => OnBoardLeg(SearchLeg(n, 2 * r + 2), RideLeg(r, c))
  <2> SUFFICES ASSUME r = 0, req.start_trip_trip # NONE
               PROVE  OnBoardLeg(SearchLeg(n, 2 * r + 2), RideLeg(r, c))
    OBVIOUS
  <2>1. PICK l : l = RideLeg(r, c)
    OBVIOUS
  <2>2. DOMAIN l = {"s0", "s1", "t0", "t1", "route", "trip"}
    BY <2>1 DEF RideLeg, Swapped, leg_swap, Leg
  <2>3. SearchLeg(n, 2 * r + 2) = [l EXCEPT !.s0 = ONBOARD, !.t0 = req.time]
    BY <1>2, <1>3, <2>1, RideLegOf
  <2> QED
    BY <2>1, <2>2, <2>3 DEF OnBoardLeg
<1> QED
  BY <1>1, <1>2, <1>3, <1>4, <1>5, <1>6, <1>7

\* Where and when the legs of a round begin and end.
LEMMA LegFields ==
    ASSUME NEW r, NEW c, NEW u, u = states[r][c].walk_from
    PROVE  /\ RideLeg(r, c).route = states[r][u].back_route /\ RideLeg(r, c).trip = states[r][u].back_trip
           /\ WalkLeg(r, c).route = WALK
           /\ req.arrive_by =>
                /\ RideLeg(r, c).s0 = u /\ RideLeg(r, c).s1 = states[r][u].back_stop
                /\ RideLeg(r, c).t0 = states[r][u].time /\ RideLeg(r, c).t1 = states[r][u].board_time
                /\ WalkLeg(r, c).s0 = c /\ WalkLeg(r, c).s1 = u
                /\ WalkLeg(r, c).t0 = states[r][c].walk_time /\ WalkLeg(r, c).t1 = states[r][u].time
           /\ ~req.arrive_by =>
                /\ RideLeg(r, c).s0 = states[r][u].back_stop /\ RideLeg(r, c).s1 = u
                /\ RideLeg(r, c).t0 = states[r][u].board_time /\ RideLeg(r, c).t1 = states[r][u].time
                /\ WalkLeg(r, c).s0 = u /\ WalkLeg(r, c).s1 = c
                /\ WalkLeg(r, c).t0 = states[r][u].time /\ WalkLeg(r, c).t1 = states[r][c].walk_time
BY DEF RideLeg, WalkLeg, Swapped, leg_swap, Leg

\* A ride that was found can be travelled.
LEMMA RideTravels ==
    ASSUME TypeInv, pc = "searched", updates = 0, NEW r \in Round, NEW c \in Stop, NEW u \in Stop,
           u = states[r][c].walk_from, RideFound(r, u)
    PROVE  RideExists(RideLeg(r, c))
<1> DEFINE st == states[r][u]
           leg == RideLeg(r, c)
<1>1. PICK p, e \in Positions(tdata, st.back_route), d \in 1 .. 3 :
        /\ Boards(tdata, req, servicedays, st.back_route, st.back_trip, st.back_stop, p, d)
        /\ Leaves(tdata, req, st.back_route, u, e)
        /\ OnTheWay(tdata, req, st.back_route, p, e)
        /\ st.board_time = BoardTime(tdata, realtime_delay, req, servicedays, st.back_route, st.back_trip, p, d)
        /\ st.time = LeaveTime(tdata, realtime_delay, req, servicedays, st.back_route, st.back_trip, e, d)
  BY DEF RideFound
<1>2. /\ leg.route = st.back_route /\ leg.trip = st.back_trip
      /\ req.arrive_by => leg.s0 = u /\ leg.s1 = st.back_stop /\ leg.t0 = st.time /\ leg.t1 = st.board_time
      /\ ~req.arrive_by => leg.s0 = st.back_stop /\ leg.s1 = u /\ leg.t0 = st.board_time /\ leg.t1 = st.time
  BY LegFields
<1>3. req.arrive_by \in BOOLEAN
  BY DEF TypeInv, RequestInv
<1> HIDE DEF st, leg
<1>4. CASE req.arrive_by
  <2>1. /\ e < p /\ e \in tdata.routes[leg.route].boarding /\ p \in tdata.routes[leg.route].alighting
        /\ tdata.routes[leg.route].stops[e] = leg.s0 /\ tdata.routes[leg.route].stops[p] = leg.s1
        /\ servicedays[d].mask \cap tdata.routes[leg.route].trips[leg.trip].mask # {}
        /\ req.trip_attributes \subseteq tdata.routes[leg.route].trips[leg.trip].attributes
    BY <1>1, <1>2, <1>4 DEF Boards, Leaves, OnTheWay, Better
  <2>2. /\ leg.t0 = tdata_stoptime(tdata, realtime_delay, leg.route, leg.trip, e, FALSE, servicedays[d])
        /\ leg.t1 = tdata_stoptime(tdata, realtime_delay, leg.route, leg.trip, p, TRUE, servicedays[d])
    BY <1>1, <1>2, <1>3, <1>4 DEF BoardTime, LeaveTime
  <2> QED
    BY <1>1, <1>2, <2>1, <2>2 DEF RideExists, leg
<1>5. CASE ~req.arrive_by
  <2>1. /\ p < e /\ p \in tdata.routes[leg.route].boarding /\ e \in tdata.routes[leg.route].alighting
        /\ tdata.routes[leg.route].stops[p] = leg.s0 /\ tdata.routes[leg.route].stops[e] = leg.s1
        /\ servicedays[d].mask \cap tdata.routes[leg.route].trips[leg.trip].mask # {}
        /\ req.trip_attributes \subseteq tdata.routes[leg.route].trips[leg.trip].attributes
    BY <1>1, <1>2, <1>5 DEF Boards, Leaves, OnTheWay, Better
  <2>2. /\ leg.t0 = tdata_stoptime(tdata, realtime_delay, leg.route, leg.trip, p, FALSE, servicedays[d])
        /\ leg.t1 = tdata_stoptime(tdata, realtime_delay, leg.route, leg.trip, e, TRUE, servicedays[d])
    BY <1>1, <1>2, <1>3, <1>5 DEF BoardTime, LeaveTime
  <2> QED
    BY <1>1, <1>2, <2>1, <2>2 DEF RideExists, leg
<1> QED
  BY <1>4, <1>5

\* A ride that was found calls at no hard-banned stop on its way.
LEMMA RidePasses ==
    ASSUME TypeInv, pc = "searched", NEW r \in Round, NEW c \in Stop, NEW u \in Stop,
           u = states[r][c].walk_from, RideFound(r, u),
           NEW leg, leg.route = RideLeg(r, c).route, leg.s1 = RideLeg(r, c).s1,
           leg.s0 \in {ONBOARD, RideLeg(r, c).s0}
    PROVE  NotThrough(leg, req.banned_stop_hard)
<1> DEFINE st == states[r][u]
<1>1. PICK p, e \in Positions(tdata, st.back_route), d \in 1 .. 3 :
        /\ Boards(tdata, req, servicedays, st.back_route, st.back_trip, st.back_stop, p, d)
        /\ Leaves(tdata, req, st.back_route, u, e)
        /\ OnTheWay(tdata, req, st.back_route, p, e)
  BY DEF RideFound
<1>2. /\ leg.route = st.back_route
      /\ req.arrive_by => leg.s0 \in {ONBOARD, u} /\ leg.s1 = st.back_stop
      /\ ~req.arrive_by => leg.s0 \in {ONBOARD, st.back_stop} /\ leg.s1 = u
  BY LegFields
<1> HIDE DEF st
<1>3. CASE req.arrive_by
  BY <1>1, <1>2, <1>3 DEF NotThrough, Boards, Leaves, OnTheWay, Better
<1>4. CASE ~req.arrive_by
  BY <1>1, <1>2, <1>4 DEF NotThrough, Boards, Leaves, OnTheWay, Better
<1> QED
  BY <1>3, <1>4

\* A walk that takes its time can be walked.
LEMMA WalkTravels ==
    ASSUME TypeInv, pc = "searched", NEW w \in Stop, NEW s, Path(tdata, w, s), NEW t \in RTime,
           NEW leg, req.arrive_by => leg.s0 = s /\ leg.s1 = w /\ leg.t0 = WalkEnd(tdata, req, w, s, t) /\ leg.t1 = t,
           ~req.arrive_by => leg.s0 = w /\ leg.s1 = s /\ leg.t0 = t /\ leg.t1 = WalkEnd(tdata, req, w, s, t)
    PROVE  WalkExists(leg) /\ leg.t0 <= leg.t1
<1>1. /\ s \in Stop /\ Path(tdata, s, w)
      /\ transfer_duration(tdata, req, w, s) \in RTime
      /\ transfer_duration(tdata, req, s, w) = transfer_duration(tdata, req, w, s)
  BY Footpaths
<1>2. PICK d : d = transfer_duration(tdata, req, w, s)
  OBVIOUS
<1>3. d \in Int /\ d >= 0 /\ t \in Int
  <2>1. d \in RTime /\ t \in RTime
    BY <1>1, <1>2
  <2> QED
    BY <2>1, RTimeNat
<1>4. WalkEnd(tdata, req, w, s, t) = IF req.arrive_by THEN t - d ELSE t + d
  BY <1>2 DEF WalkEnd
<1>5. leg.t1 - leg.t0 = d /\ leg.t0 <= leg.t1
  BY <1>3, <1>4
<1>6. (leg.s0 = leg.s1 \/ leg.s1 \in DOMAIN tdata.transfers[leg.s0]) /\ transfer_duration(tdata, req, leg.s0, leg.s1) = d
  <2>1. CASE req.arrive_by
    BY <1>1, <1>2, <2>1 DEF Path
  <2>2. CASE ~req.arrive_by
    BY <1>2, <2>2 DEF Path
  <2> QED
    BY <2>1, <2>2
<1> QED
  BY <1>3, <1>5, <1>6 DEF WalkExists

\* The first leg of an itinerary, and when it ends.
LEMMA FirstLegTravels ==
    ASSUME TypeInv, ChainInv, JourneyInv, AskedInv, pc = "searched", NEW n \in PlanRounds
    PROVE  /\ SearchLeg(n, 1).route = WALK /\ SearchLeg(n, 1).t0 <= SearchLeg(n, 1).t1
           /\ SearchLeg(n, 1).t0 \in Int /\ SearchLeg(n, 1).t1 \in Int
           /\ req.start_trip_trip # NONE => ~req.arrive_by /\ LegEnd(SearchLeg(n, 1)) = req.time
           /\ req.start_trip_trip = NONE =>
                /\ WalkExists(SearchLeg(n, 1))
                /\ LegEnd(SearchLeg(n, 1)) = WalkEnd(tdata, req, origin,
                                                states[0][states[0][Chain(n)[0]].walk_from].back_stop, req.time)
<1>1. n \in Nat /\ 0 \in 0 .. n /\ req.time \in RTime /\ req.time \in Int /\ origin \in Stop
  BY SizesAssumption, RTimeInt DEF PlanRounds, Round, TypeInv, RequestInv, RideInv
<1>2. CASE req.start_trip_trip # NONE
  <2>1. SearchLeg(n, 1) = Leg(ONBOARD, ONBOARD, req.time, req.time, WALK, WALK)
    BY <1>2 DEF SearchLeg
  <2>2. ~req.arrive_by
    <3>1. Walked(0, Chain(n)[0])
      BY <1>1, ReachedChain
    <3>2. round # NONE
      BY <3>1 DEF Walked, NONE
    <3> QED
      BY <1>2, <3>2 DEF AskedInv
  <2> QED
    BY <1>1, <1>2, <2>1, <2>2 DEF Leg, LegEnd
<1>3. CASE req.start_trip_trip = NONE
  <2>1. PICK c, u \in Stop : c = Chain(n)[0] /\ u = states[0][c].walk_from /\ Rode(0, u) /\ Ridden(0, u)
    BY <1>1, RoundRode
  <2>2. PICK b \in Stop : b = states[0][u].back_stop
    BY <2>1 DEF Ridden
  <2>3. FirstWalked(b)
    BY <1>3, <2>1, <2>2 DEF Rode, Connects
  <2>4. origin = (IF req.arrive_by THEN req.to ELSE req.from) /\ states[0][origin].time = req.time
    BY <1>3 DEF JourneyInv, OriginInv
  <2>5. PICK end : end = WalkEnd(tdata, req, origin, b, req.time) /\ end \in RTime
    BY <2>3 DEF FirstWalked
  <2>6. SearchLeg(n, 1) = FirstWalk(b)
    BY <1>3, <2>1, <2>2 DEF SearchLeg
  <2>7. FirstWalk(b) = Swapped(Leg(origin, b, req.time, end, WALK, WALK))
    <3>1. ToRTime(WalkEnd(tdata, req, origin, b, req.time)) = end
      BY <2>5, ToRTimeId
    <3> QED
      BY <2>4, <3>1 DEF FirstWalk, WalkEnd
  <2>8. PICK leg : leg = SearchLeg(n, 1)
    OBVIOUS
  <2>9. /\ leg.route = WALK /\ LegEnd(leg) = end
        /\ req.arrive_by => leg.s0 = b /\ leg.s1 = origin /\ leg.t0 = end /\ leg.t1 = req.time
        /\ ~req.arrive_by => leg.s0 = origin /\ leg.s1 = b /\ leg.t0 = req.time /\ leg.t1 = end
    <3>1. CASE req.arrive_by
      <4>1. leg = leg_swap(Leg(origin, b, req.time, end, WALK, WALK))
        BY <2>6, <2>7, <2>8, <3>1 DEF Swapped
      <4> QED
        BY <3>1, <4>1 DEF leg_swap, Leg, LegEnd
    <3>2. CASE ~req.arrive_by
      <4>1. leg = Leg(origin, b, req.time, end, WALK, WALK)
        BY <2>6, <2>7, <2>8, <3>2 DEF Swapped
      <4> QED
        BY <3>2, <4>1 DEF Leg, LegEnd
    <3> QED
      BY <3>1, <3>2
  <2>10. WalkExists(leg) /\ leg.t0 <= leg.t1
    BY <1>1, <2>3, <2>5, <2>9, WalkTravels DEF FirstWalked
  <2>11. leg.t0 \in Int /\ leg.t1 \in Int
    BY <1>1, <2>5, <2>9, RTimeInt
  <2> QED
    BY <1>3, <2>1, <2>2, <2>5, <2>8, <2>9, <2>10, <2>11
<1> QED
  BY <1>2, <1>3

\* When a leg begins, in the direction of the search.
LegStart(l) == IF req.arrive_by THEN l.t1 ELSE l.t0

\* The walk of round r.
LEMMA WalkLegTravels ==
    ASSUME TypeInv, ChainInv, JourneyInv, pc = "searched", NEW n \in PlanRounds, NEW r \in 0 .. n
    PROVE  LET leg == SearchLeg(n, 2 * r + 3)
           IN  /\ leg.route = WALK /\ WalkExists(leg) /\ leg.t0 <= leg.t1
               /\ leg.t0 \in Int /\ leg.t1 \in Int
<1>1. PICK c, u \in Stop : /\ r \in Round /\ u = states[r][c].walk_from /\ WalkFits(r, c)
                           /\ SearchLeg(n, 2 * r + 3) = WalkLeg(r, c)
  BY RoundRode
<1>2. states[r][u].time \in RTime /\ states[r][u].time \in Int /\ states[r][c].walk_time \in Int
  BY <1>1, RTimeInt DEF TypeInv, TypeOK, StateRec
<1>3. PICK leg : leg = WalkLeg(r, c)
  OBVIOUS
<1>4. /\ leg.route = WALK
      /\ req.arrive_by => /\ leg.s0 = c /\ leg.s1 = u
                          /\ leg.t0 = states[r][c].walk_time /\ leg.t1 = states[r][u].time
      /\ ~req.arrive_by => /\ leg.s0 = u /\ leg.s1 = c
                           /\ leg.t0 = states[r][u].time /\ leg.t1 = states[r][c].walk_time
  BY <1>1, <1>3, LegFields
<1>5. Path(tdata, u, c) /\ states[r][c].walk_time = WalkEnd(tdata, req, u, c, states[r][u].time)
  BY <1>1 DEF WalkFits
<1>6. WalkExists(leg) /\ leg.t0 <= leg.t1
  BY <1>2, <1>4, <1>5, WalkTravels
<1>7. leg.t0 \in Int /\ leg.t1 \in Int
  BY <1>2, <1>4
<1> QED
  BY <1>1, <1>3, <1>4, <1>6, <1>7

\* The ride of round r is boarded no earlier than the walk before it ends, and the walk
\* after it begins when it ends.
LEMMA ConnectionsFit ==
    ASSUME TypeInv, ChainInv, JourneyInv, AskedInv, pc = "searched", NEW n \in PlanRounds, NEW r \in 0 .. n
    PROVE  /\ ~Better(req.arrive_by, LegStart(SearchLeg(n, 2 * r + 2)), LegEnd(SearchLeg(n, 2 * r + 1)))
           /\ LegStart(SearchLeg(n, 2 * r + 3)) = LegEnd(SearchLeg(n, 2 * r + 2))
<1>1. PICK c, u \in Stop :
        /\ r \in Round /\ r \in Nat /\ c = Chain(n)[r] /\ u = states[r][c].walk_from
        /\ Rode(r, u) /\ Ridden(r, u)
        /\ SearchLeg(n, 2 * r + 3) = WalkLeg(r, c)
        /\ ~(r = 0 /\ req.start_trip_trip # NONE) => SearchLeg(n, 2 * r + 2) = RideLeg(r, c)
        /\ r = 0 /\ req.start_trip_trip # NONE => OnBoardLeg(SearchLeg(n, 2 * r + 2), RideLeg(r, c))
  BY RoundRode
<1>2. PICK b \in Stop : b = states[r][u].back_stop
  BY <1>1 DEF Ridden
<1>3. LegStart(WalkLeg(r, c)) = states[r][u].time
  BY <1>1, LegFields DEF LegStart
<1>4. CASE r = 0 /\ req.start_trip_trip # NONE
  <2>1. ~req.arrive_by /\ LegEnd(SearchLeg(n, 1)) = req.time /\ 2 * r + 1 = 1 /\ req.time \in Int
    BY <1>4, FirstLegTravels, RTimeInt DEF TypeInv, RequestInv
  <2>2. RideLeg(r, c).t1 = states[r][u].time
    BY <1>1, <2>1, LegFields
  <2>3. SearchLeg(n, 2 * r + 2).t0 = req.time /\ SearchLeg(n, 2 * r + 2).t1 = states[r][u].time
    BY <1>1, <1>4, <2>2 DEF OnBoardLeg
  <2> QED
    BY <1>1, <1>3, <2>1, <2>3 DEF LegStart, LegEnd, Better
<1>5. CASE ~(r = 0 /\ req.start_trip_trip # NONE)
  <2>1. LegStart(RideLeg(r, c)) = states[r][u].board_time /\ LegEnd(RideLeg(r, c)) = states[r][u].time
    BY <1>1, LegFields DEF LegStart, LegEnd
  <2>2. ~Better(req.arrive_by, states[r][u].board_time, LegEnd(SearchLeg(n, 2 * r + 1)))
    <3>1. CASE r = 0
      <4>1. 2 * r + 1 = 1 /\ req.start_trip_trip = NONE
        BY <1>5, <3>1
      <4>2. LegEnd(SearchLeg(n, 1)) = WalkEnd(tdata, req, origin, b, req.time)
        BY <1>1, <1>2, <3>1, <4>1, FirstLegTravels
      <4> QED
        BY <1>1, <1>2, <3>1, <4>1, <4>2 DEF Rode, Connects
    <3>2. CASE r # 0
      <4>1. r - 1 \in Nat /\ r - 1 \in 0 .. n /\ r - 1 < n /\ (r - 1) + 1 = r /\ 2 * (r - 1) + 3 = 2 * r + 1
        BY <1>1, <3>2, SizesAssumption DEF PlanRounds, Round
      <4>2. PICK k \in 0 .. n : k = r - 1
        BY <4>1
      <4>3. Chain(n)[k] = b
        BY <1>1, <1>2, <4>1, <4>2, ReachedChain
      <4>4. LegEnd(SearchLeg(n, 2 * r + 1)) = states[k][b].walk_time
        BY <4>1, <4>2, <4>3, WalkLegOf, WalkLegEnds
      <4> QED
        BY <1>1, <1>2, <3>2, <4>2, <4>4 DEF Rode, Connects
    <3> QED
      BY <3>1, <3>2
  <2> QED
    BY <1>1, <1>3, <1>5, <2>1, <2>2
<1> QED
  BY <1>4, <1>5

\* The times of a ride.
LEMMA RideLegTimes ==
    ASSUME TypeInv, ChainInv, JourneyInv, pc = "searched", NEW n \in PlanRounds, NEW r \in 0 .. n
    PROVE  SearchLeg(n, 2 * r + 2).t0 \in Int /\ SearchLeg(n, 2 * r + 2).t1 \in Int
<1>1. PICK c, u \in Stop :
        /\ r \in Round /\ u = states[r][c].walk_from
        /\ ~(r = 0 /\ req.start_trip_trip # NONE) => SearchLeg(n, 2 * r + 2) = RideLeg(r, c)
        /\ r = 0 /\ req.start_trip_trip # NONE => OnBoardLeg(SearchLeg(n, 2 * r + 2), RideLeg(r, c))
  BY RoundRode
<1>2. states[r][u].time \in Int /\ states[r][u].board_time \in Int /\ req.time \in Int
  BY <1>1, RTimeInt DEF TypeInv, TypeOK, StateRec, RequestInv
<1>3. RideLeg(r, c).t0 \in Int /\ RideLeg(r, c).t1 \in Int
  BY <1>1, <1>2, LegFields
<1> QED
  BY <1>1, <1>2, <1>3 DEF OnBoardLeg

\* The legs in the order they are travelled, and pairs of legs.
LEMMA LegsAlong ==
    ASSUME TypeInv, pc = "searched", NEW n \in PlanRounds
    PROVE  /\ n \in Nat /\ Len(Legs(n)) = 2 * n + 3 /\ DOMAIN Legs(n) = 1 .. 2 * n + 3
           /\ \A l \in 1 .. 2 * n + 3 : \E k \in 1 .. 2 * n + 3 :
                 Legs(n)[l] = SearchLeg(n, k) /\ k % 2 = l % 2
           /\ \A l \in 2 .. 2 * n + 3 : \E k \in 1 .. 2 * n + 3 :
                 /\ k < 2 * n + 3
                 /\ LegEnd(SearchLeg(n, k)) = LegEnd(Legs(n)[IF req.arrive_by THEN l ELSE l - 1])
                 /\ LegStart(SearchLeg(n, k + 1)) = LegStart(Legs(n)[IF req.arrive_by THEN l - 1 ELSE l])
<1> DEFINE N == 2 * n + 3
           at(l) == IF req.arrive_by THEN N + 1 - l ELSE l
<1>1. n \in Nat /\ N \in Nat /\ N > 1
  BY SizesAssumption DEF PlanRounds, Round
<1>2. Legs(n) = [l \in 1 .. N |-> SearchLeg(n, at(l))]
  BY DEF Legs
<1>3. Len(Legs(n)) = N /\ DOMAIN Legs(n) = 1 .. N
  <2> HIDE DEF N, at
  <2> QED
    BY <1>1, <1>2
<1>4. \A l \in 1 .. N : Legs(n)[l] = SearchLeg(n, at(l)) /\ at(l) \in 1 .. N
  <2>1. \A l \in 1 .. N : Legs(n)[l] = SearchLeg(n, at(l))
    BY <1>2
  <2>2. \A l \in 1 .. N : at(l) \in 1 .. N
    BY <1>1
  <2> QED
    BY <2>1, <2>2
<1>5. \A l \in 1 .. N : at(l) % 2 = l % 2
  <2> SUFFICES ASSUME NEW l \in 1 .. N PROVE (N + 1 - l) % 2 = l % 2
    OBVIOUS
  <2>1. N + 1 - l = 2 * (n + 2 - l) + l
    BY <1>1
  <2>2. n + 2 - l \in Int /\ l \in Int
    BY <1>1
  <2>3. \A a, b \in Int : (2 * a + b) % 2 = b % 2
    OBVIOUS
  <2> HIDE DEF N
  <2> QED
    BY <2>1, <2>2, <2>3
<1>6. ASSUME NEW l \in 2 .. N
      PROVE  \E k \in 1 .. N :
                 /\ k < N
                 /\ LegEnd(SearchLeg(n, k)) = LegEnd(Legs(n)[IF req.arrive_by THEN l ELSE l - 1])
                 /\ LegStart(SearchLeg(n, k + 1)) = LegStart(Legs(n)[IF req.arrive_by THEN l - 1 ELSE l])
  <2> HIDE DEF N
  <2>1. /\ l \in 1 .. N /\ l - 1 \in 1 .. N /\ l - 1 < N /\ (l - 1) + 1 = l
        /\ N + 1 - l \in 1 .. N /\ N + 1 - l < N /\ N + 1 - (l - 1) = (N + 1 - l) + 1
    BY <1>1
  <2>2. CASE req.arrive_by
    <3>1. /\ Legs(n)[l] = SearchLeg(n, N + 1 - l) /\ Legs(n)[l - 1] = SearchLeg(n, (N + 1 - l) + 1)
      BY <1>4, <2>1, <2>2
    <3> QED
      BY <2>1, <2>2, <3>1
  <2>3. CASE ~req.arrive_by
    <3>1. /\ Legs(n)[l - 1] = SearchLeg(n, l - 1) /\ Legs(n)[l] = SearchLeg(n, (l - 1) + 1)
      BY <1>4, <2>1, <2>3
    <3> QED
      BY <2>1, <2>3, <3>1
  <2> QED
    BY <2>2, <2>3
<1>7. ASSUME NEW l \in 1 .. N PROVE \E k \in 1 .. N : Legs(n)[l] = SearchLeg(n, k) /\ k % 2 = l % 2
  <2> HIDE DEF N, at
  <2> QED
    BY <1>4, <1>5
<1> HIDE DEF N
<1>8. /\ n \in Nat /\ Len(Legs(n)) = N /\ DOMAIN Legs(n) = 1 .. N
      /\ \A l \in 1 .. N : \E k \in 1 .. N : Legs(n)[l] = SearchLeg(n, k) /\ k % 2 = l % 2
      /\ \A l \in 2 .. N : \E k \in 1 .. N :
                 /\ k < N
                 /\ LegEnd(SearchLeg(n, k)) = LegEnd(Legs(n)[IF req.arrive_by THEN l ELSE l - 1])
                 /\ LegStart(SearchLeg(n, k + 1)) = LegStart(Legs(n)[IF req.arrive_by THEN l - 1 ELSE l])
  BY <1>1, <1>3, <1>6, <1>7
<1> QED
  BY <1>8 DEF N

\* In the order they are travelled, no leg begins before the one before it ends, and no walk
\* ends before it begins.
LEMMA LegsInTime ==
    ASSUME TypeInv, ChainInv, JourneyInv, AskedInv, pc = "searched", NEW n \in PlanRounds
    PROVE  /\ \A l \in 2 .. Len(Legs(n)) : Legs(n)[l - 1].t1 <= Legs(n)[l].t0
           /\ \A l \in DOMAIN Legs(n) : Legs(n)[l].route = WALK => Legs(n)[l].t0 <= Legs(n)[l].t1
<1> DEFINE N == 2 * n + 3
<1>1. n \in Nat /\ Len(Legs(n)) = N /\ DOMAIN Legs(n) = 1 .. N /\ req.arrive_by \in BOOLEAN
  BY LegsAlong DEF TypeInv, RequestInv
<1>2. ASSUME NEW k \in 1 .. N
      PROVE  /\ SearchLeg(n, k).t0 \in Int /\ SearchLeg(n, k).t1 \in Int
             /\ SearchLeg(n, k).route = WALK => SearchLeg(n, k).t0 <= SearchLeg(n, k).t1
             /\ k < N => SearchLeg(n, k + 1).t0 \in Int /\ SearchLeg(n, k + 1).t1 \in Int
             /\ k < N => ~Better(req.arrive_by, LegStart(SearchLeg(n, k + 1)), LegEnd(SearchLeg(n, k)))
  <2>0. ASSUME NEW m \in 1 .. N
        PROVE  /\ SearchLeg(n, m).t0 \in Int /\ SearchLeg(n, m).t1 \in Int
               /\ SearchLeg(n, m).route = WALK => SearchLeg(n, m).t0 <= SearchLeg(n, m).t1
    <3>1. CASE m = 1
      BY <3>1, FirstLegTravels
    <3>2. ASSUME NEW r \in 0 .. n, m = 2 * r + 3
          PROVE  /\ SearchLeg(n, m).t0 \in Int /\ SearchLeg(n, m).t1 \in Int
                 /\ SearchLeg(n, m).t0 <= SearchLeg(n, m).t1
      BY <3>2, WalkLegTravels
    <3>3. ASSUME NEW r \in 0 .. n, m = 2 * r + 2
          PROVE  SearchLeg(n, m).t0 \in Int /\ SearchLeg(n, m).t1 \in Int /\ SearchLeg(n, m).route # WALK
      <4>1. SearchLeg(n, m).route \in Route
        <5>1. PICK c, u \in Stop :
                 /\ r \in Round /\ u = states[r][c].walk_from /\ Ridden(r, u)
                 /\ ~(r = 0 /\ req.start_trip_trip # NONE) => SearchLeg(n, 2 * r + 2) = RideLeg(r, c)
                 /\ r = 0 /\ req.start_trip_trip # NONE => OnBoardLeg(SearchLeg(n, 2 * r + 2), RideLeg(r, c))
          BY RoundRode
        <5>2. RideLeg(r, c).route \in Route
          BY <5>1, LegFields DEF Ridden, Rideable, Flaggable
        <5> QED
          BY <3>3, <5>1, <5>2 DEF OnBoardLeg
      <4>2. WALK \notin Route
        BY DEF WALK, Route
      <4> QED
        BY <3>3, <4>1, <4>2, RideLegTimes
    <3> QED
      BY <1>1, <3>1, <3>2, <3>3, LegPairs
  <2>1. ASSUME k < N PROVE k + 1 \in 1 .. N
    BY <1>1, <2>1
  <2>2. ASSUME k < N PROVE ~Better(req.arrive_by, LegStart(SearchLeg(n, k + 1)), LegEnd(SearchLeg(n, k)))
    <3>1. ASSUME NEW r \in 0 .. n, k = 2 * r + 1
          PROVE  ~Better(req.arrive_by, LegStart(SearchLeg(n, k + 1)), LegEnd(SearchLeg(n, k)))
      <4>1. k + 1 = 2 * r + 2
        BY <3>1
      <4> QED
        BY <3>1, <4>1, ConnectionsFit
    <3>2. ASSUME NEW r \in 0 .. n, k = 2 * r + 2
          PROVE  ~Better(req.arrive_by, LegStart(SearchLeg(n, k + 1)), LegEnd(SearchLeg(n, k)))
      <4>1. k + 1 = 2 * r + 3
        BY <3>2
      <4>2. LegStart(SearchLeg(n, k + 1)) = LegEnd(SearchLeg(n, k))
        BY <3>2, <4>1, ConnectionsFit
      <4>3. LegEnd(SearchLeg(n, k)) \in Int
        BY <2>0 DEF LegEnd
      <4> QED
        BY <4>2, <4>3 DEF Better
    <3> QED
      BY <1>1, <2>2, <3>1, <3>2, LegPairs
  <2> QED
    BY <2>0, <2>1, <2>2
<1>3. ASSUME NEW l \in 2 .. N PROVE Legs(n)[l - 1].t1 <= Legs(n)[l].t0
  <2>1. PICK k \in 1 .. N :
           /\ k < N
           /\ LegEnd(SearchLeg(n, k)) = LegEnd(Legs(n)[IF req.arrive_by THEN l ELSE l - 1])
           /\ LegStart(SearchLeg(n, k + 1)) = LegStart(Legs(n)[IF req.arrive_by THEN l - 1 ELSE l])
    BY LegsAlong
  <2>2. /\ ~Better(req.arrive_by, LegStart(SearchLeg(n, k + 1)), LegEnd(SearchLeg(n, k)))
        /\ LegStart(SearchLeg(n, k + 1)) \in Int /\ LegEnd(SearchLeg(n, k)) \in Int
    BY <1>2, <2>1 DEF LegStart, LegEnd
  <2>3. PICK a, b \in Int : a = LegStart(SearchLeg(n, k + 1)) /\ b = LegEnd(SearchLeg(n, k))
    BY <2>2
  <2>4. ~Better(req.arrive_by, a, b)
    BY <2>2, <2>3
  <2>5. CASE req.arrive_by
    <3>1. Legs(n)[l].t0 = b /\ Legs(n)[l - 1].t1 = a
      BY <2>1, <2>3, <2>5 DEF LegStart, LegEnd
    <3> QED
      BY <2>4, <2>5, <3>1 DEF Better
  <2>6. CASE ~req.arrive_by
    <3>1. Legs(n)[l - 1].t1 = b /\ Legs(n)[l].t0 = a
      BY <2>1, <2>3, <2>6 DEF LegStart, LegEnd
    <3> QED
      BY <2>4, <2>6, <3>1 DEF Better
  <2> QED
    BY <2>5, <2>6
<1>4. ASSUME NEW l \in 1 .. N, Legs(n)[l].route = WALK PROVE Legs(n)[l].t0 <= Legs(n)[l].t1
  <2>1. PICK k \in 1 .. N : Legs(n)[l] = SearchLeg(n, k)
    BY LegsAlong
  <2> QED
    BY <1>2, <1>4, <2>1
<1> QED
  BY <1>1, <1>3, <1>4

\* No step but MakePlan makes a plan, and none changes what a plan was made from, but for
\* the delays.
LEMMA PlanStays ==
    ASSUME updates \in Nat, [Next]_vars, pc' = "planned"
    PROVE  MakePlan \/ (SearchKept /\ UNCHANGED <<pc, plan, req, preq>>)
<1>1. CASE UNCHANGED <<pc, plan, req, preq>>
  <2>1. pc = "planned"
    BY <1>1
  <2>2. Answer \/ (\E u \in TripUpdates : TripUpdate(u)) \/ UNCHANGED vars
    BY <2>1 DEF Next, WorkerStep, Waiting, Receive, StartSearch, TransferFrom, EndTransfers, StartRoute, EndRoutes,
                BoardAtStop, AlightAtStop, PassStop, Reverse, MakePlan
  <2> QED
    BY <1>1, <2>2, SearchSteps
<1> QED
  BY <1>1, PlanKept

\* Every connection of a plan is made: a walk begins when the ride before it ends, a ride is
\* boarded no earlier than the walk before it ends (router.c:525-543, 582-610), and walks
\* take their time without wrapping (apply_transfers, router.c:160-181), for every timetable
\* and request, and although the states of several rounds are put together (773-860) while
\* the realtime process changes the delays.
THEOREM ConnectionsKept == ASSUME OnboardGuard PROVE Spec => []ConnectionsMade
<1> DEFINE Inv == TypeInv /\ ChainInv /\ CopyInv /\ JourneyInv /\ AskedInv /\ updates \in Nat
<1>1. Init => ConnectionsMade
  BY DEF Init, ConnectionsMade
<1>2. Inv /\ ConnectionsMade /\ [Next]_vars => ConnectionsMade'
  <2> SUFFICES ASSUME Inv, ConnectionsMade, [Next]_vars PROVE ConnectionsMade'
    OBVIOUS
  <2>1. CASE MakePlan
    <3>1. ASSUME NEW i \in DOMAIN plan'
          PROVE  /\ \A l \in 2 .. Len(plan'[i].legs) : plan'[i].legs[l - 1].t1 <= plan'[i].legs[l].t0
                 /\ \A l \in DOMAIN plan'[i].legs :
                       plan'[i].legs[l].route = WALK => plan'[i].legs[l].t0 <= plan'[i].legs[l].t1
      <4>1. PICK n \in PlanRounds : plan'[i].legs = Legs(n) /\ pc = "searched"
        BY <2>1, PlanMade
      <4> QED
        BY <4>1, LegsInTime
    <3> QED
      BY <3>1 DEF ConnectionsMade
  <2>2. CASE UNCHANGED <<pc, plan, req, preq>>
    BY <2>2 DEF ConnectionsMade
  <2>3. CASE pc' # "planned"
    BY <2>3 DEF ConnectionsMade
  <2> QED
    BY <2>1, <2>2, <2>3, PlanKept
<1> QED
  BY <1>1, <1>2, JourneyInvariant, PTL DEF Spec

\* Every leg of an itinerary can be travelled, unless delays have changed, and there are no
\* more of them than were asked for.
LEMMA LegsTravel ==
    ASSUME TypeInv, ChainInv, JourneyInv, AskedInv, pc = "searched", updates = 0,
           req.start_trip_trip = NONE, NEW n \in PlanRounds
    PROVE  /\ \A l \in DOMAIN Legs(n) :
                 IF Legs(n)[l].route = WALK THEN WalkExists(Legs(n)[l]) ELSE RideExists(Legs(n)[l])
           /\ Len(Legs(n)) <= 2 * preq.max_transfers + 3
<1> DEFINE N == 2 * n + 3
           Fine(leg) == IF leg.route = WALK THEN WalkExists(leg) ELSE RideExists(leg)
<1>1. n \in Nat /\ n \in 0 .. n /\ Len(Legs(n)) = N /\ DOMAIN Legs(n) = 1 .. N
  BY LegsAlong
<1>2. ASSUME NEW k \in 1 .. N PROVE Fine(SearchLeg(n, k))
  <2>1. CASE k = 1
    BY <2>1, FirstLegTravels
  <2>2. ASSUME NEW r \in 0 .. n, k = 2 * r + 3 PROVE Fine(SearchLeg(n, k))
    BY <2>2, WalkLegTravels
  <2>3. ASSUME NEW r \in 0 .. n, k = 2 * r + 2 PROVE Fine(SearchLeg(n, k))
    <3>1. PICK c, u \in Stop : /\ r \in Round /\ u = states[r][c].walk_from /\ Rode(r, u) /\ Ridden(r, u)
                               /\ SearchLeg(n, 2 * r + 2) = RideLeg(r, c)
      BY RoundRode
    <3>2. RideLeg(r, c).route \in Route /\ WALK \notin Route
      BY <3>1, LegFields DEF Ridden, Rideable, Flaggable, WALK, Route
    <3>3. RideExists(RideLeg(r, c))
      BY <3>1, RideTravels DEF Rode
    <3> QED
      BY <2>3, <3>1, <3>2, <3>3
  <2> QED
    BY <1>1, <2>1, <2>2, <2>3, LegPairs
<1>3. \A l \in DOMAIN Legs(n) : Fine(Legs(n)[l])
  <2> HIDE DEF Fine
  <2> QED
    BY <1>1, <1>2, LegsAlong
<1>4. n <= preq.max_transfers /\ preq.max_transfers \in Int
  <2>1. Walked(n, Chain(n)[n])
    BY <1>1, ReachedChain
  <2>2. n <= round /\ round # NONE
    BY <1>1, <2>1 DEF Walked, NONE
  <2>3. round \in Int /\ round <= req.max_transfers /\ req.max_transfers \in Int
    BY <2>2, RowType DEF JourneyInv, BoundInv, TypeInv, RequestInv
  <2>4. req.max_transfers <= preq.max_transfers /\ preq.max_transfers \in Int
    BY DEF AskedInv
  <2> QED
    BY <1>1, <2>2, <2>3, <2>4
<1>5. Len(Legs(n)) <= 2 * preq.max_transfers + 3
  BY <1>1, <1>4
<1> QED
  BY <1>3, <1>5

\* Every leg of a plan can be travelled: each ride is a trip that runs on one of the three
\* days, has the attributes asked for, is boarded and left where that is allowed, in the
\* order of its stops, at the times of the timetable with its delays; each walk follows a
\* footpath and takes the time that it takes; and there are no more rides than were asked
\* for.  So it is for every timetable and request, in both directions, after any number of
\* reversals, although rides and walks are written into the states of several rounds that
\* keep what earlier searches left in them, and although the states never store the service
\* day of a ride (router.c:647-652, 773-860).
THEOREM PlansTravel == ASSUME OnboardGuard PROVE Spec => []PlanTravels
<1> DEFINE Inv == TypeInv /\ ChainInv /\ CopyInv /\ JourneyInv /\ AskedInv /\ updates \in Nat
<1>1. Init => PlanTravels
  BY DEF Init, PlanTravels
<1>2. Inv /\ PlanTravels /\ [Next]_vars => PlanTravels'
  <2> SUFFICES ASSUME Inv, PlanTravels, [Next]_vars, pc' = "planned", updates' = 0,
                      preq'.start_trip_trip = NONE
               PROVE  PlanTravels'
    BY DEF PlanTravels
  <2>1. CASE MakePlan
    <3>1. /\ UNCHANGED <<tdata, realtime_delay, updates, req, preq, servicedays>> /\ pc = "searched"
          /\ req.start_trip_trip = NONE
      BY <2>1 DEF MakePlan, request, realtime, search, CopyInv
    <3>2. ASSUME NEW i \in DOMAIN plan'
          PROVE  /\ \A l \in DOMAIN plan'[i].legs :
                       IF plan'[i].legs[l].route = WALK THEN WalkExists(plan'[i].legs[l])
                       ELSE RideExists(plan'[i].legs[l])
                 /\ Len(plan'[i].legs) <= 2 * preq.max_transfers + 3
      <4>1. PICK n \in PlanRounds : plan'[i].legs = Legs(n)
        BY <2>1, PlanMade
      <4> QED
        BY <3>1, <4>1, LegsTravel
    <3>3. ASSUME NEW leg
          PROVE  /\ WalkExists(leg) => WalkExists(leg)'
                 /\ RideExists(leg) => RideExists(leg)'
      BY <3>1 DEF WalkExists, RideExists
    <3>4. ASSUME NEW i \in DOMAIN plan', NEW l \in DOMAIN plan'[i].legs
          PROVE  (IF plan[i].legs[l].route = WALK THEN WalkExists(plan[i].legs[l])
                  ELSE RideExists(plan[i].legs[l]))'
      <4>1. PICK leg : leg = plan'[i].legs[l]
        OBVIOUS
      <4>2. IF leg.route = WALK THEN WalkExists(leg) ELSE RideExists(leg)
        BY <3>2, <4>1
      <4>3. IF leg.route = WALK THEN WalkExists(leg)' ELSE RideExists(leg)'
        BY <3>3, <4>2
      <4> QED
        BY <4>1, <4>3 DEF WalkExists, RideExists
    <3> QED
      BY <3>1, <3>2, <3>4 DEF PlanTravels
  <2>2. CASE SearchKept /\ UNCHANGED <<pc, plan, req, preq>>
    <3>1. UNCHANGED <<tdata, servicedays, realtime_delay>> /\ updates = 0 /\ pc = "planned"
      BY <2>2 DEF SearchKept
    <3>2. ASSUME NEW i \in DOMAIN plan
          PROVE  /\ \A l \in DOMAIN plan[i].legs :
                       IF plan[i].legs[l].route = WALK THEN WalkExists(plan[i].legs[l])
                       ELSE RideExists(plan[i].legs[l])
                 /\ Len(plan[i].legs) <= 2 * preq.max_transfers + 3
      BY <2>2, <3>1 DEF PlanTravels
    <3>3. ASSUME NEW leg
          PROVE  /\ WalkExists(leg) => WalkExists(leg)'
                 /\ RideExists(leg) => RideExists(leg)'
      BY <3>1, <2>2 DEF WalkExists, RideExists
    <3>4. ASSUME NEW i \in DOMAIN plan', NEW l \in DOMAIN plan'[i].legs
          PROVE  (IF plan[i].legs[l].route = WALK THEN WalkExists(plan[i].legs[l])
                  ELSE RideExists(plan[i].legs[l]))'
      <4>1. PICK leg : leg = plan'[i].legs[l]
        OBVIOUS
      <4>2. IF leg.route = WALK THEN WalkExists(leg) ELSE RideExists(leg)
        BY <2>2, <3>2, <4>1
      <4>3. IF leg.route = WALK THEN WalkExists(leg)' ELSE RideExists(leg)'
        BY <3>3, <4>2
      <4> QED
        BY <4>1, <4>3 DEF WalkExists, RideExists
    <3> QED
      BY <2>2, <3>1, <3>2, <3>4 DEF PlanTravels
  <2> QED
    BY <2>1, <2>2, PlanStays
<1> QED
  BY <1>1, <1>2, JourneyInvariant, PTL DEF Spec

\* The rides of an itinerary call at no hard-banned stop on their way.
LEMMA LegsPass ==
    ASSUME TypeInv, ChainInv, JourneyInv, pc = "searched", NEW n \in PlanRounds,
           NEW l \in DOMAIN Legs(n), l % 2 = 0
    PROVE  NotThrough(Legs(n)[l], req.banned_stop_hard)
<1>1. n \in Nat
  BY LegsAlong
<1>2. PICK k \in 1 .. 2 * n + 3 : Legs(n)[l] = SearchLeg(n, k) /\ k % 2 = 0
  BY LegsAlong
<1>3. PICK r \in 0 .. n : k = 2 * r + 2
  <2>1. k # 1
    BY <1>2
  <2>2. ASSUME NEW r \in 0 .. n, k = 2 * r + 3 PROVE FALSE
    <3>1. r \in Nat
      BY <1>1
    <3>2. k % 2 = 1
      BY <2>2, <3>1, LegNumbers
    <3> QED
      BY <1>2, <3>2
  <2> QED
    BY <1>1, <2>1, <2>2, LegPairs
<1>4. PICK c, u \in Stop :
        /\ r \in Round /\ u = states[r][c].walk_from /\ Rode(r, u)
        /\ ~(r = 0 /\ req.start_trip_trip # NONE) => SearchLeg(n, 2 * r + 2) = RideLeg(r, c)
        /\ r = 0 /\ req.start_trip_trip # NONE => OnBoardLeg(SearchLeg(n, 2 * r + 2), RideLeg(r, c))
  BY RoundRode
<1>5. PICK leg : leg = SearchLeg(n, 2 * r + 2)
  OBVIOUS
<1>6. /\ leg.route = RideLeg(r, c).route /\ leg.s1 = RideLeg(r, c).s1 /\ leg.s0 \in {ONBOARD, RideLeg(r, c).s0}
  BY <1>4, <1>5 DEF OnBoardLeg
<1>7. NotThrough(leg, req.banned_stop_hard)
  BY <1>4, <1>6, RidePasses DEF Rode
<1> QED
  BY <1>2, <1>3, <1>5, <1>7

\* No ride of a plan calls at a hard-banned stop on its way, and a passenger on board is put
\* off at such a stop: the scan along a route drops the trip there (router.c:509-513), and
\* what it records after that was boarded behind the stop.
THEOREM HardBansHold == ASSUME OnboardGuard PROVE Spec => []HardBanKept
<1> DEFINE Inv == TypeInv /\ ChainInv /\ CopyInv /\ JourneyInv /\ AskedInv /\ updates \in Nat
<1>1. Init => HardBanKept
  BY DEF Init, HardBanKept
<1>2. Inv /\ HardBanKept /\ [Next]_vars => HardBanKept'
  <2> SUFFICES ASSUME Inv, HardBanKept, [Next]_vars, pc' = "planned"
               PROVE  HardBanKept'
    BY DEF HardBanKept
  <2>1. CASE MakePlan
    <3>1. UNCHANGED <<tdata, req, preq>> /\ pc = "searched" /\ preq.banned_stop_hard = req.banned_stop_hard
      BY <2>1 DEF MakePlan, request, CopyInv
    <3>2. ASSUME NEW leg \in RideLegs' PROVE NotThrough(leg, req.banned_stop_hard)
      <4>1. PICK i \in DOMAIN plan' :
               \E l \in DOMAIN plan'[i].legs : l % 2 = 0 /\ leg = plan'[i].legs[l]
        BY DEF RideLegs
      <4>2. PICK n \in PlanRounds : plan'[i].legs = Legs(n)
        BY <2>1, PlanMade
      <4> QED
        BY <3>1, <4>1, <4>2, LegsPass
    <3> QED
      BY <3>1, <3>2 DEF HardBanKept, NotThrough
  <2>2. CASE SearchKept /\ UNCHANGED <<pc, plan, req, preq>>
    <3>1. UNCHANGED <<tdata, preq>> /\ pc = "planned" /\ RideLegs' = RideLegs
      BY <2>2 DEF SearchKept, RideLegs
    <3>2. \A leg \in RideLegs : NotThrough(leg, preq.banned_stop_hard)
      BY <3>1 DEF HardBanKept
    <3> QED
      BY <3>1, <3>2 DEF HardBanKept, NotThrough
  <2> QED
    BY <2>1, <2>2, PlanStays
<1> QED
  BY <1>1, <1>2, JourneyInvariant, PTL DEF Spec

\* The trips ridden have the attributes asked for, and where nobody is on board the routes
\* the modes and the agency.
LEMMA LegsFiltered ==
    ASSUME TypeInv, ChainInv, JourneyInv, pc = "searched", req.start_trip_trip = NONE,
           NEW n \in PlanRounds, NEW l \in DOMAIN Legs(n), l % 2 = 0
    PROVE  LET route == tdata.routes[Legs(n)[l].route] IN
           /\ req.mode \cap route.attributes # {}
           /\ req.agency \in {NONE, route.agency}
           /\ req.trip_attributes \subseteq route.trips[Legs(n)[l].trip].attributes
<1>1. n \in Nat
  BY LegsAlong
<1>2. PICK k \in 1 .. 2 * n + 3 : Legs(n)[l] = SearchLeg(n, k) /\ k % 2 = 0
  BY LegsAlong
<1>3. PICK r \in 0 .. n : k = 2 * r + 2
  <2>1. k # 1
    BY <1>2
  <2>2. ASSUME NEW r \in 0 .. n, k = 2 * r + 3 PROVE FALSE
    <3>1. r \in Nat
      BY <1>1
    <3>2. k % 2 = 1
      BY <2>2, <3>1, LegNumbers
    <3> QED
      BY <1>2, <3>2
  <2> QED
    BY <1>1, <2>1, <2>2, LegPairs
<1>4. PICK c, u \in Stop :
        /\ r \in Round /\ u = states[r][c].walk_from /\ Rode(r, u) /\ Ridden(r, u)
        /\ SearchLeg(n, 2 * r + 2) = RideLeg(r, c)
  BY RoundRode
<1>5. PICK leg : leg = Legs(n)[l]
  OBVIOUS
<1>6. leg.route = states[r][u].back_route /\ leg.trip = states[r][u].back_trip
  BY <1>2, <1>3, <1>4, <1>5, LegFields
<1>7. req.trip_attributes \subseteq tdata.routes[leg.route].trips[leg.trip].attributes
  BY <1>4, <1>6 DEF Rode, RideFound, Boards
<1>8. leg.route \in Rideable
  BY <1>4, <1>6 DEF Ridden
<1> QED
  BY <1>5, <1>7, <1>8 DEF Rideable, Flaggable

\* A passenger who sets out from a stop rides only routes of the modes and the agency, and
\* trips with the attributes, that they asked for.  Three different places of the search see
\* to it: the modes when a stop flags its routes (router.c:56-57), the agency when a flagged
\* route is taken up (router.c:475), the attributes when a trip is (router.c:581); and
\* none is looked at again when the itinerary is put together.
THEOREM FiltersHold == ASSUME OnboardGuard PROVE Spec => []FiltersKept
<1> DEFINE Inv == TypeInv /\ ChainInv /\ CopyInv /\ JourneyInv /\ AskedInv /\ updates \in Nat
<1>1. Init => FiltersKept
  BY DEF Init, FiltersKept
<1>2. Inv /\ FiltersKept /\ [Next]_vars => FiltersKept'
  <2> SUFFICES ASSUME Inv, FiltersKept, [Next]_vars, pc' = "planned", preq'.start_trip_trip = NONE
               PROVE  FiltersKept'
    BY DEF FiltersKept
  <2>1. CASE MakePlan
    <3>1. /\ UNCHANGED <<tdata, req, preq>> /\ pc = "searched" /\ req.start_trip_trip = NONE
          /\ preq.mode = req.mode /\ preq.agency = req.agency
          /\ preq.trip_attributes = req.trip_attributes
      BY <2>1 DEF MakePlan, request, CopyInv
    <3>2. ASSUME NEW leg \in RideLegs'
          PROVE  /\ req.mode \cap tdata.routes[leg.route].attributes # {}
                 /\ req.agency \in {NONE, tdata.routes[leg.route].agency}
                 /\ req.trip_attributes \subseteq tdata.routes[leg.route].trips[leg.trip].attributes
      <4>1. PICK i \in DOMAIN plan' :
               \E l \in DOMAIN plan'[i].legs : l % 2 = 0 /\ leg = plan'[i].legs[l]
        BY DEF RideLegs
      <4>2. PICK n \in PlanRounds : plan'[i].legs = Legs(n)
        BY <2>1, PlanMade
      <4> QED
        BY <3>1, <4>1, <4>2, LegsFiltered
    <3> QED
      BY <3>1, <3>2 DEF FiltersKept
  <2>2. CASE SearchKept /\ UNCHANGED <<pc, plan, req, preq>>
    <3>1. UNCHANGED <<tdata, preq>> /\ pc = "planned" /\ RideLegs' = RideLegs
      BY <2>2 DEF SearchKept, RideLegs
    <3> QED
      BY <3>1 DEF FiltersKept
  <2> QED
    BY <2>1, <2>2, PlanStays
<1> QED
  BY <1>1, <1>2, JourneyInvariant, PTL DEF Spec

(***************************************************************************)
(* What is printed of a plan, and all of its restrictions together.        *)
(***************************************************************************)
\* A plan is a sequence, and the lengths and times its itineraries are compared by are
\* numbers.
PlanTyped ==
    pc = "planned" =>
        /\ req.arrive_by \in BOOLEAN
        /\ \E m \in Nat : DOMAIN plan = 1 .. m /\ plan = [i \in 1 .. m |-> plan[i]]
        /\ \A i \in DOMAIN plan : TargetTime(plan[i].legs) \in Int /\ Len(plan[i].legs) \in Int

LEMMA PlanTypedStep ==
    ASSUME TypeInv, ChainInv, PlanTyped, updates \in Nat, [Next]_vars
    PROVE  PlanTyped'
<1> SUFFICES ASSUME pc' = "planned" PROVE PlanTyped'
  BY DEF PlanTyped
<1>1. CASE MakePlan
  <2>1. pc = "searched" /\ UNCHANGED req /\ req.arrive_by \in BOOLEAN
    BY <1>1 DEF MakePlan, request, TypeInv, RequestInv
  <2>2. PICK m \in Nat : m = Cardinality(PlanRounds)
    <3>1. IsFiniteSet(PlanRounds)
      <4>1. RRRR_MAX_ROUNDS - 1 \in Int /\ PlanRounds \in SUBSET (0 .. RRRR_MAX_ROUNDS - 1)
        BY SizesAssumption DEF PlanRounds, Round
      <4>2. IsFiniteSet(0 .. RRRR_MAX_ROUNDS - 1)
        BY <4>1, FS_Interval
      <4> QED
        BY <4>1, <4>2, FS_Subset
    <3> QED
      BY <3>1, FS_CardinalityType
  <2>3. DOMAIN plan' = 1 .. m /\ plan' = [i \in 1 .. m |-> plan'[i]]
    BY <1>1, <2>2 DEF MakePlan, router_result_to_plan
  <2>4. ASSUME NEW i \in DOMAIN plan'
        PROVE  TargetTime(plan'[i].legs) \in Int /\ Len(plan'[i].legs) \in Int
    <3>1. PICK n \in PlanRounds : plan'[i].legs = Legs(n)
      BY <1>1, PlanMade
    <3>2. n \in Round /\ n \in Int /\ TargetOf(req) \in Stop
      BY <2>1, TargetStop, SizesAssumption DEF PlanRounds, Round
    <3>3. Len(Legs(n)) = 2 * n + 3 /\ TargetTime(Legs(n)) = states[n][TargetOf(req)].walk_time
      BY <2>1, LegsTime
    <3>4. states[n][TargetOf(req)].walk_time \in Int /\ 2 * n + 3 \in Int
      BY <3>2, StateTimes
    <3> QED
      BY <3>1, <3>3, <3>4
  <2> QED
    BY <2>1, <2>3, <2>4 DEF PlanTyped, TargetTime
<1>2. CASE SearchKept /\ UNCHANGED <<pc, plan, req, preq>>
  BY <1>2 DEF PlanTyped, TargetTime
<1> QED
  BY <1>1, <1>2, PlanStays

\* The first itinerary of a plan has the fewest legs and the last the best time, so that
\* what is printed for either wish is the best of the plan.
LEMMA FirstAndLast ==
    ASSUME PlanTyped, PlanPareto PROVE RenderedBest
<1> SUFFICES ASSUME pc = "planned", NEW i \in DOMAIN plan
             PROVE  /\ ~Better(req.arrive_by, TargetTime(plan[i].legs), TargetTime(plan_render({"shortest"})[1].legs))
                    /\ Len(plan_render({"transfers"})[1].legs) <= Len(plan[i].legs)
  BY DEF RenderedBest
<1>1. PICK m \in Nat : DOMAIN plan = 1 .. m /\ plan = [k \in 1 .. m |-> plan[k]]
  BY DEF PlanTyped
<1>2. /\ i \in 1 .. m /\ 1 \in DOMAIN plan /\ m \in DOMAIN plan
  BY <1>1
<1>3. plan \in Seq({plan[k] : k \in 1 .. m}) /\ Len(plan) = m /\ plan # <<>> /\ Head(plan) = plan[1]
  BY <1>1, <1>2
<1>4. {"shortest"} # o_all /\ {"transfers"} # o_all /\ "transfers" \notin {"shortest"} /\ "shortest" \notin {"transfers"}
  BY DEF o_all
<1>5. plan_render({"shortest"}) = <<>> \o <<plan[m]>> /\ plan_render({"transfers"}) = <<plan[1]>> \o <<>>
  BY <1>3, <1>4 DEF plan_render
<1>6. plan_render({"shortest"})[1] = plan[m] /\ plan_render({"transfers"})[1] = plan[1]
  BY <1>5
<1>7. /\ TargetTime(plan[i].legs) \in Int /\ TargetTime(plan[m].legs) \in Int /\ req.arrive_by \in BOOLEAN
      /\ Len(plan[i].legs) \in Int /\ Len(plan[1].legs) \in Int
  BY <1>2 DEF PlanTyped
<1>8. ~Better(req.arrive_by, TargetTime(plan[i].legs), TargetTime(plan[m].legs))
  <2>1. CASE i = m
    BY <1>7, <2>1 DEF Better
  <2>2. CASE i # m
    <3>1. i < m
      BY <1>2, <2>2
    <3>2. Better(req.arrive_by, TargetTime(plan[m].legs), TargetTime(plan[i].legs))
      BY <1>2, <3>1 DEF PlanPareto
    <3> QED
      BY <1>7, <3>2 DEF Better
  <2> QED
    BY <2>1, <2>2
<1>9. Len(plan[1].legs) <= Len(plan[i].legs)
  <2>1. CASE i = 1
    BY <1>7, <2>1
  <2>2. CASE i # 1
    <3>1. 1 < i
      BY <1>2, <2>2
    <3>2. Len(plan[1].legs) < Len(plan[i].legs)
      BY <1>2, <3>1 DEF PlanPareto
    <3> QED
      BY <1>7, <3>2
  <2> QED
    BY <2>1, <2>2
<1> QED
  BY <1>6, <1>8, <1>9

\* Asked for few transfers or for a short journey, router_result_dump prints the itinerary
\* of the plan that is best in that respect, although it looks at none of them and takes the
\* first and the last (router.c:943-966): the order in which the rounds are read makes it so.
THEOREM RenderingBest == ASSUME OnboardGuard PROVE Spec => []RenderedBest
<1> DEFINE Inv == TypeInv /\ ChainInv /\ updates \in Nat
<1>1. Init => PlanTyped
  BY DEF Init, PlanTyped
<1>2. Inv /\ PlanTyped /\ [Next]_vars => PlanTyped'
  BY PlanTypedStep
<1>3. PlanTyped /\ PlanPareto => RenderedBest
  BY FirstAndLast
<1> QED
  BY <1>1, <1>2, <1>3, JourneyInvariant, RidesPayOff, PTL DEF Spec

\* Every plan of a passenger who sets out from a stop keeps to these restrictions, for every
\* timetable and request: no banned route, no hard-banned stop on the way of a ride, only the
\* modes, the agency and the trip attributes asked for, and the wish for few transfers or a
\* short journey.  It says nothing of a banned trip (router.c:576), of a stop banned otherwise
\* or of a stop to change at.  Of a passenger on board already BansHold, HardBansHold and
\* RenderingBest say what is known; that the first ride is on their trip is only checked.
THEOREM RestrictionsHold ==
    ASSUME OnboardGuard PROVE Spec => [](preq.start_trip_trip = NONE => RestrictionsKept)
<1>1. (/\ BannedRouteNotRidden /\ HardBanKept /\ FiltersKept /\ RenderedBest
       /\ preq.start_trip_trip = NONE) => RestrictionsKept
  BY DEF RestrictionsKept, StaysOnBoard
<1> QED
  BY <1>1, BansHold, HardBansHold, FiltersHold, RenderingBest, PTL

================================================================================
