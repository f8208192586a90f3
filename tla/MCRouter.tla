------------------------------- MODULE MCRouter --------------------------------
(***************************************************************************)
(* Small timetables and requests for checking Router.                      *)
(*                                                                         *)
(* Four stops and three routes:                                            *)
(*                                                                         *)
(*      route 0:  0 -> 1 -> 2        route 1:  1 -> 3                      *)
(*      route 2:  2 -> 3             footpath: 1 -- 2                      *)
(*                                                                         *)
(* so that stop 3 is reached from 0 with one transfer at 1, at 2, or on    *)
(* foot between them, or with none from 1.  Each family varies the         *)
(* departures of the trips; one has its routes end to end.  A minute is    *)
(* 15 rtime units.                                                         *)
(***************************************************************************)
EXTENDS RouterProperties, TLC

Min(m) == 15 * m
Eight == 7200                   \* 08:00 on the service day
Today(t) == RTIME_ONE_DAY + t   \* as a search sees a time of today

AllDays == 0..31

\* A trip that begins at b and calls at its stops after the given minutes.
Trip(b, minutes) ==
    [begin_time |-> b, mask |-> AllDays, attributes |-> {"wifi"},
     arrival |-> [p \in DOMAIN minutes |-> Min(minutes[p])],
     departure |-> [p \in DOMAIN minutes |-> Min(minutes[p])], realtime_delay |-> 0]

RouteOf(stops, trips) ==
    [stops |-> stops, trips |-> trips, boarding |-> DOMAIN stops, alighting |-> DOMAIN stops,
     min_time |-> find_time_range(trips)[1], max_time |-> find_time_range(trips)[2],
     attributes |-> {"bus"}, agency |-> 0]

NoWalks == [s \in Stop |-> << >>]

\* A symmetric footpath of dist * 16 meters.
Walks(pairs, dist) ==
    [s \in Stop |-> [u \in {u \in Stop : {s, u} \in pairs /\ s # u} |-> dist]]

Network(trips0, trips1, trips2, walks) ==
    [routes |-> (0 :> RouteOf(<<0, 1, 2>>, trips0)) @@ (1 :> RouteOf(<<1, 3>>, trips1))
                  @@ (2 :> RouteOf(<<2, 3>>, trips2)),
     transfers |-> walks]

\* Departures by the minute, trips of a route keeping their order.
Connections ==
    {Network(<<Trip(Eight, <<0, 5, 10>>), Trip(Eight + Min(20), <<0, 5, 10>>)>>,
             <<Trip(Eight + Min(b), <<0, 30>>), Trip(Eight + Min(b + 15), <<0, 30>>)>>,
             <<Trip(Eight + Min(c), <<0, d>>)>>,
             w)
     : b \in {3, 5, 9}, c \in {9, 10, 31}, d \in {4, 20},
       w \in {NoWalks, Walks({{1, 2}}, 9), Walks({{0, 1}}, 40), Walks({{2, 3}}, 100),
              Walks({{1, 2}, {0, 3}}, 250)}}

\* The trips of the evening: some leave before midnight and arrive after it, some
\* leave after it on the service day of the evening before, and each may run on
\* some days only.  The last trip of route 1 wraps 16 bits on the day after.
OnDays(trip, days) == [trip EXCEPT !.mask = days]

Overnight ==
    {Network(<<OnDays(Trip(21600 - Min(10), <<0, 15, 20>>), m), Trip(21600 + Min(20), <<0, 5, 10>>)>>,
             <<OnDays(Trip(Min(b), <<0, 30>>), m), Trip(21600 + Min(c), <<0, 30>>)>>,
             <<Trip(Min(9), <<0, d>>), Trip(21600 + Min(9), <<0, d>>)>>,
             Walks(w, 9))
     : b \in {4, 30}, c \in {27, 49}, d \in {4, 1440}, m \in {{2}, {3}, {2, 3, 4}}, w \in {{}, {{1, 2}}}}

\* One timetable of the family, the plainest.
Plain == Network(<<Trip(Eight, <<0, 5, 10>>), Trip(Eight + Min(20), <<0, 5, 10>>)>>,
                 <<Trip(Eight + Min(5), <<0, 30>>), Trip(Eight + Min(20), <<0, 30>>)>>,
                 <<Trip(Eight + Min(12), <<0, 4>>)>>, Walks({{1, 2}}, 9))

\* On route 0 an express overtakes the trip that leaves before it.
Overtaking ==
    {Network(<<Trip(Eight + Min(3), <<0, 18, 30>>), Trip(Eight + Min(5), <<0, 15, 20>>)>>,
             <<Trip(Eight + Min(b), <<0, 30>>)>>, <<Trip(Eight, <<0, 20>>)>>, NoWalks)
       : b \in {20, 25}}

\* Three routes end to end, the last of which may be walked along instead: journeys of
\* two rides and a walk, and of three rides.
EndToEnd ==
    {[routes |-> (0 :> RouteOf(<<0, 1>>, <<Trip(Eight, <<0, 5>>)>>))
                   @@ (1 :> RouteOf(<<1, 2>>, <<Trip(Eight + Min(b), <<0, 10>>)>>))
                   @@ (2 :> RouteOf(<<2, 3>>, <<Trip(Eight + Min(c), <<0, 4>>)>>)),
      transfers |-> w]
     : b \in {5, 9}, c \in {20, 40}, w \in {NoWalks, Walks({{2, 3}}, 100), Walks({{1, 2}}, 9)}}

\* A footpath out of the origin, or into the target, that is walked in 18 minutes: as long
\* as it takes to go by another route.
LongWalks ==
    {Network(<<Trip(Eight, <<0, 5, 10>>)>>, <<Trip(Eight + Min(5), <<0, 30>>)>>,
             <<OnDays(Trip(Eight + Min(c), <<0, 4>>), {3})>>, Walks({w}, 100))
     : c \in {9, 12}, w \in {{0, 2}, {2, 3}}}

Ask(from, to, time, arrive_by) ==
    [router_request_initialize EXCEPT !.from = from, !.to = to, !.time = time,
        !.arrive_by = arrive_by, !.day_mask = {3}]

Commute ==
    {Ask(0, 3, Today(Eight - Min(1)), FALSE),
     Ask(0, 3, Today(Eight + Min(60)), TRUE),
     Ask(0, 3, Today(Eight + Min(27)), TRUE),
     [Ask(0, 3, Today(Eight + Min(45)), TRUE) EXCEPT !.optimise = {"transfers"}],
     Ask(1, 3, Today(Eight), FALSE),
     [Ask(0, 3, Today(Eight), FALSE) EXCEPT !.max_transfers = 0],
     [Ask(0, 3, Today(Eight), FALSE) EXCEPT !.optimise = {"transfers"}]}

\* Arriving when the last walk just takes too long, and, with few transfers, when the trip
\* that would be reached by a walk has just gone.
ByTheMinute ==
    {Ask(0, 3, Today(Eight + Min(27)), TRUE),
     [Ask(0, 3, Today(Eight + Min(27)), TRUE) EXCEPT !.optimise = {"transfers"}],
     [Ask(0, 3, Today(Eight - Min(1)), FALSE) EXCEPT !.optimise = {"transfers"}]}

\* Leaving stop 1 after the last scheduled departure of route 1.
Late == {Ask(1, 3, Today(Eight + Min(m)), FALSE) : m \in {19, 56}}

\* Starting on a trip of route 0, m minutes past eight.
OnTrip(m, t) ==
    [Ask(0, 3, Today(Eight + Min(m)), FALSE) EXCEPT !.start_trip_route = 0, !.start_trip_trip = t]

OnBoard ==
    {OnTrip(2, 1), OnTrip(7, 1), OnTrip(10, 1), OnTrip(22, 2), [OnTrip(7, 1) EXCEPT !.to = 2],
     [OnTrip(2, 1) EXCEPT !.arrive_by = TRUE]}

Bans ==
    LET q == Ask(0, 3, Today(Eight), FALSE)
    IN  {q, [q EXCEPT !.banned_route = 1], [q EXCEPT !.banned_route = 2, !.arrive_by = TRUE, !.time = Today(9000)],
         [q EXCEPT !.banned_trip = <<1, 1>>], [q EXCEPT !.banned_stop = 2], [q EXCEPT !.banned_stop = 1],
         [q EXCEPT !.banned_stop_hard = 1], [q EXCEPT !.banned_stop_hard = 2],
         [q EXCEPT !.via = 1], [q EXCEPT !.via = 2],
         [q EXCEPT !.mode = {"rail"}], [q EXCEPT !.agency = 1], [q EXCEPT !.trip_attributes = {"toilet"}]}

Filters ==
    LET q == Ask(0, 3, Today(Eight), FALSE)
    IN  {q, [q EXCEPT !.mode = {"bus"}], [q EXCEPT !.agency = 0], [q EXCEPT !.trip_attributes = {"wifi"}],
         [q EXCEPT !.mode = {"bus"}, !.arrive_by = TRUE, !.time = Today(9000)],
         [q EXCEPT !.from = 2, !.mode = {"rail"}], [q EXCEPT !.from = 2, !.agency = 1]}

\* What the feed may report during a search: early, late, out of range, canceled.
FeedUpdates ==
    {[route |-> r, trip |-> t, canceled |-> FALSE, delay |-> d]
       : r \in {0, 1}, t \in {1}, d \in {-240, 600, 7204}}
    \cup {[route |-> 1, trip |-> 2, canceled |-> TRUE, delay |-> 0]}

\* The operator cancels the second trip of route 1.
Cancellation == {[route |-> 1, trip |-> 2, canceled |-> TRUE, delay |-> 0]}

PlainOnly == {Plain}

\* Timetables in which the best journey changes at stop 1, at stop 2, or walks.
Alternatives ==
    {[Plain EXCEPT !.routes[2] = RouteOf(<<2, 3>>, <<Trip(Eight + Min(c), <<0, 4>>)>>),
                   !.transfers = w]
       : c \in {11, 12, 60}, w \in {NoWalks, Walks({{1, 2}}, 9), Walks({{0, 1}}, 9)}}

\* The same with a railway of another operator on route 2.
Operators ==
    {[td EXCEPT !.routes[2] = [@ EXCEPT !.attributes = {"rail"}, !.agency = 1,
                                        !.trips[1].attributes = {"toilet"}]] : td \in Alternatives}

\* Leaving between two trips of route 0.
Between == {Ask(0, 3, Today(Eight + Min(m)), FALSE) : m \in {2, 4}}

Night ==
    {Ask(0, 3, Today(21600 - Min(20)), FALSE),
     Ask(0, 3, Today(Min(18)), FALSE),
     Ask(1, 3, Today(Min(1)), FALSE),
     Ask(0, 3, Today(Min(75)), TRUE),
     Ask(0, 3, Today(21600 + Min(70)), TRUE)}

\* What a worker may be asked one after another.
Mixed == Commute \cup {OnTrip(7, 1), [OnTrip(2, 1) EXCEPT !.arrive_by = TRUE],
                       [Ask(0, 3, Today(Eight), FALSE) EXCEPT !.banned_stop = 1],
                       Ask(3, 0, Today(Eight), FALSE), Ask(2, 2, Today(Eight), TRUE)}

--------------------------------------------------------------------------------
(***************************************************************************)
(* What the runs ask of which timetable.                                   *)
(***************************************************************************)
Everything == Connections \cup EndToEnd \cup LongWalks \cup Overnight \cup Alternatives \cup Operators

Asked(td) ==
    UNION {IF td \in Connections \cup EndToEnd THEN Commute ELSE {},
           IF td \in LongWalks THEN ByTheMinute ELSE {}, IF td \in Overnight THEN Night ELSE {},
           IF td \in Alternatives THEN Bans ELSE {},
           IF td \in Operators THEN Filters ELSE {}, IF td = Plain THEN OnBoard ELSE {}}

AskMixed(td) == Mixed
AskBetween(td) == Between
AskLate(td) == Late

None == {}
ThirdDay == {3}
================================================================================
