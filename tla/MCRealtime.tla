------------------------------ MODULE MCRealtime -------------------------------
(***************************************************************************)
(* Small feeds: three stops, three trips on patterns that differ in their  *)
(* stops, permissions, times and days, and messages of up to four pieces.  *)
(***************************************************************************)
EXTENDS RealtimeProperties

\* Calls at stops after so many seconds, with dwell times.
Call(stop, at, dwell, pickup, drop_off) ==
    [stop |-> stop, pickup |-> pickup, drop_off |-> drop_off, arrival |-> at, departure |-> at + dwell,
     timepoint |-> 0]

Local(b) == <<Call(10, b, 3, 0, 0), Call(20, b + 301, 30, 0, 0), Call(30, b + 602, 0, 0, 0)>>
Slow(b) == <<Call(10, b, 3, 0, 0), Call(20, b + 401, 30, 0, 0), Call(30, b + 902, 0, 0, 0)>>
Express(b) == <<Call(10, b, 0, 0, 1), Call(30, b + 402, 0, 1, 0)>>
Back(b) == <<Call(30, b, 0, 0, 0), Call(20, b + 299, 2, 0, 0), Call(10, b + 602, 0, 0, 0)>>

TripOf(route_id, service_id, calls) ==
    [route_id |-> route_id, service_id |-> service_id, stop_times |-> calls, headsign |-> Last(calls).stop,
     accessible |-> IF service_id = 1 THEN {"accessible"} ELSE {}]

\* Service 1 runs on weekdays with two exceptions, service 2 on one date only, service 3
\* not within the calendar; the feed begins on a Wednesday.
ShortCalendar == [s \in {1, 3} |-> IF s = 1 THEN [days |-> 0..4, start |-> 2, end |-> 20]
                                   ELSE [days |-> {}, start |-> 2, end |-> 3]]
Exceptions == {[service_id |-> 1, date |-> 4, type |-> 2], [service_id |-> 2, date |-> 5, type |-> 1]}
LongCalendar == [s \in {1, 3} |-> IF s = 1 THEN [days |-> 0..4, start |-> 12, end |-> 38]
                                  ELSE [days |-> {6}, start |-> 2, end |-> 5]]

Place(id, name, platform_code) ==
    [id |-> id, name |-> name, platform_code |-> platform_code,
     attributes |-> IF id = 20 THEN {} ELSE {"wheelchair_boarding"}]

FeedOf(t1, t2, t3, calendar, transfers) ==
    [calendar |-> calendar, transfers |-> transfers,
     stops |-> <<Place(10, "station", "a"), Place(20, "square", ""), Place(30, "station", "b")>>,
     agencies |-> (8 :> "bus company" @@ 9 :> "tramway"),
     trips |-> (1 :> t1) @@ (2 :> t2) @@ (3 :> t3),
     routes |-> [r \in {7, 8} |-> [agency_id |-> r + 1, route_type |-> IF r = 7 THEN "bus" ELSE "tram",
                                       short_name |-> "line 1"]],
     calendar_dates |-> Exceptions]

Walk(from, to, cost) == [from |-> from, to |-> to, cost |-> cost]
Footways ==
    {{}, {Walk(10, 20, 100), Walk(20, 10, 90), Walk(30, 20, 7)}, {Walk(10, 20, NULL), Walk(20, 30, 8), Walk(20, 30, 200)}}

Plain == FeedOf(TripOf(7, 1, Local(28803)), TripOf(7, 1, Local(28001)), TripOf(8, 2, Back(28801)),
                ShortCalendar, {Walk(10, 20, 100)})

SmallFeeds ==
    {Plain} \cup
    {FeedOf(TripOf(7, 1, Local(28803)), t2, t3, calendar, w)
       : t2 \in {TripOf(7, s, c) : s \in {1, 2, 3}, c \in {Local(28001), Slow(28805)}},
         t3 \in {TripOf(r, 1, c) : r \in {7, 8}, c \in {Express(28802), Back(28801), Slow(28000)}},
         calendar \in {ShortCalendar, LongCalendar},
         w \in Footways}

OnlyPlain == {Plain}

--------------------------------------------------------------------------------
Vehicle(trip_id, delay) == [trip_id |-> trip_id, delay |-> delay, usable |-> TRUE, canceled |-> FALSE]
NoVehicle == [trip_id |-> 0, delay |-> 0, usable |-> FALSE, canceled |-> FALSE]
Cancel(trip_id) == [Vehicle(trip_id, 0) EXCEPT !.canceled = TRUE]

Piece(header, entities, final) ==
    [header |-> header, entities |-> entities, final |-> final, remaining |-> FALSE, len |-> Len(entities)]
PartOf(piece) == [piece EXCEPT !.remaining = TRUE]

\* In one frame; in two and three; too long for a buffer of three; with a frame that is
\* too long; with an entity that cannot be used; empty.
SomeMessages ==
    {<<Piece(TRUE, <<Vehicle(1, 65), Vehicle(9, 60), Vehicle(1, -62)>>, TRUE)>>,
     <<Piece(TRUE, <<Cancel(1)>>, FALSE), Piece(FALSE, <<Vehicle(2, 7205)>>, FALSE), Piece(FALSE, << >>, TRUE)>>,
     <<Piece(TRUE, <<Vehicle(1, 120), NoVehicle>>, FALSE), Piece(FALSE, <<Vehicle(2, 120)>>, TRUE)>>,
     <<Piece(TRUE, <<Vehicle(1, 180), Vehicle(2, 180)>>, FALSE), Piece(FALSE, <<Vehicle(3, 180), Vehicle(3, 200)>>, FALSE),
       Piece(FALSE, <<Vehicle(2, 190)>>, FALSE), Piece(FALSE, <<Vehicle(1, 190)>>, TRUE)>>,
     <<Piece(TRUE, <<Vehicle(1, 240)>>, FALSE), PartOf(Piece(FALSE, <<Vehicle(2, 240)>>, TRUE)),
       Piece(FALSE, <<Vehicle(3, 240)>>, TRUE)>>,
     <<Piece(FALSE, << >>, TRUE)>>}

Alert(informed) == [informed |-> informed, alert |-> TRUE]
Selector(route, stop, trip) == [stop |-> stop, route |-> route, trip |-> trip]
SomeAlerts ==
    {<<Alert({Selector(7, NULL, NULL)}), Alert({Selector(8, NULL, 3)})>>,
     <<Alert({Selector(99, 10, NULL), Selector(8, 30, NULL)}), Alert({Selector(NULL, 20, NULL)})>>,
     <<Alert({Selector(NULL, NULL, NULL)}), [informed |-> {}, alert |-> FALSE]>>}

================================================================================
