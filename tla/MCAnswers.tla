------------------------------- MODULE MCAnswers -------------------------------
(***************************************************************************)
(* Both ends of an answer: the request as it is parsed, and the plan as it *)
(* is written, with the lines of its legs.  Each is explored on its own.   *)
(***************************************************************************)
EXTENDS Json, Polyline

VARIABLE part

\* Dates within the calendar, at its ends and around it, times that are and are not whole
\* numbers of four seconds, and each of the other options.
Asking ==
    [opt : {"D"}, form : {"date"}, date : {0, 5, 31, 33}, sec : {1800, 86399}]
      \cup {[opt |-> "D", form |-> "date", date |-> -2, sec |-> 30002],
            [opt |-> "D", form |-> "1970", date |-> 0, sec |-> 30001],
            [opt |-> "D", form |-> "unreadable", date |-> 0, sec |-> 0]}
      \cup [opt : {"a", "d", "r", "showIntermediateStops", "unknown"}]
      \cup [opt : {"f", "l"}, value : {1}] \cup [opt : {"t", "L"}, value : {2, NONE}] \cup [opt : {"V"}, value : {3}]
      \cup [opt : {"o"}, value : {<<"shortest">>, <<"transfers", "all">>}] \cup [opt : {"m"}, value : {<<"bus", "tram">>}]
      \cup [opt : {"A"}, value : {<<"wifi">>, <<"none", "toilet">>}]
      \cup [opt : {"x", "y", "z", "w"}, value : {<<1, -1, 2>>}] \cup [opt : {"Q"}, value : {<<1>>, <<1, 2>>}]

Clean == {router_request_initialize}
Leftovers == Clean \cup {[router_request_initialize EXCEPT !.time = 30000, !.day_mask = {3}, !.banned_route = 7]}
Noon == {[date |-> 4, sec |-> 43201]}
\* Winter, summer, and a change of the clocks within the calendar or at its end.
Seasons == {[from |-> 50, to |-> 80], [from |-> -9, to |-> 60], [from |-> 5, to |-> 60], [from |-> -60, to |-> 31]}
Draws == {[from |-> 0, to |-> 1, time |-> RTIME_ONE_DAY + 8100, day |-> 31, arrive_by |-> FALSE]}

TwoRoutes == <<[stops |-> <<1, 2, 3>>, arrival |-> <<100, 150, 200>>, departure |-> <<100, 155, 200>>, mode |-> "BUS"],
               [stops |-> <<3, 4>>, arrival |-> <<300, 400>>, departure |-> <<300, 400>>, mode |-> "TRAM"]>>
TwoFootpaths == [x \in {<<5, 1>>, <<4, 6>>} |-> 10]
Travel(s0, s1, t0, t1, route) ==
    [s0 |-> s0, s1 |-> s1, t0 |-> RTIME_ONE_DAY + t0, t1 |-> RTIME_ONE_DAY + t1, route |-> route]
OneRide == <<Travel(5, 1, 90, 100, WALK), Travel(1, 3, 100, 200, 1), Travel(3, 3, 200, 200, WALK)>>
TwoRides == <<Travel(5, 1, 90, 100, WALK), Travel(1, 3, 100, 200, 1), Travel(3, 3, 200, 200, WALK),
              Travel(3, 4, 300, 400, 2), Travel(4, 6, 400, 420, WALK)>>
Answers ==
    {[req |-> [router_request_initialize EXCEPT !.from = 5, !.to = 6, !.time = 22000, !.day_mask = {1},
                                                !.mode = m, !.intermediatestops = i],
      itineraries |-> its]
        : <<m, i, its>> \in {<<m_all, FALSE, << >>>>, <<{"bus"}, TRUE, <<OneRide>>>>, <<m_all, TRUE, <<OneRide, TwoRides>>>>}}

Numbers == [kd |-> 5, kf |-> 5, kl |-> 5, kb |-> 5]

\* Around the sizes of these answers, and some in between.
ResultBuffers == (40 .. 56) \cup (485 .. 513) \cup (2755 .. 2791) \cup (6340 .. 6374) \cup {1000, 4000, 8000}

\* On both sides of the equator, with differences of all sizes, and fractions of a step.
Spots == [lat : {0, 31, 4096009, -4096001}, lon : {0, 3, 1500}]
Drawings ==
    {[stops |-> st, s0 |-> st[a], s1 |-> st[3], walk |-> FALSE] : st \in [1 .. 3 -> Spots], a \in {1, 2}}
      \cup {[stops |-> << >>, s0 |-> a, s1 |-> b, walk |-> TRUE] : a, b \in Spots}

\* The part that is chosen moves, the others keep one of their initial states.
AnswersInit ==
    /\ part \in {"request", "json", "line"}
    /\ RequestInit
    /\ (part # "request" => program = "web" /\ req \in Clean /\ summer.to = 60)
    /\ IF part = "json" THEN JsonInit
       ELSE /\ plan = << >> /\ buflen = 0 /\ calls = <<NONE>> /\ doc = Unread
            /\ room = 0 /\ in_list = FALSE /\ overflowed = FALSE
    /\ IF part = "line" THEN PolylineInit
       ELSE leg = [walk |-> TRUE] /\ s = 0 /\ output = FALSE /\ drawn = << >> /\ polyline_begin

AnswersNext ==
    /\ UNCHANGED part
    /\ \/ part = "request" /\ RequestNext /\ UNCHANGED <<json_vars, polyline_vars>>
       \/ part = "json" /\ JsonNext /\ UNCHANGED <<request_vars, polyline_vars>>
       \/ part = "line" /\ PolylineNext /\ UNCHANGED <<request_vars, json_vars>>

AnswersSpec == AnswersInit /\ [][AnswersNext]_<<part, request_vars, json_vars, polyline_vars>>

================================================================================
