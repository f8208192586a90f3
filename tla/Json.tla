---------------------------------- MODULE Json ----------------------------------
(***************************************************************************)
(* json.c: a plan as JSON text.  The renderer makes a sequence of calls of *)
(* the writer, the writer puts commas and braces and stops writing when    *)
(* the buffer is full, call by call.                                       *)
(*                                                                         *)
(* The text is a sequence of tokens [t, v] with sizes in bytes; of what    *)
(* has been written, doc keeps what a client would have read by then.      *)
(* Strings of the timetable are named by what they are the name of, as are *)
(* other values; strings are TextSize bytes long with their escapes, keys  *)
(* KeySize bytes, and numbers NumberSize.                                  *)
(*                                                                         *)
(* A plan is [req, itineraries], an itinerary a sequence of legs.  Stops   *)
(* of routes and times of trips are in Routes[r]: [stops, arrival,         *)
(* departure, mode].                                                       *)
(***************************************************************************)
EXTENDS Request

CONSTANTS Plans, Routes,
          Footpaths,                \* from pairs of stops to units of 16 meters
          Buffers,                  \* sizes of the result buffer
          KeySize, TextSize,        \* in bytes
          NumberSize                \* of each kind of number

VARIABLES plan, buflen,
          calls,            \* calls of the writer that are still to come
          room, in_list, overflowed,    \* the writer; room is buf_end - b
          doc               \* the reader

\* What is reserved for a number before it is printed; remaining is told how much.
Reserved == [kd |-> 11, kf |-> 12, kl |-> 21, kb |-> 5]

ASSUME JsonAssumption ==
    /\ Buffers \subseteq Nat \ {0} /\ KeySize \in Nat /\ TextSize \in Nat
    /\ \A op \in DOMAIN Reserved : NumberSize[op] \in 0 .. Reserved[op]

json_vars == <<plan, buflen, calls, room, in_list, overflowed, doc>>

WALK == -2
Null == <<"null">>

--------------------------------------------------------------------------------
(***************************************************************************)
(* The calls.                                                              *)
(***************************************************************************)
Call(op, key, val) == <<[op |-> op, key |-> key, val |-> val]>>
kv(key, val) == Call("kv", key, val)
kd(key, n) == Call("kd", key, <<"number", n>>)
kl(key, n) == Call("kl", key, <<"number", n>>)
kf(key, val) == Call("kf", key, val)
key_obj(key) == Call("key_obj", key, Null)
key_arr(key) == Call("key_arr", key, Null)
obj == Call("obj", "", Null)
end_obj == Call("end_obj", "", Null)
end_arr == Call("end_arr", "", Null)

Seconds(t) == 4 * t
rtime_to_msec(t, date) == (Seconds(t - RTIME_ONE_DAY) + date) * 1000

Moment(key, t, date) == IF t = UNREACHED THEN kv(key, Null) ELSE kl(key, rtime_to_msec(t, date))

\* A place without a key is an element of a list.
json_place(key, arrival, departure, stop, date) ==
    key_obj(key)
      \o kv("name", <<"stop name", stop>>)
      \o key_obj("stopId") \o kv("agencyId", <<"NL">>) \o kv("id", <<"stop id", stop>>) \o end_obj
      \o kv("stopCode", Null) \o kv("platformCode", <<"platform", stop>>)
      \o kf("lat", <<"lat", stop>>) \o kf("lon", <<"lon", stop>>)
      \o kv("wheelchairBoarding", Null) \o kv("visualAccessible", Null)
      \o Moment("arrival", arrival, date) \o Moment("departure", departure, date)
      \o end_obj

\* Stops after s0, up to s1 or the end, with their times: of the trip, and not of the day.
IntermediateStops(leg, date) ==
    LET r == Routes[leg.route]
        visible(i) == /\ \E h \in 1 .. i - 1 : r.stops[h] = leg.s0
                      /\ r.stops[i] # leg.s0 /\ \A h \in 1 .. i : r.stops[h] # leg.s1
        place(i) == IF visible(i) THEN json_place("", r.arrival[i], r.departure[i], r.stops[i], date) ELSE << >>
    IN  FlattenSeq([i \in DOMAIN r.stops |-> place(i)])

leg_mode(leg) == IF leg.route = WALK THEN "WALK" ELSE Routes[leg.route].mode

OfRoute(leg, what) == IF leg.route = WALK THEN Null ELSE <<what, leg.route>>

json_leg(leg, date) ==
    obj
      \o json_place("from", UNREACHED, leg.t0, leg.s0, date)
      \o json_place("to", leg.t1, UNREACHED, leg.s1, date)
      \o kv("mode", <<leg_mode(leg)>>)
      \o kl("startTime", rtime_to_msec(leg.t0, date)) \o kl("endTime", rtime_to_msec(leg.t1, date))
      \o Call("kl", "departureDelay", OfRoute(leg, "delay")) \o kl("arrivalDelay", 0)
      \o kv("routeShortName", OfRoute(leg, "short name")) \o kv("route", OfRoute(leg, "short name"))
      \o kv("headsign", OfRoute(leg, "headsign")) \o kv("routeId", OfRoute(leg, "route id"))
      \o kv("tripId", OfRoute(leg, "trip id")) \o kv("serviceDate", <<"date">>)
      \o kv("agencyId", OfRoute(leg, "agency id")) \o kv("agencyName", OfRoute(leg, "agency name"))
      \o kv("agencyUrl", OfRoute(leg, "agency url")) \o kv("wheelchairAccessible", Null)
      \o kv("productCategory", OfRoute(leg, "product category"))
      \o key_obj("legGeometry")
      \o kv("points", <<"polyline", leg.s0, leg.s1>>) \o kv("levels", Null) \o kd("length", 2)
      \o end_obj
      \o key_arr("intermediateStops")
      \o (IF plan.req.intermediatestops /\ leg.route # WALK THEN IntermediateStops(leg, date) ELSE << >>)
      \o end_arr
      \o kd("duration", rtime_to_msec(leg.t1, date) - rtime_to_msec(leg.t0, date))
      \o end_obj

\* The sums of an itinerary; a walk that leads nowhere is a wait.
Sum(legs, Measure(_), Test(_)) ==
    FoldLeft(LAMBDA n, leg : IF Test(leg) THEN n + Measure(leg) ELSE n, 0, legs)
Duration(leg) == Seconds(leg.t1 - leg.t0)
IsWait(leg) == leg.route = WALK /\ leg.s0 = leg.s1
IsWalk(leg) == leg.route = WALK /\ leg.s0 # leg.s1
IsRide(leg) == leg.route # WALK

transfer_distance(from, to) ==
    IF from = to THEN 0 ELSE IF <<from, to>> \in DOMAIN Footpaths THEN 16 * Footpaths[<<from, to>>] ELSE UNREACHED

json_itinerary(legs, date) ==
    LET starttime == rtime_to_msec(legs[1].t0, date)
        endtime == rtime_to_msec(Last(legs).t1, date)
    IN  obj
          \o kd("duration", endtime - starttime) \o kl("startTime", starttime) \o kl("endTime", endtime)
          \o kd("transfers", (Len(legs) \div 2) - 1)
          \o key_arr("legs") \o FlattenSeq([i \in DOMAIN legs |-> json_leg(legs[i], date)]) \o end_arr
          \o kd("walkTime", Sum(legs, Duration, IsWalk)) \o kd("transitTime", Sum(legs, Duration, IsRide))
          \o kd("waitingTime", Sum(legs, Duration, IsWait))
          \o kd("walkDistance", Sum(legs, LAMBDA leg : transfer_distance(leg.s0, leg.s1), IsWalk))
          \o Call("kb", "walkLimitExceeded", <<"false">>)
          \o kd("elevationLost", 0) \o kd("elevationGained", 0)
          \o end_obj

\* Names of modes are copied over each other, the last is WALK.
render_plan_json(p) ==
    LET q == p.req
        date == req_to_date(q)
    IN  obj
          \o kv("error", <<"null text">>)
          \o key_obj("requestParameters")
          \o kv("time", <<"time", q.time>>) \o Call("kb", "arriveBy", <<q.arrive_by>>)
          \o kf("maxWalkDistance", <<"number", 2000>>)
          \o kv("fromPlace", <<"stop name", q.from>>) \o kv("toPlace", <<"stop name", q.to>>)
          \o kv("date", <<"date">>)
          \o kv("mode", IF q.mode = m_all THEN <<"TRANSIT,WALK">> ELSE <<"WALK">>)
          \o end_obj
          \o key_obj("plan")
          \o kl("date", date * 1000)
          \o json_place("from", UNREACHED, UNREACHED, q.from, date)
          \o json_place("to", UNREACHED, UNREACHED, q.to, date)
          \o key_arr("itineraries")
          \o FlattenSeq([i \in DOMAIN p.itineraries |-> json_itinerary(p.itineraries[i], date)])
          \o end_arr \o end_obj
          \o end_obj

--------------------------------------------------------------------------------
(***************************************************************************)
(* Reading the text: a value by the path to it, of keys and places.        *)
(***************************************************************************)
Values == {"string", "value"}

\* d.stack: what is open, with the key or the place of the value that is next in it;
\* d.need: what may come next; d.values: the values read so far.
Path(d) == [i \in DOMAIN d.stack |-> d.stack[i].at]
Open(d, kind, need) == [d EXCEPT !.stack = Append(@, [kind |-> kind, at |-> "1"]), !.need = need]
Shut(d) == [d EXCEPT !.stack = Front(@), !.need = "comma"]
Inside(d, kind) == d.stack # << >> /\ Last(d.stack).kind = kind
Place(n) == <<"1", "2", "3", "4", "5", "6", "7">>[n]
Successor(at) == Place(SelectInSeq([n \in 1 .. 6 |-> Place(n)], LAMBDA x : x = at) + 1)

Read(d, token) ==
    CASE token.t = "{" /\ d.need \in {"value", "first"} -> Open(d, "object", "first key")
      [] token.t = "[" /\ d.need \in {"value", "first"} -> Open(d, "list", "first")
      [] token.t = "string" /\ d.need \in {"key", "first key"} ->
            [d EXCEPT !.stack[Len(d.stack)].at = token.v[1], !.need = "colon"]
      [] token.t = ":" /\ d.need = "colon" -> [d EXCEPT !.need = "value"]
      [] token.t \in Values /\ d.need \in {"value", "first"} /\ Path(d) \notin DOMAIN d.values ->
            [d EXCEPT !.values = [p \in {Path(d)} \cup DOMAIN @ |-> IF p = Path(d) THEN token.v ELSE @[p]],
                      !.need = "comma"]
      [] token.t = "," /\ d.need = "comma" /\ Inside(d, "object") -> [d EXCEPT !.need = "key"]
      [] token.t = "," /\ d.need = "comma" /\ Inside(d, "list") ->
            [d EXCEPT !.stack[Len(d.stack)].at = Successor(@), !.need = "value"]
      [] token.t = "}" /\ d.need \in {"first key", "comma"} /\ Inside(d, "object") -> Shut(d)
      [] token.t = "]" /\ d.need \in {"first", "comma"} /\ Inside(d, "list") -> Shut(d)
      [] OTHER -> [d EXCEPT !.need = "error"]

Unread == [stack |-> << >>, need |-> "value", values |-> [p \in {} |-> Null]]

--------------------------------------------------------------------------------
(***************************************************************************)
(* The writer, as functions of its state w; w.text is what a call adds.    *)
(***************************************************************************)
Writer == [text |-> << >>, room |-> room, in_list |-> in_list, overflowed |-> overflowed]

Put(w, token, size) == [w EXCEPT !.text = Append(@, token), !.room = @ - size]

\* One character, if there is room for it.
check(w, c) ==
    IF w.room = 0 THEN [w EXCEPT !.overflowed = TRUE] ELSE Put(w, [t |-> c, v |-> Null], 1)

comma(w) == IF w.in_list THEN check(w, ",") ELSE w

\* Text that is printed only if there is room for the longest of its kind, and more.
print(w, reserved, token, size) ==
    IF reserved < w.room THEN Put(w, token, size) ELSE [w EXCEPT !.overflowed = TRUE]

\* Between quotes, character by character: what does not fit is cut off.
string(w, v, size) ==
    IF v = Null THEN print(w, 4, [t |-> "value", v |-> Null], 4)
    ELSE IF size + 2 <= w.room THEN Put(w, [t |-> "string", v |-> v], size + 2)
    ELSE IF w.room = 0 THEN [w EXCEPT !.overflowed = TRUE]
    ELSE [Put(w, [t |-> "cut", v |-> v], w.room) EXCEPT !.overflowed = TRUE]

\* Fault: a list is taken to begin after every key.
ekey_first(w, k) == [check(string(comma(w), <<k>>, KeySize), ":") EXCEPT !.in_list = FALSE]

ekey(w, k) == [check(string(comma(w), <<k>>, KeySize), ":") EXCEPT !.in_list = TRUE]

Begin(w, bracket) == [check(w, bracket) EXCEPT !.in_list = FALSE]
End(w, bracket) == [check(w, bracket) EXCEPT !.in_list = TRUE]

JsonInit ==
    /\ plan \in Plans /\ buflen \in Buffers
    /\ calls = render_plan_json(plan)
    /\ room = buflen - 1 /\ in_list = FALSE /\ overflowed = FALSE     \* json_begin
    /\ doc = Unread

\* The next call leaves the writer as w.
Do(op, w) ==
    /\ calls # << >> /\ Head(calls).op = op
    /\ doc' = FoldLeft(Read, doc, w.text) /\ room' = w.room
    /\ in_list' = w.in_list /\ overflowed' = w.overflowed
    /\ calls' = Tail(calls)
    /\ UNCHANGED <<plan, buflen>>

key == Head(calls).key
val == Head(calls).val

json_kv == Do("kv", string(ekey(Writer, key), val, TextSize))
json_number(op) == Do(op, print(ekey(Writer, key), Reserved[op], [t |-> "value", v |-> val], NumberSize[op]))
json_key_obj == Do("key_obj", Begin(IF key # "" THEN ekey(Writer, key) ELSE comma(Writer), "{"))
json_key_arr == Do("key_arr", Begin(ekey(Writer, key), "["))
json_obj == Do("obj", Begin(comma(Writer), "{"))
json_end_obj == Do("end_obj", End(Writer, "}"))
json_end_arr == Do("end_arr", End(Writer, "]"))

JsonNext ==
    \/ json_kv \/ (\E op \in DOMAIN Reserved : json_number(op))
    \/ json_key_obj \/ json_key_arr \/ json_obj \/ json_end_obj \/ json_end_arr

JsonSpec == JsonInit /\ [][JsonNext]_json_vars

--------------------------------------------------------------------------------
WellFormed(d) == d.stack = << >> /\ d.need = "comma"

\* The answer for one leg and for one itinerary.
LegReads(d, at, leg) ==
    /\ d.values[at \o <<"startTime">>] = <<"number", rtime_to_msec(leg.t0, req_to_date(plan.req))>>
    /\ d.values[at \o <<"endTime">>] = d.values[at \o <<"to", "arrival">>]
    /\ d.values[at \o <<"from", "name">>] = <<"stop name", leg.s0>>
    /\ d.values[at \o <<"to", "name">>] = <<"stop name", leg.s1>>

ItineraryReads(d, at, legs) ==
    /\ \A j \in DOMAIN legs : LegReads(d, at \o <<"legs", Place(j)>>, legs[j])
    /\ at \o <<"legs", Place(Len(legs) + 1), "mode">> \notin DOMAIN d.values
    /\ LET number(k) == d.values[at \o <<k>>][2]
       IN  1000 * (number("walkTime") + number("transitTime") + number("waitingTime")) <= number("duration")

\* The text never exceeds its buffer.
TextFits == room >= 0

\* A client reads from the text one well-formed document with the itineraries and legs of
\* the plan, each value once.
TextReads ==
    /\ \A i \in DOMAIN plan.itineraries :
          ItineraryReads(doc, <<"plan", "itineraries", Place(i)>>, plan.itineraries[i])
    /\ <<"plan", "itineraries", Place(Len(plan.itineraries) + 1), "duration">> \notin DOMAIN doc.values

\* The text is read back if all of it fits; and if not, what a client gets is not
\* well-formed, so that it cannot mistake a part for the whole (json.c:12-448): the overflow
\* itself is not reported by render_plan_json.
JsonReadsBack ==
    /\ TextFits
    /\ calls = << >> =>
         /\ overflowed <=> ~WellFormed(doc)
         /\ ~overflowed => TextReads

================================================================================
