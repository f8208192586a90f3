-------------------------------- MODULE Request --------------------------------
(***************************************************************************)
(* How a request comes about: options of a command line (tester.c) or of a *)
(* query string (worker-web.c) are written into a struct router_request    *)
(* one after another (parse.c), and the date that was asked for becomes a  *)
(* day of the calendar and a time (router.c, util.c).                      *)
(*                                                                         *)
(* An option is [opt, value], a date [opt, form, date, sec].  Dates count  *)
(* from the first date of the calendar.  Seconds since the epoch count     *)
(* from midnight of that date in standard time: that is what the builder   *)
(* writes as calendar_start_time, in summer too.  day_mask is the set of   *)
(* the bits in it.                                                         *)
(***************************************************************************)
EXTENDS Integers, Sequences, FiniteSets, SequencesExt, FiniteSetsExt

CONSTANTS Programs,         \* those that are run: "tester", "web"
          n_stops,          \* of the timetable
          Options,          \* what may be given to them
          Stacks,           \* what memory may hold that has not been written to
          Moments,          \* [date, sec] at which requests may be made
          Summers,          \* [from, to]: dates on which the clocks change
          TimeZone,         \* of standard time, in seconds
          Random,           \* [from, to, time, day, arrive_by] that may be drawn
          MaxOptions        \* bound: options of all requests together

VARIABLES program,
          now, summer,      \* the clock, as far as it matters
          req,              \* the request: preq of worker-web.c, req of tester.c
          given,            \* history: options of this request so far
          phase,            \* "parsing", "search", or "usage" where the tester gives up
          taken             \* counter of options

request_vars == <<program, now, summer, req, given, phase, taken>>

NONE == -1
UNREACHED == 65535
SEC_IN_ONE_DAY == 86400
RTIME_ONE_DAY == SEC_IN_ONE_DAY \div 4

o_all == {"shortest", "transfers", "others"}
m_all == {"tram", "subway", "rail", "bus", "ferry", "cablecar", "gondola", "funicular"}
ta_all == {"accessible", "toilet", "wifi"}

\* A ban is NONE while the number of such bans is 0.
router_request_initialize ==
    [from |-> NONE, to |-> NONE, via |-> NONE, start_trip |-> NONE, time |-> UNREACHED, day_mask |-> {},
     walk_speed |-> "1.5", walk_slack |-> 0, arrive_by |-> TRUE, time_rounded |-> FALSE,
     mode |-> m_all, trip_attributes |-> {}, optimise |-> o_all, intermediatestops |-> FALSE,
     banned_route |-> NONE, banned_stop |-> NONE, banned_trip |-> NONE, banned_stop_hard |-> NONE]

\* The time zone is east of Greenwich, as is the country the programs are made for.
ASSUME RequestAssumption ==
    /\ \A o \in Options : o.opt = "D" => o.date \in Int /\ o.sec \in 0 .. SEC_IN_ONE_DAY - 1
    /\ \A t \in Moments : t.date \in Int /\ t.sec \in 0 .. SEC_IN_ONE_DAY - 1
    /\ \A y \in Summers : y.from \in Int /\ y.to \in Int /\ y.from < y.to
    /\ TimeZone \in 0 .. SEC_IN_ONE_DAY - 1
    /\ \A q \in Stacks : DOMAIN q = DOMAIN router_request_initialize /\ q.arrive_by \in BOOLEAN
    /\ \A x \in Random : x.arrive_by \in BOOLEAN

--------------------------------------------------------------------------------
(***************************************************************************)
(* Time.                                                                   *)
(***************************************************************************)
\* Clocks are put forward at two and back at three.
Summertime(t) ==
    \/ t.date > summer.from /\ t.date < summer.to
    \/ t.date = summer.from /\ t.sec >= 3 * 3600
    \/ t.date = summer.to /\ t.sec < 3 * 3600

mktime(t) == t.date * SEC_IN_ONE_DAY + t.sec - (IF Summertime(t) THEN 3600 ELSE 0)

\* Days of the calendar on which summer time is in force, by the midnight they end with.
dst_active == {d \in 0 .. 31 : Summertime([date |-> d + 1, sec |-> 0])}

\* What epoch_to_rtime takes for the date and the time: a time on the first day of 1970
\* is one of today, less the time zone; a date that cannot be read is long past.
LocalTime(o) ==
    CASE o.form = "date" -> [date |-> o.date, sec |-> o.sec]
      [] o.form = "1970" /\ o.sec > TimeZone -> [date |-> now.date, sec |-> o.sec - TimeZone]
      [] OTHER -> now

\* Unsigned: before the start of the calendar it is 2^64 less something, in days, cut to
\* 32 bits.  2^64 is 213503982334601 days and 25216 seconds; what counts is modulo 28.
DaysSinceStart(seconds) ==
    IF seconds >= 0 THEN seconds \div SEC_IN_ONE_DAY
    ELSE 28 * 1000 + 9 - ((-seconds - 25216 + SEC_IN_ONE_DAY - 1) \div SEC_IN_ONE_DAY)

\* Fault: wraps to the length of the calendar.
Wrapped_32(day) == IF day > 31 THEN day % 32 ELSE day

Wrapped(day) == IF day > 31 THEN day % 28 ELSE day

router_request_from_epoch(q, t) ==
    [q EXCEPT !.time = t.sec \div 4 + RTIME_ONE_DAY, !.time_rounded = (t.sec % 4 # 0),
              !.day_mask = {Wrapped(DaysSinceStart(mktime(t)))}]

--------------------------------------------------------------------------------
(***************************************************************************)
(* parse_request, by kinds of options.  Later ones replace earlier ones.   *)
(***************************************************************************)
FlagOption(q, o) == [q EXCEPT !.arrive_by = (o.opt = "a")]

DateOption(q, o) == router_request_from_epoch(q, LocalTime(o))

\* A place given by coordinates (l, L) is the stop HashGridResult_closest found, or NONE.
Field == [f |-> "from", t |-> "to", V |-> "via", s |-> "walk_slack", S |-> "walk_speed",
          l |-> "from", L |-> "to"]
ValueOption(q, o) == [q EXCEPT ![Field[o.opt]] = o.value]

Wishes(start, tokens, everything) ==
    FoldLeft(LAMBDA s, x : IF x = "all" THEN everything ELSE s \cup ({x} \cap everything), start, tokens)

OptimiseOption(q, o) == [q EXCEPT !.optimise = Wishes({}, o.value, o_all)]
ModeOption(q, o) == [q EXCEPT !.mode = Wishes({}, o.value, m_all)]

\* Attributes add up, over several options too, until "none".
AttributesOption(q, o) ==
    [q EXCEPT !.trip_attributes =
        FoldLeft(LAMBDA s, x : IF x = "none" THEN {} ELSE s \cup ({x} \cap ta_all), @, o.value)]

\* Of several bans the last one counts; negative numbers are passed over.
Ban(old, tokens) == FoldLeft(LAMBDA b, x : IF x >= 0 THEN x ELSE b, old, tokens)

RouteBan(q, o) == [q EXCEPT !.banned_route = Ban(@, o.value)]
StopBan(q, o) == [q EXCEPT !.banned_stop = Ban(@, o.value)]
HardStopBan(q, o) == [q EXCEPT !.banned_stop_hard = Ban(@, o.value)]

\* Pairs of a route and a trip, encoded here as one number each: whole pairs only.  After a
\* route without a trip strtol is given NULL and the worker ends (parse.c:148-149).
TripBan(q, o) == [q EXCEPT !.banned_trip = Ban(@, o.value)]

\* The first number is the route and the last the trip; one number alone says nothing.
StartTripOption(q, o) ==
    IF Len(o.value) < 2 THEN q ELSE [q EXCEPT !.start_trip = 10 * o.value[1] + Last(o.value)]

router_request_randomize(q, x) ==
    [router_request_initialize EXCEPT
        !.from = x.from, !.to = x.to, !.time = x.time, !.day_mask = {x.day}, !.arrive_by = x.arrive_by,
        !.start_trip = q.start_trip, !.time_rounded = q.time_rounded]

Is(o, kinds) == o.opt \in kinds

\* What an option makes of the request; -r draws one, on the command line only.
parse_request(q, o) ==
    CASE Is(o, {"a", "d"}) -> {FlagOption(q, o)}
      [] Is(o, {"D"}) -> {DateOption(q, o)}
      [] Is(o, DOMAIN Field) -> {ValueOption(q, o)}
      [] Is(o, {"o"}) -> {OptimiseOption(q, o)}
      [] Is(o, {"m"}) -> {ModeOption(q, o)}
      [] Is(o, {"A"}) -> {AttributesOption(q, o)}
      [] Is(o, {"x"}) -> {RouteBan(q, o)}
      [] Is(o, {"y"}) -> {StopBan(q, o)}
      [] Is(o, {"w"}) -> {HardStopBan(q, o)}
      [] Is(o, {"z"}) -> {TripBan(q, o)}
      [] Is(o, {"Q"}) -> {StartTripOption(q, o)}
      [] Is(o, {"r"}) -> {router_request_randomize(q, x) : x \in Random}
      [] Is(o, {"showIntermediateStops"}) -> {[q EXCEPT !.intermediatestops = TRUE]}
      [] OTHER -> {q}

--------------------------------------------------------------------------------
(***************************************************************************)
(* The programs.                                                           *)
(***************************************************************************)
Accepts(o) == IF program = "tester" THEN o.opt \notin {"l", "L", "showIntermediateStops", "unknown"}
              ELSE o.opt # "r"

RequestInit ==
    /\ program \in Programs /\ now \in Moments /\ summer \in Summers
    /\ req \in IF program = "tester" THEN {router_request_initialize} ELSE Stacks
    /\ given = << >> /\ phase = "parsing" /\ taken = 0

\* The next argument, or the next pair of the query string (qstring_next_pair).
NextOption(o) ==
    /\ phase = "parsing" /\ taken < MaxOptions /\ Accepts(o)
    /\ req' \in parse_request(req, o)
    /\ given' = Append(given, o) /\ taken' = taken + 1
    /\ UNCHANGED <<program, now, summer, phase>>

Rounded(q) ==
    [q EXCEPT !.time = IF q.time_rounded /\ ~q.arrive_by THEN @ + 1 ELSE @, !.time_rounded = FALSE]

\* worker-web.c: without a date the request is for now.
EndOfQuery ==
    /\ program = "web" /\ phase = "parsing"
    /\ req' = Rounded(IF req.time = UNREACHED THEN router_request_from_epoch(req, now) ELSE req)
    /\ phase' = "search"
    /\ UNCHANGED <<program, now, summer, given, taken>>

\* tester.c: gives up unless there are two stops of the timetable.
EndOfArguments ==
    /\ program = "tester" /\ phase = "parsing"
    /\ IF {req.from, req.to} \subseteq 0 .. n_stops - 1 /\ req.from # req.to
       THEN phase' = "search" /\ req' = Rounded(req)
       ELSE phase' = "usage" /\ UNCHANGED req
    /\ UNCHANGED <<program, now, summer, given, taken>>

\* The next request of a worker is parsed into the same memory.
NextRequest ==
    /\ program = "web" /\ phase = "search"
    /\ phase' = "parsing" /\ given' = << >>
    /\ UNCHANGED <<program, now, summer, req, taken>>

RequestNext ==
    \/ \E o \in Options : NextOption(o)
    \/ EndOfQuery \/ EndOfArguments \/ NextRequest

RequestSpec == RequestInit /\ [][RequestNext]_request_vars

--------------------------------------------------------------------------------
(***************************************************************************)
(* The way back, for the answer.                                           *)
(***************************************************************************)
cal_day(q) == Max(q.day_mask)

req_to_date(q) == cal_day(q) * SEC_IN_ONE_DAY - (IF cal_day(q) \in dst_active THEN 3600 ELSE 0)
req_to_epoch(q) == req_to_date(q) + 4 * (q.time - RTIME_ONE_DAY)

\* The time that was asked for, by the last option that says so.
Dated == {i \in DOMAIN given : given[i].opt \in {"D", "r"}}
AskedTime == LocalTime(given[Max(Dated)])

\* A date within the calendar or after it, not in the first hour of a day in summer, which
\* counts as the day before, nor in the night in which the clocks change.
Ordinary(t) ==
    /\ t.date >= 0
    /\ Summertime(t) => t.sec >= 3600
    /\ t.date \in {summer.from, summer.to} => t.sec >= 3 * 3600

\* Whatever the order of the options, the search is for the weekday and the time that were
\* asked for, not before it when departing and not after it when arriving and less than
\* four seconds off (parse.c:250-265, router.c:1036-1056, util.c:72-109).  Within the
\* calendar it is for the very date, and the moment that the answer gives for it is that
\* moment (req_to_epoch, router.c:1203-1212), in summer and in winter.
AskedTimeKept ==
    phase = "search" /\ Dated # {} /\ given[Max(Dated)].opt = "D" /\ Ordinary(AskedTime) =>
        LET t == AskedTime
            off == 4 * (req.time - RTIME_ONE_DAY) - t.sec
        IN  /\ IF req.arrive_by THEN off \in -3 .. 0 ELSE off \in 0 .. 3
            /\ cal_day(req) \in 0 .. 31 /\ cal_day(req) % 7 = t.date % 7
            /\ t.date \in 0 .. 31 => /\ req.day_mask = {t.date}
                                     /\ req_to_epoch(req) = mktime(t) + off

\* The options that decide a field.
Deciding == [from |-> {"f", "l", "r"}, to |-> {"t", "L", "r"}, via |-> {"V", "r"}, start_trip |-> {"Q"},
             time |-> {"D", "r"}, arrive_by |-> {"a", "d", "r"}, mode |-> {"m", "r"}, optimise |-> {"o", "r"},
             trip_attributes |-> {"A", "r"}, intermediatestops |-> {"showIntermediateStops", "r"},
             banned_route |-> {"x", "r"}, banned_stop |-> {"y", "r"}, banned_trip |-> {"z", "r"},
             banned_stop_hard |-> {"w", "r"}]

\* "Initializes the router request then fills in its time and datemask fields from the
\* given epoch time." (router.c:1036): what no option decides has its default value.
FreshRequest ==
    phase = "search" =>
        \A f \in DOMAIN Deciding \ {"time"} :
            (\A i \in DOMAIN given : given[i].opt \notin Deciding[f]) => req[f] = router_request_initialize[f]

================================================================================
