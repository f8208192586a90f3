----------------------------- MODULE AnswersProofs ------------------------------
(***************************************************************************)
(* What options make of the time that is asked for, that the text of an    *)
(* answer stays in its buffer, and that the line of a leg can be read.     *)
(***************************************************************************)
EXTENDS Request, Json, Polyline, Induction, SequenceTheorems, TLAPS

(***************************************************************************)
(* The request, for every date, every number of options and every order    *)
(* of them.                                                                *)
(***************************************************************************)
Fields == DOMAIN router_request_initialize
TimeOfDay == 0 .. SEC_IN_ONE_DAY - 1

TypeInv ==
    /\ now \in Moments /\ summer \in Summers /\ given \in Seq(Options)
    /\ DOMAIN req = Fields /\ req.arrive_by \in BOOLEAN

\* The last dated option is a date, and not a request that was drawn.
AsksDate == Dated # {} /\ given[Max(Dated)].opt = "D"

\* The fields that a date decides stay as it left them until the search, where the time is
\* rounded up for a departure.
DateInv ==
    AsksDate =>
        /\ phase # "usage" => req.day_mask = {Wrapped(DaysSinceStart(mktime(AskedTime)))}
        /\ phase = "parsing" => /\ req.time = (AskedTime.sec \div 4) + RTIME_ONE_DAY
                                /\ req.time_rounded = (AskedTime.sec % 4 # 0)
        /\ phase = "search" =>
             req.time = (AskedTime.sec \div 4) + RTIME_ONE_DAY
                          + (IF AskedTime.sec % 4 # 0 /\ ~req.arrive_by THEN 1 ELSE 0)

--------------------------------------------------------------------------------
\* The times of a day.
LEMMA SecType ==
    /\ SEC_IN_ONE_DAY = 86400 /\ SEC_IN_ONE_DAY \in Nat
    /\ \A x \in TimeOfDay : x \in Nat /\ x < SEC_IN_ONE_DAY
    /\ \A x \in Nat : x < SEC_IN_ONE_DAY => x \in TimeOfDay
<1>1. SEC_IN_ONE_DAY = 86400
  BY DEF SEC_IN_ONE_DAY
<1>2. SEC_IN_ONE_DAY \in Nat
  BY <1>1
<1>3. \A x \in TimeOfDay : x \in Nat /\ x < SEC_IN_ONE_DAY
  BY <1>2 DEF TimeOfDay
<1>4. \A x \in Nat : x < SEC_IN_ONE_DAY => x \in TimeOfDay
  BY <1>2 DEF TimeOfDay
<1> QED
  BY <1>1, <1>2, <1>3, <1>4

\* The date and the time that an option stands for are such.
LEMMA LocalTimeType ==
    ASSUME TypeInv, NEW o \in Options, o.opt = "D"
    PROVE  LocalTime(o).date \in Int /\ LocalTime(o).sec \in TimeOfDay
<1>1. now.date \in Int /\ now.sec \in TimeOfDay
  BY RequestAssumption DEF TypeInv, TimeOfDay
<1>2. o.date \in Int /\ o.sec \in TimeOfDay /\ TimeZone \in TimeOfDay
  BY RequestAssumption DEF TimeOfDay
<1>3. CASE o.form = "date"
  BY <1>2, <1>3 DEF LocalTime
<1>4. CASE o.form = "1970" /\ o.sec > TimeZone
  <2>1. LocalTime(o) = [date |-> now.date, sec |-> o.sec - TimeZone]
    BY <1>4 DEF LocalTime
  <2>2. o.sec - TimeZone \in TimeOfDay
    <3>1. PICK a \in TimeOfDay, z \in TimeOfDay : a = o.sec /\ z = TimeZone /\ a > z
      BY <1>2, <1>4
    <3>2. a - z \in Nat /\ a - z < SEC_IN_ONE_DAY
      <4>1. a \in Nat /\ z \in Nat /\ a < SEC_IN_ONE_DAY /\ SEC_IN_ONE_DAY \in Nat
        BY SecType
      <4> QED
        BY <3>1, <4>1
    <3> QED
      BY <3>1, <3>2, SecType
  <2> QED
    BY <1>1, <2>1, <2>2
<1>5. CASE ~(o.form = "date") /\ ~(o.form = "1970" /\ o.sec > TimeZone)
  <2>1. LocalTime(o) = now
    BY <1>5 DEF LocalTime
  <2> QED
    BY <1>1, <2>1
<1> QED
  BY <1>3, <1>4, <1>5

\* Only dates, and requests that are drawn, write the fields of a date.
LEMMA OptionEffect ==
    ASSUME NEW q, DOMAIN q = Fields, q.arrive_by \in BOOLEAN,
           NEW o \in Options, NEW p \in parse_request(q, o)
    PROVE  /\ DOMAIN p = Fields /\ p.arrive_by \in BOOLEAN
           /\ o.opt \notin {"D", "r"} =>
                p.time = q.time /\ p.time_rounded = q.time_rounded /\ p.day_mask = q.day_mask
           /\ o.opt = "D" => p = DateOption(q, o)
<1> DEFINE Kept(x) == /\ DOMAIN x = Fields /\ x.arrive_by \in BOOLEAN
                      /\ x.time = q.time /\ x.time_rounded = q.time_rounded /\ x.day_mask = q.day_mask
<1>1. /\ "time" \in Fields /\ "time_rounded" \in Fields /\ "day_mask" \in Fields /\ "arrive_by" \in Fields
  BY DEF Fields, router_request_initialize
<1>2. Kept(q)
  OBVIOUS
<1>3. CASE Is(o, {"a", "d"})
  <2>1. p = FlagOption(q, o)
    BY <1>3 DEF parse_request, Is, Field
  <2> QED
    BY <1>1, <1>3, <2>1 DEF FlagOption, Is
<1>4. CASE Is(o, {"D"})
  <2>1. p = DateOption(q, o)
    BY <1>4 DEF parse_request, Is, Field
  <2> QED
    BY <1>1, <1>4, <2>1 DEF DateOption, router_request_from_epoch, Is
<1>5. CASE Is(o, DOMAIN Field)
  <2>1. o.opt \in {"f", "t", "V", "s", "S", "l", "L"} /\ Field[o.opt] \in {"from", "to", "via", "walk_slack", "walk_speed"}
    BY <1>5 DEF Is, Field
  <2>2. p = ValueOption(q, o)
    BY <1>5, <2>1 DEF parse_request, Is
  <2> QED
    BY <1>1, <2>1, <2>2 DEF ValueOption
<1>6. CASE Is(o, {"o", "m", "A"})
  <2>1. p = OptimiseOption(q, o) \/ p = ModeOption(q, o) \/ p = AttributesOption(q, o)
    BY <1>6 DEF parse_request, Is, Field
  <2> QED
    BY <1>1, <1>6, <2>1 DEF OptimiseOption, ModeOption, AttributesOption, Is
<1>7. CASE Is(o, {"x", "y", "w", "z"})
  <2>1. p = RouteBan(q, o) \/ p = StopBan(q, o) \/ p = HardStopBan(q, o) \/ p = TripBan(q, o)
    BY <1>7 DEF parse_request, Is, Field
  <2> QED
    BY <1>1, <1>7, <2>1 DEF RouteBan, StopBan, HardStopBan, TripBan, Is
<1>8. CASE Is(o, {"Q"})
  <2>1. p = StartTripOption(q, o)
    BY <1>8 DEF parse_request, Is, Field
  <2> QED
    BY <1>1, <1>8, <2>1 DEF StartTripOption, Is
<1>9. CASE Is(o, {"r"})
  <2>1. p \in {router_request_randomize(q, x) : x \in Random}
    BY <1>9 DEF parse_request, Is, Field
  <2>2. PICK x \in Random : p = router_request_randomize(q, x)
    BY <2>1
  <2>3. DOMAIN p = Fields /\ p.arrive_by = x.arrive_by
    BY <1>1, <2>2 DEF router_request_randomize, router_request_initialize, Fields
  <2> QED
    BY <1>9, <2>3, RequestAssumption DEF Is
<1>10. CASE Is(o, {"showIntermediateStops"})
  <2>1. p = [q EXCEPT !.intermediatestops = TRUE]
    BY <1>10 DEF parse_request, Is, Field
  <2> QED
    BY <1>1, <1>10, <2>1 DEF Is
<1>11. CASE ~Is(o, DOMAIN Field) /\ ~Is(o, {"a", "d", "D", "o", "m", "A", "x", "y", "w", "z", "Q", "r", "showIntermediateStops"})
  <2>1. p = q
    BY <1>11 DEF parse_request, Is
  <2> QED
    BY <1>2, <1>11, <2>1 DEF Is
<1> QED
  BY <1>3, <1>4, <1>5, <1>6, <1>7, <1>8, <1>9, <1>10, <1>11 DEF Is

\* The first date of the calendar is number 0, and dates in summer are not taken for the
\* day before if they are ordinary ones.
LEMMA DayOfDate ==
    ASSUME NEW t, t.date \in Nat, t.sec \in TimeOfDay, Ordinary(t)
    PROVE  DaysSinceStart(mktime(t)) = t.date
<1>1. PICK d \in Nat, secs \in Nat : d = t.date /\ secs = t.sec /\ secs < 86400
  BY SecType
<1>2. Summertime(t) => secs >= 3600
  BY <1>1 DEF Ordinary
<1>3. mktime(t) = d * 86400 + secs - (IF Summertime(t) THEN 3600 ELSE 0)
  BY <1>1 DEF mktime, SEC_IN_ONE_DAY
<1>4. PICK r \in Nat : r < 86400 /\ mktime(t) = d * 86400 + r
  <2>1. CASE Summertime(t)
    <3>1. secs - 3600 \in Nat /\ secs - 3600 < 86400 /\ d * 86400 + secs - 3600 = d * 86400 + (secs - 3600)
      BY <1>1, <1>2, <2>1
    <3> QED
      BY <1>3, <2>1, <3>1
  <2>2. CASE ~Summertime(t)
    BY <1>1, <1>3, <2>2
  <2> QED
    BY <2>1, <2>2
<1>5. (d * 86400 + r) \div 86400 = d /\ d * 86400 + r >= 0
  BY <1>4
<1> QED
  BY <1>1, <1>4, <1>5 DEF DaysSinceStart, SEC_IN_ONE_DAY

\* A date after the calendar is searched for on the same day of the week.
LEMMA WrapKeepsWeekday ==
    ASSUME NEW d \in Nat
    PROVE  /\ Wrapped(d) \in 0 .. 31 /\ Wrapped(d) % 7 = d % 7
           /\ d <= 31 => Wrapped(d) = d
<1>1. (d % 28) \in 0 .. 27 /\ (d % 28) % 7 = d % 7
  OBVIOUS
<1> QED
  BY <1>1 DEF Wrapped

\* The calendar's mark for summer time agrees with the clock on ordinary times.
LEMMA SummerOfDay ==
    ASSUME TypeInv, NEW t, t.date \in Nat, t.date <= 31, t.sec \in Nat, Ordinary(t)
    PROVE  t.date \in dst_active <=> Summertime(t)
<1>1. summer.from \in Int /\ summer.to \in Int /\ summer.from < summer.to
  BY RequestAssumption DEF TypeInv
<1>2. t.date \in dst_active <=> Summertime([date |-> t.date + 1, sec |-> 0])
  BY DEF dst_active
<1>3. Summertime([date |-> t.date + 1, sec |-> 0]) <=>
        \/ t.date + 1 > summer.from /\ t.date + 1 < summer.to
        \/ t.date + 1 = summer.from /\ 0 >= 3 * 3600
        \/ t.date + 1 = summer.to /\ 0 < 3 * 3600
  BY DEF Summertime
<1>4. Summertime(t) <=>
        \/ t.date > summer.from /\ t.date < summer.to
        \/ t.date = summer.from /\ t.sec >= 3 * 3600
        \/ t.date = summer.to /\ t.sec < 3 * 3600
  BY DEF Summertime
<1>5. t.date = summer.from \/ t.date = summer.to => t.sec >= 3 * 3600
  BY DEF Ordinary
<1>6. ASSUME NEW d \in Nat, NEW secs \in Nat, NEW a \in Int, NEW b \in Int, a < b,
             d = a \/ d = b => secs >= 3 * 3600
      PROVE  (\/ d + 1 > a /\ d + 1 < b
              \/ d + 1 = a /\ 0 >= 3 * 3600
              \/ d + 1 = b /\ 0 < 3 * 3600)
             <=> (\/ d > a /\ d < b
                  \/ d = a /\ secs >= 3 * 3600
                  \/ d = b /\ secs < 3 * 3600)
  BY <1>6
<1> QED
  BY <1>1, <1>2, <1>3, <1>4, <1>5, <1>6

\* Adding an option to those given: it is the last dated one if it is dated.
LEMMA DatedStep ==
    ASSUME TypeInv, NEW o \in Options, given' = Append(given, o)
    PROVE  /\ o.opt \in {"D", "r"} => Dated' # {} /\ given'[Max(Dated')] = o
           /\ o.opt \notin {"D", "r"} => Dated' = Dated /\ (Dated # {} => given'[Max(Dated)] = given[Max(Dated)])
<1>1. PICK g \in Seq(Options) : g = given
  BY DEF TypeInv
<1>2. PICK n \in Nat : n = Len(g)
  BY <1>1
<1>3. DOMAIN g = 1 .. n /\ DOMAIN Append(g, o) = 1 .. n + 1 /\ Append(g, o)[n + 1] = o
      /\ \A i \in 1 .. n : Append(g, o)[i] = g[i]
  BY <1>1, <1>2
<1>4. Dated \subseteq 1 .. n
  BY <1>1, <1>3 DEF Dated
<1>5. CASE o.opt \in {"D", "r"}
  <2>1. n + 1 \in Dated' /\ Dated' \subseteq 1 .. n + 1
    BY <1>1, <1>2, <1>3, <1>5 DEF Dated
  <2>2. Max(Dated') = n + 1
    <3>1. \A x \in Dated' : n + 1 >= x /\ (x >= n + 1 => x = n + 1)
      BY <1>2, <2>1
    <3> QED
      BY <2>1, <3>1 DEF Max
  <2> QED
    BY <1>1, <1>3, <1>5, <2>1, <2>2
<1>6. CASE o.opt \notin {"D", "r"}
  <2>1. \A i \in 1 .. n + 1 : i \in 1 .. n \/ i = n + 1
    BY <1>2
  <2>2. \A i \in 1 .. n : i \in 1 .. n + 1
    BY <1>2
  <2>3. Dated' = Dated
    BY <1>1, <1>3, <1>6, <2>1, <2>2 DEF Dated
  <2>4. Dated # {} => Max(Dated) \in Dated
    <3>1. ASSUME NEW i \in Dated PROVE \E m \in Dated : \A y \in Dated : m >= y
      <4>1. Dated \in SUBSET (0 .. n) /\ Dated # {}
        BY <1>2, <1>4, <3>1
      <4>2. PICK m \in Dated : \A y \in Dated : y <= m
        BY <1>2, <4>1, GreatestIndex
      <4>3. \A y \in Dated : m >= y
        BY <1>2, <1>4, <4>2
      <4> QED
        BY <4>3
    <3> QED
      BY <3>1 DEF Max
  <2> QED
    BY <1>1, <1>3, <1>4, <1>6, <2>3, <2>4
<1> QED
  BY <1>5, <1>6

\* An option may be the one that counts only if it was given.
LEMMA AskedType ==
    ASSUME TypeInv, AsksDate
    PROVE  /\ given[Max(Dated)] \in Options /\ AskedTime.date \in Int /\ AskedTime.sec \in TimeOfDay
<1>1. PICK g \in Seq(Options), n \in Nat : g = given /\ n = Len(g) /\ DOMAIN g = 1 .. n
  BY DEF TypeInv
<1>2. Dated \in SUBSET (0 .. n) /\ Dated # {} /\ Dated \subseteq 1 .. n
  BY <1>1 DEF Dated, AsksDate
<1>3. PICK m \in Dated : \A y \in Dated : y <= m
  BY <1>1, <1>2, GreatestIndex
<1>4. \A y \in Dated : m >= y
  BY <1>1, <1>2, <1>3
<1>5. Max(Dated) \in Dated
  BY <1>4 DEF Max
<1>6. given[Max(Dated)] \in Options
  <2>1. \A i \in 1 .. n : g[i] \in Options
    BY <1>1
  <2> QED
    BY <1>1, <1>2, <1>5, <2>1
<1> QED
  BY <1>6, LocalTimeType DEF AsksDate, AskedTime

\* Rounding writes the time only.
LEMMA RoundedEffect ==
    ASSUME NEW q, DOMAIN q = Fields, q.arrive_by \in BOOLEAN
    PROVE  /\ DOMAIN Rounded(q) = Fields /\ Rounded(q).arrive_by = q.arrive_by /\ Rounded(q).day_mask = q.day_mask
           /\ Rounded(q).time = IF q.time_rounded /\ ~q.arrive_by THEN q.time + 1 ELSE q.time
<1>1. "time" \in Fields /\ "time_rounded" \in Fields /\ "day_mask" \in Fields /\ "arrive_by" \in Fields
  BY DEF Fields, router_request_initialize
<1> QED
  BY <1>1 DEF Rounded

\* Options after the date leave it alone, and the search is begun with it.
LEMMA DateStep ==
    ASSUME TypeInv, DateInv, [RequestNext]_request_vars
    PROVE  TypeInv' /\ DateInv'
<1>1. ASSUME UNCHANGED <<now, summer>>, NEW o
      PROVE  LocalTime(o)' = LocalTime(o) /\ mktime(LocalTime(o))' = mktime(LocalTime(o))
  BY <1>1 DEF LocalTime, mktime, Summertime
<1>2. ASSUME NEW o \in Options, NextOption(o) PROVE TypeInv' /\ DateInv'
  <2>1. /\ phase = "parsing" /\ UNCHANGED <<now, summer, phase>> /\ req' \in parse_request(req, o)
        /\ given' = Append(given, o)
    BY <1>2 DEF NextOption
  <2>2. /\ DOMAIN req' = Fields /\ req'.arrive_by \in BOOLEAN
        /\ o.opt \notin {"D", "r"} =>
             req'.time = req.time /\ req'.time_rounded = req.time_rounded /\ req'.day_mask = req.day_mask
        /\ o.opt = "D" => req' = DateOption(req, o)
    BY <2>1, OptionEffect DEF TypeInv
  <2>3. TypeInv'
    BY <2>1, <2>2 DEF TypeInv
  <2>4. CASE o.opt = "D"
    <3>1. given'[Max(Dated')] = o
      BY <2>1, <2>4, DatedStep
    <3>2. AskedTime' = LocalTime(o) /\ mktime(AskedTime)' = mktime(LocalTime(o))
      BY <1>1, <2>1, <3>1 DEF AskedTime
    <3>3. "time" \in Fields /\ "time_rounded" \in Fields /\ "day_mask" \in Fields
      BY DEF Fields, router_request_initialize
    <3>4. /\ req'.time = (LocalTime(o).sec \div 4) + RTIME_ONE_DAY
          /\ req'.time_rounded = (LocalTime(o).sec % 4 # 0)
          /\ req'.day_mask = {Wrapped(DaysSinceStart(mktime(LocalTime(o))))}
      BY <2>2, <2>4, <3>3 DEF DateOption, router_request_from_epoch, TypeInv
    <3> QED
      BY <2>1, <2>3, <3>2, <3>4 DEF DateInv, DaysSinceStart, Wrapped
  <2>5. CASE o.opt = "r"
    <3>1. given'[Max(Dated')] = o
      BY <2>1, <2>5, DatedStep
    <3>2. ~AsksDate'
      BY <2>5, <3>1 DEF AsksDate
    <3> QED
      BY <2>3, <3>2 DEF DateInv
  <2>6. CASE o.opt \notin {"D", "r"}
    <3>1. Dated' = Dated /\ (Dated # {} => given'[Max(Dated)] = given[Max(Dated)])
      BY <2>1, <2>6, DatedStep
    <3>2. AsksDate' => AsksDate /\ AskedTime' = AskedTime /\ mktime(AskedTime)' = mktime(AskedTime)
      BY <1>1, <2>1, <3>1 DEF AsksDate, AskedTime
    <3> QED
      BY <2>1, <2>2, <2>3, <2>6, <3>2 DEF DateInv, DaysSinceStart, Wrapped
  <2> QED
    BY <2>4, <2>5, <2>6
<1>3. ASSUME UNCHANGED <<now, summer, given>> PROVE AsksDate' = AsksDate /\ AskedTime' = AskedTime
                                                    /\ mktime(AskedTime)' = mktime(AskedTime)
  BY <1>1, <1>3 DEF AsksDate, AskedTime, Dated
<1>4. ASSUME UNCHANGED <<now, summer, given>>, phase = "parsing", phase' = "search", NEW q, DOMAIN q = Fields,
             q.arrive_by \in BOOLEAN, req' = Rounded(q), AsksDate => q = req
      PROVE  TypeInv' /\ DateInv'
  <2>1. /\ DOMAIN req' = Fields /\ req'.arrive_by = q.arrive_by /\ req'.day_mask = q.day_mask
        /\ req'.time = IF q.time_rounded /\ ~q.arrive_by THEN q.time + 1 ELSE q.time
    BY <1>4, RoundedEffect
  <2>2. TypeInv'
    BY <1>4, <2>1 DEF TypeInv
  <2>3. ASSUME AsksDate' PROVE DateInv'
    <3>1. /\ AsksDate /\ AskedTime' = AskedTime /\ mktime(AskedTime)' = mktime(AskedTime) /\ q = req
      BY <1>3, <1>4, <2>3
    <3>2. PICK secs \in Nat : secs = AskedTime.sec
      BY <3>1, AskedType, SecType
    <3>3. /\ req.time = (secs \div 4) + RTIME_ONE_DAY /\ req.time_rounded = (secs % 4 # 0)
          /\ req.day_mask = {Wrapped(DaysSinceStart(mktime(AskedTime)))}
      BY <1>4, <3>1, <3>2 DEF DateInv
    <3>4. req'.time = (secs \div 4) + RTIME_ONE_DAY + (IF secs % 4 # 0 /\ ~req'.arrive_by THEN 1 ELSE 0)
      <4>1. (secs \div 4) + RTIME_ONE_DAY \in Int /\ RTIME_ONE_DAY \in Int
        BY DEF RTIME_ONE_DAY, SEC_IN_ONE_DAY
      <4>2. \A x \in Int : x + 0 = x
        OBVIOUS
      <4> QED
        BY <2>1, <3>1, <3>3, <4>1, <4>2
    <3> QED
      BY <1>4, <2>1, <3>1, <3>2, <3>3, <3>4 DEF DateInv, DaysSinceStart, Wrapped
  <2> QED
    BY <2>2, <2>3 DEF DateInv
<1>5. CASE EndOfQuery
  <2> DEFINE q == IF req.time = UNREACHED THEN router_request_from_epoch(req, now) ELSE req
  <2>1. UNCHANGED <<now, summer, given>> /\ phase = "parsing" /\ phase' = "search" /\ req' = Rounded(q)
    BY <1>5 DEF EndOfQuery
  <2>2. DOMAIN q = Fields /\ q.arrive_by \in BOOLEAN
    <3>1. "arrive_by" \in Fields
      BY DEF Fields, router_request_initialize
    <3> QED
      BY <3>1 DEF TypeInv, router_request_from_epoch
  <2>3. AsksDate => q = req
    <3> SUFFICES ASSUME AsksDate PROVE req.time # UNREACHED
      OBVIOUS
    <3>1. PICK secs \in Nat : secs = AskedTime.sec /\ secs < 86400
      BY AskedType, SecType
    <3>2. req.time = (secs \div 4) + RTIME_ONE_DAY
      BY <2>1, <3>1 DEF DateInv
    <3>3. (secs \div 4) + 21600 < 65535 /\ RTIME_ONE_DAY = 21600
      <4>1. (secs \div 4) + 21600 < 65535
        BY <3>1
      <4>2. 86400 \div 4 = 21600
        OBVIOUS
      <4> QED
        BY <4>1, <4>2 DEF RTIME_ONE_DAY, SEC_IN_ONE_DAY
    <3> QED
      BY <3>2, <3>3 DEF UNREACHED
  <2> HIDE DEF q
  <2> QED
    BY <1>4, <2>1, <2>2, <2>3
<1>6. CASE EndOfArguments
  <2>1. UNCHANGED <<now, summer, given>> /\ phase = "parsing"
    BY <1>6 DEF EndOfArguments
  <2>2. CASE phase' = "search" /\ req' = Rounded(req)
    BY <1>4, <2>1, <2>2 DEF TypeInv
  <2>3. CASE phase' = "usage" /\ req' = req
    BY <2>1, <2>3 DEF TypeInv, DateInv
  <2> QED
    BY <1>6, <2>2, <2>3 DEF EndOfArguments
<1>7. CASE NextRequest
  <2>1. UNCHANGED <<now, summer, req>> /\ given' = << >>
    BY <1>7 DEF NextRequest
  <2>2. Dated' = {} /\ given' \in Seq(Options)
    BY <2>1 DEF Dated
  <2> QED
    BY <2>1, <2>2 DEF TypeInv, DateInv, AsksDate
<1>8. CASE UNCHANGED request_vars
  <2>1. UNCHANGED <<now, summer, given, phase, req>>
    BY <1>8 DEF request_vars
  <2> QED
    BY <1>3, <2>1 DEF TypeInv, DateInv, DaysSinceStart, Wrapped
<1> QED
  BY <1>2, <1>5, <1>6, <1>7, <1>8 DEF RequestNext

\* The time that is searched for is a whole number of four seconds, not before the time
\* that was asked for when departing and not after it when arriving.
LEMMA RoundingOff ==
    ASSUME NEW secs \in Nat, NEW arrive_by \in BOOLEAN, NEW time,
           time = (secs \div 4) + RTIME_ONE_DAY + (IF secs % 4 # 0 /\ ~arrive_by THEN 1 ELSE 0)
    PROVE  LET off == 4 * (time - RTIME_ONE_DAY) - secs
           IN  off \in Int /\ IF arrive_by THEN off \in -3 .. 0 ELSE off \in 0 .. 3
<1>1. RTIME_ONE_DAY \in Nat
  BY DEF RTIME_ONE_DAY, SEC_IN_ONE_DAY
<1>2. PICK a \in Nat, r \in 0 .. 3 : secs = 4 * a + r /\ (secs \div 4) = a /\ (secs % 4) = r
  <2>1. (secs \div 4) \in Nat /\ (secs % 4) \in 0 .. 3 /\ secs = 4 * (secs \div 4) + (secs % 4)
    OBVIOUS
  <2> QED
    BY <2>1
<1>3. CASE r # 0 /\ ~arrive_by
  <2>1. time - RTIME_ONE_DAY = a + 1
    BY <1>1, <1>2, <1>3
  <2> QED
    BY <1>2, <1>3, <2>1
<1>4. CASE ~(r # 0 /\ ~arrive_by)
  <2>1. time - RTIME_ONE_DAY = a
    BY <1>1, <1>2, <1>4
  <2>2. 4 * a - secs = -r
    BY <1>2
  <2> QED
    BY <1>2, <1>4, <2>1, <2>2
<1> QED
  BY <1>3, <1>4

\* Whatever the order of the options and the number of them, whatever memory a request is
\* parsed into and whichever requests came before, the search is for the time, the weekday
\* and, within the calendar, the date that the last date option asked for, and the answer
\* gives that moment back (parse.c:250-265, router.c:1036-1056, 1203-1212, util.c:72-109).
\* Not so for a date before the calendar or a time in the first hour of a summer day, which
\* AskedTimeKept leaves out (Ordinary; router.c:1046-1050), and only for time zones east of
\* Greenwich (RequestAssumption).
THEOREM SearchForAskedTime == RequestSpec => []AskedTimeKept
<1>1. RequestInit => TypeInv /\ DateInv
  <2> SUFFICES ASSUME RequestInit PROVE TypeInv /\ DateInv
    OBVIOUS
  <2>1. DOMAIN router_request_initialize = Fields /\ router_request_initialize.arrive_by \in BOOLEAN
    BY DEF Fields, router_request_initialize
  <2>2. DOMAIN req = Fields /\ req.arrive_by \in BOOLEAN
    BY <2>1, RequestAssumption DEF RequestInit, Fields
  <2>3. Dated = {} /\ given \in Seq(Options)
    BY DEF RequestInit, Dated
  <2> QED
    BY <2>2, <2>3 DEF RequestInit, TypeInv, DateInv, AsksDate
<1>2. TypeInv /\ DateInv /\ [RequestNext]_request_vars => TypeInv' /\ DateInv'
  BY DateStep
<1>3. TypeInv /\ DateInv => AskedTimeKept
  <2> DEFINE t == AskedTime
             off == 4 * (req.time - RTIME_ONE_DAY) - t.sec
  <2> SUFFICES ASSUME TypeInv, DateInv, phase = "search", AsksDate, Ordinary(t)
               PROVE  /\ IF req.arrive_by THEN off \in -3 .. 0 ELSE off \in 0 .. 3
                      /\ cal_day(req) \in 0 .. 31 /\ cal_day(req) % 7 = t.date % 7
                      /\ t.date \in 0 .. 31 => /\ req.day_mask = {t.date}
                                               /\ req_to_epoch(req) = mktime(t) + off
    BY DEF AskedTimeKept, AsksDate
  <2>1. t.date \in Nat /\ t.sec \in TimeOfDay /\ t.sec \in Nat
    BY AskedType, SecType DEF Ordinary
  <2>2. off \in Int /\ IF req.arrive_by THEN off \in -3 .. 0 ELSE off \in 0 .. 3
    BY <2>1, RoundingOff DEF DateInv, TypeInv
  <2>3. req.day_mask = {Wrapped(t.date)}
    BY <2>1, DayOfDate DEF DateInv
  <2>4. cal_day(req) = Wrapped(t.date)
    <3>1. \A x \in Nat : Max({x}) = x
      BY DEF Max
    <3>2. Wrapped(t.date) \in Nat
      BY <2>1, WrapKeepsWeekday
    <3> QED
      BY <2>3, <3>1, <3>2 DEF cal_day
  <2>5. cal_day(req) \in 0 .. 31 /\ cal_day(req) % 7 = t.date % 7
    BY <2>1, <2>4, WrapKeepsWeekday
  <2>6. ASSUME t.date \in 0 .. 31
        PROVE  req.day_mask = {t.date} /\ req_to_epoch(req) = mktime(t) + off
    <3>1. Wrapped(t.date) = t.date /\ t.date <= 31
      BY <2>1, <2>6, WrapKeepsWeekday
    <3>2. t.date \in dst_active <=> Summertime(t)
      BY <2>1, <3>1, SummerOfDay
    <3>3. req_to_epoch(req) = t.date * SEC_IN_ONE_DAY - (IF Summertime(t) THEN 3600 ELSE 0) + 4 * (req.time - RTIME_ONE_DAY)
      BY <2>4, <3>1, <3>2 DEF req_to_epoch, req_to_date
    <3>4. mktime(t) = t.date * SEC_IN_ONE_DAY + t.sec - (IF Summertime(t) THEN 3600 ELSE 0)
      BY DEF mktime
    <3>5. PICK day \in Int, sec \in Int, dst \in Int, time \in Int :
             /\ day = t.date * SEC_IN_ONE_DAY /\ sec = t.sec /\ dst = (IF Summertime(t) THEN 3600 ELSE 0)
             /\ time = 4 * (req.time - RTIME_ONE_DAY)
      <4>1. t.date * SEC_IN_ONE_DAY \in Int /\ (IF Summertime(t) THEN 3600 ELSE 0) \in Int
        BY <2>1, SecType
      <4>2. PICK x \in Int : x = req.time - RTIME_ONE_DAY
        <5>1. (t.sec \div 4) \in Int /\ RTIME_ONE_DAY \in Int
          BY <2>1 DEF RTIME_ONE_DAY, SEC_IN_ONE_DAY
        <5>2. req.time \in Int
          BY <5>1 DEF DateInv
        <5> QED
          BY <5>1, <5>2
      <4>3. 4 * (req.time - RTIME_ONE_DAY) \in Int
        BY <4>2
      <4> QED
        BY <2>1, <4>1, <4>3
    <3>6. req_to_epoch(req) = day - dst + time /\ mktime(t) + off = (day + sec - dst) + (time - sec)
      BY <3>3, <3>4, <3>5
    <3>7. day - dst + time = (day + sec - dst) + (time - sec)
      OBVIOUS
    <3> QED
      BY <2>3, <3>1, <3>6, <3>7
  <2> QED
    BY <2>2, <2>5, <2>6
<1> QED
  BY <1>1, <1>2, <1>3, PTL DEF RequestSpec

--------------------------------------------------------------------------------
(***************************************************************************)
(* The text of a plan.                                                     *)
(***************************************************************************)
\* A state of the writer within the buffer.
InBuffer(w) == DOMAIN w = {"text", "room", "in_list", "overflowed"} /\ w.room \in 0 .. buflen - 1

\* A token that fits.
LEMMA PutFits ==
    ASSUME buflen \in Nat, NEW w, InBuffer(w), NEW token, NEW n \in Nat, n <= w.room
    PROVE  InBuffer(Put(w, token, n))
BY DEF InBuffer, Put

\* One character, or an overflow (json.c:27).
LEMMA CheckFits ==
    ASSUME buflen \in Nat, NEW w, InBuffer(w), NEW c
    PROVE  InBuffer(check(w, c))
<1>1. CASE w.room = 0
  BY <1>1 DEF InBuffer, check
<1>2. CASE w.room # 0
  <2>1. 1 \in Nat /\ 1 <= w.room
    BY <1>2 DEF InBuffer
  <2> QED
    BY <1>2, <2>1, PutFits DEF check
<1> QED
  BY <1>1, <1>2

\* A number is printed only after room for the longest one was found (json.c:20).
LEMMA PrintFits ==
    ASSUME buflen \in Nat, NEW w, InBuffer(w), NEW reserved \in Nat, NEW token, NEW n \in 0 .. reserved
    PROVE  InBuffer(print(w, reserved, token, n))
<1>1. CASE reserved < w.room
  <2>1. n \in Nat /\ n <= w.room
    BY <1>1 DEF InBuffer
  <2> QED
    BY <1>1, <2>1, PutFits DEF print
<1>2. CASE ~(reserved < w.room)
  BY <1>2 DEF InBuffer, print
<1> QED
  BY <1>1, <1>2

\* A string, or null for none (json.c:36).
LEMMA StringFits ==
    ASSUME buflen \in Nat, NEW w, InBuffer(w), NEW v, NEW n \in Nat
    PROVE  InBuffer(string(w, v, n))
<1>1. CASE v = Null
  <2>1. InBuffer(print(w, 4, [t |-> "value", v |-> Null], 4))
    BY PrintFits
  <2> QED
    BY <1>1, <2>1 DEF string
<1>2. CASE v # Null /\ n + 2 <= w.room
  <2>1. InBuffer(Put(w, [t |-> "string", v |-> v], n + 2))
    BY <1>2, PutFits
  <2> QED
    BY <1>2, <2>1 DEF string
<1>3. CASE v # Null /\ ~(n + 2 <= w.room) /\ w.room = 0
  BY <1>3 DEF InBuffer, string
<1>4. CASE v # Null /\ ~(n + 2 <= w.room) /\ w.room # 0
  <2> DEFINE cut == Put(w, [t |-> "cut", v |-> v], w.room)
  <2>1. w.room \in Nat /\ w.room <= w.room
    BY DEF InBuffer
  <2>2. InBuffer(cut)
    BY <2>1, PutFits
  <2>3. string(w, v, n) = [cut EXCEPT !.overflowed = TRUE]
    BY <1>4 DEF string
  <2> HIDE DEF cut
  <2> QED
    BY <2>2, <2>3 DEF InBuffer
<1> QED
  BY <1>1, <1>2, <1>3, <1>4

\* A comma, or none before the first of a list.
LEMMA CommaFits ==
    ASSUME buflen \in Nat, NEW w, InBuffer(w)
    PROVE  InBuffer(comma(w))
BY CheckFits DEF comma

\* A key with its colon.
LEMMA KeyFits ==
    ASSUME buflen \in Nat, NEW w, InBuffer(w), NEW k
    PROVE  InBuffer(ekey(w, k))
<1> DEFINE named == check(string(comma(w), <<k>>, KeySize), ":")
<1>1. InBuffer(named)
  BY CommaFits, StringFits, CheckFits, JsonAssumption
<1>2. ekey(w, k) = [named EXCEPT !.in_list = TRUE]
  BY DEF ekey
<1> HIDE DEF named
<1> QED
  BY <1>1, <1>2 DEF InBuffer

\* The ends of objects and arrays.
LEMMA BracketFits ==
    ASSUME buflen \in Nat, NEW w, InBuffer(w), NEW c
    PROVE  InBuffer(Begin(w, c)) /\ InBuffer(End(w, c))
<1> DEFINE x == check(w, c)
<1>1. InBuffer(x)
  BY CheckFits
<1>2. Begin(w, c) = [x EXCEPT !.in_list = FALSE] /\ End(w, c) = [x EXCEPT !.in_list = TRUE]
  BY DEF Begin, End
<1> HIDE DEF x
<1> QED
  BY <1>1, <1>2 DEF InBuffer

\* Whatever is rendered, of however many itineraries and stops, into a buffer of any size,
\* the writer stays within the buffer and leaves a byte for the end of the text, although it
\* goes on after an overflow (json.c:22-66, 76-147).
THEOREM TextInBuffer == JsonSpec => []TextFits
<1> DEFINE Inv == buflen \in Nat \ {0} /\ room \in 0 .. buflen - 1
<1>1. JsonInit => Inv
  BY JsonAssumption DEF JsonInit
<1>2. Inv /\ [JsonNext]_json_vars => Inv'
  <2> SUFFICES ASSUME Inv, [JsonNext]_json_vars PROVE Inv'
    OBVIOUS
  <2>1. InBuffer(Writer)
    BY DEF InBuffer, Writer
  <2>2. ASSUME NEW op, NEW w, InBuffer(w), Do(op, w) PROVE Inv'
    BY <2>2 DEF Do, InBuffer
  <2>3. CASE json_kv
    <3>1. InBuffer(string(ekey(Writer, key), val, TextSize))
      BY <2>1, KeyFits, StringFits, JsonAssumption
    <3> QED
      BY <2>2, <2>3, <3>1 DEF json_kv
  <2>4. ASSUME NEW op \in DOMAIN Reserved, json_number(op) PROVE Inv'
    <3>1. Reserved[op] \in Nat /\ NumberSize[op] \in 0 .. Reserved[op]
      BY JsonAssumption DEF Reserved
    <3>2. InBuffer(print(ekey(Writer, key), Reserved[op], [t |-> "value", v |-> val], NumberSize[op]))
      BY <2>1, <3>1, KeyFits, PrintFits
    <3> QED
      BY <2>2, <2>4, <3>2 DEF json_number
  <2>5. CASE json_key_obj
    <3>1. InBuffer(Begin(IF key # "" THEN ekey(Writer, key) ELSE comma(Writer), "{"))
      BY <2>1, KeyFits, CommaFits, BracketFits
    <3> QED
      BY <2>2, <2>5, <3>1 DEF json_key_obj
  <2>6. CASE json_key_arr
    <3>1. InBuffer(Begin(ekey(Writer, key), "["))
      BY <2>1, KeyFits, BracketFits
    <3> QED
      BY <2>2, <2>6, <3>1 DEF json_key_arr
  <2>7. CASE json_obj
    <3>1. InBuffer(Begin(comma(Writer), "{"))
      BY <2>1, CommaFits, BracketFits
    <3> QED
      BY <2>2, <2>7, <3>1 DEF json_obj
  <2>8. CASE json_end_obj \/ json_end_arr
    <3>1. InBuffer(End(Writer, "}")) /\ InBuffer(End(Writer, "]"))
      BY <2>1, BracketFits
    <3> QED
      BY <2>2, <2>8, <3>1 DEF json_end_obj, json_end_arr
  <2>9. CASE UNCHANGED json_vars
    BY <2>9 DEF json_vars
  <2> QED
    BY <2>3, <2>4, <2>5, <2>6, <2>7, <2>8, <2>9 DEF JsonNext
<1>3. Inv => TextFits
  BY DEF TextFits
<1> QED
  BY <1>1, <1>2, <1>3, PTL DEF JsonSpec

--------------------------------------------------------------------------------
(***************************************************************************)
(* Numbers of a line: what is written as chunks is read from them.         *)
(***************************************************************************)
Binaries == 0 .. 32 * WEIGHT[6] - 1

\* Each chunk weighs 32 times the one before it.
LEMMA WeightStep ==
    /\ \A i \in 1 .. 6 : WEIGHT[i] \in Nat \ {0}
    /\ \A i \in 1 .. 5 : WEIGHT[i + 1] = 32 * WEIGHT[i]
    /\ WEIGHT[1] = 1
<1>1. /\ WEIGHT[1] = 1 /\ WEIGHT[2] = 32 /\ WEIGHT[3] = 1024 /\ WEIGHT[4] = 32768
      /\ WEIGHT[5] = 1048576 /\ WEIGHT[6] = 33554432
  BY DEF WEIGHT
<1>2. \A i \in 1 .. 6 : i = 1 \/ i = 2 \/ i = 3 \/ i = 4 \/ i = 5 \/ i = 6
  OBVIOUS
<1>3. \A i \in 1 .. 5 : i = 1 \/ i = 2 \/ i = 3 \/ i = 4 \/ i = 5
  OBVIOUS
<1> QED
  BY <1>1, <1>2, <1>3

\* A chunk more of a number in base 32.
LEMMA ChunkMore ==
    ASSUME NEW b \in Nat, NEW w \in Nat \ {0}
    PROVE  /\ b % (32 * w) = (b % w) + ((b \div w) % 32) * w
           /\ (b \div w) % 32 \in 0 .. 31 /\ (b % w) \in Nat /\ (b \div w) \in Nat
<1>1. PICK q \in Nat, r \in Nat : q = b \div w /\ r = b % w /\ b = w * q + r /\ r < w
  <2>1. b \div w \in Nat /\ b % w \in Nat /\ b = w * (b \div w) + (b % w) /\ b % w < w
    OBVIOUS
  <2> QED
    BY <2>1
<1>2. PICK p \in Nat, u \in 0 .. 31 : p = q \div 32 /\ u = q % 32 /\ q = 32 * p + u
  <2>1. \A x \in Nat : (x \div 32) \in Nat /\ (x % 32) \in 0 .. 31 /\ x = 32 * (x \div 32) + (x % 32)
    OBVIOUS
  <2> QED
    BY <2>1
<1>3. PICK W \in Nat, R \in Nat : W = 32 * w /\ R = r + u * w /\ W > 0
  <2>1. u * w \in Nat
    BY <1>2
  <2> QED
    BY <1>1, <2>1
<1>4. R < W
  <2>1. u * w <= 31 * w
    BY <1>2
  <2> QED
    BY <1>1, <1>2, <1>3, <2>1
<1>5. b = W * p + R
  <2>1. \A x, y, z \in Nat : x * (32 * y + z) = (32 * x) * y + z * x
    OBVIOUS
  <2>2. w * q = (32 * w) * p + u * w
    <3>1. u \in Nat
      BY <1>2
    <3> QED
      BY <1>2, <2>1, <3>1
  <2>3. (32 * w) * p \in Int /\ u * w \in Int
    BY <1>2
  <2>4. PICK A \in Int, B \in Int : A = (32 * w) * p /\ B = u * w
    BY <2>3
  <2>5. b = (A + B) + r /\ W * p + R = A + (r + B)
    BY <1>1, <1>3, <2>2, <2>4
  <2> QED
    BY <1>1, <2>4, <2>5
<1>6. b % W = R
  BY <1>3, <1>4, <1>5
<1> QED
  BY <1>1, <1>2, <1>3, <1>6

\* A number of which the higher chunks are zero is less than their weight.
LEMMA HighZero ==
    ASSUME NEW b \in Binaries, NEW n \in 1 .. 6, \A j \in 1 .. 6 : j > n => (b \div WEIGHT[j]) % 32 = 0
    PROVE  b < 32 * WEIGHT[n]
<1> DEFINE S == {k \in 0 .. 6 : k >= n => (k = 0 \/ b < 32 * WEIGHT[k])}
<1>1. 6 \in S
  BY WeightStep DEF Binaries
<1>2. ASSUME NEW k \in 0 .. 6, k < 6, k + 1 \in S PROVE k \in S
  <2> SUFFICES ASSUME k >= n PROVE b < 32 * WEIGHT[k]
    OBVIOUS
  <2>1. PICK w \in Nat \ {0} : w = WEIGHT[k + 1] /\ b < 32 * w /\ w = 32 * WEIGHT[k] /\ (b \div w) % 32 = 0
    BY <1>2, WeightStep
  <2>2. b % (32 * w) = b % w
    <3>1. b \in Nat
      BY WeightStep DEF Binaries
    <3>2. b % (32 * w) = (b % w) + 0 * w /\ (b % w) \in Nat
      BY <2>1, <3>1, ChunkMore
    <3> QED
      BY <3>2
  <2>3. b % (32 * w) = b
    <3>1. PICK W \in Nat : W = 32 * w /\ b < W
      BY <2>1
    <3>2. b % W = b
      BY <3>1 DEF Binaries
    <3> QED
      BY <3>1, <3>2
  <2>4. b % w < w
    BY <2>1 DEF Binaries
  <2> QED
    BY <2>1, <2>2, <2>3, <2>4
<1>3. n \in S
  <2> HIDE DEF S
  <2>1. \A k \in 0 .. 6 : k \in S
    BY <1>1, <1>2, IndexInductionDown
  <2> QED
    BY <2>1
<1> QED
  BY <1>3

\* The number as it is shifted, in as many bits as six chunks have.
LEMMA BinaryType ==
    ASSUME NEW c \in Int
    PROVE  Binary(c) \in Binaries /\ Binary(c) \in Nat /\ Truncated(c) \in Int
<1>1. Truncated(c) \in Int
  BY PolylineAssumption DEF Truncated
<1>2. PICK W \in Nat \ {0} : W = 32 * WEIGHT[6]
  BY WeightStep
<1>3. PICK x \in Int : Binary(c) = x % W
  <2>1. (IF c < 0 THEN -2 * Truncated(c) - 1 ELSE 2 * Truncated(c)) \in Int
    BY <1>1
  <2> QED
    BY <1>2, <2>1 DEF Binary
<1>4. \A y \in Int : y % W \in 0 .. W - 1
  OBVIOUS
<1> QED
  BY <1>1, <1>2, <1>3, <1>4 DEF Binaries

\* A chunk has five bits.
LEMMA ChunkType == ASSUME NEW c \in Int, NEW i \in 1 .. 6 PROVE Chunk(c, i) \in 0 .. 31
<1>1. PICK b \in Nat, w \in Nat \ {0} : b = Binary(c) /\ w = WEIGHT[i]
  <2>1. Binary(c) \in Nat
    BY BinaryType
  <2> QED
    BY <2>1, WeightStep
<1> QED
  BY <1>1, ChunkMore DEF Chunk

\* Behind the last chunk there are only zeros.
LEMMA LastChunk ==
    ASSUME NEW c \in Int
    PROVE  last_chunk(c) \in 1 .. 6 /\ \A j \in 1 .. 6 : j > last_chunk(c) => Chunk(c, j) = 0
<1> DEFINE nonzero == {i \in 1 .. 6 : Chunk(c, i) # 0}
<1>1. CASE nonzero = {}
  <2>1. last_chunk(c) = 1
    BY <1>1 DEF last_chunk
  <2> QED
    BY <1>1, <2>1
<1>2. CASE nonzero # {}
  <2>1. \E m \in nonzero : \A j \in nonzero : j <= m
    <3>1. nonzero \in SUBSET (0 .. 6)
      OBVIOUS
    <3> HIDE DEF nonzero
    <3> QED
      BY <1>2, <3>1, GreatestIndex
  <2>2. last_chunk(c) = CHOOSE m \in nonzero : \A j \in nonzero : j <= m
    BY <1>2 DEF last_chunk
  <2>3. last_chunk(c) \in nonzero /\ \A j \in nonzero : j <= last_chunk(c)
    <3> HIDE DEF nonzero
    <3> QED
      BY <2>1, <2>2
  <2> QED
    BY <2>3
<1> QED
  BY <1>1, <1>2

Chars == 0 .. 63

\* What is written of a number.
LEMMA EncodedType ==
    ASSUME NEW c \in Int
    PROVE  /\ encode_double(c) \in Seq(Chars) /\ Len(encode_double(c)) = last_chunk(c)
           /\ \A i \in 1 .. last_chunk(c) :
                 encode_double(c)[i] = Chunk(c, i) + (IF i < last_chunk(c) THEN 32 ELSE 0)
<1>1. PICK n \in 1 .. 6 : n = last_chunk(c)
  BY LastChunk
<1>2. \A i \in 1 .. n : Chunk(c, i) + (IF i < n THEN 32 ELSE 0) \in Chars
  BY ChunkType DEF Chars
<1>3. encode_double(c) = [i \in 1 .. n |-> Chunk(c, i) + (IF i < n THEN 32 ELSE 0)]
  BY <1>1 DEF encode_double
<1>4. encode_double(c) \in [1 .. n -> Chars]
  BY <1>2, <1>3
<1> QED
  BY <1>1, <1>3, <1>4

(***************************************************************************)
(* Reading.                                                                *)
(***************************************************************************)
Places == [lat : Int, lon : Int]
DecodeState == [number : Nat, weight : Nat, axis : {"lat", "lon"}, at : Places, points : Seq(Places)]

\* A number is read with its sign.
LEMMA SignedType == ASSUME NEW n \in Nat PROVE Signed(n) \in Int
BY DEF Signed

\* Decoders are built from their parts, ...
LEMMA DecoderType ==
    ASSUME NEW number \in Nat, NEW weight \in Nat, NEW axis \in {"lat", "lon"}, NEW at \in Places,
           NEW points \in Seq(Places)
    PROVE  Decoder(number, weight, axis, at, points) \in DecodeState
BY DEF Decoder, DecodeState

\* ... have those parts, ...
LEMMA DecoderParts ==
    ASSUME NEW d \in DecodeState
    PROVE  /\ d.number \in Nat /\ d.weight \in Nat /\ d.axis \in {"lat", "lon"} /\ d.at \in Places
           /\ d.points \in Seq(Places) /\ d = Decoder(d.number, d.weight, d.axis, d.at, d.points)
BY DEF Decoder, DecodeState

\* ... and keep them apart.
LEMMA DecoderFields ==
    ASSUME NEW number, NEW weight, NEW axis, NEW at, NEW points
    PROVE  LET d == Decoder(number, weight, axis, at, points)
           IN  d.number = number /\ d.weight = weight /\ d.axis = axis /\ d.at = at /\ d.points = points
BY DEF Decoder

\* A place moves to a place.
LEMMA MovedType ==
    ASSUME NEW at \in Places, NEW axis, NEW v \in Int
    PROVE  Moved(at, axis, v) \in Places
BY DEF Moved, Places

\* Any character is read.
LEMMA CharType ==
    ASSUME NEW d \in DecodeState, NEW x \in Nat
    PROVE  DecodeChar(d, x) \in DecodeState
<1> DEFINE n == d.number + (x % 32) * d.weight
           at == Moved(d.at, d.axis, Signed(n))
<1>1. /\ d.number \in Nat /\ d.weight \in Nat /\ d.at \in Places /\ d.points \in Seq(Places)
      /\ d.axis \in {"lat", "lon"}
  BY DecoderParts
<1>2. n \in Nat
  <2>1. (x % 32) \in Nat
    OBVIOUS
  <2>2. \A y, z \in Nat : y * z \in Nat
    OBVIOUS
  <2>3. (x % 32) * d.weight \in Nat
    BY <1>1, <2>1, <2>2
  <2> QED
    BY <1>1, <2>3
<1>3. at \in Places
  BY <1>1, <1>2, SignedType, MovedType
<1>4. DecodeChar(d, x) = IF x >= 32 THEN Decoder(n, 32 * d.weight, d.axis, d.at, d.points)
                         ELSE IF d.axis = "lat" THEN Decoder(0, 1, "lon", at, d.points)
                         ELSE Decoder(0, 1, "lat", at, Append(d.points, at))
  BY DEF DecodeChar
<1> HIDE DEF n, at
<1>5. 32 * d.weight \in Nat /\ Append(d.points, at) \in Seq(Places)
  BY <1>1, <1>3
<1>6. CASE x >= 32
  BY <1>1, <1>2, <1>4, <1>5, <1>6, DecoderType
<1>7. CASE ~(x >= 32) /\ d.axis = "lat"
  <2>1. Decoder(0, 1, "lon", at, d.points) \in DecodeState
    BY <1>1, <1>3, DecoderType
  <2> QED
    BY <1>4, <1>7, <2>1
<1>8. CASE ~(x >= 32) /\ d.axis # "lat"
  <2>1. Decoder(0, 1, "lat", at, Append(d.points, at)) \in DecodeState
    BY <1>3, <1>5, DecoderType
  <2> QED
    BY <1>4, <1>8, <2>1
<1> QED
  BY <1>6, <1>7, <1>8

\* Decoding(chars)[i] is what has been read from the first i characters.
LEMMA DecodingLoop ==
    ASSUME NEW chars \in Seq(Chars)
    PROVE  /\ Decoding(chars)[0] = Undecoded
           /\ \A i \in 0 .. Len(chars) : Decoding(chars)[i] \in DecodeState
           /\ \A i \in 1 .. Len(chars) : Decoding(chars)[i] = DecodeChar(Decoding(chars)[i - 1], chars[i])
<1> DEFINE n == Len(chars)
           X == DecodeState
           step == [p \in (1 .. n) \X X |-> DecodeChar(p[2], chars[p[1]])]
           IsFirst(g) == g = [i \in 0 .. n |-> IF i = 0 THEN Undecoded ELSE DecodeChar(g[i - 1], chars[i])]
<1>1. n \in Nat /\ DOMAIN chars = 1 .. n /\ \A i \in 1 .. n : chars[i] \in Nat
  <2>1. \A i \in 1 .. n : chars[i] \in Chars
    OBVIOUS
  <2>2. n \in Nat /\ DOMAIN chars = 1 .. n
    OBVIOUS
  <2>3. \A x \in Chars : x \in Nat
    BY DEF Chars
  <2> QED
    BY <2>1, <2>2, <2>3
<1>2. Undecoded \in X
  <2>1. << >> \in Seq(Places) /\ [lat |-> 0, lon |-> 0] \in Places
    BY DEF Places
  <2> QED
    BY <2>1, DecoderType DEF Undecoded
<1>3. step \in [(1 .. n) \X X -> X]
  <2>1. \A p \in (1 .. n) \X X : DecodeChar(p[2], chars[p[1]]) \in X
    <3>1. ASSUME NEW i \in 1 .. n, NEW x \in X PROVE DecodeChar(x, chars[i]) \in X
      BY <1>1, CharType
    <3> HIDE DEF X, n
    <3> QED
      BY <3>1
  <2> HIDE DEF X, n
  <2> QED
    BY <2>1
<1>4. PICK f : IsLoop(f, X, n, Undecoded, step)
  <2> HIDE DEF step, n, X
  <2> QED
    BY <1>1, <1>2, <1>3, LoopExists
<1>5. f \in [0 .. n -> X] /\ f[0] = Undecoded
  BY <1>4 DEF IsLoop
<1>6. ASSUME NEW i \in 1 .. n PROVE f[i] = DecodeChar(f[i - 1], chars[i])
  <2>1. i - 1 \in 0 .. n /\ f[i - 1] \in X
    BY <1>1, <1>5
  <2>2. step[<<i, f[i - 1]>>] = DecodeChar(f[i - 1], chars[i])
    BY <2>1
  <2> HIDE DEF step
  <2> QED
    BY <1>4, <2>2 DEF IsLoop
<1>7. IsFirst(f)
  <2> DEFINE h == [i \in 0 .. n |-> IF i = 0 THEN Undecoded ELSE DecodeChar(f[i - 1], chars[i])]
  <2>1. ASSUME NEW i \in 0 .. n PROVE f[i] = h[i]
    BY <1>1, <1>5, <1>6
  <2> QED
    BY <1>5, <2>1
<1>8. PICK g : IsFirst(g) /\ g = Decoding(chars)
  <2> DEFINE g == CHOOSE g : IsFirst(g)
  <2>1. IsFirst(g)
    BY <1>7
  <2>2. g = Decoding(chars)
    BY DEF Decoding
  <2> QED
    BY <2>1, <2>2
<1>9. g[0] = Undecoded /\ \A i \in 1 .. n : g[i] = DecodeChar(g[i - 1], chars[i])
  BY <1>1, <1>8
<1>10. \A i \in 0 .. n : g[i] \in X
  <2> DEFINE S == {i \in 0 .. n : g[i] \in X}
  <2>1. 0 \in S
    BY <1>1, <1>2, <1>9
  <2>2. ASSUME NEW i \in 0 .. n, i < n, i \in S PROVE i + 1 \in S
    <3>1. PICK j \in 1 .. n : j = i + 1 /\ j - 1 = i
      BY <1>1, <2>2
    <3>2. g[j] = DecodeChar(g[i], chars[j])
      BY <1>9, <3>1
    <3> QED
      BY <1>1, <2>2, <3>1, <3>2, CharType
  <2> HIDE DEF S
  <2>3. \A i \in 0 .. n : i \in S
    BY <1>1, <2>1, <2>2, IndexInduction
  <2> QED
    BY <2>3 DEF S
<1> QED
  BY <1>1, <1>8, <1>9, <1>10

\* What has been read is not changed by what follows.
LEMMA DecodingPrefix ==
    ASSUME NEW chars \in Seq(Chars), NEW more \in Seq(Chars)
    PROVE  \A i \in 0 .. Len(chars) : Decoding(chars \o more)[i] = Decoding(chars)[i]
<1> DEFINE n == Len(chars)
           all == chars \o more
           S == {i \in 0 .. n : Decoding(all)[i] = Decoding(chars)[i]}
<1>1. /\ n \in Nat /\ all \in Seq(Chars) /\ Len(all) >= n /\ Len(all) \in Nat
      /\ \A i \in 1 .. n : all[i] = chars[i]
  OBVIOUS
<1> HIDE DEF all
<1>2. 0 \in S
  BY <1>1, DecodingLoop
<1>3. ASSUME NEW i \in 0 .. n, i < n, i \in S PROVE i + 1 \in S
  <2>1. PICK j \in 1 .. n : j = i + 1 /\ j - 1 = i /\ j \in 1 .. Len(all)
    BY <1>1, <1>3
  <2>2. Decoding(all)[j] = DecodeChar(Decoding(all)[i], all[j])
    BY <1>1, <2>1, DecodingLoop
  <2>3. Decoding(chars)[j] = DecodeChar(Decoding(chars)[i], chars[j])
    BY <2>1, DecodingLoop
  <2> QED
    BY <1>1, <1>3, <2>1, <2>2, <2>3
<1> HIDE DEF S
<1>4. \A i \in 0 .. n : i \in S
  BY <1>1, <1>2, <1>3, IndexInduction
<1> QED
  BY <1>4 DEF S, all

\* After one more number.
NumberRead(d, v) ==
    LET at == Moved(d.at, d.axis, v)
    IN  IF d.axis = "lat" THEN Decoder(0, 1, "lon", at, d.points)
        ELSE Decoder(0, 1, "lat", at, Append(d.points, at))

\* From the characters of a number that number is read.
LEMMA NumberIsRead ==
    ASSUME NEW chars \in Seq(Chars), NEW c \in Int, NEW d \in DecodeState,
           d = Decoding(chars)[Len(chars)], d.number = 0, d.weight = 1
    PROVE  Decoding(chars \o encode_double(c))[Len(chars \o encode_double(c))] = NumberRead(d, Signed(Binary(c)))
<1> DEFINE e == encode_double(c)
           all == chars \o e
           m == Len(chars)
           b == Binary(c)
           Partly(j) == Decoder(b % WEIGHT[j + 1], WEIGHT[j + 1], d.axis, d.at, d.points)
<1>1. PICK n \in 1 .. 6 : n = last_chunk(c)
  BY LastChunk
<1>2. /\ e \in Seq(Chars) /\ Len(e) = n /\ m \in Nat
      /\ \A i \in 1 .. n : e[i] = Chunk(c, i) + (IF i < n THEN 32 ELSE 0)
  <2>1. m \in Nat
    OBVIOUS
  <2> QED
    BY <1>1, <2>1, EncodedType
<1>3. all \in Seq(Chars) /\ Len(all) = m + n /\ \A i \in 1 .. n : all[m + i] = e[i]
  BY <1>2
<1>4. b \in Nat /\ b \in Binaries
  BY BinaryType
<1> HIDE DEF e, all, m, b
<1>5. ASSUME NEW i \in 1 .. n
      PROVE  Decoding(all)[m + i] = DecodeChar(Decoding(all)[m + (i - 1)], e[i])
  <2>1. PICK k \in 1 .. Len(all) : k = m + i /\ k - 1 = m + (i - 1) /\ all[k] = e[i]
    BY <1>2, <1>3
  <2>2. \A j \in 1 .. Len(all) : Decoding(all)[j] = DecodeChar(Decoding(all)[j - 1], all[j])
    BY <1>3, DecodingLoop
  <2>3. Decoding(all)[k] = DecodeChar(Decoding(all)[k - 1], all[k])
    BY <2>2
  <2> QED
    BY <2>1, <2>3
<1>6. /\ \A i \in 1 .. 6 : Chunk(c, i) \in 0 .. 31 /\ WEIGHT[i] \in Nat \ {0}
      /\ \A i \in 1 .. 6 : Chunk(c, i) = (b \div WEIGHT[i]) % 32
  BY ChunkType, WeightStep DEF Chunk, b
<1>7. ASSUME NEW i \in 1 .. 6
       PROVE  (b % WEIGHT[i]) + Chunk(c, i) * WEIGHT[i] = b % (32 * WEIGHT[i])
  <2>1. PICK w \in Nat \ {0} : w = WEIGHT[i] /\ Chunk(c, i) = (b \div w) % 32
    BY <1>6
  <2>2. b % (32 * w) = (b % w) + ((b \div w) % 32) * w
    BY <1>4, ChunkMore
  <2> QED
    BY <2>1, <2>2
<1> DEFINE S == {j \in 0 .. n - 1 : Decoding(all)[m + j] = Partly(j)}
<1>8. 0 \in S
  <2>1. Decoding(all)[m] = d
    BY <1>2, DecodingPrefix DEF all, m, e
  <2>2. b % WEIGHT[1] = 0 /\ WEIGHT[1] = 1
    BY <1>4, WeightStep
  <2>3. Partly(0) = Decoder(b % WEIGHT[1], WEIGHT[1], d.axis, d.at, d.points)
    OBVIOUS
  <2>4. Partly(0) = d
    BY <2>2, <2>3, DecoderParts
  <2>5. m + 0 = m /\ 0 \in 0 .. n - 1
    BY <1>2
  <2> QED
    BY <2>1, <2>4, <2>5
<1>9. ASSUME NEW j \in 0 .. n - 1, j < n - 1, j \in S PROVE j + 1 \in S
  <2>1. PICK i \in 1 .. n - 1 : i = j + 1 /\ i < n /\ i \in 1 .. 5 /\ i \in 1 .. 6 /\ i - 1 = j /\ i \in 0 .. n - 1 /\ i \in 1 .. n
    BY <1>2, <1>9
  <2> DEFINE x == Chunk(c, i) + 32
  <2>2. x >= 32 /\ x % 32 = Chunk(c, i)
    <3>1. \A y \in 0 .. 31 : y + 32 >= 32 /\ (y + 32) % 32 = y
      OBVIOUS
    <3> QED
      BY <1>6, <2>1, <3>1
  <2>3. Decoding(all)[m + i] = DecodeChar(Partly(j), x)
    <3>1. Decoding(all)[m + (i - 1)] = Partly(j)
      BY <1>9, <2>1
    <3>2. e[i] = x
      BY <1>2, <2>1
    <3>3. Decoding(all)[m + i] = DecodeChar(Decoding(all)[m + (i - 1)], e[i])
      BY <1>5, <2>1
    <3> HIDE DEF Partly, x
    <3> QED
      BY <3>1, <3>2, <3>3
  <2>4. Partly(j) = Decoder(b % WEIGHT[i], WEIGHT[i], d.axis, d.at, d.points)
    BY <2>1
  <2>5. DecodeChar(Partly(j), x) =
           Decoder((b % WEIGHT[i]) + Chunk(c, i) * WEIGHT[i], 32 * WEIGHT[i], d.axis, d.at, d.points)
    <3> HIDE DEF Partly, x
    <3> QED
      BY <2>2, <2>4, DecoderFields DEF DecodeChar
  <2>6. 32 * WEIGHT[i] = WEIGHT[i + 1]
    BY <2>1, WeightStep
  <2>7. DecodeChar(Partly(j), x) = Partly(i)
    BY <1>7, <2>1, <2>5, <2>6
  <2> QED
    BY <2>1, <2>3, <2>7
<1>10. Decoding(all)[m + (n - 1)] = Partly(n - 1)
  <2> HIDE DEF S
  <2>1. \A j \in 0 .. n - 1 : j \in S
    <3>1. n - 1 \in Nat
      OBVIOUS
    <3> QED
      BY <1>8, <1>9, <3>1, IndexInduction
  <2>2. n - 1 \in S
    BY <2>1
  <2> QED
    BY <2>2 DEF S
<1>11. Partly(n - 1).number + Chunk(c, n) * Partly(n - 1).weight = b
  <2>1. Partly(n - 1).number = b % WEIGHT[n] /\ Partly(n - 1).weight = WEIGHT[n]
    <3>1. n - 1 + 1 = n
      OBVIOUS
    <3> QED
      BY <3>1, DecoderFields
  <2>2. b < 32 * WEIGHT[n]
    <3>1. \A j \in 1 .. 6 : j > n => (b \div WEIGHT[j]) % 32 = 0
      BY <1>1, LastChunk DEF Chunk, b
    <3> QED
      BY <1>4, <3>1, HighZero
  <2>3. PICK W \in Nat \ {0} : W = 32 * WEIGHT[n]
    BY <1>6
  <2>4. b % W = b
    <3>1. \A x \in Nat : x < W => x % W = x
      OBVIOUS
    <3> QED
      BY <1>4, <2>2, <2>3, <3>1
  <2> QED
    BY <1>7, <2>1, <2>3, <2>4
<1>12. Partly(n - 1).axis = d.axis /\ Partly(n - 1).at = d.at /\ Partly(n - 1).points = d.points
  BY DecoderFields
<1>13. DecodeChar(Partly(n - 1), Chunk(c, n)) = NumberRead(d, Signed(b))
  <2>1. Chunk(c, n) % 32 = Chunk(c, n) /\ ~(Chunk(c, n) >= 32)
    <3>1. \A y \in 0 .. 31 : y % 32 = y /\ ~(y >= 32)
      OBVIOUS
    <3> QED
      BY <1>6, <3>1
  <2> HIDE DEF Partly
  <2> QED
    BY <1>11, <1>12, <2>1 DEF DecodeChar, NumberRead
<1>14. Decoding(all)[m + n] = DecodeChar(Partly(n - 1), Chunk(c, n))
  <2>1. e[n] = Chunk(c, n)
    <3>1. \A y \in 0 .. 31 : y + 0 = y
      OBVIOUS
    <3>2. e[n] = Chunk(c, n) + 0
      BY <1>2
    <3> QED
      BY <1>6, <3>1, <3>2
  <2>2. Decoding(all)[m + n] = DecodeChar(Decoding(all)[m + (n - 1)], e[n])
    BY <1>5
  <2> HIDE DEF Partly
  <2> QED
    BY <1>10, <2>1, <2>2
<1> QED
  BY <1>3, <1>13, <1>14 DEF all, b, e

(***************************************************************************)
(* Differences of coordinates.                                             *)
(***************************************************************************)
\* Points on the globe, and how far they are from each other.
LEMMA PointType ==
    /\ \A p \in Point : p \in Places /\ p.lat \in Int /\ p.lon \in Int
    /\ \A p, q \in Point : /\ p.lat - q.lat \in -360 * DEGREE .. 360 * DEGREE
                          /\ p.lon - q.lon \in -360 * DEGREE .. 360 * DEGREE
    /\ [lat |-> 0, lon |-> 0] \in Point
<1>1. PICK d \in Nat : d = DEGREE
  BY PolylineAssumption DEF DEGREE
<1>2. Point = [lat : -90 * d .. 90 * d, lon : -180 * d .. 180 * d]
  BY <1>1 DEF Point
<1>3. \A x, y \in -180 * d .. 180 * d : x \in Int /\ x - y \in -360 * d .. 360 * d
  OBVIOUS
<1>4. \A x \in -90 * d .. 90 * d : x \in -180 * d .. 180 * d
  OBVIOUS
<1>5. 0 \in -90 * d .. 90 * d /\ 0 \in -180 * d .. 180 * d
  OBVIOUS
<1> QED
  BY <1>1, <1>2, <1>3, <1>4, <1>5 DEF Places

\* A quotient is no greater than what bounds the number.
LEMMA QuotientBound ==
    ASSUME NEW x \in Nat, NEW d \in Nat \ {0}, NEW k \in Nat, x <= k * d
    PROVE  (x \div d) \in 0 .. k /\ x - (x \div d) * d \in 0 .. d - 1
<1>1. PICK q \in Nat, r \in 0 .. d - 1 : q = x \div d /\ x = q * d + r
  <2>1. x \div d \in Nat /\ x % d \in 0 .. d - 1 /\ x = (x \div d) * d + (x % d)
    OBVIOUS
  <2> QED
    BY <2>1
<1>2. q <= k
  <2> SUFFICES ASSUME q >= k + 1 PROVE FALSE
    BY <1>1
  <2>1. PICK e \in Nat : q = k + 1 + e
    <3>1. q - k - 1 \in Nat /\ q = k + 1 + (q - k - 1)
      OBVIOUS
    <3> QED
      BY <3>1
  <2>2. \A u, v, w \in Nat : (u + 1 + v) * w = u * w + w + v * w /\ v * w \in Nat /\ u * w \in Nat
    OBVIOUS
  <2>3. q * d = k * d + d + e * d /\ e * d \in Nat /\ k * d \in Nat
    BY <2>1, <2>2
  <2> QED
    BY <1>1, <2>3
<1>3. x - q * d = r
  <2>1. q * d \in Nat
    OBVIOUS
  <2> QED
    BY <1>1, <2>1
<1> QED
  BY <1>1, <1>2, <1>3

\* A difference that is not less than a step below zero is read as the number of whole
\* steps in it.
LEMMA DifferenceIsRead ==
    ASSUME NEW c \in -360 * DEGREE .. 360 * DEGREE, Fine(c)
    PROVE  /\ Signed(Binary(c)) = Truncated(c)
           /\ Truncated(c) \in Int /\ Truncated(c) * GRAIN - c \in -GRAIN .. GRAIN
<1>1. PICK g \in Nat \ {0} : g = GRAIN
  BY PolylineAssumption
<1>2. PICK K \in Nat : K = 360 * 100000
  OBVIOUS
<1>3. c \in Int /\ c <= K * g /\ -c <= K * g
  <2>1. 360 * DEGREE = K * g /\ -360 * DEGREE = -(K * g)
    BY <1>1, <1>2 DEF DEGREE
  <2>2. K * g \in Int
    OBVIOUS
  <2> QED
    BY <2>1, <2>2
<1>4. PICK W \in Nat : W = 32 * WEIGHT[6] /\ 2 * K < W
  <2>1. PICK w \in Nat : w = WEIGHT[5] /\ w >= 1000000 /\ WEIGHT[6] = 32 * w
    <3>1. WEIGHT[5] = 1048576
      BY DEF WEIGHT
    <3> QED
      BY <3>1, WeightStep
  <2> QED
    BY <1>2, <2>1
<1>5. \A x \in Nat : x < W => x % W = x
  BY <1>4
<1>6. \A t \in Nat : Signed(2 * t) = t
  BY DEF Signed
<1>7. \A t \in Nat \ {0} : Signed(2 * t - 1) = -t
  <2> SUFFICES ASSUME NEW t \in Nat \ {0} PROVE Signed(2 * t - 1) = -t
    OBVIOUS
  <2>1. (2 * t - 1) % 2 = 1 /\ ((2 * t - 1) \div 2) = t - 1
    OBVIOUS
  <2> QED
    BY <2>1 DEF Signed
<1>8. CASE c >= 0
  <2>1. c \in Nat
    BY <1>3, <1>8
  <2>2. PICK t \in 0 .. K : t = c \div g /\ c - t * g \in 0 .. g - 1
    <3> QED
      BY <1>3, <2>1, QuotientBound
  <2>3. Truncated(c) = t
    BY <1>1, <1>8, <2>2 DEF Truncated
  <2>4. Binary(c) = 2 * t
    <3>1. Binary(c) = (2 * t) % W
      BY <1>4, <1>8, <2>3 DEF Binary
    <3>2. 2 * t \in Nat /\ 2 * t < W
      BY <1>4
    <3> QED
      BY <1>5, <3>1, <3>2
  <2>5. t * g - c \in -g .. g
    <3>1. t * g \in Int
      OBVIOUS
    <3> QED
      BY <2>1, <2>2, <3>1
  <2> QED
    BY <1>1, <1>6, <2>3, <2>4, <2>5
<1>9. CASE c < 0
  <2>1. PICK x \in Nat : x = -c /\ x <= K * g /\ x >= g
    BY <1>1, <1>3, <1>9 DEF Fine
  <2>2. PICK t \in 0 .. K : t = x \div g /\ x - t * g \in 0 .. g - 1
    <3> QED
      BY <2>1, QuotientBound
  <2>3. t # 0
    BY <2>1, <2>2
  <2>4. Truncated(c) = -t
    BY <1>1, <1>9, <2>1, <2>2 DEF Truncated
  <2>5. Binary(c) = 2 * t - 1
    <3>1. -2 * Truncated(c) - 1 = 2 * t - 1
      BY <2>4
    <3>2. Binary(c) = (2 * t - 1) % W
      BY <1>4, <1>9, <3>1 DEF Binary
    <3>3. 2 * t - 1 \in Nat /\ 2 * t - 1 < W
      BY <1>4, <2>3
    <3> QED
      BY <1>5, <3>2, <3>3
  <2>6. (-t) * g - c \in -g .. g
    <3>1. PICK z \in Int : z = t * g /\ (-t) * g = -z
      OBVIOUS
    <3> QED
      BY <1>3, <2>1, <2>2, <3>1
  <2> QED
    BY <1>1, <1>7, <2>3, <2>4, <2>5, <2>6
<1> QED
  BY <1>3, <1>8, <1>9

\* Each point adds less than a step to how far the line may be off.
LEMMA CloseStep ==
    ASSUME NEW a \in Int, NEW x \in Int, NEW n \in Nat, Close(a, x, n),
           NEW v \in Int, NEW c \in Int, v * GRAIN - c \in -GRAIN .. GRAIN
    PROVE  Close(a + v, x + c, n + 1)
<1>1. PICK g \in Nat : g = GRAIN
  BY PolylineAssumption
<1>2. \A y, z, w \in Int : (y + z) * w = y * w + z * w /\ y * w \in Int /\ z * w \in Int
  OBVIOUS
<1>3. (a + v) * g = a * g + v * g /\ a * g \in Int /\ v * g \in Int
  BY <1>2
<1>4. (n + 1) * g = n * g + g /\ n * g \in Int
  BY <1>2
<1>5. PICK A \in Int, V \in Int, N \in Int :
         A = a * g /\ V = v * g /\ N = n * g /\ (a + v) * g = A + V /\ (n + 1) * g = N + g
  BY <1>3, <1>4
<1>6. A - x \in -N .. N /\ V - c \in -g .. g
  BY <1>1, <1>5 DEF Close
<1>7. (A + V) - (x + c) \in -(N + g) .. N + g
  BY <1>6
<1> QED
  BY <1>1, <1>5, <1>7 DEF Close

--------------------------------------------------------------------------------
(***************************************************************************)
(* The line.                                                               *)
(***************************************************************************)
LineType ==
    /\ leg \in Lines /\ s \in Nat \ {0} /\ output \in BOOLEAN
    /\ drawn \in Seq(Point) /\ last \in Point /\ buf \in Seq(Chars) /\ n_points \in Nat

Nowhere == [lat |-> 0, lon |-> 0]
Latest(points, n) == IF n = 0 THEN Nowhere ELSE points[n]
Got == Decoding(buf)[Len(buf)]

\* A decoder that has read the buffer is between two points, and close to the last of them.
DecodeInv ==
    /\ Got \in DecodeState /\ Got.number = 0 /\ Got.weight = 1 /\ Got.axis = "lat"
    /\ Len(Got.points) = n_points /\ Got.at = Latest(Got.points, n_points)
    /\ last = Latest(drawn, n_points)
    /\ NoSmallStepBack => \A i \in 1 .. n_points : /\ Close(Got.points[i].lat, drawn[i].lat, i)
                                                  /\ Close(Got.points[i].lon, drawn[i].lon, i)

\* Differences between points that were drawn before remain.
LEMMA StepsRemain ==
    ASSUME LineType, NEW p \in Point, drawn' = Append(drawn, p), NoSmallStepBack'
    PROVE  /\ NoSmallStepBack
           /\ n_points = Len(drawn) => /\ Fine(p.lat - Latest(drawn, n_points).lat)
                                       /\ Fine(p.lon - Latest(drawn, n_points).lon)
<1>1. PICK n \in Nat : n = Len(drawn) /\ DOMAIN drawn = 1 .. n /\ DOMAIN drawn' = 1 .. n + 1
                        /\ drawn'[n + 1] = p /\ \A i \in 1 .. n : drawn'[i] = drawn[i]
  BY DEF LineType
<1>2. ASSUME NEW i \in 1 .. n PROVE Before(i)' = Before(i)
  <2>1. i # 1 => i - 1 \in 1 .. n
    OBVIOUS
  <2> QED
    BY <1>1, <2>1 DEF Before
<1>3. \A i \in 1 .. n + 1 : Fine(drawn'[i].lat - Before(i)'.lat) /\ Fine(drawn'[i].lon - Before(i)'.lon)
  BY <1>1 DEF NoSmallStepBack
<1>4. NoSmallStepBack
  <2> SUFFICES ASSUME NEW i \in 1 .. n
               PROVE  Fine(drawn[i].lat - Before(i).lat) /\ Fine(drawn[i].lon - Before(i).lon)
    BY <1>1 DEF NoSmallStepBack
  <2>1. i \in 1 .. n + 1 /\ drawn'[i] = drawn[i] /\ Before(i)' = Before(i)
    BY <1>1, <1>2
  <2>2. Fine(drawn'[i].lat - Before(i)'.lat) /\ Fine(drawn'[i].lon - Before(i)'.lon)
    BY <1>3, <2>1
  <2> QED
    BY <2>1, <2>2
<1>5. Before(n + 1)' = Latest(drawn, n)
  <2>1. n # 0 => n + 1 # 1 /\ n + 1 - 1 = n /\ n \in 1 .. n
    OBVIOUS
  <2> QED
    BY <1>1, <2>1 DEF Before, Latest, Nowhere
<1>6. n + 1 \in 1 .. n + 1
  OBVIOUS
<1> QED
  BY <1>1, <1>3, <1>4, <1>5, <1>6

\* Two numbers take twelve characters of the thirteen that are kept for them.
LEMMA NumbersFit ==
    ASSUME NEW used \in Int, NEW size \in Int, NEW a \in 1 .. 6, NEW b \in 1 .. 6, used < size - 13
    PROVE  used + a + b <= size - 1
OBVIOUS

\* A point that is drawn can be read, or there is no room for it.
LEMMA PointStep ==
    ASSUME LineType, LineFits, DecodeInv, NEW p \in Point, polyline_point(p)
    PROVE  /\ drawn' \in Seq(Point) /\ last' \in Point /\ buf' \in Seq(Chars) /\ n_points' \in Nat
           /\ LineFits' /\ DecodeInv'
<1>1. PICK n \in Nat, B \in Nat : n = Len(drawn) /\ B = BUFLEN /\ B > 0
  BY PolylineAssumption DEF LineType
<1>2. /\ drawn' \in Seq(Point) /\ Len(drawn') = n + 1 /\ drawn'[n + 1] = p
      /\ \A i \in 1 .. n : drawn'[i] = drawn[i]
      /\ drawn' = Append(drawn, p)
  BY <1>1 DEF LineType, polyline_point
<1>3. n_points \in 0 .. n
  BY <1>1 DEF LineType, LineFits
<1>4. CASE Len(buf) >= BUFLEN - 13
  <2>1. last' = last /\ buf' = buf /\ n_points' = n_points
    BY <1>4 DEF polyline_point
  <2>2. LineFits'
    <3>1. Len(buf) \in Nat /\ Len(buf) > B - 14 /\ Len(buf) <= B - 1
      BY <1>1, <1>4 DEF LineType, LineFits
    <3> QED
      BY <1>1, <1>2, <1>3, <2>1, <3>1 DEF LineFits
  <2>3. Got' = Got
    BY <2>1 DEF Got
  <2>4. Latest(drawn, n_points)' = Latest(drawn, n_points)
    <3>1. n_points # 0 => n_points \in 1 .. n
      BY <1>3
    <3> QED
      BY <1>2, <2>1, <3>1 DEF Latest
  <2>5. \A i \in 1 .. n_points : i \in 1 .. n /\ drawn'[i] = drawn[i]
    BY <1>2, <1>3
  <2>6. NoSmallStepBack' => NoSmallStepBack
    BY <1>2, StepsRemain
  <2>7. DecodeInv'
    BY <2>1, <2>3, <2>4, <2>5, <2>6 DEF DecodeInv, Latest
  <2> QED
    BY <1>2, <2>1, <2>2, <2>7 DEF LineType
<1>5. CASE ~(Len(buf) >= BUFLEN - 13)
  <2> DEFINE c1 == p.lat - last.lat
             c2 == p.lon - last.lon
             e1 == encode_double(c1)
             e2 == encode_double(c2)
             v1 == Signed(Binary(c1))
             v2 == Signed(Binary(c2))
             once == buf \o e1
             d == Got
             at1 == Moved(d.at, "lat", v1)
             at2 == Moved(at1, "lon", v2)
  <2>1. buf' = once \o e2 /\ last' = p /\ n_points' = n_points + 1
    BY <1>5 DEF polyline_point
  <2>2. /\ c1 \in Int /\ c1 \in -360 * DEGREE .. 360 * DEGREE
        /\ c2 \in Int /\ c2 \in -360 * DEGREE .. 360 * DEGREE
    BY PointType DEF LineType
  <2>3. e1 \in Seq(Chars) /\ Len(e1) \in 1 .. 6 /\ e2 \in Seq(Chars) /\ Len(e2) \in 1 .. 6
    BY <2>2, EncodedType, LastChunk
  <2>4. v1 \in Int /\ v2 \in Int
    BY <2>2, BinaryType, SignedType
  <2> HIDE DEF c1, c2, e1, e2, v1, v2
  <2>5. once \in Seq(Chars) /\ Len(once) = Len(buf) + Len(e1)
    BY <2>3 DEF LineType
  <2>6. buf' \in Seq(Chars) /\ Len(buf') = Len(once) + Len(e2)
    BY <2>1, <2>3, <2>5
  <2>7. Len(buf) \in Nat /\ Len(buf) < B - 13 /\ n_points = n
    BY <1>1, <1>3, <1>5 DEF LineType, LineFits
  <2>8. LineFits'
    <3>1. Len(buf') <= B - 1
      <4> HIDE DEF once
      <4>1. PICK b0 \in Int, b1 \in 1 .. 6, b2 \in 1 .. 6 : b0 = Len(buf) /\ b1 = Len(e1) /\ b2 = Len(e2)
        BY <2>3, <2>7
      <4>2. Len(once) = b0 + b1 /\ b0 < B - 13
        BY <2>5, <2>7, <4>1
      <4>3. Len(buf') = b0 + b1 + b2
        BY <2>6, <4>1, <4>2
      <4>4. b0 + b1 + b2 <= B - 1
        BY <4>2, NumbersFit
      <4> QED
        BY <4>3, <4>4
    <3>2. n_points' = n + 1
      BY <2>1, <2>7
    <3>3. Len(drawn') = n + 1 /\ B = BUFLEN
      BY <1>1, <1>2
    <3> QED
      BY <3>1, <3>2, <3>3 DEF LineFits
  <2>9. /\ d \in DecodeState /\ d.number = 0 /\ d.weight = 1 /\ d.axis = "lat"
        /\ d.at \in Places /\ d.points \in Seq(Places)
    BY DecoderParts DEF DecodeInv
  <2>10. at1 \in Places /\ at2 \in Places /\ at2.lat = d.at.lat + v1 /\ at2.lon = d.at.lon + v2
    <3>1. at1 \in Places /\ at2 \in Places
      BY <2>4, <2>9, MovedType
    <3> QED
      BY <3>1 DEF Moved
  <2> HIDE DEF at1, at2, once
  <2>11. Decoding(once)[Len(once)] = Decoder(0, 1, "lon", at1, d.points)
    <3>1. Decoding(buf \o encode_double(c1))[Len(buf \o encode_double(c1))] = NumberRead(d, Signed(Binary(c1)))
      <4> HIDE DEF d
      <4>1. d = Decoding(buf)[Len(buf)]
        BY DEF d, Got
      <4>2. buf \in Seq(Chars)
        BY DEF LineType
      <4> QED
        BY <2>2, <2>9, <4>1, <4>2, NumberIsRead
    <3> QED
      BY <2>9, <3>1 DEF NumberRead, at1, once, e1, v1
  <2>12. Decoder(0, 1, "lon", at1, d.points) \in DecodeState
    BY <2>9, <2>10, DecoderType
  <2>13. Got' = Decoder(0, 1, "lat", at2, Append(d.points, at2))
    <3> DEFINE d1 == Decoder(0, 1, "lon", at1, d.points)
    <3>1. d1.number = 0 /\ d1.weight = 1 /\ d1.axis = "lon" /\ d1.at = at1 /\ d1.points = d.points
      BY DecoderFields
    <3>2. d1 = Decoding(once)[Len(once)] /\ d1 \in DecodeState
      BY <2>11, <2>12
    <3> HIDE DEF d1
    <3>3. Decoding(once \o encode_double(c2))[Len(once \o encode_double(c2))] = NumberRead(d1, Signed(Binary(c2)))
      BY <2>2, <2>5, <3>1, <3>2, NumberIsRead
    <3>4. NumberRead(d1, v2) = Decoder(0, 1, "lat", at2, Append(d.points, at2))
      BY <3>1 DEF NumberRead, at2
    <3>5. Got' = Decoding(once \o e2)[Len(once \o e2)]
      BY <2>1 DEF Got
    <3> QED
      BY <3>3, <3>4, <3>5 DEF e2, v2
  <2>14. /\ Got' \in DecodeState /\ Got'.number = 0 /\ Got'.weight = 1 /\ Got'.axis = "lat"
         /\ Got'.at = at2 /\ Got'.points = Append(d.points, at2)
    <3>1. Append(d.points, at2) \in Seq(Places)
      BY <2>9, <2>10
    <3>2. Decoder(0, 1, "lat", at2, Append(d.points, at2)) \in DecodeState
      BY <2>10, <3>1, DecoderType
    <3>3. PICK d2 : d2 = Decoder(0, 1, "lat", at2, Append(d.points, at2))
      OBVIOUS
    <3>4. PICK points : points = Append(d.points, at2)
      OBVIOUS
    <3>5. d2 = Decoder(0, 1, "lat", at2, points)
      BY <3>3, <3>4
    <3>6. d2.number = 0 /\ d2.weight = 1 /\ d2.axis = "lat" /\ d2.at = at2 /\ d2.points = points
      BY <3>5, DecoderFields
    <3>7. Got' = d2 /\ d2 \in DecodeState
      BY <2>13, <3>2, <3>3
    <3> HIDE DEF d
    <3> QED
      BY <3>4, <3>6, <3>7
  <2>15. /\ Len(Got'.points) = n + 1 /\ Got'.points[n + 1] = at2
         /\ \A i \in 1 .. n : Got'.points[i] = d.points[i]
    <3>1. Len(d.points) = n
      BY <2>7 DEF DecodeInv
    <3>2. PICK q \in Seq(Places) : q = d.points /\ Len(q) = n /\ Got'.points = Append(q, at2)
      BY <2>9, <2>14, <3>1
    <3> HIDE DEF d
    <3> QED
      BY <2>10, <3>2
  <2>16. Got'.at = Latest(Got.points, n_points)' /\ last' = Latest(drawn, n_points)'
    <3>1. n_points' = n + 1 /\ n + 1 # 0
      BY <2>1, <2>7
    <3> QED
      BY <1>2, <2>1, <2>14, <2>15, <3>1 DEF Latest
  <2>17. ASSUME NoSmallStepBack', NEW i \in 1 .. n_points'
         PROVE  Close(Got'.points[i].lat, drawn'[i].lat, i) /\ Close(Got'.points[i].lon, drawn'[i].lon, i)
    <3>1. /\ NoSmallStepBack
          /\ Fine(c1) /\ Fine(c2)
      BY <1>1, <1>2, <2>7, <2>17, StepsRemain DEF DecodeInv, c1, c2
    <3>2. CASE i \in 1 .. n
      BY <1>2, <2>7, <2>15, <3>1, <3>2 DEF DecodeInv
    <3>3. CASE i \notin 1 .. n
      <4>1. i = n + 1
        BY <2>1, <2>7, <3>3
      <4>2. Close(d.at.lat, last.lat, n) /\ Close(d.at.lon, last.lon, n)
        <5>1. CASE n = 0
          <6>1. d.at = Nowhere /\ last = Nowhere
            BY <2>7, <5>1 DEF DecodeInv, Latest
          <6>2. 0 * GRAIN - 0 \in -(0 * GRAIN) .. 0 * GRAIN
            BY PolylineAssumption
          <6> QED
            BY <5>1, <6>1, <6>2 DEF Close, Nowhere
        <5>2. CASE n # 0
          <6>1. n \in 1 .. n_points /\ d.at = d.points[n] /\ last = drawn[n]
            BY <2>7, <5>2 DEF DecodeInv, Latest
          <6> QED
            BY <3>1, <6>1 DEF DecodeInv
        <5> QED
          BY <5>1, <5>2
      <4>3. /\ v1 \in Int /\ v1 * GRAIN - c1 \in -GRAIN .. GRAIN
            /\ v2 \in Int /\ v2 * GRAIN - c2 \in -GRAIN .. GRAIN
        BY <2>2, <3>1, DifferenceIsRead DEF v1, v2
      <4>4. d.at.lat \in Int /\ d.at.lon \in Int /\ last.lat \in Int /\ last.lon \in Int
        BY <2>9, PointType DEF Places, LineType
      <4>5. Close(d.at.lat + v1, last.lat + c1, n + 1) /\ Close(d.at.lon + v2, last.lon + c2, n + 1)
        <5> HIDE DEF d
        <5> QED
          BY <2>2, <4>2, <4>3, <4>4, CloseStep
      <4>6. last.lat + c1 = p.lat /\ last.lon + c2 = p.lon
        BY <4>4, PointType DEF c1, c2
      <4> QED
        BY <1>2, <2>10, <2>15, <4>1, <4>5, <4>6
    <3> QED
      BY <3>2, <3>3
  <2>18. DecodeInv'
    <3>1. Len(Got'.points) = n_points'
      BY <2>1, <2>7, <2>15
    <3> QED
      BY <2>14, <2>16, <2>17, <3>1 DEF DecodeInv
  <2> QED
    BY <1>2, <2>1, <2>6, <2>8, <2>18 DEF LineType
<1> QED
  BY <1>4, <1>5

\* Where a stop is that the route calls at once.
LEMMA OnlyPlace ==
    ASSUME NEW stops \in Seq(Point), IsInjective(stops), NEW k \in DOMAIN stops
    PROVE  {i \in 1 .. Len(stops) : stops[i] = stops[k]} = {k} /\ Min({k}) = k
<1>1. DOMAIN stops = 1 .. Len(stops) /\ k \in Nat
  OBVIOUS
<1>2. {i \in 1 .. Len(stops) : stops[i] = stops[k]} = {k}
  BY <1>1 DEF IsInjective
<1>3. Min({k}) = k
  BY <1>1 DEF Min
<1> QED
  BY <1>2, <1>3

\* s0 is the stop at p and s1 that at q.
RidesFromTo(l, p, q) ==
    p \in DOMAIN l.stops /\ q \in DOMAIN l.stops /\ p <= q /\ l.stops[p] = l.s0 /\ l.stops[q] = l.s1

\* The stops from s0 on and before s have been drawn, or the line has been ended by s1.
RideInv ==
    ~leg.walk /\ IsInjective(leg.stops) =>
        \A p, q \in DOMAIN leg.stops : RidesFromTo(leg, p, q) =>
            \/ /\ s <= q /\ (output <=> p < s)
               /\ Len(drawn) = (IF p < s THEN s - p ELSE 0)
               /\ \A i \in 1 .. Len(drawn) : drawn[i] = leg.stops[p + i - 1]
            \/ /\ s = Len(leg.stops) + 1
               /\ Len(drawn) = q - p + 1
               /\ \A i \in 1 .. Len(drawn) : drawn[i] = leg.stops[p + i - 1]

\* What has been drawn of the route, when it is known by what has been drawn before.
LEMMA RideStep ==
    ASSUME LineType, RideInv, RideLine, drawn' \in Seq(Point)
    PROVE  RideInv'
<1>1. /\ leg.stops \in Seq(Point) /\ Len(leg.stops) \in Nat /\ DOMAIN leg.stops = 1 .. Len(leg.stops)
      /\ ~leg.walk /\ s \in 1 .. Len(leg.stops) /\ leg' = leg
  BY PolylineAssumption DEF LineType, RideLine
<1>2. PICK stops \in Seq(Point), n \in Nat : stops = leg.stops /\ n = Len(stops) /\ DOMAIN stops = 1 .. n
  BY <1>1
<1> SUFFICES ASSUME IsInjective(stops), NEW p \in 1 .. n, NEW q \in 1 .. n, RidesFromTo(leg, p, q)
             PROVE  \/ /\ s' <= q /\ (output' <=> p < s')
                       /\ Len(drawn') = (IF p < s' THEN s' - p ELSE 0)
                       /\ \A i \in 1 .. Len(drawn') : drawn'[i] = stops[p + i - 1]
                    \/ /\ s' = n + 1
                       /\ Len(drawn') = q - p + 1
                       /\ \A i \in 1 .. Len(drawn') : drawn'[i] = stops[p + i - 1]
  BY <1>1, <1>2 DEF RideInv
<1>3. p <= q /\ stops[p] = leg.s0 /\ stops[q] = leg.s1 /\ s \in 1 .. n
  BY <1>1, <1>2 DEF RidesFromTo
<1>4. /\ s <= q /\ (output <=> p < s) /\ Len(drawn) = (IF p < s THEN s - p ELSE 0)
      /\ \A i \in 1 .. Len(drawn) : drawn[i] = stops[p + i - 1]
  <2>1. \/ /\ s <= q /\ (output <=> p < s)
           /\ Len(drawn) = (IF p < s THEN s - p ELSE 0)
           /\ \A i \in 1 .. Len(drawn) : drawn[i] = stops[p + i - 1]
        \/ s = n + 1
    BY <1>1, <1>2 DEF RideInv
  <2>2. s # n + 1
    BY <1>2, <1>3
  <2> QED
    BY <2>1, <2>2
<1>5. PICK x \in Point : x = stops[s]
  BY <1>2, <1>3
<1>6. /\ output' <=> (output \/ x = leg.s0)
      /\ output' => drawn' = Append(drawn, x)
      /\ ~output' => drawn' = drawn
      /\ x = leg.s1 => s' = n + 1
      /\ x # leg.s1 => s' = s + 1
  BY <1>2, <1>5 DEF RideLine, polyline_point
<1>7. (x = leg.s0 <=> s = p) /\ (x = leg.s1 <=> s = q)
  BY <1>2, <1>3, <1>5 DEF IsInjective
<1>8. output' <=> p <= s
  <2>1. p <= s <=> p < s \/ s = p
    BY <1>3
  <2> QED
    BY <1>4, <1>6, <1>7, <2>1
<1>9. /\ p <= s => Len(drawn') = s - p + 1
      /\ ~(p <= s) => Len(drawn') = 0
      /\ \A i \in 1 .. Len(drawn') : drawn'[i] = stops[p + i - 1]
  <2>1. CASE p <= s
    <3>1. PICK before \in Seq(Point), m \in Nat : before = drawn /\ m = Len(before)
      BY DEF LineType
    <3>2. m = s - p
      BY <1>3, <1>4, <2>1, <3>1
    <3>3. drawn' = Append(before, x)
      BY <1>6, <1>8, <2>1, <3>1
    <3>4. Len(drawn') = m + 1 /\ drawn'[m + 1] = x /\ \A i \in 1 .. m : drawn'[i] = before[i]
      BY <3>1, <3>3
    <3>5. p + (m + 1) - 1 = s /\ m + 1 = s - p + 1
      BY <1>3, <3>2
    <3>6. ASSUME NEW i \in 1 .. m + 1 PROVE drawn'[i] = stops[p + i - 1]
      <4>1. CASE i = m + 1
        BY <1>5, <3>4, <3>5, <4>1
      <4>2. CASE i # m + 1
        <5>1. i \in 1 .. m
          BY <4>2
        <5> QED
          BY <1>4, <3>1, <3>4, <5>1
      <4> QED
        BY <4>1, <4>2
    <3> QED
      BY <2>1, <3>4, <3>5, <3>6
  <2>2. CASE ~(p <= s)
    <3>1. drawn' = drawn /\ ~(p < s)
      BY <1>3, <1>6, <1>8, <2>2
    <3> QED
      BY <1>4, <2>2, <3>1
  <2> QED
    BY <2>1, <2>2
<1>10. CASE s = q
  <2>1. s' = n + 1 /\ Len(drawn') = q - p + 1
    BY <1>3, <1>6, <1>7, <1>9, <1>10
  <2> QED
    BY <1>9, <2>1
<1>11. CASE s # q
  <2>1. s' = s + 1 /\ s' <= q
    BY <1>3, <1>4, <1>6, <1>7, <1>11
  <2>2. (p <= s <=> p < s') /\ s - p + 1 = s' - p
    BY <1>3, <2>1
  <2> QED
    BY <1>8, <1>9, <2>1, <2>2
<1> QED
  BY <1>10, <1>11

\* When the route has been followed to its end, what was drawn are the stops of the leg.
LEMMA LineEnds ==
    ASSUME LineType, RideInv
    PROVE  LineOfLeg
<1> DEFINE stops == leg.stops
           n == Len(stops)
<1> SUFFICES ASSUME ~leg.walk, IsInjective(stops), s > n
             PROVE  drawn = SubSeq(stops, SelectInSeq(stops, LAMBDA p : p = leg.s0),
                                          SelectInSeq(stops, LAMBDA p : p = leg.s1))
  BY DEF LineOfLeg
<1>1. stops \in Seq(Point) /\ n \in Nat /\ DOMAIN stops = 1 .. n /\ s \in Nat
  BY PolylineAssumption DEF LineType
<1>2. PICK p \in 1 .. n, q \in 1 .. n : RidesFromTo(leg, p, q)
  BY <1>1, PolylineAssumption DEF RidesFromTo, LineType
<1>3. p <= q /\ stops[p] = leg.s0 /\ stops[q] = leg.s1
  BY <1>2 DEF RidesFromTo
<1>4. Len(drawn) = q - p + 1 /\ \A i \in 1 .. Len(drawn) : drawn[i] = stops[p + i - 1]
  <2>1. ~(s <= q) /\ p \in DOMAIN leg.stops /\ q \in DOMAIN leg.stops /\ RidesFromTo(leg, p, q)
    BY <1>1, <1>2
  <2>2. \/ s <= q
        \/ /\ Len(drawn) = q - p + 1
           /\ \A i \in 1 .. Len(drawn) : drawn[i] = leg.stops[p + i - 1]
    BY <2>1 DEF RideInv
  <2> QED
    BY <2>1, <2>2
<1>5. SelectInSeq(stops, LAMBDA x : x = leg.s0) = p /\ SelectInSeq(stops, LAMBDA x : x = leg.s1) = q
  <2> DEFINE I(x) == {i \in 1 .. Len(stops) : stops[i] = x}
  <2>1. I(leg.s0) = {p} /\ Min({p}) = p
    BY <1>1, <1>3, OnlyPlace
  <2>2. I(leg.s1) = {q} /\ Min({q}) = q
    BY <1>1, <1>3, OnlyPlace
  <2>3. SelectInSeq(stops, LAMBDA x : x = leg.s0) = IF I(leg.s0) # {} THEN Min(I(leg.s0)) ELSE 0
    BY DEF SelectInSeq
  <2>4. SelectInSeq(stops, LAMBDA x : x = leg.s1) = IF I(leg.s1) # {} THEN Min(I(leg.s1)) ELSE 0
    BY DEF SelectInSeq
  <2> HIDE DEF I
  <2> QED
    BY <2>1, <2>2, <2>3, <2>4
<1>6. drawn = SubSeq(stops, p, q)
  <2>1. /\ SubSeq(stops, p, q) \in Seq(Point) /\ Len(SubSeq(stops, p, q)) = q - p + 1
        /\ \A i \in 1 .. q - p + 1 : SubSeq(stops, p, q)[i] = stops[p + i - 1]
    BY <1>1, <1>3, SubSeqProperties
  <2> QED
    BY <1>4, <2>1, SeqEqual DEF LineType
<1> QED
  BY <1>5, <1>6

\* What a map decodes from the line of a leg is the stops of the leg, for every resolution,
\* unless a difference is negative and less than a step (NoSmallStepBack; polyline.c:37 makes
\* it a jump of half the globe): chunks of five bits give the number back and differences add
\* up to within a step for each point.  In any case the buffer of any size is never overrun,
\* although its end is tested before the point is known (polyline.c:37-142).
THEOREM LineDecodes == PolylineSpec => []PolylineDecodes
<1> DEFINE Inv == LineType /\ LineFits /\ DecodeInv /\ RideInv
<1>1. PolylineInit => Inv
  <2> SUFFICES ASSUME PolylineInit PROVE Inv
    OBVIOUS
  <2>1. /\ leg \in Lines /\ s = 1 /\ output = FALSE /\ drawn = << >> /\ buf = << >> /\ n_points = 0
        /\ last = Nowhere /\ Nowhere \in Point
    BY PointType DEF PolylineInit, polyline_begin, Nowhere
  <2>2. LineType /\ LineFits
    <3>1. drawn \in Seq(Point) /\ Len(drawn) = 0 /\ buf \in Seq(Chars) /\ Len(buf) = 0
      BY <2>1
    <3>2. LineType
      <4>1. s \in Nat \ {0} /\ n_points \in Nat
        BY <2>1
      <4>2. output \in BOOLEAN /\ leg \in Lines
        BY <2>1
      <4>3. last \in Point
        BY <2>1
      <4> QED
        BY <3>1, <4>1, <4>2, <4>3 DEF LineType
    <3>3. 0 <= BUFLEN - 1
      BY PolylineAssumption
    <3> QED
      BY <2>1, <3>1, <3>2, <3>3 DEF LineFits
  <2>3. Got = Undecoded /\ Got \in DecodeState
    <3>1. buf \in Seq(Chars) /\ Len(buf) = 0
      BY <2>1
    <3>2. Decoding(buf)[0] = Undecoded
      BY <3>1, DecodingLoop
    <3>3. 0 \in 0 .. Len(buf)
      BY <3>1
    <3>4. Decoding(buf)[0] \in DecodeState
      BY <3>1, <3>3, DecodingLoop
    <3> QED
      BY <3>1, <3>2, <3>4 DEF Got
  <2>4. DecodeInv
    <3>1. /\ Got.number = 0 /\ Got.weight = 1 /\ Got.axis = "lat" /\ Got.at = Nowhere /\ Got.points = << >>
      BY <2>3, DecoderFields DEF Undecoded, Nowhere
    <3>2. Len(Got.points) = 0 /\ n_points = 0
      BY <2>1, <3>1
    <3>3. ~\E i \in Int : i \in 1 .. n_points
      BY <2>1
    <3>4. Got.at = Latest(Got.points, n_points) /\ last = Latest(drawn, n_points)
      BY <2>1, <3>1 DEF Latest
    <3> QED
      BY <2>3, <3>1, <3>2, <3>3, <3>4 DEF DecodeInv
  <2>5. RideInv
    BY <2>1, PolylineAssumption DEF RideInv, RidesFromTo
  <2> QED
    BY <2>2, <2>4, <2>5
<1>2. Inv /\ [PolylineNext]_polyline_vars => Inv'
  <2> SUFFICES ASSUME Inv, [PolylineNext]_polyline_vars PROVE Inv'
    OBVIOUS
  <2>1. leg.s0 \in Point /\ leg.s1 \in Point /\ leg.stops \in Seq(Point)
    BY PolylineAssumption DEF LineType
  <2>2. CASE WalkLine
    <3>1. polyline_point(IF s = 1 THEN leg.s0 ELSE leg.s1) /\ s' = s + 1 /\ leg' = leg /\ output' = output
      BY <2>2 DEF WalkLine
    <3>2. /\ drawn' \in Seq(Point) /\ last' \in Point /\ buf' \in Seq(Chars) /\ n_points' \in Nat
          /\ LineFits' /\ DecodeInv'
      BY <2>1, <3>1, PointStep
    <3>3. LineType' /\ RideInv'
      BY <2>2, <3>1, <3>2 DEF LineType, RideInv, WalkLine
    <3> QED
      BY <3>2, <3>3
  <2>3. CASE RideLine
    <3>1. s \in 1 .. Len(leg.stops) /\ leg.stops[s] \in Point
      BY <2>1, <2>3 DEF RideLine, LineType
    <3>2. output' \in BOOLEAN /\ s' \in Nat \ {0} /\ leg' = leg
      BY <2>1, <2>3, <3>1 DEF RideLine
    <3>3. CASE output'
      <4>1. polyline_point(leg.stops[s])
        BY <2>3, <3>3 DEF RideLine
      <4>2. /\ drawn' \in Seq(Point) /\ last' \in Point /\ buf' \in Seq(Chars) /\ n_points' \in Nat
            /\ LineFits' /\ DecodeInv'
        BY <3>1, <4>1, PointStep
      <4>3. LineType'
        BY <3>2, <4>2 DEF LineType
      <4> QED
        BY <2>3, <4>2, <4>3, RideStep
    <3>4. CASE ~output'
      <4>1. UNCHANGED <<drawn, last, buf, n_points>>
        BY <2>3, <3>4 DEF RideLine
      <4>2. LineType' /\ LineFits'
        BY <3>2, <4>1 DEF LineType, LineFits
      <4>3. DecodeInv'
        BY <4>1 DEF DecodeInv, Got, Latest, NoSmallStepBack, Before
      <4> QED
        BY <2>3, <4>1, <4>2, <4>3, RideStep DEF LineType
    <3> QED
      BY <3>3, <3>4
  <2>4. CASE UNCHANGED polyline_vars
    <3>1. UNCHANGED <<leg, s, output, drawn, last, buf, n_points>>
      BY <2>4 DEF polyline_vars
    <3> QED
      BY <3>1 DEF LineType, LineFits, DecodeInv, Got, Latest, NoSmallStepBack, Before, RideInv
  <2> QED
    BY <2>2, <2>3, <2>4 DEF PolylineNext
<1>3. Inv => PolylineDecodes
  <2> SUFFICES ASSUME Inv PROVE PolylineDecodes
    OBVIOUS
  <2>1. Decoded = Got.points
    BY DEF Decoded, Got
  <2>2. NoSmallStepBack => LineReads
    BY <2>1 DEF DecodeInv, LineReads
  <2> QED
    BY <2>2, LineEnds DEF PolylineDecodes
<1> QED
  BY <1>1, <1>2, <1>3, PTL DEF PolylineSpec

================================================================================
