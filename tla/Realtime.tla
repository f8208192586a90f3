-------------------------------- MODULE Realtime --------------------------------
(***************************************************************************)
(* The life of a timetable file: built from a feed, loaded, and updated by *)
(* the realtime process (realtime.c), which assembles websocket frames     *)
(* into GTFS-realtime messages, and by the test program (tester.c), which  *)
(* applies a message and alerts from files.  The file is mapped shared, so *)
(* what one process writes outlives it and is seen by all.                 *)
(*                                                                         *)
(* A message is a sequence of pieces, one per call of the callback: a      *)
(* frame, or a part of a frame that is longer than MAX_FRAME_LENGTH.       *)
(*   piece.remaining    more of the same frame is to follow                *)
(*   piece.final        the frame is the last one of its message           *)
(*   piece.len          its bytes; piece.header: the feed header is in it  *)
(*   piece.entities     [usable, trip_id, canceled, delay]: usable if      *)
(*                      there is a vehicle with a trip, delay in seconds   *)
(***************************************************************************)
EXTENDS Tdata

CONSTANTS Feeds,                \* the GTFS feeds
          Followed,             \* those whose timetable has realtime updates
          Messages,             \* what the distributor may send
          AlertMessages,        \* what the alerts file of the test program may hold
          MAX_MESSAGE_LENGTH,   \* realtime.c
          MaxMessages,          \* bound: messages begun or read from files
          MaxConnections        \* bound: starts of the realtime process

\* Messages are as the protocol has them: only the last piece ends the message, and where
\* there are no bytes there is nothing else.
ASSUME MessagesAssumption ==
    /\ MAX_MESSAGE_LENGTH \in Nat
    /\ \A m \in Messages :
        /\ m \in Seq(ToSet(m)) /\ m # << >>
        /\ \A k \in DOMAIN m :
             /\ m[k].len \in Nat /\ m[k].header \in BOOLEAN
             /\ m[k].entities \in Seq(ToSet(m[k].entities))
             /\ m[k].len = 0 => m[k].entities = << >> /\ ~m[k].header
             /\ (m[k].final /\ ~m[k].remaining) <=> k = Len(m)

ASSUME NullAssumption == NULL \notin Int

VARIABLES feed,         \* the feed the timetable is built from
          file,         \* timetable.dat, with the delays
          process,      \* the realtime process: "down", "connected"
          msg,          \* what is in its buffer, with its length
          under_way,    \* the message that is being sent
          arrived,      \* how many pieces of it have arrived
          alerts,       \* td->alerts of the test program
          messages, connections,    \* counters
          expected      \* history: the delays a trip may have, see DelayAsSent

vars == <<feed, file, process, msg, under_way, arrived, alerts, messages, connections, expected>>

td == tdata_load(file)

CANCELED == 32767
SEC_TO_RTIME(sec) == sec \div 4

--------------------------------------------------------------------------------
(***************************************************************************)
(* Applying a message.                                                     *)
(***************************************************************************)
\* Fault: an id that is not found has index 0.
IndexZero(ids, id) == Max({1} \cup {i \in DOMAIN ids : ids[i] = id}) - 1

\* The index from ids to trips, routes or stops (radixtree.c): a second entry with the
\* same id replaces the first, and NONE is the index of an unknown one.
Index(ids, id) == Max({0} \cup {i \in DOMAIN ids : ids[i] = id}) - 1

\* Cancellations and delays go through the same conversion; large delays are dropped.
StoredDelay(e) ==
    SEC_TO_RTIME(IF e.canceled THEN CANCELED
                 ELSE IF e.delay > 7200 \/ e.delay < -7200 THEN 0 ELSE e.delay)

\* The same file, with the given delays at some places of its table of trips.
WithDelays(f, delays) ==
    [f EXCEPT !.entries[HeaderPlace.trips] =
        [i \in DOMAIN @ |-> IF i \in DOMAIN delays THEN [@[i] EXCEPT !.realtime_delay = delays[i]] ELSE @[i]]]

\* The entities that are applied: all before the first without a vehicle or a trip.
Applied(entities) == {k \in DOMAIN entities : \A j \in 1 .. k : entities[j].usable}

\* Of those, the ones that name the trip at place i.
Naming(ids, entities, i) == {k \in Applied(entities) : Index(ids, entities[k].trip_id) = i - 1}

\* They are applied in their order, so that the last one that names a trip remains.
tdata_apply_gtfsrt(f, entities) ==
    LET naming(i) == Naming(tdata_load(f).trip_ids, entities, i)
    IN  WithDelays(f, [i \in {i \in DOMAIN tdata_load(f).trips : naming(i) # {}} |->
                          StoredDelay(entities[Max(naming(i))])])

\* The places of the trips of a route.
TripPlaces(t, r) == {At(t.routes, r).trip_ids_offset + n : n \in 1 .. At(t.routes, r).n_trips}

tdata_clear_gtfsrt(f) ==
    WithDelays(f, [i \in UNION {TripPlaces(tdata_load(f), r) : r \in Routes(tdata_load(f))} |-> 0])

\* Bytes: how many there are, whether the header is among them, and the entities in them.
NoBytes == [len |-> 0, header |-> FALSE, entities |-> << >>]
With(b, piece) == [len |-> b.len + piece.len, header |-> b.header \/ piece.header,
                   entities |-> b.entities \o piece.entities]

\* Those of the first k pieces of a message, and of all of it.
Bytes(m, k) ==
    LET first[n \in 0 .. Len(m)] == IF n = 0 THEN NoBytes ELSE With(first[n - 1], m[n])
    IN  first[k]
Whole(m) == Bytes(m, Len(m))

\* What unpacking a buffer can yield, as a set of files after it was applied.  A whole
\* message unpacks.  Without the header, a required field, nothing does; with a part
\* missing that may have been a number of whole entities, the rest may unpack.
AfterUnpacking(f, b) ==
    LET result == tdata_apply_gtfsrt(f, b.entities)
    IN  IF b = Whole(under_way) THEN {result}
        ELSE IF b.header THEN {f, result}
        ELSE {f}

--------------------------------------------------------------------------------
(***************************************************************************)
(* Alerts: the ids in an alert are overwritten with indexes.  A message    *)
(* with an entity that has no alert is not used at all.                    *)
(***************************************************************************)
IndexOrNull(ids, id) == IF id = NULL THEN NULL ELSE Index(ids, id)

tdata_apply_gtfsrt_alerts(m) ==
    IF \E e \in ToSet(m) : ~e.alert THEN << >>
    ELSE [k \in DOMAIN m |->
            [informed |-> {[route |-> IndexOrNull(td.route_ids, x.route), stop |-> IndexOrNull(td.stop_ids, x.stop),
                            trip |-> IndexOrNull(td.trip_ids, x.trip)] : x \in m[k].informed},
             source |-> m[k]]]

\* The alerts that inform about a leg; the first of them is printed with it.  The index
\* of a trip is compared with the place of the trip within its route.
alert_msg(leg) ==
    {a \in ToSet(alerts) : \E x \in a.informed :
        x.route \in {NULL, leg.route} /\ x.stop \in {NULL, leg.s0} /\ x.trip \in {NULL, leg.trip}}

--------------------------------------------------------------------------------
(***************************************************************************)
(* The processes.                                                          *)
(***************************************************************************)
\* A message within the limits of the buffer, with no frame above the frame length.
Fits(m) == (\A k \in DOMAIN m : ~m[k].remaining) /\ (Len(m) = 1 \/ Whole(m).len <= MAX_MESSAGE_LENGTH)

\* History: the delays that trips may have after a message, by its last mention of each
\* before an entity that cannot be used.  After a message that does not fit, any it says
\* and older ones too.
Expect(old, m, whole) ==
    LET all == Whole(m).entities
        said(t) == {k \in DOMAIN all : all[k].trip_id = t /\ all[k].usable}
        applied(t) == {k \in said(t) : \A j \in 1 .. k : all[j].usable}
    IN  [t \in DOMAIN old |-> IF ~whole THEN old[t] \cup {StoredDelay(all[k]) : k \in said(t)}
                              ELSE IF applied(t) = {} THEN old[t]
                              ELSE {StoredDelay(all[Max(applied(t))])}]

Init ==
    /\ feed \in Feeds
    /\ \E order \in SetToSeqs(bundles(feed)) : file = timetable_dat(feed, order)
    /\ process = "down" /\ msg = NoBytes /\ under_way = << >> /\ arrived = 0 /\ alerts = << >>
    /\ messages = 0 /\ connections = 0
    /\ expected = [t \in DOMAIN feed.trips |-> {0}]

\* The realtime process starts with an empty buffer and keeps the delays it finds.
Connect ==
    /\ process = "down" /\ connections < MaxConnections /\ feed \in Followed
    /\ process' = "connected" /\ connections' = connections + 1
    /\ msg' = NoBytes
    /\ UNCHANGED <<feed, file, under_way, arrived, alerts, messages, expected>>

\* The distributor begins a message.
SendMessage(m) ==
    /\ process = "connected" /\ arrived = Len(under_way) /\ messages < MaxMessages
    /\ under_way' = m /\ arrived' = 0 /\ messages' = messages + 1
    /\ UNCHANGED <<feed, file, process, msg, alerts, connections, expected>>

\* A message that gets too long is forgotten; the pieces that follow begin another.
msg_add_frame(piece) ==
    IF msg.len + piece.len > MAX_MESSAGE_LENGTH THEN NoBytes ELSE With(msg, piece)

\* LWS_CALLBACK_CLIENT_RECEIVE: a piece of a frame that is too long, a message in one
\* frame, the last frame of a message, another frame.
DropPart(piece) ==
    /\ piece.remaining
    /\ UNCHANGED <<msg, file>>

SingleFrame(piece) ==
    /\ ~piece.remaining /\ piece.final /\ msg.len = 0
    /\ file' \in IF piece.len > 0 THEN AfterUnpacking(file, With(NoBytes, piece)) ELSE {file}
    /\ UNCHANGED msg

\* Fault: the buffer is not emptied after a message.
LastFrameKept(piece) ==
    /\ ~piece.remaining /\ piece.final /\ msg.len > 0
    /\ file' \in AfterUnpacking(file, msg_add_frame(piece))
    /\ msg' = msg_add_frame(piece)

LastFrame(piece) ==
    /\ ~piece.remaining /\ piece.final /\ msg.len > 0
    /\ file' \in AfterUnpacking(file, msg_add_frame(piece))
    /\ msg' = NoBytes

Fragment(piece) ==
    /\ ~piece.remaining /\ ~piece.final
    /\ msg' = msg_add_frame(piece)
    /\ UNCHANGED file

Receive ==
    /\ process = "connected" /\ arrived < Len(under_way)
    /\ LET piece == under_way[arrived + 1] IN
         DropPart(piece) \/ SingleFrame(piece) \/ LastFrame(piece) \/ Fragment(piece)
    /\ arrived' = arrived + 1
    /\ expected' = IF arrived' = Len(under_way) THEN Expect(expected, under_way, Fits(under_way)) ELSE expected
    /\ UNCHANGED <<feed, process, under_way, alerts, messages, connections>>

\* LWS_CALLBACK_CLOSED, a signal, or the death of the process: its memory is gone.
Close ==
    /\ process = "connected"
    /\ process' = "down" /\ under_way' = << >> /\ arrived' = 0 /\ msg' = NoBytes
    /\ UNCHANGED <<feed, file, alerts, messages, connections, expected>>

\* The test program with a message file clears all delays and applies the message, whole,
\* in the same file that the realtime process writes to; with an alerts file it has alerts.
Tester(m, a) ==
    /\ feed \in Followed /\ messages < MaxMessages
    /\ messages' = messages + 1
    /\ IF m = NULL THEN UNCHANGED <<file, expected>>
       ELSE /\ file' = tdata_apply_gtfsrt(tdata_clear_gtfsrt(file), Whole(m).entities)
            /\ expected' = Expect([t \in DOMAIN expected |-> {0}], m, TRUE)
    /\ alerts' = IF a = NULL THEN << >> ELSE tdata_apply_gtfsrt_alerts(a)
    /\ UNCHANGED <<feed, process, msg, under_way, arrived, connections>>

Next ==
    \/ Connect
    \/ \E m \in Messages : SendMessage(m)
    \/ Receive
    \/ Close
    \/ \E m \in Messages \cup {NULL}, a \in AlertMessages \cup {NULL} : Tester(m, a)

Spec == Init /\ [][Next]_vars

================================================================================
