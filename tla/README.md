# Verification of RRRR

RRRR (Rapid Real-time Routing) answers public transport routing requests with
the RAPTOR algorithm. This directory holds TLA+ models of its parts, the TLC
configurations that check them on small instances, and proofs checked by TLAPS.
Every definition is translated from the source; `PROJECT.json` maps each one to
the lines it models, lists the runs, a plausible fault (mutant) for every
property, the findings, the hazards the properties aim at, and the theorems.

## 1. The system

```
 clients (client.c, web-uwsgi.py, otp_api.c + otp_client.c)
    |  REQ / DEALER sockets                              feed (GTFS-realtime)
 broker.c      one thread, two ROUTER sockets,              |  websocket
    |          a queue of available workers              realtime.c
 worker.c, worker-web.c      single-threaded processes      |  tdata_apply_gtfsrt
    |  router_route x 1..3, router_result_to_plan, render   |
 router.c  <---- timetable file, mmap MAP_SHARED, with one delay per trip
```

| component | state it keeps | operations | what makes it hard |
|---|---|---|---|
| router (`router.c`) | `best_time`, `states[round][stop]`, two bit sets, service days; all reused from search to search, only the times reset | search, one round, footpaths of the updated stops, reversal, plan | row 1 doubles as the initial state; bit sets changed by the loops that iterate over them; 16-bit times that wrap; three searches chained by cutoffs |
| drivers (`worker.c`, `worker-web.c`, `tester.c`, `reversal.c`) | the request and a copy of it | copy, search, reverse 0-2 times, plan, answer | on-board requests must not be reversed |
| timetable (`tdata.c`, `tdata.h`) | read-only tables, one mutable `realtime_delay` per trip | times of a trip on a service day, routes of a stop, footpaths | overflow past the third day; delays added after the overflow test |
| realtime (`realtime.c`, `tdata_apply_gtfsrt`) | receive buffer, delays in the shared file | assemble frames, apply each entity | delays change in the middle of a search |
| broker (`broker.c`) | queue of worker identities, result of the last poll | read a worker message, read a request | acts on a poll result it has itself made stale; a dead worker stays in the queue |
| clients | one request under way | send, receive, give up after a timeout | a reply that arrives late; a request lost with a worker |
| OTP API server (`otp_api.c`) | table of connections and descriptors | accept, read, answer by descriptor | connections removed by index while others are served; descriptors reused |
| request parsing (`parse.c`, `router_request_from_epoch`) | the request, reused by a worker | query string to request, epoch to service day and back | options in any order; unsigned calendar arithmetic; summer time |
| containers (`bitset.c`, `radixtree.c`, `hashgrid.c`, `slab.c`, `binheap.c`) | arrays | insert, iterate, query | boundaries of chunks, edges, cells and blocks |
| rendering (`json.c`, `polyline.c`, `plan_render`) | output buffer | write | nesting, buffer end, numbers cut to chunks |
| builder (`timetable.py`, `gtfsdb.py`, `transfers.py`) | SQL database | export | separate loops must agree on order and offsets |
| profile search (`profile.c`) | a pool of states that is also the queue | explore footpaths and routes | paths that share states; 16-bit sums |
| consoles, visualisers, generated protobuf code | - | - | not part of answering a request |

The properties that make each modelled component correct are the ones of
section 3. `PROJECT.json` lists the hazards line by line.

## 2. Modules

| module | models |
|---|---|
| `Timetable` | times (`rtime_t`), calendars, trips, routes of a stop, footpaths: what the search reads of `tdata.h`, `util.h`, and the shape of what `timetable.py` writes |
| `Router` | one worker: driver, search, reversals, plan, and the realtime process writing delays |
| `RouterProperties` | the properties of a search and of a plan, and a reference definition of the best journey |
| `RouterProofs` | theorems about search and plan |
| `JourneyProofs` | theorems about rides, walks and connections of a plan |
| `MCRouter` | small timetables and requests |
| `Service` | what the pool behind the broker promises its clients |
| `Broker` | broker, workers and clients with the messages between them |
| `BrokerProperties` | their properties, the inductive invariants, the refinement mapping to `Service` |
| `MCBroker` | two clients, two workers |
| `BrokerProofs` | theorems about them |
| `OtpApi` | the HTTP server's polling loop, its clients and the broker as it sees it |
| `OtpApiProperties`, `MCOtpApi` | its properties; three connections, two descriptors |
| `OtpApiProofs` | theorems about it |
| `Builder` | `gtfsdb.py` and `timetable.py`: from a GTFS feed to the tables of the timetable file |
| `Tdata` | `tdata.c`: header, accessors, `tdata_check_coherent`; `View` is the timetable as module `Timetable` has it |
| `Realtime` | a file from its building through loading to updates: `realtime.c`, `tdata_apply_gtfsrt`, alerts, the test program |
| `RealtimeProperties`, `MCRealtime` | their properties; small feeds, messages and alerts |
| `RealtimeProofs` | theorems about updates and alerts |
| `BitSet`, `RadixTree`, `HashGrid`, `Containers` | `bitset.c`, `radixtree.c`, `hashgrid.c`, `binheap.c` and `slab.c`, each with its property |
| `Profile` | `profile.c` and a reference definition of all ways |
| `MCLibrary` | these, one at a time |
| `LibraryProofs` | theorems about `BitSet`, `RadixTree`, `Containers` and `HashGrid` |
| `Request` | `parse.c`, `qstring.c`, and dates and times of `router.c` and `util.c` |
| `Json`, `Polyline` | `json.c`, `polyline.c`, each with a reader of what it writes |
| `AnswersProofs` | theorems about these three |
| `MCAnswers` | options, plans and lines, one of the three at a time |
| `Induction` | induction over indexes, existence of loop states and of ranks: lemmas for the proofs |

### Router

Variables carry the names of the C fields. One step is one stop of one route
(`BoardAtStop`, `AlightAtStop`, `PassStop`), the footpaths of one stop
(`TransferFrom`), or the end of such a loop with everything the code does there
(`EndRoutes` takes the banned stops out and starts `apply_transfers`;
`EndTransfers` clears the stops, forgets the initial walks after round 0 and
begins the next round). `StartSearch` is the prologue of `router_route`,
including the on-board case; `Reverse` is `router_request_reverse` as the drivers
call it: the search runs again whether or not the request could be reversed.
`todo` holds what an iteration over a bit set has still to visit.

* Times are the numbers of the code, reduced to 16 bits wherever an `rtime_t` is
  stored. `UNREACHED` and `CANCELED` have their values; the `uint32_t` sentinels
  `NONE`, `WALK` and `ONBOARD` are negative numbers.
* Fields of a state that no search has written hold `NONE`, which is no index: a
  read of one breaks the chain and is seen by `ChainsUnbroken`. What an earlier
  search has left is kept, as in the code.
* Sets of stops, routes and days stand for bit sets and calendar masks. A request
  has one ban of each kind instead of an array of them.
* `TripUpdate` may happen between any two steps. Within a step (one stop) the
  delay is constant. A C loop over the trips at one stop reads each delay more
  than once, so finer interleavings exist that the model does not have.
* `OnboardGuard` distinguishes the drivers: `worker.c` reverses every request, the others
  test `start_trip_trip` first. The runs have `TRUE`; the driver of `worker.c` is the
  mutant of `NoWildRead`, and fails it.
* `IsRequest` is what the parser gives; that the stops and the trip of a request exist
  is an assumption of its own, `RangeAssumption`, which no program tests: `range_check`
  is called by nothing, and the comment above it says what happens otherwise.

Operators introduced by a comment that begins with *Fault* are not part of the
model; they are the mutants of `PROJECT.json`.

### Broker

The loop has three places, `poll`, `backend` and `frontend`, because messages
arrive between them. Messages are sets: ZeroMQ reads peers in turn, so no order
between different peers is assumed, and one peer has at most one message under
way, which is one of the properties. A request is identified by its client's
socket and a number. `Die` may happen whenever a worker runs; what it works on
or has been sent is lost, and what is sent to it later is dropped, as a ROUTER
socket drops messages for a peer that is gone. A restarted worker has a new
identity. `GiveUp` is the timeout of `web-uwsgi.py`; the socket is closed and a
late reply goes nowhere. `Rest` only keeps the end of the bounded run from being
taken for a deadlock: every client has finished, or blocks on a lost request.
Interrupting the broker ends the whole system and is left out. ZeroMQ itself is
external and modelled from its use.

### OtpApi

A connection has three names: the client's (`Conn`, which only the model knows),
its index in `conn_items`, and its descriptor. The loop has the places `poll`,
`broker`, `http` and `conns` (with the index `c`); clients connect, send and hang
up between any two of its steps. `conn_items` keeps what its slots held after the
connections have left them, because `add_conn` does not reset the poll result.
`buffers` holds the one fact about a buffer that matters to control: that
`strtok` has cut its line, so that a second parse of it fails. `remove_conn` and
`remove_conn_enqueued` are the C functions. A `recv` for which there is nothing
to receive has no step, as the accepted sockets are blocking. `delivered`
records for each reply who asked and who got it. `MaxReady` bounds how many
connections have unread input at one moment; the instance has as many as poll items,
so that two are removed in one iteration. Then the second removal may miss its
connection (section 6), and `missed` is a history variable that says whether one has:
`ReplyToAsker`, `NeverBlocks` and `EveryRequestAnswered` speak of the time before
that, the other properties of all time. Descriptors are numbers, and a reply's is
taken modulo 256; the instance has small ones.

### Builder, Tdata, Realtime

`Builder` is a function from a feed to a file: which trips form a route, which
days they run on, how stop times are shared, and for each table of the file the
sequence that the export loop writes and the offsets it remembers. `Tdata` reads
it as the C programs do: the header by position, tables by offset and count, in
units of rows. Widths of strings and bytes are left out, and the first entry of
the header that the two sides would disagree on would shift all others, which
`LoadedAsPublished` would see. `T(td)!IsTimetable(View(td))` in `Coherent` ties
the file to the assumptions that the instances of `Router` start from.

`Realtime` adds the processes. A message is a sequence of pieces, one per call of
the callback; the connection may close and the process end between any two of
them. Bytes are a record of their number, of whether the header of the feed is
among them, and of the entities in them; `msg` is what the buffer holds, and
`Bytes(m, k)` what the first `k` pieces of a message amount to. Entities are
applied in their order, so that of those that name a trip the last remains: that is
how `tdata_apply_gtfsrt` says it. The delays are part of the file and outlive the
process. `expected` is the
history that `DelayAsSent` compares with: for each trip the delays that the
complete, intact messages so far allow it.

### BitSet, RadixTree, HashGrid, Containers, Profile

Loops that the property is about are steps (`ScanMoves`, `SpinMoves`, `NextEdge`,
`FindStep`, `Raise`, `Lower`, `HashGridResult_next`, `explore_route`); the others are operators.
`binheap.c` carries the element that is being placed in a local while the loop
moves others out of its way; `heap.x` and `heap.i` are that element and the place kept
for it. `HashGrid_init` fills the bins in the order of the items, so the place of an
item is known from the bins before its own and the items of its bin before it
(`InBinsBefore`, `Rank`). Memory behind
an array is a choice: the chunk behind the last may be zero or not, the item
behind the last may be any. The squares of distances are compared, in the plane.

### Request, Json, Polyline

A request is the struct with bit masks as sets. The tester starts from an
initialised request, the worker from what is in memory, and its next request from
what the last left there. Seconds count from midnight of the first day of the
calendar in standard time. `LocalTime` and `mktime` are the C library's, external.
`Json` computes the calls that the renderer makes for a plan and then performs
them one by one; the writer puts tokens with sizes, and `doc` is a reader that
follows along, so that the property is about what a client would read. `Polyline`
has the published decoding beside the encoder.

## 3. Runs

| run | instance | shows |
|---|---|---|
| `search` | 172 timetables of 4 stops and 3 routes, each with the requests that suit it, one request at a time | all properties of search, reversal and plan, and that each request is answered |
| `shared_memory` | 9 timetables, 10 different requests, two in sequence, one trip update at any step | stale scratch memory of the first request and changing delays do not break the chains, and without a change the plan can be travelled |
| `broker` | 2 clients (one impatient) with 2 requests each, 2 workers, 1 death | the queue, requests and losses, the refinement of `Service`, and progress |
| `api` | 3 connections, 2 descriptors, 2 poll items, both with unread input at a time, one lost request | a single removal finds its connection; until one of several misses, replies reach those who asked, `recv` never blocks and requests are answered; at any time only queued connections are removed and descriptors are accounted for |
| `timetable` | 217 feeds of three trips with two routes, two calendars and footpaths, their routes written in any order; one of them followed by 3 messages of 6 kinds in pieces, 2 connections, alerts | the file says what the feed said, the delays are those sent, alerts go to those they inform |
| `library` | 6 bits in chunks of 2; 3 keys of up to 5 characters, edges of 2; 3 points in a grid of 4 x 4 bins; 5 queued items; slabs of 4 bytes; 24 networks of 3 routes | each container against what it is meant to hold, and the profile search against the definition of all ways |
| `answers` | 3 options in a row for both programs in 4 seasons; 3 plans in 121 sizes of buffer; 3456 rides and 144 walks as lines | the time asked for is searched for, what is written reads back |
| `overtaking`, `cancellation`, `api_burst`, `hashgrid`, `leftovers` | see section 6 | the code differs from what its comments say |

**Bounds.** The network has two transfer points joined by a footpath, so a
journey has up to two rides and there are always alternatives to compare:
change at either, walk between them, walk out of the origin or into the target.
In a further family the routes lie end to end: journeys of three rides, or of two
rides and a walk, whose chains of back pointers pass through a walk in a later round.
Departure times vary across the point where a connection is just made, just
missed, or made only because of a walk. In a family with long walks, arrive-by requests are
for the minute before the last walk ends. In another, one route is a railway of another
operator, and requests ask for modes, operators and attributes. The evening family has trips that leave
before midnight and arrive after it, that run on the service day of the evening
before, on some days only, and one whose time passes 16 bits. Six rounds are the
`RRRR_MAX_ROUNDS` of `config.h`. Two requests in sequence are enough for memory
of the first to meet the second: a search resets or overwrites everything that it
reads, or it does not, and each field that it does not reset has been written
after one search. In the broker, a worker that dies while another works, while it
is in the queue, or with a message unread are all reached with two workers and
one death; a second request of the impatient client meets the late reply to its
first. In the HTTP server two descriptors for three connections make descriptors
run out and be used again, and two poll items make the last one move, or be
queued for removal itself. Messages of
one to four pieces meet a buffer of three units, so that they fit, fill it, or
overflow it with the last piece or an earlier one; three messages let one that
failed come between two that did not. A bit set of three chunks has one that is
empty between two that are not, and ends with a full chunk. Keys of one to five
characters with edges of two split at every place. The grid is one bin wider than
the largest ordinary query. Buffers for JSON are every size around that of each
whole answer and around the end of its parts. Four seasons put all of the
calendar into winter or summer or a change of the clocks inside it.

**Fairness.** `Router!FairSpec` assumes that the worker keeps taking steps: it is
one thread that performs no blocking call between reading a request and sending
its answer. Nothing is assumed of the realtime process. `Broker!FairSpec` assumes
that the broker's loop, each worker and each client's receive continue when they
can; workers are started; nothing forces a client to send, an impatient client
to give up, or a worker to die. `AnsweredOrLost` therefore says that a patient
client gets an answer unless its request was lost with a worker, in which case
it blocks for ever: the protocol has no timeout (`client.c`). `OtpApi!FairSpec`
assumes that the server's thread goes on and that the broker answers what it does
not lose, which is `AnsweredOrLost`; nothing is assumed of clients. `api` does
not check for deadlock, because a server without clients waits in `poll`; that it
waits nowhere else, until a removal misses, is `NeverBlocks`.

**Properties worth reading first.**

* `FindsOptimum` compares each unrestricted search with `Reachable`, the set of
  all places and times reachable with k rides, defined by quantification over
  trips and footpaths. It is about row reuse, pruning by the target's best time,
  scanning of service days, and the order of routes.
* `ReversalKeepsJourney`: a search in the opposite direction still finds a
  journey that meets the cutoff.
* `PlanTravels`: every leg exists in the timetable on one of the three days.
  States do not store the day, so this is not evident.
* `TransfersSettled`, `ChainsUnbroken`, `SearchMonotone`: the facts on which
  reading back an itinerary relies, also when delays change. `PlanConnected` is
  about the places of the legs that are read back, `PlanInTime` about their times
  (every ride of an arrive-by plan ends by the time asked for, and the itinerary with
  most rides arrives by then; a depart-after plan leaves no earlier),
  `PlanPareto` about the itineraries of one plan compared with each other.
* `RestrictionsKept`: the banned route, the hard-banned stop, modes, operator and
  attributes, the trip of a passenger on board, and the choice of what is shown, through
  up to three searches; not banned trips, stops banned otherwise and the stop to change
  at, for which the code does not (section 6).
* `RequestInOnePlace`, `OneLossPerDeath`, `ImplementsService`: what happens to a
  request, with workers dying and clients giving up.
* `ReplyToAsker`, `NeverBlocks`, `DescriptorsAccounted`: descriptors that are
  closed, used again, and named by replies that come in any order.
* `LoadedAsPublished`: every trip of the feed is found once in the loaded file,
  through all tables and offsets, with stops, times, days and names.
* `DelayAsSent`: after oversized messages, broken connections and entities that
  cannot be used, delays are those of the last message that could be applied.
* `NextSetBitExact`, `IndexExact`, `GridMissesOnlyFirst`, `ContainersSound`: each
  compares the data structure with the plain set, map or bag that it stands for.
* `ProfileComplete`: the pool holds each way without repetitions exactly once.
* `AskedTimeKept`: rounding, wrapping of the calendar and summer time, whatever
  the order of the options, and back again for the answer.
* `JsonReadsBack`, `PolylineDecodes`: a reader gets the plan and the stops back,
  or an overflow is the reason.

Some properties have hypotheses because the code does not have them without:
`PlanTravels` excludes updates during the request, the passengers on board in
`search` are on trips that have left, `PlanInTime` does not say that itineraries with
fewer rides arrive in time, nor that a plan for a passenger who prefers
few transfers leaves in time, `ReversalKeepsJourney` and
`FindsOptimum` exclude bans and filters, and the timetables of `search` have no
overtaking trips and only transitive footpaths. `GridMissesOnlyFirst` is about
boxes north of the equator, east of Greenwich and smaller than the grid,
`AskedTimeKept` excludes dates before the calendar and the hours around changes of
the clocks, `AlertsSound` says nothing of trips. Section 6 says what happens
otherwise.

## 4. Proofs

TLC explores the instances of section 3. The theorems hold for every value of the
constants: any timetable and network, any number of requests, delays, clients,
workers, connections, options or bits. Each inductive invariant below was first
checked by TLC on the instances.

### Broker

`BrokerProofs` assumes `BrokerAssumption` alone (the constants have their types;
`READY` is not a request).

| theorem | statement |
|---|---|
| `Invariance` | `Spec => [](TypeOK /\ WorkerInv)` |
| `TypeCorrect`, `PollReliable`, `QueueSound`, `RequestsInTurn`, `DeathsBoundLosses` | the properties that follow from it |
| `RequestInvariance`, `RequestsConserved` | `RequestInv`, and from it `RequestInOnePlace` |
| `Implementation` | `Spec => ImplementsService`: every step is a step of `Service` or leaves it unchanged |

*Argument.* Each worker owns one token. The token is its unread message to the
broker, its entry in the queue, the request on its way to it, the request it
works on, or the request lost with it. `WorkerInv` says that the token is in one
of these places only and that the place agrees with the worker's state. Neither
`AvailableWorkersIdle` nor `OneLossPerDeath` is inductive alone: the first needs
that a worker with an unread message has no entry in the queue (`MessageInv`),
the second that a worker which has cost a request can neither be in the queue nor
return to it (`LostInv`). `PollStillTrue` needs no more than that messages are
removed only by the broker.

Requests are treated in the same way: `At` names the place of a request, the
lemma `MovePreserves` says that moving one request from one place to at most one
other keeps `RequestInv`, and each action is shown to be such a move. `RequestInv`
adds that a request that has not been sent is nowhere.

The refinement maps each request to its status as its client sees it, and each
death to the request it cost. `LossIsLose` is its core: a request that is lost was
somewhere else before, so it was pending or abandoned, and the worker had cost no
other.

### Router

`RouterProofs` assumes `RouterAssumption` (timetables have the shape that the
builder gives them, requests that of the parser), `RangeAssumption` (the stops and the
trip of a request exist, which is up to the client: no program tests it) and, as a hypothesis of each
theorem, `OnboardGuard`: the driver tests `start_trip_trip` before it reverses, as
`worker-web.c` and `tester.c` do. `worker.c` does not, and `OnBoardNeverReversed` is
false for it.

| theorem | statement |
|---|---|
| `SearchInBounds`, `OnBoardNeverReversed` | `[]TypeOK`, `[]NoWildRead` |
| `SearchesProgress` | `SearchMonotone` |
| `TransfersAlwaysSettle` | `[]TransfersSettled` |
| `ItinerariesComplete` | `[]ChainsUnbroken` |
| `PlansConnect` | `[](StartTripLeft => PlanConnected)` |
| `BansHold` | `[]BannedRouteNotRidden`, a part of `RestrictionsKept` |
| `RidesPayOff` | `[]PlanPareto` |

Delays may change between any two steps of these: nothing here depends on the
times of a trip staying the same. Nor does anything depend on the order of the
routes, on overtaking, on transitive footpaths or on what the scratch memory
contained, which the properties that are only checked do.

*Argument.* `TypeInv` adds to `TypeOK` what makes the next subscript valid: the
copy of the request is well formed while it is worked on, a request on board is
searched once and never reversed, and a trip that is ridden is a trip of its
route. `TransfersSettled` is inductive with `SettledInv`, which says of each
flagged stop what holds before and after `apply_transfers` has visited it.

`ChainInv` is about the memory that is used again. A row is *lent* while it holds
the initial state of row 1. In every other row that can be read, a walk that is
not unreached begins at a stop *ridden* to in the same round, and a ride begins at
a stop reached by a walk of the round before (`WalksInv`); times of all rows are
reset when a search starts, and everything else is only read where the time was
set, so nothing that an earlier search left is read. `LentInv` says that
`initialize_transfers` forgets exactly the stops that the initial state wrote,
`RoutesInv` that routes to be scanned are not banned ones, which `BansHold` needs.
`ChainsUnbroken` then follows by induction along the chain, from the last round
down to the first, and the legs are computed from it (`WalkLegEnds`, `RideLegEnds`
and their like). `StartTripLeft` leaves out the passenger on board
whose trip has not left (section 6).

`ParetoInv` is needed because a round is compared with the best time only, not
with the rounds before: the best time of a stop is no worse than any time at which
it was reached (`BestInv`), so what a round records beats them all
(`RecordedInv`), and so does a walk that starts there (`RoundsInv`). `RankExists`
ties the i-th itinerary to a round.

### Journeys

`JourneyProofs` builds on these theorems, under the same assumptions.

| theorem | statement |
|---|---|
| `PlansTravel` | `[]PlanTravels` |
| `ConnectionsKept` | `[]ConnectionsMade`, a part of `PlanInTime` |
| `HardBansHold`, `RenderingBest` | `[]HardBanKept`, `[]RenderedBest`, parts of `RestrictionsKept` |
| `FiltersHold` | `[]FiltersKept`, a part of `RestrictionsKept`: modes, agency, attributes |
| `RestrictionsHold` | `[](preq.start_trip_trip = NONE => RestrictionsKept)`: these, the banned route, and nothing of banned trips, stops banned otherwise and the stop to change at |

`PlanTravels` speaks of requests during which no delay was written, as a ride
recorded before a delay came has the times from before. `ConnectionsKept` holds
without that condition: the times of a ride are compared with those of the walk
before it as they are recorded, whatever they were computed from.

*Argument.* A plan is read from back pointers that were written in several rounds, so
the invariant has to say of every state that can be read what a leg made of it will
claim. `JourneyInv` has one part per place where the search keeps such a claim:

* `AboardInv`: the trip held in the locals of the scan runs on one of the three days,
  has the mode, the agency and the attributes asked for,
  was boarded at a place behind the current one where that is allowed, with no
  hard-banned stop in between, at a time no earlier than the walk to that stop ended
  (`Aboard`, `Connects`). The service day is a witness: no state stores it.
* `FlaggedRides`, `WalksFit`: a stop that is flagged has such a ride in its state
  (`Rode`), and a walk that is recorded begins at a stop with one and takes the time of
  the footpath, exactly and without wrapping (`WalkFits`).
* `LentWalks`: the same for the walks of the initial state, which borrows row 1.
* `OriginInv`: the origin keeps the time that was asked for. Nothing beats it there,
  because no search records a time before its own beginning; without it the first leg
  could begin with the time of a ride that comes back to the origin.
* `CleanInv`, `BoundInv`: no walk is recorded while a round still rides, and no round
  comes after the last.

Everything is stated in the direction of the search, where an arrive-by search boards
where the passenger will alight; `LegsAlong` turns the legs around. `AskedInv` ties the
copy of the request that is searched for to the one that was asked, through all
reversals. `PlanTyped` and `RidesPayOff` give `RenderingBest`: the first itinerary has
the fewest rides and the last the best time.

`StaysOnBoard`, the part of `RestrictionsKept` about the first ride of a passenger on
board, is not proved: the trip is looked up again from the stop and time of its last
call, so it needs that no other trip of the route has the same departure and that the
delays stay.

### Realtime

| theorem | statement |
|---|---|
| `DelaysAsSent` | `Spec => []DelayAsSent` |
| `AlertsAreSound` | `Spec => []AlertsSound` |
| `RealtimeInvariant` | the invariant below |

*Assumptions.* `MessagesAssumption`: only the last piece of a message is final and
complete, and where there are no bytes there is no entity; the protocol has it so.
`NullAssumption`: `NULL` is no number. `TablesAssumption` is what the tables of the
builder owe the loader: each trip is listed once, each place of the trips belongs to
a route, ids are numbered, and the stops of a route are stops. It is about
`Builder`, whose sorting and concatenation are beyond the prover; TLC evaluates it
for the feeds of the run and all orders of bundles, where `LoadedAsPublished` asks
much more.

*Invariant.* `FileInv`: the file differs from the one that was built in delays at
most. `DelaysInv`: each delay is an expected one at any moment, not only between
messages. `BufferInv`: the buffer is empty between messages; within one it holds
bytes of that message and no other, an empty buffer holds nothing, and if the message
fits the buffer it holds exactly the pieces that have arrived. `AlertsInv`: an alert
holds the indexes, in the tables of the file as it is now, of what it was sent with.

*Argument.* `DelayAsSent` alone is not inductive: that a last frame completes its own
message, and not the rest of one that was dropped, is what `BufferInv` is for. A
piece that ends no message leaves the file alone (`PieceArrives`). The one that does
(`MessageEnds`) finds all that came before in the buffer, or the message does not
fit; `WholeDelays` and `PartDelays` say what remains in either case, and rest on
`MessageApplied`, that an index leads to the trip that has the id and no other. A
frame without bytes is told from none at all by nobody, `WithNothing`. For alerts,
`IndexStandsFor`: the marker of an unknown id is neither `NULL` nor the index of
anything.

### BitSet, RadixTree, Containers, HashGrid

`LibraryProofs`, from the assumptions on the constants alone (`CapacityAssumption`,
`ContainersAssumption`, `HashGridAssumption`, `RadixTreeAssumption`: sizes and widths are
positive numbers, coordinates are integers, keys are sequences of characters other than
the one that ends a string).

| theorem | statement |
|---|---|
| `NextSetBitFindsLeast` | `BitSetSpec => []NextSetBitExact` |
| `ContainersKeep` | `ContainersSpec => []ContainersSound` |
| `GridQueries` | `HashGridSpec => []GridMissesOnlyFirst` |
| `RadixTreeExact` | `RadixTreeSpec => []IndexExact` |

*Bit set*, for every capacity and chunk size: `BitSetInv` says that index, chunk and
mask select the same bit and that there is no member between the argument and the
index, across the step from the loop over bits to the loop over chunks.

*Heap*, for every sequence of insertions and extractions: `HeapOK`. While a loop moves
an element, the array itself holds one element twice and lacks the one under way.
The invariant is about `Placed`, the array with that element at the place kept for it:
it holds what is queued, each once (`Holds`), and is in order but for the edges at
that place (`RaiseOrder`, `LowerOrder`), where the order holds across the place. That
last part is what makes a move keep the rest (`RaiseMoves`, `LowerMoves`);
`RootLeast` turns the order of neighbours into the least element at the top.

*Slab*: `SlabOK` says that what has been handed out lies below the offset of its slab
and apart from everything else there.

*Grid*, for every set of points and every query: `GridInv`. That the array of items is
filled without a gap is counting: items take places (`PlaceInArray`) that differ
(`PlacesDiffer`), so they take all of them (`PlacesFilled`). A query walks the bins of a
box, wrapping at the edge of the grid; `InOrder` counts the bins from the corner of
the box before they are wrapped, and `Walked` says that what lies in the bins passed and
within the box has been returned, the first item of the first bin apart (section 6).
`BoxFits` and `NearAlongAxis` show that no two bins of the box wrap onto one and that an
item of another cell in the same bin is outside the box.

*Radix tree*, for every alphabet, length of an edge, and sequence of insertions and
look-ups: `RadixTreeInv`. What an edge means depends on all edges above it, and a split
moves whole subtrees without visiting them; a definition by recursion from the root
could not be reasoned about. So each edge `f` is given a word `W[f]` that passes through
it and the depths `B[f]` and `C[f]` between which it holds that word's characters; they
are witnesses, no variable stores them. `Tree` relates them edge by edge: levels are
chained in the order of allocation (`Chained`), the child is the first edge of its
level and each level has a parent (`Parented`), and an edge that agrees with the first
character of another, at or above its level, lies on the way to it (`Branching`).
`Numbered` says that values are the numbers of strings that end there, `Fresh` that an
empty edge is the root of an empty tree or the one being filled, and `At` and
`PassedBy` where a search or an insertion has come to: the word agrees with the key
that far, and the edges passed begin with other characters. A split changes the witnesses
of two edges (`CutTree`); filling an edge is sound because a level without an edge for
the next character has none anywhere (`EndOfLevel`, `NothingBelow`); a key that ends
inside an edge is at no other (`NotInside`). That every edge is reached and hangs once
follows from `Tree` by its depths (`AllReached`, `HangsOnce`).

### OtpApi

| theorem | hypotheses | statement |
|---|---|---|
| `NoConnectionDropped` | - | `OnlyQueuedRemoved`, a part of `RemovalsExact` |
| `NoOtherLeak` | `ByteDescriptors` | `[]DescriptorsAccounted` |
| `OneRemovalFinds` | `ByteDescriptors` | `MissedOnlyInBursts`, the other part |
| `RemovalsFaithful` | `ByteDescriptors` | `RemovalsExact` |
| `ServerNeverBlocks`, `RepliesReachAsker` | `ByteDescriptors` | `[]NeverBlocks`, `[]ReplyToAsker` |

`ByteDescriptors`: every descriptor survives the byte in which a reply carries it
(`otp_api.c:339`). Any number of connections may have unread input: the theorems
are about the loop over all of them. What they claim holds until a removal misses its
connection (`missed`), and `OneRemovalFinds` says when that can be; `RemovedWhenSent`,
the comment at `otp_api.c:344`, is false after it (`api_burst`).

*Argument.* `remove_conn_enqueued` is a loop over the queue in which each removal
moves the last connection. `LoopExists` gives the list after each iteration, and
the induction shows that an item is only overwritten if it is queued, because the
queue is in the order of the indexes (`QueueInv`); a connection that was moved
keeps descriptor and buffer. `KeptInv` accounts for each open descriptor.
`WholeInv`, which holds until a removal misses, says that items that stay are open,
distinct and not waiting for a reply (`ListInv`), that the descriptor of a request is
still its connection's (`AskerInv`), and that `n_waiting` counts the sockets not served
yet and the items still to be read, each of which has its input (`WaitingInv`,
`ToRead`): so the loop ends before an item whose poll result is an older connection's. `RemovalRenumbers` and `MissedStays` carry the list
over the end of an iteration: either every queued connection has left it, or `missed`.

### Request, Json, Polyline

| theorem of `AnswersProofs` | statement |
|---|---|
| `SearchForAskedTime` | `RequestSpec => []AskedTimeKept` |
| `TextInBuffer` | `JsonSpec => []TextFits` |
| `LineDecodes` | `PolylineSpec => []PolylineDecodes` |

*Request*, from `RequestAssumption`: seconds of a day are seconds of a day, summer begins
before it ends, the time zone is east of Greenwich, and the memory a request is parsed
into has the fields of a request, with anything in them. `AskedTimeKept` says nothing of
dates before the calendar and of the first hour of a summer day (`Ordinary`), where the
code is wrong (section 6). `DateInv` says that the fields that a date decides
stay as the last date left them until the search, and that rounding for a
departure happens once. `WrapKeepsWeekday` is the arithmetic of days after the
calendar, `DayOfDate` and `SummerOfDay` that of summer time.

*Text*, from `JsonAssumption`: a number takes no more characters than the writer asks
room for before it is printed. Each step of the writer leaves the room between zero and
the buffer less one (`InBuffer`), whether it overflows or has done so before. That the
text reads back as the plan (`JsonReadsBack`) remains with TLC.

*Line*, from `PolylineAssumption`: stops are on the globe, and a ride goes from a stop of
its route to one that is not before it. That the line reads back is claimed unless a
difference is negative and less than a step (`NoSmallStepBack`; section 6). `PolylineDecodes` has three parts, and each its
invariant. `LineFits` is inductive, because two numbers take at most twelve characters
(`LastChunk`, `NumbersFit`). For `LineReads`, `DecodeInv` says that a decoder which has
read the buffer is between two points and stands close to the last point that was put
there. A step appends two numbers: `NumberIsRead` follows the decoder over the chunks of
one (`ChunkMore` adds one chunk, `HighZero` says that nothing is lost behind the last),
`DifferenceIsRead` says that the number with its sign is the difference to less than a
step, and `CloseStep` adds that to what the line was off before. That the difference of
two points on the globe fits into 30 bits needs their bounds (`PointType`). For
`LineOfLeg`, `RideInv` says which stops have been drawn when the loop is at any place.

### Only model-checked

* Liveness (`AnsweredOrLost`, `RequestAnswered`, `EveryRequestAnswered`): out of
  the prover's reach.
* `FindsOptimum`, `ReversalKeepsJourney`: they compare a search with a recursive
  reference definition, and hold under conditions on the timetable (no overtaking,
  transitive footpaths) that the instances satisfy.
* The parts of `PlanInTime` other than `ConnectionsMade`: that a ride ends after it
  begins, and that what the cutoffs decide of a plan is by the time asked for.
  Both need schedules that do not go back in time, delays that do not change and times
  that do not wrap, which the instances satisfy and `IsTimetable` does not say.
* `StaysOnBoard`, a part of `RestrictionsKept`, for the reason above.
* `LoadedAsPublished` and `Coherent` of `Tdata` and `Builder`, `ProfileComplete`, and
  `JsonReadsBack` but for `TextFits`: what they compute is given by folds and selections over sequences with an operator as
  argument. The library's induction takes an operator too and cannot be
  instantiated. Module `Induction` goes around this by induction over sets of
  indexes, which serves loops that are functions of an index, but not those
  operators.

## 5. Not modelled

* The wording of text output, dumps, and the scanning of characters in command
  lines and query strings: no state depends on them.
* The import of GTFS tables into SQLite and the footpaths that `transfers.py`
  computes from positions: SQL and floating point.
* Projections and distances on the sphere (`geometry.c`), for the same reason.
* `rxt_compress`, `router_request_next` in the visualisers, `range_check`: called
  by nothing, or by drawing programs only.
* `intset.c`, `list.h` and `trie.c`: a test program of its own, a header that is
  included and not used, and a console's completion.
* Visualisers, consoles, `struct_test.c`: drawing and interactive input.
* `gtfs-realtime.pb-c.*`: generated; the wire format is external.

## 6. Where the code differs from what it says

Each of these is a run that ends in a counterexample:

* `overtaking`: the reversed search boards the trip that is best at the boarding
  stop. If that trip is overtaken, no trip meets the cutoff and the answer is
  empty, although the first search had found a journey.
* `cancellation`: a canceled trip is stored as delayed by nine hours.
* `api_burst`: of two connections removed in the same iteration, one of them the
  last of the list, the second is not removed. It is still polled while its
  request is at the broker, and after its descriptor has been closed. The descriptor may
  also be given to a new client before the iteration comes to it: `recv` is then called
  on a connection that has sent nothing, and the server waits for that client, for good
  if it is silent.
* `hashgrid`: a query never returns the first item of its first bin, because the
  index is incremented before the first read.
* `leftovers`: a worker for the web never initialises a request; bans, modes and
  the date of the request before stay in force.

Met while modelling, and kept out of the instances instead of given a run:

* Trips with dwell times: re-boarding is attempted at a stop where one could
  alight, which hides the alighting (`router.c:555-615`). A stop with pick-up only
  prevents re-boarding in the same way (`router.c:549`).
* Footpaths that are not transitive: a walk is only taken from the stop where a
  ride ends, so a better journey along two footpaths is not found (`router.c:186`).
* A trip delayed beyond the scheduled time range of its route is not considered
  (`router.c:567`).
* Walks do not respect `time_cutoff` (`router.c:178`). An arrive-by request is answered
  by the search reversed from its result, with the time asked for as cutoff; rides end
  by then, but a walk into the target may not. With the footpath from 2 to 3 of
  `LongWalks`, whoever asks to arrive by 8:27 is also offered 8:28. The comment at
  `router.c:723` says that this is checked; the check is commented out. With few
  transfers preferred, a depart-after plan may leave too early in the same way.
  `PlanInTime` says what is left: rides end in time, and so does the itinerary with most
  of them.
* A banned stop is still boarded at when reached on foot (`router.c:664`); a
  hard-banned stop likewise, which can make the reversed search lose the journey.
* A passenger asks to start on a trip that has not left by the time asked for. No
  previous stop is found (`router.c:409`), so the search sets out from the stop of
  the request, but the plan is written as for a passenger on board (`router.c:836`
  tests `start_trip_trip` only) and begins `ONBOARD`: not "at from location", as
  `check_plan_invariants` wants it (`router.c:714-717`). With such a request TLC
  finds `PlanConnected` violated; the proof of that property met the case, and
  `PlansConnect` has its absence as its hypothesis.
* The HTTP server reads the descriptor of a reply from one byte
  (`otp_api.c:339`), so replies go astray once it has descriptors above 255:
  connections that wait for a reply do not count against `MAX_CONN`.
* A refused connection is announced as closed ("Connection: close",
  `otp_api.c:42`) but its descriptor never is (`otp_api.c:233-236`).
* `read_input` looks for the end of the line one byte past what it received
  (`otp_api.c:185`), where the buffer may hold an older request. `recv` errors
  are added to the size of the buffer (`otp_api.c:167-177`), and a client that fills
  the buffer without ending its line has its next `recv` called with length zero, which
  is taken for its hanging up (`otp_api.c:166-181`).
* A delay that changes between boarding and alighting gives a ride that ends
  before it begins (`tdata.c:505`).
* `worker.c:66` reverses the requests of passengers on board, whose `from` the search has
  replaced by `ONBOARD`, and indexes the states with it; `reversal.c:28` says not to.
  With `OnboardGuard = FALSE`, `NoWildRead` fails.
* A stop to change at (`via`) is a preference only: rides are boarded there again
  (`router.c:528`), and plans that do not pass it are given all the same.
* A banned trip is boarded: the `continue` belongs to the loop over the bans
  (`router.c:577`).
* `check_plan_invariants` reports every plan with a leg (`router.c:743`, `746`).
* Timetable: `n_agencies` is the highest index in use, one too few
  (`tdata.c:303-353`); a headsign of one trip stands for the whole route;
  `find_max_service`
  counts the weekday services of each day for the day before (`gtfsdb.py:397`).
* Realtime: an entity without a vehicle ends its message (`tdata.c:480`), which
  `DelayAsSent` takes into account; delays persist in the file, and the test
  program clears them for everyone. The index of route ids knows the last of
  several search routes with an id, so alerts miss the others; alerts for trips
  compare an index in the whole timetable with one in the route
  (`router.c:899-924`); four bytes are copied over ids that may be shorter
  (`tdata.c:558`).
* Grid: bins are reflected west of Greenwich and south of the equator
  (`hashgrid.c:24-36`), and an empty bin is read through to the next, at the end
  past the array (`hashgrid.c:78`).
* Lists: `LinkedList_pop` leaves `tail` dangling when the list becomes empty;
  `IntSet_new` clears memory that has not been initialised. `rxt_compress` may
  loop. In `explorer.c` loop conditions joined by `||` never end.
* Profile: the least time starts at `UNREACHED` and is one unit too small
  (`profile.c:63`); differences of minima over trips are no minima of differences,
  though the comment calls all statistics additive (`profile.c:48`); the time of
  transfers is passed along and not used (`profile.c:136`).
* Dates: the first hour of a day in summer counts as the day before; dates before
  the calendar wrap to any weekday, where the comment promises the same one
  (`router.c:1050`); the answer for the day on which clocks go forward bears the
  date of the day before. The tester without `-D` searches from `UNREACHED`. A
  time on the first day of 1970 is shifted by the time zone (`util.c:69-96`).
* Options: the route of a banned trip without the trip (`-z` with an odd number of tokens) gives
  `strtok`'s NULL to `strtol` and ends the worker (`parse.c:148-149`); the model takes
  whole pairs only. Stops that do not exist are accepted (`router.c:1149` is called by
  nothing).
* JSON: control characters go into strings as they are, behind a backslash
  (`json.c:43-57`), which the model, with sizes for strings, cannot see;
  nothing tells the client of an overflow, and eight legs come near the 8000
  bytes (`worker-web.c:55`); times of intermediate stops lack the service day
  (`json.c:325-348`); the modes are always "WALK" unless all are asked for; an
  itinerary on foot has -1 transfers; `plan_render` tests for overflow after
  writing. The query string is used up to a NUL that the frame need not have
  (`worker-web.c:66`), and keys of a query are not decoded (`qstring.c`).
* Polyline: a difference that is negative and less than a step becomes a jump of
  half the globe, and cutting towards zero drifts (`polyline.c:37`); a route that
  calls at the last stop before the first has an empty line.

## 7. Plan

In order:

1. The rest of `PlanInTime`, for requests during which no delay changes and schedules
   that do not go back in time: that the reversed search finds the ride that met the
   cutoff is `ReversalKeepsJourney`, which needs a proof that a search is optimal.
2. `StaysOnBoard`, from an assumption that departures of a route differ.
3. A completion model of `trie.c`, if the console is to be kept.
