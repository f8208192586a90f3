--------------------------- MODULE BrokerProperties ----------------------------
(***************************************************************************)
(* What the broker guarantees its workers and its clients.                 *)
(***************************************************************************)
EXTENDS Broker

\* Messages and states are of the kinds the sockets carry.
TypeOK ==
    /\ sent \in [Client -> 0..MaxRequests] /\ waiting \subseteq Client /\ answered \subseteq Request
    /\ frontend \subseteq Request /\ replies \subseteq Request
    /\ backend \subseteq Worker \X (Request \cup {READY})
    /\ inbox \in [Worker -> SUBSET Request]
    /\ wstate \in [Worker -> {"down", "waiting", "busy", "gone"}]
    /\ job \in [Worker -> Request \cup {NoRequest}]
    /\ lost \subseteq Worker \X Request
    /\ deaths \in 0..MaxDeaths
    /\ pc \in {"poll", "backend", "frontend"}
    /\ revents \subseteq {"backend", "frontend"}
    /\ workers \in Seq(Worker)

--------------------------------------------------------------------------------
(***************************************************************************)
(* The queue of workers.                                                   *)
(***************************************************************************)
\* The poll result is still true when the broker acts on it: it never pops a
\* worker from an empty queue (broker.c:61), nor blocks reading a socket that has
\* nothing for it while the other has.
PollStillTrue ==
    /\ (pc = "backend" /\ "backend" \in revents) => backend # {}
    /\ (pc \in {"backend", "frontend"} /\ "frontend" \in revents) => frontend # {} /\ workers # <<>>

\* The broker takes a worker for available only while it waits for work, or is
\* gone: no worker is in the queue twice, and none of them has a request or a
\* message under way.
AvailableWorkersIdle ==
    \A i \in DOMAIN workers :
        /\ wstate[workers[i]] \in {"waiting", "gone"}
        /\ inbox[workers[i]] = {}
        /\ \A m \in backend : m[1] # workers[i]
        /\ \A j \in DOMAIN workers : workers[i] = workers[j] => i = j

\* A worker has at most one request on its way, and that only while it waits: its
\* REQ socket never sees a message out of turn.
OneRequestPerWorker ==
    \A w \in Worker : inbox[w] # {} => wstate[w] = "waiting" /\ \E r \in Request : inbox[w] = {r}

--------------------------------------------------------------------------------
(***************************************************************************)
(* Requests.                                                               *)
(***************************************************************************)
\* Where a request can be: on a socket of a client, or with a worker.
Place == {"frontend", "inbox", "job", "backend", "lost", "replies", "answered"} \X (Client \cup Worker)

At(r, p) ==
    \/ p[1] = "frontend" /\ p[2] = r[1] /\ r \in frontend
    \/ p[1] = "inbox" /\ p[2] \in Worker /\ r \in inbox[p[2]]
    \/ p[1] = "job" /\ p[2] \in Worker /\ job[p[2]] = r
    \/ p[1] = "backend" /\ p[2] \in Worker /\ <<p[2], r>> \in backend
    \/ p[1] = "lost" /\ p[2] \in Worker /\ <<p[2], r>> \in lost
    \/ p[1] = "replies" /\ p[2] = r[1] /\ r \in replies
    \/ p[1] = "answered" /\ p[2] = r[1] /\ r \in answered

Places(r) == {p \in Place : At(r, p)}

\* The client of the request is waiting for its reply.
Awaited(r) == r[1] \in waiting /\ r = Current(r[1])

\* No request is served twice, and the request of a waiting client never vanishes:
\* it is in exactly one place, until it is answered or lost with a worker.
RequestInOnePlace ==
    \A r \in Request :
        /\ \A p, q \in Places(r) : p = q
        /\ Awaited(r) => Places(r) # {}

\* Each worker that dies costs at most one request, although its identity stays in
\* the queue, and a request is lost only to the death of a worker.
OneLossPerDeath ==
    \A x \in lost :
        /\ wstate[x[1]] = "gone"
        /\ \A y \in lost : x[1] = y[1] => x = y

\* A worker whose message the broker has not read yet has sent no other, and has
\* nothing else under way.
MessageInv ==
    \A m \in backend :
        /\ wstate[m[1]] \in {"waiting", "gone"} /\ inbox[m[1]] = {}
        /\ \A k \in backend : k[1] = m[1] => k = m

JobInv == \A w \in Worker : job[w] # NoRequest <=> wstate[w] = "busy"

\* A worker that has cost a request gets no other.
LostInv ==
    \A x \in lost :
        /\ \A i \in DOMAIN workers : workers[i] # x[1]
        /\ \A m \in backend : m[1] # x[1]

\* The inductive invariant behind the properties of workers: a worker has one
\* token, which is in one place (its message to the broker, the queue, its inbox,
\* its job, or a lost request), and the place agrees with the worker's state.
WorkerInv ==
    /\ PollStillTrue /\ AvailableWorkersIdle /\ OneRequestPerWorker /\ OneLossPerDeath
    /\ MessageInv /\ JobInv /\ LostInv

\* The inductive invariant behind RequestInOnePlace: no request is anywhere before
\* it is sent.
RequestInv ==
    /\ RequestInOnePlace
    /\ \A r \in Request : Places(r) # {} => r[2] <= sent[r[1]]

--------------------------------------------------------------------------------
(***************************************************************************)
(* Progress, and the abstract service.                                     *)
(***************************************************************************)
\* Every request is answered, unless its client gives up or it is lost with a
\* worker: stale identities in the queue do not keep the others from working.
AnsweredOrLost ==
    \A r \in Request :
        Awaited(r) ~> (~Awaited(r) \/ \E w \in Worker : <<w, r>> \in lost)

\* The status of a request as its client sees it.
Status(r) ==
    IF r[2] > sent[r[1]] THEN "unsent"
    ELSE IF \E w \in Worker : <<w, r>> \in lost THEN "lost"
    ELSE IF r \in answered THEN "answered"
    ELSE IF Awaited(r) THEN "pending"
    ELSE "abandoned"

Promised == INSTANCE Service WITH
    status <- [r \in Request |-> Status(r)],
    gone <- {w \in Worker : wstate[w] = "gone"},
    charged <- {x[1] : x \in lost}

\* The broker with its workers implements the abstract service.
ImplementsService == Promised!Spec

================================================================================
