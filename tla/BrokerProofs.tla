----------------------------- MODULE BrokerProofs ------------------------------
(***************************************************************************)
(* The broker's guarantees, for any number of clients, workers, requests   *)
(* and deaths.                                                             *)
(***************************************************************************)
EXTENDS BrokerProperties, TLAPS

\* The step of the type invariant, one case for each action.
LEMMA TypeOKStep == TypeOK /\ WorkerInv /\ [Next]_vars => TypeOK'
<1> SUFFICES ASSUME TypeOK, WorkerInv, [Next]_vars PROVE TypeOK'
  OBVIOUS
<1> USE BrokerAssumption DEF TypeOK
<1>1. CASE UNCHANGED vars
  BY <1>1 DEF vars, clientVars, workerVars, brokerVars
<1>2. ASSUME NEW c \in Client, SendRequest(c) PROVE TypeOK'
  BY <1>2 DEF SendRequest, Request, workerVars, brokerVars
<1>3. ASSUME NEW c \in Client, ReceiveReply(c) PROVE TypeOK'
  BY <1>3 DEF ReceiveReply, Current, workerVars, brokerVars
<1>4. ASSUME NEW c \in Client, GiveUp(c) PROVE TypeOK'
  BY <1>4 DEF GiveUp, workerVars, brokerVars
<1>5. ASSUME NEW w \in Worker, StartWorker(w) PROVE TypeOK'
  BY <1>5 DEF StartWorker, clientVars, brokerVars
<1>6. ASSUME NEW w \in Worker, TakeRequest(w) PROVE TypeOK'
  BY <1>6 DEF TakeRequest, clientVars, brokerVars
<1>7. ASSUME NEW w \in Worker, SendReply(w) PROVE TypeOK'
  BY <1>7 DEF SendReply, Respond, WorkerInv, JobInv, clientVars, brokerVars
<1>8. ASSUME NEW w \in Worker, Die(w) PROVE TypeOK'
  BY <1>8 DEF Die, clientVars, brokerVars
<1>9. CASE Poll
  BY <1>9 DEF Poll, Readable, Polled, clientVars, workerVars
<1>10. ASSUME NEW m \in backend, ReadBackend(m) PROVE TypeOK'
  BY <1>10 DEF ReadBackend, clientVars, workerVars
<1>11. CASE SkipBackend \/ SkipFrontend
  BY <1>11 DEF SkipBackend, SkipFrontend, clientVars, workerVars
<1>12. ASSUME NEW r \in frontend, ReadFrontend(r) PROVE TypeOK'
  BY <1>12 DEF ReadFrontend, WorkerInv, PollStillTrue, clientVars, workerVars
<1> QED
  BY <1>1, <1>2, <1>3, <1>4, <1>5, <1>6, <1>7, <1>8, <1>9, <1>10, <1>11, <1>12
  DEF Next, BrokerStep, Rest

\* The step of the worker invariant, one case for each action.
LEMMA WorkerInvStep == TypeOK /\ WorkerInv /\ [Next]_vars => WorkerInv'
<1> SUFFICES ASSUME TypeOK, WorkerInv, [Next]_vars PROVE WorkerInv'
  OBVIOUS
<1> USE BrokerAssumption DEF TypeOK
<1> USE DEF WorkerInv, PollStillTrue, AvailableWorkersIdle, OneRequestPerWorker,
            OneLossPerDeath, MessageInv, JobInv, LostInv
<1>1. CASE UNCHANGED vars
  BY <1>1 DEF vars, clientVars, workerVars, brokerVars
<1>2. ASSUME NEW c \in Client, SendRequest(c) PROVE WorkerInv'
  BY <1>2 DEF SendRequest, workerVars, brokerVars
<1>3. ASSUME NEW c \in Client, ReceiveReply(c) PROVE WorkerInv'
  BY <1>3 DEF ReceiveReply, workerVars, brokerVars
<1>4. ASSUME NEW c \in Client, GiveUp(c) PROVE WorkerInv'
  BY <1>4 DEF GiveUp, workerVars, brokerVars
<1>5. ASSUME NEW w \in Worker, StartWorker(w) PROVE WorkerInv'
  BY <1>5 DEF StartWorker, clientVars, brokerVars
<1>6. ASSUME NEW w \in Worker, TakeRequest(w) PROVE WorkerInv'
  BY <1>6 DEF TakeRequest, clientVars, brokerVars
<1>7. ASSUME NEW w \in Worker, SendReply(w) PROVE WorkerInv'
  BY <1>7 DEF SendReply, Respond, clientVars, brokerVars
<1>8. ASSUME NEW w \in Worker, Die(w) PROVE WorkerInv'
  <2> USE <1>8 DEF Die, clientVars, brokerVars
  <2>1. \A x \in lost : x[1] # w
    OBVIOUS
  <2>2. \A x \in lost' \ lost : /\ x \in Worker \X Request /\ x[1] = w
                                 /\ \/ x[2] \in inbox[w]
                                    \/ x[2] = job[w] /\ job[w] # NoRequest
    OBVIOUS
  <2>3. \A x, y \in lost' \ lost : x = y
    BY <2>2
  <2>4. \A x \in lost' \ lost : /\ \A i \in DOMAIN workers : workers[i] # w
                                 /\ \A m \in backend : m[1] # w
    BY <2>2
  <2>5. OneLossPerDeath'
    BY <2>1, <2>2, <2>3
  <2>6. LostInv'
    BY <2>2, <2>4
  <2>7. AvailableWorkersIdle'
    OBVIOUS
  <2>8. (PollStillTrue /\ OneRequestPerWorker /\ MessageInv /\ JobInv)'
    OBVIOUS
  <2> QED
    BY <2>5, <2>6, <2>7, <2>8
<1>9. CASE Poll
  BY <1>9 DEF Poll, Readable, Polled, clientVars, workerVars
<1>10. ASSUME NEW m \in backend, ReadBackend(m) PROVE WorkerInv'
  <2> USE <1>10 DEF ReadBackend, clientVars, workerVars
  <2>1. m[1] \in Worker
    OBVIOUS
  <2>2. /\ DOMAIN workers' = 1..(Len(workers) + 1) /\ DOMAIN workers = 1..Len(workers)
        /\ \A i \in DOMAIN workers' : workers'[i] = IF i <= Len(workers) THEN workers[i] ELSE m[1]
    BY <2>1
  <2>3. \A i \in DOMAIN workers : workers[i] # m[1]
    OBVIOUS
  <2>4. AvailableWorkersIdle'
    BY <2>1, <2>2, <2>3
  <2>5. LostInv'
    BY <2>1, <2>2
  <2>6. (PollStillTrue /\ OneRequestPerWorker /\ OneLossPerDeath /\ MessageInv /\ JobInv)'
    BY <2>1
  <2> QED
    BY <2>4, <2>5, <2>6
<1>11. CASE SkipBackend \/ SkipFrontend
  BY <1>11 DEF SkipBackend, SkipFrontend, clientVars, workerVars
<1>12. ASSUME NEW r \in frontend, ReadFrontend(r) PROVE WorkerInv'
  <2> USE <1>12 DEF ReadFrontend, clientVars, workerVars
  <2> DEFINE w == Head(workers)
  <2>1. /\ workers # <<>> /\ w \in Worker /\ w = workers[1] /\ 1 \in DOMAIN workers
        /\ DOMAIN workers = 1..Len(workers) /\ DOMAIN workers' = 1..(Len(workers) - 1)
        /\ \A i \in DOMAIN workers' : i + 1 \in DOMAIN workers /\ workers'[i] = workers[i + 1]
    OBVIOUS
  <2>2. \A i \in DOMAIN workers' : workers'[i] # w
    BY <2>1
  <2> HIDE DEF w
  <2>3. /\ wstate[w] \in {"waiting", "gone"} /\ inbox[w] = {}
        /\ \A m \in backend : m[1] # w
        /\ \A x \in lost : x[1] # w
    BY <2>1
  <2>4. \A v \in Worker : v # w => inbox'[v] = inbox[v]
    BY <2>1 DEF w
  <2>5. \/ wstate[w] # "gone" /\ inbox'[w] = {r} /\ lost' = lost
        \/ wstate[w] = "gone" /\ inbox' = inbox /\ lost' = lost \cup {<<w, r>>}
    BY <2>1, <2>3 DEF w
  <2>6. /\ wstate' = wstate /\ backend' = backend /\ job' = job /\ pc' = "poll"
        /\ r \in Request
    OBVIOUS
  <2> HIDE <1>12
  <2>7. AvailableWorkersIdle'
    BY <2>1, <2>2, <2>4, <2>6
  <2>8. OneRequestPerWorker'
    <3> SUFFICES ASSUME NEW v \in Worker, inbox'[v] # {}
                 PROVE wstate[v] = "waiting" /\ \E q \in Request : inbox'[v] = {q}
      BY <2>6
    <3>1. CASE v = w
      BY <3>1, <2>3, <2>5, <2>6
    <3>2. CASE v # w
      BY <3>2, <2>4
    <3> QED
      BY <3>1, <3>2
  <2>9. OneLossPerDeath'
    <3>1. CASE lost' = lost
      BY <3>1, <2>6
    <3>2. CASE wstate[w] = "gone" /\ lost' = lost \cup {<<w, r>>}
      BY <3>2, <2>1, <2>3, <2>6
    <3> QED
      BY <3>1, <3>2, <2>5
  <2>10. MessageInv'
    BY <2>3, <2>4, <2>6
  <2>11. LostInv'
    BY <2>1, <2>2, <2>3, <2>5, <2>6
  <2>12. (PollStillTrue /\ JobInv)'
    BY <2>6
  <2> QED
    BY <2>7, <2>8, <2>9, <2>10, <2>11, <2>12
<1> QED
  BY <1>1, <1>2, <1>3, <1>4, <1>5, <1>6, <1>7, <1>8, <1>9, <1>10, <1>11, <1>12
  DEF Next, BrokerStep, Rest

\* The inductive invariant holds when no process has started.
LEMMA InitInv == Init => TypeOK /\ WorkerInv
  BY BrokerAssumption DEF Init, TypeOK, WorkerInv, PollStillTrue, AvailableWorkersIdle,
     OneRequestPerWorker, OneLossPerDeath, MessageInv, JobInv, LostInv

\* The inductive invariant holds in every reachable state of the broker, its
\* workers and its clients (broker.c:28-66, worker.c:42-87).
THEOREM Invariance == Spec => [](TypeOK /\ WorkerInv)
<1>1. Init => TypeOK /\ WorkerInv
  BY InitInv
<1>2. (TypeOK /\ WorkerInv) /\ [Next]_vars => (TypeOK /\ WorkerInv)'
  BY TypeOKStep, WorkerInvStep
<1> QED
  BY <1>1, <1>2, PTL DEF Spec

\* Messages and states keep their kinds.
THEOREM TypeCorrect == Spec => []TypeOK
  BY Invariance, PTL

\* The broker never pops an empty queue or reads a socket that has nothing: what
\* the poll found is still true when it is acted on (broker.c:36-64).
THEOREM PollReliable == Spec => []PollStillTrue
<1>1. WorkerInv => PollStillTrue
  BY DEF WorkerInv
<1> QED
  BY <1>1, Invariance, PTL

\* The broker's queue holds each worker at most once, and only workers that wait
\* for work or are gone (broker.c:43-44, 61).
THEOREM QueueSound == Spec => []AvailableWorkersIdle
<1>1. WorkerInv => AvailableWorkersIdle
  BY DEF WorkerInv
<1> QED
  BY <1>1, Invariance, PTL

\* A worker is sent a request only while it waits, and never a second one.
THEOREM RequestsInTurn == Spec => []OneRequestPerWorker
<1>1. WorkerInv => OneRequestPerWorker
  BY DEF WorkerInv
<1> QED
  BY <1>1, Invariance, PTL

\* Whatever the number of workers that die, and whenever they do, each death costs
\* at most one request.
THEOREM DeathsBoundLosses == Spec => []OneLossPerDeath
<1>1. WorkerInv => OneLossPerDeath
  BY DEF WorkerInv
<1> QED
  BY <1>1, Invariance, PTL

\* A request found in one place is nowhere else.
LEMMA OnlyPlace ==
    ASSUME RequestInv, NEW r \in Request, NEW p \in Place, At(r, p)
    PROVE  \A y \in Place : At(r, y) => y = p
  BY DEF RequestInv, RequestInOnePlace, Places

\* Places are told apart by their kind and owner.
LEMMA PlaceEqual ==
    ASSUME NEW x \in Place, NEW y \in Place, x[1] = y[1], x[2] = y[2]
    PROVE  x = y
  BY DEF Place

\* A request that moves from one place to at most one other, while all others stay
\* where they are, keeps the request invariant.
LEMMA MovePreserves ==
    ASSUME TypeOK, RequestInv, sent' = sent, waiting' \subseteq waiting,
           NEW r \in Request, NEW p \in Place, At(r, p), NEW q \in Place,
           \A x \in Request : x # r => Places(x)' = Places(x),
           \A y \in Place : At(r, y)' => y = q, Awaited(r)' => At(r, q)'
    PROVE  RequestInv'
<1>1. \A x \in Request : Awaited(x)' => Awaited(x)
  BY DEF Awaited, Current
<1>2. (\A a, b \in Places(r)' : a = b) /\ (Awaited(r)' => Places(r)' # {}) /\ Places(r) # {}
  BY DEF Places
<1>3. \A x \in Request : (\A a, b \in Places(x)' : a = b) /\ (Awaited(x)' => Places(x)' # {})
  BY <1>1, <1>2 DEF RequestInv, RequestInOnePlace
<1>4. \A x \in Request : Places(x)' # {} => x[2] <= sent'[x[1]]
  BY <1>2 DEF RequestInv
<1> QED
  BY <1>3, <1>4 DEF RequestInv, RequestInOnePlace

\* The step of the request invariant: each action moves at most one request.
LEMMA RequestInvStep ==
    TypeOK /\ WorkerInv /\ RequestInv /\ [Next]_vars => RequestInv'
<1> SUFFICES ASSUME TypeOK, WorkerInv, RequestInv, [Next]_vars PROVE RequestInv'
  OBVIOUS
<1> USE BrokerAssumption DEF TypeOK
<1>0. ASSUME UNCHANGED sent, waiting' \subseteq waiting, \A x \in Request : Places(x)' = Places(x)
      PROVE  RequestInv'
  BY <1>0 DEF RequestInv, RequestInOnePlace, Awaited, Current
<1>1. CASE UNCHANGED vars
  BY <1>0, <1>1 DEF vars, clientVars, workerVars, brokerVars, Places, At
<1>2. ASSUME NEW c \in Client, SendRequest(c) PROVE RequestInv'
  <2> USE <1>2 DEF SendRequest, workerVars, brokerVars
  <2> DEFINE q == <<"frontend", c>>
  <2>n. sent[c] \in Nat /\ sent[c] + 1 \in 1..MaxRequests
    OBVIOUS
  <2>m. <<c, sent[c] + 1>> \in Request
    BY <2>n DEF Request
  <2>0. PICK r \in Request : r = <<c, sent[c] + 1>>
    BY <2>m
  <2>1. r[1] = c /\ r[2] = sent[c] + 1 /\ q \in Place /\ frontend' = frontend \cup {r}
    BY <2>0 DEF Place
  <2>2. Places(r) = {}
    <3>1. ~(r[2] <= sent[r[1]])
      BY <2>1, <2>n
    <3> QED
      BY <3>1 DEF RequestInv
  <2> HIDE DEF q
  <2>3. \A x \in Request : x # r => Places(x)' = Places(x)
    BY <2>1 DEF Places, At
  <2>4. \A y \in Place : At(r, y)' <=> y[1] = "frontend" /\ y[2] = c
    BY <2>1, <2>2 DEF Places, At
  <2>5. \A y \in Place : At(r, y)' <=> y = q
    BY <2>1, <2>4, PlaceEqual DEF q
  <2>6. Places(r)' = {q}
    BY <2>1, <2>5 DEF Places
  <2>7. \A x \in Request : Awaited(x)' => Awaited(x) \/ x = r
    BY <2>0 DEF Awaited, Current, Request
  <2>8. \A x \in Request : x[2] <= sent[x[1]] => x[2] <= sent'[x[1]]
    BY DEF Request
  <2>9. r[2] <= sent'[r[1]]
    BY <2>1
  <2>10. \A x \in Request : (\A a, b \in Places(x)' : a = b) /\ (Awaited(x)' => Places(x)' # {})
    <3> HIDE <1>2
    <3> QED
      BY <2>3, <2>6, <2>7 DEF RequestInv, RequestInOnePlace
  <2>11. \A x \in Request : Places(x)' # {} => x[2] <= sent'[x[1]]
    BY <2>3, <2>8, <2>9 DEF RequestInv
  <2> QED
    BY <2>10, <2>11 DEF RequestInv, RequestInOnePlace
<1>3. ASSUME NEW c \in Client, ReceiveReply(c) PROVE RequestInv'
  <2> USE <1>3 DEF ReceiveReply, workerVars, brokerVars
  <2> DEFINE p == <<"replies", c>>
             q == <<"answered", c>>
  <2>0. PICK r \in Request : r = Current(c)
    OBVIOUS
  <2>1. /\ r[1] = c /\ r \in replies /\ p \in Place /\ q \in Place
        /\ replies' = replies \ {r} /\ answered' = answered \cup {r}
    BY <2>0 DEF Place, Current
  <2>2. At(r, p)
    BY <2>1 DEF At
  <2> HIDE DEF p, q
  <2>3. \A y \in Place : At(r, y) => y = p
    BY <2>1, <2>2, OnlyPlace
  <2>4. \A x \in Request : x # r => Places(x)' = Places(x)
    BY <2>1 DEF Places, At
  <2>5. \A y \in Place : At(r, y)' => y[1] = "answered" /\ y[2] = c
    BY <2>1, <2>3 DEF At, p
  <2>6. \A y \in Place : At(r, y)' => y = q
    BY <2>1, <2>5, PlaceEqual DEF q
  <2>7. At(r, q)'
    BY <2>1 DEF At, q
  <2> QED
    BY <2>1, <2>2, <2>4, <2>6, <2>7, MovePreserves
<1>4. ASSUME NEW c \in Client, GiveUp(c) PROVE RequestInv'
  <2> USE <1>4 DEF GiveUp, workerVars, brokerVars
  <2>1. \A x \in Request : Places(x)' \subseteq Places(x)
    BY DEF Places, At
  <2>2. \A x \in Request : Awaited(x)' => Awaited(x) /\ x # Current(c)
    BY DEF Awaited, Current
  <2>3. \A x \in Request : x # Current(c) => Places(x)' = Places(x)
    BY DEF Places, At
  <2> QED
    BY <2>1, <2>2, <2>3 DEF RequestInv, RequestInOnePlace
<1>5. ASSUME NEW w \in Worker, StartWorker(w) PROVE RequestInv'
  BY <1>0, <1>5 DEF StartWorker, clientVars, brokerVars, Places, At
<1>6. ASSUME NEW w \in Worker, TakeRequest(w) PROVE RequestInv'
  <2> USE <1>6 DEF TakeRequest, clientVars, brokerVars
  <2> DEFINE p == <<"inbox", w>>
             q == <<"job", w>>
  <2>1. PICK r \in inbox[w] : /\ job' = [job EXCEPT ![w] = r]
                              /\ inbox' = [inbox EXCEPT ![w] = @ \ {r}]
    OBVIOUS
  <2>2. r \in Request /\ p \in Place /\ At(r, p) /\ q \in Place /\ job[w] = NoRequest
    BY DEF At, Place, WorkerInv, JobInv
  <2> HIDE DEF p, q
  <2>3. \A y \in Place : At(r, y) => y = p
    BY <2>2, OnlyPlace
  <2>4. \A x \in Request : x # r => Places(x)' = Places(x)
    BY <2>1, <2>2 DEF Places, At
  <2>5. \A y \in Place : At(r, y)' => y[1] = "job" /\ y[2] = w
    BY <2>1, <2>2, <2>3 DEF At, p
  <2>6. \A y \in Place : At(r, y)' => y = q
    BY <2>2, <2>5, PlaceEqual DEF q
  <2>7. At(r, q)'
    BY <2>1 DEF At, q
  <2> QED
    BY <2>2, <2>4, <2>6, <2>7, MovePreserves
<1>7. ASSUME NEW w \in Worker, SendReply(w) PROVE RequestInv'
  <2> USE <1>7 DEF SendReply, Respond, clientVars, brokerVars
  <2> DEFINE p == <<"job", w>>
             q == <<"backend", w>>
  <2>0. PICK r \in Request : r = job[w]
    BY DEF WorkerInv, JobInv
  <2>1. /\ p \in Place /\ At(r, p) /\ q \in Place
        /\ backend' = backend \cup {<<w, r>>} /\ job' = [job EXCEPT ![w] = NoRequest]
    BY <2>0 DEF At, Place
  <2> HIDE DEF p, q
  <2>2. \A y \in Place : At(r, y) => y = p
    BY <2>1, OnlyPlace
  <2>3. \A x \in Request : x # r => Places(x)' = Places(x)
    BY <2>0, <2>1 DEF Places, At
  <2>4. \A y \in Place : At(r, y)' => y[1] = "backend" /\ y[2] = w
    BY <2>1, <2>2 DEF At, p
  <2>5. \A y \in Place : At(r, y)' => y = q
    BY <2>1, <2>4, PlaceEqual DEF q
  <2>6. At(r, q)'
    BY <2>1 DEF At, q
  <2> QED
    BY <2>1, <2>3, <2>5, <2>6, MovePreserves
<1>8. ASSUME NEW w \in Worker, Die(w) PROVE RequestInv'
  <2> USE <1>8 DEF Die, clientVars, brokerVars
  <2> DEFINE H == inbox[w] \cup ({job[w]} \ {NoRequest})
             q == <<"lost", w>>
  <2>1. \A x \in Request : x \notin H => Places(x)' = Places(x)
    BY DEF Places, At
  <2>2. CASE H = {}
    BY <1>0, <2>1, <2>2
  <2>3. CASE H # {}
    <3>1. PICK r \in H : TRUE
      BY <2>3
    <3>2. H = {r} /\ r \in Request
      BY <3>1 DEF WorkerInv, OneRequestPerWorker, JobInv
    <3> DEFINE p == <<IF r \in inbox[w] THEN "inbox" ELSE "job", w>>
    <3>3. p \in Place /\ q \in Place /\ At(r, p) /\ job'[w] = NoRequest /\ inbox'[w] = {}
      BY <3>1, <3>2 DEF At, Place
    <3> HIDE DEF p, q
    <3>4. \A y \in Place : At(r, y) => y = p
      BY <3>2, <3>3, OnlyPlace
    <3>5. \A y \in Place : At(r, y)' => y[1] = "lost" /\ y[2] = w
      BY <3>1, <3>2, <3>3, <3>4 DEF At, p
    <3>6. \A y \in Place : At(r, y)' => y = q
      BY <3>3, <3>5, PlaceEqual DEF q
    <3>7. At(r, q)'
      BY <3>2 DEF At, q
    <3> QED
      BY <2>1, <3>2, <3>3, <3>6, <3>7, MovePreserves
  <2> QED
    BY <2>2, <2>3
<1>9. CASE Poll \/ SkipBackend \/ SkipFrontend
  BY <1>0, <1>9 DEF Poll, SkipBackend, SkipFrontend, clientVars, workerVars, Places, At
<1>10. ASSUME NEW m \in backend, ReadBackend(m) PROVE RequestInv'
  <2> USE <1>10 DEF ReadBackend, clientVars, workerVars
  <2>1. CASE m[2] = READY
    <3>1. \A x \in Request, w \in Worker : <<w, x>> \in backend' <=> <<w, x>> \in backend
      BY <2>1
    <3> QED
      BY <1>0, <2>1, <3>1 DEF Places, At
  <2>2. CASE m[2] # READY
    <3> DEFINE r == m[2]
               w == m[1]
               p == <<"backend", w>>
               q == <<"replies", r[1]>>
    <3>1. r \in Request /\ w \in Worker /\ m = <<w, r>> /\ r[1] \in Client
      BY <2>2 DEF Request
    <3>2. p \in Place /\ At(r, p) /\ q \in Place
      BY <3>1 DEF At, Place
    <3> HIDE DEF r, w, p, q
    <3>3. \A y \in Place : At(r, y) => y = p
      BY <3>1, <3>2, OnlyPlace
    <3>4. backend' = backend \ {<<w, r>>} /\ replies' = replies \cup {x \in {r} : Awaited(x)}
      BY <2>2, <3>1 DEF Awaited, r, w
    <3>5. \A x \in Request : x # r => Places(x)' = Places(x)
      BY <3>1, <3>4 DEF Places, At
    <3>6. \A y \in Place : At(r, y)' => y[1] = "replies" /\ y[2] = r[1]
      BY <3>1, <3>3, <3>4 DEF At, p
    <3>7. \A y \in Place : At(r, y)' => y = q
      BY <3>2, <3>6, PlaceEqual DEF q
    <3>8. Awaited(r)' => At(r, q)'
      BY <3>1, <3>2, <3>4 DEF At, Awaited, Current, q
    <3> QED
      BY <3>1, <3>2, <3>5, <3>7, <3>8, MovePreserves
  <2> QED
    BY <2>1, <2>2
<1>11. ASSUME NEW r \in frontend, ReadFrontend(r) PROVE RequestInv'
  <2> USE <1>11 DEF ReadFrontend, clientVars, workerVars
  <2> DEFINE p == <<"frontend", r[1]>>
  <2>0. PICK w \in Worker : w = Head(workers)
    BY DEF WorkerInv, PollStillTrue
  <2>1. r \in Request /\ r[1] \in Client
    BY DEF Request
  <2>l. <<"lost", w>> \in Place /\ <<"inbox", w>> \in Place
    BY DEF Place
  <2>q. PICK q \in Place : q = IF wstate[w] = "gone" THEN <<"lost", w>> ELSE <<"inbox", w>>
    BY <2>l
  <2>2. p \in Place /\ At(r, p)
    BY <2>1 DEF At, Place
  <2> HIDE DEF p
  <2>3. \A y \in Place : At(r, y) => y = p
    BY <2>1, <2>2, OnlyPlace
  <2>4. \/ wstate[w] # "gone" /\ inbox' = [inbox EXCEPT ![w] = @ \cup {r}] /\ lost' = lost
        \/ wstate[w] = "gone" /\ lost' = lost \cup {<<w, r>>} /\ inbox' = inbox
    BY <2>0
  <2>5. \A x \in Request : x # r => Places(x)' = Places(x)
    BY <2>1, <2>4 DEF Places, At
  <2>6. \A y \in Place : At(r, y)' => y[1] = q[1] /\ y[2] = q[2]
    BY <2>1, <2>3, <2>4, <2>q DEF At, p
  <2>7. \A y \in Place : At(r, y)' => y = q
    BY <2>2, <2>6, PlaceEqual
  <2>8. At(r, q)'
    BY <2>1, <2>4, <2>q DEF At
  <2> QED
    BY <2>1, <2>2, <2>5, <2>7, <2>8, MovePreserves
<1> QED
  BY <1>1, <1>2, <1>3, <1>4, <1>5, <1>6, <1>7, <1>8, <1>9, <1>10, <1>11
  DEF Next, BrokerStep, Rest

\* Before the first request is sent, none is anywhere.
LEMMA InitRequests == Init => RequestInv
<1> SUFFICES ASSUME Init PROVE RequestInv
  OBVIOUS
<1>1. \A r \in Request : Places(r) = {} /\ ~Awaited(r)
  BY BrokerAssumption DEF Init, Places, At, Awaited, Request
<1> QED
  BY <1>1 DEF RequestInv, RequestInOnePlace

\* Each request stays where it is, moves on, or is lost with a worker, and none is
\* anywhere before its client has sent it (broker.c:36-65, worker.c:42-87).
THEOREM RequestInvariance == Spec => []RequestInv
<1>1. RequestInv /\ (TypeOK /\ WorkerInv) /\ [Next]_vars => RequestInv'
  BY RequestInvStep
<1> QED
  BY <1>1, InitRequests, Invariance, PTL DEF Spec

\* No request is served twice, and the request of a client that waits is always
\* somewhere: the broker never drops one it has read (broker.c:56-65), and nothing
\* but the death of a worker does.
THEOREM RequestsConserved == Spec => []RequestInOnePlace
<1>1. RequestInv => RequestInOnePlace
  BY DEF RequestInv
<1> QED
  BY <1>1, RequestInvariance, PTL

--------------------------------------------------------------------------------
(***************************************************************************)
(* The broker implements the service.                                      *)
(***************************************************************************)
\* A step that changes neither what clients see nor what is lost keeps the status.
LEMMA StatusKept ==
    ASSUME UNCHANGED <<sent, waiting, answered, lost>>
    PROVE  UNCHANGED [r \in Request |-> Status(r)]
  BY DEF Status, Awaited, Current

\* A request that is somewhere, but neither lost nor answered, is pending or abandoned.
LEMMA StatusUnderWay ==
    ASSUME TypeOK, RequestInv, NEW r \in Request, NEW p \in Place, At(r, p),
           p[1] \notin {"lost", "answered"}
    PROVE  Status(r) \in {"pending", "abandoned"}
<1>1. r[2] <= sent[r[1]] /\ r[1] \in Client /\ r[2] \in Nat /\ sent[r[1]] \in Nat
  BY BrokerAssumption DEF RequestInv, Places, TypeOK, Request
<1>2. \A y \in Place : At(r, y) => y = p
  BY OnlyPlace
<1>3. ASSUME NEW w \in Worker, <<w, r>> \in lost PROVE FALSE
  <2>1. <<"lost", w>> \in Place /\ At(r, <<"lost", w>>)
    BY <1>3 DEF Place, At
  <2> QED
    BY <2>1, <1>2
<1>4. r \notin answered
  <2>1. SUFFICES ASSUME r \in answered PROVE FALSE
    OBVIOUS
  <2>2. <<"answered", r[1]>> \in Place /\ At(r, <<"answered", r[1]>>)
    BY <2>1, <1>1 DEF Place, At
  <2> QED
    BY <2>2, <1>2
<1>5. ~(r[2] > sent[r[1]])
  BY <1>1
<1> QED
  BY <1>3, <1>4, <1>5, Zenon DEF Status

\* Losing request r with worker w, which has cost no other and is gone afterwards.
LEMMA LossIsLose ==
    ASSUME TypeOK, RequestInv, NEW r \in Request, NEW w \in Worker, NEW p \in Place, At(r, p),
           p[1] \notin {"lost", "answered"}, UNCHANGED <<sent, waiting, answered>>,
           \A x \in lost : x[1] # w, lost' = lost \cup {<<w, r>>},
           {v \in Worker : wstate'[v] = "gone"} = {v \in Worker : wstate[v] = "gone"} \cup {w}
    PROVE  Promised!Lose(r, w)
<1>1. Status(r) \in {"pending", "abandoned"} /\ Status(r) # "unsent"
  BY StatusUnderWay
<1>2. Status(r)' = "lost"
  BY <1>1 DEF Status
<1>3. \A x \in Request : x # r => Status(x)' = Status(x)
  BY DEF Status, Awaited, Current
<1>4. [x \in Request |-> Status(x)]' = [[x \in Request |-> Status(x)] EXCEPT ![r] = "lost"]
  BY <1>2, <1>3
<1>5. {x[1] : x \in lost'} = {x[1] : x \in lost} \cup {w}
  <2>1. \A z : z \in {x[1] : x \in lost'} <=> z = w \/ \E x \in lost : z = x[1]
    <3>1. <<w, r>>[1] = w
      OBVIOUS
    <3> QED
      BY <3>1
  <2> QED
    BY <2>1
<1>6. w \notin {x[1] : x \in lost}
  OBVIOUS
<1> QED
  BY <1>1, <1>4, <1>5, <1>6 DEF Promised!Lose

\* Every step of the broker, a worker or a client is a step of the service, or
\* leaves it as it is.
LEMMA StepImplements ==
    TypeOK /\ WorkerInv /\ RequestInv /\ [Next]_vars => [Promised!Next]_(Promised!vars)
<1> SUFFICES ASSUME TypeOK, WorkerInv, RequestInv, [Next]_vars
             PROVE  Promised!Next \/ UNCHANGED Promised!vars
  OBVIOUS
<1> USE BrokerAssumption
<1>0. ASSUME UNCHANGED <<sent, waiting, answered, lost>>,
             \A w \in Worker : wstate'[w] = "gone" <=> wstate[w] = "gone"
      PROVE  UNCHANGED Promised!vars
  BY <1>0, StatusKept DEF Promised!vars
<1>1. CASE UNCHANGED vars
  BY <1>0, <1>1 DEF vars, clientVars, workerVars
<1>2. ASSUME NEW c \in Client, SendRequest(c) PROVE Promised!Next
  <2>0. c \notin waiting /\ sent[c] \in Nat /\ <<c, sent[c] + 1>> \in Request
    BY <1>2 DEF SendRequest, TypeOK, Request
  <2>r. PICK r \in Request : r = <<c, sent[c] + 1>>
    BY <2>0
  <2>1. /\ c \notin waiting /\ sent[c] \in Nat /\ r[1] = c /\ r[2] = sent[c] + 1
        /\ sent' = [sent EXCEPT ![c] = sent[c] + 1] /\ waiting' = waiting \cup {c}
        /\ UNCHANGED <<answered, lost, wstate>>
    BY <1>2, <2>0, <2>r DEF SendRequest, workerVars
  <2>2. Status(r) = "unsent"
    BY <2>1 DEF Status
  <2>3. Places(r) = {}
    BY <2>1 DEF RequestInv
  <2>4. r \notin answered
    <3>1. <<"answered", c>> \in Place /\ (r \in answered => At(r, <<"answered", c>>))
      BY <2>1 DEF Place, At
    <3> QED
      BY <3>1, <2>3 DEF Places
  <2>5. \A w \in Worker : <<w, r>> \notin lost
    <3>1. \A w \in Worker : <<"lost", w>> \in Place /\ (<<w, r>> \in lost => At(r, <<"lost", w>>))
      BY DEF Place, At
    <3> QED
      BY <3>1, <2>3 DEF Places
  <2>6. Status(r)' = "pending"
    <3>1. sent'[c] = sent[c] + 1 /\ ~(r[2] > sent'[r[1]])
      BY <2>1 DEF TypeOK
    <3>2. Awaited(r)'
      BY <2>1, <2>r, <3>1 DEF Awaited, Current
    <3> QED
      BY <2>1, <2>4, <2>5, <3>1, <3>2 DEF Status
  <2>7. ASSUME NEW x \in Request, x # r PROVE Status(x)' = Status(x)
    <3>1. x[1] \in Client /\ x[2] \in Nat /\ x = <<x[1], x[2]>>
      BY DEF Request
    <3>2. CASE x[1] # c
      BY <3>1, <3>2, <2>1 DEF Status, Awaited, Current, TypeOK
    <3>3. CASE x[1] = c
      <4>1. x[2] # sent[c] + 1
        BY <3>1, <3>3, <2>7, <2>r
      <4>2. x[2] > sent'[x[1]] <=> x[2] > sent[x[1]]
        BY <3>1, <3>3, <2>1, <4>1 DEF TypeOK
      <4>3. ~Awaited(x) /\ ~Awaited(x)'
        BY <3>1, <3>3, <2>1, <4>1 DEF Awaited, Current, TypeOK
      <4> QED
        BY <2>1, <4>2, <4>3, Zenon DEF Status
    <3> QED
      BY <3>2, <3>3
  <2>8. [x \in Request |-> Status(x)]' = [[x \in Request |-> Status(x)] EXCEPT ![r] = "pending"]
    BY <2>6, <2>7
  <2>9. Promised!Send(r)
    BY <2>1, <2>2, <2>8 DEF Promised!Send
  <2> QED
    BY <2>1, <2>9 DEF Promised!Next
<1>3. ASSUME NEW c \in Client, ReceiveReply(c) PROVE Promised!Next
  <2>r. PICK r \in Request : r = Current(c)
    BY <1>3 DEF ReceiveReply, TypeOK
  <2>1. /\ c \in waiting /\ r \in replies /\ r[1] = c /\ r[2] = sent[c]
        /\ waiting' = waiting \ {c} /\ answered' = answered \cup {r}
        /\ UNCHANGED <<sent, lost, wstate>>
    BY <1>3, <2>r DEF ReceiveReply, Current, workerVars
  <2>2. <<"replies", c>> \in Place /\ At(r, <<"replies", c>>)
    BY <2>1 DEF Place, At
  <2>3. Awaited(r) /\ \A x \in Request : x # r => (Awaited(x)' <=> Awaited(x))
    BY <2>1, <2>r DEF Awaited, Current, Request
  <2>4. Status(r) \in {"pending", "abandoned"}
    BY <2>1, <2>2, StatusUnderWay
  <2>5. Status(r) = "pending"
    BY <2>3, <2>4 DEF Status
  <2>6. Status(r)' = "answered"
    BY <2>1, <2>5 DEF Status
  <2>7. \A x \in Request : x # r => Status(x)' = Status(x)
    BY <2>1, <2>3 DEF Status
  <2>8. [x \in Request |-> Status(x)]' = [[x \in Request |-> Status(x)] EXCEPT ![r] = "answered"]
    BY <2>6, <2>7
  <2>9. Promised!Answer(r)
    BY <2>1, <2>5, <2>8 DEF Promised!Answer
  <2> QED
    BY <2>1, <2>9 DEF Promised!Next
<1>4. ASSUME NEW c \in Client, GiveUp(c) PROVE Promised!Next \/ UNCHANGED Promised!vars
  <2>r. PICK r : r = Current(c)
    OBVIOUS
  <2>1. waiting' = waiting \ {c} /\ UNCHANGED <<sent, answered, lost, wstate>> /\ r[1] = c
    BY <1>4, <2>r DEF GiveUp, workerVars, Current
  <2>2. \A x \in Request : x # r => (Awaited(x)' <=> Awaited(x))
    BY <2>1, <2>r DEF Awaited, Current, Request
  <2>3. \A x \in Request : x # r => Status(x)' = Status(x)
    BY <2>1, <2>2 DEF Status
  <2>4. ~Awaited(r)'
    BY <2>1 DEF Awaited
  <2>5. CASE r \in Request /\ Status(r) = "pending"
    <3>1. Status(r)' = "abandoned"
      BY <2>1, <2>4, <2>5 DEF Status
    <3>2. [x \in Request |-> Status(x)]' = [[x \in Request |-> Status(x)] EXCEPT ![r] = "abandoned"]
      BY <2>3, <3>1
    <3>3. Promised!Abandon(r)
      BY <2>1, <2>5, <3>2 DEF Promised!Abandon
    <3> QED
      BY <2>5, <3>3 DEF Promised!Next
  <2>6. CASE r \in Request /\ Status(r) # "pending"
    <3>1. Status(r)' = Status(r)
      BY <2>1, <2>4, <2>6 DEF Status
    <3>2. [x \in Request |-> Status(x)]' = [x \in Request |-> Status(x)]
      BY <2>3, <3>1
    <3> QED
      BY <2>1, <3>2 DEF Promised!vars
  <2>7. CASE r \notin Request
    <3>2. [x \in Request |-> Status(x)]' = [x \in Request |-> Status(x)]
      BY <2>3, <2>7
    <3> QED
      BY <2>1, <3>2 DEF Promised!vars
  <2> QED
    BY <2>5, <2>6, <2>7
<1>5. ASSUME NEW w \in Worker, StartWorker(w) \/ TakeRequest(w) \/ SendReply(w)
      PROVE  UNCHANGED Promised!vars
  BY <1>0, <1>5 DEF StartWorker, TakeRequest, SendReply, Respond, clientVars, TypeOK
<1>6. ASSUME NEW w \in Worker, Die(w) PROVE Promised!Next
  <2>1. /\ wstate[w] \in {"waiting", "busy"} /\ wstate' = [wstate EXCEPT ![w] = "gone"]
        /\ lost' = lost \cup ({w} \X (inbox[w] \cup ({job[w]} \ {NoRequest})))
        /\ UNCHANGED <<sent, waiting, answered>>
    BY <1>6 DEF Die, clientVars
  <2>2. {v \in Worker : wstate'[v] = "gone"} = {v \in Worker : wstate[v] = "gone"} \cup {w}
    BY <2>1 DEF TypeOK
  <2>3. \A x \in lost : x[1] # w
    BY <2>1 DEF WorkerInv, OneLossPerDeath
  <2>4. CASE inbox[w] = {} /\ job[w] = NoRequest
    <3>1. lost' = lost
      BY <2>1, <2>4
    <3>2. UNCHANGED [x \in Request |-> Status(x)]
      BY <2>1, <3>1, StatusKept
    <3>3. w \notin {v \in Worker : wstate[v] = "gone"}
      BY <2>1
    <3>4. Promised!Die(w)
      BY <2>2, <3>1, <3>2, <3>3 DEF Promised!Die
    <3> QED
      BY <3>4 DEF Promised!Next
  <2>5. CASE inbox[w] # {}
    <3>1. PICK r \in Request : inbox[w] = {r}
      BY <2>5 DEF WorkerInv, OneRequestPerWorker
    <3>2. job[w] = NoRequest
      BY <2>5 DEF WorkerInv, OneRequestPerWorker, JobInv
    <3>3. lost' = lost \cup {<<w, r>>}
      BY <2>1, <3>1, <3>2
    <3>4. <<"inbox", w>> \in Place /\ At(r, <<"inbox", w>>)
      BY <3>1 DEF Place, At
    <3>5. Promised!Lose(r, w)
      BY <2>1, <2>2, <2>3, <3>3, <3>4, LossIsLose
    <3> QED
      BY <3>5 DEF Promised!Next
  <2>6. CASE job[w] # NoRequest
    <3>1. PICK r \in Request : job[w] = r
      BY <2>6 DEF TypeOK
    <3>2. inbox[w] = {}
      BY <2>6 DEF WorkerInv, OneRequestPerWorker, JobInv
    <3>3. lost' = lost \cup {<<w, r>>}
      BY <2>1, <2>6, <3>1, <3>2
    <3>4. <<"job", w>> \in Place /\ At(r, <<"job", w>>)
      BY <3>1 DEF Place, At
    <3>5. Promised!Lose(r, w)
      BY <2>1, <2>2, <2>3, <3>3, <3>4, LossIsLose
    <3> QED
      BY <3>5 DEF Promised!Next
  <2> QED
    BY <2>4, <2>5, <2>6
<1>7. CASE Poll \/ SkipBackend \/ SkipFrontend
  BY <1>0, <1>7 DEF Poll, SkipBackend, SkipFrontend, clientVars, workerVars
<1>8. ASSUME NEW m \in backend, ReadBackend(m) PROVE UNCHANGED Promised!vars
  BY <1>0, <1>8 DEF ReadBackend, clientVars, workerVars
<1>9. ASSUME NEW r \in frontend, ReadFrontend(r) PROVE Promised!Next \/ UNCHANGED Promised!vars
  <2>0. Head(workers) \in Worker /\ \A x \in lost : x[1] # Head(workers)
    BY <1>9 DEF ReadFrontend, TypeOK, WorkerInv, PollStillTrue, LostInv
  <2>w. PICK w \in Worker : w = Head(workers)
    BY <2>0
  <2>1. (\A x \in lost : x[1] # w) /\ r \in Request /\ r[1] \in Client
    BY <1>9, <2>0, <2>w DEF ReadFrontend, TypeOK, WorkerInv, PollStillTrue, LostInv, Request
  <2>2. /\ UNCHANGED <<sent, waiting, answered, wstate>>
        /\ (wstate[w] # "gone" /\ lost' = lost) \/ (wstate[w] = "gone" /\ lost' = lost \cup {<<w, r>>})
    BY <1>9, <2>w DEF ReadFrontend, clientVars, workerVars
  <2>3. CASE lost' = lost
    BY <1>0, <2>2, <2>3
  <2>4. CASE wstate[w] = "gone" /\ lost' = lost \cup {<<w, r>>}
    <3>1. <<"frontend", r[1]>> \in Place /\ At(r, <<"frontend", r[1]>>)
      BY <2>1 DEF Place, At
    <3>2. {v \in Worker : wstate'[v] = "gone"} = {v \in Worker : wstate[v] = "gone"} \cup {w}
      BY <2>1, <2>2, <2>4
    <3>3. Promised!Lose(r, w)
      BY <2>1, <2>2, <2>4, <3>1, <3>2, LossIsLose
    <3> QED
      BY <2>1, <3>3 DEF Promised!Next
  <2> QED
    BY <2>2, <2>3, <2>4
<1> QED
  BY <1>1, <1>2, <1>3, <1>4, <1>5, <1>6, <1>7, <1>8, <1>9 DEF Next, BrokerStep, Rest

\* No request has been sent, no worker has died.
LEMMA InitImplements == Init => Promised!Init
<1> SUFFICES ASSUME Init PROVE Promised!Init
  OBVIOUS
<1>1. \A r \in Request : Status(r) = "unsent"
  BY BrokerAssumption DEF Init, Status, Request
<1>2. {w \in Worker : wstate[w] = "gone"} = {} /\ {x[1] : x \in lost} = {}
  BY DEF Init
<1> QED
  BY <1>1, <1>2 DEF Promised!Init

\* The broker with its workers and clients (broker.c:28-66, worker.c:42-87,
\* client.c:40-50, web-uwsgi.py) implements the abstract service: a request is
\* answered at most once and lost only to the death of a worker, each of which
\* costs at most one.
THEOREM Implementation == Spec => ImplementsService
<1>1. (TypeOK /\ WorkerInv) /\ RequestInv /\ [Next]_vars => [Promised!Next]_(Promised!vars)
  BY StepImplements
<1> QED
  BY <1>1, InitImplements, Invariance, RequestInvariance, PTL
  DEF Spec, ImplementsService, Promised!Spec

================================================================================
