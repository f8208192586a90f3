-------------------------------- MODULE Broker ---------------------------------
(***************************************************************************)
(* The load balancer (broker.c) between the clients and the pool of        *)
(* workers (worker.c, worker-web.c), which exchange messages over two      *)
(* ROUTER sockets of the broker.                                           *)
(*                                                                         *)
(* A worker announces itself with READY and then answers one request at a  *)
(* time; each message it sends asks for more work.  The broker keeps the   *)
(* queue of workers that have asked, and reads a client's request only if  *)
(* the queue is not empty.  Nobody tells the broker that a worker is gone: *)
(* its identity stays in the queue until a request is sent to it.          *)
(*                                                                         *)
(* The sockets are ZeroMQ's: a message arrives whole; a ROUTER socket      *)
(* drops what it is given for a peer that is not there; messages of        *)
(* different peers are read in any order.  A worker that is restarted has  *)
(* a new identity, so Worker is the set of all incarnations.               *)
(***************************************************************************)
EXTENDS Naturals, Sequences, FiniteSets

CONSTANTS Client,       \* client processes
          Impatient,    \* the clients that give up after a timeout (web-uwsgi.py)
          Worker,       \* identities of worker processes, restarts included
          MaxRequests,  \* bound: requests one client sends
          MaxDeaths,    \* bound: workers that stop or crash
          READY,        \* the message WORKER_READY
          NoRequest     \* what an idle worker works on

\* A request, by the identity of its socket and its number.
Request == Client \X (1..MaxRequests)

\* READY is one byte no client identity begins with (rrrr.h).
ASSUME BrokerAssumption ==
    /\ Impatient \subseteq Client
    /\ MaxRequests \in Nat /\ MaxDeaths \in Nat
    /\ READY \notin Request /\ NoRequest \notin Request /\ READY # NoRequest

VARIABLES
    sent,      \* [Client -> Nat] requests each client has sent
    waiting,   \* clients blocked on the reply to the last request they sent
    answered,  \* requests whose reply has reached the client
    frontend,  \* requests the broker has not read yet
    backend,   \* messages of workers the broker has not read yet
    replies,   \* replies on their way to a client
    inbox,     \* [Worker -> SUBSET Request] requests on their way to a worker
    wstate,    \* [Worker -> {"down", "waiting", "busy", "gone"}]
    job,       \* [Worker -> Request \cup {NoRequest}] the request being searched
    lost,      \* <<worker, request>> for each request lost with a worker
    deaths,    \* workers that died so far
    pc,        \* the broker: "poll", "backend" or "frontend"
    revents,   \* the sockets the last poll found readable
    workers    \* the broker's queue of available workers

clientVars == <<sent, waiting, answered>>
workerVars == <<wstate, job, deaths>>
brokerVars == <<pc, revents, workers>>
vars == <<clientVars, workerVars, brokerVars, frontend, backend, replies, inbox, lost>>

Init ==
    /\ sent = [c \in Client |-> 0] /\ waiting = {} /\ answered = {}
    /\ frontend = {} /\ backend = {} /\ replies = {}
    /\ inbox = [w \in Worker |-> {}]
    /\ wstate = [w \in Worker |-> "down"]
    /\ job = [w \in Worker |-> NoRequest]
    /\ lost = {} /\ deaths = 0
    /\ pc = "poll" /\ revents = {} /\ workers = <<>>

--------------------------------------------------------------------------------
(***************************************************************************)
(* Clients: a REQ socket, which sends one request and waits for the reply. *)
(***************************************************************************)
Current(c) == <<c, sent[c]>>

SendRequest(c) ==
    /\ c \notin waiting /\ sent[c] < MaxRequests
    /\ sent' = [sent EXCEPT ![c] = @ + 1]
    /\ waiting' = waiting \cup {c}
    /\ frontend' = frontend \cup {<<c, sent[c] + 1>>}
    /\ UNCHANGED <<answered, workerVars, brokerVars, backend, replies, inbox, lost>>

ReceiveReply(c) ==
    /\ c \in waiting /\ Current(c) \in replies
    /\ waiting' = waiting \ {c}
    /\ answered' = answered \cup {Current(c)}
    /\ replies' = replies \ {Current(c)}
    /\ UNCHANGED <<sent, workerVars, brokerVars, frontend, backend, inbox, lost>>

\* The poll on the reply times out; the socket and what is on its way to it go.
GiveUp(c) ==
    /\ c \in waiting /\ c \in Impatient
    /\ waiting' = waiting \ {c}
    /\ replies' = replies \ {Current(c)}
    /\ UNCHANGED <<sent, answered, workerVars, brokerVars, frontend, backend, inbox, lost>>

--------------------------------------------------------------------------------
(***************************************************************************)
(* Workers.                                                                *)
(***************************************************************************)
\* Fault: READY is repeated while the worker waits.
StartWorkerAgain(w) ==
    /\ wstate[w] \in {"down", "waiting"}
    /\ wstate' = [wstate EXCEPT ![w] = "waiting"]
    /\ backend' = backend \cup {<<w, READY>>}
    /\ UNCHANGED <<clientVars, job, deaths, brokerVars, frontend, replies, inbox, lost>>

StartWorker(w) ==
    /\ wstate[w] = "down"
    /\ wstate' = [wstate EXCEPT ![w] = "waiting"]
    /\ backend' = backend \cup {<<w, READY>>}
    /\ UNCHANGED <<clientVars, job, deaths, brokerVars, frontend, replies, inbox, lost>>

TakeRequest(w) ==
    /\ wstate[w] = "waiting"
    /\ \E r \in inbox[w] :
         /\ job' = [job EXCEPT ![w] = r]
         /\ inbox' = [inbox EXCEPT ![w] = @ \ {r}]
    /\ wstate' = [wstate EXCEPT ![w] = "busy"]
    /\ UNCHANGED <<clientVars, deaths, brokerVars, frontend, backend, replies, lost>>

\* The worker sends a reply for r and has `left` to work on.
Respond(w, r, left) ==
    /\ wstate[w] = "busy"
    /\ backend' = backend \cup {<<w, r>>}
    /\ job' = [job EXCEPT ![w] = left]
    /\ wstate' = [wstate EXCEPT ![w] = "waiting"]
    /\ UNCHANGED <<clientVars, deaths, brokerVars, frontend, replies, inbox, lost>>

\* Faults: the reply has lost its envelope; the request is kept to be answered again.
SendReplyNoEnvelope(w) == Respond(w, NoRequest, NoRequest)
SendReplyKeepsJob(w) == Respond(w, job[w], job[w])

\* The message is recycled: the reply has the envelope of the request.
SendReply(w) == Respond(w, job[w], NoRequest)

\* A signal while it waits, or a crash at any moment: no WORKER_LEAVING message is
\* sent.  The request it works on, or that is on its way to it, is lost.
Die(w) ==
    /\ wstate[w] \in {"waiting", "busy"} /\ deaths < MaxDeaths
    /\ deaths' = deaths + 1
    /\ wstate' = [wstate EXCEPT ![w] = "gone"]
    /\ lost' = lost \cup ({w} \X (inbox[w] \cup ({job[w]} \ {NoRequest})))
    /\ job' = [job EXCEPT ![w] = NoRequest]
    /\ inbox' = [inbox EXCEPT ![w] = {}]
    /\ UNCHANGED <<clientVars, brokerVars, frontend, backend, replies>>

--------------------------------------------------------------------------------
(***************************************************************************)
(* The broker's loop: poll, read one message of a worker, read one request.*)
(***************************************************************************)
\* Fault: requests are read whether or not a worker is available.
PolledAlways == {"backend", "frontend"}

\* The frontend is polled only if a worker is available.
Polled == IF workers = <<>> THEN {"backend"} ELSE {"backend", "frontend"}
\* Fault: a poll with a timeout that only ever looks at the backend.
ReadableBackend == IF backend # {} THEN {"backend"} ELSE {"timeout"}

Readable == {s \in Polled : IF s = "backend" THEN backend # {} ELSE frontend # {}}

Poll ==
    /\ pc = "poll" /\ Readable # {}
    /\ revents' = Readable
    /\ pc' = "backend"
    /\ UNCHANGED <<clientVars, workerVars, workers, frontend, backend, replies, inbox, lost>>

\* Every message makes its worker available; one that is not READY is a reply,
\* forwarded to its client if that is still there.
ReadBackend(m) ==
    /\ pc = "backend" /\ "backend" \in revents
    /\ backend' = backend \ {m}
    /\ workers' = Append(workers, m[1])
    /\ replies' = replies \cup {r \in {m[2]} \ {READY} : r[1] \in waiting /\ r = Current(r[1])}
    /\ pc' = "frontend"
    /\ UNCHANGED <<clientVars, workerVars, revents, frontend, inbox, lost>>

SkipBackend ==
    /\ pc = "backend" /\ "backend" \notin revents
    /\ pc' = "frontend"
    /\ UNCHANGED <<clientVars, workerVars, revents, workers, frontend, backend, replies, inbox, lost>>

\* The first available worker gets the request; if it is gone, nobody does.
ReadFrontend(r) ==
    LET w == Head(workers)
    IN  /\ pc = "frontend" /\ "frontend" \in revents
        /\ frontend' = frontend \ {r}
        /\ workers' = Tail(workers)
        /\ \/ /\ wstate[w] # "gone"
              /\ inbox' = [inbox EXCEPT ![w] = @ \cup {r}]
              /\ lost' = lost
           \/ /\ wstate[w] = "gone"
              /\ lost' = lost \cup {<<w, r>>}
              /\ inbox' = inbox
        /\ pc' = "poll"
        /\ UNCHANGED <<clientVars, workerVars, revents, backend, replies>>

SkipFrontend ==
    /\ pc = "frontend" /\ "frontend" \notin revents
    /\ pc' = "poll"
    /\ UNCHANGED <<clientVars, workerVars, revents, workers, frontend, backend, replies, inbox, lost>>

BrokerStep ==
    \/ Poll
    \/ \E m \in backend : ReadBackend(m)
    \/ SkipBackend
    \/ \E r \in frontend : ReadFrontend(r)
    \/ SkipFrontend

--------------------------------------------------------------------------------
\* Nothing is left to do: each client has finished, or blocks on a lost request.
Rest ==
    /\ \A c \in Client :
          IF c \in waiting THEN \E w \in Worker : <<w, Current(c)>> \in lost
          ELSE sent[c] = MaxRequests
    /\ UNCHANGED vars

Next ==
    \/ \E c \in Client : SendRequest(c) \/ ReceiveReply(c) \/ GiveUp(c)
    \/ \E w \in Worker : StartWorker(w) \/ TakeRequest(w) \/ SendReply(w) \/ Die(w)
    \/ BrokerStep
    \/ Rest

Spec == Init /\ [][Next]_vars

\* Workers are started and searches end; the broker's loop and the clients are
\* single threads that take what arrives.
FairSpec ==
    /\ Spec
    /\ WF_vars(BrokerStep)
    /\ \A w \in Worker : WF_vars(StartWorker(w)) /\ WF_vars(TakeRequest(w)) /\ WF_vars(SendReply(w))
    /\ \A c \in Client : WF_vars(ReceiveReply(c))

================================================================================
