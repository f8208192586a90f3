-------------------------------- MODULE OtpApi ---------------------------------
(***************************************************************************)
(* The HTTP server in front of the broker (otp_api.c): one thread, one     *)
(* polling loop over the broker's socket, the listening socket and at most *)
(* MAX_CONN open connections.                                              *)
(*                                                                         *)
(* A connection is known by its index in the list of poll items, which     *)
(* changes as connections are removed, and by its socket descriptor, which *)
(* goes with the request to the broker and comes back with the reply.  It  *)
(* leaves the list when its request is sent, its descriptor is closed when *)
(* the reply has been written.  Meanwhile other clients connect, send,     *)
(* close, and descriptors are used again.                                  *)
(*                                                                         *)
(* What a client has sent is abstracted to what the server makes of it:    *)
(* the part of a line, a line that is a request, or a line that is not.    *)
(* A line that does not fit in its buffer is a part that never ends.       *)
(* TCP and the broker are external.  The broker answers requests in any    *)
(* order and may lose some (see Service).                                  *)
(***************************************************************************)
EXTENDS Integers, Sequences, FiniteSets

CONSTANTS Conn,         \* TCP connections clients may open
          Sends(_),     \* what the client of a connection may send
          NoConn,       \* nobody
          MAX_CONN,     \* connections in the list of poll items, 100 in the code
          Descriptor,   \* descriptors the system may hand out
          MaxReady,     \* bound: connections with unread input at one moment
          MaxLost       \* bound: requests lost with a worker

ASSUME OtpApiAssumption ==
    /\ NoConn \notin Conn
    /\ \A k \in Conn : Sends(k) \subseteq {"part", "line", "bad"}
    /\ MAX_CONN \in Nat \ {0} /\ Descriptor \subseteq Nat
    /\ MaxReady \in Nat /\ MaxLost \in Nat

VARIABLES
    backlog,      \* connections not yet accepted
    unread,       \* [Conn -> Input] what a client has sent and nobody has read
    sent,         \* [Conn -> Input] what it has sent so far
    hungup,       \* connections their client has closed
    fds,          \* [Descriptor -> Conn \cup {NoConn}] the open descriptors
    conn_items,   \* [1..MAX_CONN -> descriptor and poll result]
    n_conn,       \* the open connections are the first n_conn items
    buffers,      \* [1..MAX_CONN -> BOOLEAN] strtok has cut the line in the buffer
    conn_remove_queue,  \* indexes to be removed at the end of the iteration
    pc,           \* "poll", "broker", "http" or "conns": where the loop is
    revents,      \* which of the two sockets the poll found readable
    n_waiting,    \* events of the poll not handled yet
    c,            \* index of the loop over open connections
    requests,     \* <<descriptor, connection>> at the broker
    replies,      \* <<descriptor, connection>> on the broker's socket
    lost,         \* connections whose request got lost with a worker
    refused,      \* connections that got a 404
    delivered,    \* <<asking, receiving>> for every reply written
    missed        \* history: a removal has left a queued connection in the list

clients == <<backlog, unread, sent, hungup>>
items   == <<conn_items, n_conn, buffers, conn_remove_queue>>
loop    == <<pc, revents, n_waiting, c>>
broker  == <<requests, replies, lost>>
vars == <<clients, fds, items, loop, broker, refused, delivered, missed>>

Input == {"none", "part", "line", "bad"}

\* A descriptor that was never used: slots of the list are zero at first.
NoItem == [fd |-> 0, revents |-> "none"]

Polled == {conn_items[i].fd : i \in 1..n_conn}

\* The connection an open descriptor stands for.
ConnOf(fd) == IF fd \in Descriptor THEN fds[fd] ELSE NoConn

Init ==
    /\ backlog = {} /\ hungup = {}
    /\ unread = [k \in Conn |-> "none"] /\ sent = [k \in Conn |-> "none"]
    /\ fds = [d \in Descriptor |-> NoConn]
    /\ conn_items = [i \in 1..MAX_CONN |-> NoItem]
    /\ n_conn = 0
    /\ buffers = [i \in 1..MAX_CONN |-> FALSE]
    /\ conn_remove_queue = <<>>
    /\ pc = "poll" /\ revents = {} /\ n_waiting = 0 /\ c = 1
    /\ requests = {} /\ replies = {} /\ lost = {}
    /\ refused = {} /\ delivered = {} /\ missed = FALSE

--------------------------------------------------------------------------------
(***************************************************************************)
(* Clients.                                                                *)
(***************************************************************************)
Connected(k) == k \in backlog \/ \E d \in Descriptor : fds[d] = k

\* The connections a poll would find readable once they are in the list.
Readable(k) == unread[k] # "none" \/ k \in hungup
Unread == {k \in backlog \cup ({ConnOf(d) : d \in Polled} \ {NoConn}) : Readable(k)}

Connect(k) ==
    /\ ~Connected(k) /\ sent[k] = "none" /\ k \notin hungup
    /\ backlog' = backlog \cup {k}
    /\ UNCHANGED <<unread, sent, hungup, fds, items, loop, broker, refused, delivered, missed>>

\* What follows a line never changes what the line is.
Join(a, b) == IF a \in {"none", "part"} THEN b ELSE a

\* A client sends part of a line, a line, or the headers that follow its request,
\* each of which the server would take for a bad request.
Send(k, in) ==
    /\ Connected(k) /\ k \notin hungup
    /\ in \in Sends(k) /\ sent[k] # "bad"
    /\ in = "part" => sent[k] = "none"
    /\ in = "line" => sent[k] \in {"none", "part"}
    /\ Cardinality(Unread \cup {k}) <= MaxReady
    /\ sent' = [sent EXCEPT ![k] = in]
    /\ unread' = [unread EXCEPT ![k] = Join(@, in)]
    /\ UNCHANGED <<backlog, hungup, fds, items, loop, broker, refused, delivered, missed>>

HangUp(k) ==
    /\ Connected(k) /\ k \notin hungup
    /\ Cardinality(Unread \cup {k}) <= MaxReady
    /\ hungup' = hungup \cup {k}
    /\ UNCHANGED <<backlog, unread, sent, fds, items, loop, broker, refused, delivered, missed>>

--------------------------------------------------------------------------------
(***************************************************************************)
(* The broker.                                                             *)
(***************************************************************************)
BrokerReply(r) ==
    /\ r \in requests
    /\ requests' = requests \ {r}
    /\ replies' = replies \cup {r}
    /\ UNCHANGED <<lost, clients, fds, items, loop, refused, delivered, missed>>

BrokerLoses(r) ==
    /\ r \in requests /\ Cardinality(lost) < MaxLost
    /\ requests' = requests \ {r}
    /\ lost' = lost \cup {r[2]}
    /\ UNCHANGED <<replies, clients, fds, items, loop, refused, delivered, missed>>

--------------------------------------------------------------------------------
(***************************************************************************)
(* The polling loop.                                                       *)
(***************************************************************************)
\* What a poll reports for an item: input, an error for a descriptor that is not
\* open, or nothing.
ItemEvents(i) ==
    LET k == ConnOf(conn_items[i].fd)
    IN  IF k = NoConn THEN "error" ELSE IF Readable(k) THEN "in" ELSE "none"

\* Fault: replies wait until no client wants to connect.
SocketEventsNewFirst ==
    IF backlog # {} /\ n_conn < MAX_CONN THEN {"http"} ELSE {s \in {"broker"} : replies # {}}

\* The listening socket is polled only while there is room for a connection.
SocketEvents ==
    {s \in {"broker", "http"} : IF s = "broker" THEN replies # {} ELSE backlog # {} /\ n_conn < MAX_CONN}

\* Where the loop goes after the poll, and after the broker's message.
AfterBroker(events) == IF "http" \in events THEN "http" ELSE "conns"
AfterPoll(events) == IF "broker" \in events THEN "broker" ELSE AfterBroker(events)

Poll ==
    LET ready == {i \in 1..n_conn : ItemEvents(i) # "none"}
        waiting == Cardinality(SocketEvents) + Cardinality(ready)
    IN  /\ pc = "poll" /\ waiting >= 1
        /\ revents' = SocketEvents
        /\ conn_items' = [i \in 1..MAX_CONN |->
              IF i <= n_conn THEN [conn_items[i] EXCEPT !.revents = ItemEvents(i)] ELSE conn_items[i]]
        /\ n_waiting' = waiting
        /\ pc' = AfterPoll(SocketEvents)
        /\ UNCHANGED <<c, n_conn, buffers, conn_remove_queue, clients, fds, broker, refused, delivered, missed>>

\* Fault: the descriptor of the reply is that of the oldest open connection.
ReplyDescriptorFirst(r) == CHOOSE d \in Descriptor : \A e \in Descriptor : d <= e

\* The descriptor of a reply is read from the first byte of its frame.
ReplyDescriptor(r) == r[1] % 256

\* Fault: the event is not counted.
HandleReplyUncounted(r) ==
    /\ pc = "broker" /\ r \in replies
    /\ replies' = replies \ {r}
    /\ delivered' = delivered \cup {<<r[2], ConnOf(ReplyDescriptor(r))>>}
    /\ fds' = [d \in Descriptor |-> IF d = ReplyDescriptor(r) THEN NoConn ELSE fds[d]]
    /\ pc' = AfterBroker(revents)
    /\ UNCHANGED <<n_waiting, requests, lost, revents, c, clients, items, refused, missed>>

\* The reply is written to its descriptor, and the descriptor is closed.
HandleReply(r) ==
    /\ pc = "broker" /\ r \in replies
    /\ replies' = replies \ {r}
    /\ delivered' = delivered \cup {<<r[2], ConnOf(ReplyDescriptor(r))>>}
    /\ fds' = [d \in Descriptor |-> IF d = ReplyDescriptor(r) THEN NoConn ELSE fds[d]]
    /\ n_waiting' = n_waiting - 1
    /\ pc' = AfterBroker(revents)
    /\ UNCHANGED <<requests, lost, revents, c, clients, items, refused, missed>>

FreeDescriptors == {d \in Descriptor : fds[d] = NoConn}

\* The lowest free descriptor becomes the last item; the poll result of the item
\* is the one its slot held before.  If the list is full the connection is dropped
\* with its descriptor open.  Without a free descriptor accept fails.  It is given
\* a length nobody has initialized, and with a negative one drops the connection.
Accept(k) ==
    /\ pc = "http" /\ k \in backlog
    /\ \/ /\ FreeDescriptors = {}
          /\ UNCHANGED <<backlog, fds, conn_items, n_conn>>
       \/ /\ FreeDescriptors # {}
          /\ backlog' = backlog \ {k}
          /\ UNCHANGED <<fds, conn_items, n_conn>>
       \/ \E d \in FreeDescriptors :
            /\ \A e \in FreeDescriptors : d <= e
            /\ backlog' = backlog \ {k}
            /\ fds' = [fds EXCEPT ![d] = k]
            /\ conn_items' = [i \in 1..MAX_CONN |->
                  IF i = n_conn + 1 THEN [conn_items[i] EXCEPT !.fd = d] ELSE conn_items[i]]
            /\ n_conn' = IF n_conn < MAX_CONN THEN n_conn + 1 ELSE n_conn
    /\ n_waiting' = n_waiting - 1
    /\ pc' = "conns"
    /\ UNCHANGED <<revents, c, unread, sent, hungup, buffers, conn_remove_queue, broker, refused, delivered, missed>>

\* The loop over open connections goes on while events are left.
InLoop == pc = "conns" /\ c <= n_conn /\ n_waiting > 0

NoInput ==
    /\ InLoop /\ conn_items[c].revents # "in"
    /\ c' = c + 1
    /\ UNCHANGED <<pc, revents, n_waiting, clients, fds, items, broker, refused, delivered, missed>>

\* read_input at item c, which is connection k: one of the outcomes below.
Reading(k) ==
    /\ InLoop /\ conn_items[c].revents = "in"
    /\ k = ConnOf(conn_items[c].fd)
    /\ n_waiting' = n_waiting - 1
    /\ c' = c + 1
    /\ UNCHANGED <<pc, revents, backlog, sent, hungup, conn_items, n_conn, replies, lost, delivered, missed>>

remove_conn_later == conn_remove_queue' = Append(conn_remove_queue, c)

Consume(k) == unread' = [x \in Conn |-> IF x = k THEN "none" ELSE unread[x]]

\* No end of line yet, or recv failed because the descriptor is not open.
ReadPart(k) ==
    /\ Reading(k) /\ (k # NoConn => unread[k] = "part")
    /\ Consume(k)
    /\ UNCHANGED <<fds, buffers, conn_remove_queue, requests, refused>>

\* Fault: the server leaves the descriptor open.
ReadClosedOpen(k) ==
    /\ Reading(k) /\ k # NoConn
    /\ unread[k] = "none" /\ k \in hungup
    /\ remove_conn_later
    /\ UNCHANGED <<fds, unread, buffers, requests, refused>>

\* recv returned nothing: the client has closed, and so does the server.
ReadClosed(k) ==
    /\ Reading(k) /\ k # NoConn
    /\ unread[k] = "none" /\ k \in hungup
    /\ fds' = [fds EXCEPT ![conn_items[c].fd] = NoConn]
    /\ remove_conn_later
    /\ UNCHANGED <<unread, buffers, requests, refused>>

\* send_request with a line it can parse: one that is not cut up by an earlier call.
ReadRequest(k) ==
    /\ Reading(k) /\ k # NoConn
    /\ unread[k] = "line" /\ ~buffers[c]
    /\ Consume(k)
    /\ buffers' = [buffers EXCEPT ![c] = TRUE]
    /\ requests' = requests \cup {<<conn_items[c].fd, k>>}
    /\ remove_conn_later
    /\ UNCHANGED <<fds, refused>>

\* send_request with any other line: the 404 goes out, the descriptor stays open.
ReadBad(k) ==
    /\ Reading(k) /\ k # NoConn
    /\ unread[k] = "bad" \/ (unread[k] = "line" /\ buffers[c])
    /\ Consume(k)
    /\ buffers' = [buffers EXCEPT ![c] = TRUE]
    /\ refused' = refused \cup {k}
    /\ remove_conn_later
    /\ UNCHANGED <<fds, requests>>

\* The list, as items, buffers and length.
List == [items |-> conn_items, buffers |-> buffers, n |-> n_conn]

\* Fault: the hole is not filled.
remove_conn_unfilled(l, i) == IF i > l.n THEN l ELSE [l EXCEPT !.n = l.n - 1]

\* The last connection takes the place of connection i, and its buffer with it; an
\* index past the end is ignored.
remove_conn(l, i) ==
    IF i > l.n THEN l
    ELSE [items   |-> [l.items EXCEPT ![i] = l.items[l.n]],
          buffers |-> [l.buffers EXCEPT ![i] = l.buffers[l.n], ![l.n] = FALSE],
          n       |-> l.n - 1]

\* The queued removals one after the other, in the order they were queued: by then
\* an earlier removal may have moved the connection a later index was meant for.
remove_conn_enqueued ==
    LET after[j \in 0..Len(conn_remove_queue)] ==
            IF j = 0 THEN List ELSE remove_conn(after[j - 1], conn_remove_queue[j])
    IN  after[Len(conn_remove_queue)]

\* A connection that was to be removed is in the list that is left.
Misses(l) == \E j \in DOMAIN conn_remove_queue, m \in 1..l.n :
                 l.items[m].fd = conn_items[conn_remove_queue[j]].fd

\* The loop variables start afresh in the next iteration.
EndIteration ==
    /\ pc = "conns" /\ ~InLoop
    /\ missed' = (missed \/ Misses(remove_conn_enqueued))
    /\ conn_items' = remove_conn_enqueued.items
    /\ buffers' = remove_conn_enqueued.buffers
    /\ n_conn' = remove_conn_enqueued.n
    /\ conn_remove_queue' = <<>>
    /\ pc' = "poll" /\ revents' = {} /\ n_waiting' = 0 /\ c' = 1
    /\ UNCHANGED <<clients, fds, broker, refused, delivered>>

--------------------------------------------------------------------------------
ServerStep ==
    \/ Poll
    \/ \E r \in replies : HandleReply(r)
    \/ \E k \in backlog : Accept(k)
    \/ NoInput
    \/ \E k \in Conn \cup {NoConn} : ReadPart(k) \/ ReadClosed(k) \/ ReadRequest(k) \/ ReadBad(k)
    \/ EndIteration

Next ==
    \/ \E k \in Conn : Connect(k) \/ HangUp(k) \/ \E in \in Sends(k) : Send(k, in)
    \/ \E r \in requests : BrokerReply(r) \/ BrokerLoses(r)
    \/ ServerStep

Spec == Init /\ [][Next]_vars

\* The server's thread goes on, and the broker answers what it does not lose.
FairSpec ==
    /\ Spec
    /\ WF_vars(ServerStep)
    /\ \A r \in Descriptor \X Conn : WF_vars(BrokerReply(r))

================================================================================
