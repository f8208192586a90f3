-------------------------- MODULE OtpApiProperties -----------------------------
(***************************************************************************)
(* What the HTTP server owes the clients it multiplexes.                   *)
(***************************************************************************)
EXTENDS OtpApi

\* Descriptors that wait for a reply of the broker.
Awaiting == {r[1] : r \in requests \cup replies}

\* A reply is written to the connection that asked, however its descriptor was used
\* since it was read (otp_api.c:337-347), until a connection is left in the list that
\* should have been removed.
ReplyToAsker == missed \/ \A d \in delivered : d[1] = d[2]

\* "Connection has already been removed from polling list when ZMQ message was sent
\* to broker" (otp_api.c:344): between two iterations no connection is both polled
\* and waiting for its reply, and every item is open.
RemovedWhenSent ==
    pc = "poll" => /\ Polled \cap Awaiting = {}
                   /\ \A d \in Polled : ConnOf(d) # NoConn
                   /\ Cardinality(Polled) = n_conn

\* The server never waits for one client while others have input: it only calls
\* recv where there is something to receive, until a connection is left in the list that
\* should have been removed.  A connection accepted in this iteration, whose item holds a
\* poll result of another, is not reached (otp_api.c:355).
NeverBlocks ==
    (~missed /\ InLoop /\ conn_items[c].revents = "in") =>
        LET k == ConnOf(conn_items[c].fd) IN k = NoConn \/ Readable(k)

\* A connection leaves the list of poll items only if it was queued for removal, and
\* keeps its buffer wherever it is moved (otp_api.c:117-135).
RemovalStep ==
    pc = "conns" /\ pc' = "poll" =>
        \A i \in 1..n_conn :
            (\A j \in DOMAIN conn_remove_queue : conn_remove_queue[j] # i) =>
                \E m \in 1..n_conn' : conn_items'[m].fd = conn_items[i].fd /\ buffers'[m] = buffers[i]

OnlyQueuedRemoved == [][RemovalStep]_vars

\* Of a single connection queued for removal nothing is left in the list, whichever
\* place it has there (otp_api.c:117-135): only two or more in one iteration can
\* invalidate one another's index.
MissStep == ~missed /\ missed' => Len(conn_remove_queue) > 1

MissedOnlyInBursts == [][MissStep]_vars

\* Removals keep all connections that were not queued, with their buffers, however many are
\* removed in one iteration, and one that is alone in the queue is always found.
RemovalsExact == [][RemovalStep /\ MissStep]_vars

\* Every open descriptor is polled, waits for a reply, lost its request with a
\* worker, or got a 404: only the last two are never closed.
DescriptorsAccounted ==
    pc = "poll" => \A d \in Descriptor :
        fds[d] # NoConn => d \in Polled \cup Awaiting \/ fds[d] \in lost \cup refused

\* A request sent to the broker is answered, unless it is lost with a worker or a connection
\* is left in the list that should have been removed: its descriptor may then be used again
\* before its turn in the loop, and the server wait for the new client for ever.
EveryRequestAnswered ==
    \A k \in Conn : (\E r \in requests : r[2] = k) ~> (k \in lost \/ <<k, k>> \in delivered \/ missed)

================================================================================
