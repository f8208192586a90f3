----------------------------- MODULE OtpApiProofs -------------------------------
(***************************************************************************)
(* What the polling loop of otp_api.c does to connections, for every       *)
(* number of clients, descriptors and poll items.                          *)
(***************************************************************************)
EXTENDS OtpApiProperties, Induction, TLAPS

Item == [fd : Nat, revents : {"none", "in", "error"}]

\* Items stay in the list's range, and a connection is accepted only where there is room.
TypeInv ==
    /\ pc \in {"poll", "broker", "http", "conns"}
    /\ backlog \subseteq Conn /\ fds \in [Descriptor -> Conn \cup {NoConn}]
    /\ conn_items \in [1 .. MAX_CONN -> Item] /\ buffers \in [1 .. MAX_CONN -> BOOLEAN]
    /\ n_conn \in 0 .. MAX_CONN /\ c \in Nat \ {0}
    /\ requests \subseteq Descriptor \X Conn /\ replies \subseteq Descriptor \X Conn
    /\ pc = "http" => "http" \in revents
    /\ pc \in {"broker", "http"} /\ "http" \in revents => n_conn < MAX_CONN

\* Connections are queued for removal in the order of their indexes, each once.
QueueInv ==
    /\ conn_remove_queue \in Seq(1 .. n_conn)
    /\ pc # "conns" => conn_remove_queue = << >> /\ c = 1
    /\ \A j \in DOMAIN conn_remove_queue : conn_remove_queue[j] < c
    /\ \A i, j \in DOMAIN conn_remove_queue : i < j => conn_remove_queue[i] < conn_remove_queue[j]

Queued(i) == \E j \in DOMAIN conn_remove_queue : conn_remove_queue[j] = i

\* Every open descriptor is in the list and not about to be removed, or the request of its
\* connection is under way or lost, or was refused.
KeptInv ==
    \A d \in Descriptor : fds[d] # NoConn =>
        \/ \E i \in 1 .. n_conn : conn_items[i].fd = d /\ ~Queued(i)
        \/ <<d, fds[d]>> \in requests \cup replies
        \/ fds[d] \in lost \cup refused

--------------------------------------------------------------------------------
\* A connection has one descriptor, and none while it waits to be accepted.
OwnInv ==
    /\ \A d, e \in Descriptor : fds[d] = fds[e] /\ fds[d] # NoConn => d = e
    /\ \A d \in Descriptor : fds[d] \notin backlog

\* The items that stay are open, distinct, and do not wait for a reply.
ListInv ==
    /\ \A i \in 1 .. n_conn : ~Queued(i) =>
          /\ conn_items[i].fd \in Descriptor /\ fds[conn_items[i].fd] # NoConn
          /\ \A r \in requests \cup replies : r[1] # conn_items[i].fd
    /\ \A i, j \in 1 .. n_conn : conn_items[i].fd = conn_items[j].fd => i = j

\* The descriptor of a request is still its connection's, and no other request's.
AskerInv ==
    /\ \A r \in requests \cup replies : fds[r[1]] = r[2]
    /\ requests \cap replies = {}

UnreadInv == unread \in [Conn -> Input]

SocketsLeft == IF pc = "broker" THEN 1 + Cardinality(revents \cap {"http"}) ELSE IF pc = "http" THEN 1 ELSE 0

\* The items up to m that the poll found readable and that the loop has not come to.
ToRead(m) == {i \in c .. m : conn_items[i].revents = "in"}

\* The events that are left are those of the sockets and of the items still to be read, and
\* none of these has lost its input meanwhile.  Items after the m-th came after the poll.
WaitingInv ==
    /\ n_waiting \in Int
    /\ pc # "poll" => \E m \in 0 .. n_conn :
          /\ n_waiting = SocketsLeft + Cardinality(ToRead(m))
          /\ \A i \in ToRead(m) : Readable(ConnOf(conn_items[i].fd))

\* All is well with the list until a removal misses its connection.
WholeInv == OwnInv /\ ListInv /\ AskerInv /\ UnreadInv /\ WaitingInv

--------------------------------------------------------------------------------
(***************************************************************************)
(* Removing connections.                                                   *)
(***************************************************************************)
ListType == [items : [1 .. MAX_CONN -> Item], buffers : [1 .. MAX_CONN -> BOOLEAN], n : 0 .. MAX_CONN]

\* What a removal leaves: the last item in the place of the one that is removed.
LEMMA RemoveOne ==
    ASSUME NEW l \in ListType, NEW i \in 1 .. MAX_CONN
    PROVE  /\ remove_conn(l, i) \in ListType
           /\ i > l.n => remove_conn(l, i) = l
           /\ i <= l.n =>
                /\ remove_conn(l, i).n = l.n - 1
                /\ \A m \in 1 .. l.n - 1 :
                     /\ remove_conn(l, i).items[m] = l.items[IF m = i THEN l.n ELSE m]
                     /\ remove_conn(l, i).buffers[m] = l.buffers[IF m = i THEN l.n ELSE m]
<1>1. l.items \in [1 .. MAX_CONN -> Item] /\ l.buffers \in [1 .. MAX_CONN -> BOOLEAN] /\ l.n \in 0 .. MAX_CONN
  BY DEF ListType
<1>2. MAX_CONN \in Nat
  BY OtpApiAssumption
<1>3. CASE i > l.n
  <2>1. remove_conn(l, i) = l
    BY <1>3 DEF remove_conn
  <2>2. ~(i <= l.n)
    BY <1>1, <1>2, <1>3
  <2> QED
    BY <2>1, <2>2
<1>4. CASE i <= l.n
  <2> DEFINE its == [l.items EXCEPT ![i] = l.items[l.n]]
             bfs == [l.buffers EXCEPT ![i] = l.buffers[l.n], ![l.n] = FALSE]
  <2>1. ~(i > l.n) /\ l.n \in 1 .. MAX_CONN /\ l.n - 1 \in 0 .. MAX_CONN
    BY <1>1, <1>2, <1>4
  <2>2. remove_conn(l, i) = [items |-> its, buffers |-> bfs, n |-> l.n - 1]
    BY <2>1 DEF remove_conn
  <2>3. its \in [1 .. MAX_CONN -> Item] /\ bfs \in [1 .. MAX_CONN -> BOOLEAN]
    <3>1. l.items[l.n] \in Item /\ l.buffers[l.n] \in BOOLEAN
      BY <1>1, <2>1
    <3> QED
      BY <1>1, <3>1
  <2>4. ASSUME NEW m \in 1 .. l.n - 1
        PROVE  its[m] = l.items[IF m = i THEN l.n ELSE m] /\ bfs[m] = l.buffers[IF m = i THEN l.n ELSE m]
    <3>1. m \in 1 .. MAX_CONN /\ m # l.n
      BY <1>1, <1>2
    <3> QED
      BY <1>1, <2>1, <3>1
  <2> HIDE DEF its, bfs
  <2>5. remove_conn(l, i) \in ListType
    BY <2>1, <2>2, <2>3 DEF ListType
  <2> QED
    BY <2>1, <2>2, <2>4, <2>5
<1> QED
  BY <1>1, <1>2, <1>3, <1>4

\* The removals are made one after the other.
LEMMA RemovalLoop ==
    ASSUME TypeInv, QueueInv
    PROVE  \E f \in [0 .. Len(conn_remove_queue) -> ListType] :
              /\ f[0] = List /\ f[Len(conn_remove_queue)] = remove_conn_enqueued
              /\ \A j \in 1 .. Len(conn_remove_queue) :
                    conn_remove_queue[j] \in 1 .. n_conn /\ f[j] = remove_conn(f[j - 1], conn_remove_queue[j])
<1> DEFINE q == conn_remove_queue
           n == Len(q)
           step == [p \in (1 .. n) \X ListType |-> remove_conn(p[2], q[p[1]])]
           IsAfter(g) == g = [j \in 0 .. n |-> IF j = 0 THEN List ELSE remove_conn(g[j - 1], q[j])]
<1>1. n \in Nat /\ \A j \in 1 .. n : q[j] \in 1 .. n_conn /\ q[j] \in 1 .. MAX_CONN
  <2>1. q \in Seq(1 .. n_conn) /\ n_conn \in 0 .. MAX_CONN /\ MAX_CONN \in Nat
    BY OtpApiAssumption DEF QueueInv, TypeInv
  <2>2. n \in Nat /\ \A j \in 1 .. n : q[j] \in 1 .. n_conn
    BY <2>1
  <2> QED
    BY <2>1, <2>2
<1>2. List \in ListType
  BY DEF List, ListType, TypeInv
<1>3. step \in [(1 .. n) \X ListType -> ListType]
  BY <1>1, RemoveOne
<1>4. PICK f : IsLoop(f, ListType, n, List, step)
  <2> HIDE DEF step, n
  <2> QED
    BY <1>1, <1>2, <1>3, LoopExists
<1>5. f \in [0 .. n -> ListType] /\ f[0] = List
  BY <1>4 DEF IsLoop
<1>6. ASSUME NEW j \in 1 .. n PROVE f[j] = remove_conn(f[j - 1], q[j])
  <2>1. j - 1 \in 0 .. n /\ f[j - 1] \in ListType
    BY <1>1, <1>5
  <2>2. step[<<j, f[j - 1]>>] = remove_conn(f[j - 1], q[j])
    BY <2>1
  <2> HIDE DEF step
  <2> QED
    BY <1>4, <2>2 DEF IsLoop
<1>7. IsAfter(f)
  <2> DEFINE h == [j \in 0 .. n |-> IF j = 0 THEN List ELSE remove_conn(f[j - 1], q[j])]
  <2>1. \A j \in 0 .. n : j # 0 => j \in 1 .. n
    BY <1>1
  <2>2. \A j \in 0 .. n : f[j] = h[j]
    BY <1>5, <1>6, <2>1
  <2>3. f = [j \in 0 .. n |-> f[j]] /\ h = [j \in 0 .. n |-> h[j]]
    BY <1>5
  <2>4. f = h
    <3> HIDE DEF h
    <3> QED
      BY <2>2, <2>3
  <2> QED
    BY <2>4
<1>8. ASSUME NEW g, IsAfter(g) PROVE g[n] = f[n]
  <2> DEFINE S == {j \in 0 .. n : g[j] = f[j]}
  <2>1. \A j \in 0 .. n : g[j] = IF j = 0 THEN List ELSE remove_conn(g[j - 1], q[j])
    <3> DEFINE e(j) == IF j = 0 THEN List ELSE remove_conn(g[j - 1], q[j])
    <3>1. g = [j \in 0 .. n |-> e(j)]
      BY <1>8
    <3> HIDE DEF e
    <3>2. \A j \in 0 .. n : g[j] = e(j)
      BY <3>1
    <3> QED
      BY <3>2 DEF e
  <2>2. 0 \in S
    BY <1>1, <1>5, <2>1
  <2>3. ASSUME NEW j \in 0 .. n, j < n, j \in S PROVE j + 1 \in S
    <3>1. j + 1 \in 0 .. n /\ j + 1 \in 1 .. n /\ j + 1 # 0 /\ (j + 1) - 1 = j
      BY <1>1, <2>3
    <3>2. g[j + 1] = remove_conn(g[j], q[j + 1])
      BY <2>1, <3>1
    <3>3. f[j + 1] = remove_conn(f[j], q[j + 1])
      BY <1>6, <3>1
    <3> QED
      BY <2>3, <3>1, <3>2, <3>3
  <2>4. \A j \in 0 .. n : j \in S
    <3> HIDE DEF S
    <3> QED
      BY <1>1, <2>2, <2>3, IndexInduction
  <2> QED
    BY <1>1, <2>4
<1>9. remove_conn_enqueued = (CHOOSE g : IsAfter(g))[n]
  BY DEF remove_conn_enqueued
<1>10. IsAfter(CHOOSE g : IsAfter(g))
  <2> HIDE DEF IsAfter
  <2> QED
    BY <1>7
<1>11. f[n] = remove_conn_enqueued
  <2> HIDE DEF IsAfter
  <2> QED
    BY <1>8, <1>9, <1>10
<1> QED
  BY <1>1, <1>5, <1>6, <1>11

\* A connection that is not queued keeps its item and its buffer, wherever they are moved.
LEMMA RemovalKeeps ==
    ASSUME TypeInv, QueueInv, NEW x \in 1 .. n_conn, ~Queued(x)
    PROVE  \E m \in 1 .. remove_conn_enqueued.n :
              /\ remove_conn_enqueued.items[m] = conn_items[x]
              /\ remove_conn_enqueued.buffers[m] = buffers[x]
<1> DEFINE q == conn_remove_queue
           n == Len(q)
<1>1. PICK f \in [0 .. n -> ListType] :
         /\ f[0] = List /\ f[n] = remove_conn_enqueued
         /\ \A j \in 1 .. n : q[j] \in 1 .. n_conn /\ f[j] = remove_conn(f[j - 1], q[j])
  BY RemovalLoop
<1>2. n \in Nat /\ n_conn \in Nat /\ n_conn <= MAX_CONN /\ MAX_CONN \in Nat /\ DOMAIN q = 1 .. n
  BY OtpApiAssumption DEF TypeInv, QueueInv
<1>3. \A j \in 1 .. n : q[j] # x
  BY <1>2 DEF Queued
\* x is in its place, or in that of a connection removed before it.
<1> DEFINE At(l, m) == l.items[m] = conn_items[x] /\ l.buffers[m] = buffers[x]
           Kept(j) == /\ x <= f[j].n => At(f[j], x)
                      /\ x > f[j].n => \E h \in 1 .. j : q[h] <= f[j].n /\ At(f[j], q[h])
           S == {j \in 0 .. n : Kept(j)}
<1>4. 0 \in S
  BY <1>1, <1>2 DEF List
<1>5. ASSUME NEW j \in 0 .. n, j < n, j \in S PROVE j + 1 \in S
  <2>1. PICK l \in ListType, k \in ListType, i \in 1 .. n_conn :
           l = f[j] /\ i = q[j + 1] /\ k = f[j + 1] /\ k = remove_conn(l, i)
    <3>1. j + 1 \in 1 .. n /\ j + 1 \in 0 .. n /\ (j + 1) - 1 = j
      BY <1>2, <1>5
    <3>2. f[j] \in ListType /\ f[j + 1] \in ListType /\ q[j + 1] \in 1 .. n_conn
          /\ f[j + 1] = remove_conn(f[j], q[j + 1])
      BY <1>1, <3>1
    <3> QED
      BY <3>2
  <2>2. j + 1 \in 1 .. n /\ j + 1 \in 0 .. n /\ i # x /\ i \in 1 .. MAX_CONN /\ l.n \in Nat
    <3>1. j + 1 \in 1 .. n /\ j + 1 \in 0 .. n
      BY <1>2, <1>5
    <3> QED
      BY <1>2, <1>3, <2>1, <3>1 DEF ListType
  <2>3. Kept(j)
    BY <1>5
  <2>4. CASE i > l.n
    <3>1. k = l
      BY <2>1, <2>2, <2>4, RemoveOne
    <3>2. \A h \in 1 .. j : h \in 1 .. j + 1
      BY <1>2
    <3>3. Kept(j + 1)
      BY <2>1, <2>3, <3>1, <3>2
    <3> QED
      BY <2>2, <3>3
  <2>5. CASE i <= l.n
    <3>1. /\ k.n = l.n - 1
          /\ \A m \in 1 .. l.n - 1 : /\ k.items[m] = l.items[IF m = i THEN l.n ELSE m]
                                     /\ k.buffers[m] = l.buffers[IF m = i THEN l.n ELSE m]
      BY <2>1, <2>2, <2>5, RemoveOne
    <3>2. CASE x < l.n
      <4>1. x \in 1 .. l.n - 1 /\ x <= l.n /\ ~(x > l.n - 1)
        BY <1>2, <2>2, <3>2
      <4>2. At(l, x)
        BY <2>1, <2>3, <4>1
      <4>3. At(k, x)
        BY <2>2, <3>1, <4>1, <4>2
      <4>4. Kept(j + 1)
        BY <2>1, <3>1, <4>1, <4>3
      <4> QED
        BY <2>2, <4>4
    <3>3. CASE x = l.n
      <4>1. i \in 1 .. l.n - 1 /\ x <= l.n /\ ~(x <= l.n - 1) /\ j + 1 \in 1 .. j + 1 /\ i <= l.n - 1
        BY <1>2, <2>2, <2>5, <3>3
      <4>2. At(l, x)
        BY <2>1, <2>3, <4>1
      <4>3. At(k, i)
        BY <3>1, <3>3, <4>1, <4>2
      <4>4. Kept(j + 1)
        BY <2>1, <3>1, <4>1, <4>3
      <4> QED
        BY <2>2, <4>4
    <3>4. CASE x > l.n
      <4>1. PICK h \in 1 .. j : q[h] <= l.n /\ At(l, q[h])
        BY <2>1, <2>3, <3>4
      <4>2. h \in 1 .. n /\ h < j + 1 /\ h \in 1 .. j + 1
        BY <1>2, <1>5
      <4>3. q[h] \in 1 .. n_conn /\ q[h] < i
        BY <1>1, <1>2, <2>1, <2>2, <4>2 DEF QueueInv
      <4>4. q[h] \in 1 .. l.n - 1 /\ q[h] # i /\ q[h] <= l.n - 1 /\ ~(x <= l.n - 1)
        BY <1>2, <2>2, <2>5, <3>4, <4>3
      <4>5. At(k, q[h])
        BY <3>1, <4>1, <4>4
      <4>6. \E g \in 1 .. j + 1 : q[g] <= k.n /\ At(k, q[g])
        <5> HIDE DEF At
        <5> QED
          BY <3>1, <4>2, <4>4, <4>5
      <4>7. ~(x <= k.n)
        BY <3>1, <4>4
      <4>8. Kept(j + 1)
        <5> HIDE DEF At
        <5> QED
          BY <2>1, <4>6, <4>7
      <4> QED
        BY <2>2, <4>8
    <3> QED
      BY <1>2, <2>2, <3>2, <3>3, <3>4
  <2> QED
    BY <1>2, <2>2, <2>4, <2>5
<1>6. n \in S
  <2>1. \A j \in 0 .. n : j \in S
    <3> HIDE DEF S
    <3> QED
      BY <1>2, <1>4, <1>5, IndexInduction
  <2> QED
    BY <1>2, <2>1
<1>7. f[n] \in ListType /\ f[n].n \in Nat
  BY <1>1, <1>2 DEF ListType
<1>8. CASE x <= f[n].n
  BY <1>1, <1>2, <1>6, <1>7, <1>8
<1>9. CASE x > f[n].n
  <2>1. PICK h \in 1 .. n : q[h] <= f[n].n /\ At(f[n], q[h])
    BY <1>6, <1>9
  <2>2. q[h] \in 1 .. f[n].n
    BY <1>1, <1>2, <1>7, <2>1
  <2> QED
    BY <1>1, <2>1, <2>2
<1> QED
  BY <1>2, <1>7, <1>8, <1>9

--------------------------------------------------------------------------------
(***************************************************************************)
(* The list of poll items.                                                 *)
(***************************************************************************)
\* The actions that write the list, the queue or the place in the loop.
Quiet == UNCHANGED <<fds, conn_items, n_conn, buffers, conn_remove_queue, pc, revents, c>>

\* Clients and the broker leave the server alone.
LEMMA OthersQuiet ==
    ASSUME TypeInv, \/ \E k \in Conn : Connect(k) \/ HangUp(k) \/ \E in \in Sends(k) : Send(k, in)
                    \/ \E r \in requests : BrokerReply(r) \/ BrokerLoses(r)
                    \/ UNCHANGED vars
    PROVE  /\ Quiet /\ backlog' \subseteq Conn /\ UNCHANGED <<n_waiting, delivered, refused>>
           /\ requests' \subseteq requests /\ replies' \subseteq requests \cup replies
<1>1. ASSUME NEW k \in Conn, Connect(k)
      PROVE  /\ Quiet /\ backlog' \subseteq Conn /\ UNCHANGED <<n_waiting, delivered, refused>>
             /\ requests' = requests /\ replies' = replies
  BY <1>1 DEF Connect, Quiet, TypeInv, items, loop, broker
<1>2. ASSUME NEW k \in Conn, HangUp(k) \/ \E in \in Sends(k) : Send(k, in)
      PROVE  /\ Quiet /\ backlog' \subseteq Conn /\ UNCHANGED <<n_waiting, delivered, refused>>
             /\ requests' = requests /\ replies' = replies
  BY <1>2 DEF HangUp, Send, Quiet, TypeInv, items, loop, broker
<1>3. ASSUME NEW r \in requests, BrokerReply(r) \/ BrokerLoses(r)
      PROVE  /\ Quiet /\ backlog' \subseteq Conn /\ UNCHANGED <<n_waiting, delivered, refused>>
             /\ requests' \subseteq requests /\ replies' \subseteq requests \cup replies
  BY <1>3 DEF BrokerReply, BrokerLoses, Quiet, TypeInv, items, loop, clients
<1>4. CASE UNCHANGED vars
  BY <1>4 DEF vars, Quiet, TypeInv, items, loop, clients, broker
<1> QED
  BY <1>1, <1>2, <1>3, <1>4

\* What reading from an item does, whatever was read.
LEMMA ReadEffect ==
    ASSUME TypeInv, NEW k \in Conn \cup {NoConn},
           ReadPart(k) \/ ReadClosed(k) \/ ReadRequest(k) \/ ReadBad(k)
    PROVE  /\ InLoop /\ conn_items[c].revents = "in" /\ k = ConnOf(conn_items[c].fd) /\ c \in 1 .. n_conn
           /\ c' = c + 1 /\ n_waiting' = n_waiting - 1
           /\ UNCHANGED <<pc, revents, backlog, sent, hungup, conn_items, n_conn, replies, lost, delivered>>
           /\ buffers' \in [1 .. MAX_CONN -> BOOLEAN]
           /\ k # NoConn => conn_items[c].fd \in Descriptor /\ fds[conn_items[c].fd] = k /\ k \in Conn
           /\ conn_remove_queue' = conn_remove_queue \/ conn_remove_queue' = Append(conn_remove_queue, c)
           /\ \/ fds' = fds /\ requests' = requests /\ refused' = refused /\ conn_remove_queue' = conn_remove_queue
              \/ /\ k # NoConn /\ conn_remove_queue' = Append(conn_remove_queue, c)
                 /\ \/ /\ fds' = [fds EXCEPT ![conn_items[c].fd] = NoConn]
                       /\ requests' = requests /\ refused' = refused
                    \/ /\ fds' = fds /\ requests' = requests \cup {<<conn_items[c].fd, k>>}
                       /\ refused' = refused
                    \/ fds' = fds /\ requests' = requests /\ refused' = refused \cup {k}
<1>1. Reading(k)
  BY DEF ReadPart, ReadClosed, ReadRequest, ReadBad
<1>2. /\ InLoop /\ conn_items[c].revents = "in" /\ k = ConnOf(conn_items[c].fd)
      /\ c' = c + 1 /\ n_waiting' = n_waiting - 1
      /\ UNCHANGED <<pc, revents, backlog, sent, hungup, conn_items, n_conn, replies, lost, delivered>>
  BY <1>1 DEF Reading
<1>3. c \in 1 .. n_conn
  BY <1>2 DEF InLoop, TypeInv
<1>4. k # NoConn => conn_items[c].fd \in Descriptor /\ fds[conn_items[c].fd] = k /\ k \in Conn
  BY <1>2 DEF ConnOf
<1>5. buffers' \in [1 .. MAX_CONN -> BOOLEAN]
  BY DEF TypeInv, ReadPart, ReadClosed, ReadRequest, ReadBad
<1>6. CASE ReadPart(k)
  BY <1>2, <1>3, <1>4, <1>5, <1>6 DEF ReadPart
<1>7. CASE ReadClosed(k)
  BY <1>2, <1>3, <1>4, <1>5, <1>7 DEF ReadClosed, remove_conn_later
<1>8. CASE ReadRequest(k)
  BY <1>2, <1>3, <1>4, <1>5, <1>8 DEF ReadRequest, remove_conn_later
<1>9. CASE ReadBad(k)
  BY <1>2, <1>3, <1>4, <1>5, <1>9 DEF ReadBad, remove_conn_later
<1> QED
  BY <1>6, <1>7, <1>8, <1>9

\* What a poll writes to the list: results only.
LEMMA PollEffect ==
    ASSUME TypeInv, Poll
    PROVE  /\ conn_items' \in [1 .. MAX_CONN -> Item]
           /\ \A i \in 1 .. MAX_CONN : conn_items'[i].fd = conn_items[i].fd
           /\ \A i \in 1 .. n_conn : conn_items'[i].revents = ItemEvents(i)
           /\ pc = "poll" /\ pc' \in {"broker", "http", "conns"}
           /\ revents' = SocketEvents /\ (pc' = "http" => "http" \in revents')
           /\ "http" \in revents' => n_conn < MAX_CONN
           /\ UNCHANGED <<c, n_conn, buffers, conn_remove_queue, backlog, fds, requests, replies, lost, refused, delivered>>
<1>1. ASSUME NEW i \in 1 .. MAX_CONN
      PROVE  /\ conn_items'[i] \in Item /\ conn_items'[i].fd = conn_items[i].fd
             /\ i \in 1 .. n_conn => conn_items'[i].revents = ItemEvents(i)
  <2>1. conn_items[i] \in Item /\ ItemEvents(i) \in {"none", "in", "error"} /\ n_conn \in Nat
    BY OtpApiAssumption DEF TypeInv, ItemEvents
  <2>2. conn_items'[i] = IF i <= n_conn THEN [conn_items[i] EXCEPT !.revents = ItemEvents(i)] ELSE conn_items[i]
    BY DEF Poll
  <2>3. CASE i <= n_conn
    BY <2>1, <2>2, <2>3 DEF Item
  <2>4. CASE ~(i <= n_conn)
    BY <2>1, <2>2, <2>4
  <2> QED
    BY <2>3, <2>4
<1>2. conn_items' \in [1 .. MAX_CONN -> Item]
  <2> DEFINE e(i) == IF i <= n_conn THEN [conn_items[i] EXCEPT !.revents = ItemEvents(i)] ELSE conn_items[i]
  <2>1. conn_items' = [i \in 1 .. MAX_CONN |-> e(i)]
    BY DEF Poll
  <2> HIDE DEF e
  <2>2. conn_items' = [i \in 1 .. MAX_CONN |-> conn_items'[i]]
    BY <2>1
  <2> QED
    BY <1>1, <2>2
<1>3. \A i \in 1 .. n_conn : i \in 1 .. MAX_CONN
  BY OtpApiAssumption DEF TypeInv
<1>4. /\ pc = "poll" /\ pc' = AfterPoll(SocketEvents) /\ revents' = SocketEvents
      /\ UNCHANGED <<c, n_conn, buffers, conn_remove_queue, backlog, fds, requests, replies, lost, refused, delivered>>
  BY DEF Poll, clients, broker
<1>5. pc' \in {"broker", "http", "conns"} /\ (pc' = "http" => "http" \in revents')
  BY <1>4 DEF AfterPoll, AfterBroker
<1>6. "http" \in revents' => n_conn < MAX_CONN
  BY <1>4 DEF SocketEvents
<1> QED
  BY <1>1, <1>2, <1>3, <1>4, <1>5, <1>6

\* A connection is accepted into the first item after the list, or not at all.
LEMMA AcceptEffect ==
    ASSUME TypeInv, NEW k \in backlog, Accept(k)
    PROVE  /\ pc = "http" /\ pc' = "conns" /\ n_waiting' = n_waiting - 1 /\ n_conn + 1 \in 1 .. MAX_CONN
           /\ UNCHANGED <<revents, c, unread, sent, hungup, buffers, conn_remove_queue,
                          requests, replies, lost, refused, delivered>>
           /\ \/ UNCHANGED <<fds, conn_items, n_conn>> /\ backlog' \subseteq backlog
              \/ /\ backlog' = backlog \ {k} /\ n_conn' = n_conn + 1
                 /\ \E d \in Descriptor : /\ fds[d] = NoConn /\ fds' = [fds EXCEPT ![d] = k]
                                          /\ conn_items'[n_conn + 1].fd = d
                 /\ conn_items' \in [1 .. MAX_CONN -> Item]
                 /\ \A i \in 1 .. MAX_CONN : i # n_conn + 1 => conn_items'[i] = conn_items[i]
<1>1. /\ pc = "http" /\ pc' = "conns" /\ n_waiting' = n_waiting - 1
      /\ UNCHANGED <<revents, c, unread, sent, hungup, buffers, conn_remove_queue,
                     requests, replies, lost, refused, delivered>>
  BY DEF Accept, broker
<1>2. n_conn < MAX_CONN /\ n_conn + 1 \in 1 .. MAX_CONN
  BY <1>1, OtpApiAssumption DEF TypeInv
<1>3. CASE UNCHANGED <<fds, conn_items, n_conn>> /\ backlog' \subseteq backlog
  BY <1>1, <1>2, <1>3
<1>4. ASSUME NEW d \in FreeDescriptors, backlog' = backlog \ {k}, fds' = [fds EXCEPT ![d] = k],
             conn_items' = [i \in 1 .. MAX_CONN |->
                  IF i = n_conn + 1 THEN [conn_items[i] EXCEPT !.fd = d] ELSE conn_items[i]],
             n_conn' = IF n_conn < MAX_CONN THEN n_conn + 1 ELSE n_conn
      PROVE  /\ backlog' = backlog \ {k} /\ n_conn' = n_conn + 1
             /\ \E e \in Descriptor : /\ fds[e] = NoConn /\ fds' = [fds EXCEPT ![e] = k]
                                      /\ conn_items'[n_conn + 1].fd = e
             /\ conn_items' \in [1 .. MAX_CONN -> Item]
             /\ \A i \in 1 .. MAX_CONN : i # n_conn + 1 => conn_items'[i] = conn_items[i]
  <2>1. d \in Descriptor /\ fds[d] = NoConn /\ d \in Nat
    BY OtpApiAssumption DEF FreeDescriptors
  <2>2. \A i \in 1 .. MAX_CONN : conn_items[i] \in Item
    BY DEF TypeInv
  <2>3. ASSUME NEW i \in 1 .. MAX_CONN
        PROVE  [conn_items[i] EXCEPT !.fd = d] \in Item /\ [conn_items[i] EXCEPT !.fd = d].fd = d
    BY <2>1, <2>2 DEF Item
  <2>4. conn_items' \in [1 .. MAX_CONN -> Item]
    BY <1>4, <2>2, <2>3
  <2>5. conn_items'[n_conn + 1].fd = d
    BY <1>2, <1>4, <2>3
  <2> QED
    BY <1>2, <1>4, <2>1, <2>4, <2>5
<1>5. \/ UNCHANGED <<fds, conn_items, n_conn>> /\ backlog' \subseteq backlog
      \/ \E d \in FreeDescriptors :
            /\ backlog' = backlog \ {k} /\ fds' = [fds EXCEPT ![d] = k]
            /\ conn_items' = [i \in 1 .. MAX_CONN |->
                  IF i = n_conn + 1 THEN [conn_items[i] EXCEPT !.fd = d] ELSE conn_items[i]]
            /\ n_conn' = IF n_conn < MAX_CONN THEN n_conn + 1 ELSE n_conn
  BY DEF Accept
<1> QED
  BY <1>1, <1>2, <1>3, <1>4, <1>5

\* The list after the removals is a list again.
LEMMA EndEffect ==
    ASSUME TypeInv, QueueInv, EndIteration
    PROVE  /\ remove_conn_enqueued \in ListType
           /\ conn_items' = remove_conn_enqueued.items /\ buffers' = remove_conn_enqueued.buffers
           /\ n_conn' = remove_conn_enqueued.n
           /\ pc = "conns" /\ pc' = "poll" /\ conn_remove_queue' = << >> /\ c' = 1
           /\ UNCHANGED <<backlog, unread, sent, hungup, fds, requests, replies, lost, refused, delivered>>
<1>1. remove_conn_enqueued \in ListType
  <2>1. PICK f \in [0 .. Len(conn_remove_queue) -> ListType] : f[Len(conn_remove_queue)] = remove_conn_enqueued
    BY RemovalLoop
  <2>2. Len(conn_remove_queue) \in Nat
    BY DEF QueueInv
  <2> QED
    BY <2>1, <2>2
<1> QED
  BY <1>1 DEF EndIteration, clients, broker

\* The steps of the polling loop keep the list and the queue in order.
LEMMA ListStep == ASSUME TypeInv, QueueInv, [Next]_vars PROVE TypeInv' /\ QueueInv'
<1>1. CASE \/ \E k \in Conn : Connect(k) \/ HangUp(k) \/ \E in \in Sends(k) : Send(k, in)
           \/ \E r \in requests : BrokerReply(r) \/ BrokerLoses(r)
           \/ UNCHANGED vars
  <2>1. /\ Quiet /\ backlog' \subseteq Conn
        /\ requests' \subseteq requests /\ replies' \subseteq requests \cup replies
    BY <1>1, OthersQuiet
  <2> QED
    BY <2>1 DEF Quiet, TypeInv, QueueInv
<1>2. CASE Poll
  <2>1. TypeInv'
    BY <1>2, PollEffect DEF TypeInv
  <2> QED
    BY <1>2, <2>1, PollEffect DEF QueueInv
<1>3. ASSUME NEW r \in replies, HandleReply(r) PROVE TypeInv' /\ QueueInv'
  <2>1. /\ pc = "broker" /\ pc' \in {"http", "conns"} /\ (pc' = "http" <=> "http" \in revents)
        /\ UNCHANGED <<requests, revents, c, backlog, items>> /\ replies' \subseteq replies
    BY <1>3 DEF HandleReply, AfterBroker, clients
  <2>2. fds' \in [Descriptor -> Conn \cup {NoConn}]
    <3>1. fds' = [d \in Descriptor |-> IF d = ReplyDescriptor(r) THEN NoConn ELSE fds[d]]
      BY <1>3 DEF HandleReply
    <3> QED
      BY <3>1 DEF TypeInv
  <2>3. TypeInv'
    BY <2>1, <2>2 DEF TypeInv, items
  <2> QED
    BY <2>1, <2>3 DEF QueueInv, items
<1>4. ASSUME NEW k \in backlog, Accept(k) PROVE TypeInv' /\ QueueInv'
  <2>1. k \in Conn /\ n_conn \in Nat /\ MAX_CONN \in Nat
    BY OtpApiAssumption DEF TypeInv
  <2>2. /\ pc = "http" /\ pc' = "conns" /\ UNCHANGED <<revents, c, buffers, conn_remove_queue, requests, replies>>
        /\ n_conn' \in 0 .. MAX_CONN /\ backlog' \subseteq backlog
        /\ fds' \in [Descriptor -> Conn \cup {NoConn}] /\ conn_items' \in [1 .. MAX_CONN -> Item]
    <3>1. CASE UNCHANGED <<fds, conn_items, n_conn>> /\ backlog' \subseteq backlog
      BY <1>4, <3>1, AcceptEffect DEF TypeInv
    <3>2. CASE \E d \in Descriptor : fds' = [fds EXCEPT ![d] = k]
      <4>1. fds' \in [Descriptor -> Conn \cup {NoConn}]
        BY <2>1, <3>2 DEF TypeInv
      <4>2. n_conn + 1 \in 0 .. MAX_CONN
        BY <1>4, <2>1, AcceptEffect
      <4>3. n_conn' \in 0 .. MAX_CONN /\ backlog' \subseteq backlog /\ conn_items' \in [1 .. MAX_CONN -> Item]
        BY <1>4, <4>2, AcceptEffect DEF TypeInv
      <4> QED
        BY <1>4, <4>1, <4>3, AcceptEffect
    <3> QED
      BY <1>4, <3>1, <3>2, AcceptEffect
  <2>3. TypeInv'
    BY <2>2 DEF TypeInv
  <2>4. conn_remove_queue' = << >>
    BY <2>2 DEF QueueInv
  <2> QED
    BY <2>2, <2>3, <2>4 DEF QueueInv
<1>5. CASE NoInput
  <2>1. pc = "conns" /\ c' = c + 1 /\ UNCHANGED <<pc, revents, backlog, fds, items, requests, replies>>
    BY <1>5 DEF NoInput, InLoop, clients, broker
  <2>2. TypeInv'
    BY <2>1 DEF TypeInv, items
  <2>3. \A j \in DOMAIN conn_remove_queue : conn_remove_queue[j] < c + 1
    <3>1. \A j \in DOMAIN conn_remove_queue : conn_remove_queue[j] \in 1 .. n_conn /\ conn_remove_queue[j] < c
      BY DEF QueueInv, TypeInv
    <3>2. c \in Nat /\ n_conn \in Nat
      BY DEF TypeInv
    <3> QED
      BY <3>1, <3>2
  <2> QED
    BY <2>1, <2>2, <2>3 DEF QueueInv, items
<1>6. ASSUME NEW k \in Conn \cup {NoConn}, ReadPart(k) \/ ReadClosed(k) \/ ReadRequest(k) \/ ReadBad(k)
      PROVE  TypeInv' /\ QueueInv'
  <2>1. /\ pc = "conns" /\ c \in 1 .. n_conn /\ c' = c + 1
        /\ UNCHANGED <<pc, revents, backlog, conn_items, n_conn, replies>>
        /\ buffers' \in [1 .. MAX_CONN -> BOOLEAN]
    BY <1>6, ReadEffect DEF InLoop
  <2>2. fds' \in [Descriptor -> Conn \cup {NoConn}] /\ requests' \subseteq Descriptor \X Conn
    <3>1. k # NoConn => conn_items[c].fd \in Descriptor /\ k \in Conn
      BY <1>6, ReadEffect
    <3>2. \/ fds' = fds /\ requests' = requests
          \/ fds' = [fds EXCEPT ![conn_items[c].fd] = NoConn] /\ requests' = requests
          \/ k # NoConn /\ fds' = fds /\ requests' = requests \cup {<<conn_items[c].fd, k>>}
      BY <1>6, ReadEffect
    <3> QED
      BY <3>1, <3>2 DEF TypeInv
  <2>3. TypeInv'
    BY <2>1, <2>2 DEF TypeInv
  <2>4. /\ conn_remove_queue \in Seq(1 .. n_conn) /\ c \in Nat /\ n_conn \in Nat
        /\ \A j \in DOMAIN conn_remove_queue : conn_remove_queue[j] < c /\ conn_remove_queue[j] \in 1 .. n_conn
        /\ \A i, j \in DOMAIN conn_remove_queue : i < j => conn_remove_queue[i] < conn_remove_queue[j]
    BY DEF QueueInv, TypeInv
  <2>5. CASE conn_remove_queue' = conn_remove_queue
    <3>1. \A j \in DOMAIN conn_remove_queue : conn_remove_queue[j] < c + 1
      BY <2>4
    <3> QED
      BY <2>1, <2>3, <2>4, <2>5, <3>1 DEF QueueInv
  <2>6. CASE conn_remove_queue' = Append(conn_remove_queue, c)
    <3>1. conn_remove_queue' \in Seq(1 .. n_conn)
      BY <2>1, <2>4, <2>6
    <3>2. \A j \in DOMAIN conn_remove_queue' : conn_remove_queue'[j] < c + 1
      BY <2>4, <2>6
    <3>3. \A i, j \in DOMAIN conn_remove_queue' : i < j => conn_remove_queue'[i] < conn_remove_queue'[j]
      BY <2>4, <2>6
    <3> QED
      BY <2>1, <2>3, <3>1, <3>2, <3>3 DEF QueueInv
  <2> QED
    BY <1>6, <2>5, <2>6, ReadEffect
<1>7. CASE EndIteration
  <2>1. TypeInv'
    BY <1>7, EndEffect DEF TypeInv, ListType
  <2>2. conn_remove_queue' \in Seq(1 .. n_conn')
    BY <1>7, EndEffect
  <2> QED
    BY <1>7, <2>1, <2>2, EndEffect DEF QueueInv
<1> QED
  BY <1>1, <1>2, <1>3, <1>4, <1>5, <1>6, <1>7 DEF Next, ServerStep

\* The list and the queue at the start.
LEMMA ListInit == Init => TypeInv /\ QueueInv
<1> SUFFICES ASSUME Init PROVE TypeInv /\ QueueInv
  OBVIOUS
<1>1. NoItem \in Item
  BY DEF NoItem, Item
<1>2. TypeInv
  BY <1>1, OtpApiAssumption DEF Init, TypeInv
<1>3. << >> \in Seq(1 .. n_conn)
  OBVIOUS
<1> QED
  BY <1>2, <1>3 DEF Init, QueueInv

\* A connection is never dropped by mistake: whatever was queued for removal in one
\* iteration, and although a removal moves other connections while indexes queued before
\* still wait (otp_api.c:117-135), a connection that was not queued stays in the list of
\* poll items with its buffer.
THEOREM NoConnectionDropped == Spec => OnlyQueuedRemoved
<1>1. TypeInv /\ QueueInv /\ [Next]_vars => [RemovalStep]_vars
  <2> SUFFICES ASSUME TypeInv, QueueInv, [Next]_vars, pc = "conns", pc' = "poll",
                      NEW i \in 1 .. n_conn,
                      \A j \in DOMAIN conn_remove_queue : conn_remove_queue[j] # i
               PROVE  \E m \in 1 .. n_conn' : conn_items'[m].fd = conn_items[i].fd /\ buffers'[m] = buffers[i]
    BY DEF RemovalStep
  <2>1. EndIteration
    <3>1. ~Quiet
      BY DEF Quiet
    <3>2. ~(\E k \in Conn \cup {NoConn} : ReadPart(k) \/ ReadClosed(k) \/ ReadRequest(k) \/ ReadBad(k))
      BY ReadEffect
    <3> QED
      BY <3>1, <3>2, OthersQuiet DEF Next, ServerStep, Poll, HandleReply, Accept, NoInput
  <2>2. ~Queued(i)
    BY DEF Queued
  <2> QED
    BY <2>1, <2>2, EndEffect, RemovalKeeps
<1>2. TypeInv /\ QueueInv /\ [Next]_vars => TypeInv' /\ QueueInv'
  BY ListStep
<1> QED
  BY <1>1, <1>2, ListInit, PTL DEF Spec, OnlyQueuedRemoved

--------------------------------------------------------------------------------
(***************************************************************************)
(* Descriptors.                                                            *)
(***************************************************************************)
\* Every descriptor in use fits into the byte in which a reply carries it.
ByteDescriptors == \A d \in Descriptor : d % 256 = d

\* Every step keeps account of the open descriptors.
LEMMA KeptStep ==
    ASSUME ByteDescriptors, TypeInv, QueueInv, KeptInv, [Next]_vars
    PROVE  KeptInv'
<1>1. CASE \/ \E k \in Conn : Connect(k) \/ HangUp(k) \/ \E in \in Sends(k) : Send(k, in)
           \/ UNCHANGED vars
  <2>1. UNCHANGED <<fds, conn_items, n_conn, conn_remove_queue, requests, replies, lost, refused>>
    BY <1>1 DEF Connect, HangUp, Send, items, broker, vars
  <2> QED
    BY <2>1 DEF KeptInv, Queued
<1>2. ASSUME NEW r \in requests, BrokerReply(r) \/ BrokerLoses(r) PROVE KeptInv'
  <2>1. UNCHANGED <<fds, conn_items, n_conn, conn_remove_queue, refused>>
    BY <1>2 DEF BrokerReply, BrokerLoses, items
  <2>2. \A x \in requests \cup replies : x \in requests' \cup replies' \/ x[2] \in lost'
    BY <1>2 DEF BrokerReply, BrokerLoses
  <2>3. lost \subseteq lost'
    BY <1>2 DEF BrokerReply, BrokerLoses
  <2> QED
    BY <2>1, <2>2, <2>3 DEF KeptInv, Queued
<1>3. CASE Poll
  <2>1. /\ UNCHANGED <<fds, n_conn, conn_remove_queue, requests, replies, lost, refused>>
        /\ \A i \in 1 .. n_conn : conn_items'[i].fd = conn_items[i].fd
    <3>1. \A i \in 1 .. n_conn : i \in 1 .. MAX_CONN
      BY OtpApiAssumption DEF TypeInv
    <3> QED
      BY <1>3, <3>1, PollEffect
  <2> QED
    BY <2>1 DEF KeptInv, Queued
<1>4. ASSUME NEW r \in replies, HandleReply(r) PROVE KeptInv'
  <2>1. /\ UNCHANGED <<conn_items, n_conn, conn_remove_queue, requests, lost, refused>>
        /\ replies' = replies \ {r}
        /\ fds' = [d \in Descriptor |-> IF d = r[1] THEN NoConn ELSE fds[d]]
    <3>1. ReplyDescriptor(r) = r[1]
      BY DEF ReplyDescriptor, ByteDescriptors, TypeInv
    <3> QED
      BY <1>4, <3>1 DEF HandleReply, items
  <2>2. \A d \in Descriptor : fds'[d] # NoConn => d # r[1] /\ fds'[d] = fds[d] /\ <<d, fds[d]>> # r
    BY <2>1
  <2> QED
    BY <2>1, <2>2 DEF KeptInv, Queued
<1>5. ASSUME NEW k \in backlog, Accept(k) PROVE KeptInv'
  <2>1. UNCHANGED <<conn_remove_queue, requests, replies, lost, refused>> /\ conn_remove_queue = << >>
    BY <1>5, AcceptEffect DEF QueueInv
  <2>2. CASE UNCHANGED <<fds, conn_items, n_conn>>
    BY <2>1, <2>2 DEF KeptInv, Queued
  <2>3. CASE n_conn' = n_conn + 1
    <3>1. /\ \A i \in 1 .. n_conn : i \in 1 .. n_conn' /\ i \in 1 .. MAX_CONN /\ i # n_conn + 1
          /\ n_conn + 1 \in 1 .. n_conn'
      BY <2>3, OtpApiAssumption DEF TypeInv
    <3>2. /\ \A i \in 1 .. MAX_CONN : i # n_conn + 1 => conn_items'[i] = conn_items[i]
          /\ \E d \in Descriptor : /\ fds[d] = NoConn /\ fds' = [fds EXCEPT ![d] = k]
                                   /\ conn_items'[n_conn + 1].fd = d
      <4>1. n_conn' # n_conn
        BY <2>3, OtpApiAssumption DEF TypeInv
      <4> QED
        BY <1>5, <4>1, AcceptEffect
    <3>3. PICK d \in Descriptor : fds' = [fds EXCEPT ![d] = k] /\ conn_items'[n_conn + 1].fd = d
      BY <3>2
    <3>4. \A i : ~Queued(i)' /\ ~Queued(i)
      BY <2>1 DEF Queued
    <3>5. ASSUME NEW e \in Descriptor, fds'[e] # NoConn
          PROVE  \/ \E i \in 1 .. n_conn' : conn_items'[i].fd = e /\ ~Queued(i)'
                 \/ <<e, fds'[e]>> \in requests' \cup replies'
                 \/ fds'[e] \in lost' \cup refused'
      <4>1. CASE e = d
        BY <3>1, <3>3, <3>4, <4>1
      <4>2. CASE e # d
        <5>1. fds'[e] = fds[e]
          BY <3>3, <4>2 DEF TypeInv
        <5> QED
          BY <2>1, <3>1, <3>2, <3>4, <3>5, <5>1 DEF KeptInv
      <4> QED
        BY <4>1, <4>2
    <3> QED
      BY <3>5 DEF KeptInv
  <2> QED
    BY <1>5, <2>2, <2>3, AcceptEffect
<1>6. CASE NoInput
  <2>1. UNCHANGED <<fds, conn_items, n_conn, conn_remove_queue, requests, replies, lost, refused>>
    BY <1>6 DEF NoInput, items, broker
  <2> QED
    BY <2>1 DEF KeptInv, Queued
<1>7. ASSUME NEW k \in Conn \cup {NoConn}, ReadPart(k) \/ ReadClosed(k) \/ ReadRequest(k) \/ ReadBad(k)
      PROVE  KeptInv'
  <2> DEFINE fd == conn_items[c].fd
  <2>1. UNCHANGED <<conn_items, n_conn, replies, lost>> /\ c \in 1 .. n_conn
    BY <1>7, ReadEffect
  <2>2. CASE fds' = fds /\ requests' = requests /\ refused' = refused /\ conn_remove_queue' = conn_remove_queue
    BY <2>1, <2>2 DEF KeptInv, Queued
  <2>3. CASE k # NoConn /\ conn_remove_queue' = Append(conn_remove_queue, c)
    <3>1. fd \in Descriptor /\ fds[fd] = k
      BY <1>7, <2>3, ReadEffect
    <3>2. \/ /\ fds' = [fds EXCEPT ![fd] = NoConn]
             /\ requests' = requests /\ refused' = refused
          \/ /\ fds' = fds /\ requests' = requests \cup {<<fd, k>>}
             /\ refused' = refused
          \/ fds' = fds /\ requests' = requests /\ refused' = refused \cup {k}
      <4>1. conn_remove_queue' # conn_remove_queue
        BY <2>3 DEF QueueInv
      <4> QED
        BY <1>7, <4>1, ReadEffect
    <3> HIDE DEF fd
    <3>3. ASSUME NEW i \in 1 .. n_conn, ~Queued(i), i # c PROVE ~Queued(i)'
      <4>1. ASSUME NEW j \in DOMAIN conn_remove_queue', conn_remove_queue'[j] # c
            PROVE  j \in DOMAIN conn_remove_queue /\ conn_remove_queue'[j] = conn_remove_queue[j]
        <5>1. PICK q \in Seq(1 .. n_conn) : q = conn_remove_queue
          BY DEF QueueInv
        <5>2. DOMAIN q = 1 .. Len(q) /\ Len(q) \in Nat
          BY <5>1
        <5>3. DOMAIN Append(q, c) = 1 .. Len(q) + 1 /\ Append(q, c)[Len(q) + 1] = c
          BY <2>1, <5>1
        <5>4. j \in 1 .. Len(q) + 1 /\ j # Len(q) + 1
          BY <2>3, <4>1, <5>1, <5>3
        <5>5. j \in 1 .. Len(q)
          BY <5>2, <5>4
        <5>6. Append(q, c)[j] = q[j]
          BY <2>1, <5>1, <5>5
        <5> QED
          BY <2>3, <5>1, <5>2, <5>5, <5>6
      <4> QED
        BY <3>3, <4>1 DEF Queued
    <3>4. ASSUME NEW e \in Descriptor, fds'[e] # NoConn
          PROVE  \/ \E i \in 1 .. n_conn' : conn_items'[i].fd = e /\ ~Queued(i)'
                 \/ <<e, fds'[e]>> \in requests' \cup replies'
                 \/ fds'[e] \in lost' \cup refused'
      <4>1. CASE e = fd
        BY <2>1, <3>1, <3>2, <3>4, <4>1 DEF TypeInv
      <4>2. CASE e # fd
        <5>1. fds'[e] = fds[e]
          BY <3>2, <4>2 DEF TypeInv
        <5>2. CASE \E i \in 1 .. n_conn : conn_items[i].fd = e /\ ~Queued(i)
          <6>1. PICK i \in 1 .. n_conn : conn_items[i].fd = e /\ ~Queued(i)
            BY <5>2
          <6>2. i # c
            BY <4>2, <6>1 DEF fd
          <6>3. ~Queued(i)'
            BY <3>3, <6>1, <6>2
          <6> QED
            BY <2>1, <6>1, <6>3
        <5>3. CASE <<e, fds[e]>> \in requests \cup replies \/ fds[e] \in lost \cup refused
          BY <2>1, <3>2, <5>1, <5>3
        <5> QED
          BY <3>4, <5>1, <5>2, <5>3 DEF KeptInv
      <4> QED
        BY <4>1, <4>2
    <3> QED
      BY <3>4 DEF KeptInv
  <2> QED
    BY <1>7, <2>2, <2>3, ReadEffect
<1>8. CASE EndIteration
  <2>1. /\ UNCHANGED <<fds, requests, replies, lost, refused>> /\ conn_remove_queue' = << >>
        /\ conn_items' = remove_conn_enqueued.items /\ n_conn' = remove_conn_enqueued.n
    BY <1>8, EndEffect
  <2>2. \A i : ~Queued(i)'
    BY <2>1 DEF Queued
  <2>3. ASSUME NEW i \in 1 .. n_conn, ~Queued(i)
        PROVE  \E m \in 1 .. n_conn' : conn_items'[m].fd = conn_items[i].fd /\ ~Queued(m)'
    BY <2>1, <2>2, <2>3, RemovalKeeps
  <2> QED
    BY <2>1, <2>3 DEF KeptInv
<1> QED
  BY <1>1, <1>2, <1>3, <1>4, <1>5, <1>6, <1>7, <1>8 DEF Next, ServerStep

\* Descriptors leak only with requests that a worker took with it and with 404 answers: as
\* long as descriptors fit into the byte that a reply is addressed with (otp_api.c:339),
\* every other open descriptor is polled or waits for a reply that will close it, also in
\* bursts that leave connections in the list after their request was sent.
THEOREM NoOtherLeak == ASSUME ByteDescriptors PROVE Spec => []DescriptorsAccounted
<1>1. Init => KeptInv
  BY DEF Init, KeptInv
<1>2. TypeInv /\ QueueInv /\ KeptInv /\ [Next]_vars => TypeInv' /\ QueueInv' /\ KeptInv'
  BY ListStep, KeptStep
<1>3. QueueInv /\ KeptInv => DescriptorsAccounted
  <2> SUFFICES ASSUME QueueInv, KeptInv, pc = "poll", NEW d \in Descriptor, fds[d] # NoConn
               PROVE  d \in Polled \cup Awaiting \/ fds[d] \in lost \cup refused
    BY DEF DescriptorsAccounted
  <2>1. (\E i \in 1 .. n_conn : conn_items[i].fd = d) => d \in Polled
    BY DEF Polled
  <2>2. <<d, fds[d]>> \in requests \cup replies => d \in Awaiting
    <3>1. <<d, fds[d]>>[1] = d
      OBVIOUS
    <3> QED
      BY <3>1 DEF Awaiting
  <2> QED
    BY <2>1, <2>2 DEF KeptInv
<1> QED
  BY <1>1, <1>2, <1>3, ListInit, PTL DEF Spec

--------------------------------------------------------------------------------
(***************************************************************************)
(* Until a removal misses its connection.                                  *)
(***************************************************************************)
\* Connections get a descriptor of their own, and keep it until it is closed.
LEMMA OwnStep == ASSUME TypeInv, OwnInv, [Next]_vars PROVE OwnInv'
<1>1. NoConn \notin Conn /\ NoConn \notin backlog /\ backlog \subseteq Conn
  BY OtpApiAssumption DEF TypeInv
<1>2. ASSUME NEW k \in Conn, Connect(k) PROVE OwnInv'
  BY <1>2 DEF Connect, Connected, OwnInv
<1>3. CASE UNCHANGED <<backlog, fds>>
  BY <1>3 DEF OwnInv
<1>4. ASSUME NEW d \in Descriptor, UNCHANGED backlog,
             \A e \in Descriptor : fds'[e] = fds[e] \/ fds'[e] = NoConn
      PROVE  OwnInv'
  BY <1>1, <1>4 DEF OwnInv
<1>5. ASSUME NEW r \in replies, HandleReply(r) PROVE OwnInv'
  <2>1. UNCHANGED backlog /\ fds' = [e \in Descriptor |-> IF e = ReplyDescriptor(r) THEN NoConn ELSE fds[e]]
    BY <1>5 DEF HandleReply, clients
  <2>2. \A e \in Descriptor : fds'[e] = fds[e] \/ fds'[e] = NoConn
    BY <2>1
  <2> QED
    BY <1>1, <2>1, <2>2 DEF OwnInv
<1>6. ASSUME NEW k \in backlog, Accept(k) PROVE OwnInv'
  <2>1. CASE UNCHANGED fds /\ backlog' \subseteq backlog
    BY <2>1 DEF OwnInv
  <2>2. ASSUME NEW d \in Descriptor, fds' = [fds EXCEPT ![d] = k], backlog' = backlog \ {k}
        PROVE  OwnInv'
    <3>1. fds'[d] = k /\ \A e \in Descriptor : e # d => fds'[e] = fds[e] /\ fds[e] # k
      BY <2>2 DEF TypeInv, OwnInv
    <3> QED
      BY <2>2, <3>1 DEF OwnInv
  <2> QED
    BY <1>6, <2>1, <2>2, AcceptEffect
<1>7. ASSUME NEW k \in Conn \cup {NoConn}, ReadPart(k) \/ ReadClosed(k) \/ ReadRequest(k) \/ ReadBad(k)
      PROVE  OwnInv'
  <2>1. UNCHANGED backlog /\ (fds' = fds \/ fds' = [fds EXCEPT ![conn_items[c].fd] = NoConn])
    BY <1>7, ReadEffect
  <2>2. \A e \in Descriptor : fds'[e] = fds[e] \/ fds'[e] = NoConn
    BY <2>1 DEF TypeInv
  <2> QED
    BY <1>1, <2>1, <2>2 DEF OwnInv
<1>8. CASE (\E k \in Conn : HangUp(k) \/ \E in \in Sends(k) : Send(k, in)) \/ UNCHANGED vars
  BY <1>3, <1>8 DEF HangUp, Send, vars, clients
<1>9. CASE (\E r \in requests : BrokerReply(r) \/ BrokerLoses(r)) \/ Poll \/ NoInput \/ EndIteration
  BY <1>3, <1>9 DEF BrokerReply, BrokerLoses, Poll, NoInput, EndIteration, clients
<1> QED
  BY <1>2, <1>5, <1>6, <1>7, <1>8, <1>9 DEF Next, ServerStep

\* With one removal, every item that is left was in the list and not queued, and none is
\* left twice.
LEMMA RemovalOfOne ==
    ASSUME TypeInv, QueueInv, Len(conn_remove_queue) <= 1
    PROVE  \E p \in [1 .. remove_conn_enqueued.n -> 1 .. n_conn] :
              \A m \in 1 .. remove_conn_enqueued.n :
                 /\ ~Queued(p[m]) /\ remove_conn_enqueued.items[m] = conn_items[p[m]]
                 /\ \A l \in 1 .. remove_conn_enqueued.n : p[l] = p[m] => l = m
<1> DEFINE q == conn_remove_queue
           last == remove_conn_enqueued
<1>1. PICK f \in [0 .. Len(q) -> ListType] :
         /\ f[0] = List /\ f[Len(q)] = last
         /\ \A j \in 1 .. Len(q) : q[j] \in 1 .. n_conn /\ f[j] = remove_conn(f[j - 1], q[j])
  BY RemovalLoop
<1>2. Len(q) \in Nat /\ DOMAIN q = 1 .. Len(q) /\ n_conn \in Nat /\ MAX_CONN \in Nat /\ n_conn <= MAX_CONN
  BY OtpApiAssumption DEF QueueInv, TypeInv
<1>3. List \in ListType /\ List.items = conn_items /\ List.n = n_conn
  BY DEF List, ListType, TypeInv
<1>4. CASE Len(q) = 0
  <2>1. last = List
    BY <1>1, <1>4
  <2>2. \A i : ~Queued(i)
    BY <1>2, <1>4 DEF Queued
  <2> DEFINE p == [m \in 1 .. last.n |-> m]
  <2>3. p \in [1 .. last.n -> 1 .. n_conn]
    BY <1>3, <2>1
  <2> QED
    BY <1>3, <2>1, <2>2, <2>3
<1>5. CASE Len(q) = 1
  <2>1. PICK i \in 1 .. n_conn : i = q[1]
    BY <1>1, <1>5
  <2>2. last = remove_conn(List, i) /\ i \in 1 .. MAX_CONN /\ i <= n_conn /\ n_conn >= 1
    <3>1. last = remove_conn(List, i)
      BY <1>1, <1>5, <2>1
    <3> QED
      BY <1>2, <3>1
  <2>3. \A x \in 1 .. n_conn : x # i => ~Queued(x)
    BY <1>2, <1>5, <2>1 DEF Queued
  <2>4. /\ last.n = n_conn - 1
        /\ \A m \in 1 .. n_conn - 1 : last.items[m] = conn_items[IF m = i THEN n_conn ELSE m]
    BY <1>3, <2>2, RemoveOne
  <2> DEFINE p == [m \in 1 .. n_conn - 1 |-> IF m = i THEN n_conn ELSE m]
  <2>5. p \in [1 .. n_conn - 1 -> 1 .. n_conn]
    BY <1>2, <2>2
  <2>6. \A m \in 1 .. n_conn - 1 : p[m] # i /\ p[m] \in 1 .. n_conn
    BY <1>2, <2>2
  <2>7. \A m, l \in 1 .. n_conn - 1 : p[l] = p[m] => l = m
    BY <1>2, <2>2
  <2>8. \A m \in 1 .. n_conn - 1 : last.items[m] = conn_items[p[m]]
    BY <2>4
  <2> HIDE DEF p, last
  <2>9. \A m \in 1 .. n_conn - 1 : /\ ~Queued(p[m]) /\ last.items[m] = conn_items[p[m]]
                                   /\ \A l \in 1 .. n_conn - 1 : p[l] = p[m] => l = m
    BY <2>3, <2>6, <2>7, <2>8
  <2>10. p \in [1 .. last.n -> 1 .. n_conn]
    BY <2>4, <2>5
  <2>11. \A m \in 1 .. last.n : /\ ~Queued(p[m]) /\ last.items[m] = conn_items[p[m]]
                                /\ \A l \in 1 .. last.n : p[l] = p[m] => l = m
    BY <2>4, <2>9
  <2> QED
    BY <2>10, <2>11 DEF last
<1> QED
  BY <1>2, <1>4, <1>5

\* However many are removed, every item that is left was in the list, and none is left twice.
LEMMA RemovalRenumbers ==
    ASSUME TypeInv, QueueInv
    PROVE  \E p \in [1 .. remove_conn_enqueued.n -> 1 .. n_conn] :
              \A m \in 1 .. remove_conn_enqueued.n :
                 /\ remove_conn_enqueued.items[m] = conn_items[p[m]]
                 /\ \A l \in 1 .. remove_conn_enqueued.n : p[l] = p[m] => l = m
<1> DEFINE q == conn_remove_queue
           n == Len(q)
           Numbers(p, l) == /\ p \in [1 .. l.n -> 1 .. n_conn]
                            /\ \A m \in 1 .. l.n : l.items[m] = conn_items[p[m]]
                            /\ \A m, x \in 1 .. l.n : p[x] = p[m] => x = m
           Renumbered(l) == \E p : Numbers(p, l)
<1>1. PICK f \in [0 .. n -> ListType] :
         /\ f[0] = List /\ f[n] = remove_conn_enqueued
         /\ \A j \in 1 .. n : q[j] \in 1 .. n_conn /\ f[j] = remove_conn(f[j - 1], q[j])
  BY RemovalLoop
<1>2. n \in Nat /\ n_conn \in Nat /\ n_conn <= MAX_CONN /\ MAX_CONN \in Nat
  BY OtpApiAssumption DEF TypeInv, QueueInv
<1> DEFINE S == {j \in 0 .. n : Renumbered(f[j])}
<1>3. 0 \in S
  <2>1. List.items = conn_items /\ List.n = n_conn
    BY DEF List
  <2> DEFINE p == [m \in 1 .. n_conn |-> m]
  <2>2. p \in [1 .. n_conn -> 1 .. n_conn] /\ \A m \in 1 .. n_conn : p[m] = m
    OBVIOUS
  <2> HIDE DEF p
  <2>3. Numbers(p, List)
    BY <2>1, <2>2
  <2> HIDE DEF Numbers
  <2>4. Renumbered(f[0]) /\ 0 \in 0 .. n
    BY <1>1, <1>2, <2>3
  <2> HIDE DEF Renumbered
  <2> QED
    BY <2>4
<1>4. ASSUME NEW j \in 0 .. n, j < n, j \in S PROVE j + 1 \in S
  <2>1. PICK l \in ListType, i \in 1 .. n_conn : l = f[j] /\ i = q[j + 1] /\ f[j + 1] = remove_conn(l, i)
    <3>1. j + 1 \in 1 .. n /\ (j + 1) - 1 = j
      BY <1>2, <1>4
    <3>2. f[j] \in ListType /\ q[j + 1] \in 1 .. n_conn /\ f[j + 1] = remove_conn(f[j], q[j + 1])
      BY <1>1, <3>1
    <3> QED
      BY <3>2
  <2>2. i \in 1 .. MAX_CONN /\ l.n \in Nat /\ j + 1 \in 0 .. n
    BY <1>2, <1>4 DEF ListType
  <2>3. Renumbered(l)
    BY <1>4, <2>1
  <2>4. Renumbered(remove_conn(l, i))
    <3>1. CASE i > l.n
      BY <2>2, <2>3, <3>1, RemoveOne
    <3>2. CASE i <= l.n
      <4>1. PICK p : Numbers(p, l)
        BY <2>3
      <4> DEFINE from(m) == IF m = i THEN l.n ELSE m
                 k == remove_conn(l, i)
                 g == [m \in 1 .. l.n - 1 |-> p[from(m)]]
      <4>2. k.n = l.n - 1 /\ \A m \in 1 .. l.n - 1 : k.items[m] = l.items[from(m)]
        BY <2>2, <3>2, RemoveOne
      <4>3. ASSUME NEW m \in 1 .. l.n - 1
            PROVE  from(m) \in 1 .. l.n /\ \A x \in 1 .. l.n - 1 : from(x) = from(m) => x = m
        BY <2>2, <3>2
      <4> HIDE DEF from, k
      <4>4. g \in [1 .. l.n - 1 -> 1 .. n_conn] /\ \A m \in 1 .. l.n - 1 : g[m] = p[from(m)]
        BY <4>1, <4>3
      <4> HIDE DEF g
      <4>5. ASSUME NEW m \in 1 .. l.n - 1
            PROVE  k.items[m] = conn_items[g[m]]
        BY <4>1, <4>2, <4>3, <4>4
      <4>6. ASSUME NEW m \in 1 .. l.n - 1, NEW x \in 1 .. l.n - 1, g[x] = g[m] PROVE x = m
        <5>1. from(m) \in 1 .. l.n /\ from(x) \in 1 .. l.n /\ p[from(x)] = p[from(m)]
          BY <4>3, <4>4, <4>6
        <5> QED
          BY <4>1, <4>3, <5>1
      <4>7. Numbers(g, k)
        BY <4>2, <4>4, <4>5, <4>6
      <4> HIDE DEF Numbers
      <4> QED
        BY <4>7 DEF k
    <3> QED
      BY <2>2, <3>1, <3>2
  <2> HIDE DEF Renumbered
  <2>5. Renumbered(f[j + 1])
    BY <2>1, <2>4
  <2> QED
    BY <2>2, <2>5
<1>5. n \in S
  <2>1. \A j \in 0 .. n : j \in S
    <3> HIDE DEF S
    <3> QED
      BY <1>2, <1>3, <1>4, IndexInduction
  <2> QED
    BY <1>2, <2>1
<1>6. PICK p : Numbers(p, remove_conn_enqueued)
  BY <1>1, <1>5
<1> QED
  BY <1>6

\* Requests keep the descriptor of their connection, and the items of the list stay apart
\* from them, as long as no removal misses its connection.
LEMMA AskerStep ==
    ASSUME ByteDescriptors, TypeInv, QueueInv, OwnInv, ListInv, AskerInv, ~missed', [Next]_vars
    PROVE  ListInv' /\ AskerInv'
<1>1. /\ NoConn \notin Conn /\ n_conn \in Nat /\ MAX_CONN \in Nat /\ n_conn <= MAX_CONN
      /\ \A i \in 1 .. n_conn : i \in 1 .. MAX_CONN
  BY OtpApiAssumption DEF TypeInv
<1>2. CASE UNCHANGED <<fds, conn_items, n_conn, conn_remove_queue, requests, replies>>
  BY <1>2 DEF ListInv, AskerInv, Queued
<1>3. CASE (\E k \in Conn : Connect(k) \/ HangUp(k) \/ \E in \in Sends(k) : Send(k, in)) \/ NoInput \/ UNCHANGED vars
  BY <1>2, <1>3 DEF Connect, HangUp, Send, NoInput, vars, items, broker
<1>4. ASSUME NEW r \in requests, BrokerReply(r) \/ BrokerLoses(r) PROVE ListInv' /\ AskerInv'
  <2>1. UNCHANGED <<fds, conn_items, n_conn, conn_remove_queue>>
    BY <1>4 DEF BrokerReply, BrokerLoses, items
  <2>2. requests' = requests \ {r} /\ (replies' = replies \/ replies' = replies \cup {r})
    BY <1>4 DEF BrokerReply, BrokerLoses
  <2>3. requests' \cup replies' \subseteq requests \cup replies /\ requests' \cap replies' = {}
    BY <1>4, <2>2 DEF AskerInv
  <2> QED
    BY <2>1, <2>3 DEF ListInv, AskerInv, Queued
<1>5. CASE Poll
  <2>1. /\ UNCHANGED <<fds, n_conn, conn_remove_queue, requests, replies>>
        /\ \A i \in 1 .. n_conn : conn_items'[i].fd = conn_items[i].fd
    BY <1>1, <1>5, PollEffect
  <2>2. \A i : Queued(i)' = Queued(i)
    BY <2>1 DEF Queued
  <2> QED
    BY <2>1, <2>2 DEF ListInv, AskerInv
<1>6. ASSUME NEW r \in replies, HandleReply(r) PROVE ListInv' /\ AskerInv'
  <2>1. r \in Descriptor \X Conn /\ ReplyDescriptor(r) = r[1] /\ r[1] \in Descriptor
    BY DEF TypeInv, ByteDescriptors, ReplyDescriptor
  <2>2. /\ UNCHANGED <<conn_items, n_conn, conn_remove_queue, requests>> /\ replies' = replies \ {r}
        /\ \A d \in Descriptor : d # r[1] => fds'[d] = fds[d]
    BY <1>6, <2>1 DEF HandleReply, items
  <2>3. ASSUME NEW s \in requests' \cup replies' PROVE s[1] # r[1] /\ fds'[s[1]] = s[2]
    <3>1. s \in requests \cup replies /\ s # r
      BY <2>2 DEF AskerInv
    <3>2. s \in Descriptor \X Conn /\ fds[s[1]] = s[2] /\ fds[r[1]] = r[2]
      BY <3>1 DEF TypeInv, AskerInv
    <3>3. s[1] # r[1]
      BY <2>1, <3>1, <3>2
    <3> QED
      BY <2>2, <3>2, <3>3
  <2>4. AskerInv'
    BY <2>2, <2>3 DEF AskerInv
  <2>5. \A i : Queued(i)' = Queued(i)
    BY <2>2 DEF Queued
  <2>6. ASSUME NEW i \in 1 .. n_conn, ~Queued(i)
        PROVE  /\ conn_items[i].fd \in Descriptor /\ fds'[conn_items[i].fd] # NoConn
               /\ \A s \in requests' \cup replies' : s[1] # conn_items[i].fd
    BY <2>2, <2>6 DEF ListInv
  <2>7. ListInv'
    BY <2>2, <2>5, <2>6 DEF ListInv
  <2> QED
    BY <2>4, <2>7
<1>7. ASSUME NEW k \in backlog, Accept(k) PROVE ListInv' /\ AskerInv'
  <2>1. CASE UNCHANGED <<fds, conn_items, n_conn>>
    BY <1>2, <1>7, <2>1, AcceptEffect
  <2>2. ASSUME NEW d \in Descriptor, fds[d] = NoConn, fds' = [fds EXCEPT ![d] = k],
               conn_items'[n_conn + 1].fd = d, n_conn' = n_conn + 1,
               \A i \in 1 .. MAX_CONN : i # n_conn + 1 => conn_items'[i] = conn_items[i]
        PROVE  ListInv' /\ AskerInv'
    <3>1. UNCHANGED <<requests, replies, conn_remove_queue>> /\ conn_remove_queue = << >> /\ k \in Conn
      BY <1>7, AcceptEffect DEF QueueInv, TypeInv
    <3>2. fds'[d] = k /\ \A e \in Descriptor : e # d => fds'[e] = fds[e]
      BY <2>2 DEF TypeInv
    <3>3. ASSUME NEW r \in requests \cup replies PROVE r[1] # d /\ fds'[r[1]] = r[2]
      <4>1. r \in Descriptor \X Conn /\ fds[r[1]] = r[2]
        BY DEF TypeInv, AskerInv
      <4> QED
        BY <1>1, <2>2, <3>2, <4>1
    <3>4. AskerInv'
      BY <3>1, <3>3 DEF AskerInv
    <3>5. (\A i : ~Queued(i)) /\ \A i : ~Queued(i)'
      BY <3>1 DEF Queued
    <3>6. ASSUME NEW i \in 1 .. n_conn
          PROVE  /\ conn_items'[i].fd = conn_items[i].fd
                 /\ conn_items[i].fd \in Descriptor /\ conn_items[i].fd # d /\ fds'[conn_items[i].fd] # NoConn
                 /\ \A r \in requests \cup replies : r[1] # conn_items[i].fd
      <4>1. i \in 1 .. MAX_CONN /\ i # n_conn + 1
        BY <1>1
      <4> QED
        BY <2>2, <3>2, <3>5, <4>1 DEF ListInv
    <3>7. \A i \in 1 .. n_conn' : i \in 1 .. n_conn \/ i = n_conn + 1
      BY <1>1, <2>2
    <3>8. ASSUME NEW i \in 1 .. n_conn', ~Queued(i)'
          PROVE  /\ conn_items'[i].fd \in Descriptor /\ fds'[conn_items'[i].fd] # NoConn
                 /\ \A r \in requests' \cup replies' : r[1] # conn_items'[i].fd
      BY <1>1, <2>2, <3>1, <3>2, <3>3, <3>6, <3>7
    <3>9. ASSUME NEW i \in 1 .. n_conn', NEW j \in 1 .. n_conn', conn_items'[i].fd = conn_items'[j].fd
          PROVE  i = j
      BY <2>2, <3>6, <3>7, <3>9 DEF ListInv
    <3> QED
      BY <3>4, <3>8, <3>9 DEF ListInv
  <2> QED
    BY <1>7, <2>1, <2>2, AcceptEffect
<1>8. ASSUME NEW k \in Conn \cup {NoConn}, ReadPart(k) \/ ReadClosed(k) \/ ReadRequest(k) \/ ReadBad(k)
      PROVE  ListInv' /\ AskerInv'
  <2> DEFINE fd == conn_items[c].fd
  <2>1. UNCHANGED <<conn_items, n_conn, replies>> /\ c \in 1 .. n_conn
    BY <1>8, ReadEffect
  <2>2. CASE fds' = fds /\ requests' = requests /\ conn_remove_queue' = conn_remove_queue
    BY <1>2, <2>1, <2>2
  <2>3. CASE k # NoConn /\ conn_remove_queue' = Append(conn_remove_queue, c)
    <3>1. fd \in Descriptor /\ fds[fd] = k /\ k \in Conn
      BY <1>8, <2>3, ReadEffect
    <3>2. \/ fds' = [fds EXCEPT ![fd] = NoConn] /\ requests' = requests
          \/ fds' = fds /\ requests' = requests \cup {<<fd, k>>}
          \/ fds' = fds /\ requests' = requests
      <4>1. conn_remove_queue' # conn_remove_queue
        BY <2>3 DEF QueueInv
      <4> QED
        BY <1>8, <4>1, ReadEffect
    <3>3. ~Queued(c)
      BY DEF Queued, QueueInv, TypeInv
    <3>4. \A r \in requests \cup replies : r[1] # fd
      BY <2>1, <3>3 DEF ListInv
    <3> HIDE DEF fd
    <3>5. \A d \in Descriptor : d # fd => fds'[d] = fds[d]
      BY <3>1, <3>2 DEF TypeInv
    <3>6. ASSUME NEW r \in requests' \cup replies' PROVE fds'[r[1]] = r[2] /\ (r[1] = fd \/ r \in requests \cup replies)
      <4>1. CASE r \in requests \cup replies
        <5>1. r \in Descriptor \X Conn /\ fds[r[1]] = r[2] /\ r[1] # fd
          BY <3>4, <4>1 DEF TypeInv, AskerInv
        <5> QED
          BY <3>5, <4>1, <5>1
      <4>2. CASE r \notin requests \cup replies
        <5>1. fds' = fds /\ r = <<fd, k>>
          BY <2>1, <3>2, <4>2
        <5>2. r[1] = fd /\ r[2] = k
          BY <5>1
        <5> QED
          BY <3>1, <5>1, <5>2
      <4> QED
        BY <4>1, <4>2
    <3>7. requests' \cap replies' = {}
      <4>1. <<fd, k>> \notin replies
        <5>1. <<fd, k>>[1] = fd
          OBVIOUS
        <5> QED
          BY <3>4, <5>1
      <4> QED
        BY <2>1, <3>2, <4>1 DEF AskerInv
    <3>8. AskerInv'
      BY <3>6, <3>7 DEF AskerInv
    <3>9. ASSUME NEW i \in 1 .. n_conn, ~Queued(i)' PROVE i # c /\ ~Queued(i)
      <4>1. PICK q \in Seq(1 .. n_conn) : q = conn_remove_queue
        BY DEF QueueInv
      <4>2. Len(q) \in Nat /\ DOMAIN q = 1 .. Len(q) /\ DOMAIN Append(q, c) = 1 .. Len(q) + 1
        BY <2>1, <4>1
      <4>3. Append(q, c)[Len(q) + 1] = c /\ \A j \in 1 .. Len(q) : Append(q, c)[j] = q[j]
        BY <2>1, <4>1
      <4>4. Len(q) + 1 \in 1 .. Len(q) + 1 /\ \A j \in 1 .. Len(q) : j \in 1 .. Len(q) + 1
        BY <4>2
      <4>5. Queued(i) => Queued(i)'
        BY <2>3, <4>1, <4>2, <4>3, <4>4 DEF Queued
      <4>6. i = c => Queued(i)'
        BY <2>1, <2>3, <4>1, <4>2, <4>3, <4>4 DEF Queued
      <4> QED
        BY <3>9, <4>5, <4>6
    <3>10. ASSUME NEW i \in 1 .. n_conn, ~Queued(i)'
           PROVE  /\ conn_items[i].fd \in Descriptor /\ fds'[conn_items[i].fd] # NoConn
                  /\ \A r \in requests' \cup replies' : r[1] # conn_items[i].fd
      <4>1. /\ conn_items[i].fd \in Descriptor /\ fds[conn_items[i].fd] # NoConn
            /\ \A r \in requests \cup replies : r[1] # conn_items[i].fd
        BY <3>9, <3>10 DEF ListInv
      <4>2. conn_items[i].fd # fd
        BY <2>1, <3>9, <3>10 DEF ListInv, fd
      <4> QED
        BY <3>5, <3>6, <4>1, <4>2
    <3>11. ListInv'
      BY <2>1, <3>10 DEF ListInv
    <3> QED
      BY <3>8, <3>11
  <2> QED
    BY <1>8, <2>2, <2>3, ReadEffect
<1>9. CASE EndIteration
  <2>1. /\ UNCHANGED <<fds, requests, replies>> /\ conn_remove_queue' = << >>
        /\ conn_items' = remove_conn_enqueued.items /\ n_conn' = remove_conn_enqueued.n
    BY <1>9, EndEffect
  <2>2. PICK p \in [1 .. n_conn' -> 1 .. n_conn] :
           \A m \in 1 .. n_conn' : /\ ~Queued(p[m]) /\ conn_items'[m] = conn_items[p[m]]
                                   /\ \A l \in 1 .. n_conn' : p[l] = p[m] => l = m
    <3>1. PICK p \in [1 .. n_conn' -> 1 .. n_conn] :
             \A m \in 1 .. n_conn' : /\ conn_items'[m] = conn_items[p[m]]
                                     /\ \A l \in 1 .. n_conn' : p[l] = p[m] => l = m
      BY <2>1, RemovalRenumbers
    <3>2. ~Misses(remove_conn_enqueued)
      BY <1>9 DEF EndIteration
    <3>3. ASSUME NEW m \in 1 .. n_conn' PROVE ~Queued(p[m])
      <4>1. conn_items'[m].fd = conn_items[p[m]].fd
        BY <3>1
      <4> QED
        BY <2>1, <3>2, <4>1 DEF Misses, Queued
    <3> QED
      BY <3>1, <3>3
  <2>3. ASSUME NEW m \in 1 .. n_conn'
        PROVE  /\ conn_items'[m].fd \in Descriptor /\ fds'[conn_items'[m].fd] # NoConn
               /\ \A r \in requests' \cup replies' : r[1] # conn_items'[m].fd
    <3>1. p[m] \in 1 .. n_conn /\ ~Queued(p[m]) /\ conn_items'[m] = conn_items[p[m]]
      BY <2>2
    <3> QED
      BY <2>1, <3>1 DEF ListInv
  <2>4. ASSUME NEW m \in 1 .. n_conn', NEW l \in 1 .. n_conn', conn_items'[m].fd = conn_items'[l].fd
        PROVE  m = l
    <3>1. p[m] \in 1 .. n_conn /\ p[l] \in 1 .. n_conn /\ conn_items'[m] = conn_items[p[m]] /\ conn_items'[l] = conn_items[p[l]]
      BY <2>2
    <3>2. p[m] = p[l]
      BY <2>4, <3>1 DEF ListInv
    <3> QED
      BY <2>2, <3>2
  <2> QED
    BY <2>1, <2>3, <2>4 DEF ListInv, AskerInv
<1> QED
  BY <1>3, <1>4, <1>5, <1>6, <1>7, <1>8, <1>9 DEF Next, ServerStep

\* What clients have sent and nobody has read.
LEMMA UnreadStep == ASSUME TypeInv, UnreadInv, [Next]_vars PROVE UnreadInv'
<1>1. CASE UNCHANGED unread
  BY <1>1 DEF UnreadInv
<1>2. ASSUME NEW k \in Conn, NEW in \in Sends(k), Send(k, in) PROVE UnreadInv'
  <2>1. unread' = [unread EXCEPT ![k] = Join(@, in)]
    BY <1>2 DEF Send
  <2>2. \A x \in Input : Join(x, in) \in Input
    BY OtpApiAssumption DEF Input, Join
  <2> QED
    BY <2>1, <2>2 DEF UnreadInv
<1>3. ASSUME NEW k \in Conn \cup {NoConn}, ReadPart(k) \/ ReadClosed(k) \/ ReadRequest(k) \/ ReadBad(k)
      PROVE  UnreadInv'
  BY <1>3 DEF ReadPart, ReadClosed, ReadRequest, ReadBad, Consume, UnreadInv, Input
<1>4. \/ UNCHANGED unread \/ (\E k \in Conn : \E in \in Sends(k) : Send(k, in))
      \/ \E k \in Conn \cup {NoConn} : ReadPart(k) \/ ReadClosed(k) \/ ReadRequest(k) \/ ReadBad(k)
  BY DEF Next, ServerStep, Connect, HangUp, BrokerReply, BrokerLoses, Poll, HandleReply, Accept, NoInput,
         EndIteration, clients, vars
<1> QED
  BY <1>1, <1>2, <1>3, <1>4

\* What is readable stays so until it is read.
LEMMA ReadableStays ==
    ASSUME TypeInv, UnreadInv,
           \/ \E k \in Conn : Connect(k) \/ HangUp(k) \/ \E in \in Sends(k) : Send(k, in)
           \/ \E r \in requests : BrokerReply(r) \/ BrokerLoses(r)
           \/ UNCHANGED vars \/ Poll \/ NoInput
           \/ (\E r \in replies : HandleReply(r)) \/ (\E k \in backlog : Accept(k)),
           NEW x \in Conn, Readable(x)
    PROVE  Readable(x)'
<1>1. CASE UNCHANGED <<unread, hungup>>
  BY <1>1 DEF Readable
<1>2. ASSUME NEW k \in Conn, NEW in \in Sends(k), Send(k, in) PROVE Readable(x)'
  <2>1. hungup' = hungup /\ unread' = [unread EXCEPT ![k] = Join(@, in)] /\ in # "none"
    BY <1>2, OtpApiAssumption DEF Send
  <2>2. unread[x] # "none" => unread'[x] # "none"
    BY <2>1 DEF UnreadInv, Join
  <2> QED
    BY <2>1, <2>2 DEF Readable
<1>3. ASSUME NEW k \in Conn, HangUp(k) PROVE Readable(x)'
  BY <1>3 DEF HangUp, Readable
<1> QED
  BY <1>1, <1>2, <1>3 DEF Connect, BrokerReply, BrokerLoses, vars, Poll, NoInput, HandleReply, Accept, clients

\* A poll counts one event for each socket it found readable.
LEMMA SocketsCounted ==
    ASSUME TypeInv, Poll
    PROVE  Cardinality(SocketEvents) = SocketsLeft' /\ SocketsLeft' \in Nat
<1>1. revents' = SocketEvents /\ pc' = AfterPoll(SocketEvents)
  BY DEF Poll
<1>2. \/ SocketEvents = {} \/ SocketEvents = {"broker"} \/ SocketEvents = {"http"}
      \/ SocketEvents = {"broker"} \cup {"http"}
  BY DEF SocketEvents
<1>3. /\ Cardinality({}) = 0 /\ Cardinality({"http"}) = 1 /\ Cardinality({"broker"}) = 1
      /\ Cardinality({"broker"} \cup {"http"}) = 2
  <2>1. Cardinality({}) = 0 /\ Cardinality({"http"}) = 1 /\ Cardinality({"broker"}) = 1 /\ IsFiniteSet({"broker"})
    BY FS_EmptySet, FS_Singleton
  <2>2. Cardinality({"broker"} \cup {"http"}) = 2
    BY <2>1, FS_AddElement
  <2> QED
    BY <2>1, <2>2
<1>4. CASE SocketEvents = {}
  BY <1>1, <1>3, <1>4 DEF AfterPoll, AfterBroker, SocketsLeft
<1>5. CASE SocketEvents = {"broker"}
  <2>1. revents' \cap {"http"} = {}
    BY <1>1, <1>5
  <2> QED
    BY <1>1, <1>3, <1>5, <2>1 DEF AfterPoll, AfterBroker, SocketsLeft
<1>6. CASE SocketEvents = {"http"}
  BY <1>1, <1>3, <1>6 DEF AfterPoll, AfterBroker, SocketsLeft
<1>7. CASE SocketEvents = {"broker"} \cup {"http"}
  <2>1. revents' \cap {"http"} = {"http"}
    BY <1>1, <1>7
  <2> QED
    BY <1>1, <1>3, <1>7, <2>1 DEF AfterPoll, AfterBroker, SocketsLeft
<1> QED
  BY <1>2, <1>4, <1>5, <1>6, <1>7

\* The events a poll may have counted for the sockets.
LEMMA SocketsNat == SocketsLeft \in Nat
<1>1. revents \cap {"http"} = {} \/ revents \cap {"http"} = {"http"}
  OBVIOUS
<1>2. Cardinality({}) = 0 /\ Cardinality({"http"}) = 1
  BY FS_EmptySet, FS_Singleton
<1>3. Cardinality(revents \cap {"http"}) \in Nat
  BY <1>1, <1>2
<1> QED
  BY <1>3 DEF SocketsLeft

\* The items to be read are finitely many, and among those of the list.
LEMMA ReadsFinite ==
    ASSUME TypeInv, NEW m \in 0 .. n_conn
    PROVE  /\ ToRead(m) \subseteq c .. n_conn /\ ToRead(m) \subseteq 1 .. n_conn
           /\ IsFiniteSet(ToRead(m)) /\ Cardinality(ToRead(m)) \in Nat
<1>1. n_conn \in Nat /\ c \in Nat /\ c >= 1 /\ m \in Nat /\ m <= n_conn
  BY OtpApiAssumption DEF TypeInv
<1>2. ToRead(m) \subseteq c .. n_conn /\ ToRead(m) \subseteq 1 .. n_conn
  BY <1>1 DEF ToRead
<1>3. IsFiniteSet(1 .. n_conn)
  BY <1>1, FS_Interval
<1>4. IsFiniteSet(ToRead(m))
  BY <1>2, <1>3, FS_Subset
<1> QED
  BY <1>2, <1>4, FS_CardinalityType

\* The loop over the connections counts what it reads, and its other steps leave the items
\* that are to be read as the poll found them.
LEMMA WaitingStep ==
    ASSUME ByteDescriptors, TypeInv, QueueInv, WholeInv, [Next]_vars
    PROVE  WaitingInv'
<1>1. /\ NoConn \notin Conn /\ n_conn \in Nat /\ MAX_CONN \in Nat /\ n_conn <= MAX_CONN
      /\ c \in Nat /\ c >= 1
      /\ (\A i \in 1 .. n_conn : i \in 1 .. MAX_CONN) /\ (\A i \in c .. n_conn : i \in 1 .. n_conn)
  BY OtpApiAssumption DEF TypeInv
<1>2. ASSUME NEW i \in c .. n_conn
      PROVE  /\ conn_items[i].fd \in Descriptor /\ ConnOf(conn_items[i].fd) \in Conn
             /\ ConnOf(conn_items[i].fd) = fds[conn_items[i].fd]
             /\ \A r \in requests \cup replies : r[1] # conn_items[i].fd
  <2>1. ~Queued(i)
    <3>1. ASSUME NEW j \in DOMAIN conn_remove_queue PROVE conn_remove_queue[j] # i
      <4>1. conn_remove_queue[j] < c /\ conn_remove_queue[j] \in 1 .. n_conn
        BY DEF QueueInv, TypeInv
      <4> QED
        BY <1>1, <4>1
    <3> QED
      BY <3>1 DEF Queued
  <2> QED
    BY <1>1, <2>1 DEF WholeInv, ListInv, TypeInv, ConnOf
\* The items to be read are not touched.
<1>3. ASSUME UNCHANGED c, pc # "poll", n_conn' \in Nat, n_conn' >= n_conn,
             n_waiting' - SocketsLeft' = n_waiting - SocketsLeft, n_waiting' \in Int, SocketsLeft' \in Nat,
             \A i \in 1 .. n_conn : conn_items'[i].revents = conn_items[i].revents,
             \A i \in c .. n_conn : Readable(ConnOf(conn_items[i].fd)) => Readable(ConnOf(conn_items[i].fd))'
      PROVE  WaitingInv'
  <2>1. PICK m \in 0 .. n_conn : /\ n_waiting = SocketsLeft + Cardinality(ToRead(m))
                                 /\ \A i \in ToRead(m) : Readable(ConnOf(conn_items[i].fd))
    BY <1>3 DEF WholeInv, WaitingInv
  <2>2. ToRead(m)' = ToRead(m)
    <3>1. \A i \in c .. m : i \in 1 .. n_conn
      BY <1>1
    <3> QED
      BY <1>3, <3>1 DEF ToRead
  <2>3. n_waiting' = SocketsLeft' + Cardinality(ToRead(m)')
    <3>1. SocketsLeft \in Nat /\ Cardinality(ToRead(m)) \in Nat
      BY SocketsNat, ReadsFinite
    <3> QED
      BY <1>3, <2>1, <2>2, <3>1
  <2>4. \A i \in ToRead(m)' : Readable(ConnOf(conn_items[i].fd))'
    BY <1>3, <2>1, <2>2, ReadsFinite
  <2>5. m \in 0 .. n_conn'
    BY <1>1, <1>3
  <2> QED
    BY <1>3, <2>3, <2>4, <2>5 DEF WaitingInv
<1>4. WaitingInv /\ UnreadInv /\ n_waiting \in Int /\ SocketsLeft \in Nat
  BY SocketsNat DEF WholeInv, WaitingInv
<1>5. CASE \/ \E k \in Conn : Connect(k) \/ HangUp(k) \/ \E in \in Sends(k) : Send(k, in)
           \/ \E r \in requests : BrokerReply(r) \/ BrokerLoses(r)
           \/ UNCHANGED vars
  <2>1. Quiet /\ UNCHANGED n_waiting
    BY <1>5, OthersQuiet
  <2>2. UNCHANGED <<fds, conn_items, n_conn, conn_remove_queue, pc, revents, c, n_waiting>> /\ SocketsLeft' = SocketsLeft
    BY <2>1 DEF Quiet, SocketsLeft
  <2>3. CASE pc = "poll"
    BY <1>4, <2>2, <2>3 DEF WaitingInv
  <2>4. CASE pc # "poll"
    <3>1. ASSUME NEW i \in c .. n_conn, Readable(ConnOf(conn_items[i].fd))
          PROVE  Readable(ConnOf(conn_items[i].fd))'
      <4>1. PICK x \in Conn : x = ConnOf(conn_items[i].fd)
        BY <1>2
      <4>2. ConnOf(conn_items[i].fd)' = x
        BY <2>2, <4>1 DEF ConnOf
      <4>3. Readable(x)'
        BY <1>4, <1>5, <3>1, <4>1, ReadableStays
      <4> QED
        BY <4>2, <4>3 DEF Readable
    <3> QED
      BY <1>1, <1>3, <1>4, <2>2, <2>4, <3>1
  <2> QED
    BY <2>3, <2>4
<1>6. CASE Poll
  <2> DEFINE ready == {i \in 1 .. n_conn : ItemEvents(i) # "none"}
  <2>1. /\ n_waiting' = Cardinality(SocketEvents) + Cardinality(ready)
        /\ UNCHANGED <<fds, unread, hungup, n_conn, c>> /\ c = 1
    BY <1>6 DEF Poll, clients, QueueInv
  <2>2. Cardinality(SocketEvents) = SocketsLeft' /\ SocketsLeft' \in Nat
    BY <1>6, SocketsCounted
  <2>3. \A i \in 1 .. n_conn : /\ conn_items'[i].fd = conn_items[i].fd
                               /\ conn_items'[i].revents = ItemEvents(i)
    BY <1>1, <1>6, PollEffect
  <2>4. \A i \in 1 .. n_conn : ItemEvents(i) = IF Readable(ConnOf(conn_items[i].fd)) THEN "in" ELSE "none"
    BY <1>1, <1>2, <2>1 DEF ItemEvents
  <2>5. ToRead(n_conn)' = ready
    BY <2>1, <2>3, <2>4 DEF ToRead
  <2>6. ASSUME NEW i \in ready PROVE Readable(ConnOf(conn_items[i].fd))'
    <3>1. i \in 1 .. n_conn /\ Readable(ConnOf(conn_items[i].fd))
      BY <2>4
    <3>2. ConnOf(conn_items[i].fd)' = ConnOf(conn_items[i].fd)
      BY <2>1, <2>3, <3>1 DEF ConnOf
    <3> QED
      BY <2>1, <3>1, <3>2 DEF Readable
  <2>7. Cardinality(ready) \in Nat
    <3>1. IsFiniteSet(1 .. n_conn) /\ ready \subseteq 1 .. n_conn
      BY <1>1, FS_Interval
    <3> QED
      BY <3>1, FS_Subset, FS_CardinalityType
  <2> HIDE DEF ready
  <2>8. n_waiting' \in Int /\ n_waiting' = SocketsLeft' + Cardinality(ToRead(n_conn)')
    BY <2>1, <2>2, <2>5, <2>7
  <2>9. n_conn \in 0 .. n_conn'
    BY <1>1, <2>1
  <2>10. \A i \in ToRead(n_conn)' : Readable(ConnOf(conn_items[i].fd))'
    BY <2>5, <2>6
  <2> QED
    BY <2>1, <2>8, <2>9, <2>10 DEF WaitingInv
<1>7. ASSUME NEW r \in replies, HandleReply(r) PROVE WaitingInv'
  <2>1. ReplyDescriptor(r) = r[1] /\ r[1] \in Descriptor
    BY DEF TypeInv, ByteDescriptors, ReplyDescriptor
  <2>2. /\ UNCHANGED <<revents, conn_items, n_conn, conn_remove_queue, c>> /\ pc = "broker" /\ pc' = AfterBroker(revents)
        /\ n_waiting' = n_waiting - 1
        /\ fds' = [d \in Descriptor |-> IF d = r[1] THEN NoConn ELSE fds[d]]
    BY <1>7, <2>1 DEF HandleReply, items
  <2>3. SocketsLeft' = SocketsLeft - 1 /\ SocketsLeft' \in Nat
    <3>1. CASE "http" \in revents
      <4>1. revents \cap {"http"} = {"http"} /\ Cardinality({"http"}) = 1
        BY <3>1, FS_Singleton
      <4> QED
        BY <2>2, <3>1, <4>1 DEF SocketsLeft, AfterBroker
    <3>2. CASE "http" \notin revents
      <4>1. revents \cap {"http"} = {} /\ Cardinality({}) = 0
        BY <3>2, FS_EmptySet
      <4>2. SocketsLeft = 1
        BY <2>2, <4>1 DEF SocketsLeft
      <4>3. SocketsLeft' = 0
        BY <2>2, <3>2 DEF SocketsLeft, AfterBroker
      <4> QED
        BY <4>2, <4>3
    <3> QED
      BY <3>1, <3>2
  <2>4. ASSUME NEW i \in c .. n_conn, Readable(ConnOf(conn_items[i].fd))
        PROVE  Readable(ConnOf(conn_items[i].fd))'
    <3>1. PICK x \in Conn : x = ConnOf(conn_items[i].fd)
      BY <1>2
    <3>2. ConnOf(conn_items[i].fd)' = x
      <4>1. conn_items[i].fd \in Descriptor /\ conn_items[i].fd # r[1]
        BY <1>2
      <4> QED
        BY <2>2, <3>1, <4>1 DEF ConnOf
    <3>3. Readable(x)'
      BY <1>4, <1>7, <2>4, <3>1, ReadableStays
    <3> QED
      BY <3>2, <3>3 DEF Readable
  <2>5. n_waiting' - SocketsLeft' = n_waiting - SocketsLeft /\ n_waiting' \in Int /\ SocketsLeft' \in Nat
    BY <1>4, <2>2, <2>3
  <2> QED
    BY <1>1, <1>3, <2>2, <2>4, <2>5
<1>8. ASSUME NEW k \in backlog, Accept(k) PROVE WaitingInv'
  <2>1. /\ UNCHANGED <<conn_remove_queue, c>> /\ pc = "http" /\ pc' = "conns" /\ n_waiting' = n_waiting - 1
        /\ n_conn' \in Nat /\ n_conn' >= n_conn
        /\ \A i \in 1 .. n_conn : conn_items'[i] = conn_items[i]
        /\ \A d \in Descriptor : fds[d] # NoConn => fds'[d] = fds[d]
    <3>1. pc = "http"
      BY <1>8, AcceptEffect
    <3>2. CASE UNCHANGED <<fds, conn_items, n_conn>>
      BY <1>1, <1>8, <3>1, <3>2, AcceptEffect
    <3>3. ASSUME NEW d \in Descriptor, fds[d] = NoConn, fds' = [fds EXCEPT ![d] = k], n_conn' = n_conn + 1,
                 \A i \in 1 .. MAX_CONN : i # n_conn + 1 => conn_items'[i] = conn_items[i]
          PROVE  /\ n_conn' \in Nat /\ n_conn' >= n_conn
                 /\ \A i \in 1 .. n_conn : conn_items'[i] = conn_items[i]
                 /\ \A e \in Descriptor : fds[e] # NoConn => fds'[e] = fds[e]
      <4>1. \A i \in 1 .. n_conn : i \in 1 .. MAX_CONN /\ i # n_conn + 1
        BY <1>1
      <4> QED
        BY <1>1, <3>3, <4>1 DEF TypeInv
    <3> QED
      BY <1>8, <3>1, <3>2, <3>3, AcceptEffect
  <2>2. SocketsLeft = 1 /\ SocketsLeft' = 0
    BY <2>1 DEF SocketsLeft
  <2>3. ASSUME NEW i \in c .. n_conn, Readable(ConnOf(conn_items[i].fd))
        PROVE  Readable(ConnOf(conn_items[i].fd))'
    <3>1. PICK x \in Conn : x = ConnOf(conn_items[i].fd)
      BY <1>2
    <3>2. ConnOf(conn_items[i].fd)' = x
      BY <1>1, <1>2, <2>1, <3>1 DEF ConnOf
    <3>3. Readable(x)'
      BY <1>4, <1>8, <2>3, <3>1, ReadableStays
    <3> QED
      BY <3>2, <3>3 DEF Readable
  <2>4. n_waiting' - SocketsLeft' = n_waiting - SocketsLeft /\ n_waiting' \in Int /\ SocketsLeft' \in Nat
    BY <1>4, <2>1, <2>2
  <2> QED
    BY <1>1, <1>3, <2>1, <2>3, <2>4
<1>9. CASE NoInput
  <2>1. /\ pc = "conns" /\ conn_items[c].revents # "in" /\ c' = c + 1
        /\ UNCHANGED <<pc, revents, n_waiting, unread, hungup, fds, conn_items, n_conn, conn_remove_queue>>
    BY <1>9 DEF NoInput, InLoop, items, clients
  <2>2. PICK m \in 0 .. n_conn : /\ n_waiting = SocketsLeft + Cardinality(ToRead(m))
                                 /\ \A i \in ToRead(m) : Readable(ConnOf(conn_items[i].fd))
    BY <1>4, <2>1 DEF WaitingInv
  <2>3. SocketsLeft' = SocketsLeft
    BY <2>1 DEF SocketsLeft
  <2>4. ToRead(m)' = ToRead(m)
    <3>1. \A i : i \in c + 1 .. m <=> i \in c .. m /\ i # c
      BY <1>1
    <3> QED
      BY <2>1, <3>1 DEF ToRead
  <2>5. \A i \in ToRead(m) : Readable(ConnOf(conn_items[i].fd))'
    BY <2>1, <2>2 DEF Readable, ConnOf
  <2> QED
    BY <1>4, <2>1, <2>2, <2>3, <2>4, <2>5 DEF WaitingInv
<1>10. ASSUME NEW k \in Conn \cup {NoConn}, ReadPart(k) \/ ReadClosed(k) \/ ReadRequest(k) \/ ReadBad(k)
       PROVE  WaitingInv'
  <2>1. /\ InLoop /\ conn_items[c].revents = "in" /\ c \in 1 .. n_conn /\ n_waiting' = n_waiting - 1
        /\ k = ConnOf(conn_items[c].fd) /\ c' = c + 1
        /\ UNCHANGED <<pc, revents, hungup, conn_items, n_conn>>
        /\ fds' = fds \/ fds' = [fds EXCEPT ![conn_items[c].fd] = NoConn]
    BY <1>10, ReadEffect
  <2>2. SocketsLeft = 0 /\ SocketsLeft' = 0 /\ n_waiting > 0 /\ pc = "conns" /\ c \in c .. n_conn
    BY <1>1, <2>1 DEF SocketsLeft, InLoop
  <2>3. PICK m \in 0 .. n_conn : /\ n_waiting = SocketsLeft + Cardinality(ToRead(m))
                                 /\ \A i \in ToRead(m) : Readable(ConnOf(conn_items[i].fd))
    BY <1>4, <2>2 DEF WaitingInv
  <2>4. IsFiniteSet(ToRead(m)) /\ Cardinality(ToRead(m)) \in Nat /\ Cardinality(ToRead(m)) > 0
    BY <2>2, <2>3, ReadsFinite
  <2>5. c \in ToRead(m)
    <3>1. ToRead(m) # {}
      BY <2>4, FS_EmptySet
    <3>2. PICK i \in c .. m : TRUE
      BY <3>1 DEF ToRead
    <3>3. c \in c .. m
      BY <1>1, <3>2
    <3> QED
      BY <2>1, <3>3 DEF ToRead
  <2>6. ToRead(m)' = ToRead(m) \ {c}
    <3>1. \A i : i \in c + 1 .. m <=> i \in c .. m /\ i # c
      BY <1>1
    <3> QED
      BY <2>1, <3>1 DEF ToRead
  <2>7. Cardinality(ToRead(m)') = Cardinality(ToRead(m)) - 1
    BY <2>4, <2>5, <2>6, FS_RemoveElement
  <2>8. n_waiting' = SocketsLeft' + Cardinality(ToRead(m)') /\ n_waiting' \in Int
    BY <2>1, <2>2, <2>3, <2>4, <2>7
  <2>9. ASSUME NEW i \in ToRead(m)' PROVE Readable(ConnOf(conn_items[i].fd))'
    <3>1. i \in ToRead(m) /\ i # c /\ i \in c .. n_conn /\ i \in 1 .. n_conn
      BY <2>6, ReadsFinite
    <3>2. PICK d \in Descriptor, x \in Conn : d = conn_items[i].fd /\ x = fds[d] /\ x = ConnOf(d) /\ Readable(x)
      BY <1>2, <2>3, <3>1
    <3>3. d # conn_items[c].fd
      BY <2>1, <3>1, <3>2 DEF WholeInv, ListInv
    <3>4. conn_items[c].fd \in Descriptor /\ k = fds[conn_items[c].fd]
      BY <1>2, <2>1, <2>2
    <3>5. x # k
      BY <1>1, <3>2, <3>3, <3>4 DEF WholeInv, OwnInv
    <3>6. unread' = unread \/ unread' = [y \in Conn |-> IF y = k THEN "none" ELSE unread[y]]
      BY <1>10 DEF ReadPart, ReadClosed, ReadRequest, ReadBad, Consume
    <3>7. unread'[x] = unread[x] /\ hungup' = hungup
      BY <2>1, <3>5, <3>6
    <3>8. ConnOf(conn_items[i].fd)' = x
      BY <2>1, <3>2, <3>3, <3>4 DEF ConnOf, TypeInv
    <3> QED
      BY <3>2, <3>7, <3>8 DEF Readable
  <2> QED
    BY <2>1, <2>8, <2>9 DEF WaitingInv
<1>11. CASE EndIteration
  <2>1. pc' = "poll" /\ n_waiting' = 0
    BY <1>11 DEF EndIteration
  <2> QED
    BY <2>1 DEF WaitingInv
<1> QED
  BY <1>5, <1>6, <1>7, <1>8, <1>9, <1>10, <1>11 DEF Next, ServerStep

\* What is missed stays missed.
LEMMA MissedStays == ASSUME [Next]_vars, missed PROVE missed'
BY DEF Next, ServerStep, Connect, HangUp, Send, BrokerReply, BrokerLoses, Poll, HandleReply, Accept, NoInput,
       ReadPart, ReadClosed, ReadRequest, ReadBad, Reading, EndIteration, vars

\* Whatever its clients send at the same time, all is well until a removal misses its
\* connection.
LEMMA WholeInvariant ==
    ASSUME ByteDescriptors PROVE Spec => [](TypeInv /\ QueueInv /\ (missed \/ WholeInv))
<1>1. Init => WholeInv
  <2> SUFFICES ASSUME Init PROVE WholeInv
    OBVIOUS
  <2>1. OwnInv /\ ListInv /\ AskerInv
    BY DEF Init, OwnInv, ListInv, AskerInv
  <2>2. UnreadInv
    BY DEF Init, UnreadInv, Input
  <2>3. WaitingInv
    BY DEF Init, WaitingInv
  <2> QED
    BY <2>1, <2>2, <2>3 DEF WholeInv
<1>2. TypeInv /\ QueueInv /\ (missed \/ WholeInv) /\ [Next]_vars => TypeInv' /\ QueueInv' /\ (missed' \/ WholeInv')
  <2> SUFFICES ASSUME TypeInv, QueueInv, missed \/ WholeInv, [Next]_vars
               PROVE  TypeInv' /\ QueueInv' /\ (missed' \/ WholeInv')
    OBVIOUS
  <2>1. TypeInv' /\ QueueInv'
    BY ListStep
  <2>2. ASSUME ~missed' PROVE WholeInv'
    <3>1. WholeInv
      BY <2>2, MissedStays
    <3>2. OwnInv /\ ListInv /\ AskerInv /\ UnreadInv
      BY <3>1 DEF WholeInv
    <3>3. OwnInv' /\ ListInv' /\ AskerInv'
      BY <2>2, <3>2, OwnStep, AskerStep
    <3>4. UnreadInv' /\ WaitingInv'
      BY <3>1, <3>2, UnreadStep, WaitingStep
    <3> QED
      BY <3>3, <3>4 DEF WholeInv
  <2> QED
    BY <2>1, <2>2
<1> QED
  BY <1>1, <1>2, ListInit, PTL DEF Spec

\* However many clients send at the same time, the server calls recv only where there is
\* something to receive, until a removal misses its connection, although a new item keeps
\* the poll result its slot held before (otp_api.c:105-115): by then the loop has read as
\* many items as the poll counted, and ends before it gets there (otp_api.c:355).
THEOREM ServerNeverBlocks == ASSUME ByteDescriptors PROVE Spec => []NeverBlocks
<1>1. TypeInv /\ (missed \/ WholeInv) => NeverBlocks
  <2> SUFFICES ASSUME TypeInv, WholeInv, InLoop, conn_items[c].revents = "in"
               PROVE  Readable(ConnOf(conn_items[c].fd))
    BY DEF NeverBlocks
  <2>1. n_waiting > 0 /\ SocketsLeft = 0 /\ pc = "conns" /\ c \in Nat /\ n_conn \in Nat
    BY DEF InLoop, SocketsLeft, TypeInv
  <2>2. PICK m \in 0 .. n_conn : /\ n_waiting = SocketsLeft + Cardinality(ToRead(m))
                                 /\ \A i \in ToRead(m) : Readable(ConnOf(conn_items[i].fd))
    BY <2>1 DEF WholeInv, WaitingInv
  <2>3. Cardinality(ToRead(m)) > 0
    BY <2>1, <2>2, ReadsFinite
  <2>4. ToRead(m) # {}
    BY <2>3, FS_EmptySet
  <2>5. c \in c .. m
    BY <2>1, <2>4 DEF ToRead
  <2> QED
    BY <2>2, <2>5 DEF ToRead
<1> QED
  BY <1>1, WholeInvariant, PTL

\* However many clients send at the same time, every reply is written to the connection that
\* asked, although its descriptor travelled with the request and connections moved, closed
\* and were opened meanwhile (otp_api.c:337-347), until a removal misses its connection.
THEOREM RepliesReachAsker == ASSUME ByteDescriptors PROVE Spec => []ReplyToAsker
<1>1. Init => ReplyToAsker
  BY DEF Init, ReplyToAsker
<1>2. TypeInv /\ (missed \/ WholeInv) /\ ReplyToAsker /\ [Next]_vars => ReplyToAsker'
  <2> SUFFICES ASSUME TypeInv, missed \/ WholeInv, ReplyToAsker, [Next]_vars, ~missed' PROVE ReplyToAsker'
    BY DEF ReplyToAsker
  <2>0. ~missed /\ WholeInv
    BY MissedStays
  <2>1. CASE UNCHANGED delivered
    BY <2>0, <2>1 DEF ReplyToAsker
  <2>2. ASSUME NEW r \in replies, HandleReply(r) PROVE ReplyToAsker'
    <3>1. ReplyDescriptor(r) = r[1] /\ r[1] \in Descriptor
      BY DEF TypeInv, ByteDescriptors, ReplyDescriptor
    <3>2. delivered' = delivered \cup {<<r[2], fds[r[1]]>>}
      BY <2>2, <3>1 DEF HandleReply, ConnOf
    <3>3. fds[r[1]] = r[2]
      BY <2>0 DEF WholeInv, AskerInv
    <3> QED
      BY <2>0, <3>2, <3>3 DEF ReplyToAsker
  <2>3. CASE \E k \in Conn \cup {NoConn} : ReadPart(k) \/ ReadClosed(k) \/ ReadRequest(k) \/ ReadBad(k)
    BY <2>1, <2>3, ReadEffect
  <2> QED
    BY <2>1, <2>2, <2>3, OthersQuiet DEF Next, ServerStep, Poll, Accept, NoInput, EndIteration
<1> QED
  BY <1>1, <1>2, WholeInvariant, PTL DEF Spec

\* A removal misses its connection only in an iteration that queued two connections or
\* more: a single one is found in its place, the last of the list as well as any other
\* (otp_api.c:117-135).
THEOREM OneRemovalFinds == ASSUME ByteDescriptors PROVE Spec => MissedOnlyInBursts
<1>1. TypeInv /\ QueueInv /\ (missed \/ WholeInv) /\ [Next]_vars => [MissStep]_vars
  <2> SUFFICES ASSUME TypeInv, QueueInv, WholeInv, [Next]_vars, ~missed, missed', Len(conn_remove_queue) <= 1
               PROVE  FALSE
    <3>1. Len(conn_remove_queue) \in Nat
      BY DEF QueueInv
    <3>2. ~(Len(conn_remove_queue) > 1) => Len(conn_remove_queue) <= 1
      BY <3>1
    <3> QED
      BY <3>2 DEF MissStep
  <2>1. Misses(remove_conn_enqueued)
    BY DEF Next, ServerStep, Connect, HangUp, Send, BrokerReply, BrokerLoses, Poll, HandleReply, Accept, NoInput,
           ReadPart, ReadClosed, ReadRequest, ReadBad, Reading, EndIteration, vars
  <2>2. PICK j \in DOMAIN conn_remove_queue, m \in 1 .. remove_conn_enqueued.n :
           remove_conn_enqueued.items[m].fd = conn_items[conn_remove_queue[j]].fd
    BY <2>1 DEF Misses
  <2>3. PICK i \in 1 .. n_conn : ~Queued(i) /\ remove_conn_enqueued.items[m] = conn_items[i]
    <3>1. PICK p \in [1 .. remove_conn_enqueued.n -> 1 .. n_conn] :
             \A x \in 1 .. remove_conn_enqueued.n :
                ~Queued(p[x]) /\ remove_conn_enqueued.items[x] = conn_items[p[x]]
      BY RemovalOfOne
    <3>2. p[m] \in 1 .. n_conn
      BY <3>1
    <3> QED
      BY <3>1, <3>2
  <2>4. conn_remove_queue[j] \in 1 .. n_conn
    BY DEF QueueInv, TypeInv
  <2>5. conn_remove_queue[j] = i
    BY <2>2, <2>3, <2>4 DEF WholeInv, ListInv
  <2> QED
    BY <2>3, <2>5 DEF Queued
<1> QED
  BY <1>1, WholeInvariant, PTL DEF Spec, MissedOnlyInBursts

\* An iteration that removes connections, any number of them, removes no others, and finds
\* a single one wherever it stands (otp_api.c:117-135, 148-154).
THEOREM RemovalsFaithful == ASSUME ByteDescriptors PROVE Spec => RemovalsExact
<1>1. [RemovalStep]_vars /\ [MissStep]_vars => [RemovalStep /\ MissStep]_vars
  OBVIOUS
<1>2. Spec => [][RemovalStep]_vars
  BY NoConnectionDropped DEF OnlyQueuedRemoved
<1>3. Spec => [][MissStep]_vars
  BY OneRemovalFinds DEF MissedOnlyInBursts
<1> QED
  BY <1>1, <1>2, <1>3, PTL DEF RemovalsExact

================================================================================
