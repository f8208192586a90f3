------------------------------- MODULE Service --------------------------------
(***************************************************************************)
(* What the pool of workers behind the broker promises its clients:        *)
(* a request gets at most one answer, and is lost only to the death of a   *)
(* worker, each of which costs at most one request.                        *)
(***************************************************************************)
CONSTANTS Request, Worker

VARIABLES status,   \* [Request -> Status]
          gone,     \* the workers that have died
          charged   \* the workers whose death has cost a request

vars == <<status, gone, charged>>

Status == {"unsent", "pending", "answered", "abandoned", "lost"}

Init ==
    /\ status = [r \in Request |-> "unsent"]
    /\ gone = {} /\ charged = {}

Send(r) ==
    /\ status[r] = "unsent"
    /\ status' = [status EXCEPT ![r] = "pending"]
    /\ UNCHANGED <<gone, charged>>

Answer(r) ==
    /\ status[r] = "pending"
    /\ status' = [status EXCEPT ![r] = "answered"]
    /\ UNCHANGED <<gone, charged>>

\* The client no longer waits.
Abandon(r) ==
    /\ status[r] = "pending"
    /\ status' = [status EXCEPT ![r] = "abandoned"]
    /\ UNCHANGED <<gone, charged>>

Die(w) ==
    /\ w \notin gone
    /\ gone' = gone \cup {w}
    /\ UNCHANGED <<status, charged>>

\* A request given to a worker that dies, or is dead, is lost.
Lose(r, w) ==
    /\ status[r] \in {"pending", "abandoned"}
    /\ w \notin charged
    /\ status' = [status EXCEPT ![r] = "lost"]
    /\ gone' = gone \cup {w}
    /\ charged' = charged \cup {w}

Next ==
    \/ \E r \in Request : Send(r) \/ Answer(r) \/ Abandon(r)
    \/ \E w \in Worker : Die(w)
    \/ \E r \in Request, w \in Worker : Lose(r, w)

Spec == Init /\ [][Next]_vars

================================================================================
