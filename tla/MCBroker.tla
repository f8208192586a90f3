------------------------------- MODULE MCBroker --------------------------------
(***************************************************************************)
(* Two clients, one of which gives up on late replies, and two worker      *)
(* identities of which one may die.                                        *)
(***************************************************************************)
EXTENDS BrokerProperties
CONSTANTS c1, c2, w1, w2

Clients == {c1, c2}
OneImpatient == {c2}
Pair == {w1, w2}

================================================================================
