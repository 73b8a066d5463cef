------------------------------- MODULE MCGossip -------------------------------
(***************************************************************************)
(* Instances of Gossip for TLC.                                            *)
(***************************************************************************)
EXTENDS Gossip

\* A reachable state to start from: everybody has heard from the Subject at
\* time 1, and it has stopped for good.
Crashed ==
    /\ now = 1
    /\ up = FALSE /\ started = FALSE
    /\ crashes = MaxCrashes /\ restarts = MaxRestarts
    /\ entry = [n \in Node |-> IF n = Subject THEN Unknown ELSE Fresh]
    /\ peers = {}
    /\ loop = [n \in Node |-> Idle]
    /\ call = [n \in Node |-> [m \in Node |-> NoCall]]
    /\ sign = [n \in Node |-> FALSE]

CrashedSpec == Crashed /\ [][Next]_vars /\ Fairness
=============================================================================
