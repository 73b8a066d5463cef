---------------------------- MODULE RecordCopies ----------------------------
(***************************************************************************)
(* What the owners of a key hold, with no handlers, hints, reads or        *)
(* failing calls.  The primary accepts a request once.  Every other change *)
(* is of one copy: a replica is given something accepted before, or any    *)
(* owner is given what a read of something accepted returns.  No copy      *)
(* loses its record, as long as no owner restarts.                         *)
(***************************************************************************)
EXTENDS Naturals

CONSTANTS N, Value, Empty, Missing, Tombstone, Request

VARIABLES
    copy,      \* copy[o]: the record at owner o; 1 is the primary
    accepted,  \* what the primary took
    taken      \* the requests it took it from

vars == <<copy, accepted, taken>>

\* A deleted record reads as an empty one.
AsRead(c) == IF c = Tombstone THEN Empty ELSE c

Init ==
    /\ copy = [o \in 1..N |-> Missing]
    /\ accepted = {} /\ taken = {}

Accept(i, v) ==
    /\ i \notin taken
    /\ copy' = [copy EXCEPT ![1] = v]
    /\ accepted' = accepted \union {v}
    /\ taken' = taken \union {i}

\* A write reaches a replica, at once, late or in a replay.
Spread(o, v) ==
    /\ v \in accepted
    /\ copy' = [copy EXCEPT ![o] = v]
    /\ UNCHANGED <<accepted, taken>>

\* A read repairs an owner, the primary included.
Repair(o, v) ==
    /\ v \in accepted
    /\ copy' = [copy EXCEPT ![o] = AsRead(v)]
    /\ UNCHANGED <<accepted, taken>>

Next ==
    \E v \in Value \union {Tombstone} :
        \/ \E i \in Request : Accept(i, v)
        \/ \E o \in 2..N : Spread(o, v)
        \/ \E o \in 1..N : Repair(o, v)

Spec == Init /\ [][Next]_vars
=============================================================================
