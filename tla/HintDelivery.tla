---------------------------- MODULE HintDelivery ----------------------------
(***************************************************************************)
(* What hinted handoff promises about one replica, with no slice, no       *)
(* copies and no indexes: the debt of each request that the replica may    *)
(* have missed.  It is owed once, the replica is asked for it until it     *)
(* answers, and only the answer to that call settles it; what is settled   *)
(* is not asked again.                                                     *)
(***************************************************************************)
CONSTANT Request

VARIABLES
    debt,   \* debt[i]: how far the delivery of request i has come
    seen    \* requests the replica has applied or refused

vars == <<debt, seen>>

Init == debt = [i \in Request |-> "none"] /\ seen = {}

Change(i, from, to) ==
    /\ debt[i] \in from
    /\ debt' = [debt EXCEPT ![i] = to]

\* The replica applies the request when it is made.
Serve(i) == debt[i] = "none" /\ seen' = seen \union {i} /\ UNCHANGED debt

\* The call to the replica failed: a hint is stored.
Owe(i) == Change(i, {"none"}, "owed") /\ UNCHANGED seen

\* A replay calls the replica, which answers, or the call fails.
Ask(i)    == Change(i, {"owed"}, "asked") /\ UNCHANGED seen
Answer(i) == Change(i, {"asked"}, "answered") /\ seen' = seen \union {i}
Fail(i)   == Change(i, {"asked", "answered"}, "owed") /\ UNCHANGED seen

\* The hint is removed.
Settle(i) == Change(i, {"answered"}, "settled") /\ UNCHANGED seen

Next ==
    \E i \in Request :
        Serve(i) \/ Owe(i) \/ Ask(i) \/ Answer(i) \/ Fail(i) \/ Settle(i)

Spec == Init /\ [][Next]_vars
=============================================================================
