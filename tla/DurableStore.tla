---------------------------- MODULE DurableStore ----------------------------
(***************************************************************************)
(* What a node's storage engine promises, with no log and no files: a map  *)
(* that is volatile while it is up, and for each key the set of values the *)
(* key may have after a restart.  A write that took effect leaves exactly  *)
(* one such value; a write that was only attempted adds one.  Whether the  *)
(* caller of a write was given an error is not part of it: a call that     *)
(* fails may have taken effect.                                            *)
(***************************************************************************)
CONSTANTS Key, Value, NoValue

VARIABLES
    up,        \* the store answers calls
    value,     \* value[k]: what a read of k returns, NoValue if not found
    possible   \* possible[k]: the values k may have after a restart

vars == <<up, value, possible>>

Val   == Value \union {NoValue}
Empty == [k \in Key |-> NoValue]

Init ==
    /\ up = FALSE
    /\ value = Empty
    /\ possible = [k \in Key |-> {NoValue}]

\* A write of v to k (a delete writes NoValue) is under way: from here on a
\* restart may or may not find it.
Attempt(k, v) ==
    /\ up
    /\ possible' = [possible EXCEPT ![k] = @ \union {v}]
    /\ UNCHANGED <<up, value>>

\* The write takes effect: it is what reads return and all a restart may find.
Commit(k, v) ==
    /\ up
    /\ value' = [value EXCEPT ![k] = v]
    /\ possible' = [possible EXCEPT ![k] = {v}]
    /\ UNCHANGED up

\* The process ends, by Close or by a crash.
Stop ==
    /\ up
    /\ up' = FALSE
    /\ value' = Empty
    /\ UNCHANGED possible

\* A restart: each key comes back with one of its possible values.
Recover ==
    /\ ~up
    /\ up' = TRUE
    /\ value' \in [Key -> Val]
    /\ \A k \in Key : value'[k] \in possible[k]
    /\ UNCHANGED possible

Next ==
    \/ \E k \in Key, v \in Val : Attempt(k, v) \/ Commit(k, v)
    \/ Stop
    \/ Recover

Spec == Init /\ [][Next]_vars
=============================================================================
