------------------------------- MODULE Handoff -------------------------------
(***************************************************************************)
(* Hinted handoff: how the primary of a key deals with one replica         *)
(* (server/handlers/kv.go, cluster/handoff and the replay that             *)
(* cluster/gossip starts).  A put and a delete take the same path, so a    *)
(* request is known by its name only, and a hint is the request it is for. *)
(*                                                                         *)
(* Requests are served concurrently.  Hints wait in a slice that a replay  *)
(* goroutine copies and then walks by index, one RPC per hint, while other *)
(* goroutines may append to it and remove from it.                         *)
(***************************************************************************)
EXTENDS Naturals, Sequences, SequencesExt

CONSTANTS
    Request,  \* puts and deletes of keys the node is the primary of
    Replay    \* the replay goroutines that may run at once

VARIABLES
    status,   \* what the membership table says of the replica
    link,     \* RPCs to the replica get through
    stage,    \* stage[i]: how far request i has come
    hints,    \* the hints for the replica
    replay,   \* replay[r]: a goroutine of replayHintsForNode
    applied,  \* requests the replica has applied
    refused   \* requests the replica has answered a replay of with an error

vars == <<status, link, stage, hints, replay, applied, refused>>

Stage == {"new", "owned", "send", "refer", "call", "answer", "refused",
          "done", "hinted", "apart", "failed"}
NoReplay == [pc |-> "idle", snap |-> <<>>, todo |-> <<>>]

\* Mutated form of Removed: the last hint is never removed.
RemovedButLast(s, i) ==
    IF i \in 1..(Len(s) - 1) THEN RemoveAt(s, i) ELSE s

\* RemoveHint, which ignores an index beyond the slice.
Removed(s, i) ==
    IF i \in 1..Len(s) THEN RemoveAt(s, i) ELSE s

\* Mutated form of Order: the oldest hint first.
OldestFirst(n) == [k \in 1..n |-> k]

\* Mutated form of Order: indexes that count from 0 taken for ones that count
\* from 1.
OrderFromZero(n) == [k \in 1..n |-> n - k]

\* The indexes ReplayHints visits, from the end of its copy to the beginning.
Order(n) == [k \in 1..n |-> n + 1 - k]

----------------------------------------------------------------------------

Init ==
    /\ status = "Alive" /\ link = TRUE
    /\ stage = [i \in Request |-> "new"]
    /\ hints = <<>>
    /\ replay = [r \in Replay |-> NoReplay]
    /\ applied = {} /\ refused = {}

\* Owners puts the nodes that are alive on the ring and takes the owners from
\* it: a replica that is not alive is no owner, and another node, or none,
\* takes its place.
Route(i) ==
    /\ stage[i] = "new"
    /\ stage' = [stage EXCEPT ![i] = IF status = "Alive" THEN "owned" ELSE "apart"]
    /\ UNCHANGED <<status, link, hints, replay, applied, refused>>

\* Owners then looks the owners up in the table, where the replica may have
\* become suspect; the handler goes by what it saw here.
Look(i) ==
    /\ stage[i] = "owned"
    /\ stage' = [stage EXCEPT ![i] = IF status = "Alive" THEN "send" ELSE "refer"]
    /\ UNCHANGED <<status, link, hints, replay, applied, refused>>

\* The write to the primary's own storage fails: the replica is not told.
LocalFails(i) ==
    /\ stage[i] \in {"send", "refer"}
    /\ stage' = [stage EXCEPT ![i] = "failed"]
    /\ UNCHANGED <<status, link, hints, replay, applied, refused>>

Send(i) ==
    /\ stage[i] = "send"
    /\ stage' = [stage EXCEPT ![i] = "call"]
    /\ UNCHANGED <<status, link, hints, replay, applied, refused>>

\* ReplicaPut or ReplicaDelete at the replica.
Serve(i) ==
    /\ stage[i] = "call" /\ link
    /\ \/ /\ stage' = [stage EXCEPT ![i] = "answer"]
          /\ applied' = applied \union {i}
       \/ /\ stage' = [stage EXCEPT ![i] = "refused"]
          /\ UNCHANGED applied
    /\ UNCHANGED <<status, link, hints, replay, refused>>

Acknowledge(i) ==
    /\ stage[i] = "answer"
    /\ stage' = [stage EXCEPT ![i] = "done"]
    /\ UNCHANGED <<status, link, hints, replay, applied, refused>>

\* The call fails, before the replica has seen it or after; or the answer is
\* an error.
CallFails(i) ==
    /\ stage[i] = "refused" \/ (stage[i] \in {"call", "answer"} /\ ~link)
    /\ stage' = [stage EXCEPT ![i] = "refer"]
    /\ UNCHANGED <<status, link, hints, replay, applied, refused>>

StoreHint(i) ==
    /\ stage[i] = "refer"
    /\ stage' = [stage EXCEPT ![i] = "hinted"]
    /\ hints' = Append(hints, i)
    /\ UNCHANGED <<status, link, replay, applied, refused>>

----------------------------------------------------------------------------
(* Replays.                                                                *)

\* MergeMembership sees the replica become alive and starts a replay.
Recover(r) ==
    /\ status = "Suspect" /\ replay[r].pc = "idle"
    /\ status' = "Alive"
    /\ replay' = [replay EXCEPT ![r].pc = "begun"]
    /\ UNCHANGED <<link, stage, hints, applied, refused>>

\* PendingHints.
TakeHints(r) ==
    /\ replay[r].pc = "begun"
    /\ replay' = [replay EXCEPT ![r] = [pc |-> "next", snap |-> hints, todo |-> Order(Len(hints))]]
    /\ UNCHANGED <<status, link, stage, hints, applied, refused>>

CallReplica(r) ==
    /\ replay[r].pc = "next" /\ replay[r].todo # <<>>
    /\ replay' = [replay EXCEPT ![r].pc = "call"]
    /\ UNCHANGED <<status, link, stage, hints, applied, refused>>

\* The replica applies the hinted request or answers with an error; the
\* closures of replayHintsForNode look at neither and report success.
ServeReplay(r) ==
    LET i == replay[r].snap[Head(replay[r].todo)]
    IN  /\ replay[r].pc = "call" /\ link
        /\ replay' = [replay EXCEPT ![r].pc = "answer"]
        /\ \/ applied' = applied \union {i} /\ UNCHANGED refused
           \/ refused' = refused \union {i} /\ UNCHANGED applied
        /\ UNCHANGED <<status, link, stage, hints>>

\* The hint is removed, by the index it had in the copy.
RemoveHint(r) ==
    /\ replay[r].pc = "answer"
    /\ hints' = Removed(hints, Head(replay[r].todo))
    /\ replay' = [replay EXCEPT ![r].pc = "next", ![r].todo = Tail(@)]
    /\ UNCHANGED <<status, link, stage, applied, refused>>

\* Mutated form of ReplayFails: the hint is removed all the same.
ReplayFailsRemoving(r) ==
    /\ replay[r].pc \in {"call", "answer"} /\ ~link
    /\ hints' = Removed(hints, Head(replay[r].todo))
    /\ replay' = [replay EXCEPT ![r].pc = "next", ![r].todo = Tail(@)]
    /\ UNCHANGED <<status, link, stage, applied, refused>>

\* The call fails and the hint is left where it is.
ReplayFails(r) ==
    /\ replay[r].pc \in {"call", "answer"} /\ ~link
    /\ replay' = [replay EXCEPT ![r].pc = "next", ![r].todo = Tail(@)]
    /\ UNCHANGED <<status, link, stage, hints, applied, refused>>

EndReplay(r) ==
    /\ replay[r].pc = "next" /\ replay[r].todo = <<>>
    /\ replay' = [replay EXCEPT ![r] = NoReplay]
    /\ UNCHANGED <<status, link, stage, hints, applied, refused>>

----------------------------------------------------------------------------
(* The network, and what the membership table says of the replica.         *)

LinkChanges ==
    /\ link' = ~link
    /\ UNCHANGED <<status, stage, hints, replay, applied, refused>>

MarkSuspect ==
    /\ status = "Alive"
    /\ status' = "Suspect"
    /\ UNCHANGED <<link, stage, hints, replay, applied, refused>>

\* A heartbeat makes the replica alive again, and no replay is started.
UpdateHeartbeat ==
    /\ status = "Suspect"
    /\ status' = "Alive"
    /\ UNCHANGED <<link, stage, hints, replay, applied, refused>>

Handle(i) ==
    \/ Route(i) \/ Look(i) \/ LocalFails(i) \/ Send(i) \/ Serve(i)
    \/ Acknowledge(i) \/ CallFails(i) \/ StoreHint(i)

ReplayHints(r) ==
    \/ TakeHints(r) \/ CallReplica(r) \/ ServeReplay(r)
    \/ RemoveHint(r) \/ ReplayFails(r) \/ EndReplay(r)

Next ==
    \/ LinkChanges \/ MarkSuspect \/ UpdateHeartbeat
    \/ \E i \in Request : Handle(i)
    \/ \E r \in Replay : Recover(r) \/ ReplayHints(r)

\* Handlers and replay goroutines keep running.
Fairness ==
    /\ \A i \in Request : WF_vars(Handle(i))
    /\ \A r \in Replay : WF_vars(ReplayHints(r))

Spec     == Init /\ [][Next]_vars
FairSpec == Spec /\ Fairness

----------------------------------------------------------------------------
(* Properties.                                                             *)

\* Requests, hints and replays keep their types; a replay has a hint to work
\* on while it calls.
TypeOK ==
    /\ status \in {"Alive", "Suspect"} /\ link \in BOOLEAN
    /\ stage \in [Request -> Stage]
    /\ hints \in Seq(Request)
    /\ replay \in [Replay -> [pc : {"idle", "begun", "next", "call", "answer"},
                              snap : Seq(Request), todo : Seq(Nat \ {0})]]
    /\ \A r \in Replay : replay[r].pc \in {"call", "answer"} => replay[r].todo # <<>>
    /\ applied \in SUBSET Request /\ refused \in SUBSET Request

Pending(i) == \E k \in 1..Len(hints) : hints[k] = i

\* A hint is kept until the replica has answered its replay: walking a copy by
\* index, with hints stored and removed meanwhile, never removes another one.
NoHintLost ==
    \A i \in Request : stage[i] = "hinted" => Pending(i) \/ i \in applied \/ i \in refused

\* The request a replay is about while it calls.
Asks(i, pc) ==
    \E r \in Replay : replay[r].pc = pc /\ replay[r].snap[Head(replay[r].todo)] = i

Debt(i) ==
    IF Asks(i, "answer") THEN "answered"
    ELSE IF Asks(i, "call") THEN "asked"
    ELSE IF Pending(i) THEN "owed"
    ELSE IF stage[i] = "hinted" THEN "settled"
    ELSE "none"

\* One replay at a time, the slice of hints and the copy walked by index are the
\* debts that HintDelivery describes: each request is owed once, settled only by
\* the answer to the replay of its own hint, and is not sent again after that
\* (handoff/manager.go: "On success the hint is removed; on failure it is left
\* intact").
Delivery == INSTANCE HintDelivery WITH
                debt <- [i \in Request |-> Debt(i)],
                seen <- applied \union refused

ImplementsHintDelivery == Delivery!Spec

\* If in the end every call gets through, and gossip again and again sees the
\* replica become alive, no hint is left behind for ever.
Drained ==
    <>[]link /\ []<>(\E r \in Replay : replay[r].pc = "begun") => <>[](hints = <<>>)
=============================================================================
