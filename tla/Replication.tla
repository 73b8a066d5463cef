----------------------------- MODULE Replication -----------------------------
(***************************************************************************)
(* The copies of one key (server/handlers/kv.go, the RPC handlers of       *)
(* server/bootstrap.go).  Owners are known by their place in the list that *)
(* ReplicaOwners returns: 1 is the primary, 2..N the replicas.  Writes are *)
(* applied at the primary and then sent to the replicas one after the      *)
(* other, outside any lock; what cannot be sent becomes a hint.  A read at *)
(* a node that owns no copy asks the owners in turn and then repairs, in a *)
(* goroutine, the copies that differ from the majority of what it was told.*)
(* Reads at an owner only look at its copy and change nothing.             *)
(***************************************************************************)
EXTENDS Naturals, Sequences, SequencesExt, FiniteSets

CONSTANTS
    N,          \* number of owners
    Value,      \* what clients put
    Empty,      \* the empty value
    Missing,    \* no record
    Tombstone,  \* the record of a deleted key, whose value is empty
    Write,      \* the requests of clients to put or delete
    Reader,     \* reads at other nodes that may be under way at once
    MaxLate     \* bound: calls that are given up and still to be served

ASSUME ReplicationAssumption ==
    /\ N \in Nat \ {0} /\ MaxLate \in Nat
    /\ Missing \notin Value \union {Empty, Tombstone}
    /\ Tombstone \notin Value \union {Empty}

VARIABLES
    up,        \* calls get through to the owners
    copy,      \* copy[o]: the record at owner o
    hints,     \* hints[o]: what the primary keeps for replica o
    replay,    \* replay[o]: the hint a replay for o is at, 0 without a replay
    late,      \* calls given up by their sender that may still be served
    write,     \* write[w]: the handler of request w
    read,      \* read[g]: a read at another node, then its repair
    accepted,  \* history: what the storage of the primary took from clients
    last       \* history: the request it took last

vars == <<up, copy, hints, replay, late, write, read, accepted, last>>

Owner   == 1..N
Replica == 2..N
Content == Value \union {Empty}
Stored  == Content \union {Tombstone}
NoRead  == [pc |-> "idle", at |-> 1, val |-> Missing, got |-> [o \in Owner |-> Missing]]
Finished == {"done", "failed"}

\* Mutated form of Bytes: the reader takes a tombstone for what it is.
BytesOrMarker(c) == c

\* What ReplicaGet answers of a record: the reader ignores DeleteMarker.
Bytes(c) == IF c = Tombstone THEN Empty ELSE c

Results(first, got) == {first} \union ({got[o] : o \in Owner} \ {Missing})

\* The first answer counts, and again when its owner is polled.
Votes(first, got, v) ==
    Cardinality({o \in Owner : got[o] = v}) + (IF v = first THEN 1 ELSE 0)

\* The first of the owners polled that has one of the values in best.
FirstOf(got, best) ==
    got[CHOOSE o \in Owner : got[o] \in best /\ \A q \in 1..(o - 1) : got[q] \notin best]

\* majorityValue: the value with most votes, the first encountered of several.
Majority(first, got) ==
    LET Best == {v \in Results(first, got) :
                    \A u \in Results(first, got) : Votes(first, got, u) <= Votes(first, got, v)}
    IN  IF first \in Best THEN first ELSE FirstOf(got, Best)

----------------------------------------------------------------------------

Init ==
    /\ up = TRUE
    /\ copy = [o \in Owner |-> Missing]
    /\ hints = [o \in Replica |-> <<>>]
    /\ replay = [o \in Replica |-> 0]
    /\ late = {}
    /\ write = [w \in Write |-> [pc |-> "new", val |-> Missing, at |-> 2]]
    /\ read = [g \in Reader |-> NoRead]
    /\ accepted = {}
    /\ last \in Write

\* The storage of the primary takes v for request w.
Take(w, v, pc) ==
    /\ write[w].pc = "new"
    /\ copy' = [copy EXCEPT ![1] = v]
    /\ write' = [write EXCEPT ![w] = [pc |-> pc, val |-> v, at |-> 2]]
    /\ accepted' = accepted \union {v}
    /\ last' = w
    /\ UNCHANGED <<up, hints, replay, late, read>>

\* A call to o is given up; it may be served all the same, now or later.
GiveUp(o, v) ==
    \/ late' = late
    \/ Cardinality(late) < MaxLate /\ late' = late \union {<<o, v>>}

\* Where a handler goes on that is to send to owner o.
Onward(o) == IF o <= N THEN "send" ELSE "done"

\* Mutated form of PutLocal: when the storage refuses the value it is sent to
\* the replicas all the same.
PutUnchecked(w) ==
    /\ write[w].pc = "new"
    /\ \E v \in Value : write' = [write EXCEPT ![w] = [pc |-> Onward(2), val |-> v, at |-> 2]]
    /\ UNCHANGED <<up, copy, hints, replay, late, read, accepted, last>>

\* A put at the primary.  When a checkpoint fails the record is stored all the
\* same and the handler ends with an error.
PutLocal(w) == \E v \in Value, pc \in {"verify", "failed"} : Take(w, v, pc)

DeleteLocal(w) == \E pc \in {Onward(2), "failed"} : Take(w, Tombstone, pc)

\* A put or a delete at another node: KVPut and KVDelete write the storage of
\* the primary and nothing else.
Forward(w) == \E v \in Value \union {Tombstone} : Take(w, v, "done")

\* The handler of a put reads the key back and gives up when it was deleted.
Verify(w) ==
    /\ write[w].pc = "verify"
    /\ write' = [write EXCEPT ![w].pc = IF copy[1] = Tombstone THEN "failed" ELSE Onward(2)]
    /\ UNCHANGED <<up, copy, hints, replay, late, read, accepted, last>>

\* A replica takes the write; its answer may still be an error.
Replicate(w) ==
    LET o == write[w].at
    IN  /\ write[w].pc = "send" /\ up
        /\ copy' = [copy EXCEPT ![o] = write[w].val]
        /\ \/ write' = [write EXCEPT ![w].pc = Onward(o + 1), ![w].at = o + 1]
           \/ write' = [write EXCEPT ![w].pc = "refer"]
        /\ UNCHANGED <<up, hints, replay, late, read, accepted, last>>

\* The replica is known not to be alive, refuses or cannot be reached.
CallFails(w) ==
    /\ write[w].pc = "send" /\ ~up
    /\ write' = [write EXCEPT ![w].pc = "refer"]
    /\ GiveUp(write[w].at, write[w].val)
    /\ UNCHANGED <<up, copy, hints, replay, read, accepted, last>>

StoreHint(w) ==
    LET o == write[w].at
    IN  /\ write[w].pc = "refer"
        /\ hints' = [hints EXCEPT ![o] = Append(@, write[w].val)]
        /\ write' = [write EXCEPT ![w].pc = Onward(o + 1), ![w].at = o + 1]
        /\ UNCHANGED <<up, copy, replay, late, read, accepted, last>>

----------------------------------------------------------------------------
(* Replays, one at a time for a replica: Handoff shows that what is left of *)
(* the copy a replay walks is then the beginning of the list of hints.      *)

ReplayHints(o) ==
    /\ replay[o] = 0
    /\ replay' = [replay EXCEPT ![o] = Len(hints[o])]
    /\ UNCHANGED <<up, copy, hints, late, write, read, accepted, last>>

\* The replica takes the hint.
ServeReplay(o) ==
    /\ replay[o] # 0 /\ up
    /\ copy' = [copy EXCEPT ![o] = hints[o][replay[o]]]
    /\ hints' = [hints EXCEPT ![o] = RemoveAt(@, replay[o])]
    /\ replay' = [replay EXCEPT ![o] = @ - 1]
    /\ UNCHANGED <<up, late, write, read, accepted, last>>

\* The call fails and the hint stays; or the replica refuses it with an error,
\* and the hint is removed.
ReplayFails(o) ==
    /\ replay[o] # 0 /\ ~up
    /\ \/ hints' = hints /\ GiveUp(o, hints[o][replay[o]])
       \/ hints' = [hints EXCEPT ![o] = RemoveAt(@, replay[o])] /\ late' = late
    /\ replay' = [replay EXCEPT ![o] = @ - 1]
    /\ UNCHANGED <<up, copy, write, read, accepted, last>>

----------------------------------------------------------------------------
(* handleGet at a node that is no owner, and asyncReadRepair.              *)

ReadBegins(g) ==
    /\ read[g].pc = "idle"
    /\ read' = [read EXCEPT ![g].pc = "ask"]
    /\ UNCHANGED <<up, copy, hints, replay, late, write, accepted, last>>

\* The first owner that has a record answers the client.
Answered(g) ==
    LET o == read[g].at
    IN  /\ read[g].pc = "ask" /\ up /\ copy[o] # Missing
        /\ read' = [read EXCEPT ![g] = [NoRead EXCEPT !.pc = "poll", !.val = Bytes(copy[o])]]
        /\ UNCHANGED <<up, copy, hints, replay, late, write, accepted, last>>

NextOwner(g) ==
    LET o == read[g].at
    IN  /\ read[g].pc = "ask" /\ (~up \/ copy[o] = Missing)
        /\ read' = [read EXCEPT ![g] = IF o < N THEN [@ EXCEPT !.at = o + 1] ELSE NoRead]
        /\ UNCHANGED <<up, copy, hints, replay, late, write, accepted, last>>


\* Of what the polls returned, the part that is to be repaired with val.
Stale(val, got) == [o \in Owner |-> IF got[o] = val THEN Missing ELSE got[o]]
ToRepair(val, got) ==
    IF got = NoRead.got
    THEN NoRead
    ELSE [pc |-> "repair", at |-> 1, val |-> val, got |-> got]

\* Every owner is polled; a call that fails, or finds nothing, has no result.
Poll(g) ==
    LET o   == read[g].at
        got == [read[g].got EXCEPT ![o] = IF up THEN Bytes(copy[o]) ELSE Missing]
        val == Majority(read[g].val, got)
    IN  /\ read[g].pc = "poll"
        /\ read' = [read EXCEPT ![g] =
                        IF o < N
                        THEN [@ EXCEPT !.at = o + 1, !.got = got]
                        ELSE ToRepair(val, Stale(val, got))]
        /\ UNCHANGED <<up, copy, hints, replay, late, write, accepted, last>>

\* The next owner to repair is sent the majority's value, which makes a live
\* record of it.
Repair(g) ==
    LET o == CHOOSE o \in Owner : /\ read[g].got[o] # Missing
                                  /\ \A q \in 1..(o - 1) : read[g].got[q] = Missing
        v == read[g].val
    IN  /\ read[g].pc = "repair"
        /\ IF up
           THEN copy' = [copy EXCEPT ![o] = v] /\ late' = late
           ELSE copy' = copy /\ GiveUp(o, v)
        /\ read' = [read EXCEPT ![g] = ToRepair(v, [@.got EXCEPT ![o] = Missing])]
        /\ UNCHANGED <<up, hints, replay, write, accepted, last>>

----------------------------------------------------------------------------

LinkChanges ==
    /\ up' = ~up
    /\ UNCHANGED <<copy, hints, replay, late, write, read, accepted, last>>

\* A call is served after its sender has given up.
ServeLate(o, v) ==
    /\ <<o, v>> \in late
    /\ copy' = [copy EXCEPT ![o] = v]
    /\ late' = late \ {<<o, v>>}
    /\ UNCHANGED <<up, hints, replay, write, read, accepted, last>>

Handle(w) == Verify(w) \/ Replicate(w) \/ CallFails(w) \/ StoreHint(w)
Replay(o) == ServeReplay(o) \/ ReplayFails(o)
ReadOn(g) == Answered(g) \/ NextOwner(g) \/ Poll(g) \/ Repair(g)

Next ==
    \/ LinkChanges
    \/ \E w \in Write : PutLocal(w) \/ DeleteLocal(w) \/ Forward(w) \/ Handle(w)
    \/ \E o \in Replica : ReplayHints(o) \/ Replay(o)
    \/ \E o \in Owner, v \in Stored : ServeLate(o, v)
    \/ \E g \in Reader : ReadBegins(g) \/ ReadOn(g)

\* Handlers, replays and reads keep running once begun.
Fairness ==
    /\ \A w \in Write : WF_vars(Handle(w))
    /\ \A o \in Replica : WF_vars(Replay(o))
    /\ \A g \in Reader : WF_vars(ReadOn(g))

Spec     == Init /\ [][Next]_vars
FairSpec == Spec /\ Fairness

----------------------------------------------------------------------------
(* Properties.                                                             *)

\* The copies, hints, calls and reads keep their types.
TypeOK ==
    /\ up \in BOOLEAN
    /\ copy \in [Owner -> Stored \union {Missing}]
    /\ hints \in [Replica -> Seq(Stored)]
    /\ replay \in [Replica -> Nat]
    /\ \A o \in Replica : replay[o] <= Len(hints[o])
    /\ late \subseteq Owner \X Stored
    /\ write \in [Write -> [pc : {"new", "verify", "send", "refer"} \union Finished,
                            val : Stored \union {Missing}, at : 2..(N + 1)]]
    /\ read \in [Reader -> [pc : {"idle", "ask", "poll", "repair"}, at : Owner,
                            val : Content \union {Missing},
                            got : [Owner -> Content \union {Missing}]]]
    /\ accepted \subseteq Stored
    /\ last \in Write

\* Whatever fails, is late or is repaired, an owner holds nothing but what the
\* storage of the primary took from a client before, or the empty value that a
\* repair makes of a delete.  In which order it came to hold them is not said.
Authentic ==
    \A o \in Owner :
        copy[o] \in accepted \union {Missing} \union {Bytes(c) : c \in accepted}

\* The owners' copies are those RecordCopies describes: the primary accepts a
\* request once, and whatever a call that is late, a replay or a repair does,
\* no copy loses its record and the primary is deleted by clients only.  Owners
\* do not restart here: replay.go drops the tombstones of the log.
Copies == INSTANCE RecordCopies WITH
              Request <- Write,
              taken   <- {w \in Write : write[w].pc # "new"}

ImplementsRecordCopies == Copies!Spec

\* What nodes that own no copy are answered whichever of the two owners they
\* ask: ReplicaGet gives bytes, and an owner without a record is passed over.
SameToReaders(o, q) ==
    Missing \in {copy[o], copy[q]} \/ Bytes(copy[o]) = Bytes(copy[q])


\* asyncReadRepair repairs "any that hold a stale value": with every request
\* finished it overwrites no copy of the value the last one wrote, be the last
\* one a put or a delete.
RepairsOnlyStale ==
    [][\A g \in Reader :
          Repair(g) /\ (\A w \in Write : write[w].pc \in Finished) /\ write[last].pc = "done"
              => \A o \in Owner : copy'[o] # copy[o] => copy[o] # write[last].val]_vars
=============================================================================
