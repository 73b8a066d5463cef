------------------------------ MODULE Membership ------------------------------
(***************************************************************************)
(* The membership table of one node and the hash ring built from it        *)
(* (cluster/membership.go, cluster/manager.go).                            *)
(*                                                                         *)
(* Each call of Membership is atomic and elects the leader; the change     *)
(* hook then rebuilds the ring outside the lock: syncHashRing lists the    *)
(* nodes, and stores the new ring in a second step.  The goroutine that    *)
(* starts the cluster, the monitor, the gossip loop and the RPC handlers   *)
(* all do so, and a lookup reads whatever ring is there.                   *)
(***************************************************************************)
EXTENDS HashRing

CONSTANTS
    Local,              \* this node
    Handler,            \* the RPC and request handlers that may run at a time
    KeyHash,            \* the hashes of the keys looked up
    ReplicationFactor,
    None,               \* no list, no entry, no lookup
    MaxOps              \* bounds what handlers and the gossip loop begin

VARIABLES
    table,    \* the status of each node
    leader,   \* the nodes whose entry has IsLeader set
    ring,     \* Manager.hashRing
    todo,     \* the steps each goroutine has still to take
    list,     \* the alive nodes a syncHashRing has listed, until it stores its ring
    entry,    \* the entry a goroutine is about to add
    peers,    \* the nodes the monitor has still to send a heartbeat to
    look,     \* the lookup of a handler
    cluster,  \* how far Start and Stop of the manager are
    loop,     \* the monitor and the gossip loop
    ops       \* operations begun so far
vars == <<table, leader, ring, todo, list, entry, peers, look, cluster, loop, ops>>

Main == "main"
Monitor == "monitor"
Gossiper == "gossiper"
Loop == {Monitor, Gossiper}
Proc == Handler \cup Loop \cup {Main}

Status == {"alive", "suspect", "dead"}
Absent == "absent"

StepName == {"list", "store", "elect", "put", "peers", "send", "first", "read", "entries"}
Entry == [node : Node, status : Status]
Lookup == [hash : KeyHash, want : {1, ReplicationFactor}, owners : Seq(Node),
           next : Nat \ {0}, answer : Seq(Node), seen : SUBSET SUBSET Node]

ASSUME MembershipAssumption ==
    /\ Local \in Node
    /\ Handler \cap {Main, Monitor, Gossiper} = {}
    /\ KeyHash \subseteq Hash
    /\ ReplicationFactor \in Nat \ {0}
    /\ None \notin Entry /\ None \notin Lookup /\ \A S \in SUBSET Node : None # S
    /\ MaxOps \in Nat

\* Types: the lookups are those of handlers, and a goroutine holds a list just
\* between the two steps of a rebuild.
TypeOK ==
    /\ table \in [Node -> Status \cup {Absent}]
    /\ leader \in SUBSET Node
    /\ ring \in Rings
    /\ todo \in [Proc -> Seq(StepName)]
    /\ list \in [Proc -> {None} \cup SUBSET Node]
    /\ \A p \in Proc : (list[p] # None) <=> (todo[p] # <<>> /\ Head(todo[p]) = "store")
    /\ entry \in [Proc -> {None} \cup Entry]
    /\ peers \in SUBSET (Node \ {Local})
    /\ look \in [Proc -> {None} \cup Lookup]
    /\ \A p \in Proc : look[p] # None => p \in Handler
    /\ cluster \in {"new", "starting", "started", "stopping", "waiting", "stopped"}
    /\ loop \in [Loop -> {"off", "on", "ended"}]
    /\ ops \in 0 .. MaxOps

----------------------------------------------------------------------------
(* The table.                                                              *)

AliveIn(t) == {n \in Node : t[n] = "alive"}
Alive == AliveIn(table)

\* electLeaderLocked: the alive node with the smallest identifier.  The
\* program never calls SetLocalNodeID, so that no node is excluded.
Elected(t) == {n \in AliveIn(t) : \A m \in AliveIn(t) : n <= m}

\* What a lookup under way may come to see.
Witnessed(t) ==
    [p \in Proc |-> IF look[p] = None THEN None
                    ELSE [look[p] EXCEPT !.seen = @ \cup {AliveIn(t)}]]

\* One critical section of Membership.
SetTable(t) ==
    /\ table' = t
    /\ leader' = Elected(t)
    /\ look' = Witnessed(t)

SetStatus(n, s) == SetTable([table EXCEPT ![n] = s])

Idle(p) == todo[p] = <<>>
At(p, s) == todo[p] # <<>> /\ Head(todo[p]) = s
Go(p, steps) == todo' = [todo EXCEPT ![p] = steps]
Continue(p) == Go(p, Tail(todo[p]))

\* syncHashRing, as the change hook and as a call.
Sync == <<"list", "store">>

\* After AddNode or RemoveNode: the hook, syncHashRing, electLeader.
Registered == Sync \o Sync \o <<"elect">> \o Sync

Init ==
    /\ table = [n \in Node |-> Absent]
    /\ leader = {}
    /\ ring = [nodes |-> {}, slice |-> <<>>]
    /\ todo = [p \in Proc |-> <<>>]
    /\ list = [p \in Proc |-> None]
    /\ entry = [p \in Proc |-> None]
    /\ peers = {}
    /\ look = [p \in Proc |-> None]
    /\ cluster = "new"
    /\ loop = [l \in Loop |-> "off"]
    /\ ops = 0

----------------------------------------------------------------------------
(* The steps of a rebuild and the elections of the manager.                *)

\* syncHashRing: ListNodes, and of those the alive ones.
List(p) ==
    /\ At(p, "list")
    /\ list' = [list EXCEPT ![p] = Alive]
    /\ Continue(p)
    /\ UNCHANGED <<table, leader, ring, entry, peers, look, cluster, loop, ops>>

\* syncHashRing: the assignment of m.hashRing.
StoreRing(p) ==
    /\ At(p, "store")
    /\ ring' \in RingsOf(list[p])
    /\ list' = [list EXCEPT ![p] = None]
    /\ Continue(p)
    /\ UNCHANGED <<table, leader, entry, peers, look, cluster, loop, ops>>

\* electLeader of the manager, up to its syncHashRing.
Elect(p) ==
    /\ At(p, "elect")
    /\ SetTable(table)
    /\ Continue(p)
    /\ UNCHANGED <<ring, list, entry, peers, cluster, loop, ops>>

\* AddNode of the entry decided on in an earlier step.
Put(p) ==
    /\ At(p, "put")
    /\ SetStatus(entry[p].node, entry[p].status)
    /\ entry' = [entry EXCEPT ![p] = None]
    /\ Continue(p)
    /\ UNCHANGED <<ring, list, peers, cluster, loop, ops>>

----------------------------------------------------------------------------
(* What handlers and the gossip loop begin.                                *)

Begin(p) == Idle(p) /\ ops < MaxOps /\ ops' = ops + 1

HandleJoin(p, n) ==
    /\ Begin(p)
    /\ SetStatus(n, "alive")
    /\ Go(p, Registered)
    /\ UNCHANGED <<ring, list, entry, peers, cluster, loop>>

HandleLeave(p, n) ==
    /\ Begin(p)
    /\ SetStatus(n, Absent)
    /\ Go(p, Registered)
    /\ UNCHANGED <<ring, list, entry, peers, cluster, loop>>

\* UpdateHeartbeat of a known node, with its hook, and both calls of syncHashRing.
HandleHeartbeat(p, n) ==
    /\ Begin(p)
    /\ table[n] # Absent
    /\ SetStatus(n, "alive")
    /\ Go(p, Sync \o Sync \o Sync)
    /\ UNCHANGED <<ring, list, entry, peers, cluster, loop>>

\* UpdateHeartbeat of an unknown node fails: it is added in a second call.
HandleFirstHeartbeat(p, n) ==
    /\ Begin(p)
    /\ table[n] = Absent
    /\ entry' = [entry EXCEPT ![p] = [node |-> n, status |-> "alive"]]
    /\ Go(p, <<"put">> \o Sync \o Sync)
    /\ UNCHANGED <<table, leader, ring, list, peers, look, cluster, loop>>

Priority(s) == CASE s = "alive" -> 3 [] s = "suspect" -> 2 [] s = "dead" -> 1 [] OTHER -> 0

\* One node of MergeMembership: GetNode, and the entry AddNode will put in its
\* place.  The status of a node that is known never gets worse.
Merge(p, n, s) ==
    /\ Begin(p)
    /\ Priority(s) >= Priority(table[n])
    /\ entry' = [entry EXCEPT ![p] = [node |-> n, status |-> s]]
    /\ Go(p, <<"put">> \o Sync)
    /\ UNCHANGED <<table, leader, ring, list, peers, look, cluster, loop>>

\* MarkSuspect or MarkDead by the failure detector, which decided on an earlier
\* list of the nodes.
Mark(n, s) ==
    /\ Begin(Gossiper)
    /\ n # Local /\ table[n] # Absent
    /\ SetStatus(n, s)
    /\ Go(Gossiper, Sync)
    /\ UNCHANGED <<ring, list, entry, peers, cluster, loop>>

----------------------------------------------------------------------------
(* Lookups.                                                                *)

\* A lookup may see the nodes alive now, or those of a ring under way.
Visible == {Alive} \cup ({list[q] : q \in Proc} \ {None})

NewLookup(h, rf) ==
    [hash |-> h, want |-> rf, owners |-> <<>>, next |-> 1, answer |-> <<>>, seen |-> Visible]

\* LocalNode rebuilds the ring and reads the table, as Leader does.
LocalNode(p) ==
    /\ Begin(p)
    /\ Go(p, Sync)
    /\ UNCHANGED <<table, leader, ring, list, entry, peers, look, cluster, loop>>

\* Mutated form: the ring is taken as it is.
OwnersUnsynced(p, h) ==
    /\ Begin(p)
    /\ look' = [look EXCEPT ![p] = NewLookup(h, ReplicationFactor)]
    /\ Go(p, <<"read", "entries">>)
    /\ UNCHANGED <<table, leader, ring, list, entry, peers, cluster, loop>>

\* Owners begins by rebuilding the ring.
Owners(p, h) ==
    /\ Begin(p)
    /\ look' = [look EXCEPT ![p] = NewLookup(h, ReplicationFactor)]
    /\ Go(p, Sync \o <<"read", "entries">>)
    /\ UNCHANGED <<table, leader, ring, list, entry, peers, cluster, loop>>

\* Owner does so too, and asks the ring for one node.
Owner(p, h) ==
    /\ Begin(p)
    /\ look' = [look EXCEPT ![p] = NewLookup(h, 1)]
    /\ Go(p, Sync \o <<"first", "entries">>)
    /\ UNCHANGED <<table, leader, ring, list, entry, peers, cluster, loop>>

\* The ring that is stored by then answers.  An empty one ends the lookup.
ReadRing(p) ==
    /\ \/ At(p, "read")
       \/ At(p, "first")
    /\ IF ring.slice = <<>>
       THEN look' = [look EXCEPT ![p] = None] /\ Go(p, <<>>)
       ELSE /\ look' = [look EXCEPT ![p].owners =
                    IF At(p, "read") THEN ReplicaOwners(ring, look[p].hash, look[p].want)
                    ELSE <<GetNode(ring, look[p].hash)>>]
            /\ Continue(p)
    /\ UNCHANGED <<table, leader, ring, list, entry, peers, cluster, loop, ops>>

\* GetNode of the table for one owner after the other; an owner that has left by
\* then is dropped.
ReadEntry(p) ==
    /\ At(p, "entries")
    /\ look[p].next <= Len(look[p].owners)
    /\ LET n == look[p].owners[look[p].next]
       IN  look' = [look EXCEPT ![p].next = @ + 1,
                                ![p].answer = IF table[n] = Absent THEN @ ELSE Append(@, n)]
    /\ UNCHANGED <<table, leader, ring, todo, list, entry, peers, cluster, loop, ops>>

Answer(p) ==
    /\ At(p, "entries")
    /\ look[p].next > Len(look[p].owners)
    /\ look' = [look EXCEPT ![p] = None]
    /\ Go(p, <<>>)
    /\ UNCHANGED <<table, leader, ring, list, entry, peers, cluster, loop, ops>>

----------------------------------------------------------------------------
(* The manager's goroutines.                                               *)

Start ==
    /\ cluster = "new" /\ cluster' = "starting"
    /\ SetStatus(Local, "alive")
    /\ Go(Main, Registered)
    /\ UNCHANGED <<ring, list, entry, peers, loop, ops>>

\* The end of Start: the monitor and the gossip loop run.
Started ==
    /\ cluster = "starting" /\ Idle(Main)
    /\ cluster' = "started"
    /\ loop' = [l \in Loop |-> "on"]
    /\ UNCHANGED <<table, leader, ring, todo, list, entry, peers, look, ops>>

\* The ticker of monitorLoop: the node's own heartbeat, if it is in the table.
Tick ==
    /\ loop[Monitor] = "on" /\ Idle(Monitor)
    /\ IF table[Local] = Absent
       THEN Go(Monitor, <<"peers">>) /\ UNCHANGED <<table, leader, look>>
       ELSE Go(Monitor, Sync \o <<"peers">>) /\ SetStatus(Local, "alive")
    /\ UNCHANGED <<ring, list, entry, peers, cluster, loop, ops>>

\* Mutated form: it does not leave out the node itself.
ListPeersAll ==
    /\ At(Monitor, "peers")
    /\ peers' = Alive
    /\ Go(Monitor, <<"send">>)
    /\ UNCHANGED <<table, leader, ring, list, entry, look, cluster, loop, ops>>

\* sendHeartbeats lists the nodes it will call.
ListPeers ==
    /\ At(Monitor, "peers")
    /\ peers' = Alive \ {Local}
    /\ Go(Monitor, <<"send">>)
    /\ UNCHANGED <<table, leader, ring, list, entry, look, cluster, loop, ops>>

\* One heartbeat: without an answer, or from a node no longer known, nothing
\* changes.
SendFails(n) ==
    /\ At(Monitor, "send") /\ n \in peers
    /\ peers' = peers \ {n}
    /\ UNCHANGED <<table, leader, ring, todo, list, entry, look, cluster, loop, ops>>

SendAnswered(n) ==
    /\ At(Monitor, "send") /\ n \in peers /\ table[n] # Absent
    /\ peers' = peers \ {n}
    /\ SetStatus(n, "alive")
    /\ Go(Monitor, Sync \o <<"send">>)
    /\ UNCHANGED <<ring, list, entry, cluster, loop, ops>>

\* Mutated form: the election does not rebuild the ring.
SendsDoneUnsynced ==
    /\ At(Monitor, "send") /\ peers = {}
    /\ Go(Monitor, <<"elect">>)
    /\ UNCHANGED <<table, leader, ring, list, entry, peers, look, cluster, loop, ops>>

\* After the last heartbeat the monitor elects the leader.
SendsDone ==
    /\ At(Monitor, "send") /\ peers = {}
    /\ Go(Monitor, <<"elect">> \o Sync)
    /\ UNCHANGED <<table, leader, ring, list, entry, peers, look, cluster, loop, ops>>

\* Stop closes the monitor's channel, then the gossip loop's, and waits for both.
Stop ==
    /\ cluster = "started" /\ cluster' = "stopping"
    /\ UNCHANGED <<table, leader, ring, todo, list, entry, peers, look, loop, ops>>

StopGossip ==
    /\ cluster = "stopping" /\ cluster' = "waiting"
    /\ UNCHANGED <<table, leader, ring, todo, list, entry, peers, look, loop, ops>>

\* Mutated form: Stop does not close the monitor's channel.
ClosedGossip(l) == cluster = "waiting" /\ l = Gossiper

Closed(l) ==
    \/ cluster = "waiting"
    \/ cluster = "stopping" /\ l = Monitor

LoopEnds(l) ==
    /\ loop[l] = "on" /\ Idle(l) /\ Closed(l)
    /\ loop' = [loop EXCEPT ![l] = "ended"]
    /\ UNCHANGED <<table, leader, ring, todo, list, entry, peers, look, cluster, ops>>

Stopped ==
    /\ cluster = "waiting" /\ \A l \in Loop : loop[l] = "ended"
    /\ cluster' = "stopped"
    /\ UNCHANGED <<table, leader, ring, todo, list, entry, peers, look, loop, ops>>

----------------------------------------------------------------------------
Request(p) ==
    \/ \E n \in Node :
          \/ HandleJoin(p, n)
          \/ HandleLeave(p, n)
          \/ HandleHeartbeat(p, n)
          \/ HandleFirstHeartbeat(p, n)
          \/ \E s \in Status : Merge(p, n, s)
    \/ LocalNode(p)
    \/ \E h \in KeyHash : Owners(p, h) \/ Owner(p, h)

Gossip ==
    /\ loop[Gossiper] = "on"
    /\ \E n \in Node :
          \/ \E s \in Status : Merge(Gossiper, n, s)
          \/ \E s \in {"suspect", "dead"} : Mark(n, s)

Step(p) ==
    \/ List(p) \/ StoreRing(p) \/ Elect(p) \/ Put(p)
    \/ ReadRing(p) \/ ReadEntry(p) \/ Answer(p)

Heartbeats == ListPeers \/ SendsDone \/ \E n \in Node : SendFails(n) \/ SendAnswered(n)

Next ==
    \/ \E p \in Handler : Request(p)
    \/ \E p \in Proc : Step(p)
    \/ Gossip \/ Tick \/ Heartbeats
    \/ Start \/ Started \/ Stop \/ StopGossip \/ Stopped
    \/ \E l \in Loop : LoopEnds(l)

Spec == Init /\ [][Next]_vars

----------------------------------------------------------------------------
(* Properties.                                                             *)

\* Owners and Owner answer as consistent hashing would for the alive nodes of
\* some moment of the call, or of a rebuild that was under way when it began: a
\* ring older than that is not read, however many rebuilds overtake each other.
OwnersRegular ==
    \A p \in Handler : look[p] # None /\ At(p, "entries") =>
        \E S \in look[p].seen : Nearest(look[p].owners, S, look[p].hash, look[p].want)

\* From one ring to the next a key moves to a node only because that is new, and
\* away from one only because that is gone (README: minimal key movement).  Two
\* nodes whose nearest hashes are equal may change places: which of them comes
\* first is left to the order of a map and of sort.Slice (hashring.go: AddNode).
MinimalMovement ==
    [][ring' # ring /\ ring.nodes # {} /\ ring'.nodes # {} =>
          \A h \in KeyHash : MovesOnlyFor(ring, ring', h, ReplicationFactor)]_vars
=============================================================================
