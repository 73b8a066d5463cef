-------------------------------- MODULE Gossip --------------------------------
(***************************************************************************)
(* Failure detection by gossip (cluster/gossip, with the heartbeats of     *)
(* cluster/manager.go and the membership table of cluster/membership.go).  *)
(* Merging, marking and heartbeats treat the entries of a table one by     *)
(* one, so the module follows the entry of one node, the Subject, in the   *)
(* table of every node.  Every entry carries the version "cluster/v1" and  *)
(* addresses do not change: MergeNodeStates then decides by heartbeat and  *)
(* status.  All nodes read one clock.                                      *)
(*                                                                         *)
(* Two goroutines of a node and the handlers of its RPCs share the table;  *)
(* only single calls of Membership are atomic.  A merge reads the entry,   *)
(* unlocks and writes it back; so does the failure detector.               *)
(***************************************************************************)
EXTENDS Integers, FiniteSets

CONSTANTS
    Node,
    Subject,      \* the node whose entries are followed
    Unknown,      \* a table without an entry for the Subject
    Nobody,       \* no peer is being called
    Timeout,      \* failureTimeout in clock ticks
    Loss,         \* messages may be lost and answers may come too late
    MaxCrashes,   \* bound on crashes of the Subject
    MaxRestarts,  \* bound on its restarts
    MaxTime,      \* bound on the clock
    MaxCalls      \* bound on the gossip requests under way at once

Observer == Node \ {Subject}
Status   == {"Alive", "Suspect", "Dead"}
Known    == [status : Status, hb : 0..MaxTime]
Entry    == Known \union {Unknown}

ASSUME GossipAssumption ==
    /\ Subject \in Node
    /\ Unknown \notin Known /\ Nobody \notin Node
    /\ Timeout \in Nat /\ MaxTime \in Nat \ {0}
    /\ MaxCrashes \in Nat /\ MaxRestarts \in Nat /\ MaxCalls \in Nat
    /\ Loss \in BOOLEAN

VARIABLES
    now,       \* the clock
    up,        \* the Subject's process runs and serves requests
    started,   \* it has entered itself in its table and its goroutines run
    crashes, restarts,
    entry,     \* entry[n]: the Subject's entry in n's table
    peers,     \* the nodes in the Subject's own table, itself aside
    loop,      \* loop[n]: where n's gossip goroutine is in runLoop
    call,      \* call[n][m]: the gossip request of n that m is serving
    sign       \* sign[n]: a heartbeat of the Subject, or its answer to a
               \* heartbeat of n, is on its way to n

life == <<up, started, crashes, restarts>>
vars == <<now, up, started, crashes, restarts, entry, peers, loop, call, sign>>

Idle   == [pc |-> "idle", snap |-> Unknown, todo |-> {}, peer |-> Nobody, put |-> Unknown]
NoCall == [at |-> "none", told |-> Unknown]

Serving(n) == n = Subject => up
Running(n) == n = Subject => started

----------------------------------------------------------------------------
(* Merging one entry.                                                      *)

\* Mutated form of Priority: of two reports as recent the worse one counts.
PriorityWorst(s) == CASE s = "Alive" -> 1 [] s = "Suspect" -> 2 [] s = "Dead" -> 3

Priority(s) == CASE s = "Alive" -> 3 [] s = "Suspect" -> 2 [] s = "Dead" -> 1

\* Mutated form: an exchange counts as a heartbeat of the node it is about.
MergedTouch(mine, theirs) ==
    IF mine = Unknown THEN theirs
    ELSE [status |-> IF theirs.hb >= mine.hb /\ Priority(theirs.status) > Priority(mine.status)
                     THEN theirs.status ELSE mine.status,
          hb     |-> now]

\* MergeNodeStates for equal versions: the later heartbeat, and the status of
\* higher priority unless it comes with an earlier heartbeat.
Merged(mine, theirs) ==
    IF mine = Unknown THEN theirs
    ELSE [status |-> IF theirs.hb >= mine.hb /\ Priority(theirs.status) > Priority(mine.status)
                     THEN theirs.status ELSE mine.status,
          hb     |-> IF theirs.hb > mine.hb THEN theirs.hb ELSE mine.hb]

\* Nothing to write back: MergeNodeStates reports no update.
NoNews(mine, theirs) ==
    theirs = Unknown \/ (mine # Unknown /\ Merged(mine, theirs) = mine)

\* The entry UpdateHeartbeat leaves, and AddNode for a sender not yet known.
Fresh == [status |-> "Alive", hb |-> now]

----------------------------------------------------------------------------

\* The other nodes know one another; the Subject has just joined through some
\* of them (HandleJoin there) and knows nobody yet.
Init ==
    /\ now = 1
    /\ up = TRUE /\ started = TRUE
    /\ crashes = 0 /\ restarts = 0
    /\ \E seeds \in (SUBSET Observer) \ {{}} :
         entry = [n \in Node |-> IF n = Subject \/ n \in seeds THEN Fresh ELSE Unknown]
    /\ peers = {}
    /\ loop = [n \in Node |-> Idle]
    /\ call = [n \in Node |-> [m \in Node |-> NoCall]]
    /\ sign = [n \in Node |-> FALSE]

Tick ==
    /\ now < MaxTime
    /\ now' = now + 1
    /\ UNCHANGED <<life, entry, peers, loop, call, sign>>

\* The Subject stops: its table, its goroutines, the requests it serves and the
\* answers to its own are gone, what it has sent is still on its way.
Crash ==
    /\ up /\ crashes < MaxCrashes
    /\ up' = FALSE /\ started' = FALSE
    /\ crashes' = crashes + 1
    /\ entry' = [entry EXCEPT ![Subject] = Unknown]
    /\ peers' = {}
    /\ loop' = [loop EXCEPT ![Subject] = Idle]
    /\ call' = [n \in Node |-> [m \in Node |->
                   IF m = Subject \/ (n = Subject /\ call[n][m].at = "reply") THEN NoCall
                   ELSE call[n][m]]]
    /\ UNCHANGED <<now, restarts, sign>>

\* The process runs again, and its server answers the others before the node
\* is in its own table: Run starts the server first.
Restart ==
    /\ ~up /\ restarts < MaxRestarts
    /\ up' = TRUE /\ restarts' = restarts + 1
    /\ UNCHANGED <<now, started, crashes, entry, peers, loop, call, sign>>

\* Manager.Start: the node enters itself, alive and with no heartbeat yet, over
\* what others have told it of itself meanwhile.  A merge that has read the
\* table before will write over this entry.
Start ==
    /\ up /\ ~started
    /\ started' = TRUE
    /\ entry' = [entry EXCEPT ![Subject] = [status |-> "Alive", hb |-> 0]]
    /\ UNCHANGED <<now, up, crashes, restarts, peers, loop, call, sign>>

----------------------------------------------------------------------------
(* Heartbeats: the monitor goroutines.                                     *)

SelfBeat ==
    /\ started
    /\ entry' = [entry EXCEPT ![Subject] = Fresh]
    /\ UNCHANGED <<now, life, peers, loop, call, sign>>

SendBeat(n) ==
    /\ started /\ n \in peers /\ ~sign[n]
    /\ sign' = [sign EXCEPT ![n] = TRUE]
    /\ UNCHANGED <<now, life, entry, peers, loop, call>>

\* n sends a heartbeat to the Subject if its table says it is alive; the
\* Subject adds n if it did not know it, and its answer counts as a heartbeat.
BeatSubject(n) ==
    /\ up /\ n # Subject /\ ~sign[n]
    /\ entry[n] # Unknown /\ entry[n].status = "Alive"
    /\ sign' = [sign EXCEPT ![n] = TRUE]
    /\ peers' = peers \union {n}
    /\ UNCHANGED <<now, life, entry, loop, call>>

HandleHeartbeat(n) ==
    /\ sign[n]
    /\ sign' = [sign EXCEPT ![n] = FALSE]
    /\ entry' = [entry EXCEPT ![n] = Fresh]
    /\ UNCHANGED <<now, life, peers, loop, call>>

LoseBeat(n) ==
    /\ Loss /\ sign[n]
    /\ sign' = [sign EXCEPT ![n] = FALSE]
    /\ UNCHANGED <<now, life, entry, peers, loop, call>>

----------------------------------------------------------------------------
(* gossipCycle at n: one snapshot, then the peers one after the other.     *)

\* Mutated form of Peers: the selection the comment on SelectRandomPeers
\* describes, which leaves dead nodes out.
PeersNotDead(n) ==
    IF n = Subject THEN peers
    ELSE {m \in Node \ {n} : m = Subject => entry[n] # Unknown /\ entry[n].status # "Dead"}

\* SelectRandomPeers with a fanout no smaller than the cluster: everybody in
\* the table, dead or alive.
Peers(n) ==
    IF n = Subject THEN peers
    ELSE {m \in Node \ {n} : m = Subject => entry[n] # Unknown}

GossipCycle(n) ==
    /\ Running(n) /\ loop[n].pc = "idle"
    /\ loop' = [loop EXCEPT ![n] = [Idle EXCEPT !.pc = "send", !.snap = entry[n],
                                                !.todo = Peers(n)]]
    /\ UNCHANGED <<now, life, entry, peers, call, sign>>

\* The peers left to n once m has been served, and the snapshot for them.
NextPeer(n, m) ==
    LET left == loop[n].todo \ {m}
    IN [loop[n] EXCEPT !.todo = left, !.snap = IF left = {} THEN Unknown ELSE @]

SendGossip(n, m) ==
    /\ loop[n].pc = "send" /\ m \in loop[n].todo
    /\ call[n][m] = NoCall
    /\ Cardinality({p \in Node \X Node : call[p[1]][p[2]] # NoCall}) < MaxCalls
    /\ IF Serving(m)
       THEN /\ loop' = [loop EXCEPT ![n] = [NextPeer(n, m) EXCEPT !.pc = "wait", !.peer = m]]
            /\ call' = [call EXCEPT ![n][m] = [at |-> "sent", told |-> loop[n].snap]]
       ELSE /\ loop' = [loop EXCEPT ![n] = NextPeer(n, m)]
            /\ UNCHANGED call
    /\ UNCHANGED <<now, life, entry, peers, sign>>

\* Mutated form of Learned: the Subject comes to count itself as a peer.
LearnedSelf(n) == IF n = Subject THEN Node ELSE peers

\* The table of any other node tells the Subject about all of them.
Learned(n) == IF n = Subject THEN Observer ELSE peers

\* HandleInboundGossip at m: MergeMembership reads the entry and merges, ...
HandleRead(n, m) ==
    /\ call[n][m].at = "sent"
    /\ call' = [call EXCEPT ![n][m] =
                  IF NoNews(entry[m], @.told) THEN [at |-> "answer", told |-> Unknown]
                  ELSE [at |-> "merge", told |-> Merged(entry[m], @.told)]]
    /\ peers' = Learned(m)
    /\ UNCHANGED <<now, life, entry, loop, sign>>

\* ... AddNode writes what has changed over whatever the entry is by now, ...
HandleWrite(n, m) ==
    /\ call[n][m].at = "merge"
    /\ entry' = [entry EXCEPT ![m] = call[n][m].told]
    /\ call' = [call EXCEPT ![n][m] = [at |-> "answer", told |-> Unknown]]
    /\ UNCHANGED <<now, life, peers, loop, sign>>

Waiting(n, m) == loop[n].pc = "wait" /\ loop[n].peer = m

\* ... and then GetLocalStateSnapshot makes the answer, if n still waits for it.
HandleAnswer(n, m) ==
    /\ call[n][m].at = "answer"
    /\ call' = [call EXCEPT ![n][m] = IF Waiting(n, m) THEN [at |-> "reply", told |-> entry[m]]
                                     ELSE NoCall]
    /\ UNCHANGED <<now, life, entry, peers, loop, sign>>

\* The answer arrives and MergeMembership reads the entry and merges, ...
ReplyRead(n, m) ==
    /\ Waiting(n, m) /\ call[n][m].at = "reply"
    /\ loop' = [loop EXCEPT ![n] =
                  IF NoNews(entry[n], call[n][m].told) THEN [@ EXCEPT !.pc = "send", !.peer = Nobody]
                  ELSE [@ EXCEPT !.pc = "merge", !.peer = Nobody,
                                 !.put = Merged(entry[n], call[n][m].told)]]
    /\ call' = [call EXCEPT ![n][m] = NoCall]
    /\ peers' = Learned(n)
    /\ UNCHANGED <<now, life, entry, sign>>

\* ... and writes.
ReplyWrite(n) ==
    /\ loop[n].pc = "merge"
    /\ entry' = [entry EXCEPT ![n] = loop[n].put]
    /\ loop' = [loop EXCEPT ![n].pc = "send", ![n].put = Unknown]
    /\ UNCHANGED <<now, life, peers, call, sign>>

\* The request is lost.
LoseCall(n, m) ==
    /\ Loss /\ call[n][m].at = "sent"
    /\ call' = [call EXCEPT ![n][m] = NoCall]
    /\ UNCHANGED <<now, life, entry, peers, loop, sign>>

\* n gives up: always after a lost call, while m may still be serving it, or
\* when the answer is lost or comes too late.
GiveUp(n, m) ==
    /\ Waiting(n, m)
    /\ Loss \/ call[n][m] = NoCall
    /\ loop' = [loop EXCEPT ![n].pc = "send", ![n].peer = Nobody]
    /\ call' = [call EXCEPT ![n][m] = IF @.at = "reply" THEN NoCall ELSE @]
    /\ UNCHANGED <<now, life, entry, peers, sign>>

----------------------------------------------------------------------------
(* evaluateFailureDetector at n, after the last peer, on a snapshot of the  *)
(* table.                                                                  *)

Overdue(e, ticks) == now - e.hb > ticks

\* Mutated form of Verdict: a suspect is never given up.
VerdictPatient(e) ==
    IF e.status = "Alive" /\ Overdue(e, Timeout) THEN "Suspect" ELSE e.status

Verdict(e) ==
    IF e.status = "Alive" /\ Overdue(e, Timeout) THEN "Suspect"
    ELSE IF e.status = "Suspect" /\ Overdue(e, 2 * Timeout) THEN "Dead"
    ELSE e.status

DetectRead(n) ==
    /\ loop[n].pc = "send" /\ loop[n].todo = {}
    /\ loop' = [loop EXCEPT ![n] =
                  IF n # Subject /\ entry[n] # Unknown /\ Verdict(entry[n]) # entry[n].status
                  THEN [Idle EXCEPT !.pc = "mark",
                                    !.put = [entry[n] EXCEPT !.status = Verdict(entry[n])]]
                  ELSE Idle]
    /\ UNCHANGED <<now, life, entry, peers, call, sign>>

\* MarkSuspect or MarkDead: of whatever the entry has become meanwhile only
\* the status changes.
Mark(n) ==
    /\ loop[n].pc = "mark"
    /\ entry' = [entry EXCEPT ![n] = [@ EXCEPT !.status = loop[n].put.status]]
    /\ loop' = [loop EXCEPT ![n] = Idle]
    /\ UNCHANGED <<now, life, peers, call, sign>>

----------------------------------------------------------------------------

Serve(n, m) ==
    \/ HandleRead(n, m) \/ HandleWrite(n, m) \/ HandleAnswer(n, m)
    \/ LoseCall(n, m)

Gossiping(n) ==
    \/ GossipCycle(n) \/ ReplyWrite(n) \/ DetectRead(n) \/ Mark(n)
    \/ \E m \in Node : SendGossip(n, m) \/ ReplyRead(n, m) \/ GiveUp(n, m)

Heartbeat(n) ==
    \/ SendBeat(n) \/ BeatSubject(n) \/ HandleHeartbeat(n) \/ LoseBeat(n)

Next ==
    \/ Tick \/ Crash \/ Restart \/ Start \/ SelfBeat
    \/ \E n \in Node :
         \/ Heartbeat(n)
         \/ Gossiping(n)
         \/ \E m \in Node : Serve(n, m)

\* The clock advances, a process that runs starts its cluster manager unless it
\* ends, the goroutines of a running node keep running, and of
\* the gossip requests between two nodes not all are lost for ever.  Nothing
\* is asked of heartbeats: a node sends them only to nodes it holds alive.
Fairness ==
    /\ WF_vars(Tick) /\ WF_vars(Start) /\ WF_vars(SelfBeat)
    /\ \A n \in Node :
         /\ WF_vars(Gossiping(n))
         /\ \A m \in Node \ {n} :
              /\ SF_vars(HandleRead(n, m))
              /\ WF_vars(HandleWrite(n, m) \/ HandleAnswer(n, m))

Spec     == Init /\ [][Next]_vars
FairSpec == Spec /\ Fairness

----------------------------------------------------------------------------
(* Properties.                                                             *)

\* Tables, snapshots and the state of every goroutine keep their types.
TypeOK ==
    /\ now \in 1..MaxTime
    /\ up \in BOOLEAN /\ started \in BOOLEAN
    /\ crashes \in 0..MaxCrashes /\ restarts \in 0..MaxRestarts
    /\ entry \in [Node -> Entry] /\ peers \in SUBSET Observer
    /\ loop \in [Node -> [pc : {"idle", "send", "wait", "merge", "mark"},
                          snap : Entry, todo : SUBSET Node, peer : Node \union {Nobody},
                          put : Entry]]
    /\ call \in [Node -> [Node -> [at : {"none", "sent", "merge", "answer", "reply"},
                                   told : Entry]]]
    /\ sign \in [Node -> BOOLEAN]

\* A merge that has read the Subject's own table is about to write there that
\* the Subject is suspect or dead.
Doubted ==
    \/ \E n \in Node : call[n][Subject].at = "merge" /\ call[n][Subject].told.status # "Alive"
    \/ loop[Subject].pc = "merge" /\ loop[Subject].put.status # "Alive"

Assured == started /\ entry[Subject].status = "Alive" /\ ~Doubted

\* A node that has started and holds itself alive, with no merge about to say
\* otherwise, does so until it stops, whatever the others say of it: it keeps
\* its own place in its ring and its next exchange corrects them.  It may start
\* otherwise: a merge that read its table before Manager.Start entered it there
\* can make it dead in its own table afterwards, until its next tick.
SelfAlive == [][Assured /\ up' => Assured']_vars

\* What tables, snapshots and messages hold of the Subject, and the heartbeats
\* in it.
Copies == {e \in Entry : \E n \in Node : \/ e \in {entry[n], loop[n].snap, loop[n].put}
                                       \/ \E m \in Node : e = call[n][m].told}
Heard  == {e.hb : e \in Copies \ {Unknown}}

Silent == ~up /\ \A n \in Node : ~sign[n]

\* Once the Subject has stopped and its last heartbeats have arrived, gossip
\* among the others spreads the newest heartbeat but never makes one: merging
\* in any order, by read and write, leaves the age of the last sign of life
\* as it was.
NoPhantomHeartbeat ==
    [][Silent => \A h \in Heard' : \E g \in Heard : h <= g]_vars

\* A node whose last heartbeat stays older than twice the timeout is held dead
\* in the end (evaluateFailureDetector).
CrashDetected ==
    \A n \in Observer :
        <>[](entry[n] # Unknown /\ Overdue(entry[n], 2 * Timeout))
            => <>[](entry[n] # Unknown /\ entry[n].status = "Dead")

\* A weaker form of CrashDetected: such a node is held dead at least once.
CrashNoticed ==
    \A n \in Observer :
        <>[](entry[n] # Unknown /\ Overdue(entry[n], 2 * Timeout))
            => <>(entry[n] # Unknown /\ entry[n].status = "Dead")

\* A node that runs is held alive by every node again and again, itself
\* included, whatever was lost, however long it was held dead and whatever was
\* merged while it started.
Recovers == \A n \in Node : <>[]up => []<>(entry[n] # Unknown /\ entry[n].status = "Alive")
=============================================================================
