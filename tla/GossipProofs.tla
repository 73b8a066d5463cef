----------------------------- MODULE GossipProofs -----------------------------
(***************************************************************************)
(* Theorems about Gossip, for any number of nodes, crashes and restarts.   *)
(***************************************************************************)
EXTENDS Gossip, TLAPS

Loops == [pc : {"idle", "send", "wait", "merge", "mark"}, snap : Entry, todo : SUBSET Node,
          peer : Node \union {Nobody}, put : Entry]
Calls == [at : {"none", "sent", "merge", "answer", "reply"}, told : Entry]

\* A merged entry waits to be written only where there is one, and the failure
\* detector marks entries of other nodes that are in the table.
Pending ==
    \A n \in Node :
        /\ loop[n].pc = "merge" => loop[n].put \in Known
        /\ loop[n].pc = "mark" => n # Subject /\ loop[n].put \in Known /\ entry[n] \in Known
        /\ \A m \in Node : call[n][m].at = "merge" => call[n][m].told \in Known

\* A stopped process does nothing, and one that has not started yet only serves.
Stopped ==
    /\ started => up
    /\ ~up => peers = {} /\ \A n \in Node : call[n][Subject] = NoCall
    /\ ~started => loop[Subject] = Idle

\* A node that has started is in its own table, and some other node knows it.
Present ==
    /\ started => entry[Subject] \in Known
    /\ \E n \in Observer : entry[n] \in Known

GInv == TypeOK /\ Pending /\ Stopped /\ Present

----------------------------------------------------------------------------

LEMMA Records ==
  /\ Idle \in Loops /\ NoCall \in Calls
  /\ \A s \in Status, h \in 0..MaxTime : [status |-> s, hb |-> h] \in Known
  /\ \A e \in Known : e \in Entry /\ e # Unknown /\ e.status \in Status /\ e.hb \in 0..MaxTime
  /\ \A e \in Entry : e # Unknown => e \in Known
  /\ Unknown \in Entry
BY GossipAssumption DEF Idle, NoCall, Loops, Calls, Known, Entry, Status

\* Merging never invents a heartbeat, and leaves a live entry alive.
LEMMA MergedType ==
  ASSUME NEW mine \in Entry, NEW theirs \in Known
  PROVE  /\ Merged(mine, theirs) \in Known
         /\ Merged(mine, theirs).hb \in {theirs.hb, mine.hb}
         /\ mine = Unknown => Merged(mine, theirs) = theirs
         /\ mine # Unknown /\ mine.status = "Alive" => Merged(mine, theirs).status = "Alive"
<1>1. CASE mine = Unknown
  BY <1>1, Records DEF Merged
<1>2. CASE mine # Unknown
  <2>1. mine \in Known
    BY <1>2, Records
  <2>2. mine.status \in Status /\ mine.hb \in 0..MaxTime /\ theirs.status \in Status /\ theirs.hb \in 0..MaxTime
    BY <2>1, Records
  <2>3. mine.status = "Alive" => ~ (Priority(theirs.status) > Priority(mine.status))
    BY <2>2 DEF Priority, Status
  <2> DEFINE s == IF theirs.hb >= mine.hb /\ Priority(theirs.status) > Priority(mine.status)
                  THEN theirs.status ELSE mine.status
             h == IF theirs.hb > mine.hb THEN theirs.hb ELSE mine.hb
  <2>4. s \in Status /\ h \in 0..MaxTime /\ h \in {theirs.hb, mine.hb}
    BY <2>2
  <2>5. mine.status = "Alive" => s = "Alive"
    BY <2>3
  <2>6. Merged(mine, theirs) = [status |-> s, hb |-> h]
    BY <1>2 DEF Merged
  <2> HIDE DEF s, h
  <2> QED BY <1>2, <2>4, <2>5, <2>6, Records
<1> QED BY <1>1, <1>2

LEMMA GossipInit ==
  ASSUME Init
  PROVE  GInv
<1> USE GossipAssumption
<1>1. PICK seeds \in (SUBSET Observer) \ {{}} :
         entry = [n \in Node |-> IF n = Subject \/ n \in seeds THEN Fresh ELSE Unknown]
  BY DEF Init
<1>2. PICK s \in seeds : s \in Observer
  OBVIOUS
<1>3. Fresh \in Known /\ Fresh.status = "Alive" /\ now \in 1..MaxTime
  BY Records DEF Fresh, Init, Status
<1>4. entry \in [Node -> Entry] /\ entry[Subject] = Fresh /\ entry[s] = Fresh
  BY <1>1, <1>2, <1>3, Records DEF Observer
<1>5. TypeOK
  BY <1>3, <1>4, Records DEF TypeOK, Init, Loops, Calls
<1>6. Pending /\ Stopped
  BY DEF Pending, Stopped, Init, Idle, NoCall
<1> QED BY <1>2, <1>3, <1>4, <1>5, <1>6 DEF GInv, Present

----------------------------------------------------------------------------
(* Steps.                                                                  *)

\* The invariant, taken apart.
LEMMA Facts ==
  ASSUME GInv
  PROVE  /\ now \in 1..MaxTime /\ up \in BOOLEAN /\ started \in BOOLEAN
         /\ entry \in [Node -> Entry] /\ peers \in SUBSET Observer
         /\ loop \in [Node -> Loops] /\ call \in [Node -> [Node -> Calls]]
         /\ sign \in [Node -> BOOLEAN]
         /\ Fresh \in Known /\ Fresh.status = "Alive" /\ Fresh.hb = now
<1>1. now \in 0..MaxTime
  BY GossipAssumption DEF GInv, TypeOK
<1> QED BY <1>1, Records DEF GInv, TypeOK, Loops, Calls, Fresh, Status

\* A step that writes an entry into one table.
LEMMA EntryStep ==
  ASSUME GInv, NEW n \in Node, NEW e \in Known,
         entry' = [entry EXCEPT ![n] = e]
  PROVE  /\ entry' \in [Node -> Entry] /\ entry'[n] = e
         /\ \A m \in Node : entry[m] \in Known => entry'[m] \in Known
         /\ started => entry'[Subject] \in Known
         /\ \E m \in Observer : entry'[m] \in Known
<1>1. entry \in [Node -> Entry] /\ e \in Entry
  BY Facts, Records
<1>2. entry' \in [Node -> Entry] /\ entry'[n] = e
      /\ \A m \in Node : m # n => entry'[m] = entry[m]
  BY <1>1
<1>3. \A m \in Node : entry[m] \in Known => entry'[m] \in Known
  BY <1>2
<1>4. started => entry'[Subject] \in Known
  BY <1>2, GossipAssumption DEF GInv, Present
<1>5. \E m \in Observer : entry'[m] \in Known
  BY <1>3 DEF GInv, Present, Observer
<1> QED BY <1>2, <1>3, <1>4, <1>5

LEMMA ClockStep ==
  ASSUME GInv, Tick \/ Crash \/ Restart \/ Start
  PROVE  GInv'
<1> USE GossipAssumption
<1>1. CASE Tick
  <2>1. TypeOK'
    BY <1>1 DEF Tick, GInv, TypeOK, life
  <2> QED BY <1>1, <2>1 DEF Tick, GInv, Pending, Stopped, Present, life
<1>2. CASE Crash
  <2>1. /\ entry' \in [Node -> Entry]
        /\ \A m \in Observer : entry'[m] = entry[m]
    BY <1>2, Facts, Records DEF Crash, Observer
  <2>2. /\ loop' \in [Node -> Loops] /\ loop'[Subject] = Idle
        /\ \A m \in Observer : loop'[m] = loop[m]
    BY <1>2, Facts, Records DEF Crash, Observer
  <2>3. /\ call' \in [Node -> [Node -> Calls]]
        /\ \A m \in Node : call'[m][Subject] = NoCall
        /\ \A m, k \in Node : call'[m][k] \in {call[m][k], NoCall}
    BY <1>2, Facts, Records DEF Crash
  <2>4. up' = FALSE /\ started' = FALSE /\ peers' = {}
    BY <1>2 DEF Crash
  <2>5. TypeOK'
    <3>1. crashes' \in 0..MaxCrashes
      BY <1>2 DEF Crash, GInv, TypeOK
    <3>2. UNCHANGED <<now, restarts, sign>>
      BY <1>2 DEF Crash
    <3> QED BY <2>1, <2>2, <2>3, <2>4, <3>1, <3>2 DEF GInv, TypeOK, Loops, Calls
  <2>6. Pending'
    <3>1. ASSUME NEW n \in Node
          PROVE  /\ loop'[n].pc = "merge" => loop'[n].put \in Known
                 /\ loop'[n].pc = "mark" => n # Subject /\ loop'[n].put \in Known
                                             /\ entry'[n] \in Known
      BY <2>1, <2>2 DEF GInv, Pending, Observer, Idle
    <3>2. ASSUME NEW n \in Node, NEW m \in Node, call'[n][m].at = "merge"
          PROVE  call'[n][m].told \in Known
      BY <2>3, <3>2 DEF GInv, Pending, NoCall
    <3> QED BY <3>1, <3>2 DEF Pending
  <2>7. Stopped' /\ Present'
    BY <2>1, <2>2, <2>3, <2>4 DEF GInv, Stopped, Present, Observer
  <2> QED BY <2>5, <2>6, <2>7 DEF GInv
<1>3. CASE Restart
  <2>1. TypeOK'
    BY <1>3 DEF Restart, GInv, TypeOK
  <2> QED BY <1>3, <2>1 DEF Restart, GInv, Pending, Stopped, Present
<1>4. CASE Start
  <2> DEFINE e == [status |-> "Alive", hb |-> 0]
  <2>1. e \in Known
    BY Records DEF Status
  <2>2. entry' = [entry EXCEPT ![Subject] = e]
    BY <1>4 DEF Start
  <2> HIDE DEF e
  <2>3. /\ entry' \in [Node -> Entry] /\ entry'[Subject] = e
        /\ \A m \in Node : entry[m] \in Known => entry'[m] \in Known
        /\ \E m \in Observer : entry'[m] \in Known
    BY <2>1, <2>2, EntryStep
  <2>4. TypeOK'
    BY <1>4, <2>3 DEF Start, GInv, TypeOK
  <2>5. Pending' /\ Stopped'
    BY <1>4, <2>3 DEF Start, GInv, Pending, Stopped
  <2>6. Present'
    BY <2>1, <2>3 DEF Present
  <2> QED BY <2>4, <2>5, <2>6 DEF GInv
<1> QED BY <1>1, <1>2, <1>3, <1>4

LEMMA HeartbeatStep ==
  ASSUME GInv, SelfBeat \/ \E n \in Node : Heartbeat(n)
  PROVE  GInv'
<1> USE GossipAssumption
<1>1. ASSUME NEW n \in Node, entry' = [entry EXCEPT ![n] = Fresh], sign' \in [Node -> BOOLEAN],
             UNCHANGED <<now, life, peers, loop, call>>
      PROVE  GInv'
  <2>1. /\ entry' \in [Node -> Entry]
        /\ \A m \in Node : entry[m] \in Known => entry'[m] \in Known
        /\ started => entry'[Subject] \in Known
        /\ \E m \in Observer : entry'[m] \in Known
    BY <1>1, EntryStep, Facts
  <2> QED BY <1>1, <2>1 DEF GInv, TypeOK, Pending, Stopped, Present, life
<1>2. ASSUME sign' \in [Node -> BOOLEAN], peers' \in SUBSET Observer,
             up \/ peers' = peers,
             UNCHANGED <<now, life, entry, loop, call>>
      PROVE  GInv'
  BY <1>2 DEF GInv, TypeOK, Pending, Stopped, Present, life
<1>3. CASE SelfBeat
  BY <1>1, <1>3, Facts DEF SelfBeat
<1>4. ASSUME NEW n \in Node, Heartbeat(n)
      PROVE  GInv'
  <2>1. CASE SendBeat(n)
    BY <1>2, <2>1, Facts DEF SendBeat
  <2>2. CASE BeatSubject(n)
    <3>1. peers' \in SUBSET Observer /\ up
      BY <2>2, Facts DEF BeatSubject, Observer
    <3> QED BY <1>2, <2>2, <3>1, Facts DEF BeatSubject
  <2>3. CASE HandleHeartbeat(n)
    BY <1>1, <2>3, Facts DEF HandleHeartbeat
  <2>4. CASE LoseBeat(n)
    BY <1>2, <2>4, Facts DEF LoseBeat
  <2> QED BY <1>4, <2>1, <2>2, <2>3, <2>4 DEF Heartbeat
<1> QED BY <1>3, <1>4

\* A step that changes only what n's gossip goroutine holds.
LEMMA LoopStep ==
  ASSUME GInv, NEW n \in Node, NEW l \in Loops,
         loop' = [loop EXCEPT ![n] = l],
         UNCHANGED <<now, life, entry, sign>>,
         peers' = peers \/ (up /\ peers' \in SUBSET Observer),
         l.pc = "merge" => l.put \in Known,
         l.pc = "mark" => n # Subject /\ l.put \in Known /\ entry[n] \in Known,
         n = Subject => started,
         call' \in [Node -> [Node -> Calls]],
         \A j, m \in Node : \/ call'[j][m] = call[j][m]
                           \/ call'[j][m] = NoCall
                           \/ ((m = Subject => up) /\ call'[j][m].at = "sent")
  PROVE  GInv'
<1> USE GossipAssumption
<1>1. loop' \in [Node -> Loops] /\ loop'[n] = l
      /\ \A m \in Node : m # n => loop'[m] = loop[m]
  BY Facts
<1>2. peers' \in SUBSET Observer
  BY Facts
<1>3. TypeOK'
  BY <1>1, <1>2 DEF GInv, TypeOK, Loops, Calls, life
<1>4. Pending'
  <2>1. ASSUME NEW k \in Node
        PROVE  /\ loop'[k].pc = "merge" => loop'[k].put \in Known
               /\ loop'[k].pc = "mark" => k # Subject /\ loop'[k].put \in Known /\ entry[k] \in Known
    BY <1>1 DEF GInv, Pending
  <2>2. ASSUME NEW k \in Node, NEW m \in Node, call'[k][m].at = "merge"
        PROVE  call'[k][m].told \in Known
    BY <2>2 DEF GInv, Pending, NoCall
  <2> QED BY <2>1, <2>2 DEF Pending
<1>5. Stopped'
  BY <1>1 DEF GInv, Stopped, life
<1>6. Present'
  BY DEF GInv, Present, life
<1> QED BY <1>3, <1>4, <1>5, <1>6 DEF GInv

\* A goroutine of a stopped node is idle.
LEMMA Awake ==
  ASSUME GInv, NEW n \in Node, loop[n].pc # "idle"
  PROVE  n = Subject => started /\ up
BY DEF GInv, Stopped, Idle

LEMMA Learning ==
  ASSUME GInv, NEW n \in Node, n = Subject => up
  PROVE  Learned(n) = peers \/ (up /\ Learned(n) \in SUBSET Observer)
BY DEF Learned

LEMMA GossipingStep ==
  ASSUME GInv, NEW n \in Node, Gossiping(n)
  PROVE  GInv'
<1> USE GossipAssumption
<1>1. loop[n] \in Loops /\ entry[n] \in Entry /\ Peers(n) \in SUBSET Node
  BY Facts DEF Peers, Observer
<1>2. CASE GossipCycle(n)
  <2> DEFINE l == [Idle EXCEPT !.pc = "send", !.snap = entry[n], !.todo = Peers(n)]
  <2>1. l \in Loops /\ l.pc = "send"
    BY <1>1, Records DEF Idle, Loops
  <2>2. loop' = [loop EXCEPT ![n] = l] /\ (n = Subject => started)
    BY <1>2 DEF GossipCycle, Running
  <2> HIDE DEF l
  <2> QED BY <1>2, <2>1, <2>2, LoopStep, Facts DEF GossipCycle
<1>3. CASE ReplyWrite(n)
  <2> DEFINE l == [loop[n] EXCEPT !.pc = "send", !.put = Unknown]
  <2>1. l \in Loops /\ l.pc = "send"
    BY <1>1, Records DEF Loops
  <2>2. loop' = [loop EXCEPT ![n] = l] /\ loop[n].pc = "merge"
    BY <1>1, <1>3 DEF ReplyWrite, Loops
  <2> HIDE DEF l
  <2>3. /\ loop' \in [Node -> Loops] /\ loop'[n] = l
        /\ \A m \in Node : m # n => loop'[m] = loop[m]
    BY <2>1, <2>2, Facts
  <2>4. loop[n].put \in Known
    BY <2>2 DEF GInv, Pending
  <2>5. /\ entry' \in [Node -> Entry]
        /\ \A m \in Node : entry[m] \in Known => entry'[m] \in Known
        /\ started => entry'[Subject] \in Known
        /\ \E m \in Observer : entry'[m] \in Known
    BY <1>3, <2>4, EntryStep DEF ReplyWrite
  <2>6. UNCHANGED <<now, life, peers, call, sign>>
    BY <1>3 DEF ReplyWrite
  <2>7. TypeOK'
    BY <2>3, <2>5, <2>6 DEF GInv, TypeOK, Loops, life
  <2>8. n = Subject => started /\ up
    BY <2>2, Awake
  <2>9. Pending' /\ Stopped'
    BY <2>1, <2>3, <2>5, <2>6, <2>8 DEF GInv, Pending, Stopped, life
  <2>10. Present'
    BY <2>5, <2>6 DEF Present, life
  <2> QED BY <2>7, <2>9, <2>10 DEF GInv
<1>4. CASE DetectRead(n)
  <2> DEFINE news == n # Subject /\ entry[n] # Unknown /\ Verdict(entry[n]) # entry[n].status
             e == [entry[n] EXCEPT !.status = Verdict(entry[n])]
             l == IF news THEN [Idle EXCEPT !.pc = "mark", !.put = e] ELSE Idle
  <2>1. news => entry[n] \in Known /\ e \in Known
    <3>1. entry[n] # Unknown => entry[n] \in Known /\ entry[n].status \in Status
      BY <1>1, Records
    <3>2. entry[n] # Unknown => Verdict(entry[n]) \in Status
      BY <3>1 DEF Verdict, Status
    <3> QED BY <3>1, <3>2 DEF Known
  <2> HIDE DEF e
  <2>2. l \in Loops /\ l.pc # "merge" /\ (l.pc = "mark" => news /\ l.put = e)
    BY <2>1, Records DEF Idle, Loops
  <2>3. loop' = [loop EXCEPT ![n] = l] /\ (n = Subject => started /\ up)
    BY <1>4, Awake DEF DetectRead, e
  <2> HIDE DEF l
  <2> QED BY <1>4, <2>1, <2>2, <2>3, LoopStep, Facts DEF DetectRead
<1>5. CASE Mark(n)
  <2> DEFINE e == [entry[n] EXCEPT !.status = loop[n].put.status]
  <2>1. n # Subject /\ loop[n].put \in Known /\ entry[n] \in Known
    BY <1>5 DEF Mark, GInv, Pending
  <2>2. e \in Known
    BY <2>1, Records DEF Known
  <2>3. entry' = [entry EXCEPT ![n] = e]
    BY <1>5, Facts DEF Mark
  <2> HIDE DEF e
  <2>4. /\ entry' \in [Node -> Entry]
        /\ \A m \in Node : entry[m] \in Known => entry'[m] \in Known
        /\ started => entry'[Subject] \in Known
        /\ \E m \in Observer : entry'[m] \in Known
    BY <2>1, <2>2, <2>3, EntryStep
  <2>5. /\ loop' \in [Node -> Loops] /\ loop'[n] = Idle
        /\ \A m \in Node : m # n => loop'[m] = loop[m]
    BY <1>5, Facts, Records DEF Mark
  <2>6. UNCHANGED <<now, life, peers, call, sign>>
    BY <1>5 DEF Mark
  <2>7. TypeOK'
    BY <2>4, <2>5, <2>6 DEF GInv, TypeOK, Loops, life
  <2>8. Pending' /\ Stopped'
    BY <2>1, <2>4, <2>5, <2>6 DEF GInv, Pending, Stopped, Idle, life
  <2>9. Present'
    BY <2>4, <2>6 DEF Present, life
  <2> QED BY <2>7, <2>8, <2>9 DEF GInv
<1>6. ASSUME NEW m \in Node, SendGossip(n, m)
      PROVE  GInv'
  <2>1. (n = Subject => started /\ up) /\ loop[n].pc = "send"
    BY <1>6, Awake DEF SendGossip
  <2>2. NextPeer(n, m) \in Loops /\ NextPeer(n, m).pc = "send"
    BY <1>1, <2>1, Records DEF NextPeer, Loops
  <2>3. CASE Serving(m)
    <3> DEFINE l == [NextPeer(n, m) EXCEPT !.pc = "wait", !.peer = m]
               c == [at |-> "sent", told |-> loop[n].snap]
    <3>1. l \in Loops /\ l.pc = "wait" /\ c \in Calls /\ c.at = "sent"
      BY <1>1, <2>2 DEF Loops, Calls
    <3>2. loop' = [loop EXCEPT ![n] = l] /\ call' = [call EXCEPT ![n][m] = c]
      BY <1>6, <2>3 DEF SendGossip
    <3> HIDE DEF l, c
    <3>3. /\ call' \in [Node -> [Node -> Calls]] /\ call'[n][m] = c
          /\ \A j, k \in Node : call'[j][k] = call[j][k] \/ (j = n /\ k = m)
      BY <3>1, <3>2, Facts
    <3>4. \A j, k \in Node : \/ call'[j][k] = call[j][k]
                            \/ call'[j][k] = NoCall
                            \/ ((k = Subject => up) /\ call'[j][k].at = "sent")
      BY <2>3, <3>1, <3>3 DEF Serving
    <3> QED BY <1>6, <2>1, <3>1, <3>2, <3>3, <3>4, LoopStep DEF SendGossip
  <2>4. CASE ~Serving(m)
    <3>1. loop' = [loop EXCEPT ![n] = NextPeer(n, m)] /\ call' = call
      BY <1>6, <2>4 DEF SendGossip
    <3> QED BY <1>6, <2>1, <2>2, <3>1, LoopStep, Facts DEF SendGossip
  <2> QED BY <2>3, <2>4
<1>7. ASSUME NEW m \in Node, ReplyRead(n, m)
      PROVE  GInv'
  <2>1. (n = Subject => started /\ up) /\ loop[n].pc = "wait"
    BY <1>7, Awake DEF ReplyRead, Waiting
  <2> DEFINE told == call[n][m].told
             e == Merged(entry[n], told)
             l == IF NoNews(entry[n], told) THEN [loop[n] EXCEPT !.pc = "send", !.peer = Nobody]
                  ELSE [loop[n] EXCEPT !.pc = "merge", !.peer = Nobody, !.put = e]
  <2>2. told \in Entry /\ call[n][m] \in Calls
    BY Facts DEF Calls
  <2>3. ~NoNews(entry[n], told) => e \in Known
    <3>1. ~NoNews(entry[n], told) => told \in Known
      BY <2>2, Records DEF NoNews
    <3> QED BY <1>1, <3>1, MergedType
  <2>4. loop' = [loop EXCEPT ![n] = l]
    BY <1>7 DEF ReplyRead
  <2> HIDE DEF e, told
  <2>5. l \in Loops /\ l.pc # "mark"
        /\ (l.pc = "merge" => l.put \in Known)
    BY <1>1, <2>3, Records DEF Loops
  <2> HIDE DEF l
  <2>6. /\ call' \in [Node -> [Node -> Calls]]
        /\ \A j, k \in Node : call'[j][k] = call[j][k] \/ call'[j][k] = NoCall
    BY <1>7, Facts, Records DEF ReplyRead
  <2>7. peers' = peers \/ (up /\ peers' \in SUBSET Observer)
    BY <1>7, <2>1, Learning DEF ReplyRead
  <2>8. UNCHANGED <<now, life, entry, sign>>
    BY <1>7 DEF ReplyRead
  <2>9. \A j, k \in Node : call'[j][k] = call[j][k] \/ call'[j][k] = NoCall
                            \/ ((k = Subject => up) /\ call'[j][k].at = "sent")
    BY <2>6
  <2> QED BY <2>1, <2>4, <2>5, <2>6, <2>7, <2>8, <2>9, LoopStep
<1>8. ASSUME NEW m \in Node, GiveUp(n, m)
      PROVE  GInv'
  <2> DEFINE l == [loop[n] EXCEPT !.pc = "send", !.peer = Nobody]
  <2>1. l \in Loops /\ l.pc = "send"
    BY <1>1 DEF Loops
  <2>2. loop' = [loop EXCEPT ![n] = l] /\ (n = Subject => started /\ up)
    BY <1>1, <1>8, Awake DEF GiveUp, Waiting, Loops
  <2>3. /\ call' \in [Node -> [Node -> Calls]]
        /\ \A j, k \in Node : call'[j][k] = call[j][k] \/ call'[j][k] = NoCall
    BY <1>8, Facts, Records DEF GiveUp
  <2> HIDE DEF l
  <2> QED BY <1>8, <2>1, <2>2, <2>3, LoopStep DEF GiveUp
<1> QED BY <1>2, <1>3, <1>4, <1>5, <1>6, <1>7, <1>8 DEF Gossiping

\* A step that changes only a request and what the Subject knows.
LEMMA CallStep ==
  ASSUME GInv, NEW n \in Node, NEW m \in Node, NEW c \in Calls,
         call' = [call EXCEPT ![n][m] = c],
         UNCHANGED <<now, life, entry, loop, sign>>,
         peers' = peers \/ (up /\ peers' \in SUBSET Observer),
         c.at = "merge" => c.told \in Known,
         m = Subject => up \/ c = NoCall
  PROVE  GInv'
<1> USE GossipAssumption
<1>1. /\ call' \in [Node -> [Node -> Calls]] /\ call'[n][m] = c
      /\ \A j, k \in Node : call'[j][k] = call[j][k] \/ (j = n /\ k = m)
  BY Facts
<1>2. peers' \in SUBSET Observer
  BY Facts
<1>3. TypeOK'
  BY <1>1, <1>2 DEF GInv, TypeOK, Loops, Calls, life
<1>4. Pending'
  BY <1>1 DEF GInv, Pending
<1>5. Stopped'
  BY <1>1 DEF GInv, Stopped, life
<1>6. Present'
  BY DEF GInv, Present, life
<1> QED BY <1>3, <1>4, <1>5, <1>6 DEF GInv

LEMMA ServeStep ==
  ASSUME GInv, NEW n \in Node, NEW m \in Node, Serve(n, m)
  PROVE  GInv'
<1> USE GossipAssumption
<1>1. call[n][m] \in Calls /\ entry[m] \in Entry /\ NoCall \in Calls
  BY Facts, Records
<1>2. call[n][m].at # "none" => (m = Subject => up)
  BY DEF GInv, Stopped, NoCall
<1>3. CASE HandleRead(n, m)
  <2> DEFINE told == call[n][m].told
             e == Merged(entry[m], told)
             c == IF NoNews(entry[m], told) THEN [at |-> "answer", told |-> Unknown]
                  ELSE [at |-> "merge", told |-> e]
  <2>1. told \in Entry /\ (m = Subject => up)
    BY <1>1, <1>2, <1>3 DEF HandleRead, Calls
  <2>2. ~NoNews(entry[m], told) => e \in Known
    <3>1. ~NoNews(entry[m], told) => told \in Known
      BY <2>1, Records DEF NoNews
    <3> QED BY <1>1, <3>1, MergedType
  <2>3. call' = [call EXCEPT ![n][m] = c]
    BY <1>3, Facts DEF HandleRead
  <2> HIDE DEF e, told
  <2>4. c \in Calls /\ (c.at = "merge" => c.told \in Known)
    BY <2>2, Records DEF Calls
  <2> HIDE DEF c
  <2>5. peers' = peers \/ (up /\ peers' \in SUBSET Observer)
    BY <1>3, <2>1, Learning DEF HandleRead
  <2> QED BY <1>3, <2>1, <2>3, <2>4, <2>5, CallStep DEF HandleRead
<1>4. CASE HandleWrite(n, m)
  <2> DEFINE c == [at |-> "answer", told |-> Unknown]
  <2>1. c \in Calls /\ c.at = "answer"
    BY Records DEF Calls
  <2>2. call' = [call EXCEPT ![n][m] = c]
    BY <1>4 DEF HandleWrite
  <2> HIDE DEF c
  <2>3. /\ call' \in [Node -> [Node -> Calls]] /\ call'[n][m] = c
        /\ \A j, k \in Node : call'[j][k] = call[j][k] \/ (j = n /\ k = m)
    BY <2>1, <2>2, Facts
  <2>4. call[n][m].told \in Known /\ (m = Subject => up)
    BY <1>2, <1>4 DEF HandleWrite, GInv, Pending
  <2>5. /\ entry' \in [Node -> Entry]
        /\ \A k \in Node : entry[k] \in Known => entry'[k] \in Known
        /\ started => entry'[Subject] \in Known
        /\ \E k \in Observer : entry'[k] \in Known
    BY <1>4, <2>4, EntryStep DEF HandleWrite
  <2>6. UNCHANGED <<now, life, peers, loop, sign>>
    BY <1>4 DEF HandleWrite
  <2>7. TypeOK'
    BY <2>3, <2>5, <2>6 DEF GInv, TypeOK, Calls, life
  <2>8. Pending'
    BY <2>1, <2>3, <2>5, <2>6 DEF GInv, Pending
  <2>9. Stopped'
    BY <2>3, <2>4, <2>6 DEF GInv, Stopped, life
  <2>10. Present'
    BY <2>5, <2>6 DEF Present, life
  <2> QED BY <2>7, <2>8, <2>9, <2>10 DEF GInv
<1>5. CASE HandleAnswer(n, m)
  <2> DEFINE c == IF Waiting(n, m) THEN [at |-> "reply", told |-> entry[m]] ELSE NoCall
  <2>1. c \in Calls /\ c.at # "merge"
    BY <1>1 DEF Calls, NoCall
  <2>2. call' = [call EXCEPT ![n][m] = c] /\ (m = Subject => up)
    BY <1>2, <1>5 DEF HandleAnswer
  <2> HIDE DEF c
  <2> QED BY <1>5, <2>1, <2>2, CallStep DEF HandleAnswer
<1>6. CASE LoseCall(n, m)
  BY <1>1, <1>6, CallStep DEF LoseCall, NoCall
<1> QED BY <1>3, <1>4, <1>5, <1>6 DEF Serve

LEMMA GossipStep ==
  ASSUME GInv, [Next]_vars
  PROVE  GInv'
<1>1. CASE Next
  BY <1>1, ClockStep, HeartbeatStep, GossipingStep, ServeStep DEF Next
<1>2. CASE UNCHANGED vars
  BY <1>2 DEF vars, GInv, TypeOK, Pending, Stopped, Present, life
<1> QED BY <1>1, <1>2

\* Tables, snapshots and the state of every goroutine keep their types in
\* every reachable state.
THEOREM TypeCorrect == Spec => []TypeOK
<1>1. Spec => []GInv
  BY GossipInit, GossipStep, PTL DEF Spec
<1>2. GInv => TypeOK
  BY DEF GInv
<1> QED BY <1>1, <1>2, PTL

\* Whoever reads the table of a node that is assured merges into a live entry.
LEMMA MergesAlive ==
  ASSUME GInv, Assured, NEW told \in Entry, ~NoNews(entry[Subject], told)
  PROVE  Merged(entry[Subject], told).status = "Alive"
<1>1. entry[Subject] \in Known /\ entry[Subject].status = "Alive"
  BY DEF GInv, Present, Assured
<1>2. entry[Subject] \in Entry /\ entry[Subject] # Unknown /\ told \in Known
  BY <1>1, Records DEF NoNews
<1> QED BY <1>1, <1>2, MergedType

LEMMA AssuredStep ==
  ASSUME GInv, Next, Assured, up'
  PROVE  Assured'
<1> USE GossipAssumption
<1>1. /\ started /\ up /\ entry[Subject].status = "Alive" /\ entry[Subject] \in Known
      /\ loop[Subject].pc = "merge" => loop[Subject].put.status = "Alive"
      /\ \A k \in Node : call[k][Subject].at = "merge" => call[k][Subject].told.status = "Alive"
  BY DEF Assured, Doubted, GInv, Stopped, Present
<1>2. /\ entry \in [Node -> Entry] /\ loop \in [Node -> Loops] /\ call \in [Node -> [Node -> Calls]]
      /\ Fresh.status = "Alive" /\ Idle.pc = "idle" /\ NoCall.at = "none"
  BY Facts DEF Idle, NoCall
<1>3. SUFFICES /\ started' /\ entry'[Subject].status = "Alive"
               /\ loop'[Subject].pc = "merge" => loop'[Subject].put.status = "Alive"
               /\ \A k \in Node : call'[k][Subject].at = "merge" => call'[k][Subject].told.status = "Alive"
  BY DEF Assured, Doubted
<1>4. CASE Tick \/ Crash \/ Restart \/ Start
  BY <1>1, <1>4 DEF Tick, Crash, Restart, Start, life
<1>5. CASE SelfBeat
  BY <1>1, <1>2, <1>5 DEF SelfBeat, life
<1>6. ASSUME NEW n \in Node, Heartbeat(n)
      PROVE  started' /\ loop' = loop /\ call' = call /\ entry'[Subject].status = "Alive"
  BY <1>1, <1>2, <1>6 DEF Heartbeat, SendBeat, BeatSubject, HandleHeartbeat, LoseBeat, life
<1>7. ASSUME NEW n \in Node, Gossiping(n)
      PROVE  /\ started' /\ entry'[Subject].status = "Alive"
             /\ loop'[Subject].pc = "merge" => loop'[Subject].put.status = "Alive"
             /\ \A k \in Node : call'[k][Subject].at = "merge" => call'[k][Subject].told.status = "Alive"
  <2>1. CASE GossipCycle(n) \/ DetectRead(n)
    <3>1. loop'[Subject].pc # "merge" \/ loop'[Subject] = loop[Subject]
      BY <1>2, <2>1 DEF GossipCycle, DetectRead, Idle
    <3> QED BY <1>1, <2>1, <3>1 DEF GossipCycle, DetectRead, life
  <2>2. CASE ReplyWrite(n)
    <3>1. loop'[Subject].pc # "merge" \/ loop'[Subject] = loop[Subject]
      <4>1. loop[n] \in Loops /\ loop' = [loop EXCEPT ![n] = [loop[n] EXCEPT !.pc = "send", !.put = Unknown]]
        BY <1>2, <2>2 DEF ReplyWrite
      <4> QED BY <1>2, <4>1 DEF Loops
    <3>2. entry'[Subject] = entry[Subject] \/ (n = Subject /\ entry'[Subject] = loop[Subject].put)
      BY <1>2, <2>2 DEF ReplyWrite
    <3> QED BY <1>1, <2>2, <3>1, <3>2 DEF ReplyWrite, life
  <2>3. CASE Mark(n)
    <3>1. n # Subject
      BY <2>3 DEF Mark, GInv, Pending
    <3> QED BY <1>1, <1>2, <2>3, <3>1 DEF Mark, life
  <2>4. ASSUME NEW m \in Node, SendGossip(n, m) \/ GiveUp(n, m)
        PROVE  /\ started' /\ entry' = entry
               /\ loop'[Subject].pc = "merge" => loop'[Subject].put.status = "Alive"
               /\ \A k \in Node : call'[k][Subject].at = "merge" => call'[k][Subject].told.status = "Alive"
    <3>1. NextPeer(n, m).pc = loop[n].pc /\ NextPeer(n, m) \in Loops
      <4>1. loop[n] \in Loops
        BY <1>2
      <4> QED BY <4>1, Records DEF NextPeer, Loops
    <3>2. loop'[Subject].pc # "merge" \/ loop'[Subject] = loop[Subject]
      <4>1. CASE SendGossip(n, m)
        <5> DEFINE l == NextPeer(n, m)
        <5>1. loop[n].pc = "send" /\ l.pc = "send" /\ l \in Loops
          BY <3>1, <4>1 DEF SendGossip
        <5>2. loop' = [loop EXCEPT ![n] = [l EXCEPT !.pc = "wait", !.peer = m]] \/ loop' = [loop EXCEPT ![n] = l]
          BY <4>1 DEF SendGossip
        <5> HIDE DEF l
        <5>3. [l EXCEPT !.pc = "wait", !.peer = m].pc = "wait"
          BY <5>1 DEF Loops
        <5> QED BY <1>2, <5>1, <5>2, <5>3
      <4>2. CASE GiveUp(n, m)
        <5>1. loop[n] \in Loops
          BY <1>2
        <5>2. loop' = [loop EXCEPT ![n] = [loop[n] EXCEPT !.pc = "send", !.peer = Nobody]]
          BY <1>2, <4>2 DEF GiveUp
        <5> QED BY <1>2, <5>1, <5>2 DEF Loops
      <4> QED BY <2>4, <4>1, <4>2
    <3>3. \A k \in Node : call'[k][Subject].at # "merge" \/ call'[k][Subject] = call[k][Subject]
      BY <1>2, <2>4 DEF SendGossip, GiveUp
    <3> QED BY <1>1, <2>4, <3>2, <3>3 DEF SendGossip, GiveUp, life
  <2>5. ASSUME NEW m \in Node, ReplyRead(n, m)
        PROVE  /\ started' /\ entry' = entry
               /\ loop'[Subject].pc = "merge" => loop'[Subject].put.status = "Alive"
               /\ \A k \in Node : call'[k][Subject].at = "merge" => call'[k][Subject].told.status = "Alive"
    <3> DEFINE told == call[n][m].told
    <3>1. told \in Entry
      BY <1>2 DEF Calls
    <3>2. \A k \in Node : call'[k][Subject].at # "merge" \/ call'[k][Subject] = call[k][Subject]
      BY <1>2, <2>5 DEF ReplyRead
    <3>3. loop'[Subject].pc = "merge" =>
             \/ loop'[Subject] = loop[Subject]
             \/ /\ ~NoNews(entry[Subject], told)
                /\ loop'[Subject].put = Merged(entry[Subject], told)
      <4>1. n # Subject => loop'[Subject] = loop[Subject]
        BY <1>2, <2>5 DEF ReplyRead
      <4>2. loop[n] \in Loops
        BY <1>2
      <4>3. n = Subject => loop'[Subject] =
               IF NoNews(entry[n], told) THEN [loop[n] EXCEPT !.pc = "send", !.peer = Nobody]
               ELSE [loop[n] EXCEPT !.pc = "merge", !.peer = Nobody, !.put = Merged(entry[n], told)]
        BY <1>2, <2>5 DEF ReplyRead
      <4> HIDE DEF told
      <4> QED BY <4>1, <4>2, <4>3 DEF Loops
    <3> HIDE DEF told
    <3> QED BY <1>1, <2>5, <3>1, <3>2, <3>3, MergesAlive DEF ReplyRead, life
  <2> QED BY <1>1, <1>7, <2>1, <2>2, <2>3, <2>4, <2>5 DEF Gossiping
<1>8. ASSUME NEW n \in Node, NEW m \in Node, Serve(n, m)
      PROVE  /\ started' /\ entry'[Subject].status = "Alive" /\ loop' = loop
             /\ \A k \in Node : call'[k][Subject].at = "merge" => call'[k][Subject].told.status = "Alive"
  <2>1. CASE HandleRead(n, m)
    <3> DEFINE told == call[n][m].told
    <3>1. told \in Entry
      BY <1>2 DEF Calls
    <3>2. \A k \in Node : \/ call'[k][Subject].at # "merge"
                          \/ call'[k][Subject] = call[k][Subject]
                          \/ /\ ~NoNews(entry[Subject], told)
                             /\ call'[k][Subject].told = Merged(entry[Subject], told)
      BY <1>2, <2>1 DEF HandleRead
    <3> HIDE DEF told
    <3> QED BY <1>1, <2>1, <3>1, <3>2, MergesAlive DEF HandleRead, life
  <2>2. CASE HandleWrite(n, m)
    <3>1. \A k \in Node : call'[k][Subject].at # "merge" \/ call'[k][Subject] = call[k][Subject]
      BY <1>2, <2>2 DEF HandleWrite
    <3>2. entry'[Subject] = entry[Subject] \/ (m = Subject /\ entry'[Subject] = call[n][m].told)
      BY <1>2, <2>2 DEF HandleWrite
    <3> QED BY <1>1, <2>2, <3>1, <3>2 DEF HandleWrite, life
  <2>3. CASE HandleAnswer(n, m) \/ LoseCall(n, m)
    <3>1. \A k \in Node : call'[k][Subject].at # "merge" \/ call'[k][Subject] = call[k][Subject]
      BY <1>2, <2>3 DEF HandleAnswer, LoseCall
    <3> QED BY <1>1, <2>3, <3>1 DEF HandleAnswer, LoseCall, life
  <2> QED BY <1>8, <2>1, <2>2, <2>3 DEF Serve
<1> QED BY <1>1, <1>4, <1>5, <1>6, <1>7, <1>8 DEF Next

\* No exchange with the others, in any order, makes a node that holds itself
\* alive, with no merge about to say otherwise, hold itself suspect or dead.
THEOREM NeverSelfDead == Spec => SelfAlive
<1>1. Spec => []GInv
  BY GossipInit, GossipStep, PTL DEF Spec
<1>2. ASSUME GInv, [Next]_vars
      PROVE  [Assured /\ up' => Assured']_vars
  BY <1>2, AssuredStep
<1> QED BY <1>1, <1>2, PTL DEF Spec, SelfAlive

----------------------------------------------------------------------------
(* Heartbeats that nobody sent.                                            *)

\* Some copy is at least as recent as e.
Heeded(e) == e # Unknown => \E d \in Copies : d # Unknown /\ e.hb <= d.hb

LEMMA CopiesKnown ==
  ASSUME GInv
  PROVE  /\ Copies \subseteq Entry
         /\ \A n \in Node : {entry[n], loop[n].snap, loop[n].put} \subseteq Copies
         /\ \A n, m \in Node : call[n][m].told \in Copies
         /\ \A e \in Copies : Heeded(e)
         /\ Heeded(Unknown)
         /\ \A e \in Known : e.hb = 0 => Heeded(e)
<1>1. /\ \A n \in Node : loop[n] \in Loops /\ entry[n] \in Entry
      /\ \A n, m \in Node : call[n][m] \in Calls
  BY Facts
<1>2. \A n \in Node : {entry[n], loop[n].snap, loop[n].put} \subseteq Copies
  BY <1>1 DEF Copies, Loops
<1>3. \A n, m \in Node : call[n][m].told \in Copies
  BY <1>1 DEF Copies, Calls
<1>4. Copies \subseteq Entry
  BY DEF Copies
<1>5. \A e \in Entry : e # Unknown => e.hb \in Nat
  BY Records
<1>6. \A e \in Copies : Heeded(e)
  BY <1>4, <1>5 DEF Heeded
<1>7. \A e \in Known : e.hb = 0 => Heeded(e)
  <2>1. PICK n \in Observer : entry[n] \in Known
    BY DEF GInv, Present
  <2>2. entry[n] \in Copies /\ entry[n] # Unknown /\ entry[n].hb \in Nat
    BY <1>2, <2>1, Records DEF Observer
  <2> QED BY <2>2 DEF Heeded
<1> QED BY <1>2, <1>3, <1>4, <1>6, <1>7 DEF Heeded

LEMMA MergedHeeded ==
  ASSUME GInv, NEW mine \in Copies, NEW theirs \in Copies, ~NoNews(mine, theirs)
  PROVE  Heeded(Merged(mine, theirs))
<1>1. mine \in Entry /\ theirs \in Known
  BY CopiesKnown, Records DEF NoNews
<1>2. Merged(mine, theirs).hb \in {theirs.hb, mine.hb}
      /\ (mine = Unknown => Merged(mine, theirs) = theirs)
  BY <1>1, MergedType
<1>3. Heeded(theirs) /\ Heeded(mine) /\ theirs # Unknown
  BY <1>1, CopiesKnown, Records
<1> QED BY <1>2, <1>3 DEF Heeded

\* While the Subject is silent every step leaves only what is heeded.
LEMMA SilentStep ==
  ASSUME GInv, Silent, Next
  PROVE  /\ \A k \in Node : Heeded(entry'[k]) /\ Heeded(loop'[k].snap) /\ Heeded(loop'[k].put)
         /\ \A j, k \in Node : Heeded(call'[j][k].told)
<1> USE GossipAssumption
<1>0. /\ \A k \in Node : Heeded(entry[k]) /\ Heeded(loop[k].snap) /\ Heeded(loop[k].put)
      /\ \A j, k \in Node : Heeded(call[j][k].told)
  BY CopiesKnown
<1>1. /\ entry \in [Node -> Entry] /\ loop \in [Node -> Loops] /\ call \in [Node -> [Node -> Calls]]
      /\ ~up /\ ~started /\ peers = {} /\ \A k \in Node : ~sign[k]
  BY Facts DEF Silent, GInv, Stopped
<1>2. Heeded(Unknown) /\ Idle.snap = Unknown /\ Idle.put = Unknown /\ NoCall.told = Unknown
  BY CopiesKnown DEF Idle, NoCall
<1>3. CASE Tick
  BY <1>0, <1>3 DEF Tick
<1>4. CASE Restart
  BY <1>0, <1>4 DEF Restart
<1>5. ASSUME NEW n \in Node, Gossiping(n)
      PROVE  /\ \A k \in Node : Heeded(entry'[k]) /\ Heeded(loop'[k].snap) /\ Heeded(loop'[k].put)
             /\ \A j, k \in Node : Heeded(call'[j][k].told)
  <2>1. CASE GossipCycle(n)
    <3>1. \A k \in Node : \/ loop'[k] = loop[k]
                          \/ loop'[k].snap = entry[n] /\ loop'[k].put = Unknown
      BY <1>1, <2>1 DEF GossipCycle, Idle
    <3> QED BY <1>0, <1>2, <2>1, <3>1 DEF GossipCycle
  <2>2. CASE ReplyWrite(n)
    <3>1. \A k \in Node : \/ loop'[k] = loop[k]
                          \/ loop'[k].snap = loop[k].snap /\ loop'[k].put = Unknown
      BY <1>1, <2>2 DEF ReplyWrite, Loops
    <3>2. \A k \in Node : entry'[k] = entry[k] \/ entry'[k] = loop[n].put
      BY <1>1, <2>2 DEF ReplyWrite
    <3> QED BY <1>0, <1>2, <2>2, <3>1, <3>2 DEF ReplyWrite
  <2>3. CASE DetectRead(n)
    <3> DEFINE e == [entry[n] EXCEPT !.status = Verdict(entry[n])]
    <3>1. entry[n] # Unknown => Heeded(e)
      <4>1. entry[n] # Unknown => e.hb = entry[n].hb
        BY <1>1, Records DEF Known
      <4> QED BY <1>0, <4>1 DEF Heeded
    <3>2. \A k \in Node : \/ loop'[k] = loop[k]
                          \/ loop'[k].snap = Unknown /\ loop'[k].put = Unknown
                          \/ entry[n] # Unknown /\ loop'[k].snap = Unknown /\ loop'[k].put = e
      BY <1>1, <2>3 DEF DetectRead, Idle
    <3> HIDE DEF e
    <3> QED BY <1>0, <1>2, <2>3, <3>1, <3>2 DEF DetectRead
  <2>4. CASE Mark(n)
    <3> DEFINE e == [entry[n] EXCEPT !.status = loop[n].put.status]
    <3>1. Heeded(e)
      <4>1. entry[n] \in Known
        BY <2>4 DEF Mark, GInv, Pending
      <4>2. e.hb = entry[n].hb /\ entry[n] # Unknown
        BY <4>1, Records DEF Known
      <4> QED BY <1>0, <4>2 DEF Heeded
    <3>2. \A k \in Node : entry'[k] = entry[k] \/ entry'[k] = e
      BY <1>1, <2>4 DEF Mark
    <3> HIDE DEF e
    <3>3. \A k \in Node : \/ loop'[k] = loop[k]
                          \/ loop'[k].snap = Unknown /\ loop'[k].put = Unknown
      BY <1>1, <2>4 DEF Mark, Idle
    <3> QED BY <1>0, <1>2, <2>4, <3>1, <3>2, <3>3 DEF Mark
  <2>5. ASSUME NEW m \in Node, SendGossip(n, m)
        PROVE  /\ \A k \in Node : Heeded(entry'[k]) /\ Heeded(loop'[k].snap) /\ Heeded(loop'[k].put)
               /\ \A j, k \in Node : Heeded(call'[j][k].told)
    <3> DEFINE l == NextPeer(n, m)
    <3>1. loop[n] \in Loops
      BY <1>1
    <3>2. (l.snap = Unknown \/ l.snap = loop[n].snap) /\ l.put = loop[n].put /\ l \in Loops
      BY <3>1, Records DEF NextPeer, Loops
    <3>3. \/ loop' = [loop EXCEPT ![n] = l]
          \/ loop' = [loop EXCEPT ![n] = [l EXCEPT !.pc = "wait", !.peer = m]]
      BY <2>5 DEF SendGossip
    <3> HIDE DEF l
    <3>4. \A k \in Node : \/ loop'[k] = loop[k]
                          \/ loop'[k].snap = l.snap /\ loop'[k].put = l.put
      <4> DEFINE w == [l EXCEPT !.pc = "wait", !.peer = m]
      <4>1. w.snap = l.snap /\ w.put = l.put
        BY <3>2 DEF Loops
      <4> HIDE DEF w
      <4>2. \A k \in Node : loop'[k] \in {loop[k], l, w}
        BY <1>1, <3>3 DEF w
      <4> QED BY <4>1, <4>2
    <3>5. \A j, k \in Node : \/ call'[j][k] = call[j][k]
                             \/ call'[j][k].told = loop[n].snap
      BY <1>1, <2>5 DEF SendGossip
    <3> QED BY <1>0, <1>2, <2>5, <3>2, <3>4, <3>5 DEF SendGossip
  <2>6. ASSUME NEW m \in Node, ReplyRead(n, m)
        PROVE  /\ \A k \in Node : Heeded(entry'[k]) /\ Heeded(loop'[k].snap) /\ Heeded(loop'[k].put)
               /\ \A j, k \in Node : Heeded(call'[j][k].told)
    <3> DEFINE e == Merged(entry[n], call[n][m].told)
    <3>1. ~NoNews(entry[n], call[n][m].told) => Heeded(e)
      BY CopiesKnown, MergedHeeded
    <3>2. \A k \in Node :
             \/ loop'[k] = loop[k]
             \/ loop'[k].snap = loop[k].snap /\ loop'[k].put = loop[k].put
             \/ /\ ~NoNews(entry[n], call[n][m].told)
                /\ loop'[k].snap = loop[k].snap /\ loop'[k].put = e
      BY <1>1, <2>6 DEF ReplyRead, Loops
    <3> HIDE DEF e
    <3>3. \A j, k \in Node : call'[j][k] = call[j][k] \/ call'[j][k] = NoCall
      BY <1>1, <2>6 DEF ReplyRead
    <3> QED BY <1>0, <1>2, <2>6, <3>1, <3>2, <3>3 DEF ReplyRead
  <2>7. ASSUME NEW m \in Node, GiveUp(n, m)
        PROVE  /\ \A k \in Node : Heeded(entry'[k]) /\ Heeded(loop'[k].snap) /\ Heeded(loop'[k].put)
               /\ \A j, k \in Node : Heeded(call'[j][k].told)
    <3>1. \A k \in Node : \/ loop'[k] = loop[k]
                          \/ loop'[k].snap = loop[k].snap /\ loop'[k].put = loop[k].put
      BY <1>1, <2>7 DEF GiveUp, Loops
    <3>2. \A j, k \in Node : call'[j][k] = call[j][k] \/ call'[j][k] = NoCall
      BY <1>1, <2>7 DEF GiveUp
    <3> QED BY <1>0, <1>2, <2>7, <3>1, <3>2 DEF GiveUp
  <2> QED BY <1>5, <2>1, <2>2, <2>3, <2>4, <2>5, <2>6, <2>7 DEF Gossiping
<1>6. ASSUME NEW n \in Node, NEW m \in Node, Serve(n, m)
      PROVE  /\ \A k \in Node : Heeded(entry'[k]) /\ Heeded(loop'[k].snap) /\ Heeded(loop'[k].put)
             /\ \A j, k \in Node : Heeded(call'[j][k].told)
  <2>1. CASE HandleRead(n, m)
    <3> DEFINE e == Merged(entry[m], call[n][m].told)
    <3>1. ~NoNews(entry[m], call[n][m].told) => Heeded(e)
      BY CopiesKnown, MergedHeeded
    <3>2. \A j, k \in Node :
             \/ call'[j][k] = call[j][k]
             \/ call'[j][k].told = Unknown
             \/ ~NoNews(entry[m], call[n][m].told) /\ call'[j][k].told = e
      BY <1>1, <2>1 DEF HandleRead
    <3> HIDE DEF e
    <3> QED BY <1>0, <1>2, <2>1, <3>1, <3>2 DEF HandleRead
  <2>2. CASE HandleWrite(n, m)
    <3>1. \A j, k \in Node : call'[j][k] = call[j][k] \/ call'[j][k].told = Unknown
      BY <1>1, <2>2 DEF HandleWrite
    <3>2. \A k \in Node : entry'[k] = entry[k] \/ entry'[k] = call[n][m].told
      BY <1>1, <2>2 DEF HandleWrite
    <3> QED BY <1>0, <1>2, <2>2, <3>1, <3>2 DEF HandleWrite
  <2>3. CASE HandleAnswer(n, m)
    <3>1. \A j, k \in Node : \/ call'[j][k] = call[j][k]
                             \/ call'[j][k].told = entry[m] \/ call'[j][k].told = Unknown
      BY <1>1, <1>2, <2>3 DEF HandleAnswer
    <3> QED BY <1>0, <1>2, <2>3, <3>1 DEF HandleAnswer
  <2>4. CASE LoseCall(n, m)
    <3>1. \A j, k \in Node : call'[j][k] = call[j][k] \/ call'[j][k] = NoCall
      BY <1>1, <2>4 DEF LoseCall
    <3> QED BY <1>0, <1>2, <2>4, <3>1 DEF LoseCall
  <2> QED BY <1>6, <2>1, <2>2, <2>3, <2>4 DEF Serve
<1>7. ~Crash /\ ~Start /\ ~SelfBeat /\ \A n \in Node : ~Heartbeat(n)
  BY <1>1 DEF Crash, Start, SelfBeat, Heartbeat, SendBeat, BeatSubject, HandleHeartbeat, LoseBeat
<1> QED BY <1>3, <1>4, <1>5, <1>6, <1>7 DEF Next

\* Once the Subject has stopped and its last heartbeats have arrived, no order
\* of exchanges among the others makes a newer heartbeat of it.
THEOREM NoPhantom == Spec => NoPhantomHeartbeat
<1>1. Spec => []GInv
  BY GossipInit, GossipStep, PTL DEF Spec
<1>2. ASSUME GInv, [Next]_vars
      PROVE  [Silent => \A h \in Heard' : \E g \in Heard : h <= g]_vars
  <2> SUFFICES ASSUME Silent, ~UNCHANGED vars, NEW h \in Heard'
               PROVE  \E g \in Heard : h <= g
    OBVIOUS
  <2>1. PICK e \in Copies' : e # Unknown /\ h = e.hb
    BY DEF Heard
  <2>2. /\ \A k \in Node : Heeded(entry'[k]) /\ Heeded(loop'[k].snap) /\ Heeded(loop'[k].put)
        /\ \A j, k \in Node : Heeded(call'[j][k].told)
    BY <1>2, SilentStep
  <2>3. PICK n \in Node : \/ e \in {entry'[n], loop'[n].snap, loop'[n].put}
                         \/ \E m \in Node : e = call'[n][m].told
    BY <2>1 DEF Copies
  <2>4. Heeded(e)
    BY <2>2, <2>3
  <2>5. PICK d \in Copies : d # Unknown /\ e.hb <= d.hb
    BY <2>1, <2>4 DEF Heeded
  <2> QED BY <2>1, <2>5 DEF Heard
<1> QED BY <1>1, <1>2, PTL DEF Spec, NoPhantomHeartbeat
=============================================================================
