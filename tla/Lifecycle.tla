------------------------------- MODULE Lifecycle ------------------------------
(***************************************************************************)
(* One process from Run to its exit (app/lifecycle.go): the HTTP server,   *)
(* the storage manager and the cluster manager are started and stopped in  *)
(* the order of Run and Shutdown, around the goroutines of Membership.     *)
(*                                                                         *)
(* The server accepts requests before storage is open and before this node *)
(* is in its own table.  A request holds its connection (busy) while it    *)
(* looks up owners and reads or writes storage.                            *)
(***************************************************************************)
EXTENDS Membership

VARIABLES
    main,     \* where Run is
    server,   \* the HTTP server
    engine,   \* whether the storage engine is open
    open,     \* the flag of the storage manager
    busy,     \* the handlers that serve a request
    io        \* the handlers that have passed checkOpen and will call the engine
lvars == <<main, server, engine, open, busy, io>>

\* Types: what Run has done so far is what main says.
LTypeOK ==
    /\ main \in {"boot", "engine", "open", "starting", "serving", "draining", "closing",
                 "synced", "closed", "stopping", "exited"}
    /\ server \in {"down", "listening", "failed", "shut"}
    /\ engine \in BOOLEAN /\ open \in BOOLEAN
    /\ busy \in SUBSET Handler
    /\ io \in SUBSET busy

LInit ==
    /\ Init
    /\ main = "boot" /\ server = "down"
    /\ engine = FALSE /\ open = FALSE
    /\ busy = {} /\ io = {}

Running == main # "exited"
Goto(from, to) == main = from /\ main' = to

----------------------------------------------------------------------------
(* Run and Shutdown.                                                       *)

\* Storage.Open: the engine's Open, and then the flag.
OpenEngine ==
    /\ Goto("boot", "engine")
    /\ engine' = TRUE
    /\ UNCHANGED <<vars, server, open, busy, io>>

MarkOpen ==
    /\ Goto("engine", "open")
    /\ open' = TRUE
    /\ UNCHANGED <<vars, server, engine, busy, io>>

\* Storage cannot be opened: Run returns.
OpenFails ==
    /\ Goto("boot", "exited")
    /\ UNCHANGED <<vars, server, engine, open, busy, io>>

StartCluster ==
    /\ Goto("open", "starting")
    /\ Start
    /\ UNCHANGED <<server, engine, open, busy, io>>

\* Start has returned, and signal.Notify is called.
Serve ==
    /\ Goto("starting", "serving")
    /\ Started
    /\ UNCHANGED <<server, engine, open, busy, io>>

\* The server's error ends Run, without Shutdown.
ServerError ==
    /\ server = "failed" /\ Goto("serving", "exited")
    /\ UNCHANGED <<vars, server, engine, open, busy, io>>

\* Shutdown: the server stops listening and waits for its requests.
Signal ==
    /\ Goto("serving", "draining")
    /\ server' = "shut"
    /\ UNCHANGED <<vars, engine, open, busy, io>>

Drained ==
    /\ busy = {} /\ Goto("draining", "closing")
    /\ UNCHANGED <<vars, server, engine, open, busy, io>>

\* Mutated form: the server's timeout is logged, and Shutdown goes on.
DrainTimeoutIgnored ==
    /\ Goto("draining", "closing")
    /\ UNCHANGED <<vars, server, engine, open, busy, io>>

\* ShutdownTimeout passes first: Shutdown and Run return, nothing is closed.
DrainTimeout ==
    /\ Goto("draining", "exited")
    /\ UNCHANGED <<vars, server, engine, open, busy, io>>

\* Storage.Close: the engine refuses calls from its first critical section on;
\* then its log is closed, which may fail, and the flag is cleared.
CloseEngine ==
    /\ open /\ Goto("closing", "synced")
    /\ engine' = FALSE
    /\ UNCHANGED <<vars, server, open, busy, io>>

MarkClosed ==
    /\ Goto("synced", "closed")
    /\ open' = FALSE
    /\ UNCHANGED <<vars, server, engine, busy, io>>

\* An error of Close is logged; the flag stays.
CloseFails ==
    /\ Goto("synced", "closed")
    /\ UNCHANGED <<vars, server, engine, open, busy, io>>

StopCluster ==
    /\ Goto("closed", "stopping")
    /\ Stop
    /\ UNCHANGED <<server, engine, open, busy, io>>

Exit ==
    /\ Goto("stopping", "exited")
    /\ Stopped
    /\ UNCHANGED <<server, engine, open, busy, io>>

----------------------------------------------------------------------------
(* The server and its requests.                                            *)

\* ListenAndServe runs beside Run.  It may fail to bind; a listener that fails
\* later is left out.
Listen ==
    /\ Running /\ server = "down" /\ server' = "listening"
    /\ UNCHANGED <<vars, main, engine, open, busy, io>>

ServerFails ==
    /\ Running /\ server = "down" /\ server' = "failed"
    /\ UNCHANGED <<vars, main, engine, open, busy, io>>

Accept(h) ==
    /\ Running /\ server = "listening" /\ h \notin busy
    /\ busy' = busy \cup {h}
    /\ UNCHANGED <<vars, main, server, engine, open, io>>

\* Mutated form: the answer does not wait for the engine.
FinishEarly(h) ==
    /\ Running /\ h \in busy /\ Idle(h)
    /\ busy' = busy \ {h}
    /\ UNCHANGED <<vars, main, server, engine, open, io>>

Finish(h) ==
    /\ Running /\ h \in busy \ io /\ Idle(h)
    /\ busy' = busy \ {h}
    /\ UNCHANGED <<vars, main, server, engine, open, io>>

\* Put, Get and the others of the storage manager: checkOpen ...
CheckOpen(h) ==
    /\ Running /\ h \in busy \ io /\ Idle(h)
    /\ open
    /\ io' = io \cup {h}
    /\ UNCHANGED <<vars, main, server, engine, open, busy>>

\* ... and the call of the engine.
CallEngine(h) ==
    /\ Running /\ h \in io
    /\ io' = io \ {h}
    /\ UNCHANGED <<vars, main, server, engine, open, busy>>

\* The goroutines of Membership, as long as the process lives.
Clustered ==
    /\ Running
    /\ \/ \E h \in busy \ io : Request(h)
       \/ \E p \in Proc : Step(p)
       \/ Gossip \/ Tick \/ Heartbeats \/ StopGossip
       \/ \E l \in Loop : LoopEnds(l)
    /\ UNCHANGED lvars

----------------------------------------------------------------------------
Run ==
    \/ OpenEngine \/ MarkOpen \/ OpenFails \/ StartCluster \/ Serve
    \/ ServerError \/ Signal \/ Drained \/ DrainTimeout
    \/ CloseEngine \/ MarkClosed \/ CloseFails \/ StopCluster \/ Exit

LNext ==
    \/ Run \/ Listen \/ ServerFails \/ Clustered
    \/ \E h \in Handler : Accept(h) \/ Finish(h) \/ CheckOpen(h) \/ CallEngine(h)

LSpec == LInit /\ [][LNext]_<<vars, lvars>>

\* Each goroutine that has something to do goes on, tickers tick, and the
\* server's timeout passes.  The select of a loop that is always ready to tick
\* takes the stop in the end.
GoesOn(A) == Running /\ A /\ UNCHANGED lvars

LFairness ==
    /\ WF_<<vars, lvars>>(\/ MarkOpen \/ StartCluster \/ Serve \/ Drained \/ DrainTimeout
                          \/ CloseEngine \/ MarkClosed \/ CloseFails \/ StopCluster \/ Exit
                          \/ GoesOn(StopGossip \/ Step(Main)))
    /\ WF_<<vars, lvars>>(GoesOn(Tick \/ Heartbeats \/ Step(Monitor)))
    /\ \A p \in Handler \cup {Gossiper} : WF_<<vars, lvars>>(GoesOn(Step(p)))
    /\ SF_<<vars, lvars>>(GoesOn(\E l \in Loop : LoopEnds(l)))

FairSpec == LSpec /\ LFairness

----------------------------------------------------------------------------
(* Properties.                                                             *)

\* A call that has passed checkOpen reaches an open engine: Shutdown closes it
\* only after the requests have ended, and nothing but requests uses it.
EngineOpenWhenUsed == io # {} => engine

\* Once it drains, the process ends, whatever its requests do: the server's wait
\* has a timeout, and the loops Stop waits for end.
ShutsDown == main = "draining" ~> main = "exited"

\* Rebuilds store their rings in any order, but while the monitor runs the last
\* one counts: once the table stays as it is, so does the ring, and it is built
\* from the nodes that are alive.
RingCatchesUp ==
    <>[](main = "serving") => <>[](ring.nodes = Alive)
=============================================================================
