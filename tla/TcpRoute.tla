------------------------------ MODULE TcpRoute ------------------------------
(***************************************************************************)
(* One TCP route of the proxy (pkg/router/tcpRoute.go): the calls Start,   *)
(* Stop and Update, which several goroutines of the program may make at    *)
(* the same time, and the goroutines a running route owns, which are its   *)
(* accept loop, its heartbeat and one handler per client connection.       *)
(*                                                                         *)
(* Start number g makes a quit channel, a context and a listener; all      *)
(* three carry the number g, which is called their generation.             *)
(* The goroutines read route.quit, route.ctx and route.listener without    *)
(* the route's lock, so they see whatever generation is current.           *)
(***************************************************************************)
EXTENDS Integers, FiniteSets

CONSTANTS
  Callers,    \* goroutines that call Start, Stop and Update on the route
  Conns,      \* client connections that may arrive
  Ports,      \* values of config.Port
  Free,       \* the value of mu when no caller holds the route's lock
  MaxStarts   \* bound: calls that reach the body of Start

ASSUME CallersAssumption == Free \notin Callers
ASSUME MaxStartsAssumption == MaxStarts \in Nat

Nil  == 0                     \* a nil channel or a nil listener
Gens == 1..MaxStarts

VARIABLES
  status, port,               \* route.status, route.config.Port
  quit, listener,             \* generation in route.quit (and ctx), in route.listener
  cancelled, closed,          \* contexts cancelled, quit channels closed
  open, laddr,                \* listeners that hold their port, and that port
  wg,                         \* counter of route.wg
  mu,                         \* holder of route.mu, where a section has more than one step
  loop, at,                   \* accept loops and the listener each one has read
  hb, hbq,                    \* heartbeats and the channel each one selects on
  conn, via, shut,            \* connections, the loop that took each, those closed by us
  pc, op, arg,                \* callers: position, method being run, Update's argument
  crashed                     \* the process has died

sockVars == <<quit, listener, cancelled, closed, open, laddr>>
loopVars == <<loop, at>>
hbVars   == <<hb, hbq>>
connVars == <<conn, via, shut>>
callVars == <<pc, op, arg>>
vars == <<status, port, sockVars, wg, mu, loopVars, hbVars, connVars, callVars, crashed>>

PCs == {"idle", "stop", "closing", "wait", "parked", "woken", "stopped",
        "config", "start", "restart"}

TypeOK ==
  /\ status \in {"Stopped", "Running", "Stopping"}
  /\ port \in Ports
  /\ quit \in Gens \cup {Nil} /\ listener \in Gens \cup {Nil}
  /\ cancelled \subseteq Gens \cup {Nil} /\ closed \subseteq Gens \cup {Nil}
  /\ open \subseteq Gens
  /\ laddr \in [Gens -> Ports]
  /\ wg \in Int
  /\ mu \in Callers \cup {Free}
  /\ loop \in [Gens -> {"none", "top", "call", "accept", "track", "done"}]
  /\ at \in [Gens -> Gens \cup {Nil}]
  /\ hb \in [Gens -> {"none", "loop", "select", "done"}]
  /\ hbq \in [Gens -> Gens \cup {Nil}]
  /\ conn \in [Conns -> {"none", "accepted", "dial", "copy", "up", "down", "done"}]
  /\ via \in [Conns -> Gens \cup {Nil}]
  /\ shut \subseteq Conns
  /\ pc \in [Callers -> PCs]
  /\ op \in [Callers -> {"Stop", "Start", "Update"}]
  /\ arg \in [Callers -> Ports]
  /\ crashed \in BOOLEAN

Init ==
  /\ status = "Stopped" /\ port \in Ports
  /\ quit = Nil /\ listener = Nil
  /\ cancelled = {} /\ closed = {} /\ open = {}
  /\ laddr = [g \in Gens |-> port]
  /\ wg = 0 /\ mu = Free
  /\ loop = [g \in Gens |-> "none"] /\ at = [g \in Gens |-> Nil]
  /\ hb = [g \in Gens |-> "none"] /\ hbq = [g \in Gens |-> Nil]
  /\ conn = [k \in Conns |-> "none"] /\ via = [k \in Conns |-> Nil] /\ shut = {}
  /\ pc = [c \in Callers |-> "idle"] /\ op = [c \in Callers |-> "Stop"]
  /\ arg = [c \in Callers |-> port]
  /\ crashed = FALSE

\* Nothing runs after the process has died, and most steps do not kill it.
Alive == ~crashed /\ UNCHANGED crashed

-----------------------------------------------------------------------------
(* Calls. Stop also runs inside Update and, on a running route, inside     *)
(* Start; op says which method is running and so where Stop returns to.    *)

Goto(c, p) == pc' = [pc EXCEPT ![c] = p]

Enter(c, o, p) == pc[c] = "idle" /\ Goto(c, p) /\ op' = [op EXCEPT ![c] = o]

\* Calls under way that will still make a generation.
Starting == {c \in Callers : pc[c] # "idle" /\ op[c] # "Stop"}

CallStop(c) ==
  /\ Alive /\ Enter(c, "Stop", "stop")
  /\ UNCHANGED <<status, port, sockVars, wg, mu, loopVars, hbVars, connVars, arg>>

CallStart(c) ==
  /\ Alive /\ quit + Cardinality(Starting) < MaxStarts
  /\ Enter(c, "Start", "start")
  /\ UNCHANGED <<status, port, sockVars, wg, mu, loopVars, hbVars, connVars, arg>>

CallUpdate(c) ==
  /\ Alive /\ quit + Cardinality(Starting) < MaxStarts
  /\ Enter(c, "Update", "stop")
  /\ \E p \in Ports : arg' = [arg EXCEPT ![c] = p]
  /\ UNCHANGED <<status, port, sockVars, wg, mu, loopVars, hbVars, connVars>>

\* Bug: a call that the table has no case for.
ReturnsToNowhere(o) == CASE o = "Stop" -> "idle" [] o = "Update" -> "config" [] OTHER -> "none"

ReturnsTo(o) == CASE o = "Stop" -> "idle" [] o = "Update" -> "config" [] OTHER -> "restart"

StopRefused(c) ==
  /\ Alive /\ pc[c] = "stop" /\ mu = Free /\ status # "Running"
  /\ Goto(c, ReturnsTo(op[c]))
  /\ UNCHANGED <<status, port, sockVars, wg, mu, loopVars, hbVars, connVars, op, arg>>

\* Bug: a Stop that is under way does not keep out a second one.
StopReadyTwice(c) == pc[c] = "stop" /\ mu = Free /\ status # "Stopped"

StopReady(c) == pc[c] = "stop" /\ mu = Free /\ status = "Running"

\* Under the lock: cancel the context, then close the listener.
StopBegin(c) ==
  /\ Alive /\ StopReady(c)
  /\ mu' = c
  /\ status' = "Stopping"
  /\ cancelled' = cancelled \cup {quit}
  /\ open' = open \ {listener}
  /\ Goto(c, "closing")
  /\ UNCHANGED <<port, quit, listener, closed, laddr, wg, loopVars, hbVars, connVars,
                 op, arg>>

\* activeConns holds a connection from Store to the end of its handler.
ActiveConns == {k \in Conns : conn[k] \in {"dial", "copy", "up", "down"}}

\* Still under it: close every tracked connection, then the quit channel.
\* Handlers and loops have run since the context was cancelled.
StopClose(c) ==
  /\ Alive /\ pc[c] = "closing"
  /\ shut' = shut \cup ActiveConns
  /\ closed' = closed \cup {quit}
  /\ mu' = Free
  /\ Goto(c, "wait")
  /\ UNCHANGED <<status, port, quit, listener, cancelled, open, laddr, wg, loopVars, hbVars,
                 conn, via, op, arg>>

\* Bug: Stop does not wait for the goroutines.
StopWaitSkipped(c) ==
  /\ Alive /\ pc[c] = "wait"
  /\ Goto(c, "stopped")
  /\ UNCHANGED <<status, port, sockVars, wg, mu, loopVars, hbVars, connVars, op, arg>>

\* wg.Wait returns at once on a zero counter and parks the caller otherwise.
StopWait(c) ==
  /\ Alive /\ pc[c] = "wait"
  /\ Goto(c, IF wg = 0 THEN "stopped" ELSE "parked")
  /\ UNCHANGED <<status, port, sockVars, wg, mu, loopVars, hbVars, connVars, op, arg>>

\* A woken waiter that finds the counter in use again panics: a request
\* handler's panic is recovered by net/http, another goroutine's is fatal.
StopWoken(c) ==
  /\ ~crashed /\ pc[c] = "woken"
  /\ IF wg = 0 THEN Goto(c, "stopped") /\ UNCHANGED crashed
               ELSE Goto(c, "idle") /\ crashed' \in BOOLEAN
  /\ UNCHANGED <<status, port, sockVars, wg, mu, loopVars, hbVars, connVars, op, arg>>

StopEnd(c) ==
  /\ Alive /\ pc[c] = "stopped" /\ mu = Free
  /\ status' = "Stopped"
  /\ Goto(c, ReturnsTo(op[c]))
  /\ UNCHANGED <<port, sockVars, wg, mu, loopVars, hbVars, connVars, op, arg>>

\* Bug: Update leaves the restart to somebody else.
UpdateConfigOnly(c) ==
  /\ Alive /\ pc[c] = "config" /\ mu = Free
  /\ port' = arg[c]
  /\ Goto(c, "idle") /\ UNCHANGED op
  /\ UNCHANGED <<status, sockVars, wg, mu, loopVars, hbVars, connVars, arg>>

UpdateConfig(c) ==
  /\ Alive /\ pc[c] = "config" /\ mu = Free
  /\ port' = arg[c]
  /\ Goto(c, "start") /\ op' = [op EXCEPT ![c] = "Start"]
  /\ UNCHANGED <<status, sockVars, wg, mu, loopVars, hbVars, connVars, arg>>

\* Start on a running route lets go of the lock and calls Stop.
StartRunning(c) ==
  /\ Alive /\ pc[c] = "start" /\ mu = Free /\ status = "Running"
  /\ Goto(c, "stop")
  /\ UNCHANGED <<status, port, sockVars, wg, mu, loopVars, hbVars, connVars, op, arg>>

\* Bug: Start does not stop a running route first.
StartReadyAlways(c) == mu = Free /\ pc[c] \in {"start", "restart"}

\* Where the body of Start is reached; after its own Stop the status is not read again.
StartReady(c) ==
  /\ mu = Free
  /\ pc[c] = "restart" \/ (pc[c] = "start" /\ status # "Running")

StartListen(c) ==
  LET g == quit + 1 IN
  /\ Alive /\ StartReady(c)
  /\ g \in Gens
  /\ \A h \in open : laddr[h] # port
  /\ quit' = g /\ listener' = g
  /\ open' = open \cup {g} /\ laddr' = [laddr EXCEPT ![g] = port]
  /\ wg' = wg + 2
  /\ loop' = [loop EXCEPT ![g] = "top"] /\ hb' = [hb EXCEPT ![g] = "loop"]
  /\ status' = "Running"
  /\ Goto(c, "idle")
  /\ UNCHANGED <<port, cancelled, closed, mu, at, hbq, connVars, op, arg>>

\* net.Listen fails: the port is taken, by this process or by another one.
StartFails(c) ==
  /\ Alive /\ StartReady(c)
  /\ quit + 1 \in Gens
  /\ quit' = quit + 1 /\ listener' = Nil
  /\ status' = "Stopped"
  /\ Goto(c, "idle")
  /\ UNCHANGED <<port, cancelled, closed, open, laddr, wg, mu, loopVars, hbVars, connVars,
                 op, arg>>

CallerStep(c) ==
  \/ StopRefused(c) \/ StopBegin(c) \/ StopClose(c) \/ StopWait(c) \/ StopWoken(c) \/ StopEnd(c)
  \/ UpdateConfig(c) \/ StartRunning(c) \/ StartListen(c) \/ StartFails(c)

-----------------------------------------------------------------------------
(* The goroutines of generation g.                                         *)

\* Bug: a goroutine returns without Done.
WgDoneForgotten == UNCHANGED <<wg, pc>>

\* The last Done wakes the waiters, which run later.
WgDone ==
  /\ wg' = wg - 1
  /\ pc' = [c \in Callers |-> IF wg = 1 /\ pc[c] = "parked" THEN "woken" ELSE pc[c]]

LoopQuit(g) ==
  /\ Alive /\ loop[g] = "top" /\ quit \in closed
  /\ loop' = [loop EXCEPT ![g] = "done"]
  /\ WgDone
  /\ UNCHANGED <<status, port, sockVars, mu, at, hbVars, connVars, op, arg>>

\* Bug: the loop goes back to Accept without looking at quit.
LoopGoOnUnchecked(g) ==
  /\ Alive /\ loop[g] = "top"
  /\ loop' = [loop EXCEPT ![g] = "call"]
  /\ UNCHANGED <<status, port, sockVars, wg, mu, at, hbVars, connVars, callVars>>

LoopGoOn(g) ==
  /\ Alive /\ loop[g] = "top" /\ quit \notin closed
  /\ loop' = [loop EXCEPT ![g] = "call"]
  /\ UNCHANGED <<status, port, sockVars, wg, mu, at, hbVars, connVars, callVars>>

\* route.listener.Accept() on a nil listener kills the process.
LoopAccept(g) ==
  /\ ~crashed /\ loop[g] = "call"
  /\ IF listener = Nil
       THEN crashed' = TRUE /\ UNCHANGED loopVars
       ELSE /\ loop' = [loop EXCEPT ![g] = "accept"] /\ at' = [at EXCEPT ![g] = listener]
            /\ UNCHANGED crashed
  /\ UNCHANGED <<status, port, sockVars, wg, mu, hbVars, connVars, callVars>>

\* Accept fails, at the latest when its listener is closed. The quit channel
\* is looked at after the error as it is at the top of the loop.
AcceptError(g) ==
  /\ Alive /\ loop[g] = "accept"
  /\ loop' = [loop EXCEPT ![g] = "top"]
  /\ UNCHANGED <<status, port, sockVars, wg, mu, at, hbVars, connVars, callVars>>

AcceptConn(g, k) ==
  /\ Alive /\ loop[g] = "accept" /\ at[g] \in open /\ conn[k] = "none"
  /\ loop' = [loop EXCEPT ![g] = "track"]
  /\ conn' = [conn EXCEPT ![k] = "accepted"] /\ via' = [via EXCEPT ![k] = g]
  /\ UNCHANGED <<status, port, sockVars, wg, mu, at, hbVars, shut, callVars>>

\* The connection enters activeConns and its handler goroutine begins.
TrackConn(g, k) ==
  /\ Alive /\ loop[g] = "track" /\ conn[k] = "accepted" /\ via[k] = g
  /\ conn' = [conn EXCEPT ![k] = "dial"]
  /\ loop' = [loop EXCEPT ![g] = "top"]
  /\ UNCHANGED <<status, port, sockVars, wg, mu, at, hbVars, via, shut, callVars>>

HeartbeatSelect(g) ==
  /\ Alive /\ hb[g] = "loop"
  /\ hb' = [hb EXCEPT ![g] = "select"] /\ hbq' = [hbq EXCEPT ![g] = quit]
  /\ UNCHANGED <<status, port, sockVars, wg, mu, loopVars, connVars, callVars>>

\* The ticker fires; measureLatency dials the backend and the loop goes round.
HeartbeatTick(g) ==
  /\ Alive /\ hb[g] = "select"
  /\ hb' = [hb EXCEPT ![g] = "loop"]
  /\ UNCHANGED <<status, port, sockVars, wg, mu, loopVars, hbq, connVars, callVars>>

HeartbeatQuit(g) ==
  /\ Alive /\ hb[g] = "select" /\ hbq[g] \in closed
  /\ hb' = [hb EXCEPT ![g] = "done"]
  /\ WgDone
  /\ UNCHANGED <<status, port, sockVars, mu, loopVars, hbq, connVars, op, arg>>

-----------------------------------------------------------------------------
(* The handler of connection k and its two copying goroutines: "copy" both *)
(* run, "up" only client to backend, "down" only backend to client.        *)

\* Bug: the dial does not use the route's context.
DialBackendAlways(k) ==
  /\ Alive /\ conn[k] = "dial"
  /\ conn' = [conn EXCEPT ![k] = "copy"]
  /\ UNCHANGED <<status, port, sockVars, wg, mu, loopVars, hbVars, via, shut, callVars>>

\* client.Dial with route.ctx, which must not be cancelled.
DialBackend(k) ==
  /\ Alive /\ conn[k] = "dial" /\ quit \notin cancelled
  /\ conn' = [conn EXCEPT ![k] = "copy"]
  /\ UNCHANGED <<status, port, sockVars, wg, mu, loopVars, hbVars, via, shut, callVars>>

\* One direction ends: the client hangs up or has been closed, the backend
\* hangs up, or data arrives and finds quit or its destination closed.
CopyEnds(k) ==
  /\ Alive /\ conn[k] = "copy"
  /\ \E rest \in {"up", "down"} : conn' = [conn EXCEPT ![k] = rest]
  /\ UNCHANGED <<status, port, sockVars, wg, mu, loopVars, hbVars, via, shut, callVars>>

\* The dial failed or the last direction ended: the deferred calls run.
HandlerEnds(k) ==
  /\ Alive /\ conn[k] \in {"dial", "up", "down"}
  /\ conn' = [conn EXCEPT ![k] = "done"]
  /\ shut' = shut \cup {k}
  /\ UNCHANGED <<status, port, sockVars, wg, mu, loopVars, hbVars, via, callVars>>

LoopStep(g) ==
  \/ LoopQuit(g) \/ LoopGoOn(g) \/ LoopAccept(g) \/ AcceptError(g)
  \/ \E k \in Conns : AcceptConn(g, k) \/ TrackConn(g, k)

HeartbeatStep(g) == HeartbeatSelect(g) \/ HeartbeatTick(g) \/ HeartbeatQuit(g)

HandlerStep(k) == DialBackend(k) \/ CopyEnds(k) \/ HandlerEnds(k)

Next ==
  \/ \E c \in Callers : CallStop(c) \/ CallStart(c) \/ CallUpdate(c) \/ CallerStep(c)
  \/ \E g \in Gens : LoopStep(g) \/ HeartbeatStep(g)
  \/ \E k \in Conns : HandlerStep(k)

Spec == Init /\ [][Next]_vars

\* What the Go scheduler owes each goroutine. Accept is only owed a return
\* once its listener is closed. A select with both cases ready picks one at
\* random, so quitting needs strong fairness.
LoopMust(g) ==
  \/ LoopQuit(g) \/ LoopGoOn(g) \/ LoopAccept(g)
  \/ (at[g] \notin open /\ AcceptError(g))
  \/ \E k \in Conns : TrackConn(g, k)

Fairness ==
  /\ \A c \in Callers : WF_vars(CallerStep(c))
  /\ \A g \in Gens : /\ WF_vars(LoopMust(g))
                     /\ WF_vars(HeartbeatSelect(g))
                     /\ SF_vars(HeartbeatQuit(g))

FairSpec == Spec /\ Fairness

-----------------------------------------------------------------------------
LiveLoops == {g \in Gens : loop[g] \notin {"none", "done"}}
LiveBeats == {g \in Gens : hb[g] \notin {"none", "done"}}

\* close(route.quit) would panic on a nil or a closed channel: whoever is
\* about to run it, and every state in which Stop would, has an open one.
NoDoubleClose ==
  (status = "Running" \/ \E c \in Callers : pc[c] = "closing") => quit \notin closed \cup {Nil}

\* route.wg counts the accept loops and heartbeats that have not returned, so
\* Done never takes it below zero and Wait waits for exactly these.
WgCountsGoroutines == wg = Cardinality(LiveLoops) + Cardinality(LiveBeats)

\* A caller that has changed the configuration, or wants a running route
\* restarted, and has not reached the body of Start yet.
RestartDue == \E c \in Callers : op[c] = "Start" /\ pc[c] \in {"start", "stop"}

\* Whatever calls overlap, a running route holds a listener, and one on the
\* configured port unless a caller is about to restart it.
RunningListens ==
  status = "Running" =>
    /\ listener \in open
    /\ laddr[listener] = port \/ RestartDue

\* Stop cancels the context before it closes the tracked connections, and a
\* handler is tracked before it dials: once quit is closed no connection is
\* copied whose client side is still open, late arrivals included.
StopCutsClients ==
  quit \in closed => {k \in Conns : conn[k] \in {"copy", "up", "down"}} \subseteq shut

\* With one caller at a time: a stopped route that no call is working on has
\* released every port and has no accept loop and no heartbeat left.
StoppedIsQuiet ==
  status = "Stopped" /\ (\A c \in Callers : pc[c] = "idle") =>
    open = {} /\ LiveLoops = {} /\ LiveBeats = {}

\* With one caller at a time: no goroutine outlives the generation it was
\* started for, so none reads a quit channel or a listener that is not its own.
SoleGeneration == LiveLoops \cup LiveBeats \subseteq {quit}

\* With one caller at a time: no accept loop meets the nil listener a failed
\* Start leaves, and no Wait finds its group in use again.
NeverCrashes == ~crashed

\* "Signal all goroutines to stop" (tcpRoute.go:103): the loop and the
\* heartbeat of a generation whose quit channel is closed do end (a dead
\* process has none).
SignalStopsGoroutines ==
  \A g \in Gens : (g \in closed) ~> (crashed \/ g \notin LiveLoops \cup LiveBeats)

\* Every Stop, Start and Update returns.
CallsReturn == \A c \in Callers : (pc[c] # "idle") ~> (pc[c] = "idle")

\* The route as its callers see it.
Promise == INSTANCE RouteLifecycle
             WITH up <- status = "Running", held <- {laddr[g] : g \in open}

\* With one caller at a time the route implements the interface's promise.
KeepsPromise == Promise!Spec
=============================================================================
