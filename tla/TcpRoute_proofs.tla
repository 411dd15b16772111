--------------------------- MODULE TcpRoute_proofs ---------------------------
(***************************************************************************)
(* Proofs about TcpRoute for every set of callers, connections and ports   *)
(* and every number of starts, overlapping calls included.                 *)
(***************************************************************************)
EXTENDS TcpRoute, FiniteSetTheorems, TLAPS

\* route.mu is held across a step only inside Stop, where quit is still
\* open, its context is cancelled and the status has left "Running".
LockInv ==
  /\ mu # Free => pc[mu] = "closing"
  /\ \A c \in Callers : pc[c] = "closing" =>
       mu = c /\ status # "Running" /\ quit \notin closed \cup {Nil} /\ quit \in cancelled

\* Generations are used in order: nothing refers to one that Start has not made.
FreshInv ==
  /\ \A q \in closed \cup cancelled \cup open : q <= quit
  /\ \A g \in Gens : g > quit => loop[g] = "none" /\ hb[g] = "none"

\* The current generation of a running route is open, and quit channels are
\* only closed after their context is cancelled.
CurrentInv ==
  /\ status = "Running" => quit \notin closed \cup {Nil} /\ listener \in open
  /\ closed \subseteq cancelled

\* A running route off its configured port is about to be restarted.
PortInv ==
  /\ \A c \in Callers : pc[c] \in {"start", "restart"} => op[c] = "Start"
  /\ status = "Running" => laddr[listener] = port \/ RestartDue

IInv == LockInv /\ FreshInv /\ CurrentInv /\ PortInv /\ StopCutsClients

-----------------------------------------------------------------------------
\* The initial states satisfy the type invariant.
LEMMA InitType == Init => TypeOK
  <1> SUFFICES ASSUME Init PROVE TypeOK
    OBVIOUS
  <1>1. /\ loop \in [Gens -> {"none", "top", "call", "accept", "track", "done"}]
        /\ hb \in [Gens -> {"none", "loop", "select", "done"}]
        /\ conn \in [Conns -> {"none", "accepted", "dial", "copy", "up", "down", "done"}]
    BY DEF Init
  <1>2. /\ laddr \in [Gens -> Ports] /\ arg \in [Callers -> Ports]
        /\ at \in [Gens -> Gens \cup {Nil}] /\ hbq \in [Gens -> Gens \cup {Nil}]
        /\ via \in [Conns -> Gens \cup {Nil}]
    BY DEF Init
  <1>3. pc \in [Callers -> PCs] /\ op \in [Callers -> {"Stop", "Start", "Update"}]
    BY DEF Init, PCs
  <1>4. /\ status \in {"Stopped", "Running", "Stopping"} /\ port \in Ports
        /\ quit \in Gens \cup {Nil} /\ listener \in Gens \cup {Nil}
        /\ mu \in Callers \cup {Free} /\ wg \in Int
    BY DEF Init
  <1>5. /\ cancelled \subseteq Gens \cup {Nil} /\ closed \subseteq Gens \cup {Nil}
        /\ open \subseteq Gens /\ shut \subseteq Conns
    BY DEF Init
  <1>6. crashed \in BOOLEAN
    BY DEF Init
  <1>7. QED
    BY <1>1, <1>2, <1>3, <1>4, <1>5, <1>6 DEF TypeOK

\* Every step keeps the type invariant.
LEMMA NextType == TypeOK /\ [Next]_vars => TypeOK'
  <1> SUFFICES ASSUME TypeOK, [Next]_vars PROVE TypeOK'
    OBVIOUS
  <1> USE DEF TypeOK, Gens, Nil, PCs
  <1>1. ASSUME NEW c \in Callers, CallStop(c) \/ CallStart(c) \/ CallUpdate(c)
        PROVE  TypeOK'
    BY <1>1 DEF CallStop, CallStart, CallUpdate, Enter, Goto, Alive, sockVars, loopVars, hbVars, connVars
  <1>2. ASSUME NEW c \in Callers, CallerStep(c)
        PROVE  TypeOK'
    <2> USE DEF Goto, Alive, sockVars, loopVars, hbVars, connVars
    <2>1. CASE StopRefused(c)   BY <2>1 DEF StopRefused, ReturnsTo
    <2>2. CASE StopBegin(c)     BY <2>2 DEF StopBegin
    <2>3. CASE StopClose(c)     BY <2>3 DEF StopClose, ActiveConns
    <2>4. CASE StopWait(c)      BY <2>4 DEF StopWait
    <2>5. CASE StopWoken(c)     BY <2>5 DEF StopWoken
    <2>6. CASE StopEnd(c)       BY <2>6 DEF StopEnd, ReturnsTo
    <2>7. CASE UpdateConfig(c)  BY <2>7 DEF UpdateConfig
    <2>8. CASE StartRunning(c)  BY <2>8 DEF StartRunning
    <2>9. CASE StartListen(c)   BY <2>9 DEF StartListen
    <2>10. CASE StartFails(c)   BY <2>10 DEF StartFails
    <2>11. QED
      BY <1>2, <2>1, <2>2, <2>3, <2>4, <2>5, <2>6, <2>7, <2>8, <2>9, <2>10 DEF CallerStep
  <1>3. ASSUME NEW g \in Gens, LoopStep(g)
        PROVE  TypeOK'
    <2> USE DEF Alive, sockVars, loopVars, hbVars, connVars, callVars
    <2>1. CASE LoopQuit(g)      BY <2>1 DEF LoopQuit, WgDone
    <2>2. CASE LoopGoOn(g)      BY <2>2 DEF LoopGoOn
    <2>3. CASE LoopAccept(g)
      <3>1. CASE listener = Nil    BY <2>3, <3>1 DEF LoopAccept
      <3>2. CASE listener # Nil    BY <2>3, <3>2 DEF LoopAccept
      <3>3. QED
        BY <3>1, <3>2
    <2>4. CASE AcceptError(g)   BY <2>4 DEF AcceptError
    <2>5. ASSUME NEW k \in Conns, AcceptConn(g, k) PROVE TypeOK'
      BY <2>5 DEF AcceptConn
    <2>6. ASSUME NEW k \in Conns, TrackConn(g, k) PROVE TypeOK'
      BY <2>6 DEF TrackConn
    <2>7. QED
      BY <1>3, <2>1, <2>2, <2>3, <2>4, <2>5, <2>6 DEF LoopStep
  <1>4. ASSUME NEW g \in Gens, HeartbeatStep(g)
        PROVE  TypeOK'
    <2> USE DEF Alive, sockVars, loopVars, connVars, callVars
    <2>1. CASE HeartbeatSelect(g)  BY <2>1 DEF HeartbeatSelect
    <2>2. CASE HeartbeatTick(g)    BY <2>2 DEF HeartbeatTick
    <2>3. CASE HeartbeatQuit(g)    BY <2>3 DEF HeartbeatQuit, WgDone
    <2>4. QED
      BY <1>4, <2>1, <2>2, <2>3 DEF HeartbeatStep
  <1>5. ASSUME NEW k \in Conns, HandlerStep(k)
        PROVE  TypeOK'
    BY <1>5 DEF HandlerStep, DialBackend, CopyEnds, HandlerEnds, Alive,
                sockVars, loopVars, hbVars, callVars
  <1>6. CASE UNCHANGED vars
    BY <1>6 DEF vars, sockVars, loopVars, hbVars, connVars, callVars
  <1>7. QED
    BY <1>1, <1>2, <1>3, <1>4, <1>5, <1>6 DEF Next

\* The route's variables always hold values of their types, whatever calls overlap.
THEOREM TypeCorrect == Spec => []TypeOK
  BY InitType, NextType, PTL DEF Spec

-----------------------------------------------------------------------------
\* The initial states satisfy the inductive invariant.
LEMMA InitInv == Init => IInv
  BY DEF Init, IInv, LockInv, FreshInv, CurrentInv, PortInv, StopCutsClients, Nil, Gens

\* Every step that leaves the route's own state and the callers alone, and
\* copies no further open connection, keeps the invariant.
LEMMA QuietStep ==
  ASSUME TypeOK, IInv, UNCHANGED <<status, port, sockVars, mu, callVars>>,
         \A g \in Gens : loop[g] = "none" => loop'[g] = "none",
         \A g \in Gens : hb[g] = "none" => hb'[g] = "none",
         StopCutsClients'
  PROVE  IInv'
  BY DEF IInv, LockInv, FreshInv, CurrentInv, PortInv, RestartDue, sockVars, callVars

\* Every step of a call keeps the invariant.
LEMMA CallerInv ==
  ASSUME TypeOK, IInv, NEW c \in Callers,
         CallStop(c) \/ CallStart(c) \/ CallUpdate(c) \/ CallerStep(c)
  PROVE  IInv'
  <1> USE CallersAssumption
      DEF TypeOK, IInv, LockInv, FreshInv, CurrentInv, PortInv, RestartDue, StopCutsClients,
          Goto, Alive, sockVars, loopVars, hbVars, connVars
  <1>1. CASE CallStop(c)      BY <1>1 DEF CallStop, Enter
  <1>2. CASE CallStart(c)     BY <1>2 DEF CallStart, Enter
  <1>3. CASE CallUpdate(c)    BY <1>3 DEF CallUpdate, Enter
  <1>4. CASE StopRefused(c)   BY <1>4 DEF StopRefused, ReturnsTo
  <1>5. CASE StopBegin(c)     BY <1>5 DEF StopBegin, StopReady, Gens, Nil
  <1>6. CASE StopClose(c)     BY <1>6 DEF StopClose, ActiveConns
  <1>7. CASE StopWait(c)      BY <1>7 DEF StopWait
  <1>8. CASE StopWoken(c)     BY <1>8 DEF StopWoken
  <1>9. CASE StopEnd(c)       BY <1>9 DEF StopEnd, ReturnsTo
  <1>10. CASE UpdateConfig(c) BY <1>10 DEF UpdateConfig
  <1>11. CASE StartRunning(c) BY <1>11 DEF StartRunning
  <1>12. CASE StartListen(c)  BY <1>12 DEF StartListen, StartReady, Gens, Nil
  <1>13. CASE StartFails(c)   BY <1>13 DEF StartFails, StartReady, Gens, Nil
  <1>14. QED
    BY <1>1, <1>2, <1>3, <1>4, <1>5, <1>6, <1>7, <1>8, <1>9, <1>10, <1>11, <1>12, <1>13
       DEF CallerStep

\* Every step of an accept loop keeps the invariant.
LEMMA LoopInv ==
  ASSUME TypeOK, IInv, NEW g \in Gens, LoopStep(g)
  PROVE  IInv'
  <1> USE DEF TypeOK, StopCutsClients, Alive, sockVars, loopVars, hbVars, connVars, callVars
  <1> StopCutsClients
    BY DEF IInv
  <1>1. CASE LoopQuit(g)
    BY <1>1 DEF LoopQuit, WgDone, IInv, LockInv, FreshInv, CurrentInv, PortInv, RestartDue
  <1>2. CASE LoopGoOn(g)      BY <1>2, QuietStep DEF LoopGoOn
  <1>3. CASE LoopAccept(g)    BY <1>3, QuietStep DEF LoopAccept
  <1>4. CASE AcceptError(g)   BY <1>4, QuietStep DEF AcceptError
  <1>5. ASSUME NEW k \in Conns, AcceptConn(g, k) PROVE IInv'
    BY <1>5, QuietStep DEF AcceptConn
  <1>6. ASSUME NEW k \in Conns, TrackConn(g, k) PROVE IInv'
    BY <1>6, QuietStep DEF TrackConn
  <1>7. QED
    BY <1>1, <1>2, <1>3, <1>4, <1>5, <1>6 DEF LoopStep

\* Every step of a heartbeat keeps the invariant.
LEMMA HeartbeatInv ==
  ASSUME TypeOK, IInv, NEW g \in Gens, HeartbeatStep(g)
  PROVE  IInv'
  <1> USE DEF TypeOK, StopCutsClients, Alive, sockVars, loopVars, connVars, callVars
  <1> StopCutsClients
    BY DEF IInv
  <1>1. CASE HeartbeatSelect(g)  BY <1>1, QuietStep DEF HeartbeatSelect
  <1>2. CASE HeartbeatTick(g)    BY <1>2, QuietStep DEF HeartbeatTick
  <1>3. CASE HeartbeatQuit(g)
    BY <1>3 DEF HeartbeatQuit, WgDone, IInv, LockInv, FreshInv, CurrentInv, PortInv, RestartDue
  <1>4. QED
    BY <1>1, <1>2, <1>3 DEF HeartbeatStep

\* Every step of a connection's handler keeps the invariant: it dials only
\* under a live context, so only while the current quit channel is open.
LEMMA HandlerInv ==
  ASSUME TypeOK, IInv, NEW k \in Conns, HandlerStep(k)
  PROVE  IInv'
  <1> USE DEF TypeOK, StopCutsClients, Alive, sockVars, loopVars, hbVars, callVars
  <1> StopCutsClients /\ closed \subseteq cancelled
    BY DEF IInv, CurrentInv
  <1>1. CASE DialBackend(k)  BY <1>1, QuietStep DEF DialBackend
  <1>2. CASE CopyEnds(k)     BY <1>2, QuietStep DEF CopyEnds
  <1>3. CASE HandlerEnds(k)  BY <1>3, QuietStep DEF HandlerEnds
  <1>4. QED
    BY <1>1, <1>2, <1>3 DEF HandlerStep

\* The inductive invariant holds in every reachable state.
THEOREM Inductive == Spec => []IInv
  <1>1. TypeOK /\ IInv /\ [Next]_vars => IInv'
    <2> SUFFICES ASSUME TypeOK, IInv, [Next]_vars PROVE IInv'
      OBVIOUS
    <2>1. CASE UNCHANGED vars
      BY <2>1 DEF vars, sockVars, loopVars, hbVars, connVars, callVars, IInv, LockInv, FreshInv,
                  CurrentInv, PortInv, RestartDue, StopCutsClients
    <2>2. QED
      BY <2>1, CallerInv, LoopInv, HeartbeatInv, HandlerInv DEF Next
  <1>2. QED
    BY InitInv, <1>1, TypeCorrect, PTL DEF Spec

\* However Stop, Start and Update overlap, Stop never closes a nil or a
\* closed quit channel, which would panic while it holds the route's lock.
THEOREM QuitClosedOnce == Spec => []NoDoubleClose
  <1>1. IInv => NoDoubleClose
    BY DEF IInv, LockInv, CurrentInv, NoDoubleClose
  <1>2. QED
    BY <1>1, Inductive, PTL

\* However calls overlap, a route that says it is running holds a listener,
\* on the configured port unless a caller is about to restart it.
THEOREM RunningMeansListening == Spec => []RunningListens
  <1>1. IInv => RunningListens
    BY DEF IInv, CurrentInv, PortInv, RunningListens
  <1>2. QED
    BY <1>1, Inductive, PTL

\* However calls overlap, once the current quit channel is closed no
\* connection is copied whose client side is still open.
THEOREM StopCuts == Spec => []StopCutsClients
  <1>1. IInv => StopCutsClients
    BY DEF IInv
  <1>2. QED
    BY <1>1, Inductive, PTL

-----------------------------------------------------------------------------
(* The wait group, with overlapping calls: what it counts are the accept   *)
(* loops and heartbeats of whatever generations are still there.           *)

\* There are as many of them as generations at most.
LEMMA LiveFinite ==
  /\ IsFiniteSet(LiveLoops) /\ Cardinality(LiveLoops) \in Nat
  /\ IsFiniteSet(LiveBeats) /\ Cardinality(LiveBeats) \in Nat
  <1>1. IsFiniteSet(Gens)
    BY MaxStartsAssumption, FS_Interval DEF Gens
  <1>2. LiveLoops \in SUBSET Gens /\ LiveBeats \in SUBSET Gens
    BY DEF LiveLoops, LiveBeats
  <1>3. IsFiniteSet(LiveLoops) /\ IsFiniteSet(LiveBeats)
    BY <1>1, <1>2, FS_Subset
  <1>4. QED
    BY <1>3, FS_CardinalityType

\* Steps that neither begin nor end a goroutine.
LEMMA SameGoroutines ==
  ASSUME WgCountsGoroutines, wg' = wg,
         \A g \in Gens : loop'[g] \in {"none", "done"} <=> loop[g] \in {"none", "done"},
         \A g \in Gens : hb'[g] \in {"none", "done"} <=> hb[g] \in {"none", "done"}
  PROVE  WgCountsGoroutines'
  <1>1. LiveLoops' = LiveLoops /\ LiveBeats' = LiveBeats
    BY DEF LiveLoops, LiveBeats
  <1>2. QED
    BY <1>1 DEF WgCountsGoroutines

\* A Start makes one of each, for a generation that has none yet.
LEMMA StartCounts ==
  ASSUME TypeOK, FreshInv, WgCountsGoroutines, NEW c \in Callers, StartListen(c)
  PROVE  WgCountsGoroutines'
  <1> DEFINE g == quit + 1
  <1>1. g \in Gens /\ loop[g] = "none" /\ hb[g] = "none"
    BY DEF StartListen, FreshInv, TypeOK, Gens, Nil
  <1>2. LiveLoops' = LiveLoops \cup {g} /\ g \notin LiveLoops
    BY <1>1 DEF StartListen, LiveLoops, TypeOK
  <1>3. LiveBeats' = LiveBeats \cup {g} /\ g \notin LiveBeats
    BY <1>1 DEF StartListen, LiveBeats, TypeOK
  <1> HIDE DEF g
  <1>4. Cardinality(LiveLoops \cup {g}) = Cardinality(LiveLoops) + 1
    BY <1>2, LiveFinite, FS_AddElement
  <1>5. Cardinality(LiveBeats \cup {g}) = Cardinality(LiveBeats) + 1
    BY <1>3, LiveFinite, FS_AddElement
  <1>6. wg' = wg + 2
    BY DEF StartListen
  <1>7. QED
    BY <1>2, <1>3, <1>4, <1>5, <1>6, LiveFinite DEF WgCountsGoroutines

\* A goroutine that ends is one less.
LEMMA QuitCounts ==
  ASSUME TypeOK, WgCountsGoroutines, NEW g \in Gens, LoopQuit(g) \/ HeartbeatQuit(g)
  PROVE  WgCountsGoroutines'
  <1>1. CASE LoopQuit(g)
    <2>1. LiveLoops' = LiveLoops \ {g} /\ g \in LiveLoops /\ LiveBeats' = LiveBeats
      BY <1>1 DEF LoopQuit, LiveLoops, LiveBeats, TypeOK, hbVars
    <2>2. Cardinality(LiveLoops \ {g}) = Cardinality(LiveLoops) - 1
      BY <2>1, LiveFinite, FS_RemoveElement
    <2>3. wg' = wg - 1
      BY <1>1 DEF LoopQuit, WgDone
    <2>4. QED
      BY <2>1, <2>2, <2>3, LiveFinite DEF WgCountsGoroutines
  <1>2. CASE HeartbeatQuit(g)
    <2>1. LiveBeats' = LiveBeats \ {g} /\ g \in LiveBeats /\ LiveLoops' = LiveLoops
      BY <1>2 DEF HeartbeatQuit, LiveLoops, LiveBeats, TypeOK, loopVars
    <2>2. Cardinality(LiveBeats \ {g}) = Cardinality(LiveBeats) - 1
      BY <2>1, LiveFinite, FS_RemoveElement
    <2>3. wg' = wg - 1
      BY <1>2 DEF HeartbeatQuit, WgDone
    <2>4. QED
      BY <2>1, <2>2, <2>3, LiveFinite DEF WgCountsGoroutines
  <1>3. QED
    BY <1>1, <1>2

\* However Start, Stop and Update overlap, route.wg counts the goroutines that
\* have not returned: Done never takes it below zero, and Wait waits for these.
THEOREM WgCounts == Spec => []WgCountsGoroutines
  <1>1. Init => WgCountsGoroutines
    <2>1. Init => LiveLoops = {} /\ LiveBeats = {} /\ wg = 0
      BY DEF Init, LiveLoops, LiveBeats
    <2>2. QED
      BY <2>1, FS_EmptySet DEF WgCountsGoroutines
  <1>2. TypeOK /\ IInv /\ WgCountsGoroutines /\ [Next]_vars => WgCountsGoroutines'
    <2> SUFFICES ASSUME TypeOK, FreshInv, WgCountsGoroutines, [Next]_vars
                 PROVE  WgCountsGoroutines'
      BY DEF IInv
    <2> DEFINE Same == /\ wg' = wg
                       /\ \A g \in Gens : loop'[g] \in {"none", "done"} <=> loop[g] \in {"none", "done"}
                       /\ \A g \in Gens : hb'[g] \in {"none", "done"} <=> hb[g] \in {"none", "done"}
    <2>1. ASSUME NEW c \in Callers, CallStop(c) \/ CallStart(c) \/ CallUpdate(c) PROVE Same
      BY <2>1 DEF CallStop, CallStart, CallUpdate, loopVars, hbVars
    <2>2. ASSUME NEW c \in Callers, CallerStep(c), ~StartListen(c) PROVE Same
      BY <2>2 DEF CallerStep, StopRefused, StopBegin, StopClose, StopWait, StopWoken, StopEnd,
                  UpdateConfig, StartRunning, StartFails, loopVars, hbVars
    <2>3. ASSUME NEW g \in Gens, LoopStep(g), ~LoopQuit(g) PROVE Same
      <3>1. CASE LoopGoOn(g) \/ LoopAccept(g) \/ AcceptError(g)
        BY <3>1 DEF LoopGoOn, LoopAccept, AcceptError, TypeOK, loopVars, hbVars
      <3>2. ASSUME NEW k \in Conns, AcceptConn(g, k) \/ TrackConn(g, k) PROVE Same
        BY <3>2 DEF AcceptConn, TrackConn, TypeOK, hbVars
      <3>3. QED
        BY <2>3, <3>1, <3>2 DEF LoopStep
    <2>4. ASSUME NEW g \in Gens, HeartbeatSelect(g) \/ HeartbeatTick(g) PROVE Same
      BY <2>4 DEF HeartbeatSelect, HeartbeatTick, TypeOK, loopVars
    <2>5. ASSUME NEW k \in Conns, HandlerStep(k) PROVE Same
      BY <2>5 DEF HandlerStep, DialBackend, CopyEnds, HandlerEnds, loopVars, hbVars
    <2>6. ASSUME UNCHANGED vars PROVE Same
      BY <2>6 DEF vars, loopVars, hbVars
    <2>7. Same => WgCountsGoroutines'
      BY SameGoroutines
    <2> HIDE DEF Same
    <2>8. QED
      BY <2>1, <2>2, <2>3, <2>4, <2>5, <2>6, <2>7, StartCounts, QuitCounts
         DEF Next, HeartbeatStep
  <1>3. QED
    BY <1>1, <1>2, TypeCorrect, Inductive, PTL DEF Spec

-----------------------------------------------------------------------------
(* One caller at a time.                                                   *)

OneCaller == \A c, d \in Callers : c = d

Over == {"none", "done"}
Stops == {"closing", "wait", "parked", "woken", "stopped"}

\* Only the current generation has goroutines, which the wait group counts.
SoleInv ==
  /\ \A g \in Gens : g # quit => loop[g] \in Over /\ hb[g] \in Over
  /\ \A g \in Gens : hb[g] = "select" => hbq[g] = g
  /\ wg = IF quit = Nil THEN 0
          ELSE (IF loop[quit] \in Over THEN 0 ELSE 1) + (IF hb[quit] \in Over THEN 0 ELSE 1)

\* What the status says of the sockets and goroutines, ...
StatusInv ==
  /\ status = "Running" =>
       quit \notin closed /\ listener = quit /\ open = {quit} /\ loop[quit] \notin Over
  /\ status = "Stopping" =>
       quit # Nil /\ listener = quit /\ open = {} /\ \E c \in Callers : pc[c] \in Stops
  /\ status = "Stopped" => open = {} /\ wg = 0

\* ... and where the call that is under way has come.
PositionInv ==
  \A c \in Callers :
    /\ pc[c] \in Stops => status = "Stopping"
    /\ pc[c] \in Stops \ {"closing"} => quit \in closed
    /\ pc[c] = "parked" => wg # 0
    /\ pc[c] \in {"woken", "stopped"} => wg = 0
    /\ pc[c] \in {"config", "restart"} => status = "Stopped"

SerialInv == ~crashed /\ SoleInv /\ StatusInv /\ PositionInv

LEMMA InitSerial == Init => SerialInv
  BY DEF Init, SerialInv, SoleInv, StatusInv, PositionInv, Over, Stops, Nil

\* Steps that touch neither the status, the sockets, the callers nor whether a
\* goroutine is over.
LEMMA SameSerial ==
  ASSUME TypeOK, SerialInv, UNCHANGED <<crashed, status, sockVars, wg, callVars>>,
         \A g \in Gens : loop'[g] \in Over <=> loop[g] \in Over,
         \A g \in Gens : hb'[g] \in Over <=> hb[g] \in Over,
         \A g \in Gens : hb'[g] = "select" => hbq'[g] = g
  PROVE  SerialInv'
  <1> USE DEF sockVars, callVars, TypeOK
  <1>1. SoleInv'
    BY DEF SerialInv, SoleInv
  <1>2. StatusInv'
    BY DEF SerialInv, StatusInv, CurrentInv
  <1>3. PositionInv'
    BY DEF SerialInv, PositionInv
  <1>4. QED
    BY <1>1, <1>2, <1>3 DEF SerialInv

\* A call that is not in a Stop finds the route running or stopped.
LEMMA NotStopping ==
  ASSUME OneCaller, SerialInv, TypeOK, NEW c \in Callers, pc[c] \notin Stops
  PROVE  status \in {"Running", "Stopped"}
  BY DEF OneCaller, SerialInv, StatusInv, TypeOK

\* With nothing to wait for every goroutine is over.
LEMMA AllOver ==
  ASSUME TypeOK, SoleInv, wg = 0
  PROVE  \A g \in Gens : loop[g] \in Over /\ hb[g] \in Over
  BY DEF SoleInv, TypeOK, Gens, Nil

\* Every step of the call that is under way.
LEMMA CallerSerial ==
  ASSUME OneCaller, TypeOK, IInv, SerialInv, NEW c \in Callers,
         CallStop(c) \/ CallStart(c) \/ CallUpdate(c) \/ CallerStep(c)
  PROVE  SerialInv'
  <1>0. /\ \A d \in Callers : d = c
        /\ pc \in [Callers -> PCs]
    BY DEF OneCaller, TypeOK
  <1> USE <1>0 DEF SerialInv, Goto, Alive, sockVars, loopVars, hbVars
  <1>1. CASE CallStop(c) \/ CallStart(c) \/ CallUpdate(c)
    BY <1>1 DEF CallStop, CallStart, CallUpdate, Enter, SoleInv, StatusInv, PositionInv, Stops
  <1>2. CASE StopRefused(c)
    <2>1. status = "Stopped"
      BY <1>2, NotStopping DEF StopRefused, Stops
    <2>2. QED
      BY <1>2, <2>1 DEF StopRefused, ReturnsTo, SoleInv, StatusInv, PositionInv, Stops
  <1>3. CASE StopBegin(c)
    <2>1. open' = {} /\ quit # Nil
      BY <1>3 DEF StopBegin, StopReady, StatusInv, IInv, CurrentInv
    <2>2. QED
      BY <1>3, <2>1 DEF StopBegin, StopReady, SoleInv, StatusInv, PositionInv, Stops
  <1>4. CASE StopClose(c)
    BY <1>4 DEF StopClose, SoleInv, StatusInv, PositionInv, Stops
  <1>5. CASE StopWait(c)
    BY <1>5 DEF StopWait, SoleInv, StatusInv, PositionInv, Stops
  <1>6. CASE StopWoken(c)
    BY <1>6 DEF StopWoken, SoleInv, StatusInv, PositionInv, Stops
  <1>7. CASE StopEnd(c)
    BY <1>7 DEF StopEnd, ReturnsTo, SoleInv, StatusInv, PositionInv, Stops
  <1>8. CASE UpdateConfig(c) \/ StartRunning(c)
    BY <1>8 DEF UpdateConfig, StartRunning, SoleInv, StatusInv, PositionInv, Stops
  <1>9. ASSUME StartReady(c)
        PROVE  /\ status = "Stopped" /\ wg = 0 /\ open = {} /\ pc[c] \notin Stops
               /\ \A g \in Gens : loop[g] \in Over /\ hb[g] \in Over
    <2>1. pc[c] \notin Stops
      BY <1>9 DEF StartReady, Stops
    <2>2. status = "Stopped"
      BY <1>9, <2>1, NotStopping DEF StartReady, PositionInv
    <2>3. QED
      BY <2>1, <2>2, AllOver DEF StatusInv
  <1>10. CASE StartListen(c)
    <2> DEFINE g == quit + 1
    <2>1. g \in Gens /\ g # Nil /\ g \notin closed
      BY <1>10 DEF StartListen, IInv, FreshInv, TypeOK, Gens, Nil
    <2>2. /\ wg = 0 /\ open = {} /\ pc[c] \notin Stops
          /\ \A h \in Gens : loop[h] \in Over /\ hb[h] \in Over
      BY <1>9, <1>10 DEF StartListen
    <2>3. /\ quit' = g /\ listener' = g /\ open' = {g} /\ wg' = 2 /\ status' = "Running"
          /\ closed' = closed /\ hbq' = hbq /\ ~crashed' /\ pc' = [pc EXCEPT ![c] = "idle"]
          /\ loop' = [loop EXCEPT ![g] = "top"] /\ hb' = [hb EXCEPT ![g] = "loop"]
      BY <1>10, <2>2 DEF StartListen
    <2> HIDE DEF g
    <2>4. SoleInv'
      BY <2>1, <2>2, <2>3 DEF SoleInv, TypeOK, Over
    <2>5. StatusInv'
      BY <2>1, <2>3 DEF StatusInv, TypeOK, Over
    <2>6. PositionInv'
      BY <2>3 DEF PositionInv, Stops
    <2>7. QED
      BY <2>3, <2>4, <2>5, <2>6
  <1>11. CASE StartFails(c)
    <2>1. quit' \in Gens /\ quit' # Nil
      BY <1>11 DEF StartFails, TypeOK, Gens, Nil
    <2>2. /\ wg = 0 /\ open = {} /\ pc[c] \notin Stops
          /\ \A h \in Gens : loop[h] \in Over /\ hb[h] \in Over
      BY <1>9, <1>11 DEF StartFails
    <2>3. SoleInv'
      BY <1>11, <2>1, <2>2 DEF StartFails, SoleInv, TypeOK, Over
    <2>4. StatusInv'
      BY <1>11, <2>2 DEF StartFails, StatusInv
    <2>5. PositionInv'
      BY <1>11 DEF StartFails, PositionInv, Stops
    <2>6. QED
      BY <1>11, <2>3, <2>4, <2>5 DEF StartFails
  <1>12. QED
    BY <1>1, <1>2, <1>3, <1>4, <1>5, <1>6, <1>7, <1>8, <1>10, <1>11 DEF CallerStep

\* A goroutine that is not over belongs to a running or stopping route, and the
\* one that finds its channel closed to a Stop that has to wait for it.
LEMMA LiveIsCurrent ==
  ASSUME TypeOK, SerialInv, NEW g \in Gens, loop[g] \notin Over \/ hb[g] \notin Over
  PROVE  g = quit /\ listener = quit /\ quit # Nil /\ (quit \in closed => status = "Stopping")
  <1>1. g = quit /\ quit # Nil
    BY DEF SerialInv, SoleInv, Gens, Nil
  <1>2. wg # 0
    BY AllOver DEF SerialInv
  <1>3. status # "Stopped"
    BY <1>2 DEF SerialInv, StatusInv
  <1>4. QED
    BY <1>1, <1>3 DEF SerialInv, StatusInv, TypeOK

\* The end of a goroutine, the last of which wakes the Stop that waits.
LEMMA DoneSerial ==
  ASSUME OneCaller, TypeOK, IInv, SerialInv, NEW g \in Gens, quit \in closed, WgDone,
         UNCHANGED <<crashed, status, sockVars, hbq>>,
         \/ loop[g] \notin Over /\ loop' = [loop EXCEPT ![g] = "done"] /\ hb' = hb
         \/ hb[g] \notin Over /\ hb' = [hb EXCEPT ![g] = "done"] /\ loop' = loop
  PROVE  SerialInv'
  <1>1. g = quit /\ quit # Nil /\ status = "Stopping"
    BY LiveIsCurrent
  <1>2. wg' = wg - 1
    BY DEF WgDone
  <1>3. SoleInv'
    BY <1>1, <1>2 DEF SerialInv, SoleInv, sockVars, TypeOK, Over
  <1>4. \A c \in Callers : /\ pc[c] \in Stops => pc'[c] \in Stops
                           /\ pc'[c] # pc[c] => pc[c] = "parked" /\ pc'[c] = "woken" /\ wg = 1
                           /\ pc'[c] = "parked" => wg # 1
    BY DEF WgDone, Stops
  <1>5. StatusInv'
    BY <1>1, <1>4 DEF SerialInv, StatusInv, sockVars
  <1>6. wg # 0 /\ wg \in {1, 2}
    BY <1>1, AllOver DEF SerialInv, SoleInv
  <1>7. PositionInv'
    BY <1>1, <1>2, <1>4, <1>6 DEF SerialInv, PositionInv, sockVars, Stops
  <1>8. QED
    BY <1>3, <1>5, <1>7 DEF SerialInv

\* Every step of an accept loop: the listener it reads is its own.
LEMMA LoopSerial ==
  ASSUME OneCaller, TypeOK, IInv, SerialInv, NEW g \in Gens, LoopStep(g)
  PROVE  SerialInv'
  <1> USE DEF Alive, Over
  <1>0. \A h \in Gens : hb[h] = "select" => hbq[h] = h
    BY DEF SerialInv, SoleInv
  <1>1. CASE LoopQuit(g)
    BY <1>1, DoneSerial DEF LoopQuit, hbVars
  <1>2. CASE LoopGoOn(g) \/ AcceptError(g)
    BY <1>0, <1>2, SameSerial DEF LoopGoOn, AcceptError, hbVars, TypeOK
  <1>3. CASE LoopAccept(g)
    <2>1. listener # Nil
      BY <1>3, LiveIsCurrent DEF LoopAccept
    <2>2. QED
      BY <1>0, <1>3, <2>1, SameSerial DEF LoopAccept, hbVars, TypeOK
  <1>4. ASSUME NEW k \in Conns, AcceptConn(g, k) \/ TrackConn(g, k) PROVE SerialInv'
    BY <1>0, <1>4, SameSerial DEF AcceptConn, TrackConn, hbVars, TypeOK
  <1>5. QED
    BY <1>1, <1>2, <1>3, <1>4 DEF LoopStep

\* Every step of a heartbeat: the channel it selects on is its own.
LEMMA HeartbeatSerial ==
  ASSUME OneCaller, TypeOK, IInv, SerialInv, NEW g \in Gens, HeartbeatStep(g)
  PROVE  SerialInv'
  <1> USE DEF Alive, Over
  <1>0. \A h \in Gens : hb[h] = "select" => hbq[h] = h
    BY DEF SerialInv, SoleInv
  <1>1. CASE HeartbeatSelect(g)
    <2>1. g = quit
      BY <1>1, LiveIsCurrent DEF HeartbeatSelect
    <2>2. QED
      BY <1>0, <1>1, <2>1, SameSerial DEF HeartbeatSelect, loopVars, TypeOK
  <1>2. CASE HeartbeatTick(g)
    BY <1>0, <1>2, SameSerial DEF HeartbeatTick, loopVars, TypeOK
  <1>3. CASE HeartbeatQuit(g)
    <2>1. g = quit /\ hbq[g] = g
      BY <1>0, <1>3, LiveIsCurrent DEF HeartbeatQuit
    <2>2. QED
      BY <1>3, <2>1, DoneSerial DEF HeartbeatQuit, loopVars
  <1>4. QED
    BY <1>1, <1>2, <1>3 DEF HeartbeatStep

\* With one caller the invariant holds in every reachable state.
THEOREM Serial == ASSUME OneCaller PROVE Spec => []SerialInv
  <1>1. TypeOK /\ IInv /\ SerialInv /\ [Next]_vars => SerialInv'
    <2> SUFFICES ASSUME TypeOK, IInv, SerialInv, [Next]_vars PROVE SerialInv'
      OBVIOUS
    <2>0. \A h \in Gens : hb[h] = "select" => hbq[h] = h
      BY DEF SerialInv, SoleInv
    <2>1. ASSUME NEW k \in Conns, HandlerStep(k) PROVE SerialInv'
      BY <2>0, <2>1, SameSerial
         DEF HandlerStep, DialBackend, CopyEnds, HandlerEnds, Alive, loopVars, hbVars
    <2>2. CASE UNCHANGED vars
      BY <2>0, <2>2, SameSerial DEF vars, loopVars, hbVars
    <2>3. QED
      BY <2>1, <2>2, CallerSerial, LoopSerial, HeartbeatSerial DEF Next
  <1>2. QED
    BY <1>1, InitSerial, TypeCorrect, Inductive, PTL DEF Spec

\* With calls one at a time, a stopped route has released its port and its
\* goroutines have ended, a failed Start included.
THEOREM StoppedAndQuiet == ASSUME OneCaller PROVE Spec => []StoppedIsQuiet
  <1>1. TypeOK /\ SerialInv => StoppedIsQuiet
    BY AllOver DEF SerialInv, StatusInv, StoppedIsQuiet, LiveLoops, LiveBeats, Over
  <1>2. QED
    BY <1>1, Serial, TypeCorrect, PTL

\* With calls one at a time, no goroutine outlives its generation.
THEOREM OneGeneration == ASSUME OneCaller PROVE Spec => []SoleGeneration
  <1>1. SerialInv => SoleGeneration
    BY DEF SerialInv, SoleInv, SoleGeneration, LiveLoops, LiveBeats, Over
  <1>2. QED
    BY <1>1, Serial, PTL

\* With calls one at a time, nothing of the route takes the process down.
THEOREM SerialSurvives == ASSUME OneCaller PROVE Spec => []NeverCrashes
  <1>1. SerialInv => NeverCrashes
    BY DEF SerialInv, NeverCrashes
  <1>2. QED
    BY <1>1, Serial, PTL

\* With calls one at a time, the route implements the promise of its interface:
\* it goes up with the configured port and comes down with none, at once.
THEOREM SerialRefines == ASSUME OneCaller PROVE Spec => KeepsPromise
  <1> DEFINE held == {laddr[g] : g \in open}
  <1>1. Init => Promise!Init
    BY DEF Init, Promise!Init
  <1>2. TypeOK /\ IInv /\ SerialInv /\ [Next]_vars => [Promise!Next]_<<status = "Running", held>>
    <2> SUFFICES ASSUME TypeOK, IInv, SerialInv, [Next]_vars
                 PROVE  \/ Promise!Next
                        \/ (status = "Running")' = (status = "Running") /\ held' = held
      OBVIOUS
    <2>1. CASE UNCHANGED <<status, open, laddr>>
      BY <2>1
    <2>2. ASSUME NEW c \in Callers, StartReady(c) PROVE status = "Stopped" /\ open = {}
      <3>1. pc[c] \notin Stops
        BY <2>2 DEF StartReady, Stops
      <3>2. status = "Stopped"
        BY <2>2, <3>1, NotStopping DEF StartReady, SerialInv, PositionInv
      <3>3. QED
        BY <3>2 DEF SerialInv, StatusInv
    <2>3. ASSUME NEW c \in Callers, StartListen(c) PROVE Promise!Next
      <3>1. status = "Stopped" /\ open = {}
        BY <2>2, <2>3 DEF StartListen
      <3>2. quit + 1 \in Gens /\ open' = {quit + 1} /\ laddr' = [laddr EXCEPT ![quit + 1] = port]
        BY <2>3, <3>1 DEF StartListen
      <3>3. held' = {port} /\ port \in Ports
        BY <3>2 DEF TypeOK
      <3>4. ~(status = "Running") /\ (status = "Running")' = TRUE
        BY <2>3, <3>1 DEF StartListen
      <3>5. QED
        BY <3>3, <3>4 DEF Promise!Next, Promise!BringUp
    <2>4. ASSUME NEW c \in Callers, StopBegin(c) PROVE Promise!Next
      <3>1. status = "Running" /\ open' = {} /\ status' = "Stopping"
        BY <2>4 DEF StopBegin, StopReady, SerialInv, StatusInv
      <3>2. QED
        BY <3>1 DEF Promise!Next, Promise!TakeDown
    <2>5. ASSUME NEW c \in Callers, StopEnd(c)
          PROVE  (status = "Running")' = (status = "Running") /\ held' = held
      BY <2>5 DEF StopEnd, SerialInv, PositionInv, Stops, sockVars
    <2>6. ASSUME NEW c \in Callers, StartFails(c)
          PROVE  (status = "Running")' = (status = "Running") /\ held' = held
      BY <2>2, <2>6 DEF StartFails
    <2>7. ASSUME NEW c \in Callers,
                 \/ CallStop(c) \/ CallStart(c) \/ CallUpdate(c) \/ StopRefused(c) \/ StopClose(c)
                 \/ StopWait(c) \/ StopWoken(c) \/ UpdateConfig(c) \/ StartRunning(c)
          PROVE  UNCHANGED <<status, open, laddr>>
      BY <2>7 DEF CallStop, CallStart, CallUpdate, StopRefused, StopClose, StopWait, StopWoken,
                  UpdateConfig, StartRunning, sockVars
    <2>8. ASSUME NEW g \in Gens, LoopStep(g) \/ HeartbeatStep(g)
          PROVE  UNCHANGED <<status, open, laddr>>
      BY <2>8 DEF LoopStep, LoopQuit, LoopGoOn, LoopAccept, AcceptError, AcceptConn, TrackConn,
                  HeartbeatStep, HeartbeatSelect, HeartbeatTick, HeartbeatQuit, sockVars
    <2>9. ASSUME NEW k \in Conns, HandlerStep(k) PROVE UNCHANGED <<status, open, laddr>>
      BY <2>9 DEF HandlerStep, DialBackend, CopyEnds, HandlerEnds, sockVars
    <2>10. CASE UNCHANGED vars
      BY <2>10 DEF vars, sockVars
    <2>11. QED
      BY <2>1, <2>3, <2>4, <2>5, <2>6, <2>7, <2>8, <2>9, <2>10 DEF Next, CallerStep
  <1>3. QED
    BY <1>1, <1>2, Serial, TypeCorrect, Inductive, PTL DEF Spec, KeepsPromise, Promise!Spec
==============================================================================
