---------------------------- MODULE Routes_proofs ----------------------------
(***************************************************************************)
(* Proofs about the two kinds of routes beside TcpRoute.  Of UdpRoute, for *)
(* any clients and ports: what a route that is down has given back, and    *)
(* that it is a route as its callers see one.  Of HttpRoute, for any       *)
(* number of starts: a route that is not started while a heartbeat of an   *)
(* earlier start is alive stays measured.                                  *)
(***************************************************************************)
EXTENDS UdpRoute, HttpRoute, TLAPS

\* Down means all is given back, whichever call is in the middle of what; only
\* a Stop that waits is neither up nor down; and sockets are open while up.
DownInv ==
  /\ status = "Stopped" => AllEnded /\ listener # "open" /\ remote # "open"
  /\ status = "Stopping" <=> pc = "wait"
  /\ status = "Stopping" => listener = "closed" /\ remote = "closed"
  /\ status = "Running" => listener = "open" /\ remote = "open"
  /\ pc = "restart" => status = "Stopped"

-----------------------------------------------------------------------------
\* The initial states satisfy the type invariant.
LEMMA InitType == Init => TypeOK
<1> SUFFICES ASSUME Init PROVE TypeOK
  OBVIOUS
<1>1. crashed \in BOOLEAN
  BY Zenon DEF Init
<1>2. status \in {"Stopped", "Running", "Stopping"} /\ port \in Ports /\ laddr \in Ports /\ arg \in Ports
  BY DEF Init
<1>3. {listener, remote, quit} \subseteq {"nil", "open", "closed"} /\ sessions \in [Clients -> {"none", "fresh", "stale"}]
  BY DEF Init
<1>4. /\ reader \in {"none", "top", "touch", "send", "done"} /\ who \in Clients \cup {Nobody}
      /\ server \in {"none", "top", "range", "done"} /\ togo \subseteq Clients
      /\ sweeper \in {"none", "wait", "range", "delete", "done"}
      /\ left \subseteq Clients /\ old \in Clients \cup {Nobody} /\ beat \in {"none", "wait", "done"}
  BY DEF Init
<1>5. pc \in {"idle", "stop", "wait", "config", "start", "restart"} /\ op \in {"Stop", "Start", "Update"}
  BY DEF Init
<1> QED
  BY <1>1, <1>2, <1>3, <1>4, <1>5 DEF TypeOK

\* Every step keeps the type invariant.
LEMMA NextType == TypeOK /\ [Next]_vars => TypeOK'
<1> SUFFICES ASSUME TypeOK, [Next]_vars PROVE TypeOK'
  OBVIOUS
<1> USE DEF TypeOK, Alive, sockVars, readVars, serveVars, sweepVars, goVars, callVars,
            NotReader, NotServer, NotSweeper
<1>1. CASE Call
  BY <1>1 DEF Call
<1>2. CASE CallerStep
  <2>1. CASE StopRefused     BY <2>1 DEF StopRefused, ReturnsTo
  <2>2. CASE StopBegin       BY <2>2 DEF StopBegin
  <2>3. CASE StopEnd         BY <2>3 DEF StopEnd, ReturnsTo
  <2>4. CASE UpdateConfig    BY <2>4 DEF UpdateConfig
  <2>5. CASE StartRunning    BY <2>5 DEF StartRunning
  <2>6. CASE StartListen     BY <2>6 DEF StartListen
  <2>7. CASE ListenFails     BY <2>7 DEF ListenFails, GiveUp
  <2>8. CASE LookupFails     BY <2>8 DEF LookupFails, GiveUp
  <2>9. CASE RemoteFails     BY <2>9 DEF RemoteFails, GiveUp
  <2>10. CASE ResolveFails   BY <2>10 DEF ResolveFails
  <2> QED
    BY <1>2, <2>1, <2>2, <2>3, <2>4, <2>5, <2>6, <2>7, <2>8, <2>9, <2>10 DEF CallerStep
<1>3. CASE Reading
  <2>1. CASE ReaderQuit      BY <2>1 DEF ReaderQuit
  <2>2. ASSUME NEW c \in Clients, ReadFrom(c) PROVE TypeOK'
    BY <2>2 DEF ReadFrom
  <2>3. CASE Touch
    <3> DEFINE S(c) == IF sessions[c] = "none" THEN "none" ELSE "fresh"
    <3>1. sessions' = [sessions EXCEPT ![who] = S(who)] /\ reader' = "send"
      BY <2>3 DEF Touch
    <3>2. S(who) \in {"none", "fresh", "stale"}
      OBVIOUS
    <3>3. sessions' \in [Clients -> {"none", "fresh", "stale"}]
      <4> HIDE DEF S
      <4> QED  BY <3>1, <3>2
    <3>4. UNCHANGED <<status, port, sockVars, serveVars, sweepVars, beat, callVars, who, crashed>>
      BY <2>3 DEF Touch
    <3> QED
      BY <3>1, <3>3, <3>4
  <2>4. CASE Send            BY <2>4 DEF Send
  <2> QED
    BY <1>3, <2>1, <2>2, <2>3, <2>4 DEF Reading, Packet
<1>4. CASE Serving
  BY <1>4 DEF Serving, ServerQuit, Reply, ReplyTo, ReplyEnd, Known
<1>5. CASE Sweeping
  <2>1. CASE SweeperQuit     BY <2>1 DEF SweeperQuit
  <2>2. CASE Sweep           BY <2>2 DEF Sweep, Known
  <2>3. ASSUME NEW c \in Clients, Examine(c) PROVE TypeOK'
    BY <2>3 DEF Examine
  <2>4. CASE Delete
    <3>1. sessions' \in [Clients -> {"none", "fresh", "stale"}]
      BY <2>4 DEF Delete
    <3> QED
      BY <2>4, <3>1 DEF Delete
  <2>5. CASE SweepEnd        BY <2>5 DEF SweepEnd
  <2> QED
    BY <1>5, <2>1, <2>2, <2>3, <2>4, <2>5 DEF Sweeping
<1>6. CASE BeatQuit
  BY <1>6 DEF BeatQuit
<1>7. ASSUME NEW c \in Clients, Age(c) PROVE TypeOK'
  BY <1>7 DEF Age
<1>8. CASE UNCHANGED vars
  BY <1>8 DEF vars
<1> QED
  BY <1>1, <1>2, <1>3, <1>4, <1>5, <1>6, <1>7, <1>8 DEF Next

\* Every step keeps DownInv: goroutines that have ended do not come back but by
\* a Start, and a Stop ends only after all of them.
LEMMA NextDown == TypeOK /\ DownInv /\ [Next]_vars => DownInv'
<1> SUFFICES ASSUME TypeOK, DownInv, [Next]_vars PROVE DownInv'
  OBVIOUS
<1> USE DEF DownInv, AllEnded, Alive, sockVars, readVars, serveVars, sweepVars, goVars, callVars,
            NotReader, NotServer, NotSweeper
<1>1. CASE Call
  BY <1>1 DEF Call
<1>2. CASE CallerStep
  <2>1. CASE StopRefused     BY <2>1 DEF StopRefused, ReturnsTo, TypeOK
  <2>2. CASE StopBegin       BY <2>2 DEF StopBegin
  <2>3. CASE StopEnd         BY <2>3 DEF StopEnd, ReturnsTo, TypeOK
  <2>4. CASE UpdateConfig    BY <2>4 DEF UpdateConfig
  <2>5. CASE StartRunning    BY <2>5 DEF StartRunning
  <2>6. CASE StartListen     BY <2>6 DEF StartListen
  <2>7. CASE ListenFails     BY <2>7 DEF ListenFails, GiveUp, StartReady, TypeOK
  <2>8. CASE LookupFails     BY <2>8 DEF LookupFails, GiveUp, StartReady, TypeOK
  <2>9. CASE RemoteFails     BY <2>9 DEF RemoteFails, GiveUp, StartReady, TypeOK
  <2>10. CASE ResolveFails   BY <2>10 DEF ResolveFails, StartReady, TypeOK
  <2> QED
    BY <1>2, <2>1, <2>2, <2>3, <2>4, <2>5, <2>6, <2>7, <2>8, <2>9, <2>10 DEF CallerStep
<1>3. CASE Reading
  BY <1>3 DEF Reading, Packet, ReaderQuit, ReadFrom, Touch, Send
<1>4. CASE Serving
  BY <1>4 DEF Serving, ServerQuit, Reply, ReplyTo, ReplyEnd
<1>5. CASE Sweeping
  BY <1>5 DEF Sweeping, SweeperQuit, Sweep, Examine, Delete, SweepEnd
<1>6. CASE BeatQuit
  BY <1>6 DEF BeatQuit
<1>7. ASSUME NEW c \in Clients, Age(c) PROVE DownInv'
  BY <1>7 DEF Age
<1>8. CASE UNCHANGED vars
  BY <1>8 DEF vars
<1> QED
  BY <1>1, <1>2, <1>3, <1>4, <1>5, <1>6, <1>7, <1>8 DEF Next

\* The route starts down, with nothing to give back.
LEMMA InitDown == Init => DownInv
  BY DEF Init, DownInv, AllEnded

\* Every variable keeps to its kind.
THEOREM TypeCorrect == FairSpec => []TypeOK
  BY InitType, NextType, PTL DEF FairSpec

\* A route that is down when a call returns has no goroutine and no socket
\* left, wherever its Start gave up and whatever its Stop interrupted.
THEOREM StoppedHasReleased == FairSpec => []StoppedReleases
<1>1. DownInv => StoppedReleases
  BY DEF DownInv, StoppedReleases
<1> QED
  BY <1>1, InitType, InitDown, NextType, NextDown, PTL DEF FairSpec

\* The route implements the interface's promise: it goes up with exactly the
\* port of its configuration and comes down with none, in one step each.
THEOREM Refines == FairSpec => KeepsPromise
<1>1. Init => Promise!Init
  BY DEF Init, Promise!Init
<1>2. TypeOK /\ DownInv /\ [Next]_vars => [Promise!Next]_<<status = "Running", IF listener = "open" THEN {laddr} ELSE {}>>
  <2> DEFINE held == IF listener = "open" THEN {laddr} ELSE {}
  <2> SUFFICES ASSUME TypeOK, DownInv, [Next]_vars
               PROVE  \/ Promise!Next
                      \/ (status = "Running")' = (status = "Running") /\ held' = held
    OBVIOUS
  <2> USE DEF Alive, sockVars, readVars, serveVars, sweepVars, goVars, callVars,
              NotReader, NotServer, NotSweeper
  <2>1. CASE StartListen
    <3>1. status # "Running" /\ port \in Ports
      BY <2>1 DEF StartListen, StartReady, DownInv, TypeOK
    <3>2. (status = "Running")' = TRUE /\ held' = {port}
      BY <2>1 DEF StartListen
    <3> QED
      BY <3>1, <3>2 DEF Promise!Next, Promise!BringUp
  <2>2. CASE StopBegin
    <3>1. (status = "Running")' = FALSE /\ held' = {}
      BY <2>2 DEF StopBegin
    <3> QED
      BY <2>2, <3>1 DEF StopBegin, Promise!Next, Promise!TakeDown
  <2>3. CASE UNCHANGED <<status, listener, laddr>>
    BY <2>3
  <2>4. CASE StopEnd
    BY <2>4 DEF StopEnd, DownInv
  <2>5. CASE ListenFails \/ LookupFails \/ RemoteFails
    <3>1. status # "Running" /\ listener # "open"
      BY <2>5 DEF ListenFails, LookupFails, RemoteFails, GiveUp, StartReady, DownInv, TypeOK
    <3>2. status' = "Stopped" /\ listener' # "open"
      BY <2>5 DEF ListenFails, LookupFails, RemoteFails, GiveUp
    <3> QED
      BY <3>1, <3>2
  <2>6. CASE ResolveFails
    <3>1. status # "Running" /\ listener # "open"
      BY <2>6 DEF ResolveFails, StartReady, DownInv, TypeOK
    <3>2. status' = "Stopped" /\ listener' # "open"
      BY <2>6 DEF ResolveFails
    <3> QED
      BY <3>1, <3>2
  <2>7. CASE Call \/ BeatQuit \/ (\E c \in Clients : Age(c)) \/ UNCHANGED vars
    BY <2>3, <2>7 DEF Call, BeatQuit, Age, vars
  <2>8. CASE StopRefused \/ UpdateConfig \/ StartRunning
    BY <2>3, <2>8 DEF StopRefused, UpdateConfig, StartRunning
  <2>9. CASE Reading
    BY <2>3, <2>9 DEF Reading, Packet, ReaderQuit, ReadFrom, Touch, Send
  <2>10. CASE Serving
    BY <2>3, <2>10 DEF Serving, ServerQuit, Reply, ReplyTo, ReplyEnd
  <2>11. CASE Sweeping
    BY <2>3, <2>11 DEF Sweeping, SweeperQuit, Sweep, Examine, Delete, SweepEnd
  <2> QED
    BY <2>1, <2>2, <2>4, <2>5, <2>6, <2>7, <2>8, <2>9, <2>10, <2>11 DEF Next, CallerStep
<1> QED
  BY <1>1, <1>2, InitType, InitDown, NextType, NextDown, PTL DEF FairSpec, KeepsPromise, Promise!Spec

-----------------------------------------------------------------------------
(* The HTTP route. *)

\* Starts number the heartbeats without a gap.
FreshInv == \A n \in Beats : n > starts => beats[n] = "none"

\* The ticker of the field runs while a heartbeat needs it, as does the one a
\* heartbeat waits for: one that ends is alone, and none does while the route runs.
Ticks ==
  /\ ~panicked
  /\ \A n \in Beats :
       /\ beats[n] \in {"range", "wait", "fired", "ping", "stop"} => heatbeat \in ticking
       /\ beats[n] \in {"wait", "fired", "ping"} => on[n] \in ticking
  /\ httpStatus = "Running" =>
       /\ starts # 0 /\ beats[starts] \in {"make", "range", "wait", "fired", "ping"}
       /\ EndingBeats = {}
  /\ httpStatus = "Stopped" => \A m, n \in LiveBeats : m = n

CalmInv == FreshInv /\ (calm => Ticks)

\* The initial states satisfy the type invariant and the one for calm.
LEMMA InitCalm == HttpInit => HttpTypeOK /\ CalmInv
<1> SUFFICES ASSUME HttpInit PROVE HttpTypeOK /\ CalmInv
  OBVIOUS
<1>1. HttpTypeOK
  <2>1. panicked \in BOOLEAN
    BY Zenon DEF HttpInit
  <2>2. calm \in BOOLEAN
    BY DEF HttpInit
  <2> QED
    BY <2>1, <2>2, MaxStartsAssumption DEF HttpInit, HttpTypeOK, Nil, Beats
<1>2. CalmInv
  BY MaxStartsAssumption DEF HttpInit, CalmInv, FreshInv, Ticks, LiveBeats, Beats
<1> QED
  BY <1>1, <1>2

\* Every step keeps the type invariant.
LEMMA BeatsType == HttpTypeOK /\ [HttpNext]_httpVars => HttpTypeOK'
<1> SUFFICES ASSUME HttpTypeOK, [HttpNext]_httpVars PROVE HttpTypeOK'
  OBVIOUS
<1> USE MaxStartsAssumption DEF HttpTypeOK, NotPanicked, Beats, Nil
<1>1. CASE Start
  BY <1>1 DEF Start
<1>2. CASE Stop
  BY <1>2 DEF Stop
<1>3. ASSUME NEW n \in Beats, BeatStep(n) PROVE HttpTypeOK'
  <2>1. CASE Make(n)        BY <2>1 DEF Make, Move
  <2>2. CASE RangeOver(n)   BY <2>2 DEF RangeOver, Move
  <2>3. CASE Tick(n)        BY <2>3 DEF Tick, Move
  <2>4. CASE Check(n)       BY <2>4 DEF Check, Move
  <2>5. CASE StopTicker(n)  BY <2>5 DEF StopTicker, Move
  <2>6. CASE Clear(n)       BY <2>6 DEF Clear, Move
  <2>7. CASE Ping(n)        BY <2>7 DEF Ping, Move
  <2>8. QED
    BY <1>3, <2>1, <2>2, <2>3, <2>4, <2>5, <2>6, <2>7 DEF BeatStep
<1>4. CASE UNCHANGED httpVars
  BY <1>4 DEF httpVars
<1> QED
  BY <1>1, <1>2, <1>3, <1>4 DEF HttpNext

\* Every step keeps the invariant of calm: a heartbeat stops the ticker of the
\* field only where there is no other heartbeat, and none is made before it ends.
LEMMA BeatsCalm == HttpTypeOK /\ CalmInv /\ [HttpNext]_httpVars => CalmInv'
<1> SUFFICES ASSUME HttpTypeOK, CalmInv, [HttpNext]_httpVars PROVE CalmInv'
  OBVIOUS
<1> USE MaxStartsAssumption DEF HttpTypeOK, CalmInv, FreshInv, Ticks, NotPanicked, LiveBeats,
                                EndingBeats, Beats, Nil
<1>1. CASE Start
  BY <1>1 DEF Start
<1>2. CASE Stop
  BY <1>2 DEF Stop
<1>3. ASSUME NEW n \in Beats, BeatStep(n) PROVE CalmInv'
  <2>1. CASE Make(n)        BY <2>1 DEF Make, Move
  <2>2. CASE RangeOver(n)   BY <2>2 DEF RangeOver, Move
  <2>3. CASE Tick(n)        BY <2>3 DEF Tick, Move
  <2>4. CASE Check(n)       BY <2>4 DEF Check, Move
  <2>5. CASE StopTicker(n)
    <3>1. FreshInv'
      BY <2>5 DEF StopTicker, Move
    <3>2. ASSUME calm PROVE Ticks'
      <4>1. httpStatus = "Stopped" /\ beats[n] = "stop" /\ heatbeat \in ticking
        BY <2>5, <3>2 DEF StopTicker
      <4>2. beats' = [beats EXCEPT ![n] = "clear"] /\ UNCHANGED <<panicked, httpStatus, heatbeat, on>>
        BY <2>5, <4>1 DEF StopTicker, Move
      <4>3. \A m \in Beats : m # n => beats'[m] \in {"none", "done"}
        BY <3>2, <4>1, <4>2
      <4>4. beats'[n] = "clear"
        BY <4>2
      <4> QED
        BY <3>2, <4>1, <4>2, <4>3, <4>4
    <3> QED
      BY <2>5, <3>1, <3>2 DEF StopTicker
  <2>6. CASE Clear(n)       BY <2>6 DEF Clear, Move
  <2>7. CASE Ping(n)        BY <2>7 DEF Ping, Move
  <2>8. QED
    BY <1>3, <2>1, <2>2, <2>3, <2>4, <2>5, <2>6, <2>7 DEF BeatStep
<1>4. CASE UNCHANGED httpVars
  BY <1>4 DEF httpVars
<1> QED
  BY <1>1, <1>2, <1>3, <1>4 DEF HttpNext

\* Every variable keeps to its kind, overlapping starts and a dead process included.
THEOREM HttpTypeCorrect == HttpFairSpec => []HttpTypeOK
<1>1. HttpInit => HttpTypeOK
  BY InitCalm
<1> QED
  BY <1>1, BeatsType, PTL DEF HttpFairSpec

\* Until a Stop meets two heartbeats, or a Start one that is ending, a route is
\* measured for as long as it runs, and does not take the process down, however
\* often it is started while it runs or soon after a stop.
THEOREM CalmMeasured == HttpFairSpec => []CalmIsMeasured
<1>1. HttpTypeOK /\ CalmInv /\ [HttpNext]_httpVars => (HttpTypeOK /\ CalmInv)'
  BY BeatsType, BeatsCalm
<1>2. HttpTypeOK /\ CalmInv => CalmIsMeasured
  <2> SUFFICES ASSUME HttpTypeOK, CalmInv, calm, httpStatus = "Running"
               PROVE  \E n \in Beats : Measuring(n)
    BY DEF CalmIsMeasured, CalmInv, Ticks
  <2>1. starts \in Beats /\ beats[starts] \in {"make", "range", "wait", "fired", "ping"}
    BY MaxStartsAssumption DEF CalmInv, Ticks, HttpTypeOK, Beats
  <2>2. Measuring(starts)
    BY <2>1 DEF Measuring, CalmInv, Ticks
  <2> QED
    BY <2>1, <2>2
<1> QED
  BY <1>1, <1>2, InitCalm, PTL DEF HttpFairSpec
=============================================================================
