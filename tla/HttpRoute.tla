------------------------------ MODULE HttpRoute ------------------------------
(***************************************************************************)
(* The running state of an HTTP route (pkg/router/httpRoute.go): Start and *)
(* Stop only set the status, and each Start leaves a heartbeat goroutine   *)
(* behind. Start number n starts heartbeat n, which makes ticker n; the    *)
(* route keeps one ticker in the field heatbeat, without a lock.  Names    *)
(* that other routes have too begin with Http.                             *)
(***************************************************************************)
EXTENDS Naturals

CONSTANTS
  MaxStarts    \* bound: calls of Start

ASSUME MaxStartsAssumption == MaxStarts \in Nat

Nil   == 0
Beats == 1..MaxStarts

VARIABLES
  calm,       \* no Stop ever meets two heartbeats, and no Start one that is ending
  httpStatus, \* route.status
  heatbeat,   \* the ticker in route.heatbeat, or Nil
  ticking,    \* tickers made and not stopped
  starts,     \* calls of Start so far
  beats,      \* position of each heartbeat
  on,         \* the ticker whose channel each heartbeat ranges over
  panicked    \* the process has died of a nil ticker

httpVars == <<calm, httpStatus, heatbeat, ticking, starts, beats, on, panicked>>

HttpTypeOK ==
  /\ httpStatus \in {"Stopped", "Running"}
  /\ heatbeat \in Beats \cup {Nil}
  /\ ticking \subseteq Beats
  /\ starts \in 0..MaxStarts
  /\ beats \in [Beats -> {"none", "make", "range", "wait", "fired", "stop", "clear", "ping", "done"}]
  /\ on \in [Beats -> Beats \cup {Nil}]
  /\ calm \in BOOLEAN /\ panicked \in BOOLEAN

HttpInit ==
  /\ calm \in BOOLEAN
  /\ httpStatus = "Stopped" /\ heatbeat = Nil /\ ticking = {} /\ starts = 0
  /\ beats = [n \in Beats |-> "none"] /\ on = [n \in Beats |-> Nil]
  /\ panicked = FALSE

NotPanicked == ~panicked /\ UNCHANGED <<calm, panicked>>

Move(n, from, to) == beats[n] = from /\ beats' = [beats EXCEPT ![n] = to]

LiveBeats == {n \in Beats : beats[n] \notin {"none", "done"}}
EndingBeats == {n \in Beats : beats[n] \in {"stop", "clear"}}

Start ==
  /\ NotPanicked /\ starts < MaxStarts
  /\ calm => EndingBeats = {}
  /\ httpStatus' = "Running"
  /\ starts' = starts + 1
  /\ beats' = [beats EXCEPT ![starts + 1] = "make"]
  /\ UNCHANGED <<heatbeat, ticking, on>>

Stop ==
  /\ NotPanicked
  /\ calm => \A m, n \in LiveBeats : m = n
  /\ httpStatus' = "Stopped"
  /\ UNCHANGED <<heatbeat, ticking, starts, beats, on>>

Make(n) ==
  /\ NotPanicked /\ Move(n, "make", "range")
  /\ heatbeat' = n /\ ticking' = ticking \cup {n}
  /\ UNCHANGED <<httpStatus, starts, on>>

\* The range expression reads the field once, perhaps another Start's ticker.
RangeOver(n) ==
  /\ ~panicked /\ beats[n] = "range"
  /\ IF heatbeat = Nil
       THEN panicked' = TRUE /\ UNCHANGED <<beats, on>>
       ELSE Move(n, "range", "wait") /\ on' = [on EXCEPT ![n] = heatbeat] /\ UNCHANGED panicked
  /\ UNCHANGED <<calm, httpStatus, heatbeat, ticking, starts>>

Tick(n) ==
  /\ NotPanicked /\ on[n] \in ticking /\ Move(n, "wait", "fired")
  /\ UNCHANGED <<httpStatus, heatbeat, ticking, starts, on>>

\* Bug: the heartbeat measures whatever the status is.
CheckNothing(n) ==
  /\ NotPanicked /\ Move(n, "fired", "ping")
  /\ UNCHANGED <<httpStatus, heatbeat, ticking, starts, on>>

Check(n) ==
  /\ NotPanicked /\ Move(n, "fired", IF httpStatus = "Running" THEN "ping" ELSE "stop")
  /\ UNCHANGED <<httpStatus, heatbeat, ticking, starts, on>>

\* route.heatbeat.Stop() on whatever ticker the field holds now.
StopTicker(n) ==
  /\ ~panicked /\ beats[n] = "stop"
  /\ IF heatbeat = Nil
       THEN panicked' = TRUE /\ UNCHANGED <<beats, ticking>>
       ELSE Move(n, "stop", "clear") /\ ticking' = ticking \ {heatbeat} /\ UNCHANGED panicked
  /\ UNCHANGED <<calm, httpStatus, heatbeat, starts, on>>

Clear(n) ==
  /\ NotPanicked /\ Move(n, "clear", "done")
  /\ heatbeat' = Nil
  /\ UNCHANGED <<httpStatus, ticking, starts, on>>

\* Bug: a ping that fails ends the heartbeat instead of going on.
PingReturns(n) ==
  /\ NotPanicked /\ (Move(n, "ping", "wait") \/ Move(n, "ping", "done"))
  /\ UNCHANGED <<httpStatus, heatbeat, ticking, starts, on>>

Ping(n) ==
  /\ NotPanicked /\ Move(n, "ping", "wait")
  /\ UNCHANGED <<httpStatus, heatbeat, ticking, starts, on>>

BeatStep(n) ==
  Make(n) \/ RangeOver(n) \/ Tick(n) \/ Check(n) \/ StopTicker(n) \/ Clear(n) \/ Ping(n)

HttpNext == Start \/ Stop \/ \E n \in Beats : BeatStep(n)

\* Goroutines run and running tickers tick; nobody is owed a Start or a Stop.
HttpFairSpec == HttpInit /\ [][HttpNext]_httpVars /\ \A n \in Beats : WF_httpVars(BeatStep(n))

-----------------------------------------------------------------------------
\* A heartbeat that will tick again, or is in the middle of a tick.
Measuring(n) == beats[n] \in {"make", "range"} \/ (beats[n] \in {"wait", "fired", "ping"} /\ on[n] \in ticking)

\* Started again while it runs, or within five seconds of a stop, a route shares
\* its ticker with an old heartbeat.  Until a Stop meets the two of them, or a
\* Start one that has seen a Stop, none finds its ticker missing and takes the
\* process down, and a running route has one that goes on measuring it,
\* unreachable backends included.
CalmIsMeasured ==
  calm => ~panicked /\ (httpStatus = "Running" => \E n \in Beats : Measuring(n))

\* A route that is stopped for good is in the end not pinged any more,
\* however many heartbeats its starts have left: each one has ended, waits
\* on a ticker that was stopped, or has taken the process down.
StoppedGoesSilent ==
  <>[](httpStatus = "Stopped") => <>[](panicked \/ \A n \in Beats : ~Measuring(n))
=============================================================================
