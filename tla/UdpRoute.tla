------------------------------ MODULE UdpRoute ------------------------------
(***************************************************************************)
(* One UDP route (pkg/router/udpRoute.go): its two sockets, its table of   *)
(* client sessions and the goroutines that use them. Here Stop, Start and  *)
(* Update are called one at a time, as the router's lock orders all but    *)
(* the start and stop handlers; TcpRoute, whose lifecycle is written the   *)
(* same way, says what happens where they overlap.                         *)
(*                                                                         *)
(* Time is what makes a session stale: 30 seconds without a packet may     *)
(* pass at any moment.                                                     *)
(***************************************************************************)
CONSTANTS
  Clients,   \* addresses that packets may come from
  Ports,     \* values of config.Port
  Nobody     \* not a client

ASSUME NobodyAssumption == Nobody \notin Clients

VARIABLES
  status, port,       \* route.status, route.config.Port
  listener, remote,   \* the public socket and the one in the tailnet
  laddr,              \* the port the public socket was opened on
  quit,               \* route.quit
  sessions,           \* route.sessions: none, or how old lastSeen is
  reader, who,        \* the reader and the client whose packet it has
  server, togo,       \* the loop of replies and the sessions it has still to visit
  sweeper, left, old, \* the sweep, the sessions it has to visit, the one it found stale
  beat,               \* the heartbeat
  pc, op, arg,        \* the call under way: position, method, Update's argument
  crashed             \* log.Fatal has ended the process

sockVars  == <<listener, remote, laddr, quit>>
readVars  == <<reader, who>>
serveVars == <<server, togo>>
sweepVars == <<sweeper, left, old>>
goVars    == <<readVars, serveVars, sweepVars, beat>>
callVars  == <<pc, op, arg>>
vars == <<status, port, sockVars, sessions, goVars, callVars, crashed>>

TypeOK ==
  /\ status \in {"Stopped", "Running", "Stopping"}
  /\ port \in Ports /\ laddr \in Ports
  /\ {listener, remote, quit} \subseteq {"nil", "open", "closed"}
  /\ sessions \in [Clients -> {"none", "fresh", "stale"}]
  /\ reader \in {"none", "top", "touch", "send", "done"} /\ who \in Clients \cup {Nobody}
  /\ server \in {"none", "top", "range", "done"} /\ togo \subseteq Clients
  /\ sweeper \in {"none", "wait", "range", "delete", "done"}
  /\ left \subseteq Clients /\ old \in Clients \cup {Nobody}
  /\ beat \in {"none", "wait", "done"}
  /\ pc \in {"idle", "stop", "wait", "config", "start", "restart"}
  /\ op \in {"Stop", "Start", "Update"} /\ arg \in Ports
  /\ crashed \in BOOLEAN

Init ==
  /\ status = "Stopped" /\ port \in Ports /\ laddr = port
  /\ listener = "nil" /\ remote = "nil" /\ quit = "nil"
  /\ sessions = [c \in Clients |-> "none"]
  /\ reader = "none" /\ who = Nobody /\ server = "none" /\ togo = {}
  /\ sweeper = "none" /\ left = {} /\ old = Nobody /\ beat = "none"
  /\ pc = "idle" /\ op = "Stop" /\ arg = port
  /\ crashed = FALSE

Alive == ~crashed /\ UNCHANGED crashed

\* What route.wg waits for.
AllEnded == {reader, server, sweeper, beat} \subseteq {"none", "done"}

-----------------------------------------------------------------------------
(* Calls. As in TcpRoute, op says where a Stop returns to.                 *)

Call ==
  /\ Alive /\ pc = "idle"
  /\ \/ op' = "Stop" /\ pc' = "stop" /\ UNCHANGED arg
     \/ op' = "Start" /\ pc' = "start" /\ UNCHANGED arg
     \/ op' = "Update" /\ pc' = "stop" /\ arg' \in Ports
  /\ UNCHANGED <<status, port, sockVars, sessions, goVars>>

ReturnsTo == CASE op = "Stop" -> "idle" [] op = "Update" -> "config" [] OTHER -> "restart"

StopRefused ==
  /\ Alive /\ pc = "stop" /\ status # "Running"
  /\ pc' = ReturnsTo
  /\ UNCHANGED <<status, port, sockVars, sessions, goVars, op, arg>>

\* Under the lock: both sockets are closed, then quit. Nothing happens to the
\* sessions. A read that fails in between goes round its loop once more.
StopBegin ==
  /\ Alive /\ pc = "stop" /\ status = "Running"
  /\ status' = "Stopping"
  /\ listener' = "closed" /\ remote' = "closed" /\ quit' = "closed"
  /\ pc' = "wait"
  /\ UNCHANGED <<port, laddr, sessions, goVars, op, arg>>

\* Bug: the reader has no place in the wait group.
StopEndEarly ==
  /\ Alive /\ pc = "wait" /\ {server, sweeper, beat} \subseteq {"none", "done"}
  /\ status' = "Stopped" /\ pc' = ReturnsTo
  /\ UNCHANGED <<port, sockVars, sessions, goVars, op, arg>>

StopEnd ==
  /\ Alive /\ pc = "wait" /\ AllEnded
  /\ status' = "Stopped" /\ pc' = ReturnsTo
  /\ UNCHANGED <<port, sockVars, sessions, goVars, op, arg>>

UpdateConfig ==
  /\ Alive /\ pc = "config"
  /\ port' = arg /\ pc' = "start" /\ op' = "Start"
  /\ UNCHANGED <<status, sockVars, sessions, goVars, arg>>

StartRunning ==
  /\ Alive /\ pc = "start" /\ status = "Running"
  /\ pc' = "stop"
  /\ UNCHANGED <<status, port, sockVars, sessions, goVars, op, arg>>

StartReady == pc = "restart" \/ (pc = "start" /\ status # "Running")

StartListen ==
  /\ Alive /\ StartReady
  /\ quit' = "open" /\ listener' = "open" /\ remote' = "open" /\ laddr' = port
  /\ reader' = "top" /\ server' = "top" /\ sweeper' = "wait" /\ beat' = "wait"
  /\ status' = "Running" /\ pc' = "idle"
  /\ UNCHANGED <<port, sessions, who, togo, left, old, op, arg>>

\* Start gives up with a new quit channel and these sockets.
GiveUp(l, r) ==
  /\ Alive /\ StartReady
  /\ quit' = "open" /\ listener' = l /\ remote' = r
  /\ laddr' = IF l = "nil" THEN laddr ELSE port
  /\ status' = "Stopped" /\ pc' = "idle"
  /\ UNCHANGED <<port, sessions, goVars, op, arg>>

ListenFails == GiveUp("nil", remote)
LookupFails == GiveUp("closed", remote)

\* Bug: the public socket stays open when the other one cannot be made.
RemoteFailsOpen == GiveUp("open", "nil")

RemoteFails == GiveUp("closed", "nil")

\* The backend's address does not resolve: log.Fatal.
ResolveFails ==
  /\ ~crashed /\ StartReady
  /\ crashed' = TRUE /\ listener' = "closed" /\ remote' = "closed" /\ quit' = "open"
  /\ laddr' = port /\ status' = "Stopped"
  /\ UNCHANGED <<port, sessions, goVars, callVars>>

CallerStep ==
  \/ StopRefused \/ StopBegin \/ StopEnd \/ UpdateConfig \/ StartRunning
  \/ StartListen \/ ListenFails \/ LookupFails \/ RemoteFails \/ ResolveFails

-----------------------------------------------------------------------------
(* The reader: client to backend. Where quit is closed it leaves from the  *)
(* top of its loop or after an error; an error without that goes round.    *)

NotReader == <<status, port, sockVars, serveVars, sweepVars, beat, callVars>>

ReaderQuit ==
  /\ Alive /\ reader = "top" /\ quit = "closed"
  /\ reader' = "done"
  /\ UNCHANGED <<sessions, who>> /\ UNCHANGED NotReader

\* A packet arrives, and LoadOrStore finds a session or makes one.
ReadFrom(c) ==
  /\ Alive /\ reader = "top" /\ listener = "open"
  /\ IF sessions[c] = "none"
       THEN sessions' = [sessions EXCEPT ![c] = "fresh"] /\ reader' = "send"
       ELSE reader' = "touch" /\ UNCHANGED sessions
  /\ who' = c
  /\ UNCHANGED NotReader

\* lastSeen is set on the session found, which the sweep may have deleted.
Touch ==
  /\ Alive /\ reader = "touch"
  /\ sessions' = [sessions EXCEPT ![who] = IF @ = "none" THEN "none" ELSE "fresh"]
  /\ reader' = "send"
  /\ UNCHANGED who /\ UNCHANGED NotReader

Send ==
  /\ Alive /\ reader = "send"
  /\ reader' = "top" /\ who' = Nobody
  /\ UNCHANGED sessions /\ UNCHANGED NotReader

-----------------------------------------------------------------------------
(* The loop of replies: backend to every session that is not stale.        *)

NotServer == <<status, port, sockVars, sessions, readVars, sweepVars, beat, callVars>>

ServerQuit ==
  /\ Alive /\ server = "top" /\ quit = "closed"
  /\ server' = "done" /\ UNCHANGED togo /\ UNCHANGED NotServer

Known == {c \in Clients : sessions[c] # "none"}

Reply ==
  /\ Alive /\ server = "top" /\ remote = "open"
  /\ server' = "range" /\ togo' = Known /\ UNCHANGED NotServer

\* One session of the Range: sent, skipped because it is stale, or gone.
ReplyTo(c) ==
  /\ Alive /\ server = "range" /\ c \in togo
  /\ togo' = togo \ {c} /\ UNCHANGED server /\ UNCHANGED NotServer

ReplyEnd ==
  /\ Alive /\ server = "range" /\ togo = {}
  /\ server' = "top" /\ UNCHANGED togo /\ UNCHANGED NotServer

-----------------------------------------------------------------------------
(* The sweep, every 10 seconds, and the heartbeat.                         *)

NotSweeper == <<status, port, sockVars, readVars, serveVars, beat, callVars>>

SweeperQuit ==
  /\ Alive /\ sweeper = "wait" /\ quit = "closed"
  /\ sweeper' = "done"
  /\ UNCHANGED <<sessions, left, old>> /\ UNCHANGED NotSweeper

Sweep ==
  /\ Alive /\ sweeper = "wait"
  /\ sweeper' = "range" /\ left' = Known
  /\ UNCHANGED <<sessions, old>> /\ UNCHANGED NotSweeper

\* lastSeen is read here ...
Examine(c) ==
  /\ Alive /\ sweeper = "range" /\ c \in left
  /\ left' = left \ {c}
  /\ IF sessions[c] = "stale" THEN sweeper' = "delete" /\ old' = c
                              ELSE UNCHANGED <<sweeper, old>>
  /\ UNCHANGED sessions /\ UNCHANGED NotSweeper

\* Bug: the stale session is reported and kept.
DeleteNothing ==
  /\ Alive /\ sweeper = "delete"
  /\ sweeper' = "range" /\ old' = Nobody
  /\ UNCHANGED <<sessions, left>> /\ UNCHANGED NotSweeper

\* ... and here the session goes, whatever lastSeen is by now.
Delete ==
  /\ Alive /\ sweeper = "delete"
  /\ sessions' = [sessions EXCEPT ![old] = "none"]
  /\ sweeper' = "range" /\ old' = Nobody
  /\ UNCHANGED left /\ UNCHANGED NotSweeper

SweepEnd ==
  /\ Alive /\ sweeper = "range" /\ left = {}
  /\ sweeper' = "wait"
  /\ UNCHANGED <<sessions, left, old>> /\ UNCHANGED NotSweeper

BeatQuit ==
  /\ Alive /\ beat = "wait" /\ quit = "closed"
  /\ beat' = "done"
  /\ UNCHANGED <<status, port, sockVars, sessions, readVars, serveVars, sweepVars, callVars>>

\* Thirty seconds without a packet.
Age(c) ==
  /\ Alive /\ sessions[c] = "fresh"
  /\ sessions' = [sessions EXCEPT ![c] = "stale"]
  /\ UNCHANGED <<status, port, sockVars, goVars, callVars>>

Packet   == \E c \in Clients : ReadFrom(c)
Reading  == Packet \/ ReaderQuit \/ Touch \/ Send
Serving  == ServerQuit \/ Reply \/ (\E c \in Clients : ReplyTo(c)) \/ ReplyEnd
Sweeping == SweeperQuit \/ Sweep \/ (\E c \in Clients : Examine(c)) \/ Delete \/ SweepEnd

Next == Call \/ CallerStep \/ Reading \/ Serving \/ Sweeping \/ BeatQuit \/ \E c \in Clients : Age(c)

\* Goroutines run, tickers tick, time passes; nobody is owed a packet, a reply
\* or a call. A select with both cases ready picks either, so the sweep's way
\* out needs strong fairness.
Fairness ==
  /\ WF_vars(CallerStep)
  /\ WF_vars(ReaderQuit) /\ WF_vars(Touch \/ Send)
  /\ WF_vars(ServerQuit) /\ WF_vars((\E c \in Clients : ReplyTo(c)) \/ ReplyEnd)
  /\ WF_vars(Sweeping) /\ SF_vars(SweeperQuit) /\ WF_vars(BeatQuit)
  /\ \A c \in Clients : WF_vars(Age(c))

FairSpec == Init /\ [][Next]_vars /\ Fairness

-----------------------------------------------------------------------------
\* Wherever Start gives up it takes back what it had opened, and Stop leaves
\* no goroutine: a route that is down when a call returns uses nothing.
StoppedReleases ==
  pc = "idle" /\ status = "Stopped" =>
    AllEnded /\ "open" \notin {listener, remote}

\* A client that falls silent for good loses its session, even where the
\* sweep and its last packets met, as long as the route goes on running.
SilentAreForgotten ==
  \A c \in Clients :
    <>[](status = "Running" /\ who # c) => <>[](sessions[c] = "none")

\* The route as its callers see it.
Promise == INSTANCE RouteLifecycle
             WITH up <- status = "Running", held <- IF listener = "open" THEN {laddr} ELSE {}

\* One call at a time, the route implements the interface's promise.
KeepsPromise == Promise!Spec
=============================================================================
