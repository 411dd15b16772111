--------------------------- MODULE RouteLifecycle ---------------------------
(***************************************************************************)
(* What the Route interface (pkg/router/routeStats.go) promises a caller:  *)
(* a route is down and holds no port, or it is up and holds exactly the    *)
(* port of its configuration. It changes from one to the other at once.    *)
(***************************************************************************)
CONSTANT Ports

VARIABLES up, held      \* the route is running; the ports it listens on

Init == up = FALSE /\ held = {}

BringUp(p) ==
  /\ ~up
  /\ up' = TRUE /\ held' = {p}

TakeDown ==
  /\ up
  /\ up' = FALSE /\ held' = {}

Next == TakeDown \/ \E p \in Ports : BringUp(p)

Spec == Init /\ [][Next]_<<up, held>>
=============================================================================
