------------------------------- MODULE Services -------------------------------
(***************************************************************************)
(* The router's table of services and what its operations do to the routes *)
(* of a service (pkg/router/router.go, service.go).                        *)
(*                                                                         *)
(* Create, Update and Remove hold the router's lock to write, StartAll and *)
(* StopAll hold it to read, and the API's start and stop handlers only     *)
(* take it to look the service up. Each call is a list of things to do,    *)
(* one operation on one route at a time, so that calls which may overlap   *)
(* do. An operation on a route is a single step here: RouteLifecycle says  *)
(* what it promises, and TcpRoute when that promise is kept.               *)
(***************************************************************************)
EXTENDS Naturals, Sequences, FiniteSets, SequencesExt

CONSTANTS
  Callers,   \* goroutines that operate on the router
  Ids,       \* service ids, the slugs of their names
  Ports,     \* configurations of TCP and UDP routes, one per port
  Domains,   \* configurations of HTTP routes, one per domain
  MaxObjs,   \* bound: Service objects ever made
  MaxRoutes, \* bound: Route objects ever made
  Nobody     \* the holder of the free lock

ASSUME BoundsAssumption == MaxObjs \in Nat /\ MaxRoutes \in Nat
ASSUME ConfigsAssumption == IsFiniteSet(Ports \cup Domains)
ASSUME NobodyAssumption == Nobody \notin Callers

Nil    == 0
Objs   == 1..MaxObjs
Routes == 1..MaxRoutes
Cfgs   == Ports \cup Domains

VARIABLES
  services,        \* Router.Services: the object stored under each id, or Nil
  id, enabled,     \* Service.Id and Service.Enabled of the objects made so far
  routes,          \* Service.Routes of each of them
  cfg, up,         \* configuration and running status of the routes made so far
  todo,            \* what each caller's call has left to do
  writer, readers, \* Router.mu
  orderly          \* no call has begun in the middle of another, no name was taken twice

objVars == <<id, enabled, routes>>
vars == <<services, objVars, cfg, up, todo, writer, readers, orderly>>

Init ==
  /\ services = [i \in Ids |-> Nil]
  /\ id = << >> /\ enabled = << >> /\ routes = << >>
  /\ cfg = << >> /\ up = << >>
  /\ todo = [c \in Callers |-> << >>]
  /\ writer = Nobody /\ readers = {}
  /\ orderly = TRUE

-----------------------------------------------------------------------------
(* Things to do: an operation, the service object or route it is on, and   *)
(* a value it needs.                                                       *)

Entry(do, on, val) == [do |-> do, on |-> on, val |-> val]

Each(do, rs, val) ==
  LET q == SetToSeq(rs) IN [n \in 1..Len(q) |-> Entry(do, q[n], val)]

\* Service.Start and Service.Stop: every route in turn, then the flag.
StartService(o) == <<Entry("startEach", o, Nil), Entry("enable", o, TRUE)>>
StopService(o)  == <<Entry("stopEach", o, Nil), Entry("enable", o, FALSE)>>

Idle(c)     == todo[c] = << >> /\ writer # c /\ c \notin readers
Lock(c)     == Idle(c) /\ writer = Nobody /\ readers = {} /\ writer' = c /\ UNCHANGED readers
RLock(c)    == Idle(c) /\ writer = Nobody /\ readers' = readers \cup {c} /\ UNCHANGED writer
Begin(c, q) == todo' = [todo EXCEPT ![c] = q]

\* NewRoute for each configuration: routes that are down.
NewRoutes(fs) ==
  /\ Len(cfg) + Cardinality(fs) <= MaxRoutes
  /\ cfg' = cfg \o SetToSeq(fs)
  /\ up' = up \o [n \in 1..Cardinality(fs) |-> FALSE]

Numbers(fs) == Len(cfg) + 1 .. Len(cfg) + Cardinality(fs)

Create(c, i, en, fs) ==
  LET o == Len(id) + 1 IN
  /\ Lock(c) /\ o \in Objs
  /\ services[i] = Nil
  /\ services' = [services EXCEPT ![i] = o]
  /\ id' = Append(id, i) /\ enabled' = Append(enabled, en)
  /\ NewRoutes(fs) /\ routes' = Append(routes, Numbers(fs))
  /\ Begin(c, IF en THEN StartService(o) ELSE << >>)

\* Service.Update: routes whose configuration stays are updated, those whose
\* configuration is gone are stopped, new ones are made and, in an enabled
\* service, started, as is every route that is down in the end.
UpdateWork(o, j, en, fs) ==
  LET kept == {r \in routes[o] : cfg[r] \in fs}
      new  == Numbers(fs \ {cfg[r] : r \in kept})
  IN  (IF en THEN << >> ELSE StopService(o))
      \o Each("update", kept, Nil)
      \o Each("stopIf", routes[o] \ kept, o)
      \o Each("startIf", new, o)
      \o <<Entry("setRoutes", o, kept \cup new), Entry("ensureEach", o, Nil),
           Entry("rekey", o, j)>>

Update(c, i, j, en, fs) ==
  LET o == services[i] IN
  /\ Lock(c) /\ o # Nil
  /\ id' = [id EXCEPT ![o] = j] /\ enabled' = [enabled EXCEPT ![o] = en]
  /\ NewRoutes(fs \ {cfg[r] : r \in routes[o]})
  /\ Begin(c, UpdateWork(o, j, en, fs))
  /\ UNCHANGED <<services, routes>>

\* Bug: the routes of a removed service are left as they are.
RemoveWorkOnly(i) == <<Entry("delete", services[i], i)>>

RemoveWork(i) == <<Entry("stopEach", services[i], Nil), Entry("delete", services[i], i)>>

RemoveService(c, i) ==
  /\ Lock(c) /\ services[i] # Nil
  /\ Begin(c, RemoveWork(i))
  /\ UNCHANGED <<services, objVars, cfg, up>>

\* handleStartRoute and handleStopRoute: Router.Get, then no lock.
StartOne(c, i) ==
  /\ Idle(c) /\ writer = Nobody /\ services[i] # Nil
  /\ Begin(c, StartService(services[i]))
  /\ UNCHANGED <<services, objVars, cfg, up, writer, readers>>

StopOne(c, i) ==
  /\ Idle(c) /\ writer = Nobody /\ services[i] # Nil
  /\ Begin(c, StopService(services[i]))
  /\ UNCHANGED <<services, objVars, cfg, up, writer, readers>>

Stored == {services[i] : i \in Ids} \ {Nil}

\* Two things to do for each service, one service after the other.
InTurn(q, Work(_)) ==
  [n \in 1..2 * Len(q) |-> IF n % 2 = 1 THEN Work(q[(n + 1) \div 2])[1] ELSE Work(q[n \div 2])[2]]

\* Iterating over the map gives the services in any order.
StartAll(c) ==
  /\ RLock(c)
  /\ \E q \in SetToSeqs(Stored) : Begin(c, InTurn(q, StartService))
  /\ UNCHANGED <<services, objVars, cfg, up>>

StopAll(c) ==
  /\ RLock(c)
  /\ \E q \in SetToSeqs(Stored) : Begin(c, InTurn(q, StopService))
  /\ UNCHANGED <<services, objVars, cfg, up>>

-----------------------------------------------------------------------------
(* Doing them.                                                             *)

Do(c, do)      == todo[c] # << >> /\ Head(todo[c]).do = do
On(c)          == Head(todo[c]).on
Val(c)         == Head(todo[c]).val
Done(c)        == todo' = [todo EXCEPT ![c] = Tail(@)]
DoneThen(c, q) == todo' = [todo EXCEPT ![c] = q \o Tail(@)]

\* A TCP or UDP route needs its port, which another one may hold, and may
\* fail for other reasons; an HTTP route always starts.
StartRoute(r) ==
  \E ok \in BOOLEAN :
    /\ ok => cfg[r] \in Domains \/ \A q \in DOMAIN cfg \ {r} : up[q] => cfg[q] # cfg[r]
    /\ cfg[r] \in Domains => ok
    /\ up' = [up EXCEPT ![r] = ok]

StopRoute(r) == up' = [up EXCEPT ![r] = FALSE]

\* Bug: the flag is not looked at.
WantedAlways(o) == TRUE

\* The tests of svc.Enabled in Service.Update.
Wanted(o) == enabled[o]

\* Route.Start, Stop and Update. Update stops and starts a TCP or UDP route
\* whatever it was doing, and only replaces an HTTP route's configuration.
RouteStep(c) ==
  /\ \/ Do(c, "start") /\ StartRoute(On(c))
     \/ Do(c, "stop") /\ StopRoute(On(c))
     \/ Do(c, "update") /\ cfg[On(c)] \in Ports /\ StartRoute(On(c))
     \/ Do(c, "update") /\ cfg[On(c)] \in Domains /\ UNCHANGED up
     \/ Do(c, "startIf") /\ Wanted(Val(c)) /\ StartRoute(On(c))
     \/ Do(c, "stopIf") /\ Wanted(Val(c)) /\ StopRoute(On(c))
     \/ Do(c, "ensure") /\ ~up[On(c)] /\ StartRoute(On(c))
     \/ Do(c, "startIf") /\ ~Wanted(Val(c)) /\ UNCHANGED up
     \/ Do(c, "stopIf") /\ ~Wanted(Val(c)) /\ UNCHANGED up
     \/ Do(c, "ensure") /\ up[On(c)] /\ UNCHANGED up
  /\ Done(c)
  /\ UNCHANGED <<services, objVars, cfg, writer, readers>>

\* Loops over the service's routes as they are when the loop begins.
LoopStep(c) ==
  /\ \/ Do(c, "startEach") /\ DoneThen(c, Each("start", routes[On(c)], Nil))
     \/ Do(c, "stopEach") /\ DoneThen(c, Each("stop", routes[On(c)], Nil))
     \/ Do(c, "ensureEach") /\ Wanted(On(c)) /\ DoneThen(c, Each("ensure", routes[On(c)], Nil))
     \/ Do(c, "ensureEach") /\ ~Wanted(On(c)) /\ Done(c)
  /\ UNCHANGED <<services, objVars, cfg, up, writer, readers>>

ServiceStep(c) ==
  /\ \/ Do(c, "enable") /\ enabled' = [enabled EXCEPT ![On(c)] = Val(c)] /\ UNCHANGED routes
     \/ Do(c, "setRoutes") /\ routes' = [routes EXCEPT ![On(c)] = Val(c)] /\ UNCHANGED enabled
  /\ Done(c)
  /\ UNCHANGED <<services, id, cfg, up, writer, readers>>

\* The end of Router.Update: the object moves to its id, over any other there.
KeyFor(o) == CHOOSE i \in Ids : services[i] = o

\* Bug: the service stays under its old id as well.
MovedTwice(o) == [services EXCEPT ![id[o]] = o]

Moved(o) ==
  IF id[o] = KeyFor(o) THEN services ELSE [services EXCEPT ![id[o]] = o, ![KeyFor(o)] = Nil]

TableStep(c) ==
  /\ \/ Do(c, "rekey") /\ services' = Moved(On(c))
     \/ Do(c, "delete") /\ services' = [services EXCEPT ![Val(c)] = Nil]
  /\ Done(c)
  /\ UNCHANGED <<objVars, cfg, up, writer, readers>>

Unlock(c) ==
  /\ todo[c] = << >> /\ (writer = c \/ c \in readers)
  /\ writer' = IF writer = c THEN Nobody ELSE writer
  /\ readers' = readers \ {c}
  /\ UNCHANGED <<services, objVars, cfg, up, todo>>

Working(c) == RouteStep(c) \/ LoopStep(c) \/ ServiceStep(c) \/ TableStep(c) \/ Unlock(c)

Next ==
  \E c \in Callers :
    \/ \E i \in Ids, en \in BOOLEAN, fs \in SUBSET Cfgs : Create(c, i, en, fs)
    \/ \E i, j \in Ids, en \in BOOLEAN, fs \in SUBSET Cfgs : Update(c, i, j, en, fs)
    \/ \E i \in Ids : RemoveService(c, i) \/ StartOne(c, i) \/ StopOne(c, i)
    \/ StartAll(c) \/ StopAll(c)
    \/ Working(c)

\* History: calls came one at a time, and none took the id of another service.
Alone == \A c, e \in Callers : ~Idle(c) /\ ~Idle(e) => c = e
Displaces == \E i \in Ids : services[i] # Nil /\ services'[i] \notin {services[i], Nil}
Orderly == orderly' = (orderly /\ Alone' /\ ~Displaces)

Spec == Init /\ [][Next /\ Orderly]_vars

-----------------------------------------------------------------------------
AtRest == \A c \in Callers : Idle(c)

\* Whatever overlaps, a service is found under its own id and only there,
\* once the call that renames it has let go of the lock.
KeyedById ==
  writer = Nobody => \A i \in Ids : services[i] # Nil => id[services[i]] = i

\* As long as calls come one at a time and no name is taken twice: when nothing
\* is under way, only routes of stored services run. Removed services, routes an
\* update dropped and routes of a service it disabled have all been stopped.
NoStrayRoutes ==
  orderly /\ AtRest => \A r \in DOMAIN cfg : up[r] => \E o \in Stored : r \in routes[o]

\* As long as calls come one at a time: a route runs in a service that is
\* enabled, or in one an update left disabled while it restarted the route.
DisabledServesNoHttp ==
  orderly /\ AtRest => \A o \in Stored : ~enabled[o] => \A r \in routes[o] : up[r] => cfg[r] \in Ports

\* "Red (Stopped): Service is disabled" (dashboard/src/lib/utils.ts:16): when
\* nothing is under way, a disabled service has no running route.
DisabledIsStopped ==
  AtRest => \A o \in Stored : ~enabled[o] => \A r \in routes[o] : ~up[r]
===============================================================================
