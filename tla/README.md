# Warptail in TLA+

Models, model checks and machine-checked proofs about warptail (`src/`), a reverse proxy
in Go that publishes services of a Tailscale tailnet: TCP and UDP ports and HTTP domains
on the public side, machines of the tailnet on the other. A React dashboard configures it
through a REST interface; a YAML file or Kubernetes objects are the other ways.

Contents: 1 the system, 2 the modules, 3 what is checked, 4 fairness, 5 what is proved,
6 what the checks say about the code, 7 abstractions, 8 what is not modelled, 9 what could
follow, 10 how to run.

## 1. The system

### The server

`main.go` reads the configuration file, makes the `Router`, a configuration or Kubernetes
controller and the API, runs `Router.Init` in a goroutine and the HTTP server in the main
one. All of it lives in one process and shares memory; there is no queue and no persisted
state but the file, the user database and the cluster objects.

| component | state it keeps | operations | who calls it | what is hard |
|---|---|---|---|---|
| TCP route (`router/tcpRoute.go`) | `status`, `config`, listener, `quit`, context, wait group, `activeConns` | `Start`, `Stop`, `Update` under `route.mu`; accept loop, heartbeat, a handler and two copies per connection without it | its service | goroutines read `route.quit`, `route.ctx`, `route.listener` without the lock, and `Stop` waits without it |
| UDP route (`router/udpRoute.go`) | the same with two sockets, and a table of client sessions | the same; reader, reply loop, sweep, heartbeat | its service | a `Start` with four ways to fail; sweep against refresh |
| HTTP route (`router/httpRoute.go`) | `status`, `config`, one ticker field | `Start`, `Stop`, `Update`, `Handle`, one heartbeat goroutine per `Start`; no lock at all | its service; the proxy for every request | every field is raced for |
| Service (`router/service.go`) | id, name, enabled, routes | `Update`, `Start`, `Stop` | router; the API's start and stop handlers without the router's lock | an update is a list of route operations, any of which may fail |
| Router (`router/router.go`, `tailscale.go`) | services by id, ready flag, tailnet server | `Init`, `Reload`, `Create`, `Update`, `Remove`, `StartAll`, `StopAll`, `Save` | API, watcher, reconciler, `main` | locks held across `Stop`, renames |
| Config controller (`controller/config_controller.go`) | `lastHash`; the file | `Update` (save), `Watch` | `Router.Save`; fsnotify | saves, watcher and other editors share a file nobody locks |
| Kubernetes (`controller/k8_controller.go`, `controller/kubernetes/`) | cluster objects | `Reconcile`; builders of service, ingress and certificate | the manager; `Router.Save` | conflicts, retries, finalizers, names |
| API (`api/`) | none | REST handlers, `readyz`, metrics | the dashboard | one goroutine per request |
| Authentication (`auth/`) | session cookies, users in the database | middleware, login, OpenID callback, user handlers | clients | cookie against header, find-then-create |
| Bot protection (`botProtect/challenge.go`) | store of challenges | middleware, verify, sweep | clients | two writers of one entry |
| Time series and logs (`utils/`) | points and totals; log buffers | `LogSent`, `LogRecived`; `GetLogs` | routes; API | bounded store, copies made without its lock, reads that empty in steps |
| Install and upgrade (`cmd/`) | files on disk | `Install`, `Update` | the operator | a crash between two renames |

An API request decodes a configuration and calls the router, which takes its lock, changes
the table and calls the routes of the service, each of which takes its own lock; the
handler then calls `Router.Save`, and the config controller copies the table, loads the
file, merges the two and writes the file. The write wakes the watcher, another goroutine,
which compares a hash and calls `Router.Reload`, whose operations are the same ones again.
The start and stop handlers release the router's lock before they work on the service. A
request for a published domain looks the route up under the router's lock and calls
`HTTPRoute.Handle` without any.

### The dashboard

A single-page React program (`src/dashboard/src`). Its data lives in the *query cache* of
TanStack Query: an entry per key, at most one request in flight per key; mounting a page,
a timer, a window that regains focus or an *invalidation* asks again, and an invalidation
discards what was in flight before where there is data to show meanwhile: a first load is
waited for. A query that is asked again without data is loading again, not failed. Changes are *mutations*, whose `onSuccess` runs
whenever the answer comes, wherever the user has gone since. One thread runs it all, but
answers arrive in any order, and the server has other administrators.

| component | state it keeps | operations | what is hard |
|---|---|---|---|
| Session and sign-in (`context/AuthContext.tsx`, `LoginPage.tsx`, `Protected.tsx`, `routes/password-reset`, `routes/profile`) | the token, also in `sessionStorage`; a cached profile per token; with the server's cookie | sign-in by password and OpenID, two logouts, `checkToken`, effects that redirect, saving a user | the server prefers the cookie to the header; three pages redirect to each other on data that may be stale |
| Service pages (`ServiceCard.tsx`, `ServiceList.tsx` and their routes) | cached services and list; the draft of an edit page | start, stop, create, save with a rename, delete, polling | answers overtaken by mutations, drafts overtaken by answers, late successes |
| Route form (`RouteEditCard.tsx`, `TailscaleHost.tsx`, `AdvancedHttpSettings.tsx`) | the draft's routes, made of the cache's objects | one handler per field; save | a draft and the cache share maps; routes without keys |
| Administration and logs (`routes/users`, `UserForm.tsx`, `settings.lazy.tsx`, `components/logs`) | dialogs, the settings being edited, lines shown | create, edit, delete users; save the tailnet's settings; read logs | logs that forget what they hand out; dialogs over lists that change |
| Charts, states and passwords (`ChartCard.tsx`, `lib/utils.ts`, `RouteStatusCard.tsx`, `PasswordStrengthMeter.tsx`) | the selected route, the sorting | aggregation, interpolation, smoothing, health, sorting, strength | rounding, gaps, an index that outlives its route |
| Banner, UI kit, generated code | - | - | - |

### What makes each part correct

- a route: it is down and holds nothing, or up and serving its current configuration;
  calls return; a `Stop` cuts the clients; no interleaving of calls takes the process down;
- a service and the table: every running route belongs to a stored, enabled service under
  its own id;
- the file: once everything is quiet it and the table say the same, and whatever happens
  the settings without which the program does not start stay in it;
- the session: the account shown is the token's, a logout leaves nothing of it behind, the
  redirects come to rest on a page that fits;
- the service pages: what is typed stays, what was acknowledged is not followed by older
  data, and a page ends up showing the service as the server has it, or as nothing;
- the route form: an edit changes the route it is for and nothing outside the draft, and
  what is saved comes back as it was typed;
- administration: tables follow what was acknowledged, log lines come once, in order and whole
  unless somebody else reads too;
- the charts and states: totals, lines and words agree with each other and with the data,
  up to the traffic that flows while they are put together.

`PROJECT.json` lists every hazard found in this survey at its line, with the properties
that cover it or why none does.

## 2. The modules

| module | models | source |
|---|---|---|
| `RouteLifecycle` | abstract: the promise of the `Route` interface | `routeStats.go` |
| `TcpRoute` | one TCP route, overlapping calls included | `tcpRoute.go` |
| `UdpRoute` | one UDP route and its sessions | `udpRoute.go` |
| `HttpRoute` | the status and the heartbeats of an HTTP route | `httpRoute.go` 72-80, 261-288 |
| `Services` | the router's table, services and what operations do to routes | `router.go`, `service.go` |
| `ConfigSync` | file, saves, watcher, reload, init, crash | `config_controller.go`, `router.go`, `tailscale.go`, `main.go` |
| `Session` | who is signed in and on which page, with the server's side of it | `AuthContext.tsx`, `LoginPage.tsx`, `auth/` |
| `ServicePages` | list, view and edit pages over the cache | `ServiceCard.tsx`, `ServiceList.tsx`, `routes/routes` |
| `RouteForm` | every field of a route on the edit page, the save, the server's decoding | `RouteEditCard.tsx`, `TailscaleHost.tsx`, `AdvancedHttpSettings.tsx` |
| `AdminPages` | users, tailnet settings, logs | `routes/users`, `settings.lazy.tsx`, `components/logs`, `utils/` |
| `Display` | what is computed of what was fetched; the server's time series | `ChartCard.tsx`, `lib/utils.ts`, `timeseries.go` |
| `MCTcpRoute`, `MCServices`, `MCSession`, `MCRouteForm`, `MCDisplay` | values and symmetry for TLC | |
| `TcpRoute_proofs`, `Services_proofs`, `ConfigSync_proofs`, `Session_proofs`, `ServicePages_proofs`, `RouteForm_proofs` | theorems about the module of the name | |
| `Routes_proofs` | theorems about `UdpRoute` and `HttpRoute` | |
| `AdminPages_proofs` | theorems about `AdminPages` and `Display` | |

`map` in `PROJECT.json` gives the lines behind each definition.

**RouteLifecycle** is what everybody above a route relies on: `up` and the set of ports
`held`, changing together. `TcpRoute` and `UdpRoute` implement it under a refinement
mapping (`up` is the status "Running", `held` the port of the open listener), checked as
the property `KeepsPromise`; `Services` uses an operation on a route as the single step
that it describes.

**TcpRoute.** A *generation* is one run of the body of `Start`: it makes a quit channel, a
context and a listener, which all carry its number. `quit` and `listener` are the numbers
in the route's fields; `cancelled`, `closed` and `open` the sets of contexts, channels and
listeners in that condition. Each caller has a position in `Start`, `Stop` or `Update`;
each generation an accept loop and a heartbeat; each connection a handler. A goroutine's
step reads `quit` or `listener` as they are at that moment, exactly as the code reads the
fields without the lock. `select` in the heartbeat captures the channel when it begins
(`hbq`), and `Accept` the listener (`at`). A section under `route.mu` is one step, but
for the one of `Stop`, which is two (`StopBegin`, `StopClose`), because it cancels and
closes things that goroutines observe in between; `mu` is held across them. `WaitGroup` is
its counter and the parked and woken waiters, with the panic of a group that is used again
before a released waiter has run.

**UdpRoute.** The same calls, one at a time, with the four ways in which `Start` gives up
as four actions; the reader's LoadOrStore and its later update of `lastSeen` are two steps
and so are the sweep's look at `lastSeen` and its Delete. Time is the action `Age`, which
makes a session older than its 30 seconds at any moment.

**HttpRoute.** One position per heartbeat goroutine and one ticker field, each read and
write of the field a step of its own. A `Start` of a running route, and one within the five
seconds after a stop, adds a heartbeat to the old one. `calm`, chosen in the initial state,
restricts the runs to those in which no `Stop` meets two heartbeats and no `Start` one that
is ending.

**Services.** A call under the router's lock is a list of things to do, taken one route
operation at a time, so that the API's lock-free start and stop handlers interleave with
it; `StartAll` and `StopAll` walk the map of services in any order (`InTurn`). There are
finitely many ports and domains to configure (`ConfigsAssumption`), without which a list of
things to do would not end. Objects are numbered in the order they are made: a service keeps its number when it
is renamed, a route belongs to no service any more when an update drops it. Starting a TCP
or UDP route may fail and does where another running route has its port. `orderly` is a
history variable: calls have come one at a time so far and none took the id of another
service.

**ConfigSync.** The router's operations are single steps here. A save is the code's
sequence: copy the table (`TakeAll`), load and merge (`LoadFile`), take the tailnet's key
(`TakeKey`) and the hash (`TakeHash`), truncate (`Truncate`), write (`Write`). The watcher is `HashFile`, `Compare`,
`Load`, `Tailscale`, `Up`, then `DoesExists` and `Adopt` for each service and
`DeleteOthers`. `Init` runs while both already do. `Edit` is somebody else replacing the
file, `Crash` and `Restart` the program dying and reading it again. `hasty`, chosen in the
initial state, says whether requests and edits may come at any time (and the tailnet fail
and its settings be saved) or each to a settled program.

**Session.** The token in the provider and the one in `sessionStorage` are written together
and are one variable; the cookie is another, and every request is judged as the middleware
does it, by the cookie first. A profile query is asked, read by the server and answered in
three steps, one per token at a time. The page's effects are one action, `Effects`: a
component's effect runs when it is mounted and when what it depends on has changed, so
`ran` keeps the values of its last run and `Deps` says what they are now. `UserActs` is
what the user does, at most `MaxActs` times; the rest is React's, the network's and time's.

**ServicePages.** The server's service is a version number taken from a counter of all
writes, so that "older" and "newer" are comparisons. `cache` and `flight` are the two halves
of a query; `Again` is what an invalidation does to them, `Old` what it marks; `Asked` is a
query that has been asked again, which without data has forgotten its error. A mutation is
sent, served and answered; `Succeed` is its `onSuccess`, with the page as it is *then*. The
draft is `ServiceCard`'s state and lives as long as its component does.

**RouteForm.** One action per handler of the three cards, on a list of routes. The draft
says which of its header maps are the cache's objects (`shares`); the handlers that rename,
fill and remove a header write into the map in place, and so into the cache with it.
`ServeSave` is the server's `UpdateService`: decoding, which ignores errors, and validation.
`Picked` is the filtering of a list (`removeRoute`, `Service.Update`) by the places that
stay: its k-th element is at the k-th of them. `Routes` is the type of a route as the
server declares it, which `StartsAssumption` asks of the routes it begins with, and nothing
more: they need not be valid.

**AdminPages.** The two queries are asked, read and answered like those of `ServicePages`,
abstracted to the number of writes the server had taken. The access and error logs are
queries of a kind of their own. The server's scanner empties the buffer read by read
(`ReadLog`), until a read finds nothing (`ServeLog`) or a line is too long (`ScanTooLong`);
between two reads another request's scanner may take some (`Drain`). A line is therefore two
halves, the least a read can split it into. The viewer adds what is cached to what it shows;
`lost` is a history of halves nobody saw. `Again` and `LogAgain` discard what is in flight
only where there has been an answer.

**Display.** The algorithms are operators and folds (`GetLast10MinutesData`, `MovingAverage`,
`GetServiceHealth`, `SortedNodes`, `Strength`), applied to every state the data can be in:
time series are made by the server and ticks of time, nodes and statuses by answers,
passwords by typing. `Add` runs under the mutex of its series and is three steps, because
`Stats` reads without it: `LogTraffic` puts the traffic into the last point or a new one,
`Drop` drops the oldest, `Recount` stores the total. An answer is put together route by route
(`TakePoints`, `TakeTotal`) and encoded later (`Encode`); until then its last points are
those of the series, and grow with them (`Shared`). `slack` is what came and went meanwhile. `SortedNodes` puts a node in the k-th place if the comparison puts
k - 1 before it, which is what any stable sort does. One screen is looked at at a time, so that the screens' data do not
multiply.

## 3. What is checked

Passing runs:

| run | instance | distinct states | properties |
|---|---|---|---|
| `tcp_serial` | 1 caller, 1 connection, 1 port, 3 generations, fair | 15 thousand | `StoppedIsQuiet`, `SoleGeneration`, `NeverCrashes`, `KeepsPromise`, `SignalStopsGoroutines`, `CallsReturn` |
| `tcp_concurrent` | 2 callers, 1 connection, 2 ports, 2 generations | 1.3 million | `TypeOK`, `NoDoubleClose`, `WgCountsGoroutines`, `RunningListens`, `StopCutsClients` |
| `udp` | 2 clients, 2 ports, any number of calls, fair | 53 thousand | `StoppedReleases`, `SilentAreForgotten`, `KeepsPromise` |
| `http_beats` | 3 starts, any number of stops, fair | 18 thousand | `CalmIsMeasured`, `StoppedGoesSilent` |
| `svc` | 2 callers, 2 ids, a TCP and an HTTP configuration, 2 services, 2 routes | 1.5 million | `NoStrayRoutes`, `DisabledServesNoHttp`, `KeyedById` |
| `sync` | 1 caller, 1 service, 2 requests, 1 edit, 1 crash, 2 queued events | 1.9 million | `TypeOK`, `FileCanStart`, `AgreesAtRest` |
| `session` | 2 users, an administrator's and a user's token, both ways to sign in, 4 acts, fair | 137 thousand | `OwnerShown`, `LogoutForgets`, `RedirectsSettle` |
| `service_pages` | 2 services, 3 acts, fair | 305 thousand | `TypeOK`, `DraftKept`, `AckedStays`, `Converges` |
| `route_form` | a service of one or two routes, 1 host, 2 headers, 3 numbers, 3 edits | 70 thousand | `OnlySentHeadersLeak`, `SavedIsShown`, `EditsOneRoute` |
| `admin` | 1 user, 1 log of 2 lines in halves, 3 acts, fair | 287 thousand | `LinesInOrder`, `TypedKept`, `AckedShown` |
| `display` | 2 routes, 7 ticks, a window of 6, 3 units of traffic, 2 during an answer, 3 nodes, passwords of 9 | 232 thousand | `ChartAddsUp`, `ChartFollows`, `HealthAgrees`, `TableSorted`, `AcceptedIsStrong` |

What they show:

- With one caller a TCP route keeps the promise of its interface; the goroutines of a
  generation end with it; every call returns. The second and third generation are there
  because what goes wrong needs a goroutine of one to meet the channel of the next.
- With two callers the lock alone still guarantees that no channel is closed twice, that a
  running route has its listener, that the wait group counts what it should, and that a
  stop cuts every client, one accepted in the middle of the stop included. Two generations
  and two callers are the least with which a Start can run inside a Stop.
- A UDP `Start` that gives up at any of its places has released what it had opened, and a
  silent client's session goes although sweep and reader race for it.
- HTTP heartbeats are harmless and do their work, although starts of a running route and
  soon after a stop leave two with one ticker, until a stop meets both or a start one that
  is ending; and a stopped route is in the end not pinged any more, whatever was left behind.
- Whatever overlaps, the table keeps each service under its own id; and as long as calls
  come one at a time and no rename takes a name, no running route is stranded and a
  disabled service serves no HTTP domain. One model holds both: `orderly` tells them apart.
- Changes that come one by one to a settled program leave the router serving what the file
  says on the tailnet it names, though the watcher reloads the program's own writes and may read a file that is
  just being written. At any time, with failures of the tailnet and changes of its
  settings, a single caller never loses the settings the program needs to start.
- Where users sign in by password, one sign-in at a time, the dashboard shows the account
  its token is of, though the server goes by the cookie and answers come late; a logout
  leaves no profile of any token cached or on its way; and however stale what they look at
  is, the redirects of the pages come to rest where they should. Two tokens are there
  because a wrong account needs the cookie of one and the header of the other.
- What is typed on an edit page is changed by typing alone; an answer older than a change
  the page was told of never follows it; and once writes and clicks end, a view page shows
  the server's service or, where there is none, its error or that it is loading, with answers lost, renames onto addresses
  others use and a second administrator. Three acts are enough for a page to be left
  for another and returned to with a mutation of the first visit still on its way.
- Every handler of the route form changes the route it was called for; the one thing that
  gets out of a draft into the cache are headers of tables the server had filled; a draft
  the server accepts comes back as it was typed.
- Log lines appear in order, once, and what is missing between the first and the last, or
  of a line of which half is shown, is what a discarded or failed answer or another reader
  had drained. Two lines of two halves are the least with which readers can splice two lines
  into one. Tables come to rest on an answer read after the change they were told of. A first
  load on its way is not discarded by the invalidation, but whoever has changed something
  began from a form made from data, so there is none to fear. Three clicks are the least for
  a change: open a dialog, submit, and go somewhere else or meet a loss.
- The total above a chart is that of the points below it but for the traffic of the moment
  in which the server put the answer together, and exactly that without any; its line has no gap, no
  overshoot and ends where the data do (gaps of one, two and three intervals occur, which
  are the cases of the rounding); the word for a service's health agrees with the colours
  of its routes; an accepted password is called strong.

One run ends in a violation, of a sentence of the repository:

| run | property | instance |
|---|---|---|
| `svc_disabled_runs` | `DisabledIsStopped` | as `svc`, with 1 caller and 3 routes |

Bounds. `MaxStarts` bounds generations (TCP) and heartbeats (HTTP), `MaxObjs` and
`MaxRoutes` the objects made, `MaxOps`, `MaxEdits` and `MaxCrashes` the events from outside,
`MaxActs` what users, networks and other administrators do, `MaxEvents` the queue of write
events, in which inotify merges an event with an equal one before it, `MaxLines` the lines
of a log, `MaxTime`, `MaxTraffic`, `MaxSlack` and `MaxLength` the data of `Display`; `UdpRoute`
needs none. `admin` was also run once with four acts (four minutes). The
symmetry of `tcp_concurrent` and `svc` meets no liveness property. Deadlock is looked for in
`tcp_serial` and `svc`; the others come to rest rightly: after a crash, or once every
bounded event has happened, or because a screen with nothing to do waits for its user.

## 4. Fairness

`TcpRoute!Fairness`, `UdpRoute!Fairness` and `HttpRoute!HttpFairSpec` state what the Go runtime
gives: a goroutine that can run does (weak fairness of each caller, loop and heartbeat); a
`select` with several ready cases picks at random, so the case that leaves it is taken in
the end although a ticker competes (strong fairness of the heartbeat's and the sweep's way
out); tickers tick. Nothing is assumed of the outside: no connection or packet has to
arrive, no backend to answer, no client to hang up, nobody to call. `Accept` and `ReadFrom`
owe a return only once their socket is closed.

The dashboard's specifications state what React, timers, the server and a network that
answers or fails give, all by weak fairness: in `Session` effects run, `checkToken`'s
interval goes on, requests are answered or lost; in `ServicePages` a view page's timer
fires, the server reads and an answer that is not lost arrives; in `AdminPages` the latter
two. Nobody is owed a click, and the mutations of `ServicePages` and `AdminPages` no
answer: a save that never comes back is within their specifications. `Services`, `ConfigSync`, `RouteForm` and `Display` have no
liveness property and no fairness.

## 5. What is proved

For every value of the constants, from the `ASSUME`s of the modules alone. `Routes_proofs` and
`AdminPages_proofs` each extend two modules with no constant or variable in common, whose
specifications they speak of one by one; the names of `HttpRoute` and `Display` that would
meet those of the other module begin with `Http` and `Display`.

`TcpRoute_proofs` (any callers, connections, ports and number of generations; calls
overlap freely):

- `TypeCorrect`: `TypeOK`.
- `QuitClosedOnce`, `RunningMeansListening`, `StopCuts`: `NoDoubleClose`, `RunningListens`,
  `StopCutsClients`. None is inductive. `IInv` adds what they rest on: the lock is held
  across steps only between the two halves of a `Stop`, whose channel is then open, its
  context cancelled and the status no longer "Running" (`LockInv`); generations are used in
  order, so a new one has no channel, listener or goroutine yet (`FreshInv`); the current
  generation of a running route is open, and a channel is closed only after its context is
  cancelled (`CurrentInv`); a running route that is not on its configured port has a caller
  that is about to restart it (`PortInv`). `Inductive` proves `IInv` with one lemma for the
  callers and one each for loops, heartbeats and handlers.

- `WgCounts`: `WgCountsGoroutines`, by the cardinalities of the sets of live loops and
  heartbeats before and after each step; only a `Start` adds to them, one of each.
- `StoppedAndQuiet`, `OneGeneration`, `SerialSurvives`: `StoppedIsQuiet`, `SoleGeneration`,
  `NeverCrashes`, under the hypothesis `OneCaller`, without which they are false (section 6).
  They rest on `Serial`, which proves `SerialInv` next to `IInv`: goroutines of earlier
  generations are over and the wait group counts those of the current one (`SoleInv`); what
  each status says of the sockets and goroutines (`StatusInv`); and that a call past the
  wait of its `Stop` has nothing left to wait for (`PositionInv`).
- `SerialRefines`: `KeepsPromise`, the refinement of `RouteLifecycle`, under `OneCaller`: a
  `Start` that listens maps to coming up, the step of a `Stop` that closes the socket to
  coming down, and the other steps of calls and goroutines to stutters.

`Routes_proofs`, of `UdpRoute` (any clients and ports):

- `TypeCorrect`: `TypeOK`.
- `StoppedHasReleased`: `StoppedReleases`. The invariant `DownInv` adds what the sockets and
  goroutines are at every position of a call, so that each of the four places where `Start`
  gives up, and the end of `Stop`, has what it needs.
- `Refines`: `KeepsPromise`, the refinement of `RouteLifecycle`: the initial state maps to
  its initial state, and every step of the route maps to going up with the configured port,
  to coming down with none, or to a stutter.

and of `HttpRoute` (any number of starts):

- `HttpTypeCorrect`: `HttpTypeOK`.
- `CalmMeasured`: `CalmIsMeasured`. `CalmInv` says that the ticker in the field runs wherever a
  heartbeat is about to use it, as does the one a heartbeat waits for (`Ticks`): a heartbeat
  that ends is alone, because the route is stopped and has one at most, and nothing is
  started before it is over.

`Services_proofs` (any callers, ids, services and routes; finitely many configurations):

- `TypeCorrect`: what is left to do is about services and routes that have been made.
- `TableIsKeyed`: `KeyedById`, whatever requests overlap. An update gives the service its
  new id long before it moves it in the table, so the property speaks of a free lock and is
  not inductive. `KeyInv` says who makes it good: no object is stored twice, one under another
  key than its id has the holder of the write lock about to move it, that move is the last
  thing the holder does, and what everybody else has left to do leaves the table alone.
- `NothingStrays`, `DisabledIsSilent`: `NoStrayRoutes` and `DisabledServesNoHttp`, which speak
  of the moments at which no call is under way. `OrderInv` says what holds then (`Calm`) and
  what a call may have upset by its next step (`Fine`): which things can be left to do
  together (`Shape`); that a route to be started belongs to a stored service, and one to be
  dropped or deleted is still to be stopped if it runs (`Owned`); that a running route is in
  a stored service or in the list the update is about to store (`Placed`); and that an HTTP
  route runs in a service that is enabled, about to be, or about to stop it (`Flagged`).

  The three steps of `Inv` (`InitInv`, `StepInv`, `InvSays`) take `todo[c]` as a set, `Left(c)`:
  `Begun` says what a call puts into that set, `Becomes` what a step takes out of it and puts
  in, and `Ordered` keeps the little of the order that matters: the table comes last, and a
  new list of routes between what is done to the old ones and to the new ones. TLC checked
  the conjuncts of `Inv` with two callers and two routes, and with one caller and three
  routes, before the proof was begun. Two assumptions: finitely many configurations, and that `Nobody`, which
  stands for a free lock, is no caller.

`ConfigSync_proofs`:

- `TypeCorrect`: `TypeOK`, for any number of requests, edits, crashes and callers.
- `OneCallerKeepsSettings`: with one API caller, `FileCanStart`. The invariant adds that
  what a request is about to write has the settings (`ConfInv`), which holds because a
  single caller never loads the file it has itself truncated. With two callers it is false
  (section 6), so the hypothesis `OneCaller` cannot go.
- `SettledAgrees`: `AgreesAtRest`, for any number of callers, services, keys, changes and
  crashes. It is a statement about the end of a run of the save, the watcher and the reload;
  `CalmInv` says what each position of theirs has yet to make good. A request finds
  everything at rest and is alone until it writes (`OneAtATime`); `Init` has put into the
  table what it no longer misses (`Filling`); what is going to be written is the router as
  the request left it (`Copied`). In the middle of the write the file is empty, and a
  watcher that has seen that has lost the hash, so that the end of the write looks new to it
  (`Halfway`). Otherwise a hash that is the file's means that its services are in the table
  or will be when the reload under way is over (`Due`). TLC checked `CalmInv` with two
  callers, and with two services and two keys, before the proof was begun.

`Session_proofs` (any users, tokens and ways to sign in):

- `TypeCorrect`: `TypeOK`.
- `LogoutForgotten`: `LogoutForgets`, which is inductive with `TypeOK`: it speaks of all
  tokens at once, those held earlier included, and without a token no step starts a request.
- `OwnerIsShown`: `OwnerShown`. `OwnInv` follows the token from where it comes: the cookie
  holds the token held or none (`TokenInv`), a token in the address is the cookie's and is
  taken before anything else (`UrlInv`), one sign-in is under way (`OneAsk`), so a profile is
  asked for as its own token and answered with its owner (`ServedInv`). With OpenID `UrlInv`
  is false, which is why the property asks for passwords.

`ServicePages_proofs` (any services and bound):

- `TypeCorrect`: `TypeOK`, with the numbers of writes that keep versions in their range
  (`Counted`, `WrittenInv`).
- `DraftIsKept`: `DraftKept`, action by action: each either leaves the draft, or leaves the
  page, or is `Type`.
- `AckedStaysShown`: `AckedStays`. `FreshInv`: the server's version is at least every one it
  has reported, or the service is gone, and an answer on its way to the page was read after
  what the page was told of. That is where the invalidation's discarding is used, and
  `HeldInv`, that a page which has been told of something holds data: without it a first load
  would be left on its way.

`AdminPages_proofs` (any users and bounds, any number of lines):

- `LinesStayInOrder`: `LinesInOrder`. Half a line is in the server's buffer, in an answer being
  read or on its way, in the cache, in the viewer, or lost, and so is its other half. `Placed` says that these come in the order the
  halves were written and that nothing between two of them is missing but what is lost; each
  way a half moves is a lemma about sets of numbers, and `LogInv` says it of every log that
  reading empties.
- `TypedIsKept`: `TypedKept`. `FormSteps` lists what a step can do to a form; `FormInv` tells
  a form that is open from none.

and of `Display` (any finite set of nodes, with any numbers in the columns; any number of
routes; passwords of any length):

- `ColumnSorted`: `TableSorted`. `TableInv`: the nodes are all the rows, each once, sorted by
  a column they have. `BeforeOrders`: the comparison, in either direction, is a total order
  on their places, because equal keys keep theirs. So the number of nodes before one is
  different for any two, smaller for the one before, and takes each value up to the last
  (`Places`): the table is a permutation, and in order.
- `HealthShown`: `HealthAgrees`, for which latencies must be numbers (`HealthInv`).
- `NeverCalledWeak`: `AcceptedIsStrong`, about any password: whatever is accepted meets four
  of the five requirements, so it scores 80 or 100. "Accepted" is the schema of `UserForm.tsx`;
  the server does not look at a password.

`RouteForm_proofs` (any routes the server may begin with, valid or not; any nodes, inputs
and number of edits; drafts of any length):

- `TypeCorrect`: `TypeOK`. Whatever the cards' handlers make of a route, and the server's
  decoding of a draft, is a route.
- `OnlySentLeak`: `OnlySentHeadersLeak`, action by action from `LeakInv`: the cache is as long
  as what was sent. `KeysInv`, that only entries whose key is one of the cache share its maps,
  makes the write into a map a write into that entry's own route.
- `OneRouteEdited`: `EditsOneRoute`. `HandlerEffect` says of every handler what it may change:
  the entries of one key, and of the cache only what those share (`OnlyKey`, `Leaks`); that
  what the other entries show stays as it is follows once for all of them.
- `SavedStaysShown`: `SavedIsShown`. `SavedInv` says where what was shown at the save is by
  now: in the request, with the server, or on the page. `UpdatedIs` is what carries it across
  `Service.Update`: for a list the validation accepts, however it meets the routes that were
  there, the routes afterwards show what those of the list do, in another order at most.
  `DecodedIs` adds that decoding changes none of them.

  `Inductive` proves `TypeOK`, `KeysInv`, `LeakInv` and `SavedInv` together; TLC has checked
  the last three as invariants of the `route_form` run.

Only model-checked:

- all liveness properties, whose fairness and `ENABLED` are out of the prover's reach;
- `ChartAddsUp` and `ChartFollows` of `Display`: the totals, the aggregation and the chart's
  line are folds over lists, and what a fold computes for every list needs induction over
  data. The folds of the library could be unfolded for a list of a given length, but a
  theorem for those would say less than the run does.

## 6. What the checks say about the code

The finding in `PROJECT.json`: updating a service so that it is disabled restarts its TCP
and UDP routes (`svc_disabled_runs`), while the dashboard calls such a service red, stopped.

Seen while modelling, by checking with other constants or without the conditions in the
properties, and the reason for those conditions:

- `SignalStopsGoroutines` with two callers: a `Start` that overlaps a `Stop` (the API's start
  and stop handlers do not hold the router's lock) replaces `route.quit` while the stopped
  goroutines still have to read it: they live on and the `Stop` never returns. If it holds
  the router's lock, as in `StopAll`, everything behind that lock waits with it. The
  properties marked "with one caller" in `TcpRoute` all fail with two.
- `CalmIsMeasured` without `calm`: two starts of an HTTP route and a stop dereference a nil
  ticker outside any recover; a start that finds a heartbeat ending loses its own ticker to it.
- `NoStrayRoutes` without `orderly`: renaming a service to a taken name drops the other one
  and strands its routes; the start handler works on a service that `Remove` has just
  deleted.
- Every save is taken for an external edit and reloaded, because the hash is stored before
  the write; `ConfigSync` takes it into account.
- `FileCanStart` with two callers: one loads the file the other has truncated and writes
  back a configuration without authentication; the program then refuses to start. A crash
  between truncating and writing does the same.
- `AgreesAtRest` with `hasty` requests: a reload of the truncated file is under way while a
  second save writes the same content again, which the watcher then takes for known; an
  edit that undoes an API change before its events are handled; the `StartAll` at the end
  of saving the tailnet settings, which is not saved; requests before `Init` has ended, or
  after it has failed.
- `OwnerShown` with OpenID: the token in the address is judged by the cookie of the sign-in
  before, so the page may show the former account.
- Edit pages: going through the history from one edit page to another keeps the first one's
  draft under the second one's address. A success that comes late navigates away from a
  newer draft. A deletion invalidates the list before the server has heard of it.
- The route form: header names and values typed into a table the server had filled stay in
  the cache after Cancel; new routes have no key and are overwritten and removed together;
  an unusable port is decoded to 0 without an error and stored; a timeout of 30 and 3
  retries are shown though nothing is set.
- Administration: a late success closes whatever dialog is open by then; a second click
  creates a second user; Edit before the tailnet's settings have arrived takes the page
  down, and until the status arrives the key is called expired; log lines are lost to a
  discarded answer or to another reader, whose reads may also leave half of one or splice two.
- Charts and states: the total above a chart may differ from its points under traffic,
  because the series is copied without its mutex and encoded later; a route that goes while it is selected leaves "No traffic data"; a
  latency of 0 makes a healthy route's icon red; the meter and the schema of passwords
  accept different special characters.

## 7. Abstractions

- Routes: contents of connections and packets, statistics, latencies and the numbers of
  connections are left out. Reads of a status or configuration under the lock change
  nothing and are not actions. A torn read of an interface value raced for is not
  modelled beyond its being nil or not.
- A panic in an API handler is recovered by net/http and ends that call; in any other
  goroutine it ends the process. Where the model cannot tell (`StopWoken`) it allows both.
- `TcpRoute`: `Done` and the wake-up of the waiters are one step. A goroutine that fails
  and goes round its loop does not change the state.
- `UdpRoute`: calls do not overlap, so a goroutine's quit channel is always its own and
  one copy of each goroutine is enough; `StoppedReleases` is what makes that so.
- `Services`: a route operation is one step and the tailnet is reachable; a service has at
  most one route per configuration; ids are slugs, and renaming is choosing another id.
- `ConfigSync`: a file is the table of services, the tailnet's key and whether the rest of
  the settings is there; its hash is its content. A reader of a file being written sees it
  empty or whole; a part of it that happens to be valid YAML is left out. Services are
  present and enabled or not; their routes and renames are `Services`'. A write of the
  file under way when the watcher's wait for the tailnet (2 seconds or more) begins is over
  when it ends.
- The query cache: entries are not collected while unused; an answer nobody waits for any
  more is dropped; the retries of a query are folded into its success or one loss; React's
  StrictMode, which runs effects twice in development, is off.
- `Session`: where the pages of the application differ in nothing but what they show, they
  are one ("home"). At most one update of a user is followed at a time. Tokens expire at
  any moment after they are issued.
- `ServicePages`, `AdminPages`: contents are the versions they were written as; a name is
  the id it is made into. An answer of the list is read and delivered in one step. A read of
  a log takes half a line, and a longer one is several in a row.
- `RouteForm`: numbers that are missing and texts that are none are both 0, as the server
  decodes them; a name matches its pattern.
- `Display`: values are integers in units fine enough for every quotient; times are ticks.
  A copy of a series has its points as they were at one moment and its total as of a later
  one: words of one slice header from two different moments are left out, and so is an answer
  that is encoded before an `Add` it overlaps has stored its point. A selected route that is
  gone is an index of none; that it may come to be another route's is left out.
- External, modelled from how it is used: fsnotify (`Notify`), other editors of the file
  (`Edit`), the process (`Crash`), and other administrators (`Foreign`).

## 8. What is not modelled

- `HTTPRoute.Handle` and the proxy rules: they turn one request, as text, into another; the
  unlocked read of `route.config` between two requests is listed as a hazard.
- The Kubernetes reconciler and builders: a `Reconcile` is one Get and a few calls of the
  router, whose effects `Services` has, and a builder is a Get and a Create or Update; what
  is hard there is the API server's own semantics, which the repository only uses. A writer
  between Get and Update, or a conflict that outlives three retries, fails one save and is
  repaired by the next; objects with one name in two namespaces, which share a service, are
  listed as a hazard.
- The ACME controller hands the domains to a library. Bot protection is a map of challenges
  around cryptography and headers. Install and upgrade are straight-line commands, and
  migrations four SQL files run by a library.
- The database of users, password hashing, signatures and PKCE; reading handlers, metrics,
  static files; rotation and format of logs.
- The dashboard's UI kit (`components/ui`, vendored), the banner, icons and formatting of
  bytes and dates keep no state of the program's own; `routeTree.gen.ts` and `deepCopy.go`
  are generated. Two helpers nothing calls, `parseLog` and `validateEmail`.

## 9. What could follow

In order of what it would add: the tailnet server a route was made with, in `Services`;
`Handle` against `Update`, in `HttpRoute`; the challenges of `botProtect`; the two renames
of the upgrade with a crash between them; the reconciler against an abstract API server.
A theorem that could follow from the `CalmInv` of `ConfigSync_proofs`: what `Init` serves after a restart is what was
saved before a crash at rest.

## 10. How to run

    tlc -workers 4 -config TcpSerial.cfg MCTcpRoute.tla     # module and .cfg of each run: PROJECT.json
    tlapm TcpRoute_proofs.tla     # and Routes_proofs, Services_proofs, ConfigSync_proofs, Session_proofs,
                                  # ServicePages_proofs, AdminPages_proofs, RouteForm_proofs
