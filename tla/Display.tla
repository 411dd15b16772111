------------------------------- MODULE Display -------------------------------
(***************************************************************************)
(* What the dashboard computes of what it has been given: the traffic      *)
(* chart of a service (ChartCard.tsx, lib/utils.ts), its state and that of *)
(* its routes (ServiceCard.tsx, RouteStatusCard.tsx), the table of the     *)
(* nodes of the tailnet (settings.lazy.tsx) and the strength of a password *)
(* (PasswordStrengthMeter.tsx, UserForm.tsx); with the time series of the  *)
(* server, which the chart is made of.                                     *)
(*                                                                         *)
(* One screen is looked at at a time; the others keep still.  A chart is   *)
(* made of an answer of the server, and that of copies of the routes'      *)
(* series, taken one after the other without the mutex the traffic is      *)
(* logged under.  The names of Init, Next and Spec leave room for those of *)
(* another page.                                                           *)
(***************************************************************************)
EXTENDS Integers, SequencesExt

CONSTANTS Interval,   \* the ticks in which a chart has no gap
          Window,     \* the ticks a chart goes back
          Scale,      \* units of a value: its thirds, fifths... are whole
          MaxSize,    \* the points a time series keeps
          Values,     \* traffic of a tick
          MaxTime,    \* bound: ticks
          MaxTraffic, \* bound: traffic of all points
          MaxSlack,   \* bound: traffic while an answer is made
          Rows,       \* nodes of the tailnet, each with the fields sorted by
          Fields,     \* their names
          MaxLength   \* bound: length of a password

ASSUME IntervalAssumption == Interval \in Nat \ {0} /\ Window \in Nat
\* A value is divided by the intervals of a gap, and the sum of up to three by two or three.
ASSUME ScaleAssumption == \A n \in 1 .. Window \div Interval : Scale % (6 * n) = 0
ASSUME SizeAssumption == MaxSize \in Nat \ {0}
ASSUME RowsAssumption == /\ IsFiniteSet(Rows) /\ Rows \subseteq [Fields -> Int]
                         /\ "online" \in Fields

VARIABLES
  screen,    \* what is looked at
  now,       \* the time
  series,    \* the time series of each route
  adding,    \* the routes whose series is in the middle of an Add
  taken,     \* the answer: copies of the series, as far as they have been taken
  slack,     \* the traffic that has come and gone while they were
  enabled,   \* whether the service is enabled
  routes,    \* the status and latency of each route
  nodes,     \* the nodes, in the order the server has sent them
  sort,      \* the column they are sorted by, and the direction
  password   \* its length and the kinds of characters in it

displayVars == <<screen, now, series, adding, taken, slack, enabled, routes, nodes, sort, password>>

Statuses == [status : {"Starting", "Running", "Stopped"}, latency : -1 .. 1]

\* The special characters both sides know, and one that only one of them does.
Classes == {"upper", "lower", "digit", "special", "?", "^", "other"}

NoData == [points |-> << >>, total |-> 0]

DisplayInit ==
  /\ screen \in {"chart", "status", "nodes", "password"}
  /\ now = 0
  /\ series = <<NoData, NoData>>
  /\ adding = {} /\ taken = << >> /\ slack = 0
  /\ enabled = TRUE
  /\ routes = << >>
  /\ nodes = SetToSeq(Rows)
  /\ sort = [field |-> "online", desc |-> TRUE]
  /\ password = [length |-> 0, classes |-> {}]

-----------------------------------------------------------------------------
(* The time series of the routes, and the copies of them. *)

Sum(points) == FoldLeft(LAMBDA x, p : x + p.value, 0, points)
Times(points) == {points[i].at : i \in DOMAIN points}

\* TimeSeriesData.Add, first: the points of one tick are one.
InTick(points) == points # << >> /\ Last(points).at = now
Longer(points, v) ==
  IF InTick(points) THEN [points EXCEPT ![Len(points)].value = @ + v * Scale]
  ELSE Append(points, [at |-> now, value |-> v * Scale])

\* Then the oldest is dropped, and the total is that of the points that are left.
Shortened(points) == Tail(points)
Total(points) == Sum(points)

\* What the series are short of: the traffic of the Adds that have not come to the total.
Behind ==
  FoldLeft(LAMBDA x, s : x + IF Sum(s.points) > s.total THEN Sum(s.points) - s.total
                             ELSE s.total - Sum(s.points), 0, series)

\* A copy that has its points and not yet its total.
NoTotal == -1
Halfway == taken # << >> /\ Last(taken).total = NoTotal
Complete == Len(taken) = Len(series) /\ ~Halfway

\* The array of the points is the copy's as well, until one is appended to it.
Shared(i, v) ==
  IF i \in DOMAIN taken /\ InTick(taken[i].points)
  THEN [taken EXCEPT ![i].points = Longer(@, v)] ELSE taken

LogTraffic(i, v) ==
  /\ screen = "chart"
  /\ i \in DOMAIN series \ adding
  /\ series' = [series EXCEPT ![i].points = Longer(@, v)]
  /\ FoldLeft(LAMBDA x, s : x + Sum(s.points), v * Scale, series) <= MaxTraffic * Scale
  /\ adding' = adding \union {i}
  /\ taken' = Shared(i, v)
  /\ slack' = IF taken = << >> THEN slack ELSE slack + v * Scale
  /\ slack' <= MaxSlack * Scale
  /\ UNCHANGED <<screen, now, enabled, routes, nodes, sort, password>>

Drop(i) ==
  /\ screen = "chart"
  /\ i \in adding /\ Len(series[i].points) > MaxSize
  /\ series' = [series EXCEPT ![i].points = Shortened(@)]
  /\ slack' = IF taken = << >> THEN slack ELSE slack + Head(series[i].points).value
  /\ UNCHANGED <<screen, now, adding, taken, enabled, routes, nodes, sort, password>>

Recount(i) ==
  /\ screen = "chart"
  /\ i \in adding /\ Len(series[i].points) <= MaxSize
  /\ series' = [series EXCEPT ![i].total = Total(series[i].points)]
  /\ adding' = adding \ {i}
  /\ UNCHANGED <<screen, now, taken, slack, enabled, routes, nodes, sort, password>>

Tick ==
  /\ screen = "chart" /\ now < MaxTime
  /\ now' = now + 1
  /\ UNCHANGED <<screen, series, adding, taken, slack, enabled, routes, nodes, sort, password>>

\* Service.Status goes over the routes; Stats copies a series without its mutex,
\* the points as far as an Add has come with them and then the total.
TakePoints ==
  /\ screen = "chart"
  /\ Len(taken) < Len(series) /\ ~Halfway
  /\ taken' = Append(taken, [points |-> series[Len(taken) + 1].points, total |-> NoTotal])
  /\ slack' = IF taken = << >> THEN Behind ELSE slack
  /\ UNCHANGED <<screen, now, series, adding, enabled, routes, nodes, sort, password>>

TakeTotal ==
  /\ screen = "chart"
  /\ Halfway
  /\ taken' = [taken EXCEPT ![Len(taken)].total = series[Len(taken)].total]
  /\ UNCHANGED <<screen, now, series, adding, slack, enabled, routes, nodes, sort, password>>

\* The answer is encoded some time after it has been put together; then there is a new one.
Encode ==
  /\ screen = "chart"
  /\ taken # << >> /\ Complete
  /\ taken' = << >> /\ slack' = 0
  /\ UNCHANGED <<screen, now, series, adding, enabled, routes, nodes, sort, password>>

\* A route is deleted between two answers, when its traffic has been logged.
RouteGone(i) ==
  /\ screen = "chart"
  /\ taken = << >> /\ adding = {}
  /\ i \in DOMAIN series
  /\ series' = RemoveAt(series, i)
  /\ UNCHANGED <<screen, now, adding, taken, slack, enabled, routes, nodes, sort, password>>

-----------------------------------------------------------------------------
(* The chart. *)

\* aggregateTimeSeries: routes without points are left out; points of the same
\* time are added up, over a map from times to values.
LastAt(t) ==
  FoldLeft(LAMBDA x, s : FoldLeft(LAMBDA y, p : IF p.at = t THEN p.value ELSE y, x, s.points),
           0, taken)
SumAt(t) ==
  FoldLeft(LAMBDA x, s : x + Sum(SelectSeq(s.points, LAMBDA p : p.at = t)), 0, taken)
AggregateTimeSeries ==
  LET with == SelectSeq(taken, LAMBDA s : s.points # << >>)
      times == SetToSortSeq(UNION {Times(with[i].points) : i \in DOMAIN with}, <)
  IN [points |-> [i \in DOMAIN times |-> [at |-> times[i], value |-> SumAt(times[i])]],
      total |-> FoldLeft(LAMBDA x, s : x + s.total, 0, with)]

\* What can be selected: 0 for all routes, or one of them, which may be gone by now.
Selections == 0 .. 2
Stats(selected) ==
  IF selected = 0 THEN AggregateTimeSeries
  ELSE IF selected \in DOMAIN taken THEN taken[selected]
       ELSE NoData

\* The points put into a gap: one after each interval, the last one at the value after the gap.
MissingButOne(gap) == gap \div Interval - 1
Missing(gap) == gap \div Interval
Interpolated(p, q) ==
  LET gap == q.at - p.at
      n == IF gap > Interval THEN Missing(gap) ELSE 0
  IN [j \in 1 .. n |-> [at |-> p.at + j * Interval,
                        value |-> p.value + ((q.value - p.value) * j) \div n]]

\* applyMovingAverage over three points, fewer at the beginning.
MovingAverage(points) ==
  [i \in DOMAIN points |->
     LET from == IF i > 2 THEN i - 2 ELSE 1
     IN [points[i] EXCEPT !.value = Sum(SubSeq(points, from, i)) \div (i - from + 1)]]

Recent(points) == SelectSeq(points, LAMBDA p : p.at >= now - Window)
GetLast10MinutesData(points) ==
  LET recent == Recent(points)
      after(i) == IF i = 1 THEN <<recent[1]>>
                  ELSE Append(Interpolated(recent[i - 1], recent[i]), recent[i])
  IN MovingAverage(FlattenSeq([i \in DOMAIN recent |-> after(i)]))

-----------------------------------------------------------------------------
(* The state of a service and of its routes. *)

Unresponsive(r) == r.latency < 0
Unhealthy(r) == r.status # "Running" \/ r.latency < 0
GetServiceHealth ==
  IF ~enabled THEN "Stopped"
  ELSE IF \E i \in DOMAIN routes : Unhealthy(routes[i]) THEN "Degraded" ELSE "Healthy"

\* What RouteStatusCard paints: a latency of 0 is as good as none.
IsActive(r) == r.latency # 0 /\ r.status = "Running" /\ r.latency > -1
Card(r) == [icon |-> IF IsActive(r) THEN "green" ELSE "red",
            badge |-> IF r.status = "Running" THEN "green" ELSE "red"]

Fetched(e, rs) ==
  /\ screen = "status"
  /\ enabled' = e /\ routes' = rs
  /\ UNCHANGED <<screen, now, series, adding, taken, slack, nodes, sort, password>>

-----------------------------------------------------------------------------
(* The table of the nodes. *)

\* handleSort: the same column turns round, another one starts upwards.
HandleSort(f) ==
  /\ screen = "nodes"
  /\ sort' = [field |-> f, desc |-> f = sort.field /\ ~sort.desc]
  /\ UNCHANGED <<screen, now, series, adding, taken, slack, enabled, routes, nodes, password>>

\* getSortedNodes: a stable sort, downwards by the opposite comparison.  The
\* k-th of the nodes has k - 1 of them before it.
Key(i) == nodes[i][sort.field]
BeforeUpwards(i, j) == Key(i) < Key(j) \/ (Key(i) = Key(j) /\ i < j)
Before(i, j) == IF Key(i) = Key(j) THEN i < j ELSE (Key(i) < Key(j)) # sort.desc
Ahead(i) == {j \in DOMAIN nodes : Before(j, i)}
SortedNodes == [k \in DOMAIN nodes |->
                  nodes[CHOOSE i \in DOMAIN nodes : Cardinality(Ahead(i)) = k - 1]]

NodesFetched ==
  /\ screen = "nodes"
  /\ nodes' \in SetToSeqs(Rows)
  /\ UNCHANGED <<screen, now, series, adding, taken, slack, enabled, routes, sort, password>>

-----------------------------------------------------------------------------
(* The password of a user. *)

\* calculateStrength and getStrengthLabel.
Strength(pw) ==
  20 * Cardinality({g \in {"length", "upper", "lower", "digit", "special"} :
                      CASE g = "length" -> pw.length >= 8
                        [] g = "special" -> pw.classes \intersect {"special", "^"} # {}
                        [] OTHER -> g \in pw.classes})
StrengthLabel(n) ==
  CASE n = 0 -> "Very Weak" [] n \in 1 .. 20 -> "Weak" [] n \in 21 .. 40 -> "Fair"
    [] n \in 41 .. 60 -> "Good" [] n \in 61 .. 80 -> "Strong" [] OTHER -> "Very Strong"

\* The schema of a new user's password.
AcceptedShort(pw) == {"upper", "lower", "digit"} \subseteq pw.classes
Accepted(pw) ==
  /\ pw.length \in 8 .. 50
  /\ {"upper", "lower", "digit"} \subseteq pw.classes
  /\ pw.classes \intersect {"special", "?"} # {}

TypeCharacter(c) ==
  /\ screen = "password" /\ password.length < MaxLength
  /\ password' = [length |-> password.length + 1, classes |-> password.classes \union {c}]
  /\ UNCHANGED <<screen, now, series, adding, taken, slack, enabled, routes, nodes, sort>>

\* The last character, which may be the only one of its kind.
Backspace ==
  /\ screen = "password" /\ password.length > 0
  /\ \E c \in password.classes, only \in BOOLEAN :
       LET left == IF only THEN password.classes \ {c} ELSE password.classes
       IN /\ Cardinality(left) <= password.length - 1
          /\ left = {} => password.length = 1
          /\ password' = [length |-> password.length - 1, classes |-> left]
  /\ UNCHANGED <<screen, now, series, adding, taken, slack, enabled, routes, nodes, sort>>

DisplayNext ==
  \/ \E i \in DOMAIN series, v \in Values : LogTraffic(i, v)
  \/ \E i \in DOMAIN series : Drop(i) \/ Recount(i)
  \/ Tick
  \/ TakePoints \/ TakeTotal \/ Encode
  \/ \E i \in DOMAIN series : RouteGone(i)
  \/ \E e \in BOOLEAN, n \in 0 .. 2 : \E rs \in [1 .. n -> Statuses] : Fetched(e, rs)
  \/ \E f \in Fields : HandleSort(f)
  \/ NodesFetched
  \/ \E c \in Classes : TypeCharacter(c)
  \/ Backspace

DisplaySpec == DisplayInit /\ [][DisplayNext]_displayVars

-----------------------------------------------------------------------------
(* Properties. *)

Increasing(points) == \A i, j \in DOMAIN points : i < j => points[i].at < points[j].at

\* The total above a chart is that of the points below it but for the traffic
\* that has come or gone while the answer was made: whichever route is selected,
\* however the routes' series overlap and are cut, the points are in order, and
\* with no traffic meanwhile the two are equal.
ChartAddsUp ==
  Complete => \A selected \in Selections :
    LET stats == Stats(selected)
    IN Increasing(stats.points) /\ Sum(stats.points) - stats.total \in -slack .. slack

\* The line of a chart goes from the first recent point to the last without a
\* gap longer than an interval, and nowhere above or below what was measured.
Follows(points) ==
  LET line == GetLast10MinutesData(points)
      recent == Recent(points)
      last == Len(line)
  IN IF recent = << >> THEN line = << >>
     ELSE /\ line[1].at = recent[1].at /\ line[last].at = recent[Len(recent)].at
          /\ \A i \in 2 .. last : line[i].at - line[i - 1].at \in 0 .. Interval
          /\ \A i \in 1 .. last : \E a, b \in DOMAIN recent :
               recent[a].value <= line[i].value /\ line[i].value <= recent[b].value
ChartFollows == Complete => \A selected \in Selections : Follows(Stats(selected).points)

\* The word for a service agrees with the colours of its routes: a degraded
\* one has a red icon to show for it, a healthy one no red badge.
HealthAgrees ==
  LET cards == {Card(routes[i]) : i \in DOMAIN routes}
  IN /\ GetServiceHealth = "Degraded" => \E c \in cards : c.icon = "red"
     /\ GetServiceHealth = "Healthy" => \A c \in cards : c.badge = "green"

\* The table has each node once, in the order of the column it is sorted by.
TableSorted ==
  LET t == SortedNodes
  IN /\ ToSet(t) = Rows /\ Len(t) = Cardinality(Rows)
     /\ \A i, j \in DOMAIN t : i < j =>
          IF sort.desc THEN t[i][sort.field] >= t[j][sort.field]
          ELSE t[i][sort.field] <= t[j][sort.field]

\* A password that the form accepts is one that the meter calls strong, although
\* the two know different special characters.
AcceptedIsStrong ==
  Accepted(password) => StrengthLabel(Strength(password)) \in {"Strong", "Very Strong"}
=============================================================================
