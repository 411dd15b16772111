------------------------------ MODULE AdminPages ------------------------------
(***************************************************************************)
(* The administrator's pages: /users with its dialogs (routes/users,       *)
(* UserForm.tsx) and /settings with the tailnet's form and the logs        *)
(* (routes/settings.lazy.tsx, components/logs), over the query cache.      *)
(*                                                                         *)
(* The two queries, "userList" and "tailscale", are asked, read by the     *)
(* server and answered in three steps.  What they answer is abstracted to  *)
(* the number of writes the server had taken when it read it, and the ids  *)
(* of the users.  The access and error logs are queries of a kind of their *)
(* own: the server forgets what it hands out, read by read and not line by *)
(* line.  A line is two halves, 2n - 1 and 2n, of which a read may take    *)
(* one; a read of more is several in a row.                                *)
(***************************************************************************)
EXTENDS Naturals, Sequences

CONSTANTS Ids,        \* ids of users
          NoId,       \* no id
          Drained,    \* the logs whose reading empties them
          ReadOnly,   \* is the server's configuration read only
          MaxActs,    \* bound: clicks, lost answers, writes of others
          MaxLines    \* bound: lines written to each log

ASSUME NoIdAssumption == NoId \notin Ids
ASSUME DrainedAssumption == Drained \subseteq {"access", "error"}
ASSUME FlagAssumption == ReadOnly \in BOOLEAN
ASSUME BoundAssumption == MaxActs \in Nat /\ MaxLines \in Nat

VARIABLES
  users,      \* the ids of the server's users
  writes,     \* writes to the server so far
  page,       \* the page shown, its tab, and the log shown on the tab of logs
  broken,     \* the settings page has been taken down by an error
  cache,      \* the cached answer of each query
  flight,     \* its request in flight
  form,       \* the dialog that is open, or the settings being edited
  pending,    \* mutations sent and not answered
  acked,      \* latest write to what a query is about that a mutation has
              \* reported since this page opened
  buffer,     \* the halves of lines the server holds of each log
  made,       \* halves written to each log so far
  logFlight,  \* the request in flight for each log
  answered,   \* the logs that have had an answer
  batch,      \* the halves of the last one, which are what is cached
  shown,      \* the halves the mounted log viewer shows
  lost,       \* history: halves handed out and never shown
  acts        \* what counts against the bound so far

view == <<page, broken, form, acked>>
data == <<cache, flight>>
logs == <<buffer, made, logFlight, answered, batch, shown, lost>>
vars == <<users, writes, view, data, pending, logs, acts>>

Queries == {"userList", "tailscale"}
Unloaded == [at |-> 0, ids |-> {}, loaded |-> FALSE, old |-> FALSE, failed |-> FALSE]
Idle == [st |-> "idle"]
Sent == [st |-> "sent"]
Reading(s) == [st |-> "reading", lines |-> s]
NoForm == [op |-> "none", id |-> NoId, typed |-> 0]

Elsewhere == [at |-> "other", tab |-> "", log |-> ""]
UsersPage == [at |-> "users", tab |-> "", log |-> ""]
Settings(t) == [at |-> "settings", tab |-> t, log |-> IF t = "logs" THEN "server" ELSE ""]
Tabs == {"table", "logs", "status"}
Pages == {Elsewhere, UsersPage} \union {Settings(t) : t \in Tabs}

\* The query each page mounts, and the log that is being viewed.
Mounts(p, q) == p.at = (IF q = "userList" THEN "users" ELSE "settings")
Mounted(q) == ~broken /\ Mounts(page, q)
Viewing(k) == ~broken /\ page.log = k

\* A table of users is rendered, or a loader, or an error in its place.
TableShown == page.at = "users" /\ cache["userList"].loaded /\ ~cache["userList"].failed
StatusShown == page.tab = "status" /\ ~broken
FormShown == form # NoForm /\ (TableShown \/ StatusShown)

\* What can be opened: nothing under a dialog, which is modal, and nothing of
\* a read only configuration.
Dialogs == IF ~TableShown \/ ReadOnly \/ form # NoForm THEN {}
           ELSE {<<"create", NoId>>} \union ({"edit", "delete"} \X cache["userList"].ids)

Init == /\ users \in SUBSET Ids
        /\ writes = 1
        /\ page \in Pages
        /\ broken = FALSE
        /\ form = NoForm
        /\ acked = [q \in Queries |-> 0]
        /\ cache = [q \in Queries |-> Unloaded]
        /\ flight = [q \in Queries |-> IF Mounts(page, q) THEN Sent ELSE Idle]
        /\ pending = {}
        /\ buffer = [k \in Drained |-> << >>]
        /\ made = [k \in Drained |-> 0]
        /\ logFlight = [k \in Drained |-> Idle]
        /\ answered = {}
        /\ batch = [k \in Drained |-> << >>]
        /\ shown = << >>
        /\ lost = [k \in Drained |-> {}]
        /\ acts = 0

-----------------------------------------------------------------------------
(* What the actions are made of. *)

Act == acts < MaxActs /\ acts' = acts + 1
Lines(s) == {s[i] : i \in DOMAIN s}
InFlight(k) == IF logFlight[k] = Idle THEN {} ELSE Lines(logFlight[k].lines)

\* A log viewer that is mounted starts from what is cached of its log.
AppearedAgain(k) == IF k \in Drained THEN shown \o batch[k] ELSE shown
Appeared(k) == IF k \in Drained THEN batch[k] ELSE << >>
Watch(p) == IF p.log = page.log THEN UNCHANGED shown ELSE shown' = Appeared(p.log)

\* A mutation whose component is gone reports to nobody.
Alone(ms, ops) == {[m EXCEPT !.mine = m.mine /\ m.op \notin ops] : m \in ms}

\* A dialog on a row goes with the row; what is typed is not made anew.
KeptInitial(f, ids) == IF f.op \in {"edit", "delete"} /\ f.id \notin ids THEN NoForm
                       ELSE [f EXCEPT !.typed = 0]
Kept(f, ids) == IF f.op \in {"edit", "delete"} /\ f.id \notin ids THEN NoForm ELSE f
\* An error in the place of the table takes the rows with it, and the form of
\* the dialog of creation, which stays open.
Dropped(f) == IF f.op = "create" THEN [f EXCEPT !.typed = 0] ELSE NoForm

\* A query that is asked again keeps its error while it has data to show.
Asked(c) == [c EXCEPT !.failed = @ /\ c.loaded]

\* invalidateQueries(): everything is old, and what is mounted is asked for
\* again: an answer on its way is discarded unless it is the first one, but
\* the server has been asked.
Uncancelled(f) == [q \in Queries |-> IF Mounted(q) /\ f[q] = Idle THEN Sent ELSE f[q]]
Again(f) == [q \in Queries |-> IF Mounted(q) /\ (f[q] = Idle \/ cache[q].loaded) THEN Sent ELSE f[q]]
LogAgain(k) == Viewing(k) /\ (logFlight[k] = Idle \/ k \in answered)
Invalidate ==
  /\ cache' = [q \in Queries |-> LET c == [cache[q] EXCEPT !.old = cache[q].loaded]
                                 IN IF Mounted(q) THEN Asked(c) ELSE c]
  /\ flight' = Again(flight)
  /\ lost' = [k \in Drained |-> lost[k] \union (IF LogAgain(k) THEN InFlight(k) ELSE {})]
  /\ logFlight' = [k \in Drained |-> IF LogAgain(k) THEN Reading(<< >>) ELSE logFlight[k]]

-----------------------------------------------------------------------------
(* The user, on either page. *)

\* A link or the history; the address may name a tab.  A query is asked for
\* unless its data is fresh, that is younger than a minute and not marked old.
Open(p) ==
  /\ Act
  /\ p.at # page.at
  /\ page' = p /\ broken' = FALSE /\ form' = NoForm
  /\ acked' = [q \in Queries |-> 0]
  /\ \E aged \in BOOLEAN :
       LET asks == {q \in Queries : Mounts(p, q) /\ flight[q] = Idle
                      /\ (aged \/ ~cache[q].loaded \/ cache[q].old \/ cache[q].failed)}
       IN /\ flight' = [q \in Queries |-> IF q \in asks THEN Sent ELSE flight[q]]
          /\ cache' = [q \in Queries |-> IF q \in asks THEN Asked(cache[q]) ELSE cache[q]]
  /\ pending' = Alone(pending, {"create", "edit", "settings"})
  /\ Watch(p)
  /\ UNCHANGED <<users, writes, buffer, made, logFlight, answered, batch, lost>>

\* The tabs of the settings page keep what is being edited; a log viewer lives
\* as long as its tabs are shown.
ClickTab(t) ==
  /\ Act
  /\ page.at = "settings" /\ ~broken /\ t # page.tab
  /\ page' = Settings(t)
  /\ Watch(Settings(t))
  /\ UNCHANGED <<users, writes, broken, form, acked, data, pending, buffer, made,
                 logFlight, answered, batch, lost>>

ClickLog(k) ==
  /\ Act
  /\ page.tab = "logs" /\ k # page.log
  /\ page' = [page EXCEPT !.log = k]
  /\ Watch([page EXCEPT !.log = k])
  /\ UNCHANGED <<users, writes, broken, form, acked, data, pending, buffer, made,
                 logFlight, answered, batch, lost>>

ClickDialog(op, id) ==
  /\ Act
  /\ <<op, id>> \in Dialogs
  /\ form' = [op |-> op, id |-> id, typed |-> 0]
  /\ UNCHANGED <<users, writes, page, broken, acked, data, pending, logs>>

\* handleEdit of TailScaleForm: without data there is nothing to edit, and
\* rendering it is an error that takes the page down.
HandleEdit ==
  /\ Act
  /\ StatusShown /\ form = NoForm /\ ~ReadOnly
  /\ IF cache["tailscale"].loaded
     THEN form' = [op |-> "settings", id |-> NoId, typed |-> 0] /\ UNCHANGED broken
     ELSE broken' = TRUE /\ UNCHANGED form
  /\ UNCHANGED <<users, writes, page, acked, data, pending, logs>>

Type ==
  /\ Act
  /\ FormShown /\ form.op # "delete"
  /\ form' = [form EXCEPT !.typed = @ + 1]
  /\ UNCHANGED <<users, writes, page, broken, acked, data, pending, logs>>

Cancel ==
  /\ Act
  /\ FormShown
  /\ form' = NoForm
  /\ UNCHANGED <<users, writes, page, broken, acked, data, pending, logs>>

\* The dialogs of a user send as often as they are clicked; Save of the
\* settings is disabled while one of its own is pending.  The dialog of a
\* deletion closes at once, the others when they are told of success.
Submit ==
  /\ Act
  /\ FormShown
  /\ form.op = "settings" => \A m \in pending : ~(m.op = "settings" /\ m.mine)
  /\ pending' = pending \union
       {[op |-> form.op, id |-> form.id, n |-> acts, mine |-> TRUE, st |-> "sent", ver |-> 0]}
  /\ form' = IF form.op = "delete" THEN NoForm ELSE form
  /\ UNCHANGED <<users, writes, page, broken, acked, data, logs>>

-----------------------------------------------------------------------------
(* The server, and other administrators. *)

\* The handlers of /api/user and of the settings: a user that is not there
\* cannot be changed, and can be deleted.
Written(op, id) ==
  CASE op = "create" -> \E i \in Ids \ users : users' = users \union {i}
    [] op = "delete" -> users' = users \ {id}
    [] OTHER -> users' = users
Refused(op, id) == op = "edit" /\ id \notin users

Serve(m) ==
  /\ m.st = "sent"
  /\ IF Refused(m.op, m.id)
     THEN pending' = pending \ {m} /\ UNCHANGED <<users, writes>>
     ELSE /\ Written(m.op, m.id)
          /\ writes' = writes + 1
          /\ pending' = (pending \ {m}) \union {[m EXCEPT !.st = "done", !.ver = writes + 1]}
  /\ UNCHANGED <<view, data, logs, acts>>

Foreign(op, id) ==
  /\ Act
  /\ ~Refused(op, id)
  /\ Written(op, id)
  /\ writes' = writes + 1
  /\ UNCHANGED <<view, data, pending, logs>>

ServeQuery(q) ==
  /\ flight[q] = Sent
  /\ flight' = [flight EXCEPT ![q] = [st |-> "read", at |-> writes,
                                      ids |-> IF q = "userList" THEN users ELSE {}]]
  /\ UNCHANGED <<users, writes, view, cache, pending, logs, acts>>

-----------------------------------------------------------------------------
(* Answers. *)

GetQuery(q) ==
  /\ flight[q].st = "read"
  /\ flight' = [flight EXCEPT ![q] = Idle]
  /\ cache' = [cache EXCEPT ![q] = [at |-> flight[q].at, ids |-> flight[q].ids,
                                    loaded |-> TRUE, old |-> FALSE, failed |-> FALSE]]
  /\ form' = IF q = "userList" /\ Mounted(q) THEN Kept(form, flight[q].ids) ELSE form
  /\ pending' = {[m EXCEPT !.mine = m.mine /\ ~(/\ q = "userList" /\ m.op = "edit"
                                                /\ m.id \notin flight[q].ids)] : m \in pending}
  /\ UNCHANGED <<users, writes, page, broken, acked, logs, acts>>

\* The second failure in a row: the data stays.
LoseQuery(q) ==
  /\ Act
  /\ flight[q] # Idle
  /\ flight' = [flight EXCEPT ![q] = Idle]
  /\ cache' = [cache EXCEPT ![q].failed = TRUE]
  /\ IF q = "userList" /\ Mounted(q)
     THEN form' = Dropped(form) /\ pending' = Alone(pending, {"edit"})
     ELSE UNCHANGED <<form, pending>>
  /\ UNCHANGED <<users, writes, page, broken, acked, logs>>

\* The network is back: data older than a minute is asked for again.
Reconnect(q) ==
  /\ Act
  /\ Mounted(q) /\ flight[q] = Idle
  /\ flight' = [flight EXCEPT ![q] = Sent]
  /\ cache' = [cache EXCEPT ![q] = Asked(cache[q])]
  /\ UNCHANGED <<users, writes, view, pending, logs>>

\* onSuccess closes the form of its component, whatever it has come to hold; a
\* deletion has none any more.
About(m) == IF m.op = "settings" THEN "tailscale" ELSE "userList"
Closes(m) == m.mine /\ m.op = form.op /\ m.id = form.id /\ m.op # "delete"
Succeed(m) ==
  /\ m.st = "done"
  /\ pending' = pending \ {m}
  /\ form' = IF Closes(m) THEN NoForm ELSE form
  /\ Invalidate
  /\ acked' = IF m.ver > acked[About(m)] THEN [acked EXCEPT ![About(m)] = m.ver] ELSE acked
  /\ UNCHANGED <<users, writes, page, broken, buffer, made, answered, batch, shown, acts>>

-----------------------------------------------------------------------------
(* The logs that are emptied by reading. *)

Log(k) ==
  /\ made[k] < 2 * MaxLines
  /\ made' = [made EXCEPT ![k] = @ + 2]
  /\ buffer' = [buffer EXCEPT ![k] = @ \o <<made[k] + 1, made[k] + 2>>]
  /\ UNCHANGED <<users, writes, view, data, pending, logFlight, answered, batch, shown,
                 lost, acts>>

\* refetchInterval: every two or five seconds.
PollLog(k) ==
  /\ Viewing(k) /\ logFlight[k] = Idle
  /\ logFlight' = [logFlight EXCEPT ![k] = Reading(<< >>)]
  /\ UNCHANGED <<users, writes, view, data, pending, buffer, made, answered, batch, shown,
                 lost, acts>>

\* One read of the scanner, under the lock of the DualWriter.
ReadLog(k) ==
  /\ logFlight[k].st = "reading" /\ buffer[k] # << >>
  /\ logFlight' = [logFlight EXCEPT ![k].lines = Append(@, Head(buffer[k]))]
  /\ buffer' = [buffer EXCEPT ![k] = Tail(@)]
  /\ UNCHANGED <<users, writes, view, data, pending, made, answered, batch, shown, lost, acts>>

\* A read that finds nothing ends the answer, in the middle of a line or not.
ServeLog(k) ==
  /\ logFlight[k].st = "reading" /\ buffer[k] = << >>
  /\ logFlight' = [logFlight EXCEPT ![k].st = "read"]
  /\ UNCHANGED <<users, writes, view, data, pending, buffer, made, answered, batch, shown,
                 lost, acts>>

\* A line that is longer than the scanner's 64 KB: an error is the answer, and
\* what has been read is gone.
Odd(s) == s # << >> /\ s[Len(s)] % 2 = 1
ScanTooLong(k) ==
  /\ logFlight[k].st = "reading" /\ Odd(logFlight[k].lines)
  /\ lost' = [lost EXCEPT ![k] = @ \union InFlight(k)]
  /\ logFlight' = [logFlight EXCEPT ![k] = Idle]
  /\ UNCHANGED <<users, writes, view, data, pending, buffer, made, answered, batch, shown, acts>>

\* Another scanner's read: of another browser's request, or of one that was
\* discarded and that the server is still at.
Drain(k) ==
  /\ buffer[k] # << >>
  /\ lost' = [lost EXCEPT ![k] = @ \union {Head(buffer[k])}]
  /\ buffer' = [buffer EXCEPT ![k] = Tail(@)]
  /\ UNCHANGED <<users, writes, view, data, pending, made, logFlight, answered, batch, shown,
                 acts>>

\* The answer replaces the cached one, and the viewer that is mounted adds it
\* to what it shows.  Where none is, the next one finds it in the cache.
GetLogs(k) ==
  /\ logFlight[k].st = "read"
  /\ logFlight' = [logFlight EXCEPT ![k] = Idle]
  /\ answered' = answered \union {k}
  /\ batch' = [batch EXCEPT ![k] = logFlight[k].lines]
  /\ shown' = IF Viewing(k) THEN shown \o logFlight[k].lines ELSE shown
  /\ UNCHANGED <<users, writes, view, data, pending, buffer, made, lost, acts>>

LoseLog(k) ==
  /\ Act
  /\ logFlight[k] # Idle
  /\ lost' = [lost EXCEPT ![k] = @ \union InFlight(k)]
  /\ logFlight' = [logFlight EXCEPT ![k] = Idle]
  /\ UNCHANGED <<users, writes, view, data, pending, buffer, made, answered, batch, shown>>

Next ==
  \/ \E p \in Pages : Open(p)
  \/ \E t \in Tabs : ClickTab(t)
  \/ \E k \in {"server", "access", "error"} : ClickLog(k)
  \/ \E op \in {"create", "edit", "delete"}, id \in Ids \union {NoId} : ClickDialog(op, id)
  \/ HandleEdit
  \/ Type
  \/ Cancel
  \/ Submit
  \/ \E m \in pending : Serve(m)
  \/ \E op \in {"create", "edit", "delete", "settings"}, id \in Ids : Foreign(op, id)
  \/ \E q \in Queries : ServeQuery(q)
  \/ \E q \in Queries : GetQuery(q)
  \/ \E q \in Queries : LoseQuery(q)
  \/ \E q \in Queries : Reconnect(q)
  \/ \E m \in pending : Succeed(m)
  \/ \E k \in Drained : Log(k)
  \/ \E k \in Drained : PollLog(k)
  \/ \E k \in Drained : ReadLog(k)
  \/ \E k \in Drained : ServeLog(k)
  \/ \E k \in Drained : ScanTooLong(k)
  \/ \E k \in Drained : Drain(k)
  \/ \E k \in Drained : GetLogs(k)
  \/ \E k \in Drained : LoseLog(k)

\* The server answers and the network delivers what is not lost.
Fairness == \A q \in Queries : WF_vars(ServeQuery(q)) /\ WF_vars(GetQuery(q))

Spec == Init /\ [][Next]_vars /\ Fairness

-----------------------------------------------------------------------------
(* Properties. *)

\* As long as a form stays open nothing but typing changes what is typed in
\* it, whatever lists and settings arrive meanwhile; an error in the place of
\* the table is the one thing that empties the dialog of creation.
TypedKept ==
  [][form # NoForm /\ form'.op = form.op /\ form'.id = form.id /\ page' = page
     => form'.typed = form.typed \/ Type \/ (form.op = "create" /\ LoseQuery("userList"))]_vars

\* A page that has been told of a write to what it shows comes to show an
\* answer that was read after it, however the answers of its queries are
\* overtaken: a change to a user or to the settings begins with a form made
\* from data, and a query that has data discards what is in flight.
AckedShown ==
  <>[](\A q \in Queries : Mounted(q) /\ ~cache[q].failed => cache[q].at >= acked[q])

\* A log viewer shows what was written in its order, nothing twice, and between
\* the first and the last leaves out only what reading has lost; it shows the
\* half of a line, or halves of two spliced into one, only where the other half
\* is lost too, although every reader takes from the buffer read by read.
Other(n) == IF n % 2 = 1 THEN n + 1 ELSE n - 1
LinesInOrder ==
  \A k \in Drained : Viewing(k) =>
    /\ \A i, j \in DOMAIN shown : i < j => shown[i] < shown[j]
    /\ shown # << >> => \A n \in shown[1] .. shown[Len(shown)] : n \in Lines(shown) \union lost[k]
    /\ \A n \in Lines(shown) : Other(n) \in Lines(shown) \union lost[k]
=============================================================================
