---------------------------- MODULE ServicePages ----------------------------
(***************************************************************************)
(* The pages that list, show, edit, start, stop, create, rename and delete *)
(* services (components/cards/ServiceCard.tsx, ServiceList.tsx and the     *)
(* routes that show them), over the query cache of main.tsx.               *)
(*                                                                         *)
(* The server keeps one version number per service, taken from a counter   *)
(* of all writes; 0 is no service.  A query is asked, read by the server   *)
(* and answered in three steps, a mutation likewise; both may be overtaken *)
(* by each other, by the user and by another administrator.                *)
(***************************************************************************)
EXTENDS Naturals

CONSTANTS Ids,        \* ids of services; a service's id is made from its name
          NoId,       \* no id
          Admin,      \* is the user an administrator
          ReadOnly,   \* is the server's configuration read only
          MaxActs     \* bound: clicks, moves through the history, lost
                      \* answers and writes of another administrator

ASSUME BoundAssumption == MaxActs \in Nat
ASSUME FlagAssumption == Admin \in BOOLEAN /\ ReadOnly \in BOOLEAN
ASSUME NoIdAssumption == NoId \notin Ids

VARIABLES
  server,     \* the version the server has of each service
  writes,     \* writes to the server so far
  readOnly,   \* useConfig's read_only, TRUE until the configuration arrives
  page,       \* the page shown and the service its address names
  cache,      \* the cached answer for ['route', id]
  flight,     \* the request in flight for ['route', id]
  listed,     \* the cached answer for ['repoData']
  listFlight, \* and its request
  draft,      \* the service being edited (the state "service" of ServiceCard)
  pending,    \* mutations sent and not answered
  acked,      \* highest version a mutation has reported since this page opened
  acts        \* what counts against the bound so far

vars == <<server, writes, readOnly, page, cache, flight, listed, listFlight,
          draft, pending, acked, acts>>

MaxWrites == MaxActs + 1
Versions == 0 .. MaxWrites

Pages == [at : {"list"}, id : {NoId}] \union [at : {"view", "edit"}, id : Ids]
Cached == [ver : Versions, old : BOOLEAN, failed : BOOLEAN]
Empty == [ver |-> 0, old |-> FALSE, failed |-> FALSE]
Idle == [st |-> "idle"]
Sent == [st |-> "sent"]
Read(v) == [st |-> "read", val |-> v]
Flights == {Idle, Sent} \union [st : {"read"}, val : Versions]
NoDraft == [id |-> NoId]
Drafts == {NoDraft} \union [id : Ids, base : Versions, name : Ids, dirty : BOOLEAN]
Lists == [ids : SUBSET Ids, loaded : BOOLEAN, old : BOOLEAN]
NoList == [ids |-> {}, loaded |-> FALSE, old |-> FALSE]
Mutations == [op : {"toggle", "save", "delete", "create"}, id : Ids, name : Ids,
              from : Ids \union {NoId}, st : {"sent", "done"}, ver : Versions]

Showing == page.at \in {"view", "edit"}
Active(id) == page.id = id
List == [at |-> "list", id |-> NoId]
View(id) == [at |-> "view", id |-> id]
Edit(id) == [at |-> "edit", id |-> id]

\* The rows of the list are clickable, and an administrator can create from it.
ListButtons == IF page # List THEN {}
               ELSE {<<"row", id>> : id \in listed.ids} \union
                    (IF listed.loaded /\ Admin /\ ~readOnly THEN {<<"create", NoId>>} ELSE {})

\* What ServiceCard renders: an error card or LOADING, or the service with the
\* actions an administrator has on it.
Shown == Showing /\ ~cache[page.id].failed /\ cache[page.id].ver # 0
         /\ (page.at = "edit" => draft # NoDraft)
Buttons == IF ~(Shown /\ Admin) THEN {}
           ELSE IF page.at = "view" THEN {"toggle"} \union (IF readOnly THEN {} ELSE {"edit"})
           ELSE IF readOnly THEN {} ELSE {"cancel", "delete", "save"}

Init == /\ server \in [Ids -> {0, 1}]
        /\ writes = 1
        /\ readOnly = TRUE
        /\ page \in Pages
        /\ cache = [i \in Ids |-> Empty]
        /\ flight = [i \in Ids |-> IF page.id = i THEN Sent ELSE Idle]
        /\ listed = NoList
        /\ listFlight = IF page = List THEN Sent ELSE Idle
        /\ draft = NoDraft
        /\ pending = {}
        /\ acked = 0
        /\ acts = 0

-----------------------------------------------------------------------------
(* What the actions are made of. *)

Act == acts < MaxActs /\ acts' = acts + 1

FromCache(id, v) == [id |-> id, base |-> v, name |-> id, dirty |-> FALSE]

\* The effect on [data, edit]: a draft is made from the first data an edit page
\* has, and from no other.
Redraft(p, d, c) == IF p.at # "edit" \/ c[p.id].ver = 0 THEN d
                    ELSE FromCache(p.id, c[p.id].ver)
Drafted(p, d, c) == IF p.at # "edit" \/ d # NoDraft \/ c[p.id].ver = 0 THEN d
                    ELSE FromCache(p.id, c[p.id].ver)

\* A query that is asked again keeps its error while it has data to show; one
\* without data is loading, as if for the first time.
Asked(c, id) == IF c[id].ver = 0 THEN [c EXCEPT ![id].failed = FALSE] ELSE c

\* A page opens: its query is asked for unless its data is fresh (it may be
\* older than a minute without being marked old); from one edit page straight
\* to another the component stays, and its state with it.
StaysByService(p) == p.id = page.id /\ p.at # "list"
Stays(p) == p.at = page.at /\ p.at # "list"
Arrive(p, c, f, l, lf) ==
  \E aged \in BOOLEAN :
    LET asks == /\ p.at # "list" /\ f[p.id] = Idle
                /\ c[p.id].ver = 0 \/ c[p.id].old \/ c[p.id].failed \/ aged
    IN /\ page' = p
       /\ cache' = IF asks THEN Asked(c, p.id) ELSE c
       /\ flight' = IF asks THEN [f EXCEPT ![p.id] = Sent] ELSE f
       /\ listed' = l
       /\ listFlight' = IF p.at = "list" /\ lf = Idle /\ (~l.loaded \/ l.old \/ aged) THEN Sent ELSE lf
       /\ draft' = Drafted(p, IF Stays(p) THEN draft ELSE NoDraft, c)
       /\ acked' = 0

Go(p) == Arrive(p, cache, flight, listed, listFlight)

\* invalidateQueries: what matches is marked old; what is on the page is asked
\* for again, and an answer on its way is discarded, unless it is the first.
Old(c, ids) ==
  [i \in Ids |-> IF i \in ids THEN [c[i] EXCEPT !.old = TRUE, !.failed = @ /\ ~(Active(i) /\ c[i].ver = 0)]
                ELSE c[i]]
Uncancelled(c, f, ids) ==
  [i \in Ids |-> IF i \in ids /\ Active(i) /\ f[i] = Idle THEN Sent ELSE f[i]]
Again(c, f, ids) ==
  [i \in Ids |-> IF i \in ids /\ Active(i) /\ (f[i] = Idle \/ c[i].ver # 0) THEN Sent ELSE f[i]]

Mutate(m) == pending' = pending \union {m}
Mutation(op, id, name, from) ==
  [op |-> op, id |-> id, name |-> name, from |-> from, st |-> "sent", ver |-> 0]

-----------------------------------------------------------------------------
(* The user. *)

\* A row, the address bar, or the history, which may leap over pages.
Open(p) ==
  /\ Act
  /\ p # page
  /\ Go(p)
  /\ UNCHANGED <<server, writes, readOnly, pending>>

ClickRow(id) ==
  /\ Act
  /\ <<"row", id>> \in ListButtons
  /\ Go(View(id))
  /\ UNCHANGED <<server, writes, readOnly, pending>>

ClickEdit ==
  /\ Act
  /\ "edit" \in Buttons
  /\ Go(Edit(page.id))
  /\ UNCHANGED <<server, writes, readOnly, pending>>

ClickCancel ==
  /\ Act
  /\ "cancel" \in Buttons
  /\ Go(View(page.id))
  /\ UNCHANGED <<server, writes, readOnly, pending>>

\* toggleStatus: a stop or a start, by what is shown.
ToggleStatus ==
  /\ Act
  /\ "toggle" \in Buttons
  /\ Mutate(Mutation("toggle", page.id, page.id, page.id))
  /\ UNCHANGED <<server, writes, readOnly, page, cache, flight, listed,
                 listFlight, draft, acked>>

\* handleInputChange, addRoute, updateRoute and removeRoute.
Type(n) ==
  /\ Act
  /\ Shown /\ page.at = "edit"
  /\ draft' = [draft EXCEPT !.name = n, !.dirty = TRUE]
  /\ UNCHANGED <<server, writes, readOnly, page, cache, flight, listed,
                 listFlight, pending, acked>>

\* handleSave does not wait for the answer.
HandleSave ==
  /\ Act
  /\ "save" \in Buttons
  /\ Mutate(Mutation("save", draft.id, draft.name, page.id))
  /\ Go(View(page.id))
  /\ UNCHANGED <<server, writes, readOnly>>

\* handleDelete marks everything old before the server has heard of it.
HandleDelete ==
  /\ Act
  /\ "delete" \in Buttons
  /\ Mutate(Mutation("delete", draft.id, draft.id, page.id))
  /\ Arrive(List, Old(cache, {i \in Ids : cache[i].ver # 0}), Again(cache, flight, Ids),
            [listed EXCEPT !.old = listed.loaded], listFlight)
  /\ UNCHANGED <<server, writes, readOnly>>

CreateService(n) ==
  /\ Act
  /\ <<"create", NoId>> \in ListButtons
  /\ Mutate(Mutation("create", n, n, NoId))
  /\ UNCHANGED <<server, writes, readOnly, page, cache, flight, listed,
                 listFlight, draft, acked>>

-----------------------------------------------------------------------------
(* The server, and another administrator. *)

\* router.Create, Update and Remove as far as ids go: a rename takes over its
\* new id whoever has it.
Renamed(id, name, v) == [i \in Ids |-> IF i = name THEN v ELSE IF i = id THEN 0 ELSE server[i]]
Written(op, id, name, v) ==
  CASE op = "toggle" -> [server EXCEPT ![id] = v]
    [] op = "save" -> Renamed(id, name, v)
    [] op = "delete" -> [server EXCEPT ![id] = 0]
    [] op = "create" -> [server EXCEPT ![id] = v]
Accepted(op, id) == (server[id] = 0) = (op = "create")

\* A mutation that is refused changes nothing, on the page neither.
Serve(m) ==
  /\ m.st = "sent"
  /\ IF Accepted(m.op, m.id)
     THEN /\ writes' = writes + 1
          /\ server' = Written(m.op, m.id, m.name, writes + 1)
          /\ pending' = (pending \ {m}) \union {[m EXCEPT !.st = "done", !.ver = writes + 1]}
     ELSE /\ pending' = pending \ {m}
          /\ UNCHANGED <<writes, server>>
  /\ UNCHANGED <<readOnly, page, cache, flight, listed, listFlight, draft,
                 acked, acts>>

Foreign(op, id, name) ==
  /\ Act
  /\ Accepted(op, id)
  /\ writes' = writes + 1
  /\ server' = Written(op, id, name, writes + 1)
  /\ UNCHANGED <<readOnly, page, cache, flight, listed, listFlight, draft,
                 pending, acked>>

ServeService(id) ==
  /\ flight[id] = Sent
  /\ flight' = [flight EXCEPT ![id] = Read(server[id])]
  /\ UNCHANGED <<server, writes, readOnly, page, cache, listed, listFlight,
                 draft, pending, acked, acts>>

-----------------------------------------------------------------------------
(* Answers, and the polling of a page that shows a service. *)

GetConfig ==
  /\ readOnly /\ ~ReadOnly
  /\ readOnly' = FALSE
  /\ UNCHANGED <<server, writes, page, cache, flight, listed, listFlight, draft,
                 pending, acked, acts>>

\* refetchInterval: every five seconds on a view page, never on an edit page.
PollsEdit(p) == p.at = "edit"
Polls(p) == p.at = "view"
Poll(id) ==
  /\ Polls(page) /\ Active(id) /\ flight[id] = Idle
  /\ flight' = [flight EXCEPT ![id] = Sent]
  /\ cache' = Asked(cache, id)
  /\ UNCHANGED <<server, writes, readOnly, page, listed, listFlight, draft,
                 pending, acked, acts>>

\* A service that is not there is an error, which is not retried and keeps the data.
Answered(c, id, v) == IF v = 0 THEN [c EXCEPT ![id].failed = TRUE]
                      ELSE [c EXCEPT ![id] = [ver |-> v, old |-> FALSE, failed |-> FALSE]]
GetService(id) ==
  /\ flight[id].st = "read"
  /\ flight' = [flight EXCEPT ![id] = Idle]
  /\ cache' = Answered(cache, id, flight[id].val)
  /\ draft' = Drafted(page, draft, cache')
  /\ UNCHANGED <<server, writes, readOnly, page, listed, listFlight, pending,
                 acked, acts>>

LoseService(id) ==
  /\ Act
  /\ flight[id] # Idle
  /\ flight' = [flight EXCEPT ![id] = Idle]
  /\ cache' = [cache EXCEPT ![id].failed = TRUE]
  /\ UNCHANGED <<server, writes, readOnly, page, listed, listFlight, draft,
                 pending, acked>>

\* The list of what there is, read and delivered in one step.
GetServices ==
  /\ listFlight = Sent
  /\ listFlight' = Idle
  /\ listed' = [ids |-> {i \in Ids : server[i] # 0}, loaded |-> TRUE, old |-> FALSE]
  /\ UNCHANGED <<server, writes, readOnly, page, cache, flight, draft, pending,
                 acked, acts>>

\* The answer of a start or stop is shown at once and asked for again.
Toggled(m) ==
  LET c == Answered(cache, m.id, m.ver)
  IN /\ cache' = Old(c, {m.id})
     /\ flight' = Again(c, flight, {m.id})
     /\ draft' = Drafted(page, draft, c)
     /\ acked' = IF Active(m.id) /\ m.ver > acked THEN m.ver ELSE acked
     /\ UNCHANGED <<page, listed, listFlight>>

Saved(m) ==
  IF m.name = m.from
  THEN /\ cache' = Old(cache, {m.name})
       /\ flight' = Again(cache, flight, {m.name})
       /\ acked' = IF Active(m.name) /\ m.ver > acked THEN m.ver ELSE acked
       /\ UNCHANGED <<page, listed, listFlight, draft>>
  ELSE Go(View(m.name))

\* onSuccess runs wherever the user has gone since.
Succeed(m) ==
  /\ m.st = "done"
  /\ pending' = pending \ {m}
  /\ CASE m.op = "toggle" -> Toggled(m)
       [] m.op = "save" -> Saved(m)
       [] m.op = "delete" -> Go(List)
       [] m.op = "create" -> Go(Edit(m.name))
  /\ UNCHANGED <<server, writes, readOnly, acts>>

Next ==
  \/ \E p \in Pages : Open(p)
  \/ \E id \in Ids : ClickRow(id)
  \/ ClickEdit
  \/ ClickCancel
  \/ ToggleStatus
  \/ \E n \in Ids : Type(n)
  \/ HandleSave
  \/ HandleDelete
  \/ \E n \in Ids : CreateService(n)
  \/ \E m \in pending : Serve(m)
  \/ \E op \in {"toggle", "save", "delete", "create"}, id, name \in Ids : Foreign(op, id, name)
  \/ \E id \in Ids : ServeService(id)
  \/ GetConfig
  \/ \E id \in Ids : Poll(id)
  \/ \E id \in Ids : GetService(id)
  \/ \E id \in Ids : LoseService(id)
  \/ GetServices
  \/ \E m \in pending : Succeed(m)

\* The timer of a view page fires, the server answers, the network delivers.
Fairness == \A id \in Ids : /\ WF_vars(Poll(id))
                            /\ WF_vars(ServeService(id))
                            /\ WF_vars(GetService(id))

Spec == Init /\ [][Next]_vars /\ Fairness

-----------------------------------------------------------------------------
(* Properties. *)

\* Every variable keeps its type; a draft exists on edit pages only, and a
\* version that is cached or on its way is one the server has written.
TypeOK ==
  /\ server \in [Ids -> Versions] /\ writes \in Versions
  /\ readOnly \in BOOLEAN
  /\ page \in Pages
  /\ cache \in [Ids -> Cached]
  /\ flight \in [Ids -> Flights]
  /\ \A i \in Ids : flight[i].st = "read" => flight[i].val <= writes
  /\ listed \in Lists
  /\ listFlight \in {Idle, Sent}
  /\ draft \in Drafts /\ (page.at # "edit" => draft = NoDraft)
  /\ pending \subseteq Mutations
  /\ acked \in 0 .. writes
  /\ acts \in 0 .. MaxActs

\* What the user has typed on an edit page is changed by nothing but typing as
\* long as the page stays: no answer of a query or of a mutation, of this page
\* or of one before it, replaces the draft.
DraftKept == [][page' = page /\ draft # NoDraft
                => draft' = draft \/ \E n \in Ids : Type(n)]_vars

\* While a page stays, an answer that was read before a start, stop or save
\* the page has been told of is never shown after it: the invalidation throws
\* away what was in flight.
AckedStays ==
  [][\A id \in Ids : page' = page /\ Active(id) /\ GetService(id) /\ flight[id].val # 0
                     => flight[id].val >= acked]_vars

\* When writes and clicks have come to an end, a page of a service settles on
\* the server's version of it, or shows none when there is none and says so
\* again and again (in between it may be loading), however the answers of
\* queries, starts, saves and renames overtook each other.
Converges ==
  /\ <>[](page.at = "view" => LET id == page.id
                              IN IF server[id] = 0 THEN ~Shown
                                 ELSE cache[id].ver = server[id] /\ ~cache[id].failed)
  /\ []<>(page.at = "view" /\ server[page.id] = 0 => cache[page.id].failed)
=============================================================================
