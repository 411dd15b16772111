------------------------------ MODULE RouteForm ------------------------------
(***************************************************************************)
(* The routes on the edit page of a service: RouteEditCard, TailscaleHost, *)
(* AdvancedHttpSettings, what ServiceCard does with the routes they hand   *)
(* it, and what the server makes of the routes that are saved.             *)
(*                                                                         *)
(* The draft of the page is made of the objects of the query cache.  Every *)
(* handler puts a new object in the place of the one it changes, except    *)
(* those that rename, fill and remove a header: they write into the map of *)
(* headers itself, which may still be the cache's.  So the draft says      *)
(* which of its maps are the cache's ("shares").                           *)
(*                                                                         *)
(* A number that is missing and a text that is not one are both 0, which   *)
(* is what the server decodes from them: its handlers do not look at the   *)
(* error of the decoder.                                                   *)
(***************************************************************************)
EXTENDS Integers, Sequences, FiniteSetsExt, Functions, SequencesExt

CONSTANTS Starts,     \* the lists of routes the server may have
          Hosts,      \* hostname -> address of the nodes of the tailnet
          Empty,      \* the empty text, or a missing one
          Addresses,  \* addresses the user types
          Domains,    \* domains and paths the user types
          Numbers,    \* numbers the user types
          Kinds,      \* types of routes the user picks
          Headers,    \* names of headers
          Values,     \* values of headers
          MaxEdits    \* bound: edits of a draft, saves and writes of others

\* What a route is made of: texts, numbers and tables of headers.
Texts == {Empty} \union Addresses \union Domains \union Headers \union Values
         \union DOMAIN Hosts \union Range(Hosts)
Types == {"", "http", "https", "tcp", "udp"} \union Kinds
HeaderMaps == UNION {[S -> Texts] : S \in SUBSET Headers}
Rules == [path : Texts \union {"/api/"}, target_host : Texts, target_port : Int,
          strip_path : BOOLEAN, rewrite : Texts]
Proxies == [timeout : Int, retry_attempts : Int,
            options : SUBSET {"buffer_requests", "preserve_host", "follow_redirects"},
            rules : Seq(Rules), add : HeaderMaps, set : HeaderMaps, remove : Seq(Texts)]
Routes == [type : Types, private : BOOLEAN, bot_protect : BOOLEAN, domain : Texts,
           port : Int, node : Texts, address : Texts, mport : Int, proxy_settings : Proxies]

ASSUME StartsAssumption == Starts \subseteq Seq(Routes)
ASSUME HostsAssumption == \A g, h \in DOMAIN Hosts : Hosts[g] = Hosts[h] => g = h
ASSUME EmptyAssumption == Empty \notin Addresses \union Domains \union Headers
ASSUME NumbersAssumption == Numbers \subseteq Int /\ 0 \in Numbers
ASSUME BoundAssumption == MaxEdits \in Nat

VARIABLES
  server,  \* the routes of the service
  sent,    \* what the page was last sent of them
  cache,   \* the same objects in the query cache, as they are now
  page,    \* "view" or "edit"
  nodes,   \* the nodes of the tailnet have been fetched
  draft,   \* the routes on the edit page
  saving,  \* the routes of a save that is sent and not answered
  kept,    \* what the edit page showed when the last valid draft was saved
  edits    \* edits, saves and writes of others so far

vars == <<server, sent, cache, page, nodes, draft, saving, kept, edits>>

Tables == {"add", "set"}
NoHeaders == [n \in {} |-> Empty]
NoProxy == [timeout |-> 0, retry_attempts |-> 0, options |-> {}, rules |-> << >>,
            add |-> NoHeaders, set |-> NoHeaders, remove |-> << >>]
NoRoute == [type |-> "", private |-> FALSE, bot_protect |-> FALSE, domain |-> Empty,
            port |-> 0, node |-> Empty, address |-> Empty, mport |-> 0,
            proxy_settings |-> NoProxy]

TypeOK ==
  /\ {server, sent, cache, saving.routes} \subseteq Seq(Routes)
  /\ draft \in Seq([key : Nat, route : Routes, shares : SUBSET Tables])
  /\ page \in {"view", "edit"} /\ nodes \in BOOLEAN
  /\ saving.st \in {"no", "sent"} /\ kept.st \in {"no", "sent", "served", "fetched"}
  /\ edits \in 0 .. MaxEdits

Unsaved == [st |-> "no", routes |-> << >>]
Nothing == [st |-> "no", shown |-> {}]

Init == /\ server \in Starts
        /\ sent = server
        /\ cache = server
        /\ page = "view"
        /\ nodes = FALSE
        /\ draft = << >>
        /\ saving = Unsaved
        /\ kept = Nothing
        /\ edits = 0

-----------------------------------------------------------------------------
(* What a route shows, and where its header maps are. *)

\* The elements of s at the places I, in their order: the k-th is the one with
\* k of the places up to its own.
Rank(i, I) == Cardinality({j \in I : j <= i})
Picked(s, I) == [k \in 1 .. Cardinality(I) |-> s[CHOOSE i \in I : Rank(i, I) = k]]

IsHttp(r) == r.type \in {"http", "https"}
IsPort(r) == r.type \in {"tcp", "udp"}

\* The map of headers a card works on.
HeadersOf(e, t) == IF t \in e.shares THEN cache[e.key].proxy_settings[t]
                   ELSE e.route.proxy_settings[t]
WithHeaders(r, t, m) == [r EXCEPT !.proxy_settings[t] = m]
Value(e) == [e.route EXCEPT !.proxy_settings.add = HeadersOf(e, "add"),
                            !.proxy_settings.set = HeadersOf(e, "set")]

\* The hostname of the node with the route's address, or the route's own label.
Label(r) == IF \E h \in DOMAIN Hosts : Hosts[h] = r.address
            THEN CHOOSE h \in DOMAIN Hosts : Hosts[h] = r.address
            ELSE IF r.node # Empty THEN r.node ELSE r.address

Default == [timeout |-> 30, retry_attempts |-> 3]
OrElse(n, m) == IF n = 0 THEN m ELSE n

\* What the cards of the edit page show of a route, once the nodes are fetched:
\* a number that is not set is shown as its default, a rewrite only with strip_path.
Shown(r) ==
  LET p == r.proxy_settings
      rule(u) == [u EXCEPT !.rewrite = IF u.strip_path THEN u.rewrite ELSE Empty]
  IN [r EXCEPT !.port = IF IsPort(r) THEN r.port ELSE 0,
               !.domain = IF IsHttp(r) THEN r.domain ELSE Empty,
               !.private = IsHttp(r) /\ r.private,
               !.bot_protect = r.type = "https" /\ r.bot_protect,
               !.node = Label(r),
               !.proxy_settings =
                 IF ~IsHttp(r) THEN NoProxy
                 ELSE [p EXCEPT !.timeout = OrElse(p.timeout, Default.timeout),
                                !.retry_attempts = OrElse(p.retry_attempts, Default.retry_attempts),
                                !.rules = [k \in DOMAIN p.rules |-> rule(p.rules[k])]]]

-----------------------------------------------------------------------------
(* The server. *)

\* RouteComparison: whether two configurations are of one route.
SameRoute(v, w) == /\ v.type = w.type /\ v.address = w.address /\ v.mport = w.mport
                   /\ IsHttp(v) => v.domain = w.domain
                   /\ IsPort(v) => v.port = w.port

MaxPort == 65535

\* validate, which only the server's start calls: not the handler of a save.
Valid(rs) ==
  /\ \A i \in DOMAIN rs :
       /\ rs[i].address # Empty /\ rs[i].mport \in 1 .. MaxPort
       /\ IsHttp(rs[i]) \/ IsPort(rs[i])
       /\ IsHttp(rs[i]) => rs[i].domain # Empty
       /\ IsPort(rs[i]) => rs[i].port \in 1 .. MaxPort
  /\ \A i, j \in DOMAIN rs : SameRoute(rs[i], rs[j]) => i = j

\* The port of a machine has sixteen bits: another number is not decoded.
Decoded(r) == [r EXCEPT !.mport = IF r.mport \in 0 .. MaxPort THEN r.mport ELSE 0]

\* Service.Update: the routes there are take their new configuration, the
\* others are made, unless their type is none, and go to the end.
UpdatedByIndex(old, new) ==
  LET known == {k \in DOMAIN new : \E i \in DOMAIN old : SameRoute(old[i], new[k])}
      stay == Picked(new, known)
      Earliest(c) == old[Min({i \in DOMAIN old : SameRoute(old[i], c)})]
  IN [k \in DOMAIN stay |-> Earliest(stay[k])]
     \o Picked(new, {k \in DOMAIN new \ known : new[k].type # ""})
Updated(old, new) ==
  LET known == {k \in DOMAIN new : \E i \in DOMAIN old : SameRoute(old[i], new[k])}
      stay == Picked(new, known)
      Latest(c) == new[Max({j \in DOMAIN new : SameRoute(new[j], c)})]
  IN [k \in DOMAIN stay |-> Latest(stay[k])]
     \o Picked(new, {k \in DOMAIN new \ known : new[k].type # ""})

-----------------------------------------------------------------------------
(* What the handlers of the page are made of. *)

Act == edits < MaxEdits /\ edits' = edits + 1

\* updateRoute of ServiceCard: the new object takes the place of every route
\* with its key, and the routes the user has added have none (0).
PutOnAddress(e, r, shares) ==
  draft' = [j \in DOMAIN draft |->
              IF draft[j].route.address = e.route.address
              THEN [draft[j] EXCEPT !.route = r, !.shares = @ \intersect shares] ELSE draft[j]]
Put(e, r, shares) ==
  draft' = [j \in DOMAIN draft |->
              IF draft[j].key = e.key
              THEN [key |-> e.key, route |-> r, shares |-> shares] ELSE draft[j]]

EditPage(i) == Act /\ page = "edit" /\ i \in DOMAIN draft
               /\ UNCHANGED <<server, sent, page, nodes, saving, kept>>
Change(i, r) == Put(draft[i], r, draft[i].shares) /\ UNCHANGED cache

\* Spreading a map, as addHeader does, leaves the cache's alone.
CopyHeaders(i, t, m) == /\ Put(draft[i], WithHeaders(draft[i].route, t, m), draft[i].shares \ {t})
                        /\ UNCHANGED cache
\* Writing into a map writes into the cache's as long as it is shared.
WriteHeaders(i, t, m) ==
  IF t \in draft[i].shares
  THEN /\ cache' = [cache EXCEPT ![draft[i].key] = WithHeaders(@, t, m)]
       /\ UNCHANGED draft
  ELSE CopyHeaders(i, t, m)

-----------------------------------------------------------------------------
(* RouteEditCard and TailscaleHost. *)

\* The type and the fields of RouteEditCard, by what the card shows.
RouteFields(r) ==
  {[r EXCEPT !.type = t] : t \in Kinds}
  \union (IF IsPort(r) THEN {[r EXCEPT !.port = n] : n \in Numbers} ELSE {})
  \union (IF IsHttp(r) THEN {[r EXCEPT !.domain = d] : d \in Domains \union {Empty}}
                            \union {[r EXCEPT !.private = ~r.private]} ELSE {})
  \union (IF r.type = "https" THEN {[r EXCEPT !.bot_protect = ~r.bot_protect]} ELSE {})
ChangeRoute(i) == EditPage(i) /\ \E r \in RouteFields(draft[i].route) : Change(i, r)

\* The options of the list of nodes: the nodes, and the route's own address.
Options(r) ==
  IF ~nodes THEN {}
  ELSE {[label |-> h, value |-> Hosts[h]] : h \in DOMAIN Hosts}
       \union (IF r.address = Empty \/ r.address \in Range(Hosts) THEN {}
               ELSE {[label |-> Label(r), value |-> r.address]})

HandleNodeChange(i) ==
  /\ EditPage(i)
  /\ \E o \in Options(draft[i].route) :
       Change(i, [draft[i].route EXCEPT !.node = o.label, !.address = o.value])

\* An address of one's own keeps the label of the node before.
AddCustomValue(i, a) ==
  /\ EditPage(i)
  /\ \A o \in Options(draft[i].route) : o.value # a
  /\ Change(i, [draft[i].route EXCEPT !.address = a])

HandlePortChange(i, n) == EditPage(i) /\ Change(i, [draft[i].route EXCEPT !.mport = n])

-----------------------------------------------------------------------------
(* AdvancedHttpSettings, of HTTP and HTTPS routes only. *)

Advanced(i) == EditPage(i) /\ IsHttp(draft[i].route)
UpdateProxySettings(i, p) == Change(i, [draft[i].route EXCEPT !.proxy_settings = p])
Proxy(i) == draft[i].route.proxy_settings

ChangeSettings(i) ==
  /\ Advanced(i)
  /\ LET p == Proxy(i)
     IN \/ \E n \in Numbers : UpdateProxySettings(i, [p EXCEPT !.timeout = OrElse(n, Default.timeout)])
        \/ \E n \in Numbers : UpdateProxySettings(i, [p EXCEPT !.retry_attempts = OrElse(n, Default.retry_attempts)])
        \/ \E o \in {"buffer_requests", "preserve_host", "follow_redirects"} :
             UpdateProxySettings(i, [p EXCEPT !.options = SymDiff(@, {o})])

NewRule == [path |-> "/api/", target_host |-> Empty, target_port |-> 0,
            strip_path |-> FALSE, rewrite |-> Empty]
RuleFields(u) ==
  {[u EXCEPT !.path = d] : d \in Domains} \union {[u EXCEPT !.target_host = d] : d \in Domains}
  \union {[u EXCEPT !.target_port = n] : n \in Numbers}
  \union {[u EXCEPT !.strip_path = ~u.strip_path]}
  \union (IF u.strip_path THEN {[u EXCEPT !.rewrite = d] : d \in Domains} ELSE {})
ChangeRules(i) ==
  /\ Advanced(i)
  /\ LET p == Proxy(i)
     IN \/ UpdateProxySettings(i, [p EXCEPT !.rules = Append(@, NewRule)])
        \/ \E k \in DOMAIN p.rules : \E u \in RuleFields(p.rules[k]) :
             UpdateProxySettings(i, [p EXCEPT !.rules[k] = u])
        \/ \E k \in DOMAIN p.rules :
             UpdateProxySettings(i, [p EXCEPT !.rules = RemoveAt(@, k)])

\* A new header has a name of its own, made of the time.
AddHeaderInPlace(i, t, n) ==
  /\ Advanced(i)
  /\ LET m == HeadersOf(draft[i], t)
     IN n \notin DOMAIN m /\ WriteHeaders(i, t, [h \in DOMAIN m \union {n} |-> IF h = n THEN Empty ELSE m[h]])
AddHeader(i, t, n) ==
  /\ Advanced(i)
  /\ LET m == HeadersOf(draft[i], t)
     IN n \notin DOMAIN m /\ CopyHeaders(i, t, [h \in DOMAIN m \union {n} |-> IF h = n THEN Empty ELSE m[h]])

\* The new name may be that of another header, which is lost.
UpdateHeaderKey(i, t, old, new) ==
  /\ Advanced(i)
  /\ LET m == HeadersOf(draft[i], t)
     IN /\ old \in DOMAIN m /\ new # old
        /\ WriteHeaders(i, t, [h \in (DOMAIN m \ {old}) \union {new} |-> IF h = new THEN m[old] ELSE m[h]])

UpdateHeaderValue(i, t, n, v) ==
  /\ Advanced(i)
  /\ LET m == HeadersOf(draft[i], t)
     IN n \in DOMAIN m /\ WriteHeaders(i, t, [m EXCEPT ![n] = v])

RemoveHeader(i, t, n) ==
  /\ Advanced(i)
  /\ LET m == HeadersOf(draft[i], t)
     IN n \in DOMAIN m /\ WriteHeaders(i, t, Restrict(m, DOMAIN m \ {n}))

ChangeRemoved(i) ==
  /\ Advanced(i)
  /\ LET p == Proxy(i)
     IN \/ UpdateProxySettings(i, [p EXCEPT !.remove = Append(@, Empty)])
        \/ \E k \in DOMAIN p.remove, n \in Headers :
             UpdateProxySettings(i, [p EXCEPT !.remove[k] = n])
        \/ \E k \in DOMAIN p.remove :
             UpdateProxySettings(i, [p EXCEPT !.remove = RemoveAt(@, k)])

-----------------------------------------------------------------------------
(* ServiceCard. *)

\* The effect that makes the draft: the cached objects, each with its key.
ClickEdit ==
  /\ page = "view"
  /\ page' = "edit"
  /\ draft' = [i \in DOMAIN cache |->
                 [key |-> i, shares |-> Tables,
                  route |-> WithHeaders(WithHeaders(cache[i], "add", NoHeaders), "set", NoHeaders)]]
  /\ UNCHANGED <<server, sent, cache, nodes, saving, kept, edits>>

Leave ==
  /\ page = "edit"
  /\ page' = "view" /\ draft' = << >>
  /\ UNCHANGED <<server, sent, cache, nodes, saving, kept, edits>>

AddRoute ==
  /\ Act /\ page = "edit"
  /\ draft' = <<[key |-> 0, route |-> NoRoute, shares |-> {}]>> \o draft
  /\ UNCHANGED <<server, sent, cache, page, nodes, saving, kept>>

RemoveRoute(i) ==
  /\ EditPage(i)
  /\ draft' = Picked(draft, {j \in DOMAIN draft : draft[j].key # draft[i].key})
  /\ UNCHANGED cache

HandleSave ==
  /\ Act
  /\ page = "edit" /\ saving = Unsaved
  /\ LET rs == [i \in DOMAIN draft |-> Value(draft[i])]
     IN /\ saving' = [st |-> "sent", routes |-> rs]
        /\ kept' = IF Valid(rs) THEN [st |-> "sent", shown |-> {Shown(rs[i]) : i \in DOMAIN rs}]
                   ELSE Nothing
  /\ page' = "view" /\ draft' = << >>
  /\ UNCHANGED <<server, sent, cache, nodes>>

ServeSave ==
  /\ saving.st = "sent"
  /\ server' = Updated(server, [i \in DOMAIN saving.routes |-> Decoded(saving.routes[i])])
  /\ saving' = Unsaved
  /\ kept' = IF kept.st = "sent" THEN [kept EXCEPT !.st = "served"] ELSE kept
  /\ UNCHANGED <<sent, cache, page, nodes, draft, edits>>

\* Another administrator writes the routes.
Foreign ==
  /\ Act
  /\ server' \in Starts /\ server' # server
  /\ kept' = Nothing
  /\ UNCHANGED <<sent, cache, page, nodes, draft, saving>>

\* The service is fetched: what is equal to the cached object leaves it in its
\* place, and a map that is replaced stays the draft's alone.
Fetch ==
  /\ sent' = server /\ cache' = server
  /\ kept' = IF kept.st = "served" THEN [kept EXCEPT !.st = "fetched"] ELSE kept
  /\ draft' = [i \in DOMAIN draft |->
       LET e == draft[i]
           same == {t \in e.shares : /\ e.key \in DOMAIN server
                                     /\ server[e.key].proxy_settings[t] = HeadersOf(e, t)}
       IN [e EXCEPT !.shares = same,
                    !.route.proxy_settings =
                      [f \in DOMAIN @ |-> IF f \in e.shares \ same THEN HeadersOf(e, f) ELSE @[f]]]]
  /\ UNCHANGED <<server, page, nodes, saving, edits>>

GetTailScaleNodes ==
  /\ page = "edit"
  /\ ~nodes /\ nodes' = TRUE
  /\ UNCHANGED <<server, sent, cache, page, draft, saving, kept, edits>>

Next ==
  \/ \E i \in DOMAIN draft :
       \/ ChangeRoute(i)
       \/ HandleNodeChange(i)
       \/ \E a \in Addresses : AddCustomValue(i, a)
       \/ \E n \in Numbers : HandlePortChange(i, n)
       \/ ChangeSettings(i)
       \/ ChangeRules(i)
       \/ \E t \in Tables, n \in Headers : AddHeader(i, t, n)
       \/ \E t \in Tables, old, new \in Headers : UpdateHeaderKey(i, t, old, new)
       \/ \E t \in Tables, n \in Headers, v \in Values : UpdateHeaderValue(i, t, n, v)
       \/ \E t \in Tables, n \in Headers : RemoveHeader(i, t, n)
       \/ ChangeRemoved(i)
       \/ RemoveRoute(i)
  \/ ClickEdit
  \/ Leave
  \/ AddRoute
  \/ HandleSave
  \/ ServeSave
  \/ Foreign
  \/ Fetch
  \/ GetTailScaleNodes

Spec == Init /\ [][Next]_vars

-----------------------------------------------------------------------------
(* Properties. *)

\* What the page writes into the query cache, and so does not take back on
\* Cancel, are headers of tables in which the server had sent some: all else
\* that is typed, other headers too, is in the draft alone.
OnlySentHeadersLeak ==
  \A i \in DOMAIN cache :
    /\ \A f \in DOMAIN NoRoute \ {"proxy_settings"} : cache[i][f] = sent[i][f]
    /\ \A f \in DOMAIN NoProxy \ Tables : cache[i].proxy_settings[f] = sent[i].proxy_settings[f]
    /\ \A t \in Tables : sent[i].proxy_settings[t] = NoHeaders
                         => cache[i].proxy_settings[t] = NoHeaders

\* A step on an edit page changes the routes of one key at most, and an answer
\* of the server, whatever others have written, changes none.
FormValues == {[key |-> draft[i].key, value |-> Value(draft[i])] : i \in DOMAIN draft}
Keyed(vs, k) == {v \in vs : v.key = k}
EditsOneRoute ==
  [][page = "edit" /\ page' = "edit" =>
       LET keys == {v.key : v \in FormValues \union FormValues'}
           changed == {k \in keys : Keyed(FormValues, k) # Keyed(FormValues', k)}
       IN Cardinality(changed) <= (IF edits' = edits THEN 0 ELSE 1)]_vars

\* A draft the server's own validation would accept, with no two routes it
\* takes for one, is shown by the page after the save as it was typed, unless
\* someone else has written the routes since.
SavedIsShown ==
  kept.st = "fetched" => {Shown(sent[i]) : i \in DOMAIN sent} = kept.shown
=============================================================================
