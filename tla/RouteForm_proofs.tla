--------------------------- MODULE RouteForm_proofs ---------------------------
(***************************************************************************)
(* Proofs about RouteForm, for any routes, hosts, texts and number of      *)
(* edits: what the page writes into the cache, which routes a handler      *)
(* changes, and what is shown of a draft once it has been saved.           *)
(***************************************************************************)
EXTENDS RouteForm, TLAPS, FiniteSetTheorems, SequenceTheorems

-----------------------------------------------------------------------------
(* Picking from a sequence. *)

\* The ranks of finitely many numbers are those up to how many they are.
LEMMA Ranks ==
  ASSUME NEW I \in SUBSET Int, IsFiniteSet(I)
  PROVE  /\ Cardinality(I) \in Nat
         /\ \A i \in I : Rank(i, I) \in 1 .. Cardinality(I)
         /\ \A i, j \in I : Rank(i, I) = Rank(j, I) => i = j
         /\ \A k \in 1 .. Cardinality(I) : \E i \in I : Rank(i, I) = k
<1> DEFINE Upto(i) == {j \in I : j <= i}
           f == [i \in I |-> Rank(i, I)]
<1>1. Cardinality(I) \in Nat
  BY FS_CardinalityType
<1>2. ASSUME NEW i \in I
      PROVE  IsFiniteSet(Upto(i)) /\ Cardinality(Upto(i)) \in 1 .. Cardinality(I)
  <2>1. Upto(i) \in SUBSET I /\ i \in Upto(i)
    OBVIOUS
  <2>2. IsFiniteSet(Upto(i)) /\ Cardinality(Upto(i)) <= Cardinality(I)
    BY <2>1, FS_Subset
  <2>3. Cardinality(Upto(i)) \in Nat /\ Cardinality(Upto(i)) # 0
    BY <2>1, <2>2, FS_CardinalityType, FS_EmptySet
  <2> QED
    BY <1>1, <2>2, <2>3
<1>3. ASSUME NEW i \in I, NEW j \in I, i < j PROVE Cardinality(Upto(i)) # Cardinality(Upto(j))
  <2>1. Upto(i) \in SUBSET Upto(j)
    <3>1. \A x \in I : x <= i => x <= j
      BY <1>3
    <3> QED
      BY <3>1
  <2>2. j \in Upto(j) /\ j \notin Upto(i)
    BY <1>3
  <2>3. IsFiniteSet(Upto(j))
    BY <1>2
  <2> HIDE DEF Upto
  <2>4. Cardinality(Upto(j)) = Cardinality(Upto(i)) => Upto(j) = Upto(i)
    BY <2>1, <2>3, FS_Subset
  <2> QED
    BY <2>2, <2>4
<1>4. \A i \in I : Rank(i, I) = Cardinality(Upto(i))
  BY DEF Rank
<1> HIDE DEF Upto
<1>5. \A i, j \in I : Rank(i, I) = Rank(j, I) => i = j
  <2>1. \A i, j \in I : i = j \/ i < j \/ j < i
    OBVIOUS
  <2> QED
    BY <1>3, <1>4, <2>1
<1>6. \A i \in I : Rank(i, I) \in 1 .. Cardinality(I)
  BY <1>2, <1>4
<1>7. f \in Injection(I, 1 .. Cardinality(I))
  BY <1>5, <1>6 DEF Injection, IsInjective
<1>8. IsFiniteSet(1 .. Cardinality(I)) /\ Cardinality(1 .. Cardinality(I)) = Cardinality(I)
  BY <1>1, FS_Interval
<1>9. f \in Surjection(I, 1 .. Cardinality(I))
  BY <1>7, <1>8, FS_Injection
<1>10. \A k \in 1 .. Cardinality(I) : \E i \in I : Rank(i, I) = k
  BY <1>9 DEF Surjection
<1> QED
  BY <1>1, <1>5, <1>6, <1>10

\* What is picked is what is at the places.
LEMMA PickedIs ==
  ASSUME NEW S, NEW s \in Seq(S), NEW I \in SUBSET DOMAIN s
  PROVE  /\ Picked(s, I) \in Seq(S)
         /\ \A k \in DOMAIN Picked(s, I) : \E i \in I : Picked(s, I)[k] = s[i]
         /\ \A i \in I : \E k \in DOMAIN Picked(s, I) : Picked(s, I)[k] = s[i]
<1> DEFINE at(k) == CHOOSE i \in I : Rank(i, I) = k
<1>1. I \in SUBSET Int /\ IsFiniteSet(I)
  <2>1. DOMAIN s = 1 .. Len(s) /\ Len(s) \in Nat
    OBVIOUS
  <2>2. IsFiniteSet(DOMAIN s)
    BY <2>1, FS_Interval
  <2> QED
    BY <2>1, <2>2, FS_Subset
<1>2. /\ Cardinality(I) \in Nat
      /\ \A i \in I : Rank(i, I) \in 1 .. Cardinality(I)
      /\ \A i, j \in I : Rank(i, I) = Rank(j, I) => i = j
      /\ \A k \in 1 .. Cardinality(I) : \E i \in I : Rank(i, I) = k
  BY <1>1, Ranks
<1>3. \A k \in 1 .. Cardinality(I) : at(k) \in I
  BY <1>2
<1>4. \A i \in I : at(Rank(i, I)) = i
  BY <1>2
<1>5. Picked(s, I) = [k \in 1 .. Cardinality(I) |-> s[at(k)]]
  BY DEF Picked
<1> HIDE DEF at
<1>6. \A i \in I : s[i] \in S
  OBVIOUS
<1>7. Picked(s, I) \in [1 .. Cardinality(I) -> S]
  BY <1>3, <1>5, <1>6
<1>8. Picked(s, I) \in Seq(S)
  BY <1>2, <1>7
<1>9. \A i \in I : \E k \in DOMAIN Picked(s, I) : Picked(s, I)[k] = s[i]
  BY <1>2, <1>4, <1>5
<1> QED
  BY <1>3, <1>5, <1>8, <1>9

\* A finite set of numbers that has some has a greatest.
LEMMA MaxIsOne ==
  ASSUME NEW I \in SUBSET Int, IsFiniteSet(I), I # {}
  PROVE  Max(I) \in I
<1>1. Cardinality(I) \in 1 .. Cardinality(I)
  BY FS_CardinalityType, FS_EmptySet
<1>2. PICK i \in I : Cardinality({j \in I : j <= i}) = Cardinality(I)
  BY <1>1, Ranks DEF Rank
<1>3. {j \in I : j <= i} \in SUBSET I
  OBVIOUS
<1>4. {j \in I : j <= i} = I
  BY <1>2, <1>3, FS_Subset
<1>5. \A j \in I : i >= j
  BY <1>4
<1> QED
  BY <1>5 DEF Max

-----------------------------------------------------------------------------
(* Routes and their tables of headers. *)

Fields == DOMAIN NoRoute \ {"proxy_settings"}
Settings == DOMAIN NoProxy \ Tables

LEMMA RouteParts ==
  ASSUME NEW r \in Routes
  PROVE  /\ r.proxy_settings \in Proxies
         /\ DOMAIN r = DOMAIN NoRoute /\ DOMAIN r.proxy_settings = DOMAIN NoProxy
         /\ \A t \in Tables : r.proxy_settings[t] \in HeaderMaps
  BY DEF Routes, Proxies, NoRoute, NoProxy, Tables

LEMMA HeadersReplaced ==
  ASSUME NEW r \in Routes, NEW t \in Tables, NEW m \in HeaderMaps
  PROVE  /\ WithHeaders(r, t, m) \in Routes
         /\ WithHeaders(r, t, m).proxy_settings[t] = m
         /\ \A f \in Fields : WithHeaders(r, t, m)[f] = r[f]
         /\ \A f \in DOMAIN NoProxy \ {t} : WithHeaders(r, t, m).proxy_settings[f] = r.proxy_settings[f]
<1> DEFINE p == [r.proxy_settings EXCEPT ![t] = m]
           w == [r EXCEPT !.proxy_settings = p]
<1>1. WithHeaders(r, t, m) = w
  BY DEF WithHeaders
<1>2. r.proxy_settings \in Proxies
  BY DEF Routes
<1>3. p \in Proxies
  BY <1>2 DEF Proxies, Tables
<1>4. p[t] = m /\ \A f \in DOMAIN NoProxy \ {t} : p[f] = r.proxy_settings[f]
  BY <1>2 DEF Proxies, Tables, NoProxy
<1> HIDE DEF p
<1>5. w \in Routes /\ w.proxy_settings = p /\ \A f \in Fields : w[f] = r[f]
  BY <1>3 DEF Routes, Fields, NoRoute
<1> QED
  BY <1>1, <1>4, <1>5

\* A route with other tables of headers.
Filled(r, a, s) == WithHeaders(WithHeaders(r, "add", a), "set", s)

LEMMA FilledIs ==
  ASSUME NEW r \in Routes, NEW a \in HeaderMaps, NEW s \in HeaderMaps
  PROVE  /\ Filled(r, a, s) \in Routes
         /\ Filled(r, a, s).proxy_settings.add = a
         /\ Filled(r, a, s).proxy_settings.set = s
         /\ \A f \in Fields : Filled(r, a, s)[f] = r[f]
         /\ \A f \in Settings : Filled(r, a, s).proxy_settings[f] = r.proxy_settings[f]
<1> DEFINE v == WithHeaders(r, "add", a)
<1>1. /\ v \in Routes /\ v.proxy_settings["add"] = a
      /\ \A f \in Fields : v[f] = r[f]
      /\ \A f \in DOMAIN NoProxy \ {"add"} : v.proxy_settings[f] = r.proxy_settings[f]
  BY HeadersReplaced DEF Tables
<1> HIDE DEF v
<1>2. /\ WithHeaders(v, "set", s) \in Routes /\ WithHeaders(v, "set", s).proxy_settings["set"] = s
      /\ \A f \in Fields : WithHeaders(v, "set", s)[f] = v[f]
      /\ \A f \in DOMAIN NoProxy \ {"set"} : WithHeaders(v, "set", s).proxy_settings[f] = v.proxy_settings[f]
  BY <1>1, HeadersReplaced DEF Tables
<1>3. Filled(r, a, s) = WithHeaders(v, "set", s)
  BY DEF Filled, v
<1>4. "add" \in DOMAIN NoProxy \ {"set"} /\ Settings \subseteq DOMAIN NoProxy \ {"set"}
      /\ Settings \subseteq DOMAIN NoProxy \ {"add"}
  BY DEF NoProxy, Settings, Tables
<1> QED
  BY <1>1, <1>2, <1>3, <1>4

\* Routes that agree in every field, every setting and both tables are equal.
LEMMA SameParts ==
  ASSUME NEW v \in Routes, NEW w \in Routes,
         \A f \in Fields : v[f] = w[f],
         \A f \in Settings : v.proxy_settings[f] = w.proxy_settings[f],
         v.proxy_settings.add = w.proxy_settings.add, v.proxy_settings.set = w.proxy_settings.set
  PROVE  v = w
<1>1. v.proxy_settings \in Proxies /\ w.proxy_settings \in Proxies
  BY DEF Routes
<1>2. v.proxy_settings = w.proxy_settings
  <2>1. \A p, q \in Proxies :
          /\ p.timeout = q.timeout /\ p.retry_attempts = q.retry_attempts /\ p.options = q.options
          /\ p.rules = q.rules /\ p.add = q.add /\ p.set = q.set /\ p.remove = q.remove
          => p = q
    BY DEF Proxies
  <2>2. {"timeout", "retry_attempts", "options", "rules", "remove"} \subseteq Settings
    BY DEF Settings, NoProxy, Tables
  <2> QED
    BY <1>1, <2>1, <2>2
<1> QED
  BY <1>2 DEF Routes, Fields, NoRoute

LEMMA ValueFilled ==
  ASSUME NEW e, e.route \in Routes, HeadersOf(e, "add") \in HeaderMaps
  PROVE  Value(e) = Filled(e.route, HeadersOf(e, "add"), HeadersOf(e, "set"))
<1> DEFINE r == e.route  a == HeadersOf(e, "add")  s == HeadersOf(e, "set")
<1>1. r \in Routes /\ a \in HeaderMaps
  OBVIOUS
<1>2. Value(e) = [r EXCEPT !.proxy_settings.add = a, !.proxy_settings.set = s]
  BY DEF Value
<1> HIDE DEF r, a, s
<1> QED
  BY <1>1, <1>2 DEF Filled, WithHeaders, r, a, s

-----------------------------------------------------------------------------
(* What an edit of one route does. *)

Entries == [key : Nat, route : Routes, shares : SUBSET Tables]

\* The draft shares tables only of routes the cache has.
KeysInv == \A j \in DOMAIN draft : draft[j].shares # {} => draft[j].key \in DOMAIN cache

LEMMA DraftTyped ==
  ASSUME TypeOK
  PROVE  draft \in Seq(Entries) /\ \A j \in DOMAIN draft : draft[j] \in Entries
<1>1. draft \in Seq(Entries)
  BY DEF TypeOK, Entries
<1> QED
  BY <1>1

LEMMA HeadersTyped ==
  ASSUME TypeOK, KeysInv, NEW j \in DOMAIN draft, NEW t \in Tables
  PROVE  draft[j] \in Entries /\ HeadersOf(draft[j], t) \in HeaderMaps
<1>1. draft[j] \in Entries
  BY DraftTyped
<1>2. CASE t \in draft[j].shares
  <2>1. cache[draft[j].key] \in Routes
    BY <1>2 DEF TypeOK, KeysInv
  <2> QED
    BY <1>1, <1>2, <2>1, RouteParts DEF HeadersOf
<1>3. CASE t \notin draft[j].shares
  BY <1>1, <1>3, RouteParts DEF HeadersOf, Entries
<1> QED
  BY <1>1, <1>2, <1>3

LEMMA ValueTyped ==
  ASSUME TypeOK, KeysInv, NEW j \in DOMAIN draft
  PROVE  /\ Value(draft[j]) = Filled(draft[j].route, HeadersOf(draft[j], "add"), HeadersOf(draft[j], "set"))
         /\ Value(draft[j]) \in Routes
<1>1. /\ draft[j].route \in Routes
      /\ HeadersOf(draft[j], "add") \in HeaderMaps /\ HeadersOf(draft[j], "set") \in HeaderMaps
  BY HeadersTyped DEF Entries, Tables
<1> QED
  BY <1>1, ValueFilled, FilledIs

\* The entries of other keys stay, and so does what the cache has under them.
OnlyKey(k) ==
  /\ \A j \in DOMAIN draft : draft[j].key # k => \E n \in DOMAIN draft' : draft'[n] = draft[j]
  /\ \A n \in DOMAIN draft' : draft'[n].key # k => \E j \in DOMAIN draft : draft'[n] = draft[j]
  /\ \A c \in DOMAIN cache : c # k => cache'[c] = cache[c]

\* The cache stays, or a table of one of its routes that had headers has others.
Leaks(k) ==
  \/ cache' = cache
  \/ \E t \in Tables, m \in HeaderMaps :
       /\ k \in DOMAIN cache /\ cache[k].proxy_settings[t] # NoHeaders
       /\ cache' = [cache EXCEPT ![k] = WithHeaders(cache[k], t, m)]

Effect(k) ==
  /\ cache' \in Seq(Routes) /\ draft' \in Seq(Entries) /\ KeysInv'
  /\ DOMAIN cache' = DOMAIN cache /\ OnlyKey(k) /\ Leaks(k)

LEMMA PutEffect ==
  ASSUME TypeOK, KeysInv, NEW i \in DOMAIN draft, NEW r \in Routes, NEW S \in SUBSET draft[i].shares,
         Put(draft[i], r, S), cache' = cache
  PROVE  Effect(draft[i].key)
<1> DEFINE k == draft[i].key  new == [key |-> k, route |-> r, shares |-> S]
<1>1. draft \in Seq(Entries) /\ draft[i] \in Entries
  BY DraftTyped
<1>2. new \in Entries
  BY <1>1 DEF Entries
<1>3. draft' = [j \in DOMAIN draft |-> IF draft[j].key = k THEN new ELSE draft[j]]
  BY DEF Put
<1>4. draft' \in Seq(Entries) /\ DOMAIN draft' = DOMAIN draft
  <2> HIDE DEF new, k
  <2> QED
    BY <1>1, <1>2, <1>3
<1>5. KeysInv'
  BY <1>3, <1>4 DEF KeysInv
<1>6. OnlyKey(k)
  BY <1>3, <1>4 DEF OnlyKey
<1> QED
  BY <1>4, <1>5, <1>6 DEF Effect, Leaks, TypeOK

LEMMA ChangeEffect ==
  ASSUME TypeOK, KeysInv, NEW i \in DOMAIN draft, NEW r \in Routes, Change(i, r)
  PROVE  Effect(draft[i].key)
  BY PutEffect DEF Change

LEMMA CopyEffect ==
  ASSUME TypeOK, KeysInv, NEW i \in DOMAIN draft, NEW t \in Tables, NEW m \in HeaderMaps, CopyHeaders(i, t, m)
  PROVE  Effect(draft[i].key)
<1>1. draft[i].route \in Routes
  BY HeadersTyped DEF Entries
<1>2. WithHeaders(draft[i].route, t, m) \in Routes
  BY <1>1, HeadersReplaced
<1> QED
  BY <1>2, PutEffect DEF CopyHeaders

LEMMA WriteEffect ==
  ASSUME TypeOK, KeysInv, NEW i \in DOMAIN draft, NEW t \in Tables, NEW m \in HeaderMaps, WriteHeaders(i, t, m),
         HeadersOf(draft[i], t) # NoHeaders
  PROVE  Effect(draft[i].key)
<1> DEFINE k == draft[i].key
<1>1. CASE t \in draft[i].shares
  <2>1. k \in DOMAIN cache /\ cache \in Seq(Routes) /\ cache[k] \in Routes /\ draft \in Seq(Entries)
    BY <1>1 DEF TypeOK, KeysInv, Entries
  <2>2. WithHeaders(cache[k], t, m) \in Routes /\ cache[k].proxy_settings[t] # NoHeaders
    BY <1>1, <2>1, HeadersReplaced DEF HeadersOf
  <2>3. cache' = [cache EXCEPT ![k] = WithHeaders(cache[k], t, m)] /\ draft' = draft
    BY <1>1 DEF WriteHeaders
  <2> HIDE DEF k
  <2>4. cache' \in Seq(Routes) /\ DOMAIN cache' = DOMAIN cache /\ \A c \in DOMAIN cache : c # k => cache'[c] = cache[c]
    BY <2>1, <2>2, <2>3
  <2>5. KeysInv' /\ OnlyKey(k)
    BY <2>3, <2>4 DEF KeysInv, OnlyKey
  <2>6. Leaks(k)
    BY <2>1, <2>2, <2>3 DEF Leaks
  <2> QED
    BY <2>1, <2>3, <2>4, <2>5, <2>6 DEF Effect, k
<1>2. CASE t \notin draft[i].shares
  BY <1>2, CopyEffect DEF WriteHeaders
<1> QED
  BY <1>1, <1>2

-----------------------------------------------------------------------------
(* The handlers, one by one. *)

LEMMA FieldsTyped ==
  ASSUME NEW r \in Routes, NEW q \in RouteFields(r)
  PROVE  q \in Routes
<1>1. \A t \in Kinds : [r EXCEPT !.type = t] \in Routes
  BY DEF Routes, Types
<1>2. \A n \in Numbers : [r EXCEPT !.port = n] \in Routes
  BY NumbersAssumption DEF Routes
<1>3. \A d \in Domains \union {Empty} : [r EXCEPT !.domain = d] \in Routes
  <2>1. Domains \union {Empty} \subseteq Texts
    BY DEF Texts
  <2> HIDE DEF Texts
  <2> QED
    BY <2>1 DEF Routes
<1>4. [r EXCEPT !.private = ~r.private] \in Routes
  BY DEF Routes
<1>5. [r EXCEPT !.bot_protect = ~r.bot_protect] \in Routes
  BY DEF Routes
<1> QED
  BY <1>1, <1>2, <1>3, <1>4, <1>5 DEF RouteFields

LEMMA OptionTyped ==
  ASSUME NEW r \in Routes, NEW o \in Options(r)
  PROVE  o.label \in Texts /\ o.value \in Texts
<1>1. r.node \in Texts /\ r.address \in Texts
  BY DEF Routes
<1>2. \A h \in DOMAIN Hosts : h \in Texts /\ Hosts[h] \in Texts
  BY DEF Texts, Range
<1>3. Label(r) \in Texts
  BY <1>1, <1>2 DEF Label
<1> QED
  BY <1>1, <1>2, <1>3 DEF Options

\* Routes with another node, port or settings are routes.
LEMMA WithParts ==
  ASSUME NEW r \in Routes, NEW a \in Texts, NEW b \in Texts, NEW n \in Int, NEW p \in Proxies
  PROVE  /\ [r EXCEPT !.node = a, !.address = b] \in Routes
         /\ [r EXCEPT !.address = b] \in Routes
         /\ [r EXCEPT !.mport = n] \in Routes
         /\ [r EXCEPT !.proxy_settings = p] \in Routes
  BY DEF Routes

LEMMA WithoutOne ==
  ASSUME NEW S, NEW s \in Seq(S), NEW k \in DOMAIN s
  PROVE  RemoveAt(s, k) \in Seq(S)
  BY DEF RemoveAt

LEMMA SettingsTyped ==
  ASSUME NEW p \in Proxies, NEW n \in Numbers, NEW o \in {"buffer_requests", "preserve_host", "follow_redirects"}
  PROVE  /\ [p EXCEPT !.timeout = OrElse(n, Default.timeout)] \in Proxies
         /\ [p EXCEPT !.retry_attempts = OrElse(n, Default.retry_attempts)] \in Proxies
         /\ [p EXCEPT !.options = SymDiff(@, {o})] \in Proxies
<1>1. OrElse(n, Default.timeout) \in Int /\ OrElse(n, Default.retry_attempts) \in Int
  BY NumbersAssumption DEF OrElse, Default
<1>2. SymDiff(p.options, {o}) \in SUBSET {"buffer_requests", "preserve_host", "follow_redirects"}
  BY DEF Proxies, SymDiff
<1> QED
  BY <1>1, <1>2 DEF Proxies

LEMMA AppendedTyped ==
  ASSUME NEW p \in Proxies
  PROVE  /\ [p EXCEPT !.rules = Append(@, NewRule)] \in Proxies
         /\ [p EXCEPT !.remove = Append(@, Empty)] \in Proxies
<1>1. p.rules \in Seq(Rules) /\ p.remove \in Seq(Texts)
  BY DEF Proxies
<1>2. NewRule \in Rules /\ Empty \in Texts
  BY NumbersAssumption DEF NewRule, Rules, Texts
<1>3. Append(p.rules, NewRule) \in Seq(Rules) /\ Append(p.remove, Empty) \in Seq(Texts)
  BY <1>1, <1>2
<1> QED
  BY <1>3 DEF Proxies

LEMMA RulesTyped ==
  ASSUME NEW p \in Proxies, NEW k \in DOMAIN p.rules, NEW u \in RuleFields(p.rules[k])
  PROVE  /\ [p EXCEPT !.rules[k] = u] \in Proxies
         /\ [p EXCEPT !.rules = RemoveAt(@, k)] \in Proxies
<1>1. p.rules \in Seq(Rules) /\ p.rules[k] \in Rules
  BY DEF Proxies
<1>2. u \in Rules
  <2>1. Domains \subseteq Texts
    BY DEF Texts
  <2>2. \A d \in Domains : [p.rules[k] EXCEPT !.path = d] \in Rules
    BY <1>1, <2>1 DEF Rules
  <2>3. \A d \in Domains : [p.rules[k] EXCEPT !.target_host = d] \in Rules
    BY <1>1, <2>1 DEF Rules
  <2>4. \A n \in Numbers : [p.rules[k] EXCEPT !.target_port = n] \in Rules
    BY <1>1, NumbersAssumption DEF Rules
  <2>5. [p.rules[k] EXCEPT !.strip_path = ~p.rules[k].strip_path] \in Rules
    BY <1>1 DEF Rules
  <2>6. \A d \in Domains : [p.rules[k] EXCEPT !.rewrite = d] \in Rules
    BY <1>1, <2>1 DEF Rules
  <2> QED
    BY <2>2, <2>3, <2>4, <2>5, <2>6 DEF RuleFields
<1>3. [p.rules EXCEPT ![k] = u] \in Seq(Rules) /\ RemoveAt(p.rules, k) \in Seq(Rules)
  BY <1>1, <1>2, WithoutOne
<1> QED
  BY <1>3 DEF Proxies

LEMMA RemovedTyped ==
  ASSUME NEW p \in Proxies, NEW k \in DOMAIN p.remove
  PROVE  /\ \A n \in Headers : [p EXCEPT !.remove[k] = n] \in Proxies
         /\ [p EXCEPT !.remove = RemoveAt(@, k)] \in Proxies
<1>1. p.remove \in Seq(Texts)
  BY DEF Proxies
<1>2. \A n \in Headers : n \in Texts
  BY DEF Texts
<1>3. /\ \A n \in Headers : [p.remove EXCEPT ![k] = n] \in Seq(Texts)
      /\ RemoveAt(p.remove, k) \in Seq(Texts)
  BY <1>1, <1>2, WithoutOne
<1> QED
  BY <1>3 DEF Proxies

LEMMA TablesTyped ==
  ASSUME NEW m \in HeaderMaps
  PROVE  /\ \A n \in Headers : [h \in DOMAIN m \union {n} |-> IF h = n THEN Empty ELSE m[h]] \in HeaderMaps
         /\ \A old \in DOMAIN m, n \in Headers :
              [h \in (DOMAIN m \ {old}) \union {n} |-> IF h = n THEN m[old] ELSE m[h]] \in HeaderMaps
         /\ \A n \in DOMAIN m, v \in Values : [m EXCEPT ![n] = v] \in HeaderMaps
         /\ \A n \in DOMAIN m : Restrict(m, DOMAIN m \ {n}) \in HeaderMaps
<1>1. DOMAIN m \in SUBSET Headers /\ m \in [DOMAIN m -> Texts]
  BY DEF HeaderMaps
<1>2. Empty \in Texts /\ \A v \in Values : v \in Texts
  BY DEF Texts
<1>3. \A S \in SUBSET Headers : \A f \in [S -> Texts] : f \in HeaderMaps
  BY DEF HeaderMaps
<1> HIDE DEF HeaderMaps, Texts
<1>4. ASSUME NEW n \in Headers
      PROVE  [h \in DOMAIN m \union {n} |-> IF h = n THEN Empty ELSE m[h]] \in [DOMAIN m \union {n} -> Texts]
  BY <1>1, <1>2
<1>5. ASSUME NEW old \in DOMAIN m, NEW n \in Headers
      PROVE  [h \in (DOMAIN m \ {old}) \union {n} |-> IF h = n THEN m[old] ELSE m[h]]
             \in [(DOMAIN m \ {old}) \union {n} -> Texts]
  BY <1>1, <1>2
<1>6. ASSUME NEW n \in DOMAIN m, NEW v \in Values
      PROVE  [m EXCEPT ![n] = v] \in [DOMAIN m -> Texts]
  BY <1>1, <1>2
<1>7. ASSUME NEW n \in DOMAIN m
      PROVE  Restrict(m, DOMAIN m \ {n}) \in [DOMAIN m \ {n} -> Texts]
  BY <1>1 DEF Restrict
<1>8. \A n \in Headers : DOMAIN m \union {n} \in SUBSET Headers
  BY <1>1
<1>9. \A old \in DOMAIN m, n \in Headers : (DOMAIN m \ {old}) \union {n} \in SUBSET Headers
  BY <1>1
<1>10. \A n \in DOMAIN m : DOMAIN m \ {n} \in SUBSET Headers
  BY <1>1
<1> QED
  BY <1>1, <1>3, <1>4, <1>5, <1>6, <1>7, <1>8, <1>9, <1>10

\* A field of the route, or its settings, have another value.
LEMMA FieldEffect ==
  ASSUME TypeOK, KeysInv, NEW i \in DOMAIN draft
  PROVE  /\ draft[i].route \in Routes /\ Proxy(i) \in Proxies
         /\ \A p \in Proxies : UpdateProxySettings(i, p) => Effect(draft[i].key)
         /\ \A a, b \in Texts : Change(i, [draft[i].route EXCEPT !.node = a, !.address = b]) => Effect(draft[i].key)
         /\ \A a \in Texts : Change(i, [draft[i].route EXCEPT !.address = a]) => Effect(draft[i].key)
         /\ \A n \in Int : Change(i, [draft[i].route EXCEPT !.mport = n]) => Effect(draft[i].key)
<1>1. draft[i].route \in Routes /\ Proxy(i) \in Proxies
  <2>1. draft[i].route \in Routes
    BY DraftTyped DEF Entries
  <2> QED
    BY <2>1, RouteParts DEF Proxy
<1>2. Empty \in Texts /\ 0 \in Int
  BY DEF Texts
<1>3. \A p \in Proxies : [draft[i].route EXCEPT !.proxy_settings = p] \in Routes
  BY <1>1, <1>2, WithParts
<1>4. /\ \A a, b \in Texts : [draft[i].route EXCEPT !.node = a, !.address = b] \in Routes
      /\ \A a \in Texts : [draft[i].route EXCEPT !.address = a] \in Routes
      /\ \A n \in Int : [draft[i].route EXCEPT !.mport = n] \in Routes
  BY <1>1, <1>2, WithParts
<1> QED
  BY <1>1, <1>3, <1>4, ChangeEffect DEF UpdateProxySettings

\* The tables of headers: a new header is in a map of the draft's own, and the
\* others that change are in a map that has some.
LEMMA HeaderEffect ==
  ASSUME TypeOK, KeysInv, NEW i \in DOMAIN draft, NEW t \in Tables,
         \/ \E n \in Headers : AddHeader(i, t, n)
         \/ \E old, new \in Headers : UpdateHeaderKey(i, t, old, new)
         \/ \E n \in Headers, v \in Values : UpdateHeaderValue(i, t, n, v)
         \/ \E n \in Headers : RemoveHeader(i, t, n)
  PROVE  EditPage(i) /\ Effect(draft[i].key)
<1> DEFINE m == HeadersOf(draft[i], t)
<1>1. m \in HeaderMaps
  BY HeadersTyped
<1>2. \A n : n \in DOMAIN m => m # NoHeaders
  BY DEF NoHeaders
<1>3. ASSUME NEW n \in Headers, AddHeader(i, t, n) PROVE EditPage(i) /\ Effect(draft[i].key)
  <2>1. [h \in DOMAIN m \union {n} |-> IF h = n THEN Empty ELSE m[h]] \in HeaderMaps
    BY <1>1, TablesTyped
  <2> QED
    BY <1>3, <2>1, CopyEffect DEF AddHeader, Advanced
<1>4. ASSUME NEW old \in Headers, NEW new \in Headers, UpdateHeaderKey(i, t, old, new)
      PROVE  EditPage(i) /\ Effect(draft[i].key)
  <2>1. old \in DOMAIN m
    BY <1>4 DEF UpdateHeaderKey
  <2>2. [h \in (DOMAIN m \ {old}) \union {new} |-> IF h = new THEN m[old] ELSE m[h]] \in HeaderMaps
    BY <1>1, <2>1, TablesTyped
  <2> QED
    BY <1>2, <1>4, <2>1, <2>2, WriteEffect DEF UpdateHeaderKey, Advanced
<1>5. ASSUME NEW n \in Headers, NEW v \in Values, UpdateHeaderValue(i, t, n, v)
      PROVE  EditPage(i) /\ Effect(draft[i].key)
  <2>1. n \in DOMAIN m
    BY <1>5 DEF UpdateHeaderValue
  <2>2. [m EXCEPT ![n] = v] \in HeaderMaps
    BY <1>1, <2>1, TablesTyped
  <2> QED
    BY <1>2, <1>5, <2>1, <2>2, WriteEffect DEF UpdateHeaderValue, Advanced
<1>6. ASSUME NEW n \in Headers, RemoveHeader(i, t, n) PROVE EditPage(i) /\ Effect(draft[i].key)
  <2>1. n \in DOMAIN m
    BY <1>6 DEF RemoveHeader
  <2>2. Restrict(m, DOMAIN m \ {n}) \in HeaderMaps
    BY <1>1, <2>1, TablesTyped
  <2> QED
    BY <1>2, <1>6, <2>1, <2>2, WriteEffect DEF RemoveHeader, Advanced
<1> QED
  BY <1>3, <1>4, <1>5, <1>6

LEMMA RemoveEffect ==
  ASSUME TypeOK, KeysInv, NEW i \in DOMAIN draft, RemoveRoute(i)
  PROVE  Effect(draft[i].key)
<1> DEFINE k == draft[i].key  I == {j \in DOMAIN draft : draft[j].key # k}
<1>1. draft \in Seq(Entries) /\ I \in SUBSET DOMAIN draft
  BY DraftTyped
<1>2. draft' = Picked(draft, I) /\ cache' = cache
  BY DEF RemoveRoute
<1>3. /\ Picked(draft, I) \in Seq(Entries)
      /\ \A n \in DOMAIN Picked(draft, I) : \E j \in I : Picked(draft, I)[n] = draft[j]
      /\ \A j \in I : \E n \in DOMAIN Picked(draft, I) : Picked(draft, I)[n] = draft[j]
  BY <1>1, PickedIs
<1>4. KeysInv'
  BY <1>2, <1>3 DEF KeysInv
<1>5. OnlyKey(k)
  BY <1>2, <1>3 DEF OnlyKey
<1> QED
  BY <1>2, <1>3, <1>4, <1>5 DEF Effect, Leaks, TypeOK

\* A handler of the cards of the draft.
Handler(i) ==
  \/ ChangeRoute(i)
  \/ HandleNodeChange(i)
  \/ \E a \in Addresses : AddCustomValue(i, a)
  \/ \E n \in Numbers : HandlePortChange(i, n)
  \/ ChangeSettings(i)
  \/ ChangeRules(i)
  \/ \E t \in Tables, n \in Headers : AddHeader(i, t, n)
  \/ \E t \in Tables, old, new \in Headers : UpdateHeaderKey(i, t, old, new)
  \/ \E t \in Tables, n \in Headers, v \in Values : UpdateHeaderValue(i, t, n, v)
  \/ \E t \in Tables, n \in Headers : RemoveHeader(i, t, n)
  \/ ChangeRemoved(i)
  \/ RemoveRoute(i)

LEMMA HandlerEffect ==
  ASSUME TypeOK, KeysInv, NEW i \in DOMAIN draft, Handler(i)
  PROVE  EditPage(i) /\ Effect(draft[i].key)
<1> DEFINE Goal == EditPage(i) /\ Effect(draft[i].key)
<1>1. draft[i].route \in Routes /\ Proxy(i) \in Proxies
  BY FieldEffect
<1>2. \A p \in Proxies : UpdateProxySettings(i, p) => Effect(draft[i].key)
  BY FieldEffect
<1>3. CASE ChangeRoute(i)
  <2>1. PICK r \in RouteFields(draft[i].route) : EditPage(i) /\ Change(i, r)
    BY <1>3 DEF ChangeRoute
  <2>2. r \in Routes
    BY <1>1, FieldsTyped
  <2> QED
    BY <2>1, <2>2, ChangeEffect
<1>4. CASE HandleNodeChange(i)
  <2>1. PICK o \in Options(draft[i].route) :
          EditPage(i) /\ Change(i, [draft[i].route EXCEPT !.node = o.label, !.address = o.value])
    BY <1>4 DEF HandleNodeChange
  <2>2. o.label \in Texts /\ o.value \in Texts
    BY <1>1, OptionTyped
  <2> QED
    BY <2>1, <2>2, FieldEffect
<1>5. CASE \E a \in Addresses : AddCustomValue(i, a)
  <2>1. PICK a \in Addresses : EditPage(i) /\ Change(i, [draft[i].route EXCEPT !.address = a])
    BY <1>5 DEF AddCustomValue
  <2>2. a \in Texts
    BY DEF Texts
  <2> QED
    BY <2>1, <2>2, FieldEffect
<1>6. CASE \E n \in Numbers : HandlePortChange(i, n)
  <2>1. PICK n \in Numbers : EditPage(i) /\ Change(i, [draft[i].route EXCEPT !.mport = n])
    BY <1>6 DEF HandlePortChange
  <2>2. n \in Int
    BY NumbersAssumption
  <2> QED
    BY <2>1, <2>2, FieldEffect
<1>7. CASE ChangeSettings(i)
  <2>1. EditPage(i)
    BY <1>7 DEF ChangeSettings, Advanced
  <2>2. \E p \in Proxies : UpdateProxySettings(i, p)
    <3> DEFINE p == Proxy(i)
    <3>1. 0 \in Numbers /\ "buffer_requests" \in {"buffer_requests", "preserve_host", "follow_redirects"}
      BY NumbersAssumption
    <3>2. CASE \E n \in Numbers : UpdateProxySettings(i, [p EXCEPT !.timeout = OrElse(n, Default.timeout)])
      BY <1>1, <3>1, <3>2, SettingsTyped
    <3>3. CASE \E n \in Numbers : UpdateProxySettings(i, [p EXCEPT !.retry_attempts = OrElse(n, Default.retry_attempts)])
      BY <1>1, <3>1, <3>3, SettingsTyped
    <3>4. CASE \E o \in {"buffer_requests", "preserve_host", "follow_redirects"} :
                 UpdateProxySettings(i, [p EXCEPT !.options = SymDiff(@, {o})])
      BY <1>1, <3>1, <3>4, SettingsTyped
    <3> QED
      BY <1>7, <3>2, <3>3, <3>4 DEF ChangeSettings
  <2> QED
    BY <1>2, <2>1, <2>2
<1>8. CASE ChangeRules(i)
  <2>1. EditPage(i)
    BY <1>8 DEF ChangeRules, Advanced
  <2>2. \E p \in Proxies : UpdateProxySettings(i, p)
    <3> DEFINE p == Proxy(i)
    <3>1. CASE UpdateProxySettings(i, [p EXCEPT !.rules = Append(@, NewRule)])
      BY <1>1, <3>1, AppendedTyped
    <3>2. CASE \E k \in DOMAIN p.rules : \E u \in RuleFields(p.rules[k]) :
                 UpdateProxySettings(i, [p EXCEPT !.rules[k] = u])
      BY <1>1, <3>2, RulesTyped
    <3>3. CASE \E k \in DOMAIN p.rules : UpdateProxySettings(i, [p EXCEPT !.rules = RemoveAt(@, k)])
      <4>1. PICK k \in DOMAIN p.rules : UpdateProxySettings(i, [p EXCEPT !.rules = RemoveAt(@, k)])
        BY <3>3
      <4>2. [p.rules[k] EXCEPT !.strip_path = ~p.rules[k].strip_path] \in RuleFields(p.rules[k])
        BY DEF RuleFields
      <4> QED
        BY <1>1, <4>1, <4>2, RulesTyped
    <3> QED
      BY <1>8, <3>1, <3>2, <3>3 DEF ChangeRules
  <2> QED
    BY <1>2, <2>1, <2>2
<1>9. CASE ChangeRemoved(i)
  <2>1. EditPage(i)
    BY <1>9 DEF ChangeRemoved, Advanced
  <2>2. \E p \in Proxies : UpdateProxySettings(i, p)
    <3> DEFINE p == Proxy(i)
    <3>1. CASE UpdateProxySettings(i, [p EXCEPT !.remove = Append(@, Empty)])
      BY <1>1, <3>1, AppendedTyped
    <3>2. CASE \E k \in DOMAIN p.remove, n \in Headers : UpdateProxySettings(i, [p EXCEPT !.remove[k] = n])
      BY <1>1, <3>2, RemovedTyped
    <3>3. CASE \E k \in DOMAIN p.remove : UpdateProxySettings(i, [p EXCEPT !.remove = RemoveAt(@, k)])
      BY <1>1, <3>3, RemovedTyped
    <3> QED
      BY <1>9, <3>1, <3>2, <3>3 DEF ChangeRemoved
  <2> QED
    BY <1>2, <2>1, <2>2
<1>10. CASE RemoveRoute(i)
  BY <1>10, RemoveEffect DEF RemoveRoute
<1>11. CASE \/ \E t \in Tables, n \in Headers : AddHeader(i, t, n)
            \/ \E t \in Tables, old, new \in Headers : UpdateHeaderKey(i, t, old, new)
            \/ \E t \in Tables, n \in Headers, v \in Values : UpdateHeaderValue(i, t, n, v)
            \/ \E t \in Tables, n \in Headers : RemoveHeader(i, t, n)
  BY <1>11, HeaderEffect
<1> QED
  BY <1>3, <1>4, <1>5, <1>6, <1>7, <1>8, <1>9, <1>10, <1>11 DEF Handler

\* The new route of AddRoute, which has no key.
LEMMA AddEffect ==
  ASSUME TypeOK, KeysInv, AddRoute
  PROVE  Effect(0)
<1> DEFINE new == [key |-> 0, route |-> NoRoute, shares |-> {}]
<1>1. new \in Entries
  <2>1. NoHeaders \in HeaderMaps
    BY DEF NoHeaders, HeaderMaps
  <2>2. NoProxy \in Proxies
    BY <2>1 DEF NoProxy, Proxies
  <2>3. "" \in Types /\ Empty \in Texts /\ FALSE \in BOOLEAN /\ 0 \in Int
    BY DEF Types, Texts
  <2>4. ASSUME NEW none \in Types, NEW no \in BOOLEAN
        PROVE  \A e \in Texts, z \in Int, p \in Proxies :
                 [type |-> none, private |-> no, bot_protect |-> no, domain |-> e, port |-> z,
                  node |-> e, address |-> e, mport |-> z, proxy_settings |-> p] \in Routes
    BY <2>2, <2>3 DEF Routes
  <2>5. NoRoute \in Routes
    BY <2>2, <2>3, <2>4, Zenon DEF NoRoute
  <2> QED
    BY <2>5 DEF Entries
<1>2. draft \in Seq(Entries)
  BY DraftTyped
<1>3. draft' = <<new>> \o draft /\ cache' = cache
  BY DEF AddRoute
<1>4. new.key = 0 /\ new.shares = {}
  OBVIOUS
<1> HIDE DEF new
<1>5. /\ draft' \in Seq(Entries) /\ DOMAIN draft' = 1 .. Len(draft) + 1
      /\ draft'[1] = new /\ \A n \in 2 .. Len(draft) + 1 : draft'[n] = draft[n - 1]
  BY <1>1, <1>2, <1>3
<1>6. \A n \in DOMAIN draft' : draft'[n] = new \/ \E j \in DOMAIN draft : draft'[n] = draft[j]
  BY <1>2, <1>5
<1>7. \A j \in DOMAIN draft : \E n \in DOMAIN draft' : draft'[n] = draft[j]
  <2>1. \A j \in DOMAIN draft : j + 1 \in DOMAIN draft' /\ draft'[j + 1] = draft[j]
    BY <1>2, <1>5
  <2> QED
    BY <2>1
<1>8. KeysInv'
  BY <1>3, <1>4, <1>6 DEF KeysInv
<1>9. OnlyKey(0)
  BY <1>3, <1>4, <1>6, <1>7 DEF OnlyKey
<1> QED
  BY <1>3, <1>5, <1>8, <1>9 DEF Effect, Leaks, TypeOK

-----------------------------------------------------------------------------
(* What the server makes of the routes of a save. *)

AllShown(rs) == {Shown(rs[i]) : i \in DOMAIN rs}

LEMMA Joined ==
  ASSUME NEW s \in Seq(Routes), NEW z \in Seq(Routes)
  PROVE  s \o z \in Seq(Routes) /\ AllShown(s \o z) = AllShown(s) \union AllShown(z)
<1> DEFINE all == s \o z
<1>1. /\ all \in Seq(Routes)
      /\ DOMAIN s = 1 .. Len(s) /\ DOMAIN z = 1 .. Len(z) /\ Len(s) \in Nat /\ Len(z) \in Nat
      /\ DOMAIN all = 1 .. Len(s) + Len(z)
  BY ConcatProperties
<1>2. /\ \A n \in 1 .. Len(s) : all[n] = s[n]
      /\ \A n \in 1 .. Len(z) : all[Len(s) + n] = z[n]
  OBVIOUS
<1> HIDE DEF all
<1>3. ASSUME NEW k \in DOMAIN all PROVE Shown(all[k]) \in AllShown(s) \union AllShown(z)
  <2>1. CASE k <= Len(s)
    BY <1>1, <1>2, <2>1 DEF AllShown
  <2>2. CASE k > Len(s)
    <3>1. k - Len(s) \in 1 .. Len(z) /\ k = Len(s) + (k - Len(s))
      BY <1>1, <2>2
    <3>2. all[k] = z[k - Len(s)]
      BY <1>2, <3>1
    <3> QED
      BY <1>1, <3>1, <3>2 DEF AllShown
  <2> QED
    BY <1>1, <2>1, <2>2
<1>4. ASSUME NEW n \in DOMAIN s PROVE Shown(s[n]) \in AllShown(all)
  <2>1. n \in DOMAIN all /\ all[n] = s[n]
    BY <1>1, <1>2
  <2> QED
    BY <2>1 DEF AllShown
<1>5. ASSUME NEW n \in DOMAIN z PROVE Shown(z[n]) \in AllShown(all)
  <2>1. Len(s) + n \in DOMAIN all /\ all[Len(s) + n] = z[n]
    BY <1>1, <1>2
  <2> QED
    BY <2>1 DEF AllShown
<1>6. AllShown(all) = AllShown(s) \union AllShown(z)
  BY <1>3, <1>4, <1>5 DEF AllShown
<1> QED
  BY <1>1, <1>6 DEF all

LEMMA UpdatedIs ==
  ASSUME NEW old \in Seq(Routes), NEW new \in Seq(Routes)
  PROVE  /\ Updated(old, new) \in Seq(Routes)
         /\ Valid(new) => AllShown(Updated(old, new)) = AllShown(new)
<1> DEFINE known == {k \in DOMAIN new : \E i \in DOMAIN old : SameRoute(old[i], new[k])}
           stay == Picked(new, known)
           others == {k \in DOMAIN new \ known : new[k].type # ""}
           rest == Picked(new, others)
           Same(c) == {j \in DOMAIN new : SameRoute(new[j], c)}
           taken == [k \in DOMAIN stay |-> new[Max(Same(stay[k]))]]
<1>1. Updated(old, new) = taken \o rest
  BY DEF Updated
<1>2. known \in SUBSET DOMAIN new /\ others \in SUBSET DOMAIN new
  OBVIOUS
<1>3. /\ stay \in Seq(Routes)
      /\ \A k \in DOMAIN stay : \E i \in known : stay[k] = new[i]
      /\ \A i \in known : \E k \in DOMAIN stay : stay[k] = new[i]
  BY <1>2, PickedIs
<1>4. /\ rest \in Seq(Routes)
      /\ \A k \in DOMAIN rest : \E i \in others : rest[k] = new[i]
      /\ \A i \in others : \E k \in DOMAIN rest : rest[k] = new[i]
  BY <1>2, PickedIs
<1>5. ASSUME NEW i \in DOMAIN new PROVE Max(Same(new[i])) \in Same(new[i])
  <2>1. DOMAIN new = 1 .. Len(new) /\ Len(new) \in Nat
    OBVIOUS
  <2>2. IsFiniteSet(DOMAIN new) /\ DOMAIN new \in SUBSET Int
    BY <2>1, FS_Interval
  <2>3. Same(new[i]) \in SUBSET DOMAIN new /\ i \in Same(new[i])
    BY DEF SameRoute
  <2>4. IsFiniteSet(Same(new[i]))
    BY <2>2, <2>3, FS_Subset
  <2> QED
    BY <2>2, <2>3, <2>4, MaxIsOne
<1>6. \A k \in DOMAIN stay : Max(Same(stay[k])) \in DOMAIN new
  BY <1>2, <1>3, <1>5
<1>7. taken \in Seq(Routes) /\ DOMAIN taken = DOMAIN stay
  <2> HIDE DEF stay, Same
  <2>1. \A i \in DOMAIN new : new[i] \in Routes
    OBVIOUS
  <2>2. \A k \in DOMAIN stay : new[Max(Same(stay[k]))] \in Routes
    BY <1>6, <2>1
  <2>3. DOMAIN stay = 1 .. Len(stay) /\ Len(stay) \in Nat
    BY <1>3
  <2>4. taken \in [1 .. Len(stay) -> Routes]
    BY <2>2, <2>3
  <2> QED
    BY <2>3, <2>4
<1> HIDE DEF taken, rest
<1>8. taken \in Seq(Routes) /\ rest \in Seq(Routes)
  BY <1>4, <1>7
<1>9. taken \o rest \in Seq(Routes) /\ AllShown(taken \o rest) = AllShown(taken) \union AllShown(rest)
  BY <1>8, Joined
<1>11. ASSUME Valid(new), NEW i \in DOMAIN new PROVE Max(Same(new[i])) = i
  <2>1. \A j, k \in DOMAIN new : SameRoute(new[j], new[k]) => j = k
    BY <1>11 DEF Valid
  <2> QED
    BY <1>5, <2>1
<1>12. ASSUME Valid(new), NEW i \in DOMAIN new PROVE i \in known \/ i \in others
  <2>1. IsHttp(new[i]) \/ IsPort(new[i])
    BY <1>12 DEF Valid
  <2>2. new[i].type # ""
    BY <2>1 DEF IsHttp, IsPort
  <2> QED
    BY <2>2
<1>13. DOMAIN taken = DOMAIN stay /\ \A k \in DOMAIN stay : taken[k] = new[Max(Same(stay[k]))]
  BY DEF taken
<1> HIDE DEF stay, Same, known, others
<1>14. ASSUME Valid(new) PROVE AllShown(taken) \union AllShown(rest) = AllShown(new)
  <2>1. \A k \in DOMAIN stay : taken[k] = stay[k]
    BY <1>2, <1>3, <1>11, <1>13, <1>14
  <2>2. \A k \in DOMAIN taken : \E i \in DOMAIN new : taken[k] = new[i]
    BY <1>2, <1>3, <1>13, <2>1
  <2>3. \A k \in DOMAIN rest : \E i \in DOMAIN new : rest[k] = new[i]
    BY <1>2, <1>4
  <2>4. \A i \in DOMAIN new : \/ \E k \in DOMAIN taken : taken[k] = new[i]
                              \/ \E k \in DOMAIN rest : rest[k] = new[i]
    BY <1>3, <1>4, <1>12, <1>13, <1>14, <2>1
  <2> QED
    BY <2>2, <2>3, <2>4 DEF AllShown
<1> QED
  BY <1>1, <1>9, <1>14

LEMMA DecodedIs ==
  ASSUME NEW rs \in Seq(Routes)
  PROVE  /\ [i \in DOMAIN rs |-> Decoded(rs[i])] \in Seq(Routes)
         /\ Valid(rs) => [i \in DOMAIN rs |-> Decoded(rs[i])] = rs
<1> MaxPort \in Nat
  BY SMT DEF MaxPort
<1>1. ASSUME NEW r \in Routes
      PROVE  Decoded(r) \in Routes /\ (r.mport \in 0 .. MaxPort => Decoded(r) = r)
  <2>1. CASE r.mport \in 0 .. MaxPort
    <3>1. Decoded(r) = [r EXCEPT !.mport = r.mport]
      BY <2>1 DEF Decoded
    <3> QED
      BY <3>1 DEF Routes
  <2>2. CASE r.mport \notin 0 .. MaxPort
    <3>1. Decoded(r) = [r EXCEPT !.mport = 0]
      BY <2>2 DEF Decoded
    <3>2. [r EXCEPT !.mport = 0] \in Routes
      BY DEF Routes
    <3> QED
      BY <2>2, <3>1, <3>2
  <2> QED
    BY <2>1, <2>2
<1>2. Valid(rs) => \A i \in DOMAIN rs : rs[i].mport \in 0 .. MaxPort
  BY DEF Valid
<1>3. \A i \in DOMAIN rs : rs[i] \in Routes
  OBVIOUS
<1>4. \A i \in DOMAIN rs : Decoded(rs[i]) \in Routes
  BY <1>1, <1>3
<1>5. [i \in DOMAIN rs |-> Decoded(rs[i])] \in Seq(Routes)
  BY <1>4
<1>6. ASSUME Valid(rs) PROVE [i \in DOMAIN rs |-> Decoded(rs[i])] = rs
  <2>1. \A i \in DOMAIN rs : Decoded(rs[i]) = rs[i]
    BY <1>1, <1>2, <1>3, <1>6
  <2>2. rs = [i \in DOMAIN rs |-> rs[i]]
    OBVIOUS
  <2> QED
    BY <2>1, <2>2
<1> QED
  BY <1>5, <1>6

-----------------------------------------------------------------------------
(* What a fetch leaves of the draft. *)

\* A route with another map in each of the tables T.
Patched(r, T, h) ==
  [r EXCEPT !.proxy_settings = [f \in DOMAIN r.proxy_settings |-> IF f \in T THEN h[f] ELSE r.proxy_settings[f]]]

LEMMA PatchedIs ==
  ASSUME NEW r \in Routes, NEW T \in SUBSET Tables, NEW h \in [Tables -> HeaderMaps]
  PROVE  /\ Patched(r, T, h) \in Routes
         /\ \A f \in Fields : Patched(r, T, h)[f] = r[f]
         /\ \A f \in Settings : Patched(r, T, h).proxy_settings[f] = r.proxy_settings[f]
         /\ \A t \in T : Patched(r, T, h).proxy_settings[t] = h[t]
         /\ \A t \in Tables \ T : Patched(r, T, h).proxy_settings[t] = r.proxy_settings[t]
<1> DEFINE p == r.proxy_settings
           q == [f \in DOMAIN p |-> IF f \in T THEN h[f] ELSE p[f]]
           w == [r EXCEPT !.proxy_settings = q]
<1>1. Patched(r, T, h) = w
  BY DEF Patched
<1>2. p \in Proxies /\ DOMAIN p = DOMAIN NoProxy
  BY RouteParts
<1>3. Settings \subseteq DOMAIN NoProxy /\ Tables \subseteq DOMAIN NoProxy /\ \A f \in Settings : f \notin Tables
  BY DEF Settings, NoProxy, Tables
<1> HIDE DEF p
<1>4. /\ \A f \in Settings : q[f] = p[f]
      /\ \A t \in Tables : q[t] = IF t \in T THEN h[t] ELSE p[t]
  BY <1>2, <1>3
<1>5. q \in Proxies
  <2>1. DOMAIN q = {"timeout", "retry_attempts", "options", "rules", "add", "set", "remove"}
    BY <1>2 DEF NoProxy
  <2>2. q = [timeout |-> q.timeout, retry_attempts |-> q.retry_attempts, options |-> q.options,
             rules |-> q.rules, add |-> q.add, set |-> q.set, remove |-> q.remove]
    <3> DEFINE z == [timeout |-> q.timeout, retry_attempts |-> q.retry_attempts, options |-> q.options,
                     rules |-> q.rules, add |-> q.add, set |-> q.set, remove |-> q.remove]
    <3>1. q = [f \in DOMAIN q |-> q[f]]
      OBVIOUS
    <3> HIDE DEF q
    <3>2. DOMAIN z = DOMAIN q /\ \A f \in DOMAIN q : z[f] = q[f]
      BY <2>1
    <3>3. z = [f \in DOMAIN z |-> z[f]]
      OBVIOUS
    <3> QED
      BY <3>1, <3>2, <3>3
  <2>3. /\ q.timeout = p.timeout /\ q.retry_attempts = p.retry_attempts /\ q.options = p.options
        /\ q.rules = p.rules /\ q.remove = p.remove
    BY <1>4 DEF Settings, NoProxy, Tables
  <2>4. q["add"] \in HeaderMaps /\ q["set"] \in HeaderMaps
    <3>1. p["add"] \in HeaderMaps /\ p["set"] \in HeaderMaps
      BY RouteParts DEF p, Tables
    <3>2. h["add"] \in HeaderMaps /\ h["set"] \in HeaderMaps
      BY DEF Tables
    <3> QED
      BY <1>4, <3>1, <3>2 DEF Tables
  <2> HIDE DEF q
  <2> QED
    BY <1>2, <2>2, <2>3, <2>4 DEF Proxies
<1> HIDE DEF q
<1>6. w \in Routes /\ w.proxy_settings = q /\ \A f \in Fields : w[f] = r[f]
  BY <1>5 DEF Routes, Fields, NoRoute
<1> QED
  BY <1>1, <1>4, <1>6 DEF p

LEMMA FetchKeeps ==
  ASSUME TypeOK, KeysInv, Fetch
  PROVE  /\ draft' \in Seq(Entries) /\ DOMAIN draft' = DOMAIN draft /\ KeysInv'
         /\ \A j \in DOMAIN draft : draft'[j].key = draft[j].key /\ Value(draft[j])' = Value(draft[j])
<1> DEFINE e(j) == draft[j]
           same(j) == {t \in e(j).shares : /\ e(j).key \in DOMAIN server
                                           /\ server[e(j).key].proxy_settings[t] = HeadersOf(e(j), t)}
           h(j) == [t \in Tables |-> HeadersOf(e(j), t)]
           gone(j) == e(j).shares \ same(j)
           r(j) == Patched(e(j).route, gone(j), h(j))
<1>1. draft \in Seq(Entries) /\ \A j \in DOMAIN draft : e(j) \in Entries
  BY DraftTyped
<1>2. DOMAIN draft' = DOMAIN draft /\ cache' = server
  BY DEF Fetch
<1>3. ASSUME NEW j \in DOMAIN draft
      PROVE  /\ draft'[j] \in Entries /\ draft'[j].key = e(j).key
             /\ draft'[j].shares = same(j) /\ draft'[j].route = r(j)
  <2>1. e(j) \in Entries /\ same(j) \in SUBSET Tables /\ gone(j) \in SUBSET Tables
    BY <1>1 DEF Entries
  <2>2. h(j) \in [Tables -> HeaderMaps]
    BY HeadersTyped
  <2>3. r(j) \in Routes
    <3>1. e(j).route \in Routes
      BY <2>1 DEF Entries
    <3> HIDE DEF gone, h, e
    <3> QED
      BY <2>1, <2>2, <3>1, PatchedIs
  <2>4. draft'[j] = [e(j) EXCEPT !.shares = same(j),
                                 !.route.proxy_settings =
                                   [f \in DOMAIN @ |-> IF f \in gone(j) THEN HeadersOf(e(j), f) ELSE @[f]]]
    BY DEF Fetch
  <2>5. [f \in DOMAIN e(j).route.proxy_settings |->
           IF f \in gone(j) THEN HeadersOf(e(j), f) ELSE e(j).route.proxy_settings[f]]
        = [f \in DOMAIN e(j).route.proxy_settings |->
             IF f \in gone(j) THEN h(j)[f] ELSE e(j).route.proxy_settings[f]]
    <3>1. \A f \in gone(j) : h(j)[f] = HeadersOf(e(j), f)
      BY <2>1
    <3> HIDE DEF gone, h, e
    <3> QED
      BY <3>1
  <2> HIDE DEF gone, same, h
  <2>6. draft'[j] = [e(j) EXCEPT !.shares = same(j), !.route = r(j)]
    BY <2>1, <2>4, <2>5 DEF Entries, Patched
  <2> HIDE DEF e, r
  <2> QED
    BY <2>1, <2>3, <2>6 DEF Entries
<1>4. draft' \in Seq(Entries)
  <2>1. draft' = [j \in DOMAIN draft |-> draft'[j]]
    BY DEF Fetch
  <2>2. \A j \in DOMAIN draft : draft'[j] \in Entries
    BY <1>3
  <2> QED
    BY <1>1, <2>1, <2>2
<1>5. KeysInv'
  BY <1>2, <1>3 DEF KeysInv
<1>6. ASSUME NEW j \in DOMAIN draft PROVE Value(draft[j])' = Value(draft[j])
  <2>1. \A t \in Tables : HeadersOf(draft[j], t)' = HeadersOf(e(j), t) /\ HeadersOf(e(j), t) \in HeaderMaps
    <3> SUFFICES ASSUME NEW t \in Tables
                 PROVE  HeadersOf(draft[j], t)' = HeadersOf(e(j), t) /\ HeadersOf(e(j), t) \in HeaderMaps
      OBVIOUS
    <3>1. HeadersOf(e(j), t) \in HeaderMaps
      BY HeadersTyped
    <3>2. HeadersOf(draft[j], t)' = IF t \in same(j) THEN server[e(j).key].proxy_settings[t]
                                    ELSE r(j).proxy_settings[t]
      <4> HIDE DEF same, r, e
      <4> QED
        BY <1>2, <1>3 DEF HeadersOf
    <3>3. CASE t \in same(j)
      BY <3>1, <3>2, <3>3
    <3>4. CASE t \notin same(j)
      <4>1. r(j).proxy_settings[t] = IF t \in gone(j) THEN h(j)[t] ELSE e(j).route.proxy_settings[t]
        <5>1. e(j).route \in Routes /\ gone(j) \in SUBSET Tables
          BY <1>1 DEF Entries
        <5>2. h(j) \in [Tables -> HeaderMaps]
          BY HeadersTyped
        <5> HIDE DEF gone, h, e
        <5>3. CASE t \in gone(j)
          BY <5>1, <5>2, <5>3, PatchedIs
        <5>4. CASE t \notin gone(j)
          BY <5>1, <5>2, <5>4, PatchedIs
        <5> QED
          BY <5>3, <5>4
      <4>2. h(j)[t] = HeadersOf(e(j), t)
        OBVIOUS
      <4>3. t \notin gone(j) => HeadersOf(e(j), t) = e(j).route.proxy_settings[t]
        BY <3>4 DEF HeadersOf
      <4> QED
        BY <3>1, <3>2, <3>4, <4>1, <4>2, <4>3
    <3> QED
      BY <3>3, <3>4
  <2>2. e(j).route \in Routes /\ r(j) \in Routes
    <3>1. e(j).route \in Routes /\ draft'[j].route \in Routes
      BY <1>1, <1>3 DEF Entries
    <3> QED
      BY <1>3, <3>1
  <2> DEFINE a == HeadersOf(e(j), "add")  s == HeadersOf(e(j), "set")
  <2>3. a \in HeaderMaps /\ s \in HeaderMaps /\ HeadersOf(draft[j], "add")' = a /\ HeadersOf(draft[j], "set")' = s
    BY <2>1 DEF Tables
  <2>4. Value(draft[j]) = Filled(e(j).route, a, s)
    BY <2>2, <2>3, ValueFilled
  <2>5. Value(draft[j])' = [draft'[j].route EXCEPT !.proxy_settings.add = HeadersOf(draft[j], "add")',
                                                   !.proxy_settings.set = HeadersOf(draft[j], "set")']
    BY DEF Value
  <2>6. Value(draft[j])' = Filled(r(j), a, s)
    <3> HIDE DEF a, s, e, r
    <3>1. [r(j) EXCEPT !.proxy_settings.add = a, !.proxy_settings.set = s] = Filled(r(j), a, s)
      BY <2>2, <2>3 DEF Filled, WithHeaders
    <3>2. draft'[j].route = r(j)
      BY <1>3
    <3> QED
      BY <2>3, <2>5, <3>1, <3>2, Zenon
  <2>7. Filled(r(j), a, s) = Filled(e(j).route, a, s)
    <3>1. /\ \A f \in Fields : r(j)[f] = e(j).route[f]
          /\ \A f \in Settings : r(j).proxy_settings[f] = e(j).route.proxy_settings[f]
      <4>1. e(j).route \in Routes /\ gone(j) \in SUBSET Tables
        BY <1>1 DEF Entries
      <4>2. h(j) \in [Tables -> HeaderMaps]
        BY HeadersTyped
      <4> HIDE DEF gone, h, e
      <4> QED
        BY <4>1, <4>2, PatchedIs
    <3> HIDE DEF a, s, e, r
    <3> DEFINE v == Filled(r(j), a, s)  w == Filled(e(j).route, a, s)
    <3>2. /\ v \in Routes /\ v.proxy_settings.add = a /\ v.proxy_settings.set = s
          /\ \A f \in Fields : v[f] = r(j)[f]
          /\ \A f \in Settings : v.proxy_settings[f] = r(j).proxy_settings[f]
      BY <2>2, <2>3, FilledIs
    <3>3. /\ w \in Routes /\ w.proxy_settings.add = a /\ w.proxy_settings.set = s
          /\ \A f \in Fields : w[f] = e(j).route[f]
          /\ \A f \in Settings : w.proxy_settings[f] = e(j).route.proxy_settings[f]
      BY <2>2, <2>3, FilledIs
    <3> HIDE DEF v, w
    <3>4. v = w
      BY <3>1, <3>2, <3>3, SameParts
    <3> QED
      BY <3>4 DEF v, w
  <2> QED
    BY <2>4, <2>6, <2>7
<1> QED
  BY <1>2, <1>3, <1>4, <1>5, <1>6

-----------------------------------------------------------------------------
(* The inductive invariant. *)

\* The cache has the routes that were sent, other headers apart.
LeakInv == DOMAIN cache = DOMAIN sent /\ OnlySentHeadersLeak

\* Where what was shown at the last valid save is by now: in the save that is
\* on its way, with the server, or on the page.
SavedInv ==
  /\ kept = [st |-> kept.st, shown |-> kept.shown]
  /\ kept.st = "sent" => saving.st = "sent" /\ Valid(saving.routes) /\ AllShown(saving.routes) = kept.shown
  /\ kept.st \in {"served", "fetched"} => saving = Unsaved /\ AllShown(server) = kept.shown
  /\ kept.st = "fetched" => AllShown(sent) = kept.shown

LEMMA LeakKept ==
  ASSUME TypeOK, LeakInv, NEW k, Leaks(k), cache' \in Seq(Routes), DOMAIN cache' = DOMAIN cache, sent' = sent
  PROVE  LeakInv'
<1>1. CASE cache' = cache
  BY <1>1 DEF LeakInv, OnlySentHeadersLeak
<1>2. CASE cache' # cache
  <2>1. PICK t \in Tables, m \in HeaderMaps :
          /\ k \in DOMAIN cache /\ cache[k].proxy_settings[t] # NoHeaders
          /\ cache' = [cache EXCEPT ![k] = WithHeaders(cache[k], t, m)]
    BY <1>2 DEF Leaks
  <2>2. cache \in Seq(Routes) /\ cache[k] \in Routes
    BY <2>1 DEF TypeOK
  <2> DEFINE w == WithHeaders(cache[k], t, m)
  <2>3. /\ \A f \in Fields : w[f] = cache[k][f]
        /\ \A f \in DOMAIN NoProxy \ {t} : w.proxy_settings[f] = cache[k].proxy_settings[f]
    BY <2>2, HeadersReplaced
  <2> HIDE DEF w
  <2>4. \A c \in DOMAIN cache : cache'[c] = IF c = k THEN w ELSE cache[c]
    BY <2>1, <2>2 DEF w
  <2>5. sent[k].proxy_settings[t] # NoHeaders
    BY <2>1 DEF LeakInv, OnlySentHeadersLeak
  <2>6. /\ \A f \in Settings : f \in DOMAIN NoProxy \ {t}
        /\ \A u \in Tables : u # t => u \in DOMAIN NoProxy \ {t}
    BY DEF Settings, NoProxy, Tables
  <2>7. ASSUME NEW c \in DOMAIN cache
        PROVE  /\ \A f \in Fields : cache'[c][f] = sent[c][f]
               /\ \A f \in Settings : cache'[c].proxy_settings[f] = sent[c].proxy_settings[f]
               /\ \A u \in Tables : sent[c].proxy_settings[u] = NoHeaders
                                    => cache'[c].proxy_settings[u] = NoHeaders
    <3>1. /\ \A f \in Fields : cache[c][f] = sent[c][f]
          /\ \A f \in Settings : cache[c].proxy_settings[f] = sent[c].proxy_settings[f]
          /\ \A u \in Tables : sent[c].proxy_settings[u] = NoHeaders => cache[c].proxy_settings[u] = NoHeaders
      BY DEF LeakInv, OnlySentHeadersLeak, Fields, Settings
    <3>2. CASE c = k
      BY <2>3, <2>4, <2>5, <2>6, <3>1, <3>2
    <3>3. CASE c # k
      BY <2>4, <3>1, <3>3
    <3> QED
      BY <3>2, <3>3
  <2> QED
    BY <2>7 DEF LeakInv, OnlySentHeadersLeak, Fields, Settings
<1> QED
  BY <1>1, <1>2

LEMMA ClickTyped ==
  ASSUME TypeOK, ClickEdit
  PROVE  draft' \in Seq(Entries) /\ KeysInv'
<1>1. cache \in Seq(Routes) /\ DOMAIN cache = 1 .. Len(cache) /\ Len(cache) \in Nat
  BY DEF TypeOK
<1>2. draft' = [i \in DOMAIN cache |-> [key |-> i, shares |-> Tables,
                                        route |-> Filled(cache[i], NoHeaders, NoHeaders)]]
  BY DEF ClickEdit, Filled
<1>3. NoHeaders \in HeaderMaps
  BY DEF NoHeaders, HeaderMaps
<1>4. \A i \in DOMAIN cache : Filled(cache[i], NoHeaders, NoHeaders) \in Routes
  BY <1>1, <1>3, FilledIs
<1>5. \A i \in DOMAIN cache : [key |-> i, shares |-> Tables,
                               route |-> Filled(cache[i], NoHeaders, NoHeaders)] \in Entries
  BY <1>1, <1>4 DEF Entries
<1>6. draft' \in [1 .. Len(cache) -> Entries]
  BY <1>1, <1>2, <1>5
<1>7. draft' \in Seq(Entries)
  BY <1>1, <1>6
<1>8. cache' = cache
  BY DEF ClickEdit
<1>9. KeysInv'
  BY <1>2, <1>8 DEF KeysInv
<1> QED
  BY <1>7, <1>9

IInv == TypeOK /\ KeysInv /\ LeakInv /\ SavedInv

LEMMA InitInv ==
  ASSUME Init
  PROVE  IInv
<1>1. server \in Seq(Routes) /\ sent = server /\ cache = server /\ draft = << >>
  BY StartsAssumption DEF Init
<1>2. TypeOK
  <2>1. saving.routes = << >> /\ saving.st = "no" /\ kept.st = "no"
    BY DEF Init, Unsaved, Nothing
  <2>2. {server, sent, cache, saving.routes} \subseteq Seq(Routes) /\ draft \in Seq(Entries)
    BY <1>1, <2>1
  <2>3. edits \in 0 .. MaxEdits
    BY BoundAssumption DEF Init
  <2> QED
    BY <2>1, <2>2, <2>3 DEF Init, TypeOK, Entries
<1>3. KeysInv
  BY <1>1 DEF KeysInv
<1>4. LeakInv
  BY <1>1 DEF LeakInv, OnlySentHeadersLeak
<1>5. SavedInv
  BY DEF Init, SavedInv, Nothing
<1> QED
  BY <1>2, <1>3, <1>4, <1>5 DEF IInv

\* The edits of the page, of one route each, and the new route.
LEMMA EditKeepsInv ==
  ASSUME IInv, NEW k, Effect(k), Act, UNCHANGED <<server, sent, page, nodes, saving, kept>>
  PROVE  IInv'
<1>1. cache' \in Seq(Routes) /\ draft' \in Seq(Entries)
  BY DEF Effect
<1>2. edits' \in 0 .. MaxEdits
  BY BoundAssumption DEF Act, IInv, TypeOK
<1>3. TypeOK'
  BY <1>1, <1>2 DEF IInv, TypeOK, Entries
<1>4. LeakInv'
  BY LeakKept DEF IInv, Effect
<1>5. SavedInv'
  BY DEF IInv, SavedInv
<1> QED
  BY <1>3, <1>4, <1>5 DEF IInv, Effect

LEMMA SaveKeepsInv ==
  ASSUME IInv, HandleSave
  PROVE  IInv'
<1> DEFINE rs == [i \in DOMAIN draft |-> Value(draft[i])]
<1>1. rs \in Seq(Routes)
  <2>1. \A i \in DOMAIN draft : Value(draft[i]) \in Routes
    BY ValueTyped DEF IInv
  <2>2. draft \in Seq(Entries)
    BY DraftTyped DEF IInv
  <2> QED
    BY <2>1, <2>2
<1>2. /\ saving' = [st |-> "sent", routes |-> rs]
      /\ kept' = IF Valid(rs) THEN [st |-> "sent", shown |-> AllShown(rs)] ELSE Nothing
      /\ draft' = << >>
  BY DEF HandleSave, AllShown
<1> HIDE DEF rs
<1>3. edits' \in 0 .. MaxEdits
  BY BoundAssumption DEF HandleSave, Act, IInv, TypeOK
<1>4. TypeOK'
  <2>1. saving'.st = "sent" /\ saving'.routes = rs /\ kept'.st \in {"no", "sent"}
    BY <1>2 DEF Nothing
  <2>2. draft' \in Seq(Entries)
    BY <1>2
  <2> QED
    BY <1>1, <1>3, <2>1, <2>2 DEF IInv, TypeOK, HandleSave, Entries
<1>5. KeysInv'
  BY <1>2 DEF KeysInv
<1>6. LeakInv'
  BY DEF IInv, HandleSave, LeakInv, OnlySentHeadersLeak
<1>7. SavedInv'
  BY <1>2 DEF SavedInv, Nothing
<1> QED
  BY <1>4, <1>5, <1>6, <1>7 DEF IInv

LEMMA ServeKeepsInv ==
  ASSUME IInv, ServeSave
  PROVE  IInv'
<1> DEFINE ds == [i \in DOMAIN saving.routes |-> Decoded(saving.routes[i])]
<1>1. saving.routes \in Seq(Routes) /\ server \in Seq(Routes)
  BY DEF IInv, TypeOK
<1>2. ds \in Seq(Routes) /\ (Valid(saving.routes) => ds = saving.routes)
  BY <1>1, DecodedIs
<1>3. /\ server' = Updated(server, ds) /\ saving' = Unsaved
      /\ kept' = IF kept.st = "sent" THEN [kept EXCEPT !.st = "served"] ELSE kept
  BY DEF ServeSave
<1> HIDE DEF ds
<1>4. server' \in Seq(Routes) /\ (Valid(ds) => AllShown(server') = AllShown(ds))
  BY <1>1, <1>2, <1>3, UpdatedIs
<1>5. kept = [st |-> kept.st, shown |-> kept.shown]
  BY DEF IInv, SavedInv
<1>6. CASE kept.st = "sent"
  <2>1. kept' = [st |-> "served", shown |-> kept.shown]
    BY <1>3, <1>5, <1>6
  <2>2. Valid(saving.routes) /\ AllShown(saving.routes) = kept.shown
    BY <1>6 DEF IInv, SavedInv
  <2>3. AllShown(server') = kept.shown
    BY <1>2, <1>4, <2>2
  <2>4. AllShown(server)' = kept.shown
    BY <2>3 DEF AllShown
  <2>5. SavedInv'
    BY <1>3, <2>1, <2>4 DEF SavedInv
  <2>6. TypeOK'
    BY <1>3, <1>4, <2>1 DEF IInv, TypeOK, ServeSave, Unsaved
  <2> QED
    BY <2>5, <2>6 DEF IInv, ServeSave, KeysInv, LeakInv, OnlySentHeadersLeak
<1>7. CASE kept.st # "sent"
  <2>1. kept' = kept
    BY <1>3, <1>7
  <2>2. kept.st = "no"
    BY <1>7 DEF IInv, TypeOK, SavedInv, ServeSave, Unsaved
  <2>3. SavedInv'
    BY <2>1, <2>2, <1>5 DEF SavedInv
  <2>4. TypeOK'
    BY <1>3, <1>4, <2>1 DEF IInv, TypeOK, ServeSave, Unsaved
  <2> QED
    BY <2>3, <2>4 DEF IInv, ServeSave, KeysInv, LeakInv, OnlySentHeadersLeak
<1> QED
  BY <1>6, <1>7

LEMMA FetchKeepsInv ==
  ASSUME IInv, Fetch
  PROVE  IInv'
<1>1. draft' \in Seq(Entries) /\ KeysInv'
  BY FetchKeeps DEF IInv
<1>2. /\ sent' = server /\ cache' = server /\ UNCHANGED <<server, page, nodes, saving, edits>>
      /\ kept' = IF kept.st = "served" THEN [kept EXCEPT !.st = "fetched"] ELSE kept
  BY DEF Fetch
<1>3. kept = [st |-> kept.st, shown |-> kept.shown]
  BY DEF IInv, SavedInv
<1>4. kept' = [st |-> IF kept.st = "served" THEN "fetched" ELSE kept.st, shown |-> kept.shown]
  BY <1>2, <1>3
<1>5. TypeOK'
  BY <1>1, <1>2, <1>4 DEF IInv, TypeOK, Entries
<1>6. LeakInv'
  BY <1>2 DEF LeakInv, OnlySentHeadersLeak
<1>7. SavedInv'
  BY <1>2, <1>4 DEF IInv, SavedInv, AllShown
<1> QED
  BY <1>1, <1>5, <1>6, <1>7 DEF IInv

LEMMA NextInv ==
  ASSUME IInv, [Next]_vars
  PROVE  IInv'
<1>1. ASSUME NEW i \in DOMAIN draft, Handler(i) PROVE IInv'
  <2>1. EditPage(i) /\ Effect(draft[i].key)
    BY <1>1, HandlerEffect DEF IInv
  <2> QED
    BY <2>1, EditKeepsInv DEF EditPage
<1>2. CASE ClickEdit
  <2>1. draft' \in Seq(Entries) /\ KeysInv'
    BY <1>2, ClickTyped DEF IInv
  <2>2. TypeOK'
    BY <1>2, <2>1 DEF ClickEdit, IInv, TypeOK, Entries
  <2> QED
    BY <1>2, <2>1, <2>2 DEF ClickEdit, IInv, LeakInv, OnlySentHeadersLeak, SavedInv
<1>3. CASE Leave
  <2>1. TypeOK' /\ KeysInv'
    BY <1>3 DEF Leave, IInv, TypeOK, KeysInv
  <2> QED
    BY <1>3, <2>1 DEF Leave, IInv, LeakInv, OnlySentHeadersLeak, SavedInv
<1>4. CASE AddRoute
  <2>1. Effect(0) /\ Act /\ UNCHANGED <<server, sent, page, nodes, saving, kept>>
    BY <1>4, AddEffect DEF IInv, AddRoute
  <2> QED
    BY <2>1, EditKeepsInv
<1>5. CASE HandleSave
  BY <1>5, SaveKeepsInv
<1>6. CASE ServeSave
  BY <1>6, ServeKeepsInv
<1>7. CASE Foreign
  <2>1. server' \in Seq(Routes) /\ edits' \in 0 .. MaxEdits
    BY <1>7, StartsAssumption, BoundAssumption DEF Foreign, Act, IInv, TypeOK
  <2>2. TypeOK'
    BY <1>7, <2>1 DEF Foreign, IInv, TypeOK, Nothing
  <2>3. SavedInv'
    BY <1>7 DEF Foreign, SavedInv, Nothing
  <2> QED
    BY <1>7, <2>2, <2>3 DEF Foreign, IInv, KeysInv, LeakInv, OnlySentHeadersLeak
<1>8. CASE Fetch
  BY <1>8, FetchKeepsInv
<1>9. CASE GetTailScaleNodes
  BY <1>9 DEF GetTailScaleNodes, IInv, TypeOK, KeysInv, LeakInv, OnlySentHeadersLeak, SavedInv
<1>10. CASE UNCHANGED vars
  BY <1>10 DEF vars, IInv, TypeOK, KeysInv, LeakInv, OnlySentHeadersLeak, SavedInv
<1> QED
  BY <1>1, <1>2, <1>3, <1>4, <1>5, <1>6, <1>7, <1>8, <1>9, <1>10 DEF Next, Handler

LEMMA Inductive == Spec => []IInv
<1>1. Init => IInv
  BY InitInv
<1>2. IInv /\ [Next]_vars => IInv'
  BY NextInv
<1> QED
  BY <1>1, <1>2, PTL DEF Spec

-----------------------------------------------------------------------------
(* What a step does to what is typed. *)

\* The values of an edit are those of its entry and of what the cache has
\* under its key.
LEMMA OthersStay ==
  ASSUME TypeOK, KeysInv, NEW k, Effect(k), NEW c, c # k
  PROVE  Keyed(FormValues, c) = Keyed(FormValues, c)'
<1>1. ASSUME NEW j \in DOMAIN draft, NEW n \in DOMAIN draft', draft'[n] = draft[j], draft[j].key = c
      PROVE  Value(draft[n])' = Value(draft[j])
  <2>1. \A t \in Tables : HeadersOf(draft[n], t)' = HeadersOf(draft[j], t)
    <3> SUFFICES ASSUME NEW t \in Tables PROVE HeadersOf(draft[n], t)' = HeadersOf(draft[j], t)
      OBVIOUS
    <3>1. CASE t \in draft[j].shares
      <4>1. cache'[c] = cache[c]
        BY <1>1, <3>1 DEF KeysInv, Effect, OnlyKey
      <4> QED
        BY <1>1, <4>1 DEF HeadersOf
    <3>2. CASE t \notin draft[j].shares
      BY <1>1, <3>2 DEF HeadersOf
    <3> QED
      BY <3>1, <3>2
  <2>2. HeadersOf(draft[n], "add")' = HeadersOf(draft[j], "add") /\ HeadersOf(draft[n], "set")' = HeadersOf(draft[j], "set")
    BY <2>1 DEF Tables
  <2> QED
    BY <1>1, <2>2 DEF Value
<1>2. Keyed(FormValues, c) = {[key |-> draft[j].key, value |-> Value(draft[j])] :
                                j \in {i \in DOMAIN draft : draft[i].key = c}}
  BY DEF Keyed, FormValues
<1>3. Keyed(FormValues, c)' = {[key |-> draft'[n].key, value |-> Value(draft[n])'] :
                                n \in {i \in DOMAIN draft' : draft'[i].key = c}}
  BY DEF Keyed, FormValues
<1>4. /\ \A j \in DOMAIN draft : draft[j].key = c => \E n \in DOMAIN draft' : draft'[n] = draft[j]
      /\ \A n \in DOMAIN draft' : draft'[n].key = c => \E j \in DOMAIN draft : draft'[n] = draft[j]
  BY DEF Effect, OnlyKey
<1>5. ASSUME NEW j \in DOMAIN draft, draft[j].key = c
      PROVE  [key |-> draft[j].key, value |-> Value(draft[j])] \in Keyed(FormValues, c)'
  <2>1. PICK n \in DOMAIN draft' : draft'[n] = draft[j]
    BY <1>4, <1>5
  <2>2. Value(draft[n])' = Value(draft[j])
    BY <1>1, <1>5, <2>1
  <2> QED
    BY <1>3, <1>5, <2>1, <2>2
<1>6. ASSUME NEW n \in DOMAIN draft', draft'[n].key = c
      PROVE  [key |-> draft'[n].key, value |-> Value(draft[n])'] \in Keyed(FormValues, c)
  <2>1. PICK j \in DOMAIN draft : draft'[n] = draft[j]
    BY <1>4, <1>6
  <2>2. Value(draft[n])' = Value(draft[j])
    BY <1>1, <1>6, <2>1
  <2> QED
    BY <1>2, <1>6, <2>1, <2>2
<1>7. Keyed(FormValues, c) \subseteq Keyed(FormValues, c)'
  BY <1>2, <1>5
<1>8. Keyed(FormValues, c)' \subseteq Keyed(FormValues, c)
  BY <1>3, <1>6
<1> QED
  BY <1>7, <1>8

\* The keys of the routes that a step changes.
Keys == {v.key : v \in FormValues \union FormValues'}
Changed == {k \in Keys : Keyed(FormValues, k) # Keyed(FormValues', k)}

LEMMA EditChangesOne ==
  ASSUME IInv, NEW k, Effect(k), Act
  PROVE  Cardinality(Changed) <= (IF edits' = edits THEN 0 ELSE 1)
<1>1. \A c : c # k => Keyed(FormValues, c) = Keyed(FormValues', c)
  BY OthersStay DEF IInv, Keyed
<1>2. Changed \in SUBSET {k}
  BY <1>1 DEF Changed
<1>3. IsFiniteSet({k}) /\ Cardinality({k}) = 1
  BY FS_Singleton
<1>4. Cardinality(Changed) <= 1
  BY <1>2, <1>3, FS_Subset
<1>5. edits' # edits
  BY BoundAssumption DEF Act, IInv, TypeOK
<1> QED
  BY <1>4, <1>5

LEMMA NothingChanged ==
  ASSUME FormValues' = FormValues
  PROVE  Cardinality(Changed) <= (IF edits' = edits THEN 0 ELSE 1)
<1>1. Changed = {}
  BY DEF Changed
<1>2. Cardinality(Changed) = 0
  BY <1>1, FS_EmptySet
<1> QED
  BY <1>2

LEMMA StepEditsOne ==
  ASSUME IInv, [Next]_vars, page = "edit", page' = "edit"
  PROVE  Cardinality(Changed) <= (IF edits' = edits THEN 0 ELSE 1)
<1>1. ASSUME NEW i \in DOMAIN draft, Handler(i)
      PROVE  Cardinality(Changed) <= (IF edits' = edits THEN 0 ELSE 1)
  <2>1. EditPage(i) /\ Effect(draft[i].key)
    BY <1>1, HandlerEffect DEF IInv
  <2> QED
    BY <2>1, EditChangesOne DEF EditPage
<1>2. CASE AddRoute
  <2>1. Effect(0) /\ Act
    BY <1>2, AddEffect DEF IInv, AddRoute
  <2> QED
    BY <2>1, EditChangesOne
<1>3. CASE Fetch
  <2>1. /\ DOMAIN draft' = DOMAIN draft
        /\ \A j \in DOMAIN draft : draft'[j].key = draft[j].key /\ Value(draft[j])' = Value(draft[j])
    BY <1>3, FetchKeeps DEF IInv
  <2>2. FormValues' = FormValues
    BY <2>1 DEF FormValues
  <2> QED
    BY <2>2, NothingChanged
<1>4. CASE ServeSave \/ Foreign \/ GetTailScaleNodes \/ UNCHANGED vars
  <2>1. UNCHANGED <<draft, cache>>
    BY <1>4 DEF ServeSave, Foreign, GetTailScaleNodes, vars
  <2>2. FormValues' = FormValues
    BY <2>1 DEF FormValues, Value, HeadersOf
  <2> QED
    BY <2>2, NothingChanged
<1>5. ~ClickEdit /\ ~Leave /\ ~HandleSave
  BY DEF ClickEdit, Leave, HandleSave
<1> QED
  BY <1>1, <1>2, <1>3, <1>4, <1>5 DEF Next, Handler

-----------------------------------------------------------------------------
(* The theorems. *)

\* The types: what is typed into the cards, and whatever the server has made
\* of it, are routes again.
THEOREM TypeCorrect == Spec => []TypeOK
<1>1. IInv => TypeOK
  BY DEF IInv
<1> QED
  BY Inductive, <1>1, PTL

\* However a draft is edited, left and opened again, what is typed reaches the
\* query cache only in tables in which the server had sent headers.
THEOREM OnlySentLeak == Spec => []OnlySentHeadersLeak
<1>1. IInv => OnlySentHeadersLeak
  BY DEF IInv, LeakInv
<1> QED
  BY Inductive, <1>1, PTL

\* What the page shows after a valid save is what was typed, whatever routes
\* the server had, unless another administrator has written them.
THEOREM SavedStaysShown == Spec => []SavedIsShown
<1>1. IInv => SavedIsShown
  BY DEF IInv, SavedInv, SavedIsShown, AllShown
<1> QED
  BY Inductive, <1>1, PTL

\* A handler of a card changes the routes of one key, and no answer of the
\* server changes what is typed, for any draft and any cache.
THEOREM OneRouteEdited == Spec => EditsOneRoute
<1>1. IInv /\ [Next]_vars
      => [page = "edit" /\ page' = "edit" =>
            LET keys == {v.key : v \in FormValues \union FormValues'}
                changed == {k \in keys : Keyed(FormValues, k) # Keyed(FormValues', k)}
            IN Cardinality(changed) <= (IF edits' = edits THEN 0 ELSE 1)]_vars
  BY StepEditsOne DEF Changed, Keys
<1> QED
  BY Inductive, <1>1, PTL DEF Spec, EditsOneRoute
=============================================================================
