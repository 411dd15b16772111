--------------------------- MODULE Services_proofs ---------------------------
(***************************************************************************)
(* Proofs about Services, for any number of callers, services, routes and  *)
(* configurations: the table is keyed by the services' ids whatever calls  *)
(* overlap, and calls that come one at a time leave no route running that  *)
(* no service accounts for.                                                *)
(***************************************************************************)
EXTENDS Services, TLAPS, FiniteSetTheorems

AllObjs   == 1..Len(id)
AllRoutes == 1..Len(cfg)
Pos(c)    == 1..Len(todo[c])
Left(c)   == {todo[c][n] : n \in Pos(c)}

OnService == {"startEach", "stopEach", "ensureEach", "enable", "setRoutes", "rekey"}
OnRoute   == {"start", "stop", "update", "startIf", "stopIf", "ensure"}
Values    == Nat \cup BOOLEAN \cup Ids \cup SUBSET Nat
Entries   == [do : OnService \cup OnRoute \cup {"delete"}, on : Nat, val : Values]

EntryOK(e) ==
  /\ e.do \in OnService \cup {"delete"} => e.on \in AllObjs
  /\ e.do \in OnRoute => e.on \in AllRoutes
  /\ e.do \in {"startIf", "stopIf"} => e.val \in AllObjs
  /\ e.do = "enable" => e.val \in BOOLEAN
  /\ e.do = "setRoutes" => e.val \in SUBSET AllRoutes
  /\ e.do = "delete" => e.val \in Ids

\* Services, routes and what is left to do are of objects that have been made.
TypeOK ==
  /\ services \in [Ids -> 0..Len(id)]
  /\ id \in Seq(Ids) /\ enabled \in Seq(BOOLEAN) /\ routes \in Seq(SUBSET AllRoutes)
  /\ Len(enabled) = Len(id) /\ Len(routes) = Len(id)
  /\ cfg \in Seq(Cfgs) /\ up \in Seq(BOOLEAN) /\ Len(up) = Len(cfg)
  /\ todo \in [Callers -> Seq(Entries)]
  /\ \A c \in Callers : \A e \in Left(c) : EntryOK(e)
  /\ writer \in Callers \cup {Nobody} /\ readers \subseteq Callers
  /\ orderly \in BOOLEAN

-----------------------------------------------------------------------------
(* Sequences of entries. *)

\* A finite set can be put in a sequence, each element somewhere.
LEMMA SeqOfSet ==
  ASSUME NEW S, IsFiniteSet(S)
  PROVE  /\ Cardinality(S) \in Nat
         /\ SetToSeq(S) \in [1..Cardinality(S) -> S]
         /\ \A x \in S : \E n \in 1..Cardinality(S) : SetToSeq(S)[n] = x
<1>1. Cardinality(S) \in Nat /\ ExistsBijection(1..Cardinality(S), S)
  BY FS_CardinalityType
<1>2. PICK f \in [1..Cardinality(S) -> S] : IsInjective(f)
  BY <1>1 DEF ExistsBijection, Bijection, Injection
<1>3. SetToSeq(S) \in [1..Cardinality(S) -> S] /\ IsInjective(SetToSeq(S))
  BY <1>2 DEF SetToSeq
<1>4. SetToSeq(S) \in Injection(1..Cardinality(S), S)
  BY <1>3 DEF Injection
<1>5. SetToSeq(S) \in Surjection(1..Cardinality(S), S)
  <2>1. IsFiniteSet(1..Cardinality(S)) /\ Cardinality(1..Cardinality(S)) = Cardinality(S)
    BY <1>1, FS_Interval
  <2> QED
    BY <1>4, <2>1, FS_Injection
<1> QED
  BY <1>1, <1>3, <1>5 DEF Surjection

\* What Each makes of a set.
LEMMA EachItems ==
  ASSUME NEW R, IsFiniteSet(R), NEW do, NEW val
  PROVE  /\ Len(Each(do, R, val)) \in Nat
         /\ DOMAIN Each(do, R, val) = 1..Len(Each(do, R, val))
         /\ \A n \in 1..Len(Each(do, R, val)) :
              \E r \in R : Each(do, R, val)[n] = Entry(do, r, val)
         /\ \A r \in R : \E n \in 1..Len(Each(do, R, val)) : Each(do, R, val)[n] = Entry(do, r, val)
<1> DEFINE q == SetToSeq(R)  k == Cardinality(R)
<1>1. k \in Nat /\ q \in [1..k -> R] /\ \A x \in R : \E n \in 1..k : q[n] = x
  BY SeqOfSet
<1>2. Len(q) = k
  BY <1>1
<1>3. Each(do, R, val) = [n \in 1..k |-> Entry(do, q[n], val)]
  BY <1>2 DEF Each
<1> HIDE DEF q, k
<1>4. Len(Each(do, R, val)) = k
  BY <1>1, <1>3
<1> QED
  BY <1>1, <1>3, <1>4

\* One sequence after another.
LEMMA ConcatItems ==
  ASSUME NEW S, NEW s \in Seq(S), NEW t \in Seq(S)
  PROVE  /\ s \o t \in Seq(S) /\ Len(s \o t) = Len(s) + Len(t)
         /\ \A n \in 1..Len(s) : (s \o t)[n] = s[n]
         /\ \A n \in 1..Len(t) : (s \o t)[Len(s) + n] = t[n]
         /\ \A n \in Len(s) + 1..Len(s) + Len(t) : (s \o t)[n] = t[n - Len(s)]
  OBVIOUS

LEMMA ConcatAssoc ==
  ASSUME NEW S, NEW s \in Seq(S), NEW t \in Seq(S), NEW u \in Seq(S)
  PROVE  s \o (t \o u) = (s \o t) \o u
  OBVIOUS

-----------------------------------------------------------------------------
(* What is left to do after a step. *)

\* The first thing is done with.
Shifted(c) ==
  /\ Len(todo[c]) \in Nat \ {0} /\ Head(todo[c]) = todo[c][1]
  /\ Len(todo'[c]) = Len(todo[c]) - 1
  /\ \A n \in 1..Len(todo[c]) - 1 : todo'[c][n] = todo[c][n + 1]
  /\ \A n \in 2..Len(todo[c]) : todo'[c][n - 1] = todo[c][n]

\* The first thing is replaced by k things, one for each element of R.
Unrolled(c, do, R, k) ==
  /\ Len(todo[c]) \in Nat \ {0} /\ Head(todo[c]) = todo[c][1]
  /\ k \in Nat /\ Len(todo'[c]) = Len(todo[c]) - 1 + k
  /\ \A n \in 1..k : \E r \in R : todo'[c][n] = Entry(do, r, Nil)
  /\ \A r \in R : \E n \in 1..k : todo'[c][n] = Entry(do, r, Nil)
  /\ \A n \in 1..Len(todo[c]) - 1 : todo'[c][n + k] = todo[c][n + 1]

OthersWait(c) == \A e \in Callers : e # c => todo'[e] = todo[e]

LEMMA DoneShifts ==
  ASSUME TypeOK, NEW c \in Callers, todo[c] # << >>, Done(c)
  PROVE  Shifted(c) /\ OthersWait(c) /\ todo' \in [Callers -> Seq(Entries)]
<1>1. todo[c] \in Seq(Entries) /\ todo' = [todo EXCEPT ![c] = Tail(todo[c])]
  BY DEF TypeOK, Done
<1>2. /\ Tail(todo[c]) \in Seq(Entries) /\ Len(todo[c]) \in Nat \ {0}
      /\ Len(Tail(todo[c])) = Len(todo[c]) - 1 /\ Head(todo[c]) = todo[c][1]
      /\ \A n \in 1..Len(todo[c]) - 1 : Tail(todo[c])[n] = todo[c][n + 1]
  BY <1>1
<1>3. todo' \in [Callers -> Seq(Entries)] /\ todo'[c] = Tail(todo[c]) /\ OthersWait(c)
  BY <1>1, <1>2 DEF TypeOK, OthersWait
<1>4. \A n \in 2..Len(todo[c]) : todo'[c][n - 1] = todo[c][n]
  <2> SUFFICES ASSUME NEW n \in 2..Len(todo[c]) PROVE todo'[c][n - 1] = todo[c][n]
    OBVIOUS
  <2>1. n - 1 \in 1..Len(todo[c]) - 1 /\ (n - 1) + 1 = n
    BY <1>2
  <2> QED
    BY <2>1, <1>2, <1>3
<1> QED
  BY <1>2, <1>3, <1>4 DEF Shifted

LEMMA RoutesFinite ==
  ASSUME TypeOK, NEW R \in SUBSET AllRoutes
  PROVE  Len(cfg) \in Nat /\ IsFiniteSet(AllRoutes) /\ IsFiniteSet(R)
<1>1. Len(cfg) \in Nat
  BY DEF TypeOK
<1>2. IsFiniteSet(AllRoutes)
  BY <1>1, FS_Interval DEF AllRoutes
<1> QED
  BY <1>1, <1>2, FS_Subset

LEMMA DoneThenUnrolls ==
  ASSUME TypeOK, NEW c \in Callers, todo[c] # << >>,
         NEW R \in SUBSET AllRoutes, NEW do \in OnRoute, DoneThen(c, Each(do, R, Nil))
  PROVE  /\ \E k \in Nat : Unrolled(c, do, R, k)
         /\ OthersWait(c) /\ todo' \in [Callers -> Seq(Entries)]
<1> DEFINE e == Each(do, R, Nil)  q == todo[c]
<1>0. Len(cfg) \in Nat /\ IsFiniteSet(R)
  BY RoutesFinite
<1>1. /\ Len(e) \in Nat /\ DOMAIN e = 1..Len(e)
      /\ \A n \in 1..Len(e) : \E r \in R : e[n] = Entry(do, r, Nil)
      /\ \A r \in R : \E n \in 1..Len(e) : e[n] = Entry(do, r, Nil)
  BY <1>0, EachItems
<1>2. \A r \in R : Entry(do, r, Nil) \in Entries
  BY <1>0 DEF Entry, Entries, Values, Nil, AllRoutes
<1>3. e \in Seq(Entries)
  <2>1. e = [n \in 1..Len(SetToSeq(R)) |-> Entry(do, SetToSeq(R)[n], Nil)]
    BY DEF Each
  <2>2. e = [n \in 1..Len(e) |-> e[n]]
    BY <1>1, <2>1, Zenon
  <2>3. \A n \in 1..Len(e) : e[n] \in Entries
    BY <1>1, <1>2
  <2> HIDE DEF e
  <2>4. e \in [1..Len(e) -> Entries]
    BY <2>2, <2>3
  <2> QED
    BY <1>1, <2>4
<1>4. q \in Seq(Entries) /\ q # << >> /\ todo' = [todo EXCEPT ![c] = e \o Tail(q)]
  BY DEF TypeOK, DoneThen
<1> HIDE DEF e, q
<1>5. /\ Tail(q) \in Seq(Entries) /\ Len(q) \in Nat \ {0} /\ Len(Tail(q)) = Len(q) - 1
      /\ Head(q) = q[1] /\ \A n \in 1..Len(q) - 1 : Tail(q)[n] = q[n + 1]
  BY <1>4
<1>6. /\ e \o Tail(q) \in Seq(Entries) /\ Len(e \o Tail(q)) = Len(q) - 1 + Len(e)
      /\ \A n \in 1..Len(e) : (e \o Tail(q))[n] = e[n]
      /\ \A n \in 1..Len(q) - 1 : (e \o Tail(q))[n + Len(e)] = Tail(q)[n]
  BY <1>1, <1>3, <1>5
<1>7. todo'[c] = e \o Tail(q) /\ todo' \in [Callers -> Seq(Entries)] /\ OthersWait(c)
  BY <1>4, <1>6 DEF TypeOK, OthersWait
<1>8. Unrolled(c, do, R, Len(e))
  BY <1>1, <1>5, <1>6, <1>7 DEF Unrolled, q
<1> QED
  BY <1>1, <1>7, <1>8

-----------------------------------------------------------------------------
(* Types. *)

\* An entry stays one of objects that have been made.
LEMMA EntryStays ==
  ASSUME TypeOK, NEW e, EntryOK(e), Len(id)' \in Nat, Len(id) <= Len(id)',
         Len(cfg)' \in Nat, Len(cfg) <= Len(cfg)'
  PROVE  EntryOK(e)'
<1>1. Len(id) \in Nat /\ Len(cfg) \in Nat
  BY DEF TypeOK
<1>2. AllObjs \subseteq AllObjs' /\ AllRoutes \subseteq AllRoutes'
  BY <1>1 DEF AllObjs, AllRoutes
<1> QED
  BY <1>2 DEF EntryOK

\* NewRoutes makes the routes Numbers gives, each down.
LEMMA NewRoutesType ==
  ASSUME TypeOK, NEW fs \in SUBSET Cfgs, NewRoutes(fs)
  PROVE  /\ Cardinality(fs) \in Nat /\ Len(cfg) \in Nat /\ Len(cfg)' = Len(cfg) + Cardinality(fs)
         /\ cfg' \in Seq(Cfgs) /\ up' \in Seq(BOOLEAN) /\ Len(up)' = Len(cfg)'
         /\ \A r \in AllRoutes : cfg'[r] = cfg[r] /\ up'[r] = up[r]
         /\ \A r \in Numbers(fs) : up'[r] = FALSE
         /\ Numbers(fs) = AllRoutes' \ AllRoutes
<1>1. IsFiniteSet(fs)
  BY ConfigsAssumption, FS_Subset DEF Cfgs
<1>2. Cardinality(fs) \in Nat /\ SetToSeq(fs) \in [1..Cardinality(fs) -> fs]
  BY <1>1, SeqOfSet
<1> DEFINE k == Cardinality(fs)  s == SetToSeq(fs)  d == [n \in 1..k |-> FALSE]
<1>3. k \in Nat /\ s \in Seq(Cfgs) /\ Len(s) = k
  BY <1>2
<1>5. cfg' = cfg \o s /\ up' = up \o d
  BY DEF NewRoutes
<1>6. cfg \in Seq(Cfgs) /\ up \in Seq(BOOLEAN) /\ Len(up) = Len(cfg) /\ Len(cfg) \in Nat
  BY DEF TypeOK
<1>9. Numbers(fs) = Len(cfg) + 1..Len(cfg) + k
  BY DEF Numbers
<1> HIDE DEF k, s
<1>4. d \in Seq(BOOLEAN) /\ Len(d) = k /\ \A n \in 1..k : d[n] = FALSE
  BY <1>3
<1> HIDE DEF d
<1>7. /\ cfg' \in Seq(Cfgs) /\ Len(cfg') = Len(cfg) + k
      /\ \A r \in 1..Len(cfg) : cfg'[r] = cfg[r]
  <2>1. /\ cfg \o s \in Seq(Cfgs) /\ Len(cfg \o s) = Len(cfg) + Len(s)
        /\ \A r \in 1..Len(cfg) : (cfg \o s)[r] = cfg[r]
    <3>1. cfg \in Seq(Cfgs) /\ s \in Seq(Cfgs)
      BY <1>3, <1>6
    <3> QED
      BY <3>1
  <2> QED
    BY <2>1, <1>3, <1>5, Zenon
<1>8. /\ up' \in Seq(BOOLEAN) /\ Len(up') = Len(cfg) + k
      /\ \A r \in 1..Len(cfg) : up'[r] = up[r]
      /\ \A r \in Len(cfg) + 1..Len(cfg) + k : up'[r] = FALSE
  <2>1. /\ up' \in Seq(BOOLEAN) /\ Len(up') = Len(cfg) + k
        /\ \A r \in 1..Len(cfg) : up'[r] = up[r]
        /\ \A r \in Len(cfg) + 1..Len(cfg) + k : up'[r] = d[r - Len(cfg)]
    <3> DEFINE Flag == BOOLEAN
    <3>1. up \in Seq(Flag) /\ d \in Seq(Flag)
      BY <1>4, <1>6
    <3> HIDE DEF Flag
    <3>2. /\ up \o d \in Seq(Flag) /\ Len(up \o d) = Len(up) + Len(d)
          /\ \A n \in 1..Len(up) : (up \o d)[n] = up[n]
          /\ \A n \in Len(up) + 1..Len(up) + Len(d) : (up \o d)[n] = d[n - Len(up)]
      BY <3>1, ConcatItems
    <3> QED
      BY <3>2, <1>4, <1>5, <1>6, Zenon DEF Flag
  <2> QED
    BY <2>1, <1>3, <1>4, <1>6
<1>10. k = Cardinality(fs)
  BY DEF k
<1> QED
  BY <1>3, <1>6, <1>7, <1>8, <1>9, <1>10 DEF AllRoutes

\* What a route operation can do to what runs: it raises or lowers one route.
Raises(c) ==
  \/ Do(c, "start") \/ Do(c, "ensure")
  \/ Do(c, "update") /\ cfg[On(c)] \in Ports
  \/ Do(c, "startIf") /\ enabled[Val(c)]
Lowers(c) == Do(c, "stop") \/ (Do(c, "stopIf") /\ enabled[Val(c)])

LEMMA RouteEffect ==
  ASSUME TypeOK, NEW c \in Callers, RouteStep(c)
  PROVE  /\ todo[c] # << >> /\ Head(todo[c]).do \in OnRoute /\ On(c) \in AllRoutes
         /\ up' \in Seq(BOOLEAN) /\ Len(up') = Len(up)
         /\ \A r \in AllRoutes \ {On(c)} : up'[r] = up[r]
         /\ up'[On(c)] => up[On(c)] \/ Raises(c)
         /\ Lowers(c) => ~up'[On(c)]
         /\ Done(c) /\ UNCHANGED <<services, id, enabled, routes, cfg, writer, readers>>
<1>1. todo[c] # << >> /\ Head(todo[c]).do \in OnRoute /\ Done(c)
      /\ UNCHANGED <<services, id, enabled, routes, cfg, writer, readers>>
  BY DEF RouteStep, Do, OnRoute, objVars
<1>2. Len(todo[c]) \in Nat \ {0} /\ Head(todo[c]) = todo[c][1]
  BY <1>1 DEF TypeOK
<1>3. On(c) \in AllRoutes
  <2>1. Head(todo[c]) \in Left(c)
    BY <1>2 DEF Left, Pos
  <2> QED
    BY <1>1, <2>1 DEF TypeOK, EntryOK, On
<1>4. \/ UNCHANGED up /\ ~Lowers(c)
      \/ (\E ok \in BOOLEAN : up' = [up EXCEPT ![On(c)] = ok]) /\ Raises(c) /\ ~Lowers(c)
      \/ up' = [up EXCEPT ![On(c)] = FALSE]
  BY DEF RouteStep, StartRoute, StopRoute, Do, Raises, Lowers, Wanted
<1>5. up \in Seq(BOOLEAN) /\ Len(up) = Len(cfg) /\ Len(cfg) \in Nat
  BY DEF TypeOK
<1>6. CASE UNCHANGED up /\ ~Lowers(c)
  BY <1>1, <1>3, <1>5, <1>6
<1>7. CASE (\E ok \in BOOLEAN : up' = [up EXCEPT ![On(c)] = ok]) /\ Raises(c) /\ ~Lowers(c)
  BY <1>1, <1>3, <1>5, <1>7 DEF AllRoutes
<1>8. CASE up' = [up EXCEPT ![On(c)] = FALSE]
  BY <1>1, <1>3, <1>5, <1>8 DEF AllRoutes
<1> QED
  BY <1>4, <1>6, <1>7, <1>8

-----------------------------------------------------------------------------
(* What is left to do, as a set, and its order. *)

Harmless == {"startEach", "stopEach", "start", "stop", "enable"}
Early    == {"stopEach", "stop", "enable", "update", "stopIf", "startIf"}
Late     == {"ensureEach", "rekey"}

\* What changes the table comes last, what changes the list of routes between
\* what is done to the old routes and what is done to the new ones.
Ordered(c) ==
  \A n \in Pos(c) :
    /\ todo[c][n].do \in {"rekey", "delete"} => n = Len(todo[c])
    /\ todo[c][n].do = "setRoutes" =>
         \A m \in Pos(c) : /\ m < n => todo[c][m].do \in Early
                           /\ m > n => todo[c][m].do \in Late

\* A step does the first thing and puts those of X in its place.
Becomes(c, X) ==
  /\ Head(todo[c]) \in Left(c)
  /\ Left(c)' \subseteq Left(c) \cup X
  /\ X \subseteq Left(c)'
  /\ \A e \in Left(c) : e = Head(todo[c]) \/ e \in Left(c)'
  /\ OthersWait(c) /\ todo' \in [Callers -> Seq(Entries)]

LEMMA DoneBecomes ==
  ASSUME TypeOK, NEW c \in Callers, todo[c] # << >>, Done(c)
  PROVE  Becomes(c, {})
<1>1. Shifted(c) /\ OthersWait(c) /\ todo' \in [Callers -> Seq(Entries)]
  BY DoneShifts
<1>2. ASSUME NEW n \in 1..Len(todo'[c]) PROVE todo'[c][n] \in Left(c)
  BY <1>1 DEF Shifted, Left, Pos
<1>3. ASSUME NEW n \in 1..Len(todo[c]), n # 1 PROVE todo[c][n] \in Left(c)'
  <2>1. n - 1 \in 1..Len(todo'[c]) /\ todo'[c][n - 1] = todo[c][n]
    BY <1>1, <1>3 DEF Shifted
  <2> QED
    BY <2>1 DEF Left, Pos
<1>4. Head(todo[c]) = todo[c][1] /\ 1 \in 1..Len(todo[c])
  BY <1>1 DEF Shifted
<1> QED
  BY <1>1, <1>2, <1>3, <1>4 DEF Becomes, Left, Pos

LEMMA DoneThenBecomes ==
  ASSUME TypeOK, NEW c \in Callers, todo[c] # << >>,
         NEW R \in SUBSET AllRoutes, NEW do \in OnRoute, DoneThen(c, Each(do, R, Nil))
  PROVE  Becomes(c, {Entry(do, r, Nil) : r \in R})
<1>1. PICK k \in Nat : Unrolled(c, do, R, k) /\ OthersWait(c) /\ todo' \in [Callers -> Seq(Entries)]
  BY DoneThenUnrolls
<1> DEFINE X == {Entry(do, r, Nil) : r \in R}
<1>2. ASSUME NEW n \in 1..Len(todo'[c]) PROVE todo'[c][n] \in Left(c) \cup X
  <2>1. CASE n <= k
    BY <1>1, <2>1 DEF Unrolled
  <2>2. CASE n > k
    <3>1. (n - k) \in 1..Len(todo[c]) - 1 /\ n = (n - k) + k
      BY <1>1, <2>2 DEF Unrolled
    <3>2. todo'[c][(n - k) + k] = todo[c][(n - k) + 1]
      BY <3>1, <1>1 DEF Unrolled
    <3>3. (n - k) + 1 \in 1..Len(todo[c])
      BY <3>1, <1>1 DEF Unrolled
    <3> QED
      BY <3>1, <3>2, <3>3 DEF Left, Pos
  <2> QED
    BY <1>1, <2>1, <2>2 DEF Unrolled
<1>3. ASSUME NEW n \in 1..Len(todo[c]), n # 1 PROVE todo[c][n] \in Left(c)'
  <2>1. n - 1 \in 1..Len(todo[c]) - 1 /\ (n - 1) + 1 = n
    BY <1>1, <1>3 DEF Unrolled
  <2>2. todo'[c][(n - 1) + k] = todo[c][(n - 1) + 1]
    BY <2>1, <1>1 DEF Unrolled
  <2>3. (n - 1) + k \in 1..Len(todo'[c])
    BY <2>1, <1>1 DEF Unrolled
  <2> QED
    BY <2>1, <2>2, <2>3 DEF Left, Pos
<1>4. Head(todo[c]) = todo[c][1] /\ 1 \in 1..Len(todo[c])
  BY <1>1 DEF Unrolled
<1>5. X \subseteq Left(c)'
  <2> SUFFICES ASSUME NEW r \in R PROVE Entry(do, r, Nil) \in Left(c)'
    OBVIOUS
  <2>1. PICK n \in 1..k : todo'[c][n] = Entry(do, r, Nil)
    BY <1>1 DEF Unrolled
  <2>2. n \in 1..Len(todo'[c])
    BY <1>1 DEF Unrolled
  <2> QED
    BY <2>1, <2>2 DEF Left, Pos
<1> HIDE DEF X
<1>6. Becomes(c, X)
  BY <1>1, <1>2, <1>3, <1>4, <1>5 DEF Becomes, Left, Pos
<1> QED
  BY <1>6 DEF X

\* What a caller has left to do is typed.
LEMMA LeftTyped ==
  ASSUME TypeOK, NEW c \in Callers, NEW e \in Left(c)
  PROVE  e \in Entries /\ EntryOK(e)
<1>1. todo[c] \in Seq(Entries)
  BY DEF TypeOK
<1>2. e \in Entries
  BY <1>1 DEF Left, Pos
<1> QED
  BY <1>2 DEF TypeOK

\* What the order says of the entries left.
LEMMA OrderSays ==
  ASSUME TypeOK, NEW c \in Callers, Ordered(c)
  PROVE  /\ \A e, f \in Left(c) : e.do = "setRoutes" => f = e \/ f.do \in Early \cup Late
         /\ \A e, f \in Left(c) : e.do \in {"rekey", "delete"} /\ f.do \in {"rekey", "delete"} => e = f
<1>1. todo[c] \in Seq(Entries) /\ Len(todo[c]) \in Nat
  BY DEF TypeOK
<1>2. ASSUME NEW n \in Pos(c), NEW m \in Pos(c), todo[c][n].do = "setRoutes"
      PROVE  todo[c][m] = todo[c][n] \/ todo[c][m].do \in Early \cup Late
  <2>1. m = n \/ m < n \/ m > n
    BY <1>1 DEF Pos
  <2> QED
    BY <1>2, <2>1 DEF Ordered
<1>3. ASSUME NEW n \in Pos(c), NEW m \in Pos(c), todo[c][n].do \in {"rekey", "delete"},
             todo[c][m].do \in {"rekey", "delete"}
      PROVE  todo[c][n] = todo[c][m]
  <2>1. n = Len(todo[c]) /\ m = Len(todo[c])
    BY <1>3 DEF Ordered
  <2> QED
    BY <2>1
<1> QED
  BY <1>2, <1>3 DEF Left

\* What it says of the rest when the first thing is done.
LEMMA HeadOrder ==
  ASSUME TypeOK, NEW c \in Callers, todo[c] # << >>, Ordered(c), Done(c)
  PROVE  /\ Head(todo[c]).do \in {"rekey", "delete"} => Left(c) = {Head(todo[c])} /\ Left(c)' = {}
         /\ Head(todo[c]).do = "setRoutes" => \A e \in Left(c)' : e.do \in Late
<1>1. Shifted(c)
  BY DoneShifts
<1>2. Len(todo[c]) \in Nat \ {0} /\ Head(todo[c]) = todo[c][1] /\ 1 \in Pos(c)
  BY <1>1 DEF Shifted, Pos
<1>3. ASSUME Head(todo[c]).do \in {"rekey", "delete"}
      PROVE  Left(c) = {Head(todo[c])} /\ Left(c)' = {}
  <2>1. Len(todo[c]) = 1
    BY <1>2, <1>3 DEF Ordered
  <2>2. Pos(c) = {1} /\ Pos(c)' = {}
    BY <1>1, <2>1 DEF Shifted, Pos
  <2> QED
    BY <1>2, <2>2 DEF Left
<1>4. ASSUME Head(todo[c]).do = "setRoutes", NEW n \in Pos(c)' PROVE todo'[c][n].do \in Late
  <2>1. todo'[c][n] = todo[c][n + 1] /\ n + 1 \in Pos(c) /\ n + 1 > 1
    BY <1>1, <1>4 DEF Shifted, Pos
  <2> QED
    BY <1>2, <1>4, <2>1 DEF Ordered
<1> QED
  BY <1>3, <1>4 DEF Left

LEMMA HeadEnsures ==
  ASSUME TypeOK, NEW c \in Callers, todo[c] # << >>, Ordered(c), Head(todo[c]).do \in Late
  PROVE  \A e \in Left(c) : e.do # "setRoutes"
<1>1. Len(todo[c]) \in Nat \ {0} /\ Head(todo[c]) = todo[c][1] /\ 1 \in Pos(c)
  <2>1. todo[c] \in Seq(Entries)
    BY DEF TypeOK
  <2> QED
    BY <2>1 DEF Pos
<1>2. ASSUME NEW n \in Pos(c), todo[c][n].do = "setRoutes" PROVE FALSE
  <2>1. n = 1 \/ 1 < n
    BY <1>1 DEF Pos
  <2>2. todo[c][1].do = "setRoutes" \/ todo[c][1].do \in Early
    BY <1>1, <1>2, <2>1 DEF Ordered
  <2> QED
    BY <1>1, <2>2 DEF Early, Late
<1> QED
  BY <1>2 DEF Left

LEMMA DoneOrdered ==
  ASSUME TypeOK, NEW c \in Callers, todo[c] # << >>, Ordered(c), Done(c)
  PROVE  Ordered(c)'
<1>1. Shifted(c)
  BY DoneShifts
<1>2. \A n \in Pos(c)' : todo'[c][n] = todo[c][n + 1] /\ n + 1 \in Pos(c)
  BY <1>1 DEF Shifted, Pos
<1>3. Len(todo[c]) \in Nat /\ Len(todo'[c]) = Len(todo[c]) - 1
  BY <1>1 DEF Shifted
<1>4. ASSUME NEW n \in Pos(c)', todo'[c][n].do \in {"rekey", "delete"} PROVE n = Len(todo'[c])
  <2>1. n + 1 = Len(todo[c])
    BY <1>2, <1>4 DEF Ordered
  <2> QED
    BY <1>3, <2>1 DEF Pos
<1>5. ASSUME NEW n \in Pos(c)', todo'[c][n].do = "setRoutes", NEW m \in Pos(c)'
      PROVE  (m < n => todo'[c][m].do \in Early) /\ (m > n => todo'[c][m].do \in Late)
  <2>1. (m < n => m + 1 < n + 1) /\ (m > n => m + 1 > n + 1)
    BY <1>3 DEF Pos
  <2> QED
    BY <1>2, <1>5, <2>1 DEF Ordered
<1> QED
  BY <1>4, <1>5 DEF Ordered

LEMMA DoneThenOrdered ==
  ASSUME TypeOK, NEW c \in Callers, todo[c] # << >>, Ordered(c),
         NEW R \in SUBSET AllRoutes, NEW do \in {"start", "stop", "ensure"}, DoneThen(c, Each(do, R, Nil)),
         Head(todo[c]).do \in Early => do \in Early
  PROVE  Ordered(c)'
<1>1. PICK k \in Nat : Unrolled(c, do, R, k)
  BY DoneThenUnrolls DEF OnRoute
<1>2. Len(todo[c]) \in Nat \ {0} /\ Len(todo'[c]) = Len(todo[c]) - 1 + k /\ Head(todo[c]) = todo[c][1]
  BY <1>1 DEF Unrolled
<1>3. ASSUME NEW n \in Pos(c)', n <= k PROVE todo'[c][n].do = do
  <2>1. \E r \in R : todo'[c][n] = Entry(do, r, Nil)
    BY <1>1, <1>2, <1>3 DEF Unrolled, Pos
  <2> QED
    BY <2>1 DEF Entry
<1>4. ASSUME NEW n \in Pos(c)', n > k
      PROVE  n - k + 1 \in Pos(c) /\ n - k + 1 > 1 /\ todo'[c][n] = todo[c][n - k + 1]
  <2>0. n \in Nat /\ n <= Len(todo'[c])
    BY <1>2 DEF Pos
  <2>1. (n - k) \in 1..Len(todo[c]) - 1 /\ n = (n - k) + k
    BY <2>0, <1>2, <1>4
  <2>2. todo'[c][(n - k) + k] = todo[c][(n - k) + 1]
    BY <2>1, <1>1 DEF Unrolled
  <2>3. (n - k) + 1 \in Pos(c) /\ (n - k) + 1 > 1
    BY <2>1, <1>2 DEF Pos
  <2> QED
    BY <2>1, <2>2, <2>3
<1>5. ASSUME NEW n \in Pos(c)', todo'[c][n].do \in {"rekey", "delete"} PROVE n = Len(todo'[c])
  <2>0. n \in Nat
    BY <1>2 DEF Pos
  <2>1. n > k
    <3>1. ~(n <= k)
      BY <1>3, <1>5
    <3> QED
      BY <2>0, <3>1
  <2>2. n - k + 1 = Len(todo[c])
    BY <2>1, <1>4, <1>5 DEF Ordered
  <2> QED
    BY <1>2, <2>2 DEF Pos
<1>6. ASSUME NEW n \in Pos(c)', todo'[c][n].do = "setRoutes", NEW m \in Pos(c)'
      PROVE  (m < n => todo'[c][m].do \in Early) /\ (m > n => todo'[c][m].do \in Late)
  <2>0. n > k
    <3>1. ~(n <= k)
      BY <1>3, <1>6
    <3>2. n \in Nat
      BY <1>2 DEF Pos
    <3> QED
      BY <3>1, <3>2
  <2>1. n > k /\ n - k + 1 \in Pos(c) /\ n - k + 1 > 1 /\ todo[c][n - k + 1].do = "setRoutes"
    BY <2>0, <1>4, <1>6
  <2>2. 1 \in Pos(c) /\ Head(todo[c]).do \in Early
    <3>1. 1 \in Pos(c) /\ 1 < n - k + 1
      BY <1>2, <2>1 DEF Pos
    <3>2. todo[c][1].do \in Early
      BY <2>1, <3>1 DEF Ordered
    <3> QED
      BY <1>2, <3>1, <3>2
  <2>3. CASE m <= k
    <3>1. m < n /\ ~(m > n)
      BY <1>2, <2>1, <2>3 DEF Pos
    <3> QED
      BY <1>3, <2>2, <2>3, <3>1
  <2>4. CASE m > k
    <3>1. m - k + 1 \in Pos(c) /\ todo'[c][m] = todo[c][m - k + 1]
      BY <1>4, <2>4
    <3>2. (m < n => m - k + 1 < n - k + 1) /\ (m > n => m - k + 1 > n - k + 1)
      BY <1>2 DEF Pos
    <3> QED
      BY <2>1, <3>1, <3>2 DEF Ordered
  <2> QED
    BY <1>2, <2>3, <2>4 DEF Pos
<1> QED
  BY <1>5, <1>6 DEF Ordered

-----------------------------------------------------------------------------
(* What a call begins with. *)

\* A sequence of exactly these entries.
Holds(s, X) ==
  /\ s \in Seq(Entries)
  /\ \A n \in 1..Len(s) : s[n] \in X
  /\ \A x \in X : \E n \in 1..Len(s) : s[n] = x

LEMMA HoldsConcat ==
  ASSUME NEW s, NEW t, NEW X, NEW Y, Holds(s, X), Holds(t, Y)
  PROVE  Holds(s \o t, X \cup Y)
<1>1. /\ s \in Seq(Entries) /\ t \in Seq(Entries)
      /\ Len(s) \in Nat /\ Len(t) \in Nat
  BY DEF Holds
<1>2. /\ s \o t \in Seq(Entries) /\ Len(s \o t) = Len(s) + Len(t)
      /\ \A n \in 1..Len(s) : (s \o t)[n] = s[n]
      /\ \A n \in 1..Len(t) : (s \o t)[Len(s) + n] = t[n]
      /\ \A n \in Len(s) + 1..Len(s) + Len(t) : (s \o t)[n] = t[n - Len(s)]
  BY <1>1, ConcatItems
<1>3. ASSUME NEW n \in 1..Len(s \o t) PROVE (s \o t)[n] \in X \cup Y
  <2>1. CASE n <= Len(s)
    BY <1>1, <1>2, <1>3, <2>1 DEF Holds
  <2>2. CASE n > Len(s)
    <3>1. n - Len(s) \in 1..Len(t) /\ (s \o t)[n] = t[n - Len(s)]
      BY <1>1, <1>2, <1>3, <2>2
    <3> QED
      BY <3>1 DEF Holds
  <2> QED
    BY <1>1, <1>2, <1>3, <2>1, <2>2
<1>4. ASSUME NEW x \in X PROVE \E n \in 1..Len(s \o t) : (s \o t)[n] = x
  <2>1. PICK n \in 1..Len(s) : s[n] = x
    BY DEF Holds
  <2>2. n \in 1..Len(s \o t) /\ (s \o t)[n] = x
    BY <1>1, <1>2, <2>1
  <2> QED
    BY <2>2
<1>5. ASSUME NEW y \in Y PROVE \E n \in 1..Len(s \o t) : (s \o t)[n] = y
  <2>1. PICK n \in 1..Len(t) : t[n] = y
    BY DEF Holds
  <2>2. Len(s) + n \in 1..Len(s \o t) /\ (s \o t)[Len(s) + n] = y
    BY <1>1, <1>2, <2>1
  <2> QED
    BY <2>2
<1> QED
  BY <1>2, <1>3, <1>4, <1>5 DEF Holds

LEMMA HoldsEach ==
  ASSUME NEW R, IsFiniteSet(R), NEW do, NEW val, \A r \in R : Entry(do, r, val) \in Entries
  PROVE  Holds(Each(do, R, val), {Entry(do, r, val) : r \in R})
<1> DEFINE e == Each(do, R, val)
<1>1. /\ Len(e) \in Nat /\ DOMAIN e = 1..Len(e)
      /\ \A n \in 1..Len(e) : \E r \in R : e[n] = Entry(do, r, val)
      /\ \A r \in R : \E n \in 1..Len(e) : e[n] = Entry(do, r, val)
  BY EachItems
<1>2. e = [n \in 1..Len(SetToSeq(R)) |-> Entry(do, SetToSeq(R)[n], val)]
  BY DEF Each
<1>3. e = [n \in 1..Len(e) |-> e[n]]
  BY <1>1, <1>2, Zenon
<1>4. \A n \in 1..Len(e) : e[n] \in Entries
  BY <1>1
<1> HIDE DEF e
<1>5. e \in Seq(Entries)
  <2>1. e \in [1..Len(e) -> Entries]
    BY <1>3, <1>4
  <2> QED
    BY <1>1, <2>1
<1> QED
  BY <1>1, <1>5 DEF Holds, e

\* Entries are of a known kind, on a number, with a value.
LEMMA EntryType ==
  ASSUME NEW do \in OnService \cup OnRoute \cup {"delete"}, NEW on \in Nat, NEW val \in Values
  PROVE  /\ Entry(do, on, val) \in Entries
         /\ Entry(do, on, val).do = do /\ Entry(do, on, val).on = on /\ Entry(do, on, val).val = val
  BY DEF Entry, Entries

LEMMA ValueType == Nil \in Values /\ TRUE \in Values /\ FALSE \in Values
                   /\ Nat \subseteq Values /\ Ids \subseteq Values /\ SUBSET Nat \subseteq Values
  BY DEF Values, Nil

LEMMA PairItems ==
  ASSUME NEW x \in Entries, NEW y \in Entries
  PROVE  <<x, y>> \in Seq(Entries) /\ Len(<<x, y>>) = 2 /\ <<x, y>>[1] = x /\ <<x, y>>[2] = y
  OBVIOUS

\* Service.Start and Service.Stop of a service.
LEMMA ServiceWork ==
  ASSUME NEW o \in Nat
  PROVE  /\ StartService(o) \in Seq(Entries) /\ Len(StartService(o)) = 2
         /\ StartService(o)[1] = Entry("startEach", o, Nil) /\ StartService(o)[2] = Entry("enable", o, TRUE)
         /\ StopService(o) \in Seq(Entries) /\ Len(StopService(o)) = 2
         /\ StopService(o)[1] = Entry("stopEach", o, Nil) /\ StopService(o)[2] = Entry("enable", o, FALSE)
<1>1. /\ Entry("startEach", o, Nil) \in Entries /\ Entry("enable", o, TRUE) \in Entries
      /\ Entry("stopEach", o, Nil) \in Entries /\ Entry("enable", o, FALSE) \in Entries
  BY EntryType, ValueType DEF OnService
<1> QED
  BY <1>1, PairItems, Zenon DEF StartService, StopService

\* The routes an update keeps, and those it makes.
KeptRoutes(o, fs) == {r \in routes[o] : cfg[r] \in fs}
MadeRoutes(o, fs) == Numbers(fs \ {cfg[r] : r \in KeptRoutes(o, fs)})

\* What an update does before it puts the new routes in the place of the old.
FrontWork(o, en, fs) ==
  (IF en THEN {} ELSE {Entry("stopEach", o, Nil), Entry("enable", o, FALSE)})
  \cup {Entry("update", r, Nil) : r \in KeptRoutes(o, fs)}
  \cup {Entry("stopIf", r, o) : r \in routes[o] \ KeptRoutes(o, fs)}
  \cup {Entry("startIf", r, o) : r \in MadeRoutes(o, fs)}

UpdateShape(q, m, o, j, en, fs) ==
  /\ q \in Seq(Entries) /\ m \in Nat \ {0} /\ Len(q) = m + 2
  /\ q[m] = Entry("setRoutes", o, KeptRoutes(o, fs) \cup MadeRoutes(o, fs))
  /\ q[m + 1] = Entry("ensureEach", o, Nil) /\ q[m + 2] = Entry("rekey", o, j)
  /\ \A n \in 1..m - 1 : q[n] \in FrontWork(o, en, fs)
  /\ \A x \in FrontWork(o, en, fs) : \E n \in 1..m - 1 : q[n] = x
  /\ ~en => /\ m > 2 /\ q[1] = Entry("stopEach", o, Nil) /\ q[2] = Entry("enable", o, FALSE)
            /\ \A n \in 3..m - 1 : q[n].do \in {"update", "stopIf", "startIf"}

LEMMA UpdateItems ==
  ASSUME TypeOK, NEW o \in AllObjs, NEW j \in Ids, NEW en \in BOOLEAN, NEW fs \in SUBSET Cfgs
  PROVE  \E m \in Nat : UpdateShape(UpdateWork(o, j, en, fs), m, o, j, en, fs)
<1> DEFINE kept == KeptRoutes(o, fs)
           gone == routes[o] \ kept
           new  == MadeRoutes(o, fs)
           A == IF en THEN << >> ELSE StopService(o)
           B == Each("update", kept, Nil)
           C == Each("stopIf", gone, o)
           D == Each("startIf", new, o)
           E == <<Entry("setRoutes", o, kept \cup new), Entry("ensureEach", o, Nil), Entry("rekey", o, j)>>
           XA == IF en THEN {} ELSE {Entry("stopEach", o, Nil), Entry("enable", o, FALSE)}
           XB == {Entry("update", r, Nil) : r \in kept}
           XC == {Entry("stopIf", r, o) : r \in gone}
           XD == {Entry("startIf", r, o) : r \in new}
<1>1. o \in Nat /\ Len(cfg) \in Nat /\ kept \subseteq AllRoutes /\ gone \subseteq AllRoutes /\ AllRoutes \subseteq Nat
  BY DEF TypeOK, AllObjs, AllRoutes, KeptRoutes
<1>2. new \subseteq Nat /\ IsFiniteSet(new)
  <2> DEFINE g == fs \ {cfg[r] : r \in kept}
  <2>1. IsFiniteSet(g)
    BY ConfigsAssumption, FS_Subset DEF Cfgs
  <2>2. Cardinality(g) \in Nat
    BY <2>1, FS_CardinalityType
  <2>3. new = Len(cfg) + 1..Len(cfg) + Cardinality(g)
    BY DEF MadeRoutes, Numbers
  <2>4. Len(cfg) + 1 \in Int /\ Len(cfg) + Cardinality(g) \in Int
    BY <1>1, <2>2
  <2>5. IsFiniteSet(Len(cfg) + 1..Len(cfg) + Cardinality(g))
    BY <2>4, FS_Interval
  <2> HIDE DEF g, new
  <2>6. new \subseteq Nat
    BY <1>1, <2>2, <2>3
  <2> QED
    BY <2>3, <2>5, <2>6
<1>3. IsFiniteSet(kept) /\ IsFiniteSet(gone)
  BY <1>1, RoutesFinite
<1>4. /\ \A r \in kept : Entry("update", r, Nil) \in Entries
      /\ \A r \in gone : Entry("stopIf", r, o) \in Entries
      /\ \A r \in new : Entry("startIf", r, o) \in Entries
  BY <1>1, <1>2, EntryType, ValueType DEF OnRoute
<1>5. /\ Entry("setRoutes", o, kept \cup new) \in Entries
      /\ Entry("ensureEach", o, Nil) \in Entries /\ Entry("rekey", o, j) \in Entries
  <2>1. kept \cup new \in SUBSET Nat
    BY <1>1, <1>2
  <2> QED
    BY <1>1, <2>1, EntryType, ValueType DEF OnService
<1>6. UpdateWork(o, j, en, fs) = A \o B \o C \o D \o E
  BY DEF UpdateWork, KeptRoutes, MadeRoutes
<1>7. Holds(B, XB) /\ Holds(C, XC) /\ Holds(D, XD)
  BY <1>2, <1>3, <1>4, HoldsEach
<1>8. Holds(A, XA) /\ Len(A) \in Nat /\ (~en => Len(A) = 2 /\ A = StopService(o)) /\ (en => Len(A) = 0)
  <2>1. CASE en
    <3>1. A = << >> /\ XA = {}
      BY <2>1
    <3> HIDE DEF A, XA
    <3>2. A \in Seq(Entries) /\ Len(A) = 0
      BY <3>1
    <3>3. Holds(A, XA)
      BY <3>1, <3>2 DEF Holds
    <3> QED
      BY <2>1, <3>2, <3>3
  <2>2. CASE ~en
    <3>1. A = StopService(o) /\ XA = {Entry("stopEach", o, Nil), Entry("enable", o, FALSE)}
      BY <2>2
    <3> HIDE DEF A, XA
    <3>2. A \in Seq(Entries) /\ Len(A) = 2 /\ A[1] = Entry("stopEach", o, Nil)
          /\ A[2] = Entry("enable", o, FALSE)
      BY <1>1, <3>1, ServiceWork
    <3>3. 1..Len(A) = {1, 2}
      BY <3>2
    <3>4. Holds(A, XA)
      BY <3>1, <3>2, <3>3 DEF Holds
    <3> QED
      BY <2>2, <3>1, <3>2, <3>4
  <2> QED
    BY <2>1, <2>2
<1>9. FrontWork(o, en, fs) = XA \cup XB \cup XC \cup XD
  BY DEF FrontWork
<1>10. E \in Seq(Entries) /\ Len(E) = 3 /\ E[1] = Entry("setRoutes", o, kept \cup new)
       /\ E[2] = Entry("ensureEach", o, Nil) /\ E[3] = Entry("rekey", o, j)
  BY <1>5
<1>11. ~en => A[1] = Entry("stopEach", o, Nil) /\ A[2] = Entry("enable", o, FALSE)
  BY <1>1, <1>8, ServiceWork
<1>12. \A x \in XB \cup XC \cup XD : x.do \in {"update", "stopIf", "startIf"}
  BY DEF Entry
<1> HIDE DEF A, B, C, D, E, XA, XB, XC, XD, kept, gone, new
<1> DEFINE F == B \o C \o D  G == A \o B \o C \o D
<1>13. Holds(F, XB \cup XC \cup XD) /\ Holds(G, XA \cup XB \cup XC \cup XD)
  <2>1. Holds(B \o C, XB \cup XC) /\ Holds(A \o B, XA \cup XB)
    BY <1>7, <1>8, HoldsConcat
  <2>2. Holds(A \o B \o C, XA \cup XB \cup XC)
    BY <1>7, <2>1, HoldsConcat
  <2> QED
    BY <1>7, <2>1, <2>2, HoldsConcat
<1>14. G = A \o F
  <2>1. A \in Seq(Entries) /\ B \in Seq(Entries) /\ C \in Seq(Entries) /\ D \in Seq(Entries)
    BY <1>7, <1>8 DEF Holds
  <2>2. B \o C \in Seq(Entries)
    BY <2>1
  <2>3. A \o (B \o C) = (A \o B) \o C
    BY <2>1, ConcatAssoc, SMTT(30)
  <2>4. A \o ((B \o C) \o D) = (A \o (B \o C)) \o D
    BY <2>1, <2>2, ConcatAssoc, SMTT(30)
  <2> QED
    BY <2>3, <2>4
<1> HIDE DEF F, G
<1>15. UpdateWork(o, j, en, fs) = G \o E
  BY <1>6 DEF G
<1> DEFINE q == G \o E  m == Len(G) + 1
<1> HIDE DEF q
<1>16. G \in Seq(Entries) /\ F \in Seq(Entries) /\ A \in Seq(Entries) /\ Len(G) \in Nat /\ Len(F) \in Nat
  BY <1>8, <1>13 DEF Holds
<1>17. /\ q \in Seq(Entries) /\ Len(q) = Len(G) + 3
       /\ \A n \in 1..Len(G) : q[n] = G[n]
       /\ \A n \in 1..3 : q[Len(G) + n] = E[n]
  <2>2. /\ G \o E \in Seq(Entries) /\ Len(G \o E) = Len(G) + Len(E)
        /\ \A n \in 1..Len(G) : (G \o E)[n] = G[n]
        /\ \A n \in 1..Len(E) : (G \o E)[Len(G) + n] = E[n]
    <3>1. G \in Seq(Entries) /\ E \in Seq(Entries)
      BY <1>10, <1>16
    <3> QED
      BY <3>1
  <2> QED
    BY <1>10, <2>2 DEF q
<1>18. Len(G) = Len(A) + Len(F) /\ (\A n \in 1..Len(A) : G[n] = A[n])
       /\ \A n \in Len(A) + 1..Len(A) + Len(F) : G[n] = F[n - Len(A)]
  BY <1>14, <1>16, ConcatItems
<1>19. ~en => /\ m > 2 /\ q[1] = Entry("stopEach", o, Nil) /\ q[2] = Entry("enable", o, FALSE)
              /\ \A n \in 3..m - 1 : q[n].do \in {"update", "stopIf", "startIf"}
  <2> SUFFICES ASSUME ~en
               PROVE  /\ m > 2 /\ q[1] = Entry("stopEach", o, Nil) /\ q[2] = Entry("enable", o, FALSE)
                      /\ \A n \in 3..m - 1 : q[n].do \in {"update", "stopIf", "startIf"}
    OBVIOUS
  <2>1. Len(A) = 2 /\ Len(G) = 2 + Len(F)
    BY <1>8, <1>18
  <2>2. q[1] = A[1] /\ q[2] = A[2] /\ m > 2
    BY <2>1, <1>16, <1>17, <1>18
  <2>3. ASSUME NEW n \in 3..m - 1 PROVE q[n].do \in {"update", "stopIf", "startIf"}
    <3>1. q[n] = F[n - 2] /\ n - 2 \in 1..Len(F)
      BY <2>1, <2>3, <1>16, <1>17, <1>18
    <3>2. F[n - 2] \in XB \cup XC \cup XD
      BY <3>1, <1>13 DEF Holds
    <3> QED
      BY <3>1, <3>2, <1>12
  <2> QED
    BY <2>2, <2>3, <1>11
<1>20. /\ \A n \in 1..m - 1 : q[n] \in FrontWork(o, en, fs)
       /\ \A x \in FrontWork(o, en, fs) : \E n \in 1..m - 1 : q[n] = x
  <2>1. m - 1 = Len(G)
    BY <1>16
  <2>2. /\ \A n \in 1..Len(G) : G[n] \in FrontWork(o, en, fs)
        /\ \A x \in FrontWork(o, en, fs) : \E n \in 1..Len(G) : G[n] = x
    BY <1>9, <1>13, Zenon DEF Holds
  <2>3. \A n \in 1..Len(G) : q[n] = G[n]
    BY <1>17
  <2> HIDE DEF m
  <2> QED
    BY <2>1, <2>2, <2>3, Zenon
<1>21. q[m] = Entry("setRoutes", o, kept \cup new) /\ q[m + 1] = Entry("ensureEach", o, Nil)
       /\ q[m + 2] = Entry("rekey", o, j) /\ m \in Nat \ {0} /\ Len(q) = m + 2
  BY <1>10, <1>16, <1>17
<1>22. UpdateShape(q, m, o, j, en, fs)
  BY <1>17, <1>19, <1>20, <1>21 DEF UpdateShape, kept, new
<1> QED
  BY <1>15, <1>21, <1>22 DEF q

\* A call begins, with this to do.
Begun(c, X) ==
  /\ Left(c)' = X /\ Ordered(c)'
  /\ OthersWait(c) /\ todo' \in [Callers -> Seq(Entries)]

LEMMA BeginSets ==
  ASSUME TypeOK, NEW c \in Callers, NEW q \in Seq(Entries), Begin(c, q)
  PROVE  /\ todo'[c] = q /\ Pos(c)' = 1..Len(q) /\ Left(c)' = {q[n] : n \in 1..Len(q)}
         /\ OthersWait(c) /\ todo' \in [Callers -> Seq(Entries)]
<1>1. todo' \in [Callers -> Seq(Entries)] /\ todo'[c] = q /\ OthersWait(c)
  BY DEF TypeOK, Begin, OthersWait
<1> QED
  BY <1>1 DEF Pos, Left

\* Nothing that the order is about.
LEMMA PlainOrdered ==
  ASSUME NEW c \in Callers,
         \A n \in Pos(c)' : todo'[c][n].do \notin {"rekey", "delete", "setRoutes"}
  PROVE  Ordered(c)'
  BY DEF Ordered

StartPair(o) == {Entry("startEach", o, Nil), Entry("enable", o, TRUE)}
StopPair(o)  == {Entry("stopEach", o, Nil), Entry("enable", o, FALSE)}

LEMMA PairBegun ==
  ASSUME TypeOK, NEW c \in Callers, NEW q \in Seq(Entries), Begin(c, q), Len(q) = 2,
         q[1].do \notin {"rekey", "delete", "setRoutes"}, q[2].do \notin {"rekey", "setRoutes"}
  PROVE  Begun(c, {q[1], q[2]})
<1>1. 1..Len(q) = {1, 2}
  OBVIOUS
<1>2. /\ todo'[c] = q /\ Pos(c)' = {1, 2} /\ Left(c)' = {q[1], q[2]}
      /\ OthersWait(c) /\ todo' \in [Callers -> Seq(Entries)]
  BY <1>1, BeginSets
<1>3. Ordered(c)'
  BY <1>2 DEF Ordered
<1> QED
  BY <1>2, <1>3 DEF Begun

LEMMA ServiceBegun ==
  ASSUME TypeOK, NEW c \in Callers, NEW o \in Nat
  PROVE  /\ Begin(c, StartService(o)) => Begun(c, StartPair(o))
         /\ Begin(c, StopService(o)) => Begun(c, StopPair(o))
<1>1. /\ StartService(o) \in Seq(Entries) /\ Len(StartService(o)) = 2
      /\ StartService(o)[1] = Entry("startEach", o, Nil) /\ StartService(o)[2] = Entry("enable", o, TRUE)
      /\ StopService(o) \in Seq(Entries) /\ Len(StopService(o)) = 2
      /\ StopService(o)[1] = Entry("stopEach", o, Nil) /\ StopService(o)[2] = Entry("enable", o, FALSE)
  BY ServiceWork
<1>2. /\ Entry("startEach", o, Nil).do = "startEach" /\ Entry("enable", o, TRUE).do = "enable"
      /\ Entry("stopEach", o, Nil).do = "stopEach" /\ Entry("enable", o, FALSE).do = "enable"
  BY DEF Entry
<1>3. ASSUME Begin(c, StartService(o)) PROVE Begun(c, StartPair(o))
  <2>1. /\ StartService(o)[1].do \notin {"rekey", "delete", "setRoutes"}
        /\ StartService(o)[2].do \notin {"rekey", "setRoutes"}
    BY <1>1, <1>2
  <2>2. Begun(c, {StartService(o)[1], StartService(o)[2]})
    BY <1>1, <1>3, <2>1, PairBegun
  <2> QED
    BY <1>1, <2>2 DEF StartPair
<1>4. ASSUME Begin(c, StopService(o)) PROVE Begun(c, StopPair(o))
  <2>1. /\ StopService(o)[1].do \notin {"rekey", "delete", "setRoutes"}
        /\ StopService(o)[2].do \notin {"rekey", "setRoutes"}
    BY <1>1, <1>2
  <2>2. Begun(c, {StopService(o)[1], StopService(o)[2]})
    BY <1>1, <1>4, <2>1, PairBegun
  <2> QED
    BY <1>1, <2>2 DEF StopPair
<1> QED
  BY <1>3, <1>4

LEMMA NothingBegun ==
  ASSUME TypeOK, NEW c \in Callers, Begin(c, << >>)
  PROVE  Begun(c, {})
<1>1. << >> \in Seq(Entries) /\ 1..Len(<< >>) = {}
  OBVIOUS
<1>2. /\ Pos(c)' = {} /\ Left(c)' = {} /\ OthersWait(c) /\ todo' \in [Callers -> Seq(Entries)]
  BY <1>1, BeginSets
<1> QED
  BY <1>2, PlainOrdered DEF Begun

LEMMA RemoveBegun ==
  ASSUME TypeOK, NEW c \in Callers, NEW i \in Ids, Begin(c, RemoveWork(i))
  PROVE  Begun(c, {Entry("stopEach", services[i], Nil), Entry("delete", services[i], i)})
<1> DEFINE x == Entry("stopEach", services[i], Nil)  y == Entry("delete", services[i], i)
<1>1. services[i] \in Nat
  BY DEF TypeOK
<1>2. x \in Entries /\ y \in Entries /\ x.do = "stopEach" /\ y.do = "delete"
  BY <1>1, EntryType, ValueType DEF OnService
<1>3. RemoveWork(i) = <<x, y>>
  BY DEF RemoveWork
<1> HIDE DEF x, y
<1>4. /\ <<x, y>> \in Seq(Entries) /\ Len(<<x, y>>) = 2 /\ <<x, y>>[1] = x /\ <<x, y>>[2] = y
  BY <1>2
<1>5. Begun(c, {<<x, y>>[1], <<x, y>>[2]})
  <2>1. Begin(c, <<x, y>>)
    BY <1>3
  <2> QED
    BY <1>2, <1>4, <2>1, PairBegun
<1> QED
  BY <1>4, <1>5 DEF x, y

\* What an update replaces the routes with, and then goes on to do.
BackWork(o, j, fs) ==
  {Entry("setRoutes", o, KeptRoutes(o, fs) \cup MadeRoutes(o, fs)),
   Entry("ensureEach", o, Nil), Entry("rekey", o, j)}

LEMMA FrontKinds ==
  ASSUME NEW o, NEW en, NEW fs
  PROVE  \A x \in FrontWork(o, en, fs) : x.do \in Early
  BY DEF FrontWork, Entry, Early

LEMMA UpdateBegun ==
  ASSUME TypeOK, NEW c \in Callers, NEW o \in AllObjs, NEW j \in Ids, NEW en \in BOOLEAN,
         NEW fs \in SUBSET Cfgs, Begin(c, UpdateWork(o, j, en, fs))
  PROVE  Begun(c, FrontWork(o, en, fs) \cup BackWork(o, j, fs))
<1> DEFINE q == UpdateWork(o, j, en, fs)  F == FrontWork(o, en, fs)  G == BackWork(o, j, fs)
<1>1. PICK m \in Nat : UpdateShape(q, m, o, j, en, fs)
  BY UpdateItems
<1>2. /\ q \in Seq(Entries) /\ m \in Nat \ {0} /\ Len(q) = m + 2
      /\ G = {q[m], q[m + 1], q[m + 2]}
      /\ \A n \in 1..m - 1 : q[n] \in F
      /\ \A x \in F : \E n \in 1..m - 1 : q[n] = x
  BY <1>1 DEF UpdateShape, BackWork
<1>3. q[m].do = "setRoutes" /\ q[m + 1].do = "ensureEach" /\ q[m + 2].do = "rekey"
  BY <1>1 DEF UpdateShape, Entry
<1>4. Begin(c, q)
  OBVIOUS
<1>5. \A x \in F : x.do \in Early
  BY FrontKinds
<1> HIDE DEF q, F, G
<1>6. /\ todo'[c] = q /\ Pos(c)' = 1..Len(q) /\ Left(c)' = {q[n] : n \in 1..Len(q)}
      /\ OthersWait(c) /\ todo' \in [Callers -> Seq(Entries)]
  BY <1>2, <1>4, BeginSets
<1>7. \A n \in 1..Len(q) : n \in 1..m - 1 \/ n = m \/ n = m + 1 \/ n = m + 2
  BY <1>2
<1>8. 1..m - 1 \subseteq 1..Len(q) /\ m \in 1..Len(q) /\ m + 1 \in 1..Len(q) /\ m + 2 \in 1..Len(q)
  BY <1>2
<1>9. {q[n] : n \in 1..Len(q)} = F \cup G
  <2>1. \A n \in 1..Len(q) : q[n] \in F \cup G
    BY <1>2, <1>7
  <2>2. \A x \in F \cup G : \E n \in 1..Len(q) : q[n] = x
    BY <1>2, <1>8
  <2> QED
    BY <2>1, <2>2
<1>10. \A n \in 1..m - 1 : q[n].do \in Early
  BY <1>2, <1>5
<1>11. ASSUME NEW n \in 1..Len(q), q[n].do \in {"rekey", "delete"} PROVE n = Len(q)
  BY <1>2, <1>3, <1>7, <1>10, <1>11 DEF Early
<1>12. ASSUME NEW n \in 1..Len(q), q[n].do = "setRoutes", NEW k \in 1..Len(q)
       PROVE  (k < n => q[k].do \in Early) /\ (k > n => q[k].do \in Late)
  <2>1. n = m
    BY <1>3, <1>7, <1>10, <1>12 DEF Early
  <2>2. k < m => k \in 1..m - 1
    BY <1>2
  <2>3. k > m => k = m + 1 \/ k = m + 2
    BY <1>2
  <2> QED
    BY <2>1, <2>2, <2>3, <1>3, <1>10 DEF Late
<1>13. Ordered(c)'
  BY <1>6, <1>11, <1>12 DEF Ordered
<1> QED
  BY <1>6, <1>9, <1>13 DEF Begun, F, G

\* Halves of the numbers up to twice k.
LEMMA Halves ==
  ASSUME NEW k \in Nat
  PROVE  /\ \A n \in 1..2 * k : n % 2 = 1 => (n + 1) \div 2 \in 1..k
         /\ \A n \in 1..2 * k : n % 2 # 1 => n \div 2 \in 1..k
         /\ \A m \in 1..k : /\ 2 * m \in 1..2 * k /\ 2 * m - 1 \in 1..2 * k
                            /\ (2 * m) % 2 # 1 /\ (2 * m - 1) % 2 = 1
                            /\ (2 * m) \div 2 = m /\ ((2 * m - 1) + 1) \div 2 = m
  OBVIOUS

\* A service's two things to do, for each in a sequence of k services.
Turns(k, q, do, v) ==
  [n \in 1..2 * k |-> IF n % 2 = 1 THEN Entry(do, q[(n + 1) \div 2], Nil)
                                   ELSE Entry("enable", q[n \div 2], v)]

AllPairs(do, v, S) == {Entry(do, o, Nil) : o \in S} \cup {Entry("enable", o, v) : o \in S}

LEMMA TurnItems ==
  \A k \in Nat : \A T \in SUBSET Nat : \A q \in [1..k -> T] :
    \A do \in {"startEach", "stopEach"} : \A v \in Values :
      \E S \in SUBSET T :
        /\ Turns(k, q, do, v) \in Seq(Entries)
        /\ {Turns(k, q, do, v)[n] : n \in 1..Len(Turns(k, q, do, v))} = AllPairs(do, v, S)
<1> SUFFICES ASSUME NEW k \in Nat, NEW T \in SUBSET Nat, NEW q \in [1..k -> T],
                    NEW do \in {"startEach", "stopEach"}, NEW v \in Values
             PROVE  \E S \in SUBSET T :
                      /\ Turns(k, q, do, v) \in Seq(Entries)
                      /\ {Turns(k, q, do, v)[n] : n \in 1..Len(Turns(k, q, do, v))} = AllPairs(do, v, S)
  OBVIOUS
<1> DEFINE w == Turns(k, q, do, v)
<1>0. w = [n \in 1..2 * k |-> IF n % 2 = 1 THEN Entry(do, q[(n + 1) \div 2], Nil)
                                           ELSE Entry("enable", q[n \div 2], v)]
  BY DEF Turns
<1> HIDE DEF w
<1> DEFINE S == {q[m] : m \in 1..k}
           X == {Entry(do, o, Nil) : o \in S}  Y == {Entry("enable", o, v) : o \in S}
<1>1. S \subseteq T /\ S \subseteq Nat
  OBVIOUS
<1>2. v \in Values /\ Nil \in Values /\ do \in OnService /\ "enable" \in OnService
  BY ValueType DEF OnService
<1>3. \A o \in S : Entry(do, o, Nil) \in Entries /\ Entry("enable", o, v) \in Entries
  BY <1>1, <1>2, EntryType
<1>4. ASSUME NEW n \in 1..2 * k PROVE w[n] \in X \cup Y
  <2>1. CASE n % 2 = 1
    BY <1>0, <2>1, Halves
  <2>2. CASE n % 2 # 1
    BY <1>0, <2>2, Halves
  <2> QED
    BY <2>1, <2>2
<1>5. ASSUME NEW m \in 1..k
      PROVE  /\ \E n \in 1..2 * k : w[n] = Entry(do, q[m], Nil)
             /\ \E n \in 1..2 * k : w[n] = Entry("enable", q[m], v)
  <2>1. w[2 * m - 1] = Entry(do, q[m], Nil)
    BY <1>0, Halves
  <2>2. w[2 * m] = Entry("enable", q[m], v)
    BY <1>0, Halves
  <2> QED
    BY <2>1, <2>2, Halves
<1>6. w = [n \in 1..2 * k |-> w[n]]
  BY <1>0
<1>7. X \subseteq Entries /\ Y \subseteq Entries
  BY <1>3
<1>8. \A x \in X \cup Y : \E n \in 1..2 * k : w[n] = x
  BY <1>5
<1> HIDE DEF X, Y, S
<1>9. w \in Seq(Entries) /\ Len(w) = 2 * k
  <2>1. w \in [1..2 * k -> Entries]
    BY <1>4, <1>6, <1>7
  <2> QED
    BY <2>1
<1>10. {w[n] : n \in 1..Len(w)} = X \cup Y
  BY <1>4, <1>8, <1>9
<1> QED
  BY <1>1, <1>9, <1>10 DEF X, Y, AllPairs, w

\* StartAll and StopAll go through some sequence of the stored services.
LEMMA StoredObjs ==
  ASSUME TypeOK
  PROVE  Stored \subseteq AllObjs /\ Stored \subseteq Nat /\ Cardinality(Stored) \in Nat
<1>1. Len(id) \in Nat
  BY DEF TypeOK
<1>2. Stored \subseteq AllObjs /\ AllObjs \subseteq Nat
  BY <1>1 DEF TypeOK, Stored, AllObjs, Nil
<1>3. IsFiniteSet(Stored)
  <2>1. IsFiniteSet(AllObjs)
    BY <1>1, FS_Interval DEF AllObjs
  <2> QED
    BY <1>2, <2>1, FS_Subset
<1> QED
  BY <1>2, <1>3, FS_CardinalityType

\* StartAll and StopAll go through some sequence of the stored services.
LEMMA AllBegun ==
  ASSUME TypeOK, NEW c \in Callers, NEW q \in SetToSeqs(Stored)
  PROVE  /\ Begin(c, InTurn(q, StartService)) =>
              \E S \in SUBSET Stored : Begun(c, AllPairs("startEach", TRUE, S))
         /\ Begin(c, InTurn(q, StopService)) =>
              \E S \in SUBSET Stored : Begun(c, AllPairs("stopEach", FALSE, S))
<1> DEFINE k == Cardinality(Stored)
<1>1. k \in Nat /\ q \in [1..k -> Stored] /\ Stored \in SUBSET Nat
  BY StoredObjs DEF SetToSeqs
<1>2. Len(q) = k
  BY <1>1
<1> HIDE DEF k
<1>3. /\ \A n \in 1..2 * k : n % 2 = 1 => q[(n + 1) \div 2] \in Nat
      /\ \A n \in 1..2 * k : n % 2 # 1 => q[n \div 2] \in Nat
  BY <1>1, Halves
<1> DEFINE a == Turns(k, q, "startEach", TRUE)  b == Turns(k, q, "stopEach", FALSE)
<1>4. InTurn(q, StartService) = a
  <2>1. InTurn(q, StartService) =
          [n \in 1..2 * k |-> IF n % 2 = 1 THEN StartService(q[(n + 1) \div 2])[1]
                                           ELSE StartService(q[n \div 2])[2]]
    BY <1>2 DEF InTurn
  <2> QED
    BY <1>3, <2>1, ServiceWork DEF Turns
<1>5. InTurn(q, StopService) = b
  <2>1. InTurn(q, StopService) =
          [n \in 1..2 * k |-> IF n % 2 = 1 THEN StopService(q[(n + 1) \div 2])[1]
                                           ELSE StopService(q[n \div 2])[2]]
    BY <1>2 DEF InTurn
  <2> QED
    BY <1>3, <2>1, ServiceWork DEF Turns
<1>6. \A do \in {"startEach", "stopEach"} : \A v \in Values : \E S \in SUBSET Stored :
        /\ Turns(k, q, do, v) \in Seq(Entries)
        /\ {Turns(k, q, do, v)[n] : n \in 1..Len(Turns(k, q, do, v))} = AllPairs(do, v, S)
  <2>1. k \in Nat /\ Stored \in SUBSET Nat /\ q \in [1..k -> Stored]
    BY <1>1
  <2> QED
    BY <2>1, TurnItems, Zenon
<1>7. /\ \E S \in SUBSET Stored :
           a \in Seq(Entries) /\ {a[n] : n \in 1..Len(a)} = AllPairs("startEach", TRUE, S)
      /\ \E S \in SUBSET Stored :
           b \in Seq(Entries) /\ {b[n] : n \in 1..Len(b)} = AllPairs("stopEach", FALSE, S)
  BY <1>6, ValueType, Zenon
<1> HIDE DEF a, b
<1>8. \A do \in {"startEach", "stopEach"} : \A v, S : \A e \in AllPairs(do, v, S) :
        e.do \notin {"rekey", "delete", "setRoutes"}
  BY DEF AllPairs, Entry
<1>9. ASSUME NEW do \in {"startEach", "stopEach"}, NEW v, NEW S, NEW w \in Seq(Entries),
             {w[n] : n \in 1..Len(w)} = AllPairs(do, v, S), Begin(c, w)
      PROVE  Begun(c, AllPairs(do, v, S))
  <2>1. /\ todo'[c] = w /\ Pos(c)' = 1..Len(w) /\ Left(c)' = {w[n] : n \in 1..Len(w)}
        /\ OthersWait(c) /\ todo' \in [Callers -> Seq(Entries)]
    BY <1>9, BeginSets
  <2>2. \A n \in Pos(c)' : todo'[c][n].do \notin {"rekey", "delete", "setRoutes"}
    BY <1>8, <1>9, <2>1
  <2> QED
    BY <1>9, <2>1, <2>2, PlainOrdered DEF Begun
<1> QED
  BY <1>4, <1>5, <1>7, <1>9

-----------------------------------------------------------------------------
(* Type correctness. *)

LEMMA EntriesStay ==
  ASSUME TypeOK, NEW c \in Callers, OthersWait(c),
         Len(id)' \in Nat, Len(id) <= Len(id)', Len(cfg)' \in Nat, Len(cfg) <= Len(cfg)',
         \A e \in Left(c)' : e \in Left(c) \/ EntryOK(e)'
  PROVE  \A d \in Callers : \A e \in Left(d)' : EntryOK(e)'
<1> SUFFICES ASSUME NEW d \in Callers, NEW e \in Left(d)' PROVE EntryOK(e)'
  OBVIOUS
<1>1. \A f : EntryOK(f) => EntryOK(f)'
  BY EntryStays
<1>2. CASE d = c
  BY <1>1, <1>2 DEF TypeOK
<1>3. CASE d # c
  <2>1. todo'[d] = todo[d]
    BY <1>3 DEF OthersWait
  <2>2. e \in Left(d)
    BY <2>1 DEF Left, Pos
  <2> QED
    BY <2>2, <1>1 DEF TypeOK
<1> QED
  BY <1>2, <1>3

LEMMA PairOK ==
  ASSUME NEW o \in AllObjs'
  PROVE  \A e \in StartPair(o) \cup StopPair(o) : EntryOK(e)'
<1>1. ASSUME NEW do \in {"startEach", "stopEach"} PROVE EntryOK(Entry(do, o, Nil))'
  BY DEF EntryOK, Entry, OnRoute
<1>2. ASSUME NEW v \in {TRUE, FALSE} PROVE EntryOK(Entry("enable", o, v))'
  BY DEF EntryOK, Entry, OnRoute
<1> QED
  BY <1>1, <1>2 DEF StartPair, StopPair

LEMMA CreateTyped ==
  ASSUME TypeOK, NEW c \in Callers, NEW i \in Ids, NEW en \in BOOLEAN, NEW fs \in SUBSET Cfgs,
         Create(c, i, en, fs), orderly' \in BOOLEAN
  PROVE  /\ TypeOK' /\ Ordered(c)' /\ OthersWait(c)
         /\ Left(c)' = {} \/ Left(c)' = StartPair(Len(id) + 1)
<1> DEFINE o == Len(id) + 1
<1>1. Len(id) \in Nat /\ o \in Nat /\ Len(cfg) \in Nat
  BY DEF TypeOK
<1>2. /\ id' \in Seq(Ids) /\ Len(id)' = o
  BY <1>1 DEF Create, TypeOK
<1>3. /\ Cardinality(fs) \in Nat /\ Len(cfg)' = Len(cfg) + Cardinality(fs)
      /\ cfg' \in Seq(Cfgs) /\ up' \in Seq(BOOLEAN) /\ Len(up)' = Len(cfg)'
      /\ Numbers(fs) = AllRoutes' \ AllRoutes
  BY NewRoutesType DEF Create
<1>4. enabled' \in Seq(BOOLEAN) /\ Len(enabled') = o
  <2> DEFINE Flag == BOOLEAN
  <2>1. enabled \in Seq(Flag) /\ en \in Flag /\ Len(enabled) = Len(id) /\ enabled' = Append(enabled, en)
    BY DEF TypeOK, Create
  <2> HIDE DEF Flag
  <2>2. enabled' \in Seq(Flag) /\ Len(enabled') = o
    BY <2>1, <1>1
  <2> QED
    BY <2>2 DEF Flag
<1>5. AllRoutes \subseteq AllRoutes'
  BY <1>1, <1>3 DEF AllRoutes
<1>6. routes' \in Seq(SUBSET AllRoutes') /\ Len(routes') = o
  <2> DEFINE S == SUBSET AllRoutes  T == SUBSET AllRoutes'
  <2>1. routes \in Seq(S) /\ S \subseteq T /\ Numbers(fs) \in T /\ Len(routes) = Len(id)
        /\ routes' = Append(routes, Numbers(fs))
    BY <1>3, <1>5 DEF TypeOK, Create
  <2> HIDE DEF S, T
  <2>2. routes' \in Seq(T) /\ Len(routes') = o
    BY <2>1, <1>1
  <2> QED
    BY <2>2 DEF T
<1>7. services' \in [Ids -> 0..o]
  <2>1. services \in [Ids -> 0..Len(id)] /\ services' = [services EXCEPT ![i] = o]
    BY DEF TypeOK, Create
  <2> HIDE DEF o
  <2>2. o = Len(id) + 1
    BY DEF o
  <2> QED
    BY <2>1, <2>2, <1>1
<1>8. \E X \in {{}, StartPair(o)} : Begun(c, X)
  BY <1>1, NothingBegun, ServiceBegun DEF Create
<1>9. \A e \in Left(c)' : EntryOK(e)'
  <2>1. o \in AllObjs'
    BY <1>1, <1>2 DEF AllObjs
  <2> QED
    BY <1>8, <2>1, PairOK DEF Begun
<1>10. \A d \in Callers : \A e \in Left(d)' : EntryOK(e)'
  <2>1. /\ Len(id)' \in Nat /\ Len(id) <= Len(id)' /\ Len(cfg)' \in Nat /\ Len(cfg) <= Len(cfg)'
    BY <1>1, <1>2, <1>3
  <2> QED
    BY <1>8, <1>9, <2>1, EntriesStay DEF Begun
<1>11. writer' \in Callers \cup {Nobody} /\ readers' \subseteq Callers /\ orderly' \in BOOLEAN
  BY DEF TypeOK, Create, Lock
<1> QED
  BY <1>2, <1>3, <1>4, <1>6, <1>7, <1>8, <1>10, <1>11 DEF TypeOK, Begun

\* The routes an update makes are those NewRoutes makes.
LEMMA MadeAreNew ==
  ASSUME TypeOK, NEW o \in AllObjs, NEW fs \in SUBSET Cfgs, NewRoutes(fs \ {cfg[r] : r \in routes[o]})
  PROVE  /\ MadeRoutes(o, fs) = AllRoutes' \ AllRoutes
         /\ KeptRoutes(o, fs) \subseteq routes[o] /\ routes[o] \subseteq AllRoutes
         /\ AllRoutes \subseteq AllRoutes' /\ Len(cfg) \in Nat /\ Len(cfg)' \in Nat /\ Len(cfg) <= Len(cfg)'
<1> DEFINE g == fs \ {cfg[r] : r \in routes[o]}
<1>1. g = fs \ {cfg[r] : r \in KeptRoutes(o, fs)}
  BY DEF KeptRoutes
<1>2. MadeRoutes(o, fs) = Numbers(g)
  BY <1>1 DEF MadeRoutes
<1>3. g \in SUBSET Cfgs /\ NewRoutes(g)
  OBVIOUS
<1> HIDE DEF g
<1>4. /\ Cardinality(g) \in Nat /\ Len(cfg) \in Nat /\ Len(cfg)' = Len(cfg) + Cardinality(g)
      /\ Numbers(g) = AllRoutes' \ AllRoutes
  BY <1>3, NewRoutesType
<1>5. routes[o] \subseteq AllRoutes
  BY DEF TypeOK, AllObjs
<1>6. AllRoutes \subseteq AllRoutes'
  BY <1>4 DEF AllRoutes
<1> QED
  BY <1>2, <1>4, <1>5, <1>6 DEF KeptRoutes

LEMMA UpdateTyped ==
  ASSUME TypeOK, NEW c \in Callers, NEW i \in Ids, NEW j \in Ids, NEW en \in BOOLEAN,
         NEW fs \in SUBSET Cfgs, Update(c, i, j, en, fs), orderly' \in BOOLEAN
  PROVE  /\ TypeOK' /\ services[i] \in AllObjs
         /\ Begun(c, FrontWork(services[i], en, fs) \cup BackWork(services[i], j, fs))
<1>0. PICK o \in AllObjs : o = services[i]
  BY DEF TypeOK, Update, Nil, AllObjs
<1>1. Len(id) \in Nat /\ o \in 1..Len(id) /\ o \in AllObjs
  BY DEF TypeOK, AllObjs
<1>2. /\ MadeRoutes(o, fs) = AllRoutes' \ AllRoutes
      /\ KeptRoutes(o, fs) \subseteq routes[o] /\ routes[o] \subseteq AllRoutes
      /\ AllRoutes \subseteq AllRoutes' /\ Len(cfg)' \in Nat /\ Len(cfg) <= Len(cfg)'
  BY <1>0, <1>1, MadeAreNew DEF Update
<1>3. /\ cfg' \in Seq(Cfgs) /\ up' \in Seq(BOOLEAN) /\ Len(up)' = Len(cfg)'
  <2>1. fs \ {cfg[r] : r \in routes[o]} \in SUBSET Cfgs
    OBVIOUS
  <2> QED
    BY <1>0, <2>1, NewRoutesType DEF Update
<1>4. Begun(c, FrontWork(o, en, fs) \cup BackWork(o, j, fs))
  BY <1>0, <1>1, UpdateBegun DEF Update
<1>5. id' \in Seq(Ids) /\ Len(id') = Len(id)
  <2>1. id \in Seq(Ids) /\ id' = [id EXCEPT ![o] = j]
    BY <1>0 DEF TypeOK, Update
  <2> QED
    BY <1>1, <2>1
<1>6. enabled' \in Seq(BOOLEAN) /\ Len(enabled') = Len(id)
  <2> DEFINE Flag == BOOLEAN
  <2>1. enabled \in Seq(Flag) /\ en \in Flag /\ Len(enabled) = Len(id) /\ enabled' = [enabled EXCEPT ![o] = en]
    BY <1>0 DEF TypeOK, Update
  <2> HIDE DEF Flag
  <2>2. enabled' \in Seq(Flag) /\ Len(enabled') = Len(id)
    BY <2>1, <1>1
  <2> QED
    BY <2>2 DEF Flag
<1>7. routes' \in Seq(SUBSET AllRoutes') /\ Len(routes') = Len(id)
  <2> DEFINE S == SUBSET AllRoutes  T == SUBSET AllRoutes'
  <2>1. routes \in Seq(S) /\ S \subseteq T /\ Len(routes) = Len(id) /\ routes' = routes
    BY <1>2 DEF TypeOK, Update
  <2> HIDE DEF S, T
  <2>2. routes' \in Seq(T)
    BY <2>1
  <2> QED
    BY <2>1, <2>2 DEF T
<1>8. services' \in [Ids -> 0..Len(id)] /\ AllObjs' = AllObjs
  BY <1>5 DEF TypeOK, Update, AllObjs
<1>9. \A e \in FrontWork(o, en, fs) : EntryOK(e)'
  <2> SUFFICES ASSUME NEW e \in FrontWork(o, en, fs) PROVE EntryOK(e)'
    OBVIOUS
  <2>1. CASE e \in StopPair(o)
    BY <1>1, <1>8, <2>1, PairOK
  <2>2. ASSUME NEW r \in AllRoutes' PROVE EntryOK(Entry("update", r, Nil))'
    BY DEF EntryOK, Entry, OnService
  <2>3. ASSUME NEW r \in AllRoutes', NEW do \in {"stopIf", "startIf"} PROVE EntryOK(Entry(do, r, o))'
    BY <1>1, <1>8 DEF EntryOK, Entry, OnService
  <2> QED
    BY <1>2, <2>1, <2>2, <2>3 DEF FrontWork, StopPair
<1>10. \A e \in BackWork(o, j, fs) : EntryOK(e)'
  <2>1. EntryOK(Entry("ensureEach", o, Nil))' /\ EntryOK(Entry("rekey", o, j))'
    BY <1>1, <1>8 DEF EntryOK, Entry, OnRoute
  <2>2. ASSUME NEW R \in SUBSET AllRoutes' PROVE EntryOK(Entry("setRoutes", o, R))'
    BY <1>1, <1>8 DEF EntryOK, Entry, OnRoute
  <2>3. KeptRoutes(o, fs) \cup MadeRoutes(o, fs) \in SUBSET AllRoutes'
    BY <1>2
  <2> QED
    BY <2>1, <2>2, <2>3 DEF BackWork
<1>11. \A d \in Callers : \A e \in Left(d)' : EntryOK(e)'
  <2>1. /\ Len(id)' \in Nat /\ Len(id) <= Len(id)'
    BY <1>1, <1>5
  <2> QED
    BY <1>2, <1>4, <1>9, <1>10, <2>1, EntriesStay DEF Begun
<1>12. writer' \in Callers \cup {Nobody} /\ readers' \subseteq Callers
  BY DEF TypeOK, Update, Lock
<1> QED
  BY <1>0, <1>1, <1>3, <1>4, <1>5, <1>6, <1>7, <1>8, <1>11, <1>12 DEF TypeOK, Begun

\* A step that makes nothing.
LEMMA MakesNothing ==
  ASSUME TypeOK, NEW c \in Callers, UNCHANGED <<services, id, enabled, routes, cfg>>,
         up' \in Seq(BOOLEAN), Len(up') = Len(up), OthersWait(c), todo' \in [Callers -> Seq(Entries)],
         \A e \in Left(c)' : e \in Left(c) \/ EntryOK(e)',
         writer' \in Callers \cup {Nobody}, readers' \subseteq Callers, orderly' \in BOOLEAN
  PROVE  TypeOK'
<1>1. Len(id) \in Nat /\ Len(cfg) \in Nat
  BY DEF TypeOK
<1>2. \A d \in Callers : \A e \in Left(d)' : EntryOK(e)'
  BY <1>1, EntriesStay
<1>3. AllRoutes' = AllRoutes
  BY DEF AllRoutes
<1> QED
  BY <1>2, <1>3 DEF TypeOK

LEMMA RemoveTyped ==
  ASSUME TypeOK, NEW c \in Callers, NEW i \in Ids, RemoveService(c, i), orderly' \in BOOLEAN
  PROVE  /\ TypeOK' /\ services[i] \in AllObjs
         /\ Begun(c, {Entry("stopEach", services[i], Nil), Entry("delete", services[i], i)})
<1>1. services[i] \in AllObjs
  BY DEF TypeOK, RemoveService, AllObjs, Nil
<1>2. Begun(c, {Entry("stopEach", services[i], Nil), Entry("delete", services[i], i)})
  BY RemoveBegun DEF RemoveService
<1>3. ASSUME NEW o \in AllObjs PROVE EntryOK(Entry("stopEach", o, Nil))' /\ EntryOK(Entry("delete", o, i))'
  <2>1. AllObjs' = AllObjs
    BY DEF AllObjs, RemoveService, objVars
  <2> QED
    BY <2>1 DEF EntryOK, Entry, OnRoute, OnService
<1>4. TypeOK'
  <2>1. /\ UNCHANGED <<services, id, enabled, routes, cfg, up>>
        /\ writer' \in Callers \cup {Nobody} /\ readers' \subseteq Callers
        /\ up \in Seq(BOOLEAN)
    BY DEF RemoveService, Lock, objVars, TypeOK
  <2> QED
    BY <1>1, <1>2, <1>3, <2>1, MakesNothing DEF Begun
<1> QED
  BY <1>1, <1>2, <1>4

LEMMA OneTyped ==
  ASSUME TypeOK, NEW c \in Callers, NEW i \in Ids, orderly' \in BOOLEAN
  PROVE  /\ StartOne(c, i) => TypeOK' /\ services[i] \in AllObjs /\ Begun(c, StartPair(services[i]))
         /\ StopOne(c, i) => TypeOK' /\ services[i] \in AllObjs /\ Begun(c, StopPair(services[i]))
<1> SUFFICES ASSUME StartOne(c, i) \/ StopOne(c, i)
             PROVE  /\ TypeOK' /\ services[i] \in AllObjs
                    /\ StartOne(c, i) => Begun(c, StartPair(services[i]))
                    /\ StopOne(c, i) => Begun(c, StopPair(services[i]))
  OBVIOUS
<1>1. services[i] \in AllObjs /\ services[i] \in Nat
  BY DEF TypeOK, StartOne, StopOne, AllObjs, Nil
<1>2. /\ StartOne(c, i) => Begun(c, StartPair(services[i]))
      /\ StopOne(c, i) => Begun(c, StopPair(services[i]))
  BY <1>1, ServiceBegun DEF StartOne, StopOne
<1>3. /\ UNCHANGED <<services, id, enabled, routes, cfg, up, writer, readers>>
      /\ up \in Seq(BOOLEAN) /\ writer' \in Callers \cup {Nobody} /\ readers' \subseteq Callers
  BY DEF StartOne, StopOne, objVars, TypeOK
<1>4. \A e \in Left(c)' : EntryOK(e)'
  <2>1. AllObjs' = AllObjs
    BY <1>3 DEF AllObjs
  <2> QED
    BY <1>1, <1>2, <2>1, PairOK DEF Begun
<1>5. TypeOK'
  BY <1>2, <1>3, <1>4, MakesNothing DEF Begun
<1> QED
  BY <1>1, <1>2, <1>5

LEMMA AllTyped ==
  ASSUME TypeOK, NEW c \in Callers, orderly' \in BOOLEAN
  PROVE  /\ StartAll(c) => TypeOK' /\ \E S \in SUBSET Stored : Begun(c, AllPairs("startEach", TRUE, S))
         /\ StopAll(c) => TypeOK' /\ \E S \in SUBSET Stored : Begun(c, AllPairs("stopEach", FALSE, S))
<1> SUFFICES ASSUME StartAll(c) \/ StopAll(c)
             PROVE  /\ TypeOK'
                    /\ StartAll(c) => \E S \in SUBSET Stored : Begun(c, AllPairs("startEach", TRUE, S))
                    /\ StopAll(c) => \E S \in SUBSET Stored : Begun(c, AllPairs("stopEach", FALSE, S))
  OBVIOUS
<1>1. /\ StartAll(c) => \E S \in SUBSET Stored : Begun(c, AllPairs("startEach", TRUE, S))
      /\ StopAll(c) => \E S \in SUBSET Stored : Begun(c, AllPairs("stopEach", FALSE, S))
  BY AllBegun DEF StartAll, StopAll
<1>2. /\ UNCHANGED <<services, id, enabled, routes, cfg, up>>
      /\ up \in Seq(BOOLEAN) /\ writer' \in Callers \cup {Nobody} /\ readers' \subseteq Callers
  BY DEF StartAll, StopAll, RLock, objVars, TypeOK
<1>3. \A S \in SUBSET Stored : \A e \in AllPairs("startEach", TRUE, S) \cup AllPairs("stopEach", FALSE, S) : EntryOK(e)'
  <2>1. AllObjs' = AllObjs
    BY <1>2 DEF AllObjs
  <2>2. \A o \in Stored : \A e \in StartPair(o) \cup StopPair(o) : EntryOK(e)'
    BY <2>1, StoredObjs, PairOK
  <2> QED
    BY <2>2 DEF AllPairs, StartPair, StopPair
<1>4. \A e \in Left(c)' : EntryOK(e)'
  BY <1>1, <1>3 DEF Begun
<1>5. OthersWait(c) /\ todo' \in [Callers -> Seq(Entries)]
  BY <1>1 DEF Begun
<1>6. TypeOK'
  BY <1>2, <1>4, <1>5, MakesNothing
<1> QED
  BY <1>1, <1>6

LEMMA HeadLeft ==
  ASSUME TypeOK, NEW c \in Callers, todo[c] # << >>
  PROVE  Head(todo[c]) \in Left(c) /\ Head(todo[c]) \in Entries /\ EntryOK(Head(todo[c]))
<1>1. todo[c] \in Seq(Entries)
  BY DEF TypeOK
<1>2. 1 \in Pos(c) /\ Head(todo[c]) = todo[c][1]
  BY <1>1 DEF Pos
<1>3. Head(todo[c]) \in Left(c)
  BY <1>2 DEF Left
<1> QED
  BY <1>3, LeftTyped

LEMMA RouteTyped ==
  ASSUME TypeOK, NEW c \in Callers, RouteStep(c), orderly' \in BOOLEAN
  PROVE  TypeOK' /\ Becomes(c, {}) /\ (Ordered(c) => Ordered(c)')
<1>1. /\ todo[c] # << >> /\ Done(c) /\ UNCHANGED <<services, id, enabled, routes, cfg, writer, readers>>
      /\ up' \in Seq(BOOLEAN) /\ Len(up') = Len(up)
  BY RouteEffect
<1>2. Becomes(c, {})
  BY <1>1, DoneBecomes
<1>3. writer' \in Callers \cup {Nobody} /\ readers' \subseteq Callers
  BY <1>1 DEF TypeOK
<1>4. TypeOK'
  BY <1>1, <1>2, <1>3, MakesNothing DEF Becomes
<1> QED
  BY <1>1, <1>2, <1>4, DoneOrdered

\* A loop begins: its operation on every route of the service.
Unrolls(c, loop, do) ==
  Do(c, loop) /\ On(c) \in AllObjs /\ Becomes(c, {Entry(do, r, Nil) : r \in routes[On(c)]})

Loops(c) ==
  \/ Unrolls(c, "startEach", "start")
  \/ Unrolls(c, "stopEach", "stop")
  \/ Unrolls(c, "ensureEach", "ensure") /\ enabled[On(c)]
  \/ Do(c, "ensureEach") /\ ~enabled[On(c)] /\ Becomes(c, {})

LEMMA LoopTyped ==
  ASSUME TypeOK, NEW c \in Callers, LoopStep(c), orderly' \in BOOLEAN
  PROVE  TypeOK' /\ Loops(c) /\ (Ordered(c) => Ordered(c)')
<1>1. todo[c] # << >> /\ UNCHANGED <<services, id, enabled, routes, cfg, up, writer, readers>>
  BY DEF LoopStep, Do, objVars
<1>2. EntryOK(Head(todo[c])) /\ Head(todo[c]).do \in {"startEach", "stopEach", "ensureEach"}
  BY <1>1, HeadLeft DEF LoopStep, Do
<1>3. On(c) \in AllObjs
  BY <1>2 DEF EntryOK, On, OnService
<1>4. routes[On(c)] \in SUBSET AllRoutes
  BY <1>3 DEF TypeOK, AllObjs
<1>5. ASSUME NEW loop \in OnService, NEW do \in {"start", "stop", "ensure"}, Do(c, loop),
             DoneThen(c, Each(do, routes[On(c)], Nil)), loop \in Early => do \in Early
      PROVE  Unrolls(c, loop, do) /\ (Ordered(c) => Ordered(c)') /\ \A e \in Left(c)' : e \in Left(c) \/ EntryOK(e)'
  <2>1. do \in OnRoute
    BY DEF OnRoute
  <2>2. Becomes(c, {Entry(do, r, Nil) : r \in routes[On(c)]})
    BY <1>1, <1>4, <1>5, <2>1, DoneThenBecomes
  <2>3. Ordered(c) => Ordered(c)'
    BY <1>1, <1>4, <1>5, DoneThenOrdered DEF Do
  <2>4. AllRoutes' = AllRoutes
    BY <1>1 DEF AllRoutes
  <2>5. \A r \in AllRoutes : EntryOK(Entry(do, r, Nil))'
    BY <2>4 DEF EntryOK, Entry, OnService
  <2> QED
    BY <1>3, <1>4, <1>5, <2>2, <2>3, <2>5 DEF Unrolls, Becomes
<1>6. ASSUME Do(c, "ensureEach"), Done(c)
      PROVE  Becomes(c, {}) /\ (Ordered(c) => Ordered(c)') /\ \A e \in Left(c)' : e \in Left(c) \/ EntryOK(e)'
  BY <1>1, <1>6, DoneBecomes, DoneOrdered DEF Becomes
<1>7. Loops(c) /\ (Ordered(c) => Ordered(c)') /\ \A e \in Left(c)' : e \in Left(c) \/ EntryOK(e)'
  <2>1. CASE Do(c, "startEach") /\ DoneThen(c, Each("start", routes[On(c)], Nil))
    BY <1>5, <2>1 DEF Loops, OnService, Early
  <2>2. CASE Do(c, "stopEach") /\ DoneThen(c, Each("stop", routes[On(c)], Nil))
    BY <1>5, <2>2 DEF Loops, OnService, Early
  <2>3. CASE Do(c, "ensureEach") /\ Wanted(On(c)) /\ DoneThen(c, Each("ensure", routes[On(c)], Nil))
    BY <1>5, <2>3 DEF Loops, OnService, Early, Wanted
  <2>4. CASE Do(c, "ensureEach") /\ ~Wanted(On(c)) /\ Done(c)
    BY <1>6, <2>4 DEF Loops, Wanted
  <2> QED
    BY <2>1, <2>2, <2>3, <2>4 DEF LoopStep
<1>8. OthersWait(c) /\ todo' \in [Callers -> Seq(Entries)]
  BY <1>7 DEF Loops, Unrolls, Becomes
<1>9. up' \in Seq(BOOLEAN) /\ Len(up') = Len(up) /\ writer' \in Callers \cup {Nobody} /\ readers' \subseteq Callers
  BY <1>1 DEF TypeOK
<1>10. TypeOK'
  BY <1>1, <1>7, <1>8, <1>9, MakesNothing
<1> QED
  BY <1>7, <1>10

LEMMA ServiceTyped ==
  ASSUME TypeOK, NEW c \in Callers, ServiceStep(c), orderly' \in BOOLEAN
  PROVE  /\ TypeOK' /\ Becomes(c, {}) /\ (Ordered(c) => Ordered(c)')
         /\ todo[c] # << >> /\ Done(c) /\ On(c) \in AllObjs /\ Val(c) = Head(todo[c]).val
<1>1. todo[c] # << >> /\ Done(c) /\ UNCHANGED <<services, id, cfg, up, writer, readers>>
  BY DEF ServiceStep, Do
<1>2. Becomes(c, {}) /\ (Ordered(c) => Ordered(c)')
  BY <1>1, DoneBecomes, DoneOrdered
<1>3. EntryOK(Head(todo[c])) /\ Head(todo[c]).do \in {"enable", "setRoutes"}
  BY <1>1, HeadLeft DEF ServiceStep, Do
<1>4. On(c) \in AllObjs
  BY <1>3 DEF EntryOK, On, OnService
<1>5. Len(id) \in Nat /\ On(c) \in 1..Len(id)
  BY <1>4 DEF AllObjs, TypeOK
<1>6. enabled' \in Seq(BOOLEAN) /\ Len(enabled') = Len(id)
  <2> DEFINE Flag == BOOLEAN
  <2>1. enabled \in Seq(Flag) /\ Len(enabled) = Len(id)
        /\ (enabled' = enabled \/ (\E v \in Flag : enabled' = [enabled EXCEPT ![On(c)] = v]))
    BY <1>3 DEF TypeOK, ServiceStep, Do, EntryOK, Val
  <2> HIDE DEF Flag
  <2>2. enabled' \in Seq(Flag) /\ Len(enabled') = Len(id)
    BY <2>1, <1>5
  <2> QED
    BY <2>2 DEF Flag
<1>7. routes' \in Seq(SUBSET AllRoutes) /\ Len(routes') = Len(id)
  <2> DEFINE S == SUBSET AllRoutes
  <2>1. routes \in Seq(S) /\ Len(routes) = Len(id)
        /\ (routes' = routes \/ (\E v \in S : routes' = [routes EXCEPT ![On(c)] = v]))
    BY <1>3 DEF TypeOK, ServiceStep, Do, EntryOK, Val
  <2> HIDE DEF S
  <2>2. routes' \in Seq(S) /\ Len(routes') = Len(id)
    BY <2>1, <1>5
  <2> QED
    BY <2>2 DEF S
<1>8. AllObjs' = AllObjs /\ AllRoutes' = AllRoutes /\ Len(cfg) \in Nat
  BY <1>1 DEF AllObjs, AllRoutes, TypeOK
<1>9. \A d \in Callers : \A e \in Left(d)' : EntryOK(e)'
  <2>1. Len(id)' = Len(id) /\ Len(cfg)' = Len(cfg) /\ Len(id) \in Nat /\ Len(cfg) \in Nat
    BY <1>1, <1>5, <1>8
  <2>2. /\ Len(id)' \in Nat /\ Len(id) <= Len(id)' /\ Len(cfg)' \in Nat /\ Len(cfg) <= Len(cfg)'
    BY <2>1
  <2>3. OthersWait(c) /\ \A e \in Left(c)' : e \in Left(c)
    BY <1>2 DEF Becomes
  <2> QED
    BY <2>2, <2>3, EntriesStay, Zenon
<1>10. TypeOK'
  BY <1>1, <1>2, <1>6, <1>7, <1>8, <1>9 DEF TypeOK, Becomes
<1> QED
  BY <1>1, <1>2, <1>4, <1>10 DEF Val

LEMMA TableTyped ==
  ASSUME TypeOK, NEW c \in Callers, TableStep(c), orderly' \in BOOLEAN
  PROVE  /\ TypeOK' /\ Becomes(c, {}) /\ (Ordered(c) => Ordered(c)')
         /\ todo[c] # << >> /\ Done(c) /\ On(c) = Head(todo[c]).on /\ Val(c) = Head(todo[c]).val
<1>1. todo[c] # << >> /\ Done(c) /\ UNCHANGED <<id, enabled, routes, cfg, up, writer, readers>>
  BY DEF TableStep, Do, objVars
<1>2. Becomes(c, {}) /\ (Ordered(c) => Ordered(c)')
  BY <1>1, DoneBecomes, DoneOrdered
<1>3. EntryOK(Head(todo[c]))
  BY <1>1, HeadLeft
<1>4. services' \in [Ids -> 0..Len(id)]
  <2>1. CASE Do(c, "rekey") /\ services' = Moved(On(c))
    <3>1. On(c) \in 0..Len(id) /\ id[On(c)] \in Ids
      BY <1>3, <2>1 DEF Do, On, EntryOK, OnService, AllObjs, TypeOK
    <3>2. 0 \in 0..Len(id)
      BY DEF TypeOK
    <3> QED
      BY <2>1, <3>1, <3>2 DEF Moved, TypeOK, Nil
  <2>2. CASE Do(c, "delete") /\ services' = [services EXCEPT ![Val(c)] = Nil]
    <3>1. 0 \in 0..Len(id)
      BY DEF TypeOK
    <3> QED
      BY <2>2, <3>1 DEF TypeOK, Nil
  <2> QED
    BY <2>1, <2>2 DEF TableStep
<1>5. AllObjs' = AllObjs /\ AllRoutes' = AllRoutes /\ Len(cfg) \in Nat /\ Len(id) \in Nat
  BY <1>1 DEF AllObjs, AllRoutes, TypeOK
<1>6. \A d \in Callers : \A e \in Left(d)' : EntryOK(e)'
  <2>1. Len(id)' = Len(id) /\ Len(cfg)' = Len(cfg)
    BY <1>1
  <2> QED
    BY <1>2, <1>5, <2>1, EntriesStay DEF Becomes
<1>7. TypeOK'
  BY <1>1, <1>2, <1>4, <1>5, <1>6 DEF TypeOK, Becomes
<1> QED
  BY <1>1, <1>2, <1>7 DEF On, Val

LEMMA UnlockTyped ==
  ASSUME TypeOK, NEW c \in Callers, Unlock(c), orderly' \in BOOLEAN
  PROVE  TypeOK'
<1>1. UNCHANGED <<services, id, enabled, routes, cfg, up, todo>>
  BY DEF Unlock, objVars
<1>2. writer' \in Callers \cup {Nobody} /\ readers' \subseteq Callers
  BY DEF Unlock, TypeOK
<1>3. \A d \in Callers : Left(d)' = Left(d)
  BY <1>1 DEF Left, Pos
<1>4. Left(c)' = Left(c) /\ OthersWait(c) /\ todo' \in [Callers -> Seq(Entries)]
  BY <1>1, <1>3 DEF OthersWait, TypeOK
<1>5. up' \in Seq(BOOLEAN) /\ Len(up') = Len(up)
  BY <1>1, Zenon DEF TypeOK
<1> QED
  BY <1>1, <1>2, <1>4, <1>5, MakesNothing

-----------------------------------------------------------------------------
(* The keys of the table. *)

Renames(c, o) == \E e \in Left(c) : e.do = "rekey" /\ e.on = o

\* No object is stored twice, and one is under another key than its id only
\* while the caller that holds the lock to write has yet to move it. The others
\* have only things to do that leave the table alone.
KeyInv ==
  /\ \A i, j \in Ids : services[i] = services[j] /\ services[i] # Nil => i = j
  /\ \A c \in Callers : writer # c => \A e \in Left(c) : e.do \in Harmless
  /\ \A c \in Callers : Ordered(c)
  /\ \A c \in Callers : \A e \in Left(c) : e.do = "rekey" => e.on \in Stored
  /\ \A i \in Ids : services[i] # Nil /\ id[services[i]] # i =>
       \E c \in Callers : writer = c /\ Renames(c, services[i])

\* A caller that only waits stays as it is.
LEMMA OthersSame ==
  ASSUME NEW c \in Callers, OthersWait(c), NEW d \in Callers, d # c
  PROVE  Left(d)' = Left(d) /\ (Ordered(d) => Ordered(d)')
<1>1. todo'[d] = todo[d]
  BY DEF OthersWait
<1> QED
  BY <1>1 DEF Left, Pos, Ordered

\* A call that begins while the table and the ids stay.
LEMMA BegunKeepsKeys ==
  ASSUME TypeOK, KeyInv, NEW c \in Callers, NEW X, Begun(c, X), Left(c) = {},
         UNCHANGED services, UNCHANGED id,
         writer' = writer \/ (writer = Nobody /\ writer' = c),
         \A e \in X : e.do # "rekey", writer' # c => \A e \in X : e.do \in Harmless
  PROVE  KeyInv'
<1>1. Left(c)' = X /\ Ordered(c)' /\ OthersWait(c)
  BY DEF Begun
<1>2. \A d \in Callers : d # c => Left(d)' = Left(d) /\ Ordered(d)'
  BY <1>1, OthersSame DEF KeyInv
<1>3. \A i, j \in Ids : services'[i] = services'[j] /\ services'[i] # Nil => i = j
  BY DEF KeyInv
<1>4. ASSUME NEW d \in Callers, writer' # d PROVE \A e \in Left(d)' : e.do \in Harmless
  <2>1. writer # d \/ d = c
    BY <1>4, NobodyAssumption
  <2> QED
    BY <1>1, <1>2, <1>4, <2>1 DEF KeyInv
<1>5. ASSUME NEW d \in Callers, NEW e \in Left(d)', e.do = "rekey" PROVE e.on \in Stored'
  <2>1. d # c /\ e \in Left(d)
    BY <1>1, <1>2, <1>5
  <2> QED
    BY <1>5, <2>1 DEF KeyInv, Stored
<1>6. ASSUME NEW i \in Ids, services'[i] # Nil, id'[services'[i]] # i
      PROVE  \E d \in Callers : writer' = d /\ Renames(d, services[i])'
  <2>1. PICK d \in Callers : writer = d /\ Renames(d, services[i])
    BY <1>6 DEF KeyInv
  <2>2. d # c /\ writer' = d
    BY <2>1, NobodyAssumption DEF Renames
  <2> QED
    BY <2>1, <2>2, <1>2 DEF Renames
<1> QED
  BY <1>1, <1>2, <1>3, <1>4, <1>5, <1>6 DEF KeyInv, Renames

LEMMA CreateKeepsKeys ==
  ASSUME TypeOK, KeyInv, NEW c \in Callers, NEW i \in Ids, NEW en \in BOOLEAN, NEW fs \in SUBSET Cfgs,
         Create(c, i, en, fs), orderly' \in BOOLEAN
  PROVE  KeyInv'
<1> DEFINE o == Len(id) + 1
<1>1. Ordered(c)' /\ OthersWait(c) /\ (Left(c)' = {} \/ Left(c)' = StartPair(o))
  BY CreateTyped
<1>2. Len(id) \in Nat /\ services \in [Ids -> 0..Len(id)] /\ id \in Seq(Ids)
  BY DEF TypeOK
<1>3. PICK n \in Nat : n = Len(id) + 1
  BY <1>2
<1>4. /\ services' = [services EXCEPT ![i] = n] /\ id' = Append(id, i)
      /\ writer = Nobody /\ writer' = c /\ services[i] = Nil
  BY <1>3 DEF Create, Lock
<1>5. /\ n # Nil /\ services'[i] = n /\ id'[n] = i
      /\ \A k \in Ids : k # i => services'[k] = services[k] /\ services[k] # n
      /\ \A k \in Ids : services[k] # Nil => id'[services[k]] = id[services[k]]
  <2>1. n # Nil
    BY <1>2, <1>3 DEF Nil
  <2>2. services'[i] = n /\ \A k \in Ids : k # i => services'[k] = services[k] /\ services[k] # n
    BY <1>2, <1>3, <1>4
  <2>3. id'[n] = i /\ \A p \in 1..Len(id) : id'[p] = id[p]
    BY <1>2, <1>3, <1>4
  <2>4. \A k \in Ids : services[k] # Nil => services[k] \in 1..Len(id)
    BY <1>2 DEF Nil
  <2> QED
    BY <2>1, <2>2, <2>3, <2>4
<1>6. \A d \in Callers : d # c => Left(d)' = Left(d) /\ Ordered(d)'
  BY <1>1, OthersSame DEF KeyInv
<1>7. \A e \in Left(c)' : e.do # "rekey"
  BY <1>1 DEF StartPair, Entry
<1>8. \A k \in Ids : services[k] # Nil => id[services[k]] = k
  BY <1>4, NobodyAssumption DEF KeyInv
<1>9. \A d \in Callers : \A e \in Left(d) : e.do # "rekey"
  BY <1>4, NobodyAssumption DEF KeyInv, Harmless
<1>10. \A k, l \in Ids : services'[k] = services'[l] /\ services'[k] # Nil => k = l
  BY <1>4, <1>5 DEF KeyInv
<1>11. ASSUME NEW d \in Callers, writer' # d PROVE \A e \in Left(d)' : e.do \in Harmless
  BY <1>4, <1>6, <1>11, NobodyAssumption DEF KeyInv
<1>12. \A k \in Ids : services'[k] # Nil => id'[services'[k]] = k
  BY <1>5, <1>8
<1>13. \A d \in Callers : \A e \in Left(d)' : e.do # "rekey"
  BY <1>6, <1>7, <1>9
<1>14. \A d \in Callers : Ordered(d)'
  BY <1>1, <1>6
<1> QED
  BY <1>10, <1>11, <1>12, <1>13, <1>14 DEF KeyInv

LEMMA UpdateKeepsKeys ==
  ASSUME TypeOK, KeyInv, NEW c \in Callers, NEW i \in Ids, NEW j \in Ids, NEW en \in BOOLEAN,
         NEW fs \in SUBSET Cfgs, Update(c, i, j, en, fs), orderly' \in BOOLEAN
  PROVE  KeyInv'
<1>0. PICK o \in AllObjs : o = services[i]
  BY DEF TypeOK, Update, Nil, AllObjs
<1>1. Begun(c, FrontWork(o, en, fs) \cup BackWork(o, j, fs))
  BY <1>0, UpdateTyped
<1>2. Len(id) \in Nat /\ services \in [Ids -> 0..Len(id)] /\ id \in Seq(Ids) /\ o \in 1..Len(id) /\ o # Nil
  BY DEF TypeOK, AllObjs, Nil
<1>3. /\ services' = services /\ id' = [id EXCEPT ![o] = j] /\ writer = Nobody /\ writer' = c
  BY <1>0 DEF Update, Lock
<1>4. \A k \in Ids : services[k] # Nil => id[services[k]] = k
  BY <1>3, NobodyAssumption DEF KeyInv
<1>5. \A p \in 1..Len(id) : p # o => id'[p] = id[p]
  BY <1>2, <1>3
<1>6. \A e \in Left(c)' : e.do = "rekey" => e.on = o
  <2>1. \A e \in BackWork(o, j, fs) : e.do = "rekey" => e.on = o
    BY DEF BackWork, Entry
  <2>2. \A e \in FrontWork(o, en, fs) : e.do # "rekey"
    BY FrontKinds DEF Early
  <2> QED
    BY <1>1, <2>1, <2>2 DEF Begun
<1>7. Renames(c, o)'
  <2>1. Entry("rekey", o, j) \in Left(c)'
    BY <1>1 DEF Begun, BackWork
  <2> QED
    BY <2>1 DEF Renames, Entry
<1>8. \A d \in Callers : d # c => Left(d)' = Left(d) /\ Ordered(d)'
  <2>1. OthersWait(c)
    BY <1>1 DEF Begun
  <2> QED
    BY <2>1, OthersSame DEF KeyInv
<1>9. o \in Stored'
  BY <1>0, <1>2, <1>3 DEF Stored
<1>10. ASSUME NEW k \in Ids, services'[k] # Nil, id'[services'[k]] # k PROVE services'[k] = o
  <2>1. services[k] \in 1..Len(id) /\ id[services[k]] = k
    BY <1>2, <1>3, <1>4, <1>10 DEF Nil
  <2> QED
    BY <1>3, <1>5, <1>10, <2>1
<1>11. ASSUME NEW d \in Callers, writer' # d PROVE \A e \in Left(d)' : e.do \in Harmless
  BY <1>3, <1>8, <1>11, NobodyAssumption DEF KeyInv
<1>12. ASSUME NEW d \in Callers, NEW e \in Left(d)', e.do = "rekey" PROVE e.on \in Stored'
  <2>1. CASE d = c
    BY <1>6, <1>9, <1>12, <2>1
  <2>2. CASE d # c
    BY <1>3, <1>11, <1>12, <2>2 DEF Harmless
  <2> QED
    BY <2>1, <2>2
<1>13. Ordered(c)'
  BY <1>1 DEF Begun
<1>14. \A k, l \in Ids : services'[k] = services'[l] /\ services'[k] # Nil => k = l
  BY <1>3 DEF KeyInv
<1>15. \A k \in Ids : services'[k] # Nil /\ id'[services'[k]] # k =>
         \E d \in Callers : writer' = d /\ Renames(d, services[k])'
  <2> SUFFICES ASSUME NEW k \in Ids, services'[k] # Nil, id'[services'[k]] # k
               PROVE  \E d \in Callers : writer' = d /\ Renames(d, services[k])'
    OBVIOUS
  <2>1. services'[k] = o
    BY <1>10
  <2> QED
    BY <2>1, <1>3, <1>7 DEF Renames
<1>16. \A d \in Callers : Ordered(d)'
  BY <1>8, <1>13
<1> QED
  BY <1>11, <1>12, <1>14, <1>15, <1>16 DEF KeyInv

\* A step that leaves the table and the ids alone, of a caller that has begun.
LEMMA StepKeepsKeys ==
  ASSUME TypeOK, KeyInv, NEW c \in Callers, NEW X, Becomes(c, X), Ordered(c) => Ordered(c)',
         UNCHANGED services, UNCHANGED id, UNCHANGED writer,
         Head(todo[c]).do # "rekey", \A e \in X : e.do # "rekey",
         Head(todo[c]).do \in Harmless => \A e \in X : e.do \in Harmless
  PROVE  KeyInv'
<1>1. /\ Head(todo[c]) \in Left(c) /\ Left(c)' \subseteq Left(c) \cup X /\ OthersWait(c)
      /\ \A e \in Left(c) : e = Head(todo[c]) \/ e \in Left(c)'
  BY DEF Becomes
<1>2. \A d \in Callers : d # c => Left(d)' = Left(d) /\ Ordered(d)'
  BY <1>1, OthersSame DEF KeyInv
<1>3. \A d \in Callers : Ordered(d)'
  BY <1>2 DEF KeyInv
<1>4. ASSUME NEW d \in Callers, writer' # d PROVE \A e \in Left(d)' : e.do \in Harmless
  BY <1>1, <1>2, <1>4 DEF KeyInv
<1>5. ASSUME NEW d \in Callers, NEW e \in Left(d)', e.do = "rekey" PROVE e.on \in Stored'
  BY <1>1, <1>2, <1>5 DEF KeyInv, Stored
<1>6. ASSUME NEW i \in Ids, services'[i] # Nil, id'[services'[i]] # i
      PROVE  \E d \in Callers : writer' = d /\ Renames(d, services[i])'
  <2>1. PICK d \in Callers : writer = d /\ Renames(d, services[i])
    BY <1>6 DEF KeyInv
  <2>2. PICK e \in Left(d) : e.do = "rekey" /\ e.on = services[i]
    BY <2>1 DEF Renames
  <2>3. e \in Left(d)'
    BY <1>1, <1>2, <2>2
  <2> QED
    BY <2>1, <2>2, <2>3 DEF Renames
<1>7. \A i, j \in Ids : services'[i] = services'[j] /\ services'[i] # Nil => i = j
  BY DEF KeyInv
<1> QED
  BY <1>3, <1>4, <1>5, <1>6, <1>7 DEF KeyInv

LEMMA RouteKeepsKeys ==
  ASSUME TypeOK, KeyInv, NEW c \in Callers, RouteStep(c), orderly' \in BOOLEAN
  PROVE  KeyInv'
<1>1. Becomes(c, {}) /\ (Ordered(c) => Ordered(c)')
  BY RouteTyped
<1>2. Head(todo[c]).do # "rekey" /\ UNCHANGED <<services, id, writer>>
  BY RouteEffect DEF OnRoute
<1> QED
  BY <1>1, <1>2, StepKeepsKeys

LEMMA LoopKeepsKeys ==
  ASSUME TypeOK, KeyInv, NEW c \in Callers, LoopStep(c), orderly' \in BOOLEAN
  PROVE  KeyInv'
<1>1. Loops(c) /\ (Ordered(c) => Ordered(c)')
  BY LoopTyped
<1>2. UNCHANGED services /\ UNCHANGED id /\ UNCHANGED writer
  BY DEF LoopStep, objVars
<1>3. ASSUME NEW loop \in {"startEach", "stopEach", "ensureEach"}, NEW do \in {"start", "stop", "ensure"},
             Unrolls(c, loop, do), loop # "ensureEach" => do # "ensure"
      PROVE  KeyInv'
  <2>1. Becomes(c, {Entry(do, r, Nil) : r \in routes[On(c)]}) /\ Head(todo[c]).do = loop
    BY <1>3 DEF Unrolls, Do
  <2>2. \A e \in {Entry(do, r, Nil) : r \in routes[On(c)]} : e.do = do
    BY DEF Entry
  <2>3. loop \in Harmless => do \in Harmless
    BY <1>3 DEF Harmless
  <2>4. loop # "rekey" /\ do # "rekey"
    OBVIOUS
  <2> QED
    BY <1>1, <1>2, <2>1, <2>2, <2>3, <2>4, StepKeepsKeys
<1>4. CASE Do(c, "ensureEach") /\ Becomes(c, {})
  BY <1>1, <1>2, <1>4, StepKeepsKeys DEF Do
<1> QED
  BY <1>1, <1>3, <1>4 DEF Loops

LEMMA ServiceKeepsKeys ==
  ASSUME TypeOK, KeyInv, NEW c \in Callers, ServiceStep(c), orderly' \in BOOLEAN
  PROVE  KeyInv'
<1>1. Becomes(c, {}) /\ (Ordered(c) => Ordered(c)')
  BY ServiceTyped
<1>2. Head(todo[c]).do # "rekey" /\ UNCHANGED services /\ UNCHANGED id /\ UNCHANGED writer
  BY DEF ServiceStep, Do
<1> QED
  BY <1>1, <1>2, StepKeepsKeys

\* What a step on the table finds, and what it leaves.
LEMMA TableFacts ==
  ASSUME TypeOK, KeyInv, NEW c \in Callers, TableStep(c), orderly' \in BOOLEAN
  PROVE  /\ writer = c /\ Left(c) = {Head(todo[c])} /\ Left(c)' = {}
         /\ \A d \in Callers : d # c => Left(d)' = Left(d)
         /\ \A d \in Callers : Ordered(d)'
         /\ Head(todo[c]).do \in {"rekey", "delete"}
         /\ \A d \in Callers : d # c => \A e \in Left(d) : e.do \in Harmless
<1>1. /\ Becomes(c, {}) /\ (Ordered(c) => Ordered(c)') /\ todo[c] # << >> /\ Done(c)
  BY TableTyped
<1>2. Head(todo[c]).do \in {"rekey", "delete"}
  BY DEF TableStep, Do
<1>3. Left(c) = {Head(todo[c])} /\ Left(c)' = {}
  BY <1>1, <1>2, HeadOrder DEF KeyInv
<1>4. writer = c
  BY <1>2, <1>3 DEF KeyInv, Harmless
<1>5. OthersWait(c)
  BY <1>1 DEF Becomes
<1>6. \A d \in Callers : d # c => Left(d)' = Left(d) /\ Ordered(d)'
  BY <1>5, OthersSame DEF KeyInv
<1>7. \A d \in Callers : Ordered(d)'
  BY <1>1, <1>6 DEF KeyInv
<1> QED
  BY <1>2, <1>3, <1>4, <1>6, <1>7 DEF KeyInv

\* What moving a service to its id does.
LEMMA MovedKeys ==
  ASSUME TypeOK, KeyInv, NEW o \in Stored
  PROVE  /\ KeyFor(o) \in Ids /\ services[KeyFor(o)] = o /\ id[o] \in Ids /\ o # Nil
         /\ \A i \in Ids : services[i] = o => i = KeyFor(o)
         /\ id[o] = KeyFor(o) => Moved(o) = services
         /\ id[o] # KeyFor(o) => /\ Moved(o)[id[o]] = o /\ Moved(o)[KeyFor(o)] = Nil
                                 /\ \A i \in Ids \ {id[o], KeyFor(o)} : Moved(o)[i] = services[i]
<1>1. PICK i \in Ids : services[i] = o /\ o # Nil
  BY DEF Stored
<1>2. KeyFor(o) \in Ids /\ services[KeyFor(o)] = o
  BY <1>1 DEF KeyFor
<1>3. id[o] \in Ids
  BY StoredObjs DEF TypeOK, AllObjs
<1>4. \A k \in Ids : services[k] = o => k = KeyFor(o)
  BY <1>1, <1>2 DEF KeyInv
<1>5. id[o] = KeyFor(o) => Moved(o) = services
  BY DEF Moved
<1>6. ASSUME id[o] # KeyFor(o)
      PROVE  /\ Moved(o)[id[o]] = o /\ Moved(o)[KeyFor(o)] = Nil
             /\ \A k \in Ids \ {id[o], KeyFor(o)} : Moved(o)[k] = services[k]
  <2>1. Moved(o) = [services EXCEPT ![id[o]] = o, ![KeyFor(o)] = Nil]
    BY <1>6 DEF Moved
  <2> QED
    BY <2>1, <1>2, <1>3, <1>6 DEF TypeOK
<1> QED
  BY <1>1, <1>2, <1>3, <1>4, <1>5, <1>6

LEMMA TableKeepsKeys ==
  ASSUME TypeOK, KeyInv, NEW c \in Callers, TableStep(c), orderly' \in BOOLEAN
  PROVE  KeyInv'
<1>1. /\ writer = c /\ Left(c) = {Head(todo[c])} /\ Left(c)' = {}
      /\ \A d \in Callers : d # c => Left(d)' = Left(d)
      /\ \A d \in Callers : Ordered(d)'
      /\ \A d \in Callers : d # c => \A e \in Left(d) : e.do \in Harmless
  BY TableFacts
<1>2. UNCHANGED id /\ UNCHANGED writer
  BY DEF TableStep, objVars
<1>3. ASSUME NEW d \in Callers PROVE \A e \in Left(d)' : e.do # "rekey" /\ (writer' # d => e.do \in Harmless)
  BY <1>1, <1>2 DEF Harmless
<1>4. CASE Do(c, "rekey") /\ services' = Moved(On(c))
  <2>1. PICK o \in Stored : o = On(c)
    <3>1. On(c) \in Stored
      BY <1>1, <1>4 DEF KeyInv, Do, On
    <3> QED
      BY <3>1
  <2>2. /\ KeyFor(o) \in Ids /\ services[KeyFor(o)] = o /\ id[o] \in Ids /\ o # Nil
        /\ \A i \in Ids : services[i] = o => i = KeyFor(o)
        /\ id[o] = KeyFor(o) => services' = services
        /\ id[o] # KeyFor(o) => /\ services'[id[o]] = o /\ services'[KeyFor(o)] = Nil
                                /\ \A i \in Ids \ {id[o], KeyFor(o)} : services'[i] = services[i]
    BY <1>4, <2>1, MovedKeys
  <2>3. \A i \in Ids : services[i] # Nil /\ id[services[i]] # i => services[i] = o
    BY <1>1, <2>1 DEF KeyInv, Renames, On
  <2>4. \A i \in Ids : services'[i] # Nil => id[services'[i]] = i
    BY <2>2, <2>3
  <2>5. \A i, j \in Ids : services'[i] = services'[j] /\ services'[i] # Nil => i = j
    BY <2>4
  <2> QED
    BY <1>1, <1>2, <1>3, <2>4, <2>5 DEF KeyInv
<1>5. CASE Do(c, "delete") /\ services' = [services EXCEPT ![Val(c)] = Nil]
  <2>1. \A i \in Ids : services'[i] # Nil => services'[i] = services[i]
    BY <1>5 DEF TypeOK
  <2>2. \A e \in Left(c) : e.do # "rekey"
    BY <1>1, <1>5 DEF Do
  <2>3. \A i \in Ids : services[i] # Nil => id[services[i]] = i
    BY <1>1, <2>2 DEF KeyInv, Renames
  <2>4. \A i \in Ids : services'[i] # Nil => id[services'[i]] = i
    BY <2>1, <2>3
  <2>5. \A i, j \in Ids : services'[i] = services'[j] /\ services'[i] # Nil => i = j
    BY <2>4
  <2> QED
    BY <1>1, <1>2, <1>3, <2>4, <2>5 DEF KeyInv
<1> QED
  BY <1>4, <1>5 DEF TableStep

LEMMA UnlockKeepsKeys ==
  ASSUME TypeOK, KeyInv, NEW c \in Callers, Unlock(c)
  PROVE  KeyInv'
<1>1. /\ todo[c] = << >> /\ UNCHANGED <<services, id, todo>> /\ writer' = (IF writer = c THEN Nobody ELSE writer)
  BY DEF Unlock, objVars
<1>2. Left(c) = {}
  BY <1>1 DEF Left, Pos
<1>3. \A d \in Callers : Left(d)' = Left(d) /\ (Ordered(d) => Ordered(d)')
  BY <1>1 DEF Left, Pos, Ordered
<1>4. ASSUME NEW d \in Callers, writer' # d PROVE \A e \in Left(d)' : e.do \in Harmless
  BY <1>1, <1>2, <1>3, <1>4 DEF KeyInv
<1>5. ASSUME NEW i \in Ids, services'[i] # Nil, id'[services'[i]] # i
      PROVE  \E d \in Callers : writer' = d /\ Renames(d, services[i])'
  <2>1. PICK d \in Callers : writer = d /\ Renames(d, services[i])
    BY <1>1, <1>5 DEF KeyInv
  <2>2. d # c
    BY <1>2, <2>1 DEF Renames
  <2> QED
    BY <1>1, <1>3, <2>1, <2>2 DEF Renames
<1> QED
  BY <1>1, <1>3, <1>4, <1>5 DEF KeyInv, Stored

-----------------------------------------------------------------------------
(* What holds of the only call under way. *)

Updating(c) == \E e \in Left(c) : e.do = "rekey"

\* Which things can be left to do together.
Shape(c) ==
  \A e \in Left(c) :
    /\ e.do \in {"update", "startIf", "stopIf"} => \E f \in Left(c) : f.do = "setRoutes"
    /\ e.do \in {"setRoutes", "ensureEach", "ensure"} => Updating(c)
    /\ e.do = "delete" => \A f \in Left(c) : f = e \/ f.do \in {"stop", "stopEach"}
    /\ e.do \in {"start", "startEach"} =>
         ~Updating(c) /\ \A f \in Left(c) : f.do = "enable" => f.val = TRUE
    /\ e.do = "enable" /\ Updating(c) => e.val = enabled[e.on]

\* Route r of service o is yet to be stopped; is yet to be stopped if its
\* service is enabled; service o is yet to be marked as enabled.
Stops(c, r, o) ==
  \E e \in Left(c) : (e.do = "stop" /\ e.on = r) \/ (e.do = "stopEach" /\ e.on = o)
StopsIf(c, r)  == \E e \in Left(c) : e.do = "stopIf" /\ e.on = r /\ enabled[e.val]
Enables(c, o)  == \E e \in Left(c) : e.do = "enable" /\ e.on = o /\ e.val = TRUE

\* What is started belongs to a stored service, or will; a route that is to be
\* dropped, or whose service is to be deleted, is stopped before.
Owned(c) ==
  \A e \in Left(c) :
    /\ e.do \in {"startEach", "ensureEach", "setRoutes"} => e.on \in Stored
    /\ e.do \in {"start", "ensure"} => \E o \in Stored : e.on \in routes[o]
    /\ e.do = "setRoutes" =>
         /\ \A f \in Left(c) : f.do \in {"update", "startIf"} => f.on \in e.val
         /\ \A f \in Left(c) : f.do = "startIf" => f.val = e.on
         /\ \A r \in routes[e.on] \ e.val : up[r] => Stops(c, r, e.on) \/ StopsIf(c, r)
         /\ \A o \in AllObjs : o # e.on => e.val \cap routes[o] = {}
    /\ e.do = "delete" =>
         /\ services[e.val] = e.on
         /\ \A r \in routes[e.on] : up[r] => Stops(c, r, e.on)

\* Services share no route, and a route that runs is a stored service's, or the
\* update under way is about to make it one.
Placed(c) ==
  /\ \A o, p \in AllObjs : o # p => routes[o] \cap routes[p] = {}
  /\ \A r \in AllRoutes : up[r] =>
       \/ \E o \in Stored : r \in routes[o]
       \/ \E e \in Left(c) : e.do = "setRoutes" /\ r \in e.val

\* An HTTP route that runs.
Http(r) == up[r] /\ cfg[r] \notin Ports

\* HTTP routes run in services that are enabled, or are about to be, or about
\* to have the route stopped.
Flagged(c) ==
  /\ \A o \in Stored : ~enabled[o] =>
       \A r \in routes[o] : Http(r) => Enables(c, o) \/ Stops(c, r, o)
  /\ \A e \in Left(c) :
       /\ e.do = "enable" /\ e.val = FALSE => \A r \in routes[e.on] : Http(r) => Stops(c, r, e.on)
       /\ e.do = "start" => \A o \in AllObjs : e.on \in routes[o] => enabled[o] \/ Enables(c, o)
       /\ e.do = "startEach" => enabled[e.on] \/ Enables(c, e.on)
       /\ e.do = "ensure" => \A o \in AllObjs : e.on \in routes[o] => enabled[o]
       /\ e.do = "setRoutes" /\ ~enabled[e.on] => \A r \in e.val \ routes[e.on] : ~Http(r)

Fine(c) == Shape(c) /\ Owned(c) /\ Placed(c) /\ Flagged(c)

\* A step on a route or the beginning of a loop over a service's routes.
LoopOf(loop, do) ==
  \/ loop = "startEach" /\ do = "start"
  \/ loop = "stopEach" /\ do = "stop"
  \/ loop = "ensureEach" /\ do = "ensure"

\* The first thing left to do raises route r.
Raised(c, r) ==
  LET h == Head(todo[c]) IN
  /\ h.on = r
  /\ \/ h.do \in {"start", "ensure"}
     \/ h.do = "update" /\ cfg[r] \in Ports
     \/ h.do = "startIf" /\ enabled[h.val]

Progress(c, X) ==
  LET h == Head(todo[c]) IN
  /\ UNCHANGED <<services, id, enabled, routes, cfg>>
  /\ h.do \in OnRoute \cup {"startEach", "stopEach", "ensureEach"}
  /\ Becomes(c, X)
  /\ \A e \in X : /\ LoopOf(h.do, e.do) /\ h.on \in AllObjs /\ e.on \in routes[h.on]
                  /\ h.do = "ensureEach" => enabled[h.on]
  /\ \A r \in AllRoutes : up'[r] => up[r] \/ Raised(c, r)
  /\ \A r \in AllRoutes, o \in AllObjs : up'[r] /\ r \in routes[o] /\ Stops(c, r, o) => Stops(c, r, o)'
  /\ \A r \in AllRoutes : up'[r] /\ StopsIf(c, r) => StopsIf(c, r)'
  /\ \A o \in AllObjs : Enables(c, o) => Enables(c, o)'

LEMMA RouteProgress ==
  ASSUME TypeOK, NEW c \in Callers, RouteStep(c), orderly' \in BOOLEAN
  PROVE  Progress(c, {})
<1> DEFINE h == Head(todo[c])
<1>1. /\ todo[c] # << >> /\ h.do \in OnRoute /\ h.on \in AllRoutes
      /\ UNCHANGED <<services, id, enabled, routes, cfg>>
      /\ \A r \in AllRoutes \ {h.on} : up'[r] = up[r]
      /\ up'[h.on] => up[h.on] \/ Raises(c)
      /\ Lowers(c) => ~up'[h.on]
  BY RouteEffect DEF On
<1>2. Becomes(c, {})
  BY RouteTyped
<1>3. ASSUME NEW r \in AllRoutes, up'[r] PROVE up[r] \/ Raised(c, r)
  BY <1>1, <1>3 DEF Raises, Raised, Do, On, Val
<1>4. \A e \in Left(c) : e = h \/ e \in Left(c)'
  BY <1>2 DEF Becomes
<1>5. ASSUME NEW r \in AllRoutes, NEW o, up'[r], Stops(c, r, o) PROVE Stops(c, r, o)'
  <2>1. PICK e \in Left(c) : (e.do = "stop" /\ e.on = r) \/ (e.do = "stopEach" /\ e.on = o)
    BY <1>5 DEF Stops
  <2>2. CASE e = h
    <3>1. h.do = "stop" /\ h.on = r
      BY <1>1, <2>1, <2>2 DEF OnRoute
    <3> QED
      BY <1>1, <1>5, <3>1 DEF Lowers, Do
  <2>3. CASE e # h
    BY <1>4, <2>1, <2>3 DEF Stops
  <2> QED
    BY <2>2, <2>3
<1>6. ASSUME NEW r \in AllRoutes, up'[r], StopsIf(c, r) PROVE StopsIf(c, r)'
  <2>1. PICK e \in Left(c) : e.do = "stopIf" /\ e.on = r /\ enabled[e.val]
    BY <1>6 DEF StopsIf
  <2>2. CASE e = h
    BY <1>1, <1>6, <2>1, <2>2 DEF Lowers, Do, Val
  <2>3. CASE e # h
    BY <1>1, <1>4, <2>1, <2>3 DEF StopsIf
  <2> QED
    BY <2>2, <2>3
<1>7. ASSUME NEW o, Enables(c, o) PROVE Enables(c, o)'
  BY <1>1, <1>4, <1>7 DEF Enables, OnRoute
<1> QED
  BY <1>1, <1>2, <1>3, <1>5, <1>6, <1>7 DEF Progress

LEMMA LoopProgress ==
  ASSUME TypeOK, NEW c \in Callers, LoopStep(c), orderly' \in BOOLEAN
  PROVE  \E X : Progress(c, X)
<1> DEFINE h == Head(todo[c])
<1>1. Loops(c)
  BY LoopTyped
<1>2. UNCHANGED <<services, id, enabled, routes, cfg, up>>
  BY DEF LoopStep, objVars
<1>3. ASSUME NEW X, Becomes(c, X), h.do \in {"startEach", "stopEach", "ensureEach"},
             \A e \in X : /\ LoopOf(h.do, e.do) /\ h.on \in AllObjs /\ e.on \in routes[h.on]
                          /\ h.do = "ensureEach" => enabled[h.on],
             h.do = "stopEach" => \A r \in routes[h.on] : Entry("stop", r, Nil) \in X
      PROVE  Progress(c, X)
  <2>1. (\A e \in Left(c) : e = h \/ e \in Left(c)') /\ X \subseteq Left(c)'
    BY <1>3 DEF Becomes
  <2>2. ASSUME NEW r \in AllRoutes, NEW o \in AllObjs, r \in routes[o], Stops(c, r, o) PROVE Stops(c, r, o)'
    <3>1. PICK e \in Left(c) : (e.do = "stop" /\ e.on = r) \/ (e.do = "stopEach" /\ e.on = o)
      BY <2>2 DEF Stops
    <3>2. CASE e = h
      <4>1. Entry("stop", r, Nil) \in Left(c)'
        BY <1>3, <2>1, <2>2, <3>1, <3>2
      <4> QED
        BY <4>1 DEF Stops, Entry
    <3>3. CASE e # h
      BY <2>1, <3>1, <3>3 DEF Stops
    <3> QED
      BY <3>2, <3>3
  <2>3. ASSUME NEW r \in AllRoutes, StopsIf(c, r) PROVE StopsIf(c, r)'
    BY <1>2, <1>3, <2>1, <2>3 DEF StopsIf
  <2>4. ASSUME NEW o \in AllObjs, Enables(c, o) PROVE Enables(c, o)'
    BY <1>3, <2>1, <2>4 DEF Enables
  <2> QED
    BY <1>2, <1>3, <2>2, <2>3, <2>4 DEF Progress
<1>4. ASSUME NEW loop \in {"startEach", "stopEach", "ensureEach"}, NEW do \in {"start", "stop", "ensure"},
             LoopOf(loop, do), Unrolls(c, loop, do), loop = "ensureEach" => enabled[On(c)]
      PROVE  \E X : Progress(c, X)
  <2> DEFINE X == {Entry(do, r, Nil) : r \in routes[On(c)]}
  <2>1. h.do = loop /\ h.on \in AllObjs /\ Becomes(c, X) /\ On(c) = h.on
    BY <1>4 DEF Unrolls, Do, On
  <2>2. \A e \in X : e.do = do /\ e.on \in routes[h.on]
    BY <2>1 DEF Entry
  <2>3. loop = "stopEach" => \A r \in routes[h.on] : Entry("stop", r, Nil) \in X
    BY <1>4, <2>1 DEF LoopOf
  <2> HIDE DEF X
  <2>4. Progress(c, X)
    BY <1>3, <1>4, <2>1, <2>2, <2>3
  <2> QED
    BY <2>4
<1>5. CASE Do(c, "ensureEach") /\ Becomes(c, {})
  <2>1. Progress(c, {})
    BY <1>3, <1>5 DEF Do
  <2> QED
    BY <2>1
<1> QED
  BY <1>1, <1>4, <1>5 DEF Loops, LoopOf

\* What Progress says of the entries left.
LEMMA ProgressLeft ==
  ASSUME TypeOK, NEW c \in Callers, NEW X, Progress(c, X)
  PROVE  /\ Head(todo[c]) \in Left(c)
         /\ \A e \in Left(c)' : \/ e \in Left(c)
                                \/ /\ LoopOf(Head(todo[c]).do, e.do) /\ e.do \in {"start", "stop", "ensure"}
                                   /\ Head(todo[c]).on \in AllObjs /\ e.on \in routes[Head(todo[c]).on]
                                   /\ Head(todo[c]).do = "ensureEach" => enabled[Head(todo[c]).on]
         /\ \A e \in Left(c) : e = Head(todo[c]) \/ e \in Left(c)'
         /\ \A e \in Left(c) : e.do \in {"setRoutes", "rekey", "delete", "enable"} => e \in Left(c)'
<1> DEFINE h == Head(todo[c])
<1>1. /\ h \in Left(c) /\ Left(c)' \subseteq Left(c) \cup X
      /\ \A e \in Left(c) : e = h \/ e \in Left(c)'
      /\ h.do \in OnRoute \cup {"startEach", "stopEach", "ensureEach"}
      /\ \A e \in X : /\ LoopOf(h.do, e.do) /\ h.on \in AllObjs /\ e.on \in routes[h.on]
                      /\ h.do = "ensureEach" => enabled[h.on]
  BY DEF Progress, Becomes
<1> HIDE DEF h
<1>2. \A e \in X : e.do \in {"start", "stop", "ensure"}
  <2>1. \A a, b : LoopOf(a, b) => b \in {"start", "stop", "ensure"}
    BY DEF LoopOf
  <2> QED
    BY <1>1, <2>1, Zenon
<1>3. \A e \in Left(c) : e.do \in {"setRoutes", "rekey", "delete", "enable"} => e \in Left(c)'
  BY <1>1 DEF OnRoute
<1>4. ASSUME NEW e \in Left(c)', e \notin Left(c)
      PROVE  /\ LoopOf(h.do, e.do) /\ e.do \in {"start", "stop", "ensure"}
             /\ h.on \in AllObjs /\ e.on \in routes[h.on] /\ (h.do = "ensureEach" => enabled[h.on])
  <2>1. e \in X
    BY <1>1, <1>4, Zenon
  <2> QED
    BY <1>1, <1>2, <2>1, Zenon
<1> QED
  BY <1>1, <1>3, <1>4, Zenon DEF h

LEMMA ProgressShape ==
  ASSUME TypeOK, NEW c \in Callers, NEW X, Progress(c, X), Shape(c)
  PROVE  Shape(c)'
<1> DEFINE h == Head(todo[c])
<1>1. /\ h \in Left(c)
      /\ \A e \in Left(c)' : \/ e \in Left(c)
                             \/ LoopOf(h.do, e.do) /\ e.do \in {"start", "stop", "ensure"}
      /\ \A e \in Left(c) : e.do \in {"setRoutes", "rekey", "delete", "enable"} => e \in Left(c)'
  BY ProgressLeft
<1>2. UNCHANGED enabled /\ h.do # "delete"
  BY DEF Progress, OnRoute
<1>3. Updating(c)' <=> Updating(c)
  BY <1>1 DEF Updating
<1> HIDE DEF h
<1> SUFFICES ASSUME NEW e \in Left(c)'
             PROVE  /\ e.do \in {"update", "startIf", "stopIf"} => \E f \in Left(c)' : f.do = "setRoutes"
                    /\ e.do \in {"setRoutes", "ensureEach", "ensure"} => Updating(c)'
                    /\ e.do = "delete" => \A f \in Left(c)' : f = e \/ f.do \in {"stop", "stopEach"}
                    /\ e.do \in {"start", "startEach"} =>
                         ~Updating(c)' /\ \A f \in Left(c)' : f.do = "enable" => f.val = TRUE
                    /\ e.do = "enable" /\ Updating(c)' => e.val = enabled'[e.on]
  BY DEF Shape
<1>4. ASSUME e.do \in {"update", "startIf", "stopIf"} PROVE \E f \in Left(c)' : f.do = "setRoutes"
  BY <1>1, <1>4 DEF Shape
<1>5. ASSUME e.do \in {"setRoutes", "ensureEach", "ensure"} PROVE Updating(c)'
  BY <1>1, <1>3, <1>5 DEF Shape, LoopOf
<1>6. ASSUME e.do = "delete", NEW f \in Left(c)' PROVE f = e \/ f.do \in {"stop", "stopEach"}
  <2>1. e \in Left(c)
    BY <1>1, <1>6
  <2>2. h.do \in {"stop", "stopEach"}
    BY <1>1, <1>2, <1>6, <2>1 DEF Shape
  <2> QED
    BY <1>1, <1>6, <2>1, <2>2 DEF Shape, LoopOf
<1>7. ASSUME e.do \in {"start", "startEach"}
      PROVE  ~Updating(c)' /\ \A f \in Left(c)' : f.do = "enable" => f.val = TRUE
  <2>1. \E g \in Left(c) : g.do \in {"start", "startEach"}
    BY <1>1, <1>7 DEF LoopOf
  <2> QED
    BY <1>1, <1>3, <2>1 DEF Shape
<1>8. ASSUME e.do = "enable", Updating(c)' PROVE e.val = enabled'[e.on]
  BY <1>1, <1>2, <1>3, <1>8 DEF Shape
<1> QED
  BY <1>4, <1>5, <1>6, <1>7, <1>8

\* While the list of routes is yet to be replaced nothing else is started.
LEMMA NoStartsBefore ==
  ASSUME TypeOK, KeyInv, NEW c \in Callers, NEW e \in Left(c), e.do = "setRoutes", NEW f \in Left(c)
  PROVE  f.do \notin {"start", "startEach", "ensure", "delete"}
<1>1. f = e \/ f.do \in Early \cup Late
  BY OrderSays DEF KeyInv
<1> QED
  BY <1>1 DEF Early, Late

LEMMA ObjsRoutes ==
  ASSUME TypeOK, NEW o \in AllObjs
  PROVE  routes[o] \subseteq AllRoutes
  BY DEF TypeOK, AllObjs

LEMMA ProgressOwned ==
  ASSUME TypeOK, KeyInv, NEW c \in Callers, NEW X, Progress(c, X), Shape(c), Owned(c)
  PROVE  Owned(c)'
<1> DEFINE h == Head(todo[c])
<1>1. /\ h \in Left(c)
      /\ \A e \in Left(c)' : \/ e \in Left(c)
                             \/ /\ LoopOf(h.do, e.do) /\ e.do \in {"start", "stop", "ensure"}
                                /\ e.on \in routes[h.on]
  BY ProgressLeft
<1>2. /\ UNCHANGED <<services, id, enabled, routes, cfg>>
      /\ \A r \in AllRoutes : up'[r] => up[r] \/ Raised(c, r)
      /\ \A r \in AllRoutes, o \in AllObjs : up'[r] /\ r \in routes[o] /\ Stops(c, r, o) => Stops(c, r, o)'
      /\ \A r \in AllRoutes : up'[r] /\ StopsIf(c, r) => StopsIf(c, r)'
      /\ h.do # "delete"
  BY DEF Progress, OnRoute
<1>3. Stored' = Stored /\ AllObjs' = AllObjs
  BY <1>2 DEF Stored, AllObjs
<1>4. \A r : Raised(c, r) => h.on = r /\ h.do \in {"start", "ensure", "update", "startIf"}
  BY DEF Raised
<1> HIDE DEF h
<1> SUFFICES ASSUME NEW e \in Left(c)'
             PROVE  /\ e.do \in {"startEach", "ensureEach", "setRoutes"} => e.on \in Stored'
                    /\ e.do \in {"start", "ensure"} => \E o \in Stored' : e.on \in routes'[o]
                    /\ e.do = "setRoutes" =>
                         /\ \A f \in Left(c)' : f.do \in {"update", "startIf"} => f.on \in e.val
                         /\ \A f \in Left(c)' : f.do = "startIf" => f.val = e.on
                         /\ \A r \in routes'[e.on] \ e.val : up'[r] => Stops(c, r, e.on)' \/ StopsIf(c, r)'
                         /\ \A o \in AllObjs' : o # e.on => e.val \cap routes'[o] = {}
                    /\ e.do = "delete" =>
                         /\ services'[e.val] = e.on
                         /\ \A r \in routes'[e.on] : up'[r] => Stops(c, r, e.on)'
  BY DEF Owned
<1>5. ASSUME e.do \in {"startEach", "ensureEach", "setRoutes"} PROVE e.on \in Stored'
  BY <1>1, <1>3, <1>5 DEF Owned
<1>6. ASSUME e.do \in {"start", "ensure"} PROVE \E o \in Stored' : e.on \in routes'[o]
  <2>1. CASE e \in Left(c)
    BY <1>2, <1>3, <1>6, <2>1 DEF Owned
  <2>2. CASE e \notin Left(c)
    <3>1. h.do \in {"startEach", "ensureEach"} /\ e.on \in routes[h.on]
      BY <1>1, <1>6, <2>2 DEF LoopOf
    <3>2. h.on \in Stored
      BY <1>1, <3>1 DEF Owned
    <3> QED
      BY <1>2, <1>3, <3>1, <3>2
  <2> QED
    BY <2>1, <2>2
<1>7. ASSUME e.do = "setRoutes"
      PROVE  /\ \A f \in Left(c)' : f.do \in {"update", "startIf"} => f.on \in e.val
             /\ \A f \in Left(c)' : f.do = "startIf" => f.val = e.on
             /\ \A r \in routes'[e.on] \ e.val : up'[r] => Stops(c, r, e.on)' \/ StopsIf(c, r)'
             /\ \A o \in AllObjs' : o # e.on => e.val \cap routes'[o] = {}
  <2>1. e \in Left(c)
    BY <1>1, <1>7
  <2>2. e.on \in AllObjs
    BY <1>7, <2>1, LeftTyped DEF EntryOK, OnService
  <2>3. ASSUME NEW r \in routes[e.on] \ e.val, up'[r] PROVE Stops(c, r, e.on)' \/ StopsIf(c, r)'
    <3>1. r \in AllRoutes
      BY <2>2, ObjsRoutes
    <3>2. ~Raised(c, r)
      <4>1. h.do \notin {"start", "ensure"}
        BY <1>1, <1>7, <2>1, NoStartsBefore
      <4>2. h.do \in {"update", "startIf"} => h.on \in e.val
        BY <1>1, <1>7, <2>1 DEF Owned
      <4> QED
        BY <1>4, <4>1, <4>2
    <3>3. Stops(c, r, e.on) \/ StopsIf(c, r)
      BY <1>2, <1>7, <2>1, <2>3, <3>1, <3>2 DEF Owned
    <3> QED
      BY <1>2, <2>2, <2>3, <3>1, <3>3
  <2>4. \A f \in Left(c)' : f.do \in {"update", "startIf"} => f.on \in e.val /\ (f.do = "startIf" => f.val = e.on)
    BY <1>1, <1>7, <2>1 DEF Owned
  <2>5. \A o \in AllObjs' : o # e.on => e.val \cap routes'[o] = {}
    BY <1>2, <1>3, <1>7, <2>1 DEF Owned
  <2> QED
    BY <1>2, <2>3, <2>4, <2>5
<1>8. ASSUME e.do = "delete"
      PROVE  services'[e.val] = e.on /\ \A r \in routes'[e.on] : up'[r] => Stops(c, r, e.on)'
  <2>1. e \in Left(c)
    BY <1>1, <1>8
  <2>2. e.on \in AllObjs
    BY <1>8, <2>1, LeftTyped DEF EntryOK
  <2>3. h.do \in {"stop", "stopEach"}
    BY <1>1, <1>2, <1>8, <2>1 DEF Shape
  <2>4. ASSUME NEW r \in routes[e.on], up'[r] PROVE Stops(c, r, e.on)'
    <3>1. r \in AllRoutes /\ up[r]
      BY <1>2, <1>4, <2>2, <2>3, <2>4, ObjsRoutes
    <3> QED
      BY <1>2, <1>8, <2>1, <2>2, <2>4, <3>1 DEF Owned
  <2> QED
    BY <1>2, <1>8, <2>1, <2>4 DEF Owned
<1> QED
  BY <1>5, <1>6, <1>7, <1>8

LEMMA ProgressPlaced ==
  ASSUME TypeOK, NEW c \in Callers, NEW X, Progress(c, X), Shape(c), Owned(c), Placed(c)
  PROVE  Placed(c)'
<1> DEFINE h == Head(todo[c])
<1>1. /\ h \in Left(c)
      /\ \A e \in Left(c) : e.do = "setRoutes" => e \in Left(c)'
  BY ProgressLeft
<1>2. /\ UNCHANGED <<services, id, enabled, routes, cfg>>
      /\ \A r \in AllRoutes : up'[r] => up[r] \/ Raised(c, r)
  BY DEF Progress
<1>3. Stored' = Stored /\ AllObjs' = AllObjs /\ AllRoutes' = AllRoutes
  BY <1>2 DEF Stored, AllObjs, AllRoutes
<1>4. ASSUME NEW r \in AllRoutes, up'[r]
      PROVE  (\E o \in Stored : r \in routes[o]) \/ (\E e \in Left(c)' : e.do = "setRoutes" /\ r \in e.val)
  <2>1. CASE up[r]
    BY <1>1, <2>1 DEF Placed
  <2>2. CASE Raised(c, r)
    <3>1. h.on = r /\ h.do \in {"start", "ensure", "update", "startIf"}
      BY <2>2 DEF Raised
    <3>2. CASE h.do \in {"start", "ensure"}
      BY <1>1, <3>1, <3>2 DEF Owned
    <3>3. CASE h.do \in {"update", "startIf"}
      <4>1. PICK f \in Left(c) : f.do = "setRoutes"
        BY <1>1, <3>3 DEF Shape
      <4>2. r \in f.val
        BY <1>1, <3>1, <3>3, <4>1 DEF Owned
      <4> QED
        BY <1>1, <4>1, <4>2
    <3> QED
      BY <3>1, <3>2, <3>3
  <2> QED
    BY <1>2, <1>4, <2>1, <2>2
<1>5. \A o, p \in AllObjs' : o # p => routes'[o] \cap routes'[p] = {}
  BY <1>2, <1>3 DEF Placed
<1> QED
  BY <1>2, <1>3, <1>4, <1>5 DEF Placed

LEMMA ProgressFlagged ==
  ASSUME TypeOK, KeyInv, NEW c \in Callers, NEW X, Progress(c, X), Fine(c)
  PROVE  Flagged(c)'
<1> DEFINE h == Head(todo[c])
<1>1. /\ h \in Left(c)
      /\ \A e \in Left(c)' : \/ e \in Left(c)
                             \/ /\ LoopOf(h.do, e.do) /\ e.do \in {"start", "stop", "ensure"}
                                /\ h.on \in AllObjs /\ e.on \in routes[h.on]
                                /\ h.do = "ensureEach" => enabled[h.on]
  BY ProgressLeft
<1>2. /\ UNCHANGED <<services, id, enabled, routes, cfg>>
      /\ \A r \in AllRoutes : up'[r] => up[r] \/ Raised(c, r)
      /\ \A r \in AllRoutes, o \in AllObjs : up'[r] /\ r \in routes[o] /\ Stops(c, r, o) => Stops(c, r, o)'
      /\ \A o \in AllObjs : Enables(c, o) => Enables(c, o)'
  BY DEF Progress
<1>3. Stored' = Stored /\ AllObjs' = AllObjs /\ Stored \subseteq AllObjs
  BY <1>2, StoredObjs DEF Stored, AllObjs
<1>4. Shape(c) /\ Owned(c) /\ Placed(c) /\ Flagged(c)
  BY DEF Fine
<1>5. \A r : Raised(c, r) /\ cfg[r] \notin Ports =>
        h.on = r /\ (h.do \in {"start", "ensure"} \/ (h.do = "startIf" /\ enabled[h.val]))
  BY DEF Raised
<1> HIDE DEF h
\* A route that begins to run is of an enabled service, or of one about to be.
<1>6. ASSUME NEW o \in AllObjs, NEW r \in routes[o], ~enabled[o], Raised(c, r), cfg[r] \notin Ports
      PROVE  h.do = "start" /\ Enables(c, o)
  <2>1. h.on = r
    BY <1>5, <1>6
  <2>2. CASE h.do = "start"
    BY <1>1, <1>4, <1>6, <2>1, <2>2 DEF Flagged
  <2>3. CASE h.do = "ensure"
    BY <1>1, <1>4, <1>6, <2>1, <2>3 DEF Flagged
  <2>4. CASE h.do = "startIf" /\ enabled[h.val]
    <3>1. PICK f \in Left(c) : f.do = "setRoutes"
      BY <1>1, <1>4, <2>4 DEF Shape
    <3>2. r \in f.val /\ h.val = f.on
      BY <1>1, <1>4, <2>1, <2>4, <3>1 DEF Owned
    <3>3. o = f.on
      BY <1>4, <1>6, <3>1, <3>2 DEF Owned
    <3> QED
      BY <1>6, <2>4, <3>2, <3>3
  <2> QED
    BY <1>5, <1>6, <2>2, <2>3, <2>4
<1>7. ASSUME NEW o \in Stored, ~enabled[o], NEW r \in routes[o], Http(r)'
      PROVE  Enables(c, o)' \/ Stops(c, r, o)'
  <2>1. o \in AllObjs /\ r \in AllRoutes /\ up'[r] /\ cfg[r] \notin Ports
    BY <1>2, <1>3, <1>7, ObjsRoutes DEF Http
  <2>2. CASE up[r]
    <3>1. Enables(c, o) \/ Stops(c, r, o)
      BY <1>4, <1>7, <2>1, <2>2 DEF Flagged, Http
    <3> QED
      BY <1>2, <2>1, <3>1
  <2>3. CASE Raised(c, r)
    BY <1>2, <1>6, <1>7, <2>1, <2>3
  <2> QED
    BY <1>2, <2>1, <2>2, <2>3
<1>8. ASSUME NEW e \in Left(c)', e.do = "enable", e.val = FALSE, NEW r \in routes[e.on], Http(r)'
      PROVE  Stops(c, r, e.on)'
  <2>1. e \in Left(c) /\ e.on \in AllObjs
    <3>1. e \in Left(c)
      BY <1>1, <1>8
    <3> QED
      BY <1>8, <3>1, LeftTyped DEF EntryOK, OnService
  <2>2. r \in AllRoutes /\ up'[r] /\ cfg[r] \notin Ports
    BY <1>2, <1>8, <2>1, ObjsRoutes DEF Http
  <2>3. ~Raised(c, r)
    <3> SUFFICES ASSUME Raised(c, r) PROVE FALSE
      OBVIOUS
    <3>1. h.on = r /\ (h.do \in {"start", "ensure"} \/ (h.do = "startIf" /\ enabled[h.val]))
      BY <1>5, <2>2
    <3>2. h.do # "start"
      BY <1>1, <1>4, <1>8, <2>1 DEF Shape
    <3>3. Updating(c)
      BY <1>1, <1>4, <3>1, <3>2 DEF Shape
    <3>4. ~enabled[e.on]
      BY <1>4, <1>8, <2>1, <3>3 DEF Shape
    <3> QED
      BY <1>6, <1>8, <2>1, <2>2, <3>2, <3>4
  <2>4. Stops(c, r, e.on)
    BY <1>2, <1>4, <1>8, <2>1, <2>2, <2>3 DEF Flagged, Http
  <2> QED
    BY <1>2, <1>8, <2>1, <2>2, <2>4
<1>9. ASSUME NEW e \in Left(c)', e.do = "start", NEW o \in AllObjs, e.on \in routes[o]
      PROVE  enabled[o] \/ Enables(c, o)'
  <2>1. CASE e \in Left(c)
    BY <1>2, <1>4, <1>9, <2>1 DEF Flagged
  <2>2. CASE e \notin Left(c)
    <3>1. h.do = "startEach" /\ h.on \in AllObjs /\ e.on \in routes[h.on]
      BY <1>1, <1>9, <2>2 DEF LoopOf
    <3>2. h.on = o
      BY <1>4, <1>9, <3>1 DEF Placed
    <3> QED
      BY <1>1, <1>2, <1>4, <3>1, <3>2 DEF Flagged
  <2> QED
    BY <2>1, <2>2
<1>10. ASSUME NEW e \in Left(c)', e.do = "startEach" PROVE enabled[e.on] \/ Enables(c, e.on)'
  <2>1. e \in Left(c)
    BY <1>1, <1>10
  <2>2. e.on \in AllObjs
    BY <1>10, <2>1, LeftTyped DEF EntryOK, OnService
  <2> QED
    BY <1>2, <1>4, <1>10, <2>1, <2>2 DEF Flagged
<1>11. ASSUME NEW e \in Left(c)', e.do = "ensure", NEW o \in AllObjs, e.on \in routes[o] PROVE enabled[o]
  <2>1. CASE e \in Left(c)
    BY <1>4, <1>11, <2>1 DEF Flagged
  <2>2. CASE e \notin Left(c)
    <3>1. h.do = "ensureEach" /\ h.on \in AllObjs /\ e.on \in routes[h.on] /\ enabled[h.on]
      BY <1>1, <1>11, <2>2 DEF LoopOf
    <3>2. h.on = o
      BY <1>4, <1>11, <3>1 DEF Placed
    <3> QED
      BY <3>1, <3>2
  <2> QED
    BY <2>1, <2>2
<1>12. ASSUME NEW e \in Left(c)', e.do = "setRoutes", ~enabled[e.on], NEW r \in e.val \ routes[e.on]
       PROVE  ~Http(r)'
  <2>1. e \in Left(c)
    BY <1>1, <1>12
  <2>2. r \in AllRoutes
    BY <1>12, <2>1, LeftTyped DEF EntryOK
  <2>3. ~Http(r)
    BY <1>4, <1>12, <2>1 DEF Flagged
  <2>4. h.do \notin {"start", "ensure"}
    BY <1>1, <1>12, <2>1, NoStartsBefore
  <2>5. h.do = "startIf" => h.val = e.on
    BY <1>1, <1>4, <1>12, <2>1 DEF Owned
  <2>6. ~(Raised(c, r) /\ cfg[r] \notin Ports)
    BY <1>5, <1>12, <2>4, <2>5
  <2> QED
    BY <1>2, <2>2, <2>3, <2>6 DEF Http
<1>13. \A o \in Stored' : ~enabled'[o] => \A r \in routes'[o] : Http(r)' => Enables(c, o)' \/ Stops(c, r, o)'
  BY <1>2, <1>3, <1>7
<1>14. \A e \in Left(c)' :
         /\ e.do = "enable" /\ e.val = FALSE => \A r \in routes'[e.on] : Http(r)' => Stops(c, r, e.on)'
         /\ e.do = "start" => \A o \in AllObjs' : e.on \in routes'[o] => enabled'[o] \/ Enables(c, o)'
         /\ e.do = "startEach" => enabled'[e.on] \/ Enables(c, e.on)'
         /\ e.do = "ensure" => \A o \in AllObjs' : e.on \in routes'[o] => enabled'[o]
         /\ e.do = "setRoutes" /\ ~enabled'[e.on] => \A r \in e.val \ routes'[e.on] : ~Http(r)'
  BY <1>2, <1>3, <1>8, <1>9, <1>10, <1>11, <1>12
<1> QED
  BY <1>13, <1>14 DEF Flagged

LEMMA ProgressFine ==
  ASSUME TypeOK, KeyInv, NEW c \in Callers, NEW X, Progress(c, X), Fine(c)
  PROVE  Fine(c)'
<1>1. Shape(c) /\ Owned(c) /\ Placed(c)
  BY DEF Fine
<1>2. Shape(c)'
  BY <1>1, ProgressShape
<1>3. Owned(c)'
  BY <1>1, ProgressOwned
<1>4. Placed(c)'
  BY <1>1, ProgressPlaced
<1>5. Flagged(c)'
  BY ProgressFlagged
<1> QED
  BY <1>2, <1>3, <1>4, <1>5 DEF Fine

\* The end of Service.Start, or of Service.Stop: the flag.
LEMMA EnableFine ==
  ASSUME TypeOK, KeyInv, NEW c \in Callers, ServiceStep(c), Do(c, "enable"), orderly' \in BOOLEAN, Fine(c)
  PROVE  Fine(c)'
<1> DEFINE h == Head(todo[c])
<1>1. /\ h \in Left(c) /\ Left(c)' \subseteq Left(c) /\ h.do = "enable" /\ h.on \in AllObjs
      /\ \A e \in Left(c) : e = h \/ e \in Left(c)'
  BY ServiceTyped DEF Becomes, Do, On
<1>2. UNCHANGED <<services, id, routes, cfg, up>> /\ enabled' = [enabled EXCEPT ![h.on] = h.val]
  BY DEF ServiceStep, Do, On, Val
<1>3. h.val \in BOOLEAN
  BY <1>1, LeftTyped DEF EntryOK
<1>4. /\ enabled'[h.on] = h.val
      /\ \A o \in AllObjs : o # h.on => enabled'[o] = enabled[o]
  BY <1>1, <1>2 DEF TypeOK, AllObjs
<1>5. Stored' = Stored /\ AllObjs' = AllObjs /\ AllRoutes' = AllRoutes /\ Stored \subseteq AllObjs
  BY <1>2, StoredObjs DEF Stored, AllObjs, AllRoutes
<1>6. Shape(c) /\ Owned(c) /\ Placed(c) /\ Flagged(c)
  BY DEF Fine
<1>7. \A e \in Left(c) : e.do # "enable" => e \in Left(c)'
  BY <1>1
<1> HIDE DEF h
<1>8. Updating(c)' <=> Updating(c)
  BY <1>1, <1>7 DEF Updating
<1>9. Updating(c) => h.val = enabled[h.on]
  BY <1>1, <1>6 DEF Shape
<1>10. Updating(c) => \A o \in AllObjs : enabled'[o] = enabled[o]
  BY <1>4, <1>9
<1>11. \A e \in Left(c) : /\ e.do \in OnService => e.on \in AllObjs
                          /\ e.do \in {"startIf", "stopIf"} => e.val \in AllObjs
  BY LeftTyped DEF EntryOK
<1>12. \A r, o : Stops(c, r, o) => Stops(c, r, o)'
  BY <1>7 DEF Stops
<1>13. \A o : o # h.on /\ Enables(c, o) => Enables(c, o)'
  BY <1>1 DEF Enables
<1>14. Shape(c)'
  <2> SUFFICES ASSUME NEW e \in Left(c)'
               PROVE  /\ e.do \in {"update", "startIf", "stopIf"} => \E f \in Left(c)' : f.do = "setRoutes"
                      /\ e.do \in {"setRoutes", "ensureEach", "ensure"} => Updating(c)'
                      /\ e.do = "delete" => \A f \in Left(c)' : f = e \/ f.do \in {"stop", "stopEach"}
                      /\ e.do \in {"start", "startEach"} =>
                           ~Updating(c)' /\ \A f \in Left(c)' : f.do = "enable" => f.val = TRUE
                      /\ e.do = "enable" /\ Updating(c)' => e.val = enabled'[e.on]
    BY DEF Shape
  <2>1. e \in Left(c)
    BY <1>1
  <2>2. e.do = "enable" /\ Updating(c) => e.val = enabled[e.on] /\ e.on \in AllObjs
    BY <1>6, <1>11, <2>1 DEF Shape, OnService
  <2>3. e.do = "enable" /\ Updating(c)' => e.val = enabled'[e.on]
    BY <1>8, <1>10, <2>2
  <2> QED
    BY <1>1, <1>6, <1>7, <1>8, <2>1, <2>3 DEF Shape
<1>15. Owned(c)'
  <2> SUFFICES ASSUME NEW e \in Left(c)'
               PROVE  /\ e.do \in {"startEach", "ensureEach", "setRoutes"} => e.on \in Stored'
                      /\ e.do \in {"start", "ensure"} => \E o \in Stored' : e.on \in routes'[o]
                      /\ e.do = "setRoutes" =>
                           /\ \A f \in Left(c)' : f.do \in {"update", "startIf"} => f.on \in e.val
                           /\ \A f \in Left(c)' : f.do = "startIf" => f.val = e.on
                           /\ \A r \in routes'[e.on] \ e.val : up'[r] => Stops(c, r, e.on)' \/ StopsIf(c, r)'
                           /\ \A o \in AllObjs' : o # e.on => e.val \cap routes'[o] = {}
                      /\ e.do = "delete" =>
                           /\ services'[e.val] = e.on
                           /\ \A r \in routes'[e.on] : up'[r] => Stops(c, r, e.on)'
    BY DEF Owned
  <2>1. e \in Left(c)
    BY <1>1
  <2>2. e.do \in {"startEach", "ensureEach", "setRoutes"} => e.on \in Stored'
    BY <1>5, <1>6, <2>1 DEF Owned
  <2>3. e.do \in {"start", "ensure"} => \E o \in Stored' : e.on \in routes'[o]
    BY <1>2, <1>5, <1>6, <2>1 DEF Owned
  <2>4. ASSUME e.do = "setRoutes", NEW r, StopsIf(c, r) PROVE StopsIf(c, r)'
    <3>1. PICK f \in Left(c) : f.do = "stopIf" /\ f.on = r /\ enabled[f.val]
      BY <2>4 DEF StopsIf
    <3>2. enabled'[f.val] = enabled[f.val]
      BY <1>6, <1>10, <1>11, <2>1, <2>4, <3>1 DEF Shape
    <3> QED
      BY <1>7, <3>1, <3>2 DEF StopsIf
  <2>5. e.do = "setRoutes" =>
          /\ \A f \in Left(c)' : f.do \in {"update", "startIf"} => f.on \in e.val
          /\ \A f \in Left(c)' : f.do = "startIf" => f.val = e.on
          /\ \A r \in routes'[e.on] \ e.val : up'[r] => Stops(c, r, e.on)' \/ StopsIf(c, r)'
          /\ \A o \in AllObjs' : o # e.on => e.val \cap routes'[o] = {}
    BY <1>1, <1>2, <1>5, <1>6, <1>12, <2>1, <2>4 DEF Owned
  <2>6. e.do = "delete" => /\ services'[e.val] = e.on
                           /\ \A r \in routes'[e.on] : up'[r] => Stops(c, r, e.on)'
    BY <1>2, <1>6, <1>12, <2>1 DEF Owned
  <2> QED
    BY <2>2, <2>3, <2>5, <2>6
<1>16. Placed(c)'
  BY <1>2, <1>5, <1>6, <1>7 DEF Placed
<1>17. \A r : Http(r)' <=> Http(r)
  BY <1>2 DEF Http
<1>18. ASSUME NEW o \in Stored, ~enabled'[o], NEW r \in routes[o], Http(r)
       PROVE  Enables(c, o)' \/ Stops(c, r, o)'
  <2>1. CASE o = h.on
    <3>1. h.val = FALSE
      BY <1>3, <1>4, <1>18, <2>1
    <3> QED
      BY <1>1, <1>6, <1>12, <1>18, <2>1, <3>1 DEF Flagged
  <2>2. CASE o # h.on
    <3>1. ~enabled[o]
      BY <1>4, <1>5, <1>18, <2>2
    <3> QED
      BY <1>6, <1>12, <1>13, <1>18, <2>2, <3>1 DEF Flagged
  <2> QED
    BY <2>1, <2>2
<1>19. ASSUME NEW e \in Left(c)', e.do \in {"start", "startEach"}, NEW o \in AllObjs, enabled[o] \/ Enables(c, o)
       PROVE  enabled'[o] \/ Enables(c, o)'
  <2>1. h.val = TRUE
    BY <1>1, <1>6, <1>19 DEF Shape
  <2> QED
    BY <1>4, <1>13, <1>19, <2>1
<1>20. ASSUME NEW e \in Left(c)'
       PROVE  /\ e.do = "enable" /\ e.val = FALSE => \A r \in routes[e.on] : Http(r) => Stops(c, r, e.on)'
              /\ e.do = "start" => \A o \in AllObjs : e.on \in routes[o] => enabled'[o] \/ Enables(c, o)'
              /\ e.do = "startEach" => enabled'[e.on] \/ Enables(c, e.on)'
              /\ e.do = "ensure" => \A o \in AllObjs : e.on \in routes[o] => enabled'[o]
              /\ e.do = "setRoutes" /\ ~enabled'[e.on] => \A r \in e.val \ routes[e.on] : ~Http(r)
  <2>1. e \in Left(c)
    BY <1>1
  <2>2. e.do = "enable" /\ e.val = FALSE => \A r \in routes[e.on] : Http(r) => Stops(c, r, e.on)'
    BY <1>6, <1>12, <2>1 DEF Flagged
  <2>3. e.do = "start" => \A o \in AllObjs : e.on \in routes[o] => enabled'[o] \/ Enables(c, o)'
    BY <1>6, <1>19, <2>1 DEF Flagged
  <2>4. e.do = "startEach" => enabled'[e.on] \/ Enables(c, e.on)'
    BY <1>6, <1>11, <1>19, <2>1 DEF Flagged, OnService
  <2>5. ASSUME e.do = "ensure", NEW o \in AllObjs, e.on \in routes[o] PROVE enabled'[o]
    <3>1. Updating(c)
      BY <1>6, <2>1, <2>5 DEF Shape
    <3> QED
      BY <1>6, <1>10, <2>1, <2>5, <3>1 DEF Flagged
  <2>6. ASSUME e.do = "setRoutes", ~enabled'[e.on], NEW r \in e.val \ routes[e.on] PROVE ~Http(r)
    <3>1. Updating(c) /\ e.on \in AllObjs
      BY <1>6, <1>11, <2>1, <2>6 DEF Shape, OnService
    <3> QED
      BY <1>6, <1>10, <2>1, <2>6, <3>1 DEF Flagged
  <2> QED
    BY <2>2, <2>3, <2>4, <2>5, <2>6
<1>21. Flagged(c)'
  <2>1. \A o \in Stored' : ~enabled'[o] => \A r \in routes'[o] : Http(r)' => Enables(c, o)' \/ Stops(c, r, o)'
    BY <1>2, <1>5, <1>17, <1>18
  <2>2. \A e \in Left(c)' :
          /\ e.do = "enable" /\ e.val = FALSE => \A r \in routes'[e.on] : Http(r)' => Stops(c, r, e.on)'
          /\ e.do = "start" => \A o \in AllObjs' : e.on \in routes'[o] => enabled'[o] \/ Enables(c, o)'
          /\ e.do = "startEach" => enabled'[e.on] \/ Enables(c, e.on)'
          /\ e.do = "ensure" => \A o \in AllObjs' : e.on \in routes'[o] => enabled'[o]
          /\ e.do = "setRoutes" /\ ~enabled'[e.on] => \A r \in e.val \ routes'[e.on] : ~Http(r)'
    BY <1>2, <1>5, <1>17, <1>20
  <2> QED
    BY <2>1, <2>2 DEF Flagged
<1> QED
  BY <1>14, <1>15, <1>16, <1>21 DEF Fine

\* The list of routes is replaced: all that is left is to see that they run.
LEMMA SetRoutesFine ==
  ASSUME TypeOK, KeyInv, NEW c \in Callers, ServiceStep(c), Do(c, "setRoutes"), orderly' \in BOOLEAN, Fine(c)
  PROVE  Fine(c)'
<1> DEFINE h == Head(todo[c])
<1>1. /\ h \in Left(c) /\ h.do = "setRoutes" /\ h.on \in AllObjs /\ todo[c] # << >> /\ Done(c)
      /\ \A e \in Left(c) : e = h \/ e \in Left(c)'
      /\ Left(c)' \subseteq Left(c)
  BY ServiceTyped DEF Becomes, Do, On
<1>2. UNCHANGED <<services, id, enabled, cfg, up>> /\ routes' = [routes EXCEPT ![h.on] = h.val]
  BY DEF ServiceStep, Do, On, Val
<1>3. \A e \in Left(c)' : e.do \in Late
  BY <1>1, HeadOrder DEF KeyInv
<1>4. /\ routes'[h.on] = h.val
      /\ \A o \in AllObjs : o # h.on => routes'[o] = routes[o]
  BY <1>1, <1>2 DEF TypeOK, AllObjs
<1>5. Stored' = Stored /\ AllObjs' = AllObjs /\ AllRoutes' = AllRoutes /\ Stored \subseteq AllObjs
  BY <1>2, StoredObjs DEF Stored, AllObjs, AllRoutes
<1>6. Shape(c) /\ Owned(c) /\ Placed(c) /\ Flagged(c)
  BY DEF Fine
<1> HIDE DEF h
<1>7. Updating(c)'
  <2>1. Updating(c)
    BY <1>1, <1>6 DEF Shape
  <2> QED
    BY <1>1, <2>1 DEF Updating
<1>8. \A r, o : ~Stops(c, r, o) /\ ~StopsIf(c, r) /\ ~Enables(c, o)
  BY <1>1, <1>3 DEF Stops, StopsIf, Enables, Late
<1>9. Shape(c)'
  BY <1>3, <1>7 DEF Shape, Late
<1>10. Owned(c)'
  <2>1. \A e \in Left(c)' : e.do = "ensureEach" => e.on \in Stored
    BY <1>1, <1>6 DEF Owned
  <2> QED
    BY <1>3, <1>5, <2>1 DEF Owned, Late
<1>11. h.on \in Stored /\ \A o \in AllObjs : o # h.on => h.val \cap routes[o] = {}
  BY <1>1, <1>6 DEF Owned
<1>12. Placed(c)'
  <2>1. ASSUME NEW o \in AllObjs, NEW p \in AllObjs, o # p PROVE routes'[o] \cap routes'[p] = {}
    BY <1>4, <1>6, <1>11, <2>1 DEF Placed
  <2>2. ASSUME NEW r \in AllRoutes, up[r] PROVE \E o \in Stored : r \in routes'[o]
    <3>1. CASE r \in h.val
      BY <1>4, <1>11, <3>1
    <3>2. CASE r \notin h.val
      <4>1. \A e \in Left(c) : e.do = "setRoutes" => e = h
        BY <1>1, <1>3 DEF Late
      <4>2. PICK o \in Stored : r \in routes[o]
        BY <1>6, <2>2, <3>2, <4>1 DEF Placed
      <4>3. o # h.on
        BY <1>1, <1>6, <1>8, <2>2, <3>2, <4>2 DEF Owned
      <4> QED
        BY <1>4, <1>5, <4>2, <4>3
    <3> QED
      BY <3>1, <3>2
  <2> QED
    BY <1>2, <1>5, <2>1, <2>2 DEF Placed
<1>13. Flagged(c)'
  <2>1. ASSUME NEW o \in Stored, ~enabled[o], NEW r \in routes'[o] PROVE ~Http(r)
    <3>1. \A q \in routes[o] : ~Http(q)
      BY <1>6, <1>8, <2>1 DEF Flagged
    <3>2. CASE o = h.on
      BY <1>1, <1>4, <1>6, <2>1, <3>1, <3>2 DEF Flagged
    <3>3. CASE o # h.on
      BY <1>4, <1>5, <2>1, <3>1, <3>3
    <3> QED
      BY <3>2, <3>3
  <2>2. \A r : Http(r)' <=> Http(r)
    BY <1>2 DEF Http
  <2> QED
    BY <1>2, <1>3, <1>5, <2>1, <2>2 DEF Flagged, Late
<1> QED
  BY <1>9, <1>10, <1>12, <1>13 DEF Fine

\* What is so when no call is under way.
Calm ==
  /\ \A o, p \in AllObjs : o # p => routes[o] \cap routes[p] = {}
  /\ \A r \in AllRoutes : up[r] => \E o \in Stored : r \in routes[o]
  /\ \A o \in Stored : ~enabled[o] => \A r \in routes[o] : ~Http(r)

LEMMA FineWhenEmpty ==
  ASSUME NEW c \in Callers, Left(c)' = {}
  PROVE  Fine(c)' <=> Calm'
  BY DEF Fine, Shape, Owned, Placed, Flagged, Calm, Stops, Enables

LEMMA DoneIsCalm ==
  ASSUME NEW c \in Callers, Left(c) = {}, Fine(c)
  PROVE  Calm
  BY DEF Fine, Placed, Flagged, Calm, Stops, Enables

LEMMA TableFine ==
  ASSUME TypeOK, KeyInv, NEW c \in Callers, TableStep(c), ~Displaces, orderly' \in BOOLEAN, Fine(c)
  PROVE  Fine(c)'
<1> DEFINE h == Head(todo[c])
<1>1. Left(c) = {h} /\ Left(c)' = {} /\ h.do \in {"rekey", "delete"}
  BY TableFacts
<1>2. UNCHANGED <<id, enabled, routes, cfg, up>>
  BY DEF TableStep, objVars
<1>3. AllObjs' = AllObjs /\ AllRoutes' = AllRoutes /\ Stored \subseteq AllObjs
  BY <1>2, StoredObjs DEF AllObjs, AllRoutes
<1>4. Shape(c) /\ Owned(c) /\ Placed(c) /\ Flagged(c)
  BY DEF Fine
<1>5. /\ h.do = "rekey" => services' = Moved(h.on)
      /\ h.do = "delete" => services' = [services EXCEPT ![h.val] = Nil]
  BY DEF TableStep, Do, On, Val
<1> HIDE DEF h
<1>6. \A r, o : ~Stops(c, r, o) /\ ~Enables(c, o)
  BY <1>1 DEF Stops, Enables
<1>7. \A r \in AllRoutes : up[r] => \E o \in Stored : r \in routes[o]
  BY <1>1, <1>4 DEF Placed
<1>8. \A o \in Stored : ~enabled[o] => \A r \in routes[o] : ~Http(r)
  BY <1>4, <1>6 DEF Flagged
<1>9. Stored' \subseteq Stored /\ \A o \in Stored : o \in Stored' \/ \A r \in routes[o] : ~up[r]
  <2>1. CASE h.do = "rekey"
    <3>1. h.on \in Stored
      BY <1>1, <2>1 DEF KeyInv
    <3>2. /\ KeyFor(h.on) \in Ids /\ services[KeyFor(h.on)] = h.on /\ id[h.on] \in Ids /\ h.on # Nil
          /\ id[h.on] = KeyFor(h.on) => services' = services
          /\ id[h.on] # KeyFor(h.on) =>
               /\ services'[id[h.on]] = h.on /\ services'[KeyFor(h.on)] = Nil
               /\ \A i \in Ids \ {id[h.on], KeyFor(h.on)} : services'[i] = services[i]
      BY <1>5, <2>1, <3>1, MovedKeys
    <3>3. CASE id[h.on] = KeyFor(h.on)
      BY <3>2, <3>3 DEF Stored
    <3>4. CASE id[h.on] # KeyFor(h.on)
      <4>1. \A i \in Ids : services'[i] \in {h.on, Nil, services[i]}
        BY <3>2, <3>4
      <4>2. Stored' \subseteq Stored
        BY <3>1, <4>1 DEF Stored
      <4>3. ASSUME NEW i \in Ids, services[i] # Nil PROVE services[i] \in Stored'
        <5>1. services'[i] \in {services[i], Nil}
          BY <4>3 DEF Displaces
        <5>2. CASE services'[i] = services[i]
          BY <4>3, <5>2 DEF Stored
        <5>3. CASE services'[i] = Nil
          <6>1. i # id[h.on]
            BY <3>2, <3>4, <5>3
          <6>2. services[i] = h.on
            BY <3>2, <3>4, <4>3, <5>3, <6>1
          <6> QED
            BY <3>2, <3>4, <6>2 DEF Stored
        <5> QED
          BY <5>1, <5>2, <5>3
      <4> QED
        BY <4>2, <4>3 DEF Stored
    <3> QED
      BY <3>3, <3>4
  <2>2. CASE h.do = "delete"
    <3>1. h.val \in Ids /\ services[h.val] = h.on
      BY <1>1, <1>4, <2>2, LeftTyped DEF EntryOK, Owned
    <3>2. \A r \in routes[h.on] : ~up[r]
      BY <1>1, <1>4, <1>6, <2>2 DEF Owned
    <3>3. services'[h.val] = Nil /\ \A i \in Ids : i # h.val => services'[i] = services[i]
      BY <1>5, <2>2, <3>1 DEF TypeOK
    <3> QED
      BY <3>1, <3>2, <3>3 DEF Stored
  <2> QED
    BY <1>1, <2>1, <2>2
<1>10. Calm'
  <2>1. \A r \in AllRoutes : up[r] => \E o \in Stored' : r \in routes[o]
    BY <1>7, <1>9
  <2>2. \A o, p \in AllObjs : o # p => routes[o] \cap routes[p] = {}
    BY <1>4 DEF Placed
  <2>3. \A o \in Stored' : ~enabled[o] => \A r \in routes[o] : ~Http(r)
    BY <1>8, <1>9
  <2> QED
    BY <1>2, <1>3, <2>1, <2>2, <2>3 DEF Calm, Http
<1> QED
  BY <1>1, <1>10, FineWhenEmpty

\* A caller that is not idle has begun, and what it has left stays.
LEMMA UnlockFine ==
  ASSUME NEW c \in Callers, Unlock(c), Fine(c)
  PROVE  Fine(c)'
  BY DEF Unlock, objVars, Fine, Shape, Owned, Placed, Flagged, Stops, StopsIf, Enables, Http, Updating,
         Stored, AllObjs, AllRoutes, Left, Pos

-----------------------------------------------------------------------------
(* Calls that begin when all is calm. *)

LEMMA CreateFine ==
  ASSUME TypeOK, NEW c \in Callers, NEW i \in Ids, NEW en \in BOOLEAN, NEW fs \in SUBSET Cfgs,
         Create(c, i, en, fs), orderly' \in BOOLEAN, Calm
  PROVE  Fine(c)'
<1>1. Left(c)' = {} \/ Left(c)' = StartPair(Len(id) + 1)
  BY CreateTyped
<1>2. PICK n \in Nat : n = Len(id) + 1
  BY DEF TypeOK
<1>3. Len(id) \in Nat /\ AllObjs = 1..Len(id) /\ n \notin AllObjs /\ n # Nil
  BY <1>2 DEF TypeOK, AllObjs, Nil
<1>4. services' = [services EXCEPT ![i] = n] /\ services[i] = Nil
  BY <1>2 DEF Create
<1>5. Stored' = Stored \cup {n}
  <2>1. services'[i] = n /\ \A k \in Ids : k # i => services'[k] = services[k]
    BY <1>4 DEF TypeOK
  <2> QED
    BY <1>3, <1>4, <2>1 DEF Stored
<1>6. AllObjs' = AllObjs \cup {n}
  <2>1. Len(id)' = n
    BY <1>2, <1>3 DEF Create, TypeOK
  <2> QED
    BY <1>2, <1>3, <2>1 DEF AllObjs
<1>7. /\ \A r \in AllRoutes : cfg'[r] = cfg[r] /\ up'[r] = up[r]
      /\ \A r \in Numbers(fs) : up'[r] = FALSE
      /\ Numbers(fs) = AllRoutes' \ AllRoutes
  BY NewRoutesType DEF Create
<1>8. routes'[n] = Numbers(fs) /\ \A o \in AllObjs : routes'[o] = routes[o] /\ routes[o] \subseteq AllRoutes
  <2>1. routes' = Append(routes, Numbers(fs)) /\ Len(routes) = Len(id) /\ routes \in Seq(SUBSET AllRoutes)
    BY DEF Create, TypeOK
  <2> QED
    BY <1>2, <1>3, <2>1
<1>9. \A o \in AllObjs : enabled'[o] = enabled[o]
  <2> DEFINE Flag == BOOLEAN
  <2>1. enabled' = Append(enabled, en) /\ Len(enabled) = Len(id) /\ enabled \in Seq(Flag) /\ en \in Flag
    BY DEF Create, TypeOK
  <2> HIDE DEF Flag
  <2> QED
    BY <1>3, <2>1
<1>10. Stored \subseteq AllObjs
  BY StoredObjs
<1>11. Calm'
  <2>1. ASSUME NEW o \in AllObjs', NEW p \in AllObjs', o # p PROVE routes'[o] \cap routes'[p] = {}
    <3>1. CASE o \in AllObjs /\ p \in AllObjs
      BY <1>8, <2>1, <3>1 DEF Calm
    <3>2. CASE o = n \/ p = n
      BY <1>6, <1>7, <1>8, <2>1, <3>2
    <3> QED
      BY <1>6, <3>1, <3>2
  <2>2. ASSUME NEW r \in AllRoutes', up'[r] PROVE \E o \in Stored' : r \in routes'[o]
    <3>1. r \in AllRoutes /\ up[r]
      BY <1>7, <2>2
    <3>2. PICK o \in Stored : r \in routes[o]
      BY <3>1 DEF Calm
    <3> QED
      BY <1>5, <1>8, <1>10, <3>2
  <2>3. ASSUME NEW o \in Stored', ~enabled'[o], NEW r \in routes'[o] PROVE ~Http(r)'
    <3>1. CASE o = n
      BY <1>7, <1>8, <2>3, <3>1 DEF Http
    <3>2. CASE o \in Stored
      <4>1. o \in AllObjs /\ ~enabled[o] /\ r \in routes[o] /\ r \in AllRoutes
        BY <1>8, <1>9, <1>10, <2>3, <3>2
      <4>2. ~Http(r)
        BY <3>2, <4>1 DEF Calm
      <4> QED
        BY <1>7, <4>1, <4>2 DEF Http
    <3> QED
      BY <1>5, <3>1, <3>2
  <2> QED
    BY <2>1, <2>2, <2>3 DEF Calm
<1>12. CASE Left(c)' = {}
  BY <1>11, <1>12, FineWhenEmpty
<1>13. CASE Left(c)' = StartPair(n)
  <2>1. /\ Entry("startEach", n, Nil) \in Left(c)' /\ Entry("enable", n, TRUE) \in Left(c)'
        /\ \A e \in Left(c)' : e.do \in {"startEach", "enable"} /\ e.on = n /\ (e.do = "enable" => e.val = TRUE)
    BY <1>13 DEF StartPair, Entry
  <2>2. Shape(c)'
    BY <2>1 DEF Shape, Updating
  <2>3. Owned(c)'
    BY <1>5, <2>1 DEF Owned
  <2>4. Placed(c)'
    BY <1>11 DEF Calm, Placed
  <2>5. Enables(c, n)'
    BY <2>1 DEF Enables, Entry
  <2>6. Flagged(c)'
    BY <1>11, <2>1, <2>5 DEF Calm, Flagged
  <2> QED
    BY <2>2, <2>3, <2>4, <2>6 DEF Fine
<1> QED
  BY <1>1, <1>2, <1>12, <1>13

LEMMA UpdateFine ==
  ASSUME TypeOK, KeyInv, NEW c \in Callers, NEW i \in Ids, NEW j \in Ids, NEW en \in BOOLEAN,
         NEW fs \in SUBSET Cfgs, Update(c, i, j, en, fs), orderly' \in BOOLEAN, Calm
  PROVE  Fine(c)'
<1>0. PICK o \in AllObjs : o = services[i]
  BY DEF TypeOK, Update, Nil, AllObjs
<1> DEFINE F == FrontWork(o, en, fs)
           val == KeptRoutes(o, fs) \cup MadeRoutes(o, fs)
<1>1. Left(c)' = F \cup BackWork(o, j, fs)
  BY <1>0, UpdateTyped DEF Begun
<1>2. /\ MadeRoutes(o, fs) = AllRoutes' \ AllRoutes
      /\ KeptRoutes(o, fs) \subseteq routes[o] /\ routes[o] \subseteq AllRoutes
  BY <1>0, MadeAreNew DEF Update
<1>3. /\ \A r \in AllRoutes : cfg'[r] = cfg[r] /\ up'[r] = up[r]
      /\ \A r \in AllRoutes' \ AllRoutes : up'[r] = FALSE
  <2>1. fs \ {cfg[r] : r \in routes[o]} \in SUBSET Cfgs /\ NewRoutes(fs \ {cfg[r] : r \in routes[o]})
    BY <1>0 DEF Update
  <2> QED
    BY <2>1, NewRoutesType
<1>4. /\ services' = services /\ routes' = routes /\ id' = [id EXCEPT ![o] = j]
      /\ enabled' = [enabled EXCEPT ![o] = en]
  BY <1>0 DEF Update
<1>5. Stored' = Stored /\ AllObjs' = AllObjs /\ Stored \subseteq AllObjs /\ o \in Stored
  <2>1. Len(id') = Len(id)
    BY <1>4 DEF TypeOK
  <2>2. o # Nil
    BY DEF AllObjs, Nil, TypeOK
  <2> QED
    BY <1>0, <1>4, <2>1, <2>2, StoredObjs DEF Stored, AllObjs
<1>6. enabled'[o] = en /\ \A p \in AllObjs : p # o => enabled'[p] = enabled[p]
  <2> DEFINE Flag == BOOLEAN
  <2>1. enabled \in Seq(Flag) /\ Len(enabled) = Len(id) /\ en \in Flag
    BY DEF TypeOK
  <2> HIDE DEF Flag
  <2> QED
    BY <1>4, <2>1 DEF AllObjs
\* What there is to do, by kind.
<1>7. \A e \in Left(c)' :
        /\ e.do \in {"stopEach", "enable", "update", "stopIf", "startIf", "setRoutes", "ensureEach", "rekey"}
        /\ e.do \in {"enable", "setRoutes", "ensureEach", "rekey"} => e.on = o
        /\ e.do = "enable" => e.val = FALSE /\ ~en
        /\ e.do \in {"update", "startIf"} => e.on \in val
        /\ e.do = "startIf" => e.val = o
        /\ e.do = "setRoutes" => e.val = val
  <2>1. \A e \in BackWork(o, j, fs) :
          /\ e.do \in {"setRoutes", "ensureEach", "rekey"} /\ e.on = o
          /\ e.do = "setRoutes" => e.val = val
    BY DEF BackWork, Entry
  <2>2. ASSUME NEW e \in F
        PROVE  \/ e.do = "stopEach"
               \/ e.do = "enable" /\ e.on = o /\ e.val = FALSE /\ ~en
               \/ e.do = "update" /\ e.on \in val
               \/ e.do = "stopIf"
               \/ e.do = "startIf" /\ e.on \in val /\ e.val = o
    BY DEF FrontWork, Entry
  <2> QED
    BY <1>1, <2>1, <2>2
<1>8. /\ Entry("setRoutes", o, val) \in Left(c)' /\ Entry("rekey", o, j) \in Left(c)'
      /\ \A r \in routes[o] \ KeptRoutes(o, fs) : Entry("stopIf", r, o) \in Left(c)'
      /\ ~en => Entry("stopEach", o, Nil) \in Left(c)'
  BY <1>1 DEF FrontWork, BackWork
<1> HIDE DEF F, val
<1>9. Updating(c)' /\ \E f \in Left(c)' : f.do = "setRoutes"
  BY <1>8 DEF Updating, Entry
<1>10. ~en => \A r : Stops(c, r, o)'
  BY <1>8 DEF Stops, Entry
<1>11. en => \A r \in routes[o] \ KeptRoutes(o, fs) : StopsIf(c, r)'
  BY <1>6, <1>8 DEF StopsIf, Entry
<1>12. Shape(c)'
  BY <1>6, <1>7, <1>9 DEF Shape
<1>13. \A p \in AllObjs : p # o => val \cap routes[p] = {}
  BY <1>2, ObjsRoutes DEF val, Calm
<1>14. Owned(c)'
  <2>1. \A e \in Left(c)' : e.do \in {"startEach", "ensureEach", "setRoutes"} => e.on \in Stored'
    BY <1>5, <1>7
  <2>2. \A r \in routes[o] \ val : Stops(c, r, o)' \/ StopsIf(c, r)'
    BY <1>10, <1>11 DEF val
  <2> QED
    BY <1>4, <1>5, <1>7, <1>13, <2>1, <2>2 DEF Owned
<1>15. Placed(c)'
  <2>1. \A r \in AllRoutes' : up'[r] => r \in AllRoutes /\ up[r]
    BY <1>3
  <2> QED
    BY <1>4, <1>5, <2>1 DEF Calm, Placed
<1>16. \A p \in AllObjs : \A r \in routes[p] : Http(r)' <=> Http(r)
  BY <1>3, ObjsRoutes DEF Http
<1>17. Flagged(c)'
  <2>1. ASSUME NEW p \in Stored, ~enabled'[p], NEW r \in routes[p], Http(r)' PROVE Stops(c, r, p)'
    <3>1. CASE p = o
      BY <1>6, <1>10, <2>1, <3>1
    <3>2. CASE p # o
      BY <1>5, <1>6, <1>16, <2>1, <3>2 DEF Calm
    <3> QED
      BY <3>1, <3>2
  <2>2. \A r \in val \ routes[o] : ~Http(r)'
    BY <1>2, <1>3 DEF val, Http
  <2>3. \A e \in Left(c)' :
          /\ e.do = "enable" => \A r : Stops(c, r, e.on)'
          /\ e.do = "setRoutes" => \A r \in e.val \ routes'[e.on] : ~Http(r)'
          /\ e.do \notin {"start", "startEach", "ensure"}
    BY <1>4, <1>7, <1>10, <2>2
  <2>4. \A p \in Stored' : ~enabled'[p] => \A r \in routes'[p] : Http(r)' => Enables(c, p)' \/ Stops(c, r, p)'
    BY <1>4, <1>5, <2>1
  <2> QED
    BY <2>3, <2>4 DEF Flagged
<1> QED
  BY <1>12, <1>14, <1>15, <1>17 DEF Fine

\* The other calls begin with a change to nothing but what is left to do.
CalmStays == UNCHANGED <<services, id, enabled, routes, cfg, up>>

LEMMA CalmRemains ==
  ASSUME Calm, CalmStays
  PROVE  Calm' /\ Stored' = Stored /\ AllObjs' = AllObjs
  BY DEF Calm, CalmStays, Stored, AllObjs, AllRoutes, Http

LEMMA RemoveFine ==
  ASSUME TypeOK, NEW c \in Callers, NEW i \in Ids, RemoveService(c, i), orderly' \in BOOLEAN, Calm
  PROVE  Fine(c)'
<1>0. PICK o \in AllObjs : o = services[i]
  BY RemoveTyped
<1>1. Left(c)' = {Entry("stopEach", o, Nil), Entry("delete", o, i)}
  BY <1>0, RemoveTyped DEF Begun
<1>2. CalmStays
  BY DEF RemoveService, objVars, CalmStays
<1>3. Calm' /\ services' = services
  BY <1>2, CalmRemains DEF CalmStays
<1>4. /\ \A e \in Left(c)' : e.do \in {"stopEach", "delete"} /\ (e.do = "delete" => e.on = o /\ e.val = i)
      /\ \A e, f \in Left(c)' : e.do = "delete" => f = e \/ f.do = "stopEach"
      /\ \A r : Stops(c, r, o)'
  BY <1>1 DEF Stops, Entry
<1>5. Shape(c)'
  BY <1>4 DEF Shape
<1>6. Owned(c)'
  BY <1>0, <1>3, <1>4 DEF Owned
<1>7. Placed(c)' /\ Flagged(c)'
  BY <1>3, <1>4 DEF Placed, Flagged, Calm
<1> QED
  BY <1>5, <1>6, <1>7 DEF Fine

\* Starting some stored services, or stopping them.
LEMMA PairsFine ==
  ASSUME NEW c \in Callers, Calm, CalmStays, NEW S \in SUBSET Stored,
         \/ Left(c)' = AllPairs("startEach", TRUE, S)
         \/ Left(c)' = AllPairs("stopEach", FALSE, S)
  PROVE  Fine(c)'
<1>1. Calm' /\ Stored' = Stored
  BY CalmRemains
<1>2. CASE Left(c)' = AllPairs("startEach", TRUE, S)
  <2>1. \A e \in Left(c)' : e.do \in {"startEach", "enable"} /\ e.on \in S /\ (e.do = "enable" => e.val = TRUE)
    BY <1>2 DEF AllPairs, Entry
  <2>2. \A o \in S : Enables(c, o)'
    <3>1. \A o \in S : Entry("enable", o, TRUE) \in Left(c)'
      BY <1>2 DEF AllPairs
    <3> QED
      BY <3>1 DEF Enables, Entry
  <2>3. Shape(c)'
    BY <2>1 DEF Shape, Updating
  <2>4. Owned(c)'
    BY <1>1, <2>1 DEF Owned
  <2>5. Placed(c)' /\ Flagged(c)'
    BY <1>1, <2>1, <2>2 DEF Placed, Flagged, Calm
  <2> QED
    BY <2>3, <2>4, <2>5 DEF Fine
<1>3. CASE Left(c)' = AllPairs("stopEach", FALSE, S)
  <2>1. \A e \in Left(c)' : e.do \in {"stopEach", "enable"} /\ e.on \in S /\ (e.do = "enable" => e.val = FALSE)
    BY <1>3 DEF AllPairs, Entry
  <2>2. \A o \in S : \A r : Stops(c, r, o)'
    <3>1. \A o \in S : Entry("stopEach", o, Nil) \in Left(c)'
      BY <1>3 DEF AllPairs
    <3> QED
      BY <3>1 DEF Stops, Entry
  <2>3. Shape(c)'
    BY <2>1 DEF Shape, Updating
  <2>4. Owned(c)'
    BY <1>1, <2>1 DEF Owned
  <2>5. Placed(c)' /\ Flagged(c)'
    BY <1>1, <2>1, <2>2 DEF Placed, Flagged, Calm
  <2> QED
    BY <2>3, <2>4, <2>5 DEF Fine
<1> QED
  BY <1>2, <1>3

LEMMA OneFine ==
  ASSUME TypeOK, NEW c \in Callers, NEW i \in Ids, StartOne(c, i) \/ StopOne(c, i), orderly' \in BOOLEAN, Calm
  PROVE  Fine(c)'
<1>1. CalmStays
  BY DEF StartOne, StopOne, objVars, CalmStays
<1>2. services[i] \in Stored
  BY DEF StartOne, StopOne, Stored
<1>3. \/ Left(c)' = AllPairs("startEach", TRUE, {services[i]})
      \/ Left(c)' = AllPairs("stopEach", FALSE, {services[i]})
  <2>1. \A o : /\ StartPair(o) = AllPairs("startEach", TRUE, {o})
               /\ StopPair(o) = AllPairs("stopEach", FALSE, {o})
    BY DEF StartPair, StopPair, AllPairs
  <2>2. Left(c)' = StartPair(services[i]) \/ Left(c)' = StopPair(services[i])
    BY OneTyped DEF Begun
  <2> QED
    BY <2>1, <2>2
<1>4. {services[i]} \in SUBSET Stored
  BY <1>2
<1> QED
  BY <1>1, <1>3, <1>4, PairsFine

LEMMA AllFine ==
  ASSUME TypeOK, NEW c \in Callers, StartAll(c) \/ StopAll(c), orderly' \in BOOLEAN, Calm
  PROVE  Fine(c)'
<1>1. CalmStays
  BY DEF StartAll, StopAll, objVars, CalmStays
<1>2. \E S \in SUBSET Stored : \/ Left(c)' = AllPairs("startEach", TRUE, S)
                               \/ Left(c)' = AllPairs("stopEach", FALSE, S)
  BY AllTyped DEF Begun
<1> QED
  BY <1>1, <1>2, PairsFine

-----------------------------------------------------------------------------
(* The inductive invariant. *)

\* As long as calls come one at a time: at rest all is calm, and the call under
\* way is fine.
OrderInv ==
  orderly => /\ Alone
             /\ AtRest => Calm
             /\ \A c \in Callers : ~Idle(c) => Fine(c)

Inv == TypeOK /\ KeyInv /\ OrderInv

LEMMA InitInv == Init => Inv
<1> SUFFICES ASSUME Init PROVE Inv
  OBVIOUS
<1>1. /\ Len(id) = 0 /\ Len(cfg) = 0 /\ Len(enabled) = 0 /\ Len(routes) = 0 /\ Len(up) = 0
      /\ id \in Seq(Ids) /\ cfg \in Seq(Cfgs) /\ routes \in Seq(SUBSET AllRoutes)
  BY DEF Init
<1>2. enabled \in Seq(BOOLEAN) /\ up \in Seq(BOOLEAN)
  <2> DEFINE Flag == BOOLEAN
  <2> HIDE DEF Flag
  <2>1. enabled \in Seq(Flag) /\ up \in Seq(Flag)
    BY DEF Init
  <2> QED
    BY <2>1 DEF Flag
<1>3. AllObjs = {} /\ AllRoutes = {} /\ Stored = {}
  BY <1>1 DEF AllObjs, AllRoutes, Stored, Init
<1>4. \A c \in Callers : Pos(c) = {} /\ Left(c) = {} /\ Idle(c)
  <2> SUFFICES ASSUME NEW c \in Callers PROVE Pos(c) = {} /\ Left(c) = {} /\ Idle(c)
    OBVIOUS
  <2>1. todo[c] = << >> /\ writer = Nobody /\ readers = {}
    BY DEF Init
  <2>2. Pos(c) = {}
    BY <2>1 DEF Pos
  <2> QED
    BY <2>1, <2>2, NobodyAssumption DEF Left, Idle
<1>5. TypeOK
  <2>1. services \in [Ids -> 0..Len(id)]
    BY <1>1 DEF Init, Nil
  <2>2. todo \in [Callers -> Seq(Entries)]
    <3>1. << >> \in Seq(Entries)
      OBVIOUS
    <3> QED
      BY <3>1 DEF Init
  <2>3. writer \in Callers \cup {Nobody} /\ readers \subseteq Callers /\ orderly \in BOOLEAN
    BY DEF Init
  <2> QED
    BY <1>1, <1>2, <1>4, <2>1, <2>2, <2>3 DEF TypeOK
<1>6. KeyInv
  BY <1>4 DEF KeyInv, Ordered, Init
<1>7. OrderInv
  BY <1>3, <1>4 DEF OrderInv, Alone, Calm
<1> QED
  BY <1>5, <1>6, <1>7 DEF Inv

\* A call that begins out of the blue; one that goes on.
LEMMA BeginOrder ==
  ASSUME NEW c \in Callers, OrderInv, Orderly, Idle(c), ~Idle(c)', Calm => Fine(c)',
         \A e \in Callers : e # c /\ Idle(e)' => Idle(e)
  PROVE  OrderInv'
<1> SUFFICES ASSUME orderly' PROVE Alone' /\ (AtRest' => Calm') /\ \A e \in Callers : ~Idle(e)' => Fine(e)'
  BY DEF OrderInv
<1>1. orderly /\ Alone'
  BY DEF Orderly
<1>2. \A e \in Callers : e # c => Idle(e)'
  BY <1>1 DEF Alone
<1>3. Calm
  BY <1>1, <1>2 DEF OrderInv, AtRest
<1> QED
  BY <1>1, <1>2, <1>3 DEF AtRest

LEMMA WorkOrder ==
  ASSUME NEW c \in Callers, OrderInv, Orderly, ~Idle(c), ~Displaces /\ Fine(c) => Fine(c)',
         \A e \in Callers : e # c /\ Idle(e) => Idle(e)'
  PROVE  OrderInv'
<1> SUFFICES ASSUME orderly' PROVE Alone' /\ (AtRest' => Calm') /\ \A e \in Callers : ~Idle(e)' => Fine(e)'
  BY DEF OrderInv
<1>1. orderly /\ Alone' /\ ~Displaces
  BY DEF Orderly
<1>2. \A e \in Callers : e # c => Idle(e)'
  BY <1>1 DEF OrderInv, Alone
<1>3. Fine(c)'
  BY <1>1 DEF OrderInv
<1>4. ASSUME Idle(c)' PROVE Calm'
  <2>1. Left(c)' = {}
    <3>1. todo'[c] = << >>
      BY <1>4 DEF Idle
    <3>2. Pos(c)' = {}
      BY <3>1 DEF Pos
    <3> QED
      BY <3>2 DEF Left
  <2> QED
    BY <1>3, <2>1, FineWhenEmpty
<1> QED
  BY <1>1, <1>2, <1>3, <1>4 DEF AtRest

\* Whoever is idle has nothing left; whoever has nothing left and no lock is idle.
LEMMA IdleLeft ==
  ASSUME TypeOK, NEW c \in Callers
  PROVE  /\ Idle(c) => Left(c) = {}
         /\ todo[c] = << >> => Left(c) = {}
<1>1. ASSUME todo[c] = << >> PROVE Left(c) = {}
  <2>1. Pos(c) = {}
    BY <1>1 DEF Pos
  <2> QED
    BY <2>1 DEF Left
<1> QED
  BY <1>1 DEF Idle

LEMMA BusyThen ==
  ASSUME NEW c \in Callers, Left(c)' # {}
  PROVE  ~Idle(c)'
<1>1. ASSUME todo'[c] = << >> PROVE Left(c)' = {}
  <2>1. Pos(c)' = {}
    BY <1>1 DEF Pos
  <2> QED
    BY <2>1 DEF Left
<1> QED
  BY <1>1 DEF Idle

\* A call that begins takes nothing from the others, one that goes on gives
\* them nothing to do.
LEMMA OthersUntouched ==
  ASSUME NEW c \in Callers, OthersWait(c)
  PROVE  /\ (writer' = writer \/ (writer = Nobody /\ writer' = c)) /\ readers \subseteq readers' =>
              \A e \in Callers : e # c /\ Idle(e)' => Idle(e)
         /\ writer' \in {writer, Nobody} /\ readers' \subseteq readers =>
              \A e \in Callers : e # c /\ Idle(e) => Idle(e)'
<1>1. \A e \in Callers : e # c => todo'[e] = todo[e]
  BY DEF OthersWait
<1>2. ASSUME writer' = writer \/ (writer = Nobody /\ writer' = c), readers \subseteq readers'
      PROVE  \A e \in Callers : e # c /\ Idle(e)' => Idle(e)
  BY <1>1, <1>2, NobodyAssumption DEF Idle
<1>3. ASSUME writer' \in {writer, Nobody}, readers' \subseteq readers
      PROVE  \A e \in Callers : e # c /\ Idle(e) => Idle(e)'
  BY <1>1, <1>3, NobodyAssumption DEF Idle
<1> QED
  BY <1>2, <1>3

LEMMA CreateInv ==
  ASSUME Inv, NEW c \in Callers, NEW i \in Ids, NEW en \in BOOLEAN, NEW fs \in SUBSET Cfgs,
         Create(c, i, en, fs), Orderly, orderly' \in BOOLEAN
  PROVE  Inv'
<1>1. TypeOK /\ KeyInv /\ OrderInv
  BY DEF Inv
<1>2. TypeOK' /\ OthersWait(c)
  BY <1>1, CreateTyped
<1>3. KeyInv'
  BY <1>1, CreateKeepsKeys
<1>4. Idle(c) /\ ~Idle(c)' /\ writer = Nobody /\ writer' = c /\ readers' = readers
  BY DEF Create, Lock, Idle
<1>5. \A e \in Callers : e # c /\ Idle(e)' => Idle(e)
  BY <1>2, <1>4, OthersUntouched
<1>6. Calm => Fine(c)'
  BY <1>1, CreateFine
<1>7. OrderInv'
  BY <1>1, <1>4, <1>5, <1>6, BeginOrder
<1> QED
  BY <1>2, <1>3, <1>7 DEF Inv

LEMMA UpdateInv ==
  ASSUME Inv, NEW c \in Callers, NEW i \in Ids, NEW j \in Ids, NEW en \in BOOLEAN,
         NEW fs \in SUBSET Cfgs, Update(c, i, j, en, fs), Orderly, orderly' \in BOOLEAN
  PROVE  Inv'
<1>1. TypeOK /\ KeyInv /\ OrderInv
  BY DEF Inv
<1>2. TypeOK' /\ OthersWait(c)
  BY <1>1, UpdateTyped DEF Begun
<1>3. KeyInv'
  BY <1>1, UpdateKeepsKeys
<1>4. Idle(c) /\ ~Idle(c)' /\ writer = Nobody /\ writer' = c /\ readers' = readers
  BY DEF Update, Lock, Idle
<1>5. \A e \in Callers : e # c /\ Idle(e)' => Idle(e)
  BY <1>2, <1>4, OthersUntouched
<1>6. Calm => Fine(c)'
  BY <1>1, UpdateFine
<1>7. OrderInv'
  BY <1>1, <1>4, <1>5, <1>6, BeginOrder
<1> QED
  BY <1>2, <1>3, <1>7 DEF Inv

LEMMA RemoveInv ==
  ASSUME Inv, NEW c \in Callers, NEW i \in Ids, RemoveService(c, i), Orderly, orderly' \in BOOLEAN
  PROVE  Inv'
<1> DEFINE X == {Entry("stopEach", services[i], Nil), Entry("delete", services[i], i)}
<1>1. TypeOK /\ KeyInv /\ OrderInv
  BY DEF Inv
<1>2. TypeOK' /\ Begun(c, X) /\ OthersWait(c)
  BY <1>1, RemoveTyped DEF Begun
<1>3. /\ Idle(c) /\ ~Idle(c)' /\ writer = Nobody /\ writer' = c /\ readers' = readers
      /\ UNCHANGED services /\ UNCHANGED id
  BY DEF RemoveService, Lock, Idle, objVars
<1>4. \A e \in X : e.do # "rekey"
  BY DEF Entry
<1>5. Left(c) = {}
  BY <1>1, <1>3, IdleLeft
<1> HIDE DEF X
<1>6. KeyInv'
  BY <1>1, <1>2, <1>3, <1>4, <1>5, BegunKeepsKeys
<1>7. \A e \in Callers : e # c /\ Idle(e)' => Idle(e)
  BY <1>2, <1>3, OthersUntouched
<1>8. Calm => Fine(c)'
  BY <1>1, RemoveFine
<1>9. OrderInv'
  BY <1>1, <1>3, <1>7, <1>8, BeginOrder
<1> QED
  BY <1>2, <1>6, <1>9 DEF Inv

\* A call of StartAll, StopAll or of a handler: all it has to do is harmless.
LEMMA HarmlessInv ==
  ASSUME Inv, NEW c \in Callers, NEW X, Begun(c, X), TypeOK', Idle(c), ~Idle(c)',
         UNCHANGED services, UNCHANGED id, UNCHANGED writer, readers \subseteq readers',
         \A e \in X : e.do \in Harmless, Calm => Fine(c)', Orderly
  PROVE  Inv'
<1>1. TypeOK /\ KeyInv /\ OrderInv
  BY DEF Inv
<1>2. \A e \in X : e.do # "rekey"
  BY DEF Harmless
<1>3. Left(c) = {} /\ OthersWait(c)
  BY <1>1, IdleLeft DEF Begun
<1>4. KeyInv'
  BY <1>1, <1>2, <1>3, BegunKeepsKeys
<1>5. \A e \in Callers : e # c /\ Idle(e)' => Idle(e)
  BY <1>3, OthersUntouched
<1>6. OrderInv'
  BY <1>1, <1>5, BeginOrder
<1> QED
  BY <1>4, <1>6 DEF Inv

LEMMA OneInv ==
  ASSUME Inv, NEW c \in Callers, NEW i \in Ids, StartOne(c, i) \/ StopOne(c, i), Orderly,
         orderly' \in BOOLEAN
  PROVE  Inv'
<1>1. TypeOK /\ KeyInv /\ OrderInv
  BY DEF Inv
<1>2. /\ Idle(c) /\ UNCHANGED services /\ UNCHANGED id /\ UNCHANGED writer /\ readers \subseteq readers'
  BY DEF StartOne, StopOne, objVars
<1>3. \A e \in StartPair(services[i]) \cup StopPair(services[i]) : e.do \in Harmless
  BY DEF StartPair, StopPair, Entry, Harmless
<1>4. StartPair(services[i]) # {} /\ StopPair(services[i]) # {}
  BY DEF StartPair, StopPair
<1>5. PICK X \in {StartPair(services[i]), StopPair(services[i])} : TypeOK' /\ Begun(c, X)
  BY <1>1, OneTyped
<1>6. ~Idle(c)'
  BY <1>4, <1>5, BusyThen DEF Begun
<1>7. Calm => Fine(c)'
  BY <1>1, OneFine
<1> QED
  BY <1>2, <1>3, <1>5, <1>6, <1>7, HarmlessInv

LEMMA AllInv ==
  ASSUME Inv, NEW c \in Callers, StartAll(c) \/ StopAll(c), Orderly, orderly' \in BOOLEAN
  PROVE  Inv'
<1>1. TypeOK /\ KeyInv /\ OrderInv
  BY DEF Inv
<1>2. /\ Idle(c) /\ ~Idle(c)' /\ UNCHANGED services /\ UNCHANGED id /\ UNCHANGED writer
      /\ readers \subseteq readers'
  BY DEF StartAll, StopAll, RLock, Idle, objVars
<1>3. \A do \in {"startEach", "stopEach"} : \A v, S : \A e \in AllPairs(do, v, S) : e.do \in Harmless
  BY DEF AllPairs, Entry, Harmless
<1>4. \E do \in {"startEach", "stopEach"} : \E v, S : TypeOK' /\ Begun(c, AllPairs(do, v, S))
  BY <1>1, AllTyped
<1>5. PICK X : TypeOK' /\ Begun(c, X) /\ \A e \in X : e.do \in Harmless
  BY <1>3, <1>4
<1>6. Calm => Fine(c)'
  BY <1>1, AllFine
<1> QED
  BY <1>2, <1>5, <1>6, HarmlessInv

\* A call that goes on with the first thing it has left to do.
LEMMA GoingOn ==
  ASSUME Inv, NEW c \in Callers, NEW X, Becomes(c, X), todo[c] # << >>, UNCHANGED <<writer, readers>>,
         TypeOK', KeyInv', ~Displaces /\ Fine(c) => Fine(c)', Orderly
  PROVE  Inv'
<1>1. OthersWait(c)
  BY DEF Becomes
<1>2. ~Idle(c)
  BY DEF Idle
<1>3. \A e \in Callers : e # c /\ Idle(e) => Idle(e)'
  BY <1>1, OthersUntouched
<1>4. OrderInv'
  BY <1>2, <1>3, WorkOrder DEF Inv
<1> QED
  BY <1>4 DEF Inv

LEMMA RouteInv ==
  ASSUME Inv, NEW c \in Callers, RouteStep(c), Orderly, orderly' \in BOOLEAN
  PROVE  Inv'
<1>1. TypeOK /\ KeyInv
  BY DEF Inv
<1>2. TypeOK' /\ Becomes(c, {})
  BY <1>1, RouteTyped
<1>3. KeyInv'
  BY <1>1, RouteKeepsKeys
<1>4. todo[c] # << >> /\ UNCHANGED <<writer, readers>>
  BY DEF RouteStep, Do
<1>5. Fine(c) => Fine(c)'
  BY <1>1, RouteProgress, ProgressFine
<1> QED
  BY <1>2, <1>3, <1>4, <1>5, GoingOn

LEMMA LoopInv ==
  ASSUME Inv, NEW c \in Callers, LoopStep(c), Orderly, orderly' \in BOOLEAN
  PROVE  Inv'
<1>1. TypeOK /\ KeyInv
  BY DEF Inv
<1>2. TypeOK'
  BY <1>1, LoopTyped
<1>3. PICK X : Progress(c, X)
  BY <1>1, LoopProgress
<1>4. KeyInv'
  BY <1>1, LoopKeepsKeys
<1>5. todo[c] # << >> /\ UNCHANGED <<writer, readers>>
  BY DEF LoopStep, Do
<1>6. Becomes(c, X)
  BY <1>3 DEF Progress
<1>7. Fine(c) => Fine(c)'
  BY <1>1, <1>3, ProgressFine
<1> QED
  BY <1>2, <1>4, <1>5, <1>6, <1>7, GoingOn

LEMMA ServiceInv ==
  ASSUME Inv, NEW c \in Callers, ServiceStep(c), Orderly, orderly' \in BOOLEAN
  PROVE  Inv'
<1>1. TypeOK /\ KeyInv
  BY DEF Inv
<1>2. TypeOK' /\ Becomes(c, {}) /\ todo[c] # << >>
  BY <1>1, ServiceTyped
<1>3. KeyInv'
  BY <1>1, ServiceKeepsKeys
<1>4. UNCHANGED <<writer, readers>> /\ (Do(c, "enable") \/ Do(c, "setRoutes"))
  BY DEF ServiceStep
<1>5. Fine(c) => Fine(c)'
  BY <1>1, <1>4, EnableFine, SetRoutesFine
<1> QED
  BY <1>2, <1>3, <1>4, <1>5, GoingOn

LEMMA TableInv ==
  ASSUME Inv, NEW c \in Callers, TableStep(c), Orderly, orderly' \in BOOLEAN
  PROVE  Inv'
<1>1. TypeOK /\ KeyInv
  BY DEF Inv
<1>2. TypeOK' /\ Becomes(c, {}) /\ todo[c] # << >>
  BY <1>1, TableTyped
<1>3. KeyInv'
  BY <1>1, TableKeepsKeys
<1>4. UNCHANGED <<writer, readers>>
  BY DEF TableStep
<1>5. ~Displaces /\ Fine(c) => Fine(c)'
  BY <1>1, TableFine
<1> QED
  BY <1>2, <1>3, <1>4, <1>5, GoingOn

LEMMA UnlockInv ==
  ASSUME Inv, NEW c \in Callers, Unlock(c), Orderly, orderly' \in BOOLEAN
  PROVE  Inv'
<1>1. TypeOK /\ KeyInv /\ OrderInv
  BY DEF Inv
<1>2. TypeOK' /\ KeyInv'
  BY <1>1, UnlockTyped, UnlockKeepsKeys
<1>3. /\ ~Idle(c) /\ OthersWait(c) /\ writer' \in {writer, Nobody} /\ readers' \subseteq readers
  BY DEF Unlock, Idle, OthersWait
<1>4. \A e \in Callers : e # c /\ Idle(e) => Idle(e)'
  BY <1>3, OthersUntouched
<1>5. Fine(c) => Fine(c)'
  BY UnlockFine
<1>6. OrderInv'
  BY <1>1, <1>3, <1>4, <1>5, WorkOrder
<1> QED
  BY <1>2, <1>6 DEF Inv

LEMMA SameInv == Inv /\ UNCHANGED vars => Inv'
<1> SUFFICES ASSUME Inv, UNCHANGED vars PROVE Inv'
  OBVIOUS
<1>1. /\ UNCHANGED services /\ UNCHANGED id /\ UNCHANGED enabled /\ UNCHANGED routes /\ UNCHANGED cfg
      /\ UNCHANGED up /\ UNCHANGED todo /\ UNCHANGED writer /\ UNCHANGED readers /\ UNCHANGED orderly
  BY DEF vars, objVars
<1>2. /\ AllObjs' = AllObjs /\ AllRoutes' = AllRoutes /\ Stored' = Stored
      /\ \A c : Pos(c)' = Pos(c) /\ Left(c)' = Left(c) /\ Idle(c)' = Idle(c)
  BY <1>1 DEF AllObjs, AllRoutes, Stored, Pos, Left, Idle
<1>3. TypeOK'
  BY <1>1, <1>2 DEF Inv, TypeOK, EntryOK
<1>4. KeyInv'
  BY <1>1, <1>2 DEF Inv, KeyInv, Ordered, Renames
<1>5. Calm => Calm'
  BY <1>1, <1>2 DEF Calm, Http
<1>6. ASSUME NEW c \in Callers, Fine(c) PROVE Fine(c)'
  <2>1. Shape(c)'
    BY <1>1, <1>2, <1>6 DEF Fine, Shape, Updating
  <2>2. Owned(c)'
    BY <1>1, <1>2, <1>6 DEF Fine, Owned, Stops, StopsIf
  <2>3. Placed(c)'
    BY <1>1, <1>2, <1>6 DEF Fine, Placed
  <2>4. Flagged(c)'
    BY <1>1, <1>2, <1>6 DEF Fine, Flagged, Http, Enables, Stops
  <2> QED
    BY <2>1, <2>2, <2>3, <2>4 DEF Fine
<1>7. OrderInv'
  BY <1>1, <1>2, <1>5, <1>6 DEF Inv, OrderInv, Alone, AtRest
<1> QED
  BY <1>3, <1>4, <1>7 DEF Inv

LEMMA StepInv == Inv /\ [Next /\ Orderly]_vars => Inv'
<1> SUFFICES ASSUME Inv, Next, Orderly PROVE Inv'
  BY SameInv
<1>1. orderly' \in BOOLEAN
  <2>1. orderly \in BOOLEAN
    BY DEF Inv, TypeOK
  <2> QED
    BY <2>1 DEF Orderly, Alone, Displaces
<1>2. ASSUME NEW c \in Callers, NEW i \in Ids, NEW en \in BOOLEAN, NEW fs \in SUBSET Cfgs,
             Create(c, i, en, fs)
      PROVE  Inv'
  BY <1>1, <1>2, CreateInv
<1>3. ASSUME NEW c \in Callers, NEW i \in Ids, NEW j \in Ids, NEW en \in BOOLEAN,
             NEW fs \in SUBSET Cfgs, Update(c, i, j, en, fs)
      PROVE  Inv'
  BY <1>1, <1>3, UpdateInv
<1>4. ASSUME NEW c \in Callers, NEW i \in Ids, RemoveService(c, i) PROVE Inv'
  BY <1>1, <1>4, RemoveInv
<1>5. ASSUME NEW c \in Callers, NEW i \in Ids, StartOne(c, i) \/ StopOne(c, i) PROVE Inv'
  BY <1>1, <1>5, OneInv
<1>6. ASSUME NEW c \in Callers, StartAll(c) \/ StopAll(c) PROVE Inv'
  BY <1>1, <1>6, AllInv
<1>7. ASSUME NEW c \in Callers, Working(c) PROVE Inv'
  BY <1>1, <1>7, RouteInv, LoopInv, ServiceInv, TableInv, UnlockInv DEF Working
<1> QED
  BY <1>2, <1>3, <1>4, <1>5, <1>6, <1>7 DEF Next

LEMMA InvSays == Inv => KeyedById /\ NoStrayRoutes /\ DisabledServesNoHttp
<1> SUFFICES ASSUME Inv PROVE KeyedById /\ NoStrayRoutes /\ DisabledServesNoHttp
  OBVIOUS
<1>1. KeyedById
  BY NobodyAssumption DEF Inv, KeyInv, KeyedById
<1>2. orderly /\ AtRest => Calm
  BY DEF Inv, OrderInv
<1>3. DOMAIN cfg = AllRoutes /\ \A o \in Stored : routes[o] \subseteq AllRoutes
  <2>1. cfg \in Seq(Cfgs)
    BY DEF Inv, TypeOK
  <2>2. DOMAIN cfg = AllRoutes
    BY <2>1 DEF AllRoutes
  <2> QED
    BY <2>2, StoredObjs, ObjsRoutes DEF Inv
<1>4. NoStrayRoutes
  BY <1>2, <1>3 DEF NoStrayRoutes, Calm
<1>5. DisabledServesNoHttp
  BY <1>2, <1>3 DEF DisabledServesNoHttp, Calm, Http
<1> QED
  BY <1>1, <1>4, <1>5

-----------------------------------------------------------------------------
(* The theorems. *)

\* Whatever calls overlap and however they fail to start a route: the table
\* names objects that have been made, these own routes that have been made, and
\* so does all that is left to do, which no call loses while it waits.
THEOREM TypeCorrect == Spec => []TypeOK
<1>1. Inv => TypeOK
  BY DEF Inv
<1> QED
  BY <1>1, InitInv, StepInv, PTL DEF Spec

\* Router.Update, Create and Remove keep the table keyed by the services' ids:
\* with the lock free, each service is found under its id, also when it was
\* renamed over another, and while handlers that hold no lock go on with theirs.
THEOREM TableIsKeyed == Spec => []KeyedById
<1> QED
  BY InitInv, StepInv, InvSays, PTL DEF Spec

\* With no call under way, after calls that came one at a time and took no
\* name twice, a running route is one of a stored service: what Service.Update
\* drops and what Router.Remove removes has been stopped.
THEOREM NothingStrays == Spec => []NoStrayRoutes
<1> QED
  BY InitInv, StepInv, InvSays, PTL DEF Spec

\* Under the same conditions a service whose flag is off serves no HTTP: the
\* flag and the routes may only disagree for TCP and UDP routes, which
\* Service.Update restarts without looking at the flag.
THEOREM DisabledIsSilent == Spec => []DisabledServesNoHttp
<1> QED
  BY InitInv, StepInv, InvSays, PTL DEF Spec

==============================================================================
