------------------------ MODULE ServicePages_proofs ------------------------
(***************************************************************************)
(* Proofs about ServicePages: for any services, users and administrators   *)
(* and any number of clicks, no answer replaces what is being typed, and   *)
(* none that is older than a change the page was told of is shown after it.*)
(***************************************************************************)
EXTENDS ServicePages, FiniteSets, FiniteSetTheorems, TLAPS

\* A write is one of the mutations that were clicked, or another administrator's.
SentOnes == {m \in pending : m.st = "sent"}
Counted == IsFiniteSet(SentOnes) /\ writes + Cardinality(SentOnes) <= 1 + acts

\* Versions are those of writes; the name of a mutation is its id but for a rename.
WrittenInv == /\ \A i \in Ids : server[i] <= writes
              /\ \A m \in pending : m.ver <= writes /\ (m.op # "save" => m.name = m.id)

\* What a mutation reported is still there, newer or gone; so is what the page
\* was told of, and what is on its way to the page was read after that.
Newer(v, than) == v = 0 \/ v >= than
FreshInv ==
  /\ \A m \in pending : m.st = "done" => Newer(server[m.name], m.ver)
  /\ \A i \in Ids : page.id = i =>
       Newer(server[i], acked) /\ (flight[i].st = "read" => Newer(flight[i].val, acked))

TInv == TypeOK /\ Counted /\ WrittenInv

\* A start, stop or save is clicked on a page that has its service's data, and
\* data stays: the request that is asked again for its sake is cancelled.
HeldInv == \A m \in pending : m.op \in {"toggle", "save"} =>
              m.from \in Ids /\ cache[m.from].ver # 0 /\ (m.op = "toggle" => m.from = m.id)

-----------------------------------------------------------------------------
(* What the helpers return. *)

\* A query without an answer yet is a cached query.
LEMMA CachedType == Empty \in Cached
  BY BoundAssumption DEF Empty, Cached, Versions, MaxWrites

\* The three kinds of addresses the router knows.
LEMMA PagesType == List \in Pages /\ \A i \in Ids : View(i) \in Pages /\ Edit(i) \in Pages
  BY DEF Pages, List, View, Edit

\* A page other than the list is about one service.
LEMMA PageId == ASSUME NEW p \in Pages, p.at # "list" PROVE p.id \in Ids /\ p.at \in {"view", "edit"}
  BY DEF Pages

\* A draft taken from the cache is a draft, and not the lack of one.
LEMMA FromCacheType ==
  ASSUME NEW id \in Ids, NEW v \in Versions
  PROVE  FromCache(id, v) \in Drafts /\ FromCache(id, v) # NoDraft
  BY NoIdAssumption DEF FromCache, Drafts, NoDraft

\* Rendering a card makes a draft only on an edit page, and only where there is none.
LEMMA DraftedType ==
  ASSUME NEW p \in Pages, NEW d \in Drafts, NEW c \in [Ids -> Cached]
  PROVE  /\ Drafted(p, d, c) \in Drafts
         /\ p.at # "edit" => Drafted(p, d, c) = d
         /\ d # NoDraft => Drafted(p, d, c) = d
  BY FromCacheType, PageId DEF Drafted, Cached

\* Marking queries stale keeps what they hold.
LEMMA OldType ==
  ASSUME NEW c \in [Ids -> Cached], NEW ids
  PROVE  Old(c, ids) \in [Ids -> Cached]
  BY DEF Old, Cached

\* A query that has been answered is a cached query.
LEMMA AnsweredType ==
  ASSUME NEW c \in [Ids -> Cached], NEW id \in Ids, NEW v \in Versions
  PROVE  Answered(c, id, v) \in [Ids -> Cached]
  BY DEF Answered, Cached

\* Asking again replaces a request by a new one or leaves it alone.
LEMMA AgainType ==
  ASSUME NEW c, NEW f \in [Ids -> Flights], NEW ids
  PROVE  /\ Again(c, f, ids) \in [Ids -> Flights]
         /\ \A i \in Ids : Again(c, f, ids)[i] \in {f[i], Sent}
  BY DEF Again, Flights

\* A query that is asked keeps what it holds, but perhaps not its error.
LEMMA AskedType ==
  ASSUME NEW c \in [Ids -> Cached], NEW id \in Ids
  PROVE  Asked(c, id) \in [Ids -> Cached] /\ \A i \in Ids : Asked(c, id)[i].ver = c[i].ver
  BY DEF Asked, Cached

\* What is a page's own after one has opened.
LEMMA ArriveType ==
  ASSUME TypeOK, NEW p \in Pages, NEW c \in [Ids -> Cached], NEW f \in [Ids -> Flights],
         \A i \in Ids : f[i] \in {flight[i], Sent},
         NEW l \in Lists, NEW lf \in {Idle, Sent}, Arrive(p, c, f, l, lf)
  PROVE  /\ page' = p /\ cache' \in [Ids -> Cached] /\ flight' \in [Ids -> Flights]
         /\ \A i \in Ids : flight'[i] \in {flight[i], Sent}
         /\ listed' \in Lists /\ listFlight' \in {Idle, Sent}
         /\ draft' \in Drafts /\ (page'.at # "edit" => draft' = NoDraft)
         /\ acked' = 0
<1>1. /\ page' = p /\ listed' = l /\ acked' = 0
      /\ draft' = Drafted(p, IF Stays(p) THEN draft ELSE NoDraft, c)
  BY DEF Arrive
<1>0. cache' = c \/ (p.at # "list" /\ cache' = Asked(c, p.id))
  BY DEF Arrive
<1>8. cache' \in [Ids -> Cached]
  BY <1>0, PageId, AskedType
<1>2. flight' = f \/ (p.at # "list" /\ flight' = [f EXCEPT ![p.id] = Sent])
  BY DEF Arrive
<1>3. listFlight' \in {Idle, Sent}
  BY DEF Arrive
<1>4. flight' \in [Ids -> Flights] /\ \A i \in Ids : flight'[i] \in {flight[i], Sent}
  BY <1>2, PageId DEF Flights
<1>5. (IF Stays(p) THEN draft ELSE NoDraft) \in Drafts
  BY DEF TypeOK, Drafts
<1>6. draft' \in Drafts /\ (p.at # "edit" => draft' = (IF Stays(p) THEN draft ELSE NoDraft))
  BY <1>1, <1>5, DraftedType
<1>7. p.at # "edit" => draft' = NoDraft
  BY <1>6 DEF Stays, TypeOK
<1> QED
  BY <1>1, <1>3, <1>4, <1>6, <1>7, <1>8

\* What Go leaves right, whatever page it opens.
PageOK == /\ page \in Pages /\ cache \in [Ids -> Cached] /\ flight \in [Ids -> Flights]
          /\ listed \in Lists /\ listFlight \in {Idle, Sent}
          /\ draft \in Drafts /\ (page.at # "edit" => draft = NoDraft)
          /\ \A i \in Ids : flight[i].st = "read" => flight[i].val <= writes

\* Opening a page puts everything about pages in order.
LEMMA GoType ==
  ASSUME TypeOK, NEW p \in Pages, Go(p), writes' = writes
  PROVE  PageOK' /\ acked' = 0 /\ page' = p
<1>1. flight \in [Ids -> Flights] /\ cache \in [Ids -> Cached] /\ listed \in Lists /\ listFlight \in {Idle, Sent}
  BY DEF TypeOK
<1>2. /\ page' = p /\ cache' \in [Ids -> Cached] /\ flight' \in [Ids -> Flights]
      /\ \A i \in Ids : flight'[i] \in {flight[i], Sent}
      /\ listed' \in Lists /\ listFlight' \in {Idle, Sent}
      /\ draft' \in Drafts /\ (page'.at # "edit" => draft' = NoDraft)
      /\ acked' = 0
  BY <1>1, ArriveType DEF Go
<1>3. \A i \in Ids : flight'[i].st = "read" => flight'[i].val <= writes'
  BY <1>2 DEF TypeOK, Sent
<1> QED
  BY <1>2, <1>3 DEF PageOK

-----------------------------------------------------------------------------
(* The invariant on types, versions and the number of writes. *)

\* A button is on the screen only on the page that has it, and those of the
\* form only with a draft of that page's service.
LEMMA ButtonsShown ==
  ASSUME TypeOK
  PROVE  /\ \A b \in {"toggle", "edit"} : b \in Buttons => page.at = "view" /\ page.id \in Ids
         /\ \A b \in {"cancel", "delete", "save"} : b \in Buttons =>
              page.at = "edit" /\ page.id \in Ids /\ draft.id \in Ids /\ draft.name \in Ids
<1>1. Buttons # {} => Shown /\ page.id \in Ids
  BY PageId DEF Buttons, Shown, Showing, TypeOK
<1>2. Shown /\ page.at = "edit" => draft.id \in Ids /\ draft.name \in Ids
  BY DEF Shown, TypeOK, Drafts
<1> QED
  BY <1>1, <1>2 DEF Buttons, Shown, Showing

\* A click makes a request that is on its way.
LEMMA MutationType ==
  ASSUME NEW op \in {"toggle", "save", "delete", "create"}, NEW id \in Ids, NEW name \in Ids,
         NEW from \in Ids \union {NoId}
  PROVE  /\ Mutation(op, id, name, from) \in Mutations
         /\ Mutation(op, id, name, from).st = "sent"
         /\ Mutation(op, id, name, from).ver = 0
         /\ Mutation(op, id, name, from).op = op
         /\ Mutation(op, id, name, from).id = id
         /\ Mutation(op, id, name, from).name = name
  BY BoundAssumption DEF Mutation, Mutations, Versions, MaxWrites

\* A click sends at most one mutation, and each of them is counted.
LEMMA CountMutate ==
  ASSUME TInv, Act, writes' = writes, NEW m, pending' = pending \union {m}
  PROVE  Counted'
<1>1. SentOnes' = SentOnes \/ SentOnes' = SentOnes \union {m}
  <2>1. CASE m.st = "sent"
    BY <2>1 DEF SentOnes
  <2>2. CASE m.st # "sent"
    BY <2>2 DEF SentOnes
  <2> QED
    BY <2>1, <2>2
<1>2. IsFiniteSet(SentOnes) /\ Cardinality(SentOnes) \in Nat /\ writes \in Nat /\ acts \in Nat
  BY BoundAssumption, FS_CardinalityType DEF TInv, Counted, TypeOK, Versions, MaxWrites
<1>3. IsFiniteSet(SentOnes \union {m}) /\ Cardinality(SentOnes \union {m}) <= Cardinality(SentOnes) + 1
        /\ Cardinality(SentOnes \union {m}) \in Nat
  BY <1>2, FS_AddElement, FS_CardinalityType
<1> QED
  BY <1>1, <1>2, <1>3 DEF TInv, Counted, Act

\* A step that makes no request keeps the count.
LEMMA CountKept ==
  ASSUME TInv, writes' = writes, pending' = pending, acts' = acts \/ Act
  PROVE  Counted'
<1>1. SentOnes' = SentOnes
  BY DEF SentOnes
<1>2. Cardinality(SentOnes) \in Nat /\ writes \in Nat /\ acts \in Nat
  BY BoundAssumption, FS_CardinalityType DEF TInv, Counted, TypeOK, Versions, MaxWrites
<1> QED
  BY <1>1, <1>2 DEF TInv, Counted, Act

\* No step writes without a mutation that is counted or an act.
LEMMA CountNext == TInv /\ [Next]_vars => Counted'
<1> SUFFICES ASSUME TInv, [Next]_vars PROVE Counted'
  OBVIOUS
<1>1. ASSUME NEW p \in Pages, Open(p) PROVE Counted'
  BY <1>1, CountKept DEF Open
<1>2. ASSUME NEW id \in Ids, ClickRow(id) \/ Poll(id) \/ ServeService(id) \/ GetService(id) \/ LoseService(id)
      PROVE  Counted'
  BY <1>2, CountKept DEF ClickRow, Poll, ServeService, GetService, LoseService
<1>3. CASE ClickEdit \/ ClickCancel \/ GetConfig \/ GetServices
  BY <1>3, CountKept DEF ClickEdit, ClickCancel, GetConfig, GetServices
<1>4. CASE ToggleStatus
  BY <1>4, CountMutate DEF ToggleStatus, Mutate
<1>5. ASSUME NEW n \in Ids, Type(n) \/ CreateService(n) PROVE Counted'
  BY <1>5, CountMutate, CountKept DEF Type, CreateService, Mutate
<1>6. CASE HandleSave
  BY <1>6, CountMutate DEF HandleSave, Mutate
<1>7. CASE HandleDelete
  BY <1>7, CountMutate DEF HandleDelete, Mutate
<1>8. ASSUME NEW m \in pending, Serve(m) PROVE Counted'
  <2>1. SentOnes' = SentOnes \ {m} /\ m \in SentOnes
    <3>1. m \in SentOnes
      BY <1>8 DEF Serve, SentOnes
    <3>2. CASE Accepted(m.op, m.id)
      <4>1. pending' = (pending \ {m}) \union {[m EXCEPT !.st = "done", !.ver = writes + 1]}
        BY <1>8, <3>2 DEF Serve
      <4>2. [m EXCEPT !.st = "done", !.ver = writes + 1].st = "done"
        BY DEF TInv, TypeOK, Mutations
      <4>3. QED
        BY <3>1, <4>1, <4>2 DEF SentOnes
    <3>3. CASE ~Accepted(m.op, m.id)
      BY <1>8, <3>1, <3>3 DEF Serve, SentOnes
    <3> QED
      BY <3>2, <3>3
  <2>2. /\ IsFiniteSet(SentOnes) /\ Cardinality(SentOnes) \in Nat /\ writes \in Nat /\ acts \in Nat
        /\ writes' \in {writes, writes + 1} /\ acts' = acts
    BY <1>8, BoundAssumption, FS_CardinalityType DEF TInv, Counted, TypeOK, Versions, MaxWrites, Serve
  <2>3. IsFiniteSet(SentOnes \ {m}) /\ Cardinality(SentOnes \ {m}) = Cardinality(SentOnes) - 1
    BY <2>1, <2>2, FS_RemoveElement
  <2> QED
    BY <2>1, <2>2, <2>3 DEF TInv, Counted
<1>9. ASSUME NEW op, NEW id, NEW name, Foreign(op, id, name) PROVE Counted'
  <2>1. SentOnes' = SentOnes
    BY <1>9 DEF Foreign, SentOnes
  <2>2. Cardinality(SentOnes) \in Nat /\ writes \in Nat /\ acts \in Nat
    BY BoundAssumption, FS_CardinalityType DEF TInv, Counted, TypeOK, Versions, MaxWrites
  <2> QED
    BY <1>9, <2>1, <2>2 DEF TInv, Counted, Foreign, Act
<1>10. ASSUME NEW m \in pending, Succeed(m) PROVE Counted'
  <2>1. SentOnes' = SentOnes
    BY <1>10 DEF Succeed, SentOnes
  <2> QED
    BY <1>10, <2>1 DEF TInv, Counted, Succeed
<1>11. CASE UNCHANGED vars
  BY <1>11, CountKept DEF vars
<1> QED
  BY <1>1, <1>2, <1>3, <1>4, <1>5, <1>6, <1>7, <1>8, <1>9, <1>10, <1>11 DEF Next

\* What the counts bound: there is a version number for every write.
LEMMA Bounds ==
  ASSUME TInv
  PROVE  /\ writes \in Nat /\ acts \in Nat /\ acts <= MaxActs /\ acked \in Nat /\ acked <= writes
         /\ writes <= 1 + acts /\ \A v \in Versions : v \in Nat
         /\ \A v \in Nat : v <= writes => v \in Versions
<1>1. Cardinality(SentOnes) \in Nat
  BY FS_CardinalityType DEF TInv, Counted
<1> QED
  BY <1>1, BoundAssumption DEF TInv, TypeOK, Counted, Versions, MaxWrites

\* The counts bound the versions after a step, too.
LEMMA WritesNext == ASSUME TInv, Counted', acts' = acts \/ Act, writes' \in {writes, writes + 1}
                    PROVE  writes' \in Versions /\ acts' \in 0 .. MaxActs
<1>1. Cardinality(SentOnes') \in Nat
  BY FS_CardinalityType DEF Counted
<1> QED
  BY <1>1, Bounds, BoundAssumption DEF Counted, Act, Versions, MaxWrites

\* A write, whoever makes it, keeps the kinds and is bounded by the counter.
LEMMA WrittenServer ==
  ASSUME TypeOK, WrittenInv, NEW op, NEW id \in Ids, NEW name \in Ids, NEW v \in Nat, v >= writes,
         op \in {"toggle", "save", "delete", "create"}
  PROVE  /\ Written(op, id, name, v) \in [Ids -> Nat]
         /\ \A i \in Ids : Written(op, id, name, v)[i] \in {server[i], 0, v}
         /\ (op # "save" => name = id) => Written(op, id, name, v)[name] \in {0, v}
  BY DEF Written, Renamed, TypeOK, Versions, MaxWrites

\* Every step keeps the kinds of values.
LEMMA TypeNext == TInv /\ [Next]_vars => TypeOK'
<1> SUFFICES ASSUME TInv, [Next]_vars PROVE TypeOK'
  OBVIOUS
<1>a. TypeOK /\ Counted'
  BY CountNext DEF TInv
<1>b. ASSUME PageOK', server' = server, writes' = writes, readOnly' = readOnly, pending' \subseteq Mutations,
             acked' \in {0, acked}, acts' = acts \/ Act
      PROVE  TypeOK'
  <2>1. acts' \in 0 .. MaxActs
    BY <1>b, Bounds, BoundAssumption DEF Act
  <2>2. acked' \in 0 .. writes'
    BY <1>b, Bounds
  <2>3. server' \in [Ids -> Versions] /\ writes' \in Versions /\ readOnly' \in BOOLEAN
    BY <1>a, <1>b DEF TypeOK
  <2> QED
    BY <1>b, <2>1, <2>2, <2>3 DEF TypeOK, PageOK
<1>c. PageOK
  BY <1>a DEF TypeOK, PageOK
<1>1. ASSUME NEW p \in Pages, Open(p) PROVE TypeOK'
  BY <1>1, <1>a, <1>b, GoType DEF Open, TypeOK
<1>2. ASSUME NEW id \in Ids, ClickRow(id) PROVE TypeOK'
  BY <1>2, <1>a, <1>b, GoType, PagesType DEF ClickRow, TypeOK
<1>3. CASE ClickEdit \/ ClickCancel
  BY <1>3, <1>a, <1>b, GoType, PagesType, ButtonsShown DEF ClickEdit, ClickCancel, TypeOK
<1>4. CASE ToggleStatus
  <2>1. pending' \subseteq Mutations
    BY <1>4, <1>a, MutationType, ButtonsShown DEF ToggleStatus, Mutate, TypeOK
  <2>2. PageOK'
    BY <1>4, <1>c DEF ToggleStatus, PageOK
  <2> QED
    BY <1>4, <1>b, <2>1, <2>2 DEF ToggleStatus
<1>5. ASSUME NEW n \in Ids, Type(n) PROVE TypeOK'
  <2>1. page.id \in Ids /\ draft # NoDraft /\ draft \in Drafts
    BY <1>5, <1>a, PageId DEF Type, Shown, TypeOK
  <2>2. draft' \in Drafts
    BY <1>5, <2>1 DEF Type, Drafts
  <2>3. PageOK'
    BY <1>5, <1>c, <2>2 DEF Type, PageOK
  <2> QED
    BY <1>5, <1>a, <1>b, <2>3 DEF Type, TypeOK
<1>6. CASE HandleSave
  <2>1. pending' \subseteq Mutations /\ page.id \in Ids
    BY <1>6, <1>a, MutationType, ButtonsShown DEF HandleSave, Mutate, TypeOK
  <2> QED
    BY <1>6, <1>a, <1>b, <2>1, GoType, PagesType DEF HandleSave
<1>7. CASE HandleDelete
  <2>1. pending' \subseteq Mutations
    BY <1>7, <1>a, MutationType, ButtonsShown DEF HandleDelete, Mutate, TypeOK
  <2> DEFINE c == Old(cache, {i \in Ids : cache[i].ver # 0})
             f == Again(cache, flight, Ids)
             l == [listed EXCEPT !.old = listed.loaded]
  <2>2. c \in [Ids -> Cached] /\ f \in [Ids -> Flights] /\ \A i \in Ids : f[i] \in {flight[i], Sent}
    BY <1>a, OldType, AgainType DEF TypeOK
  <2>3. l \in Lists /\ listFlight \in {Idle, Sent}
    BY <1>a DEF TypeOK, Lists
  <2>4. Arrive(List, c, f, l, listFlight)
    BY <1>7 DEF HandleDelete
  <2> HIDE DEF c, f, l
  <2>5. /\ page' = List /\ cache' \in [Ids -> Cached] /\ flight' \in [Ids -> Flights]
        /\ \A i \in Ids : flight'[i] \in {flight[i], Sent}
        /\ listed' \in Lists /\ listFlight' \in {Idle, Sent}
        /\ draft' \in Drafts /\ (page'.at # "edit" => draft' = NoDraft)
        /\ acked' = 0
    BY <1>a, <2>2, <2>3, <2>4, ArriveType, PagesType
  <2>6. PageOK'
    BY <1>7, <1>a, <2>5, PagesType DEF PageOK, HandleDelete, TypeOK, Sent
  <2> QED
    BY <1>7, <1>b, <2>1, <2>5, <2>6 DEF HandleDelete
<1>8. ASSUME NEW n \in Ids, CreateService(n) PROVE TypeOK'
  <2>1. pending' \subseteq Mutations
    BY <1>8, <1>a, MutationType DEF CreateService, Mutate, TypeOK
  <2>2. PageOK'
    BY <1>8, <1>c DEF CreateService, PageOK
  <2> QED
    BY <1>8, <1>b, <2>1, <2>2 DEF CreateService
<1>d. ASSUME writes' = writes + 1, server' \in [Ids -> Nat], \A i \in Ids : server'[i] <= writes',
             UNCHANGED <<readOnly, page, cache, flight, listed, listFlight, draft, acked>>,
             acts' = acts \/ Act, pending' \subseteq Mutations
      PROVE  TypeOK'
  <2>1. writes' \in Versions /\ acts' \in 0 .. MaxActs
    BY <1>a, <1>d, WritesNext
  <2>2. server' \in [Ids -> Versions]
    BY <1>d, <2>1, BoundAssumption DEF Versions, MaxWrites
  <2>3. acked' \in 0 .. writes' /\ \A i \in Ids : flight'[i].st = "read" => flight'[i].val <= writes'
    BY <1>a, <1>d, Bounds DEF TypeOK, Flights, Idle, Sent
  <2> QED
    BY <1>a, <1>d, <2>1, <2>2, <2>3 DEF TypeOK
<1>9. ASSUME NEW m \in pending, Serve(m) PROVE TypeOK'
  <2>1. m \in Mutations /\ writes \in Nat
    BY <1>a, Bounds DEF TypeOK
  <2>2. CASE Accepted(m.op, m.id)
    <3>1. writes + 1 \in Versions
      BY <1>9, <1>a, <2>2, WritesNext DEF Serve
    <3>2. [m EXCEPT !.st = "done", !.ver = writes + 1] \in Mutations
      BY <2>1, <3>1 DEF Mutations
    <3>3. pending' \subseteq Mutations
      BY <1>9, <1>a, <2>2, <3>2 DEF Serve, TypeOK
    <3>4. /\ server' = Written(m.op, m.id, m.name, writes + 1) /\ writes' = writes + 1
      BY <1>9, <2>2 DEF Serve
    <3>5. /\ server' \in [Ids -> Nat]
          /\ \A i \in Ids : server'[i] \in {server[i], 0, writes + 1}
      <4>1. writes + 1 \in Nat /\ writes + 1 >= writes /\ TypeOK /\ WrittenInv
        BY <2>1 DEF TInv
      <4>2. m.op \in {"toggle", "save", "delete", "create"} /\ m.id \in Ids /\ m.name \in Ids
        BY <2>1 DEF Mutations
      <4> QED
        BY <3>4, <4>1, <4>2, WrittenServer
    <3>6. \A i \in Ids : server'[i] <= writes'
      BY <2>1, <3>4, <3>5 DEF TInv, WrittenInv, TypeOK, Versions
    <3> QED
      BY <1>9, <1>d, <3>3, <3>4, <3>5, <3>6 DEF Serve
  <2>3. CASE ~Accepted(m.op, m.id)
    BY <1>9, <1>a, <1>b, <1>c, <2>3 DEF Serve, PageOK, TypeOK
  <2> QED
    BY <2>2, <2>3
<1>10. ASSUME NEW op \in {"toggle", "save", "delete", "create"}, NEW id \in Ids, NEW name \in Ids,
              Foreign(op, id, name)
       PROVE  TypeOK'
  <2>1. writes \in Nat
    BY Bounds
  <2>2. /\ server' \in [Ids -> Nat]
        /\ \A i \in Ids : server'[i] \in {server[i], 0, writes + 1}
    <3>1. writes + 1 \in Nat /\ writes + 1 >= writes /\ TypeOK /\ WrittenInv
      BY <2>1 DEF TInv
    <3>2. server' = Written(op, id, name, writes + 1)
      BY <1>10 DEF Foreign
    <3> QED
      BY <3>1, <3>2, WrittenServer
  <2>3. \A i \in Ids : server'[i] <= writes'
    BY <1>10, <2>1, <2>2 DEF Foreign, TInv, WrittenInv, TypeOK, Versions
  <2> QED
    BY <1>10, <1>a, <1>d, <2>2, <2>3 DEF Foreign, TypeOK
<1>11. ASSUME NEW id \in Ids, ServeService(id) PROVE TypeOK'
  <2>1. server[id] \in Versions /\ server[id] <= writes
    BY <1>a DEF TInv, WrittenInv, TypeOK
  <2>2. flight' \in [Ids -> Flights] /\ \A i \in Ids : flight'[i].st = "read" => flight'[i].val <= writes
    BY <1>11, <1>a, <2>1 DEF ServeService, Read, Flights, TypeOK
  <2> QED
    BY <1>11, <1>a, <1>b, <1>c, <2>2 DEF ServeService, PageOK, TypeOK
<1>12. CASE GetConfig
  BY <1>12, <1>a DEF GetConfig, TypeOK
<1>13. ASSUME NEW id \in Ids, Poll(id) PROVE TypeOK'
  <2>1. cache' \in [Ids -> Cached]
    BY <1>13, <1>a, AskedType DEF Poll, TypeOK
  <2> QED
    BY <1>13, <1>a, <1>b, <1>c, <2>1 DEF Poll, PageOK, TypeOK, Flights, Sent
<1>14. ASSUME NEW id \in Ids, GetService(id) PROVE TypeOK'
  <2>1. cache' \in [Ids -> Cached]
    <3>1. flight[id].val \in Versions
      BY <1>14, <1>a DEF GetService, TypeOK, Flights, Idle, Sent
    <3>2. cache' = Answered(cache, id, flight[id].val) /\ cache \in [Ids -> Cached]
      BY <1>14, <1>a DEF GetService, TypeOK
    <3> QED
      BY <3>1, <3>2, AnsweredType
  <2>2. draft' \in Drafts /\ (page.at # "edit" => draft' = NoDraft)
    BY <1>14, <1>a, <2>1, DraftedType DEF GetService, TypeOK
  <2>3. flight' \in [Ids -> Flights] /\ \A i \in Ids : flight'[i].st = "read" => flight'[i].val <= writes
    BY <1>14, <1>a DEF GetService, TypeOK, Flights, Idle
  <2> QED
    BY <1>14, <1>a, <1>b, <1>c, <2>1, <2>2, <2>3 DEF GetService, PageOK, TypeOK
<1>15. ASSUME NEW id \in Ids, LoseService(id) PROVE TypeOK'
  BY <1>15, <1>a, <1>b, <1>c DEF LoseService, PageOK, TypeOK, Flights, Idle, Cached
<1>16. CASE GetServices
  <2>1. listed' \in Lists
    BY <1>16 DEF GetServices, Lists
  <2> QED
    BY <1>16, <1>a, <1>b, <1>c, <2>1 DEF GetServices, PageOK, TypeOK
<1>17. ASSUME NEW m \in pending, Succeed(m) PROVE TypeOK'
  <2>1. m \in Mutations /\ pending' \subseteq Mutations /\ m.ver <= writes /\ m.ver \in Versions
    BY <1>17, <1>a DEF Succeed, TypeOK, TInv, WrittenInv, Mutations
  <2>2. CASE m.op \in {"delete", "create"}
    <3>1. Go(List) \/ Go(Edit(m.name))
      BY <1>17, <2>2 DEF Succeed
    <3> QED
      BY <1>17, <1>a, <1>b, <2>1, <3>1, GoType, PagesType DEF Succeed, Mutations
  <2>3. CASE m.op = "save" /\ m.name # m.from
    <3>1. Go(View(m.name))
      BY <1>17, <2>3 DEF Succeed, Saved
    <3> QED
      BY <1>17, <1>a, <1>b, <2>1, <3>1, GoType, PagesType DEF Succeed, Mutations
  <2>4. CASE (m.op = "save" /\ m.name = m.from) \/ m.op = "toggle"
    <3>1. acked' \in {acked, m.ver} /\ \E c, ids : flight' = Again(c, flight, ids)
      BY <1>17, <2>4 DEF Succeed, Saved, Toggled
    <3>2. /\ flight' \in [Ids -> Flights]
          /\ \A i \in Ids : flight'[i].st = "read" => flight'[i].val <= writes
      <4>1. PICK c, ids : flight' = Again(c, flight, ids)
        BY <3>1
      <4>2. flight \in [Ids -> Flights]
        BY <1>a DEF TypeOK
      <4>3. flight' \in [Ids -> Flights] /\ \A i \in Ids : flight'[i] \in {flight[i], Sent}
        BY <4>1, <4>2, AgainType
      <4> QED
        BY <1>a, <4>3 DEF TypeOK, Sent
    <3>3. cache' \in [Ids -> Cached] /\ draft' \in Drafts /\ (page.at # "edit" => draft' = NoDraft)
      <4>1. /\ cache \in [Ids -> Cached] /\ draft \in Drafts /\ page \in Pages
            /\ page.at # "edit" => draft = NoDraft
        BY <1>a DEF TypeOK
      <4>2. CASE m.op = "save"
        <5>1. cache' = Old(cache, {m.name}) /\ draft' = draft
          BY <1>17, <2>4, <4>2 DEF Succeed, Saved
        <5> QED
          BY <4>1, <5>1, OldType
      <4>3. CASE m.op = "toggle"
        <5> DEFINE c == Answered(cache, m.id, m.ver)
        <5>1. cache' = Old(c, {m.id}) /\ draft' = Drafted(page, draft, c)
          BY <1>17, <4>3 DEF Succeed, Toggled
        <5>2. c \in [Ids -> Cached]
          BY <2>1, <4>1, AnsweredType DEF Mutations
        <5> HIDE DEF c
        <5>3. cache' \in [Ids -> Cached]
          BY <5>1, <5>2, OldType
        <5>4. draft' \in Drafts /\ (page.at # "edit" => draft' = draft)
          BY <4>1, <5>1, <5>2, DraftedType
        <5> QED
          BY <4>1, <5>3, <5>4
      <4> QED
        BY <2>4, <4>2, <4>3
    <3>4. acked' \in 0 .. writes
      BY <2>1, <3>1, Bounds
    <3>5. UNCHANGED <<server, writes, readOnly, page, listed, listFlight, acts>>
      BY <1>17, <2>4 DEF Succeed, Saved, Toggled
    <3> QED
      BY <1>a, <2>1, <3>2, <3>3, <3>4, <3>5 DEF TypeOK
  <2> QED
    BY <2>1, <2>2, <2>3, <2>4 DEF Mutations
<1>18. CASE UNCHANGED vars
  BY <1>18, <1>a DEF vars, TypeOK
<1> QED
  BY <1>1, <1>2, <1>3, <1>4, <1>5, <1>6, <1>7, <1>8, <1>9, <1>10, <1>11, <1>12, <1>13, <1>14,
     <1>15, <1>16, <1>17, <1>18 DEF Next

\* Every step bounds versions by the number of writes.
LEMMA WrittenNext == TInv /\ [Next]_vars => WrittenInv'
<1> SUFFICES ASSUME TInv, [Next]_vars PROVE WrittenInv'
  OBVIOUS
<1>a. TypeOK /\ WrittenInv /\ writes \in Nat
  BY Bounds DEF TInv
<1>b. ASSUME NEW op \in {"toggle", "save", "delete", "create"}, NEW id \in Ids, NEW name \in Ids,
             NEW from \in Ids \union {NoId}, op # "save" => name = id,
             pending' = pending \union {Mutation(op, id, name, from)}, UNCHANGED <<server, writes>>
      PROVE  WrittenInv'
  BY <1>a, <1>b, MutationType DEF WrittenInv
<1>c. ASSUME UNCHANGED <<server, writes>>, pending' \subseteq pending
      PROVE  WrittenInv'
  BY <1>a, <1>c DEF WrittenInv
<1>d. ASSUME NEW op \in {"toggle", "save", "delete", "create"}, NEW id \in Ids, NEW name \in Ids,
             server' = Written(op, id, name, writes + 1), writes' = writes + 1
      PROVE  \A i \in Ids : server'[i] <= writes'
  <2>1. \A i \in Ids : server'[i] \in {server[i], 0, writes + 1}
    <3>1. writes + 1 \in Nat /\ writes + 1 >= writes
      BY <1>a
    <3> QED
      BY <1>a, <1>d, <3>1, WrittenServer
  <2>2. \A i \in Ids : server[i] \in Nat /\ server[i] <= writes
    BY <1>a, Bounds DEF WrittenInv, TypeOK
  <2> QED
    BY <1>a, <1>d, <2>1, <2>2
<1>1. ASSUME NEW p \in Pages, Open(p) PROVE WrittenInv'
  BY <1>1, <1>c DEF Open
<1>2. ASSUME NEW id \in Ids, ClickRow(id) \/ Poll(id) \/ ServeService(id) \/ GetService(id) \/ LoseService(id)
      PROVE  WrittenInv'
  BY <1>2, <1>c DEF ClickRow, Poll, ServeService, GetService, LoseService
<1>3. CASE ClickEdit \/ ClickCancel \/ GetConfig \/ GetServices
  BY <1>3, <1>c DEF ClickEdit, ClickCancel, GetConfig, GetServices
<1>4. CASE ToggleStatus
  BY <1>4, <1>a, <1>b, ButtonsShown DEF ToggleStatus, Mutate
<1>5. ASSUME NEW n \in Ids, Type(n) \/ CreateService(n) PROVE WrittenInv'
  BY <1>5, <1>b, <1>c DEF Type, CreateService, Mutate
<1>6. CASE HandleSave
  BY <1>6, <1>a, <1>b, ButtonsShown DEF HandleSave, Mutate
<1>7. CASE HandleDelete
  BY <1>7, <1>a, <1>b, ButtonsShown DEF HandleDelete, Mutate
<1>8. ASSUME NEW m \in pending, Serve(m) PROVE WrittenInv'
  <2>1. m \in Mutations
    BY <1>a DEF TypeOK
  <2>2. CASE Accepted(m.op, m.id)
    <3> DEFINE d == [m EXCEPT !.st = "done", !.ver = writes + 1]
    <3>1. /\ server' = Written(m.op, m.id, m.name, writes + 1) /\ writes' = writes + 1
          /\ pending' = (pending \ {m}) \union {d}
      BY <1>8, <2>2 DEF Serve
    <3>2. m.op \in {"toggle", "save", "delete", "create"} /\ m.id \in Ids /\ m.name \in Ids
      BY <2>1 DEF Mutations
    <3>3. \A i \in Ids : server'[i] <= writes'
      BY <1>d, <3>1, <3>2
    <3>4. d.ver = writes + 1 /\ (d.op # "save" => d.name = d.id)
      BY <1>a, <2>1 DEF Mutations, WrittenInv
    <3>5. \A k \in pending : k.ver \in Nat /\ k.ver <= writes /\ (k.op # "save" => k.name = k.id)
      BY <1>a, Bounds DEF WrittenInv, TypeOK, Mutations
    <3> HIDE DEF d
    <3>6. \A k \in pending' : k.ver <= writes' /\ (k.op # "save" => k.name = k.id)
      BY <1>a, <3>1, <3>4, <3>5
    <3> QED
      BY <3>3, <3>6 DEF WrittenInv
  <2>3. CASE ~Accepted(m.op, m.id)
    BY <1>8, <1>c, <2>3 DEF Serve
  <2> QED
    BY <2>2, <2>3
<1>9. ASSUME NEW op \in {"toggle", "save", "delete", "create"}, NEW id \in Ids, NEW name \in Ids,
             Foreign(op, id, name)
      PROVE  WrittenInv'
  <2>1. \A i \in Ids : server'[i] <= writes'
    BY <1>9, <1>d DEF Foreign
  <2>2. \A k \in pending : k.ver \in Nat /\ k.ver <= writes
    BY <1>a, Bounds DEF WrittenInv, TypeOK, Mutations
  <2> QED
    BY <1>9, <1>a, <2>1, <2>2 DEF WrittenInv, Foreign
<1>10. ASSUME NEW m \in pending, Succeed(m) PROVE WrittenInv'
  BY <1>10, <1>c DEF Succeed
<1>11. CASE UNCHANGED vars
  BY <1>11, <1>c DEF vars
<1> QED
  BY <1>1, <1>2, <1>3, <1>4, <1>5, <1>6, <1>7, <1>8, <1>9, <1>10, <1>11 DEF Next

\* The first page is as TypeOK says, and nothing has been sent or written yet.
LEMMA InitT == Init => TInv
<1> SUFFICES ASSUME Init PROVE TInv
  OBVIOUS
<1>1. 0 \in Versions /\ 1 \in Versions
  BY BoundAssumption DEF Versions, MaxWrites
<1>2. /\ server \in [Ids -> Versions] /\ writes \in Versions /\ page \in Pages
      /\ acked \in 0 .. writes /\ acts \in 0 .. MaxActs
  BY <1>1, BoundAssumption DEF Init
<1>3. readOnly \in BOOLEAN
  BY Zenon DEF Init
<1>4. cache \in [Ids -> Cached] /\ pending \subseteq Mutations
  BY CachedType DEF Init
<1>5. flight \in [Ids -> Flights] /\ \A i \in Ids : flight[i].st = "read" => flight[i].val <= writes
  BY DEF Init, Flights, Idle, Sent
<1>6. listed \in Lists /\ listFlight \in {Idle, Sent}
  BY DEF Init, NoList, Lists
<1>7. draft \in Drafts /\ (page.at # "edit" => draft = NoDraft)
  BY DEF Init, Drafts
<1>8. TypeOK
  BY <1>2, <1>3, <1>4, <1>5, <1>6, <1>7 DEF TypeOK
<1>9. SentOnes = {}
  BY DEF Init, SentOnes
<1>10. Counted
  BY <1>9, FS_EmptySet DEF Init, Counted
<1>11. WrittenInv
  BY DEF Init, WrittenInv
<1> QED
  BY <1>8, <1>10, <1>11 DEF TInv

\* Every step keeps the whole of the invariant.
LEMMA TNext == TInv /\ [Next]_vars => TInv'
  BY TypeNext, CountNext, WrittenNext DEF TInv

\* Every variable keeps to its kind, a draft to edit pages, and every version
\* that is shown or on its way is one that was written.
THEOREM TypeCorrect == Spec => []TypeOK
<1>1. TInv => TypeOK
  BY DEF TInv
<1> QED
  BY <1>1, InitT, TNext, PTL DEF Spec

-----------------------------------------------------------------------------
(* The draft. *)

\* A page that opens over itself keeps its draft.
LEMMA ArriveDraft ==
  ASSUME TypeOK, draft # NoDraft, NEW p, NEW c, NEW f, NEW l, NEW lf, Arrive(p, c, f, l, lf), page' = page
  PROVE  draft' = draft
  BY DEF Arrive, Drafted, Stays, TypeOK

\* One step: only Type changes a draft on a page that stays.
LEMMA DraftStep ==
  ASSUME TypeOK, [Next]_vars, page' = page, draft # NoDraft
  PROVE  draft' = draft \/ \E n \in Ids : Type(n)
<1>1. ASSUME NEW p \in Pages, Open(p) PROVE draft' = draft
  BY <1>1, ArriveDraft DEF Open, Go
<1>2. ASSUME NEW id \in Ids, ClickRow(id) PROVE draft' = draft
  BY <1>2, ArriveDraft DEF ClickRow, Go
<1>3. CASE ClickEdit \/ ClickCancel \/ HandleSave \/ HandleDelete
  BY <1>3, ArriveDraft DEF ClickEdit, ClickCancel, HandleSave, HandleDelete, Go
<1>4. ASSUME NEW id \in Ids, GetService(id) PROVE draft' = draft
  BY <1>4 DEF GetService, Drafted
<1>5. ASSUME NEW id \in Ids, Poll(id) \/ ServeService(id) \/ LoseService(id) PROVE draft' = draft
  BY <1>5 DEF Poll, ServeService, LoseService
<1>6. CASE GetConfig \/ GetServices \/ ToggleStatus
  BY <1>6 DEF GetConfig, GetServices, ToggleStatus
<1>7. ASSUME NEW m \in pending, Serve(m) PROVE draft' = draft
  BY <1>7 DEF Serve
<1>8. ASSUME NEW op, NEW id, NEW name, Foreign(op, id, name) PROVE draft' = draft
  BY <1>8 DEF Foreign
<1>9. ASSUME NEW n \in Ids, CreateService(n) PROVE draft' = draft
  BY <1>9 DEF CreateService
<1>10. ASSUME NEW m \in pending, Succeed(m) PROVE draft' = draft
  <2>1. m.op \in {"toggle", "save", "delete", "create"}
    BY DEF TypeOK, Mutations
  <2>2. CASE m.op = "toggle"
    BY <1>10, <2>2 DEF Succeed, Toggled, Drafted
  <2>3. CASE m.op = "save"
    BY <1>10, <2>3, ArriveDraft DEF Succeed, Saved, Go
  <2>4. CASE m.op \in {"delete", "create"}
    BY <1>10, <2>4, ArriveDraft DEF Succeed, Go
  <2> QED
    BY <2>1, <2>2, <2>3, <2>4
<1>11. CASE UNCHANGED vars
  BY <1>11 DEF vars
<1> QED
  BY <1>1, <1>2, <1>3, <1>4, <1>5, <1>6, <1>7, <1>8, <1>9, <1>10, <1>11 DEF Next

\* Nothing but typing changes what was typed while its page stays, whichever
\* answers of this page and of earlier ones arrive.
THEOREM DraftIsKept == Spec => DraftKept
<1>1. TypeOK /\ [Next]_vars =>
      [page' = page /\ draft # NoDraft => draft' = draft \/ \E n \in Ids : Type(n)]_vars
  BY DraftStep
<1> QED
  BY <1>1, TypeCorrect, PTL DEF Spec, DraftKept

-----------------------------------------------------------------------------
(* What the page was told of. *)

\* A page that has just opened was told of nothing.
LEMMA FreshOpened ==
  ASSUME TInv, TInv', FreshInv, UNCHANGED <<server, writes>>, acked' = 0,
         \A m \in pending' : m \in pending \/ m.st = "sent"
  PROVE  FreshInv'
<1>1. \A i \in Ids : server[i] \in Nat
  BY Bounds DEF TInv, TypeOK
<1>2. \A i \in Ids : flight'[i].st = "read" => flight'[i].val \in Versions
  BY DEF TInv, TypeOK, Flights, Idle, Sent
<1>3. \A i \in Ids : flight'[i].st = "read" => flight'[i].val >= 0
  BY <1>2, Bounds
<1> QED
  BY <1>1, <1>3 DEF FreshInv, Newer

\* A page that stays is asked again for what it showed, or not at all.
LEMMA FreshStays ==
  ASSUME FreshInv, UNCHANGED <<server, page, acked>>,
         \A i \in Ids : flight'[i] \in {flight[i], Idle, Sent} \/ (flight'[i].st = "read" /\ flight'[i].val = server[i]),
         \A m \in pending' : m \in pending \/ m.st = "sent"
  PROVE  FreshInv'
  BY DEF FreshInv, Idle, Sent

\* A write is newer than all that was reported, or takes a service away.
LEMMA FreshWritten ==
  ASSUME TInv, FreshInv, NEW op \in {"toggle", "save", "delete", "create"}, NEW id \in Ids,
         NEW name \in Ids, op # "save" => name = id,
         server' = Written(op, id, name, writes + 1), UNCHANGED <<page, flight, acked>>,
         \A m \in pending' : m \in pending \/ (m.ver = writes + 1 /\ m.name = name)
  PROVE  FreshInv'
<1>1. writes \in Nat /\ acked \in Nat /\ acked <= writes /\ \A m \in pending : m.ver \in Nat /\ m.ver <= writes /\ m.name \in Ids
  BY Bounds DEF TInv, TypeOK, Mutations, WrittenInv
<1>2. writes + 1 \in Nat /\ writes + 1 >= writes /\ TypeOK /\ WrittenInv
  BY <1>1 DEF TInv
<1>3. /\ \A i \in Ids : server'[i] \in {server[i], 0, writes + 1}
      /\ server'[name] \in {0, writes + 1}
  <2>1. \A i \in Ids : server'[i] \in {server[i], 0, writes + 1}
    BY <1>2, WrittenServer
  <2>2. server'[name] \in {0, writes + 1}
    BY <1>2, WrittenServer
  <2> QED
    BY <2>1, <2>2
<1>4. \A i \in Ids, v \in Nat : v <= writes /\ Newer(server[i], v) => Newer(server'[i], v)
  BY <1>1, <1>3 DEF Newer
<1>5. Newer(server'[name], writes + 1)
  BY <1>1, <1>3 DEF Newer
<1>6. \A m \in pending' : m.st = "done" => Newer(server'[m.name], m.ver)
  BY <1>1, <1>4, <1>5 DEF FreshInv
<1>7. \A i \in Ids : page' .id = i => Newer(server'[i], acked')
  BY <1>1, <1>4 DEF FreshInv
<1> QED
  BY <1>6, <1>7 DEF FreshInv

\* Data that a query has once had, it always has.
Grows == \A i \in Ids : cache[i].ver # 0 => cache'[i].ver # 0

\* Opening a page forgets no data.
LEMMA ArriveGrows ==
  ASSUME TypeOK, NEW p \in Pages, NEW c \in [Ids -> Cached], \A i \in Ids : c[i].ver = cache[i].ver,
         NEW f, NEW l, NEW lf, Arrive(p, c, f, l, lf)
  PROVE  Grows
<1>1. cache' = c \/ (p.at # "list" /\ cache' = Asked(c, p.id))
  BY DEF Arrive
<1> QED
  BY <1>1, PageId, AskedType DEF Grows

\* Going to a page forgets no data.
LEMMA GoGrows == ASSUME TypeOK, NEW p \in Pages, Go(p) PROVE Grows
  BY ArriveGrows DEF Go, TypeOK

\* Marking queries old keeps their data.
LEMMA OldVer == ASSUME NEW c \in [Ids -> Cached], NEW ids, NEW i \in Ids PROVE Old(c, ids)[i].ver = c[i].ver
  BY DEF Old, Cached

\* An answer adds data, or none.
LEMMA AnsweredVer ==
  ASSUME NEW c \in [Ids -> Cached], NEW id \in Ids, NEW v, NEW i \in Ids, c[i].ver # 0
  PROVE  Answered(c, id, v)[i].ver # 0
  BY DEF Answered, Cached

\* No step forgets data.
LEMMA GrowsNext == ASSUME TypeOK, [Next]_vars PROVE Grows
<1>1. ASSUME NEW p \in Pages, Open(p) PROVE Grows
  BY <1>1, GoGrows DEF Open
<1>2. ASSUME NEW id \in Ids, ClickRow(id) PROVE Grows
  BY <1>2, GoGrows, PagesType DEF ClickRow
<1>3. CASE ClickEdit \/ ClickCancel \/ HandleSave
  BY <1>3, GoGrows, PagesType, ButtonsShown DEF ClickEdit, ClickCancel, HandleSave
<1>4. CASE HandleDelete
  <2> DEFINE c == Old(cache, {i \in Ids : cache[i].ver # 0})
  <2>1. c \in [Ids -> Cached] /\ \A i \in Ids : c[i].ver = cache[i].ver
    BY OldType, OldVer DEF TypeOK
  <2>2. Arrive(List, c, Again(cache, flight, Ids), [listed EXCEPT !.old = listed.loaded], listFlight)
    BY <1>4 DEF HandleDelete
  <2> HIDE DEF c
  <2> QED
    BY <2>1, <2>2, ArriveGrows, PagesType
<1>5. CASE ToggleStatus \/ GetConfig \/ GetServices
  BY <1>5 DEF ToggleStatus, GetConfig, GetServices, Grows
<1>6. ASSUME NEW n \in Ids, Type(n) \/ CreateService(n) \/ ServeService(n) PROVE Grows
  BY <1>6 DEF Type, CreateService, ServeService, Grows
<1>7. ASSUME NEW m \in pending, Serve(m) PROVE Grows
  BY <1>7 DEF Serve, Grows
<1>8. ASSUME NEW op, NEW id, NEW name, Foreign(op, id, name) PROVE Grows
  BY <1>8 DEF Foreign, Grows
<1>9. ASSUME NEW id \in Ids, Poll(id) PROVE Grows
  BY <1>9, AskedType DEF Poll, Grows, TypeOK
<1>10. ASSUME NEW id \in Ids, GetService(id) PROVE Grows
  BY <1>10, AnsweredVer DEF GetService, Grows, TypeOK
<1>11. ASSUME NEW id \in Ids, LoseService(id) PROVE Grows
  BY <1>11 DEF LoseService, Grows, TypeOK, Cached
<1>12. ASSUME NEW m \in pending, Succeed(m) PROVE Grows
  <2>1. m \in Mutations /\ m.op \in {"toggle", "save", "delete", "create"} /\ m.id \in Ids
        /\ m.name \in Ids /\ m.ver \in Versions /\ cache \in [Ids -> Cached]
    BY DEF TypeOK, Mutations
  <2>2. CASE m.op = "toggle"
    <3> DEFINE c == Answered(cache, m.id, m.ver)
    <3>1. cache' = Old(c, {m.id})
      BY <1>12, <2>2 DEF Succeed, Toggled
    <3>2. c \in [Ids -> Cached] /\ \A i \in Ids : cache[i].ver # 0 => c[i].ver # 0
      BY <2>1, AnsweredType, AnsweredVer
    <3> HIDE DEF c
    <3> QED
      BY <3>1, <3>2, OldVer DEF Grows
  <2>3. CASE m.op = "save" /\ m.name = m.from
    BY <1>12, <2>1, <2>3, OldVer DEF Succeed, Saved, Grows
  <2>4. CASE m.op \in {"delete", "create"} \/ (m.op = "save" /\ m.name # m.from)
    <3>1. Go(List) \/ Go(Edit(m.name)) \/ Go(View(m.name))
      BY <1>12, <2>4 DEF Succeed, Saved
    <3> QED
      BY <2>1, <3>1, GoGrows, PagesType
  <2> QED
    BY <2>1, <2>2, <2>3, <2>4
<1>13. CASE UNCHANGED vars
  BY <1>13 DEF vars, Grows
<1> QED
  BY <1>1, <1>2, <1>3, <1>4, <1>5, <1>6, <1>7, <1>8, <1>9, <1>10, <1>11, <1>12, <1>13 DEF Next

\* Every step keeps what is asked for again without being the first.
LEMMA HeldNext == TInv /\ HeldInv /\ [Next]_vars => HeldInv'
<1> SUFFICES ASSUME TInv, HeldInv, [Next]_vars PROVE HeldInv'
  OBVIOUS
<1>a. TypeOK /\ Grows
  BY GrowsNext DEF TInv
<1>b. ASSUME \A m \in pending' : m \in pending \/ m.op \notin {"toggle", "save"} PROVE HeldInv'
  BY <1>a, <1>b DEF HeldInv, Grows
<1>c. ASSUME NEW op \in {"toggle", "save", "delete", "create"}, NEW id \in Ids, NEW name \in Ids,
             op = "toggle" => page.id = id, cache[page.id].ver # 0, page.id \in Ids,
             pending' = pending \union {Mutation(op, id, name, page.id)}
      PROVE  HeldInv'
  <2>1. \A m \in pending' : m \in pending \/ m = Mutation(op, id, name, page.id)
    BY <1>c
  <2>2. Mutation(op, id, name, page.id).from = page.id /\ Mutation(op, id, name, page.id).op = op
        /\ Mutation(op, id, name, page.id).id = id
    BY DEF Mutation
  <2> QED
    BY <1>a, <1>c, <2>1, <2>2 DEF HeldInv, Grows
<1>s. Buttons # {} => cache[page.id].ver # 0
  BY DEF Buttons, Shown
<1>1. ASSUME NEW p \in Pages, Open(p) PROVE HeldInv'
  BY <1>1, <1>b DEF Open
<1>2. ASSUME NEW id \in Ids, ClickRow(id) \/ Poll(id) \/ ServeService(id) \/ GetService(id) \/ LoseService(id)
      PROVE  HeldInv'
  BY <1>2, <1>b DEF ClickRow, Poll, ServeService, GetService, LoseService
<1>3. CASE ClickEdit \/ ClickCancel \/ GetConfig \/ GetServices
  BY <1>3, <1>b DEF ClickEdit, ClickCancel, GetConfig, GetServices
<1>4. CASE ToggleStatus
  BY <1>4, <1>a, <1>c, <1>s, ButtonsShown DEF ToggleStatus, Mutate
<1>5. ASSUME NEW n \in Ids, Type(n) \/ CreateService(n) PROVE HeldInv'
  BY <1>5, <1>b, MutationType DEF Type, CreateService, Mutate
<1>6. CASE HandleSave
  BY <1>6, <1>a, <1>c, <1>s, ButtonsShown DEF HandleSave, Mutate
<1>7. CASE HandleDelete
  BY <1>7, <1>a, <1>c, <1>s, ButtonsShown DEF HandleDelete, Mutate
<1>8. ASSUME NEW m \in pending, Serve(m) PROVE HeldInv'
  <2> DEFINE d == [m EXCEPT !.st = "done", !.ver = writes + 1]
  <2>1. d.op = m.op /\ d.from = m.from /\ d.id = m.id
    BY <1>a DEF TypeOK, Mutations
  <2>2. pending' \subseteq pending \union {d}
    BY <1>8 DEF Serve
  <2> HIDE DEF d
  <2>3. \A k \in pending' : k.op \in {"toggle", "save"} =>
           k.from \in Ids /\ cache[k.from].ver # 0 /\ (k.op = "toggle" => k.from = k.id)
    BY <2>1, <2>2 DEF HeldInv
  <2> QED
    BY <1>a, <2>3 DEF HeldInv, Grows
<1>9. ASSUME NEW op, NEW id, NEW name, Foreign(op, id, name) PROVE HeldInv'
  BY <1>9, <1>b DEF Foreign
<1>10. ASSUME NEW m \in pending, Succeed(m) PROVE HeldInv'
  BY <1>10, <1>b DEF Succeed
<1>11. CASE UNCHANGED vars
  BY <1>11, <1>b DEF vars
<1> QED
  BY <1>1, <1>2, <1>3, <1>4, <1>5, <1>6, <1>7, <1>8, <1>9, <1>10, <1>11 DEF Next

\* Every step keeps it.
LEMMA FreshNext == TInv /\ HeldInv /\ FreshInv /\ [Next]_vars => FreshInv'
<1> SUFFICES ASSUME TInv, HeldInv, FreshInv, [Next]_vars PROVE FreshInv'
  OBVIOUS
<1>a. TInv' /\ TypeOK /\ TypeOK'
  BY TNext DEF TInv
<1>g. ASSUME NEW p \in Pages, Go(p) PROVE acked' = 0
  BY <1>g DEF Go, Arrive
<1>1. ASSUME NEW p \in Pages, Open(p) PROVE FreshInv'
  BY <1>1, <1>a, <1>g, FreshOpened DEF Open
<1>2. ASSUME NEW id \in Ids, ClickRow(id) PROVE FreshInv'
  BY <1>2, <1>a, FreshOpened DEF ClickRow, Go, Arrive
<1>3. CASE ClickEdit \/ ClickCancel
  BY <1>3, <1>a, FreshOpened DEF ClickEdit, ClickCancel, Go, Arrive
<1>4. CASE ToggleStatus
  BY <1>4, FreshStays DEF ToggleStatus, Mutate, Mutation
<1>5. ASSUME NEW n \in Ids, Type(n) \/ CreateService(n) PROVE FreshInv'
  BY <1>5, FreshStays DEF Type, CreateService, Mutate, Mutation
<1>6. CASE HandleSave
  BY <1>6, <1>a, FreshOpened DEF HandleSave, Go, Arrive, Mutate, Mutation
<1>7. CASE HandleDelete
  BY <1>7, <1>a, FreshOpened DEF HandleDelete, Arrive, Mutate, Mutation
<1>8. ASSUME NEW m \in pending, Serve(m) PROVE FreshInv'
  <2>1. m \in Mutations /\ (m.op # "save" => m.name = m.id)
    BY <1>a DEF TypeOK, TInv, WrittenInv
  <2>2. CASE Accepted(m.op, m.id)
    <3>1. m.op \in {"toggle", "save", "delete", "create"} /\ m.id \in Ids /\ m.name \in Ids
      BY <2>1 DEF Mutations
    <3>2. [m EXCEPT !.st = "done", !.ver = writes + 1].ver = writes + 1
          /\ [m EXCEPT !.st = "done", !.ver = writes + 1].name = m.name
      BY <2>1 DEF Mutations
    <3>3. /\ server' = Written(m.op, m.id, m.name, writes + 1) /\ UNCHANGED <<page, flight, acked>>
          /\ pending' = (pending \ {m}) \union {[m EXCEPT !.st = "done", !.ver = writes + 1]}
      BY <1>8, <2>2 DEF Serve
    <3>4. \A k \in pending' : k \in pending \/ (k.ver = writes + 1 /\ k.name = m.name)
      BY <3>2, <3>3
    <3> QED
      BY <2>1, <3>1, <3>3, <3>4, FreshWritten
  <2>3. CASE ~Accepted(m.op, m.id)
    BY <1>8, <2>3, FreshStays DEF Serve
  <2> QED
    BY <2>2, <2>3
<1>9. ASSUME NEW op \in {"toggle", "save", "delete", "create"}, NEW id \in Ids, NEW name \in Ids,
             Foreign(op, id, name)
      PROVE  FreshInv'
  <2>1. /\ server' = Written(op, id, name, writes + 1) /\ UNCHANGED <<page, flight, acked, pending>>
    BY <1>9 DEF Foreign
  <2>2. CASE op = "save"
    BY <2>1, <2>2, FreshWritten
  <2>3. CASE op # "save"
    <3>1. Written(op, id, name, writes + 1) = Written(op, id, id, writes + 1)
      BY <2>3 DEF Written
    <3> QED
      BY <2>1, <2>3, <3>1, FreshWritten
  <2> QED
    BY <2>2, <2>3
<1>10. ASSUME NEW id \in Ids, ServeService(id) PROVE FreshInv'
  BY <1>10, <1>a, FreshStays DEF ServeService, Read, TypeOK
<1>11. ASSUME NEW id \in Ids, Poll(id) \/ GetService(id) \/ LoseService(id) PROVE FreshInv'
  BY <1>11, <1>a, FreshStays DEF Poll, GetService, LoseService, TypeOK
<1>12. CASE GetConfig \/ GetServices
  BY <1>12, FreshStays DEF GetConfig, GetServices
<1>13. ASSUME NEW m \in pending, Succeed(m) PROVE FreshInv'
  <2>1. /\ m \in Mutations /\ m.op \in {"toggle", "save", "delete", "create"} /\ m.name \in Ids /\ m.st = "done"
        /\ pending' = pending \ {m} /\ UNCHANGED <<server, writes>>
        /\ (m.op # "save" => m.name = m.id)
    BY <1>13, <1>a DEF Succeed, TypeOK, Mutations, TInv, WrittenInv
  <2>2. CASE acked' = 0
    BY <1>a, <2>1, <2>2, FreshOpened
  <2>3. CASE m.op \in {"delete", "create"} \/ (m.op = "save" /\ m.name # m.from)
    <3>1. acked' = 0
      BY <1>13, <2>3 DEF Succeed, Saved, Go, Arrive
    <3> QED
      BY <2>2, <3>1
  <2>4. CASE m.op = "toggle" \/ (m.op = "save" /\ m.name = m.from)
    <3>0. cache[m.name].ver # 0 /\ Answered(cache, m.id, m.ver)[m.name].ver # 0
      <4>1. cache[m.name].ver # 0
        BY <2>1, <2>4 DEF HeldInv
      <4> QED
        BY <1>a, <2>1, <4>1, AnsweredVer DEF TypeOK, Mutations
    <3>1. /\ page' = page
          /\ acked' = IF Active(m.name) /\ m.ver > acked THEN m.ver ELSE acked
          /\ \/ flight' = Again(cache, flight, {m.name})
             \/ flight' = Again(Answered(cache, m.id, m.ver), flight, {m.name})
      BY <1>13, <2>1, <2>4 DEF Succeed, Saved, Toggled
    <3>2. \A i \in Ids : flight'[i] = IF i = m.name /\ page.id = i THEN Sent ELSE flight[i]
      BY <3>0, <3>1 DEF Again, Active
    <3>3. Newer(server[m.name], m.ver)
      BY <2>1 DEF FreshInv
    <3>4. ASSUME NEW i \in Ids, page.id = i
          PROVE  Newer(server[i], acked') /\ (flight'[i].st = "read" => Newer(flight'[i].val, acked'))
      BY <3>1, <3>2, <3>3, <3>4 DEF FreshInv, Active, Sent
    <3> QED
      BY <2>1, <3>1, <3>4 DEF FreshInv
  <2> QED
    BY <2>1, <2>3, <2>4
<1>14. CASE UNCHANGED vars
  BY <1>14, FreshStays DEF vars
<1> QED
  BY <1>1, <1>2, <1>3, <1>4, <1>5, <1>6, <1>7, <1>8, <1>9, <1>10, <1>11, <1>12, <1>13, <1>14 DEF Next

\* A page that was told of a start, stop or save never goes back behind it:
\* what was read before is thrown away when the page is told.
THEOREM AckedStaysShown == Spec => AckedStays
<1>0. Init => HeldInv
  BY DEF Init, HeldInv
<1>1. Init => FreshInv
  BY DEF Init, FreshInv, Newer, Idle, Sent
<1>2. TInv /\ FreshInv /\ [Next]_vars =>
      [\A id \in Ids : page' = page /\ Active(id) /\ GetService(id) /\ flight[id].val # 0
                       => flight[id].val >= acked]_vars
  BY DEF FreshInv, Newer, Active, GetService
<1> QED
  BY <1>0, <1>1, <1>2, InitT, TNext, HeldNext, FreshNext, PTL DEF Spec, AckedStays
=============================================================================
