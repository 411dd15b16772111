-------------------------- MODULE AdminPages_proofs --------------------------
(***************************************************************************)
(* Proofs about AdminPages, for every set of users, every bound on clicks  *)
(* and every number of lines: the viewers of the logs that are emptied by  *)
(* reading, and what is typed into the forms.  With them, what Display     *)
(* makes of any nodes, routes and passwords, which these pages show.       *)
(***************************************************************************)
EXTENDS AdminPages, Display, FiniteSetTheorems, TLAPS

Numbers == Seq(Nat)
Rising(s) == \A i, j \in DOMAIN s : i < j => s[i] < s[j]
Precedes(A, B) == \A x \in A, y \in B : x < y

\* The lines are numbers, wherever they are; the page is one with a log or without.
Looked == [at : {"other", "users", "settings"}, tab : Tabs \union {""},
           log : {"", "server", "access", "error"}]
LogFlights == {Idle} \union [st : {"reading", "read"}, lines : Numbers]
LogType ==
  /\ buffer \in [Drained -> Numbers]
  /\ batch \in [Drained -> Numbers]
  /\ shown \in Numbers
  /\ logFlight \in [Drained -> LogFlights]
  /\ made \in [Drained -> Nat] /\ \A k \in Drained : made[k] % 2 = 0
  /\ lost \in [Drained -> SUBSET Nat]
  /\ page \in Looked

\* From any half of A up to the last, m, every half is in A or in B.
Covered(A, B, m) == \A x \in A : \A n \in x .. m : n \in A \union B

\* The first half of a line is where its second is, or with Y, or lost; and
\* where an answer has ended, neither is without the other unless it is lost.
Opened(X, Y, L) == \A n \in X : n % 2 = 0 => n - 1 \in X \union Y \union L
Closed(X, L) == \A n \in X : n % 2 = 1 => n + 1 \in X \union L

\* The halves of the lines of one log: S seen in the viewer, C in the cache, F
\* in flight and B in the server's buffer come in the order they were written,
\* and nothing between them is anywhere else, but for what is lost, L.  R is F
\* while it is being read and empty when the answer has ended.
Placed(S, C, F, R, B, L, m) ==
  /\ Precedes(F, B) /\ Precedes(C, F \union B) /\ Precedes(S, F \union B)
  /\ Covered(B, {}, m) /\ Covered(F, B \union L, m)
  /\ Covered(C, F \union B \union L, m) /\ Covered(S, F \union B \union L, m)
  /\ \A n \in S \union C \union F \union B : n <= m
  /\ Opened(S, {}, L) /\ Opened(C, {}, L) /\ Opened(F, {}, L) /\ Opened(B, R, L)
  /\ Closed(S, L) /\ Closed(C, L) /\ (R = F \/ (R = {} /\ Closed(F, L)))

Seen(k) == IF Viewing(k) THEN Lines(shown) ELSE {}
InReading(k) == IF logFlight[k].st = "reading" THEN InFlight(k) ELSE {}
PlacedInv(k) == Placed(Seen(k), Lines(batch[k]), InFlight(k), InReading(k), Lines(buffer[k]),
                       lost[k], made[k])

RisingInv(k) == /\ Rising(buffer[k]) /\ Rising(batch[k])
                /\ logFlight[k] # Idle => Rising(logFlight[k].lines)
                /\ Viewing(k) => Rising(shown)

LogInv == \A k \in Drained : RisingInv(k) /\ PlacedInv(k)

-----------------------------------------------------------------------------
(* Sequences of lines. *)

\* A line at a place of a sequence is one of its lines, and there are no others.
LEMMA LineIn == \A s \in Numbers : \A i \in 1 .. Len(s) : s[i] \in Lines(s)
  BY DEF Lines, Numbers

LEMMA LineAt == \A s \in Numbers : \A x \in Lines(s) : \E i \in 1 .. Len(s) : x = s[i]
  BY DEF Lines, Numbers

\* The lines of two sequences, one after the other.
LEMMA LinesConcat ==
  ASSUME NEW s \in Numbers, NEW t \in Numbers
  PROVE  /\ s \o t \in Numbers
         /\ Lines(s \o t) = Lines(s) \union Lines(t)
<1>1. s \o t \in Numbers /\ Len(s \o t) = Len(s) + Len(t)
  BY DEF Numbers
<1>2. \A i \in 1 .. Len(s) : (s \o t)[i] = s[i]
  BY DEF Numbers
<1>3. \A i \in 1 .. Len(t) : (s \o t)[Len(s) + i] = t[i]
  BY DEF Numbers
<1>4. Lines(s \o t) \subseteq Lines(s) \union Lines(t)
  <2> SUFFICES ASSUME NEW i \in 1 .. Len(s) + Len(t)
               PROVE  (s \o t)[i] \in Lines(s) \union Lines(t)
    BY <1>1 DEF Lines, Numbers
  <2>1. CASE i <= Len(s)
    BY <2>1, <1>2 DEF Lines, Numbers
  <2>2. CASE i > Len(s)
    <3>1. i - Len(s) \in 1 .. Len(t) /\ Len(s) + (i - Len(s)) = i
      BY <2>2 DEF Numbers
    <3> QED
      BY <3>1, <1>3 DEF Lines, Numbers
  <2> QED
    BY <2>1, <2>2 DEF Numbers
<1>5. Lines(s) \subseteq Lines(s \o t)
  <2> SUFFICES ASSUME NEW i \in 1 .. Len(s) PROVE s[i] \in Lines(s \o t)
    BY LineAt
  <2>1. i \in 1 .. Len(s \o t)
    BY <1>1 DEF Numbers
  <2>2. (s \o t)[i] \in Lines(s \o t)
    BY <2>1, <1>1, LineIn, Zenon
  <2> QED
    BY <2>2, <1>2
<1>6. Lines(t) \subseteq Lines(s \o t)
  <2> SUFFICES ASSUME NEW i \in 1 .. Len(t) PROVE t[i] \in Lines(s \o t)
    BY LineAt
  <2>1. Len(s) + i \in 1 .. Len(s \o t)
    BY <1>1 DEF Numbers
  <2>2. (s \o t)[Len(s) + i] \in Lines(s \o t)
    BY <2>1, <1>1, LineIn, Zenon
  <2> QED
    BY <2>2, <1>3
<1> QED
  BY <1>1, <1>4, <1>5, <1>6

\* A rising sequence goes on rising with one that comes after it.
LEMMA RisingConcat ==
  ASSUME NEW s \in Numbers, NEW t \in Numbers, Rising(s), Rising(t),
         Precedes(Lines(s), Lines(t))
  PROVE  Rising(s \o t)
<1>1. s \o t \in Numbers /\ Len(s \o t) = Len(s) + Len(t)
  BY DEF Numbers
<1>2. \A i \in 1 .. Len(s) : (s \o t)[i] = s[i]
  BY DEF Numbers
<1>3. \A i \in Len(s) + 1 .. Len(s) + Len(t) :
        (s \o t)[i] = t[i - Len(s)] /\ i - Len(s) \in 1 .. Len(t)
  BY DEF Numbers
<1> SUFFICES ASSUME NEW i \in 1 .. Len(s) + Len(t), NEW j \in 1 .. Len(s) + Len(t), i < j
             PROVE  (s \o t)[i] < (s \o t)[j]
  BY <1>1 DEF Rising, Numbers
<1>4. CASE j <= Len(s)
  BY <1>4, <1>2 DEF Rising, Numbers
<1>5. CASE i <= Len(s) /\ j > Len(s)
  <2>1. (s \o t)[i] = s[i] /\ s[i] \in Lines(s)
    BY <1>5, <1>2 DEF Lines, Numbers
  <2>2. (s \o t)[j] = t[j - Len(s)] /\ t[j - Len(s)] \in Lines(t)
    BY <1>5, <1>3 DEF Lines, Numbers
  <2> QED
    BY <2>1, <2>2 DEF Precedes
<1>6. CASE i > Len(s)
  BY <1>6, <1>3 DEF Rising, Numbers
<1> QED
  BY <1>4, <1>5, <1>6 DEF Numbers

\* Lines are numbers, and an empty log has none.
LEMMA LinesNat == ASSUME NEW s \in Numbers PROVE Lines(s) \subseteq Nat
  BY DEF Lines, Numbers

LEMMA LinesNone == << >> \in Numbers /\ Lines(<< >>) = {} /\ Rising(<< >>)
  BY DEF Lines, Numbers, Rising

\* One line more.
LEMMA LinesAppend ==
  ASSUME NEW s \in Numbers, NEW n \in Nat, Rising(s), \A x \in Lines(s) : x < n
  PROVE  /\ Append(s, n) \in Numbers
         /\ Lines(Append(s, n)) = Lines(s) \union {n}
         /\ Rising(Append(s, n))
<1>1. <<n>> \in Numbers /\ Lines(<<n>>) = {n} /\ Rising(<<n>>) /\ Append(s, n) = s \o <<n>>
  BY DEF Numbers, Lines, Rising
<1>2. Precedes(Lines(s), Lines(<<n>>))
  BY <1>1 DEF Precedes
<1> QED
  BY <1>1, <1>2, LinesConcat, RisingConcat

\* The first of a rising sequence, and the rest.
LEMMA LinesHead ==
  ASSUME NEW s \in Numbers, s # << >>, Rising(s)
  PROVE  /\ Head(s) \in Nat /\ Tail(s) \in Numbers /\ Rising(Tail(s))
         /\ Lines(s) = Lines(Tail(s)) \union {Head(s)}
         /\ \A x \in Lines(Tail(s)) : Head(s) < x
<1>1. /\ Len(s) \in Nat \ {0} /\ Tail(s) \in Numbers /\ Len(Tail(s)) = Len(s) - 1
      /\ Head(s) = s[1] /\ Head(s) \in Nat
  BY DEF Numbers
<1>2. \A i \in 1 .. Len(s) - 1 : Tail(s)[i] = s[i + 1]
  BY DEF Numbers
<1>3. Rising(Tail(s))
  <2> SUFFICES ASSUME NEW i \in 1 .. Len(s) - 1, NEW j \in 1 .. Len(s) - 1, i < j
               PROVE  Tail(s)[i] < Tail(s)[j]
    BY <1>1 DEF Rising, Numbers
  <2>1. i + 1 \in DOMAIN s /\ j + 1 \in DOMAIN s /\ i + 1 < j + 1
    BY <1>1 DEF Numbers
  <2> QED
    BY <1>2, <2>1 DEF Rising
<1>4. ASSUME NEW x \in Lines(Tail(s)) PROVE x \in Lines(s) /\ Head(s) < x
  <2>1. PICK i \in 1 .. Len(s) - 1 : x = Tail(s)[i]
    BY <1>1, <1>4, LineAt
  <2>2. i + 1 \in DOMAIN s /\ 1 \in DOMAIN s /\ 1 < i + 1 /\ x = s[i + 1]
    BY <1>1, <1>2, <2>1 DEF Numbers
  <2> QED
    BY <1>1, <2>2 DEF Rising, Lines
<1>5. ASSUME NEW x \in Lines(s) PROVE x \in Lines(Tail(s)) \union {Head(s)}
  <2>1. PICK i \in 1 .. Len(s) : x = s[i]
    BY <1>5, LineAt
  <2>2. CASE i = 1
    BY <1>1, <2>1, <2>2
  <2>3. CASE i # 1
    <3>1. i - 1 \in 1 .. Len(s) - 1 /\ (i - 1) + 1 = i
      BY <1>1, <2>1, <2>3
    <3>2. x = Tail(s)[i - 1] /\ i - 1 \in 1 .. Len(Tail(s))
      BY <1>1, <1>2, <2>1, <3>1
    <3> QED
      BY <1>1, <3>2, LineIn
  <2> QED
    BY <2>2, <2>3
<1>6. Head(s) \in Lines(s)
  BY <1>1, LineIn
<1> QED
  BY <1>1, <1>3, <1>4, <1>5, <1>6

-----------------------------------------------------------------------------
(* What the steps of the logs do to where the lines are. *)

\* A line is written.
LEMMA PlacedLog ==
  ASSUME NEW S \in SUBSET Nat, NEW C \in SUBSET Nat, NEW F \in SUBSET Nat, NEW R, NEW B \in SUBSET Nat,
         NEW L \in SUBSET Nat, NEW m \in Nat, m % 2 = 0, Placed(S, C, F, R, B, L, m)
  PROVE  Placed(S, C, F, R, B \union {m + 1, m + 2}, L, m + 2)
<1> DEFINE D == B \union {m + 1, m + 2}
<1>1. /\ Precedes(F, D) /\ Precedes(C, F \union D) /\ Precedes(S, F \union D)
      /\ \A n \in S \union C \union F \union D : n <= m + 2
  BY DEF Placed, Precedes
<1>2. /\ Covered(D, {}, m + 2) /\ Covered(F, D \union L, m + 2)
      /\ Covered(C, F \union D \union L, m + 2) /\ Covered(S, F \union D \union L, m + 2)
  <2>1. \A x \in Nat : \A n \in x .. m + 2 : n \in x .. m \/ n = m + 1 \/ n = m + 2
    OBVIOUS
  <2> QED
    BY <2>1 DEF Placed, Covered
<1>3. Opened(D, R, L)
  <2>1. (m + 1) % 2 = 1 /\ (m + 2) - 1 = m + 1
    OBVIOUS
  <2> QED
    BY <2>1 DEF Placed, Opened
<1> HIDE DEF D
<1>4. Placed(S, C, F, R, D, L, m + 2)
  BY <1>1, <1>2, <1>3 DEF Placed
<1> QED
  BY <1>4 DEF D

\* The server's scanner takes the first of the buffer.
LEMMA PlacedRead ==
  ASSUME NEW S \in SUBSET Nat, NEW C \in SUBSET Nat, NEW F \in SUBSET Nat, NEW B \in SUBSET Nat,
         NEW L \in SUBSET Nat, NEW m \in Nat, NEW n \in Nat, \A x \in B : n < x,
         Placed(S, C, F, F, B \union {n}, L, m)
  PROVE  Placed(S, C, F \union {n}, F \union {n}, B, L, m)
<1>1. /\ Precedes(F \union {n}, B) /\ Precedes(C, F \union {n} \union B)
      /\ Precedes(S, F \union {n} \union B)
      /\ \A x \in S \union C \union (F \union {n}) \union B : x <= m
  BY DEF Placed, Precedes
<1>2. /\ Covered(B, {}, m) /\ Covered(F \union {n}, B \union L, m)
      /\ Covered(C, F \union {n} \union B \union L, m) /\ Covered(S, F \union {n} \union B \union L, m)
  BY DEF Placed, Covered
<1>3. Opened(B, F \union {n}, L)
  BY DEF Placed, Opened
<1>4. Opened(F \union {n}, {}, L)
  <2>1. n % 2 = 0 => n - 1 \in F \union L
    <3>1. n - 1 \notin B \union {n}
      OBVIOUS
    <3>2. n % 2 = 0 => n - 1 \in (B \union {n}) \union F \union L
      BY DEF Placed, Opened
    <3> QED
      BY <3>1, <3>2
  <2>2. Opened(F, {}, L)
    BY DEF Placed
  <2> QED
    BY <2>1, <2>2 DEF Opened
<1> QED
  BY <1>1, <1>2, <1>3, <1>4 DEF Placed

\* It finds no more: what it has read ends with the second half of a line, or
\* with a first one whose second is lost.
LEMMA PlacedServe ==
  ASSUME NEW S \in SUBSET Nat, NEW C \in SUBSET Nat, NEW F \in SUBSET Nat,
         NEW L \in SUBSET Nat, NEW m \in Nat, m % 2 = 0, Placed(S, C, F, F, {}, L, m)
  PROVE  Placed(S, C, F, {}, {}, L, m)
<1>1. ASSUME NEW n \in F, n % 2 = 1 PROVE n + 1 \in F \union L
  <2>1. n <= m /\ n # m /\ n \in Nat
    BY <1>1 DEF Placed
  <2>2. n + 1 \in n .. m
    BY <2>1
  <2> QED
    BY <2>2 DEF Placed, Covered
<1> QED
  BY <1>1 DEF Placed, Closed, Opened

\* Another scanner takes it.
LEMMA PlacedDrain ==
  ASSUME NEW S \in SUBSET Nat, NEW C \in SUBSET Nat, NEW F \in SUBSET Nat, NEW R, NEW B \in SUBSET Nat,
         NEW L \in SUBSET Nat, NEW m \in Nat, NEW n \in Nat, \A x \in B : n < x,
         Placed(S, C, F, R, B \union {n}, L, m)
  PROVE  Placed(S, C, F, R, B, L \union {n}, m)
<1>1. /\ Precedes(F, B) /\ Precedes(C, F \union B) /\ Precedes(S, F \union B)
      /\ \A x \in S \union C \union F \union B : x <= m
  BY DEF Placed, Precedes
<1>2. /\ Covered(B, {}, m) /\ Covered(F, B \union (L \union {n}), m)
      /\ Covered(C, F \union B \union (L \union {n}), m)
      /\ Covered(S, F \union B \union (L \union {n}), m)
  BY DEF Placed, Covered
<1>3. /\ Opened(S, {}, L \union {n}) /\ Opened(C, {}, L \union {n}) /\ Opened(F, {}, L \union {n})
      /\ Opened(B, R, L \union {n})
      /\ Closed(S, L \union {n}) /\ Closed(C, L \union {n})
      /\ Closed(F, L) => Closed(F, L \union {n})
  BY DEF Placed, Opened, Closed
<1> QED
  BY <1>1, <1>2, <1>3 DEF Placed

\* An answer is lost or discarded, or the scanner fails.
LEMMA PlacedLose ==
  ASSUME NEW S \in SUBSET Nat, NEW C \in SUBSET Nat, NEW F \in SUBSET Nat, NEW R, NEW B \in SUBSET Nat,
         NEW L \in SUBSET Nat, NEW m \in Nat, Placed(S, C, F, R, B, L, m)
  PROVE  Placed(S, C, {}, {}, B, L \union F, m)
<1>1. /\ Precedes({}, B) /\ Precedes(C, {} \union B) /\ Precedes(S, {} \union B)
      /\ \A x \in S \union C \union {} \union B : x <= m
  BY DEF Placed, Precedes
<1>2. /\ Covered(B, {}, m) /\ Covered({}, B \union (L \union F), m)
      /\ Covered(C, {} \union B \union (L \union F), m)
      /\ Covered(S, {} \union B \union (L \union F), m)
  BY DEF Placed, Covered
<1>3. /\ Opened(S, {}, L \union F) /\ Opened(C, {}, L \union F) /\ Opened({}, {}, L \union F)
      /\ Opened(B, {}, L \union F) /\ Closed(S, L \union F) /\ Closed(C, L \union F)
      /\ Closed({}, L \union F)
  BY DEF Placed, Opened, Closed
<1> QED
  BY <1>1, <1>2, <1>3 DEF Placed

\* An answer arrives in the cache, and in the viewer if there is one.
LEMMA PlacedGet ==
  ASSUME NEW S \in SUBSET Nat, NEW C \in SUBSET Nat, NEW F \in SUBSET Nat, NEW B \in SUBSET Nat,
         NEW L \in SUBSET Nat, NEW m \in Nat, Placed(S, C, F, {}, B, L, m)
  PROVE  Placed(S \union F, F, {}, {}, B, L, m) /\ Placed({}, F, {}, {}, B, L, m)
<1>1. /\ Precedes({}, B) /\ Precedes(F, {} \union B) /\ Precedes(S \union F, {} \union B)
      /\ Precedes({}, {} \union B) /\ \A x \in (S \union F) \union F \union {} \union B : x <= m
  BY DEF Placed, Precedes
<1>2. /\ Covered(B, {}, m) /\ Covered({}, B \union L, m) /\ Covered({}, {} \union B \union L, m)
      /\ Covered(F, {} \union B \union L, m) /\ Covered(S \union F, {} \union B \union L, m)
  BY DEF Placed, Covered
<1>3. Closed(F, L)
  BY DEF Placed, Closed
<1>4. /\ Opened(S \union F, {}, L) /\ Opened({}, {}, L) /\ Opened(F, {}, L) /\ Opened(B, {}, L)
      /\ Closed(S \union F, L) /\ Closed({}, L)
  BY <1>3 DEF Placed, Opened, Closed
<1> QED
  BY <1>1, <1>2, <1>3, <1>4 DEF Placed

\* A viewer appears with what is cached, or goes.
LEMMA PlacedLook ==
  ASSUME NEW S \in SUBSET Nat, NEW C \in SUBSET Nat, NEW F \in SUBSET Nat, NEW R, NEW B \in SUBSET Nat,
         NEW L \in SUBSET Nat, NEW m \in Nat, Placed(S, C, F, R, B, L, m)
  PROVE  Placed(C, C, F, R, B, L, m) /\ Placed({}, C, F, R, B, L, m)
<1>1. /\ Precedes({}, F \union B) /\ Covered({}, F \union B \union L, m)
      /\ Opened({}, {}, L) /\ Closed({}, L)
  BY DEF Precedes, Covered, Opened, Closed
<1> QED
  BY <1>1 DEF Placed

\* All of them are sets of numbers.
LEMMA PlacedType ==
  ASSUME LogType, NEW k \in Drained
  PROVE  /\ Seen(k) \in SUBSET Nat /\ Lines(batch[k]) \in SUBSET Nat
         /\ InFlight(k) \in SUBSET Nat /\ Lines(buffer[k]) \in SUBSET Nat
         /\ lost[k] \in SUBSET Nat /\ made[k] \in Nat
<1>1. buffer[k] \in Numbers /\ batch[k] \in Numbers /\ shown \in Numbers
      /\ lost[k] \in SUBSET Nat /\ made[k] \in Nat
  BY DEF LogType
<1>2. logFlight[k] # Idle => logFlight[k].lines \in Numbers
  BY DEF LogType, LogFlights
<1> QED
  BY <1>1, <1>2, LinesNat DEF Seen, InFlight

-----------------------------------------------------------------------------
(* The invariant holds at first, and every step of the logs keeps it. *)

\* The pages that can be opened show no log, or the server's.
LEMMA PagesLooked == \A p \in Pages : p \in Looked /\ p.log \notin Drained
<1>1. \A t \in Tabs : Settings(t) \in Looked /\ Settings(t).log \notin Drained
  BY DrainedAssumption DEF Settings, Looked
<1>2. /\ Elsewhere \in Looked /\ Elsewhere.log \notin Drained
      /\ UsersPage \in Looked /\ UsersPage.log \notin Drained
  BY DrainedAssumption DEF Elsewhere, UsersPage, Looked
<1> QED
  BY <1>1, <1>2 DEF Pages

\* No log has a line.
LEMMA InitLog == Init => LogType /\ LogInv
<1> SUFFICES ASSUME Init PROVE LogType /\ LogInv
  OBVIOUS
<1>1. LogType
  BY LinesNone, PagesLooked DEF Init, LogType, LogFlights
<1>2. ASSUME NEW k \in Drained
      PROVE  /\ buffer[k] = << >> /\ batch[k] = << >> /\ shown = << >> /\ logFlight[k] = Idle
             /\ Lines(buffer[k]) = {} /\ Lines(batch[k]) = {} /\ Lines(shown) = {}
             /\ lost[k] = {} /\ InFlight(k) = {} /\ InReading(k) = {}
  BY LinesNone DEF Init, InFlight, InReading, Idle
<1>3. Placed({}, {}, {}, {}, {}, {}, 0)
  BY DEF Placed, Precedes, Covered, Opened, Closed
<1>4. LogInv
  <2> SUFFICES ASSUME NEW k \in Drained PROVE RisingInv(k) /\ PlacedInv(k)
    BY DEF LogInv
  <2>1. RisingInv(k)
    BY <1>2, LinesNone DEF RisingInv, Idle
  <2>2. made[k] = 0 /\ Seen(k) = {}
    BY <1>2 DEF Init, Seen
  <2>3. PlacedInv(k)
    BY <1>2, <1>3, <2>2 DEF PlacedInv
  <2> QED
    BY <2>1, <2>3
<1> QED
  BY <1>1, <1>4

\* Whatever leaves the logs alone and either leaves a viewer or makes it start
\* from what is cached.
Looks ==
  /\ UNCHANGED <<buffer, made, batch, logFlight, lost>>
  /\ shown' \in Numbers /\ page' \in Looked
  /\ \A k \in Drained : Viewing(k)' => shown' = batch[k] \/ (Viewing(k) /\ shown' = shown)

LEMMA LooksInv == LogType /\ LogInv /\ Looks => LogType' /\ LogInv'
<1> SUFFICES ASSUME LogType, LogInv, Looks PROVE LogType' /\ LogInv'
  OBVIOUS
<1>1. LogType'
  BY DEF LogType, Looks
<1>2. ASSUME NEW k \in Drained PROVE RisingInv(k)' /\ PlacedInv(k)'
  <2>1. RisingInv(k) /\ PlacedInv(k)
    BY DEF LogInv
  <2>2. RisingInv(k)'
    BY <2>1 DEF RisingInv, Looks
  <2>3. Seen(k)' \in {{}, Lines(batch[k]), Seen(k)}
    BY DEF Seen, Looks, Lines
  <2>4. InFlight(k)' = InFlight(k) /\ InReading(k)' = InReading(k)
        /\ Lines(buffer[k])' = Lines(buffer[k])
        /\ Lines(batch[k])' = Lines(batch[k]) /\ lost[k]' = lost[k] /\ made[k]' = made[k]
    BY DEF InFlight, InReading, Looks, Lines
  <2>5. /\ Placed({}, Lines(batch[k]), InFlight(k), InReading(k), Lines(buffer[k]), lost[k], made[k])
        /\ Placed(Lines(batch[k]), Lines(batch[k]), InFlight(k), InReading(k), Lines(buffer[k]),
                  lost[k], made[k])
    BY <2>1, PlacedType, PlacedLook DEF PlacedInv
  <2>6. PlacedInv(k)'
    BY <2>1, <2>3, <2>4, <2>5 DEF PlacedInv
  <2> QED
    BY <2>2, <2>6
<1> QED
  BY <1>1, <1>2 DEF LogInv

\* A page that is opened has no viewer of a log that is emptied, and a tab or a
\* log that is clicked shows one that starts from what is cached.
LEMMA WatchLooks ==
  ASSUME LogType, NEW p \in Looked, page' = p, Watch(p), UNCHANGED <<buffer, made, batch, logFlight, lost>>,
         p.log # page.log \/ p.log \notin Drained
  PROVE  Looks
<1>1. \A k \in Drained : batch[k] \in Numbers
  BY DEF LogType
<1>2. shown' \in Numbers
  BY <1>1, LinesNone DEF LogType, Watch, Appeared
<1>3. ASSUME NEW k \in Drained, Viewing(k)' PROVE shown' = batch[k]
  <2>1. p.log = k
    BY <1>3 DEF Viewing
  <2> QED
    BY <2>1 DEF Watch, Appeared
<1> QED
  BY <1>2, <1>3 DEF Looks

\* Every step but the logs' own and the invalidation's.
LEMMA OthersInv ==
  ASSUME LogType, LogInv,
         \/ \E p \in Pages : Open(p)
         \/ \E t \in Tabs : ClickTab(t)
         \/ \E k \in {"server", "access", "error"} : ClickLog(k)
         \/ /\ UNCHANGED <<logs, page>>
            /\ broken' = broken \/ broken'
  PROVE  LogType' /\ LogInv'
<1>1. ASSUME NEW p \in Pages, Open(p) PROVE Looks
  <2>1. p \in Looked /\ p.log \notin Drained
    BY PagesLooked
  <2> QED
    BY <1>1, <2>1, WatchLooks DEF Open
<1>2. ASSUME NEW t \in Tabs, ClickTab(t) PROVE Looks
  <2>1. Settings(t) \in Looked /\ Settings(t).log \notin Drained
    BY PagesLooked DEF Pages
  <2> QED
    BY <1>2, <2>1, WatchLooks DEF ClickTab
<1>3. ASSUME NEW k \in {"server", "access", "error"}, ClickLog(k) PROVE Looks
  <2> DEFINE p == [page EXCEPT !.log = k]
  <2>1. page' = p /\ Watch(p) /\ k # page.log /\ UNCHANGED <<buffer, made, batch, logFlight, lost>>
    BY <1>3 DEF ClickLog
  <2>2. p \in Looked /\ p.log = k
    BY DEF LogType, Looked
  <2> QED
    BY <2>1, <2>2, WatchLooks
<1>4. ASSUME UNCHANGED <<logs, page>>, broken' = broken \/ broken' PROVE Looks
  BY <1>4 DEF Looks, logs, LogType, Viewing
<1> QED
  BY <1>1, <1>2, <1>3, <1>4, LooksInv

\* A step of one log leaves the others alone.
Others(k) ==
  \A j \in Drained \ {k} :
    /\ buffer'[j] = buffer[j] /\ made'[j] = made[j] /\ batch'[j] = batch[j]
    /\ logFlight'[j] = logFlight[j] /\ lost'[j] = lost[j]
    /\ Viewing(j)' = Viewing(j) /\ (Viewing(j) => shown' = shown)

LEMMA OneLog ==
  ASSUME LogInv, NEW k \in Drained, Others(k), RisingInv(k)', PlacedInv(k)'
  PROVE  LogInv'
<1> SUFFICES ASSUME NEW j \in Drained, j # k PROVE RisingInv(j)' /\ PlacedInv(j)'
  BY DEF LogInv
<1>1. RisingInv(j) /\ PlacedInv(j)
  BY DEF LogInv
<1>2. RisingInv(j)'
  BY <1>1 DEF RisingInv, Others
<1>3. Seen(j)' = Seen(j) /\ InFlight(j)' = InFlight(j) /\ InReading(j)' = InReading(j)
  BY DEF Seen, InFlight, InReading, Others, Lines
<1>4. PlacedInv(j)'
  BY <1>1, <1>3 DEF PlacedInv, Others, Lines
<1> QED
  BY <1>2, <1>4

LEMMA LogKeeps ==
  ASSUME LogType, LogInv, NEW k \in Drained, Log(k)
  PROVE  LogType' /\ LogInv'
<1>1. RisingInv(k) /\ PlacedInv(k)
  BY DEF LogInv
<1>2. /\ buffer[k] \in Numbers /\ made[k] \in Nat /\ made[k] % 2 = 0 /\ (made[k] + 2) % 2 = 0
      /\ buffer'[k] = buffer[k] \o <<made[k] + 1, made[k] + 2>>
  BY DEF LogType, Log
<1>3. \A x \in Lines(buffer[k]) : x <= made[k] /\ x \in Nat
  BY <1>1, <1>2, LinesNat DEF PlacedInv, Placed
<1>4. /\ buffer'[k] \in Numbers /\ Rising(buffer'[k])
      /\ Lines(buffer'[k]) = Lines(buffer[k]) \union {made[k] + 1, made[k] + 2}
  <2> DEFINE t == <<made[k] + 1, made[k] + 2>>
  <2>0. /\ t \in Numbers /\ DOMAIN t = {1, 2} /\ t[1] = made[k] + 1 /\ t[2] = made[k] + 2
        /\ made[k] + 1 < made[k] + 2
    BY <1>2 DEF Numbers
  <2>1. t \in Numbers /\ Rising(t) /\ Lines(t) = {made[k] + 1, made[k] + 2}
    <3> HIDE DEF t
    <3>1. Rising(t)
      BY <2>0 DEF Rising
    <3>2. Lines(t) = {made[k] + 1, made[k] + 2}
      BY <2>0 DEF Lines
    <3> QED
      BY <2>0, <3>1, <3>2
  <2> HIDE DEF t
  <2>2. Precedes(Lines(buffer[k]), Lines(t))
    <3>1. made[k] < made[k] + 1 /\ made[k] < made[k] + 2
      BY <1>2
    <3> QED
      BY <1>2, <1>3, <2>1, <3>1 DEF Precedes
  <2> QED
    BY <1>1, <1>2, <2>1, <2>2, LinesConcat, RisingConcat DEF RisingInv, t
<1>5. LogType'
  BY <1>2, <1>4 DEF Log, LogType, view
<1>6. Others(k)
  BY DEF Others, Log, LogType, Viewing, view
<1>7. RisingInv(k)'
  BY <1>1, <1>4 DEF RisingInv, Log, Viewing, view
<1>8. /\ Seen(k)' = Seen(k) /\ InFlight(k)' = InFlight(k) /\ InReading(k)' = InReading(k)
      /\ made'[k] = made[k] + 2
  BY DEF Seen, InFlight, InReading, Lines, Log, Viewing, view, LogType
<1>9. PlacedInv(k)'
  <2>1. Placed(Seen(k), Lines(batch[k]), InFlight(k), InReading(k),
               Lines(buffer[k]) \union {made[k] + 1, made[k] + 2}, lost[k], made[k] + 2)
    BY <1>1, <1>2, PlacedLog, PlacedType DEF PlacedInv
  <2>2. Lines(batch[k])' = Lines(batch[k]) /\ lost'[k] = lost[k]
        /\ Lines(buffer[k])' = Lines(buffer[k]) \union {made[k] + 1, made[k] + 2}
    BY <1>4 DEF Log, Lines
  <2> QED
    BY <1>8, <2>1, <2>2 DEF PlacedInv
<1> QED
  BY <1>5, <1>6, <1>7, <1>9, OneLog

LEMMA PollKeeps ==
  ASSUME LogType, LogInv, NEW k \in Drained, PollLog(k)
  PROVE  LogType' /\ LogInv'
<1>1. RisingInv(k) /\ PlacedInv(k)
  BY DEF LogInv
<1>2. LogType'
  BY LinesNone DEF PollLog, LogType, LogFlights, Reading, view
<1>3. Others(k)
  BY DEF Others, PollLog, LogType, Viewing, view
<1>4. logFlight'[k] = Reading(<< >>) /\ logFlight[k] = Idle
  BY DEF PollLog, LogType
<1>5. RisingInv(k)'
  BY <1>1, <1>4, LinesNone DEF RisingInv, PollLog, Viewing, view, Reading
<1>6. Seen(k)' = Seen(k) /\ InFlight(k)' = InFlight(k) /\ InReading(k)' = InReading(k)
  BY <1>4, LinesNone DEF Seen, InFlight, InReading, Lines, PollLog, Viewing, view, Reading, Idle
<1>7. PlacedInv(k)'
  BY <1>1, <1>6 DEF PlacedInv, PollLog, Lines
<1> QED
  BY <1>2, <1>3, <1>5, <1>7, OneLog

\* The request takes the first of the buffer.
LEMMA ReadKeeps ==
  ASSUME LogType, LogInv, NEW k \in Drained, ReadLog(k)
  PROVE  LogType' /\ LogInv'
<1> DEFINE s == logFlight[k].lines
           b == buffer[k]
<1>1. RisingInv(k) /\ PlacedInv(k)
  BY DEF LogInv
<1>2. /\ b \in Numbers /\ b # << >> /\ buffer'[k] = Tail(b) /\ logFlight[k].st = "reading"
      /\ logFlight[k] # Idle /\ s \in Numbers
      /\ logFlight' = [logFlight EXCEPT ![k].lines = Append(s, Head(b))]
      /\ logFlight'[k].st = "reading" /\ logFlight'[k].lines = Append(s, Head(b))
      /\ logFlight'[k] # Idle
  BY DEF ReadLog, LogType, LogFlights, Idle
<1>3. /\ InFlight(k) = Lines(s) /\ InReading(k) = Lines(s) /\ Rising(s) /\ Rising(b)
  BY <1>1, <1>2 DEF InFlight, InReading, RisingInv
<1> HIDE DEF s, b
<1>4. /\ Head(b) \in Nat /\ Tail(b) \in Numbers /\ Rising(Tail(b))
      /\ Lines(b) = Lines(Tail(b)) \union {Head(b)}
      /\ \A x \in Lines(Tail(b)) : Head(b) < x
  BY <1>2, <1>3, LinesHead
<1>5. \A x \in Lines(s) : x < Head(b)
  BY <1>1, <1>3, <1>4 DEF PlacedInv, Placed, Precedes, b
<1>6. /\ Append(s, Head(b)) \in Numbers /\ Lines(Append(s, Head(b))) = Lines(s) \union {Head(b)}
      /\ Rising(Append(s, Head(b)))
  BY <1>2, <1>3, <1>4, <1>5, LinesAppend
<1>7. LogType'
  <2>1. logFlight' \in [Drained -> LogFlights]
    BY <1>2, <1>6 DEF LogType, LogFlights, Idle
  <2> QED
    BY <1>2, <1>4, <2>1 DEF ReadLog, LogType, view
<1>8. Others(k)
  BY DEF Others, ReadLog, LogType, Viewing, view
<1>9. RisingInv(k)'
  BY <1>1, <1>2, <1>4, <1>6 DEF RisingInv, ReadLog, Viewing, view
<1>10. /\ Seen(k)' = Seen(k) /\ InFlight(k)' = Lines(s) \union {Head(b)}
       /\ InReading(k)' = Lines(s) \union {Head(b)}
  <2>1. Seen(k)' = Seen(k)
    BY DEF Seen, ReadLog, Lines, Viewing, view
  <2>2. InFlight(k)' = Lines(logFlight'[k].lines)
    BY <1>2 DEF InFlight, Lines, Idle
  <2>3. InReading(k)' = InFlight(k)'
    BY <1>2 DEF InReading
  <2> QED
    BY <1>2, <1>6, <2>1, <2>2, <2>3
<1>11. PlacedInv(k)'
  <2>1. Placed(Seen(k), Lines(batch[k]), Lines(s), Lines(s), Lines(Tail(b)) \union {Head(b)},
               lost[k], made[k])
    BY <1>1, <1>3, <1>4 DEF PlacedInv, b
  <2>2. Placed(Seen(k), Lines(batch[k]), Lines(s) \union {Head(b)}, Lines(s) \union {Head(b)},
               Lines(Tail(b)), lost[k], made[k])
    BY <1>2, <1>4, <2>1, PlacedRead, PlacedType, LinesNat
  <2>3. Lines(batch[k])' = Lines(batch[k]) /\ lost'[k] = lost[k] /\ made'[k] = made[k]
        /\ Lines(buffer[k])' = Lines(Tail(b))
    BY <1>2 DEF ReadLog, Lines
  <2> QED
    BY <1>10, <2>2, <2>3 DEF PlacedInv
<1> QED
  BY <1>7, <1>8, <1>9, <1>11, OneLog

\* The request finds nothing more.
LEMMA ServeKeeps ==
  ASSUME LogType, LogInv, NEW k \in Drained, ServeLog(k)
  PROVE  LogType' /\ LogInv'
<1>1. RisingInv(k) /\ PlacedInv(k)
  BY DEF LogInv
<1>2. /\ buffer[k] = << >> /\ logFlight[k].st = "reading" /\ logFlight[k] # Idle
      /\ logFlight' = [logFlight EXCEPT ![k].st = "read"] /\ logFlight'[k] # Idle
      /\ logFlight'[k].st = "read" /\ logFlight'[k].lines = logFlight[k].lines
  BY DEF ServeLog, LogType, LogFlights, Idle
<1>3. LogType'
  BY <1>2 DEF ServeLog, LogType, LogFlights, Idle, view
<1>4. Others(k)
  BY DEF Others, ServeLog, LogType, Viewing, view
<1>5. RisingInv(k)'
  BY <1>1, <1>2 DEF RisingInv, ServeLog, Viewing, view
<1>6. /\ Seen(k)' = Seen(k) /\ InFlight(k)' = InFlight(k) /\ InReading(k) = InFlight(k)
      /\ InReading(k)' = {} /\ Lines(buffer[k]) = {}
  BY <1>2, LinesNone DEF Seen, InFlight, InReading, Lines, ServeLog, Viewing, view
<1>7. PlacedInv(k)'
  <2>1. made[k] % 2 = 0
    BY DEF LogType
  <2>2. Placed(Seen(k), Lines(batch[k]), InFlight(k), InFlight(k), {}, lost[k], made[k])
    BY <1>1, <1>6 DEF PlacedInv
  <2>3. Placed(Seen(k), Lines(batch[k]), InFlight(k), {}, {}, lost[k], made[k])
    BY <2>1, <2>2, PlacedServe, PlacedType
  <2>4. Lines(batch[k])' = Lines(batch[k]) /\ lost'[k] = lost[k] /\ made'[k] = made[k]
        /\ Lines(buffer[k])' = {}
    BY <1>6 DEF ServeLog, Lines
  <2> QED
    BY <1>6, <2>3, <2>4 DEF PlacedInv
<1> QED
  BY <1>3, <1>4, <1>5, <1>7, OneLog

\* Another request takes the first of the buffer.
LEMMA DrainKeeps ==
  ASSUME LogType, LogInv, NEW k \in Drained, Drain(k)
  PROVE  LogType' /\ LogInv'
<1> DEFINE b == buffer[k]
<1>1. RisingInv(k) /\ PlacedInv(k)
  BY DEF LogInv
<1>2. b \in Numbers /\ b # << >> /\ buffer'[k] = Tail(b) /\ lost'[k] = lost[k] \union {Head(b)}
  BY DEF Drain, LogType
<1>3. /\ Head(b) \in Nat /\ Tail(b) \in Numbers /\ Rising(Tail(b))
      /\ Lines(b) = Lines(Tail(b)) \union {Head(b)}
      /\ \A x \in Lines(Tail(b)) : Head(b) < x
  BY <1>1, <1>2, LinesHead DEF RisingInv
<1>4. LogType'
  BY <1>2, <1>3, PlacedType DEF Drain, LogType, view
<1>5. Others(k)
  BY DEF Others, Drain, LogType, Viewing, view
<1>6. RisingInv(k)'
  BY <1>1, <1>2, <1>3 DEF RisingInv, Drain, Viewing, view
<1>7. Seen(k)' = Seen(k) /\ InFlight(k)' = InFlight(k) /\ InReading(k)' = InReading(k)
  BY DEF Seen, InFlight, InReading, Lines, Drain, Viewing, view
<1>8. PlacedInv(k)'
  <2>1. Placed(Seen(k), Lines(batch[k]), InFlight(k), InReading(k), Lines(Tail(b)) \union {Head(b)},
               lost[k], made[k])
    BY <1>1, <1>3 DEF PlacedInv
  <2>2. Placed(Seen(k), Lines(batch[k]), InFlight(k), InReading(k), Lines(Tail(b)),
               lost[k] \union {Head(b)}, made[k])
    BY <1>3, <2>1, PlacedDrain, PlacedType, LinesNat
  <2>3. Lines(batch[k])' = Lines(batch[k]) /\ made'[k] = made[k] /\ Lines(buffer[k])' = Lines(Tail(b))
    BY <1>2 DEF Drain, Lines
  <2> QED
    BY <1>2, <1>7, <2>2, <2>3 DEF PlacedInv
<1> QED
  BY <1>4, <1>5, <1>6, <1>8, OneLog

LEMMA GetKeeps ==
  ASSUME LogType, LogInv, NEW k \in Drained, GetLogs(k)
  PROVE  LogType' /\ LogInv'
<1> DEFINE lines == logFlight[k].lines
<1>1. RisingInv(k) /\ PlacedInv(k)
  BY DEF LogInv
<1>2. /\ lines \in Numbers /\ Rising(lines) /\ InFlight(k) = Lines(lines) /\ InReading(k) = {}
      /\ batch'[k] = lines /\ logFlight'[k] = Idle
  BY <1>1 DEF GetLogs, LogType, LogFlights, Idle, RisingInv, InFlight, InReading
<1>3. /\ Viewing(k) => Precedes(Lines(shown), Lines(lines))
      /\ Viewing(k) => shown' = shown \o lines
  BY <1>1, <1>2 DEF GetLogs, PlacedInv, Placed, Precedes, Seen
<1>4. /\ shown' \in Numbers
      /\ Viewing(k) => Rising(shown') /\ Lines(shown') = Lines(shown) \union Lines(lines)
  BY <1>1, <1>2, <1>3, LinesConcat, RisingConcat DEF GetLogs, LogType, RisingInv
<1>5. LogType'
  BY <1>2, <1>4 DEF GetLogs, LogType, LogFlights, view
<1>6. Others(k)
  <2>1. \A j \in Drained \ {k} : Viewing(j) => ~Viewing(k)
    BY DEF Viewing
  <2> QED
    BY <2>1 DEF Others, GetLogs, LogType, Viewing, view
<1>7. RisingInv(k)'
  BY <1>1, <1>2, <1>4 DEF RisingInv, GetLogs, Viewing, view, Idle
<1>8. PlacedInv(k)'
  <2>1. /\ Placed(Seen(k) \union Lines(lines), Lines(lines), {}, {}, Lines(buffer[k]), lost[k], made[k])
        /\ Placed({}, Lines(lines), {}, {}, Lines(buffer[k]), lost[k], made[k])
    BY <1>1, <1>2, PlacedGet, PlacedType DEF PlacedInv
  <2>2. /\ Lines(buffer[k])' = Lines(buffer[k]) /\ lost'[k] = lost[k] /\ made'[k] = made[k]
        /\ Lines(batch[k])' = Lines(lines) /\ InFlight(k)' = {} /\ InReading(k)' = {}
    BY <1>2 DEF GetLogs, Lines, InFlight, InReading, Idle
  <2>3. Seen(k)' = Seen(k) \union Lines(lines) \/ Seen(k)' = {}
    BY <1>4 DEF Seen, Viewing, GetLogs, view, Lines
  <2> QED
    BY <2>1, <2>2, <2>3 DEF PlacedInv
<1> QED
  BY <1>5, <1>6, <1>7, <1>8, OneLog

\* An answer gets lost, or fails in the server.
LEMMA LoseKeeps ==
  ASSUME LogType, LogInv, NEW k \in Drained, LoseLog(k) \/ ScanTooLong(k)
  PROVE  LogType' /\ LogInv'
<1>1. RisingInv(k) /\ PlacedInv(k)
  BY DEF LogInv
<1>2. /\ logFlight' = [logFlight EXCEPT ![k] = Idle]
      /\ lost' = [lost EXCEPT ![k] = @ \union InFlight(k)]
      /\ UNCHANGED <<page, broken, buffer, made, batch, shown>>
  BY DEF LoseLog, ScanTooLong, view
<1>3. LogType'
  BY <1>2, PlacedType DEF LogType, LogFlights
<1>4. Others(k)
  BY <1>2 DEF Others, LogType, Viewing
<1>5. logFlight'[k] = Idle /\ lost'[k] = lost[k] \union InFlight(k)
  BY <1>2 DEF LogType
<1>6. RisingInv(k)'
  BY <1>1, <1>2, <1>5 DEF RisingInv, Viewing
<1>7. Seen(k)' = Seen(k) /\ InFlight(k)' = {} /\ InReading(k)' = {}
  BY <1>2, <1>5 DEF Seen, InFlight, InReading, Lines, Viewing, Idle
<1>8. PlacedInv(k)'
  <2>1. Placed(Seen(k), Lines(batch[k]), {}, {}, Lines(buffer[k]), lost[k] \union InFlight(k), made[k])
    BY <1>1, PlacedLose, PlacedType DEF PlacedInv
  <2>2. Lines(batch[k])' = Lines(batch[k]) /\ made'[k] = made[k]
        /\ Lines(buffer[k])' = Lines(buffer[k])
    BY <1>2 DEF Lines
  <2> QED
    BY <1>5, <1>7, <2>1, <2>2 DEF PlacedInv
<1> QED
  BY <1>3, <1>4, <1>6, <1>8, OneLog

\* The invalidation discards what is on its way to the viewer, and asks again.
LEMMA SucceedKeeps ==
  ASSUME LogType, LogInv, NEW m, Succeed(m)
  PROVE  LogType' /\ LogInv'
<1>1. /\ lost' = [k \in Drained |-> lost[k] \union (IF LogAgain(k) THEN InFlight(k) ELSE {})]
      /\ logFlight' = [k \in Drained |-> IF LogAgain(k) THEN Reading(<< >>) ELSE logFlight[k]]
      /\ UNCHANGED <<page, broken, buffer, made, batch, shown>>
  BY DEF Succeed, Invalidate
<1>2. \A k \in Drained : InFlight(k) \in SUBSET Nat
  BY PlacedType
<1>3. LogType'
  BY <1>1, <1>2, LinesNone DEF LogType, LogFlights, Reading
<1>4. ASSUME NEW k \in Drained PROVE RisingInv(k)' /\ PlacedInv(k)'
  <2>1. RisingInv(k) /\ PlacedInv(k)
    BY DEF LogInv
  <2>2. /\ Seen(k)' = Seen(k) /\ Lines(batch[k])' = Lines(batch[k])
        /\ Lines(buffer[k])' = Lines(buffer[k]) /\ made'[k] = made[k]
    BY <1>1 DEF Seen, Viewing, Lines
  <2>3. RisingInv(k)'
    BY <1>1, <2>1, LinesNone DEF RisingInv, Viewing, Reading
  <2>4. CASE LogAgain(k)
    <3>1. InFlight(k)' = {} /\ InReading(k)' = {} /\ lost'[k] = lost[k] \union InFlight(k)
      BY <1>1, <2>4, LinesNone DEF InFlight, InReading, Reading, Lines, Idle
    <3>2. Placed(Seen(k), Lines(batch[k]), {}, {}, Lines(buffer[k]), lost[k] \union InFlight(k), made[k])
      BY <2>1, PlacedLose, PlacedType DEF PlacedInv
    <3> QED
      BY <2>2, <2>3, <3>1, <3>2 DEF PlacedInv
  <2>5. CASE ~LogAgain(k)
    <3>1. InFlight(k)' = InFlight(k) /\ InReading(k)' = InReading(k) /\ lost'[k] = lost[k]
      BY <1>1, <2>5, PlacedType DEF InFlight, InReading, Lines
    <3> QED
      BY <2>1, <2>2, <2>3, <3>1 DEF PlacedInv
  <2> QED
    BY <2>4, <2>5
<1> QED
  BY <1>3, <1>4 DEF LogInv

\* The invariant is inductive.
LEMMA NextLog == LogType /\ LogInv /\ [Next]_vars => LogType' /\ LogInv'
<1> SUFFICES ASSUME LogType, LogInv, [Next]_vars PROVE LogType' /\ LogInv'
  OBVIOUS
<1> DEFINE Still == UNCHANGED <<logs, page>> /\ (broken' = broken \/ broken')
<1>1. ASSUME Still PROVE LogType' /\ LogInv'
  BY <1>1, OthersInv
<1>2. ASSUME NEW op, NEW id, ClickDialog(op, id) PROVE Still
  BY <1>2 DEF ClickDialog
<1>3. ASSUME HandleEdit PROVE Still
  BY <1>3 DEF HandleEdit
<1>4. ASSUME Type \/ Cancel \/ Submit PROVE Still
  BY <1>4 DEF Type, Cancel, Submit
<1>5. ASSUME NEW m, Serve(m) PROVE Still
  BY <1>5 DEF Serve, view
<1>6. ASSUME NEW op, NEW id, Foreign(op, id) PROVE Still
  BY <1>6 DEF Foreign, view
<1>7. ASSUME NEW q \in Queries, ServeQuery(q) \/ GetQuery(q) \/ LoseQuery(q) \/ Reconnect(q) PROVE Still
  BY <1>7 DEF ServeQuery, GetQuery, LoseQuery, Reconnect, view
<1>8. ASSUME UNCHANGED vars PROVE Still
  BY <1>8 DEF vars, view
<1> HIDE DEF Still
<1>9. CASE \E p \in Pages : Open(p)
  BY <1>9, OthersInv
<1>10. CASE \E t \in Tabs : ClickTab(t)
  BY <1>10, OthersInv
<1>11. CASE \E k \in {"server", "access", "error"} : ClickLog(k)
  BY <1>11, OthersInv
<1>12. CASE \E m \in pending : Succeed(m)
  BY <1>12, SucceedKeeps
<1>13. CASE \E k \in Drained : Log(k) \/ PollLog(k) \/ ReadLog(k) \/ ServeLog(k)
  BY <1>13, LogKeeps, PollKeeps, ReadKeeps, ServeKeeps
<1>14. CASE \E k \in Drained : ScanTooLong(k) \/ Drain(k) \/ GetLogs(k) \/ LoseLog(k)
  BY <1>14, DrainKeeps, GetKeeps, LoseKeeps
<1> QED
  BY <1>1, <1>2, <1>3, <1>4, <1>5, <1>6, <1>7, <1>8, <1>9, <1>10, <1>11, <1>12, <1>13, <1>14
  DEF Next

\* What a viewer shows rises, and whatever it has left out on the way is lost:
\* lines that are still to come are after those that are shown.
LEMMA ShownInOrder == LogType /\ LogInv => LinesInOrder
<1> SUFFICES ASSUME LogType, LogInv, NEW k \in Drained, Viewing(k)
             PROVE  /\ \A i, j \in DOMAIN shown : i < j => shown[i] < shown[j]
                    /\ shown # << >> => \A n \in shown[1] .. shown[Len(shown)] :
                                          n \in Lines(shown) \union lost[k]
                    /\ \A n \in Lines(shown) : Other(n) \in Lines(shown) \union lost[k]
  BY DEF LinesInOrder
<1>1. shown \in Numbers /\ Rising(shown) /\ PlacedInv(k) /\ Seen(k) = Lines(shown)
  BY DEF LogType, LogInv, RisingInv, Seen
<1>2. ASSUME shown # << >>, NEW n \in shown[1] .. shown[Len(shown)]
      PROVE  n \in Lines(shown) \union lost[k]
  <2>1. 1 \in 1 .. Len(shown) /\ Len(shown) \in 1 .. Len(shown)
    BY <1>1, <1>2 DEF Numbers
  <2>2. /\ shown[1] \in Lines(shown) /\ shown[Len(shown)] \in Lines(shown)
        /\ Lines(shown) \subseteq Nat
    BY <1>1, <2>1, LineIn, LinesNat
  <2>3. shown[Len(shown)] <= made[k] /\ made[k] \in Nat
    BY <1>1, <2>2 DEF PlacedInv, Placed, LogType
  <2>4. n \in shown[1] .. made[k]
    BY <2>2, <2>3, <1>2
  <2>5. n \in Lines(shown) \union (InFlight(k) \union Lines(buffer[k]) \union lost[k])
    BY <1>1, <2>2, <2>4 DEF PlacedInv, Placed, Covered
  <2>6. n \notin InFlight(k) \union Lines(buffer[k])
    BY <1>1, <1>2, <2>2 DEF PlacedInv, Placed, Precedes
  <2> QED
    BY <2>5, <2>6
<1>3. ASSUME NEW n \in Lines(shown) PROVE Other(n) \in Lines(shown) \union lost[k]
  <2>1. /\ n % 2 = 0 => n - 1 \in Lines(shown) \union lost[k]
        /\ n % 2 = 1 => n + 1 \in Lines(shown) \union lost[k]
    BY <1>1, <1>3 DEF PlacedInv, Placed, Opened, Closed
  <2>2. n % 2 = 0 \/ n % 2 = 1
    BY <1>1, <1>3, LinesNat
  <2> QED
    BY <2>1, <2>2 DEF Other
<1> QED
  BY <1>1, <1>2, <1>3 DEF Rising

\* The viewer of a log that reading empties shows what was written in order and
\* once, and leaves out a line or half of one only where a discarded or failed
\* answer or another reader has taken it, for any number of lines and readers,
\* wherever their reads interleave, whatever is clicked, lost or invalidated.
THEOREM LinesStayInOrder == Spec => []LinesInOrder
<1>1. LogType /\ LogInv => LinesInOrder
  BY ShownInOrder
<1> QED
  BY <1>1, InitLog, NextLog, PTL DEF Spec

-----------------------------------------------------------------------------
(* What is typed. *)

\* Only the form that is none has no operation.
FormInv ==
  /\ form \in [op : {"none", "create", "edit", "delete", "settings"}, id : Ids \union {NoId},
               typed : Nat]
  /\ form.op = "none" => form = NoForm

LEMMA InitForm == Init => FormInv
  BY DEF Init, FormInv, NoForm

\* What an answer makes of a form: it stays, goes, or is emptied.
LEMMA AnsweredForm ==
  ASSUME FormInv
  PROVE  /\ \A ids : Kept(form, ids) \in {form, NoForm}
         /\ form.op = "create" => Dropped(form) = [form EXCEPT !.typed = 0]
         /\ form.op # "create" => Dropped(form) = NoForm
  BY DEF FormInv, Kept, Dropped

\* Only these steps touch a form, and only three of them one that is open.
LEMMA FormSteps ==
  ASSUME FormInv, [Next]_vars
  PROVE  \/ form' \in {form, NoForm}
         \/ /\ form = NoForm
            /\ \E op \in {"create", "edit", "delete", "settings"}, id \in Ids \union {NoId} :
                 form' = [op |-> op, id |-> id, typed |-> 0]
         \/ Type
         \/ form.op = "create" /\ LoseQuery("userList") /\ form' = [form EXCEPT !.typed = 0]
<1>1. ASSUME NEW p \in Pages, Open(p) PROVE form' = NoForm
  BY <1>1 DEF Open
<1>2. ASSUME NEW t \in Tabs, ClickTab(t) PROVE form' = form
  BY <1>2 DEF ClickTab
<1>3. ASSUME NEW k, ClickLog(k) PROVE form' = form
  BY <1>3 DEF ClickLog
<1>4. ASSUME NEW op \in {"create", "edit", "delete"}, NEW id \in Ids \union {NoId}, ClickDialog(op, id)
      PROVE  form = NoForm /\ form' = [op |-> op, id |-> id, typed |-> 0]
  BY <1>4 DEF ClickDialog, Dialogs
<1>5. ASSUME HandleEdit
      PROVE  \/ form' = form
             \/ form = NoForm /\ form' = [op |-> "settings", id |-> NoId, typed |-> 0]
  BY <1>5 DEF HandleEdit
<1>6. ASSUME Cancel \/ Submit PROVE form' \in {form, NoForm}
  BY <1>6 DEF Cancel, Submit
<1>7. ASSUME NEW m, Serve(m) \/ Succeed(m) PROVE form' \in {form, NoForm}
  BY <1>7 DEF Serve, Succeed, view
<1>8. ASSUME NEW op, NEW id, Foreign(op, id) PROVE form' = form
  BY <1>8 DEF Foreign, view
<1>9. ASSUME NEW q \in Queries, ServeQuery(q) \/ GetQuery(q) \/ Reconnect(q)
      PROVE  form' \in {form, NoForm}
  BY <1>9, AnsweredForm DEF ServeQuery, GetQuery, Reconnect, view
<1>10. ASSUME NEW q \in Queries, LoseQuery(q)
       PROVE  \/ form' \in {form, NoForm}
              \/ form.op = "create" /\ LoseQuery("userList") /\ form' = [form EXCEPT !.typed = 0]
  <2>1. CASE q = "userList" /\ Mounted(q)
    <3>1. form' = Dropped(form)
      BY <1>10, <2>1 DEF LoseQuery
    <3> QED
      BY <1>10, <2>1, <3>1, AnsweredForm
  <2>2. CASE ~(q = "userList" /\ Mounted(q))
    BY <1>10, <2>2 DEF LoseQuery
  <2> QED
    BY <2>1, <2>2
<1>11. ASSUME NEW k \in Drained,
              \/ Log(k) \/ PollLog(k) \/ ReadLog(k) \/ ServeLog(k)
              \/ ScanTooLong(k) \/ Drain(k) \/ GetLogs(k) \/ LoseLog(k)
       PROVE  form' = form
  BY <1>11 DEF Log, PollLog, ReadLog, ServeLog, ScanTooLong, Drain, GetLogs, LoseLog, view
<1>12. ASSUME UNCHANGED vars PROVE form' = form
  BY <1>12 DEF vars, view
<1> QED
  BY <1>1, <1>2, <1>3, <1>4, <1>5, <1>6, <1>7, <1>8, <1>9, <1>10, <1>11, <1>12 DEF Next

LEMMA NextForm == FormInv /\ [Next]_vars => FormInv'
<1> SUFFICES ASSUME FormInv, [Next]_vars PROVE FormInv'
  OBVIOUS
<1>1. NoForm \in [op : {"none", "create", "edit", "delete", "settings"}, id : Ids \union {NoId},
                  typed : Nat]
  BY DEF NoForm
<1>2. Type => form' = [form EXCEPT !.typed = @ + 1] /\ form # NoForm
  BY DEF Type, FormShown
<1>3. CASE form' \in {form, NoForm}
  BY <1>1, <1>3 DEF FormInv
<1>4. CASE \E op \in {"create", "edit", "delete", "settings"}, id \in Ids \union {NoId} :
             form' = [op |-> op, id |-> id, typed |-> 0]
  BY <1>4 DEF FormInv
<1>5. CASE Type
  BY <1>2, <1>5 DEF FormInv
<1>6. CASE form.op = "create" /\ form' = [form EXCEPT !.typed = 0]
  BY <1>6 DEF FormInv
<1> QED
  BY <1>3, <1>4, <1>5, <1>6, FormSteps

\* As long as a form stays open, nothing but typing changes what is typed, for
\* every set of users and every bound.
THEOREM TypedIsKept == Spec => TypedKept
<1>1. ASSUME FormInv, [Next]_vars, form # NoForm, form'.op = form.op
      PROVE  form'.typed = form.typed \/ Type \/ (form.op = "create" /\ LoseQuery("userList"))
  <2>1. form.op # "none" /\ NoForm.op = "none"
    BY <1>1 DEF FormInv, NoForm
  <2> QED
    BY <1>1, <2>1, FormSteps
<1>2. FormInv /\ [Next]_vars =>
        [form # NoForm /\ form'.op = form.op /\ form'.id = form.id /\ page' = page
         => form'.typed = form.typed \/ Type \/ (form.op = "create" /\ LoseQuery("userList"))]_vars
  BY <1>1
<1> QED
  BY <1>2, InitForm, NextForm, PTL DEF Spec, TypedKept

-----------------------------------------------------------------------------
(* Display: what the pages make of what they have been given. *)

\* How many nodes there are.
Count == Cardinality(Rows)

\* The nodes are the rows, each once, sorted by a field they have; the routes
\* of a service have their latencies as numbers.
TableInv ==
  /\ nodes \in [1 .. Count -> Rows]
  /\ \A i, j \in 1 .. Count : nodes[i] = nodes[j] => i = j
  /\ sort.field \in Fields /\ sort.desc \in BOOLEAN
  /\ sort = [field |-> sort.field, desc |-> sort.desc]
HealthInv == \E n \in Nat : routes \in [1 .. n -> Statuses]

\* The nodes can be counted.
LEMMA CountIsNat == Count \in Nat
  BY RowsAssumption, FS_CardinalityType DEF Count

\* Finitely many things can be put into a row.
LEMMA RowsInARow == SetToSeqs(Rows) # {}
<1>1. PICK f : f \in Bijection(1 .. Cardinality(Rows), Rows)
  BY RowsAssumption, FS_CardinalityType DEF ExistsBijection
<1> QED
  BY <1>1 DEF SetToSeqs, Bijection, Injection, IsInjective, Surjection

\* Before the first answer, the nodes are in some order and no routes are known.
LEMMA TableInit == DisplayInit => TableInv /\ HealthInv
<1> SUFFICES ASSUME DisplayInit PROVE TableInv /\ HealthInv
  OBVIOUS
<1>1. nodes \in [1 .. Count -> Rows] /\ \A i, j \in 1 .. Count : nodes[i] = nodes[j] => i = j
  <2>1. PICK f : f \in SetToSeqs(Rows)
    BY RowsInARow
  <2>2. f \in [1 .. Count -> Rows] /\ IsInjective(f)
    BY <2>1 DEF SetToSeqs, IsInjective, Count
  <2>3. nodes = CHOOSE g \in [1 .. Count -> Rows] : IsInjective(g)
    BY DEF DisplayInit, SetToSeq, Count
  <2>4. nodes \in [1 .. Count -> Rows] /\ IsInjective(nodes)
    BY <2>2, <2>3
  <2> QED
    BY <2>4 DEF IsInjective
<1>2. sort = [field |-> "online", desc |-> TRUE]
  BY DEF DisplayInit
<1>3. sort.field \in Fields /\ sort.desc \in BOOLEAN /\ sort = [field |-> sort.field, desc |-> sort.desc]
  BY <1>2, RowsAssumption
<1>4. HealthInv
  <2>1. routes \in [1 .. 0 -> Statuses]
    BY DEF DisplayInit
  <2> QED
    BY <2>1 DEF HealthInv
<1> QED
  BY <1>1, <1>3, <1>4 DEF TableInv

\* No step loses a node or doubles one, or sorts by what the nodes do not have.
LEMMA TableNext == TableInv /\ HealthInv /\ [DisplayNext]_displayVars => TableInv' /\ HealthInv'
<1> SUFFICES ASSUME TableInv, HealthInv, [DisplayNext]_displayVars PROVE TableInv' /\ HealthInv'
  OBVIOUS
<1>1. CASE UNCHANGED <<nodes, sort, routes>>
  BY <1>1 DEF TableInv, HealthInv
<1>2. ASSUME NEW e \in BOOLEAN, NEW n \in 0 .. 2, NEW rs \in [1 .. n -> Statuses], Fetched(e, rs)
      PROVE  TableInv' /\ HealthInv'
  BY <1>2 DEF Fetched, TableInv, HealthInv
<1>3. ASSUME NEW f \in Fields, HandleSort(f) PROVE TableInv' /\ HealthInv'
  <2>1. sort' = [field |-> f, desc |-> f = sort.field /\ ~sort.desc] /\ UNCHANGED <<nodes, routes>>
    BY <1>3 DEF HandleSort
  <2>2. sort'.field = f /\ sort'.desc = (f = sort.field /\ ~sort.desc)
    BY <2>1
  <2>3. sort'.desc \in BOOLEAN
    BY <2>2, Zenon
  <2>4. sort' = [field |-> sort'.field, desc |-> sort'.desc]
    BY <2>1, <2>2
  <2> QED
    BY <2>1, <2>2, <2>3, <2>4 DEF TableInv, HealthInv
<1>4. CASE NodesFetched
  <2>1. nodes' \in SetToSeqs(Rows) /\ UNCHANGED <<sort, routes>>
    BY <1>4 DEF NodesFetched
  <2>2. nodes' \in [1 .. Count -> Rows] /\ \A i, j \in 1 .. Count : nodes'[i] = nodes'[j] => i = j
    BY <2>1 DEF SetToSeqs, Count
  <2> QED
    BY <2>1, <2>2 DEF TableInv, HealthInv
<1>5. ASSUME NEW i, NEW v, LogTraffic(i, v) PROVE UNCHANGED <<nodes, sort, routes>>
  BY <1>5 DEF LogTraffic
<1>6. CASE Tick \/ TakePoints \/ TakeTotal \/ Encode
  BY <1>1, <1>6 DEF Tick, TakePoints, TakeTotal, Encode
<1>7. ASSUME NEW i, Drop(i) \/ Recount(i) \/ RouteGone(i) PROVE UNCHANGED <<nodes, sort, routes>>
  BY <1>7 DEF Drop, Recount, RouteGone
<1>8. ASSUME NEW c, TypeCharacter(c) \/ Backspace PROVE UNCHANGED <<nodes, sort, routes>>
  BY <1>8 DEF TypeCharacter, Backspace
<1>9. CASE UNCHANGED displayVars
  BY <1>1, <1>9 DEF displayVars
<1> QED
  BY <1>1, <1>2, <1>3, <1>4, <1>5, <1>6, <1>7, <1>8, <1>9 DEF DisplayNext

\* The comparison, case by case.
LEMMA BeforeIs ==
  ASSUME NEW i, NEW j, TableInv
  PROVE  Before(i, j) <=> \/ Key(i) = Key(j) /\ i < j
                          \/ Key(i) # Key(j) /\ sort.desc /\ ~(Key(i) < Key(j))
                          \/ Key(i) # Key(j) /\ ~sort.desc /\ Key(i) < Key(j)
  BY DEF Before, TableInv

\* The comparison puts any two nodes one way.
LEMMA BeforeOrders ==
  ASSUME TableInv
  PROVE  /\ \A i \in 1 .. Count : ~Before(i, i) /\ Key(i) \in Int
         /\ \A i, j \in 1 .. Count : i = j \/ Before(i, j) \/ Before(j, i)
         /\ \A h, i, j \in 1 .. Count : Before(h, i) /\ Before(i, j) => Before(h, j)
<1>1. ASSUME NEW i \in 1 .. Count PROVE Key(i) \in Int
  <2>1. nodes[i] \in [Fields -> Int]
    BY RowsAssumption DEF TableInv
  <2> QED
    BY <2>1 DEF Key, TableInv
<1>2. \A i \in 1 .. Count : i \in Int
  OBVIOUS
<1>3. ASSUME NEW i \in 1 .. Count PROVE ~Before(i, i)
  BY <1>2, BeforeIs
<1>4. ASSUME NEW i \in 1 .. Count, NEW j \in 1 .. Count PROVE i = j \/ Before(i, j) \/ Before(j, i)
  BY <1>1, <1>2, BeforeIs
<1>5. ASSUME NEW h \in 1 .. Count, NEW i \in 1 .. Count, NEW j \in 1 .. Count, Before(h, i), Before(i, j)
      PROVE  Before(h, j)
  BY <1>1, <1>2, <1>5, BeforeIs
<1> QED
  BY <1>1, <1>3, <1>4, <1>5

\* How many are ahead of a node is its place, and each place is somebody's.
LEMMA Places ==
  ASSUME TableInv
  PROVE  /\ \A i, j \in 1 .. Count : Before(i, j) <=> Cardinality(Ahead(i)) < Cardinality(Ahead(j))
         /\ \A i \in 1 .. Count : Cardinality(Ahead(i)) \in 0 .. Count - 1
         /\ \A k \in 1 .. Count : \E i \in 1 .. Count : Cardinality(Ahead(i)) = k - 1
<1> DEFINE f == [i \in 1 .. Count |-> Cardinality(Ahead(i)) + 1]
<1> Count \in Nat
  BY CountIsNat
<1>1. DOMAIN nodes = 1 .. Count
  BY DEF TableInv
<1>2. IsFiniteSet(1 .. Count) /\ Cardinality(1 .. Count) = Count
  BY FS_Interval
<1>3. ASSUME NEW i \in 1 .. Count
      PROVE  /\ Ahead(i) \in SUBSET (1 .. Count) /\ i \notin Ahead(i)
             /\ IsFiniteSet(Ahead(i)) /\ Cardinality(Ahead(i)) \in 0 .. Count - 1
  <2>1. Ahead(i) \in SUBSET (1 .. Count) /\ i \notin Ahead(i)
    BY <1>1, BeforeOrders DEF Ahead
  <2>2. IsFiniteSet(Ahead(i)) /\ Cardinality(Ahead(i)) \in Nat /\ Cardinality(Ahead(i)) <= Count
    BY <1>2, <2>1, FS_Subset, FS_CardinalityType
  <2>3. Cardinality(Ahead(i)) # Count
    BY <1>2, <2>1, FS_Subset
  <2> QED
    BY <2>1, <2>2, <2>3
<1>4. ASSUME NEW i \in 1 .. Count, NEW j \in 1 .. Count, Before(i, j)
      PROVE  Cardinality(Ahead(i)) < Cardinality(Ahead(j))
  <2>1. Ahead(i) \in SUBSET Ahead(j) /\ i \in Ahead(j) /\ i \notin Ahead(i)
    BY <1>1, <1>4, BeforeOrders DEF Ahead
  <2>2. Cardinality(Ahead(i)) <= Cardinality(Ahead(j)) /\ Cardinality(Ahead(i)) # Cardinality(Ahead(j))
    BY <1>3, <2>1, FS_Subset
  <2>3. Cardinality(Ahead(i)) \in Int /\ Cardinality(Ahead(j)) \in Int
    BY <1>3
  <2> QED
    BY <2>2, <2>3
<1>5. ASSUME NEW i \in 1 .. Count, NEW j \in 1 .. Count, Cardinality(Ahead(i)) < Cardinality(Ahead(j))
      PROVE  Before(i, j)
  <2>1. i = j \/ Before(i, j) \/ Before(j, i)
    BY BeforeOrders
  <2>2. Cardinality(Ahead(i)) \in Int /\ Cardinality(Ahead(j)) \in Int
    BY <1>3
  <2>3. i # j
    BY <1>5, <2>2
  <2>4. ~Before(j, i)
    BY <1>4, <1>5, <2>2
  <2> QED
    BY <2>1, <2>3, <2>4
<1>6. \A i \in 1 .. Count : f[i] = Cardinality(Ahead(i)) + 1 /\ f[i] \in 1 .. Count /\ Cardinality(Ahead(i)) \in Int
  BY <1>3
<1>7. \A i, j \in 1 .. Count : f[i] = f[j] => i = j
  <2> SUFFICES ASSUME NEW i \in 1 .. Count, NEW j \in 1 .. Count, f[i] = f[j] PROVE i = j
    OBVIOUS
  <2>1. Cardinality(Ahead(i)) = Cardinality(Ahead(j)) /\ Cardinality(Ahead(i)) \in Int
    BY <1>6
  <2>2. ~Before(i, j) /\ ~Before(j, i)
    BY <1>4, <2>1
  <2> QED
    BY <2>2, BeforeOrders
<1>8. f \in Injection(1 .. Count, 1 .. Count)
  BY <1>6, <1>7 DEF Injection, IsInjective
<1>9. f \in Surjection(1 .. Count, 1 .. Count)
  BY <1>2, <1>8, FS_Injection
<1>10. \A k \in 1 .. Count : \E i \in 1 .. Count : f[i] = k
  BY <1>9 DEF Surjection
<1>11. \A k \in 1 .. Count : \E i \in 1 .. Count : Cardinality(Ahead(i)) = k - 1
  <2> SUFFICES ASSUME NEW k \in 1 .. Count PROVE \E i \in 1 .. Count : Cardinality(Ahead(i)) = k - 1
    OBVIOUS
  <2>1. PICK i \in 1 .. Count : f[i] = k
    BY <1>10
  <2>2. Cardinality(Ahead(i)) + 1 = k /\ Cardinality(Ahead(i)) \in Int
    BY <1>6, <2>1
  <2> QED
    BY <2>2
<1> QED
  BY <1>3, <1>4, <1>5, <1>11

\* A node in the place its comparisons give it is after all that belong before it.
LEMMA TableIsSorted == TableInv => TableSorted
<1> SUFFICES ASSUME TableInv PROVE TableSorted
  OBVIOUS
<1> DEFINE at(k) == CHOOSE i \in 1 .. Count : Cardinality(Ahead(i)) = k - 1
           t == SortedNodes
<1> Count \in Nat
  BY CountIsNat
<1>1. t = [k \in 1 .. Count |-> nodes[at(k)]]
  BY DEF SortedNodes, TableInv
<1>2. \A k \in 1 .. Count : at(k) \in 1 .. Count /\ Cardinality(Ahead(at(k))) = k - 1
  BY Places
<1>3. \A i \in 1 .. Count : at(Cardinality(Ahead(i)) + 1) = i
  <2> SUFFICES ASSUME NEW i \in 1 .. Count PROVE at(Cardinality(Ahead(i)) + 1) = i
    OBVIOUS
  <2> DEFINE k == Cardinality(Ahead(i)) + 1
  <2>1. k \in 1 .. Count
    BY Places
  <2>2. at(k) \in 1 .. Count /\ Cardinality(Ahead(at(k))) = k - 1
    BY <1>2, <2>1
  <2>3. Cardinality(Ahead(at(k))) = Cardinality(Ahead(i)) /\ Cardinality(Ahead(i)) \in Int
    BY <2>1, <2>2, Places
  <2> HIDE DEF at
  <2>4. ~Before(at(k), i) /\ ~Before(i, at(k))
    BY <2>2, <2>3, Places
  <2> QED
    BY <2>2, <2>4, BeforeOrders
<1> HIDE DEF at
<1>4. nodes \in Surjection(1 .. Count, Rows)
  <2>1. nodes \in Injection(1 .. Count, Rows)
    BY DEF TableInv, Injection, IsInjective
  <2>2. IsFiniteSet(1 .. Count) /\ Cardinality(1 .. Count) = Cardinality(Rows)
    BY FS_Interval DEF Count
  <2> QED
    BY <2>1, <2>2, RowsAssumption, FS_Injection
<1> HIDE DEF t
<1>5. \A k \in 1 .. Count : t[k] \in Rows
  BY <1>1, <1>2 DEF TableInv
<1>6. \A r \in Rows : \E k \in 1 .. Count : t[k] = r
  <2> SUFFICES ASSUME NEW r \in Rows PROVE \E k \in 1 .. Count : t[k] = r
    OBVIOUS
  <2>1. PICK i \in 1 .. Count : nodes[i] = r
    BY <1>4 DEF Surjection
  <2>2. Cardinality(Ahead(i)) \in 0 .. Count - 1
    BY Places
  <2>3. t[Cardinality(Ahead(i)) + 1] = nodes[i]
    BY <1>1, <1>3, <2>2
  <2> QED
    BY <2>1, <2>2, <2>3
<1>7. ToSet(t) = Rows
  BY <1>1, <1>5, <1>6 DEF ToSet
<1>8. Len(t) = Cardinality(Rows)
  <2>1. t \in [1 .. Count -> Rows]
    BY <1>1, <1>5
  <2> QED
    BY <2>1 DEF Count
<1>9. ASSUME NEW i \in DOMAIN t, NEW j \in DOMAIN t, i < j
      PROVE  IF sort.desc THEN t[i][sort.field] >= t[j][sort.field] ELSE t[i][sort.field] <= t[j][sort.field]
  <2>1. i \in 1 .. Count /\ j \in 1 .. Count
    BY <1>1
  <2>2. at(i) \in 1 .. Count /\ at(j) \in 1 .. Count /\ Before(at(i), at(j))
    BY <1>2, <1>9, <2>1, Places
  <2>3. t[i][sort.field] = Key(at(i)) /\ t[j][sort.field] = Key(at(j))
    BY <1>1, <2>1 DEF Key
  <2>4. Key(at(i)) \in Int /\ Key(at(j)) \in Int
    BY <2>2, BeforeOrders
  <2>5. CASE sort.desc
    <3>1. Key(at(i)) >= Key(at(j))
      BY <2>2, <2>4, <2>5, BeforeIs
    <3> QED
      BY <2>3, <2>5, <3>1
  <2>6. CASE ~sort.desc
    <3>1. Key(at(i)) <= Key(at(j))
      BY <2>2, <2>4, <2>6, BeforeIs
    <3> QED
      BY <2>3, <2>6, <3>1
  <2> QED
    BY <2>5, <2>6 DEF TableInv
<1> QED
  BY <1>7, <1>8, <1>9 DEF TableSorted, t

\* An unhealthy route is not an active one; a healthy one runs.
LEMMA HealthIsShown == HealthInv => HealthAgrees
<1> SUFFICES ASSUME HealthInv PROVE HealthAgrees
  OBVIOUS
<1>1. ASSUME NEW i \in DOMAIN routes PROVE routes[i].latency \in Int
  BY DEF HealthInv, Statuses
<1>2. ASSUME GetServiceHealth = "Degraded" PROVE \E c \in {Card(routes[i]) : i \in DOMAIN routes} : c.icon = "red"
  <2>1. PICK i \in DOMAIN routes : Unhealthy(routes[i])
    BY <1>2 DEF GetServiceHealth
  <2>2. ~IsActive(routes[i])
    BY <1>1, <2>1 DEF IsActive, Unhealthy
  <2>3. Card(routes[i]).icon = "red"
    BY <2>2 DEF Card
  <2> QED
    BY <2>3
<1>3. ASSUME GetServiceHealth = "Healthy" PROVE \A c \in {Card(routes[i]) : i \in DOMAIN routes} : c.badge = "green"
  <2>1. \A i \in DOMAIN routes : ~Unhealthy(routes[i])
    BY <1>3 DEF GetServiceHealth
  <2> QED
    BY <2>1 DEF Unhealthy, Card
<1> QED
  BY <1>2, <1>3 DEF HealthAgrees

\* Whatever is accepted meets all requirements but, perhaps, the special character.
LEMMA AcceptedScores == AcceptedIsStrong
<1> SUFFICES ASSUME Accepted(password)
             PROVE  StrengthLabel(Strength(password)) \in {"Strong", "Very Strong"}
  BY DEF AcceptedIsStrong
<1> DEFINE kinds == {"length", "upper", "lower", "digit", "special"}
           met == {g \in kinds : CASE g = "length" -> password.length >= 8
                                   [] g = "special" -> password.classes \intersect {"special", "^"} # {}
                                   [] OTHER -> g \in password.classes}
<1>1. Strength(password) = 20 * Cardinality(met)
  BY DEF Strength
<1>2. met \in SUBSET kinds /\ {"length", "upper", "lower", "digit"} \in SUBSET met
  <2>1. "length" \in met
    BY DEF Accepted
  <2>2. "upper" \in met /\ "lower" \in met /\ "digit" \in met
    BY DEF Accepted
  <2> QED
    BY <2>1, <2>2
<1> HIDE DEF met
<1>3. met = {"length", "upper", "lower", "digit"} \/ met = kinds
  BY <1>2
<1>4. Cardinality({"length", "upper", "lower", "digit"}) = 4 /\ Cardinality(kinds) = 5
  <2> DEFINE add(S, x) == S \union {x}
             s1 == add({}, "length")  s2 == add(s1, "upper")  s3 == add(s2, "lower")  s4 == add(s3, "digit")
  <2>1. IsFiniteSet({}) /\ Cardinality({}) = 0
    BY FS_EmptySet
  <2>2. IsFiniteSet(s1) /\ Cardinality(s1) = 1
    BY <2>1, FS_AddElement
  <2>3. IsFiniteSet(s2) /\ Cardinality(s2) = 2
    BY <2>2, FS_AddElement
  <2>4. IsFiniteSet(s3) /\ Cardinality(s3) = 3
    BY <2>3, FS_AddElement
  <2>5. IsFiniteSet(s4) /\ Cardinality(s4) = 4
    BY <2>4, FS_AddElement
  <2>6. Cardinality(add(s4, "special")) = 5
    BY <2>5, FS_AddElement
  <2>7. s4 = {"length", "upper", "lower", "digit"} /\ add(s4, "special") = kinds
    OBVIOUS
  <2> QED
    BY <2>5, <2>6, <2>7
<1>5. Strength(password) = 80 \/ Strength(password) = 100
  BY <1>1, <1>3, <1>4
<1> QED
  BY <1>5 DEF StrengthLabel

\* For any nodes, columns and clicks on their heads: getSortedNodes, with the
\* comparison it makes upwards and downwards, shows each node once and in order.
THEOREM ColumnSorted == DisplaySpec => []TableSorted
  BY TableInit, TableNext, TableIsSorted, PTL DEF DisplaySpec

\* For any number of routes: what getServiceHealth calls degraded has a red icon
\* in its RouteStatusCards, and what it calls healthy has no red badge.
THEOREM HealthShown == DisplaySpec => []HealthAgrees
  BY TableInit, TableNext, HealthIsShown, PTL DEF DisplaySpec

\* For passwords of any length and kinds: what the schema of UserForm accepts, the
\* strength meter calls strong, though their special characters differ.
THEOREM NeverCalledWeak == DisplaySpec => []AcceptedIsStrong
  BY AcceptedScores, PTL
=============================================================================
