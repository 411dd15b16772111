-------------------------- MODULE ConfigSync_proofs --------------------------
(***************************************************************************)
(* Proofs about ConfigSync: its types, for any number of requests, edits   *)
(* and crashes, and what a single API caller can do to the file.           *)
(***************************************************************************)
EXTENDS ConfigSync, TLAPS

OneCaller == \A c, d \in Callers : c = d

\* What FileCanStart rests on: what a request is about to write has the
\* other settings too, and nobody cut its write short.
ConfInv == \A c \in Callers : pc[c] \in {"key", "hash", "truncate", "write"} => conf[c].rest
IInv    == FileCanStart /\ (crashes = 0 => ConfInv /\ Running)

\* An empty configuration is one, and so is the state of a table.
LEMMA EmptyIsFile == Empty \in Files /\ Empty.svcs \in Tables /\ Empty.rest = FALSE
  BY DEF Empty, Files, Tables

\* The queue of events keeps its bound.
LEMMA NotifyType == ASSUME TypeOK, Notify PROVE events' \in 0..MaxEvents
  BY BoundsAssumption DEF TypeOK, Notify

\* Every step keeps the type invariant.
LEMMA NextType == TypeOK /\ [Next]_vars => TypeOK'
  <1> SUFFICES ASSUME TypeOK, [Next]_vars PROVE TypeOK'
    OBVIOUS
  <1> USE BoundsAssumption, EmptyIsFile
  <1>1. CASE InitUp
    BY <1>1 DEF TypeOK, InitUp, bounds, fileVars, apiVars, watVars
  <1>2. ASSUME NEW n \in Names, InitCreate(n) PROVE TypeOK'
    <2>1. table' \in Tables /\ missing' \in Tables
      BY <1>2 DEF TypeOK, InitCreate, Tables
    <2>2. ini' \in {"up", "create", "done", "failed", "down"}
      BY <1>2 DEF TypeOK, InitCreate
    <2>3. QED
      BY <1>2, <2>1, <2>2 DEF TypeOK, InitCreate, bounds, fileVars, apiVars, watVars
  <1>3. CASE SetReady
    BY <1>3 DEF TypeOK, SetReady, bounds, fileVars, apiVars, watVars
  <1>4. ASSUME NEW c \in Callers, Request(c) PROVE TypeOK'
    <2>1. \A n \in Names : Operation(n) \subseteq Tables
      BY DEF TypeOK, Operation, Tables
    <2>2. All(table, "off") \in Tables
      BY DEF TypeOK, All, Tables, Flags
    <2>3. table' \in Tables /\ key' \in Keys \cup {Nothing} /\ settings' \subseteq Callers
      BY <1>4, <2>1, <2>2 DEF TypeOK, Request
    <2>4. pc' \in [Callers -> {"idle", "all", "load", "key", "hash", "truncate", "write", "startAll"}]
      BY <1>4 DEF TypeOK, Request, Goto
    <2>5. QED
      BY <1>4, <2>3, <2>4 DEF TypeOK, Request, fileVars, watVars, iniVars
  <1>5. ASSUME NEW c \in Callers, TakeAll(c) PROVE TypeOK'
    BY <1>5 DEF TypeOK, TakeAll, bounds, fileVars, watVars, iniVars, At, Goto
  <1>6. ASSUME NEW c \in Callers, LoadFile(c) PROVE TypeOK'
    <2>1. Merged(c) \in Files
      BY DEF TypeOK, Files, Merged
    <2>2. conf' \in [Callers -> Files]
      BY <1>6, <2>1 DEF TypeOK, LoadFile
    <2>3. pc' \in [Callers -> {"idle", "all", "load", "key", "hash", "truncate", "write", "startAll"}]
      BY <1>6 DEF TypeOK, LoadFile, Goto
    <2>4. QED
      BY <1>6, <2>2, <2>3 DEF TypeOK, LoadFile, fileVars, apiVars, watVars, iniVars, bounds
  <1>24. ASSUME NEW c \in Callers, TakeKey(c) PROVE TypeOK'
    <2>1. [conf[c] EXCEPT !.key = key] \in Files
      BY DEF TypeOK, Files
    <2>2. conf' \in [Callers -> Files]
      BY <1>24, <2>1 DEF TypeOK, TakeKey
    <2>3. pc' \in [Callers -> {"idle", "all", "load", "key", "hash", "truncate", "write", "startAll"}]
      BY <1>24 DEF TypeOK, TakeKey, Goto
    <2>4. QED
      BY <1>24, <2>2, <2>3 DEF TypeOK, TakeKey, fileVars, apiVars, watVars, iniVars, bounds
  <1>7. ASSUME NEW c \in Callers, TakeHash(c) PROVE TypeOK'
    BY <1>7 DEF TypeOK, TakeHash, bounds, fileVars, watVars, iniVars, At, Goto
  <1>8. ASSUME NEW c \in Callers, Truncate(c) PROVE TypeOK'
    <2>1. events' \in 0..MaxEvents
      BY <1>8, NotifyType DEF Truncate
    <2>2. pc' \in [Callers -> {"idle", "all", "load", "key", "hash", "truncate", "write", "startAll"}]
      BY <1>8 DEF TypeOK, Truncate, Goto
    <2>3. QED
      BY <1>8, <2>1, <2>2 DEF TypeOK, Truncate, fileVars, apiVars, watVars, iniVars, bounds
  <1>9. ASSUME NEW c \in Callers, Write(c) PROVE TypeOK'
    <2>1. events' \in 0..MaxEvents
      BY <1>9, NotifyType DEF Write
    <2>2. pc' \in [Callers -> {"idle", "all", "load", "key", "hash", "truncate", "write", "startAll"}]
      BY <1>9 DEF TypeOK, Write, Goto
    <2>3. file' \in Files /\ writing' \subseteq Callers
      BY <1>9 DEF TypeOK, Write
    <2>4. QED
      BY <1>9, <2>1, <2>2, <2>3 DEF TypeOK, Write, fileVars, apiVars, watVars, iniVars, bounds
  <1>10. ASSUME NEW c \in Callers, StartAll(c) PROVE TypeOK'
    BY <1>10 DEF TypeOK, StartAll, Files, Tables, Flags, bounds, fileVars, watVars, iniVars, At, Goto, All
  <1>11. CASE HashFile
    BY <1>11 DEF TypeOK, HashFile, bounds, apiVars, iniVars, Running
  <1>12. CASE Compare
    BY <1>12 DEF TypeOK, Compare, bounds, fileVars, apiVars, iniVars, IsNew
  <1>13. CASE Load
    BY <1>13 DEF TypeOK, Load, Files, Tables, Flags, bounds, fileVars, apiVars, iniVars
  <1>14. CASE Tailscale
    BY <1>14 DEF TypeOK, Tailscale, Files, Tables, Flags, bounds, fileVars, apiVars, iniVars, At, All
  <1>15. CASE Up
    BY <1>15 DEF TypeOK, Up, Files, Tables, Flags, bounds, fileVars, apiVars, iniVars, Present
  <1>16. ASSUME NEW n \in Names, DoesExists(n) PROVE TypeOK'
    BY <1>16 DEF TypeOK, DoesExists, Files, Tables, Flags, bounds, fileVars, apiVars, iniVars
  <1>17. CASE Adopt
    <2>1. load.svcs \in Tables
      BY DEF TypeOK, Files
    <2>2. table' \in Tables
      BY <1>17, <2>1 DEF TypeOK, Adopt, Tables
    <2>3. QED
      BY <1>17, <2>2 DEF TypeOK, Adopt, fileVars, apiVars, watVars, iniVars, bounds
  <1>18. CASE DeleteOthers
    BY <1>18 DEF TypeOK, DeleteOthers, Files, Tables, Flags, bounds, fileVars, apiVars, iniVars, Listed
  <1>19. CASE Edit
    <2>1. events' \in 0..MaxEvents
      BY <1>19, NotifyType DEF Edit
    <2>2. file' \in Files
      BY <1>19 DEF TypeOK, Edit, Files
    <2>3. edits' \in 0..MaxEdits
      BY <1>19 DEF TypeOK, Edit
    <2>4. QED
      BY <1>19, <2>1, <2>2, <2>3 DEF TypeOK, Edit, fileVars, apiVars, watVars, iniVars, bounds
  <1>20. CASE Crash
    BY <1>20 DEF TypeOK, Crash, Files, Tables, Flags, fileVars, Running
  <1>21. CASE Restart
    BY <1>21 DEF TypeOK, Restart, Files, Tables, Flags, bounds, apiVars, watVars, Running
  <1>22. CASE UNCHANGED vars
    BY <1>22 DEF TypeOK, vars, bounds, fileVars, apiVars, watVars, iniVars
  <1>23. QED
    BY <1>1, <1>2, <1>3, <1>4, <1>5, <1>6, <1>7, <1>8, <1>9, <1>10, <1>11, <1>12, <1>13, <1>14, <1>15, <1>16, <1>17, <1>18, <1>19, <1>20, <1>21, <1>22, <1>24 DEF Next, Api, Watcher
-----------------------------------------------------------------------------
\* The variables keep their types, whatever requests, edits and crashes meet
\* (TypeOK): the table, the file and every copy of them stay configurations.
THEOREM TypeCorrect == Spec => []TypeOK
  <1>1. Init => TypeOK
    BY BoundsAssumption, EmptyIsFile DEF Init, TypeOK, Files
  <1>2. QED
    BY <1>1, NextType, PTL DEF Spec

\* The one request under way puts into conf what the file has, and only an
\* empty file or conf ever replaces what the file has.
LEMMA Inductive ==
  ASSUME OneCaller, TypeOK, IInv, [Next]_vars PROVE IInv'
  <1> USE DEF IInv, ConfInv, FileCanStart, Running, At
  <1>1. CASE InitUp \/ SetReady \/ \E n \in Names : InitCreate(n)
    BY <1>1 DEF InitUp, SetReady, InitCreate, fileVars, apiVars, bounds
  <1>2. CASE Watcher
    BY <1>2 DEF Watcher, HashFile, Compare, Load, Tailscale, Up, DoesExists, Adopt, DeleteOthers,
                apiVars, iniVars, fileVars, bounds
  <1>3. ASSUME NEW c \in Callers, Api(c) PROVE IInv'
    <2>1. Callers = {c}
      BY DEF OneCaller
    <2>2. CASE Request(c) \/ TakeAll(c) \/ TakeHash(c) \/ StartAll(c)
      BY <2>1, <2>2 DEF TypeOK, Request, TakeAll, TakeHash, StartAll, Goto, fileVars, iniVars, bounds
    <2>3. CASE LoadFile(c)
      <3>1. crashes = 0 => file.rest
        BY <2>1, <2>3 DEF LoadFile
      <3>2. crashes = 0 => Merged(c).rest
        BY <3>1 DEF TypeOK, Merged, Files
      <3>3. QED
        BY <2>1, <2>3, <3>1, <3>2 DEF TypeOK, LoadFile, Goto, fileVars, iniVars, bounds
    <2>7. CASE TakeKey(c)
      <3>1. crashes = 0 => [conf[c] EXCEPT !.key = key].rest
        BY <2>7 DEF TypeOK, TakeKey, Files
      <3>2. QED
        BY <2>1, <2>7, <3>1 DEF TypeOK, TakeKey, Goto, fileVars, iniVars, bounds
    <2>4. CASE Truncate(c)
      BY <2>1, <2>4 DEF TypeOK, Truncate, Goto, iniVars, bounds
    <2>5. CASE Write(c)
      BY <2>1, <2>5 DEF TypeOK, Write, Goto, iniVars, bounds
    <2>6. QED
      BY <1>3, <2>2, <2>3, <2>4, <2>5, <2>7 DEF Api
  <1>4. CASE Edit
    BY <1>4 DEF TypeOK, Files, Edit, apiVars, iniVars, bounds
  <1>5. CASE Crash \/ Restart
    BY <1>5, BoundsAssumption DEF TypeOK, Crash, Restart, bounds
  <1>6. CASE UNCHANGED vars
    BY <1>6 DEF vars, fileVars, apiVars, iniVars, bounds
  <1>7. QED
    BY <1>1, <1>2, <1>3, <1>4, <1>5, <1>6 DEF Next

\* With one API caller and until a crash, the file always keeps what the
\* program needs to start (FileCanStart), for any number of requests and edits and whatever the
\* watcher and Router.Init do meanwhile.
THEOREM OneCallerKeepsSettings ==
  ASSUME OneCaller PROVE Spec => []FileCanStart
  <1>1. Init => IInv
    BY DEF Init, IInv, ConfInv, FileCanStart, Running
  <1>2. IInv => FileCanStart
    BY DEF IInv
  <1>3. QED
    BY <1>1, <1>2, TypeCorrect, Inductive, PTL DEF Spec
-----------------------------------------------------------------------------
(* Changes that come one by one (~hasty).                                  *)

Asking  == \E c \in Callers : pc[c] \in {"all", "load", "key", "hash", "truncate"}
Writing == \E c \in Callers : At(c, "write")

\* A request comes to a settled program and nothing else happens until it
\* begins to write.
OneAtATime ==
  /\ settings = {} /\ \A c \in Callers : ~At(c, "startAll")
  /\ \A c, d \in Callers : ~At(c, "idle") /\ ~At(d, "idle") => c = d
  /\ ini # "done" => \A c \in Callers : At(c, "idle")
  /\ ini # "done" \/ Asking => wpc = "idle"
  /\ ini \in {"up", "create"} \/ Asking => events = 0

\* Router.Init has put into the table what it no longer misses.
Filling ==
  /\ ini # "failed"
  /\ ini = "down" => table = Empty.svcs
  /\ ini \in {"up", "create"} =>
       /\ lastHash = file /\ file.rest /\ key = file.key
       /\ \A n \in Names : \/ missing[n] = file.svcs[n] /\ table[n] = Nothing
                           \/ missing[n] = Nothing /\ table[n] = file.svcs[n]

\* What a request is going to write is the router as its operation left it.
Copied ==
  \A c \in Callers :
    /\ At(c, "load") => snap[c] = table
    /\ pc[c] \in {"key", "hash", "truncate"} => conf[c].svcs = table
    /\ pc[c] \in {"hash", "truncate"} => conf[c].key = key
    /\ pc[c] \in {"key", "hash", "truncate", "write"} => conf[c].rest

\* In the middle of a write the file is empty. A watcher that has noticed has
\* forgotten the hash before, so that it will notice the end of the write too,
\* and waits for that end before it touches the services.
Halfway ==
  \A c \in Callers : At(c, "write") =>
    /\ file = Empty
    /\ wpc \in {"idle", "compare", "load", "tailscale", "up"}
    /\ wpc \in {"idle", "compare"} /\ lastHash = conf[c] =>
         table = conf[c].svcs /\ key = conf[c].key
    /\ wpc = "compare" => seen = Empty
    /\ wpc \in {"load", "tailscale", "up"} => lastHash = Empty
    /\ wpc = "up" => c \in writing

\* Otherwise, with no event left, the hash is, or is about to be, the file's;
\* and a hash that is the file's means that its services are in the table, or
\* will be when the reload under way is over.
Due ==
  ini = "done" /\ ~Writing =>
    /\ file.rest
    /\ events = 0 => IF wpc = "compare" THEN seen = file ELSE lastHash = file
    /\ lastHash = file /\ ~Asking =>
         /\ wpc \in {"idle", "compare"} => table = file.svcs
         /\ wpc \notin {"load", "tailscale"} => key = file.key
         /\ wpc \in {"tailscale", "up", "services", "create", "update"} => load = file
         /\ wpc \in {"services", "create", "update"} =>
              \A n \in Names : load.svcs[n] # Nothing =>
                n \in left \/ (n = pick /\ wpc # "services") \/ table[n] = load.svcs[n]
    /\ wpc \in {"create", "update"} => pick \in Names /\ ((table[pick] = Nothing) <=> (wpc = "create"))

Orderly == OneAtATime /\ Filling /\ Copied /\ Halfway /\ Due
CalmInv == ~hasty => Orderly

\* Neither Router.Init nor a restart meets a request or an event.
LEMMA StartingOrderly ==
  ASSUME TypeOK, ~hasty, Orderly,
         InitUp \/ (\E n \in Names : InitCreate(n)) \/ SetReady \/ Crash \/ Restart
  PROVE  Orderly'
<1> USE DEF Orderly
<1>1. CASE InitUp
  <2>1. /\ UNCHANGED <<table, key, file, events, lastHash, pc, snap, conf, settings, wpc, missing>>
        /\ ini = "up" /\ ini' = "create"
    BY <1>1 DEF InitUp, fileVars, apiVars, watVars
  <2> QED
    BY <2>1 DEF OneAtATime, Filling, Copied, Halfway, Due, Asking, Writing, At
<1>2. ASSUME NEW n \in Names, InitCreate(n) PROVE Orderly'
  <2>1. /\ UNCHANGED <<key, file, events, lastHash, pc, snap, conf, settings, wpc>>
        /\ ini = "create" /\ missing[n] # Nothing
    BY <1>2 DEF InitCreate, fileVars, apiVars, watVars
  <2>2. missing[n] = file.svcs[n] /\ table[n] = Nothing
    BY <2>1 DEF Filling
  <2>3. /\ ini' = ini /\ table' = [table EXCEPT ![n] = missing[n]]
        /\ missing' = [missing EXCEPT ![n] = Nothing]
    BY <1>2, <2>2 DEF InitCreate
  <2>4. Filling'
    BY <2>1, <2>2, <2>3 DEF Filling, TypeOK, Tables
  <2> QED
    BY <2>1, <2>3, <2>4 DEF OneAtATime, Copied, Halfway, Due, Asking, Writing, At
<1>3. CASE SetReady
  <2>1. /\ UNCHANGED <<table, key, file, events, lastHash, pc, snap, conf, settings, wpc>>
        /\ ini = "create" /\ ini' = "done" /\ missing = Empty.svcs
    BY <1>3 DEF SetReady, fileVars, apiVars, watVars
  <2>2. table = file.svcs
    <3>1. \A n \in Names : table[n] = file.svcs[n]
      BY <2>1 DEF Filling, Empty
    <3>2. table \in [Names -> Flags \cup {Nothing}] /\ file.svcs \in [Names -> Flags \cup {Nothing}]
      BY DEF TypeOK, Tables, Files
    <3> QED
      BY <3>1, <3>2
  <2>3. (\A c \in Callers : pc[c] = "idle") /\ wpc = "idle" /\ events = 0 /\ lastHash = file /\ file.rest
    BY <2>1 DEF OneAtATime, Filling, At
  <2> QED
    BY <2>1, <2>2, <2>3 DEF OneAtATime, Filling, Copied, Halfway, Due, Asking, Writing, At
<1>4. CASE Crash
  <2>1. /\ ini' = "down" /\ table' = Empty.svcs /\ \A c \in Callers : pc'[c] = "idle"
        /\ settings' = {} /\ wpc' = "idle"
    BY <1>4 DEF Crash
  <2> QED
    BY <2>1 DEF OneAtATime, Filling, Copied, Halfway, Due, Asking, Writing, At
<1>5. CASE Restart
  <2>1. /\ UNCHANGED <<table, file, pc, settings, wpc>> /\ ini = "down" /\ ini' = "up"
        /\ missing' = file.svcs /\ lastHash' = file /\ events' = 0 /\ file.rest
        /\ key' = file.key
    BY <1>5 DEF Restart, Running, apiVars, watVars
  <2>2. (\A c \in Callers : pc[c] = "idle") /\ \A n \in Names : table[n] = Nothing
    BY <2>1 DEF OneAtATime, Filling, Empty, At
  <2> QED
    BY <2>1, <2>2 DEF OneAtATime, Filling, Copied, Halfway, Due, Asking, Writing, At
<1> QED
  BY <1>1, <1>2, <1>3, <1>4, <1>5

\* A request comes to a settled program. Until it writes, the watcher sleeps and
\* the hash is that of the file; the write leaves an event.
LEMMA ApiOrderly ==
  ASSUME TypeOK, ~hasty, Orderly, NEW c \in Callers, Api(c)
  PROVE  Orderly'
<1> USE DEF Orderly
<1>1. CASE Request(c)
  <2>1. /\ UNCHANGED <<key, file, events, lastHash, snap, conf, settings, wpc, ini>> /\ Settled
        /\ pc' = [pc EXCEPT ![c] = "all"]
    BY <1>1 DEF Request, Goto, fileVars, watVars, iniVars
  <2>2. /\ \A d \in Callers : pc'[d] = IF d = c THEN "all" ELSE "idle"
        /\ wpc = "idle" /\ events = 0 /\ ini = "done"
    BY <2>1 DEF Settled, At, TypeOK
  <2>3. ~Writing /\ file.rest /\ lastHash = file
    BY <2>1, <2>2 DEF Due, Settled, Writing, At
  <2> QED
    BY <2>1, <2>2, <2>3 DEF OneAtATime, Filling, Copied, Halfway, Due, Asking, Writing, At
<1>2. ASSUME NEW p, At(c, p), p # "idle"
      PROVE  /\ \A d \in Callers : d # c => pc[d] = "idle"
             /\ p # "write" => ~Writing
             /\ ini = "done" /\ p # "startAll"
             /\ p \in {"all", "load", "key", "hash", "truncate"} =>
                  wpc = "idle" /\ events = 0 /\ lastHash = file /\ file.rest
  <2>1. /\ \A d \in Callers : d # c => pc[d] = "idle"
        /\ ini = "done" /\ p # "startAll"
    BY <1>2 DEF OneAtATime, At
  <2>2. p # "write" => ~Writing
    BY <1>2, <2>1 DEF Writing, At
  <2>3. p \in {"all", "load", "key", "hash", "truncate"} => wpc = "idle" /\ events = 0
    BY <1>2 DEF OneAtATime, Asking, At
  <2> QED
    BY <2>1, <2>2, <2>3 DEF Due
<1>3. CASE TakeAll(c)
  <2>1. /\ UNCHANGED <<table, key, file, events, lastHash, conf, settings, wpc, ini>> /\ At(c, "all")
        /\ pc' = [pc EXCEPT ![c] = "load"] /\ snap' = [snap EXCEPT ![c] = table]
    BY <1>3 DEF TakeAll, Goto, fileVars, watVars, iniVars
  <2>2. /\ \A d \in Callers : pc'[d] = IF d = c THEN "load" ELSE "idle"
        /\ ini = "done" /\ wpc = "idle" /\ events = 0 /\ lastHash = file /\ file.rest
    BY <1>2, <2>1 DEF TypeOK
  <2>3. snap'[c] = table
    BY <2>1 DEF TypeOK
  <2> QED
    BY <2>1, <2>2, <2>3 DEF OneAtATime, Filling, Copied, Halfway, Due, Asking, Writing, At
<1>4. CASE LoadFile(c)
  <2>1. /\ UNCHANGED <<table, key, file, events, lastHash, snap, settings, wpc, ini>> /\ At(c, "load")
        /\ pc' = [pc EXCEPT ![c] = "key"] /\ conf' = [conf EXCEPT ![c] = Merged(c)]
    BY <1>4 DEF LoadFile, Goto, fileVars, watVars, iniVars
  <2>2. /\ \A d \in Callers : pc'[d] = IF d = c THEN "key" ELSE "idle"
        /\ ini = "done" /\ wpc = "idle" /\ events = 0 /\ lastHash = file /\ file.rest
    BY <1>2, <2>1 DEF TypeOK
  <2>3. conf'[c] = Merged(c) /\ Merged(c).svcs = table /\ Merged(c).rest
    <3>1. snap[c] = table
      BY <2>1 DEF Copied
    <3> QED
      BY <2>1, <2>2, <3>1 DEF Merged, TypeOK, Files
  <2> QED
    BY <2>1, <2>2, <2>3 DEF OneAtATime, Filling, Copied, Halfway, Due, Asking, Writing, At
<1>9. CASE TakeKey(c)
  <2>1. /\ UNCHANGED <<table, key, file, events, lastHash, snap, settings, wpc, ini>> /\ At(c, "key")
        /\ pc' = [pc EXCEPT ![c] = "hash"] /\ conf' = [conf EXCEPT ![c].key = key]
    BY <1>9 DEF TakeKey, Goto, fileVars, watVars, iniVars
  <2>2. /\ \A d \in Callers : pc'[d] = IF d = c THEN "hash" ELSE "idle"
        /\ ini = "done" /\ wpc = "idle" /\ events = 0 /\ lastHash = file /\ file.rest
    BY <1>2, <2>1 DEF TypeOK
  <2>3. conf'[c].svcs = table /\ conf'[c].key = key /\ conf'[c].rest
    <3>1. conf[c].svcs = table /\ conf[c].rest /\ conf[c] \in Files
      BY <2>1 DEF Copied, At, TypeOK
    <3>2. conf'[c] = [conf[c] EXCEPT !.key = key]
      BY <2>1 DEF TypeOK
    <3> QED
      BY <3>1, <3>2 DEF Files
  <2> QED
    BY <2>1, <2>2, <2>3 DEF OneAtATime, Filling, Copied, Halfway, Due, Asking, Writing, At
<1>5. CASE TakeHash(c)
  <2>1. /\ UNCHANGED <<table, key, file, events, snap, conf, settings, wpc, ini>> /\ At(c, "hash")
        /\ pc' = [pc EXCEPT ![c] = "truncate"] /\ lastHash' = file
    BY <1>5 DEF TakeHash, Goto, fileVars, watVars, iniVars
  <2>2. /\ \A d \in Callers : pc'[d] = IF d = c THEN "truncate" ELSE "idle"
        /\ ini = "done" /\ wpc = "idle" /\ events = 0 /\ file.rest
    BY <1>2, <2>1 DEF TypeOK
  <2>3. conf[c].svcs = table /\ conf[c].key = key /\ conf[c].rest
    BY <2>1 DEF Copied, At
  <2> QED
    BY <2>1, <2>2, <2>3 DEF OneAtATime, Filling, Copied, Halfway, Due, Asking, Writing, At
<1>6. CASE Truncate(c)
  <2>1. /\ UNCHANGED <<table, key, lastHash, snap, conf, settings, wpc, ini>> /\ At(c, "truncate")
        /\ pc' = [pc EXCEPT ![c] = "write"] /\ file' = Empty
    BY <1>6 DEF Truncate, Goto, watVars, iniVars
  <2>2. /\ \A d \in Callers : pc'[d] = IF d = c THEN "write" ELSE "idle"
        /\ ini = "done" /\ wpc = "idle"
    BY <1>2, <2>1 DEF TypeOK
  <2>3. conf[c].svcs = table /\ conf[c].key = key /\ conf[c].rest
    BY <2>1 DEF Copied, At
  <2> QED
    BY <2>1, <2>2, <2>3 DEF OneAtATime, Filling, Copied, Halfway, Due, Asking, Writing, At
<1>7. CASE Write(c)
  <2>1. /\ UNCHANGED <<table, key, lastHash, snap, conf, settings, wpc, seen, load, pick, left, ini>>
        /\ At(c, "write") /\ file' = conf[c] /\ Notify
        /\ pc' = [pc EXCEPT ![c] = IF c \in settings THEN "startAll" ELSE "idle"]
    BY <1>7 DEF Write, Goto, iniVars
  <2>2. (\A d \in Callers : pc'[d] = "idle") /\ ini = "done"
    BY <1>2, <2>1 DEF TypeOK, OneAtATime
  <2>3. events' \in Nat \ {0}
    BY <2>1, BoundsAssumption DEF TypeOK, Notify
  <2>4. conf[c].rest /\ Empty.rest = FALSE /\ ~Writing'
    BY <2>1, <2>2 DEF Copied, At, Empty, Writing
  <2>5. Due'
    BY <2>1, <2>2, <2>3, <2>4 DEF Halfway, Due
  <2> QED
    BY <2>1, <2>2, <2>5 DEF OneAtATime, Filling, Copied, Halfway, Asking, At
<1>8. CASE StartAll(c)
  BY <1>2, <1>8 DEF StartAll
<1> QED
  BY <1>1, <1>3, <1>4, <1>5, <1>6, <1>7, <1>8, <1>9 DEF Api

\* The watcher notices, reloads, and is back with the services of the file.
LEMMA WatcherOrderly ==
  ASSUME TypeOK, ~hasty, Orderly, Watcher
  PROVE  Orderly'
<1> USE DEF Orderly
<1>1. /\ UNCHANGED <<file, snap, conf, pc, settings, ini, missing>> /\ (Writing' <=> Writing) /\ (Asking' <=> Asking)
  BY DEF Watcher, HashFile, Compare, Load, Tailscale, Up, DoesExists, Adopt, DeleteOthers,
         apiVars, iniVars, fileVars, Writing, Asking, At
<1>2. ini = "done" /\ ~Asking
  BY DEF Watcher, HashFile, Compare, Load, Tailscale, Up, DoesExists, Adopt, DeleteOthers,
         OneAtATime, Filling, Running, TypeOK
<1>3. OneAtATime' /\ Filling' /\ Copied'
  BY <1>1, <1>2 DEF OneAtATime, Filling, Copied, Asking, At
<1>4. CASE HashFile
  <2>1. /\ UNCHANGED <<table, key, lastHash, load, pick, left, writing>> /\ wpc = "idle" /\ wpc' = "compare"
        /\ seen' = file
    BY <1>4 DEF HashFile
  <2> QED
    BY <1>1, <1>2, <1>3, <2>1 DEF Halfway, Due, At
<1>5. CASE Compare
  <2>1. /\ UNCHANGED <<table, key, events, seen, load, pick, left, writing>> /\ wpc = "compare"
        /\ lastHash' = seen /\ (wpc' = "load" \/ (wpc' = "idle" /\ seen = lastHash))
    BY <1>5 DEF Compare, fileVars, IsNew
  <2>2. Halfway'
    BY <1>1, <2>1 DEF Halfway, Copied, At, Empty
  <2>3. Due'
    BY <1>1, <1>2, <2>1 DEF Due
  <2> QED
    BY <1>3, <2>2, <2>3
<1>6. CASE Load
  <2>1. /\ UNCHANGED <<table, key, events, lastHash, seen, pick, left, writing>>
        /\ wpc = "load" /\ wpc' = "tailscale" /\ load' = file
    BY <1>6 DEF Load, fileVars
  <2> QED
    BY <1>1, <1>2, <1>3, <2>1 DEF Halfway, Due, At
<1>7. CASE Tailscale
  <2>1. /\ UNCHANGED <<events, lastHash, seen, load, pick, left>>
        /\ wpc = "tailscale" /\ wpc' = "up" /\ key' = load.key /\ writing' = {c \in Callers : At(c, "write")}
    BY <1>7 DEF Tailscale, fileVars
  <2> QED
    BY <1>1, <1>2, <1>3, <2>1 DEF Halfway, Due, At
<1>8. CASE Up
  <2>1. /\ UNCHANGED <<table, key, events, lastHash, seen, load, pick>>
        /\ wpc = "up" /\ wpc' = "services" /\ writing = {} /\ left' = Present(load.svcs)
    BY <1>8 DEF Up, fileVars
  <2>2. ~Writing /\ \A c \in Callers : ~At(c, "write")
    BY <2>1 DEF Halfway, Writing
  <2> QED
    BY <1>1, <1>2, <1>3, <2>1, <2>2 DEF Halfway, Due, At, Present
<1>9. ASSUME NEW n \in Names, DoesExists(n) PROVE Orderly'
  <2>1. /\ UNCHANGED <<table, key, events, lastHash, seen, load, writing>>
        /\ wpc = "services" /\ pick' = n /\ left' = left \ {n}
        /\ wpc' = IF table[n] = Nothing THEN "create" ELSE "update"
    BY <1>9 DEF DoesExists, fileVars
  <2>2. ~Writing /\ \A c \in Callers : ~At(c, "write")
    BY <2>1 DEF Halfway, Writing
  <2> QED
    BY <1>1, <1>2, <1>3, <2>1, <2>2 DEF Halfway, Due, At
<1>10. CASE Adopt
  <2>1. /\ UNCHANGED <<key, events, lastHash, seen, load, left, writing>>
        /\ wpc \in {"create", "update"} /\ wpc' = "services"
    BY <1>10 DEF Adopt, fileVars
  <2>2. ~Writing /\ \A c \in Callers : ~At(c, "write")
    BY <2>1 DEF Halfway, Writing
  <2>3. pick \in Names /\ table' = [table EXCEPT ![pick] = load.svcs[pick]]
    <3>1. pick \in Names /\ ((table[pick] = Nothing) <=> (wpc = "create"))
      BY <1>2, <2>1, <2>2 DEF Due
    <3> QED
      BY <1>10, <3>1 DEF Adopt
  <2>4. \A n \in Names : table'[n] = IF n = pick THEN load.svcs[pick] ELSE table[n]
    BY <2>3 DEF TypeOK, Tables
  <2> QED
    BY <1>1, <1>2, <1>3, <2>1, <2>2, <2>4 DEF Halfway, Due, At
<1>11. CASE DeleteOthers
  <2>1. /\ UNCHANGED <<key, events, lastHash, seen, load, pick, left, writing>>
        /\ wpc = "services" /\ wpc' = "idle" /\ left = {} /\ table' = Listed
    BY <1>11 DEF DeleteOthers, fileVars
  <2>2. ~Writing /\ \A c \in Callers : ~At(c, "write")
    BY <2>1 DEF Halfway, Writing
  <2>3. ASSUME lastHash = file PROVE table' = file.svcs
    <3>1. load = file /\ \A n \in Names : load.svcs[n] # Nothing => table[n] = load.svcs[n]
      BY <1>2, <2>1, <2>2, <2>3 DEF Due
    <3>2. file.svcs \in [Names -> Flags \cup {Nothing}]
      BY DEF TypeOK, Files, Tables
    <3> QED
      BY <2>1, <3>1, <3>2 DEF Listed
  <2> QED
    BY <1>1, <1>2, <1>3, <2>1, <2>2, <2>3 DEF Halfway, Due, At
<1> QED
  BY <1>4, <1>5, <1>6, <1>7, <1>8, <1>9, <1>10, <1>11 DEF Watcher

\* Somebody else's edit of a settled program's file.
LEMMA EditOrderly ==
  ASSUME TypeOK, ~hasty, Orderly, Edit
  PROVE  Orderly'
<1> USE DEF Orderly
<1>1. /\ UNCHANGED <<table, key, lastHash, pc, snap, conf, settings, wpc, ini>> /\ Settled
      /\ file' # file /\ Notify
  BY DEF Edit, apiVars, watVars, iniVars
<1>2. file'.rest
  BY DEF Edit, TypeOK, Files
<1>3. events' \in Nat \ {0}
  BY <1>1, BoundsAssumption DEF TypeOK, Notify
<1>4. ini = "done" /\ wpc = "idle" /\ events = 0 /\ \A c \in Callers : pc[c] = "idle"
  BY <1>1 DEF Settled, At
<1>5. lastHash = file
  BY <1>4 DEF Due, Writing, At
<1> QED
  BY <1>1, <1>2, <1>3, <1>4, <1>5 DEF OneAtATime, Filling, Copied, Halfway, Due, Asking, Writing, At

LEMMA CalmStep == TypeOK /\ CalmInv /\ [Next]_vars => CalmInv'
<1> SUFFICES ASSUME TypeOK, CalmInv, [Next]_vars, ~hasty' PROVE Orderly'
  BY DEF CalmInv
<1>1. hasty' = hasty
  BY DEF Next, InitUp, InitCreate, SetReady, Api, Request, TakeAll, LoadFile, TakeKey, TakeHash, Truncate,
         Write, StartAll, Watcher, HashFile, Compare, Load, Tailscale, Up, DoesExists, Adopt, DeleteOthers,
         Edit, Crash, Restart, vars, bounds
<1>2. ~hasty /\ Orderly
  BY <1>1 DEF CalmInv
<1>3. CASE UNCHANGED vars
  BY <1>2, <1>3 DEF vars, fileVars, apiVars, watVars, iniVars, Orderly, OneAtATime, Filling, Copied,
                    Halfway, Due, Asking, Writing, At
<1> QED
  BY <1>2, <1>3, StartingOrderly, ApiOrderly, WatcherOrderly, EditOrderly DEF Next

\* Changes that come one by one to a settled program, for any number of them
\* and of crashes between or during them: whenever it settles again the router
\* serves what the file says, on its tailnet. The watcher takes each write for
\* another's and may load an empty file in the middle of one; the reload that
\* follows the end of the write makes up for it.
THEOREM SettledAgrees == Spec => []AgreesAtRest
<1>1. Init => CalmInv
  <2> SUFFICES ASSUME Init PROVE Orderly
    BY DEF CalmInv
  <2>1. /\ (\A c \in Callers : pc[c] = "idle") /\ settings = {} /\ ini = "up" /\ wpc = "idle"
        /\ events = 0 /\ lastHash = file /\ file.rest /\ missing = file.svcs /\ key = file.key
        /\ \A n \in Names : table[n] = Nothing
    BY DEF Init, Empty
  <2> QED
    BY <2>1 DEF Orderly, OneAtATime, Filling, Copied, Halfway, Due, Asking, Writing, At
<1>2. TypeOK /\ CalmInv => AgreesAtRest
  <2> SUFFICES ASSUME TypeOK, CalmInv, ~hasty, Settled PROVE table = file.svcs /\ key = file.key
    BY DEF AgreesAtRest
  <2>1. (\A c \in Callers : pc[c] = "idle") /\ ini = "done" /\ wpc = "idle" /\ events = 0 /\ Due
    BY DEF Settled, CalmInv, Orderly, At
  <2> QED
    BY <2>1 DEF Due, Asking, Writing, At
<1> QED
  BY <1>1, <1>2, TypeCorrect, CalmStep, PTL DEF Spec
=============================================================================
