----------------------------- MODULE ConfigSync -----------------------------
(***************************************************************************)
(* The configuration file and the router's table of services, kept alike   *)
(* by the config controller (pkg/controller/config_controller.go): every   *)
(* API change is written to the file, every write of the file wakes the    *)
(* watcher, and the watcher reloads a file it takes for somebody else's.   *)
(* Router.Init fills the table from the file while both already run.       *)
(*                                                                         *)
(* A router operation on one service is one step here (Services has its    *)
(* inside). A file's hash is its content. An empty file, which is what a   *)
(* write begins with, reads as a configuration without anything.           *)
(***************************************************************************)
EXTENDS Naturals, FiniteSets

CONSTANTS
  Callers,    \* API requests that may be handled at the same time
  Names,      \* services
  Keys,       \* tailnet keys
  Nothing,    \* no service, no key
  MaxOps,     \* bound: API requests
  MaxEdits,   \* bound: edits of the file by somebody else
  MaxCrashes, \* bound: crashes of the program
  MaxEvents   \* bound: write events queued, further ones coalesce

ASSUME BoundsAssumption == {MaxOps, MaxEdits, MaxCrashes} \subseteq Nat /\ MaxEvents \in Nat \ {0}

Flags  == {"on", "off"}
Tables == [Names -> Flags \cup {Nothing}]
Files  == [svcs : Tables, key : Keys \cup {Nothing}, rest : BOOLEAN]

VARIABLES
  hasty,            \* requests and edits come at any time and the tailnet may fail
  table, key,       \* Router.Services with their Enabled flags, key of Router.ts
  file, external,   \* the file, and whether its content is somebody else's
  lastHash, events, \* ConfigCtrl.lastHash, write events not handled yet
  pc, snap, conf,   \* API requests: position, Router.All(), the configuration to write
  settings,         \* ... those that save settings of the tailnet
  wpc, seen, load,  \* watcher: position, hash it read, configuration it loaded
  pick, left,       \* ... the service it is at, those still to do
  writing,          \* ... the file writes that were under way when its wait began
  ini, missing,     \* Router.Init: position, services still to create
  used, edits, crashes

apiVars == <<pc, snap, conf, settings>>
watVars == <<wpc, seen, load, pick, left, writing>>
iniVars == <<ini, missing>>
fileVars == <<file, external, events>>
bounds  == <<hasty, used, edits, crashes>>
vars == <<table, key, fileVars, lastHash, apiVars, watVars, iniVars, bounds>>

TypeOK ==
  /\ hasty \in BOOLEAN
  /\ table \in Tables /\ key \in Keys \cup {Nothing}
  /\ file \in Files /\ lastHash \in Files /\ external \in BOOLEAN
  /\ events \in 0..MaxEvents
  /\ pc \in [Callers -> {"idle", "all", "load", "key", "hash", "truncate", "write",
                       "startAll"}]
  /\ settings \subseteq Callers
  /\ snap \in [Callers -> Tables] /\ conf \in [Callers -> Files]
  /\ wpc \in {"idle", "compare", "load", "tailscale", "up", "services", "update", "create"}
  /\ seen \in Files /\ load \in Files /\ pick \in Names \cup {Nothing}
  /\ left \subseteq Names /\ writing \subseteq Callers
  /\ ini \in {"up", "create", "done", "failed", "down"} /\ missing \in Tables
  /\ used \in 0..MaxOps /\ edits \in 0..MaxEdits /\ crashes \in 0..MaxCrashes

Empty      == [svcs |-> [n \in Names |-> Nothing], key |-> Nothing, rest |-> FALSE]
Present(t) == {n \in Names : t[n] # Nothing}

\* main: the file is read, Init begins with an empty table, the controller
\* takes the hash of the file and begins to watch it.
Init ==
  /\ hasty \in BOOLEAN
  /\ file \in {f \in Files : f.key # Nothing /\ f.rest} /\ external = TRUE /\ events = 0
  /\ table = Empty.svcs /\ key = file.key /\ lastHash = file
  /\ pc = [c \in Callers |-> "idle"] /\ settings = {}
  /\ snap = [c \in Callers |-> Empty.svcs] /\ conf = [c \in Callers |-> Empty]
  /\ wpc = "idle" /\ seen = Empty /\ load = Empty /\ pick = Nothing /\ left = {} /\ writing = {}
  /\ ini = "up" /\ missing = file.svcs
  /\ used = 0 /\ edits = 0 /\ crashes = 0

Running == ini # "down"

-----------------------------------------------------------------------------
(* Router.Init: the tailnet first, then the services one by one, until one *)
(* exists already.                                                         *)

InitUp ==
  /\ ini = "up" /\ ini' \in {"create"} \cup (IF hasty THEN {"failed"} ELSE {})
  /\ UNCHANGED <<table, key, fileVars, lastHash, apiVars, watVars, missing, bounds>>

InitCreate(n) ==
  /\ ini = "create" /\ missing[n] # Nothing
  /\ IF table[n] = Nothing
     THEN table' = [table EXCEPT ![n] = missing[n]] /\ UNCHANGED ini
     ELSE ini' = "failed" /\ UNCHANGED table
  /\ missing' = [missing EXCEPT ![n] = Nothing]
  /\ UNCHANGED <<key, fileVars, lastHash, apiVars, watVars, bounds>>

SetReady ==
  /\ ini = "create" /\ missing = Empty.svcs /\ ini' = "done"
  /\ UNCHANGED <<table, key, fileVars, lastHash, apiVars, watVars, missing, bounds>>

-----------------------------------------------------------------------------
(* API requests: an operation on the router, then ConfigCtrl.Update.       *)

At(c, p)   == pc[c] = p
Goto(c, p) == pc' = [pc EXCEPT ![c] = p]

Settled == ini = "done" /\ wpc = "idle" /\ events = 0 /\ \A c \in Callers : At(c, "idle")

\* inotify drops an event like the one before it.
Notify == events' = IF events < MaxEvents THEN events + 1 ELSE events

\* StopAll and StartAll.
All(t, flag) == [n \in Names |-> IF t[n] = Nothing THEN Nothing ELSE flag]

\* Create, Update, Start and Stop, Remove: each refuses what is not there,
\* or, to create, what is.
Operation(n) ==
  {[table EXCEPT ![n] = s] : s \in IF table[n] = Nothing THEN Flags ELSE Flags \cup {Nothing}}

Request(c) ==
  /\ Running /\ At(c, "idle") /\ used < MaxOps /\ used' = used + 1
  /\ hasty \/ Settled
  /\ Goto(c, "all")
  /\ \/ /\ \E n \in Names : table' \in Operation(n)
        /\ UNCHANGED <<key, settings>>
     \/ /\ hasty /\ key' \in Keys /\ table' = IF key' = key THEN table ELSE All(table, "off")
        /\ settings' = settings \cup {c}
  /\ UNCHANGED <<hasty, fileVars, lastHash, snap, conf, watVars, iniVars, edits, crashes>>

TakeAll(c) ==
  /\ At(c, "all") /\ Goto(c, "load") /\ snap' = [snap EXCEPT ![c] = table]
  /\ UNCHANGED <<table, key, fileVars, lastHash, conf, settings, watVars, iniVars, bounds>>

\* Bug: the services are written and nothing else is kept.
ServicesOnly(c) == [Empty EXCEPT !.svcs = snap[c]]

\* Bug: the names are saved without what is enabled.
NamesOnly(c) == [file EXCEPT !.svcs = All(snap[c], "named")]

\* The file with the services of the router.
Merged(c) == [file EXCEPT !.svcs = snap[c]]

LoadFile(c) ==
  /\ At(c, "load") /\ Goto(c, "key") /\ conf' = [conf EXCEPT ![c] = Merged(c)]
  /\ UNCHANGED <<table, key, fileVars, lastHash, snap, settings, watVars, iniVars, bounds>>

TakeKey(c) ==
  /\ At(c, "key") /\ Goto(c, "hash") /\ conf' = [conf EXCEPT ![c].key = key]
  /\ UNCHANGED <<table, key, fileVars, lastHash, snap, settings, watVars, iniVars, bounds>>

TakeHash(c) ==
  /\ At(c, "hash") /\ Goto(c, "truncate") /\ lastHash' = file
  /\ UNCHANGED <<table, key, fileVars, snap, conf, settings, watVars, iniVars, bounds>>

Truncate(c) ==
  /\ At(c, "truncate") /\ Goto(c, "write") /\ file' = Empty /\ external' = FALSE /\ Notify
  /\ UNCHANGED <<table, key, lastHash, snap, conf, settings, watVars, iniVars, bounds>>

Write(c) ==
  /\ At(c, "write") /\ file' = conf[c] /\ external' = FALSE /\ Notify
  /\ Goto(c, IF c \in settings THEN "startAll" ELSE "idle")
  /\ writing' = writing \ {c}
  /\ UNCHANGED <<table, key, lastHash, snap, conf, settings, wpc, seen, load, pick, left, iniVars, bounds>>

StartAll(c) ==
  /\ At(c, "startAll") /\ Goto(c, "idle") /\ settings' = settings \ {c} /\ table' = All(table, "on")
  /\ UNCHANGED <<key, fileVars, lastHash, snap, conf, watVars, iniVars, bounds>>

Api(c) ==
  \/ Request(c) \/ TakeAll(c) \/ LoadFile(c) \/ TakeKey(c) \/ TakeHash(c)
  \/ Truncate(c) \/ Write(c) \/ StartAll(c)

-----------------------------------------------------------------------------
(* The watcher, and Router.Reload.                                         *)

IsNew == seen # lastHash

HashFile ==
  /\ Running /\ wpc = "idle" /\ events > 0 /\ events' = events - 1
  /\ seen' = file /\ wpc' = "compare"
  /\ UNCHANGED <<table, key, file, external, lastHash, apiVars, load, pick, left, writing, iniVars, bounds>>

Compare ==
  /\ wpc = "compare"
  /\ lastHash' = seen /\ wpc' = IF IsNew THEN "load" ELSE "idle"
  /\ UNCHANGED <<table, key, fileVars, apiVars, seen, load, pick, left, writing, iniVars, bounds>>

Load ==
  /\ wpc = "load" /\ load' = file /\ wpc' = "tailscale"
  /\ UNCHANGED <<table, key, fileVars, lastHash, apiVars, seen, pick, left, writing, iniVars, bounds>>

\* UpdateTailscale: another key stops everything.
Tailscale ==
  /\ wpc = "tailscale" /\ wpc' = "up" /\ key' = load.key
  /\ table' = IF key = load.key THEN table ELSE All(table, "off")
  /\ writing' = {c \in Callers : At(c, "write")}
  /\ UNCHANGED <<fileVars, lastHash, apiVars, seen, load, pick, left, iniVars, bounds>>

\* Up and WaitForTailscale fail, or the services follow. They take 2 seconds
\* or more, and no write of the file that was under way lasts that long.
Up ==
  /\ wpc = "up" /\ writing = {}
  /\ \/ wpc' = "services" /\ left' = Present(load.svcs)
     \/ hasty /\ wpc' = "idle" /\ UNCHANGED left
  /\ UNCHANGED <<table, key, fileVars, lastHash, apiVars, seen, load, pick, writing, iniVars, bounds>>

DoesExists(n) ==
  /\ wpc = "services" /\ n \in left /\ pick' = n /\ left' = left \ {n}
  /\ wpc' = IF table[n] = Nothing THEN "create" ELSE "update"
  /\ UNCHANGED <<table, key, fileVars, lastHash, apiVars, seen, load, writing, iniVars, bounds>>

\* What came between is kept: Create refuses a service that is there by now,
\* Update one that is not.
Adopt ==
  /\ wpc \in {"create", "update"} /\ wpc' = "services" /\ pick' = Nothing
  /\ table' = IF (table[pick] = Nothing) = (wpc = "create")
              THEN [table EXCEPT ![pick] = load.svcs[pick]] ELSE table
  /\ UNCHANGED <<key, fileVars, lastHash, apiVars, seen, load, left, writing, iniVars, bounds>>

\* Bug: services that the file does not name stay.
KeepAll == table

\* Services that the file does not name are removed.
Listed == [n \in Names |-> IF load.svcs[n] = Nothing THEN Nothing ELSE table[n]]

DeleteOthers ==
  /\ wpc = "services" /\ left = {} /\ wpc' = "idle" /\ table' = Listed
  /\ UNCHANGED <<key, fileVars, lastHash, apiVars, seen, load, pick, left, writing, iniVars, bounds>>

Watcher ==
  \/ HashFile \/ Compare \/ Load \/ Tailscale \/ Up
  \/ (\E n \in Names : DoesExists(n)) \/ Adopt \/ DeleteOthers

-----------------------------------------------------------------------------
(* Somebody else replaces the file at once. The program dies and starts    *)
(* again, unless the file no longer says how users authenticate.           *)

Edit ==
  /\ edits < MaxEdits /\ edits' = edits + 1
  /\ hasty \/ Settled
  /\ \E t \in Tables, k \in Keys : file' = [file EXCEPT !.svcs = t, !.key = k, !.rest = TRUE]
  /\ file' # file /\ external' = TRUE /\ Notify
  /\ UNCHANGED <<table, key, lastHash, apiVars, watVars, iniVars, hasty, used, crashes>>

Crash ==
  /\ Running /\ crashes < MaxCrashes /\ crashes' = crashes + 1
  /\ ini' = "down" /\ table' = Empty.svcs
  /\ pc' = [c \in Callers |-> "idle"] /\ settings' = {}
  /\ snap' = [c \in Callers |-> Empty.svcs] /\ conf' = [c \in Callers |-> Empty]
  /\ wpc' = "idle" /\ seen' = Empty /\ load' = Empty /\ pick' = Nothing /\ left' = {} /\ writing' = {}
  /\ UNCHANGED <<key, fileVars, lastHash, missing, hasty, used, edits>>

Restart ==
  /\ ~Running /\ file.rest
  /\ ini' = "up" /\ missing' = file.svcs /\ key' = file.key /\ lastHash' = file /\ events' = 0
  /\ UNCHANGED <<table, file, external, apiVars, watVars, bounds>>

Next ==
  \/ InitUp \/ (\E n \in Names : InitCreate(n)) \/ SetReady
  \/ \E c \in Callers : Api(c)
  \/ Watcher
  \/ Edit \/ Crash \/ Restart

Spec == Init /\ [][Next]_vars

-----------------------------------------------------------------------------
\* One request at a time, whatever it meets: unless it is writing, the file
\* keeps the settings that the router does not manage, without which the
\* program refuses to start again (LoadConfig, validate).
FileCanStart == crashes = 0 /\ (\A c \in Callers : ~At(c, "write")) => file.rest

\* Changes that come one by one, each to a settled program: it settles again
\* with the router serving what the file says, on the tailnet it names, although
\* the watcher may read the file in the middle of a write and takes every write
\* for another's.
AgreesAtRest == ~hasty /\ Settled => table = file.svcs /\ key = file.key
=============================================================================
