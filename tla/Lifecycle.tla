---------------------------- MODULE Lifecycle ----------------------------
(***************************************************************************)
(* The process: cmd/loxbak/main.go, db.Open with the schema's migrations,  *)
(* and the shutdown, over a database that outlives it.                     *)
(*                                                                         *)
(* proc is where run() is:                                                 *)
(*                                                                         *)
(*    down      there is no process                                        *)
(*    migrate   RunMigrations, about to make the statement `next`          *)
(*    secret    ensureSessionSecret                                        *)
(*    load      Reload and Start the scheduler                             *)
(*    serve     waiting for a signal: the API answers, cron starts runs    *)
(*    stop      Scheduler.Stop: cron has stopped, the API still answers    *)
(*    drain     Server.Shutdown: waiting for requests in flight            *)
(*                                                                         *)
(* sql.Exec makes the statements of a migration one by one, each in a      *)
(* transaction of its own, and the version is recorded by another.         *)
(*                                                                         *)
(* Operators named X_Y are faulty variants of X: what the properties are   *)
(* there to notice.                                                        *)
(***************************************************************************)
EXTENDS Integers, Sequences

CONSTANTS
    Dests,       \* the destinations an older database holds
    Links,       \* the schedules' links to them
    Runs,        \* each started at most once, by cron or by hand
    Requests,    \* HTTP requests, each made at most once
    MaxStarts,   \* how often the process is started
    MaxCrashes   \* how often it dies on its own

ASSUME LifeBoundsAssumption == MaxStarts \in Nat /\ MaxCrashes \in Nat

VARIABLES
    db,          \* the database: what the migrations change
    secret,      \* settings: the session secret, 0 if there is none
    proc, next,
    fk,          \* the connection's foreign_keys
    sessionKey,  \* the secret this process signs with
    runs,        \* who started each run, and what became of it
    requests,    \* the requests in flight
    late,        \* the ten seconds of the shutdown are over
    starts, crashes,
    cut          \* the process has died before the migrations were over

process == <<proc, next, fk, sessionKey, late>>
bounds == <<starts, crashes, cut>>
lifeVars == <<db, secret, process, runs, requests, bounds>>

-----------------------------------------------------------------------------
(* internal/db/migrations: the numbered files, a statement at a time.  0001's *)
(* CREATE TABLE IF NOT EXISTS statements change nothing the second time.       *)

Migrations == << <<"init">>,
                 <<"off", "create", "copy", "drop", "rename", "on">>,
                 <<"add">> >>
Latest == Len(Migrations)

\* A table is the singleton of its set of rows, so that none is {}.
Table(rows) == {rows}
NoTable == {}
Rows(table) == UNION table
Tables == {NoTable} \cup {Table(rows) : rows \in SUBSET Dests}
Db == [version : 0..Latest,      \* settings: schema_version
       destinations : Tables, destinations_new : Tables,
       open : BOOLEAN,           \* destinations.type is without its CHECK
       links : SUBSET Links,
       filename : BOOLEAN]       \* runs has the column

Fresh == [version |-> 0, destinations |-> NoTable, destinations_new |-> NoTable,
          open |-> FALSE, links |-> {}, filename |-> FALSE]
\* What a release with v migrations left; the first recorded no version.
Release(v, recorded) ==
    [version |-> IF recorded THEN v ELSE 0, destinations |-> Table(Dests),
     destinations_new |-> NoTable, open |-> v >= 2, links |-> Links, filename |-> v >= 3]

Applies(st) ==
    CASE st = "create" -> db.destinations_new = NoTable
      [] st = "copy" -> db.destinations # NoTable /\ db.destinations_new # NoTable
      [] st = "drop" -> db.destinations # NoTable
      [] st = "rename" -> db.destinations = NoTable /\ db.destinations_new # NoTable
      [] st = "add" -> ~db.filename
      [] OTHER -> TRUE

\* DROP TABLE deletes the rows first, and with foreign keys on that cascades.
Effect(st) ==
    CASE st = "init" -> IF db.destinations = NoTable
                        THEN [db EXCEPT !.destinations = Table({})] ELSE db
      [] st = "create" -> [db EXCEPT !.destinations_new = Table({})]
      [] st = "copy" -> [db EXCEPT !.destinations_new = Table(Rows(@) \cup Rows(db.destinations))]
      [] st = "drop" -> [db EXCEPT !.destinations = NoTable,
                                   !.links = IF fk THEN {} ELSE @]
      [] st = "rename" -> [db EXCEPT !.destinations = db.destinations_new,
                                     !.destinations_new = NoTable, !.open = TRUE]
      [] st = "add" -> [db EXCEPT !.filename = TRUE]
      [] OTHER -> db

Pragma_KeptOn(st) == fk
Pragma_LeftOff(st) == IF st = "off" THEN FALSE ELSE fk
Pragma(st) == IF st = "off" THEN FALSE ELSE IF st = "on" THEN TRUE ELSE fk

LifeInit ==
    /\ db \in {Fresh, Release(1, FALSE)} \cup {Release(v, TRUE) : v \in 1..Latest}
    /\ secret = 0
    /\ proc = "down" /\ next = [version |-> 1, at |-> 1] /\ fk = TRUE /\ sessionKey = 0
    /\ runs = [r \in Runs |-> "none"]
    /\ requests = {}
    /\ late = FALSE
    /\ starts = 0 /\ crashes = 0 /\ cut = FALSE

-----------------------------------------------------------------------------
(* Starting. *)

\* db.Open: foreign keys on, then RunMigrations reads the version.
Start ==
    /\ proc = "down" /\ starts < MaxStarts
    /\ starts' = starts + 1
    /\ proc' = "migrate" /\ fk' = TRUE
    /\ next' = [version |-> db.version + 1, at |-> 1]
    /\ UNCHANGED <<db, secret, sessionKey, runs, requests, late, crashes, cut>>

\* The process is gone, and with it what it was doing: its runs' rows stay.
Exit ==
    /\ proc' = "down" /\ next' = [version |-> 1, at |-> 1]
    /\ fk' = TRUE /\ sessionKey' = 0 /\ late' = FALSE
    /\ runs' = [r \in Runs |-> IF runs[r] \in {"cron", "manual"} THEN "killed" ELSE runs[r]]
    /\ requests' = {}

Statement == Migrations[next.version][next.at]
Pending == proc = "migrate" /\ next.version <= Latest /\ next.at <= Len(Migrations[next.version])

Apply ==
    /\ Pending /\ Applies(Statement)
    /\ db' = Effect(Statement)
    /\ fk' = Pragma(Statement)
    /\ next' = [next EXCEPT !.at = @ + 1]
    /\ UNCHANGED <<secret, proc, sessionKey, late, runs, requests, bounds>>

\* A statement that cannot be made ends the process.
ApplyFails ==
    /\ Pending /\ ~Applies(Statement)
    /\ Exit
    /\ UNCHANGED <<db, secret, bounds>>

RecordVersion_Forgotten ==
    /\ proc = "migrate" /\ next.version <= Latest /\ next.at > Len(Migrations[next.version])
    /\ next' = [version |-> next.version + 1, at |-> 1]
    /\ UNCHANGED <<db, secret, proc, fk, sessionKey, late, runs, requests, bounds>>

\* SetSetting(schema_version), and on to the next file.
RecordVersion ==
    /\ proc = "migrate" /\ next.version <= Latest /\ next.at > Len(Migrations[next.version])
    /\ db' = [db EXCEPT !.version = next.version]
    /\ next' = [version |-> next.version + 1, at |-> 1]
    /\ UNCHANGED <<secret, proc, fk, sessionKey, late, runs, requests, bounds>>

Migrated ==
    /\ proc = "migrate" /\ next.version > Latest
    /\ proc' = "secret"
    /\ UNCHANGED <<db, secret, next, fk, sessionKey, late, runs, requests, bounds>>

EnsureSessionSecret_Renewed ==
    /\ proc = "secret"
    /\ secret' = starts /\ sessionKey' = secret'
    /\ proc' = "load"
    /\ UNCHANGED <<db, next, fk, late, runs, requests, bounds>>

\* Generated once (a generated secret is named by the start that made it).
EnsureSessionSecret ==
    /\ proc = "secret"
    /\ secret' = IF secret = 0 THEN starts ELSE secret
    /\ sessionKey' = secret'
    /\ proc' = "load"
    /\ UNCHANGED <<db, next, fk, late, runs, requests, bounds>>

LoadSchedules ==
    /\ proc = "load"
    /\ proc' = "serve"
    /\ UNCHANGED <<db, secret, next, fk, sessionKey, late, runs, requests, bounds>>

-----------------------------------------------------------------------------
(* Serving. *)

CronRuns == {r \in Runs : runs[r] = "cron"}

CronFires(r) ==
    /\ proc = "serve" /\ runs[r] = "none"
    /\ runs' = [runs EXCEPT ![r] = "cron"]
    /\ UNCHANGED <<db, secret, process, requests, bounds>>

\* TriggerRun: the request is answered at once, the goroutine goes on by itself.
TriggerRun(r) ==
    /\ proc \in {"serve", "stop"} /\ runs[r] = "none"
    /\ runs' = [runs EXCEPT ![r] = "manual"]
    /\ UNCHANGED <<db, secret, process, requests, bounds>>

RunEnds(r) ==
    /\ runs[r] \in {"cron", "manual"}
    /\ runs' = [runs EXCEPT ![r] = "ended"]
    /\ UNCHANGED <<db, secret, process, requests, bounds>>

Arrive(q) ==
    /\ proc \in {"serve", "stop"} /\ q \notin requests
    /\ requests' = requests \cup {q}
    /\ UNCHANGED <<db, secret, process, runs, bounds>>

Answer(q) ==
    /\ q \in requests
    /\ requests' = requests \ {q}
    /\ UNCHANGED <<db, secret, process, runs, bounds>>

-----------------------------------------------------------------------------
(* Stopping. *)

\* SIGINT or SIGTERM; one that comes before they are caught kills (Crash).
Signal ==
    /\ proc = "serve"
    /\ proc' = "stop"
    /\ UNCHANGED <<db, secret, next, fk, sessionKey, late, runs, requests, bounds>>

\* Both waits share one context of ten seconds.
TimeUp ==
    /\ proc \in {"stop", "drain"} /\ ~late
    /\ late' = TRUE
    /\ UNCHANGED <<db, secret, proc, next, fk, sessionKey, runs, requests, bounds>>

SchedulerStopped_NoWait ==
    /\ proc = "stop"
    /\ proc' = "drain"
    /\ UNCHANGED <<db, secret, next, fk, sessionKey, late, runs, requests, bounds>>

\* cron's Stop waits for the runs cron started, not for those begun by hand.
SchedulerStopped ==
    /\ proc = "stop" /\ (CronRuns = {} \/ late)
    /\ proc' = "drain"
    /\ UNCHANGED <<db, secret, next, fk, sessionKey, late, runs, requests, bounds>>

\* The listener is closed: no request arrives any more.
ServerStopped_Forever == proc = "drain" /\ requests = {} /\ Exit /\ UNCHANGED <<db, secret, bounds>>

ServerStopped ==
    /\ proc = "drain" /\ (requests = {} \/ late)
    /\ Exit
    /\ UNCHANGED <<db, secret, bounds>>

\* Killed, or ListenAndServe fails: nothing is waited for.
Crash ==
    /\ proc # "down" /\ crashes < MaxCrashes
    /\ crashes' = crashes + 1 /\ cut' = (cut \/ proc = "migrate")
    /\ Exit
    /\ UNCHANGED <<db, secret, starts>>

-----------------------------------------------------------------------------
Startup == Apply \/ ApplyFails \/ RecordVersion \/ Migrated \/ EnsureSessionSecret \/ LoadSchedules
Shutdown == TimeUp \/ SchedulerStopped \/ ServerStopped

LifeStep ==
    \/ Start \/ Startup \/ Signal \/ Shutdown \/ Crash
    \/ \E r \in Runs : CronFires(r) \/ TriggerRun(r) \/ RunEnds(r)

LifeNext == LifeStep \/ \E q \in Requests : Arrive(q) \/ Answer(q)

LifeSpec == LifeInit /\ [][LifeNext]_lifeVars

-----------------------------------------------------------------------------
(* Properties. *)

LifeTypeOK ==
    /\ db \in Db
    /\ secret \in 0..MaxStarts /\ sessionKey \in 0..MaxStarts
    /\ proc \in {"down", "migrate", "secret", "load", "serve", "stop", "drain"}
    /\ next \in [version : 1..Latest + 1, at : 1..7]
    /\ next.version <= Latest => next.at <= Len(Migrations[next.version]) + 1
    /\ fk \in BOOLEAN /\ late \in BOOLEAN
    /\ runs \in [Runs -> {"none", "cron", "manual", "ended", "killed"}]
    /\ requests \subseteq Requests
    /\ starts \in 0..MaxStarts /\ crashes \in 0..MaxCrashes /\ cut \in BOOLEAN

\* Whatever statement the process dies after, every destination is in one of the
\* two tables, and no schedule has lost a link (0002: foreign_keys = OFF around
\* the DROP).
Held(d) == d \in Rows(db.destinations) \cup Rows(db.destinations_new)
NothingLost ==
    [][/\ \A d \in Dests : Held(d) => Held(d)'
       /\ db.links \subseteq db'.links]_lifeVars

\* The API answers only over a schema that has every migration, with its version
\* recorded, every row back in place and foreign keys enforced.
Answering == proc \in {"serve", "stop", "drain"}
ServesMigrated ==
    Answering =>
        /\ db.version = Latest /\ db.open /\ db.filename
        /\ db.destinations # NoTable /\ db.destinations_new = NoTable
        /\ fk

\* A shutdown ends a run of cron's or a request unfinished only when the ten
\* seconds are over: no such run starts once it has stopped waiting for them.
ShutdownPatient ==
    [][ServerStopped /\ ~late => CronRuns = {} /\ requests = {}]_lifeVars

\* A signal ends the process, whatever hangs (main.go, shutdownCtx).
SignalEnds == proc = "stop" ~> proc = "down"

\* A start comes through the migrations unless an earlier one was killed amid
\* them: no migration is made a second time (migrations.go, the version gate).
MigratesOnce == [][ApplyFails => cut]_lifeVars
=============================================================================
