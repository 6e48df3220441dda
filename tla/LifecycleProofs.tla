-------------------------- MODULE LifecycleProofs --------------------------
(***************************************************************************)
(* Theorems about Lifecycle: what every start, crash and shutdown leaves,  *)
(* for any destinations, links, runs, requests, starts and crashes.        *)
(***************************************************************************)
EXTENDS Lifecycle, TLAPS

-----------------------------------------------------------------------------
(* Which statement is next. *)

At(v, k) == next.version = v /\ next.at = k

LEMMA Lengths ==
    /\ Latest = 3
    /\ Len(Migrations[1]) = 1 /\ Len(Migrations[2]) = 6 /\ Len(Migrations[3]) = 1
  BY DEF Latest, Migrations

LEMMA Statements ==
    ASSUME LifeTypeOK, Pending
    PROVE  /\ proc = "migrate"
           /\ \/ At(1, 1) /\ Statement = "init"
              \/ At(2, 1) /\ Statement = "off"
              \/ At(2, 2) /\ Statement = "create"
              \/ At(2, 3) /\ Statement = "copy"
              \/ At(2, 4) /\ Statement = "drop"
              \/ At(2, 5) /\ Statement = "rename"
              \/ At(2, 6) /\ Statement = "on"
              \/ At(3, 1) /\ Statement = "add"
  <1>1. next.version \in 1..3 /\ next.at \in 1..7 /\ proc = "migrate"
    BY Lengths DEF LifeTypeOK, Pending
  <1>2. CASE next.version = 1
    <2>1. next.at = 1  BY <1>1, <1>2, Lengths DEF Pending
    <2>2. Migrations[1][1] = "init"  BY DEF Migrations
    <2> QED  BY <1>1, <1>2, <2>1, <2>2 DEF At, Statement
  <1>3. CASE next.version = 2
    <2>1. next.at \in 1..6  BY <1>1, <1>3, Lengths DEF Pending
    <2>2. /\ Migrations[2][1] = "off" /\ Migrations[2][2] = "create"
          /\ Migrations[2][3] = "copy" /\ Migrations[2][4] = "drop"
          /\ Migrations[2][5] = "rename" /\ Migrations[2][6] = "on"
      BY DEF Migrations
    <2> QED  BY <1>1, <1>3, <2>1, <2>2 DEF At, Statement
  <1>4. CASE next.version = 3
    <2>1. next.at = 1  BY <1>1, <1>4, Lengths DEF Pending
    <2>2. Migrations[3][1] = "add"  BY DEF Migrations
    <2> QED  BY <1>1, <1>4, <2>1, <2>2 DEF At, Statement
  <1> QED  BY <1>1, <1>2, <1>3, <1>4

\* A version is recorded after the last statement of its file.
LEMMA Recorded ==
    ASSUME LifeTypeOK, RecordVersion
    PROVE  At(1, 2) \/ At(2, 7) \/ At(3, 2)
  <1>1. next.version \in 1..3 /\ next.at \in 1..7  BY Lengths DEF LifeTypeOK, RecordVersion
  <1>2. next.at = Len(Migrations[next.version]) + 1
    <2>1. Len(Migrations[next.version]) \in Nat  BY <1>1, Lengths
    <2> QED  BY <1>1, <2>1, Lengths DEF LifeTypeOK, RecordVersion
  <1>3. CASE next.version = 1  BY <1>2, <1>3, Lengths DEF At
  <1>4. CASE next.version = 2  BY <1>2, <1>4, Lengths DEF At
  <1>5. CASE next.version = 3  BY <1>2, <1>5, Lengths DEF At
  <1> QED  BY <1>1, <1>3, <1>4, <1>5

-----------------------------------------------------------------------------
(* Types. *)

LEMMA TablesHold ==
    /\ NoTable \in Tables
    /\ \A rows \in SUBSET Dests : Table(rows) \in Tables /\ Rows(Table(rows)) = rows
    /\ Rows(NoTable) = {}
    /\ \A t \in Tables : Rows(t) \in SUBSET Dests
  BY DEF Tables, Table, NoTable, Rows

LEMMA ReleaseType == \A v \in 1..3 : Release(v, TRUE) \in Db /\ Release(v, FALSE) \in Db
  BY TablesHold, Lengths DEF Release, Db

LEMMA FreshType == Fresh \in Db
  BY TablesHold, Lengths DEF Fresh, Db

LEMMA LifeInitType == LifeInit => LifeTypeOK
  <1> SUFFICES ASSUME LifeInit PROVE LifeTypeOK  OBVIOUS
  <1>1. db = Fresh \/ db = Release(1, FALSE) \/ \E v \in 1..3 : db = Release(v, TRUE)
    BY Lengths DEF LifeInit
  <1>2. db \in Db
    <2>1. CASE db = Fresh  BY <2>1, FreshType
    <2>2. CASE db = Release(1, FALSE)
      <3>1. 1 \in 1..3  OBVIOUS
      <3>2. Release(1, FALSE) \in Db  BY <3>1, ReleaseType
      <3> QED  BY <2>2, <3>2
    <2>3. CASE \E v \in 1..3 : db = Release(v, TRUE)  BY <2>3, ReleaseType
    <2> QED  BY <1>1, <2>1, <2>2, <2>3
  <1>3. next \in [version : 1..Latest + 1, at : 1..7] /\ next.version = 1 /\ next.at = 1
    BY Lengths DEF LifeInit
  <1>4. next.version <= Latest => next.at <= Len(Migrations[next.version]) + 1
    BY <1>3, Lengths
  <1>5. secret \in 0..MaxStarts /\ sessionKey \in 0..MaxStarts
        /\ starts \in 0..MaxStarts /\ crashes \in 0..MaxCrashes
    BY LifeBoundsAssumption DEF LifeInit
  <1>6. runs \in [Runs -> {"none", "cron", "manual", "ended", "killed"}]
    BY DEF LifeInit
  <1>7. fk \in BOOLEAN /\ late \in BOOLEAN /\ cut \in BOOLEAN
    BY Zenon DEF LifeInit
  <1>8. proc = "down" /\ requests = {}  BY DEF LifeInit
  <1> QED  BY <1>2, <1>3, <1>4, <1>5, <1>6, <1>7, <1>8 DEF LifeTypeOK

LEMMA EffectType ==
    ASSUME LifeTypeOK, Pending
    PROVE  Effect(Statement) \in Db /\ Pragma(Statement) \in BOOLEAN
  <1> USE DEF At
  <1>1. db \in Db /\ fk \in BOOLEAN  BY DEF LifeTypeOK
  <1>2. Pragma(Statement) \in BOOLEAN  BY <1>1 DEF Pragma
  <1>3. db.destinations \in Tables /\ db.destinations_new \in Tables  BY <1>1 DEF Db
  <1>4. CASE Statement = "init"
    <2>1. Effect(Statement) = IF db.destinations = NoTable
                              THEN [db EXCEPT !.destinations = Table({})] ELSE db
      BY <1>4 DEF Effect
    <2> QED  BY <1>1, <1>2, <2>1, TablesHold DEF Db
  <1>5. CASE Statement = "create"
    <2>1. Effect(Statement) = [db EXCEPT !.destinations_new = Table({})]  BY <1>5 DEF Effect
    <2> QED  BY <1>1, <1>2, <2>1, TablesHold DEF Db
  <1>6. CASE Statement = "copy"
    <2> DEFINE both == Rows(db.destinations_new) \cup Rows(db.destinations)
    <2>1. Effect(Statement) = [db EXCEPT !.destinations_new = Table(both)]  BY <1>6, <1>1 DEF Effect, Db
    <2>2. Table(both) \in Tables  BY <1>3, TablesHold
    <2> HIDE DEF both
    <2> QED  BY <1>1, <1>2, <2>1, <2>2 DEF Db
  <1>7. CASE Statement = "drop"
    <2>1. Effect(Statement) = [db EXCEPT !.destinations = NoTable,
                                         !.links = IF fk THEN {} ELSE @]
      BY <1>7 DEF Effect
    <2> QED  BY <1>1, <1>2, <2>1, TablesHold DEF Db
  <1>8. CASE Statement = "rename"
    <2>1. Effect(Statement) = [db EXCEPT !.destinations = db.destinations_new,
                                         !.destinations_new = NoTable, !.open = TRUE]
      BY <1>8 DEF Effect
    <2> QED  BY <1>1, <1>2, <1>3, <2>1, TablesHold DEF Db
  <1>9. CASE Statement = "add"
    <2>1. Effect(Statement) = [db EXCEPT !.filename = TRUE]  BY <1>9 DEF Effect
    <2> QED  BY <1>1, <1>2, <2>1 DEF Db
  <1>10. CASE Statement \in {"off", "on"}
    <2>1. Effect(Statement) = db  BY <1>10 DEF Effect
    <2> QED  BY <1>1, <1>2, <2>1
  <1> QED  BY <1>4, <1>5, <1>6, <1>7, <1>8, <1>9, <1>10, Statements

\* The process is gone: its own state is as before its start.
LEMMA ExitTypes ==
    ASSUME LifeTypeOK, Exit, UNCHANGED <<db, secret>>,
           starts' \in 0..MaxStarts, crashes' \in 0..MaxCrashes, cut' \in BOOLEAN
    PROVE  LifeTypeOK'
  <1>1. next' \in [version : 1..Latest + 1, at : 1..7] /\ next'.version = 1 /\ next'.at = 1
    BY Lengths DEF Exit
  <1>2. next'.version <= Latest => next'.at <= Len(Migrations[next'.version]) + 1
    BY <1>1, Lengths
  <1>3. runs' \in [Runs -> {"none", "cron", "manual", "ended", "killed"}]
    BY DEF Exit, LifeTypeOK
  <1>4. fk' \in BOOLEAN /\ late' \in BOOLEAN  BY Zenon DEF Exit
  <1>5. secret' \in 0..MaxStarts /\ sessionKey' \in 0..MaxStarts
    BY LifeBoundsAssumption DEF Exit, LifeTypeOK
  <1>6. proc' = "down" /\ requests' = {}  BY DEF Exit
  <1>7. db' \in Db  BY DEF LifeTypeOK
  <1> QED  BY <1>1, <1>2, <1>3, <1>4, <1>5, <1>6, <1>7 DEF LifeTypeOK

LEMMA StartTypes == LifeTypeOK /\ Start => LifeTypeOK'
  <1> SUFFICES ASSUME LifeTypeOK, Start PROVE LifeTypeOK'  OBVIOUS
  <1>1. db.version \in 0..3  BY Lengths DEF LifeTypeOK, Db
  <1>2. next' \in [version : 1..Latest + 1, at : 1..7] /\ next'.at = 1
    BY <1>1, Lengths DEF Start
  <1>3. next'.version <= Latest => next'.at <= Len(Migrations[next'.version]) + 1
    <2>1. next'.version \in 1..4  BY <1>2, Lengths
    <2>2. next'.version <= Latest => Len(Migrations[next'.version]) \in Nat  BY <2>1, Lengths
    <2> QED  BY <1>2, <2>1, <2>2, Lengths
  <1>4. fk' \in BOOLEAN  BY Zenon DEF Start
  <1>5. starts' \in 0..MaxStarts  BY LifeBoundsAssumption DEF Start, LifeTypeOK
  <1> QED  BY <1>2, <1>3, <1>4, <1>5 DEF LifeTypeOK, Start

LEMMA ApplyTypes == LifeTypeOK /\ Apply => LifeTypeOK'
  <1> SUFFICES ASSUME LifeTypeOK, Apply PROVE LifeTypeOK'  OBVIOUS
  <1>1. Pending /\ Effect(Statement) \in Db /\ Pragma(Statement) \in BOOLEAN
    BY EffectType DEF Apply
  <1>2. db' \in Db /\ fk' \in BOOLEAN  BY <1>1, Zenon DEF Apply
  <1>3. next.version \in 1..3 /\ next.at \in 1..7  BY Lengths, <1>1 DEF LifeTypeOK, Pending
  <1>4. Len(Migrations[next.version]) \in 1..6  BY <1>3, Lengths
  <1>5. next' = [next EXCEPT !.at = @ + 1]  BY DEF Apply
  <1>6. next' \in [version : 1..Latest + 1, at : 1..7] /\ next'.version = next.version
        /\ next'.at = next.at + 1
    <2>1. next.at <= Len(Migrations[next.version])  BY <1>1 DEF Pending
    <2>2. next.at \in 1..6
      <3> DEFINE n == Len(Migrations[next.version])
      <3>1. n \in 1..6 /\ next.at <= n /\ next.at \in 1..7  BY <1>3, <1>4, <2>1
      <3> HIDE DEF n
      <3> QED  BY <3>1
    <2>3. next \in [version : 1..Latest + 1, at : 1..7]  BY DEF LifeTypeOK
    <2> QED  BY <2>2, <2>3, <1>5
  <1>7. next'.at <= Len(Migrations[next'.version]) + 1
    BY <1>1, <1>3, <1>4, <1>6 DEF Pending
  <1> QED  BY <1>2, <1>6, <1>7 DEF Apply, LifeTypeOK, bounds

LEMMA RecordTypes == LifeTypeOK /\ RecordVersion => LifeTypeOK'
  <1> SUFFICES ASSUME LifeTypeOK, RecordVersion PROVE LifeTypeOK'  OBVIOUS
  <1>1. next.version \in 1..3 /\ next.at \in 1..7  BY Lengths DEF LifeTypeOK, RecordVersion
  <1>2. db' \in Db
    <2>1. db' = [db EXCEPT !.version = next.version] /\ db \in Db
      BY DEF RecordVersion, LifeTypeOK
    <2> QED  BY <1>1, <2>1, Lengths DEF Db
  <1>3. next' \in [version : 1..Latest + 1, at : 1..7] /\ next'.at = 1
        /\ next'.version = next.version + 1
    BY <1>1, Lengths DEF RecordVersion
  <1>4. next'.version <= Latest => next'.at <= Len(Migrations[next'.version]) + 1
    <2>1. next'.version <= Latest => Len(Migrations[next'.version]) \in Nat
      BY <1>1, <1>3, Lengths
    <2> QED  BY <1>3, <2>1, Lengths
  <1> QED  BY <1>2, <1>3, <1>4 DEF RecordVersion, LifeTypeOK, bounds

\* Everything else leaves the database and the place in the migrations alone.
LEMMA OtherTypes ==
    ASSUME LifeTypeOK,
           \/ Migrated \/ EnsureSessionSecret \/ LoadSchedules \/ Signal \/ TimeUp
           \/ SchedulerStopped
           \/ \E r \in Runs : CronFires(r) \/ TriggerRun(r) \/ RunEnds(r)
           \/ \E q \in Requests : Arrive(q) \/ Answer(q)
    PROVE  LifeTypeOK'
  <1> USE DEF bounds, process
  <1>1. UNCHANGED <<db, next, fk>>
    BY Zenon DEF Migrated, EnsureSessionSecret, LoadSchedules, Signal, TimeUp,
                 SchedulerStopped, CronFires, TriggerRun, RunEnds, Arrive, Answer
  <1>2. /\ next' \in [version : 1..Latest + 1, at : 1..7]
        /\ next'.version <= Latest => next'.at <= Len(Migrations[next'.version]) + 1
        /\ fk' \in BOOLEAN /\ db' \in Db
    BY <1>1 DEF LifeTypeOK
  <1>3. UNCHANGED <<starts, crashes, cut>>
    BY Zenon DEF Migrated, EnsureSessionSecret, LoadSchedules, Signal, TimeUp,
                 SchedulerStopped, CronFires, TriggerRun, RunEnds, Arrive, Answer
  <1>4. starts' \in 0..MaxStarts /\ crashes' \in 0..MaxCrashes /\ cut' \in BOOLEAN
    BY <1>3 DEF LifeTypeOK
  <1> SUFFICES /\ secret' \in 0..MaxStarts /\ sessionKey' \in 0..MaxStarts
               /\ proc' \in {"down", "migrate", "secret", "load", "serve", "stop", "drain"}
               /\ late' \in BOOLEAN
               /\ runs' \in [Runs -> {"none", "cron", "manual", "ended", "killed"}]
               /\ requests' \subseteq Requests
    BY <1>2, <1>4 DEF LifeTypeOK
  <1>5. CASE Migrated \/ LoadSchedules \/ Signal \/ SchedulerStopped
    BY <1>5 DEF Migrated, LoadSchedules, Signal, SchedulerStopped, LifeTypeOK
  <1>6. CASE EnsureSessionSecret
    BY <1>6 DEF EnsureSessionSecret, LifeTypeOK
  <1>7. CASE TimeUp
    <2>1. late' = TRUE /\ UNCHANGED <<secret, sessionKey, proc, runs, requests>>
      BY <1>7 DEF TimeUp
    <2> QED  BY <2>1 DEF LifeTypeOK
  <1>8. CASE \E r \in Runs : CronFires(r) \/ TriggerRun(r) \/ RunEnds(r)
    <2> PICK r \in Runs : CronFires(r) \/ TriggerRun(r) \/ RunEnds(r)  BY <1>8
    <2>1. \E s \in {"cron", "manual", "ended"} : runs' = [runs EXCEPT ![r] = s]
      BY DEF CronFires, TriggerRun, RunEnds
    <2>2. UNCHANGED <<secret, sessionKey, proc, late, requests>>
      BY DEF CronFires, TriggerRun, RunEnds
    <2> QED  BY <2>1, <2>2 DEF LifeTypeOK
  <1>9. CASE \E q \in Requests : Arrive(q) \/ Answer(q)
    BY <1>9 DEF Arrive, Answer, LifeTypeOK
  <1> QED  BY <1>5, <1>6, <1>7, <1>8, <1>9

\* The kinds of step a process takes.
Ends == ApplyFails \/ ServerStopped \/ Crash
Others ==
    \/ Migrated \/ EnsureSessionSecret \/ LoadSchedules \/ Signal \/ TimeUp
    \/ SchedulerStopped
    \/ \E r \in Runs : CronFires(r) \/ TriggerRun(r) \/ RunEnds(r)
    \/ \E q \in Requests : Arrive(q) \/ Answer(q)

LEMMA LifeCases == LifeNext => Start \/ Apply \/ RecordVersion \/ Ends \/ Others
  BY Zenon DEF LifeNext, LifeStep, Startup, Shutdown, Ends, Others

LEMMA EndTypes == LifeTypeOK /\ Ends => LifeTypeOK'
  <1> SUFFICES ASSUME LifeTypeOK, Ends PROVE LifeTypeOK'  OBVIOUS
  <1>1. Exit /\ UNCHANGED <<db, secret>>
    BY Zenon DEF Ends, ApplyFails, ServerStopped, Crash
  <1>2. starts' = starts /\ (crashes' = crashes \/ (crashes < MaxCrashes /\ crashes' = crashes + 1))
    BY Zenon DEF Ends, ApplyFails, ServerStopped, Crash, bounds
  <1>3. cut' \in BOOLEAN
    BY Zenon DEF Ends, ApplyFails, ServerStopped, Crash, bounds, LifeTypeOK
  <1>4. starts' \in 0..MaxStarts /\ crashes' \in 0..MaxCrashes
    BY <1>2, LifeBoundsAssumption DEF LifeTypeOK
  <1> QED  BY <1>1, <1>3, <1>4, ExitTypes

LEMMA LifeStepTypes == LifeTypeOK /\ [LifeNext]_lifeVars => LifeTypeOK'
  <1> SUFFICES ASSUME LifeTypeOK, [LifeNext]_lifeVars PROVE LifeTypeOK'  OBVIOUS
  <1>1. CASE LifeNext
    BY <1>1, LifeCases, StartTypes, ApplyTypes, RecordTypes, EndTypes, OtherTypes DEF Others
  <1>2. CASE UNCHANGED lifeVars
    BY <1>2 DEF lifeVars, process, bounds, LifeTypeOK
  <1> QED  BY <1>1, <1>2

\* The types of the database and of every process, whatever dies when.
THEOREM LifeTypeCorrect == LifeSpec => []LifeTypeOK
  <1> QED  BY LifeInitType, LifeStepTypes, PTL DEF LifeSpec

-----------------------------------------------------------------------------
(* What each statement makes of the tables. *)

Old == db.destinations
New == db.destinations_new
Moved == db.open /\ Old # NoTable /\ New = NoTable

LEMMA Made ==
    ASSUME LifeTypeOK, Apply
    PROVE  /\ proc = "migrate" /\ proc' = "migrate" /\ cut' = cut
           /\ next'.version = next.version /\ next'.at = next.at + 1
           /\ db'.version = db.version
           /\ \/ At(1, 1) /\ New' = New /\ Old' # NoTable /\ Rows(Old') = Rows(Old)
                 /\ (db.open <=> db'.open) /\ db'.links = db.links
                 /\ (db.filename <=> db'.filename)
                 /\ (Old # NoTable => Old' = Old)
              \/ (At(2, 1) \/ At(2, 6)) /\ db' = db
              \/ At(2, 2) /\ New = NoTable /\ New' # NoTable /\ Rows(New') = {} /\ Old' = Old
                 /\ db'.links = db.links /\ (db.filename <=> db'.filename)
              \/ At(2, 3) /\ New # NoTable /\ New' # NoTable /\ Old # NoTable /\ Old' = Old
                 /\ Rows(New') = Rows(New) \cup Rows(Old)
                 /\ db'.links = db.links /\ (db.filename <=> db'.filename)
              \/ At(2, 4) /\ Old' = NoTable /\ New' = New
                 /\ db'.links = (IF fk THEN {} ELSE db.links)
                 /\ (db.filename <=> db'.filename)
              \/ At(2, 5) /\ Old = NoTable /\ New # NoTable /\ Old' = New /\ Moved'
                 /\ db'.links = db.links /\ (db.filename <=> db'.filename)
              \/ At(3, 1) /\ Old' = Old /\ New' = New /\ (db.open <=> db'.open)
                 /\ db'.links = db.links /\ db'.filename
  <1> USE DEF Old, New
  <1>1. /\ Pending /\ Applies(Statement) /\ db' = Effect(Statement)
        /\ next' = [next EXCEPT !.at = @ + 1] /\ UNCHANGED <<proc, cut>>
    BY DEF Apply, bounds
  <1>2. db \in Db /\ next \in [version : 1..Latest + 1, at : 1..7]
    BY DEF LifeTypeOK
  <1>3. next'.version = next.version /\ next'.at = next.at + 1
    BY <1>1, <1>2
  <1>4. proc = "migrate" /\ proc' = "migrate"
    BY <1>1, Statements
  <1>5. Old \in Tables /\ New \in Tables
    BY <1>2 DEF Db
  <1> HIDE DEF Old, New
  <1> USE DEF Db
  <1>6. CASE At(1, 1) /\ Statement = "init"
    <2>1. db' = IF Old = NoTable THEN [db EXCEPT !.destinations = Table({})] ELSE db
      BY <1>1, <1>6 DEF Effect, Old
    <2>2. CASE Old = NoTable
      <3>1. db' = [db EXCEPT !.destinations = Table({})]  BY <2>1, <2>2
      <3>2. Old' = Table({}) /\ New' = New /\ db'.version = db.version
            /\ (db.open <=> db'.open) /\ db'.links = db.links /\ (db.filename <=> db'.filename)
        BY <1>2, <3>1 DEF Old, New
      <3>3. Table({}) # NoTable /\ Rows(Table({})) = Rows(NoTable)
        BY TablesHold DEF Table, NoTable
      <3> QED  BY <1>1, <1>3, <1>4, <1>6, <2>2, <3>2, <3>3
    <2>3. CASE Old # NoTable
      <3>1. db' = db  BY <2>1, <2>3
      <3> QED  BY <1>1, <1>3, <1>4, <1>6, <2>3, <3>1 DEF Old, New
    <2> QED  BY <2>2, <2>3
  <1>7. CASE (At(2, 1) \/ At(2, 6)) /\ Statement \in {"off", "on"}
    <2>1. db' = db  BY <1>1, <1>7 DEF Effect
    <2> QED  BY <1>1, <1>3, <1>4, <1>7, <2>1
  <1>8. CASE At(2, 2) /\ Statement = "create"
    <2>1. db' = [db EXCEPT !.destinations_new = Table({})] /\ New = NoTable
      BY <1>1, <1>8 DEF Effect, Applies, New
    <2>2. Old' = Old /\ New' = Table({}) /\ db'.version = db.version
          /\ db'.links = db.links /\ (db.filename <=> db'.filename)
      BY <1>2, <2>1 DEF Old, New
    <2>3. Table({}) # NoTable /\ Rows(Table({})) = {}
      BY TablesHold DEF Table, NoTable
    <2> QED  BY <1>1, <1>3, <1>4, <1>8, <2>1, <2>2, <2>3
  <1>9. CASE At(2, 3) /\ Statement = "copy"
    <2> DEFINE both == Rows(New) \cup Rows(Old)
    <2>1. db' = [db EXCEPT !.destinations_new = Table(both)] /\ Old # NoTable /\ New # NoTable
      BY <1>1, <1>9 DEF Effect, Applies, Old, New
    <2>2. Table(both) # NoTable /\ Rows(Table(both)) = both
      <3>1. both \in SUBSET Dests  BY <1>5, TablesHold
      <3> QED  BY <3>1, TablesHold DEF Table, NoTable
    <2> HIDE DEF both
    <2>3. Old' = Old /\ New' = Table(both) /\ db'.version = db.version
          /\ db'.links = db.links /\ (db.filename <=> db'.filename)
      BY <1>2, <2>1 DEF Old, New
    <2>4. New' # NoTable /\ Rows(New') = Rows(New) \cup Rows(Old)
      BY <2>2, <2>3 DEF both
    <2> QED  BY <1>1, <1>3, <1>4, <1>9, <2>1, <2>3, <2>4
  <1>10. CASE At(2, 4) /\ Statement = "drop"
    <2>1. db' = [db EXCEPT !.destinations = NoTable, !.links = IF fk THEN {} ELSE @]
      BY <1>1, <1>10 DEF Effect
    <2>2. Old' = NoTable /\ New' = New /\ db'.version = db.version
          /\ (db.filename <=> db'.filename) /\ db'.links = IF fk THEN {} ELSE db.links
      BY <1>2, <2>1 DEF Old, New
    <2> QED  BY <1>1, <1>3, <1>4, <1>10, <2>2
  <1>11. CASE At(2, 5) /\ Statement = "rename"
    <2>1. db' = [db EXCEPT !.destinations = New, !.destinations_new = NoTable, !.open = TRUE]
          /\ Old = NoTable /\ New # NoTable
      BY <1>1, <1>11 DEF Effect, Applies, Old, New
    <2>2. Old' = New /\ New' = NoTable /\ db'.open /\ db'.version = db.version
          /\ db'.links = db.links /\ (db.filename <=> db'.filename)
      BY <1>2, <2>1 DEF Old, New
    <2> QED  BY <1>1, <1>3, <1>4, <1>11, <2>1, <2>2 DEF Moved
  <1>12. CASE At(3, 1) /\ Statement = "add"
    <2>1. db' = [db EXCEPT !.filename = TRUE]
      BY <1>1, <1>12 DEF Effect
    <2>2. Old' = Old /\ New' = New /\ db'.version = db.version /\ (db.open <=> db'.open)
          /\ db'.links = db.links /\ db'.filename
      BY <1>2, <2>1 DEF Old, New
    <2> QED  BY <1>1, <1>3, <1>4, <1>12, <2>2
  <1> QED  BY <1>1, Statements, <1>6, <1>7, <1>8, <1>9, <1>10, <1>11, <1>12

-----------------------------------------------------------------------------
(* Where the process is and what the database then holds, whether or not an    *)
(* earlier process died on the way.                                            *)

Up == {"secret", "load", "serve", "stop", "drain"}
Migrating(v, k) == proc = "migrate" /\ At(v, k)
KeysOff == \E k \in 2..6 : Migrating(2, k)

VersionFits ==
    /\ proc = "migrate" => next.version = db.version + 1
    /\ proc \in Up => db.version = 3
TablesMoved == db.version >= 2 \/ Migrating(2, 6) \/ Migrating(2, 7) => Moved
ColumnAdded == db.version = 3 \/ Migrating(3, 2) => db.filename
RowsCopied == Migrating(2, 4) => Rows(Old) \subseteq Rows(New)
KeysEnforced == IF KeysOff THEN ~fk ELSE fk
SInv ==
    /\ LifeTypeOK
    /\ VersionFits /\ TablesMoved /\ ColumnAdded /\ RowsCopied /\ KeysEnforced

LEMMA ReleaseFits ==
    LifeInit => /\ db.version \in 0..3
                /\ db.version >= 2 => Moved
                /\ db.version = 3 => db.filename
                /\ New = NoTable /\ (db.version >= 1 => Old # NoTable)
                /\ db.version < 3 => ~db.filename
  <1> SUFFICES ASSUME LifeInit
               PROVE  /\ db.version \in 0..3
                      /\ db.version >= 2 => Moved
                      /\ db.version = 3 => db.filename
                      /\ New = NoTable /\ (db.version >= 1 => Old # NoTable)
                      /\ db.version < 3 => ~db.filename
    OBVIOUS
  <1>1. db = Fresh \/ db = Release(1, FALSE) \/ \E v \in 1..3 : db = Release(v, TRUE)
    BY Lengths DEF LifeInit
  <1>2. Table(Dests) # NoTable  BY DEF Table, NoTable
  <1>3. CASE db = Fresh
    BY <1>3 DEF Fresh, Old, New
  <1>4. CASE db = Release(1, FALSE)
    <2>1. db.version = 0 /\ New = NoTable /\ (db.filename <=> 1 >= 3)
      BY <1>4 DEF Release, New
    <2> QED  BY <2>1
  <1>5. CASE \E v \in 1..3 : db = Release(v, TRUE)
    <2>1. PICK v \in 1..3 : db = Release(v, TRUE)  BY <1>5
    <2>2. db.version = v /\ Old = Table(Dests) /\ New = NoTable
          /\ (db.open <=> v >= 2) /\ (db.filename <=> v >= 3)
      BY <2>1 DEF Release, Old, New
    <2> QED  BY <1>2, <2>2 DEF Moved
  <1> QED  BY <1>1, <1>3, <1>4, <1>5

LEMMA InitSInv == LifeInit => SInv
  <1> SUFFICES ASSUME LifeInit PROVE SInv  OBVIOUS
  <1>1. proc = "down"  BY DEF LifeInit
  <1>2. KeysEnforced  BY <1>1, Zenon DEF LifeInit, KeysEnforced, KeysOff, Migrating
  <1>3. LifeTypeOK /\ db.version \in 0..3 /\ (db.version >= 2 => Moved)
        /\ (db.version = 3 => db.filename)
    BY LifeInitType, ReleaseFits
  <1>4. VersionFits  BY <1>1 DEF VersionFits, Up
  <1>5. TablesMoved /\ ColumnAdded /\ RowsCopied
    BY <1>1, <1>3 DEF TablesMoved, ColumnAdded, RowsCopied, Migrating
  <1> QED  BY <1>2, <1>3, <1>4, <1>5 DEF SInv

\* A process that is gone, or is not migrating, constrains the database only.
LEMMA ProcSInv ==
    ASSUME SInv, LifeTypeOK', UNCHANGED db,
           \/ proc' = "down" /\ fk'
           \/ UNCHANGED <<proc, next, fk>>
           \/ proc = "migrate" /\ next.version > 3 /\ proc' \in Up /\ UNCHANGED <<next, fk>>
           \/ proc \in Up /\ proc' \in Up /\ UNCHANGED <<next, fk>>
    PROVE  SInv'
  <1>1. db.version \in 0..3  BY Lengths DEF SInv, LifeTypeOK, Db
  <1>2. VersionFits' /\ \A v \in 2..3, k \in 1..7 : Migrating(v, k)' => Migrating(v, k)
    <2>1. CASE proc' = "down"  BY <2>1 DEF VersionFits, Up, Migrating
    <2>2. CASE UNCHANGED <<proc, next, fk>>
      BY <2>2 DEF SInv, VersionFits, Up, Migrating, At
    <2>3. CASE proc = "migrate" /\ next.version > 3 /\ proc' \in Up /\ UNCHANGED <<next, fk>>
      BY <1>1, <2>3 DEF SInv, VersionFits, Up, Migrating
    <2>4. CASE proc \in Up /\ proc' \in Up /\ UNCHANGED <<next, fk>>
      BY <2>4 DEF SInv, VersionFits, Up, Migrating
    <2> QED  BY <2>1, <2>2, <2>3, <2>4
  <1>3. (TablesMoved /\ ColumnAdded /\ RowsCopied)'
    <2>1. Old' = Old /\ New' = New /\ (Moved => Moved')  BY DEF Old, New, Moved
    <2> QED  BY <1>2, <2>1 DEF SInv, TablesMoved, ColumnAdded, RowsCopied
  <1>4. KeysEnforced'
    <2>1. CASE proc' = "down" /\ fk'  BY <2>1 DEF KeysEnforced, KeysOff, Migrating
    <2>2. CASE UNCHANGED <<proc, next, fk>>
      BY <2>2, Zenon DEF SInv, KeysEnforced, KeysOff, Migrating, At
    <2>3. CASE proc = "migrate" /\ next.version > 3 /\ proc' \in Up /\ UNCHANGED <<next, fk>>
      <3>1. ~KeysOff /\ ~KeysOff'  BY <2>3 DEF KeysOff, Migrating, At, Up
      <3> QED  BY <2>3, <3>1, Zenon DEF SInv, KeysEnforced
    <2>4. CASE proc \in Up /\ proc' \in Up /\ UNCHANGED <<next, fk>>
      <3>1. ~KeysOff /\ ~KeysOff'  BY <2>4 DEF KeysOff, Migrating, Up
      <3> QED  BY <2>4, <3>1, Zenon DEF SInv, KeysEnforced
    <2> QED  BY <2>1, <2>2, <2>3, <2>4
  <1> QED  BY <1>2, <1>3, <1>4 DEF SInv

LEMMA OtherMoves ==
    ASSUME LifeTypeOK, Others \/ Ends \/ UNCHANGED lifeVars
    PROVE  /\ UNCHANGED db
           /\ \/ proc' = "down" /\ fk'
              \/ UNCHANGED <<proc, next, fk>>
              \/ proc = "migrate" /\ next.version > 3 /\ proc' \in Up /\ UNCHANGED <<next, fk>>
              \/ proc \in Up /\ proc' \in Up /\ UNCHANGED <<next, fk>>
  <1> USE DEF bounds, process
  <1>1. CASE UNCHANGED lifeVars  BY <1>1 DEF lifeVars
  <1>2. CASE Ends
    BY <1>2, Zenon DEF Ends, ApplyFails, ServerStopped, Crash, Exit
  <1>3. CASE Migrated
    <2>1. next.version > 3  BY <1>3, Lengths DEF Migrated, LifeTypeOK
    <2> QED  BY <1>3, <2>1 DEF Migrated, Up
  <1>4. CASE EnsureSessionSecret \/ LoadSchedules \/ Signal \/ TimeUp \/ SchedulerStopped
    BY <1>4 DEF EnsureSessionSecret, LoadSchedules, Signal, TimeUp, SchedulerStopped, Up
  <1>5. CASE \E r \in Runs : CronFires(r) \/ TriggerRun(r) \/ RunEnds(r)
    BY <1>5, Zenon DEF CronFires, TriggerRun, RunEnds
  <1>6. CASE \E q \in Requests : Arrive(q) \/ Answer(q)
    BY <1>6, Zenon DEF Arrive, Answer
  <1> QED  BY <1>1, <1>2, <1>3, <1>4, <1>5, <1>6 DEF Others

LEMMA StartSInv == ASSUME SInv, Start PROVE SInv'
  <1>1. LifeTypeOK' /\ db.version \in 0..3
    BY StartTypes, Lengths DEF SInv, LifeTypeOK, Db
  <1>2. proc = "down" /\ proc' = "migrate" /\ db' = db /\ fk'
        /\ next'.version = db.version + 1 /\ next'.at = 1
    BY DEF Start
  <1>3. VersionFits'  BY <1>2 DEF VersionFits, Up
  <1>4. \A v \in 1..3, k \in 2..7 : ~Migrating(v, k)'  BY <1>2 DEF Migrating, At
  <1>5. (TablesMoved /\ ColumnAdded /\ RowsCopied)'
    <2>1. Old' = Old /\ New' = New /\ (Moved => Moved')  BY <1>2 DEF Old, New, Moved
    <2> QED  BY <1>2, <1>4, <2>1 DEF SInv, TablesMoved, ColumnAdded, RowsCopied
  <1>6. KeysEnforced'
    <2>1. ~KeysOff'  BY <1>4 DEF KeysOff
    <2> QED  BY <1>2, <2>1, Zenon DEF KeysEnforced
  <1> QED  BY <1>1, <1>3, <1>5, <1>6 DEF SInv

LEMMA ApplySInv == ASSUME SInv, Apply PROVE SInv'
  <1>1. LifeTypeOK' /\ db.version \in 0..3
    BY ApplyTypes, Lengths DEF SInv, LifeTypeOK, Db
  <1>2. /\ proc = "migrate" /\ proc' = "migrate" /\ db'.version = db.version
        /\ next'.version = next.version /\ next'.at = next.at + 1
        /\ next.version = db.version + 1 /\ next.at \in 1..7
    BY Made, Lengths DEF SInv, VersionFits, LifeTypeOK
  <1>3. VersionFits'  BY <1>2 DEF VersionFits, Up
  <1>4. \A v \in 1..3, k \in 1..7 : Migrating(v, k)' <=> At(v, k - 1)
    BY <1>2 DEF Migrating, At
  <1>5. TablesMoved'
    <2>1. CASE db.version >= 2
      <3>1. Moved /\ next.version >= 3  BY <1>1, <1>2, <2>1 DEF SInv, TablesMoved
      <3>2. Old' = Old /\ New' = New /\ (db.open => db'.open)
        BY <3>1, Made DEF SInv, At
      <3> QED  BY <3>1, <3>2 DEF TablesMoved, Moved
    <2>2. CASE At(2, 5)
      <3>1. Moved'  BY <2>2, Made DEF SInv, At
      <3> QED  BY <3>1 DEF TablesMoved
    <2>3. CASE At(2, 6)
      <3>1. Moved  BY <1>2, <2>3 DEF SInv, TablesMoved, Migrating
      <3>2. db' = db  BY <2>3, Made DEF SInv, At
      <3>3. Moved'  BY <3>1, <3>2 DEF Moved, Old, New
      <3> QED  BY <3>3 DEF TablesMoved
    <2> QED  BY <1>1, <1>2, <1>4, <2>1, <2>2, <2>3 DEF TablesMoved
  <1>6. ColumnAdded'
    <2>1. CASE db.version = 3
      <3>1. next.version = 4  BY <1>2, <2>1
      <3> QED  BY <3>1, Made DEF SInv, At
    <2>2. CASE At(3, 1)
      <3>1. db'.filename  BY <2>2, Made DEF SInv, At
      <3> QED  BY <3>1 DEF ColumnAdded
    <2>3. Migrating(3, 2)' <=> At(3, 1)  BY <1>2 DEF Migrating, At
    <2> QED  BY <1>2, <2>1, <2>2, <2>3 DEF ColumnAdded
  <1>7. RowsCopied'
    <2>1. SUFFICES ASSUME At(2, 3) PROVE Rows(Old') \subseteq Rows(New')
      BY <1>4 DEF RowsCopied
    <2>2. Old' = Old /\ Rows(New') = Rows(New) \cup Rows(Old)
      BY <2>1, Made DEF SInv, At
    <2> QED  BY <2>2
  <1>8. KeysEnforced'
    <2>1. Pending /\ fk' = Pragma(Statement)  BY DEF Apply
    <2>2. KeysOff' <=> \E k \in 1..5 : At(2, k)
      BY <1>2 DEF KeysOff, Migrating, At
    <2>3. KeysOff <=> \E k \in 2..6 : At(2, k)
      BY <1>2 DEF KeysOff, Migrating
    <2>4. CASE At(2, 1)
      <3>1. Statement = "off"  BY <2>1, <2>4, Statements DEF SInv, At
      <3>2. KeysOff'  BY <2>2, <2>4
      <3> QED  BY <2>1, <3>1, <3>2, Zenon DEF Pragma, KeysEnforced
    <2>5. CASE At(2, 6)
      <3>1. Statement = "on"  BY <2>1, <2>5, Statements DEF SInv, At
      <3>2. ~KeysOff'  BY <2>2, <2>5 DEF At
      <3>3. Statement # "off"  BY <3>1
      <3> QED  BY <2>1, <3>1, <3>2, <3>3, Zenon DEF Pragma, KeysEnforced
    <2>6. CASE ~At(2, 1) /\ ~At(2, 6)
      <3>1. Statement \notin {"off", "on"}  BY <2>1, <2>6, Statements DEF SInv
      <3>2. KeysOff' <=> KeysOff  BY <2>2, <2>3, <2>6 DEF At
      <3>3. fk' = fk  BY <2>1, <3>1, Zenon DEF Pragma
      <3> QED  BY <3>2, <3>3, Zenon DEF SInv, KeysEnforced
    <2> QED  BY <2>4, <2>5, <2>6
  <1> QED  BY <1>1, <1>3, <1>5, <1>6, <1>7, <1>8 DEF SInv

LEMMA RecordSInv == ASSUME SInv, RecordVersion PROVE SInv'
  <1>1. LifeTypeOK' /\ db \in Db  BY RecordTypes DEF SInv, LifeTypeOK
  <1>2. /\ proc = "migrate" /\ proc' = "migrate" /\ UNCHANGED fk
        /\ db' = [db EXCEPT !.version = next.version]
        /\ next'.version = next.version + 1 /\ next'.at = 1
        /\ next.version = db.version + 1
    BY DEF RecordVersion, SInv, VersionFits
  <1>3. db'.version = next.version /\ Old' = Old /\ New' = New
        /\ db'.open = db.open /\ db'.filename = db.filename
    BY <1>1, <1>2 DEF Db, Old, New
  <1>4. VersionFits'  BY <1>2, <1>3 DEF VersionFits, Up
  <1>5. Migrating(1, 2) \/ Migrating(2, 7) \/ Migrating(3, 2)
    BY <1>2, Recorded DEF SInv, Migrating
  <1>6. \A v \in 1..3, k \in 2..7 : ~Migrating(v, k)'  BY <1>2 DEF Migrating, At
  <1>7. TablesMoved'
    <2>1. db'.version >= 2 => Moved
      <3>1. db.version \in 0..3  BY <1>1, Lengths DEF Db
      <3> QED  BY <1>2, <1>3, <1>5, <3>1 DEF SInv, TablesMoved, Migrating, At
    <2>2. Moved => Moved'  BY <1>3, Zenon DEF Moved
    <2> QED  BY <1>6, <2>1, <2>2 DEF TablesMoved
  <1>8. ColumnAdded'
    <2>1. db'.version = 3 => db.filename
      BY <1>2, <1>3, <1>5 DEF SInv, ColumnAdded, Migrating, At
    <2>2. db'.version = 3 => db'.filename  BY <1>3, <2>1, Zenon
    <2> QED  BY <1>6, <2>2 DEF ColumnAdded
  <1>9. RowsCopied'  BY <1>6 DEF RowsCopied
  <1>10. KeysEnforced'
    <2>1. ~KeysOff'  BY <1>6 DEF KeysOff
    <2>2. ~KeysOff  BY <1>5 DEF KeysOff, Migrating, At
    <2> QED  BY <1>2, <2>1, <2>2, Zenon DEF SInv, KeysEnforced
  <1> QED  BY <1>1, <1>4, <1>7, <1>8, <1>9, <1>10 DEF SInv

LEMMA StepSInv == SInv /\ [LifeNext]_lifeVars => SInv'
  <1> SUFFICES ASSUME SInv, [LifeNext]_lifeVars PROVE SInv'  OBVIOUS
  <1>1. LifeTypeOK /\ LifeTypeOK'  BY LifeStepTypes DEF SInv
  <1>2. CASE Start  BY <1>2, StartSInv
  <1>3. CASE Apply  BY <1>3, ApplySInv
  <1>4. CASE RecordVersion  BY <1>4, RecordSInv
  <1>5. CASE Others \/ Ends \/ UNCHANGED lifeVars
    BY <1>1, <1>5, OtherMoves, ProcSInv
  <1> QED  BY <1>2, <1>3, <1>4, <1>5, LifeCases

\* The API answers only over a schema that has every migration, however many
\* processes died on the way to it.
THEOREM MigratedFirst == LifeSpec => []ServesMigrated
  <1>1. SInv => ServesMigrated
    <2> SUFFICES ASSUME SInv, Answering PROVE ServesMigrated  BY DEF ServesMigrated
    <2>1. proc \in Up  BY DEF Answering, Up
    <2>2. db.version = 3  BY <2>1 DEF SInv, VersionFits
    <2>3. Moved /\ db.filename  BY <2>2 DEF SInv, TablesMoved, ColumnAdded
    <2>4. fk
      <3>1. ~KeysOff  BY <2>1 DEF KeysOff, Migrating, Up
      <3> QED  BY <3>1, Zenon DEF SInv, KeysEnforced
    <2> QED  BY <2>2, <2>3, <2>4, Lengths DEF ServesMigrated, Moved, Old, New
  <1> QED  BY <1>1, InitSInv, StepSInv, PTL DEF LifeSpec

\* No statement of the migrations loses a destination or a link, after whichever
\* of them an earlier process died.
THEOREM MigrationsKeepAll == LifeSpec => NothingLost
  <1> DEFINE Kept == /\ \A d \in Dests : Held(d) => Held(d)'
                     /\ db.links \subseteq db'.links
  <1>1. SInv /\ [LifeNext]_lifeVars => [Kept]_lifeVars
    <2> SUFFICES ASSUME SInv, LifeNext PROVE Kept  OBVIOUS
    <2>1. CASE db' = db  BY <2>1 DEF Held
    <2>2. CASE Apply
      <3>1. At(2, 4) => Rows(Old) \subseteq Rows(New) /\ ~fk
        <4>1. proc = "migrate"  BY <2>2, Made DEF SInv
        <4>2. At(2, 4) => Migrating(2, 4) /\ KeysOff  BY <4>1 DEF Migrating, KeysOff
        <4>3. KeysOff => ~fk  BY Zenon DEF SInv, KeysEnforced
        <4> QED  BY <4>2, <4>3 DEF SInv, RowsCopied
      <3>2. db'.links = db.links
        BY <2>2, <3>1, Made DEF SInv
      <3>3. Rows(Old) \cup Rows(New) \subseteq Rows(Old') \cup Rows(New')
        BY <2>2, <3>1, Made, TablesHold DEF SInv, Old, New
      <3> QED  BY <3>2, <3>3 DEF Held, Old, New
    <2>3. CASE RecordVersion
      <3>1. db \in Db /\ db' = [db EXCEPT !.version = next.version]
        BY <2>3 DEF RecordVersion, SInv, LifeTypeOK
      <3> QED  BY <3>1 DEF Db, Held
    <2>4. CASE Start  BY <2>4 DEF Start, Held
    <2>5. CASE Others \/ Ends  BY <2>5, OtherMoves DEF SInv, Held
    <2> QED  BY <2>2, <2>3, <2>4, <2>5, LifeCases
  <1> QED  BY <1>1, InitSInv, StepSInv, PTL DEF LifeSpec, NothingLost

-----------------------------------------------------------------------------
(* As long as no process has died amid the migrations, the tables are as the   *)
(* next statement needs them.                                                  *)

BeforeInit == db.version = 0 => New = NoTable
BeforeCreate == db.version = 1 /\ ~(\E k \in 3..7 : Migrating(2, k)) => New = NoTable
HasOld == Migrating(1, 2) \/ (db.version = 1 /\ ~(\E k \in 5..7 : Migrating(2, k))) => Old # NoTable
HasNew == Migrating(2, 3) \/ Migrating(2, 4) \/ Migrating(2, 5) => New # NoTable
Dropped == Migrating(2, 5) => Old = NoTable
NoColumn == db.version < 3 /\ ~Migrating(3, 2) => ~db.filename
Whole == BeforeInit /\ BeforeCreate /\ HasOld /\ HasNew /\ Dropped /\ NoColumn
MInv == SInv /\ (cut \/ Whole)

LEMMA WholeApplies == ASSUME SInv, Whole, Pending PROVE Applies(Statement)
  <1>1. proc = "migrate" /\ next.version = db.version + 1
    BY Statements DEF SInv, VersionFits
  <1>2. db.version \in 0..3  BY Lengths DEF SInv, LifeTypeOK, Db
  <1>3. CASE At(2, 2) /\ Statement = "create"
    <2>1. New = NoTable  BY <1>1, <1>2, <1>3 DEF Whole, BeforeCreate, Migrating, At
    <2> QED  BY <1>3, <2>1 DEF Applies, New
  <1>4. CASE At(2, 3) /\ Statement = "copy"
    <2>1. Old # NoTable /\ New # NoTable
      BY <1>1, <1>2, <1>4 DEF Whole, HasOld, HasNew, Migrating, At
    <2> QED  BY <1>4, <2>1 DEF Applies, Old, New
  <1>5. CASE At(2, 4) /\ Statement = "drop"
    <2>1. Old # NoTable  BY <1>1, <1>2, <1>5 DEF Whole, HasOld, Migrating, At
    <2> QED  BY <1>5, <2>1 DEF Applies, Old
  <1>6. CASE At(2, 5) /\ Statement = "rename"
    <2>1. Old = NoTable /\ New # NoTable
      BY <1>1, <1>6 DEF Whole, HasNew, Dropped, Migrating
    <2> QED  BY <1>6, <2>1 DEF Applies, Old, New
  <1>7. CASE At(3, 1) /\ Statement = "add"
    <2>1. ~db.filename  BY <1>1, <1>2, <1>7 DEF Whole, NoColumn, Migrating, At
    <2> QED  BY <1>7, <2>1 DEF Applies
  <1>8. CASE Statement \in {"init", "off", "on"}  BY <1>8 DEF Applies
  <1> QED  BY Statements, <1>3, <1>4, <1>5, <1>6, <1>7, <1>8 DEF SInv

LEMMA InitMInv == LifeInit => MInv
  <1> SUFFICES ASSUME LifeInit PROVE Whole  BY InitSInv DEF MInv
  <1>1. proc = "down"  BY DEF LifeInit
  <1> QED
    BY <1>1, ReleaseFits DEF Whole, BeforeInit, BeforeCreate, HasOld, HasNew, Dropped,
                             NoColumn, Migrating

LEMMA ApplyWhole == ASSUME SInv, Whole, Apply PROVE Whole'
  <1>1. db.version \in 0..3 /\ next.at \in 1..7
    BY Lengths DEF SInv, LifeTypeOK, Db
  <1>2. /\ proc = "migrate" /\ proc' = "migrate" /\ db'.version = db.version
        /\ next'.version = next.version /\ next'.at = next.at + 1
        /\ next.version = db.version + 1
    BY Made DEF SInv, VersionFits
  <1>3. \A v \in 1..3, k \in 1..7 : /\ Migrating(v, k)' <=> At(v, k - 1)
                                    /\ Migrating(v, k) <=> At(v, k)
    BY <1>1, <1>2 DEF Migrating, At
  <1>4. CASE db.version = 0
    <2>1. At(1, 1) /\ New' = New /\ Old' # NoTable /\ (db.filename <=> db'.filename)
      BY <1>2, <1>4, Made DEF SInv, At
    <2> QED
      BY <1>2, <1>3, <1>4, <2>1 DEF Whole, BeforeInit, BeforeCreate, HasOld, HasNew, Dropped,
                                    NoColumn, At
  <1>5. CASE db.version = 1
    <2>1. /\ next.version = 2 /\ ~At(3, 1) /\ ~Migrating(3, 2)'
          /\ ~Migrating(1, 2)' /\ ~Migrating(3, 2)
      BY <1>2, <1>5 DEF At, Migrating
    <2>2. NoColumn'
      <3>1. (At(2, 5) \/ ~At(2, 5)) /\ (db.filename => db'.filename) /\ (db'.filename => db.filename)
        BY <2>1, Made DEF SInv, At
      <3> QED  BY <1>2, <1>5, <2>1, <3>1 DEF Whole, NoColumn
    <2>3. BeforeInit'  BY <1>2, <1>5 DEF BeforeInit
    <2>4. BeforeCreate'
      <3>1. CASE At(2, 1)
        <4>1. New' = New  BY <3>1, Made DEF SInv, At, New
        <4>2. New = NoTable  BY <1>2, <1>5, <3>1 DEF Whole, BeforeCreate, Migrating, At
        <4> QED  BY <4>1, <4>2 DEF BeforeCreate
      <3>2. CASE next.at \in 2..6
        <4>1. \E k \in 3..7 : Migrating(2, k)'
          BY <1>1, <1>2, <2>1, <3>2 DEF Migrating, At
        <4> QED  BY <4>1 DEF BeforeCreate
      <3> QED  BY <2>1, <3>1, <3>2, Made DEF SInv, At
    <2>5. HasOld'
      <3>1. CASE At(2, 1) \/ At(2, 2) \/ At(2, 3)
        <4>1. Old' = Old  BY <3>1, Made DEF SInv, At, Old
        <4>2. Old # NoTable  BY <1>2, <1>5, <3>1 DEF Whole, HasOld, Migrating, At
        <4> QED  BY <4>1, <4>2 DEF HasOld
      <3>2. CASE At(2, 4) \/ At(2, 5) \/ At(2, 6)
        <4>1. \E k \in 5..7 : Migrating(2, k)'  BY <1>2, <3>2 DEF Migrating, At
        <4> QED  BY <4>1, <2>1 DEF HasOld
      <3> QED  BY <2>1, <3>1, <3>2, Made DEF SInv, At
    <2>6. HasNew'
      <3>1. CASE At(2, 2) \/ At(2, 3)
        <4>1. New' # NoTable  BY <3>1, Made DEF SInv, At
        <4> QED  BY <4>1 DEF HasNew
      <3>2. CASE At(2, 4)
        <4>1. New' = New /\ New # NoTable
          BY <1>2, <3>2, Made DEF SInv, Whole, HasNew, Migrating, At
        <4> QED  BY <4>1 DEF HasNew
      <3>3. CASE ~At(2, 2) /\ ~At(2, 3) /\ ~At(2, 4)
        BY <1>3, <3>3 DEF HasNew
      <3> QED  BY <3>1, <3>2, <3>3
    <2>7. Dropped'
      <3>1. CASE At(2, 4)
        <4>1. Old' = NoTable  BY <3>1, Made DEF SInv, At
        <4> QED  BY <4>1 DEF Dropped
      <3>2. CASE ~At(2, 4)  BY <1>3, <3>2 DEF Dropped
      <3> QED  BY <3>1, <3>2
    <2> QED  BY <2>2, <2>3, <2>4, <2>5, <2>6, <2>7 DEF Whole
  <1>6. CASE db.version = 2
    <2>1. At(3, 1) /\ Migrating(3, 2)'
      BY <1>2, <1>6, Made DEF SInv, At, Migrating
    <2> QED
      BY <1>2, <1>6, <2>1 DEF Whole, BeforeInit, BeforeCreate, HasOld, HasNew, Dropped,
                              NoColumn, Migrating, At
  <1>7. CASE db.version = 3
    <2>1. next.version = 4  BY <1>2, <1>7
    <2> QED  BY <2>1, Made DEF SInv, At
  <1> QED  BY <1>1, <1>4, <1>5, <1>6, <1>7

LEMMA RecordWhole == ASSUME SInv, Whole, RecordVersion PROVE Whole'
  <1>1. db \in Db /\ db.version \in 0..3  BY Lengths DEF SInv, LifeTypeOK, Db
  <1>2. /\ proc = "migrate" /\ proc' = "migrate"
        /\ db' = [db EXCEPT !.version = next.version]
        /\ next'.version = next.version + 1 /\ next'.at = 1
        /\ next.version = db.version + 1
    BY DEF RecordVersion, SInv, VersionFits
  <1>3. db'.version = next.version /\ Old' = Old /\ New' = New /\ db'.filename = db.filename
    BY <1>1, <1>2 DEF Db, Old, New
  <1>4. Migrating(1, 2) \/ Migrating(2, 7) \/ Migrating(3, 2)
    BY <1>2, Recorded DEF SInv, Migrating
  <1>5. \A v \in 1..3, k \in 2..7 : ~Migrating(v, k)'  BY <1>2 DEF Migrating, At
  <1>6. NoColumn'
    <2>1. db'.version < 3 => ~db.filename
      BY <1>1, <1>2, <1>3, <1>4 DEF Whole, NoColumn, Migrating, At
    <2>2. db'.version < 3 => ~db'.filename  BY <1>3, <2>1, Zenon
    <2> QED  BY <2>2 DEF NoColumn
  <1>7. BeforeInit'  BY <1>1, <1>2, <1>3 DEF BeforeInit
  <1>8. (BeforeCreate /\ HasOld)'
    <2>1. db'.version = 1 => New = NoTable /\ Old # NoTable
      BY <1>1, <1>2, <1>3, <1>4 DEF Whole, BeforeInit, HasOld, Migrating, At
    <2> QED  BY <1>3, <1>5, <2>1 DEF BeforeCreate, HasOld
  <1>9. (HasNew /\ Dropped)'  BY <1>5 DEF HasNew, Dropped
  <1> QED  BY <1>6, <1>7, <1>8, <1>9 DEF Whole

LEMMA StartWhole == ASSUME SInv, Whole, Start PROVE Whole'
  <1>1. /\ proc = "down" /\ proc' = "migrate" /\ db' = db
        /\ next'.version = db.version + 1 /\ next'.at = 1
    BY DEF Start
  <1>2. \A v \in 1..3, k \in 2..7 : ~Migrating(v, k) /\ ~Migrating(v, k)'
    BY <1>1 DEF Migrating, At
  <1> QED
    BY <1>1, <1>2 DEF Whole, BeforeInit, BeforeCreate, HasOld, HasNew, Dropped, NoColumn,
                      Old, New

\* A process that ends or goes on has either made every migration or stays where
\* it was: one that dies amid them is remembered in cut.
LEMMA OtherWhole ==
    ASSUME SInv, Whole, [LifeNext]_lifeVars, Others \/ Ends \/ UNCHANGED lifeVars,
           ~cut, ~cut'
    PROVE  Whole'
  <1>1. db' = db  BY OtherMoves DEF SInv
  <1>2. db.version = 3 \/ UNCHANGED <<proc, next>>
    <2>1. CASE Ends
      <3>1. ~ApplyFails  BY WholeApplies DEF ApplyFails
      <3>2. Crash => proc # "migrate" /\ proc # "down"  BY Zenon DEF Crash
      <3>3. proc \in Up
        BY <2>1, <3>1, <3>2 DEF Ends, ServerStopped, Up, SInv, LifeTypeOK
      <3> QED  BY <3>3 DEF SInv, VersionFits
    <2>2. CASE ~Ends /\ proc' = "down"
      BY <2>2, Zenon DEF Others, Migrated, EnsureSessionSecret, LoadSchedules, Signal, TimeUp,
             SchedulerStopped, CronFires, TriggerRun, RunEnds, Arrive, Answer, process, lifeVars
    <2>3. CASE proc = "migrate" /\ next.version > 3 /\ UNCHANGED next
      <3>1. db.version \in 0..3 /\ next.version = db.version + 1
        BY <2>3, Lengths DEF SInv, VersionFits, LifeTypeOK, Db
      <3> QED  BY <2>3, <3>1
    <2>4. CASE proc \in Up  BY <2>4 DEF SInv, VersionFits
    <2> QED  BY <2>1, <2>2, <2>3, <2>4, OtherMoves DEF SInv
  <1>3. CASE db.version = 3
    <2>1. \A v \in 1..2, k \in 1..7 : ~Migrating(v, k) /\ ~Migrating(v, k)'
      <3>1. db'.version = 3 /\ VersionFits /\ VersionFits'
        BY <1>1, <1>3, StepSInv DEF SInv
      <3> QED  BY <1>3, <3>1 DEF VersionFits, Migrating, At
    <2> QED
      BY <1>1, <1>3, <2>1 DEF Whole, BeforeInit, BeforeCreate, HasOld, HasNew, Dropped, NoColumn
  <1>4. CASE UNCHANGED <<proc, next>>
    BY <1>1, <1>4 DEF Whole, BeforeInit, BeforeCreate, HasOld, HasNew, Dropped, NoColumn,
                      Migrating, At, Old, New
  <1> QED  BY <1>2, <1>3, <1>4

LEMMA StepMInv == MInv /\ [LifeNext]_lifeVars => MInv'
  <1> SUFFICES ASSUME MInv, [LifeNext]_lifeVars, ~cut' PROVE Whole'
    BY StepSInv DEF MInv
  <1>1. SInv /\ ~cut /\ Whole
    <2>1. cut => cut'
      BY Zenon DEF LifeNext, LifeStep, Startup, Shutdown, Start, Apply, ApplyFails, RecordVersion,
             Migrated, EnsureSessionSecret, LoadSchedules, CronFires, TriggerRun, RunEnds,
             Arrive, Answer, Signal, TimeUp, SchedulerStopped, ServerStopped, Crash,
             lifeVars, bounds
    <2> QED  BY <2>1 DEF MInv
  <1>2. CASE Start  BY <1>1, <1>2, StartWhole
  <1>3. CASE Apply  BY <1>1, <1>3, ApplyWhole
  <1>4. CASE RecordVersion  BY <1>1, <1>4, RecordWhole
  <1>5. CASE Others \/ Ends \/ UNCHANGED lifeVars  BY <1>1, <1>5, OtherWhole
  <1> QED  BY <1>2, <1>3, <1>4, <1>5, LifeCases

\* A start comes through the migrations, from whatever release the database is,
\* unless an earlier process was killed amid them.
THEOREM MigratedOnce == LifeSpec => MigratesOnce
  <1>1. MInv /\ [LifeNext]_lifeVars => [ApplyFails => cut]_lifeVars
    BY WholeApplies DEF MInv, ApplyFails
  <1> QED  BY <1>1, InitMInv, StepMInv, PTL DEF LifeSpec, MigratesOnce

-----------------------------------------------------------------------------
(* Shutdown. *)

Waited == proc = "drain" => late \/ CronRuns = {}

LEMMA InitWaited == LifeInit => Waited
  BY DEF LifeInit, Waited

LEMMA StepWaited == LifeTypeOK /\ Waited /\ [LifeNext]_lifeVars => Waited'
  <1> SUFFICES ASSUME LifeTypeOK, Waited, [LifeNext]_lifeVars, proc' = "drain"
               PROVE  late' \/ CronRuns' = {}
    BY DEF Waited
  <1>1. CASE SchedulerStopped
    BY <1>1, Zenon DEF SchedulerStopped, CronRuns
  <1>2. CASE ~SchedulerStopped
    <2>1. proc = "drain" /\ (late => late')
      <3> USE DEF process, bounds
      <3>1. CASE Start \/ Ends
        <4>1. proc' = "migrate" \/ proc' = "down"
          BY <3>1, Zenon DEF Start, Ends, ApplyFails, ServerStopped, Crash, Exit
        <4> QED  BY <4>1
      <3>2. CASE Migrated \/ EnsureSessionSecret \/ LoadSchedules \/ Signal
        BY <3>2 DEF Migrated, EnsureSessionSecret, LoadSchedules, Signal
      <3>3. CASE TimeUp
        <4>1. proc' = proc /\ late' = TRUE  BY <3>3 DEF TimeUp
        <4> QED  BY <4>1
      <3>4. CASE UNCHANGED <<proc, late>>
        <4>1. proc' = proc /\ late' = late  BY <3>4
        <4> QED  BY <4>1
      <3>5. Apply \/ RecordVersion \/ UNCHANGED lifeVars => UNCHANGED <<proc, late>>
        BY Zenon DEF Apply, RecordVersion, lifeVars
      <3>6. (\E r \in Runs : CronFires(r) \/ TriggerRun(r) \/ RunEnds(r)) => UNCHANGED <<proc, late>>
        BY Zenon DEF CronFires, TriggerRun, RunEnds
      <3>7. (\E q \in Requests : Arrive(q) \/ Answer(q)) => UNCHANGED <<proc, late>>
        BY Zenon DEF Arrive, Answer
      <3> QED
        BY <1>2, <3>1, <3>2, <3>3, <3>4, <3>5, <3>6, <3>7, LifeCases, Zenon DEF Others
    <2>2. runs' = runs \/ \E r \in Runs : RunEnds(r)
      BY <2>1, Zenon DEF LifeNext, LifeStep, Startup, Shutdown, Start, Apply, ApplyFails, Exit,
             RecordVersion, Migrated, EnsureSessionSecret, LoadSchedules, CronFires,
             TriggerRun, Arrive, Answer, Signal, TimeUp, SchedulerStopped, ServerStopped, Crash,
             lifeVars
    <2>3. CronRuns' \subseteq CronRuns
      <3>1. CASE runs' = runs  BY <3>1 DEF CronRuns
      <3>2. CASE \E r \in Runs : RunEnds(r)
        BY <3>2 DEF RunEnds, CronRuns, LifeTypeOK
      <3> QED  BY <2>2, <3>1, <3>2
    <2> QED  BY <2>1, <2>3, Zenon DEF Waited
  <1> QED  BY <1>1, <1>2

\* A shutdown leaves a run of cron's or a request unfinished only when its ten
\* seconds are over.
THEOREM PatientShutdown == LifeSpec => ShutdownPatient
  <1>1. Waited /\ [LifeNext]_lifeVars
          => [ServerStopped /\ ~late => CronRuns = {} /\ requests = {}]_lifeVars
    BY Zenon DEF Waited, ServerStopped
  <1>2. LifeSpec => []LifeTypeOK  BY LifeTypeCorrect
  <1> QED  BY <1>1, <1>2, InitWaited, StepWaited, PTL DEF LifeSpec, ShutdownPatient
=============================================================================
