------------------------------ MODULE CronSync ------------------------------
(***************************************************************************)
(* Keeping the cron entries in step with the schedules table:              *)
(* internal/scheduler/scheduler.go (Reload), the request handlers that     *)
(* change schedules and then call it (internal/api/schedules.go, and       *)
(* handleDeleteDestination in internal/api/destinations.go), the table     *)
(* (internal/db/schedules.go), and the start of the process                *)
(* (cmd/loxbak/main.go), which calls Reload before it serves requests.     *)
(*                                                                         *)
(* Each request is served by a goroutine of its own.  pc[q] is its next    *)
(* call:  change the table -> links (setScheduleDestinations) -> list      *)
(* (ListEnabledSchedules) -> lock (s.mu) -> remove the old entries -> add   *)
(* the listed ones -> done.  The startup of the process, Boot, begins at   *)
(* list.                                                                   *)
(*                                                                         *)
(* Operators named X_Y are faulty variants of X: what the properties are   *)
(* there to notice.                                                        *)
(***************************************************************************)
EXTENDS Integers, FiniteSets

CONSTANTS
    Requests,      \* requests an administrator sends, each served once
    Boot,          \* the startup of the process
    Schedules,     \* schedule ids
    Exprs,         \* cron expressions ...
    Invalid,       \* ... and those the cron library rejects
    MaxActive,     \* how many requests may be served at once
    Faults,        \* "links": setting the links fails; "list": listing fails
    MaxRestarts,
    None

Row == [expr : Exprs, enabled : BOOLEAN]
Wanted == [sched : Schedules, expr : Exprs]
Entry == [id : Nat, sched : Schedules, expr : Exprs]
Procs == Requests \cup {Boot}

ASSUME ConstantsAssumption ==
    /\ Boot \notin Requests
    /\ None \notin Procs \cup Row
    /\ Invalid \subseteq Exprs
    /\ Faults \subseteq {"links", "list"}
    /\ MaxActive \in Nat /\ MaxRestarts \in Nat

VARIABLES
    table,      \* the schedules table: a row, or None
    used,       \* the ids given out so far (AUTOINCREMENT never reuses one)
    cron,       \* the entries in the cron library
    nextId,     \* the library's next entry id
    entries,    \* Scheduler.entries: schedule id -> entry id
    mu,         \* Scheduler.mu: who holds it, or None
    pc,         \* each request's next call
    listed,     \* what its Reload listed
    todo,       \* the part of it not added yet
    restarts,   \* how often the process was restarted
    alone       \* the last request overlapped with none, and none of its steps failed

db == <<table, used>>
entriesVars == <<cron, nextId, entries>>
history == <<restarts, alone>>
vars == <<db, entriesVars, mu, pc, listed, todo, history>>

Stages == {"idle", "links", "list", "lock", "remove", "add", "done"}
Active == {q \in Requests : pc[q] \notin {"idle", "done"}}
Goto(q, stage) == pc' = [pc EXCEPT ![q] = stage]

Init ==
    /\ table = [s \in Schedules |-> None]
    /\ used = {}
    /\ cron = {} /\ nextId = 1 /\ entries = <<>>
    /\ mu = None
    /\ pc = [p \in Procs |-> IF p = Boot THEN "list" ELSE "idle"]
    /\ listed = [p \in Procs |-> {}]
    /\ todo = [p \in Procs |-> {}]
    /\ restarts = 0 /\ alone = TRUE

-----------------------------------------------------------------------------
(* The requests' first step: the change itself. *)

Arrives(q) ==
    /\ pc[q] = "idle"
    /\ pc[Boot] = "done"
    /\ Cardinality(Active) < MaxActive
    /\ alone' = (Active = {})

CreateSchedule(q, s, row) ==
    /\ Arrives(q)
    /\ s \notin used
    /\ table' = [table EXCEPT ![s] = row]
    /\ used' = used \cup {s}
    /\ Goto(q, "links")
    /\ UNCHANGED <<entriesVars, mu, listed, todo, restarts>>

UpdateSchedule(q, s, row) ==
    /\ Arrives(q)
    /\ table[s] # None
    /\ table' = [table EXCEPT ![s] = row]
    /\ Goto(q, "links")
    /\ UNCHANGED <<used, entriesVars, mu, listed, todo, restarts>>

DeleteSchedule(q, s) ==
    /\ Arrives(q)
    /\ table[s] # None
    /\ table' = [table EXCEPT ![s] = None]
    /\ Goto(q, "list")
    /\ UNCHANGED <<used, entriesVars, mu, listed, todo, restarts>>

\* handleDeleteDestination reloads too, without having changed a schedule.
DeleteDestination(q) ==
    /\ Arrives(q)
    /\ Goto(q, "list")
    /\ UNCHANGED <<db, entriesVars, mu, listed, todo, restarts>>

SetLinks(q) ==
    /\ pc[q] = "links"
    /\ Goto(q, "list")
    /\ UNCHANGED <<db, entriesVars, mu, listed, todo, history>>

\* A link to an unknown destination, or two to one: the handler answers 500
\* and returns, the schedule's new row committed, Reload not called.
SetLinksFails(q) ==
    /\ pc[q] = "links"
    /\ "links" \in Faults
    /\ Goto(q, "done")
    /\ alone' = FALSE
    /\ UNCHANGED <<db, entriesVars, mu, listed, todo, restarts>>

-----------------------------------------------------------------------------
(* Reload. *)

ListEnabledSchedules_All == {[sched |-> s, expr |-> table[s].expr] :
                                s \in {t \in Schedules : table[t] # None}}

ListEnabledSchedules == {[sched |-> s, expr |-> table[s].expr] :
                            s \in {t \in Schedules : table[t] # None /\ table[t].enabled}}

\* The table is read before the mutex is taken.
List(q) ==
    /\ pc[q] = "list"
    /\ listed' = [listed EXCEPT ![q] = ListEnabledSchedules]
    /\ todo' = [todo EXCEPT ![q] = ListEnabledSchedules]
    /\ Goto(q, "lock")
    /\ UNCHANGED <<db, entriesVars, mu, history>>

\* Logged by the handlers; at startup it ends the process, which is not modelled.
ListFails(q) ==
    /\ pc[q] = "list"
    /\ q # Boot
    /\ "list" \in Faults
    /\ Goto(q, "done")
    /\ alone' = FALSE
    /\ UNCHANGED <<db, entriesVars, mu, listed, todo, restarts>>

Lock_NoWait(q) ==
    /\ pc[q] = "lock"
    /\ mu' = q
    /\ Goto(q, "remove")
    /\ UNCHANGED <<db, entriesVars, listed, todo, history>>

Lock(q) ==
    /\ pc[q] = "lock"
    /\ mu = None
    /\ mu' = q
    /\ Goto(q, "remove")
    /\ UNCHANGED <<db, entriesVars, listed, todo, history>>

RemoveEntry_KeepsKey(q) ==
    /\ pc[q] = "remove"
    /\ \E s \in DOMAIN entries : /\ cron' = {e \in cron : e.id # entries[s]}
                                /\ entries' = [entries EXCEPT ![s] = None]
    /\ UNCHANGED <<db, nextId, mu, pc, listed, todo, history>>

RemoveEntry(q) ==
    /\ pc[q] = "remove"
    /\ \E s \in DOMAIN entries :
          /\ cron' = {e \in cron : e.id # entries[s]}
          /\ entries' = [t \in DOMAIN entries \ {s} |-> entries[t]]
    /\ UNCHANGED <<db, nextId, mu, pc, listed, todo, history>>

AllRemoved_NotAwaited(q) ==
    /\ pc[q] = "remove"
    /\ Goto(q, "add")
    /\ UNCHANGED <<db, entriesVars, mu, listed, todo, history>>

AllRemoved(q) ==
    /\ pc[q] = "remove"
    /\ DOMAIN entries = {}
    /\ Goto(q, "add")
    /\ UNCHANGED <<db, entriesVars, mu, listed, todo, history>>

AddEntry(q) ==
    /\ pc[q] = "add"
    /\ \E w \in todo[q] :
          /\ w.expr \notin Invalid
          /\ cron' = cron \cup {[id |-> nextId, sched |-> w.sched, expr |-> w.expr]}
          /\ entries' = [t \in DOMAIN entries \cup {w.sched} |->
                            IF t = w.sched THEN nextId ELSE entries[t]]
          /\ todo' = [todo EXCEPT ![q] = @ \ {w}]
    /\ nextId' = nextId + 1
    /\ UNCHANGED <<db, mu, pc, listed, history>>

\* AddFunc rejects the expression: logged, and on with the next schedule.
SkipEntry(q) ==
    /\ pc[q] = "add"
    /\ \E w \in todo[q] : /\ w.expr \in Invalid
                          /\ todo' = [todo EXCEPT ![q] = @ \ {w}]
    /\ UNCHANGED <<db, entriesVars, mu, pc, listed, history>>

Unlock_Kept(q) ==
    /\ pc[q] = "add"
    /\ todo[q] = {}
    /\ Goto(q, "done")
    /\ UNCHANGED <<db, entriesVars, mu, listed, todo, history>>

Unlock(q) ==
    /\ pc[q] = "add"
    /\ todo[q] = {}
    /\ mu' = None
    /\ Goto(q, "done")
    /\ UNCHANGED <<db, entriesVars, listed, todo, history>>

Reload(q) ==
    \/ List(q) \/ ListFails(q) \/ Lock(q)
    \/ RemoveEntry(q) \/ AllRemoved(q) \/ AddEntry(q) \/ SkipEntry(q) \/ Unlock(q)

-----------------------------------------------------------------------------
\* The process dies and starts again: an empty cron, the same table.
Restart ==
    /\ restarts < MaxRestarts
    /\ restarts' = restarts + 1 /\ alone' = TRUE
    /\ cron' = {} /\ nextId' = 1 /\ entries' = <<>>
    /\ mu' = None
    /\ pc' = [p \in Procs |-> IF p = Boot THEN "list"
                              ELSE IF p \in Active THEN "done" ELSE pc[p]]
    /\ listed' = [p \in Procs |-> {}]
    /\ todo' = [p \in Procs |-> {}]
    /\ UNCHANGED db

Serve(q) == SetLinks(q) \/ SetLinksFails(q) \/ Reload(q)

Next ==
    \/ \E q \in Requests :
          \/ \E s \in Schedules : \/ \E row \in Row : \/ CreateSchedule(q, s, row)
                                                      \/ UpdateSchedule(q, s, row)
                                  \/ DeleteSchedule(q, s)
          \/ DeleteDestination(q)
          \/ SetLinks(q) \/ SetLinksFails(q)
    \/ \E q \in Procs : Reload(q)
    \/ Restart

Spec == Init /\ [][Next]_vars

\* Each request's goroutine goes on; the mutex is held a bounded number of
\* times, so a request that waits for it is not overtaken forever.
FairSpec == Spec /\ \A q \in Procs : WF_vars(Serve(q))

-----------------------------------------------------------------------------
TypeOK ==
    /\ table \in [Schedules -> Row \cup {None}]
    /\ used \subseteq Schedules
    /\ cron \subseteq Entry
    /\ nextId \in Nat
    /\ DOMAIN entries \subseteq Schedules /\ \A s \in DOMAIN entries : entries[s] \in Nat
    /\ mu \in Procs \cup {None}
    /\ pc \in [Procs -> Stages]
    /\ listed \in [Procs -> SUBSET Wanted]
    /\ todo \in [Procs -> SUBSET Wanted]
    /\ restarts \in Nat /\ alone \in BOOLEAN

\* However requests overlap, the cron library never holds an entry that the
\* scheduler's map has lost: such an entry could not be removed any more and
\* would start backups of its schedule until the process ends.  (Scheduler.mu)
EntriesTracked ==
    \A e \in cron : e.sched \in DOMAIN entries /\ entries[e.sched] = e.id

Scheduled == {[sched |-> e.sched, expr |-> e.expr] : e \in cron}
Runnable(W) == {w \in W : w.expr \notin Invalid}

\* A Reload leaves exactly what it listed, never a mixture of two listings or
\* of old entries and new.  (Reload's comment: "every existing entry is removed
\* and enabled schedules are re-added".)
ReloadIsWhole ==
    [][\A q \in Procs : Unlock(q) => Scheduled = Runnable(listed[q])]_vars

Quiet == \A p \in Procs : pc[p] \in {"idle", "done"}
Enabled == {[sched |-> s, expr |-> table[s].expr] :
               s \in {t \in Schedules : table[t] # None /\ table[t].enabled}}
\* When no request is being served, what the cron runs is what the table enables
\* (Scheduler's comment: "keeps them in sync with the schedules table").
KeptInSync == Quiet => Scheduled = Runnable(Enabled)

\* That holds after a request served by itself and without failure, whatever the
\* requests before it left behind: it brings the cron back in step (Reload).
InSyncWhenQuiet == alone => KeptInSync

\* Every request that has begun ends.  (The mutex is always released.)
RequestsFinish == \A q \in Procs : pc[q] # "idle" ~> pc[q] = "done"
=============================================================================
