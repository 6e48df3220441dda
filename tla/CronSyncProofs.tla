--------------------------- MODULE CronSyncProofs ---------------------------
(***************************************************************************)
(* Proofs about CronSync: for any number of requests, schedules and cron   *)
(* expressions, overlapping in any way, with restarts and failures, no     *)
(* cron entry escapes the scheduler's map, and a Reload leaves exactly     *)
(* what it listed.                                                         *)
(***************************************************************************)
EXTENDS CronSync, TLAPS

\* Only the holder of the mutex is between Lock and Unlock.
Exclusive == \A q \in Procs : pc[q] \in {"remove", "add"} => mu = q

\* A listing has one row per schedule, and so has what is left of it.
OneRowEach == \A q \in Procs : \A v, w \in todo[q] : v.sched = w.sched => v = w

\* Until it starts adding, a request has all of its listing still to add.
NotBegun == \A q \in Procs : pc[q] \in {"lock", "remove"} => todo[q] = listed[q]

\* While it is adding: what is to come is not scheduled yet, and what is
\* scheduled together with what is to come is what it listed.
Adding ==
    \A q \in Procs : pc[q] = "add" =>
        /\ \A w \in todo[q] : w.sched \notin DOMAIN entries
        /\ Scheduled \cup Runnable(todo[q]) = Runnable(listed[q])

IInv == TypeOK /\ Exclusive /\ EntriesTracked /\ OneRowEach /\ NotBegun /\ Adding

USE DEF Procs, Stages, Goto

-----------------------------------------------------------------------------
\* The initial state satisfies the invariant.
LEMMA InitIInv == Init => IInv
<1> SUFFICES ASSUME Init PROVE IInv
    OBVIOUS
<1>1. TypeOK
    BY DEF Init, TypeOK
<1>2. Exclusive /\ OneRowEach /\ NotBegun /\ Adding /\ EntriesTracked
    BY ConstantsAssumption DEF Init, Exclusive, OneRowEach, NotBegun, Adding, EntriesTracked
<1> QED BY <1>1, <1>2 DEF IInv

\* The listing is well typed and has one row per schedule.
LEMMA Listing ==
    ASSUME TypeOK
    PROVE  /\ ListEnabledSchedules \subseteq Wanted
           /\ \A v, w \in ListEnabledSchedules : v.sched = w.sched => v = w
<1>1. ASSUME NEW s \in Schedules, table[s] # None
      PROVE  table[s].expr \in Exprs
    BY <1>1 DEF TypeOK, Row
<1> QED BY <1>1 DEF ListEnabledSchedules, Wanted

\* Every step keeps the variables in their types.
LEMMA TypeStep == IInv /\ [Next]_vars => TypeOK'
<1> SUFFICES ASSUME IInv, [Next]_vars PROVE TypeOK'
    OBVIOUS
<1> USE DEF IInv, TypeOK, vars, db, entriesVars, history
<1>1. ASSUME NEW q \in Requests, NEW s \in Schedules, NEW row \in Row,
             CreateSchedule(q, s, row) \/ UpdateSchedule(q, s, row)
      PROVE  TypeOK'
    BY <1>1 DEF CreateSchedule, UpdateSchedule, Arrives
<1>2. ASSUME NEW q \in Requests, NEW s \in Schedules, DeleteSchedule(q, s)
      PROVE  TypeOK'
    BY <1>2 DEF DeleteSchedule, Arrives
<1>3. ASSUME NEW q \in Requests, DeleteDestination(q) \/ SetLinks(q) \/ SetLinksFails(q)
      PROVE  TypeOK'
    BY <1>3 DEF DeleteDestination, SetLinks, SetLinksFails, Arrives
<1>4. ASSUME NEW q \in Procs, List(q)
      PROVE  TypeOK'
    BY <1>4, Listing DEF List
<1>5. ASSUME NEW q \in Procs, ListFails(q) \/ Lock(q) \/ AllRemoved(q) \/ Unlock(q)
      PROVE  TypeOK'
    BY <1>5 DEF ListFails, Lock, AllRemoved, Unlock
<1>6. ASSUME NEW q \in Procs, RemoveEntry(q)
      PROVE  TypeOK'
    BY <1>6 DEF RemoveEntry
<1>7. ASSUME NEW q \in Procs, AddEntry(q)
      PROVE  TypeOK'
  <2> PICK w \in todo[q] :
          /\ cron' = cron \cup {[id |-> nextId, sched |-> w.sched, expr |-> w.expr]}
          /\ entries' = [t \in DOMAIN entries \cup {w.sched} |->
                            IF t = w.sched THEN nextId ELSE entries[t]]
          /\ todo' = [todo EXCEPT ![q] = @ \ {w}]
      BY <1>7 DEF AddEntry
  <2>1. w.sched \in Schedules /\ w.expr \in Exprs
      BY DEF Wanted
  <2>2. nextId' \in Nat /\ cron' \subseteq Entry
      BY <1>7, <2>1 DEF AddEntry, Entry
  <2>3. DOMAIN entries' \subseteq Schedules /\ \A s \in DOMAIN entries' : entries'[s] \in Nat
      BY <2>1
  <2>4. todo' \in [Procs -> SUBSET Wanted]
      OBVIOUS
  <2> QED BY <1>7, <2>2, <2>3, <2>4 DEF AddEntry
<1>8. ASSUME NEW q \in Procs, SkipEntry(q)
      PROVE  TypeOK'
    BY <1>8 DEF SkipEntry
<1>9. CASE Restart
    BY <1>9 DEF Restart
<1>10. CASE UNCHANGED vars
    BY <1>10
<1> QED BY <1>1, <1>2, <1>3, <1>4, <1>5, <1>6, <1>7, <1>8, <1>9, <1>10
        DEF Next, Reload

\* A step of Reload keeps the rest of the invariant: the mutex keeps the others
\* out, removing ends with both the map and the cron empty, and each listed row
\* is added once.
LEMMA ReloadStep ==
    ASSUME IInv, TypeOK', NEW q \in Procs, Reload(q)
    PROVE  IInv'
<1> USE DEF IInv, db, entriesVars
<1>1. CASE List(q)
  <2>1. todo'[q] = listed'[q] /\ todo'[q] = ListEnabledSchedules
      BY <1>1 DEF List, TypeOK
  <2>2. Exclusive' /\ EntriesTracked'
      BY <1>1 DEF List, TypeOK, Exclusive, EntriesTracked
  <2>3. OneRowEach' /\ NotBegun'
      BY <1>1, <2>1, Listing DEF List, TypeOK, OneRowEach, NotBegun
  <2>4. Adding'
      BY <1>1 DEF List, TypeOK, Adding, Scheduled, Runnable
  <2> QED BY <2>2, <2>3, <2>4
<1>2. CASE ListFails(q)
    BY <1>2 DEF ListFails, TypeOK, Exclusive, EntriesTracked, OneRowEach, NotBegun, Adding,
                Scheduled, Runnable
<1>3. CASE Lock(q)
  <2>1. Exclusive'
      BY <1>3, ConstantsAssumption DEF Lock, TypeOK, Exclusive
  <2> QED BY <1>3, <2>1 DEF Lock, TypeOK, EntriesTracked, OneRowEach, NotBegun, Adding,
                             Scheduled, Runnable
<1>4. CASE RemoveEntry(q)
  <2> PICK s \in DOMAIN entries :
          /\ cron' = {e \in cron : e.id # entries[s]}
          /\ entries' = [t \in DOMAIN entries \ {s} |-> entries[t]]
      BY <1>4 DEF RemoveEntry
  <2>1. \A p \in Procs : pc'[p] # "add"
      BY <1>4 DEF RemoveEntry, Exclusive, TypeOK
  <2>2. EntriesTracked'
      BY DEF EntriesTracked
  <2>3. Exclusive' /\ OneRowEach' /\ NotBegun'
      BY <1>4 DEF RemoveEntry, Exclusive, OneRowEach, NotBegun
  <2> QED BY <2>1, <2>2, <2>3 DEF Adding
<1>5. CASE AllRemoved(q)
  <2>1. cron = {}
      BY <1>5 DEF AllRemoved, EntriesTracked
  <2>2. todo[q] = listed[q] /\ mu = q
      BY <1>5 DEF AllRemoved, NotBegun, Exclusive
  <2>3. Adding'
      BY <1>5, <2>1, <2>2 DEF AllRemoved, Adding, Exclusive, TypeOK, Scheduled, Runnable
  <2> QED BY <1>5, <2>3 DEF AllRemoved, TypeOK, Exclusive, EntriesTracked, OneRowEach, NotBegun
<1>6. CASE AddEntry(q)
  <2> PICK w \in todo[q] :
          /\ w.expr \notin Invalid
          /\ cron' = cron \cup {[id |-> nextId, sched |-> w.sched, expr |-> w.expr]}
          /\ entries' = [t \in DOMAIN entries \cup {w.sched} |->
                            IF t = w.sched THEN nextId ELSE entries[t]]
          /\ todo' = [todo EXCEPT ![q] = @ \ {w}]
      BY <1>6 DEF AddEntry
  <2>1. todo'[q] = todo[q] \ {w} /\ w \in Wanted
      BY DEF TypeOK
  <2>2. \A p \in Procs : pc'[p] = "add" => p = q
      BY <1>6 DEF AddEntry, Exclusive, TypeOK
  <2>3. w.sched \notin DOMAIN entries
      BY <1>6 DEF AddEntry, Adding
  <2>4. EntriesTracked'
      BY <2>3 DEF EntriesTracked
  <2>5. OneRowEach'
      BY DEF OneRowEach, TypeOK
  <2>6. \A v \in todo'[q] : v.sched \notin DOMAIN entries'
      BY <1>6, <2>1 DEF AddEntry, Adding, OneRowEach
  <2>7. Scheduled' = Scheduled \cup {w}
    <3>1. w = [sched |-> w.sched, expr |-> w.expr]
        BY <2>1 DEF Wanted
    <3> DEFINE new == [id |-> nextId, sched |-> w.sched, expr |-> w.expr]
    <3>2. [sched |-> new.sched, expr |-> new.expr] = w
        BY <3>1
    <3>3. cron' = cron \cup {new}
        OBVIOUS
    <3> HIDE DEF new
    <3> QED BY <3>2, <3>3 DEF Scheduled
  <2>8. Runnable(todo[q]) = Runnable(todo'[q]) \cup {w}
      BY <2>1 DEF Runnable
  <2>9. Adding'
      BY <1>6, <2>2, <2>6, <2>7, <2>8 DEF AddEntry, Adding, Runnable
  <2> QED BY <1>6, <2>4, <2>5, <2>9 DEF AddEntry, TypeOK, Exclusive, NotBegun
<1>7. CASE SkipEntry(q)
  <2> PICK w \in todo[q] : w.expr \in Invalid /\ todo' = [todo EXCEPT ![q] = @ \ {w}]
      BY <1>7 DEF SkipEntry
  <2>1. todo'[q] = todo[q] \ {w}
      BY DEF TypeOK
  <2>2. \A p \in Procs : pc'[p] = "add" => p = q
      BY <1>7 DEF SkipEntry, Exclusive, TypeOK
  <2>3. Runnable(todo[q]) = Runnable(todo'[q])
      BY <2>1 DEF Runnable
  <2>4. Adding'
      BY <1>7, <2>1, <2>2, <2>3 DEF SkipEntry, Adding, Scheduled, Runnable
  <2>5. OneRowEach'
      BY DEF OneRowEach, TypeOK
  <2> QED BY <1>7, <2>4, <2>5 DEF SkipEntry, TypeOK, Exclusive, EntriesTracked, NotBegun
<1>8. CASE Unlock(q)
  <2>1. \A p \in Procs : pc'[p] \notin {"remove", "add"}
      BY <1>8 DEF Unlock, Exclusive, TypeOK
  <2> QED BY <1>8, <2>1 DEF Unlock, TypeOK, Exclusive, EntriesTracked, OneRowEach, NotBegun, Adding
<1> QED BY <1>1, <1>2, <1>3, <1>4, <1>5, <1>6, <1>7, <1>8 DEF Reload

\* The invariant is inductive.
LEMMA NextIInv == IInv /\ [Next]_vars => IInv'
<1> SUFFICES ASSUME IInv, [Next]_vars PROVE IInv'
    OBVIOUS
<1>t. TypeOK'
    BY TypeStep
<1>1. ASSUME NEW q \in Requests,
             \/ \E s \in Schedules, row \in Row : CreateSchedule(q, s, row)
                                                  \/ UpdateSchedule(q, s, row)
             \/ \E s \in Schedules : DeleteSchedule(q, s)
             \/ DeleteDestination(q) \/ SetLinks(q) \/ SetLinksFails(q)
      PROVE  IInv'
  <2>1. UNCHANGED <<entriesVars, mu, listed, todo>>
      BY <1>1 DEF CreateSchedule, UpdateSchedule, DeleteSchedule, DeleteDestination,
                  SetLinks, SetLinksFails
  <2>2. \E stage \in {"links", "list", "done"} : pc' = [pc EXCEPT ![q] = stage]
      BY <1>1 DEF CreateSchedule, UpdateSchedule, DeleteSchedule, DeleteDestination,
                  SetLinks, SetLinksFails
  <2>3. \A p \in Procs : pc'[p] \in {"lock", "remove", "add"} => pc'[p] = pc[p]
      BY <2>2 DEF IInv, TypeOK
  <2> QED BY <1>t, <2>1, <2>3 DEF entriesVars, IInv, Exclusive, EntriesTracked, OneRowEach,
                                  NotBegun, Adding, Scheduled, Runnable
<1>2. ASSUME NEW q \in Procs, Reload(q)
      PROVE  IInv'
    BY <1>t, <1>2, ReloadStep
<1>3. CASE Restart
  <2>1. \A p \in Procs : pc'[p] \notin {"lock", "remove", "add"}
      BY <1>3 DEF Restart, Active, IInv, TypeOK
  <2> QED BY <1>t, <1>3, <2>1 DEF Restart, IInv, Exclusive, EntriesTracked, OneRowEach,
                                  NotBegun, Adding
<1>4. CASE UNCHANGED vars
    BY <1>t, <1>4 DEF vars, entriesVars, IInv, Exclusive, EntriesTracked, OneRowEach, NotBegun,
                      Adding, Scheduled, Runnable
<1> QED BY <1>1, <1>2, <1>3, <1>4 DEF Next

LEMMA Invariance == Spec => []IInv
<1> QED BY InitIInv, NextIInv, PTL DEF Spec

-----------------------------------------------------------------------------
\* Every variable keeps its type.
THEOREM TypeCorrect == Spec => []TypeOK
<1>1. IInv => TypeOK
    BY DEF IInv
<1> QED BY <1>1, Invariance, PTL

\* No request, however it overlaps with others, leaves a cron entry behind that
\* the scheduler's map has lost and no later Reload could remove.
THEOREM Tracked == Spec => []EntriesTracked
<1>1. IInv => EntriesTracked
    BY DEF IInv
<1> QED BY <1>1, Invariance, PTL

\* Whenever a Reload lets go of the mutex, the cron entries are exactly the
\* valid ones among the rows it listed.
THEOREM WholeReload == Spec => ReloadIsWhole
<1>1. IInv /\ [Next]_vars
        => [\A q \in Procs : Unlock(q) => Scheduled = Runnable(listed[q])]_vars
  <2> SUFFICES ASSUME IInv, NEW q \in Procs, Unlock(q)
               PROVE  Scheduled = Runnable(listed[q])
      OBVIOUS
  <2>1. Runnable(todo[q]) = {}
      BY DEF Unlock, Runnable
  <2> QED BY <2>1 DEF Unlock, IInv, Adding
<1> QED BY <1>1, Invariance, PTL DEF Spec, ReloadIsWhole

-----------------------------------------------------------------------------
(* When requests do not overlap. *)

Awake(p) == pc[p] \notin {"idle", "done"}
OneAwake == alone => \A p, q \in Procs : Awake(p) /\ Awake(q) => p = q
ListedNow ==
    alone => \A q \in Procs : pc[q] \in {"lock", "remove", "add"} => listed[q] = Enabled
SyncInv == IInv /\ OneAwake /\ ListedNow /\ InSyncWhenQuiet

LEMMA ListsEnabled == ListEnabledSchedules = Enabled
    BY DEF ListEnabledSchedules, Enabled

\* Until the one request that is served has ended, nobody expects the cron to be
\* in step.
LEMMA StillAwake ==
    ASSUME SyncInv, IInv', OneAwake', ListedNow', NEW q \in Procs, Awake(q)'
    PROVE  SyncInv'
<1>1. ~Quiet'
    BY DEF Awake, Quiet
<1> QED BY <1>1 DEF SyncInv, InSyncWhenQuiet, KeptInSync

\* A request arrives: alone, if all others are over.
LEMMA ArrivalSync ==
    ASSUME SyncInv, IInv', NEW q \in Requests, Arrives(q), NEW stage \in {"links", "list"},
           Goto(q, stage)
    PROVE  SyncInv'
<1>1. pc \in [Procs -> Stages] /\ pc' = [pc EXCEPT ![q] = stage] /\ q \in Procs
    BY DEF SyncInv, IInv, TypeOK
<1>2. pc[Boot] = "done" /\ (alone' => Active = {})
    BY DEF Arrives
<1>3. alone' => \A p \in Procs : p # q => ~Awake(p)'
    BY <1>1, <1>2 DEF Active, Awake
<1>4. OneAwake' /\ ListedNow' /\ Awake(q)'
    BY <1>1, <1>3 DEF OneAwake, ListedNow, Awake
<1> QED BY <1>1, <1>4, StillAwake

\* What a request that is served does to the inventory of who lists what.
LEMMA ServedSync ==
    ASSUME SyncInv, IInv', NEW q \in Procs, SetLinks(q) \/ (Reload(q) /\ ~ListFails(q))
    PROVE  SyncInv'
<1> USE DEF db, history
<1>1. pc \in [Procs -> Stages] /\ listed \in [Procs -> SUBSET Wanted]
    BY DEF SyncInv, IInv, TypeOK
<1>2. UNCHANGED <<alone, table>>
    BY DEF SetLinks, Reload, List, Lock, RemoveEntry, AllRemoved, AddEntry, SkipEntry, Unlock
<1>3. Awake(q) /\ Enabled' = Enabled /\ (alone' <=> alone)
    BY <1>2 DEF SetLinks, Reload, List, Lock, RemoveEntry, AllRemoved, AddEntry, SkipEntry,
                Unlock, Awake, Enabled
<1>4. \A p \in Procs : p # q => pc'[p] = pc[p] /\ listed'[p] = listed[p]
    BY <1>1 DEF SetLinks, Reload, List, Lock, RemoveEntry, AllRemoved, AddEntry, SkipEntry,
                Unlock
<1>5. alone => \A p \in Procs : p # q => ~Awake(p) /\ ~Awake(p)'
    BY <1>3, <1>4 DEF SyncInv, OneAwake, Awake
<1>6. OneAwake'
    BY <1>3, <1>5 DEF OneAwake
<1>7. alone /\ pc'[q] \in {"lock", "remove", "add"} => listed'[q] = Enabled
    BY <1>1, ListsEnabled
       DEF SetLinks, Reload, List, Lock, RemoveEntry, AllRemoved, AddEntry, SkipEntry, Unlock,
           SyncInv, ListedNow
<1>8. ListedNow'
    BY <1>3, <1>5, <1>7 DEF ListedNow, Awake
<1>9. CASE Unlock(q)
  <2>1. Scheduled = Runnable(listed[q])
    <3>1. Runnable(todo[q]) = {}
        BY <1>9 DEF Unlock, Runnable
    <3> QED BY <1>9, <3>1 DEF Unlock, SyncInv, IInv, Adding
  <2>2. alone => listed[q] = Enabled
      BY <1>9 DEF Unlock, SyncInv, ListedNow
  <2>3. Scheduled' = Scheduled
      BY <1>9 DEF Unlock, entriesVars, Scheduled
  <2>4. InSyncWhenQuiet'
      BY <1>3, <2>1, <2>2, <2>3 DEF InSyncWhenQuiet, KeptInSync, Runnable
  <2> QED BY <1>6, <1>8, <2>4 DEF SyncInv
<1>10. CASE ~Unlock(q)
  <2>1. Awake(q)'
      BY <1>10, <1>1 DEF SetLinks, Reload, List, Lock, RemoveEntry, AllRemoved, AddEntry,
                         SkipEntry, Awake
  <2> QED BY <1>6, <1>8, <2>1, StillAwake
<1> QED BY <1>9, <1>10

LEMMA InitSync == Init => SyncInv
<1> SUFFICES ASSUME Init PROVE SyncInv
    OBVIOUS
<1>1. pc = [p \in Procs |-> IF p = Boot THEN "list" ELSE "idle"]
    BY DEF Init
<1>2. OneAwake /\ ListedNow /\ ~Quiet
    BY <1>1 DEF OneAwake, ListedNow, Awake, Quiet
<1> QED BY <1>2, InitIInv DEF SyncInv, InSyncWhenQuiet, KeptInSync

LEMMA StepSync == SyncInv /\ [Next]_vars => SyncInv'
<1> SUFFICES ASSUME SyncInv, [Next]_vars PROVE SyncInv'
    OBVIOUS
<1>i. IInv'
    BY NextIInv DEF SyncInv
<1>1. ASSUME NEW q \in Requests,
             \/ \E s \in Schedules, row \in Row : CreateSchedule(q, s, row)
                                                  \/ UpdateSchedule(q, s, row)
             \/ \E s \in Schedules : DeleteSchedule(q, s)
             \/ DeleteDestination(q)
      PROVE  SyncInv'
  <2>1. Arrives(q) /\ \E stage \in {"links", "list"} : Goto(q, stage)
      BY <1>1 DEF CreateSchedule, UpdateSchedule, DeleteSchedule, DeleteDestination
  <2> QED BY <1>i, <2>1, ArrivalSync
<1>2. ASSUME NEW q \in Procs, SetLinks(q) \/ (Reload(q) /\ ~ListFails(q))
      PROVE  SyncInv'
    BY <1>i, <1>2, ServedSync
<1>3. ASSUME NEW q \in Procs, SetLinksFails(q) \/ ListFails(q)
      PROVE  SyncInv'
  <2>1. ~alone'
      BY <1>3 DEF SetLinksFails, ListFails
  <2> QED BY <1>i, <2>1 DEF SyncInv, OneAwake, ListedNow, InSyncWhenQuiet
<1>4. CASE Restart
  <2>1. pc' = [p \in Procs |-> IF p = Boot THEN "list"
                               ELSE IF p \in Active THEN "done" ELSE pc[p]]
      BY <1>4 DEF Restart
  <2>2. Awake(Boot)' /\ \A p \in Procs : p # Boot => ~Awake(p)'
      BY <2>1 DEF Awake, Active
  <2>3. OneAwake' /\ ListedNow'
      BY <2>1, <2>2 DEF OneAwake, ListedNow, Awake
  <2> QED BY <1>i, <2>2, <2>3, StillAwake
<1>5. CASE UNCHANGED vars
    BY <1>i, <1>5 DEF vars, db, entriesVars, history, SyncInv, OneAwake, ListedNow,
                      InSyncWhenQuiet, KeptInSync, Quiet, Scheduled, Runnable, Enabled, Awake
<1> QED BY <1>1, <1>2, <1>3, <1>4, <1>5 DEF Next

\* After a request that was served by itself and without a failure, the cron runs
\* what the table enables, whatever earlier requests left behind.
THEOREM BackInSync == Spec => []InSyncWhenQuiet
<1>1. SyncInv => InSyncWhenQuiet
    BY DEF SyncInv
<1> QED BY <1>1, InitSync, StepSync, PTL DEF Spec
=============================================================================
