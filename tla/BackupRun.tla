----------------------------- MODULE BackupRun -----------------------------
(***************************************************************************)
(* Backup runs of loxbak: internal/scheduler/job.go with the tables, the   *)
(* temp directory, the mirror's mutex and the destinations it works on,    *)
(* and the administrator's requests that change those while runs go on.    *)
(*                                                                         *)
(* A run is the goroutine of one RunSchedule or TriggerRun.  Each call it  *)
(* makes on something other runs or requests also touch is one step.       *)
(* pc[r] is the call the run is about to make:                             *)
(*                                                                         *)
(*    links    read the credential and the schedule's destination links    *)
(*    sched    read the schedule's row                                     *)
(*    lock     take mirrorMu                                               *)
(*    sync     ftp.Mirror                    (mirrorMu held)               *)
(*    stamp    archiveDir: name and create the file      (mirrorMu held)   *)
(*    zip      archiveDir: write, close, stat            (mirrorMu held)   *)
(*    open     read the destination, open the archive, begin Store         *)
(*    copy     the copying of Store                                        *)
(*    list     Prune: List                                                 *)
(*    prune    Prune: Delete the files beyond the newest keep              *)
(*    forget   drop the history rows of the deleted files                  *)
(*    record   insert this destination's outcome                           *)
(*    cleanup  the deferred os.Remove of the archive                       *)
(*    finish   FinishRun                                                   *)
(*                                                                         *)
(* Operators named X_Y are faulty variants of X: what the properties are   *)
(* there to notice.                                                        *)
(***************************************************************************)
EXTENDS ArchiveNames

CONSTANTS
    MaxRuns,       \* how many runs are started in all
    MaxActive,     \* how many may be under way at once
    Schedules,     \* schedule ids
    Dests,         \* destination ids
    Kind,          \* the type of each destination: "local", "webdav" or "ftp"
    InitNames,     \* the name of each schedule
    InitLinks,     \* the destination links of each schedule
    NewNames,      \* the names an administrator may rename a schedule to
    NewLinks,      \* the lists of links an administrator may set
    DeletableSchedules, DeletableDests,   \* what an administrator may delete
    UserRemoves,   \* whether backups are removed on the Backups page
    MinGap,        \* 0: two archives may be created in the same second; 1: not
    Faults,        \* the kinds of failure that may occur
    MaxCrashes,    \* how often the process may die
    None

Runs == 1..MaxRuns
Link == [dest : Dests, keep : Nat]
FaultKinds == {"load", "mirror", "archive", "store", "list", "delete", "reply", "db",
               "timeout", "hang"}

\* schedule_destinations is UNIQUE (schedule_id, destination_id).
LinkList(ls) == /\ ls \in Seq(Link)
                /\ \A i, j \in DOMAIN ls : ls[i].dest = ls[j].dest => i = j

ASSUME BoundsAssumption ==
    /\ MaxRuns \in Nat /\ MaxActive \in Nat /\ MaxCrashes \in Nat
    /\ MinGap \in {0, 1}
    /\ Faults \subseteq FaultKinds
    /\ UserRemoves \in BOOLEAN
ASSUME TablesAssumption ==
    /\ Kind \in [Dests -> {"local", "webdav", "ftp"}]
    /\ InitNames \in [Schedules -> Seq(Int)]
    /\ InitLinks \in [Schedules -> Seq(Link)]
    /\ \A s \in Schedules : LinkList(InitLinks[s])
    /\ NewNames \subseteq Seq(Int)
    /\ \A ls \in NewLinks : LinkList(ls)
    /\ DeletableSchedules \subseteq Schedules /\ DeletableDests \subseteq Dests
ASSUME NoneAssumption ==
    None \notin Runs \cup Dests \cup Files \cup Seq(Int) \cup [dest : Dests, file : Files]

VARIABLES
    names,     \* schedules table: the name of a schedule, None once deleted
    links,     \* schedule_destinations table
    dests,     \* destinations table: the ids it holds
    runs,      \* runs table: status ("none" before the row exists) and filename
    results,   \* run_destination_results table
    clock,     \* the second in which the last archive was created
    mu,        \* mirrorMu: the run holding it, or None
    temp,      \* os.TempDir(): file name -> who wrote it and whether it is whole
    store,     \* what each destination holds: file name -> the same
    pc, job,   \* each run's goroutine: its next call and its local variables
    expired,   \* the runs whose two hours (runTimeout) are over
    hung,      \* the runs waiting for a peer that will never answer
    removing,  \* the Backups page's removal under way
    deleting,  \* the destination whose delete has counted no links
    crashes    \* how often the process has died

tables == <<names, links, dests>>
history == <<runs, results>>
peers == <<expired, hung, removing, deleting, crashes>>
vars == <<tables, history, clock, mu, temp, store, pc, job, peers>>

-----------------------------------------------------------------------------
(* Files.  A file's content is the run that wrote it and whether all of it is there. *)
Content == [by : Runs, whole : BOOLEAN]
Partial(r) == [by |-> r, whole |-> FALSE]
Whole(r) == [by |-> r, whole |-> TRUE]

Write(dir, f, c) == [g \in DOMAIN dir \cup {f} |-> IF g = f THEN c ELSE dir[g]]
Unlink(dir, f) == [g \in DOMAIN dir \ {f} |-> dir[g]]

(* The local variables of doRun and of what it calls. *)
Stages == {"idle", "links", "sched", "lock", "sync", "stamp", "zip", "open", "copy",
           "list", "prune", "forget", "record", "cleanup", "finish", "done"}
Jobs == [sched : Schedules \cup {None},
         name : Seq(Int),                     \* sched.Name
         plan : Seq(Link),                    \* links
         at : Nat,                            \* the loop's position in links
         file : Files \cup {None},            \* archivePath
         cut : SUBSET Files,                  \* matched[keep:], not yet deleted
         gone : SUBSET Files,                 \* deleted, history not yet dropped
         failed : SUBSET Nat]                 \* the positions that failed
NoJob == [sched |-> None, name |-> <<>>, plan |-> <<>>, at |-> 1, file |-> None,
          cut |-> {}, gone |-> {}, failed |-> {}]

Active == {r \in Runs : pc[r] \notin {"idle", "done"}}
Started == {r \in Runs : pc[r] # "idle"}
Dest(r) == job[r].plan[job[r].at].dest
Keep(r) == job[r].plan[job[r].at].keep
AtStage(r, stage) == pc[r] = stage /\ r \notin hung
Goto(r, stage) == pc' = [pc EXCEPT ![r] = stage]

Row == [run : Runs, at : Nat, dest : Dests \cup {None}, status : {"success", "failed"}]

Init ==
    /\ names = InitNames
    /\ links = InitLinks
    /\ dests = Dests
    /\ runs = [r \in Runs |-> [status |-> "none", file |-> None]]
    /\ results = {}
    /\ clock = 0
    /\ mu = None
    /\ temp = <<>>
    /\ store = [d \in Dests |-> <<>>]
    /\ pc = [r \in Runs |-> "idle"]
    /\ job = [r \in Runs |-> NoJob]
    /\ expired = {} /\ hung = {}
    /\ removing = None /\ deleting = None
    /\ crashes = 0

-----------------------------------------------------------------------------
(* Starting, and reading what the run is to do. *)

\* RunSchedule (cron) and TriggerRun ("run now"): the row first, then the work.
\* runs.schedule_id is a foreign key, so no row without the schedule.
Start(r, s) ==
    /\ pc[r] = "idle" /\ r = Cardinality(Started) + 1
    /\ Cardinality(Active) < MaxActive
    /\ names[s] # None
    /\ runs' = [runs EXCEPT ![r].status = "running"]
    /\ job' = [job EXCEPT ![r].sched = s]
    /\ Goto(r, "links")
    /\ UNCHANGED <<tables, results, clock, mu, temp, store, peers>>

ReadLinks(r) ==
    /\ AtStage(r, "links")
    /\ links[job[r].sched] # <<>>
    /\ job' = [job EXCEPT ![r].plan = links[job[r].sched]]
    /\ Goto(r, "sched")
    /\ UNCHANGED <<tables, history, clock, mu, temp, store, peers>>

ReadSchedule_Unchecked(r) ==
    /\ AtStage(r, "sched")
    /\ job' = [job EXCEPT ![r].name = names[job[r].sched]]
    /\ Goto(r, "lock")
    /\ UNCHANGED <<tables, history, clock, mu, temp, store, peers>>

ReadSchedule(r) ==
    /\ AtStage(r, "sched")
    /\ names[job[r].sched] # None
    /\ job' = [job EXCEPT ![r].name = names[job[r].sched]]
    /\ Goto(r, "lock")
    /\ UNCHANGED <<tables, history, clock, mu, temp, store, peers>>

\* No credential, no links, no schedule, or a read that fails.
LoadFails(r) ==
    /\ \/ AtStage(r, "links") /\ links[job[r].sched] = <<>>
       \/ AtStage(r, "sched") /\ names[job[r].sched] = None
       \/ (AtStage(r, "links") \/ AtStage(r, "sched")) /\ "load" \in Faults
    /\ Goto(r, "finish")
    /\ UNCHANGED <<tables, history, clock, mu, temp, store, job, peers>>

-----------------------------------------------------------------------------
(* The section under mirrorMu: sync the mirror, then archive it. *)

EnterMirror_NoWait(r) ==
    /\ AtStage(r, "lock")
    /\ mu' = r
    /\ Goto(r, "sync")
    /\ UNCHANGED <<tables, history, clock, temp, store, job, peers>>

\* Lock does not look at the context; Mirror's first dial does, so a run whose
\* time ran out while it queued fails as soon as it has the lock.
EnterMirror(r) ==
    /\ AtStage(r, "lock")
    /\ mu = None
    /\ IF r \in expired
       THEN mu' = mu /\ Goto(r, "finish")
       ELSE mu' = r /\ Goto(r, "sync")
    /\ UNCHANGED <<tables, history, clock, temp, store, job, peers>>

SyncDone(r) ==
    /\ AtStage(r, "sync")
    /\ Goto(r, "stamp")
    /\ UNCHANGED <<tables, history, clock, mu, temp, store, job, peers>>

SyncFails_KeepsMutex(r) ==
    /\ AtStage(r, "sync")
    /\ "mirror" \in Faults \/ r \in expired
    /\ Goto(r, "finish")
    /\ UNCHANGED <<tables, history, clock, mu, temp, store, job, peers>>

SyncFails(r) ==
    /\ AtStage(r, "sync")
    /\ "mirror" \in Faults \/ r \in expired
    /\ mu' = None
    /\ Goto(r, "finish")
    /\ UNCHANGED <<tables, history, clock, temp, store, job, peers>>

\* time.Now, to the second, and os.Create, which truncates what is there.
Stamp(r) ==
    /\ AtStage(r, "stamp")
    /\ \E t \in {clock + MinGap, clock + 1} \ {0} :
          LET f == ArchiveFile(job[r].name, t) IN
             /\ clock' = t
             /\ temp' = Write(temp, f, Partial(r))
             /\ job' = [job EXCEPT ![r].file = f]
    /\ Goto(r, "zip")
    /\ UNCHANGED <<tables, history, mu, store, peers>>

\* The zip is written and closed, and os.Stat finds it; the mutex is released.
ZipDone(r) ==
    /\ AtStage(r, "zip")
    /\ job[r].file \in DOMAIN temp
    /\ temp' = Write(temp, job[r].file, Whole(r))
    /\ mu' = None
    /\ Goto(r, "open")
    /\ UNCHANGED <<tables, history, clock, store, job, peers>>

\* archiveDir returns an error: nobody removes the file it has begun.
ArchiveFails(r) ==
    /\ \/ AtStage(r, "stamp") /\ "archive" \in Faults
       \/ AtStage(r, "zip") /\ ("archive" \in Faults \/ job[r].file \notin DOMAIN temp)
    /\ job' = [job EXCEPT ![r].file = None]
    /\ mu' = None
    /\ Goto(r, "finish")
    /\ UNCHANGED <<tables, history, clock, temp, store, peers>>

-----------------------------------------------------------------------------
(* storeToDestination, for one destination of the plan. *)

\* Store, List and Delete of an FTP destination each dial anew, with the run's
\* context; once connected they do not look at it, nor do the other types.
Dials(r) == Kind[Dest(r)] = "ftp" => r \notin expired

Fail(r) == [job EXCEPT ![r].failed = @ \cup {job[r].at}, ![r].cut = {}]

\* The destination's row, the archive, and Store's first call.  A local file and
\* an FTP upload appear truncated at once; a WebDAV server may hold a PUT back
\* until it is complete.
Open(r) ==
    /\ AtStage(r, "open")
    /\ Dest(r) \in dests
    /\ job[r].file \in DOMAIN temp
    /\ Dials(r)
    /\ \/ store' = [store EXCEPT ![Dest(r)] = Write(@, job[r].file, Partial(r))]
       \/ Kind[Dest(r)] = "webdav" /\ store' = store
    /\ Goto(r, "copy")
    /\ UNCHANGED <<tables, history, clock, mu, temp, job, peers>>

OpenFails_Skipped(r) ==
    /\ AtStage(r, "open")
    /\ Dest(r) \notin dests
    /\ Goto(r, "record")
    /\ UNCHANGED <<tables, history, clock, mu, temp, store, job, peers>>

OpenFails(r) ==
    /\ AtStage(r, "open")
    /\ \/ Dest(r) \notin dests
       \/ job[r].file \notin DOMAIN temp
       \/ "store" \in Faults \/ ~Dials(r)
    /\ job' = Fail(r)
    /\ Goto(r, "record")
    /\ UNCHANGED <<tables, history, clock, mu, temp, store, peers>>

\* What the copy may hold: the archive, unless another run has meanwhile
\* truncated or removed the file it is read from.
Copied(r) ==
    IF job[r].file \in DOMAIN temp /\ temp[job[r].file] = Whole(r)
    THEN {Whole(r)} ELSE {Whole(r), Partial(r)}

\* What is copied arrives.  A file unlinked while it was being written stays unlinked.
Arrive(r) ==
    \E c \in Copied(r) :
        store' = IF Kind[Dest(r)] = "webdav" \/ job[r].file \in DOMAIN store[Dest(r)]
                 THEN [store EXCEPT ![Dest(r)] = Write(@, job[r].file, c)]
                 ELSE store

\* Store returns.
CopyDone(r) ==
    /\ AtStage(r, "copy")
    /\ Arrive(r)
    /\ Goto(r, IF Keep(r) = 0 THEN "record" ELSE "list")
    /\ UNCHANGED <<tables, history, clock, mu, temp, job, peers>>

\* Store fails midway.  What was written stays.
CopyFails(r) ==
    /\ AtStage(r, "copy")
    /\ "store" \in Faults
    /\ job' = Fail(r)
    /\ Goto(r, "record")
    /\ UNCHANGED <<tables, history, clock, mu, temp, store, peers>>

\* An FTP or WebDAV server has done what it was asked, and its answer is lost: the
\* call fails all the same.
AnswersLost(d) == Kind[d] # "local" /\ "reply" \in Faults

\* All of the archive has arrived (STOR's 226, the PUT's 201 is what is missing).
CopyUnheard(r) ==
    /\ AtStage(r, "copy")
    /\ AnswersLost(Dest(r))
    /\ Arrive(r)
    /\ job' = Fail(r)
    /\ Goto(r, "record")
    /\ UNCHANGED <<tables, history, clock, mu, temp, peers>>

-----------------------------------------------------------------------------
(* pruneOldBackups: list, delete newest first, then drop the history rows.  *)
(* Its failures are logged; the run goes on to record a success.            *)

ListDone(r) ==
    /\ AtStage(r, "list")
    /\ Dials(r)
    /\ LET matched == {f \in DOMAIN store[Dest(r)] : Matches(f, job[r].name)}
           beyond == Beyond(matched, Keep(r))
       IN /\ job' = [job EXCEPT ![r].cut = beyond]
          /\ Goto(r, IF beyond = {} THEN "record" ELSE "prune")
    /\ UNCHANGED <<tables, history, clock, mu, temp, store, peers>>

ListFails(r) ==
    /\ AtStage(r, "list")
    /\ "list" \in Faults \/ ~Dials(r)
    /\ Goto(r, "record")
    /\ UNCHANGED <<tables, history, clock, mu, temp, store, job, peers>>

\* A WebDAV server's 404 counts as deleted.
Deletable(r, f) == f \in DOMAIN store[Dest(r)] \/ Kind[Dest(r)] = "webdav"

PruneDelete(r) ==
    /\ AtStage(r, "prune")
    /\ \E f \in job[r].cut :
          /\ IsNewest(f, job[r].cut)
          /\ Deletable(r, f) /\ Dials(r)
          /\ store' = [store EXCEPT ![Dest(r)] = Unlink(@, f)]
          /\ job' = [job EXCEPT ![r].cut = @ \ {f}, ![r].gone = @ \cup {f}]
          /\ Goto(r, IF job[r].cut = {f} THEN "forget" ELSE "prune")
    /\ UNCHANGED <<tables, history, clock, mu, temp, peers>>

PruneStops_ForgetsNothing(r) ==
    /\ AtStage(r, "prune")
    /\ \E f \in job[r].cut :
          /\ IsNewest(f, job[r].cut)
          /\ ~Deletable(r, f) \/ "delete" \in Faults \/ ~Dials(r)
    /\ job' = [job EXCEPT ![r].cut = {}, ![r].gone = {}]
    /\ Goto(r, "record")
    /\ UNCHANGED <<tables, history, clock, mu, temp, store, peers>>

\* A Delete fails, because the file is gone or otherwise: Prune gives up.
PruneStops(r) ==
    /\ AtStage(r, "prune")
    /\ \E f \in job[r].cut :
          /\ IsNewest(f, job[r].cut)
          /\ ~Deletable(r, f) \/ "delete" \in Faults \/ ~Dials(r)
    /\ job' = [job EXCEPT ![r].cut = {}]
    /\ Goto(r, IF job[r].gone = {} THEN "record" ELSE "forget")
    /\ UNCHANGED <<tables, history, clock, mu, temp, store, peers>>

\* The file is deleted, but Prune does not hear of it: it gives up, and the file is
\* not among those it returns.
PruneUnheard(r) ==
    /\ AtStage(r, "prune")
    /\ AnswersLost(Dest(r)) /\ Dials(r)
    /\ \E f \in job[r].cut :
          /\ IsNewest(f, job[r].cut)
          /\ store' = [store EXCEPT ![Dest(r)] = Unlink(@, f)]
    /\ job' = [job EXCEPT ![r].cut = {}]
    /\ Goto(r, IF job[r].gone = {} THEN "record" ELSE "forget")
    /\ UNCHANGED <<tables, history, clock, mu, temp, peers>>

\* DeleteRunDestinationResultByFilename: a run that has not finished has no
\* filename yet, so none of its rows match.
Forgotten(d, f) == {w \in results : w.dest = d /\ runs[w.run].file = f}

Forget(r) ==
    /\ AtStage(r, "forget")
    /\ \E f \in job[r].gone :
          /\ IsNewest(f, job[r].gone)
          /\ \/ results' = results \ Forgotten(Dest(r), f)
             \/ "db" \in Faults /\ results' = results
          /\ job' = [job EXCEPT ![r].gone = @ \ {f}]
          /\ Goto(r, IF job[r].gone = {f} THEN "record" ELSE "forget")
    /\ UNCHANGED <<tables, runs, clock, mu, temp, store, peers>>

-----------------------------------------------------------------------------
(* Recording the outcomes. *)

Record_StopsAtFailure(r) ==
    /\ AtStage(r, "record")
    /\ LET bad == job[r].at \in job[r].failed IN
          /\ results' = results \cup {[run |-> r, at |-> job[r].at, dest |-> Dest(r),
                                      status |-> IF bad THEN "failed" ELSE "success"]}
          /\ job' = [job EXCEPT ![r].at = @ + 1]
          /\ Goto(r, IF bad \/ job[r].at = Len(job[r].plan) THEN "cleanup" ELSE "open")
    /\ UNCHANGED <<tables, runs, clock, mu, temp, store, peers>>

\* CreateRunDestinationResult.  destination_id is a foreign key: for a destination
\* deleted meanwhile the insert fails, which is logged.
Record(r) ==
    /\ AtStage(r, "record")
    /\ LET outcome == IF job[r].at \in job[r].failed THEN "failed" ELSE "success"
           row == [run |-> r, at |-> job[r].at, dest |-> Dest(r), status |-> outcome]
       IN \/ Dest(r) \in dests /\ results' = results \cup {row}
          \/ (Dest(r) \notin dests \/ "db" \in Faults) /\ results' = results
    /\ job' = [job EXCEPT ![r].at = @ + 1]
    /\ Goto(r, IF job[r].at = Len(job[r].plan) THEN "cleanup" ELSE "open")
    /\ UNCHANGED <<tables, runs, clock, mu, temp, store, peers>>

Cleanup_OnSuccess(r) ==
    /\ AtStage(r, "cleanup")
    /\ temp' = IF job[r].failed = {} THEN Unlink(temp, job[r].file) ELSE temp
    /\ Goto(r, "finish")
    /\ UNCHANGED <<tables, history, clock, mu, store, job, peers>>

Cleanup_SweepsSchedule(r) ==
    /\ AtStage(r, "cleanup")
    /\ temp' = [f \in {g \in DOMAIN temp : g.prefix # job[r].file.prefix} |-> temp[f]]
    /\ Goto(r, "finish")
    /\ UNCHANGED <<tables, history, clock, mu, store, job, peers>>

Cleanup(r) ==
    /\ AtStage(r, "cleanup")
    /\ temp' = Unlink(temp, job[r].file)
    /\ Goto(r, "finish")
    /\ UNCHANGED <<tables, history, clock, mu, store, job, peers>>

Outcome_AnySuccess(r) ==
    IF job[r].file # None /\ job[r].failed # DOMAIN job[r].plan THEN "success" ELSE "failed"

\* doRun returned no error: an archive was made and no destination failed.
Outcome(r) == IF job[r].file # None /\ job[r].failed = {} THEN "success" ELSE "failed"

FinishRun(r) ==
    /\ AtStage(r, "finish")
    /\ \/ runs' = [runs EXCEPT ![r] = [status |-> Outcome(r), file |-> job[r].file]]
       \/ "db" \in Faults /\ runs' = runs
    /\ job' = [job EXCEPT ![r] = NoJob]
    /\ expired' = expired \ {r}
    /\ Goto(r, "done")
    /\ UNCHANGED <<tables, results, clock, mu, temp, store, hung, removing, deleting, crashes>>

-----------------------------------------------------------------------------
(* What happens to runs from outside. *)

\* The context's deadline passes: nobody is interrupted; a dial, and Mirror
\* between two files or directories, will look at it.
Expire(r) ==
    /\ "timeout" \in Faults
    /\ r \in Active \ expired
    /\ expired' = expired \cup {r}
    /\ UNCHANGED <<tables, history, clock, mu, temp, store, pc, job, hung, removing, deleting,
                   crashes>>

\* A peer accepts the connection and then stays silent: no deadline is set on it.
Hang(r) ==
    /\ "hang" \in Faults
    /\ r \notin hung
    /\ \/ pc[r] = "sync"
       \/ pc[r] \in {"copy", "list", "prune"} /\ Kind[Dest(r)] # "local"
    /\ hung' = hung \cup {r}
    /\ UNCHANGED <<tables, history, clock, mu, temp, store, pc, job, expired, removing, deleting,
                   crashes>>

\* The process dies.  Tables and files stay; nothing repairs them on restart.
Crash ==
    /\ crashes < MaxCrashes
    /\ Active # {}
    /\ crashes' = crashes + 1
    /\ pc' = [r \in Runs |-> IF r \in Active THEN "done" ELSE pc[r]]
    /\ job' = [r \in Runs |-> NoJob]
    /\ mu' = None
    /\ expired' = {} /\ hung' = {}
    /\ removing' = None /\ deleting' = None
    /\ UNCHANGED <<tables, history, clock, temp, store>>

-----------------------------------------------------------------------------
(* The administrator's requests. *)

\* UpdateSchedule's first transaction ...
RenameSchedule(s, n) ==
    /\ names[s] # None /\ names[s] # n
    /\ names' = [names EXCEPT ![s] = n]
    /\ UNCHANGED <<links, dests, history, clock, mu, temp, store, pc, job, peers>>

\* ... and its second.  A link to a destination that is gone aborts it.
SetScheduleDestinations(s, ls) ==
    /\ names[s] # None
    /\ \A i \in DOMAIN ls : ls[i].dest \in dests
    /\ links' = [links EXCEPT ![s] = ls]
    /\ UNCHANGED <<names, dests, history, clock, mu, temp, store, pc, job, peers>>

\* Cascades to its links; its runs are not touched.
DeleteSchedule(s) ==
    /\ names[s] # None
    /\ names' = [names EXCEPT ![s] = None]
    /\ links' = [links EXCEPT ![s] = <<>>]
    /\ UNCHANGED <<dests, history, clock, mu, temp, store, pc, job, peers>>

\* DeleteDestination, first statement: refused while a schedule links to it.
CountLinks(d) ==
    /\ deleting = None
    /\ d \in dests
    /\ \A s \in Schedules : \A i \in DOMAIN links[s] : links[s][i].dest # d
    /\ deleting' = d
    /\ UNCHANGED <<tables, history, clock, mu, temp, store, pc, job, expired, hung, removing,
                   crashes>>

\* The links without those to a destination, of which there is at most one.
WithoutLinksTo(ls, d) ==
    IF \E i \in DOMAIN ls : ls[i].dest = d
    THEN LET i == CHOOSE i \in DOMAIN ls : ls[i].dest = d
         IN [j \in 1..(Len(ls) - 1) |-> IF j < i THEN ls[j] ELSE ls[j + 1]]
    ELSE ls

\* Second statement, whatever was linked since: links to it go with it (ON DELETE
\* CASCADE), and its result rows lose their destination (SET NULL).
DeleteDestination(d) ==
    /\ deleting = d
    /\ \/ /\ dests' = dests \ {d}
          /\ links' = [s \in Schedules |-> WithoutLinksTo(links[s], d)]
          /\ results' = {IF w.dest = d THEN [w EXCEPT !.dest = None] ELSE w : w \in results}
       \/ "db" \in Faults /\ UNCHANGED <<dests, links, results>>
    /\ deleting' = None
    /\ UNCHANGED <<names, runs, clock, mu, temp, store, pc, job, expired, hung, removing, crashes>>

\* The Backups page's delete: the file, then, if that is known to be gone, its
\* history row.
RemoveBackup(d, f) ==
    /\ UserRemoves
    /\ removing = None
    /\ d \in dests
    /\ f \in DOMAIN store[d]
    /\ store' = [store EXCEPT ![d] = Unlink(@, f)]
    /\ \/ removing' = [dest |-> d, file |-> f]
       \/ AnswersLost(d) /\ removing' = None
    /\ UNCHANGED <<tables, history, clock, mu, temp, pc, job, expired, hung, deleting, crashes>>

RemoveHistory ==
    /\ removing # None
    /\ \/ results' = results \ Forgotten(removing.dest, removing.file)
       \/ "db" \in Faults /\ results' = results
    /\ removing' = None
    /\ UNCHANGED <<tables, runs, clock, mu, temp, store, pc, job, expired, hung, deleting, crashes>>

-----------------------------------------------------------------------------
\* What a run's goroutine does by itself.
RunStep(r) ==
    \/ ReadLinks(r) \/ ReadSchedule(r) \/ LoadFails(r)
    \/ EnterMirror(r) \/ SyncDone(r) \/ SyncFails(r)
    \/ Stamp(r) \/ ZipDone(r) \/ ArchiveFails(r)
    \/ Open(r) \/ OpenFails(r) \/ CopyDone(r) \/ CopyFails(r) \/ CopyUnheard(r)
    \/ ListDone(r) \/ ListFails(r)
    \/ PruneDelete(r) \/ PruneStops(r) \/ PruneUnheard(r) \/ Forget(r)
    \/ Record(r) \/ Cleanup(r) \/ FinishRun(r)

Administrator ==
    \/ \E s \in Schedules : \/ \E n \in NewNames : RenameSchedule(s, n)
                            \/ \E ls \in NewLinks : SetScheduleDestinations(s, ls)
    \/ \E s \in DeletableSchedules : DeleteSchedule(s)
    \/ \E d \in DeletableDests : CountLinks(d) \/ DeleteDestination(d)
    \/ \E d \in Dests : \E f \in DOMAIN store[d] : RemoveBackup(d, f)
    \/ RemoveHistory

Next ==
    \/ \E r \in Runs : \/ \E s \in Schedules : Start(r, s)
                       \/ RunStep(r) \/ Expire(r) \/ Hang(r)
    \/ Crash
    \/ Administrator

Spec == Init /\ [][Next]_vars

\* A goroutine that can take a step eventually does.  The number of runs is
\* bounded, so that is enough for the mutex to be won: it is held finitely often.
FairSpec == Spec /\ \A r \in Runs : WF_vars(RunStep(r))

-----------------------------------------------------------------------------
(* Properties.  Those that hold only without some kind of failure, request or *)
(* overlap say so; the README gives the runs that check each.                 *)

FileMap(dir) == /\ DOMAIN dir \subseteq Files
                /\ \A f \in DOMAIN dir : dir[f] \in Content

TypeOK ==
    /\ names \in [Schedules -> Seq(Int) \cup {None}]
    /\ links \in [Schedules -> Seq(Link)]
    /\ dests \subseteq Dests
    /\ runs \in [Runs -> [status : {"none", "running", "success", "failed"},
                          file : Files \cup {None}]]
    /\ results \subseteq Row
    /\ clock \in Nat
    /\ mu \in Runs \cup {None}
    /\ FileMap(temp)
    /\ DOMAIN store = Dests /\ \A d \in Dests : FileMap(store[d])
    /\ pc \in [Runs -> Stages]
    /\ job \in [Runs -> Jobs]
    /\ expired \subseteq Runs /\ hung \subseteq Runs
    /\ removing \in [dest : Dests, file : Files] \cup {None}
    /\ deleting \in Dests \cup {None}
    /\ crashes \in Nat

\* Two runs are never syncing or archiving the one mirror directory at a time,
\* whatever fails, hangs or dies (job.go, the comment on mirrorMu).
Mirroring == {"sync", "stamp", "zip"}
MirrorNotShared ==
    \A r, q \in Runs : pc[r] \in Mirroring /\ pc[q] \in Mirroring => r = q

\* From the moment a run lets go of the mutex until it removes its archive, the
\* path it uploads from holds the complete archive it made itself, although all
\* runs share the temp directory.  (MinGap = 1: archives a second apart.)
Uploading == {"open", "copy", "list", "prune", "forget", "record", "cleanup"}
OwnArchive(r) == job[r].file \in DOMAIN temp /\ temp[job[r].file] = Whole(r)
UploadReadsOwnArchive ==
    \A r \in Runs : pc[r] \in Uploading => OwnArchive(r)

\* A run lets go of the mutex with its own complete archive in the temp directory,
\* and nothing takes that from it until it removes it but a run whose archive has the
\* same file name: one of a name that sanitizes alike, made in the same second
\* (job.go, archiveDir), which nothing in the code prevents.
OnlyNamesakesDisturb ==
    [][\A r \in Runs :
          pc'[r] \in Uploading /\ (pc[r] \in Uploading => OwnArchive(r)) =>
              \/ OwnArchive(r)'
              \/ \E q \in Runs \ {r} : job[r].file \in {job[q].file, job'[q].file}]_vars

\* A prune, however stale its listing and whether or not it hears that it has deleted,
\* deletes a file only while a newer one of the same prefix is still at that
\* destination: overlapping prunes never take a prefix's last archive together.
\* (Separate names, no removals by hand.  Schedules whose names sanitize alike have
\* one prefix: the newer archive may be the other schedule's.)
Prunes(r) == PruneDelete(r) \/ PruneUnheard(r)
Pruned(r) == DOMAIN store[Dest(r)] \ DOMAIN store'[Dest(r)]
PruneLeavesNewer ==
    [][\A r \in Runs : Prunes(r) =>
          \A f \in Pruned(r) : \E g \in DOMAIN store'[Dest(r)] :
             Matches(g, job[r].name) /\ Newer(g, f)]_vars

\* When nothing is under way, the history says a run's archive is at a destination
\* exactly when all of it is there: retention forgets the rows of what it deletes and
\* nothing else.  Where a server's answer may be lost, a row may outlive an archive
\* that retention has taken, so that a later complete one is there, and an archive may
\* be there whose run has recorded a failure.  (Runs one at a time, a database that works.)
Says(r, d, status) == \E w \in results : w.run = r /\ w.dest = d /\ w.status = status
Keeps(r, d) == \E f \in DOMAIN store[d] : store[d][f] = Whole(r)
Superseded(r, d) == \E f \in DOMAIN store[d] : /\ store[d][f].whole
                                               /\ f.prefix = runs[r].file.prefix
                                               /\ f.stamp > runs[r].file.stamp
HistoryMatchesStore ==
    Active = {} =>
        \A r \in Runs, d \in Dests :
            /\ Says(r, d, "success") =>
                   Keeps(r, d) \/ (AnswersLost(d) /\ Superseded(r, d))
            /\ Keeps(r, d) =>
                   Says(r, d, "success") \/ (AnswersLost(d) /\ Says(r, d, "failed"))

\* When nothing is under way, a destination has no more archives of a schedule's
\* prefix than the schedule is to keep there, although prunes that overlap work from
\* listings the others' stores and deletes have outdated.  (WebDAV, where deleting what
\* another prune has deleted succeeds; listing, deleting and storing do not fail.)
RetentionSettles ==
    Active = {} =>
        \A s \in Schedules : \A i \in DOMAIN links[s] :
            LET l == links[s][i] IN
               l.keep > 0 => Cardinality({f \in DOMAIN store[l.dest] :
                                             Matches(f, names[s])}) <= l.keep

\* When nothing is under way, the temp directory is empty: every archive made
\* was removed by its run.  (Archiving does not fail, the process does not die.)
TempEmptied == Active = {} => DOMAIN temp = {}

\* A run that made an archive has a row for every destination it was given,
\* whatever happened there, before it is finished (job.go, doRun's comment:
\* "Per-destination outcomes are always recorded").
OutcomesAlwaysRecorded ==
    \A r \in Runs : pc[r] \in {"cleanup", "finish"} /\ job[r].file # None =>
        \A i \in DOMAIN job[r].plan : \E w \in results : w.run = r /\ w.at = i

\* A prune never deletes the archive its own run has just stored, the newest in
\* time (README.md, "keep the newest N backups per schedule per destination").
PruneKeepsJustStored ==
    [][\A r \in Runs : Prunes(r) => job[r].file \notin Pruned(r)]_vars

\* Once a destination holds a complete archive of a schedule it goes on holding
\* one (README.md, "keep the newest N backups").
HasWhole(d, p) == \E f \in DOMAIN store[d] : f.prefix = p /\ store[d][f].whole
GoodBackupSurvives ==
    [][\A d \in Dests : \A f \in DOMAIN store[d] :
          HasWhole(d, f.prefix) => HasWhole(d, f.prefix)']_vars

\* Every run ends, whether or not it succeeds, and whatever an administrator
\* does meanwhile, unless a peer keeps it waiting forever or keeps the run that
\* holds mirrorMu waiting: a silent destination holds up nobody else (job.go, the
\* comment on mirrorMu: uploads stay unserialized).  (No crash, the database works.)
EveryRunFinishes ==
    \A r \in Runs :
        runs[r].status = "running" ~>
            runs[r].status \in {"success", "failed"} \/ r \in hung \/ mu \in hung

-----------------------------------------------------------------------------
(* The promise: a destination's vault is its complete files; a run owes the  *)
(* positions of its plan it has not stored at, and has delivered at those    *)
(* where Store has returned without error.                                   *)
Tried(r) ==
    {i \in DOMAIN job[r].plan :
        \/ i < job[r].at
        \/ i = job[r].at /\ pc[r] \in {"list", "prune", "forget", "record"}}
Stored(r) == Tried(r) \ job[r].failed
DestsAt(r, I) == {job[r].plan[i].dest : i \in I}
Archives == {ArchiveFile(n, t) : n \in {InitNames[s] : s \in Schedules} \cup NewNames,
                                 t \in 1..MaxRuns}
ArchivePrefix(f) == f.prefix
ArchiveStamp(f) == f.stamp

Vault == INSTANCE BackupVault WITH
    Prefix <- ArchivePrefix, Stamp <- ArchiveStamp,
    phase <- [r \in Runs |-> runs[r].status],
    owed <- [r \in Runs |-> DestsAt(r, DOMAIN job[r].plan \ Stored(r))],
    got <- [r \in Runs |-> DestsAt(r, Stored(r))],
    vault <- [d \in Dests |-> {f \in DOMAIN store[d] : store[d][f].whole}]

\* The runs keep that promise when they do not overlap, whatever fails and whichever
\* answers of a destination are lost.
KeepsPromise == Vault!Spec
=============================================================================
