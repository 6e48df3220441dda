------------------------ MODULE BackupPromiseProofs ------------------------
(***************************************************************************)
(* Proofs about backup runs that do not overlap: that they keep the        *)
(* promise of BackupVault, and that the history tells what destinations    *)
(* hold.  Each step of BackupRun is a step of BackupVault or leaves its    *)
(* state alone, whatever fails, expires, hangs or dies, whichever answers  *)
(* of servers are lost and whatever an administrator changes, except that  *)
(* nobody removes backups by hand.                                         *)
(***************************************************************************)
EXTENDS RetentionProofs

\* What is assumed: one run at a time, archives a second apart, no removals by
\* hand, and names whose archives can be told apart.
OneAtATime == MaxActive <= 1 /\ MinGap = 1 /\ ~UserRemoves /\ Separate(Known)

-----------------------------------------------------------------------------
(* What is true of runs one at a time. *)

Resting == {"idle", "done"}
Solo == \A r, q \in Runs : pc[r] \notin Resting /\ pc[q] \notin Resting => r = q

\* Runs are numbered as they start, and each makes at most one archive: the clock
\* stays below the number of a run that has made none.
InTurn == \E n \in Nat : Started = 1..n
ClockBehind == clock <= MaxRuns /\ \A r \in Runs : pc[r] \in Unstamped => clock < r
StoreBehind == \A d \in Dests : \A f \in DOMAIN store[d] : f.stamp <= clock

LinksDistinct == /\ \A s \in Schedules : LinkList(links[s])
                 /\ \A r \in Runs : LinkList(job[r].plan)

\* A destination holds all of an archive.
Has(d, f) == f \in DOMAIN store[d] /\ store[d][f].whole

\* A run's archive is complete where it has stored it, and nowhere else but where it
\* has tried to and an answer may have been lost.
InPlace(r) == \A d \in Dests :
                 /\ d \in DestsAt(r, Stored(r)) => Has(d, job[r].file)
                 /\ Has(d, job[r].file) => /\ d \in DestsAt(r, Tried(r))
                                           /\ d \in DestsAt(r, Stored(r)) \/ AnswersLost(d)

\* What a run's stage says of its row, its local variables and the destinations; its
\* archive is the latest of all.
Doing(r) ==
    /\ pc[r] \in Resting => job[r] = NoJob
    /\ pc[r] = "idle" => runs[r].status = "none"
    /\ pc[r] \notin Resting => runs[r].status = "running"
    /\ pc[r] = "links" => job[r].plan = <<>>
    /\ pc[r] \in Unstamped => job[r].file = None
    /\ pc[r] \in Unstamped \cup {"zip"} => job[r].at = 1 /\ job[r].failed = {}
    /\ pc[r] \in {"open", "copy", "list", "prune", "forget"} => \A i \in job[r].failed : i < job[r].at
    /\ pc[r] = "record" => \A i \in job[r].failed : i <= job[r].at
    /\ pc[r] = "finish" /\ job[r].file = None => job[r].at = 1
    /\ pc[r] \in Archived => job[r].file.stamp = clock
    /\ pc[r] \in {"cleanup", "finish"} /\ job[r].file # None =>
          job[r].plan # <<>> /\ job[r].at = Len(job[r].plan) + 1
    /\ pc[r] = "copy" /\ Kind[Dest(r)] # "webdav" => job[r].file \in DOMAIN store[Dest(r)]
    /\ pc[r] \in Archived => InPlace(r)
    /\ pc[r] = "finish" /\ job[r].file # None => InPlace(r)

SoloInv == /\ Solo /\ InTurn /\ ClockBehind /\ StoreBehind /\ LinksDistinct
           /\ \A r \in Runs : Doing(r)

PInv == TInv /\ AInv /\ RInv /\ SoloInv

-----------------------------------------------------------------------------
(* What a run has stored. *)

LEMMA JobFields ==
    ASSUME TInv, NEW r \in Runs
    PROVE  /\ job[r] \in Jobs /\ job[r].plan \in Seq(Link) /\ job[r].at \in Nat
           /\ Len(job[r].plan) \in Nat /\ DOMAIN job[r].plan = 1..Len(job[r].plan)
           /\ job[r].failed \in SUBSET Nat
<1>1. job[r] \in Jobs
    BY DEF TInv, TypeOK
<1> QED BY <1>1 DEF Jobs

\* Only a failure at a destination adds to a run's failures, and only the end of
\* the run clears them.
LEMMA FailedKept ==
    ASSUME TInv, NEW r \in Runs, RunStep(r),
           ~OpenFails(r), ~CopyFails(r), ~CopyUnheard(r), ~FinishRun(r)
    PROVE  job'[r].failed = job[r].failed
<1>0. job \in [Runs -> Jobs]
    BY DEF TInv, TypeOK
<1>1. CASE job' = job
    BY <1>1
<1>2. CASE ReadLinks(r) \/ ReadSchedule(r)
    BY <1>0, <1>2 DEF ReadLinks, ReadSchedule, Jobs
<1>3. CASE Stamp(r) \/ ArchiveFails(r)
    BY <1>0, <1>3 DEF Stamp, ArchiveFails, Jobs
<1>4. CASE ListDone(r) \/ PruneDelete(r) \/ PruneStops(r) \/ PruneUnheard(r)
    BY <1>0, <1>4 DEF ListDone, PruneDelete, PruneStops, PruneUnheard, Jobs
<1>5. CASE Forget(r) \/ Record(r)
    BY <1>0, <1>5 DEF Forget, Record, Jobs
<1>6. CASE \/ LoadFails(r) \/ EnterMirror(r) \/ SyncDone(r) \/ SyncFails(r) \/ ZipDone(r)
           \/ Open(r) \/ CopyDone(r) \/ ListFails(r) \/ Cleanup(r)
    BY <1>1, <1>6 DEF LoadFails, EnterMirror, SyncDone, SyncFails, ZipDone, Open, CopyDone,
                      ListFails, Cleanup
<1> QED BY <1>2, <1>3, <1>4, <1>5, <1>6 DEF RunStep

\* A run without failures at the start of its plan has stored nothing.
LEMMA NothingStored ==
    ASSUME TInv, NEW r \in Runs, job[r].at = 1,
           pc[r] \notin {"list", "prune", "forget", "record"}
    PROVE  Stored(r) = {}
<1> QED BY JobFields DEF Stored, Tried

\* What a run has stored changes only when Store returns or the run ends: a
\* failure, heard or not, leaves the position out, and recording moves past it.  Where
\* it has tried it goes on having tried.
LEMMA StoredSame ==
    ASSUME TInv, TInv', NEW r \in Runs, Doing(r), RunStep(r),
           ~ReadLinks(r), ~CopyDone(r), ~FinishRun(r)
    PROVE  job'[r].plan = job[r].plan /\ Stored(r)' = Stored(r) /\ Tried(r) \subseteq Tried(r)'
<1>0. /\ job \in [Runs -> Jobs] /\ pc \in [Runs -> Stages]
      /\ job[r].at \in Nat /\ job[r].failed \in SUBSET Nat
      /\ DOMAIN job[r].plan \subseteq Nat
    BY JobFields DEF TInv, TypeOK
<1>1. CASE pc[r] \in Unstamped \cup {"zip"}
  <2>1. \/ ReadSchedule(r) \/ LoadFails(r) \/ EnterMirror(r) \/ SyncDone(r)
        \/ SyncFails(r) \/ Stamp(r) \/ ZipDone(r) \/ ArchiveFails(r)
      BY <1>1 DEF RunStep, Unstamped, AtStage, ReadLinks, Open, OpenFails, CopyDone, CopyFails,
                  CopyUnheard,
                  ListDone, ListFails, PruneDelete, PruneStops, PruneUnheard, Forget, Record,
                  Cleanup, FinishRun
  <2>2. pc'[r] \in {"lock", "sync", "stamp", "zip", "open", "finish"}
    <3>1. CASE ReadSchedule(r) \/ LoadFails(r) \/ EnterMirror(r) \/ SyncDone(r)
        BY <1>0, <3>1 DEF ReadSchedule, LoadFails, EnterMirror, SyncDone, Goto
    <3>2. CASE SyncFails(r) \/ Stamp(r) \/ ZipDone(r) \/ ArchiveFails(r)
        BY <1>0, <3>2 DEF SyncFails, Stamp, ZipDone, ArchiveFails, Goto
    <3> QED BY <2>1, <3>1, <3>2
  <2>3. job'[r].plan = job[r].plan /\ job'[r].at = job[r].at
    <3>1. CASE ReadSchedule(r) \/ Stamp(r) \/ ArchiveFails(r)
        BY <1>0, <3>1 DEF ReadSchedule, Stamp, ArchiveFails, Jobs
    <3>2. ~Record(r)
        BY <1>1 DEF Record, AtStage, Unstamped
    <3> QED BY <2>1, <3>1, <3>2, LocalsKept
  <2>4. job[r].at = 1
      BY <1>1 DEF Doing
  <2>5. Stored(r) = {}
      BY <1>1, <2>4, NothingStored DEF Unstamped
  <2>6. Stored(r)' = {}
      BY <2>2, <2>3, <2>4, JobFields DEF Stored, Tried
  <2>7. Tried(r) = {}
      BY <1>1, <2>4, JobFields DEF Tried, Unstamped
  <2> QED BY <2>3, <2>5, <2>6, <2>7
<1>2. CASE OpenFails(r) \/ CopyFails(r) \/ CopyUnheard(r)
  <2>1. job' = Fail(r) /\ pc[r] \in {"open", "copy"} /\ pc'[r] = "record"
      BY <1>0, <1>2 DEF OpenFails, CopyFails, CopyUnheard, AtStage, Goto
  <2> QED BY <1>0, <2>1, FailView DEF Stored, Tried
<1>3. CASE Open(r) \/ ListDone(r) \/ ListFails(r) \/ PruneDelete(r) \/ PruneStops(r)
           \/ PruneUnheard(r) \/ Forget(r)
  <2>1. /\ job'[r].plan = job[r].plan /\ job'[r].at = job[r].at
        /\ job'[r].failed = job[r].failed
    <3>1. ~OpenFails(r) /\ ~CopyFails(r) /\ ~CopyUnheard(r) /\ ~Record(r)
      <4>1. pc'[r] # "record" \/ pc[r] \notin {"open", "copy", "record"}
          BY <1>0, <1>3 DEF Open, ListDone, ListFails, PruneDelete, PruneStops, PruneUnheard,
                            Forget, AtStage, Goto
      <4>2. pc[r] # "record"
          BY <1>3 DEF Open, ListDone, ListFails, PruneDelete, PruneStops, PruneUnheard, Forget,
                      AtStage
      <4> QED BY <1>0, <4>1, <4>2 DEF OpenFails, CopyFails, CopyUnheard, Record, AtStage, Goto
    <3> QED BY <1>3, <3>1, LocalsKept, FailedKept
  <2>2. CASE Open(r)
    <3>1. pc[r] = "open" /\ pc'[r] = "copy"
        BY <1>0, <2>2 DEF Open, AtStage, Goto
    <3> QED BY <2>1, <3>1 DEF Stored, Tried
  <2>3. CASE ~Open(r)
    <3>1. /\ pc[r] \in {"list", "prune", "forget", "record"}
          /\ pc'[r] \in {"list", "prune", "forget", "record"}
      <4>1. CASE ListDone(r) \/ ListFails(r)
          BY <1>0, <4>1 DEF ListDone, ListFails, AtStage, Goto
      <4>2. CASE PruneDelete(r) \/ PruneStops(r) \/ PruneUnheard(r) \/ Forget(r)
          BY <1>0, <4>2 DEF PruneDelete, PruneStops, PruneUnheard, Forget, AtStage, Goto
      <4> QED BY <1>3, <2>3, <4>1, <4>2
    <3> QED BY <2>1, <3>1 DEF Stored, Tried
  <2> QED BY <2>2, <2>3
<1>4. CASE Record(r)
  <2>1. /\ job'[r].plan = job[r].plan /\ job'[r].at = job[r].at + 1
        /\ job'[r].failed = job[r].failed
      BY <1>0, <1>4 DEF Record, Jobs
  <2>2. pc[r] = "record" /\ pc'[r] \in {"cleanup", "open"}
      BY <1>0, <1>4 DEF Record, AtStage, Goto
  <2>3. \A i \in Nat : i < job[r].at + 1 <=> i < job[r].at \/ i = job[r].at
      BY <1>0
  <2> QED BY <1>0, <2>1, <2>2, <2>3 DEF Stored, Tried
<1>5. CASE Cleanup(r)
  <2>1. job' = job /\ pc[r] = "cleanup" /\ pc'[r] = "finish"
      BY <1>0, <1>5 DEF Cleanup, AtStage, Goto
  <2> QED BY <2>1 DEF Stored, Tried
<1> QED
  <2>1. CASE pc[r] \notin Unstamped \cup {"zip"}
      BY <1>2, <1>3, <1>4, <1>5, <2>1 DEF RunStep, Unstamped, AtStage, ReadSchedule, LoadFails,
         EnterMirror, SyncDone, SyncFails, Stamp, ZipDone, ArchiveFails
  <2> QED BY <1>1, <2>1

\* When Store returns, the run has stored at one position more.
LEMMA StoredGrows ==
    ASSUME TInv, NEW r \in Runs, Doing(r), CopyDone(r)
    PROVE  /\ job' = job /\ job[r].at \in DOMAIN job[r].plan \ Stored(r)
           /\ Stored(r)' = Stored(r) \cup {job[r].at} /\ Tried(r)' = Tried(r) \cup {job[r].at}
<1>0. /\ pc \in [Runs -> Stages] /\ job[r].at \in DOMAIN job[r].plan
      /\ job[r].at \in Nat /\ job[r].failed \in SUBSET Nat
    BY JobFields DEF TInv, TypeOK, JobOK, Looping, CopyDone, AtStage
<1>1. job' = job /\ pc[r] = "copy" /\ pc'[r] \in {"list", "record"}
    BY <1>0 DEF CopyDone, AtStage, Goto
<1>2. job[r].at \notin job[r].failed
    BY <1>0, <1>1 DEF Doing
<1> QED BY <1>0, <1>1, <1>2 DEF Stored, Tried

-----------------------------------------------------------------------------
(* Runs one at a time, and the order of their archives. *)

\* The clock moves with an archive only.
LEMMA ClockSteps ==
    ASSUME [Next]_vars, ~ \E r \in Runs : Stamp(r)
    PROVE  clock' = clock
<1>1. ASSUME NEW r \in Runs, RunStep(r)
      PROVE  clock' = clock
  <2>1. CASE \/ ReadLinks(r) \/ ReadSchedule(r) \/ LoadFails(r) \/ EnterMirror(r) \/ SyncDone(r)
             \/ SyncFails(r) \/ ZipDone(r) \/ ArchiveFails(r) \/ Open(r) \/ OpenFails(r)
      BY <2>1 DEF ReadLinks, ReadSchedule, LoadFails, EnterMirror, SyncDone, SyncFails,
                  ZipDone, ArchiveFails, Open, OpenFails
  <2>2. CASE CopyDone(r) \/ CopyFails(r) \/ CopyUnheard(r) \/ ListDone(r) \/ ListFails(r)
             \/ PruneDelete(r)
      BY <2>2 DEF CopyDone, CopyFails, CopyUnheard, ListDone, ListFails, PruneDelete
  <2>3. CASE PruneStops(r) \/ PruneUnheard(r) \/ Forget(r) \/ Record(r) \/ Cleanup(r)
             \/ FinishRun(r)
      BY <2>3 DEF PruneStops, PruneUnheard, Forget, Record, Cleanup, FinishRun
  <2> QED BY <1>1, <2>1, <2>2, <2>3 DEF RunStep
<1>2. CASE (\E r \in Runs : \E s \in Schedules : Start(r, s)) \/ Crash
    BY <1>2 DEF Start, Crash
<1> QED BY <1>1, <1>2, WhoMoves, OutsideMovesNone

\* A run under way is in a stage between idle and done, and stays out of idle.
LEMMA RunStages ==
    ASSUME TInv, NEW r \in Runs, RunStep(r)
    PROVE  /\ pc[r] \notin Resting /\ pc'[r] # "idle"
           /\ pc'[r] \in Unstamped => pc[r] \in Unstamped /\ ~Stamp(r)
           /\ pc'[r] = "done" => FinishRun(r)
<1>0. pc \in [Runs -> Stages]
    BY DEF TInv, TypeOK
<1>1. CASE \/ ReadLinks(r) \/ ReadSchedule(r) \/ LoadFails(r) \/ EnterMirror(r) \/ SyncDone(r)
    BY <1>0, <1>1 DEF ReadLinks, ReadSchedule, LoadFails, EnterMirror, SyncDone, Stamp, AtStage,
                      Goto, Resting, Unstamped
<1>2. CASE SyncFails(r) \/ Stamp(r) \/ ZipDone(r) \/ ArchiveFails(r)
    BY <1>0, <1>2 DEF SyncFails, Stamp, ZipDone, ArchiveFails, AtStage, Goto, Resting, Unstamped
<1>3. CASE Open(r) \/ OpenFails(r) \/ CopyDone(r) \/ CopyFails(r) \/ CopyUnheard(r)
           \/ ListDone(r) \/ ListFails(r)
    BY <1>0, <1>3 DEF Open, OpenFails, CopyDone, CopyFails, CopyUnheard, ListDone, ListFails,
                      AtStage, Goto,
                      Resting, Unstamped
<1>4. CASE PruneDelete(r) \/ PruneStops(r) \/ PruneUnheard(r) \/ Forget(r)
    BY <1>0, <1>4 DEF PruneDelete, PruneStops, PruneUnheard, Forget, AtStage, Goto, Resting,
                      Unstamped
<1>5. CASE Record(r) \/ Cleanup(r) \/ FinishRun(r)
    BY <1>0, <1>5 DEF Record, Cleanup, FinishRun, AtStage, Goto, Resting, Unstamped
<1> QED BY <1>1, <1>2, <1>3, <1>4, <1>5 DEF RunStep

LEMMA RunsFinite == IsFiniteSet(Runs) /\ Cardinality(Runs) = MaxRuns
BY BoundsAssumption, FS_Interval DEF Runs

\* The run that moves is the only one under way.
LEMMA Alone ==
    ASSUME MaxActive <= 1, TInv, Solo, NEW r \in Runs,
           RunStep(r) \/ \E s \in Schedules : Start(r, s)
    PROVE  \A q \in Runs \ {r} : pc[q] \in Resting
<1>1. CASE RunStep(r)
    BY <1>1, RunStages DEF Solo
<1>2. CASE \E s \in Schedules : Start(r, s)
  <2>1. IsFiniteSet(Active) /\ Cardinality(Active) \in Nat
      BY RunsFinite, FS_Subset, FS_CardinalityType DEF Active
  <2>2. Cardinality(Active) = 0
      BY <1>2, <2>1, BoundsAssumption DEF Start
  <2>3. Active = {}
      BY <2>1, <2>2, FS_EmptySet
  <2> QED BY <2>3 DEF Active, Resting
<1> QED BY <1>1, <1>2

\* A run starts with the number after those of the runs already started.
LEMMA StartsNext ==
    ASSUME InTurn, NEW r \in Runs, NEW s \in Schedules, Start(r, s)
    PROVE  \E n \in Nat : Started = 1..n /\ r = n + 1
<1>1. PICK n \in Nat : Started = 1..n
    BY DEF InTurn
<1>2. Cardinality(1..n) = n
    BY FS_Interval
<1> QED BY <1>1, <1>2 DEF Start

LEMMA SoloMoves ==
    ASSUME MaxActive <= 1, TInv, Solo, InTurn, NEW r \in Runs,
           RunStep(r) \/ \E s \in Schedules : Start(r, s)
    PROVE  Solo' /\ InTurn'
<1>0. pc \in [Runs -> Stages]
    BY DEF TInv, TypeOK
<1>1. \A q \in Runs \ {r} : pc'[q] = pc[q] /\ pc[q] \in Resting
    BY Alone, OthersStay
<1>2. Solo'
    BY <1>1 DEF Solo
<1>3. CASE RunStep(r)
  <2>1. Started' = Started
      BY <1>1, <1>3, RunStages DEF Started, Resting
  <2> QED BY <1>2, <2>1 DEF InTurn
<1>4. CASE \E s \in Schedules : Start(r, s)
  <2>1. PICK n \in Nat : Started = 1..n /\ r = n + 1
      BY <1>4, StartsNext
  <2>2. pc'[r] = "links"
      BY <1>0, <1>4 DEF Start, Goto
  <2>3. Started' = Started \cup {r}
      BY <1>1, <2>2 DEF Started
  <2>4. Started' = 1..(n + 1) /\ n + 1 \in Nat
      BY <2>1, <2>3
  <2> QED BY <1>2, <2>4 DEF InTurn
<1> QED BY <1>3, <1>4

\* A run makes its archive before any later run has started.
LEMMA ClockMoves ==
    ASSUME MaxActive <= 1, MinGap = 1, TInv, Solo, InTurn, ClockBehind, NEW r \in Runs,
           RunStep(r) \/ \E s \in Schedules : Start(r, s)
    PROVE  ClockBehind' /\ clock <= clock' /\ clock' \in Nat
<1>0. pc \in [Runs -> Stages] /\ clock \in Nat /\ Runs \subseteq Nat
    BY DEF TInv, TypeOK, Runs
<1>1. \A q \in Runs \ {r} : pc'[q] = pc[q] /\ pc[q] \in Resting
    BY Alone, OthersStay
<1>2. CASE ~Stamp(r)
  <2>1. [Next]_vars /\ ~ \E q \in Runs : Stamp(q)
    <3>1. \A q \in Runs \ {r} : ~Stamp(q)
        BY <1>1 DEF Stamp, AtStage, Resting
    <3> QED BY <1>2, <3>1 DEF Next
  <2>2. clock' = clock
      BY <2>1, ClockSteps
  <2>3. pc'[r] \in Unstamped => pc[r] \in Unstamped
    <3>1. CASE RunStep(r)
        BY <3>1, RunStages
    <3>2. CASE \E s \in Schedules : Start(r, s)
        BY <3>2 DEF Start, Unstamped
    <3> QED BY <3>1, <3>2
  <2> QED BY <1>0, <1>1, <2>2, <2>3 DEF ClockBehind
<1>3. CASE Stamp(r)
  <2>1. clock' = clock + 1 /\ pc[r] = "stamp" /\ pc'[r] = "zip"
      BY <1>0, <1>3 DEF Stamp, AtStage, Goto
  <2>2. clock' <= r
      BY <1>0, <2>1 DEF ClockBehind, Unstamped
  <2>3. ASSUME NEW q \in Runs, pc'[q] \in Unstamped
        PROVE  clock' < q
    <3>1. q # r /\ pc[q] = "idle"
        BY <1>1, <2>1, <2>3 DEF Unstamped, Resting
    <3>2. PICK n \in Nat : Started = 1..n
        BY DEF InTurn
    <3>3. r \in 1..n /\ q \notin 1..n
        BY <2>1, <3>1, <3>2 DEF Started
    <3> QED BY <1>0, <2>1, <2>2, <3>2, <3>3 DEF Runs
  <2> QED BY <1>0, <2>1, <2>2, <2>3, BoundsAssumption DEF ClockBehind, Runs
<1> QED BY <1>2, <1>3

\* A run archives later than all a destination holds.
LEMMA StoreBehindMoves ==
    ASSUME TInv, AInv, StoreBehind, NEW r \in Runs, clock <= clock', clock' \in Nat,
           RunStep(r) \/ \E s \in Schedules : Start(r, s)
    PROVE  StoreBehind'
<1>0. /\ DOMAIN store = Dests /\ clock \in Nat
      /\ \A d \in Dests : \A f \in DOMAIN store[d] : f.stamp \in Nat
    BY DEF TInv, TypeOK, FileMap, Files
<1>1. SUFFICES \A d \in Dests : \A f \in DOMAIN store'[d] :
                  f \in DOMAIN store[d] \/ (f.stamp \in Nat /\ f.stamp <= clock)
    BY <1>0 DEF StoreBehind
<1>2. CASE Open(r) \/ CopyDone(r) \/ CopyUnheard(r)
  <2>1. job[r].file \in Files /\ job[r].file.stamp \in Nat /\ job[r].file # None
      BY <1>2, StoreGets, NoneAssumption DEF Files
  <2>2. job[r].file.stamp <= clock
      BY <2>1 DEF AInv, NotAhead
  <2> QED BY <1>2, <2>1, <2>2, StoreGets
<1>3. CASE Prunes(r)
  <2>1. \E e : store' = [store EXCEPT ![Dest(r)] = Unlink(@, e)]
      BY <1>3 DEF Prunes, PruneDelete, PruneUnheard
  <2> QED BY <1>0, <2>1 DEF Unlink
<1>4. CASE ~Open(r) /\ ~CopyDone(r) /\ ~CopyUnheard(r) /\ ~Prunes(r)
  <2>1. store' = store
    <3>1. CASE RunStep(r)
      <4>1. CASE \/ ReadLinks(r) \/ ReadSchedule(r) \/ LoadFails(r) \/ EnterMirror(r)
                 \/ SyncDone(r) \/ SyncFails(r) \/ Stamp(r) \/ ZipDone(r) \/ ArchiveFails(r)
          BY <4>1 DEF ReadLinks, ReadSchedule, LoadFails, EnterMirror, SyncDone, SyncFails,
                      Stamp, ZipDone, ArchiveFails
      <4>2. CASE OpenFails(r) \/ CopyFails(r) \/ ListDone(r) \/ ListFails(r) \/ PruneStops(r)
          BY <4>2 DEF OpenFails, CopyFails, ListDone, ListFails, PruneStops
      <4>3. CASE Forget(r) \/ Record(r) \/ Cleanup(r) \/ FinishRun(r)
          BY <4>3 DEF Forget, Record, Cleanup, FinishRun
      <4> QED BY <1>4, <3>1, <4>1, <4>2, <4>3 DEF RunStep, Prunes
    <3>2. CASE \E s \in Schedules : Start(r, s)
        BY <3>2 DEF Start
    <3> QED BY <3>1, <3>2
  <2> QED BY <2>1
<1> QED BY <1>2, <1>3, <1>4

LEMMA EmptyLinkList == LinkList(<<>>)
BY DEF LinkList

\* A list of links loses those to a destination and stays one.
LEMMA WithoutIsLinkList ==
    ASSUME NEW ls, LinkList(ls), NEW d
    PROVE  LinkList(WithoutLinksTo(ls, d))
<1>0. ls \in Seq(Link) /\ WithoutLinksTo(ls, d) \in Seq(Link)
    BY LinksWithout DEF LinkList
<1>1. CASE \E i \in DOMAIN ls : ls[i].dest = d
  <2> DEFINE i == CHOOSE i \in DOMAIN ls : ls[i].dest = d
             ms == [j \in 1..(Len(ls) - 1) |-> IF j < i THEN ls[j] ELSE ls[j + 1]]
  <2>1. i \in 1..Len(ls) /\ Len(ls) \in Nat /\ DOMAIN ls = 1..Len(ls)
      BY <1>0, <1>1
  <2>2. WithoutLinksTo(ls, d) = ms
      BY <1>1 DEF WithoutLinksTo
  <2>3. ASSUME NEW j \in DOMAIN ms, NEW k \in DOMAIN ms, ms[j].dest = ms[k].dest
        PROVE  j = k
    <3> DEFINE at(n) == IF n < i THEN n ELSE n + 1
    <3>1. /\ j \in 1..(Len(ls) - 1) /\ k \in 1..(Len(ls) - 1)
          /\ ms[j] = ls[at(j)] /\ ms[k] = ls[at(k)]
        BY <2>1
    <3>2. at(j) \in DOMAIN ls /\ at(k) \in DOMAIN ls
        BY <2>1, <3>1
    <3> HIDE DEF ms
    <3>3. at(j) = at(k)
        BY <2>3, <3>1, <3>2 DEF LinkList
    <3> QED BY <2>1, <3>1, <3>3
  <2> QED BY <1>0, <2>2, <2>3 DEF LinkList
<1>2. CASE ~ \E i \in DOMAIN ls : ls[i].dest = d
    BY <1>2 DEF WithoutLinksTo
<1> QED BY <1>1, <1>2

\* A run's plan is a schedule's list of links, or none.
LEMMA PlanSteps ==
    ASSUME TInv, NEW r \in Runs, RunStep(r) \/ \E s \in Schedules : Start(r, s)
    PROVE  \/ job'[r].plan \in {job[r].plan, <<>>}
           \/ \E s \in Schedules : job'[r].plan = links[s]
<1>0. job \in [Runs -> Jobs]
    BY DEF TInv, TypeOK
<1>1. CASE ReadLinks(r)
    BY <1>0, <1>1 DEF ReadLinks, AtStage, TInv, JobOK, Jobs
<1>2. CASE (\E s \in Schedules : Start(r, s)) \/ ReadSchedule(r)
    BY <1>0, <1>2 DEF Start, ReadSchedule, Jobs
<1>3. CASE Stamp(r) \/ ArchiveFails(r) \/ FinishRun(r)
    BY <1>0, <1>3 DEF Stamp, ArchiveFails, FinishRun, Jobs, NoJob
<1> QED BY <1>1, <1>2, <1>3, LocalsKept DEF RunStep

LEMMA LinksMove ==
    ASSUME TInv, LinksDistinct, NEW r \in Runs,
           RunStep(r) \/ \E s \in Schedules : Start(r, s)
    PROVE  LinksDistinct'
<1>1. \A q \in Runs : LinkList(job'[q].plan)
    BY PlanSteps, OthersStay, EmptyLinkList DEF LinksDistinct
<1>2. links' = links
  <2>1. CASE RunStep(r)
    <3>1. CASE \/ ReadLinks(r) \/ ReadSchedule(r) \/ LoadFails(r) \/ EnterMirror(r)
               \/ SyncDone(r) \/ SyncFails(r) \/ Stamp(r) \/ ZipDone(r) \/ ArchiveFails(r)
        BY <3>1 DEF ReadLinks, ReadSchedule, LoadFails, EnterMirror, SyncDone, SyncFails,
                    Stamp, ZipDone, ArchiveFails, tables
    <3>2. CASE \/ Open(r) \/ OpenFails(r) \/ CopyDone(r) \/ CopyFails(r) \/ CopyUnheard(r)
               \/ ListDone(r)
               \/ ListFails(r)
        BY <3>2 DEF Open, OpenFails, CopyDone, CopyFails, CopyUnheard, ListDone, ListFails, tables
    <3>3. CASE \/ PruneDelete(r) \/ PruneStops(r) \/ PruneUnheard(r) \/ Forget(r) \/ Record(r)
               \/ Cleanup(r)
               \/ FinishRun(r)
        BY <3>3 DEF PruneDelete, PruneStops, PruneUnheard, Forget, Record, Cleanup, FinishRun,
                    tables
    <3> QED BY <2>1, <3>1, <3>2, <3>3 DEF RunStep
  <2>2. CASE \E s \in Schedules : Start(r, s)
      BY <2>2 DEF Start, tables
  <2> QED BY <2>1, <2>2
<1> QED BY <1>1, <1>2 DEF LinksDistinct

-----------------------------------------------------------------------------
(* What the run under way knows. *)

\* Two positions of a plan are two destinations.
LEMMA PlanDests ==
    ASSUME TInv, LinksDistinct, NEW r \in Runs
    PROVE  /\ \A i \in DOMAIN job[r].plan : job[r].plan[i].dest \in Dests
           /\ \A i, j \in DOMAIN job[r].plan :
                 job[r].plan[i].dest = job[r].plan[j].dest => i = j
<1>1. \A i \in DOMAIN job[r].plan : job[r].plan[i] \in Link
    BY JobFields
<1>2. LinkList(job[r].plan)
    BY DEF LinksDistinct
<1> QED BY <1>1, <1>2 DEF LinkList, Link

LEMMA StoredInPlan ==
    \A r \in Runs : Stored(r) \subseteq Tried(r) /\ Tried(r) \subseteq DOMAIN job[r].plan
BY DEF Stored, Tried

\* A run that rests, and one that has not made its archive.
LEMMA RestingDoes ==
    ASSUME NEW r \in Runs, pc[r] \in Resting, Doing(r),
           pc'[r] = pc[r], job'[r] = job[r], runs'[r] = runs[r]
    PROVE  Doing(r)'
BY DEF Doing, Resting, Unstamped, Archived, Uploading

LEMMA DoingBefore ==
    ASSUME TInv, NEW r \in Runs, Doing(r),
           \/ \E s \in Schedules : Start(r, s)
           \/ ReadLinks(r) \/ ReadSchedule(r) \/ LoadFails(r)
           \/ EnterMirror(r) \/ SyncDone(r) \/ SyncFails(r) \/ ArchiveFails(r)
    PROVE  Doing(r)'
<1>0. /\ pc \in [Runs -> Stages] /\ job \in [Runs -> Jobs]
      /\ runs \in [Runs -> [status : {"none", "running", "success", "failed"},
                            file : Files \cup {None}]]
    BY DEF TInv, TypeOK
<1>1. CASE \E s \in Schedules : Start(r, s)
  <2>1. /\ pc'[r] = "links" /\ job[r] = NoJob /\ runs'[r].status = "running"
        /\ job'[r].plan = <<>> /\ job'[r].file = None /\ job'[r].at = 1 /\ job'[r].failed = {}
      BY <1>0, <1>1 DEF Start, Goto, Doing, Resting, NoJob
  <2> QED BY <2>1 DEF Doing, Resting, Unstamped, Archived, Uploading
<1>2. CASE ~ \E s \in Schedules : Start(r, s)
  <2>0. RunStep(r)
      BY <1>2 DEF RunStep
  <2>1. pc[r] \in Unstamped \cup {"zip"} /\ runs[r].status = "running"
    <3>1. pc[r] \in Unstamped \cup {"zip"}
        BY <1>2 DEF ReadLinks, ReadSchedule, LoadFails, EnterMirror, SyncDone, SyncFails,
                    ArchiveFails, AtStage, Unstamped
    <3>2. pc[r] \notin Resting
        BY <2>0, RunStages
    <3> QED BY <3>1, <3>2 DEF Doing
  <2>2. job[r].at = 1 /\ job[r].failed = {}
      BY <2>1 DEF Doing
  <2>3. /\ pc'[r] \in {"sched", "lock", "sync", "stamp", "finish"} /\ runs' = runs
        /\ job'[r].at = 1 /\ job'[r].failed = {} /\ job'[r].file = None
    <3>1. CASE ReadLinks(r) \/ ReadSchedule(r)
      <4>1. job[r].file = None
          BY <3>1 DEF ReadLinks, ReadSchedule, AtStage, Doing, Unstamped
      <4>2. /\ pc'[r] \in {"sched", "lock"} /\ runs' = runs
            /\ \/ \E n : job' = [job EXCEPT ![r].name = n]
               \/ \E l : job' = [job EXCEPT ![r].plan = l]
          BY <1>0, <3>1 DEF ReadLinks, ReadSchedule, Goto, history
      <4>3. job'[r].at = job[r].at /\ job'[r].failed = job[r].failed /\ job'[r].file = job[r].file
        <5>1. ASSUME NEW n, job' = [job EXCEPT ![r].name = n]
              PROVE  /\ job'[r].at = job[r].at /\ job'[r].failed = job[r].failed
                     /\ job'[r].file = job[r].file
            BY <1>0, <5>1 DEF Jobs
        <5>2. ASSUME NEW l, job' = [job EXCEPT ![r].plan = l]
              PROVE  /\ job'[r].at = job[r].at /\ job'[r].failed = job[r].failed
                     /\ job'[r].file = job[r].file
            BY <1>0, <5>2 DEF Jobs
        <5> QED BY <4>2, <5>1, <5>2
      <4> QED BY <2>2, <4>1, <4>2, <4>3
    <3>2. CASE LoadFails(r) \/ EnterMirror(r) \/ SyncDone(r) \/ SyncFails(r)
        BY <1>0, <2>2, <3>2 DEF LoadFails, EnterMirror, SyncDone, SyncFails, AtStage, Goto,
                                history,
                                Doing, Unstamped
    <3>3. CASE ArchiveFails(r)
        BY <1>0, <2>2, <3>3 DEF ArchiveFails, Goto, Jobs, history
    <3> QED BY <1>2, <3>1, <3>2, <3>3
  <2> QED BY <2>1, <2>3 DEF Doing, Resting, Unstamped, Archived, Uploading
<1> QED BY <1>1, <1>2

\* The archive is named: no destination has anything by that name.
LEMMA DoingStamp ==
    ASSUME MinGap = 1, TInv, TInv', StoreBehind, NEW r \in Runs, Doing(r), Stamp(r)
    PROVE  Doing(r)'
<1>0. /\ pc \in [Runs -> Stages] /\ job \in [Runs -> Jobs] /\ clock \in Nat
    BY DEF TInv, TypeOK
<1>1. /\ pc[r] = "stamp" /\ pc'[r] = "zip" /\ runs' = runs /\ store' = store
      /\ clock' = clock + 1
      /\ job'[r].file.stamp = clock + 1 /\ job'[r].at = job[r].at
      /\ job'[r].failed = job[r].failed /\ job'[r].file # None
  <2>1. PICK f : /\ f.stamp = clock + 1 /\ clock' = clock + 1
                 /\ job' = [job EXCEPT ![r].file = f]
      BY <1>0 DEF Stamp, ArchiveFile
  <2>2. job'[r].file \in Files
      BY <1>0 DEF Stamp, Goto, AtStage, TInv, JobOK
  <2> QED BY <1>0, <2>1, <2>2, NoneAssumption DEF Stamp, AtStage, Goto, history, Jobs
<1>2. \A d \in Dests : ~Has(d, job[r].file)'
    BY <1>0, <1>1 DEF Has, StoreBehind
<1>3. Stored(r)' = {}
  <2>1. job'[r].at = 1
      BY <1>1 DEF Doing, Unstamped
  <2> QED BY <1>1, <2>1, JobFields, StoredSame, NothingStored DEF RunStep, ReadLinks, CopyDone,
                                                                  FinishRun, AtStage, Doing,
                                                                  Unstamped
<1>4. InPlace(r)'
    BY <1>2, <1>3 DEF InPlace, DestsAt
<1> QED BY <1>1, <1>4 DEF Doing, Resting, Unstamped, Archived, Uploading

\* The steps of a run that has its archive.
Upload(r) ==
    \/ ZipDone(r) \/ Open(r) \/ OpenFails(r) \/ CopyDone(r) \/ CopyFails(r) \/ CopyUnheard(r)
    \/ ListDone(r) \/ ListFails(r) \/ PruneDelete(r) \/ PruneStops(r) \/ PruneUnheard(r)
    \/ Forget(r)
    \/ Record(r) \/ Cleanup(r)

LEMMA UploadSteps ==
    ASSUME TInv, NEW r \in Runs, Upload(r)
    PROVE  /\ RunStep(r) /\ pc[r] \in Archived
           /\ pc'[r] \in Uploading \cup {"finish"} /\ (pc'[r] = "finish" => Cleanup(r))
           /\ UNCHANGED <<runs, clock>>
           /\ job'[r].name = job[r].name /\ job'[r].plan = job[r].plan
           /\ job'[r].file = job[r].file /\ job[r].file # None
           /\ (~Record(r) => job'[r].at = job[r].at)
<1>0. pc \in [Runs -> Stages]
    BY DEF TInv, TypeOK
<1>1. RunStep(r)
    BY DEF RunStep, Upload
<1>2. /\ pc[r] \in Archived
      /\ pc'[r] \in Uploading \cup {"finish"} /\ (pc'[r] = "finish" => Cleanup(r))
      /\ UNCHANGED <<runs, clock>>
  <2>1. CASE ZipDone(r) \/ Open(r) \/ OpenFails(r) \/ CopyDone(r) \/ CopyFails(r)
             \/ CopyUnheard(r)
      BY <1>0, <2>1 DEF ZipDone, Open, OpenFails, CopyDone, CopyFails, CopyUnheard, AtStage,
                        Goto, Archived,
                        Uploading, history
  <2>2. CASE ListDone(r) \/ ListFails(r) \/ PruneDelete(r) \/ PruneStops(r) \/ PruneUnheard(r)
      BY <1>0, <2>2 DEF ListDone, ListFails, PruneDelete, PruneStops, PruneUnheard, AtStage,
                        Goto, Archived,
                        Uploading, history
  <2>3. CASE Forget(r) \/ Record(r) \/ Cleanup(r)
      BY <1>0, <2>3 DEF Forget, Record, Cleanup, AtStage, Goto, Archived, Uploading, history
  <2> QED BY <2>1, <2>2, <2>3 DEF Upload
<1>3. job[r].file # None
    BY <1>2, NoneAssumption DEF TInv, JobOK, Archived, Uploading, Looping
<1> QED BY <1>1, <1>2, <1>3, LocalsKept DEF Upload

\* Its archive is in place as long as no more copies of it are complete or gone.
LEMMA StillHas ==
    ASSUME TInv, TInv', NEW r \in Runs, Doing(r), Upload(r), ~CopyDone(r),
           \A d \in Dests : Has(d, job[r].file)' <=> Has(d, job[r].file)
    PROVE  InPlace(r)'
<1>1. ~ReadLinks(r) /\ ~FinishRun(r)
    BY UploadSteps DEF ReadLinks, FinishRun, AtStage, Archived, Uploading
<1>2. job'[r].plan = job[r].plan /\ Stored(r)' = Stored(r) /\ Tried(r) \subseteq Tried(r)'
    BY <1>1, UploadSteps, StoredSame
<1>3. /\ DestsAt(r, Stored(r))' = DestsAt(r, Stored(r))
      /\ DestsAt(r, Tried(r)) \subseteq DestsAt(r, Tried(r))'
    BY <1>2 DEF DestsAt
<1>4. InPlace(r)
    BY UploadSteps DEF Doing
<1> QED BY <1>3, <1>4 DEF InPlace

\* Until Store has returned, the archive is not complete where it is being stored.
LEMMA NotYetTried ==
    ASSUME TInv, LinksDistinct, NEW r \in Runs, Doing(r), pc[r] \in {"open", "copy"}
    PROVE  ~Has(Dest(r), job[r].file) /\ Dest(r) \notin DestsAt(r, Tried(r))
<1>0. Dest(r) \in Dests /\ job[r].at \in DOMAIN job[r].plan
    BY LinkType DEF TInv, JobOK, Looping
<1>1. job[r].at \notin Tried(r)
    BY <1>0, JobFields DEF Tried
<1>2. Dest(r) \notin DestsAt(r, Tried(r))
    BY <1>0, <1>1, PlanDests, StoredInPlan DEF DestsAt, Dest
<1> QED BY <1>0, <1>2 DEF Doing, InPlace, Archived, Uploading

\* Beginning to store leaves a part of the archive where it was not yet stored.
LEMMA OpenHas ==
    ASSUME TInv, LinksDistinct, NEW r \in Runs, Doing(r), Open(r)
    PROVE  /\ \A d \in Dests : Has(d, job[r].file)' <=> Has(d, job[r].file)
           /\ Kind[Dest(r)] # "webdav" => job[r].file \in DOMAIN store'[Dest(r)]
<1>0. /\ DOMAIN store = Dests /\ Dest(r) \in Dests /\ pc[r] = "open"
      /\ job[r].at \in DOMAIN job[r].plan /\ job' = job
    BY LinkType DEF TInv, TypeOK, JobOK, Open, AtStage, Looping
<1>3. ~Has(Dest(r), job[r].file)
    BY <1>0, NotYetTried
<1>4. \/ store' = [store EXCEPT ![Dest(r)] = Write(@, job[r].file, Partial(r))]
      \/ Kind[Dest(r)] = "webdav" /\ store' = store
    BY DEF Open
<1> QED BY <1>0, <1>3, <1>4 DEF Has, Write, Partial

\* When all has been copied, the archive is complete at one destination more.
LEMMA CopyHas ==
    ASSUME TInv, AInv, NEW r \in Runs, Doing(r), CopyDone(r) \/ CopyUnheard(r)
    PROVE  store' = [store EXCEPT ![Dest(r)] = Write(@, job[r].file, Whole(r))]
<1>0. pc[r] = "copy" /\ Arrive(r)
    BY DEF CopyDone, CopyUnheard, AtStage
<1>1. Copied(r) = {Whole(r)}
    BY <1>0 DEF AInv, UploadReadsOwnArchive, OwnArchive, Uploading, Copied
<1>2. Kind[Dest(r)] = "webdav" \/ job[r].file \in DOMAIN store[Dest(r)]
    BY <1>0 DEF Doing
<1> QED BY <1>0, <1>1, <1>2 DEF Arrive

LEMMA CopyGrows ==
    ASSUME TInv, AInv, NEW r \in Runs, Doing(r), CopyDone(r) \/ CopyUnheard(r),
           job'[r].file = job[r].file
    PROVE  \A d \in Dests : Has(d, job[r].file)' <=> (Has(d, job[r].file) \/ d = Dest(r))
<1>0. DOMAIN store = Dests /\ Dest(r) \in Dests
    BY LinkType DEF TInv, TypeOK, JobOK, CopyDone, CopyUnheard, AtStage, Looping
<1>1. store' = [store EXCEPT ![Dest(r)] = Write(@, job[r].file, Whole(r))]
    BY CopyHas
<1>2. /\ store'[Dest(r)] = Write(store[Dest(r)], job[r].file, Whole(r))
      /\ \A d \in Dests \ {Dest(r)} : store'[d] = store[d]
    BY <1>0, <1>1
<1>3. /\ job[r].file \in DOMAIN Write(store[Dest(r)], job[r].file, Whole(r))
      /\ Write(store[Dest(r)], job[r].file, Whole(r))[job[r].file] = Whole(r)
    BY DEF Write
<1>4. ASSUME NEW d \in Dests
      PROVE  Has(d, job[r].file)' <=> (Has(d, job[r].file) \/ d = Dest(r))
  <2>1. CASE d = Dest(r)
      BY <1>2, <1>3, <2>1 DEF Has, Whole
  <2>2. CASE d # Dest(r)
      BY <1>2, <2>2 DEF Has
  <2> QED BY <2>1, <2>2
<1> QED BY <1>4

LEMMA DoingCopyDone ==
    ASSUME TInv, TInv', AInv, LinksDistinct, NEW r \in Runs, Doing(r), CopyDone(r)
    PROVE  Doing(r)'
<1>0. /\ pc[r] = "copy" /\ pc'[r] \in {"list", "record"} /\ job' = job
    BY DEF TInv, TypeOK, CopyDone, AtStage, Goto
<1>1. /\ runs' = runs /\ clock' = clock /\ runs[r].status = "running"
      /\ job[r].file.stamp = clock /\ \A i \in job[r].failed : i < job[r].at
      /\ InPlace(r)
    BY <1>0 DEF CopyDone, history, Doing, Resting, Archived, Uploading
<1>2. /\ DestsAt(r, Stored(r))' = DestsAt(r, Stored(r)) \cup {Dest(r)}
      /\ DestsAt(r, Tried(r))' = DestsAt(r, Tried(r)) \cup {Dest(r)}
    BY <1>0, StoredGrows DEF DestsAt, Dest
<1>3. \A d \in Dests : Has(d, job[r].file)' <=> (Has(d, job[r].file) \/ d = Dest(r))
    BY <1>0, CopyGrows
<1>4. InPlace(r)'
    BY <1>1, <1>2, <1>3 DEF InPlace
<1>5. \A i \in job[r].failed : i <= job[r].at
    BY <1>1, JobFields
<1> QED BY <1>0, <1>1, <1>4, <1>5 DEF Doing, Resting, Unstamped

\* When the run does not hear that all has arrived, it has tried there, no more.
LEMMA DoingCopyUnheard ==
    ASSUME TInv, TInv', AInv, LinksDistinct, NEW r \in Runs, Doing(r), CopyUnheard(r)
    PROVE  Doing(r)'
<1>0. /\ pc[r] = "copy" /\ pc'[r] = "record" /\ job' = Fail(r)
      /\ job[r].at \in DOMAIN job[r].plan
    BY DEF TInv, TypeOK, JobOK, Looping, CopyUnheard, AtStage, Goto
<1>1. /\ runs' = runs /\ clock' = clock /\ runs[r].status = "running"
      /\ job[r].file.stamp = clock /\ \A i \in job[r].failed : i < job[r].at
      /\ InPlace(r) /\ job[r].file # None /\ AnswersLost(Dest(r))
    BY <1>0, UploadSteps DEF CopyUnheard, history, Doing, Resting, Archived, Uploading, Upload
<1>2. /\ job'[r].plan = job[r].plan /\ job'[r].at = job[r].at
      /\ job'[r].file = job[r].file /\ job'[r].failed = job[r].failed \cup {job[r].at}
    BY <1>0, FailView
<1>3. Stored(r)' = Stored(r) /\ Tried(r) \subseteq Tried(r)' /\ job[r].at \in Tried(r)'
  <2>1. RunStep(r) /\ ~ReadLinks(r) /\ ~FinishRun(r)
      BY <1>0 DEF RunStep, ReadLinks, FinishRun, AtStage
  <2>2. ~CopyDone(r)
    <3>1. job[r].at \notin job[r].failed /\ job[r].at \in job'[r].failed
        BY <1>1, <1>2, JobFields
    <3> QED BY <3>1 DEF CopyDone
  <2>3. job[r].at \in Tried(r)'
      BY <1>0, <1>2 DEF Tried
  <2> QED BY <2>1, <2>2, <2>3, StoredSame
<1>4. /\ DestsAt(r, Stored(r))' = DestsAt(r, Stored(r))
      /\ DestsAt(r, Tried(r)) \cup {Dest(r)} \subseteq DestsAt(r, Tried(r))'
    BY <1>2, <1>3 DEF DestsAt, Dest
<1>5. \A d \in Dests : Has(d, job[r].file)' <=> (Has(d, job[r].file) \/ d = Dest(r))
    BY <1>2, CopyGrows
<1>6. InPlace(r)'
    BY <1>1, <1>4, <1>5 DEF InPlace
<1>7. \A i \in job'[r].failed : i <= job'[r].at
    BY <1>1, <1>2, JobFields
<1> QED BY <1>0, <1>1, <1>2, <1>6, <1>7 DEF Doing, Resting, Unstamped, Archived, Uploading

\* Pruning takes an older archive of the run's schedule.
LEMMA PruneTakesOlder ==
    ASSUME TInv, RInv, StoreBehind, NEW r \in Runs, Doing(r), Prunes(r)
    PROVE  \E e \in job[r].cut :
              /\ e \in Files /\ e.prefix = job[r].file.prefix /\ e.stamp < job[r].file.stamp
              /\ store' = [store EXCEPT ![Dest(r)] = Unlink(@, e)]
<1>1. PICK e \in job[r].cut :
              /\ e \in Files /\ e.prefix = SanitizeName(job[r].name)
              /\ Backed(e, Dest(r))
              /\ store' = [store EXCEPT ![Dest(r)] = Unlink(@, e)]
    BY DeleteLeavesBacked
<1>2. pc[r] = "prune" /\ job[r].file.prefix = SanitizeName(job[r].name) /\ job[r].file.stamp = clock
    BY DEF Prunes, PruneDelete, PruneUnheard, AtStage, RInv, RunKnows, Doing, Archived, Uploading
<1>3. Dest(r) \in Dests /\ clock \in Nat
    BY <1>2, LinkType DEF Looping, TInv, TypeOK
<1>4. PICK g \in DOMAIN store[Dest(r)] : g.stamp > e.stamp
    BY <1>1 DEF Backed
<1>5. g.stamp <= clock /\ g \in Files
    BY <1>3 DEF StoreBehind, TInv, TypeOK, FileMap
<1>6. e.stamp < clock
    BY <1>1, <1>3, <1>4, <1>5 DEF Files
<1> QED BY <1>1, <1>2, <1>6

\* A step of a run with its archive, once its failures, its place in the plan and
\* its archive are seen to be in order.
LEMMA DoingUpload ==
    ASSUME TInv, TInv', NEW r \in Runs, Doing(r), Upload(r), ~CopyDone(r),
           pc'[r] \in {"open", "copy", "list", "prune", "forget"} =>
              \A i \in job'[r].failed : i < job'[r].at,
           pc'[r] = "record" => \A i \in job'[r].failed : i <= job'[r].at,
           pc'[r] \in {"cleanup", "finish"} => job'[r].plan # <<>> /\ job'[r].at = Len(job'[r].plan) + 1,
           pc'[r] = "copy" /\ Kind[Dest(r)'] # "webdav" => job[r].file \in DOMAIN store'[Dest(r)'],
           \A d \in Dests : Has(d, job[r].file)' <=> Has(d, job[r].file)
    PROVE  Doing(r)'
<1>1. /\ pc[r] \in Archived /\ pc'[r] \in Uploading \cup {"finish"}
      /\ runs' = runs /\ clock' = clock /\ job'[r].file = job[r].file /\ job[r].file # None
    BY UploadSteps
<1>2. runs'[r].status = "running" /\ job'[r].file.stamp = clock'
    BY <1>1 DEF Doing, Resting, Archived, Uploading
<1>3. InPlace(r)'
    BY StillHas
<1> QED BY <1>1, <1>2, <1>3 DEF Doing, Resting, Unstamped, Archived, Uploading

LEMMA DoingZip ==
    ASSUME TInv, TInv', NEW r \in Runs, Doing(r), ZipDone(r)
    PROVE  Doing(r)'
<1>1. /\ job' = job /\ store' = store /\ pc[r] = "zip" /\ pc'[r] = "open" /\ job[r].failed = {}
    BY DEF ZipDone, AtStage, Goto, TInv, TypeOK, Doing, Unstamped
<1>2. Upload(r) /\ ~CopyDone(r)
    BY <1>1 DEF Upload, CopyDone, AtStage
<1>3. \A d \in Dests : Has(d, job[r].file)' <=> Has(d, job[r].file)
    BY <1>1 DEF Has
<1> QED BY <1>1, <1>2, <1>3, DoingUpload

LEMMA DoingOpen ==
    ASSUME TInv, TInv', LinksDistinct, NEW r \in Runs, Doing(r), Open(r)
    PROVE  Doing(r)'
<1>1. job' = job /\ pc[r] = "open" /\ pc'[r] = "copy" /\ Dest(r)' = Dest(r)
    BY DEF Open, AtStage, Goto, TInv, TypeOK, Dest
<1>2. Upload(r) /\ ~CopyDone(r)
    BY <1>1 DEF Upload, CopyDone, AtStage
<1>3. \A i \in job'[r].failed : i < job'[r].at
    BY <1>1 DEF Doing
<1> QED BY <1>1, <1>2, <1>3, OpenHas, DoingUpload

LEMMA DoingFails ==
    ASSUME TInv, TInv', NEW r \in Runs, Doing(r), OpenFails(r) \/ CopyFails(r)
    PROVE  Doing(r)'
<1>1. job' = Fail(r) /\ store' = store /\ pc[r] \in {"open", "copy"} /\ pc'[r] = "record"
    BY DEF OpenFails, CopyFails, AtStage, Goto, TInv, TypeOK
<1>2. Upload(r) /\ ~CopyDone(r)
  <2>1. job[r].at \notin job[r].failed /\ job[r].at \in job'[r].failed
      BY <1>1, FailView, JobFields DEF Doing
  <2> QED BY <2>1 DEF Upload, CopyDone
<1>3. \A i \in job'[r].failed : i <= job'[r].at
  <2>1. \A i \in job[r].failed : i <= job[r].at
      BY <1>1, JobFields DEF Doing
  <2> QED BY <1>1, <2>1, FailView, JobFields
<1>4. \A d \in Dests : Has(d, job[r].file)' <=> Has(d, job[r].file)
    BY <1>1, FailView DEF Has
<1> QED BY <1>1, <1>2, <1>3, <1>4, DoingUpload

LEMMA DoingPrune ==
    ASSUME TInv, TInv', RInv, StoreBehind, NEW r \in Runs, Doing(r),
           ListDone(r) \/ ListFails(r) \/ PruneDelete(r) \/ PruneStops(r) \/ PruneUnheard(r)
           \/ Forget(r)
    PROVE  Doing(r)'
<1>0. pc \in [Runs -> Stages]
    BY DEF TInv, TypeOK
<1>1. /\ pc[r] \in {"list", "prune", "forget"}
      /\ pc'[r] \in {"prune", "forget", "record"}
  <2>1. CASE ListDone(r) \/ ListFails(r)
      BY <1>0, <2>1 DEF ListDone, ListFails, AtStage, Goto
  <2>2. CASE PruneDelete(r) \/ PruneStops(r) \/ PruneUnheard(r) \/ Forget(r)
      BY <1>0, <2>2 DEF PruneDelete, PruneStops, PruneUnheard, Forget, AtStage, Goto
  <2> QED BY <2>1, <2>2
<1>2. /\ Upload(r) /\ ~CopyDone(r) /\ ~OpenFails(r) /\ ~CopyFails(r) /\ ~CopyUnheard(r)
      /\ ~FinishRun(r) /\ ~Record(r)
    BY <1>1 DEF Upload, CopyDone, OpenFails, CopyFails, CopyUnheard, FinishRun, Record, AtStage
<1>3. job'[r].failed = job[r].failed /\ job'[r].at = job[r].at
    BY <1>2, UploadSteps, FailedKept
<1>4. \A i \in job'[r].failed : i < job'[r].at /\ i <= job'[r].at
    BY <1>1, <1>3, JobFields DEF Doing
<1>5. \A d \in Dests : Has(d, job[r].file)' <=> Has(d, job[r].file)
  <2>0. job'[r].file = job[r].file
      BY <1>2, UploadSteps
  <2>1. CASE Prunes(r)
    <3>1. PICK e : e.stamp < job[r].file.stamp /\ store' = [store EXCEPT ![Dest(r)] = Unlink(@, e)]
        BY <2>1, PruneTakesOlder
    <3>2. job[r].file.stamp \in Nat /\ Dest(r) \in Dests /\ DOMAIN store = Dests
        BY <1>1, LinkType DEF Looping, Files, TInv, TypeOK
    <3>3. e # job[r].file
        BY <3>1, <3>2
    <3>4. \A d \in Dests : store'[d] = store[d] \/ store'[d] = Unlink(store[d], e)
        BY <3>1, <3>2
    <3>5. ASSUME NEW d \in Dests
          PROVE  Has(d, job[r].file)' <=> Has(d, job[r].file)
      <4>1. /\ job[r].file \in DOMAIN store'[d] <=> job[r].file \in DOMAIN store[d]
            /\ job[r].file \in DOMAIN store[d] => store'[d][job[r].file] = store[d][job[r].file]
          BY <3>3, <3>4 DEF Unlink
      <4> QED BY <2>0, <4>1 DEF Has
    <3> QED BY <3>5
  <2>2. CASE ~Prunes(r)
    <3>1. store' = store
        BY <2>2 DEF Prunes, ListDone, ListFails, PruneStops, Forget
    <3> QED BY <2>0, <3>1 DEF Has
  <2> QED BY <2>1, <2>2
<1> QED BY <1>1, <1>2, <1>4, <1>5, DoingUpload

LEMMA DoingRecord ==
    ASSUME TInv, TInv', NEW r \in Runs, Doing(r), Record(r)
    PROVE  Doing(r)'
<1>1. /\ job'[r].failed = job[r].failed /\ job'[r].at = job[r].at + 1
      /\ job'[r].plan = job[r].plan /\ store' = store /\ job'[r].file = job[r].file
    BY DEF Record, TInv, TypeOK, Jobs
<1>2. /\ pc[r] = "record" /\ pc'[r] \in {"cleanup", "open"}
      /\ pc'[r] = "cleanup" <=> job[r].at = Len(job[r].plan)
    BY DEF Record, AtStage, Goto, TInv, TypeOK
<1>3. Upload(r) /\ ~CopyDone(r)
    BY <1>2 DEF Upload, CopyDone, AtStage
<1>4. \A i \in job'[r].failed : i < job'[r].at
    BY <1>1, <1>2, JobFields DEF Doing
<1>5. job[r].plan # <<>>
    BY <1>2 DEF TInv, JobOK, Looping
<1>6. \A d \in Dests : Has(d, job[r].file)' <=> Has(d, job[r].file)
    BY <1>1 DEF Has
<1> QED BY <1>1, <1>2, <1>3, <1>4, <1>5, <1>6, DoingUpload

LEMMA DoingCleanup ==
    ASSUME TInv, TInv', NEW r \in Runs, Doing(r), Cleanup(r)
    PROVE  Doing(r)'
<1>1. job' = job /\ store' = store /\ pc[r] = "cleanup" /\ pc'[r] = "finish"
    BY DEF Cleanup, AtStage, Goto, TInv, TypeOK
<1>2. Upload(r) /\ ~CopyDone(r)
    BY <1>1 DEF Upload, CopyDone, AtStage
<1>3. job'[r].plan # <<>> /\ job'[r].at = Len(job'[r].plan) + 1
    BY <1>1, <1>2, UploadSteps DEF Doing
<1>4. \A d \in Dests : Has(d, job[r].file)' <=> Has(d, job[r].file)
    BY <1>1 DEF Has
<1> QED BY <1>1, <1>2, <1>3, <1>4, DoingUpload

LEMMA DoingFinish ==
    ASSUME TInv, NEW r \in Runs, FinishRun(r)
    PROVE  Doing(r)'
<1>1. pc'[r] = "done" /\ job'[r] = NoJob
    BY DEF FinishRun, Goto, TInv, TypeOK
<1> QED BY <1>1 DEF Doing, Resting, Unstamped, Archived, Uploading

\* What a run knows stays true, whoever moves.
LEMMA DoingStep ==
    ASSUME OneAtATime, PInv, TInv', NEW r \in Runs,
           RunStep(r) \/ \E s \in Schedules : Start(r, s)
    PROVE  \A q \in Runs : Doing(q)'
<1>1. ASSUME NEW q \in Runs \ {r}
      PROVE  Doing(q)'
    BY Alone, OthersStay, OtherRows, RestingDoes DEF PInv, SoloInv, OneAtATime
<1>2. Doing(r) /\ TInv /\ AInv /\ RInv /\ LinksDistinct /\ StoreBehind /\ MinGap = 1
    BY DEF PInv, SoloInv, OneAtATime
<1>3. Doing(r)'
    BY <1>2, DoingBefore, DoingStamp, DoingZip, DoingOpen, DoingFails, DoingCopyDone, DoingCopyUnheard,
       DoingPrune, DoingRecord, DoingCleanup, DoingFinish DEF RunStep
<1> QED BY <1>1, <1>3

LEMMA SoloInvStep ==
    ASSUME OneAtATime, PInv, TInv', [Next]_vars
    PROVE  SoloInv'
<1>0. /\ MaxActive <= 1 /\ MinGap = 1 /\ ~UserRemoves
      /\ TInv /\ AInv /\ RInv /\ Solo /\ InTurn /\ ClockBehind /\ StoreBehind /\ LinksDistinct
    BY DEF OneAtATime, PInv, SoloInv
<1>1. ASSUME NEW r \in Runs, RunStep(r) \/ \E s \in Schedules : Start(r, s)
      PROVE  SoloInv'
    BY <1>0, <1>1, SoloMoves, ClockMoves, StoreBehindMoves, LinksMove, DoingStep DEF SoloInv
<1>2. CASE Outside
  <2>1. UNCHANGED <<pc, job, runs, clock>>
      BY <1>2, OutsideMovesNone
  <2>2. store' = store
      BY <1>0, <1>2 DEF Outside, Expire, Hang, vars, Administrator, RenameSchedule,
         SetScheduleDestinations, DeleteSchedule, CountLinks, DeleteDestination, RemoveHistory,
         RemoveBackup
  <2>3. Solo' /\ InTurn' /\ ClockBehind' /\ StoreBehind'
      BY <1>0, <2>1, <2>2 DEF Solo, InTurn, Started, ClockBehind, StoreBehind
  <2>4. LinksDistinct'
    <3>1. \A s \in Schedules : LinkList(links'[s])
      <4>0. links \in [Schedules -> Seq(Link)]
          BY DEF PInv, TInv, TypeOK
      <4>1. CASE links' = links
          BY <1>0, <4>1 DEF LinksDistinct
      <4>2. CASE \E s \in Schedules, ls \in NewLinks : SetScheduleDestinations(s, ls)
          BY <1>0, <4>0, <4>2, TablesAssumption DEF SetScheduleDestinations, LinksDistinct
      <4>3. CASE \E s \in DeletableSchedules : DeleteSchedule(s)
          BY <1>0, <4>0, <4>3, EmptyLinkList DEF DeleteSchedule, LinksDistinct
      <4>4. CASE \E d \in DeletableDests : DeleteDestination(d)
        <5>1. PICK d : \/ links' = [s \in Schedules |-> WithoutLinksTo(links[s], d)]
                       \/ links' = links
            BY <4>4 DEF DeleteDestination
        <5>2. \A s \in Schedules : LinkList(links[s]) /\ LinkList(WithoutLinksTo(links[s], d))
            BY <1>0, WithoutIsLinkList DEF LinksDistinct
        <5>3. CASE links' = links
            BY <5>2, <5>3
        <5>4. CASE links' = [s \in Schedules |-> WithoutLinksTo(links[s], d)]
            BY <5>2, <5>4
        <5> QED BY <5>1, <5>3, <5>4
      <4> QED BY <1>2, <4>1, <4>2, <4>3, <4>4 DEF Outside, Expire, Hang, vars, tables, Administrator,
                 RenameSchedule, CountLinks, DeleteDestination, RemoveBackup, RemoveHistory
    <3> QED BY <1>0, <2>1, <3>1 DEF LinksDistinct
  <2>5. \A r \in Runs : Doing(r)'
    <3>1. \A r \in Runs : Doing(r)
        BY DEF PInv, SoloInv
    <3>2. \A r \in Runs : InPlace(r)' <=> InPlace(r)
        BY <2>1, <2>2 DEF InPlace, Has, Stored, Tried, DestsAt
    <3> QED BY <2>1, <2>2, <3>1, <3>2 DEF Doing, Dest
  <2> QED BY <2>3, <2>4, <2>5 DEF SoloInv
<1>3. CASE Crash
  <2>1. /\ UNCHANGED <<tables, runs, clock, store>>
        /\ \A r \in Runs : job'[r] = NoJob /\ pc'[r] \in Resting
        /\ \A r \in Runs : pc'[r] = "idle" <=> pc[r] = "idle"
      BY <1>3 DEF Crash, Active, Resting, history
  <2>2. Started' = Started
      BY <2>1 DEF Started
  <2>3. Solo' /\ InTurn' /\ StoreBehind'
      BY <1>0, <2>1, <2>2 DEF Solo, InTurn, StoreBehind
  <2>4. ClockBehind'
      BY <1>0, <2>1 DEF ClockBehind, Resting, Unstamped
  <2>5. LinksDistinct'
      BY <1>0, <2>1, EmptyLinkList DEF LinksDistinct, tables, NoJob
  <2>6. \A r \in Runs : Doing(r)'
      BY <2>1 DEF PInv, SoloInv, Doing, Resting, Unstamped, Archived, Uploading
  <2> QED BY <2>3, <2>4, <2>5, <2>6 DEF SoloInv
<1> QED BY <1>1, <1>2, <1>3, WhoMoves

\* What holds of runs one at a time.
LEMMA PInvHolds == OneAtATime => (Spec => []PInv)
<1> SUFFICES ASSUME OneAtATime PROVE Spec => []PInv
    OBVIOUS
<1>1. Init => PInv
  <2> SUFFICES ASSUME Init PROVE PInv
      OBVIOUS
  <2>1. TInv
      BY InitTInv
  <2>2. AInv
      BY DEF Init, AInv, NotAhead, Apart, UploadReadsOwnArchive, OwnArchive, Uploading, NoJob
  <2>3. RInv
      BY DEF Init, RInv, NamesKnown, Known, StoreKnown, RunKnows, Named, Archived, Uploading
  <2>4. InTurn
    <3>1. Started = 1..0
        BY DEF Init, Started
    <3> QED BY <3>1 DEF InTurn
  <2>5. ClockBehind /\ Solo /\ StoreBehind
      BY BoundsAssumption DEF Init, ClockBehind, Solo, StoreBehind, Resting, Runs
  <2>6. LinksDistinct
      BY TablesAssumption, EmptyLinkList DEF Init, LinksDistinct, NoJob
  <2>7. \A r \in Runs : Doing(r)
      BY DEF Init, Doing, Resting, Unstamped, Archived, Uploading, NoJob
  <2> QED BY <2>1, <2>2, <2>3, <2>4, <2>5, <2>6, <2>7 DEF PInv, SoloInv
<1>2. PInv /\ [Next]_vars => PInv'
  <2> SUFFICES ASSUME PInv, [Next]_vars PROVE PInv'
      OBVIOUS
  <2>1. TInv'
      BY NextTInv DEF PInv
  <2>2. AInv' /\ RInv'
      BY AInvStep, RInvStep DEF PInv, OneAtATime
  <2> QED BY <2>1, <2>2, SoloInvStep DEF PInv
<1> QED BY <1>1, <1>2, PTL DEF Spec

-----------------------------------------------------------------------------
(* The promise, step by step. *)

\* The state of BackupVault.
Phase == [r \in Runs |-> runs[r].status]
Owes == [r \in Runs |-> DestsAt(r, DOMAIN job[r].plan \ Stored(r))]
Got == [r \in Runs |-> DestsAt(r, Stored(r))]
Holds == [d \in Dests |-> {f \in DOMAIN store[d] : store[d][f].whole}]

\* A run owes and has delivered the same as long as it reads no plan, Store does
\* not return, and it does not end.
LEMMA OwesSame ==
    ASSUME TInv, TInv', NEW r \in Runs, Doing(r), RunStep(r),
           ~ReadLinks(r), ~CopyDone(r), ~FinishRun(r)
    PROVE  Owes' = Owes /\ Got' = Got
<1>1. job'[r].plan = job[r].plan /\ Stored(r)' = Stored(r)
    BY StoredSame
<1>2. \A q \in Runs \ {r} : job'[q] = job[q] /\ Stored(q)' = Stored(q)
    BY OthersStay DEF Stored, Tried
<1>3. \A q \in Runs : job'[q].plan = job[q].plan /\ Stored(q)' = Stored(q)
    BY <1>1, <1>2
<1> QED BY <1>3 DEF Owes, Got, DestsAt

\* A run that rests owes and has nothing.
LEMMA RestingOwes ==
    ASSUME NEW q \in Runs, job[q] = NoJob
    PROVE  DestsAt(q, DOMAIN job[q].plan \ Stored(q)) = {} /\ DestsAt(q, Stored(q)) = {}
BY DEF NoJob, Stored, Tried, DestsAt

LEMMA StartBegins ==
    ASSUME TInv, SoloInv, NEW r \in Runs, NEW s \in Schedules, Start(r, s)
    PROVE  Vault!Begin(r)
<1>0. runs \in [Runs -> [status : {"none", "running", "success", "failed"},
                         file : Files \cup {None}]]
    BY DEF TInv, TypeOK
<1>1. runs[r].status = "none" /\ runs' = [runs EXCEPT ![r].status = "running"]
    BY DEF Start, SoloInv, Doing
<1>2. Phase' = [Phase EXCEPT ![r] = "running"]
    BY <1>0, <1>1 DEF Phase
<1>3. \A q \in Runs : job'[q].plan = job[q].plan /\ Stored(q)' = Stored(q)
  <2>1. \A q \in Runs \ {r} : job'[q] = job[q] /\ pc'[q] = pc[q]
      BY OthersStay
  <2>2. job[r].plan = <<>> /\ job'[r].plan = <<>>
      BY DEF Start, SoloInv, Doing, Resting, NoJob, TInv, TypeOK, Jobs
  <2> QED BY <2>1, <2>2 DEF Stored, Tried
<1>4. Owes' = Owes /\ Got' = Got
    BY <1>3 DEF Owes, Got, DestsAt
<1>5. Holds' = Holds
    BY DEF Start, Holds
<1> QED BY <1>1, <1>2, <1>4, <1>5 DEF Vault!Begin, Phase, Owes, Got, Holds

LEMMA ReadAccepts ==
    ASSUME TInv, TInv', SoloInv, NEW r \in Runs, ReadLinks(r)
    PROVE  Vault!Accept(r)
<1>0. job \in [Runs -> Jobs] /\ pc \in [Runs -> Stages] /\ job[r].sched \in Schedules
    BY DEF TInv, TypeOK, JobOK, ReadLinks, AtStage
<1>1. /\ job[r].plan = <<>> /\ job[r].at = 1 /\ runs[r].status = "running" /\ runs' = runs
      /\ store' = store
    BY DEF ReadLinks, AtStage, SoloInv, Doing, Unstamped, Resting, history
<1>2. /\ job'[r].plan = links[job[r].sched] /\ job'[r].plan # <<>> /\ job'[r].at = 1
      /\ pc'[r] = "sched"
    BY <1>0, <1>1 DEF ReadLinks, Goto, Jobs
<1>3. DestsAt(r, DOMAIN job[r].plan \ Stored(r)) = {} /\ DestsAt(r, Stored(r)) = {}
    BY <1>1 DEF DestsAt, Stored, Tried
<1>4. Stored(r)' = {} /\ DestsAt(r, Stored(r))' = {}
    BY <1>2, JobFields DEF Stored, Tried, DestsAt
<1>5. \A q \in Runs \ {r} : job'[q] = job[q] /\ Stored(q)' = Stored(q)
    BY OthersStay DEF Stored, Tried, RunStep
<1>6. DestsAt(r, DOMAIN job[r].plan \ Stored(r))' \in (SUBSET Dests) \ {{}}
  <2>0. job'[r].plan \in Seq(Link)
      BY DEF TInv, TypeOK, Jobs
  <2>1. 1 \in DOMAIN job'[r].plan
      BY <1>2, <2>0
  <2>2. \A i \in DOMAIN job'[r].plan : job'[r].plan[i].dest \in Dests
    <3>1. job'[r].plan \in Seq(Link)
        BY <2>0
    <3>2. \A i \in DOMAIN job'[r].plan : job'[r].plan[i] \in Link
        BY <3>1
    <3> QED BY <3>2 DEF Link
  <2>3. DestsAt(r, DOMAIN job[r].plan \ Stored(r))'
            = {job'[r].plan[i].dest : i \in DOMAIN job'[r].plan}
      BY <1>4 DEF DestsAt
  <2>4. {job'[r].plan[i].dest : i \in DOMAIN job'[r].plan} \in (SUBSET Dests) \ {{}}
    <3> DEFINE S == {job'[r].plan[i].dest : i \in DOMAIN job'[r].plan}
    <3>1. S \subseteq Dests
        BY <2>2
    <3>2. job'[r].plan[1].dest \in S
        BY <2>1
    <3> HIDE DEF S
    <3>3. S # {}
        BY <3>2
    <3>4. S \in SUBSET Dests
        BY <3>1
    <3>5. S \in (SUBSET Dests) \ {{}}
        BY <3>3, <3>4
    <3> QED BY <3>5 DEF S
  <2> QED BY <2>3, <2>4
<1>7. Owes' = [Owes EXCEPT ![r] = DestsAt(r, DOMAIN job[r].plan \ Stored(r))']
    BY <1>5 DEF Owes, DestsAt
<1>8. Got' = Got
    BY <1>3, <1>4, <1>5 DEF Got, DestsAt
<1>9. Phase' = Phase /\ Holds' = Holds
    BY <1>1 DEF Phase, Holds
<1> QED BY <1>1, <1>3, <1>6, <1>7, <1>8, <1>9 DEF Vault!Accept, Phase, Owes, Got, Holds

\* An archive a run stores is later than all of its schedule at the destination,
\* whether or not the run hears of it.
LEMMA CopyDelivers ==
    ASSUME PInv, TInv', NEW r \in Runs, CopyDone(r) \/ CopyUnheard(r), NEW d \in Dests, d = Dest(r)
    PROVE  Vault!Deliver(r, d)
<1> DEFINE a == job[r].file
<1>0. /\ TInv /\ Doing(r) /\ LinksDistinct /\ RunKnows(r) /\ clock <= MaxRuns /\ clock \in Nat
      /\ pc[r] = "copy" /\ DOMAIN store = Dests /\ d \in Dests /\ a \in Files
      /\ job[r].at \in DOMAIN job[r].plan
    BY LinkType DEF PInv, SoloInv, RInv, ClockBehind, CopyDone, CopyUnheard, AtStage, TInv,
                    TypeOK, JobOK, Looping
<1>1. ~Has(d, a) /\ d \notin DestsAt(r, Tried(r))
    BY <1>0, NotYetTried
<1>2. store' = [store EXCEPT ![d] = Write(@, a, Whole(r))]
    BY <1>0, CopyHas DEF PInv
<1>3. runs[r].status = "running" /\ runs' = runs
    BY <1>0 DEF Doing, Resting, CopyDone, CopyUnheard, history
<1>4. d \notin DestsAt(r, Stored(r)) /\ d \in DestsAt(r, DOMAIN job[r].plan \ Stored(r))
    BY <1>0, <1>1, StoredInPlan DEF DestsAt, Dest
<1>8. Phase' = Phase
    BY <1>3 DEF Phase
<1>9. ASSUME CopyDone(r)
      PROVE  Owes' = [Owes EXCEPT ![r] = @ \ {d}] /\ Got' = [Got EXCEPT ![r] = @ \cup {d}]
  <2>1. /\ job' = job /\ job[r].at \in DOMAIN job[r].plan \ Stored(r)
        /\ Stored(r)' = Stored(r) \cup {job[r].at}
      BY <1>0, <1>9, StoredGrows
  <2>2. DestsAt(r, DOMAIN job[r].plan \ Stored(r))' = DestsAt(r, DOMAIN job[r].plan \ Stored(r)) \ {d}
    <3>1. DestsAt(r, DOMAIN job[r].plan \ Stored(r))'
              = {job[r].plan[i].dest : i \in DOMAIN job[r].plan \ (Stored(r) \cup {job[r].at})}
        BY <2>1 DEF DestsAt
    <3>2. \A i \in DOMAIN job[r].plan : job[r].plan[i].dest = d <=> i = job[r].at
        BY <1>0, PlanDests DEF Dest
    <3> QED BY <3>1, <3>2 DEF DestsAt
  <2>3. DestsAt(r, Stored(r))' = DestsAt(r, Stored(r)) \cup {d}
      BY <2>1, <1>0 DEF DestsAt, Dest
  <2>4. \A q \in Runs \ {r} : job'[q] = job[q] /\ Tried(q)' = Tried(q)
      BY <1>0, <1>9, OthersStay DEF Tried, RunStep
  <2>5. \A q \in Runs \ {r} :
           /\ DestsAt(q, DOMAIN job[q].plan \ Stored(q))' = DestsAt(q, DOMAIN job[q].plan \ Stored(q))
           /\ DestsAt(q, Stored(q))' = DestsAt(q, Stored(q))
      BY <2>4 DEF DestsAt, Stored
  <2>6. Owes' = [Owes EXCEPT ![r] = @ \ {d}]
      BY <2>2, <2>5 DEF Owes
  <2> QED BY <2>3, <2>5, <2>6 DEF Got
<1>10. ASSUME CopyUnheard(r), ~CopyDone(r)
       PROVE  Owes' = Owes /\ Got' = Got
  <2>1. RunStep(r) /\ ~ReadLinks(r) /\ ~FinishRun(r)
      BY <1>0, <1>10 DEF RunStep, ReadLinks, FinishRun, AtStage
  <2> QED BY <1>0, <1>10, <2>1, OwesSame
<1>11. Holds' = [Holds EXCEPT ![d] = @ \cup {a}]
  <2>1. /\ store'[d] = Write(store[d], a, Whole(r)) /\ DOMAIN store' = Dests
        /\ \A e \in Dests \ {d} : store'[e] = store[e]
      BY <1>0, <1>2
  <2>2. {f \in DOMAIN store'[d] : store'[d][f].whole}
            = {f \in DOMAIN store[d] : store[d][f].whole} \cup {a}
      BY <2>1 DEF Write, Whole
  <2> QED BY <2>1, <2>2 DEF Holds
<1>12. a \in Archives
  <2>1. PICK n \in Known : a.prefix = SanitizeName(n)
      BY <1>0 DEF RunKnows, Named, Archived, Uploading
  <2>2. a.stamp = clock /\ a.stamp > 0 /\ a.stamp \in Nat
      BY <1>0 DEF Doing, RunKnows, Archived, Uploading, Files
  <2>3. a.stamp \in 1..MaxRuns
      BY <1>0, <2>2, BoundsAssumption
  <2>4. a = ArchiveFile(n, a.stamp)
      BY <1>0, <2>1 DEF ArchiveFile, Files
  <2> QED BY <2>3, <2>4 DEF Archives, Known
<1>13. ASSUME NEW b \in Holds[d], ArchivePrefix(a) = ArchivePrefix(b)
       PROVE  ArchiveStamp(a) > ArchiveStamp(b)
  <2>1. b \in DOMAIN store[d] /\ Has(d, b)
      BY <1>0 DEF Holds, Has
  <2>2. b \in Files /\ b.stamp <= clock
      BY <1>0, <2>1 DEF PInv, SoloInv, StoreBehind, TInv, TypeOK, FileMap
  <2>3. ~Has(d, a)
      BY <1>1
  <2>4. a.stamp = clock
      BY <1>0 DEF Doing, Archived, Uploading
  <2>5. a # b
      BY <2>1, <2>3
  <2>6. b.stamp # a.stamp
      BY <1>0, <1>13, <2>2, <2>5 DEF Files, ArchivePrefix
  <2> QED BY <1>0, <2>2, <2>4, <2>6 DEF Files, ArchiveStamp
<1> HIDE DEF a
<1>14. \A b \in Holds[d] : ArchivePrefix(a) = ArchivePrefix(b) => Vault!Later(a, b)
    BY <1>13 DEF Vault!Later
<1>15. Phase[r] = "running" /\ d \in Owes[r]
    BY <1>3, <1>4 DEF Phase, Owes
<1> QED BY <1>8, <1>9, <1>10, <1>11, <1>12, <1>14, <1>15
        DEF Vault!Deliver, Phase, Owes, Got, Holds

\* A run prunes where it has just stored.
LEMMA PrunerHas ==
    ASSUME PInv, NEW r \in Runs, pc[r] = "prune"
    PROVE  Has(Dest(r), job[r].file)
<1>0. /\ TInv /\ Doing(r) /\ Dest(r) \in Dests /\ job[r].at \in DOMAIN job[r].plan
    BY LinkType DEF PInv, SoloInv, TInv, JobOK, Looping
<1>1. job[r].at \in Stored(r)
    BY <1>0, JobFields DEF Stored, Tried, Doing
<1>2. Dest(r) \in DestsAt(r, Stored(r))
    BY <1>1 DEF DestsAt, Dest
<1> QED BY <1>0, <1>2 DEF Doing, InPlace, Archived, Uploading

\* Pruning takes an archive only where a later one, the run's own, is complete.
LEMMA PruneRetires ==
    ASSUME PInv, TInv', NEW r \in Runs, Prunes(r), NEW d \in Dests, d = Dest(r)
    PROVE  Vault!Retire(d) \/ UNCHANGED <<Phase, Owes, Got, Holds>>
<1> DEFINE a == job[r].file
<1>0. /\ TInv /\ RInv /\ StoreBehind /\ Doing(r) /\ LinksDistinct /\ RunStep(r)
      /\ pc[r] = "prune" /\ DOMAIN store = Dests /\ d \in Dests /\ a \in Files
      /\ job[r].at \in DOMAIN job[r].plan
    BY LinkType DEF PInv, SoloInv, Prunes, PruneDelete, PruneUnheard, AtStage, TInv, TypeOK,
                    JobOK, Looping, RunStep
<1>1. PICK e \in job[r].cut :
          /\ e \in Files /\ e.prefix = a.prefix /\ e.stamp < a.stamp
          /\ store' = [store EXCEPT ![d] = Unlink(@, e)]
    BY <1>0, PruneTakesOlder
<1>2. ~ReadLinks(r) /\ ~CopyDone(r) /\ ~FinishRun(r)
    BY <1>0 DEF ReadLinks, CopyDone, FinishRun, AtStage
<1>3. Owes' = Owes /\ Got' = Got
    BY <1>0, <1>2, OwesSame
<1>4. Phase' = Phase
    BY <1>0, <1>2, RowsKept DEF Phase
<1>5. Holds' = [Holds EXCEPT ![d] = @ \ {e}]
  <2>1. /\ store'[d] = Unlink(store[d], e) /\ DOMAIN store' = Dests
        /\ \A x \in Dests \ {d} : store'[x] = store[x]
      BY <1>0, <1>1
  <2>2. {f \in DOMAIN store'[d] : store'[d][f].whole}
            = {f \in DOMAIN store[d] : store[d][f].whole} \ {e}
      BY <2>1 DEF Unlink
  <2> QED BY <2>1, <2>2 DEF Holds
<1>6. a \in Holds[d]
    BY <1>0, PrunerHas DEF Has, Holds
<1> HIDE DEF a
<1>7. CASE e \in Holds[d]
  <2>1. Vault!Later(a, e)
      BY <1>0, <1>1 DEF Vault!Later, ArchivePrefix, ArchiveStamp, Files
  <2> QED BY <1>3, <1>4, <1>5, <1>6, <1>7, <2>1 DEF Vault!Retire, Phase, Owes, Got, Holds
<1>8. CASE e \notin Holds[d]
  <2>1. Holds[d] \ {e} = Holds[d]
      BY <1>8
  <2>2. Holds' = Holds
      BY <1>5, <2>1 DEF Holds
  <2> QED BY <1>3, <1>4, <2>2
<1> QED BY <1>7, <1>8

\* A run that says success owes nothing; one whose end is not written leaves its
\* row as a crash would.
LEMMA FinishCompletes ==
    ASSUME PInv, NEW r \in Runs, FinishRun(r)
    PROVE  Vault!Complete(r) \/ Vault!Abandon
<1>0. /\ TInv /\ Doing(r) /\ pc[r] = "finish" /\ runs[r].status = "running"
      /\ \A q \in Runs \ {r} : job[q] = NoJob
  <2>1. RunStep(r)
      BY DEF RunStep
  <2>2. \A q \in Runs \ {r} : pc[q] \in Resting
      BY <2>1, RunStages DEF PInv, SoloInv, Solo
  <2> QED BY <2>2 DEF PInv, SoloInv, Doing, FinishRun, AtStage, Resting
<1>1. \A q \in Runs : job'[q] = NoJob
  <2>1. job' = [job EXCEPT ![r] = NoJob]
      BY DEF FinishRun
  <2> QED BY <1>0, <2>1 DEF TInv, TypeOK
<1>2. /\ Owes' = [q \in Runs |-> {}] /\ Got' = [q \in Runs |-> {}]
  <2>1. \A q \in Runs : DestsAt(q, DOMAIN job[q].plan \ Stored(q))' = {} /\ DestsAt(q, Stored(q))' = {}
      BY <1>1 DEF NoJob, Stored, Tried, DestsAt
  <2> QED BY <2>1 DEF Owes, Got
<1>3. Holds' = Holds
    BY DEF FinishRun, Holds
<1>4. CASE runs' = runs
  <2>1. Phase' = Phase
      BY <1>4 DEF Phase
  <2> QED BY <1>2, <1>3, <2>1 DEF Vault!Abandon, Phase, Owes, Got, Holds
<1>5. CASE runs' = [runs EXCEPT ![r] = [status |-> Outcome(r), file |-> job[r].file]]
  <2>1. Phase' = [Phase EXCEPT ![r] = Outcome(r)]
      BY <1>5 DEF Phase, PInv, TInv, TypeOK
  <2>2. /\ Owes' = [Owes EXCEPT ![r] = {}] /\ Got' = [Got EXCEPT ![r] = {}]
    <3>1. \A q \in Runs \ {r} : Owes[q] = {} /\ Got[q] = {}
        BY <1>0, RestingOwes DEF Owes, Got
    <3> QED BY <1>2, <3>1 DEF Owes, Got
  <2>3. CASE job[r].file # None /\ job[r].failed = {}
    <3>1. job[r].plan # <<>> /\ job[r].at = Len(job[r].plan) + 1
        BY <1>0, <2>3 DEF Doing
    <3>2. job[r].plan \in Seq(Link) /\ Len(job[r].plan) \in Nat
        BY <1>0, JobFields
    <3>3. Stored(r) = DOMAIN job[r].plan /\ 1 \in DOMAIN job[r].plan
        BY <2>3, <3>1, <3>2 DEF Stored, Tried
    <3>4. Owes[r] = {} /\ job[r].plan[1].dest \in Got[r]
        BY <3>3 DEF Owes, Got, DestsAt
    <3>5. Outcome(r) = "success"
        BY <2>3 DEF Outcome
    <3>6. Got[r] # {}
        BY <3>4
    <3> QED BY <1>0, <1>3, <2>1, <2>2, <3>4, <3>5, <3>6
            DEF Vault!Complete, Phase, Owes, Got, Holds
  <2>4. CASE ~(job[r].file # None /\ job[r].failed = {})
    <3>1. Outcome(r) = "failed"
        BY <2>4 DEF Outcome
    <3> QED BY <1>0, <1>3, <2>1, <2>2, <3>1 DEF Vault!Complete, Phase, Owes, Got, Holds
  <2> QED BY <2>3, <2>4
<1> QED BY <1>4, <1>5 DEF FinishRun

LEMMA CrashAbandons == ASSUME PInv, Crash PROVE Vault!Abandon
<1>1. UNCHANGED <<runs, store>> /\ \A q \in Runs : job'[q] = NoJob
    BY DEF Crash, history
<1>2. \A q \in Runs : DestsAt(q, DOMAIN job[q].plan \ Stored(q))' = {} /\ DestsAt(q, Stored(q))' = {}
    BY <1>1 DEF NoJob, Stored, Tried, DestsAt
<1>3. Owes' = [q \in Runs |-> {}] /\ Got' = [q \in Runs |-> {}]
    BY <1>2 DEF Owes, Got
<1>4. Phase' = Phase /\ Holds' = Holds
    BY <1>1 DEF Phase, Holds
<1> QED BY <1>3, <1>4 DEF Vault!Abandon, Phase, Owes, Got, Holds

\* Everything else a run does leaves the promise's state alone.
LEMMA QuietForVault ==
    ASSUME PInv, TInv', NEW r \in Runs, RunStep(r),
           ~ReadLinks(r), ~CopyDone(r), ~CopyUnheard(r), ~Prunes(r), ~FinishRun(r)
    PROVE  UNCHANGED <<Phase, Owes, Got, Holds>>
<1>0. TInv /\ Doing(r) /\ LinksDistinct
    BY DEF PInv, SoloInv
<1>1. Owes' = Owes /\ Got' = Got
    BY <1>0, OwesSame
<1>2. Phase' = Phase
    BY RowsKept DEF Phase
<1>3. Holds' = Holds
  <2>1. CASE Open(r)
    <3>1. \A d \in Dests \ {Dest(r)} : store'[d] = store[d]
        BY <1>0, <2>1, StoreGets
    <3>2. \A f : f \in DOMAIN store'[Dest(r)] /\ store'[Dest(r)][f].whole
                 <=> f \in DOMAIN store[Dest(r)] /\ store[Dest(r)][f].whole
      <4> DEFINE d == Dest(r)
      <4>1. d \in Dests /\ DOMAIN store = Dests
          BY <1>0, <2>1, StoreGets DEF TInv, TypeOK
      <4>2. \/ store' = store
            \/ store' = [store EXCEPT ![d] = Write(@, job[r].file, Partial(r))]
          BY <2>1 DEF Open
      <4>3. \/ store'[d] = store[d]
            \/ store'[d] = Write(store[d], job[r].file, Partial(r))
          BY <4>1, <4>2
      <4>4. ~(job[r].file \in DOMAIN store[d] /\ store[d][job[r].file].whole)
        <5>1. pc[r] = "open"
            BY <2>1 DEF Open, AtStage
        <5> QED BY <1>0, <5>1, NotYetTried DEF Has
      <4> QED BY <4>3, <4>4 DEF Write, Partial
    <3>3. DOMAIN store = Dests
        BY <1>0 DEF TInv, TypeOK
    <3>4. \A d \in Dests : {f \in DOMAIN store'[d] : store'[d][f].whole}
                               = {f \in DOMAIN store[d] : store[d][f].whole}
        BY <3>1, <3>2
    <3> QED BY <3>4 DEF Holds
  <2>2. CASE ~Open(r)
    <3>1. store' = store
      <4>1. CASE \/ ReadSchedule(r) \/ LoadFails(r) \/ EnterMirror(r)
                 \/ SyncDone(r) \/ SyncFails(r) \/ Stamp(r) \/ ZipDone(r) \/ ArchiveFails(r)
          BY <4>1 DEF ReadSchedule, LoadFails, EnterMirror, SyncDone, SyncFails,
                      Stamp, ZipDone, ArchiveFails
      <4>2. CASE OpenFails(r) \/ CopyFails(r) \/ ListDone(r) \/ ListFails(r) \/ PruneStops(r)
          BY <4>2 DEF OpenFails, CopyFails, ListDone, ListFails, PruneStops
      <4>3. CASE Forget(r) \/ Record(r) \/ Cleanup(r)
          BY <4>3 DEF Forget, Record, Cleanup
      <4> QED BY <2>2, <4>1, <4>2, <4>3 DEF RunStep, Prunes
    <3> QED BY <3>1 DEF Holds
  <2> QED BY <2>1, <2>2
<1> QED BY <1>1, <1>2, <1>3

LEMMA PromiseStep ==
    ASSUME OneAtATime, PInv, TInv', [Next]_vars
    PROVE  Vault!Next \/ UNCHANGED <<Phase, Owes, Got, Holds>>
<1>1. ASSUME NEW r \in Runs, RunStep(r)
      PROVE  Vault!Next \/ UNCHANGED <<Phase, Owes, Got, Holds>>
  <2>1. CASE ReadLinks(r)
      BY <2>1, ReadAccepts DEF PInv, Vault!Next
  <2>2. CASE CopyDone(r) \/ CopyUnheard(r)
    <3>1. Dest(r) \in Dests
        BY <2>2, LinkType DEF PInv, CopyDone, CopyUnheard, AtStage, Looping
    <3>2. PICK d \in Dests : d = Dest(r)
        BY <3>1
    <3>3. Vault!Deliver(r, d)
        BY <2>2, <3>2, CopyDelivers
    <3> QED BY <3>3 DEF Vault!Next
  <2>3. CASE Prunes(r)
    <3>1. Dest(r) \in Dests
        BY <2>3, LinkType DEF PInv, Prunes, PruneDelete, PruneUnheard, AtStage, Looping
    <3>2. PICK d \in Dests : d = Dest(r)
        BY <3>1
    <3>3. Vault!Retire(d) \/ UNCHANGED <<Phase, Owes, Got, Holds>>
        BY <2>3, <3>2, PruneRetires
    <3> QED BY <3>3 DEF Vault!Next
  <2>4. CASE FinishRun(r)
      BY <2>4, FinishCompletes DEF Vault!Next
  <2> QED BY <1>1, <2>1, <2>2, <2>3, <2>4, QuietForVault
<1>2. ASSUME NEW r \in Runs, NEW s \in Schedules, Start(r, s)
      PROVE  Vault!Next
    BY <1>2, StartBegins DEF PInv, Vault!Next
<1>3. CASE Outside
  <2>1. UNCHANGED <<pc, job, runs>>
      BY <1>3, OutsideMovesNone
  <2>2. store' = store
      BY <1>3 DEF OneAtATime, Outside, Expire, Hang, vars, Administrator, RenameSchedule,
         SetScheduleDestinations, DeleteSchedule, CountLinks, DeleteDestination, RemoveHistory,
         RemoveBackup
  <2> QED BY <2>1, <2>2 DEF Phase, Owes, Got, Holds, Stored, Tried, DestsAt
<1>4. CASE Crash
    BY <1>4, CrashAbandons DEF Vault!Next
<1> QED BY <1>1, <1>2, <1>3, <1>4, WhoMoves

\* Runs that do not overlap keep BackupVault's promise, whatever fails, expires,
\* hangs or dies and whatever an administrator renames, relinks or deletes: a run
\* reports a success only when it owes nothing, delivers an archive later than all
\* of its schedule at the destination, and takes a complete one away only where a
\* later complete one stays.
THEOREM PromiseKept == OneAtATime => (Spec => KeepsPromise)
<1> SUFFICES ASSUME OneAtATime PROVE Spec => KeepsPromise
    OBVIOUS
<1>1. Init => Vault!Init
  <2> SUFFICES ASSUME Init PROVE Vault!Init
      OBVIOUS
  <2>1. \A r \in Runs : DestsAt(r, DOMAIN job[r].plan \ Stored(r)) = {} /\ DestsAt(r, Stored(r)) = {}
      BY RestingOwes DEF Init
  <2>2. Phase = [r \in Runs |-> "none"]
      BY DEF Init, Phase
  <2>3. Holds = [d \in Dests |-> {}]
    <3>1. \A d \in Dests : {f \in DOMAIN store[d] : store[d][f].whole} = {}
        BY DEF Init
    <3> QED BY <3>1 DEF Holds
  <2>4. Owes = [r \in Runs |-> {}] /\ Got = [r \in Runs |-> {}]
      BY <2>1 DEF Owes, Got
  <2> QED BY <2>2, <2>3, <2>4 DEF Vault!Init, Phase, Owes, Got, Holds
<1>2. PInv /\ PInv' /\ [Next]_vars => [Vault!Next]_(Vault!vars)
  <2> SUFFICES ASSUME PInv, PInv', [Next]_vars PROVE [Vault!Next]_(Vault!vars)
      OBVIOUS
  <2>1. TInv'
      BY DEF PInv
  <2>2. Vault!Next \/ UNCHANGED <<Phase, Owes, Got, Holds>>
      BY <2>1, PromiseStep
  <2> QED BY <2>2 DEF Vault!vars, Phase, Owes, Got, Holds
<1>3. Spec => []PInv
    BY PInvHolds
<1> QED BY <1>1, <1>2, <1>3, PTL DEF Spec, Vault!Spec, KeepsPromise

\* So a destination goes on holding a complete archive of a schedule once it has
\* held one: GoodBackupSurvives, which overlapping runs break, needs no more than
\* that runs do not overlap (README.md, "keep the newest N backups").
THEOREM GoodBackupsSurvive == OneAtATime => (Spec => GoodBackupSurvives)
<1> SUFFICES ASSUME OneAtATime PROVE Spec => GoodBackupSurvives
    OBVIOUS
<1>1. PInv /\ PInv' /\ [Next]_vars =>
         [\A d \in Dests : \A f \in DOMAIN store[d] :
             HasWhole(d, f.prefix) => HasWhole(d, f.prefix)']_vars
  <2> SUFFICES ASSUME PInv, PInv', [Next]_vars, NEW d \in Dests, NEW f \in DOMAIN store[d],
                      HasWhole(d, f.prefix)
               PROVE  HasWhole(d, f.prefix)'
      OBVIOUS
  <2>0. TInv'
      BY DEF PInv
  <2>1. PICK g \in Holds[d] : g.prefix = f.prefix
      BY DEF HasWhole, Holds
  <2>2. SUFFICES \E h \in Holds'[d] : h.prefix = g.prefix
    <3>1. \A h \in Holds'[d] : h \in DOMAIN store'[d] /\ store'[d][h].whole
        BY DEF Holds
    <3> QED BY <2>1, <2>2, <3>1 DEF HasWhole
  <2>3. Vault!Next \/ UNCHANGED <<Phase, Owes, Got, Holds>>
      BY <2>0, PromiseStep
  <2>4. CASE UNCHANGED Holds
      BY <2>1, <2>4
  <2>5. ASSUME NEW e \in Dests, Vault!Retire(e) PROVE \E h \in Holds'[d] : h.prefix = g.prefix
    <3>1. PICK a \in Holds[e], b \in Holds[e] : /\ Vault!Later(b, a)
                                                /\ Holds' = [Holds EXCEPT ![e] = @ \ {a}]
        BY <2>5 DEF Vault!Retire, Holds
    <3>2. b.prefix = a.prefix /\ b # a
      <4>1. b.prefix = a.prefix /\ b.stamp > a.stamp
          BY <3>1 DEF Vault!Later, ArchivePrefix, ArchiveStamp
      <4>2. a.stamp \in Nat
        <5>1. a \in DOMAIN store[e]
            BY <3>1 DEF Holds
        <5> QED BY <5>1 DEF PInv, TInv, TypeOK, FileMap, Files
      <4> QED BY <4>1, <4>2
    <3>3. DOMAIN Holds = Dests
        BY DEF Holds
    <3>4. Holds'[e] = Holds[e] \ {a} /\ \A x \in Dests \ {e} : Holds'[x] = Holds[x]
        BY <3>1, <3>3
    <3> QED BY <2>1, <3>1, <3>2, <3>4
  <2>6. ASSUME NEW r \in Runs, NEW e \in Dests, Vault!Deliver(r, e)
        PROVE  \E h \in Holds'[d] : h.prefix = g.prefix
    <3>1. PICK a : Holds' = [Holds EXCEPT ![e] = @ \cup {a}]
        BY <2>6 DEF Vault!Deliver, Holds
    <3>2. DOMAIN Holds = Dests
        BY DEF Holds
    <3>3. Holds[d] \subseteq Holds'[d]
        BY <3>1, <3>2
    <3> QED BY <2>1, <3>3
  <2>7. CASE \/ \E r \in Runs : Vault!Begin(r) \/ Vault!Accept(r) \/ Vault!Complete(r)
             \/ Vault!Abandon
    <3>1. Holds' = Holds
        BY <2>7 DEF Vault!Begin, Vault!Accept, Vault!Complete, Vault!Abandon, Holds
    <3> QED BY <2>4, <3>1
  <2> QED BY <2>3, <2>4, <2>5, <2>6, <2>7 DEF Vault!Next
<1>2. Spec => []PInv
    BY PInvHolds
<1> QED BY <1>1, <1>2, PTL DEF Spec, GoodBackupSurvives

\* Nor does such a run delete the archive it has just stored, the latest there is:
\* what it deletes is backed by something later.  PruneKeepsJustStored fails for
\* names that nest and for runs that overlap (pruneOldBackups).
THEOREM JustStoredStays == OneAtATime => (Spec => PruneKeepsJustStored)
<1> SUFFICES ASSUME OneAtATime PROVE Spec => PruneKeepsJustStored
    OBVIOUS
<1>1. PInv /\ [Next]_vars => [\A r \in Runs : Prunes(r) => job[r].file \notin Pruned(r)]_vars
  <2> SUFFICES ASSUME PInv, NEW r \in Runs, Prunes(r) PROVE job[r].file \notin Pruned(r)
      OBVIOUS
  <2>1. /\ TInv /\ RInv /\ StoreBehind /\ Doing(r) /\ Dest(r) \in Dests /\ DOMAIN store = Dests
        /\ job[r].file \in Files
      BY LinkType DEF PInv, SoloInv, Prunes, PruneDelete, PruneUnheard, AtStage, TInv, TypeOK,
                      JobOK, Looping
  <2>2. PICK e \in job[r].cut : /\ e.stamp < job[r].file.stamp
                                /\ store' = [store EXCEPT ![Dest(r)] = Unlink(@, e)]
      BY <2>1, PruneTakesOlder
  <2>3. e # job[r].file
      BY <2>1, <2>2 DEF Files
  <2>4. DOMAIN store'[Dest(r)] = DOMAIN store[Dest(r)] \ {e}
      BY <2>1, <2>2 DEF Unlink
  <2> QED BY <2>3, <2>4 DEF Pruned
<1>2. Spec => []PInv
    BY PInvHolds
<1> QED BY <1>1, <1>2, PTL DEF Spec, PruneKeepsJustStored

-----------------------------------------------------------------------------
(* What the history tells. *)

\* The file name of a run's archive, once it has one.
FileOf(r) == IF pc[r] = "done" THEN runs[r].file ELSE job[r].file

\* The positions whose outcome a run has recorded, and a file a prune has deleted
\* whose row is still to be dropped.
Outcomes == {"success", "failed"}
Recorded(r, o) == {i \in DOMAIN job[r].plan : i < job[r].at /\ (i \in job[r].failed <=> o = "failed")}
Deleting == {"prune", "forget"}
Unforgotten(f, d) == \E q \in Runs : pc[q] \in Deleting /\ Dest(q) = d /\ f \in job[q].gone

\* Under a run's name lie only contents of its own.
Signed == \A d \in Dests : \A f \in DOMAIN store[d] : FileOf(store[d][f].by) = f
OwnNames == \A r \in Runs : FileOf(r) # None =>
                /\ FileOf(r) \in Files /\ FileOf(r).stamp <= clock
                /\ \A q \in Runs \ {r} : FileOf(q) # FileOf(r)

\* What the history tells of a run that has ended.
Ended(r) == \A d \in Dests :
    /\ Has(d, runs[r].file) => Says(r, d, "success") \/ (AnswersLost(d) /\ Says(r, d, "failed"))
    /\ Says(r, d, "success") => \/ Has(d, runs[r].file) \/ Unforgotten(runs[r].file, d)
                                \/ AnswersLost(d) /\ Superseded(r, d)
    /\ Says(r, d, "success") => runs[r].file # None

Told(r) ==
    /\ pc[r] \notin Deleting => job[r].gone = {}
    /\ pc[r] \in Deleting => \A f \in job[r].gone : f \notin DOMAIN store[Dest(r)]
    /\ pc[r] = "zip" => \A d \in Dests : job[r].file \notin DOMAIN store[d]
    /\ pc[r] # "done" => \A o \in Outcomes, d \in Dests :
          Says(r, d, o) <=> d \in DestsAt(r, Recorded(r, o))
    /\ pc[r] = "done" => Ended(r)

\* The premise: besides one run at a time, the database works, the process does not
\* die and no destination is deleted.  Answers of destinations may be lost.
Faithful == OneAtATime /\ "db" \notin Faults /\ MaxCrashes = 0 /\ DeletableDests = {}

HInv == removing = None /\ Signed /\ OwnNames /\ \A r \in Runs : Told(r)

LEMMA NobodyRemoves ==
    ASSUME Faithful, removing = None, [Next]_vars
    PROVE  removing' = None
<1>1. ASSUME NEW r \in Runs, RunStep(r)
      PROVE  removing' = removing
  <2>1. CASE \/ ReadLinks(r) \/ ReadSchedule(r) \/ LoadFails(r) \/ EnterMirror(r) \/ SyncDone(r)
             \/ SyncFails(r) \/ Stamp(r) \/ ZipDone(r) \/ ArchiveFails(r)
      BY <2>1 DEF ReadLinks, ReadSchedule, LoadFails, EnterMirror, SyncDone, SyncFails,
                  Stamp, ZipDone, ArchiveFails, peers
  <2>2. CASE \/ Open(r) \/ OpenFails(r) \/ CopyDone(r) \/ CopyFails(r) \/ CopyUnheard(r)
             \/ ListDone(r) \/ ListFails(r)
      BY <2>2 DEF Open, OpenFails, CopyDone, CopyFails, CopyUnheard, ListDone, ListFails, peers
  <2>3. CASE \/ PruneDelete(r) \/ PruneStops(r) \/ PruneUnheard(r) \/ Forget(r) \/ Record(r)
             \/ Cleanup(r)
             \/ FinishRun(r)
      BY <2>3 DEF PruneDelete, PruneStops, PruneUnheard, Forget, Record, Cleanup, FinishRun, peers
  <2> QED BY <1>1, <2>1, <2>2, <2>3 DEF RunStep
<1>2. CASE Outside
    BY <1>2 DEF Faithful, OneAtATime, Outside, Expire, Hang, vars, peers, Administrator,
       RenameSchedule, SetScheduleDestinations, DeleteSchedule, CountLinks, DeleteDestination,
       RemoveHistory,
       RemoveBackup
<1>3. CASE (\E r \in Runs, s \in Schedules : Start(r, s)) \/ Crash
    BY <1>3 DEF Start, Crash, peers
<1> QED BY <1>1, <1>2, <1>3, WhoMoves

\* A run's archive keeps its name to the end; a new one is later than all.
LEMMA FileMoves ==
    ASSUME Faithful, TInv, TInv', SoloInv, NEW r \in Runs,
           RunStep(r) \/ \E s \in Schedules : Start(r, s)
    PROVE  /\ \A q \in Runs \ {r} : FileOf(q)' = FileOf(q)
           /\ \/ FileOf(r)' = FileOf(r)
              \/ Stamp(r) /\ FileOf(r)' \in Files /\ FileOf(r)'.stamp = clock + 1 /\ clock' = clock + 1
              \/ ArchiveFails(r) /\ FileOf(r)' = None
<1>0. /\ pc \in [Runs -> Stages] /\ job \in [Runs -> Jobs] /\ clock \in Nat
      /\ runs \in [Runs -> [status : {"none", "running", "success", "failed"},
                            file : Files \cup {None}]]
    BY DEF TInv, TypeOK
<1>1. \A q \in Runs \ {r} : FileOf(q)' = FileOf(q)
    BY OthersStay, OtherRows DEF FileOf
<1>2. CASE \/ \E s \in Schedules : Start(r, s)
           \/ ReadLinks(r) \/ ReadSchedule(r) \/ LoadFails(r) \/ EnterMirror(r)
           \/ SyncDone(r) \/ SyncFails(r)
  <2>1. pc[r] # "done" /\ pc'[r] # "done"
      BY <1>0, <1>2, RunStages DEF Start, Goto, RunStep, Resting, FinishRun, ReadLinks,
                                   ReadSchedule,
         LoadFails, EnterMirror, SyncDone, SyncFails, AtStage
  <2>2. job'[r].file = job[r].file
    <3>1. CASE (\E s \in Schedules : Start(r, s)) \/ ReadLinks(r) \/ ReadSchedule(r)
        BY <1>0, <3>1 DEF Start, ReadLinks, ReadSchedule, Jobs
    <3> QED BY <1>2, <3>1, LocalsKept
  <2> QED BY <1>1, <2>1, <2>2 DEF FileOf
<1>3. CASE Stamp(r)
  <2>1. pc'[r] = "zip" /\ clock' = clock + 1
      BY <1>0, <1>3 DEF Stamp, Goto, Faithful, OneAtATime
  <2>2. job'[r].file.stamp = clock + 1
    <3>1. PICK t \in {clock + MinGap, clock + 1} \ {0} :
             job' = [job EXCEPT ![r].file = ArchiveFile(job[r].name, t)]
        BY <1>3 DEF Stamp
    <3>2. job'[r].file = ArchiveFile(job[r].name, t)
        BY <1>0, <3>1 DEF Jobs
    <3> QED BY <3>1, <3>2 DEF ArchiveFile, Faithful, OneAtATime
  <2>3. job'[r].file \in Files
      BY <2>1 DEF TInv, JobOK
  <2> QED BY <1>1, <1>3, <2>1, <2>2, <2>3 DEF FileOf
<1>4. CASE ArchiveFails(r)
  <2>1. pc'[r] = "finish" /\ job'[r].file = None
      BY <1>0, <1>4 DEF ArchiveFails, Goto, Jobs
  <2> QED BY <1>1, <1>4, <2>1 DEF FileOf
<1>5. CASE FinishRun(r)
  <2>1. pc[r] = "finish" /\ pc'[r] = "done" /\ runs'[r].file = job[r].file
      BY <1>0, <1>5 DEF FinishRun, AtStage, Goto, Faithful
  <2> QED BY <1>1, <2>1 DEF FileOf
<1>6. CASE Upload(r)
  <2>1. pc[r] # "done" /\ pc'[r] # "done" /\ job'[r].file = job[r].file
      BY <1>6, UploadSteps DEF Archived, Uploading
  <2> QED BY <1>1, <2>1 DEF FileOf
<1> QED BY <1>2, <1>3, <1>4, <1>5, <1>6 DEF RunStep, Upload

LEMMA OwnNamesMove ==
    ASSUME Faithful, TInv, TInv', SoloInv, OwnNames, NEW r \in Runs, clock <= clock',
           RunStep(r) \/ \E s \in Schedules : Start(r, s)
    PROVE  OwnNames'
<1>0. clock \in Nat /\ clock' \in Nat /\ \A f \in Files : f.stamp \in Nat
    BY DEF TInv, TypeOK, Files
<1>1. \A q \in Runs \ {r} : FileOf(q)' = FileOf(q)
    BY FileMoves
<1>2. CASE FileOf(r)' = FileOf(r) \/ FileOf(r)' = None
    BY <1>0, <1>1, <1>2 DEF OwnNames
<1>3. CASE FileOf(r)' \in Files /\ FileOf(r)'.stamp = clock + 1 /\ clock' = clock + 1
  <2>1. \A q \in Runs \ {r} : FileOf(q) # FileOf(r)'
      BY <1>0, <1>3, NoneAssumption DEF OwnNames
  <2> QED BY <1>0, <1>1, <1>3, <2>1 DEF OwnNames
<1> QED BY <1>2, <1>3, FileMoves

\* A run that has begun no upload has left nothing anywhere.
LEMMA SignedMoves ==
    ASSUME Faithful, TInv, TInv', SoloInv, Signed, OwnNames, NEW r \in Runs, Told(r),
           RunStep(r) \/ \E s \in Schedules : Start(r, s)
    PROVE  Signed'
<1>0. /\ DOMAIN store = Dests /\ pc \in [Runs -> Stages]
      /\ \A d \in Dests : \A f \in DOMAIN store[d] : f \in Files /\ store[d][f].by \in Runs
    BY DEF TInv, TypeOK, FileMap, Content
<1>1. CASE Open(r) \/ CopyDone(r) \/ CopyUnheard(r)
  <2>1. ~Stamp(r) /\ ~ArchiveFails(r) /\ pc[r] # "done"
      BY <1>1 DEF Open, CopyDone, CopyUnheard, Stamp, ArchiveFails, AtStage
  <2>2. \A q \in Runs : FileOf(q)' = FileOf(q)
      BY <2>1, FileMoves
  <2>3. FileOf(r) = job[r].file /\ Dest(r) \in Dests
      BY <1>1, <2>1, StoreGets DEF FileOf
  <2>4. \A d \in Dests : \A f \in DOMAIN store'[d] :
           (f \in DOMAIN store[d] /\ store'[d][f] = store[d][f])
           \/ (f = job[r].file /\ store'[d][f].by = r)
    <3>1. \/ store' = store
          \/ \E c \in {Whole(r), Partial(r)} : store' = [store EXCEPT ![Dest(r)] = Write(@, job[r].file, c)]
        BY <1>1 DEF Open, CopyDone, CopyUnheard, Arrive, Copied
    <3>2. CASE store' = store
        BY <3>2
    <3>3. ASSUME NEW c \in {Whole(r), Partial(r)},
                 store' = [store EXCEPT ![Dest(r)] = Write(@, job[r].file, c)]
          PROVE  \A d \in Dests : \A f \in DOMAIN store'[d] :
                    (f \in DOMAIN store[d] /\ store'[d][f] = store[d][f])
                    \/ (f = job[r].file /\ store'[d][f].by = r)
      <4>1. c.by = r
          BY <3>3 DEF Whole, Partial
      <4>2. \A d \in Dests : store'[d] = store[d] \/ store'[d] = Write(store[d], job[r].file, c)
          BY <1>0, <2>3, <3>3
      <4>3. ASSUME NEW d \in Dests, store'[d] = Write(store[d], job[r].file, c),
                   NEW f \in DOMAIN store'[d]
            PROVE  \/ f \in DOMAIN store[d] /\ store'[d][f] = store[d][f]
                   \/ f = job[r].file /\ store'[d][f].by = r
        <5>1. f \in DOMAIN store[d] \cup {job[r].file}
            BY <4>3 DEF Write
        <5>2. store'[d][f] = IF f = job[r].file THEN c ELSE store[d][f]
            BY <4>3, <5>1 DEF Write
        <5> QED BY <4>1, <5>1, <5>2
      <4> QED BY <4>2, <4>3
    <3> QED BY <3>1, <3>2, <3>3
  <2> QED BY <1>0, <2>2, <2>3, <2>4 DEF Signed
<1>2. CASE ~Open(r) /\ ~CopyDone(r) /\ ~CopyUnheard(r)
  <2>1. \A d \in Dests : \A f \in DOMAIN store'[d] :
           f \in DOMAIN store[d] /\ store'[d][f] = store[d][f]
    <3>1. CASE Prunes(r)
      <4>1. PICK e : store' = [store EXCEPT ![Dest(r)] = Unlink(@, e)]
          BY <3>1 DEF Prunes, PruneDelete, PruneUnheard
      <4>2. \A d \in Dests : store'[d] = store[d] \/ store'[d] = Unlink(store[d], e)
          BY <1>0, <4>1
      <4> QED BY <4>2 DEF Unlink
    <3>2. CASE ~Prunes(r)
      <4>1. store' = store
        <5>1. CASE \/ \E s \in Schedules : Start(r, s)
                   \/ ReadLinks(r) \/ ReadSchedule(r) \/ LoadFails(r) \/ EnterMirror(r)
                   \/ SyncDone(r) \/ SyncFails(r) \/ Stamp(r) \/ ZipDone(r) \/ ArchiveFails(r)
            BY <5>1 DEF Start, ReadLinks, ReadSchedule, LoadFails, EnterMirror, SyncDone,
                        SyncFails, Stamp, ZipDone, ArchiveFails
        <5>2. CASE OpenFails(r) \/ CopyFails(r) \/ ListDone(r) \/ ListFails(r)
                   \/ PruneStops(r)
            BY <5>2 DEF OpenFails, CopyFails, ListDone, ListFails, PruneStops
        <5>3. CASE Forget(r) \/ Record(r) \/ Cleanup(r) \/ FinishRun(r)
            BY <5>3 DEF Forget, Record, Cleanup, FinishRun
        <5> QED BY <1>2, <3>2, <5>1, <5>2, <5>3 DEF RunStep, Prunes
      <4> QED BY <4>1
    <3> QED BY <3>1, <3>2
  <2>2. FileOf(r)' # FileOf(r) => \A d \in Dests : \A f \in DOMAIN store[d] : store[d][f].by # r
    <3>1. CASE Stamp(r)
      <4>1. FileOf(r) = None
          BY <3>1 DEF FileOf, Stamp, AtStage, SoloInv, Doing, Unstamped
      <4> QED BY <1>0, <4>1, NoneAssumption DEF Signed
    <3>2. CASE ArchiveFails(r)
      <4>1. CASE pc[r] = "stamp"
        <5>1. FileOf(r) = None
            BY <4>1 DEF FileOf, SoloInv, Doing, Unstamped
        <5> QED BY <1>0, <5>1, NoneAssumption DEF Signed
      <4>2. CASE pc[r] = "zip"
        <5>1. FileOf(r) = job[r].file /\ \A d \in Dests : job[r].file \notin DOMAIN store[d]
            BY <4>2 DEF FileOf, Told
        <5> QED BY <5>1 DEF Signed
      <4> QED BY <3>2, <4>1, <4>2 DEF ArchiveFails, AtStage
    <3> QED BY <3>1, <3>2, FileMoves
  <2>3. \A q \in Runs \ {r} : FileOf(q)' = FileOf(q)
      BY FileMoves
  <2>4. ASSUME NEW d \in Dests, NEW f \in DOMAIN store'[d]
        PROVE  FileOf(store[d][f].by)' = f /\ store'[d][f] = store[d][f]
    <3>1. f \in DOMAIN store[d] /\ store'[d][f] = store[d][f] /\ store[d][f].by \in Runs
        BY <1>0, <2>1
    <3>2. FileOf(store[d][f].by) = f
        BY <3>1 DEF Signed
    <3>3. PICK q \in Runs : q = store[d][f].by
        BY <3>1
    <3>4. FileOf(q)' = FileOf(q)
        BY <2>2, <2>3, <3>1, <3>3
    <3> QED BY <3>1, <3>2, <3>3, <3>4
  <2> QED BY <2>4 DEF Signed
<1> QED BY <1>1, <1>2

HistoryInv == PInv /\ OutcomeInv /\ HInv

\* Only recording adds rows, and only the rows dropped after a prune go.
LEMMA ResultsMove ==
    ASSUME NEW r \in Runs, RunStep(r) \/ \E s \in Schedules : Start(r, s),
           ~Forget(r), ~Record(r)
    PROVE  results' = results
<1>1. CASE \/ \E s \in Schedules : Start(r, s)
           \/ ReadLinks(r) \/ ReadSchedule(r) \/ LoadFails(r) \/ EnterMirror(r) \/ SyncDone(r)
           \/ SyncFails(r) \/ Stamp(r) \/ ZipDone(r) \/ ArchiveFails(r)
    BY <1>1 DEF Start, ReadLinks, ReadSchedule, LoadFails, EnterMirror, SyncDone, SyncFails,
                Stamp, ZipDone, ArchiveFails, history
<1>2. CASE \/ Open(r) \/ OpenFails(r) \/ CopyDone(r) \/ CopyFails(r) \/ CopyUnheard(r)
           \/ ListDone(r) \/ ListFails(r)
    BY <1>2 DEF Open, OpenFails, CopyDone, CopyFails, CopyUnheard, ListDone, ListFails, history
<1>3. CASE PruneDelete(r) \/ PruneStops(r) \/ PruneUnheard(r) \/ Cleanup(r) \/ FinishRun(r)
    BY <1>3 DEF PruneDelete, PruneStops, PruneUnheard, Cleanup, FinishRun, history
<1> QED BY <1>1, <1>2, <1>3 DEF RunStep

\* The row that is added, and those that go.
LEMMA RecordAdds ==
    ASSUME Faithful, TInv, OutcomeInv, NEW r \in Runs, Record(r)
    PROVE  /\ pc[r] = "record" /\ pc'[r] \in {"cleanup", "open"} /\ job[r].at \in DOMAIN job[r].plan
           /\ results' = results \cup
                 {[run |-> r, at |-> job[r].at, dest |-> Dest(r),
                   status |-> IF job[r].at \in job[r].failed THEN "failed" ELSE "success"]}
<1>1. Dest(r) \in dests
    BY LinkType DEF OutcomeInv, Record, AtStage, Looping
<1> QED BY <1>1 DEF Faithful, Record, AtStage, Goto, TInv, TypeOK, JobOK, Looping

LEMMA ForgetDrops ==
    ASSUME Faithful, TInv, NEW r \in Runs, Forget(r)
    PROVE  \E f \in job[r].gone :
              /\ f \in Files /\ results' = results \ Forgotten(Dest(r), f)
              /\ job'[r].gone = job[r].gone \ {f}
              /\ pc'[r] = IF job[r].gone = {f} THEN "record" ELSE "forget"
<1>0. job \in [Runs -> Jobs] /\ pc \in [Runs -> Stages] /\ job[r].gone \subseteq Files
    BY DEF TInv, TypeOK, Jobs
<1>1. PICK f \in job[r].gone :
              /\ results' = results \ Forgotten(Dest(r), f)
              /\ job' = [job EXCEPT ![r].gone = @ \ {f}]
              /\ pc' = [pc EXCEPT ![r] = IF job[r].gone = {f} THEN "record" ELSE "forget"]
    BY DEF Forget, Faithful, Goto
<1>2. job'[r].gone = job[r].gone \ {f}
    BY <1>0, <1>1 DEF Jobs
<1> QED BY <1>0, <1>1, <1>2

\* What a run has deleted and not forgotten changes only while it prunes.
LEMMA GoneKept ==
    ASSUME TInv, NEW r \in Runs, RunStep(r) \/ \E s \in Schedules : Start(r, s),
           ~PruneDelete(r), ~Forget(r), ~FinishRun(r)
    PROVE  job'[r].gone = job[r].gone
<1>0. job \in [Runs -> Jobs]
    BY DEF TInv, TypeOK
<1>1. CASE (\E s \in Schedules : Start(r, s)) \/ ReadLinks(r) \/ ReadSchedule(r)
    BY <1>0, <1>1 DEF Start, ReadLinks, ReadSchedule, Jobs
<1>2. CASE Stamp(r) \/ ArchiveFails(r)
    BY <1>0, <1>2 DEF Stamp, ArchiveFails, Jobs
<1>3. CASE OpenFails(r) \/ CopyFails(r) \/ CopyUnheard(r)
    BY <1>3, FailView DEF OpenFails, CopyFails, CopyUnheard
<1>4. CASE ListDone(r) \/ PruneStops(r) \/ PruneUnheard(r) \/ Record(r)
    BY <1>0, <1>4 DEF ListDone, PruneStops, PruneUnheard, Record, Jobs
<1>5. CASE \/ LoadFails(r) \/ EnterMirror(r) \/ SyncDone(r) \/ SyncFails(r) \/ ZipDone(r)
           \/ Open(r) \/ CopyDone(r) \/ ListFails(r) \/ Cleanup(r)
    BY <1>5 DEF LoadFails, EnterMirror, SyncDone, SyncFails, ZipDone, Open, CopyDone,
                ListFails, Cleanup
<1> QED BY <1>1, <1>2, <1>3, <1>4, <1>5 DEF RunStep

\* The stages around a prune.
LEMMA DeletingSteps ==
    ASSUME TInv, NEW r \in Runs, RunStep(r) \/ \E s \in Schedules : Start(r, s)
    PROVE  /\ pc[r] \in Deleting =>
                  PruneDelete(r) \/ PruneStops(r) \/ PruneUnheard(r) \/ Forget(r)
           /\ pc'[r] \in Deleting =>
                  ListDone(r) \/ PruneDelete(r) \/ PruneStops(r) \/ PruneUnheard(r) \/ Forget(r)
           /\ ListDone(r) => pc[r] \notin Deleting
           /\ PruneStops(r) \/ PruneUnheard(r) =>
                  /\ pc[r] \in Deleting
                  /\ pc'[r] = IF job[r].gone = {} THEN "record" ELSE "forget"
<1>0. pc \in [Runs -> Stages]
    BY DEF TInv, TypeOK
<1>1. CASE (\E s \in Schedules : Start(r, s)) \/ ReadLinks(r) \/ ReadSchedule(r) \/ LoadFails(r)
    BY <1>0, <1>1 DEF Start, ReadLinks, ReadSchedule, LoadFails, AtStage, Goto, Deleting,
                      ListDone, PruneStops, PruneUnheard
<1>2. CASE EnterMirror(r) \/ SyncDone(r) \/ SyncFails(r)
    BY <1>0, <1>2 DEF EnterMirror, SyncDone, SyncFails, AtStage, Goto, Deleting, ListDone,
                      PruneStops, PruneUnheard
<1>3. CASE Stamp(r) \/ ZipDone(r) \/ ArchiveFails(r)
    BY <1>0, <1>3 DEF Stamp, ZipDone, ArchiveFails, AtStage, Goto, Deleting, ListDone,
                      PruneStops, PruneUnheard
<1>4. CASE Open(r) \/ OpenFails(r) \/ CopyDone(r) \/ CopyFails(r) \/ CopyUnheard(r)
           \/ ListFails(r)
    BY <1>0, <1>4 DEF Open, OpenFails, CopyDone, CopyFails, CopyUnheard, ListFails, AtStage,
                      Goto, Deleting, ListDone, PruneStops, PruneUnheard
<1>5. CASE Record(r) \/ Cleanup(r) \/ FinishRun(r)
    BY <1>0, <1>5 DEF Record, Cleanup, FinishRun, AtStage, Goto, Deleting, ListDone, PruneStops,
                      PruneUnheard
<1>6. CASE ListDone(r) \/ PruneDelete(r) \/ PruneStops(r) \/ PruneUnheard(r) \/ Forget(r)
    BY <1>0, <1>6 DEF ListDone, PruneDelete, PruneStops, PruneUnheard, Forget, AtStage, Goto,
                      Deleting
<1> QED BY <1>1, <1>2, <1>3, <1>4, <1>5, <1>6 DEF RunStep

\* What a run has recorded changes only as it records.
LEMMA RecordedSame ==
    ASSUME TInv, TInv', NEW r \in Runs, Doing(r),
           RunStep(r) \/ \E s \in Schedules : Start(r, s), ~Record(r), ~FinishRun(r)
    PROVE  \A o \in Outcomes : DestsAt(r, Recorded(r, o))' = DestsAt(r, Recorded(r, o))
<1>0. /\ job \in [Runs -> Jobs] /\ job[r].plan \in Seq(Link) /\ job[r].at \in Nat
      /\ job[r].failed \in SUBSET Nat /\ job'[r].plan \in Seq(Link)
    BY DEF TInv, TypeOK, Jobs
<1>1. CASE (\E s \in Schedules : Start(r, s)) \/ ReadLinks(r) \/ ReadSchedule(r)
  <2>1. job[r].at = 1
      BY <1>1 DEF Start, ReadLinks, ReadSchedule, AtStage, TInv, JobOK
  <2>2. job'[r].at = 1
      BY <1>0, <1>1, <2>1 DEF Start, ReadLinks, ReadSchedule, Jobs
  <2>3. \A o \in Outcomes : Recorded(r, o) = {} /\ Recorded(r, o)' = {}
      BY <1>0, <2>1, <2>2 DEF Recorded
  <2> QED BY <2>3 DEF DestsAt
<1>2. CASE ~(\E s \in Schedules : Start(r, s)) /\ ~ReadLinks(r) /\ ~ReadSchedule(r)
  <2>1. job'[r].plan = job[r].plan /\ job'[r].at = job[r].at
    <3>1. CASE Stamp(r) \/ ArchiveFails(r)
        BY <1>0, <3>1 DEF Stamp, ArchiveFails, Jobs
    <3> QED BY <1>2, <3>1, LocalsKept DEF RunStep
  <2>2. job'[r].failed \in {job[r].failed, job[r].failed \cup {job[r].at}}
    <3>1. CASE OpenFails(r) \/ CopyFails(r) \/ CopyUnheard(r)
        BY <3>1, FailView DEF OpenFails, CopyFails, CopyUnheard
    <3> QED BY <1>2, <3>1, FailedKept
  <2>3. \A o \in Outcomes : Recorded(r, o)' = Recorded(r, o)
      BY <1>0, <2>1, <2>2 DEF Recorded
  <2> QED BY <2>1, <2>3 DEF DestsAt
<1> QED BY <1>1, <1>2

LEMMA GoneIsGone ==
    ASSUME Faithful, HistoryInv, TInv', NEW r \in Runs,
           RunStep(r) \/ \E s \in Schedules : Start(r, s)
    PROVE  /\ pc'[r] \notin Deleting => job'[r].gone = {}
           /\ pc'[r] \in Deleting => \A f \in job'[r].gone : f \notin DOMAIN store'[Dest(r)']
<1>0. /\ TInv /\ RInv /\ Told(r) /\ DOMAIN store = Dests
      /\ job \in [Runs -> Jobs] /\ pc \in [Runs -> Stages]
    BY DEF HistoryInv, PInv, HInv, TInv, TypeOK
<1>1. CASE FinishRun(r)
    BY <1>0, <1>1 DEF FinishRun, Goto, NoJob, Deleting
<1>2. CASE PruneDelete(r)
  <2>0. Dest(r) \in Dests /\ pc[r] = "prune" /\ pc'[r] \in Deleting
      BY <1>0, <1>2, LinkType DEF PruneDelete, AtStage, Goto, Looping, Deleting
  <2>1. PICK e : /\ store' = [store EXCEPT ![Dest(r)] = Unlink(@, e)]
                 /\ job' = [job EXCEPT ![r].cut = @ \ {e}, ![r].gone = @ \cup {e}]
      BY <1>2 DEF PruneDelete
  <2>2. job'[r].gone = job[r].gone \cup {e} /\ job'[r].plan = job[r].plan /\ job'[r].at = job[r].at
      BY <1>0, <2>1 DEF Jobs
  <2>3. DOMAIN store'[Dest(r)] = DOMAIN store[Dest(r)] \ {e}
      BY <1>0, <2>0, <2>1 DEF Unlink
  <2>4. Dest(r)' = Dest(r)
      BY <2>2 DEF Dest
  <2> QED BY <1>0, <2>0, <2>2, <2>3, <2>4 DEF Told, Deleting
<1>3. CASE Forget(r)
  <2>1. PICK f \in job[r].gone :
              /\ job'[r].gone = job[r].gone \ {f}
              /\ pc'[r] = IF job[r].gone = {f} THEN "record" ELSE "forget"
      BY <1>0, <1>3, ForgetDrops
  <2>2. Dest(r)' = Dest(r) /\ store' = store /\ pc[r] \in Deleting
    <3>1. ~Record(r)
        BY <1>3 DEF Forget, Record, AtStage
    <3> QED BY <1>0, <1>3, <3>1, LocalsKept DEF Dest, Forget, AtStage, Deleting
  <2> QED BY <1>0, <2>1, <2>2 DEF Told, Deleting
<1>4. CASE PruneStops(r) \/ PruneUnheard(r)
  <2>1. job'[r].gone = job[r].gone
      BY <1>0, <1>4 DEF PruneStops, PruneUnheard, Jobs
  <2>2. Dest(r)' = Dest(r) /\ pc[r] \in Deleting
    <3>1. ~Record(r)
        BY <1>4 DEF PruneStops, PruneUnheard, Record, AtStage
    <3> QED BY <1>0, <1>4, <3>1, LocalsKept DEF Dest, PruneStops, PruneUnheard, AtStage, Deleting
  <2>3. DOMAIN store'[Dest(r)] \subseteq DOMAIN store[Dest(r)]
    <3>1. Dest(r) \in Dests
        BY <1>0, <1>4, LinkType DEF PruneStops, PruneUnheard, AtStage, Looping
    <3>2. CASE PruneStops(r)
        BY <3>2 DEF PruneStops
    <3>3. CASE PruneUnheard(r)
        BY <1>0, <3>1, <3>3 DEF PruneUnheard, Unlink
    <3> QED BY <1>4, <3>2, <3>3
  <2> QED BY <1>0, <1>4, <2>1, <2>2, <2>3, DeletingSteps DEF Told, Deleting
<1>5. CASE ~FinishRun(r) /\ ~PruneDelete(r) /\ ~Forget(r) /\ ~PruneStops(r) /\ ~PruneUnheard(r)
  <2>1. job'[r].gone = job[r].gone /\ pc[r] \notin Deleting
      BY <1>0, <1>5, GoneKept, DeletingSteps
  <2> QED BY <1>0, <2>1 DEF Told
<1> QED BY <1>1, <1>2, <1>3, <1>4, <1>5

\* What a run under way has told of itself.
LEMMA TellsOfItself ==
    ASSUME Faithful, HistoryInv, TInv', NEW r \in Runs,
           RunStep(r) \/ \E s \in Schedules : Start(r, s), ~FinishRun(r)
    PROVE  \A o \in Outcomes, d \in Dests : Says(r, d, o)' <=> d \in DestsAt(r, Recorded(r, o))'
<1>0. /\ TInv /\ OutcomeInv /\ Doing(r) /\ Told(r) /\ pc[r] # "done" /\ runs[r].file = None
      /\ job \in [Runs -> Jobs]
  <2>1. pc[r] # "done"
      BY RunStages DEF Start, Resting, HistoryInv, PInv
  <2> QED BY <2>1 DEF HistoryInv, PInv, SoloInv, HInv, OutcomeInv, TInv, TypeOK
<1>1. CASE Record(r)
  <2> DEFINE outcome == IF job[r].at \in job[r].failed THEN "failed" ELSE "success"
  <2>1. /\ job[r].at \in DOMAIN job[r].plan
        /\ results' = results \cup
              {[run |-> r, at |-> job[r].at, dest |-> Dest(r), status |-> outcome]}
      BY <1>0, <1>1, RecordAdds
  <2>2. /\ job'[r].plan = job[r].plan /\ job'[r].at = job[r].at + 1
        /\ job'[r].failed = job[r].failed
      BY <1>0, <1>1 DEF Record, Jobs
  <2>3. ASSUME NEW o \in Outcomes
        PROVE  Recorded(r, o)' = Recorded(r, o) \cup (IF o = outcome THEN {job[r].at} ELSE {})
      BY <1>0, <2>1, <2>2, JobFields DEF Recorded, Outcomes
  <2>4. ASSUME NEW o \in Outcomes, NEW d \in Dests
        PROVE  d \in DestsAt(r, Recorded(r, o))'
                  <=> d \in DestsAt(r, Recorded(r, o)) \/ (o = outcome /\ d = Dest(r))
      BY <2>2, <2>3 DEF DestsAt, Dest
  <2>5. ASSUME NEW o \in Outcomes, NEW d \in Dests
        PROVE  Says(r, d, o)' <=> Says(r, d, o) \/ (o = outcome /\ d = Dest(r))
    <3> DEFINE row == [run |-> r, at |-> job[r].at, dest |-> Dest(r), status |-> outcome]
    <3>1. row.run = r /\ row.dest = Dest(r) /\ row.status = outcome
        OBVIOUS
    <3>2. results' = results \cup {row}
        BY <2>1
    <3> HIDE DEF row, outcome
    <3> QED BY <3>1, <3>2 DEF Says
  <2> HIDE DEF outcome
  <2> QED BY <1>0, <2>4, <2>5 DEF Told
<1>2. CASE Forget(r)
  <2>1. PICK f \in job[r].gone : f \in Files /\ results' = results \ Forgotten(Dest(r), f)
      BY <1>0, <1>2, ForgetDrops
  <2>2. \A o \in Outcomes, d \in Dests : Says(r, d, o)' <=> Says(r, d, o)
      BY <1>0, <2>1, NoneAssumption DEF Says, Forgotten
  <2>3. ~Record(r)
      BY <1>2 DEF Forget, Record, AtStage
  <2> QED BY <1>0, <2>2, <2>3, RecordedSame DEF Told
<1>3. CASE ~Record(r) /\ ~Forget(r)
  <2>1. results' = results
      BY <1>3, ResultsMove
  <2>2. \A o \in Outcomes, d \in Dests : Says(r, d, o)' <=> Says(r, d, o)
      BY <2>1 DEF Says
  <2> QED BY <1>0, <1>3, <2>2, RecordedSame DEF Told
<1> QED BY <1>1, <1>2, <1>3

\* A run that ends leaves its archive where the history says it is, and where it
\* says that storing failed though an answer may have been lost.
LEMMA EndTells ==
    ASSUME Faithful, HistoryInv, NEW r \in Runs, FinishRun(r)
    PROVE  Ended(r)'
<1>0. /\ TInv /\ Doing(r) /\ Told(r) /\ pc[r] = "finish" /\ results' = results /\ store' = store
      /\ runs'[r].file = job[r].file
    BY DEF HistoryInv, PInv, SoloInv, HInv, FinishRun, AtStage, Faithful, TInv, TypeOK
<1>1. \A o \in Outcomes, d \in Dests : Says(r, d, o)' <=> d \in DestsAt(r, Recorded(r, o))
    BY <1>0 DEF Told, Says
<1>2. Stored(r) = Recorded(r, "success") /\ Tried(r) \ Stored(r) = Recorded(r, "failed")
    BY <1>0 DEF Stored, Tried, Recorded
<1>3. CASE job[r].file # None
  <2>1. InPlace(r)
      BY <1>0, <1>3 DEF Doing
  <2>2. ASSUME NEW d \in Dests
        PROVE  /\ Has(d, job[r].file) <=> Has(d, runs[r].file)'
               /\ Says(r, d, "success")' <=> d \in DestsAt(r, Stored(r))
               /\ d \in DestsAt(r, Tried(r)) =>
                     d \in DestsAt(r, Stored(r)) \/ Says(r, d, "failed")'
    <3>1. Has(d, job[r].file) <=> Has(d, runs[r].file)'
        BY <1>0 DEF Has
    <3>2. Says(r, d, "success")' <=> d \in DestsAt(r, Stored(r))
        BY <1>1, <1>2 DEF Outcomes
    <3>3. Says(r, d, "failed")' <=> d \in DestsAt(r, Tried(r) \ Stored(r))
        BY <1>1, <1>2 DEF Outcomes
    <3> QED BY <3>1, <3>2, <3>3 DEF DestsAt
  <2>3. ASSUME NEW d \in Dests
        PROVE  /\ Has(d, runs[r].file)' => \/ Says(r, d, "success")'
                                           \/ AnswersLost(d) /\ Says(r, d, "failed")'
               /\ Says(r, d, "success")' => Has(d, runs[r].file)'
      BY <2>1, <2>2 DEF InPlace
  <2> QED BY <1>0, <1>3, <2>3 DEF Ended
<1>4. CASE job[r].file = None
  <2>1. Recorded(r, "success") = {}
      BY <1>0, <1>4, JobFields DEF Doing, Recorded
  <2>2. \A d \in Dests : None \notin DOMAIN store[d]
      BY <1>0, NoneAssumption DEF TInv, TypeOK, FileMap
  <2>3. \A d \in Dests : ~Says(r, d, "success")' /\ ~Has(d, runs[r].file)'
      BY <1>0, <1>1, <1>4, <2>1, <2>2 DEF DestsAt, Has, Outcomes
  <2> QED BY <2>3 DEF Ended
<1> QED BY <1>3, <1>4

LEMMA ToldMoves ==
    ASSUME Faithful, HistoryInv, TInv', NEW r \in Runs,
           RunStep(r) \/ \E s \in Schedules : Start(r, s)
    PROVE  Told(r)'
<1>0. TInv /\ SoloInv
    BY DEF HistoryInv, PInv
<1>1. pc'[r] = "zip" => \A d \in Dests : job'[r].file \notin DOMAIN store'[d]
  <2>1. CASE Stamp(r)
    <3>1. pc'[r] = "zip" /\ pc[r] = "stamp" /\ store' = store
        BY <1>0, <2>1 DEF Stamp, AtStage, Goto, TInv, TypeOK
    <3>2. FileOf(r)' # FileOf(r) => FileOf(r)'.stamp = clock + 1 \/ FileOf(r)' = None
        BY <1>0, FileMoves
    <3>3. FileOf(r) = None /\ FileOf(r)' = job'[r].file /\ job'[r].file \in Files
      <4>1. job'[r].file \in Files
          BY <3>1 DEF TInv, JobOK
      <4> QED BY <1>0, <3>1, <4>1 DEF FileOf, SoloInv, Doing, Unstamped
    <3>4. job'[r].file.stamp = clock + 1 /\ clock \in Nat
        BY <1>0, <3>2, <3>3, NoneAssumption DEF TInv, TypeOK
    <3> QED BY <1>0, <3>1, <3>4 DEF SoloInv, StoreBehind
  <2>2. CASE ~Stamp(r)
    <3>1. pc'[r] # "zip"
      <4>0. pc \in [Runs -> Stages]
          BY <1>0 DEF TInv, TypeOK
      <4>1. CASE \/ \E s \in Schedules : Start(r, s)
                 \/ ReadLinks(r) \/ ReadSchedule(r) \/ LoadFails(r) \/ EnterMirror(r)
                 \/ SyncDone(r) \/ SyncFails(r) \/ ArchiveFails(r)
          BY <4>0, <4>1 DEF Start, ReadLinks, ReadSchedule, LoadFails, EnterMirror, SyncDone,
                            SyncFails, ArchiveFails, Goto
      <4>2. CASE Upload(r)
          BY <1>0, <4>2, UploadSteps DEF Uploading
      <4>3. CASE FinishRun(r)
          BY <4>0, <4>3 DEF FinishRun, Goto
      <4> QED BY <2>2, <4>1, <4>2, <4>3 DEF RunStep, Upload
    <3> QED BY <3>1
  <2> QED BY <2>1, <2>2
<1>2. CASE FinishRun(r)
  <2>1. pc'[r] = "done"
      BY <1>0, <1>2 DEF FinishRun, Goto, TInv, TypeOK
  <2> QED BY <1>2, <2>1, EndTells, GoneIsGone DEF Told, Deleting
<1>3. CASE ~FinishRun(r)
  <2>1. pc'[r] # "done"
    <3>1. CASE RunStep(r)
        BY <1>0, <1>3, <3>1, RunStages
    <3>2. CASE \E s \in Schedules : Start(r, s)
        BY <1>0, <3>2 DEF Start, Goto, TInv, TypeOK
    <3> QED BY <3>1, <3>2
  <2> QED BY <1>1, <1>3, <2>1, TellsOfItself, GoneIsGone DEF Told
<1> QED BY <1>2, <1>3

\* While other runs rest, nothing is unforgotten but what the mover has deleted.
LEMMA MoverDeletes ==
    ASSUME TInv, SoloInv, MaxActive <= 1, NEW r \in Runs,
           RunStep(r) \/ \E s \in Schedules : Start(r, s)
    PROVE  \A f, d : /\ Unforgotten(f, d) <=> (pc[r] \in Deleting /\ Dest(r) = d /\ f \in job[r].gone)
                     /\ Unforgotten(f, d)' <=> (pc'[r] \in Deleting /\ Dest(r)' = d /\ f \in job'[r].gone)
<1>1. \A q \in Runs \ {r} : pc[q] \notin Deleting /\ pc'[q] \notin Deleting
    BY Alone, OthersStay DEF SoloInv, Resting, Deleting
<1> QED BY <1>1 DEF Unforgotten, Dest

\* What supersedes an archive goes only for something later still.
LEMMA SupersededStays ==
    ASSUME PInv, TInv', NEW r \in Runs, RunStep(r) \/ \E s \in Schedules : Start(r, s),
           NEW q \in Runs \ {r}, runs[q].file # None, NEW d \in Dests, Superseded(q, d)
    PROVE  Superseded(q, d)'
<1>0. /\ TInv /\ RInv /\ StoreBehind /\ LinksDistinct /\ Doing(r) /\ runs'[q] = runs[q]
      /\ DOMAIN store = Dests /\ \A f \in DOMAIN store[d] : f \in Files
  <2>1. TInv /\ RInv /\ StoreBehind /\ LinksDistinct /\ Doing(r)
      BY DEF PInv, SoloInv
  <2> QED BY <2>1, OtherRows DEF TInv, TypeOK, FileMap
<1>1. PICK g \in DOMAIN store[d] : /\ Has(d, g) /\ g.prefix = runs[q].file.prefix
                                   /\ g.stamp > runs[q].file.stamp
    BY DEF Superseded, Has
<1>2. SUFFICES \E h \in DOMAIN store'[d] : /\ store'[d][h].whole /\ h.prefix = g.prefix
                                           /\ h = g \/ h.stamp > g.stamp
  <2>1. PICK h \in DOMAIN store'[d] : /\ store'[d][h].whole /\ h.prefix = g.prefix
                                      /\ h = g \/ h.stamp > g.stamp
      BY <1>2
  <2>2. h.stamp > runs[q].file.stamp
    <3>1. h \in Files /\ g \in Files /\ runs[q].file \in Files
        BY <1>0, <2>1 DEF TInv, TypeOK, FileMap
    <3> QED BY <1>1, <2>1, <3>1 DEF Files
  <2> QED BY <1>0, <1>1, <2>1, <2>2 DEF Superseded
<1>3. CASE Open(r) \/ CopyDone(r) \/ CopyUnheard(r)
  <2>1. pc[r] \in {"open", "copy"}
      BY <1>3 DEF Open, CopyDone, CopyUnheard, AtStage
  <2>2. ~(d = Dest(r) /\ g = job[r].file)
      BY <1>0, <1>1, <2>1, NotYetTried
  <2>3. g \in DOMAIN store'[d] /\ store'[d][g] = store[d][g]
    <3>1. CASE d = Dest(r)
        BY <1>0, <1>3, <2>2, <3>1, StoreGets
    <3>2. CASE d # Dest(r)
        BY <1>0, <1>3, <3>2, StoreGets
    <3> QED BY <3>1, <3>2
  <2> QED BY <1>1, <2>3 DEF Has
<1>4. CASE Prunes(r)
  <2> DEFINE a == job[r].file
  <2>1. PICK e \in job[r].cut :
            /\ e \in Files /\ e.prefix = a.prefix /\ e.stamp < a.stamp
            /\ store' = [store EXCEPT ![Dest(r)] = Unlink(@, e)]
      BY <1>0, <1>4, PruneTakesOlder
  <2>2. pc[r] = "prune" /\ Dest(r) \in Dests /\ a \in Files
      BY <1>0, <1>4, LinkType DEF Prunes, PruneDelete, PruneUnheard, AtStage, TInv, JobOK, Looping
  <2>3. Has(Dest(r), a)
      BY <2>2, PrunerHas
  <2>4. CASE d = Dest(r)
    <3>1. store'[d] = Unlink(store[d], e)
        BY <1>0, <2>1, <2>4
    <3>2. \A f \in DOMAIN store[d] \ {e} : f \in DOMAIN store'[d] /\ store'[d][f] = store[d][f]
        BY <3>1 DEF Unlink
    <3>3. a # e /\ a \in DOMAIN store[d] /\ store[d][a].whole
        BY <2>1, <2>2, <2>3, <2>4 DEF Files, Has
    <3>4. CASE g = e
        BY <2>1, <3>2, <3>3, <3>4
    <3>5. CASE g # e
        BY <1>1, <3>2, <3>5 DEF Has
    <3> QED BY <3>4, <3>5
  <2>5. CASE d # Dest(r)
      BY <1>0, <1>1, <2>1, <2>5 DEF Has
  <2> QED BY <2>4, <2>5
<1>5. CASE ~(Open(r) \/ CopyDone(r) \/ CopyUnheard(r) \/ Prunes(r))
  <2>1. store' = store
    <3>1. CASE \/ \E s \in Schedules : Start(r, s)
               \/ ReadLinks(r) \/ ReadSchedule(r) \/ LoadFails(r) \/ EnterMirror(r)
               \/ SyncDone(r) \/ SyncFails(r) \/ Stamp(r) \/ ZipDone(r) \/ ArchiveFails(r)
        BY <3>1 DEF Start, ReadLinks, ReadSchedule, LoadFails, EnterMirror, SyncDone,
                    SyncFails, Stamp, ZipDone, ArchiveFails
    <3>2. CASE \/ OpenFails(r) \/ CopyFails(r) \/ ListDone(r) \/ ListFails(r) \/ PruneStops(r)
        BY <3>2 DEF OpenFails, CopyFails, ListDone, ListFails, PruneStops
    <3>3. CASE Forget(r) \/ Record(r) \/ Cleanup(r) \/ FinishRun(r)
        BY <3>3 DEF Forget, Record, Cleanup, FinishRun
    <3> QED BY <1>5, <3>1, <3>2, <3>3 DEF RunStep, Prunes
  <2> QED BY <1>1, <2>1 DEF Has
<1> QED BY <1>3, <1>4, <1>5

\* A step of a run keeps the history true of the runs that have ended.
LEMMA EndedStays ==
    ASSUME Faithful, HistoryInv, TInv', NEW r \in Runs,
           RunStep(r) \/ \E s \in Schedules : Start(r, s),
           NEW q \in Runs \ {r}, pc[q] = "done"
    PROVE  Ended(q)'
<1> DEFINE f == runs[q].file
<1>0. /\ TInv /\ SoloInv /\ RInv /\ StoreBehind /\ Doing(r) /\ OwnNames /\ Told(r)
      /\ MaxActive <= 1 /\ DOMAIN store = Dests /\ runs'[q] = runs[q]
      /\ f \in Files \cup {None} /\ \A d \in Dests : DOMAIN store[d] \subseteq Files
  <2>1. /\ TInv /\ SoloInv /\ RInv /\ StoreBehind /\ Doing(r) /\ OwnNames /\ Told(r)
        /\ MaxActive <= 1
      BY DEF HistoryInv, PInv, SoloInv, HInv, Faithful, OneAtATime
  <2> QED BY <2>1, OtherRows DEF TInv, TypeOK, FileMap
<1>1. Ended(q)
    BY DEF HistoryInv, HInv, Told
<1>2. \A d : /\ Unforgotten(f, d) <=> (pc[r] \in Deleting /\ Dest(r) = d /\ f \in job[r].gone)
             /\ Unforgotten(f, d)' <=> (pc'[r] \in Deleting /\ Dest(r)' = d /\ f \in job'[r].gone)
  <2>1. PICK g : g = f
      OBVIOUS
  <2>2. \A d : /\ Unforgotten(g, d) <=> (pc[r] \in Deleting /\ Dest(r) = d /\ g \in job[r].gone)
               /\ Unforgotten(g, d)' <=> (pc'[r] \in Deleting /\ Dest(r)' = d /\ g \in job'[r].gone)
      BY <1>0, MoverDeletes
  <2> QED BY <1>0, <2>1, <2>2 DEF Unforgotten
<1>3. SUFFICES ASSUME NEW d \in Dests
               PROVE  /\ Has(d, f)' => Has(d, f)
                      /\ \A o \in Outcomes : /\ Says(q, d, o)' => Says(q, d, o)
                                             /\ Has(d, f)' /\ Says(q, d, o) => Says(q, d, o)'
                      /\ Says(q, d, "success")' /\ (Has(d, f) \/ Unforgotten(f, d)) =>
                             \/ Has(d, f)' \/ Unforgotten(f, d)'
                             \/ AnswersLost(d) /\ Superseded(q, d)'
  <2>1. \A d \in Dests : f # None /\ Superseded(q, d) => Superseded(q, d)'
      BY SupersededStays DEF HistoryInv
  <2>2. ASSUME NEW d \in Dests
        PROVE  /\ Has(d, f)' => \/ Says(q, d, "success")'
                                \/ AnswersLost(d) /\ Says(q, d, "failed")'
               /\ Says(q, d, "success")' => \/ Has(d, f)' \/ Unforgotten(f, d)'
                                            \/ AnswersLost(d) /\ Superseded(q, d)'
               /\ Says(q, d, "success")' => f # None
    <3>1. /\ Has(d, f) => Says(q, d, "success") \/ (AnswersLost(d) /\ Says(q, d, "failed"))
          /\ Says(q, d, "success") => \/ Has(d, f) \/ Unforgotten(f, d)
                                      \/ AnswersLost(d) /\ Superseded(q, d)
          /\ Says(q, d, "success") => f # None
        BY <1>1 DEF Ended
    <3>2. "success" \in Outcomes /\ "failed" \in Outcomes
        BY DEF Outcomes
    <3> QED BY <1>3, <2>1, <3>1, <3>2
  <2> QED BY <1>0, <2>2 DEF Ended
<1>4. CASE Open(r) \/ CopyDone(r) \/ CopyUnheard(r)
  <2>1. results' = results /\ pc[r] \notin Deleting
    <3>1. /\ ~Forget(r) /\ ~Record(r) /\ ~PruneDelete(r) /\ ~PruneStops(r) /\ ~PruneUnheard(r)
          /\ pc[r] \notin Deleting
        BY <1>4 DEF Open, CopyDone, CopyUnheard, Forget, Record, PruneDelete, PruneStops,
                    PruneUnheard, AtStage, Deleting
    <3> QED BY <3>1, ResultsMove
  <2>2. f # job[r].file \/ f = None
    <3>1. FileOf(q) = f /\ FileOf(r) = job[r].file
        BY <1>4 DEF FileOf, Open, CopyDone, CopyUnheard, AtStage
    <3> QED BY <1>0, <3>1 DEF OwnNames
  <2>3. Has(d, f)' <=> Has(d, f)
    <3>1. job[r].file \in Files
        BY <1>0, <1>4, StoreGets
    <3>2. f # job[r].file
        BY <2>2, <3>1, NoneAssumption
    <3>3. /\ \A x \in Dests \ {Dest(r)} : store'[x] = store[x]
          /\ f \in DOMAIN store'[Dest(r)] <=> f \in DOMAIN store[Dest(r)]
          /\ f \in DOMAIN store[Dest(r)] => store'[Dest(r)][f] = store[Dest(r)][f]
        BY <1>0, <1>4, <3>2, StoreGets
    <3> QED BY <1>0, <3>3 DEF Has
  <2> QED BY <1>2, <2>1, <2>3 DEF Says
<1>5. CASE Prunes(r)
  <2>0. Dest(r) \in Dests /\ pc[r] = "prune" /\ job[r].file \in Files
      BY <1>0, <1>5, LinkType DEF Prunes, PruneDelete, PruneUnheard, AtStage, Looping, TInv, JobOK
  <2>1. PICK e \in job[r].cut :
            /\ e \in Files /\ e.prefix = job[r].file.prefix /\ e.stamp < job[r].file.stamp
            /\ store' = [store EXCEPT ![Dest(r)] = Unlink(@, e)]
      BY <1>0, <1>5, PruneTakesOlder
  <2>2. Dest(r)' = Dest(r) /\ results' = results
    <3>1. ~Record(r) /\ ~Forget(r)
        BY <2>0 DEF Record, Forget, AtStage
    <3>2. RunStep(r)
        BY <1>5 DEF Prunes, RunStep
    <3> QED BY <1>0, <1>5, <3>1, <3>2, LocalsKept, ResultsMove DEF Prunes, Dest
  <2>3. ASSUME NEW x, store' = [store EXCEPT ![Dest(r)] = Unlink(@, x)]
        PROVE  Has(d, f)' <=> (Has(d, f) /\ ~(d = Dest(r) /\ f = x))
    <3>1. /\ store'[Dest(r)] = Unlink(store[Dest(r)], x)
          /\ \A y \in Dests \ {Dest(r)} : store'[y] = store[y]
        BY <1>0, <2>0, <2>3
    <3>2. /\ DOMAIN store'[Dest(r)] = DOMAIN store[Dest(r)] \ {x}
          /\ \A g \in DOMAIN store'[Dest(r)] : store'[Dest(r)][g] = store[Dest(r)][g]
        BY <3>1 DEF Unlink
    <3> QED BY <1>0, <2>0, <3>1, <3>2 DEF Has
  <2>4. \A o \in Outcomes : Says(q, d, o)' <=> Says(q, d, o)
      BY <2>2 DEF Says
  <2>5. CASE PruneDelete(r)
    <3>1. PICK x : /\ store' = [store EXCEPT ![Dest(r)] = Unlink(@, x)]
                   /\ job' = [job EXCEPT ![r].cut = @ \ {x}, ![r].gone = @ \cup {x}]
                   /\ Goto(r, IF job[r].cut = {x} THEN "forget" ELSE "prune")
        BY <2>5 DEF PruneDelete
    <3>2. job'[r].gone = job[r].gone \cup {x} /\ pc'[r] \in Deleting
        BY <1>0, <3>1 DEF Jobs, TInv, TypeOK, Goto, Deleting
    <3>3. Has(d, f)' <=> (Has(d, f) /\ ~(d = Dest(r) /\ f = x))
        BY <2>3, <3>1
    <3> QED BY <1>2, <2>0, <2>2, <2>4, <3>2, <3>3 DEF Deleting
  <2>6. CASE PruneUnheard(r)
    <3>1. job'[r].gone = job[r].gone /\ AnswersLost(Dest(r))
        BY <1>0, <2>6 DEF PruneUnheard, Jobs, TInv, TypeOK
    <3>2. Unforgotten(f, d) => Unforgotten(f, d)'
        BY <1>0, <1>2, <2>2, <2>6, <3>1, DeletingSteps DEF Deleting
    <3>3. d = Dest(r) /\ f = e => Superseded(q, d)'
      <4> SUFFICES ASSUME d = Dest(r), f = e PROVE Superseded(q, d)'
          OBVIOUS
      <4>1. Has(d, job[r].file) /\ job[r].file # e
          BY <2>0, <2>1, PrunerHas DEF HistoryInv, Files
      <4>2. job[r].file \in DOMAIN store'[d] /\ store'[d][job[r].file].whole
          BY <1>0, <2>1, <4>1 DEF Has, Unlink
      <4> QED BY <1>0, <2>1, <4>2 DEF Superseded, Files
    <3>4. Has(d, f)' <=> (Has(d, f) /\ ~(d = Dest(r) /\ f = e))
        BY <2>1, <2>3
    <3> QED BY <2>4, <3>1, <3>2, <3>3, <3>4
  <2> QED BY <1>5, <2>5, <2>6 DEF Prunes
<1>6. CASE Forget(r)
  <2>1. PICK g \in job[r].gone :
              /\ g \in Files /\ results' = results \ Forgotten(Dest(r), g)
              /\ job'[r].gone = job[r].gone \ {g}
              /\ pc'[r] = IF job[r].gone = {g} THEN "record" ELSE "forget"
      BY <1>0, <1>6, ForgetDrops
  <2>2. Dest(r)' = Dest(r) /\ store' = store /\ pc[r] \in Deleting
    <3>1. ~Record(r)
        BY <1>6 DEF Forget, Record, AtStage
    <3> QED BY <1>0, <1>6, <3>1, LocalsKept DEF Dest, Forget, AtStage, Deleting
  <2>3. \A o \in Outcomes : Says(q, d, o)' <=> (Says(q, d, o) /\ ~(d = Dest(r) /\ f = g))
      BY <2>1 DEF Says, Forgotten
  <2>4. g \notin DOMAIN store[Dest(r)]
      BY <1>0, <2>1, <2>2 DEF Told
  <2>5. Has(d, f)' <=> Has(d, f)
      BY <1>0, <2>2 DEF Has
  <2>6. Has(d, f) => ~(d = Dest(r) /\ f = g)
      BY <2>4 DEF Has
  <2>7. Unforgotten(f, d) /\ ~(d = Dest(r) /\ f = g) => Unforgotten(f, d)'
      BY <1>2, <2>1, <2>2 DEF Deleting
  <2> QED BY <2>3, <2>5, <2>6, <2>7 DEF Outcomes
<1>7. CASE PruneStops(r) \/ ListDone(r)
  <2>1. Dest(r)' = Dest(r) /\ store' = store /\ results' = results /\ job'[r].gone = job[r].gone
    <3>1. /\ ~Record(r) /\ ~Forget(r) /\ ~FinishRun(r)
          /\ job'[r].gone = job[r].gone
      <4>1. job'[r].gone = job[r].gone
          BY <1>0, <1>7 DEF PruneStops, ListDone, Jobs, TInv, TypeOK
      <4> QED BY <1>7, <4>1 DEF PruneStops, ListDone, Record, Forget, FinishRun, AtStage
    <3> QED BY <1>0, <1>7, <3>1, LocalsKept, ResultsMove DEF Dest, PruneStops, ListDone
  <2>2. Has(d, f)' <=> Has(d, f)
      BY <1>0, <2>1 DEF Has
  <2>3. Unforgotten(f, d) => Unforgotten(f, d)'
    <3>1. CASE ListDone(r)
        BY <1>0, <1>2, <3>1, DeletingSteps
    <3>2. CASE PruneStops(r)
        BY <1>0, <1>2, <2>1, <3>2, DeletingSteps DEF Deleting
    <3> QED BY <1>7, <3>1, <3>2
  <2> QED BY <2>1, <2>2, <2>3 DEF Says
<1>8. CASE ~(\/ Open(r) \/ CopyDone(r) \/ CopyUnheard(r) \/ Prunes(r) \/ Forget(r)
             \/ PruneStops(r) \/ ListDone(r))
  <2>1. pc[r] \notin Deleting
      BY <1>0, <1>8, DeletingSteps DEF Prunes
  <2>2. store' = store
    <3>1. CASE \/ \E s \in Schedules : Start(r, s)
               \/ ReadLinks(r) \/ ReadSchedule(r) \/ LoadFails(r) \/ EnterMirror(r)
               \/ SyncDone(r) \/ SyncFails(r) \/ Stamp(r) \/ ZipDone(r) \/ ArchiveFails(r)
        BY <3>1 DEF Start, ReadLinks, ReadSchedule, LoadFails, EnterMirror, SyncDone,
                    SyncFails, Stamp, ZipDone, ArchiveFails
    <3>2. CASE \/ OpenFails(r) \/ CopyFails(r) \/ ListFails(r) \/ Record(r) \/ Cleanup(r)
               \/ FinishRun(r)
        BY <3>2 DEF OpenFails, CopyFails, ListFails, Record, Cleanup, FinishRun
    <3> QED BY <1>8, <3>1, <3>2 DEF RunStep, Prunes
  <2>3. Has(d, f)' <=> Has(d, f)
      BY <1>0, <2>2 DEF Has
  <2>4. \A o \in Outcomes : Says(q, d, o)' <=> Says(q, d, o)
    <3>1. CASE Record(r)
      <4>1. PICK row : row.run = r /\ results' = results \cup {row}
          BY <1>0, <3>1, RecordAdds DEF HistoryInv
      <4> QED BY <4>1 DEF Says
    <3>2. CASE ~Record(r)
        BY <1>8, <3>2, ResultsMove DEF Says
    <3> QED BY <3>1, <3>2
  <2> QED BY <1>2, <2>1, <2>3, <2>4
<1> QED BY <1>4, <1>5, <1>6, <1>7, <1>8

\* A run that has not started, or has ended, is told of as before.
LEMMA RestingTold ==
    ASSUME Faithful, HistoryInv, TInv', NEW r \in Runs,
           RunStep(r) \/ \E s \in Schedules : Start(r, s), NEW q \in Runs \ {r}
    PROVE  Told(q)'
<1>0. /\ TInv /\ OutcomeInv /\ Solo /\ MaxActive <= 1 /\ Told(q) /\ Doing(q)
    BY DEF HistoryInv, PInv, SoloInv, HInv, Faithful, OneAtATime
<1>1. pc'[q] = pc[q] /\ job'[q] = job[q] /\ runs'[q] = runs[q] /\ pc[q] \in Resting
    BY <1>0, Alone, OthersStay, OtherRows
<1>2. job[q].gone = {} /\ job[q].plan = <<>>
    BY <1>0, <1>1 DEF Doing, NoJob
<1>3. CASE pc[q] = "done"
    BY <1>1, <1>2, <1>3, EndedStays DEF Told, Deleting
<1>4. CASE pc[q] = "idle"
  <2>1. runs[q].file = None
      BY <1>0, <1>4 DEF OutcomeInv
  <2>2. \A o \in Outcomes, d \in Dests : Says(q, d, o)' <=> Says(q, d, o)
    <3>1. CASE Record(r)
      <4>1. PICK row : row.run = r /\ results' = results \cup {row}
          BY <1>0, <3>1, RecordAdds
      <4> QED BY <4>1 DEF Says
    <3>2. CASE Forget(r)
      <4>1. PICK f \in Files : results' = results \ Forgotten(Dest(r), f)
          BY <1>0, <3>2, ForgetDrops
      <4> QED BY <2>1, <4>1, NoneAssumption DEF Says, Forgotten
    <3>3. CASE ~Record(r) /\ ~Forget(r)
        BY <3>3, ResultsMove DEF Says
    <3> QED BY <3>1, <3>2, <3>3
  <2>3. \A o \in Outcomes, d \in Dests :
           d \in DestsAt(q, Recorded(q, o))' <=> d \in DestsAt(q, Recorded(q, o))
      BY <1>1 DEF DestsAt, Recorded
  <2> QED BY <1>0, <1>1, <1>2, <1>4, <2>2, <2>3 DEF Told, Deleting
<1> QED BY <1>1, <1>3, <1>4 DEF Resting

LEMMA HInvStep ==
    ASSUME Faithful, HistoryInv, TInv', [Next]_vars
    PROVE  HInv'
<1>0. /\ TInv /\ SoloInv /\ Solo /\ InTurn /\ ClockBehind /\ MaxActive <= 1 /\ MinGap = 1
      /\ removing = None /\ Signed /\ OwnNames /\ \A q \in Runs : Told(q)
    BY DEF HistoryInv, PInv, SoloInv, HInv, Faithful, OneAtATime
<1>1. removing' = None
    BY <1>0, NobodyRemoves
<1>2. ASSUME NEW r \in Runs, RunStep(r) \/ \E s \in Schedules : Start(r, s)
      PROVE  HInv'
  <2>1. clock <= clock'
      BY <1>0, <1>2, ClockMoves
  <2>2. Signed' /\ OwnNames'
      BY <1>0, <1>2, <2>1, SignedMoves, OwnNamesMove
  <2>3. \A q \in Runs : Told(q)'
      BY <1>2, ToldMoves, RestingTold
  <2> QED BY <1>1, <2>2, <2>3 DEF HInv
<1>3. CASE Outside
  <2>1. UNCHANGED <<pc, job, runs, clock>>
      BY <1>3, OutsideMovesNone
  <2>2. store' = store /\ results' = results
      BY <1>0, <1>3 DEF Faithful, OneAtATime, Outside, Expire, Hang, vars, history, Administrator,
         RenameSchedule, SetScheduleDestinations, DeleteSchedule, CountLinks, DeleteDestination,
         RemoveHistory,
         RemoveBackup
  <2>3. Signed' /\ OwnNames'
      BY <1>0, <2>1, <2>2 DEF Signed, OwnNames, FileOf
  <2>4. \A q \in Runs : Told(q)'
      BY <1>0, <2>1, <2>2 DEF Told, Ended, Says, Superseded, DestsAt, Recorded, Has,
                              Unforgotten, Dest
  <2> QED BY <1>1, <2>3, <2>4 DEF HInv
<1>4. ~Crash
    BY DEF Crash, Faithful, HistoryInv, PInv, TInv, TypeOK
<1> QED BY <1>2, <1>3, <1>4, WhoMoves

\* A complete file is the archive of the run it is named for, so at rest the
\* history and the destinations say the same.
LEMMA HistorySettled == ASSUME PInv, HInv PROVE HistoryMatchesStore
<1> SUFFICES ASSUME Active = {}, NEW r \in Runs, NEW d \in Dests
             PROVE  /\ Says(r, d, "success") => Keeps(r, d) \/ (AnswersLost(d) /\ Superseded(r, d))
                    /\ Keeps(r, d) => \/ Says(r, d, "success")
                                      \/ AnswersLost(d) /\ Says(r, d, "failed")
    BY DEF HistoryMatchesStore
<1>0. /\ \A q \in Runs : pc[q] \in Resting
      /\ Signed /\ OwnNames /\ Told(r)
      /\ \A f \in DOMAIN store[d] : f \in Files /\ store[d][f] \in Content
    BY DEF Active, Resting, HInv, PInv, TInv, TypeOK, FileMap
<1>1. \A f \in Files : f # None
    BY NoneAssumption
<1>2. Keeps(r, d) => FileOf(r) \in Files /\ Has(d, FileOf(r))
    BY <1>0 DEF Keeps, Signed, Whole, Has
<1>3. CASE pc[r] = "idle"
  <2>1. FileOf(r) = None /\ ~Says(r, d, "success")
    <3>1. job[r] = NoJob
        BY <1>3 DEF PInv, SoloInv, Doing, Resting
    <3> QED BY <1>0, <1>3, <3>1 DEF FileOf, Told, NoJob, DestsAt, Recorded, Outcomes
  <2> QED BY <1>1, <1>2, <2>1
<1>4. CASE pc[r] = "done"
  <2>1. FileOf(r) = runs[r].file /\ ~Unforgotten(runs[r].file, d) /\ Ended(r)
      BY <1>0, <1>4 DEF FileOf, Unforgotten, Deleting, Resting, Told
  <2>2. Has(d, FileOf(r)) => Keeps(r, d)
    <3> SUFFICES ASSUME Has(d, FileOf(r)) PROVE store[d][FileOf(r)] = Whole(r)
        BY DEF Has, Keeps
    <3> DEFINE f == FileOf(r)
    <3>1. f \in DOMAIN store[d] /\ store[d][f].whole = TRUE /\ store[d][f] \in Content
        BY <1>0 DEF Has, Content
    <3>2. PICK q \in Runs : q = store[d][f].by
        BY <3>1 DEF Content
    <3>3. FileOf(q) = f
        BY <1>0, <3>1, <3>2 DEF Signed
    <3>4. q = r
        BY <1>0, <1>1, <3>1, <3>3 DEF OwnNames
    <3> QED BY <3>1, <3>2, <3>4 DEF Content, Whole
  <2> QED BY <1>2, <2>1, <2>2 DEF Ended
<1> QED BY <1>0, <1>3, <1>4 DEF Resting

\* HistoryMatchesStore, for every number of runs, schedules and destinations: while
\* runs go one at a time and the database works, what the history reports at rest
\* is what the destinations hold, whatever else fails, and where answers are lost it
\* is off in no more than the two ways that property names: a row is written only
\* after Store has returned, and dropped only for a file retention has deleted.
THEOREM HistoryTrue == Faithful => (Spec => []HistoryMatchesStore)
<1> SUFFICES ASSUME Faithful PROVE Spec => []HistoryMatchesStore
    OBVIOUS
<1>1. Init => OutcomeInv /\ HInv
  <2> SUFFICES ASSUME Init PROVE OutcomeInv /\ HInv
      OBVIOUS
  <2>1. OutcomeInv
      BY DEF Init, OutcomeInv, NoJob, Looping, Unstamped
  <2>2. Signed /\ OwnNames
      BY DEF Init, Signed, OwnNames, FileOf, NoJob
  <2>3. \A r \in Runs : Told(r)
      BY DEF Init, Told, Deleting, NoJob, Says, DestsAt, Recorded
  <2> QED BY <2>1, <2>2, <2>3 DEF Init, HInv
<1>2. PInv /\ TInv' /\ OutcomeInv /\ HInv /\ [Next]_vars => OutcomeInv' /\ HInv'
    BY OutcomeStep, HInvStep DEF Faithful, HistoryInv, PInv
<1>3. PInv => TInv
    BY DEF PInv
<1>4. PInv /\ HInv => HistoryMatchesStore
    BY HistorySettled
<1>5. Spec => []PInv
    BY PInvHolds DEF Faithful
<1> QED BY <1>1, <1>2, <1>3, <1>4, <1>5, PTL DEF Spec
=============================================================================
