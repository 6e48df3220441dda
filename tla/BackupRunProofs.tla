-------------------------- MODULE BackupRunProofs --------------------------
(***************************************************************************)
(* Proofs about BackupRun, for any number of runs, schedules, destinations *)
(* and administrators' requests, with every kind of failure, hang and      *)
(* crash the module models.  Each theorem names what it assumes.           *)
(***************************************************************************)
EXTENDS BackupRun, TLAPS

USE DEF Runs

-----------------------------------------------------------------------------
(* What the helpers return. *)

\* A sanitized name is a name again, and an archive's file name a file name.
LEMMA SanitizeType ==
    ASSUME NEW name \in Seq(Int)
    PROVE  SanitizeName(name) \in Seq(Int)
<1>1. \A c \in Int : SafeSymbol(c) \in Int
    BY DEF SafeSymbol, Dash
<1>2. Backup \in Seq(Int)
    BY DEF Backup
<1>3. DOMAIN name = 1..Len(name) /\ Len(name) \in Nat /\ \A i \in DOMAIN name : name[i] \in Int
    OBVIOUS
<1>4. [i \in DOMAIN name |-> SafeSymbol(name[i])] \in Seq(Int)
    BY <1>1, <1>3
<1>5. CASE name = <<>>
    BY <1>2, <1>5 DEF SanitizeName
<1>6. CASE name # <<>>
    BY <1>4, <1>6 DEF SanitizeName
<1> QED BY <1>5, <1>6

LEMMA ArchiveFileType ==
    ASSUME NEW name \in Seq(Int), NEW t \in Nat
    PROVE  ArchiveFile(name, t) \in Files
BY SanitizeType DEF ArchiveFile, Files

\* Writing a file and unlinking one keep a directory a directory.
LEMMA DirType ==
    ASSUME NEW dir, FileMap(dir), NEW f \in Files, NEW c \in Content
    PROVE  FileMap(Write(dir, f, c)) /\ FileMap(Unlink(dir, f))
BY DEF FileMap, Write, Unlink

LEMMA UnlinkType ==
    ASSUME NEW dir, FileMap(dir), NEW f
    PROVE  FileMap(Unlink(dir, f))
BY DEF FileMap, Unlink

LEMMA ContentType ==
    ASSUME NEW r \in Runs
    PROVE  Whole(r) \in Content /\ Partial(r) \in Content
BY DEF Whole, Partial, Content

LEMMA NoJobType == NoJob \in Jobs
BY DEF NoJob, Jobs

-----------------------------------------------------------------------------
(* The types, with what a run's stage says about its local variables. *)

Looping == {"open", "copy", "list", "prune", "forget", "record"}

JobOK ==
    \A r \in Runs :
        /\ pc[r] \in {"links", "sched"} => job[r].sched \in Schedules
        /\ pc[r] \in {"idle", "links", "sched", "lock", "sync", "stamp", "zip"} => job[r].at = 1
        /\ pc[r] \in {"sched", "lock", "sync", "stamp", "zip"} => job[r].plan # <<>>
        /\ pc[r] \in Looping => job[r].at \in DOMAIN job[r].plan
        /\ pc[r] \in {"zip", "cleanup"} \cup Looping => job[r].file \in Files

TInv == TypeOK /\ JobOK

\* The link a looping run works on is a link.
LEMMA LinkType ==
    ASSUME TInv, NEW r \in Runs, pc[r] \in Looping
    PROVE  Dest(r) \in Dests /\ Keep(r) \in Nat /\ job[r].file \in Files
<1>1. job[r] \in Jobs /\ job[r].at \in DOMAIN job[r].plan /\ job[r].file \in Files
    BY DEF TInv, TypeOK, JobOK
<1>2. job[r].plan \in Seq(Link)
    BY <1>1 DEF Jobs
<1>3. job[r].plan[job[r].at] \in Link
    BY <1>1, <1>2
<1> QED BY <1>1, <1>3 DEF Link, Dest, Keep

LEMMA InitTInv == Init => TInv
<1> SUFFICES ASSUME Init PROVE TInv
    OBVIOUS
<1>1. links \in [Schedules -> Seq(Link)]
    BY TablesAssumption DEF Init, LinkList
<1>2. FileMap(<<>>)
    BY DEF FileMap
<1>3. TypeOK
    BY <1>1, <1>2, TablesAssumption, NoJobType DEF Init, TypeOK, Stages
<1>4. JobOK
    BY DEF Init, JobOK, NoJob, Looping
<1> QED BY <1>3, <1>4 DEF TInv
\* What a step does to a run's local variables, as the types see it.
LEMMA JobType ==
    ASSUME TInv, NEW r \in Runs
    PROVE  /\ \A s \in Schedules : [job[r] EXCEPT !.sched = s] \in Jobs
           /\ \A p \in Seq(Link) : [job[r] EXCEPT !.plan = p] \in Jobs
           /\ \A n \in Seq(Int) : [job[r] EXCEPT !.name = n] \in Jobs
           /\ \A f \in Files \cup {None} : [job[r] EXCEPT !.file = f] \in Jobs
           /\ \A S \in SUBSET Files : [job[r] EXCEPT !.cut = S] \in Jobs
           /\ \A S, T \in SUBSET Files : [job[r] EXCEPT !.cut = S, !.gone = T] \in Jobs
           /\ \A S \in SUBSET Files : [job[r] EXCEPT !.gone = S] \in Jobs
           /\ [job[r] EXCEPT !.failed = @ \cup {job[r].at}, !.cut = {}] \in Jobs
           /\ [job[r] EXCEPT !.at = @ + 1] \in Jobs
<1>1. job[r] \in Jobs
    BY DEF TInv, TypeOK
<1>2. job[r].at \in Nat /\ job[r].failed \in SUBSET Nat
    BY <1>1 DEF Jobs
<1>3. job[r].failed \cup {job[r].at} \in SUBSET Nat /\ job[r].at + 1 \in Nat
    BY <1>2
<1>4. /\ \A s \in Schedules : [job[r] EXCEPT !.sched = s] \in Jobs
      /\ \A p \in Seq(Link) : [job[r] EXCEPT !.plan = p] \in Jobs
      /\ \A n \in Seq(Int) : [job[r] EXCEPT !.name = n] \in Jobs
      /\ \A f \in Files \cup {None} : [job[r] EXCEPT !.file = f] \in Jobs
    BY <1>1 DEF Jobs
<1>5. /\ \A S \in SUBSET Files : [job[r] EXCEPT !.cut = S] \in Jobs
      /\ \A S, T \in SUBSET Files : [job[r] EXCEPT !.cut = S, !.gone = T] \in Jobs
      /\ \A S \in SUBSET Files : [job[r] EXCEPT !.gone = S] \in Jobs
    BY <1>1 DEF Jobs
<1>6. [job[r] EXCEPT !.failed = @ \cup {job[r].at}, !.cut = {}] \in Jobs
    BY <1>1, <1>3 DEF Jobs
<1>7. [job[r] EXCEPT !.at = @ + 1] \in Jobs
    BY <1>1, <1>3 DEF Jobs
<1> QED BY <1>4, <1>5, <1>6, <1>7

\* Loading: the tables give the run well-typed links and a name.
LEMMA LoadTInv ==
    ASSUME TInv, NEW r \in Runs,
           \/ \E s \in Schedules : Start(r, s)
           \/ ReadLinks(r) \/ ReadSchedule(r) \/ LoadFails(r)
    PROVE  TInv'
<1> USE DEF TInv
<1>1. ASSUME NEW s \in Schedules, Start(r, s)
      PROVE  TInv'
  <2>1. TypeOK'
      BY <1>1, JobType DEF Start, TypeOK, Goto, Stages, tables, peers
  <2>2. JobOK'
      BY <1>1 DEF Start, TypeOK, Goto, JobOK, Looping, Started, Jobs
  <2> QED BY <2>1, <2>2
<1>2. CASE ReadLinks(r)
  <2>0. job[r].sched \in Schedules /\ links[job[r].sched] \in Seq(Link)
      BY <1>2 DEF ReadLinks, AtStage, TypeOK, JobOK
  <2>1. TypeOK'
      BY <1>2, <2>0, JobType DEF ReadLinks, AtStage, TypeOK, Goto, Stages, tables, peers, history
  <2>2. JobOK'
      BY <1>2, <2>0 DEF ReadLinks, AtStage, TypeOK, Goto, JobOK, Looping, Jobs
  <2> QED BY <2>1, <2>2
<1>3. CASE ReadSchedule(r)
  <2>0. job[r].sched \in Schedules /\ names[job[r].sched] \in Seq(Int)
      BY <1>3 DEF ReadSchedule, AtStage, TypeOK, JobOK
  <2>1. TypeOK'
      BY <1>3, <2>0, JobType DEF ReadSchedule, TypeOK, Goto, Stages, tables, peers, history
  <2>2. JobOK'
      BY <1>3, <2>0 DEF ReadSchedule, AtStage, TypeOK, Goto, JobOK, Looping, Jobs
  <2> QED BY <2>1, <2>2
<1>4. CASE LoadFails(r)
    BY <1>4 DEF LoadFails, AtStage, TypeOK, Goto, JobOK, Looping, Stages, tables, peers, history
<1> QED BY <1>1, <1>2, <1>3, <1>4

\* The section under the mutex: the archive's name is a file name.
LEMMA MirrorTInv ==
    ASSUME TInv, NEW r \in Runs,
           \/ EnterMirror(r) \/ SyncDone(r) \/ SyncFails(r)
           \/ Stamp(r) \/ ZipDone(r) \/ ArchiveFails(r)
    PROVE  TInv'
<1> USE DEF TInv
<1>1. CASE EnterMirror(r) \/ SyncDone(r) \/ SyncFails(r)
  <2>1. /\ UNCHANGED <<tables, history, clock, temp, store, job, peers>>
        /\ mu' \in Runs \cup {None}
      BY <1>1 DEF EnterMirror, SyncDone, SyncFails, TypeOK
  <2>2. /\ \E stage \in {"sync", "stamp", "finish"} : pc' = [pc EXCEPT ![r] = stage]
        /\ pc[r] \in {"lock", "sync"}
      BY <1>1 DEF EnterMirror, SyncDone, SyncFails, AtStage, Goto
  <2>3. TypeOK'
      BY <2>1, <2>2 DEF TypeOK, Stages, tables, history, peers
  <2>4. JobOK'
      BY <2>1, <2>2 DEF TypeOK, JobOK, Looping
  <2> QED BY <2>3, <2>4
<1>2. CASE Stamp(r)
  <2> PICK t, f : /\ t \in {clock + MinGap, clock + 1} \ {0}
                  /\ f = ArchiveFile(job[r].name, t)
                  /\ clock' = t
                  /\ temp' = Write(temp, f, Partial(r))
                  /\ job' = [job EXCEPT ![r].file = f]
      BY <1>2 DEF Stamp
  <2>0. t \in Nat /\ f \in Files
    <3>1. job[r].name \in Seq(Int)
        BY DEF TypeOK, Jobs
    <3>2. t \in Nat
        BY BoundsAssumption DEF TypeOK
    <3> QED BY <3>1, <3>2, ArchiveFileType
  <2>1. TypeOK'
      BY <1>2, <2>0, JobType, DirType, ContentType
      DEF Stamp, TypeOK, Goto, Stages, tables, peers, history
  <2>2. JobOK'
      BY <1>2, <2>0 DEF Stamp, AtStage, TypeOK, Goto, JobOK, Looping, Jobs
  <2> QED BY <2>1, <2>2
<1>3. CASE ZipDone(r)
  <2>0. job[r].file \in Files
      BY <1>3 DEF ZipDone, AtStage, JobOK
  <2>1. TypeOK'
      BY <1>3, <2>0, DirType, ContentType DEF ZipDone, TypeOK, Goto, Stages, tables, peers,
                                              history
  <2>2. job[r].at \in DOMAIN job[r].plan
    <3>1. job[r].plan \in Seq(Link) /\ job[r].plan # <<>> /\ job[r].at = 1
        BY <1>3 DEF ZipDone, AtStage, TypeOK, JobOK, Jobs
    <3> QED BY <3>1
  <2>3. JobOK'
      BY <1>3, <2>0, <2>2 DEF ZipDone, AtStage, TypeOK, Goto, JobOK, Looping
  <2> QED BY <2>1, <2>3
<1>4. CASE ArchiveFails(r)
  <2>1. TypeOK'
      BY <1>4, JobType DEF ArchiveFails, TypeOK, Goto, Stages, tables, peers, history
  <2>2. JobOK'
      BY <1>4 DEF ArchiveFails, AtStage, TypeOK, Goto, JobOK, Looping, Jobs
  <2> QED BY <2>1, <2>2
<1> QED BY <1>1, <1>2, <1>3, <1>4
\* Writing or unlinking one file at one destination leaves all of them typed.
LEMMA StoreType ==
    ASSUME TypeOK, NEW d \in Dests, NEW f, NEW c,
           \/ f \in Files /\ c \in Content /\ store' = [store EXCEPT ![d] = Write(@, f, c)]
           \/ store' = [store EXCEPT ![d] = Unlink(@, f)]
           \/ store' = store
    PROVE  DOMAIN store' = Dests /\ \A e \in Dests : FileMap(store'[e])
BY DirType, UnlinkType DEF TypeOK

LEMMA UploadTInv ==
    ASSUME TInv, NEW r \in Runs,
           Open(r) \/ OpenFails(r) \/ CopyDone(r) \/ CopyFails(r) \/ CopyUnheard(r)
    PROVE  TInv'
<1> USE DEF TInv
<1>0. Dest(r) \in Dests /\ Keep(r) \in Nat /\ job[r].file \in Files
    BY LinkType DEF Open, OpenFails, CopyDone, CopyFails, CopyUnheard, AtStage, Looping
<1>1. CASE Open(r)
  <2>1. DOMAIN store' = Dests /\ \A e \in Dests : FileMap(store'[e])
      BY <1>0, <1>1, StoreType, ContentType DEF Open
  <2>2. TypeOK'
      BY <1>1, <2>1 DEF Open, TypeOK, Goto, Stages, tables, peers, history
  <2>3. JobOK'
      BY <1>1 DEF Open, AtStage, TypeOK, Goto, JobOK, Looping
  <2> QED BY <2>2, <2>3
<1>a. ASSUME Arrive(r)
      PROVE  DOMAIN store' = Dests /\ \A e \in Dests : FileMap(store'[e])
    BY <1>0, <1>a, StoreType, ContentType DEF Arrive, Copied
<1>2. CASE CopyDone(r)
  <2>1. DOMAIN store' = Dests /\ \A e \in Dests : FileMap(store'[e])
      BY <1>a, <1>2 DEF CopyDone
  <2>2. TypeOK'
      BY <1>2, <2>1 DEF CopyDone, TypeOK, Goto, Stages, tables, peers, history
  <2>3. JobOK'
      BY <1>2 DEF CopyDone, AtStage, TypeOK, Goto, JobOK, Looping
  <2> QED BY <2>2, <2>3
<1>3. CASE OpenFails(r) \/ CopyFails(r) \/ CopyUnheard(r)
  <2>0. job' = [job EXCEPT ![r].failed = @ \cup {job[r].at}, ![r].cut = {}]
        /\ pc' = [pc EXCEPT ![r] = "record"]
        /\ pc[r] \in Looping
      BY <1>3 DEF OpenFails, CopyFails, CopyUnheard, AtStage, Fail, Goto, Looping
  <2>1. DOMAIN store' = Dests /\ \A e \in Dests : FileMap(store'[e])
      BY <1>a, <1>3 DEF OpenFails, CopyFails, CopyUnheard, TypeOK
  <2>2. UNCHANGED <<tables, history, clock, mu, temp, peers>>
      BY <1>3 DEF OpenFails, CopyFails, CopyUnheard
  <2>3. TypeOK'
      BY <2>0, <2>1, <2>2, JobType DEF TypeOK, Stages, tables, peers, history
  <2>4. JobOK'
      BY <2>0 DEF TypeOK, JobOK, Looping, Jobs
  <2> QED BY <2>3, <2>4
<1> QED BY <1>1, <1>2, <1>3

LEMMA PruneTInv ==
    ASSUME TInv, NEW r \in Runs,
           ListDone(r) \/ ListFails(r) \/ PruneDelete(r) \/ PruneStops(r) \/ PruneUnheard(r)
           \/ Forget(r)
    PROVE  TInv'
<1> USE DEF TInv
<1>0. Dest(r) \in Dests /\ Keep(r) \in Nat /\ job[r].file \in Files
    BY LinkType DEF ListDone, ListFails, PruneDelete, PruneStops, PruneUnheard, Forget, AtStage,
                    Looping
<1>a. job[r].cut \in SUBSET Files /\ job[r].gone \in SUBSET Files
    BY DEF TypeOK, Jobs
<1>1. CASE ListDone(r)
  <2> PICK S : /\ S \subseteq DOMAIN store[Dest(r)]
               /\ job' = [job EXCEPT ![r].cut = S]
               /\ pc' = [pc EXCEPT ![r] = IF S = {} THEN "record" ELSE "prune"]
      BY <1>1 DEF ListDone, Goto, Beyond
  <2>0. S \in SUBSET Files
      BY <1>0 DEF TypeOK, FileMap
  <2>1. TypeOK'
    <3>1. job' \in [Runs -> Jobs] /\ pc' \in [Runs -> Stages]
        BY <2>0, JobType DEF TypeOK, Stages
    <3>2. UNCHANGED <<tables, history, clock, mu, temp, store, peers>>
        BY <1>1 DEF ListDone
    <3> QED BY <3>1, <3>2 DEF TypeOK, tables, peers, history
  <2>2. JobOK'
      BY <1>1 DEF ListDone, AtStage, TypeOK, JobOK, Looping, Jobs
  <2> QED BY <2>1, <2>2
<1>2. CASE ListFails(r)
    BY <1>2 DEF ListFails, AtStage, TypeOK, Goto, JobOK, Looping, Stages, tables, peers, history
<1>3. CASE PruneDelete(r)
  <2> PICK f \in job[r].cut :
          /\ store' = [store EXCEPT ![Dest(r)] = Unlink(@, f)]
          /\ job' = [job EXCEPT ![r].cut = @ \ {f}, ![r].gone = @ \cup {f}]
          /\ pc' = [pc EXCEPT ![r] = IF job[r].cut = {f} THEN "forget" ELSE "prune"]
      BY <1>3 DEF PruneDelete, Goto
  <2>0. job[r].cut \ {f} \in SUBSET Files /\ job[r].gone \cup {f} \in SUBSET Files
      BY <1>a
  <2>1. DOMAIN store' = Dests /\ \A e \in Dests : FileMap(store'[e])
      BY <1>0, StoreType
  <2>2. TypeOK'
    <3>1. [job[r] EXCEPT !.cut = @ \ {f}, !.gone = @ \cup {f}] \in Jobs
        BY <2>0, JobType
    <3>2. job' \in [Runs -> Jobs] /\ pc' \in [Runs -> Stages]
        BY <3>1 DEF TypeOK, Stages
    <3>3. UNCHANGED <<tables, history, clock, mu, temp, peers>>
        BY <1>3 DEF PruneDelete
    <3> QED BY <2>1, <3>2, <3>3 DEF TypeOK, tables, peers, history
  <2>3. JobOK'
    <3>1. pc[r] = "prune"
        BY <1>3 DEF PruneDelete, AtStage
    <3>2. /\ job'[r].at = job[r].at /\ job'[r].plan = job[r].plan /\ job'[r].file = job[r].file
          /\ pc'[r] \in {"prune", "forget"}
          /\ \A q \in Runs \ {r} : job'[q] = job[q] /\ pc'[q] = pc[q]
        BY DEF TypeOK, Jobs
    <3> QED BY <3>1, <3>2 DEF JobOK, Looping
  <2> QED BY <2>2, <2>3
<1>4. CASE PruneStops(r) \/ PruneUnheard(r)
  <2>1. DOMAIN store' = Dests /\ \A e \in Dests : FileMap(store'[e])
      BY <1>0, <1>4, StoreType DEF PruneStops, PruneUnheard
  <2>2. /\ job' = [job EXCEPT ![r].cut = {}]
        /\ pc' = [pc EXCEPT ![r] = IF job[r].gone = {} THEN "record" ELSE "forget"]
        /\ pc[r] = "prune"
        /\ UNCHANGED <<tables, history, clock, mu, temp, peers>>
      BY <1>4 DEF PruneStops, PruneUnheard, AtStage, Goto
  <2>3. TypeOK'
      BY <2>1, <2>2, JobType DEF TypeOK, Stages, tables, peers, history
  <2>4. JobOK'
      BY <2>2 DEF TypeOK, JobOK, Looping, Jobs
  <2> QED BY <2>3, <2>4
<1>5. CASE Forget(r)
  <2> PICK f \in job[r].gone :
          /\ results' \subseteq results
          /\ job' = [job EXCEPT ![r].gone = @ \ {f}]
          /\ pc' = [pc EXCEPT ![r] = IF job[r].gone = {f} THEN "record" ELSE "forget"]
      BY <1>5 DEF Forget, Goto
  <2>0. job[r].gone \ {f} \in SUBSET Files
      BY <1>a
  <2>1. TypeOK'
      BY <1>5, <2>0, JobType DEF Forget, TypeOK, Stages, tables, peers
  <2>2. JobOK'
      BY <1>5 DEF Forget, AtStage, TypeOK, JobOK, Looping, Jobs
  <2> QED BY <2>1, <2>2
<1> QED BY <1>1, <1>2, <1>3, <1>4, <1>5

LEMMA RecordTInv ==
    ASSUME TInv, NEW r \in Runs, Record(r) \/ Cleanup(r) \/ FinishRun(r)
    PROVE  TInv'
<1> USE DEF TInv
<1>1. CASE Record(r)
  <2>0. Dest(r) \in Dests /\ job[r].file \in Files /\ job[r].at \in DOMAIN job[r].plan
      BY <1>1, LinkType DEF Record, AtStage, Looping, JobOK
  <2>a. job[r].plan \in Seq(Link) /\ job[r].at \in Nat
      BY DEF TypeOK, Jobs
  <2>1. results' \subseteq Row
    <3> DEFINE outcome == IF job[r].at \in job[r].failed THEN "failed" ELSE "success"
               row == [run |-> r, at |-> job[r].at, dest |-> Dest(r), status |-> outcome]
    <3>1. row \in Row
        BY <2>0, <2>a DEF Row
    <3>2. results' = results \cup {row} \/ results' = results
        BY <1>1 DEF Record
    <3> QED BY <3>1, <3>2 DEF TypeOK
  <2>2. TypeOK'
      BY <1>1, <2>1, JobType DEF Record, TypeOK, Goto, Stages, tables, peers
  <2>3. /\ job' = [job EXCEPT ![r].at = @ + 1]
        /\ pc' = [pc EXCEPT ![r] = IF job[r].at = Len(job[r].plan) THEN "cleanup" ELSE "open"]
      BY <1>1 DEF Record, Goto
  <2>4. job[r].at # Len(job[r].plan) => job[r].at + 1 \in DOMAIN job[r].plan
      BY <2>0, <2>a
  <2>5. JobOK'
      BY <2>0, <2>3, <2>4 DEF TypeOK, JobOK, Looping, Jobs
  <2> QED BY <2>2, <2>5
<1>2. CASE Cleanup(r)
  <2>1. FileMap(temp')
      BY <1>2, UnlinkType DEF Cleanup, TypeOK
  <2> QED BY <1>2, <2>1 DEF Cleanup, AtStage, TypeOK, Goto, JobOK, Looping, Stages,
                             tables, peers, history
<1>3. CASE FinishRun(r)
  <2>0. job[r].file \in Files \cup {None}
      BY DEF TypeOK, Jobs
  <2>1. Outcome(r) \in {"success", "failed"}
      BY DEF Outcome
  <2>a. runs' \in [Runs -> [status : {"none", "running", "success", "failed"},
                           file : Files \cup {None}]]
    <3>1. \/ runs' = [runs EXCEPT ![r] = [status |-> Outcome(r), file |-> job[r].file]]
          \/ runs' = runs
        BY <1>3 DEF FinishRun
    <3>2. [status |-> Outcome(r), file |-> job[r].file] \in
              [status : {"none", "running", "success", "failed"}, file : Files \cup {None}]
        BY <2>0, <2>1
    <3> QED BY <3>1, <3>2 DEF TypeOK
  <2>b. pc' \in [Runs -> Stages] /\ job' \in [Runs -> Jobs] /\ expired' \subseteq Runs
      BY <1>3, NoJobType DEF FinishRun, TypeOK, Goto, Stages
  <2>c. UNCHANGED <<tables, results, clock, mu, temp, store, hung, removing, deleting, crashes>>
      BY <1>3 DEF FinishRun
  <2>2. TypeOK'
      BY <2>a, <2>b, <2>c DEF TypeOK, tables
  <2>3. JobOK'
      BY <1>3 DEF FinishRun, TypeOK, Goto, JobOK, Looping
  <2> QED BY <2>2, <2>3
<1> QED BY <1>1, <1>2, <1>3

LEMMA OutsideTInv ==
    ASSUME TInv, (\E r \in Runs : Expire(r) \/ Hang(r)) \/ Crash
    PROVE  TInv'
<1> USE DEF TInv
<1>1. ASSUME NEW r \in Runs, Expire(r) \/ Hang(r)
      PROVE  TInv'
    BY <1>1 DEF Expire, Hang, TypeOK, JobOK, tables, history
<1>2. CASE Crash
  <2>1. TypeOK'
      BY <1>2, NoJobType DEF Crash, TypeOK, Stages, tables, history
  <2>2. JobOK'
    <3>1. \A r \in Runs : pc'[r] \in {"idle", "done"} /\ job'[r] = NoJob
        BY <1>2 DEF Crash, Active
    <3> QED BY <3>1 DEF JobOK, NoJob, Looping
  <2> QED BY <2>1, <2>2
<1> QED BY <1>1, <1>2

\* Taking a destination's link out of a list leaves a list of links, with nothing new.
LEMMA LinksWithout ==
    ASSUME NEW ls \in Seq(Link), NEW d
    PROVE  WithoutLinksTo(ls, d) \in Seq(Link)
<1>1. CASE \E i \in DOMAIN ls : ls[i].dest = d
  <2> DEFINE i == CHOOSE i \in DOMAIN ls : ls[i].dest = d
  <2>1. i \in 1..Len(ls) /\ Len(ls) \in Nat
      BY <1>1
  <2>2. WithoutLinksTo(ls, d) = [j \in 1..(Len(ls) - 1) |-> IF j < i THEN ls[j] ELSE ls[j + 1]]
      BY <1>1 DEF WithoutLinksTo
  <2> HIDE DEF i
  <2>3. \A j \in 1..(Len(ls) - 1) : (IF j < i THEN ls[j] ELSE ls[j + 1]) \in Link
      BY <2>1
  <2>4. Len(ls) - 1 \in Nat
      BY <2>1
  <2> QED BY <2>2, <2>3, <2>4
<1>2. CASE ~ \E i \in DOMAIN ls : ls[i].dest = d
    BY <1>2 DEF WithoutLinksTo
<1> QED BY <1>1, <1>2

LEMMA AdministratorTInv ==
    ASSUME TInv, Administrator
    PROVE  TInv'
<1> USE DEF TInv, TypeOK, tables, history, peers
<1>0. ASSUME UNCHANGED <<pc, job>>
      PROVE  JobOK'
    BY <1>0 DEF JobOK
<1>1. ASSUME NEW s \in Schedules, NEW n \in NewNames, RenameSchedule(s, n)
      PROVE  TInv'
    BY <1>0, <1>1, TablesAssumption DEF RenameSchedule
<1>2. ASSUME NEW s \in Schedules, NEW ls \in NewLinks, SetScheduleDestinations(s, ls)
      PROVE  TInv'
  <2>1. ls \in Seq(Link)
      BY TablesAssumption DEF LinkList
  <2> QED BY <1>0, <1>2, <2>1 DEF SetScheduleDestinations
<1>3. ASSUME NEW s \in DeletableSchedules, DeleteSchedule(s)
      PROVE  TInv'
    BY <1>0, <1>3, TablesAssumption DEF DeleteSchedule
<1>4. ASSUME NEW d \in DeletableDests, CountLinks(d) \/ DeleteDestination(d)
      PROVE  TInv'
  <2>0. d \in Dests
      BY TablesAssumption
  <2>1. CASE CountLinks(d)
      BY <1>0, <2>0, <2>1 DEF CountLinks
  <2>2. CASE DeleteDestination(d)
    <3>1. results' \subseteq Row
      <4>1. \A w \in Row : [w EXCEPT !.dest = None] \in Row
          BY DEF Row
      <4> QED BY <2>2, <4>1 DEF DeleteDestination
    <3>2. links' \in [Schedules -> Seq(Link)]
      <4>1. \A s \in Schedules : WithoutLinksTo(links[s], d) \in Seq(Link)
          BY LinksWithout
      <4> QED BY <2>2, <4>1 DEF DeleteDestination
    <3>3. dests' \subseteq Dests /\ deleting' = None
      BY <2>2 DEF DeleteDestination
    <3>4. UNCHANGED <<names, runs, clock, mu, temp, store, pc, job, expired, hung, removing,
                      crashes>>
      BY <2>2 DEF DeleteDestination
    <3> QED BY <1>0, <3>1, <3>2, <3>3, <3>4
  <2> QED BY <1>4, <2>1, <2>2
<1>5. ASSUME NEW d \in Dests, NEW f \in DOMAIN store[d], RemoveBackup(d, f)
      PROVE  TInv'
  <2>1. DOMAIN store' = Dests /\ \A e \in Dests : FileMap(store'[e])
      BY <1>5, StoreType DEF RemoveBackup
  <2>2. f \in Files
      BY DEF FileMap
  <2> QED BY <1>0, <1>5, <2>1, <2>2 DEF RemoveBackup
<1>6. CASE RemoveHistory
  <2>1. results' \subseteq results
      BY <1>6 DEF RemoveHistory
  <2> QED BY <1>0, <1>6, <2>1 DEF RemoveHistory
<1> QED BY <1>1, <1>2, <1>3, <1>4, <1>5, <1>6 DEF Administrator

LEMMA NextTInv == TInv /\ [Next]_vars => TInv'
<1>1. ASSUME TInv, UNCHANGED vars
      PROVE  TInv'
    BY <1>1 DEF vars, tables, history, peers, TInv, TypeOK, JobOK
<1> QED BY <1>1, LoadTInv, MirrorTInv, UploadTInv, PruneTInv, RecordTInv, OutsideTInv,
           AdministratorTInv DEF Next, RunStep

\* Every variable keeps its type.
THEOREM TypeCorrect == Spec => []TypeOK
<1>1. TInv => TypeOK
    BY DEF TInv
<1> QED BY <1>1, InitTInv, NextTInv, PTL DEF Spec
-----------------------------------------------------------------------------
(* The mutex, and the archives it keeps apart.                               *)

\* Whoever syncs or archives the mirror holds the mutex.
Holding == \A r \in Runs : pc[r] \in Mirroring => mu = r

LEMMA HoldingStep == TInv /\ Holding /\ [Next]_vars => Holding'
<1> SUFFICES ASSUME TInv, Holding, [Next]_vars PROVE Holding'
    OBVIOUS
<1> USE DEF Holding, Mirroring
<1>0. pc \in [Runs -> Stages]
    BY DEF TInv, TypeOK
<1>1. ASSUME NEW r \in Runs, NEW s \in Schedules, Start(r, s)
      PROVE  Holding'
    BY <1>0, <1>1 DEF Start, Goto
<1>2. ASSUME NEW r \in Runs, ReadLinks(r) \/ ReadSchedule(r) \/ LoadFails(r)
      PROVE  Holding'
    BY <1>0, <1>2 DEF ReadLinks, ReadSchedule, LoadFails, Goto
<1>3. ASSUME NEW r \in Runs, EnterMirror(r)
      PROVE  Holding'
    BY <1>0, <1>3, NoneAssumption DEF EnterMirror, Goto
<1>4. ASSUME NEW r \in Runs, SyncDone(r) \/ Stamp(r)
      PROVE  Holding'
    BY <1>0, <1>4 DEF SyncDone, Stamp, AtStage, Goto
<1>5. ASSUME NEW r \in Runs, SyncFails(r) \/ ZipDone(r) \/ ArchiveFails(r)
      PROVE  Holding'
    BY <1>0, <1>5 DEF SyncFails, ZipDone, ArchiveFails, AtStage, Goto
<1>6. ASSUME NEW r \in Runs, Open(r) \/ OpenFails(r) \/ CopyDone(r) \/ CopyFails(r)
                             \/ CopyUnheard(r)
      PROVE  Holding'
    BY <1>0, <1>6 DEF Open, OpenFails, CopyDone, CopyFails, CopyUnheard, Goto
<1>7. ASSUME NEW r \in Runs,
             ListDone(r) \/ ListFails(r) \/ PruneDelete(r) \/ PruneStops(r) \/ PruneUnheard(r)
             \/ Forget(r)
      PROVE  Holding'
    BY <1>0, <1>7 DEF ListDone, ListFails, PruneDelete, PruneStops, PruneUnheard, Forget, Goto
<1>8. ASSUME NEW r \in Runs, Record(r) \/ Cleanup(r) \/ FinishRun(r)
      PROVE  Holding'
    BY <1>0, <1>8 DEF Record, Cleanup, FinishRun, Goto
<1>9. ASSUME UNCHANGED <<pc, mu>>
      PROVE  Holding'
    BY <1>9
<1>10. ASSUME NEW r \in Runs, Expire(r) \/ Hang(r)
       PROVE  Holding'
    BY <1>9, <1>10 DEF Expire, Hang
<1>11. CASE Crash
    BY <1>11 DEF Crash, Active
<1>12. CASE Administrator
    BY <1>9, <1>12 DEF Administrator, RenameSchedule, SetScheduleDestinations, DeleteSchedule,
                       CountLinks, DeleteDestination, RemoveBackup, RemoveHistory
<1>13. CASE UNCHANGED vars
    BY <1>9, <1>13 DEF vars
<1> QED BY <1>1, <1>2, <1>3, <1>4, <1>5, <1>6, <1>7, <1>8, <1>10, <1>11, <1>12, <1>13
        DEF Next, RunStep

\* At any time at most one run is syncing or archiving the mirror.
THEOREM MirrorExclusive == Spec => []MirrorNotShared
<1>1. Init => Holding
    BY DEF Init, Holding, Mirroring
<1>2. Holding => MirrorNotShared
    BY DEF Holding, MirrorNotShared
<1> QED BY <1>1, <1>2, InitTInv, NextTInv, HoldingStep, PTL DEF Spec

\* Archives are a second apart, so their names differ, and none is named ahead
\* of the clock.
NotAhead == \A r \in Runs : job[r].file # None => job[r].file.stamp <= clock
Apart == \A r, q \in Runs : r # q /\ job[r].file # None => job[r].file # job[q].file

AInv == NotAhead /\ Apart /\ UploadReadsOwnArchive

\* What most steps have in common: they leave the temp directory and the clock
\* alone, let a run at most forget its archive, and begin no upload.
QuietStep ==
    /\ UNCHANGED <<clock, temp>>
    /\ \A r \in Runs : /\ job'[r].file \in {job[r].file, None}
                       /\ pc'[r] \in Uploading
                            => pc[r] \in Uploading /\ job'[r].file = job[r].file

LEMMA QuietAInv == AInv /\ QuietStep => AInv'
BY DEF AInv, QuietStep, NotAhead, Apart, UploadReadsOwnArchive, OwnArchive, Whole

\* A step that sets other local variables of a run leaves it its archive.
LEMMA FileKept ==
    ASSUME job \in [Runs -> Jobs], NEW r \in Runs, NEW j,
           job' = [job EXCEPT ![r] = j], j.file = job[r].file
    PROVE  job'[r].file = job[r].file /\ \A q \in Runs \ {r} : job'[q] = job[q]
OBVIOUS

\* A failure at one destination adds to a run's failures and drops its cut.
LEMMA FailView ==
    ASSUME TInv, NEW r \in Runs, job' = Fail(r)
    PROVE  /\ \A q \in Runs \ {r} : job'[q] = job[q]
           /\ job'[r].sched = job[r].sched /\ job'[r].name = job[r].name
           /\ job'[r].plan = job[r].plan /\ job'[r].at = job[r].at
           /\ job'[r].file = job[r].file /\ job'[r].gone = job[r].gone
           /\ job'[r].cut = {} /\ job'[r].failed = job[r].failed \cup {job[r].at}
<1> DEFINE j == [job[r] EXCEPT !.failed = @ \cup {job[r].at}, !.cut = {}]
<1>0. job \in [Runs -> Jobs]
    BY DEF TInv, TypeOK
<1>1. job' = [job EXCEPT ![r] = j]
    BY <1>0 DEF Fail
<1>2. /\ j.sched = job[r].sched /\ j.name = job[r].name
      /\ j.plan = job[r].plan /\ j.at = job[r].at
      /\ j.file = job[r].file /\ j.gone = job[r].gone
      /\ j.cut = {} /\ j.failed = job[r].failed \cup {job[r].at}
    BY <1>0 DEF Jobs
<1> HIDE DEF j
<1> QED BY <1>0, <1>1, <1>2

\* The steps that are not of that kind create, complete or remove an archive.
LEMMA QuietSteps ==
    ASSUME TInv, [Next]_vars,
           ~ \E r \in Runs : Stamp(r) \/ ZipDone(r) \/ Cleanup(r)
    PROVE  QuietStep
<1> USE DEF QuietStep, Uploading
<1>0. pc \in [Runs -> Stages] /\ job \in [Runs -> Jobs]
    BY DEF TInv, TypeOK
<1>1. ASSUME NEW r \in Runs, NEW s \in Schedules, Start(r, s)
      PROVE  QuietStep
    BY <1>0, <1>1 DEF Start, Goto, Jobs
<1>2. ASSUME NEW r \in Runs, ReadLinks(r) \/ ReadSchedule(r) \/ LoadFails(r)
      PROVE  QuietStep
  <2> DEFINE p == [job[r] EXCEPT !.plan = links[job[r].sched]]
             n == [job[r] EXCEPT !.name = names[job[r].sched]]
  <2>1. job' = job \/ job' = [job EXCEPT ![r] = p] \/ job' = [job EXCEPT ![r] = n]
      BY <1>2 DEF ReadLinks, ReadSchedule, LoadFails
  <2>0. p.file = job[r].file /\ n.file = job[r].file
      BY <1>0 DEF Jobs
  <2>2. job'[r].file = job[r].file /\ \A q \in Runs \ {r} : job'[q] = job[q]
    <3> HIDE DEF p, n
    <3> QED BY <1>0, <2>0, <2>1, FileKept
  <2>3. (\E stage \in {"sched", "lock", "finish"} : pc' = [pc EXCEPT ![r] = stage])
        /\ UNCHANGED <<clock, temp>>
      BY <1>2 DEF ReadLinks, ReadSchedule, LoadFails, Goto
  <2> QED BY <1>0, <2>2, <2>3
<1>3. ASSUME NEW r \in Runs, EnterMirror(r) \/ SyncDone(r) \/ SyncFails(r) \/ ArchiveFails(r)
      PROVE  QuietStep
    BY <1>0, <1>3 DEF EnterMirror, SyncDone, SyncFails, ArchiveFails, Goto, Jobs
<1>4. ASSUME NEW r \in Runs, Open(r) \/ OpenFails(r) \/ CopyDone(r) \/ CopyFails(r)
                             \/ CopyUnheard(r)
      PROVE  QuietStep
  <2>1. pc[r] \in {"open", "copy"} /\ (\E stage : pc' = [pc EXCEPT ![r] = stage])
        /\ UNCHANGED <<clock, temp>>
      BY <1>4 DEF Open, OpenFails, CopyDone, CopyFails, CopyUnheard, AtStage, Goto
  <2>2. job' = job \/ job' = Fail(r)
      BY <1>4 DEF Open, OpenFails, CopyDone, CopyFails, CopyUnheard
  <2>3. job'[r].file = job[r].file /\ \A q \in Runs \ {r} : job'[q] = job[q]
    <3> DEFINE j == [job[r] EXCEPT !.failed = @ \cup {job[r].at}, !.cut = {}]
    <3>1. Fail(r) = [job EXCEPT ![r] = j]
        BY <1>0 DEF Fail
    <3>2. j.file = job[r].file
        BY <1>0 DEF Jobs
    <3> HIDE DEF j
    <3> QED BY <1>0, <2>2, <3>1, <3>2, FileKept
  <2> QED BY <1>0, <2>1, <2>3
<1>5. ASSUME NEW r \in Runs, ListDone(r) \/ ListFails(r)
      PROVE  QuietStep
  <2>1. \/ job' = job
        \/ \E S : job' = [job EXCEPT ![r].cut = S]
      BY <1>5 DEF ListDone, ListFails
  <2>2. pc[r] = "list" /\ (\E stage : pc' = [pc EXCEPT ![r] = stage]) /\ UNCHANGED <<clock, temp>>
      BY <1>5 DEF ListDone, ListFails, AtStage, Goto
  <2>3. job'[r].file = job[r].file /\ \A q \in Runs \ {r} : job'[q] = job[q]
      BY <1>0, <2>1 DEF Jobs
  <2> QED BY <1>0, <2>2, <2>3
<1>6. ASSUME NEW r \in Runs, PruneDelete(r) \/ PruneStops(r) \/ PruneUnheard(r) \/ Forget(r)
      PROVE  QuietStep
  <2>1. \E S, T : job' = [job EXCEPT ![r].cut = S, ![r].gone = T]
    <3>1. CASE PruneDelete(r)
        BY <3>1 DEF PruneDelete
    <3>2. CASE PruneStops(r) \/ PruneUnheard(r)
      <4>1. job' = [job EXCEPT ![r].cut = {}, ![r].gone = job[r].gone]
          BY <1>0, <3>2 DEF PruneStops, PruneUnheard, Jobs
      <4> QED BY <4>1
    <3>3. CASE Forget(r)
      <4>1. PICK f : job' = [job EXCEPT ![r].gone = @ \ {f}]
          BY <3>3 DEF Forget
      <4>2. job' = [job EXCEPT ![r].cut = job[r].cut, ![r].gone = @ \ {f}]
          BY <1>0, <4>1 DEF Jobs
      <4> QED BY <4>2
    <3> QED BY <1>6, <3>1, <3>2, <3>3
  <2>2. pc[r] \in {"prune", "forget"} /\ (\E stage : pc' = [pc EXCEPT ![r] = stage])
        /\ UNCHANGED <<clock, temp>>
      BY <1>6 DEF PruneDelete, PruneStops, PruneUnheard, Forget, AtStage, Goto
  <2>3. job'[r].file = job[r].file /\ \A q \in Runs \ {r} : job'[q] = job[q]
    <3>1. PICK S, T : job' = [job EXCEPT ![r].cut = S, ![r].gone = T]
        BY <2>1
    <3> DEFINE j == [job[r] EXCEPT !.cut = S, !.gone = T]
    <3>2. job' = [job EXCEPT ![r] = j]
        BY <1>0, <3>1
    <3>3. j.file = job[r].file
        BY <1>0 DEF Jobs
    <3> HIDE DEF j
    <3> QED BY <1>0, <3>2, <3>3, FileKept
  <2> QED BY <1>0, <2>2, <2>3
<1>7. ASSUME NEW r \in Runs, Record(r) \/ FinishRun(r)
      PROVE  QuietStep
  <2>1. CASE Record(r)
    <3>1. job' = [job EXCEPT ![r].at = @ + 1]
        BY <2>1 DEF Record
    <3>2. job'[r].file = job[r].file /\ \A q \in Runs \ {r} : job'[q] = job[q]
        BY <1>0, <3>1 DEF Jobs
    <3>3. pc[r] = "record" /\ (\E stage : pc' = [pc EXCEPT ![r] = stage])
          /\ UNCHANGED <<clock, temp>>
        BY <2>1 DEF Record, AtStage, Goto
    <3> QED BY <1>0, <3>2, <3>3
  <2>2. CASE FinishRun(r)
      BY <1>0, <2>2 DEF FinishRun, Goto, NoJob
  <2> QED BY <1>7, <2>1, <2>2
<1>8. ASSUME UNCHANGED <<pc, job, clock, temp>>
      PROVE  QuietStep
    BY <1>8
<1>9. ASSUME NEW r \in Runs, Expire(r) \/ Hang(r)
      PROVE  QuietStep
    BY <1>8, <1>9 DEF Expire, Hang
<1>10. CASE Crash
    BY <1>0, <1>10 DEF Crash, Active, NoJob
<1>11. CASE Administrator
    BY <1>8, <1>11 DEF Administrator, RenameSchedule, SetScheduleDestinations, DeleteSchedule,
                       CountLinks, DeleteDestination, RemoveBackup, RemoveHistory
<1>12. CASE UNCHANGED vars
    BY <1>8, <1>12 DEF vars
<1> QED BY <1>1, <1>2, <1>3, <1>4, <1>5, <1>6, <1>7, <1>9, <1>10, <1>11, <1>12 DEF Next, RunStep

\* Who may take a run's archive from the temp directory, in one step.
LEMMA NamesakeStep ==
    ASSUME TInv, [Next]_vars, NEW r \in Runs, pc'[r] \in Uploading,
           pc[r] \in Uploading => OwnArchive(r)
    PROVE  \/ OwnArchive(r)'
           \/ \E q \in Runs \ {r} : job[r].file \in {job[q].file, job'[q].file}
<1> USE DEF OwnArchive, Whole
<1>0. pc \in [Runs -> Stages] /\ job \in [Runs -> Jobs]
    BY DEF TInv, TypeOK
<1>1. ASSUME NEW q \in Runs, Stamp(q)
      PROVE  OwnArchive(r)' \/ (job[r].file = job'[q].file /\ q # r)
  <2>1. PICK t : /\ temp' = Write(temp, ArchiveFile(job[q].name, t), Partial(q))
                 /\ job' = [job EXCEPT ![q].file = ArchiveFile(job[q].name, t)]
      BY <1>1 DEF Stamp
  <2> DEFINE f == ArchiveFile(job[q].name, t)
  <2> HIDE DEF f
  <2>2. temp' = Write(temp, f, Partial(q)) /\ job' = [job EXCEPT ![q].file = f]
      BY <2>1 DEF f
  <2>3. pc' = [pc EXCEPT ![q] = "zip"] /\ q # r
      BY <1>0, <1>1 DEF Stamp, Goto, Uploading
  <2>4. job'[q].file = f /\ job'[r] = job[r] /\ pc[r] \in Uploading
      BY <1>0, <2>2, <2>3 DEF Jobs
  <2> QED BY <2>2, <2>3, <2>4 DEF Write
<1>2. ASSUME NEW q \in Runs, ZipDone(q)
      PROVE  OwnArchive(r)' \/ (job[r].file = job[q].file /\ q # r)
  <2>1. /\ temp' = Write(temp, job[q].file, Whole(q)) /\ job' = job
        /\ \A p \in Runs \ {q} : pc'[p] = pc[p]
      BY <1>0, <1>2 DEF ZipDone, Goto
  <2>2. CASE q = r
    <3>1. job[r].file \in DOMAIN temp' /\ temp'[job[r].file] = Whole(r)
        BY <2>1, <2>2 DEF Write
    <3>2. job'[r].file \in DOMAIN temp' /\ temp'[job'[r].file] = Whole(r)
        BY <2>1, <3>1
    <3>3. OwnArchive(r)'
        BY <3>2
    <3> QED BY <3>3
  <2>3. CASE q # r /\ job[r].file # job[q].file
    <3>1. pc[r] \in Uploading
        BY <2>1, <2>3
    <3> QED BY <2>1, <2>3, <3>1 DEF Write
  <2> QED BY <2>2, <2>3
<1>3. ASSUME NEW q \in Runs, Cleanup(q)
      PROVE  OwnArchive(r)' \/ (job[r].file = job[q].file /\ q # r)
  <2>1. /\ temp' = Unlink(temp, job[q].file) /\ job' = job
        /\ pc' = [pc EXCEPT ![q] = "finish"]
      BY <1>3 DEF Cleanup, Goto
  <2>2. q # r /\ pc[r] \in Uploading
      BY <1>0, <2>1 DEF Uploading
  <2> QED BY <2>1, <2>2 DEF Unlink
<1>4. CASE ~ \E q \in Runs : Stamp(q) \/ ZipDone(q) \/ Cleanup(q)
  <2>1. QuietStep
      BY <1>4, QuietSteps
  <2> QED BY <2>1 DEF QuietStep
<1> QED BY <1>1, <1>2, <1>3, <1>4

\* Whatever names the schedules have, however many archives are made in a second and
\* however runs overlap, fail, hang or are killed, a run's archive stays whole where
\* the run uploads it from unless another run's archive has the same file name.
THEOREM OnlyNamesakes == Spec => OnlyNamesakesDisturb
<1>1. TInv /\ [Next]_vars =>
        [\A r \in Runs :
            pc'[r] \in Uploading /\ (pc[r] \in Uploading => OwnArchive(r)) =>
              \/ OwnArchive(r)'
              \/ \E q \in Runs \ {r} : job[r].file \in {job[q].file, job'[q].file}]_vars
    BY NamesakeStep
<1> QED BY <1>1, InitTInv, NextTInv, PTL DEF Spec, OnlyNamesakesDisturb

LEMMA AInvStep ==
    ASSUME MinGap = 1, TInv, AInv, [Next]_vars
    PROVE  AInv'
<1> USE DEF AInv
<1>0. pc \in [Runs -> Stages] /\ job \in [Runs -> Jobs] /\ clock \in Nat
    BY DEF TInv, TypeOK
<1>1. ASSUME NEW r \in Runs, Stamp(r)
      PROVE  AInv'
  <2> DEFINE f == ArchiveFile(job[r].name, clock + 1)
  <2>1. /\ clock' = clock + 1
        /\ temp' = Write(temp, f, Partial(r))
        /\ job' = [job EXCEPT ![r].file = f]
        /\ pc' = [pc EXCEPT ![r] = "zip"]
      BY <1>0, <1>1 DEF Stamp, Goto
  <2>2. f.stamp = clock + 1
      BY DEF ArchiveFile
  <2>3. \A q \in Runs : job[q].file # None => job[q].file # f
      BY <1>0, <2>2 DEF NotAhead
  <2> HIDE DEF f
  <2>4. job'[r].file = f /\ \A q \in Runs \ {r} : job'[q] = job[q]
      BY <1>0, <2>1 DEF Jobs
  <2>5. \A q \in Runs : job[q].file # None => job[q].file.stamp \in Nat
      BY <1>0 DEF Jobs, Files
  <2>6. NotAhead'
      BY <1>0, <2>1, <2>2, <2>4, <2>5 DEF NotAhead
  <2>7. Apart'
      BY <1>0, <2>1, <2>3, <2>4 DEF Apart
  <2>8. UploadReadsOwnArchive'
    <3> SUFFICES ASSUME NEW q \in Runs, pc'[q] \in Uploading
                 PROVE  job'[q].file \in DOMAIN temp' /\ temp'[job'[q].file] = Whole(q)
        BY DEF UploadReadsOwnArchive, OwnArchive, Whole
    <3>1. q # r /\ pc[q] \in Uploading
        BY <1>0, <2>1 DEF Uploading
    <3>2. job[q].file \in Files
        BY <3>1 DEF TInv, JobOK, Uploading, Looping
    <3>3. job[q].file # f
        BY <2>3, <3>2, NoneAssumption
    <3> QED BY <2>1, <2>4, <3>1, <3>3 DEF UploadReadsOwnArchive, OwnArchive, Write
  <2> QED BY <2>6, <2>7, <2>8
<1>2. ASSUME NEW r \in Runs, ZipDone(r)
      PROVE  AInv'
  <2>1. /\ temp' = Write(temp, job[r].file, Whole(r))
        /\ UNCHANGED <<job, clock>>
        /\ pc' = [pc EXCEPT ![r] = "open"]
        /\ pc[r] = "zip"
      BY <1>2 DEF ZipDone, AtStage, Goto
  <2>2. NotAhead' /\ Apart'
      BY <2>1 DEF NotAhead, Apart
  <2>3. job[r].file # None
      BY <2>1, NoneAssumption DEF TInv, JobOK
  <2>4. UploadReadsOwnArchive'
    <3> SUFFICES ASSUME NEW q \in Runs, pc'[q] \in Uploading
                 PROVE  job'[q].file \in DOMAIN temp' /\ temp'[job'[q].file] = Whole(q)
        BY DEF UploadReadsOwnArchive, OwnArchive, Whole
    <3>1. CASE q = r
        BY <2>1, <3>1 DEF Write
    <3>2. CASE q # r
      <4>1. job[q].file # job[r].file
          BY <2>3, <3>2 DEF Apart
      <4> QED BY <1>0, <2>1, <3>2, <4>1 DEF UploadReadsOwnArchive, OwnArchive, Write
    <3> QED BY <3>1, <3>2
  <2> QED BY <2>2, <2>4
<1>3. ASSUME NEW r \in Runs, Cleanup(r)
      PROVE  AInv'
  <2>1. /\ temp' = Unlink(temp, job[r].file)
        /\ UNCHANGED <<job, clock>>
        /\ pc' = [pc EXCEPT ![r] = "finish"]
        /\ pc[r] = "cleanup"
      BY <1>3 DEF Cleanup, AtStage, Goto
  <2>2. NotAhead' /\ Apart'
      BY <2>1 DEF NotAhead, Apart
  <2>3. job[r].file # None
      BY <2>1, NoneAssumption DEF TInv, JobOK
  <2>4. UploadReadsOwnArchive'
    <3> SUFFICES ASSUME NEW q \in Runs, pc'[q] \in Uploading
                 PROVE  job'[q].file \in DOMAIN temp' /\ temp'[job'[q].file] = Whole(q)
        BY DEF UploadReadsOwnArchive, OwnArchive, Whole
    <3>1. q # r /\ pc[q] \in Uploading
        BY <1>0, <2>1 DEF Uploading
    <3>2. job[q].file # job[r].file
        BY <2>3, <3>1 DEF Apart
    <3> QED BY <2>1, <3>1, <3>2 DEF UploadReadsOwnArchive, OwnArchive, Unlink
  <2> QED BY <2>2, <2>4
<1> QED BY <1>1, <1>2, <1>3, QuietSteps, QuietAInv

\* When no two archives are created in the same second, no run has a namesake, so a
\* run uploads from a path that holds the complete archive it made itself.
THEOREM ArchiveIsOwn == MinGap = 1 => (Spec => []UploadReadsOwnArchive)
<1> SUFFICES ASSUME MinGap = 1 PROVE Spec => []UploadReadsOwnArchive
    OBVIOUS
<1>1. Init => AInv
    BY DEF Init, AInv, NotAhead, Apart, UploadReadsOwnArchive, OwnArchive, Uploading, NoJob
<1>2. TInv /\ AInv /\ [Next]_vars => AInv'
    BY AInvStep
<1>3. AInv => UploadReadsOwnArchive
    BY DEF AInv
<1> QED BY <1>1, <1>2, <1>3, InitTInv, NextTInv, PTL DEF Spec

-----------------------------------------------------------------------------
(* The temp directory. *)

\* The runs that have begun an archive and not yet removed it.
Archived == {"zip"} \cup Uploading

\* Each file in the temp directory is the archive of a run that will remove it.
TempOwned == \A f \in DOMAIN temp : \E r \in Runs : pc[r] \in Archived /\ job[r].file = f

\* A run keeps its archive until it removes it or fails to make it.
KeepsArchive(r) ==
    pc[r] \in Archived => pc'[r] \in Archived /\ job'[r].file = job[r].file

LEMMA KeepsArchiveSteps ==
    ASSUME TInv, [Next]_vars, NEW r \in Runs, ~ArchiveFails(r), ~Cleanup(r), ~Crash
    PROVE  KeepsArchive(r)
<1> USE DEF KeepsArchive, Archived, Uploading
<1>0. pc \in [Runs -> Stages] /\ job \in [Runs -> Jobs]
    BY DEF TInv, TypeOK
<1>1. ASSUME NEW q \in Runs, NEW s \in Schedules, Start(q, s)
      PROVE  KeepsArchive(r)
    BY <1>0, <1>1 DEF Start, Goto
<1>2. ASSUME NEW q \in Runs, \/ ReadLinks(q) \/ ReadSchedule(q) \/ LoadFails(q)
                             \/ EnterMirror(q) \/ SyncDone(q) \/ SyncFails(q) \/ Stamp(q)
                             \/ FinishRun(q)
      PROVE  KeepsArchive(r)
  <2>1. /\ pc[q] \notin Archived
        /\ \E stage : pc' = [pc EXCEPT ![q] = stage]
      BY <1>2 DEF ReadLinks, ReadSchedule, LoadFails, EnterMirror, SyncDone, SyncFails,
                  Stamp, FinishRun, AtStage, Goto
  <2>2. job' = job \/ \E j : job' = [job EXCEPT ![q] = j]
      BY <1>2 DEF ReadLinks, ReadSchedule, LoadFails, EnterMirror, SyncDone, SyncFails,
                  Stamp, FinishRun
  <2> QED BY <1>0, <2>1, <2>2
<1>3. ASSUME NEW q \in Runs, ZipDone(q)
      PROVE  KeepsArchive(r)
    BY <1>0, <1>3 DEF ZipDone, Goto
<1>4. ASSUME NEW q \in Runs, ArchiveFails(q) \/ Cleanup(q)
      PROVE  KeepsArchive(r)
  <2>1. q # r
      BY <1>4
  <2> QED BY <1>0, <1>4, <2>1 DEF ArchiveFails, Cleanup, Goto
<1>5. ASSUME NEW q \in Runs, Open(q) \/ OpenFails(q) \/ CopyDone(q) \/ CopyFails(q)
                             \/ CopyUnheard(q)
      PROVE  KeepsArchive(r)
  <2>1. \E stage \in {"copy", "record", "list"} : pc' = [pc EXCEPT ![q] = stage]
      BY <1>5 DEF Open, OpenFails, CopyDone, CopyFails, CopyUnheard, Goto
  <2>2. job' = job \/ job' = Fail(q)
      BY <1>5 DEF Open, OpenFails, CopyDone, CopyFails, CopyUnheard
  <2>3. job'[r].file = job[r].file
      BY <2>2, FailView
  <2> QED BY <1>0, <2>1, <2>3
<1>6. ASSUME NEW q \in Runs, \/ ListDone(q) \/ ListFails(q) \/ PruneDelete(q) \/ PruneStops(q)
                             \/ PruneUnheard(q)
                             \/ Forget(q) \/ Record(q)
      PROVE  KeepsArchive(r)
  <2>1. \E stage \in {"prune", "forget", "record", "cleanup", "open"} :
            pc' = [pc EXCEPT ![q] = stage]
      BY <1>6 DEF ListDone, ListFails, PruneDelete, PruneStops, PruneUnheard, Forget, Record, Goto
  <2>2. job'[r].file = job[r].file
    <3>1. CASE ListDone(q)
        BY <1>0, <3>1 DEF ListDone, Jobs
    <3>2. CASE ListFails(q)
        BY <3>2 DEF ListFails
    <3>3. CASE PruneDelete(q)
        BY <1>0, <3>3 DEF PruneDelete, Jobs
    <3>4. CASE PruneStops(q) \/ PruneUnheard(q)
      <4>1. job' = [job EXCEPT ![q].cut = {}]
          BY <3>4 DEF PruneStops, PruneUnheard
      <4> QED BY <1>0, <4>1 DEF Jobs
    <3>5. CASE Forget(q)
        BY <1>0, <3>5 DEF Forget, Jobs
    <3>6. CASE Record(q)
        BY <1>0, <3>6 DEF Record, Jobs
    <3> QED BY <1>6, <3>1, <3>2, <3>3, <3>4, <3>5, <3>6
  <2> QED BY <1>0, <2>1, <2>2
<1>7. ASSUME UNCHANGED <<pc, job>>
      PROVE  KeepsArchive(r)
    BY <1>7
<1>8. ASSUME NEW q \in Runs, Expire(q) \/ Hang(q)
      PROVE  KeepsArchive(r)
    BY <1>7, <1>8 DEF Expire, Hang
<1>9. CASE Administrator
    BY <1>7, <1>9 DEF Administrator, RenameSchedule, SetScheduleDestinations, DeleteSchedule,
                      CountLinks, DeleteDestination, RemoveBackup, RemoveHistory
<1>10. CASE UNCHANGED vars
    BY <1>7, <1>10 DEF vars
<1> QED BY <1>1, <1>2, <1>3, <1>4, <1>5, <1>6, <1>8, <1>9, <1>10 DEF Next, RunStep

LEMMA TempOwnedStep ==
    ASSUME "archive" \notin Faults, MaxCrashes = 0, TInv, TempOwned, [Next]_vars
    PROVE  TempOwned'
<1>0. pc \in [Runs -> Stages] /\ job \in [Runs -> Jobs]
    BY DEF TInv, TypeOK
<1>1. ~Crash
    BY DEF Crash, TInv, TypeOK
<1>2. ASSUME NEW r \in Runs, ArchiveFails(r)
      PROVE  TempOwned'
  <2>1. /\ job[r].file \notin DOMAIN temp /\ temp' = temp
        /\ \A q \in Runs \ {r} : pc'[q] = pc[q] /\ job'[q] = job[q]
      BY <1>0, <1>2 DEF ArchiveFails, Goto
  <2> QED BY <2>1 DEF TempOwned
<1>3. ASSUME NEW r \in Runs, Cleanup(r)
      PROVE  TempOwned'
  <2>1. /\ DOMAIN temp' = DOMAIN temp \ {job[r].file}
        /\ \A q \in Runs \ {r} : pc'[q] = pc[q] /\ job'[q] = job[q]
      BY <1>0, <1>3 DEF Cleanup, Goto, Unlink
  <2> QED BY <2>1 DEF TempOwned
<1>4. ASSUME NEW r \in Runs, Stamp(r)
      PROVE  TempOwned'
  <2>1. PICK f : DOMAIN temp' = DOMAIN temp \cup {f} /\ job' = [job EXCEPT ![r].file = f]
      BY <1>4 DEF Stamp, Write
  <2>2. /\ job'[r].file = f /\ pc'[r] = "zip" /\ pc[r] = "stamp"
        /\ \A q \in Runs \ {r} : pc'[q] = pc[q] /\ job'[q] = job[q]
      BY <1>0, <1>4, <2>1 DEF Stamp, Goto, AtStage, Jobs
  <2>3. \A q \in Runs : pc[q] \in Archived => q # r
      BY <2>2 DEF Archived, Uploading
  <2> QED BY <2>1, <2>2, <2>3 DEF TempOwned, Archived
<1>5. ASSUME ~ \E r \in Runs : ArchiveFails(r) \/ Cleanup(r) \/ Stamp(r)
      PROVE  TempOwned'
  <2>1. \A r \in Runs : KeepsArchive(r)
      BY <1>1, <1>5, KeepsArchiveSteps
  <2>2. DOMAIN temp' \subseteq DOMAIN temp
    <3>1. ASSUME NEW r \in Runs, ZipDone(r) PROVE DOMAIN temp' = DOMAIN temp
        BY <3>1 DEF ZipDone, Write
    <3> QED BY <1>5, <3>1, QuietSteps DEF QuietStep
  <2> QED BY <2>1, <2>2 DEF TempOwned, KeepsArchive
<1> QED BY <1>2, <1>3, <1>4, <1>5

\* While archiving does not fail and the process does not die, each archive is
\* removed by its run, whatever happens to the upload: nothing is left behind
\* when no run is under way, however runs overlap or share a file name.
THEOREM TempIsEmptied ==
    "archive" \notin Faults /\ MaxCrashes = 0 => (Spec => []TempEmptied)
<1> SUFFICES ASSUME "archive" \notin Faults, MaxCrashes = 0 PROVE Spec => []TempEmptied
    OBVIOUS
<1>1. Init => TempOwned
    BY DEF Init, TempOwned
<1>2. TInv /\ TempOwned /\ [Next]_vars => TempOwned'
    BY TempOwnedStep
<1>3. TempOwned => TempEmptied
    BY DEF TempOwned, TempEmptied, Active, Archived, Uploading
<1> QED BY <1>1, <1>2, <1>3, InitTInv, NextTInv, PTL DEF Spec

-----------------------------------------------------------------------------
(* Who moves: a run's step moves no other run, and nothing else moves any,   *)
(* short of a crash.                                                         *)

LEMMA OthersStay ==
    ASSUME TInv, NEW r \in Runs, RunStep(r) \/ \E s \in Schedules : Start(r, s)
    PROVE  \A q \in Runs \ {r} : pc'[q] = pc[q] /\ job'[q] = job[q]
<1>0. pc \in [Runs -> Stages] /\ job \in [Runs -> Jobs]
    BY DEF TInv, TypeOK
<1>1. \E stage : pc' = [pc EXCEPT ![r] = stage]
  <2>1. CASE \/ \E s \in Schedules : Start(r, s)
             \/ ReadLinks(r) \/ ReadSchedule(r) \/ LoadFails(r) \/ EnterMirror(r) \/ SyncDone(r)
             \/ SyncFails(r) \/ Stamp(r) \/ ZipDone(r) \/ ArchiveFails(r)
      BY <2>1 DEF Start, ReadLinks, ReadSchedule, LoadFails, EnterMirror, SyncDone, SyncFails,
                  Stamp, ZipDone, ArchiveFails, Goto
  <2>2. CASE Open(r) \/ OpenFails(r) \/ CopyDone(r) \/ CopyFails(r) \/ CopyUnheard(r)
             \/ ListDone(r) \/ ListFails(r)
      BY <2>2 DEF Open, OpenFails, CopyDone, CopyFails, CopyUnheard, ListDone, ListFails, Goto
  <2>3. CASE PruneDelete(r) \/ PruneStops(r) \/ PruneUnheard(r) \/ Forget(r) \/ Record(r)
             \/ Cleanup(r) \/ FinishRun(r)
      BY <2>3 DEF PruneDelete, PruneStops, PruneUnheard, Forget, Record, Cleanup, FinishRun, Goto
  <2> QED BY <2>1, <2>2, <2>3 DEF RunStep
<1>2. \A q \in Runs \ {r} : job'[q] = job[q]
  <2>1. CASE \/ \E s \in Schedules : Start(r, s)
             \/ ReadLinks(r) \/ ReadSchedule(r) \/ LoadFails(r) \/ EnterMirror(r) \/ SyncDone(r)
             \/ SyncFails(r) \/ Stamp(r) \/ ZipDone(r) \/ ArchiveFails(r)
    <3>1. job' = job \/ \E j : job' = [job EXCEPT ![r] = j]
        BY <2>1 DEF Start, ReadLinks, ReadSchedule, LoadFails, EnterMirror, SyncDone, SyncFails,
                    Stamp, ZipDone, ArchiveFails
    <3> QED BY <1>0, <3>1
  <2>2. CASE Open(r) \/ OpenFails(r) \/ CopyDone(r) \/ CopyFails(r) \/ CopyUnheard(r)
    <3>1. job' = job \/ job' = Fail(r)
        BY <2>2 DEF Open, OpenFails, CopyDone, CopyFails, CopyUnheard
    <3> QED BY <3>1, FailView
  <2>3. CASE ListDone(r) \/ ListFails(r) \/ PruneDelete(r) \/ PruneStops(r) \/ PruneUnheard(r)
    <3>1. job' = job \/ \E j : job' = [job EXCEPT ![r] = j]
        BY <2>3 DEF ListDone, ListFails, PruneDelete, PruneStops, PruneUnheard
    <3> QED BY <1>0, <3>1
  <2>4. CASE Forget(r) \/ Record(r) \/ Cleanup(r) \/ FinishRun(r)
    <3>1. job' = job \/ \E j : job' = [job EXCEPT ![r] = j]
        BY <2>4 DEF Forget, Record, Cleanup, FinishRun
    <3> QED BY <1>0, <3>1
  <2> QED BY <2>1, <2>2, <2>3, <2>4 DEF RunStep
<1> QED BY <1>0, <1>1, <1>2

\* The steps of nobody's goroutine.
Outside == (\E r \in Runs : Expire(r) \/ Hang(r)) \/ Administrator \/ UNCHANGED vars

LEMMA OutsideMovesNone ==
    ASSUME Outside
    PROVE  UNCHANGED <<pc, job, runs, clock, mu, temp, crashes>>
<1>1. CASE \E r \in Runs : Expire(r) \/ Hang(r)
    BY <1>1 DEF Expire, Hang, history
<1>2. CASE Administrator
    BY <1>2 DEF Administrator, RenameSchedule, SetScheduleDestinations, DeleteSchedule,
                CountLinks, DeleteDestination, RemoveBackup, RemoveHistory, history, peers
<1>3. CASE UNCHANGED vars
    BY <1>3 DEF vars, history, peers
<1> QED BY <1>1, <1>2, <1>3 DEF Outside

LEMMA WhoMoves ==
    ASSUME [Next]_vars
    PROVE  \/ \E r \in Runs : RunStep(r) \/ \E s \in Schedules : Start(r, s)
           \/ Outside \/ Crash
BY DEF Next, Outside

\* From the mutex to the removal of its archive a run keeps what it has read, and
\* but for Record its place in the plan.
LEMMA LocalsKept ==
    ASSUME TInv, NEW r \in Runs,
           \/ LoadFails(r) \/ EnterMirror(r) \/ SyncDone(r) \/ SyncFails(r) \/ ZipDone(r)
           \/ Open(r) \/ OpenFails(r) \/ CopyDone(r) \/ CopyFails(r) \/ CopyUnheard(r)
           \/ ListDone(r) \/ ListFails(r) \/ PruneDelete(r) \/ PruneStops(r) \/ PruneUnheard(r)
           \/ Forget(r) \/ Record(r) \/ Cleanup(r)
    PROVE  /\ job'[r].sched = job[r].sched /\ job'[r].name = job[r].name
           /\ job'[r].plan = job[r].plan /\ job'[r].file = job[r].file
           /\ ~Record(r) => job'[r].at = job[r].at
<1>0. job \in [Runs -> Jobs]
    BY DEF TInv, TypeOK
<1>1. CASE \/ LoadFails(r) \/ EnterMirror(r) \/ SyncDone(r) \/ SyncFails(r) \/ ZipDone(r)
           \/ Cleanup(r)
    BY <1>1 DEF LoadFails, EnterMirror, SyncDone, SyncFails, ZipDone, Cleanup
<1>2. CASE Open(r) \/ OpenFails(r) \/ CopyDone(r) \/ CopyFails(r) \/ CopyUnheard(r)
           \/ ListFails(r)
  <2>1. job' = job \/ job' = Fail(r)
      BY <1>2 DEF Open, OpenFails, CopyDone, CopyFails, CopyUnheard, ListFails
  <2> QED BY <2>1, FailView
<1>3. CASE ListDone(r)
    BY <1>0, <1>3 DEF ListDone, Jobs
<1>4. CASE PruneDelete(r)
    BY <1>0, <1>4 DEF PruneDelete, Jobs
<1>5. CASE PruneStops(r) \/ PruneUnheard(r)
    BY <1>0, <1>5 DEF PruneStops, PruneUnheard, Jobs
<1>6. CASE Forget(r)
    BY <1>0, <1>6 DEF Forget, Jobs
<1>7. CASE Record(r)
    BY <1>0, <1>7 DEF Record, Jobs
<1> QED BY <1>1, <1>2, <1>3, <1>4, <1>5, <1>6, <1>7

\* Only storing, pruning and removing by hand change what a destination holds,
\* and storing adds at most the run's own archive to its own destination.
LEMMA StoreKept ==
    ASSUME [Next]_vars,
           ~ \E r \in Runs : Open(r) \/ CopyDone(r) \/ CopyUnheard(r),
           ~ \E r \in Runs : PruneDelete(r) \/ PruneUnheard(r),
           ~ \E d \in Dests : \E f \in DOMAIN store[d] : RemoveBackup(d, f)
    PROVE  store' = store
<1>1. ASSUME NEW r \in Runs, RunStep(r)
      PROVE  store' = store
  <2>1. CASE \/ ReadLinks(r) \/ ReadSchedule(r) \/ LoadFails(r) \/ EnterMirror(r) \/ SyncDone(r)
             \/ SyncFails(r) \/ Stamp(r) \/ ZipDone(r) \/ ArchiveFails(r)
      BY <2>1 DEF ReadLinks, ReadSchedule, LoadFails, EnterMirror, SyncDone, SyncFails,
                  Stamp, ZipDone, ArchiveFails
  <2>2. CASE OpenFails(r) \/ CopyFails(r) \/ ListDone(r) \/ ListFails(r) \/ PruneStops(r)
      BY <2>2 DEF OpenFails, CopyFails, ListDone, ListFails, PruneStops
  <2>3. CASE Forget(r) \/ Record(r) \/ Cleanup(r) \/ FinishRun(r)
      BY <2>3 DEF Forget, Record, Cleanup, FinishRun
  <2> QED BY <1>1, <2>1, <2>2, <2>3 DEF RunStep
<1>2. CASE (\E r \in Runs : \E s \in Schedules : Start(r, s)) \/ Outside \/ Crash
    BY <1>2 DEF Start, Crash, Outside, Expire, Hang, vars, Administrator, RenameSchedule,
                SetScheduleDestinations, DeleteSchedule, CountLinks, DeleteDestination,
                RemoveHistory
<1> QED BY <1>1, <1>2, WhoMoves

LEMMA StoreGets ==
    ASSUME TInv, NEW r \in Runs, Open(r) \/ CopyDone(r) \/ CopyUnheard(r)
    PROVE  /\ Dest(r) \in Dests /\ job[r].file \in Files
           /\ DOMAIN store' = Dests
           /\ \A d \in Dests \ {Dest(r)} : store'[d] = store[d]
           /\ DOMAIN store'[Dest(r)] \subseteq DOMAIN store[Dest(r)] \cup {job[r].file}
           /\ DOMAIN store[Dest(r)] \subseteq DOMAIN store'[Dest(r)]
           /\ \A f \in DOMAIN store[Dest(r)] \ {job[r].file} :
                 store'[Dest(r)][f] = store[Dest(r)][f]
<1>0. DOMAIN store = Dests
    BY DEF TInv, TypeOK
<1>1. Dest(r) \in Dests /\ job[r].file \in Files
    BY LinkType DEF Open, CopyDone, CopyUnheard, AtStage, Looping
<1>2. store' = store \/ \E c : store' = [store EXCEPT ![Dest(r)] = Write(@, job[r].file, c)]
    BY DEF Open, CopyDone, CopyUnheard, Arrive
<1> QED BY <1>0, <1>1, <1>2 DEF Write

-----------------------------------------------------------------------------
(* The outcomes. *)

Rowed(r, i) == \E w \in results : w.run = r /\ w.at = i
Unstamped == {"idle", "links", "sched", "lock", "sync", "stamp"}

\* A run records position by position, and what it has recorded is not forgotten
\* before its row of the runs table names its archive.
OutcomeInv ==
    /\ dests = Dests
    /\ \A r \in Runs :
        /\ pc[r] # "done" => runs[r].file = None
        /\ pc[r] \in Unstamped => job[r].file = None
        /\ pc[r] \in Looping => \A i \in 1..(job[r].at - 1) : Rowed(r, i)
        /\ pc[r] \in {"cleanup", "finish"} /\ job[r].file # None =>
              \A i \in DOMAIN job[r].plan : Rowed(r, i)

\* What an unfinished run has recorded stays recorded.
LEMMA RowsStay ==
    ASSUME DeletableDests = {}, TInv, OutcomeInv, [Next]_vars
    PROVE  /\ dests' = dests
           /\ \A w \in results : pc[w.run] # "done" => w \in results'
<1>0. \A w \in results : w.run \in Runs
    BY DEF TInv, TypeOK, Row
<1>1. ASSUME NEW f \in Files, NEW d, NEW w \in results, pc[w.run] # "done"
      PROVE  w \notin Forgotten(d, f)
    BY <1>0, <1>1, NoneAssumption DEF OutcomeInv, Forgotten
<1>2. ASSUME NEW r \in Runs, Forget(r)
      PROVE  /\ dests' = dests
             /\ \A w \in results : pc[w.run] # "done" => w \in results'
  <2>1. job[r].gone \subseteq Files
      BY DEF TInv, TypeOK, Jobs
  <2> QED BY <1>1, <1>2, <2>1 DEF Forget, tables
<1>3. ASSUME RemoveHistory
      PROVE  /\ dests' = dests
             /\ \A w \in results : pc[w.run] # "done" => w \in results'
  <2>1. removing.file \in Files
      BY <1>3 DEF RemoveHistory, TInv, TypeOK
  <2> QED BY <1>1, <1>3, <2>1 DEF RemoveHistory, tables
<1>4. ASSUME NEW r \in Runs, Record(r)
      PROVE  dests' = dests /\ results \subseteq results'
    BY <1>4 DEF Record, tables
<1>5. ASSUME NEW r \in Runs, RunStep(r), ~Forget(r), ~Record(r)
      PROVE  dests' = dests /\ results' = results
  <2> USE DEF tables, history
  <2>1. CASE \/ ReadLinks(r) \/ ReadSchedule(r) \/ LoadFails(r) \/ EnterMirror(r) \/ SyncDone(r)
             \/ SyncFails(r) \/ Stamp(r) \/ ZipDone(r) \/ ArchiveFails(r)
      BY <2>1 DEF ReadLinks, ReadSchedule, LoadFails, EnterMirror, SyncDone, SyncFails,
                  Stamp, ZipDone, ArchiveFails
  <2>2. CASE Open(r) \/ OpenFails(r) \/ CopyDone(r) \/ CopyFails(r) \/ CopyUnheard(r)
             \/ ListDone(r) \/ ListFails(r)
      BY <2>2 DEF Open, OpenFails, CopyDone, CopyFails, CopyUnheard, ListDone, ListFails
  <2>3. CASE PruneDelete(r) \/ PruneStops(r) \/ PruneUnheard(r) \/ Cleanup(r) \/ FinishRun(r)
      BY <2>3 DEF PruneDelete, PruneStops, PruneUnheard, Cleanup, FinishRun
  <2> QED BY <1>5, <2>1, <2>2, <2>3 DEF RunStep
<1>6. ASSUME \/ \E r \in Runs : \E s \in Schedules : Start(r, s)
             \/ Outside /\ ~RemoveHistory
             \/ Crash
      PROVE  dests' = dests /\ results' = results
    BY <1>6 DEF Start, Crash, Outside, Expire, Hang, Administrator, RenameSchedule,
                SetScheduleDestinations, DeleteSchedule, RemoveBackup, vars, tables, history
<1> QED BY <1>2, <1>3, <1>4, <1>5, <1>6, WhoMoves

\* A run that does not move goes on having recorded what it had.
LEMMA OutcomeStays ==
    ASSUME DeletableDests = {}, TInv, OutcomeInv, [Next]_vars, NEW r \in Runs,
           pc'[r] = pc[r], job'[r] = job[r], runs'[r].file = runs[r].file
    PROVE  /\ pc'[r] # "done" => runs'[r].file = None
           /\ pc'[r] \in Unstamped => job'[r].file = None
           /\ pc'[r] \in Looping => \A i \in 1..(job'[r].at - 1) : Rowed(r, i)'
           /\ pc'[r] \in {"cleanup", "finish"} /\ job'[r].file # None =>
                 \A i \in DOMAIN job'[r].plan : Rowed(r, i)'
<1>1. ASSUME NEW i, Rowed(r, i), pc[r] # "done" PROVE Rowed(r, i)'
    BY <1>1, RowsStay DEF Rowed
<1> QED BY <1>1 DEF OutcomeInv, Looping

LEMMA OutcomeMoves ==
    ASSUME "db" \notin Faults, DeletableDests = {}, TInv, OutcomeInv,
           NEW r \in Runs, RunStep(r) \/ \E s \in Schedules : Start(r, s)
    PROVE  /\ pc'[r] # "done" => runs'[r].file = None
           /\ pc'[r] \in Unstamped => job'[r].file = None
           /\ pc'[r] \in Looping => \A i \in 1..(job'[r].at - 1) : Rowed(r, i)'
           /\ pc'[r] \in {"cleanup", "finish"} /\ job'[r].file # None =>
                 \A i \in DOMAIN job'[r].plan : Rowed(r, i)'
<1>0. /\ pc \in [Runs -> Stages] /\ job \in [Runs -> Jobs]
      /\ DOMAIN runs = Runs /\ runs[r] \in [status : {"none", "running", "success", "failed"},
                                            file : Files \cup {None}]
      /\ [Next]_vars
    BY DEF TInv, TypeOK, Next
<1>1. ASSUME NEW i, Rowed(r, i), pc[r] # "done" PROVE Rowed(r, i)'
    BY <1>0, <1>1, RowsStay DEF Rowed
<1> USE DEF Looping, Unstamped
<1>2. CASE \E s \in Schedules : Start(r, s)
  <2>1. /\ pc'[r] = "links" /\ pc[r] = "idle" /\ job'[r].file = job[r].file
        /\ runs'[r].file = runs[r].file
      BY <1>0, <1>2 DEF Start, Goto, Jobs
  <2> QED BY <2>1 DEF OutcomeInv
<1>3. CASE \/ ReadLinks(r) \/ ReadSchedule(r) \/ LoadFails(r)
           \/ EnterMirror(r) \/ SyncDone(r) \/ SyncFails(r)
  <2>1. /\ pc[r] \in {"links", "sched", "lock", "sync"} /\ runs' = runs
        /\ \E stage \in {"sched", "lock", "sync", "stamp", "finish"} : pc' = [pc EXCEPT ![r] = stage]
      BY <1>3 DEF ReadLinks, ReadSchedule, LoadFails, EnterMirror, SyncDone, SyncFails,
                  AtStage, Goto, history
  <2>2. job'[r].file = job[r].file
      BY <1>0, <1>3 DEF ReadLinks, ReadSchedule, LoadFails, EnterMirror, SyncDone, SyncFails, Jobs
  <2> QED BY <1>0, <2>1, <2>2 DEF OutcomeInv
<1>4. CASE Stamp(r)
    BY <1>0, <1>4 DEF Stamp, AtStage, Goto, history, OutcomeInv
<1>5. CASE ZipDone(r)
  <2>1. job[r].at = 1
      BY <1>5 DEF ZipDone, AtStage, TInv, JobOK
  <2> QED BY <1>0, <1>5, <2>1 DEF ZipDone, AtStage, Goto, history, OutcomeInv
<1>6. CASE ArchiveFails(r)
  <2>1. pc'[r] = "finish" /\ job'[r].file = None /\ pc[r] # "done" /\ runs' = runs
      BY <1>0, <1>6 DEF ArchiveFails, AtStage, Goto, Jobs, history
  <2> QED BY <2>1 DEF OutcomeInv
<1>7. CASE \/ Open(r) \/ OpenFails(r) \/ CopyDone(r) \/ CopyFails(r) \/ CopyUnheard(r)
           \/ ListDone(r) \/ ListFails(r) \/ PruneDelete(r) \/ PruneStops(r)
           \/ PruneUnheard(r) \/ Forget(r)
  <2>1. pc[r] \in Looping /\ runs' = runs
      BY <1>7 DEF Open, OpenFails, CopyDone, CopyFails, CopyUnheard, ListDone, ListFails,
                  PruneDelete,
                  PruneStops, PruneUnheard, Forget, AtStage, history
  <2>2. \E stage \in Looping : pc' = [pc EXCEPT ![r] = stage]
      BY <1>7 DEF Open, OpenFails, CopyDone, CopyFails, CopyUnheard, ListDone, ListFails,
                  PruneDelete,
                  PruneStops, PruneUnheard, Forget, Goto
  <2>3. job'[r].at = job[r].at
    <3>1. CASE Open(r) \/ OpenFails(r) \/ CopyDone(r) \/ CopyFails(r) \/ CopyUnheard(r)
               \/ ListFails(r)
      <4>1. job' = job \/ job' = Fail(r)
          BY <3>1 DEF Open, OpenFails, CopyDone, CopyFails, CopyUnheard, ListFails
      <4> QED BY <4>1, FailView
    <3>2. CASE ListDone(r)
        BY <1>0, <3>2 DEF ListDone, Jobs
    <3>3. CASE PruneDelete(r)
        BY <1>0, <3>3 DEF PruneDelete, Jobs
    <3>4. CASE PruneStops(r) \/ PruneUnheard(r)
      <4>1. job' = [job EXCEPT ![r].cut = {}]
          BY <3>4 DEF PruneStops, PruneUnheard
      <4> QED BY <1>0, <4>1 DEF Jobs
    <3>5. CASE Forget(r)
        BY <1>0, <3>5 DEF Forget, Jobs
    <3> QED BY <1>7, <3>1, <3>2, <3>3, <3>4, <3>5
  <2>4. /\ pc[r] # "done" /\ pc'[r] # "done" /\ pc'[r] \notin Unstamped
        /\ pc'[r] \notin {"cleanup", "finish"}
      BY <1>0, <2>1, <2>2
  <2> QED BY <1>1, <2>1, <2>3, <2>4 DEF OutcomeInv
<1>8. CASE Record(r)
  <2>1. /\ pc[r] = "record" /\ Dest(r) \in dests /\ runs' = runs
        /\ job[r].at \in DOMAIN job[r].plan
      BY <1>8, LinkType DEF Record, AtStage, OutcomeInv, TInv, JobOK
  <2>2. /\ job'[r].at = job[r].at + 1 /\ job'[r].plan = job[r].plan /\ job'[r].file = job[r].file
        /\ pc'[r] = IF job[r].at = Len(job[r].plan) THEN "cleanup" ELSE "open"
      BY <1>0, <1>8 DEF Record, Goto, Jobs
  <2>3. \E w \in results' : w.run = r /\ w.at = job[r].at
    <3> DEFINE outcome == IF job[r].at \in job[r].failed THEN "failed" ELSE "success"
               row == [run |-> r, at |-> job[r].at, dest |-> Dest(r), status |-> outcome]
    <3>1. row \in results'
        BY <1>8, <2>1 DEF Record
    <3>2. row.run = r /\ row.at = job[r].at
        OBVIOUS
    <3> HIDE DEF row
    <3> QED BY <3>1, <3>2
  <2>4. \A i \in 1..(job[r].at - 1) : Rowed(r, i)'
      BY <1>1, <2>1 DEF OutcomeInv
  <2>5. job[r].plan \in Seq(Link) /\ job[r].at \in Nat
      BY <1>0 DEF Jobs
  <2>6. \A i \in 1..job[r].at : Rowed(r, i)'
      BY <2>3, <2>4, <2>5 DEF Rowed
  <2>7. DOMAIN job[r].plan = 1..Len(job[r].plan)
      BY <2>5
  <2>8. CASE job[r].at = Len(job[r].plan)
      BY <2>2, <2>6, <2>7, <2>8, <2>1 DEF OutcomeInv
  <2>9. CASE job[r].at # Len(job[r].plan)
      BY <2>1, <2>2, <2>5, <2>6, <2>9 DEF OutcomeInv
  <2> QED BY <2>8, <2>9
<1>9. CASE Cleanup(r)
    BY <1>0, <1>1, <1>9 DEF Cleanup, AtStage, Goto, history, OutcomeInv
<1>10. CASE FinishRun(r)
    BY <1>0, <1>10 DEF FinishRun, Goto
<1> QED BY <1>2, <1>3, <1>4, <1>5, <1>6, <1>7, <1>8, <1>9, <1>10 DEF RunStep

\* Only its start and its end write a run's row, and no other run's.
LEMMA RowsKept ==
    ASSUME NEW r \in Runs, RunStep(r), ~FinishRun(r)
    PROVE  runs' = runs
<1>1. CASE \/ ReadLinks(r) \/ ReadSchedule(r) \/ LoadFails(r) \/ EnterMirror(r) \/ SyncDone(r)
           \/ SyncFails(r) \/ Stamp(r) \/ ZipDone(r) \/ ArchiveFails(r)
    BY <1>1 DEF ReadLinks, ReadSchedule, LoadFails, EnterMirror, SyncDone, SyncFails,
                Stamp, ZipDone, ArchiveFails, history
<1>2. CASE \/ Open(r) \/ OpenFails(r) \/ CopyDone(r) \/ CopyFails(r) \/ CopyUnheard(r)
           \/ ListDone(r) \/ ListFails(r)
    BY <1>2 DEF Open, OpenFails, CopyDone, CopyFails, CopyUnheard, ListDone, ListFails, history
<1>3. CASE PruneDelete(r) \/ PruneStops(r) \/ PruneUnheard(r) \/ Forget(r) \/ Record(r)
           \/ Cleanup(r)
    BY <1>3 DEF PruneDelete, PruneStops, PruneUnheard, Forget, Record, Cleanup, history
<1> QED BY <1>1, <1>2, <1>3 DEF RunStep

LEMMA OtherRows ==
    ASSUME TInv, NEW r \in Runs, RunStep(r) \/ \E s \in Schedules : Start(r, s)
    PROVE  \A q \in Runs \ {r} : runs'[q] = runs[q]
<1>1. DOMAIN runs = Runs
    BY DEF TInv, TypeOK
<1>2. CASE (\E s \in Schedules : Start(r, s)) \/ FinishRun(r)
    BY <1>1, <1>2 DEF Start, FinishRun
<1> QED BY <1>2, RowsKept

LEMMA OutcomeStep ==
    ASSUME "db" \notin Faults, DeletableDests = {}, TInv, OutcomeInv, [Next]_vars
    PROVE  OutcomeInv'
<1>1. dests' = Dests
    BY RowsStay DEF OutcomeInv
<1>2. ASSUME NEW r \in Runs, RunStep(r) \/ \E s \in Schedules : Start(r, s)
      PROVE  OutcomeInv'
    BY <1>1, <1>2, OthersStay, OtherRows, OutcomeStays, OutcomeMoves DEF OutcomeInv
<1>3. CASE Outside
    BY <1>1, <1>3, OutsideMovesNone, OutcomeStays DEF OutcomeInv
<1>4. CASE Crash
  <2>1. \A r \in Runs : /\ pc'[r] \in {"idle", "done"} /\ job'[r].file = None
                        /\ pc'[r] = "idle" => pc[r] = "idle"
                        /\ runs'[r] = runs[r]
      BY <1>4 DEF Crash, Active, NoJob, history
  <2> QED BY <1>1, <2>1 DEF OutcomeInv, Looping
<1> QED BY <1>2, <1>3, <1>4, WhoMoves

\* As long as the database works and no destination is deleted, a run that has
\* made an archive has a row for each of its destinations by the time it removes
\* it, whatever fails, expires or hangs at them and however other runs forget rows.
THEOREM OutcomesRecorded ==
    "db" \notin Faults /\ DeletableDests = {} => (Spec => []OutcomesAlwaysRecorded)
<1> SUFFICES ASSUME "db" \notin Faults, DeletableDests = {}
             PROVE  Spec => []OutcomesAlwaysRecorded
    OBVIOUS
<1>1. Init => OutcomeInv
    BY DEF Init, OutcomeInv, NoJob, Looping, Unstamped
<1>2. TInv /\ OutcomeInv /\ [Next]_vars => OutcomeInv'
    BY OutcomeStep
<1>3. OutcomeInv => OutcomesAlwaysRecorded
    BY DEF OutcomeInv, OutcomesAlwaysRecorded, Rowed
<1> QED BY <1>1, <1>2, <1>3, InitTInv, NextTInv, PTL DEF Spec
=============================================================================
