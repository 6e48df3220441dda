-------------------------- MODULE RetentionProofs --------------------------
(***************************************************************************)
(* Proofs about retention in BackupRun: what a prune takes, whatever other *)
(* runs store and prune meanwhile, and how many archives stay when no run  *)
(* is under way.  The names of the schedules are ones whose archives can   *)
(* be told apart.                                                          *)
(***************************************************************************)
EXTENDS BackupRunProofs, FiniteSetTheorems

-----------------------------------------------------------------------------
(* The order and the match of archives of names that can be told apart. *)

\* Archives of one prefix are ordered by their time.
LEMMA NewerIsLater ==
    ASSUME NEW f \in Files, NEW g \in Files, f.prefix = g.prefix
    PROVE  Newer(g, f) <=> g.stamp > f.stamp
<1> DEFINE n == Len(f.prefix)
           a == Text(f)
           b == Text(g)
<1>0. f.prefix \in Seq(Int) /\ f.stamp \in Nat /\ g.stamp \in Nat /\ n \in Nat
    BY DEF Files
<1>1. /\ Len(a) = n + 2 /\ Len(b) = n + 2
      /\ \A i \in 1..(n + 1) : a[i] = b[i]
      /\ a[n + 2] = f.stamp /\ b[n + 2] = g.stamp
    BY <1>0 DEF Text, Dash
<1> HIDE DEF a, b, n
<1>2. ASSUME LexLess(a, b) PROVE g.stamp > f.stamp
  <2>1. PICK i \in 1..Len(b) : i <= Len(a) => a[i] < b[i]
      BY <1>2 DEF LexLess
  <2>2. a[i] < b[i] /\ i \in 1..(n + 2)
      BY <1>0, <1>1, <2>1
  <2>3. CASE i \in 1..(n + 1)
    <3>1. a[i] = b[i]
        BY <1>1, <2>3
    <3>2. a[i] \in Int
        BY <1>0, <2>3 DEF a, n, Text, Dash
    <3> QED BY <2>2, <3>1, <3>2
  <2>4. CASE i = n + 2
      BY <1>0, <1>1, <2>2, <2>4
  <2> QED BY <1>0, <2>2, <2>3, <2>4
<1>3. ASSUME g.stamp > f.stamp PROVE LexLess(a, b)
  <2>1. n + 2 \in 1..Len(b) /\ n + 2 <= Len(a) + 1 /\ a[n + 2] < b[n + 2]
      BY <1>0, <1>1, <1>3
  <2>2. \A j \in 1..((n + 2) - 1) : a[j] = b[j]
      BY <1>0, <1>1
  <2> QED BY <2>1, <2>2 DEF LexLess
<1> QED BY <1>2, <1>3 DEF Newer, a, b

\* The prefix of a name matches the archives of that name.
LEMMA OwnMatches ==
    ASSUME NEW f \in Files, NEW name \in Seq(Int), f.prefix = SanitizeName(name)
    PROVE  Matches(f, name)
<1>1. SanitizeName(name) \in Seq(Int) /\ f.stamp \in Nat
    BY SanitizeType DEF Files
<1> QED BY <1>1 DEF Matches, HasPrefix, Text, FilenamePrefix, Dash

\* Of separate names, it matches no others: a timestamp is no dash, so the match
\* ends within the name it is part of.
LEMMA MatchesOwnOnly ==
    ASSUME NEW f \in Files, f.stamp > 0,
           NEW N \in SUBSET Seq(Int), Separate(N),
           NEW n \in N, f.prefix = SanitizeName(n),
           NEW m \in N, Matches(f, m)
    PROVE  f.prefix = SanitizeName(m)
<1> DEFINE p == SanitizeName(n)
           q == SanitizeName(m)
<1>0. p \in Seq(Int) /\ q \in Seq(Int) /\ f.stamp \in Nat
    BY SanitizeType DEF Files
<1>1. Text(f) = p \o <<Dash, f.stamp>> /\ FilenamePrefix(n) = p \o <<Dash>>
      /\ FilenamePrefix(m) = q \o <<Dash>>
    BY DEF Text, FilenamePrefix
<1> HIDE DEF p, q
<1>a. /\ Len(p) \in Nat /\ Len(q) \in Nat
      /\ Len(Text(f)) = Len(p) + 2
      /\ Len(FilenamePrefix(n)) = Len(p) + 1
      /\ Len(FilenamePrefix(m)) = Len(q) + 1
    BY <1>0, <1>1 DEF Dash
<1>b. \A i \in 1..(Len(p) + 1) : FilenamePrefix(n)[i] = Text(f)[i]
    BY <1>0, <1>1 DEF Dash
<1>2. /\ Len(FilenamePrefix(m)) <= Len(Text(f))
      /\ \A i \in 1..Len(FilenamePrefix(m)) : Text(f)[i] = FilenamePrefix(m)[i]
    BY DEF Matches, HasPrefix
<1>3. Len(q) # Len(p) + 1
  <2> SUFFICES ASSUME Len(q) = Len(p) + 1 PROVE FALSE
      OBVIOUS
  <2>1. Text(f)[Len(q) + 1] = FilenamePrefix(m)[Len(q) + 1]
      BY <1>a, <1>2
  <2>2. Text(f)[Len(p) + 2] = f.stamp
      BY <1>0, <1>1 DEF Dash
  <2>3. FilenamePrefix(m)[Len(q) + 1] = Dash
      BY <1>0, <1>1 DEF Dash
  <2>4. Len(p) + 2 = Len(q) + 1
      BY <1>a
  <2>5. f.stamp = Dash
      BY <2>1, <2>2, <2>3, <2>4
  <2> QED BY <1>0, <2>5 DEF Dash
<1>4. HasPrefix(FilenamePrefix(n), FilenamePrefix(m))
  <2>1. Len(FilenamePrefix(m)) <= Len(FilenamePrefix(n))
      BY <1>a, <1>2, <1>3
  <2>2. \A i \in 1..Len(FilenamePrefix(m)) : FilenamePrefix(n)[i] = FilenamePrefix(m)[i]
      BY <1>a, <1>b, <1>2, <2>1
  <2> QED BY <2>1, <2>2 DEF HasPrefix
<1>5. SanitizeName(n) = SanitizeName(m)
    BY <1>4 DEF Separate
<1> QED BY <1>5

\* What is beyond the newest keep of a list has a newer file in the list.
LEMMA BeyondHasNewer ==
    ASSUME NEW L, NEW keep \in Nat, keep > 0, NEW f \in Beyond(L, keep)
    PROVE  f \in L /\ \E g \in L : Newer(g, f)
<1>1. f \in L /\ Cardinality({g \in L : Newer(g, f)}) >= keep
    BY DEF Beyond
<1>2. {g \in L : Newer(g, f)} # {}
  <2> SUFFICES ASSUME {g \in L : Newer(g, f)} = {} PROVE FALSE
      OBVIOUS
  <2>1. Cardinality({g \in L : Newer(g, f)}) = 0
      BY FS_EmptySet
  <2> QED BY <1>1, <2>1
<1> QED BY <1>1, <1>2

-----------------------------------------------------------------------------
(* What runs know of archives, and what a cut leaves behind. *)

\* Every name a schedule may have.
Known == {InitNames[s] : s \in Schedules} \cup NewNames
Archive(f) == f.stamp > 0 /\ \E n \in Known : f.prefix = SanitizeName(n)

Named == {"lock", "sync", "stamp"} \cup Archived

\* A newer archive of f's schedule is at a destination.
Backed(f, d) == \E g \in DOMAIN store[d] : g.prefix = f.prefix /\ g.stamp > f.stamp

RunKnows(r) ==
    /\ pc[r] \in Named => job[r].name \in Known
    /\ pc[r] \in Archived => /\ job[r].file.stamp > 0
                             /\ job[r].file.prefix = SanitizeName(job[r].name)
    /\ pc[r] = "list" => Keep(r) > 0
    /\ pc[r] = "prune" => \A f \in job[r].cut : /\ f.prefix = SanitizeName(job[r].name)
                                                /\ Backed(f, Dest(r))

NamesKnown == \A s \in Schedules : names[s] \in Known \cup {None}
StoreKnown == \A d \in Dests : \A f \in DOMAIN store[d] : Archive(f)

\* The cut of a stale listing stays backed: what another run deletes meanwhile
\* is itself backed by something newer.
RInv == NamesKnown /\ StoreKnown /\ \A r \in Runs : RunKnows(r)

\* Nothing is taken from a destination.
Grows == \A d \in Dests : DOMAIN store[d] \subseteq DOMAIN store'[d]

\* A run that takes no step goes on knowing what it knew.
LEMMA OthersKnow ==
    ASSUME TInv, NEW q \in Runs, RunKnows(q), Grows, pc'[q] = pc[q], job'[q] = job[q]
    PROVE  RunKnows(q)'
<1>1. Dest(q)' = Dest(q) /\ Keep(q)' = Keep(q)
    BY DEF Dest, Keep
<1>2. ASSUME pc[q] = "prune", NEW f, Backed(f, Dest(q))
      PROVE  Backed(f, Dest(q))'
  <2>1. Dest(q) \in Dests
      BY <1>2, LinkType DEF Looping
  <2> QED BY <1>1, <1>2, <2>1 DEF Backed, Grows
<1> QED BY <1>1, <1>2 DEF RunKnows

\* What most steps of a run have in common: it learns no name, makes no archive,
\* and neither lists nor prunes next; a destination may receive its archive.
Ordinary(r) ==
    /\ names' = names
    /\ \A q \in Runs \ {r} : pc'[q] = pc[q] /\ job'[q] = job[q]
    /\ pc'[r] \in Named => pc[r] \in Named /\ job'[r].name = job[r].name
    /\ pc'[r] \in Archived => pc[r] \in Archived /\ job'[r].file = job[r].file
    /\ pc'[r] \notin {"list", "prune"}
    /\ \A d \in Dests : \/ store'[d] = store[d]
                        \/ pc[r] \in Archived
                           /\ DOMAIN store'[d] = DOMAIN store[d] \cup {job[r].file}

\* An archive a run made is one of a known name.
LEMMA OwnArchiveKnown ==
    ASSUME NEW r \in Runs, RunKnows(r), pc[r] \in Archived
    PROVE  Archive(job[r].file)
BY DEF RunKnows, Archive, Named

LEMMA OrdinaryRInv ==
    ASSUME TInv, RInv, NEW r \in Runs, Ordinary(r)
    PROVE  RInv'
<1>1. NamesKnown'
    BY DEF RInv, NamesKnown, Ordinary
<1>2. Grows
    BY DEF Grows, Ordinary
<1>3. StoreKnown'
    BY OwnArchiveKnown DEF RInv, StoreKnown, Ordinary, Archive
<1>4. RunKnows(r)'
    BY DEF RInv, RunKnows, Ordinary, Archived, Named
<1>5. \A q \in Runs \ {r} : RunKnows(q)'
    BY <1>2, OthersKnow DEF RInv, Ordinary
<1> QED BY <1>1, <1>3, <1>4, <1>5 DEF RInv

\* A step that sets other local variables of a run leaves it its name and archive.
LEMMA NameKept ==
    ASSUME job \in [Runs -> Jobs], NEW r \in Runs, NEW j,
           job' = [job EXCEPT ![r] = j], j.file = job[r].file, j.name = job[r].name
    PROVE  /\ job'[r].file = job[r].file /\ job'[r].name = job[r].name
           /\ \A q \in Runs \ {r} : job'[q] = job[q]
OBVIOUS

LEMMA OrdinarySteps ==
    ASSUME TInv, NEW r \in Runs,
           \/ \E s \in Schedules : Start(r, s)
           \/ ReadLinks(r) \/ LoadFails(r)
           \/ EnterMirror(r) \/ SyncDone(r) \/ SyncFails(r)
           \/ ZipDone(r) \/ ArchiveFails(r)
           \/ Open(r) \/ OpenFails(r) \/ CopyFails(r) \/ CopyUnheard(r) \/ ListFails(r)
           \/ PruneStops(r) \/ Forget(r) \/ Record(r) \/ Cleanup(r) \/ FinishRun(r)
    PROVE  Ordinary(r)
<1> USE DEF Ordinary, Named, Archived, Uploading
<1>0. pc \in [Runs -> Stages] /\ job \in [Runs -> Jobs] /\ DOMAIN store = Dests
    BY DEF TInv, TypeOK
<1>1. ASSUME \/ \E s \in Schedules : Start(r, s)
             \/ ReadLinks(r) \/ LoadFails(r) \/ ArchiveFails(r) \/ FinishRun(r)
      PROVE  Ordinary(r)
  <2>1. UNCHANGED <<names, store>> /\ \E j : job' = [job EXCEPT ![r] = j]
    <3>1. ASSUME NEW s \in Schedules, Start(r, s)
          PROVE  UNCHANGED <<names, store>> /\ \E j : job' = [job EXCEPT ![r] = j]
        BY <3>1 DEF Start, tables
    <3>2. CASE ReadLinks(r)
        BY <3>2 DEF ReadLinks, tables
    <3>3. CASE LoadFails(r)
      <4>1. job' = [job EXCEPT ![r] = job[r]] /\ UNCHANGED <<names, store>>
          BY <1>0, <3>3 DEF LoadFails, tables
      <4> QED BY <4>1
    <3>4. CASE ArchiveFails(r)
        BY <3>4 DEF ArchiveFails, tables
    <3>5. CASE FinishRun(r)
        BY <3>5 DEF FinishRun, tables
    <3> QED BY <1>1, <3>1, <3>2, <3>3, <3>4, <3>5
  <2>2. \E stage \in {"links", "sched", "finish", "done"} : pc' = [pc EXCEPT ![r] = stage]
      BY <1>1 DEF Start, ReadLinks, LoadFails, ArchiveFails, FinishRun, Goto
  <2> QED BY <1>0, <2>1, <2>2
<1>2. ASSUME EnterMirror(r) \/ SyncDone(r) \/ SyncFails(r) \/ ZipDone(r) \/ Cleanup(r)
      PROVE  Ordinary(r)
  <2>1. UNCHANGED <<names, store, job>>
      BY <1>2 DEF EnterMirror, SyncDone, SyncFails, ZipDone, Cleanup, tables
  <2>2. \/ /\ pc[r] \in {"lock", "sync"}
           /\ \E stage \in {"sync", "stamp", "finish"} : pc' = [pc EXCEPT ![r] = stage]
        \/ pc[r] = "zip" /\ pc' = [pc EXCEPT ![r] = "open"]
        \/ pc' = [pc EXCEPT ![r] = "finish"]
      BY <1>2 DEF EnterMirror, SyncDone, SyncFails, ZipDone, Cleanup, Goto, AtStage
  <2> QED BY <1>0, <2>1, <2>2
<1>3. ASSUME Open(r) \/ OpenFails(r) \/ CopyFails(r) \/ CopyUnheard(r) \/ ListFails(r)
      PROVE  Ordinary(r)
  <2>1. /\ names' = names
        /\ pc[r] \in {"open", "copy", "list"}
        /\ \E stage \in {"copy", "record"} : pc' = [pc EXCEPT ![r] = stage]
      BY <1>3 DEF Open, OpenFails, CopyFails, CopyUnheard, ListFails, AtStage, Goto, tables
  <2>2. job' = job \/ job' = Fail(r)
      BY <1>3 DEF Open, OpenFails, CopyFails, CopyUnheard, ListFails
  <2>3. /\ job'[r].file = job[r].file /\ job'[r].name = job[r].name
        /\ \A q \in Runs \ {r} : job'[q] = job[q]
    <3> DEFINE j == [job[r] EXCEPT !.failed = @ \cup {job[r].at}, !.cut = {}]
    <3>1. Fail(r) = [job EXCEPT ![r] = j]
        BY <1>0 DEF Fail
    <3>2. j.file = job[r].file /\ j.name = job[r].name
        BY <1>0 DEF Jobs
    <3> HIDE DEF j
    <3> QED BY <1>0, <2>2, <3>1, <3>2, NameKept
  <2>4. \A d \in Dests : \/ store'[d] = store[d]
                         \/ DOMAIN store'[d] = DOMAIN store[d] \cup {job[r].file}
      BY <1>0, <1>3 DEF Open, OpenFails, CopyFails, CopyUnheard, Arrive, ListFails, Write
  <2> QED BY <1>0, <2>1, <2>3, <2>4
<1>4. ASSUME PruneStops(r) \/ Forget(r) \/ Record(r)
      PROVE  Ordinary(r)
  <2>1. /\ UNCHANGED <<names, store>>
        /\ pc[r] \in {"prune", "forget", "record"}
        /\ \E stage \in {"record", "forget", "cleanup", "open"} : pc' = [pc EXCEPT ![r] = stage]
      BY <1>4 DEF PruneStops, Forget, Record, AtStage, Goto, tables
  <2>2. /\ job'[r].file = job[r].file /\ job'[r].name = job[r].name
        /\ \A q \in Runs \ {r} : job'[q] = job[q]
    <3>1. CASE PruneStops(r)
        BY <1>0, <3>1 DEF PruneStops, Jobs
    <3>2. CASE Forget(r)
        BY <1>0, <3>2 DEF Forget, Jobs
    <3>3. CASE Record(r)
        BY <1>0, <3>3 DEF Record, Jobs
    <3> QED BY <1>4, <3>1, <3>2, <3>3
  <2> QED BY <1>0, <2>1, <2>2
<1> QED BY <1>1, <1>2, <1>3, <1>4

\* The steps in which a run learns its name, makes its archive, has stored it.
LEMMA LearningRInv ==
    ASSUME TInv, RInv, NEW r \in Runs, ReadSchedule(r) \/ Stamp(r) \/ CopyDone(r)
    PROVE  RInv'
<1> USE DEF Named, Archived, Uploading
<1>0. pc \in [Runs -> Stages] /\ job \in [Runs -> Jobs] /\ DOMAIN store = Dests
    BY DEF TInv, TypeOK
<1>1. names' = names
    BY DEF ReadSchedule, Stamp, CopyDone, tables
<1>2. NamesKnown'
    BY <1>1 DEF RInv, NamesKnown
<1>3. \A q \in Runs \ {r} : pc'[q] = pc[q] /\ job'[q] = job[q]
    BY <1>0 DEF ReadSchedule, Stamp, CopyDone, Goto
<1>4. Grows /\ StoreKnown'
  <2>1. CASE ReadSchedule(r) \/ Stamp(r)
      BY <2>1 DEF ReadSchedule, Stamp, Grows, RInv, StoreKnown, Archive
  <2>2. CASE CopyDone(r)
    <3>1. Archive(job[r].file)
        BY <2>2, OwnArchiveKnown DEF RInv, CopyDone, AtStage
    <3>2. \A d \in Dests : \/ store'[d] = store[d]
                           \/ DOMAIN store'[d] = DOMAIN store[d] \cup {job[r].file}
        BY <1>0, <2>2 DEF CopyDone, Arrive, Write
    <3> QED BY <3>1, <3>2 DEF Grows, RInv, StoreKnown, Archive
  <2> QED BY <2>1, <2>2
<1>5. RunKnows(r)'
  <2>1. CASE ReadSchedule(r)
    <3>1. job[r].sched \in Schedules /\ names[job[r].sched] # None
        BY <2>1 DEF ReadSchedule, AtStage, TInv, JobOK
    <3>2. job'[r].name = names[job[r].sched] /\ pc'[r] = "lock"
        BY <1>0, <2>1 DEF ReadSchedule, Goto, Jobs
    <3> QED BY <3>1, <3>2 DEF RInv, NamesKnown, RunKnows
  <2>2. CASE Stamp(r)
    <3>1. PICK t : /\ t \in {clock + MinGap, clock + 1} \ {0}
                   /\ job' = [job EXCEPT ![r].file = ArchiveFile(job[r].name, t)]
        BY <2>2 DEF Stamp
    <3>2. t \in Nat /\ t > 0
        BY <3>1, BoundsAssumption DEF TInv, TypeOK
    <3>3. /\ job'[r].name = job[r].name
          /\ job'[r].file = ArchiveFile(job[r].name, t)
        BY <1>0, <3>1 DEF Jobs
    <3>4. pc'[r] = "zip" /\ pc[r] = "stamp"
        BY <1>0, <2>2 DEF Stamp, AtStage, Goto
    <3> QED BY <3>2, <3>3, <3>4 DEF RInv, RunKnows, ArchiveFile
  <2>3. CASE CopyDone(r)
    <3>1. job' = job /\ pc[r] = "copy" /\ pc'[r] = (IF Keep(r) = 0 THEN "record" ELSE "list")
        BY <1>0, <2>3 DEF CopyDone, AtStage, Goto
    <3>2. Keep(r) \in Nat /\ Keep(r)' = Keep(r)
        BY <3>1, LinkType DEF Looping, Keep
    <3> QED BY <3>1, <3>2 DEF RInv, RunKnows
  <2> QED BY <2>1, <2>2, <2>3
<1>6. \A q \in Runs \ {r} : RunKnows(q)'
    BY <1>3, <1>4, OthersKnow DEF RInv
<1> QED BY <1>2, <1>4, <1>5, <1>6 DEF RInv

LEMMA KnownNames == Known \in SUBSET Seq(Int)
BY TablesAssumption DEF Known

\* What a listing cuts is the run's own schedule's, and the list holds a newer one.
LEMMA ListDoneRInv ==
    ASSUME Separate(Known), TInv, RInv, NEW r \in Runs, ListDone(r)
    PROVE  RInv'
<1> DEFINE d == Dest(r)
           matched == {f \in DOMAIN store[d] : Matches(f, job[r].name)}
<1>0. pc \in [Runs -> Stages] /\ job \in [Runs -> Jobs] /\ pc[r] = "list"
    BY DEF TInv, TypeOK, ListDone, AtStage
<1>1. /\ d \in Dests /\ Keep(r) \in Nat /\ Keep(r) > 0
      /\ job[r].name \in Known
      /\ \A f \in DOMAIN store[d] : f \in Files /\ Archive(f)
    BY <1>0, LinkType DEF Looping, RInv, RunKnows, Named, Archived, Uploading, StoreKnown,
                          TInv, TypeOK, FileMap
<1>2. /\ UNCHANGED <<names, store>>
      /\ job' = [job EXCEPT ![r].cut = Beyond(matched, Keep(r))]
      /\ pc'[r] \in {"record", "prune"}
      /\ \A q \in Runs \ {r} : pc'[q] = pc[q]
    BY <1>0 DEF ListDone, Goto, tables
<1>3. /\ job'[r].cut = Beyond(matched, Keep(r))
      /\ job'[r].name = job[r].name /\ job'[r].file = job[r].file
      /\ Dest(r)' = Dest(r)
      /\ \A q \in Runs \ {r} : job'[q] = job[q]
    BY <1>0, <1>2 DEF Jobs, Dest
<1>4. \A f \in matched : f \in Files /\ f.prefix = SanitizeName(job[r].name)
    BY <1>1, KnownNames, MatchesOwnOnly DEF Archive
<1>5. ASSUME NEW f \in Beyond(matched, Keep(r))
      PROVE  f.prefix = SanitizeName(job[r].name) /\ Backed(f, d)'
  <2>1. f \in matched /\ \E g \in matched : Newer(g, f)
      BY <1>1, BeyondHasNewer
  <2>2. PICK g \in matched : Newer(g, f)
      BY <2>1
  <2>3. g.prefix = f.prefix /\ g.stamp > f.stamp
      BY <1>4, <2>1, <2>2, NewerIsLater
  <2>4. Backed(f, d)
      BY <2>3 DEF Backed
  <2> QED BY <1>2, <1>3, <1>4, <2>1, <2>4 DEF Backed
<1>6. RunKnows(r)'
    BY <1>0, <1>2, <1>3, <1>5 DEF RInv, RunKnows, Named, Archived, Uploading
<1>7. Grows /\ NamesKnown' /\ StoreKnown'
    BY <1>2 DEF Grows, RInv, NamesKnown, StoreKnown, Archive
<1>8. \A q \in Runs \ {r} : RunKnows(q)'
    BY <1>2, <1>3, <1>7, OthersKnow DEF RInv
<1> QED BY <1>6, <1>7, <1>8 DEF RInv

\* What a prune deletes from a destination, it leaves something newer of.
LEMMA DeleteLeavesBacked ==
    ASSUME TInv, RInv, NEW r \in Runs, Prunes(r)
    PROVE  /\ \E e \in job[r].cut :
                 /\ e \in Files /\ e.prefix = SanitizeName(job[r].name)
                 /\ Backed(e, Dest(r)) /\ Backed(e, Dest(r))'
                 /\ store' = [store EXCEPT ![Dest(r)] = Unlink(@, e)]
           /\ job'[r].cut \subseteq job[r].cut
           /\ job'[r].name = job[r].name /\ job'[r].file = job[r].file
           /\ Dest(r)' = Dest(r) /\ Keep(r)' = Keep(r)
           /\ \A q \in Runs \ {r} : job'[q] = job[q]
<1>0. /\ pc[r] = "prune" /\ job \in [Runs -> Jobs] /\ DOMAIN store = Dests
      /\ Dest(r) \in Dests /\ DOMAIN store[Dest(r)] \subseteq Files
    BY LinkType DEF Prunes, PruneDelete, PruneUnheard, AtStage, Looping, TInv, TypeOK, FileMap
<1>a. RunStep(r) /\ ~Record(r)
    BY <1>0 DEF Prunes, RunStep, Record, AtStage
<1>b. /\ job'[r].name = job[r].name /\ job'[r].file = job[r].file
      /\ job'[r].plan = job[r].plan /\ job'[r].at = job[r].at
      /\ \A q \in Runs \ {r} : job'[q] = job[q]
    BY <1>a, LocalsKept, OthersStay DEF Prunes
<1>c. job'[r].cut \subseteq job[r].cut
  <2>1. CASE PruneDelete(r)
      BY <1>0, <2>1 DEF PruneDelete, Jobs
  <2>2. CASE PruneUnheard(r)
      BY <1>0, <2>2 DEF PruneUnheard, Jobs
  <2> QED BY <2>1, <2>2 DEF Prunes
<1>1. PICK e \in job[r].cut : store' = [store EXCEPT ![Dest(r)] = Unlink(@, e)]
    BY DEF Prunes, PruneDelete, PruneUnheard
<1>2. e \in Files /\ e.stamp \in Nat
    BY <1>0 DEF Jobs, Files
<1>3. e.prefix = SanitizeName(job[r].name) /\ Backed(e, Dest(r))
    BY <1>0 DEF RInv, RunKnows
<1>4. PICK g \in DOMAIN store[Dest(r)] : g.prefix = e.prefix /\ g.stamp > e.stamp
    BY <1>3 DEF Backed
<1>5. g # e
    BY <1>2, <1>4
<1>6. Dest(r)' = Dest(r) /\ Keep(r)' = Keep(r)
    BY <1>b DEF Dest, Keep
<1>7. g \in DOMAIN store'[Dest(r)]
    BY <1>0, <1>1, <1>4, <1>5 DEF Unlink
<1>8. Backed(e, Dest(r))'
    BY <1>4, <1>6, <1>7 DEF Backed
<1> QED BY <1>b, <1>c, <1>1, <1>2, <1>3, <1>6, <1>8

LEMMA DeleteRInv ==
    ASSUME TInv, RInv, NEW r \in Runs, Prunes(r)
    PROVE  RInv'
<1>0. /\ pc \in [Runs -> Stages] /\ job \in [Runs -> Jobs] /\ DOMAIN store = Dests
      /\ pc[r] = "prune"
    BY DEF Prunes, PruneDelete, PruneUnheard, AtStage, TInv, TypeOK
<1>1. PICK e \in job[r].cut :
         /\ e \in Files
         /\ Backed(e, Dest(r))
         /\ store' = [store EXCEPT ![Dest(r)] = Unlink(@, e)]
    BY DeleteLeavesBacked
<1>2. \A d \in Dests : DOMAIN store[d] \subseteq Files
    BY DEF TInv, TypeOK, FileMap
<1>3. /\ \A d \in Dests \ {Dest(r)} : store'[d] = store[d]
      /\ Dest(r) \in Dests /\ DOMAIN store'[Dest(r)] = DOMAIN store[Dest(r)] \ {e}
    BY <1>0, <1>1, LinkType DEF Unlink, Looping
<1>4. /\ names' = names
      /\ pc'[r] \in {"forget", "prune", "record"}
      /\ \A q \in Runs \ {r} : pc'[q] = pc[q]
    BY <1>0 DEF Prunes, PruneDelete, PruneUnheard, Goto, tables
<1>5. /\ job'[r].cut \subseteq job[r].cut
      /\ job'[r].name = job[r].name /\ job'[r].file = job[r].file
      /\ \A q \in Runs \ {r} : job'[q] = job[q]
      /\ \A q \in Runs : Dest(q)' = Dest(q) /\ Keep(q)' = Keep(q)
    BY DeleteLeavesBacked DEF Dest, Keep
<1>6. ASSUME NEW f, NEW d \in Dests, Backed(f, d), f.stamp \in Nat
      PROVE  \E g \in DOMAIN store'[d] : g.prefix = f.prefix /\ g.stamp > f.stamp
  <2>1. PICK g \in DOMAIN store[d] : g.prefix = f.prefix /\ g.stamp > f.stamp
      BY <1>6 DEF Backed
  <2>2. CASE d # Dest(r) \/ g # e
      BY <1>3, <2>1, <2>2
  <2>3. CASE d = Dest(r) /\ g = e
    <3>1. PICK h \in DOMAIN store[d] : h.prefix = e.prefix /\ h.stamp > e.stamp
        BY <1>1, <2>3 DEF Backed
    <3>2. h.stamp \in Nat /\ e.stamp \in Nat
        BY <1>1, <1>2 DEF Files
    <3>3. h # e /\ h.prefix = f.prefix /\ h.stamp > f.stamp
        BY <1>6, <2>1, <2>3, <3>1, <3>2
    <3> QED BY <1>3, <2>3, <3>3
  <2> QED BY <2>2, <2>3
<1>7. ASSUME NEW q \in Runs PROVE RunKnows(q)'
  <2>0. /\ pc'[q] \in Named => pc[q] \in Named
        /\ pc'[q] \in Archived => pc[q] \in Archived
        /\ pc'[q] = "list" => pc[q] = "list"
        /\ pc'[q] = "prune" => pc[q] = "prune"
      BY <1>0, <1>4 DEF Named, Archived, Uploading
  <2>1. /\ job'[q].name = job[q].name /\ job'[q].file = job[q].file
        /\ job'[q].cut \subseteq job[q].cut
        /\ Dest(q)' = Dest(q) /\ Keep(q)' = Keep(q)
      BY <1>5
  <2>2. ASSUME pc'[q] = "prune", NEW f \in job'[q].cut
        PROVE  f.prefix = SanitizeName(job[q].name) /\ Backed(f, Dest(q))'
    <3>1. /\ f \in job[q].cut /\ Dest(q) \in Dests /\ f.stamp \in Nat
        BY <1>0, <2>0, <2>1, <2>2, LinkType DEF Looping, Jobs, Files
    <3>2. f.prefix = SanitizeName(job[q].name) /\ Backed(f, Dest(q))
        BY <2>0, <2>2, <3>1 DEF RInv, RunKnows
    <3> QED BY <1>6, <2>1, <3>1, <3>2 DEF Backed
  <2> QED BY <2>0, <2>1, <2>2 DEF RInv, RunKnows
<1>8. NamesKnown' /\ StoreKnown'
    BY <1>3, <1>4 DEF RInv, NamesKnown, StoreKnown, Archive
<1> QED BY <1>7, <1>8 DEF RInv

\* Nothing a run knows is about the other variables.
LEMMA StillRInv ==
    ASSUME TInv, RInv, NamesKnown', UNCHANGED <<store, pc, job>>
    PROVE  RInv'
BY OthersKnow DEF RInv, StoreKnown, Archive, Grows

LEMMA OutsideRInv ==
    ASSUME ~UserRemoves, TInv, RInv,
           \/ \E r \in Runs : Expire(r) \/ Hang(r)
           \/ Crash \/ Administrator \/ UNCHANGED vars
    PROVE  RInv'
<1>1. CASE \E r \in Runs : Expire(r) \/ Hang(r)
    BY <1>1, StillRInv DEF Expire, Hang, tables, RInv, NamesKnown
<1>2. CASE Crash
  <2>1. \A r \in Runs : pc'[r] \in {"idle", "done"}
      BY <1>2 DEF Crash, Active
  <2>2. \A r \in Runs : RunKnows(r)'
      BY <2>1 DEF RunKnows, Named, Archived, Uploading
  <2>3. NamesKnown' /\ StoreKnown'
      BY <1>2 DEF Crash, tables, RInv, NamesKnown, StoreKnown, Archive
  <2> QED BY <2>2, <2>3 DEF RInv
<1>3. CASE Administrator
  <2>0. names \in [Schedules -> Seq(Int) \cup {None}]
      BY DEF TInv, TypeOK
  <2>1. ASSUME NEW s \in Schedules, NEW n \in NewNames, RenameSchedule(s, n)
        PROVE  RInv'
    <3>1. NamesKnown'
        BY <2>0, <2>1 DEF RenameSchedule, RInv, NamesKnown, Known
    <3> QED BY <2>1, <3>1, StillRInv DEF RenameSchedule
  <2>2. ASSUME NEW s \in Schedules, DeleteSchedule(s)
        PROVE  RInv'
    <3>1. NamesKnown'
        BY <2>0, <2>2 DEF DeleteSchedule, RInv, NamesKnown
    <3> QED BY <2>2, <3>1, StillRInv DEF DeleteSchedule
  <2>3. ASSUME NEW s \in Schedules, NEW ls, SetScheduleDestinations(s, ls)
        PROVE  RInv'
      BY <2>3, StillRInv DEF SetScheduleDestinations, RInv, NamesKnown
  <2>4. ASSUME NEW d \in Dests, CountLinks(d) \/ DeleteDestination(d)
        PROVE  RInv'
      BY <2>4, StillRInv DEF CountLinks, DeleteDestination, tables, RInv, NamesKnown
  <2>5. CASE RemoveHistory
      BY <2>5, StillRInv DEF RemoveHistory, tables, RInv, NamesKnown
  <2>6. \A d, f : ~RemoveBackup(d, f)
      BY DEF RemoveBackup
  <2> QED BY <1>3, <2>1, <2>2, <2>3, <2>4, <2>5, <2>6, TablesAssumption DEF Administrator
<1>4. CASE UNCHANGED vars
    BY <1>4, StillRInv DEF vars, tables, RInv, NamesKnown
<1> QED BY <1>1, <1>2, <1>3, <1>4

LEMMA RInvStep ==
    ASSUME ~UserRemoves, Separate(Known), TInv, RInv, [Next]_vars
    PROVE  RInv'
<1>1. ASSUME NEW r \in Runs, NEW s \in Schedules, Start(r, s)
      PROVE  RInv'
    BY <1>1, OrdinarySteps, OrdinaryRInv
<1>2. ASSUME NEW r \in Runs, RunStep(r)
      PROVE  RInv'
  <2>1. CASE ReadSchedule(r) \/ Stamp(r) \/ CopyDone(r)
      BY <2>1, LearningRInv
  <2>2. CASE ListDone(r)
      BY <2>2, ListDoneRInv
  <2>3. CASE PruneDelete(r) \/ PruneUnheard(r)
      BY <2>3, DeleteRInv DEF Prunes
  <2> QED BY <1>2, <2>1, <2>2, <2>3, OrdinarySteps, OrdinaryRInv DEF RunStep
<1> QED BY <1>1, <1>2, OutsideRInv DEF Next

\* When a prune takes a file, a newer one that its schedule's prefix matches is left.
LEMMA RInvLeavesNewer ==
    ASSUME TInv, RInv, NEW r \in Runs, Prunes(r), NEW f \in Pruned(r)
    PROVE  \E g \in DOMAIN store'[Dest(r)] : Matches(g, job[r].name) /\ Newer(g, f)
<1>0. /\ pc[r] = "prune" /\ job \in [Runs -> Jobs] /\ DOMAIN store = Dests
      /\ Dest(r) \in Dests /\ DOMAIN store[Dest(r)] \subseteq Files
    BY LinkType DEF Prunes, PruneDelete, PruneUnheard, AtStage, Looping, TInv, TypeOK, FileMap
<1>1. PICK e \in job[r].cut :
         /\ e \in Files /\ e.prefix = SanitizeName(job[r].name)
         /\ Backed(e, Dest(r))'
         /\ store' = [store EXCEPT ![Dest(r)] = Unlink(@, e)]
    BY DeleteLeavesBacked
<1>2. f = e /\ Dest(r)' = Dest(r)
    BY <1>0, <1>1, DeleteLeavesBacked DEF Pruned, Unlink
<1>3. PICK g \in DOMAIN store'[Dest(r)] : g.prefix = e.prefix /\ g.stamp > e.stamp
    BY <1>1, <1>2 DEF Backed
<1>4. g \in Files /\ job[r].name \in Seq(Int)
    BY <1>0, <1>1, <1>3 DEF Unlink, Jobs
<1>5. Matches(g, job[r].name) /\ Newer(g, f)
    BY <1>1, <1>2, <1>3, <1>4, OwnMatches, NewerIsLater
<1> QED BY <1>3, <1>5

\* When the names schedules may have can be told apart and nobody removes backups
\* by hand, a prune leaves something newer than what it takes, however many runs
\* prune the same destination at once, fail, hang or die.  Schedules whose names
\* sanitize alike count as one: what is newer may be the other's.
THEOREM PrunesLeaveNewer ==
    ~UserRemoves /\ Separate(Known) => (Spec => PruneLeavesNewer)
<1> SUFFICES ASSUME ~UserRemoves, Separate(Known)
             PROVE  Spec => PruneLeavesNewer
    OBVIOUS
<1>1. Init => RInv
  <2> SUFFICES ASSUME Init PROVE RInv
      OBVIOUS
  <2>1. NamesKnown
      BY TablesAssumption DEF Init, NamesKnown, Known
  <2>2. StoreKnown
      BY DEF Init, StoreKnown
  <2>3. \A r \in Runs : RunKnows(r)
      BY DEF Init, RunKnows, Named, Archived, Uploading
  <2> QED BY <2>1, <2>2, <2>3 DEF RInv
<1>2. TInv /\ RInv /\ [Next]_vars => RInv'
    BY RInvStep
<1>3. TInv /\ RInv /\ [Next]_vars =>
         [\A r \in Runs : Prunes(r) =>
             \A f \in Pruned(r) : \E g \in DOMAIN store'[Dest(r)] :
                Matches(g, job[r].name) /\ Newer(g, f)]_vars
    BY RInvLeavesNewer
<1> QED BY <1>1, <1>2, <1>3, InitTInv, NextTInv, PTL DEF Spec, PruneLeavesNewer

-----------------------------------------------------------------------------
(* How many archives stay.                                                   *)

LEMMA LeastNat ==
    ASSUME NEW T \in SUBSET Nat, T # {}
    PROVE  \E x \in T : \A y \in T : x <= y
<1> DEFINE R == OpToRel(<, Nat)
<1>1. IsWellFoundedOn(R, Nat)
    BY NatLessThanWellFounded
<1>2. \A x, y \in Nat : <<y, x>> \in R <=> y < x
    BY DEF OpToRel
<1> HIDE DEF R
<1>3. PICK x \in T : \A y \in T : <<y, x>> \notin R
    BY <1>1, WFMin
<1>4. \A y \in T : ~(y < x)
    BY <1>2, <1>3
<1> QED BY <1>4

\* Of the archives of one schedule, at most keep are not beyond the newest keep:
\* the oldest of those has fewer than keep newer ones, the rest among them.
LEMMA CutLeavesKeep ==
    ASSUME NEW L \in SUBSET Files, IsFiniteSet(L),
           NEW p, \A f \in L : f.prefix = p,
           NEW keep \in Nat, keep > 0
    PROVE  Cardinality(L \ Beyond(L, keep)) <= keep
<1> DEFINE M == L \ Beyond(L, keep)
           Over(f) == {g \in L : Newer(g, f)}
<1>1. \A f, g \in L : Newer(g, f) <=> g.stamp > f.stamp
    BY NewerIsLater
<1>2. \A f \in L : IsFiniteSet(Over(f)) /\ Cardinality(Over(f)) \in Nat
    BY FS_Subset, FS_CardinalityType
<1>3. \A f \in M : Cardinality(Over(f)) < keep
    BY <1>2 DEF Beyond
<1>4. CASE M = {}
    BY <1>4, FS_EmptySet
<1>5. CASE M # {}
  <2> DEFINE T == {f.stamp : f \in M}
  <2>1. T \in SUBSET Nat /\ T # {}
      BY <1>5 DEF Files
  <2>2. PICK x \in T : \A y \in T : x <= y
    <3> HIDE DEF T
    <3> QED BY <2>1, LeastNat
  <2>3. PICK f \in M : \A g \in M : f.stamp <= g.stamp
      BY <2>2
  <2>4. \A g \in M \ {f} : g \in Over(f)
    <3> SUFFICES ASSUME NEW g \in M \ {f} PROVE g.stamp > f.stamp
        BY <1>1
    <3>1. g.stamp # f.stamp
        BY DEF Files
    <3> QED BY <2>3, <3>1 DEF Files
  <2> DEFINE O == Over(f)
  <2>5. M \subseteq O \cup {f} /\ f \notin O
      BY <1>1, <2>4 DEF Files
  <2>6. IsFiniteSet(O) /\ Cardinality(O) \in Nat /\ Cardinality(O) < keep
      BY <1>2, <1>3
  <2> HIDE DEF O, M
  <2>7. IsFiniteSet(O \cup {f}) /\ Cardinality(O \cup {f}) = Cardinality(O) + 1
      BY <2>5, <2>6, FS_AddElement
  <2>8. Cardinality(M) <= Cardinality(O \cup {f}) /\ IsFiniteSet(M)
      BY <2>5, <2>7, FS_Subset
  <2>9. Cardinality(M) \in Nat
      BY <2>8, FS_CardinalityType
  <2>10. Cardinality(M) <= keep
      BY <2>6, <2>7, <2>8, <2>9
  <2> QED BY <2>10 DEF M
<1> QED BY <1>4, <1>5

\* What is assumed: WebDAV destinations, whose deletes do not fail for a file that
\* is gone; storing, listing and deleting work, no answer is lost and the process
\* does not die;
\* schedules keep their names, and their links unless they lose them all or are
\* deleted; and schedules whose names sanitize alike keep the same number at a
\* destination they share.
Settling ==
    /\ \A d \in Dests : Kind[d] = "webdav"
    /\ Faults \cap {"store", "list", "delete", "reply"} = {} /\ MaxCrashes = 0
    /\ NewNames = {} /\ NewLinks \subseteq {<<>>}
    /\ Separate(Known)
    /\ \A s, t \in Schedules : SanitizeName(InitNames[s]) = SanitizeName(InitNames[t]) =>
          \A i \in DOMAIN InitLinks[s], j \in DOMAIN InitLinks[t] :
             InitLinks[s][i].dest = InitLinks[t][j].dest => InitLinks[s][i].keep = InitLinks[t][j].keep

\* The archives of a prefix at a destination, and the prefix a run archives under.
Of(d, p) == {f \in DOMAIN store[d] : f.prefix = p}
PrefixOf(r) == SanitizeName(job[r].name)
At(r, d, p) == Dest(r) = d /\ PrefixOf(r) = p

\* No more than keep archives are there, or a run is going to list them, or one
\* is deleting what will leave no more.
OnTheWay(d, p, keep) ==
    \/ \E r \in Runs : pc[r] \in {"copy", "list"} /\ At(r, d, p)
    \/ \E r \in Runs : /\ pc[r] = "prune" /\ At(r, d, p)
                       /\ Cardinality(Of(d, p) \ job[r].cut) <= keep
    \/ Cardinality(Of(d, p)) <= keep

TablesSame ==
    \A s \in Schedules : /\ links[s] \in {InitLinks[s], <<>>}
                         /\ names[s] \in {InitNames[s], None}
                         /\ names[s] = None => links[s] = <<>>

Planned == {"sched"} \cup Named
Follows(r) ==
    /\ pc[r] \in Planned => job[r].sched \in Schedules /\ job[r].plan = InitLinks[job[r].sched]
    /\ pc[r] \in Named => job[r].name = InitNames[job[r].sched]
    /\ pc[r] \in Archived => job[r].file.stamp > 0 /\ job[r].file.prefix = PrefixOf(r)

Tidy == \A s \in Schedules : \A i \in DOMAIN InitLinks[s] :
            InitLinks[s][i].keep > 0 =>
                OnTheWay(InitLinks[s][i].dest, SanitizeName(InitNames[s]), InitLinks[s][i].keep)

\* Nothing is linked to a destination whose delete has counted no links.
CountedFree ==
    deleting # None => \A s \in Schedules : \A i \in DOMAIN links[s] : links[s][i].dest # deleting

FollowInv == /\ TablesSame /\ CountedFree /\ StoreKnown
             /\ \A r \in Runs : Follows(r)
             /\ \A d \in Dests : IsFiniteSet(DOMAIN store[d])

\* What a run's step does to its stage and to what it has read, as Follows sees it.
LEMMA FollowsMoves ==
    ASSUME TInv, TablesSame, NEW r \in Runs, Follows(r),
           RunStep(r) \/ \E s \in Schedules : Start(r, s)
    PROVE  Follows(r)'
<1> USE DEF Planned, Named, Archived, Uploading
<1>0. pc \in [Runs -> Stages] /\ job \in [Runs -> Jobs]
    BY DEF TInv, TypeOK
<1>1. CASE (\E s \in Schedules : Start(r, s)) \/ FinishRun(r) \/ ArchiveFails(r)
  <2>1. pc'[r] \in {"links", "done", "finish"}
      BY <1>0, <1>1 DEF Start, FinishRun, ArchiveFails, Goto
  <2> QED BY <2>1 DEF Follows
<1>2. CASE ReadLinks(r)
  <2>1. job[r].sched \in Schedules /\ links[job[r].sched] = InitLinks[job[r].sched]
      BY <1>2 DEF ReadLinks, AtStage, TInv, JobOK, TablesSame
  <2>2. pc'[r] = "sched" /\ job'[r].plan = links[job[r].sched] /\ job'[r].sched = job[r].sched
      BY <1>0, <1>2 DEF ReadLinks, Goto, Jobs
  <2> QED BY <2>1, <2>2 DEF Follows
<1>3. CASE ReadSchedule(r)
  <2>1. /\ pc[r] = "sched" /\ job[r].sched \in Schedules
        /\ names[job[r].sched] = InitNames[job[r].sched]
      BY <1>3 DEF ReadSchedule, AtStage, TInv, JobOK, TablesSame
  <2>2. /\ pc'[r] = "lock" /\ job'[r].name = names[job[r].sched]
        /\ job'[r].sched = job[r].sched /\ job'[r].plan = job[r].plan
      BY <1>0, <1>3 DEF ReadSchedule, Goto, Jobs
  <2> QED BY <2>1, <2>2 DEF Follows
<1>4. CASE Stamp(r)
  <2>1. PICK t : /\ t \in {clock + MinGap, clock + 1} \ {0}
                 /\ job' = [job EXCEPT ![r].file = ArchiveFile(job[r].name, t)]
      BY <1>4 DEF Stamp
  <2>2. t \in Nat /\ t > 0
      BY <2>1, BoundsAssumption DEF TInv, TypeOK
  <2>3. /\ job'[r].sched = job[r].sched /\ job'[r].plan = job[r].plan
        /\ job'[r].name = job[r].name /\ job'[r].file = ArchiveFile(job[r].name, t)
      BY <1>0, <2>1 DEF Jobs
  <2>4. pc'[r] = "zip" /\ pc[r] = "stamp"
      BY <1>0, <1>4 DEF Stamp, AtStage, Goto
  <2> QED BY <2>2, <2>3, <2>4 DEF Follows, ArchiveFile, PrefixOf
<1>5. CASE \/ LoadFails(r) \/ EnterMirror(r) \/ SyncDone(r) \/ SyncFails(r) \/ ZipDone(r)
           \/ Cleanup(r)
  <2>1. /\ pc'[r] \in Planned => pc[r] \in Planned
        /\ pc'[r] \in Named => pc[r] \in Named
        /\ pc'[r] \in Archived => pc[r] \in Archived
      BY <1>0, <1>5 DEF LoadFails, EnterMirror, SyncDone, SyncFails, ZipDone, Cleanup,
                        AtStage, Goto
  <2> QED BY <1>5, <2>1, LocalsKept DEF Follows, PrefixOf
<1>6. CASE \/ Open(r) \/ OpenFails(r) \/ CopyDone(r) \/ CopyFails(r) \/ CopyUnheard(r)
           \/ ListDone(r) \/ ListFails(r) \/ PruneDelete(r) \/ PruneStops(r) \/ PruneUnheard(r)
           \/ Forget(r) \/ Record(r)
  <2>1. pc[r] \in Archived
      BY <1>6 DEF Open, OpenFails, CopyDone, CopyFails, CopyUnheard, ListDone, ListFails,
                  PruneDelete, PruneStops, PruneUnheard, Forget, Record, AtStage
  <2> QED BY <1>6, <2>1, LocalsKept DEF Follows, PrefixOf
<1> QED BY <1>1, <1>2, <1>3, <1>4, <1>5, <1>6 DEF RunStep

LEMMA FollowsStays ==
    ASSUME NEW r \in Runs, Follows(r), pc'[r] = pc[r], job'[r] = job[r]
    PROVE  Follows(r)'
BY DEF Follows, PrefixOf

\* The stores hold finitely many archives, all of known names.
StoreTidy == StoreKnown /\ \A d \in Dests : IsFiniteSet(DOMAIN store[d])

LEMMA StoreTidyStep ==
    ASSUME TInv, StoreTidy, \A r \in Runs : Follows(r), [Next]_vars, NewNames = {}
    PROVE  StoreTidy'
<1> USE DEF StoreTidy, StoreKnown, Archive
<1>0. DOMAIN store = Dests
    BY DEF TInv, TypeOK
<1>1. ASSUME NEW r \in Runs, Open(r) \/ CopyDone(r) \/ CopyUnheard(r)
      PROVE  StoreTidy'
  <2>1. Archive(job[r].file)
    <3>1. pc[r] \in Archived
        BY <1>1 DEF Open, CopyDone, CopyUnheard, AtStage, Archived, Uploading
    <3> QED BY <3>1 DEF Follows, Planned, Named, Known, PrefixOf
  <2>2. IsFiniteSet(DOMAIN store[Dest(r)] \cup {job[r].file})
      BY <1>1, StoreGets, FS_AddElement
  <2>3. IsFiniteSet(DOMAIN store'[Dest(r)])
      BY <1>1, <2>2, StoreGets, FS_Subset
  <2> QED BY <1>1, <2>1, <2>3, StoreGets
<1>2. ASSUME NEW d \in Dests, NEW f, store' = [store EXCEPT ![d] = Unlink(@, f)]
      PROVE  StoreTidy'
  <2>1. \A e \in Dests : DOMAIN store'[e] \subseteq DOMAIN store[e]
      BY <1>0, <1>2 DEF Unlink
  <2> QED BY <2>1, FS_Subset
<1>3. ASSUME NEW r \in Runs, PruneDelete(r) \/ PruneUnheard(r)
      PROVE  StoreTidy'
  <2>1. Dest(r) \in Dests
      BY <1>3, LinkType DEF PruneDelete, PruneUnheard, AtStage, Looping
  <2>2. \E f : store' = [store EXCEPT ![Dest(r)] = Unlink(@, f)]
      BY <1>3 DEF PruneDelete, PruneUnheard
  <2> QED BY <1>2, <2>1, <2>2
<1>4. ASSUME NEW d \in Dests, NEW f \in DOMAIN store[d], RemoveBackup(d, f)
      PROVE  StoreTidy'
    BY <1>2, <1>4 DEF RemoveBackup
<1> QED BY <1>1, <1>3, <1>4, StoreKept

LEMMA TablesStep ==
    ASSUME NewNames = {}, NewLinks \subseteq {<<>>}, TInv, TablesSame, CountedFree, [Next]_vars
    PROVE  TablesSame' /\ CountedFree'
<1> USE DEF TablesSame, CountedFree
<1>0. DOMAIN links = Schedules /\ DOMAIN names = Schedules
    BY DEF TInv, TypeOK
<1>1. ASSUME NEW s \in Schedules, DeleteSchedule(s) \/ SetScheduleDestinations(s, <<>>)
      PROVE  TablesSame' /\ CountedFree'
  <2>1. /\ links' = [links EXCEPT ![s] = <<>>] /\ deleting' = deleting
        /\ names' = names \/ names' = [names EXCEPT ![s] = None]
      BY <1>1 DEF DeleteSchedule, SetScheduleDestinations, peers
  <2> QED BY <1>0, <2>1
<1>2. ASSUME UNCHANGED <<links, names>>, deleting' \in {deleting, None}
      PROVE  TablesSame' /\ CountedFree'
    BY <1>2
<1>3. ASSUME NEW d \in DeletableDests, CountLinks(d)
      PROVE  TablesSame' /\ CountedFree'
    BY <1>3 DEF CountLinks, tables
<1>4. ASSUME NEW d \in DeletableDests, DeleteDestination(d)
      PROVE  TablesSame' /\ CountedFree'
  <2>1. deleting = d /\ d # None
      BY <1>4, TablesAssumption, NoneAssumption DEF DeleteDestination
  <2>2. \A s \in Schedules : WithoutLinksTo(links[s], d) = links[s]
      BY <2>1 DEF WithoutLinksTo
  <2>3. links' = links /\ names' = names /\ deleting' = None
      BY <1>0, <1>4, <2>2 DEF DeleteDestination, TInv, TypeOK
  <2> QED BY <2>3
<1>5. ASSUME NEW r \in Runs, RunStep(r) \/ \E s \in Schedules : Start(r, s)
      PROVE  UNCHANGED <<links, names, deleting>>
  <2> USE DEF tables, peers
  <2>1. CASE \/ \E s \in Schedules : Start(r, s)
             \/ ReadLinks(r) \/ ReadSchedule(r) \/ LoadFails(r) \/ EnterMirror(r) \/ SyncDone(r)
             \/ SyncFails(r) \/ Stamp(r) \/ ZipDone(r) \/ ArchiveFails(r)
      BY <2>1 DEF Start, ReadLinks, ReadSchedule, LoadFails, EnterMirror, SyncDone, SyncFails,
                  Stamp, ZipDone, ArchiveFails
  <2>2. CASE \/ Open(r) \/ OpenFails(r) \/ CopyDone(r) \/ CopyFails(r) \/ CopyUnheard(r)
             \/ ListDone(r) \/ ListFails(r)
      BY <2>2 DEF Open, OpenFails, CopyDone, CopyFails, CopyUnheard, ListDone, ListFails
  <2>3. CASE \/ PruneDelete(r) \/ PruneStops(r) \/ PruneUnheard(r) \/ Forget(r) \/ Record(r)
             \/ Cleanup(r) \/ FinishRun(r)
      BY <2>3 DEF PruneDelete, PruneStops, PruneUnheard, Forget, Record, Cleanup, FinishRun
  <2> QED BY <1>5, <2>1, <2>2, <2>3 DEF RunStep
<1>6. CASE \/ \E r \in Runs : Expire(r) \/ Hang(r)
           \/ \E d \in Dests : \E f \in DOMAIN store[d] : RemoveBackup(d, f)
           \/ RemoveHistory \/ Crash \/ UNCHANGED vars
    BY <1>2, <1>6 DEF Expire, Hang, RemoveBackup, RemoveHistory, Crash, vars, tables, peers
<1>7. CASE Administrator
    BY <1>1, <1>3, <1>4, <1>6, <1>7, TablesAssumption DEF Administrator
<1> QED BY <1>2, <1>5, <1>6, <1>7, WhoMoves DEF Outside

LEMMA FollowInvStep ==
    ASSUME NewNames = {}, NewLinks \subseteq {<<>>}, TInv, FollowInv, [Next]_vars
    PROVE  FollowInv'
<1>1. TablesSame' /\ CountedFree'
    BY TablesStep DEF FollowInv
<1>2. \A r \in Runs : Follows(r)'
  <2>1. ASSUME NEW r \in Runs, RunStep(r) \/ \E s \in Schedules : Start(r, s)
        PROVE  \A q \in Runs : Follows(q)'
      BY <2>1, FollowsMoves, FollowsStays, OthersStay DEF FollowInv
  <2>2. CASE Outside
      BY <2>2, OutsideMovesNone, FollowsStays DEF FollowInv
  <2>3. CASE Crash
    <3>1. \A r \in Runs : pc'[r] \in {"idle", "done"}
        BY <2>3 DEF Crash, Active
    <3> QED BY <3>1 DEF Follows, Planned, Named, Archived, Uploading
  <2> QED BY <2>1, <2>2, <2>3, WhoMoves
<1> QED BY <1>1, <1>2, StoreTidyStep DEF FollowInv, StoreTidy

LEMMA FewerStay ==
    ASSUME NEW S, IsFiniteSet(S), NEW T \in SUBSET S, NEW keep \in Nat, Cardinality(S) <= keep
    PROVE  Cardinality(T) <= keep
<1>1. IsFiniteSet(T) /\ Cardinality(T) <= Cardinality(S)
    BY FS_Subset
<1>2. Cardinality(T) \in Nat /\ Cardinality(S) \in Nat
    BY <1>1, FS_CardinalityType
<1> QED BY <1>1, <1>2

\* A destination without new archives of a prefix stays on its way, as long as
\* the runs that store, list and prune there do not move.
LEMMA StillOnTheWay ==
    ASSUME NEW d \in Dests, NEW p, NEW keep \in Nat, OnTheWay(d, p, keep),
           IsFiniteSet(DOMAIN store[d]), Of(d, p)' \subseteq Of(d, p),
           \A r \in Runs : pc[r] \in {"copy", "list", "prune"} /\ At(r, d, p) =>
                              pc'[r] = pc[r] /\ job'[r] = job[r]
    PROVE  OnTheWay(d, p, keep)'
<1>0. IsFiniteSet(Of(d, p))
    BY FS_Subset DEF Of
<1>1. ASSUME NEW r \in Runs, pc[r] \in {"copy", "list", "prune"}, At(r, d, p)
      PROVE  pc'[r] = pc[r] /\ job'[r] = job[r] /\ At(r, d, p)'
    BY <1>1 DEF At, Dest, PrefixOf
<1>4. CASE \E r \in Runs : pc[r] \in {"copy", "list"} /\ At(r, d, p)
    BY <1>1, <1>4 DEF OnTheWay
<1>5. ASSUME NEW r \in Runs, pc[r] = "prune", At(r, d, p),
             Cardinality(Of(d, p) \ job[r].cut) <= keep
      PROVE  OnTheWay(d, p, keep)'
  <2>1. pc'[r] = "prune" /\ job'[r].cut = job[r].cut /\ At(r, d, p)'
      BY <1>1, <1>5
  <2>2. Cardinality(Of(d, p)' \ job[r].cut) <= keep
    <3>1. IsFiniteSet(Of(d, p) \ job[r].cut)
        BY <1>0, FS_Difference
    <3>2. Of(d, p)' \ job[r].cut \in SUBSET (Of(d, p) \ job[r].cut)
        OBVIOUS
    <3> QED BY <1>5, <3>1, <3>2, FewerStay
  <2> QED BY <2>1, <2>2 DEF OnTheWay
<1>6. CASE Cardinality(Of(d, p)) <= keep
  <2>2. Cardinality(Of(d, p)') <= keep
    <3>1. Of(d, p)' \in SUBSET Of(d, p)
        OBVIOUS
    <3> QED BY <1>0, <1>6, <3>1, FewerStay
  <2> QED BY <2>2 DEF OnTheWay
<1> QED BY <1>4, <1>5, <1>6 DEF OnTheWay

\* Whoever archives under a link's prefix at its destination keeps what it keeps.
LEMMA SameKeep ==
    ASSUME Settling, TInv, NEW s \in Schedules, NEW i \in DOMAIN InitLinks[s],
           NEW r \in Runs, Follows(r), pc[r] \in Looping,
           At(r, InitLinks[s][i].dest, SanitizeName(InitNames[s]))
    PROVE  Keep(r) = InitLinks[s][i].keep
<1>1. /\ job[r].sched \in Schedules /\ job[r].plan = InitLinks[job[r].sched]
      /\ job[r].name = InitNames[job[r].sched] /\ job[r].at \in DOMAIN job[r].plan
    BY DEF Follows, Planned, Named, Archived, Uploading, Looping, TInv, JobOK
<1> QED BY <1>1 DEF Settling, At, Dest, Keep, PrefixOf

\* A run that stores at a destination, and what it does there, keeps it on its way.
LEMMA TidyMoves ==
    ASSUME Settling, TInv, FollowInv, NEW r \in Runs,
           Open(r) \/ CopyDone(r) \/ ListDone(r) \/ PruneDelete(r),
           NEW s \in Schedules, NEW i \in DOMAIN InitLinks[s],
           NEW d \in Dests, d = InitLinks[s][i].dest,
           NEW p, p = SanitizeName(InitNames[s]),
           NEW keep \in Nat, keep = InitLinks[s][i].keep, keep > 0, OnTheWay(d, p, keep)
    PROVE  OnTheWay(d, p, keep)'
<1>0. /\ pc \in [Runs -> Stages] /\ job \in [Runs -> Jobs] /\ DOMAIN store = Dests
      /\ pc[r] \in Looping /\ Follows(r)
      /\ IsFiniteSet(DOMAIN store[d]) /\ DOMAIN store[d] \subseteq Files
      /\ RunStep(r)
    BY DEF TInv, TypeOK, FileMap, Open, CopyDone, ListDone, PruneDelete, AtStage, Looping,
           FollowInv, RunStep
<1>1. Dest(r) \in Dests /\ (At(r, d, p) => Keep(r) = keep)
    BY <1>0, LinkType, SameKeep
<1>2. \A q \in Runs \ {r} : pc'[q] = pc[q] /\ job'[q] = job[q]
    BY <1>0, OthersStay
<1>3. (At(r, d, p)') = At(r, d, p)
  <2>1. /\ job'[r].plan = job[r].plan /\ job'[r].at = job[r].at /\ job'[r].name = job[r].name
    <3>1. ~Record(r)
        BY DEF Open, CopyDone, ListDone, PruneDelete, Record, AtStage
    <3> QED BY <3>1, LocalsKept
  <2> QED BY <2>1 DEF At, Dest, PrefixOf
<1>4. CASE ~At(r, d, p)
  <2>1. Of(d, p)' \subseteq Of(d, p)
    <3>1. CASE Open(r) \/ CopyDone(r)
      <4>1. job[r].file.prefix = PrefixOf(r)
          BY <1>0 DEF Follows, Archived, Uploading, Looping
      <4> QED BY <1>4, <3>1, <4>1, StoreGets DEF Of, At
    <3>2. CASE ListDone(r)
        BY <3>2 DEF ListDone, Of
    <3>3. CASE PruneDelete(r)
      <4>1. PICK e : store' = [store EXCEPT ![Dest(r)] = Unlink(@, e)]
          BY <3>3 DEF PruneDelete
      <4>2. DOMAIN store'[d] \subseteq DOMAIN store[d]
          BY <1>0, <1>1, <4>1 DEF Unlink
      <4>3. \A f \in DOMAIN store'[d] : f \in DOMAIN store[d]
          BY <4>2
      <4> QED BY <4>3 DEF Of
    <3> QED BY <3>1, <3>2, <3>3
  <2> QED BY <1>0, <1>2, <1>4, <2>1, StillOnTheWay
<1>5. CASE At(r, d, p) /\ (Open(r) \/ CopyDone(r))
  <2>1. pc'[r] \in {"copy", "list"}
    <3>1. CASE Open(r)
        BY <1>0, <3>1 DEF Open, Goto
    <3>2. CASE CopyDone(r)
      <4>1. pc' = [pc EXCEPT ![r] = IF Keep(r) = 0 THEN "record" ELSE "list"]
          BY <3>2 DEF CopyDone, Goto
      <4>2. Keep(r) # 0
          BY <1>1, <1>5
      <4> QED BY <1>0, <4>1, <4>2
    <3> QED BY <1>5, <3>1, <3>2
  <2> QED BY <1>3, <1>5, <2>1 DEF OnTheWay
<1>6. CASE At(r, d, p) /\ ListDone(r)
  <2> DEFINE cut == Beyond(Of(d, p), keep)
  <2>1. \A f \in DOMAIN store[d] : Matches(f, job[r].name) <=> f.prefix = p
    <3>1. job[r].name \in Known /\ SanitizeName(job[r].name) = p /\ job[r].name \in Seq(Int)
        BY <1>0, <1>6, KnownNames
        DEF Follows, Planned, Named, Archived, Uploading, Looping, Known, At, PrefixOf
    <3>2. \A f \in DOMAIN store[d] : Archive(f)
        BY DEF FollowInv, StoreKnown
    <3> QED BY <1>0, <3>1, <3>2, KnownNames, OwnMatches, MatchesOwnOnly DEF Archive, Settling
  <2>2. /\ pc'[r] = (IF cut = {} THEN "record" ELSE "prune")
        /\ job'[r].cut = cut /\ store' = store
    <3>1. {f \in DOMAIN store[d] : Matches(f, job[r].name)} = Of(d, p)
        BY <2>1 DEF Of
    <3>2. Dest(r) = d /\ Keep(r) = keep
        BY <1>1, <1>6 DEF At
    <3>3. /\ job' = [job EXCEPT ![r].cut = cut]
          /\ pc' = [pc EXCEPT ![r] = IF cut = {} THEN "record" ELSE "prune"]
          /\ store' = store
        BY <1>6, <3>1, <3>2 DEF ListDone, Goto
    <3> HIDE DEF cut
    <3> QED BY <1>0, <3>3 DEF Jobs
  <2>3. Cardinality(Of(d, p) \ cut) <= keep
    <3>1. IsFiniteSet(Of(d, p)) /\ Of(d, p) \in SUBSET Files
        BY <1>0, FS_Subset DEF Of
    <3> QED BY <3>1, CutLeavesKeep DEF Of
  <2>4. (Of(d, p)') = Of(d, p)
      BY <2>2 DEF Of
  <2> HIDE DEF cut
  <2>5. CASE cut = {}
    <3>1. Of(d, p) \ {} = Of(d, p)
        OBVIOUS
    <3>2. Cardinality(Of(d, p)') <= keep
        BY <2>3, <2>4, <2>5, <3>1
    <3> QED BY <3>2 DEF OnTheWay
  <2>6. CASE cut # {}
    <3>1. pc'[r] = "prune" /\ Cardinality(Of(d, p)' \ job'[r].cut) <= keep
        BY <2>2, <2>3, <2>4, <2>6
    <3> QED BY <1>3, <1>6, <3>1 DEF OnTheWay
  <2> QED BY <2>5, <2>6
<1>7. CASE At(r, d, p) /\ PruneDelete(r)
  <2>1. PICK e \in job[r].cut :
           /\ store' = [store EXCEPT ![d] = Unlink(@, e)]
           /\ job' = [job EXCEPT ![r].cut = @ \ {e}, ![r].gone = @ \cup {e}]
           /\ pc' = [pc EXCEPT ![r] = IF job[r].cut = {e} THEN "forget" ELSE "prune"]
      BY <1>7 DEF PruneDelete, At, Goto
  <2>2. /\ Of(d, p)' = Of(d, p) \ {e}
        /\ job'[r].cut = job[r].cut \ {e}
        /\ pc'[r] = IF job[r].cut = {e} THEN "forget" ELSE "prune"
      BY <1>0, <2>1 DEF Of, Unlink, Jobs
  <2>3. Of(d, p)' \ job'[r].cut = Of(d, p) \ job[r].cut
      BY <2>1, <2>2
  <2>4. CASE Cardinality(Of(d, p) \ job[r].cut) <= keep
    <3>1. CASE job[r].cut = {e}
      <4>1. Of(d, p) \ job[r].cut = Of(d, p)'
          BY <2>2, <3>1
      <4> QED BY <2>4, <4>1 DEF OnTheWay
    <3>2. CASE job[r].cut # {e}
        BY <1>3, <1>7, <2>2, <2>3, <2>4, <3>2 DEF OnTheWay
    <3> QED BY <3>1, <3>2
  <2>5. CASE ~(Cardinality(Of(d, p) \ job[r].cut) <= keep)
    <3> DEFINE Pends(q) == \/ pc[q] \in {"copy", "list"}
                           \/ pc[q] = "prune" /\ Cardinality(Of(d, p) \ job[q].cut) <= keep
    <3>0. IsFiniteSet(Of(d, p))
        BY <1>0, FS_Subset DEF Of
    <3>2. ASSUME NEW q \in Runs, At(q, d, p), Pends(q) PROVE OnTheWay(d, p, keep)'
      <4>1. q # r
          BY <1>7, <2>5, <3>2 DEF PruneDelete, AtStage
      <4>2. pc'[q] = pc[q] /\ job'[q] = job[q] /\ At(q, d, p)'
          BY <1>2, <3>2, <4>1 DEF At, Dest, PrefixOf
      <4>3. Cardinality(Of(d, p) \ job[q].cut) <= keep =>
               Cardinality((Of(d, p)') \ job'[q].cut) <= keep
        <5>1. IsFiniteSet(Of(d, p) \ job[q].cut)
            BY <3>0, FS_Difference
        <5>2. (Of(d, p)') \ job[q].cut \in SUBSET (Of(d, p) \ job[q].cut)
            BY <2>2
        <5>3. Cardinality(Of(d, p) \ job[q].cut) <= keep =>
                 Cardinality((Of(d, p)') \ job[q].cut) <= keep
            BY <5>1, <5>2, FewerStay
        <5> QED BY <4>2, <5>3
      <4> QED BY <3>2, <4>2, <4>3 DEF OnTheWay
    <3>3. CASE Cardinality(Of(d, p)) <= keep
      <4>1. (Of(d, p)') \in SUBSET Of(d, p)
          BY <2>2
      <4>2. Cardinality(Of(d, p)') <= keep
          BY <3>0, <3>3, <4>1, FewerStay
      <4> QED BY <4>2 DEF OnTheWay
    <3> QED BY <3>2, <3>3 DEF OnTheWay
  <2> QED BY <2>4, <2>5
<1> QED BY <1>4, <1>5, <1>6, <1>7

LEMMA TidyStep ==
    ASSUME Settling, TInv, FollowInv, Tidy, [Next]_vars
    PROVE  Tidy'
<1> SUFFICES ASSUME NEW s \in Schedules, NEW i \in DOMAIN InitLinks[s], InitLinks[s][i].keep > 0
             PROVE  OnTheWay(InitLinks[s][i].dest, SanitizeName(InitNames[s]),
                             InitLinks[s][i].keep)'
    BY DEF Tidy
<1> DEFINE d == InitLinks[s][i].dest
           p == SanitizeName(InitNames[s])
           keep == InitLinks[s][i].keep
<1>0. d \in Dests /\ keep \in Nat /\ keep > 0 /\ OnTheWay(d, p, keep)
  <2>1. InitLinks[s] \in Seq(Link)
      BY TablesAssumption
  <2>2. InitLinks[s][i] \in Link
      BY <2>1
  <2> QED BY <2>2 DEF Link, Tidy
<1>1. ASSUME NEW r \in Runs, Open(r) \/ CopyDone(r) \/ ListDone(r) \/ PruneDelete(r)
      PROVE  OnTheWay(d, p, keep)'
  <2> HIDE DEF d, p, keep
  <2> QED BY <1>0, <1>1, TidyMoves DEF d, p, keep
<1> HIDE DEF d, p, keep
<1>2. pc \in [Runs -> Stages] /\ IsFiniteSet(DOMAIN store[d]) /\ DOMAIN store = Dests
    BY <1>0 DEF TInv, TypeOK, FollowInv
\* With Settling, nothing else moves a run that stores, lists or prunes.
<1>3. ASSUME Of(d, p)' \subseteq Of(d, p), \A r \in Runs : pc[r] \in {"copy", "list", "prune"} =>
                                               pc'[r] = pc[r] /\ job'[r] = job[r]
      PROVE  OnTheWay(d, p, keep)'
    BY <1>0, <1>2, <1>3, StillOnTheWay
<1>4. ASSUME store' = store PROVE Of(d, p)' = Of(d, p)
    BY <1>4 DEF Of
<1>5. ASSUME NEW r \in Runs, RunStep(r) \/ \E t \in Schedules : Start(r, t),
             ~(Open(r) \/ CopyDone(r) \/ ListDone(r) \/ PruneDelete(r))
      PROVE  OnTheWay(d, p, keep)'
  <2>1. pc[r] \notin {"copy", "list", "prune"}
    <3>1. \A q \in Runs : pc[q] \in Looping => Dials(q) /\ \A f : Deletable(q, f)
      <4>1. \A q \in Runs : pc[q] \in Looping => Kind[Dest(q)] = "webdav"
          BY LinkType DEF Settling
      <4> QED BY <4>1 DEF Dials, Deletable
    <3>2. ~CopyFails(r) /\ ~CopyUnheard(r) /\ ~PruneUnheard(r)
        BY DEF CopyFails, CopyUnheard, PruneUnheard, AnswersLost, Settling
    <3>3. ~ListFails(r)
        BY <3>1 DEF ListFails, AtStage, Looping, Settling
    <3>4. ~PruneStops(r)
        BY <3>1 DEF PruneStops, AtStage, Looping, Settling
    <3>5. CASE \/ \E t \in Schedules : Start(r, t)
               \/ ReadLinks(r) \/ ReadSchedule(r) \/ LoadFails(r) \/ EnterMirror(r)
               \/ SyncDone(r) \/ SyncFails(r) \/ Stamp(r) \/ ZipDone(r) \/ ArchiveFails(r)
        BY <3>5 DEF Start, ReadLinks, ReadSchedule, LoadFails, EnterMirror, SyncDone, SyncFails,
                    Stamp, ZipDone, ArchiveFails, AtStage
    <3>6. CASE OpenFails(r) \/ Forget(r) \/ Record(r) \/ Cleanup(r) \/ FinishRun(r)
        BY <3>6 DEF OpenFails, Forget, Record, Cleanup, FinishRun, AtStage
    <3> QED BY <1>5, <3>2, <3>3, <3>4, <3>5, <3>6 DEF RunStep
  <2>2. \A q \in Runs : pc[q] \in {"copy", "list", "prune"} => pc'[q] = pc[q] /\ job'[q] = job[q]
      BY <1>5, <2>1, OthersStay
  <2>3. store' = store
    <3>1. CASE \/ \E t \in Schedules : Start(r, t)
               \/ ReadLinks(r) \/ ReadSchedule(r) \/ LoadFails(r) \/ EnterMirror(r)
               \/ SyncDone(r) \/ SyncFails(r) \/ Stamp(r) \/ ZipDone(r) \/ ArchiveFails(r)
        BY <3>1 DEF Start, ReadLinks, ReadSchedule, LoadFails, EnterMirror, SyncDone, SyncFails,
                    Stamp, ZipDone, ArchiveFails
    <3>2. CASE \/ OpenFails(r) \/ CopyFails(r) \/ ListFails(r) \/ PruneStops(r) \/ Forget(r)
               \/ Record(r) \/ Cleanup(r) \/ FinishRun(r)
        BY <3>2 DEF OpenFails, CopyFails, ListFails, PruneStops, Forget, Record, Cleanup, FinishRun
    <3>3. ~CopyUnheard(r) /\ ~PruneUnheard(r)
        BY DEF CopyUnheard, PruneUnheard, AnswersLost, Settling
    <3> QED BY <1>5, <3>1, <3>2, <3>3 DEF RunStep
  <2> QED BY <1>3, <1>4, <2>2, <2>3
<1>6. CASE Outside
  <2>1. Of(d, p)' \subseteq Of(d, p)
    <3>1. ASSUME NEW e \in Dests, NEW f \in DOMAIN store[e], RemoveBackup(e, f)
          PROVE  Of(d, p)' \subseteq Of(d, p)
      <4>1. DOMAIN store'[d] \subseteq DOMAIN store[d]
          BY <1>0, <1>2, <3>1 DEF RemoveBackup, Unlink
      <4>2. \A g \in DOMAIN store'[d] : g \in DOMAIN store[d]
          BY <4>1
      <4> QED BY <4>2 DEF Of
    <3>2. CASE ~ \E e \in Dests : \E f \in DOMAIN store[e] : RemoveBackup(e, f)
      <4>1. store' = store
          BY <1>6, <3>2 DEF Outside, Expire, Hang, vars, Administrator, RenameSchedule,
                 SetScheduleDestinations, DeleteSchedule, CountLinks, DeleteDestination,
                 RemoveHistory
      <4> QED BY <1>4, <4>1
    <3> QED BY <3>1, <3>2
  <2>2. \A q \in Runs : pc[q] \in {"copy", "list", "prune"} => pc'[q] = pc[q] /\ job'[q] = job[q]
      BY <1>6, OutsideMovesNone
  <2> QED BY <1>3, <2>1, <2>2 DEF d, p, keep
<1>7. ~Crash
    BY DEF Crash, Settling, TInv, TypeOK
<1> QED BY <1>1, <1>5, <1>6, <1>7, WhoMoves DEF d, p, keep

\* However runs overlap, are outrun by each other's prunes, hang or fail before
\* they store, and whatever is removed by hand: when none is under way, no schedule
\* has more archives at a WebDAV destination than it is to keep there.
THEOREM RetentionIsSettled == Settling => (Spec => []RetentionSettles)
<1> SUFFICES ASSUME Settling PROVE Spec => []RetentionSettles
    OBVIOUS
<1>1. Init => FollowInv /\ Tidy
  <2> SUFFICES ASSUME Init PROVE FollowInv /\ Tidy
      OBVIOUS
  <2>1. \A d \in Dests : DOMAIN store[d] = {}
      BY DEF Init
  <2>2. FollowInv
      BY <2>1, FS_EmptySet, TablesAssumption, NoneAssumption
      DEF Init, FollowInv, TablesSame, CountedFree, StoreKnown, Follows, Planned, Named, Archived, Uploading
  <2>3. ASSUME NEW s \in Schedules, NEW i \in DOMAIN InitLinks[s], InitLinks[s][i].keep > 0
        PROVE  OnTheWay(InitLinks[s][i].dest, SanitizeName(InitNames[s]), InitLinks[s][i].keep)
    <3>1. InitLinks[s] \in Seq(Link)
        BY TablesAssumption
    <3>2. InitLinks[s][i] \in Link
        BY <3>1
    <3>3. Of(InitLinks[s][i].dest, SanitizeName(InitNames[s])) = {}
        BY <2>1, <3>2 DEF Of, Link
    <3>4. Cardinality(Of(InitLinks[s][i].dest, SanitizeName(InitNames[s]))) = 0
        BY <3>3, FS_EmptySet
    <3> QED BY <2>3, <3>2, <3>4 DEF OnTheWay, Link
  <2> QED BY <2>2, <2>3 DEF Tidy
<1>2. TInv /\ FollowInv /\ Tidy /\ [Next]_vars => FollowInv' /\ Tidy'
    BY FollowInvStep, TidyStep DEF Settling
<1>3. TInv /\ FollowInv /\ Tidy => RetentionSettles
  <2> SUFFICES ASSUME TInv, FollowInv, Tidy, Active = {},
                      NEW s \in Schedules, NEW i \in DOMAIN links[s], links[s][i].keep > 0
               PROVE  Cardinality({f \in DOMAIN store[links[s][i].dest] : Matches(f, names[s])})
                         <= links[s][i].keep
      BY DEF RetentionSettles
  <2>1. links[s] = InitLinks[s] /\ names[s] = InitNames[s]
      BY DEF FollowInv, TablesSame
  <2> DEFINE d == InitLinks[s][i].dest
  <2>2. d \in Dests
    <3>1. InitLinks[s] \in Seq(Link)
        BY TablesAssumption
    <3>2. InitLinks[s][i] \in Link
        BY <2>1, <3>1
    <3> QED BY <3>2 DEF Link
  <2>3. OnTheWay(d, SanitizeName(InitNames[s]), InitLinks[s][i].keep)
      BY <2>1 DEF Tidy
  <2>4. \A r \in Runs : pc[r] \in {"idle", "done"}
      BY DEF Active
  <2>5. Cardinality(Of(d, SanitizeName(InitNames[s]))) <= InitLinks[s][i].keep
      BY <2>3, <2>4 DEF OnTheWay
  <2>6. \A f \in DOMAIN store[d] :
           Matches(f, InitNames[s]) <=> f.prefix = SanitizeName(InitNames[s])
    <3>1. InitNames[s] \in Known /\ InitNames[s] \in Seq(Int)
        BY TablesAssumption DEF Known
    <3>2. \A f \in DOMAIN store[d] : f \in Files /\ Archive(f)
        BY <2>2 DEF FollowInv, StoreKnown, TInv, TypeOK, FileMap
    <3> QED BY <3>1, <3>2, KnownNames, OwnMatches, MatchesOwnOnly DEF Archive, Settling
  <2>7. {f \in DOMAIN store[d] : Matches(f, InitNames[s])} = Of(d, SanitizeName(InitNames[s]))
      BY <2>6 DEF Of
  <2> QED BY <2>1, <2>5, <2>7
<1> QED BY <1>1, <1>2, <1>3, InitTInv, NextTInv, PTL DEF Spec
=============================================================================
