-------------------------- MODULE MirrorSyncProofs --------------------------
(***************************************************************************)
(* Proofs about MirrorSync: for every tree, every change of the Miniserver *)
(* and every failure, the mirror stays a tree, a copy that passes the      *)
(* quick check is complete and is the Miniserver's file, and no such copy  *)
(* is lost; and a sync that nothing disturbs mirrors what it can get at.   *)
(***************************************************************************)
EXTENDS MirrorSync, SequenceTheorems, TLAPS

USE DEF server, frames, transfer, trouble, Kinds

-----------------------------------------------------------------------------
(* Types. *)

\* The nodes that steps put into the trees are well typed.
LEMMA Nodes ==
    /\ \A k \in Kinds : Thing(k) \in RemoteNode
    /\ \A k \in {"none", "file", "dir"} : Copy(k) \in LocalNode
    /\ \A n \in RemoteNode, t \in Nat : Copied(n, t) \in LocalNode
    /\ \A s \in Nat, t \in Nat : Torn(t) \in LocalNode /\ Mixed(s, t) \in LocalNode
<1> QED BY DEF Thing, Copy, Copied, Torn, Mixed, RemoteNode, LocalNode

\* The initial state is well typed.
LEMMA InitType == Init => TypeOK
<1> SUFFICES ASSUME Init PROVE TypeOK
    OBVIOUS
<1>1. remote \in [Entries -> RemoteNode]
    BY TreeAssumption, SizesAssumption DEF Init, RemoteNode
<1>2. local \in [Entries -> LocalNode] /\ got \in RemoteNode
    BY Nodes DEF Init
<1> QED BY <1>1, <1>2 DEF Init, TypeOK, Dirs, Entry

\* What an edit writes is a well-typed tree.
LEMMA EditType ==
    ASSUME TypeOK, NEW tree \in [Entries -> RemoteNode], Edit(tree)
    PROVE  TypeOK'
<1>1. now' \in Nat /\ edits' \in Nat
    BY TimesAssumption DEF TypeOK, Edit
<1>2. remote' \in [Entries -> RemoteNode] /\ clean' \in BOOLEAN
    BY DEF Edit
<1> QED BY <1>1, <1>2 DEF TypeOK, Edit

LEMMA MiniserverType == TypeOK /\ Miniserver => TypeOK'
<1> SUFFICES ASSUME TypeOK, NEW p \in Entries,
                    \/ \E s \in Sizes : Write(p, s)
                    \/ \E k \in {"dir", "other"} : Make(p, k)
                    \/ Remove(p)
             PROVE  TypeOK'
    BY DEF Miniserver
<1>1. ASSUME NEW s \in Sizes, Write(p, s) PROVE TypeOK'
  <2>1. [kind |-> "file", ver |-> now + Gap, size |-> s] \in RemoteNode
      BY SizesAssumption, TimesAssumption DEF TypeOK, RemoteNode
  <2> QED BY <1>1, <2>1, EditType DEF Write, TypeOK
<1>2. ASSUME NEW k \in {"dir", "other"}, Make(p, k) PROVE TypeOK'
  <2>1. Thing(k) \in RemoteNode
      BY Nodes
  <2> QED BY <1>2, <2>1, EditType DEF Make, TypeOK
<1>3. CASE Remove(p)
  <2>1. RemoveAll(remote, p, Thing("none")) \in [Entries -> RemoteNode]
      BY Nodes DEF RemoveAll, TypeOK
  <2> QED BY <1>3, <2>1, EditType DEF Remove
<1> QED BY <1>1, <1>2, <1>3

\* The directory above a path, and above the one a sync is in.
LEMMA PathHasParent ==
    ASSUME NEW p \in Entries
    PROVE  p \in Seq(STRING) /\ Len(p) \in Nat \ {0} /\ Parent(p) \in Dirs
<1>1. p \in Seq(STRING) /\ p # <<>>
    BY TreeAssumption DEF Root
<1>2. Len(p) \in Nat \ {0}
    BY <1>1
<1>3. Len(p) - 1 \in 0..Len(p) - 1
    BY <1>2
<1> QED BY <1>1, <1>2, <1>3, TreeAssumption DEF Parent

LEMMA AboveIsDir == TypeOK /\ at # Root => at \in Entries /\ Parent(at) \in Dirs
<1> QED BY PathHasParent DEF TypeOK, Dirs

\* What the ways out of a directory or a download set.
LEMMA ReturnType == ASSUME TypeOK, Return PROVE
    /\ pc' = "idle" /\ at' = Root /\ tries' = 0 /\ file' = NoEntry
    /\ stale' \in [Dirs -> SUBSET Entries] /\ todo' \in [Dirs -> SUBSET Entry]
    /\ got' \in RemoteNode /\ lost' \in BOOLEAN /\ expired' \in BOOLEAN
<1> QED BY Nodes DEF Return

LEMMA LeaveDirType ==
    ASSUME TypeOK, LeaveDir, clean' \in BOOLEAN, faults' \in Nat,
           local' \in [Entries -> LocalNode], UNCHANGED server
    PROVE  TypeOK'
<1>1. CASE at = Root
  <2>1. Return
      BY <1>1 DEF LeaveDir
  <2> QED BY <2>1, ReturnType DEF TypeOK, Dirs
<1>2. CASE at # Root
  <2>1. at' \in Dirs /\ pc' = "walk" /\ tries' = 0
      BY <1>2, AboveIsDir DEF LeaveDir
  <2> QED BY <1>2, <2>1 DEF LeaveDir, TypeOK
<1> QED BY <1>1, <1>2

LEMMA DownloadOverType ==
    ASSUME TypeOK, DownloadOver, clean' \in BOOLEAN, faults' \in Nat,
           local' \in [Entries -> LocalNode], UNCHANGED server
    PROVE  TypeOK'
<1> QED BY Nodes DEF DownloadOver, TypeOK

\* A fault, or none, keeps its counter and the mark in their types.
LEMMA TroubleType == TypeOK /\ (Calm \/ Fault) => clean' \in BOOLEAN /\ faults' \in Nat
<1> SUFFICES ASSUME TypeOK, Calm \/ Fault PROVE clean' \in BOOLEAN /\ faults' \in Nat
    BY Zenon
<1>1. faults \in Nat /\ clean \in BOOLEAN
    BY Zenon DEF TypeOK
<1>2. CASE Calm
  <2>1. faults' = faults /\ clean' = clean
      BY <1>2, Zenon DEF Calm
  <2> QED BY <1>1, <2>1, Zenon
<1>3. CASE Fault
  <2>1. faults' \in Nat
      BY <1>1, <1>3 DEF Fault
  <2>2. clean' \in BOOLEAN
      BY <1>3, Zenon DEF Fault
  <2> QED BY <2>1, <2>2, Zenon
<1> QED BY <1>2, <1>3, Zenon

\* The steps that walk the tree.
LEMMA WalkType ==
    ASSUME TypeOK, \/ EnterDir \/ List \/ ListFails
                   \/ (\E e \in todo[at] : Visit(e)) \/ Prune
    PROVE  TypeOK'
<1>1. CASE EnterDir
  <2>1. CASE expired
      BY <1>1, <2>1, ReturnType DEF EnterDir, Calm, TypeOK, Dirs
  <2>2. CASE ~expired /\ at \in Excluded
      BY <1>1, <2>2, LeaveDirType, TroubleType DEF EnterDir, TypeOK
  <2>3. CASE ~expired /\ at \notin Excluded
    <3>1. Children(local, at) \subseteq Entries
        BY DEF Children
    <3> QED BY <1>1, <2>3, <3>1 DEF EnterDir, Calm, TypeOK
  <2> QED BY <2>1, <2>2, <2>3
<1>2. CASE List
  <2>1. {[path |-> p, node |-> remote[p]] : p \in Children(remote, at)} \subseteq Entry
      BY DEF Children, Entry, TypeOK
  <2> QED BY <1>2, <2>1 DEF List, TypeOK
<1>3. CASE ListFails
  <2>1. clean' \in BOOLEAN /\ faults' \in Nat
      BY <1>3, TroubleType DEF ListFails
  <2>2. CASE GivesUp
      BY <1>3, <2>1, <2>2, LeaveDirType DEF ListFails, TypeOK
  <2>3. CASE ~GivesUp
      BY <1>3, <2>1, <2>3 DEF ListFails, TypeOK
  <2> QED BY <2>2, <2>3
<1>4. ASSUME NEW e \in todo[at], Visit(e) PROVE TypeOK'
  <2> USE <1>4 DEF Visit, Calm
  <2>1. e \in Entry
      BY DEF TypeOK
  <2>2. e.path \in Entries /\ e.path \in Dirs
      BY <2>1 DEF Entry, Dirs
  <2>3. CASE e.node.kind = "dir" /\ local[e.path].kind = "file"
      BY <2>3, ReturnType DEF TypeOK, Dirs
  <2>4. CASE e.node.kind = "dir" /\ local[e.path].kind # "file"
    <3>1. local' \in [Entries -> LocalNode]
        BY <2>4, Nodes DEF TypeOK
    <3>2. stale' \in [Dirs -> SUBSET Entries] /\ todo' \in [Dirs -> SUBSET Entry]
        BY <2>4 DEF Visited, TypeOK
    <3> QED BY <2>2, <2>4, <3>1, <3>2 DEF TypeOK
  <2>5. CASE e.node.kind # "dir"
    <3>1. stale' \in [Dirs -> SUBSET Entries] /\ todo' \in [Dirs -> SUBSET Entry]
        BY <2>5 DEF Visited, TypeOK
    <3> QED BY <2>1, <2>5, <3>1 DEF TypeOK
  <2> QED BY <2>3, <2>4, <2>5
<1>5. CASE Prune
  <2>1. CASE stale[at] = {}
      BY <1>5, <2>1, LeaveDirType, TroubleType DEF Prune, TypeOK
  <2>2. CASE stale[at] # {}
    <3>1. PICK p \in stale[at] :
             /\ \/ local' = RemoveAll(local, p, Copy("none")) /\ Calm
                \/ Fault /\ UNCHANGED local
             /\ stale' = [stale EXCEPT ![at] = @ \ {p}]
             /\ pc' = "prune"
             /\ UNCHANGED <<at, todo, transfer, tries, lost, expired>>
        BY <1>5, <2>2 DEF Prune
    <3>2. local' \in [Entries -> LocalNode]
        BY <3>1, Nodes DEF RemoveAll, TypeOK
    <3>3. clean' \in BOOLEAN /\ faults' \in Nat
        BY <3>1, TroubleType
    <3> QED BY <1>5, <3>1, <3>2, <3>3 DEF Prune, TypeOK
  <2> QED BY <2>1, <2>2
<1> QED BY <1>1, <1>2, <1>3, <1>4, <1>5

\* The steps of a download.
LEMMA ArrivesType ==
    ASSUME TypeOK, NEW t \in Nat, pc = "copy"
    PROVE  Arrives(t) \subseteq LocalNode
<1>1. file.path \in Entries /\ remote[file.path] \in RemoteNode /\ got \in RemoteNode
    BY DEF TypeOK, Entry
<1>2. \A s \in Sizes : s \in Nat
    BY SizesAssumption
<1> QED BY <1>1, <1>2, Nodes DEF Arrives

LEMMA DownloadType ==
    ASSUME TypeOK, Get \/ CopyDone \/ CopyCut \/ DownloadFails
    PROVE  TypeOK'
<1>1. CASE Get
  <2>1. file.path \in Entries
      BY <1>1 DEF Get, TypeOK, Entry
  <2>2. local' \in [Entries -> LocalNode] /\ got' \in RemoteNode
      BY <1>1, <2>1, Nodes DEF Get, TypeOK
  <2> QED BY <1>1, <2>2 DEF Get, TypeOK
<1>2. CASE CopyDone
  <2>1. file.node.ver \in Nat
      BY <1>2 DEF CopyDone, TypeOK, Entry, RemoteNode
  <2>2. local' \in [Entries -> LocalNode]
      BY <1>2, <2>1, ArrivesType DEF CopyDone, TypeOK
  <2> QED BY <1>2, <2>2, DownloadOverType, TroubleType DEF CopyDone
<1>3. CASE CopyCut
  <2>1. file.node.ver \in Nat
      BY <1>3 DEF CopyCut, TypeOK, Entry, RemoteNode
  <2>2. local' \in [Entries -> LocalNode]
      BY <1>3, <2>1, Nodes DEF CopyCut, TypeOK
  <2> QED BY <1>3, <2>2, DownloadOverType, TroubleType DEF CopyCut
<1>4. CASE DownloadFails
  <2>1. clean' \in BOOLEAN /\ faults' \in Nat
      BY <1>4, TroubleType DEF DownloadFails
  <2>2. CASE GivesUp
      BY <1>4, <2>1, <2>2, DownloadOverType DEF DownloadFails, TypeOK
  <2>3. CASE ~GivesUp
    <3>1. TryAgain /\ pc \in {"get", "copy"}
        BY <1>4, <2>3 DEF DownloadFails
    <3> QED BY <1>4, <2>1, <3>1, Nodes DEF DownloadFails, TryAgain, TypeOK
  <2> QED BY <2>2, <2>3
<1> QED BY <1>1, <1>2, <1>3, <1>4

LEMMA TypeStep == TypeOK /\ [Next]_vars => TypeOK'
<1> SUFFICES ASSUME TypeOK, [Next]_vars PROVE TypeOK'
    OBVIOUS
<1>1. CASE Mirror
    BY <1>1 DEF Mirror, TypeOK
<1>2. CASE SyncStep
    BY <1>2, WalkType, DownloadType DEF SyncStep
<1>3. CASE Miniserver
    BY <1>3, MiniserverType
<1>4. CASE LoseConnection \/ Expire
    BY <1>4, TroubleType DEF LoseConnection, Expire, TypeOK
<1>5. CASE Crash
    BY <1>5, ReturnType, TroubleType DEF Crash, TypeOK, Dirs
<1>6. CASE UNCHANGED vars
    BY <1>6 DEF vars, TypeOK
<1> QED BY <1>1, <1>2, <1>3, <1>4, <1>5, <1>6 DEF Next

\* Every variable keeps its type.
THEOREM TypeCorrect == Spec => []TypeOK
<1> QED BY InitType, TypeStep, PTL DEF Spec

-----------------------------------------------------------------------------
(* The quick check.  A version seen once, in a listing or at the start of a    *)
(* transfer, is the one the Miniserver has or older by at least Gap.           *)
Seen(p, n) ==
    n.kind = "file" =>
        /\ n.ver <= now
        /\ remote[p].kind = "file" => n = remote[p] \/ n.ver + Gap <= remote[p].ver

RemoteDated == \A p \in Entries :
    remote[p].kind = "file" => remote[p].ver <= now /\ remote[p].size # 0
ListedSeen == \A d \in Dirs : \A e \in todo[d] : Seen(e.path, e.node)
FileSeen == pc \in {"get", "copy"} => file.node.kind = "file" /\ Seen(file.path, file.node)
GotSeen == pc = "copy" =>
    got.kind = "file" /\ Seen(file.path, got) /\ file.node.ver <= got.ver

\* A copy with a length is stamped with the time of the version it holds, or with
\* that of one the Miniserver has replaced.
Stamped(p) ==
    local[p].kind = "file" /\ local[p].size # 0 =>
        /\ local[p].mtime <= now
        /\ remote[p].kind = "file" =>
               \/ local[p].mtime = remote[p].ver
                  /\ (local[p].size = remote[p].size => Right(p))
               \/ local[p].mtime + Gap <= remote[p].ver

QInv == /\ TypeOK /\ RemoteDated /\ ListedSeen /\ FileSeen /\ GotSeen
        /\ \A p \in Entries : Stamped(p)

\* It holds of what the Miniserver has at the start.
LEMMA InitQ == Init => QInv
<1> SUFFICES ASSUME Init PROVE QInv
    OBVIOUS
<1>1. RemoteDated
    BY SizesAssumption DEF Init, RemoteDated
<1>2. ListedSeen /\ FileSeen /\ GotSeen
    BY DEF Init, ListedSeen, FileSeen, GotSeen
<1>3. \A p \in Entries : Stamped(p)
    BY DEF Init, Stamped, Copy
<1> QED BY <1>1, <1>2, <1>3, InitType DEF QInv

\* What an edit may write: no file, or a version of its own time.
Brand(n) == n.kind = "file" => n.ver = now + Gap /\ n.size # 0

\* An edit puts a version of its own time in the place of what was seen.
LEMMA EditQ ==
    ASSUME QInv, NEW tree \in [Entries -> RemoteNode], Edit(tree),
           \A p \in Entries : tree[p] = remote[p] \/ Brand(tree[p])
    PROVE  QInv'
<1> USE TimesAssumption DEF Brand
<1>1. TypeOK /\ TypeOK' /\ remote' = tree /\ now' = now + Gap /\ now \in Nat
    BY EditType DEF QInv, Edit, TypeOK
<1>2. \A p \in Entries : remote[p] \in RemoteNode /\ tree[p] \in RemoteNode
    BY <1>1 DEF TypeOK
<1>3. RemoteDated'
    BY <1>1, <1>2 DEF QInv, RemoteDated, RemoteNode
<1>4. ASSUME NEW p \in Entries, NEW n \in RemoteNode, Seen(p, n) PROVE Seen(p, n)'
    BY <1>1, <1>2, <1>4 DEF Seen, RemoteNode
<1>5. ListedSeen'
    BY <1>1, <1>4 DEF QInv, ListedSeen, TypeOK, Entry, Edit
<1>6. pc \in {"get", "copy"} => file.path \in Entries /\ file.node \in RemoteNode
    BY <1>1 DEF TypeOK, Entry
<1>7. FileSeen'
    BY <1>1, <1>4, <1>6 DEF QInv, FileSeen, Edit
<1>8. GotSeen'
    BY <1>1, <1>4, <1>6 DEF QInv, GotSeen, Edit, TypeOK
<1>9. ASSUME NEW p \in Entries PROVE Stamped(p)'
  <2>1. local[p] \in LocalNode /\ local' = local
      BY <1>1 DEF TypeOK, Edit
  <2>2. Stamped(p)
      BY DEF QInv
  <2> QED BY <1>1, <1>2, <2>1, <2>2 DEF Stamped, Right, LocalNode, RemoteNode
<1> QED BY <1>1, <1>3, <1>5, <1>7, <1>8, <1>9 DEF QInv

LEMMA MiniserverQ == QInv /\ Miniserver => QInv'
<1> SUFFICES ASSUME QInv, NEW p \in Entries,
                    \/ \E s \in Sizes : Write(p, s)
                    \/ \E k \in {"dir", "other"} : Make(p, k)
                    \/ Remove(p)
             PROVE  QInv'
    BY DEF Miniserver
<1>0. remote \in [Entries -> RemoteNode] /\ now \in Nat
    BY DEF QInv, TypeOK
<1>1. ASSUME NEW s \in Sizes, Write(p, s) PROVE QInv'
  <2> DEFINE node == [kind |-> "file", ver |-> now + Gap, size |-> s]
             tree == [remote EXCEPT ![p] = node]
  <2>1. s # 0 /\ tree \in [Entries -> RemoteNode]
      BY <1>0, SizesAssumption, TimesAssumption DEF RemoteNode
  <2>2. \A q \in Entries : tree[q] = remote[q] \/ Brand(tree[q])
      BY <1>0, <2>1 DEF Brand
  <2>3. Edit(tree)
      BY <1>1 DEF Write
  <2> HIDE DEF tree
  <2> QED BY <2>1, <2>2, <2>3, EditQ, Zenon
<1>2. ASSUME NEW k \in {"dir", "other"}, Make(p, k) PROVE QInv'
  <2> DEFINE tree == [remote EXCEPT ![p] = Thing(k)]
  <2>1. tree \in [Entries -> RemoteNode]
      BY <1>0, Nodes
  <2>2. \A q \in Entries : tree[q] = remote[q] \/ Brand(tree[q])
      BY <1>0 DEF Thing, Brand
  <2>3. Edit(tree)
      BY <1>2 DEF Make
  <2> HIDE DEF tree
  <2> QED BY <2>1, <2>2, <2>3, EditQ, Zenon
<1>3. CASE Remove(p)
  <2> DEFINE tree == RemoveAll(remote, p, Thing("none"))
  <2>1. tree \in [Entries -> RemoteNode]
      BY <1>0, Nodes DEF RemoveAll
  <2>2. \A q \in Entries : tree[q] = remote[q] \/ Brand(tree[q])
      BY DEF RemoveAll, Thing, Brand
  <2>3. Edit(tree)
      BY <1>3 DEF Remove
  <2> HIDE DEF tree
  <2> QED BY <2>1, <2>2, <2>3, EditQ, Zenon
<1> QED BY <1>1, <1>2, <1>3

\* The Miniserver's side of it survives what leaves the Miniserver alone.
LEMMA ServerKept ==
    ASSUME QInv, UNCHANGED server
    PROVE  /\ RemoteDated'
           /\ \A p \in Entries, n \in RemoteNode : Seen(p, n) => Seen(p, n)'
<1> QED BY DEF QInv, RemoteDated, Seen

\* What the mirror holds survives what leaves both trees alone.
LEMMA CopiesKept ==
    ASSUME QInv, UNCHANGED <<server, local>>
    PROVE  \A p \in Entries : Stamped(p)'
<1> QED BY DEF QInv, Stamped, Right

\* What was listed is still true where the lists only lose entries.
LEMMA ListsShrink ==
    ASSUME QInv, UNCHANGED server, \A d \in Dirs : todo'[d] \subseteq todo[d]
    PROVE  ListedSeen'
<1>1. \A d \in Dirs : \A e \in todo[d] :
         e.path \in Entries /\ e.node \in RemoteNode /\ Seen(e.path, e.node)
    BY DEF QInv, TypeOK, Entry, ListedSeen
<1> QED BY <1>1, ServerKept DEF ListedSeen

\* A step that leaves both trees alone, downloads nothing and lists nothing.
LEMMA QuietQ ==
    ASSUME QInv, TypeOK', UNCHANGED <<server, local>>, pc' \notin {"get", "copy"},
           \A d \in Dirs : todo'[d] \subseteq todo[d]
    PROVE  QInv'
<1>1. FileSeen' /\ GotSeen'
    BY DEF FileSeen, GotSeen
<1> QED BY <1>1, ServerKept, CopiesKept, ListsShrink DEF QInv

\* Leaving a directory, or the sync, is such a step.
LEMMA LeaveDirQuiet ==
    ASSUME LeaveDir \/ Return
    PROVE  pc' \notin {"get", "copy"} /\ \A d \in Dirs : todo'[d] \subseteq todo[d]
<1> QED BY DEF LeaveDir, Return

\* The steps that walk the tree.
LEMMA WalkQ ==
    ASSUME QInv, \/ EnterDir \/ List \/ ListFails
                 \/ (\E e \in todo[at] : Visit(e)) \/ Prune
    PROVE  QInv'
<1>0. TypeOK /\ TypeOK'
    BY WalkType DEF QInv
<1>1. CASE EnterDir
  <2>1. \/ LeaveDir \/ Return
        \/ pc' = "list" /\ UNCHANGED todo
      BY <1>1 DEF EnterDir
  <2> QED BY <1>0, <1>1, <2>1, QuietQ, LeaveDirQuiet DEF EnterDir
<1>2. CASE List
  <2>1. UNCHANGED <<server, local>> /\ pc' = "walk"
      BY <1>2 DEF List
  <2>2. ASSUME NEW d \in Dirs, NEW e \in todo'[d] PROVE Seen(e.path, e.node)'
    <3>1. CASE e \in todo[d]
        BY <1>0, <2>1, <3>1, ServerKept DEF QInv, ListedSeen, TypeOK, Entry
    <3>2. CASE e \notin todo[d]
      <4>1. PICK p \in Children(remote, at) : e = [path |-> p, node |-> remote[p]]
          BY <1>0, <1>2, <3>2 DEF List, TypeOK
      <4> QED BY <2>1, <4>1 DEF Children, Seen, QInv, RemoteDated
    <3> QED BY <3>1, <3>2
  <2>3. ListedSeen'
      BY <2>2 DEF ListedSeen
  <2>4. FileSeen' /\ GotSeen'
      BY <2>1 DEF FileSeen, GotSeen
  <2> QED BY <1>0, <2>1, <2>3, <2>4, ServerKept, CopiesKept DEF QInv
<1>3. CASE ListFails
  <2>1. \/ LeaveDir
        \/ pc' = "list" /\ UNCHANGED todo
      BY <1>3 DEF ListFails
  <2> QED BY <1>0, <1>3, <2>1, QuietQ, LeaveDirQuiet DEF ListFails
<1>4. ASSUME NEW e \in todo[at], Visit(e) PROVE QInv'
  <2>1. e \in Entry /\ Seen(e.path, e.node) /\ UNCHANGED server /\ at \in Dirs
      BY <1>0, <1>4 DEF QInv, ListedSeen, TypeOK, Visit
  <2>2. \A d \in Dirs : todo'[d] \subseteq todo[d]
      BY <1>0, <1>4 DEF Visit, Visited, Return, TypeOK
  <2>3. CASE e.node.kind = "dir"
    <3>1. pc' \notin {"get", "copy"}
        BY <1>4, <2>3 DEF Visit, Return
    <3>2. ASSUME NEW p \in Entries PROVE Stamped(p)'
      <4>1. local'[p] = local[p] \/ local'[p].kind # "file"
          BY <1>0, <1>4, <2>1, <2>3 DEF Visit, TypeOK, Copy, Entry
      <4> QED BY <2>1, <4>1 DEF QInv, Stamped, Right
    <3>3. FileSeen' /\ GotSeen'
        BY <3>1 DEF FileSeen, GotSeen
    <3> QED BY <1>0, <2>1, <2>2, <3>2, <3>3, ServerKept, ListsShrink DEF QInv
  <2>4. CASE e.node.kind = "file" /\ ~UpToDate(local[e.path], e.node)
    <3>1. file' = e /\ pc' = "get" /\ UNCHANGED local
        BY <1>4, <2>4 DEF Visit
    <3>2. Seen(e.path, e.node)'
        BY <2>1, ServerKept DEF Entry
    <3>3. FileSeen' /\ GotSeen'
        BY <2>4, <3>1, <3>2 DEF FileSeen, GotSeen
    <3> QED BY <1>0, <2>1, <2>2, <3>1, <3>3, ServerKept, CopiesKept, ListsShrink DEF QInv
  <2>5. CASE e.node.kind # "dir" /\ ~(e.node.kind = "file" /\ ~UpToDate(local[e.path], e.node))
    <3>1. UNCHANGED <<local, pc>> /\ pc = "walk"
        BY <1>4, <2>5 DEF Visit
    <3> QED BY <1>0, <2>1, <2>2, <3>1, QuietQ
  <2> QED BY <2>3, <2>4, <2>5
<1>5. CASE Prune
  <2>1. UNCHANGED server /\ pc' \notin {"get", "copy"} /\ \A d \in Dirs : todo'[d] \subseteq todo[d]
      BY <1>5, LeaveDirQuiet DEF Prune
  <2>2. ASSUME NEW p \in Entries PROVE local'[p] = local[p] \/ local'[p].kind # "file"
      BY <1>5 DEF Prune, RemoveAll, Copy
  <2>3. \A p \in Entries : Stamped(p)'
      BY <2>1, <2>2 DEF QInv, Stamped, Right
  <2>4. FileSeen' /\ GotSeen'
      BY <2>1 DEF FileSeen, GotSeen
  <2> QED BY <1>0, <2>1, <2>3, <2>4, ServerKept, ListsShrink DEF QInv
<1> QED BY <1>1, <1>2, <1>3, <1>4, <1>5

\* What a transfer leaves is stamped as it should be: complete, of the version the
\* stamp says, or stamped with the time of one that has been replaced.
LEMMA ArrivesStamped ==
    ASSUME QInv, pc = "copy", UNCHANGED server,
           NEW c \in Arrives(file.node.ver), local' = [local EXCEPT ![file.path] = c]
    PROVE  \A p \in Entries : Stamped(p)'
<1> SUFFICES ASSUME NEW p \in Entries PROVE Stamped(p)'
    OBVIOUS
<1>1. /\ local \in [Entries -> LocalNode] /\ now \in Nat /\ remote[p] \in RemoteNode
      /\ got \in RemoteNode /\ file.node \in RemoteNode
    BY DEF QInv, TypeOK, Entry
<1>2. /\ got.kind = "file" /\ file.node.ver <= got.ver /\ file.node.kind = "file"
      /\ Seen(file.path, got) /\ Seen(file.path, file.node)
    BY DEF QInv, FileSeen, GotSeen
<1>3. CASE p # file.path
    BY <1>1, <1>3 DEF QInv, Stamped, Right
<1>4. CASE p = file.path
  <2>1. c.mtime = file.node.ver /\ file.node.ver <= now
      BY <1>2 DEF Arrives, Copied, Mixed, Torn, Seen
  <2>2. local'[p] = c /\ remote'[p] = remote[p] /\ now' = now
      BY <1>1, <1>4
  <2>3. CASE remote[p] = got
    <3>1. c.whole /\ c.ver = got.ver
        BY <1>4, <2>3 DEF Arrives, Copied
    <3>2. file.node = got \/ file.node.ver + Gap <= got.ver
        BY <1>2, <1>4, <2>3 DEF Seen
    <3> QED BY <2>1, <2>2, <2>3, <3>1, <3>2 DEF Stamped, Right
  <2>4. CASE remote[p] # got
    <3>1. remote[p].kind = "file" => file.node.ver + Gap <= remote[p].ver
        BY <1>1, <1>2, <1>4, <2>4, TimesAssumption DEF Seen, RemoteNode
    <3> QED BY <2>1, <2>2, <3>1 DEF Stamped
  <2> QED BY <2>3, <2>4
<1> QED BY <1>3, <1>4

\* A torn file has no length, whatever its time.
LEMMA TornStamped ==
    ASSUME QInv, pc \in {"get", "copy"}, UNCHANGED server,
           NEW t \in Nat, local' = [local EXCEPT ![file.path] = Torn(t)]
    PROVE  \A p \in Entries : Stamped(p)'
<1>1. file.path \in Entries /\ local \in [Entries -> LocalNode]
    BY DEF QInv, TypeOK, Entry
<1> QED BY <1>1 DEF QInv, Stamped, Right, Torn

\* The steps of a download.
LEMMA DownloadQ ==
    ASSUME QInv, Get \/ CopyDone \/ CopyCut \/ DownloadFails
    PROVE  QInv'
<1>0. TypeOK /\ TypeOK'
    BY DownloadType DEF QInv
<1>1. UNCHANGED server /\ UNCHANGED todo
    BY DEF Get, CopyDone, CopyCut, DownloadFails, DownloadOver, TryAgain
<1>2. RemoteDated' /\ ListedSeen'
    BY <1>1, ServerKept, ListsShrink
<1>3. CASE Get
  <2>1. pc = "get" /\ pc' = "copy" /\ file' = file /\ remote[file.path].kind = "file"
      BY <1>3 DEF Get, Readable
  <2>2. file.path \in Entries /\ file.node \in RemoteNode /\ got' = remote[file.path]
      BY <1>0, <1>3, <2>1 DEF Get, TypeOK, Entry
  <2>3. FileSeen'
      BY <1>1, <2>1, <2>2, ServerKept DEF QInv, FileSeen
  <2>4. GotSeen'
    <3>1. file.node.ver <= remote[file.path].ver
        BY <1>0, <2>1, <2>2, TimesAssumption DEF QInv, FileSeen, Seen, TypeOK, RemoteNode
    <3>2. remote[file.path].ver <= now
        BY <2>1, <2>2 DEF QInv, RemoteDated
    <3> QED BY <1>1, <2>1, <2>2, <3>1, <3>2 DEF GotSeen, Seen
  <2>5. now \in Nat /\ local' = [local EXCEPT ![file.path] = Torn(now)]
      BY <1>0, <1>3 DEF Get, TypeOK
  <2> QED BY <1>0, <1>1, <1>2, <2>1, <2>3, <2>4, <2>5, TornStamped DEF QInv
<1>4. CASE CopyDone
  <2>1. pc' = "walk"
      BY <1>4 DEF CopyDone, DownloadOver
  <2>2. \A p \in Entries : Stamped(p)'
      BY <1>1, <1>4, ArrivesStamped DEF CopyDone
  <2> QED BY <1>0, <1>2, <2>1, <2>2 DEF QInv, FileSeen, GotSeen
<1>5. CASE CopyCut
  <2>1. pc' = "walk" /\ pc = "copy"
      BY <1>5 DEF CopyCut, DownloadOver
  <2>2. file.node.ver \in Nat
      BY <1>0, <2>1 DEF TypeOK, Entry, RemoteNode
  <2>3. \A p \in Entries : Stamped(p)'
      BY <1>1, <1>5, <2>1, <2>2, TornStamped DEF CopyCut
  <2> QED BY <1>0, <1>2, <2>1, <2>3 DEF QInv, FileSeen, GotSeen
<1>6. CASE DownloadFails
  <2>1. UNCHANGED local /\ pc \in {"get", "copy"}
      BY <1>6 DEF DownloadFails
  <2>2. \/ pc' = "walk"
        \/ pc' = "get" /\ file' = file
      BY <1>6 DEF DownloadFails, DownloadOver, TryAgain
  <2>3. file.path \in Entries /\ file.node \in RemoteNode
      BY <1>0, <2>1 DEF TypeOK, Entry
  <2>4. FileSeen' /\ GotSeen'
      BY <1>1, <2>1, <2>2, <2>3, ServerKept DEF QInv, FileSeen, GotSeen
  <2> QED BY <1>0, <1>1, <1>2, <2>1, <2>4, CopiesKept DEF QInv
<1> QED BY <1>3, <1>4, <1>5, <1>6

LEMMA QStep == QInv /\ [Next]_vars => QInv'
<1> SUFFICES ASSUME QInv, [Next]_vars PROVE QInv'
    OBVIOUS
<1>0. TypeOK'
    BY TypeStep DEF QInv
<1>1. CASE Mirror
    BY <1>0, <1>1, QuietQ DEF Mirror
<1>2. CASE SyncStep
    BY <1>2, WalkQ, DownloadQ DEF SyncStep
<1>3. CASE Miniserver
    BY <1>3, MiniserverQ
<1>4. CASE LoseConnection \/ Expire \/ UNCHANGED vars
  <2>1. UNCHANGED <<server, local, pc, todo, file, got>>
      BY <1>4 DEF LoseConnection, Expire, vars
  <2> QED BY <1>0, <2>1 DEF QInv, RemoteDated, ListedSeen, FileSeen, GotSeen, Stamped, Seen, Right
<1>5. CASE Crash
    BY <1>0, <1>5, QuietQ, LeaveDirQuiet DEF Crash
<1> QED BY <1>1, <1>2, <1>3, <1>4, <1>5 DEF Next

\* A copy of the length and time the Miniserver lists is complete and is its file.
LEMMA QSound == QInv => QuickCheckSound
<1> SUFFICES ASSUME QInv, NEW p \in Entries,
                    remote[p].kind = "file", UpToDate(local[p], remote[p])
             PROVE  Right(p)
    BY DEF QuickCheckSound
<1>1. local[p] \in LocalNode /\ remote[p] \in RemoteNode
    BY DEF QInv, TypeOK
<1>2. local[p].kind = "file" /\ local[p].size # 0 /\ local[p].size = remote[p].size
    BY DEF QInv, RemoteDated, UpToDate
<1>3. ~(local[p].mtime + Gap <= remote[p].ver)
    BY <1>1, TimesAssumption DEF UpToDate, Distance, LocalNode, RemoteNode
<1> QED BY <1>2, <1>3 DEF QInv, Stamped

\* The quick check by length and time takes no torn, mixed or replaced copy for the
\* Miniserver's file, whatever was interrupted or changed (fileUpToDate).
THEOREM CopiesSound == Spec => []QuickCheckSound
<1> QED BY InitQ, QStep, QSound, PTL DEF Spec
-----------------------------------------------------------------------------
(* The tree.  Nothing hangs below what is not a directory because a sync       *)
(* works only in directories it has made or found, and prunes whole subtrees.  *)

\* What lies above a path is shorter by one name, and agrees with it up to there.
LEMMA ParentIsAbove ==
    ASSUME NEW p \in Entries
    PROVE  /\ p \in Seq(STRING) /\ Len(p) \in Nat \ {0}
           /\ Len(Parent(p)) = Len(p) - 1
           /\ \A n \in 0..Len(p) - 1 : SubSeq(Parent(p), 1, n) = SubSeq(p, 1, n)
<1>1. p \in Seq(STRING)
    BY PathHasParent
<1>2. Len(p) \in Nat \ {0}
    BY PathHasParent
<1>3. Len(Parent(p)) = Len(p) - 1
  <2>1. \A i \in 1..Len(p) - 1 : p[i] \in STRING
      BY <1>1, <1>2
  <2>2. 1 \in Int /\ Len(p) - 1 \in Int
      BY <1>2
  <2>3. Len(SubSeq(p, 1, Len(p) - 1)) = IF 1 <= Len(p) - 1 THEN (Len(p) - 1) - 1 + 1 ELSE 0
      BY <2>1, <2>2, SubSeqProperties
  <2> QED BY <1>2, <2>3 DEF Parent
<1>4. ASSUME NEW n \in 0..Len(p) - 1 PROVE SubSeq(Parent(p), 1, n) = SubSeq(p, 1, n)
  <2>1. CASE n = 0
      BY <2>1, SubSeqEmpty
  <2>2. CASE n # 0
    <3>1. n \in 1..Len(p) - 1 /\ Len(p) - 1 \in 1..Len(p)
        BY <1>2, <2>2
    <3> QED BY <1>1, <1>2, <3>1, SubSeqOfSubSeq, SMTT(30) DEF Parent
  <2> QED BY <2>1, <2>2
<1> QED BY <1>1, <1>2, <1>3, <1>4

\* A path is never above itself, and what is beneath a path has beneath it all that
\* it holds.
LEMMA BeneathParent ==
    ASSUME NEW p \in Entries
    PROVE  /\ ~Under(Parent(p), p)
           /\ \A q \in Entries : Under(Parent(q), p) => Under(q, p)
<1>1. ~Under(Parent(p), p)
    BY ParentIsAbove DEF Under
<1>2. ASSUME NEW q \in Entries, Under(Parent(q), p) PROVE Under(q, p)
  <2>1. Len(p) \in 0..Len(q) - 1
      BY <1>2, ParentIsAbove DEF Under
  <2>2. SubSeq(Parent(q), 1, Len(p)) = SubSeq(q, 1, Len(p))
      BY <2>1, ParentIsAbove
  <2> QED BY <1>2, <2>1, <2>2, ParentIsAbove DEF Under
<1> QED BY <1>1, <1>2

\* What is in the mirror is in a directory, and so is the sync; a frame and the download
\* under way are the directory's own.
LocalIsTree == \A p \in Entries : local[p].kind # "none" => IsDir(local, Parent(p))
FramesOwn == \A d \in Dirs : /\ \A p \in stale[d] : Parent(p) = d
                            /\ \A e \in todo[d] : Parent(e.path) = d
FileOwn == pc \in {"get", "copy"} => Parent(file.path) = at
FileThere == pc = "copy" => local[file.path].kind = "file"
TreeInv == TypeOK /\ LocalIsTree /\ IsDir(local, at) /\ FramesOwn /\ FileOwn /\ FileThere

LEMMA InitTree == Init => TreeInv
<1> SUFFICES ASSUME Init PROVE TreeInv
    OBVIOUS
<1>1. LocalIsTree /\ IsDir(local, at)
    BY DEF Init, LocalIsTree, IsDir, Copy
<1> QED BY <1>1, InitType DEF Init, TreeInv, FramesOwn, FileOwn, FileThere

\* A directory may be made where its parent is one.
LEMMA MkdirKeepsTree ==
    ASSUME TreeInv, NEW p \in Entries, Parent(p) = at, local[p].kind # "file",
           local' = [local EXCEPT ![p] = Copy("dir")]
    PROVE  LocalIsTree' /\ local'[p].kind = "dir"
<1>1. local \in [Entries -> LocalNode]
    BY DEF TreeInv, TypeOK
<1> QED BY <1>1 DEF TreeInv, LocalIsTree, IsDir, Copy

\* A file may be put where its parent is a directory, but not over one.
LEMMA PutKeepsTree ==
    ASSUME TreeInv, NEW p \in Entries, Parent(p) = at, local[p].kind # "dir",
           NEW c, c.kind = "file", local' = [local EXCEPT ![p] = c]
    PROVE  LocalIsTree' /\ IsDir(local, at)' = IsDir(local', at') /\ local'[p].kind = "file"
<1> QED BY DEF TreeInv, TypeOK, LocalIsTree, IsDir

\* Removing a path with all beneath it leaves a tree, and the directory it was in.
LEMMA RemoveKeepsTree ==
    ASSUME TreeInv, NEW p \in Entries, local' = RemoveAll(local, p, Copy("none"))
    PROVE  LocalIsTree' /\ IsDir(local', Parent(p)) = IsDir(local, Parent(p))
<1>1. local \in [Entries -> LocalNode]
    BY DEF TreeInv, TypeOK
<1>2. ASSUME NEW q \in Entries, local'[q].kind # "none" PROVE IsDir(local', Parent(q))
  <2>1. ~Under(q, p) /\ local'[q] = local[q]
      BY <1>2 DEF RemoveAll, Copy
  <2>2. IsDir(local, Parent(q)) /\ ~Under(Parent(q), p)
      BY <1>2, <2>1, BeneathParent DEF TreeInv, LocalIsTree
  <2>3. Parent(q) # Root => local'[Parent(q)] = local[Parent(q)]
      BY <2>2, PathHasParent DEF RemoveAll, Dirs
  <2> QED BY <2>2, <2>3 DEF IsDir
<1>3. Parent(p) # Root => local'[Parent(p)] = local[Parent(p)]
    BY BeneathParent, PathHasParent DEF RemoveAll, Dirs
<1> QED BY <1>2, <1>3 DEF LocalIsTree, IsDir

\* Leaving a directory that is one leads to one.
LEMMA LeaveDirTree ==
    ASSUME TreeInv, TypeOK', UNCHANGED local, LeaveDir \/ Return
    PROVE  TreeInv'
<1>1. CASE Return
    BY <1>1 DEF Return, TreeInv, LocalIsTree, IsDir, FramesOwn, FileOwn, FileThere
<1>2. CASE LeaveDir /\ at # Root
  <2>1. at' = Parent(at) /\ pc' = "walk" /\ UNCHANGED frames
      BY <1>2 DEF LeaveDir
  <2>2. IsDir(local, Parent(at))
      BY <1>2, AboveIsDir DEF TreeInv, LocalIsTree, IsDir
  <2> QED BY <2>1, <2>2 DEF TreeInv, LocalIsTree, IsDir, FramesOwn, FileOwn, FileThere
<1> QED BY <1>1, <1>2 DEF LeaveDir

\* The steps that walk the tree.
LEMMA WalkTree ==
    ASSUME TreeInv, \/ EnterDir \/ List \/ ListFails
                    \/ (\E e \in todo[at] : Visit(e)) \/ Prune
    PROVE  TreeInv'
<1>0. TypeOK /\ TypeOK' /\ at \in Dirs
    BY WalkType DEF TreeInv, TypeOK
<1>1. CASE EnterDir
  <2>1. CASE expired \/ at \in Excluded
      BY <1>0, <1>1, <2>1, LeaveDirTree DEF EnterDir
  <2>2. CASE ~expired /\ at \notin Excluded
    <3>1. FramesOwn'
        BY <1>0, <1>1, <2>2 DEF EnterDir, TreeInv, FramesOwn, Children, TypeOK
    <3> QED BY <1>0, <1>1, <2>2, <3>1 DEF EnterDir, TreeInv, LocalIsTree, IsDir, FileOwn, FileThere
  <2> QED BY <2>1, <2>2
<1>2. CASE List
  <2>1. FramesOwn'
      BY <1>0, <1>2 DEF List, TreeInv, FramesOwn, Children, TypeOK
  <2> QED BY <1>0, <1>2, <2>1 DEF List, TreeInv, LocalIsTree, IsDir, FileOwn, FileThere
<1>3. CASE ListFails
  <2>1. CASE GivesUp
      BY <1>0, <1>3, <2>1, LeaveDirTree DEF ListFails
  <2>2. CASE ~GivesUp
      BY <1>0, <1>3, <2>2 DEF ListFails, TreeInv, LocalIsTree, IsDir, FramesOwn, FileOwn, FileThere
  <2> QED BY <2>1, <2>2
<1>4. ASSUME NEW e \in todo[at], Visit(e) PROVE TreeInv'
  <2>1. e \in Entry /\ e.path \in Entries /\ Parent(e.path) = at
      BY <1>0 DEF TreeInv, FramesOwn, TypeOK, Entry
  <2>2. Visited(e) => FramesOwn'
      BY <1>0 DEF TreeInv, FramesOwn, Visited, TypeOK
  <2>3. CASE e.node.kind = "dir" /\ local[e.path].kind = "file"
      BY <1>0, <1>4, <2>3, LeaveDirTree DEF Visit
  <2>4. CASE e.node.kind = "dir" /\ local[e.path].kind # "file"
    <3>1. local' = [local EXCEPT ![e.path] = Copy("dir")] /\ pc' = "enter" /\ at' = e.path
        BY <1>4, <2>4 DEF Visit
    <3>2. LocalIsTree' /\ local'[e.path].kind = "dir"
        BY <2>1, <2>4, <3>1, MkdirKeepsTree
    <3>3. FramesOwn'
        BY <1>4, <2>2, <2>4 DEF Visit
    <3> QED BY <1>0, <3>1, <3>2, <3>3 DEF TreeInv, IsDir, FileOwn, FileThere
  <2>5. CASE e.node.kind # "dir"
    <3>1. UNCHANGED <<local, at>> /\ Visited(e)
        BY <1>4, <2>5 DEF Visit
    <3>2. FileOwn' /\ FileThere'
        BY <1>4, <2>1, <2>5 DEF Visit, FileOwn, FileThere
    <3> QED BY <1>0, <2>2, <3>1, <3>2 DEF TreeInv, LocalIsTree, IsDir
  <2> QED BY <2>3, <2>4, <2>5
<1>5. CASE Prune
  <2>1. CASE stale[at] = {}
      BY <1>0, <1>5, <2>1, LeaveDirTree DEF Prune
  <2>2. CASE stale[at] # {}
    <3>1. PICK p \in stale[at] :
             /\ \/ local' = RemoveAll(local, p, Copy("none")) /\ Calm
                \/ Fault /\ UNCHANGED local
             /\ stale' = [stale EXCEPT ![at] = @ \ {p}]
             /\ pc' = "prune"
             /\ UNCHANGED <<at, todo, transfer, tries, lost, expired>>
        BY <1>5, <2>2 DEF Prune
    <3>2. p \in Entries /\ Parent(p) = at
        BY <1>0, <3>1 DEF TreeInv, FramesOwn, TypeOK
    <3>3. LocalIsTree' /\ IsDir(local', at)
        BY <3>1, <3>2, RemoveKeepsTree DEF TreeInv, LocalIsTree, IsDir
    <3>4. FramesOwn'
        BY <1>0, <3>1 DEF TreeInv, FramesOwn, TypeOK
    <3> QED BY <1>0, <3>1, <3>3, <3>4 DEF TreeInv, IsDir, FileOwn, FileThere
  <2> QED BY <2>1, <2>2
<1> QED BY <1>1, <1>2, <1>3, <1>4, <1>5

\* The steps of a download.
LEMMA DownloadTree ==
    ASSUME TreeInv, Get \/ CopyDone \/ CopyCut \/ DownloadFails
    PROVE  TreeInv'
<1>0. TypeOK /\ TypeOK' /\ UNCHANGED <<at, frames>>
    BY DownloadType DEF TreeInv, Get, CopyDone, CopyCut, DownloadFails, DownloadOver, TryAgain
<1>1. pc \in {"get", "copy"} /\ file.path \in Entries /\ Parent(file.path) = at
    BY <1>0 DEF TreeInv, FileOwn, TypeOK, Entry, Get, CopyDone, CopyCut, DownloadFails
<1>2. FramesOwn'
    BY <1>0 DEF TreeInv, FramesOwn
<1>3. ASSUME NEW c, c.kind = "file", local[file.path].kind # "dir",
             local' = [local EXCEPT ![file.path] = c]
      PROVE  LocalIsTree' /\ IsDir(local, at)' /\ local'[file.path].kind = "file"
  <2>1. LocalIsTree' /\ local'[file.path].kind = "file"
      BY <1>1, <1>3, PutKeepsTree
  <2>2. IsDir(local', at)
      BY <1>0, <1>1, <1>3 DEF TreeInv, IsDir, TypeOK
  <2> QED BY <1>0, <2>1, <2>2
<1>4. CASE Get
  <2>1. Torn(now).kind = "file" /\ pc' = "copy" /\ UNCHANGED file
      BY <1>4 DEF Get, Torn
  <2> QED BY <1>0, <1>1, <1>2, <1>3, <1>4, <2>1 DEF Get, TreeInv, FileOwn, FileThere
<1>5. CASE CopyDone
  <2>1. PICK c \in Arrives(file.node.ver) : local' = [local EXCEPT ![file.path] = c]
      BY <1>5 DEF CopyDone
  <2>2. c.kind = "file" /\ local[file.path].kind # "dir" /\ pc' = "walk"
      BY <1>5 DEF CopyDone, DownloadOver, Arrives, Copied, Mixed, Torn, TreeInv, FileThere
  <2> QED BY <1>0, <1>2, <1>3, <2>1, <2>2 DEF TreeInv, FileOwn, FileThere
<1>6. CASE CopyCut
  <2>1. Torn(file.node.ver).kind = "file" /\ local[file.path].kind # "dir" /\ pc' = "walk"
      BY <1>6 DEF CopyCut, DownloadOver, Torn, TreeInv, FileThere
  <2> QED BY <1>0, <1>2, <1>3, <1>6, <2>1 DEF CopyCut, TreeInv, FileOwn, FileThere
<1>7. CASE DownloadFails
  <2>1. UNCHANGED local
      BY <1>7 DEF DownloadFails
  <2>2. \/ pc' = "walk"
        \/ pc' = "get" /\ file' = file
      BY <1>7 DEF DownloadFails, DownloadOver, TryAgain
  <2> QED BY <1>0, <1>1, <1>2, <2>1, <2>2 DEF TreeInv, LocalIsTree, IsDir, FileOwn, FileThere
<1> QED BY <1>4, <1>5, <1>6, <1>7

LEMMA TreeStep == TreeInv /\ [Next]_vars => TreeInv'
<1> SUFFICES ASSUME TreeInv, [Next]_vars PROVE TreeInv'
    OBVIOUS
<1>0. TypeOK'
    BY TypeStep DEF TreeInv
<1>1. CASE SyncStep
    BY <1>1, WalkTree, DownloadTree DEF SyncStep
<1>2. CASE Crash
    BY <1>0, <1>2, LeaveDirTree DEF Crash
<1>3. CASE Mirror
    BY <1>0, <1>3 DEF Mirror, TreeInv, LocalIsTree, IsDir, FramesOwn, FileOwn, FileThere
<1>4. CASE Miniserver \/ LoseConnection \/ Expire \/ UNCHANGED vars
  <2>1. UNCHANGED <<local, at, frames, pc, file>>
      BY <1>4 DEF Miniserver, Write, Make, Remove, Edit, LoseConnection, Expire, vars
  <2> QED BY <1>0, <2>1 DEF TreeInv, LocalIsTree, IsDir, FramesOwn, FileOwn, FileThere
<1> QED BY <1>1, <1>2, <1>3, <1>4 DEF Next

-----------------------------------------------------------------------------
(* Paths: what is above and beneath what. *)
Beneath(p, d) == Under(p, d) /\ p # d

LEMMA DirIsSeq == \A d \in Dirs : d \in Seq(STRING) /\ Len(d) \in Nat
<1>1. \A p \in Entries : p \in Seq(STRING) /\ Len(p) \in Nat
    BY PathHasParent
<1>2. <<>> \in Seq(STRING) /\ Len(<<>>) \in Nat
    OBVIOUS
<1> QED BY <1>1, <1>2, Zenon DEF Dirs, Root

LEMMA UnderSelf == \A d \in Dirs : Under(d, d)
<1> SUFFICES ASSUME NEW d \in Dirs PROVE SubSeq(d, 1, Len(d)) = d
    BY DirIsSeq DEF Under
<1> QED BY DirIsSeq

LEMMA UnderUnder ==
    ASSUME NEW p \in Dirs, NEW q \in Dirs, NEW r \in Dirs, Under(p, q), Under(q, r)
    PROVE  Under(p, r)
<1>1. /\ p \in Seq(STRING) /\ Len(p) \in Nat /\ Len(q) \in Nat /\ Len(r) \in Nat
      /\ Len(r) <= Len(q) /\ Len(q) <= Len(p)
      /\ SubSeq(p, 1, Len(q)) = q /\ SubSeq(q, 1, Len(r)) = r
    BY DirIsSeq DEF Under
<1>2. SubSeq(p, 1, Len(r)) = r
  <2>1. CASE Len(r) = 0
      BY <1>1, <2>1, SubSeqEmpty
  <2>2. CASE Len(r) # 0
    <3>1. Len(r) \in 1..Len(q) /\ Len(q) \in 1..Len(p)
        BY <1>1, <2>2
    <3>2. SubSeq(SubSeq(p, 1, Len(q)), 1, Len(r)) = SubSeq(p, 1, Len(r))
        BY <1>1, <3>1, SubSeqOfSubSeq, SMTT(30)
    <3> QED BY <1>1, <3>2
  <2> QED BY <2>1, <2>2
<1> QED BY <1>1, <1>2 DEF Under

\* Beneath a directory is what has its parent there, or it for its parent.
LEMMA BeneathUp ==
    ASSUME NEW p \in Entries, NEW d \in Dirs
    PROVE  Beneath(p, d) <=> Under(Parent(p), d)
<1>1. /\ p \in Seq(STRING) /\ Len(p) \in Nat \ {0} /\ Len(Parent(p)) = Len(p) - 1
      /\ \A n \in 0..Len(p) - 1 : SubSeq(Parent(p), 1, n) = SubSeq(p, 1, n)
      /\ Len(d) \in Nat
    BY ParentIsAbove, DirIsSeq
<1>2. ASSUME Beneath(p, d) PROVE Under(Parent(p), d)
  <2>1. Len(d) # Len(p)
    <3>1. SubSeq(p, 1, Len(p)) = p
        BY <1>1
    <3> QED BY <1>2, <3>1 DEF Beneath, Under
  <2>2. Len(d) <= Len(p) /\ SubSeq(p, 1, Len(d)) = d
      BY <1>2, Zenon DEF Beneath, Under
  <2>3. Len(d) \in 0..Len(p) - 1
    <3>1. \A m \in Nat, n \in Nat \ {0} : m <= n /\ m # n => m \in 0..n - 1
        OBVIOUS
    <3> QED BY <1>1, <2>1, <2>2, <3>1, Zenon
  <2> QED BY <1>1, <2>2, <2>3 DEF Under
<1>3. ASSUME Under(Parent(p), d) PROVE Beneath(p, d)
  <2>1. Len(d) \in 0..Len(p) - 1
      BY <1>1, <1>3 DEF Under
  <2> QED BY <1>1, <1>3, <2>1 DEF Beneath, Under
<1> QED BY <1>2, <1>3

LEMMA BeneathRoot == \A p \in Entries : Beneath(p, Root)
<1> SUFFICES ASSUME NEW p \in Entries PROVE Beneath(p, Root)
    OBVIOUS
<1>1. p \in Seq(STRING) /\ Len(p) \in Nat \ {0} /\ SubSeq(p, 1, 0) = <<>>
    BY PathHasParent, SubSeqEmpty
<1>2. Len(Root) = 0
    BY DEF Root
<1> QED BY <1>1, <1>2, TreeAssumption DEF Beneath, Under, Root

\* One name below a directory lies the way to all beneath it.
LEMMA WayDown ==
    ASSUME NEW p \in Entries, NEW d \in Dirs, Beneath(p, d)
    PROVE  \E c \in Entries : Parent(c) = d /\ Under(p, c)
<1>1. /\ p \in Seq(STRING) /\ Len(p) \in Nat \ {0} /\ Len(Parent(p)) = Len(p) - 1
      /\ Len(d) \in Nat /\ SubSeq(p, 1, Len(d)) = d
      /\ p \in Dirs /\ Parent(p) \in Dirs
    BY PathHasParent, ParentIsAbove, DirIsSeq DEF Beneath, Under, Dirs
<1>2. Len(d) <= Len(p) - 1
    BY <1>1, BeneathUp DEF Under
<1>3. CASE Len(d) = Len(p) - 1
  <2>1. Parent(p) = d
      BY <1>1, <1>3 DEF Parent
  <2> QED BY <1>1, <2>1, UnderSelf
<1>4. CASE Len(d) < Len(p) - 1
  <2> DEFINE n == Len(d) + 1
             c == SubSeq(p, 1, n)
  <2>1. n \in 1..Len(p) - 1 /\ n \in 0..Len(p) - 1
      BY <1>1, <1>4
  <2>2. Len(c) = n
      BY <1>1, <2>1
  <2>3. c \in Dirs
      BY <2>1, TreeAssumption
  <2>4. c \in Entries
      BY <2>1, <2>2, <2>3 DEF Dirs, Root
  <2>5. Under(p, c)
      BY <1>1, <2>1, <2>2 DEF Under
  <2>6. SubSeq(c, 1, Len(d)) = SubSeq(p, 1, Len(d))
    <3>1. CASE Len(d) = 0
        BY <3>1, SubSeqEmpty
    <3>2. CASE Len(d) # 0
      <4>1. Len(d) \in 1..n /\ n \in 1..Len(p)
          BY <1>1, <2>1, <3>2
      <4> QED BY <1>1, <4>1, SubSeqOfSubSeq, SMTT(30)
    <3> QED BY <3>1, <3>2
  <2>7. Parent(c) = d
      BY <1>1, <2>2, <2>6 DEF Parent
  <2> QED BY <2>4, <2>5, <2>7
<1> QED BY <1>1, <1>2, <1>3, <1>4

-----------------------------------------------------------------------------
(* Trees.  Whatever is there has only directories above it. *)
HangsTogether(tree) ==
    \A p, q \in Entries : tree[p].kind # "none" /\ Beneath(p, q) => tree[q].kind = "dir"

\* Something may be put where the parent is a directory, but no file over one.
LEMMA PutHangs ==
    ASSUME NEW S, NEW tree \in [Entries -> S], HangsTogether(tree),
           NEW p \in Entries, IsDir(tree, Parent(p)),
           NEW node, node.kind = "dir" \/ tree[p].kind # "dir"
    PROVE  HangsTogether([tree EXCEPT ![p] = node])
<1> DEFINE new == [tree EXCEPT ![p] = node]
<1>1. new[p] = node /\ \A q \in Entries \ {p} : new[q] = tree[q]
    OBVIOUS
<1> HIDE DEF new
<1> SUFFICES ASSUME NEW q \in Entries, NEW r \in Entries, new[q].kind # "none", Beneath(q, r)
             PROVE  new[r].kind = "dir"
    BY DEF HangsTogether, new
<1>2. CASE q = p
  <2>1. r # p /\ r \in Dirs /\ Under(Parent(p), r)
      BY <1>2, BeneathUp DEF Beneath, Dirs
  <2>2. Parent(p) # Root
    <3>1. ~Under(Root, r)
        BY PathHasParent DEF Under, Root
    <3> QED BY <2>1, <3>1
  <2>3. Parent(p) \in Entries /\ tree[Parent(p)].kind = "dir"
      BY <2>2, PathHasParent DEF IsDir, Dirs
  <2>4. tree[r].kind = "dir"
      BY <2>1, <2>3, Zenon DEF HangsTogether, Beneath
  <2> QED BY <1>1, <2>1, <2>4
<1>3. CASE q # p
    BY <1>1, <1>3 DEF HangsTogether
<1> QED BY <1>2, <1>3

\* A path may be removed with all beneath it.
LEMMA RemovalHangs ==
    ASSUME NEW tree, HangsTogether(tree), NEW p \in Entries, NEW nothing, nothing.kind = "none"
    PROVE  HangsTogether(RemoveAll(tree, p, nothing))
<1> DEFINE new == RemoveAll(tree, p, nothing)
<1>1. \A q \in Entries : new[q] = IF Under(q, p) THEN nothing ELSE tree[q]
    BY DEF RemoveAll
<1> HIDE DEF new
<1> SUFFICES ASSUME NEW q \in Entries, NEW r \in Entries, new[q].kind # "none", Beneath(q, r)
             PROVE  new[r].kind = "dir"
    BY DEF HangsTogether, new
<1>2. ~Under(q, p) /\ tree[q].kind # "none"
    BY <1>1
<1>3. tree[r].kind = "dir" /\ ~Under(r, p)
    BY <1>2, UnderUnder DEF HangsTogether, Beneath, Dirs
<1> QED BY <1>1, <1>3

\* The Miniserver's files are a tree.
LEMMA RemoteTreeInit == Init => HangsTogether(remote)
<1> SUFFICES ASSUME Init PROVE HangsTogether(remote)
    OBVIOUS
<1>1. \A p \in Entries : remote[p].kind = InitRemote[p]
    BY DEF Init
<1> QED BY <1>1, TreeAssumption DEF HangsTogether, Beneath

LEMMA RemoteTreeStep == TypeOK /\ HangsTogether(remote) /\ [Next]_vars => HangsTogether(remote')
<1> SUFFICES ASSUME TypeOK, HangsTogether(remote), [Next]_vars PROVE HangsTogether(remote')
    OBVIOUS
<1>0. remote \in [Entries -> RemoteNode]
    BY DEF TypeOK
<1>1. CASE Miniserver
  <2> SUFFICES ASSUME NEW p \in Entries,
                      \/ \E s \in Sizes : Write(p, s)
                      \/ \E k \in {"dir", "other"} : Make(p, k)
                      \/ Remove(p)
               PROVE  HangsTogether(remote')
      BY <1>1 DEF Miniserver
  <2>1. ASSUME NEW s \in Sizes, Write(p, s) PROVE HangsTogether(remote')
    <3>1. /\ remote' = [remote EXCEPT ![p] = [kind |-> "file", ver |-> now + Gap, size |-> s]]
          /\ IsDir(remote, Parent(p)) /\ remote[p].kind # "dir"
        BY <2>1 DEF Write, Edit
    <3> QED BY <1>0, <3>1, PutHangs
  <2>2. ASSUME NEW k \in {"dir", "other"}, Make(p, k) PROVE HangsTogether(remote')
    <3>1. /\ remote' = [remote EXCEPT ![p] = Thing(k)]
          /\ IsDir(remote, Parent(p)) /\ remote[p].kind # "dir"
        BY <2>2 DEF Make, Edit
    <3> QED BY <1>0, <3>1, PutHangs
  <2>3. CASE Remove(p)
    <3>1. remote' = RemoveAll(remote, p, Thing("none")) /\ Thing("none").kind = "none"
        BY <2>3 DEF Remove, Edit, Thing
    <3> QED BY <3>1, RemovalHangs
  <2> QED BY <2>1, <2>2, <2>3
<1>2. CASE ~Miniserver
  <2>1. CASE SyncStep
      BY <2>1 DEF SyncStep, EnterDir, List, ListFails, Visit, Get, CopyDone, CopyCut,
                  DownloadFails, Prune
  <2>2. CASE Mirror \/ LoseConnection \/ Expire \/ Crash \/ UNCHANGED vars
      BY <2>2 DEF Mirror, LoseConnection, Expire, Crash, vars
  <2> QED BY <1>2, <2>1, <2>2 DEF Next
<1> QED BY <1>1, <1>2

-----------------------------------------------------------------------------
(* The walk.  The directories under way are those above the one a sync is in;  *)
(* it comes to each of them once, and to each entry of their listings.         *)
Listed(d) == Under(at, d) /\ (d = at => pc \in {"walk", "get", "copy", "prune"})
Waiting(d) == {e.path : e \in todo[d]}

TodoLive == /\ \A d \in Dirs : todo[d] # {} => Listed(d)
            /\ pc = "prune" => todo[at] = {}
TodoOnce == /\ \A d \in Dirs : \A e, f \in todo[d] : e.path = f.path => e = f
            /\ pc \in {"get", "copy"} => file.path \notin Waiting(at)
WayNotStale == /\ \A d \in Dirs : Beneath(at, d) => \A q \in stale[d] : ~Under(at, q)
               /\ pc \in {"get", "copy"} => file.path \notin stale[at]
WalkInv == TreeInv /\ TodoLive /\ TodoOnce /\ WayNotStale

\* What holds beneath the directory a sync leaves holds beneath the one it goes to.
LEMMA LeaveDirWalk ==
    ASSUME WalkInv, TypeOK', \/ Return
                             \/ LeaveDir /\ todo[at] = {}
    PROVE  TodoLive' /\ TodoOnce' /\ WayNotStale'
<1>1. CASE Return
    BY <1>1 DEF Return, TodoLive, TodoOnce, WayNotStale
<1>2. CASE LeaveDir /\ todo[at] = {} /\ at # Root
  <2>1. at' = Parent(at) /\ pc' = "walk" /\ UNCHANGED frames /\ at \in Entries /\ Parent(at) \in Dirs
      BY <1>2, AboveIsDir DEF LeaveDir, WalkInv, TreeInv
  <2>2. \A d \in Dirs : Beneath(at, d) <=> Under(Parent(at), d)
      BY <2>1, BeneathUp
  <2>3. TodoLive'
      BY <1>2, <2>1, <2>2 DEF WalkInv, TodoLive, Listed, Beneath
  <2>4. \A d \in Dirs : \A q \in stale[d] : q \in Dirs
      BY DEF WalkInv, TreeInv, TypeOK, Dirs
  <2>5. WayNotStale'
      BY <2>1, <2>2, <2>4 DEF WalkInv, WayNotStale, Beneath
  <2> QED BY <2>1, <2>3, <2>5 DEF WalkInv, TodoOnce
<1> QED BY <1>1, <1>2 DEF LeaveDir

LEMMA WalkInvStep == WalkInv /\ [Next]_vars => WalkInv'
<1> SUFFICES ASSUME WalkInv, [Next]_vars PROVE TodoLive' /\ TodoOnce' /\ WayNotStale'
    BY TreeStep DEF WalkInv
<1>0. TypeOK /\ TypeOK' /\ FramesOwn /\ at \in Dirs /\ TodoLive /\ TodoOnce /\ WayNotStale
    BY TypeStep DEF WalkInv, TreeInv, TypeOK
<1>1. CASE EnterDir
  <2>1. pc = "enter" /\ todo[at] = {}
      BY <1>0, <1>1 DEF EnterDir, TodoLive, Listed
  <2>2. CASE expired \/ at \in Excluded
      BY <1>0, <1>1, <2>1, <2>2, LeaveDirWalk DEF EnterDir
  <2>3. CASE ~expired /\ at \notin Excluded
    <3>1. /\ UNCHANGED <<at, todo>> /\ pc' = "list"
          /\ \A d \in Dirs \ {at} : stale'[d] = stale[d]
        BY <1>0, <1>1, <2>3 DEF EnterDir, TypeOK
    <3> QED BY <1>0, <2>1, <3>1 DEF TodoLive, TodoOnce, WayNotStale, Listed, Beneath
  <2> QED BY <2>2, <2>3
<1>2. CASE List
  <2>1. /\ pc = "list" /\ pc' = "walk" /\ UNCHANGED <<at, stale>>
        /\ \A d \in Dirs \ {at} : todo'[d] = todo[d]
        /\ todo'[at] = {[path |-> p, node |-> remote[p]] : p \in Children(remote, at)}
      BY <1>0, <1>2 DEF List, TypeOK
  <2>2. TodoLive'
      BY <1>0, <2>1, UnderSelf DEF TodoLive, Listed
  <2>3. TodoOnce'
      BY <1>0, <2>1 DEF TodoOnce
  <2> QED BY <1>0, <2>1, <2>2, <2>3 DEF WayNotStale
<1>3. CASE ListFails
  <2>1. pc = "list" /\ todo[at] = {}
      BY <1>0, <1>3 DEF ListFails, TodoLive, Listed
  <2>2. CASE GivesUp
      BY <1>0, <1>3, <2>1, <2>2, LeaveDirWalk DEF ListFails
  <2>3. CASE ~GivesUp
      BY <1>0, <1>3, <2>3 DEF ListFails, TodoLive, TodoOnce, WayNotStale, Listed, Waiting
  <2> QED BY <2>2, <2>3
<1>4. ASSUME NEW e \in todo[at], Visit(e) PROVE TodoLive' /\ TodoOnce' /\ WayNotStale'
  <2>1. /\ e \in Entry /\ e.path \in Entries /\ e.path \in Dirs /\ Parent(e.path) = at
        /\ pc = "walk"
      BY <1>0, <1>4 DEF Visit, FramesOwn, TypeOK, Entry, Dirs
  <2>2. CASE e.node.kind = "dir" /\ local[e.path].kind = "file"
      BY <1>0, <1>4, <2>2, LeaveDirWalk DEF Visit
  <2>3. Visited(e) => /\ todo'[at] = todo[at] \ {e} /\ stale'[at] = stale[at] \ {e.path}
                      /\ \A d \in Dirs : todo'[d] \subseteq todo[d] /\ stale'[d] \subseteq stale[d]
      BY <1>0 DEF Visited, TypeOK
  <2>4. CASE e.node.kind = "dir" /\ local[e.path].kind # "file"
    <3>1. Visited(e) /\ pc' = "enter" /\ at' = e.path
        BY <1>4, <2>4 DEF Visit
    <3>2. \A d \in Dirs : Beneath(e.path, d) <=> Under(at, d)
        BY <2>1, BeneathUp
    <3>3. TodoLive'
        BY <1>0, <2>3, <3>1, <3>2 DEF TodoLive, Listed, Beneath
    <3>4. ASSUME NEW d \in Dirs, Beneath(e.path, d), NEW q \in stale'[d], Under(e.path, q)
          PROVE  FALSE
      <4>1. q \in Entries /\ q \in Dirs /\ Parent(q) = d /\ q \in stale[d]
          BY <1>0, <2>3, <3>1, <3>4 DEF FramesOwn, TypeOK, Dirs
      <4>2. q # e.path
          BY <2>1, <2>3, <3>1, <3>4, <4>1
      <4>3. Under(at, q) /\ Under(at, d)
          BY <3>2, <3>4, <4>1, <4>2 DEF Beneath
      <4>4. CASE d = at
          BY <4>1, <4>3, <4>4, BeneathParent
      <4>5. CASE d # at
          BY <1>0, <4>1, <4>3, <4>5 DEF WayNotStale, Beneath
      <4> QED BY <4>4, <4>5
    <3>5. WayNotStale'
        BY <3>1, <3>4 DEF WayNotStale
    <3> QED BY <1>0, <2>3, <3>1, <3>3, <3>5 DEF TodoOnce
  <2>5. CASE e.node.kind # "dir"
    <3>1. Visited(e) /\ at' = at /\ pc' \in {"walk", "get"} /\ (pc' = "get" => file' = e)
        BY <1>4, <2>1, <2>5 DEF Visit
    <3>2. TodoLive'
        BY <1>0, <2>1, <2>3, <3>1 DEF TodoLive, Listed
    <3>3. e.path \notin {f.path : f \in todo'[at]}
        BY <1>0, <2>3, <3>1 DEF TodoOnce
    <3>4. TodoOnce'
        BY <1>0, <2>3, <3>1, <3>3 DEF TodoOnce, Waiting
    <3>5. WayNotStale'
        BY <1>0, <2>3, <3>1 DEF WayNotStale
    <3> QED BY <3>2, <3>4, <3>5
  <2> QED BY <2>2, <2>4, <2>5
<1>5. CASE Prune
  <2>1. todo[at] = {} /\ pc \in {"walk", "prune"}
      BY <1>0, <1>5 DEF Prune, TodoLive
  <2>2. CASE stale[at] = {}
      BY <1>0, <1>5, <2>1, <2>2, LeaveDirWalk DEF Prune
  <2>3. CASE stale[at] # {}
    <3>1. /\ pc' = "prune" /\ UNCHANGED <<at, todo>>
          /\ \A d \in Dirs : stale'[d] \subseteq stale[d]
        BY <1>0, <1>5, <2>3 DEF Prune, TypeOK
    <3> QED BY <1>0, <2>1, <3>1 DEF TodoLive, TodoOnce, WayNotStale, Listed
  <2> QED BY <2>2, <2>3
<1>6. CASE Get \/ CopyDone \/ CopyCut \/ DownloadFails
  <2>1. UNCHANGED <<at, stale, todo>> /\ pc \in {"get", "copy"}
      BY <1>6 DEF Get, CopyDone, CopyCut, DownloadFails, DownloadOver, TryAgain
  <2>2. \/ pc' = "walk"
        \/ pc' \in {"get", "copy"} /\ file' = file
      BY <1>6 DEF Get, CopyDone, CopyCut, DownloadFails, DownloadOver, TryAgain
  <2> QED BY <1>0, <2>1, <2>2 DEF TodoLive, TodoOnce, WayNotStale, Listed, Waiting
<1>7. CASE Mirror
    BY <1>0, <1>7 DEF Mirror, TodoLive, TodoOnce, WayNotStale, Listed
<1>8. CASE Miniserver \/ LoseConnection \/ Expire \/ UNCHANGED vars
  <2>1. UNCHANGED <<at, stale, todo, pc, file>>
      BY <1>8 DEF Miniserver, Write, Make, Remove, Edit, LoseConnection, Expire, vars
  <2> QED BY <1>0, <2>1 DEF TodoLive, TodoOnce, WayNotStale, Listed, Waiting
<1>9. CASE Crash
    BY <1>0, <1>9, LeaveDirWalk DEF Crash
<1> QED BY <1>1, <1>2, <1>3, <1>4, <1>5, <1>6, <1>7, <1>8, <1>9 DEF Next, SyncStep

\* Only listing a directory adds to what is to be visited.
LEMMA OnlyListAdds ==
    ASSUME TypeOK, [Next]_vars, ~List
    PROVE  \A d \in Dirs : todo'[d] \subseteq todo[d]
<1>0. todo \in [Dirs -> SUBSET Entry] /\ at \in Dirs
    BY DEF TypeOK
<1>1. CASE EnterDir \/ ListFails \/ Prune
    BY <1>1, LeaveDirQuiet DEF EnterDir, ListFails, Prune
<1>2. ASSUME NEW e \in todo[at], Visit(e) PROVE \A d \in Dirs : todo'[d] \subseteq todo[d]
    BY <1>0, <1>2, LeaveDirQuiet DEF Visit, Visited
<1>3. CASE Get \/ CopyDone \/ CopyCut \/ DownloadFails
    BY <1>3 DEF Get, CopyDone, CopyCut, DownloadFails, DownloadOver, TryAgain
<1>4. CASE Mirror \/ Miniserver \/ LoseConnection \/ Expire \/ UNCHANGED vars
    BY <1>4 DEF Mirror, Miniserver, Write, Make, Remove, Edit, LoseConnection, Expire, vars
<1>5. CASE Crash
    BY <1>5, LeaveDirQuiet DEF Crash
<1> QED BY <1>1, <1>2, <1>3, <1>4, <1>5 DEF Next, SyncStep

\* Except by listing a directory, nothing becomes stale that was not.
LEMMA StaleBefore ==
    ASSUME WalkInv, [Next]_vars, ~List,
           NEW d \in Dirs, Listed(d)', NEW q \in stale'[d], q \notin Waiting(d)'
    PROVE  Listed(d) /\ q \in stale[d] /\ q \notin Waiting(d)
<1>0. TypeOK /\ FramesOwn /\ at \in Dirs /\ TodoLive
    BY DEF WalkInv, TreeInv, TypeOK
<1>1. ~Return
    BY DEF Return
<1>2. CASE LeaveDir
  <2>1. at' = Parent(at) /\ UNCHANGED frames /\ at \in Entries
      BY <1>0, <1>1, <1>2, AboveIsDir DEF LeaveDir
  <2>2. Beneath(at, d)
      BY <2>1, BeneathUp DEF Listed
  <2> QED BY <2>1, <2>2 DEF Listed, Waiting, Beneath
<1>3. CASE EnterDir /\ ~LeaveDir
  <2>1. at' = at /\ todo' = todo /\ pc' = "list" /\ \A x \in Dirs \ {at} : stale'[x] = stale[x]
      BY <1>0, <1>1, <1>3 DEF EnterDir, TypeOK
  <2> QED BY <2>1 DEF Listed, Waiting
<1>4. CASE ListFails /\ ~LeaveDir
    BY <1>4 DEF ListFails, Listed, Waiting
<1>5. ASSUME NEW e \in todo[at], Visit(e) PROVE Listed(d) /\ q \in stale[d] /\ q \notin Waiting(d)
  <2>1. Visited(e) /\ pc = "walk" /\ e.path \in Entries /\ Parent(e.path) = at
      BY <1>0, <1>1, <1>5 DEF Visit, FramesOwn, TypeOK, Entry
  <2>2. /\ todo'[at] = todo[at] \ {e} /\ stale'[at] = stale[at] \ {e.path}
        /\ \A x \in Dirs \ {at} : todo'[x] = todo[x] /\ stale'[x] = stale[x]
      BY <1>0, <2>1 DEF Visited, TypeOK
  <2>3. q \in stale[d] /\ q \notin Waiting(d)
      BY <2>2 DEF Waiting
  <2>4. CASE at' = at
      BY <2>1, <2>3, <2>4 DEF Listed
  <2>5. CASE at' = e.path /\ pc' = "enter"
    <3>1. Under(at, d)
        BY <2>1, <2>5, BeneathUp DEF Listed, Beneath
    <3> QED BY <2>1, <2>3, <3>1 DEF Listed
  <2> QED BY <1>1, <1>5, <2>4, <2>5 DEF Visit
<1>6. CASE Prune /\ ~LeaveDir
  <2>1. /\ at' = at /\ todo' = todo /\ pc \in {"walk", "prune"}
        /\ \A x \in Dirs : stale'[x] \subseteq stale[x]
      BY <1>0, <1>6 DEF Prune, TypeOK
  <2> QED BY <2>1 DEF Listed, Waiting
<1>7. CASE Get \/ CopyDone \/ CopyCut \/ DownloadFails
  <2>1. UNCHANGED <<at, stale, todo>> /\ pc \in {"get", "copy"}
      BY <1>7 DEF Get, CopyDone, CopyCut, DownloadFails, DownloadOver, TryAgain
  <2> QED BY <2>1 DEF Listed, Waiting
<1>8. CASE Mirror \/ Miniserver \/ LoseConnection \/ Expire \/ UNCHANGED vars
  <2>1. UNCHANGED <<at, stale, todo>> /\ (pc' = pc \/ pc' = "enter")
      BY <1>8 DEF Mirror, Miniserver, Write, Make, Remove, Edit, LoseConnection, Expire, vars
  <2> QED BY <2>1 DEF Listed, Waiting
<1>9. ~Crash
    BY <1>1 DEF Crash
<1> QED BY <1>2, <1>3, <1>4, <1>5, <1>6, <1>7, <1>8, <1>9 DEF Next, SyncStep

-----------------------------------------------------------------------------
(* Copies known to be right.  A listing is never older than a copy it names, a *)
(* download is begun for want of a copy only, and what is to be pruned has     *)
(* nothing beneath it that the Miniserver has.                                 *)
Known(p) == remote[p].kind = "file" /\ UpToDate(local[p], remote[p])
Older(p, n) == local[p].kind = "file" /\ local[p].size # 0 => local[p].mtime <= n.ver

NotNewer == \A d \in Dirs : \A e \in todo[d] : e.node.kind = "file" => Older(e.path, e.node)
Wanted == /\ pc = "get" => /\ Older(file.path, file.node)
                           /\ local[file.path].size # 0 => ~UpToDate(local[file.path], file.node)
          /\ pc = "copy" => local[file.path].size = 0
StaleUnknown == \A d \in Dirs : Listed(d) =>
    \A q \in stale[d], p \in Entries : q \notin Waiting(d) /\ Under(p, q) => ~Known(p)

KeptInv == QInv /\ WalkInv /\ HangsTogether(remote) /\ NotNewer /\ Wanted /\ StaleUnknown

\* What was replaced since the listing, or has no length, is not up to date.
LEMMA DownloadWanted ==
    ASSUME KeptInv, pc \in {"get", "copy"}
    PROVE  file.path \in Entries /\ ~Known(file.path)
<1>1. /\ file.path \in Entries /\ file.node \in RemoteNode
      /\ local[file.path] \in LocalNode /\ remote[file.path] \in RemoteNode
    BY DEF KeptInv, QInv, TypeOK, Entry
<1> SUFFICES ASSUME Known(file.path) PROVE FALSE
    BY <1>1
<1>2. /\ local[file.path].kind = "file" /\ local[file.path].size # 0
      /\ remote[file.path].kind = "file"
    BY <1>1 DEF Known, UpToDate, KeptInv, QInv, RemoteDated
<1>3. pc = "get" /\ ~UpToDate(local[file.path], file.node)
      /\ local[file.path].mtime <= file.node.ver
    BY <1>2 DEF KeptInv, Wanted, Older
<1>4. file.node = remote[file.path] \/ file.node.ver + Gap <= remote[file.path].ver
    BY <1>2, <1>3 DEF KeptInv, QInv, FileSeen, Seen
<1>5. ~(file.node.ver + Gap <= remote[file.path].ver)
    BY <1>1, <1>3, TimesAssumption DEF Known, UpToDate, Distance, LocalNode, RemoteNode
<1> QED BY <1>3, <1>4, <1>5 DEF Known

\* An edit leaves a path alone or puts a version of its own time there.
LEMMA EditBrands ==
    ASSUME TypeOK, Miniserver
    PROVE  /\ \A p \in Entries : remote'[p] = remote[p] \/ Brand(remote'[p])
           /\ clean' = FALSE /\ UNCHANGED <<local, pc, at, frames, transfer>>
<1> SUFFICES ASSUME NEW p \in Entries,
                    \/ \E s \in Sizes : Write(p, s)
                    \/ \E k \in {"dir", "other"} : Make(p, k)
                    \/ Remove(p)
             PROVE  /\ \A q \in Entries : remote'[q] = remote[q] \/ Brand(remote'[q])
                    /\ clean' = FALSE /\ UNCHANGED <<local, pc, at, frames, transfer>>
    BY DEF Miniserver
<1>1. clean' = FALSE /\ UNCHANGED <<local, pc, at, frames, transfer>>
    BY DEF Write, Make, Remove, Edit
<1>2. ASSUME NEW s \in Sizes, Write(p, s)
      PROVE  \A q \in Entries : remote'[q] = remote[q] \/ Brand(remote'[q])
    BY <1>2, SizesAssumption DEF Write, Edit, Brand, TypeOK
<1>3. ASSUME NEW k \in {"dir", "other"}, Make(p, k)
      PROVE  \A q \in Entries : remote'[q] = remote[q] \/ Brand(remote'[q])
    BY <1>3 DEF Make, Edit, Brand, Thing, TypeOK
<1>4. CASE Remove(p)
    BY <1>4 DEF Remove, Edit, RemoveAll, Brand, Thing
<1> QED BY <1>1, <1>2, <1>3, <1>4

\* Only the end of a download makes a copy known to be right.
LEMMA KnownBefore ==
    ASSUME QInv, [Next]_vars, ~CopyDone, NEW p \in Entries, Known(p)'
    PROVE  Known(p)
<1>0. /\ TypeOK /\ TypeOK' /\ local[p] \in LocalNode /\ remote[p] \in RemoteNode
      /\ remote'[p] \in RemoteNode /\ now \in Nat
    BY TypeStep DEF QInv, TypeOK
<1>1. CASE Miniserver
  <2>1. local'[p] = local[p] /\ (remote'[p] = remote[p] \/ Brand(remote'[p]))
      BY <1>0, <1>1, EditBrands
  <2>2. ~Brand(remote'[p])
    <3>1. SUFFICES ASSUME Brand(remote'[p]) PROVE FALSE
        OBVIOUS
    <3>2. remote'[p].ver = now + Gap /\ remote'[p].size # 0
        BY <3>1 DEF Known, Brand
    <3>3. local[p].kind = "file" /\ local[p].size # 0
        BY <2>1, <3>2 DEF Known, UpToDate
    <3>4. local[p].mtime <= now
        BY <3>3 DEF QInv, Stamped
    <3>5. Distance(local[p].mtime, remote'[p].ver) <= Tolerance
        BY <2>1 DEF Known, UpToDate
    <3> QED BY <1>0, <3>2, <3>4, <3>5, TimesAssumption DEF Distance, LocalNode
  <2> QED BY <2>1, <2>2 DEF Known
<1>2. CASE ~Miniserver
  <2>1. remote' = remote
    <3>1. CASE SyncStep
        BY <3>1 DEF SyncStep, EnterDir, List, ListFails, Visit, Get, CopyDone, CopyCut,
                    DownloadFails, Prune
    <3>2. CASE Mirror \/ LoseConnection \/ Expire \/ Crash \/ UNCHANGED vars
        BY <3>2 DEF Mirror, LoseConnection, Expire, Crash, vars
    <3> QED BY <1>2, <3>1, <3>2 DEF Next
  <2>2. local'[p].kind = "file" /\ local'[p].size # 0
      BY <2>1 DEF Known, UpToDate, QInv, RemoteDated
  <2>3. local'[p] = local[p]
    <3>1. CASE EnterDir \/ List \/ ListFails \/ DownloadFails
        BY <3>1 DEF EnterDir, List, ListFails, DownloadFails
    <3>2. ASSUME NEW e \in todo[at], Visit(e) PROVE local'[p] = local[p]
      <4>1. local' = local \/ local' = [local EXCEPT ![e.path] = Copy("dir")]
          BY <3>2 DEF Visit
      <4> QED BY <1>0, <2>2, <4>1 DEF TypeOK, Copy
    <3>3. CASE Get
        BY <1>0, <2>2, <3>3 DEF Get, TypeOK, Torn
    <3>4. CASE CopyCut
        BY <1>0, <2>2, <3>4 DEF CopyCut, TypeOK, Torn
    <3>5. CASE Prune
        BY <2>2, <3>5 DEF Prune, RemoveAll, Copy
    <3>6. CASE Mirror \/ LoseConnection \/ Expire \/ Crash \/ UNCHANGED vars
        BY <3>6 DEF Mirror, LoseConnection, Expire, Crash, vars
    <3> QED BY <1>2, <3>1, <3>2, <3>3, <3>4, <3>5, <3>6 DEF Next, SyncStep
  <2> QED BY <2>1, <2>3 DEF Known
<1> QED BY <1>1, <1>2

\* The file being downloaded is not beneath anything stale.
LEMMA DownloadNotStale ==
    ASSUME WalkInv, pc \in {"get", "copy"}, NEW d \in Dirs, Listed(d), NEW q \in stale[d]
    PROVE  ~Under(file.path, q)
<1>1. /\ file.path \in Entries /\ Parent(file.path) = at /\ q \in Entries /\ q \in Dirs
      /\ Parent(q) = d /\ WayNotStale
    BY DEF WalkInv, TreeInv, TypeOK, Entry, FileOwn, FramesOwn, Dirs
<1> SUFFICES ASSUME Under(file.path, q) PROVE FALSE
    OBVIOUS
<1>2. q # file.path
    BY <1>1 DEF WayNotStale
<1>3. Under(at, q)
    BY <1>1, <1>2, BeneathUp DEF Beneath
<1>4. CASE d = at
    BY <1>1, <1>3, <1>4, BeneathParent
<1>5. CASE d # at
    BY <1>1, <1>3, <1>5 DEF WayNotStale, Listed, Beneath
<1> QED BY <1>4, <1>5

LEMMA StaleUnknownStep ==
    ASSUME KeptInv, [Next]_vars
    PROVE  StaleUnknown'
<1>0. /\ QInv /\ WalkInv /\ TypeOK /\ TypeOK' /\ FramesOwn /\ at \in Dirs
      /\ HangsTogether(remote) /\ StaleUnknown
    BY TypeStep DEF KeptInv, QInv, WalkInv, TreeInv, TypeOK
<1> SUFFICES ASSUME NEW d \in Dirs, Listed(d)', NEW q \in stale'[d], q \notin Waiting(d)',
                    NEW p \in Entries, Under(p, q), Known(p)'
             PROVE  FALSE
    BY DEF StaleUnknown
<1>1. CASE List
  <2>1. /\ pc = "list" /\ UNCHANGED <<at, stale, local, remote>>
        /\ \A x \in Dirs \ {at} : todo'[x] = todo[x]
        /\ todo'[at] = {[path |-> c, node |-> remote[c]] : c \in Children(remote, at)}
      BY <1>0, <1>1 DEF List, TypeOK
  <2>2. CASE d = at
    <3>1. q \in Entries /\ Parent(q) = at
        BY <1>0, <2>1, <2>2 DEF FramesOwn, TypeOK
    <3>2. remote[q].kind = "none"
      <4>1. ASSUME NEW c \in Children(remote, at) PROVE c \in Waiting(d)'
        <5>1. [path |-> c, node |-> remote[c]] \in todo'[d]
            BY <2>1, <2>2
        <5> QED BY <5>1 DEF Waiting
      <4> QED BY <3>1, <4>1 DEF Children
    <3>3. remote[p].kind = "file"
        BY <2>1 DEF Known
    <3> QED BY <1>0, <3>1, <3>2, <3>3 DEF HangsTogether, Beneath
  <2>3. CASE d # at
    <3>1. Listed(d) /\ q \in stale[d] /\ q \notin Waiting(d) /\ Known(p)
        BY <2>1, <2>3 DEF Listed, Waiting, Known
    <3> QED BY <1>0, <3>1 DEF StaleUnknown
  <2> QED BY <2>2, <2>3
<1>2. CASE ~List
  <2>1. Listed(d) /\ q \in stale[d] /\ q \notin Waiting(d)
      BY <1>0, <1>2, StaleBefore
  <2>2. CASE ~CopyDone
      BY <1>0, <2>1, <2>2, KnownBefore DEF StaleUnknown
  <2>3. CASE CopyDone
    <3>1. p # file.path
        BY <1>0, <2>1, <2>3, DownloadNotStale DEF CopyDone
    <3>2. Known(p)
        BY <1>0, <2>3, <3>1 DEF CopyDone, Known, TypeOK
    <3> QED BY <1>0, <2>1, <3>2 DEF StaleUnknown
  <2> QED BY <2>2, <2>3
<1> QED BY <1>1, <1>2

\* A listing names versions as new as the copies it is compared with; a download
\* takes its stamp from it.
LEMMA NotNewerStep ==
    ASSUME KeptInv, [Next]_vars
    PROVE  NotNewer'
<1>0. /\ QInv /\ WalkInv /\ TypeOK /\ FramesOwn /\ at \in Dirs /\ TodoOnce
      /\ NotNewer /\ \A d \in Dirs : \A e \in todo[d] : e.path \in Entries
      /\ local \in [Entries -> LocalNode]
    BY DEF KeptInv, QInv, WalkInv, TreeInv, TypeOK, Entry
<1> SUFFICES ASSUME NEW d \in Dirs, NEW e \in todo'[d], e.node.kind = "file"
             PROVE  Older(e.path, e.node)'
    BY DEF NotNewer
<1>1. CASE List
  <2>1. CASE e \in todo[d]
      BY <1>0, <1>1, <2>1 DEF List, NotNewer, Older
  <2>2. CASE e \notin todo[d]
    <3>1. PICK c \in Children(remote, at) : e = [path |-> c, node |-> remote[c]]
        BY <1>0, <1>1, <2>2 DEF List, TypeOK
    <3>2. c \in Entries /\ remote[c].kind = "file" /\ remote[c] \in RemoteNode /\ local[c] \in LocalNode
        BY <1>0, <3>1 DEF Children, TypeOK
    <3>3. Older(c, remote[c])
        BY <1>0, <3>2, TimesAssumption DEF QInv, Stamped, Older, LocalNode, RemoteNode
    <3> QED BY <1>1, <3>1, <3>3 DEF List, Older
  <2> QED BY <2>1, <2>2
<1>2. CASE ~List
  <2>1. e \in todo[d]
      BY <1>0, <1>2, OnlyListAdds
  <2>2. Older(e.path, e.node) /\ e.path \in Entries
      BY <1>0, <2>1 DEF NotNewer
  <2>3. \/ local'[e.path] = local[e.path]
        \/ local'[e.path].kind # "file" \/ local'[e.path].size = 0
    <3>1. CASE EnterDir \/ ListFails \/ DownloadFails
        BY <3>1 DEF EnterDir, ListFails, DownloadFails
    <3>2. ASSUME NEW x \in todo[at], Visit(x)
          PROVE  local'[e.path] = local[e.path] \/ local'[e.path].kind # "file"
      <4>1. local' = local \/ local' = [local EXCEPT ![x.path] = Copy("dir")]
          BY <3>2 DEF Visit
      <4> QED BY <1>0, <2>2, <4>1 DEF Copy
    <3>3. CASE Get \/ CopyCut
        BY <1>0, <2>2, <3>3 DEF Get, CopyCut, Torn
    <3>4. CASE CopyDone
      <4>1. e.path # file.path
        <5>1. Parent(file.path) = at /\ Parent(e.path) = d
            BY <1>0, <2>1, <3>4 DEF CopyDone, WalkInv, TreeInv, FileOwn, FramesOwn
        <5> QED BY <1>0, <2>1, <3>4, <5>1 DEF CopyDone, TodoOnce, Waiting
      <4> QED BY <1>0, <2>2, <3>4, <4>1 DEF CopyDone
    <3>5. CASE Prune
        BY <2>2, <3>5 DEF Prune, RemoveAll, Copy
    <3>6. CASE Mirror \/ LoseConnection \/ Expire \/ Crash \/ UNCHANGED vars
        BY <3>6 DEF Mirror, LoseConnection, Expire, Crash, vars
    <3>7. CASE Miniserver
        BY <1>0, <3>7, EditBrands
    <3> QED BY <1>2, <3>1, <3>2, <3>3, <3>4, <3>5, <3>6, <3>7 DEF Next, SyncStep
  <2> QED BY <2>2, <2>3 DEF Older
<1> QED BY <1>1, <1>2

LEMMA WantedStep ==
    ASSUME KeptInv, [Next]_vars
    PROVE  Wanted'
<1>0. TypeOK /\ WalkInv /\ NotNewer /\ Wanted /\ at \in Dirs /\ local \in [Entries -> LocalNode]
    BY DEF KeptInv, QInv, TypeOK
<1>1. ASSUME NEW e \in todo[at], Visit(e) PROVE Wanted'
  <2>1. \/ pc' \notin {"get", "copy"}
        \/ pc' = "get" /\ file' = e /\ local' = local /\ e.node.kind = "file"
           /\ ~UpToDate(local[e.path], e.node)
      BY <1>1 DEF Visit, Return
  <2> QED BY <1>0, <2>1 DEF Wanted, NotNewer, Older
<1>2. CASE Get
  <2>1. file.path \in Entries
      BY <1>0, <1>2 DEF Get, TypeOK, Entry
  <2> QED BY <1>0, <1>2, <2>1 DEF Get, Wanted, Torn
<1>3. CASE DownloadFails
  <2>1. /\ local' = local /\ pc \in {"get", "copy"}
        /\ \/ pc' = "walk"
           \/ pc' = "get" /\ file' = file
      BY <1>3 DEF DownloadFails, DownloadOver, TryAgain
  <2> QED BY <1>0, <2>1 DEF Wanted, Older
<1>4. CASE EnterDir \/ List \/ ListFails \/ CopyDone \/ CopyCut \/ Prune \/ Mirror \/ Crash
  <2>1. pc' \notin {"get", "copy"}
      BY <1>4 DEF EnterDir, List, ListFails, CopyDone, CopyCut, Prune, Mirror, Crash,
                  DownloadOver, LeaveDir, Return
  <2> QED BY <2>1 DEF Wanted
<1>5. CASE Miniserver \/ LoseConnection \/ Expire \/ UNCHANGED vars
  <2>1. UNCHANGED <<local, pc, file>>
      BY <1>5 DEF Miniserver, Write, Make, Remove, Edit, LoseConnection, Expire, vars
  <2> QED BY <1>0, <2>1 DEF Wanted, Older
<1> QED BY <1>1, <1>2, <1>3, <1>4, <1>5 DEF Next, SyncStep

LEMMA KeptStep == KeptInv /\ [Next]_vars => KeptInv'
<1> SUFFICES ASSUME KeptInv, [Next]_vars PROVE KeptInv'
    OBVIOUS
<1>1. QInv' /\ WalkInv'
    BY QStep, WalkInvStep DEF KeptInv
<1>2. HangsTogether(remote')
    BY RemoteTreeStep DEF KeptInv, QInv
<1> QED BY <1>1, <1>2, NotNewerStep, WantedStep, StaleUnknownStep DEF KeptInv, HangsTogether

LEMMA KeptInit == Init => KeptInv
<1> SUFFICES ASSUME Init PROVE KeptInv
    OBVIOUS
<1>1. WalkInv
    BY InitTree DEF Init, WalkInv, TodoLive, TodoOnce, WayNotStale, Waiting
<1> QED BY <1>1, InitQ, RemoteTreeInit DEF Init, KeptInv, NotNewer, Wanted, StaleUnknown

\* SettledCopyKept, for every tree, edit, fault and retry: a copy that is right and
\* known to be so is touched by no download, no directory made in its place and no
\* removal (downloadFile, mirrorDir).
THEOREM SettledCopiesStay == Spec => SettledCopyKept
<1>1. KeptInv /\ [Next]_vars =>
         [\A p \in Entries :
            /\ remote[p].kind = "file" /\ remote'[p] = remote[p]
            /\ UpToDate(local[p], remote[p]) /\ Right(p)
            => local'[p] = local[p]]_vars
  <2> SUFFICES ASSUME KeptInv, [Next]_vars, NEW p \in Entries, Known(p)
               PROVE  local'[p] = local[p]
      BY DEF Known
  <2>0. /\ TypeOK /\ WalkInv /\ local \in [Entries -> LocalNode] /\ at \in Dirs
        /\ local[p].kind = "file"
      BY DEF KeptInv, QInv, TypeOK, Known, UpToDate
  <2>1. CASE EnterDir \/ List \/ ListFails \/ DownloadFails
      BY <2>1 DEF EnterDir, List, ListFails, DownloadFails
  <2>2. ASSUME NEW e \in todo[at], Visit(e) PROVE local'[p] = local[p]
    <3>1. \/ local' = local
          \/ local[e.path].kind # "file" /\ local' = [local EXCEPT ![e.path] = Copy("dir")]
        BY <2>2 DEF Visit
    <3> QED BY <2>0, <3>1
  <2>3. CASE Get \/ CopyDone \/ CopyCut
    <3>1. p # file.path
        BY <2>3, DownloadWanted DEF Get, CopyDone, CopyCut
    <3> QED BY <2>0, <2>3, <3>1 DEF Get, CopyDone, CopyCut
  <2>4. CASE Prune
    <3>1. Listed(at) /\ Waiting(at) = {}
        BY <2>0, <2>4, UnderSelf DEF Prune, Listed, Waiting, WalkInv, TodoLive
    <3>2. \A q \in stale[at] : ~Under(p, q)
        BY <2>0, <3>1 DEF KeptInv, StaleUnknown
    <3> QED BY <2>0, <2>4, <3>2 DEF Prune, RemoveAll
  <2>5. CASE Mirror \/ LoseConnection \/ Expire \/ Crash \/ UNCHANGED vars
      BY <2>5 DEF Mirror, LoseConnection, Expire, Crash, vars
  <2>6. CASE Miniserver
      BY <2>0, <2>6, EditBrands
  <2> QED BY <2>1, <2>2, <2>3, <2>4, <2>5, <2>6 DEF Next, SyncStep
<1> QED BY <1>1, KeptInit, KeptStep, PTL DEF Spec, SettledCopyKept

-----------------------------------------------------------------------------
(* A clean sync.  What it can get at is the same on both sides already, or     *)
(* still ahead of it.                                                          *)

\* The premise: no path is ever a file at one time and a directory, or something
\* else, at another.
Steady == \A p \in Entries : \A k, l \in (KindsOf[p] \cup {InitRemote[p]}) \ {"none"} : k = l

KindsAt(p) == KindsOf[p] \cup {InitRemote[p], "none"}
OfKind == /\ \A p \in Entries : remote[p].kind \in KindsAt(p) /\ local[p].kind \in KindsAt(p)
          /\ \A d \in Dirs : \A e \in todo[d] : e.node.kind \in KindsAt(e.path)

\* Between syncs nothing is left of the last one.
AtRest == pc = "idle" =>
    at = Root /\ ~lost /\ ~expired /\ \A d \in Dirs : stale[d] = {} /\ todo[d] = {}

\* While a sync is clean what it has read is what there is.
Undisturbed == clean /\ pc # "idle" =>
    /\ ~lost /\ ~expired /\ IsDir(remote, at)
    /\ \A d \in Dirs : \A e \in todo[d] : e.node = remote[e.path]
    /\ pc \in {"get", "copy"} => file.node = remote[file.path]
    /\ pc = "copy" => got = remote[file.path]
    /\ pc = "list" => stale[at] = Children(local, at)
    /\ \A d \in Dirs : Listed(d) =>
          \A q \in stale[d] : q \notin Waiting(d) => remote[q].kind = "none"

Settled(p) == SameAsRemote(p) /\ (remote[p].kind = "file" => UpToDate(local[p], remote[p]))
Ahead(p) == \E d \in Dirs : Listed(d) /\ \E c \in stale[d] \cup Waiting(d) : Under(p, c)
Pending(p) == \/ pc \in {"enter", "list"} /\ Beneath(p, at)
              \/ Ahead(p)
              \/ pc \in {"get", "copy"} /\ p = file.path
Covered == clean => \A p \in Entries : InReach(p) => Settled(p) \/ (pc # "idle" /\ Pending(p))

LocalInv == KeptInv /\ HangsTogether(local) /\ OfKind /\ AtRest
CleanInv == LocalInv /\ Undisturbed /\ Covered

LEMMA OfKindStep ==
    ASSUME KeptInv, OfKind, [Next]_vars
    PROVE  OfKind'
<1>0. /\ TypeOK /\ TreeInv /\ at \in Dirs /\ local \in [Entries -> LocalNode]
      /\ remote \in [Entries -> RemoteNode] /\ \A p \in Entries : "none" \in KindsAt(p)
    BY DEF KeptInv, QInv, WalkInv, TypeOK, KindsAt
<1>1. \A p \in Entries : remote'[p].kind \in KindsAt(p)
  <2>1. CASE Miniserver
    <3> SUFFICES ASSUME NEW q \in Entries,
                        \/ \E s \in Sizes : Write(q, s)
                        \/ \E k \in {"dir", "other"} : Make(q, k)
                        \/ Remove(q)
                 PROVE  \A p \in Entries : remote'[p].kind \in KindsAt(p)
        BY <2>1 DEF Miniserver
    <3>1. ASSUME NEW s \in Sizes, Write(q, s)
          PROVE  \A p \in Entries : remote'[p].kind \in KindsAt(p)
        BY <1>0, <3>1 DEF Write, Edit, OfKind, KindsAt
    <3>2. ASSUME NEW k \in {"dir", "other"}, Make(q, k)
          PROVE  \A p \in Entries : remote'[p].kind \in KindsAt(p)
        BY <1>0, <3>2 DEF Make, Edit, Thing, OfKind, KindsAt
    <3>3. CASE Remove(q)
        BY <1>0, <3>3 DEF Remove, Edit, RemoveAll, Thing, OfKind
    <3> QED BY <3>1, <3>2, <3>3
  <2>2. CASE ~Miniserver
    <3>1. CASE SyncStep
        BY <3>1 DEF SyncStep, EnterDir, List, ListFails, Visit, Get, CopyDone, CopyCut,
                    DownloadFails, Prune, OfKind
    <3>2. CASE Mirror \/ LoseConnection \/ Expire \/ Crash \/ UNCHANGED vars
        BY <3>2 DEF Mirror, LoseConnection, Expire, Crash, vars, OfKind
    <3> QED BY <2>2, <3>1, <3>2 DEF Next
  <2> QED BY <2>1, <2>2
<1>2. \A p \in Entries : local'[p].kind \in KindsAt(p)
  <2>1. CASE EnterDir \/ List \/ ListFails \/ DownloadFails
      BY <2>1 DEF EnterDir, List, ListFails, DownloadFails, OfKind
  <2>2. ASSUME NEW e \in todo[at], Visit(e)
        PROVE  \A p \in Entries : local'[p].kind \in KindsAt(p)
    <3>1. \/ local' = local
          \/ e.node.kind = "dir" /\ local' = [local EXCEPT ![e.path] = Copy("dir")]
        BY <2>2 DEF Visit
    <3> QED BY <1>0, <2>2, <3>1 DEF OfKind, Copy
  <2>3. CASE Get \/ CopyDone \/ CopyCut
    <3>1. /\ file.path \in Entries /\ "file" \in KindsAt(file.path)
          /\ \A p \in Entries \ {file.path} : local'[p] = local[p]
      <4>1. CASE Get
          BY <1>0, <4>1 DEF Get, Readable, OfKind, TypeOK, Entry
      <4>2. CASE CopyDone \/ CopyCut
          BY <1>0, <4>2 DEF CopyDone, CopyCut, TreeInv, FileThere, OfKind, TypeOK, Entry
      <4> QED BY <2>3, <4>1, <4>2
    <3>2. local'[file.path].kind = "file"
        BY <1>0, <2>3, <3>1 DEF Get, CopyDone, CopyCut, Arrives, Copied, Mixed, Torn
    <3> QED BY <3>1, <3>2 DEF OfKind
  <2>4. CASE Prune
      BY <1>0, <2>4 DEF Prune, RemoveAll, Copy, OfKind
  <2>5. CASE Mirror \/ LoseConnection \/ Expire \/ Crash \/ UNCHANGED vars
      BY <2>5 DEF Mirror, LoseConnection, Expire, Crash, vars, OfKind
  <2>6. CASE Miniserver
      BY <1>0, <2>6, EditBrands DEF OfKind
  <2> QED BY <2>1, <2>2, <2>3, <2>4, <2>5, <2>6 DEF Next, SyncStep
<1>3. \A d \in Dirs : \A e \in todo'[d] : e.node.kind \in KindsAt(e.path)
  <2>1. CASE List
    <3>1. /\ \A d \in Dirs \ {at} : todo'[d] = todo[d]
          /\ todo'[at] = {[path |-> p, node |-> remote[p]] : p \in Children(remote, at)}
        BY <1>0, <2>1 DEF List, TypeOK
    <3> QED BY <3>1 DEF OfKind, Children
  <2>2. CASE ~List
      BY <1>0, <2>2, OnlyListAdds DEF OfKind
  <2> QED BY <2>1, <2>2
<1> QED BY <1>1, <1>2, <1>3 DEF OfKind, KindsAt

\* The mirror is a tree, from the top.
LEMMA LocalHangsStep ==
    ASSUME KeptInv, HangsTogether(local), [Next]_vars
    PROVE  HangsTogether(local')
<1>0. /\ TypeOK /\ TreeInv /\ at \in Dirs /\ local \in [Entries -> LocalNode] /\ IsDir(local, at)
    BY DEF KeptInv, QInv, WalkInv, TreeInv, TypeOK
<1>1. CASE UNCHANGED local
    BY <1>1 DEF HangsTogether
<1>2. ASSUME NEW e \in todo[at], Visit(e) PROVE HangsTogether(local')
  <2>1. local' = local \/ local' = [local EXCEPT ![e.path] = Copy("dir")]
      BY <1>2 DEF Visit
  <2>2. e.path \in Entries /\ Parent(e.path) = at /\ Copy("dir").kind = "dir"
      BY <1>0, <1>2 DEF TreeInv, FramesOwn, TypeOK, Entry, Copy
  <2>3. IsDir(local, Parent(e.path))
      BY <1>0, <2>2
  <2>4. HangsTogether([local EXCEPT ![e.path] = Copy("dir")])
      BY <1>0, <2>2, <2>3, PutHangs
  <2> QED BY <1>1, <2>1, <2>4 DEF HangsTogether
<1>3. CASE Get \/ CopyDone \/ CopyCut
  <2>1. file.path \in Entries /\ Parent(file.path) = at
      BY <1>0, <1>3 DEF TreeInv, FileOwn, TypeOK, Entry, Get, CopyDone, CopyCut
  <2>2. PICK c : local' = [local EXCEPT ![file.path] = c]
      BY <1>3 DEF Get, CopyDone, CopyCut
  <2>3. local[file.path].kind # "dir"
      BY <1>0, <1>3 DEF Get, CopyDone, CopyCut, TreeInv, FileThere
  <2>4. IsDir(local, Parent(file.path))
      BY <1>0, <2>1
  <2>5. HangsTogether([local EXCEPT ![file.path] = c])
      BY <1>0, <2>1, <2>3, <2>4, PutHangs
  <2> QED BY <2>2, <2>5 DEF HangsTogether
<1>4. CASE Prune
  <2>1. \/ local' = local
        \/ \E q \in stale[at] : local' = RemoveAll(local, q, Copy("none"))
      BY <1>4 DEF Prune
  <2>2. stale[at] \subseteq Entries /\ Copy("none").kind = "none"
      BY <1>0 DEF TypeOK, Copy
  <2> QED BY <1>1, <2>1, <2>2, RemovalHangs
<1>5. CASE EnterDir \/ List \/ ListFails \/ DownloadFails
    BY <1>1, <1>5 DEF EnterDir, List, ListFails, DownloadFails
<1>6. CASE Mirror \/ LoseConnection \/ Expire \/ Crash \/ UNCHANGED vars
    BY <1>1, <1>6 DEF Mirror, LoseConnection, Expire, Crash, vars
<1>7. CASE Miniserver
    BY <1>0, <1>1, <1>7, EditBrands
<1> QED BY <1>2, <1>3, <1>4, <1>5, <1>6, <1>7 DEF Next, SyncStep

\* A sync comes to rest only by returning.
LEMMA AtRestStep ==
    ASSUME TypeOK, AtRest, [Next]_vars
    PROVE  AtRest'
<1>1. ASSUME Return PROVE AtRest'
    BY <1>1 DEF Return, AtRest
<1>2. ASSUME LeaveDir PROVE AtRest'
    BY <1>1, <1>2 DEF LeaveDir, AtRest
<1>3. CASE EnterDir \/ List \/ ListFails \/ Prune \/ \E e \in todo[at] : Visit(e)
    BY <1>1, <1>2, <1>3 DEF EnterDir, List, ListFails, Prune, Visit, AtRest
<1>4. CASE Get \/ CopyDone \/ CopyCut \/ DownloadFails
    BY <1>4 DEF Get, CopyDone, CopyCut, DownloadFails, DownloadOver, TryAgain, AtRest
<1>5. CASE Mirror \/ LoseConnection \/ Expire \/ Crash \/ UNCHANGED vars
    BY <1>1, <1>5 DEF Mirror, LoseConnection, Expire, Crash, vars, AtRest
<1>6. CASE Miniserver
  <2>1. UNCHANGED <<pc, at, stale, todo, lost, expired>>
      BY <1>6 DEF Miniserver, Write, Make, Remove, Edit
  <2> QED BY <2>1 DEF AtRest
<1> QED BY <1>3, <1>4, <1>5, <1>6 DEF Next, SyncStep

\* A sync that is clean now was so before, and the Miniserver is as it was.
LEMMA CleanBefore ==
    ASSUME [Next]_vars, clean', pc' # "idle", ~Mirror
    PROVE  clean /\ pc # "idle" /\ UNCHANGED <<remote, lost, expired>>
<1>1. ~Return /\ ~Fault
    BY DEF Return, Fault
<1>2. LeaveDir => UNCHANGED <<lost, expired>>
    BY <1>1 DEF LeaveDir
<1>3. CASE EnterDir \/ List \/ ListFails \/ Prune
    BY <1>1, <1>2, <1>3 DEF EnterDir, List, ListFails, Prune, Calm
<1>4. CASE \E e \in todo[at] : Visit(e)
    BY <1>1, <1>4 DEF Visit, Calm
<1>5. CASE Get \/ CopyDone \/ CopyCut \/ DownloadFails
    BY <1>1, <1>5 DEF Get, CopyDone, CopyCut, DownloadFails, DownloadOver, TryAgain, Calm
<1>6. CASE LoseConnection \/ Expire \/ Crash \/ UNCHANGED vars
    BY <1>1, <1>6 DEF LoseConnection, Expire, Crash, vars
<1>7. ~Miniserver
    BY DEF Miniserver, Write, Make, Remove, Edit
<1> QED BY <1>3, <1>4, <1>5, <1>6, <1>7 DEF Next, SyncStep

LEMMA UndisturbedStep ==
    ASSUME LocalInv, Undisturbed, [Next]_vars
    PROVE  Undisturbed'
<1>0. /\ TypeOK /\ WalkInv /\ TreeInv /\ FramesOwn /\ HangsTogether(remote) /\ at \in Dirs
    BY DEF LocalInv, KeptInv, QInv, WalkInv, TreeInv, TypeOK
<1> SUFFICES ASSUME clean', pc' # "idle" PROVE Undisturbed'
    BY DEF Undisturbed
<1>1. CASE Mirror
  <2>1. /\ pc = "idle" /\ pc' = "enter" /\ UNCHANGED <<at, stale, todo, lost, expired>>
      BY <1>1 DEF Mirror
  <2>2. at = Root /\ ~lost /\ ~expired /\ \A d \in Dirs : stale[d] = {} /\ todo[d] = {}
      BY <2>1 DEF LocalInv, AtRest
  <2> QED BY <2>1, <2>2 DEF Undisturbed, IsDir
<1>2. CASE ~Mirror
  <2>1. clean /\ pc # "idle" /\ UNCHANGED <<remote, lost, expired>> /\ ~Return /\ ~Fault
    <3>1. ~Return /\ ~Fault
        BY DEF Return, Fault
    <3> QED BY <1>2, <3>1, CleanBefore
  <2>2. /\ ~lost /\ ~expired /\ IsDir(remote, at)
        /\ \A d \in Dirs : \A e \in todo[d] : e.node = remote[e.path]
        /\ pc \in {"get", "copy"} => file.node = remote[file.path]
        /\ pc = "copy" => got = remote[file.path]
        /\ pc = "list" => stale[at] = Children(local, at)
        /\ \A d \in Dirs : Listed(d) =>
              \A q \in stale[d] : q \notin Waiting(d) => remote[q].kind = "none"
      BY <2>1 DEF Undisturbed
  <2>3. ~CopyCut /\ ~LoseConnection /\ ~Expire /\ ~Crash /\ ~Miniserver
      BY <2>1 DEF CopyCut, LoseConnection, Expire, Crash, Miniserver, Write, Make, Remove, Edit
  <2>4. IsDir(remote, at')
    <3>1. CASE LeaveDir
      <4>1. at' = Parent(at) /\ at \in Entries /\ Parent(at) \in Dirs /\ remote[at].kind = "dir"
          BY <1>0, <2>1, <2>2, <3>1, AboveIsDir DEF LeaveDir, IsDir
      <4>2. Beneath(at, Parent(at))
          BY <4>1, BeneathUp, UnderSelf
      <4> QED BY <1>0, <4>1, <4>2 DEF HangsTogether, IsDir, Dirs
    <3>2. CASE (EnterDir \/ ListFails \/ Prune) /\ ~LeaveDir
        BY <2>1, <2>2, <3>2 DEF EnterDir, ListFails, Prune
    <3>3. ASSUME NEW e \in todo[at], Visit(e) PROVE IsDir(remote, at')
        BY <1>0, <2>1, <2>2, <3>3 DEF Visit, IsDir
    <3>4. CASE List \/ Get \/ CopyDone \/ DownloadFails \/ UNCHANGED vars
        BY <2>2, <3>4 DEF List, Get, CopyDone, DownloadFails, DownloadOver, TryAgain, vars
    <3> QED BY <1>2, <2>3, <3>1, <3>2, <3>3, <3>4 DEF Next, SyncStep
  <2>5. \A d \in Dirs : \A e \in todo'[d] : e.node = remote[e.path]
    <3>1. CASE List
      <4>1. /\ \A d \in Dirs \ {at} : todo'[d] = todo[d]
            /\ todo'[at] = {[path |-> p, node |-> remote[p]] : p \in Children(remote, at)}
          BY <1>0, <3>1 DEF List, TypeOK
      <4> QED BY <2>2, <4>1
    <3>2. CASE ~List
        BY <1>0, <2>2, <3>2, OnlyListAdds
    <3> QED BY <3>1, <3>2
  <2>6. /\ pc' \in {"get", "copy"} => file'.node = remote[file'.path]
        /\ pc' = "copy" => got' = remote[file'.path]
        /\ pc' = "list" => stale'[at'] = Children(local', at')
    <3>1. CASE EnterDir
        BY <1>0, <2>1, <3>1 DEF EnterDir, LeaveDir, TypeOK, Children
    <3>2. CASE List \/ CopyDone \/ Prune
        BY <2>1, <3>2 DEF List, CopyDone, DownloadOver, Prune, LeaveDir
    <3>3. CASE ListFails
        BY <2>1, <2>2, <3>3 DEF ListFails, LeaveDir, Children
    <3>4. ASSUME NEW e \in todo[at], Visit(e)
          PROVE  /\ pc' \in {"get", "copy"} => file'.node = remote[file'.path]
                 /\ pc' = "copy" => got' = remote[file'.path]
                 /\ pc' = "list" => stale'[at'] = Children(local', at')
        BY <1>0, <2>1, <2>2, <3>4 DEF Visit
    <3>5. CASE Get \/ DownloadFails
        BY <2>1, <2>2, <3>5 DEF Get, DownloadFails, DownloadOver, TryAgain
    <3>6. CASE UNCHANGED vars
        BY <2>2, <3>6 DEF vars, Children
    <3> QED BY <1>2, <2>3, <3>1, <3>2, <3>3, <3>4, <3>5, <3>6 DEF Next, SyncStep
  <2>7. ASSUME NEW d \in Dirs, Listed(d)', NEW q \in stale'[d], q \notin Waiting(d)'
        PROVE  remote[q].kind = "none"
    <3>1. CASE List
      <4>1. /\ pc = "list" /\ UNCHANGED <<at, stale>>
            /\ \A x \in Dirs \ {at} : todo'[x] = todo[x]
            /\ todo'[at] = {[path |-> c, node |-> remote[c]] : c \in Children(remote, at)}
          BY <1>0, <3>1 DEF List, TypeOK
      <4>2. CASE d = at
        <5>1. q \in Entries /\ Parent(q) = at
            BY <1>0, <2>7, <4>1, <4>2 DEF FramesOwn, TypeOK
        <5>2. ASSUME NEW c \in Children(remote, at) PROVE c \in Waiting(d)'
          <6>1. [path |-> c, node |-> remote[c]] \in todo'[d]
              BY <4>1, <4>2
          <6> QED BY <6>1 DEF Waiting
        <5> QED BY <2>7, <5>1, <5>2 DEF Children
      <4>3. CASE d # at
          BY <2>2, <2>7, <4>1, <4>3 DEF Listed, Waiting
      <4> QED BY <4>2, <4>3
    <3>2. CASE ~List
        BY <1>0, <2>2, <2>7, <3>2, StaleBefore
    <3> QED BY <3>1, <3>2
  <2> QED BY <2>1, <2>2, <2>4, <2>5, <2>6, <2>7 DEF Undisturbed, IsDir, Children
<1> QED BY <1>1, <1>2

\* The same on both sides: as long as neither changes, and wherever neither has a
\* directory for it to be in.
LEMMA SettledKept ==
    ASSUME NEW p \in Entries, Settled(p), local'[p] = local[p], remote'[p] = remote[p]
    PROVE  Settled(p)'
BY DEF Settled, SameAsRemote, Right, UpToDate

LEMMA BeneathNothing ==
    ASSUME HangsTogether(remote), HangsTogether(local), NEW c \in Entries, NEW p \in Entries,
           Beneath(p, c), remote[c].kind # "dir", local[c].kind # "dir"
    PROVE  Settled(p)
<1>1. remote[p].kind = "none" /\ local[p].kind = "none"
    BY DEF HangsTogether
<1> QED BY <1>1 DEF Settled, SameAsRemote

LEMMA KindsAgree ==
    ASSUME Steady, OfKind, NEW p \in Entries
    PROVE  \/ remote[p].kind = "none" \/ local[p].kind = "none"
           \/ remote[p].kind = local[p].kind
<1>1. remote[p].kind \in KindsAt(p) /\ local[p].kind \in KindsAt(p)
    BY DEF OfKind
<1> QED BY <1>1 DEF KindsAt, Steady

\* A sync that leaves a directory loses sight of what was ahead of it there only.
LEMMA LeaveCovers ==
    ASSUME TypeOK, LeaveDir, UNCHANGED <<remote, local>>, NEW p \in Entries,
           \/ Settled(p)
           \/ \E d \in Dirs : Listed(d) /\ d # at /\ \E c \in stale[d] \cup Waiting(d) : Under(p, c)
    PROVE  Settled(p)' \/ (pc' # "idle" /\ Pending(p)')
<1>1. CASE Settled(p)
    BY <1>1, SettledKept
<1>2. ASSUME NEW d \in Dirs, Listed(d), d # at, NEW c \in stale[d] \cup Waiting(d), Under(p, c)
      PROVE  pc' # "idle" /\ Pending(p)'
  <2>1. Beneath(at, d)
      BY <1>2 DEF Listed, Beneath
  <2>2. at # Root
    <3>1. SUFFICES ASSUME at = Root PROVE FALSE
        OBVIOUS
    <3>2. Len(d) = 0 /\ d \in Seq(STRING)
        BY <2>1, <3>1, DirIsSeq DEF Beneath, Under, Root
    <3> QED BY <2>1, <3>1, <3>2 DEF Beneath, Root
  <2>3. /\ at \in Entries /\ at' = Parent(at) /\ pc' = "walk" /\ stale' = stale /\ todo' = todo
      BY <2>2, AboveIsDir DEF LeaveDir, frames
  <2>4. Under(Parent(at), d)
      BY <2>1, <2>3, BeneathUp
  <2>5. Listed(d)' /\ c \in stale'[d] \cup Waiting(d)'
      BY <1>2, <2>3, <2>4 DEF Listed, Waiting
  <2> QED BY <1>2, <2>3, <2>5 DEF Pending, Ahead
<1> QED BY <1>1, <1>2

\* One step of each kind: what was the same, or ahead, still is.
LEMMA EnterCovers ==
    ASSUME CleanInv, clean', EnterDir, NEW p \in Entries, InReach(p)
    PROVE  Settled(p)' \/ (pc' # "idle" /\ Pending(p)')
<1>0. /\ TypeOK /\ at \in Dirs /\ pc = "enter" /\ clean /\ ~expired
      /\ UNCHANGED <<remote, local>>
      /\ Settled(p) \/ Pending(p)
    BY DEF CleanInv, LocalInv, KeptInv, QInv, TypeOK, EnterDir, Calm, Undisturbed, Covered
<1>1. \A d \in Dirs : Listed(d) => d # at
    BY <1>0 DEF Listed
<1>2. CASE at \in Excluded
  <2>1. ~Beneath(p, at)
      BY <1>2 DEF InReach, Beneath
  <2>2. Settled(p) \/ Ahead(p)
      BY <1>0, <2>1 DEF Pending
  <2> QED BY <1>0, <1>1, <1>2, <2>2, LeaveCovers DEF EnterDir, Ahead
<1>3. CASE at \notin Excluded
  <2>1. /\ pc' = "list" /\ at' = at /\ todo' = todo
        /\ \A d \in Dirs \ {at} : stale'[d] = stale[d]
      BY <1>0, <1>3 DEF EnterDir, TypeOK
  <2>2. CASE Settled(p)
      BY <1>0, <2>2, SettledKept
  <2>3. CASE Beneath(p, at)
      BY <2>1, <2>3 DEF Pending
  <2>4. ASSUME NEW d \in Dirs, Listed(d), NEW c \in stale[d] \cup Waiting(d), Under(p, c)
        PROVE  Ahead(p)'
    <3>1. Listed(d)' /\ c \in stale'[d] \cup Waiting(d)'
        BY <1>1, <2>1, <2>4 DEF Listed, Waiting
    <3> QED BY <2>4, <3>1 DEF Ahead
  <2> QED BY <1>0, <2>1, <2>2, <2>3, <2>4 DEF Pending, Ahead
<1> QED BY <1>2, <1>3

LEMMA ListCovers ==
    ASSUME CleanInv, clean', List, NEW p \in Entries, InReach(p)
    PROVE  Settled(p)' \/ (pc' # "idle" /\ Pending(p)')
<1>0. /\ TypeOK /\ at \in Dirs /\ pc = "list" /\ clean /\ pc' = "walk" /\ at' = at
      /\ UNCHANGED <<remote, local, stale>> /\ stale[at] = Children(local, at)
      /\ HangsTogether(remote) /\ HangsTogether(local)
      /\ Settled(p) \/ Pending(p)
    BY DEF CleanInv, LocalInv, KeptInv, QInv, TypeOK, List, Undisturbed, Covered
<1>1. /\ \A d \in Dirs \ {at} : todo'[d] = todo[d]
      /\ todo'[at] = {[path |-> c, node |-> remote[c]] : c \in Children(remote, at)}
    BY <1>0 DEF List, TypeOK
<1>2. CASE Settled(p)
    BY <1>0, <1>2, SettledKept
<1>3. CASE Beneath(p, at)
  <2>1. PICK c \in Entries : Parent(c) = at /\ Under(p, c)
      BY <1>0, <1>3, WayDown
  <2>2. Listed(at)'
      BY <1>0, UnderSelf DEF Listed
  <2>3. CASE remote[c].kind # "none"
    <3>1. [path |-> c, node |-> remote[c]] \in todo'[at]
        BY <1>1, <2>1, <2>3 DEF Children
    <3>2. c \in Waiting(at)'
        BY <1>0, <3>1 DEF Waiting
    <3> QED BY <1>0, <2>1, <2>2, <3>2 DEF Pending, Ahead
  <2>4. CASE local[c].kind # "none"
    <3>1. c \in stale'[at]
        BY <1>0, <2>1, <2>4 DEF Children
    <3> QED BY <1>0, <2>1, <2>2, <3>1 DEF Pending, Ahead
  <2>5. CASE remote[c].kind = "none" /\ local[c].kind = "none"
    <3>1. Settled(p)
      <4>1. CASE p = c
          BY <2>5, <4>1 DEF Settled, SameAsRemote
      <4>2. CASE p # c
          BY <1>0, <2>1, <2>5, <4>2, BeneathNothing DEF Beneath
      <4> QED BY <4>1, <4>2
    <3> QED BY <1>0, <3>1, SettledKept
  <2> QED BY <2>3, <2>4, <2>5
<1>4. ASSUME NEW d \in Dirs, Listed(d), NEW c \in stale[d] \cup Waiting(d), Under(p, c)
      PROVE  Ahead(p)'
  <2>1. d # at
      BY <1>0, <1>4 DEF Listed
  <2>2. Listed(d)' /\ c \in stale'[d] \cup Waiting(d)'
      BY <1>0, <1>1, <1>4, <2>1 DEF Listed, Waiting
  <2> QED BY <1>4, <2>2 DEF Ahead
<1> QED BY <1>0, <1>2, <1>3, <1>4 DEF Pending, Ahead

LEMMA ListFailsCovers ==
    ASSUME CleanInv, clean', ListFails, NEW p \in Entries, InReach(p)
    PROVE  Settled(p)' \/ (pc' # "idle" /\ Pending(p)')
<1>0. /\ TypeOK /\ at \in Dirs /\ pc = "list" /\ clean /\ ~lost /\ IsDir(remote, at)
      /\ UNCHANGED <<remote, local>> /\ ~Listable
      /\ Settled(p) \/ Pending(p)
    BY DEF CleanInv, LocalInv, KeptInv, QInv, TypeOK, ListFails, Calm, Fault, Undisturbed, Covered
<1>1. CASE GivesUp
  <2>1. ~Beneath(p, at)
      BY <1>0 DEF Listable, InReach, Beneath
  <2>2. \A d \in Dirs : Listed(d) => d # at
      BY <1>0 DEF Listed
  <2>3. Settled(p) \/ Ahead(p)
      BY <1>0, <2>1 DEF Pending
  <2> QED BY <1>0, <1>1, <2>2, <2>3, LeaveCovers DEF ListFails, Ahead
<1>2. CASE ~GivesUp
  <2>1. UNCHANGED <<pc, at, stale, todo, file>>
      BY <1>2 DEF ListFails, frames, transfer
  <2>2. CASE Settled(p)
      BY <1>0, <2>2, SettledKept
  <2>3. CASE Pending(p)
      BY <1>0, <2>1, <2>3 DEF Pending, Ahead, Listed, Waiting
  <2> QED BY <1>0, <2>2, <2>3
<1> QED BY <1>1, <1>2

LEMMA PruneCovers ==
    ASSUME CleanInv, clean', Prune, NEW p \in Entries, InReach(p)
    PROVE  Settled(p)' \/ (pc' # "idle" /\ Pending(p)')
<1>0. /\ TypeOK /\ WalkInv /\ at \in Dirs /\ pc \in {"walk", "prune"} /\ clean
      /\ UNCHANGED remote /\ HangsTogether(remote)
      /\ \A d \in Dirs : Listed(d) =>
            \A q \in stale[d] : q \notin Waiting(d) => remote[q].kind = "none"
      /\ Settled(p) \/ Pending(p)
    BY DEF CleanInv, LocalInv, KeptInv, QInv, TypeOK, Prune, Calm, Fault, Undisturbed, Covered
<1>1. todo[at] = {} /\ Waiting(at) = {} /\ Listed(at)
    BY <1>0, UnderSelf DEF Prune, WalkInv, TodoLive, Waiting, Listed
<1>2. Settled(p) \/ Ahead(p)
    BY <1>0 DEF Pending
<1>3. CASE stale[at] = {}
  <2>1. LeaveDir /\ UNCHANGED local
      BY <1>3 DEF Prune
  <2>2. \/ Settled(p)
        \/ \E d \in Dirs : Listed(d) /\ d # at /\ \E c \in stale[d] \cup Waiting(d) : Under(p, c)
      BY <1>1, <1>2, <1>3 DEF Ahead
  <2> QED BY <1>0, <2>1, <2>2, LeaveCovers
<1>4. CASE stale[at] # {}
  <2>1. PICK q \in stale[at] : /\ local' = RemoveAll(local, q, Copy("none"))
                               /\ stale' = [stale EXCEPT ![at] = @ \ {q}]
                               /\ pc' = "prune" /\ UNCHANGED <<at, todo>>
      BY <1>4 DEF Prune, Fault
  <2>2. q \in Entries /\ remote[q].kind = "none"
      BY <1>0, <1>1 DEF TypeOK
  <2>3. local'[p] = IF Under(p, q) THEN Copy("none") ELSE local[p]
      BY <2>1 DEF RemoveAll
  <2>4. CASE Under(p, q)
    <3>1. remote[p].kind = "none"
        BY <1>0, <2>2, <2>4 DEF HangsTogether, Beneath
    <3>2. remote'[p].kind = "none" /\ local'[p].kind = "none"
        BY <1>0, <2>3, <2>4, <3>1 DEF Copy
    <3> QED BY <3>2 DEF Settled, SameAsRemote
  <2>5. CASE ~Under(p, q) /\ Settled(p)
      BY <1>0, <2>3, <2>5, SettledKept
  <2>6. ASSUME ~Under(p, q), NEW d \in Dirs, Listed(d), NEW c \in stale[d] \cup Waiting(d), Under(p, c)
        PROVE  Ahead(p)'
    <3>1. Listed(d)'
        BY <2>1, <2>6 DEF Listed
    <3>2. c \in stale'[d] \cup Waiting(d)'
        BY <1>0, <2>1, <2>6 DEF Waiting, TypeOK
    <3> QED BY <2>6, <3>1, <3>2 DEF Ahead
  <2> QED BY <1>2, <2>1, <2>4, <2>5, <2>6 DEF Pending, Ahead
<1> QED BY <1>3, <1>4

LEMMA VisitCovers ==
    ASSUME Steady, CleanInv, clean', NEW e \in todo[at], Visit(e), NEW p \in Entries, InReach(p)
    PROVE  Settled(p)' \/ (pc' # "idle" /\ Pending(p)')
<1>0. /\ TypeOK /\ FramesOwn /\ at \in Dirs /\ pc = "walk" /\ clean /\ UNCHANGED remote
      /\ e.node = remote[e.path] /\ OfKind /\ QInv
      /\ HangsTogether(remote) /\ HangsTogether(local)
      /\ Settled(p) \/ Pending(p)
    BY DEF CleanInv, LocalInv, KeptInv, QInv, WalkInv, TreeInv, TypeOK, Visit, Calm,
           Undisturbed, Covered
<1>1. /\ e.path \in Entries /\ e.path \in Dirs /\ Parent(e.path) = at
      /\ remote[e.path] \in RemoteNode /\ local[e.path] \in LocalNode
      /\ local \in [Entries -> LocalNode]
    BY <1>0 DEF FramesOwn, TypeOK, Entry, Dirs
<1>2. /\ remote[e.path].kind = "none" \/ local[e.path].kind = "none"
         \/ remote[e.path].kind = local[e.path].kind
    BY <1>0, <1>1, KindsAgree
<1>3. Visited(e) => /\ \A d \in Dirs \ {at} : todo'[d] = todo[d] /\ stale'[d] = stale[d]
                    /\ todo'[at] = todo[at] \ {e} /\ stale'[at] = stale[at] \ {e.path}
    BY <1>0 DEF Visited, TypeOK
\* What was ahead still is, but for what the visited entry stood for.
<1>4. ASSUME Visited(e), NEW d \in Dirs, NEW c \in stale[d] \cup Waiting(d), c # e.path
      PROVE  c \in stale'[d] \cup Waiting(d)'
    BY <1>3, <1>4 DEF Waiting
<1>5. Settled(p) \/ Ahead(p)
    BY <1>0 DEF Pending
<1>6. CASE e.node.kind = "dir"
  <2>1. /\ Visited(e) /\ pc' = "enter" /\ at' = e.path
        /\ local' = [local EXCEPT ![e.path] = Copy("dir")]
      BY <1>0, <1>2, <1>6 DEF Visit
  <2>2. CASE p = e.path
    <3>1. remote'[p].kind = "dir" /\ local'[p].kind = "dir"
        BY <1>0, <1>1, <1>6, <2>1, <2>2 DEF Copy
    <3> QED BY <3>1 DEF Settled, SameAsRemote
  <2>3. CASE p # e.path /\ Settled(p)
    <3>1. local'[p] = local[p]
        BY <1>1, <2>1, <2>3
    <3> QED BY <1>0, <2>3, <3>1, SettledKept
  <2>4. ASSUME p # e.path, NEW d \in Dirs, Listed(d),
               NEW c \in stale[d] \cup Waiting(d), Under(p, c)
        PROVE  Pending(p)'
    <3>1. CASE c = e.path
        BY <2>1, <2>4, <3>1 DEF Pending, Beneath
    <3>2. CASE c # e.path
      <4>1. Beneath(e.path, d)
          BY <1>1, <2>4, BeneathUp DEF Listed
      <4>2. Listed(d)' /\ c \in stale'[d] \cup Waiting(d)'
          BY <1>4, <2>1, <2>4, <3>2, <4>1 DEF Listed, Beneath
      <4> QED BY <2>4, <4>2 DEF Pending, Ahead
    <3> QED BY <3>1, <3>2
  <2> QED BY <1>5, <2>1, <2>2, <2>3, <2>4 DEF Ahead
<1>7. CASE e.node.kind # "dir"
  <2>1. Visited(e) /\ at' = at /\ local' = local /\ pc' \in {"walk", "get"}
      BY <1>0, <1>7 DEF Visit
  <2>2. CASE Settled(p)
      BY <1>0, <2>1, <2>2, SettledKept
  <2>3. CASE Beneath(p, e.path)
    <3>1. e.node.kind # "none"
        BY <1>7 DEF Visit
    <3>2. Settled(p)
        BY <1>0, <1>1, <1>2, <1>7, <2>3, <3>1, BeneathNothing
    <3> QED BY <2>2, <3>2
  <2>4. CASE p = e.path
    <3>1. CASE e.node.kind = "file" /\ ~UpToDate(local[e.path], e.node)
      <4>1. file' = e /\ pc' = "get"
          BY <3>1, <1>7 DEF Visit
      <4> QED BY <2>4, <4>1 DEF Pending
    <3>2. CASE e.node.kind = "file" /\ UpToDate(local[e.path], e.node)
      <4>1. Right(p)
          BY <1>0, <2>4, <3>2, QSound DEF QuickCheckSound
      <4>2. Settled(p)
          BY <1>0, <2>4, <3>2, <4>1 DEF Settled, SameAsRemote, UpToDate
      <4> QED BY <2>2, <4>2
    <3>3. CASE e.node.kind = "other"
      <4>1. local[p].kind = "none"
          BY <1>0, <1>1, <1>2, <2>4, <3>3 DEF LocalNode
      <4>2. Settled(p)
          BY <1>0, <2>4, <3>3, <4>1 DEF Settled, SameAsRemote
      <4> QED BY <2>2, <4>2
    <3> QED BY <1>7, <3>1, <3>2, <3>3 DEF Visit
  <2>5. ASSUME NEW d \in Dirs, Listed(d), NEW c \in stale[d] \cup Waiting(d), Under(p, c),
               c # e.path
        PROVE  Ahead(p)'
    <3>1. Listed(d)' /\ c \in stale'[d] \cup Waiting(d)'
        BY <1>4, <2>1, <2>5 DEF Listed
    <3> QED BY <2>5, <3>1 DEF Ahead
  <2> QED BY <1>5, <2>1, <2>2, <2>3, <2>4, <2>5 DEF Pending, Ahead, Beneath
<1> QED BY <1>6, <1>7

LEMMA DownloadCovers ==
    ASSUME Steady, CleanInv, clean', Get \/ CopyDone \/ CopyCut \/ DownloadFails,
           NEW p \in Entries, InReach(p)
    PROVE  Settled(p)' \/ (pc' # "idle" /\ Pending(p)')
<1>0. /\ TypeOK /\ WalkInv /\ pc \in {"get", "copy"} /\ clean /\ ~lost /\ OfKind
      /\ UNCHANGED <<remote, at, stale, todo>> /\ pc' \in {"walk", "get", "copy"}
      /\ file.node = remote[file.path] /\ (pc = "copy" => got = remote[file.path])
      /\ remote[file.path].kind = "file" /\ ~CopyCut
      /\ Settled(p) \/ Pending(p)
  <2>1. clean /\ pc \in {"get", "copy"} /\ ~CopyCut /\ ~Fault
      BY DEF Get, CopyDone, CopyCut, DownloadFails, Calm, Fault
  <2>2. UNCHANGED <<remote, at, stale, todo>> /\ pc' \in {"walk", "get", "copy"}
      BY <2>1 DEF Get, CopyDone, DownloadFails, DownloadOver, TryAgain
  <2> QED BY <2>1, <2>2 DEF CleanInv, LocalInv, KeptInv, QInv, FileSeen, Undisturbed, Covered
<1>1. file.path \in Entries /\ local \in [Entries -> LocalNode] /\ remote[file.path] \in RemoteNode
    BY <1>0 DEF TypeOK, Entry
<1>2. CASE p # file.path
  <2>1. local'[p] = local[p]
      BY <1>0, <1>1, <1>2 DEF Get, CopyDone, DownloadFails
  <2>2. CASE Settled(p)
      BY <1>0, <2>1, <2>2, SettledKept
  <2>3. CASE Ahead(p)
      BY <1>0, <2>3 DEF Pending, Ahead, Listed, Waiting
  <2> QED BY <1>0, <1>2, <2>2, <2>3 DEF Pending
<1>3. CASE p = file.path
  <2>1. CASE Get
      BY <1>3, <2>1 DEF Get, Pending
  <2>2. CASE CopyDone
    <3>1. local'[p] = Copied(remote[p], remote[p].ver) /\ remote'[p] = remote[p]
        BY <1>0, <1>1, <1>3, <2>2 DEF CopyDone, Arrives
    <3>2. Distance(remote[p].ver, remote[p].ver) <= Tolerance
        BY <1>1, <1>3, TimesAssumption DEF Distance, RemoteNode
    <3> QED BY <1>0, <1>3, <3>1, <3>2 DEF Settled, SameAsRemote, Right, UpToDate, Copied
  <2>3. CASE DownloadFails
    <3>1. ~Readable(file.path) \/ local[file.path].kind = "dir"
        BY <1>0, <2>3 DEF DownloadFails, Fault
    <3>2. local[file.path].kind # "dir"
        BY <1>0, <1>1, KindsAgree
    <3>3. p \in Denied
        BY <1>0, <1>3, <3>1, <3>2 DEF Readable
    <3> QED BY <3>3, UnderSelf DEF InReach, Dirs
  <2> QED BY <1>0, <2>1, <2>2, <2>3
<1> QED BY <1>2, <1>3

LEMMA CoveredStep ==
    ASSUME Steady, CleanInv, [Next]_vars
    PROVE  Covered'
<1> SUFFICES ASSUME clean', NEW p \in Entries, InReach(p)
             PROVE  Settled(p)' \/ (pc' # "idle" /\ Pending(p)')
    BY DEF Covered, InReach
<1>1. CASE SyncStep
    BY <1>1, EnterCovers, ListCovers, ListFailsCovers, VisitCovers, DownloadCovers, PruneCovers
       DEF SyncStep
<1>2. CASE Mirror
  <2>1. pc' = "enter" /\ at' = Root
      BY <1>2 DEF CleanInv, LocalInv, AtRest, Mirror
  <2> QED BY <2>1, BeneathRoot DEF Pending
<1>3. CASE UNCHANGED vars
  <2>1. clean /\ UNCHANGED <<remote, local, pc, at, stale, todo, file>>
      BY <1>3 DEF vars, server, frames, transfer, trouble
  <2>2. CASE Settled(p)
      BY <2>1, <2>2, SettledKept
  <2>3. CASE pc # "idle" /\ Pending(p)
      BY <2>1, <2>3 DEF Pending, Ahead, Listed, Waiting
  <2> QED BY <2>1, <2>2, <2>3 DEF CleanInv, Covered
<1>4. ~Miniserver /\ ~LoseConnection /\ ~Expire /\ ~Crash
    BY DEF Miniserver, Write, Make, Remove, Edit, LoseConnection, Expire, Crash, Fault
<1> QED BY <1>1, <1>2, <1>3, <1>4 DEF Next

LEMMA CleanStep == Steady /\ CleanInv /\ [Next]_vars => CleanInv'
<1> SUFFICES ASSUME Steady, CleanInv, [Next]_vars PROVE CleanInv'
    OBVIOUS
<1>1. HangsTogether(local')
    BY LocalHangsStep DEF CleanInv, LocalInv
<1>2. KeptInv' /\ OfKind' /\ AtRest'
    BY KeptStep, OfKindStep, AtRestStep DEF CleanInv, LocalInv, KeptInv, QInv
<1>3. Undisturbed'
    BY UndisturbedStep DEF CleanInv
<1> QED BY <1>1, <1>2, <1>3, CoveredStep DEF CleanInv, LocalInv, HangsTogether

LEMMA CleanInit == Init => CleanInv
<1> SUFFICES ASSUME Init PROVE CleanInv
    OBVIOUS
<1>1. OfKind /\ HangsTogether(local)
    BY DEF Init, OfKind, KindsAt, HangsTogether, Copy
<1> QED BY <1>1, KeptInit DEF Init, CleanInv, LocalInv, AtRest, Undisturbed, Covered

\* CleanSyncMirrors, for every tree in which no path is a file at one time and a
\* directory at another: a sync that nothing disturbed leaves nothing it can get at
\* different, whatever the syncs before it left behind.  Where one takes the place of
\* the other no sync can mirror it: neither MkdirAll nor os.Create replaces what is
\* there, and a name that is listed is not stale (mirrorDir, downloadFile).
THEOREM CleanSyncsMirror == Steady => (Spec => []CleanSyncMirrors)
<1> SUFFICES ASSUME Steady PROVE Spec => []CleanSyncMirrors
    OBVIOUS
<1>1. CleanInv => CleanSyncMirrors
    BY DEF CleanInv, Covered, CleanSyncMirrors, Mirrored, Settled
<1>2. CleanInv /\ [Next]_vars => CleanInv'
    BY CleanStep
<1> QED BY <1>1, <1>2, CleanInit, PTL DEF Spec
=============================================================================
