---------------------------- MODULE MirrorSync ----------------------------
(***************************************************************************)
(* The Miniserver's mirror: internal/ftp/client.go, Mirror and what it     *)
(* calls, against a Miniserver whose files change at any moment.           *)
(*                                                                         *)
(* A sync walks the remote tree depth first.  at is the directory it is    *)
(* in; stale[d] and todo[d] are the local variables of mirrorDir(d): the   *)
(* local names not seen remotely so far and the listed entries not yet     *)
(* visited.  pc is the call the sync is about to make:                     *)
(*                                                                         *)
(*    idle     no sync is under way (mirrorMu allows one at a time)        *)
(*    enter    mirrorDir: look at the context, read the local names        *)
(*    list     List                                                        *)
(*    walk     visit the next entry of the listing                         *)
(*    get      downloadFile: Retr, then create (truncate) the local file   *)
(*    copy     downloadFile: copy, then stamp with the listed time         *)
(*    prune    remove what is stale                                        *)
(*                                                                         *)
(* A version of a file is named by the time the Miniserver wrote it, and   *)
(* two writes are at least Gap apart.  A file cut short has length 0 here: *)
(* a length no complete version has.                                       *)
(*                                                                         *)
(* Operators named X_Y are faulty variants of X: what the properties are   *)
(* there to notice.                                                        *)
(***************************************************************************)
EXTENDS Integers, Sequences

CONSTANTS
    Entries,     \* the paths that may exist, each the sequence of its names
    KindsOf,     \* what each may become: a subset of {"file", "dir", "other"},
                 \* empty for what never changes
    Sizes,       \* the lengths of complete files
    Excluded,    \* excludedRemoteDirs
    Denied,      \* what the FTP account may not list or read
    InitRemote,  \* the kind of each entry at the start, "none" if absent
    InitSize,    \* the length of the files there at the start
    Tolerance,   \* mtimeTolerance
    Gap,         \* the time between two changes on the Miniserver
    MaxRetries,  \* maxRetries
    MaxEdits,    \* how many changes the Miniserver makes
    MaxFaults,   \* how many failures, deadlines and crashes there are
    None

Root == <<>>
Dirs == Entries \cup {Root}
Parent(p) == SubSeq(p, 1, Len(p) - 1)
Under(p, d) == Len(d) <= Len(p) /\ SubSeq(p, 1, Len(d)) = d
Kinds == {"none", "file", "dir", "other"}

ASSUME TreeAssumption ==
    /\ Entries \subseteq Seq(STRING) /\ Root \notin Entries
    /\ \A p \in Entries : \A n \in 0..Len(p) - 1 : SubSeq(p, 1, n) \in Dirs
    /\ KindsOf \in [Entries -> SUBSET {"file", "dir", "other"}]
    /\ InitRemote \in [Entries -> Kinds]
    /\ \A p, q \in Entries : InitRemote[p] # "none" /\ Under(p, q) /\ q # p => InitRemote[q] = "dir"
    /\ Excluded \subseteq Entries /\ Denied \subseteq Entries
ASSUME SizesAssumption == Sizes \subseteq Nat \ {0} /\ InitSize \in Sizes
ASSUME TimesAssumption == Tolerance \in Nat /\ Gap \in Nat /\ Gap > Tolerance
ASSUME MirrorBoundsAssumption ==
    MaxRetries \in Nat /\ MaxEdits \in Nat /\ MaxFaults \in Nat
ASSUME MirrorNoneAssumption == None \notin Entries

VARIABLES
    remote,      \* the Miniserver's files: kind, version and size
    local,       \* the mirror's: the same, their mtime and whether they are whole
    now, edits,  \* the time, and the number of changes so far
    pc, at, stale, todo,
    file,        \* the listed entry being downloaded
    got,         \* the remote file as it was when the transfer began
    tries,       \* withRetry's attempt
    lost,        \* the control connection is gone: every command fails
    expired,     \* the run's context is done
    faults,      \* how many faults there have been
    clean        \* no change and no fault since this sync began

server == <<remote, now, edits>>
frames == <<stale, todo>>
transfer == <<file, got>>
trouble == <<lost, expired, faults, clean>>
vars == <<server, local, pc, at, frames, transfer, tries, trouble>>

-----------------------------------------------------------------------------
RemoteNode == [kind : Kinds, ver : Nat, size : Nat]
LocalNode == [kind : {"none", "file", "dir"}, ver : Nat, size : Nat, mtime : Nat, whole : BOOLEAN]
Entry == [path : Entries, node : RemoteNode]
NoEntry == [path |-> None, node |-> [kind |-> "none", ver |-> 0, size |-> 0]]

Thing(kind) == [kind |-> kind, ver |-> 0, size |-> 0]
Copy(kind) == [kind |-> kind, ver |-> 0, size |-> 0, mtime |-> 0, whole |-> TRUE]
Copied(node, mtime) ==
    [kind |-> "file", ver |-> node.ver, size |-> node.size, mtime |-> mtime, whole |-> TRUE]
Torn(mtime) == [kind |-> "file", ver |-> 0, size |-> 0, mtime |-> mtime, whole |-> FALSE]
Mixed(size, mtime) == [Torn(mtime) EXCEPT !.size = size]

IsDir(tree, d) == d # Root => tree[d].kind = "dir"
Children(tree, d) == {p \in Entries : Parent(p) = d /\ tree[p].kind # "none"}
RemoveAll(tree, p, nothing) == [q \in Entries |-> IF Under(q, p) THEN nothing ELSE tree[q]]
Distance(a, b) == IF a < b THEN b - a ELSE a - b

\* fileUpToDate: rsync's quick check.
UpToDate_TimeOnly(copy, node) ==
    copy.kind = "file" /\ Distance(copy.mtime, node.ver) <= Tolerance
UpToDate(copy, node) ==
    /\ copy.kind = "file"
    /\ copy.size = node.size
    /\ Distance(copy.mtime, node.ver) <= Tolerance

Init ==
    /\ remote = [p \in Entries |-> [kind |-> InitRemote[p], ver |-> 0,
                                    size |-> IF InitRemote[p] = "file" THEN InitSize ELSE 0]]
    /\ local = [p \in Entries |-> Copy("none")]
    /\ now = 0 /\ edits = 0
    /\ pc = "idle" /\ at = Root
    /\ stale = [d \in Dirs |-> {}] /\ todo = [d \in Dirs |-> {}]
    /\ file = NoEntry /\ got = Thing("none") /\ tries = 0
    /\ lost = FALSE /\ expired = FALSE
    /\ faults = 0 /\ clean = FALSE

-----------------------------------------------------------------------------
(* The Miniserver. *)

Edit(tree) ==
    /\ edits < MaxEdits
    /\ remote' = tree
    /\ edits' = edits + 1 /\ now' = now + Gap
    /\ clean' = FALSE
    /\ UNCHANGED <<local, pc, at, frames, transfer, tries, lost, expired, faults>>

Write(p, size) ==
    /\ "file" \in KindsOf[p] /\ IsDir(remote, Parent(p)) /\ remote[p].kind \in {"none", "file"}
    /\ Edit([remote EXCEPT ![p] = [kind |-> "file", ver |-> now + Gap, size |-> size]])

Make(p, kind) ==
    /\ kind \in KindsOf[p] /\ IsDir(remote, Parent(p)) /\ remote[p].kind = "none"
    /\ Edit([remote EXCEPT ![p] = Thing(kind)])

Remove(p) ==
    /\ KindsOf[p] # {} /\ remote[p].kind # "none"
    /\ Edit(RemoveAll(remote, p, Thing("none")))

-----------------------------------------------------------------------------
(* Failures: a command refused, a transfer cut, the connection gone, the       *)
(* context done, the process dead.                                             *)
Fault == faults < MaxFaults /\ faults' = faults + 1 /\ clean' = FALSE
Calm == UNCHANGED <<faults, clean>>

LoseConnection ==
    /\ pc # "idle" /\ ~lost /\ Fault
    /\ lost' = TRUE
    /\ UNCHANGED <<server, local, pc, at, frames, transfer, tries, expired>>

Expire ==
    /\ pc # "idle" /\ ~expired /\ Fault
    /\ expired' = TRUE
    /\ UNCHANGED <<server, local, pc, at, frames, transfer, tries, lost>>

\* Mirror returns, or dies with its process: its local variables are gone.
Return == /\ pc' = "idle" /\ at' = Root
          /\ stale' = [d \in Dirs |-> {}] /\ todo' = [d \in Dirs |-> {}]
          /\ file' = NoEntry /\ got' = Thing("none") /\ tries' = 0
          /\ lost' = FALSE /\ expired' = FALSE

Crash == pc # "idle" /\ Fault /\ Return /\ UNCHANGED <<server, local>>

-----------------------------------------------------------------------------
(* Mirror. *)

\* Connect, log in, make the mirror's directory.
Mirror ==
    /\ pc = "idle"
    /\ pc' = "enter"
    /\ clean' = TRUE
    /\ UNCHANGED <<server, local, at, frames, transfer, tries, lost, expired, faults>>

\* mirrorDir(at) returns nil; its caller goes on with the next entry.
LeaveDir ==
    IF at = Root THEN Return
    ELSE /\ at' = Parent(at) /\ pc' = "walk" /\ tries' = 0
         /\ UNCHANGED <<frames, transfer, lost, expired>>

EnterDir ==
    /\ pc = "enter"
    /\ IF expired THEN Return
       ELSE IF at \in Excluded THEN LeaveDir
       ELSE /\ stale' = [stale EXCEPT ![at] = Children(local, at)]
            /\ pc' = "list"
            /\ UNCHANGED <<at, todo, transfer, tries, lost, expired>>
    /\ Calm /\ UNCHANGED <<server, local>>

Listable == ~lost /\ at \notin Denied /\ IsDir(remote, at)
List ==
    /\ pc = "list" /\ Listable
    /\ todo' = [todo EXCEPT ![at] =
                   {[path |-> p, node |-> remote[p]] : p \in Children(remote, at)}]
    /\ pc' = "walk" /\ tries' = 0
    /\ UNCHANGED <<server, local, at, stale, transfer, trouble>>

\* withRetry waits and tries again, unless these were all its attempts or the
\* context is done.
GivesUp == tries = MaxRetries \/ expired

\* A directory that could not be listed is left as it is, and so is all beneath.
ListFails_PrunesAll ==
    /\ pc = "list"
    /\ \/ ~Listable /\ Calm
       \/ Fault
    /\ IF GivesUp
       THEN pc' = "prune" /\ tries' = 0 /\ UNCHANGED at
       ELSE tries' = tries + 1 /\ UNCHANGED <<pc, at>>
    /\ UNCHANGED <<server, local, frames, transfer, lost, expired>>

ListFails ==
    /\ pc = "list"
    /\ \/ ~Listable /\ Calm
       \/ Fault
    /\ IF GivesUp THEN LeaveDir
       ELSE tries' = tries + 1 /\ UNCHANGED <<pc, at, frames, transfer, lost, expired>>
    /\ UNCHANGED <<server, local>>

\* The loop over the listing: e is no longer to be visited, nor stale.
Visited(e) ==
    /\ todo' = [todo EXCEPT ![at] = @ \ {e}]
    /\ stale' = [stale EXCEPT ![at] = @ \ {e.path}]

Visit(e) ==
    /\ pc = "walk" /\ e \in todo[at]
    /\ Calm /\ UNCHANGED server
    /\ \/ \* a folder: MkdirAll, which fails where a file is in the way
          /\ e.node.kind = "dir"
          /\ IF local[e.path].kind = "file" THEN Return /\ UNCHANGED local
             ELSE /\ local' = [local EXCEPT ![e.path] = Copy("dir")]
                  /\ Visited(e)
                  /\ pc' = "enter" /\ at' = e.path
                  /\ UNCHANGED <<transfer, tries, lost, expired>>
       \/ \* a file to download
          /\ e.node.kind = "file" /\ ~UpToDate(local[e.path], e.node)
          /\ Visited(e)
          /\ file' = e /\ pc' = "get"
          /\ UNCHANGED <<local, at, got, tries, lost, expired>>
       \/ \* a file that is up to date, or something else
          /\ \/ e.node.kind = "file" /\ UpToDate(local[e.path], e.node)
             \/ e.node.kind = "other"
          /\ Visited(e)
          /\ UNCHANGED <<local, pc, at, transfer, tries, lost, expired>>

\* Retr, then os.Create, which truncates.
Readable(p) == ~lost /\ p \notin Denied /\ remote[p].kind = "file"
Get ==
    /\ pc = "get" /\ Readable(file.path)
    /\ local[file.path].kind # "dir"
    /\ got' = remote[file.path]
    /\ local' = [local EXCEPT ![file.path] = Torn(now)]
    /\ pc' = "copy"
    /\ UNCHANGED <<server, at, frames, file, tries, trouble>>

\* A file changed during the transfer may arrive as it was, as it is or as a mix.
\* The mtime is the listing's.
Arrives(mtime) ==
    IF remote[file.path] = got THEN {Copied(got, mtime)}
    ELSE {Copied(n, mtime) : n \in {got, remote[file.path]} \cap [kind : {"file"}, ver : Nat, size : Nat]}
         \cup {Mixed(s, mtime) : s \in Sizes}

DownloadOver == /\ file' = NoEntry /\ got' = Thing("none") /\ tries' = 0
                /\ pc' = "walk"
                /\ UNCHANGED <<at, frames, lost, expired>>

CopyDone_StampsNow ==
    /\ pc = "copy" /\ ~lost
    /\ \E c \in Arrives(now) : local' = [local EXCEPT ![file.path] = c]
    /\ DownloadOver /\ Calm /\ UNCHANGED server

\* The copy is stamped with the listing's time.  (Every listing gives one: without it
\* the copy is not stamped, and is fetched again by every sync.)
CopyDone ==
    /\ pc = "copy" /\ ~lost
    /\ \E c \in Arrives(file.node.ver) : local' = [local EXCEPT ![file.path] = c]
    /\ DownloadOver /\ Calm /\ UNCHANGED server

\* The data connection closes early: Close's error is ignored, the copy passes
\* for complete and is stamped.
CopyCut ==
    /\ pc = "copy" /\ Fault
    /\ local' = [local EXCEPT ![file.path] = Torn(file.node.ver)]
    /\ DownloadOver /\ UNCHANGED server

TryAgain_DropsEntry ==
    /\ tries' = tries + 1 /\ pc' = "get" /\ file' = NoEntry /\ got' = Thing("none")
    /\ UNCHANGED <<at, frames, lost, expired>>

TryAgain ==
    /\ tries' = tries + 1 /\ pc' = "get" /\ got' = Thing("none")
    /\ UNCHANGED <<at, frames, file, lost, expired>>

\* An attempt fails: what is torn stays; a file given up on is skipped.
DownloadFails ==
    /\ \/ pc = "get" /\ (~Readable(file.path) \/ local[file.path].kind = "dir") /\ Calm
       \/ pc = "copy" /\ lost /\ Calm
       \/ pc \in {"get", "copy"} /\ Fault
    /\ IF GivesUp THEN DownloadOver ELSE TryAgain
    /\ UNCHANGED <<server, local>>

\* The loop is over; a stale name is removed with all beneath it.
Prune ==
    /\ \/ pc = "walk" /\ todo[at] = {}
       \/ pc = "prune"
    /\ IF stale[at] = {} THEN LeaveDir /\ Calm /\ UNCHANGED local
       ELSE \E p \in stale[at] :
              /\ \/ local' = RemoveAll(local, p, Copy("none")) /\ Calm
                 \/ Fault /\ UNCHANGED local
              /\ stale' = [stale EXCEPT ![at] = @ \ {p}]
              /\ pc' = "prune"
              /\ UNCHANGED <<at, todo, transfer, tries, lost, expired>>
    /\ UNCHANGED server

-----------------------------------------------------------------------------
SyncStep ==
    \/ EnterDir \/ List \/ ListFails \/ (\E e \in todo[at] : Visit(e))
    \/ Get \/ CopyDone \/ CopyCut \/ DownloadFails \/ Prune

Miniserver ==
    \E p \in Entries : \/ \E s \in Sizes : Write(p, s)
                       \/ \E k \in {"dir", "other"} : Make(p, k)
                       \/ Remove(p)

Next == Mirror \/ SyncStep \/ Miniserver \/ LoseConnection \/ Expire \/ Crash

Spec == Init /\ [][Next]_vars

\* A sync under way goes on, and the schedule always starts another.
FairSpec == Spec /\ WF_vars(SyncStep) /\ WF_vars(Mirror)

-----------------------------------------------------------------------------
(* Properties. *)

TypeOK ==
    /\ remote \in [Entries -> RemoteNode]
    /\ local \in [Entries -> LocalNode]
    /\ now \in Nat /\ edits \in Nat /\ tries \in Nat /\ faults \in Nat
    /\ pc \in {"idle", "enter", "list", "walk", "get", "copy", "prune"}
    /\ at \in Dirs
    /\ stale \in [Dirs -> SUBSET Entries]
    /\ todo \in [Dirs -> SUBSET Entry]
    /\ file \in Entry \cup {NoEntry} /\ (pc \in {"get", "copy"} => file \in Entry)
    /\ got \in RemoteNode
    /\ lost \in BOOLEAN /\ expired \in BOOLEAN /\ clean \in BOOLEAN

\* A copy that passes the quick check is complete and is the file the Miniserver
\* has now, whatever was cut short, changed during a transfer or crashed before
\* (fileUpToDate; a change within the tolerance is the documented exception).
Right(p) == local[p].whole /\ local[p].ver = remote[p].ver
QuickCheckSound ==
    \A p \in Entries :
        remote[p].kind = "file" /\ UpToDate(local[p], remote[p]) => Right(p)

\* A file that is right and known to be so is never touched again while the
\* Miniserver keeps it: a failed listing, a deadline, a crash or a change beside
\* it never costs the mirror a good copy (mirrorDir, the comment on List).
SettledCopyKept ==
    [][\A p \in Entries :
          /\ remote[p].kind = "file" /\ remote'[p] = remote[p]
          /\ UpToDate(local[p], remote[p]) /\ Right(p)
          => local'[p] = local[p]]_vars

\* What a sync can get at: not beneath a denied or an excluded directory.
InReach(p) ==
    /\ \A d \in Denied : ~Under(p, d)
    /\ \A d \in Excluded : Under(p, d) => p = d

SameAsRemote(p) ==
    CASE remote[p].kind = "file" -> local[p].kind = "file" /\ Right(p)
      [] remote[p].kind = "dir" -> local[p].kind = "dir"
      [] OTHER -> local[p].kind = "none"

Mirrored == \A p \in Entries : InReach(p) => SameAsRemote(p)

\* A sync during which nothing changed and nothing failed leaves the mirror equal
\* to the Miniserver, and every copy in a state the next sync skips, whatever the
\* mirror held before (Mirror's comment).
CleanSyncMirrors ==
    pc = "idle" /\ clean =>
        /\ Mirrored
        /\ \A p \in Entries : InReach(p) /\ remote[p].kind = "file" => UpToDate(local[p], remote[p])

\* Once changes and failures stop, the mirror becomes equal to the Miniserver and
\* stays so (mirrorDir: "localDir converges to match the remote tree").
EventuallyMirrored == <>[]Mirrored
=============================================================================
