------------------------- MODULE DestinationAdmin -------------------------
(***************************************************************************)
(* The requests on destinations, api/destinations.go over                  *)
(* db/destinations.go, statement by statement: each may overlap with the   *)
(* others, with a schedule's links being set and with a run that stores.   *)
(*                                                                         *)
(* A place is where a destination keeps its files: for a local one the     *)
(* directory named after it, for the others a server and a path.  pc[q] is *)
(* the statement or call request (or run) q is about to make:              *)
(*                                                                         *)
(*    insert                              create                           *)
(*    read, write                         update                           *)
(*    build, count, delete, list, purge   delete                           *)
(*    reload                              read the row to answer with      *)
(*    row, store                          a run, for one of its links      *)
(*                                                                         *)
(* Operators named X_Y are faulty variants of X: what the properties are   *)
(* there to notice.                                                        *)
(***************************************************************************)
EXTENDS Integers, FiniteSets

CONSTANTS
    Requests,   \* each is made at most once
    Runs,       \* the stores of runs, each at most once
    MaxRows,    \* how many destinations are ever created
    Places,     \* where destinations may keep their files
    Secrets,    \* the secrets a request may give
    MaxFaults,  \* how many calls to a destination fail
    None

Ids == 1..MaxRows
Actors == Requests \cup Runs
Rows == [place : Places, secret : Secrets \cup {None}]

ASSUME ActorsAssumption == Requests \cap Runs = {}
ASSUME AdminBoundsAssumption == MaxRows \in Nat \ {0} /\ MaxFaults \in Nat
ASSUME AdminNoneAssumption ==
    None \notin Ids \cup Places \cup Secrets \cup Rows

VARIABLES
    dests,    \* destinations table: id -> row, None once deleted or not yet inserted
    lastId,   \* sqlite_sequence: AUTOINCREMENT never gives an id twice
    links,    \* schedule_destinations: the linked ids
    files,    \* what each place holds: the archives of these runs
    pc, var,  \* each request's and run's next statement and local variables
    alone,    \* the requests no other request has overlapped with
    faults    \* how many calls have failed

tables == <<dests, lastId, links>>
vars == <<tables, files, pc, var, alone, faults>>

Vars == [id : Ids \cup {None},
         place : Places \cup {None},     \* as given; delete: of the destination built
         secret : Secrets \cup {None},   \* as given
         old : Secrets \cup {None},      \* update: existing.EncryptedSecret
         left : SUBSET Runs,             \* delete: listed, not yet deleted
         owed : SUBSET Runs,             \* delete: what was there when the row went
         spared : SUBSET Runs]           \* delete: what a failed call left there
NoVars == [id |-> None, place |-> None, secret |-> None, old |-> None,
           left |-> {}, owed |-> {}, spared |-> {}]

\* One destination is configured, and a schedule links to it or not.
Init ==
    /\ lastId = 1
    /\ \E row \in Rows : dests = [i \in Ids |-> IF i = 1 THEN row ELSE None]
    /\ links \in SUBSET {1}
    /\ files = [p \in Places |-> {}]
    /\ pc = [a \in Actors |-> "new"] /\ var = [a \in Actors |-> NoVars]
    /\ alone = {}
    /\ faults = 0

Busy == {q \in Requests : pc[q] \notin {"new", "done"}}
Exists(i) == dests[i] # None
Goto(a, stage) == pc' = [pc EXCEPT ![a] = stage]
Fault == faults < MaxFaults /\ faults' = faults + 1
Reject(q) == Goto(q, "done") /\ UNCHANGED <<tables, files, var, faults>>
Quiet == UNCHANGED alone

-----------------------------------------------------------------------------
(* A request arrives. *)

Begin(q, stage, locals) ==
    /\ pc[q] = "new"
    /\ Goto(q, stage)
    /\ var' = [var EXCEPT ![q] = locals]
    /\ alone' = IF Busy = {} THEN alone \cup {q} ELSE alone \ Busy
    /\ UNCHANGED <<tables, files, faults>>

\* Nothing keeps two destinations from having one place: names need not differ.
Create(q, place, secret) ==
    /\ lastId < MaxRows
    /\ Begin(q, "insert", [NoVars EXCEPT !.place = place, !.secret = secret])

\* With or without a secret.
Update(q, i, place, secret) ==
    /\ i <= lastId
    /\ Begin(q, "read", [NoVars EXCEPT !.id = i, !.place = place, !.secret = secret])

\* With or without purge=true: a purge builds the destination first.
Delete(q, i, stage) ==
    i <= lastId /\ Begin(q, stage, [NoVars EXCEPT !.id = i])

-----------------------------------------------------------------------------
(* handleCreateDestination, handleUpdateDestination *)

Insert_ReusesIds(q) ==
    /\ pc[q] = "insert"
    /\ \E i \in Ids :
          /\ ~Exists(i) /\ \A j \in Ids : Exists(j) => j < i
          /\ dests' = [dests EXCEPT ![i] = [place |-> var[q].place, secret |-> var[q].secret]]
          /\ var' = [var EXCEPT ![q].id = i]
    /\ Goto(q, "reload")
    /\ Quiet /\ UNCHANGED <<lastId, links, files, faults>>

Insert(q) ==
    /\ pc[q] = "insert" /\ lastId < MaxRows
    /\ lastId' = lastId + 1
    /\ dests' = [dests EXCEPT ![lastId'] = [place |-> var[q].place, secret |-> var[q].secret]]
    /\ var' = [var EXCEPT ![q].id = lastId']
    /\ Goto(q, "reload")
    /\ Quiet /\ UNCHANGED <<links, files, faults>>

\* Preserve the existing secret unless a new one was provided.
ReadSecret_Dropped(q) ==
    /\ pc[q] = "read"
    /\ IF Exists(var[q].id)
       THEN Goto(q, "write") /\ UNCHANGED <<tables, files, var, faults>>
       ELSE Reject(q)
    /\ Quiet

ReadSecret(q) ==
    /\ pc[q] = "read"
    /\ IF Exists(var[q].id)
       THEN /\ var' = [var EXCEPT ![q].old = dests[var[q].id].secret]
            /\ Goto(q, "write") /\ UNCHANGED <<tables, files, faults>>
       ELSE Reject(q)
    /\ Quiet

Updated(q) == [place |-> var[q].place,
               secret |-> IF var[q].secret = None THEN var[q].old ELSE var[q].secret]

WriteRow_Upsert(q) ==
    /\ pc[q] = "write"
    /\ dests' = [dests EXCEPT ![var[q].id] = Updated(q)]
    /\ Goto(q, "reload") /\ UNCHANGED <<lastId, links, files, var, faults>>
    /\ Quiet

WriteRow(q) ==
    /\ pc[q] = "write"
    /\ IF Exists(var[q].id)
       THEN /\ dests' = [dests EXCEPT ![var[q].id] = Updated(q)]
            /\ Goto(q, "reload") /\ UNCHANGED <<lastId, links, files, var, faults>>
       ELSE Reject(q)
    /\ Quiet

\* The row is read back for the answer; if it has gone the answer is an error.
Reload(q) == pc[q] = "reload" /\ Reject(q) /\ Quiet

-----------------------------------------------------------------------------
(* handleDeleteDestination *)

\* With no row there is nothing to build: the request goes on without a purge.
Build(q) ==
    /\ pc[q] = "build"
    /\ var' = [var EXCEPT ![q].place =
                  IF Exists(var[q].id) THEN dests[var[q].id].place ELSE None]
    /\ Goto(q, "count")
    /\ Quiet /\ UNCHANGED <<tables, files, faults>>

CountLinks_Skipped(q) ==
    /\ pc[q] = "count"
    /\ Goto(q, "delete") /\ UNCHANGED <<tables, files, var, faults>>
    /\ Quiet

CountLinks_PurgesAnyway(q) ==
    /\ pc[q] = "count"
    /\ Goto(q, IF var[q].id \notin links THEN "delete"
               ELSE IF var[q].place = None THEN "done" ELSE "list")
    /\ UNCHANGED <<tables, files, var, faults>>
    /\ Quiet

CountLinks(q) ==
    /\ pc[q] = "count"
    /\ IF var[q].id \in links THEN Reject(q)
       ELSE Goto(q, "delete") /\ UNCHANGED <<tables, files, var, faults>>
    /\ Quiet

\* The foreign key cascades: a link set since the count goes with the row.
DeleteRow(q) ==
    /\ pc[q] = "delete"
    /\ IF Exists(var[q].id)
       THEN /\ dests' = [dests EXCEPT ![var[q].id] = None]
            /\ links' = links \ {var[q].id}
            /\ var' = [var EXCEPT ![q].owed = files[dests[var[q].id].place]]
            /\ Goto(q, IF var[q].place = None THEN "done" ELSE "list")
            /\ UNCHANGED <<lastId, files, faults>>
       ELSE Reject(q)
    /\ Quiet

\* Errors of the purge are logged; the answer is the same.
ListFiles(q) ==
    /\ pc[q] = "list"
    /\ \/ /\ var' = [var EXCEPT ![q].left = files[var[q].place]]
          /\ Goto(q, IF files[var[q].place] = {} THEN "done" ELSE "purge")
          /\ UNCHANGED faults
       \/ /\ Fault
          /\ var' = [var EXCEPT ![q].spared = var[q].owed]
          /\ Goto(q, "done")
    /\ Quiet /\ UNCHANGED <<tables, files>>

PurgeFile_StopsAtError(q) ==
    /\ pc[q] = "purge"
    /\ \E f \in var[q].left :
          \/ /\ files' = [files EXCEPT ![var[q].place] = @ \ {f}]
             /\ var' = [var EXCEPT ![q].left = @ \ {f}]
             /\ Goto(q, IF var[q].left = {f} THEN "done" ELSE "purge")
             /\ UNCHANGED faults
          \/ /\ Fault /\ UNCHANGED files
             /\ var' = [var EXCEPT ![q].left = {}, ![q].spared = @ \cup {f}]
             /\ Goto(q, "done")
    /\ Quiet /\ UNCHANGED tables

PurgeFile(q) ==
    /\ pc[q] = "purge"
    /\ \E f \in var[q].left :
          /\ \/ /\ files' = [files EXCEPT ![var[q].place] = @ \ {f}]
                /\ var' = [var EXCEPT ![q].left = @ \ {f}]
                /\ UNCHANGED faults
             \/ /\ Fault /\ UNCHANGED files
                /\ var' = [var EXCEPT ![q].left = @ \ {f}, ![q].spared = @ \cup {f}]
          /\ Goto(q, IF var[q].left = {f} THEN "done" ELSE "purge")
    /\ Quiet /\ UNCHANGED tables

-----------------------------------------------------------------------------
(* What else touches the tables and the files. *)

SetLinks_Unchecked(q, ids) ==
    /\ pc[q] = "new"
    /\ links' = ids
    /\ Goto(q, "done")
    /\ alone' = alone \ Busy
    /\ UNCHANGED <<dests, lastId, files, var, faults>>

\* SetScheduleDestinations: one transaction, and a request of its own.  A link
\* to a destination that is gone aborts it.
SetLinks(q, ids) ==
    /\ pc[q] = "new"
    /\ links' = IF \A i \in ids : Exists(i) THEN ids ELSE links
    /\ Goto(q, "done")
    /\ alone' = alone \ Busy
    /\ UNCHANGED <<dests, lastId, files, var, faults>>

\* A run has read its links; it reads the destination's row and stores there.
StartStore(r, i) ==
    /\ pc[r] = "new" /\ i \in links
    /\ var' = [var EXCEPT ![r].id = i]
    /\ Goto(r, "row")
    /\ Quiet /\ UNCHANGED <<tables, files, faults>>

ReadRow(r) ==
    /\ pc[r] = "row"
    /\ IF Exists(var[r].id)
       THEN /\ var' = [var EXCEPT ![r].place = dests[var[r].id].place]
            /\ Goto(r, "store") /\ UNCHANGED <<tables, files, faults>>
       ELSE Reject(r)
    /\ Quiet

Store(r) ==
    /\ pc[r] = "store"
    /\ files' = [files EXCEPT ![var[r].place] = @ \cup {r}]
    /\ Goto(r, "done")
    /\ Quiet /\ UNCHANGED <<tables, var, faults>>

-----------------------------------------------------------------------------
Handler(q) ==
    \/ Insert(q) \/ ReadSecret(q) \/ WriteRow(q) \/ Reload(q)
    \/ Build(q) \/ CountLinks(q) \/ DeleteRow(q) \/ ListFiles(q) \/ PurgeFile(q)

Next ==
    \/ \E q \in Requests :
          \/ \E p \in Places, s \in Secrets \cup {None} :
                \/ Create(q, p, s)
                \/ \E i \in Ids : Update(q, i, p, s)
          \/ \E i \in Ids, stage \in {"build", "count"} : Delete(q, i, stage)
          \/ \E ids \in SUBSET Ids : SetLinks(q, ids)
          \/ Handler(q)
    \/ \E r \in Runs : (\E i \in Ids : StartStore(r, i)) \/ ReadRow(r) \/ Store(r)

Spec == Init /\ [][Next]_vars

-----------------------------------------------------------------------------
(* Properties.  Those about an alone request say what one promises that no    *)
(* other request overlaps with: runs go on all the same.                      *)

TypeOK ==
    /\ dests \in [Ids -> Rows \cup {None}] /\ lastId \in 0..MaxRows
    /\ links \subseteq Ids
    /\ \A i \in Ids : Exists(i) => i <= lastId
    /\ files \in [Places -> SUBSET Runs]
    /\ pc \in [Actors -> {"new", "insert", "read", "write", "reload", "build", "count",
                          "delete", "list", "purge", "row", "store", "done"}]
    /\ var \in [Actors -> Vars]
    /\ alone \subseteq Requests
    /\ faults \in Nat

\* No link leads to a destination that is gone, however requests overlap.
LinksHold == \A i \in links : Exists(i)

\* A destination that is deleted never comes back, whatever update was under way
\* (UpdateDestination updates a row or none; ids are not reused).
DeletedStaysDeleted ==
    [][\A i \in Ids : i <= lastId /\ ~Exists(i) => ~Exists(i)']_vars

\* An update that gives no secret leaves the destination's as it was
\* (handleUpdateDestination: "Preserve the existing secret").
SecretKept ==
    [][\A q \in alone :
          pc[q] = "write" /\ pc'[q] = "reload" /\ var[q].secret = None =>
             dests'[var[q].id].secret = dests[var[q].id].secret]_vars

\* Deleting a destination never drops it out of a schedule (ErrDestinationInUse).
DeleteDropsNoLink ==
    [][\A q \in alone : pc[q] = "delete" /\ pc'[q] # "delete" => links' = links]_vars

\* A purge takes every archive that was there when the destination was deleted,
\* but those whose own delete failed, although runs store there meanwhile.
PurgeTakesAll ==
    \A q \in alone : pc[q] = "done" /\ var[q].place # None =>
        var[q].owed \cap files[var[q].place] \subseteq var[q].spared

\* A purge takes files only once its destination's row is gone: a refused delete takes
\* nothing, however requests overlap.  And it takes them where that row last said, though
\* the purge's destination was built from an earlier read.
PurgesOnlyTheDeleted ==
    [][/\ \A q \in Requests :
             pc[q] = "purge" /\ var'[q] # var[q] /\ files' # files => ~Exists(var[q].id)
       /\ \A q \in alone :
             pc[q] = "delete" /\ pc'[q] = "list" => dests[var[q].id].place = var[q].place]_vars
=============================================================================
