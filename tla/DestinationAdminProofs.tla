---------------------- MODULE DestinationAdminProofs ----------------------
(***************************************************************************)
(* Proofs about DestinationAdmin, for any number of requests, runs and     *)
(* destinations: what holds however requests overlap, and what a request   *)
(* may rely on that no other overlaps with.                                *)
(***************************************************************************)
EXTENDS DestinationAdmin, TLAPS

USE DEF Actors, Ids, Exists, Goto, Quiet, tables

-----------------------------------------------------------------------------
(* Types.  What a stage's local variables hold is decided by the stage.        *)

AllStages == {"new", "insert", "read", "write", "reload", "build", "count",
              "delete", "list", "purge", "row", "store", "done"}

Fits(stage, v) ==
    /\ stage \in {"read", "write", "build", "count", "delete", "row", "store"} => v.id \in Ids
    /\ stage \in {"read", "write", "build", "count", "delete"} => v.id <= lastId
    /\ stage \in {"insert", "read", "write", "list", "purge", "store"} => v.place \in Places
StagesFit == \A a \in Actors : Fits(pc[a], var[a])
TInv == TypeOK /\ StagesFit

\* The locals of a request that begins, and what the later steps make of them.
LEMMA VarsMade ==
    /\ NoVars \in Vars
    /\ \A v \in Vars :
          /\ \A i \in Ids \cup {None} : [v EXCEPT !.id = i] \in Vars
          /\ \A p \in Places \cup {None} : [v EXCEPT !.place = p] \in Vars
          /\ \A s \in Secrets \cup {None} : [v EXCEPT !.secret = s] \in Vars
          /\ \A s \in Secrets \cup {None} : [v EXCEPT !.old = s] \in Vars
          /\ \A fs \in SUBSET Runs : /\ [v EXCEPT !.left = fs] \in Vars
                                     /\ [v EXCEPT !.owed = fs] \in Vars
                                     /\ [v EXCEPT !.spared = fs] \in Vars
<1> QED BY DEF NoVars, Vars

LEMMA InitTypes == Init => TInv
<1> SUFFICES ASSUME Init PROVE TInv
    OBVIOUS
<1>1. lastId \in 0..MaxRows /\ \A i \in Ids : Exists(i) => i <= lastId
    BY AdminBoundsAssumption DEF Init
<1>2. dests \in [Ids -> Rows \cup {None}] /\ links \subseteq Ids
    BY AdminBoundsAssumption DEF Init
<1> QED BY <1>1, <1>2, VarsMade DEF Init, TInv, TypeOK, StagesFit, Fits

\* An actor moves on with locals that fit its next stage.
LEMMA MoveTypes ==
    ASSUME TInv, NEW a \in Actors, NEW stage \in AllStages, NEW v \in Vars,
           pc' = [pc EXCEPT ![a] = stage], var' = [var EXCEPT ![a] = v],
           lastId' \in Nat, lastId <= lastId', Fits(stage, v)'
    PROVE  pc' \in [Actors -> AllStages] /\ var' \in [Actors -> Vars] /\ StagesFit'
<1>1. pc' \in [Actors -> AllStages] /\ var' \in [Actors -> Vars]
    BY DEF TInv, TypeOK, AllStages
<1>2. ASSUME NEW b \in Actors PROVE Fits(pc[b], var[b])'
  <2>1. CASE b = a
    <3>1. pc'[b] = stage /\ var'[b] = v
        BY <2>1 DEF TInv, TypeOK
    <3> QED BY <3>1 DEF Fits
  <2>2. CASE b # a
    <3>1. pc'[b] = pc[b] /\ var'[b] = var[b] /\ Fits(pc[b], var[b])
        BY <2>2 DEF TInv, TypeOK, StagesFit
    <3>2. \A i \in Ids : i <= lastId => i <= lastId'
        BY AdminBoundsAssumption DEF TInv, TypeOK
    <3> QED BY <3>1, <3>2 DEF Fits
  <2> QED BY <2>1, <2>2
<1> QED BY <1>1, <1>2 DEF StagesFit

\* What TypeOK says besides the stages and the locals.
TablesOK ==
    /\ dests \in [Ids -> Rows \cup {None}] /\ lastId \in 0..MaxRows
    /\ links \subseteq Ids
    /\ \A i \in Ids : Exists(i) => i <= lastId
    /\ files \in [Places -> SUBSET Runs]
    /\ alone \subseteq Requests
    /\ faults \in Nat

LEMMA TypesSplit ==
    TypeOK <=> TablesOK /\ pc \in [Actors -> AllStages] /\ var \in [Actors -> Vars]
<1> QED BY DEF TypeOK, TablesOK, AllStages

\* A step that moves an actor and keeps the tables in their types keeps all types.
LEMMA MoveKeeps ==
    ASSUME TInv, TablesOK', NEW a \in Actors, NEW stage \in AllStages, NEW v \in Vars,
           pc' = [pc EXCEPT ![a] = stage], var' = [var EXCEPT ![a] = v],
           lastId <= lastId', Fits(stage, v)'
    PROVE  TInv'
<1>1. lastId' \in Nat
    BY AdminBoundsAssumption DEF TablesOK
<1>2. pc' \in [Actors -> AllStages] /\ var' \in [Actors -> Vars] /\ StagesFit'
    BY <1>1, MoveTypes
<1>3. TypeOK'
    BY <1>2 DEF TypeOK, TablesOK, AllStages
<1> QED BY <1>2, <1>3 DEF TInv

\* A request begins.
LEMMA BeginTypes ==
    ASSUME TInv, NEW q \in Requests, NEW stage \in AllStages, NEW v \in Vars,
           Begin(q, stage, v), Fits(stage, v)
    PROVE  TInv'
<1>1. TablesOK'
    BY TypesSplit DEF TInv, TablesOK, Begin, Busy
<1>2. Fits(stage, v)' /\ lastId <= lastId'
  <2>1. lastId' = lastId /\ lastId \in Nat
      BY AdminBoundsAssumption DEF Begin, TInv, TypeOK
  <2> QED BY <2>1 DEF Fits
<1> QED BY <1>1, <1>2, MoveKeeps DEF Begin

LEMMA RequestTypes ==
    ASSUME TInv, NEW q \in Requests,
           \/ \E p \in Places, s \in Secrets \cup {None} :
                 Create(q, p, s) \/ \E i \in Ids : Update(q, i, p, s)
           \/ \E i \in Ids, stage \in {"build", "count"} : Delete(q, i, stage)
    PROVE  TInv'
<1>1. ASSUME NEW p \in Places, NEW s \in Secrets \cup {None}, Create(q, p, s) PROVE TInv'
  <2> DEFINE v == [NoVars EXCEPT !.place = p, !.secret = s]
  <2>1. v \in Vars /\ v.place = p
      BY DEF NoVars, Vars
  <2> QED BY <1>1, <2>1, BeginTypes DEF Create, Fits, AllStages
<1>2. ASSUME NEW p \in Places, NEW s \in Secrets \cup {None}, NEW i \in Ids, Update(q, i, p, s)
      PROVE  TInv'
  <2> DEFINE v == [NoVars EXCEPT !.id = i, !.place = p, !.secret = s]
  <2>1. v \in Vars /\ v.place = p /\ v.id = i
      BY DEF NoVars, Vars
  <2>2. i <= lastId /\ Begin(q, "read", v)
      BY <1>2 DEF Update
  <2>3. Fits("read", v)
      BY <2>1, <2>2 DEF Fits
  <2> QED BY <2>1, <2>2, <2>3, BeginTypes DEF AllStages
<1>3. ASSUME NEW i \in Ids, NEW stage \in {"build", "count"}, Delete(q, i, stage) PROVE TInv'
  <2> DEFINE v == [NoVars EXCEPT !.id = i]
  <2>1. v \in Vars /\ v.id = i
      BY DEF NoVars, Vars
  <2>2. i <= lastId /\ Begin(q, stage, v) /\ stage \in AllStages
      BY <1>3 DEF Delete, AllStages
  <2>3. Fits(stage, v)
      BY <2>1, <2>2 DEF Fits
  <2> HIDE DEF v
  <2> QED BY <2>1, <2>2, <2>3, BeginTypes
<1> QED BY <1>1, <1>2, <1>3

\* An actor that ends, or stays with its locals as they are.
LEMMA StayTypes ==
    ASSUME TInv, TablesOK', UNCHANGED <<lastId, var>>, NEW a \in Actors, NEW stage \in AllStages,
           pc' = [pc EXCEPT ![a] = stage],
           Fits(stage, var[a])
    PROVE  TInv'
<1>1. var[a] \in Vars
    BY DEF TInv, TypeOK
<1>2. PICK v \in Vars : v = var[a]
    BY <1>1
<1>3. var' = [var EXCEPT ![a] = v] /\ Fits(stage, v)' /\ lastId <= lastId'
    BY <1>2, AdminBoundsAssumption DEF TInv, TypeOK, Fits
<1> QED BY <1>3, MoveKeeps

LEMMA RejectTypes ==
    ASSUME TInv, NEW a \in Actors, Reject(a), UNCHANGED alone
    PROVE  TInv'
<1>1. TablesOK' /\ UNCHANGED <<lastId, var>>
    BY TypesSplit DEF TInv, TablesOK, Reject
<1> QED BY <1>1, StayTypes DEF Reject, AllStages, Fits

\* What an actor in a stage that needs them has in its locals.
LEMMA Locals ==
    ASSUME TInv, NEW a \in Actors
    PROVE  /\ var[a] \in Vars /\ lastId \in Nat /\ lastId <= MaxRows /\ MaxRows \in Nat
           /\ var[a].id \in Ids \cup {None} /\ var[a].place \in Places \cup {None}
           /\ var[a].secret \in Secrets \cup {None} /\ var[a].old \in Secrets \cup {None}
           /\ var[a].left \subseteq Runs /\ var[a].owed \subseteq Runs /\ var[a].spared \subseteq Runs
           /\ Fits(pc[a], var[a])
<1> QED BY AdminBoundsAssumption DEF TInv, TypeOK, StagesFit, Vars

\* The handlers of create and update.
LEMMA EditTypes ==
    ASSUME TInv, NEW q \in Requests, Insert(q) \/ ReadSecret(q) \/ WriteRow(q) \/ Reload(q)
    PROVE  TInv'
<1> USE Locals
<1>0. TablesOK
    BY TypesSplit DEF TInv
<1>1. CASE Insert(q)
  <2>1. lastId' = lastId + 1 /\ lastId' \in Ids /\ var[q].place \in Places
      BY <1>1 DEF Insert, Fits
  <2>2. [place |-> var[q].place, secret |-> var[q].secret] \in Rows
      BY <2>1 DEF Rows
  <2>3. dests' \in [Ids -> Rows \cup {None}] /\ \A i \in Ids : Exists(i)' => i <= lastId'
      BY <1>0, <1>1, <2>1, <2>2 DEF Insert, TablesOK
  <2>4. TablesOK'
      BY <1>0, <1>1, <2>1, <2>3, AdminBoundsAssumption DEF Insert, TablesOK
  <2>5. PICK v \in Vars : v = [var[q] EXCEPT !.id = lastId']
      BY <2>1, VarsMade
  <2>6. var' = [var EXCEPT ![q] = v]
      BY <1>1, <2>5 DEF Insert
  <2>7. pc' = [pc EXCEPT ![q] = "reload"] /\ "reload" \in AllStages /\ q \in Actors
      BY <1>1 DEF Insert, AllStages
  <2>8. lastId <= lastId' /\ Fits("reload", v)'
      BY <2>1 DEF Fits
  <2> QED BY <2>4, <2>6, <2>7, <2>8, MoveKeeps
<1>2. CASE ReadSecret(q)
  <2>1. CASE ~Exists(var[q].id)
      BY <1>2, <2>1, RejectTypes DEF ReadSecret
  <2>2. CASE Exists(var[q].id)
    <3>1. var[q].id \in Ids /\ var[q].id <= lastId /\ var[q].place \in Places
        BY <1>2 DEF ReadSecret, Fits
    <3>2. dests[var[q].id].secret \in Secrets \cup {None}
        BY <1>0, <2>2, <3>1 DEF TablesOK, Rows
    <3>3. PICK v \in Vars : v = [var[q] EXCEPT !.old = dests[var[q].id].secret]
        BY <3>2, VarsMade
    <3>4. var' = [var EXCEPT ![q] = v] /\ pc' = [pc EXCEPT ![q] = "write"]
        BY <1>2, <2>2, <3>3 DEF ReadSecret
    <3>5. v.id = var[q].id /\ v.place = var[q].place
        BY <3>3 DEF Vars
    <3>6. TablesOK' /\ lastId' = lastId
        BY <1>0, <1>2, <2>2 DEF ReadSecret, TablesOK
    <3>7. Fits("write", v)' /\ "write" \in AllStages /\ q \in Actors /\ lastId <= lastId'
        BY <3>1, <3>5, <3>6 DEF AllStages, Fits
    <3> QED BY <3>4, <3>6, <3>7, MoveKeeps
  <2> QED BY <2>1, <2>2
<1>3. CASE WriteRow(q)
  <2>1. CASE ~Exists(var[q].id)
      BY <1>3, <2>1, RejectTypes DEF WriteRow
  <2>2. CASE Exists(var[q].id)
    <3>1. var[q].id \in Ids /\ Updated(q) \in Rows
        BY <1>3 DEF WriteRow, Fits, Updated, Rows
    <3>2. TablesOK'
        BY <1>0, <1>3, <2>2, <3>1 DEF WriteRow, TablesOK
    <3> QED BY <1>3, <2>2, <3>2, StayTypes DEF WriteRow, AllStages, Fits
  <2> QED BY <2>1, <2>2
<1>4. CASE Reload(q)
    BY <1>4, RejectTypes DEF Reload
<1> QED BY <1>1, <1>2, <1>3, <1>4

\* The handler of delete.
LEMMA DeleteTypes ==
    ASSUME TInv, NEW q \in Requests,
           Build(q) \/ CountLinks(q) \/ DeleteRow(q) \/ ListFiles(q) \/ PurgeFile(q)
    PROVE  TInv'
<1> USE Locals
<1>0. TablesOK
    BY TypesSplit DEF TInv
<1>1. CASE Build(q)
  <2>1. var[q].id \in Ids /\ var[q].id <= lastId
      BY <1>1 DEF Build, Fits
  <2>2. PICK p \in Places \cup {None} :
           p = IF Exists(var[q].id) THEN dests[var[q].id].place ELSE None
      BY <1>0, <2>1 DEF TablesOK, Rows
  <2>3. PICK v \in Vars : v = [var[q] EXCEPT !.place = p]
      BY VarsMade
  <2>4. var' = [var EXCEPT ![q] = v] /\ v.id = var[q].id
      BY <1>1, <2>2, <2>3 DEF Build, Vars
  <2>5. TablesOK' /\ lastId' = lastId
      BY <1>0, <1>1 DEF Build, TablesOK
  <2>6. pc' = [pc EXCEPT ![q] = "count"] /\ "count" \in AllStages /\ q \in Actors
      BY <1>1 DEF Build, AllStages
  <2>7. Fits("count", v)' /\ lastId <= lastId'
      BY <2>1, <2>4, <2>5 DEF Fits
  <2> QED BY <2>4, <2>5, <2>6, <2>7, MoveKeeps
<1>2. CASE CountLinks(q)
  <2>1. CASE var[q].id \in links
      BY <1>2, <2>1, RejectTypes DEF CountLinks
  <2>2. CASE var[q].id \notin links
    <3>1. TablesOK'
        BY <1>0, <1>2, <2>2 DEF CountLinks, TablesOK
    <3>2. Fits("delete", var[q])
        BY <1>2 DEF CountLinks, Fits
    <3> QED BY <1>2, <2>2, <3>1, <3>2, StayTypes DEF CountLinks, AllStages
  <2> QED BY <2>1, <2>2
<1>3. CASE DeleteRow(q)
  <2>1. CASE ~Exists(var[q].id)
      BY <1>3, <2>1, RejectTypes DEF DeleteRow
  <2>2. CASE Exists(var[q].id)
    <3>1. var[q].id \in Ids
        BY <1>3 DEF DeleteRow, Fits
    <3>2. files[dests[var[q].id].place] \subseteq Runs
        BY <1>0, <2>2, <3>1 DEF TablesOK, Rows
    <3>3. PICK v \in Vars : v = [var[q] EXCEPT !.owed = files[dests[var[q].id].place]]
        BY <3>2, VarsMade
    <3>4. PICK stage \in {"done", "list"} : stage = IF var[q].place = None THEN "done" ELSE "list"
        OBVIOUS
    <3>5. var' = [var EXCEPT ![q] = v] /\ v.place = var[q].place /\ pc' = [pc EXCEPT ![q] = stage]
        BY <1>3, <2>2, <3>3, <3>4 DEF DeleteRow, Vars
    <3>6. TablesOK' /\ lastId' = lastId
        BY <1>0, <1>3, <2>2, <3>1 DEF DeleteRow, TablesOK
    <3>7. Fits(stage, v)'
        BY <3>4, <3>5 DEF Fits
    <3>8. stage \in AllStages /\ q \in Actors /\ lastId <= lastId'
        BY <3>6 DEF AllStages
    <3> QED BY <3>5, <3>6, <3>7, <3>8, MoveKeeps
  <2> QED BY <2>1, <2>2
<1>4. CASE ListFiles(q)
  <2>1. var[q].place \in Places /\ files[var[q].place] \subseteq Runs
      BY <1>0, <1>4 DEF ListFiles, Fits, TablesOK
  <2>2. TablesOK' /\ lastId' = lastId
      BY <1>0, <1>4 DEF ListFiles, Fault, TablesOK
  <2>3. PICK v \in Vars : var' = [var EXCEPT ![q] = v] /\ v.place = var[q].place
    <3>1. CASE var' = [var EXCEPT ![q].left = files[var[q].place]]
      <4>1. PICK v \in Vars : v = [var[q] EXCEPT !.left = files[var[q].place]]
          BY <2>1, VarsMade
      <4> QED BY <3>1, <4>1 DEF Vars
    <3>2. CASE var' = [var EXCEPT ![q].spared = var[q].owed]
      <4>1. PICK v \in Vars : v = [var[q] EXCEPT !.spared = var[q].owed]
          BY VarsMade
      <4> QED BY <3>2, <4>1 DEF Vars
    <3> QED BY <1>4, <3>1, <3>2 DEF ListFiles
  <2>4. PICK stage \in {"done", "purge"} : pc' = [pc EXCEPT ![q] = stage]
      BY <1>4 DEF ListFiles
  <2>5. Fits(stage, v)'
      BY <2>1, <2>3, <2>4 DEF Fits
  <2>6. stage \in AllStages /\ q \in Actors /\ lastId <= lastId'
      BY <2>2 DEF AllStages
  <2> QED BY <2>2, <2>3, <2>4, <2>5, <2>6, MoveKeeps
<1>5. CASE PurgeFile(q)
  <2>1. var[q].place \in Places
      BY <1>5 DEF PurgeFile, Fits
  <2>2. TablesOK' /\ lastId' = lastId
      BY <1>0, <1>5 DEF PurgeFile, Fault, TablesOK
  <2>3. PICK v \in Vars : var' = [var EXCEPT ![q] = v] /\ v.place = var[q].place
    <3>1. PICK f \in var[q].left :
             \/ var' = [var EXCEPT ![q].left = @ \ {f}]
             \/ var' = [var EXCEPT ![q].left = @ \ {f}, ![q].spared = @ \cup {f}]
        BY <1>5 DEF PurgeFile
    <3>2. CASE var' = [var EXCEPT ![q].left = @ \ {f}]
      <4>1. PICK v \in Vars : v = [var[q] EXCEPT !.left = @ \ {f}]
          BY VarsMade
      <4> QED BY <3>2, <4>1 DEF Vars
    <3>3. CASE var' = [var EXCEPT ![q].left = @ \ {f}, ![q].spared = @ \cup {f}]
      <4> DEFINE u == [var[q] EXCEPT !.left = var[q].left \ {f}]
                 v == [u EXCEPT !.spared = var[q].spared \cup {f}]
      <4>0. u \in Vars
          BY VarsMade
      <4>1. u.spared = var[q].spared /\ u.place = var[q].place
          BY DEF Vars
      <4>2. var \in [Actors -> Vars] /\ q \in Actors /\ var[q].spared \cup {f} \in SUBSET Runs
          BY <3>1 DEF TInv, TypeOK
      <4>3. var' = [[var EXCEPT ![q] = u] EXCEPT ![q].spared = @ \cup {f}]
        <5>1. [var EXCEPT ![q].left = @ \ {f}] = [var EXCEPT ![q] = u]
            BY <4>2
        <5>2. var' = [[var EXCEPT ![q].left = @ \ {f}] EXCEPT ![q].spared = @ \cup {f}]
            BY <3>3
        <5> QED BY <5>1, <5>2
      <4> HIDE DEF u
      <4>4. v \in Vars /\ v.place = u.place
          BY <4>0, <4>2, VarsMade DEF Vars
      <4>5. var' = [var EXCEPT ![q] = v]
          BY <4>0, <4>1, <4>2, <4>3
      <4> QED BY <4>1, <4>4, <4>5
    <3> QED BY <3>1, <3>2, <3>3
  <2>4. PICK stage \in {"done", "purge"} : pc' = [pc EXCEPT ![q] = stage]
      BY <1>5 DEF PurgeFile
  <2>5. Fits(stage, v)'
      BY <2>1, <2>3, <2>4 DEF Fits
  <2>6. stage \in AllStages /\ q \in Actors /\ lastId <= lastId'
      BY <2>2 DEF AllStages
  <2> QED BY <2>2, <2>3, <2>4, <2>5, <2>6, MoveKeeps
<1> QED BY <1>1, <1>2, <1>3, <1>4, <1>5

\* A schedule's links being set, and the steps of a run.
LEMMA OtherTypes ==
    ASSUME TInv, \/ \E q \in Requests, ids \in SUBSET Ids : SetLinks(q, ids)
                 \/ \E r \in Runs : (\E i \in Ids : StartStore(r, i)) \/ ReadRow(r) \/ Store(r)
    PROVE  TInv'
<1> USE Locals
<1>0. TablesOK
    BY TypesSplit DEF TInv
<1>1. ASSUME NEW q \in Requests, NEW ids \in SUBSET Ids, SetLinks(q, ids) PROVE TInv'
  <2>1. TablesOK'
      BY <1>0, <1>1 DEF SetLinks, TablesOK
  <2> QED BY <1>1, <2>1, StayTypes DEF SetLinks, AllStages, Fits
<1>2. ASSUME NEW r \in Runs, NEW i \in Ids, StartStore(r, i) PROVE TInv'
  <2>1. PICK v \in Vars : v = [var[r] EXCEPT !.id = i]
      BY VarsMade
  <2>2. var' = [var EXCEPT ![r] = v] /\ v.id = i /\ pc' = [pc EXCEPT ![r] = "row"]
      BY <1>2, <2>1 DEF StartStore, Vars
  <2>3. TablesOK' /\ lastId' = lastId
      BY <1>0, <1>2 DEF StartStore, TablesOK
  <2>4. Fits("row", v)' /\ "row" \in AllStages /\ r \in Actors /\ lastId <= lastId'
      BY <2>2, <2>3 DEF Fits, AllStages
  <2> QED BY <2>2, <2>3, <2>4, MoveKeeps
<1>3. ASSUME NEW r \in Runs, ReadRow(r) PROVE TInv'
  <2>1. CASE ~Exists(var[r].id)
      BY <1>3, <2>1, RejectTypes DEF ReadRow
  <2>2. CASE Exists(var[r].id)
    <3>1. var[r].id \in Ids /\ dests[var[r].id].place \in Places
        BY <1>0, <1>3, <2>2 DEF ReadRow, Fits, TablesOK, Rows
    <3>2. PICK v \in Vars : v = [var[r] EXCEPT !.place = dests[var[r].id].place]
        BY <3>1, VarsMade
    <3>3. /\ var' = [var EXCEPT ![r] = v] /\ pc' = [pc EXCEPT ![r] = "store"]
          /\ v.id = var[r].id /\ v.place \in Places
        BY <1>3, <2>2, <3>1, <3>2 DEF ReadRow, Vars
    <3>4. TablesOK' /\ lastId' = lastId
        BY <1>0, <1>3, <2>2 DEF ReadRow, TablesOK
    <3>5. Fits("store", v)' /\ "store" \in AllStages /\ r \in Actors /\ lastId <= lastId'
        BY <3>1, <3>3, <3>4 DEF Fits, AllStages
    <3> QED BY <3>3, <3>4, <3>5, MoveKeeps
  <2> QED BY <2>1, <2>2
<1>4. ASSUME NEW r \in Runs, Store(r) PROVE TInv'
  <2>1. TablesOK'
      BY <1>0, <1>4 DEF Store, Fits, TablesOK
  <2> QED BY <1>4, <2>1, StayTypes DEF Store, AllStages, Fits
<1> QED BY <1>1, <1>2, <1>3, <1>4

LEMMA TypeStep == TInv /\ [Next]_vars => TInv'
<1> SUFFICES ASSUME TInv, [Next]_vars PROVE TInv'
    OBVIOUS
<1>1. CASE UNCHANGED vars
    BY <1>1 DEF vars, TInv, TypeOK, StagesFit, Fits
<1>2. CASE Next
    BY <1>2, RequestTypes, EditTypes, DeleteTypes, OtherTypes DEF Next, Handler
<1> QED BY <1>1, <1>2

\* Every table, file set and local variable keeps its type.
THEOREM TypeCorrect == Spec => []TypeOK
<1>1. TInv => TypeOK
    BY DEF TInv
<1> QED BY <1>1, InitTypes, TypeStep, PTL DEF Spec

-----------------------------------------------------------------------------
(* What holds however requests overlap.                                        *)

LInv == TInv /\ LinksHold

\* A row is never taken for a missing one.
LEMMA RowsExist == \A row \in Rows : row # None
<1> QED BY AdminNoneAssumption

\* What a step can do to the tables.
RowsKept == UNCHANGED <<dests, lastId>> /\ (links' = links \/ \A i \in links' : Exists(i))
RowAdded(row) == /\ lastId' = lastId + 1 /\ lastId < MaxRows /\ UNCHANGED links
                 /\ dests' = [dests EXCEPT ![lastId + 1] = row]
RowChanged(i, row) == /\ Exists(i) /\ UNCHANGED <<lastId, links>>
                      /\ dests' = [dests EXCEPT ![i] = row]
RowDropped(i) == /\ Exists(i) /\ UNCHANGED lastId
                 /\ dests' = [dests EXCEPT ![i] = None] /\ links' = links \ {i}

LEMMA RowSteps ==
    ASSUME TInv, Next
    PROVE  \/ RowsKept
           \/ \E row \in Rows : RowAdded(row) \/ \E i \in Ids : RowChanged(i, row)
           \/ \E i \in Ids : RowDropped(i)
<1> USE Locals
<1> DEFINE Goal == \/ RowsKept
                   \/ \E row \in Rows : RowAdded(row) \/ \E i \in Ids : RowChanged(i, row)
                   \/ \E i \in Ids : RowDropped(i)
<1>1. UNCHANGED tables => Goal
    BY DEF RowsKept
<1>2. ASSUME NEW q \in Requests, Insert(q) PROVE Goal
  <2>1. [place |-> var[q].place, secret |-> var[q].secret] \in Rows
      BY <1>2 DEF Insert, Fits, Rows
  <2>2. RowAdded([place |-> var[q].place, secret |-> var[q].secret])
      BY <1>2 DEF Insert, RowAdded
  <2> QED BY <2>1, <2>2
<1>3. ASSUME NEW q \in Requests, WriteRow(q), Exists(var[q].id) PROVE Goal
  <2>1. var[q].id \in Ids /\ Updated(q) \in Rows
      BY <1>3 DEF WriteRow, Fits, Updated, Rows
  <2>2. RowChanged(var[q].id, Updated(q))
      BY <1>3 DEF WriteRow, RowChanged
  <2> QED BY <2>1, <2>2
<1>4. ASSUME NEW q \in Requests, DeleteRow(q), Exists(var[q].id) PROVE Goal
  <2>1. var[q].id \in Ids
      BY <1>4 DEF DeleteRow, Fits
  <2>2. RowDropped(var[q].id)
      BY <1>4 DEF DeleteRow, RowDropped
  <2> QED BY <2>1, <2>2
<1>5. ASSUME NEW q \in Requests, Handler(q) PROVE Goal
  <2>1. \/ Insert(q) \/ (WriteRow(q) /\ Exists(var[q].id)) \/ (DeleteRow(q) /\ Exists(var[q].id))
        \/ UNCHANGED tables
      BY <1>5 DEF Handler, ReadSecret, WriteRow, Reload, Build, CountLinks, DeleteRow, ListFiles,
                  PurgeFile, Reject
  <2> QED BY <1>1, <1>2, <1>3, <1>4, <2>1
<1>6. ASSUME NEW q \in Requests, NEW ids \in SUBSET Ids, SetLinks(q, ids) PROVE Goal
    BY <1>6 DEF SetLinks, RowsKept
<1>7. ASSUME \/ \E q \in Requests, p \in Places, s \in Secrets \cup {None} :
                   Create(q, p, s) \/ \E i \in Ids : Update(q, i, p, s)
             \/ \E q \in Requests, i \in Ids, stage \in {"build", "count"} : Delete(q, i, stage)
             \/ \E r \in Runs : (\E i \in Ids : StartStore(r, i)) \/ ReadRow(r) \/ Store(r)
      PROVE  UNCHANGED tables
    BY <1>7 DEF Create, Update, Delete, Begin, StartStore, ReadRow, Store, Reject
<1> HIDE DEF Goal
<1>8. Goal
    BY <1>1, <1>5, <1>6, <1>7 DEF Next
<1> QED BY <1>8 DEF Goal

\* Linking checks that the destination exists, and its deletion drops the links.
LEMMA LStep == LInv /\ [Next]_vars => LInv'
<1> SUFFICES ASSUME LInv, [Next]_vars PROVE LInv'
    OBVIOUS
<1>1. TInv /\ TInv'
    BY TypeStep DEF LInv
<1>2. CASE UNCHANGED vars
    BY <1>1, <1>2 DEF vars, LInv, LinksHold
<1>3. CASE Next
  <2> USE <1>1 DEF LInv, LinksHold, TInv, TypeOK
  <2>1. CASE RowsKept
      BY <2>1 DEF RowsKept
  <2>2. ASSUME NEW row \in Rows, RowAdded(row) PROVE LinksHold'
      BY <2>2, RowsExist DEF RowAdded
  <2>3. ASSUME NEW i \in Ids, NEW row \in Rows, RowChanged(i, row) PROVE LinksHold'
      BY <2>3, RowsExist DEF RowChanged
  <2>4. ASSUME NEW i \in Ids, RowDropped(i) PROVE LinksHold'
      BY <2>4 DEF RowDropped
  <2> HIDE DEF LInv, LinksHold, TInv, TypeOK
  <2>5. LinksHold'
      BY <1>1, <1>3, <2>1, <2>2, <2>3, <2>4, RowSteps DEF LInv
  <2> QED BY <1>1, <2>5 DEF LInv
<1> QED BY <1>2, <1>3

\* No link leads to a destination that is gone, however requests overlap: deleting
\* cascades, and linking checks in the same transaction.
THEOREM LinksLeadSomewhere == Spec => []LinksHold
<1>1. Init => LInv
  <2> SUFFICES ASSUME Init PROVE LInv
      OBVIOUS
  <2>1. PICK row \in Rows : dests = [i \in Ids |-> IF i = 1 THEN row ELSE None]
      BY DEF Init
  <2>2. dests[1] # None
      BY <2>1, RowsExist, AdminBoundsAssumption
  <2>3. LinksHold
      BY <2>2 DEF Init, LinksHold
  <2> QED BY <2>3, InitTypes DEF LInv
<1>2. LInv => LinksHold
    BY DEF LInv
<1> QED BY <1>1, <1>2, LStep, PTL DEF Spec

\* Ids are given once, and an update writes no row that has gone.
LEMMA DeletedStep == TInv /\ [Next]_vars => [\A i \in Ids : i <= lastId /\ ~Exists(i) => ~Exists(i)']_vars
<1> SUFFICES ASSUME TInv, Next, NEW i \in Ids, i <= lastId, ~Exists(i) PROVE ~Exists(i)'
    OBVIOUS
<1>1. dests \in [Ids -> Rows \cup {None}] /\ lastId \in Nat /\ i # lastId + 1
    BY Locals, AdminBoundsAssumption DEF TInv, TypeOK
<1> QED BY <1>1, RowSteps DEF RowsKept, RowAdded, RowChanged, RowDropped

\* A deleted destination never comes back, whatever update was under way.
THEOREM DeletedForGood == Spec => DeletedStaysDeleted
<1> QED BY InitTypes, TypeStep, DeletedStep, PTL DEF Spec, DeletedStaysDeleted

-----------------------------------------------------------------------------
(* What a request promises that no other overlaps with.  While it is under     *)
(* way, it is the only one, so that only runs take steps of their own.         *)

Idle == {"new", "done"}
IsAlone(q) == pc[q] # "new" /\ (pc[q] \notin Idle => \A x \in Requests : x = q \/ pc[x] \in Idle)
AInv == TInv /\ \A q \in alone : IsAlone(q)

Begins(q) == \/ \E p \in Places, s \in Secrets \cup {None} :
                   Create(q, p, s) \/ \E i \in Ids : Update(q, i, p, s)
             \/ \E i \in Ids, stage \in {"build", "count"} : Delete(q, i, stage)
Begun(q) == /\ pc[q] = "new" /\ UNCHANGED <<tables, files>>
            /\ \E stage \in {"insert", "read", "build", "count"}, v \in Vars :
                  /\ pc' = [pc EXCEPT ![q] = stage] /\ var' = [var EXCEPT ![q] = v]
                  /\ v.owed = {} /\ (stage = "count" => v.place = None)
            /\ alone' = IF \A x \in Requests : pc[x] \in Idle THEN alone \cup {q}
                        ELSE {x \in alone : pc[x] \in Idle}
Linked(q) == /\ pc[q] = "new" /\ pc' = [pc EXCEPT ![q] = "done"]
             /\ UNCHANGED <<dests, files, var>>
             /\ alone' = {x \in alone : pc[x] \in Idle}
Handled(q) == /\ pc[q] \notin Idle /\ UNCHANGED alone
              /\ \E stage \in AllStages \ {"new"} : pc' = [pc EXCEPT ![q] = stage]
              /\ \E v : var' = [var EXCEPT ![q] = v]
Ran(r) == /\ pc[r] # "done" /\ UNCHANGED <<tables, alone>>
          /\ \E stage : pc' = [pc EXCEPT ![r] = stage]
          /\ \E v : var' = [var EXCEPT ![r] = v]
          /\ UNCHANGED files \/ (Store(r) /\ pc' = [pc EXCEPT ![r] = "done"])

\* What the four kinds of steps do to the stages and to who is alone.
LEMMA BeginsBegun == ASSUME TInv, NEW q \in Requests, Begins(q) PROVE Begun(q)
<1>1. ASSUME NEW stage \in {"insert", "read", "build", "count"}, NEW v \in Vars, v.owed = {},
             stage = "count" => v.place = None, Begin(q, stage, v)
      PROVE  Begun(q)
    BY <1>1 DEF Begin, Begun, Busy, Idle, TInv, TypeOK
<1>2. ASSUME NEW p \in Places, NEW s \in Secrets \cup {None}, Create(q, p, s) PROVE Begun(q)
  <2>1. [NoVars EXCEPT !.place = p, !.secret = s] \in Vars
      BY DEF NoVars, Vars
  <2> QED BY <1>1, <1>2, <2>1 DEF Create, NoVars
<1>3. ASSUME NEW p \in Places, NEW s \in Secrets \cup {None}, NEW i \in Ids, Update(q, i, p, s)
      PROVE  Begun(q)
  <2>1. [NoVars EXCEPT !.id = i, !.place = p, !.secret = s] \in Vars
      BY DEF NoVars, Vars
  <2> QED BY <1>1, <1>3, <2>1 DEF Update, NoVars
<1>4. ASSUME NEW i \in Ids, NEW stage \in {"build", "count"}, Delete(q, i, stage) PROVE Begun(q)
  <2>1. [NoVars EXCEPT !.id = i] \in Vars
      BY DEF NoVars, Vars
  <2> QED BY <1>1, <1>4, <2>1 DEF Delete, NoVars
<1> QED BY <1>2, <1>3, <1>4 DEF Begins

LEMMA HandlerHandled == ASSUME TInv, NEW q \in Requests, Handler(q) PROVE Handled(q)
<1>1. pc[q] \notin Idle /\ UNCHANGED alone
    BY DEF Handler, Insert, ReadSecret, WriteRow, Reload, Build, CountLinks, DeleteRow, ListFiles,
           PurgeFile, Idle
<1>2. \E stage \in AllStages \ {"new"} : pc' = [pc EXCEPT ![q] = stage]
    BY DEF Handler, Insert, ReadSecret, WriteRow, Reload, Build, CountLinks, DeleteRow, ListFiles,
           PurgeFile, Reject, AllStages
<1>3. var \in [Actors -> Vars]
    BY DEF TInv, TypeOK
<1>4. \E v : var' = [var EXCEPT ![q] = v]
  <2>1. var = [var EXCEPT ![q] = var[q]]
      BY <1>3
  <2>2. ASSUME Insert(q) \/ ReadSecret(q) \/ WriteRow(q) \/ Reload(q) PROVE \E v : var' = [var EXCEPT ![q] = v]
      BY <2>1, <2>2, <1>3 DEF Insert, ReadSecret, WriteRow, Reload, Reject
  <2>3. ASSUME Build(q) \/ CountLinks(q) \/ DeleteRow(q) \/ ListFiles(q) PROVE \E v : var' = [var EXCEPT ![q] = v]
      BY <2>1, <2>3, <1>3 DEF Build, CountLinks, DeleteRow, ListFiles, Reject
  <2>4. ASSUME PurgeFile(q) PROVE \E v : var' = [var EXCEPT ![q] = v]
      BY <2>4, <1>3 DEF PurgeFile
  <2> QED BY <2>2, <2>3, <2>4 DEF Handler
<1> QED BY <1>1, <1>2, <1>4 DEF Handled

LEMMA RunRan ==
    ASSUME TInv, NEW r \in Runs, (\E i \in Ids : StartStore(r, i)) \/ ReadRow(r) \/ Store(r)
    PROVE  Ran(r)
<1>1. var \in [Actors -> Vars]
    BY DEF TInv, TypeOK
<1>2. var = [var EXCEPT ![r] = var[r]]
    BY <1>1
<1>3. \E v : var' = [var EXCEPT ![r] = v]
    BY <1>1, <1>2 DEF StartStore, ReadRow, Store, Reject
<1> QED BY <1>3 DEF StartStore, ReadRow, Store, Reject, Ran

\* Every step is one of these.
LEMMA Steps ==
    ASSUME TInv, Next
    PROVE  \/ \E q \in Requests : \/ Begins(q) /\ Begun(q)
                                  \/ (\E ids \in SUBSET Ids : SetLinks(q, ids)) /\ Linked(q)
                                  \/ Handler(q) /\ Handled(q)
           \/ \E r \in Runs : Ran(r)
<1>1. ASSUME NEW q \in Requests, NEW ids \in SUBSET Ids, SetLinks(q, ids) PROVE Linked(q)
    BY <1>1 DEF SetLinks, Linked, Busy, Idle, TInv, TypeOK
<1> QED BY <1>1, BeginsBegun, HandlerHandled, RunRan DEF Next, Begins

\* A step of one actor leaves the others where they are.
LEMMA OneMoves ==
    ASSUME TInv, NEW a \in Actors, NEW b \in Actors, a # b,
           \E stage : pc' = [pc EXCEPT ![a] = stage]
    PROVE  pc'[b] = pc[b]
<1> QED BY DEF TInv, TypeOK

LEMMA AStep == AInv /\ [Next]_vars => AInv'
<1> SUFFICES ASSUME AInv, [Next]_vars, NEW x \in alone' PROVE IsAlone(x)'
    BY TypeStep DEF AInv
<1> USE DEF Idle
<1>1. TInv /\ TInv' /\ x \in Requests /\ pc \in [Actors -> AllStages]
    BY TypeStep, TypesSplit DEF AInv, TInv, TypeOK
<1>2. CASE UNCHANGED vars
    BY <1>2 DEF vars, AInv, IsAlone
<1>3. ASSUME NEW q \in Requests, Begun(q) PROVE IsAlone(x)'
  <2>1. q \notin alone
      BY <1>3 DEF AInv, IsAlone, Begun
  <2>2. \A y \in Requests : y # q => pc'[y] = pc[y]
      BY <1>1, <1>3 DEF Begun
  <2>3. pc'[q] \in {"insert", "read", "build", "count"}
      BY <1>1, <1>3 DEF Begun
  <2>4. CASE x = q
    <3>1. \A y \in Requests : pc[y] \in Idle
        BY <1>3, <2>1, <2>4 DEF Begun
    <3> QED BY <2>2, <2>3, <2>4, <3>1 DEF IsAlone
  <2>5. CASE x # q
    <3>1. x \in alone /\ pc[x] \in Idle
        BY <1>1, <1>3, <2>5 DEF Begun
    <3> QED BY <1>1, <2>2, <2>5, <3>1 DEF AInv, IsAlone
  <2> QED BY <2>4, <2>5
<1>4. ASSUME NEW q \in Requests, Linked(q) PROVE IsAlone(x)'
  <2>1. x \in alone /\ pc[x] \in Idle /\ x # q
      BY <1>4 DEF AInv, IsAlone, Linked
  <2> QED BY <1>1, <1>4, <2>1 DEF AInv, IsAlone, Linked
<1>5. ASSUME NEW q \in Requests, Handled(q) PROVE IsAlone(x)'
  <2>1. x \in alone /\ IsAlone(x) /\ pc[q] \notin Idle
      BY <1>5 DEF AInv, Handled
  <2>2. \A y \in Requests : y # q => pc'[y] = pc[y]
      BY <1>1, <1>5, OneMoves DEF Handled
  <2>3. pc'[q] # "new"
      BY <1>1, <1>5 DEF Handled
  <2> QED BY <1>1, <2>1, <2>2, <2>3 DEF IsAlone
<1>6. ASSUME NEW r \in Runs, Ran(r) PROVE IsAlone(x)'
  <2>1. \A y \in Requests : y # r /\ pc'[y] = pc[y]
      BY <1>1, <1>6, ActorsAssumption, OneMoves DEF Ran
  <2> QED BY <1>1, <1>6, <2>1 DEF AInv, IsAlone, Ran
<1> QED BY <1>1, <1>2, <1>3, <1>4, <1>5, <1>6, Steps

LEMMA InitAlone == Init => AInv
<1> QED BY InitTypes DEF Init, AInv

\* A request that is alone after a step has made it, has just begun, or was let
\* alone, and if it is under way it was a run that went on.
LEMMA AloneSteps ==
    ASSUME AInv, Next, NEW q \in alone'
    PROVE  \/ q \in alone /\ Handler(q)
           \/ Begins(q) /\ Begun(q)
           \/ /\ q \in alone /\ pc'[q] = pc[q] /\ var'[q] = var[q]
              /\ pc[q] \in Idle \/ \E r \in Runs : Ran(r)
<1>1. TInv /\ q \in Requests /\ pc \in [Actors -> AllStages] /\ var \in [Actors -> Vars]
    BY TypeStep, TypesSplit DEF AInv, TInv, TypeOK
<1>2. ASSUME NEW x \in Requests, Begun(x), x # q
      PROVE  q \in alone /\ pc[q] \in Idle /\ pc'[q] = pc[q] /\ var'[q] = var[q]
  <2>1. q \in alone /\ pc[q] \in Idle
      BY <1>1, <1>2 DEF Begun
  <2> QED BY <1>1, <1>2, <2>1 DEF Begun
<1>3. ASSUME NEW x \in Requests, Linked(x)
      PROVE  q \in alone /\ pc[q] \in Idle /\ pc'[q] = pc[q] /\ var'[q] = var[q]
  <2>1. q \in alone /\ pc[q] \in Idle /\ x # q
      BY <1>3 DEF Linked, AInv, IsAlone
  <2> QED BY <1>1, <1>3, <2>1 DEF Linked
<1>4. ASSUME NEW x \in Requests, Handled(x), x # q
      PROVE  q \in alone /\ pc[q] \in Idle /\ pc'[q] = pc[q] /\ var'[q] = var[q]
  <2>1. q \in alone /\ pc[x] \notin Idle
      BY <1>4 DEF Handled
  <2>2. pc[q] \in Idle
      BY <1>1, <1>4, <2>1 DEF AInv, IsAlone
  <2> QED BY <1>1, <1>4, <2>1, <2>2 DEF Handled
<1>5. ASSUME NEW r \in Runs, Ran(r)
      PROVE  q \in alone /\ pc'[q] = pc[q] /\ var'[q] = var[q]
    BY <1>1, <1>5, ActorsAssumption DEF Ran
<1>6. ASSUME NEW x \in Requests, Handled(x) PROVE q \in alone
    BY <1>6 DEF Handled
<1> QED BY <1>1, <1>2, <1>3, <1>4, <1>5, <1>6, Steps

\* No other actor moves a request that is under way.
LEMMA MovesItself ==
    ASSUME TInv, Next, NEW q \in Requests, pc[q] \notin Idle, pc'[q] # pc[q] \/ var'[q] # var[q]
    PROVE  Handler(q)
<1>1. pc \in [Actors -> AllStages] /\ var \in [Actors -> Vars]
    BY TypesSplit DEF TInv
<1>2. ASSUME NEW x \in Requests, Begun(x) \/ Linked(x) PROVE FALSE
    BY <1>1, <1>2 DEF Begun, Linked, Idle
<1>3. ASSUME NEW x \in Requests, Handled(x) PROVE x = q
    BY <1>1, <1>3 DEF Handled
<1>4. ASSUME NEW r \in Runs, Ran(r) PROVE FALSE
    BY <1>1, <1>4, ActorsAssumption DEF Ran
<1> QED BY <1>2, <1>3, <1>4, Steps

\* What an update has read is still there when it writes.
ReadHolds(q) == pc[q] = "write" /\ Exists(var[q].id) => var[q].old = dests[var[q].id].secret
\* What a delete has counted is still so when it deletes.
CountHolds(q) == pc[q] = "delete" => var[q].id \notin links
CInv == AInv /\ \A q \in alone : ReadHolds(q) /\ CountHolds(q)

LEMMA CStep == CInv /\ [Next]_vars => CInv'
<1> SUFFICES ASSUME CInv, [Next]_vars, NEW q \in alone' PROVE (ReadHolds(q) /\ CountHolds(q))'
    BY AStep DEF CInv
<1>1. AInv /\ TInv /\ q \in Requests /\ var \in [Actors -> Vars] /\ pc \in [Actors -> AllStages]
    BY AStep, TypesSplit DEF CInv, AInv, TInv, TypeOK
<1>2. CASE UNCHANGED vars
    BY <1>2 DEF vars, CInv, ReadHolds, CountHolds
<1>3. CASE Next /\ pc'[q] \notin {"write", "delete"}
    BY <1>3 DEF ReadHolds, CountHolds
<1>4. CASE Next /\ pc'[q] \in {"write", "delete"}
  <2>1. CASE Begun(q)
      BY <1>1, <1>4, <2>1 DEF Begun
  <2>2. CASE /\ q \in alone /\ pc'[q] = pc[q] /\ var'[q] = var[q]
             /\ pc[q] \in Idle \/ \E r \in Runs : Ran(r)
      BY <1>4, <2>2 DEF CInv, ReadHolds, CountHolds, Ran, Idle
  <2>3. CASE ReadSecret(q)
    <3>1. /\ var' = [var EXCEPT ![q].old = dests[var[q].id].secret]
          /\ UNCHANGED dests /\ pc'[q] = "write"
        BY <1>1, <1>4, <2>3 DEF ReadSecret, Reject
    <3>2. var'[q].old = dests[var[q].id].secret /\ var'[q].id = var[q].id
        BY <1>1, <3>1 DEF Vars
    <3> QED BY <3>1, <3>2 DEF ReadHolds, CountHolds
  <2>4. CASE CountLinks(q)
    <3>1. var[q].id \notin links /\ UNCHANGED <<links, var>> /\ pc'[q] = "delete"
        BY <1>1, <1>4, <2>4 DEF CountLinks, Reject
    <3> QED BY <3>1 DEF ReadHolds, CountHolds
  <2>5. CASE Handler(q) /\ ~ReadSecret(q) /\ ~CountLinks(q)
    <3>1. pc'[q] \notin {"write", "delete"}
        BY <1>1, <2>5 DEF Handler, Insert, WriteRow, Reload, Build, DeleteRow, ListFiles, PurgeFile, Reject
    <3> QED BY <1>4, <3>1
  <2> QED BY <1>1, <1>4, <2>1, <2>2, <2>3, <2>4, <2>5, AloneSteps
<1> QED BY <1>2, <1>3, <1>4

LEMMA InitC == Init => CInv
<1> QED BY InitAlone DEF Init, CInv

\* An update that gives no secret, and overlaps with no other request, leaves the
\* destination's as it was, whatever happens to the destination in between.
THEOREM SecretsKept == Spec => SecretKept
<1>1. CInv /\ [Next]_vars =>
        [\A q \in alone :
            pc[q] = "write" /\ pc'[q] = "reload" /\ var[q].secret = None =>
               dests'[var[q].id].secret = dests[var[q].id].secret]_vars
  <2> SUFFICES ASSUME CInv, Next, NEW q \in alone,
                      pc[q] = "write", pc'[q] = "reload", var[q].secret = None
               PROVE  dests'[var[q].id].secret = dests[var[q].id].secret
      OBVIOUS
  <2>1. TInv /\ q \in Requests /\ ReadHolds(q)
      BY DEF CInv, AInv, TInv, TypeOK
  <2>2. WriteRow(q)
      BY <2>1, MovesItself DEF Idle, Handler, Insert, ReadSecret, Reload, Build, CountLinks,
                               DeleteRow, ListFiles, PurgeFile
  <2>3. Exists(var[q].id) /\ dests' = [dests EXCEPT ![var[q].id] = Updated(q)]
      BY <2>1, <2>2 DEF WriteRow, Reject, TInv, TypeOK
  <2>4. var[q].id \in Ids /\ dests \in [Ids -> Rows \cup {None}]
      BY <2>1, Locals DEF Fits, TInv, TypeOK
  <2> QED BY <2>1, <2>3, <2>4 DEF ReadHolds, Updated
<1> QED BY <1>1, InitC, CStep, PTL DEF Spec, SecretKept

\* Deleting a destination, when no other request overlaps, drops no link: the count
\* in a statement of its own is as good as one in the delete's.
THEOREM DeletesDropNoLink == Spec => DeleteDropsNoLink
<1>1. CInv /\ [Next]_vars =>
        [\A q \in alone : pc[q] = "delete" /\ pc'[q] # "delete" => links' = links]_vars
  <2> SUFFICES ASSUME CInv, Next, NEW q \in alone, pc[q] = "delete", pc'[q] # "delete"
               PROVE  links' = links
      OBVIOUS
  <2>1. TInv /\ q \in Requests /\ CountHolds(q) /\ links \subseteq Ids
      BY DEF CInv, AInv, TInv, TypeOK
  <2>2. DeleteRow(q)
      BY <2>1, MovesItself DEF Idle, Handler, Insert, ReadSecret, WriteRow, Reload, Build,
                               CountLinks, ListFiles, PurgeFile
  <2> QED BY <2>1, <2>2 DEF DeleteRow, Reject, CountHolds
<1> QED BY <1>1, InitC, CStep, PTL DEF Spec, DeleteDropsNoLink

-----------------------------------------------------------------------------
(* The purge.                                                                  *)

\* Only a run that is not done puts a file somewhere, and its own.
FilesOfDone == \A p \in Places : \A r \in files[p] : pc[r] = "done"
\* Before the row is deleted: the place is the row's, and nothing is owed yet.
PlaceKnown(q) == pc[q] \in {"count", "delete"} /\ var[q].place # None /\ Exists(var[q].id) =>
    dests[var[q].id].place = var[q].place
NothingOwed(q) == pc[q] \in {"insert", "read", "write", "reload", "build", "count", "delete"} =>
    var[q].owed = {}
\* After it: what was there belonged to runs that are done; what is left of it is still
\* to be deleted, or spared.
OwedDone(q) == \A r \in var[q].owed : pc[r] = "done"
Purging(q) == pc[q] = "purge" =>
    var[q].owed \cap files[var[q].place] \subseteq var[q].left \cup var[q].spared
Purged(q) == pc[q] = "done" /\ var[q].place # None =>
    var[q].owed \cap files[var[q].place] \subseteq var[q].spared
OnePurge(q) == /\ PlaceKnown(q) /\ NothingOwed(q)
               /\ OwedDone(q) /\ Purging(q) /\ Purged(q)
PInv == AInv /\ FilesOfDone /\ \A q \in alone : OnePurge(q)

\* Who is done stays done.
LEMMA DoneStays ==
    ASSUME TInv, Next, NEW a \in Actors, pc[a] = "done"
    PROVE  pc'[a] = "done"
<1>1. pc \in [Actors -> AllStages]
    BY TypesSplit DEF TInv
<1> QED BY <1>1, Steps DEF Begun, Linked, Handled, Ran, Idle

\* Files appear by the runs' stores alone.
LEMMA FileSteps ==
    ASSUME TInv, Next, NEW p \in Places
    PROVE  \A f \in files'[p] : f \in files[p] \/ (f \in Runs /\ pc[f] = "store" /\ pc'[f] = "done")
<1>1. /\ pc \in [Actors -> AllStages] /\ files \in [Places -> SUBSET Runs]
    BY TypesSplit DEF TInv, TypeOK
<1>2. ASSUME NEW q \in Requests, Handler(q) PROVE files'[p] \subseteq files[p]
  <2>1. CASE PurgeFile(q)
    <3>1. files' = files \/ \E f : files' = [files EXCEPT ![var[q].place] = @ \ {f}]
        BY <2>1 DEF PurgeFile
    <3> QED BY <1>1, <3>1
  <2>2. CASE ~PurgeFile(q)
      BY <1>2, <2>2 DEF Handler, Insert, ReadSecret, WriteRow, Reload, Build, CountLinks, DeleteRow,
                        ListFiles, Reject
  <2> QED BY <2>1, <2>2
<1>3. ASSUME NEW r \in Runs, Ran(r)
      PROVE  \A f \in files'[p] : f \in files[p] \/ (f = r /\ pc[r] = "store" /\ pc'[r] = "done")
    BY <1>1, <1>3 DEF Ran, Store
<1> QED BY <1>2, <1>3, Steps DEF Begun, Linked

LEMMA FilesOfDoneStep == ASSUME TInv, TInv', Next, FilesOfDone PROVE FilesOfDone'
<1>1. ASSUME NEW p \in Places, NEW r \in files'[p] PROVE pc'[r] = "done"
  <2>1. r \in Runs
      BY <1>1 DEF TInv, TypeOK
  <2> QED BY <1>1, <2>1, FileSteps, DoneStays DEF FilesOfDone
<1> QED BY <1>1 DEF FilesOfDone

\* A request that is let alone: runs may store, but nothing it is owed.
LEMMA PurgeLetAlone ==
    ASSUME TInv, Next, NEW q \in Requests, OnePurge(q), pc'[q] = pc[q], var'[q] = var[q],
           pc[q] \in Idle \/ UNCHANGED tables
    PROVE  OnePurge(q)'
<1>1. var[q].owed \subseteq Runs /\ var[q].place \in Places \cup {None}
    BY Locals
<1>2. OwedDone(q)'
    BY <1>1, DoneStays DEF OnePurge, OwedDone
<1>3. ASSUME NEW p \in Places PROVE var[q].owed \cap files'[p] \subseteq var[q].owed \cap files[p]
    BY <1>1, FileSteps DEF OnePurge, OwedDone
<1>4. pc[q] \in {"purge"} => var[q].place \in Places
    BY Locals DEF Fits
<1>5. Purging(q)'
    BY <1>3, <1>4 DEF OnePurge, Purging
<1>6. Purged(q)'
    BY <1>1, <1>3 DEF OnePurge, Purged
<1>7. NothingOwed(q)'
    BY DEF OnePurge, NothingOwed
<1>8. PlaceKnown(q)'
    BY DEF OnePurge, PlaceKnown, Idle
<1> QED BY <1>2, <1>5, <1>6, <1>7, <1>8 DEF OnePurge

\* A request that begins owes nothing and knows no place to purge.
LEMMA PurgeBegun ==
    ASSUME TInv, Next, NEW q \in Requests, Begun(q)
    PROVE  OnePurge(q)'
<1>1. /\ pc \in [Actors -> AllStages] /\ var \in [Actors -> Vars]
    BY TypesSplit DEF TInv
<1>2. /\ pc'[q] \in {"insert", "read", "build", "count"} /\ var'[q].owed = {}
      /\ pc'[q] = "count" => var'[q].place = None
  <2>1. PICK stage \in {"insert", "read", "build", "count"}, v \in Vars :
           /\ pc' = [pc EXCEPT ![q] = stage] /\ var' = [var EXCEPT ![q] = v]
           /\ v.owed = {} /\ (stage = "count" => v.place = None)
      BY DEF Begun
  <2>2. pc'[q] = stage /\ var'[q] = v
      BY <1>1, <2>1
  <2> QED BY <2>1, <2>2
<1> QED BY <1>2 DEF OnePurge, PlaceKnown, NothingOwed, OwedDone, Purging, Purged

\* The request's own steps.
LEMMA PurgeHandled ==
    ASSUME PInv, Next, NEW q \in alone, Handler(q)
    PROVE  OnePurge(q)'
<1>0. /\ TInv /\ q \in Requests /\ q \in Actors
      /\ pc \in [Actors -> AllStages] /\ var \in [Actors -> Vars]
      /\ dests \in [Ids -> Rows \cup {None}] /\ files \in [Places -> SUBSET Runs]
      /\ OnePurge(q)
    BY TypesSplit DEF PInv, AInv, TInv, TypeOK
<1>1. /\ var[q] \in Vars /\ var[q].owed \subseteq Runs /\ var[q].left \subseteq Runs
      /\ var[q].place \in Places \cup {None} /\ Fits(pc[q], var[q])
    BY <1>0, Locals
<1>2. ASSUME var'[q].owed = var[q].owed PROVE OwedDone(q)'
    BY <1>0, <1>1, <1>2, DoneStays DEF OnePurge, OwedDone
<1>3. CASE Insert(q) \/ ReadSecret(q) \/ WriteRow(q) \/ Reload(q)
  <2>1. var'[q].owed = var[q].owed
      BY <1>0, <1>3 DEF Insert, ReadSecret, WriteRow, Reload, Reject, Vars
  <2>2. pc[q] \in {"insert", "read", "write", "reload"} /\ pc'[q] \in {"write", "reload", "done"}
      BY <1>0, <1>3 DEF Insert, ReadSecret, WriteRow, Reload, Reject
  <2> QED BY <1>0, <1>2, <2>1, <2>2
         DEF OnePurge, PlaceKnown, NothingOwed, Purging, Purged
<1>4. CASE Build(q)
  <2>1. /\ var'[q].owed = var[q].owed /\ var'[q].id = var[q].id /\ UNCHANGED dests
        /\ var'[q].place = IF Exists(var[q].id) THEN dests[var[q].id].place ELSE None
        /\ pc[q] = "build" /\ pc'[q] = "count"
      BY <1>0, <1>4 DEF Build, Vars
  <2> QED BY <1>0, <1>2, <2>1
         DEF OnePurge, PlaceKnown, NothingOwed, Purging, Purged
<1>5. CASE CountLinks(q)
  <2>1. UNCHANGED <<var, dests>> /\ pc[q] = "count" /\ pc'[q] \in {"delete", "done"}
      BY <1>0, <1>5 DEF CountLinks, Reject
  <2> QED BY <1>0, <1>2, <2>1
         DEF OnePurge, PlaceKnown, NothingOwed, Purging, Purged
<1>6. CASE DeleteRow(q) /\ ~Exists(var[q].id)
  <2>1. UNCHANGED var /\ pc[q] = "delete" /\ pc'[q] = "done"
      BY <1>0, <1>6 DEF DeleteRow, Reject
  <2> QED BY <1>0, <1>2, <2>1
         DEF OnePurge, PlaceKnown, NothingOwed, Purging, Purged
<1>7. CASE DeleteRow(q) /\ Exists(var[q].id)
  <2> DEFINE i == var[q].id
  <2>1. i \in Ids /\ dests[i] \in Rows /\ dests[i].place \in Places
      BY <1>0, <1>1, <1>7 DEF DeleteRow, Fits, Rows
  <2>2. /\ dests' = [dests EXCEPT ![i] = None] /\ pc[q] = "delete"
        /\ var'[q].owed = files[dests[i].place] /\ var'[q].place = var[q].place
        /\ pc'[q] = IF var[q].place = None THEN "done" ELSE "list"
      BY <1>0, <1>7 DEF DeleteRow, Vars
  <2>3. OwedDone(q)'
    <3>1. \A r \in files[dests[i].place] : r \in Runs /\ pc[r] = "done"
        BY <1>0, <2>1 DEF PInv, FilesOfDone
    <3> QED BY <1>0, <2>2, <3>1, DoneStays DEF OwedDone
  <2> QED BY <2>2, <2>3 DEF OnePurge, PlaceKnown, NothingOwed, Purging, Purged
<1>8. CASE ListFiles(q)
  <2>1. /\ UNCHANGED <<dests, files>> /\ pc[q] = "list" /\ var[q].place \in Places
        /\ pc'[q] \in {"done", "purge"}
      BY <1>0, <1>1, <1>8 DEF ListFiles, Fits, OnePurge
  <2>2. /\ var'[q].owed = var[q].owed /\ var'[q].place = var[q].place
        /\ \/ /\ var'[q].left = files[var[q].place]
              /\ pc'[q] = "done" => files[var[q].place] = {}
           \/ pc'[q] = "done" /\ var'[q].spared = var[q].owed
      BY <1>0, <1>8 DEF ListFiles, Vars
  <2> QED BY <1>2, <2>1, <2>2
         DEF OnePurge, PlaceKnown, NothingOwed, Purging, Purged
<1>9. CASE PurgeFile(q)
  <2>1. /\ UNCHANGED dests /\ pc[q] = "purge" /\ var[q].place \in Places
        /\ Purging(q)
      BY <1>0, <1>1, <1>9 DEF PurgeFile, Fits, OnePurge
  <2>2. PICK f \in var[q].left :
           /\ \/ /\ files' = [files EXCEPT ![var[q].place] = @ \ {f}]
                 /\ var' = [var EXCEPT ![q].left = @ \ {f}]
              \/ /\ UNCHANGED files
                 /\ var' = [var EXCEPT ![q].left = @ \ {f}, ![q].spared = @ \cup {f}]
           /\ pc' = [pc EXCEPT ![q] = IF var[q].left = {f} THEN "done" ELSE "purge"]
      BY <1>9 DEF PurgeFile
  <2>3. pc'[q] = IF var[q].left = {f} THEN "done" ELSE "purge"
      BY <1>0, <2>2
  <2>4. /\ var'[q].owed = var[q].owed /\ var'[q].place = var[q].place
        /\ var'[q].left = var[q].left \ {f}
        /\ \/ files'[var[q].place] = files[var[q].place] \ {f} /\ var'[q].spared = var[q].spared
           \/ UNCHANGED files /\ var'[q].spared = var[q].spared \cup {f}
    <3>1. CASE /\ files' = [files EXCEPT ![var[q].place] = @ \ {f}]
               /\ var' = [var EXCEPT ![q].left = @ \ {f}]
        BY <1>0, <2>1, <3>1 DEF Vars
    <3>2. CASE /\ UNCHANGED files
               /\ var' = [var EXCEPT ![q].left = @ \ {f}, ![q].spared = @ \cup {f}]
        BY <1>0, <3>2 DEF Vars
    <3> QED BY <2>2, <3>1, <3>2
  <2>5. var'[q].owed \cap files'[var[q].place] \subseteq var'[q].left \cup var'[q].spared
      BY <2>1, <2>4 DEF Purging
  <2>6. var[q].left = {f} => var'[q].left = {}
      BY <2>4
  <2>7. Purging(q)' /\ Purged(q)'
      BY <2>3, <2>4, <2>5, <2>6 DEF Purging, Purged
  <2> QED BY <1>2, <2>1, <2>3, <2>4, <2>7
         DEF OnePurge, PlaceKnown, NothingOwed
<1> QED BY <1>3, <1>4, <1>5, <1>6, <1>7, <1>8, <1>9 DEF Handler

LEMMA PStep == PInv /\ [Next]_vars => PInv'
<1> SUFFICES ASSUME PInv, [Next]_vars PROVE PInv'
    OBVIOUS
<1>1. AInv' /\ TInv /\ TInv'
    BY AStep DEF PInv, AInv
<1>2. CASE UNCHANGED vars
    BY <1>1, <1>2 DEF vars, PInv, FilesOfDone, OnePurge, PlaceKnown, NothingOwed,
                      OwedDone, Purging, Purged
<1>3. CASE Next
  <2>1. ASSUME NEW q \in alone' PROVE OnePurge(q)'
    <3>1. q \in Requests
        BY <1>1 DEF TInv, TypeOK
    <3>2. CASE q \in alone /\ Handler(q)
        BY <1>3, <3>2, PurgeHandled
    <3>3. CASE Begun(q)
        BY <1>1, <1>3, <3>1, <3>3, PurgeBegun
    <3>4. CASE /\ q \in alone /\ pc'[q] = pc[q] /\ var'[q] = var[q]
               /\ pc[q] \in Idle \/ \E r \in Runs : Ran(r)
      <4>1. OnePurge(q) /\ (pc[q] \in Idle \/ UNCHANGED tables)
          BY <3>4 DEF PInv, Ran
      <4> QED BY <1>1, <1>3, <3>1, <3>4, <4>1, PurgeLetAlone
    <3> QED BY <1>3, <3>2, <3>3, <3>4, AloneSteps DEF PInv
  <2> QED BY <1>1, <1>3, <2>1, FilesOfDoneStep DEF PInv
<1> QED BY <1>2, <1>3

LEMMA InitP == Init => PInv
<1> QED BY InitAlone DEF Init, PInv, FilesOfDone

\* A purge takes every archive that was at the place when the row went, but those whose
\* own delete failed, whatever runs store there meanwhile.
THEOREM PurgesTakeAll == Spec => []PurgeTakesAll
<1>1. PInv => PurgeTakesAll
    BY DEF PInv, PurgeTakesAll, OnePurge, Purged
<1> QED BY <1>1, InitP, PStep, PTL DEF Spec

\* A request that purges has deleted its row.
RowGone(q) == pc[q] \in {"list", "purge"} => var[q].id \in Ids /\ var[q].id <= lastId /\ ~Exists(var[q].id)
GInv == TInv /\ \A q \in Requests : RowGone(q)

\* Rows that are gone stay gone while a request is let alone.
LEMMA GoneKept ==
    ASSUME TInv, Next, NEW q \in Requests, RowGone(q), pc'[q] = pc[q], var'[q].id = var[q].id
    PROVE  RowGone(q)'
<1>1. lastId <= lastId'
    BY TypesSplit, RowSteps DEF TInv, TypeOK, RowsKept, RowAdded, RowChanged, RowDropped
<1>2. lastId \in Nat /\ lastId' \in Nat
    BY TypeStep, AdminBoundsAssumption DEF TInv, TypeOK
<1>3. \A i \in Ids : i <= lastId /\ ~Exists(i) => ~Exists(i)'
    BY DeletedStep DEF vars
<1>4. pc'[q] \in {"list", "purge"} =>
         var[q].id \in Ids /\ var[q].id <= lastId /\ ~Exists(var[q].id)'
    BY <1>3 DEF RowGone
<1> QED BY <1>1, <1>2, <1>4 DEF RowGone

LEMMA GStep == GInv /\ [Next]_vars => GInv'
<1> SUFFICES ASSUME GInv, [Next]_vars, NEW q \in Requests PROVE RowGone(q)'
    BY TypeStep DEF GInv
<1>1. /\ TInv /\ RowGone(q) /\ q \in Actors
      /\ pc \in [Actors -> AllStages] /\ var \in [Actors -> Vars]
      /\ dests \in [Ids -> Rows \cup {None}]
    BY TypesSplit DEF GInv, TInv, TypeOK
<1>2. CASE UNCHANGED vars
    BY <1>1, <1>2 DEF vars, RowGone
<1>3. CASE Next /\ pc'[q] = pc[q] /\ var'[q].id = var[q].id
    BY <1>1, <1>3, GoneKept
<1>4. CASE Next /\ Handler(q) /\ pc'[q] # pc[q]
  <2>1. CASE DeleteRow(q) /\ Exists(var[q].id)
    <3>1. var[q].id \in Ids /\ var[q].id <= lastId
        BY <1>1, <2>1, Locals DEF DeleteRow, Fits
    <3>2. dests' = [dests EXCEPT ![var[q].id] = None] /\ lastId' = lastId /\ var'[q].id = var[q].id
        BY <1>1, <2>1 DEF DeleteRow, Vars
    <3> QED BY <1>1, <3>1, <3>2 DEF RowGone
  <2>2. CASE ListFiles(q)
    <3>1. UNCHANGED <<dests, lastId>> /\ pc[q] = "list" /\ var'[q].id = var[q].id
        BY <1>1, <2>2 DEF ListFiles, Vars
    <3> QED BY <1>1, <3>1 DEF RowGone
  <2>3. CASE PurgeFile(q)
    <3>1. pc'[q] \in {"purge", "done"} /\ pc[q] = "purge"
        BY <1>1, <2>3 DEF PurgeFile
    <3> QED BY <1>4, <3>1 DEF RowGone
  <2>4. CASE ~(DeleteRow(q) /\ Exists(var[q].id)) /\ ~ListFiles(q) /\ ~PurgeFile(q)
    <3>1. pc'[q] \notin {"list", "purge"}
        BY <1>1, <1>4, <2>4 DEF Handler, Insert, ReadSecret, WriteRow, Reload, Build, CountLinks,
                                DeleteRow, Reject
    <3> QED BY <3>1 DEF RowGone
  <2> QED BY <2>1, <2>2, <2>3, <2>4
<1>5. CASE Next /\ Handler(q) /\ pc'[q] = pc[q] /\ var'[q].id # var[q].id
  <2>1. PurgeFile(q)
      BY <1>1, <1>5 DEF Handler, Insert, ReadSecret, WriteRow, Reload, Build, CountLinks, DeleteRow,
                        ListFiles, Reject
  <2>2. PICK f : \/ var' = [var EXCEPT ![q].left = @ \ {f}]
                 \/ var' = [var EXCEPT ![q].left = @ \ {f}, ![q].spared = @ \cup {f}]
      BY <2>1 DEF PurgeFile
  <2>3. var'[q].id = var[q].id
      BY <1>1, <2>2 DEF Vars
  <2> QED BY <1>5, <2>3
<1>6. CASE Next /\ ~Handler(q) /\ (pc'[q] # pc[q] \/ var'[q].id # var[q].id)
  <2>1. pc[q] \in Idle
      BY <1>1, <1>6, MovesItself
  <2>2. pc'[q] \notin {"list", "purge"}
    <3>1. ASSUME NEW x \in Requests, Begun(x) \/ Linked(x) PROVE pc'[q] \notin {"list", "purge"}
        BY <1>1, <2>1, <3>1 DEF Begun, Linked, Idle
    <3>2. ASSUME NEW x \in Requests, Handler(x), Handled(x) PROVE pc'[q] \notin {"list", "purge"}
        BY <1>1, <1>6, <2>1, <3>2 DEF Handled, Idle
    <3>3. ASSUME NEW r \in Runs, Ran(r) PROVE pc'[q] \notin {"list", "purge"}
        BY <1>1, <2>1, <3>3, ActorsAssumption DEF Ran, Idle
    <3> QED BY <1>1, <1>6, <3>1, <3>2, <3>3, Steps
  <2> QED BY <2>2 DEF RowGone
<1> QED BY <1>2, <1>3, <1>4, <1>5, <1>6

LEMMA InitG == Init => GInv
<1> QED BY InitTypes DEF Init, GInv, RowGone

\* A purge takes files only once its destination's row is gone, however requests overlap,
\* and, when none does, where that row last said: between the building of the purge's
\* destination and the delete, only the request itself could have moved it.
THEOREM PurgesTakeTheDeleted == Spec => PurgesOnlyTheDeleted
<1>1. GInv /\ PInv /\ [Next]_vars =>
        [/\ \A q \in Requests :
               pc[q] = "purge" /\ var'[q] # var[q] /\ files' # files => ~Exists(var[q].id)
         /\ \A q \in alone :
               pc[q] = "delete" /\ pc'[q] = "list" => dests[var[q].id].place = var[q].place]_vars
  <2> SUFFICES ASSUME GInv, PInv, Next
               PROVE  /\ \A q \in Requests : pc[q] = "purge" => ~Exists(var[q].id)
                      /\ \A q \in alone : pc[q] = "delete" /\ pc'[q] = "list" =>
                             dests[var[q].id].place = var[q].place
      OBVIOUS
  <2>1. \A q \in Requests : pc[q] = "purge" => ~Exists(var[q].id)
      BY DEF GInv, RowGone
  <2>2. ASSUME NEW q \in alone, pc[q] = "delete", pc'[q] = "list"
        PROVE  dests[var[q].id].place = var[q].place
    <3>1. TInv /\ q \in Requests /\ PlaceKnown(q) /\ pc \in [Actors -> AllStages]
        BY TypesSplit DEF PInv, AInv, TInv, TypeOK, OnePurge
    <3>2. DeleteRow(q)
        BY <2>2, <3>1, MovesItself DEF Idle, Handler, Insert, ReadSecret, WriteRow, Reload, Build,
                                       CountLinks, ListFiles, PurgeFile
    <3>3. Exists(var[q].id) /\ var[q].place # None
        BY <2>2, <3>1, <3>2 DEF DeleteRow, Reject
    <3> QED BY <2>2, <3>1, <3>3 DEF PlaceKnown
  <2> QED BY <2>1, <2>2
<1> QED BY <1>1, InitP, PStep, InitG, GStep, PTL DEF Spec, PurgesOnlyTheDeleted
=============================================================================
