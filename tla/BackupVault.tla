---------------------------- MODULE BackupVault ----------------------------
(***************************************************************************)
(* What loxbak's backup runs promise, without saying how: a run is told    *)
(* which destinations it owes an archive, delivers it to them one by one,  *)
(* and is reported a success only when it owes nothing more.  Once a       *)
(* destination holds a complete archive of a schedule it always holds one, *)
(* because an archive is retired only when a later complete one is there.  *)
(* (README.md, "Retention/pruning"; job.go, doRun's comment.)              *)
(***************************************************************************)
EXTENDS Integers

CONSTANTS Runs, Dests, Archives, Prefix(_), Stamp(_)

VARIABLES
    phase,   \* "none", "running", "success" or "failed"
    owed,    \* the destinations a run still owes its archive
    got,     \* the destinations it has delivered to
    vault    \* the complete archives each destination holds

vars == <<phase, owed, got, vault>>

Later(a, b) == Prefix(a) = Prefix(b) /\ Stamp(a) > Stamp(b)

Init ==
    /\ phase = [r \in Runs |-> "none"]
    /\ owed = [r \in Runs |-> {}]
    /\ got = [r \in Runs |-> {}]
    /\ vault = [d \in Dests |-> {}]

Begin(r) ==
    /\ phase[r] = "none"
    /\ phase' = [phase EXCEPT ![r] = "running"]
    /\ UNCHANGED <<owed, got, vault>>

Accept(r) ==
    /\ phase[r] = "running" /\ owed[r] = {} /\ got[r] = {}
    /\ \E D \in (SUBSET Dests) \ {{}} : owed' = [owed EXCEPT ![r] = D]
    /\ UNCHANGED <<phase, got, vault>>

\* The archive delivered is later than all of its schedule at that destination.
\* The run may not hear of it: then it goes on owing it, and cannot be a success.
Deliver(r, d) ==
    /\ phase[r] = "running"
    /\ d \in owed[r]
    /\ \E a \in Archives :
          /\ \A b \in vault[d] : Prefix(a) = Prefix(b) => Later(a, b)
          /\ vault' = [vault EXCEPT ![d] = @ \cup {a}]
    /\ \/ /\ owed' = [owed EXCEPT ![r] = @ \ {d}]
          /\ got' = [got EXCEPT ![r] = @ \cup {d}]
       \/ UNCHANGED <<owed, got>>
    /\ UNCHANGED phase

Retire(d) ==
    /\ \E a, b \in vault[d] : Later(b, a) /\ vault' = [vault EXCEPT ![d] = @ \ {a}]
    /\ UNCHANGED <<phase, owed, got>>

Complete(r) ==
    /\ phase[r] = "running"
    /\ \/ owed[r] = {} /\ got[r] # {} /\ phase' = [phase EXCEPT ![r] = "success"]
       \/ phase' = [phase EXCEPT ![r] = "failed"]
    /\ owed' = [owed EXCEPT ![r] = {}]
    /\ got' = [got EXCEPT ![r] = {}]
    /\ UNCHANGED vault

\* The process dies: whatever was running stays "running" and does nothing more.
Abandon ==
    /\ owed' = [r \in Runs |-> {}]
    /\ got' = [r \in Runs |-> {}]
    /\ UNCHANGED <<phase, vault>>

Next ==
    \/ \E r \in Runs : Begin(r) \/ Accept(r) \/ Complete(r)
    \/ \E r \in Runs, d \in Dests : Deliver(r, d)
    \/ \E d \in Dests : Retire(d)
    \/ Abandon

Spec == Init /\ [][Next]_vars
=============================================================================
