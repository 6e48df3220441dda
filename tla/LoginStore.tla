---------------------------- MODULE LoginStore ----------------------------
(***************************************************************************)
(* Logging in and out, api/auth.go with session/session.go, the tables     *)
(* loxone_credential and sessions, and requireSession, in the process of   *)
(* Lifecycle: logins are its requests in flight, its crashes cut them off, *)
(* and tables and cookies outlive it.                                      *)
(*                                                                         *)
(* pc[q] is the next step of login q:                                      *)
(*                                                                         *)
(*    validate   ftp.Validate: the Miniserver accepts the password or not  *)
(*    read       UpsertCredential: GetCredential                           *)
(*    write      UpsertCredential: insert, or update the row read          *)
(*    session    session.Create, the cookie and the answer                 *)
(*                                                                         *)
(* Operators named X_Y are faulty variants of X: what the properties are   *)
(* there to notice.                                                        *)
(***************************************************************************)
EXTENDS Lifecycle

CONSTANTS
    Keys,         \* the values MASTER_KEY may have at a start
    Credentials,  \* hosts, users and passwords, as logins give them
    MaxRotations, \* how often the Miniserver's password changes
    None

ASSUME LoginBoundsAssumption == MaxRotations \in Nat
ASSUME CredentialsAssumption == Credentials # {}
ASSUME LoginNoneAssumption == None \notin Keys \cup Credentials

VARIABLES
    masterKey,    \* this process's MASTER_KEY, None when there is none
    accepted,     \* the credential the Miniserver accepts now
    worked,       \* those it has ever accepted
    rotations,
    creds,        \* loxone_credential, by id
    sessions,     \* sessions table: its ids; a session has the id of its login
    cookies,      \* the signature each cookie that was set carries
    out, expired, \* the sessions logged out of, and those past their expiry
    left,         \* those of out whose row could not be deleted
    pc, given, row,   \* each login: its step, what was given, the id read
    last,         \* what the last login to be over stored, None if it cannot be told
    alone         \* no login has overlapped with the one under way

store == <<creds, sessions, cookies, out, left>>
outside == <<accepted, worked, rotations, expired>>
logins == <<pc, given, row, last, alone>>
vars == <<lifeVars, masterKey, store, outside, logins>>

Stages == {"new", "validate", "read", "write", "session", "over"}
Sealed == [cred : Credentials, key : Keys]

Init ==
    /\ LifeInit
    /\ masterKey = None
    /\ accepted = CHOOSE c \in Credentials : TRUE   \* it does not matter which
    /\ worked = {accepted} /\ rotations = 0
    /\ creds = <<>> /\ sessions = {} /\ cookies = <<>>
    /\ out = {} /\ expired = {} /\ left = {}
    /\ pc = [q \in Requests |-> "new"] /\ given = [q \in Requests |-> None]
    /\ row = [q \in Requests |-> 0]
    /\ last = None /\ alone = TRUE

-----------------------------------------------------------------------------
(* handleLogin *)

Goto(q, stage) == pc' = [pc EXCEPT ![q] = stage]

Over_Unanswered(q) ==
    /\ UNCHANGED lifeVars /\ Goto(q, "over")
    /\ given' = [given EXCEPT ![q] = None] /\ row' = [row EXCEPT ![q] = 0]

Over(q) ==
    /\ Answer(q) /\ Goto(q, "over")
    /\ given' = [given EXCEPT ![q] = None] /\ row' = [row EXCEPT ![q] = 0]

Login(q, c) ==
    /\ pc[q] = "new" /\ Arrive(q)
    /\ Goto(q, "validate") /\ given' = [given EXCEPT ![q] = c]
    /\ alone' = (requests = {})
    /\ UNCHANGED <<masterKey, store, outside, row, last>>

Validate_Skipped(q) ==
    /\ pc[q] = "validate"
    /\ Goto(q, "read")
    /\ UNCHANGED <<lifeVars, masterKey, store, outside, given, row, last, alone>>

Validate(q) ==
    /\ pc[q] = "validate"
    /\ IF given[q] = accepted
       THEN Goto(q, "read") /\ UNCHANGED <<lifeVars, given, row>>
       ELSE Over(q)
    /\ UNCHANGED <<masterKey, store, outside, last, alone>>

\* Every read of the credential takes the row with the lowest id.
ReadCredential(q) ==
    /\ pc[q] = "read"
    /\ row' = [row EXCEPT ![q] = IF creds = <<>> THEN 0 ELSE 1]
    /\ Goto(q, "write")
    /\ UNCHANGED <<lifeVars, masterKey, store, outside, given, last, alone>>

WriteCredential_Insert(q) ==
    /\ pc[q] = "write"
    /\ creds' = Append(creds, [cred |-> given[q], key |-> masterKey])
    /\ last' = IF alone THEN creds'[Len(creds')] ELSE None
    /\ Goto(q, "session")
    /\ UNCHANGED <<lifeVars, masterKey, sessions, cookies, out, left, outside, given, row, alone>>

WriteCredential(q) ==
    /\ pc[q] = "write"
    /\ LET sealed == [cred |-> given[q], key |-> masterKey] IN
          /\ creds' = IF row[q] = 0 THEN Append(creds, sealed)
                      ELSE [creds EXCEPT ![row[q]] = sealed]
          /\ last' = IF alone THEN sealed ELSE None
    /\ Goto(q, "session")
    /\ UNCHANGED <<lifeVars, masterKey, sessions, cookies, out, left, outside, given, row, alone>>

CreateSession(q) ==
    /\ pc[q] = "session"
    /\ sessions' = sessions \cup {q}
    /\ cookies' = [c \in DOMAIN cookies \cup {q} |-> IF c = q THEN sessionKey ELSE cookies[c]]
    /\ Over(q)
    /\ UNCHANGED <<masterKey, creds, out, left, outside, last, alone>>

-----------------------------------------------------------------------------
\* handleLogout deletes the row whatever the cookie's signature, and answers 200
\* whether or not that succeeds.
Logout(q) ==
    /\ Answering /\ q \in DOMAIN cookies \ out
    /\ out' = out \cup {q}
    /\ \/ sessions' = sessions \ {q} /\ left' = left
       \/ sessions' = sessions /\ left' = left \cup {q}
    /\ UNCHANGED <<lifeVars, masterKey, creds, cookies, outside, logins>>

\* Thirty days pass.
Expire(q) ==
    /\ q \in sessions \ expired
    /\ expired' = expired \cup {q}
    /\ UNCHANGED <<lifeVars, masterKey, store, accepted, worked, rotations, logins>>

RotatePassword(c) ==
    /\ rotations < MaxRotations /\ c # accepted
    /\ rotations' = rotations + 1
    /\ accepted' = c /\ worked' = worked \cup {c}
    /\ UNCHANGED <<lifeVars, masterKey, store, expired, logins>>

\* What the process does by itself.  One that goes takes its logins with it; the
\* next may be given another key.
ProcessStep ==
    /\ LifeStep
    /\ pc' = [q \in Requests |-> IF q \in requests \ requests' THEN "over" ELSE pc[q]]
    /\ given' = [q \in Requests |-> IF q \in requests' THEN given[q] ELSE None]
    /\ row' = [q \in Requests |-> IF q \in requests' THEN row[q] ELSE 0]
    /\ IF starts' # starts THEN masterKey' \in Keys
       ELSE masterKey' = IF proc' = "down" THEN None ELSE masterKey
    /\ UNCHANGED <<store, outside, last, alone>>

-----------------------------------------------------------------------------
LoginStep(q) == Validate(q) \/ ReadCredential(q) \/ WriteCredential(q) \/ CreateSession(q)

Next ==
    \/ ProcessStep
    \/ \E q \in Requests :
          \/ \E c \in Credentials : Login(q, c)
          \/ LoginStep(q) \/ Logout(q) \/ Expire(q)
    \/ \E c \in Credentials : RotatePassword(c)

Spec == Init /\ [][Next]_vars

\* The process takes its own steps: statements, waits and its timer.
FairSpec == Spec /\ WF_vars(ProcessStep /\ (Startup \/ Shutdown))

-----------------------------------------------------------------------------
(* Properties. *)

\* The logins under way are the process's requests: none outlives it or its answer.
LoginsInFlight ==
    \A q \in Requests : q \in requests <=> pc[q] \in {"validate", "read", "write", "session"}

TypeOK ==
    /\ LifeTypeOK
    /\ masterKey \in Keys \cup {None}
    /\ accepted \in Credentials /\ worked \subseteq Credentials /\ rotations \in 0..MaxRotations
    /\ creds \in Seq(Sealed)
    /\ sessions \subseteq Requests
    /\ DOMAIN cookies \subseteq Requests /\ \A q \in DOMAIN cookies : cookies[q] \in 1..MaxStarts
    /\ out \subseteq Requests /\ expired \subseteq Requests /\ left \subseteq out
    /\ pc \in [Requests -> Stages] /\ given \in [Requests -> Credentials \cup {None}]
    /\ row \in [Requests -> Nat]
    /\ last \in Sealed \cup {None}
    /\ alone \in BOOLEAN
    /\ LoginsInFlight

\* requireSession lets in a cookie that carries this process's signature and whose
\* row is there and has not expired.
LetsIn(q) == cookies[q] = sessionKey /\ q \in sessions \ expired

\* A cookie is good until it expires or its logout deletes its row, and never after:
\* neither a restart nor a crash ends a session or brings one back
\* (ensureSessionSecret).  A logout whose delete fails ends nothing, although it is
\* answered like any other: the cookie stays good until it expires.
CookiesLast ==
    proc = "serve" =>
        \A q \in DOMAIN cookies : LetsIn(q) <=> q \notin (out \ left) \cup expired

\* What the scheduler logs in with is what the last login stored, sealed with the
\* key of the process that stored it, when logins do not overlap.
LastLoginUsed == last # None => creds # <<>> /\ creds[1] = last

\* Only a credential the Miniserver has accepted is ever stored: a failed login
\* leaves the stored one as it was, whatever it overlaps with (handleLogin).
OnlyAccepted == \A i \in DOMAIN creds : creds[i].cred \in worked
=============================================================================
