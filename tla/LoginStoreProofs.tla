------------------------- MODULE LoginStoreProofs -------------------------
(***************************************************************************)
(* Theorems about LoginStore, for any number of logins, credentials, keys, *)
(* password changes, starts and crashes.  A login is a request of the      *)
(* process of Lifecycle, so that what is proved there holds here too.      *)
(***************************************************************************)
EXTENDS LoginStore, LifecycleProofs, SequenceTheorems

-----------------------------------------------------------------------------
(* The process under the logins is Lifecycle's. *)

LoginAt(q) == (\E c \in Credentials : Login(q, c)) \/ LoginStep(q)
Elsewhere ==
    \/ \E q \in Requests : Logout(q) \/ Expire(q)
    \/ \E c \in Credentials : RotatePassword(c)

LEMMA LoginCases ==
    Next => ProcessStep \/ (\E q \in Requests : LoginAt(q)) \/ Elsewhere
  BY Zenon DEF Next, LoginAt, Elsewhere

LEMMA OverIsAnswer == ASSUME NEW q \in Requests, Over(q) PROVE LifeNext
  BY Zenon DEF Over, LifeNext

LEMMA LoginIsLife == [Next]_vars => [LifeNext]_lifeVars
  <1> SUFFICES ASSUME [Next]_vars PROVE LifeNext \/ UNCHANGED lifeVars  OBVIOUS
  <1>1. CASE UNCHANGED vars  BY <1>1 DEF vars
  <1>2. CASE ProcessStep  BY <1>2, Zenon DEF ProcessStep, LifeNext
  <1>3. CASE \E q \in Requests : LoginAt(q)
    <2>1. PICK q \in Requests : LoginAt(q)  BY <1>3
    <2>2. CASE \E c \in Credentials : Login(q, c)
      BY <2>2, Zenon DEF Login, LifeNext
    <2>3. CASE Validate(q)
      BY <2>3, OverIsAnswer, Zenon DEF Validate
    <2>4. CASE ReadCredential(q) \/ WriteCredential(q)
      BY <2>4, Zenon DEF ReadCredential, WriteCredential
    <2>5. CASE CreateSession(q)
      BY <2>5, OverIsAnswer, Zenon DEF CreateSession
    <2> QED  BY <2>1, <2>2, <2>3, <2>4, <2>5, Zenon DEF LoginAt, LoginStep
  <1>4. CASE Elsewhere
    BY <1>4, Zenon DEF Elsewhere, Logout, Expire, RotatePassword
  <1> QED  BY <1>1, <1>2, <1>3, <1>4, LoginCases

\* A server that logs people in starts, migrates, crashes and stops as any other.
THEOREM ServerIsLife == Spec => LifeSpec
  <1>1. Init => LifeInit  BY DEF Init
  <1> QED  BY <1>1, LoginIsLife, PTL DEF Spec, LifeSpec

\* So it answers only when migrated, its migrations lose nothing and are made once,
\* and its shutdown is as patient.
THEOREM ServerKeepsLife ==
    Spec => []ServesMigrated /\ NothingLost /\ MigratesOnce /\ ShutdownPatient
  BY ServerIsLife, MigratedFirst, MigrationsKeepAll, MigratedOnce, PatientShutdown

-----------------------------------------------------------------------------
(* The process: what its steps do to requests, keys and starts. *)

Keyed == {"load", "serve", "stop", "drain"}
KeyInv ==
    /\ proc # "down" => starts > 0
    /\ proc \in Keyed => sessionKey = secret /\ secret > 0

LEMMA InitKeys == LifeInit => KeyInv
  BY DEF LifeInit, KeyInv, Keyed

LEMMA LifeChanges ==
    ASSUME LifeTypeOK, LifeStep
    PROVE  /\ \/ requests' = requests /\ (Answering => Answering')
              \/ requests' = {} /\ proc' = "down"
           /\ (starts' = starts + 1 /\ proc = "down" /\ proc' = "migrate")
              \/ (starts' = starts /\ (proc = "down" => proc' = "down"))
           /\ \/ secret' = secret /\ sessionKey' = sessionKey /\ (proc' \in Keyed => proc \in Keyed)
              \/ secret' = secret /\ proc' \notin Keyed
              \/ proc = "secret" /\ proc' = "load" /\ sessionKey' = secret' /\ starts' = starts
                 /\ secret' = (IF secret = 0 THEN starts ELSE secret)
  <1> USE DEF process, bounds, Answering, Keyed
  <1>1. CASE Start  BY <1>1 DEF Start
  <1>2. CASE Ends
    <2>1. Exit /\ UNCHANGED <<secret, starts>>
      BY <1>2, Zenon DEF Ends, ApplyFails, ServerStopped, Crash
    <2> QED  BY <2>1 DEF Exit, LifeTypeOK
  <1>3. CASE Apply \/ RecordVersion
    <2>1. proc = "migrate" /\ UNCHANGED <<requests, proc, secret, sessionKey, starts>>
      BY <1>3, Zenon DEF Apply, RecordVersion, Pending
    <2> QED  BY <2>1
  <1>4. CASE Migrated  BY <1>4 DEF Migrated
  <1>5. CASE EnsureSessionSecret  BY <1>5 DEF EnsureSessionSecret
  <1>6. CASE LoadSchedules \/ Signal \/ SchedulerStopped
    BY <1>6 DEF LoadSchedules, Signal, SchedulerStopped
  <1>7. CASE TimeUp \/ \E r \in Runs : CronFires(r) \/ TriggerRun(r) \/ RunEnds(r)
    <2>1. UNCHANGED <<requests, proc, secret, sessionKey, starts>>
      BY <1>7, Zenon DEF TimeUp, CronFires, TriggerRun, RunEnds
    <2> QED  BY <2>1
  <1> QED
    BY <1>1, <1>2, <1>3, <1>4, <1>5, <1>6, <1>7, Zenon DEF LifeStep, Startup, Shutdown, Ends

LEMMA RequestChanges ==
    ASSUME NEW q \in Requests, Arrive(q) \/ Answer(q)
    PROVE  UNCHANGED <<db, secret, proc, next, fk, sessionKey, late, runs, starts, crashes, cut>>
  BY Zenon DEF Arrive, Answer, process, bounds

LEMMA StepKeys == LifeTypeOK /\ KeyInv /\ [LifeNext]_lifeVars => KeyInv'
  <1> SUFFICES ASSUME LifeTypeOK, KeyInv, [LifeNext]_lifeVars PROVE KeyInv'  OBVIOUS
  <1>1. starts \in Nat /\ secret \in Nat /\ sessionKey \in Nat
    BY LifeBoundsAssumption DEF LifeTypeOK
  <1>2. CASE LifeStep
    BY <1>1, <1>2, LifeChanges DEF KeyInv, Keyed
  <1>3. CASE \E q \in Requests : Arrive(q) \/ Answer(q)
    BY <1>3, RequestChanges DEF KeyInv
  <1>4. CASE UNCHANGED lifeVars
    BY <1>4 DEF lifeVars, process, bounds, KeyInv
  <1> QED  BY <1>2, <1>3, <1>4 DEF LifeNext

-----------------------------------------------------------------------------
(* Types. *)

InFlight == {"validate", "read", "write", "session"}
LoginTypes ==
    /\ masterKey \in Keys \cup {None}
    /\ creds \in Seq(Sealed)
    /\ sessions \subseteq Requests
    /\ DOMAIN cookies \subseteq Requests /\ \A q \in DOMAIN cookies : cookies[q] \in 1..MaxStarts
    /\ out \subseteq Requests /\ left \subseteq out
    /\ pc \in [Requests -> Stages] /\ given \in [Requests -> Credentials \cup {None}]
    /\ row \in [Requests -> Nat]
    /\ last \in Sealed \cup {None} /\ alone \in BOOLEAN
OutsideTypes ==
    /\ accepted \in Credentials /\ worked \subseteq Credentials /\ rotations \in 0..MaxRotations
    /\ expired \subseteq Requests
Served == requests # {} => Answering
HasKey == proc # "down" => masterKey \in Keys
HasGiven == \A q \in Requests : pc[q] \in InFlight => given[q] \in Credentials
TInv ==
    /\ LifeTypeOK /\ LoginTypes /\ OutsideTypes /\ LoginsInFlight
    /\ KeyInv /\ Served /\ HasKey /\ HasGiven

LEMMA TInvTypes == TInv => TypeOK
  BY DEF TInv, LoginTypes, OutsideTypes, TypeOK

LEMMA InitTInv == Init => TInv
  <1> SUFFICES ASSUME Init PROVE TInv  OBVIOUS
  <1>1. LifeInit  BY DEF Init
  <1>2. LifeTypeOK /\ KeyInv  BY <1>1, LifeInitType, InitKeys
  <1>3. proc = "down" /\ requests = {}  BY <1>1 DEF LifeInit
  <1>4. accepted \in Credentials  BY CredentialsAssumption DEF Init
  <1>5. OutsideTypes  BY <1>4, LoginBoundsAssumption DEF Init, OutsideTypes
  <1>6. DOMAIN cookies = {} /\ creds \in Seq(Sealed)  BY DEF Init
  <1>7. alone \in BOOLEAN  BY Zenon DEF Init
  <1>8. LoginTypes  BY <1>6, <1>7 DEF Init, LoginTypes, Stages
  <1>9. LoginsInFlight /\ HasGiven  BY <1>3 DEF Init, LoginsInFlight, HasGiven, InFlight
  <1> QED  BY <1>2, <1>3, <1>5, <1>8, <1>9 DEF TInv, Served, HasKey

\* One login moves on; the others, and what they were given, stay.
LEMMA MoveFlight ==
    ASSUME TInv, NEW q \in Requests, NEW s \in Stages, Goto(q, s),
           \A p \in Requests \ {q} : /\ p \in requests <=> p \in requests'
                                     /\ given'[p] = given[p],
           q \in requests' <=> s \in InFlight,
           s \in InFlight => given'[q] \in Credentials
    PROVE  LoginsInFlight' /\ HasGiven' /\ pc' \in [Requests -> Stages]
  <1>1. pc' = [pc EXCEPT ![q] = s] /\ pc \in [Requests -> Stages]
    BY DEF Goto, TInv, LoginTypes
  <1>2. pc'[q] = s /\ \A p \in Requests \ {q} : pc'[p] = pc[p]  BY <1>1
  <1>3. \A p \in Requests : p \in requests' <=> pc'[p] \in InFlight
    BY <1>2 DEF TInv, LoginsInFlight, InFlight
  <1>4. HasGiven'  BY <1>2 DEF TInv, HasGiven
  <1> QED  BY <1>1, <1>3, <1>4 DEF LoginsInFlight, InFlight

LEMMA OverTypes ==
    ASSUME TInv, NEW q \in Requests, Over(q)
    PROVE  /\ LoginsInFlight' /\ HasGiven' /\ pc' \in [Requests -> Stages]
           /\ given' \in [Requests -> Credentials \cup {None}] /\ row' \in [Requests -> Nat]
           /\ requests' \subseteq requests /\ proc' = proc
  <1>1. Answer(q) /\ Goto(q, "over") /\ given' = [given EXCEPT ![q] = None]
        /\ row' = [row EXCEPT ![q] = 0]
    BY DEF Over
  <1>2. requests' = requests \ {q} /\ proc' = proc
    BY <1>1 DEF Answer, process
  <1>3. given \in [Requests -> Credentials \cup {None}] /\ row \in [Requests -> Nat]
    BY DEF TInv, LoginTypes
  <1>4. given' \in [Requests -> Credentials \cup {None}] /\ row' \in [Requests -> Nat]
        /\ \A p \in Requests \ {q} : given'[p] = given[p]
    BY <1>1, <1>3
  <1>5. "over" \in Stages /\ "over" \notin InFlight  BY DEF Stages, InFlight
  <1> QED  BY <1>1, <1>2, <1>4, <1>5, MoveFlight

LEMMA LoginTInv ==
    ASSUME TInv, NEW q \in Requests, NEW c \in Credentials, Login(q, c), LifeTypeOK', KeyInv'
    PROVE  TInv'
  <1>1. requests' = requests \cup {q} /\ proc' = proc /\ Answering
    BY DEF Login, Arrive, process, Answering
  <1>2. Goto(q, "validate") /\ given' = [given EXCEPT ![q] = c]
    BY DEF Login
  <1>3. given \in [Requests -> Credentials \cup {None}]  BY DEF TInv, LoginTypes
  <1>4. given' \in [Requests -> Credentials \cup {None}] /\ given'[q] = c
        /\ \A p \in Requests \ {q} : given'[p] = given[p]
    BY <1>2, <1>3
  <1>5. "validate" \in Stages /\ "validate" \in InFlight  BY DEF Stages, InFlight
  <1>6. LoginsInFlight' /\ HasGiven' /\ pc' \in [Requests -> Stages]
    BY <1>1, <1>2, <1>4, <1>5, MoveFlight
  <1>7. UNCHANGED <<masterKey, creds, sessions, cookies, out, left, row, last>>
        /\ UNCHANGED <<accepted, worked, rotations, expired>>
    BY DEF Login, store, outside
  <1>8. alone' \in BOOLEAN  BY Zenon DEF Login
  <1>9. LoginTypes' /\ OutsideTypes'
    BY <1>4, <1>6, <1>7, <1>8 DEF TInv, LoginTypes, OutsideTypes
  <1>10. Served' /\ HasKey'  BY <1>1, <1>7 DEF TInv, Served, HasKey, Answering
  <1> QED  BY <1>6, <1>9, <1>10 DEF TInv

LEMMA ValidateTInv ==
    ASSUME TInv, NEW q \in Requests, Validate(q), LifeTypeOK', KeyInv'
    PROVE  TInv'
  <1>1. UNCHANGED <<masterKey, creds, sessions, cookies, out, left, last, alone>>
        /\ UNCHANGED <<accepted, worked, rotations, expired>>
    BY DEF Validate, store, outside
  <1> SUFFICES /\ LoginsInFlight' /\ HasGiven' /\ pc' \in [Requests -> Stages]
               /\ given' \in [Requests -> Credentials \cup {None}] /\ row' \in [Requests -> Nat]
               /\ requests' \subseteq requests /\ proc' = proc
    BY <1>1 DEF TInv, LoginTypes, OutsideTypes, Served, HasKey, Answering
  <1>2. CASE Over(q)  BY <1>2, OverTypes
  <1>3. CASE Goto(q, "read") /\ UNCHANGED <<lifeVars, given, row>>
    <2>1. UNCHANGED <<requests, proc, given, row>>  BY <1>3 DEF lifeVars, process
    <2>2. "read" \in Stages /\ "read" \in InFlight /\ pc[q] = "validate"
      BY DEF Stages, InFlight, Validate
    <2>3. q \in requests /\ given[q] \in Credentials
      BY <2>2 DEF TInv, LoginsInFlight, HasGiven, InFlight
    <2> QED  BY <1>3, <2>1, <2>2, <2>3, MoveFlight DEF TInv, LoginTypes
  <1> QED  BY <1>2, <1>3 DEF Validate

LEMMA ReadTInv ==
    ASSUME TInv, NEW q \in Requests, ReadCredential(q), LifeTypeOK', KeyInv'
    PROVE  TInv'
  <1>1. UNCHANGED <<requests, proc, masterKey, creds, sessions, cookies, out, left, given, last, alone>>
        /\ UNCHANGED <<accepted, worked, rotations, expired>>
    BY DEF ReadCredential, store, outside, lifeVars, process
  <1>2. "write" \in Stages /\ "write" \in InFlight /\ pc[q] = "read" /\ Goto(q, "write")
    BY DEF Stages, InFlight, ReadCredential
  <1>3. q \in requests /\ given[q] \in Credentials
    BY <1>2 DEF TInv, LoginsInFlight, HasGiven, InFlight
  <1>4. LoginsInFlight' /\ HasGiven' /\ pc' \in [Requests -> Stages]
    BY <1>1, <1>2, <1>3, MoveFlight
  <1>5. row' \in [Requests -> Nat]
    BY DEF ReadCredential, TInv, LoginTypes
  <1> QED
    BY <1>1, <1>4, <1>5 DEF TInv, LoginTypes, OutsideTypes, Served, HasKey, Answering

LEMMA WriteTInv ==
    ASSUME TInv, NEW q \in Requests, WriteCredential(q), LifeTypeOK', KeyInv'
    PROVE  TInv'
  <1> DEFINE sealed == [cred |-> given[q], key |-> masterKey]
  <1>1. UNCHANGED <<requests, proc, masterKey, sessions, cookies, out, left, given, row, alone>>
        /\ UNCHANGED <<accepted, worked, rotations, expired>>
    BY DEF WriteCredential, outside, lifeVars, process
  <1>2. "session" \in Stages /\ "session" \in InFlight /\ pc[q] = "write" /\ Goto(q, "session")
    BY DEF Stages, InFlight, WriteCredential
  <1>3. q \in requests /\ given[q] \in Credentials
    BY <1>2 DEF TInv, LoginsInFlight, HasGiven, InFlight
  <1>4. LoginsInFlight' /\ HasGiven' /\ pc' \in [Requests -> Stages]
    BY <1>1, <1>2, <1>3, MoveFlight
  <1>5. masterKey \in Keys
    BY <1>3 DEF TInv, Served, HasKey, Answering
  <1>6. sealed \in Sealed  BY <1>3, <1>5 DEF Sealed
  <1>7. (creds' = Append(creds, sealed) \/ creds' = [creds EXCEPT ![row[q]] = sealed])
        /\ last' \in {sealed, None}
    BY DEF WriteCredential
  <1> HIDE DEF sealed
  <1>8. creds \in Seq(Sealed) /\ row[q] \in Nat  BY DEF TInv, LoginTypes
  <1>9. creds' \in Seq(Sealed) /\ last' \in Sealed \cup {None}
    BY <1>6, <1>7, <1>8
  <1> QED
    BY <1>1, <1>4, <1>9 DEF TInv, LoginTypes, OutsideTypes, Served, HasKey, Answering

LEMMA SessionTInv ==
    ASSUME TInv, NEW q \in Requests, CreateSession(q), LifeTypeOK', KeyInv'
    PROVE  TInv'
  <1>1. UNCHANGED <<masterKey, creds, out, left, last, alone>>
        /\ UNCHANGED <<accepted, worked, rotations, expired>>
    BY DEF CreateSession, outside
  <1>2. /\ LoginsInFlight' /\ HasGiven' /\ pc' \in [Requests -> Stages]
        /\ given' \in [Requests -> Credentials \cup {None}] /\ row' \in [Requests -> Nat]
        /\ requests' \subseteq requests /\ proc' = proc
    BY OverTypes DEF CreateSession
  <1>3. sessionKey \in 1..MaxStarts
    <2>1. q \in requests
      BY DEF CreateSession, TInv, LoginsInFlight
    <2>2. proc \in Keyed  BY <2>1 DEF TInv, Served, Answering, Keyed
    <2> QED  BY <2>2, LifeBoundsAssumption DEF TInv, KeyInv, LifeTypeOK
  <1>4. /\ sessions' = sessions \cup {q}
        /\ cookies' = [p \in DOMAIN cookies \cup {q} |-> IF p = q THEN sessionKey ELSE cookies[p]]
    BY DEF CreateSession
  <1>5. DOMAIN cookies' \subseteq Requests /\ \A p \in DOMAIN cookies' : cookies'[p] \in 1..MaxStarts
    BY <1>3, <1>4 DEF TInv, LoginTypes
  <1> QED
    BY <1>1, <1>2, <1>4, <1>5 DEF TInv, LoginTypes, OutsideTypes, Served, HasKey, Answering

LEMMA ProcessTInv == ASSUME TInv, ProcessStep, LifeTypeOK', KeyInv' PROVE TInv'
  <1>1. UNCHANGED <<creds, sessions, cookies, out, left, last, alone>>
        /\ UNCHANGED <<accepted, worked, rotations, expired>>
    BY DEF ProcessStep, store, outside
  <1>2. requests' = requests \/ (requests' = {} /\ proc' = "down")
    BY LifeChanges DEF ProcessStep, TInv
  <1>3. Served'
    BY LifeChanges DEF ProcessStep, TInv, Served
  <1>4. masterKey' \in Keys \cup {None} /\ HasKey'
    <2>1. CASE starts' # starts
      BY <2>1 DEF ProcessStep, HasKey
    <2>2. CASE starts' = starts
      <3>1. proc' # "down" => proc # "down"
        BY <2>2, LifeChanges, LifeBoundsAssumption DEF ProcessStep, TInv, LifeTypeOK
      <3>2. masterKey' = IF proc' = "down" THEN None ELSE masterKey
        BY <2>2 DEF ProcessStep
      <3> QED  BY <3>1, <3>2 DEF TInv, HasKey, LoginTypes
    <2> QED  BY <2>1, <2>2
  <1>5. /\ pc' = [q \in Requests |-> IF q \in requests \ requests' THEN "over" ELSE pc[q]]
        /\ given' = [q \in Requests |-> IF q \in requests' THEN given[q] ELSE None]
        /\ row' = [q \in Requests |-> IF q \in requests' THEN row[q] ELSE 0]
    BY DEF ProcessStep
  <1>6. pc' \in [Requests -> Stages] /\ given' \in [Requests -> Credentials \cup {None}]
        /\ row' \in [Requests -> Nat]
    BY <1>5 DEF TInv, LoginTypes, Stages
  <1>7. \A q \in Requests : q \in requests' <=> pc'[q] \in InFlight
    BY <1>2, <1>5 DEF TInv, LoginsInFlight, InFlight
  <1>8. HasGiven'
    BY <1>2, <1>5, <1>7 DEF TInv, HasGiven, LoginsInFlight, InFlight
  <1> QED
    BY <1>1, <1>3, <1>4, <1>6, <1>7, <1>8
       DEF TInv, LoginTypes, OutsideTypes, LoginsInFlight, InFlight

LEMMA ElsewhereTInv ==
    ASSUME TInv, Elsewhere \/ UNCHANGED vars, LifeTypeOK', KeyInv'
    PROVE  TInv'
  <1>1. UNCHANGED <<requests, proc, masterKey, creds, cookies, pc, given, row, last, alone>>
    BY Zenon DEF Elsewhere, Logout, Expire, RotatePassword, lifeVars, process, store, logins, vars
  <1>2. sessions' \subseteq Requests /\ out' \subseteq Requests /\ left' \subseteq out'
        /\ expired' \subseteq Requests
    BY DEF Elsewhere, Logout, Expire, RotatePassword, store, outside, vars, TInv, LoginTypes,
           OutsideTypes
  <1>3. accepted' \in Credentials /\ worked' \subseteq Credentials /\ rotations' \in 0..MaxRotations
    BY LoginBoundsAssumption DEF Elsewhere, Logout, Expire, RotatePassword, outside, vars, TInv,
                                 OutsideTypes
  <1> QED
    BY <1>1, <1>2, <1>3 DEF TInv, LoginTypes, OutsideTypes, LoginsInFlight, Served, HasKey,
                            HasGiven, Answering

LEMMA StepTInv == TInv /\ [Next]_vars => TInv'
  <1> SUFFICES ASSUME TInv, [Next]_vars PROVE TInv'  OBVIOUS
  <1>1. LifeTypeOK' /\ KeyInv'
    BY LoginIsLife, LifeStepTypes, StepKeys DEF TInv
  <1>2. CASE \E q \in Requests : LoginAt(q)
    BY <1>1, <1>2, LoginTInv, ValidateTInv, ReadTInv, WriteTInv, SessionTInv
       DEF LoginAt, LoginStep
  <1>3. CASE ProcessStep  BY <1>1, <1>3, ProcessTInv
  <1>4. CASE Elsewhere \/ UNCHANGED vars  BY <1>1, <1>4, ElsewhereTInv
  <1> QED  BY <1>2, <1>3, <1>4, LoginCases

\* The types of the server's state; the logins under way are the process's requests.
THEOREM TypeCorrect == Spec => []TypeOK
  BY InitTInv, StepTInv, TInvTypes, PTL DEF Spec

-----------------------------------------------------------------------------
(* What is stored was accepted. *)

Checked == \A q \in Requests : pc[q] \in {"read", "write"} => given[q] \in worked
AInv == TInv /\ OnlyAccepted /\ Checked /\ accepted \in worked

LEMMA InitAInv == Init => AInv
  BY InitTInv DEF Init, AInv, OnlyAccepted, Checked

LEMMA StepAInv == AInv /\ [Next]_vars => AInv'
  <1> SUFFICES ASSUME AInv, [Next]_vars
               PROVE  OnlyAccepted' /\ Checked' /\ accepted' \in worked'
    BY StepTInv DEF AInv
  <1>1. /\ creds \in Seq(Sealed) /\ pc \in [Requests -> Stages]
        /\ given \in [Requests -> Credentials \cup {None}]
    BY DEF AInv, TInv, LoginTypes
  <1>2. CASE ProcessStep
    <2>1. UNCHANGED <<creds, worked, accepted>>  BY <1>2 DEF ProcessStep, store, outside
    <2>2. \A q \in Requests : /\ pc'[q] = IF q \in requests \ requests' THEN "over" ELSE pc[q]
                              /\ given'[q] = IF q \in requests' THEN given[q] ELSE None
      BY <1>2 DEF ProcessStep
    <2>3. \A q \in Requests : pc[q] \in {"read", "write"} => q \in requests
      BY DEF AInv, TInv, LoginsInFlight
    <2>4. Checked'  BY <2>1, <2>2, <2>3 DEF AInv, Checked
    <2> QED  BY <2>1, <2>4 DEF AInv, OnlyAccepted
  <1>3. ASSUME NEW q \in Requests, LoginAt(q) PROVE OnlyAccepted' /\ Checked' /\ accepted' \in worked'
    <2>1. UNCHANGED <<worked, accepted>>
      BY <1>3, Zenon DEF LoginAt, LoginStep, Login, Validate, ReadCredential, WriteCredential,
                         CreateSession, outside
    <2>2. CASE \E c \in Credentials : Login(q, c)
      <3>1. PICK c \in Credentials : pc' = [pc EXCEPT ![q] = "validate"] /\ UNCHANGED creds
                                     /\ given' = [given EXCEPT ![q] = c]
        BY <2>2 DEF Login, Goto, store
      <3> QED  BY <1>1, <2>1, <3>1 DEF AInv, Checked, OnlyAccepted
    <2>3. CASE Validate(q)
      <3>1. UNCHANGED creds  BY <2>3 DEF Validate, store
      <3>2. CASE Over(q)
        <4>1. pc' = [pc EXCEPT ![q] = "over"] /\ given' = [given EXCEPT ![q] = None]
          BY <3>2 DEF Over, Goto
        <4> QED  BY <1>1, <2>1, <3>1, <4>1 DEF AInv, Checked, OnlyAccepted
      <3>3. CASE given[q] = accepted /\ pc' = [pc EXCEPT ![q] = "read"] /\ UNCHANGED given
        BY <1>1, <2>1, <3>1, <3>3 DEF AInv, Checked, OnlyAccepted
      <3> QED  BY <2>3, <3>2, <3>3 DEF Validate, Goto
    <2>4. CASE ReadCredential(q)
      <3>1. pc[q] = "read" /\ pc' = [pc EXCEPT ![q] = "write"] /\ UNCHANGED <<creds, given>>
        BY <2>4 DEF ReadCredential, Goto, store
      <3> QED  BY <1>1, <2>1, <3>1 DEF AInv, Checked, OnlyAccepted
    <2>5. CASE WriteCredential(q)
      <3> DEFINE sealed == [cred |-> given[q], key |-> masterKey]
      <3>1. /\ pc[q] = "write" /\ pc' = [pc EXCEPT ![q] = "session"] /\ UNCHANGED given
            /\ creds' = Append(creds, sealed) \/ creds' = [creds EXCEPT ![row[q]] = sealed]
        BY <2>5 DEF WriteCredential, Goto
      <3>2. sealed.cred \in worked  BY <3>1 DEF AInv, Checked
      <3> HIDE DEF sealed
      <3>3. \A i \in DOMAIN creds' : creds'[i] = sealed \/ (i \in DOMAIN creds /\ creds'[i] = creds[i])
        BY <1>1, <3>1
      <3>4. OnlyAccepted'  BY <2>1, <3>2, <3>3 DEF AInv, OnlyAccepted
      <3>5. Checked'  BY <1>1, <2>1, <3>1 DEF AInv, Checked
      <3> QED  BY <2>1, <3>4, <3>5 DEF AInv
    <2>6. CASE CreateSession(q)
      <3>1. pc' = [pc EXCEPT ![q] = "over"] /\ given' = [given EXCEPT ![q] = None] /\ UNCHANGED creds
        BY <2>6 DEF CreateSession, Over, Goto
      <3> QED  BY <1>1, <2>1, <3>1 DEF AInv, Checked, OnlyAccepted
    <2> QED  BY <1>3, <2>2, <2>3, <2>4, <2>5, <2>6 DEF LoginAt, LoginStep
  <1>4. CASE Elsewhere \/ UNCHANGED vars
    <2>1. UNCHANGED <<creds, pc, given>>
      BY <1>4, Zenon DEF Elsewhere, Logout, Expire, RotatePassword, logins, store, vars
    <2>2. worked \subseteq worked' /\ accepted' \in worked'
      BY <1>4 DEF Elsewhere, Logout, Expire, RotatePassword, outside, vars, AInv
    <2> QED  BY <2>1, <2>2 DEF AInv, OnlyAccepted, Checked
  <1> QED  BY <1>2, <1>3, <1>4, LoginCases

\* Whatever logins overlap, fail or are cut off by a crash, no credential is
\* stored that the Miniserver never accepted.
THEOREM StoredWasAccepted == Spec => []OnlyAccepted
  <1>1. AInv => OnlyAccepted  BY DEF AInv
  <1> QED  BY <1>1, InitAInv, StepAInv, PTL DEF Spec

-----------------------------------------------------------------------------
(* The row the scheduler reads is the one the last login wrote. *)

OneLogin == alone => \A p, q \in requests : p = q
RowKnown == alone => \A q \in Requests : pc[q] = "write" => row[q] = IF creds = <<>> THEN 0 ELSE 1
LInv == TInv /\ LastLoginUsed /\ OneLogin /\ RowKnown

LEMMA InitLInv == Init => LInv
  <1> SUFFICES ASSUME Init PROVE LInv  OBVIOUS
  <1>1. requests = {}  BY DEF Init, LifeInit
  <1> QED  BY <1>1, InitTInv DEF Init, LInv, LastLoginUsed, OneLogin, RowKnown

LEMMA StepLInv == LInv /\ [Next]_vars => LInv'
  <1> SUFFICES ASSUME LInv, [Next]_vars PROVE LastLoginUsed' /\ OneLogin' /\ RowKnown'
    BY StepTInv DEF LInv
  <1>1. /\ creds \in Seq(Sealed) /\ pc \in [Requests -> Stages] /\ row \in [Requests -> Nat]
    BY DEF LInv, TInv, LoginTypes
  <1>2. \A q \in Requests : pc[q] \in InFlight <=> q \in requests
    BY DEF LInv, TInv, LoginsInFlight, InFlight
  <1>3. CASE ProcessStep
    <2>1. UNCHANGED <<creds, last, alone>>  BY <1>3 DEF ProcessStep, store
    <2>2. requests' \subseteq requests  BY <1>3, LifeChanges DEF ProcessStep, LInv, TInv
    <2>3. \A q \in Requests : pc'[q] = "write" => q \in requests' /\ pc[q] = "write" /\ row'[q] = row[q]
      <3>1. \A q \in Requests : /\ pc'[q] = IF q \in requests \ requests' THEN "over" ELSE pc[q]
                                /\ row'[q] = IF q \in requests' THEN row[q] ELSE 0
        BY <1>3 DEF ProcessStep
      <3> QED  BY <1>2, <3>1 DEF InFlight
    <2>4. LastLoginUsed'  BY <2>1 DEF LInv, LastLoginUsed
    <2>5. OneLogin' /\ RowKnown'
      <3>1. alone' <=> alone  BY <2>1
      <3> QED  BY <2>1, <2>2, <2>3, <3>1 DEF LInv, OneLogin, RowKnown
    <2> QED  BY <2>4, <2>5
  <1>4. ASSUME NEW q \in Requests, NEW c \in Credentials, Login(q, c)
        PROVE  LastLoginUsed' /\ OneLogin' /\ RowKnown'
    <2>1. UNCHANGED <<creds, last, row>> /\ pc' = [pc EXCEPT ![q] = "validate"]
          /\ (alone' <=> requests = {}) /\ requests' = requests \cup {q}
      BY <1>4 DEF Login, store, Goto, Arrive
    <2>2. OneLogin'  BY <2>1 DEF OneLogin
    <2>3. RowKnown'
      <3>1. alone' => \A p \in Requests : pc'[p] # "write"
        BY <1>1, <1>2, <2>1 DEF InFlight
      <3> QED  BY <3>1 DEF RowKnown
    <2> QED  BY <2>1, <2>2, <2>3 DEF LInv, LastLoginUsed
  <1>5. ASSUME NEW q \in Requests, LoginStep(q), ~WriteCredential(q)
        PROVE  LastLoginUsed' /\ OneLogin' /\ RowKnown'
    <2>1. UNCHANGED <<creds, last, alone>>
      BY <1>5, Zenon DEF LoginStep, Validate, ReadCredential, CreateSession, store
    <2>2. requests' \subseteq requests
      BY <1>5 DEF LoginStep, Validate, ReadCredential, CreateSession, Over, Answer, lifeVars
    <2>3. \A p \in Requests : pc'[p] = "write" =>
              \/ row'[p] = (IF creds = <<>> THEN 0 ELSE 1)
              \/ pc[p] = "write" /\ row'[p] = row[p]
      <3>1. CASE ReadCredential(q)
        <4>1. row' = [row EXCEPT ![q] = IF creds = <<>> THEN 0 ELSE 1]
              /\ pc' = [pc EXCEPT ![q] = "write"]
          BY <3>1 DEF ReadCredential, Goto
        <4> QED  BY <1>1, <4>1
      <3>2. CASE Validate(q) \/ CreateSession(q)
        <4>1. \E s \in {"read", "over"} : pc' = [pc EXCEPT ![q] = s]
              /\ (row' = row \/ row' = [row EXCEPT ![q] = 0])
          BY <3>2 DEF Validate, CreateSession, Over, Goto
        <4> QED  BY <1>1, <4>1
      <3> QED  BY <1>5, <3>1, <3>2 DEF LoginStep
    <2>4. LastLoginUsed'  BY <2>1 DEF LInv, LastLoginUsed
    <2>5. OneLogin' /\ RowKnown'
      <3>1. alone' <=> alone  BY <2>1
      <3> QED  BY <2>1, <2>2, <2>3, <3>1 DEF LInv, OneLogin, RowKnown
    <2> QED  BY <2>4, <2>5
  <1>6. ASSUME NEW q \in Requests, WriteCredential(q)
        PROVE  LastLoginUsed' /\ OneLogin' /\ RowKnown'
    <2> DEFINE sealed == [cred |-> given[q], key |-> masterKey]
    <2>1. /\ pc[q] = "write" /\ pc' = [pc EXCEPT ![q] = "session"]
          /\ UNCHANGED <<requests, row, alone>>
          /\ creds' = IF row[q] = 0 THEN Append(creds, sealed) ELSE [creds EXCEPT ![row[q]] = sealed]
          /\ last' = IF alone THEN sealed ELSE None
      BY <1>6 DEF WriteCredential, Goto, lifeVars
    <2> HIDE DEF sealed
    <2>2. OneLogin'  BY <2>1, Zenon DEF LInv, OneLogin
    <2>3. RowKnown'
      <3>1. alone' => \A p \in Requests : pc[p] = "write" => p = q
        BY <1>2, <2>1 DEF LInv, OneLogin, InFlight
      <3>2. alone' => \A p \in Requests : pc'[p] # "write"
        BY <1>1, <2>1, <3>1
      <3> QED  BY <3>2 DEF RowKnown
    <2>4. CASE alone
      <3>1. row[q] = (IF creds = <<>> THEN 0 ELSE 1) /\ last' = sealed
        BY <2>1, <2>4 DEF LInv, RowKnown
      <3>2. CASE creds = <<>>
        <4>1. creds' = Append(creds, sealed)  BY <2>1, <3>1, <3>2
        <4> QED  BY <1>1, <2>2, <2>3, <3>1, <3>2, <4>1 DEF LastLoginUsed
      <3>3. CASE creds # <<>>
        <4>1. creds' = [creds EXCEPT ![1] = sealed]  BY <2>1, <3>1, <3>3
        <4>2. 1 \in DOMAIN creds  BY <1>1, <3>3, EmptySeq
        <4>3. creds' # <<>> /\ creds'[1] = sealed  BY <1>1, <4>1, <4>2
        <4> QED  BY <2>2, <2>3, <3>1, <4>3 DEF LastLoginUsed
      <3> QED  BY <3>2, <3>3
    <2>5. CASE ~alone
      <3>1. last' = None  BY <2>1, <2>5
      <3> QED  BY <2>2, <2>3, <3>1 DEF LastLoginUsed
    <2> QED  BY <2>4, <2>5
  <1>7. CASE Elsewhere \/ UNCHANGED vars
    <2>1. UNCHANGED <<creds, pc, row, last, alone, requests>>
      BY <1>7, Zenon DEF Elsewhere, Logout, Expire, RotatePassword, logins, store, vars, lifeVars
    <2>2. LastLoginUsed'  BY <2>1 DEF LInv, LastLoginUsed
    <2>3. OneLogin' /\ RowKnown'
      <3>1. alone' <=> alone  BY <2>1
      <3> QED  BY <2>1, <3>1 DEF LInv, OneLogin, RowKnown
    <2> QED  BY <2>2, <2>3
  <1> QED  BY <1>3, <1>4, <1>5, <1>6, <1>7, LoginCases DEF LoginAt, LoginStep

\* What the scheduler logs in with is what the last login stored, under the key of
\* the process that stored it, as long as logins do not overlap.
THEOREM LastLoginCounts == Spec => []LastLoginUsed
  <1>1. LInv => LastLoginUsed  BY DEF LInv
  <1> QED  BY <1>1, InitLInv, StepLInv, PTL DEF Spec

-----------------------------------------------------------------------------
(* Cookies. *)

CookieInv ==
    /\ secret = 0 => DOMAIN cookies = {}
    /\ \A q \in DOMAIN cookies : cookies[q] = secret /\ pc[q] = "over"
    /\ out \subseteq DOMAIN cookies /\ left \subseteq out
    /\ sessions = DOMAIN cookies \ (out \ left)
SessionInv == TInv /\ CookieInv

LEMMA InitSession == Init => SessionInv
  <1> SUFFICES ASSUME Init PROVE CookieInv  BY InitTInv DEF SessionInv
  <1>1. DOMAIN cookies = {}  BY DEF Init
  <1> QED  BY <1>1 DEF Init, CookieInv

\* The secret is generated once, before there is any cookie.
LEMMA SecretKept == ASSUME SessionInv, ProcessStep PROVE secret' = secret \/ DOMAIN cookies = {}
  BY LifeChanges DEF ProcessStep, SessionInv, TInv, CookieInv

LEMMA StepSession == SessionInv /\ [Next]_vars => SessionInv'
  <1> SUFFICES ASSUME SessionInv, [Next]_vars PROVE CookieInv'
    BY StepTInv DEF SessionInv
  <1>1. pc \in [Requests -> Stages] /\ DOMAIN cookies \subseteq Requests
    BY DEF SessionInv, TInv, LoginTypes
  <1>2. CASE ProcessStep
    <2>1. UNCHANGED <<cookies, out, left, sessions>>  BY <1>2 DEF ProcessStep, store
    <2>2. \A q \in Requests : pc'[q] = IF q \in requests \ requests' THEN "over" ELSE pc[q]
      BY <1>2 DEF ProcessStep
    <2>3. secret' = secret \/ DOMAIN cookies = {}  BY <1>2, SecretKept
    <2>4. secret' = 0 => secret = 0
      BY <1>2, LifeChanges DEF ProcessStep, SessionInv, TInv
    <2> QED  BY <1>1, <2>1, <2>2, <2>3, <2>4 DEF SessionInv, CookieInv
  <1>3. ASSUME NEW q \in Requests, LoginAt(q), ~CreateSession(q) PROVE CookieInv'
    <2>1. UNCHANGED <<cookies, out, left, sessions>> /\ pc[q] # "over"
      BY <1>3 DEF LoginAt, LoginStep, Login, Validate, ReadCredential, WriteCredential, store
    <2>2. \E s \in Stages : pc' = [pc EXCEPT ![q] = s]
      BY <1>3 DEF LoginAt, LoginStep, Login, Validate, ReadCredential, WriteCredential, Over,
                  Goto, Stages
    <2>3. \A p \in Requests \ {q} : pc'[p] = pc[p]  BY <1>1, <2>2
    <2>4. secret' = secret
      BY <1>3, Zenon DEF LoginAt, LoginStep, Login, Validate, ReadCredential, WriteCredential,
                         Over, Arrive, Answer, lifeVars
    <2> QED  BY <1>1, <2>1, <2>3, <2>4 DEF SessionInv, CookieInv
  <1>4. ASSUME NEW q \in Requests, CreateSession(q) PROVE CookieInv'
    <2>1. /\ pc[q] = "session" /\ pc' = [pc EXCEPT ![q] = "over"] /\ UNCHANGED <<out, left, secret>>
          /\ sessions' = sessions \cup {q}
          /\ cookies' = [p \in DOMAIN cookies \cup {q} |-> IF p = q THEN sessionKey ELSE cookies[p]]
      BY <1>4 DEF CreateSession, Over, Goto, Answer
    <2>2. q \notin DOMAIN cookies  BY <2>1 DEF SessionInv, CookieInv
    <2>3. sessionKey = secret /\ secret # 0
      <3>1. q \in requests  BY <2>1 DEF SessionInv, TInv, LoginsInFlight
      <3>2. proc \in Keyed  BY <3>1 DEF SessionInv, TInv, Served, Answering, Keyed
      <3> QED  BY <3>2 DEF SessionInv, TInv, KeyInv
    <2> QED  BY <1>1, <2>1, <2>2, <2>3 DEF SessionInv, CookieInv
  <1>5. CASE \E q \in Requests : Logout(q)
    <2>1. PICK q \in Requests : Logout(q)  BY <1>5
    <2>2. /\ q \in DOMAIN cookies \ out /\ out' = out \cup {q}
          /\ UNCHANGED <<cookies, pc, secret>>
      BY <2>1 DEF Logout, lifeVars, logins
    <2>3. CASE sessions' = sessions \ {q} /\ left' = left
      BY <2>2, <2>3 DEF SessionInv, CookieInv
    <2>4. CASE sessions' = sessions /\ left' = left \cup {q}
      BY <2>2, <2>4 DEF SessionInv, CookieInv
    <2> QED  BY <2>1, <2>3, <2>4 DEF Logout
  <1>6. CASE UNCHANGED <<cookies, out, left, sessions, pc, secret>>
    BY <1>6 DEF SessionInv, CookieInv
  <1>7. Elsewhere \/ UNCHANGED vars =>
            \/ \E q \in Requests : Logout(q)
            \/ UNCHANGED <<cookies, out, left, sessions, pc, secret>>
    BY Zenon DEF Elsewhere, Expire, RotatePassword, store, logins, vars, lifeVars
  <1> QED  BY <1>2, <1>3, <1>4, <1>5, <1>6, <1>7, LoginCases

\* No restart and no crash ends a session or brings back one whose row a logout has
\* deleted: what the server accepts are the cookies it set, less those, and with those
\* whose logout could not delete the row.
THEOREM SessionsLast == Spec => []CookiesLast
  <1>1. SessionInv => CookiesLast
    <2> SUFFICES ASSUME SessionInv, proc = "serve", NEW q \in DOMAIN cookies
                 PROVE  LetsIn(q) <=> q \notin (out \ left) \cup expired
      BY DEF CookiesLast
    <2>1. sessionKey = secret  BY DEF SessionInv, TInv, KeyInv, Keyed
    <2>2. cookies[q] = secret /\ (q \in sessions <=> q \notin out \ left)
      BY DEF SessionInv, CookieInv
    <2> QED  BY <2>1, <2>2 DEF LetsIn
  <1> QED  BY <1>1, InitSession, StepSession, PTL DEF Spec
=============================================================================
