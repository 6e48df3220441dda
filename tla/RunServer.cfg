SPECIFICATION FairSpec
CONSTANTS
    nas = nas
    nightly = nightly
    Dests <- OneDest
    Links <- OneLink
    Runs = {r1}
    Requests = {q1, q2}
    MaxStarts = 2
    MaxCrashes = 1
    Keys = {k1, k2}
    Credentials = {c1, c2}
    MaxRotations = 1
    None = None
CHECK_DEADLOCK FALSE
INVARIANTS TypeOK ServesMigrated CookiesLast LastLoginUsed OnlyAccepted
PROPERTIES NothingLost MigratesOnce ShutdownPatient SignalEnds
