SPECIFICATION FairSpec
CONSTANTS
    Requests = {q1, q2, q3}
    Boot = Boot
    Schedules = {s1, s2}
    Exprs = {nightly, typo}
    Invalid = {typo}
    MaxActive = 2
    Faults = {"links", "list"}
    MaxRestarts = 1
    None = None
CHECK_DEADLOCK FALSE
INVARIANTS TypeOK EntriesTracked InSyncWhenQuiet
PROPERTIES ReloadIsWhole RequestsFinish
