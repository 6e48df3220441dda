SPECIFICATION FairSpec
CONSTANTS
    Entries <- Tree
    KindsOf <- Fixed
    Sizes = {1}
    Excluded <- SkipSys
    Denied <- DenyTwo
    InitRemote <- AtFirst
    InitSize = 1
    Tolerance = 1
    Gap = 2
    MaxRetries = 1
    MaxEdits = 2
    MaxFaults = 2
    None = None
CHECK_DEADLOCK FALSE
INVARIANTS TypeOK  
PROPERTIES SettledCopyKept 
