SPECIFICATION FairSpec
CONSTANTS
    Entries <- OneName
    KindsOf <- FileOrDir
    Sizes = {1}
    Excluded = {}
    Denied = {}
    InitRemote <- FileAtFirst
    InitSize = 1
    Tolerance = 1
    Gap = 2
    MaxRetries = 1
    MaxEdits = 2
    MaxFaults = 0
    None = None
CHECK_DEADLOCK FALSE
PROPERTIES EventuallyMirrored
