SPECIFICATION Spec
CONSTANTS
    daily = daily
    weekly = weekly
    disk = disk
    nas = nas
    cloud = cloud
    None = None
    MaxRuns = 3
    MaxActive = 3
    Schedules = {daily, weekly}
    Dests = {cloud}
    Kind <- KindOf
    InitNames <- AlikeNames
    InitLinks <- CloudKeep1
    NewNames <- NoNames
    NewLinks <- NoLinks
    DeletableSchedules = {}
    DeletableDests = {}
    UserRemoves = FALSE
    MinGap = 1
    Faults = {"archive", "hang"}
    MaxCrashes = 0
CHECK_DEADLOCK FALSE
INVARIANTS MirrorNotShared UploadReadsOwnArchive RetentionSettles
PROPERTIES PruneLeavesNewer
