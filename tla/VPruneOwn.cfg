SPECIFICATION Spec
CONSTANTS
    daily = daily
    weekly = weekly
    disk = disk
    nas = nas
    cloud = cloud
    None = None
    MaxRuns = 2
    MaxActive = 1
    Schedules = {daily, weekly}
    Dests = {nas}
    Kind <- KindOf
    InitNames <- NestedNames
    InitLinks <- NasKeep1
    NewNames <- NoNames
    NewLinks <- NoLinks
    DeletableSchedules = {}
    DeletableDests = {}
    UserRemoves = FALSE
    MinGap = 1
    Faults = {}
    MaxCrashes = 0
CHECK_DEADLOCK FALSE
PROPERTIES PruneKeepsJustStored
