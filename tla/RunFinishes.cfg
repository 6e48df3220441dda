SPECIFICATION FairSpec
CONSTANTS
    daily = daily
    weekly = weekly
    disk = disk
    nas = nas
    cloud = cloud
    None = None
    MaxRuns = 2
    MaxActive = 2
    Schedules = {daily}
    Dests = {nas}
    Kind <- KindOf
    InitNames <- SeparateNames
    InitLinks <- NasKeep1
    NewNames <- NoNames
    NewLinks <- Unlinked
    DeletableSchedules = {daily}
    DeletableDests = {nas}
    UserRemoves = TRUE
    MinGap = 0
    Faults = {"mirror", "store", "reply", "timeout", "hang"}
    MaxCrashes = 0
CHECK_DEADLOCK FALSE
INVARIANTS TempEmptied
PROPERTIES OnlyNamesakesDisturb EveryRunFinishes
