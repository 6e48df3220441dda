SPECIFICATION Spec
CONSTANTS
    daily = daily
    weekly = weekly
    disk = disk
    nas = nas
    cloud = cloud
    None = None
    MaxRuns = 2
    MaxActive = 1
    Schedules = {daily}
    Dests = {nas, cloud}
    Kind <- KindOf
    InitNames <- SeparateNames
    InitLinks <- EveryKind
    NewNames <- OtherNames
    NewLinks <- OtherLinks
    DeletableSchedules = {daily}
    DeletableDests = {cloud}
    UserRemoves = FALSE
    MinGap = 1
    Faults = {"reply", "db"}
    MaxCrashes = 1
CHECK_DEADLOCK FALSE
INVARIANTS TypeOK
PROPERTIES KeepsPromise
