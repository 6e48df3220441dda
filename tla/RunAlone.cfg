SPECIFICATION Spec
CONSTANTS
    daily = daily
    weekly = weekly
    disk = disk
    nas = nas
    cloud = cloud
    None = None
    MaxRuns = 3
    MaxActive = 1
    Schedules = {daily, weekly}
    Dests = {disk, nas, cloud}
    Kind <- KindOf
    InitNames <- SeparateNames
    InitLinks <- EveryKind
    NewNames <- NoNames
    NewLinks <- NoLinks
    DeletableSchedules = {}
    DeletableDests = {}
    UserRemoves = FALSE
    MinGap = 1
    Faults = {"load", "mirror", "archive", "store", "list", "delete", "reply", "timeout"}
    MaxCrashes = 0
CHECK_DEADLOCK FALSE
INVARIANTS HistoryMatchesStore OutcomesAlwaysRecorded
PROPERTIES KeepsPromise
