SPECIFICATION Spec
CONSTANTS
    daily = daily
    weekly = weekly
    disk = disk
    nas = nas
    cloud = cloud
    None = None
    MaxRuns = 2
    MaxActive = 2
    Schedules = {daily}
    Dests = {nas}
    Kind <- KindOf
    InitNames <- SeparateNames
    InitLinks <- NasKeep1
    NewNames <- NoNames
    NewLinks <- NoLinks
    DeletableSchedules = {}
    DeletableDests = {}
    UserRemoves = FALSE
    MinGap = 1
    Faults = {}
    MaxCrashes = 0
CHECK_DEADLOCK FALSE
PROPERTIES GoodBackupSurvives
