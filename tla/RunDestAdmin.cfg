SPECIFICATION Spec
CONSTANTS
    disk = disk
    share = share
    q1 = q1
    q2 = q2
    q3 = q3
    r1 = r1
    r2 = r2
    Requests = {q1, q2, q3}
    Runs = {r1, r2}
    MaxRows = 2
    Places = {disk, share}
    Secrets = {s1}
    MaxFaults = 1
    None = None
CHECK_DEADLOCK FALSE
SYMMETRY AdminSymmetry
INVARIANTS TypeOK LinksHold PurgeTakesAll
PROPERTIES DeletedStaysDeleted SecretKept DeleteDropsNoLink PurgesOnlyTheDeleted
