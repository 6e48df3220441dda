SPECIFICATION Spec
CONSTANTS
    Requests = {q1, q2, q3}
    Boot = boot
    Schedules = {s1}
    Exprs = {nightly, typo}
    Invalid = {typo}
    MaxActive = 2
    Faults = {}
    MaxRestarts = 0
    None = None
SYMMETRY RequestSymmetry
CHECK_DEADLOCK FALSE
INVARIANTS KeptInSync
