CONSTANTS
    s1 = s1
    Procs = {p1, p2}
    Sites = {s1}
    Starts = {1}
    Inputs <- Both
    NoJob = NoJob
    MaxCrashes = 1
    MaxFailures = 1
SPECIFICATION Spec
INVARIANTS LockExcludes LockHasInput ActiveHasFile
CHECK_DEADLOCK FALSE
