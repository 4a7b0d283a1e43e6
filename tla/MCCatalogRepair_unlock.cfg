CONSTANTS
    s1 = s1
    Procs = {p1}
    Sites = {s1}
    Starts = {1, 2}
    Inputs <- TwoVersions
    NoJob = NoJob
    MaxCrashes = 0
    MaxFailures = 0
    MaxFixes = 1
    FixAfter = 0
    RepairFirst = FALSE
SPECIFICATION RepairSpec
INVARIANTS FixExcludesUpdates
