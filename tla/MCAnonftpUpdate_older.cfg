CONSTANTS
    s1 = s1
    Procs = {p1, p2}
    Sites = {s1}
    Starts = {1, 2, 3}
    Inputs <- TwoVersions
    NoJob = NoJob
    MaxCrashes = 0
    MaxFailures = 0
SPECIFICATION Spec
PROPERTIES NeverOlder
