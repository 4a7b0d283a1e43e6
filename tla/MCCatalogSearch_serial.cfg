CONSTANTS
    s1 = s1
    s2 = s2
    Procs = {p1}
    Sites = {s1, s2}
    Starts = {1, 2, 3}
    Inputs <- AllInputs
    NoJob = NoJob
    MaxCrashes = 1
    MaxFailures = 1
SPECIFICATION SearchSpec
INVARIANTS TypeOK InterruptedIsMarked SearchableThroughout
PROPERTIES NeverOlder CatalogSpec
CHECK_DEADLOCK FALSE
