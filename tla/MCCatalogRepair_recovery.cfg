CONSTANTS
    s1 = s1
    Procs = {p1}
    Sites = {s1}
    Starts = {1}
    Inputs <- OneEmpty
    NoJob = NoJob
    MaxCrashes = 1
    MaxFailures = 1
    MaxFixes = 1
    FixAfter = 1
    RepairFirst = FALSE
SPECIFICATION FairRepairSpec
INVARIANTS ListsRepairedAlone
PROPERTIES UpdatesEnd AllWorkedOff
