CONSTANTS
    ftp = ftp
    web = web
    n1 = n1
    n2 = n2
    None = None
    Catalogs = {ftp, web}
    Databases <- DefaultList
    Names = {n1, n2}
    Starts = {x1, x2}
    Orders <- OneOrder
    Tables <- BothTables
    MaxEdits = 0
    MaxUpdates = 0
    MaxCrashes = 0
    MaxRuns = 1
SPECIFICATION Spec
INVARIANTS Reordered
CHECK_DEADLOCK FALSE
