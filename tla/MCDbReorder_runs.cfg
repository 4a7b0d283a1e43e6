CONSTANTS
    ftp = ftp
    web = web
    n1 = n1
    n2 = n2
    None = None
    Catalogs = {ftp}
    Databases <- OnlyFtp
    Names = {n1, n2}
    Starts = {x1, x2}
    Orders <- TwoOrders
    Tables <- FtpTables
    MaxEdits = 1
    MaxUpdates = 1
    MaxCrashes = 1
    MaxRuns = 2
SPECIFICATION Spec
INVARIANTS TypeOK Reordered
PROPERTIES SameHosts NothingInvented
CHECK_DEADLOCK FALSE
