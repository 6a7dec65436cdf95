CONSTANTS
    Procs = {p1, p2}
    MaxBackups = 3
    MaxFailures = 1
    Limit <- MCLimit
CHECK_DEADLOCK FALSE
SPECIFICATION StoreSpec
INVARIANTS RowsMatchData
PROPERTIES PrunesOnlyExcess
