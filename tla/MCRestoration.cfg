SPECIFICATION Spec
CONSTANTS
    Processes = {p1, p2}
    Listed = 3
    Kept = 1
    MaxCommands = 2
    MaxWrites = 1
    MaxFaults = 2
SYMMETRY Alike
CHECK_DEADLOCK FALSE
INVARIANTS RestoredIsWhole BindDataNeverLost WatchGoesBackOneDeploy ImportKeepsAWayBack
