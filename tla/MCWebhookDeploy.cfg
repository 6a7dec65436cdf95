CONSTANTS
    Projects = {a}
    Slots = 2
    MaxPushes = 2
    MaxJobs = 3
    MaxFaults = 1
    NoJob = noJob
CHECK_DEADLOCK FALSE
SPECIFICATION Spec
INVARIANTS NoDuplicateDeployment RowsSettle SomeJobCanMove
PROPERTIES NeverOlder
