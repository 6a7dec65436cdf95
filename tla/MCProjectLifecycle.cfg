CONSTANTS
    Processes = {p1, p2}
    MaxCommands = 3
    MaxFaults = 1
SPECIFICATION Spec
SYMMETRY Alike
CHECK_DEADLOCK FALSE
INVARIANTS StatusIsTrue FailedCreationLeavesNothing RegisteredHasFiles ListedEnvironmentIsWhole
