SPECIFICATION FairSpec
CONSTANTS
    e1 = e1  e2 = e2  none = none  noreq = noreq  mixed = mixed
    Execs <- MCExecs
    Keys <- MCKeys
    JobIDs = {"j1", "j2", "j3"}
    Targets <- MCTargets
    Releases = {"R1", "R2"}
    Requests <- MCRequests
    Policy <- MCPolicy
    NoRelease <- none
    NoRequest <- noreq
    Mixed <- mixed
    MaxAttempts = 2
    Faults = {"crash", "expire", "store"}
INVARIANTS
    OneJobPerTarget
    BaseStaysCurrent
    RolloutOncePerKey
    AnswersStayTrue
    ProductionRunsRecordedRelease
PROPERTIES
    ImplementsLedger
    JobsTerminate
