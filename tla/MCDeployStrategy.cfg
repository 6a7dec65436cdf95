CONSTANTS
    Services = {app, worker}
    Front = app
    Deployers = {d1, d2}
    NoDeployer = noDeployer
    MaxVersion = 2
    MaxDeploys = 2
CHECK_DEADLOCK FALSE
SPECIFICATION FairSpec
INVARIANTS FailureLeavesOldSet
PROPERTIES SuccessIsCurrent DeploysEnd
