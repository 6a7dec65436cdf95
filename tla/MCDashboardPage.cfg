CONSTANTS
    Projects = {"a", "b"}
    Routes <- MCRoutes
    MaxPending = 2
    MaxClicks = 1
CHECK_DEADLOCK FALSE
SPECIFICATION FairSpec
INVARIANTS OneTimer TabsFollowAddress
PROPERTIES LivePagesRecover
