SPECIFICATION Spec
CONSTANTS
    Targets = {t1, t2}
    Providers <- Channels
    Setups <- Installations
    Threshold = 2
    Timeout = 1
    StaleAfter = 1
    MaxAge = 1
    SecurityAge = 2
    TTL = 2
    MaxFaults = 1
SYMMETRY Alike
INVARIANTS AlertFollowsChecks OverviewIsRecent ChannelsHearChanges
