SPECIFICATION FairSpec
CONSTANTS
    w1 = w1  w2 = w2  nobody = nobody
    Procs <- MCProcs
    RelayProviders <- MCProviders
    NoProc <- nobody
    MaxBatch = 2
    MaxEntries = 3
    MaxRelayFaults = 2
INVARIANTS
    EventsOnceInOrder
PROPERTIES
    EventsDelivered
