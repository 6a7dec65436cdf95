CONSTANTS
    Browsers = {b1, b2}
    Tokens = {t1, t2}
    States = {s1, s2}
    MaxSessions = 1
    Lifetime = 1
    OIDCLifetime = 2
    Window = 1
    Burst = 2
    Idle = 1
    MaxVisitors = 1
    Requests <- MCRequests
    Verdicts <- MCVerdicts
SPECIFICATION Spec
INVARIANTS AdmittedMeansEntitled OneSessionPerSignIn LimitsHold
SYMMETRY Alike
