CONSTANTS
    Deployers = {d1, d2}
    Local = local
    NoProc = noProc
    v1 = v1
    v2 = v2
    main = main
    conf = conf
    Compose = compose
    Env = env
    Uploads = {v1, v2}
    Files = {compose, env, main, conf}
    MaxDeploys = 2
    Services = {web, worker}
    Server = server
    Absent = absent
    NoBackup = noBackup
    Contains <- MCContains
    PrivateOf <- MCPrivateOf
SYMMETRY Symmetry
CHECK_DEADLOCK FALSE
SPECIFICATION Spec
INVARIANTS OneAtWork FailedUpdateKeepsSource WritersComeBack
PROPERTIES OverwritesAreBackedUp PrivateFilesStay
