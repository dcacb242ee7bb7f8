SPECIFICATION LiveSpec
CONSTANTS
    Threads = {t1, t2, t3}
    NoThread = NoThread
    MaxScopes = 0
PROPERTY BroadcastReleasesAll
CHECK_DEADLOCK FALSE
