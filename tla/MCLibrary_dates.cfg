SPECIFICATION MCSpec
CONSTANTS
    Letters = {"a"}
    Threads = {t1}
    NoThread = NoThread
    MaxScopes = 0
INVARIANT DatesAsWritten
CHECK_DEADLOCK FALSE
