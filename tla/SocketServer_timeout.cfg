SPECIFICATION Spec
CONSTANTS
    Fd = {0}
    MaxSendBuffer = 1
    Profiles = {{"read", "destr"}}
    Settable = {}
    AutoClose = TRUE
    WordBits = 1
PROPERTY ClosedByTimeoutNotWritable
CHECK_DEADLOCK FALSE
