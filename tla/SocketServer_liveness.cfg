SPECIFICATION LiveSpec
CONSTANTS
    Fd = {0, 1}
    MaxSendBuffer = 2
    Profiles = {{"read", "destr"}}
    Settable = {}
    AutoClose = FALSE
    WordBits = 2
PROPERTY DeletedIsClosed
CHECK_DEADLOCK FALSE
