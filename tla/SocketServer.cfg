SPECIFICATION Spec
CONSTANTS
    Fd = {0, 1}
    MaxSendBuffer = 2
    Profiles = {{"read", "write", "need", "destr"}}
    Settable = {"read"}
    AutoClose = TRUE
    WordBits = 1
INVARIANTS
    TypeOK
    HandlerPointersLive
    NoNullReadCallback
    NoCallbackAfterDestructor
    ReadinessIsCurrent
    NoBufferWithoutHandler
    DeleteListConsistent
PROPERTIES
    DeletedOnlyDrains
    UnsentOnlyByCause
CHECK_DEADLOCK FALSE
