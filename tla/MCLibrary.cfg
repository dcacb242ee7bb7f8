SPECIFICATION MCSpec
CONSTANTS
    Letters = {"a"}
    Threads = {t1, t2, t3}
    NoThread = NoThread
    MaxScopes = 1
INVARIANTS
    MonitorExclusive
    NoLostWakeup
    NumbersExact
    ListsInOrder
    RoundTrip
    DatesExact
    PatternsMatch
    TextsInParts
PROPERTIES
    RefinesBinarySignal
    SignalIsTaken
CHECK_DEADLOCK FALSE
