CONSTANTS
    Client = {c1, c2}
    Listener = listener
    MaxSendBuffer = 1
    WriteSizes = {1, 2}
    MaxWrites = 1
    MaxConnects = 3
SPECIFICATION FairSpec
INVARIANTS HandlersLive NoClientWithoutServer
PROPERTIES ClosedOnlyWhenSent DeleteFinishes
