CONSTANTS
    Client = {c1, c2}
    Listener = listener
    MaxSendBuffer = 1
    WriteSizes = {2}
    MaxWrites = 1
    MaxConnects = 2
SPECIFICATION FairSpec
PROPERTIES DeleteAlwaysFinishes
