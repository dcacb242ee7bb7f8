SPECIFICATION Spec
CONSTANTS
    n1 = n1
    n2 = n2
    n3 = n3
    n4 = n4
    Null = Null
    Nodes = {n1, n2, n3, n4}
    Key <- SomeKeys
    Absent = Absent
    Letters = {"a"}
    Names = {"x", "y"}
    Comment = "#"
    Addresses = {1, 2}
    WriteDelay = 2
    MaxHold = 2
    Values <- SomeTexts
    Files <- SomeFiles
    Items = {1, 2}
    nIncItems = 2
    MaxItems = 4
    HashNames = {"a", "b"}
    HashValues = {1, 2, 3}
    Bytes = {1, 10}
    NewLine = 10
    SizeInc = 2
    MaxLength = 3
    URLs = {"u", "v"}
    Responses <- SomeResponses
    Chunk = 3
    Peek = 2
    MaxDatagrams = 3
    Queries = {1, 2}
    Things = {"thing"}
    MaxRows = 2
    Handlers = {1, 2}
    Functions = {3, 4}
    Nobody = 0
    MaxFunctions = 2
    Strings = {1, 2, 3, 4}
INVARIANTS
    WellFormed
    HashIndexesList
    SavedIsStored
    ContainersHold
    PeersDataInOrder
PROPERTIES
    RefinesSequence
    AddKeepsOrder
    ChangeIsWritten
    StopReturns
CHECK_DEADLOCK FALSE
