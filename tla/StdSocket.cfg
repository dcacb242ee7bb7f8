CONSTANTS
    Conn = {c1, c2}
    MaxSent = 2
    MaxOut = 1
SPECIFICATION FairSpec
INVARIANTS StreamInOrder
PROPERTIES EndsAfterLastByte FailureIsReported
