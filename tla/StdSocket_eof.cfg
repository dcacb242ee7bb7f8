CONSTANTS
    Conn = {c1}
    MaxSent = 1
    MaxOut = 1
SPECIFICATION FairSpec
PROPERTIES EndOfFileIsReported
