SPECIFICATION LiveSpec
CONSTANTS
    Width = 4
    Timeout = 2
    MaxGap = 1
    BufLen = 2
    MaxRequest = 3
    MaxLate = 2
    MaxSilence = 5
    Patience = 1
    MaxFailing = 2
INVARIANTS
    ReportedOnce
PROPERTIES
    NeverGivenUpEarly
    AnswerIsOwn
    Answered
CHECK_DEADLOCK FALSE
