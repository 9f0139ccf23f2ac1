SPECIFICATION FairSpec
CONSTANTS
    BlockLen = 6
    KeyLen = 3
    RecvCap = 29
    OffsetSums = {0, 3}
    MaxReads = 3
    ReadSizes = {1, 9}
    None = None
INVARIANTS TypeOK AnswerFitsClient AnsweredOnce
PROPERTIES PatientClientConnects
CHECK_DEADLOCK FALSE
