SPECIFICATION FairSpec
CONSTANTS
    ReadMax = 3
    RecvSizes <- MCRecvSizes
    SendLens <- MCSendLens
    MaxSent = 5
    MaxSends = 2
    MaxJobs = 2
INVARIANTS TypeOK NothingLost ReceiverIsReachable SendBufferStable CrashOnlyOutOfTurn
PROPERTIES JobEndsWithPeer
CHECK_DEADLOCK FALSE
