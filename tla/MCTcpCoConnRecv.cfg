SPECIFICATION FairSpec
CONSTANTS
    ReadMax = 3
    RecvSizes <- MCRecvSizes
    SendLens <- MCSendLens
    MaxSent = 5
    MaxSends = 2
    MaxJobs = 2
PROPERTIES BufferedDataIsReported
CHECK_DEADLOCK FALSE
