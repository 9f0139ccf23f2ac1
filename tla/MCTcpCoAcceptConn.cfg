SPECIFICATION FairSpec
CONSTANTS
    Coros = {c1, c2}
    ReadMax = 2
    RecvSizes <- MCRecvSizes
    MaxSent = 3
    MaxSends = 1
INVARIANTS TypeOK ReceiverFindsBufferEmpty InOrderExactlyOnce SendAnswerTruthful NoDanglingCallback
PROPERTIES SendAnswered ReceiveAnswered HandleFreed
CHECK_DEADLOCK FALSE
