SPECIFICATION FairSpec
CONSTANTS
    MaxFrames = 3
    MaxWrites = 1
    PeerOps = {"BIN", "PING", "PONG", "CLOSE"}
    PongLimit = 0
    None = None
CHECK_DEADLOCK FALSE
INVARIANTS TypeOK DeliveredInOrder EndsCleanly
PROPERTY PeerLossNoticed
