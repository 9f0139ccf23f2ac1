SPECIFICATION FairSpec
CONSTANTS
    Conns = {1, 2}
    Endpoints = {e1, e2}
    Requests <- MCRequests
    HeaderLen = 2
    AliveTicks = 2
    None = None
INVARIANTS TypeOK TableMatchesConnections OnlyCompleteRequestsAnswered ResponseAsCalled
PROPERTIES EverySessionEnds
CHECK_DEADLOCK FALSE
