SPECIFICATION Spec
CONSTANTS
    Conns = {1}
    Endpoints = {e1, e2}
    Requests <- OneGet
    HeaderLen = 2
    AliveTicks = 2
    None = None
INVARIANTS NoDanglingCallback
CHECK_DEADLOCK FALSE
