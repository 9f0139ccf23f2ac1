SPECIFICATION Spec
CONSTANTS
    Byte <- MCByte
    Blank = 0
    Uninit = Uninit
    PRE_RESERVE_HEADER_SIZE = 2
    EXTRA_LEN = 3
    SizeSteps <- MCSizeSteps
    SIZE_MOD = 64
    InitSizes <- MCInitSizes
    Inputs <- MCInputs
    ConsumeLens <- MCConsumeLens
    MaxTotal = 7
INVARIANTS TypeOK OverrunOnlyWhenTiny
PROPERTIES ImplementsByteQueue
CHECK_DEADLOCK FALSE
