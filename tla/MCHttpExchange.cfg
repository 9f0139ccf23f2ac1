SPECIFICATION FairSpec
CONSTANTS
    PlainCap = 3
    RecordCap = 4
    MaxConns = 2
    Methods = {"GET", "POST", "OPTIONS", "BAD"}
    PostLens = {1, 2}
    Handlers <- HandlersValue
    None = None
INVARIANTS TypeOK ToldWhatWasWritten TableExact
PROPERTIES SafeCallbacks Answered
CHECK_DEADLOCK FALSE
