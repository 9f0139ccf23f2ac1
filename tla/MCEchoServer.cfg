SPECIFICATION FairSpec
CONSTANTS
    Clients = {a, b, c}
    None = None
INVARIANTS TypeOK OpenExactlyWhileHeld NothingIgnoredWhileRunAccepts
PROPERTIES QueuedIsAccepted EndReleases
CHECK_DEADLOCK FALSE
