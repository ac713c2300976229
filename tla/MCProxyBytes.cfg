\* One connection with more bytes than a pipe holds, with fair timers.
SPECIFICATION Spec
CONSTANTS
    Conns = {c1}
    FdLimit = 8
    Override = None
    BufferSize = 2
    IdleTimeout = 2
    MaxBytes = 3
    None = None
INVARIANTS
    BooksBalance
    WatchdogExact
PROPERTIES
    ImplementsByteRelay
    StalledConnectionEnds
CHECK_DEADLOCK FALSE
