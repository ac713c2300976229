\* Expected to fail: bytes moved on the upstream's side while the timeout ran.
SPECIFICATION SafeSpec
CONSTANTS
    Conns = {c1}
    FdLimit = 8
    Override = None
    BufferSize = 2
    IdleTimeout = 2
    MaxBytes = 2
    None = None
INVARIANTS
    IdleMeansNothingMoved
CHECK_DEADLOCK FALSE
