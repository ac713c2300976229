\* Two connections that share one permit, no idle timeout: nothing but the copy
\* itself passes on the end of a stream.  No symmetry, because liveness is checked.
SPECIFICATION Spec
CONSTANTS
    Conns = {c1, c2}
    FdLimit = 9
    Override = None
    BufferSize = 1
    IdleTimeout = None
    MaxBytes = 0
    None = None
INVARIANTS
    SpliceBudgetKept
PROPERTIES
    HalfClosePropagates
CHECK_DEADLOCK FALSE
