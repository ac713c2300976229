\* Two clients, two listeners, two slots: the limit is reached, a listener can
\* be passed over, and connections are on both sides of the gate.  No symmetry,
\* because liveness is checked.
CONSTANTS
    Conns = {c1, c2}
    NumListeners = 2
    MaxConnections = 2
SPECIFICATION Spec
INVARIANTS
    SlotsConserved
    QuietWhenReturned
    NoListenerStarved
    IndInv
PROPERTIES
    ImplementsGracefulShutdown
    ShutdownCompletes
CHECK_DEADLOCK FALSE
