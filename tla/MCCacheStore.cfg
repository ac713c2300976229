\* Eviction, index and in-flight slots: three hosts, two under one wildcard, compete for
\* two entries and one load.  The store does not change.
CONSTANTS
    a = a
    b = b
    d = d
    w = w
    None = None
    Err = Err
    Keys = {a, b, d, w}
    Cands <- ThreeHosts
    Callers = {p1}
    Loads = {l1}
    MaxEntries = 2
    MaxInflight = 1
    Ttl = 1
    Jitter = 0
    NegativeTtl = 1
    StaleIfError = 0
    LoadTimeout = 0
    FirstVersion <- NoRoutes
    MaxVersion = 0
    AgeCap = 0
SPECIFICATION Spec
INVARIANTS
    ViewsAgree
    WithinCapacity
    LoadsAccounted
SYMMETRY HostSymmetry
CHECK_DEADLOCK FALSE
