\* Two names compete for one permit; the cache prunes once it holds both.
\* No symmetry: liveness is checked.
CONSTANTS
    Names = {n1, n2}
    Callers = {p1}
    Tasks = {t1, t2}
    MaxConcurrent = 1
    Ttl = 1
    NegativeTtl = 1
    StaleIfError = 1
    PruneThreshold = 2
    MaxVersion = 1
    None = None
    Err = Err
SPECIFICATION Spec
INVARIANTS
    LookupsAccounted
    OverrunBounded
PROPERTIES
    WaiterAnswered
    AnswersNeverGoBack
    KeepsGoodAnswer
CHECK_DEADLOCK FALSE
