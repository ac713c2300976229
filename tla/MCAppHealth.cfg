\* The documented order of health and drain, against the code.
SPECIFICATION SafeSpec
CHECK_DEADLOCK FALSE
CONSTANTS
    MaxNameLen = 7
    MaxLabelLen = 2
    LabelLen <- MCLabelLen
    LowerOf <- MCLowerOf
    NameChars <- MCNameChars
    Octets <- MCOctets
    Probes = {p1}
    Requests <- MCRequests
    AdminSlots = 1
    StartFiles <- MCStartFiles
    Files <- MCFiles
    Taken <- MCTaken
    Host <- MCHost
    Conns = {c1}
    Jobs = {j1}
    Budget = 1
    None = None
INVARIANTS
    HealthTurnsFirst
