\* One connection, two admin connections and one admin slot; at most Budget
\* changes of the file, signals, failures of ctrl_c and connections in all.
SPECIFICATION Spec
CHECK_DEADLOCK FALSE
CONSTANTS
    MaxNameLen = 7
    MaxLabelLen = 2
    LabelLen <- MCLabelLen
    LowerOf <- MCLowerOf
    NameChars <- MCNameChars
    Octets <- MCOctets
    Probes = {p1, p2}
    Requests <- MCRequests
    AdminSlots = 1
    StartFiles <- MCStartFiles
    Files <- MCFiles
    Taken <- MCTaken
    Host <- MCHost
    Conns = {c1}
    Jobs = {j1, j2}
    Budget = 3
    None = None
INVARIANTS
    AdminSlotsConserved
    NoTornLookup
    ProbesSeeDrain
    NothingLeftAtExit
    OneFileInForce
PROPERTIES
    RoutesNeverGoBack
    LastHangupWins
    ExitsAfterSignal
    ProbeAnswered
