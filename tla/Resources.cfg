SPECIFICATION MCSpec
CONSTANTS
    d1 = d1
    d2 = d2
    Displays <- TwoDisplays
    MaxInstances = 1
    MaxCalls = 5
    MaxFaults = 2
SYMMETRY Symmetry
CHECK_DEADLOCK FALSE
INVARIANTS
    AccountsExact
    NothingFreedTwice
    Quarantine
    QueriesAgree
