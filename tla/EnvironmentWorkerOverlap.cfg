CONSTANTS
    i1 = i1
    i2 = i2
    w1 = w1
    w2 = w2
    c1 = c1
    c2 = c2
    Items = {i1, i2}
    LeaseMs = 1
    MaxClaims = 2
    NoLease = NoLease
    Workers = {w1}
    Calls = {c1, c2}
    WorkerOf <- Overlapping
    NoCall = NoCall
    NoItem = NoItem
    RemoteFaults = TRUE
    Modes = {"drain", "one"}
    Settlements = {"failed", "lease_error"}
SPECIFICATION Spec
CHECK_DEADLOCK FALSE
INVARIANTS
    AccountsHold
SYMMETRY Symmetry
