SPECIFICATION FairSpec
CONSTANTS
    Signers = {s1}
    Cancellers = {}
    Payments = {p1}
    Right = {p1}
    Hooks = {h1}
    Workers = {w1}
    None = None
    MaxTx = 2
    MaxFaults = 0
    MaxCrashes = 1
PROPERTIES Resolves
CHECK_DEADLOCK FALSE
