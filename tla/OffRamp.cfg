SPECIFICATION FairSpec
CONSTANTS
    Requests = {r1}
    chainOf <- OneChain
    Verifiers = {v1, v2}
    Calls = {w1, w2}
    None = None
    MaxFloat = 1
    MaxFaults = 2
    MaxCrashes = 1
INVARIANTS FiatAtMostOnce FiatOnlyIfConfirmed RowIsTrue
PROPERTIES Attended
CHECK_DEADLOCK FALSE
