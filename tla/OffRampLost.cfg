SPECIFICATION FairSpec
CONSTANTS
    Requests = {r1}
    chainOf <- OneChain
    Verifiers = {}
    Calls = {w1}
    None = None
    MaxFloat = 1
    MaxFaults = 1
    MaxCrashes = 0
PROPERTIES Answered
CHECK_DEADLOCK FALSE
