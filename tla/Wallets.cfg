SPECIFICATION Spec
CONSTANTS
    Ids = {i1, i2}
    Pins = {p1, p2}
    Tabs = {t1}
    Calls = {c1, c2}
    None = None
    MaxFaults = 1
SYMMETRY Symmetry
INVARIANTS AtMostOnePrimary SignerKept
PROPERTIES NoResurrection RotationHolds
CHECK_DEADLOCK FALSE
