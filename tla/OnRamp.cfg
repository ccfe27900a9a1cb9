\* Two signers, a canceller, a right and a wrong payment, two overlapping
\* daemon passes, a failing call or drained reserve, and a crash.
SPECIFICATION FairSpec
CONSTANTS
    Signers = {s1, s2}
    Cancellers = {c1}
    Payments = {p1, p2}
    Right = {p1}
    Hooks = {h1}
    Workers = {w1, w2}
    None = None
    MaxTx = 2
    MaxFaults = 1
    MaxCrashes = 1
INVARIANTS PaidAtMostOnce OneDeliverer PaidForPayment DeliveredIsPaid PaidToSigner
PROPERTIES Recorded
CHECK_DEADLOCK FALSE
