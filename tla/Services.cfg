SPECIFICATION MCSpec
CONSTANTS
    Irqs = 2
    YieldThreshold = 0
    MaxPending = 2
    MaxCalls = 1
    MaxFails = 0
    Queue = {q1, q2}
    NoQueue = NoQueue
    NoWork = NoWork
    Request = {r1, r2}
    NoRequest = NoRequest
    n1 = n1
    n2 = n2
    n3 = n3
INVARIANTS RequestsAttended TwoLinesKept   HotplugNoneMissed RingHoldsQueue
CHECK_DEADLOCK FALSE
