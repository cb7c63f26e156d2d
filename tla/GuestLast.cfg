SPECIFICATION Spec
CONSTANTS
    MaxGuest = 2
    Work = {0, 1}
    NoWork = NoWork
    Queue = {q1, q2}
    NoQueue = NoQueue
    Request = {r1, r2}
    NoRequest = NoRequest
    Called = {1}
    MaxCreated = 2
    MaxAvail = 2
PROPERTY LastServed
CHECK_DEADLOCK FALSE
