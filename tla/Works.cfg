SPECIFICATION MCSpec
CONSTANTS
    Work = {w1, w2}
    NoWork = NoWork
    TheQueue = q
    Queue = {q}
    NoQueue = NoQueue
    Request = {r1, r2, r3}
    NoRequest = NoRequest
    max_pending = 2
    MaxAvail = 3
INVARIANTS BlockPending EndsOnce BlockWorkHasRequest RequestsOfTheGuest
PROPERTIES RequestsEnd RequestsServed
CHECK_DEADLOCK FALSE
