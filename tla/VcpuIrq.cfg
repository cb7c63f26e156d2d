SPECIFICATION Spec
CONSTANTS
    Irqs = 1
    YieldThreshold = 1
    MaxPending = 2
    MaxCalls = 1
    MaxFails = 1
INVARIANTS LinesKept SleeperWoken WaitBounded
PROPERTY InterruptReaches
