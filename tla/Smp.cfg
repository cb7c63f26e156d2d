SPECIFICATION Spec
CONSTANTS
  Cpus = 4
  Online = {0, 1, 2}
  Caller = {0, 1}
  FifoSize = 1
  Tries = 1
  Dest = {{2}, {1, 2, 3}}
  MaxCalls = 2
INVARIANTS  NoCallStranded ReturnedTaken
PROPERTY CallsServed
CHECK_DEADLOCK FALSE
