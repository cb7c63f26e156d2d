SPECIFICATION Spec
CONSTANTS
  Cpu = {c1, c2}
  Event = {e1, e2}
  Duration = {0, 2}
  MinDelta = 1
  MaxDelta = 1
  MaxTime = 2
  MaxStarts = 3
INVARIANTS ListsAgree FirstArmed OncePerStart StopsExpired
PROPERTY EventHandled
