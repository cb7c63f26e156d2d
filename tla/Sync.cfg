SPECIFICATION MCSpec
CONSTANTS
  Thread = {t1, t2, t3}
  NoVcpu = NoVcpu
  MaxDepth = 2
  limit = 2
  InitValue = 1
  Width = 3
  MaxDone = 16
  Timeouts = {"forever", "timed"}
  Destroyable = {"PAUSED", "READY"}
  Yields = TRUE
INVARIANTS OwnerHolds  NoLostSignal
PROPERTIES MutexLostByLeaving MutexIsTaken SemConserved SemLostByLeaving
CHECK_DEADLOCK FALSE
