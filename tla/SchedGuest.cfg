SPECIFICATION Spec
CONSTANTS
  c1 = c1
  c2 = c2
  i1 = i1
  i2 = i2
  CPU = {c1, c2}
  Orphan = {i1, i2}
  Normal = {g1}
  High = {}
  Bound = {}
  MaxPriority = 2
  idle_vcpu <- MCIdle
  priority <- MCPriority
  cpu_affinity <- MCAffinity
  NoVcpu = NoVcpu
  NoCpu = NoCpu
  Ops = {"pause", "resume", "halt", "reset", "migrate"}
  Quiesced = TRUE
INVARIANTS IndInv NoSwitchDeadlock
PROPERTY FollowsFsm
