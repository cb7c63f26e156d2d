SPECIFICATION FairSpec
CONSTANTS
  c1 = c1
  c2 = c2
  i1 = i1
  i2 = i2
  CPU = {c1, c2}
  Orphan = {i1, i2, t1, t2}
  Normal = {}
  High = {}
  Bound = {t1, t2}
  MaxPriority = 2
  idle_vcpu <- MCIdle
  priority <- MCPriority
  cpu_affinity <- MCAffinity
  NoVcpu = NoVcpu
  NoCpu = NoCpu
  Ops = {}
  Quiesced = TRUE
PROPERTY ThreadsGoOn
