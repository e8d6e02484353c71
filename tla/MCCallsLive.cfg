SPECIFICATION FairSpec
CONSTANTS
  Immediate = {}
  Later = {l1}
  Web = {w1}
  Inbound = {n1}
  SchedTick = {s1}
  DrainTick = {d1}
  Job = {j1, j2}
  project = project
  org = org
  Scope = {project, org}
  Members <- TenantScopes
  Cap <- CapOne
  DailyScope = {org}
  DrainBatch = 2
  MayCancel = {l1}
  MaxFaults = 1
  InOrder = TRUE
  NoCall = NoCall

PROPERTIES ParkedLeaves EveryCallSettles
CHECK_DEADLOCK FALSE
