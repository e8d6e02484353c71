SPECIFICATION Spec
CONSTANTS
  Immediate = {i1}
  Later = {l1}
  Web = {}
  Inbound = {}
  SchedTick = {s1}
  DrainTick = {d1}
  Job = {j1, j2}
  project = project
  org = org
  Scope = {project}
  Members <- OneScope
  Cap <- CapOne
  DailyScope = {}
  DrainBatch = 2
  MayCancel = {}
  MaxFaults = 0
  InOrder = FALSE
  NoCall = NoCall
PROPERTY FullPatience
CHECK_DEADLOCK FALSE
