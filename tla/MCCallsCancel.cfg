SPECIFICATION Spec
CONSTANTS
  Immediate = {i1}
  Later = {}
  Web = {}
  Inbound = {}
  SchedTick = {s1}
  DrainTick = {d1}
  Job = {j1}
  project = project
  org = org
  Scope = {project}
  Members <- OneScope
  Cap <- CapOne
  DailyScope = {}
  DrainBatch = 2
  MayCancel = {i1}
  MaxFaults = 0
  InOrder = FALSE
  NoCall = NoCall
PROPERTY NoDialOnceCanceled
CHECK_DEADLOCK FALSE
