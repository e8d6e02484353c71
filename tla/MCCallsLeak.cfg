SPECIFICATION Spec
CONSTANTS
  Immediate = {i1}
  Later = {}
  Web = {}
  Inbound = {}
  SchedTick = {s1}
  DrainTick = {d1}
  Job = {j1}
  project = project
  org = org
  Scope = {project}
  Members <- OneScope
  Cap <- CapOne
  DailyScope = {}
  DrainBatch = 2
  MayCancel = {}
  MaxFaults = 0
  InOrder = FALSE
  NoCall = NoCall
INVARIANT LiveHasSession
CHECK_DEADLOCK FALSE
