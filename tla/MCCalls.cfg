SPECIFICATION Spec
CONSTANTS
  Immediate = {i1}
  Later = {l1}
  Web = {}
  Inbound = {}
  SchedTick = {s1}
  DrainTick = {d1, d2}
  Job = {j1, j2}
  project = project
  org = org
  Scope = {project}
  Members <- OneScope
  Cap <- CapOne
  DailyScope = {}
  DrainBatch = 2
  MayCancel = {l1}
  MaxFaults = 1
  InOrder = FALSE
  NoCall = NoCall
INVARIANTS TypeOK AtMostOnceDialed ExpiredNeverDialed NotDialedEarly
PROPERTIES NeverRequeued
CHECK_DEADLOCK FALSE
SYMMETRY Interchangeable
