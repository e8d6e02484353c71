SPECIFICATION Spec
CONSTANTS
  a1 = a1
  a2 = a2
  asks = asks
  plain = plain
  ends = ends
  f1 = f1
  f2 = f2
  vip = vip
  None = None
  Idle = Idle
  t1 = t1
  t2 = t2
  Request = {t1, t2}
  Agent = {a1, a2}
  Config = {asks, plain, ends}
  Edits = {ends}
  First = a1
  Continues = {ends}
  FlowOf <- MCFlowOf
  Slug <- MCSlug
  Initially <- MCInitially
  Field = {f1, f2}
  Tag = {vip}
  OnFile = {{}}
  Interval = 2
  Window = 2
  MaxArrivals = 3
  MaxVersions = 2
PROPERTIES EndedStaysEnded
SYMMETRY Symmetric
CHECK_DEADLOCK FALSE
