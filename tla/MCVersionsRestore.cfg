SPECIFICATION Spec
CONSTANTS
  Agent = {a1}
  Request = {r1, r2}
  name = name
  flow = flow
  Key = {name, flow}
  Value = {1, 2}
  Complete <- MCComplete
  Patch <- MCPatch
  NoDraft = NoDraft
  Idle = Idle
  MaxVersion = 3
INVARIANTS RestoreRestores
CHECK_DEADLOCK FALSE
