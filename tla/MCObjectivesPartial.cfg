SPECIFICATION Spec
CONSTANTS
  Ask = Ask
  More = More
  Plain = Plain
  first = first
  last = last
  whole = whole
  again = again
  fName = fName
  fWhole = fWhole
  w1 = w1
  w2 = w2
  w3 = w3
  NoField = NoField
  NA = NA
  Node <- MCNode
  Start = Ask
  Key <- MCKey
  ObjectivesOf <- MCObjectivesOf
  Parts <- MCParts
  FieldOf <- MCFieldOf
  Required = {first, again}
  SkipIfKnown = {first, whole, again}
  Field = {fName, fWhole}
  HasWriter = TRUE
  MaxAttempts = 2
  Heard = {w1, w2}
  Filed = {w3}
  OnFile <- MCOnFile
  MaxChecks = 2
  MaxEntries = 2
  MaxTurns = 2
  MaxFaults = 1
INVARIANTS AggregateSaysParts
SYMMETRY Interchangeable
CHECK_DEADLOCK FALSE
