SPECIFICATION Spec
CONSTANTS
  Hangup = {h1, h2}
  Unanswered = Unanswered
  MaxFaults = 0
PROPERTY FlushFirst
CHECK_DEADLOCK FALSE
