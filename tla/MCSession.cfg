SPECIFICATION FairSpec
CONSTANTS
  Hangup = {h1, h2}
  Unanswered = Unanswered
  MaxFaults = 3
INVARIANTS TypeOK ReportedAtMostOnce
PROPERTIES AlwaysReported EveryLineDrops
CHECK_DEADLOCK FALSE
