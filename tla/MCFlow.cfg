SPECIFICATION FairSpec
CONSTANTS
  A = A
  B = B
  D = D
  router = router
  second = second
  said = said
  back = back
  tagger = tagger
  bye = bye
  simulated = simulated
  warm = warm
  cold = cold
  hand = hand
  plain = plain
  stop = stop
  none = none
  single = single
  seen = seen
  Node <- MCNode
  Entry = A
  Kind <- MCKind
  Exits <- MCExits
  NoNode = none
  Tag = {seen}
  Adds <- MCAdds
  Removes <- MCRemoves
  HasObjectives = {A}
  ClosesItself = {D}
  Scenarios = {stop, cold}
  Mode <- MCMode
  FailedExit <- MCFailed
  Target <- MCTarget
  Single = single
  MaxHandoffs = 1
  MaxTurns = 2
  MaxFaults = 1
INVARIANTS TypeOK GuardsMatch PendingHasMove
PROPERTIES EveryMoveLands GoodbyeEndsCall ParkedCloses
CHECK_DEADLOCK FALSE
