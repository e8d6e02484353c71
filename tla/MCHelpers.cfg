SPECIFICATION Spec
CONSTANTS
  MemoryInterval = 2
  MemoryWindow = 2
  CallerTurns = 7
  Lang <- MCLang
  MaxScore = 4
  Unsure = Unsure
  c1 = c1
  c2 = c2
  limits = limits
  daily = daily
  Checker = {c1, c2}
  Table = {limits, daily}
  NoEntry = NoEntry
  Ttl = 2
  MaxLag = 1
  MaxPuts = 1
  Horizon = 4
  None = None
  Slug <- MCSlug
  n1 = n1
  n2 = n2
  h1 = h1
  h2 = h2
  Number = {n1, n2}
  Handler = {h1, h2}
  External = External
  NoRef = NoRef
  NoRow = NoRow
  Free = Free
  MaxIds = 3
  MaxRefs = 3
INVARIANTS NoneForgotten SummaryCatchesUp AgentIsTold StaleAtMostTtl PruneLeadsPast PruneStaysValid
PROPERTIES LanguageFollows
CHECK_DEADLOCK FALSE
