SPECIFICATION FairSpec
CONSTANTS
  c1 = c1
  h1 = h1
  h2 = h2
  Conv = {c1}
  Handlers = {h1, h2}
  Deleters = {}
  MaxResident = 1
  Ids = {}
  MaxList = 1
  NoConv = NoConv
  Nobody = Nobody
INVARIANTS TurnsExclude RunningHasHandler
PROPERTIES NoStaleOverwrite TurnsEnd
