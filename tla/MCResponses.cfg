SPECIFICATION FairSpec
CONSTANTS
  c1 = c1
  r1 = r1
  Convs = {c1}
  Responses = {r1}
  Home <- SampleHome
  MaxQueue = 1
  Nothing = Nothing
INVARIANTS DeletionReachesAll LinksAreDurable
PROPERTY NobodyWaits
