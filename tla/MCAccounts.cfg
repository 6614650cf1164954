SPECIFICATION AccountsSpec
CONSTANTS
  a1 = a1
  a2 = a2
  w1 = w1
  w2 = w2
  w3 = w3
  model = model
  Accounts = {a1, a2}
  Spaces = {w1, w2, w3}
  Owner <- SampleOwner
  Numbers = {0, 1}
  Typed <- SampleTyped
  Models = {model}
  AutoModel = AutoModel
  DefaultModel = model
  Tasks = {t1, t2}
  MaxChanges = 1
  Pools0 <- SamplePools
  None = None
  NoPanel = NoPanel
CONSTRAINTS OneChange OneDraft
SYMMETRY TaskSymmetry
INVARIANTS DraftIsTyped AccountsSound
PROPERTIES DraftsSurvive TestIsShown
