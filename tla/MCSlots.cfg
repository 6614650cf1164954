SPECIFICATION Spec
CONSTANTS
  a1 = a1
  w1 = w1
  w2 = w2
  r1 = r1
  r2 = r2
  o1 = o1
  o2 = o2
  NoObject = NoObject
  Requests = {r1, r2}
  Credentials = {a1}
  Workspaces = {w1, w2}
  CredentialOf <- OneAccount
  MaxLimit = 2
  Objects = {o1, o2}
SYMMETRY SlotSymmetry
INVARIANTS CountsLeases SlotSurvives
PROPERTY HoldsLimits
