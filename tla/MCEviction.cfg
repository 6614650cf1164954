SPECIFICATION Spec
CONSTANTS
  c1 = c1
  c2 = c2
  h1 = h1
  d1 = d1
  Conv = {c1, c2}
  Handlers = {h1}
  Deleters = {d1}
  MaxResident = 1
  Ids = {1, 2, 3, 4, 5}
  MaxList = 5
  NoConv = NoConv
  Nobody = Nobody
SYMMETRY FullSymmetry
CONSTRAINT Unexcused
INVARIANTS RowKeepsUp OrderSound ClaimExcludes ListLoopsAgree
