SPECIFICATION Spec
CONSTANTS
  Scopes = {personal, custom}
  FirstScope = personal
  Models = {m1, m2}
  Panels = {p1}
  Tasks = {t1, t2}
  Foreign <- Excluded
  MaxEvents = 1
  DiskFails = TRUE
  None = None
SYMMETRY Symmetry
INVARIANT WayBack
