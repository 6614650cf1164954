SPECIFICATION Spec
CONSTANTS
  Scopes = {personal, custom}
  FirstScope = personal
  Models = {m1}
  Panels = {p1}
  Tasks = {t1, t2}
  Foreign <- Excluded
  MaxEvents = 1
  DiskFails = FALSE
  None = None
SYMMETRY Symmetry
INVARIANTS WayBack SnapshotIsOwn LockIsHeld
PROPERTIES SeenBefore
