SPECIFICATION Spec
CONSTANTS
  NoConv = NoConv
  Convs = {c1, c2}
  Reads = {r1, r2}
  MaxTurns = 2
  Full = 2
  MaxInFlight = 2
CONSTRAINT FewInFlight
SYMMETRY ChatSymmetry
INVARIANTS TranscriptIsOwn RunHasScreen Sound
 
