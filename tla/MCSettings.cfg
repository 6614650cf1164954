SPECIFICATION Spec
CONSTANTS
  NoConfig = NoConfig
  NoForm = NoForm
  NoPanel = NoPanel
  Tasks = {t1, t2}
  Typed <- SampleTyped
  Stored <- SampleStored
  Strategies <- SampleStrategies
  Texts = {"", "text", "default"}
  Blank = ""
  DefaultText = "default"
  Lists = {"", "list"}
  Numbers = {0, 1, 9}
  DefaultNumber = 9
  Empty = Empty
SYMMETRY TaskSymmetry
INVARIANTS RoundTrip CleanIsKept Sound
PROPERTIES EditsSurvive
