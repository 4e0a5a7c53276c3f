SPECIFICATION Spec
SYMMETRY ProfileSymmetry
CHECK_DEADLOCK FALSE
CONSTANTS
  Units <- MCUnits
  MaxTexts = 4
  Pages <- MCPages
  Slots = {1, 2}
  Boxes = {0, 2}
  MaxWords = 2
  Terms = {t1, t2}
  Once = {t1}
  MaxNames = 1
  Connections = {"c1", "c2"}
  Gemini = {"c1"}
  Models = {"m1", "m2"}
  Profiles = {q1, q2}
  Projects = {"b1"}
  MaxActs = 3
INVARIANTS
  DraftsSurvive
  QuietScreensAreCurrent
  OldExportSurvives
PROPERTIES
  NothingStaleIsExported
  CallsAreKept
