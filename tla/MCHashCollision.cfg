SPECIFICATION MCSpec
CONSTANTS
  Engine = {942100, 933120}
  Chained = {933120}
  RuntimeOnly = {920660, 1000020}
  Unrecorded = {}
  Collections = {"ARGS"}
  ExternalCap = 1
  MaxPoints = 1
  TxRule = {942100}
  MaxRepeats = 2
  MaxScore = 3
INVARIANT RepeatsAreReal
