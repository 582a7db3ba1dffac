SPECIFICATION MCSpec
CONSTANTS
  Engine = {942100, 933120}
  Chained = {933120}
  RuntimeOnly = {920660, 1000021, 934100}
  Unrecorded = {934100}
  Collections = {"ARGS"}
  ExternalCap = 1
  MaxPoints = 1
  TxRule = {942100}
  MaxRepeats = 2
  MaxScore = 3
INVARIANT EveryRuleCreditedOnce
