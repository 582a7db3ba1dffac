SPECIFICATION BundleSpec
CONSTANTS
  Engine = {942100, 920350, 920270, 920180, 920171, 921130}
  Chained = {920171, 920180}
  RuntimeOnly = {911100, 920100, 920430, 920660, 920280, 920620, 920320, 913100, 1000050, 932130}
  Unrecorded = {921130}
  Collections = {"BODY", "HDR"}
  ExternalCap = 32
  MaxPoints = 5
  Requests <- MCRequests
  RulePoints <- MCRulePoints
  TxRules <- MCTxRules
  ScannerRules <- MCScannerRules
  JndiColls = {"ARGS", "COOKIES"}
INVARIANTS
  VerdictIsAccounted
  NoThreatMeansAllScanned
  QuietStops
  NullByteIsNotIgnored
  TransactionRulesSettle
PROPERTIES
  ThreatIsKept
  RemovedTargetsAreSilent
  Spec
  Terminates
