SPECIFICATION ToolSpec
CONSTANTS
  Bytes <- MCBytes
  WordBytes <- MCWordBytes
  UpperBytes <- MCUpperBytes
  CaseOf <- MCCaseOf
  Newline = "nl"
  OptionalLimit = 3
  Patterns <- MCPatterns
  MaxLength = 3
  StateBudget = 12
  TableBudget = 800
  NfaStateBudget = 40
  VectorBudget = 40
  MinSeedLength = 2
  MaxSeeds = 3
  MaxBranches = 2
  FastScanBudget = 2
  LoweredRules <- MCLoweredRules
  LoweredLength = 4
  MinFanout = 2
  GuardLimit = 2
  RuleChoices <- MCRuleChoices
  RoutedValues <- MCRoutedValues
  RoutedBytes <- MCRoutedBytes
  RoutedWordBytes <- MCRoutedWordBytes
  Blank <- MCBlank
  Lower <- MCLower
  MaxRules = 3
  RouterRules = 2
  LargeDictionary = 3
  StandaloneWords = 2
  StandaloneBytes = 3
  Statements <- MCStatements
  Transaction <- MCTransaction
  ChainForm <- MCChainForm
  MaxStatements = 3
  PL = 2
  FileParanoia = 1
  HeaderNames = {"Host"}
  Collections = {"ARGS", "TX", "REQUEST_METHOD", "REQUEST_HEADERS", "REQUEST_FILENAME", "FILES"}
  OverBudget = {"huge"}
  Untranslatable = {"raises"}
  MissingData = {"gone"}
INVARIANTS
  EndsAreExact
  DecisionsAreExact
  LoweringIsExact
  NothingSelectedIsMissed
  AuditsAgree
  ScoringRulesAreAccounted
  ChargedOnce
  RemovalsReachTheirTargets
  AuditSeesTheSameChains
CHECK_DEADLOCK FALSE
