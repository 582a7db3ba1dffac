SPECIFICATION Spec
CONSTANTS
  Matcher <- MCMatcher
  Chain <- MCChain
  ChainOf <- MCChainOf
  Steps <- MCSteps
  Multi <- MCMulti
  Content <- MCContent
  LenOf <- MCLenOf
  Dirty <- MCDirty
  Cap <- MCCap
  Offset <- MCOffset
  Shrunk <- MCShrunk
  Addr = {a1, a2}
  NoScan = NoScan
INVARIANTS
  CacheIsCurrent
PROPERTIES
  RunsOnOwnValue
