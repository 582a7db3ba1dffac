SPECIFICATION Spec
CONSTANTS
  HttpRequests <- MCHttpRequests
  Threats <- MCThreats
  Capacity = 3
  MaxCount = 2
  Copyleft = TRUE
  Requests = {r1, r2}
  Buffers <- MCBuffers
  TxRules <- MCTxRules
  TxMatches <- MCTxMatches
  Removable <- MCRemovable
  MaxLen = 131072
INVARIANT
  HandlerIsFaithful
PROPERTY
  BufferAnswersForItself
CHECK_DEADLOCK FALSE
