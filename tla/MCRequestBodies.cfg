SPECIFICATION Spec
CONSTANTS
  FormRequests <- MCFormRequests
  MultipartRequests <- MCMultipartRequests
  Documents <- MCDocuments
  Calls <- MCCalls
  Results = {0, 942100}
  Capacity = 4
  MaxDepth = 3
  ScratchSize = 4
  MaxNesting = 2
  MaxAttributes = 1
  MaxEntity = 2
  MaxValue = 8
  Chunk = 2
INVARIANTS
  TextsAreScanned
  PartsOfABodyAreScanned
  NothingIsDropped
  DocumentsAreTheirOwn
PROPERTY
  EveryPassEnds
