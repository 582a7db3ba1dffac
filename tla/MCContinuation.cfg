SPECIFICATION Spec
CONSTANTS
    Bytes <- MCBytes
    WordBytes <- MCWordBytes
    UpperBytes <- MCUpperBytes
    CaseOf <- MCCaseOf
    Newline = "nl"
    MaxLength = 3
    OptionalLimit = 3
    Rules <- ContinuationRules
    MinFanout = 2
    GuardLimit = 2
INVARIANT
    ContinuationIsPreserved
