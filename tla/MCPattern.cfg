CONSTANTS
  Tokens = {"{", "}", ":", "m", "time", "HMSf", "x"}
  MaxTokens = 5
  MaxItems = 4
  MaxFields = 2
  MaxFmtStrLen = 13
  Patterns <- MCPatterns
  Width <- MCWidth
SPECIFICATION Spec
INVARIANTS TypeOK StopsAtFirstFault AcceptsExactly FormatsAsWritten
