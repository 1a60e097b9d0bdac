CONSTANTS
  Missing = Missing
  Tokens <- MCTokens
  IndexValue <- MCIndexValue
  MaxLines = 5
SPECIFICATION Spec
INVARIANTS
  ListedNamesOccur
