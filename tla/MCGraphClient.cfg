CONSTANTS
  Ids = {1, 2}
  Server0 <- MCServer0
  MaxSubmits = 3
SPECIFICATION Spec
INVARIANTS
  TypeOK
PROPERTY
  EveryAddedNodeShown
