CONSTANTS
  Ids = {1, 2}
  Server0 <- MCServer0
  MaxSubmits = 2
SPECIFICATION Spec
PROPERTY HighlightSurvivesReload
