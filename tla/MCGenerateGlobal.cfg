CONSTANTS
  n1 = n1
  n2 = n2
  v1 = v1
  v2 = v2
  Ids <- MCIds
  Vals <- MCVals
  Fields = {"term"}
  Highlighted = {"term"}
  PeerIds = {"p1"}
  PeerFields = {"match"}
  MaxLines = 8
SPECIFICATION Spec
SYMMETRY Symmetry
CONSTRAINT DataLinesBound
INVARIANTS
  TypeOK
PROPERTY
  FrameReportSpec
