SPECIFICATION Spec
CHECK_DEADLOCK FALSE
CONSTANTS
  Shapes <- MCShapes
  SmallLimit = 1
  MaxCount = 2
  MaxSize = 2
  MaxViews = 2
INVARIANTS ViewShowsBins EdgesFit QueriesMatchViews
PROPERTY ViewsStayValid
