CONSTANTS
  Shapes <- MCShapes
  HOPS = 4
  Kinds = {"b", "u"}
  MaxCrashes = 1
  SLOT = 2
  HALF = 3
  WINDOW_POSITIONS = 15
  GRAPH_MAX_DEPTH = 3
  COVERAGE_ETX_CEILING = 7
  OWNER_COST_BUCKET = 1
  UNVERIFIED_HOP_COST_FACTOR = 4
  NoPrice = 1000
SPECIFICATION Spec
INVARIANTS NobodyLeftOut SourceAnswered DistinctInsurance Delivered
CHECK_DEADLOCK FALSE
