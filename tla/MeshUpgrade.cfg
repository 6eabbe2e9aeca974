CONSTANTS
  Shapes <- UpgradeShapes
  HOPS = 4
  Kinds = {"b"}
  MaxCrashes = 0
  SLOT = 2
  HALF = 3
  WINDOW_POSITIONS = 15
  GRAPH_MAX_DEPTH = 3
  COVERAGE_ETX_CEILING = 7
  OWNER_COST_BUCKET = 1
  UNVERIFIED_HOP_COST_FACTOR = 4
  NoPrice = 1000
SPECIFICATION Spec
INVARIANTS UpgradeStillRelays
CHECK_DEADLOCK FALSE
