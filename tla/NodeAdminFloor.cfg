SPECIFICATION Spec
CONSTANTS
  fast = fast
  slow = slow
  client = client
  router = router
  key = key
  nokey = nokey
  Loras = {fast, slow}
  MinInterval <- MCMinInterval
  Intervals = {0, 1}
  Roles = {client}
  PosFloor <- MCPosFloor
  PosIntervals = {0, 1}
  Coords = {}
  KeySets = {nokey}
  Names = {default}
  DefaultName = default
  FirstSettings <- MCFirst
  Ids <- MCIds
  Legacy = Legacy
  InitialFlash <- MCFlash
  None = None
  MaxRequests = 4
  MaxBoots = 1
  MaxFaults = 0
INVARIANTS IntervalAboveFloor
CHECK_DEADLOCK FALSE
