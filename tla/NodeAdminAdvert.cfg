SPECIFICATION Spec
CONSTANTS
  fast = fast
  slow = slow
  client = client
  router = router
  key = key
  nokey = nokey
  Loras = {fast}
  MinInterval <- MCMinInterval
  Intervals = {0}
  Roles = {client}
  PosFloor <- MCPosFloor
  PosIntervals = {0, 1}
  Coords = {}
  KeySets = {nokey}
  Names = {default, name}
  DefaultName = default
  FirstSettings <- MCFirst
  Ids <- MCIds
  Legacy = Legacy
  InitialFlash <- MCFlash
  None = None
  MaxRequests = 2
  MaxBoots = 2
  MaxFaults = 0
INVARIANTS AdvertShowsOwner
CHECK_DEADLOCK FALSE
