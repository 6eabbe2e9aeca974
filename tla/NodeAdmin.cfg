SPECIFICATION Spec
CONSTANTS
  fast = fast
  slow = slow
  client = client
  router = router
  key = key
  nokey = nokey
  Loras = {fast, slow}
  MinInterval <- MCMinInterval
  Intervals = {0, 1}
  Roles = {client, router}
  PosFloor <- MCPosFloor
  PosIntervals = {0, 1, 2}
  Coords = {here}
  KeySets = {nokey, key}
  Names = {default, name}
  DefaultName = default
  FirstSettings <- MCFirst
  Ids <- MCIds
  Legacy = Legacy
  InitialFlash <- MCFlash
  None = None
  MaxRequests = 5
  MaxBoots = 1
  MaxFaults = 0
INVARIANTS AckedIsHeld PositionAboveFloor WaitingPositionIsCurrent
CHECK_DEADLOCK FALSE
