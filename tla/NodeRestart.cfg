SPECIFICATION FairSpec
CONSTANTS
  fast = fast
  slow = slow
  client = client
  router = router
  key = key
  nokey = nokey
  Loras = {fast, slow}
  MinInterval <- MCMinInterval
  Intervals = {0}
  Roles = {client, router}
  PosFloor <- MCPosFloor
  PosIntervals = {0, 1, 2}
  Coords = {}
  KeySets = {nokey}
  Names = {default}
  DefaultName = default
  FirstSettings <- MCFirst
  Ids <- MCIds
  Legacy = Legacy
  InitialFlash <- MCFlash
  None = None
  MaxRequests = 3
  MaxBoots = 2
  MaxFaults = 2
INVARIANTS NothingSilentlyUnsaved RadioFollowsSettings RepliesOnOldParameters
PROPERTIES RequestedResetKeepsSettings RadioCatchesUp
CHECK_DEADLOCK FALSE
