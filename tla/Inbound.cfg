CONSTANTS
  Nodes = {"a", "b", "c", "d"}
  Me = "me"
  Broadcast = "all"
  NoNode = NoNode
  Never = Never
  None = None
  Low <- MCLow
  Scenes <- MCScenes
  Clock = 16
  Window = 2
  Warmup = 2
  YoungAge = 3
  Refractory = 2
  Trip <- MCTrip
  YoungTrip = 2
  YoungClear = 1
  DestTrip = 2
  DestClear = 1
  DestMinSenders = 2
  RelayTripPackets = 2
  RelayClearPackets = 1
  RelayTripFloor = 1
  RelayTripCeil = 4
  RelayClearFloor = 1
  RelayClearCeil = 2
  RefAirtime = 1
  MaxOriginators = 2
  MaxRelays = 1
  MaxDests = 1
  MaxSenders = 2
  MaxYoung = 1
  MaxAlumni = 2
  IdTtl = 2
  MaxCandidates = 2
  MaxBuckets = 1
  HistorySize = 2
  PkiWindow = 2
  PkiAttempts = 2
  MaxAdmin = 2
  MaxPeers = 2
  ReplyCooldown = 2
  OwnBroadcasts = {"info", "telemetry", "position"}
  Period <- MCPeriod
  RouteSize = 8
  RouteBytes = 70
  NodeBytes = 4
  MinusBytes = 10
  HopLimit = 3
  HopMargin = 2
  LastHopBudget = 1
SPECIFICATION Spec
CHECK_DEADLOCK FALSE
INVARIANTS
  QueueAgrees
  BanHolds
  MintedShareOneBudget
  ByteNamesOne
  AnswerUsable
  RouteTellsWay
  WritesRunOnce
