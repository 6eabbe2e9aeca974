CONSTANTS
  Me = 1
  Real = {2, 3}
  Placeholders = {}
  MAX_GRAPH_NODES = 3
  MAX_EDGES_PER_NODE = 3
  MAX_DOWNSTREAM = 2
  MAX_CAPABILITY_RECORDS = 3
  GRAPH_MAX_DEPTH = 3
  NEIGHBOR_TTL = 4
  CAPABILITY_TTL = 3
  AgeEtx = 1
  Clock = 64
  PERIOD = 1
  PUBLISHER_SILENCE = 2
  COVERAGE_ETX_CEILING = 7
  OWNER_COST_BUCKET = 1
  UNVERIFIED_HOP_COST_FACTOR = 4
  NoPrice = 1000
  MAX_CACHED_ROUTES = 2
  ROUTE_CACHE_TIMEOUT = 1
  MAX_HOP_HEALTH = 2
  HOP_HEALTH_SUSPECT_MISSES = 2
  HOP_HEALTH_SUSPECT_TTL = 2
  MyRole = "client"
  VERSIONS = 12
  DELAYED_BEHIND_MAX = 2
  TOPOLOGY_RESYNC = 3
  TOPOLOGY_DIRTY_MIN = 1
  MAX_VERSION_ENTRIES = 2
  PENDING_LISTED_SLOTS = 1
  MAX_NEIGHBORS = 3
  MAX_RELAY_STATES = 1
  MAX_HEARD_TRANSMITTERS = 2
  RELAY_HOLD = 1
  MAX_OUR_TX = 1
  MAX_NODE_TX = 2
  TX_WINDOW = 0
  PacketIds = {1}
  HeardSignals = {"strong"}
  HeardRoles = {"mute", "router"}
  MsgVersions = {1}
  SrFlags = {TRUE}
  ChunkHeads <- Whole
  MaxList = 1
  MaxNow = 4
  MaxOps = 4
  Leaps = {4}
  Publisher = 2
  Lists <- WithEmpty
  MAX_NEIGHBORS_PER_PACKET = 1
  FirstVersions = {3}
  MaxLists = 2
  MaxRestarts = 1
  MaxAir = 2
SPECIFICATION SyncSpec
PROPERTIES EmptyListClearsNothing
CHECK_DEADLOCK FALSE
