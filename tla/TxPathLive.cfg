SPECIFICATION FairSpec
CONSTANTS
  Unicasts = {}
  Broadcasts = {}
  OwnUnicasts = {ou}
  OwnBroadcasts = {ob}
  MAX_PENDING_RELAYS = 1
  MAX_RELAY_STATES = 2
  MAX_PENDING_RELIABLE = 1
  MAX_PENDING_RETRANSMITS = 1
  NUM_RELIABLE_RETX = 1
  NAMED_FOLLOWUP_TRIES = 2
  NoSlot = NoSlot
  None = None
  Keys <- MCKeys
  TxFrames <- MCTxFrames
  RxFrames <- MCRxFrames
  RX = 1
  TX = 2
  MaxRx = 1
  MaxFaults = 1

PROPERTIES OwnReliableSettles
