SPECIFICATION FairSpec
CONSTANTS
  Keys = {k1, k2}
  TxFrames <- MCTxFrames
  RxFrames <- MCRxFrames
  RX = 1
  TX = 2
  MaxTx = 3
  MaxRx = 2
  None = None
INVARIANTS TypeOK FrameInOnePlace AiredInOrder ReceivedInOrder
PROPERTIES EveryFrameSettles NoSendBeforeRouterSawRx CancelledNeverAired DeafOnlyByPollRecv
