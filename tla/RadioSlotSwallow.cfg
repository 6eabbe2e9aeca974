SPECIFICATION Spec
CONSTANTS
  Keys = {k1, k2}
  TxFrames <- MCTxFrames
  RxFrames <- MCRxFrames
  RX = 2
  TX = 2
  MaxTx = 3
  MaxRx = 3
  None = None
INVARIANTS CompletionIsReported
