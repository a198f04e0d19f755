SPECIFICATION Spec
CONSTANTS
  SeqSpace = 16
  TCP_SACK_MAX = 3
  ISS = 14
  PeerISS = 15
  TCP_PATH_MTU = 2
  TCP_MAX_WINDOW_SIZE = 4
  WindowField = 2
  WindowScale = 2
  WindowAlign = 2
  TxBytes = 3
  RxBytes = 1
  AppWindows = {4}
  PeerWindows = {2}
  MaxRetries = 2
  MaxRxQueue = 1
  SackPermitted = FALSE
  PeerSyn = "never"
  Fates = {"sent", "txfail"}
INVARIANTS
  WorkIsScheduled
  AckedIsReceived
  PendingExact
CHECK_DEADLOCK FALSE
