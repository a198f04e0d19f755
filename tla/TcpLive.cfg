SPECIFICATION FairSpec
CONSTANTS
  SeqSpace = 16
  TCP_SACK_MAX = 3
  ISS = 14
  PeerISS = 15
  TCP_PATH_MTU = 2
  TCP_MAX_WINDOW_SIZE = 4
  WindowField = 2
  WindowScale = 2
  WindowAlign = 2
  TxBytes = 0
  RxBytes = 1
  AppWindows = {0, 4}
  PeerWindows = {2}
  MaxRetries = 1
  MaxRxQueue = 1
  SackPermitted = FALSE
  PeerSyn = "never"
  Fates = {"sent", "noiob"}
PROPERTIES
  DownloadEnds
  ClosedIsDeleted
CHECK_DEADLOCK FALSE
