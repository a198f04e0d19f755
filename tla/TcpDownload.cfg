SPECIFICATION Spec
CONSTANTS
  SeqSpace = 16
  TCP_SACK_MAX = 3
  ISS = 14
  PeerISS = 15
  TCP_PATH_MTU = 2
  TCP_MAX_WINDOW_SIZE = 4
  WindowField = 2
  WindowScale = 2
  WindowAlign = 2
  TxBytes = 0
  RxBytes = 3
  AppWindows = {0, 4}
  PeerWindows = {2}
  MaxRetries = 1
  MaxRxQueue = 2
  SackPermitted = TRUE
  PeerSyn = "crossing"
  Fates = {"sent", "noiob", "squeezed"}
INVARIANTS
  SackHonest
  NeverSynAndFin
  StreamInv
  StreamInOrder
  NoSilentTruncation
  WindowKept
  DeletedIsQuiet
CHECK_DEADLOCK FALSE
