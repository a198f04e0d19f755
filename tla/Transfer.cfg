SPECIFICATION TransferSpec
CONSTANTS
  NumPaths = 3
  Count = 4
  MaxCount = 2
  SanRetries = 2
  Batch = 3
  BlkSize = 2
  DiskBlocks = 4
  OverLen = 3
  MaxOver = 2
  Https = {"h1", "h2"}
  Conns = {1, 2}
  Hosts = {1}
  Methods = {"GET"}
  Size = 1
  Replies = {"ok", "auth"}
  MaxWaits = 0
  Viewed = "h1"
INVARIANTS
  TftpStored
  SanSound
  ReadIsOverlaid
  CommandOwned
PROPERTIES
  TftpIsFileTransfer
  HttpIsFileTransfer
  PoolIsClean
  TransferExact
CHECK_DEADLOCK FALSE
