SPECIFICATION Spec
CONSTANTS
  NumPaths = 2
  Count = 1
  MaxCount = 1
  SanRetries = 0
  Batch = 3
INVARIANT ActiveAtCommand
CHECK_DEADLOCK FALSE
