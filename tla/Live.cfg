SPECIFICATION LiveSpec
PROPERTIES
  QueuedRuns
  PacketsLeave
  RequestsEnd
CHECK_DEADLOCK FALSE
