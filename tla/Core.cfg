SPECIFICATION CoreSpec
CONSTANTS
  MaxSmoothed = 3
  Timer = {t1, t2}
  TickSpace = 5
  MIN_TIMEOUT = 2
  MinTimeout = 1
  MaxTimeout = 2
  FixedTimeouts = {0, 1}
  Prompt = FALSE
  MaxAge = 6
  MaxCount = 1
  Procs = {p1, p2, p3}
  Reschedule = {p1, p2}
  MaxOwners = 2
  MaxNest = 2
  Blocks = 4
  Timeout = 3
  MaxJobs = 2
INVARIANTS
  ReferencesExact
  TimersServed
  ProcessReferences
  InterfacesSound
  HeapSound
  NothingLeft
PROPERTIES
  NoEarlyExpiry
CHECK_DEADLOCK FALSE
