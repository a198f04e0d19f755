SPECIFICATION LinkSpec
CONSTANTS
  Datagrams = {d1, d2}
  DataLen = 5
  MaxRetries = 2
  Addrs = {a1, a2}
  Lls = {l1, l2}
  Packets = {p1, p2}
  Entries = {e1, e2, e3}
  NumTx = 2
  NumRx = 2
  Wrap = 4
  MaxTx = 4
  MaxRx = 4
  MaxOpens = 2
  d1 = d1
  d2 = d2
  a1 = a1
  a2 = a2
  l1 = l1
  l2 = l2
  p1 = p1
  p2 = p2
  e1 = e1
  e2 = e2
  e3 = e3
SYMMETRY Symmetry
INVARIANTS
  PacketExact
  TimerRuns
  NeighbourSound
  RingsSound
PROPERTIES
  TxToLatest
  PacketsInOrder
CHECK_DEADLOCK FALSE
