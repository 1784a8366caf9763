SPECIFICATION Spec
CONSTANTS
  p1 = p1
  p2 = p2
  c1 = c1
  Producers = {p1, p2}
  Consumers = {c1}
  BufSize = 64
  PayloadSizes = {0, 8, 12, 72}
  Values = {1, 2}
  Capacities = {8, 12}
  ConsumerOps = {"read", "skip"}
  InitWords = {64}
  MayCrash = {}
  MaxTail = 72
SYMMETRY Symmetry
INVARIANTS
  LockDiscipline
  NoIllegalState
  LockedEntryReady
  RingBound
  LiveIntact
  CopyIntact
PROPERTIES
  RefusalsAreTrue
  ImplementsFifo
