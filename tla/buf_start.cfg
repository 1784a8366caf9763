SPECIFICATION StartSpec
CONSTANTS
  p1 = p1
  c1 = c1
  c2 = c2
  Producers = {p1}
  Consumers = {c1, c2}
  BufSize = 64
  PayloadSizes = {8}
  Values = {1}
  Capacities = {8}
  ConsumerOps = {"read", "peek", "skip", "skip_force"}
  InitWords = {0}
  MayCrash = {}
  MaxTail = 128
SYMMETRY Symmetry
INVARIANTS
  EntriesJoin
  DeliveredOnce
  LockHasHolder
  StartInv
PROPERTIES
  RefusalsAreTrue
  ImplementsFifo
  SkipsWhatWasNamed
  IllegalOnlyAtStart
