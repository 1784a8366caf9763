SPECIFICATION Spec
CONSTANTS
  p1 = p1
  c1 = c1
  Producers = {p1}
  Consumers = {c1}
  BufSize = 64
  PayloadSizes = {8, 24}
  Values = {1}
  Capacities = {24}
  ConsumerOps = {"read"}
  InitWords = {0}
  MayCrash = {}
  MaxTail = 128
INVARIANTS
  EmptyRingTakesEntry
