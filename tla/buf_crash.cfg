SPECIFICATION FairSpec
CONSTANTS
  p1 = p1
  p2 = p2
  c1 = c1
  Producers = {p1, p2}
  Consumers = {c1}
  BufSize = 64
  PayloadSizes = {8}
  Values = {1}
  Capacities = {8}
  ConsumerOps = {"read", "skip_force"}
  InitWords = {0}
  MayCrash = {p1, c1}
  MaxTail = 64
INVARIANTS
  IInv
PROPERTIES
  CallsReturn
  OnlyLocksBlock
CHECK_DEADLOCK FALSE
