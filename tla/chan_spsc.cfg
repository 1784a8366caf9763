SPECIFICATION FairChannelSpec
CONSTANTS
  p1 = p1
  c1 = c1
  Producers = {p1}
  Consumers = {c1}
  BufSize = 64
  PayloadSizes = {8, 12}
  Values = {1}
  Capacities = {8, 12}
  ConsumerOps = {"read", "peek", "skip", "skip_force"}
  InitWords = {0}
  MayCrash = {p1}
  ChannelOps = {"read", "try_read", "peek", "skip", "skip_force"}
  NotifyMod = 3
  AllocMayFail = TRUE
  MaxTail = 128
INVARIANTS
  ChannelTypeOK
PROPERTIES
  OkMeansEntry
  RingTurns
  ReadsReturn
