SPECIFICATION ChannelSpec
CONSTANTS
  p1 = p1
  c1 = c1
  c2 = c2
  Producers = {p1}
  Consumers = {c1, c2}
  BufSize = 64
  PayloadSizes = {8, 12}
  Values = {1}
  Capacities = {8, 12}
  ConsumerOps = {"read", "peek"}
  InitWords = {0}
  MayCrash = {}
  ChannelOps = {"read"}
  NotifyMod = 2
  AllocMayFail = TRUE
  MaxTail = 48
SYMMETRY Symmetry
INVARIANTS
  CopyFits
  ReceivedIsGiven
  RoundCostsEntry
  WakeupPending
