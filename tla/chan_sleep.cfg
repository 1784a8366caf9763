SPECIFICATION ChannelSpec
CONSTANTS
  p1 = p1
  c1 = c1
  Producers = {p1}
  Consumers = {c1}
  BufSize = 64
  PayloadSizes = {8}
  Values = {1}
  Capacities = {8}
  ConsumerOps = {"read", "peek"}
  InitWords = {0}
  MayCrash = {}
  ChannelOps = {"read"}
  NotifyMod = 3
  AllocMayFail = FALSE
  MaxTail = 64
INVARIANTS
  NoSleepOverData
