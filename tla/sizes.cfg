SPECIFICATION FairSpec
CONSTANTS
  Modulus = 512
  Powers = {1, 2, 4, 8, 16, 32, 64, 128, 256}
  BufferHeader = 128
  ChannelHeader = 64
  DataAlign = 8
  Capacities = {0, 1, 7, 8, 9, 127, 128, 129, 255, 256, 257, 319, 320, 383, 384, 511}
  Given = {0, 1, 10, 63, 64, 127, 128, 129, 136, 191, 192, 193, 194, 200, 384, 448, 449, 511}
INVARIANTS
  OverflowsOnlyAboveHalf
  SuggestedSuffices
  ValidatedIsCreated
PROPERTIES
  CallsEnd
  TinyChannelHangs
