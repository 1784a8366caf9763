SPECIFICATION EndpointsSpec
CONSTANTS
  u1 = u1
  u2 = u2
  u3 = u3
  Users = {u1, u2, u3}
  Openers = {u1, u2}
  Names = {"/a"}
  Objects = {o1, o2}
  Sizes = {200, 208}
  Granule = 16
  MayFail = {u1}
  MayCrash = {u1}
  None = None
  Overhead = 192
  MinData = 8
  Capacities = {6, 12}
INVARIANTS
  RingFits
PROPERTIES
  RingKeepsSize
