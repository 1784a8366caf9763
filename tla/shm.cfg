SPECIFICATION FairSpec
CONSTANTS
  u1 = u1
  u2 = u2
  u3 = u3
  Users = {u1, u2, u3}
  Names = {"/a"}
  Objects = {o1, o2, o3}
  Sizes = {8, 12}
  Granule = 8
  MayFail = {u1}
  MayCrash = {u1}
  None = None
INVARIANTS
  MappedWhole
  NoLeak
PROPERTIES
  LostStays
  SharesMemory
  GetsIn
