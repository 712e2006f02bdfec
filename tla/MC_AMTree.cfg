\* Values as versions, which never decrease; the full tree and a shard.
\* The parameters: a field of 17 elements, scalars of two fields of two bits.
SPECIFICATION MCSpec
CONSTANTS
  Depths = 2
  Shards <- FullAndHalfTree
  NoShard = NoShard
  Modulus = 5
  WordSize = 8
  MaxValue = 2
  MayDecrease = FALSE
  ParamsDepths = 3
  Prime = 17
  RootOfUnity = 2
  Taus = {1, 2, 3, 4, 5, 6, 7, 8, 9, 10, 11, 12, 13, 14, 15, 16}
  Scalars = {3, 6, 12}
  ScalarBits = 4
  SlotBits = 2
  SlotCount = 2
  CachedIndex = {5}
  MaxCalls = 2
  Missing = Missing
  Partial = Partial
  Unloaded = Unloaded
INVARIANTS
  InnerNodesExact
  CleanIsStored
  ProofsExact
  IdentProve
  PowersExact
  AgreesWithPowers
