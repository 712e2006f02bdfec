\* Keys that collide over three levels, written up to twice in an epoch.
SPECIFICATION Spec
CONSTANTS
  a = a  b = b  c = c  d = d  e = e
  Index <- MCIndex
  Path <- MCPath
  NoComm = NoComm  Missing = Missing  Uncached = Uncached
  Keys = {a, b, c}
  MaxLevel = 3
  Slots = 1
  ProofShard = {0, 1}
  MaxVersion = 9
  Values = {v1}
  ReadKeys = {}
  RepeatWrites = TRUE
  MaxPending = 2
  MaxEpoch = 3
INVARIANTS
  TypeOK
  DirtyReachable
  MarkedTreesLoaded
  OnlyRootUnflushed
  CommitmentsLinked
  SlotsExclusive
  ShallowLevelsFull
  ProofsVerify
PROPERTIES
  VersionsAdvance
  EpochsImmutable
  FlushedTreesRest
