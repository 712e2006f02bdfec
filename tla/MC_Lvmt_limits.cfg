\* Some keys outside the proof shard, none written twice in an epoch; the version
\* and level limits are reached.
SPECIFICATION FairSpec
CONSTANTS
  a = a  b = b  c = c  d = d  e = e
  Index <- MCIndex
  Path <- MCPath
  NoComm = NoComm  Missing = Missing  Uncached = Uncached
  Keys = {a, b, d, e}
  MaxLevel = 2
  Slots = 1
  ProofShard = {1}
  MaxVersion = 1
  Values = {v1}
  ReadKeys = {}
  RepeatWrites = FALSE
  MaxPending = 2
  MaxEpoch = 3
INVARIANTS
  CommitmentBindsData
  VersionAgreement
PROPERTIES
  CommitTerminates
