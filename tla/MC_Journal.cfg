\* Each algorithm with forks, histories and reopening, for one node.
SPECIFICATION Spec
CONSTANTS
  Keys = {x}
  Ids = {p, q}
  MaxEra = 3
  MaxBlocks = 4
  MaxListed = 1
  Algorithms = {"OverlayRecent", "EarlyMerge", "RefCounted", "Archive"}
  NoView = NoView
  NoEra = NoEra
  NoRecord = NoRecord
  Uncached = Uncached
  Unused = Unused
SYMMETRY Symmetry
INVARIANTS
  LiveReadable
  Reconstructs
  BackingExact
  NothingFails
