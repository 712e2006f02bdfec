\* Every list of up to seven leaves over two values.
SPECIFICATION Spec
CONSTANTS
  LeafData = {1, 2}
  MaxLeaves = 7
INVARIANTS
  DumpIsReference
  ProofsExact
