\* A tree of three nodes with two values.
SPECIFICATION Spec
CONSTANTS
  Depths = 1
  Values = {0, 1}
  Default = 0
  Vacant = Vacant
  NoRead = NoRead
PROPERTIES
  ImplementsCachedMap
