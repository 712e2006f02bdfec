SPECIFICATION Spec
CONSTANTS
  Keys <- FiveKeys
  ValueSize <- Sizes
  ValuesOf <- Choices
  Depths = {2, 3}
  MaxSet = 3
  MaxChanged = 2
  DelAfterLoad = TRUE
  Absent = Absent
INVARIANT Readable
