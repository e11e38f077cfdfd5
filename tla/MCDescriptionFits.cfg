\* A buffer that is too small for a description.
SPECIFICATION DescriptionSpec
CONSTANTS
  NameLengths = {0, 1, 5}
  States = {1, 4, 6}
  Priorities = {9, 10, 255}
  Sizes <- MCSizes
  SizeSpace = 256
  IntMax = 127
INVARIANTS
  DescriptionFits
CHECK_DEADLOCK FALSE
