\* A target of six bytes of one bit each.
SPECIFICATION BackendSpec
CONSTANTS
  Radix = 2
  Bytes = 6
  Widths = {1, 2, 4}
INVARIANTS
  BackendTypeOK
  WrittenIsRead
  HalvesAgree
