SPECIFICATION Spec
CONSTANTS
  BYTES_PER_LINE = 2
  Limit = 5
  AddrMod = 8
  Value = {0, 1}
  Images <- MCImages
  Bases = {0, 1, 4, 7}
  Entry = {3}
INVARIANTS
  SixDigits
