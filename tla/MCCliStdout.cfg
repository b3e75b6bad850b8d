SPECIFICATION Spec
CONSTANTS
  Argvs <- BinArgvs
  LgoOf <- MCLgoOf
  AddressOf <- MCAddressOf
  Results <- MCResults
  BYTES_PER_LINE = 36
  AddrMod = 40
CHECK_DEADLOCK FALSE
INVARIANT CleanMeansWritten
