SPECIFICATION Spec
CONSTANTS
  Argvs <- MCArgvs
  LgoOf <- MCLgoOf
  AddressOf <- MCAddressOf
  Results <- MCResults
  BYTES_PER_LINE = 36
  AddrMod = 40
CHECK_DEADLOCK FALSE
INVARIANTS
  TypeOK
  CleanExit
  NothingUnlessAcceptable
  DamageContained
  TerminalClean
