SPECIFICATION System
CONSTANTS
  loop = loop
  Labels = {loop}
  NumericLabels = {}
  Number = Number
  Opaque = Opaque
  NoAddr = NoAddr
  ByteMod = 256
  AddrMod = 16777216
  Bases = {0, 256}
  OrgTargets = {}
  ByteCounts = {}
  ZeroSizes = {123, 124, 129, 130}
  CommSizes = {}
  InstSizes = {1, 2, 4}
  WordLines <- MCWordLines
  MaxLines = 5
  DECODE_ROM <- Rom
  Opcodes <- OpcodeNames
  SizeOf <- Size
  BitAnd <- MCAnd
  BitOr <- MCOr
  BitXor <- MCXor
  Sources <- MCSources
  MaxSteps = 6
CHECK_DEADLOCK FALSE
INVARIANTS
  ToolchainTypeOK
  Lockstep
PROPERTIES
  StopsRightly
  Flow
