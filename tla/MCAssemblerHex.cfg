SPECIFICATION Spec
CONSTANTS
  a = a
  b = b
  h = h
  Labels = {a, h}
  NumericLabels = {h}
  Number = Number
  Opaque = Opaque
  NoAddr = NoAddr
  ByteMod = 16
  AddrMod = 1024
  Bases = {0, 508}
  OrgTargets = {512}
  ByteCounts = {1}
  ZeroSizes = {7}
  CommSizes = {}
  InstSizes = {4}
  WordLines <- HexWordLines
  MaxLines = 2
INVARIANT Linked
