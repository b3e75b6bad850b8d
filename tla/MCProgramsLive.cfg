SPECIFICATION MFairSpec
CONSTANTS
  DECODE_ROM <- Rom
  Opcodes <- OpcodeNames
  SizeOf <- Size
  BitAnd <- MCAnd
  BitOr <- MCOr
  BitXor <- MCXor
  Image <- LiveImages
  Entries <- MCEntries
  Chars <- MCChars
  Presses <- MCPresses
  Budgets <- MCBudgets
  BusyCycles <- MCBusyCycles
  Mute = {"hello_uart"}
  MaxEvents = 2
PROPERTIES
  Served
  Finishes
  LedFollows
  RunReturns
