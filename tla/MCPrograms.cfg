SPECIFICATION MSpec
CONSTANTS
  DECODE_ROM <- Rom
  Opcodes <- OpcodeNames
  SizeOf <- Size
  BitAnd <- MCAnd
  BitOr <- MCOr
  BitXor <- MCXor
  Image <- AllImages
  Entries <- MCEntries
  Chars <- MCChars
  Presses <- MCPresses
  Budgets <- MCBudgets
  BusyCycles <- MCBusyCycles
  Mute = {"hello_uart"}
  MaxEvents = 2
INVARIANTS
  TypeOK
  RxAccounted
  OneDigitEach
  EchoInOrder
  Prints
PROPERTIES
  Transparent
  CounterCounts
