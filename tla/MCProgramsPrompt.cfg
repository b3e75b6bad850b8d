SPECIFICATION MSpec
CONSTANTS
  DECODE_ROM <- Rom
  Opcodes <- OpcodeNames
  SizeOf <- Size
  BitAnd <- MCAnd
  BitOr <- MCOr
  BitXor <- MCXor
  Image <- EchoImage
  Entries <- MCEntries
  Chars <- OneChar
  Presses <- MCPresses
  Budgets <- MCBudgets
  BusyCycles <- MCBusyCycles
  Mute = {"hello_uart"}
  MaxEvents = 1
INVARIANTS
  PromptShown
