------------------------------ MODULE MCPrograms ------------------------------
EXTENDS Listings, DecodeRom, Bitwise

MCAnd(x, y) == x & y
MCOr(x, y)  == x | y
MCXor(x, y) == x ^^ y

\* docs/examples/interrupt.s
interrupt == <<
  \h29, \h21, \h00, \h00, \h67, \h2A, \h10, \h00, \hFF, \h44, \h01, \h81, \h00, \h2A, \h00, \h01,
  \h00, \h44, \h00, \h81, \h00, \h46, \h01, \h02, \h46, \h0A, \h17, \h14, \hF4, \h44, \h00, \h13,
  \hF0, \h7D, \h7E, \h7F, \h64, \h7F, \h2A, \h00, \h01, \hFF, \h35, \h00, \h2A, \h00, \h01, \h00,
  \h35, \h00, \h44, \h30, \h02, \h2A, \h00, \h01, \hFF, \h81, \h00, \h7B, \hD0, \h7B, \h7A, \h79,
  \h68 >>

\* src/examples/assembler/echo.s
echo == <<
  \h29, \h1E, \h00, \h00, \h67, \h2A, \h10, \h00, \hFF, \h44, \h01, \h81, \h00, \h2A, \h00, \h01,
  \hFF, \h35, \h01, \hCD, \h15, \hF9, \h44, \h3F, \h81, \h00, \h44, \h00, \h13, \hFA, \h7D, \h7E,
  \h7F, \h64, \h7F, \h2A, \h00, \h01, \hFF, \h2D, \h00, \h5E, \h44, \h21, \h17, \h15, \h2A, \h44,
  \h61, \h23, \h15, \h14, \h44, \h7B, \h23, \h14, \h0F, \h57, \h48, \hDF, \h0D, \h2A, \h00, \h01,
  \hFF, \h35, \h01, \hCD, \h15, \hF9, \h81, \h00, \h13, \h09, \h2A, \h00, \h01, \hFF, \h2D, \h01,
  \hCB, \h15, \hF9, \h88, \h00, \h7B, \hD0, \h7B, \h7A, \h79, \h68, \h13, \hFC >>

\* tests/programs/hello_uart.s
hello_uart == <<
  \h80, \h65, \h2B, \h00, \h01, \hFF, \h44, \h48, \h32, \h01, \hCC, \h15, \hF9, \h82, \h00, \h44,
  \h69, \h32, \h01, \hCC, \h15, \hF9, \h82, \h00, \h44, \h0A, \h32, \h01, \hCC, \h15, \hF9, \h82,
  \h00, \h69, \h7C, \h13, \hFC >>

\* src/examples/assembler/uart_hello.s
uart_hello == <<
  \h44, \h48, \h2B, \h2C, \h00, \h00, \hD2, \h44, \h65, \h2B, \h2C, \h00, \h00, \hD2, \h44, \h6C,
  \h2B, \h2C, \h00, \h00, \hD2, \h44, \h6C, \h2B, \h2C, \h00, \h00, \hD2, \h44, \h6F, \h2B, \h2C,
  \h00, \h00, \hD2, \h44, \h0A, \h2B, \h2C, \h00, \h00, \hD2, \h13, \hFC, \h7E, \h7D, \h2A, \h00,
  \h01, \hFF, \h35, \h01, \hCD, \h15, \hF9, \h79, \h81, \h00, \h7A, \h27 >>

\* src/examples/assembler/button_echo.s
button_echo == <<
  \h2A, \h00, \h00, \hFF, \h2D, \h00, \h81, \h00, \h13, \hF8, \h13, \hFC >>

\* src/examples/assembler/button_echo_makerlisp.s, which starts at 14
makerlisp == <<
  \h80, \h7F, \h7E, \h65, \h2B, \h00, \h00, \hFF, \h2E, \h00, \h82, \h00, \h13, \hF8, \h29, \h00,
  \hEC, \hFE, \h66, \h2A, \h00, \hE0, \hFE, \hC7, \h00, \h00, \h00 >>

\* src/examples/assembler/memory_access.s
memory_access == <<
  \h44, \h2A, \h2A, \h00, \h01, \h00, \h81, \h00, \h81, \h01, \h47, \hC8, \h2A, \h00, \h02, \h00,
  \h81, \h00, \hA4, \h04, \h2A, \h00, \h01, \h00, \h35, \h00, \h2A, \h00, \h02, \h00, \h53, \h04,
  \h13, \hFC >>

\* The images of test_halt_condition, test_nop, test_run_until_halt and
\* test_invalid_instruction of executor.rs in one: the halt at 0, a nop and
\* a jump to the halt at 10, a byte that does not decode at 15.
corners == <<
  \h00, \h00, \h00, \h00, \h00, \h00, \h00, \h00, \h00, \h00, \hFF, \hC7, \h00, \h00, \h00, \hD4 >>

\* A character transmitted and three nops after it.
nops == <<
  \h44, \h48, \h2A, \h00, \h01, \hFF, \h81, \h00, \hFF, \hFF, \hFF, \h13, \hFC >>

AllImages ==
  [interrupt |-> interrupt, echo |-> echo, hello_uart |-> hello_uart,
   uart_hello |-> uart_hello, button_echo |-> button_echo, makerlisp |-> makerlisp,
   memory_access |-> memory_access, corners |-> corners, nops |-> nops]

Names == DOMAIN AllImages

Only(names) == [p \in names |-> AllImages[p]]
LiveImages == Only(Names \ {"interrupt"})
EchoImage == Only({"echo"})

MCEntries == [p \in Names |->
  CASE p = "makerlisp" -> {14} [] p = "corners" -> {10, 15} [] OTHER -> {}]
MCChars == [p \in Names |->
  CASE p = "interrupt" -> {120} [] p = "echo" -> {33, 49, 97} [] OTHER -> {}]
OneChar == [p \in Names |-> IF p \in {"interrupt", "echo"} THEN {97} ELSE {}]
MCBusyCycles == [p \in Names |->
  CASE p = "hello_uart" -> {0, 255} [] p = "uart_hello" -> {0}
    [] p = "interrupt" -> {0, 19} [] OTHER -> {}]
MCPresses == [p \in Names |-> IF p \in {"button_echo", "makerlisp"} THEN {0, 1} ELSE {}]
MCBudgets == [p \in Names |->
  CASE p \in {"button_echo", "makerlisp"} -> {3} [] p = "corners" -> {2}
    [] p = "memory_access" -> {1, 50} [] OTHER -> {}]
=============================================================================
