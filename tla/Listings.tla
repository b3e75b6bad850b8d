------------------------------- MODULE Listings --------------------------------
(***************************************************************************)
(* The source text of four of the example programs, line by line: what     *)
(* the decode table and the image say at each offset.  The images of       *)
(* Programs are bytes; the proofs about these programs read the lines.     *)
(***************************************************************************)
EXTENDS Programs

\* At offset k of p stands an instruction o of w bytes with registers x, y.
Line(p, k, o, x, y, w) ==
  LET byte == Image[p][k + 1]
      d == DECODE_ROM[byte]
  IN  /\ k + w <= Len(Image[p])
      /\ byte \notin {0, 255} /\ d # Undecodable
      /\ Opcodes[1 + d \div 64] = o /\ SizeOf[o] = w
      /\ (d \div 8) % 8 = x /\ d % 8 = y

\* Without a constant, with one of a byte, as it is or sign-extended, with one
\* of a word.
Plain(p, k, o, x, y)       == Line(p, k, o, x, y, 1)
Unsigned(p, k, o, x, y, n) == Line(p, k, o, x, y, 2) /\ Image[p][k + 2] = n
Short(p, k, o, x, y, n)    == Line(p, k, o, x, y, 2) /\ SignExtend8(Image[p][k + 2]) = n
Long(p, k, o, x, y, n)  ==
  /\ Line(p, k, o, x, y, 4)
  /\ WordOf(Image[p][k + 2], Image[p][k + 3], Image[p][k + 4]) = n

\* A branch to offset t.
Branch(p, k, o, t) ==
  /\ Line(p, k, o, 7, 7, 2)
  /\ Mask(k + 4 + SignExtend8(Image[p][k + 2])) = t

\* tests/programs/hello_uart.s
HelloUart ==
  LET p == "hello_uart"
  IN  /\ Len(Image[p]) = 37
      /\ Plain(p, 0, "Push", 3, 4)                      \* _main:
      /\ Plain(p, 1, "Mov", 3, 4)
      /\ Long(p, 2, "La", 2, 7, IO_UARTDATA)
      /\ \A i \in 1 .. 3 :
           LET k == 9 * i - 3
           IN  /\ Short(p, k, "Lc", 0, 7, Text(p)[i])
               /\ Short(p, k + 2, "Lb", 1, 2, 1)        \* _tx1: _tx2: _tx3:
               /\ Plain(p, k + 4, "Cls", 1, 5)
               /\ Branch(p, k + 5, "Brt", k + 2)
               /\ Short(p, k + 7, "Sb", 0, 2, 0)
      /\ Plain(p, 33, "Mov", 4, 3)
      /\ Plain(p, 34, "Pop", 3, 4)
      /\ Branch(p, 35, "Bra", 35)                       \* _halt:

\* src/examples/assembler/uart_hello.s
UartHello ==
  LET p == "uart_hello"
  IN  /\ Len(Image[p]) = 60
      /\ \A i \in 1 .. 6 :
           LET k == 7 * i - 7
           IN  /\ Short(p, k, "Lc", 0, 7, Text(p)[i])
               /\ Long(p, k + 2, "La", 2, 7, 44)
               /\ Plain(p, k + 6, "Jal", 1, 2)
      /\ Branch(p, 42, "Bra", 42)                       \* halt:
      /\ Plain(p, 44, "Push", 1, 4)                     \* putc:
      /\ Plain(p, 45, "Push", 0, 4)
      /\ Long(p, 46, "La", 1, 7, IO_UARTDATA)
      /\ Short(p, 50, "Lb", 2, 1, 1)                    \* .wait:
      /\ Plain(p, 52, "Cls", 2, 5)
      /\ Branch(p, 53, "Brt", 50)
      /\ Plain(p, 55, "Pop", 0, 4)
      /\ Short(p, 56, "Sb", 0, 1, 0)
      /\ Plain(p, 58, "Pop", 1, 4)
      /\ Plain(p, 59, "Jmp", 1, 7)

\* docs/examples/interrupt.s
InterruptDigits ==
  LET p == "interrupt"
  IN  /\ Len(Image[p]) = 65
      /\ Long(p, 0, "La", 0, 7, 33)
      /\ Plain(p, 4, "Mov", 6, 0)
      /\ Long(p, 5, "La", 1, 7, IO_INTENABLE)
      /\ Short(p, 9, "Lc", 0, 7, 1)
      /\ Short(p, 11, "Sb", 0, 1, 0)
      /\ Long(p, 13, "La", 1, 7, 256)
      /\ Short(p, 17, "Lc", 0, 7, 0)
      /\ Short(p, 19, "Sb", 0, 1, 0)                    \* loop:
      /\ Short(p, 21, "Lc", 2, 7, 1)
      /\ Plain(p, 23, "AddReg", 0, 2)
      /\ Short(p, 24, "Lc", 2, 7, 10)
      /\ Plain(p, 26, "Ceq", 0, 2)
      /\ Branch(p, 27, "Brf", 19)
      /\ Short(p, 29, "Lc", 0, 7, 0)
      /\ Branch(p, 31, "Bra", 19)
      /\ Plain(p, 33, "Push", 0, 4)                     \* isr:
      /\ Plain(p, 34, "Push", 1, 4)
      /\ Plain(p, 35, "Push", 2, 4)
      /\ Plain(p, 36, "Mov", 2, 5)
      /\ Plain(p, 37, "Push", 2, 4)
      /\ Long(p, 38, "La", 1, 7, IO_UARTDATA)
      /\ Short(p, 42, "Lb", 2, 1, 0)
      /\ Long(p, 44, "La", 1, 7, 256)
      /\ Short(p, 48, "Lb", 2, 1, 0)
      /\ Short(p, 50, "Lc", 0, 7, 48)
      /\ Plain(p, 52, "AddReg", 0, 2)
      /\ Long(p, 53, "La", 1, 7, IO_UARTDATA)
      /\ Short(p, 57, "Sb", 0, 1, 0)
      /\ Plain(p, 59, "Pop", 2, 4)
      /\ Plain(p, 60, "Clu", 5, 2)
      /\ Plain(p, 61, "Pop", 2, 4)
      /\ Plain(p, 62, "Pop", 1, 4)
      /\ Plain(p, 63, "Pop", 0, 4)
      /\ Plain(p, 64, "Jmp", 7, 7)

\* src/examples/assembler/echo.s
Echo ==
  LET p == "echo"
  IN  /\ Len(Image[p]) = 93
      /\ Long(p, 0, "La", 0, 7, 30)
      /\ Plain(p, 4, "Mov", 6, 0)
      /\ Long(p, 5, "La", 1, 7, IO_INTENABLE)
      /\ Short(p, 9, "Lc", 0, 7, 1)
      /\ Short(p, 11, "Sb", 0, 1, 0)
      /\ Long(p, 13, "La", 1, 7, IO_UARTDATA)
      /\ Short(p, 17, "Lb", 2, 1, 1)                    \* .txp:
      /\ Plain(p, 19, "Cls", 2, 5)
      /\ Branch(p, 20, "Brt", 17)
      /\ Short(p, 22, "Lc", 0, 7, Prompt)
      /\ Short(p, 24, "Sb", 0, 1, 0)
      /\ Short(p, 26, "Lc", 0, 7, 0)                    \* idle:
      /\ Branch(p, 28, "Bra", 26)
      /\ Plain(p, 30, "Push", 0, 4)                     \* isr:
      /\ Plain(p, 31, "Push", 1, 4)
      /\ Plain(p, 32, "Push", 2, 4)
      /\ Plain(p, 33, "Mov", 2, 5)
      /\ Plain(p, 34, "Push", 2, 4)
      /\ Long(p, 35, "La", 1, 7, IO_UARTDATA)
      /\ Short(p, 39, "Lb", 0, 1, 0)
      /\ Plain(p, 41, "Mov", 2, 0)
      /\ Short(p, 42, "Lc", 0, 7, Bang)
      /\ Plain(p, 44, "Ceq", 0, 2)
      /\ Branch(p, 45, "Brt", 91)
      /\ Short(p, 47, "Lc", 0, 7, 97)
      /\ Plain(p, 49, "Clu", 2, 0)
      /\ Branch(p, 50, "Brt", 74)
      /\ Short(p, 52, "Lc", 0, 7, 123)
      /\ Plain(p, 54, "Clu", 2, 0)
      /\ Branch(p, 55, "Brf", 74)
      /\ Plain(p, 57, "Mov", 0, 2)
      /\ Unsigned(p, 58, "Lcu", 1, 7, 223)
      /\ Plain(p, 60, "And", 0, 1)
      /\ Long(p, 61, "La", 1, 7, IO_UARTDATA)
      /\ Short(p, 65, "Lb", 2, 1, 1)                    \* .tx1:
      /\ Plain(p, 67, "Cls", 2, 5)
      /\ Branch(p, 68, "Brt", 65)
      /\ Short(p, 70, "Sb", 0, 1, 0)
      /\ Branch(p, 72, "Bra", 85)
      /\ Long(p, 74, "La", 1, 7, IO_UARTDATA)           \* not_lower:
      /\ Short(p, 78, "Lb", 0, 1, 1)                    \* .tx2:
      /\ Plain(p, 80, "Cls", 0, 5)
      /\ Branch(p, 81, "Brt", 78)
      /\ Short(p, 83, "Sb", 2, 1, 0)
      /\ Plain(p, 85, "Pop", 2, 4)                      \* isr_done:
      /\ Plain(p, 86, "Clu", 5, 2)
      /\ Plain(p, 87, "Pop", 2, 4)
      /\ Plain(p, 88, "Pop", 1, 4)
      /\ Plain(p, 89, "Pop", 0, 4)
      /\ Plain(p, 90, "Jmp", 7, 7)
      /\ Branch(p, 91, "Bra", 91)                       \* do_halt:

\* The images are those of the sources.
ASSUME ListingAssumption ==
  /\ "hello_uart" \in DOMAIN Image => HelloUart
  /\ "uart_hello" \in DOMAIN Image => UartHello
  /\ "interrupt" \in DOMAIN Image => InterruptDigits
  /\ "echo" \in DOMAIN Image => Echo

\* They start at 0, and a transmission ends while the next digit of
\* interrupt.s is still being prepared; no program is called "none".
ASSUME StartAssumption ==
  /\ "none" \notin DOMAIN Image
  /\ \A p \in DOMAIN Image \cap {"hello_uart", "uart_hello", "interrupt", "echo"} :
       Entries[p] = {}
  /\ "interrupt" \in DOMAIN Image => BusyCycles["interrupt"] \subseteq 0 .. 19

\* Bit 5 is all that tells a letter from its upper case.
ASSUME CaseAssumption == \A ch \in 97 .. 122 : BitAnd(ch, 223) = Upper(ch)
=============================================================================
