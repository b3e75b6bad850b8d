------------------------------- MODULE Programs --------------------------------
(***************************************************************************)
(* The example programs of the repository running on Cpu, beside a host    *)
(* that may deliver a character, press the button or reset the machine     *)
(* between any two instructions.                                           *)
(*                                                                         *)
(* The history variables are what the properties compare the machine with: *)
(* the characters sent and the characters a program has read, and the      *)
(* context each interrupt in service was taken in.                         *)
(***************************************************************************)
EXTENDS Cpu

CONSTANTS
  Image,        \* program -> its bytes, loaded at 0
  Chars,        \* program -> the characters that may arrive
  Presses,      \* program -> the values the button may be set to
  Budgets,      \* program -> the max_cycles a host calls run with
  Entries,      \* program -> addresses a host starts it at, beside 0
  BusyCycles,   \* program -> settings of uart_tx_busy_cycles beside the default
  Mute,         \* the programs a host may run with uart_never_ready
  MaxEvents     \* bound on the characters sent, changes of the button and resets

\* Bytes are loaded, typed and set, addresses are words.
ASSUME HostAssumption ==
  \A p \in DOMAIN Image :
    /\ Image[p] \in Seq(Byte)
    /\ Chars[p] \cup Presses[p] \cup BusyCycles[p] \subseteq Byte
    /\ Entries[p] \subseteq Word
    /\ Budgets[p] \subseteq Nat

\* No entry of the decode table writes z.
ASSUME ZeroAssumption ==
  \A b \in Byte :
    LET d == DECODE_ROM[b]
    IN  (/\ d # Undecodable
         /\ Opcodes[1 + d \div 64] \in
              (Computing \ {"SubSp"}) \cup {"Jal", "Lb", "Lbu", "Lw", "Pop"}) =>
          (d \div 8) % 8 # 5

VARIABLES
  program,      \* the program in memory, "none" before one is loaded
  sent, taken,  \* characters the host sent, characters a load acknowledged
  saved,        \* registers, condition and pc at each interrupt in service
  events        \* what the host did so far that MaxEvents bounds

history == <<program, sent, taken, saved, events>>
allVars == <<vars, history>>

MInit ==
  /\ Init
  /\ program = "none" /\ sent = <<>> /\ taken = <<>> /\ saved = <<>>
  /\ events = 0

Running == program # "none"

-----------------------------------------------------------------------------
(* The machine's steps, with the history they make.                        *)

Acknowledges == io.uart_rx_ready /\ ~ io'.uart_rx_ready

Observe ==
  /\ taken' = IF Acknowledges THEN Append(taken, io.uart_rx) ELSE taken
  /\ saved' = CASE Interrupt -> <<[registers |-> registers, c |-> c, pc |-> pc]>> \o saved
                [] Jmp /\ ra = 7 /\ saved # <<>> -> Tail(saved)
                [] OTHER -> saved
  /\ UNCHANGED <<program, sent, events>>

MStep == Running /\ Step /\ Observe

-----------------------------------------------------------------------------
(* The host.                                                               *)

\* The devices are set up before the program's first instruction.
Setup ==
  /\ pc = 0
  /\ \/ \E entry \in Entries[program] : SetPc(entry)
     \/ \E n \in BusyCycles[program] : SetBusyCycles(n)
     \/ program \in Mute /\ NeverReady
  /\ UNCHANGED history

Boot(p) ==
  /\ ~ Running
  /\ LoadProgram(0, Image[p])
  /\ program' = p
  /\ UNCHANGED <<sent, taken, saved, events>>

Event == events < MaxEvents /\ events' = events + 1

Type(ch) ==
  /\ Event
  /\ SendRx(ch)
  /\ sent' = Append(sent, ch)
  /\ UNCHANGED <<program, taken, saved>>

Press(v) ==
  /\ Event
  /\ SetSwitches(v)
  /\ UNCHANGED <<program, sent, taken, saved>>

Call(n) == Run(n) /\ UNCHANGED history

MReset ==
  /\ Running /\ Event
  /\ \/ Reset /\ UNCHANGED program
     \/ HardReset /\ program' = "none"
  /\ sent' = <<>> /\ taken' = <<>> /\ saved' = <<>>

MHost ==
  \/ \E p \in DOMAIN Image : Boot(p)
  \/ /\ Running
     /\ \/ Setup
        \/ \E ch \in Chars[program] : Type(ch)
        \/ \E v \in Presses[program] : Press(v)
        \/ \E n \in Budgets[program] : Call(n)
  \/ MReset

MNext == MStep \/ MHost

MSpec == MInit /\ [][MNext]_allVars

\* `run` loops over `step`, and a host calls one or the other for ever.
MFairSpec == MSpec /\ WF_allVars(MStep) /\ WF_allVars(\E p \in DOMAIN Image : Boot(p))

-----------------------------------------------------------------------------
(* Properties of every program.                                            *)

\* Types of the machine; memory holds cells of memory only, and z is zero,
\* which the programs use as a constant and no instruction writes.
TypeOK ==
  /\ pc \in Word /\ registers \in [0 .. 7 -> Word]
  /\ registers[5] = 0
  /\ c \in BOOLEAN /\ halted \in BOOLEAN /\ intis \in BOOLEAN
  /\ \A a \in DOMAIN mem : IsRam(a) /\ mem[a] \in Byte
  /\ {io.leds, io.switches, io.int_enable, io.uart_tx, io.uart_rx,
      io.uart_tx_busy_cycles, io.uart_tx_countdown} \subseteq Byte
  /\ budget \in Nat

\* Until the overflow flag is raised no received character is lost, read
\* twice or read out of order: what was sent is what was read and then the
\* one still in the receiver (uart_send_rx, read_byte_exec).
RxAccounted ==
  ~ io.uart_rx_overflow =>
    sent = taken \o (IF io.uart_rx_ready THEN <<io.uart_rx>> ELSE <<>>)

\* A return from an interrupt finds the registers, the flag and the place of
\* the interrupted program as they were, whenever the interrupt came.
Transparent ==
  [][ (Jmp /\ ra = 7 /\ saved # <<>>) =>
        LET was == Head(saved)
        IN  /\ \A r \in 0 .. 6 : registers'[r] = was.registers[r]
            /\ c' = was.c /\ pc' = was.pc ]_allVars

\* A run comes back to its host, whatever the program does: at a halt, at an
\* instruction that does not decode or when its cycles are used up (run).
RunReturns == (budget > 0) ~> (budget = 0)

-----------------------------------------------------------------------------
(* Properties of the programs.                                             *)

Cell(a) == IF a \in DOMAIN mem THEN mem[a] ELSE 0

Serving == {"interrupt", "echo"}

\* interrupt.s: the main loop counts 0-9 and around in the cell at 256 however
\* its interrupts fall; only the first store after a start, when r2 does not
\* hold the limit yet, begins at 0.
CounterCounts ==
  [][ (program = "interrupt" /\ program' = program /\ Cell(256)' # Cell(256)) =>
        Cell(256)' = IF registers[2] = 10 THEN (Cell(256) + 1) % 10 ELSE 0 ]_allVars

\* interrupt.s: each interrupt prints one decimal digit, none is lost to a
\* busy transmitter although the routine does not poll it.
OneDigitEach ==
  (program = "interrupt" /\ ~ intis /\ ~ io.uart_never_ready) =>
    /\ Len(io.uart_output) = Len(taken)
    /\ \A i \in DOMAIN io.uart_output : io.uart_output[i] \in 48 .. 57

Prompt == 63
Bang   == 33
Upper(ch) == IF ch \in 97 .. 122 THEN ch - 32 ELSE ch

\* The transmitter was given the first n characters read, letters in upper
\* case, and nothing else;
Echoes(n) ==
  /\ Len(io.uart_output) = n
  /\ \A i \in 1 .. n : io.uart_output[i] = Upper(taken[i])

\* or those and, after k of them, the prompt.
Prompted(n) ==
  /\ Len(io.uart_output) = n + 1
  /\ \E k \in 0 .. n :
       /\ io.uart_output[k + 1] = Prompt
       /\ \A i \in 1 .. k : io.uart_output[i] = Upper(taken[i])
       /\ \A i \in k + 1 .. n : io.uart_output[i + 1] = Upper(taken[i])

\* A NUL is transmitted and leaves no trace in the output.
Visible == \A i \in DOMAIN taken : taken[i] # 0

\* echo.s: every character read is echoed once, in order, letters in upper
\* case, and the prompt comes once or not at all, however the keys fall into
\* the prompt and into one another.
EchoInOrder ==
  (program = "echo" /\ ~ intis /\ Visible) => Echoes(Len(taken)) \/ Prompted(Len(taken))

\* A character that arrives is read unless the program has stopped: an
\* interrupt that is pending is taken as soon as the last one returns.
Served ==
  (program \in Serving /\ io.uart_rx_ready) ~>
    (~ io.uart_rx_ready \/ halted \/ io.uart_never_ready)

Text(p) ==
  CASE p = "hello_uart" -> <<72, 105, 10>>
    [] p = "uart_hello" -> <<72, 101, 108, 108, 111, 10>>

\* The programs that poll print their whole text, for every transmission
\* time, and stop; if the transmitter is never ready they print nothing and
\* go on polling.
Prints ==
  (program \in {"hello_uart", "uart_hello"}) =>
    /\ io.uart_tx_dropped = 0
    /\ halted => io.uart_output = Text(program)
    /\ io.uart_never_ready => io.uart_output = <<>> /\ ~ halted

\* and they do get to their end.
Finishes ==
  (program \in {"hello_uart", "uart_hello"}) ~>
    (halted \/ io.uart_never_ready \/ program = "none")

\* button_echo.s: once the button stays put, the LED shows it and goes on
\* showing it.
LedFollows ==
  <>[](program = "button_echo" => io.leds = io.switches)

-----------------------------------------------------------------------------
(* What tests and comments say, and the code does not do.                  *)

\* echo.s transmits its prompt before the main loop ("Prompt '?' should
\* appear on startup", integration_tests.rs:558): a key that comes between
\* the poll and the store leaves the transmitter busy.
PromptShown ==
  (program = "echo" /\ pc = 26 /\ ~ intis) =>
    \E i \in DOMAIN io.uart_output : io.uart_output[i] = Prompt
=============================================================================
