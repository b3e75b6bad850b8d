------------------------------- MODULE DecodeRom -------------------------------
(***************************************************************************)
(* The table of src/src/cpu/decode_rom.rs: for each instruction byte, 12   *)
(* bits opcode(5) : ra(3) : rb(3), FFF where the byte does not decode; and *)
(* the opcodes of the external crate cor24_isa in the order of their       *)
(* codes, with their sizes, as Executor uses them.                         *)
(***************************************************************************)
EXTENDS Integers, Sequences

Table == <<
  \h000, \h001, \h002, \h008, \h009, \h00A, \h010, \h011,
  \h012, \h047, \h04F, \h057, \h067, \h081, \h082, \h088,
  \h08A, \h090, \h091, \h0FF, \h13F, \h17F, \h181, \h182,
  \h18A, \h1C1, \h1C2, \h1C8, \h1CA, \h1D0, \h1D1, \h201,
  \h202, \h208, \h20A, \h210, \h211, \h248, \h287, \h28F,
  \h297, \h2C7, \h2CF, \h2D7, \h300, \h301, \h302, \h303,
  \h308, \h309, \h30A, \h30B, \h310, \h311, \h312, \h313,
  \h340, \h341, \h342, \h343, \h348, \h349, \h34A, \h34B,
  \h350, \h351, \h352, \h353, \h387, \h38F, \h397, \h3C7,
  \h3CF, \h3D7, \h400, \h401, \h402, \h403, \h408, \h409,
  \h40A, \h40B, \h410, \h411, \h412, \h413, \h441, \h442,
  \h003, \h444, \h448, \h44A, \h00B, \h44C, \h450, \h451,
  \h013, \h454, \h445, \h44D, \h455, \h45C, \h460, \h470,
  \h2BF, \h463, \h480, \h481, \h482, \h488, \h489, \h48A,
  \h490, \h491, \h492, \h4C1, \h4C2, \h4C8, \h4CA, \h4D0,
  \h4D1, \h504, \h50C, \h514, \h51C, \h544, \h54C, \h554,
  \h55C, \h581, \h582, \h583, \h588, \h58A, \h58B, \h590,
  \h591, \h593, \h5C1, \h5C2, \h5C8, \h5CA, \h5D0, \h5D1,
  \h601, \h602, \h608, \h60A, \h610, \h611, \h641, \h642,
  \h648, \h64A, \h650, \h651, \h681, \h682, \h688, \h68A,
  \h690, \h691, \h6E7, \h700, \h701, \h702, \h703, \h708,
  \h709, \h70A, \h70B, \h710, \h711, \h712, \h713, \h740,
  \h741, \h742, \h748, \h749, \h74A, \h750, \h751, \h752,
  \h781, \h782, \h788, \h78A, \h790, \h791, \h7C0, \h7C1,
  \h7C2, \h7C8, \h7C9, \h7CA, \h7D0, \h7D1, \h7D2, \h2FF,
  \h185, \h18D, \h195, \h1C5, \h1CD, \h1D5, \h228, \h229,
  \h22A, \h249, \h24A, \hFFF, \hFFF, \hFFF, \hFFF, \hFFF,
  \hFFF, \hFFF, \hFFF, \hFFF, \hFFF, \hFFF, \hFFF, \hFFF,
  \hFFF, \hFFF, \hFFF, \hFFF, \hFFF, \hFFF, \hFFF, \hFFF,
  \hFFF, \hFFF, \hFFF, \hFFF, \hFFF, \hFFF, \hFFF, \hFFF,
  \hFFF, \hFFF, \hFFF, \hFFF, \hFFF, \hFFF, \hFFF, \hFFF,
  \hFFF, \hFFF, \hFFF, \hFFF, \hFFF, \hFFF, \hFFF, \hFFF >>

Rom == [b \in 0 .. 255 |-> Table[b + 1]]

OpcodeNames == <<
  "AddReg", "AddImm", "And", "Bra", "Brf", "Brt", "Ceq", "Cls",
  "Clu", "Jal", "Jmp", "La", "Lb", "Lbu", "Lc", "Lcu",
  "Lw", "Mov", "Mul", "Or", "Pop", "Push", "Sb", "Shl",
  "Sra", "Srl", "Sub", "SubSp", "Sw", "Sxt", "Xor", "Zxt" >>

Size == [o \in {OpcodeNames[i] : i \in 1 .. 32} |->
  IF o \in {"La", "SubSp"} THEN 4
  ELSE IF o \in {"AddImm", "Bra", "Brf", "Brt", "Lb", "Lbu", "Lc", "Lcu", "Lw", "Sb", "Sw"}
  THEN 2 ELSE 1]
=============================================================================
