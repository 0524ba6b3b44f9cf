------------------------------ MODULE Opcodes ------------------------------
(***************************************************************************)
(* The dispatch tables of m6502.c: the addressing mode and the operation   *)
(* of each opcode.  An opcode is its group (the upper three bits) and its  *)
(* column (the lower five); the table of a column lists the groups 0 to 7, *)
(* and most columns follow a pattern.                                      *)
(***************************************************************************)
EXTENDS Bytes

Opcode == Byte
Group(op)  == op \div 32
Column(op) == op % 32

Row(t, op) == t[Group(op) + 1]
All(x) == [g \in 1 .. 8 |-> x]
(* groups 4 and 5 are the stores and the loads *)
But(x, s, l) == <<x, x, x, x, s, l, x, x>>

Modes == {"imp", "acc", "imm", "zp", "zpx", "zpy", "abs", "rel", "absx", "absy",
          "ind", "indx", "indy"}

(* the bytes that follow the opcode *)
OperandSize(mode) ==
  CASE mode \in {"imp", "acc"} -> 0
    [] mode \in {"abs", "absx", "absy", "ind"} -> 2
    [] OTHER -> 1

ModesOf(col) ==
  CASE col = 0            -> <<"imp", "abs", "imp", "imp", "imm", "imm", "imm", "imm">>
    [] col = 2            -> <<"imp", "imp", "imp", "imp", "imm", "imm", "imm", "imm">>
    [] col \in {1, 3}     -> All("indx")
    [] col \in {4, 5, 6, 7} -> All("zp")
    [] col \in {9, 11}    -> All("imm")
    [] col = 10           -> <<"acc", "acc", "acc", "acc", "imp", "imp", "imp", "imp">>
    [] col = 12           -> <<"abs", "abs", "abs", "ind", "abs", "abs", "abs", "abs">>
    [] col \in {13, 14, 15} -> All("abs")
    [] col = 16           -> All("rel")
    [] col \in {17, 19}   -> All("indy")
    [] col \in {20, 21}   -> All("zpx")
    [] col \in {22, 23}   -> But("zpx", "zpy", "zpy")
    [] col \in {25, 27}   -> All("absy")
    [] col \in {28, 29}   -> All("absx")
    [] col \in {30, 31}   -> But("absx", "absy", "absy")
    [] OTHER              -> All("imp")

Accumulating == <<"ora", "and", "eor", "adc", "sta", "lda", "cmp", "sbc">>
Modifying    == <<"asl", "rol", "lsr", "ror", "stx", "ldx", "dec", "inc">>
Combining    == <<"SLO", "RLA", "SRE", "RRA", "SAX", "LAX", "DCP", "ISC">>

OperationsOf(col) ==
  CASE col = 0  -> <<"brk", "jsr", "rti", "rts", "nop", "ldy", "cpy", "cpx">>
    [] col = 2  -> <<"JAM", "JAM", "JAM", "JAM", "nop", "ldx", "nop", "nop">>
    [] col = 4  -> <<"nop", "bit", "nop", "nop", "sty", "ldy", "cpy", "cpx">>
    [] col = 8  -> <<"php", "plp", "pha", "pla", "dey", "tay", "iny", "inx">>
    [] col = 9  -> [Accumulating EXCEPT ![5] = "nop"]
    [] col = 10 -> <<"asl", "rol", "lsr", "ror", "txa", "tax", "dex", "nop">>
    [] col = 11 -> <<"ANC", "ANC", "ALR", "ARR", "ANE", "LXA", "SBX", "sbc">>
    [] col = 12 -> <<"nop", "bit", "jmp", "jmp", "sty", "ldy", "cpy", "cpx">>
    [] col = 16 -> <<"bpl", "bmi", "bvc", "bvs", "bcc", "bcs", "bne", "beq">>
    [] col = 18 -> All("JAM")
    [] col \in {19, 31} -> [Combining EXCEPT ![5] = "SHA"]
    [] col = 20 -> But("nop", "sty", "ldy")
    [] col = 24 -> <<"clc", "sec", "cli", "sei", "tya", "clv", "cld", "sed">>
    [] col = 26 -> But("nop", "txs", "tsx")
    [] col = 27 -> [Combining EXCEPT ![5] = "TAS", ![6] = "LAS"]
    [] col = 28 -> But("nop", "SHY", "ldy")
    [] col = 30 -> [Modifying EXCEPT ![5] = "SHX"]
    [] OTHER    -> CASE col % 4 = 1 -> Accumulating
                     [] col % 4 = 2 -> Modifying
                     [] OTHER       -> Combining

Mode(op)      == Row(ModesOf(Column(op)), op)
Operation(op) == Row(OperationsOf(Column(op)), op)
=============================================================================
