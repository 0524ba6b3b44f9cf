--------------------------- MODULE LineAssembler ---------------------------
(***************************************************************************)
(* The inline assembler of the m6502 monitor: one line, no symbols.  An    *)
(* operand has a form, a value and whether more than two digits were typed.*)
(***************************************************************************)
EXTENDS Disassembler, Sequences

(* the documented opcodes; its entries for the branches are never found    *)
asm_tab ==
  {op \in Opcode : /\ Column(op) % 4 # 3 /\ Operation(op) \notin {"JAM", "SHX", "SHY"}
                   /\ Operation(op) = "nop" => op = 234}

parse_operand(form, value, wide) ==
  LET zp == ~wide /\ value <= 255
  IN  CASE form = "none"    -> "imp"
        [] form = "A"       -> "acc"
        [] form = "#"       -> "imm"
        [] form = "(x)"     -> "indx"
        [] form = "(y)"     -> "indy"
        [] form = "()"      -> "ind"
        [] form = "x"       -> IF zp THEN "zpx" ELSE "absx"
        [] form = "y"       -> IF zp THEN "zpy" ELSE "absy"
        [] form = "plain"   -> IF zp THEN "zp" ELSE "abs"
        [] form = "decimal" -> "abs"

Entries(mn, mode) == {op \in asm_tab : Operation(op) = mn /\ Mode(op) = mode}

(* the absolute mode for a zero-page one, the accumulator for no operand   *)
FallbackNone(mode) == mode
Fallback(mode) ==
  CASE mode = "zp" -> "abs" [] mode = "zpx" -> "absx" [] mode = "zpy" -> "absy"
    [] mode = "imp" -> "acc" [] OTHER -> mode

Operand(addr, mode, value) ==
  CASE OperandSize(mode) = 0 -> <<>>
    [] mode = "rel"          -> <<(value - (addr + 2)) % 256>>
    [] OperandSize(mode) = 2 -> <<value % 256, (value \div 256) % 256>>
    [] OTHER                 -> <<value % 256>>

(* the bytes of a line, none when it is rejected                           *)
asm_line(addr, mn, form, value, wide) ==
  LET typed == parse_operand(form, value, wide)
      mode  == IF Entries(mn, typed) # {} THEN typed ELSE Fallback(typed)
      op    == Entries(mn, mode)
      far   == mode = "rel" /\ value - (addr + 2) \notin -128 .. 127
  IN  IF op = {} \/ far THEN <<>>
      ELSE <<CHOOSE o \in op : TRUE>> \o Operand(addr, mode, value)
=============================================================================
