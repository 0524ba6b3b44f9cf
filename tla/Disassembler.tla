---------------------------- MODULE Disassembler ----------------------------
(***************************************************************************)
(* m6502_disasm and its own table of addressing modes, which the processor *)
(* does not use.  Even rows of sixteen opcodes hold one set of modes, odd  *)
(* rows the indexed ones.                                                  *)
(***************************************************************************)
EXTENDS Opcodes

g_dm(op) ==
  LET row == op \div 16
      col == op % 16
  IN  IF row % 2 = 0
      THEN CASE col = 0           -> IF row = 2 THEN "abs" ELSE IF row < 8 THEN "imp" ELSE "imm"
             [] col = 2           -> IF row < 8 THEN "imp" ELSE "imm"
             [] col = 8           -> "imp"
             [] col = 10          -> IF row < 8 THEN "acc" ELSE "imp"
             [] col = 12          -> IF row = 6 THEN "ind" ELSE "abs"
             [] col \in {1, 3}    -> "indx"
             [] col \in 4 .. 7    -> "zp"
             [] col \in {9, 11}   -> "imm"
             [] OTHER             -> "abs"
      ELSE CASE col = 0           -> "rel"
             [] col \in {1, 3}    -> "indy"
             [] col \in {2, 8, 10} -> "imp"
             [] col \in {9, 11}   -> "absy"
             [] col \in {4, 5}    -> "zpx"
             [] col \in {6, 7}    -> IF row \in {9, 11} THEN "zpy" ELSE "zpx"
             [] col \in {12, 13}  -> "absx"
             [] OTHER             -> IF row \in {9, 11} THEN "absy" ELSE "absx"

g_dl(mode) ==
  CASE mode \in {"imp", "acc"} -> 1
    [] mode \in {"abs", "absx", "absy", "ind"} -> 3
    [] OTHER -> 2

(* g_mn: the names of the operations, the processor's table once more      *)
g_mn(op) == Operation(op)

(* what a line of the listing says, at addr, of the bytes op, b1 and b2    *)
Shown(addr, op, b1, b2) ==
  LET mode == g_dm(op)
  IN  [mn |-> g_mn(op), mode |-> mode, len |-> g_dl(mode),
       value |-> CASE g_dl(mode) = 1 -> 0
                   [] g_dl(mode) = 3 -> b1 + 256 * b2
                   [] mode = "rel"   -> (addr + 2 + Signed(b1)) % 65536
                   [] OTHER          -> b1]
=============================================================================
