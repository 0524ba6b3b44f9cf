----------------------------- MODULE MCAssembly -----------------------------
(***************************************************************************)
(* Every source of three lines out of Lines after a first one that sets    *)
(* the origin: below the end of page 0, or far from it.                    *)
(***************************************************************************)
EXTENDS TwoPass

E(sym, plus) == [sym |-> sym, part |-> "word", plus |-> plus]
Low(sym)  == [sym |-> sym, part |-> "low", plus |-> 1]
High(sym) == [sym |-> sym, part |-> "high", plus |-> 0]
Number(n) == E(NoName, n)

Line(label, kind, expr) == [label |-> label, kind |-> kind, expr |-> expr, mn |-> "", hint |-> ""]
Ins(label, mn, hint, expr) ==
  [label |-> label, kind |-> "ins", expr |-> expr, mn |-> mn, hint |-> hint]

Lines ==
  {Line("a", "equ", Number(16)), Line("b", "equ", E("a", 300)), Line(NoName, "org", E("b", 2)),
   Line("a", "fill", Number(126)), Line(NoName, "fill", E("b", -260)),
   Line("b", "byte", E("b", -1)), Line(NoName, "word", E("a", 0)),
   Ins("a", "asl", "imp", Number(0)), Ins("b", "bne", "plain", E("a", 0)),
   Ins(NoName, "lda", "plain", E("a", 0)), Ins(NoName, "ldx", "y", E("b", 0)),
   Ins("b", "lda", "y", E("a", 1)), Ins(NoName, "sta", "x", High("b")),
   Ins(NoName, "sbc", "imm", Low("b")), Ins(NoName, "jmp", "ind", E("b", 0)),
   Ins("a", "jmp", "plain", E(Here, 3)), Ins(NoName, "nop", "imp", Number(0)),
   Ins(NoName, "SAX", "indx", E("a", 0)), Ins(NoName, "ror", "acc", Number(0))}

Origins == {Line(NoName, "org", Number(n)) : n \in {250, 768}}

MCPrograms == {<<o, x, y, z>> : o \in Origins, x \in Lines, y \in Lines, z \in Lines}
=============================================================================
