------------------------------ MODULE TwoPass ------------------------------
(***************************************************************************)
(* a6502/asm.py: the first pass gives each label the address it expects    *)
(* its line to have, the second emits the bytes.  A line is a record; an   *)
(* expression is a number, the program counter or a symbol, or the low or  *)
(* the high byte of one, with a number added.                              *)
(***************************************************************************)
EXTENDS Disassembler, Integers, Sequences, FiniteSets, FiniteSetsExt

CONSTANTS Programs      \* the sources: sequences of lines

VARIABLES program, pass, line, pc,
          syms,         \* symbols and their values
          memory,
          failed        \* an AsmError was raised

vars == <<program, pass, line, pc, syms, memory, failed>>

NoName == ""
Here   == "*"

Expr == [sym : STRING, part : {"word", "low", "high"}, plus : Int]
SourceLine ==
  [label : STRING \ {Here}, kind : {"equ", "org", "fill", "byte", "word", "ins"}, expr : Expr,
   mn : STRING, hint : {"", "imp", "acc", "imm", "indx", "indy", "ind", "x", "y", "plain"}]

ASSUME ProgramsAssumption == Programs \subseteq Seq(SourceLine)

Branches == {"bcc", "bcs", "beq", "bmi", "bne", "bpl", "bvc", "bvs"}
AccOps   == {"asl", "lsr", "rol", "ror"}

(* OPCODES: of several opcodes with one name and mode the last is kept *)
Encodings(mn, mode) == {op \in Opcode : g_mn(op) = mn /\ Mode(op) = mode}
Has(mn, mode) == Encodings(mn, mode) # {}
Code(mn, mode) == Max(Encodings(mn, mode))

(***************************************************************************)
(* Expressions, with the symbols s, of a line at address a                 *)
(***************************************************************************)
Defined(e, s) == e.sym \in {NoName, Here} \cup DOMAIN s

Value(e, s, a) ==
  LET atom == CASE e.sym = NoName -> 0 [] e.sym = Here -> a [] OTHER -> s[e.sym]
  IN  e.plus + CASE e.part = "word" -> atom
                 [] e.part = "low"  -> atom % 256
                 [] e.part = "high" -> (atom \div 256) % 256

InPage0(e, s, a) == Defined(e, s) /\ Value(e, s, a) \in 0 .. 255

(***************************************************************************)
(* Instructions                                                            *)
(***************************************************************************)
ZeroPage(hint) == CASE hint = "x" -> "zpx" [] hint = "y" -> "zpy" [] OTHER -> "zp"
Absolute(hint) == CASE hint = "x" -> "absx" [] hint = "y" -> "absy" [] OTHER -> "abs"
Sized(d) == d.hint \in {"x", "y", "plain"} /\ d.mn \notin Branches

(* the short form, where the value allows it and the operation has it *)
Chosen(d, s, a) ==
  IF InPage0(d.expr, s, a) /\ Has(d.mn, ZeroPage(d.hint)) THEN ZeroPage(d.hint) ELSE Absolute(d.hint)

ModeOf(d, s, a) ==
  CASE d.hint = "imp" -> IF d.mn \in AccOps THEN "acc" ELSE "imp"
    [] Sized(d)       -> Chosen(d, s, a)
    [] d.mn \in Branches /\ d.hint = "plain" -> "rel"
    [] OTHER          -> d.hint

(* _size: a symbol not yet defined is taken for one beyond page 0 *)
SizeHopeful(d, s, a) ==
  IF Sized(d) /\ ~Defined(d.expr, s) /\ Has(d.mn, ZeroPage(d.hint)) THEN 2
  ELSE 1 + OperandSize(ModeOf(d, s, a))

Size(d, s, a) == 1 + OperandSize(ModeOf(d, s, a))

OffsetFromOpcode(d) == Value(d.expr, syms, pc) - (pc + 1)
Offset(d) == Value(d.expr, syms, pc) - (pc + 2)

Operand(d, mode) ==
  CASE OperandSize(mode) = 0 -> <<>>
    [] mode = "rel"          -> <<Offset(d) % 256>>
    [] OperandSize(mode) = 2 -> <<Value(d.expr, syms, pc) % 256, (Value(d.expr, syms, pc) \div 256) % 256>>
    [] OTHER                 -> <<Value(d.expr, syms, pc) % 256>>

(***************************************************************************)
(* The two passes, line by line                                            *)
(***************************************************************************)
D == program[line]

At(p, kinds) == pass = p /\ ~failed /\ line \in DOMAIN program /\ D.kind \in kinds
Done == line' = line + 1 /\ UNCHANGED <<program, pass, failed>>
Fail == failed' = TRUE /\ UNCHANGED <<program, pass, line, pc, syms, memory>>

With(name, value) ==
  IF name = NoName THEN syms
  ELSE [n \in DOMAIN syms \cup {name} |-> IF n = name THEN value ELSE syms[n]]
Labelled == With(D.label, pc)

Equate ==
  /\ At(1, {"equ"})
  /\ IF Defined(D.expr, syms)
     THEN syms' = With(D.label, Value(D.expr, syms, pc)) /\ Done /\ UNCHANGED <<pc, memory>>
     ELSE Fail

(* .org and .fill need their symbol in the first pass *)
Place ==
  /\ At(1, {"org", "fill"})
  /\ IF ~Defined(D.expr, Labelled) THEN Fail
     ELSE LET value == Value(D.expr, Labelled, pc)
          IN  /\ syms' = Labelled
              /\ pc' = IF D.kind = "org" THEN value ELSE pc + value
              /\ Done /\ UNCHANGED memory

Measure ==
  /\ At(1, {"byte", "word", "ins"})
  /\ syms' = Labelled
  /\ pc' = pc + CASE D.kind = "byte" -> 1 [] D.kind = "word" -> 2 [] OTHER -> Size(D, Labelled, pc)
  /\ Done /\ UNCHANGED <<memory>>

SecondPass ==
  /\ pass = 1 /\ ~failed /\ line > Len(program)
  /\ pass' = 2 /\ line' = 1 /\ pc' = 0
  /\ UNCHANGED <<program, syms, memory, failed>>

Emit(bytes) ==
  /\ LET new == pc .. pc + Len(bytes) - 1
     IN  memory' = [a \in DOMAIN memory \cup new |->
                      IF a \in new THEN bytes[a - pc + 1] ELSE memory[a]]
  /\ pc' = pc + Len(bytes)
  /\ Done /\ UNCHANGED syms

Skip == At(2, {"equ"}) /\ Done /\ UNCHANGED <<pc, syms, memory>>

Replace ==
  /\ At(2, {"org"})
  /\ pc' = Value(D.expr, syms, pc)
  /\ Done /\ UNCHANGED <<syms, memory>>

EmitDataUncut ==
  /\ At(2, {"byte", "word", "fill"})
  /\ Emit(IF D.kind = "fill" THEN [i \in 1 .. Value(D.expr, syms, pc) |-> 0] ELSE <<Value(D.expr, syms, pc)>>)

EmitData ==
  /\ At(2, {"byte", "word", "fill"})
  /\ IF ~Defined(D.expr, syms) THEN Fail
     ELSE LET value == Value(D.expr, syms, pc)
          IN  Emit(CASE D.kind = "byte" -> <<value % 256>>
                     [] D.kind = "word" -> <<value % 256, (value \div 256) % 256>>
                     [] OTHER           -> [i \in 1 .. value |-> 0])

EmitInstruction ==
  /\ At(2, {"ins"})
  /\ LET mode == ModeOf(D, syms, pc)
     IN  IF \/ D.hint \notin {"imp", "acc"} /\ ~Defined(D.expr, syms)
            \/ mode = "rel" /\ Offset(D) \notin -128 .. 127
            \/ ~Has(D.mn, mode)
         THEN Fail
         ELSE Emit(<<Code(D.mn, mode)>> \o Operand(D, mode))

Init ==
  /\ program \in Programs
  /\ pass = 1 /\ line = 1 /\ pc = 0
  /\ syms = <<>> /\ memory = <<>> /\ failed = FALSE

Next ==
  \/ Equate \/ Place \/ Measure \/ SecondPass
  \/ Skip \/ Replace \/ EmitData \/ EmitInstruction

Spec == Init /\ [][Next]_vars

-----------------------------------------------------------------------------
(* Types: what is emitted is bytes (asm.py 391).                           *)
TypeOK ==
  /\ pass \in {1, 2} /\ line \in 1 .. Len(program) + 1 /\ pc \in Int
  /\ \A n \in DOMAIN syms : syms[n] \in Int
  /\ \A a \in DOMAIN memory : memory[a] \in Byte
  /\ failed \in BOOLEAN

(* Every label is where the first pass said it would be, in each source    *)
(* that defines a name once, names no operand in page 0 before defining it *)
(* and counts no .fill below zero: the two passes size the same line from  *)
(* different symbol tables, asm.py 432, 436, 469 and 553-570.              *)
Names(i) == program[i].label
NamedTooSoon(i) ==
  LET d == program[i]
  IN  /\ d.kind = "ins" /\ Sized(d) /\ Has(d.mn, ZeroPage(d.hint))
      /\ \E j \in i + 1 .. Len(program) : Names(j) = d.expr.sym /\ d.expr.sym # NoName
      /\ InPage0(d.expr, syms, pc)
FillsBack(i) ==
  LET d == program[i]
  IN  /\ d.kind = "fill"
      /\ d.expr.sym = Here \/ (Defined(d.expr, syms) /\ Value(d.expr, syms, pc) < 0)
Careful ==
  /\ \A i, j \in DOMAIN program : i # j => Names(i) # Names(j) \/ Names(i) = NoName
  /\ \A i \in DOMAIN program : ~NamedTooSoon(i) /\ ~FillsBack(i)

LabelsLand ==
  At(2, {"org", "byte", "word", "fill", "ins"}) /\ D.label # NoName /\ Careful
    => syms[D.label] = pc

(* What is emitted reads back, through the disassembler of m6502, as what  *)
(* was written: the operation, a mode the operand allows, and its value.   *)
ByteOf(m, a) == IF a \in DOMAIN m THEN m[a] ELSE 0
ShownIn(m, a) == Shown(a, ByteOf(m, a), ByteOf(m, a + 1), ByteOf(m, a + 2))
Allows(hint) ==
  CASE hint = "imp"   -> {"imp", "acc"}
    [] hint = "x"     -> {"zpx", "absx"}
    [] hint = "y"     -> {"zpy", "absy"}
    [] hint = "plain" -> {"zp", "abs", "rel"}
    [] OTHER          -> {hint}

ReadAsWritten ==
  EmitInstruction /\ ~failed' =>
    LET shown == ShownIn(memory', pc)
        value == Value(D.expr, syms, pc)
    IN  /\ shown.mn = D.mn /\ shown.mode \in Allows(D.hint) /\ shown.len = pc' - pc
        /\ shown.mode \in {"rel", "abs", "absx", "absy", "ind"} => shown.value = value % 65536
        /\ shown.mode \in {"zp", "zpx", "zpy"} => shown.value = value
        /\ shown.mode \in {"imm", "indx", "indy"} => shown.value = value % 256

ReadsBack == [][ReadAsWritten]_vars

(* The inline assembler of the monitor makes of the same instruction, its  *)
(* value a word typed with as few digits as it needs, one that reads the   *)
(* same; it turns down only branches and what the documented set lacks.    *)
Inline == INSTANCE LineAssembler
Form(hint) ==
  CASE hint = "imp" -> "none" [] hint = "acc" -> "A" [] hint = "imm" -> "#"
    [] hint = "indx" -> "(x)" [] hint = "indy" -> "(y)" [] hint = "ind" -> "()" [] OTHER -> hint

AssembledInline ==
  EmitInstruction /\ ~failed' =>
    LET value == Value(D.expr, syms, pc)
        bytes == Inline!asm_line(pc, D.mn, Form(D.hint), value, value > 255)
        ours  == ShownIn(memory', pc)
    IN  value \in Word =>
          IF bytes = <<>>
          THEN D.mn \in Branches \/ Inline!Entries(D.mn, ours.mode) = {}
          ELSE Shown(pc, ByteOf(bytes, 1), ByteOf(bytes, 2), ByteOf(bytes, 3)) = ours

AssemblersAgree == [][AssembledInline]_vars
=============================================================================
