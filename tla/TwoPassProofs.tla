--------------------------- MODULE TwoPassProofs ---------------------------
(***************************************************************************)
(* Proofs about the two-pass assembler, for every set of sources: what it  *)
(* emits is bytes, in a careful source every label is where the first pass *)
(* said, what is emitted reads back as what was written, and the inline    *)
(* assembler makes the same of it.  No bound of any kind is assumed.       *)
(***************************************************************************)
EXTENDS TwoPass, TLAPS, SequenceTheorems, NaturalsInduction, WellFoundedInduction

(***************************************************************************)
(* Expressions and sizes, under a part of the symbols                      *)
(***************************************************************************)
Ints(s) == \A x \in DOMAIN s : s[x] \in Int

LEMMA ValueType ==
  ASSUME NEW e \in Expr, NEW s, Ints(s), Defined(e, s), NEW a \in Int
  PROVE  Value(e, s, a) \in Int
<1> DEFINE atom == CASE e.sym = NoName -> 0 [] e.sym = Here -> a [] OTHER -> s[e.sym]
<1>1. e.plus \in Int /\ e.part \in {"word", "low", "high"}
  BY DEF Expr
<1>2. atom \in Int
  <2>1. CASE e.sym = NoName
    BY <2>1
  <2>2. CASE e.sym = Here
    BY <2>2 DEF NoName, Here
  <2>3. CASE e.sym \notin {NoName, Here}
    <3>1. s[e.sym] \in Int
      BY <2>3 DEF Defined, Ints
    <3> QED BY <2>3, <3>1
  <2> QED BY <2>1, <2>2, <2>3
<1>3. Value(e, s, a) = e.plus + CASE e.part = "word" -> atom
                                  [] e.part = "low"  -> atom % 256
                                  [] e.part = "high" -> (atom \div 256) % 256
  BY DEF Value
<1> HIDE DEF atom
<1>4. atom % 256 \in Int /\ (atom \div 256) % 256 \in Int
  BY <1>2
<1> QED BY <1>1, <1>2, <1>3, <1>4

(* The symbols of s named in N.                                            *)
Part(s, N) == [x \in N |-> s[x]]

LEMMA PartValue ==
  ASSUME NEW e, NEW s, NEW N, N \subseteq DOMAIN s, NEW a
  PROVE  /\ Defined(e, Part(s, N)) <=> e.sym \in {NoName, Here} \cup N
         /\ Defined(e, Part(s, N)) =>
              Defined(e, s) /\ Value(e, Part(s, N), a) = Value(e, s, a)
<1>1. Defined(e, Part(s, N)) <=> e.sym \in {NoName, Here} \cup N
  BY DEF Part, Defined
<1>2. ASSUME Defined(e, Part(s, N))
      PROVE  Defined(e, s) /\ Value(e, Part(s, N), a) = Value(e, s, a)
  <2>1. Defined(e, s)
    BY <1>1, <1>2 DEF Defined
  <2>2. e.sym \notin {NoName, Here} => Part(s, N)[e.sym] = s[e.sym]
    BY <1>1, <1>2 DEF Part
  <2>3. (CASE e.sym = NoName -> 0 [] e.sym = Here -> a [] OTHER -> Part(s, N)[e.sym])
          = (CASE e.sym = NoName -> 0 [] e.sym = Here -> a [] OTHER -> s[e.sym])
    BY <2>2 DEF NoName, Here
  <2> QED BY <2>1, <2>3 DEF Value
<1> QED BY <1>1, <1>2

(* The two passes choose the same mode for an instruction unless a symbol  *)
(* of page 0 is defined after it.                                          *)
LEMMA PartMode ==
  ASSUME NEW d, NEW s, NEW N, N \subseteq DOMAIN s, NEW a,
         ~ (/\ Sized(d) /\ Has(d.mn, ZeroPage(d.hint))
            /\ InPage0(d.expr, s, a) /\ ~Defined(d.expr, Part(s, N)))
  PROVE  ModeOf(d, Part(s, N), a) = ModeOf(d, s, a)
<1>1. CASE Sized(d)
  <2>1. Has(d.mn, ZeroPage(d.hint)) =>
          (InPage0(d.expr, Part(s, N), a) <=> InPage0(d.expr, s, a))
    BY <1>1, PartValue DEF InPage0
  <2>2. Chosen(d, Part(s, N), a) = Chosen(d, s, a)
    BY <2>1 DEF Chosen
  <2> QED BY <2>2 DEF ModeOf
<1>2. CASE ~Sized(d)
  BY <1>2 DEF ModeOf
<1> QED BY <1>1, <1>2

(***************************************************************************)
(* The layout: where each line is                                          *)
(***************************************************************************)
Unique == \A i, j \in DOMAIN program : i # j => Names(i) # Names(j) \/ Names(i) = NoName

Sofar(n) == {Names(i) : i \in 1 .. n} \ {NoName}
Known(s, n) == Part(s, Sofar(n))

(* where line d at address a ends, with the symbols s *)
After(d, s, a) ==
  CASE d.kind = "equ"  -> a
    [] d.kind = "org"  -> Value(d.expr, s, a)
    [] d.kind = "fill" -> a + Value(d.expr, s, a)
    [] d.kind = "byte" -> a + 1
    [] d.kind = "word" -> a + 2
    [] d.kind = "ins"  -> a + Size(d, s, a)

(* line j, at f[j], as the first pass measured it when the final symbols   *)
(* are s                                                                   *)
LaidLine(f, s, j) ==
  /\ Names(j) # NoName /\ program[j].kind # "equ" => s[Names(j)] = f[j]
  /\ program[j].kind \in {"org", "fill"} => Defined(program[j].expr, Known(s, j))
  /\ f[j + 1] = After(program[j], Known(s, j), f[j])

Layout(f, s, n) == f[1] = 0 /\ \A j \in 1 .. n - 1 : LaidLine(f, s, j)

Passed == IF pass = 1 THEN line - 1 ELSE Len(program)

(* pc and the values of the symbols are integers, the symbols are those of *)
(* the lines the first pass has done with, and those lines found theirs    *)
Symbols == DOMAIN syms = Sofar(Passed) /\ syms = [x \in DOMAIN syms |-> syms[x]]
Resolved ==
  \A j \in 1 .. Passed : program[j].kind \in {"org", "fill"} => Defined(program[j].expr, syms)
Values == pc \in Int /\ Ints(syms)

LaidOut ==
  IF pass = 1 THEN \E f : Layout(f, syms, line) /\ f[line] = pc
  ELSE \E f : Layout(f, syms, Len(program) + 1) /\ (Careful => f[line] = pc)

SourceType ==
  /\ program \in Seq(SourceLine)
  /\ pass \in {1, 2} /\ line \in 1 .. Len(program) + 1

Output == failed \in BOOLEAN /\ \A a \in DOMAIN memory : memory[a] \in Byte

SourceInv == SourceType /\ Symbols /\ Resolved /\ Values /\ Output

LayoutInv == SourceInv /\ (Unique => LaidOut)

LEMMA LineType ==
  ASSUME SourceType, NEW i \in DOMAIN program
  PROVE  /\ i \in 1 .. Len(program) /\ Len(program) \in Nat
         /\ program[i] \in SourceLine
         /\ program[i].expr \in Expr /\ program[i].label # Here
         /\ program[i].kind \in {"equ", "org", "fill", "byte", "word", "ins"}
<1>1. i \in 1 .. Len(program) /\ Len(program) \in Nat /\ program[i] \in SourceLine
  BY LenProperties DEF SourceType
<1> QED BY <1>1 DEF SourceLine

LEMMA SofarGrows ==
  ASSUME NEW n \in Nat, n > 0
  PROVE  /\ Sofar(n) = IF Names(n) = NoName THEN Sofar(n - 1) ELSE Sofar(n - 1) \cup {Names(n)}
         /\ \A j \in 1 .. n : Sofar(j) \subseteq Sofar(n)
<1>1. 1 .. n = (1 .. n - 1) \cup {n}
  OBVIOUS
<1>2. {Names(i) : i \in 1 .. n} = {Names(i) : i \in 1 .. n - 1} \cup {Names(n)}
  BY <1>1
<1>3. Sofar(n) = IF Names(n) = NoName THEN Sofar(n - 1) ELSE Sofar(n - 1) \cup {Names(n)}
  BY <1>2 DEF Sofar
<1>4. ASSUME NEW j \in 1 .. n
      PROVE  Sofar(j) \subseteq Sofar(n)
  <2>1. 1 .. j \subseteq 1 .. n
    OBVIOUS
  <2> QED BY <2>1 DEF Sofar
<1> QED BY <1>3, <1>4

Fcn(s) == s = [x \in DOMAIN s |-> s[x]]
Given(s, name, v) ==
  IF name = NoName THEN s ELSE [x \in DOMAIN s \cup {name} |-> IF x = name THEN v ELSE s[x]]

(* Defining the label of the line n + 1 leaves the lines before as they    *)
(* were.                                                                   *)
LEMMA EarlierStay ==
  ASSUME SourceType, Unique, NEW n \in DOMAIN program, NEW s, DOMAIN s = Sofar(n - 1),
         Fcn(s), NEW v, NEW t, t = Given(s, Names(n), v)
  PROVE  /\ DOMAIN t = Sofar(n) /\ Known(t, n) = t
         /\ Names(n) # NoName => t[Names(n)] = v
         /\ \A j \in 1 .. n - 1 : /\ Known(t, j) = Known(s, j)
                                  /\ Names(j) # NoName => t[Names(j)] = s[Names(j)]
<1>0. s = [x \in DOMAIN s |-> s[x]] /\ t = IF Names(n) = NoName THEN s
        ELSE [x \in DOMAIN s \cup {Names(n)} |-> IF x = Names(n) THEN v ELSE s[x]]
  BY DEF Fcn, Given
<1>1. n \in 1 .. Len(program) /\ Len(program) \in Nat /\ DOMAIN program = 1 .. Len(program)
  BY LineType, LenProperties DEF SourceType
<1>2. Sofar(n) = IF Names(n) = NoName THEN Sofar(n - 1) ELSE Sofar(n - 1) \cup {Names(n)}
  BY <1>1, SofarGrows
<1>3. DOMAIN t = Sofar(n) /\ (Names(n) # NoName => t[Names(n)] = v)
  BY <1>0, <1>2
<1>4. Names(n) = NoName => t = s
  BY <1>0
<1>5. \A x \in Sofar(n - 1) : x # Names(n) => t[x] = s[x]
  BY <1>0
<1>6. t = [x \in DOMAIN t |-> t[x]]
  <2>1. CASE Names(n) = NoName
    BY <1>0, <2>1
  <2>2. CASE Names(n) # NoName
    BY <1>0, <2>2
  <2> QED BY <2>1, <2>2
<1>7. Known(t, n) = t
  BY <1>3, <1>6 DEF Known, Part
<1>8. ASSUME NEW j \in 1 .. n - 1
      PROVE  /\ Known(t, j) = Known(s, j)
             /\ Names(j) # NoName => t[Names(j)] = s[Names(j)]
  <2>1. \A i \in 1 .. n - 1 : Names(i) # NoName => Names(i) # Names(n)
    BY <1>1 DEF Unique
  <2>2. \A i \in 1 .. n - 1 : Names(i) # NoName => Names(i) \in Sofar(n - 1)
    BY DEF Sofar
  <2>3. \A i \in 1 .. n - 1 : Names(i) # NoName => t[Names(i)] = s[Names(i)]
    BY <2>1, <2>2, <1>5
  <2>4. \A x \in Sofar(j) : t[x] = s[x]
    <3>1. 1 .. j \subseteq 1 .. n - 1
      BY <1>1
    <3> QED BY <3>1, <2>3 DEF Sofar
  <2>5. Known(t, j) = Known(s, j)
    BY <2>4 DEF Known, Part
  <2> QED BY <2>3, <2>5
<1>9. 1 .. n - 1 \subseteq DOMAIN program
  BY <1>1
<1> QED BY <1>3, <1>7, <1>8

(* Init: nothing is laid.                                                  *)
LEMMA EmptySymbols == <<>> = [x \in DOMAIN <<>> |-> <<>>[x]] /\ DOMAIN <<>> = {}
OBVIOUS

(***************************************************************************)
(* Types                                                                   *)
(***************************************************************************)
LEMMA DefinedGrows ==
  ASSUME NEW e, NEW s, NEW t, DOMAIN s \subseteq DOMAIN t, Defined(e, s)
  PROVE  Defined(e, t)
BY DEF Defined

(* A line of the first pass gives its label an integer.                    *)
LEMMA FirstPassLine ==
  ASSUME SourceInv, pass = 1, line \in DOMAIN program, NEW v \in Int,
         syms' = With(D.label, v), Done,
         D.kind \in {"org", "fill"} => Defined(D.expr, syms')
  PROVE  SourceType' /\ Symbols' /\ Resolved' /\ Ints(syms')
<1>1. line \in 1 .. Len(program) /\ Len(program) \in Nat
  BY LineType DEF SourceInv
<1>2. /\ line' = line + 1 /\ pass' = 1 /\ program' = program
      /\ Passed = line - 1 /\ Passed' = line
  BY <1>1 DEF Done, Passed
<1>3. SourceType'
  BY <1>1, <1>2 DEF SourceInv, SourceType
<1>4. Sofar(Passed)' = Sofar(line)
  BY <1>2 DEF Sofar, Names
<1>5. Sofar(line) = IF Names(line) = NoName THEN Sofar(line - 1) ELSE Sofar(line - 1) \cup {Names(line)}
  BY <1>1, SofarGrows
<1>6. DOMAIN syms = Sofar(line - 1) /\ syms = [x \in DOMAIN syms |-> syms[x]]
  BY <1>2 DEF SourceInv, Symbols
<1>7. Names(line) = D.label
  BY DEF Names, D
<1>8. syms' = IF D.label = NoName THEN syms
              ELSE [n \in DOMAIN syms \cup {D.label} |-> IF n = D.label THEN v ELSE syms[n]]
  BY DEF With
<1>9. DOMAIN syms' = Sofar(line)
  BY <1>5, <1>6, <1>7, <1>8
<1>10. syms' = [x \in DOMAIN syms' |-> syms'[x]]
  <2>1. CASE D.label = NoName
    BY <2>1, <1>6, <1>8
  <2>2. CASE D.label # NoName
    BY <2>2, <1>8
  <2> QED BY <2>1, <2>2
<1>11. Symbols'
  BY <1>4, <1>9, <1>10 DEF Symbols
<1>12. Ints(syms')
  <2>1. Ints(syms)
    BY DEF SourceInv, Values
  <2>2. CASE D.label = NoName
    BY <2>1, <2>2, <1>8
  <2>3. CASE D.label # NoName
    BY <2>1, <2>3, <1>8 DEF Ints
  <2> QED BY <2>2, <2>3
<1>13. Resolved'
  <2>1. ASSUME NEW j \in 1 .. line, program[j].kind \in {"org", "fill"}
        PROVE  Defined(program[j].expr, syms')
    <3>1. CASE j = line
      BY <3>1, <2>1 DEF D
    <3>2. CASE j # line
      <4>1. j \in 1 .. Passed
        BY <1>1, <1>2, <3>2
      <4>2. Defined(program[j].expr, syms)
        BY <4>1, <2>1 DEF SourceInv, Resolved
      <4>3. DOMAIN syms \subseteq DOMAIN syms'
        BY <1>8
      <4> QED BY <4>2, <4>3, DefinedGrows
    <3> QED BY <3>1, <3>2
  <2> QED BY <2>1, <1>2 DEF Resolved
<1>14. Ints(syms)' <=> Ints(syms')
  BY DEF Ints
<1> QED BY <1>3, <1>11, <1>12, <1>13

(* A line of the second pass.                                              *)
LEMMA SecondPassLine ==
  ASSUME SourceInv, pass = 2, line \in DOMAIN program, Done, UNCHANGED syms
  PROVE  SourceType' /\ Symbols' /\ Resolved'
<1>1. line \in 1 .. Len(program) /\ Len(program) \in Nat
  BY LineType DEF SourceInv
<1>2. /\ line' = line + 1 /\ pass' = 2 /\ program' = program /\ syms' = syms
      /\ Passed = Len(program) /\ Passed' = Len(program)
  BY <1>1 DEF Done, Passed
<1>3. SourceType'
  BY <1>1, <1>2 DEF SourceInv, SourceType
<1>4. Sofar(Passed)' = Sofar(Passed)
  BY <1>2 DEF Sofar, Names
<1>5. Symbols'
  BY <1>2, <1>4 DEF SourceInv, Symbols
<1>6. Resolved'
  BY <1>2 DEF SourceInv, Resolved
<1> QED BY <1>3, <1>5, <1>6

(***************************************************************************)
(* Bytes                                                                   *)
(***************************************************************************)
LEMMA LowByte ==
  ASSUME NEW v \in Int
  PROVE  v % 256 \in Byte /\ v \div 256 \in Int
BY DEF Byte

LEMMA Least ==
  ASSUME NEW T, T \subseteq Nat, T # {}
  PROVE  \E x \in T : \A y \in T : x <= y
<1>1. PICK R : R = OpToRel(<, Nat)
  OBVIOUS
<1>2. \A a, b \in Nat : a < b => <<a, b>> \in R
  BY <1>1 DEF OpToRel
<1>3. IsWellFoundedOn(R, Nat)
  BY <1>1, NatLessThanWellFounded
<1>4. PICK x \in T : \A y \in T : ~ (<<y, x>> \in R)
  BY <1>3, WFMin
<1>5. \A y \in T : ~ (y < x)
  BY <1>2, <1>4
<1> QED BY <1>4, <1>5

(* What is further from the end comes first.                               *)
LEMMA Reversed ==
  ASSUME NEW n \in Int, NEW i \in Int, NEW j \in Int, n - i <= n - j
  PROVE  i >= j
OBVIOUS

(* The code chosen for an operation and a mode is one that means them.     *)
LEMMA CodeMeans ==
  ASSUME NEW mn, NEW mode, Has(mn, mode)
  PROVE  Code(mn, mode) \in Opcode /\ Operation(Code(mn, mode)) = mn /\ Mode(Code(mn, mode)) = mode
<1> DEFINE I == Encodings(mn, mode)
           T == {255 - i : i \in I}
<1>0. I \subseteq 0 .. 255 /\ I # {}
  BY DEF Encodings, Has, Opcode, Byte
<1> HIDE DEF I
<1>1. T \subseteq Nat /\ T # {}
  <2>1. \A i \in I : 255 - i \in Nat
    BY <1>0
  <2>2. PICK i \in I : TRUE
    BY <1>0
  <2>3. 255 - i \in T
    OBVIOUS
  <2> QED BY <2>1, <2>3
<1>2. PICK x \in T : \A y \in T : x <= y
  BY <1>1, Least
<1>3. PICK i \in I : x = 255 - i
  OBVIOUS
<1>4. \A j \in I : 255 - i <= 255 - j
  BY <1>2, <1>3
<1>5. ASSUME NEW j \in I PROVE i >= j
  <2> HIDE DEF T
  <2>1. i \in Int /\ j \in Int
    BY <1>0
  <2>2. 255 - i <= 255 - j
    BY <1>4
  <2> QED BY <2>1, <2>2, Reversed
<1>6. Max(I) = CHOOSE m \in I : \A j \in I : m >= j
  BY DEF Max
<1>7. Max(I) \in I
  BY <1>5, <1>6
<1> QED BY <1>7 DEF I, Code, Encodings, g_mn

(* What Emit puts in memory are the bytes it was given.                    *)
LEMMA Emitted ==
  ASSUME NEW bytes \in Seq(Byte), pc \in Int, Emit(bytes), Output,
         failed' = failed
  PROVE  pc' = pc + Len(bytes) /\ pc' \in Int /\ Output'
<1>1. Len(bytes) \in Nat /\ \A i \in 1 .. Len(bytes) : bytes[i] \in Byte
  BY LenProperties, ElementOfSeq
<1>2. pc' = pc + Len(bytes) /\ pc' \in Int
  BY <1>1 DEF Emit
<1> DEFINE new == pc .. pc + Len(bytes) - 1
<1>3. memory' = [a \in DOMAIN memory \cup new |-> IF a \in new THEN bytes[a - pc + 1] ELSE memory[a]]
  BY DEF Emit
<1>4. ASSUME NEW a \in DOMAIN memory'
      PROVE  memory'[a] \in Byte
  <2>1. CASE a \in new
    <3>1. a - pc + 1 \in 1 .. Len(bytes)
      BY <1>1, <2>1
    <3>2. memory'[a] = bytes[a - pc + 1]
      BY <1>3, <2>1
    <3> QED BY <1>1, <3>1, <3>2
  <2>2. CASE a \notin new
    BY <1>3, <2>2 DEF Output
  <2> QED BY <2>1, <2>2
<1> QED BY <1>2, <1>4 DEF Output

LEMMA OperandBytes ==
  ASSUME NEW d \in SourceLine, NEW mode, pc \in Int,
         OperandSize(mode) # 0 => Value(d.expr, syms, pc) \in Int
  PROVE  /\ Operand(d, mode) \in Seq(Byte)
         /\ Len(Operand(d, mode)) = OperandSize(mode)
<1> DEFINE v == Value(d.expr, syms, pc)
           none == <<>>
           offset == <<Offset(d) % 256>>
           short == <<v % 256>>
           long == <<v % 256, (v \div 256) % 256>>
<1>1. Operand(d, mode) = CASE OperandSize(mode) = 0 -> none
                           [] mode = "rel"          -> offset
                           [] OperandSize(mode) = 2 -> long
                           [] OTHER                 -> short
  BY Zenon DEF Operand
<1>2. none \in Seq(Byte) /\ Len(none) = 0
  BY EmptySeq
<1>3. OperandSize(mode) \in {0, 1, 2} /\ (mode = "rel" => OperandSize(mode) = 1)
  BY DEF OperandSize
<1>4. CASE OperandSize(mode) = 0
  <2> HIDE DEF none, offset, short, long
  <2>1. Operand(d, mode) = none
    BY <1>1, <1>3, <1>4
  <2> QED BY <1>2, <1>4, <2>1
<1>5. CASE OperandSize(mode) # 0
  <2>1. v \in Int
    BY <1>5
  <2>2. offset = <<(v - (pc + 2)) % 256>>
    BY DEF Offset
  <2> HIDE DEF v, none, offset
  <2>3. v % 256 \in Byte /\ v \div 256 \in Int /\ (v \div 256) % 256 \in Byte /\ (v - (pc + 2)) % 256 \in Byte
    BY <2>1, LowByte
  <2>4. /\ short \in Seq(Byte) /\ Len(short) = 1
        /\ offset \in Seq(Byte) /\ Len(offset) = 1
        /\ long \in Seq(Byte) /\ Len(long) = 2
    BY <2>2, <2>3
  <2> HIDE DEF short, long
  <2>5. Operand(d, mode) \in {offset, short, long} /\ Len(Operand(d, mode)) = OperandSize(mode)
    BY <1>1, <1>3, <1>5, <2>4
  <2> QED BY <2>4, <2>5
<1> QED BY <1>4, <1>5

(* What an instruction emits, where it assembles.                          *)
Assembled(mode) == <<Code(D.mn, mode)>> \o Operand(D, mode)

LEMMA InstructionBytes ==
  ASSUME SourceInv, EmitInstruction, failed' = failed
  PROVE  LET mode == ModeOf(D, syms, pc)
         IN  /\ Emit(Assembled(mode)) /\ Assembled(mode) \in Seq(Byte)
             /\ Len(Assembled(mode)) = Size(D, syms, pc)
             /\ Has(D.mn, mode)
             /\ D.hint \in {"imp", "acc"} \/ (Defined(D.expr, syms) /\ Value(D.expr, syms, pc) \in Int)
             /\ mode = "rel" => Offset(D) \in -128 .. 127
<1> DEFINE mode == ModeOf(D, syms, pc)
<1>1. /\ ~failed /\ line \in DOMAIN program /\ D.kind = "ins" /\ SourceType
      /\ pc \in Int /\ Ints(syms)
  BY DEF EmitInstruction, At, SourceInv, Values
<1>2. D \in SourceLine /\ D.expr \in Expr
  BY <1>1, LineType DEF D
<1>3. ~failed'
  BY <1>1
<1>4. /\ D.hint \in {"imp", "acc"} \/ Defined(D.expr, syms)
      /\ mode = "rel" => Offset(D) \in -128 .. 127
      /\ Has(D.mn, mode)
      /\ Emit(Assembled(mode))
  BY <1>3 DEF EmitInstruction, Fail, Assembled
<1>5. D.hint \in {"imp", "acc"} \/ (Defined(D.expr, syms) /\ Value(D.expr, syms, pc) \in Int)
  BY <1>1, <1>2, <1>4, ValueType
<1>6. D.hint \in {"imp", "acc"} => OperandSize(mode) = 0
  BY DEF ModeOf, Sized, OperandSize
<1> HIDE DEF mode
<1>7. Operand(D, mode) \in Seq(Byte) /\ Len(Operand(D, mode)) = OperandSize(mode)
  BY <1>1, <1>2, <1>5, <1>6, OperandBytes
<1>8. Code(D.mn, mode) \in Byte
  BY <1>4, CodeMeans DEF Opcode
<1>9. <<Code(D.mn, mode)>> \in Seq(Byte) /\ Len(<<Code(D.mn, mode)>>) = 1
  BY <1>8
<1>10. /\ Assembled(mode) \in Seq(Byte)
       /\ Len(Assembled(mode)) = Len(<<Code(D.mn, mode)>>) + Len(Operand(D, mode))
  BY <1>7, <1>9, ConcatProperties DEF Assembled
<1>11. Len(Assembled(mode)) = Size(D, syms, pc)
  BY <1>7, <1>9, <1>10 DEF Size, mode
<1> QED BY <1>4, <1>5, <1>10, <1>11 DEF mode

LEMMA DataBytes ==
  ASSUME SourceInv, EmitData, failed' = failed
  PROVE  LET value == Value(D.expr, syms, pc)
         IN  /\ Defined(D.expr, syms) /\ value \in Int
             /\ \E bytes \in Seq(Byte) :
                  /\ Emit(bytes)
                  /\ D.kind = "byte" => Len(bytes) = 1
                  /\ D.kind = "word" => Len(bytes) = 2
                  /\ D.kind = "fill" /\ value >= 0 => Len(bytes) = value
<1> DEFINE value == Value(D.expr, syms, pc)
           zeros == [i \in 1 .. value |-> 0]
           one == <<value % 256>>
           two == <<value % 256, (value \div 256) % 256>>
<1>1. /\ ~failed /\ line \in DOMAIN program /\ D.kind \in {"byte", "word", "fill"} /\ SourceType
      /\ pc \in Int /\ Ints(syms)
  BY DEF EmitData, At, SourceInv, Values
<1>2. D.expr \in Expr
  BY <1>1, LineType DEF D
<1>3. ~failed'
  BY <1>1
<1>4. Defined(D.expr, syms)
  BY <1>3 DEF EmitData, Fail
<1>5. Emit(CASE D.kind = "byte" -> one [] D.kind = "word" -> two [] OTHER -> zeros)
  BY <1>3, <1>4 DEF EmitData, Fail
<1>6. value \in Int
  BY <1>1, <1>2, <1>4, ValueType
<1> HIDE DEF value
<1>7. value % 256 \in Byte /\ (value \div 256) % 256 \in Byte /\ 0 \in Byte
  <2>1. value % 256 \in Byte /\ value \div 256 \in Int
    BY <1>6, LowByte
  <2>2. (value \div 256) % 256 \in Byte
    BY <2>1, LowByte
  <2> QED BY <2>1, <2>2 DEF Byte
<1>8. one \in Seq(Byte) /\ Len(one) = 1 /\ two \in Seq(Byte) /\ Len(two) = 2
  BY <1>7
<1>9. zeros \in Seq(Byte) /\ (value >= 0 => Len(zeros) = value)
  <2>1. CASE value >= 0
    <3>1. value \in Nat /\ \A i \in 1 .. value : 0 \in Byte
      BY <1>6, <1>7, <2>1
    <3> QED BY <3>1, IsASeq
  <2>2. CASE value < 0
    <3>1. 1 .. value = 1 .. 0
      BY <1>6, <2>2
    <3>2. zeros = [i \in 1 .. 0 |-> 0]
      BY <3>1
    <3>3. [i \in 1 .. 0 |-> 0] \in Seq(Byte)
      BY <1>7, IsASeq
    <3> QED BY <1>6, <2>2, <3>2, <3>3
  <2> QED BY <1>6, <2>1, <2>2
<1> HIDE DEF zeros, one, two
<1>10. CASE D.kind = "byte"
  BY <1>4, <1>5, <1>6, <1>8, <1>10 DEF value
<1>11. CASE D.kind = "word"
  BY <1>4, <1>5, <1>6, <1>8, <1>11 DEF value
<1>12. CASE D.kind = "fill"
  BY <1>4, <1>5, <1>6, <1>9, <1>12 DEF value
<1> QED BY <1>1, <1>10, <1>11, <1>12

LEMMA SourceStep == SourceInv /\ [Next]_vars => SourceInv'
<1> SUFFICES ASSUME SourceInv, [Next]_vars PROVE SourceInv'
  OBVIOUS
<1> USE DEF D
<1>0. /\ SourceType /\ Symbols /\ Resolved /\ Output /\ pc \in Int /\ Ints(syms)
  BY DEF SourceInv, Values
<1>1. ASSUME Fail PROVE SourceInv'
  BY <1>0, <1>1 DEF Fail, SourceInv, SourceType, Symbols, Resolved, Passed, Values, Ints, Output, Sofar, Names
<1>2. \A p, kinds : At(p, kinds) => /\ pass = p /\ line \in DOMAIN program /\ D.kind \in kinds
                                   /\ D \in SourceLine /\ D.expr \in Expr
  BY <1>0, LineType DEF At
<1>3. CASE Equate
  <2>1. pass = 1 /\ line \in DOMAIN program /\ D.kind = "equ" /\ D.expr \in Expr
    BY <1>2, <1>3 DEF Equate
  <2>2. CASE Defined(D.expr, syms)
    <3>1. Value(D.expr, syms, pc) \in Int
      BY <1>0, <2>1, <2>2, ValueType
    <3>2. syms' = With(D.label, Value(D.expr, syms, pc)) /\ Done /\ UNCHANGED <<pc, memory>>
      BY <1>3, <2>2 DEF Equate
    <3>3. SourceType' /\ Symbols' /\ Resolved' /\ Ints(syms')
      BY <2>1, <3>1, <3>2, FirstPassLine
    <3> QED BY <1>0, <3>2, <3>3 DEF SourceInv, Values, Ints, Output, Done
  <2>3. CASE ~Defined(D.expr, syms)
    BY <1>1, <1>3, <2>3 DEF Equate
  <2> QED BY <2>2, <2>3
<1>4. CASE Place
  <2>1. pass = 1 /\ line \in DOMAIN program /\ D.kind \in {"org", "fill"} /\ D.expr \in Expr
    BY <1>2, <1>4 DEF Place
  <2>2. CASE Defined(D.expr, Labelled)
    <3>1. /\ syms' = Labelled /\ Done /\ memory' = memory
          /\ pc' = IF D.kind = "org" THEN Value(D.expr, Labelled, pc) ELSE pc + Value(D.expr, Labelled, pc)
      BY <1>4, <2>2 DEF Place
    <3>2. SourceType' /\ Symbols' /\ Resolved' /\ Ints(syms')
      BY <1>0, <2>1, <2>2, <3>1, FirstPassLine DEF Labelled
    <3>3. Value(D.expr, Labelled, pc) \in Int
      BY <1>0, <2>1, <2>2, <3>1, <3>2, ValueType
    <3>4. pc' \in Int
      BY <1>0, <3>1, <3>3
    <3> QED BY <1>0, <3>1, <3>2, <3>4 DEF SourceInv, Values, Ints, Output, Done
  <2>3. CASE ~Defined(D.expr, Labelled)
    BY <1>1, <1>4, <2>3 DEF Place
  <2> QED BY <2>2, <2>3
<1>5. CASE Measure
  <2>1. pass = 1 /\ line \in DOMAIN program /\ D.kind \in {"byte", "word", "ins"}
    BY <1>2, <1>5 DEF Measure
  <2>2. /\ syms' = Labelled /\ Done /\ memory' = memory
        /\ pc' = pc + CASE D.kind = "byte" -> 1 [] D.kind = "word" -> 2 [] OTHER -> Size(D, Labelled, pc)
    BY <1>5 DEF Measure
  <2>3. SourceType' /\ Symbols' /\ Resolved' /\ Ints(syms')
    BY <1>0, <2>1, <2>2, FirstPassLine DEF Labelled
  <2>4. Size(D, Labelled, pc) \in Int
    BY DEF Size, OperandSize
  <2>5. pc' \in Int
    BY <1>0, <2>2, <2>4
  <2> QED BY <1>0, <2>2, <2>3, <2>5 DEF SourceInv, Values, Ints, Output, Done
<1>6. CASE SecondPass
  <2>1. /\ program \in Seq(SourceLine) /\ Len(program) \in Nat /\ line \in 1 .. Len(program) + 1
    BY <1>0, LenProperties DEF SourceType
  <2>2. /\ line > Len(program) /\ pass = 1
        /\ pass' = 2 /\ line' = 1 /\ pc' = 0 /\ UNCHANGED <<program, syms, memory, failed>>
    BY <1>6 DEF SecondPass
  <2>3. SourceType'
    BY <2>1, <2>2 DEF SourceType
  <2>4. Passed' = Passed
    BY <2>1, <2>2 DEF Passed
  <2>5. Symbols' /\ Resolved'
    BY <1>0, <2>2, <2>4 DEF Symbols, Resolved, Sofar, Names
  <2> QED BY <1>0, <2>2, <2>3, <2>5 DEF SourceInv, Values, Ints, Output
<1>7. CASE Skip
  <2>1. /\ pass = 2 /\ line \in DOMAIN program /\ Done /\ UNCHANGED <<pc, syms, memory>>
    BY <1>2, <1>7 DEF Skip
  <2>2. SourceType' /\ Symbols' /\ Resolved'
    BY <2>1, SecondPassLine
  <2> QED BY <1>0, <2>1, <2>2 DEF SourceInv, Values, Ints, Output, Done
<1>8. CASE Replace
  <2>1. /\ pass = 2 /\ line \in DOMAIN program /\ D.kind = "org" /\ D.expr \in Expr
        /\ Done /\ UNCHANGED <<syms, memory>>
        /\ pc' = Value(D.expr, syms, pc)
    BY <1>2, <1>8 DEF Replace
  <2>2. SourceType' /\ Symbols' /\ Resolved'
    BY <2>1, SecondPassLine
  <2>3. line \in 1 .. Passed
    BY <1>0, <2>1, LineType DEF Passed
  <2>4. Defined(D.expr, syms)
    BY <1>0, <2>1, <2>3 DEF Resolved
  <2>5. Value(D.expr, syms, pc) \in Int
    BY <1>0, <2>1, <2>4, ValueType
  <2> QED BY <1>0, <2>1, <2>2, <2>5 DEF SourceInv, Values, Ints, Output, Done
<1>9. CASE EmitData
  <2>1. CASE Fail
    BY <1>1, <2>1
  <2>2. CASE ~Fail
    <3>1. pass = 2 /\ line \in DOMAIN program
      BY <1>2, <1>9 DEF EmitData
    <3>2. failed' = failed
      BY <1>9, <2>2 DEF EmitData, Emit, Done
    <3>3. PICK bytes \in Seq(Byte) : Emit(bytes)
      BY <1>9, <3>2, DataBytes
    <3>4. Done /\ UNCHANGED syms
      BY <3>3 DEF Emit
    <3>5. SourceType' /\ Symbols' /\ Resolved'
      BY <3>1, <3>4, SecondPassLine
    <3>6. pc' \in Int /\ Output'
      BY <1>0, <3>2, <3>3, Emitted
    <3> QED BY <1>0, <3>4, <3>5, <3>6 DEF SourceInv, Values, Ints
  <2> QED BY <2>1, <2>2
<1>10. CASE EmitInstruction
  <2>1. CASE Fail
    BY <1>1, <2>1
  <2>2. CASE ~Fail
    <3>1. pass = 2 /\ line \in DOMAIN program
      BY <1>2, <1>10 DEF EmitInstruction
    <3>2. failed' = failed
      BY <1>10, <2>2 DEF EmitInstruction, Emit, Done
    <3>3. PICK bytes \in Seq(Byte) : Emit(bytes)
      BY <1>10, <3>2, InstructionBytes
    <3>4. Done /\ UNCHANGED syms
      BY <3>3 DEF Emit
    <3>5. SourceType' /\ Symbols' /\ Resolved'
      BY <3>1, <3>4, SecondPassLine
    <3>6. pc' \in Int /\ Output'
      BY <1>0, <3>2, <3>3, Emitted
    <3> QED BY <1>0, <3>4, <3>5, <3>6 DEF SourceInv, Values, Ints
  <2> QED BY <2>1, <2>2
<1>11. CASE UNCHANGED vars
  BY <1>0, <1>11 DEF vars, SourceInv, SourceType, Symbols, Resolved, Passed, Values, Ints, Output, Sofar, Names
<1> QED BY <1>3, <1>4, <1>5, <1>6, <1>7, <1>8, <1>9, <1>10, <1>11 DEF Next

LEMMA SourceInit == Init => SourceInv
<1> SUFFICES ASSUME Init PROVE SourceInv
  OBVIOUS
<1>1. program \in Seq(SourceLine)
  BY ProgramsAssumption DEF Init
<1>2. Len(program) \in Nat
  BY <1>1, LenProperties
<1>3. SourceType
  BY <1>1, <1>2 DEF Init, SourceType
<1>4. Passed = 0 /\ Sofar(0) = {}
  BY DEF Init, Passed, Sofar
<1>5. Symbols
  BY <1>4, EmptySymbols DEF Init, Symbols
<1>6. Resolved
  BY <1>4 DEF Resolved
<1>7. Values /\ Output
  <2>1. DOMAIN syms = {} /\ DOMAIN memory = {}
    BY EmptySymbols DEF Init
  <2>2. pc = 0
    BY DEF Init
  <2>5. failed \in BOOLEAN
    BY Zenon DEF Init
  <2>3. Ints(syms)
    BY <2>1 DEF Ints
  <2>4. \A a \in DOMAIN memory : memory[a] \in Byte
    BY <2>1
  <2> QED BY <2>2, <2>3, <2>4, <2>5 DEF Values, Output
<1> QED BY <1>3, <1>5, <1>6, <1>7 DEF SourceInv

(* The symbols and pc are integers throughout and what is emitted is       *)
(* bytes, whatever the second pass refers to: a6502/asm.py 402-543.        *)
THEOREM SourceTypes == Spec => []TypeOK
<1>1. SourceInv => TypeOK
  BY DEF SourceInv, SourceType, Values, Ints, Output, TypeOK
<1> QED BY <1>1, SourceInit, SourceStep, PTL DEF Spec

(***************************************************************************)
(* The layout is kept                                                      *)
(***************************************************************************)
(* Being careful is a matter of the source and the symbols, not of pc.     *)
LEMMA CarefulStays ==
  ASSUME SourceType, UNCHANGED <<program, syms>>
  PROVE  Careful' => Careful
<1>1. ASSUME NEW e, e.sym # Here
      PROVE  Value(e, syms, pc') = Value(e, syms, pc)
  BY <1>1 DEF Value
<1>2. ASSUME Careful', NEW i \in DOMAIN program
      PROVE  ~FillsBack(i) /\ ~NamedTooSoon(i)
  <2> DEFINE d == program[i]
  <2>1. ~FillsBack(i)
    <3>1. ~FillsBack(i)'
      BY <1>2 DEF Careful
    <3>2. d.kind = "fill" => /\ d.expr.sym # Here
                             /\ ~(Defined(d.expr, syms) /\ Value(d.expr, syms, pc') < 0)
      BY <3>1 DEF FillsBack
    <3> QED BY <1>1, <3>2 DEF FillsBack
  <2>2. ~NamedTooSoon(i)
    <3>1. SUFFICES ASSUME NamedTooSoon(i) PROVE FALSE
      OBVIOUS
    <3>2. PICK j \in i + 1 .. Len(program) : Names(j) = d.expr.sym
      BY <3>1 DEF NamedTooSoon
    <3>3. i \in 1 .. Len(program) /\ Len(program) \in Nat
      BY LineType
    <3>4. j \in DOMAIN program
      BY <3>2, <3>3, LenProperties DEF SourceType
    <3>5. d.expr.sym # Here
      BY <3>2, <3>4, LineType DEF Names
    <3>6. Value(d.expr, syms, pc') = Value(d.expr, syms, pc)
      BY <1>1, <3>5
    <3>7. NamedTooSoon(i)'
      BY <3>1, <3>6 DEF NamedTooSoon, InPage0, Names
    <3> QED BY <1>2, <3>7 DEF Careful
  <2> QED BY <2>1, <2>2
<1>3. Careful' => \A i, j \in DOMAIN program : i # j => Names(i) # Names(j) \/ Names(i) = NoName
  BY DEF Careful, Names
<1> QED BY <1>2, <1>3 DEF Careful

(* The first pass lays the line it has reached.                            *)
LEMMA LineLaid ==
  ASSUME SourceInv, pass = 1, line \in DOMAIN program, NEW v,
         syms' = With(D.label, v), Done, Unique, LaidOut,
         D.kind # "equ" => v = pc,
         D.kind \in {"org", "fill"} => Defined(D.expr, syms'),
         pc' = After(D, syms', pc)
  PROVE  LaidOut'
<1>1. line \in 1 .. Len(program) /\ Len(program) \in Nat
  BY LineType DEF SourceInv
<1>2. PICK n : n = line
  OBVIOUS
<1>3. n \in 1 .. Len(program) /\ n \in DOMAIN program /\ D = program[n]
  BY <1>1, <1>2 DEF D
<1>4. line' = n + 1 /\ pass' = 1 /\ program' = program /\ Passed = n - 1
  BY <1>2 DEF Done, Passed
<1>5. PICK f : Layout(f, syms, n) /\ f[n] = pc
  BY <1>2 DEF LaidOut
<1>6. PICK g : g = [j \in 1 .. n + 1 |-> IF j <= n THEN f[j] ELSE pc']
  OBVIOUS
<1>7. /\ DOMAIN syms = Sofar(n - 1) /\ syms = [x \in DOMAIN syms |-> syms[x]]
  BY <1>4 DEF SourceInv, Symbols
<1>8. syms' = IF Names(n) = NoName THEN syms
              ELSE [x \in DOMAIN syms \cup {Names(n)} |-> IF x = Names(n) THEN v ELSE syms[x]]
  BY <1>3 DEF With, Names
<1>9. /\ Known(syms', n) = syms'
      /\ Names(n) # NoName => syms'[Names(n)] = v
      /\ \A j \in 1 .. n - 1 :
           /\ Known(syms', j) = Known(syms, j)
           /\ Names(j) # NoName => syms'[Names(j)] = syms[Names(j)]
  <2>1. SourceType
    BY DEF SourceInv
  <2>6. PICK s, t : s = syms /\ t = syms'
    OBVIOUS
  <2>2. DOMAIN s = Sofar(n - 1) /\ Fcn(s) /\ t = Given(s, Names(n), v)
    BY <1>7, <1>8, <2>6 DEF Fcn, Given
  <2>3. Known(t, n) = t
    BY <1>3, <2>1, <2>2, EarlierStay
  <2>4. Names(n) # NoName => t[Names(n)] = v
    BY <1>3, <2>1, <2>2, EarlierStay
  <2>5. \A j \in 1 .. n - 1 :
          /\ Known(t, j) = Known(s, j)
          /\ Names(j) # NoName => t[Names(j)] = s[Names(j)]
    BY <1>3, <2>1, <2>2, EarlierStay
  <2> QED BY <2>3, <2>4, <2>5, <2>6
<1>10. /\ \A j \in 1 .. n : g[j] = f[j]
       /\ g[n + 1] = pc'
  BY <1>1, <1>2, <1>6
<1>11. \A j \in 1 .. n - 1 : LaidLine(g, syms', j)
  <2> TAKE j \in 1 .. n - 1
  <2>1. LaidLine(f, syms, j)
    BY <1>5 DEF Layout
  <2>2. g[j] = f[j] /\ g[j + 1] = f[j + 1]
    BY <1>1, <1>2, <1>10
  <2> QED BY <1>9, <2>1, <2>2 DEF LaidLine
<1>12. LaidLine(g, syms', n)
  <2>1. g[n] = pc /\ g[n + 1] = pc'
    BY <1>1, <1>2, <1>5, <1>10
  <2> QED BY <1>3, <1>9, <2>1 DEF LaidLine
<1>13. g[1] = 0
  BY <1>1, <1>2, <1>5, <1>10 DEF Layout
<1>14. \A j \in 1 .. n : LaidLine(g, syms', j)
  <2>1. \A j \in 1 .. n : j = n \/ j \in 1 .. n - 1
    BY <1>1, <1>2
  <2> QED BY <1>11, <1>12, <2>1
<1>15. \A j : LaidLine(g, syms, j)' <=> LaidLine(g, syms', j)
  <2> TAKE j
  <2>1. Names(j)' = Names(j) /\ program[j]' = program[j]
    BY <1>4 DEF Names
  <2>2. Known(syms, j)' = Known(syms', j)
    BY <1>4 DEF Known, Part, Sofar, Names
  <2> QED BY <2>1, <2>2 DEF LaidLine
<1>16. (n + 1) - 1 = n
  BY <1>1, <1>2
<1>17. Layout(g, syms, n + 1)'
  BY <1>13, <1>14, <1>15, <1>16 DEF Layout
<1>18. Layout(g, syms, line)' /\ g[line'] = pc'
  BY <1>4, <1>10, <1>17 DEF Layout
<1> QED BY <1>4, <1>18 DEF LaidOut

(* The second pass goes where the first one went.                          *)
LEMMA LineEmitted ==
  ASSUME SourceInv, pass = 2, line \in DOMAIN program, ~failed, LaidOut,
         Done, UNCHANGED syms,
         \A a : Careful /\ a = After(D, Known(syms, line), pc) => pc' = a
  PROVE  LaidOut'
<1>1. line \in 1 .. Len(program) /\ Len(program) \in Nat
  BY LineType DEF SourceInv
<1>2. line' = line + 1 /\ pass' = 2 /\ program' = program /\ syms' = syms
  BY DEF Done
<1>3. PICK f : Layout(f, syms, Len(program) + 1) /\ (Careful => f[line] = pc)
  BY DEF LaidOut
<1>4. Layout(f, syms, Len(program) + 1)'
  BY <1>2, <1>3 DEF Layout, LaidLine, Known, Part, Sofar, Names
<1>5. Careful' => f[line'] = pc'
  <2>1. SUFFICES ASSUME Careful' PROVE f[line'] = pc'
    OBVIOUS
  <2>2. Careful
    BY <1>2, <2>1, CarefulStays DEF SourceInv
  <2>3. LaidLine(f, syms, line)
    BY <1>1, <1>3 DEF Layout
  <2>4. f[line + 1] = After(D, Known(syms, line), pc)
    BY <1>3, <2>2, <2>3 DEF LaidLine, D
  <2> QED BY <1>2, <2>2, <2>4
<1>6. \E g : Layout(g, syms, Len(program) + 1)' /\ (Careful' => g[line'] = pc')
  BY <1>4, <1>5
<1> QED BY <1>2, <1>6 DEF LaidOut

LEMMA SofarIsKnown ==
  ASSUME SourceInv, pass = 2, line \in DOMAIN program
  PROVE  Sofar(line) \subseteq DOMAIN syms
<1>1. line \in 1 .. Len(program) /\ Len(program) \in Nat
  BY LineType DEF SourceInv
<1>2. DOMAIN syms = Sofar(Len(program))
  BY <1>1 DEF SourceInv, Symbols, Passed
<1> QED BY <1>1, <1>2, SofarGrows

LEMMA LayoutStep == LayoutInv /\ SourceInv' /\ [Next]_vars => LayoutInv'
<1> SUFFICES ASSUME LayoutInv, SourceInv', [Next]_vars, Unique' PROVE LaidOut'
  BY DEF LayoutInv
<1>0. /\ SourceInv /\ SourceType /\ pc \in Int /\ Ints(syms)
  BY DEF LayoutInv, SourceInv, Values
<1>1. program' = program
  BY DEF Next, vars, Equate, Place, Measure, SecondPass, Skip, Replace, EmitData, EmitInstruction, Emit, Done, Fail
<1>2. Unique /\ LaidOut
  BY <1>1 DEF LayoutInv, Unique, Names
<1>3. ASSUME UNCHANGED <<program, pass, line, pc, syms>> PROVE LaidOut'
  <2>1. \A f, n : Layout(f, syms, n)' <=> Layout(f, syms, n)
    BY <1>3 DEF Layout, LaidLine, Known, Part, Sofar, Names
  <2>2. Careful' <=> Careful
    BY <1>3 DEF Careful, NamedTooSoon, FillsBack, Names, InPage0
  <2> QED BY <1>2, <1>3, <2>1, <2>2 DEF LaidOut
<1>4. ASSUME Fail PROVE LaidOut'
  BY <1>3, <1>4 DEF Fail
<1>5. \A p, kinds : At(p, kinds) => /\ pass = p /\ line \in DOMAIN program /\ D.kind \in kinds /\ ~failed
                                   /\ D \in SourceLine /\ D.expr \in Expr
  BY <1>0, LineType DEF At, D
<1>6. CASE Equate
  <2>1. pass = 1 /\ line \in DOMAIN program /\ D.kind = "equ"
    BY <1>5, <1>6 DEF Equate
  <2>2. CASE Defined(D.expr, syms)
    <3>1. syms' = With(D.label, Value(D.expr, syms, pc)) /\ Done /\ pc' = pc
      BY <1>6, <2>2 DEF Equate
    <3>2. pc' = After(D, syms', pc)
      BY <2>1, <3>1 DEF After
    <3> QED BY <1>0, <1>2, <2>1, <3>1, <3>2, LineLaid
  <2>3. CASE ~Defined(D.expr, syms)
    BY <1>4, <1>6, <2>3 DEF Equate
  <2> QED BY <2>2, <2>3
<1>7. CASE Place
  <2>1. pass = 1 /\ line \in DOMAIN program /\ D.kind \in {"org", "fill"}
    BY <1>5, <1>7 DEF Place
  <2>2. CASE Defined(D.expr, Labelled)
    <3>1. /\ syms' = With(D.label, pc) /\ Done /\ Defined(D.expr, syms')
          /\ pc' = IF D.kind = "org" THEN Value(D.expr, syms', pc) ELSE pc + Value(D.expr, syms', pc)
      BY <1>7, <2>2 DEF Place, Labelled
    <3>2. pc' = After(D, syms', pc)
      BY <2>1, <3>1 DEF After
    <3> QED BY <1>0, <1>2, <2>1, <3>1, <3>2, LineLaid
  <2>3. CASE ~Defined(D.expr, Labelled)
    BY <1>4, <1>7, <2>3 DEF Place
  <2> QED BY <2>2, <2>3
<1>8. CASE Measure
  <2>1. pass = 1 /\ line \in DOMAIN program /\ D.kind \in {"byte", "word", "ins"}
    BY <1>5, <1>8 DEF Measure
  <2>2. /\ syms' = With(D.label, pc) /\ Done
        /\ pc' = pc + CASE D.kind = "byte" -> 1 [] D.kind = "word" -> 2 [] OTHER -> Size(D, syms', pc)
    BY <1>8 DEF Measure, Labelled
  <2>3. pc' = After(D, syms', pc)
    BY <2>1, <2>2 DEF After
  <2> QED BY <1>0, <1>2, <2>1, <2>2, <2>3, LineLaid
<1>9. CASE SecondPass
  <2>1. /\ line \in 1 .. Len(program) + 1 /\ Len(program) \in Nat
    BY <1>0, LenProperties DEF SourceType
  <2>2. /\ line > Len(program) /\ pass = 1
        /\ pass' = 2 /\ line' = 1 /\ pc' = 0 /\ UNCHANGED <<program, syms, memory, failed>>
    BY <1>9 DEF SecondPass
  <2>3. PICK f : Layout(f, syms, Len(program) + 1)
    <3>1. line = Len(program) + 1
      BY <2>1, <2>2
    <3> QED BY <1>2, <2>2, <3>1 DEF LaidOut
  <2>4. Layout(f, syms, Len(program) + 1)' /\ f[1] = 0
    BY <2>2, <2>3 DEF Layout, LaidLine, Known, Part, Sofar, Names
  <2> QED BY <2>2, <2>4 DEF LaidOut
<1>10. ASSUME pass = 2, line \in DOMAIN program
       PROVE  Sofar(line) \subseteq DOMAIN syms
  BY <1>0, <1>10, SofarIsKnown
<1>11. CASE Skip
  <2>1. pass = 2 /\ line \in DOMAIN program /\ D.kind = "equ" /\ ~failed /\ Done /\ pc' = pc /\ UNCHANGED syms
    BY <1>5, <1>11 DEF Skip
  <2>2. After(D, Known(syms, line), pc) = pc
    BY <2>1 DEF After
  <2> QED BY <1>0, <1>2, <2>1, <2>2, LineEmitted
<1>12. ASSUME pass = 2, line \in DOMAIN program, Defined(D.expr, Known(syms, line))
       PROVE  /\ Defined(D.expr, syms)
              /\ \A a : Value(D.expr, Known(syms, line), a) = Value(D.expr, syms, a)
  BY <1>10, <1>12, PartValue DEF Known
<1>13. ASSUME pass = 2, line \in DOMAIN program, D.kind \in {"org", "fill"}
       PROVE  Defined(D.expr, Known(syms, line))
  <2>1. PICK f : Layout(f, syms, Len(program) + 1)
    BY <1>2, <1>13 DEF LaidOut
  <2>2. line \in 1 .. Len(program) /\ Len(program) \in Nat
    BY <1>0, <1>13, LineType
  <2>3. LaidLine(f, syms, line)
    BY <2>1, <2>2 DEF Layout
  <2> QED BY <1>13, <2>3 DEF LaidLine, D
<1>14. CASE Replace
  <2>1. /\ pass = 2 /\ line \in DOMAIN program /\ D.kind = "org" /\ ~failed /\ Done /\ UNCHANGED syms
        /\ pc' = Value(D.expr, syms, pc)
    BY <1>5, <1>14 DEF Replace
  <2>2. pc' = Value(D.expr, Known(syms, line), pc)
    BY <1>12, <1>13, <2>1
  <2>3. After(D, Known(syms, line), pc) = pc'
    BY <2>1, <2>2 DEF After
  <2> QED BY <1>0, <1>2, <2>1, <2>3, LineEmitted
<1>15. CASE EmitData
  <2>1. CASE Fail
    BY <1>4, <2>1
  <2>2. CASE ~Fail
    <3>1. pass = 2 /\ line \in DOMAIN program /\ D.kind \in {"byte", "word", "fill"} /\ ~failed
      BY <1>5, <1>15 DEF EmitData
    <3>2. failed' = failed
      BY <1>15, <2>2 DEF EmitData, Emit, Done
    <3>3. Defined(D.expr, syms) /\ Value(D.expr, syms, pc) \in Int
      BY <1>0, <1>15, <3>2, DataBytes
    <3>4. PICK bytes \in Seq(Byte) :
                  /\ Emit(bytes)
                  /\ D.kind = "byte" => Len(bytes) = 1
                  /\ D.kind = "word" => Len(bytes) = 2
                  /\ D.kind = "fill" /\ Value(D.expr, syms, pc) >= 0 => Len(bytes) = Value(D.expr, syms, pc)
      BY <1>0, <1>15, <3>2, DataBytes
    <3>5. Done /\ UNCHANGED syms /\ pc' = pc + Len(bytes)
      BY <3>4 DEF Emit
    <3>6. ASSUME Careful PROVE pc' = After(D, Known(syms, line), pc)
      <4>1. CASE D.kind = "byte"
        BY <3>4, <3>5, <4>1 DEF After
      <4>2. CASE D.kind = "word"
        BY <3>4, <3>5, <4>2 DEF After
      <4>3. CASE D.kind = "fill"
        <5>1. ~FillsBack(line)
          BY <3>1, <3>6 DEF Careful
        <5>2. Value(D.expr, syms, pc) >= 0
          BY <3>3, <4>3, <5>1 DEF FillsBack, D
        <5>3. Value(D.expr, Known(syms, line), pc) = Value(D.expr, syms, pc)
          BY <1>12, <1>13, <3>1, <4>3
        <5>4. After(D, Known(syms, line), pc) = pc + Value(D.expr, syms, pc)
          BY <4>3, <5>3 DEF After
        <5> QED BY <3>4, <3>5, <4>3, <5>2, <5>4
      <4> QED BY <3>1, <4>1, <4>2, <4>3
    <3> QED BY <1>0, <1>2, <3>1, <3>5, <3>6, LineEmitted
  <2> QED BY <2>1, <2>2
<1>16. CASE EmitInstruction
  <2>1. CASE Fail
    BY <1>4, <2>1
  <2>2. CASE ~Fail
    <3>1. pass = 2 /\ line \in DOMAIN program /\ D.kind = "ins" /\ ~failed
      BY <1>5, <1>16 DEF EmitInstruction
    <3>2. failed' = failed
      BY <1>16, <2>2 DEF EmitInstruction, Emit, Done
    <3>3. PICK bytes : Emit(bytes) /\ Len(bytes) = Size(D, syms, pc)
      BY <1>0, <1>16, <3>2, InstructionBytes
    <3>4. Done /\ UNCHANGED syms /\ pc' = pc + Size(D, syms, pc)
      BY <3>3 DEF Emit
    <3>5. ASSUME Careful PROVE pc' = After(D, Known(syms, line), pc)
      <4>1. ~ (/\ Sized(D) /\ Has(D.mn, ZeroPage(D.hint))
               /\ InPage0(D.expr, syms, pc) /\ ~Defined(D.expr, Known(syms, line)))
        <5>1. SUFFICES ASSUME /\ Sized(D) /\ Has(D.mn, ZeroPage(D.hint))
                              /\ InPage0(D.expr, syms, pc) /\ ~Defined(D.expr, Known(syms, line))
                       PROVE  FALSE
          OBVIOUS
        <5> DEFINE sym == D.expr.sym
        <5>2. sym \notin {NoName, Here} \cup Sofar(line)
          BY <1>10, <3>1, <5>1, PartValue DEF Known
        <5>3. sym \in DOMAIN syms
          BY <5>1, <5>2 DEF InPage0, Defined
        <5>4. DOMAIN syms = Sofar(Len(program))
          BY <1>0, <3>1 DEF SourceInv, Symbols, Passed
        <5>5. PICK j \in 1 .. Len(program) : Names(j) = sym
          BY <5>3, <5>4 DEF Sofar
        <5>6. line \in 1 .. Len(program) /\ Len(program) \in Nat
          BY <1>0, <3>1, LineType
        <5>7. j \notin 1 .. line
          BY <5>2, <5>5 DEF Sofar
        <5>8. j \in line + 1 .. Len(program)
          BY <5>6, <5>7
        <5>9. NamedTooSoon(line)
          BY <3>1, <5>1, <5>2, <5>5, <5>8 DEF NamedTooSoon, D
        <5> QED BY <3>1, <3>5, <5>9 DEF Careful
      <4>2. ModeOf(D, Known(syms, line), pc) = ModeOf(D, syms, pc)
        BY <1>10, <3>1, <4>1, PartMode DEF Known
      <4>3. After(D, Known(syms, line), pc) = pc + Size(D, syms, pc)
        BY <3>1, <4>2 DEF After, Size
      <4> QED BY <3>4, <4>3
    <3> QED BY <1>0, <1>2, <3>1, <3>4, <3>5, LineEmitted
  <2> QED BY <2>1, <2>2
<1>17. CASE UNCHANGED vars
  BY <1>3, <1>17 DEF vars
<1> QED BY <1>6, <1>7, <1>8, <1>9, <1>11, <1>14, <1>15, <1>16, <1>17 DEF Next

LEMMA LayoutInit == Init => LayoutInv
<1> SUFFICES ASSUME Init PROVE LayoutInv
  OBVIOUS
<1>1. SourceInv
  BY SourceInit
<1>2. pass = 1 /\ line = 1 /\ pc = 0
  BY DEF Init
<1>3. PICK f : f = [j \in {1} |-> 0]
  OBVIOUS
<1>4. Layout(f, syms, 1) /\ f[1] = 0
  BY <1>3 DEF Layout
<1>5. Layout(f, syms, line) /\ f[line] = pc
  BY <1>2, <1>4
<1>6. LaidOut
  BY <1>2, <1>5 DEF LaidOut
<1> QED BY <1>1, <1>6 DEF LayoutInv

(* In a careful source the second pass puts every label where the first    *)
(* said it was, although it chooses every mode again and knows more        *)
(* symbols then: a6502/asm.py 402-440, 443-543 and _size, 553-574.         *)
THEOREM LabelsAreWhereTheyWereSaid == Spec => []LabelsLand
<1>1. LayoutInv => LabelsLand
  <2>1. SUFFICES ASSUME LayoutInv, At(2, {"org", "byte", "word", "fill", "ins"}),
                        D.label # NoName, Careful
                 PROVE  syms[D.label] = pc
    BY DEF LabelsLand
  <2>2. SourceType /\ pass = 2 /\ line \in DOMAIN program /\ D.kind # "equ"
    BY <2>1 DEF LayoutInv, SourceInv, At
  <2>3. line \in 1 .. Len(program) /\ Len(program) \in Nat
    BY <2>2, LineType
  <2>4. Unique
    BY <2>1 DEF Careful, Unique
  <2>5. PICK f : Layout(f, syms, Len(program) + 1) /\ f[line] = pc
    BY <2>1, <2>2, <2>4 DEF LayoutInv, LaidOut
  <2>6. LaidLine(f, syms, line)
    BY <2>3, <2>5 DEF Layout
  <2> QED BY <2>1, <2>2, <2>5, <2>6 DEF LaidLine, Names, D
<1>2. LayoutInv => SourceInv
  BY DEF LayoutInv
<1> QED BY <1>1, <1>2, LayoutInit, LayoutStep, SourceStep, PTL DEF Spec

(***************************************************************************)
(* The tables: the disassembler and the processor                          *)
(***************************************************************************)
(* An opcode by its group and its column, and by its row of sixteen.       *)
LEMMA OpcodeParts ==
  ASSUME NEW op \in Opcode
  PROVE  /\ Group(op) \in 0 .. 7 /\ Column(op) \in 0 .. 31
         /\ op \div 16 = IF Column(op) < 16 THEN 2 * Group(op) ELSE 2 * Group(op) + 1
         /\ op % 16 = IF Column(op) < 16 THEN Column(op) ELSE Column(op) - 16
BY Z3 DEF Opcode, Byte, Group, Column

ListedMode(g, c) == ModesOf(c)[g + 1]
ShownMode(g, c) ==
  IF c < 16
  THEN CASE c = 0           -> IF g = 1 THEN "abs" ELSE IF g < 4 THEN "imp" ELSE "imm"
         [] c = 2           -> IF g < 4 THEN "imp" ELSE "imm"
         [] c = 8           -> "imp"
         [] c = 10          -> IF g < 4 THEN "acc" ELSE "imp"
         [] c = 12          -> IF g = 3 THEN "ind" ELSE "abs"
         [] c \in {1, 3}    -> "indx"
         [] c \in 4 .. 7    -> "zp"
         [] c \in {9, 11}   -> "imm"
         [] OTHER           -> "abs"
  ELSE CASE c = 16          -> "rel"
         [] c \in {17, 19}  -> "indy"
         [] c \in {18, 24, 26} -> "imp"
         [] c \in {25, 27}  -> "absy"
         [] c \in {20, 21}  -> "zpx"
         [] c \in {22, 23}  -> IF g \in {4, 5} THEN "zpy" ELSE "zpx"
         [] c \in {28, 29}  -> "absx"
         [] OTHER           -> IF g \in {4, 5} THEN "absy" ELSE "absx"

LEMMA ListedIsShown ==
  ASSUME NEW g \in 0 .. 7, NEW c \in 0 .. 31
  PROVE  ListedMode(g, c) = ShownMode(g, c)
<1>1. CASE c = 0
  BY <1>1 DEF ListedMode, ShownMode, ModesOf, All, But
<1>2. CASE c = 2
  BY <1>2 DEF ListedMode, ShownMode, ModesOf, All, But
<1>3. CASE c \in {1, 3}
  BY <1>3 DEF ListedMode, ShownMode, ModesOf, All, But
<1>4. CASE c \in 4 .. 7
  BY <1>4 DEF ListedMode, ShownMode, ModesOf, All, But
<1>5. CASE c = 8
  BY <1>5 DEF ListedMode, ShownMode, ModesOf, All, But
<1>6. CASE c \in {9, 11}
  BY <1>6 DEF ListedMode, ShownMode, ModesOf, All, But
<1>7. CASE c = 10
  BY <1>7 DEF ListedMode, ShownMode, ModesOf, All, But
<1>8. CASE c = 12
  BY <1>8 DEF ListedMode, ShownMode, ModesOf, All, But
<1>9. CASE c \in {13, 14, 15}
  BY <1>9 DEF ListedMode, ShownMode, ModesOf, All, But
<1>10. CASE c = 16
  BY <1>10 DEF ListedMode, ShownMode, ModesOf, All, But
<1>11. CASE c \in {17, 19}
  BY <1>11 DEF ListedMode, ShownMode, ModesOf, All, But
<1>12. CASE c \in {18, 24, 26}
  BY <1>12 DEF ListedMode, ShownMode, ModesOf, All, But
<1>13. CASE c \in {20, 21}
  BY <1>13 DEF ListedMode, ShownMode, ModesOf, All, But
<1>14. CASE c \in {22, 23}
  BY <1>14 DEF ListedMode, ShownMode, ModesOf, All, But
<1>15. CASE c \in {25, 27}
  BY <1>15 DEF ListedMode, ShownMode, ModesOf, All, But
<1>16. CASE c \in {28, 29}
  BY <1>16 DEF ListedMode, ShownMode, ModesOf, All, But
<1>17. CASE c \in {30, 31}
  BY <1>17 DEF ListedMode, ShownMode, ModesOf, All, But
<1> QED
  BY <1>1, <1>2, <1>3, <1>4, <1>5, <1>6, <1>7, <1>8, <1>9, <1>10, <1>11, <1>12, <1>13, <1>14, <1>15, <1>16, <1>17

(* The disassembler and the processor read the same mode in every opcode.  *)
LEMMA ModesAgree ==
  ASSUME NEW op \in Opcode
  PROVE  g_dm(op) = Mode(op) /\ Mode(op) \in Modes
<1> DEFINE g == Group(op)
           c == Column(op)
           r == op \div 16
           l == op % 16
<1>1. /\ g \in 0 .. 7 /\ c \in 0 .. 31
      /\ r = IF c < 16 THEN 2 * g ELSE 2 * g + 1
      /\ l = IF c < 16 THEN c ELSE c - 16
  BY OpcodeParts
<1>2. Mode(op) = ListedMode(g, c)
  BY DEF Mode, Row, ListedMode
<1>3. g_dm(op) =
      IF r % 2 = 0
      THEN CASE l = 0           -> IF r = 2 THEN "abs" ELSE IF r < 8 THEN "imp" ELSE "imm"
             [] l = 2           -> IF r < 8 THEN "imp" ELSE "imm"
             [] l = 8           -> "imp"
             [] l = 10          -> IF r < 8 THEN "acc" ELSE "imp"
             [] l = 12          -> IF r = 6 THEN "ind" ELSE "abs"
             [] l \in {1, 3}    -> "indx"
             [] l \in 4 .. 7    -> "zp"
             [] l \in {9, 11}   -> "imm"
             [] OTHER           -> "abs"
      ELSE CASE l = 0           -> "rel"
             [] l \in {1, 3}    -> "indy"
             [] l \in {2, 8, 10} -> "imp"
             [] l \in {9, 11}   -> "absy"
             [] l \in {4, 5}    -> "zpx"
             [] l \in {6, 7}    -> IF r \in {9, 11} THEN "zpy" ELSE "zpx"
             [] l \in {12, 13}  -> "absx"
             [] OTHER           -> IF r \in {9, 11} THEN "absy" ELSE "absx"
  BY DEF g_dm
<1> HIDE DEF g, c, r, l
<1>4. ListedMode(g, c) = ShownMode(g, c)
  BY <1>1, ListedIsShown
<1>5. ShownMode(g, c) \in Modes
  BY <1>1 DEF ShownMode, Modes
<1>6. CASE c < 16
  <2>1. r % 2 = 0 /\ r = 2 * g /\ l = c
    BY <1>1, <1>6
  <2>2. /\ r = 2 <=> g = 1
        /\ r < 8 <=> g < 4
        /\ r = 6 <=> g = 3
    BY <1>1, <2>1
  <2>3. g_dm(op) = ShownMode(g, c)
    <3>1. CASE c = 0
      BY <1>3, <2>1, <2>2, <3>1 DEF ShownMode
    <3>2. CASE c = 2
      BY <1>3, <2>1, <2>2, <3>2 DEF ShownMode
    <3>3. CASE c = 8
      BY <1>3, <2>1, <2>2, <3>3 DEF ShownMode
    <3>4. CASE c = 10
      BY <1>3, <2>1, <2>2, <3>4 DEF ShownMode
    <3>5. CASE c = 12
      BY <1>3, <2>1, <2>2, <3>5 DEF ShownMode
    <3>6. CASE c \in {1, 3}
      BY <1>3, <2>1, <2>2, <3>6 DEF ShownMode
    <3>7. CASE c \in 4 .. 7
      BY <1>3, <2>1, <2>2, <3>7 DEF ShownMode
    <3>8. CASE c \in {9, 11}
      BY <1>3, <2>1, <2>2, <3>8 DEF ShownMode
    <3>9. CASE c \in {13, 14, 15}
      BY <1>3, <2>1, <2>2, <3>9 DEF ShownMode
    <3>10. \/ c = 0 \/ c = 2 \/ c = 8 \/ c = 10 \/ c = 12
          \/ c \in {1, 3} \/ c \in 4 .. 7 \/ c \in {9, 11} \/ c \in {13, 14, 15}
      BY <1>1, <1>6
    <3> QED BY <3>1, <3>2, <3>3, <3>4, <3>5, <3>6, <3>7, <3>8, <3>9, <3>10
  <2> QED BY <1>2, <1>4, <1>5, <2>3
<1>7. CASE ~(c < 16)
  <2>1. r % 2 # 0 /\ r = 2 * g + 1 /\ l = c - 16 /\ c \in 16 .. 31
    BY <1>1, <1>7
  <2>2. r \in {9, 11} <=> g \in {4, 5}
    BY <1>1, <2>1
  <2>3. g_dm(op) = ShownMode(g, c)
    <3>1. CASE c = 16
      BY <1>3, <2>1, <2>2, <3>1 DEF ShownMode
    <3>2. CASE c \in {17, 19}
      BY <1>3, <2>1, <2>2, <3>2 DEF ShownMode
    <3>3. CASE c \in {18, 24, 26}
      BY <1>3, <2>1, <2>2, <3>3 DEF ShownMode
    <3>4. CASE c \in {25, 27}
      BY <1>3, <2>1, <2>2, <3>4 DEF ShownMode
    <3>5. CASE c \in {20, 21}
      BY <1>3, <2>1, <2>2, <3>5 DEF ShownMode
    <3>6. CASE c \in {22, 23}
      BY <1>3, <2>1, <2>2, <3>6 DEF ShownMode
    <3>7. CASE c \in {28, 29}
      BY <1>3, <2>1, <2>2, <3>7 DEF ShownMode
    <3>8. CASE c \in {30, 31}
      BY <1>3, <2>1, <2>2, <3>8 DEF ShownMode
    <3>9. \/ c = 16 \/ c \in {17, 19} \/ c \in {18, 24, 26} \/ c \in {25, 27}
          \/ c \in {20, 21} \/ c \in {22, 23} \/ c \in {28, 29} \/ c \in {30, 31}
      BY <1>1, <2>1
    <3> QED BY <3>1, <3>2, <3>3, <3>4, <3>5, <3>6, <3>7, <3>8, <3>9
  <2> QED BY <1>2, <1>4, <1>5, <2>3
<1> QED BY <1>6, <1>7

(***************************************************************************)
(* Reading back                                                            *)
(***************************************************************************)
LEMMA HighByte ==
  ASSUME NEW v \in Int
  PROVE  (v % 256) + 256 * ((v \div 256) % 256) = v % 65536
<1>1. PICK q \in Int : q = v \div 65536
  OBVIOUS
<1>2. PICK h \in Int : h = v \div 256
  OBVIOUS
<1> QED BY <1>1, <1>2, Z3

LEMMA OffsetBack ==
  ASSUME NEW v \in Int, NEW a \in Int, v - a \in -128 .. 127
  PROVE  (a + Signed((v - a) % 256)) % 65536 = v % 65536
<1>1. Signed((v - a) % 256) = v - a
  <2>1. CASE v - a >= 0
    <3>1. (v - a) % 256 = v - a
      BY <2>1
    <3> QED BY <2>1, <3>1 DEF Signed
  <2>2. CASE v - a < 0
    <3>1. (v - a) % 256 = v - a + 256
      BY <2>2
    <3> QED BY <2>2, <3>1 DEF Signed
  <2> QED BY <2>1, <2>2
<1> QED BY <1>1

(* the value the disassembler shows of the operand ops at address a        *)
ValueShown(mode, ops, a) ==
  CASE g_dl(mode) = 1 -> 0
    [] g_dl(mode) = 3 -> ops[1] + 256 * ops[2]
    [] mode = "rel"   -> (a + 2 + Signed(ops[1])) % 65536
    [] OTHER          -> ops[1]

LEMMA Lengths ==
  ASSUME NEW mode
  PROVE  /\ g_dl(mode) = 1 + OperandSize(mode)
         /\ OperandSize(mode) \in {0, 1, 2} /\ (mode = "rel" => OperandSize(mode) = 1)
BY DEF g_dl, OperandSize

LEMMA LineShown ==
  ASSUME NEW op \in Opcode, NEW ops, NEW a, NEW b1, NEW b2,
         OperandSize(Mode(op)) # 0 => b1 = ops[1],
         OperandSize(Mode(op)) = 2 => b2 = ops[2]
  PROVE  Shown(a, op, b1, b2) =
           [mn |-> Operation(op), mode |-> Mode(op), len |-> 1 + OperandSize(Mode(op)),
            value |-> ValueShown(Mode(op), ops, a)]
<1>1. g_dm(op) = Mode(op)
  BY ModesAgree
<1> DEFINE mode == Mode(op)
           old == CASE g_dl(mode) = 1 -> 0
                   [] g_dl(mode) = 3 -> b1 + 256 * b2
                   [] mode = "rel"   -> (a + 2 + Signed(b1)) % 65536
                   [] OTHER          -> b1
<1>2. Shown(a, op, b1, b2) = [mn |-> Operation(op), mode |-> mode, len |-> g_dl(mode), value |-> old]
  BY <1>1 DEF Shown, g_mn
<1>3. old = ValueShown(mode, ops, a)
  <2> HIDE DEF mode
  <2>1. CASE OperandSize(mode) = 0
    BY <2>1, Lengths DEF ValueShown
  <2>2. CASE OperandSize(mode) = 1
    <3>1. b1 = ops[1] /\ g_dl(mode) = 2
      BY <2>2, Lengths DEF mode
    <3> QED BY <3>1 DEF ValueShown
  <2>3. CASE OperandSize(mode) = 2
    <3>1. b1 = ops[1] /\ b2 = ops[2] /\ g_dl(mode) = 3
      BY <2>3, Lengths DEF mode
    <3> QED BY <3>1 DEF ValueShown
  <2> QED BY <2>1, <2>2, <2>3, Lengths
<1> QED BY <1>2, <1>3, Lengths

(* What the second pass wrote of an instruction, listed.                   *)
LEMMA InstructionListed ==
  ASSUME SourceInv, EmitInstruction, ~failed'
  PROVE  LET mode == ModeOf(D, syms, pc)
         IN  /\ ShownIn(memory', pc) =
                  [mn |-> D.mn, mode |-> mode, len |-> 1 + OperandSize(mode),
                   value |-> ValueShown(mode, Operand(D, mode), pc)]
             /\ pc' = pc + 1 + OperandSize(mode)
             /\ D \in SourceLine /\ mode \in Modes /\ Has(D.mn, mode)
             /\ D.hint \in {"imp", "acc"} \/ (Defined(D.expr, syms) /\ Value(D.expr, syms, pc) \in Int)
             /\ mode = "rel" => Offset(D) \in -128 .. 127
<1>1. /\ ~failed /\ line \in DOMAIN program /\ SourceType /\ pc \in Int
  BY DEF EmitInstruction, At, SourceInv, Values
<1>2. D \in SourceLine
  BY <1>1, LineType DEF D
<1>3. failed' = failed
  BY <1>1 DEF EmitInstruction, Fail, Emit, Done
<1>4. PICK mode : mode = ModeOf(D, syms, pc)
  OBVIOUS
<1>5. /\ Emit(Assembled(mode)) /\ Assembled(mode) \in Seq(Byte)
      /\ Has(D.mn, mode)
      /\ D.hint \in {"imp", "acc"} \/ (Defined(D.expr, syms) /\ Value(D.expr, syms, pc) \in Int)
      /\ mode = "rel" => Offset(D) \in -128 .. 127
  BY <1>3, <1>4, InstructionBytes
<1>6. PICK ops : ops = Operand(D, mode)
  OBVIOUS
<1>7. D.hint \in {"imp", "acc"} => OperandSize(mode) = 0
  BY <1>4 DEF ModeOf, Sized, OperandSize
<1>8. ops \in Seq(Byte) /\ Len(ops) = OperandSize(mode)
  BY <1>1, <1>2, <1>5, <1>6, <1>7, OperandBytes
<1>9. PICK op : op = Code(D.mn, mode)
  OBVIOUS
<1>10. op \in Opcode /\ Operation(op) = D.mn /\ Mode(op) = mode
  BY <1>5, <1>9, CodeMeans
<1>11. Assembled(mode) = <<op>> \o ops
  BY <1>6, <1>9 DEF Assembled
<1>12. PICK bytes : bytes = <<op>> \o ops
  OBVIOUS
<1>13. op \in Byte /\ <<op>> \in Seq(Byte) /\ Len(<<op>>) = 1 /\ <<op>>[1] = op
  BY <1>10 DEF Opcode
<1>14. /\ bytes \in Seq(Byte) /\ Len(bytes) = 1 + OperandSize(mode)
       /\ bytes[1] = op
       /\ \A i \in 1 .. OperandSize(mode) : bytes[i + 1] = ops[i]
  BY <1>8, <1>12, <1>13, ConcatProperties, Lengths
<1>15. /\ pc' = pc + 1 + OperandSize(mode)
       /\ \A i \in 0 .. OperandSize(mode) : ByteOf(memory', pc + i) = bytes[i + 1]
  <2>1. Emit(bytes)
    BY <1>5, <1>11, <1>12
  <2> DEFINE new == pc .. pc + Len(bytes) - 1
  <2>2. /\ memory' = [a \in DOMAIN memory \cup new |-> IF a \in new THEN bytes[a - pc + 1] ELSE memory[a]]
        /\ pc' = pc + Len(bytes)
    BY <2>1 DEF Emit
  <2>3. pc' = pc + 1 + OperandSize(mode)
    BY <1>1, <1>14, <2>2, Lengths
  <2>4. ASSUME NEW i \in 0 .. OperandSize(mode)
        PROVE  ByteOf(memory', pc + i) = bytes[i + 1]
    <3>1. pc + i \in new /\ (pc + i) - pc + 1 = i + 1
      BY <1>1, <1>14, Lengths
    <3> HIDE DEF new
    <3>2. pc + i \in DOMAIN memory' /\ memory'[pc + i] = bytes[i + 1]
      BY <2>2, <3>1
    <3> QED BY <3>2 DEF ByteOf
  <2> QED BY <2>3, <2>4
<1>16. /\ ByteOf(memory', pc) = op
       /\ OperandSize(mode) # 0 => ByteOf(memory', pc + 1) = ops[1]
       /\ OperandSize(mode) = 2 => ByteOf(memory', pc + 2) = ops[2]
  <2>1. OperandSize(mode) \in {0, 1, 2} /\ pc + 0 = pc
    BY <1>1, Lengths
  <2>2. 0 \in 0 .. OperandSize(mode) /\ ByteOf(memory', pc + 0) = bytes[0 + 1]
    BY <1>15, <2>1
  <2>3. OperandSize(mode) # 0 => ByteOf(memory', pc + 1) = bytes[1 + 1] /\ bytes[1 + 1] = ops[1]
    BY <1>14, <1>15, <2>1
  <2>4. OperandSize(mode) = 2 => ByteOf(memory', pc + 2) = bytes[2 + 1] /\ bytes[2 + 1] = ops[2]
    BY <1>14, <1>15, <2>1
  <2> QED BY <1>14, <2>1, <2>2, <2>3, <2>4
<1>17. ShownIn(memory', pc) =
         [mn |-> D.mn, mode |-> mode, len |-> 1 + OperandSize(mode), value |-> ValueShown(mode, ops, pc)]
  BY <1>10, <1>16, LineShown DEF ShownIn
<1>18. mode \in Modes
  BY <1>10, ModesAgree
<1> QED BY <1>2, <1>4, <1>5, <1>6, <1>15, <1>17, <1>18

(* The mode of an instruction is one its operand allows.                   *)
LEMMA ModeAllowed ==
  ASSUME NEW d \in SourceLine, NEW s, NEW a, ModeOf(d, s, a) \in Modes
  PROVE  /\ ModeOf(d, s, a) \in Allows(d.hint)
         /\ ModeOf(d, s, a) \in {"zp", "zpx", "zpy"} => InPage0(d.expr, s, a)
<1>1. d.hint \in {"", "imp", "acc", "imm", "indx", "indy", "ind", "x", "y", "plain"}
  BY DEF SourceLine
<1>2. CASE d.hint = "imp"
  BY <1>2 DEF ModeOf, Allows, Sized
<1>3. CASE Sized(d)
  BY <1>3 DEF ModeOf, Allows, Sized, Chosen, ZeroPage, Absolute
<1>4. CASE d.mn \in Branches /\ d.hint = "plain"
  BY <1>4 DEF ModeOf, Allows, Sized
<1>5. CASE d.hint # "imp" /\ ~Sized(d) /\ ~(d.mn \in Branches /\ d.hint = "plain")
  <2>1. ModeOf(d, s, a) = d.hint
    BY <1>5 DEF ModeOf
  <2>2. d.hint \in {"acc", "imm", "indx", "indy", "ind"}
    BY <1>1, <1>5, <2>1 DEF Modes
  <2> QED BY <2>1, <2>2 DEF Allows
<1> QED BY <1>2, <1>3, <1>4, <1>5

LEMMA OperandShown ==
  ASSUME NEW d \in SourceLine, NEW mode \in Modes, pc \in Int,
         NEW v \in Int, v = Value(d.expr, syms, pc),
         mode = "rel" => v - (pc + 2) \in -128 .. 127
  PROVE  /\ mode \in {"rel", "abs", "absx", "absy", "ind"} => ValueShown(mode, Operand(d, mode), pc) = v % 65536
         /\ mode \in {"zp", "zpx", "zpy", "imm", "indx", "indy"} => ValueShown(mode, Operand(d, mode), pc) = v % 256
<1>1. v % 256 \in Int /\ (v \div 256) % 256 \in Int
  OBVIOUS
<1>2. CASE mode = "rel"
  <2>1. Operand(d, mode)[1] = (v - (pc + 2)) % 256
    <3>1. OperandSize(mode) = 1
      BY <1>2, Lengths
    <3>2. Operand(d, mode) = <<Offset(d) % 256>>
      BY <1>2, <3>1 DEF Operand
    <3>3. Offset(d) = v - (pc + 2)
      BY DEF Offset
    <3> QED BY <3>2, <3>3
  <2>2. ValueShown(mode, Operand(d, mode), pc) = ((pc + 2) + Signed((v - (pc + 2)) % 256)) % 65536
    BY <1>2, <2>1 DEF ValueShown, g_dl
  <2>3. pc + 2 \in Int
    OBVIOUS
  <2>4. ((pc + 2) + Signed((v - (pc + 2)) % 256)) % 65536 = v % 65536
    BY <1>2, <2>3, OffsetBack
  <2> QED BY <1>2, <2>2, <2>4
<1>3. CASE mode \in {"abs", "absx", "absy", "ind"}
  <2>1. PICK ops : ops = Operand(d, mode)
    OBVIOUS
  <2>2. ops = <<v % 256, (v \div 256) % 256>>
    BY <1>3, <2>1 DEF Operand, OperandSize
  <2>3. ops[1] = v % 256 /\ ops[2] = (v \div 256) % 256
    BY <2>2
  <2>4. ValueShown(mode, ops, pc) = ops[1] + 256 * ops[2]
    BY <1>3 DEF ValueShown, g_dl
  <2>5. ops[1] + 256 * ops[2] = v % 65536
    BY <2>3, HighByte
  <2> QED BY <1>3, <2>1, <2>4, <2>5
<1>4. CASE mode \in {"zp", "zpx", "zpy", "imm", "indx", "indy"}
  <2>1. Operand(d, mode)[1] = v % 256
    BY <1>4 DEF Operand, OperandSize
  <2>2. ValueShown(mode, Operand(d, mode), pc) = v % 256
    BY <1>4, <2>1 DEF ValueShown, g_dl
  <2> QED BY <1>4, <2>2
<1> QED BY <1>2, <1>3, <1>4

(* What the second pass emits for an instruction m6502_disasm lists as     *)
(* that instruction, with its length: a6502/asm.py 475-543 and the tables  *)
(* of m6502/m6502.c.                                                       *)
THEOREM WrittenReadsBack == Spec => ReadsBack
<1>1. SourceInv => ReadAsWritten
  <2>1. SUFFICES ASSUME SourceInv, EmitInstruction, ~failed'
                 PROVE  ReadAsWritten
    BY DEF ReadAsWritten
  <2>2. PICK mode : mode = ModeOf(D, syms, pc)
    OBVIOUS
  <2>3. PICK v : v = Value(D.expr, syms, pc)
    OBVIOUS
  <2>4. PICK value : value = ValueShown(mode, Operand(D, mode), pc)
    OBVIOUS
  <2>5. /\ ShownIn(memory', pc) = [mn |-> D.mn, mode |-> mode, len |-> 1 + OperandSize(mode), value |-> value]
        /\ pc' = pc + 1 + OperandSize(mode)
        /\ D \in SourceLine /\ mode \in Modes
        /\ D.hint \in {"imp", "acc"} \/ (Defined(D.expr, syms) /\ v \in Int)
        /\ mode = "rel" => Offset(D) \in -128 .. 127
    BY <2>1, <2>2, <2>3, <2>4, InstructionListed
  <2>6. PICK shown : shown = ShownIn(memory', pc)
    OBVIOUS
  <2>7. shown.mn = D.mn /\ shown.mode = mode /\ shown.len = 1 + OperandSize(mode) /\ shown.value = value
    BY <2>5, <2>6
  <2>8. pc \in Int
    BY <2>1 DEF SourceInv, Values
  <2>9. shown.mn = D.mn /\ shown.mode \in Allows(D.hint) /\ shown.len = pc' - pc
    <3>1. mode \in Allows(D.hint)
      BY <2>2, <2>5, ModeAllowed
    <3>2. pc' - pc = 1 + OperandSize(mode)
      BY <2>5, <2>8, Lengths
    <3> QED BY <2>7, <3>1, <3>2
  <2>10. ASSUME mode \notin {"imp", "acc"} PROVE v \in Int
    <3>1. D.hint \in {"imp", "acc"} => mode \in {"imp", "acc"}
      BY <2>2 DEF ModeOf, Sized
    <3> QED BY <2>5, <2>10, <3>1
  <2>11. mode = "rel" => v - (pc + 2) \in -128 .. 127
    BY <2>3, <2>5 DEF Offset
  <2>12. mode \in {"rel", "abs", "absx", "absy", "ind"} => value = v % 65536
    BY <2>3, <2>4, <2>5, <2>8, <2>10, <2>11, OperandShown
  <2>13. mode \in {"zp", "zpx", "zpy", "imm", "indx", "indy"} => value = v % 256
    BY <2>3, <2>4, <2>5, <2>8, <2>10, <2>11, OperandShown
  <2>14. mode \in {"zp", "zpx", "zpy"} => value = v
    <3>1. mode \in {"zp", "zpx", "zpy"} => v \in 0 .. 255
      BY <2>2, <2>3, <2>5, ModeAllowed DEF InPage0
    <3> QED BY <2>13, <3>1
  <2> QED BY <2>3, <2>6, <2>7, <2>9, <2>12, <2>13, <2>14 DEF ReadAsWritten
<1> QED BY <1>1, SourceInit, SourceStep, PTL DEF Spec, ReadsBack

(***************************************************************************)
(* The inline assembler                                                    *)
(***************************************************************************)
Named(g, c) == OperationsOf(c)[g + 1]

(* The operations, by column, as far as the two assemblers need them.      *)
LEMMA NamedIs ==
  ASSUME NEW g \in 0 .. 7, NEW c \in 0 .. 31
  PROVE  /\ c \in {5, 13, 21, 29, 25} => Named(g, c) = Accumulating[g + 1]
         /\ c \in {6, 14, 22} => Named(g, c) = Modifying[g + 1]
         /\ c = 30 => Named(g, c) = IF g = 4 THEN "SHX" ELSE Modifying[g + 1]
         /\ c = 16 <=> Named(g, c) \in Branches
         /\ c = 10 /\ g < 4 => Named(g, c) \in AccOps
<1>1. CASE c = 0
  BY <1>1 DEF Named, OperationsOf, Branches
<1>2. CASE c = 2
  BY <1>2 DEF Named, OperationsOf, Branches
<1>3. CASE c \in {4, 12}
  BY <1>3 DEF Named, OperationsOf, Branches
<1>4. CASE c = 8
  BY <1>4 DEF Named, OperationsOf, Branches
<1>5. CASE c = 9
  BY <1>5 DEF Named, OperationsOf, Branches, Accumulating
<1>6. CASE c = 10
  BY <1>6 DEF Named, OperationsOf, Branches, AccOps
<1>7. CASE c = 11
  BY <1>7 DEF Named, OperationsOf, Branches
<1>8. CASE c = 16
  BY <1>8 DEF Named, OperationsOf, Branches
<1>9. CASE c = 18
  BY <1>9 DEF Named, OperationsOf, Branches, All
<1>10. CASE c \in {19, 31}
  BY <1>10 DEF Named, OperationsOf, Branches, Combining
<1>11. CASE c \in {20, 26, 28}
  BY SMTT(30), <1>11 DEF Named, OperationsOf, Branches, But
<1>12. CASE c = 24
  BY <1>12 DEF Named, OperationsOf, Branches
<1>13. CASE c = 27
  BY <1>13 DEF Named, OperationsOf, Branches, Combining
<1>14. CASE c = 30
  BY <1>14 DEF Named, OperationsOf, Branches, Modifying
<1>15. CASE c \in {1, 5, 13, 17, 21, 25, 29}
  BY SMTT(30), <1>15 DEF Named, OperationsOf, Branches, Accumulating
<1>16. CASE c \in {6, 14, 22}
  BY SMTT(30), <1>16 DEF Named, OperationsOf, Branches, Modifying
<1>17. CASE c \in {3, 7, 15, 23}
  BY SMTT(30), <1>17 DEF Named, OperationsOf, Branches, Combining
<1> QED
  BY <1>1, <1>2, <1>3, <1>4, <1>5, <1>6, <1>7, <1>8, <1>9, <1>10, <1>11, <1>12, <1>13, <1>14, <1>15, <1>16, <1>17

LEMMA ModeNamed ==
  ASSUME NEW op \in Opcode
  PROVE  /\ Group(op) \in 0 .. 7 /\ Column(op) \in 0 .. 31
         /\ Mode(op) = ShownMode(Group(op), Column(op))
         /\ Operation(op) = Named(Group(op), Column(op))
<1>1. Group(op) \in 0 .. 7 /\ Column(op) \in 0 .. 31
  BY OpcodeParts
<1>2. Mode(op) = ListedMode(Group(op), Column(op))
  BY DEF Mode, Row, ListedMode
<1>3. Operation(op) = Named(Group(op), Column(op))
  BY DEF Operation, Row, Named
<1> QED BY <1>1, <1>2, <1>3, ListedIsShown

(* Shifts of the accumulator are not implied, branches are relative.       *)
LEMMA ShiftsAndBranches ==
  ASSUME NEW op \in Opcode
  PROVE  /\ Mode(op) = "imp" => Operation(op) \notin AccOps
         /\ Operation(op) \in Branches => Mode(op) = "rel"
<1>1. PICK g \in 0 .. 7, c \in 0 .. 31 : Mode(op) = ShownMode(g, c) /\ Operation(op) = Named(g, c)
  BY ModeNamed
<1>2. Operation(op) \in Branches => Mode(op) = "rel"
  <2>1. Operation(op) \in Branches => c = 16
    BY <1>1, NamedIs
  <2> QED BY <1>1, <2>1 DEF ShownMode
<1>3. ShownMode(g, c) = "imp" =>
        c \in {8, 18, 24, 26} \/ (c = 0 /\ g # 1 /\ g < 4) \/ (c = 2 /\ g < 4) \/ (c = 10 /\ g >= 4)
  BY DEF ShownMode
<1>4. ShownMode(g, c) = "imp" => Named(g, c) \notin AccOps
  <2>1. c = 8 => Named(g, c) \notin AccOps
    BY DEF Named, OperationsOf, AccOps
  <2>2. c = 18 => Named(g, c) \notin AccOps
    BY DEF Named, OperationsOf, AccOps, All
  <2>3. c = 24 => Named(g, c) \notin AccOps
    BY DEF Named, OperationsOf, AccOps
  <2>4. c = 26 => Named(g, c) \notin AccOps
    BY DEF Named, OperationsOf, AccOps, But
  <2>5. c = 0 => Named(g, c) \notin AccOps
    BY DEF Named, OperationsOf, AccOps
  <2>6. c = 2 => Named(g, c) \notin AccOps
    BY DEF Named, OperationsOf, AccOps
  <2>7. c = 10 /\ g >= 4 => Named(g, c) \notin AccOps
    BY DEF Named, OperationsOf, AccOps
  <2> QED BY <1>3, <2>1, <2>2, <2>3, <2>4, <2>5, <2>6, <2>7
<1> QED BY <1>1, <1>2, <1>4

(* The documented opcodes.                                                 *)
Documented(op) == op \in Inline!asm_tab
Short(mode) == CASE mode = "abs" -> "zp" [] mode = "absx" -> "zpx" [] mode = "absy" -> "zpy"

LEMMA Instances ==
  ASSUME NEW op
  PROVE  /\ op \in Opcode => /\ Inline!Operation(op) = Operation(op)
                            /\ Inline!Mode(op) = Mode(op)
                            /\ Inline!Column(op) = Column(op)
         /\ Documented(op) <=> /\ op \in Opcode /\ Column(op) % 4 # 3
                               /\ Operation(op) \notin {"JAM", "SHX", "SHY"}
                               /\ Operation(op) = "nop" => op = 234
<1>1. Inline!Opcode = Opcode
  BY DEF Inline!Opcode, Inline!Byte, Opcode, Byte
<1>2. Inline!Column(op) = Column(op) /\ Inline!Group(op) = Group(op)
  BY DEF Inline!Column, Column, Inline!Group, Group
<1>3. \A c : Inline!OperationsOf(c) = OperationsOf(c)
  BY Zenon DEF Inline!OperationsOf, OperationsOf, Inline!Accumulating, Accumulating, Inline!Modifying, Modifying,
     Inline!Combining, Combining, Inline!All, All, Inline!But, But
<1>4. \A c : Inline!ModesOf(c) = ModesOf(c)
  BY Zenon DEF Inline!ModesOf, ModesOf, Inline!All, All, Inline!But, But
<1>5. Inline!Operation(op) = Operation(op) /\ Inline!Mode(op) = Mode(op)
  BY <1>2, <1>3, <1>4 DEF Inline!Operation, Operation, Inline!Mode, Mode, Inline!Row, Row
<1> QED BY <1>1, <1>2, <1>5 DEF Documented, Inline!asm_tab

(* Operations without a short form have no undocumented one either.        *)
LEMMA NoShort ==
  ASSUME NEW g \in 0 .. 7, NEW c \in 0 .. 31
  PROVE  /\ ShownMode(g, c) = "zp" => Named(g, c) \notin {"jsr", "jmp"}
         /\ ShownMode(g, c) = "zpy" => Named(g, c) \in {"stx", "ldx", "SAX", "LAX"}
<1>1. /\ ShownMode(g, c) = "zp" => c \in 4 .. 7
      /\ ShownMode(g, c) = "zpy" => c \in {22, 23} /\ g \in {4, 5}
  BY DEF ShownMode
<1>2. c \in 4 .. 7 => Named(g, c) \notin {"jsr", "jmp"}
  <2>1. c = 4 => Named(g, c) \notin {"jsr", "jmp"}
    BY DEF Named, OperationsOf
  <2>2. c = 5 => Named(g, c) \notin {"jsr", "jmp"}
    BY NamedIs DEF Accumulating
  <2>3. c = 6 => Named(g, c) \notin {"jsr", "jmp"}
    BY NamedIs DEF Modifying
  <2>4. c = 7 => Named(g, c) \notin {"jsr", "jmp"}
    BY DEF Named, OperationsOf, Combining
  <2> QED BY <2>1, <2>2, <2>3, <2>4
<1>3. c \in {22, 23} /\ g \in {4, 5} => Named(g, c) \in {"stx", "ldx", "SAX", "LAX"}
  <2>1. c = 22 /\ g \in {4, 5} => Named(g, c) \in {"stx", "ldx"}
    BY NamedIs DEF Modifying
  <2>2. c = 23 /\ g \in {4, 5} => Named(g, c) \in {"SAX", "LAX"}
    BY DEF Named, OperationsOf, Combining
  <2> QED BY <2>1, <2>2
<1> QED BY <1>1, <1>2, <1>3

(* A documented long form has its short form eight opcodes before it.      *)
LEMMA EightBefore ==
  ASSUME NEW op \in Opcode, Column(op) >= 8
  PROVE  op - 8 \in Opcode /\ Group(op - 8) = Group(op) /\ Column(op - 8) = Column(op) - 8
BY Z3 DEF Opcode, Byte, Group, Column

LEMMA ShortDocumented ==
  ASSUME NEW op, Documented(op), Mode(op) \in {"abs", "absx", "absy"},
         Has(Operation(op), Short(Mode(op)))
  PROVE  \E o : Documented(o) /\ Operation(o) = Operation(op) /\ Mode(o) = Short(Mode(op))
<1>1. /\ op \in Opcode /\ Column(op) % 4 # 3
      /\ Operation(op) \notin {"JAM", "SHX", "SHY"}
      /\ Operation(op) = "nop" => op = 234
  BY Instances
<1>2. PICK g \in 0 .. 7, c \in 0 .. 31 :
        g = Group(op) /\ c = Column(op) /\ Mode(op) = ShownMode(g, c) /\ Operation(op) = Named(g, c)
  BY <1>1, ModeNamed
<1>3. PICK h \in Opcode : Operation(h) = Operation(op) /\ Mode(h) = Short(Mode(op))
  BY DEF Has, Encodings, g_mn
<1>4. PICK k \in 0 .. 7, d \in 0 .. 31 : Mode(h) = ShownMode(k, d) /\ Operation(h) = Named(k, d)
  BY <1>3, ModeNamed
<1>5. c \in {12, 13, 14, 25, 28, 29, 30} \/ (c = 0 /\ g = 1)
  <2>1. c % 4 # 3
    BY <1>1, <1>2
  <2>2. ShownMode(g, c) \in {"abs", "absx", "absy"}
    BY <1>2
  <2>3. c \in {12, 13, 14, 15, 25, 27, 28, 29, 30, 31} \/ (c = 0 /\ g = 1)
    BY <2>2 DEF ShownMode
  <2> QED BY <2>1, <2>3
<1>6. Operation(op) # "nop"
  <2>1. SUFFICES ASSUME op = 234 PROVE FALSE
    BY <1>1
  <2>2. c = 10
    BY <1>2, <2>1 DEF Column
  <2> QED BY <1>5, <2>2
<1>7. ~ (c = 0 /\ g = 1)
  <2>1. SUFFICES ASSUME c = 0, g = 1 PROVE FALSE
    OBVIOUS
  <2>2. Mode(op) = "abs" /\ Operation(op) = "jsr"
    BY <1>2, <2>1 DEF ShownMode, Named, OperationsOf
  <2> QED BY <1>3, <1>4, <2>2, NoShort DEF Short
<1>8. c # 25
  <2>1. SUFFICES ASSUME c = 25 PROVE FALSE
    OBVIOUS
  <2>2. Mode(op) = "absy"
    BY <1>2, <2>1 DEF ShownMode
  <2>3. Operation(op) \notin {"stx", "ldx", "SAX", "LAX"}
    BY <1>2, <2>1, NamedIs DEF Accumulating
  <2> QED BY <1>3, <1>4, <2>2, <2>3, NoShort DEF Short
<1>9. ~ (c = 12 /\ g = 2)
  <2>1. SUFFICES ASSUME c = 12, g = 2 PROVE FALSE
    OBVIOUS
  <2>2. Mode(op) = "abs" /\ Operation(op) = "jmp"
    BY <1>2, <2>1 DEF ShownMode, Named, OperationsOf
  <2> QED BY <1>3, <1>4, <2>2, NoShort DEF Short
<1>10. c \in {12, 13, 14, 28, 29, 30} /\ c - 8 \in 0 .. 31
  BY <1>5, <1>7, <1>8
<1>11. Named(g, c - 8) = Named(g, c)
  <2>1. CASE c = 12
    <3>1. g # 3
      BY <1>2, <2>1 DEF ShownMode
    <3>2. Named(g, 12) = <<"nop", "bit", "jmp", "jmp", "sty", "ldy", "cpy", "cpx">>[g + 1]
      BY DEF Named, OperationsOf
    <3>3. Named(g, 4) = <<"nop", "bit", "nop", "nop", "sty", "ldy", "cpy", "cpx">>[g + 1]
      BY DEF Named, OperationsOf
    <3>4. Named(g, 4) = Named(g, 12)
      BY <1>9, <2>1, <3>1, <3>2, <3>3
    <3> QED BY <2>1, <3>4
  <2>2. CASE c = 13
    BY <2>2, NamedIs
  <2>3. CASE c = 14
    BY <2>3, NamedIs
  <2>4. CASE c = 28
    <3>1. Named(g, 28) = IF g = 4 THEN "SHY" ELSE IF g = 5 THEN "ldy" ELSE "nop"
      BY DEF Named, OperationsOf, But
    <3>2. Named(g, 20) = IF g = 4 THEN "sty" ELSE IF g = 5 THEN "ldy" ELSE "nop"
      BY DEF Named, OperationsOf, But
    <3>3. Named(g, 28) # "SHY" /\ c - 8 = 20
      BY <1>1, <1>2, <2>4
    <3> QED BY <2>4, <3>1, <3>2, <3>3
  <2>5. CASE c = 29
    BY <2>5, NamedIs
  <2>6. CASE c = 30
    <3>1. g # 4
      BY <1>1, <1>2, <2>6, NamedIs
    <3> QED BY <2>6, <3>1, NamedIs
  <2> QED BY <1>10, <2>1, <2>2, <2>3, <2>4, <2>5, <2>6
<1>12. ShownMode(g, c - 8) = Short(ShownMode(g, c))
  <2>1. g # 3 \/ c # 12
    BY <1>2 DEF ShownMode
  <2>2. CASE c \in {12, 13, 14}
    <3>1. ShownMode(g, c) = "abs"
      BY <2>1, <2>2 DEF ShownMode
    <3>2. c - 8 \in 4 .. 7
      BY <2>2
    <3>3. ShownMode(g, c - 8) = "zp"
      BY <3>2 DEF ShownMode
    <3> QED BY <3>1, <3>3 DEF Short
  <2>3. CASE c \in {28, 29}
    BY <2>3 DEF ShownMode, Short
  <2>4. CASE c = 30
    BY <2>4 DEF ShownMode, Short
  <2> QED BY <1>10, <2>2, <2>3, <2>4
<1>13. PICK o : o = op - 8
  OBVIOUS
<1>14. o \in Opcode /\ Group(o) = g /\ Column(o) = c - 8
  BY <1>1, <1>2, <1>10, <1>13, EightBefore
<1>15. Operation(o) = Operation(op) /\ Mode(o) = Short(Mode(op))
  BY <1>2, <1>11, <1>12, <1>14, ModeNamed
<1>16. Column(o) % 4 # 3
  BY <1>10, <1>14
<1>17. Documented(o)
  BY <1>1, <1>6, <1>14, <1>15, <1>16, Instances
<1> QED BY <1>15, <1>17

LEMMA InlineEntries ==
  ASSUME NEW mn, NEW mode
  PROVE  /\ Inline!Entries(mn, mode) # {} <=>
              \E op : Documented(op) /\ Operation(op) = mn /\ Mode(op) = mode
         /\ \A op \in Inline!Entries(mn, mode) :
              op \in Opcode /\ Documented(op) /\ Operation(op) = mn /\ Mode(op) = mode
<1>1. \A op : op \in Inline!Entries(mn, mode) <=>
                Documented(op) /\ Inline!Operation(op) = mn /\ Inline!Mode(op) = mode
  BY DEF Inline!Entries, Documented
<1>2. \A op : Documented(op) => op \in Opcode
  BY Instances
<1>3. \A op : op \in Inline!Entries(mn, mode) <=>
                Documented(op) /\ Operation(op) = mn /\ Mode(op) = mode
  BY <1>1, <1>2, Instances
<1> QED BY <1>2, <1>3

(* The words, without the list of them.                                    *)
LEMMA Between ==
  ASSUME NEW n \in Int, NEW w
  PROVE  w \in 0 .. n <=> w \in Int /\ 0 <= w /\ w <= n
OBVIOUS

LEMMA WordIs == \A w : w \in Word <=> w \in Int /\ 0 <= w /\ w <= 65535
<1>1. UINT16_MAX \in Int
  BY DEF UINT16_MAX
<1>2. \A w : w \in Word <=> w \in Int /\ 0 <= w /\ w <= UINT16_MAX
  BY <1>1, Between DEF Word
<1> QED BY <1>2 DEF UINT16_MAX

LEMMA WordInPage0 ==
  ASSUME NEW v \in Word
  PROVE  (v \in 0 .. 255 <=> v <= 255) /\ (~(v > 255) <=> v <= 255)
<1>1. v \in Int /\ 0 <= v
  BY WordIs
<1>2. v \in 0 .. 255 <=> v <= 255
  BY <1>1
<1>3. ~(v > 255) <=> v <= 255
  BY <1>1
<1> QED BY <1>2, <1>3

(* The inline assembler takes the mode the second pass takes, or none.     *)
LEMMA InlineChooses ==
  ASSUME NEW d \in SourceLine, NEW s, NEW a, NEW v \in Word, v = Value(d.expr, s, a),
         NEW mode \in Modes, mode = ModeOf(d, s, a), Has(d.mn, mode),
         d.hint \in {"imp", "acc"} \/ Defined(d.expr, s),
         NEW typed, typed = Inline!parse_operand(Form(d.hint), v, v > 255),
         NEW taken, taken = IF Inline!Entries(d.mn, typed) # {} THEN typed ELSE Inline!Fallback(typed)
  PROVE  /\ taken # "rel"
         /\ Inline!Entries(d.mn, taken) # {} => taken = mode
         /\ Inline!Entries(d.mn, taken) = {} => d.mn \in Branches \/ Inline!Entries(d.mn, mode) = {}
<1> DEFINE Takes(m) == Inline!Entries(d.mn, m) # {}
<1>1. \A m : Takes(m) <=> \E op : Documented(op) /\ Operation(op) = d.mn /\ Mode(op) = m
  BY InlineEntries
<1>2. \A op : Documented(op) => op \in Opcode
  BY Instances
<1>3. d.hint \in {"", "imp", "acc", "imm", "indx", "indy", "ind", "x", "y", "plain"}
  BY DEF SourceLine
<1>4. taken = IF Takes(typed) THEN typed ELSE Inline!Fallback(typed)
  OBVIOUS
<1> HIDE DEF Takes
<1>5. CASE d.hint = "imp"
  <2>1. typed = "imp" /\ Inline!Fallback(typed) = "acc"
    BY <1>5 DEF Form, Inline!parse_operand, Inline!Fallback
  <2>2. mode = IF d.mn \in AccOps THEN "acc" ELSE "imp"
    BY <1>5 DEF ModeOf, Sized
  <2>3. d.mn \in AccOps => ~Takes("imp")
    BY <1>1, <1>2, ShiftsAndBranches
  <2>4. Takes("acc") => d.mn \in AccOps
    <3>1. SUFFICES ASSUME NEW op \in Opcode, Operation(op) = d.mn, Mode(op) = "acc" PROVE d.mn \in AccOps
      BY <1>1, <1>2
    <3>2. PICK g \in 0 .. 7, c \in 0 .. 31 : Mode(op) = ShownMode(g, c) /\ Operation(op) = Named(g, c)
      BY ModeNamed
    <3>3. c = 10 /\ g < 4
      BY <3>1, <3>2 DEF ShownMode
    <3> QED BY <3>1, <3>2, <3>3, NamedIs
  <2>5. taken # "rel" /\ (Takes(taken) => taken = mode) /\ (~Takes(taken) => ~Takes(mode))
    BY <1>4, <2>1, <2>2, <2>3, <2>4
  <2> QED BY <2>5 DEF Takes
<1>6. CASE d.hint \in {"acc", "imm", "indx", "indy", "ind"}
  <2>1. typed = d.hint /\ Inline!Fallback(typed) = d.hint
    BY <1>6 DEF Form, Inline!parse_operand, Inline!Fallback
  <2>2. mode = d.hint
    BY <1>6 DEF ModeOf, Sized
  <2>3. taken = mode /\ taken # "rel"
    BY <1>4, <1>6, <2>1, <2>2
  <2> QED BY <2>3
<1>7. CASE d.hint \in {"x", "y", "plain"}
  <2> DEFINE short == ZeroPage(d.hint)
             long == Absolute(d.hint)
  <2>1. typed = IF v <= 255 THEN short ELSE long
    <3>1. Form(d.hint) = d.hint
      BY <1>7 DEF Form
    <3>2. ~(v > 255) <=> v <= 255
      BY WordInPage0
    <3>3. CASE v <= 255
      BY <1>7, <3>1, <3>2, <3>3 DEF Inline!parse_operand, ZeroPage, Absolute
    <3>4. CASE ~(v <= 255)
      BY <1>7, <3>1, <3>2, <3>4 DEF Inline!parse_operand, ZeroPage, Absolute
    <3> QED BY <3>3, <3>4
  <2>2. /\ Inline!Fallback(short) = long /\ Inline!Fallback(long) = long
        /\ long \in {"abs", "absx", "absy"} /\ Short(long) = short
        /\ short # "rel" /\ long # "rel"
    BY <1>7 DEF Inline!Fallback, ZeroPage, Absolute, Short
  <2>3. CASE d.mn \in Branches
    <3>1. taken # "rel"
      BY <1>4, <2>1, <2>2
    <3>2. ~Takes(taken)
      BY <1>1, <1>2, <2>3, <3>1, ShiftsAndBranches
    <3> QED BY <2>3, <3>1, <3>2 DEF Takes
  <2>4. CASE d.mn \notin Branches
    <3>1. mode = IF InPage0(d.expr, s, a) /\ Has(d.mn, short) THEN short ELSE long
      BY <1>7, <2>4 DEF ModeOf, Sized, Chosen
    <3>2. InPage0(d.expr, s, a) <=> v <= 255
      <4>1. Defined(d.expr, s)
        BY <1>7
      <4>2. v \in 0 .. 255 <=> v <= 255
        BY WordInPage0
      <4> QED BY <4>1, <4>2 DEF InPage0
    <3>3. Takes(short) => Has(d.mn, short)
      BY <1>1, <1>2 DEF Has, Encodings, g_mn
    <3>4. Takes(long) /\ Has(d.mn, short) => Takes(short)
      <4>1. SUFFICES ASSUME Takes(long), Has(d.mn, short) PROVE Takes(short)
        OBVIOUS
      <4>2. PICK op : Documented(op) /\ Operation(op) = d.mn /\ Mode(op) = long
        BY <1>1, <4>1
      <4>3. \E o : Documented(o) /\ Operation(o) = Operation(op) /\ Mode(o) = Short(Mode(op))
        BY <2>2, <4>1, <4>2, ShortDocumented
      <4> QED BY <1>1, <2>2, <4>2, <4>3
    <3> HIDE DEF short, long
    <3>5. taken # "rel" /\ (Takes(taken) => taken = mode) /\ (~Takes(taken) => ~Takes(mode))
      BY <1>4, <2>1, <2>2, <3>1, <3>2, <3>3, <3>4
    <3> QED BY <3>5 DEF Takes
  <2> QED BY <2>3, <2>4
<1>8. d.hint # ""
  <2>1. d.hint = "" => mode = ""
    BY DEF ModeOf, Sized
  <2> QED BY <2>1 DEF Modes
<1> QED BY <1>3, <1>5, <1>6, <1>7, <1>8

(* Operands are made the same way.                                         *)
LEMMA SameOperand ==
  ASSUME NEW d, NEW mode, mode # "rel", NEW v, v = Value(d.expr, syms, pc)
  PROVE  Inline!Operand(pc, mode, v) = Operand(d, mode)
<1>1. Inline!OperandSize(mode) = OperandSize(mode)
  BY DEF Inline!OperandSize, OperandSize
<1>2. CASE OperandSize(mode) = 0
  BY <1>1, <1>2 DEF Inline!Operand, Operand
<1>3. CASE OperandSize(mode) = 1
  BY <1>1, <1>3 DEF Inline!Operand, Operand
<1>4. CASE OperandSize(mode) = 2
  BY <1>1, <1>4 DEF Inline!Operand, Operand
<1> QED BY <1>2, <1>3, <1>4, Lengths

(* What the inline assembler makes of a line it takes.                     *)
Taking(mn, typed) == IF Inline!Entries(mn, typed) # {} THEN typed ELSE Inline!Fallback(typed)

EntryTaken(mn, mode) == CHOOSE o \in Inline!Entries(mn, mode) : TRUE

LEMMA LineMade ==
  ASSUME NEW a, NEW mn, NEW form, NEW v, NEW wide,
         NEW taken, taken = Taking(mn, Inline!parse_operand(form, v, wide)),
         Inline!Entries(mn, taken) # {}, taken # "rel"
  PROVE  /\ EntryTaken(mn, taken) \in Inline!Entries(mn, taken)
         /\ Inline!asm_line(a, mn, form, v, wide)
              = <<EntryTaken(mn, taken)>> \o Inline!Operand(a, taken, v)
<1>1. EntryTaken(mn, taken) \in Inline!Entries(mn, taken)
  BY DEF EntryTaken
<1>2. Inline!asm_line(a, mn, form, v, wide)
        = <<EntryTaken(mn, taken)>> \o Inline!Operand(a, taken, v)
  BY DEF Inline!asm_line, Taking, EntryTaken
<1> QED BY <1>1, <1>2

(* parse_operand and asm_line of the monitor (m6502/main.c) make of a line *)
(* the bytes that a6502 made of it, where they take the line at all.       *)
THEOREM InlineAndTwoPassAgree == Spec => AssemblersAgree
<1>1. SourceInv => AssembledInline
  <2>1. SUFFICES ASSUME SourceInv, EmitInstruction, ~failed'
                 PROVE  AssembledInline
    BY DEF AssembledInline
  <2>2. PICK mode, v : mode = ModeOf(D, syms, pc) /\ v = Value(D.expr, syms, pc)
    OBVIOUS
  <2>3. PICK ours : ours = ShownIn(memory', pc)
    OBVIOUS
  <2>4. /\ ours = [mn |-> D.mn, mode |-> mode, len |-> 1 + OperandSize(mode),
                   value |-> ValueShown(mode, Operand(D, mode), pc)]
        /\ D \in SourceLine /\ mode \in Modes /\ Has(D.mn, mode)
        /\ D.hint \in {"imp", "acc"} \/ Defined(D.expr, syms)
    BY <2>1, <2>2, <2>3, InstructionListed
  <2>5. PICK bytes : bytes = Inline!asm_line(pc, D.mn, Form(D.hint), v, v > 255)
    OBVIOUS
  <2>6. SUFFICES ASSUME v \in Word
                 PROVE  IF bytes = <<>>
                        THEN D.mn \in Branches \/ Inline!Entries(D.mn, ours.mode) = {}
                        ELSE Shown(pc, ByteOf(bytes, 1), ByteOf(bytes, 2), ByteOf(bytes, 3)) = ours
    BY <2>2, <2>3, <2>5 DEF AssembledInline
  <2>7. PICK typed : typed = Inline!parse_operand(Form(D.hint), v, v > 255)
    OBVIOUS
  <2>8. PICK taken : taken = IF Inline!Entries(D.mn, typed) # {} THEN typed ELSE Inline!Fallback(typed)
    OBVIOUS
  <2>9. /\ taken # "rel"
        /\ Inline!Entries(D.mn, taken) # {} => taken = mode
        /\ Inline!Entries(D.mn, taken) = {} => D.mn \in Branches \/ Inline!Entries(D.mn, mode) = {}
    BY <2>2, <2>4, <2>6, <2>7, <2>8, InlineChooses
  <2>10. CASE Inline!Entries(D.mn, taken) = {}
    <3>1. bytes = <<>>
      BY <2>5, <2>7, <2>8, <2>10 DEF Inline!asm_line
    <3>2. ours.mode = mode
      BY <2>4
    <3> QED BY <2>9, <2>10, <3>1, <3>2
  <2>11. CASE Inline!Entries(D.mn, taken) # {}
    <3>1. taken = mode
      BY <2>9, <2>11
    <3>2. PICK op \in Inline!Entries(D.mn, mode) :
             bytes = <<op>> \o Inline!Operand(pc, mode, v)
      <4>1. PICK form, wide : form = Form(D.hint) /\ wide = (v > 255)
        OBVIOUS
      <4>2. taken # "rel"
        BY <2>9
      <4>3. typed = Inline!parse_operand(form, v, wide)
        BY <2>7, <4>1
      <4>4. /\ EntryTaken(D.mn, taken) \in Inline!Entries(D.mn, taken)
            /\ Inline!asm_line(pc, D.mn, form, v, wide)
                 = <<EntryTaken(D.mn, taken)>> \o Inline!Operand(pc, taken, v)
        <5>1. Inline!Entries(D.mn, taken) # {} /\ taken = Taking(D.mn, typed)
          BY <2>8, <2>11 DEF Taking
        <5> QED BY <4>2, <4>3, <5>1, LineMade
      <4>5. bytes = Inline!asm_line(pc, D.mn, form, v, wide)
        BY <2>5, <4>1
      <4> QED BY <3>1, <4>4, <4>5
    <3>3. op \in Opcode /\ Operation(op) = D.mn /\ Mode(op) = mode
      BY InlineEntries
    <3>4. PICK ops : ops = Operand(D, mode)
      OBVIOUS
    <3>5. bytes = <<op>> \o ops
      BY <2>2, <2>9, <3>1, <3>2, <3>4, SameOperand
    <3>6. ops \in Seq(Byte) /\ Len(ops) = OperandSize(mode)
      <4>1. pc \in Int /\ v \in Int
        BY <2>1, <2>6, WordIs DEF SourceInv, Values
      <4> QED BY <2>2, <2>4, <3>4, <4>1, OperandBytes
    <3>7. op \in Byte /\ <<op>> \in Seq(Byte) /\ Len(<<op>>) = 1 /\ <<op>>[1] = op
      BY <3>3 DEF Opcode
    <3>8. /\ bytes \in Seq(Byte) /\ Len(bytes) = 1 + OperandSize(mode)
          /\ bytes[1] = op
          /\ \A i \in 1 .. OperandSize(mode) : bytes[i + 1] = ops[i]
      BY <3>5, <3>6, <3>7, ConcatProperties, Lengths
    <3>9. DOMAIN bytes = 1 .. 1 + OperandSize(mode) /\ OperandSize(mode) \in {0, 1, 2}
      BY <3>8, LenProperties, Lengths
    <3>10. /\ ByteOf(bytes, 1) = op
           /\ OperandSize(mode) # 0 => ByteOf(bytes, 2) = ops[1]
           /\ OperandSize(mode) = 2 => ByteOf(bytes, 3) = ops[2]
      <4>1. 1 \in DOMAIN bytes /\ ByteOf(bytes, 1) = op
        BY <3>8, <3>9 DEF ByteOf
      <4>2. ASSUME OperandSize(mode) # 0 PROVE ByteOf(bytes, 2) = ops[1]
        <5>1. 2 \in DOMAIN bytes /\ bytes[1 + 1] = ops[1]
          BY <3>8, <3>9, <4>2
        <5> QED BY <5>1 DEF ByteOf
      <4>3. ASSUME OperandSize(mode) = 2 PROVE ByteOf(bytes, 3) = ops[2]
        <5>1. 3 \in DOMAIN bytes /\ bytes[2 + 1] = ops[2]
          BY <3>8, <3>9, <4>3
        <5> QED BY <5>1 DEF ByteOf
      <4> QED BY <4>1, <4>2, <4>3
    <3>11. Shown(pc, ByteOf(bytes, 1), ByteOf(bytes, 2), ByteOf(bytes, 3)) = ours
      BY <2>4, <3>3, <3>4, <3>10, LineShown
    <3>12. bytes # <<>>
      <4>1. Len(bytes) # 0
        BY <3>8, <3>9
      <4> QED BY <4>1
    <3> QED BY <3>11, <3>12
  <2> QED BY <2>10, <2>11
<1> QED BY <1>1, SourceInit, SourceStep, PTL DEF Spec, AssemblersAgree
=============================================================================
