-------------------------------- MODULE CPU --------------------------------
(***************************************************************************)
(* The 6502 of m6502.c behind its four calls: m6502_reset, m6502_step,     *)
(* m6502_irq and m6502_nmi, made in any order after a first reset.  An     *)
(* action is one call; m6502_step has one action per operation.            *)
(*                                                                         *)
(* The read and write callbacks belong to the caller.  Here they are a     *)
(* memory map with RAM at Ram; elsewhere reads give 0 and writes are lost. *)
(***************************************************************************)
EXTENDS Opcodes, Alu

CONSTANTS
  Ram,      \* the addresses that remember what is written
  Images    \* the memory contents a machine may start from

ASSUME RamAssumption == Ram \subseteq Word
ASSUME ImagesAssumption == Images \subseteq [Ram -> Byte]

VARIABLES
  pc,
  reg,     \* the registers a, x, y and sp
  flag,    \* the flags n, v, d, i, z and c, each 0 or 1
  mem

vars == <<pc, reg, flag, mem>>

Rd(m, a) == IF a \in Ram THEN m[a] ELSE 0
Wr(m, a, v) == IF a \in Ram THEN [m EXCEPT ![a] = v] ELSE m
Rd16(m, a) == Address(Rd(m, a), Rd(m, Plus(a, 1)))

-----------------------------------------------------------------------------
(* the stack: page one, full-descending, and it wraps *)
Push8(m, sp, v) == Wr(m, 256 + sp, v)
Push16(m, sp, w) == Push8(Push8(m, sp, Hi(w)), Byte8(sp - 1), Lo(w))
Framed(m, sp, w, p) == Push8(Push16(m, sp, w), Byte8(sp - 2), p)
Pull8(m, sp) == Rd(m, 256 + Byte8(sp + 1))
Pull16(m, sp) == Address(Pull8(m, sp), Pull8(m, Byte8(sp + 1)))

Sp(n) == Byte8(reg["sp"] + n)

-----------------------------------------------------------------------------
(* the instruction at pc and its operand *)
Op        == Rd(mem, pc)
AddrMode  == Mode(Op)
Is(o)     == Operation(Op) = o
After     == Plus(pc, 1 + OperandSize(AddrMode))
Operand   == Rd(mem, Plus(pc, 1))
Operand16 == Rd16(mem, Plus(pc, 1))

ZpWord(p) == Address(Rd(mem, Byte8(p)), Rd(mem, Byte8(p + 1)))
(* the indirect jump does not carry into the page of its pointer *)
SamePageWord(p) == Address(Rd(mem, p), Rd(mem, 256 * Hi(p) + Byte8(p + 1)))

(* the address before indexing *)
Base == IF AddrMode = "indy" THEN ZpWord(Operand) ELSE Operand16
Index == IF AddrMode = "absx" THEN reg["x"] ELSE reg["y"]
Indexed == AddrMode \in {"absx", "absy", "indy"}

EffectiveAddress ==
  CASE AddrMode = "imm"  -> Plus(pc, 1)
    [] AddrMode = "zp"   -> Operand
    [] AddrMode = "zpx"  -> Byte8(Operand + reg["x"])
    [] AddrMode = "zpy"  -> Byte8(Operand + reg["y"])
    [] AddrMode = "abs"  -> Operand16
    [] AddrMode = "rel"  -> Plus(pc, 2 + Signed(Operand))
    [] AddrMode = "ind"  -> SamePageWord(Operand16)
    [] AddrMode = "indx" -> ZpWord(Operand + reg["x"])
    [] Indexed           -> Plus(Base, Index)
    [] OTHER             -> 0

Value == IF AddrMode = "acc" THEN reg["a"] ELSE Rd(mem, EffectiveAddress)

(* putval: what the registers and the memory become *)
PutReg(v) == IF AddrMode = "acc" THEN [reg EXCEPT !["a"] = v] ELSE reg
PutMem(v) == IF AddrMode = "acc" THEN mem ELSE Wr(mem, EffectiveAddress, v)
(* a second read of the operand, after a write to it *)
Reread(v) == Rd(Wr(mem, EffectiveAddress, v), EffectiveAddress)

ZN(f, v) == [f EXCEPT !["z"] = Zero(v), !["n"] = Negative(v)]
ZNC(f, v, c) == [ZN(f, v) EXCEPT !["c"] = c]
Arithmetic(f, r) == [f EXCEPT !["z"] = r.z, !["n"] = r.n, !["c"] = r.c, !["v"] = r.v]
Compared(f, r) == [f EXCEPT !["z"] = r.z, !["n"] = r.n, !["c"] = r.c]

(* what most operations are: new registers, flags and memory, and on to    *)
(* the next instruction                                                    *)
Does(o, r, f, m) ==
  /\ Is(o)
  /\ reg' = r /\ flag' = f /\ mem' = m
  /\ pc' = After

-----------------------------------------------------------------------------
(* loads, stores, transfers, counting *)
Load(o, r) == Does(o, [reg EXCEPT ![r] = Value], ZN(flag, Value), mem)
Store(o, v) == Does(o, reg, flag, Wr(mem, EffectiveAddress, v))
Transfer(o, from, to) == Does(o, [reg EXCEPT ![to] = reg[from]], ZN(flag, reg[from]), mem)
Txs == Does("txs", [reg EXCEPT !["sp"] = reg["x"]], flag, mem)
Count(o, r, by) ==
  LET v == Byte8(reg[r] + by) IN Does(o, [reg EXCEPT ![r] = v], ZN(flag, v), mem)
CountMemory(o, by) ==
  LET v == Byte8(Value + by) IN Does(o, reg, ZN(flag, v), PutMem(v))

(* arithmetic and logic *)
Add == LET r == Adc(reg["a"], Value, flag["c"], flag["d"])
       IN  Does("adc", [reg EXCEPT !["a"] = r.a], Arithmetic(flag, r), mem)
Subtract == LET r == Sbc(reg["a"], Value, flag["c"], flag["d"])
            IN  Does("sbc", [reg EXCEPT !["a"] = r.a], Arithmetic(flag, r), mem)

Logic(o) ==
  LET r == Combined(o, reg["a"], Value) IN Does(o, [reg EXCEPT !["a"] = r], ZN(flag, r), mem)
Cmp(o, r) == Does(o, reg, Compared(flag, Compare(reg[r], Value)), mem)
TestBits == Does("bit", reg, [flag EXCEPT !["z"] = Zero(BitAnd(reg["a"], Value)),
                                          !["n"] = BitOf(Value, 128), !["v"] = BitOf(Value, 64)], mem)
Shift(o) ==
  LET s == Shifted(o, Value, flag["c"])
  IN  Does(o, PutReg(s.r), ZNC(flag, s.r, s.c), PutMem(s.r))
SetFlag(o, f, b) == Does(o, reg, [flag EXCEPT ![f] = b], mem)

-----------------------------------------------------------------------------
(* control *)
Jumps(o, to, sp, f, m) ==
  /\ Is(o)
  /\ pc' = to
  /\ reg' = [reg EXCEPT !["sp"] = sp] /\ flag' = f /\ mem' = m

Branches == {<<"bpl", "n", 0>>, <<"bvc", "v", 0>>, <<"bcc", "c", 0>>, <<"bne", "z", 0>>,
             <<"bmi", "n", 1>>, <<"bvs", "v", 1>>, <<"bcs", "c", 1>>, <<"beq", "z", 1>>}

Branch(o, f, b) ==
  Jumps(o, IF flag[f] = b THEN EffectiveAddress ELSE After, reg["sp"], flag, mem)

Jmp == Jumps("jmp", EffectiveAddress, reg["sp"], flag, mem)
(* the address pushed is that of the last byte of the instruction *)
Jsr == Jumps("jsr", EffectiveAddress, Sp(-2), flag, Push16(mem, reg["sp"], Plus(After, -1)))
(* Fault: RTS resumes at the address JSR pushed. *)
RtsShort == Jumps("rts", Pull16(mem, reg["sp"]), Sp(2), flag, mem)
Rts == Jumps("rts", Plus(Pull16(mem, reg["sp"]), 1), Sp(2), flag, mem)
(* Fault: RTI pulls two bytes of the three. *)
RtiLow == Jumps("rti", Pull16(mem, Sp(1)), Sp(2), UnpackP(Pull8(mem, reg["sp"])), mem)
Rti == Jumps("rti", Pull16(mem, Sp(1)), Sp(3), UnpackP(Pull8(mem, reg["sp"])), mem)
Jam == Jumps("JAM", pc, reg["sp"], flag, mem)       \* stuck on this opcode

NmiVector   == 65530
ResetVector == 65532
IrqVector   == 65534

(* Fault: entering a handler leaves interrupts enabled. *)
EnterUnmasked(return, p, vector) ==
  /\ mem' = Framed(mem, reg["sp"], return, p)
  /\ reg' = [reg EXCEPT !["sp"] = Sp(-3)]
  /\ flag' = flag
  /\ pc' = Rd16(mem', vector)

(* the way into a handler, for BRK, IRQ and NMI *)
Enter(return, p, vector) ==
  /\ mem' = Framed(mem, reg["sp"], return, p)
  /\ reg' = [reg EXCEPT !["sp"] = Sp(-3)]
  /\ flag' = [flag EXCEPT !["i"] = 1]
  /\ pc' = Rd16(mem', vector)

(* Fault: BRK pushes the status an interrupt would push. *)
BrkUnmarked == Is("brk") /\ Enter(Plus(After, 1), Unbroken(PackP(flag)), IrqVector)

(* BRK skips a padding byte and marks the pushed status with B *)
Brk == Is("brk") /\ Enter(Plus(After, 1), Pushed(PackP(flag)), IrqVector)

Push(o, v) == Does(o, [reg EXCEPT !["sp"] = Sp(-1)], flag, Push8(mem, reg["sp"], v))
Pla == LET v == Pull8(mem, reg["sp"])
       IN  Does("pla", [reg EXCEPT !["a"] = v, !["sp"] = Sp(1)], ZN(flag, v), mem)
Plp == Does("plp", [reg EXCEPT !["sp"] = Sp(1)], UnpackP(Pull8(mem, reg["sp"])), mem)
Nop == Does("nop", reg, flag, mem)

-----------------------------------------------------------------------------
(* The undocumented operations.  Those made of two others do both, and the *)
(* second reads the operand again.                                         *)
Changed(v) == Wr(mem, EffectiveAddress, v)

ShiftAndCombine(o, shift, combine) ==
  LET s == Shifted(shift, Value, flag["c"])
      r == Combined(combine, reg["a"], Reread(s.r))
  IN  Does(o, [reg EXCEPT !["a"] = r], ZNC(flag, r, s.c), Changed(s.r))
RRA ==
  LET s == Shifted("ror", Value, flag["c"])
      r == Adc(reg["a"], Reread(s.r), s.c, flag["d"])
  IN  Does("RRA", [reg EXCEPT !["a"] = r.a], Arithmetic(flag, r), Changed(s.r))
ISC ==
  LET v == Byte8(Value + 1)
      r == Sbc(reg["a"], Reread(v), flag["c"], flag["d"])
  IN  Does("ISC", [reg EXCEPT !["a"] = r.a], Arithmetic(flag, r), Changed(v))
DCP ==
  LET v == Byte8(Value - 1)
  IN  Does("DCP", reg, Compared(flag, Compare(reg["a"], Reread(v))), Changed(v))
LAX == Does("LAX", [reg EXCEPT !["a"] = Value, !["x"] = Value], ZN(flag, Value), mem)
ANC == LET r == BitAnd(reg["a"], Value)
       IN  Does("ANC", [reg EXCEPT !["a"] = r], ZNC(flag, r, BitOf(r, 128)), mem)
ALR == LET r == BitAnd(reg["a"], Value)
       IN  Does("ALR", [reg EXCEPT !["a"] = r \div 2], ZNC(flag, r \div 2, BitOf(r, 1)), mem)
ARR == LET r == Arr(reg["a"], Value, flag["c"], flag["d"])
       IN  Does("ARR", [reg EXCEPT !["a"] = r.a], Arithmetic(flag, r), mem)
SBX == LET r == BitAnd(reg["a"], reg["x"])
       IN  Does("SBX", [reg EXCEPT !["x"] = Byte8(r - Value)], Compared(flag, Compare(r, Value)), mem)
LAS == LET r == BitAnd(Value, reg["sp"])
       IN  Does("LAS", [reg EXCEPT !["sp"] = r, !["a"] = r, !["x"] = r], ZN(flag, r), mem)
ANE == LET r == BitAnd(BitAnd(BitOr(reg["a"], 239), reg["x"]), Value)
       IN  Does("ANE", [reg EXCEPT !["a"] = r], ZN(flag, r), mem)
LXA == LET r == BitAnd(BitOr(reg["a"], 238), Value)
       IN  Does("LXA", [reg EXCEPT !["a"] = r, !["x"] = r], ZN(flag, r), mem)

AndHigh(v) == BitAnd(v, Byte8(Hi(EffectiveAddress) + 1))
TAS == LET s == BitAnd(reg["a"], reg["x"])
       IN  Does("TAS", [reg EXCEPT !["sp"] = s], flag, Changed(AndHigh(s)))
(* SHX and SHY: a crossed page moves the store *)
StoreHigh(o, r, index) ==
  LET base == Word16(EffectiveAddress - index)
      v    == BitAnd(reg[r], Byte8(Hi(base) + 1))
      ea   == IF Lo(base) + index > 255 THEN Address(Lo(EffectiveAddress), v)
                                        ELSE EffectiveAddress
  IN  Does(o, reg, flag, Wr(mem, ea, v))

-----------------------------------------------------------------------------
Official ==
  \/ Load("lda", "a") \/ Load("ldx", "x") \/ Load("ldy", "y")
  \/ Store("sta", reg["a"]) \/ Store("stx", reg["x"]) \/ Store("sty", reg["y"])
  \/ Transfer("tax", "a", "x") \/ Transfer("tay", "a", "y") \/ Transfer("txa", "x", "a")
  \/ Transfer("tya", "y", "a") \/ Transfer("tsx", "sp", "x") \/ Txs
  \/ Count("inx", "x", 1) \/ Count("iny", "y", 1) \/ Count("dex", "x", -1) \/ Count("dey", "y", -1)
  \/ CountMemory("inc", 1) \/ CountMemory("dec", -1)
  \/ Add \/ Subtract \/ TestBits
  \/ \E o \in {"and", "eor", "ora"} : Logic(o)
  \/ Cmp("cmp", "a") \/ Cmp("cpx", "x") \/ Cmp("cpy", "y")
  \/ \E o \in {"asl", "rol", "lsr", "ror"} : Shift(o)
  \/ SetFlag("clc", "c", 0) \/ SetFlag("cld", "d", 0) \/ SetFlag("cli", "i", 0) \/ SetFlag("clv", "v", 0)
  \/ SetFlag("sec", "c", 1) \/ SetFlag("sed", "d", 1) \/ SetFlag("sei", "i", 1)
  \/ \E b \in Branches : Branch(b[1], b[2], b[3])
  \/ Jmp \/ Jsr \/ Rts \/ Rti \/ Brk
  \/ Push("pha", reg["a"]) \/ Push("php", Pushed(PackP(flag))) \/ Pla \/ Plp
  \/ Nop

Undocumented ==
  \/ ShiftAndCombine("SLO", "asl", "ora")
  \/ ShiftAndCombine("RLA", "rol", "and")
  \/ ShiftAndCombine("SRE", "lsr", "eor")
  \/ RRA \/ ISC \/ DCP
  \/ Store("SAX", BitAnd(reg["a"], reg["x"]))
  \/ Store("SHA", AndHigh(BitAnd(reg["a"], reg["x"])))
  \/ StoreHigh("SHX", "x", reg["y"]) \/ StoreHigh("SHY", "y", reg["x"])
  \/ LAX \/ ANC \/ ALR \/ ARR \/ SBX \/ LAS \/ TAS \/ ANE \/ LXA
  \/ Jam

(* m6502_step *)
Step == Official \/ Undocumented

(* Fault: IRQ pushes the status with B, as BRK does. *)
IrqMarked == flag["i"] = 0 /\ Enter(pc, Pushed(PackP(flag)), IrqVector)

(* m6502_irq, a call without effect when interrupts are masked *)
Irq == flag["i"] = 0 /\ Enter(pc, Unbroken(PackP(flag)), IrqVector)

(* m6502_nmi *)
Nmi == Enter(pc, Unbroken(PackP(flag)), NmiVector)

(* m6502_reset *)
ResetReg  == [r \in {"a", "x", "y", "sp"} |-> IF r = "sp" THEN 253 ELSE 0]
ResetFlag == [f \in {"n", "v", "d", "i", "z", "c"} |-> Flag(f = "i")]

Reset ==
  /\ reg' = ResetReg
  /\ flag' = ResetFlag
  /\ pc' = Rd16(mem, ResetVector)
  /\ mem' = mem

(* both programs load their memory, initialise the processor and reset it *)
Init ==
  /\ mem \in Images
  /\ reg = ResetReg
  /\ flag = ResetFlag
  /\ pc = Rd16(mem, ResetVector)

Next == Step \/ Irq \/ Nmi \/ Reset

Spec == Init /\ [][Next]_vars

-----------------------------------------------------------------------------
(* Registers stay bytes, flags stay bits and pc stays a word: every        *)
(* wrap-around of the C types is where it must be.                         *)
TypeOK ==
  /\ pc \in Word
  /\ reg \in [{"a", "x", "y", "sp"} -> Byte]
  /\ flag \in [{"n", "v", "d", "i", "z", "c"} -> {0, 1}]
  /\ mem \in [Ram -> Byte]

(* ADC adds and SBC subtracts, in both modes: what Alu promises holds of   *)
(* the registers and flags of every step.                                  *)
Result == [a |-> reg'["a"], c |-> flag'["c"], v |-> flag'["v"]]
Calculates ==
  [][/\ Add => Sums(reg["a"], Value, flag["c"], flag["d"], Result)
     /\ Subtract => Differences(reg["a"], Value, flag["c"], flag["d"], Result)]_vars
=============================================================================
