-------------------------------- MODULE Alu --------------------------------
(***************************************************************************)
(* The arithmetic of m6502.c: what each operation makes of the accumulator *)
(* a, an operand v, the carry c and the decimal flag d.  Results are       *)
(* records of the byte and of the flags the operation sets.                *)
(***************************************************************************)
EXTENDS Bytes

Zero(r)     == Flag(Byte8(r) = 0)
Negative(r) == BitOf(r, 128)
Carry(r)    == BitOf(r, 256)               \* bit 8 of a uint16_t
(* ((r ^ a) & (r ^ m) & 0x80) != 0 *)
Overflow(r, a, m) ==
  Flag(BitOf(r, 128) # BitOf(a, 128) /\ BitOf(r, 128) # BitOf(m, 128))

-----------------------------------------------------------------------------
AdcBinary(a, v, c) ==
  LET r == a + v + c
  IN  [a |-> Byte8(r), c |-> Carry(r), z |-> Zero(r), n |-> Negative(r),
       v |-> Overflow(r, a, v)]

(* Fault: the low digit is adjusted one too late. *)
LowSumLate(a, v, c) ==
  LET s == LowDigit(a) + LowDigit(v) + c
  IN  IF s > 10 THEN LowDigit(s + 6) + 16 ELSE s

(* the low digit, with its carry into the high one *)
LowSum(a, v, c) ==
  LET s == LowDigit(a) + LowDigit(v) + c
  IN  IF s >= 10 THEN LowDigit(s + 6) + 16 ELSE s

(* Fault: the sum is not cut to a byte. *)
AdcDecimalWide(a, v, c) ==
  LET al == LowSum(a, v, c) + HighDigit(a) + HighDigit(v)
      r  == IF al >= 160 THEN al + 96 ELSE al
  IN  [a |-> r, c |-> Carry(r), z |-> Zero(a + v + c), n |-> Negative(al),
       v |-> Overflow(al, a, v)]

(* Z comes from the binary sum, N and V from the sum before the high digit *)
(* is adjusted, as on an NMOS 6502.                                        *)
AdcDecimal(a, v, c) ==
  LET al == LowSum(a, v, c) + HighDigit(a) + HighDigit(v)
      r  == IF al >= 160 THEN al + 96 ELSE al
  IN  [a |-> Byte8(r), c |-> Carry(r), z |-> Zero(a + v + c), n |-> Negative(al),
       v |-> Overflow(al, a, v)]

Adc(a, v, c, d) == IF d = 1 THEN AdcDecimal(a, v, c) ELSE AdcBinary(a, v, c)

(* SBC adds the complement; decimal mode changes the byte, not the flags. *)
SbcBinary(a, b, c) == AdcBinary(a, Flip(b), c)

LowDifference(a, b, c) ==
  LET s == LowDigit(a) - LowDigit(b) + c - 1
  IN  IF s < 0 THEN LowDigit(s - 6) - 16 ELSE s

SbcDecimal(a, b, c) ==
  LET s == HighDigit(a) - HighDigit(b) + LowDifference(a, b, c)
      r == IF s < 0 THEN s - 96 ELSE s
  IN  [SbcBinary(a, b, c) EXCEPT !.a = Byte8(r)]

Sbc(a, b, c, d) == IF d = 1 THEN SbcDecimal(a, b, c) ELSE SbcBinary(a, b, c)

-----------------------------------------------------------------------------
(* cmp_reg: the carry is an unsigned comparison *)
Compare(r, v) ==
  [c |-> Flag(r >= v), z |-> Flag(r = v), n |-> Negative(Byte8(r - v))]

(* the shifts and rotations, by name: the byte and the bit shifted out *)
Shifted(op, v, c) ==
  CASE op = "asl" -> [r |-> Byte8(2 * v),     c |-> BitOf(v, 128)]
    [] op = "rol" -> [r |-> Byte8(2 * v + c), c |-> BitOf(v, 128)]
    [] op = "lsr" -> [r |-> v \div 2,           c |-> BitOf(v, 1)]
    [] op = "ror" -> [r |-> v \div 2 + 128 * c, c |-> BitOf(v, 1)]

(* and, eor, ora *)
Combined(op, a, v) ==
  CASE op = "and" -> BitAnd(a, v)
    [] op = "eor" -> BitXor(a, v)
    [] op = "ora" -> BitOr(a, v)

(* ARR: and, rotate right, and flags of its own in either mode *)
Arr(a, v, c, d) ==
  LET pre == BitAnd(a, v)
      r   == pre \div 2 + 128 * c
      low  == LowDigit(pre) + BitOf(pre, 1) > 5
      high == pre + 16 * BitOf(pre, 16) >= 96
      adj  == IF low THEN HighDigit(r) + LowDigit(r + 6) ELSE r
  IN  IF d = 0
      THEN [a |-> r, z |-> Zero(r), n |-> Negative(r), c |-> BitOf(r, 64),
            v |-> Flag(BitOf(r, 64) # BitOf(r, 32))]
      ELSE [a |-> IF high THEN Byte8(adj + 96) ELSE adj,
            z |-> Zero(r), n |-> Negative(r), c |-> Flag(high),
            v |-> Flag(BitOf(r, 64) # BitOf(pre, 64))]

-----------------------------------------------------------------------------
(* the status byte: bit 5 always set, bit 4 (B) only in pushed copies *)
PackP(f) == 128 * f["n"] + 64 * f["v"] + 32 + 8 * f["d"] + 4 * f["i"] + 2 * f["z"] + f["c"]
UnpackP(p) == [n |-> BitOf(p, 128), v |-> BitOf(p, 64), d |-> BitOf(p, 8),
               i |-> BitOf(p, 4), z |-> BitOf(p, 2), c |-> BitOf(p, 1)]
Pushed(p)   == IF BitOf(p, 16) = 0 THEN p + 16 ELSE p      \* p | 0x10
Unbroken(p) == IF BitOf(p, 16) = 1 THEN p - 16 ELSE p      \* p & ~0x10

-----------------------------------------------------------------------------
(* What the arithmetic promises of its result r: the carry completes the   *)
(* sum or the difference, the overflow tells that the signed one does not  *)
(* fit in a byte, and in decimal mode decimal digits give decimal digits.  *)
Fits(n)      == -128 <= n /\ n <= 127
Decimal(v)   == 10 * (v \div 16) + LowDigit(v)
IsDecimal(v) == v < 160 /\ LowDigit(v) < 10

Sums(a, v, c, d, r) ==
  /\ d = 0 => /\ r.a + 256 * r.c = a + v + c
              /\ r.v = Flag(~Fits(Signed(a) + Signed(v) + c))
  /\ d = 1 /\ IsDecimal(a) /\ IsDecimal(v) =>
       /\ IsDecimal(r.a)
       /\ Decimal(r.a) + 100 * r.c = Decimal(a) + Decimal(v) + c

Differences(a, b, c, d, r) ==
  /\ d = 0 => /\ r.a = a - b - (1 - c) + 256 * (1 - r.c)
              /\ r.v = Flag(~Fits(Signed(a) - Signed(b) - (1 - c)))
  /\ d = 1 /\ IsDecimal(a) /\ IsDecimal(b) =>
       /\ IsDecimal(r.a)
       /\ Decimal(r.a) = Decimal(a) - Decimal(b) - (1 - c) + 100 * (1 - r.c)
=============================================================================
