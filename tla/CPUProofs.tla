----------------------------- MODULE CPUProofs -----------------------------
(***************************************************************************)
(* Theorems of CPU, for any memory map and any program in it; first, those *)
(* of its arithmetic, for every operand.  Then of Interrupted: what the    *)
(* stack holds for pending calls and interrupts, for any program that      *)
(* keeps the discipline, wherever its interrupts fall and however deep     *)
(* they nest.                                                              *)
(***************************************************************************)
EXTENDS Interrupted, TLAPS

Bit == {0, 1}
Weight == {1, 2, 4, 8, 16, 32, 64, 128, 256}

(* A bit of a number is 0 or 1. *)
LEMMA BitIsBit ==
  ASSUME NEW v \in Int, NEW w \in Weight
  PROVE  BitOf(v, w) \in Bit
BY DEF BitOf, Bit, Weight

(* A byte is the sum of its bits. *)
LEMMA BitsOfByte ==
  ASSUME NEW v \in Byte
  PROVE  v = 128 * BitOf(v, 128) + 64 * BitOf(v, 64) + 32 * BitOf(v, 32) + 16 * BitOf(v, 16)
               + 8 * BitOf(v, 8) + 4 * BitOf(v, 4) + 2 * BitOf(v, 2) + BitOf(v, 1)
BY DEF BitOf, Byte

(* A conjunction of bytes is a byte and not more than either. *)
LEMMA AndIsByte ==
  ASSUME NEW a \in Byte, NEW b \in Byte
  PROVE  BitAnd(a, b) \in Byte /\ BitAnd(a, b) <= a /\ BitAnd(a, b) <= b
<1> DEFINE A(w) == BitOf(a, w)
           B(w) == BitOf(b, w)
<1>1. \A w \in Weight : A(w) \in Bit /\ B(w) \in Bit
  BY BitIsBit DEF Byte
<1>2. \A w \in Weight : A(w) * B(w) \in Bit /\ A(w) * B(w) <= A(w) /\ A(w) * B(w) <= B(w)
  BY <1>1 DEF Bit
<1> DEFINE P(w) == A(w) * B(w)
<1>3. BitAnd(a, b) = 128 * P(128) + 64 * P(64) + 32 * P(32) + 16 * P(16)
                       + 8 * P(8) + 4 * P(4) + 2 * P(2) + P(1)
  BY DEF BitAnd, FromBits
<1>4. \A w \in Weight : P(w) \in Bit /\ P(w) <= A(w) /\ P(w) <= B(w)
  BY <1>2
<1>5. a = 128 * A(128) + 64 * A(64) + 32 * A(32) + 16 * A(16)
            + 8 * A(8) + 4 * A(4) + 2 * A(2) + A(1)
  BY BitsOfByte
<1>6. b = 128 * B(128) + 64 * B(64) + 32 * B(32) + 16 * B(16)
            + 8 * B(8) + 4 * B(4) + 2 * B(2) + B(1)
  BY BitsOfByte
<1> HIDE DEF A, B, P
<1> QED BY <1>1, <1>3, <1>4, <1>5, <1>6 DEF Bit, Weight, Byte

(* Disjunction and exclusive or of bytes are bytes. *)
LEMMA OrIsByte ==
  ASSUME NEW a \in Byte, NEW b \in Byte
  PROVE  BitOr(a, b) \in Byte /\ BitXor(a, b) \in Byte
<1> DEFINE A(w) == BitOf(a, w)
           B(w) == BitOf(b, w)
           P(w) == A(w) * B(w)
<1>1. \A w \in Weight : A(w) \in Bit /\ B(w) \in Bit
  BY BitIsBit DEF Byte
<1>3. BitAnd(a, b) = 128 * P(128) + 64 * P(64) + 32 * P(32) + 16 * P(16)
                       + 8 * P(8) + 4 * P(4) + 2 * P(2) + P(1)
  BY DEF BitAnd, FromBits
<1>4. a = 128 * A(128) + 64 * A(64) + 32 * A(32) + 16 * A(16)
            + 8 * A(8) + 4 * A(4) + 2 * A(2) + A(1)
  BY BitsOfByte
<1>5. b = 128 * B(128) + 64 * B(64) + 32 * B(32) + 16 * B(16)
            + 8 * B(8) + 4 * B(4) + 2 * B(2) + B(1)
  BY BitsOfByte
<1>6. \A w \in Weight : A(w) + B(w) <= 1 + P(w) /\ P(w) \in Bit
  BY <1>1 DEF Bit
<1> HIDE DEF A, B, P
<1>7. a + b <= 255 + BitAnd(a, b)
  <2> DEFINE aHigh == 128 * A(128) + 64 * A(64) + 32 * A(32) + 16 * A(16)
             bHigh == 128 * B(128) + 64 * B(64) + 32 * B(32) + 16 * B(16)
             pHigh == 128 * P(128) + 64 * P(64) + 32 * P(32) + 16 * P(16)
             aLow  == 8 * A(8) + 4 * A(4) + 2 * A(2) + A(1)
             bLow  == 8 * B(8) + 4 * B(4) + 2 * B(2) + B(1)
             pLow  == 8 * P(8) + 4 * P(4) + 2 * P(2) + P(1)
             one(w) == A(w) \in Int /\ B(w) \in Int /\ P(w) \in Int /\ A(w) + B(w) <= 1 + P(w)
  <2>0. \A w \in Weight : one(w)
    BY <1>1, <1>6 DEF Bit
  <2>1. aHigh + bHigh <= 240 + pHigh /\ aHigh \in Int /\ bHigh \in Int /\ pHigh \in Int
    <3>1. one(128) /\ one(64) /\ one(32) /\ one(16)
      BY <2>0 DEF Weight
    <3> QED BY <3>1
  <2>2. aLow + bLow <= 15 + pLow /\ aLow \in Int /\ bLow \in Int /\ pLow \in Int
    <3>1. one(8) /\ one(4) /\ one(2) /\ one(1)
      BY <2>0 DEF Weight
    <3> QED BY <3>1
  <2>3. a = aHigh + aLow /\ b = bHigh + bLow /\ BitAnd(a, b) = pHigh + pLow
    BY <1>1, <1>3, <1>4, <1>5, <1>6 DEF Weight, Bit
  <2> HIDE DEF aHigh, bHigh, pHigh, aLow, bLow, pLow
  <2> QED BY <2>1, <2>2, <2>3
<1> DEFINE m == BitAnd(a, b)
<1>8. m \in Byte /\ m <= a /\ m <= b /\ a + b <= 255 + m
  BY <1>7, AndIsByte
<1>9. BitOr(a, b) = a + b - m /\ BitXor(a, b) = a + b - 2 * m
  BY DEF BitOr, BitXor
<1> HIDE DEF m
<1> QED BY <1>8, <1>9 DEF Byte

-----------------------------------------------------------------------------
AluResult == [a : Byte, c : Bit, z : Bit, n : Bit, v : Bit]

(* ADC in binary: the carry completes the sum, the overflow is the signed  *)
(* one (op_adc).                                                           *)
THEOREM BinarySum ==
  ASSUME NEW a \in Byte, NEW v \in Byte, NEW c \in Bit
  PROVE  LET r == AdcBinary(a, v, c)
         IN  /\ r \in AluResult
             /\ Sums(a, v, c, 0, r)
<1> DEFINE r == AdcBinary(a, v, c)
<1>1. r.a = (a + v + c) % 256 /\ r.c = ((a + v + c) \div 256) % 2
  BY DEF AdcBinary, Byte8, Carry, BitOf
<1>2. r.a + 256 * r.c = a + v + c
  BY <1>1 DEF Byte, Bit
<1>3. r \in AluResult
  <2>1. a + v + c \in Int
    BY DEF Byte, Bit
  <2>2. Byte8(a + v + c) \in Byte
    BY <2>1 DEF Byte8, Byte
  <2>3. Carry(a + v + c) \in Bit /\ Negative(a + v + c) \in Bit
    BY <2>1, BitIsBit DEF Carry, Negative, Weight
  <2>4. Zero(a + v + c) \in Bit /\ Overflow(a + v + c, a, v) \in Bit
    BY DEF Zero, Overflow, Flag, Bit
  <2> QED BY <2>2, <2>3, <2>4 DEF AdcBinary, AluResult
<1>4. r.v = Flag(~Fits(Signed(a) + Signed(v) + c))
  <2>1. r.v = Overflow(a + v + c, a, v)
    BY DEF AdcBinary
  <2>2. (BitOf(a + v + c, 128) # BitOf(a, 128) /\ BitOf(a + v + c, 128) # BitOf(v, 128))
          <=> ~Fits(Signed(a) + Signed(v) + c)
    BY DEF BitOf, Fits, Signed, Byte, Bit
  <2> QED BY <2>1, <2>2 DEF Overflow, Flag
<1> QED BY <1>2, <1>3, <1>4 DEF Sums

(* SBC in binary, the sum with the complement, is the difference, and its  *)
(* overflow the signed one (op_sbc).                                       *)
THEOREM BinaryDifference ==
  ASSUME NEW a \in Byte, NEW b \in Byte, NEW c \in Bit
  PROVE  LET r == SbcBinary(a, b, c)
         IN  /\ r \in AluResult
             /\ Differences(a, b, c, 0, r)
<1> DEFINE r == SbcBinary(a, b, c)
<1>1. Flip(b) \in Byte /\ Flip(b) = 255 - b /\ Signed(Flip(b)) = -1 - Signed(b)
  BY DEF Flip, Byte, Signed
<1>2. r \in AluResult /\ Sums(a, Flip(b), c, 0, r)
  BY <1>1, BinarySum DEF SbcBinary
<1>3. r.a \in Byte /\ r.c \in Bit
  BY <1>2 DEF AluResult
<1>4. r.a + 256 * r.c = a + Flip(b) + c /\ r.v = Flag(~Fits(Signed(a) + Signed(Flip(b)) + c))
  BY <1>2 DEF Sums
<1> HIDE DEF r
<1>5. r.a = a - b - (1 - c) + 256 * (1 - r.c)
  BY <1>1, <1>3, <1>4 DEF Byte, Bit
<1>6. Signed(a) \in Int /\ Signed(b) \in Int
  BY DEF Signed, Byte
<1>7. Signed(a) + Signed(Flip(b)) + c = Signed(a) - Signed(b) - (1 - c)
  BY <1>1, <1>6 DEF Bit
<1> QED BY <1>2, <1>4, <1>5, <1>7 DEF Differences, r

(* ADC in decimal mode: decimal digits give the digits of the sum, its     *)
(* hundred in the carry.                                                   *)
THEOREM DecimalSum ==
  ASSUME NEW a \in Byte, NEW v \in Byte, NEW c \in Bit
  PROVE  LET r == AdcDecimal(a, v, c)
         IN  /\ r \in AluResult
             /\ Sums(a, v, c, 1, r)
<1> DEFINE al == LowSum(a, v, c) + HighDigit(a) + HighDigit(v)
           s  == IF al >= 160 THEN al + 96 ELSE al
           r  == AdcDecimal(a, v, c)
<1>1. al \in Int /\ s \in Int
  BY DEF LowSum, LowDigit, HighDigit, Byte, Bit
<1>2. r.a = Byte8(s) /\ r.c = Carry(s)
  BY DEF AdcDecimal
<1>3. r \in AluResult
  <2>1. Byte8(s) \in Byte
    BY <1>1 DEF Byte8, Byte
  <2>2. Carry(s) \in Bit /\ Negative(al) \in Bit
    BY <1>1, BitIsBit DEF Carry, Negative, Weight
  <2>3. Zero(a + v + c) \in Bit /\ Overflow(al, a, v) \in Bit
    BY DEF Zero, Overflow, Flag, Bit
  <2> QED BY <2>1, <2>2, <2>3 DEF AdcDecimal, AluResult
<1>4. ASSUME IsDecimal(a), IsDecimal(v)
      PROVE  IsDecimal(r.a) /\ Decimal(r.a) + 100 * r.c = Decimal(a) + Decimal(v) + c
  <2> DEFINE ah == a \div 16
             av == v \div 16
             lo == a % 16
             lv == v % 16
  <2>1. /\ ah \in 0 .. 9 /\ av \in 0 .. 9 /\ lo \in 0 .. 9 /\ lv \in 0 .. 9
        /\ a = 16 * ah + lo /\ v = 16 * av + lv
    BY <1>4 DEF IsDecimal, LowDigit, Byte
  <2> DEFINE k == IF lo + lv + c >= 10 THEN 1 ELSE 0
             h == ah + av + k
  <2>2. LowSum(a, v, c) = lo + lv + c + 6 * k
    <3>1. LowDigit(a) = lo /\ LowDigit(v) = lv
      BY DEF LowDigit
    <3>2. lo + lv + c >= 10 => (lo + lv + c + 6) % 16 = lo + lv + c + 6 - 16
      BY <2>1 DEF Bit
    <3> QED BY <3>1, <3>2, <2>1 DEF LowSum, LowDigit, Bit
  <2>3. HighDigit(a) = 16 * ah /\ HighDigit(v) = 16 * av
    BY <2>1 DEF HighDigit
  <2> DEFINE low == lo + lv + c - 10 * k
  <2>4. al = 16 * h + low /\ low \in 0 .. 9 /\ h \in 0 .. 19
    <3>1. k \in 0 .. 1 /\ low \in 0 .. 9
      BY <2>1 DEF Bit
    <3>2. al = lo + lv + c + 6 * k + 16 * ah + 16 * av
      BY <2>2, <2>3
    <3>3. ah \in Int /\ av \in Int /\ lo \in Int /\ lv \in Int /\ c \in Int /\ k \in Int
      BY <2>1, <3>1 DEF Bit
    <3>4. ah \in 0 .. 9 /\ av \in 0 .. 9
      BY <2>1
    <3> HIDE DEF al, k, ah, av, lo, lv
    <3>5. al = 16 * h + low
      BY <3>2, <3>3
    <3>6. h \in 0 .. 19
      BY <3>1, <3>4
    <3> QED BY <3>1, <3>5, <3>6
  <2>5. Decimal(a) + Decimal(v) + c = 10 * h + low
    BY <2>1 DEF Decimal, LowDigit, Bit
  <2> HIDE DEF al, h, low
  <2>6. CASE h < 10
    <3>1. s = 16 * h + low
      BY <2>4, <2>6
    <3>2. r.a = 16 * h + low /\ r.c = 0
      BY <1>2, <2>4, <2>6, <3>1 DEF Byte8, Carry, BitOf
    <3> QED BY <2>4, <2>5, <2>6, <3>2 DEF IsDecimal, Decimal, LowDigit
  <2>7. CASE h >= 10
    <3>1. s = 256 + 16 * (h - 10) + low
      BY <2>4, <2>7
    <3>2. r.a = 16 * (h - 10) + low /\ r.c = 1
      BY <1>2, <2>4, <2>7, <3>1 DEF Byte8, Carry, BitOf
    <3> QED BY <2>4, <2>5, <2>7, <3>2 DEF IsDecimal, Decimal, LowDigit
  <2> QED BY <2>4, <2>6, <2>7
<1> QED BY <1>3, <1>4 DEF Sums

(* SBC in decimal mode: decimal digits give the digits of the difference,  *)
(* a clear carry standing for the hundred borrowed.                        *)
THEOREM DecimalDifference ==
  ASSUME NEW a \in Byte, NEW b \in Byte, NEW c \in Bit
  PROVE  LET r == SbcDecimal(a, b, c)
         IN  /\ r \in AluResult
             /\ Differences(a, b, c, 1, r)
<1> DEFINE q  == SbcBinary(a, b, c)
           s  == HighDigit(a) - HighDigit(b) + LowDifference(a, b, c)
           t  == IF s < 0 THEN s - 96 ELSE s
           r  == SbcDecimal(a, b, c)
<1>1. s \in Int /\ t \in Int
  BY DEF LowDifference, LowDigit, HighDigit, Byte, Bit
<1>2. q \in AluResult /\ Differences(a, b, c, 0, q)
  BY BinaryDifference
<1>3. r = [q EXCEPT !.a = Byte8(t)]
  BY DEF SbcDecimal
<1>4. Byte8(t) \in Byte
  BY <1>1 DEF Byte8, Byte
<1>5. r \in AluResult /\ r.a = Byte8(t) /\ r.c = q.c
  BY <1>2, <1>3, <1>4 DEF AluResult
<1>6. q.c \in Bit /\ q.a \in Byte
  BY <1>2 DEF AluResult
<1>7. q.a = a - b - (1 - c) + 256 * (1 - q.c)
  BY <1>2 DEF Differences
<1> HIDE DEF q, r
<1>8. ASSUME IsDecimal(a), IsDecimal(b)
      PROVE  IsDecimal(r.a) /\ Decimal(r.a) = Decimal(a) - Decimal(b) - (1 - c) + 100 * (1 - r.c)
  <2> DEFINE ah == a \div 16
             bh == b \div 16
             lo == a % 16
             lb == b % 16
  <2>1. /\ ah \in 0 .. 9 /\ bh \in 0 .. 9 /\ lo \in 0 .. 9 /\ lb \in 0 .. 9
        /\ a = 16 * ah + lo /\ b = 16 * bh + lb
    BY <1>8 DEF IsDecimal, LowDigit, Byte
  <2> DEFINE k == IF lo - lb + c - 1 < 0 THEN 1 ELSE 0
             h == ah - bh - k
             low == lo - lb + c - 1 + 10 * k
  <2>2. LowDifference(a, b, c) = lo - lb + c - 1 - 6 * k
    <3>1. LowDigit(a) = lo /\ LowDigit(b) = lb
      BY DEF LowDigit
    <3>2. lo - lb + c - 1 < 0 => (lo - lb + c - 1 - 6) % 16 = lo - lb + c - 1 - 6 + 16
      BY <2>1 DEF Bit
    <3> QED BY <3>1, <3>2, <2>1 DEF LowDifference, LowDigit, Bit
  <2>3. HighDigit(a) = 16 * ah /\ HighDigit(b) = 16 * bh
    BY <2>1 DEF HighDigit
  <2>4. s = 16 * h + low /\ low \in 0 .. 9 /\ h \in -10 .. 9
    <3>1. k \in 0 .. 1 /\ low \in 0 .. 9
      BY <2>1 DEF Bit
    <3>2. s = 16 * ah - 16 * bh + (lo - lb + c - 1 - 6 * k)
      BY <2>2, <2>3
    <3> HIDE DEF s, k, ah, bh, lo, lb
    <3> QED BY <2>1, <3>1, <3>2 DEF Bit
  <2>5. Decimal(a) - Decimal(b) - (1 - c) = 10 * h + low
    <3>1. Decimal(a) = 10 * ah + lo /\ Decimal(b) = 10 * bh + lb
      BY DEF Decimal, LowDigit
    <3>2. k \in 0 .. 1 /\ c \in 0 .. 1
      BY <2>1 DEF Bit
    <3> HIDE DEF k, ah, bh, lo, lb
    <3> QED BY <2>1, <3>1, <3>2
  <2>6. a - b - (1 - c) = 16 * h + low + 6 * k
    <3>1. a - b - (1 - c) = 16 * ah - 16 * bh + lo - lb + c - 1
      <4> HIDE DEF ah, bh, lo, lb
      <4> QED BY <2>1 DEF Bit
    <3>2. k \in 0 .. 1
      OBVIOUS
    <3> HIDE DEF k, ah, bh, lo, lb
    <3> QED BY <2>1, <3>1, <3>2 DEF Bit
  <2>7. k \in 0 .. 1
    OBVIOUS
  <2> HIDE DEF s, h, low, k
  <2>8. CASE h >= 0
    <3>1. q.c = 1
      BY <1>6, <1>7, <2>4, <2>6, <2>7, <2>8 DEF Bit, Byte
    <3>2. r.a = 16 * h + low
      BY <1>5, <2>4, <2>8 DEF Byte8
    <3> QED BY <1>5, <2>4, <2>5, <2>8, <3>1, <3>2 DEF IsDecimal, Decimal, LowDigit
  <2>9. CASE h < 0
    <3>1. q.c = 0
      BY <1>6, <1>7, <2>4, <2>6, <2>7, <2>9 DEF Bit, Byte
    <3>2. r.a = 16 * (h + 10) + low
      BY <1>5, <2>4, <2>9 DEF Byte8
    <3> QED BY <1>5, <2>4, <2>5, <2>9, <3>1, <3>2 DEF IsDecimal, Decimal, LowDigit
  <2> QED BY <2>4, <2>8, <2>9
<1> QED BY <1>5, <1>8 DEF Differences, r

(* Whatever the mode, op_adc adds: Calculates, for any operands.           *)
THEOREM AdcAdds ==
  ASSUME NEW a \in Byte, NEW v \in Byte, NEW c \in Bit, NEW d \in Bit
  PROVE  Adc(a, v, c, d) \in AluResult /\ Sums(a, v, c, d, Adc(a, v, c, d))
<1>1. CASE d = 0
  BY <1>1, BinarySum DEF Adc
<1>2. CASE d = 1
  BY <1>2, DecimalSum DEF Adc
<1> QED BY <1>1, <1>2 DEF Bit

(* Whatever the mode, op_sbc subtracts: Calculates, for any operands.      *)
THEOREM SbcSubtracts ==
  ASSUME NEW a \in Byte, NEW b \in Byte, NEW c \in Bit, NEW d \in Bit
  PROVE  Sbc(a, b, c, d) \in AluResult /\ Differences(a, b, c, d, Sbc(a, b, c, d))
<1>1. CASE d = 0
  BY <1>1, BinaryDifference DEF Sbc
<1>2. CASE d = 1
  BY <1>2, DecimalDifference DEF Sbc
<1> QED BY <1>1, <1>2 DEF Bit

-----------------------------------------------------------------------------
FlagName == {"n", "v", "d", "i", "z", "c"}
Flags == [FlagName -> Bit]

StatusByte(n, v, b, d, i, z, c) == 128 * n + 64 * v + 32 + 16 * b + 8 * d + 4 * i + 2 * z + c

StatusBits(p, n, v, b, d, i, z, c) ==
  /\ p \in Byte
  /\ BitOf(p, 128) = n /\ BitOf(p, 64) = v /\ BitOf(p, 16) = b /\ BitOf(p, 8) = d
  /\ BitOf(p, 4) = i /\ BitOf(p, 2) = z /\ BitOf(p, 1) = c

(* The bits of a status byte are the flags it was made of. *)
LEMMA BitsOfStatus ==
  ASSUME NEW n \in Bit, NEW v \in Bit, NEW b \in Bit, NEW d \in Bit, NEW i \in Bit,
         NEW z \in Bit, NEW c \in Bit
  PROVE  StatusBits(StatusByte(n, v, b, d, i, z, c), n, v, b, d, i, z, c)
<1> DEFINE p == 128 * n + 64 * v + 32 + 16 * b + 8 * d + 4 * i + 2 * z + c
<1>1. p \in Byte
  BY DEF Bit, Byte
<1>2. BitOf(p, 128) = n /\ BitOf(p, 64) = v
  BY DEF Bit, BitOf
<1>3. BitOf(p, 16) = b
  BY DEF Bit, BitOf
<1>4. BitOf(p, 8) = d
  BY DEF Bit, BitOf
<1>5. BitOf(p, 4) = i
  BY DEF Bit, BitOf
<1>6. BitOf(p, 2) = z /\ BitOf(p, 1) = c
  BY DEF Bit, BitOf
<1> QED BY <1>1, <1>2, <1>3, <1>4, <1>5, <1>6 DEF StatusByte, StatusBits

(* getP makes a byte with bit 5 set and B clear, from which setP makes the *)
(* same flags again, also from the copy that BRK and PHP push with B set.  *)
THEOREM StatusSurvives ==
  ASSUME NEW f \in Flags
  PROVE  /\ PackP(f) \in Byte /\ Pushed(PackP(f)) \in Byte /\ Unbroken(PackP(f)) = PackP(f)
         /\ Pushed(PackP(f)) = PackP(f) + 16
         /\ UnpackP(PackP(f)) = f /\ UnpackP(Pushed(PackP(f))) = f
<1> DEFINE p == PackP(f)
           status(b) == StatusByte(f["n"], f["v"], b, f["d"], f["i"], f["z"], f["c"])
<1>1. \A k \in FlagName : f[k] \in Bit
  BY DEF Flags
<1>2. f["n"] \in Bit /\ f["v"] \in Bit /\ f["d"] \in Bit /\ f["i"] \in Bit /\ f["z"] \in Bit /\ f["c"] \in Bit
  BY <1>1 DEF FlagName
<1>3. p = status(0) /\ p + 16 = status(1)
  BY <1>2 DEF PackP, StatusByte, Bit
<1> DEFINE bits(q, b) == StatusBits(q, f["n"], f["v"], b, f["d"], f["i"], f["z"], f["c"])
<1>4. ASSUME NEW b \in Bit
      PROVE  bits(status(b), b)
  BY <1>2, BitsOfStatus
<1> HIDE DEF p, status
<1>5. bits(p, 0) /\ bits(p + 16, 1)
  BY <1>3, <1>4 DEF Bit
<1>6. Pushed(p) = p + 16 /\ Unbroken(p) = p
  BY <1>5 DEF StatusBits, Pushed, Unbroken
<1>7. ASSUME NEW q \in {p, p + 16}
      PROVE  UnpackP(q) = f
  <2>1. UnpackP(q) = [k \in FlagName |-> f[k]]
    BY <1>5 DEF StatusBits, UnpackP, FlagName
  <2> QED BY <2>1 DEF Flags
<1> QED BY <1>5, <1>6, <1>7 DEF StatusBits, p

-----------------------------------------------------------------------------
(* A comparison gives bits. *)
LEMMA CompareIsBits ==
  ASSUME NEW r \in Byte, NEW v \in Byte
  PROVE  Compare(r, v) \in [c : Bit, z : Bit, n : Bit]
<1>1. Byte8(r - v) \in Int
  BY DEF Byte8, Byte
<1>2. Negative(Byte8(r - v)) \in Bit
  BY <1>1, BitIsBit DEF Negative, Weight
<1> QED BY <1>2 DEF Compare, Flag, Bit

(* A shift gives a byte, and the bit shifted out. *)
LEMMA ShiftedIsByte ==
  ASSUME NEW v \in Byte, NEW c \in Bit, NEW op \in {"asl", "rol", "lsr", "ror"}
  PROVE  Shifted(op, v, c) \in [r : Byte, c : Bit]
<1>1. BitOf(v, 128) \in Bit /\ BitOf(v, 1) \in Bit
  BY BitIsBit DEF Byte, Weight
<1>2. Byte8(2 * v) \in Byte /\ Byte8(2 * v + c) \in Byte
  BY DEF Byte8, Byte, Bit
<1>3. v \div 2 \in 0 .. 127 /\ v \div 2 + 128 * c \in Byte
  BY DEF Byte, Bit
<1> QED BY <1>1, <1>2, <1>3 DEF Shifted, Byte

(* The logic of bytes gives bytes. *)
LEMMA CombinedIsByte ==
  ASSUME NEW a \in Byte, NEW v \in Byte, NEW op \in {"and", "eor", "ora"}
  PROVE  Combined(op, a, v) \in Byte
BY AndIsByte, OrIsByte DEF Combined

(* ARR gives a byte and bits, in both modes. *)
LEMMA ArrIsResult ==
  ASSUME NEW a \in Byte, NEW v \in Byte, NEW c \in Bit, NEW d \in Bit
  PROVE  Arr(a, v, c, d) \in AluResult
<1> DEFINE pre  == BitAnd(a, v)
           r    == pre \div 2 + 128 * c
           adj  == IF LowDigit(pre) + BitOf(pre, 1) > 5 THEN HighDigit(r) + LowDigit(r + 6) ELSE r
           high == pre + 16 * BitOf(pre, 16) >= 96
<1>1. pre \in Byte
  BY AndIsByte
<1>2. r \in Byte
  <2> HIDE DEF pre
  <2> QED BY <1>1 DEF Byte, Bit
<1> HIDE DEF pre, r
<1>3. adj \in Byte
  BY <1>2 DEF HighDigit, LowDigit, Byte
<1>4. Byte8(adj + 96) \in Byte
  <2> HIDE DEF adj
  <2> QED BY <1>3 DEF Byte8, Byte
<1>5. Zero(r) \in Bit /\ Negative(r) \in Bit /\ BitOf(r, 64) \in Bit
  BY <1>2, BitIsBit DEF Zero, Negative, Flag, Bit, Weight, Byte
<1> DEFINE result == IF d = 0
             THEN [a |-> r, z |-> Zero(r), n |-> Negative(r), c |-> BitOf(r, 64),
                   v |-> Flag(BitOf(r, 64) # BitOf(r, 32))]
             ELSE [a |-> IF high THEN Byte8(adj + 96) ELSE adj,
                   z |-> Zero(r), n |-> Negative(r), c |-> Flag(high),
                   v |-> Flag(BitOf(r, 64) # BitOf(pre, 64))]
<1>7. Arr(a, v, c, d) = result
  BY DEF Arr, pre, r
<1>8. result \in AluResult
  <2> HIDE DEF adj
  <2> QED BY <1>2, <1>3, <1>4, <1>5 DEF AluResult, Flag, Bit
<1> QED BY <1>7, <1>8

-----------------------------------------------------------------------------
(* Registers, flags and memory. *)

RegName   == {"a", "x", "y", "sp"}
Registers == [RegName -> Byte]
Memory    == [Ram -> Byte]

-----------------------------------------------------------------------------
(* What is read is a byte, and what is written leaves bytes. *)
LEMMA ReadIsByte ==
  ASSUME NEW m \in Memory, NEW a
  PROVE  Rd(m, a) \in Byte
BY DEF Rd, Memory, Byte

(* The words, without the list of them.                                    *)
LEMMA Between ==
  ASSUME NEW n \in Int, NEW w
  PROVE  w \in 0 .. n <=> w \in Int /\ 0 <= w /\ w <= n
OBVIOUS

LEMMA WordIs == \A w : w \in Word <=> w \in Int /\ 0 <= w /\ w <= 65535
<1>1. UINT16_MAX \in Int
  BY DEF UINT16_MAX
<1>2. \A w : w \in Word <=> w \in Int /\ 0 <= w /\ w <= UINT16_MAX
  BY <1>1, Between DEF Word
<1> QED BY <1>2 DEF UINT16_MAX

(* Two bytes make a word. *)
LEMMA AddressIsWord ==
  ASSUME NEW lo \in Byte, NEW hi \in Byte
  PROVE  Address(lo, hi) \in Word
BY WordIs DEF Address, Byte

(* Two bytes read make a word (rdk16). *)
LEMMA Read16IsWord ==
  ASSUME NEW m \in Memory, NEW a
  PROVE  Rd16(m, a) \in Word
BY ReadIsByte, AddressIsWord DEF Rd16

(* A write of a byte leaves bytes (wrk). *)
LEMMA WriteIsMemory ==
  ASSUME NEW m \in Memory, NEW a, NEW v \in Byte
  PROVE  Wr(m, a, v) \in Memory
BY DEF Wr, Memory

(* So does a push (push8). *)
LEMMA PushIsMemory ==
  ASSUME NEW m \in Memory, NEW sp, NEW v \in Byte
  PROVE  Push8(m, sp, v) \in Memory
BY WriteIsMemory DEF Push8

(* A word is its low and its high byte (push16, pull16). *)
LEMMA BytesOfWord ==
  ASSUME NEW w \in Word
  PROVE  Lo(w) \in Byte /\ Hi(w) \in Byte /\ w = Address(Lo(w), Hi(w))
<1>0. w \in Int /\ 0 <= w /\ w <= 65535
  BY WordIs
<1>1. w % 256 \in 0 .. 255 /\ w \div 256 \in 0 .. 255 /\ w = (w % 256) + 256 * (w \div 256)
  BY <1>0
<1>2. (w \div 256) % 256 = w \div 256
  BY <1>1
<1> QED BY <1>1, <1>2 DEF Lo, Hi, Address, Byte

(* The frame of an interrupt is bytes. *)
LEMMA FramedIsMemory ==
  ASSUME NEW m \in Memory, NEW sp, NEW w \in Word, NEW p \in Byte
  PROVE  Push16(m, sp, w) \in Memory /\ Framed(m, sp, w, p) \in Memory
<1>1. Push8(m, sp, Hi(w)) \in Memory
  BY BytesOfWord, PushIsMemory
<1>2. Push16(m, sp, w) \in Memory
  BY <1>1, BytesOfWord, PushIsMemory DEF Push16
<1> QED BY <1>2, PushIsMemory DEF Framed

(* What is pulled is a byte, or a word of two (pull8, pull16). *)
LEMMA PullIsByte ==
  ASSUME NEW m \in Memory, NEW sp
  PROVE  Pull8(m, sp) \in Byte /\ Pull16(m, sp) \in Word
<1>1. Pull8(m, sp) \in Byte /\ Pull8(m, Byte8(sp + 1)) \in Byte
  BY ReadIsByte DEF Pull8
<1> QED BY <1>1, AddressIsWord DEF Pull16

(* The three places below a stack pointer are different, and going up from *)
(* the last leads back over them, wherever the page wraps.                 *)
LEMMA ThreeBelow ==
  ASSUME NEW sp \in Byte
  PROVE  /\ Byte8(sp - 1) \in Byte /\ Byte8(sp - 2) \in Byte /\ Byte8(sp - 3) \in Byte
         /\ sp # Byte8(sp - 1) /\ sp # Byte8(sp - 2) /\ Byte8(sp - 1) # Byte8(sp - 2)
         /\ Byte8(Byte8(sp - 3) + 1) = Byte8(sp - 2)
         /\ Byte8(Byte8(sp - 2) + 1) = Byte8(sp - 1)
         /\ Byte8(Byte8(sp - 1) + 1) = sp
<1>1. Byte8(sp - 1) = IF sp >= 1 THEN sp - 1 ELSE sp + 255
  BY DEF Byte8, Byte
<1>2. Byte8(sp - 2) = IF sp >= 2 THEN sp - 2 ELSE sp + 254
  BY DEF Byte8, Byte
<1>3. Byte8(sp - 3) = IF sp >= 3 THEN sp - 3 ELSE sp + 253
  BY DEF Byte8, Byte
<1>4. \A n \in 0 .. 256 : Byte8(n) = IF n = 256 THEN 0 ELSE n
  BY DEF Byte8
<1> QED
  BY <1>1, <1>2, <1>3, <1>4 DEF Byte

(* What an interrupt or BRK pushes is what RTI pulls, wherever the stack   *)
(* pointer is in its page: the frame wraps with it (push16, push8, pull8,  *)
(* pull16).                                                                *)
THEOREM FrameSurvives ==
  ASSUME NEW m \in Memory, NEW sp \in Byte, NEW w \in Word, NEW p \in Byte,
         256 + sp \in Ram, 256 + Byte8(sp - 1) \in Ram, 256 + Byte8(sp - 2) \in Ram
  PROVE  /\ Pull8(Framed(m, sp, w, p), Byte8(sp - 3)) = p
         /\ Pull16(Framed(m, sp, w, p), Byte8(Byte8(sp - 3) + 1)) = w
<1> DEFINE s1 == Byte8(sp - 1)
           s2 == Byte8(sp - 2)
           s3 == Byte8(sp - 3)
           m1 == Push8(m, sp, Hi(w))
           m2 == Push8(m1, s1, Lo(w))
           m3 == Push8(m2, s2, p)
<1>1. /\ s1 \in Byte /\ s2 \in Byte /\ s3 \in Byte
      /\ sp # s1 /\ sp # s2 /\ s1 # s2
      /\ Byte8(s3 + 1) = s2 /\ Byte8(s2 + 1) = s1 /\ Byte8(s1 + 1) = sp
  BY ThreeBelow
<1>2. Hi(w) \in Byte /\ Lo(w) \in Byte /\ w = Address(Lo(w), Hi(w))
  BY BytesOfWord
<1>3. Framed(m, sp, w, p) = m3
  BY DEF Framed, Push16
<1>4. 256 + sp \in Ram /\ 256 + s1 \in Ram /\ 256 + s2 \in Ram
  OBVIOUS
<1> HIDE DEF s1, s2, s3
<1>5. m1 \in Memory /\ m2 \in Memory /\ m3 \in Memory
  BY <1>2, PushIsMemory
<1>6. /\ 256 + sp # 256 + s1 /\ 256 + sp # 256 + s2 /\ 256 + s1 # 256 + s2
  BY <1>1 DEF Byte
<1>7. /\ m1 = [m EXCEPT ![256 + sp] = Hi(w)]
      /\ m2 = [m1 EXCEPT ![256 + s1] = Lo(w)]
      /\ m3 = [m2 EXCEPT ![256 + s2] = p]
  BY <1>4 DEF Push8, Wr
<1> HIDE DEF m1, m2, m3
<1>8. m3[256 + s2] = p /\ m3[256 + s1] = Lo(w) /\ m3[256 + sp] = Hi(w)
  BY <1>4, <1>5, <1>6, <1>7 DEF Memory
<1>9. Pull8(m3, s3) = p /\ Pull8(m3, s2) = Lo(w) /\ Pull8(m3, s1) = Hi(w)
  BY <1>1, <1>4, <1>8 DEF Pull8, Rd
<1> QED BY <1>1, <1>2, <1>3, <1>9 DEF Pull16, s3

-----------------------------------------------------------------------------
(* TypeOK with its sets named. *)
Typed == pc \in Word /\ reg \in Registers /\ flag \in Flags /\ mem \in Memory

(* It is the same formula. *)
LEMMA TypeOKIsTyped == TypeOK <=> Typed
BY DEF TypeOK, Typed, Registers, RegName, Flags, FlagName, Bit, Memory

(* The casts to uint16_t and uint8_t give words and bytes. *)
LEMMA WrapIsWord ==
  ASSUME NEW n \in Int
  PROVE  Word16(n) \in Word /\ Byte8(n) \in Byte /\ Hi(n) \in Byte /\ Lo(n) \in Byte
BY WordIs DEF Word16, Byte8, Hi, Lo, Byte

(* An address plus anything wraps into the address space. *)
LEMMA PlusIsWord ==
  ASSUME NEW a \in Int, NEW n \in Int
  PROVE  Plus(a, n) \in Word
BY WordIs DEF Plus, Word16

(* So do the neighbours of an address. *)
LEMMA NearbyIsWord ==
  ASSUME NEW a \in Word
  PROVE  Plus(a, 1) \in Word /\ Plus(a, -1) \in Word
<1>1. a \in Int /\ 1 \in Int /\ -1 \in Int
  BY WordIs
<1> QED BY <1>1, PlusIsWord

(* An address minus an index wraps too (op_SHX, op_SHY). *)
LEMMA BackIsWord ==
  ASSUME NEW a \in Word, NEW n \in Byte
  PROVE  Word16(a - n) \in Word
<1>1. a \in Int /\ n \in Int
  BY WordIs DEF Byte
<1> QED BY <1>1, WrapIsWord

(* A byte is a word. *)
LEMMA ByteIsWord ==
  ASSUME NEW b \in Byte
  PROVE  b \in Word
BY WordIs DEF Byte

(* Zero-page indexing stays in page zero. *)
LEMMA ZeroPageIsWord ==
  ASSUME NEW p \in Byte, NEW i \in Byte
  PROVE  Byte8(p + i) \in Word
BY WordIs DEF Byte8, Byte

(* A byte may be put in any register. *)
LEMMA SetRegister ==
  ASSUME NEW g \in Registers, NEW k \in RegName, NEW v \in Byte
  PROVE  [g EXCEPT ![k] = v] \in Registers
BY DEF Registers

(* A bit may be put in any flag. *)
LEMMA SetFlagBit ==
  ASSUME NEW f \in Flags, NEW k \in FlagName, NEW b \in Bit
  PROVE  [f EXCEPT ![k] = b] \in Flags
BY DEF Flags

(* calcZN gives bits. *)
LEMMA FlagsFromByte ==
  ASSUME NEW f \in Flags, NEW v \in Byte, NEW c \in Bit
  PROVE  ZN(f, v) \in Flags /\ ZNC(f, v, c) \in Flags
<1>1. Zero(v) \in Bit /\ Negative(v) \in Bit
  BY BitIsBit DEF Zero, Negative, Flag, Bit, Weight, Byte
<1> QED BY <1>1 DEF ZN, ZNC, Flags, FlagName

(* ADC and SBC give bits. *)
LEMMA FlagsFromResult ==
  ASSUME NEW f \in Flags, NEW r \in AluResult
  PROVE  Arithmetic(f, r) \in Flags
<1>1. r.z \in Bit /\ r.n \in Bit /\ r.c \in Bit /\ r.v \in Bit
  BY DEF AluResult
<1> QED BY <1>1 DEF Arithmetic, Flags, FlagName

(* cmp_reg gives bits. *)
LEMMA FlagsFromCompare ==
  ASSUME NEW f \in Flags, NEW x \in Byte, NEW y \in Byte
  PROVE  Compared(f, Compare(x, y)) \in Flags
<1> DEFINE r == Compare(x, y)
<1>1. r.z \in Bit /\ r.n \in Bit /\ r.c \in Bit
  BY CompareIsBits
<1> QED BY <1>1 DEF Compared, Flags, FlagName

(* m6502_setP gives bits. *)
LEMMA FlagsUnpacked ==
  ASSUME NEW p \in Byte
  PROVE  UnpackP(p) \in Flags
<1>1. \A w \in Weight : BitOf(p, w) \in Bit
  BY BitIsBit DEF Byte
<1> QED BY <1>1 DEF UnpackP, Flags, FlagName, Weight

(* What an instruction works with: its operand and where it lies. *)
LEMMA OperandTypes ==
  ASSUME Typed
  PROVE  /\ Value \in Byte /\ After \in Word /\ EffectiveAddress \in Word
         /\ \A r \in RegName : reg[r] \in Byte
         /\ \A f \in FlagName : flag[f] \in Bit
<1>1. /\ \A r \in RegName : reg[r] \in Byte
      /\ \A f \in FlagName : flag[f] \in Bit
  BY DEF Typed, Registers, Flags
<1>2. Value \in Byte
  BY <1>1, ReadIsByte DEF Value, Typed, RegName
<1>3. After \in Word
  <2>1. OperandSize(AddrMode) \in 0 .. 2
    BY DEF OperandSize
  <2>2. 1 + OperandSize(AddrMode) \in Int /\ pc \in Int
    BY <2>1, WordIs DEF Typed
  <2> QED BY <2>2, PlusIsWord DEF After
<1>4. EffectiveAddress \in Word
  <2>1. /\ Operand \in Byte /\ Operand16 \in Word /\ Signed(Operand) \in Int
        /\ \A p : ZpWord(p) \in Word /\ SamePageWord(p) \in Word
    <3>1. Operand \in Byte /\ Operand16 \in Word
      BY ReadIsByte, Read16IsWord DEF Operand, Operand16, Typed
    <3>2. \A p : ZpWord(p) \in Word /\ SamePageWord(p) \in Word
      BY ReadIsByte, AddressIsWord DEF ZpWord, SamePageWord, Typed
    <3> QED BY <3>1, <3>2 DEF Signed, Byte
  <2>2. Base \in Word /\ Index \in Byte
    BY <1>1, <2>1 DEF Base, Index, RegName
  <2>3. Plus(Base, Index) \in Word /\ Plus(pc, 1) \in Word /\ Plus(pc, 2 + Signed(Operand)) \in Word
    <3>1. Base \in Int /\ Index \in Int /\ pc \in Int /\ 1 \in Int
      BY <2>2, WordIs DEF Typed, Byte
    <3>2. 2 + Signed(Operand) \in Int
      BY <2>1
    <3> QED BY <3>1, <3>2, PlusIsWord
  <2>4. Byte8(Operand + reg["x"]) \in Word /\ Byte8(Operand + reg["y"]) \in Word /\ Operand \in Word
    <3>1. reg["x"] \in Byte /\ reg["y"] \in Byte
      BY <1>1 DEF RegName
    <3> QED BY <2>1, <3>1, ByteIsWord, ZeroPageIsWord
  <2>5. 0 \in Word
    BY WordIs
  <2> QED BY <2>1, <2>3, <2>4, <2>5 DEF EffectiveAddress
<1> QED BY <1>1, <1>2, <1>3, <1>4

-----------------------------------------------------------------------------
(* The first shape of an instruction keeps the types: on to the next one. *)
LEMMA DoesKeepsTypes ==
  ASSUME Typed, NEW o, NEW r \in Registers, NEW f \in Flags, NEW m \in Memory, Does(o, r, f, m)
  PROVE  Typed'
BY OperandTypes DEF Does, Typed

(* The second shape: an instruction that sets pc. *)
LEMMA JumpsKeepsTypes ==
  ASSUME Typed, NEW o, NEW to \in Word, NEW sp \in Byte, NEW f \in Flags, NEW m \in Memory,
         Jumps(o, to, sp, f, m)
  PROVE  Typed'
BY SetRegister DEF Jumps, Typed, RegName

(* putval leaves bytes, and a byte is read back. *)
LEMMA OperandWritten ==
  ASSUME Typed, NEW v \in Byte
  PROVE  /\ PutReg(v) \in Registers /\ PutMem(v) \in Memory /\ Changed(v) \in Memory
         /\ Reread(v) \in Byte
<1>1. Wr(mem, EffectiveAddress, v) \in Memory
  BY WriteIsMemory DEF Typed
<1>2. PutReg(v) \in Registers
  BY SetRegister DEF PutReg, Typed, RegName
<1> QED BY <1>1, <1>2, ReadIsByte DEF PutMem, Changed, Reread, Typed

(* The stack pointer wraps in its page. *)
LEMMA StackPointerIsByte ==
  ASSUME Typed, NEW n \in Int
  PROVE  Sp(n) \in Byte
<1>1. reg["sp"] + n \in Int
  BY OperandTypes DEF RegName, Byte
<1> QED BY <1>1, WrapIsWord DEF Sp

(* Loads, stores, transfers and NOP. *)
LEMMA LoadStoreKeepTypes ==
  ASSUME Typed, NEW o
  PROVE  /\ \A r \in RegName : Load(o, r) => Typed'
         /\ \A v \in Byte : Store(o, v) => Typed'
         /\ \A r, s \in RegName : Transfer(o, r, s) => Typed'
         /\ Txs => Typed'
         /\ Nop => Typed'
<1>1. ASSUME NEW r \in RegName, Load(o, r) PROVE Typed'
  <2>1. [reg EXCEPT ![r] = Value] \in Registers /\ ZN(flag, Value) \in Flags /\ mem \in Memory
    BY OperandTypes, SetRegister, FlagsFromByte DEF Typed, Bit
  <2> QED BY <1>1, <2>1, DoesKeepsTypes DEF Load
<1>2. ASSUME NEW v \in Byte, Store(o, v) PROVE Typed'
  <2>1. Wr(mem, EffectiveAddress, v) \in Memory /\ reg \in Registers /\ flag \in Flags
    BY WriteIsMemory DEF Typed
  <2> QED BY <1>2, <2>1, DoesKeepsTypes DEF Store
<1>3. ASSUME NEW r \in RegName, NEW s \in RegName, Transfer(o, r, s) PROVE Typed'
  <2>1. reg[r] \in Byte
    BY OperandTypes
  <2>2. [reg EXCEPT ![s] = reg[r]] \in Registers /\ ZN(flag, reg[r]) \in Flags /\ mem \in Memory
    BY <2>1, SetRegister, FlagsFromByte DEF Typed, Bit
  <2> QED BY <1>3, <2>2, DoesKeepsTypes DEF Transfer
<1>4. ASSUME Txs PROVE Typed'
  <2>1. [reg EXCEPT !["sp"] = reg["x"]] \in Registers /\ flag \in Flags /\ mem \in Memory
    BY OperandTypes, SetRegister DEF Typed, RegName
  <2> QED BY <1>4, <2>1, DoesKeepsTypes DEF Txs
<1>5. ASSUME Nop PROVE Typed'
  BY <1>5, DoesKeepsTypes DEF Nop, Typed
<1> QED BY <1>1, <1>2, <1>3, <1>4, <1>5

(* INX, DEX, INC, DEC and their like wrap at a byte. *)
LEMMA CountingKeepsTypes ==
  ASSUME Typed, NEW o, NEW by \in {1, -1}
  PROVE  /\ \A r \in RegName : Count(o, r, by) => Typed'
         /\ CountMemory(o, by) => Typed'
<1>1. ASSUME NEW r \in RegName, Count(o, r, by) PROVE Typed'
  <2> DEFINE v == Byte8(reg[r] + by)
  <2>1. reg[r] \in Byte
    BY OperandTypes
  <2>2. v \in Byte
    BY <2>1 DEF Byte8, Byte
  <2> HIDE DEF v
  <2>3. [reg EXCEPT ![r] = v] \in Registers /\ ZN(flag, v) \in Flags /\ mem \in Memory
    BY <2>2, SetRegister, FlagsFromByte DEF Typed, Bit
  <2> QED BY <1>1, <2>3, DoesKeepsTypes DEF Count, v
<1>2. ASSUME CountMemory(o, by) PROVE Typed'
  <2> DEFINE v == Byte8(Value + by)
  <2>1. Value \in Byte
    BY OperandTypes
  <2>2. v \in Byte
    BY <2>1 DEF Byte8, Byte
  <2> HIDE DEF v
  <2>3. reg \in Registers /\ ZN(flag, v) \in Flags /\ PutMem(v) \in Memory
    BY <2>2, OperandWritten, FlagsFromByte DEF Typed, Bit
  <2> QED BY <1>2, <2>3, DoesKeepsTypes DEF CountMemory, v
<1> QED BY <1>1, <1>2

(* Arithmetic, logic, shifts, comparisons and flag operations. *)
LEMMA ArithmeticKeepsTypes ==
  ASSUME Typed
  PROVE  /\ Add => Typed'
         /\ Subtract => Typed'
         /\ TestBits => Typed'
         /\ \A o \in {"and", "eor", "ora"} : Logic(o) => Typed'
         /\ \A o \in {"asl", "rol", "lsr", "ror"} : Shift(o) => Typed'
         /\ \A o : \A r \in RegName : Cmp(o, r) => Typed'
         /\ \A o : \A f \in FlagName, b \in Bit : SetFlag(o, f, b) => Typed'
<1>0. /\ Value \in Byte /\ reg["a"] \in Byte /\ flag["c"] \in Bit /\ flag["d"] \in Bit
      /\ reg \in Registers /\ flag \in Flags /\ mem \in Memory
  BY OperandTypes DEF Typed, RegName, FlagName
<1>1. ASSUME Add PROVE Typed'
  <2> DEFINE r == Adc(reg["a"], Value, flag["c"], flag["d"])
  <2>1. r \in AluResult
    BY <1>0, AdcAdds
  <2>2. r.a \in Byte
    BY <2>1 DEF AluResult
  <2>3. [reg EXCEPT !["a"] = r.a] \in Registers /\ Arithmetic(flag, r) \in Flags
    BY <1>0, <2>1, <2>2, SetRegister, FlagsFromResult DEF RegName
  <2> QED BY <1>0, <1>1, <2>3, DoesKeepsTypes DEF Add
<1>2. ASSUME Subtract PROVE Typed'
  <2> DEFINE r == Sbc(reg["a"], Value, flag["c"], flag["d"])
  <2>1. r \in AluResult
    BY <1>0, SbcSubtracts
  <2>2. r.a \in Byte
    BY <2>1 DEF AluResult
  <2>3. [reg EXCEPT !["a"] = r.a] \in Registers /\ Arithmetic(flag, r) \in Flags
    BY <1>0, <2>1, <2>2, SetRegister, FlagsFromResult DEF RegName
  <2> QED BY <1>0, <1>2, <2>3, DoesKeepsTypes DEF Subtract
<1>3. ASSUME TestBits PROVE Typed'
  <2>1. Zero(BitAnd(reg["a"], Value)) \in Bit
    BY DEF Zero, Flag, Bit
  <2>2. BitOf(Value, 128) \in Bit /\ BitOf(Value, 64) \in Bit
    BY <1>0, BitIsBit DEF Byte, Weight
  <2>3. [flag EXCEPT !["z"] = Zero(BitAnd(reg["a"], Value)),
                     !["n"] = BitOf(Value, 128), !["v"] = BitOf(Value, 64)] \in Flags
    BY <1>0, <2>1, <2>2 DEF Flags, FlagName
  <2> QED BY <1>0, <1>3, <2>3, DoesKeepsTypes DEF TestBits
<1>4. ASSUME NEW o \in {"and", "eor", "ora"}, Logic(o) PROVE Typed'
  <2> DEFINE r == Combined(o, reg["a"], Value)
  <2>1. r \in Byte
    BY <1>0, CombinedIsByte
  <2>2. [reg EXCEPT !["a"] = r] \in Registers /\ ZN(flag, r) \in Flags
    BY <1>0, <2>1, SetRegister, FlagsFromByte DEF RegName, Bit
  <2> QED BY <1>0, <1>4, <2>2, DoesKeepsTypes DEF Logic
<1>5. ASSUME NEW o \in {"asl", "rol", "lsr", "ror"}, Shift(o) PROVE Typed'
  <2> DEFINE s == Shifted(o, Value, flag["c"])
  <2>1. s.r \in Byte /\ s.c \in Bit
    BY <1>0, ShiftedIsByte
  <2>2. PutReg(s.r) \in Registers /\ ZNC(flag, s.r, s.c) \in Flags /\ PutMem(s.r) \in Memory
    BY <1>0, <2>1, OperandWritten, FlagsFromByte
  <2> QED BY <1>5, <2>2, DoesKeepsTypes DEF Shift
<1>6. ASSUME NEW o, NEW r \in RegName, Cmp(o, r) PROVE Typed'
  <2>1. reg[r] \in Byte
    BY OperandTypes
  <2>2. Compared(flag, Compare(reg[r], Value)) \in Flags
    BY <1>0, <2>1, FlagsFromCompare
  <2> QED BY <1>0, <1>6, <2>2, DoesKeepsTypes DEF Cmp
<1>7. ASSUME NEW o, NEW f \in FlagName, NEW b \in Bit, SetFlag(o, f, b) PROVE Typed'
  <2>1. [flag EXCEPT ![f] = b] \in Flags
    BY <1>0, SetFlagBit
  <2> QED BY <1>0, <1>7, <2>1, DoesKeepsTypes DEF SetFlag
<1> QED BY <1>1, <1>2, <1>3, <1>4, <1>5, <1>6, <1>7

(* The way into a handler, for BRK, IRQ and NMI. *)
LEMMA EnterKeepsTypes ==
  ASSUME Typed, NEW w \in Word, NEW p \in Byte, NEW vector, Enter(w, p, vector)
  PROVE  Typed'
<1>1. Framed(mem, reg["sp"], w, p) \in Memory
  BY FramedIsMemory DEF Typed
<1>2. mem' \in Memory
  BY <1>1 DEF Enter
<1>3. pc' \in Word
  BY <1>2, Read16IsWord DEF Enter
<1>4. reg' \in Registers
  <2>1. -3 \in Int
    OBVIOUS
  <2>2. Sp(-3) \in Byte
    BY <2>1, StackPointerIsByte
  <2> QED BY <2>2, SetRegister DEF Enter, Typed, RegName
<1>5. flag' \in Flags
  BY SetFlagBit DEF Enter, Typed, FlagName, Bit
<1> QED BY <1>2, <1>3, <1>4, <1>5 DEF Typed

(* The status pushed is a byte, with and without B. *)
LEMMA StatusIsByte ==
  ASSUME Typed
  PROVE  Pushed(PackP(flag)) \in Byte /\ Unbroken(PackP(flag)) \in Byte
BY StatusSurvives DEF Typed

(* Branches, jumps, calls, returns and BRK. *)
LEMMA ControlKeepsTypes ==
  ASSUME Typed
  PROVE  /\ \A b \in Branches : Branch(b[1], b[2], b[3]) => Typed'
         /\ Jmp => Typed'
         /\ Jsr => Typed'
         /\ Rts => Typed'
         /\ Rti => Typed'
         /\ Jam => Typed'
         /\ Brk => Typed'
<1>0. /\ After \in Word /\ EffectiveAddress \in Word /\ reg["sp"] \in Byte
      /\ reg \in Registers /\ flag \in Flags /\ mem \in Memory /\ pc \in Word
  BY OperandTypes DEF Typed, RegName
<1>1. ASSUME NEW b \in Branches, Branch(b[1], b[2], b[3]) PROVE Typed'
  BY <1>0, <1>1, JumpsKeepsTypes DEF Branch
<1>2. ASSUME Jmp PROVE Typed'
  BY <1>0, <1>2, JumpsKeepsTypes DEF Jmp
<1>3. ASSUME Jsr PROVE Typed'
  <2>1. Plus(After, -1) \in Word
    BY <1>0, NearbyIsWord
  <2>2. Push16(mem, reg["sp"], Plus(After, -1)) \in Memory
    <3>1. 0 \in Byte
      BY DEF Byte
    <3> QED BY <1>0, <2>1, <3>1, FramedIsMemory
  <2> QED BY <1>0, <1>3, <2>2, StackPointerIsByte, JumpsKeepsTypes DEF Jsr
<1>4. ASSUME Rts PROVE Typed'
  <2>1. Pull16(mem, reg["sp"]) \in Word
    BY <1>0, PullIsByte
  <2>2. Plus(Pull16(mem, reg["sp"]), 1) \in Word
    BY <2>1, NearbyIsWord
  <2> QED BY <1>0, <1>4, <2>2, StackPointerIsByte, JumpsKeepsTypes DEF Rts
<1>5. ASSUME Rti PROVE Typed'
  <2>1. Pull16(mem, Sp(1)) \in Word /\ UnpackP(Pull8(mem, reg["sp"])) \in Flags
    BY <1>0, PullIsByte, FlagsUnpacked
  <2> QED BY <1>0, <1>5, <2>1, StackPointerIsByte, JumpsKeepsTypes DEF Rti
<1>6. ASSUME Jam PROVE Typed'
  BY <1>0, <1>6, JumpsKeepsTypes DEF Jam
<1>7. ASSUME Brk PROVE Typed'
  <2>1. Plus(After, 1) \in Word
    BY <1>0, NearbyIsWord
  <2> QED BY <1>7, <2>1, StatusIsByte, EnterKeepsTypes DEF Brk
<1> QED BY <1>1, <1>2, <1>3, <1>4, <1>5, <1>6, <1>7

(* PHA, PHP, PLA and PLP. *)
LEMMA StackKeepsTypes ==
  ASSUME Typed
  PROVE  /\ \A o : \A v \in Byte : Push(o, v) => Typed'
         /\ Pla => Typed'
         /\ Plp => Typed'
<1>0. reg \in Registers /\ flag \in Flags /\ mem \in Memory
  BY DEF Typed
<1>1. Sp(-1) \in Byte /\ Sp(1) \in Byte
  BY StackPointerIsByte
<1>2. ASSUME NEW o, NEW v \in Byte, Push(o, v) PROVE Typed'
  <2>1. [reg EXCEPT !["sp"] = Sp(-1)] \in Registers /\ Push8(mem, reg["sp"], v) \in Memory
    BY <1>0, <1>1, SetRegister, PushIsMemory DEF RegName
  <2> QED BY <1>0, <1>2, <2>1, DoesKeepsTypes DEF Push
<1>3. ASSUME Pla PROVE Typed'
  <2> DEFINE v == Pull8(mem, reg["sp"])
  <2>1. v \in Byte
    BY <1>0, PullIsByte
  <2>2. [reg EXCEPT !["a"] = v, !["sp"] = Sp(1)] \in Registers
    BY <1>0, <1>1, <2>1 DEF Registers, RegName
  <2>3. ZN(flag, v) \in Flags
    BY <1>0, <2>1, FlagsFromByte DEF Bit
  <2> QED BY <1>0, <1>3, <2>2, <2>3, DoesKeepsTypes DEF Pla
<1>4. ASSUME Plp PROVE Typed'
  <2>1. [reg EXCEPT !["sp"] = Sp(1)] \in Registers /\ UnpackP(Pull8(mem, reg["sp"])) \in Flags
    BY <1>0, <1>1, SetRegister, PullIsByte, FlagsUnpacked DEF RegName
  <2> QED BY <1>0, <1>4, <2>1, DoesKeepsTypes DEF Plp
<1> QED BY <1>2, <1>3, <1>4

-----------------------------------------------------------------------------
(* The undocumented operations: those made of two others. *)
LEMMA ReadModifyKeepTypes ==
  ASSUME Typed
  PROVE  /\ \A o : \A shift \in {"asl", "rol", "lsr"}, combine \in {"ora", "and", "eor"} :
              ShiftAndCombine(o, shift, combine) => Typed'
         /\ RRA => Typed'
         /\ ISC => Typed'
         /\ DCP => Typed'
<1>0. /\ Value \in Byte /\ reg["a"] \in Byte /\ flag["c"] \in Bit /\ flag["d"] \in Bit
      /\ reg \in Registers /\ flag \in Flags
  BY OperandTypes DEF Typed, RegName, FlagName
<1>1. ASSUME NEW o, NEW shift \in {"asl", "rol", "lsr"}, NEW combine \in {"ora", "and", "eor"},
             ShiftAndCombine(o, shift, combine)
      PROVE  Typed'
  <2> DEFINE s == Shifted(shift, Value, flag["c"])
             r == Combined(combine, reg["a"], Reread(s.r))
  <2>1. s.r \in Byte /\ s.c \in Bit
    BY <1>0, ShiftedIsByte
  <2>2. Reread(s.r) \in Byte /\ Changed(s.r) \in Memory
    BY <2>1, OperandWritten
  <2>3. r \in Byte
    BY <1>0, <2>2, CombinedIsByte
  <2>4. [reg EXCEPT !["a"] = r] \in Registers /\ ZNC(flag, r, s.c) \in Flags
    BY <1>0, <2>1, <2>3, SetRegister, FlagsFromByte DEF RegName
  <2> QED BY <1>1, <2>2, <2>4, DoesKeepsTypes DEF ShiftAndCombine
<1>2. ASSUME RRA PROVE Typed'
  <2> DEFINE s == Shifted("ror", Value, flag["c"])
             r == Adc(reg["a"], Reread(s.r), s.c, flag["d"])
  <2>1. s.r \in Byte /\ s.c \in Bit
    BY <1>0, ShiftedIsByte
  <2>2. Reread(s.r) \in Byte /\ Changed(s.r) \in Memory
    BY <2>1, OperandWritten
  <2>3. r \in AluResult
    BY <1>0, <2>1, <2>2, AdcAdds
  <2>4. r.a \in Byte
    BY <2>3 DEF AluResult
  <2>5. [reg EXCEPT !["a"] = r.a] \in Registers /\ Arithmetic(flag, r) \in Flags
    BY <1>0, <2>3, <2>4, SetRegister, FlagsFromResult DEF RegName
  <2> QED BY <1>2, <2>2, <2>5, DoesKeepsTypes DEF RRA
<1>3. ASSUME ISC PROVE Typed'
  <2> DEFINE v == Byte8(Value + 1)
             r == Sbc(reg["a"], Reread(v), flag["c"], flag["d"])
  <2>1. v \in Byte
    BY <1>0 DEF Byte8, Byte
  <2> HIDE DEF v
  <2>2. Reread(v) \in Byte /\ Changed(v) \in Memory
    BY <2>1, OperandWritten
  <2>3. r \in AluResult
    BY <1>0, <2>2, SbcSubtracts
  <2>4. r.a \in Byte
    BY <2>3 DEF AluResult
  <2>5. [reg EXCEPT !["a"] = r.a] \in Registers /\ Arithmetic(flag, r) \in Flags
    BY <1>0, <2>3, <2>4, SetRegister, FlagsFromResult DEF RegName
  <2> QED BY <1>3, <2>2, <2>5, DoesKeepsTypes DEF ISC, v
<1>4. ASSUME DCP PROVE Typed'
  <2> DEFINE v == Byte8(Value - 1)
  <2>1. v \in Byte
    BY <1>0 DEF Byte8, Byte
  <2> HIDE DEF v
  <2>2. Reread(v) \in Byte /\ Changed(v) \in Memory
    BY <2>1, OperandWritten
  <2>3. Compared(flag, Compare(reg["a"], Reread(v))) \in Flags
    BY <1>0, <2>2, FlagsFromCompare
  <2> QED BY <1>0, <1>4, <2>2, <2>3, DoesKeepsTypes DEF DCP, v
<1> QED BY <1>1, <1>2, <1>3, <1>4

(* Those that load or combine registers. *)
LEMMA CombinedLoadsKeepTypes ==
  ASSUME Typed
  PROVE  /\ LAX => Typed'
         /\ ANC => Typed'
         /\ ALR => Typed'
         /\ ARR => Typed'
         /\ SBX => Typed'
         /\ LAS => Typed'
         /\ ANE => Typed'
         /\ LXA => Typed'
<1>0. /\ Value \in Byte /\ flag["c"] \in Bit /\ flag["d"] \in Bit
      /\ reg["a"] \in Byte /\ reg["x"] \in Byte /\ reg["sp"] \in Byte
      /\ reg \in Registers /\ flag \in Flags /\ mem \in Memory
  BY OperandTypes DEF Typed, RegName, FlagName
<1>1. ASSUME LAX PROVE Typed'
  <2>1. [reg EXCEPT !["a"] = Value, !["x"] = Value] \in Registers /\ ZN(flag, Value) \in Flags
    BY <1>0, FlagsFromByte DEF Registers, RegName, Bit
  <2> QED BY <1>0, <1>1, <2>1, DoesKeepsTypes DEF LAX
<1> DEFINE r == BitAnd(reg["a"], Value)
<1>2. r \in Byte
  BY <1>0, AndIsByte
<1>3. BitOf(r, 128) \in Bit /\ BitOf(r, 1) \in Bit
  BY <1>2, BitIsBit DEF Byte, Weight
<1>4. ASSUME ANC PROVE Typed'
  <2>1. [reg EXCEPT !["a"] = r] \in Registers /\ ZNC(flag, r, BitOf(r, 128)) \in Flags
    BY <1>0, <1>2, <1>3, SetRegister, FlagsFromByte DEF RegName
  <2> QED BY <1>0, <1>4, <2>1, DoesKeepsTypes DEF ANC
<1>5. ASSUME ALR PROVE Typed'
  <2>1. r \div 2 \in Byte
    <3> HIDE DEF r
    <3> QED BY <1>2 DEF Byte
  <2>2. [reg EXCEPT !["a"] = r \div 2] \in Registers /\ ZNC(flag, r \div 2, BitOf(r, 1)) \in Flags
    BY <1>0, <1>3, <2>1, SetRegister, FlagsFromByte DEF RegName
  <2> QED BY <1>0, <1>5, <2>2, DoesKeepsTypes DEF ALR
<1>6. ASSUME ARR PROVE Typed'
  <2> DEFINE q == Arr(reg["a"], Value, flag["c"], flag["d"])
  <2>1. q \in AluResult
    BY <1>0, ArrIsResult
  <2>2. q.a \in Byte
    BY <2>1 DEF AluResult
  <2>3. [reg EXCEPT !["a"] = q.a] \in Registers /\ Arithmetic(flag, q) \in Flags
    BY <1>0, <2>1, <2>2, SetRegister, FlagsFromResult DEF RegName
  <2> QED BY <1>0, <1>6, <2>3, DoesKeepsTypes DEF ARR
<1>7. ASSUME SBX PROVE Typed'
  <2> DEFINE s == BitAnd(reg["a"], reg["x"])
  <2>1. s \in Byte
    BY <1>0, AndIsByte
  <2>2. Byte8(s - Value) \in Byte
    <3> HIDE DEF s
    <3> QED BY <1>0, <2>1 DEF Byte8, Byte
  <2>3. [reg EXCEPT !["x"] = Byte8(s - Value)] \in Registers /\ Compared(flag, Compare(s, Value)) \in Flags
    BY <1>0, <2>1, <2>2, SetRegister, FlagsFromCompare DEF RegName
  <2> QED BY <1>0, <1>7, <2>3, DoesKeepsTypes DEF SBX
<1>8. ASSUME LAS PROVE Typed'
  <2> DEFINE s == BitAnd(Value, reg["sp"])
  <2>1. s \in Byte
    BY <1>0, AndIsByte
  <2>2. [reg EXCEPT !["sp"] = s, !["a"] = s, !["x"] = s] \in Registers /\ ZN(flag, s) \in Flags
    BY <1>0, <2>1, FlagsFromByte DEF Registers, RegName, Bit
  <2> QED BY <1>0, <1>8, <2>2, DoesKeepsTypes DEF LAS
<1>9. 238 \in Byte /\ 239 \in Byte
  BY DEF Byte
<1>10. ASSUME ANE PROVE Typed'
  <2> DEFINE s == BitAnd(BitAnd(BitOr(reg["a"], 239), reg["x"]), Value)
  <2>1. BitAnd(BitOr(reg["a"], 239), reg["x"]) \in Byte
    BY <1>0, <1>9, AndIsByte, OrIsByte
  <2>2. s \in Byte
    BY <1>0, <2>1, AndIsByte
  <2>3. [reg EXCEPT !["a"] = s] \in Registers /\ ZN(flag, s) \in Flags
    BY ZenonT(60), <1>0, <2>2, SetRegister, FlagsFromByte DEF RegName, Bit
  <2> QED BY <1>0, <1>10, <2>3, DoesKeepsTypes DEF ANE
<1>11. ASSUME LXA PROVE Typed'
  <2> DEFINE s == BitAnd(BitOr(reg["a"], 238), Value)
  <2>1. s \in Byte
    BY <1>0, <1>9, AndIsByte, OrIsByte
  <2>2. [reg EXCEPT !["a"] = s, !["x"] = s] \in Registers /\ ZN(flag, s) \in Flags
    BY <1>0, <2>1, FlagsFromByte DEF Registers, RegName, Bit
  <2> QED BY <1>0, <1>11, <2>2, DoesKeepsTypes DEF LXA
<1> QED BY <1>1, <1>4, <1>5, <1>6, <1>7, <1>8, <1>10, <1>11

(* Those that store a register masked with the high byte of the address. *)
LEMMA HighStoresKeepTypes ==
  ASSUME Typed
  PROVE  /\ AndHigh(BitAnd(reg["a"], reg["x"])) \in Byte
         /\ TAS => Typed'
         /\ \A o : \A r \in RegName, i \in {reg["x"], reg["y"]} : StoreHigh(o, r, i) => Typed'
<1>0. /\ EffectiveAddress \in Word /\ reg["a"] \in Byte /\ reg["x"] \in Byte /\ reg["y"] \in Byte
      /\ reg \in Registers /\ flag \in Flags /\ mem \in Memory
  BY OperandTypes DEF Typed, RegName
<1>1. ASSUME NEW w \in Word PROVE Byte8(Hi(w) + 1) \in Byte
  <2>1. Hi(w) \in Byte
    BY BytesOfWord
  <2> QED BY <2>1 DEF Byte8, Byte
<1> DEFINE s == BitAnd(reg["a"], reg["x"])
<1>2. s \in Byte
  BY <1>0, AndIsByte
<1>3. AndHigh(s) \in Byte
  BY <1>0, <1>1, <1>2, AndIsByte DEF AndHigh
<1>4. ASSUME TAS PROVE Typed'
  <2>1. [reg EXCEPT !["sp"] = s] \in Registers /\ Changed(AndHigh(s)) \in Memory
    BY <1>0, <1>2, <1>3, SetRegister, OperandWritten DEF RegName
  <2> QED BY <1>0, <1>4, <2>1, DoesKeepsTypes DEF TAS
<1>5. ASSUME NEW o, NEW r \in RegName, NEW i \in {reg["x"], reg["y"]}, StoreHigh(o, r, i)
      PROVE  Typed'
  <2> DEFINE base == Word16(EffectiveAddress - i)
             v    == BitAnd(reg[r], Byte8(Hi(base) + 1))
             ea   == IF Lo(base) + i > 255 THEN Address(Lo(EffectiveAddress), v) ELSE EffectiveAddress
  <2>1. base \in Word
    <3>1. i \in Byte
      BY <1>0
    <3> QED BY <1>0, <3>1, BackIsWord
  <2>2. reg[r] \in Byte
    BY OperandTypes
  <2>3. v \in Byte
    BY <1>1, <2>1, <2>2, AndIsByte
  <2>4. Wr(mem, ea, v) \in Memory
    BY <1>0, <2>3, WriteIsMemory
  <2> QED BY <1>0, <1>5, <2>4, DoesKeepsTypes DEF StoreHigh
<1> QED BY <1>3, <1>4, <1>5

-----------------------------------------------------------------------------
(* No step of m6502_step leaves a register outside its byte, a flag        *)
(* outside its bit or pc outside its word.                                 *)
LEMMA StepKeepsTypes ==
  ASSUME Typed, Step
  PROVE  Typed'
<1>1. /\ reg["a"] \in Byte /\ reg["x"] \in Byte /\ reg["y"] \in Byte
      /\ BitAnd(reg["a"], reg["x"]) \in Byte
  BY OperandTypes, AndIsByte DEF RegName
<1>2. CASE Official
  <2>1. CASE \/ Load("lda", "a") \/ Load("ldx", "x") \/ Load("ldy", "y")
             \/ Store("sta", reg["a"]) \/ Store("stx", reg["x"]) \/ Store("sty", reg["y"])
    BY <1>1, <2>1, LoadStoreKeepTypes DEF RegName
  <2>2. CASE \/ Transfer("tax", "a", "x") \/ Transfer("tay", "a", "y") \/ Transfer("txa", "x", "a")
             \/ Transfer("tya", "y", "a") \/ Transfer("tsx", "sp", "x") \/ Txs \/ Nop
    BY <2>2, LoadStoreKeepTypes DEF RegName
  <2>3. CASE \/ Count("inx", "x", 1) \/ Count("iny", "y", 1) \/ CountMemory("inc", 1)
             \/ Count("dex", "x", -1) \/ Count("dey", "y", -1) \/ CountMemory("dec", -1)
    BY <2>3, CountingKeepsTypes DEF RegName
  <2>4. CASE \/ Add \/ Subtract \/ TestBits
             \/ \E o \in {"and", "eor", "ora"} : Logic(o)
             \/ Cmp("cmp", "a") \/ Cmp("cpx", "x") \/ Cmp("cpy", "y")
             \/ \E o \in {"asl", "rol", "lsr", "ror"} : Shift(o)
    BY <2>4, ArithmeticKeepsTypes DEF RegName
  <2>5. CASE \/ SetFlag("clc", "c", 0) \/ SetFlag("cld", "d", 0) \/ SetFlag("cli", "i", 0)
             \/ SetFlag("clv", "v", 0) \/ SetFlag("sec", "c", 1) \/ SetFlag("sed", "d", 1)
             \/ SetFlag("sei", "i", 1)
    BY <2>5, ArithmeticKeepsTypes DEF FlagName, Bit
  <2>6. CASE (\E b \in Branches : Branch(b[1], b[2], b[3])) \/ Jmp \/ Jsr \/ Rts \/ Rti \/ Brk
    BY <2>6, ControlKeepsTypes
  <2>7. CASE \/ Push("pha", reg["a"]) \/ Push("php", Pushed(PackP(flag))) \/ Pla \/ Plp
    BY <1>1, <2>7, StatusIsByte, StackKeepsTypes
  <2> QED BY <1>2, <2>1, <2>2, <2>3, <2>4, <2>5, <2>6, <2>7 DEF Official
<1>3. CASE Undocumented
  <2>1. CASE \/ ShiftAndCombine("SLO", "asl", "ora") \/ ShiftAndCombine("RLA", "rol", "and")
             \/ ShiftAndCombine("SRE", "lsr", "eor") \/ RRA \/ ISC \/ DCP
    BY <2>1, ReadModifyKeepTypes
  <2>2. CASE \/ Store("SAX", BitAnd(reg["a"], reg["x"]))
             \/ Store("SHA", AndHigh(BitAnd(reg["a"], reg["x"])))
    BY <1>1, <2>2, HighStoresKeepTypes, LoadStoreKeepTypes
  <2>3. CASE \/ StoreHigh("SHX", "x", reg["y"]) \/ StoreHigh("SHY", "y", reg["x"]) \/ TAS
    BY <2>3, HighStoresKeepTypes DEF RegName
  <2>4. CASE LAX \/ ANC \/ ALR \/ ARR \/ SBX \/ LAS \/ ANE \/ LXA
    BY <2>4, CombinedLoadsKeepTypes
  <2>5. CASE Jam
    BY <2>5, ControlKeepsTypes
  <2> QED BY <1>3, <2>1, <2>2, <2>3, <2>4, <2>5 DEF Undocumented
<1> QED BY <1>2, <1>3 DEF Step

(* Any call keeps the types. *)
LEMMA NextKeepsTypes ==
  ASSUME Typed, [Next]_vars
  PROVE  Typed'
<1>1. CASE Step
  BY <1>1, StepKeepsTypes
<1>2. CASE Irq
  BY <1>2, StatusIsByte, EnterKeepsTypes DEF Irq, Typed
<1>3. CASE Nmi
  BY <1>3, StatusIsByte, EnterKeepsTypes DEF Nmi, Typed
<1>4. CASE Reset
  <2>1. ResetReg \in Registers /\ ResetFlag \in Flags
    BY DEF ResetReg, ResetFlag, Registers, RegName, Flags, FlagName, Byte, Bit, Flag
  <2> QED BY <1>4, <2>1, Read16IsWord DEF Reset, Typed
<1>5. CASE UNCHANGED vars
  BY <1>5 DEF vars, Typed
<1> QED BY <1>1, <1>2, <1>3, <1>4, <1>5 DEF Next

(* The processor starts typed. *)
LEMMA InitIsTyped == Init => Typed
<1>1. ResetReg \in Registers /\ ResetFlag \in Flags
  BY DEF ResetReg, ResetFlag, Registers, RegName, Flags, FlagName, Byte, Bit, Flag
<1> QED BY <1>1, Read16IsWord, ImagesAssumption DEF Init, Typed, Memory

(* TypeOK holds of every run, for every memory map and program.            *)
THEOREM TypeCorrect == Spec => []TypeOK
<1>1. Init => Typed
  BY InitIsTyped
<1>2. Typed /\ [Next]_vars => Typed'
  BY NextKeepsTypes
<1>3. Typed => TypeOK
  BY TypeOKIsTyped
<1> QED BY <1>1, <1>2, <1>3, PTL DEF Spec

(* Calculates holds of every run: ADC and SBC compute what they promise,   *)
(* in both modes, from any state the processor can reach.                  *)
THEOREM ArithmeticCorrect == Spec => Calculates
<1> DEFINE right == /\ Add => Sums(reg["a"], Value, flag["c"], flag["d"], Result)
                    /\ Subtract => Differences(reg["a"], Value, flag["c"], flag["d"], Result)
<1>1. Typed /\ [Next]_vars => [right]_vars
  <2> SUFFICES ASSUME Typed PROVE right
    OBVIOUS
  <2>0. /\ Value \in Byte /\ reg["a"] \in Byte /\ flag["c"] \in Bit /\ flag["d"] \in Bit
        /\ reg \in Registers /\ flag \in Flags
    BY OperandTypes DEF Typed, RegName, FlagName
  <2>1. ASSUME NEW r, r \in AluResult,
               reg' = [reg EXCEPT !["a"] = r.a], flag' = Arithmetic(flag, r)
        PROVE  Result.a = r.a /\ Result.c = r.c /\ Result.v = r.v
    BY <2>0, <2>1 DEF Result, Arithmetic, ZN, Registers, RegName, Flags, FlagName
  <2>2. ASSUME Add PROVE Sums(reg["a"], Value, flag["c"], flag["d"], Result)
    <3> DEFINE r == Adc(reg["a"], Value, flag["c"], flag["d"])
    <3>1. r \in AluResult /\ Sums(reg["a"], Value, flag["c"], flag["d"], r)
      BY <2>0, AdcAdds
    <3>2. reg' = [reg EXCEPT !["a"] = r.a] /\ flag' = Arithmetic(flag, r)
      BY <2>2 DEF Add, Does
    <3> HIDE DEF r
    <3>3. Result.a = r.a /\ Result.c = r.c /\ Result.v = r.v
      BY <2>1, <3>1, <3>2
    <3> QED BY <3>1, <3>3 DEF Sums
  <2>3. ASSUME Subtract PROVE Differences(reg["a"], Value, flag["c"], flag["d"], Result)
    <3> DEFINE r == Sbc(reg["a"], Value, flag["c"], flag["d"])
    <3>1. r \in AluResult /\ Differences(reg["a"], Value, flag["c"], flag["d"], r)
      BY <2>0, SbcSubtracts
    <3>2. reg' = [reg EXCEPT !["a"] = r.a] /\ flag' = Arithmetic(flag, r)
      BY <2>3 DEF Subtract, Does
    <3> HIDE DEF r
    <3>3. Result.a = r.a /\ Result.c = r.c /\ Result.v = r.v
      BY <2>1, <3>1, <3>2
    <3> QED BY <3>1, <3>3 DEF Differences
  <2> QED BY <2>2, <2>3
<1>2. Spec => []Typed
  BY TypeCorrect, TypeOKIsTyped, PTL
<1> QED BY <1>1, <1>2, PTL DEF Spec, Calculates

-----------------------------------------------------------------------------
(* Calls and interrupts. *)

Kinds  == {"call", "break", "irq", "nmi"}
Frames == [kind : Kinds, resume : Word, status : Flags, sp : Byte]

(* FramesIntact of one frame. *)
Holds(m, f) ==
  IF f.kind = "call" THEN Plus(Pull16(m, f.sp), 1) = f.resume
  ELSE /\ Pull8(m, f.sp) = PackP(f.status) + IF f.kind = "break" THEN 16 ELSE 0
       /\ Pull16(m, Byte8(f.sp + 1)) = f.resume

(* Each frame lies in its page below the earlier ones, and the stack       *)
(* pointer below them all.                                                 *)
Ordered(fs, sp) ==
  /\ fs \in Seq(Frames)
  /\ \A k \in DOMAIN fs : fs[k].sp + Size(fs[k]) <= 255 /\ sp <= fs[k].sp
  /\ \A j, k \in DOMAIN fs : j < k => fs[k].sp + Size(fs[k]) <= fs[j].sp

Stacked == Typed /\ Ordered(frames, reg["sp"]) /\ FramesIntact

-----------------------------------------------------------------------------
(* A write is read back where it fell and nowhere else. *)
LEMMA ReadWritten ==
  ASSUME NEW m \in Memory, NEW a, NEW b, NEW v
  PROVE  /\ a # b => Rd(Wr(m, a, v), b) = Rd(m, b)
         /\ a \in Ram => Rd(Wr(m, a, v), a) = v
BY DEF Rd, Wr, Memory

(* Pushes leave the cells above the stack pointer alone (push8, push16). *)
LEMMA PushesBelow ==
  ASSUME NEW m \in Memory, NEW sp \in Byte, sp >= 3, NEW w \in Word, NEW p \in Byte,
         NEW a \in Int, a > 256 + sp
  PROVE  /\ Rd(Push8(m, sp, p), a) = Rd(m, a)
         /\ Rd(Push16(m, sp, w), a) = Rd(m, a)
         /\ Rd(Framed(m, sp, w, p), a) = Rd(m, a)
<1>1. Byte8(sp - 1) = sp - 1 /\ Byte8(sp - 2) = sp - 2
  BY DEF Byte8, Byte
<1>2. 256 + sp # a /\ 256 + (sp - 1) # a /\ 256 + (sp - 2) # a
  BY DEF Byte
<1>3. Lo(w) \in Byte /\ Hi(w) \in Byte
  BY BytesOfWord
<1> DEFINE m1 == Push8(m, sp, Hi(w))
           m2 == Push8(m1, Byte8(sp - 1), Lo(w))
<1>4. m1 \in Memory /\ m2 \in Memory
  BY <1>3, PushIsMemory
<1>5. Rd(m1, a) = Rd(m, a) /\ Rd(Push8(m, sp, p), a) = Rd(m, a)
  BY <1>2, ReadWritten DEF Push8
<1>6. Rd(m2, a) = Rd(m1, a)
  <2> HIDE DEF m1
  <2> QED BY <1>1, <1>2, <1>4, ReadWritten DEF Push8
<1>7. Rd(Push8(m2, Byte8(sp - 2), p), a) = Rd(m2, a)
  <2> HIDE DEF m2
  <2> QED BY <1>1, <1>2, <1>4, ReadWritten DEF Push8
<1>8. Push16(m, sp, w) = m2 /\ Framed(m, sp, w, p) = Push8(m2, Byte8(sp - 2), p)
  BY DEF Push16, Framed
<1> QED BY <1>5, <1>6, <1>7, <1>8

(* What JSR pushes is what RTS pulls (push16, pull16). *)
LEMMA CallSurvives ==
  ASSUME NEW m \in Memory, NEW sp \in Byte, sp >= 3, NEW w \in Word,
         256 + sp \in Ram, 256 + (sp - 1) \in Ram
  PROVE  Pull16(Push16(m, sp, w), sp - 2) = w
<1>1. Byte8(sp - 1) = sp - 1 /\ Byte8((sp - 2) + 1) = sp - 1 /\ Byte8((sp - 1) + 1) = sp
  BY DEF Byte8, Byte
<1>2. Lo(w) \in Byte /\ Hi(w) \in Byte /\ w = Address(Lo(w), Hi(w))
  BY BytesOfWord
<1> DEFINE m1 == Push8(m, sp, Hi(w))
           m2 == Push8(m1, sp - 1, Lo(w))
<1>3. m1 \in Memory
  BY <1>2, PushIsMemory
<1>4. 256 + (sp - 1) # 256 + sp
  BY DEF Byte
<1>5. Rd(m1, 256 + sp) = Hi(w)
  BY ReadWritten DEF Push8
<1>6. Rd(m2, 256 + (sp - 1)) = Lo(w) /\ Rd(m2, 256 + sp) = Rd(m1, 256 + sp)
  <2> HIDE DEF m1
  <2> QED BY <1>3, <1>4, ReadWritten DEF Push8
<1>7. Push16(m, sp, w) = m2
  BY <1>1 DEF Push16
<1> HIDE DEF m1, m2
<1> QED BY <1>1, <1>2, <1>5, <1>6, <1>7 DEF Pull16, Pull8

(* Small sums do not wrap in the page. *)
LEMMA SmallSteps ==
  ASSUME NEW n \in Int, 0 <= n, n <= 255
  PROVE  Byte8(n) = n
BY DEF Byte8

(* A frame below another is in the page. *)
LEMMA RoomForFrame ==
  ASSUME NEW s \in Byte, NEW size \in 2 .. 3, NEW top \in Byte, s + size <= top
  PROVE  s + size <= 255 /\ s <= s /\ s + size \in Int
BY DEF Byte

(* Where the two or three bytes of a frame are, and that going from one to *)
(* the next does not leave the page.                                       *)
LEMMA CellsOfFrame ==
  ASSUME NEW s \in Byte, NEW size \in 2 .. 3, s + size <= 255,
         NEW i \in 1 .. size
  PROVE  /\ 256 + (s + i) \in 257 + s .. 256 + s + size
         /\ Byte8((s + (i - 1)) + 1) = s + i
<1>1. s + i \in Int /\ 0 <= s + i /\ s + i <= 255 /\ (s + (i - 1)) + 1 = s + i
  BY DEF Byte
<1>2. Byte8(s + i) = s + i
  BY <1>1, SmallSteps
<1>3. 256 + (s + i) \in 257 + s .. 256 + s + size
  BY DEF Byte
<1> QED BY <1>1, <1>2, <1>3

(* What a frame is made of. *)
LEMMA FrameTypes ==
  ASSUME NEW f \in Frames
  PROVE  f.sp \in Byte /\ f.sp \in Int /\ Size(f) \in 2 .. 3 /\ f.kind \in Kinds /\ f.status \in Flags
BY DEF Frames, Size, Byte

(* A frame stays intact while its cells keep what they hold. *)
LEMMA HoldsKept ==
  ASSUME NEW m, NEW n, NEW f \in Frames, f.sp + Size(f) <= 255, Holds(m, f),
         \A a \in 257 + f.sp .. 256 + f.sp + Size(f) : Rd(n, a) = Rd(m, a)
  PROVE  Holds(n, f)
<1> DEFINE s == f.sp
           size == Size(f)
<1>1. s \in Byte /\ size \in 2 .. 3
  BY FrameTypes
<1>2. Holds(m, f) /\ (f.kind # "call" => size = 3)
  BY DEF Size
<1>3. \A a \in 257 + s .. 256 + s + size : Rd(n, a) = Rd(m, a)
  OBVIOUS
<1>4. s + size <= 255
  OBVIOUS
<1> HIDE DEF s, size
<1>5. ASSUME NEW i \in 1 .. size
      PROVE  /\ Rd(n, 256 + (s + i)) = Rd(m, 256 + (s + i))
             /\ Byte8((s + (i - 1)) + 1) = s + i
  <2>1. 256 + (s + i) \in 257 + s .. 256 + s + size /\ Byte8((s + (i - 1)) + 1) = s + i
    BY <1>1, <1>4, CellsOfFrame
  <2> QED BY <1>3, <2>1
<1>6. /\ Byte8(s + 1) = s + 1 /\ Rd(n, 256 + (s + 1)) = Rd(m, 256 + (s + 1))
      /\ Byte8((s + 1) + 1) = s + 2 /\ Rd(n, 256 + (s + 2)) = Rd(m, 256 + (s + 2))
  <2>1. 1 \in 1 .. size /\ 2 \in 1 .. size /\ s + (1 - 1) = s /\ s + (2 - 1) = s + 1
    BY <1>1 DEF Byte
  <2>2. Byte8((s + (1 - 1)) + 1) = s + 1 /\ Rd(n, 256 + (s + 1)) = Rd(m, 256 + (s + 1))
    BY <1>5, <2>1
  <2>3. Byte8((s + (2 - 1)) + 1) = s + 2 /\ Rd(n, 256 + (s + 2)) = Rd(m, 256 + (s + 2))
    BY <1>5, <2>1
  <2> QED BY <2>1, <2>2, <2>3
<1>7. size = 3 => Byte8((s + 2) + 1) = s + 3 /\ Rd(n, 256 + (s + 3)) = Rd(m, 256 + (s + 3))
  <2>1. s + (3 - 1) = s + 2
    BY <1>1 DEF Byte
  <2>2. 3 \in 1 .. size => /\ Byte8((s + (3 - 1)) + 1) = s + 3
                           /\ Rd(n, 256 + (s + 3)) = Rd(m, 256 + (s + 3))
    BY <1>5
  <2>3. size = 3 => 3 \in 1 .. size
    OBVIOUS
  <2> QED BY <2>1, <2>2, <2>3
<1>8. /\ Pull16(n, s) = Pull16(m, s)
      /\ size = 3 => Pull16(n, Byte8(s + 1)) = Pull16(m, Byte8(s + 1))
  BY <1>6, <1>7 DEF Pull16, Pull8
<1> QED
  <2>1. Pull8(n, s) = Pull8(m, s)
    BY <1>6 DEF Pull8
  <2> QED BY <1>2, <1>8, <2>1 DEF Holds, s

-----------------------------------------------------------------------------
(* What a sequence of frames is made of. *)
LEMMA ElementIs ==
  ASSUME NEW S, NEW fs \in Seq(S)
  PROVE  /\ Len(fs) \in Nat /\ DOMAIN fs = 1 .. Len(fs)
         /\ \A k \in DOMAIN fs : fs[k] \in S
OBVIOUS

(* A sequence with an element is not empty. *)
LEMMA NotEmpty ==
  ASSUME NEW S, NEW fs \in Seq(S), NEW k \in DOMAIN fs
  PROVE  fs # <<>>
OBVIOUS

(* Append without its definition. *)
LEMMA AppendIs ==
  ASSUME NEW S, NEW fs \in Seq(S), NEW f \in S
  PROVE  /\ Append(fs, f) \in Seq(S) /\ Len(fs) \in Nat /\ Append(fs, f) # <<>>
         /\ DOMAIN Append(fs, f) = 1 .. Len(fs) + 1 /\ DOMAIN fs = 1 .. Len(fs)
         /\ Append(fs, f)[Len(fs) + 1] = f
         /\ \A k \in DOMAIN fs : Append(fs, f)[k] = fs[k]
OBVIOUS

(* Entering a call or a handler puts a frame below the others. *)
LEMMA OrderedEnter ==
  ASSUME NEW fs, NEW sp \in Byte, Ordered(fs, sp), NEW f \in Frames, f.sp + Size(f) <= sp
  PROVE  Ordered(Append(fs, f), f.sp)
<1>0. fs \in Seq(Frames) /\ f.sp \in Int /\ Size(f) \in 2 .. 3
  BY FrameTypes DEF Ordered
<1>room. f.sp + Size(f) <= 255 /\ f.sp <= f.sp /\ f.sp + Size(f) \in Int
  <2>1. f.sp \in Byte
    BY FrameTypes
  <2> QED BY <1>0, <2>1, RoomForFrame
<1> DEFINE gs == Append(fs, f)
<1>1. /\ gs \in Seq(Frames) /\ Len(fs) \in Nat
      /\ DOMAIN gs = 1 .. Len(fs) + 1 /\ DOMAIN fs = 1 .. Len(fs)
      /\ gs[Len(fs) + 1] = f /\ \A k \in DOMAIN fs : gs[k] = fs[k]
  BY <1>0, AppendIs
<1>2. \A k \in DOMAIN fs : fs[k].sp \in Int /\ Size(fs[k]) \in 2 .. 3
  BY <1>0, ElementIs, FrameTypes
<1> DEFINE last == Len(fs) + 1
<1>5. \A k \in DOMAIN gs : k \in DOMAIN fs \/ k = last
  BY <1>1
<1>6. gs[last] = f /\ \A k \in DOMAIN fs : gs[k] = fs[k] /\ k < last
  BY <1>1
<1>7. /\ gs[last].sp + Size(gs[last]) <= sp /\ gs[last].sp + Size(gs[last]) \in Int
      /\ gs[last].sp + Size(gs[last]) <= 255 /\ f.sp <= gs[last].sp
  BY <1>6, <1>room
<1> HIDE DEF gs, last
<1>3. ASSUME NEW k \in DOMAIN gs PROVE gs[k].sp + Size(gs[k]) <= 255 /\ f.sp <= gs[k].sp
  <2>1. CASE k \in DOMAIN fs
    <3>1. fs[k].sp + Size(fs[k]) <= 255 /\ sp <= fs[k].sp /\ fs[k].sp \in Int
      BY <1>2, <2>1 DEF Ordered
    <3> QED BY <1>0, <1>6, <2>1, <3>1 DEF Byte
  <2>2. CASE k = last
    BY <1>7, <2>2
  <2> QED BY <1>5, <2>1, <2>2
<1>4. ASSUME NEW j \in DOMAIN gs, NEW k \in DOMAIN gs, j < k
      PROVE  gs[k].sp + Size(gs[k]) <= gs[j].sp
  <2>0. j \in DOMAIN fs
    <3>1. j # last
      BY <1>1, <1>4 DEF last
    <3> QED BY <1>5, <3>1
  <2>1. gs[j] = fs[j] /\ sp <= fs[j].sp /\ fs[j].sp \in Int
    BY <1>2, <1>6, <2>0 DEF Ordered
  <2>2. CASE k \in DOMAIN fs
    BY <1>4, <1>6, <2>0, <2>1, <2>2 DEF Ordered
  <2>3. CASE k = last
    <3>1. gs[k].sp + Size(gs[k]) <= sp /\ gs[k].sp + Size(gs[k]) \in Int
      BY <1>7, <2>3
    <3> QED BY <2>1, <3>1 DEF Byte
  <2> QED BY <1>5, <2>2, <2>3
<1> QED BY <1>1, <1>3, <1>4 DEF Ordered, gs

(* Front without its definition. *)
LEMMA FrontIs ==
  ASSUME NEW S, NEW fs \in Seq(S), fs # <<>>
  PROVE  /\ Front(fs) \in Seq(S) /\ Len(fs) \in Nat \ {0} /\ Last(fs) = fs[Len(fs)]
         /\ DOMAIN Front(fs) = 1 .. Len(fs) - 1 /\ DOMAIN fs = 1 .. Len(fs)
         /\ \A k \in 1 .. Len(fs) - 1 : Front(fs)[k] = fs[k]
BY DEF Front, Last

(* Returning from the last leaves the others above the stack pointer. *)
LEMMA OrderedLeave ==
  ASSUME NEW fs, NEW sp \in Byte, Ordered(fs, sp), fs # <<>>, Last(fs).sp = sp
  PROVE  Ordered(Front(fs), sp + Size(Last(fs)))
<1>0. fs \in Seq(Frames)
  BY DEF Ordered
<1>1. /\ Front(fs) \in Seq(Frames) /\ Len(fs) \in Nat \ {0} /\ Last(fs) = fs[Len(fs)]
      /\ DOMAIN Front(fs) = 1 .. Len(fs) - 1 /\ DOMAIN fs = 1 .. Len(fs)
      /\ \A k \in 1 .. Len(fs) - 1 : Front(fs)[k] = fs[k]
  BY <1>0, FrontIs
<1>2. \A k \in 1 .. Len(fs) - 1 : k \in DOMAIN fs /\ k < Len(fs) /\ Len(fs) \in DOMAIN fs
  BY <1>1
<1> QED BY <1>1, <1>2 DEF Ordered

(* Pulling nothing of the last frame pulls nothing of any. *)
LEMMA OrderedWithin ==
  ASSUME NEW fs, NEW sp \in Byte, Ordered(fs, sp), NEW sp2 \in Byte,
         fs # <<>> => sp2 <= Last(fs).sp
  PROVE  Ordered(fs, sp2)
<1>0. fs \in Seq(Frames) /\ DOMAIN fs = 1 .. Len(fs) /\ Len(fs) \in Nat
  BY ElementIs DEF Ordered
<1>1. \A k \in DOMAIN fs : fs[k].sp \in Int /\ Size(fs[k]) \in 2 .. 3
  BY <1>0, ElementIs, FrameTypes
<1>2. ASSUME NEW k \in DOMAIN fs PROVE sp2 <= fs[k].sp
  <2>0. fs # <<>>
    BY <1>0, NotEmpty
  <2>1. Last(fs) = fs[Len(fs)] /\ Len(fs) \in DOMAIN fs /\ sp2 <= Last(fs).sp
    <3>1. Len(fs) # 0 /\ Last(fs) = fs[Len(fs)]
      BY <1>0, <2>0, FrontIs
    <3> QED BY <1>0, <2>0, <3>1
  <2>2. CASE k = Len(fs)
    BY <2>1, <2>2
  <2>3. CASE k < Len(fs)
    <3>1. fs[Len(fs)].sp + Size(fs[Len(fs)]) <= fs[k].sp
      BY <2>1, <2>3 DEF Ordered
    <3>2. /\ fs[k].sp \in Int /\ fs[Len(fs)].sp \in Int /\ Size(fs[Len(fs)]) \in 2 .. 3
          /\ sp2 <= fs[Len(fs)].sp
      BY <1>1, <2>1
    <3> DEFINE n == Size(fs[Len(fs)])
               t == fs[Len(fs)].sp
    <3>3. t + n <= fs[k].sp /\ t \in Int /\ n \in 2 .. 3 /\ sp2 <= t
      BY <3>1, <3>2
    <3> HIDE DEF n, t
    <3> QED BY <3>2, <3>3 DEF Byte
  <2> QED BY <1>0, <2>2, <2>3
<1> QED BY <1>2 DEF Ordered
-----------------------------------------------------------------------------
(* FramesIntact of a sequence of frames. *)
Intact(fs, m) == \A k \in DOMAIN fs : Holds(m, fs[k])

(* FramesIntact speaks of the frames and memory alone, before a step and   *)
(* after it.                                                               *)
LEMMA FramesIntactIs == FramesIntact <=> Intact(frames, mem)
BY DEF FramesIntact, Intact, Holds

LEMMA FramesIntactNext == FramesIntact' <=> Intact(frames', mem')
BY DEF FramesIntact, Intact, Holds

(* Frames stay intact while their cells keep what they hold. *)
LEMMA IntactKept ==
  ASSUME NEW fs, NEW sp, Ordered(fs, sp), NEW m, NEW n, Intact(fs, m),
         \A k \in DOMAIN fs : \A a \in 257 + fs[k].sp .. 256 + fs[k].sp + Size(fs[k]) :
            Rd(n, a) = Rd(m, a)
  PROVE  Intact(fs, n)
<1>1. ASSUME NEW k \in DOMAIN fs PROVE Holds(n, fs[k])
  <2>1. fs[k] \in Frames /\ fs[k].sp + Size(fs[k]) <= 255 /\ Holds(m, fs[k])
    BY ElementIs DEF Ordered, Intact
  <2>2. \A a \in 257 + fs[k].sp .. 256 + fs[k].sp + Size(fs[k]) : Rd(n, a) = Rd(m, a)
    OBVIOUS
  <2> QED BY <2>1, <2>2, HoldsKept
<1> QED BY <1>1 DEF Intact

(* What changes at the stack pointer or below it leaves them intact. *)
LEMMA IntactAbove ==
  ASSUME NEW fs, NEW sp \in Byte, Ordered(fs, sp), NEW m, NEW n, Intact(fs, m),
         \A a \in Int : a > 256 + sp => Rd(n, a) = Rd(m, a)
  PROVE  Intact(fs, n)
<1>1. ASSUME NEW k \in DOMAIN fs, NEW a \in 257 + fs[k].sp .. 256 + fs[k].sp + Size(fs[k])
      PROVE  Rd(n, a) = Rd(m, a)
  <2>1. fs[k].sp \in Int /\ sp <= fs[k].sp /\ Size(fs[k]) \in 2 .. 3
    BY ElementIs, FrameTypes DEF Ordered
  <2>2. a \in Int /\ a >= 257 + fs[k].sp
    BY <2>1
  <2> QED BY <2>1, <2>2 DEF Byte
<1> QED BY <1>1, IntactKept

(* Entering puts an intact frame below intact frames. *)
LEMMA IntactEnter ==
  ASSUME NEW fs, NEW sp \in Byte, Ordered(fs, sp), NEW m, NEW n, Intact(fs, m),
         \A a \in Int : a > 256 + sp => Rd(n, a) = Rd(m, a),
         NEW f \in Frames, f.sp + Size(f) <= sp, Holds(n, f)
  PROVE  Ordered(Append(fs, f), f.sp) /\ Intact(Append(fs, f), n)
<1>1. Ordered(Append(fs, f), f.sp) /\ Intact(fs, n)
  BY OrderedEnter, IntactAbove
<1>2. fs \in Seq(Frames)
  BY DEF Ordered
<1>3. ASSUME NEW k \in DOMAIN Append(fs, f) PROVE Holds(n, Append(fs, f)[k])
  <2>1. k \in DOMAIN fs \/ k = Len(fs) + 1
    BY <1>2, AppendIs
  <2>2. CASE k \in DOMAIN fs
    BY <1>1, <1>2, <2>2, AppendIs DEF Intact
  <2>3. CASE k = Len(fs) + 1
    BY <1>2, <2>3, AppendIs
  <2> QED BY <2>1, <2>2, <2>3
<1> QED BY <1>1, <1>3 DEF Intact

(* A byte is an integer. *)
LEMMA ByteIsInt ==
  ASSUME NEW b \in Byte
  PROVE  b \in Int
BY DEF Byte

(* Arithmetic that does not wrap. *)
LEMMA BelowIsByte ==
  ASSUME NEW s \in Byte, s >= 3
  PROVE  Byte8(s - 1) = s - 1 /\ Byte8(s - 2) = s - 2 /\ Byte8(s - 3) = s - 3
BY DEF Byte8, Byte

(* Going up from the stack pointer within the page (pull8, pull16). *)
LEMMA AboveIsByte ==
  ASSUME NEW s \in Byte, NEW n \in 1 .. 3, s + n <= 255
  PROVE  Byte8(s + n) = s + n
BY DEF Byte8, Byte

(* JSR pushes one less than it resumes at, and RTS adds one, also round    *)
(* the end of the address space.                                           *)
LEMMA BackAndForth ==
  ASSUME NEW w \in Word
  PROVE  Plus(w, -1) \in Word /\ Plus(Plus(w, -1), 1) = w
<1>1. w \in Int /\ 0 <= w /\ w <= 65535
  BY WordIs
<1>2. (w + -1) % 65536 = IF w = 0 THEN 65535 ELSE w - 1
  BY <1>1
<1>3. (65535 + 1) % 65536 = 0 /\ \A n \in Int : 0 <= n /\ n <= 65535 => n % 65536 = n
  OBVIOUS
<1>4. (((w + -1) % 65536) + 1) % 65536 = w
  BY <1>1, <1>2, <1>3
<1> QED BY <1>4, NearbyIsWord DEF Plus, Word16

(* The cells Room leaves, and the stack pointer that far down. *)
LEMMA RoomIs ==
  ASSUME Typed, Room
  PROVE  /\ reg["sp"] \in Byte /\ reg["sp"] >= 3
         /\ 256 + reg["sp"] \in Ram /\ 256 + (reg["sp"] - 1) \in Ram /\ 256 + (reg["sp"] - 2) \in Ram
         /\ Sp(-1) = reg["sp"] - 1 /\ Sp(-2) = reg["sp"] - 2 /\ Sp(-3) = reg["sp"] - 3
         /\ \A n \in 1 .. 3 : reg["sp"] - n \in Byte
<1> DEFINE s == reg["sp"]
<1>1. s \in Byte /\ s >= 3
  BY DEF Typed, Registers, RegName, Room
<1>2. 254 + s .. 256 + s \subseteq Ram
  BY DEF Room
<1>3. Sp(-1) = Byte8(s + -1) /\ Sp(-2) = Byte8(s + -2) /\ Sp(-3) = Byte8(s + -3)
  BY DEF Sp
<1> HIDE DEF s
<1>4. 256 + s \in 254 + s .. 256 + s /\ 256 + (s - 1) \in 254 + s .. 256 + s /\ 256 + (s - 2) \in 254 + s .. 256 + s
  BY <1>1 DEF Byte
<1>5. Sp(-1) = s - 1 /\ Sp(-2) = s - 2 /\ Sp(-3) = s - 3 /\ \A n \in 1 .. 3 : s - n \in Byte
  BY <1>1, <1>3 DEF Byte8, Byte
<1> QED BY <1>1, <1>2, <1>4, <1>5 DEF s

-----------------------------------------------------------------------------
(* BRK, IRQ and NMI leave a frame that RTI will understand. *)
LEMMA EnterStacks ==
  ASSUME Stacked, Typed', Room, NEW w \in Word, NEW p, NEW vector, NEW kind \in Kinds \ {"call"},
         p = PackP(flag) + (IF kind = "break" THEN 16 ELSE 0), p \in Byte,
         Enter(w, p, vector), frames' = Append(frames, Frame(kind, w))
  PROVE  Stacked'
<1> DEFINE s == reg["sp"]
           f == Frame(kind, w)
<1>1. /\ Typed /\ Ordered(frames, s) /\ Intact(frames, mem) /\ mem \in Memory
      /\ flag \in Flags /\ reg \in Registers
  BY FramesIntactIs DEF Stacked, Typed
<1>2. /\ s \in Byte /\ s >= 3 /\ 256 + s \in Ram /\ 256 + (s - 1) \in Ram /\ 256 + (s - 2) \in Ram
      /\ Sp(-3) = s - 3 /\ s - 3 \in Byte
  BY <1>1, RoomIs
<1>3. mem' = Framed(mem, s, w, p) /\ reg'["sp"] = s - 3
  BY <1>1, <1>2 DEF Enter, Registers, RegName
<1>4. f = [kind |-> kind, resume |-> w, status |-> flag, sp |-> s - 3]
  BY <1>3 DEF Frame
<1> HIDE DEF s, f
<1>5. f \in Frames /\ Size(f) = 3 /\ f.sp = s - 3
  BY <1>1, <1>2, <1>4 DEF Frames, Size, Kinds
<1>6. f.sp + Size(f) <= s
  BY <1>2, <1>5 DEF Byte
<1>7. Holds(mem', f)
  <2>1. Byte8(s - 1) = s - 1 /\ Byte8(s - 2) = s - 2 /\ Byte8(s - 3) = s - 3
    BY <1>2, BelowIsByte
  <2>2. 256 + Byte8(s - 1) \in Ram /\ 256 + Byte8(s - 2) \in Ram
    BY <1>2, <2>1
  <2>3. /\ Pull8(Framed(mem, s, w, p), Byte8(s - 3)) = p
        /\ Pull16(Framed(mem, s, w, p), Byte8(Byte8(s - 3) + 1)) = w
    BY <1>1, <1>2, <2>2, FrameSurvives
  <2>4. Pull8(mem', s - 3) = p /\ Pull16(mem', Byte8((s - 3) + 1)) = w
    BY <1>3, <2>1, <2>3
  <2> QED BY <1>4, <2>4 DEF Holds, Kinds
<1>8. \A a \in Int : a > 256 + s => Rd(mem', a) = Rd(mem, a)
  BY <1>1, <1>2, <1>3, PushesBelow
<1>9. Ordered(Append(frames, f), f.sp) /\ Intact(Append(frames, f), mem')
  BY <1>1, <1>2, <1>5, <1>6, <1>7, <1>8, IntactEnter
<1>10. frames' = Append(frames, f) /\ reg'["sp"] = f.sp
  BY <1>3, <1>5 DEF f
<1>11. FramesIntact' <=> Intact(frames', mem')
  BY FramesIntactNext
<1> QED BY <1>9, <1>10, <1>11 DEF Stacked

(* JSR leaves one that RTS will understand. *)
LEMMA CallStacks ==
  ASSUME Stacked, Typed', Room, Jsr, frames' = Append(frames, Frame("call", After))
  PROVE  Stacked'
<1> DEFINE s == reg["sp"]
           f == Frame("call", After)
           w == Plus(After, -1)
<1>1. /\ Typed /\ Ordered(frames, s) /\ Intact(frames, mem) /\ mem \in Memory
      /\ flag \in Flags /\ reg \in Registers /\ After \in Word
  BY FramesIntactIs, OperandTypes DEF Stacked, Typed
<1>2. /\ s \in Byte /\ s >= 3 /\ 256 + s \in Ram /\ 256 + (s - 1) \in Ram
      /\ Sp(-2) = s - 2 /\ s - 2 \in Byte
  BY <1>1, RoomIs
<1>3. mem' = Push16(mem, s, w) /\ reg'["sp"] = s - 2
  BY <1>1, <1>2 DEF Jsr, Jumps, Registers, RegName
<1>4. f = [kind |-> "call", resume |-> After, status |-> flag, sp |-> s - 2]
  BY <1>3 DEF Frame
<1>5. w \in Word /\ Plus(w, 1) = After
  BY <1>1, BackAndForth
<1> HIDE DEF s, f, w
<1>6. f \in Frames /\ Size(f) = 2 /\ f.sp = s - 2
  BY <1>1, <1>2, <1>4 DEF Frames, Size, Kinds
<1>7. f.sp + Size(f) <= s
  BY <1>2, <1>6 DEF Byte
<1>8. Holds(mem', f)
  <2>1. Pull16(mem', s - 2) = w
    BY <1>1, <1>2, <1>3, <1>5, CallSurvives
  <2> QED BY <1>4, <1>5, <2>1 DEF Holds
<1>9. \A a \in Int : a > 256 + s => Rd(mem', a) = Rd(mem, a)
  <2>1. 0 \in Byte
    BY DEF Byte
  <2> QED BY <1>1, <1>2, <1>3, <1>5, <2>1, PushesBelow
<1>10. Ordered(Append(frames, f), f.sp) /\ Intact(Append(frames, f), mem')
  BY <1>1, <1>2, <1>6, <1>7, <1>8, <1>9, IntactEnter
<1>11. frames' = Append(frames, f) /\ reg'["sp"] = f.sp
  BY <1>3, <1>6 DEF f
<1>12. FramesIntact' <=> Intact(frames', mem')
  BY FramesIntactNext
<1> QED BY <1>10, <1>11, <1>12 DEF Stacked

(* PHA and PHP push below every frame. *)
LEMMA PushStacks ==
  ASSUME Stacked, Typed', Room, NEW o, NEW v \in Byte, Push(o, v), frames' = frames
  PROVE  Stacked'
<1> DEFINE s == reg["sp"]
<1>1. Typed /\ Ordered(frames, s) /\ Intact(frames, mem) /\ mem \in Memory /\ reg \in Registers
  BY FramesIntactIs DEF Stacked, Typed
<1>2. s \in Byte /\ s >= 3 /\ Sp(-1) = s - 1 /\ s - 1 \in Byte
  BY <1>1, RoomIs
<1>3. mem' = Push8(mem, s, v) /\ reg'["sp"] = s - 1
  BY <1>1, <1>2 DEF Push, Does, Registers, RegName
<1> HIDE DEF s
<1>4. \A a \in Int : a > 256 + s => Rd(mem', a) = Rd(mem, a)
  <2>1. 0 \in Word
    BY WordIs
  <2> QED BY <1>1, <1>2, <1>3, <2>1, PushesBelow
<1>5. Intact(frames, mem')
  BY <1>1, <1>2, <1>4, IntactAbove
<1>6. Ordered(frames, s - 1)
  <2>1. \A k \in DOMAIN frames : frames[k].sp \in Int
    BY <1>1, ElementIs, FrameTypes DEF Ordered
  <2> QED BY <1>1, <1>2, <2>1 DEF Ordered, Byte
<1>7. FramesIntact' <=> Intact(frames', mem')
  BY FramesIntactNext
<1> QED BY <1>3, <1>5, <1>6, <1>7 DEF Stacked

(* A return takes the last frame off and the stack pointer above it.       *)
LEMMA ReturnStacks ==
  ASSUME Stacked, Typed', frames # <<>>, reg["sp"] = Last(frames).sp, mem' = mem,
         reg'["sp"] = reg["sp"] + Size(Last(frames)), frames' = Front(frames)
  PROVE  Stacked'
<1>1. Ordered(frames, reg["sp"]) /\ Intact(frames, mem) /\ reg["sp"] \in Byte
  BY FramesIntactIs DEF Stacked, Typed, Registers, RegName
<1>2. Ordered(frames', reg'["sp"])
  BY <1>1, OrderedLeave
<1>3. Intact(frames', mem')
  <2>1. frames \in Seq(Frames)
    BY <1>1 DEF Ordered
  <2>2. /\ DOMAIN Front(frames) = 1 .. Len(frames) - 1 /\ DOMAIN frames = 1 .. Len(frames)
        /\ Len(frames) \in Nat /\ \A k \in 1 .. Len(frames) - 1 : Front(frames)[k] = frames[k]
    BY <2>1, FrontIs
  <2>3. \A k \in 1 .. Len(frames) - 1 : k \in DOMAIN frames
    BY <2>2
  <2> QED BY <1>1, <2>2, <2>3 DEF Intact
<1> QED BY <1>2, <1>3, FramesIntactNext DEF Stacked

(* The size of the last frame, and what RTS and RTI find there. *)
LEMMA LastFrame ==
  ASSUME Stacked, frames # <<>>, reg["sp"] = Last(frames).sp
  PROVE  LET f == Last(frames)
             s == reg["sp"]
         IN  /\ f \in Frames
             /\ f.kind = "call" => /\ Sp(2) = s + Size(f)
                                  /\ Plus(Pull16(mem, s), 1) = f.resume
             /\ f.kind # "call" => /\ Sp(3) = s + Size(f)
                                  /\ Pull16(mem, Sp(1)) = f.resume
                                  /\ UnpackP(Pull8(mem, s)) = f.status
<1> DEFINE f == Last(frames)
           s == reg["sp"]
<1>1. Ordered(frames, s) /\ Intact(frames, mem)
  BY FramesIntactIs DEF Stacked
<1>2. frames \in Seq(Frames)
  BY <1>1 DEF Ordered
<1>3. f = frames[Len(frames)] /\ Len(frames) \in DOMAIN frames
  <2>1. f = frames[Len(frames)] /\ Len(frames) \in Nat \ {0} /\ DOMAIN frames = 1 .. Len(frames)
    BY <1>2, FrontIs
  <2> QED BY <2>1
<1>4. f \in Frames /\ f.sp + Size(f) <= 255 /\ Holds(mem, f) /\ f.sp = s
  BY <1>1, <1>2, <1>3, ElementIs DEF Ordered, Intact
<1>5. f.sp \in Byte /\ f.status \in Flags /\ f.kind \in Kinds
  BY <1>4, FrameTypes
<1>6. Sp(1) = Byte8(s + 1) /\ Sp(2) = Byte8(s + 2) /\ Sp(3) = Byte8(s + 3)
  BY DEF Sp
<1> HIDE DEF f, s
<1>7. ASSUME f.kind = "call" PROVE Sp(2) = s + Size(f) /\ Plus(Pull16(mem, s), 1) = f.resume
  <2>1. Size(f) = 2
    BY <1>7 DEF Size
  <2>2. Byte8(s + 2) = s + 2
    <3>1. s \in Byte /\ s + 2 <= 255
      BY <1>4, <1>5, <2>1
    <3> QED BY <3>1, AboveIsByte
  <2> QED BY <1>4, <1>6, <1>7, <2>1, <2>2 DEF Holds
<1>8. ASSUME f.kind # "call"
      PROVE  /\ Sp(3) = s + Size(f) /\ Pull16(mem, Sp(1)) = f.resume
             /\ UnpackP(Pull8(mem, s)) = f.status
  <2>1. Size(f) = 3
    BY <1>8 DEF Size
  <2>2. Byte8(s + 3) = s + 3
    <3>1. s \in Byte /\ s + 3 <= 255
      BY <1>4, <1>5, <2>1
    <3> QED BY <3>1, AboveIsByte
  <2>3. Pull8(mem, s) = PackP(f.status) + (IF f.kind = "break" THEN 16 ELSE 0)
    BY <1>4, <1>8 DEF Holds
  <2>4. PackP(f.status) \in Int
    <3>1. PackP(f.status) \in Byte
      BY <1>5, StatusSurvives
    <3> QED BY <3>1, ByteIsInt
  <2>5. Pull8(mem, s) = PackP(f.status) \/ Pull8(mem, s) = Pushed(PackP(f.status))
    BY <1>5, <2>3, <2>4, StatusSurvives
  <2>6. UnpackP(Pull8(mem, s)) = f.status
    BY <1>5, <2>5, StatusSurvives
  <2> QED BY <1>4, <1>6, <1>8, <2>1, <2>2, <2>6 DEF Holds
<1> QED BY <1>4, <1>7, <1>8 DEF f, s

(* Any other instruction stores over no frame and pulls nothing of one. *)
LEMMA WorkStacks ==
  ASSUME Stacked, Typed', frames' = frames, frames # <<>> => reg'["sp"] <= Last(frames).sp,
         \A a \in Held : Rd(mem', a) = Rd(mem, a)
  PROVE  Stacked'
<1>1. /\ Ordered(frames, reg["sp"]) /\ Intact(frames, mem) /\ reg["sp"] \in Byte
      /\ reg'["sp"] \in Byte
  BY FramesIntactIs DEF Stacked, Typed, Registers, RegName
<1>2. Ordered(frames, reg'["sp"])
  BY <1>1, OrderedWithin
<1>3. Intact(frames, mem')
  <2>1. \A k \in DOMAIN frames : \A a \in 257 + frames[k].sp .. 256 + frames[k].sp + Size(frames[k]) :
           a \in Held
    BY DEF Held
  <2> QED BY <1>1, <2>1, IntactKept
<1> QED BY <1>2, <1>3, FramesIntactNext DEF Stacked

-----------------------------------------------------------------------------
(* The instructions that use the stack, and the others. *)
Stacking == {"jsr", "brk", "pha", "php", "rts", "rti"}

(* What an opcode does, it does alone. *)
LEMMA OperationIs ==
  ASSUME Step
  PROVE  \/ Jsr \/ Brk \/ Rts \/ Rti
         \/ Push("pha", reg["a"]) \/ Push("php", Pushed(PackP(flag)))
         \/ Operation(Op) \notin Stacking
<1>0. \A o : o \notin Stacking => (Is(o) => Operation(Op) \notin Stacking)
  BY DEF Is
<1>1. CASE Official
  <2>1. CASE \/ Load("lda", "a") \/ Load("ldx", "x") \/ Load("ldy", "y")
             \/ Store("sta", reg["a"]) \/ Store("stx", reg["x"]) \/ Store("sty", reg["y"])
    <3>1. \/ Is("lda") \/ Is("ldx") \/ Is("ldy") \/ Is("sta") \/ Is("stx") \/ Is("sty")
      BY <2>1 DEF Load, Store, Does
    <3> QED BY <1>0, <3>1 DEF Stacking
  <2>2. CASE \/ Transfer("tax", "a", "x") \/ Transfer("tay", "a", "y") \/ Transfer("txa", "x", "a")
             \/ Transfer("tya", "y", "a") \/ Transfer("tsx", "sp", "x") \/ Txs \/ Nop
    <3>1. \/ Is("tax") \/ Is("tay") \/ Is("txa") \/ Is("tya") \/ Is("tsx") \/ Is("txs")
          \/ Is("nop")
      BY <2>2 DEF Transfer, Txs, Nop, Does
    <3> QED BY <1>0, <3>1 DEF Stacking
  <2>3. CASE \/ Count("inx", "x", 1) \/ Count("iny", "y", 1) \/ CountMemory("inc", 1)
             \/ Count("dex", "x", -1) \/ Count("dey", "y", -1) \/ CountMemory("dec", -1)
    <3>1. \/ Is("inx") \/ Is("iny") \/ Is("inc") \/ Is("dex") \/ Is("dey") \/ Is("dec")
      BY <2>3 DEF Count, CountMemory, Does
    <3> QED BY <1>0, <3>1 DEF Stacking
  <2>4. CASE \/ Add \/ Subtract \/ TestBits
             \/ Cmp("cmp", "a") \/ Cmp("cpx", "x") \/ Cmp("cpy", "y")
    <3>1. \/ Is("cmp") \/ Is("cpx") \/ Is("cpy") \/ Is("adc") \/ Is("sbc") \/ Is("bit")
      BY <2>4 DEF Add, Subtract, TestBits, Cmp, Does
    <3> QED BY <1>0, <3>1 DEF Stacking
  <2>5. CASE \/ \E o \in {"and", "eor", "ora"} : Logic(o)
             \/ \E o \in {"asl", "rol", "lsr", "ror"} : Shift(o)
    <3>1. \/ Is("and") \/ Is("eor") \/ Is("ora") \/ Is("asl") \/ Is("rol") \/ Is("lsr")
          \/ Is("ror")
      BY <2>5 DEF Logic, Shift, Does
    <3> QED BY <1>0, <3>1 DEF Stacking
  <2>6. CASE \/ SetFlag("clc", "c", 0) \/ SetFlag("cld", "d", 0) \/ SetFlag("cli", "i", 0)
             \/ SetFlag("clv", "v", 0) \/ SetFlag("sec", "c", 1) \/ SetFlag("sed", "d", 1)
             \/ SetFlag("sei", "i", 1)
    <3>1. \/ Is("clc") \/ Is("cld") \/ Is("cli") \/ Is("clv") \/ Is("sec") \/ Is("sed")
          \/ Is("sei")
      BY <2>6 DEF SetFlag, Does
    <3> QED BY <1>0, <3>1 DEF Stacking
  <2>7. CASE (\E b \in Branches : Branch(b[1], b[2], b[3])) \/ Jmp
    <3>1. \A b \in Branches : b[1] \notin Stacking
      BY DEF Branches, Stacking
    <3>2. "jmp" \notin Stacking
      BY DEF Stacking
    <3>3. (\E b \in Branches : Is(b[1])) \/ Is("jmp")
      BY <2>7 DEF Branch, Jmp, Jumps
    <3> QED BY <1>0, <3>1, <3>2, <3>3
  <2>8. CASE Pla \/ Plp
    <3>1. \/ Is("pla") \/ Is("plp")
      BY <2>8 DEF Pla, Plp, Does
    <3> QED BY <1>0, <3>1 DEF Stacking
  <2> QED BY <1>1, <2>1, <2>2, <2>3, <2>4, <2>5, <2>6, <2>7, <2>8 DEF Official
<1>2. CASE Undocumented
  <2>1. CASE \/ ShiftAndCombine("SLO", "asl", "ora") \/ ShiftAndCombine("RLA", "rol", "and")
             \/ ShiftAndCombine("SRE", "lsr", "eor") \/ RRA \/ ISC \/ DCP
    <3>1. \/ Is("SLO") \/ Is("RLA") \/ Is("SRE") \/ Is("RRA") \/ Is("ISC") \/ Is("DCP")
      BY <2>1 DEF ShiftAndCombine, RRA, ISC, DCP, Does
    <3> QED BY <1>0, <3>1 DEF Stacking
  <2>2. CASE \/ Store("SAX", BitAnd(reg["a"], reg["x"]))
             \/ Store("SHA", AndHigh(BitAnd(reg["a"], reg["x"])))
             \/ StoreHigh("SHX", "x", reg["y"]) \/ StoreHigh("SHY", "y", reg["x"]) \/ TAS
    <3>1. \/ Is("SAX") \/ Is("SHA") \/ Is("SHX") \/ Is("SHY") \/ Is("TAS")
      BY <2>2 DEF Store, StoreHigh, TAS, Does
    <3> QED BY <1>0, <3>1 DEF Stacking
  <2>3. CASE LAX \/ ANC \/ ALR \/ ARR \/ SBX \/ LAS \/ ANE \/ LXA \/ Jam
    <3>1. \/ Is("LAX") \/ Is("ANC") \/ Is("ALR") \/ Is("ARR") \/ Is("SBX") \/ Is("LAS")
          \/ Is("ANE") \/ Is("LXA") \/ Is("JAM")
      BY <2>3 DEF LAX, ANC, ALR, ARR, SBX, LAS, ANE, LXA, Jam, Does, Jumps
    <3> QED BY <1>0, <3>1 DEF Stacking
  <2> QED BY <1>2, <2>1, <2>2, <2>3 DEF Undocumented
<1> QED BY <1>1, <1>2 DEF Step

-----------------------------------------------------------------------------
(* One step of the interrupted machine, by what it does to the frames.     *)
EntersHandler(kind, w, vector) ==
  /\ Enter(w, PackP(flag) + IF kind = "break" THEN 16 ELSE 0, vector)
  /\ frames' = Append(frames, Frame(kind, w))
  /\ kind = "irq" => flag["i"] = 0

Calling == Jsr /\ frames' = Append(frames, Frame("call", After))

PushesByte == \E o : \E v \in Byte : Push(o, v) /\ frames' = frames

Returns ==
  /\ Rts \/ Rti
  /\ Rts <=> Last(frames).kind = "call"
  /\ frames # <<>> /\ reg["sp"] = Last(frames).sp
  /\ frames' = Front(frames)

Works ==
  /\ frames' = frames
  /\ frames # <<>> => reg'["sp"] <= Last(frames).sp
  /\ \A a \in Held : Rd(mem', a) = Rd(mem, a)

(* A flag is raised by what an instruction of a handler does, or kept. *)
StaysMasked == Handling => flag'["i"] >= flag["i"]

(* A step enters a handler, calls, returns, pushes a byte, or works. *)
LEMMA StepsByFrames ==
  ASSUME Typed, Room, Execute => Tidy, NextTwice
  PROVE  \/ \E kind \in Kinds \ {"call"}, w \in Word : \E vector : EntersHandler(kind, w, vector)
         \/ Calling
         \/ Returns
         \/ (PushesByte \/ Works) /\ StaysMasked
<1>1. /\ Unbroken(PackP(flag)) = PackP(flag) + 0 /\ Pushed(PackP(flag)) = PackP(flag) + 16
      /\ Pushed(PackP(flag)) \in Byte
  <2>1. flag \in Flags
    BY DEF Typed
  <2>2. PackP(flag) \in Byte /\ Unbroken(PackP(flag)) = PackP(flag)
    BY <2>1, StatusSurvives
  <2> QED BY <2>1, <2>2, StatusSurvives DEF Byte
<1>2. ASSUME TakeIrq PROVE EntersHandler("irq", pc, IrqVector) /\ pc \in Word
  BY <1>1, <1>2 DEF TakeIrq, Irq, Interrupt, EntersHandler, Typed
<1>3. ASSUME TakeNmi PROVE EntersHandler("nmi", pc, NmiVector) /\ pc \in Word
  BY <1>1, <1>3 DEF TakeNmi, Nmi, Interrupt, EntersHandler, Typed
<1>4. CASE Execute
  <2>1. Step /\ Tidy
    BY <1>4 DEF Execute
  <2>2. CASE Jsr
    <3>1. Is("jsr")
      BY <2>2 DEF Jsr, Jumps
    <3> QED BY <1>4, <2>2, <3>1 DEF Execute, Calling
  <2>3. CASE Brk
    <3>1. Is("brk") /\ ~Is("jsr")
      BY <2>3 DEF Brk, Is
    <3>2. EntersHandler("break", Plus(After, 1), IrqVector)
      BY <1>1, <1>4, <2>3, <3>1 DEF Execute, EntersHandler, Brk
    <3>3. Plus(After, 1) \in Word
      BY OperandTypes, NearbyIsWord
    <3> QED BY <3>2, <3>3 DEF Kinds
  <2>4. CASE Rts \/ Rti
    <3>1. Is("rts") \/ Is("rti")
      BY <2>4 DEF Rts, Rti, Jumps
    <3>2. ~Is("jsr") /\ ~Is("brk") /\ (Is("rts") <=> ~Is("rti"))
      BY <3>1 DEF Is
    <3>3. Is("rts") <=> Rts
      BY <2>4, <3>2 DEF Rts, Rti, Jumps
    <3> QED BY <1>4, <2>1, <2>4, <3>1, <3>2, <3>3 DEF Execute, Tidy, Returning, Returns
  <2>5. CASE Push("pha", reg["a"]) \/ Push("php", Pushed(PackP(flag)))
    <3>1. Is("pha") \/ Is("php")
      BY <2>5 DEF Push, Does
    <3>2. ~Is("jsr") /\ ~Is("brk") /\ ~Is("rts") /\ ~Is("rti")
      BY <3>1 DEF Is
    <3>3. frames' = frames
      BY <1>4, <3>2 DEF Execute
    <3>4. PushesByte
      <4>1. reg["a"] \in Byte
        BY OperandTypes DEF RegName
      <4> QED BY <1>1, <2>5, <3>3, <4>1 DEF PushesByte
    <3>5. StaysMasked
      BY <2>1, <3>2 DEF Tidy, StaysMasked
    <3> QED BY <3>4, <3>5
  <2>6. CASE Operation(Op) \notin Stacking
    <3>1. ~Is("jsr") /\ ~Is("brk") /\ ~Is("rts") /\ ~Is("rti") /\ ~Is("pha") /\ ~Is("php")
      BY <2>6 DEF Is, Stacking
    <3>2. Works /\ StaysMasked
      BY <1>4, <2>1, <3>1 DEF Execute, Tidy, Returning, Pushing, Works, StaysMasked
    <3> QED BY <3>2
  <2> QED BY <2>1, <2>2, <2>3, <2>4, <2>5, <2>6, OperationIs
<1> QED BY <1>2, <1>3, <1>4 DEF NextTwice, Kinds

-----------------------------------------------------------------------------
(* The inductive invariant of FramesIntact: every step keeps it. *)
LEMMA StepStacks ==
  ASSUME Stacked, Room, Execute => Tidy, NextTwice
  PROVE  Stacked'
<1>1. Typed
  BY DEF Stacked
<1>2. Typed'
  <2>1. Next
    BY DEF NextTwice, Execute, TakeIrq, TakeNmi, Next
  <2> QED BY <1>1, <2>1, NextKeepsTypes
<1>3. ASSUME NEW kind \in Kinds \ {"call"}, NEW w \in Word, NEW vector, EntersHandler(kind, w, vector)
      PROVE  Stacked'
  <2> DEFINE p == PackP(flag) + IF kind = "break" THEN 16 ELSE 0
  <2>1. p \in Byte
    <3>1. PackP(flag) \in Byte /\ PackP(flag) + 16 \in Byte
      BY <1>1, StatusSurvives DEF Typed
    <3>2. PackP(flag) + 0 = PackP(flag)
      BY <3>1, ByteIsInt
    <3> QED BY <3>1, <3>2
  <2>2. Enter(w, p, vector) /\ frames' = Append(frames, Frame(kind, w))
    BY <1>3 DEF EntersHandler
  <2> QED BY <1>2, <2>1, <2>2, EnterStacks
<1>4. CASE Calling
  BY <1>2, <1>4, CallStacks DEF Calling
<1>5. CASE Returns
  <2> DEFINE f == Last(frames)
  <2>1. Sp(IF f.kind = "call" THEN 2 ELSE 3) = reg["sp"] + Size(f)
    BY <1>5, LastFrame DEF Returns
  <2>2. mem' = mem /\ reg'["sp"] = Sp(IF f.kind = "call" THEN 2 ELSE 3)
    <3>1. reg \in Registers
      BY <1>1 DEF Typed
    <3>2. CASE Rts
      BY <1>5, <3>1, <3>2 DEF Returns, Rts, Jumps, Registers, RegName
    <3>3. CASE ~Rts
      BY <1>5, <3>1, <3>3 DEF Returns, Rti, Jumps, Registers, RegName
    <3> QED BY <3>2, <3>3
  <2> QED BY <1>2, <1>5, <2>1, <2>2, ReturnStacks DEF Returns
<1>6. CASE PushesByte
  BY <1>2, <1>6, PushStacks DEF PushesByte
<1>7. CASE Works
  BY <1>2, <1>7, WorkStacks DEF Works
<1> QED BY <1>1, <1>3, <1>4, <1>5, <1>6, <1>7, StepsByFrames

(* It holds of the machine reset. *)
LEMMA InitStacks == InitTwice => Stacked
<1> SUFFICES ASSUME InitTwice PROVE Stacked
  OBVIOUS
<1>1. Typed
  <2>1. Init
    BY DEF InitTwice
  <2> QED BY <2>1, InitIsTyped
<1>2. frames = <<>> /\ DOMAIN frames = {} /\ frames \in Seq(Frames)
  BY DEF InitTwice
<1> QED BY <1>1, <1>2 DEF Stacked, Ordered, FramesIntact

-----------------------------------------------------------------------------
(* While a handler is pending I is set, it was set when a later frame was  *)
(* saved, and it was clear when an IRQ was taken.                          *)
Masked(fs, i) ==
  /\ \A k \in DOMAIN fs : fs[k].kind # "call" => i = 1
  /\ \A j, k \in DOMAIN fs : j < k /\ fs[j].kind # "call" => fs[k].status["i"] = 1
  /\ \A k \in DOMAIN fs : fs[k].kind = "irq" => fs[k].status["i"] = 0

(* Entering with I set afterwards, or by a call, keeps that. *)
LEMMA MaskedEnter ==
  ASSUME NEW fs \in Seq(Frames), NEW i, NEW i2, Masked(fs, i), NEW f \in Frames,
         f.status["i"] = i, f.kind = "irq" => i = 0, IF f.kind = "call" THEN i2 = i ELSE i2 = 1
  PROVE  Masked(Append(fs, f), i2)
<1> DEFINE gs == Append(fs, f)
           last == Len(fs) + 1
<1>1. /\ \A k \in DOMAIN gs : k \in DOMAIN fs \/ k = last
      /\ gs[last] = f /\ \A k \in DOMAIN fs : gs[k] = fs[k] /\ k < last
  BY AppendIs
<1>4. DOMAIN gs \subseteq Int /\ last \in Int
  BY AppendIs
<1> HIDE DEF gs, last
<1>2. ASSUME NEW k \in DOMAIN gs
      PROVE  /\ gs[k].kind # "call" => i2 = 1
             /\ gs[k].kind = "irq" => gs[k].status["i"] = 0
  <2>1. CASE k \in DOMAIN fs
    BY <1>1, <2>1 DEF Masked
  <2>2. CASE k = last
    BY <1>1, <2>2
  <2> QED BY <1>1, <2>1, <2>2
<1>3. ASSUME NEW j \in DOMAIN gs, NEW k \in DOMAIN gs, j < k, gs[j].kind # "call"
      PROVE  gs[k].status["i"] = 1
  <2>0. j \in DOMAIN fs
    BY <1>1, <1>3, <1>4
  <2>1. CASE k \in DOMAIN fs
    BY <1>1, <1>3, <2>0, <2>1 DEF Masked
  <2>2. CASE k = last
    BY <1>1, <1>3, <2>0, <2>2 DEF Masked
  <2> QED BY <1>1, <2>1, <2>2
<1> QED BY <1>2, <1>3 DEF Masked, gs

(* Leaving restores the I of the last frame, or keeps what a call had. *)
LEMMA MaskedLeave ==
  ASSUME NEW fs \in Seq(Frames), fs # <<>>, NEW i, NEW i2, Masked(fs, i),
         IF Last(fs).kind = "call" THEN i2 = i ELSE i2 = Last(fs).status["i"]
  PROVE  Masked(Front(fs), i2)
<1> DEFINE gs == Front(fs)
           last == Len(fs)
<1>1. /\ \A k \in DOMAIN gs : k \in DOMAIN fs /\ k < last /\ gs[k] = fs[k]
      /\ last \in DOMAIN fs /\ Last(fs) = fs[last]
  <2>1. /\ Len(fs) \in Nat \ {0} /\ Last(fs) = fs[Len(fs)]
        /\ DOMAIN Front(fs) = 1 .. Len(fs) - 1 /\ DOMAIN fs = 1 .. Len(fs)
        /\ \A k \in 1 .. Len(fs) - 1 : Front(fs)[k] = fs[k]
    BY FrontIs
  <2> QED BY <2>1
<1> HIDE DEF gs, last
<1>2. ASSUME NEW k \in DOMAIN gs, gs[k].kind # "call" PROVE i2 = 1
  <2>1. i = 1 /\ fs[last].status["i"] = 1
    BY <1>1, <1>2 DEF Masked
  <2> QED BY <1>1, <2>1
<1>3. \A j, k \in DOMAIN gs : j < k /\ gs[j].kind # "call" => gs[k].status["i"] = 1
  BY <1>1 DEF Masked
<1>4. \A k \in DOMAIN gs : gs[k].kind = "irq" => gs[k].status["i"] = 0
  BY <1>1 DEF Masked
<1> QED BY <1>2, <1>3, <1>4 DEF Masked, gs

(* Every step of a disciplined program keeps handlers masked. *)
LEMMA StepMasks ==
  ASSUME Stacked, Room, Execute => Tidy, NextTwice, Masked(frames, flag["i"]), Stacked'
  PROVE  Masked(frames', flag'["i"])
<1>1. /\ Typed /\ frames \in Seq(Frames) /\ flag \in Flags /\ flag["i"] \in Bit
      /\ Typed' /\ flag'["i"] \in Bit /\ reg \in Registers
  BY DEF Stacked, Ordered, Typed, Flags, FlagName
<1>2. ASSUME NEW kind \in Kinds \ {"call"}, NEW w \in Word, NEW vector, EntersHandler(kind, w, vector)
      PROVE  Masked(frames', flag'["i"])
  <2> DEFINE f == Frame(kind, w)
  <2>1. f = [kind |-> kind, resume |-> w, status |-> flag, sp |-> reg'["sp"]]
    BY DEF Frame
  <2>2. reg'["sp"] \in Byte
    BY <1>1 DEF Typed, Registers, RegName
  <2>3. f \in Frames /\ f.status["i"] = flag["i"] /\ f.kind = kind
    BY <1>1, <2>1, <2>2 DEF Frames
  <2>4. flag'["i"] = 1 /\ frames' = Append(frames, f) /\ (kind = "irq" => flag["i"] = 0)
    BY <1>1, <1>2 DEF EntersHandler, Enter, Flags, FlagName
  <2> HIDE DEF f
  <2>5. /\ f.kind = "irq" => flag["i"] = 0
        /\ IF f.kind = "call" THEN flag'["i"] = flag["i"] ELSE flag'["i"] = 1
    BY <2>3, <2>4
  <2>6. Masked(Append(frames, f), flag'["i"])
    BY <1>1, <2>3, <2>5, MaskedEnter
  <2> QED BY <2>4, <2>6
<1>3. CASE Calling
  <2> DEFINE f == Frame("call", After)
  <2>1. f = [kind |-> "call", resume |-> After, status |-> flag, sp |-> reg'["sp"]]
    BY DEF Frame
  <2>2. reg'["sp"] \in Byte /\ After \in Word
    BY <1>1, OperandTypes DEF Typed, Registers, RegName
  <2>3. f \in Frames /\ f.status["i"] = flag["i"] /\ f.kind = "call"
    BY <1>1, <2>1, <2>2 DEF Frames, Kinds
  <2>4. flag' = flag /\ frames' = Append(frames, f)
    BY <1>3 DEF Calling, Jsr, Jumps
  <2> HIDE DEF f
  <2>5. /\ f.kind = "irq" => flag["i"] = 0
        /\ IF f.kind = "call" THEN flag'["i"] = flag["i"] ELSE flag'["i"] = 1
    BY <2>3, <2>4
  <2>6. Masked(Append(frames, f), flag'["i"])
    BY <1>1, <2>3, <2>5, MaskedEnter
  <2> QED BY <2>4, <2>6
<1>4. CASE Returns
  <2>1. flag' = IF Last(frames).kind = "call" THEN flag ELSE Last(frames).status
    <3>1. CASE Rts
      BY <1>4, <3>1 DEF Returns, Rts, Jumps
    <3>2. CASE ~Rts
      <4>1. flag' = UnpackP(Pull8(mem, reg["sp"])) /\ Last(frames).kind # "call"
        BY <1>4, <3>2 DEF Returns, Rti, Jumps
      <4> QED BY <1>4, <4>1, LastFrame DEF Returns
    <3> QED BY <3>1, <3>2
  <2>2. IF Last(frames).kind = "call" THEN flag'["i"] = flag["i"]
        ELSE flag'["i"] = Last(frames).status["i"]
    BY <2>1
  <2> QED BY <1>1, <1>4, <2>2, MaskedLeave DEF Returns
<1>5. CASE (PushesByte \/ Works) /\ StaysMasked
  <2>1. frames' = frames
    BY <1>5 DEF PushesByte, Works
  <2>2. \A k \in DOMAIN frames : frames[k].kind # "call" => flag["i"] = 1 /\ flag'["i"] >= flag["i"]
    BY <1>5 DEF StaysMasked, Handling, Masked
  <2>3. \A k \in DOMAIN frames : frames[k].kind # "call" => flag'["i"] = 1
    BY <1>1, <2>2 DEF Bit
  <2> QED BY <2>1, <2>3 DEF Masked
<1> QED BY <1>1, <1>2, <1>3, <1>4, <1>5, StepsByFrames

(* What the theorems below are about: the steps of a disciplined program.  *)
TidyStep == NextTwice /\ Room /\ (Execute => Tidy)

Protected == Stacked /\ Masked(frames, flag["i"])

(* The inductive invariant, kept by every disciplined step.                *)
LEMMA ProtectedHolds == SpecTwice /\ Disciplined => []Protected /\ [][TidyStep]_<<vars, frames, quiet>>
<1>1. InitTwice => Protected
  <2>1. ASSUME InitTwice PROVE Masked(frames, flag["i"])
    BY <2>1 DEF InitTwice, Masked
  <2> QED BY <2>1, InitStacks DEF Protected
<1>2. Protected /\ [TidyStep]_<<vars, frames, quiet>> => Protected'
  <2>1. ASSUME Protected, UNCHANGED <<vars, frames, quiet>> PROVE Protected'
    BY <2>1 DEF Protected, Stacked, Typed, FramesIntact, vars
  <2>2. ASSUME Protected, TidyStep PROVE Protected'
    BY <2>2, StepStacks, StepMasks DEF Protected, TidyStep
  <2> QED BY <2>1, <2>2
<1>3. [NextTwice]_<<vars, frames, quiet>> /\ [Room /\ (Execute => Tidy)]_<<vars, frames, quiet>>
        => [TidyStep]_<<vars, frames, quiet>>
  BY DEF TidyStep
<1> QED BY <1>1, <1>2, <1>3, PTL DEF SpecTwice, Disciplined

(* FramesIntact holds of every program that keeps the discipline: whatever *)
(* is pushed, stored and interrupted meanwhile, the stack holds what every *)
(* pending call and interrupt will return to.                              *)
THEOREM FramesStayIntact == SpecTwice /\ Disciplined => []FramesIntact
<1>1. Protected => FramesIntact
  BY DEF Protected, Stacked
<1> QED BY <1>1, ProtectedHolds, PTL

(* HandlersMasked holds of every program that keeps the discipline: no IRQ *)
(* is taken while a handler runs, however handlers, calls and NMIs nest.   *)
THEOREM HandlersStayMasked == SpecTwice /\ Disciplined => []HandlersMasked
<1>1. Protected => HandlersMasked
  <2> SUFFICES ASSUME Protected, NEW k \in DOMAIN frames, frames[k].kind = "irq",
                      NEW j \in 1 .. k - 1
               PROVE  frames[j].kind = "call"
    BY DEF HandlersMasked
  <2>1. Masked(frames, flag["i"]) /\ frames \in Seq(Frames)
    BY DEF Protected, Stacked, Ordered
  <2>2. j \in DOMAIN frames /\ j < k
    BY <2>1
  <2>3. frames[k].status["i"] = 0
    BY <2>1 DEF Masked
  <2>4. 0 # 1
    OBVIOUS
  <2> QED BY <2>1, <2>2, <2>3, <2>4 DEF Masked
<1> QED BY <1>1, ProtectedHolds, PTL

-----------------------------------------------------------------------------
(* The stack of CallStack. *)
Bare(f)   == [kind |-> f.kind, resume |-> f.resume, status |-> f.status]
Bares     == [kind : Kinds, resume : Word, status : Flags]
Stack(fs) == [k \in DOMAIN fs |-> Bare(fs[k])]

(* Sequences with the same elements are the same. *)
LEMMA SameSequence ==
  ASSUME NEW S, NEW s \in Seq(S), NEW t \in Seq(S), DOMAIN s = DOMAIN t,
         \A k \in DOMAIN s : s[k] = t[k]
  PROVE  s = t
OBVIOUS

(* What the stack of CallStack is made of. *)
LEMMA StackIs ==
  ASSUME NEW fs \in Seq(Frames)
  PROVE  /\ Stack(fs) \in Seq(Bares) /\ Len(Stack(fs)) = Len(fs)
         /\ DOMAIN Stack(fs) = DOMAIN fs /\ \A k \in DOMAIN fs : Stack(fs)[k] = Bare(fs[k])
<1>1. \A k \in DOMAIN fs : Bare(fs[k]) \in Bares
  <2>1. \A f \in Frames : Bare(f) \in Bares
    BY DEF Frames, Bare, Bares
  <2> QED BY <2>1, ElementIs
<1>2. DOMAIN fs = 1 .. Len(fs) /\ Len(fs) \in Nat
  BY ElementIs
<1> QED BY <1>1, <1>2 DEF Stack

(* Taking a frame off, and putting one on. *)
LEMMA StackLeave ==
  ASSUME NEW fs \in Seq(Frames), fs # <<>>
  PROVE  /\ Stack(fs) # <<>> /\ Last(Stack(fs)) = Bare(Last(fs))
         /\ Front(Stack(fs)) = Stack(Front(fs))
<1>1. /\ Front(fs) \in Seq(Frames) /\ Len(fs) \in Nat \ {0} /\ Last(fs) = fs[Len(fs)]
      /\ DOMAIN Front(fs) = 1 .. Len(fs) - 1 /\ DOMAIN fs = 1 .. Len(fs)
      /\ \A k \in 1 .. Len(fs) - 1 : Front(fs)[k] = fs[k]
  BY FrontIs
<1>2. /\ Stack(fs) \in Seq(Bares) /\ Len(Stack(fs)) = Len(fs)
      /\ \A k \in DOMAIN fs : Stack(fs)[k] = Bare(fs[k])
  BY StackIs
<1>3. /\ Stack(Front(fs)) \in Seq(Bares) /\ DOMAIN Stack(Front(fs)) = 1 .. Len(fs) - 1
      /\ \A k \in 1 .. Len(fs) - 1 : Stack(Front(fs))[k] = Bare(Front(fs)[k])
  BY <1>1, StackIs
<1>4. Stack(fs) # <<>>
  BY <1>1, <1>2
<1>5. /\ Front(Stack(fs)) \in Seq(Bares) /\ Last(Stack(fs)) = Stack(fs)[Len(fs)]
      /\ DOMAIN Front(Stack(fs)) = 1 .. Len(fs) - 1
      /\ \A k \in 1 .. Len(fs) - 1 : Front(Stack(fs))[k] = Stack(fs)[k]
  BY <1>2, <1>4, FrontIs
<1>6. \A k \in 1 .. Len(fs) - 1 : k \in DOMAIN fs
  BY <1>1
<1>7. \A k \in 1 .. Len(fs) - 1 : Front(Stack(fs))[k] = Stack(Front(fs))[k]
  BY <1>1, <1>2, <1>3, <1>5, <1>6
<1>8. Front(Stack(fs)) = Stack(Front(fs))
  <2> DEFINE s == Front(Stack(fs))
             t == Stack(Front(fs))
             n == Len(fs) - 1
  <2>1. /\ s \in Seq(Bares) /\ t \in Seq(Bares) /\ DOMAIN s = 1 .. n /\ DOMAIN t = 1 .. n
        /\ \A k \in 1 .. n : s[k] = t[k]
    BY <1>3, <1>5, <1>7
  <2> HIDE DEF s, t, n
  <2>2. s = t
    BY <2>1, SameSequence
  <2> QED BY <2>2 DEF s, t
<1>9. Len(fs) \in DOMAIN fs
  BY <1>1
<1> QED BY <1>1, <1>2, <1>4, <1>5, <1>8, <1>9

LEMMA StackEnter ==
  ASSUME NEW fs \in Seq(Frames), NEW f \in Frames
  PROVE  /\ Stack(Append(fs, f)) # <<>> /\ Last(Stack(Append(fs, f))) = Bare(f)
         /\ Front(Stack(Append(fs, f))) = Stack(fs)
<1> DEFINE gs == Append(fs, f)
<1>1. /\ gs \in Seq(Frames) /\ Len(fs) \in Nat /\ gs # <<>> /\ Len(gs) = Len(fs) + 1
      /\ DOMAIN fs = 1 .. Len(fs) /\ gs[Len(fs) + 1] = f /\ \A k \in DOMAIN fs : gs[k] = fs[k]
  BY AppendIs
<1> HIDE DEF gs
<1>2. Stack(gs) # <<>> /\ Last(Stack(gs)) = Bare(Last(gs)) /\ Front(Stack(gs)) = Stack(Front(gs))
  BY <1>1, StackLeave
<1>3. /\ Front(gs) \in Seq(Frames) /\ Last(gs) = gs[Len(gs)] /\ DOMAIN Front(gs) = 1 .. Len(gs) - 1
      /\ \A k \in 1 .. Len(gs) - 1 : Front(gs)[k] = gs[k]
  BY <1>1, FrontIs
<1>4. Last(gs) = f
  BY <1>1, <1>3
<1>5. Front(gs) = fs
  <2>1. DOMAIN Front(gs) = 1 .. Len(fs) /\ \A k \in 1 .. Len(fs) : Front(gs)[k] = fs[k]
    BY <1>1, <1>3
  <2> QED BY <1>1, <1>3, <2>1
<1> QED BY <1>2, <1>4, <1>5 DEF gs

-----------------------------------------------------------------------------
(* KeepsCalls holds of every program that keeps the discipline: CPU with   *)
(* its interrupts implements CallStack, so a return resumes what was       *)
(* entered last, and RTI restores the status it had.                       *)
THEOREM CallsKept == SpecTwice /\ Disciplined => KeepsCalls
<1>0. Flags = [{"n", "v", "d", "i", "z", "c"} -> {0, 1}]
  BY DEF Flags, FlagName, Bit
<1>3. \A fs : Calls!Front(fs) = Front(fs) /\ Calls!Last(fs) = Last(fs)
  BY DEF Calls!Front, Front, Calls!Last, Last
<1>1. InitTwice => Calls!Init
  <2> SUFFICES ASSUME InitTwice PROVE Calls!Init
    OBVIOUS
  <2>1. pc \in Word /\ flag \in Flags
    BY InitIsTyped DEF InitTwice, Typed
  <2>2. Stack(frames) = <<>>
    BY DEF InitTwice, Stack
  <2> QED BY <1>0, <2>1, <2>2 DEF Calls!Init, Stack, Bare
<1>2. Protected /\ Protected' /\ [TidyStep]_<<vars, frames, quiet>> => [Calls!Next]_(Calls!vars)
  <2> SUFFICES ASSUME Protected, Protected', [TidyStep]_<<vars, frames, quiet>>
               PROVE  [Calls!Next]_(Calls!vars)
    OBVIOUS
  <2>1. /\ Typed /\ Stacked /\ frames \in Seq(Frames) /\ flag \in Flags /\ pc \in Word
        /\ pc' \in Word /\ flag' \in Flags /\ reg'["sp"] \in Byte
    BY DEF Protected, Stacked, Ordered, Typed, Registers, RegName
  <2>2. ASSUME NEW f \in Frames, frames' = Append(frames, f), f.status = flag
        PROVE  Calls!Enter
    <3>1. /\ Stack(frames') # <<>> /\ Last(Stack(frames')) = Bare(f)
          /\ Front(Stack(frames')) = Stack(frames)
      BY <2>1, <2>2, StackEnter
    <3>2. Bare(f) \in Bares /\ Bare(f).status = flag
      BY <2>2 DEF Frames, Bare, Bares
    <3> QED BY <1>0, <1>3, <2>1, <3>1, <3>2
            DEF Calls!Enter, Calls!Frame, Calls!Kinds, Stack, Bare, Bares, Kinds
  <2>3. ASSUME NEW kind \in Kinds, NEW w \in Word PROVE Frame(kind, w) \in Frames /\ Frame(kind, w).status = flag
    BY <2>1 DEF Frame, Frames
  <2>4. ASSUME TidyStep,
               \E kind \in Kinds \ {"call"}, w \in Word : \E vector : EntersHandler(kind, w, vector)
        PROVE  Calls!Enter
    BY <2>2, <2>3, <2>4 DEF EntersHandler
  <2>5. ASSUME Calling PROVE Calls!Enter
    <3>1. After \in Word
      BY <2>1, OperandTypes
    <3> QED BY <2>2, <2>3, <2>5, <3>1 DEF Calling, Kinds
  <2>6. ASSUME Returns PROVE Calls!Leave
    <3> DEFINE f == Last(frames)
    <3>1. /\ Stack(frames) # <<>> /\ Last(Stack(frames)) = Bare(f)
          /\ Front(Stack(frames)) = Stack(frames')
      BY <2>1, <2>6, StackLeave DEF Returns
    <3>2. pc' = f.resume /\ (f.kind = "call" \/ flag' = f.status)
      <4>1. CASE f.kind = "call"
        <5>1. pc' = Plus(Pull16(mem, reg["sp"]), 1)
          BY <2>6, <4>1 DEF Returns, Rts, Jumps
        <5> QED BY <2>1, <2>6, <4>1, <5>1, LastFrame DEF Returns
      <4>2. CASE f.kind # "call"
        <5>1. pc' = Pull16(mem, Sp(1)) /\ flag' = UnpackP(Pull8(mem, reg["sp"]))
          BY <2>6, <4>2 DEF Returns, Rti, Jumps
        <5> QED BY <2>1, <2>6, <4>2, <5>1, LastFrame DEF Returns
      <4> QED BY <4>1, <4>2
    <3>3. Bare(f).resume = f.resume /\ Bare(f).kind = f.kind /\ Bare(f).status = f.status
      BY DEF Bare
    <3> HIDE DEF f
    <3> QED BY <1>3, <3>1, <3>2, <3>3 DEF Calls!Leave, Stack, Bare
  <2>7. ASSUME frames' = frames PROVE Calls!Work
    BY <1>0, <2>1, <2>7 DEF Calls!Work
  <2>8. CASE TidyStep
    <3>1. \/ \E kind \in Kinds \ {"call"}, w \in Word : \E vector : EntersHandler(kind, w, vector)
          \/ Calling \/ Returns \/ frames' = frames
      BY <2>1, <2>8, StepsByFrames DEF TidyStep, PushesByte, Works
    <3> QED BY <2>4, <2>5, <2>6, <2>7, <2>8, <3>1 DEF Calls!Next
  <2>9. CASE UNCHANGED <<vars, frames, quiet>>
    BY <2>9 DEF vars, Calls!vars
  <2> QED BY <2>8, <2>9
<1> QED BY <1>1, <1>2, ProtectedHolds, PTL DEF SpecTwice, KeepsCalls, Calls!Spec
=============================================================================
