------------------------------- MODULE Bytes -------------------------------
(***************************************************************************)
(* Bytes and words as m6502.c computes with them: uint8_t and uint16_t,    *)
(* their bits, and the bitwise operators of C on bytes.  A bit is named by *)
(* its weight, 1, 2, 4, ..., 128.                                          *)
(***************************************************************************)
EXTENDS Integers

Byte == 0 .. 255
UINT16_MAX == 65535
Word == 0 .. UINT16_MAX

Byte8(v)  == v % 256
Word16(v) == v % 65536
Lo(v) == v % 256
Hi(v) == (v \div 256) % 256
Address(lo, hi) == lo + 256 * hi
Plus(a, n) == Word16(a + n)

(* (int8_t)v *)
Signed(v) == IF v < 128 THEN v ELSE v - 256

BitOf(v, w) == (v \div w) % 2
FromBits(B(_)) == 128 * B(128) + 64 * B(64) + 32 * B(32) + 16 * B(16)
                    + 8 * B(8) + 4 * B(4) + 2 * B(2) + B(1)

BitAnd(a, b) == LET both(w) == BitOf(a, w) * BitOf(b, w) IN FromBits(both)
BitOr(a, b)  == a + b - BitAnd(a, b)
BitXor(a, b) == a + b - 2 * BitAnd(a, b)
Flip(v)      == 255 - v                    \* v ^ 0xff

LowDigit(v)  == v % 16                     \* v & 0x0f
HighDigit(v) == v - (v % 16)               \* v & 0xf0

Flag(P) == IF P THEN 1 ELSE 0
=============================================================================
