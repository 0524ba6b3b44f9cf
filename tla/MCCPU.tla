------------------------------- MODULE MCCPU -------------------------------
(***************************************************************************)
(* Two programs for Interrupted.  Calls loops through nested subroutines,  *)
(* decimal arithmetic under PHP and PLP, and a BRK; Every executes each    *)
(* operation once.  They share one pair of handlers: the IRQ handler looks *)
(* at B, counts a BRK in $21 and flips $10 for a hardware interrupt; the   *)
(* NMI handler works in decimal mode.                                      *)
(***************************************************************************)
EXTENDS Interrupted

Calls0200 ==
  <<88, 162, 3, 32, 30, 2, 202, 208, 250, 165, 34, 201, 1, 144, 14, 0, 0, 56, 169,
    18, 248, 233, 25, 216, 133, 35, 108, 254, 2, 2, 8, 248, 24, 165, 32, 105, 69,
    133, 32, 32, 44, 2, 40, 96, 168, 72, 165, 34, 105, 0, 133, 34, 104, 96>>

Every0200 ==
  <<88, 162, 127, 160, 3, 169, 129, 134, 32, 132, 33, 133, 34, 170, 168, 232, 200,
    202, 136, 138, 152, 186, 154, 230, 32, 198, 33, 6, 32, 38, 32, 70, 33, 106, 5,
    32, 37, 33, 73, 255, 101, 32, 233, 17, 201, 16, 224, 16, 192, 16, 36, 34, 56,
    176, 0, 24, 144, 0, 240, 2, 208, 0, 48, 2, 16, 0, 184, 80, 0, 112, 0, 120, 248,
    216, 88, 8, 40, 72, 104, 234, 32, 139, 2, 0, 0, 7, 32, 39, 32, 71, 32, 103, 32,
    231, 32, 199, 32, 135, 34, 167, 32, 11, 241, 75, 127, 107, 95, 203, 3, 139, 19,
    171, 119, 162, 4, 160, 2, 159, 30, 0, 158, 32, 0, 156, 30, 0, 160, 10, 187, 130,
    2, 169, 253, 162, 253, 155, 24, 0, 2, 96, 255>>

Handlers0300 ==
  <<72, 138, 72, 186, 189, 3, 1, 41, 16, 208, 9, 165, 16, 73, 1, 133, 16, 76, 22, 3,
    230, 33, 104, 170, 104, 64, 72, 248, 56, 169, 153, 105, 1, 104, 64>>

Vectors == <<26, 3, 0, 2, 0, 3>>     \* $FFFA: NMI $031A, reset $0200, IRQ $0300

Data    == 16 .. 35
Stack   == 480 .. 511
MCRam   == Data \cup Stack \cup 512 .. 767 \cup 768 .. 802 \cup 65530 .. 65535
MCShared == 32 .. 35

ByteAt(s, origin, a) == IF a - origin + 1 \in DOMAIN s THEN s[a - origin + 1] ELSE 0

Image(code) ==
  [a \in MCRam |->
     CASE a \in 766 .. 767 -> <<29, 2>>[a - 765]         \* $02FE: the word $021D
       [] a \in 512 .. 765 -> ByteAt(code, 512, a)
       [] a \in 768 .. 802 -> ByteAt(Handlers0300, 768, a)
       [] a >= 65530       -> ByteAt(Vectors, 65530, a)
       [] OTHER            -> 0]

MCImages == {Image(Calls0200), Image(Every0200)}

(* What is left below the stack pointers is of no consequence: neither the *)
(* programs nor the handlers read it.                                      *)
Kept(m, sp) == [a \in MCRam \ (480 .. 256 + sp) |-> m[a]]
View == <<pc, reg, flag, Kept(mem, reg["sp"]), frames, qpc, qreg, qflag, Kept(qmem, qreg["sp"])>>
=============================================================================
