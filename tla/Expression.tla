----------------------------- MODULE Expression -----------------------------
(***************************************************************************)
(* The expression evaluator of Nano BASIC: recursive descent on the CPU    *)
(* stack, left operands on a value stack in page zero.  Nothing checks the *)
(* value stack: an entry past its end is the keyword buffer, and past that *)
(* the accumulator AR the evaluator computes in.                           *)
(***************************************************************************)
EXTENDS Integers, Sequences, SequencesExt

CONSTANTS ENTRIES,      \* ESTACK: entries of the value stack
          DEPTH,        \* parentheses that may be open at once, plus one
          Letters       \* the variables

ASSUME ExpressionAssumption == ENTRIES \in Nat \ {0} /\ DEPTH \in Nat \ {0}

VARIABLES text,         \* the characters at CPTR
          cells,        \* words from ESTACK on: entry k, and what lies behind
          ESTKP, PDEPTH,
          at, returns   \* the routine, and the return addresses on the stack

evaluator == <<text, cells, ESTKP, PDEPTH, at, returns>>

WORD  == 65536
Words == 0 .. WORD - 1

(* KWBUF and KWLEN take the four words between ESTACK and AR *)
AR   == ENTRIES + 4
AR2  == AR + 1
AR4  == AR + 2
Cell == 0 .. (IF AR4 > 3 * DEPTH THEN AR4 ELSE 3 * DEPTH)

Clear == [k \in Cell |-> 0]

Digits      == <<"0", "1", "2", "3", "4", "5", "6", "7", "8", "9">>
Digit(c)    == (CHOOSE d \in 1 .. 10 : Digits[d] = c) - 1
IsDigit(c)  == \E d \in 1 .. 10 : Digits[d] = c
Comparisons == {"=", "<", ">", "<>", "<=", ">="}
Operators   == Comparisons \cup {"+", "-", "*", "/"}

EvaluatorInit ==
  text = <<>> /\ cells = Clear /\ ESTKP = 0 /\ PDEPTH = 0 /\ at = "done" /\ returns = <<>>

(***************************************************************************)
(* Sixteen-bit arithmetic                                                  *)
(***************************************************************************)
NegUnwrapped(a) == WORD - a
Neg(a)      == (WORD - a) % WORD
Minus(a)    == a >= WORD \div 2
Abs(a)      == IF Minus(a) THEN Neg(a) ELSE a
Mul(a, b)   == (((a * (b \div 256)) % WORD) * 256 + a * (b % 256)) % WORD
Div(a, b)   == LET q == Abs(a) \div Abs(b)
               IN  IF Minus(a) # Minus(b) THEN Neg(q) ELSE q
Truth(p)    == IF p THEN WORD - 1 ELSE 0

(* the words are compared without their signs *)
Compared(op, l, r) ==
  Truth(CASE op = "="  -> l = r  [] op = "<>" -> l # r  [] op = "<"  -> l < r
          [] op = ">"  -> l > r  [] op = "<=" -> l <= r [] op = ">=" -> l >= r)

(***************************************************************************)
(* The parse                                                               *)
(***************************************************************************)
Peek       == IF text = <<>> THEN "" ELSE Head(text)
Skip(n)    == text' = SubSeq(text, n + 1, Len(text))
Jsr(l, back) == at' = l /\ returns' = <<back>> \o returns
Rts        == at' = Head(returns) /\ returns' = Tail(returns)

ev_push == /\ cells' = [cells EXCEPT ![ESTKP] = cells[AR]]
           /\ ESTKP' = ESTKP + 1
Left    == cells[ESTKP - 1]

Descend ==
  /\ \/ at = "EVAL_EXPR"   /\ Jsr("ev_additive", "compare")
     \/ at = "ev_additive" /\ Jsr("ev_term", "ev_loop")
     \/ at = "ev_term"     /\ Jsr("ev_unary", "et_loop")
  /\ UNCHANGED <<text, cells, ESTKP, PDEPTH>>

(* the operator that stands here, when the level of `at` knows it *)
OperatorHere ==
  CASE at = "ev_loop" /\ Peek \in {"+", "-"} -> Peek
    [] at = "et_loop" /\ Peek \in {"*", "/"} -> Peek
    [] at = "compare" /\ Peek \in Comparisons ->
         LET two == IF Len(text) < 2 THEN "" ELSE text[2]
         IN  CASE Peek = "<" /\ two = ">" -> "<>" [] Peek = "<" /\ two = "=" -> "<="
               [] Peek = ">" /\ two = "=" -> ">=" [] OTHER -> Peek
    [] OTHER -> ""

OperandToTheRight == [ev_loop |-> "ev_additive", et_loop |-> "ev_term", compare |-> "EVAL_EXPR"]
Operand == [ev_loop |-> "ev_term", et_loop |-> "ev_unary", compare |-> "ev_additive"]

Level ==
  /\ at \in DOMAIN Operand
  /\ IF OperatorHere = ""
     THEN Rts /\ UNCHANGED <<text, cells, ESTKP>>
     ELSE /\ Skip(IF OperatorHere \in {"<>", "<=", ">="} THEN 2 ELSE 1)
          /\ ev_push
          /\ Jsr(Operand[at], OperatorHere)
  /\ UNCHANGED PDEPTH

(* the operands are there: ev_pop leaves the left one in AR+2, products    *)
(* and quotients are worked out in AR+2 and AR+4                           *)
Combine ==
  /\ at \in Operators
  /\ LET l == Left
         r == cells[AR]
         With(res, a2, a4) == [cells EXCEPT ![AR2] = a2, ![AR4] = a4, ![AR] = res]
     IN cells' =
          CASE at = "+" -> With((l + r) % WORD, l, cells[AR4])
            [] at = "-" -> With((l + Neg(r)) % WORD, l, cells[AR4])
            [] at = "*" -> With(Mul(l, r), 0, Mul(l, r))
            [] at = "/" /\ r = 0 -> With(0, l, cells[AR4])
            [] at = "/" /\ r # 0 -> With(Div(l, r), 0, Abs(l) \div Abs(r))
            [] OTHER -> With(Compared(at, l, r), l, cells[AR4])
  /\ ESTKP' = ESTKP - 1
  /\ \/ at \in {"+", "-"} /\ at' = "ev_loop" /\ UNCHANGED returns
     \/ at \in {"*", "/"} /\ at' = "et_loop" /\ UNCHANGED returns
     \/ at \in Comparisons /\ Rts
  /\ UNCHANGED <<text, PDEPTH>>

ev_unary ==
  /\ at = "ev_unary"
  /\ IF Peek = "-" THEN Skip(1) /\ Jsr("ev_primary", "negate")
                   ELSE at' = "ev_primary" /\ UNCHANGED <<text, returns>>
  /\ UNCHANGED <<cells, ESTKP, PDEPTH>>

Negate ==
  /\ at = "negate" /\ Rts
  /\ cells' = [cells EXCEPT ![AR] = Neg(@)]
  /\ UNCHANGED <<text, ESTKP, PDEPTH>>

(* PARSE_DEC works through AR+2 and AR+4, one digit after another *)
PARSE_DEC ==
  LET n == CHOOSE k \in 1 .. Len(text) :
             /\ \A i \in 1 .. k : IsDigit(text[i])
             /\ k < Len(text) => ~IsDigit(text[k + 1])
      decimal(d) == [c \in [Cell -> Words] |->
                       [c EXCEPT ![AR2] = c[AR], ![AR4] = (2 * c[AR]) % WORD,
                                 ![AR] = (10 * c[AR] + Digit(d)) % WORD]]
      read[i \in 0 .. n] == IF i = 0 THEN [cells EXCEPT ![AR] = 0]
                            ELSE decimal(text[i])[read[i - 1]]
  IN /\ cells' = read[n]
     /\ Skip(n)

ev_primary(var) ==
  /\ at = "ev_primary"
  /\ \/ /\ Peek = "(" /\ PDEPTH + 1 < DEPTH
        /\ Skip(1) /\ PDEPTH' = PDEPTH + 1 /\ Jsr("EVAL_EXPR", "close")
        /\ UNCHANGED cells
     \/ /\ Peek = "(" /\ PDEPTH + 1 >= DEPTH
        /\ text' = <<>> /\ cells' = [cells EXCEPT ![AR] = 0] /\ Rts
        /\ UNCHANGED PDEPTH
     \/ IsDigit(Peek) /\ PARSE_DEC /\ Rts /\ UNCHANGED PDEPTH
     \/ /\ Peek \in Letters
        /\ Skip(1) /\ cells' = [cells EXCEPT ![AR] = var[Peek]] /\ Rts
        /\ UNCHANGED PDEPTH
     \/ /\ Peek # "(" /\ ~IsDigit(Peek) /\ Peek \notin Letters
        /\ cells' = [cells EXCEPT ![AR] = 0] /\ Rts
        /\ UNCHANGED <<text, PDEPTH>>
  /\ UNCHANGED ESTKP

Close ==
  /\ at = "close" /\ Rts
  /\ PDEPTH' = PDEPTH - 1
  /\ IF Peek = ")" THEN Skip(1) ELSE UNCHANGED text
  /\ UNCHANGED <<cells, ESTKP>>

(* EXEC_STMT clears PDEPTH; what AR held before is not looked at again *)
Start(characters) ==
  /\ text' = characters /\ PDEPTH' = 0 /\ at' = "EVAL_EXPR" /\ returns' = <<"done">>
  /\ cells' = Clear /\ UNCHANGED ESTKP

EvalStep(var) ==
  Descend \/ Level \/ Combine \/ ev_unary \/ Negate \/ ev_primary(var) \/ Close
=============================================================================
