---------------------------- MODULE BasicMeaning ----------------------------
(***************************************************************************)
(* What the expressions of Nano BASIC stand for, and how they are written. *)
(* In a statement e is the expression that text was written from.          *)
(***************************************************************************)
EXTENDS NanoBasic

(* An expression is written with no parenthesis it can do without. *)
Binds(op) == CASE op \in Comparisons -> 1 [] op \in {"+", "-"} -> 2
               [] op \in {"*", "/"} -> 3 [] op = "negate" -> 4 [] OTHER -> 5

RECURSIVE Numeral(_)
Numeral(n) == IF n < 10 THEN <<Digits[n + 1]>>
              ELSE Append(Numeral(n \div 10), Digits[(n % 10) + 1])

RECURSIVE Written(_)

Within(e, least) == IF Binds(e.op) >= least THEN Written(e)
                    ELSE <<"(">> \o Written(e) \o <<")">>

Written(e) ==
  CASE e.op = "number"   -> Numeral(e.n)
    [] e.op = "variable" -> <<e.v>>
    [] e.op = "negate"   -> <<"-">> \o Within(e.of, 5)
    [] OTHER -> LET sign == CASE e.op = "<>" -> <<"<", ">">> [] e.op = "<=" -> <<"<", "=">>
                              [] e.op = ">=" -> <<">", "=">> [] OTHER -> <<e.op>>
                    left == IF e.op \in Comparisons THEN 2 ELSE Binds(e.op)
                IN  Within(e.l, left) \o sign \o Within(e.r, Binds(e.op) + 1)

(* what it stands for: every number is a signed word, and a comparison is  *)
(* true of the numbers it is between                                       *)
Signed(w) == IF Minus(w) THEN w - WORD ELSE w

RECURSIVE Value(_)
Value(e) ==
  CASE e.op = "number"   -> e.n
    [] e.op = "variable" -> var[e.v]
    [] e.op = "negate"   -> Neg(Value(e.of))
    [] OTHER ->
         LET l == Signed(Value(e.l))
             r == Signed(Value(e.r))
             Word(i) == i % WORD
             Size(i) == IF i < 0 THEN -i ELSE i
         IN CASE e.op = "+" -> Word(l + r)
              [] e.op = "-" -> Word(l - r)
              [] e.op = "*" -> Word(l * r)
              [] e.op = "/" /\ r = 0 -> 0
              [] e.op = "/" /\ r # 0 ->
                   LET q == Size(l) \div Size(r)
                   IN  Word(IF (l < 0) = (r < 0) THEN q ELSE -q)
              [] e.op = "="  -> Truth(l = r)
              [] e.op = "<>" -> Truth(l # r)
              [] e.op = "<"  -> Truth(l < r)
              [] e.op = ">"  -> Truth(l > r)
              [] e.op = "<=" -> Truth(l <= r)
              [] e.op = ">=" -> Truth(l >= r)

(* no order is asked of two numbers of which one is negative *)
RECURSIVE SignsAgree(_)
SignsAgree(e) ==
  CASE e.op \in {"number", "variable"} -> TRUE
    [] e.op = "negate" -> SignsAgree(e.of)
    [] OTHER -> /\ SignsAgree(e.l) /\ SignsAgree(e.r)
                /\ e.op \in {"<", ">", "<=", ">="} => Minus(Value(e.l)) = Minus(Value(e.r))

(* PRINT, LET and IF use the value of the expression as it is written,     *)
(* whatever the evaluator keeps in page zero on the way, and leave nothing *)
(* behind there.  Where a negative number is ordered with one that is not, *)
(* it is ComparisonsAreSigned that says what the value is.                 *)
ValueIsMeant ==
  Evaluated => /\ SignsAgree(stmt.e) => cells[AR] = Value(stmt.e)
               /\ ESTKP = 0 /\ PDEPTH = 0

(* basic/README.md 24: "All arithmetic is **16-bit signed integer**        *)
(* throughout", the comparisons of basic.asm 912-1055 included.            *)
ComparisonsAreSigned ==
  Evaluated /\ stmt.e.op \in Comparisons => cells[AR] = Value(stmt.e)
=============================================================================
