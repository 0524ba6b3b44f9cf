------------------------------ MODULE MCBasic ------------------------------
(***************************************************************************)
(* Nano BASIC on small instances, in three kinds of session: one enters a  *)
(* few lines with any statement in them and runs them, one edits a longer  *)
(* while and lists, and one has expressions evaluated at the prompt.       *)
(***************************************************************************)
EXTENDS BasicMeaning

CONSTANTS MaxEntered,   \* bound: lines entered in a session that runs them
          MaxEdited,    \* bound: lines entered in a session that lists them
          Calculations  \* the statements typed in the other kind of session

VARIABLES session, entered

Number(k)    == [op |-> "number", n |-> k]
A            == [op |-> "variable", v |-> "A"]
Minus1(e)    == [op |-> "negate", of |-> e]
On(o, x, y)  == [op |-> o, l |-> x, r |-> y]

Prints(e)    == [do |-> "PRINT", e |-> e, text |-> Written(e)]
Lets(v, e)   == [do |-> "LET", v |-> v, e |-> e, text |-> Written(e)]
Ifs(e, n)    == [do |-> "IF", e |-> e, text |-> Written(e), line |-> n]

(* the statements of programs, by the first byte of their text *)
InPrograms ==
  << Prints(A),
     Lets("A", On("-", Number(1), A)),
     Ifs(A, 1),
     [do |-> "GOTO", line |-> 256],
     [do |-> "GOTO", line |-> 9],
     [do |-> "NEW"],
     [do |-> "INPUT", v |-> "A"],
     [do |-> "END"] >>

MCTable == [b \in 0 .. 255 |-> IF b \in DOMAIN InPrograms THEN InPrograms[b] ELSE [do |-> "SYNTAX"]]

ProgramTexts == {<<>>, <<1>>, <<2>>, <<3, 3>>, <<4>>, <<5>>, <<6>>, <<7>>, <<8>>}
EditTexts    == {<<>>, <<2>>, <<1, 1>>, <<8, 8, 8>>}
MCTexts      == ProgramTexts \cup EditTexts

RunTyped == {[do |-> "RUN"], [do |-> "NEW"], [do |-> "GOTO", line |-> 256]}

EditTyped == {[do |-> "LIST"], [do |-> "NEW"], [do |-> "MON"], [do |-> "REM"], [do |-> "SYNTAX"]}

Leaves == {Number(2), A}
Simple == {On(o, x, y) : o \in Operators, x \in Leaves, y \in Leaves}
          \cup {Minus1(A), On("/", A, Number(0))}
Nested == {On(o, x, y) : o \in Operators, x \in Simple, y \in Leaves}
          \cup {On(o, x, y) : o \in Operators, x \in Leaves, y \in Simple}
          \cup {Minus1(x) : x \in Simple}

(* a row of sums, and 2=1+2*(2=1+2* ... ) *)
RECURSIVE Row(_)
Row(k) == IF k = 0 THEN A ELSE On("-", Row(k - 1), Number(1))
RECURSIVE Full(_)
Full(k) == IF k = 0 THEN A
           ELSE On("=", Number(2), On("+", Number(1), On("*", Number(2), Full(k - 1))))

MCCalculations == {Prints(x) : x \in Leaves \cup Simple \cup Nested \cup {Row(5), Full(2)}}
                  \cup {Lets("A", Minus1(Number(13)))}

(* 1+2*(1+2*( ... )) *)
RECURSIVE Chain(_)
Chain(k) == IF k = 0 THEN Number(3) ELSE On("+", Number(1), On("*", Number(2), Chain(k - 1)))

MCDeep == {Prints(Chain(k)) : k \in 1 .. 7}

MCSigned == {Lets("A", Minus1(Number(13)))}
            \cup {Prints(On(o, x, y)) : o \in Comparisons, x \in Leaves, y \in Leaves}

MCTyped == RunTyped \cup EditTyped \cup Calculations

Sessions == {"programming", "editing", "calculating"}

MCInit == Init /\ entered = 0 /\ session \in Sessions

Enters(texts, most) ==
  /\ entered < most /\ entered' = entered + 1
  /\ \E n \in Numbers : \E t \in texts : EnterLine(n, t)

MCUser ==
  /\ UNCHANGED session
  /\ \/ /\ session = "programming"
        /\ \/ CtrlC /\ UNCHANGED entered
           \/ Enters(ProgramTexts, MaxEntered)
           \/ \E s \in RunTyped : EnterStatement(s) /\ UNCHANGED entered
           \/ \E w \in Inputs : EnterNumber(w) /\ UNCHANGED entered
     \/ /\ session = "editing"
        /\ \/ Enters(EditTexts, MaxEdited)
           \/ \E s \in EditTyped : EnterStatement(s) /\ UNCHANGED entered
     \/ /\ session = "calculating" /\ pc = "REPL" /\ UNCHANGED entered
        /\ \E s \in Calculations : EnterStatement(s)

MCNext == (Interpreter /\ UNCHANGED <<session, entered>>) \/ MCUser

MCSpec == MCInit /\ [][MCNext]_<<vars, session, entered>>
          /\ WF_<<vars, session, entered>>(Interpreter /\ UNCHANGED <<session, entered>>)
=============================================================================
