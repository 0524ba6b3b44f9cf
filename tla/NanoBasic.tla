----------------------------- MODULE NanoBasic -----------------------------
(***************************************************************************)
(* Nano BASIC: the prompt, the statements and the loop that runs the       *)
(* stored program.  Between two of its steps the user may type Ctrl-C,     *)
(* which the loop reads before every line.                                 *)
(***************************************************************************)
EXTENDS LineStore, Expression

CONSTANTS Table,            \* the statement the first byte of a text stands for
          Numbers, Texts,   \* the lines that may be entered
          Typed,            \* the statements that may be typed at the prompt
          Inputs            \* the numbers that may be typed for INPUT

VARIABLES RUNNING, GOFLAG,
          pc,               \* where the interpreter is
          calls,            \* return addresses of EXEC_STMT on the CPU stack
          stmt,             \* the statement at CPTR
          var,              \* VARS
          pending,          \* what IO_BRK is going to read
          said              \* what was printed last

flow  == <<RUNNING, GOFLAG, pc, calls, stmt>>
outer == <<var, pending, said>>
vars  == <<mem, PEND, EPTR, text, cells, ESTKP, PDEPTH, at, returns,
           RUNNING, GOFLAG, pc, calls, stmt, var, pending, said>>

Quiet    == [what |-> "quiet"]
Nothing  == [do |-> "REM"]
Evaluates == {"PRINT", "LET", "IF"}

(* a statement as parsed: the variable it sets, the line it goes to, the   *)
(* text of its expression                                                  *)
IsStatement(s) ==
  /\ s.do \in {"LET", "INPUT"} => s.v \in Letters
  /\ s.do \in {"GOTO", "IF"} => s.line \in Words
  /\ s.do \in Evaluates => s.text \in Seq(STRING)

ASSUME BasicAssumption ==
  /\ \A b \in 0 .. 255 : IsStatement(Table[b])
  /\ \A s \in Typed : IsStatement(s)
  /\ Numbers \subseteq Words /\ Inputs \subseteq Words
  /\ \A t \in Texts : t \in Seq(1 .. 255)

Init ==
  /\ StoreInit /\ EvaluatorInit
  /\ RUNNING = 0 /\ GOFLAG = 0 /\ pc = "REPL" /\ calls = <<>> /\ stmt = Nothing
  /\ var = [l \in Letters |-> 0] /\ pending = FALSE /\ said = Quiet

(* rts: out of EXEC_STMT, to the prompt or into the loop *)
Back == pc' = Head(calls) /\ calls' = Tail(calls) /\ stmt' = Nothing

(***************************************************************************)
(* The user                                                                *)
(***************************************************************************)
CtrlC == pending' = TRUE /\ UNCHANGED <<store, evaluator, flow, var, said>>

EnterLine(n, t) ==
  /\ pc = "REPL"
  /\ STORE_LINE(n, t)
  /\ said' = IF Edited(mem, PEND, n, t).fits THEN Quiet ELSE [what |-> "PROGRAM TOO BIG"]
  /\ UNCHANGED <<evaluator, flow, var, pending>>

EnterStatement(s) ==
  /\ pc = "REPL"
  /\ RUNNING' = 0 /\ stmt' = s /\ pc' = "EXEC_STMT" /\ calls' = <<"REPL">> \o calls
  /\ said' = Quiet
  /\ UNCHANGED <<store, evaluator, GOFLAG, var, pending>>

(* READLINE in the middle of INPUT *)
EnterNumber(w) ==
  /\ pc = "input" /\ Back
  /\ var' = [var EXCEPT ![stmt.v] = w]
  /\ UNCHANGED <<store, evaluator, RUNNING, GOFLAG, pending, said>>

(***************************************************************************)
(* The loop                                                                *)
(***************************************************************************)
past_end == EPTR >= PEND

run_done == RUNNING' = 0 /\ Back

RunLoopStale ==     \* GOFLAG left from the line before
  /\ pc = "run_loop"
  /\ \/ past_end /\ run_done /\ UNCHANGED <<pending, said>>
     \/ /\ ~past_end /\ pending
        /\ pending' = FALSE /\ run_done
        /\ said' = [what |-> "BREAK IN", line |-> LineAt(mem, EPTR)]
     \/ /\ ~past_end /\ ~pending
        /\ stmt' = Table[mem[EPTR + 3]]
        /\ pc' = "EXEC_STMT" /\ calls' = <<"executed">> \o calls
        /\ UNCHANGED <<RUNNING, pending, said>>
  /\ UNCHANGED <<store, evaluator, var, GOFLAG>>

RunLoopDeaf ==      \* a jump goes past the test of IO_BRK
  /\ pc = "run_loop"
  /\ \/ past_end /\ run_done /\ UNCHANGED <<GOFLAG, pending, said>>
     \/ /\ ~past_end /\ pending /\ GOFLAG = 0
        /\ pending' = FALSE /\ run_done
        /\ said' = [what |-> "BREAK IN", line |-> LineAt(mem, EPTR)]
        /\ UNCHANGED GOFLAG
     \/ /\ ~past_end /\ (~pending \/ GOFLAG = 1)
        /\ GOFLAG' = 0 /\ stmt' = Table[mem[EPTR + 3]]
        /\ pc' = "EXEC_STMT" /\ calls' = <<"executed">> \o calls
        /\ UNCHANGED <<RUNNING, pending, said>>
  /\ UNCHANGED <<store, evaluator, var>>

run_loop ==
  /\ pc = "run_loop"
  /\ \/ past_end /\ run_done /\ UNCHANGED <<GOFLAG, pending, said>>
     \/ /\ ~past_end /\ pending
        /\ pending' = FALSE /\ run_done
        /\ said' = [what |-> "BREAK IN", line |-> LineAt(mem, EPTR)]
        /\ UNCHANGED GOFLAG
     \/ /\ ~past_end /\ ~pending
        /\ GOFLAG' = 0 /\ stmt' = Table[mem[EPTR + 3]]
        /\ pc' = "EXEC_STMT" /\ calls' = <<"executed">> \o calls
        /\ UNCHANGED <<RUNNING, pending, said>>
  /\ UNCHANGED <<store, evaluator, var>>

Executed ==
  /\ pc = "executed"
  /\ \/ RUNNING = 0 /\ run_done /\ UNCHANGED <<EPTR, GOFLAG>>
     \/ /\ RUNNING = 1 /\ pc' = "run_loop"
        /\ EPTR' = IF GOFLAG = 1 THEN EPTR ELSE EPTR + LenAt(mem, EPTR)
        /\ UNCHANGED <<RUNNING, GOFLAG, calls, stmt>>
  /\ UNCHANGED <<mem, PEND, evaluator, outer>>

(***************************************************************************)
(* The statements                                                          *)
(***************************************************************************)
Executes(word) == pc = "EXEC_STMT" /\ stmt.do = word

cmd_RUN ==
  /\ Executes("RUN")
  /\ pending' = FALSE /\ EPTR' = PROG /\ RUNNING' = 1 /\ pc' = "run_loop"
  /\ UNCHANGED <<mem, PEND, evaluator, GOFLAG, calls, stmt, var, said>>

cmd_NEW ==
  /\ Executes("NEW") /\ PEND' = PROG /\ Back
  /\ UNCHANGED <<mem, EPTR, evaluator, RUNNING, GOFLAG, outer>>

(* MON stops in the monitor, which may go on here *)
cmd_END ==
  /\ Executes("END") \/ Executes("MON")
  /\ RUNNING' = 0 /\ Back
  /\ UNCHANGED <<store, evaluator, GOFLAG, outer>>

cmd_LIST ==
  /\ Executes("LIST") /\ Back
  /\ said' = [what |-> "LIST", lines |-> Listed(mem, PEND)]
  /\ UNCHANGED <<store, evaluator, RUNNING, GOFLAG, var, pending>>

do_GOTO(n) ==
  /\ EPTR' = FIND_LINE(mem, PEND, n) /\ Back
  /\ IF Found(mem, PEND, n)
     THEN GOFLAG' = 1 /\ UNCHANGED <<RUNNING, said>>
     ELSE RUNNING' = 0 /\ said' = [what |-> "NO SUCH LINE"] /\ UNCHANGED GOFLAG
  /\ UNCHANGED <<mem, PEND, var, pending>>

cmd_GOTO == Executes("GOTO") /\ do_GOTO(stmt.line) /\ UNCHANGED evaluator

cmd_INPUT ==
  /\ Executes("INPUT") /\ pc' = "input"
  /\ UNCHANGED <<store, evaluator, RUNNING, GOFLAG, calls, stmt, outer>>

es_err ==
  /\ Executes("SYNTAX") /\ RUNNING' = 0 /\ said' = [what |-> "SYNTAX"] /\ Back
  /\ UNCHANGED <<store, evaluator, GOFLAG, var, pending>>

(* REM, and HELP, which prints and changes nothing *)
Rem ==
  /\ Executes("REM") /\ Back
  /\ UNCHANGED <<store, evaluator, RUNNING, GOFLAG, outer>>

Evaluate ==
  /\ \E word \in Evaluates : Executes(word)
  /\ Start(stmt.text) /\ pc' = "eval"
  /\ UNCHANGED <<store, RUNNING, GOFLAG, calls, stmt, outer>>

Evaluating ==
  /\ pc = "eval" /\ EvalStep(var)
  /\ UNCHANGED <<store, flow, outer>>

Evaluated == pc = "eval" /\ at = "done"

Forget == text' = <<>> /\ cells' = Clear /\ UNCHANGED <<ESTKP, PDEPTH, at, returns>>

cmd_PRINT ==
  /\ Evaluated /\ stmt.do = "PRINT" /\ Back /\ Forget
  /\ said' = [what |-> "PRINT", value |-> cells[AR]]
  /\ UNCHANGED <<store, RUNNING, GOFLAG, var, pending>>

do_LET ==
  /\ Evaluated /\ stmt.do = "LET" /\ Back /\ Forget
  /\ var' = [var EXCEPT ![stmt.v] = cells[AR]]
  /\ UNCHANGED <<store, RUNNING, GOFLAG, pending, said>>

cmd_IF ==
  /\ Evaluated /\ stmt.do = "IF" /\ Forget
  /\ IF cells[AR] # 0 THEN do_GOTO(stmt.line)
     ELSE Back /\ UNCHANGED <<store, RUNNING, GOFLAG, outer>>

Statement ==
  \/ cmd_RUN \/ cmd_NEW \/ cmd_END \/ cmd_LIST \/ cmd_GOTO \/ cmd_INPUT \/ es_err
  \/ Rem \/ Evaluate \/ Evaluating \/ cmd_PRINT \/ do_LET \/ cmd_IF

Interpreter == run_loop \/ Executed \/ Statement

User ==
  \/ CtrlC
  \/ \E n \in Numbers : \E t \in Texts : EnterLine(n, t)
  \/ \E s \in Typed : EnterStatement(s)
  \/ \E w \in Inputs : EnterNumber(w)

Next == Interpreter \/ User

(* the processor goes on; nobody has to type *)
Spec == Init /\ [][Next]_vars /\ WF_vars(Interpreter)

(***************************************************************************)
(* Properties                                                              *)
(***************************************************************************)
TypeOK ==
  /\ mem \in [PROG .. LIMIT - 1 -> 0 .. 255] /\ PEND \in PROG .. LIMIT /\ EPTR \in Nat
  /\ cells \in [Cell -> Words] /\ ESTKP \in Nat /\ PDEPTH \in 0 .. DEPTH - 1
  /\ RUNNING \in {0, 1} /\ GOFLAG \in {0, 1} /\ var \in [Letters -> Words]
  /\ pending \in BOOLEAN
  /\ pc = "REPL" <=> calls = <<>>

(* The program store is what FIND_LINE, LIST and the loop take it for      *)
(* after any editing, and a running program stands at one of its records.  *)
RecordsHold ==
  /\ StoreSound
  /\ RUNNING = 1 /\ ~past_end => EPTR \in Starts(mem, PEND)

(* What the bound on parentheses is worth to the value stack: between one  *)
(* and the next at most a comparison, a sum and a product wait for their   *)
(* right sides, and none is left behind by the expressions before          *)
(* (basic.asm 909-1230).                                                   *)
ThreeForEachLevel == ESTKP <= 3 * (PDEPTH + 1)

(* basic/README.md: nesting is bounded so that the value stack does not    *)
(* overflow.                                                               *)
ValueStackHolds == ESTKP <= ENTRIES

(* basic/README.md: Ctrl-C breaks a running program, also one that never   *)
(* ends.  A program that waits for a line of INPUT goes on waiting.        *)
BreakStops == (pending /\ RUNNING = 1) ~> (pc \in {"REPL", "input"})

(* the line the loop is at, and whether it is still to be begun *)
AtLine == IF RUNNING = 0 THEN -1 ELSE IF past_end THEN WORD ELSE LineAt(mem, EPTR)
Unbegun == RUNNING = 1 /\ (pc = "run_loop" \/ GOFLAG = 1)

Program == INSTANCE BasicProgram WITH
  Room <- LIMIT - PROG, lines <- Lines, line <- AtLine, fresh <- Unbegun

(* The bytes, the shifting and the pointers do what the sorted program     *)
(* with its next line does.                                                *)
KeepsProgram == Program!Spec
=============================================================================
