---------------------------- MODULE BasicProgram ----------------------------
(***************************************************************************)
(* What Nano BASIC promises of a program: numbered lines, entered in any   *)
(* order, listed and run in the order of their numbers, whatever jumps     *)
(* lead away from it and whatever is edited between two runs.              *)
(***************************************************************************)
EXTENDS Integers, Sequences, FiniteSets

CONSTANTS Room,         \* bytes for the program
          TooLong,
          Numbers, Texts    \* the lines that may be entered

VARIABLES lines,        \* line numbers to texts
          line,         \* the line being run, or the next one
          fresh,        \* that line has not been begun
          said          \* what was printed last

NoLine   == -1          \* no program runs
PastEnd  == 65536       \* behind the last line
Words    == 0 .. PastEnd - 1
Quiet    == [what |-> "quiet"]
Complaints == {[what |-> "SYNTAX"], [what |-> "NO SUCH LINE"]}

Without(n)     == [m \in DOMAIN lines \ {n} |-> lines[m]]
Nothing        == [m \in {} |-> <<>>]

(* A line takes its text, its number, its length and its end. *)
Takes(text)    == Len(text) + 4
Used(p)        == Cardinality(UNION {{m} \X (1 .. Takes(p[m])) : m \in DOMAIN p})

After(n) ==
  LET later == {m \in DOMAIN lines : m > n}
  IN  IF later = {} THEN PastEnd ELSE CHOOSE m \in later : \A k \in later : m <= k

(* the i-th line is the one with i lines up to it *)
Listing ==
  LET upto(n) == {m \in DOMAIN lines : m <= n}
      nth(i)  == CHOOSE n \in DOMAIN lines : Cardinality(upto(n)) = i
  IN  [i \in 1 .. Cardinality(DOMAIN lines) |-> <<nth(i), lines[nth(i)]>>]

Init == lines = Nothing /\ line = NoLine /\ fresh = FALSE /\ said = Quiet

(* a line that does not fit is refused, and takes the one it was to        *)
(* replace with it                                                         *)
Enter(n, text) ==
  /\ line = NoLine
  /\ LET fits == Len(text) < TooLong /\ Used(Without(n)) + Takes(text) <= Room
     IN IF text # <<>> /\ fits
        THEN /\ lines' = [m \in DOMAIN lines \cup {n} |-> IF m = n THEN text ELSE lines[m]]
             /\ said' = Quiet
        ELSE /\ lines' = Without(n)
             /\ said' = IF text = <<>> THEN Quiet ELSE [what |-> "PROGRAM TOO BIG"]
  /\ UNCHANGED <<line, fresh>>

New ==
  /\ line # NoLine => ~fresh
  /\ lines' = Nothing /\ line' = IF line = NoLine THEN NoLine ELSE PastEnd
  /\ UNCHANGED <<fresh, said>>

Run     == line = NoLine /\ line' = After(NoLine) /\ fresh' = TRUE /\ UNCHANGED <<lines, said>>
Begin   == line \in DOMAIN lines /\ fresh /\ fresh' = FALSE /\ UNCHANGED <<lines, line, said>>
Advance == line # NoLine /\ ~fresh /\ line' = After(line) /\ fresh' = TRUE
           /\ UNCHANGED <<lines, said>>
Jump    == line # NoLine /\ ~fresh /\ line' \in DOMAIN lines /\ fresh' = TRUE
           /\ UNCHANGED <<lines, said>>
Stop    == line # NoLine /\ line' = NoLine /\ fresh' = FALSE /\ UNCHANGED lines
           /\ said' \in {said} \cup Complaints
Break   == line \in DOMAIN lines /\ fresh /\ line' = NoLine /\ fresh' = FALSE
           /\ said' = [what |-> "BREAK IN", line |-> line] /\ UNCHANGED lines

(* what a statement prints, one typed at the prompt or one of the program  *)
Say     == (line # NoLine => ~fresh) /\ UNCHANGED <<lines, line, fresh>>
           /\ \/ said' = Quiet /\ line = NoLine
              \/ said' = [what |-> "LIST", lines |-> Listing]
              \/ said' \in [what : {"PRINT"}, value : Words]
              \/ line = NoLine /\ said' \in Complaints

Next == \/ \E n \in Numbers : \E text \in Texts : Enter(n, text)
        \/ New \/ Run \/ Begin \/ Advance \/ Jump \/ Stop \/ Break \/ Say

Spec == Init /\ [][Next]_<<lines, line, fresh, said>>
=============================================================================
