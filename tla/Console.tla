------------------------------ MODULE Console ------------------------------
(***************************************************************************)
(* Standard input of the m6502 program and its readers: the monitor        *)
(* through the buffer of fgets, the inline assembler through read, and the *)
(* emulated program through the console registers, which look one          *)
(* character ahead.  The disassembler, when it is shown those registers,   *)
(* takes from them as the program does: what a listing takes is printed as *)
(* the byte at its address and goes to nobody.  What is typed is numbered; *)
(* one number is what is taken at a time, a line or a character.           *)
(*                                                                         *)
(* Ctrl-C raises a flag that the program reads, and by reading clears.     *)
(***************************************************************************)
EXTENDS Naturals, Sequences, SequencesExt

CONSTANTS MaxTyped,     \* bound: how much is ever typed
          MaxPressed    \* bound: how often Ctrl-C is pressed

ASSUME ConsoleAssumption == MaxTyped \in Nat /\ MaxPressed \in Nat

VARIABLES typed,        \* how much has been typed
          pipe,         \* typed and not yet read from stdin
          closed,       \* stdin is at its end once pipe is empty
          file,         \* read ahead by fgets
          staged,       \* io_staged: read ahead by io_peek
          taken,        \* what each reader, or a listing, has been given
          pending,      \* break_pending
          pressed, told \* Ctrl-Cs pressed, and read as pending

input   == <<typed, pipe, closed, file, staged, taken>>
break   == <<pending, pressed, told>>
console == <<typed, pipe, closed, file, staged, taken, pending, pressed, told>>

Readers == {"monitor", "assembler", "program", "listing"}
NoChar  == 0

ConsoleInit ==
  /\ typed = 0 /\ pipe = <<>> /\ closed = FALSE /\ file = <<>> /\ staged = NoChar
  /\ taken = [r \in Readers |-> <<>>]
  /\ pending = FALSE /\ pressed = 0 /\ told = 0

Give(r, x) == taken' = [taken EXCEPT ![r] = Append(@, x)]

(***************************************************************************)
(* The user                                                                *)
(***************************************************************************)
Type ==
  /\ ~closed /\ typed < MaxTyped
  /\ typed' = typed + 1 /\ pipe' = Append(pipe, typed + 1)
  /\ UNCHANGED <<closed, file, staged, taken, break>>

Close ==
  /\ ~closed /\ closed' = TRUE
  /\ UNCHANGED <<typed, pipe, file, staged, taken, break>>

(* on_sigint *)
CtrlC ==
  /\ pressed < MaxPressed
  /\ pending' = TRUE /\ pressed' = pressed + 1
  /\ UNCHANGED <<told, input>>

(***************************************************************************)
(* The readers                                                             *)
(***************************************************************************)
(* fgets: a line of its buffer or, when that is empty, the first of as     *)
(* many as one read finds there                                            *)
FGets ==
  \/ /\ file # <<>>
     /\ Give("monitor", Head(file)) /\ file' = Tail(file)
     /\ UNCHANGED <<typed, pipe, closed, staged, break>>
  \/ /\ file = <<>> /\ pipe # <<>>
     /\ \E n \in 1 .. Len(pipe) :
          /\ file' = SubSeq(pipe, 2, n) /\ pipe' = SubSeq(pipe, n + 1, Len(pipe))
     /\ Give("monitor", Head(pipe))
     /\ UNCHANGED <<typed, closed, staged, break>>

FGetsEnds == file = <<>> /\ pipe = <<>> /\ closed

(* read_line reads stdin itself: neither what fgets holds nor the staged   *)
(* character                                                               *)
ReadLine ==
  /\ pipe # <<>>
  /\ Give("assembler", Head(pipe)) /\ pipe' = Tail(pipe)
  /\ UNCHANGED <<typed, closed, file, staged, break>>

ReadLineEnds == pipe = <<>> /\ closed

(* io_peek, with what it returns; at the end of input it also stops the    *)
(* program                                                                 *)
Peek(ready) ==
  IF staged = NoChar /\ pipe # <<>>
  THEN /\ ready /\ staged' = Head(pipe) /\ pipe' = Tail(pipe)
       /\ UNCHANGED <<typed, closed, file, taken, break>>
  ELSE ready = (staged # NoChar) /\ UNCHANGED console

PeekEnds == staged = NoChar /\ pipe = <<>> /\ closed

GetCharStale(r, some) ==
  /\ staged # NoChar /\ some /\ Give(r, staged)
  /\ UNCHANGED <<typed, pipe, closed, file, staged, break>>

(* io_getc for r, with whether it returns a character: read blocks while   *)
(* there may still be one                                                  *)
GetChar(r, some) ==
  \/ /\ staged # NoChar /\ some
     /\ Give(r, staged) /\ staged' = NoChar
     /\ UNCHANGED <<typed, pipe, closed, file, break>>
  \/ /\ staged = NoChar /\ pipe # <<>> /\ some
     /\ Give(r, Head(pipe)) /\ pipe' = Tail(pipe)
     /\ UNCHANGED <<typed, closed, file, staged, break>>
  \/ PeekEnds /\ ~some /\ UNCHANGED console

ReadBreakKept(seen) ==
  /\ seen = pending /\ told' = IF pending THEN told + 1 ELSE told
  /\ UNCHANGED <<pending, pressed, input>>

(* $F004: read, then cleared, with nothing to keep a Ctrl-C from arriving  *)
(* in between                                                              *)
ReadBreak(seen) ==
  /\ seen = pending
  /\ told' = IF pending THEN told + 1 ELSE told
  /\ pending' = FALSE
  /\ pressed' \in {pressed} \cup (pressed + 1 .. MaxPressed)
  /\ UNCHANGED input

-----------------------------------------------------------------------------
Token == 1 .. MaxTyped

ConsoleTypeOK ==
  /\ typed \in 0 .. MaxTyped /\ closed \in BOOLEAN
  /\ pipe \in Seq(Token) /\ file \in Seq(Token) /\ staged \in {NoChar} \cup Token
  /\ taken \in [Readers -> Seq(Token)]
  /\ pending \in BOOLEAN /\ pressed \in 0 .. MaxPressed /\ told \in 0 .. MaxPressed

(* What is typed goes to one taker, once, and each gets its share in the   *)
(* order it was typed: io_staged, the buffer of fgets and the ways of      *)
(* reading stdin, main.c 105-125, 544-557 and 643.  One taker is no reader:*)
(* what a listing takes from $F003 (main.c 130-134) is accounted for here, *)
(* and reaches nobody.                                                     *)
Staged == IF staged = NoChar THEN <<>> ELSE <<staged>>
Increasing(s) == \A i, j \in DOMAIN s : i < j => s[i] < s[j]
InputKept ==
  LET held == [monitor   |-> taken.monitor \o file,
               assembler |-> taken.assembler,
               program   |-> taken.program \o Staged,
               listing   |-> taken.listing]
  IN  /\ \A r \in Readers : Increasing(held[r] \o pipe)
      /\ (UNION {ToSet(held[r]) : r \in Readers}) \cup ToSet(pipe) = 1 .. typed
      /\ \A r, q \in Readers : r # q => ToSet(held[r]) \cap ToSet(held[q]) = {}

(* A Ctrl-C is read as pending at most once, and one that is pending has   *)
(* not been read: break_pending, main.c 135-136.                           *)
BreaksOnce == told + (IF pending THEN 1 ELSE 0) <= pressed
=============================================================================
