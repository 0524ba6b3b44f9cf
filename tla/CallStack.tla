----------------------------- MODULE CallStack -----------------------------
(***************************************************************************)
(* What calls and interrupts promise: a return resumes what was called or  *)
(* interrupted last, and a return from an interrupt also restores the      *)
(* status it had.  Programs here return only what they entered.            *)
(***************************************************************************)
EXTENDS Sequences, SequencesExt

CONSTANTS Place, Status

VARIABLES at, status, stack

vars == <<at, status, stack>>

Kinds == {"call", "break", "irq", "nmi"}
Frame == [kind : Kinds, resume : Place, status : Status]

Init == at \in Place /\ status \in Status /\ stack = <<>>

(* anything that neither enters nor leaves: it may change the status *)
Work == at' \in Place /\ status' \in Status /\ stack' = stack

Enter ==
  /\ stack' # <<>> /\ Front(stack') = stack
  /\ Last(stack') \in Frame /\ Last(stack').status = status
  /\ at' \in Place /\ status' \in Status

Leave ==
  /\ stack # <<>>
  /\ at' = Last(stack).resume
  /\ Last(stack).kind = "call" \/ status' = Last(stack).status
  /\ stack' = Front(stack)

Next == Work \/ Enter \/ Leave

Spec == Init /\ [][Next]_vars
=============================================================================
