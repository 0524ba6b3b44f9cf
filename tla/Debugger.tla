------------------------------ MODULE Debugger ------------------------------
(***************************************************************************)
(* What a session at the monitor promises: a set of breakpoints, no        *)
(* instruction at one of them executed while the program runs, and a trail *)
(* of the instructions executed last, oldest first.                        *)
(***************************************************************************)
EXTENDS Naturals, Sequences, FiniteSets

CONSTANTS Address, MaxBreakpoints, MaxTrail

VARIABLES mode, next, breakpoints, trail

vars == <<mode, next, breakpoints, trail>>

Init ==
  /\ mode \in {"monitor", "running"} /\ next \in Address
  /\ breakpoints = {} /\ trail = <<>>

LastOf(s) == IF Len(s) > MaxTrail THEN Tail(s) ELSE s

Execute ==
  /\ mode = "running" => next \notin breakpoints
  /\ mode' \in {mode, "monitor", "ended"} /\ next' \in Address
  /\ trail' = LastOf(Append(trail, next)) /\ breakpoints' = breakpoints

(* a command, or the running program coming to a stop *)
Continue ==
  /\ mode' \in {"monitor", "running", "ended"} /\ next' \in Address
  /\ UNCHANGED <<breakpoints, trail>>

SetBreakpoint ==
  /\ mode = "monitor" /\ Cardinality(breakpoints) < MaxBreakpoints
  /\ \E a \in Address : breakpoints' = breakpoints \cup {a}
  /\ UNCHANGED <<mode, next, trail>>

ClearBreakpoint ==
  /\ mode = "monitor"
  /\ \E a \in breakpoints : breakpoints' = breakpoints \ {a}
  /\ UNCHANGED <<mode, next, trail>>

Reset ==
  /\ mode = "monitor" /\ mode' = mode /\ next' \in Address
  /\ breakpoints' = {} /\ trail' = <<>>

Next ==
  /\ mode # "ended"
  /\ Execute \/ Continue \/ SetBreakpoint \/ ClearBreakpoint \/ Reset

Spec == Init /\ [][Next]_vars
=============================================================================
