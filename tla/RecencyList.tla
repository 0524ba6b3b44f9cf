----------------------------- MODULE RecencyList -----------------------------
(***************************************************************************)
(* What LRU and FIFO replacement promise: every set of the cache keeps a   *)
(* list of the lines it holds, the newest first.  A line enters at the     *)
(* front, and only a line at the back of a full list is pushed out.  Under *)
(* LRU a hit moves its line to the front, under FIFO it does not.          *)
(***************************************************************************)
EXTENDS Naturals, Sequences

CONSTANT Line   \* the lines of memory, numbered

VARIABLES
  list,   \* list[s]: the lines set s holds, newest first
  ways,   \* how many lines a set can hold
  policy

vars == <<list, ways, policy>>

In(s, l) == \E i \in 1 .. Len(list[s]) : list[s][i] = l

(* the lines of q but l, which it holds once *)
Without(q, l) ==
  LET at == CHOOSE i \in 1 .. Len(q) : q[i] = l
  IN  [i \in 1 .. Len(q) - 1 |-> IF i < at THEN q[i] ELSE q[i + 1]]

Init ==
  /\ \A s \in DOMAIN list : list[s] = <<>>
  /\ ways \in Nat \ {0}
  /\ policy \in {"lru", "fifo"}

(* an access to a line the set holds *)
Hit(s, l) ==
  /\ In(s, l)
  /\ policy = "lru"
  /\ list' = [list EXCEPT ![s] = <<l>> \o Without(@, l)]
  /\ UNCHANGED <<ways, policy>>

(* a line is brought in, and a full set gives up its oldest *)
Fill(s, l) ==
  /\ ~In(s, l)
  /\ list' = [list EXCEPT ![s] =
                <<l>> \o (IF Len(@) < ways THEN @ ELSE SubSeq(@, 1, ways - 1))]
  /\ UNCHANGED <<ways, policy>>

(* what an access to line l does to the list of its set *)
Access(s, l) ==
  \/ Hit(s, l) \/ Fill(s, l)
  \/ In(s, l) /\ policy = "fifo" /\ UNCHANGED vars

(* a snoop drops one line *)
Drop(s, l) ==
  /\ In(s, l)
  /\ list' = [list EXCEPT ![s] = Without(@, l)]
  /\ UNCHANGED <<ways, policy>>

DropAll ==
  /\ list' = [s \in DOMAIN list |-> <<>>]
  /\ UNCHANGED <<ways, policy>>

SetPolicy(p) ==
  /\ policy' = p
  /\ UNCHANGED <<list, ways>>

Next ==
  \/ \E s \in DOMAIN list, l \in Line : Hit(s, l) \/ Fill(s, l) \/ Drop(s, l)
  \/ DropAll
  \/ \E p \in {"lru", "fifo"} : SetPolicy(p)

Spec == Init /\ [][Next]_vars
=============================================================================
