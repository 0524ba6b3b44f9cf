------------------------------ MODULE MCMemSys ------------------------------
(***************************************************************************)
(* Small machines: one or two cells of memory and a device page of two or  *)
(* three cells.                                                            *)
(***************************************************************************)
EXTENDS MemSys, TLC

(* every cache holds one cell *)
OneCell == [x \in {"i", "d", "u"} |-> <<1, 1, 1>>]
OneCellRequests == [OneCell EXCEPT !.i = {<<1, 1, 1>>}, !.d = {}, !.u = {}]
OneCellPolicies ==
  [i |-> {}, u |-> {}, d |-> {<<"lru", "back", TRUE>>, <<"lru", "through", FALSE>>}]
ZeroCell == {(0 :> 0)}

(* the I$ holds both cells in one line; the D$ holds one cell, so that     *)
(* stores evict each other, until it is given a line for each              *)
WideI == [i |-> <<2, 2, 1>>, d |-> <<1, 1, 1>>, u |-> <<1, 1, 1>>]
WideIPolicies ==
  [i |-> {}, u |-> {}, d |-> {<<"lru", "back", TRUE>>, <<"lru", "through", TRUE>>}]
NoRequests == [x \in {"i", "d", "u"} |-> {}]
SplitDRequests == [NoRequests EXCEPT !.d = {<<1, 1, 1>>, <<2, 1, 1>>}]
WideDRequest == [NoRequests EXCEPT !.d = {<<2, 2, 1>>}]
NoImages == {}

MCInit == Init /\ mem = [s \in {"I", "D"} |-> [a \in Addr |-> 0]]
MCSpec == MCInit /\ [][Next]_vars
MCCareSpec == MCInit /\ [][CareNext]_vars
(* snooping is switched on before the program runs, and stays on *)
MCSnoopSpec == MCInit /\ [][SetSnoop(TRUE) \/ (snoop /\ Access)]_vars
=============================================================================
