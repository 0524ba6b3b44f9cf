------------------------------ MODULE MCCache ------------------------------
(***************************************************************************)
(* Small instances of Cache: an address space of a few lines, so that      *)
(* lines compete for ways, and a replacement clock that wraps.             *)
(***************************************************************************)
EXTENDS Cache

(* two bytes per line, one set of two ways *)
MCInitRequests == {<<4, 2, 2>>}
(* one line, and requests cache_config refuses *)
MCRequests == {<<2, 2, 1>>, <<6, 2, 1>>, <<2, 2, 2>>, <<4, 3, 1>>}
MCPolicies == {<<"lru", "back", TRUE>>, <<"random", "through", FALSE>>}

(* memory starts zeroed, as the emulator's static arrays do *)
MCInit == Init /\ mem = [a \in Addr |-> 0]
MCSpec == MCInit /\ [][Next]_vars
=============================================================================
