---------------------------- MODULE MCCacheOrder ----------------------------
(***************************************************************************)
(* One set of two ways and three competing lines, watched by the counters. *)
(***************************************************************************)
EXTENDS CacheStats

MCRequests == {<<2, 1, 2>>}
MCPolicies == {<<"lru", "back", TRUE>>, <<"fifo", "through", FALSE>>}
=============================================================================
