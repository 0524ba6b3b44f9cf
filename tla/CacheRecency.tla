---------------------------- MODULE CacheRecency ----------------------------
(***************************************************************************)
(* The replacement order of Cache.  The code keeps no list: a line carries *)
(* the stamp of the clock at its last touch (LRU) or fill (FIFO), and the  *)
(* victim is the line with the smallest stamp.  Read as a list, newest     *)
(* first, the stamps of a set behave as RecencyList says, as long as the   *)
(* clock has not come round.                                               *)
(***************************************************************************)
EXTENDS Cache, FiniteSets, Sequences

(* the ways of set s that hold a line *)
Held(k, s) == {p \in Slots(k) : p[1] = s /\ k.line[p].valid}

(* Those lines by number, the latest stamp first: the i-th is the one with *)
(* i lines no older than it.                                               *)
Newest(k, s) ==
  LET later(p) == {q \in Held(k, s) : k.line[q].stamp >= k.line[p].stamp}
      nth(i)   == CHOOSE p \in Held(k, s) : Cardinality(later(p)) = i
  IN  [i \in 1 .. Cardinality(Held(k, s)) |-> k.line[nth(i)].base \div k.line_bytes]

Lists(k) == [s \in 0 .. k.sets - 1 |-> Newest(k, s)]

Recency == INSTANCE RecencyList
             WITH Line <- 0 .. MemSize - 1,
                  list <- Lists(c), ways <- c.ways, policy <- c.repl

(* The clock has not come round: when it does, the line touched last gets  *)
(* the smallest stamp and is the next victim.                              *)
BeforeWrap == c.clock < ClockMod - 1

(* until then, a read, or a write that ends up in a line *)
Accesses(a) == BeforeWrap /\ (Read(a) \/ \E v \in Byte : WriteInto(a, v))

(* Replacement follows recency: an access puts its line at the front (LRU) *)
(* or leaves it where it is (FIFO), and the line an eviction displaces is  *)
(* the one of its set touched or filled longest ago, whatever mix of hits, *)
(* misses, snoops, flushes and policy changes came before.                 *)
AccessesFollow ==
  \A a \in UsedAddr : Accesses(a) => Recency!Access(SetOf(c, a), a \div c.line_bytes)
OthersFollow ==
  (\E a \in UsedAddr : Accesses(a)) \/ Recency!Next \/ UNCHANGED Recency!vars
FollowsRecency == Recency!Init /\ [][AccessesFollow /\ OthersFollow]_vars
=============================================================================
