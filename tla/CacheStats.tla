----------------------------- MODULE CacheStats -----------------------------
(***************************************************************************)
(* The counters of h6502/cache.c: what each operation of Cache adds to     *)
(* them.  Those that the operation alone decides (reads, writes, hits,     *)
(* stall cycles, snoops) are left out; those that depend on the lines are  *)
(* modelled, with ghosts for what a reset and a drop leave uncounted.      *)
(***************************************************************************)
EXTENDS CacheRecency

CONSTANTS
  MaxMiss, MaxOut   \* bounds on the counters

VARIABLES
  n,      \* the counters
  ghost   \* resident and dirty lines at the last reset; lines dropped and
          \* stores deferred since

statVars == <<c, mem, out, did, n, ghost>>

Valid(k) == {p \in Slots(k) : k.line[p].valid}
Dirty(k) == {p \in Valid(k) : k.line[p].dirty}

Zero == [miss |-> 0, evictions |-> 0, writebacks |-> 0, in |-> 0, out |-> 0]

StatInit ==
  /\ Init
  /\ n = Zero
  /\ ghost = [resident |-> 0, dirty |-> 0, dropped |-> 0, deferred |-> 0]

-----------------------------------------------------------------------------
(* Fault: a fill of an invalid way counts as an eviction. *)
CountedAlways(k, a, w) ==
  IF Hit(c, a)
  THEN k
  ELSE [k EXCEPT !.miss = @ + 1, !.evictions = @ + 1, !.in = @ + c.line_bytes]

(* The counting of handle_miss and writeback: a miss that fills way w      *)
(* evicts the valid line there, and writes it back if it is dirty.         *)
Counted(k, a, w) ==
  LET l   == c.line[<<SetOf(c, a), w>>]
      out1 == IF l.valid /\ l.dirty THEN 1 ELSE 0
  IN  IF Hit(c, a)
      THEN k
      ELSE [k EXCEPT !.miss = @ + 1,
                     !.evictions = @ + (IF l.valid THEN 1 ELSE 0),
                     !.writebacks = @ + out1,
                     !.out = @ + out1 * c.line_bytes,
                     !.in = @ + c.line_bytes]

(* The way an access used: where its line now is. *)
UsedWay(a) == CHOOSE w \in Ways(c) : c'.line[<<SetOf(c, a), w>>].valid
                /\ c'.line[<<SetOf(c, a), w>>].tag = TagOf(c, a)

CountRead(a) ==
  /\ Read(a)
  /\ n' = Counted(n, a, UsedWay(a))
  /\ UNCHANGED ghost

CountWriteAround(a, v) ==
  /\ WriteAround(a, v)
  /\ n' = [n EXCEPT !.miss = @ + 1, !.out = @ + 1]
  /\ UNCHANGED ghost

CountWriteInto(a, v) ==
  /\ WriteInto(a, v)
  /\ LET k == Counted(n, a, UsedWay(a))
     IN  IF c.wpol = "through"
         THEN n' = [k EXCEPT !.out = @ + 1] /\ UNCHANGED ghost
         ELSE n' = k /\ ghost' = [ghost EXCEPT !.deferred = @ + 1]

(* writeback on each line of a set of slots *)
WriteBacks(k, slots) ==
  LET d == Cardinality(slots \cap Dirty(c))
  IN  [k EXCEPT !.writebacks = @ + d, !.out = @ + d * c.line_bytes]

Dropped(slots) == ghost' = [ghost EXCEPT !.dropped = @ + Cardinality(slots)]

CountClean ==
  /\ Clean
  /\ n' = WriteBacks(n, Slots(c))
  /\ UNCHANGED ghost

CountCleanAddr(a) ==
  /\ CleanAddr(a)
  /\ n' = WriteBacks(n, {<<SetOf(c, a), HitWay(c, a)>>})
  /\ UNCHANGED ghost

CountFlush ==
  /\ Flush
  /\ n' = WriteBacks(n, Slots(c))
  /\ Dropped(Valid(c))

CountInvalidate ==
  /\ Invalidate
  /\ Dropped(Valid(c))
  /\ UNCHANGED n

CountSnoop(a) ==
  /\ Snoop(a)
  /\ LET p == <<SetOf(c, a), HitWay(c, a)>>
     IN  /\ n' = WriteBacks(n, {p})
         /\ Dropped({p})

(* cache_reset_stats leaves the lines alone *)
ResetStats ==
  /\ n' = Zero
  /\ ghost' = [resident |-> Cardinality(Valid(c)), dirty |-> Cardinality(Dirty(c)),
               dropped |-> 0, deferred |-> 0]
  /\ UNCHANGED vars

SetPolicy(p) == Policy(p[1], p[2], p[3]) /\ UNCHANGED <<n, ghost>>

StatNext ==
  \/ /\ BeforeWrap /\ n.miss < MaxMiss /\ n.out < MaxOut
     /\ \E a \in UsedAddr :
          \/ CountRead(a)
          \/ \E v \in Byte : CountWriteAround(a, v) \/ CountWriteInto(a, v)
  \/ \E a \in UsedAddr : CountCleanAddr(a) \/ CountSnoop(a)
  \/ CountClean \/ CountFlush \/ CountInvalidate
  \/ ResetStats
  \/ \E p \in Policies : SetPolicy(p)

StatSpec == StatInit /\ [][StatNext]_statVars

-----------------------------------------------------------------------------
(* Every line that came in, or was resident at the last reset, is resident *)
(* still, was counted as an eviction, or was dropped by an operation that  *)
(* counts no eviction: misses, traffic and evictions tell one story.  The  *)
(* geometry does not change here, so bytes_in is a number of lines.        *)
Conserved ==
  ghost.resident + n.in \div c.line_bytes
    = Cardinality(Valid(c)) + n.evictions + ghost.dropped

(* A store that was deferred costs at most one write-back, however clean,  *)
(* flush, snoop and evictions follow each other: a line goes out once for  *)
(* every time it became dirty.                                             *)
OnceOut ==
  n.writebacks + Cardinality(Dirty(c)) <= ghost.dirty + ghost.deferred
=============================================================================
