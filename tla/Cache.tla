------------------------------- MODULE Cache -------------------------------
(***************************************************************************)
(* One cache of h6502/cache.c and the memory behind its bs_read and        *)
(* bs_write callbacks, driven through the functions of cache.h in any      *)
(* order, the way memsys.c, the monitor and the unit tests drive it.       *)
(***************************************************************************)
EXTENDS CacheOps

CONSTANTS
  UsedAddr,    \* the addresses the client uses
  Requests,    \* the geometries <<size, line, ways>> it asks for
  InitRequests,\* those a machine may start with
  Policies     \* the policies <<repl, wpol, write_alloc>> it sets

ASSUME UsedAssumption == UsedAddr \subseteq Addr
ASSUME RequestAssumption ==
  /\ \A r \in Requests : IsRequest(r)
  /\ InitRequests \subseteq Nat \X Nat \X Nat
  /\ \A r \in InitRequests : GeometryOk(r[1], r[2], r[3])
ASSUME PolicyAssumption == Policies \subseteq Repl \X WPol \X BOOLEAN

VARIABLES
  c,    \* the cache
  mem,  \* the backing store
  out,  \* the byte cache_read returned last
  did   \* what the last operation was for its caller

vars == <<c, mem, out, did>>

Init ==
  /\ \E r \in InitRequests, p \in Policies :
       c = Configured(r[1], r[2], r[3], p[1], p[2], p[3])
  /\ mem \in [Addr -> Byte]
  /\ out = 0
  /\ did = "none"

-----------------------------------------------------------------------------
(* cache_read *)
Read(a) ==
  /\ \E w \in WaysFor(c, a) :
       LET r == Accessed(c, mem, a, w)
       IN  /\ c' = r.c
           /\ mem' = r.m
           /\ out' = ByteIn(r.c, a, w)
  /\ did' = "read"

(* cache_write: a miss without write-allocate goes straight to memory *)
WriteAround(a, v) ==
  /\ ~Hit(c, a) /\ ~c.write_alloc
  /\ mem' = [mem EXCEPT ![a] = v]
  /\ did' = "write"
  /\ UNCHANGED <<c, out>>

WriteInto(a, v) ==
  /\ Hit(c, a) \/ c.write_alloc
  /\ \E w \in WaysFor(c, a) :
       LET r == Accessed(c, mem, a, w)
           s == Stored(r.c, r.m, a, w, v)
       IN  c' = s.c /\ mem' = s.m
  /\ did' = "write"
  /\ UNCHANGED out

Write(a, v) == WriteAround(a, v) \/ WriteInto(a, v)

(* cache_clean *)
Clean ==
  /\ mem' = AllWrittenBack(c, mem)
  /\ c' = AllClean(c)
  /\ did' = "sync"
  /\ UNCHANGED out

(* cache_clean_addr, where a line covers a *)
CleanAddr(a) ==
  /\ Hit(c, a)
  /\ LET p == <<SetOf(c, a), HitWay(c, a)>>
     IN  /\ mem' = WrittenBack(c, mem, c.line[p])
         /\ c' = [c EXCEPT !.line[p] = Cleaned(@)]
  /\ did' = "sync"
  /\ UNCHANGED out

(* cache_flush *)
Flush ==
  /\ mem' = AllWrittenBack(c, mem)
  /\ c' = AllFlushed(c)
  /\ did' = "sync"
  /\ UNCHANGED out

(* cache_invalidate *)
Invalidate ==
  /\ c' = AllInvalid(c)
  /\ did' = "drop"
  /\ UNCHANGED <<mem, out>>

(* Fault: the snooped line is dropped as cache_invalidate drops it. *)
SnoopDropping(a) ==
  /\ Hit(c, a)
  /\ c' = [c EXCEPT !.line[<<SetOf(c, a), HitWay(c, a)>>].valid = FALSE]
  /\ did' = "sync"
  /\ UNCHANGED <<mem, out>>

(* cache_snoop, where a line covers a *)
Snoop(a) ==
  /\ Hit(c, a)
  /\ LET p == <<SetOf(c, a), HitWay(c, a)>>
     IN  /\ mem' = WrittenBack(c, mem, c.line[p])
         /\ c' = [c EXCEPT !.line[p] = [Cleaned(@) EXCEPT !.valid = FALSE]]
  /\ did' = "sync"
  /\ UNCHANGED out

(* cache_config; a rejected request changes nothing *)
Config(size, lb, ways) ==
  /\ Accepts(size, lb, ways)
  /\ c' = Configured(size, lb, ways, c.repl, c.wpol, c.write_alloc)
  /\ did' = "drop"
  /\ UNCHANGED <<mem, out>>

(* the policy keys of the monitor's config command write the fields *)
Policy(repl, wpol, alloc) ==
  /\ c' = [c EXCEPT !.repl = repl, !.wpol = wpol, !.write_alloc = alloc]
  /\ UNCHANGED <<mem, out, did>>

(* every operation that keeps what was written *)
Keep ==
  \/ \E a \in UsedAddr :
       \/ Read(a)
       \/ \E v \in Byte : Write(a, v)
       \/ CleanAddr(a)
       \/ Snoop(a)
  \/ Clean
  \/ Flush
  \/ \E p \in Policies : Policy(p[1], p[2], p[3])

Next ==
  \/ Keep
  \/ Invalidate
  \/ \E r \in Requests : Config(r[1], r[2], r[3])

Spec == Init /\ [][Next]_vars
KeepSpec == Init /\ [][Keep]_vars

-----------------------------------------------------------------------------
(* The types of the cache's fields and of the memory.                      *)
TypeOK ==
  /\ IsCache(c) /\ IsMemory(mem) /\ out \in Byte
  /\ did \in {"none", "read", "write", "sync", "drop"}

(* No two ways of a set hold the same line, so the first match of a lookup *)
(* is the only one: otherwise a store would reach one copy and a later     *)
(* lookup, after an eviction, the other.                                   *)
OneCopy == NoTwin(c)

(* Every valid line sits in the set, under the tag and at the base address *)
(* that cache_decode gives the addresses it covers: a write-back lands     *)
(* where the line came from, also after the geometry changed.              *)
Placed == InPlace(c)

(* A valid line that is not dirty holds what memory holds: dropping it on  *)
(* an eviction or a snoop without a write-back cannot lose a store.        *)
CleanIsMemory == Agrees(c, mem)

(* The cache and its memory keep the write-back promise: a read returns    *)
(* the last byte stored, and memory lags behind but never diverges.        *)
Store == INSTANCE WriteBackMemory
           WITH latest <- [a \in Addr |-> Visible(c, mem, a)], durable <- mem
KeepsPromise == Store!Spec
KeepsEveryStore == Store!SafeSpec
=============================================================================
