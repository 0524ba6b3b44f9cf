------------------------------ MODULE CacheOps ------------------------------
(***************************************************************************)
(* The set-associative cache of h6502/cache.c as operators on a record.    *)
(*                                                                         *)
(* A cache is a record with the fields of the C structure that decide its  *)
(* behaviour: the geometry (line_bytes, ways, sets), the policy (repl,     *)
(* wpol, write_alloc), the replacement clock and the lines.  A line is     *)
(* line[<<set, way>>]; its bytes, which the C code keeps in one `store`,   *)
(* are the field data.  The backing store the callbacks bs_read and        *)
(* bs_write reach is a function from addresses to bytes.  The counters of  *)
(* the structure are the subject of CacheStats.                            *)
(***************************************************************************)
EXTENDS Integers

CONSTANTS
  MemSize,      \* size of the address space; 0x10000 in the code
  MaxLineBytes, \* longest line cache_config accepts; 256 in the code
  MaxLines,     \* CACHE_MAX_LINES
  Byte,         \* the values of a memory cell
  WordMod,      \* unsigned arithmetic is modulo WordMod; 2^32 in the code
  ClockMod      \* the replacement clock is modulo ClockMod; 2^32 in the code

Addr == 0 .. MemSize - 1

Pow2 == {1, 2, 4, 8, 16, 32, 64, 128, 256, 512, 1024, 2048, 4096, 8192,
         16384, 32768, 65536}

ASSUME MemAssumption == MemSize \in Pow2
ASSUME WordAssumption == WordMod \in Nat /\ MemSize < WordMod
ASSUME LimitAssumption == MaxLineBytes \in Nat /\ MaxLines \in Nat
ASSUME ByteAssumption == 0 \in Byte
ASSUME ClockAssumption == ClockMod \in Nat \ {0}

Repl == {"lru", "fifo", "random"}
WPol == {"back", "through"}

Stamp == 0 .. ClockMod - 1

CacheLine(lb) ==
  [valid : BOOLEAN, dirty : BOOLEAN, tag : Nat, base : Nat,
   stamp : Stamp, data : [0 .. lb - 1 -> Byte]]

-----------------------------------------------------------------------------
(* Geometry *)

Ways(c) == 0 .. c.ways - 1
Slots(c) == (0 .. c.sets - 1) \X Ways(c)

(* A good geometry: a power-of-two line, at least one way, a whole         *)
(* power-of-two number of sets, within the line table and the address      *)
(* space.                                                                  *)
GeometryOk(size, lb, ways) ==
  /\ lb \in Pow2 /\ lb <= MaxLineBytes
  /\ ways >= 1
  /\ size >= lb * ways
  /\ size % (lb * ways) = 0
  /\ size \div (lb * ways) \in Pow2
  /\ (size \div (lb * ways)) * ways <= MaxLines
  /\ size <= MemSize

(* The checks of cache_config, in unsigned arithmetic.  They divide by the *)
(* product of line and ways, which must therefore fit a word: where it     *)
(* does, they accept the good geometries (theorem WordGeometry).           *)
Times(x, y) == (x * y) % WordMod

Accepts(size, lb, ways) ==
  LET set  == Times(lb, ways)
      sets == size \div set
  IN  /\ lb \in Pow2 /\ lb >= 1 /\ lb <= MaxLineBytes
      /\ ways >= 1
      /\ size >= set
      /\ size % set = 0
      /\ sets \in Pow2
      /\ Times(sets, ways) <= MaxLines
      /\ size <= MemSize

IsRequest(r) ==
  /\ r \in Nat \X Nat \X Nat
  /\ r[1] < WordMod /\ r[2] * r[3] < WordMod

NoLine(lb) ==
  [valid |-> FALSE, dirty |-> FALSE, tag |-> 0, base |-> 0, stamp |-> 0,
   data |-> [i \in 0 .. lb - 1 |-> 0]]

(* An accepted cache_config: fresh zeroed lines whatever was there before; *)
(* the policy is kept.                                                     *)
Configured(size, lb, ways, repl, wpol, alloc) ==
  LET sets == size \div (lb * ways)
  IN  [line_bytes |-> lb, ways |-> ways, sets |-> sets,
       repl |-> repl, wpol |-> wpol, write_alloc |-> alloc, clock |-> 0,
       line |-> [p \in (0 .. sets - 1) \X (0 .. ways - 1) |-> NoLine(lb)]]

(* cache_decode, and the base address a refill computes *)
OffOf(c, a)  == a % c.line_bytes
SetOf(c, a)  == (a \div c.line_bytes) % c.sets
TagOf(c, a)  == (a \div c.line_bytes) \div c.sets
BaseOf(c, a) == a - (a % c.line_bytes)

-----------------------------------------------------------------------------
(* Lookup and replacement *)

(* Fault: the search loop stops one way short. *)
MatchesShort(c, a, w) ==
  LET l == c.line[<<SetOf(c, a), w>>]
  IN  w < c.ways - 1 /\ l.valid /\ l.tag = TagOf(c, a)

Matches(c, a, w) ==
  LET l == c.line[<<SetOf(c, a), w>>] IN l.valid /\ l.tag = TagOf(c, a)

Hit(c, a) == \E w \in Ways(c) : Matches(c, a, w)

(* the first matching way, as every search loop of the file finds it *)
HitWay(c, a) ==
  CHOOSE w \in Ways(c) :
    Matches(c, a, w) /\ \A v \in Ways(c) : Matches(c, a, v) => w <= v

(* pick_victim: the first invalid way; else any way under random, and the  *)
(* first way with the smallest stamp under LRU and FIFO.                   *)
Victims(c, s) ==
  LET stamp(v) == c.line[<<s, v>>].stamp
      invalid  == {v \in Ways(c) : ~c.line[<<s, v>>].valid}
  IN  IF invalid # {} THEN {w \in invalid : \A v \in invalid : w <= v}
      ELSE {w \in Ways(c) :
              c.repl # "random" =>
                \A v \in Ways(c) : \/ stamp(w) < stamp(v)
                                   \/ stamp(w) = stamp(v) /\ w <= v}

(* the ways an access to a may end up using *)
WaysFor(c, a) == IF Hit(c, a) THEN {HitWay(c, a)} ELSE Victims(c, SetOf(c, a))

-----------------------------------------------------------------------------
(* Effects on a cache c and the memory m behind it *)

Extent(c, l) == l.base .. l.base + c.line_bytes - 1

(* Fault: a written-back line stays dirty. *)
CleanedNot(l) == l

(* writeback: memory after a line went out, and the line after it *)
WrittenBack(c, m, l) ==
  IF l.valid /\ l.dirty
  THEN [x \in Addr |-> IF x \in Extent(c, l) THEN l.data[x - l.base] ELSE m[x]]
  ELSE m

Cleaned(l) == IF l.valid THEN [l EXCEPT !.dirty = FALSE] ELSE l

(* Fault: the clock does not wrap. *)
TickForever(c) == c.clock + 1

Tick(c) == (c.clock + 1) % ClockMod

(* Fault: the base of the line is the missing address, not aligned. *)
FilledUnaligned(c, m, a) ==
  [valid |-> TRUE, dirty |-> FALSE, tag |-> TagOf(c, a), base |-> a,
   stamp |-> Tick(c),
   data |-> [i \in 0 .. c.line_bytes - 1 |-> m[BaseOf(c, a) + i]]]

(* refill from memory m, stamped by the advanced clock *)
Filled(c, m, a) ==
  [valid |-> TRUE, dirty |-> FALSE, tag |-> TagOf(c, a),
   base |-> BaseOf(c, a), stamp |-> Tick(c),
   data |-> [i \in 0 .. c.line_bytes - 1 |-> m[BaseOf(c, a) + i]]]

(* Fault: a hit does not restamp, whatever the policy. *)
TouchedNever(c, p) == c

(* touch: LRU restamps on every access, the others only on a fill *)
Touched(c, p) ==
  IF c.repl = "lru"
  THEN [c EXCEPT !.clock = Tick(c), !.line[p].stamp = Tick(c)]
  ELSE c

(* Fault: the victim is not written back. *)
AccessedLossy(c, m, a, w) ==
  LET p == <<SetOf(c, a), w>>
  IN  IF Hit(c, a)
      THEN [c |-> Touched(c, p), m |-> m]
      ELSE [c |-> [c EXCEPT !.clock = Tick(c), !.line[p] = Filled(c, m, a)],
            m |-> m]

(* Cache and memory once a's line is in way w \in WaysFor(c, a): touched   *)
(* where it was, or brought in by handle_miss, its victim written back     *)
(* before the refill.                                                      *)
Accessed(c, m, a, w) ==
  LET p  == <<SetOf(c, a), w>>
      m2 == WrittenBack(c, m, c.line[p])
  IN  IF Hit(c, a)
      THEN [c |-> Touched(c, p), m |-> m]
      ELSE [c |-> [c EXCEPT !.clock = Tick(c), !.line[p] = Filled(c, m2, a)],
            m |-> m2]

(* the byte at a of a line that holds it *)
ByteIn(c, a, w) == c.line[<<SetOf(c, a), w>>].data[OffOf(c, a)]

(* Fault: a deferred store does not mark its line. *)
StoredUnmarked(c, m, a, w, v) ==
  [c |-> [c EXCEPT !.line[<<SetOf(c, a), w>>].data[OffOf(c, a)] = v],
   m |-> IF c.wpol = "through" THEN [m EXCEPT ![a] = v] ELSE m]

(* the store of cache_write into way w: into the line, and through to      *)
(* memory or deferred by the dirty bit                                     *)
Stored(c, m, a, w, v) ==
  LET p == <<SetOf(c, a), w>>
      d == [c EXCEPT !.line[p].data[OffOf(c, a)] = v]
  IN  IF c.wpol = "through"
      THEN [c |-> d, m |-> [m EXCEPT ![a] = v]]
      ELSE [c |-> [d EXCEPT !.line[p].dirty = TRUE], m |-> m]

(* memory after every dirty line went out *)
AllWrittenBack(c, m) ==
  [x \in Addr |->
     LET out == {p \in Slots(c) : /\ c.line[p].valid /\ c.line[p].dirty
                                  /\ x \in Extent(c, c.line[p])}
     IN  IF out = {} THEN m[x]
         ELSE LET l == c.line[CHOOSE p \in out : TRUE] IN l.data[x - l.base]]

(* cache_clean: written back, still resident *)
AllClean(c) == [c EXCEPT !.line = [p \in Slots(c) |-> Cleaned(@[p])]]

(* cache_flush: written back and dropped *)
AllFlushed(c) ==
  [c EXCEPT !.line = [p \in Slots(c) |-> [Cleaned(@[p]) EXCEPT !.valid = FALSE]]]

(* cache_invalidate: dropped, dirty or not *)
AllInvalid(c) ==
  [c EXCEPT !.line =
     [p \in Slots(c) |-> [@[p] EXCEPT !.valid = FALSE, !.dirty = FALSE]]]

-----------------------------------------------------------------------------
(* What a read of a would return, without touching the cache *)
Visible(c, m, a) == IF Hit(c, a) THEN ByteIn(c, a, HitWay(c, a)) ELSE m[a]

(* A configured cache, with fields of their types *)
IsCache(c) ==
  /\ c \in [line_bytes : Pow2, ways : Nat \ {0}, sets : Pow2,
            repl : Repl, wpol : WPol, write_alloc : BOOLEAN,
            line : [Slots(c) -> CacheLine(c.line_bytes)],
            clock : Stamp]
  /\ c.line_bytes <= MemSize

IsMemory(m) == m \in [Addr -> Byte]

(* No two ways of a set hold the same line. *)
NoTwin(c) ==
  \A p, q \in Slots(c) :
    /\ c.line[p].valid /\ c.line[q].valid
    /\ p[1] = q[1] /\ c.line[p].tag = c.line[q].tag
    => p = q

(* Every valid line is where cache_decode looks for its addresses. *)
InPlace(c) ==
  \A p \in Slots(c) : c.line[p].valid =>
    \E a \in Addr : /\ p[1] = SetOf(c, a)
                    /\ c.line[p].tag = TagOf(c, a)
                    /\ c.line[p].base = BaseOf(c, a)

(* A valid line that is not dirty holds what memory holds. *)
Agrees(c, m) ==
  \A p \in Slots(c) : c.line[p].valid /\ ~c.line[p].dirty =>
    \A i \in 0 .. c.line_bytes - 1 : c.line[p].data[i] = m[c.line[p].base + i]
=============================================================================
