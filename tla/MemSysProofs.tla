---------------------------- MODULE MemSysProofs ----------------------------
(***************************************************************************)
(* What holds of the memory system of h6502 under every command, in every  *)
(* order: the types, the routing (a cache the mode does not reach is       *)
(* empty), the device page (no line of it is ever resident) and the clean  *)
(* instruction cache.                                                      *)
(*                                                                         *)
(* The well-formedness the lemmas of CacheOpsProofs carry, Sound, says     *)
(* that a clean line agrees with memory.  Here it need not: a poke, or a   *)
(* store of the modified machine, changes memory behind a resident line.   *)
(* What every operation keeps is the weaker Placed.                        *)
(***************************************************************************)
EXTENDS MemSys, CacheOpsProofs

Vacant(c) == \A p \in Slots(c) : ~c.line[p].valid
Spotless(c) == \A p \in Slots(c) : ~(c.line[p].valid /\ c.line[p].dirty)

(* A cache with every valid line where the decoder looks for it, once, and *)
(* of an address that is no device's.                                      *)
OfRAM(c) ==
  \A p \in Slots(c) : c.line[p].valid =>
    \E a \in RAM : /\ p[1] = SetOf(c, a)
                   /\ c.line[p].tag = TagOf(c, a)
                   /\ c.line[p].base = BaseOf(c, a)

Placed(c) ==
  /\ IsCache(c) /\ c.line_bytes <= MaxLineBytes
  /\ NoTwin(c) /\ OfRAM(c)

-----------------------------------------------------------------------------
(* One cache and the memory behind it. *)

(* A cache whose valid lines are those of a placed one is placed.          *)
LEMMA PlacedLike ==
  ASSUME NEW c, NEW d, Placed(c), IsCache(d), SameGeometry(c, d),
         \A q \in Slots(c) : d.line[q].valid =>
           /\ c.line[q].valid
           /\ d.line[q].tag = c.line[q].tag /\ d.line[q].base = c.line[q].base
  PROVE  Placed(d)
<1>1. /\ Slots(d) = Slots(c) /\ d.line_bytes = c.line_bytes
      /\ \A a : /\ SetOf(d, a) = SetOf(c, a) /\ TagOf(d, a) = TagOf(c, a)
                /\ BaseOf(d, a) = BaseOf(c, a)
  BY SameDecode DEF SameGeometry
<1>2. NoTwin(d)
  BY <1>1 DEF Placed, NoTwin
<1>3. OfRAM(d)
  BY <1>1 DEF Placed, OfRAM
<1> QED
  BY <1>1, <1>2, <1>3 DEF Placed

(* A line written back leaves bytes in memory. *)
LEMMA WrittenBackType ==
  ASSUME NEW c, NEW m, IsCache(c), IsMemory(m), NEW p \in Slots(c)
  PROVE  IsMemory(WrittenBack(c, m, c.line[p]))
<1> DEFINE l == c.line[p]
<1>1. /\ l.base \in Nat /\ l.data \in [0 .. c.line_bytes - 1 -> Byte]
      /\ c.line_bytes \in Nat
  BY LineTypes
<1> HIDE DEF l
<1>2. ASSUME NEW x \in Addr, x \in Extent(c, l)
      PROVE  l.data[x - l.base] \in Byte
  <2>1. x - l.base \in 0 .. c.line_bytes - 1
    BY <1>1, <1>2 DEF Extent, Addr
  <2> QED
    BY <1>1, <2>1
<1>3. IsMemory(WrittenBack(c, m, l))
  BY <1>2 DEF WrittenBack, IsMemory
<1> QED
  BY <1>3 DEF l

(* So do all lines written back. *)
LEMMA AllWrittenBackType ==
  ASSUME NEW c, NEW m, IsCache(c), IsMemory(m)
  PROVE  IsMemory(AllWrittenBack(c, m))
<1>1. ASSUME NEW x \in Addr PROVE AllWrittenBack(c, m)[x] \in Byte
  <2> DEFINE outs == {p \in Slots(c) : /\ c.line[p].valid /\ c.line[p].dirty
                                       /\ x \in Extent(c, c.line[p])}
             q == CHOOSE p \in outs : TRUE
  <2>1. AllWrittenBack(c, m)[x]
          = IF outs = {} THEN m[x] ELSE c.line[q].data[x - c.line[q].base]
    BY DEF AllWrittenBack
  <2>2. CASE outs = {}
    BY <2>1, <2>2 DEF IsMemory
  <2>3. CASE outs # {}
    <3>1. q \in Slots(c) /\ x \in Extent(c, c.line[q])
      BY <2>3
    <3> HIDE DEF q, outs
    <3>2. /\ c.line[q].base \in Nat /\ c.line_bytes \in Nat
          /\ c.line[q].data \in [0 .. c.line_bytes - 1 -> Byte]
      BY <3>1, LineTypes
    <3>3. x - c.line[q].base \in 0 .. c.line_bytes - 1
      BY <3>1, <3>2 DEF Extent, Addr
    <3> QED
      BY <2>1, <2>3, <3>2, <3>3
  <2> QED
    BY <2>2, <2>3
<1> QED
  BY <1>1 DEF AllWrittenBack, IsMemory

(* A refill of an address of RAM that was not resident. *)
LEMMA FillPlaced ==
  ASSUME NEW c, NEW m, Placed(c), IsMemory(m), NEW a \in RAM, ~Hit(c, a),
         NEW w \in Ways(c),
         NEW d, d = WithLine(c, <<SetOf(c, a), w>>, Filled(c, m, a), Tick(c))
  PROVE  /\ Placed(d) /\ SameGeometry(c, d) /\ Matches(d, a, w)
         /\ Spotless(c) => Spotless(d)
<1> DEFINE p == <<SetOf(c, a), w>>
           l == Filled(c, m, a)
<1>0. /\ p \in Slots(c) /\ l \in CacheLine(c.line_bytes) /\ Tick(c) \in Stamp
      /\ a \in Addr /\ IsCache(c)
  BY SlotOf, FilledType, TickType DEF Placed, RAM
<1>1. IsCache(d) /\ SameGeometry(c, d) /\ d.line[p] = l
  BY <1>0, OneLine
<1>2. \A q \in Slots(c) : q # p => d.line[q] = c.line[q]
  BY <1>0, OneLine
<1>3. /\ Slots(d) = Slots(c) /\ Ways(d) = Ways(c) /\ d.line_bytes = c.line_bytes
      /\ \A x : /\ SetOf(d, x) = SetOf(c, x) /\ TagOf(d, x) = TagOf(c, x)
                /\ BaseOf(d, x) = BaseOf(c, x)
  BY <1>1, SameDecode DEF SameGeometry
<1>4. l.valid /\ ~l.dirty /\ l.tag = TagOf(c, a) /\ l.base = BaseOf(c, a)
  BY DEF Filled
<1>5. \A q \in Slots(c) : c.line[q].valid /\ q[1] = SetOf(c, a)
                          => c.line[q].tag # TagOf(c, a)
  <2>1. TAKE q \in Slots(c)
  <2>2. HAVE c.line[q].valid /\ q[1] = SetOf(c, a)
  <2>3. q = <<SetOf(c, a), q[2]>> /\ q[2] \in Ways(c)
    BY <2>2 DEF Slots
  <2>4. ~Matches(c, a, q[2])
    BY <2>3 DEF Hit
  <2> QED
    BY <2>2, <2>3, <2>4 DEF Matches
<1> HIDE DEF l
<1>6. NoTwin(d)
  <2>1. SUFFICES ASSUME NEW q \in Slots(c), NEW r \in Slots(c),
                        d.line[q].valid, d.line[r].valid,
                        q[1] = r[1], d.line[q].tag = d.line[r].tag
                 PROVE  q = r
    BY <1>3 DEF NoTwin
  <2>2. p[1] = SetOf(c, a)
    OBVIOUS
  <2>3. CASE q = p /\ r # p
    BY <1>0, <1>1, <1>2, <1>4, <1>5, <2>1, <2>2, <2>3
  <2>4. CASE q # p /\ r = p
    BY <1>0, <1>1, <1>2, <1>4, <1>5, <2>1, <2>2, <2>4
  <2>5. CASE q # p /\ r # p
    BY <1>2, <2>1, <2>5 DEF Placed, NoTwin
  <2> QED
    BY <2>3, <2>4, <2>5
<1>7. OfRAM(d)
  BY <1>1, <1>2, <1>3, <1>4 DEF Placed, OfRAM
<1>8. Spotless(c) => Spotless(d)
  BY <1>1, <1>2, <1>3, <1>4 DEF Spotless
<1> QED
  BY <1>1, <1>3, <1>4, <1>6, <1>7, <1>8 DEF Placed, Matches

(* A touch changes no line but its stamp. *)
LEMMA TouchPlaced ==
  ASSUME NEW c, Placed(c), NEW p \in Slots(c)
  PROVE  LET d == Touched(c, p)
         IN  /\ Placed(d) /\ SameGeometry(c, d)
             /\ \A q \in Slots(c) : /\ d.line[q].valid = c.line[q].valid
                                    /\ d.line[q].dirty = c.line[q].dirty
                                    /\ d.line[q].tag = c.line[q].tag
<1> DEFINE d == Touched(c, p)
           l == [c.line[p] EXCEPT !.stamp = Tick(c)]
           e == WithLine(c, p, l, Tick(c))
<1>1. c.line[p] \in CacheLine(c.line_bytes) /\ Tick(c) \in Stamp /\ IsCache(c)
  BY LineTypes, TickType DEF Placed
<1>2. /\ l \in CacheLine(c.line_bytes)
      /\ l.valid = c.line[p].valid /\ l.dirty = c.line[p].dirty
      /\ l.tag = c.line[p].tag /\ l.base = c.line[p].base
  BY <1>1 DEF CacheLine
<1>3. c.repl = "lru" => d = e
  BY <1>1 DEF Touched, WithLine, IsCache
<1>4. c.repl # "lru" => d = c
  BY DEF Touched
<1> HIDE DEF l
<1>5. /\ IsCache(e) /\ SameGeometry(c, e) /\ e.line[p] = l
      /\ \A q \in Slots(c) : q # p => e.line[q] = c.line[q]
  BY <1>1, <1>2, OneLine
<1> HIDE DEF d, e
<1>6. IsCache(d) /\ SameGeometry(c, d)
  BY <1>1, <1>3, <1>4, <1>5 DEF SameGeometry
<1>7. \A q \in Slots(c) : /\ d.line[q].valid = c.line[q].valid
                          /\ d.line[q].dirty = c.line[q].dirty
                          /\ d.line[q].tag = c.line[q].tag
                          /\ d.line[q].base = c.line[q].base
  BY <1>2, <1>3, <1>4, <1>5
<1>8. Placed(d)
  BY <1>6, <1>7, PlacedLike
<1> QED
  BY <1>6, <1>7, <1>8 DEF d

(* Writing one line back, and perhaps dropping it.                         *)
LEMMA OutPlaced ==
  ASSUME NEW c, NEW m, Placed(c), IsMemory(m), NEW p \in Slots(c),
         NEW l, l \in {Cleaned(c.line[p]),
                       [Cleaned(c.line[p]) EXCEPT !.valid = FALSE]},
         NEW d, d = [c EXCEPT !.line[p] = l]
  PROVE  /\ Placed(d) /\ SameGeometry(c, d)
         /\ IsMemory(WrittenBack(c, m, c.line[p]))
         /\ d.line[p] = l /\ ~(l.valid /\ l.dirty)
         /\ \A q \in Slots(c) : q # p => d.line[q] = c.line[q]
         /\ Spotless(c) => Spotless(d)
<1>1. c.line[p] \in CacheLine(c.line_bytes) /\ c.clock \in Stamp /\ IsCache(c)
  BY LineTypes DEF Placed
<1>2. /\ l \in CacheLine(c.line_bytes)
      /\ l.valid => c.line[p].valid
      /\ ~(l.valid /\ l.dirty)
      /\ l.tag = c.line[p].tag /\ l.base = c.line[p].base
  BY <1>1 DEF CacheLine, Cleaned
<1> DEFINE e == WithLine(c, p, l, c.clock)
<1>3. d = e
  BY <1>1 DEF IsCache, WithLine
<1>4. /\ IsCache(e) /\ SameGeometry(c, e) /\ e.line[p] = l
      /\ \A q \in Slots(c) : q # p => e.line[q] = c.line[q]
  <2>1. l \in CacheLine(c.line_bytes) /\ c.clock \in Stamp /\ IsCache(c)
    BY <1>1, <1>2
  <2> QED
    BY <2>1, OneLine
<1> HIDE DEF e
<1>5. Placed(e)
  <2>1. \A q \in Slots(c) : e.line[q].valid =>
          /\ c.line[q].valid
          /\ e.line[q].tag = c.line[q].tag /\ e.line[q].base = c.line[q].base
    BY <1>2, <1>4
  <2>2. IsCache(e) /\ SameGeometry(c, e)
    BY <1>4
  <2> QED
    BY <2>1, <2>2, PlacedLike
<1>6. Slots(e) = Slots(c)
  BY <1>4, SameDecode
<1>7. Spotless(c) => Spotless(e)
  BY <1>2, <1>4, <1>6 DEF Spotless
<1>8. IsMemory(WrittenBack(c, m, c.line[p]))
  BY <1>1, WrittenBackType
<1> QED
  BY <1>2, <1>3, <1>4, <1>5, <1>7, <1>8

(* An access of the processor, hit or miss: the line of a ends up in way   *)
(* w, and the byte read is a byte.                                         *)
LEMMA AccessPlaced ==
  ASSUME NEW c, NEW m, Placed(c), IsMemory(m), NEW a \in RAM,
         NEW w \in WaysFor(c, a)
  PROVE  LET r == Accessed(c, m, a, w)
         IN  /\ Placed(r.c) /\ SameGeometry(c, r.c) /\ IsMemory(r.m)
             /\ w \in Ways(c) /\ Matches(r.c, a, w)
             /\ ByteIn(r.c, a, w) \in Byte
             /\ Spotless(c) => Spotless(r.c)
<1> DEFINE r == Accessed(c, m, a, w)
           p == <<SetOf(c, a), w>>
           n == WrittenBack(c, m, c.line[p])
<1>0. a \in Addr /\ IsCache(c) /\ NoTwin(c)
  BY DEF Placed, RAM
<1>1. w \in Ways(c) /\ p \in Slots(c)
  BY <1>0, WayIsWay, SlotOf
<1>2. ASSUME Hit(c, a)
      PROVE  /\ Placed(r.c) /\ SameGeometry(c, r.c) /\ IsMemory(r.m)
             /\ Matches(r.c, a, w) /\ (Spotless(c) => Spotless(r.c))
  <2> DEFINE d == Touched(c, p)
  <2>1. r.c = d /\ r.m = m
    BY <1>2 DEF Accessed
  <2>2. /\ Placed(d) /\ SameGeometry(c, d)
        /\ \A q \in Slots(c) : /\ d.line[q].valid = c.line[q].valid
                               /\ d.line[q].dirty = c.line[q].dirty
                               /\ d.line[q].tag = c.line[q].tag
    BY <1>1, TouchPlaced
  <2> HIDE DEF d
  <2>3. /\ Slots(d) = Slots(c)
        /\ SetOf(d, a) = SetOf(c, a) /\ TagOf(d, a) = TagOf(c, a)
    BY <2>2, SameDecode
  <2>4. Matches(c, a, w)
    <3>1. w = HitWay(c, a)
      BY <1>2 DEF WaysFor
    <3>2. PICK v \in Ways(c) : Matches(c, a, v)
      BY <1>2 DEF Hit
    <3> QED
      BY <1>0, <3>1, <3>2, VisibleByte
  <2>5. Matches(d, a, w)
    BY <1>1, <2>2, <2>3, <2>4 DEF Matches
  <2>6. Spotless(c) => Spotless(d)
    BY <2>2, <2>3 DEF Spotless
  <2> HIDE DEF r
  <2> QED
    BY <2>1, <2>2, <2>5, <2>6
<1>3. ASSUME ~Hit(c, a)
      PROVE  /\ Placed(r.c) /\ SameGeometry(c, r.c) /\ IsMemory(r.m)
             /\ Matches(r.c, a, w) /\ (Spotless(c) => Spotless(r.c))
  <2>1. IsMemory(n)
    BY <1>0, <1>1, WrittenBackType
  <2> DEFINE d == WithLine(c, p, Filled(c, n, a), Tick(c))
  <2>2. r.c = d /\ r.m = n
    BY <1>3 DEF Accessed, WithLine
  <2> HIDE DEF n
  <2>3. /\ Placed(d) /\ SameGeometry(c, d) /\ Matches(d, a, w)
        /\ Spotless(c) => Spotless(d)
    BY <1>1, <1>3, <2>1, FillPlaced
  <2> HIDE DEF r, d
  <2> QED
    BY <2>1, <2>2, <2>3
<1>4. /\ Placed(r.c) /\ SameGeometry(c, r.c) /\ IsMemory(r.m)
      /\ Matches(r.c, a, w) /\ (Spotless(c) => Spotless(r.c))
  BY <1>2, <1>3
<1>5. ByteIn(r.c, a, w) \in Byte
  <2> HIDE DEF r
  <2>1. IsCache(r.c) /\ w \in Ways(r.c)
    BY <1>1, <1>4, SameDecode DEF Placed
  <2>2. /\ <<SetOf(r.c, a), w>> \in Slots(r.c)
        /\ OffOf(r.c, a) \in 0 .. r.c.line_bytes - 1
    BY <1>0, <2>1, SlotOf, DecodeTypes
  <2>3. r.c.line[<<SetOf(r.c, a), w>>].data \in [0 .. r.c.line_bytes - 1 -> Byte]
    BY <2>1, <2>2, LineTypes
  <2> QED
    BY <2>2, <2>3 DEF ByteIn
<1> QED
  BY <1>1, <1>4, <1>5

(* A store into a resident line. *)
LEMMA StoredPlaced ==
  ASSUME NEW c, NEW m, Placed(c), IsMemory(m), NEW a \in RAM, NEW w \in Ways(c),
         Matches(c, a, w), NEW v \in Byte
  PROVE  LET s == Stored(c, m, a, w, v)
         IN  Placed(s.c) /\ IsMemory(s.m)
<1> DEFINE s == Stored(c, m, a, w, v)
           p == <<SetOf(c, a), w>>
           o == OffOf(c, a)
           t == [c.line[p] EXCEPT !.data[o] = v]
           l == IF c.wpol = "through" THEN t ELSE [t EXCEPT !.dirty = TRUE]
           e == WithLine(c, p, l, c.clock)
<1>0. a \in Addr /\ IsCache(c)
  BY DEF Placed, RAM
<1>1. /\ p \in Slots(c) /\ c.clock \in Stamp
      /\ c.line[p] \in CacheLine(c.line_bytes) /\ o \in 0 .. c.line_bytes - 1
  BY <1>0, SlotOf, LineTypes, DecodeTypes
<1>2. /\ t \in CacheLine(c.line_bytes) /\ t.valid = c.line[p].valid
      /\ t.tag = c.line[p].tag /\ t.base = c.line[p].base
  BY <1>1 DEF CacheLine
<1>3. s.c = e
  <2>1. CASE c.wpol = "through"
    BY <1>0, <1>1, <2>1 DEF Stored, WithLine, IsCache
  <2>2. CASE c.wpol # "through"
    BY <1>0, <1>1, <2>2 DEF Stored, WithLine, IsCache
  <2> QED
    BY <2>1, <2>2
<1>4. IsMemory(s.m)
  BY <1>0 DEF Stored, IsMemory
<1> HIDE DEF t
<1>5. /\ l \in CacheLine(c.line_bytes) /\ l.valid = c.line[p].valid
      /\ l.tag = c.line[p].tag /\ l.base = c.line[p].base
  BY <1>2 DEF CacheLine
<1> HIDE DEF l
<1>6. /\ IsCache(e) /\ SameGeometry(c, e) /\ e.line[p] = l
      /\ \A q \in Slots(c) : q # p => e.line[q] = c.line[q]
  BY <1>0, <1>1, <1>5, OneLine
<1> HIDE DEF e
<1>7. Placed(e)
  BY <1>5, <1>6, PlacedLike
<1> HIDE DEF s
<1> QED
  BY <1>3, <1>4, <1>7 DEF s

(* cache_write, around the cache or into it. *)
LEMMA WritesPlaced ==
  ASSUME NEW c, NEW m, Placed(c), IsMemory(m), NEW a \in RAM, NEW v \in Byte,
         NEW r \in Writes(c, m, a, v)
  PROVE  Placed(r.c) /\ IsMemory(r.m)
<1>1. CASE ~Hit(c, a) /\ ~c.write_alloc
  <2>1. r = [c |-> c, m |-> [m EXCEPT ![a] = v]]
    BY <1>1 DEF Writes
  <2> QED
    BY <2>1 DEF IsMemory
<1>2. CASE Hit(c, a) \/ c.write_alloc
  <2>1. PICK w \in WaysFor(c, a) :
          r = LET q == Accessed(c, m, a, w) IN Stored(q.c, q.m, a, w, v)
    BY <1>2 DEF Writes
  <2> DEFINE q == Accessed(c, m, a, w)
  <2>2. /\ Placed(q.c) /\ IsMemory(q.m) /\ Matches(q.c, a, w)
        /\ SameGeometry(c, q.c) /\ w \in Ways(c)
    BY AccessPlaced
  <2>3. r = Stored(q.c, q.m, a, w, v)
    BY <2>1
  <2> HIDE DEF q
  <2>4. w \in Ways(q.c)
    BY <2>2, SameDecode
  <2>5. Placed(Stored(q.c, q.m, a, w, v).c) /\ IsMemory(Stored(q.c, q.m, a, w, v).m)
    BY <2>2, <2>4, StoredPlaced
  <2> QED
    BY <2>3, <2>5
<1> QED
  BY <1>1, <1>2

(* The slot a hit is found in. *)
LEMMA HitSlot ==
  ASSUME NEW c, Placed(c), NEW a \in Addr, Hit(c, a)
  PROVE  <<SetOf(c, a), HitWay(c, a)>> \in Slots(c)
<1>1. IsCache(c) /\ NoTwin(c)
  BY DEF Placed
<1>2. HitWay(c, a) \in WaysFor(c, a)
  BY DEF WaysFor
<1> QED
  BY <1>1, <1>2, WayIsWay, SlotOf

(* cache_clean_addr and cache_snoop. *)
LEMMA OneAddressOut ==
  ASSUME NEW r, Placed(r.c), IsMemory(r.m), NEW a \in Addr
  PROVE  /\ Placed(CleanedAt(r, a).c) /\ IsMemory(CleanedAt(r, a).m)
         /\ Placed(SnoopedAt(r, a).c) /\ IsMemory(SnoopedAt(r, a).m)
         /\ Spotless(r.c) => Spotless(SnoopedAt(r, a).c)
<1> DEFINE k == r.c
           m == r.m
           p == <<SetOf(k, a), HitWay(k, a)>>
           lc == Cleaned(k.line[p])
           ls == [Cleaned(k.line[p]) EXCEPT !.valid = FALSE]
           dc == [k EXCEPT !.line[p] = lc]
           ds == [k EXCEPT !.line[p] = ls]
<1>1. CASE ~Hit(k, a)
  BY <1>1 DEF CleanedAt, SnoopedAt
<1>2. CASE Hit(k, a)
  <2>1. p \in Slots(k)
    BY <1>2, HitSlot
  <2>2. /\ CleanedAt(r, a) = [c |-> dc, m |-> WrittenBack(k, m, k.line[p])]
        /\ SnoopedAt(r, a) = [c |-> ds, m |-> WrittenBack(k, m, k.line[p])]
    BY <1>2, <2>1 DEF CleanedAt, SnoopedAt, Placed, IsCache
  <2> HIDE DEF k, m, p
  <2>3. /\ lc \in {Cleaned(k.line[p]), [Cleaned(k.line[p]) EXCEPT !.valid = FALSE]}
        /\ ls \in {Cleaned(k.line[p]), [Cleaned(k.line[p]) EXCEPT !.valid = FALSE]}
    OBVIOUS
  <2>4. Placed(k) /\ IsMemory(m)
    BY DEF k, m
  <2> HIDE DEF lc, ls
  <2>5. Placed(dc) /\ IsMemory(WrittenBack(k, m, k.line[p]))
    BY <2>1, <2>3, <2>4, OutPlaced
  <2>6. Placed(ds) /\ (Spotless(k) => Spotless(ds))
    BY <2>1, <2>3, <2>4, OutPlaced
  <2> HIDE DEF dc, ds
  <2> QED
    BY <2>2, <2>5, <2>6 DEF k
<1> QED
  BY <1>1, <1>2

(* cache_clean and cache_flush. *)
LEMMA AllOutPlaced ==
  ASSUME NEW c, Placed(c)
  PROVE  /\ Placed(AllClean(c)) /\ Spotless(AllClean(c))
         /\ Placed(AllFlushed(c)) /\ Vacant(AllFlushed(c))
         /\ Vacant(c) => Vacant(AllClean(c))
<1> DEFINE f == [p \in Slots(c) |-> Cleaned(c.line[p])]
           g == [p \in Slots(c) |-> [Cleaned(c.line[p]) EXCEPT !.valid = FALSE]]
           d == AllClean(c)
           e == AllFlushed(c)
<1>1. ASSUME NEW p \in Slots(c)
      PROVE  /\ f[p] \in CacheLine(c.line_bytes) /\ g[p] \in CacheLine(c.line_bytes)
             /\ f[p].valid = c.line[p].valid /\ ~g[p].valid
             /\ ~(f[p].valid /\ f[p].dirty)
             /\ f[p].tag = c.line[p].tag /\ f[p].base = c.line[p].base
             /\ g[p].tag = c.line[p].tag /\ g[p].base = c.line[p].base
  <2>1. c.line[p] \in CacheLine(c.line_bytes)
    BY LineTypes DEF Placed
  <2> QED
    BY <2>1 DEF CacheLine, Cleaned
<1>2. f \in [Slots(c) -> CacheLine(c.line_bytes)]
  BY <1>1
<1>3. g \in [Slots(c) -> CacheLine(c.line_bytes)]
  BY <1>1
<1>4. d = [c EXCEPT !.line = f] /\ e = [c EXCEPT !.line = g]
  BY DEF AllClean, AllFlushed, Placed, IsCache
<1> HIDE DEF f, g, d, e
<1>5. IsCache(d) /\ SameGeometry(c, d) /\ d.line = f
  BY <1>2, <1>4, EveryLine DEF Placed
<1>6. IsCache(e) /\ SameGeometry(c, e) /\ e.line = g
  BY <1>3, <1>4, EveryLine DEF Placed
<1>7. Placed(d)
  BY <1>1, <1>5, PlacedLike
<1>8. Placed(e)
  BY <1>1, <1>6, PlacedLike
<1>9. Slots(d) = Slots(c) /\ Slots(e) = Slots(c)
  BY <1>5, <1>6, SameDecode
<1>10. Spotless(d) /\ Vacant(e) /\ (Vacant(c) => Vacant(d))
  BY <1>1, <1>5, <1>6, <1>9 DEF Spotless, Vacant
<1> QED
  BY <1>7, <1>8, <1>10 DEF d, e

(* A cache with nothing in it. *)
LEMMA VacantPlaced ==
  ASSUME NEW c, IsCache(c), c.line_bytes <= MaxLineBytes, Vacant(c)
  PROVE  Placed(c) /\ Spotless(c)
BY DEF Vacant, Placed, NoTwin, OfRAM, Spotless

(* A cache as cache_config leaves it. *)
LEMMA ConfiguredPlaced ==
  ASSUME NEW size \in Nat, NEW lb \in Nat, NEW ways \in Nat,
         GeometryOk(size, lb, ways),
         NEW repl \in Repl, NEW wpol \in WPol, NEW alloc \in BOOLEAN
  PROVE  LET d == Configured(size, lb, ways, repl, wpol, alloc)
         IN  Placed(d) /\ Vacant(d)
<1> DEFINE d == Configured(size, lb, ways, repl, wpol, alloc)
           zero == [x \in Addr |-> 0]
<1>1. IsMemory(zero)
  BY ByteAssumption DEF IsMemory
<1>2. IsCache(d)
  BY <1>1, ConfiguredIsEmpty DEF Sound
<1>3. /\ d.line_bytes = lb /\ d.ways = ways /\ d.sets = size \div (lb * ways)
      /\ d.line = [p \in (0 .. d.sets - 1) \X (0 .. d.ways - 1) |-> NoLine(lb)]
  BY DEF Configured
<1>4. d.line = [p \in Slots(d) |-> NoLine(lb)]
  BY <1>3 DEF Slots, Ways
<1> HIDE DEF d
<1>5. Vacant(d)
  BY <1>4 DEF Vacant, NoLine
<1>6. d.line_bytes <= MaxLineBytes
  BY <1>3 DEF GeometryOk
<1>7. Placed(d)
  BY <1>2, <1>5, <1>6, VacantPlaced
<1> QED
  BY <1>5, <1>7 DEF d

(* A change of policy. *)
WithPolicy(c, repl, wpol, alloc) ==
  [c EXCEPT !.repl = repl, !.wpol = wpol, !.write_alloc = alloc]

LEMMA PolicyPlaced ==
  ASSUME NEW c, Placed(c), NEW repl \in Repl, NEW wpol \in WPol,
         NEW alloc \in BOOLEAN
  PROVE  LET d == WithPolicy(c, repl, wpol, alloc)
         IN  /\ Placed(d) /\ (Spotless(c) => Spotless(d))
             /\ Vacant(c) => Vacant(d)
<1> DEFINE d == WithPolicy(c, repl, wpol, alloc)
<1>1. IsCache(c)
  BY DEF Placed
<1>2. SameGeometry(c, d) /\ d.line = c.line
  BY <1>1 DEF SameGeometry, IsCache, WithPolicy
<1>3. Slots(d) = Slots(c)
  BY <1>2, SameDecode
<1>4. d.line \in [Slots(d) -> CacheLine(d.line_bytes)]
  BY <1>1, <1>2, <1>3 DEF IsCache, SameGeometry
<1>5. IsCache(d)
  BY <1>1, <1>2, <1>4 DEF IsCache, SameGeometry, WithPolicy
<1> HIDE DEF d
<1>6. Placed(d)
  BY <1>2, <1>5, PlacedLike
<1> QED
  BY <1>2, <1>3, <1>6 DEF Spotless, Vacant, d

-----------------------------------------------------------------------------
(* The machine. *)

Memories == [{"I", "D"} -> [Addr -> Byte]]

(* the three caches and the two memories *)
CachesKept ==
  /\ DOMAIN cache = Caches /\ mem \in Memories
  /\ \A x \in Caches : Placed(cache[x])
  /\ Spotless(cache["i"])

(* the settings, and what the last step answered *)
SettingsKept ==
  /\ mode \in {"vn", "harvard", "modified"}
  /\ on \in BOOLEAN /\ snoop \in BOOLEAN /\ out \in Byte
  /\ did \in {"none", "fetch", "load", "store", "stale store", "device", "clean",
              "invalidate", "flush", "mode", "off", "setting", "poke", "image"}

Routed(x) == on /\ x \in {CacheFor("code"), CacheFor("data")}
IdleVacant == \A x \in Caches : Routed(x) \/ Vacant(cache[x])

(* What every step keeps. *)
MachineInv == CachesKept /\ SettingsKept /\ IdleVacant

(* It gives the four invariants: a line that decodes from an address of    *)
(* RAM covers none of the device page, whose border no line straddles.     *)
LEMMA LineOffPage ==
  ASSUME NEW c, Placed(c), NEW p \in Slots(c), c.line[p].valid
  PROVE  Extent(c, c.line[p]) \cap IOPage = {}
<1>1. PICK a \in RAM : c.line[p].base = BaseOf(c, a)
  BY DEF Placed, OfRAM
<1> DEFINE lb == c.line_bytes
<1>2. /\ IsCache(c) /\ a \in Addr /\ a \notin IOPage /\ a \in Nat
      /\ lb \in Pow2 /\ lb <= MaxLineBytes /\ lb \in Nat \ {0}
  BY Pow2Positive DEF Placed, RAM, IsCache, Addr
<1> HIDE DEF lb
<1>3. SUFFICES ASSUME NEW b \in IOPage, b \in Extent(c, c.line[p])
               PROVE  FALSE
  OBVIOUS
<1>4. b \in Addr /\ b \in Nat
  BY PageAssumption DEF Addr
<1>5. b \in a - (a % lb) .. a - (a % lb) + lb - 1
  BY <1>1, <1>3 DEF Extent, BaseOf, lb
<1>6. a \div lb = b \div lb
  BY <1>2, <1>4, <1>5, AlignedBlock
<1>7. a \in IOPage <=> b \in IOPage
  BY <1>2, <1>4, <1>6, PageAssumption
<1> QED
  BY <1>2, <1>3, <1>7

LEMMA MachineGives ==
  MachineInv => TypeOK /\ DevicesUncached /\ IdleCachesEmpty /\ CodeNeverDirty
<1> SUFFICES ASSUME MachineInv
             PROVE  TypeOK /\ DevicesUncached /\ IdleCachesEmpty /\ CodeNeverDirty
  OBVIOUS
<1>1. TypeOK
  BY DEF MachineInv, CachesKept, SettingsKept, TypeOK, Placed, Memories
<1>2. DevicesUncached
  BY LineOffPage DEF MachineInv, CachesKept, DevicesUncached
<1>3. IdleCachesEmpty
  BY DEF MachineInv, IdleVacant, Routed, Vacant, IdleCachesEmpty, Holds
<1>4. CodeNeverDirty
  BY DEF MachineInv, CachesKept, Spotless, CodeNeverDirty, HoldsDirty
<1> QED
  BY <1>1, <1>2, <1>3, <1>4

LEMMA InitMachine == Init => MachineInv
<1> SUFFICES ASSUME Init PROVE MachineInv
  OBVIOUS
<1>1. ASSUME NEW x \in Caches PROVE Placed(cache[x]) /\ Vacant(cache[x])
  <2> DEFINE g == Geometry[x]
  <2>1. /\ g[1] \in Nat /\ g[2] \in Nat /\ g[3] \in Nat
        /\ GeometryOk(g[1], g[2], g[3])
    BY GeometryAssumption DEF Caches
  <2>2. cache[x] = Configured(g[1], g[2], g[3], "lru", "back", TRUE)
    BY DEF Init
  <2> HIDE DEF g
  <2>3. "lru" \in Repl /\ "back" \in WPol /\ TRUE \in BOOLEAN
    BY DEF Repl, WPol
  <2> QED
    BY <2>1, <2>2, <2>3, ConfiguredPlaced
<1>2. Spotless(cache["i"])
  BY <1>1 DEF Vacant, Spotless, Caches
<1>3. CachesKept
  BY <1>1, <1>2 DEF CachesKept, Init, Memories
<1>4. SettingsKept
  BY ModeAssumption, ByteAssumption DEF SettingsKept, Init
<1>5. IdleVacant
  BY <1>1 DEF IdleVacant
<1> QED
  BY <1>3, <1>4, <1>5 DEF MachineInv

(* The routing never sends data to the instruction cache. *)
LEMMA Routing ==
  ASSUME SettingsKept, NEW side
  PROVE  CacheFor(side) \in Caches /\ CacheFor("data") # "i"
BY DEF CacheFor, Caches

(* One cache and the memory behind it, changed together. *)
LEMMA UpdateKeeps ==
  ASSUME CachesKept, NEW x \in Caches, NEW r, Placed(r.c), IsMemory(r.m),
         x = "i" => Spotless(r.c), Update(x, r)
  PROVE  CachesKept' /\ cache'[x] = r.c
         /\ \A y \in Caches : y # x => cache'[y] = cache[y]
<1>1. MemBehind(x) \in {"I", "D"}
  BY DEF MemBehind, DataMem
<1>2. mem' \in Memories
  BY <1>1 DEF CachesKept, Update, Memories, IsMemory
<1>3. /\ DOMAIN cache' = Caches /\ cache'[x] = r.c
      /\ \A y \in Caches : y # x => cache'[y] = cache[y]
  BY DEF CachesKept, Update
<1>4. \A y \in Caches : Placed(cache'[y])
  BY <1>3 DEF CachesKept
<1>5. Spotless(cache'["i"])
  BY <1>3 DEF CachesKept, Caches
<1> QED
  BY <1>2, <1>3, <1>4, <1>5 DEF CachesKept

(* Any set of caches flushed. *)
LEMMA FlushKeeps ==
  ASSUME CachesKept, NEW xs \in SUBSET Caches, FlushCaches(xs)
  PROVE  /\ CachesKept'
         /\ \A x \in Caches : IF x \in xs THEN Vacant(cache'[x])
                              ELSE cache'[x] = cache[x]
<1> DEFINE Out(x, m) == IF x \in xs
                        THEN [m EXCEPT ![MemBehind(x)] = AllWrittenBack(cache[x], @)]
                        ELSE m
<1>1. ASSUME NEW x \in Caches, NEW m \in Memories PROVE Out(x, m) \in Memories
  <2>1. MemBehind(x) \in {"I", "D"}
    BY DEF MemBehind, DataMem
  <2>2. AllWrittenBack(cache[x], m[MemBehind(x)]) \in [Addr -> Byte]
    BY <2>1, AllWrittenBackType DEF CachesKept, Placed, IsMemory, Memories
  <2> QED
    BY <2>1, <2>2 DEF Memories
<1>2. mem' = Out("u", Out("d", Out("i", mem)))
  BY DEF FlushCaches
<1> HIDE DEF Out
<1>3. mem' \in Memories
  BY <1>1, <1>2 DEF CachesKept, Caches
<1>4. cache' = [x \in Caches |->
                  IF x \in xs THEN AllFlushed(cache[x]) ELSE cache[x]]
  BY DEF FlushCaches
<1>5. ASSUME NEW x \in Caches
      PROVE  /\ Placed(cache'[x])
             /\ IF x \in xs THEN Vacant(cache'[x]) ELSE cache'[x] = cache[x]
  BY <1>4, AllOutPlaced DEF CachesKept
<1>6. Spotless(cache'["i"])
  BY <1>5 DEF CachesKept, Vacant, Spotless, Caches
<1> QED
  BY <1>3, <1>4, <1>5, <1>6 DEF CachesKept

(* cache_clean of the cache the stores go through. *)
LEMMA CleanDataKeeps ==
  ASSUME CachesKept, SettingsKept, CleanData
  PROVE  /\ CachesKept'
         /\ \A x \in Caches : Vacant(cache[x]) => Vacant(cache'[x])
<1> DEFINE x == CacheFor("data")
           r == [c |-> AllClean(cache[x]),
                 m |-> AllWrittenBack(cache[x], mem[MemBehind(x)])]
<1>1. x \in Caches /\ x # "i"
  BY Routing
<1>2. MemBehind(x) \in {"I", "D"}
  BY DEF MemBehind, DataMem
<1>3. Update(x, r)
  BY DEF CleanData
<1> HIDE DEF x
<1>4. Placed(cache[x]) /\ IsMemory(mem[MemBehind(x)])
  BY <1>1, <1>2 DEF CachesKept, Memories, IsMemory
<1>5. Placed(r.c) /\ IsMemory(r.m) /\ (Vacant(cache[x]) => Vacant(r.c))
  BY <1>4, AllOutPlaced, AllWrittenBackType DEF Placed
<1> HIDE DEF r
<1> QED
  BY <1>1, <1>3, <1>5, UpdateKeeps

(* ms_flush: each cache is flushed or left as it is. *)
LEMMA FlushSome ==
  ASSUME CachesKept, NEW code \in BOOLEAN, NEW data \in BOOLEAN, Flush(code, data)
  PROVE  /\ CachesKept'
         /\ \A x \in Caches : Vacant(cache[x]) => Vacant(cache'[x])
<1> DEFINE xs == IF mode = "vn"
                 THEN {x \in {"u"} : code \/ data}
                 ELSE {x \in {"i", "d"} : IF x = "i" THEN code ELSE data}
<1>1. xs \in SUBSET Caches
  BY DEF Caches
<1>2. FlushCaches(xs)
  BY DEF Flush
<1> HIDE DEF xs
<1> QED
  BY <1>1, <1>2, FlushKeeps

-----------------------------------------------------------------------------
(* The steps of the program. *)

LEMMA ReadKeeps ==
  ASSUME MachineInv, NEW side \in {"code", "data"}, NEW a \in Addr,
         ReadDevice(side, a) \/ Read(side, a)
  PROVE  MachineInv'
<1>0. CachesKept /\ SettingsKept /\ IdleVacant
  BY DEF MachineInv
<1>1. /\ MemFor(side) \in {"I", "D"} /\ mode' = mode /\ on' = on /\ snoop' = snoop
      /\ did' \in {"device", "fetch", "load"}
  BY DEF MemFor, DataMem, ReadDevice, Read
<1>2. CASE ReadDevice(side, a) \/ (Read(side, a) /\ ReadMemory(side, a))
  <2>1. cache' = cache /\ mem' = mem /\ out' \in Byte
    BY <1>0, <1>1, <1>2 DEF ReadDevice, ReadMemory, CachesKept, Memories
  <2>2. CachesKept' /\ SettingsKept'
    BY <1>0, <1>1, <2>1 DEF CachesKept, SettingsKept
  <2>3. IdleVacant'
    BY <1>0, <1>1, <2>1 DEF IdleVacant, Routed, CacheFor
  <2> QED
    BY <2>2, <2>3 DEF MachineInv
<1>3. CASE Read(side, a) /\ ReadCache(side, a)
  <2> DEFINE x == CacheFor(side)
             k == cache[x]
             n == mem[MemBehind(x)]
  <2>1. x \in Caches /\ MemBehind(x) \in {"I", "D"} /\ on
    BY <1>0, <1>3, Routing DEF MemBehind, DataMem, ReadCache
  <2>2. a \in RAM /\ Placed(k) /\ IsMemory(n)
    BY <1>0, <1>3, <2>1 DEF Read, RAM, CachesKept, Memories, IsMemory
  <2>3. PICK w \in WaysFor(k, a) :
          LET r == Accessed(k, n, a, w)
          IN  Update(x, r) /\ out' = ByteIn(r.c, a, w)
    BY <1>3 DEF ReadCache
  <2> DEFINE r == Accessed(k, n, a, w)
  <2>4. Update(x, r) /\ out' = ByteIn(r.c, a, w)
    BY <2>3
  <2> HIDE DEF k, n
  <2>5. /\ Placed(r.c) /\ IsMemory(r.m) /\ ByteIn(r.c, a, w) \in Byte
        /\ Spotless(k) => Spotless(r.c)
    BY <2>2, AccessPlaced
  <2>6. x = "i" => Spotless(r.c)
    BY <1>0, <2>5 DEF CachesKept, k
  <2> HIDE DEF r, x
  <2>7. CachesKept' /\ \A y \in Caches : y # x => cache'[y] = cache[y]
    BY <1>0, <2>1, <2>4, <2>5, <2>6, UpdateKeeps
  <2>8. SettingsKept'
    BY <1>0, <1>1, <2>4, <2>5 DEF SettingsKept
  <2>9. IdleVacant'
    <3>1. Routed(x) /\ \A y \in Caches : Routed(y)' = Routed(y)
      BY <1>1, <2>1 DEF Routed, CacheFor, x
    <3>2. \A y \in Caches : Routed(y)' \/ Vacant(cache'[y])
      BY <1>0, <2>1, <2>7, <3>1 DEF IdleVacant
    <3> QED
      BY <3>2 DEF IdleVacant
  <2> QED
    BY <2>7, <2>8, <2>9 DEF MachineInv
<1> QED
  BY <1>2, <1>3 DEF Read

LEMMA StoreDeviceKeeps ==
  ASSUME MachineInv, NEW a \in Addr, NEW v \in Byte, StoreDevice(a, v)
  PROVE  MachineInv'
<1>0. CachesKept /\ SettingsKept /\ IdleVacant
  BY DEF MachineInv
<1>1. /\ mode' = mode /\ on' = on /\ snoop' = snoop /\ out' = out
      /\ did' \in {"clean", "invalidate", "device"}
  BY DEF StoreDevice
<1>2. SettingsKept'
  BY <1>0, <1>1 DEF SettingsKept
<1>3. CachesKept' /\ \A x \in Caches : Vacant(cache[x]) => Vacant(cache'[x])
  <2>1. CASE CleanData
    BY <1>0, <2>1, CleanDataKeeps
  <2>2. CASE Flush(TRUE, FALSE)
    BY <1>0, <2>2, FlushSome
  <2>3. CASE /\ mem' = IF a \in OutputRegs THEN mem ELSE [mem EXCEPT ![DataMem][a] = v]
             /\ cache' = cache
    <3>1. mem' \in Memories
      BY <1>0, <2>3 DEF CachesKept, Memories, DataMem
    <3> QED
      BY <1>0, <2>3, <3>1 DEF CachesKept
  <2> QED
    BY <2>1, <2>2, <2>3 DEF StoreDevice
<1>4. IdleVacant'
  BY <1>0, <1>1, <1>3 DEF IdleVacant, Routed, CacheFor
<1> QED
  BY <1>2, <1>3, <1>4 DEF MachineInv

(* A store: into memory, into the data side's cache, or, snooped, through  *)
(* both caches of the modified machine.                                    *)
LEMMA StoreKeeps ==
  ASSUME MachineInv, NEW a \in Addr, NEW v \in Byte, Store(a, v)
  PROVE  MachineInv'
<1>0. CachesKept /\ SettingsKept /\ IdleVacant
  BY DEF MachineInv
<1>1. /\ mode' = mode /\ on' = on /\ snoop' = snoop /\ out' = out
      /\ did' \in {"stale store", "store"}
  BY DEF Store
<1>2. SettingsKept'
  BY <1>0, <1>1 DEF SettingsKept
<1>3. \A y \in Caches : Routed(y)' = Routed(y)
  BY <1>1 DEF Routed, CacheFor
<1>4. CASE StoreMemory(a, v)
  <2>1. mem' \in Memories /\ cache' = cache
    BY <1>0, <1>4 DEF StoreMemory, CachesKept, Memories, DataMem
  <2>2. CachesKept'
    BY <1>0, <2>1 DEF CachesKept
  <2>3. IdleVacant'
    BY <1>0, <1>3, <2>1 DEF IdleVacant
  <2> QED
    BY <1>2, <2>2, <2>3 DEF MachineInv
<1>5. CASE StoreCache(a, v)
  <2> DEFINE x == CacheFor("data")
             k == cache[x]
             n == mem[MemBehind(x)]
  <2>1. x \in Caches /\ x # "i" /\ MemBehind(x) \in {"I", "D"} /\ on
    BY <1>0, <1>5, Routing DEF MemBehind, DataMem, StoreCache
  <2>2. a \in RAM /\ Placed(k) /\ IsMemory(n)
    BY <1>0, <2>1 DEF Store, RAM, CachesKept, Memories, IsMemory
  <2>3. PICK r \in Writes(k, n, a, v) :
          IF Coherence(a) /\ snoop
          THEN LET d == CleanedAt(r, a)
                   i == SnoopedAt([c |-> cache["i"], m |-> d.m], a)
               IN  /\ cache' = [cache EXCEPT !["d"] = d.c, !["i"] = i.c]
                   /\ mem' = [mem EXCEPT !["I"] = i.m]
          ELSE Update(x, r)
    BY <1>5 DEF StoreCache
  <2>4. Placed(r.c) /\ IsMemory(r.m)
    BY <2>2, WritesPlaced
  <2>5. Routed(x)
    BY <2>1 DEF Routed
  <2> HIDE DEF k, n
  <2>6. CASE ~(Coherence(a) /\ snoop)
    <3> HIDE DEF x
    <3>1. CachesKept' /\ \A y \in Caches : y # x => cache'[y] = cache[y]
      BY <1>0, <2>1, <2>3, <2>4, <2>6, UpdateKeeps
    <3>2. IdleVacant'
      BY <1>0, <1>3, <2>5, <3>1 DEF IdleVacant
    <3> QED
      BY <1>2, <3>1, <3>2 DEF MachineInv
  <2>7. CASE Coherence(a) /\ snoop
    <3> DEFINE d == CleanedAt(r, a)
               q == [c |-> cache["i"], m |-> d.m]
               i == SnoopedAt(q, a)
    <3>1. Placed(d.c) /\ IsMemory(d.m)
      BY <2>4, OneAddressOut
    <3>2. /\ cache' = [cache EXCEPT !["d"] = d.c, !["i"] = i.c]
          /\ mem' = [mem EXCEPT !["I"] = i.m]
      BY <2>3, <2>7
    <3> HIDE DEF d
    <3>3. Placed(q.c) /\ IsMemory(q.m) /\ Spotless(q.c)
      BY <1>0, <3>1 DEF CachesKept, Caches
    <3> HIDE DEF q
    <3>4. Placed(i.c) /\ IsMemory(i.m) /\ Spotless(i.c)
      BY <3>3, OneAddressOut
    <3> HIDE DEF i
    <3>5. mem' \in Memories
      BY <1>0, <3>2, <3>4 DEF CachesKept, Memories, IsMemory
    <3>6. /\ DOMAIN cache' = Caches
          /\ cache'["d"] = d.c /\ cache'["i"] = i.c /\ cache'["u"] = cache["u"]
      BY <1>0, <3>2 DEF CachesKept, Caches
    <3>7. CachesKept'
      BY <1>0, <3>1, <3>4, <3>5, <3>6 DEF CachesKept, Caches
    <3>8. Routed("i") /\ Routed("d")
      BY <2>1, <2>7 DEF Routed, CacheFor, Coherence
    <3>9. IdleVacant'
      BY <1>0, <1>3, <3>6, <3>8 DEF IdleVacant, Caches
    <3> QED
      BY <1>2, <3>7, <3>9 DEF MachineInv
  <2> QED
    BY <2>6, <2>7
<1> QED
  BY <1>4, <1>5 DEF Store

-----------------------------------------------------------------------------
(* The commands. *)

LEMMA SetModeKeeps ==
  ASSUME MachineInv, NEW m \in ModesUsed, SetMode(m)
  PROVE  MachineInv'
<1>1. FlushCaches(Caches) /\ CachesKept
  BY DEF SetMode, MachineInv
<1>2. CachesKept' /\ \A x \in Caches : Vacant(cache'[x])
  BY <1>1, FlushKeeps
<1>3. SettingsKept'
  BY ModeAssumption DEF SetMode, MachineInv, SettingsKept
<1>4. IdleVacant'
  BY <1>2 DEF IdleVacant
<1> QED
  BY <1>2, <1>3, <1>4 DEF MachineInv

(* The switch that takes the caches out of use empties those in use; the   *)
(* others were empty.                                                      *)
LEMMA CacheOffKeeps ==
  ASSUME MachineInv, CacheOff
  PROVE  MachineInv'
<1> DEFINE xs == IF mode = "vn" THEN {"u"} ELSE {"i", "d"}
<1>1. xs \in SUBSET Caches /\ FlushCaches(xs)
  <2>1. (IF mode = "vn"
         THEN {x \in {"u"} : TRUE \/ TRUE}
         ELSE {x \in {"i", "d"} : IF x = "i" THEN TRUE ELSE TRUE}) = xs
    OBVIOUS
  <2> QED
    BY <2>1 DEF CacheOff, Flush, Caches
<1>2. \A x \in Caches : Routed(x) => x \in xs
  BY DEF Routed, CacheFor
<1> HIDE DEF xs
<1>3. /\ CachesKept'
      /\ \A x \in Caches : IF x \in xs THEN Vacant(cache'[x]) ELSE cache'[x] = cache[x]
  BY <1>1, FlushKeeps DEF MachineInv
<1>4. IdleVacant'
  BY <1>2, <1>3 DEF MachineInv, IdleVacant
<1>5. SettingsKept'
  BY DEF CacheOff, MachineInv, SettingsKept
<1> QED
  BY <1>3, <1>4, <1>5 DEF MachineInv

(* One cache reconfigured: its geometry, or its policy. *)
LEMMA ConfigKeeps ==
  ASSUME MachineInv, NEW x \in Caches, NEW r \in Requests[x],
         Config(x, r[1], r[2], r[3])
  PROVE  MachineInv'
<1> DEFINE k == cache[x]
           d == Configured(r[1], r[2], r[3], k.repl, k.wpol, k.write_alloc)
<1>1. /\ r[1] \in Nat /\ r[2] \in Nat /\ r[3] \in Nat
      /\ r[1] < WordMod /\ r[2] * r[3] < WordMod
  BY GeometryAssumption DEF IsRequest, Caches
<1>2. GeometryOk(r[1], r[2], r[3])
  BY <1>1, WordGeometry DEF Config
<1>3. k.repl \in Repl /\ k.wpol \in WPol /\ k.write_alloc \in BOOLEAN
  BY DEF MachineInv, CachesKept, Placed, IsCache
<1>4. cache' = [cache EXCEPT ![x] = d]
  BY DEF Config
<1> HIDE DEF k
<1>5. Placed(d) /\ Vacant(d)
  BY <1>1, <1>2, <1>3, ConfiguredPlaced
<1>6. Spotless(d)
  BY <1>5 DEF Vacant, Spotless
<1> HIDE DEF d
<1>7. /\ DOMAIN cache' = Caches /\ cache'[x] = d
      /\ \A y \in Caches : y # x => cache'[y] = cache[y]
  BY <1>4 DEF MachineInv, CachesKept
<1>8. mem' = mem /\ on' = on /\ mode' = mode
  BY DEF Config
<1>9. CachesKept'
  BY <1>5, <1>6, <1>7, <1>8 DEF MachineInv, CachesKept, Caches
<1>10. IdleVacant'
  BY <1>5, <1>7, <1>8 DEF MachineInv, IdleVacant, Routed, CacheFor
<1>11. SettingsKept'
  BY DEF Config, MachineInv, SettingsKept
<1> QED
  BY <1>9, <1>10, <1>11 DEF MachineInv

LEMMA SetPolicyKeeps ==
  ASSUME MachineInv, NEW x \in Caches, NEW p \in Policies[x],
         SetPolicy(x, p[1], p[2], p[3])
  PROVE  MachineInv'
<1> DEFINE k == cache[x]
           d == WithPolicy(k, p[1], p[2], p[3])
<1>1. p[1] \in Repl /\ p[2] \in WPol /\ p[3] \in BOOLEAN
  BY GeometryAssumption DEF Caches
<1>2. Placed(k)
  BY DEF MachineInv, CachesKept
<1>3. /\ DOMAIN cache' = Caches /\ cache'[x] = d
      /\ \A y \in Caches : y # x => cache'[y] = cache[y]
  BY DEF SetPolicy, MachineInv, CachesKept, WithPolicy
<1>4. (x = "i" => Spotless(k)) /\ (Routed(x) \/ Vacant(k))
  BY DEF MachineInv, CachesKept, IdleVacant
<1> HIDE DEF k
<1>5. Placed(d) /\ (Spotless(k) => Spotless(d)) /\ (Vacant(k) => Vacant(d))
  BY <1>1, <1>2, PolicyPlaced
<1> HIDE DEF d
<1>6. mem' = mem /\ on' = on /\ mode' = mode
  BY DEF SetPolicy
<1>7. CachesKept'
  BY <1>3, <1>4, <1>5, <1>6 DEF MachineInv, CachesKept, Caches
<1>8. IdleVacant'
  BY <1>3, <1>4, <1>5, <1>6 DEF MachineInv, IdleVacant, Routed, CacheFor
<1>9. SettingsKept'
  BY DEF SetPolicy, MachineInv, SettingsKept
<1> QED
  BY <1>7, <1>8, <1>9 DEF MachineInv

LEMMA MaintenanceKeeps ==
  ASSUME MachineInv,
         CleanCommand \/ \E code, data \in BOOLEAN : FlushCommand(code, data)
  PROVE  MachineInv'
<1>1. /\ CachesKept'
      /\ \A x \in Caches : Vacant(cache[x]) => Vacant(cache'[x])
  <2>1. CASE CleanCommand
    BY <2>1, CleanDataKeeps DEF CleanCommand, MachineInv
  <2>2. CASE \E code, data \in BOOLEAN : FlushCommand(code, data)
    BY <2>2, FlushSome DEF FlushCommand, MachineInv
  <2> QED
    BY <2>1, <2>2
<1>2. mode' = mode /\ on' = on
  BY DEF CleanCommand, FlushCommand
<1>3. SettingsKept'
  BY DEF CleanCommand, FlushCommand, MachineInv, SettingsKept
<1>4. IdleVacant'
  <2>1. \A x \in Caches : Routed(x)' = Routed(x)
    BY <1>2 DEF Routed, CacheFor
  <2>2. \A x \in Caches : Routed(x)' \/ Vacant(cache'[x])
    BY <1>1, <2>1 DEF MachineInv, IdleVacant
  <2> QED
    BY <2>2 DEF IdleVacant
<1> QED
  BY <1>1, <1>3, <1>4 DEF MachineInv

LEMMA SwitchKeeps ==
  ASSUME MachineInv, CacheOn \/ \E b \in BOOLEAN : SetSnoop(b)
  PROVE  MachineInv'
<1>1. /\ cache' = cache /\ mem' = mem /\ mode' = mode /\ on' \in {on, TRUE}
      /\ snoop' \in BOOLEAN /\ out' = out /\ did' = "setting"
  BY DEF CacheOn, SetSnoop, MachineInv, SettingsKept
<1>2. CachesKept' /\ SettingsKept'
  BY <1>1 DEF MachineInv, CachesKept, SettingsKept
<1>3. IdleVacant'
  <2>1. \A x \in Caches : Routed(x) => Routed(x)'
    BY <1>1 DEF Routed, CacheFor
  <2>2. \A x \in Caches : Routed(x)' \/ Vacant(cache'[x])
    BY <1>1, <2>1 DEF MachineInv, IdleVacant
  <2> QED
    BY <2>2 DEF IdleVacant
<1> QED
  BY <1>2, <1>3 DEF MachineInv

(* The side doors change memory only. *)
LEMMA SideDoorKeeps ==
  ASSUME MachineInv, SideDoor
  PROVE  MachineInv'
<1>1. /\ cache' = cache /\ mode' = mode /\ on' = on /\ snoop' = snoop
      /\ out' = out /\ did' \in {"poke", "image"}
  BY DEF SideDoor, Poke, LoadFile
<1>2. mem' \in Memories
  <2>1. mem \in Memories
    BY DEF MachineInv, CachesKept
  <2>2. ASSUME NEW a \in DataAddr \ IOPage, NEW v \in Byte,
               NEW side \in {"code", "data"}, Poke(side, a, v)
        PROVE  mem' \in Memories
    BY <2>1, <2>2, AddressAssumption DEF Poke, MemFor, DataMem, Memories
  <2>3. ASSUME NEW image \in Images, NEW toI \in BOOLEAN, NEW toD \in BOOLEAN,
               LoadFile(image, toI, toD)
        PROVE  mem' \in Memories
    <3> DEFINE Over(m) == [a \in Addr |-> IF a \in DOMAIN image THEN image[a] ELSE m[a]]
               onI == IF toI THEN [mem EXCEPT !["I"] = Over(mem["I"])] ELSE mem
    <3>1. \A m \in [Addr -> Byte] : Over(m) \in [Addr -> Byte]
      BY ImageAssumption
    <3>2. mem' = IF toD THEN [onI EXCEPT ![DataMem] = Over(onI[DataMem])] ELSE onI
      BY <2>3 DEF LoadFile
    <3> HIDE DEF Over
    <3>3. onI \in Memories
      BY <2>1, <3>1 DEF Memories
    <3> HIDE DEF onI
    <3> QED
      BY <3>1, <3>2, <3>3 DEF Memories, DataMem
  <2> QED
    BY <2>2, <2>3 DEF SideDoor
<1>3. CachesKept' /\ SettingsKept'
  BY <1>1, <1>2 DEF MachineInv, CachesKept, SettingsKept
<1>4. IdleVacant'
  BY <1>1 DEF MachineInv, IdleVacant, Routed, CacheFor
<1> QED
  BY <1>3, <1>4 DEF MachineInv

LEMMA CommandKeeps ==
  ASSUME MachineInv, Command
  PROVE  MachineInv'
<1>1. CASE \E m \in ModesUsed : SetMode(m)
  BY <1>1, SetModeKeeps
<1>2. CASE CacheOn \/ \E b \in BOOLEAN : SetSnoop(b)
  BY <1>2, SwitchKeeps
<1>3. CASE CacheOff
  BY <1>3, CacheOffKeeps
<1>4. ASSUME NEW x \in Caches, NEW p \in Policies[x], SetPolicy(x, p[1], p[2], p[3])
      PROVE  MachineInv'
  BY <1>4, SetPolicyKeeps
<1>5. CASE CleanCommand \/ \E code, data \in BOOLEAN : FlushCommand(code, data)
  BY <1>5, MaintenanceKeeps
<1> QED
  BY <1>1, <1>2, <1>3, <1>4, <1>5 DEF Command

LEMMA AccessKeeps ==
  ASSUME MachineInv, Access
  PROVE  MachineInv'
<1>1. ASSUME NEW a \in CodeAddr, ReadDevice("code", a) \/ Read("code", a)
      PROVE  MachineInv'
  BY <1>1, ReadKeeps, AddressAssumption
<1>2. ASSUME NEW a \in DataAddr, ReadDevice("data", a) \/ Read("data", a)
      PROVE  MachineInv'
  BY <1>2, ReadKeeps, AddressAssumption
<1>3. ASSUME NEW a \in DataAddr, NEW v \in Byte, StoreDevice(a, v)
      PROVE  MachineInv'
  BY <1>3, StoreDeviceKeeps, AddressAssumption
<1>4. ASSUME NEW a \in DataAddr, NEW v \in Byte, Store(a, v)
      PROVE  MachineInv'
  BY <1>4, StoreKeeps, AddressAssumption
<1> QED
  BY <1>1, <1>2, <1>3, <1>4 DEF Access

LEMMA StepMachine == MachineInv /\ [Next]_vars => MachineInv'
<1> SUFFICES ASSUME MachineInv, [Next]_vars PROVE MachineInv'
  OBVIOUS
<1>1. CASE Access
  BY <1>1, AccessKeeps
<1>2. CASE Command
  BY <1>2, CommandKeeps
<1>3. CASE Reshape
  BY <1>3, ConfigKeeps DEF Reshape
<1>4. CASE SideDoor
  BY <1>4, SideDoorKeeps
<1>5. CASE UNCHANGED vars
  <2>1. CachesKept' /\ SettingsKept'
    BY <1>5 DEF vars, MachineInv, CachesKept, SettingsKept
  <2>2. IdleVacant'
    BY <1>5 DEF vars, MachineInv, IdleVacant, Routed, CacheFor
  <2> QED
    BY <2>1, <2>2 DEF MachineInv
<1> QED
  BY <1>1, <1>2, <1>3, <1>4, <1>5 DEF Next

-----------------------------------------------------------------------------
THEOREM MachineInvariant == Spec => []MachineInv
BY InitMachine, StepMachine, PTL DEF Spec

(* A machine used with care is a machine: what is proved of Spec holds of  *)
(* CareSpec.                                                               *)
LEMMA CareIsSpec == CareSpec => Spec
<1>1. [CareNext]_vars => [Next]_vars
  BY DEF CareNext, Next, Reshape
<1> QED
  BY <1>1, PTL DEF CareSpec, Spec

(* The three caches keep their geometry and the types of their fields, and *)
(* the memories hold bytes, whatever the program and the monitor do.       *)
THEOREM MemSysTypes == Spec => []TypeOK
BY MachineInvariant, MachineGives, PTL

(* io_read and io_write come before the caches on every path of memsys.c   *)
(* (ms_read, ms_write): no line over the device page is ever filled, by an *)
(* access to a neighbouring address either.                                *)
THEOREM DevicePageUncached == Spec => []DevicesUncached
BY MachineInvariant, MachineGives, PTL

(* ms_set_mode and the cache switch leave nothing behind in a cache that   *)
(* ms_cache_for no longer reaches.                                         *)
THEOREM UnroutedCachesEmpty == Spec => []IdleCachesEmpty
BY MachineInvariant, MachineGives, PTL

(* Stores go through cd or cu, and cache_snoop only drops: invalidating    *)
(* the instruction cache never loses a store.                              *)
THEOREM CodeCacheClean == Spec => []CodeNeverDirty
BY MachineInvariant, MachineGives, PTL
=============================================================================
