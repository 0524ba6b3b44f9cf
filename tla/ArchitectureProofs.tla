------------------------- MODULE ArchitectureProofs -------------------------
(***************************************************************************)
(* The machine of MemSys, used with care, is the machine of Architecture:  *)
(* the program sees the model it was promised, whatever the geometries,    *)
(* the policies and the order of accesses and commands.                    *)
(*                                                                         *)
(* Two kinds of cache are told apart.  A trusted cache is the only one     *)
(* with stores in front of its memory: its clean lines agree with memory,  *)
(* it is Sound, and the lemmas of CacheOpsProofs apply.  The instruction   *)
(* cache of the modified machine is merely Placed and Spotless: what it    *)
(* returns may be old, and an access changes it only to what memory holds. *)
(***************************************************************************)
EXTENDS MemSysProofs

(* A cache placed over a memory its clean lines agree with is sound. *)
LEMMA PlacedSound ==
  ASSUME NEW c, NEW m, Placed(c), IsMemory(m), Agrees(c, m)
  PROVE  Sound(c, m)
BY DEF Placed, OfRAM, RAM, InPlace, Sound

(* What a read returns is a byte. *)
LEMMA VisibleType ==
  ASSUME NEW c, NEW m, Placed(c), IsMemory(m), NEW x \in Addr
  PROVE  Visible(c, m, x) \in Byte
<1>1. IsCache(c) /\ NoTwin(c)
  BY DEF Placed
<1>2. CASE Hit(c, x)
  <2>1. PICK w \in Ways(c) : Matches(c, x, w)
    BY <1>2 DEF Hit
  <2>2. Visible(c, m, x) = ByteIn(c, x, w)
    BY <1>1, <2>1, VisibleByte
  <2>3. /\ <<SetOf(c, x), w>> \in Slots(c)
        /\ OffOf(c, x) \in 0 .. c.line_bytes - 1
    BY <1>1, SlotOf, DecodeTypes
  <2>4. c.line[<<SetOf(c, x), w>>].data \in [0 .. c.line_bytes - 1 -> Byte]
    BY <1>1, <2>3, LineTypes
  <2> QED
    BY <2>2, <2>3, <2>4 DEF ByteIn
<1>3. CASE ~Hit(c, x)
  BY <1>3 DEF Visible, IsMemory
<1> QED
  BY <1>2, <1>3

(* Memory changed behind a cache shows where the cache has no line. *)
LEMMA VisibleOver ==
  ASSUME NEW c, NEW m, NEW n, NEW x
  PROVE  /\ Visible(c, n, x) \in {Visible(c, m, x), n[x]}
         /\ n[x] = m[x] => Visible(c, n, x) = Visible(c, m, x)
BY DEF Visible

(* An empty cache shows memory. *)
LEMMA VacantShows ==
  ASSUME NEW c, NEW m, Placed(c), IsMemory(m), Vacant(c)
  PROVE  Sound(c, m) /\ \A x \in Addr : Visible(c, m, x) = m[x]
BY EmptyCache DEF Placed, Vacant

(* So does a sound cache without dirty lines. *)
LEMMA SpotlessShows ==
  ASSUME NEW c, NEW m, Sound(c, m), Spotless(c), NEW x \in Addr
  PROVE  Visible(c, m, x) = m[x]
<1>1. \A w \in Ways(c) : Matches(c, x, w) => ~c.line[<<SetOf(c, x), w>>].dirty
  BY SlotOf DEF Sound, Spotless, Matches
<1> QED
  BY <1>1, VisibleValue

(* A cache without dirty lines leaves memory as it is when it is emptied.  *)
LEMMA SpotlessOut ==
  ASSUME NEW c, NEW m, IsMemory(m), Spotless(c)
  PROVE  /\ AllWrittenBack(c, m) = m
         /\ \A p \in Slots(c) : WrittenBack(c, m, c.line[p]) = m
<1>1. \A x : {p \in Slots(c) : /\ c.line[p].valid /\ c.line[p].dirty
                               /\ x \in Extent(c, c.line[p])} = {}
  BY DEF Spotless
<1>2. AllWrittenBack(c, m) = [x \in Addr |-> m[x]]
  BY <1>1 DEF AllWrittenBack
<1> QED
  BY <1>2 DEF IsMemory, Spotless, WrittenBack

-----------------------------------------------------------------------------
(* What the operations do to a cache that may be out of date. *)

(* Where one line changed, a read returns what it did, memory's byte, or   *)
(* the byte of the new line.                                               *)
LEMMA OneLineShows ==
  ASSUME NEW c, NEW d, NEW m, IsCache(c), NoTwin(c), IsCache(d), NoTwin(d),
         SameGeometry(c, d), NEW p \in Slots(c),
         \A q \in Slots(c) : q # p => d.line[q] = c.line[q],
         NEW x \in Addr
  PROVE  \/ Visible(d, m, x) \in {Visible(c, m, x), m[x]}
         \/ /\ d.line[p].valid
            /\ p[1] = SetOf(c, x) /\ d.line[p].tag = TagOf(c, x)
            /\ Visible(d, m, x) = d.line[p].data[OffOf(c, x)]
<1>1. /\ Ways(d) = Ways(c) /\ SetOf(d, x) = SetOf(c, x)
      /\ TagOf(d, x) = TagOf(c, x) /\ OffOf(d, x) = OffOf(c, x)
  BY SameDecode
<1>2. CASE ~Hit(d, x)
  BY <1>2 DEF Visible
<1>3. CASE Hit(d, x)
  <2>1. PICK w \in Ways(c) : Matches(d, x, w)
    BY <1>1, <1>3 DEF Hit
  <2>2. Visible(d, m, x) = ByteIn(d, x, w)
    BY <1>1, <2>1, VisibleByte
  <2>3. CASE <<SetOf(c, x), w>> = p
    <3>1. /\ d.line[p].valid /\ d.line[p].tag = TagOf(c, x)
          /\ Visible(d, m, x) = d.line[p].data[OffOf(c, x)]
      BY <1>1, <2>1, <2>2, <2>3 DEF Matches, ByteIn
    <3>2. p[1] = SetOf(c, x)
      BY <2>3
    <3> QED
      BY <3>1, <3>2
  <2>4. CASE <<SetOf(c, x), w>> # p
    <3>1. Matches(c, x, w) /\ ByteIn(d, x, w) = ByteIn(c, x, w)
      BY <2>1, <2>4, OtherLine
    <3>2. Visible(c, m, x) = ByteIn(c, x, w)
      BY <3>1, VisibleByte
    <3> QED
      BY <2>2, <3>1, <3>2
  <2> QED
    BY <2>3, <2>4
<1> QED
  BY <1>2, <1>3

(* A touch shows what was shown. *)
LEMMA TouchShows ==
  ASSUME NEW c, NEW m, IsCache(c), NoTwin(c), NEW p \in Slots(c), NEW x \in Addr
  PROVE  Visible(Touched(c, p), m, x) = Visible(c, m, x)
<1> DEFINE d == Touched(c, p)
           l == [c.line[p] EXCEPT !.stamp = Tick(c)]
           e == WithLine(c, p, l, Tick(c))
<1>1. c.line[p] \in CacheLine(c.line_bytes) /\ Tick(c) \in Stamp
  BY LineTypes, TickType
<1>2. /\ l \in CacheLine(c.line_bytes)
      /\ l.valid = c.line[p].valid
      /\ l.tag = c.line[p].tag /\ l.data = c.line[p].data
  BY <1>1 DEF CacheLine
<1>3. c.repl = "lru" => d = e
  BY <1>1 DEF Touched, WithLine, IsCache
<1>4. c.repl # "lru" => d = c
  BY DEF Touched
<1> HIDE DEF l
<1>5. /\ IsCache(e) /\ SameGeometry(c, e) /\ e.line[p] = l
      /\ \A q \in Slots(c) : q # p => e.line[q] = c.line[q]
  BY <1>1, <1>2, OneLine
<1> HIDE DEF d, e
<1>6. SameGeometry(c, d)
  BY <1>3, <1>4, <1>5 DEF SameGeometry
<1>7. \A q \in Slots(c) : /\ d.line[q].valid = c.line[q].valid
                          /\ d.line[q].tag = c.line[q].tag
                          /\ d.line[q].data = c.line[q].data
  BY <1>2, <1>3, <1>4, <1>5
<1>8. /\ Ways(d) = Ways(c) /\ SetOf(d, x) = SetOf(c, x)
      /\ TagOf(d, x) = TagOf(c, x) /\ OffOf(d, x) = OffOf(c, x)
  BY <1>6, SameDecode
<1>9. \A w \in Ways(c) : /\ Matches(d, x, w) <=> Matches(c, x, w)
                         /\ ByteIn(d, x, w) = ByteIn(c, x, w)
  BY <1>7, <1>8, SlotOf DEF Matches, ByteIn
<1>10. Hit(d, x) <=> Hit(c, x)
  BY <1>8, <1>9 DEF Hit
<1>11. HitWay(d, x) = HitWay(c, x)
  BY <1>8, <1>9 DEF HitWay
<1>12. Hit(c, x) => HitWay(c, x) \in Ways(c)
  BY VisibleByte DEF Hit
<1>13. Visible(d, m, x) = Visible(c, m, x)
  BY <1>9, <1>10, <1>11, <1>12 DEF Visible
<1> QED
  BY <1>13 DEF d

(* cache_read of a cache without dirty lines leaves memory alone, and      *)
(* returns what it held or what memory holds.                              *)
LEMMA AccessShows ==
  ASSUME NEW c, NEW m, Placed(c), IsMemory(m), Spotless(c), NEW a \in RAM,
         NEW w \in WaysFor(c, a)
  PROVE  LET r == Accessed(c, m, a, w)
         IN  /\ r.m = m
             /\ \A x \in Addr : Visible(r.c, m, x) \in {Visible(c, m, x), m[x]}
             /\ ByteIn(r.c, a, w) = Visible(r.c, m, a)
<1> DEFINE r == Accessed(c, m, a, w)
           p == <<SetOf(c, a), w>>
           d == WithLine(c, p, Filled(c, m, a), Tick(c))
<1>0. a \in Addr /\ IsCache(c) /\ NoTwin(c)
  BY DEF Placed, RAM
<1>1. w \in Ways(c) /\ p \in Slots(c)
  BY <1>0, WayIsWay, SlotOf
<1>2. /\ Placed(r.c) /\ SameGeometry(c, r.c) /\ Matches(r.c, a, w)
  BY AccessPlaced
<1>3. ByteIn(r.c, a, w) = Visible(r.c, m, a)
  <2> HIDE DEF r
  <2>1. IsCache(r.c) /\ NoTwin(r.c) /\ w \in Ways(r.c)
    BY <1>1, <1>2, SameDecode DEF Placed
  <2> QED
    BY <1>0, <1>2, <2>1, VisibleByte
<1>4. ASSUME Hit(c, a), NEW x \in Addr
      PROVE  r.m = m /\ Visible(r.c, m, x) \in {Visible(c, m, x), m[x]}
  <2> DEFINE t == Touched(c, p)
  <2>1. r.c = t /\ r.m = m
    BY <1>4 DEF Accessed
  <2>2. Visible(t, m, x) = Visible(c, m, x)
    BY <1>0, <1>1, TouchShows
  <2> QED
    BY <2>1, <2>2
<1>5. ASSUME ~Hit(c, a), NEW x \in Addr
      PROVE  r.m = m /\ Visible(r.c, m, x) \in {Visible(c, m, x), m[x]}
  <2>1. WrittenBack(c, m, c.line[p]) = m
    BY <1>1, SpotlessOut
  <2>2. r.c = d /\ r.m = m
    BY <1>5, <2>1 DEF Accessed, WithLine
  <2>3. /\ p \in Slots(c) /\ Filled(c, m, a) \in CacheLine(c.line_bytes)
        /\ Tick(c) \in Stamp
    BY <1>0, <1>1, FilledType, TickType
  <2>4. /\ d.line[p] = Filled(c, m, a)
        /\ \A q \in Slots(c) : q # p => d.line[q] = c.line[q]
    BY <1>0, <2>3, OneLine
  <2>5. IsCache(d) /\ NoTwin(d) /\ SameGeometry(c, d)
    BY <1>2, <2>2 DEF Placed
  <2>6. SUFFICES Visible(d, m, x) \in {Visible(c, m, x), m[x]}
    BY <2>2
  <2> HIDE DEF d, r
  <2>7. \/ Visible(d, m, x) \in {Visible(c, m, x), m[x]}
        \/ /\ p[1] = SetOf(c, x) /\ d.line[p].tag = TagOf(c, x)
           /\ Visible(d, m, x) = d.line[p].data[OffOf(c, x)]
    <3> HIDE DEF p
    <3> QED
      BY <1>0, <1>1, <2>4, <2>5, OneLineShows
  <2>8. ASSUME /\ p[1] = SetOf(c, x) /\ d.line[p].tag = TagOf(c, x)
               /\ Visible(d, m, x) = d.line[p].data[OffOf(c, x)]
        PROVE  Visible(d, m, x) = m[x]
    <3>1. SetOf(c, a) = SetOf(c, x) /\ TagOf(c, a) = TagOf(c, x)
      BY <2>4, <2>8 DEF Filled
    <3>2. BaseOf(c, a) = BaseOf(c, x)
      BY <1>0, <3>1, SameLine
    <3>3. /\ OffOf(c, x) \in 0 .. c.line_bytes - 1
          /\ x = BaseOf(c, x) + OffOf(c, x)
      BY <1>0, DecodeTypes
    <3>4. d.line[p].data[OffOf(c, x)] = m[BaseOf(c, a) + OffOf(c, x)]
      BY <2>4, <3>3 DEF Filled
    <3> QED
      BY <2>8, <3>2, <3>3, <3>4
  <2> QED
    BY <2>7, <2>8
<1> HIDE DEF r
<1> QED
  BY <1>0, <1>3, <1>4, <1>5 DEF r

-----------------------------------------------------------------------------
(* The write policy is a setting: no operation changes it. *)

LEMMA AccessPolicy ==
  ASSUME NEW c, NEW m, IsCache(c), NEW a, NEW w
  PROVE  Accessed(c, m, a, w).c.wpol = c.wpol
<1> DEFINE p == <<SetOf(c, a), w>>
           l == Filled(c, WrittenBack(c, m, c.line[p]), a)
<1>1. CASE Hit(c, a)
  <2>1. Accessed(c, m, a, w).c = Touched(c, p)
    BY <1>1 DEF Accessed
  <2> HIDE DEF p
  <2>2. Touched(c, p).wpol = c.wpol
    BY DEF Touched, IsCache
  <2> QED
    BY <2>1, <2>2
<1>2. CASE ~Hit(c, a)
  <2>1. Accessed(c, m, a, w).c = WithLine(c, p, l, Tick(c))
    BY <1>2 DEF Accessed, WithLine
  <2> HIDE DEF p, l
  <2>2. WithLine(c, p, l, Tick(c)).wpol = c.wpol
    BY DEF WithLine, IsCache
  <2> QED
    BY <2>1, <2>2
<1> QED
  BY <1>1, <1>2

LEMMA StoredPolicy ==
  ASSUME NEW c, NEW m, IsCache(c), NEW a, NEW w, NEW v
  PROVE  Stored(c, m, a, w, v).c.wpol = c.wpol
<1> DEFINE p == <<SetOf(c, a), w>>
           o == OffOf(c, a)
           d == [c EXCEPT !.line[p].data[o] = v]
<1>1. d.wpol = c.wpol /\ [d EXCEPT !.line[p].dirty = TRUE].wpol = c.wpol
  <2> HIDE DEF p, o
  <2> QED
    BY DEF IsCache
<1> QED
  BY <1>1 DEF Stored

LEMMA OutPolicy ==
  ASSUME NEW c, IsCache(c)
  PROVE  /\ AllClean(c).wpol = c.wpol /\ AllFlushed(c).wpol = c.wpol
         /\ \A p, l : [c EXCEPT !.line[p] = l].wpol = c.wpol
BY DEF AllClean, AllFlushed, IsCache

-----------------------------------------------------------------------------
(* cache_write. *)

(* An access marks no line. *)
LEMMA AccessSpotless ==
  ASSUME NEW c, NEW m, IsCache(c), IsMemory(m), NEW a \in Addr, NEW w \in Ways(c),
         Spotless(c)
  PROVE  Spotless(Accessed(c, m, a, w).c)
<1> DEFINE p == <<SetOf(c, a), w>>
           n == WrittenBack(c, m, c.line[p])
           t == [c.line[p] EXCEPT !.stamp = Tick(c)]
<1>1. /\ p \in Slots(c) /\ Tick(c) \in Stamp
      /\ c.line[p] \in CacheLine(c.line_bytes)
  BY SlotOf, LineTypes, TickType
<1>2. IsMemory(n)
  BY <1>1, WrittenBackType
<1>3. /\ t \in CacheLine(c.line_bytes)
      /\ t.valid = c.line[p].valid /\ t.dirty = c.line[p].dirty
  BY <1>1 DEF CacheLine
<1>4. Filled(c, n, a) \in CacheLine(c.line_bytes) /\ ~Filled(c, n, a).dirty
  BY <1>2, FilledType DEF Filled
<1>5. Accessed(c, m, a, w).c \in {WithLine(c, p, t, Tick(c)), c,
                                 WithLine(c, p, Filled(c, n, a), Tick(c))}
  BY <1>1 DEF Accessed, Touched, WithLine, IsCache
<1> HIDE DEF p, n, t
<1>6. ASSUME NEW l \in CacheLine(c.line_bytes), ~(l.valid /\ l.dirty)
      PROVE  Spotless(WithLine(c, p, l, Tick(c)))
  <2>1. /\ SameGeometry(c, WithLine(c, p, l, Tick(c)))
        /\ WithLine(c, p, l, Tick(c)).line[p] = l
        /\ \A q \in Slots(c) : q # p => WithLine(c, p, l, Tick(c)).line[q] = c.line[q]
    BY <1>1, OneLine
  <2> QED
    BY <1>6, <2>1, SameDecode DEF Spotless
<1>7. ~(t.valid /\ t.dirty)
  BY <1>1, <1>3 DEF Spotless
<1> QED
  BY <1>3, <1>4, <1>5, <1>6, <1>7

(* A store of a write-through cache reaches memory, and marks no line. *)
LEMMA ThroughMemory ==
  ASSUME NEW c, NEW m, IsMemory(m), c.wpol = "through",
         NEW a \in Addr, NEW w, NEW v
  PROVE  Stored(c, m, a, w, v).m[a] = v
BY DEF Stored, IsMemory

LEMMA ThroughSpotless ==
  ASSUME NEW c, NEW m, IsCache(c), Spotless(c), c.wpol = "through",
         NEW a \in Addr, NEW w \in Ways(c), NEW v \in Byte
  PROVE  Spotless(Stored(c, m, a, w, v).c)
<1> DEFINE p == <<SetOf(c, a), w>>
           o == OffOf(c, a)
           d == [c EXCEPT !.line[p].data[o] = v]
           l == [c.line[p] EXCEPT !.data[o] = v]
           e == WithLine(c, p, l, c.clock)
<1>1. /\ p \in Slots(c) /\ c.clock \in Stamp
      /\ c.line[p] \in CacheLine(c.line_bytes) /\ o \in 0 .. c.line_bytes - 1
  BY SlotOf, LineTypes, DecodeTypes
<1>2. /\ l \in CacheLine(c.line_bytes) /\ l.valid = c.line[p].valid
      /\ l.dirty = c.line[p].dirty
  BY <1>1 DEF CacheLine
<1>3. Stored(c, m, a, w, v).c = e
  BY <1>1 DEF Stored, WithLine, IsCache
<1> HIDE DEF l, p
<1>4. /\ SameGeometry(c, e) /\ e.line[p] = l
      /\ \A q \in Slots(c) : q # p => e.line[q] = c.line[q]
  BY <1>1, <1>2, OneLine
<1> HIDE DEF e
<1>5. Spotless(e)
  BY <1>2, <1>4, SameDecode DEF Spotless
<1> QED
  BY <1>3, <1>5

(* A store around the cache, to an address no line covers. *)
LEMMA AroundEffect ==
  ASSUME NEW c, NEW m, Sound(c, m), NEW a \in Addr, ~Hit(c, a), NEW v \in Byte,
         NEW n, IsMemory(n), n[a] = v, \A x \in Addr : x # a => n[x] = m[x]
  PROVE  /\ Sound(c, n)
         /\ \A x \in Addr : Visible(c, n, x) = IF x = a THEN v ELSE Visible(c, m, x)
<1>2. ASSUME NEW p \in Slots(c), c.line[p].valid, ~c.line[p].dirty,
             NEW i \in 0 .. c.line_bytes - 1
      PROVE  c.line[p].data[i] = n[c.line[p].base + i]
  <2> DEFINE x == c.line[p].base + i
  <2>1. x \in Addr
    BY <1>2, LineInMemory DEF Sound, InPlace
  <2>2. x \in Extent(c, c.line[p])
    BY <1>2, LineTypes DEF Extent, Sound
  <2>3. p[1] = SetOf(c, x) /\ c.line[p].tag = TagOf(c, x)
    BY <1>2, <2>1, <2>2, Covers DEF Sound
  <2>4. p = <<SetOf(c, x), p[2]>> /\ p[2] \in Ways(c)
    BY <2>3 DEF Slots
  <2>5. Hit(c, x)
    BY <1>2, <2>3, <2>4 DEF Hit, Matches
  <2>6. x # a
    BY <2>5
  <2> QED
    BY <1>2, <2>1, <2>6 DEF Sound, Agrees
<1>3. Sound(c, n)
  BY <1>2 DEF Sound, Agrees
<1>4. \A x \in Addr : Visible(c, n, x) = IF x = a THEN v ELSE Visible(c, m, x)
  BY DEF Visible
<1> QED
  BY <1>3, <1>4

(* A store changes what a read of that one address returns; memory takes   *)
(* it at once or later, and at once where the policy is write-through.     *)
LEMMA WritesEffect ==
  ASSUME NEW c, NEW m, Sound(c, m), NEW a \in Addr, NEW v \in Byte,
         NEW r \in Writes(c, m, a, v)
  PROVE  /\ Sound(r.c, r.m) /\ r.c.wpol = c.wpol
         /\ \A x \in Addr :
              /\ Visible(r.c, r.m, x) = IF x = a THEN v ELSE Visible(c, m, x)
              /\ r.m[x] \in {m[x], Visible(r.c, r.m, x)}
         /\ c.wpol = "through" => r.m[a] = v /\ (Spotless(c) => Spotless(r.c))
<1>0. IsMemory(m) /\ m \in [Addr -> Byte] /\ IsCache(c) /\ NoTwin(c)
  BY DEF Sound, IsMemory
<1>1. CASE ~Hit(c, a) /\ ~c.write_alloc
  <2> DEFINE n == [m EXCEPT ![a] = v]
  <2>1. r = [c |-> c, m |-> n]
    BY <1>1 DEF Writes
  <2>2. IsMemory(n) /\ n[a] = v /\ \A x \in Addr : x # a => n[x] = m[x]
    BY <1>0 DEF IsMemory
  <2> HIDE DEF n
  <2>3. /\ Sound(c, n)
        /\ \A x \in Addr : Visible(c, n, x) = IF x = a THEN v ELSE Visible(c, m, x)
    BY <1>1, <2>2, AroundEffect
  <2>4. r.c = c /\ r.m = n
    BY <2>1
  <2> QED
    BY <2>2, <2>3, <2>4
<1>2. CASE Hit(c, a) \/ c.write_alloc
  <2>1. PICK w \in WaysFor(c, a) :
          r = LET q == Accessed(c, m, a, w) IN Stored(q.c, q.m, a, w, v)
    BY <1>2 DEF Writes
  <2> DEFINE q == Accessed(c, m, a, w)
             s == Stored(q.c, q.m, a, w, v)
  <2>2. w \in Ways(c)
    BY <1>0, WayIsWay
  <2>3. /\ Settled(c, m, q.c, q.m) /\ SameGeometry(c, q.c)
        /\ Matches(q.c, a, w) /\ q.m[a] = m[a]
    BY <2>2, AccessSettles
  <2>4. q.c.wpol = c.wpol
    BY <1>0, AccessPolicy
  <2>5. r = s
    BY <2>1
  <2>6. Spotless(c) => Spotless(q.c)
    BY <1>0, <2>2, AccessSpotless DEF Sound
  <2> HIDE DEF q
  <2>7. Sound(q.c, q.m) /\ IsCache(q.c) /\ w \in Ways(q.c)
    BY <2>2, <2>3, SameDecode DEF Settled, Sound
  <2>8. /\ Sound(s.c, s.m)
        /\ \A x \in Addr :
             /\ Visible(s.c, s.m, x) = IF x = a THEN v ELSE Visible(q.c, q.m, x)
             /\ s.m[x] = q.m[x] \/ s.m[x] = Visible(s.c, s.m, x)
    BY <2>3, <2>7, StoreEffect
  <2>9. s.c.wpol = q.c.wpol
    BY <2>7, StoredPolicy
  <2>10. c.wpol = "through" => s.m[a] = v /\ (Spotless(q.c) => Spotless(s.c))
    <3>1. IsMemory(q.m)
      BY <2>7 DEF Sound
    <3> QED
      BY <2>4, <2>7, <3>1, ThroughMemory, ThroughSpotless
  <2> HIDE DEF s
  <2>11. ASSUME NEW x \in Addr
         PROVE  /\ Visible(s.c, s.m, x) = IF x = a THEN v ELSE Visible(c, m, x)
                /\ s.m[x] \in {m[x], Visible(s.c, s.m, x)}
    <3>1. /\ Visible(q.c, q.m, x) = Visible(c, m, x)
          /\ q.m[x] = m[x] \/ q.m[x] = Visible(c, m, x)
      BY <2>3 DEF Settled
    <3> QED
      BY <2>3, <2>8, <3>1
  <2> QED
    BY <2>4, <2>5, <2>6, <2>8, <2>9, <2>10, <2>11
<1> QED
  BY <1>1, <1>2

-----------------------------------------------------------------------------
(* cache_clean_addr and cache_snoop. *)

(* A hit is found in one slot only. *)
LEMMA HitIsOne ==
  ASSUME NEW c, IsCache(c), NoTwin(c), NEW a \in Addr, NEW w \in Ways(c),
         Matches(c, a, w)
  PROVE  HitWay(c, a) = w
BY VisibleByte

(* Cleaning an address brings memory up to what a read of it returns.      *)
LEMMA CleanedEffect ==
  ASSUME NEW r, Sound(r.c, r.m), NEW a \in Addr
  PROVE  LET d == CleanedAt(r, a)
         IN  /\ Settled(r.c, r.m, d.c, d.m) /\ d.m[a] = Visible(r.c, r.m, a)
             /\ d.c.wpol = r.c.wpol /\ (Spotless(r.c) => Spotless(d.c))
<1> DEFINE c == r.c
           m == r.m
           p == <<SetOf(c, a), HitWay(c, a)>>
           d == [c EXCEPT !.line[p] = Cleaned(c.line[p])]
           n == WrittenBack(c, m, c.line[p])
<1>0. Sound(c, m) /\ IsCache(c) /\ NoTwin(c) /\ IsMemory(m)
  BY DEF Sound
<1>1. CASE ~Hit(c, a)
  <2>1. Settled(r.c, r.m, r.c, r.m)
    BY DEF Settled
  <2>2. CleanedAt(r, a) = r /\ m[a] = Visible(c, m, a)
    BY <1>1 DEF CleanedAt, Visible
  <2> QED
    BY <2>1, <2>2
<1>2. CASE Hit(c, a)
  <2>1. HitWay(c, a) \in Ways(c)
    BY <1>0, <1>2, HitIsOne DEF Hit
  <2>2. p \in Slots(c)
    BY <1>0, <2>1, SlotOf
  <2>3. CleanedAt(r, a) = [c |-> d, m |-> n]
    BY <1>0, <1>2 DEF CleanedAt, IsCache
  <2>5. d.wpol = c.wpol
    BY <1>0, OutPolicy
  <2>11. /\ d = [c EXCEPT !.line[p] = Cleaned(c.line[p])]
         /\ n = WrittenBack(c, m, c.line[p])
    OBVIOUS
  <2> HIDE DEF c, m, p, d, n
  <2>4. /\ Settled(c, m, d, n) /\ SameGeometry(c, d)
        /\ d.line[p] = Cleaned(c.line[p])
        /\ \A q \in Slots(c) : q # p => d.line[q] = c.line[q]
    <3>1. Settled(c, m, d, n)
      BY <1>0, <2>2, <2>11, WriteBackSettles
    <3>2. SameGeometry(c, d)
      BY <1>0, <2>2, <2>11, WriteBackSettles
    <3>3. d.line[p] = Cleaned(c.line[p])
      BY <1>0, <2>2, <2>11, WriteBackSettles
    <3>4. \A q \in Slots(c) : q # p => d.line[q] = c.line[q]
      BY <1>0, <2>2, <2>11, WriteBackSettles
    <3> QED
      BY <3>1, <3>2, <3>3, <3>4
  <2>6. d.line[p].valid => ~d.line[p].dirty
    <3>1. c.line[p] \in CacheLine(c.line_bytes)
      BY <1>0, <2>2, LineTypes
    <3> QED
      BY <2>4, <3>1 DEF Cleaned, CacheLine
  <2>7. \A w \in Ways(d) : Matches(d, a, w) => ~d.line[<<SetOf(d, a), w>>].dirty
    <3>1. TAKE w \in Ways(d)
    <3>2. HAVE Matches(d, a, w)
    <3>3. w \in Ways(c) /\ SetOf(d, a) = SetOf(c, a) /\ TagOf(d, a) = TagOf(c, a)
      BY <2>4, SameDecode
    <3>4. CASE <<SetOf(c, a), w>> = p
      BY <2>6, <3>2, <3>3, <3>4 DEF Matches
    <3>5. CASE <<SetOf(c, a), w>> # p
      <4>1. d.line[<<SetOf(c, a), w>>] = c.line[<<SetOf(c, a), w>>]
        BY <1>0, <2>4, <3>3, <3>5, SlotOf
      <4>2. Matches(c, a, w)
        BY <3>2, <3>3, <4>1 DEF Matches
      <4> QED
        BY <1>0, <3>3, <3>5, <4>2, HitIsOne DEF p
    <3> QED
      BY <3>4, <3>5
  <2>8. Visible(d, n, a) = n[a] /\ Visible(d, n, a) = Visible(c, m, a)
    BY <2>4, <2>7, VisibleValue DEF Settled
  <2>9. Spotless(c) => Spotless(d)
    BY <2>4, <2>6, SameDecode DEF Spotless
  <2>10. CleanedAt(r, a).c = d /\ CleanedAt(r, a).m = n
    BY <2>3
  <2> QED
    BY <2>4, <2>5, <2>8, <2>9, <2>10 DEF c, m
<1> QED
  BY <1>1, <1>2

(* Snooping a cache without dirty lines drops the line of the address, and *)
(* leaves memory alone.                                                    *)
LEMMA SnoopedEffect ==
  ASSUME NEW r, Placed(r.c), Spotless(r.c), IsMemory(r.m), NEW a \in Addr
  PROVE  LET i == SnoopedAt(r, a)
         IN  /\ i.m = r.m /\ ~Hit(i.c, a)
             /\ \A x \in Addr :
                  Visible(i.c, r.m, x) \in {Visible(r.c, r.m, x), r.m[x]}
<1> DEFINE c == r.c
           m == r.m
           p == <<SetOf(c, a), HitWay(c, a)>>
           l == [Cleaned(c.line[p]) EXCEPT !.valid = FALSE]
           d == [c EXCEPT !.line[p] = l]
<1>0. IsCache(c) /\ NoTwin(c)
  BY DEF Placed
<1>1. CASE ~Hit(c, a)
  BY <1>1 DEF SnoopedAt
<1>2. CASE Hit(c, a)
  <2>1. p \in Slots(c)
    BY <1>2, HitSlot
  <2>2. WrittenBack(c, m, c.line[p]) = m
    BY <2>1, SpotlessOut
  <2>3. SnoopedAt(r, a) = [c |-> d, m |-> m]
    BY <1>0, <1>2, <2>2 DEF SnoopedAt, IsCache
  <2>4. ~l.valid
    <3>1. c.line[p] \in CacheLine(c.line_bytes)
      BY <1>0, <2>1, LineTypes
    <3> QED
      BY <3>1 DEF Cleaned, CacheLine
  <2>5. l \in {Cleaned(c.line[p]), [Cleaned(c.line[p]) EXCEPT !.valid = FALSE]}
    OBVIOUS
  <2>11. Placed(c) /\ IsMemory(m)
    OBVIOUS
  <2>12. d = [c EXCEPT !.line[p] = l]
    OBVIOUS
  <2> HIDE DEF c, m, l, p, d
  <2>6. /\ Placed(d) /\ SameGeometry(c, d) /\ d.line[p] = l
        /\ \A q \in Slots(c) : q # p => d.line[q] = c.line[q]
    <3>1. Placed(d)
      BY <2>1, <2>5, <2>11, <2>12, OutPlaced
    <3>2. SameGeometry(c, d)
      BY <2>1, <2>5, <2>11, <2>12, OutPlaced
    <3>3. d.line[p] = l
      BY <1>0, <2>1, <2>12 DEF IsCache
    <3>4. \A q \in Slots(c) : q # p => d.line[q] = c.line[q]
      BY <2>1, <2>5, <2>11, <2>12, OutPlaced
    <3> QED
      BY <3>1, <3>2, <3>3, <3>4
  <2>7. ASSUME NEW w \in Ways(c) PROVE ~Matches(d, a, w)
    <3>1. SetOf(d, a) = SetOf(c, a) /\ TagOf(d, a) = TagOf(c, a)
      BY <2>6, SameDecode
    <3>2. CASE <<SetOf(c, a), w>> = p
      BY <2>4, <2>6, <3>1, <3>2 DEF Matches
    <3>3. CASE <<SetOf(c, a), w>> # p
      <4>1. d.line[<<SetOf(c, a), w>>] = c.line[<<SetOf(c, a), w>>]
        BY <1>0, <2>6, <3>3, SlotOf
      <4>2. ~Matches(c, a, w)
        BY <1>0, <3>3, HitIsOne DEF p
      <4> QED
        BY <3>1, <4>1, <4>2 DEF Matches
    <3> QED
      BY <3>2, <3>3
  <2>8. ~Hit(d, a)
    BY <2>6, <2>7, SameDecode DEF Hit
  <2>9. ASSUME NEW x \in Addr PROVE Visible(d, m, x) \in {Visible(c, m, x), m[x]}
    <3>1. IsCache(d) /\ NoTwin(d)
      BY <2>6 DEF Placed
    <3> QED
      BY <1>0, <2>1, <2>4, <2>6, <3>1, OneLineShows
  <2>10. SnoopedAt(r, a).c = d /\ SnoopedAt(r, a).m = m
    BY <2>3
  <2> QED
    BY <2>8, <2>9, <2>10 DEF c, m
<1> QED
  BY <1>1, <1>2

-----------------------------------------------------------------------------
(* The machine. *)

(* the caches whose clean lines agree with memory *)
Trusted ==
  IF mode = "vn" THEN {"u"} ELSE IF mode = "harvard" THEN {"i", "d"} ELSE {"d"}
CopiesAgree == \A x \in Trusted : Agrees(cache[x], mem[MemBehind(x)])

(* What every step of a machine used with care keeps. *)
CareInv == MachineInv /\ CopiesAgree

(* what a read through a cache returns *)
View(x, a) == Visible(cache[x], mem[MemBehind(x)], a)

(* A trusted cache is sound over its memory. *)
LEMMA TrustedSound ==
  ASSUME CareInv, NEW x \in Trusted
  PROVE  /\ x \in Caches /\ MemBehind(x) \in {"I", "D"}
         /\ Placed(cache[x]) /\ IsMemory(mem[MemBehind(x)])
         /\ Sound(cache[x], mem[MemBehind(x)])
<1>1. x \in Caches /\ MemBehind(x) \in {"I", "D"}
  BY DEF CareInv, MachineInv, SettingsKept, Trusted, Caches, MemBehind, DataMem
<1>2. Placed(cache[x]) /\ IsMemory(mem[MemBehind(x)])
  BY <1>1 DEF CareInv, MachineInv, CachesKept, Memories, IsMemory
<1>3. Agrees(cache[x], mem[MemBehind(x)])
  BY DEF CareInv, CopiesAgree
<1> QED
  BY <1>1, <1>2, <1>3, PlacedSound

(* The contents of the spaces, and the values a fetch may see.             *)
LEMMA SpaceIs ==
  ASSUME MachineInv, NEW a \in RAM
  PROVE  /\ mode = "vn" =>
              /\ Space["I"][a] = View("u", a) /\ Space["D"][a] = mem["D"][a]
              /\ Seen[a] = {View("u", a)}
         /\ mode = "harvard" =>
              /\ Space["I"][a] = View("i", a) /\ Space["D"][a] = View("d", a)
              /\ Seen[a] = {View("i", a)}
         /\ mode = "modified" =>
              /\ Space["I"][a] = View("d", a) /\ Space["D"][a] = mem["D"][a]
              /\ Seen[a] = {View("i", a), mem["I"][a], View("d", a)}
BY DEF Space, Seen, View, MemBehind, DataMem, Fetched, Current

(* They are bytes. *)
SpaceTypes ==
  /\ Space \in [{"I", "D"} -> [RAM -> Byte]]
  /\ Seen \in [RAM -> SUBSET Byte] /\ \A a \in RAM : Seen[a] # {}

LEMMA TypedSpaces == MachineInv => SpaceTypes
<1> SUFFICES ASSUME MachineInv PROVE SpaceTypes
  OBVIOUS
<1>1. ASSUME NEW x \in Caches, NEW s \in {"I", "D"}, NEW a \in RAM
      PROVE  Visible(cache[x], mem[s], a) \in Byte
  BY VisibleType DEF MachineInv, CachesKept, Memories, IsMemory, RAM
<1>2. ASSUME NEW s \in {"I", "D"}, NEW a \in RAM PROVE mem[s][a] \in Byte
  BY DEF MachineInv, CachesKept, Memories, RAM
<1>3. Space \in [{"I", "D"} -> [RAM -> Byte]]
  BY <1>1, <1>2 DEF Space, Caches
<1>4. Seen \in [RAM -> SUBSET Byte] /\ \A a \in RAM : Seen[a] # {}
  BY <1>1, <1>2 DEF Seen, Fetched, Current, Caches
<1> QED
  BY <1>3, <1>4 DEF SpaceTypes

(* Two spaces are the same if they hold the same bytes. *)
LEMMA SameSpace ==
  ASSUME NEW s, NEW t, s \in [{"I", "D"} -> [RAM -> Byte]],
         t \in [{"I", "D"} -> [RAM -> Byte]],
         \A a \in RAM : s["I"][a] = t["I"][a] /\ s["D"][a] = t["D"][a]
  PROVE  s = t
<1>1. s["I"] = t["I"] /\ s["D"] = t["D"]
  OBVIOUS
<1> QED
  BY <1>1

(* With all caches empty, the spaces are the memories. *)
AllEmpty == \A x \in Caches : Vacant(cache[x])
Bare ==
  /\ \A a \in RAM : /\ Space["I"][a] = mem["I"][a] /\ Space["D"][a] = mem["D"][a]
                    /\ Seen[a] = {mem["I"][a]}
  /\ Seen = Model!Coherent(Space)
  /\ Pushed /\ CopiesAgree

LEMMA EmptyIsBare == MachineInv /\ AllEmpty => Bare
<1> SUFFICES ASSUME MachineInv, AllEmpty PROVE Bare
  OBVIOUS
<1>1. ASSUME NEW x \in Caches, NEW s \in {"I", "D"}
      PROVE  /\ Agrees(cache[x], mem[s])
             /\ \A a \in RAM : Visible(cache[x], mem[s], a) = mem[s][a]
  <2>1. Sound(cache[x], mem[s])
        /\ \A a \in Addr : Visible(cache[x], mem[s], a) = mem[s][a]
    BY VacantShows DEF MachineInv, CachesKept, Memories, IsMemory, AllEmpty
  <2> QED
    BY <2>1 DEF Sound, RAM
<1>2. ASSUME NEW a \in RAM
      PROVE  /\ Space["I"][a] = mem["I"][a] /\ Space["D"][a] = mem["D"][a]
             /\ Seen[a] = {mem["I"][a]}
  BY <1>1 DEF Space, Seen, Fetched, Current, Caches
<1>3. Seen = Model!Coherent(Space)
  BY <1>2 DEF Seen, Model!Coherent
<1>4. Pushed
  BY DEF Pushed, HoldsDirty, AllEmpty, Vacant, Caches
<1>5. CopiesAgree
  BY <1>1 DEF CopiesAgree, Trusted, Caches, MemBehind, DataMem
<1> QED
  BY <1>2, <1>3, <1>4, <1>5 DEF Bare

-----------------------------------------------------------------------------
(* Steps that store nothing. *)

(* Every trusted cache still returns what it did, and what the modified    *)
(* machine's instruction cache and memory now hold, they held or were to   *)
(* hold.                                                                   *)
Undisturbed ==
  /\ mode' = mode
  /\ \A x \in Trusted, a \in RAM : View(x, a)' = View(x, a)
  /\ mode # "harvard" => \A a \in RAM : mem'["D"][a] = mem["D"][a]
  /\ mode = "modified" =>
       \A a \in RAM :
         /\ View("i", a)' \in {View("i", a), mem["I"][a], mem'["I"][a]}
         /\ mem'["I"][a] \in {mem["I"][a], View("d", a)}

(* The program sees no new value, and misses none that was there. *)
Quiet ==
  /\ Space' = Space
  /\ Seen' \in [RAM -> SUBSET Byte]
  /\ \A a \in RAM : Seen'[a] \subseteq Seen[a] /\ Seen'[a] # {}

LEMMA UndisturbedIsQuiet ==
  ASSUME MachineInv, MachineInv', Undisturbed
  PROVE  Quiet
<1>1. SpaceTypes /\ SpaceTypes'
  BY TypedSpaces, PTL
<1>2. ASSUME NEW a \in RAM
      PROVE  /\ mode' = "vn" =>
                  /\ Space'["I"][a] = View("u", a)' /\ Space'["D"][a] = mem'["D"][a]
                  /\ Seen'[a] = {View("u", a)'}
             /\ mode' = "harvard" =>
                  /\ Space'["I"][a] = View("i", a)' /\ Space'["D"][a] = View("d", a)'
                  /\ Seen'[a] = {View("i", a)'}
             /\ mode' = "modified" =>
                  /\ Space'["I"][a] = View("d", a)' /\ Space'["D"][a] = mem'["D"][a]
                  /\ Seen'[a] = {View("i", a)', mem'["I"][a], View("d", a)'}
  BY DEF Space, Seen, View, MemBehind, DataMem, Fetched, Current
<1>3. mode' = mode /\ mode \in {"vn", "harvard", "modified"}
  BY DEF Undisturbed, MachineInv, SettingsKept
<1>4. ASSUME NEW a \in RAM
      PROVE  /\ Space'["I"][a] = Space["I"][a] /\ Space'["D"][a] = Space["D"][a]
             /\ Seen'[a] \subseteq Seen[a]
  <2>1. CASE mode = "vn"
    <3>1. View("u", a)' = View("u", a) /\ mem'["D"][a] = mem["D"][a]
      BY <2>1 DEF Undisturbed, Trusted
    <3> QED
      BY <1>2, <1>3, <2>1, <3>1, SpaceIs
  <2>2. CASE mode = "harvard"
    <3>1. View("i", a)' = View("i", a) /\ View("d", a)' = View("d", a)
      BY <2>2 DEF Undisturbed, Trusted
    <3> QED
      BY <1>2, <1>3, <2>2, <3>1, SpaceIs
  <2>3. CASE mode = "modified"
    <3>1. /\ View("d", a)' = View("d", a) /\ mem'["D"][a] = mem["D"][a]
          /\ View("i", a)' \in {View("i", a), mem["I"][a], mem'["I"][a]}
          /\ mem'["I"][a] \in {mem["I"][a], View("d", a)}
      BY <2>3 DEF Undisturbed, Trusted
    <3> QED
      BY <1>2, <1>3, <2>3, <3>1, SpaceIs
  <2> QED
    BY <1>3, <2>1, <2>2, <2>3
<1>5. Space' = Space
  BY <1>1, <1>4, SameSpace DEF SpaceTypes
<1> QED
  BY <1>1, <1>4, <1>5 DEF Quiet, SpaceTypes

(* One trusted cache and its memory settle, the others stay. *)
LEMMA SettledUpdate ==
  ASSUME CareInv, NEW x \in Trusted, NEW r,
         Settled(cache[x], mem[MemBehind(x)], r.c, r.m),
         Update(x, r), mode' = mode
  PROVE  Undisturbed /\ CopiesAgree'
<1>1. /\ x \in Caches /\ MemBehind(x) \in {"I", "D"} /\ mem \in Memories
      /\ DOMAIN cache = Caches /\ Sound(r.c, r.m)
  BY TrustedSound DEF CareInv, MachineInv, CachesKept, Settled
<1>2. /\ cache'[x] = r.c /\ mem'[MemBehind(x)] = r.m
      /\ \A y \in Caches : y # x => cache'[y] = cache[y]
      /\ \A s \in {"I", "D"} : s # MemBehind(x) => mem'[s] = mem[s]
  BY <1>1 DEF Update, Memories
<1>3. /\ Trusted' = Trusted
      /\ \A y \in Caches : MemBehind(y)' = MemBehind(y)
  BY DEF Trusted, MemBehind, DataMem
<1>4. \A y \in Trusted : y # x => /\ y \in Caches /\ MemBehind(y) \in {"I", "D"}
                                 /\ MemBehind(y) # MemBehind(x)
  BY DEF Trusted, MemBehind, DataMem, Caches
<1>5. ASSUME NEW y \in Trusted, NEW a \in RAM PROVE View(y, a)' = View(y, a)
  <2>1. y \in Caches /\ View(y, a)' = Visible(cache'[y], mem'[MemBehind(y)], a)
    BY <1>3, TrustedSound DEF View
  <2>2. CASE y = x
    <3>1. Visible(r.c, r.m, a) = Visible(cache[x], mem[MemBehind(x)], a)
      BY DEF Settled, RAM
    <3> QED
      BY <1>2, <2>1, <2>2, <3>1 DEF View
  <2>3. CASE y # x
    BY <1>2, <1>4, <2>1, <2>3 DEF View
  <2> QED
    BY <2>2, <2>3
<1>6. mode # "harvard" => mem'["D"] = mem["D"]
  BY <1>1, <1>2 DEF MemBehind, DataMem
<1>7. ASSUME mode = "modified", NEW a \in RAM
      PROVE  /\ View("i", a)' \in {View("i", a), mem["I"][a], mem'["I"][a]}
             /\ mem'["I"][a] \in {mem["I"][a], View("d", a)}
  <2>1. x = "d" /\ MemBehind(x) = "I" /\ MemBehind("i") = "I" /\ MemBehind("i")' = "I"
    BY <1>7 DEF Trusted, MemBehind, DataMem
  <2>2. cache'["i"] = cache["i"]
    BY <1>2, <2>1 DEF Caches
  <2>3. r.m[a] \in {mem["I"][a], View("d", a)}
    BY <2>1 DEF Settled, RAM, View
  <2> QED
    BY <1>2, <2>1, <2>2, <2>3, VisibleOver DEF View
<1>8. Undisturbed
  BY <1>5, <1>6, <1>7 DEF Undisturbed
<1>9. ASSUME NEW y \in Trusted PROVE Agrees(cache'[y], mem'[MemBehind(y)])
  <2>1. CASE y = x
    BY <1>1, <1>2, <2>1 DEF Sound
  <2>2. CASE y # x
    BY <1>2, <1>4, <2>2 DEF CareInv, CopiesAgree
  <2> QED
    BY <2>1, <2>2
<1>10. CopiesAgree'
  <2>1. \A y \in Trusted : y \in Caches
    BY TrustedSound
  <2> QED
    BY <1>3, <1>9, <2>1 DEF CopiesAgree
<1> QED
  BY <1>8, <1>10

(* The instruction cache of the modified machine changes to what memory    *)
(* holds.                                                                  *)
LEMMA FetchedUpdate ==
  ASSUME CareInv, mode = "modified", NEW k,
         \A a \in RAM : Visible(k, mem["I"], a) \in {View("i", a), mem["I"][a]},
         cache' = [cache EXCEPT !["i"] = k], mem' = mem, mode' = mode
  PROVE  Undisturbed /\ CopiesAgree'
<1>1. /\ DOMAIN cache = Caches /\ Trusted = {"d"} /\ Trusted' = {"d"}
      /\ \A y \in Caches : MemBehind(y)' = "I" /\ MemBehind(y) = "I"
  BY DEF CareInv, MachineInv, CachesKept, Trusted, MemBehind, DataMem
<1>2. cache'["i"] = k /\ cache'["d"] = cache["d"]
  BY <1>1 DEF Caches
<1>3. \A a \in RAM : View("d", a)' = View("d", a)
  BY <1>1, <1>2 DEF View, Caches
<1>4. \A a \in RAM : View("i", a)' \in {View("i", a), mem["I"][a]}
  BY <1>1, <1>2 DEF View, Caches
<1>5. CopiesAgree'
  BY <1>1, <1>2 DEF CareInv, CopiesAgree, Caches
<1> QED
  BY <1>1, <1>3, <1>4, <1>5 DEF Undisturbed

(* A step that touches neither the caches nor the memories. *)
LEMMA NothingMoves ==
  ASSUME CareInv, MachineInv', cache' = cache, mem' = mem, mode' = mode
  PROVE  /\ Undisturbed /\ CopiesAgree' /\ Quiet
         /\ Space' = Space /\ Seen' = Seen /\ Through' = Through /\ Pushed' = Pushed
<1>1. Undisturbed
  BY DEF Undisturbed, View, MemBehind, DataMem
<1>2. CopiesAgree'
  BY DEF CareInv, CopiesAgree, Trusted, MemBehind, DataMem
<1>3. Space' = Space /\ Seen' = Seen
  BY DEF Space, Seen, Fetched, Current
<1>4. Through' = Through /\ Pushed' = Pushed
  BY DEF Through, Pushed, HoldsDirty
<1>5. Quiet
  BY <1>1, UndisturbedIsQuiet DEF CareInv
<1> QED
  BY <1>1, <1>2, <1>3, <1>4, <1>5

(* The write policy of the data cache, and whether every store has reached *)
(* memory.                                                                 *)
LEMMA PushedIs ==
  /\ Pushed \in BOOLEAN /\ Pushed = Spotless(cache["d"])
  /\ Pushed' \in BOOLEAN /\ Pushed' = Spotless(cache'["d"])
BY DEF Pushed, HoldsDirty, Spotless

LEMMA DataCacheLike ==
  ASSUME cache'["d"].wpol = cache["d"].wpol,
         Spotless(cache["d"]) => Spotless(cache'["d"])
  PROVE  Through' = Through /\ Pushed' \in {Pushed, TRUE}
BY PushedIs DEF Through

LEMMA UpdatePolicy ==
  ASSUME CareInv, NEW x \in Caches, NEW r, Update(x, r),
         r.c.wpol = cache[x].wpol, Spotless(cache[x]) => Spotless(r.c)
  PROVE  Through' = Through /\ Pushed' \in {Pushed, TRUE}
<1>1. /\ x = "d" => cache'["d"] = r.c
      /\ x # "d" => cache'["d"] = cache["d"]
  BY DEF CareInv, MachineInv, CachesKept, Update, Caches
<1>2. cache'["d"].wpol = cache["d"].wpol
  BY <1>1
<1>3. Spotless(cache["d"]) => Spotless(cache'["d"])
  BY <1>1, Zenon
<1> QED
  BY <1>2, <1>3, DataCacheLike, Zenon

-----------------------------------------------------------------------------
(* The program's steps, one by one. *)

(* Reads. *)
LEMMA ReadDeviceStep ==
  ASSUME CareInv, MachineInv', NEW side \in {"code", "data"}, NEW a \in Addr,
         ReadDevice(side, a)
  PROVE  CopiesAgree' /\ Model!Device
<1>1. /\ cache' = cache /\ mem' = mem /\ mode' = mode /\ on' = on /\ snoop' = snoop
      /\ did' = "device"
  BY DEF ReadDevice
<1>2. /\ CopiesAgree' /\ Space' = Space /\ Seen' = Seen
      /\ Through' = Through /\ Pushed' = Pushed
  BY <1>1, NothingMoves
<1>3. Told' = "device" /\ out' \in Byte
  BY <1>1 DEF Told, MachineInv, SettingsKept
<1> QED
  BY <1>1, <1>2, <1>3 DEF Model!Device, Model!settings

(* With the caches off, a read returns memory's byte. *)
LEMMA OffIsBare ==
  ASSUME MachineInv, ~on
  PROVE  Bare /\ AllEmpty
BY EmptyIsBare DEF MachineInv, IdleVacant, Routed, AllEmpty

LEMMA ReadMemoryStep ==
  ASSUME CareInv, MachineInv', NEW side \in {"code", "data"}, NEW a \in RAM,
         Read(side, a), ReadMemory(side, a)
  PROVE  CopiesAgree' /\ (Model!Fetch(a) \/ Model!Load(a))
<1>1. /\ cache' = cache /\ mem' = mem /\ mode' = mode /\ on' = on /\ snoop' = snoop
      /\ did' = (IF side = "code" THEN "fetch" ELSE "load")
      /\ out' = mem[MemFor(side)][a]
  BY DEF Read, ReadMemory
<1>2. /\ CopiesAgree' /\ Quiet /\ Through' = Through /\ Pushed' = Pushed
  BY <1>1, NothingMoves
<1>3. Bare
  BY OffIsBare DEF ReadMemory, CareInv
<1>4. Told' = (IF side = "code" THEN "fetch" ELSE "load")
  BY <1>1 DEF Told
<1>5. CASE side = "code"
  <2>1. out' \in Seen[a]
    BY <1>1, <1>3, <1>5 DEF Bare, MemFor
  <2> QED
    BY <1>1, <1>2, <1>4, <1>5, <2>1 DEF Model!Fetch, Model!settings, Model!Settle, Quiet
<1>6. CASE side = "data"
  <2>1. out' = Space[Model!DataSpace][a]
    BY <1>1, <1>3, <1>6 DEF Bare, MemFor, DataMem, Model!DataSpace
  <2>2. Told' = "load"
    BY <1>4, <1>6
  <2> QED
    BY <1>1, <1>2, <2>1, <2>2 DEF Model!Load, Model!settings, Model!Settle, Quiet
<1> QED
  BY <1>5, <1>6

LEMMA ReadCacheStep ==
  ASSUME CareInv, MachineInv', NEW side \in {"code", "data"}, NEW a \in RAM,
         Read(side, a), ReadCache(side, a)
  PROVE  CopiesAgree' /\ (Model!Fetch(a) \/ Model!Load(a))
<1> DEFINE x == CacheFor(side)
           k == cache[x]
           m == mem[MemBehind(x)]
<1>1. /\ mode' = mode /\ on' = on /\ snoop' = snoop
      /\ did' = (IF side = "code" THEN "fetch" ELSE "load") /\ a \in Addr
  BY DEF Read, RAM
<1>2. mode \in {"vn", "harvard", "modified"}
  BY DEF CareInv, MachineInv, SettingsKept
<1>3. /\ x \in Caches /\ MemBehind(x) \in {"I", "D"} /\ Placed(k) /\ IsMemory(m)
      /\ IsCache(k) /\ NoTwin(k)
  BY Routing DEF CareInv, MachineInv, CachesKept, Memories, IsMemory, MemBehind,
                 DataMem, Placed
<1>4. PICK w \in WaysFor(k, a) :
        LET r == Accessed(k, m, a, w)
        IN  Update(x, r) /\ out' = ByteIn(r.c, a, w)
  BY DEF ReadCache
<1> DEFINE r == Accessed(k, m, a, w)
<1>5. Update(x, r) /\ out' = ByteIn(r.c, a, w)
  BY <1>4
<1>6. w \in Ways(k)
  BY <1>1, <1>3, WayIsWay
<1> HIDE DEF k, m
<1>7. r.c.wpol = k.wpol /\ (Spotless(k) => Spotless(r.c))
  BY <1>1, <1>3, <1>6, AccessPolicy, AccessSpotless
<1>8. Through' = Through /\ Pushed' \in {Pushed, TRUE}
  <2> HIDE DEF r, x
  <2> QED
    BY <1>3, <1>5, <1>7, UpdatePolicy DEF k
<1>9. Told' = (IF side = "code" THEN "fetch" ELSE "load")
  BY <1>1 DEF Told
<1>10. CASE x \in Trusted
  <2>1. Sound(k, m)
    BY <1>10, TrustedSound DEF k, m
  <2>2. Settled(k, m, r.c, r.m) /\ out' = Visible(k, m, a)
    BY <1>1, <1>5, <1>6, <2>1, AccessSettles
  <2>3. Undisturbed /\ CopiesAgree'
    <3> HIDE DEF r, x
    <3> QED
      BY <1>1, <1>5, <1>10, <2>2, SettledUpdate DEF k, m
  <2>4. Quiet
    BY <2>3, UndisturbedIsQuiet DEF CareInv
  <2>5. out' = View(x, a)
    BY <2>2 DEF View, k, m
  <2>6. CASE side = "code"
    <3>1. mode # "modified"
      BY <1>10, <2>6 DEF Trusted, CacheFor
    <3>2. out' \in Seen[a]
      BY <1>2, <2>5, <2>6, <3>1, SpaceIs DEF CareInv, CacheFor
    <3> QED
      BY <1>1, <1>8, <1>9, <2>3, <2>4, <2>6, <3>2
      DEF Model!Fetch, Model!settings, Model!Settle, Quiet
  <2>7. CASE side = "data"
    <3>1. out' = Space[Model!DataSpace][a]
      BY <1>2, <2>5, <2>7, SpaceIs DEF CareInv, CacheFor, Model!DataSpace
    <3>2. Told' = "load"
      BY <1>9, <2>7
    <3> QED
      BY <1>1, <1>8, <2>3, <2>4, <3>1, <3>2
      DEF Model!Load, Model!settings, Model!Settle, Quiet
  <2> QED
    BY <2>6, <2>7
<1>11. CASE x \notin Trusted
  <2>1. mode = "modified" /\ side = "code" /\ x = "i" /\ MemBehind(x) = "I"
    BY <1>2, <1>11 DEF Trusted, CacheFor, MemBehind
  <2>2. Spotless(k)
    BY <2>1 DEF k, CareInv, MachineInv, CachesKept
  <2>3. /\ r.m = m /\ out' = Visible(r.c, m, a)
        /\ \A b \in Addr : Visible(r.c, m, b) \in {Visible(k, m, b), m[b]}
    BY <1>3, <1>5, <2>2, AccessShows
  <2> DEFINE d == r.c
  <2>4. /\ m = mem["I"] /\ \A b : View("i", b) = Visible(k, m, b)
    BY <2>1 DEF m, k, View
  <2>5. cache' = [cache EXCEPT !["i"] = d] /\ mem' = mem
    <3>1. mem["I"] = m /\ mem \in Memories
      BY <2>1 DEF m, CareInv, MachineInv, CachesKept
    <3> QED
      BY <1>5, <2>1, <2>3, <3>1 DEF Update, Memories
  <2> HIDE DEF d
  <2>6. \A b \in RAM : Visible(d, mem["I"], b) \in {View("i", b), mem["I"][b]}
    BY <2>3, <2>4 DEF RAM, d
  <2>7. Undisturbed /\ CopiesAgree'
    BY <1>1, <2>1, <2>5, <2>6, FetchedUpdate
  <2>8. Quiet
    BY <2>7, UndisturbedIsQuiet DEF CareInv
  <2>9. out' \in Seen[a]
    BY <2>1, <2>3, <2>4, <2>6, SpaceIs DEF CareInv, d
  <2> QED
    BY <1>1, <1>8, <1>9, <2>1, <2>7, <2>8, <2>9
    DEF Model!Fetch, Model!settings, Model!Settle, Quiet
<1> QED
  BY <1>10, <1>11

-----------------------------------------------------------------------------
(* Flushing and cleaning. *)

(* Only the cache of the data side can hold stores. *)
LEMMA OthersSpotless ==
  ASSUME MachineInv, NEW y \in Caches, y # CacheFor("data")
  PROVE  Spotless(cache[y])
<1>1. y = "i" \/ ~Routed(y)
  BY DEF MachineInv, SettingsKept, Routed, CacheFor, Caches
<1>2. Vacant(cache[y]) => Spotless(cache[y])
  BY DEF Vacant, Spotless
<1> QED
  BY <1>1, <1>2 DEF MachineInv, CachesKept, IdleVacant

LEMMA DataTrusted ==
  ASSUME MachineInv
  PROVE  /\ CacheFor("data") \in Trusted /\ CacheFor("data") \in Caches
         /\ MemBehind(CacheFor("data")) = DataMem /\ DataMem \in {"I", "D"}
         /\ \A y \in Trusted :
              y # CacheFor("data") => mode = "harvard" /\ y = "i" /\ MemBehind(y) = "I"
BY DEF MachineInv, SettingsKept, CacheFor, Trusted, MemBehind, DataMem, Caches

(* So flushing writes that cache's lines out, and nothing else. *)
LEMMA FlushOut ==
  ASSUME MachineInv, NEW xs \in SUBSET Caches, FlushCaches(xs)
  PROVE  LET x == CacheFor("data")
         IN  mem' = IF x \in xs
                    THEN [mem EXCEPT ![MemBehind(x)] =
                            AllWrittenBack(cache[x], mem[MemBehind(x)])]
                    ELSE mem
<1> DEFINE x == CacheFor("data")
           Out(y, m) == IF y \in xs
                        THEN [m EXCEPT ![MemBehind(y)] = AllWrittenBack(cache[y], @)]
                        ELSE m
           after == IF x \in xs
                    THEN [mem EXCEPT ![MemBehind(x)] =
                            AllWrittenBack(cache[x], mem[MemBehind(x)])]
                    ELSE mem
<1>1. mem \in Memories /\ \A y \in Caches : MemBehind(y) \in {"I", "D"}
  BY DEF MachineInv, CachesKept, MemBehind, DataMem
<1>2. x \in {"d", "u"}
  BY DEF MachineInv, SettingsKept, CacheFor
<1>3. ASSUME NEW y \in Caches, y # x, NEW m \in Memories PROVE Out(y, m) = m
  <2>1. Spotless(cache[y])
    BY <1>3, OthersSpotless
  <2>2. IsMemory(m[MemBehind(y)])
    BY <1>1 DEF Memories, IsMemory
  <2>3. AllWrittenBack(cache[y], m[MemBehind(y)]) = m[MemBehind(y)]
    BY <2>1, <2>2, SpotlessOut
  <2> QED
    BY <2>3 DEF Memories
<1>4. Out(x, mem) = after
  OBVIOUS
<1>5. after \in Memories
  <2>1. AllWrittenBack(cache[x], mem[MemBehind(x)]) \in [Addr -> Byte]
    BY <1>1, <1>2, AllWrittenBackType
    DEF MachineInv, CachesKept, Placed, Memories, IsMemory, Caches
  <2> QED
    BY <1>1, <1>2, <2>1 DEF Memories, Caches
<1>6. mem' = Out("u", Out("d", Out("i", mem)))
  BY DEF FlushCaches
<1> HIDE DEF Out, after, x
<1>7. Out("i", mem) = mem
  BY <1>1, <1>2, <1>3 DEF Caches
<1>8. mem' = after
  <2>1. CASE x = "d"
    <3>1. Out("u", after) = after
      BY <1>3, <1>5, <2>1 DEF Caches
    <3> QED
      BY <1>4, <1>6, <1>7, <2>1, <3>1
  <2>2. CASE x = "u"
    <3>1. Out("d", mem) = mem
      BY <1>1, <1>3, <2>2 DEF Caches
    <3> QED
      BY <1>4, <1>6, <1>7, <2>2, <3>1
  <2> QED
    BY <1>2, <2>1, <2>2
<1> QED
  BY <1>8 DEF after, x

(* What a flush leaves of one cache and its memory. *)
LEMMA FlushLeaves ==
  ASSUME CareInv, NEW xs \in SUBSET Caches, FlushCaches(xs)
  PROVE  /\ \A y \in Caches :
              cache'[y] = IF y \in xs THEN AllFlushed(cache[y]) ELSE cache[y]
         /\ \A y \in Trusted :
              Settled(cache[y], mem[MemBehind(y)], cache'[y], mem'[MemBehind(y)])
         /\ mode # "harvard" => mem'["D"] = mem["D"]
         /\ \A y \in Trusted : y \in xs \/ Vacant(cache[y]) =>
              \A a \in RAM : mem'[MemBehind(y)][a] = View(y, a)
<1> DEFINE x == CacheFor("data")
<1>1. \A y \in Caches : cache'[y] = IF y \in xs THEN AllFlushed(cache[y]) ELSE cache[y]
  BY DEF FlushCaches
<1>2. mem' = IF x \in xs
             THEN [mem EXCEPT ![MemBehind(x)] =
                     AllWrittenBack(cache[x], mem[MemBehind(x)])]
             ELSE mem
  BY FlushOut DEF CareInv
<1>3. /\ x \in Trusted /\ x \in Caches /\ MemBehind(x) = DataMem
      /\ DataMem \in {"I", "D"}
      /\ \A y \in Trusted : y # x => mode = "harvard" /\ y = "i" /\ MemBehind(y) = "I"
  BY DataTrusted DEF CareInv
<1>4. mem \in Memories
  BY DEF CareInv, MachineInv, CachesKept
<1> HIDE DEF x
<1>5. mode # "harvard" => mem'["D"] = mem["D"]
  BY <1>2, <1>3, <1>4 DEF DataMem, Memories
<1>6. ASSUME NEW y \in Trusted
      PROVE  mem'[MemBehind(y)] = IF y \in xs
                                  THEN AllWrittenBack(cache[y], mem[MemBehind(y)])
                                  ELSE mem[MemBehind(y)]
  <2>1. CASE y = x
    BY <1>2, <1>3, <1>4, <2>1 DEF Memories
  <2>2. CASE y # x
    <3>1. mode = "harvard" /\ y = "i" /\ MemBehind(y) = "I" /\ DataMem = "D"
      BY <1>3, <2>2 DEF DataMem
    <3>2. mem'["I"] = mem["I"]
      BY <1>2, <1>3, <1>4, <3>1 DEF Memories
    <3>3. AllWrittenBack(cache[y], mem["I"]) = mem["I"]
      BY <1>4, <3>1, SpotlessOut DEF CareInv, MachineInv, CachesKept, Memories, IsMemory
    <3> QED
      BY <3>1, <3>2, <3>3
  <2> QED
    BY <2>1, <2>2
<1>7. ASSUME NEW y \in Trusted
      PROVE  /\ Settled(cache[y], mem[MemBehind(y)], cache'[y], mem'[MemBehind(y)])
             /\ y \in xs \/ Vacant(cache[y]) =>
                  \A a \in RAM : mem'[MemBehind(y)][a] = View(y, a)
  <2> DEFINE k == cache[y]
             m == mem[MemBehind(y)]
  <2>1. y \in Caches /\ Sound(k, m) /\ Placed(k) /\ IsMemory(m)
    BY TrustedSound
  <2>2. \A a \in RAM : View(y, a) = Visible(k, m, a)
    BY DEF View
  <2>3. CASE y \in xs
    <3>1. cache'[y] = AllFlushed(k) /\ mem'[MemBehind(y)] = AllWrittenBack(k, m)
      BY <1>1, <1>6, <2>1, <2>3
    <3> HIDE DEF k, m
    <3>2. Settled(k, m, AllFlushed(k), AllWrittenBack(k, m))
      BY <2>1, FlushSettles
    <3>3. \A a \in RAM : AllWrittenBack(k, m)[a] = View(y, a)
      BY <2>1, <2>2, AllOut DEF RAM
    <3> QED
      BY <3>1, <3>2, <3>3 DEF k, m
  <2>4. CASE y \notin xs
    <3>1. cache'[y] = k /\ mem'[MemBehind(y)] = m
      BY <1>1, <1>6, <2>1, <2>4
    <3> HIDE DEF k, m
    <3>2. Settled(k, m, k, m)
      BY <2>1 DEF Settled
    <3>3. Vacant(k) => \A a \in RAM : m[a] = View(y, a)
      BY <2>1, <2>2, VacantShows DEF RAM
    <3> QED
      BY <2>4, <3>1, <3>2, <3>3 DEF k, m
  <2> QED
    BY <2>3, <2>4
<1> QED
  BY <1>1, <1>5, <1>7

(* A flush that goes on in the same mode. *)
LEMMA FlushQuiet ==
  ASSUME CareInv, MachineInv', NEW xs \in SUBSET Caches, FlushCaches(xs), mode' = mode
  PROVE  /\ CopiesAgree' /\ Quiet
         /\ Through' = Through /\ Pushed' \in {Pushed, TRUE}
<1>1. /\ \A y \in Caches :
           cache'[y] = IF y \in xs THEN AllFlushed(cache[y]) ELSE cache[y]
      /\ \A y \in Trusted :
           Settled(cache[y], mem[MemBehind(y)], cache'[y], mem'[MemBehind(y)])
      /\ mode # "harvard" => mem'["D"] = mem["D"]
  BY FlushLeaves
<1>2. Trusted' = Trusted /\ \A y : MemBehind(y)' = MemBehind(y)
  BY DEF Trusted, MemBehind, DataMem
<1>3. \A y \in Trusted, a \in RAM : View(y, a)' = View(y, a)
  BY <1>1, <1>2 DEF View, Settled, RAM
<1>4. CopiesAgree'
  BY <1>1, <1>2 DEF CopiesAgree, Settled, Sound
<1>5. ASSUME NEW y \in Caches
      PROVE  /\ Placed(cache[y]) /\ Placed(cache'[y]) /\ IsCache(cache[y])
             /\ cache'[y].wpol = cache[y].wpol
             /\ Spotless(cache[y]) => Spotless(cache'[y])
             /\ y \in xs => Vacant(cache'[y])
  <2>1. Placed(cache[y]) /\ IsCache(cache[y])
    BY DEF CareInv, MachineInv, CachesKept, Placed
  <2>2. CASE y \in xs
    <3>1. cache'[y] = AllFlushed(cache[y])
      BY <1>1, <2>2
    <3>2. Placed(AllFlushed(cache[y])) /\ Vacant(AllFlushed(cache[y]))
      BY <2>1, AllOutPlaced
    <3>3. Spotless(AllFlushed(cache[y]))
      BY <3>2 DEF Vacant, Spotless
    <3>4. AllFlushed(cache[y]).wpol = cache[y].wpol
      BY <2>1, OutPolicy
    <3> QED
      BY <2>1, <3>1, <3>2, <3>3, <3>4
  <2>3. CASE y \notin xs
    BY <1>1, <2>1, <2>3
  <2> QED
    BY <2>2, <2>3
<1>6. ASSUME mode = "modified", NEW a \in RAM
      PROVE  /\ View("i", a)' \in {View("i", a), mem["I"][a], mem'["I"][a]}
             /\ mem'["I"][a] \in {mem["I"][a], View("d", a)}
  <2>1. /\ "d" \in Trusted /\ "i" \in Caches
        /\ MemBehind("i") = "I" /\ MemBehind("d") = "I"
    BY <1>6 DEF Trusted, MemBehind, DataMem, Caches
  <2>2. mem'["I"][a] \in {mem["I"][a], View("d", a)}
    BY <1>1, <2>1 DEF Settled, View, RAM
  <2>3. /\ View("i", a) = Visible(cache["i"], mem["I"], a)
        /\ View("i", a)' = Visible(cache'["i"], mem'["I"], a)
    BY <1>2, <2>1 DEF View
  <2>4. CASE "i" \in xs
    <3>1. Placed(cache'["i"]) /\ Vacant(cache'["i"])
      BY <1>5, <2>1, <2>4
    <3>2. IsMemory(mem'["I"])
      BY DEF MachineInv, CachesKept, Memories, IsMemory
    <3>3. Visible(cache'["i"], mem'["I"], a) = mem'["I"][a]
      BY <3>1, <3>2, VacantShows DEF RAM
    <3> QED
      BY <2>2, <2>3, <3>3
  <2>5. CASE "i" \notin xs
    <3>1. cache'["i"] = cache["i"]
      BY <1>1, <2>1, <2>5
    <3> QED
      BY <2>2, <2>3, <3>1, VisibleOver
  <2> QED
    BY <2>4, <2>5
<1>7. Quiet
  <2>1. Undisturbed
    BY <1>1, <1>3, <1>6 DEF Undisturbed
  <2> QED
    BY <2>1, UndisturbedIsQuiet DEF CareInv
<1>8. Through' = Through /\ Pushed' \in {Pushed, TRUE}
  BY <1>5, DataCacheLike DEF Caches
<1> QED
  BY <1>4, <1>7, <1>8

(* A flush after which nothing is left in any cache, whatever the mode is  *)
(* then: the spaces are what they were, and a fetch sees them.             *)
LEMMA FlushEmpties ==
  ASSUME CareInv, MachineInv', NEW xs \in SUBSET Caches, FlushCaches(xs),
         \A y \in Caches : y \in xs \/ Vacant(cache[y])
  PROVE  /\ CopiesAgree' /\ Space' = Space /\ Seen' = Model!Coherent(Space')
         /\ Through' = Through /\ Pushed'
<1>1. /\ \A y \in Caches :
           cache'[y] = IF y \in xs THEN AllFlushed(cache[y]) ELSE cache[y]
      /\ mode # "harvard" => mem'["D"] = mem["D"]
      /\ \A y \in Trusted : y \in xs \/ Vacant(cache[y]) =>
           \A a \in RAM : mem'[MemBehind(y)][a] = View(y, a)
  BY FlushLeaves
<1>2. ASSUME NEW y \in Caches
      PROVE  Vacant(cache'[y]) /\ cache'[y].wpol = cache[y].wpol
  <2>1. Placed(cache[y]) /\ IsCache(cache[y])
    BY DEF CareInv, MachineInv, CachesKept, Placed
  <2>2. Vacant(AllFlushed(cache[y])) /\ AllFlushed(cache[y]).wpol = cache[y].wpol
    BY <2>1, AllOutPlaced, OutPolicy
  <2>3. CASE y \in xs
    BY <1>1, <2>2, <2>3
  <2>4. CASE y \notin xs
    BY <1>1, <2>4
  <2> QED
    BY <2>3, <2>4
<1>3. AllEmpty'
  BY <1>2 DEF AllEmpty
<1>4. Bare'
  BY <1>3, EmptyIsBare, PTL
<1>5. SpaceTypes /\ SpaceTypes'
  BY TypedSpaces, PTL DEF CareInv
<1>6. \A y \in Trusted, a \in RAM : mem'[MemBehind(y)][a] = View(y, a)
  BY <1>1, TrustedSound
<1>7. ASSUME NEW a \in RAM
      PROVE  mem'["I"][a] = Space["I"][a] /\ mem'["D"][a] = Space["D"][a]
  <2>1. mode \in {"vn", "harvard", "modified"}
    BY DEF CareInv, MachineInv, SettingsKept
  <2>2. CASE mode = "vn"
    BY <1>1, <1>6, <2>2, SpaceIs DEF CareInv, Trusted, MemBehind
  <2>3. CASE mode = "harvard"
    BY <1>6, <2>3, SpaceIs DEF CareInv, Trusted, MemBehind, DataMem
  <2>4. CASE mode = "modified"
    BY <1>1, <1>6, <2>4, SpaceIs DEF CareInv, Trusted, MemBehind, DataMem
  <2> QED
    BY <2>1, <2>2, <2>3, <2>4
<1>8. Space' = Space
  <2>1. \A a \in RAM : Space'["I"][a] = mem'["I"][a] /\ Space'["D"][a] = mem'["D"][a]
    BY <1>4 DEF Bare
  <2> QED
    BY <1>5, <1>7, <2>1, SameSpace DEF SpaceTypes
<1>9. /\ CopiesAgree' /\ Pushed'
      /\ Seen' = Model!Coherent(Space')
  BY <1>4 DEF Bare
<1>10. Through' = Through
  BY <1>2 DEF Through, Caches
<1> QED
  BY <1>8, <1>9, <1>10

(* cache_clean of the data side: the clean register or command. *)
LEMMA CleanDataStep ==
  ASSUME CareInv, MachineInv', CleanData, did' = "clean",
         UNCHANGED <<mode, on, snoop, out>>
  PROVE  CopiesAgree' /\ Model!Clean
<1> DEFINE x == CacheFor("data")
           k == cache[x]
           m == mem[MemBehind(x)]
           r == [c |-> AllClean(k), m |-> AllWrittenBack(k, m)]
<1>1. x \in Trusted /\ x \in Caches
  BY DataTrusted DEF CareInv
<1>2. Update(x, r)
  BY DEF CleanData
<1> HIDE DEF x
<1>3. Sound(k, m) /\ Placed(k) /\ IsCache(k)
  BY <1>1, TrustedSound DEF Sound
<1> HIDE DEF m
<1>4. Settled(k, m, r.c, r.m)
  BY <1>3, CleanSettles
<1>5. r.c.wpol = k.wpol /\ Spotless(r.c)
  <2>1. AllClean(k).wpol = k.wpol
    BY <1>3, OutPolicy
  <2>2. Spotless(AllClean(k))
    BY <1>3, AllOutPlaced
  <2> QED
    BY <2>1, <2>2
<1> HIDE DEF r
<1>6. Undisturbed /\ CopiesAgree'
  BY <1>1, <1>2, <1>4, SettledUpdate DEF m
<1>7. Quiet
  BY <1>6, UndisturbedIsQuiet DEF CareInv
<1>8. Through' = Through
  BY <1>1, <1>2, <1>5, UpdatePolicy
<1>9. Pushed' = TRUE
  <2>1. /\ x = "d" => cache'["d"] = r.c
        /\ x # "d" => cache'["d"] = cache["d"]
    BY <1>2 DEF CareInv, MachineInv, CachesKept, Update, Caches
  <2>2. CASE x = "d"
    BY <1>5, <2>1, <2>2, PushedIs
  <2>3. CASE x # "d"
    <3>1. Spotless(cache["d"])
      BY <2>3, OthersSpotless DEF CareInv, x, Caches
    <3> QED
      BY <2>1, <2>3, <3>1, PushedIs
  <2> QED
    BY <2>2, <2>3
<1>10. Told' = "clean"
  BY DEF Told
<1> QED
  BY <1>6, <1>7, <1>8, <1>9, <1>10 DEF Model!Clean, Model!Settle, Model!settings, Quiet

(* ms_flush of the data side. *)
LEMMA FlushDataStep ==
  ASSUME CareInv, MachineInv', Flush(FALSE, TRUE), did' = "clean",
         UNCHANGED <<mode, on, snoop, out>>
  PROVE  CopiesAgree' /\ Model!Clean
<1> DEFINE xs == IF mode = "vn" THEN {"u"} ELSE {"d"}
<1>1. xs \in SUBSET Caches /\ FlushCaches(xs)
  <2>1. (IF mode = "vn"
         THEN {x \in {"u"} : FALSE \/ TRUE}
         ELSE {x \in {"i", "d"} : IF x = "i" THEN FALSE ELSE TRUE}) = xs
    OBVIOUS
  <2> QED
    BY <2>1 DEF Flush, Caches
<1>2. "d" \in xs \/ CacheFor("data") # "d"
  BY DEF CacheFor
<1> HIDE DEF xs
<1>3. /\ CopiesAgree' /\ Quiet
      /\ Through' = Through /\ Pushed' \in {Pushed, TRUE}
  BY <1>1, FlushQuiet
<1>4. Pushed' = TRUE
  <2>1. CASE "d" \in xs
    <3>1. cache'["d"] = AllFlushed(cache["d"]) /\ Placed(cache["d"])
      BY <1>1, <2>1, FlushLeaves DEF Caches, CareInv, MachineInv, CachesKept
    <3>2. Vacant(AllFlushed(cache["d"]))
      BY <3>1, AllOutPlaced
    <3>3. Spotless(cache'["d"])
      BY <3>1, <3>2 DEF Vacant, Spotless
    <3> QED
      BY <3>3, PushedIs
  <2>2. CASE CacheFor("data") # "d"
    <3>1. Spotless(cache["d"])
      BY <2>2, OthersSpotless DEF CareInv, Caches
    <3> QED
      BY <1>3, <3>1, PushedIs
  <2> QED
    BY <1>2, <2>1, <2>2
<1>5. Told' = "clean"
  BY DEF Told
<1> QED
  BY <1>3, <1>4, <1>5 DEF Model!Clean, Model!Settle, Model!settings, Quiet

(* ms_flush of the code side: a fence for the fetch side, if every store   *)
(* has reached memory.                                                     *)
LEMMA InvalidateStep ==
  ASSUME CareInv, MachineInv', Flush(TRUE, FALSE), did' = "invalidate",
         UNCHANGED <<mode, on, snoop, out>>
  PROVE  CopiesAgree' /\ Model!InvalidateI
<1> DEFINE xs == IF mode = "vn" THEN {"u"} ELSE {"i"}
<1>1. xs \in SUBSET Caches /\ FlushCaches(xs)
  <2>1. (IF mode = "vn"
         THEN {x \in {"u"} : TRUE \/ FALSE}
         ELSE {x \in {"i", "d"} : IF x = "i" THEN TRUE ELSE FALSE}) = xs
    OBVIOUS
  <2> QED
    BY <2>1 DEF Flush, Caches
<1>2. mode # "vn" => xs = {"i"}
  OBVIOUS
<1> HIDE DEF xs
<1>3. /\ CopiesAgree' /\ Quiet
      /\ Through' = Through /\ Pushed' \in {Pushed, TRUE}
  BY <1>1, FlushQuiet
<1>4. mode' = mode /\ mode \in {"vn", "harvard", "modified"}
  BY DEF CareInv, MachineInv, SettingsKept
<1>5. ASSUME Pushed PROVE Seen' = Model!Coherent(Space)
  <2>1. CASE mode # "modified"
    <3>1. Seen' = [a \in RAM |-> {Space'["I"][a]}]
      BY <1>4, <2>1 DEF Seen, Space
    <3> QED
      BY <1>3, <3>1 DEF Model!Coherent, Quiet
  <2>2. CASE mode = "modified"
    <3>1. /\ "d" \in Trusted /\ MemBehind("d") = "I" /\ MemBehind("d")' = "I"
          /\ cache'["d"] = cache["d"] /\ cache'["i"] = AllFlushed(cache["i"])
      BY <1>1, <1>2, <1>4, <2>2, FlushLeaves
      DEF Trusted, MemBehind, DataMem, Caches
    <3>2. mem' = mem
      BY <1>1, <1>2, <2>2, FlushOut DEF CareInv, CacheFor
    <3>3. /\ Placed(cache["i"]) /\ Placed(cache["d"]) /\ IsMemory(mem["I"])
          /\ Sound(cache["d"], mem["I"]) /\ Spotless(cache["d"])
      BY <1>5, <3>1, TrustedSound, PushedIs
      DEF CareInv, MachineInv, CachesKept, Memories, IsMemory, Caches
    <3>4. Placed(cache'["i"]) /\ Vacant(cache'["i"])
      BY <3>1, <3>3, AllOutPlaced
    <3>5. \A a \in RAM : /\ Fetched(a)' = mem["I"][a] /\ Current(a)' = mem["I"][a]
                        /\ mem'["I"][a] = mem["I"][a]
      <4>1. \A a \in RAM : Visible(cache'["i"], mem["I"], a) = mem["I"][a]
        BY <3>3, <3>4, VacantShows DEF RAM
      <4>2. \A a \in RAM : Visible(cache["d"], mem["I"], a) = mem["I"][a]
        BY <3>3, SpotlessShows DEF RAM
      <4> QED
        BY <3>1, <3>2, <4>1, <4>2 DEF Fetched, Current
    <3>6. \A a \in RAM : Space'["I"][a] = mem["I"][a]
      BY <1>4, <2>2, <3>5 DEF Space, Current
    <3>7. Seen' = [a \in RAM |-> {Space'["I"][a]}]
      BY <1>4, <2>2, <3>5, <3>6 DEF Seen
    <3> QED
      BY <1>3, <3>7 DEF Model!Coherent, Quiet
  <2> QED
    BY <2>1, <2>2
<1>6. Told' = "invalidate"
  BY DEF Told
<1> QED
  BY <1>3, <1>5, <1>6 DEF Model!InvalidateI, Model!Settle, Model!settings, Quiet

(* ms_flush of both sides. *)
LEMMA FlushBoth ==
  ASSUME CareInv, MachineInv', Flush(TRUE, TRUE)
  PROVE  /\ CopiesAgree' /\ Space' = Space /\ Seen' = Model!Coherent(Space')
         /\ Through' = Through /\ Pushed' = TRUE
<1> DEFINE xs == IF mode = "vn" THEN {"u"} ELSE {"i", "d"}
<1>1. xs \in SUBSET Caches /\ FlushCaches(xs)
  <2>1. (IF mode = "vn"
         THEN {x \in {"u"} : TRUE \/ TRUE}
         ELSE {x \in {"i", "d"} : IF x = "i" THEN TRUE ELSE TRUE}) = xs
    OBVIOUS
  <2> QED
    BY <2>1 DEF Flush, Caches
<1>2. \A y \in Caches : Routed(y) => y \in xs
  BY DEF Routed, CacheFor
<1>3. \A y \in Caches : y \in xs \/ Vacant(cache[y])
  BY <1>2 DEF CareInv, MachineInv, IdleVacant
<1> HIDE DEF xs
<1> QED
  BY <1>1, <1>3, FlushEmpties, PushedIs

LEMMA FlushBothStep ==
  ASSUME CareInv, MachineInv', Flush(TRUE, TRUE), did' = "flush",
         UNCHANGED <<mode, on, snoop, out>>
  PROVE  CopiesAgree' /\ Model!FlushAll
<1>1. Told' = "flush"
  BY DEF Told
<1> QED
  BY <1>1, FlushBoth DEF Model!FlushAll, Model!settings

LEMMA CacheOffStep ==
  ASSUME CareInv, MachineInv', CacheOff
  PROVE  CopiesAgree' /\ Model!CacheOff
<1>1. Told' = "off"
  BY DEF Told, CacheOff
<1> QED
  BY <1>1, FlushBoth DEF Model!CacheOff, CacheOff

LEMMA SetModeStep ==
  ASSUME CareInv, MachineInv', NEW m \in ModesUsed, SetMode(m)
  PROVE  CopiesAgree' /\ Model!SetMode(m)
<1>1. Told' = "mode"
  BY DEF Told, SetMode
<1>2. /\ CopiesAgree' /\ Space' = Space /\ Seen' = Model!Coherent(Space')
      /\ Through' = Through /\ Pushed'
  BY FlushEmpties DEF SetMode
<1> QED
  BY <1>1, <1>2, PushedIs DEF Model!SetMode, SetMode

-----------------------------------------------------------------------------
(* Stores. *)

(* A store to the device page touches no line and no byte the program can  *)
(* reach through one.                                                      *)
LEMMA OutputStep ==
  ASSUME CareInv, MachineInv', NEW a \in IOPage, NEW v \in Byte,
         mem' = IF a \in OutputRegs THEN mem ELSE [mem EXCEPT ![DataMem][a] = v],
         did' = "device", UNCHANGED <<mode, on, snoop, out, cache>>
  PROVE  CopiesAgree' /\ Model!Device
<1>1. /\ mem \in Memories /\ \A y \in Caches : Placed(cache[y])
      /\ DataMem \in {"I", "D"} /\ out' \in Byte
  BY DEF CareInv, MachineInv, CachesKept, SettingsKept, DataMem
<1>2. \A s \in {"I", "D"}, b \in Addr : b # a => mem'[s][b] = mem[s][b]
  BY <1>1 DEF Memories
<1>3. \A s \in {"I", "D"}, b \in RAM : mem'[s][b] = mem[s][b]
  BY <1>2 DEF RAM
<1>4. \A y \in Caches, s \in {"I", "D"}, b \in RAM :
        Visible(cache'[y], mem'[s], b) = Visible(cache[y], mem[s], b)
  BY <1>3 DEF Visible
<1>5. Space' = Space
  BY <1>3, <1>4 DEF Space, Caches
<1>6. Seen' = Seen
  BY <1>3, <1>4 DEF Seen, Fetched, Current, Caches
<1>7. ASSUME NEW y \in Trusted PROVE Agrees(cache[y], mem'[MemBehind(y)])
  <2> DEFINE k == cache[y]
             s == MemBehind(y)
  <2>1. /\ y \in Caches /\ s \in {"I", "D"} /\ Placed(k) /\ Sound(k, mem[s])
    BY TrustedSound
  <2> HIDE DEF s
  <2>2. ASSUME NEW p \in Slots(k), k.line[p].valid, ~k.line[p].dirty,
               NEW i \in 0 .. k.line_bytes - 1
        PROVE  k.line[p].data[i] = mem'[s][k.line[p].base + i]
    <3> DEFINE b == k.line[p].base + i
    <3>1. b \in Addr /\ b \in Extent(k, k.line[p])
      BY SMTT(30), <2>1, <2>2, LineInMemory, LineTypes DEF Sound, InPlace, Extent
    <3>2. b # a
      BY <2>1, <2>2, <3>1, LineOffPage
    <3> QED
      BY <1>2, <2>1, <2>2, <3>1, <3>2 DEF Sound, Agrees
  <2> QED
    BY <2>2 DEF Agrees, s
<1>8. CopiesAgree'
  BY <1>7 DEF CopiesAgree, Trusted, MemBehind, DataMem
<1>9. Through' = Through /\ Pushed' = Pushed /\ Told' = "device"
  BY DEF Through, Pushed, HoldsDirty, Told
<1> QED
  BY <1>1, <1>5, <1>6, <1>8, <1>9 DEF Model!Device, Model!settings

LEMMA StoreDeviceStep ==
  ASSUME CareInv, MachineInv', NEW a \in Addr, NEW v \in Byte, StoreDevice(a, v)
  PROVE  CopiesAgree' /\ (Model!Clean \/ Model!InvalidateI \/ Model!Device)
<1>1. UNCHANGED <<mode, on, snoop, out>> /\ a \in IOPage
  BY DEF StoreDevice
<1>2. CASE CleanData /\ did' = "clean"
  BY <1>1, <1>2, CleanDataStep
<1>3. CASE Flush(TRUE, FALSE) /\ did' = "invalidate"
  BY <1>1, <1>3, InvalidateStep
<1>4. CASE /\ mem' = IF a \in OutputRegs THEN mem ELSE [mem EXCEPT ![DataMem][a] = v]
           /\ did' = "device" /\ UNCHANGED cache
  BY <1>1, <1>4, OutputStep
<1> QED
  BY <1>2, <1>3, <1>4 DEF StoreDevice

(* What a store to RAM does to the reads that follow. *)
Stores(a, v) ==
  /\ mode' = mode
  /\ \A x \in Trusted, b \in RAM :
       View(x, b)' = IF x = CacheFor("data") /\ b = a THEN v ELSE View(x, b)
  /\ mode # "harvard" => \A b \in RAM : mem'["D"][b] = mem["D"][b]
  /\ mode = "modified" =>
       /\ \A b \in RAM :
            /\ mem'["I"][b] \in {mem["I"][b], View("d", b)'}
            /\ View("i", b)' \in {View("i", b), mem'["I"][b]}
       /\ ~on \/ (snoop /\ (Through \/ Coherence(a))) =>
            View("i", a)' = v /\ mem'["I"][a] = v
Kept(a) ==
  /\ CopiesAgree' /\ Through' = Through
  /\ Pushed' \in IF Through \/ ~on THEN {Pushed, TRUE} ELSE BOOLEAN

LEMMA StoreMemoryEffect ==
  ASSUME CareInv, MachineInv', NEW a \in RAM, NEW v \in Byte,
         StoreMemory(a, v), mode' = mode, on' = on
  PROVE  Stores(a, v) /\ Kept(a)
<1>1. /\ ~on /\ cache' = cache /\ mem' = [mem EXCEPT ![DataMem][a] = v]
      /\ a \in Addr /\ mem \in Memories
  BY DEF StoreMemory, RAM, CareInv, MachineInv, CachesKept
<1>2. Bare /\ AllEmpty
  BY <1>1, OffIsBare DEF CareInv
<1>3. AllEmpty'
  BY <1>1, <1>2 DEF AllEmpty
<1>4. Bare'
  BY <1>3, EmptyIsBare, PTL
<1>5. ASSUME NEW y \in Caches, NEW s \in {"I", "D"}, NEW b \in RAM
      PROVE  /\ Visible(cache[y], mem[s], b) = mem[s][b]
             /\ Visible(cache[y], mem'[s], b) = mem'[s][b]
  <2>1. /\ Placed(cache[y]) /\ Vacant(cache[y]) /\ b \in Addr
        /\ IsMemory(mem[s]) /\ IsMemory(mem'[s])
    BY <1>2 DEF CareInv, MachineInv, CachesKept, AllEmpty, Memories, IsMemory, RAM
  <2> QED
    BY <2>1, VacantShows
<1>6. /\ DataMem \in {"I", "D"} /\ Trusted \subseteq Caches
      /\ \A y \in Caches : MemBehind(y) \in {"I", "D"} /\ MemBehind(y)' = MemBehind(y)
      /\ MemBehind(CacheFor("data")) = DataMem
      /\ \A y \in Trusted : y # CacheFor("data") => MemBehind(y) # DataMem
  BY DataTrusted DEF CareInv, Trusted, Caches, MemBehind, DataMem
<1>7. \A s \in {"I", "D"}, b \in RAM :
        mem'[s][b] = IF s = DataMem /\ b = a THEN v ELSE mem[s][b]
  BY <1>1 DEF Memories, RAM
<1>8. \A y \in Caches, b \in RAM : /\ View(y, b) = mem[MemBehind(y)][b]
                                   /\ View(y, b)' = mem'[MemBehind(y)][b]
  BY <1>1, <1>5, <1>6 DEF View
<1>9. \A x \in Trusted, b \in RAM :
        View(x, b)' = IF x = CacheFor("data") /\ b = a THEN v ELSE View(x, b)
  BY <1>6, <1>7, <1>8
<1>10. mode # "harvard" => \A b \in RAM : mem'["D"][b] = mem["D"][b]
  BY <1>7 DEF DataMem
<1>11. mode = "modified" => \A b \in RAM :
         /\ mem'["I"][b] = View("d", b)' /\ View("i", b)' = mem'["I"][b]
         /\ mem'["I"][a] = v
  BY <1>7, <1>8 DEF DataMem, MemBehind, Caches
<1>12. Stores(a, v)
  BY <1>9, <1>10, <1>11 DEF Stores
<1>13. Through' = Through /\ Pushed' = Pushed
  BY <1>1 DEF Through, Pushed, HoldsDirty
<1> QED
  BY <1>1, <1>4, <1>12, <1>13 DEF Kept, Bare

(* One trusted cache and its memory change, the others stay. *)
LEMMA UpdateViews ==
  ASSUME CareInv, NEW x \in Trusted, NEW r, Update(x, r), mode' = mode
  PROVE  /\ cache'[x] = r.c /\ mem'[MemBehind(x)] = r.m
         /\ \A y \in Caches : y # x => cache'[y] = cache[y]
         /\ \A b : View(x, b)' = Visible(r.c, r.m, b)
         /\ \A y \in Trusted : \A b : y # x => View(y, b)' = View(y, b)
         /\ mode # "harvard" => mem'["D"] = mem["D"]
         /\ Agrees(r.c, r.m) => CopiesAgree'
<1>1. /\ x \in Caches /\ MemBehind(x) \in {"I", "D"} /\ mem \in Memories
      /\ DOMAIN cache = Caches
  BY TrustedSound DEF CareInv, MachineInv, CachesKept
<1>2. /\ cache'[x] = r.c /\ mem'[MemBehind(x)] = r.m
      /\ \A y \in Caches : y # x => cache'[y] = cache[y]
      /\ \A s \in {"I", "D"} : s # MemBehind(x) => mem'[s] = mem[s]
  BY <1>1 DEF Update, Memories
<1>3. /\ Trusted' = Trusted
      /\ \A y \in Caches : MemBehind(y)' = MemBehind(y)
  BY DEF Trusted, MemBehind, DataMem
<1>4. \A y \in Trusted :
        /\ y \in Caches
        /\ y # x => MemBehind(y) \in {"I", "D"} /\ MemBehind(y) # MemBehind(x)
  BY DEF Trusted, MemBehind, DataMem, Caches
<1>5. \A b : View(x, b)' = Visible(r.c, r.m, b)
  BY <1>1, <1>2, <1>3 DEF View
<1>6. ASSUME NEW y \in Trusted, y # x
      PROVE  /\ Agrees(cache'[y], mem'[MemBehind(y)])
             /\ \A b : View(y, b)' = View(y, b)
  <2>1. cache'[y] = cache[y] /\ mem'[MemBehind(y)] = mem[MemBehind(y)]
    BY <1>2, <1>4, <1>6
  <2> QED
    BY <1>3, <1>4, <2>1 DEF View, CareInv, CopiesAgree
<1>7. mode # "harvard" => mem'["D"] = mem["D"]
  BY <1>1, <1>2 DEF MemBehind, DataMem
<1>8. Agrees(r.c, r.m) => CopiesAgree'
  BY <1>2, <1>3, <1>4, <1>6 DEF CopiesAgree
<1> QED
  BY <1>2, <1>5, <1>6, <1>7, <1>8

LEMMA StoreCacheEffect ==
  ASSUME CareInv, NEW a \in RAM, NEW v \in Byte, on, mode' = mode,
         ~(Coherence(a) /\ snoop), NEW x, x = CacheFor("data"),
         NEW r \in Writes(cache[x], mem[MemBehind(x)], a, v), Update(x, r)
  PROVE  Stores(a, v) /\ Kept(a)
<1> DEFINE k == cache[x]
           m == mem[MemBehind(x)]
<1>1. /\ x \in Trusted /\ x \in Caches /\ a \in Addr /\ Sound(k, m)
      /\ mode \in {"vn", "harvard", "modified"}
  BY DataTrusted, TrustedSound DEF CareInv, MachineInv, SettingsKept, RAM
<1>2. r \in Writes(k, m, a, v) /\ Update(x, r)
  OBVIOUS
<1>12. \A b : View(x, b) = Visible(k, m, b)
  BY DEF View
<1> HIDE DEF k, m
<1>3. /\ Sound(r.c, r.m) /\ r.c.wpol = k.wpol
      /\ \A b \in Addr :
           /\ Visible(r.c, r.m, b) = IF b = a THEN v ELSE Visible(k, m, b)
           /\ r.m[b] \in {m[b], Visible(r.c, r.m, b)}
      /\ k.wpol = "through" => r.m[a] = v /\ (Spotless(k) => Spotless(r.c))
  BY <1>1, <1>2, WritesEffect
<1>4. /\ cache'[x] = r.c /\ mem'[MemBehind(x)] = r.m
      /\ \A y \in Caches : y # x => cache'[y] = cache[y]
      /\ \A b : View(x, b)' = Visible(r.c, r.m, b)
      /\ \A y \in Trusted : \A b : y # x => View(y, b)' = View(y, b)
      /\ mode # "harvard" => mem'["D"] = mem["D"]
      /\ Agrees(r.c, r.m) => CopiesAgree'
  BY <1>1, <1>2, UpdateViews
<1>5. CopiesAgree'
  BY <1>3, <1>4 DEF Sound
<1>6. \A y \in Trusted, b \in RAM :
        View(y, b)' = IF y = x /\ b = a THEN v ELSE View(y, b)
  BY <1>3, <1>4, <1>12 DEF RAM
<1>7. ASSUME mode = "modified"
      PROVE  /\ \A b \in RAM :
                  /\ mem'["I"][b] \in {mem["I"][b], View("d", b)'}
                  /\ View("i", b)' \in {View("i", b), mem'["I"][b]}
             /\ snoop /\ Through => View("i", a)' = v /\ mem'["I"][a] = v
  <2>1. x = "d" /\ MemBehind("d") = "I" /\ MemBehind("i") = "I" /\ MemBehind("i")' = "I"
    BY <1>7 DEF CacheFor, MemBehind, DataMem
  <2>2. /\ cache'["i"] = cache["i"] /\ mem'["I"] = r.m /\ m = mem["I"]
        /\ k = cache["d"]
    BY <1>4, <2>1 DEF Caches, m, k
  <2>3. \A b : /\ View("i", b) = Visible(cache["i"], m, b)
               /\ View("i", b)' = Visible(cache["i"], r.m, b)
    BY <2>1, <2>2 DEF View
  <2>4. \A b \in RAM : /\ mem'["I"][b] \in {mem["I"][b], View("d", b)'}
                       /\ View("i", b)' \in {View("i", b), mem'["I"][b]}
    <3>1. TAKE b \in RAM
    <3>2. b \in Addr /\ r.m[b] \in {m[b], Visible(r.c, r.m, b)}
      BY <1>3 DEF RAM
    <3>3. View("d", b)' = Visible(r.c, r.m, b)
      BY <1>4, <2>1
    <3>4. Visible(cache["i"], r.m, b) \in {Visible(cache["i"], m, b), r.m[b]}
      BY VisibleOver
    <3> QED
      BY <2>2, <2>3, <3>2, <3>3, <3>4
  <2>5. snoop /\ Through => r.m[a] = v /\ ~Hit(cache["i"], a)
    BY <1>3, <1>7, <2>2 DEF Through, Coherence
  <2> QED
    BY <2>2, <2>3, <2>4, <2>5 DEF Visible
<1>8. Stores(a, v)
  <2>1. mode # "harvard" => \A b \in RAM : mem'["D"][b] = mem["D"][b]
    BY <1>4
  <2> QED
    BY <1>6, <1>7, <2>1 DEF Stores
<1>9. Through' = Through
  BY <1>1, <1>3, <1>4 DEF Through, Caches, k
<1>10. Through => Pushed' \in {Pushed, TRUE}
  <2>1. ASSUME Through PROVE Spotless(cache["d"]) => Spotless(cache'["d"])
    BY <1>1, <1>3, <1>4, <2>1, Zenon DEF Through, Caches, k
  <2> QED
    BY <2>1, PushedIs
<1>11. Pushed' \in IF Through \/ ~on THEN {Pushed, TRUE} ELSE BOOLEAN
  <2>1. CASE Through
    BY <1>10, <2>1
  <2>2. CASE ~Through
    BY <2>2, PushedIs
  <2> QED
    BY <2>1, <2>2
<1> QED
  BY <1>5, <1>8, <1>9, <1>11 DEF Kept

(* cache_clean_addr and cache_snoop after the store of the modified        *)
(* machine: the store is in memory, and its line out of the I$.            *)
LEMMA StoreSnoopedEffect ==
  ASSUME CareInv, NEW a \in RAM, NEW v \in Byte, mode' = mode,
         Coherence(a), snoop, StoreCache(a, v)
  PROVE  Stores(a, v) /\ Kept(a)
<1> DEFINE k == cache["d"]
           m == mem["I"]
<1>1. /\ mode = "modified" /\ on /\ CacheFor("data") = "d" /\ a \in Addr
      /\ Trusted = {"d"} /\ Trusted' = {"d"}
      /\ \A y \in Caches : MemBehind(y) = "I" /\ MemBehind(y)' = "I"
  BY DEF Coherence, CacheFor, Trusted, MemBehind, DataMem, RAM
<1>2. PICK r \in Writes(k, m, a, v) :
        LET d == CleanedAt(r, a)
            i == SnoopedAt([c |-> cache["i"], m |-> d.m], a)
        IN  /\ cache' = [cache EXCEPT !["d"] = d.c, !["i"] = i.c]
            /\ mem' = [mem EXCEPT !["I"] = i.m]
  BY <1>1 DEF StoreCache, Caches
<1> DEFINE d == CleanedAt(r, a)
           q == [c |-> cache["i"], m |-> d.m]
           i == SnoopedAt(q, a)
<1>3. /\ cache' = [cache EXCEPT !["d"] = d.c, !["i"] = i.c]
      /\ mem' = [mem EXCEPT !["I"] = i.m]
  BY <1>2
<1>4. /\ Sound(k, m) /\ mem \in Memories /\ DOMAIN cache = Caches
      /\ Placed(cache["i"]) /\ Spotless(cache["i"])
  BY <1>1, TrustedSound DEF CareInv, MachineInv, CachesKept, Caches
<1> HIDE DEF k, m
<1>5. /\ Sound(r.c, r.m) /\ r.c.wpol = k.wpol
      /\ \A b \in Addr :
           /\ Visible(r.c, r.m, b) = IF b = a THEN v ELSE Visible(k, m, b)
           /\ r.m[b] \in {m[b], Visible(r.c, r.m, b)}
      /\ k.wpol = "through" => r.m[a] = v /\ (Spotless(k) => Spotless(r.c))
  BY <1>1, <1>4, WritesEffect
<1>6. /\ Settled(r.c, r.m, d.c, d.m) /\ d.m[a] = Visible(r.c, r.m, a)
      /\ d.c.wpol = r.c.wpol /\ (Spotless(r.c) => Spotless(d.c))
  BY <1>1, <1>5, CleanedEffect
<1> HIDE DEF d
<1>7. Placed(q.c) /\ Spotless(q.c) /\ IsMemory(q.m)
  BY <1>4, <1>6 DEF Settled, Sound
<1>8. q.c = cache["i"] /\ q.m = d.m
  OBVIOUS
<1> HIDE DEF q
<1>9. /\ i.m = q.m /\ ~Hit(i.c, a)
      /\ \A b \in Addr : Visible(i.c, q.m, b) \in {Visible(q.c, q.m, b), q.m[b]}
  BY <1>1, <1>7, SnoopedEffect
<1> HIDE DEF i
<1>10. /\ cache'["d"] = d.c /\ cache'["i"] = i.c
       /\ mem'["I"] = d.m /\ mem'["D"] = mem["D"]
  BY <1>3, <1>4, <1>8, <1>9 DEF Memories, Caches
<1>11. /\ \A b : /\ View("d", b) = Visible(k, m, b)
                 /\ View("d", b)' = Visible(d.c, d.m, b)
       /\ \A b : /\ View("i", b) = Visible(cache["i"], m, b)
                 /\ View("i", b)' = Visible(i.c, d.m, b)
  BY <1>1, <1>10 DEF View, Caches, k, m
<1>12. \A b \in RAM : View("d", b)' = IF b = a THEN v ELSE View("d", b)
  BY <1>5, <1>6, <1>11 DEF Settled, RAM
<1>13. \A b \in RAM : d.m[b] \in {m[b], View("d", b)'}
  BY <1>5, <1>6, <1>11 DEF Settled, RAM
<1>14. \A b \in RAM : View("i", b)' \in {View("i", b), d.m[b]}
  BY <1>8, <1>9, <1>11, VisibleOver DEF RAM
<1>15. View("i", a)' = v /\ d.m[a] = v
  BY <1>1, <1>5, <1>6, <1>9, <1>11 DEF Visible
<1>16. Stores(a, v)
  BY <1>1, <1>10, <1>12, <1>13, <1>14, <1>15 DEF Stores, m
<1>17. CopiesAgree'
  BY <1>1, <1>6, <1>10 DEF CopiesAgree, Settled, Sound, Caches
<1>18. Through' = Through
  BY <1>5, <1>6, <1>10 DEF Through, k
<1>19. Through => Pushed' \in {Pushed, TRUE}
  <2>1. ASSUME Through PROVE Spotless(cache["d"]) => Spotless(cache'["d"])
    BY <1>5, <1>6, <1>10, <2>1, Zenon DEF Through, k
  <2> QED
    BY <2>1, PushedIs
<1>20. Pushed' \in IF Through \/ ~on THEN {Pushed, TRUE} ELSE BOOLEAN
  <2>1. CASE Through
    BY <1>19, <2>1
  <2>2. CASE ~Through
    BY <1>1, <2>2, PushedIs
  <2> QED
    BY <2>1, <2>2
<1> QED
  BY <1>16, <1>17, <1>18, <1>20, Zenon DEF Kept

LEMMA StoreKeepsCare ==
  ASSUME CareInv, MachineInv', NEW a \in RAM, NEW v \in Byte, Store(a, v)
  PROVE  Stores(a, v) /\ Kept(a)
<1>1. mode' = mode /\ on' = on
  BY DEF Store
<1>2. CASE StoreMemory(a, v)
  BY <1>1, <1>2, StoreMemoryEffect
<1>3. CASE StoreCache(a, v) /\ Coherence(a) /\ snoop
  BY <1>1, <1>3, StoreSnoopedEffect
<1>4. CASE StoreCache(a, v) /\ ~(Coherence(a) /\ snoop)
  <2>1. PICK x : x = CacheFor("data")
    OBVIOUS
  <2>2. PICK r \in Writes(cache[x], mem[MemBehind(x)], a, v) : Update(x, r)
    BY <1>4, <2>1 DEF StoreCache
  <2>3. on
    BY <1>4 DEF StoreCache
  <2> QED
    BY <1>1, <1>4, <2>1, <2>2, <2>3, StoreCacheEffect
<1> QED
  BY <1>2, <1>3, <1>4 DEF Store

(* The store in the eyes of the program. *)
LEMMA StoresShow ==
  ASSUME MachineInv, MachineInv', NEW a \in RAM, NEW v \in Byte, Stores(a, v)
  PROVE  /\ Space' = [Space EXCEPT ![Model!DataSpace][a] = v]
         /\ Seen' \in [RAM -> SUBSET Byte]
         /\ \A b \in RAM \ {a} : Seen'[b] \subseteq Seen[b] /\ Seen'[b] # {}
         /\ IF mode = "harvard" THEN Seen'[a] = Seen[a]
            ELSE IF mode = "vn" \/ ~on \/ (snoop /\ Through) THEN Seen'[a] = {v}
            ELSE v \in Seen'[a] /\ Seen'[a] \subseteq Seen[a] \cup {v}
<1> DEFINE s == Model!DataSpace
           after == [Space EXCEPT ![s][a] = v]
<1>1. SpaceTypes /\ SpaceTypes'
  BY TypedSpaces, PTL
<1>2. mode' = mode /\ mode \in {"vn", "harvard", "modified"}
  BY DEF Stores, MachineInv, SettingsKept
<1>3. ASSUME NEW b \in RAM
      PROVE  /\ mode' = "vn" =>
                  /\ Space'["I"][b] = View("u", b)' /\ Space'["D"][b] = mem'["D"][b]
                  /\ Seen'[b] = {View("u", b)'}
             /\ mode' = "harvard" =>
                  /\ Space'["I"][b] = View("i", b)' /\ Space'["D"][b] = View("d", b)'
                  /\ Seen'[b] = {View("i", b)'}
             /\ mode' = "modified" =>
                  /\ Space'["I"][b] = View("d", b)' /\ Space'["D"][b] = mem'["D"][b]
                  /\ Seen'[b] = {View("i", b)', mem'["I"][b], View("d", b)'}
  BY DEF Space, Seen, View, MemBehind, DataMem, Fetched, Current
<1>4. s = IF mode = "harvard" THEN "D" ELSE "I"
  BY DEF Model!DataSpace
<1>5. /\ after \in [{"I", "D"} -> [RAM -> Byte]]
      /\ \A t \in {"I", "D"}, b \in RAM :
           after[t][b] = IF t = s /\ b = a THEN v ELSE Space[t][b]
  BY <1>1, <1>4 DEF SpaceTypes
<1> HIDE DEF s, after
<1>6. ASSUME NEW b \in RAM
      PROVE  /\ Space'["I"][b] = after["I"][b] /\ Space'["D"][b] = after["D"][b]
             /\ b # a => Seen'[b] \subseteq Seen[b]
             /\ IF mode = "harvard" THEN Seen'[a] = Seen[a]
                ELSE IF mode = "vn" \/ ~on \/ (snoop /\ Through) THEN Seen'[a] = {v}
                ELSE v \in Seen'[a] /\ Seen'[a] \subseteq Seen[a] \cup {v}
  <2>1. CASE mode = "vn"
    <3>1. /\ \A d \in RAM : View("u", d)' = IF d = a THEN v ELSE View("u", d)
          /\ mem'["D"][b] = mem["D"][b]
      BY <2>1 DEF Stores, Trusted, CacheFor
    <3> QED
      BY <1>2, <1>3, <1>4, <1>5, <2>1, <3>1, SpaceIs
  <2>2. CASE mode = "harvard"
    <3>1. /\ \A d \in RAM : View("d", d)' = IF d = a THEN v ELSE View("d", d)
          /\ \A d \in RAM : View("i", d)' = View("i", d)
      BY <2>2 DEF Stores, Trusted, CacheFor
    <3>2. Space'["I"][b] = after["I"][b] /\ Space'["D"][b] = after["D"][b]
      BY <1>2, <1>3, <1>4, <1>5, <2>2, <3>1, SpaceIs
    <3>3. Seen'[b] = Seen[b] /\ Seen'[a] = Seen[a]
      BY ZenonT(60), <1>2, <1>3, <2>2, <3>1, SpaceIs
    <3> QED
      BY <2>2, <3>2, <3>3
  <2>3. CASE mode = "modified"
    <3>1. /\ \A d \in RAM : /\ View("d", d)' = IF d = a THEN v ELSE View("d", d)
                            /\ mem'["I"][d] \in {mem["I"][d], View("d", d)'}
                            /\ View("i", d)' \in {View("i", d), mem'["I"][d]}
          /\ mem'["D"][b] = mem["D"][b]
          /\ ~on \/ (snoop /\ Through) => View("i", a)' = v /\ mem'["I"][a] = v
      BY <2>3 DEF Stores, Trusted, CacheFor
    <3>2. Space'["I"][b] = after["I"][b] /\ Space'["D"][b] = after["D"][b]
      BY <1>2, <1>3, <1>4, <1>5, <2>3, <3>1, SpaceIs
    <3>3. b # a => Seen'[b] \subseteq Seen[b]
      BY <1>2, <1>3, <2>3, <3>1, SpaceIs
    <3>4. /\ Seen'[a] = {View("i", a)', mem'["I"][a], v}
          /\ Seen[a] = {View("i", a), mem["I"][a], View("d", a)}
      BY <1>2, <1>3, <2>3, <3>1, SpaceIs
    <3>5. v \in Seen'[a] /\ Seen'[a] \subseteq Seen[a] \cup {v}
      BY <3>1, <3>4
    <3>6. ~on \/ (snoop /\ Through) => Seen'[a] = {v}
      BY <3>1, <3>4
    <3> QED
      BY <2>3, <3>2, <3>3, <3>5, <3>6
  <2> QED
    BY <1>2, <2>1, <2>2, <2>3
<1>7. Space' = after
  BY <1>1, <1>5, <1>6, SameSpace DEF SpaceTypes
<1>8. /\ Seen' \in [RAM -> SUBSET Byte]
      /\ \A b \in RAM \ {a} : Seen'[b] \subseteq Seen[b] /\ Seen'[b] # {}
  BY <1>1, <1>6 DEF SpaceTypes
<1>9. IF mode = "harvard" THEN Seen'[a] = Seen[a]
      ELSE IF mode = "vn" \/ ~on \/ (snoop /\ Through) THEN Seen'[a] = {v}
      ELSE v \in Seen'[a] /\ Seen'[a] \subseteq Seen[a] \cup {v}
  BY <1>6
<1> QED
  BY <1>7, <1>8, <1>9 DEF after, s

LEMMA StoreStep ==
  ASSUME CareInv, MachineInv', NEW a \in RAM, NEW v \in Byte, Store(a, v)
  PROVE  CopiesAgree' /\ Model!Store(a, v)
<1>1. Stores(a, v) /\ Kept(a)
  BY StoreKeepsCare
<1>2. /\ mode' = mode /\ on' = on /\ snoop' = snoop /\ out' = out
      /\ did' \in {"store", "stale store"}
  BY DEF Store
<1>3. Told' = "store"
  BY <1>2 DEF Told
<1>4. /\ Space' = [Space EXCEPT ![Model!DataSpace][a] = v]
      /\ Seen' \in [RAM -> SUBSET Byte]
      /\ \A b \in RAM \ {a} : Seen'[b] \subseteq Seen[b] /\ Seen'[b] # {}
      /\ IF mode = "harvard" THEN Seen'[a] = Seen[a]
         ELSE IF mode = "vn" \/ ~on \/ (snoop /\ Through) THEN Seen'[a] = {v}
         ELSE v \in Seen'[a] /\ Seen'[a] \subseteq Seen[a] \cup {v}
  BY <1>1, StoresShow DEF CareInv
<1>5. /\ CopiesAgree' /\ Through' = Through
      /\ Pushed' \in IF Through \/ ~on THEN {Pushed, TRUE} ELSE BOOLEAN
  BY <1>1, Zenon DEF Kept
<1>6. UNCHANGED <<Model!settings, out>>
  BY <1>2, <1>5 DEF Model!settings
<1>7. Model!Store(a, v)
  BY <1>3, <1>4, <1>5, <1>6, Zenon DEF Model!Store
<1> QED
  BY <1>5, <1>7

-----------------------------------------------------------------------------
(* The settings. *)

LEMMA SwitchStep ==
  ASSUME CareInv, MachineInv', CacheOn \/ \E b \in BOOLEAN : SetSnoop(b)
  PROVE  CopiesAgree' /\ Model!Setting
<1>1. /\ cache' = cache /\ mem' = mem /\ mode' = mode /\ on' \in {on, TRUE}
      /\ snoop' \in BOOLEAN /\ out' = out /\ did' = "setting"
  BY DEF CacheOn, SetSnoop, CareInv, MachineInv, SettingsKept
<1>2. CopiesAgree' /\ Quiet /\ Through' = Through /\ Pushed' = Pushed
  BY <1>1, NothingMoves
<1>3. Told' = "setting" /\ Through' \in BOOLEAN
  BY <1>1 DEF Told, Through
<1> QED
  BY <1>1, <1>2, <1>3 DEF Model!Setting, Model!Settle, Quiet

(* A cache with the lines of another shows what it shows. *)
LEMMA SameLinesShow ==
  ASSUME NEW c, NEW d, SameGeometry(c, d), d.line = c.line
  PROVE  /\ \A m, x : Visible(d, m, x) = Visible(c, m, x)
         /\ \A m : Agrees(c, m) => Agrees(d, m)
         /\ Spotless(c) => Spotless(d)
<1>1. /\ Slots(d) = Slots(c) /\ Ways(d) = Ways(c) /\ d.line_bytes = c.line_bytes
      /\ \A a : /\ SetOf(d, a) = SetOf(c, a) /\ TagOf(d, a) = TagOf(c, a)
                /\ OffOf(d, a) = OffOf(c, a)
  BY SameDecode DEF SameGeometry
<1>2. \A x, w : /\ Matches(d, x, w) = Matches(c, x, w)
               /\ ByteIn(d, x, w) = ByteIn(c, x, w)
  BY <1>1 DEF Matches, ByteIn
<1>3. \A x : Hit(d, x) = Hit(c, x) /\ HitWay(d, x) = HitWay(c, x)
  BY <1>1, <1>2 DEF Hit, HitWay
<1> QED
  BY <1>1, <1>2, <1>3 DEF Visible, Agrees, Spotless

LEMMA SetPolicyStep ==
  ASSUME CareInv, MachineInv', NEW x \in Caches, NEW p \in Policies[x],
         SetPolicy(x, p[1], p[2], p[3])
  PROVE  CopiesAgree' /\ Model!Setting
<1> DEFINE k == cache[x]
           d == WithPolicy(k, p[1], p[2], p[3])
<1>1. /\ mem' = mem /\ mode' = mode /\ on' = on /\ snoop' = snoop /\ out' = out
      /\ did' = "setting" /\ cache'[x] = d /\ DOMAIN cache' = Caches
      /\ \A y \in Caches : y # x => cache'[y] = cache[y]
  BY DEF SetPolicy, CareInv, MachineInv, CachesKept, WithPolicy
<1>2. IsCache(k)
  BY DEF CareInv, MachineInv, CachesKept, Placed
<1>3. SameGeometry(k, d) /\ d.line = k.line
  BY <1>2 DEF WithPolicy, SameGeometry, IsCache
<1> HIDE DEF d
<1>4. ASSUME NEW y \in Caches
      PROVE  /\ \A m, b : Visible(cache'[y], m, b) = Visible(cache[y], m, b)
             /\ \A m : Agrees(cache[y], m) => Agrees(cache'[y], m)
             /\ Spotless(cache[y]) => Spotless(cache'[y])
  BY <1>1, <1>3, SameLinesShow
<1>5. Trusted' = Trusted /\ Trusted \subseteq Caches
      /\ \A y : MemBehind(y)' = MemBehind(y)
  BY <1>1 DEF Trusted, MemBehind, DataMem, Caches
<1>6. \A y \in Caches : \A b : View(y, b)' = View(y, b)
  BY <1>1, <1>4, <1>5 DEF View
<1>7. Undisturbed
  BY <1>1, <1>5, <1>6 DEF Undisturbed, Caches
<1>8. CopiesAgree'
  BY <1>1, <1>4, <1>5 DEF CareInv, CopiesAgree
<1>9. Quiet
  BY <1>7, UndisturbedIsQuiet DEF CareInv
<1>10. Pushed' \in {Pushed, TRUE}
  <2>1. Spotless(cache["d"]) => Spotless(cache'["d"])
    BY <1>4, Zenon DEF Caches
  <2> QED
    BY <2>1, PushedIs
<1>11. Told' = "setting" /\ Through' \in BOOLEAN /\ snoop \in BOOLEAN
  BY <1>1 DEF Told, Through, CareInv, MachineInv, SettingsKept
<1> QED
  BY <1>1, <1>8, <1>9, <1>10, <1>11 DEF Model!Setting, Model!Settle, Quiet

(* A cache without dirty lines may be emptied: it shows memory from then   *)
(* on, which a trusted one did already.                                    *)
LEMMA ConfigStep ==
  ASSUME CareInv, MachineInv', NEW x \in Caches, NEW r \in Requests[x],
         ~HoldsDirty(x), Config(x, r[1], r[2], r[3])
  PROVE  CopiesAgree' /\ Model!Setting
<1> DEFINE k == cache[x]
           d == Configured(r[1], r[2], r[3], k.repl, k.wpol, k.write_alloc)
<1>1. /\ mem' = mem /\ mode' = mode /\ on' = on /\ snoop' = snoop /\ out' = out
      /\ did' = "setting" /\ cache'[x] = d /\ DOMAIN cache' = Caches
      /\ \A y \in Caches : y # x => cache'[y] = cache[y]
  BY DEF Config, CareInv, MachineInv, CachesKept
<1>2. /\ r[1] \in Nat /\ r[2] \in Nat /\ r[3] \in Nat
      /\ r[1] < WordMod /\ r[2] * r[3] < WordMod
  BY GeometryAssumption DEF IsRequest, Caches
<1>3. GeometryOk(r[1], r[2], r[3])
  BY <1>2, WordGeometry DEF Config
<1>4. k.repl \in Repl /\ k.wpol \in WPol /\ k.write_alloc \in BOOLEAN
  BY DEF CareInv, MachineInv, CachesKept, Placed, IsCache
<1>5. d.wpol = k.wpol
  BY DEF Configured
<1>6. Spotless(k) /\ mem \in Memories /\ \A y \in Caches : Placed(cache[y])
  BY DEF HoldsDirty, Spotless, CareInv, MachineInv, CachesKept
<1> HIDE DEF k
<1>7. Placed(d) /\ Vacant(d)
  BY <1>2, <1>3, <1>4, ConfiguredPlaced
<1> HIDE DEF d
<1>8. ASSUME NEW s \in {"I", "D"}, NEW b \in RAM PROVE Visible(d, mem[s], b) = mem[s][b]
  BY <1>6, <1>7, VacantShows DEF Memories, IsMemory, RAM
<1>9. /\ Trusted' = Trusted /\ Trusted \subseteq Caches
      /\ \A y \in Caches : MemBehind(y)' = MemBehind(y) /\ MemBehind(y) \in {"I", "D"}
  BY <1>1 DEF Trusted, MemBehind, DataMem, Caches
<1>10. ASSUME NEW y \in Trusted, NEW b \in RAM PROVE View(y, b)' = View(y, b)
  <2>1. View(y, b)' = Visible(cache'[y], mem[MemBehind(y)], b)
    BY <1>1, <1>9 DEF View
  <2>2. CASE y = x
    <3>1. Visible(k, mem[MemBehind(y)], b) = mem[MemBehind(y)][b]
      BY <1>6, <2>2, TrustedSound, SpotlessShows DEF k, RAM
    <3>2. Visible(d, mem[MemBehind(y)], b) = mem[MemBehind(y)][b]
      BY <1>8, <1>9
    <3> QED
      BY <1>1, <2>1, <2>2, <3>1, <3>2 DEF View, k
  <2>3. CASE y # x
    BY <1>1, <1>9, <2>1, <2>3 DEF View
  <2> QED
    BY <2>2, <2>3
<1>11. ASSUME mode = "modified", NEW b \in RAM
       PROVE  View("i", b)' \in {View("i", b), mem["I"][b]}
  <2>1. /\ View("i", b)' = Visible(cache'["i"], mem["I"], b)
        /\ View("i", b) = Visible(cache["i"], mem["I"], b)
    BY <1>1 DEF View, MemBehind
  <2>2. CASE x = "i"
    BY <1>1, <1>8, <2>1, <2>2
  <2>3. CASE x # "i"
    BY <1>1, <2>1, <2>3 DEF Caches
  <2> QED
    BY <2>2, <2>3
<1>12. Undisturbed
  BY <1>1, <1>10, <1>11 DEF Undisturbed
<1>13. CopiesAgree'
  <2>1. ASSUME NEW y \in Trusted PROVE Agrees(cache'[y], mem[MemBehind(y)])
    <3>1. CASE y = x
      <4>1. Sound(d, mem[MemBehind(y)])
        BY <1>6, <1>7, <1>9, VacantShows DEF Memories, IsMemory
      <4> QED
        BY <1>1, <3>1, <4>1 DEF Sound
    <3>2. CASE y # x
      BY <1>1, <1>9, <3>2 DEF CareInv, CopiesAgree
    <3> QED
      BY <3>1, <3>2
  <2> QED
    BY <1>1, <1>9, <2>1 DEF CopiesAgree
<1>14. Quiet
  BY <1>12, UndisturbedIsQuiet DEF CareInv
<1>15. Pushed' \in {Pushed, TRUE}
  <2>1. Spotless(cache["d"]) => Spotless(cache'["d"])
    <3>1. Spotless(d)
      BY <1>7 DEF Vacant, Spotless
    <3> QED
      BY <1>1, <3>1, Zenon DEF Caches
  <2> QED
    BY <2>1, PushedIs
<1>16. Told' = "setting" /\ Through' \in BOOLEAN /\ snoop \in BOOLEAN
  BY <1>1 DEF Told, Through, CareInv, MachineInv, SettingsKept
<1> QED
  BY <1>1, <1>13, <1>14, <1>15, <1>16 DEF Model!Setting, Model!Settle, Quiet

-----------------------------------------------------------------------------
(* The maintenance commands, and the side doors of a machine whose caches  *)
(* are empty.                                                              *)

LEMMA FlushCommandStep ==
  ASSUME CareInv, MachineInv', NEW code \in BOOLEAN, NEW data \in BOOLEAN,
         code \/ data, FlushCommand(code, data)
  PROVE  CopiesAgree' /\ (Model!Clean \/ Model!InvalidateI \/ Model!FlushAll)
<1>1. UNCHANGED <<mode, on, snoop, out>>
  BY DEF FlushCommand
<1>2. CASE code = TRUE /\ data = TRUE
  <2>1. Flush(TRUE, TRUE) /\ did' = "flush"
    BY <1>2 DEF FlushCommand
  <2> QED
    BY <1>1, <2>1, FlushBothStep
<1>3. CASE code = TRUE /\ data = FALSE
  <2>1. Flush(TRUE, FALSE) /\ did' = "invalidate"
    BY <1>3 DEF FlushCommand
  <2> QED
    BY <1>1, <2>1, InvalidateStep
<1>4. CASE code = FALSE /\ data = TRUE
  <2>1. Flush(FALSE, TRUE) /\ did' = "clean"
    BY <1>4 DEF FlushCommand
  <2> QED
    BY <1>1, <2>1, FlushDataStep
<1> QED
  BY <1>2, <1>3, <1>4

LEMMA SideDoorStep ==
  ASSUME CareInv, MachineInv', \A x \in Caches : ~Holds(x), SideDoor
  PROVE  CopiesAgree' /\ Model!LoadImage
<1>1. /\ cache' = cache /\ mode' = mode /\ on' = on /\ snoop' = snoop
      /\ out' = out /\ did' \in {"poke", "image"}
  BY DEF SideDoor, Poke, LoadFile
<1>2. AllEmpty'
  BY <1>1 DEF AllEmpty, Vacant, Holds
<1>3. Bare'
  BY <1>2, EmptyIsBare, PTL
<1>4. SpaceTypes'
  BY TypedSpaces, PTL
<1>5. Told' = "image" /\ Through' = Through
  BY <1>1 DEF Told, Through
<1>6. CopiesAgree' /\ Pushed' = TRUE /\ Seen' = Model!Coherent(Space')
  BY <1>3, PushedIs DEF Bare
<1> QED
  BY <1>1, <1>4, <1>5, <1>6 DEF Model!LoadImage, Model!settings, SpaceTypes

-----------------------------------------------------------------------------
(* The whole machine. *)

LEMMA InitCare == Init => CareInv /\ Model!Init
<1> SUFFICES ASSUME Init PROVE CareInv /\ Model!Init
  OBVIOUS
<1>1. MachineInv
  BY InitMachine
<1>2. AllEmpty
  <2>1. ASSUME NEW x \in Caches PROVE Vacant(cache[x])
    <3> DEFINE g == Geometry[x]
    <3>1. /\ g[1] \in Nat /\ g[2] \in Nat /\ g[3] \in Nat
          /\ GeometryOk(g[1], g[2], g[3])
      BY GeometryAssumption DEF Caches
    <3>2. cache[x] = Configured(g[1], g[2], g[3], "lru", "back", TRUE)
      BY DEF Init
    <3> HIDE DEF g
    <3>3. "lru" \in Repl /\ "back" \in WPol /\ TRUE \in BOOLEAN
      BY DEF Repl, WPol
    <3> QED
      BY <3>1, <3>2, <3>3, ConfiguredPlaced
  <2> QED
    BY <2>1 DEF AllEmpty
<1>3. Bare
  BY <1>1, <1>2, EmptyIsBare
<1>4. SpaceTypes
  BY <1>1, TypedSpaces
<1>5. CareInv
  BY <1>1, <1>3 DEF CareInv, Bare
<1>6. mode \in Model!Modes /\ on = TRUE /\ snoop = FALSE /\ out = 0
  BY ModeAssumption DEF Init, Model!Modes
<1>7. Through \in BOOLEAN /\ Told = "none" /\ Pushed = TRUE
  BY <1>3, PushedIs DEF Through, Told, Init, Bare
<1>8. Model!Init
  BY <1>3, <1>4, <1>6, <1>7 DEF Model!Init, SpaceTypes, Bare
<1> QED
  BY <1>5, <1>8

LEMMA AccessCare ==
  ASSUME CareInv, MachineInv', Access
  PROVE  CopiesAgree' /\ Model!Next
<1>1. ASSUME NEW side \in {"code", "data"}, NEW a \in Addr, ReadDevice(side, a)
      PROVE  CopiesAgree' /\ Model!Next
  BY <1>1, ReadDeviceStep DEF Model!Next
<1>2. ASSUME NEW side \in {"code", "data"}, NEW a \in Addr, Read(side, a)
      PROVE  CopiesAgree' /\ Model!Next
  <2>1. a \in RAM /\ (ReadMemory(side, a) \/ ReadCache(side, a))
    BY <1>2 DEF Read, RAM
  <2>2. CopiesAgree' /\ (Model!Fetch(a) \/ Model!Load(a))
    BY <1>2, <2>1, ReadMemoryStep, ReadCacheStep
  <2> QED
    BY <2>1, <2>2 DEF Model!Next
<1>3. ASSUME NEW a \in Addr, NEW v \in Byte, StoreDevice(a, v)
      PROVE  CopiesAgree' /\ Model!Next
  BY <1>3, StoreDeviceStep DEF Model!Next
<1>4. ASSUME NEW a \in Addr, NEW v \in Byte, Store(a, v)
      PROVE  CopiesAgree' /\ Model!Next
  <2>1. a \in RAM
    BY <1>4 DEF Store, RAM
  <2>2. CopiesAgree' /\ Model!Store(a, v)
    BY <1>4, <2>1, StoreStep
  <2> QED
    BY <2>1, <2>2 DEF Model!Next
<1> QED
  BY <1>1, <1>2, <1>3, <1>4, AddressAssumption DEF Access

LEMMA CommandCare ==
  ASSUME CareInv, MachineInv', Command
  PROVE  CopiesAgree' /\ Model!Next
<1>1. ASSUME NEW m \in ModesUsed, SetMode(m) PROVE CopiesAgree' /\ Model!Next
  <2>1. m \in Model!Modes
    BY ModeAssumption DEF Model!Modes
  <2> QED
    BY <1>1, <2>1, SetModeStep DEF Model!Next
<1>2. CASE CacheOn \/ \E b \in BOOLEAN : SetSnoop(b)
  BY <1>2, SwitchStep DEF Model!Next
<1>3. CASE CacheOff
  BY <1>3, CacheOffStep DEF Model!Next
<1>4. ASSUME NEW x \in Caches, NEW p \in Policies[x], SetPolicy(x, p[1], p[2], p[3])
      PROVE  CopiesAgree' /\ Model!Next
  BY <1>4, SetPolicyStep DEF Model!Next
<1>5. CASE CleanCommand
  BY <1>5, CleanDataStep DEF CleanCommand, Model!Next
<1>6. ASSUME NEW code \in BOOLEAN, NEW data \in BOOLEAN, code \/ data,
             FlushCommand(code, data)
      PROVE  CopiesAgree' /\ Model!Next
  BY <1>6, FlushCommandStep DEF Model!Next
<1> QED
  BY <1>1, <1>2, <1>3, <1>4, <1>5, <1>6 DEF Command

LEMMA StepCare ==
  CareInv /\ [CareNext]_vars => CareInv' /\ [Model!Next]_Model!vars
<1> SUFFICES ASSUME CareInv, [CareNext]_vars
             PROVE  CareInv' /\ [Model!Next]_Model!vars
  OBVIOUS
<1>1. MachineInv'
  <2>1. [Next]_vars
    BY DEF CareNext, Next, Reshape
  <2> QED
    BY <2>1, StepMachine DEF CareInv
<1>2. CASE Access
  BY <1>1, <1>2, AccessCare DEF CareInv
<1>3. CASE Command
  BY <1>1, <1>3, CommandCare DEF CareInv
<1>4. CASE \E x \in Caches : \E r \in Requests[x] :
             ~HoldsDirty(x) /\ Config(x, r[1], r[2], r[3])
  <2>1. CopiesAgree' /\ Model!Setting
    BY <1>1, <1>4, ConfigStep
  <2> QED
    BY <1>1, <2>1 DEF CareInv, Model!Next
<1>5. CASE (\A x \in Caches : ~Holds(x)) /\ SideDoor
  <2>1. CopiesAgree' /\ Model!LoadImage
    BY <1>1, <1>5, SideDoorStep
  <2> QED
    BY <1>1, <2>1 DEF CareInv, Model!Next
<1>6. CASE UNCHANGED vars
  <2>1. /\ mode' = mode /\ on' = on /\ snoop' = snoop /\ cache' = cache /\ mem' = mem
        /\ out' = out /\ did' = did
    BY <1>6 DEF vars
  <2>2. /\ CopiesAgree' /\ Space' = Space /\ Seen' = Seen
        /\ Through' = Through /\ Pushed' = Pushed
    BY <1>1, <2>1, NothingMoves
  <2>3. Told' = Told
    BY <2>1 DEF Told
  <2> QED
    BY <1>1, <2>1, <2>2, <2>3 DEF CareInv, Model!vars
<1> QED
  BY <1>2, <1>3, <1>4, <1>5, <1>6 DEF CareNext

(* In a machine used with care every clean line of every cache that answers*)
(* for its memory (cu, cd, and ci of the Harvard machine) agrees with it,  *)
(* so that cache_snoop, an eviction or cache_config drops nothing but a    *)
(* copy.                                                                   *)
THEOREM CareInvariant == CareSpec => []CareInv
BY InitCare, StepCare, PTL DEF CareSpec

(* The machine is the one the mode promises: what ms_read returns and      *)
(* ms_write stores, and what the maintenance registers, the mode command,  *)
(* the cache switch and config leave, is what Architecture says, for every *)
(* geometry and policy of the three caches.                                *)
THEOREM MachineRefines == CareSpec => KeepsModel
<1>1. Init => Model!Init
  BY InitCare
<1>2. CareInv /\ [CareNext]_vars => [Model!Next]_Model!vars
  BY StepCare
<1> QED
  BY <1>1, <1>2, CareInvariant, PTL DEF CareSpec, KeepsModel, Model!Spec

(* What a store of the modified machine does to the copies of a byte.      *)
LEMMA StoreCounted ==
  ASSUME CareInv, MachineInv', NEW a \in RAM, NEW v \in Byte, Store(a, v),
         mode = "modified", did' = "store", NEW b \in RAM,
         Hit(cache["i"], b), Fetched(b) = Current(b), Current(b) = mem["I"][b]
  PROVE  Fetched(b)' = Current(b)'
<1>1. Stores(a, v)
  BY StoreKeepsCare
<1>2. /\ View("d", b)' = IF b = a THEN v ELSE View("d", b)
      /\ mem'["I"][b] \in {mem["I"][b], View("d", b)'}
      /\ View("i", b)' \in {View("i", b), mem'["I"][b]}
      /\ ~on \/ (snoop /\ (Through \/ Coherence(a))) => View("i", a)' = v
  BY <1>1 DEF Stores, Trusted, CacheFor
<1>3. /\ Fetched(b) = View("i", b) /\ Fetched(b)' = View("i", b)'
      /\ Current(b) = View("d", b) /\ Current(b)' = View("d", b)'
  BY <1>1 DEF Stores, View, Fetched, Current, MemBehind, DataMem
<1>4. CASE b # a
  BY <1>2, <1>3, <1>4
<1>5. CASE b = a
  <2>1. ~on \/ Coherence(a)
    BY <1>5 DEF Coherence
  <2>2. ~(Coherence(a) /\ ~snoop)
    BY DEF Store
  <2> QED
    BY <1>2, <1>3, <1>5, <2>1, <2>2
<1> QED
  BY <1>4, <1>5

(* The stale-write counter of ms_write misses no store that parts the two  *)
(* sides of the modified machine.                                          *)
THEOREM StaleCounted == CareSpec => StaleIsCounted
<1> DEFINE Counted ==
      mode = "modified" /\ did' = "store" =>
        \A a \in RAM :
          Hit(cache["i"], a) /\ Fetched(a) = Current(a) /\ Current(a) = mem["I"][a]
            => Fetched(a)' = Current(a)'
<1>1. CareInv /\ CareInv' /\ [CareNext]_vars => [Counted]_vars
  <2> SUFFICES ASSUME CareInv, CareInv', CareNext, mode = "modified", did' = "store",
                      NEW b \in RAM, Hit(cache["i"], b),
                      Fetched(b) = Current(b), Current(b) = mem["I"][b]
               PROVE  Fetched(b)' = Current(b)'
    OBVIOUS
  <2>1. PICK a \in DataAddr, v \in Byte : Store(a, v)
    BY DEF CareNext, Access, ReadDevice, Read, StoreDevice, Command, SetMode, CacheOn,
           CacheOff, SetSnoop, SetPolicy, CleanCommand, FlushCommand, Config,
           SideDoor, Poke, LoadFile
  <2>2. a \in RAM
    BY <2>1, AddressAssumption DEF Store, RAM
  <2> QED
    BY <2>1, <2>2, StoreCounted DEF CareInv
<1> QED
  BY <1>1, CareInvariant, PTL DEF CareSpec, StaleIsCounted

(* cache_clean_addr and cache_snoop, after the store, bring it to the      *)
(* fetch side at once.                                                     *)
THEOREM SnoopMends == CareSpec => SnoopRepairs
<1> DEFINE Repaired ==
      \A a \in DataAddr \ IOPage, v \in Byte :
        snoop /\ Coherence(a) /\ Store(a, v) => Fetched(a)' = v
<1>1. CareInv /\ CareInv' => Repaired
  <2> SUFFICES ASSUME CareInv, CareInv', NEW a \in DataAddr \ IOPage, NEW v \in Byte,
                      snoop, Coherence(a), Store(a, v)
               PROVE  Fetched(a)' = v
    OBVIOUS
  <2>1. a \in RAM
    BY AddressAssumption DEF RAM
  <2>2. Stores(a, v)
    BY <2>1, StoreKeepsCare DEF CareInv
  <2>3. View("i", a)' = v
    BY <2>2 DEF Stores, Coherence
  <2> QED
    BY <2>2, <2>3 DEF Stores, Coherence, View, Fetched, MemBehind
<1> QED
  BY <1>1, CareInvariant, PTL DEF CareSpec, SnoopRepairs
=============================================================================
