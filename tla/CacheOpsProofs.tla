--------------------------- MODULE CacheOpsProofs ---------------------------
(***************************************************************************)
(* Lemmas about the cache operations of CacheOps, for any address space,   *)
(* geometry and policy: what cache_decode computes, and that every         *)
(* operation keeps a cache well formed.                                    *)
(***************************************************************************)
EXTENDS CacheOps, TLAPS

(* A smaller power of two divides a larger one: lines tile the address     *)
(* space.                                                                  *)
LEMMA Pow2Divides ==
  \A x, y \in Pow2 : x <= y => y % x = 0
BY DEF Pow2

(* A power of two is not zero. *)
LEMMA Pow2Positive == \A x \in Pow2 : x \in Nat \ {0}
BY DEF Pow2

(* The aligned block of n around a number, and the quotient that names it. *)
LEMMA AlignedBlock ==
  \A x, y \in Nat, n \in Nat \ {0} :
    /\ y \in x - (x % n) .. x - (x % n) + n - 1 => x \div n = y \div n
    /\ x \div n = y \div n => x - (x % n) = y - (y % n)
    /\ x \in x - (x % n) .. x - (x % n) + n - 1
OBVIOUS

(* The products and quotients cache_config computes. *)
LEMMA WaysPerSize ==
  \A size, lb, ways \in Nat :
    lb >= 1 /\ ways >= 1 =>
      /\ lb * ways >= 1
      /\ size \div (lb * ways) \in Nat
      /\ (size \div (lb * ways)) * ways \in Nat
      /\ (size \div (lb * ways)) * ways <= size
<1> SUFFICES ASSUME NEW size \in Nat, NEW lb \in Nat, NEW ways \in Nat,
                    lb >= 1, ways >= 1
             PROVE  /\ lb * ways >= 1
                    /\ size \div (lb * ways) \in Nat
                    /\ (size \div (lb * ways)) * ways \in Nat
                    /\ (size \div (lb * ways)) * ways <= size
  OBVIOUS
<1> DEFINE set == lb * ways
           q   == size \div set
<1>1. set \in Nat /\ set >= 1 /\ set >= ways
  OBVIOUS
<1>2. q \in Nat /\ q * set <= size
  <2> HIDE DEF set
  <2> QED BY <1>1
<1>3. q * ways \in Nat /\ q * ways <= q * set
  <2> HIDE DEF set, q
  <2> QED BY <1>1, <1>2
<1>4. q * set \in Nat
  <2> HIDE DEF set, q
  <2> QED BY <1>1, <1>2
<1> HIDE DEF q
<1>5. q * ways <= size
  BY <1>2, <1>3, <1>4
<1> QED BY <1>1, <1>2, <1>3, <1>5 DEF q

(* The checks of cache_config, made in unsigned arithmetic, accept exactly *)
(* the good geometries, for every size and every line and number of ways   *)
(* whose product fits a word.                                              *)
THEOREM WordGeometry ==
  \A size, lb, ways \in Nat :
    size < WordMod /\ lb * ways < WordMod =>
      (Accepts(size, lb, ways) <=> GeometryOk(size, lb, ways))
<1> SUFFICES ASSUME NEW size \in Nat, NEW lb \in Nat, NEW ways \in Nat,
                    size < WordMod, lb * ways < WordMod
             PROVE  Accepts(size, lb, ways) <=> GeometryOk(size, lb, ways)
  OBVIOUS
<1>w. WordMod \in Nat
  BY WordAssumption
<1>1. CASE lb \in Pow2 /\ ways >= 1
  <2> DEFINE set == lb * ways
             q   == size \div set
  <2>1. lb >= 1
    BY <1>1, Pow2Positive
  <2>2. set >= 1 /\ q \in Nat /\ q * ways \in Nat /\ q * ways <= size
    BY <1>1, <2>1, WaysPerSize
  <2>3. Times(lb, ways) = set
    <3>1. set \in Nat
      OBVIOUS
    <3> QED BY <1>w, <3>1 DEF Times
  <2>4. Times(q, ways) = q * ways
    <3> HIDE DEF q
    <3> QED BY <1>w, <2>2 DEF Times
  <2> QED BY <1>1, <2>1, <2>3, <2>4 DEF Accepts, GeometryOk
<1>2. CASE ~(lb \in Pow2 /\ ways >= 1)
  BY <1>2 DEF Accepts, GeometryOk
<1> QED BY <1>1, <1>2

(* A number is determined by its quotient and its remainder.               *)
LEMMA QuotientRemainder ==
  \A x, y \in Nat, n \in Nat \ {0} :
    x % n = y % n /\ x \div n = y \div n => x = y
OBVIOUS

(* Quotients and remainders of naturals are naturals. *)
LEMMA DivisionTypes ==
  \A x \in Nat, n \in Nat \ {0} : x % n \in 0 .. n - 1 /\ x \div n \in Nat
OBVIOUS

(* A block that starts below a multiple of its size also ends below it.    *)
LEMMA BlockFits ==
  ASSUME NEW n \in Nat \ {0}, NEW top \in Nat, top % n = 0,
         NEW x \in Nat, x < top, NEW i \in 0 .. n - 1
  PROVE  x - (x % n) + i \in 0 .. top - 1
<1> DEFINE q == x \div n
           r == x % n
           t == top \div n
<1>1. top = n * t /\ t \in Nat
  OBVIOUS
<1>2. x = n * q + r /\ q \in Nat /\ r \in 0 .. n - 1
  OBVIOUS
<1> HIDE DEF q, r, t
<1>3. q < t
  BY <1>1, <1>2
<1>4. n * (q + 1) <= n * t
  BY <1>1, <1>2, <1>3
<1>5. x - r + i \in 0 .. top - 1
  BY <1>1, <1>2, <1>4
<1> QED
  BY <1>5 DEF r

(* What cache_decode and the base computation of refill return.            *)
LEMMA DecodeTypes ==
  ASSUME NEW c, IsCache(c), NEW a \in Addr
  PROVE  /\ SetOf(c, a) \in 0 .. c.sets - 1
         /\ TagOf(c, a) \in Nat
         /\ BaseOf(c, a) \in Nat
         /\ OffOf(c, a) \in 0 .. c.line_bytes - 1
         /\ a = BaseOf(c, a) + OffOf(c, a)
BY Pow2Positive, MemAssumption DEF IsCache, Addr, SetOf, TagOf, BaseOf, OffOf

(* The bytes of a line are all in the address space: base + i never wraps. *)
LEMMA LineInMemory ==
  ASSUME NEW c, IsCache(c), NEW a \in Addr, NEW i \in 0 .. c.line_bytes - 1
  PROVE  BaseOf(c, a) + i \in Addr
<1>1. /\ c.line_bytes \in Nat \ {0} /\ MemSize \in Nat
      /\ MemSize % c.line_bytes = 0
  BY Pow2Positive, Pow2Divides, MemAssumption DEF IsCache
<1>2. a \in Nat /\ a < MemSize
  BY <1>1 DEF Addr
<1>3. a - (a % c.line_bytes) + i \in 0 .. MemSize - 1
  BY <1>1, <1>2, BlockFits
<1> QED
  BY <1>3 DEF BaseOf, Addr

(* Two addresses with the same set and tag are in the same line, and the   *)
(* addresses a line spans all decode to it.                                *)
LEMMA SameLine ==
  ASSUME NEW c, IsCache(c), NEW a \in Addr, NEW b \in Addr
  PROVE  /\ SetOf(c, a) = SetOf(c, b) /\ TagOf(c, a) = TagOf(c, b)
            => BaseOf(c, a) = BaseOf(c, b)
         /\ b \in BaseOf(c, a) .. BaseOf(c, a) + c.line_bytes - 1
            => /\ SetOf(c, a) = SetOf(c, b) /\ TagOf(c, a) = TagOf(c, b)
               /\ BaseOf(c, a) = BaseOf(c, b)
<1>1. /\ c.line_bytes \in Nat \ {0} /\ c.sets \in Nat \ {0}
      /\ a \in Nat /\ b \in Nat
  BY Pow2Positive, MemAssumption DEF IsCache, Addr
<1>2. a \div c.line_bytes \in Nat /\ b \div c.line_bytes \in Nat
  BY <1>1, DivisionTypes
<1>3. SetOf(c, a) = SetOf(c, b) /\ TagOf(c, a) = TagOf(c, b)
      => a \div c.line_bytes = b \div c.line_bytes
  BY <1>1, <1>2, QuotientRemainder DEF SetOf, TagOf
<1>4. a \div c.line_bytes = b \div c.line_bytes => BaseOf(c, a) = BaseOf(c, b)
  BY <1>1, AlignedBlock DEF BaseOf
<1>5. b \in BaseOf(c, a) .. BaseOf(c, a) + c.line_bytes - 1
      => a \div c.line_bytes = b \div c.line_bytes
  BY <1>1, AlignedBlock DEF BaseOf
<1> QED
  BY <1>3, <1>4, <1>5 DEF SetOf, TagOf

-----------------------------------------------------------------------------
(* A cache and its memory in a state the operations keep them in. *)
Sound(c, m) ==
  IsCache(c) /\ IsMemory(m) /\ NoTwin(c) /\ InPlace(c) /\ Agrees(c, m)

(* From (c, m) to (d, n) every read still returns the same byte, and memory*)
(* moved only by catching up with what a read returns.                     *)
Settled(c, m, d, n) ==
  /\ Sound(d, n)
  /\ \A x \in Addr : /\ Visible(d, n, x) = Visible(c, m, x)
                     /\ n[x] = m[x] \/ n[x] = Visible(c, m, x)

SameGeometry(c, d) ==
  d.line_bytes = c.line_bytes /\ d.sets = c.sets /\ d.ways = c.ways

(* The types of one line and of the geometry. *)
LEMMA LineTypes ==
  ASSUME NEW c, IsCache(c), NEW p \in Slots(c)
  PROVE  /\ c.line[p] \in CacheLine(c.line_bytes)
         /\ c.line[p].valid \in BOOLEAN /\ c.line[p].dirty \in BOOLEAN
         /\ c.line[p].tag \in Nat /\ c.line[p].base \in Nat
         /\ c.line[p].data \in [0 .. c.line_bytes - 1 -> Byte]
         /\ c.line_bytes \in Nat \ {0} /\ c.clock \in Stamp
         /\ p[1] \in 0 .. c.sets - 1 /\ p[2] \in Ways(c) /\ p = <<p[1], p[2]>>
<1>1. c.line[p] \in CacheLine(c.line_bytes)
  BY DEF IsCache
<1>2. c.line_bytes \in Nat \ {0} /\ c.clock \in Stamp
  BY Pow2Positive DEF IsCache
<1> QED
  BY <1>1, <1>2 DEF CacheLine, Slots

(* Caches of one geometry decode alike. *)
LEMMA SameDecode ==
  ASSUME NEW c, NEW d, SameGeometry(c, d)
  PROVE  /\ Slots(d) = Slots(c) /\ Ways(d) = Ways(c)
         /\ \A a : /\ SetOf(d, a) = SetOf(c, a) /\ TagOf(d, a) = TagOf(c, a)
                  /\ BaseOf(d, a) = BaseOf(c, a) /\ OffOf(d, a) = OffOf(c, a)
         /\ \A l : Extent(d, l) = Extent(c, l)
BY DEF SameGeometry, Slots, Ways, SetOf, TagOf, BaseOf, OffOf, Extent

(* Cache c with line l in slot p and the clock at k. *)
WithLine(c, p, l, k) == [c EXCEPT !.clock = k, !.line[p] = l]

(* Replacing one line, and the clock, by values of their types. *)
LEMMA OneLine ==
  ASSUME NEW c, IsCache(c), NEW p \in Slots(c),
         NEW l \in CacheLine(c.line_bytes), NEW k \in Stamp
  PROVE  /\ IsCache(WithLine(c, p, l, k))
         /\ SameGeometry(c, WithLine(c, p, l, k))
         /\ WithLine(c, p, l, k).clock = k
         /\ WithLine(c, p, l, k).line[p] = l
         /\ \A q \in Slots(c) : q # p => WithLine(c, p, l, k).line[q] = c.line[q]
<1> DEFINE d == WithLine(c, p, l, k)
<1>1. SameGeometry(c, d) /\ d.line = [c.line EXCEPT ![p] = l] /\ d.clock = k
  BY DEF IsCache, SameGeometry, WithLine
<1>2. Slots(d) = Slots(c)
  BY <1>1, SameDecode
<1>3. c.line \in [Slots(c) -> CacheLine(c.line_bytes)]
  BY DEF IsCache
<1>4. d.line \in [Slots(d) -> CacheLine(d.line_bytes)]
  BY <1>1, <1>2, <1>3 DEF SameGeometry
<1>5. IsCache(d)
  BY <1>1, <1>4 DEF IsCache, SameGeometry, WithLine
<1> QED
  BY <1>1, <1>3, <1>5

(* A valid line covers exactly the addresses that decode to it. *)
LEMMA Covers ==
  ASSUME NEW c, IsCache(c), InPlace(c), NEW p \in Slots(c),
         c.line[p].valid, NEW x \in Addr
  PROVE  /\ x \in Extent(c, c.line[p])
             <=> p[1] = SetOf(c, x) /\ c.line[p].tag = TagOf(c, x)
         /\ x \in Extent(c, c.line[p])
             => /\ c.line[p].base = BaseOf(c, x)
                /\ x - c.line[p].base = OffOf(c, x)
                /\ OffOf(c, x) \in 0 .. c.line_bytes - 1
<1>1. PICK a \in Addr : /\ p[1] = SetOf(c, a)
                        /\ c.line[p].tag = TagOf(c, a)
                        /\ c.line[p].base = BaseOf(c, a)
  BY DEF InPlace
<1>2. x \in Extent(c, c.line[p])
      <=> x \in BaseOf(c, a) .. BaseOf(c, a) + c.line_bytes - 1
  BY <1>1 DEF Extent
<1>3. x \in Extent(c, c.line[p])
      => /\ SetOf(c, a) = SetOf(c, x) /\ TagOf(c, a) = TagOf(c, x)
         /\ BaseOf(c, a) = BaseOf(c, x)
  BY <1>2, SameLine
<1>4. SetOf(c, a) = SetOf(c, x) /\ TagOf(c, a) = TagOf(c, x)
      => BaseOf(c, a) = BaseOf(c, x)
  BY SameLine
<1>5. /\ x = BaseOf(c, x) + OffOf(c, x) /\ BaseOf(c, x) \in Nat
      /\ OffOf(c, x) \in 0 .. c.line_bytes - 1
  BY DecodeTypes
<1>6. c.line_bytes \in Nat
  BY Pow2Positive DEF IsCache
<1>7. x \in BaseOf(c, x) .. BaseOf(c, x) + c.line_bytes - 1
  BY <1>5, <1>6
<1> QED
  BY <1>1, <1>2, <1>3, <1>4, <1>5, <1>7

(* Where the one valid line with the set and tag of x is, a read of x      *)
(* returns its byte; where there is none, it returns memory's.             *)
LEMMA VisibleByte ==
  ASSUME NEW c, NEW m, IsCache(c), NoTwin(c), NEW x \in Addr
  PROVE  /\ \A w \in Ways(c) : Matches(c, x, w)
              => Hit(c, x) /\ HitWay(c, x) = w /\ Visible(c, m, x) = ByteIn(c, x, w)
         /\ ~Hit(c, x) => Visible(c, m, x) = m[x]
<1>1. SUFFICES ASSUME NEW w \in Ways(c), Matches(c, x, w)
               PROVE  HitWay(c, x) = w
  BY DEF Hit, Visible
<1>2. SetOf(c, x) \in 0 .. c.sets - 1
  BY DecodeTypes
<1>3. \A v \in Ways(c) : Matches(c, x, v) => v = w
  <2>1. TAKE v \in Ways(c)
  <2>2. HAVE Matches(c, x, v)
  <2>3. <<SetOf(c, x), v>> \in Slots(c) /\ <<SetOf(c, x), w>> \in Slots(c)
    BY <1>2 DEF Slots
  <2>4. <<SetOf(c, x), v>> = <<SetOf(c, x), w>>
    BY <1>1, <2>2, <2>3 DEF NoTwin, Matches
  <2> QED
    BY <2>4
<1>4. w <= w
  BY DEF IsCache, Ways
<1> QED
  BY <1>1, <1>3, <1>4 DEF HitWay

(* The line that holds x, if any, is not touched by a change elsewhere. *)
LEMMA OtherLine ==
  ASSUME NEW c, NEW d, IsCache(c), SameGeometry(c, d), NEW p \in Slots(c),
         \A q \in Slots(c) : q # p => d.line[q] = c.line[q],
         NEW x \in Addr, NEW w \in Ways(c), <<SetOf(c, x), w>> # p
  PROVE  /\ Matches(d, x, w) <=> Matches(c, x, w)
         /\ ByteIn(d, x, w) = ByteIn(c, x, w)
<1>1. <<SetOf(c, x), w>> \in Slots(c)
  BY DecodeTypes DEF Slots
<1> QED
  BY <1>1, SameDecode DEF Matches, ByteIn

(* Writing one line back, which leaves it resident and clean, settles. *)
LEMMA WriteBackSettles ==
  ASSUME NEW c, NEW m, Sound(c, m), NEW p \in Slots(c),
         NEW d, d = [c EXCEPT !.line[p] = Cleaned(c.line[p])],
         NEW n, n = WrittenBack(c, m, c.line[p])
  PROVE  Settled(c, m, d, n) /\ SameGeometry(c, d) /\ d.clock = c.clock
         /\ d.line[p] = Cleaned(c.line[p])
         /\ \A q \in Slots(c) : q # p => d.line[q] = c.line[q]
<1> DEFINE l == c.line[p]
<1>1. l \in CacheLine(c.line_bytes) /\ Cleaned(l) \in CacheLine(c.line_bytes)
  BY DEF Sound, IsCache, CacheLine, Cleaned
<1>2. d = WithLine(c, p, Cleaned(c.line[p]), c.clock)
  BY DEF Sound, IsCache, WithLine
<1>3. /\ IsCache(d) /\ SameGeometry(c, d) /\ d.line[p] = Cleaned(l)
      /\ \A q \in Slots(c) : q # p => d.line[q] = c.line[q]
      /\ d.clock = c.clock
  <2>1. c.clock \in Stamp /\ IsCache(c)
    BY LineTypes DEF Sound
  <2> DEFINE e == WithLine(c, p, Cleaned(l), c.clock)
  <2>2. /\ IsCache(e) /\ e.clock = c.clock /\ SameGeometry(c, e)
        /\ e.line[p] = Cleaned(l)
    BY <1>1, <2>1, OneLine
  <2>3. \A q \in Slots(c) : q # p => e.line[q] = c.line[q]
    BY <1>1, <2>1, OneLine
  <2>4. d = e
    BY <1>2
  <2> HIDE DEF e, l
  <2> QED
    BY <2>2, <2>3, <2>4
<1>4. /\ Cleaned(l).valid = l.valid /\ Cleaned(l).tag = l.tag
      /\ Cleaned(l).base = l.base /\ Cleaned(l).data = l.data
      /\ l.valid => ~Cleaned(l).dirty
  BY <1>1 DEF Cleaned, CacheLine
<1>5. /\ Slots(d) = Slots(c) /\ Ways(d) = Ways(c)
      /\ \A x \in Addr : SetOf(d, x) = SetOf(c, x) /\ TagOf(d, x) = TagOf(c, x)
      /\ \A x \in Addr : BaseOf(d, x) = BaseOf(c, x) /\ OffOf(d, x) = OffOf(c, x)
      /\ d.line_bytes = c.line_bytes
  BY <1>3, SameDecode DEF SameGeometry
<1>6. \A q \in Slots(c) : /\ d.line[q].valid = c.line[q].valid
                          /\ d.line[q].tag = c.line[q].tag
                          /\ d.line[q].base = c.line[q].base
                          /\ d.line[q].data = c.line[q].data
  BY <1>3, <1>4
<1>7. NoTwin(d)
  BY <1>5, <1>6 DEF Sound, NoTwin
<1>8. InPlace(d)
  BY <1>5, <1>6 DEF Sound, InPlace
<1>9. \A x \in Addr : Visible(d, n, x) = IF Hit(c, x) THEN Visible(c, m, x) ELSE n[x]
  <2>1. TAKE x \in Addr
  <2>2. SetOf(c, x) \in 0 .. c.sets - 1
    BY DecodeTypes DEF Sound
  <2>3. \A w \in Ways(c) : /\ Matches(d, x, w) <=> Matches(c, x, w)
                           /\ ByteIn(d, x, w) = ByteIn(c, x, w)
    BY <1>5, <1>6, <2>2 DEF Matches, ByteIn, Slots
  <2>4. Hit(d, x) <=> Hit(c, x)
    BY <1>5, <2>3 DEF Hit
  <2>5. CASE Hit(c, x)
    <3>1. PICK w \in Ways(c) : Matches(c, x, w)
      BY <2>5 DEF Hit
    <3>2. Visible(c, m, x) = ByteIn(c, x, w)
      BY <3>1, VisibleByte DEF Sound
    <3>3. Visible(d, n, x) = ByteIn(d, x, w)
      BY <1>3, <1>5, <1>7, <2>3, <3>1, VisibleByte
    <3> QED
      BY <2>3, <2>5, <3>2, <3>3
  <2>6. CASE ~Hit(c, x)
    BY <2>4, <2>6 DEF Visible
  <2> QED
    BY <2>5, <2>6
<1>10. /\ IsMemory(n)
       /\ \A x \in Addr : n[x] = IF l.valid /\ l.dirty /\ x \in Extent(c, l)
                                THEN Visible(c, m, x) ELSE m[x]
  <2>1. ASSUME l.valid, l.dirty, NEW x \in Addr, x \in Extent(c, l)
        PROVE  /\ l.data[x - l.base] = Visible(c, m, x)
               /\ l.data[x - l.base] \in Byte
    <3>1. /\ p[1] = SetOf(c, x) /\ l.tag = TagOf(c, x)
          /\ x - l.base = OffOf(c, x) /\ OffOf(c, x) \in 0 .. c.line_bytes - 1
      BY <2>1, Covers DEF Sound
    <3>2. p = <<SetOf(c, x), p[2]>> /\ p[2] \in Ways(c)
      BY <3>1 DEF Slots
    <3>3. Matches(c, x, p[2])
      BY <2>1, <3>1, <3>2 DEF Matches
    <3>4. Visible(c, m, x) = ByteIn(c, x, p[2])
      BY <3>2, <3>3, VisibleByte DEF Sound
    <3>5. ByteIn(c, x, p[2]) = l.data[x - l.base]
      BY <3>1, <3>2 DEF ByteIn
    <3> QED
      BY <1>1, <3>1, <3>4, <3>5 DEF CacheLine
  <2> QED
    BY <2>1 DEF WrittenBack, Sound, IsMemory
<1>11. \A x \in Addr : ~Hit(c, x) => Visible(c, m, x) = m[x] /\ n[x] = m[x]
  <2>1. TAKE x \in Addr
  <2>2. HAVE ~Hit(c, x)
  <2>3. Visible(c, m, x) = m[x]
    BY <2>2 DEF Visible
  <2> QED
    BY <1>10, <2>3
<1>12. \A x \in Addr : /\ Visible(d, n, x) = Visible(c, m, x)
                       /\ n[x] = m[x] \/ n[x] = Visible(c, m, x)
  BY <1>9, <1>10, <1>11
<1>13. Agrees(d, n)
  <2>1. SUFFICES ASSUME NEW q \in Slots(c), c.line[q].valid, ~d.line[q].dirty,
                        NEW i \in 0 .. c.line_bytes - 1
                 PROVE  c.line[q].data[i] = n[c.line[q].base + i]
    BY <1>5, <1>6 DEF Agrees
  <2> DEFINE x == c.line[q].base + i
  <2>2. x \in Addr
    BY <2>1, LineInMemory DEF Sound, InPlace
  <2>3. x \in Extent(c, c.line[q])
    BY <2>1, LineTypes DEF Extent, Sound
  <2>4. /\ q[1] = SetOf(c, x) /\ c.line[q].tag = TagOf(c, x)
        /\ x - c.line[q].base = OffOf(c, x)
    BY <2>1, <2>2, <2>3, Covers DEF Sound
  <2>5. i = OffOf(c, x)
    BY <2>1, <2>4, LineTypes DEF Sound
  <2>6. q = <<SetOf(c, x), q[2]>> /\ q[2] \in Ways(c)
    BY <2>4 DEF Slots
  <2>7. Matches(c, x, q[2])
    BY <2>1, <2>4, <2>6 DEF Matches
  <2>8. Visible(c, m, x) = c.line[q].data[i]
    BY <2>2, <2>5, <2>6, <2>7, VisibleByte DEF Sound, ByteIn
  <2>9. CASE l.valid /\ l.dirty /\ x \in Extent(c, l)
    BY <1>10, <2>2, <2>8, <2>9
  <2>10. CASE ~(l.valid /\ l.dirty /\ x \in Extent(c, l))
    <3>1. n[x] = m[x]
      BY <1>10, <2>2, <2>10
    <3>2. ~c.line[q].dirty
      BY <1>3, <2>1, <2>3, <2>10
    <3> QED
      BY <2>1, <3>1, <3>2 DEF Sound, Agrees
  <2> QED
    BY <2>9, <2>10
<1> QED
  BY <1>3, <1>7, <1>8, <1>10, <1>12, <1>13 DEF Settled, Sound

(* The slot that serves x: decoded from x, of the line's types. *)
LEMMA SlotOf ==
  ASSUME NEW c, IsCache(c), NEW x \in Addr, NEW w \in Ways(c)
  PROVE  <<SetOf(c, x), w>> \in Slots(c)
BY DecodeTypes DEF Slots

(* A read sees a dirty line's byte, and memory where no dirty line holds   *)
(* the address.                                                            *)
LEMMA VisibleValue ==
  ASSUME NEW c, NEW m, Sound(c, m), NEW x \in Addr
  PROVE  /\ \A w \in Ways(c) : Matches(c, x, w) => Visible(c, m, x) = ByteIn(c, x, w)
         /\ (\A w \in Ways(c) :
               Matches(c, x, w) => ~c.line[<<SetOf(c, x), w>>].dirty)
            => Visible(c, m, x) = m[x]
         /\ Visible(c, m, x) \in Byte
<1>1. \A w \in Ways(c) : Matches(c, x, w) => Visible(c, m, x) = ByteIn(c, x, w)
  BY VisibleByte DEF Sound
<1>2. \A w \in Ways(c) : Matches(c, x, w) =>
        /\ ByteIn(c, x, w) \in Byte
        /\ ~c.line[<<SetOf(c, x), w>>].dirty => ByteIn(c, x, w) = m[x]
  <2>1. TAKE w \in Ways(c)
  <2>2. HAVE Matches(c, x, w)
  <2> DEFINE p == <<SetOf(c, x), w>>
  <2>3. p \in Slots(c)
    BY SlotOf DEF Sound
  <2>4. c.line[p].valid /\ p[1] = SetOf(c, x) /\ c.line[p].tag = TagOf(c, x)
    BY <2>2 DEF Matches
  <2>5. /\ x \in Extent(c, c.line[p])
        /\ x - c.line[p].base = OffOf(c, x) /\ OffOf(c, x) \in 0 .. c.line_bytes - 1
    BY <2>3, <2>4, Covers DEF Sound
  <2>6. c.line[p].base \in Nat /\ c.line[p].data \in [0 .. c.line_bytes - 1 -> Byte]
    BY <2>3, LineTypes DEF Sound
  <2>7. x \in Nat
    BY MemAssumption, Pow2Positive DEF Addr
  <2>8. x = c.line[p].base + OffOf(c, x)
    BY <2>5, <2>6, <2>7
  <2>9. ~c.line[p].dirty => c.line[p].data[OffOf(c, x)] = m[x]
    BY <2>3, <2>4, <2>5, <2>8 DEF Sound, Agrees
  <2> QED
    BY <2>5, <2>6, <2>9 DEF ByteIn
<1>3. ~Hit(c, x) => Visible(c, m, x) = m[x] /\ m[x] \in Byte
  BY DEF Visible, Sound, IsMemory
<1> QED
  BY <1>1, <1>2, <1>3 DEF Hit

(* Two sound caches over one memory that hold the same dirty bytes read    *)
(* the same everywhere.                                                    *)
LEMMA SameDirty ==
  ASSUME NEW c, NEW d, NEW m, Sound(c, m), Sound(d, m), SameGeometry(c, d),
         \A x \in Addr, w \in Ways(c) :
           LET p == <<SetOf(c, x), w>>
           IN  /\ Matches(c, x, w) /\ c.line[p].dirty
                    <=> Matches(d, x, w) /\ d.line[p].dirty
               /\ Matches(c, x, w) /\ c.line[p].dirty
                    => ByteIn(c, x, w) = ByteIn(d, x, w)
  PROVE  Settled(c, m, d, m)
<1>1. SUFFICES ASSUME NEW x \in Addr PROVE Visible(d, m, x) = Visible(c, m, x)
  BY DEF Settled
<1>2. Ways(d) = Ways(c) /\ SetOf(d, x) = SetOf(c, x)
  BY SameDecode
<1>3. CASE \E w \in Ways(c) : Matches(c, x, w) /\ c.line[<<SetOf(c, x), w>>].dirty
  <2>1. PICK w \in Ways(c) : Matches(c, x, w) /\ c.line[<<SetOf(c, x), w>>].dirty
    BY <1>3
  <2>2. Matches(d, x, w) /\ ByteIn(c, x, w) = ByteIn(d, x, w)
    BY <2>1
  <2> QED
    BY <1>2, <2>1, <2>2, VisibleValue
<1>4. CASE ~\E w \in Ways(c) : Matches(c, x, w) /\ c.line[<<SetOf(c, x), w>>].dirty
  <2>1. Visible(c, m, x) = m[x]
    BY <1>4, VisibleValue
  <2>2. \A w \in Ways(d) : Matches(d, x, w) => ~d.line[<<SetOf(d, x), w>>].dirty
    BY <1>2, <1>4
  <2>3. Visible(d, m, x) = m[x]
    BY <2>2, VisibleValue
  <2> QED
    BY <2>1, <2>3
<1> QED
  BY <1>3, <1>4

(* What one step settles and the next one settles is settled by both. *)
LEMMA SettledTransitive ==
  ASSUME NEW c, NEW m, NEW d, NEW n, NEW e, NEW o,
         Settled(c, m, d, n), Settled(d, n, e, o)
  PROVE  Settled(c, m, e, o)
BY DEF Settled

-----------------------------------------------------------------------------
(* The steps an access is made of. *)

(* The clock stays in its word. *)
LEMMA TickType == ASSUME NEW c, IsCache(c) PROVE Tick(c) \in Stamp
<1>1. c.clock \in Stamp
  BY DEF IsCache
<1>2. c.clock + 1 \in Nat
  BY <1>1, ClockAssumption DEF Stamp
<1> QED
  BY <1>2, DivisionTypes, ClockAssumption DEF Tick, Stamp

(* A filled line is a line. *)
LEMMA FilledType ==
  ASSUME NEW c, NEW m, IsCache(c), IsMemory(m), NEW a \in Addr
  PROVE  Filled(c, m, a) \in CacheLine(c.line_bytes)
<1>1. \A i \in 0 .. c.line_bytes - 1 : m[BaseOf(c, a) + i] \in Byte
  BY LineInMemory DEF IsMemory
<1>2. [i \in 0 .. c.line_bytes - 1 |-> m[BaseOf(c, a) + i]]
        \in [0 .. c.line_bytes - 1 -> Byte]
  BY <1>1
<1>3. TagOf(c, a) \in Nat /\ BaseOf(c, a) \in Nat /\ Tick(c) \in Stamp
  BY DecodeTypes, TickType
<1> QED
  BY <1>2, <1>3 DEF Filled, CacheLine

(* A refill of a line that was not resident, into a way that holds nothing *)
(* dirty, settles and leaves the line resident.                            *)
LEMMA FillSettles ==
  ASSUME NEW c, NEW m, Sound(c, m), NEW a \in Addr, ~Hit(c, a),
         NEW w \in Ways(c),
         c.line[<<SetOf(c, a), w>>].valid => ~c.line[<<SetOf(c, a), w>>].dirty,
         NEW d,
         d = WithLine(c, <<SetOf(c, a), w>>, Filled(c, m, a), Tick(c))
  PROVE  Settled(c, m, d, m) /\ SameGeometry(c, d) /\ Matches(d, a, w)
<1> DEFINE p == <<SetOf(c, a), w>>
           l == Filled(c, m, a)
<1>0. p \in Slots(c) /\ l \in CacheLine(c.line_bytes) /\ Tick(c) \in Stamp
  BY SlotOf, FilledType, TickType DEF Sound
<1>1. IsCache(d) /\ SameGeometry(c, d) /\ d.line[p] = l
  BY <1>0, OneLine DEF Sound
<1>2. \A q \in Slots(c) : q # p => d.line[q] = c.line[q]
  BY <1>0, OneLine DEF Sound
<1>3. /\ Slots(d) = Slots(c) /\ Ways(d) = Ways(c) /\ d.line_bytes = c.line_bytes
      /\ \A x \in Addr : /\ SetOf(d, x) = SetOf(c, x) /\ TagOf(d, x) = TagOf(c, x)
                         /\ BaseOf(d, x) = BaseOf(c, x)
  BY <1>1, SameDecode DEF SameGeometry
<1>4. /\ l.valid /\ ~l.dirty /\ l.tag = TagOf(c, a) /\ l.base = BaseOf(c, a)
      /\ l.data = [i \in 0 .. c.line_bytes - 1 |-> m[BaseOf(c, a) + i]]
  BY DEF Filled
<1>5. \A q \in Slots(c) : c.line[q].valid /\ q[1] = SetOf(c, a)
                          => c.line[q].tag # TagOf(c, a)
  <2>1. TAKE q \in Slots(c)
  <2>2. HAVE c.line[q].valid /\ q[1] = SetOf(c, a)
  <2>3. q = <<SetOf(c, a), q[2]>> /\ q[2] \in Ways(c)
    BY <2>2 DEF Slots
  <2>4. ~Matches(c, a, q[2])
    BY <2>3 DEF Hit
  <2> QED
    BY <2>2, <2>3, <2>4 DEF Matches
<1> HIDE DEF l
<1>6. NoTwin(d)
  <2>1. SUFFICES ASSUME NEW q \in Slots(c), NEW r \in Slots(c),
                        d.line[q].valid, d.line[r].valid,
                        q[1] = r[1], d.line[q].tag = d.line[r].tag
                 PROVE  q = r
    BY <1>3 DEF NoTwin
  <2>2. p[1] = SetOf(c, a)
    OBVIOUS
  <2>3. CASE q = p /\ r # p
    BY <1>0, <1>1, <1>2, <1>4, <1>5, <2>1, <2>2, <2>3
  <2>4. CASE q # p /\ r = p
    BY <1>0, <1>1, <1>2, <1>4, <1>5, <2>1, <2>2, <2>4
  <2>5. CASE q # p /\ r # p
    BY <1>2, <2>1, <2>5 DEF Sound, NoTwin
  <2> QED
    BY <2>3, <2>4, <2>5
<1>7. InPlace(d)
  BY <1>1, <1>2, <1>3, <1>4 DEF Sound, InPlace
<1>8. Agrees(d, m)
  <2>1. SUFFICES ASSUME NEW q \in Slots(c), d.line[q].valid, ~d.line[q].dirty,
                        NEW i \in 0 .. c.line_bytes - 1
                 PROVE  d.line[q].data[i] = m[d.line[q].base + i]
    BY <1>3 DEF Agrees
  <2>2. CASE q = p
    BY ZenonT(60), <1>1, <1>4, <2>2
  <2>3. CASE q # p
    BY <1>2, <2>1, <2>3 DEF Sound, Agrees
  <2> QED
    BY <2>2, <2>3
<1>9. Sound(d, m)
  BY <1>1, <1>6, <1>7, <1>8 DEF Sound
<1>10. Settled(c, m, d, m)
  <2>1. ASSUME NEW x \in Addr, NEW v \in Ways(c), <<SetOf(c, x), v>> = p
        PROVE  /\ ~(Matches(c, x, v) /\ c.line[p].dirty)
               /\ ~(Matches(d, x, v) /\ d.line[p].dirty)
    BY <1>1, <1>4, <2>1 DEF Matches
  <2>2. ASSUME NEW x \in Addr, NEW v \in Ways(c), <<SetOf(c, x), v>> # p
        PROVE  /\ Matches(d, x, v) <=> Matches(c, x, v)
               /\ ByteIn(d, x, v) = ByteIn(c, x, v)
               /\ d.line[<<SetOf(c, x), v>>] = c.line[<<SetOf(c, x), v>>]
    BY <1>0, <1>1, <1>2, <2>2, OtherLine, SlotOf DEF Sound
  <2> QED
    BY <1>1, <1>9, <2>1, <2>2, SameDirty
<1> QED
  BY <1>1, <1>3, <1>4, <1>10 DEF Matches

(* A touch changes no line's contents. *)
LEMMA TouchSettles ==
  ASSUME NEW c, NEW m, Sound(c, m), NEW p \in Slots(c)
  PROVE  /\ Settled(c, m, Touched(c, p), m) /\ SameGeometry(c, Touched(c, p))
         /\ \A q \in Slots(c) : /\ Touched(c, p).line[q].valid = c.line[q].valid
                                /\ Touched(c, p).line[q].tag = c.line[q].tag
<1> DEFINE d == Touched(c, p)
           l == [c.line[p] EXCEPT !.stamp = Tick(c)]
           e == WithLine(c, p, l, Tick(c))
<1>1. c.line[p] \in CacheLine(c.line_bytes) /\ Tick(c) \in Stamp /\ IsCache(c)
  BY LineTypes, TickType DEF Sound
<1>2. /\ l \in CacheLine(c.line_bytes)
      /\ l.valid = c.line[p].valid /\ l.dirty = c.line[p].dirty
      /\ l.tag = c.line[p].tag /\ l.base = c.line[p].base /\ l.data = c.line[p].data
  BY <1>1 DEF CacheLine
<1>3. c.repl = "lru" => d = e
  BY <1>1 DEF Touched, WithLine, IsCache
<1>4. c.repl # "lru" => d = c
  BY DEF Touched
<1> HIDE DEF l
<1>5. IsCache(e) /\ SameGeometry(c, e) /\ e.line[p] = l
  BY <1>1, <1>2, OneLine
<1>6. \A q \in Slots(c) : q # p => e.line[q] = c.line[q]
  BY <1>1, <1>2, OneLine
<1> HIDE DEF d, e
<1>7. IsCache(d) /\ SameGeometry(c, d)
  BY <1>1, <1>3, <1>4, <1>5 DEF SameGeometry
<1>8. \A q \in Slots(c) : /\ d.line[q].valid = c.line[q].valid
                          /\ d.line[q].dirty = c.line[q].dirty
                          /\ d.line[q].tag = c.line[q].tag
                          /\ d.line[q].base = c.line[q].base
                          /\ d.line[q].data = c.line[q].data
  BY <1>2, <1>3, <1>4, <1>5, <1>6
<1>9. /\ Slots(d) = Slots(c) /\ Ways(d) = Ways(c) /\ d.line_bytes = c.line_bytes
      /\ \A x \in Addr : /\ SetOf(d, x) = SetOf(c, x) /\ TagOf(d, x) = TagOf(c, x)
                         /\ BaseOf(d, x) = BaseOf(c, x) /\ OffOf(d, x) = OffOf(c, x)
  BY <1>7, SameDecode DEF SameGeometry
<1>10. NoTwin(d)
  BY <1>8, <1>9 DEF Sound, NoTwin
<1>11. InPlace(d)
  BY <1>8, <1>9 DEF Sound, InPlace
<1>12. Agrees(d, m)
  BY <1>8, <1>9 DEF Sound, Agrees
<1>13. Sound(d, m)
  BY <1>7, <1>10, <1>11, <1>12 DEF Sound
<1>14. \A x \in Addr, w \in Ways(c) :
         LET q == <<SetOf(c, x), w>>
         IN  /\ Matches(c, x, w) <=> Matches(d, x, w)
             /\ c.line[q].dirty = d.line[q].dirty
             /\ ByteIn(c, x, w) = ByteIn(d, x, w)
  BY <1>1, <1>8, <1>9, SlotOf DEF Matches, ByteIn
<1>15. Settled(c, m, d, m)
  BY <1>7, <1>13, <1>14, SameDirty
<1> QED
  BY <1>7, <1>8, <1>15 DEF d

(* The way an access uses is a way of the set. *)
LEMMA WayIsWay ==
  ASSUME NEW c, IsCache(c), NoTwin(c), NEW a \in Addr, NEW w \in WaysFor(c, a)
  PROVE  w \in Ways(c)
<1>1. CASE Hit(c, a)
  <2>1. PICK v \in Ways(c) : Matches(c, a, v)
    BY <1>1 DEF Hit
  <2>2. HitWay(c, a) = v
    BY <2>1, VisibleByte
  <2> QED
    BY <1>1, <2>1, <2>2 DEF WaysFor
<1>2. CASE ~Hit(c, a)
  BY <1>2 DEF WaysFor, Victims
<1> QED
  BY <1>1, <1>2

(* An access, hit or miss, settles and leaves the line of a in way w, from *)
(* which the returned byte is the one a read of a sees.  Memory at a       *)
(* itself is untouched: a victim is another line.                          *)
LEMMA AccessSettles ==
  ASSUME NEW c, NEW m, Sound(c, m), NEW a \in Addr, NEW w \in Ways(c),
         w \in WaysFor(c, a)
  PROVE  LET r == Accessed(c, m, a, w)
         IN  /\ Settled(c, m, r.c, r.m) /\ SameGeometry(c, r.c)
             /\ Matches(r.c, a, w)
             /\ ByteIn(r.c, a, w) = Visible(c, m, a)
             /\ r.m[a] = m[a]
<1> DEFINE p == <<SetOf(c, a), w>>
           r == Accessed(c, m, a, w)
<1>0. p \in Slots(c) /\ IsCache(c)
  BY SlotOf DEF Sound
<1>1. ASSUME Hit(c, a)
      PROVE  /\ Settled(c, m, r.c, r.m) /\ SameGeometry(c, r.c)
             /\ Matches(r.c, a, w)
  <2>1. r.c = Touched(c, p) /\ r.m = m
    BY <1>1 DEF Accessed
  <2>2. Matches(c, a, w)
    <3>1. PICK v \in Ways(c) : Matches(c, a, v)
      BY <1>1 DEF Hit
    <3>2. HitWay(c, a) = v
      BY <3>1, VisibleByte DEF Sound
    <3> QED
      BY <1>1, <3>1, <3>2 DEF WaysFor
  <2>3. /\ Settled(c, m, Touched(c, p), m) /\ SameGeometry(c, Touched(c, p))
        /\ Touched(c, p).line[p].valid = c.line[p].valid
        /\ Touched(c, p).line[p].tag = c.line[p].tag
    BY <1>0, TouchSettles
  <2>4. Matches(Touched(c, p), a, w)
    BY <2>2, <2>3, SameDecode DEF Matches
  <2> QED
    BY <2>1, <2>3, <2>4
<1>2. ASSUME ~Hit(c, a)
      PROVE  /\ Settled(c, m, r.c, r.m) /\ SameGeometry(c, r.c)
             /\ Matches(r.c, a, w)
  <2> DEFINE n == WrittenBack(c, m, c.line[p])
             d == [c EXCEPT !.line[p] = Cleaned(c.line[p])]
             e == WithLine(d, <<SetOf(d, a), w>>, Filled(d, n, a), Tick(d))
  <2>1. /\ Settled(c, m, d, n) /\ SameGeometry(c, d) /\ d.clock = c.clock
        /\ d.line[p] = Cleaned(c.line[p])
    <3>1. Settled(c, m, d, n)
      BY <1>0, WriteBackSettles
    <3>2. SameGeometry(c, d)
      BY <1>0, WriteBackSettles
    <3>3. d.clock = c.clock
      BY <1>0, WriteBackSettles
    <3>4. d.line[p] = Cleaned(c.line[p])
      BY <1>0, WriteBackSettles
    <3> QED
      BY <3>1, <3>2, <3>3, <3>4
  <2>2. \A q \in Slots(c) : q # p => d.line[q] = c.line[q]
    BY <1>0, WriteBackSettles
  <2>3. /\ Ways(d) = Ways(c) /\ SetOf(d, a) = SetOf(c, a) /\ TagOf(d, a) = TagOf(c, a)
        /\ BaseOf(d, a) = BaseOf(c, a) /\ d.line_bytes = c.line_bytes
    BY <2>1, SameDecode DEF SameGeometry
  <2>4. d.line[p].valid = c.line[p].valid /\ d.line[p].tag = c.line[p].tag
        /\ (d.line[p].valid => ~d.line[p].dirty)
    BY <1>0, <2>1, LineTypes DEF Cleaned, CacheLine
  <2>5. ~Hit(d, a)
    <3>1. \A v \in Ways(c) : Matches(d, a, v) => Matches(c, a, v)
      BY <1>0, <2>2, <2>3, <2>4, SlotOf DEF Matches
    <3> QED
      BY <1>2, <2>3, <3>1 DEF Hit
  <2>6. e = [c EXCEPT !.clock = Tick(c), !.line[p] = Filled(c, n, a)]
    <3>1. Filled(d, n, a) = Filled(c, n, a) /\ Tick(d) = Tick(c)
      BY <2>1, <2>3 DEF Filled, Tick
    <3>2. e = [d EXCEPT !.clock = Tick(c), !.line[p] = Filled(c, n, a)]
      BY <2>3, <3>1 DEF WithLine
    <3> QED
      BY <1>0, <3>2 DEF IsCache
  <2>7. r.c = e /\ r.m = n
    BY <1>2, <2>6 DEF Accessed
  <2>8. Sound(d, n)
    BY <2>1 DEF Settled
  <2> HIDE DEF d, n
  <2>9. Settled(d, n, e, n) /\ SameGeometry(d, e) /\ Matches(e, a, w)
    BY <2>3, <2>4, <2>5, <2>8, FillSettles
  <2>10. Settled(c, m, e, n)
    BY <2>1, <2>9, SettledTransitive
  <2>11. SameGeometry(c, e)
    BY <2>1, <2>9 DEF SameGeometry
  <2> QED
    BY <2>7, <2>9, <2>10, <2>11
<1>3. /\ Settled(c, m, r.c, r.m) /\ SameGeometry(c, r.c) /\ Matches(r.c, a, w)
  BY <1>1, <1>2
<1>6. r.m[a] = m[a]
  <2>1. CASE Hit(c, a)
    BY <2>1 DEF Accessed
  <2>2. CASE ~Hit(c, a)
    <3>1. ~(c.line[p].valid /\ a \in Extent(c, c.line[p]))
      <4>1. ASSUME c.line[p].valid, a \in Extent(c, c.line[p]) PROVE FALSE
        <5>1. c.line[p].tag = TagOf(c, a)
          BY <1>0, <4>1, Covers DEF Sound
        <5> QED
          BY <2>2, <4>1, <5>1 DEF Hit, Matches
      <4> QED
        BY <4>1
    <3>2. r.m = WrittenBack(c, m, c.line[p])
      BY <2>2 DEF Accessed
    <3> QED
      BY <3>1, <3>2 DEF WrittenBack
  <2> QED
    BY <2>1, <2>2
<1> HIDE DEF r
<1>4. Ways(r.c) = Ways(c)
  BY <1>3, SameDecode
<1>5. Visible(r.c, r.m, a) = ByteIn(r.c, a, w) /\ Visible(r.c, r.m, a) = Visible(c, m, a)
  BY <1>3, <1>4, VisibleValue DEF Settled
<1> QED
  BY <1>3, <1>5, <1>6 DEF r

(* The store of cache_write into a resident line changes what a read of    *)
(* that one address returns.                                               *)
LEMMA StoreEffect ==
  ASSUME NEW c, NEW m, Sound(c, m), NEW a \in Addr, NEW w \in Ways(c),
         Matches(c, a, w), NEW v \in Byte
  PROVE  LET s == Stored(c, m, a, w, v)
         IN  /\ Sound(s.c, s.m)
             /\ \A x \in Addr :
                  /\ Visible(s.c, s.m, x) = IF x = a THEN v ELSE Visible(c, m, x)
                  /\ s.m[x] = m[x] \/ s.m[x] = Visible(s.c, s.m, x)
<1> DEFINE p == <<SetOf(c, a), w>>
           o == OffOf(c, a)
           s == Stored(c, m, a, w, v)
           D == IF c.wpol = "through" THEN c.line[p].dirty ELSE TRUE
           l == [c.line[p] EXCEPT !.data[o] = v, !.dirty = D]
           d == WithLine(c, p, l, c.clock)
           n == IF c.wpol = "through" THEN [m EXCEPT ![a] = v] ELSE m
<1>0. /\ p \in Slots(c) /\ IsCache(c) /\ IsMemory(m)
      /\ o \in 0 .. c.line_bytes - 1
  BY SlotOf, DecodeTypes DEF Sound
<1>1. /\ c.line[p] \in CacheLine(c.line_bytes) /\ c.clock \in Stamp
      /\ c.line[p].data \in [0 .. c.line_bytes - 1 -> Byte]
      /\ c.line[p].dirty \in BOOLEAN /\ c.line_bytes \in Nat \ {0}
  BY <1>0, LineTypes
<1>2. /\ l \in CacheLine(c.line_bytes)
      /\ l.valid = c.line[p].valid /\ l.tag = c.line[p].tag /\ l.base = c.line[p].base
      /\ l.data = [c.line[p].data EXCEPT ![o] = v] /\ l.dirty = D
  BY <1>0, <1>1 DEF CacheLine
<1>3. s.c = d /\ s.m = n
  <2>1. CASE c.wpol = "through"
    BY ZenonT(60), <1>0, <1>1, <2>1 DEF Stored, WithLine, IsCache, CacheLine
  <2>2. CASE c.wpol # "through"
    BY ZenonT(60), <1>0, <1>1, <2>2 DEF Stored, WithLine, IsCache, CacheLine
  <2> QED
    BY <2>1, <2>2
<1> HIDE DEF l
<1>4. IsCache(d) /\ SameGeometry(c, d) /\ d.line[p] = l
  BY SMTT(30), <1>0, <1>1, <1>2, OneLine
<1>5. \A q \in Slots(c) : q # p => d.line[q] = c.line[q]
  BY <1>0, <1>1, <1>2, OneLine
<1> HIDE DEF d, s
<1>6. /\ Slots(d) = Slots(c) /\ Ways(d) = Ways(c) /\ d.line_bytes = c.line_bytes
      /\ \A x \in Addr : /\ SetOf(d, x) = SetOf(c, x) /\ TagOf(d, x) = TagOf(c, x)
                         /\ BaseOf(d, x) = BaseOf(c, x) /\ OffOf(d, x) = OffOf(c, x)
  BY <1>4, SameDecode DEF SameGeometry
<1>7. \A q \in Slots(c) : /\ d.line[q].valid = c.line[q].valid
                          /\ d.line[q].tag = c.line[q].tag
                          /\ d.line[q].base = c.line[q].base
  BY <1>2, <1>4, <1>5
<1>8. NoTwin(d) /\ InPlace(d)
  BY <1>6, <1>7 DEF Sound, NoTwin, InPlace
<1>9. IsMemory(n)
  BY <1>0 DEF IsMemory
<1>10. c.line[p].valid /\ c.line[p].base = BaseOf(c, a) /\ a - c.line[p].base = o
  <2>1. p[1] = SetOf(c, a) /\ c.line[p].valid /\ c.line[p].tag = TagOf(c, a)
    BY DEF Matches
  <2> QED
    BY <1>0, <2>1, Covers DEF Sound
<1>11. \A x \in Addr, u \in Ways(c) : Matches(d, x, u) <=> Matches(c, x, u)
  BY <1>0, <1>6, <1>7, SlotOf DEF Matches
<1>12. \A x \in Addr, u \in Ways(c) : Matches(c, x, u) =>
         ByteIn(d, x, u) = IF x = a THEN v ELSE ByteIn(c, x, u)
  <2>1. TAKE x \in Addr, u \in Ways(c)
  <2>2. HAVE Matches(c, x, u)
  <2> DEFINE q == <<SetOf(c, x), u>>
  <2>3. q \in Slots(c)
    BY <1>0, SlotOf
  <2>4. CASE q = p
    <3>1. x - c.line[p].base = OffOf(c, x) /\ OffOf(c, x) \in 0 .. c.line_bytes - 1
      <4>1. q[1] = SetOf(c, x) /\ c.line[q].valid /\ c.line[q].tag = TagOf(c, x)
        BY <2>2 DEF Matches
      <4> QED
        BY <1>0, <2>3, <2>4, <4>1, Covers DEF Sound
    <3>2. x = a <=> OffOf(c, x) = o
      <4>1. x \in Nat /\ a \in Nat
        BY MemAssumption, Pow2Positive DEF Addr
      <4>2. c.line[p].base \in Nat
        BY <1>0, LineTypes
      <4> QED
        BY <1>0, <1>10, <3>1, <4>1, <4>2
    <3>3. ByteIn(d, x, u) = [c.line[p].data EXCEPT ![o] = v][OffOf(c, x)]
      BY <1>2, <1>4, <1>6, <2>4 DEF ByteIn
    <3> QED
      BY <1>0, <1>1, <2>4, <3>1, <3>2, <3>3 DEF ByteIn
  <2>5. CASE q # p
    <3>1. ByteIn(d, x, u) = ByteIn(c, x, u)
      BY <1>0, <1>4, <1>5, <2>5, OtherLine
    <3>2. x # a
      <4>1. ASSUME x = a PROVE u = w
        <5>1. HitWay(c, a) = w
          BY VisibleByte DEF Sound
        <5>2. HitWay(c, x) = u
          BY <2>2, VisibleByte DEF Sound
        <5> QED
          BY <4>1, <5>1, <5>2
      <4> QED
        BY <2>5, <4>1
    <3> QED
      BY <3>1, <3>2
  <2> QED
    BY <2>4, <2>5
<1>13. \A x \in Addr : Visible(d, n, x) = IF x = a THEN v ELSE Visible(c, m, x)
  <2>1. TAKE x \in Addr
  <2>2. CASE Hit(c, x)
    <3>1. PICK u \in Ways(c) : Matches(c, x, u)
      BY <2>2 DEF Hit
    <3>2. Visible(c, m, x) = ByteIn(c, x, u)
      BY <3>1, VisibleByte DEF Sound
    <3>3. Visible(d, n, x) = ByteIn(d, x, u)
      BY <1>4, <1>6, <1>8, <1>11, <3>1, VisibleByte
    <3> QED
      BY <1>12, <3>1, <3>2, <3>3
  <2>3. CASE ~Hit(c, x)
    <3>1. x # a
      BY <2>3 DEF Hit
    <3>2. ~Hit(d, x)
      BY <1>6, <1>11, <2>3 DEF Hit
    <3>3. n[x] = m[x]
      BY <1>0, <3>1 DEF IsMemory
    <3> QED
      BY <2>3, <3>1, <3>2, <3>3 DEF Visible
  <2> QED
    BY <2>2, <2>3
<1>14. \A x \in Addr : n[x] = m[x] \/ n[x] = Visible(d, n, x)
  BY <1>0, <1>13 DEF IsMemory
<1>15. Agrees(d, n)
  <2>1. SUFFICES ASSUME NEW q \in Slots(c), d.line[q].valid, ~d.line[q].dirty,
                        NEW i \in 0 .. c.line_bytes - 1
                 PROVE  d.line[q].data[i] = n[d.line[q].base + i]
    BY <1>6 DEF Agrees
  <2> DEFINE x == c.line[q].base + i
  <2>2. c.line[q].valid /\ ~c.line[q].dirty
    BY <1>1, <1>2, <1>4, <1>5, <1>7, <2>1
  <2>3. c.line[q].data[i] = m[x]
    BY <2>1, <2>2 DEF Sound, Agrees
  <2>4. x \in Addr
    BY <2>1, <2>2, LineInMemory DEF Sound, InPlace
  <2>5. CASE q = p
    <3>1. l.data[i] = IF i = o THEN v ELSE m[x]
      BY <1>0, <1>1, <1>2, <2>1, <2>3, <2>5
    <3>2. c.wpol = "through"
      BY <1>2, <1>4, <2>1, <2>5
    <3>3. n[x] = IF x = a THEN v ELSE m[x]
      BY <1>0, <2>4, <3>2 DEF IsMemory
    <3>4. x = a <=> i = o
      <4>1. c.line[p].base \in Nat /\ a \in Nat /\ i \in Nat
        BY <1>0, <1>1, LineTypes, MemAssumption, Pow2Positive DEF Addr
      <4> QED
        BY <1>0, <1>10, <2>5, <4>1
    <3> QED
      BY <1>2, <1>4, <2>5, <3>1, <3>3, <3>4
  <2>6. CASE q # p
    <3>1. x # a
      <4>1. ASSUME x = a PROVE FALSE
        <5>1. q[1] = SetOf(c, a) /\ c.line[q].tag = TagOf(c, a)
          <6>1. c.line[q].base \in Nat /\ c.line_bytes \in Nat \ {0}
            BY <1>0, LineTypes
          <6>2. x \in Extent(c, c.line[q])
            BY <2>1, <6>1 DEF Extent
          <6> QED
            BY <1>0, <2>2, <2>4, <4>1, <6>2, Covers DEF Sound
        <5>2. p[1] = SetOf(c, a) /\ c.line[p].tag = TagOf(c, a)
          BY DEF Matches
        <5> QED
          BY <1>0, <1>10, <2>2, <2>6, <5>1, <5>2 DEF Sound, NoTwin
      <4> QED
        BY <4>1
    <3>2. n[x] = m[x]
      BY <1>0, <2>4, <3>1 DEF IsMemory
    <3> QED
      BY <1>5, <2>3, <2>6, <3>2
  <2> QED
    BY <2>5, <2>6
<1>16. Sound(d, n)
  BY <1>4, <1>8, <1>9, <1>15 DEF Sound
<1> QED
  BY <1>3, <1>13, <1>14, <1>16 DEF s

-----------------------------------------------------------------------------
(* Whole-cache operations. *)

(* A cache with nothing valid in it is sound, and transparent. *)
LEMMA EmptyCache ==
  ASSUME NEW d, NEW n, IsCache(d), IsMemory(n),
         \A q \in Slots(d) : ~d.line[q].valid
  PROVE  Sound(d, n) /\ \A x \in Addr : Visible(d, n, x) = n[x]
<1>1. NoTwin(d) /\ InPlace(d) /\ Agrees(d, n)
  BY DEF NoTwin, InPlace, Agrees
<1>2. \A x \in Addr : ~Hit(d, x)
  BY SlotOf DEF Hit, Matches
<1> QED
  BY <1>1, <1>2 DEF Sound, Visible

(* Dropping a line that is not dirty settles. *)
LEMMA DropSettles ==
  ASSUME NEW c, NEW m, Sound(c, m), NEW p \in Slots(c),
         c.line[p].valid => ~c.line[p].dirty,
         NEW l \in CacheLine(c.line_bytes), ~l.valid,
         NEW d, d = WithLine(c, p, l, c.clock)
  PROVE  Settled(c, m, d, m)
<1>1. IsCache(c) /\ c.clock \in Stamp
  BY LineTypes DEF Sound
<1>2. IsCache(d) /\ SameGeometry(c, d) /\ d.line[p] = l
  BY <1>1, OneLine
<1>3. \A q \in Slots(c) : q # p => d.line[q] = c.line[q]
  BY <1>1, OneLine
<1>4. /\ Slots(d) = Slots(c) /\ Ways(d) = Ways(c) /\ d.line_bytes = c.line_bytes
      /\ \A x \in Addr : /\ SetOf(d, x) = SetOf(c, x) /\ TagOf(d, x) = TagOf(c, x)
                         /\ BaseOf(d, x) = BaseOf(c, x)
  BY <1>2, SameDecode DEF SameGeometry
<1> DEFINE Kept == {q \in Slots(c) : q # p /\ c.line[q].valid}
<1>0. \A q \in Slots(c) : d.line[q].valid => q \in Kept /\ d.line[q] = c.line[q]
  <2>1. TAKE q \in Slots(c)
  <2>2. CASE q = p
    BY <1>1, <1>2, <2>2
  <2>3. CASE q # p
    BY <1>3, <2>3
  <2> QED
    BY <2>2, <2>3
<1> HIDE DEF Kept
<1>11. Kept \subseteq Slots(c) /\ \A q \in Kept : c.line[q].valid
  BY DEF Kept
<1>5. NoTwin(d)
  BY <1>0, <1>4, <1>11 DEF Sound, NoTwin
<1>6. InPlace(d)
  <2>1. SUFFICES ASSUME NEW q \in Slots(c), d.line[q].valid
                 PROVE  \E a \in Addr : /\ q[1] = SetOf(c, a)
                                       /\ d.line[q].tag = TagOf(c, a)
                                       /\ d.line[q].base = BaseOf(c, a)
    BY <1>4 DEF InPlace
  <2> QED
    BY <1>0, <1>11, <2>1 DEF Sound, InPlace
<1>7. Agrees(d, m)
  <2>1. SUFFICES ASSUME NEW q \in Slots(c), d.line[q].valid, ~d.line[q].dirty,
                        NEW i \in 0 .. c.line_bytes - 1
                 PROVE  d.line[q].data[i] = m[d.line[q].base + i]
    BY <1>4 DEF Agrees
  <2> QED
    BY <1>0, <1>11, <2>1 DEF Sound, Agrees
<1>8. Sound(d, m)
  BY <1>2, <1>5, <1>6, <1>7 DEF Sound
<1>9. ASSUME NEW x \in Addr, NEW v \in Ways(c), <<SetOf(c, x), v>> = p
      PROVE  /\ ~(Matches(c, x, v) /\ c.line[p].dirty)
             /\ ~(Matches(d, x, v) /\ d.line[p].dirty)
  BY <1>1, <1>2, <1>4, <1>9 DEF Matches
<1>10. ASSUME NEW x \in Addr, NEW v \in Ways(c), <<SetOf(c, x), v>> # p
       PROVE  /\ Matches(d, x, v) <=> Matches(c, x, v)
              /\ ByteIn(d, x, v) = ByteIn(c, x, v)
              /\ d.line[<<SetOf(c, x), v>>] = c.line[<<SetOf(c, x), v>>]
  BY <1>1, <1>2, <1>3, <1>10, OtherLine, SlotOf
<1> QED
  BY <1>2, <1>8, <1>9, <1>10, SameDirty

(* Writing everything back brings memory up to what reads return.          *)
LEMMA AllOut ==
  ASSUME NEW c, NEW m, Sound(c, m)
  PROVE  /\ IsMemory(AllWrittenBack(c, m))
         /\ \A x \in Addr : AllWrittenBack(c, m)[x] = Visible(c, m, x)
<1>1. ASSUME NEW x \in Addr PROVE AllWrittenBack(c, m)[x] = Visible(c, m, x)
  <2> DEFINE dirty == {p \in Slots(c) : /\ c.line[p].valid /\ c.line[p].dirty
                                       /\ x \in Extent(c, c.line[p])}
  <2>1. CASE dirty = {}
    <3>1. \A w \in Ways(c) : Matches(c, x, w) => ~c.line[<<SetOf(c, x), w>>].dirty
      <4>1. TAKE w \in Ways(c)
      <4>2. HAVE Matches(c, x, w)
      <4> DEFINE p == <<SetOf(c, x), w>>
      <4>3. p \in Slots(c) /\ p[1] = SetOf(c, x)
        BY SlotOf DEF Sound
      <4>4. c.line[p].valid /\ c.line[p].tag = TagOf(c, x)
        BY <4>2 DEF Matches
      <4>5. x \in Extent(c, c.line[p])
        BY <4>3, <4>4, Covers DEF Sound
      <4> QED
        BY <2>1, <4>3, <4>4, <4>5
    <3>2. Visible(c, m, x) = m[x]
      BY <3>1, VisibleValue
    <3> QED
      BY <2>1, <3>2 DEF AllWrittenBack
  <2>2. CASE dirty # {}
    <3> DEFINE p == CHOOSE p \in dirty : TRUE
    <3>1. p \in dirty
      BY <2>2
    <3>2. AllWrittenBack(c, m)[x] = c.line[p].data[x - c.line[p].base]
      BY <2>2 DEF AllWrittenBack
    <3> HIDE DEF p
    <3>3. /\ p[1] = SetOf(c, x) /\ c.line[p].tag = TagOf(c, x)
          /\ x - c.line[p].base = OffOf(c, x)
      BY <3>1, Covers DEF Sound
    <3>4. p = <<SetOf(c, x), p[2]>> /\ p[2] \in Ways(c)
      BY <3>1, <3>3 DEF Slots
    <3>5. Matches(c, x, p[2])
      BY <3>1, <3>3, <3>4 DEF Matches
    <3>6. Visible(c, m, x) = ByteIn(c, x, p[2])
      BY <3>4, <3>5, VisibleValue
    <3> QED
      BY <3>2, <3>3, <3>4, <3>6 DEF ByteIn
  <2> QED
    BY <2>1, <2>2
<1>2. ASSUME NEW x \in Addr PROVE Visible(c, m, x) \in Byte
  BY VisibleValue
<1>3. AllWrittenBack(c, m) \in [Addr -> Byte]
  <2>1. DOMAIN AllWrittenBack(c, m) = Addr
    BY DEF AllWrittenBack
  <2>2. AllWrittenBack(c, m) = [x \in Addr |-> AllWrittenBack(c, m)[x]]
    BY DEF AllWrittenBack
  <2> QED
    BY <1>1, <1>2, <2>2
<1> QED
  BY <1>1, <1>3 DEF IsMemory

(* A cache rebuilt line by line keeps its geometry and its types. *)
LEMMA EveryLine ==
  ASSUME NEW c, IsCache(c), NEW f, f \in [Slots(c) -> CacheLine(c.line_bytes)],
         NEW d, d = [c EXCEPT !.line = f]
  PROVE  IsCache(d) /\ SameGeometry(c, d) /\ d.line = f
<1>1. SameGeometry(c, d) /\ d.line = f
  BY DEF IsCache, SameGeometry
<1>2. Slots(d) = Slots(c)
  BY <1>1, SameDecode
<1> QED
  BY <1>1, <1>2 DEF IsCache, SameGeometry

(* cache_clean settles, with memory caught up everywhere. *)
LEMMA CleanSettles ==
  ASSUME NEW c, NEW m, Sound(c, m)
  PROVE  Settled(c, m, AllClean(c), AllWrittenBack(c, m))
<1> DEFINE d == AllClean(c)
           n == AllWrittenBack(c, m)
           f == [p \in Slots(c) |-> Cleaned(c.line[p])]
<1>1. \A p \in Slots(c) :
        /\ Cleaned(c.line[p]) \in CacheLine(c.line_bytes)
        /\ Cleaned(c.line[p]).valid = c.line[p].valid
        /\ Cleaned(c.line[p]).tag = c.line[p].tag
        /\ Cleaned(c.line[p]).base = c.line[p].base
        /\ Cleaned(c.line[p]).data = c.line[p].data
  BY ZenonT(60), LineTypes DEF Sound, Cleaned, CacheLine
<1>2. d = [c EXCEPT !.line = f]
  BY DEF AllClean, Sound, IsCache
<1>3. f \in [Slots(c) -> CacheLine(c.line_bytes)]
  BY <1>1
<1>4. IsCache(d)
  BY <1>2, <1>3, EveryLine DEF Sound
<1>5. SameGeometry(c, d)
  BY <1>2, <1>3, EveryLine DEF Sound
<1>6. d.line = f
  BY <1>2, <1>3, EveryLine DEF Sound
<1>7. \A q \in Slots(c) : /\ d.line[q].valid = c.line[q].valid
                          /\ d.line[q].tag = c.line[q].tag
                          /\ d.line[q].base = c.line[q].base
                          /\ d.line[q].data = c.line[q].data
  BY <1>1, <1>6
<1> HIDE DEF d, n, f
<1>8. /\ Slots(d) = Slots(c) /\ Ways(d) = Ways(c) /\ d.line_bytes = c.line_bytes
      /\ \A x \in Addr : /\ SetOf(d, x) = SetOf(c, x) /\ TagOf(d, x) = TagOf(c, x)
                         /\ BaseOf(d, x) = BaseOf(c, x) /\ OffOf(d, x) = OffOf(c, x)
  BY <1>5, SameDecode DEF SameGeometry
<1>9. NoTwin(d) /\ InPlace(d)
  BY <1>7, <1>8 DEF Sound, NoTwin, InPlace
<1>10. IsMemory(n) /\ \A x \in Addr : n[x] = Visible(c, m, x)
  BY AllOut DEF n
<1>11. \A x \in Addr : Visible(d, n, x) = Visible(c, m, x)
  <2>1. TAKE x \in Addr
  <2>2. \A w \in Ways(c) : /\ Matches(d, x, w) <=> Matches(c, x, w)
                           /\ ByteIn(d, x, w) = ByteIn(c, x, w)
    BY <1>7, <1>8, SlotOf DEF Matches, ByteIn, Sound
  <2>3. CASE Hit(c, x)
    <3>1. PICK w \in Ways(c) : Matches(c, x, w)
      BY <2>3 DEF Hit
    <3>2. Visible(c, m, x) = ByteIn(c, x, w)
      BY <3>1, VisibleByte DEF Sound
    <3>3. Visible(d, n, x) = ByteIn(d, x, w)
      BY <1>4, <1>8, <1>9, <2>2, <3>1, VisibleByte
    <3> QED
      BY <2>2, <3>2, <3>3
  <2>4. CASE ~Hit(c, x)
    <3>1. ~Hit(d, x)
      BY <1>8, <2>2, <2>4 DEF Hit
    <3> QED
      BY <1>10, <3>1 DEF Visible
  <2> QED
    BY <2>3, <2>4
<1>12. Agrees(d, n)
  <2>1. SUFFICES ASSUME NEW q \in Slots(c), c.line[q].valid,
                        NEW i \in 0 .. c.line_bytes - 1
                 PROVE  c.line[q].data[i] = n[c.line[q].base + i]
    BY <1>7, <1>8 DEF Agrees
  <2> DEFINE x == c.line[q].base + i
  <2>2. x \in Addr
    BY <2>1, LineInMemory DEF Sound, InPlace
  <2>3. x \in Extent(c, c.line[q])
    BY <2>1, LineTypes DEF Extent, Sound
  <2>4. /\ q[1] = SetOf(c, x) /\ c.line[q].tag = TagOf(c, x)
        /\ x - c.line[q].base = OffOf(c, x)
    BY <2>1, <2>2, <2>3, Covers DEF Sound
  <2>5. i = OffOf(c, x)
    BY <2>1, <2>4, LineTypes DEF Sound
  <2>6. q = <<SetOf(c, x), q[2]>> /\ q[2] \in Ways(c)
    BY <2>4 DEF Slots
  <2>7. Matches(c, x, q[2])
    BY <2>1, <2>4, <2>6 DEF Matches
  <2>8. Visible(c, m, x) = c.line[q].data[i]
    BY <2>2, <2>5, <2>6, <2>7, VisibleValue DEF ByteIn
  <2> QED
    BY <1>10, <2>2, <2>8
<1>13. Sound(d, n)
  BY <1>4, <1>9, <1>10, <1>12 DEF Sound
<1> QED
  BY <1>10, <1>11, <1>13 DEF Settled, d, n

(* cache_flush settles and leaves nothing resident. *)
LEMMA FlushSettles ==
  ASSUME NEW c, NEW m, Sound(c, m)
  PROVE  /\ Settled(c, m, AllFlushed(c), AllWrittenBack(c, m))
         /\ \A p \in Slots(AllFlushed(c)) : ~AllFlushed(c).line[p].valid
<1> DEFINE f == [p \in Slots(c) |-> [Cleaned(c.line[p]) EXCEPT !.valid = FALSE]]
           d == AllFlushed(c)
<1>1. f \in [Slots(c) -> CacheLine(c.line_bytes)] /\ \A p \in Slots(c) : ~f[p].valid
  BY ZenonT(60), LineTypes DEF Sound, Cleaned, CacheLine
<1>2. d = [c EXCEPT !.line = f]
  BY DEF AllFlushed, Sound, IsCache
<1> HIDE DEF f, d
<1>3. IsCache(d)
  BY <1>1, <1>2, EveryLine DEF Sound
<1>4. SameGeometry(c, d)
  BY <1>1, <1>2, EveryLine DEF Sound
<1>5. d.line = f
  BY <1>1, <1>2, EveryLine DEF Sound
<1>6. Slots(d) = Slots(c)
  BY <1>4, SameDecode
<1>7. \A q \in Slots(d) : ~d.line[q].valid
  BY <1>1, <1>5, <1>6
<1>8. /\ IsMemory(AllWrittenBack(c, m))
      /\ \A x \in Addr : AllWrittenBack(c, m)[x] = Visible(c, m, x)
  BY AllOut
<1>9. /\ Sound(d, AllWrittenBack(c, m))
      /\ \A x \in Addr : Visible(d, AllWrittenBack(c, m), x) = AllWrittenBack(c, m)[x]
  BY <1>3, <1>7, <1>8, EmptyCache
<1> QED
  BY <1>7, <1>8, <1>9 DEF Settled, d

(* cache_invalidate leaves a sound, empty cache. *)
LEMMA InvalidateEmpties ==
  ASSUME NEW c, NEW m, Sound(c, m)
  PROVE  /\ Sound(AllInvalid(c), m)
         /\ \A x \in Addr : Visible(AllInvalid(c), m, x) = m[x]
<1> DEFINE f == [p \in Slots(c) |-> [c.line[p] EXCEPT !.valid = FALSE, !.dirty = FALSE]]
           d == AllInvalid(c)
<1>1. f \in [Slots(c) -> CacheLine(c.line_bytes)] /\ \A p \in Slots(c) : ~f[p].valid
  BY ZenonT(60), LineTypes DEF Sound, CacheLine
<1>2. d = [c EXCEPT !.line = f]
  BY DEF AllInvalid, Sound, IsCache
<1> HIDE DEF f, d
<1>3. IsCache(d)
  BY <1>1, <1>2, EveryLine DEF Sound
<1>4. SameGeometry(c, d)
  BY <1>1, <1>2, EveryLine DEF Sound
<1>5. d.line = f
  BY <1>1, <1>2, EveryLine DEF Sound
<1>6. Slots(d) = Slots(c)
  BY <1>4, SameDecode
<1>7. \A q \in Slots(d) : ~d.line[q].valid
  BY <1>1, <1>5, <1>6
<1> QED
  BY <1>3, <1>7, EmptyCache DEF Sound, d

(* An accepted cache_config makes a well-formed, empty cache. *)
LEMMA ConfiguredIsEmpty ==
  ASSUME NEW size \in Nat, NEW lb \in Nat, NEW ways \in Nat,
         GeometryOk(size, lb, ways),
         NEW repl \in Repl, NEW wpol \in WPol, NEW alloc \in BOOLEAN,
         NEW m, IsMemory(m)
  PROVE  LET d == Configured(size, lb, ways, repl, wpol, alloc)
         IN  Sound(d, m) /\ \A x \in Addr : Visible(d, m, x) = m[x]
<1> DEFINE d == Configured(size, lb, ways, repl, wpol, alloc)
<1>1. /\ lb \in Pow2 /\ ways \in Nat \ {0} /\ size \div (lb * ways) \in Pow2
      /\ lb \in Nat \ {0}
  BY Pow2Positive DEF GeometryOk
<1>2. lb <= MemSize
  <2>1. lb * ways >= lb
    BY <1>1
  <2> QED
    BY <1>1, <2>1, MemAssumption, Pow2Positive DEF GeometryOk
<1>3. NoLine(lb) \in CacheLine(lb) /\ ~NoLine(lb).valid /\ 0 \in Stamp
  BY ByteAssumption, ClockAssumption DEF NoLine, CacheLine, Stamp
<1>4. /\ d.line_bytes = lb /\ d.ways = ways /\ d.sets = size \div (lb * ways)
      /\ d.line = [p \in (0 .. d.sets - 1) \X (0 .. d.ways - 1) |-> NoLine(lb)]
  BY DEF Configured
<1>5. d.line = [p \in Slots(d) |-> NoLine(lb)]
  BY <1>4 DEF Slots, Ways
<1>6. d.line \in [Slots(d) -> CacheLine(d.line_bytes)]
  BY <1>3, <1>4, <1>5
<1>7. IsCache(d)
  BY <1>1, <1>2, <1>3, <1>4, <1>6 DEF IsCache, Configured
<1>8. \A q \in Slots(d) : ~d.line[q].valid
  BY <1>3, <1>5
<1> HIDE DEF d
<1>9. Sound(d, m) /\ \A x \in Addr : Visible(d, m, x) = m[x]
  BY <1>7, <1>8, EmptyCache
<1> QED
  BY <1>9 DEF d
=============================================================================
