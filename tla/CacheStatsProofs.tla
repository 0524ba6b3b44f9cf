-------------------------- MODULE CacheStatsProofs --------------------------
(***************************************************************************)
(* Proofs about h6502/cache.c, for every address space, geometry, policy   *)
(* and replacement clock.  Of Cache: its state is well formed, no line has *)
(* two copies, clean lines agree with memory, and the cache with its       *)
(* memory implements WriteBackMemory.  Of CacheStats: its counters tell    *)
(* one story, Conserved and OnceOut, whatever their bounds.  Of            *)
(* CacheRecency: its stamps implement the lists of RecencyList.            *)
(***************************************************************************)
EXTENDS CacheStats, CacheOpsProofs, FiniteSetTheorems, SequenceTheorems

(* The inductive invariant: the cache is sound over its memory.            *)
IInv ==
  /\ Sound(c, mem) /\ out \in Byte
  /\ did \in {"none", "read", "write", "sync", "drop"}

(* The value each address has for a reader. *)
View == [a \in Addr |-> Visible(c, mem, a)]

(* A policy change alters neither the lines nor what they mean. *)
LEMMA PolicySettles ==
  ASSUME NEW k, NEW m, Sound(k, m), NEW repl \in Repl, NEW wpol \in WPol,
         NEW alloc \in BOOLEAN,
         NEW d, d = [k EXCEPT !.repl = repl, !.wpol = wpol, !.write_alloc = alloc]
  PROVE  Settled(k, m, d, m)
<1>1. d.line = k.line /\ SameGeometry(k, d) /\ d.line_bytes = k.line_bytes
  BY DEF Sound, IsCache, SameGeometry
<1>2. /\ Slots(d) = Slots(k) /\ Ways(d) = Ways(k)
      /\ \A x \in Addr : /\ SetOf(d, x) = SetOf(k, x) /\ TagOf(d, x) = TagOf(k, x)
                         /\ BaseOf(d, x) = BaseOf(k, x) /\ OffOf(d, x) = OffOf(k, x)
  BY <1>1, SameDecode
<1>3. IsCache(d)
  BY <1>1, <1>2 DEF Sound, IsCache
<1>4. NoTwin(d) /\ InPlace(d) /\ Agrees(d, m)
  BY <1>1, <1>2 DEF Sound, NoTwin, InPlace, Agrees
<1>5. Sound(d, m)
  BY <1>3, <1>4 DEF Sound
<1>6. \A x \in Addr, w \in Ways(k) :
         /\ Matches(k, x, w) <=> Matches(d, x, w)
         /\ ByteIn(k, x, w) = ByteIn(d, x, w)
  BY <1>1, <1>2 DEF Matches, ByteIn
<1> QED
  BY <1>1, <1>5, <1>6, SameDirty

(* A settled step of the program is a step of the abstract memory that     *)
(* leaves the latest values alone and lets memory catch up.                *)
LEMMA SettledView ==
  ASSUME Sound(c, mem), Settled(c, mem, c', mem')
  PROVE  View' = View /\ mem' \in [Addr -> Byte] /\ Store!Settle
<1>1. \A x \in Addr : /\ Visible(c', mem', x) = Visible(c, mem, x)
                      /\ mem'[x] = mem[x] \/ mem'[x] = Visible(c, mem, x)
  BY DEF Settled
<1>2. View' = View
  BY <1>1 DEF View
<1>3. mem' \in [Addr -> Byte]
  BY DEF Settled, Sound, IsMemory
<1>4. Store!Settle
  BY <1>1 DEF Store!Settle
<1> QED
  BY <1>2, <1>3, <1>4

(* What a read returns is a byte. *)
LEMMA ViewType == ASSUME Sound(c, mem) PROVE View \in [Addr -> Byte]
BY VisibleValue DEF View

-----------------------------------------------------------------------------
(* One lemma per operation: it keeps the invariant and is a step of the    *)
(* abstract memory.                                                        *)

(* cache_read. *)
LEMMA ReadStep ==
  ASSUME IInv, NEW a \in Addr, Read(a)
  PROVE  IInv' /\ Store!Read(a)
<1>1. PICK w \in WaysFor(c, a) :
        /\ c' = Accessed(c, mem, a, w).c
        /\ mem' = Accessed(c, mem, a, w).m
        /\ out' = ByteIn(Accessed(c, mem, a, w).c, a, w)
        /\ did' = "read"
  BY DEF Read
<1>2. w \in Ways(c)
  BY <1>1, WayIsWay DEF IInv, Sound
<1>3. Settled(c, mem, c', mem') /\ out' = Visible(c, mem, a)
  BY <1>1, <1>2, AccessSettles DEF IInv
<1>4. View' = View /\ mem' \in [Addr -> Byte] /\ Store!Settle
  BY <1>3, SettledView DEF IInv
<1>5. out' \in Byte /\ Sound(c', mem')
  BY <1>3, VisibleValue DEF IInv, Settled
<1> QED
  BY <1>1, <1>3, <1>4, <1>5 DEF IInv, Store!Read, View

(* cache_write. *)
LEMMA WriteStep ==
  ASSUME IInv, NEW a \in Addr, NEW v \in Byte, Write(a, v)
  PROVE  IInv' /\ Store!Write(a, v)
<1>1. SUFFICES
        /\ Sound(c', mem') /\ out' = out /\ did' = "write"
        /\ \A x \in Addr :
             /\ Visible(c', mem', x) = IF x = a THEN v ELSE Visible(c, mem, x)
             /\ mem'[x] = mem[x] \/ mem'[x] = Visible(c', mem', x)
  <2>1. View' = [View EXCEPT ![a] = v]
    BY <1>1 DEF View
  <2>2. mem' \in [Addr -> Byte]
    BY <1>1 DEF Sound, IsMemory
  <2>3. Store!Settle
    BY <1>1 DEF Store!Settle
  <2> QED
    BY <1>1, <2>1, <2>2, <2>3 DEF IInv, Store!Write, View
<1>2. CASE WriteAround(a, v)
  <2>1. c' = c /\ out' = out /\ did' = "write" /\ mem' = [mem EXCEPT ![a] = v] /\ ~Hit(c, a)
    BY <1>2 DEF WriteAround
  <2>2. IsMemory(mem) /\ IsMemory(mem')
    BY <2>1 DEF IInv, Sound, IsMemory
  <2>3. Agrees(c, mem')
    <3>1. SUFFICES ASSUME NEW q \in Slots(c), c.line[q].valid, ~c.line[q].dirty,
                          NEW i \in 0 .. c.line_bytes - 1
                   PROVE  c.line[q].data[i] = mem'[c.line[q].base + i]
      BY DEF Agrees
    <3> DEFINE x == c.line[q].base + i
    <3>2. x \in Addr
      BY <3>1, LineInMemory DEF IInv, Sound, InPlace
    <3>3. x # a
      <4>1. x \in Extent(c, c.line[q])
        BY <3>1, LineTypes DEF Extent, IInv, Sound
      <4>2. q[1] = SetOf(c, x) /\ c.line[q].tag = TagOf(c, x)
        BY <3>1, <3>2, <4>1, Covers DEF IInv, Sound
      <4>3. q = <<SetOf(c, x), q[2]>> /\ q[2] \in Ways(c)
        BY <4>2 DEF Slots
      <4>4. Hit(c, x)
        BY <3>1, <4>2, <4>3 DEF Hit, Matches
      <4> QED
        BY <2>1, <4>4
    <3>4. mem'[x] = mem[x]
      BY <2>1, <2>2, <3>2, <3>3 DEF IsMemory
    <3> QED
      BY <3>1, <3>4 DEF IInv, Sound, Agrees
  <2>4. Sound(c', mem')
    BY <2>1, <2>2, <2>3 DEF IInv, Sound
  <2>5. ASSUME NEW x \in Addr
        PROVE  /\ Visible(c', mem', x) = IF x = a THEN v ELSE Visible(c, mem, x)
               /\ mem'[x] = mem[x] \/ mem'[x] = Visible(c', mem', x)
    BY <2>1, <2>2 DEF Visible, IsMemory
  <2> QED
    BY <2>1, <2>4, <2>5
<1>3. CASE WriteInto(a, v)
  <2>1. PICK w \in WaysFor(c, a) :
          LET r == Accessed(c, mem, a, w)
          IN  /\ c' = Stored(r.c, r.m, a, w, v).c
              /\ mem' = Stored(r.c, r.m, a, w, v).m
    BY <1>3 DEF WriteInto
  <2> DEFINE k == Accessed(c, mem, a, w).c
             after == Accessed(c, mem, a, w).m
  <2>2. w \in Ways(c)
    BY <2>1, WayIsWay DEF IInv, Sound
  <2>3. /\ Settled(c, mem, k, after) /\ SameGeometry(c, k) /\ Matches(k, a, w)
        /\ after[a] = mem[a]
    BY <2>2, AccessSettles DEF IInv
  <2>4. c' = Stored(k, after, a, w, v).c /\ mem' = Stored(k, after, a, w, v).m
    BY <2>1
  <2> HIDE DEF k, after
  <2>5. Sound(k, after) /\ w \in Ways(k)
    BY <2>2, <2>3, SameDecode DEF Settled
  <2>6. Sound(c', mem')
    BY <2>3, <2>4, <2>5, StoreEffect
  <2>7. ASSUME NEW x \in Addr
        PROVE  /\ Visible(c', mem', x) = IF x = a THEN v ELSE Visible(c, mem, x)
               /\ mem'[x] = mem[x] \/ mem'[x] = Visible(c', mem', x)
    <3>1. /\ Visible(c', mem', x) = IF x = a THEN v ELSE Visible(k, after, x)
          /\ mem'[x] = after[x] \/ mem'[x] = Visible(c', mem', x)
      BY <2>3, <2>4, <2>5, StoreEffect
    <3>2. /\ Visible(k, after, x) = Visible(c, mem, x)
          /\ after[x] = mem[x] \/ after[x] = Visible(c, mem, x)
      BY <2>3 DEF Settled
    <3> QED
      BY <2>3, <3>1, <3>2
  <2> QED
    BY <1>3, <2>6, <2>7 DEF WriteInto
<1> QED
  BY <1>2, <1>3 DEF Write

(* cache_clean. *)
LEMMA CleanStep ==
  ASSUME IInv, Clean
  PROVE  IInv' /\ Store!SyncAll
<1>1. Settled(c, mem, c', mem')
  BY CleanSettles DEF Clean, IInv
<1>2. \A x \in Addr : mem'[x] = Visible(c, mem, x)
  BY AllOut DEF Clean, IInv
<1>3. View' = View /\ mem' \in [Addr -> Byte]
  BY <1>1, SettledView DEF IInv
<1>4. mem' = View
  BY <1>2, <1>3 DEF View
<1> QED
  BY <1>1, <1>3, <1>4 DEF Clean, IInv, Settled, Store!SyncAll, View

(* cache_flush. *)
LEMMA FlushStep ==
  ASSUME IInv, Flush
  PROVE  IInv' /\ Store!SyncAll
<1>1. Settled(c, mem, c', mem')
  BY FlushSettles DEF Flush, IInv
<1>2. \A x \in Addr : mem'[x] = Visible(c, mem, x)
  BY AllOut DEF Flush, IInv
<1>3. View' = View /\ mem' \in [Addr -> Byte]
  BY <1>1, SettledView DEF IInv
<1>4. mem' = View
  BY <1>2, <1>3 DEF View
<1> QED
  BY <1>1, <1>3, <1>4 DEF Flush, IInv, Settled, Store!SyncAll, View

(* Writing back the line that covers a makes a durable. *)
LEMMA AddrOut ==
  ASSUME IInv, NEW a \in Addr, Hit(c, a)
  PROVE  LET p == <<SetOf(c, a), HitWay(c, a)>>
         IN  /\ p \in Slots(c) /\ c.line[p].valid
             /\ WrittenBack(c, mem, c.line[p])[a] = Visible(c, mem, a)
<1>1. PICK w \in Ways(c) : Matches(c, a, w)
  BY DEF Hit
<1>2. HitWay(c, a) = w /\ Visible(c, mem, a) = ByteIn(c, a, w)
  BY <1>1, VisibleByte DEF IInv, Sound
<1> DEFINE p == <<SetOf(c, a), w>>
<1>3. p \in Slots(c) /\ c.line[p].valid /\ c.line[p].tag = TagOf(c, a)
  BY <1>1, SlotOf DEF IInv, Sound, Matches
<1>4. /\ a \in Extent(c, c.line[p]) /\ a - c.line[p].base = OffOf(c, a)
      /\ OffOf(c, a) \in 0 .. c.line_bytes - 1
  BY <1>3, Covers DEF IInv, Sound
<1>5. CASE c.line[p].dirty
  BY <1>2, <1>3, <1>4, <1>5 DEF WrittenBack, ByteIn
<1>6. CASE ~c.line[p].dirty
  <2>1. \A v \in Ways(c) : Matches(c, a, v) => v = w
    BY <1>2, VisibleByte DEF IInv, Sound
  <2>2. Visible(c, mem, a) = mem[a]
    BY <1>6, <2>1, VisibleValue DEF IInv
  <2> QED
    BY <1>2, <1>3, <1>6, <2>2 DEF WrittenBack
<1> QED
  BY <1>2, <1>3, <1>5, <1>6

(* cache_clean_addr. *)
LEMMA CleanAddrStep ==
  ASSUME IInv, NEW a \in Addr, CleanAddr(a)
  PROVE  IInv' /\ Store!Sync(a)
<1> DEFINE p == <<SetOf(c, a), HitWay(c, a)>>
<1>1. /\ p \in Slots(c)
      /\ WrittenBack(c, mem, c.line[p])[a] = Visible(c, mem, a)
  BY AddrOut DEF CleanAddr
<1>2. /\ c' = [c EXCEPT !.line[p] = Cleaned(c.line[p])]
      /\ mem' = WrittenBack(c, mem, c.line[p]) /\ out' = out
      /\ did' = "sync"
  BY DEF CleanAddr
<1>3. Settled(c, mem, c', mem')
  BY <1>1, <1>2, WriteBackSettles DEF IInv
<1>4. View' = View /\ mem' \in [Addr -> Byte] /\ Store!Settle
  BY <1>3, SettledView DEF IInv
<1> QED
  BY <1>1, <1>2, <1>3, <1>4 DEF IInv, Settled, Store!Sync, View

(* cache_snoop. *)
LEMMA SnoopStep ==
  ASSUME IInv, NEW a \in Addr, Snoop(a)
  PROVE  IInv' /\ Store!Sync(a)
<1> DEFINE p == <<SetOf(c, a), HitWay(c, a)>>
           d == [c EXCEPT !.line[p] = Cleaned(c.line[p])]
           after == WrittenBack(c, mem, c.line[p])
           l == [Cleaned(c.line[p]) EXCEPT !.valid = FALSE]
<1>1. p \in Slots(c) /\ c.line[p].valid /\ after[a] = Visible(c, mem, a)
  BY AddrOut DEF Snoop
<1>2. /\ c' = [c EXCEPT !.line[p] = l]
      /\ mem' = after /\ out' = out /\ did' = "sync"
  BY DEF Snoop
<1>3. /\ c.line[p] \in CacheLine(c.line_bytes) /\ IsCache(c)
      /\ Cleaned(c.line[p]) \in CacheLine(c.line_bytes) /\ ~Cleaned(c.line[p]).dirty
      /\ l \in CacheLine(c.line_bytes) /\ ~l.valid
  BY ZenonT(60), <1>1, LineTypes DEF IInv, Sound, Cleaned, CacheLine
<1>4. Settled(c, mem, d, after)
  BY <1>1, WriteBackSettles DEF IInv
<1>5. SameGeometry(c, d) /\ d.line[p] = Cleaned(c.line[p])
  <2>1. SameGeometry(c, d)
    BY <1>1, WriteBackSettles DEF IInv
  <2>2. d.line[p] = Cleaned(c.line[p])
    BY <1>1, <1>3 DEF IsCache
  <2> QED
    BY <2>1, <2>2
<1>6. c' = WithLine(d, p, l, d.clock)
  BY <1>1, <1>2, <1>3 DEF WithLine, IsCache
<1>7. /\ Sound(d, after) /\ p \in Slots(d) /\ ~d.line[p].dirty
      /\ l \in CacheLine(d.line_bytes)
  BY <1>1, <1>3, <1>4, <1>5, SameDecode DEF Settled, SameGeometry
<1> HIDE DEF d, after, l
<1>8. Settled(d, after, c', after)
  BY <1>3, <1>6, <1>7, DropSettles
<1>9. Settled(c, mem, c', mem')
  BY <1>2, <1>4, <1>8, SettledTransitive
<1>10. View' = View /\ mem' \in [Addr -> Byte] /\ Store!Settle
  BY <1>9, SettledView DEF IInv
<1> QED
  BY <1>1, <1>2, <1>9, <1>10 DEF IInv, Settled, Store!Sync, View

(* cache_invalidate. *)
LEMMA InvalidateStep ==
  ASSUME IInv, Invalidate
  PROVE  IInv' /\ Store!Drop
<1>1. /\ Sound(c', mem) /\ mem' = mem /\ out' = out /\ did' = "drop"
      /\ \A x \in Addr : Visible(c', mem, x) = mem[x]
  BY InvalidateEmpties DEF Invalidate, IInv
<1>2. mem \in [Addr -> Byte]
  BY DEF IInv, Sound, IsMemory
<1>3. View' = mem
  BY <1>1, <1>2 DEF View
<1> QED
  BY <1>1, <1>3 DEF IInv, Store!Drop, View

(* cache_config. *)
LEMMA ConfigStep ==
  ASSUME IInv, NEW r \in Requests, Config(r[1], r[2], r[3])
  PROVE  IInv' /\ Store!Drop
<1>1. /\ r[1] \in Nat /\ r[2] \in Nat /\ r[3] \in Nat
      /\ GeometryOk(r[1], r[2], r[3])
  <2>1. /\ r[1] \in Nat /\ r[2] \in Nat /\ r[3] \in Nat
        /\ r[1] < WordMod /\ r[2] * r[3] < WordMod
    BY RequestAssumption DEF IsRequest
  <2> QED
    BY <2>1, WordGeometry DEF Config
<1>2. /\ c.repl \in Repl /\ c.wpol \in WPol /\ c.write_alloc \in BOOLEAN
      /\ mem \in [Addr -> Byte] /\ IsMemory(mem)
  BY DEF IInv, Sound, IsCache, IsMemory
<1>3. /\ Sound(c', mem) /\ mem' = mem /\ out' = out /\ did' = "drop"
      /\ \A x \in Addr : Visible(c', mem, x) = mem[x]
  BY <1>1, <1>2, ConfiguredIsEmpty DEF Config
<1>4. View' = mem
  BY <1>2, <1>3 DEF View
<1> QED
  BY <1>3, <1>4 DEF IInv, Store!Drop, View

(* the config command. *)
LEMMA PolicyStep ==
  ASSUME IInv, NEW p \in Policies, Policy(p[1], p[2], p[3])
  PROVE  IInv' /\ UNCHANGED <<View, mem, out, did>>
<1>1. p[1] \in Repl /\ p[2] \in WPol /\ p[3] \in BOOLEAN
  BY PolicyAssumption
<1>2. Settled(c, mem, c', mem)
  BY <1>1, PolicySettles DEF IInv, Policy
<1>3. mem' = mem /\ out' = out /\ did' = did
  BY DEF Policy
<1>4. View' = View
  BY <1>2, <1>3, SettledView DEF IInv
<1> QED
  BY <1>2, <1>3, <1>4 DEF IInv, Settled

-----------------------------------------------------------------------------
(* The specification. *)

(* A configured cache and a memory satisfy the invariant. *)
LEMMA InitStep ==
  ASSUME Init
  PROVE  IInv /\ Store!Init
<1>1. PICK r \in InitRequests, p \in Policies :
        c = Configured(r[1], r[2], r[3], p[1], p[2], p[3])
  BY DEF Init
<1>2. /\ r[1] \in Nat /\ r[2] \in Nat /\ r[3] \in Nat
      /\ GeometryOk(r[1], r[2], r[3])
      /\ p[1] \in Repl /\ p[2] \in WPol /\ p[3] \in BOOLEAN
  BY RequestAssumption, PolicyAssumption
<1>3. mem \in [Addr -> Byte] /\ IsMemory(mem) /\ out = 0 /\ did = "none"
  BY DEF Init, IsMemory
<1>4. Sound(c, mem) /\ \A x \in Addr : Visible(c, mem, x) = mem[x]
  BY <1>1, <1>2, <1>3, ConfiguredIsEmpty
<1>5. View = mem
  BY <1>3, <1>4 DEF View
<1> QED
  BY <1>3, <1>4, <1>5, ByteAssumption DEF IInv, Store!Init, View

(* Every operation but the two that drop stores. *)
LEMMA KeepStep ==
  ASSUME IInv, [Keep]_vars
  PROVE  IInv' /\ [Store!SafeNext]_<<View, mem, out, did>>
<1>1. ASSUME NEW a \in UsedAddr, Read(a)
      PROVE  IInv' /\ Store!SafeNext
  BY <1>1, ReadStep, UsedAssumption DEF Store!SafeNext
<1>2. ASSUME NEW a \in UsedAddr, NEW v \in Byte, Write(a, v)
      PROVE  IInv' /\ Store!SafeNext
  BY <1>2, WriteStep, UsedAssumption DEF Store!SafeNext
<1>3. ASSUME NEW a \in UsedAddr, CleanAddr(a)
      PROVE  IInv' /\ Store!SafeNext
  BY <1>3, CleanAddrStep, UsedAssumption DEF Store!SafeNext
<1>4. ASSUME NEW a \in UsedAddr, Snoop(a)
      PROVE  IInv' /\ Store!SafeNext
  BY <1>4, SnoopStep, UsedAssumption DEF Store!SafeNext
<1>5. ASSUME Clean PROVE IInv' /\ Store!SafeNext
  BY <1>5, CleanStep DEF Store!SafeNext
<1>6. ASSUME Flush PROVE IInv' /\ Store!SafeNext
  BY <1>6, FlushStep DEF Store!SafeNext
<1>7. ASSUME NEW p \in Policies, Policy(p[1], p[2], p[3])
      PROVE  IInv' /\ UNCHANGED <<View, mem, out, did>>
  BY <1>7, PolicyStep
<1>8. ASSUME UNCHANGED vars
      PROVE  IInv' /\ UNCHANGED <<View, mem, out, did>>
  BY <1>8 DEF vars, IInv, View
<1> QED
  BY <1>1, <1>2, <1>3, <1>4, <1>5, <1>6, <1>7, <1>8 DEF Keep

(* Every step of the specification. *)
LEMMA NextStep ==
  ASSUME IInv, [Next]_vars
  PROVE  IInv' /\ [Store!Next]_<<View, mem, out, did>>
<1>1. ASSUME [Keep]_vars
      PROVE  IInv' /\ [Store!Next]_<<View, mem, out, did>>
  BY <1>1, KeepStep DEF Store!SafeNext, Store!Next
<1>2. ASSUME Invalidate PROVE IInv' /\ Store!Next
  BY <1>2, InvalidateStep DEF Store!Next
<1>3. ASSUME NEW r \in Requests, Config(r[1], r[2], r[3])
      PROVE  IInv' /\ Store!Next
  BY <1>3, ConfigStep DEF Store!Next
<1> QED
  BY <1>1, <1>2, <1>3 DEF Next

(* In every reachable state the cache is sound over its memory.            *)
THEOREM Soundness == Spec => []IInv
<1>1. Init => IInv
  BY InitStep
<1>2. IInv /\ [Next]_vars => IInv'
  BY NextStep
<1> QED
  BY <1>1, <1>2, PTL DEF Spec

(* The fields of the cache and the memory always have their types.         *)
THEOREM Typing == Spec => []TypeOK
<1>1. IInv => TypeOK
  BY DEF IInv, Sound, TypeOK
<1> QED
  BY <1>1, Soundness, PTL

(* No reachable cache holds a line twice.                                  *)
THEOREM NeverTwoCopies == Spec => []OneCopy
<1>1. IInv => OneCopy
  BY DEF IInv, Sound, OneCopy
<1> QED
  BY <1>1, Soundness, PTL

(* Every line stays where cache_decode looks for it.                       *)
THEOREM AlwaysPlaced == Spec => []Placed
<1>1. IInv => Placed
  BY DEF IInv, Sound, Placed
<1> QED
  BY <1>1, Soundness, PTL

(* A line that is not dirty always agrees with memory.                     *)
THEOREM CleanLinesAgree == Spec => []CleanIsMemory
<1>1. IInv => CleanIsMemory
  BY DEF IInv, Sound, CleanIsMemory
<1> QED
  BY <1>1, Soundness, PTL

(* The cache and its memory implement the write-back memory.               *)
THEOREM Refinement == Spec => KeepsPromise
<1>1. Init => IInv /\ Store!Init
  BY InitStep
<1>2. IInv /\ [Next]_vars => IInv' /\ [Store!Next]_Store!vars
  BY NextStep DEF Store!vars, View
<1> QED
  BY <1>1, <1>2, PTL DEF Spec, KeepsPromise, Store!Spec

(* As long as nothing is dropped or reconfigured, no store is ever lost.   *)
THEOREM NoStoreLost == KeepSpec => KeepsEveryStore
<1>1. Init => IInv /\ Store!Init
  BY InitStep
<1>2. IInv /\ [Keep]_vars => IInv' /\ [Store!SafeNext]_Store!vars
  BY KeepStep DEF Store!vars, View
<1> QED
  BY <1>1, <1>2, PTL DEF KeepSpec, KeepsEveryStore, Store!SafeSpec

-----------------------------------------------------------------------------
(* The counters. *)

Counters == [miss : Nat, evictions : Nat, writebacks : Nat, in : Nat, out : Nat]
Ghosts   == [resident : Nat, dirty : Nat, dropped : Nat, deferred : Nat]

(* What the counters k and the ghosts g say of lines of lb bytes, of which *)
(* v are valid and d dirty.  The bytes that came in are whole lines.       *)
Account(k, g, lb, v, d) ==
  /\ k \in Counters /\ g \in Ghosts
  /\ \E f \in Nat : /\ k.in = f * lb
                    /\ g.resident + f = v + k.evictions + g.dropped
  /\ k.writebacks + d <= g.dirty + g.deferred

(* The inductive invariant: the cache is sound, and the account is right.  *)
StatInv ==
  /\ IInv
  /\ Account(n, ghost, c.line_bytes, Cardinality(Valid(c)), Cardinality(Dirty(c)))

-----------------------------------------------------------------------------
(* Sets of lines. *)

(* Valid and dirty lines can be counted. *)
LEMMA LinesFinite ==
  ASSUME NEW k, IsCache(k)
  PROVE  /\ IsFiniteSet(Valid(k)) /\ Cardinality(Valid(k)) \in Nat
         /\ IsFiniteSet(Dirty(k)) /\ Cardinality(Dirty(k)) \in Nat
<1>1. k.sets - 1 \in Int /\ k.ways - 1 \in Int
  BY Pow2Positive DEF IsCache
<1>2. \A i \in Int : IsFiniteSet(0 .. i)
  BY FS_Interval
<1>3. IsFiniteSet(Slots(k))
  BY <1>1, <1>2, FS_Product DEF Slots, Ways
<1>4. Valid(k) \in SUBSET Slots(k) /\ Dirty(k) \in SUBSET Valid(k)
  BY DEF Valid, Dirty
<1>5. IsFiniteSet(Valid(k))
  BY <1>3, <1>4, FS_Subset
<1>6. IsFiniteSet(Dirty(k))
  BY <1>4, <1>5, FS_Subset
<1> QED
  BY <1>5, <1>6, FS_CardinalityType

(* Lines that agree on their flags are counted alike. *)
LEMMA SameFlags ==
  ASSUME NEW k, NEW d, Slots(d) = Slots(k),
         \A q \in Slots(k) : /\ d.line[q].valid = k.line[q].valid
                             /\ d.line[q].dirty = k.line[q].dirty
  PROVE  Valid(d) = Valid(k) /\ Dirty(d) = Dirty(k)
BY DEF Valid, Dirty

(* An access changes the flags of no line on a hit.  On a miss, its line   *)
(* takes slot p and is clean, and the other lines stay as they are.        *)
LEMMA AccessFlags ==
  ASSUME NEW k, NEW m, Sound(k, m), NEW a \in Addr, NEW w \in Ways(k),
         w \in WaysFor(k, a),
         NEW p, p = <<SetOf(k, a), w>>,
         NEW d, d = Accessed(k, m, a, w).c
  PROVE  /\ Hit(k, a) => Valid(d) = Valid(k) /\ Dirty(d) = Dirty(k)
         /\ ~Hit(k, a) => Valid(d) = Valid(k) \cup {p} /\ Dirty(d) = Dirty(k) \ {p}
<1>1. SameGeometry(k, d)
  BY AccessSettles
<1>2. IsCache(k) /\ p \in Slots(k) /\ Slots(d) = Slots(k)
  BY <1>1, SameDecode, SlotOf DEF Sound
<1>3. k.line \in [Slots(k) -> CacheLine(k.line_bytes)] /\ k.line[p] \in CacheLine(k.line_bytes)
  BY <1>2, LineTypes DEF IsCache
<1>4. CASE Hit(k, a)
  <2>1. d = Touched(k, p)
    BY <1>4 DEF Accessed
  <2>2. CASE k.repl = "lru"
    <3>1. d.line = [k.line EXCEPT ![p] = [k.line[p] EXCEPT !.stamp = Tick(k)]]
      BY <1>2, <2>1, <2>2 DEF Touched, IsCache
    <3>2. \A q \in Slots(k) : /\ d.line[q].valid = k.line[q].valid
                              /\ d.line[q].dirty = k.line[q].dirty
      BY ZenonT(60), <1>3, <3>1 DEF CacheLine
    <3> QED
      BY <1>2, <1>4, <3>2, SameFlags
  <2>3. CASE k.repl # "lru"
    BY <1>4, <2>1, <2>3 DEF Touched
  <2> QED
    BY <2>2, <2>3
<1>5. CASE ~Hit(k, a)
  <2>1. PICK o : d = [k EXCEPT !.clock = Tick(k), !.line[p] = Filled(k, o, a)]
    BY <1>5 DEF Accessed
  <2>2. d.line = [k.line EXCEPT ![p] = Filled(k, o, a)]
    BY <1>2, <2>1 DEF IsCache
  <2>3. d.line[p].valid /\ ~d.line[p].dirty
    BY <1>2, <1>3, <2>2 DEF Filled
  <2>4. \A q \in Slots(k) : q # p => d.line[q] = k.line[q]
    BY <1>3, <2>2
  <2> QED
    BY <1>2, <1>5, <2>3, <2>4 DEF Valid, Dirty
<1> QED
  BY <1>4, <1>5

(* A line whose slot keeps its flag and its tag still answers.             *)
LEMMA MatchKept ==
  ASSUME NEW k, NEW d, NEW a, NEW w, Matches(k, a, w),
         NEW p, p = <<SetOf(k, a), w>>,
         SetOf(d, a) = SetOf(k, a), TagOf(d, a) = TagOf(k, a),
         d.line[p].valid = k.line[p].valid, d.line[p].tag = k.line[p].tag
  PROVE  Matches(d, a, w)
<1>1. k.line[p].valid /\ k.line[p].tag = TagOf(k, a)
  BY DEF Matches
<1>2. d.line[p].valid /\ d.line[p].tag = TagOf(d, a)
  BY <1>1
<1> QED
  BY <1>2 DEF Matches

(* A store into a line that is there changes no flag but its dirty bit,    *)
(* which write-back sets.                                                  *)
LEMMA StoreFlags ==
  ASSUME NEW k, NEW m, IsCache(k), NEW a \in Addr, NEW w \in Ways(k),
         Matches(k, a, w), NEW v,
         NEW p, p = <<SetOf(k, a), w>>,
         NEW d, d = Stored(k, m, a, w, v).c
  PROVE  /\ SameGeometry(k, d) /\ Matches(d, a, w)
         /\ Valid(d) = Valid(k)
         /\ k.wpol = "through" => Dirty(d) = Dirty(k)
         /\ k.wpol # "through" => Dirty(d) = Dirty(k) \cup {p}
<1> DEFINE o == OffOf(k, a)
           l == [k.line[p] EXCEPT !.data[o] = v]
<1>1. p \in Slots(k) /\ k.line \in [Slots(k) -> CacheLine(k.line_bytes)]
  BY SlotOf DEF IsCache
<1>2. k.line[p] \in CacheLine(k.line_bytes) /\ k.line[p].valid
  BY <1>1 DEF Matches
<1>3. l.valid = k.line[p].valid /\ l.dirty = k.line[p].dirty /\ l.tag = k.line[p].tag
  BY <1>2 DEF CacheLine
<1>4. CASE k.wpol = "through"
  <2>1. d = [k EXCEPT !.line[p].data[o] = v]
    BY <1>4 DEF Stored
  <2>2. SameGeometry(k, d) /\ d.line = [k.line EXCEPT ![p] = l]
    BY <1>1, <2>1 DEF IsCache, SameGeometry
  <2>3. d.line[p] = l /\ \A q \in Slots(k) : q # p => d.line[q] = k.line[q]
    BY <1>1, <2>2
  <2>4. Slots(d) = Slots(k) /\ SetOf(d, a) = SetOf(k, a) /\ TagOf(d, a) = TagOf(k, a)
    BY <2>2, SameDecode
  <2>5. Matches(d, a, w)
    <3>1. d.line[p].valid = k.line[p].valid /\ d.line[p].tag = k.line[p].tag
      BY <1>3, <2>3
    <3> QED
      BY <2>4, <3>1, MatchKept
  <2>6. \A q \in Slots(k) : /\ d.line[q].valid = k.line[q].valid
                            /\ d.line[q].dirty = k.line[q].dirty
    BY <1>3, <2>3
  <2> QED
    BY ZenonT(60), <1>4, <2>2, <2>4, <2>5, <2>6, SameFlags
<1>5. CASE k.wpol # "through"
  <2> DEFINE b == [k EXCEPT !.line[p].data[o] = v]
             e == [l EXCEPT !.dirty = TRUE]
  <2>1. d = [b EXCEPT !.line[p].dirty = TRUE]
    BY <1>5 DEF Stored
  <2>2. SameGeometry(k, b) /\ b.line = [k.line EXCEPT ![p] = l] /\ b.line[p] = l
    BY <1>1 DEF IsCache, SameGeometry
  <2>3. SameGeometry(k, d) /\ d.line = [b.line EXCEPT ![p] = [b.line[p] EXCEPT !.dirty = TRUE]]
    <3>1. d.line_bytes = b.line_bytes /\ d.sets = b.sets /\ d.ways = b.ways
      BY <2>1 DEF IsCache
    <3>2. d.line = [b.line EXCEPT ![p] = [b.line[p] EXCEPT !.dirty = TRUE]]
      BY <2>1 DEF IsCache
    <3> QED
      BY <2>2, <3>1, <3>2 DEF SameGeometry
  <2>4. d.line[p] = e /\ \A q \in Slots(k) : q # p => d.line[q] = k.line[q]
    BY <1>1, <2>2, <2>3
  <2>5. e.valid = k.line[p].valid /\ e.dirty = TRUE /\ e.tag = k.line[p].tag
    BY <1>2 DEF CacheLine
  <2>6. Slots(d) = Slots(k) /\ SetOf(d, a) = SetOf(k, a) /\ TagOf(d, a) = TagOf(k, a)
    BY <2>3, SameDecode
  <2>7. Matches(d, a, w)
    <3>1. d.line[p].valid = k.line[p].valid /\ d.line[p].tag = k.line[p].tag
      BY <2>4, <2>5
    <3> QED
      BY <2>6, <3>1, MatchKept
  <2> HIDE DEF e, l
  <2>8. Valid(d) = Valid(k)
    BY <1>1, <2>4, <2>5, <2>6 DEF Valid
  <2>9. Dirty(d) = Dirty(k) \cup {p}
    BY <1>1, <1>2, <2>4, <2>5, <2>6, <2>8 DEF Dirty, Valid
  <2> QED
    BY <1>5, <2>3, <2>7, <2>8, <2>9
<1> QED
  BY <1>4, <1>5

-----------------------------------------------------------------------------
(* Sums. *)

(* A miss brings in a line for the one it evicts, if it evicts one (e),    *)
(* and writes that one back if it is dirty (b).                            *)
LEMMA MissAccount ==
  ASSUME NEW k, NEW g, NEW lb \in Nat, NEW v \in Nat, NEW d \in Nat,
         Account(k, g, lb, v, d),
         NEW e \in {0, 1}, NEW b \in {0, 1},
         NEW q, q = [k EXCEPT !.miss = @ + 1, !.evictions = @ + e,
                              !.writebacks = @ + b, !.out = @ + b * lb, !.in = @ + lb]
  PROVE  Account(q, g, lb, v + 1 - e, d - b)
<1>1. k \in Counters /\ g \in Ghosts
  BY DEF Account
<1>2. /\ q.miss = k.miss + 1 /\ q.evictions = k.evictions + e
      /\ q.writebacks = k.writebacks + b /\ q.out = k.out + b * lb /\ q.in = k.in + lb
  BY <1>1 DEF Counters
<1>3. b * lb \in Nat
  OBVIOUS
<1>4. q \in Counters
  <2>1. q = [miss |-> k.miss + 1, evictions |-> k.evictions + e,
             writebacks |-> k.writebacks + b, in |-> k.in + lb, out |-> k.out + b * lb]
    BY <1>1 DEF Counters
  <2>2. k.miss + 1 \in Nat /\ k.evictions + e \in Nat /\ k.writebacks + b \in Nat
    BY <1>1 DEF Counters
  <2>3. k.in + lb \in Nat /\ k.out + b * lb \in Nat
    BY <1>1, <1>3 DEF Counters
  <2> QED
    BY <2>1, <2>2, <2>3 DEF Counters
<1>5. PICK f \in Nat : k.in = f * lb /\ g.resident + f = v + k.evictions + g.dropped
  BY DEF Account
<1>6. f + 1 \in Nat /\ (f + 1) * lb = f * lb + lb
  OBVIOUS
<1>7. g.resident + (f + 1) = (v + 1 - e) + q.evictions + g.dropped
  BY <1>1, <1>2, <1>5 DEF Counters, Ghosts
<1>8. q.writebacks + (d - b) <= g.dirty + g.deferred
  BY <1>1, <1>2 DEF Account, Counters, Ghosts
<1> QED
  BY <1>1, <1>2, <1>4, <1>5, <1>6, <1>7, <1>8 DEF Account

(* Lines written back and no longer dirty (b of them), and lines dropped   *)
(* (s of them).                                                            *)
LEMMA SettleAccount ==
  ASSUME NEW k, NEW g, NEW lb \in Nat, NEW v \in Nat, NEW d \in Nat,
         Account(k, g, lb, v, d),
         NEW b \in Nat, NEW s \in Nat,
         NEW q, q = [k EXCEPT !.writebacks = @ + b, !.out = @ + b * lb],
         NEW h, h = [g EXCEPT !.dropped = @ + s]
  PROVE  Account(q, h, lb, v - s, d - b)
<1>1. k \in Counters /\ g \in Ghosts
  BY DEF Account
<1>2. /\ q.evictions = k.evictions /\ q.in = k.in
      /\ q.writebacks = k.writebacks + b /\ q.out = k.out + b * lb
      /\ h.resident = g.resident /\ h.dirty = g.dirty /\ h.deferred = g.deferred
      /\ h.dropped = g.dropped + s
  BY <1>1 DEF Counters, Ghosts
<1>3. b * lb \in Nat
  OBVIOUS
<1>4. q \in Counters /\ h \in Ghosts
  <2>1. q = [miss |-> k.miss, evictions |-> k.evictions, writebacks |-> k.writebacks + b,
             in |-> k.in, out |-> k.out + b * lb]
    BY <1>1 DEF Counters
  <2>2. k.writebacks + b \in Nat /\ k.out + b * lb \in Nat
    BY <1>1, <1>3 DEF Counters
  <2>3. q \in Counters
    BY <1>1, <2>1, <2>2 DEF Counters
  <2>4. h \in Ghosts
    BY <1>1 DEF Ghosts
  <2> QED
    BY <2>3, <2>4
<1>5. PICK f \in Nat : k.in = f * lb /\ g.resident + f = v + k.evictions + g.dropped
  BY DEF Account
<1>6. h.resident + f = (v - s) + q.evictions + h.dropped
  BY <1>1, <1>2, <1>5 DEF Counters, Ghosts
<1>7. q.writebacks + (d - b) <= h.dirty + h.deferred
  BY <1>1, <1>2 DEF Account, Counters, Ghosts
<1> QED
  BY <1>2, <1>4, <1>5, <1>6, <1>7 DEF Account

(* What Counted adds for an access is right. *)
LEMMA AccessAccount ==
  ASSUME StatInv, NEW a \in Addr, NEW w \in Ways(c), w \in WaysFor(c, a),
         NEW d, d = Accessed(c, mem, a, w).c
  PROVE  Account(Counted(n, a, w), ghost, c.line_bytes,
                 Cardinality(Valid(d)), Cardinality(Dirty(d)))
<1> DEFINE p == <<SetOf(c, a), w>>
           e == IF c.line[p].valid THEN 1 ELSE 0
           b == IF c.line[p].valid /\ c.line[p].dirty THEN 1 ELSE 0
           v == Cardinality(Valid(c))
           t == Cardinality(Dirty(c))
<1>1. Sound(c, mem) /\ IsCache(c) /\ p \in Slots(c)
  BY SlotOf DEF StatInv, IInv, Sound
<1>2. /\ IsFiniteSet(Valid(c)) /\ v \in Nat
      /\ IsFiniteSet(Dirty(c)) /\ t \in Nat
  BY <1>1, LinesFinite
<1>3. c.line_bytes \in Nat /\ Account(n, ghost, c.line_bytes, v, t)
  BY <1>1, LineTypes DEF StatInv
<1>4. CASE Hit(c, a)
  BY <1>1, <1>3, <1>4, AccessFlags DEF Counted
<1>5. CASE ~Hit(c, a)
  <2>1. Valid(d) = Valid(c) \cup {p} /\ Dirty(d) = Dirty(c) \ {p}
    BY <1>1, <1>5, AccessFlags
  <2>2. p \in Valid(c) <=> c.line[p].valid
    BY <1>1 DEF Valid
  <2>3. p \in Dirty(c) <=> c.line[p].valid /\ c.line[p].dirty
    BY <1>1 DEF Valid, Dirty
  <2>4. Cardinality(Valid(d)) = v + 1 - e
    <3>1. Cardinality(Valid(c) \cup {p}) = IF p \in Valid(c) THEN v ELSE v + 1
      BY <1>2, FS_AddElement
    <3> QED
      BY <1>2, <2>1, <2>2, <3>1
  <2>5. Cardinality(Dirty(d)) = t - b
    <3>1. Cardinality(Dirty(c) \ {p}) = IF p \in Dirty(c) THEN t - 1 ELSE t
      BY <1>2, FS_RemoveElement
    <3> QED
      BY <1>2, <2>1, <2>3, <3>1
  <2>6. e \in {0, 1} /\ b \in {0, 1}
    OBVIOUS
  <2>7. Counted(n, a, w) =
          [n EXCEPT !.miss = @ + 1, !.evictions = @ + e, !.writebacks = @ + b,
                    !.out = @ + b * c.line_bytes, !.in = @ + c.line_bytes]
    BY <1>5 DEF Counted
  <2> HIDE DEF e, b, v, t
  <2>8. Account(Counted(n, a, w), ghost, c.line_bytes, v + 1 - e, t - b)
    BY <1>2, <1>3, <2>6, <2>7, MissAccount
  <2> QED
    BY <2>4, <2>5, <2>8
<1> QED
  BY <1>4, <1>5

-----------------------------------------------------------------------------
(* Steps. *)

(* The account of the state after a step. *)
Right == Account(n, ghost, c.line_bytes, Cardinality(Valid(c)), Cardinality(Dirty(c)))

(* After an access the line of a is in one way only, the one it used. *)
LEMMA UsedIs ==
  ASSUME IsCache(c), NoTwin(c'), SameGeometry(c, c'), NEW a \in Addr,
         NEW w \in Ways(c), Matches(c', a, w)
  PROVE  UsedWay(a) = w
<1>1. /\ Slots(c') = Slots(c)
      /\ SetOf(c', a) = SetOf(c, a) /\ TagOf(c', a) = TagOf(c, a)
  BY SameDecode
<1>2. \A v \in Ways(c) : <<SetOf(c, a), v>> \in Slots(c')
  BY <1>1, SlotOf
<1>3. c'.line[<<SetOf(c, a), w>>].valid /\ c'.line[<<SetOf(c, a), w>>].tag = TagOf(c, a)
  BY <1>1 DEF Matches
<1>4. ASSUME NEW v \in Ways(c), c'.line[<<SetOf(c, a), v>>].valid,
             c'.line[<<SetOf(c, a), v>>].tag = TagOf(c, a)
      PROVE  v = w
  <2> DEFINE p == <<SetOf(c, a), v>>
             q == <<SetOf(c, a), w>>
  <2>1. p \in Slots(c') /\ q \in Slots(c') /\ p[1] = q[1]
    BY <1>2
  <2>2. p = q
    BY <1>3, <1>4, <2>1 DEF NoTwin
  <2> QED
    BY <2>2
<1> QED
  BY <1>3, <1>4 DEF UsedWay

(* Every operation of StatNext is one of Next, or leaves the cache alone. *)
LEMMA StatIsNext == StatNext => [Next]_vars
<1> SUFFICES ASSUME StatNext PROVE [Next]_vars
  OBVIOUS
<1>1. ASSUME NEW a \in UsedAddr, CountRead(a) PROVE Next
  BY <1>1 DEF CountRead, Next, Keep
<1>2. ASSUME NEW a \in UsedAddr, NEW v \in Byte,
             CountWriteAround(a, v) \/ CountWriteInto(a, v)
      PROVE  Next
  BY <1>2 DEF CountWriteAround, CountWriteInto, Write, Next, Keep
<1>3. ASSUME NEW a \in UsedAddr, CountCleanAddr(a) \/ CountSnoop(a) PROVE Next
  BY <1>3 DEF CountCleanAddr, CountSnoop, Next, Keep
<1>4. CountClean \/ CountFlush \/ CountInvalidate => Next
  BY DEF CountClean, CountFlush, CountInvalidate, Next, Keep
<1>5. ResetStats => UNCHANGED vars
  BY DEF ResetStats
<1>6. ASSUME NEW p \in Policies, SetPolicy(p) PROVE Next
  BY <1>6 DEF SetPolicy, Next, Keep
<1> QED
  BY <1>1, <1>2, <1>3, <1>4, <1>5, <1>6 DEF StatNext

(* cache_read. *)
LEMMA CountReadStep ==
  ASSUME StatInv, IInv', NEW a \in Addr, CountRead(a)
  PROVE  Right'
<1>1. PICK w \in WaysFor(c, a) : c' = Accessed(c, mem, a, w).c
  BY DEF CountRead, Read
<1>2. Sound(c, mem) /\ IsCache(c) /\ NoTwin(c) /\ NoTwin(c')
  BY DEF StatInv, IInv, Sound
<1>3. w \in Ways(c)
  BY <1>2, WayIsWay
<1>4. SameGeometry(c, c') /\ Matches(c', a, w)
  BY <1>1, <1>2, <1>3, AccessSettles
<1>5. n' = Counted(n, a, w) /\ ghost' = ghost
  BY <1>2, <1>3, <1>4, UsedIs DEF CountRead
<1>6. Account(Counted(n, a, w), ghost, c.line_bytes,
              Cardinality(Valid(c')), Cardinality(Dirty(c')))
  BY <1>1, <1>3, AccessAccount
<1> QED
  BY <1>4, <1>5, <1>6 DEF Right, SameGeometry

(* A write that misses and does not allocate. *)
LEMMA CountAroundStep ==
  ASSUME StatInv, NEW a \in Addr, NEW v \in Byte, CountWriteAround(a, v)
  PROVE  Right'
<1>1. c' = c /\ ghost' = ghost /\ n' = [n EXCEPT !.miss = @ + 1, !.out = @ + 1]
  BY DEF CountWriteAround, WriteAround
<1>2. Right /\ n \in Counters
  BY DEF StatInv, Right, Account
<1>3. n'.in = n.in /\ n'.evictions = n.evictions /\ n'.writebacks = n.writebacks
  BY <1>1, <1>2 DEF Counters
<1>4. n' \in Counters
  <2>1. n' = [miss |-> n.miss + 1, evictions |-> n.evictions, writebacks |-> n.writebacks,
              in |-> n.in, out |-> n.out + 1]
    BY <1>1, <1>2 DEF Counters
  <2> QED
    BY <1>2, <2>1 DEF Counters
<1>5. Account(n', ghost, c.line_bytes, Cardinality(Valid(c)), Cardinality(Dirty(c)))
  BY <1>2, <1>3, <1>4 DEF Right, Account
<1> QED
  BY <1>1, <1>5 DEF Right

(* A write into a line: through, a byte goes out; back, the line is dirty, *)
(* and it was not if this store is the first to be deferred.               *)
LEMMA CountIntoStep ==
  ASSUME StatInv, IInv', NEW a \in Addr, NEW v \in Byte, CountWriteInto(a, v)
  PROVE  Right'
<1>1. PICK w \in WaysFor(c, a) :
        c' = Stored(Accessed(c, mem, a, w).c, Accessed(c, mem, a, w).m, a, w, v).c
  BY DEF CountWriteInto, WriteInto
<1>2. Sound(c, mem) /\ IsCache(c) /\ NoTwin(c) /\ NoTwin(c') /\ IsCache(c')
  BY DEF StatInv, IInv, Sound
<1>3. w \in Ways(c)
  BY <1>2, WayIsWay
<1>4. PICK d : d = Accessed(c, mem, a, w).c
  OBVIOUS
<1>5. SameGeometry(c, d) /\ Matches(d, a, w) /\ IsCache(d) /\ d.wpol = c.wpol
  <2>1. SameGeometry(c, d) /\ Matches(d, a, w)
    BY <1>2, <1>3, <1>4, AccessSettles
  <2>2. Settled(c, mem, d, Accessed(c, mem, a, w).m)
    BY <1>2, <1>3, <1>4, AccessSettles
  <2>3. d.wpol = c.wpol
    BY <1>2, <1>4 DEF Accessed, Touched, IsCache
  <2> QED
    BY <2>1, <2>2, <2>3 DEF Settled, Sound
<1>6. w \in Ways(d) /\ Slots(d) = Slots(c) /\ SetOf(d, a) = SetOf(c, a)
  BY <1>3, <1>5, SameDecode
<1>7. PICK p : p = <<SetOf(c, a), w>>
  OBVIOUS
<1>8. /\ SameGeometry(d, c') /\ Matches(c', a, w)
      /\ Valid(c') = Valid(d)
      /\ c.wpol = "through" => Dirty(c') = Dirty(d)
      /\ c.wpol # "through" => Dirty(c') = Dirty(d) \cup {p}
  <2>1. PICK o : c' = Stored(d, o, a, w, v).c
    <3>1. c' = Stored(d, Accessed(c, mem, a, w).m, a, w, v).c
      BY <1>1, <1>4
    <3> QED
      BY <3>1
  <2>2. p = <<SetOf(d, a), w>>
    BY <1>6, <1>7
  <2>3. SameGeometry(d, c')
    BY <1>5, <1>6, <2>1, <2>2, StoreFlags
  <2>4. Matches(c', a, w)
    BY <1>5, <1>6, <2>1, <2>2, StoreFlags
  <2>5. Valid(c') = Valid(d)
    BY <1>5, <1>6, <2>1, <2>2, StoreFlags
  <2>6. /\ d.wpol = "through" => Dirty(c') = Dirty(d)
        /\ d.wpol # "through" => Dirty(c') = Dirty(d) \cup {p}
    BY SMTT(30), <1>5, <1>6, <2>1, <2>2, StoreFlags
  <2> QED
    BY <1>5, <2>3, <2>4, <2>5, <2>6
<1>9. SameGeometry(c, c') /\ c'.line_bytes = c.line_bytes
  BY <1>5, <1>8 DEF SameGeometry
<1>10. UsedWay(a) = w
  BY <1>2, <1>3, <1>8, <1>9, UsedIs
<1> DEFINE k == Counted(n, a, w)
           s == Cardinality(Valid(d))
           t == Cardinality(Dirty(d))
<1>11. Account(k, ghost, c.line_bytes, s, t)
  BY <1>3, <1>4, AccessAccount
<1>12. k \in Counters /\ ghost \in Ghosts
  BY <1>11 DEF Account
<1>13. IsFiniteSet(Dirty(d)) /\ t \in Nat
  BY <1>5, LinesFinite
<1> HIDE DEF k
<1>14. CASE c.wpol = "through"
  <2>1. n' = [k EXCEPT !.out = @ + 1] /\ ghost' = ghost
    BY <1>10, <1>14 DEF CountWriteInto, k
  <2>2. /\ n' \in Counters /\ n'.in = k.in /\ n'.evictions = k.evictions
        /\ n'.writebacks = k.writebacks
    BY <1>12, <2>1 DEF Counters
  <2>3. Account(n', ghost, c.line_bytes, s, t)
    BY <1>11, <2>2 DEF Account
  <2> QED
    BY <1>8, <1>9, <1>14, <2>1, <2>3 DEF Right
<1>15. CASE c.wpol # "through"
  <2>1. n' = k /\ ghost' = [ghost EXCEPT !.deferred = @ + 1]
    BY <1>10, <1>15 DEF CountWriteInto, k
  <2>2. /\ ghost' \in Ghosts /\ ghost'.resident = ghost.resident
        /\ ghost'.dropped = ghost.dropped /\ ghost'.dirty = ghost.dirty
        /\ ghost'.deferred = ghost.deferred + 1
    BY <1>12, <2>1 DEF Ghosts
  <2>3. Cardinality(Dirty(c')) = IF p \in Dirty(d) THEN t ELSE t + 1
    BY <1>8, <1>13, <1>15, FS_AddElement
  <2>4. k.writebacks + Cardinality(Dirty(c')) <= ghost'.dirty + ghost'.deferred
    BY <1>11, <1>12, <1>13, <2>2, <2>3 DEF Account, Counters, Ghosts
  <2>5. Account(k, ghost', c.line_bytes, s, Cardinality(Dirty(c')))
    BY <1>11, <2>2, <2>4 DEF Account
  <2> QED
    BY <1>8, <1>9, <2>1, <2>5 DEF Right
<1> QED
  BY <1>14, <1>15

(* The lines written back: those of a set of slots that are dirty. *)
LEMMA WrittenBackAccount ==
  ASSUME StatInv, NEW slots, NEW s \in Nat, NEW b \in Nat,
         b = Cardinality(slots \cap Dirty(c)), NEW q, q = WriteBacks(n, slots),
         NEW h, h = [ghost EXCEPT !.dropped = @ + s]
  PROVE  Account(q, h, c.line_bytes, Cardinality(Valid(c)) - s, Cardinality(Dirty(c)) - b)
<1>1. IsCache(c) /\ Right
  BY DEF StatInv, IInv, Sound, Right
<1>2. /\ c.line_bytes \in Nat
      /\ Cardinality(Valid(c)) \in Nat /\ Cardinality(Dirty(c)) \in Nat
  BY <1>1, LinesFinite, Pow2Positive DEF IsCache
<1>3. q = [n EXCEPT !.writebacks = @ + b, !.out = @ + b * c.line_bytes]
  BY DEF WriteBacks
<1> QED
  BY <1>1, <1>2, <1>3, SettleAccount DEF Right

(* cache_clean. *)
LEMMA CountCleanStep ==
  ASSUME StatInv, CountClean
  PROVE  Right'
<1> DEFINE b == Cardinality(Dirty(c))
           h == [ghost EXCEPT !.dropped = @ + 0]
<1>1. c' = AllClean(c) /\ n' = WriteBacks(n, Slots(c)) /\ ghost' = ghost
  BY DEF CountClean, Clean
<1>2. IsCache(c) /\ ghost \in Ghosts
  BY DEF StatInv, IInv, Sound, Account
<1>3. c.line \in [Slots(c) -> CacheLine(c.line_bytes)]
  BY <1>2 DEF IsCache
<1>4. /\ c'.line = [p \in Slots(c) |-> Cleaned(c.line[p])]
      /\ SameGeometry(c, c') /\ Slots(c') = Slots(c)
  <2>1. c'.line = [p \in Slots(c) |-> Cleaned(c.line[p])] /\ SameGeometry(c, c')
    BY <1>1, <1>2 DEF AllClean, IsCache, SameGeometry
  <2> QED
    BY <2>1, SameDecode
<1>5. \A p \in Slots(c) : /\ c'.line[p].valid = c.line[p].valid
                          /\ c'.line[p].valid => ~c'.line[p].dirty
  BY <1>3, <1>4 DEF Cleaned, CacheLine
<1>6. Valid(c') = Valid(c) /\ Dirty(c') = {}
  BY <1>4, <1>5 DEF Valid, Dirty
<1>7. b \in Nat /\ Cardinality(Valid(c)) \in Nat
  BY <1>2, LinesFinite
<1>8. Slots(c) \cap Dirty(c) = Dirty(c) /\ h = ghost
  BY <1>2 DEF Valid, Dirty, Ghosts
<1>9. Cardinality(Dirty(c')) = b - b /\ Cardinality(Valid(c')) = Cardinality(Valid(c)) - 0
  BY <1>6, <1>7, FS_EmptySet
<1> HIDE DEF h, b
<1>10. Account(n', h, c.line_bytes, Cardinality(Valid(c)) - 0, Cardinality(Dirty(c)) - b)
  BY <1>1, <1>7, <1>8, WrittenBackAccount DEF b, h
<1> QED
  BY <1>1, <1>4, <1>8, <1>9, <1>10 DEF Right, SameGeometry, b

(* The line that covers a is one of the valid lines. *)
LEMMA FoundIsValid ==
  ASSUME StatInv, NEW a \in Addr, Hit(c, a), NEW p, p = <<SetOf(c, a), HitWay(c, a)>>
  PROVE  p \in Valid(c) /\ p \in Slots(c)
<1>1. IsCache(c) /\ NoTwin(c)
  BY DEF StatInv, IInv, Sound
<1>2. PICK w \in Ways(c) : Matches(c, a, w)
  BY DEF Hit
<1>3. HitWay(c, a) = w
  BY <1>1, <1>2, VisibleByte
<1> QED
  BY <1>1, <1>2, <1>3, SlotOf DEF Valid, Matches

(* Writing back line p of c and leaving l there, clean, in place of it. *)
LEMMA OneLineAccount ==
  ASSUME StatInv, NEW p \in Valid(c), NEW l \in CacheLine(c.line_bytes), ~l.dirty,
         c' = [c EXCEPT !.line[p] = l], n' = WriteBacks(n, {p}),
         ghost' = [ghost EXCEPT !.dropped = @ + (IF l.valid THEN 0 ELSE 1)]
  PROVE  Right'
<1> DEFINE s == IF l.valid THEN 0 ELSE 1
           b == IF p \in Dirty(c) THEN 1 ELSE 0
<1>1. IsCache(c)
  BY DEF StatInv, IInv, Sound
<1>2. /\ IsFiniteSet(Valid(c)) /\ Cardinality(Valid(c)) \in Nat
      /\ IsFiniteSet(Dirty(c)) /\ Cardinality(Dirty(c)) \in Nat
  BY <1>1, LinesFinite
<1>3. p \in Slots(c) /\ c.line \in [Slots(c) -> CacheLine(c.line_bytes)]
  BY <1>1 DEF Valid, IsCache
<1>4. c'.line = [c.line EXCEPT ![p] = l] /\ SameGeometry(c, c')
  BY <1>1 DEF IsCache, SameGeometry
<1>5. Slots(c') = Slots(c)
  BY <1>4, SameDecode
<1>6. c'.line[p] = l /\ \A q \in Slots(c) : q # p => c'.line[q] = c.line[q]
  BY <1>3, <1>4
<1>7. Dirty(c') = Dirty(c) \ {p}
  BY <1>5, <1>6 DEF Dirty, Valid
<1>8. Valid(c') = IF l.valid THEN Valid(c) ELSE Valid(c) \ {p}
  <2>1. CASE l.valid
    BY <1>3, <1>5, <1>6, <2>1 DEF Valid
  <2>2. CASE ~l.valid
    BY <1>3, <1>5, <1>6, <2>2 DEF Valid
  <2> QED
    BY <2>1, <2>2
<1>9. Cardinality(Dirty(c')) = Cardinality(Dirty(c)) - b
  <2>1. Cardinality(Dirty(c) \ {p})
          = IF p \in Dirty(c) THEN Cardinality(Dirty(c)) - 1 ELSE Cardinality(Dirty(c))
    BY <1>2, FS_RemoveElement
  <2>2. Cardinality(Dirty(c')) = Cardinality(Dirty(c) \ {p})
    BY <1>7
  <2>3. CASE p \in Dirty(c)
    BY <1>2, <2>1, <2>2, <2>3
  <2>4. CASE p \notin Dirty(c)
    BY <1>2, <2>1, <2>2, <2>4
  <2> QED
    BY <2>3, <2>4
<1>10. Cardinality(Valid(c')) = Cardinality(Valid(c)) - s
  <2>1. Cardinality(Valid(c) \ {p}) = Cardinality(Valid(c)) - 1
    <3>1. Cardinality(Valid(c) \ {p})
            = IF p \in Valid(c) THEN Cardinality(Valid(c)) - 1 ELSE Cardinality(Valid(c))
      BY <1>2, FS_RemoveElement
    <3> QED
      BY <3>1
  <2>2. CASE l.valid
    <3>1. Valid(c') = Valid(c) /\ s = 0
      BY <1>8, <2>2
    <3> QED
      BY <1>2, <3>1
  <2>3. CASE ~l.valid
    <3>1. Valid(c') = Valid(c) \ {p} /\ s = 1
      BY <1>8, <2>3
    <3> QED
      BY <1>2, <2>1, <3>1
  <2> QED
    BY <2>2, <2>3
<1>11. b = Cardinality({p} \cap Dirty(c))
  <2>1. CASE p \in Dirty(c)
    <3>1. {p} \cap Dirty(c) = {p}
      BY <2>1
    <3> QED
      BY <2>1, <3>1, FS_Singleton
  <2>2. CASE p \notin Dirty(c)
    <3>1. {p} \cap Dirty(c) = {}
      BY <2>2
    <3> QED
      BY <2>2, <3>1, FS_EmptySet
  <2> QED
    BY <2>1, <2>2
<1>12. b \in Nat /\ s \in Nat /\ ghost' = [ghost EXCEPT !.dropped = @ + s]
  OBVIOUS
<1> HIDE DEF b, s
<1>13. Account(n', ghost', c.line_bytes,
               Cardinality(Valid(c)) - s, Cardinality(Dirty(c)) - b)
  BY <1>11, <1>12, WrittenBackAccount
<1> QED
  BY <1>4, <1>9, <1>10, <1>13 DEF Right, SameGeometry

(* cache_clean_addr and cache_snoop. *)
LEMMA CountCleanAddrStep ==
  ASSUME StatInv, NEW a \in Addr, CountCleanAddr(a)
  PROVE  Right'
<1> DEFINE p == <<SetOf(c, a), HitWay(c, a)>>
           l == [c.line[p] EXCEPT !.dirty = FALSE]
<1>1. p \in Valid(c) /\ p \in Slots(c)
  BY FoundIsValid DEF CountCleanAddr, CleanAddr
<1>2. IsCache(c) /\ ghost \in Ghosts
  BY DEF StatInv, IInv, Sound, Account
<1>3. c.line[p] \in CacheLine(c.line_bytes) /\ c.line[p].valid
  BY <1>1, <1>2, LineTypes DEF Valid
<1>4. l \in CacheLine(c.line_bytes) /\ ~l.dirty /\ l.valid
  BY <1>3 DEF CacheLine
<1>5. c' = [c EXCEPT !.line[p] = l] /\ n' = WriteBacks(n, {p})
  BY <1>3 DEF CountCleanAddr, CleanAddr, Cleaned
<1>6. ghost' = [ghost EXCEPT !.dropped = @ + 0]
  BY <1>2 DEF CountCleanAddr, Ghosts
<1> HIDE DEF l
<1> QED
  BY <1>1, <1>4, <1>5, <1>6, OneLineAccount

LEMMA CountSnoopStep ==
  ASSUME StatInv, NEW a \in Addr, CountSnoop(a)
  PROVE  Right'
<1> DEFINE p == <<SetOf(c, a), HitWay(c, a)>>
           l == [[c.line[p] EXCEPT !.dirty = FALSE] EXCEPT !.valid = FALSE]
<1>1. p \in Valid(c) /\ p \in Slots(c)
  BY FoundIsValid DEF CountSnoop, Snoop
<1>2. IsCache(c)
  BY DEF StatInv, IInv, Sound
<1>3. c.line[p] \in CacheLine(c.line_bytes) /\ c.line[p].valid
  BY <1>1, <1>2, LineTypes DEF Valid
<1>4. l \in CacheLine(c.line_bytes) /\ ~l.dirty /\ ~l.valid
  BY <1>3 DEF CacheLine
<1>5. c' = [c EXCEPT !.line[p] = l] /\ n' = WriteBacks(n, {p})
  BY <1>3 DEF CountSnoop, Snoop, Cleaned
<1>6. ghost' = [ghost EXCEPT !.dropped = @ + 1]
  <2>1. Cardinality({p}) = 1
    BY FS_Singleton
  <2> QED
    BY <2>1 DEF CountSnoop, Dropped
<1> HIDE DEF l
<1> QED
  BY <1>1, <1>4, <1>5, <1>6, OneLineAccount

(* cache_flush and cache_invalidate. *)
LEMMA CountFlushStep ==
  ASSUME StatInv, CountFlush
  PROVE  Right'
<1> DEFINE b == Cardinality(Dirty(c))
           s == Cardinality(Valid(c))
<1>1. c' = AllFlushed(c) /\ n' = WriteBacks(n, Slots(c))
      /\ ghost' = [ghost EXCEPT !.dropped = @ + s]
  BY DEF CountFlush, Flush, Dropped
<1>2. IsCache(c)
  BY DEF StatInv, IInv, Sound
<1>3. b \in Nat /\ s \in Nat
  BY <1>2, LinesFinite
<1>4. SameGeometry(c, c')
  BY <1>1, <1>2 DEF AllFlushed, IsCache, SameGeometry
<1>5. \A q \in Slots(c') : ~c'.line[q].valid
  BY <1>1, FlushSettles DEF StatInv, IInv
<1>6. Valid(c') = {} /\ Dirty(c') = {}
  BY <1>5 DEF Valid, Dirty
<1>7. Slots(c) \cap Dirty(c) = Dirty(c)
  BY DEF Valid, Dirty
<1>8. Cardinality(Dirty(c')) = b - b /\ Cardinality(Valid(c')) = s - s
  BY <1>3, <1>6, FS_EmptySet
<1> HIDE DEF b, s
<1>9. Account(n', ghost', c.line_bytes, Cardinality(Valid(c)) - s, Cardinality(Dirty(c)) - b)
  BY <1>1, <1>3, <1>7, WrittenBackAccount DEF b
<1> QED
  BY <1>4, <1>8, <1>9 DEF Right, SameGeometry, b, s

LEMMA CountInvalidateStep ==
  ASSUME StatInv, CountInvalidate
  PROVE  Right'
<1> DEFINE b == Cardinality(Dirty(c))
           s == Cardinality(Valid(c))
<1>1. c' = AllInvalid(c) /\ n' = n /\ ghost' = [ghost EXCEPT !.dropped = @ + s]
  BY DEF CountInvalidate, Invalidate, Dropped
<1>2. IsCache(c) /\ Right
  BY DEF StatInv, IInv, Sound, Right
<1>3. b \in Nat /\ s \in Nat
  BY <1>2, LinesFinite
<1>4. SameGeometry(c, c')
  BY <1>1, <1>2 DEF AllInvalid, IsCache, SameGeometry
<1>5. c'.line = [p \in Slots(c) |-> [c.line[p] EXCEPT !.valid = FALSE, !.dirty = FALSE]]
      /\ c.line \in [Slots(c) -> CacheLine(c.line_bytes)]
  BY <1>1, <1>2 DEF AllInvalid, IsCache
<1>6. Slots(c') = Slots(c)
  BY <1>4, SameDecode
<1>7. \A q \in Slots(c') : ~c'.line[q].valid
  BY ZenonT(60), <1>5, <1>6 DEF CacheLine
<1>8. Valid(c') = {} /\ Dirty(c') = {}
  BY <1>7 DEF Valid, Dirty
<1>9. Cardinality(Dirty(c')) = 0 /\ Cardinality(Valid(c')) = 0
  BY <1>8, FS_EmptySet
<1>10. n \in Counters /\ ghost \in Ghosts
  BY <1>2 DEF Right, Account
<1>11. /\ ghost' \in Ghosts /\ ghost'.resident = ghost.resident
       /\ ghost'.dropped = ghost.dropped + s /\ ghost'.dirty = ghost.dirty
       /\ ghost'.deferred = ghost.deferred
  BY <1>1, <1>3, <1>10 DEF Ghosts
<1> HIDE DEF b, s
<1>12. PICK f \in Nat : /\ n.in = f * c.line_bytes
                        /\ ghost.resident + f = s + n.evictions + ghost.dropped
  BY <1>2 DEF Right, Account, s
<1>13. ghost'.resident + f = 0 + n.evictions + ghost'.dropped
  BY <1>3, <1>10, <1>11, <1>12 DEF Counters, Ghosts
<1>14. n.writebacks + 0 <= ghost'.dirty + ghost'.deferred
  BY <1>2, <1>3, <1>10, <1>11 DEF Right, Account, Counters, Ghosts, b
<1>15. Account(n, ghost', c.line_bytes, 0, 0)
  BY <1>10, <1>11, <1>12, <1>13, <1>14 DEF Account
<1> QED
  BY <1>1, <1>4, <1>9, <1>15 DEF Right, SameGeometry

(* cache_reset_stats: the lines there are the lines to account for. *)
LEMMA ResetStep ==
  ASSUME StatInv, ResetStats
  PROVE  Right'
<1> DEFINE v == Cardinality(Valid(c))
           d == Cardinality(Dirty(c))
<1>1. c' = c /\ n' = Zero
      /\ ghost' = [resident |-> v, dirty |-> d, dropped |-> 0, deferred |-> 0]
  BY DEF ResetStats, vars
<1>2. IsCache(c)
  BY DEF StatInv, IInv, Sound
<1>3. v \in Nat /\ d \in Nat
  BY <1>2, LinesFinite
<1>4. c.line_bytes \in Nat
  BY <1>2, Pow2Positive DEF IsCache
<1> HIDE DEF v, d
<1>5. n' \in Counters /\ n'.in = 0 * c.line_bytes /\ n'.evictions = 0 /\ n'.writebacks = 0
  BY <1>1, <1>4 DEF Counters, Zero
<1>6. /\ ghost' \in Ghosts /\ ghost'.resident = v /\ ghost'.dropped = 0
      /\ ghost'.dirty = d /\ ghost'.deferred = 0
  BY <1>1, <1>3 DEF Ghosts
<1>7. v + 0 = v + 0 + 0 /\ 0 + d <= d + 0
  BY <1>3
<1>8. Account(n', ghost', c.line_bytes, v, d)
  BY <1>5, <1>6, <1>7 DEF Account
<1> QED
  BY <1>1, <1>8 DEF Right, v, d

(* The policy keys of the config command. *)
LEMMA CountPolicyStep ==
  ASSUME StatInv, NEW p \in Policies, SetPolicy(p)
  PROVE  Right'
<1>1. /\ c' = [c EXCEPT !.repl = p[1], !.wpol = p[2], !.write_alloc = p[3]]
      /\ n' = n /\ ghost' = ghost
  BY DEF SetPolicy, Policy
<1>2. IsCache(c) /\ Right
  BY DEF StatInv, IInv, Sound, Right
<1>3. SameGeometry(c, c') /\ c'.line = c.line
  BY <1>1, <1>2 DEF IsCache, SameGeometry
<1>4. Valid(c') = Valid(c) /\ Dirty(c') = Dirty(c)
  BY <1>3, SameDecode, SameFlags
<1> QED
  BY <1>1, <1>2, <1>3, <1>4 DEF Right, SameGeometry

-----------------------------------------------------------------------------
(* The specification. *)

(* A configured cache holds nothing. *)
LEMMA InitAccount ==
  ASSUME StatInit
  PROVE  StatInv
<1>1. IInv
  BY InitStep DEF StatInit
<1>2. PICK r \in InitRequests, p \in Policies :
        c = Configured(r[1], r[2], r[3], p[1], p[2], p[3])
  BY DEF StatInit, Init
<1>3. IsCache(c) /\ c.line_bytes \in Nat
  BY <1>1, Pow2Positive DEF IInv, Sound, IsCache
<1>4. \A q \in Slots(c) : ~c.line[q].valid
  <2>1. c.line = [q \in (0 .. c.sets - 1) \X (0 .. c.ways - 1) |-> NoLine(r[2])]
    BY <1>2 DEF Configured
  <2> QED
    BY <2>1 DEF Slots, Ways, NoLine
<1>5. Valid(c) = {} /\ Dirty(c) = {}
  BY <1>4 DEF Valid, Dirty
<1>6. Cardinality(Valid(c)) = 0 /\ Cardinality(Dirty(c)) = 0
  BY <1>5, FS_EmptySet
<1>7. n \in Counters /\ n.in = 0 * c.line_bytes /\ n.evictions = 0 /\ n.writebacks = 0
  BY <1>3 DEF StatInit, Counters, Zero
<1>8. /\ ghost \in Ghosts /\ ghost.resident = 0 /\ ghost.dropped = 0
      /\ ghost.dirty = 0 /\ ghost.deferred = 0
  BY DEF StatInit, Ghosts
<1>9. Account(n, ghost, c.line_bytes, 0, 0)
  BY <1>7, <1>8 DEF Account
<1> QED
  BY <1>1, <1>6, <1>9 DEF StatInv

(* Every step keeps the account. *)
LEMMA StatStep ==
  ASSUME StatInv, [StatNext]_statVars
  PROVE  StatInv'
<1>1. CASE UNCHANGED statVars
  BY <1>1 DEF statVars, StatInv, IInv, Account, Valid, Dirty
<1>2. CASE StatNext
  <2>1. IInv'
    BY <1>2, StatIsNext, NextStep DEF StatInv
  <2>2. UsedAddr \subseteq Addr
    BY UsedAssumption
  <2>3. ASSUME NEW a \in UsedAddr, CountRead(a) PROVE Right'
    <3>1. a \in Addr
      BY <2>2, <2>3
    <3> QED
      BY <2>1, <2>3, <3>1, CountReadStep
  <2>4. ASSUME NEW a \in UsedAddr, NEW v \in Byte, CountWriteAround(a, v) PROVE Right'
    <3>1. a \in Addr
      BY <2>2, <2>4
    <3> QED
      BY <2>1, <2>4, <3>1, CountAroundStep
  <2>5. ASSUME NEW a \in UsedAddr, NEW v \in Byte, CountWriteInto(a, v) PROVE Right'
    <3>1. a \in Addr
      BY <2>2, <2>5
    <3> QED
      BY <2>1, <2>5, <3>1, CountIntoStep
  <2>6. ASSUME NEW a \in UsedAddr, CountCleanAddr(a) PROVE Right'
    <3>1. a \in Addr
      BY <2>2, <2>6
    <3> QED
      BY <2>1, <2>6, <3>1, CountCleanAddrStep
  <2>7. ASSUME NEW a \in UsedAddr, CountSnoop(a) PROVE Right'
    <3>1. a \in Addr
      BY <2>2, <2>7
    <3> QED
      BY <2>1, <2>7, <3>1, CountSnoopStep
  <2>8. ASSUME CountClean PROVE Right'
    BY <2>8, CountCleanStep
  <2>9. ASSUME CountFlush PROVE Right'
    BY <2>9, CountFlushStep
  <2>10. ASSUME CountInvalidate PROVE Right'
    BY <2>10, CountInvalidateStep
  <2>11. ASSUME ResetStats PROVE Right'
    BY <2>11, ResetStep
  <2>12. ASSUME NEW p \in Policies, SetPolicy(p) PROVE Right'
    BY <2>12, CountPolicyStep
  <2>13. Right'
    BY <1>2, <2>3, <2>4, <2>5, <2>6, <2>7, <2>8, <2>9, <2>10, <2>11, <2>12 DEF StatNext
  <2> QED
    BY <2>1, <2>13 DEF StatInv, Right
<1> QED
  BY <1>1, <1>2

(* The counters agree with the lines in every reachable state.             *)
THEOREM Accounted == StatSpec => []StatInv
<1>1. StatInit => StatInv
  BY InitAccount
<1>2. StatInv /\ [StatNext]_statVars => StatInv'
  BY StatStep
<1> QED
  BY <1>1, <1>2, PTL DEF StatSpec

(* The misses and the traffic of handle_miss and writeback account for     *)
(* every line, with the evictions and what was dropped uncounted.          *)
THEOREM LinesConserved == StatSpec => []Conserved
<1>1. ASSUME StatInv PROVE Conserved
  <2>1. PICK f \in Nat :
          /\ n.in = f * c.line_bytes
          /\ ghost.resident + f = Cardinality(Valid(c)) + n.evictions + ghost.dropped
    BY <1>1 DEF StatInv, Account
  <2>2. c.line_bytes \in Nat \ {0}
    BY <1>1, Pow2Positive DEF StatInv, IInv, Sound, IsCache
  <2>3. (f * c.line_bytes) \div c.line_bytes = f
    BY <2>2
  <2> QED
    BY <2>1, <2>3 DEF Conserved
<1> QED
  BY <1>1, Accounted, PTL

(* A line goes out at most once for every time a store made it dirty.      *)
THEOREM DeferredOnce == StatSpec => []OnceOut
<1>1. StatInv => OnceOut
  BY DEF StatInv, Account, OnceOut
<1> QED
  BY <1>1, Accounted, PTL

-----------------------------------------------------------------------------
(* The order of replacement. *)

(* What can be numbered from 1 to i, each once, is i in number. *)
LEMMA Numbered ==
  ASSUME NEW i \in Nat, NEW S, NEW f \in [1 .. i -> S],
         \A x, y \in 1 .. i : f[x] = f[y] => x = y, \A z \in S : \E x \in 1 .. i : f[x] = z
  PROVE  Cardinality(S) = i
<1>1. f \in Bijection(1 .. i, S)
  BY DEF Bijection, Injection, Surjection, IsInjective
<1>2. ExistsBijection(1 .. i, S)
  BY <1>1 DEF ExistsBijection
<1> QED BY <1>2, FS_CountingElements

(* q lists H, m in number, the latest stamp first. *)
Ranks(st, H, q, m) ==
  /\ m \in Nat /\ q \in [1 .. m -> H]
  /\ \A p \in H : st[p] \in Int /\ \E i \in 1 .. m : q[i] = p
  /\ \A i, j \in 1 .. m : i < j => st[q[i]] > st[q[j]]

(* Such a list has no line twice. *)
LEMMA RanksApart ==
  ASSUME NEW st, NEW H, NEW q, NEW m, Ranks(st, H, q, m), NEW i \in 1 .. m, NEW j \in 1 .. m, i # j
  PROVE  q[i] # q[j]
<1>1. st[q[i]] \in Int /\ st[q[j]] \in Int
  BY DEF Ranks
<1>2. i < j \/ j < i
  OBVIOUS
<1>3. st[q[i]] > st[q[j]] \/ st[q[j]] > st[q[i]]
  BY <1>2 DEF Ranks
<1> QED BY <1>1, <1>3

(* The i-th of the list has i no older than it. *)
LEMMA RankCounts ==
  ASSUME NEW st, NEW H, NEW q, NEW m, Ranks(st, H, q, m)
  PROVE  /\ Cardinality(H) = m
         /\ \A i \in 1 .. m : Cardinality({p \in H : st[p] >= st[q[i]]}) = i
<1>1. /\ m \in Nat /\ q \in [1 .. m -> H] /\ \A p \in H : \E i \in 1 .. m : q[i] = p
      /\ \A i, j \in 1 .. m : q[i] = q[j] => i = j
  BY RanksApart DEF Ranks
<1>2. Cardinality(H) = m
  BY <1>1, Numbered
<1>3. ASSUME NEW i \in 1 .. m PROVE Cardinality({p \in H : st[p] >= st[q[i]]}) = i
  <2> DEFINE U == {p \in H : st[p] >= st[q[i]]}
             f == [x \in 1 .. i |-> q[x]]
  <2>1. i \in Nat /\ \A x \in 1 .. i : x \in 1 .. m /\ (x < i \/ x = i)
    BY <1>1
  <2>2. ASSUME NEW x \in 1 .. i PROVE f[x] \in U
    <3>1. q[x] \in H /\ st[q[x]] \in Int /\ st[q[i]] \in Int
      BY <1>1, <2>1 DEF Ranks
    <3>2. x < i => st[q[x]] > st[q[i]]
      BY <2>1 DEF Ranks
    <3>3. st[q[x]] >= st[q[i]]
      BY <2>1, <3>1, <3>2
    <3> QED BY <3>1, <3>3
  <2>3. ASSUME NEW p \in U PROVE \E x \in 1 .. i : f[x] = p
    <3>1. PICK x \in 1 .. m : q[x] = p
      BY <1>1
    <3>2. st[p] \in Int /\ st[q[i]] \in Int
      BY <1>1 DEF Ranks
    <3>3. i < x => st[q[i]] > st[q[x]]
      BY DEF Ranks
    <3>4. x \in 1 .. i
      BY <2>1, <3>1, <3>2, <3>3
    <3> QED BY <3>1, <3>4
  <2>4. f \in [1 .. i -> U]
    BY <2>2
  <2>5. \A x, y \in 1 .. i : f[x] = f[y] => x = y
    BY <1>1, <2>1
  <2> HIDE DEF U, f
  <2>6. Cardinality(U) = i
    BY <2>1, <2>3, <2>4, <2>5, Numbered
  <2> QED BY <2>6 DEF U
<1> QED BY <1>2, <1>3

(* Taking one out, and putting one with a later stamp in front. *)
But(q, m, t) == [i \in 1 .. m - 1 |-> IF i < t THEN q[i] ELSE q[i + 1]]
Front(p, q, m) == [i \in 1 .. m + 1 |-> IF i = 1 THEN p ELSE q[i - 1]]

LEMMA ButRanks ==
  ASSUME NEW st, NEW H, NEW q, NEW m, Ranks(st, H, q, m), NEW t \in 1 .. m
  PROVE  Ranks(st, H \ {q[t]}, But(q, m, t), m - 1)
<1> DEFINE r == But(q, m, t)
           G == H \ {q[t]}
<1>1. m \in Nat /\ m - 1 \in Nat /\ q \in [1 .. m -> H]
  BY DEF Ranks
<1>2. ASSUME NEW i \in 1 .. m - 1
      PROVE  /\ i \in 1 .. m /\ i + 1 \in 1 .. m
             /\ r[i] = IF i < t THEN q[i] ELSE q[i + 1]
  BY <1>1 DEF But
<1>3. ASSUME NEW i \in 1 .. m - 1 PROVE r[i] \in G
  <2>1. q[i] \in H /\ q[i + 1] \in H
    BY <1>1, <1>2
  <2>2. i < t => q[i] # q[t]
    BY <1>2, RanksApart
  <2>3. ~(i < t) => i + 1 # t
    BY <1>1
  <2>4. ~(i < t) => q[i + 1] # q[t]
    BY <1>2, <2>3, RanksApart
  <2> QED BY <1>2, <2>1, <2>2, <2>4
<1>4. r \in [1 .. m - 1 -> G]
  BY <1>3 DEF But
<1>5. ASSUME NEW p \in G PROVE st[p] \in Int /\ \E i \in 1 .. m - 1 : r[i] = p
  <2>1. st[p] \in Int
    BY DEF Ranks
  <2>2. PICK i \in 1 .. m : q[i] = p
    BY DEF Ranks
  <2>3. i # t
    BY <2>2
  <2>4. CASE i < t
    <3>1. i \in 1 .. m - 1
      BY <1>1, <2>4
    <3> QED BY <1>2, <2>1, <2>2, <2>4, <3>1
  <2>5. CASE t < i
    <3>1. i - 1 \in 1 .. m - 1 /\ ~(i - 1 < t) /\ (i - 1) + 1 = i
      BY <1>1, <2>5
    <3>2. r[i - 1] = q[i]
      BY <1>2, <3>1
    <3> QED BY <2>1, <2>2, <3>1, <3>2
  <2>6. i < t \/ t < i
    BY <1>1, <2>3
  <2> QED BY <2>4, <2>5, <2>6
<1>6. ASSUME NEW i \in 1 .. m - 1, NEW j \in 1 .. m - 1, i < j PROVE st[r[i]] > st[r[j]]
  <2>1. PICK x \in 1 .. m : r[i] = q[x] /\ x = IF i < t THEN i ELSE i + 1
    BY <1>2
  <2>2. PICK y \in 1 .. m : r[j] = q[y] /\ y = IF j < t THEN j ELSE j + 1
    BY <1>2
  <2>3. x < y
    BY <1>1, <1>6, <2>1, <2>2
  <2> QED BY <2>1, <2>2, <2>3 DEF Ranks
<1> HIDE DEF r, G
<1>7. Ranks(st, G, r, m - 1)
  BY <1>1, <1>4, <1>5, <1>6 DEF Ranks
<1> QED BY <1>7 DEF r, G

LEMMA FrontRanks ==
  ASSUME NEW st, NEW H, NEW q, NEW m, Ranks(st, H, q, m),
         NEW st2, \A x \in H : st2[x] = st[x],
         NEW p, p \notin H, st2[p] \in Int, \A x \in H : st2[p] > st[x]
  PROVE  Ranks(st2, H \cup {p}, Front(p, q, m), m + 1)
<1> DEFINE r == Front(p, q, m)
           G == H \cup {p}
<1>1. m \in Nat /\ m + 1 \in Nat /\ q \in [1 .. m -> H]
  BY DEF Ranks
<1>2. ASSUME NEW i \in 1 .. m + 1
      PROVE  /\ i # 1 => i - 1 \in 1 .. m /\ q[i - 1] \in H
             /\ r[i] = IF i = 1 THEN p ELSE q[i - 1]
  <2>1. i # 1 => i - 1 \in 1 .. m
    BY <1>1
  <2> QED BY <1>1, <2>1 DEF Front
<1>3. r \in [1 .. m + 1 -> G]
  BY <1>2 DEF Front
<1>4. ASSUME NEW x \in G PROVE st2[x] \in Int /\ \E i \in 1 .. m + 1 : r[i] = x
  <2>1. CASE x = p
    <3>1. 1 \in 1 .. m + 1
      BY <1>1
    <3> QED BY <1>2, <2>1, <3>1
  <2>2. CASE x \in H
    <3>1. PICK i \in 1 .. m : q[i] = x
      BY <2>2 DEF Ranks
    <3>2. i + 1 \in 1 .. m + 1 /\ i + 1 # 1 /\ (i + 1) - 1 = i
      BY <1>1
    <3>3. r[i + 1] = x
      BY <1>2, <3>1, <3>2
    <3> QED BY <2>2, <3>2, <3>3 DEF Ranks
  <2> QED BY <2>1, <2>2
<1>5. ASSUME NEW i \in 1 .. m + 1, NEW j \in 1 .. m + 1, i < j PROVE st2[r[i]] > st2[r[j]]
  <2>1. j # 1
    BY <1>1, <1>5
  <2>2. PICK y \in 1 .. m : y = j - 1 /\ r[j] = q[y] /\ q[y] \in H
    BY <1>2, <2>1
  <2>3. CASE i = 1
    BY <1>2, <2>2, <2>3
  <2>4. CASE i # 1
    <3>1. PICK x \in 1 .. m : x = i - 1 /\ r[i] = q[x] /\ q[x] \in H
      BY <1>2, <2>4
    <3>2. x < y
      BY <1>1, <1>5, <2>2, <3>1
    <3>3. st[q[x]] > st[q[y]]
      BY <3>2 DEF Ranks
    <3> QED BY <2>2, <3>1, <3>3
  <2> QED BY <2>3, <2>4
<1> HIDE DEF r, G
<1>6. Ranks(st2, G, r, m + 1)
  BY <1>1, <1>3, <1>4, <1>5 DEF Ranks
<1> QED BY <1>6 DEF r, G

-----------------------------------------------------------------------------
(* The lines of a set as a list. *)

Stamps(k) == [p \in Slots(k) |-> k.line[p].stamp]
Name(k, p) == k.line[p].base \div k.line_bytes
Names(k, q, m) == [i \in 1 .. m |-> Name(k, q[i])]

(* q lists the ways of set s. *)
Listing(k, s, q, m) == Ranks(Stamps(k), Held(k, s), q, m)

(* Newest is that list, by number. *)
LEMMA NewestIs ==
  ASSUME NEW k, NEW s, NEW q, NEW m, Listing(k, s, q, m)
  PROVE  Newest(k, s) = Names(k, q, m)
<1> DEFINE H == Held(k, s)
           later(p) == {x \in H : k.line[x].stamp >= k.line[p].stamp}
           nth(i) == CHOOSE p \in H : Cardinality(later(p)) = i
<1>1. /\ m \in Nat /\ q \in [1 .. m -> H] /\ H \subseteq Slots(k)
      /\ \A p \in H : \E i \in 1 .. m : q[i] = p
  BY DEF Listing, Ranks, Held
<1>2. /\ Cardinality(H) = m
      /\ \A i \in 1 .. m : Cardinality({p \in H : Stamps(k)[p] >= Stamps(k)[q[i]]}) = i
  BY RankCounts DEF Listing
<1>3. ASSUME NEW i \in 1 .. m PROVE q[i] \in H /\ Cardinality(later(q[i])) = i
  <2>1. \A p \in H : Stamps(k)[p] = k.line[p].stamp
    BY <1>1 DEF Stamps
  <2>2. q[i] \in H
    BY <1>1
  <2>3. later(q[i]) = {p \in H : Stamps(k)[p] >= Stamps(k)[q[i]]}
    BY <2>1, <2>2
  <2> QED BY <1>2, <2>2, <2>3
<1> HIDE DEF H, later
<1>4. ASSUME NEW i \in 1 .. m PROVE nth(i) = q[i]
  <2>1. nth(i) \in H /\ Cardinality(later(nth(i))) = i
    BY <1>3
  <2> HIDE DEF nth
  <2>2. PICK j \in 1 .. m : q[j] = nth(i)
    BY <1>1, <2>1
  <2>3. Cardinality(later(nth(i))) = j
    BY <1>3, <2>2
  <2> QED BY <2>1, <2>2, <2>3
<1>5. Newest(k, s) = [i \in 1 .. m |-> k.line[nth(i)].base \div k.line_bytes]
  BY <1>2 DEF Newest, H, later
<1> HIDE DEF nth
<1> QED BY <1>4, <1>5 DEF Names, Name

(* A line shows its place in the order by three of its fields. *)
Alike(l, o) == l.valid = o.valid /\ l.stamp = o.stamp /\ l.base = o.base

(* The list of a set depends on nothing else. *)
LEMMA ListStays ==
  ASSUME NEW k, NEW d, SameGeometry(k, d), NEW s, NEW q, NEW m, Listing(k, s, q, m),
         \A p \in Slots(k) : p[1] = s => Alike(d.line[p], k.line[p])
  PROVE  Listing(d, s, q, m) /\ Newest(d, s) = Newest(k, s)
<1>1. Slots(d) = Slots(k) /\ d.line_bytes = k.line_bytes
  BY SameDecode DEF SameGeometry
<1>2. Held(d, s) = Held(k, s)
  BY <1>1 DEF Held, Alike
<1>3. \A p \in Held(k, s) : Stamps(d)[p] = Stamps(k)[p] /\ Name(d, p) = Name(k, p)
  BY <1>1 DEF Stamps, Held, Name, Alike
<1>4. q \in [1 .. m -> Held(k, s)]
  BY DEF Listing, Ranks
<1>5. Listing(d, s, q, m)
  BY <1>2, <1>3, <1>4 DEF Listing, Ranks
<1>6. Names(d, q, m) = Names(k, q, m)
  BY <1>3, <1>4 DEF Names
<1> QED BY <1>5, <1>6, NewestIs

LEMMA ButNames ==
  ASSUME NEW k, NEW q, NEW m \in Nat, NEW t
  PROVE  Names(k, But(q, m, t), m - 1) = But(Names(k, q, m), m, t)
<1>1. \A i \in 1 .. m - 1 : i \in 1 .. m /\ i + 1 \in 1 .. m
  OBVIOUS
<1> QED BY <1>1 DEF Names, But

(* A line of the set is dropped. *)
LEMMA ListDrops ==
  ASSUME NEW k, NEW d, SameGeometry(k, d), NEW s, NEW q, NEW m, Listing(k, s, q, m),
         NEW t \in 1 .. m, ~d.line[q[t]].valid,
         \A p \in Slots(k) : p # q[t] => Alike(d.line[p], k.line[p])
  PROVE  /\ Listing(d, s, But(q, m, t), m - 1)
         /\ Newest(d, s) = But(Newest(k, s), m, t)
<1> DEFINE r == But(q, m, t)
           G == Held(k, s) \ {q[t]}
<1>1. Slots(d) = Slots(k) /\ d.line_bytes = k.line_bytes
  BY SameDecode DEF SameGeometry
<1>2. m \in Nat /\ q \in [1 .. m -> Held(k, s)]
  BY DEF Listing, Ranks
<1>3. Held(d, s) = G
  BY <1>1 DEF Held, Alike
<1>4. \A p \in G : Stamps(d)[p] = Stamps(k)[p] /\ Name(d, p) = Name(k, p)
  BY <1>1 DEF Stamps, Held, Name, Alike
<1>5. Ranks(Stamps(k), G, r, m - 1)
  BY ButRanks DEF Listing
<1>6. r \in [1 .. m - 1 -> G]
  BY <1>5 DEF Ranks
<1> HIDE DEF r, G
<1>7. Listing(d, s, r, m - 1)
  BY <1>3, <1>4, <1>5, <1>6 DEF Listing, Ranks
<1>8. Newest(d, s) = Names(d, r, m - 1) /\ Newest(k, s) = Names(k, q, m)
  BY <1>7, NewestIs
<1>9. Names(d, r, m - 1) = Names(k, r, m - 1)
  BY <1>4, <1>6 DEF Names
<1>10. Names(k, r, m - 1) = But(Names(k, q, m), m, t)
  BY <1>2, ButNames DEF r
<1> QED BY <1>7, <1>8, <1>9, <1>10 DEF r

(* A line comes in front of a list of the others. *)
LEMMA ListGains ==
  ASSUME NEW k, NEW d, SameGeometry(k, d), NEW s, NEW p \in Slots(k), p[1] = s,
         NEW q, NEW m, Ranks(Stamps(k), Held(k, s) \ {p}, q, m),
         d.line[p].valid, d.line[p].stamp \in Int,
         \A x \in Held(k, s) \ {p} : d.line[p].stamp > k.line[x].stamp,
         \A x \in Slots(k) : x # p => Alike(d.line[x], k.line[x])
  PROVE  /\ Listing(d, s, Front(p, q, m), m + 1)
         /\ Newest(d, s) = Front(Name(d, p), Names(k, q, m), m)
<1> DEFINE r == Front(p, q, m)
           G == Held(k, s) \ {p}
<1>1. Slots(d) = Slots(k) /\ d.line_bytes = k.line_bytes
  BY SameDecode DEF SameGeometry
<1>2. m \in Nat /\ q \in [1 .. m -> G]
  BY DEF Ranks
<1>3. Held(d, s) = G \cup {p}
  BY <1>1 DEF Held, Alike
<1>4. /\ \A x \in G : Stamps(d)[x] = Stamps(k)[x] /\ Name(d, x) = Name(k, x)
      /\ p \notin G /\ Stamps(d)[p] \in Int
      /\ \A x \in G : Stamps(d)[p] > Stamps(k)[x]
  BY <1>1 DEF Stamps, Held, Name, Alike
<1> HIDE DEF G
<1>5. Ranks(Stamps(d), G \cup {p}, r, m + 1)
  BY <1>4, FrontRanks DEF G
<1>6. Listing(d, s, r, m + 1)
  BY <1>3, <1>5 DEF Listing
<1>7. Newest(d, s) = Names(d, r, m + 1)
  BY <1>6, NewestIs
<1>8. Names(d, r, m + 1) = Front(Name(d, p), Names(k, q, m), m)
  <2>1. ASSUME NEW i \in 1 .. m + 1
        PROVE  Name(d, r[i]) = IF i = 1 THEN Name(d, p) ELSE Names(k, q, m)[i - 1]
    <3>1. i # 1 => i - 1 \in 1 .. m /\ q[i - 1] \in G
      BY <1>2
    <3>2. r[i] = IF i = 1 THEN p ELSE q[i - 1]
      BY DEF Front
    <3> QED BY <1>4, <3>1, <3>2 DEF Names
  <2> HIDE DEF r
  <2> QED BY <2>1 DEF Names, Front
<1> QED BY <1>6, <1>7, <1>8 DEF r

-----------------------------------------------------------------------------
(* What is in the list. *)

(* The base of a line is the first address of its number. *)
LEMMA BaseNumber ==
  ASSUME NEW k, IsCache(k), NEW a \in Addr
  PROVE  BaseOf(k, a) \div k.line_bytes = a \div k.line_bytes
<1>1. a \in Nat /\ k.line_bytes \in Nat \ {0}
  BY MemAssumption, Pow2Positive DEF Addr, IsCache
<1> DEFINE x == a \div k.line_bytes
<1>2. x \in Nat /\ a - (a % k.line_bytes) = x * k.line_bytes
  BY <1>1
<1>3. (x * k.line_bytes) \div k.line_bytes = x
  <2>1. x \in Nat
    BY <1>2
  <2> HIDE DEF x
  <2> QED BY <1>1, <2>1
<1> QED BY <1>2, <1>3 DEF BaseOf

(* A line a search finds for an address has the number of the address, and *)
(* no other line of the set has it.                                        *)
LEMMA NameOf ==
  ASSUME NEW k, IsCache(k), InPlace(k), NEW a \in Addr, NEW p \in Slots(k), p[1] = SetOf(k, a),
         k.line[p].valid
  PROVE  Name(k, p) = a \div k.line_bytes <=> k.line[p].tag = TagOf(k, a)
<1>1. PICK x \in Addr : /\ p[1] = SetOf(k, x) /\ k.line[p].tag = TagOf(k, x)
                        /\ k.line[p].base = BaseOf(k, x)
  BY DEF InPlace
<1>2. Name(k, p) = x \div k.line_bytes
  BY <1>1, BaseNumber DEF Name
<1>3. k.sets \in Nat \ {0} /\ k.line_bytes \in Nat \ {0} /\ a \in Nat /\ x \in Nat
  BY MemAssumption, Pow2Positive DEF Addr, IsCache
<1>4. a \div k.line_bytes \in Nat /\ x \div k.line_bytes \in Nat
  BY <1>3, DivisionTypes
<1>5. SetOf(k, a) = SetOf(k, x) /\ TagOf(k, a) = TagOf(k, x) => a \div k.line_bytes = x \div k.line_bytes
  BY <1>3, <1>4, QuotientRemainder DEF SetOf, TagOf
<1>6. a \div k.line_bytes = x \div k.line_bytes => TagOf(k, a) = TagOf(k, x)
  BY DEF TagOf
<1> QED BY <1>1, <1>2, <1>5, <1>6

(* Every line of a set has a number of its own. *)
LEMMA NamesApart ==
  ASSUME NEW k, IsCache(k), InPlace(k), NoTwin(k), NEW s,
         NEW p \in Held(k, s), NEW q \in Held(k, s), Name(k, p) = Name(k, q)
  PROVE  p = q
<1>1. /\ p \in Slots(k) /\ p[1] = s /\ k.line[p].valid
      /\ q \in Slots(k) /\ q[1] = s /\ k.line[q].valid
  BY DEF Held
<1>2. PICK x \in Addr : /\ p[1] = SetOf(k, x) /\ k.line[p].tag = TagOf(k, x)
                        /\ k.line[p].base = BaseOf(k, x)
  BY <1>1 DEF InPlace
<1>3. Name(k, p) = x \div k.line_bytes
  BY <1>1, <1>2, NameOf
<1>4. k.line[q].tag = TagOf(k, x)
  BY <1>1, <1>2, <1>3, NameOf
<1> QED BY <1>1, <1>2, <1>4 DEF NoTwin

(* The list holds the number of an address exactly if a search hits, and   *)
(* then it stands where the way is.                                        *)
LEMMA HitIsListed ==
  ASSUME NEW k, IsCache(k), InPlace(k), NoTwin(k), NEW a \in Addr,
         NEW q, NEW m, Listing(k, SetOf(k, a), q, m)
  PROVE  /\ Hit(k, a) <=> \E i \in 1 .. m : Name(k, q[i]) = a \div k.line_bytes
         /\ \A w \in Ways(k) : Matches(k, a, w) =>
              \E i \in 1 .. m : q[i] = <<SetOf(k, a), w>> /\ Name(k, q[i]) = a \div k.line_bytes
<1> DEFINE s == SetOf(k, a)
<1>1. q \in [1 .. m -> Held(k, s)] /\ \A p \in Held(k, s) : \E i \in 1 .. m : q[i] = p
  BY DEF Listing, Ranks
<1>2. ASSUME NEW i \in 1 .. m, Name(k, q[i]) = a \div k.line_bytes PROVE Hit(k, a)
  <2>1. q[i] \in Held(k, s)
    BY <1>1
  <2>2. q[i] \in Slots(k) /\ q[i][1] = s /\ k.line[q[i]].valid
    BY <2>1 DEF Held
  <2>3. k.line[q[i]].tag = TagOf(k, a)
    BY <1>2, <2>2, NameOf
  <2>4. q[i][2] \in Ways(k) /\ q[i] = <<s, q[i][2]>>
    BY <2>2 DEF Slots
  <2> QED BY <2>2, <2>3, <2>4 DEF Hit, Matches
<1>3. ASSUME NEW w \in Ways(k), Matches(k, a, w)
      PROVE  \E i \in 1 .. m : q[i] = <<s, w>> /\ Name(k, q[i]) = a \div k.line_bytes
  <2> DEFINE p == <<s, w>>
  <2>1. p \in Slots(k) /\ p[1] = s
    BY SlotOf
  <2>2. k.line[p].valid /\ k.line[p].tag = TagOf(k, a)
    BY <1>3 DEF Matches
  <2>3. p \in Held(k, s) /\ Name(k, p) = a \div k.line_bytes
    BY <2>1, <2>2, NameOf DEF Held
  <2> QED BY <1>1, <2>3
<1> QED BY <1>2, <1>3 DEF Hit

(* Without takes the line out of the list that its number names. *)
LEMMA WithoutIs ==
  ASSUME NEW k, IsCache(k), InPlace(k), NoTwin(k), NEW s, NEW q, NEW m, Listing(k, s, q, m),
         NEW t \in 1 .. m
  PROVE  Recency!Without(Newest(k, s), Name(k, q[t])) = But(Newest(k, s), m, t)
<1> DEFINE L == Newest(k, s)
           at == CHOOSE i \in 1 .. Len(L) : L[i] = Name(k, q[t])
<1>1. m \in Nat /\ q \in [1 .. m -> Held(k, s)]
  BY DEF Listing, Ranks
<1>2. L = Names(k, q, m)
  BY NewestIs
<1>3. Len(L) = m /\ \A i \in 1 .. m : L[i] = Name(k, q[i])
  BY <1>1, <1>2 DEF Names
<1>4. ASSUME NEW i \in 1 .. m, L[i] = Name(k, q[t]) PROVE i = t
  <2>1. q[i] = q[t]
    BY <1>1, <1>3, <1>4, NamesApart
  <2> QED BY <2>1, RanksApart DEF Listing
<1> HIDE DEF L
<1>5. at = t
  BY <1>3, <1>4
<1> HIDE DEF at
<1> QED BY <1>3, <1>5 DEF Recency!Without, But, at, L

(* There are as many lines as ways exactly if every way holds one. *)
LEMMA FullList ==
  ASSUME NEW k, IsCache(k), NEW s \in 0 .. k.sets - 1, NEW q, NEW m, Listing(k, s, q, m)
  PROVE  IF \A v \in Ways(k) : k.line[<<s, v>>].valid THEN m = k.ways ELSE m < k.ways
<1> DEFINE H == Held(k, s)
           A == {s} \X Ways(k)
           f == [i \in 1 .. k.ways |-> <<s, i - 1>>]
<1>1. k.ways \in Nat
  BY DEF IsCache
<1>2. f \in [1 .. k.ways -> A] /\ \A x, y \in 1 .. k.ways : f[x] = f[y] => x = y
  BY <1>1 DEF Ways
<1>3. ASSUME NEW z \in A PROVE \E x \in 1 .. k.ways : f[x] = z
  <2>1. z = <<s, z[2]>> /\ z[2] \in Ways(k)
    OBVIOUS
  <2>2. z[2] + 1 \in 1 .. k.ways /\ (z[2] + 1) - 1 = z[2]
    BY <1>1, <2>1 DEF Ways
  <2> QED BY <2>1, <2>2
<1>4. Cardinality(A) = k.ways
  <2> HIDE DEF f, A
  <2> QED BY <1>1, <1>2, <1>3, Numbered
<1>5. Cardinality(H) = m /\ m \in Nat
  <2>1. Ranks(Stamps(k), H, q, m)
    BY DEF Listing
  <2> HIDE DEF H
  <2>2. Cardinality(H) = m
    BY <2>1, RankCounts
  <2> QED BY <2>1, <2>2 DEF Ranks
<1>6. H \subseteq A
  BY DEF Held, Slots
<1>7. IsFiniteSet(A)
  <2>1. k.ways - 1 \in Int
    BY <1>1
  <2>2. IsFiniteSet(Ways(k))
    <3>1. \A i \in Int : IsFiniteSet(0 .. i)
      BY FS_Interval
    <3> QED BY <2>1, <3>1 DEF Ways
  <2>3. IsFiniteSet({s})
    BY FS_Singleton
  <2> QED BY <2>2, <2>3, FS_Product
<1>8. CASE \A v \in Ways(k) : k.line[<<s, v>>].valid
  <2>1. A \subseteq H
    BY <1>8 DEF Held, Slots
  <2>2. A = H
    BY <1>6, <2>1
  <2> QED BY <1>4, <1>5, <1>8, <2>2
<1>9. CASE \E v \in Ways(k) : ~k.line[<<s, v>>].valid
  <2>1. A # H
    BY <1>9 DEF Held
  <2> HIDE DEF A, H
  <2>2. Cardinality(H) <= Cardinality(A) /\ Cardinality(H) # Cardinality(A)
    BY <1>6, <1>7, <2>1, FS_Subset
  <2> QED BY <1>1, <1>4, <1>5, <1>9, <2>2
<1> QED BY <1>8, <1>9

-----------------------------------------------------------------------------
(* The steps. *)

(* What an access and the store after it leave in the three fields: of the *)
(* way it uses, and of the others.                                         *)
LEMMA AccessShows ==
  ASSUME NEW k, NEW m, Sound(k, m), NEW a \in Addr, NEW w \in Ways(k), w \in WaysFor(k, a),
         NEW p, p = <<SetOf(k, a), w>>,
         NEW d, d = Accessed(k, m, a, w).c
  PROVE  /\ SameGeometry(k, d) /\ d.repl = k.repl
         /\ \A x \in Slots(k) : x # p => Alike(d.line[x], k.line[x])
         /\ Hit(k, a) /\ k.repl # "lru" => d.line[p] = k.line[p] /\ d.clock = k.clock
         /\ ~Hit(k, a) \/ k.repl = "lru" =>
              /\ d.line[p].valid /\ d.line[p].stamp = Tick(k) /\ d.clock = Tick(k)
              /\ Name(d, p) = a \div k.line_bytes
<1>1. IsCache(k) /\ InPlace(k) /\ NoTwin(k)
  BY DEF Sound
<1>2. SameGeometry(k, d) /\ p \in Slots(k) /\ p[1] = SetOf(k, a) /\ d.line_bytes = k.line_bytes
  BY <1>1, AccessSettles, SlotOf DEF SameGeometry
<1>3. k.line \in [Slots(k) -> CacheLine(k.line_bytes)] /\ k.line[p] \in CacheLine(k.line_bytes)
  BY <1>1, <1>2, LineTypes DEF IsCache
<1>4. CASE Hit(k, a)
  <2>1. d = Touched(k, p)
    BY <1>4 DEF Accessed
  <2>2. CASE k.repl # "lru"
    BY <1>2, <1>4, <2>1, <2>2 DEF Touched, Alike
  <2>3. CASE k.repl = "lru"
    <3>1. /\ d.line = [k.line EXCEPT ![p] = [k.line[p] EXCEPT !.stamp = Tick(k)]]
          /\ d.repl = k.repl /\ d.clock = Tick(k)
      BY <1>1, <2>1, <2>3 DEF Touched, IsCache
    <3>2. \A x \in Slots(k) : x # p => d.line[x] = k.line[x]
      BY <1>3, <3>1
    <3>3. d.line[p] = [k.line[p] EXCEPT !.stamp = Tick(k)]
      BY <1>2, <1>3, <3>1
    <3>4. /\ d.line[p].stamp = Tick(k) /\ d.line[p].valid = k.line[p].valid
          /\ d.line[p].base = k.line[p].base
      BY <1>3, <3>3 DEF CacheLine
    <3>5. w = HitWay(k, a)
      BY <1>4 DEF WaysFor
    <3>6. k.line[p].valid /\ k.line[p].tag = TagOf(k, a)
      <4>1. Settled(k, m, d, Accessed(k, m, a, w).m) /\ Matches(d, a, w)
        BY AccessSettles
      <4>2. SetOf(d, a) = SetOf(k, a) /\ TagOf(d, a) = TagOf(k, a)
        BY <1>2, SameDecode
      <4>3. d.line[p].valid /\ d.line[p].tag = TagOf(k, a)
        BY <4>1, <4>2 DEF Matches
      <4>4. d.line[p].tag = k.line[p].tag
        BY <1>3, <3>3 DEF CacheLine
      <4> QED BY <3>4, <4>3, <4>4
    <3>7. Name(k, p) = a \div k.line_bytes
      BY <1>1, <1>2, <3>6, NameOf
    <3> QED BY <1>2, <2>3, <3>1, <3>2, <3>4, <3>6, <3>7 DEF Alike, Name
  <2> QED BY <2>2, <2>3
<1>5. CASE ~Hit(k, a)
  <2>1. PICK o : d = [k EXCEPT !.clock = Tick(k), !.line[p] = Filled(k, o, a)]
    BY <1>5 DEF Accessed
  <2>2. d.line = [k.line EXCEPT ![p] = Filled(k, o, a)] /\ d.repl = k.repl /\ d.clock = Tick(k)
    BY <1>1, <2>1 DEF IsCache
  <2>3. d.line[p] = Filled(k, o, a)
    BY <1>2, <1>3, <2>2
  <2>4. d.line[p].valid /\ d.line[p].stamp = Tick(k) /\ d.line[p].base = BaseOf(k, a)
    BY <2>3 DEF Filled
  <2>5. Name(d, p) = a \div k.line_bytes
    BY <1>1, <1>2, <2>4, BaseNumber DEF Name
  <2>6. \A x \in Slots(k) : x # p => d.line[x] = k.line[x]
    BY <1>3, <2>2
  <2> QED BY <1>2, <1>5, <2>2, <2>4, <2>5, <2>6 DEF Alike
<1> QED BY <1>4, <1>5

LEMMA StoreShows ==
  ASSUME NEW k, NEW m, IsCache(k), NEW a \in Addr, NEW w \in Ways(k), NEW v,
         NEW d, d = Stored(k, m, a, w, v).c
  PROVE  /\ SameGeometry(k, d) /\ d.repl = k.repl /\ d.clock = k.clock
         /\ \A x \in Slots(k) : Alike(d.line[x], k.line[x])
<1> DEFINE p == <<SetOf(k, a), w>>
           o == OffOf(k, a)
           l == [k.line[p] EXCEPT !.data[o] = v]
           b == [k EXCEPT !.line[p].data[o] = v]
<1>1. p \in Slots(k) /\ k.line \in [Slots(k) -> CacheLine(k.line_bytes)]
  BY SlotOf DEF IsCache
<1>2. k.line[p] \in CacheLine(k.line_bytes)
  BY <1>1
<1>3. /\ SameGeometry(k, b) /\ b.repl = k.repl /\ b.clock = k.clock
      /\ b.line = [k.line EXCEPT ![p] = l]
  BY <1>1 DEF IsCache, SameGeometry
<1>4. l.valid = k.line[p].valid /\ l.stamp = k.line[p].stamp /\ l.base = k.line[p].base
  BY <1>2 DEF CacheLine
<1>5. b.line[p] = l /\ \A x \in Slots(k) : x # p => b.line[x] = k.line[x]
  BY <1>1, <1>3
<1>6. CASE k.wpol = "through"
  <2>1. d = b
    BY <1>6 DEF Stored
  <2> QED BY <1>3, <1>4, <1>5, <2>1 DEF Alike
<1>7. CASE k.wpol # "through"
  <2> DEFINE e == [l EXCEPT !.dirty = TRUE]
  <2>1. d = [b EXCEPT !.line[p].dirty = TRUE]
    BY <1>7 DEF Stored
  <2>2. d.line = [b.line EXCEPT ![p] = [b.line[p] EXCEPT !.dirty = TRUE]]
    BY <2>1 DEF IsCache
  <2>3. d.line_bytes = b.line_bytes /\ d.sets = b.sets /\ d.ways = b.ways /\ d.repl = b.repl /\ d.clock = b.clock
    BY <2>1 DEF IsCache
  <2>4. e.valid = l.valid /\ e.stamp = l.stamp /\ e.base = l.base
    BY <1>2 DEF CacheLine
  <2>5. d.line[p] = e /\ \A x \in Slots(k) : x # p => d.line[x] = k.line[x]
    BY <1>1, <1>3, <1>5, <2>2
  <2>6. SameGeometry(k, d) /\ d.repl = k.repl /\ d.clock = k.clock
    BY <1>3, <2>3 DEF SameGeometry
  <2>7. Alike(e, k.line[p])
    BY <1>4, <2>4 DEF Alike
  <2> HIDE DEF e, b, l
  <2>8. \A x \in Slots(k) : Alike(d.line[x], k.line[x])
    <3>1. ASSUME NEW x \in Slots(k), x # p PROVE Alike(d.line[x], k.line[x])
      BY <1>5, <2>5, <3>1 DEF Alike
    <3> QED BY <2>5, <2>7, <3>1
  <2> QED BY <2>6, <2>8
<1> QED BY <1>6, <1>7

(* Putting in front, as a sequence; dropping the last, too. *)
LEMMA FrontIs ==
  ASSUME NEW S, NEW m \in Nat, NEW L \in [1 .. m -> S], NEW l \in S
  PROVE  Front(l, L, m) = <<l>> \o L
<1>1. L \in Seq(S) /\ Len(L) = m
  OBVIOUS
<1>2. <<l>> \in Seq(S) /\ Len(<<l>>) = 1 /\ <<l>>[1] = l
  OBVIOUS
<1>3. /\ Len(<<l>> \o L) = m + 1 /\ <<l>> \o L \in Seq(S)
      /\ \A i \in 1 .. m + 1 : (<<l>> \o L)[i] = IF i <= 1 THEN <<l>>[i] ELSE L[i - 1]
  BY <1>1, <1>2, ConcatProperties
<1>4. <<l>> \o L = [i \in 1 .. m + 1 |-> (<<l>> \o L)[i]]
  BY <1>3
<1>5. \A i \in 1 .. m + 1 : (<<l>> \o L)[i] = IF i = 1 THEN l ELSE L[i - 1]
  BY <1>2, <1>3
<1> QED BY <1>4, <1>5 DEF Front

LEMMA LastDropped ==
  ASSUME NEW S, NEW m \in Nat \ {0}, NEW L \in [1 .. m -> S]
  PROVE  But(L, m, m) = SubSeq(L, 1, m - 1)
<1>1. L \in Seq(S) /\ Len(L) = m /\ 1 \in 1 .. m + 1 /\ m - 1 \in 0 .. m
  OBVIOUS
<1>2. /\ SubSeq(L, 1, m - 1) \in Seq(S) /\ Len(SubSeq(L, 1, m - 1)) = m - 1
      /\ \A i \in 1 .. m - 1 : SubSeq(L, 1, m - 1)[i] = L[i]
  OBVIOUS
<1>3. SubSeq(L, 1, m - 1) = [i \in 1 .. m - 1 |-> SubSeq(L, 1, m - 1)[i]]
  BY <1>2
<1>4. \A i \in 1 .. m - 1 : i < m
  OBVIOUS
<1> QED BY <1>2, <1>3, <1>4 DEF But

(* The order is kept: every set has its list, and the clock is ahead of    *)
(* every stamp.                                                            *)
Sorted(k) ==
  /\ k.repl \in {"lru", "fifo"}
  /\ \A p \in Slots(k) : k.line[p].valid => k.line[p].stamp <= k.clock
  /\ \A s \in 0 .. k.sets - 1 : \E q, m : Listing(k, s, q, m)

(* The list of s takes line l. *)
Takes(k, d, s, l) ==
  LET L == Newest(k, s)
      new == Newest(d, s)
  IN  IF \E i \in 1 .. Len(L) : L[i] = l
      THEN new = IF k.repl = "lru" THEN <<l>> \o Recency!Without(L, l) ELSE L
      ELSE new = <<l>> \o (IF Len(L) < k.ways THEN L ELSE SubSeq(L, 1, k.ways - 1))

(* Numbers of lines are naturals. *)
LEMMA NamesType ==
  ASSUME NEW k, IsCache(k), NEW s, NEW q, NEW m, Listing(k, s, q, m)
  PROVE  /\ m \in Nat /\ Newest(k, s) = Names(k, q, m)
         /\ Newest(k, s) \in [1 .. m -> Nat] /\ Len(Newest(k, s)) = m
         /\ Stamps(k) \in [Slots(k) -> Nat]
<1>1. m \in Nat /\ q \in [1 .. m -> Held(k, s)]
  BY DEF Listing, Ranks
<1>2. \A p \in Slots(k) : /\ k.line[p].base \in Nat /\ k.line_bytes \in Nat \ {0}
                          /\ k.line[p] \in CacheLine(k.line_bytes)
  BY LineTypes
<1>3. \A p \in Slots(k) : Name(k, p) \in Nat
  BY <1>2, DivisionTypes DEF Name
<1>4. Held(k, s) \subseteq Slots(k)
  BY DEF Held
<1>5. Names(k, q, m) \in [1 .. m -> Nat]
  BY <1>1, <1>3, <1>4 DEF Names
<1>6. \A p \in Slots(k) : k.line[p].stamp \in Nat
  BY <1>2, ClockAssumption DEF CacheLine, Stamp
<1>7. Stamps(k) \in [Slots(k) -> Nat]
  BY <1>6 DEF Stamps
<1>8. Newest(k, s) = Names(k, q, m)
  BY NewestIs
<1> QED BY <1>1, <1>5, <1>7, <1>8

(* An access keeps the order, and its line is taken by the list of its set. *)
LEMMA AccessOrders ==
  ASSUME NEW k, NEW m, Sound(k, m), Sorted(k), k.clock < ClockMod - 1,
         NEW a \in Addr, NEW w \in Ways(k), w \in WaysFor(k, a), Hit(k, a) => Matches(k, a, w),
         NEW s, s = SetOf(k, a), NEW l, l = a \div k.line_bytes, NEW p, p = <<s, w>>,
         NEW d, SameGeometry(k, d), d.repl = k.repl,
         \A x \in Slots(k) : x # p => Alike(d.line[x], k.line[x]),
         Hit(k, a) /\ k.repl # "lru" => Alike(d.line[p], k.line[p]) /\ d.clock = k.clock,
         ~Hit(k, a) \/ k.repl = "lru" =>
           d.line[p].valid /\ d.line[p].stamp = Tick(k) /\ d.clock = Tick(k) /\ Name(d, p) = l
  PROVE  /\ Sorted(d) /\ Takes(k, d, s, l)
         /\ \A x \in 0 .. k.sets - 1 : x # s => Newest(d, x) = Newest(k, x)
<1>1. IsCache(k) /\ InPlace(k) /\ NoTwin(k)
  BY DEF Sound
<1>2. /\ p \in Slots(k) /\ p[1] = s /\ s \in 0 .. k.sets - 1 /\ Slots(d) = Slots(k)
      /\ d.sets = k.sets
  BY <1>1, SlotOf, DecodeTypes, SameDecode DEF SameGeometry
<1>3. Tick(k) = k.clock + 1 /\ k.clock \in Nat
  <2>1. k.clock \in 0 .. ClockMod - 1 /\ ClockMod \in Nat
    BY <1>1, ClockAssumption DEF IsCache, Stamp
  <2>2. k.clock + 1 \in 0 .. ClockMod - 1
    BY <2>1
  <2>3. (k.clock + 1) % ClockMod = k.clock + 1
    BY <2>1, <2>2
  <2> QED BY <2>1, <2>3 DEF Tick
<1>4. \A x \in Slots(k) : k.line[x].valid => k.line[x].stamp \in Nat /\ k.line[x].stamp <= k.clock
  <2>1. \A x \in Slots(k) : k.line[x] \in CacheLine(k.line_bytes)
    BY <1>1, LineTypes
  <2>2. \A x \in Slots(k) : k.line[x].stamp \in Nat
    BY <2>1, ClockAssumption DEF CacheLine, Stamp
  <2> QED BY <2>2 DEF Sorted
<1>5. ASSUME NEW x \in 0 .. k.sets - 1, x # s
      PROVE  Newest(d, x) = Newest(k, x) /\ \E f, i : Listing(d, x, f, i)
  <2>1. PICK f, i : Listing(k, x, f, i)
    BY DEF Sorted
  <2>2. \A y \in Slots(k) : y[1] = x => Alike(d.line[y], k.line[y])
    BY <1>2, <1>5
  <2> QED BY <2>1, <2>2, ListStays
<1>6. PICK q, h : Listing(k, s, q, h)
  BY <1>2 DEF Sorted
<1> DEFINE L == Newest(k, s)
<1>7. /\ h \in Nat /\ L = Names(k, q, h) /\ L \in [1 .. h -> Nat] /\ Len(L) = h
      /\ \A i \in 1 .. h : L[i] = Name(k, q[i])
  <2>1. h \in Nat /\ L = Names(k, q, h) /\ L \in [1 .. h -> Nat] /\ Len(L) = h
    BY <1>1, <1>6, NamesType
  <2> HIDE DEF L
  <2> QED BY <2>1 DEF Names
<1>8. Hit(k, a) <=> \E i \in 1 .. Len(L) : L[i] = l
  <2>1. Hit(k, a) <=> \E i \in 1 .. h : Name(k, q[i]) = l
    BY <1>1, <1>6, HitIsListed
  <2> HIDE DEF L
  <2> QED BY <1>7, <2>1
<1>9. l \in Nat
  <2>1. a \in Nat /\ k.line_bytes \in Nat \ {0}
    BY <1>1, MemAssumption, Pow2Positive DEF Addr, IsCache
  <2> QED BY <2>1, DivisionTypes
<1> HIDE DEF L
(* gaining the line in front of the others *)
<1>10. ASSUME ~Hit(k, a) \/ k.repl = "lru",
              NEW r, NEW i, Ranks(Stamps(k), Held(k, s) \ {p}, r, i),
              NEW R, R = Names(k, r, i)
       PROVE  (\E q2, i2 : Listing(d, s, q2, i2)) /\ Newest(d, s) = <<l>> \o R
  <2>1. d.line[p].valid /\ d.line[p].stamp = k.clock + 1 /\ Name(d, p) = l
    BY <1>3, <1>10
  <2>2. \A x \in Held(k, s) \ {p} : d.line[p].stamp > k.line[x].stamp
    BY <1>3, <1>4, <2>1 DEF Held
  <2>3. d.line[p].stamp \in Int
    BY <1>3, <2>1
  <2>4. Listing(d, s, Front(p, r, i), i + 1) /\ Newest(d, s) = Front(l, R, i)
    <3>1. d.line[p].valid /\ Ranks(Stamps(k), Held(k, s) \ {p}, r, i)
      BY <1>10, <2>1
    <3>2. /\ Listing(d, s, Front(p, r, i), i + 1)
          /\ Newest(d, s) = Front(Name(d, p), Names(k, r, i), i)
      BY <1>2, <2>2, <2>3, <3>1, ListGains
    <3> QED BY <1>10, <2>1, <3>2
  <2>5. i \in Nat /\ R \in [1 .. i -> Nat]
    <3>1. i \in Nat /\ r \in [1 .. i -> Held(k, s) \ {p}]
      BY <1>10 DEF Ranks
    <3>2. \A x \in Held(k, s) : Name(k, x) \in Nat
      <4>1. \A x \in Slots(k) : k.line[x].base \in Nat /\ k.line_bytes \in Nat \ {0}
        BY <1>1, LineTypes
      <4> QED BY <4>1, DivisionTypes DEF Held, Name
    <3> QED BY <1>10, <3>1, <3>2 DEF Names
  <2>6. Front(l, R, i) = <<l>> \o R
    BY <1>9, <2>5, FrontIs
  <2> QED BY <2>4, <2>6
<1>11. CASE Hit(k, a) /\ k.repl # "lru"
  <2>1. \A x \in Slots(k) : Alike(d.line[x], k.line[x])
    BY <1>11
  <2>2. Listing(d, s, q, h) /\ Newest(d, s) = L
    BY <1>6, <2>1, ListStays DEF L
  <2>3. Takes(k, d, s, l)
    BY <1>8, <1>11, <2>2 DEF Takes, L
  <2>4. \A x \in Slots(d) : d.line[x].valid => d.line[x].stamp <= d.clock
    BY <1>2, <1>4, <1>11, <2>1 DEF Alike
  <2> QED BY <1>2, <1>5, <2>2, <2>3, <2>4 DEF Sorted
<1>12. ASSUME ~Hit(k, a) \/ k.repl = "lru"
       PROVE  \A x \in Slots(d) : d.line[x].valid => d.line[x].stamp <= d.clock
  <2>1. d.clock = k.clock + 1 /\ d.line[p].stamp = k.clock + 1
    BY <1>3, <1>12
  <2> QED BY <1>2, <1>3, <1>4, <2>1 DEF Alike
<1>13. CASE Hit(k, a) /\ k.repl = "lru"
  <2>1. PICK t \in 1 .. h : q[t] = p /\ Name(k, q[t]) = l
    BY <1>1, <1>6, <1>13, HitIsListed
  <2>2. Ranks(Stamps(k), Held(k, s) \ {p}, But(q, h, t), h - 1)
    BY <1>6, <2>1, ButRanks DEF Listing
  <2>3. Names(k, But(q, h, t), h - 1) = But(L, h, t)
    BY <1>7, ButNames
  <2>4. Recency!Without(L, l) = But(L, h, t)
    BY <1>1, <1>6, <2>1, WithoutIs DEF L
  <2>5. (\E q2, i2 : Listing(d, s, q2, i2)) /\ Newest(d, s) = <<l>> \o Recency!Without(L, l)
    BY <1>10, <1>13, <2>2, <2>3, <2>4
  <2>6. Takes(k, d, s, l)
    BY <1>8, <1>13, <2>5 DEF Takes, L
  <2> QED BY <1>2, <1>5, <1>12, <1>13, <2>5, <2>6 DEF Sorted
<1>14. CASE ~Hit(k, a)
  <2>1. w \in Victims(k, s)
    BY <1>14 DEF WaysFor
  <2>2. SUFFICES /\ \E q2, i2 : Listing(d, s, q2, i2)
                 /\ Newest(d, s) = <<l>> \o (IF h < k.ways THEN L ELSE SubSeq(L, 1, k.ways - 1))
    <3>1. Takes(k, d, s, l)
      BY <1>7, <1>8, <1>14, <2>2 DEF Takes, L
    <3> QED BY <1>2, <1>5, <1>12, <1>14, <2>2, <3>1 DEF Sorted
  <2>3. CASE \E v \in Ways(k) : ~k.line[<<s, v>>].valid
    <3>1. ~k.line[p].valid
      BY <2>1, <2>3 DEF Victims
    <3>2. Held(k, s) \ {p} = Held(k, s)
      BY <3>1 DEF Held
    <3>3. h < k.ways
      BY <1>1, <1>2, <1>6, <2>3, FullList
    <3> QED BY <1>6, <1>7, <1>10, <1>14, <3>2, <3>3 DEF Listing
  <2>4. CASE \A v \in Ways(k) : k.line[<<s, v>>].valid
    <3>1. h = k.ways /\ h \in Nat \ {0}
      <4>1. h = k.ways
        BY <1>1, <1>2, <1>6, <2>4, FullList
      <4>2. k.ways \in Nat \ {0}
        BY <1>1 DEF IsCache
      <4> QED BY <4>1, <4>2
    <3>2. q[h] = p
      <4>1. p \in Held(k, s)
        BY <1>2, <2>4 DEF Held
      <4>2. PICK i \in 1 .. h : q[i] = p
        BY <1>6, <4>1 DEF Listing, Ranks
      <4>3. h \in 1 .. h /\ q[h] \in Held(k, s)
        BY <1>6, <3>1 DEF Listing, Ranks
      <4>4. PICK v \in Ways(k) : q[h] = <<s, v>>
        BY <4>3 DEF Held, Slots
      <4>5. k.repl # "random"
        BY DEF Sorted
      <4>6. k.line[<<s, w>>].stamp <= k.line[<<s, v>>].stamp
        <5>1. \/ k.line[<<s, w>>].stamp < k.line[<<s, v>>].stamp
              \/ k.line[<<s, w>>].stamp = k.line[<<s, v>>].stamp
          BY <2>1, <2>4, <4>5 DEF Victims
        <5>2. <<s, v>> \in Slots(k) /\ k.line[<<s, v>>].valid
          BY <2>4, <4>3, <4>4 DEF Held
        <5> QED BY <1>2, <1>4, <2>4, <5>1, <5>2
      <4>7. i < h => Stamps(k)[q[i]] > Stamps(k)[q[h]]
        BY <1>6, <4>3 DEF Listing, Ranks
      <4>8. /\ Stamps(k)[q[i]] = k.line[<<s, w>>].stamp /\ Stamps(k)[q[h]] = k.line[<<s, v>>].stamp
            /\ Stamps(k)[q[i]] \in Int /\ Stamps(k)[q[h]] \in Int
        <5>1. <<s, v>> \in Slots(k) /\ k.line[<<s, v>>].valid /\ k.line[p].valid
          BY <2>4, <4>1, <4>3, <4>4 DEF Held
        <5> QED BY <1>2, <1>4, <4>2, <4>4, <5>1 DEF Stamps
      <4>9. ~(i < h)
        BY <4>6, <4>7, <4>8
      <4> QED BY <3>1, <4>2, <4>9
    <3>3. Ranks(Stamps(k), Held(k, s) \ {p}, But(q, h, h), h - 1)
      <4>1. h \in 1 .. h
        BY <3>1
      <4> QED BY <1>6, <3>2, <4>1, ButRanks DEF Listing
    <3>4. Names(k, But(q, h, h), h - 1) = SubSeq(L, 1, k.ways - 1)
      <4>1. Names(k, But(q, h, h), h - 1) = But(L, h, h)
        BY <1>7, ButNames
      <4>2. But(L, h, h) = SubSeq(L, 1, h - 1)
        BY <1>7, <3>1, LastDropped
      <4> QED BY <3>1, <4>1, <4>2
    <3>5. ~(h < k.ways)
      BY <3>1
    <3> QED BY <1>10, <1>14, <3>3, <3>4, <3>5
  <2> QED BY <2>3, <2>4
<1> QED BY <1>11, <1>13, <1>14

(* A search that hits finds the line in the way it uses. *)
LEMMA HitMatches ==
  ASSUME NEW k, IsCache(k), NoTwin(k), NEW a \in Addr, NEW w \in WaysFor(k, a), Hit(k, a)
  PROVE  Matches(k, a, w)
<1>1. PICK v \in Ways(k) : Matches(k, a, v)
  BY DEF Hit
<1>2. HitWay(k, a) = v
  BY <1>1, VisibleByte
<1>3. w = HitWay(k, a)
  BY DEF WaysFor
<1> QED BY <1>1, <1>2, <1>3

(* One list takes a line: that is an access of the lists. *)
LEMMA TakenByLists ==
  ASSUME SameGeometry(c, c'), c'.repl = c.repl, c.repl \in {"lru", "fifo"},
         NEW s \in 0 .. c.sets - 1, NEW l, Takes(c, c', s, l),
         \A x \in 0 .. c.sets - 1 : x # s => Newest(c', x) = Newest(c, x)
  PROVE  Recency!Access(s, l)
<1> DEFINE L == Newest(c, s)
<1>1. c'.sets = c.sets /\ c'.ways = c.ways
  BY DEF SameGeometry
<1>2. /\ DOMAIN Lists(c) = 0 .. c.sets - 1 /\ Lists(c)[s] = L
      /\ \A x \in 0 .. c.sets - 1 : Lists(c)[x] = Newest(c, x)
      /\ Lists(c) \in [0 .. c.sets - 1 -> {Newest(c, x) : x \in 0 .. c.sets - 1}]
  BY DEF Lists
<1>3. Lists(c)' = [x \in 0 .. c.sets - 1 |-> Newest(c', x)]
  <2>1. Lists(c)' = [x \in 0 .. c'.sets - 1 |-> Newest(c', x)]
    BY DEF Lists
  <2> QED BY <1>1, <2>1
<1>4. Lists(c)' = [Lists(c) EXCEPT ![s] = Newest(c', s)]
  <2> DEFINE N == [Lists(c) EXCEPT ![s] = Newest(c', s)]
  <2>1. N = [x \in 0 .. c.sets - 1 |-> N[x]]
    BY <1>2
  <2>2. \A x \in 0 .. c.sets - 1 : N[x] = Newest(c', x)
    BY <1>2
  <2> QED BY <1>3, <2>1, <2>2
<1>5. Recency!In(s, l) <=> \E i \in 1 .. Len(L) : L[i] = l
  BY <1>2 DEF Recency!In
<1>6. CASE Recency!In(s, l) /\ c.repl = "lru"
  <2>1. Newest(c', s) = <<l>> \o Recency!Without(L, l)
    BY <1>5, <1>6 DEF Takes
  <2>2. Lists(c)' = [Lists(c) EXCEPT ![s] = <<l>> \o Recency!Without(Lists(c)[s], l)]
    BY <1>2, <1>4, <2>1
  <2>3. Recency!Hit(s, l)
    BY <1>1, <1>6, <2>2 DEF Recency!Hit
  <2> QED BY <2>3 DEF Recency!Access
<1>7. CASE Recency!In(s, l) /\ c.repl # "lru"
  <2>1. Newest(c', s) = L
    BY <1>5, <1>7 DEF Takes
  <2>2. Lists(c)' = Lists(c)
    BY <1>2, <1>4, <2>1
  <2> QED BY <1>1, <1>7, <2>2 DEF Recency!Access, Recency!vars
<1>8. CASE ~Recency!In(s, l)
  <2>1. Newest(c', s) = <<l>> \o (IF Len(L) < c.ways THEN L ELSE SubSeq(L, 1, c.ways - 1))
    BY <1>5, <1>8 DEF Takes
  <2>2. Lists(c)' = [Lists(c) EXCEPT ![s] =
                       <<l>> \o (IF Len(Lists(c)[s]) < c.ways THEN Lists(c)[s]
                                 ELSE SubSeq(Lists(c)[s], 1, c.ways - 1))]
    BY <1>2, <1>4, <2>1
  <2>3. Recency!Fill(s, l)
    BY <1>1, <1>8, <2>2 DEF Recency!Fill
  <2> QED BY <2>3 DEF Recency!Access
<1> QED BY <1>6, <1>7, <1>8

(* cache_read and cache_write, where they end up in a line. *)
LEMMA AccessFollows ==
  ASSUME IInv, Sorted(c), NEW a \in Addr, Accesses(a)
  PROVE  Sorted(c') /\ Recency!Access(SetOf(c, a), a \div c.line_bytes)
<1> DEFINE s == SetOf(c, a)
           l == a \div c.line_bytes
<1>1. Sound(c, mem) /\ IsCache(c) /\ NoTwin(c) /\ c.repl \in {"lru", "fifo"} /\ c.clock < ClockMod - 1
  BY DEF IInv, Sound, Sorted, Accesses, BeforeWrap
<1>2. s \in 0 .. c.sets - 1
  BY <1>1, DecodeTypes
<1>3. PICK w \in WaysFor(c, a) :
        \/ c' = Accessed(c, mem, a, w).c
        \/ \E v \in Byte : c' = Stored(Accessed(c, mem, a, w).c, Accessed(c, mem, a, w).m, a, w, v).c
  BY DEF Accesses, Read, WriteInto
<1>4. w \in Ways(c) /\ (Hit(c, a) => Matches(c, a, w))
  BY <1>1, WayIsWay, HitMatches
<1> DEFINE p == <<s, w>>
           e == Accessed(c, mem, a, w).c
<1>5. /\ SameGeometry(c, e) /\ e.repl = c.repl
      /\ \A x \in Slots(c) : x # p => Alike(e.line[x], c.line[x])
      /\ Hit(c, a) /\ c.repl # "lru" => e.line[p] = c.line[p] /\ e.clock = c.clock
      /\ ~Hit(c, a) \/ c.repl = "lru" =>
           /\ e.line[p].valid /\ e.line[p].stamp = Tick(c) /\ e.clock = Tick(c)
           /\ Name(e, p) = l
  BY <1>1, <1>4, AccessShows
<1>6. IsCache(e) /\ Slots(e) = Slots(c) /\ Ways(e) = Ways(c)
  <2>1. Sound(e, Accessed(c, mem, a, w).m)
    BY <1>1, <1>4, AccessSettles DEF Settled
  <2> QED BY <1>5, <2>1, SameDecode DEF Sound
<1>7. p \in Slots(c)
  BY <1>1, <1>4, SlotOf
<1> HIDE DEF e
<1>8. /\ SameGeometry(e, c') /\ c'.repl = e.repl /\ c'.clock = e.clock
      /\ \A x \in Slots(c) : Alike(c'.line[x], e.line[x])
  <2>1. CASE c' = e
    BY <2>1 DEF SameGeometry, Alike
  <2>2. CASE \E v \in Byte : c' = Stored(e, Accessed(c, mem, a, w).m, a, w, v).c
    BY <1>4, <1>6, <2>2, StoreShows
  <2> QED BY <1>3, <2>1, <2>2 DEF e
<1>9. SameGeometry(c, c') /\ c'.repl = c.repl /\ c'.line_bytes = e.line_bytes
  BY <1>5, <1>8 DEF SameGeometry
<1>10. \A x \in Slots(c) : x # p => Alike(c'.line[x], c.line[x])
  BY <1>5, <1>8 DEF Alike
<1>11. Hit(c, a) /\ c.repl # "lru" => Alike(c'.line[p], c.line[p]) /\ c'.clock = c.clock
  BY <1>5, <1>7, <1>8 DEF Alike
<1>12. ~Hit(c, a) \/ c.repl = "lru" =>
         /\ c'.line[p].valid /\ c'.line[p].stamp = Tick(c) /\ c'.clock = Tick(c)
         /\ Name(c', p) = l
  BY <1>5, <1>7, <1>8, <1>9 DEF Alike, Name
<1> HIDE DEF p, l, s
<1>13. /\ Sorted(c') /\ Takes(c, c', s, l)
       /\ \A x \in 0 .. c.sets - 1 : x # s => Newest(c', x) = Newest(c, x)
  BY <1>1, <1>4, <1>9, <1>10, <1>11, <1>12, AccessOrders DEF p, l, s
<1>14. Recency!Access(s, l)
  BY <1>1, <1>2, <1>9, <1>13, TakenByLists
<1> QED BY <1>13, <1>14 DEF s, l

(* What changes none of the three fields leaves every list.                *)
LEMMA ListsStay ==
  ASSUME NEW k, NEW d, Sorted(k), SameGeometry(k, d), d.repl \in {"lru", "fifo"},
         d.clock = k.clock, \A x \in Slots(k) : Alike(d.line[x], k.line[x])
  PROVE  Sorted(d) /\ Lists(d) = Lists(k)
<1>1. d.sets = k.sets /\ Slots(d) = Slots(k)
  BY SameDecode DEF SameGeometry
<1>2. ASSUME NEW s \in 0 .. k.sets - 1
      PROVE  Newest(d, s) = Newest(k, s) /\ \E q, m : Listing(d, s, q, m)
  <2>1. PICK q, m : Listing(k, s, q, m)
    BY DEF Sorted
  <2> QED BY <2>1, ListStays
<1>3. \A x \in Slots(d) : d.line[x].valid => d.line[x].stamp <= d.clock
  BY <1>1 DEF Sorted, Alike
<1> QED BY <1>1, <1>2, <1>3 DEF Sorted, Lists

(* A cache that holds nothing has empty lists.                             *)
LEMMA ListsEmpty ==
  ASSUME NEW d, d.repl \in {"lru", "fifo"}, \A x \in Slots(d) : ~d.line[x].valid
  PROVE  Sorted(d) /\ Lists(d) = [s \in 0 .. d.sets - 1 |-> <<>>]
<1> DEFINE q == [i \in 1 .. 0 |-> 0]
<1>1. ASSUME NEW s PROVE Listing(d, s, q, 0)
  <2>1. Held(d, s) = {}
    BY DEF Held
  <2>2. q \in [1 .. 0 -> {}]
    OBVIOUS
  <2> QED BY <2>1, <2>2 DEF Listing, Ranks
<1>2. Names(d, q, 0) = <<>>
  BY DEF Names
<1> HIDE DEF q
<1>3. \A s \in 0 .. d.sets - 1 : Newest(d, s) = <<>>
  BY <1>1, <1>2, NewestIs
<1> QED BY <1>1, <1>3 DEF Sorted, Lists

(* cache_snoop takes its line out of the list of its set.                  *)
LEMMA SnoopFollows ==
  ASSUME StatInv, Sorted(c), NEW a \in Addr, Snoop(a)
  PROVE  Sorted(c') /\ Recency!Drop(SetOf(c, a), a \div c.line_bytes)
<1> DEFINE s == SetOf(c, a)
           l == a \div c.line_bytes
           p == <<s, HitWay(c, a)>>
           o == [Cleaned(c.line[p]) EXCEPT !.valid = FALSE]
<1>1. IsCache(c) /\ InPlace(c) /\ NoTwin(c)
  BY DEF StatInv, IInv, Sound
<1>2. Hit(c, a) /\ p \in Valid(c) /\ p \in Slots(c) /\ s \in 0 .. c.sets - 1
  BY <1>1, FoundIsValid, DecodeTypes DEF Snoop
<1>3. c' = [c EXCEPT !.line[p] = o] /\ o \in CacheLine(c.line_bytes) /\ ~o.valid
  <2>1. c.line[p] \in CacheLine(c.line_bytes)
    BY <1>1, <1>2, LineTypes
  <2>2. c' = [c EXCEPT !.line[p] = o]
    BY DEF Snoop
  <2>3. Cleaned(c.line[p]) \in CacheLine(c.line_bytes)
    BY <2>1 DEF Cleaned, CacheLine
  <2> QED BY <2>2, <2>3 DEF CacheLine
<1> HIDE DEF o
<1>4. c' = WithLine(c, p, o, c.clock)
  BY <1>1, <1>3 DEF WithLine, IsCache
<1>5. /\ SameGeometry(c, c') /\ c'.clock = c.clock /\ c'.line[p] = o
      /\ \A x \in Slots(c) : x # p => c'.line[x] = c.line[x]
  <2>1. c.clock \in Stamp
    BY <1>1 DEF IsCache
  <2> DEFINE d == WithLine(c, p, o, c.clock)
  <2>2. /\ SameGeometry(c, d) /\ d.clock = c.clock /\ d.line[p] = o
        /\ \A x \in Slots(c) : x # p => d.line[x] = c.line[x]
    BY <1>1, <1>2, <1>3, <2>1, OneLine
  <2> HIDE DEF d
  <2> QED BY <1>4, <2>2 DEF d
<1>6. c'.repl = c.repl
  BY <1>1, <1>3 DEF IsCache
<1>7. Slots(c') = Slots(c) /\ c'.sets = c.sets /\ c'.ways = c.ways
  BY <1>5, SameDecode DEF SameGeometry
<1>8. \A x \in Slots(c') : c'.line[x].valid => c'.line[x].stamp <= c'.clock
  BY <1>3, <1>5, <1>7 DEF Sorted
<1>9. ASSUME NEW x \in 0 .. c.sets - 1, x # s
      PROVE  Newest(c', x) = Newest(c, x) /\ \E q, m : Listing(c', x, q, m)
  <2>1. PICK q, m : Listing(c, x, q, m)
    BY DEF Sorted
  <2>2. \A y \in Slots(c) : y[1] = x => Alike(c'.line[y], c.line[y])
    BY <1>5, <1>9 DEF Alike
  <2> QED BY <1>5, <2>1, <2>2, ListStays
<1>10. PICK q, m : Listing(c, s, q, m)
  BY <1>2 DEF Sorted
<1>11. PICK t \in 1 .. m : q[t] = p /\ Name(c, q[t]) = l
  <2>1. PICK w \in Ways(c) : Matches(c, a, w)
    BY <1>2 DEF Hit
  <2>2. HitWay(c, a) = w
    BY <1>1, <2>1, VisibleByte
  <2> QED BY <1>1, <1>10, <2>1, <2>2, HitIsListed
<1> HIDE DEF p, l, s
<1>12. Listing(c', s, But(q, m, t), m - 1) /\ Newest(c', s) = But(Newest(c, s), m, t)
  <2>1. ~c'.line[q[t]].valid /\ \A x \in Slots(c) : x # q[t] => Alike(c'.line[x], c.line[x])
    BY <1>3, <1>5, <1>11 DEF Alike
  <2> QED BY <1>5, <1>10, <2>1, ListDrops
<1>13. Newest(c', s) = Recency!Without(Newest(c, s), l)
  BY <1>1, <1>10, <1>11, <1>12, WithoutIs
<1>14. Sorted(c')
  BY <1>6, <1>7, <1>8, <1>9, <1>12 DEF Sorted
<1>15. Recency!In(s, l)
  <2>1. Lists(c)[s] = Newest(c, s)
    BY <1>2 DEF Lists
  <2>2. Newest(c, s) = Names(c, q, m) /\ Len(Newest(c, s)) = m
    BY <1>1, <1>10, NamesType
  <2>3. Newest(c, s)[t] = l
    BY <1>11, <2>2 DEF Names
  <2> QED BY <2>1, <2>2, <2>3 DEF Recency!In
<1>16. Lists(c)' = [Lists(c) EXCEPT ![s] = Recency!Without(Lists(c)[s], l)]
  <2> DEFINE N == [Lists(c) EXCEPT ![s] = Recency!Without(Lists(c)[s], l)]
  <2>1. N = [x \in 0 .. c.sets - 1 |-> N[x]] /\ Lists(c)[s] = Newest(c, s)
    BY <1>2 DEF Lists
  <2>2. N[s] = Newest(c', s)
    BY <1>2, <1>13, <2>1 DEF Lists
  <2>3. \A x \in 0 .. c.sets - 1 : x # s => N[x] = Newest(c', x)
    BY <1>9 DEF Lists
  <2>4. Lists(c)' = [x \in 0 .. c.sets - 1 |-> Newest(c', x)]
    BY <1>7 DEF Lists
  <2> HIDE DEF N
  <2>5. N = Lists(c)'
    BY <2>1, <2>2, <2>3, <2>4
  <2> QED BY <2>5 DEF N
<1>17. Recency!Drop(s, l)
  BY <1>6, <1>7, <1>15, <1>16 DEF Recency!Drop
<1> QED BY <1>14, <1>17 DEF s, l

(* What leaves the three fields, the policy and the clock.                 *)
LEMMA QuietFollows ==
  ASSUME Sorted(c), SameGeometry(c, c'), c'.repl = c.repl, c'.clock = c.clock,
         \A x \in Slots(c) : Alike(c'.line[x], c.line[x])
  PROVE  Sorted(c') /\ UNCHANGED Recency!vars
<1>1. Sorted(c') /\ Lists(c') = Lists(c)
  BY ListsStay DEF Sorted
<1>2. Lists(c)' = Lists(c') /\ c'.ways = c.ways
  BY DEF Lists, SameGeometry, Newest, Held, Slots, Ways
<1> QED BY <1>1, <1>2 DEF Recency!vars

(* cache_clean and cache_clean_addr leave the order alone.                 *)
LEMMA CleanFollows ==
  ASSUME StatInv, Sorted(c), Clean \/ \E a \in Addr : CleanAddr(a)
  PROVE  Sorted(c') /\ UNCHANGED Recency!vars
<1>1. IsCache(c) /\ c.line \in [Slots(c) -> CacheLine(c.line_bytes)]
  BY DEF StatInv, IInv, Sound, IsCache
<1>2. ASSUME NEW x \in Slots(c)
      PROVE  Cleaned(c.line[x]) \in CacheLine(c.line_bytes) /\ Alike(Cleaned(c.line[x]), c.line[x])
  <2>1. c.line[x] \in CacheLine(c.line_bytes)
    BY <1>1
  <2> QED BY <2>1 DEF Cleaned, CacheLine, Alike
<1>3. CASE Clean
  <2> DEFINE f == [x \in Slots(c) |-> Cleaned(c.line[x])]
  <2>1. c' = [c EXCEPT !.line = f]
    BY <1>1, <1>3 DEF Clean, AllClean, IsCache
  <2>2. f \in [Slots(c) -> CacheLine(c.line_bytes)] /\ \A x \in Slots(c) : f[x] = Cleaned(c.line[x])
    BY <1>2
  <2> HIDE DEF f
  <2>3. SameGeometry(c, c') /\ c'.line = f
    BY <1>1, <2>1, <2>2, EveryLine
  <2>4. c'.repl = c.repl /\ c'.clock = c.clock
    BY <1>1, <2>1 DEF IsCache
  <2>5. \A x \in Slots(c) : Alike(c'.line[x], c.line[x])
    BY <1>2, <2>2, <2>3
  <2> QED BY <2>3, <2>4, <2>5, QuietFollows
<1>4. ASSUME NEW a \in Addr, CleanAddr(a) PROVE Sorted(c') /\ UNCHANGED Recency!vars
  <2> DEFINE p == <<SetOf(c, a), HitWay(c, a)>>
             o == Cleaned(c.line[p])
             d == WithLine(c, p, o, c.clock)
  <2>1. p \in Slots(c)
    BY <1>4, FoundIsValid DEF CleanAddr
  <2>2. c' = [c EXCEPT !.line[p] = o]
    BY <1>4 DEF CleanAddr
  <2>3. o \in CacheLine(c.line_bytes) /\ Alike(o, c.line[p])
    BY <1>2, <2>1
  <2> HIDE DEF p, o
  <2>4. c' = d /\ c'.repl = c.repl
    BY <1>1, <2>2 DEF WithLine, IsCache
  <2>5. c.clock \in Stamp
    BY <1>1 DEF IsCache
  <2>6. /\ SameGeometry(c, d) /\ d.clock = c.clock /\ d.line[p] = o
        /\ \A x \in Slots(c) : x # p => d.line[x] = c.line[x]
    BY <1>1, <2>1, <2>3, <2>5, OneLine
  <2> HIDE DEF d
  <2>7. \A x \in Slots(c) : Alike(c'.line[x], c.line[x])
    BY <2>3, <2>4, <2>6 DEF Alike
  <2> QED BY <2>4, <2>6, <2>7, QuietFollows
<1> QED BY <1>3, <1>4

(* cache_flush and cache_invalidate empty every list.                      *)
LEMMA EmptyFollows ==
  ASSUME StatInv, Sorted(c), Flush \/ Invalidate
  PROVE  Sorted(c') /\ Recency!DropAll
<1>1. IsCache(c) /\ c.line \in [Slots(c) -> CacheLine(c.line_bytes)]
  BY DEF StatInv, IInv, Sound, IsCache
<1>2. PICK f : c' = [c EXCEPT !.line = [x \in Slots(c) |-> f[x]]] /\ \A x \in Slots(c) : ~f[x].valid
  <2>1. CASE Flush
    <3> DEFINE f == [x \in Slots(c) |-> [Cleaned(c.line[x]) EXCEPT !.valid = FALSE]]
    <3>1. c' = [c EXCEPT !.line = [x \in Slots(c) |-> f[x]]]
      BY <1>1, <2>1 DEF Flush, AllFlushed, IsCache
    <3>2. ASSUME NEW x \in Slots(c) PROVE ~f[x].valid
      <4>1. c.line[x] \in CacheLine(c.line_bytes)
        BY <1>1
      <4>2. Cleaned(c.line[x]) \in CacheLine(c.line_bytes)
        BY <4>1 DEF Cleaned, CacheLine
      <4> QED BY <4>2 DEF CacheLine
    <3> HIDE DEF f
    <3> QED BY <3>1, <3>2
  <2>2. CASE Invalidate
    <3> DEFINE f == [x \in Slots(c) |-> [c.line[x] EXCEPT !.valid = FALSE, !.dirty = FALSE]]
    <3>1. c' = [c EXCEPT !.line = [x \in Slots(c) |-> f[x]]]
      BY <1>1, <2>2 DEF Invalidate, AllInvalid, IsCache
    <3>2. ASSUME NEW x \in Slots(c) PROVE ~f[x].valid
      <4>1. c.line[x] \in CacheLine(c.line_bytes)
        BY <1>1
      <4> QED BY <4>1 DEF CacheLine
    <3> HIDE DEF f
    <3> QED BY <3>1, <3>2
  <2> QED BY <2>1, <2>2
<1>3. /\ c'.line = [x \in Slots(c) |-> f[x]] /\ c'.repl = c.repl /\ SameGeometry(c, c')
      /\ c'.sets = c.sets /\ c'.ways = c.ways
  BY <1>1, <1>2 DEF IsCache, SameGeometry
<1>4. Slots(c') = Slots(c)
  BY <1>3, SameDecode
<1>5. \A x \in Slots(c') : ~c'.line[x].valid
  BY <1>2, <1>3, <1>4
<1>6. c'.repl \in {"lru", "fifo"}
  BY <1>3 DEF Sorted
<1>7. Sorted(c') /\ Lists(c') = [s \in 0 .. c'.sets - 1 |-> <<>>]
  BY <1>5, <1>6, ListsEmpty
<1>8. Lists(c)' = [s \in DOMAIN Lists(c) |-> <<>>]
  <2>1. Lists(c)' = Lists(c')
    BY DEF Lists, Newest, Held, Slots, Ways
  <2>2. DOMAIN Lists(c) = 0 .. c.sets - 1
    BY DEF Lists
  <2> QED BY <1>3, <1>7, <2>1, <2>2
<1> QED BY <1>3, <1>7, <1>8 DEF Recency!DropAll

(* The monitor changes the policy.                                         *)
LEMMA PolicyFollows ==
  ASSUME StatInv, Sorted(c), NEW p, p[1] \in {"lru", "fifo"}, Policy(p[1], p[2], p[3])
  PROVE  Sorted(c') /\ Recency!SetPolicy(p[1])
<1>1. IsCache(c)
  BY DEF StatInv, IInv, Sound
<1>2. /\ c'.line = c.line /\ c'.repl = p[1] /\ c'.clock = c.clock /\ c'.ways = c.ways
      /\ SameGeometry(c, c')
  BY <1>1 DEF Policy, IsCache, SameGeometry
<1>3. Sorted(c') /\ Lists(c') = Lists(c)
  BY <1>2, ListsStay DEF Alike
<1>4. Lists(c)' = Lists(c')
  BY DEF Lists, Newest, Held, Slots, Ways
<1> QED BY <1>2, <1>3, <1>4 DEF Recency!SetPolicy

(* The number of a line is one of the lines of memory.                     *)
LEMMA NumberIsLine ==
  ASSUME NEW k, IsCache(k), NEW a \in Addr
  PROVE  a \div k.line_bytes \in 0 .. MemSize - 1
<1>1. a \in Nat /\ k.line_bytes \in Nat \ {0} /\ MemSize \in Nat /\ a < MemSize
  BY MemAssumption, Pow2Positive DEF Addr, IsCache
<1>2. a \div k.line_bytes \in Nat /\ a \div k.line_bytes <= a
  BY <1>1
<1> QED BY <1>1, <1>2

(* Every step keeps the order and follows it.                              *)
LEMMA StepFollows ==
  ASSUME \A p \in Policies : p[1] # "random", StatInv, Sorted(c), [StatNext]_statVars
  PROVE  Sorted(c') /\ [AccessesFollow /\ OthersFollow]_vars
<1>1. UsedAddr \subseteq Addr
  BY UsedAssumption
<1>2. IInv /\ IsCache(c)
  BY DEF StatInv, IInv, Sound
<1>3. AccessesFollow
  <2> SUFFICES ASSUME NEW a \in UsedAddr, Accesses(a)
               PROVE  Recency!Access(SetOf(c, a), a \div c.line_bytes)
    BY DEF AccessesFollow
  <2> QED BY <1>1, <1>2, AccessFollows
<1>4. Sorted(c') /\ (OthersFollow \/ UNCHANGED vars)
  <2>1. ASSUME NEW a \in UsedAddr, Accesses(a) PROVE Sorted(c') /\ OthersFollow
    <3>1. Sorted(c')
      BY <1>1, <1>2, <2>1, AccessFollows
    <3> QED BY <2>1, <3>1 DEF OthersFollow
  <2>2. ASSUME UNCHANGED c PROVE Sorted(c') /\ UNCHANGED Recency!vars
    <3>1. c' = c
      BY <2>2
    <3>2. /\ SameGeometry(c, c') /\ c'.repl = c.repl /\ c'.clock = c.clock
          /\ \A x \in Slots(c) : Alike(c'.line[x], c.line[x])
      BY <3>1 DEF SameGeometry, Alike
    <3> QED BY <3>2, QuietFollows
  <2>3. ASSUME NEW a \in UsedAddr, CountCleanAddr(a) PROVE Sorted(c') /\ UNCHANGED Recency!vars
    BY <1>1, <2>3, CleanFollows DEF CountCleanAddr
  <2>4. ASSUME NEW a \in UsedAddr, CountSnoop(a) PROVE Sorted(c') /\ Recency!Next
    <3>1. a \in Addr /\ Snoop(a)
      BY <1>1, <2>4 DEF CountSnoop
    <3>2. Sorted(c') /\ Recency!Drop(SetOf(c, a), a \div c.line_bytes)
      BY <3>1, SnoopFollows
    <3>3. SetOf(c, a) \in DOMAIN Lists(c)
      BY <1>2, <3>1, DecodeTypes DEF Lists
    <3>4. a \div c.line_bytes \in 0 .. MemSize - 1
      BY <1>2, <3>1, NumberIsLine
    <3> QED BY <3>2, <3>3, <3>4 DEF Recency!Next
  <2>5. ASSUME CountClean PROVE Sorted(c') /\ UNCHANGED Recency!vars
    BY <2>5, CleanFollows DEF CountClean
  <2>6. ASSUME CountFlush \/ CountInvalidate PROVE Sorted(c') /\ Recency!Next
    BY <2>6, EmptyFollows DEF CountFlush, CountInvalidate, Recency!Next
  <2>7. ASSUME NEW p \in Policies, SetPolicy(p) PROVE Sorted(c') /\ Recency!Next
    <3>1. p[1] \in {"lru", "fifo"}
      BY PolicyAssumption DEF Repl
    <3> QED BY <2>7, <3>1, PolicyFollows DEF SetPolicy, Recency!Next
  <2>8. ASSUME BeforeWrap, NEW a \in UsedAddr, CountRead(a) PROVE Sorted(c') /\ OthersFollow
    BY <2>1, <2>8 DEF CountRead, Accesses
  <2>9. ASSUME BeforeWrap, NEW a \in UsedAddr, NEW v \in Byte, CountWriteInto(a, v)
        PROVE  Sorted(c') /\ OthersFollow
    BY <2>1, <2>9 DEF CountWriteInto, Accesses
  <2>10. ASSUME NEW a \in UsedAddr, NEW v \in Byte, CountWriteAround(a, v)
         PROVE  Sorted(c') /\ UNCHANGED Recency!vars
    BY <2>2, <2>10 DEF CountWriteAround, WriteAround
  <2>11. ASSUME ResetStats \/ UNCHANGED statVars PROVE Sorted(c') /\ UNCHANGED Recency!vars
    BY <2>2, <2>11 DEF ResetStats, vars, statVars
  <2> QED
    BY <2>3, <2>4, <2>5, <2>6, <2>7, <2>8, <2>9, <2>10, <2>11 DEF StatNext, OthersFollow
<1> QED BY <1>3, <1>4

(* A cache starts empty.                                                   *)
LEMMA InitFollows ==
  ASSUME \A p \in Policies : p[1] # "random", StatInit
  PROVE  Sorted(c) /\ Recency!Init
<1>1. IsCache(c)
  BY InitAccount DEF StatInv, IInv, Sound
<1>2. PICK r \in InitRequests, p \in Policies :
        c = Configured(r[1], r[2], r[3], p[1], p[2], p[3])
  BY DEF StatInit, Init
<1>3. c.repl \in {"lru", "fifo"}
  BY <1>2, PolicyAssumption DEF Configured, Repl
<1>4. \A x \in Slots(c) : ~c.line[x].valid
  <2>1. c.line = [x \in (0 .. c.sets - 1) \X (0 .. c.ways - 1) |-> NoLine(r[2])]
    BY <1>2 DEF Configured
  <2> QED BY <2>1 DEF Slots, Ways, NoLine
<1>5. Sorted(c) /\ Lists(c) = [s \in 0 .. c.sets - 1 |-> <<>>]
  BY <1>3, <1>4, ListsEmpty
<1>6. c.ways \in Nat \ {0}
  BY <1>1 DEF IsCache
<1> QED BY <1>3, <1>5, <1>6 DEF Recency!Init

(* Replacement under LRU and FIFO follows the lists of RecencyList, for    *)
(* every geometry and address space and any mix of accesses, snoops,       *)
(* flushes and changes between the two, until the clock comes round:       *)
(* pick_victim, which looks for the smallest stamp, finds the last line.   *)
THEOREM ReplacementFollows ==
  ASSUME \A p \in Policies : p[1] # "random"
  PROVE  StatSpec => FollowsRecency
<1>1. StatInit => Sorted(c) /\ Recency!Init
  BY InitFollows
<1>2. StatInv /\ Sorted(c) /\ [StatNext]_statVars => Sorted(c)' /\ [AccessesFollow /\ OthersFollow]_vars
  <2>1. Sorted(c)' <=> Sorted(c')
    BY DEF Sorted, Listing, Ranks, Stamps, Held, Slots, Ways
  <2> QED BY <2>1, StepFollows
<1> QED BY <1>1, <1>2, Accounted, PTL DEF StatSpec, FollowsRecency
=============================================================================
