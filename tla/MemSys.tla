------------------------------- MODULE MemSys -------------------------------
(***************************************************************************)
(* The memory system of h6502/memsys.c with the commands of h6502/hmon.c   *)
(* that reshape it: two memories, three caches, and the routing of every   *)
(* access of the processor by its side.                                    *)
(*                                                                         *)
(* mem["I"] and mem["D"] are MEM_I and MEM_D.  cache["i"], cache["d"] and  *)
(* cache["u"] are ci, cd and cu.  Of the device page, the two maintenance  *)
(* registers act on the caches, the input registers answer with anything,  *)
(* and an address no device handles is memory.                             *)
(***************************************************************************)
EXTENDS CacheOps

CONSTANTS
  IOPage,        \* the device page, $F000-$F0FF in the code
  CleanReg,      \* $F0FC
  InvalidateReg, \* $F0FD
  InputRegs,     \* $F002-$F004
  OutputRegs,    \* $F001, $F0FE and $F0FF: a store there is no memory access
  CodeAddr, DataAddr,  \* the addresses the program fetches, loads and stores
  ModesUsed,     \* the models the mode command selects
  Geometry,      \* the geometry <<size, line, ways>> a cache starts with
  Requests,      \* per cache, the geometries the config command asks for
  Policies,      \* per cache, the policies it sets
  Images         \* the program images: functions from addresses to bytes

ASSUME PageAssumption ==
  /\ IOPage \subseteq Addr
  /\ {CleanReg, InvalidateReg} \cup InputRegs \cup OutputRegs \subseteq IOPage
  /\ CleanReg # InvalidateReg /\ {CleanReg, InvalidateReg} \cap OutputRegs = {}
  \* no line that cache_config accepts straddles the border of the page
  /\ \A lb \in {l \in Pow2 : l <= MaxLineBytes}, a, b \in Addr :
       a \div lb = b \div lb => (a \in IOPage <=> b \in IOPage)
ASSUME ModeAssumption == ModesUsed \subseteq {"vn", "harvard", "modified"}
ASSUME AddressAssumption == CodeAddr \subseteq Addr /\ DataAddr \subseteq Addr
ASSUME GeometryAssumption ==
  /\ Geometry \in [{"i", "d", "u"} -> Nat \X Nat \X Nat]
  /\ \A x \in {"i", "d", "u"} :
       GeometryOk(Geometry[x][1], Geometry[x][2], Geometry[x][3])
  /\ \A x \in {"i", "d", "u"} :
       /\ \A r \in Requests[x] : IsRequest(r)
       /\ Policies[x] \subseteq Repl \X WPol \X BOOLEAN
ASSUME ImageAssumption ==
  \A image \in Images : \A a \in DOMAIN image : a \in Addr /\ image[a] \in Byte

VARIABLES
  mode,    \* "vn", "harvard" or "modified"
  on,      \* caches_on
  snoop,
  cache,
  mem,
  out,     \* the byte the last read returned
  did      \* what the last step was for the program; a store that counts as
           \* a stale write is a "stale store"

vars == <<mode, on, snoop, cache, mem, out, did>>

RAM == Addr \ IOPage
Caches == {"i", "d", "u"}

(* the memory behind a side, and the memory behind a cache: dmem is MEM_D  *)
(* in Harvard mode only                                                    *)
DataMem == IF mode = "harvard" THEN "D" ELSE "I"
MemFor(side) == IF side = "code" THEN "I" ELSE DataMem
MemBehind(x) == IF x = "d" THEN DataMem ELSE "I"

(* Fault: the sides are swapped. *)
CacheForSwapped(side) ==
  IF mode = "vn" THEN "u" ELSE IF side = "data" THEN "i" ELSE "d"

(* ms_cache_for *)
CacheFor(side) ==
  IF mode = "vn" THEN "u" ELSE IF side = "code" THEN "i" ELSE "d"

(* the machine as the options of the command line leave it; cache_defaults *)
(* make every cache LRU, write-back and write-allocate                     *)
Init ==
  /\ mode \in ModesUsed /\ on = TRUE /\ snoop = FALSE
  /\ cache = [x \in Caches |->
       Configured(Geometry[x][1], Geometry[x][2], Geometry[x][3],
                  "lru", "back", TRUE)]
  /\ mem \in [{"I", "D"} -> [Addr -> Byte]]
  /\ out = 0 /\ did = "none"

Holds(x) == \E p \in Slots(cache[x]) : cache[x].line[p].valid
HoldsDirty(x) ==
  \E p \in Slots(cache[x]) : cache[x].line[p].valid /\ cache[x].line[p].dirty

(* one cache and the memory behind it after an operation, the rest as it is *)
Update(x, r) ==
  /\ cache' = [cache EXCEPT ![x] = r.c]
  /\ mem' = [mem EXCEPT ![MemBehind(x)] = r.m]

(* cache_flush of the caches xs, in the order in which memsys.c flushes    *)
(* them                                                                    *)
FlushCaches(xs) ==
  LET Out(x, m) == IF x \in xs
                   THEN [m EXCEPT ![MemBehind(x)] = AllWrittenBack(cache[x], @)]
                   ELSE m
  IN  /\ mem' = Out("u", Out("d", Out("i", mem)))
      /\ cache' = [x \in Caches |->
                     IF x \in xs THEN AllFlushed(cache[x]) ELSE cache[x]]

(* ms_flush and ms_clean *)
Flush(code, data) ==
  FlushCaches(IF mode = "vn"
              THEN {x \in {"u"} : code \/ data}
              ELSE {x \in {"i", "d"} : IF x = "i" THEN code ELSE data})
(* Fault: the instruction cache is cleaned. *)
CleanCode ==
  LET x == CacheFor("code")
  IN  Update(x, [c |-> AllClean(cache[x]),
                 m |-> AllWrittenBack(cache[x], mem[MemBehind(x)])])

CleanData ==
  LET x == CacheFor("data")
  IN  Update(x, [c |-> AllClean(cache[x]),
                 m |-> AllWrittenBack(cache[x], mem[MemBehind(x)])])

-----------------------------------------------------------------------------
(* ms_read for a side of the processor *)

ReadDevice(side, a) ==
  /\ a \in IOPage
  /\ out' \in IF a \in InputRegs THEN Byte ELSE {mem[MemFor(side)][a]}
  /\ did' = "device"
  /\ UNCHANGED <<mode, on, snoop, cache, mem>>

ReadMemory(side, a) ==
  /\ ~on
  /\ out' = mem[MemFor(side)][a]
  /\ UNCHANGED <<cache, mem>>

ReadCache(side, a) ==
  /\ on
  /\ LET x == CacheFor(side)
     IN  \E w \in WaysFor(cache[x], a) :
           LET r == Accessed(cache[x], mem[MemBehind(x)], a, w)
           IN  Update(x, r) /\ out' = ByteIn(r.c, a, w)

(* Fault: the device page is not told apart. *)
ReadAnywhere(side, a) ==
  /\ ReadMemory(side, a) \/ ReadCache(side, a)
  /\ did' = (IF side = "code" THEN "fetch" ELSE "load")
  /\ UNCHANGED <<mode, on, snoop>>

Read(side, a) ==
  /\ a \notin IOPage
  /\ ReadMemory(side, a) \/ ReadCache(side, a)
  /\ did' = (IF side = "code" THEN "fetch" ELSE "load")
  /\ UNCHANGED <<mode, on, snoop>>

-----------------------------------------------------------------------------
(* ms_write: every store of the processor is a data access *)

StoreDevice(a, v) ==
  /\ a \in IOPage
  /\ \/ a = CleanReg /\ CleanData /\ did' = "clean"
     \/ a = InvalidateReg /\ Flush(TRUE, FALSE) /\ did' = "invalidate"
     \/ /\ a \notin {CleanReg, InvalidateReg}
        /\ mem' = IF a \in OutputRegs THEN mem ELSE [mem EXCEPT ![DataMem][a] = v]
        /\ did' = "device"
        /\ UNCHANGED cache
  /\ UNCHANGED <<mode, on, snoop, out>>

(* the modified machine's I$ holds the line a store goes to *)
Coherence(a) == mode = "modified" /\ on /\ Hit(cache["i"], a)

StoreMemory(a, v) ==
  /\ ~on
  /\ mem' = [mem EXCEPT ![DataMem][a] = v]
  /\ UNCHANGED cache

(* cache_write on a cache and its memory *)
Writes(k, m, a, v) ==
  IF ~Hit(k, a) /\ ~k.write_alloc
  THEN {[c |-> k, m |-> [m EXCEPT ![a] = v]]}
  ELSE {LET r == Accessed(k, m, a, w) IN Stored(r.c, r.m, a, w, v) :
          w \in WaysFor(k, a)}

(* Faults: the store is not made visible; the stale line is not dropped. *)
CleanedNowhere(r, a) == r
SnoopedNowhere(r, a) == r

(* cache_clean_addr and cache_snoop *)
CleanedAt(r, a) ==
  IF ~Hit(r.c, a) THEN r
  ELSE LET p == <<SetOf(r.c, a), HitWay(r.c, a)>>
       IN  [c |-> [r.c EXCEPT !.line[p] = Cleaned(@)],
            m |-> WrittenBack(r.c, r.m, r.c.line[p])]
SnoopedAt(r, a) ==
  IF ~Hit(r.c, a) THEN r
  ELSE LET p == <<SetOf(r.c, a), HitWay(r.c, a)>>
       IN  [c |-> [r.c EXCEPT !.line[p] = [Cleaned(@) EXCEPT !.valid = FALSE]],
            m |-> WrittenBack(r.c, r.m, r.c.line[p])]

(* the store into the data cache; if the I$ held the line and snooping is  *)
(* on, the store is made visible in memory and the stale line dropped      *)
StoreCache(a, v) ==
  /\ on
  /\ LET x == CacheFor("data")
     IN  \E r \in Writes(cache[x], mem[MemBehind(x)], a, v) :
           IF Coherence(a) /\ snoop
           THEN LET d == CleanedAt(r, a)
                    i == SnoopedAt([c |-> cache["i"], m |-> d.m], a)
                IN  /\ cache' = [cache EXCEPT !["d"] = d.c, !["i"] = i.c]
                    /\ mem' = [mem EXCEPT !["I"] = i.m]
           ELSE Update(x, r)

Store(a, v) ==
  /\ a \notin IOPage
  /\ StoreMemory(a, v) \/ StoreCache(a, v)
  /\ did' = (IF Coherence(a) /\ ~snoop THEN "stale store" ELSE "store")
  /\ UNCHANGED <<mode, on, snoop, out>>

-----------------------------------------------------------------------------
(* The commands of the monitor *)

(* Fault: the switch does not flush. *)
SetModeAtOnce(m) ==
  /\ mode' = m
  /\ did' = "mode"
  /\ UNCHANGED <<on, snoop, cache, mem, out>>

(* mode: ms_set_mode flushes all three caches, then switches *)
SetMode(m) ==
  /\ FlushCaches(Caches)
  /\ mode' = m
  /\ did' = "mode"
  /\ UNCHANGED <<on, snoop, out>>

CacheOn ==
  /\ on' = TRUE
  /\ did' = "setting"
  /\ UNCHANGED <<mode, snoop, cache, mem, out>>

(* Fault: the caches are bypassed with their lines in them. *)
CacheOffAtOnce ==
  /\ on' = FALSE
  /\ did' = "off"
  /\ UNCHANGED <<mode, snoop, cache, mem, out>>

CacheOff ==
  /\ Flush(TRUE, TRUE)
  /\ on' = FALSE
  /\ did' = "off"
  /\ UNCHANGED <<mode, snoop, out>>

SetSnoop(b) ==
  /\ snoop' = b
  /\ did' = "setting"
  /\ UNCHANGED <<mode, on, cache, mem, out>>

(* config: the geometry of one cache, whatever its lines hold *)
Config(x, size, lb, ways) ==
  /\ Accepts(size, lb, ways)
  /\ cache' = [cache EXCEPT ![x] =
                 Configured(size, lb, ways, @.repl, @.wpol, @.write_alloc)]
  /\ did' = "setting"
  /\ UNCHANGED <<mode, on, snoop, mem, out>>

(* config: the policy of one cache *)
SetPolicy(x, repl, wpol, alloc) ==
  /\ cache' = [cache EXCEPT ![x].repl = repl, ![x].wpol = wpol,
                            ![x].write_alloc = alloc]
  /\ did' = "setting"
  /\ UNCHANGED <<mode, on, snoop, mem, out>>

CleanCommand ==
  /\ CleanData
  /\ did' = "clean"
  /\ UNCHANGED <<mode, on, snoop, out>>

FlushCommand(code, data) ==
  /\ Flush(code, data)
  /\ did' = (IF code /\ data THEN "flush" ELSE IF code THEN "invalidate" ELSE "clean")
  /\ UNCHANGED <<mode, on, snoop, out>>

(* e and ei: ms_poke goes past the caches *)
Poke(side, a, v) ==
  /\ mem' = [mem EXCEPT ![MemFor(side)][a] = v]
  /\ did' = "poke"
  /\ UNCHANGED <<mode, on, snoop, cache, out>>

(* load: load_file goes past the caches as well *)
LoadFile(image, toI, toD) ==
  LET Over(m) == [a \in Addr |-> IF a \in DOMAIN image THEN image[a] ELSE m[a]]
      onI == IF toI THEN [mem EXCEPT !["I"] = Over(@)] ELSE mem
  IN  /\ toI \/ toD
      /\ mem' = IF toD THEN [onI EXCEPT ![DataMem] = Over(@)] ELSE onI
      /\ did' = "image"
      /\ UNCHANGED <<mode, on, snoop, cache, out>>

-----------------------------------------------------------------------------
(* the running program *)
Access ==
  \/ \E a \in CodeAddr : ReadDevice("code", a) \/ Read("code", a)
  \/ \E a \in DataAddr :
       \/ ReadDevice("data", a) \/ Read("data", a)
       \/ \E v \in Byte : StoreDevice(a, v) \/ Store(a, v)

(* the commands that lose nothing, in any state *)
Command ==
  \/ \E m \in ModesUsed : SetMode(m)
  \/ CacheOn \/ CacheOff
  \/ \E b \in BOOLEAN : SetSnoop(b)
  \/ \E x \in Caches, p \in UNION {Policies[y] : y \in Caches} :
       p \in Policies[x] /\ SetPolicy(x, p[1], p[2], p[3])
  \/ CleanCommand
  \/ \E code, data \in BOOLEAN : (code \/ data) /\ FlushCommand(code, data)

Reshape ==
  \E x \in Caches : \E r \in Requests[x] : Config(x, r[1], r[2], r[3])
SideDoor ==
  \/ \E a \in DataAddr \ IOPage, v \in Byte, side \in {"code", "data"} :
       Poke(side, a, v)
  \/ \E image \in Images, toI, toD \in BOOLEAN : LoadFile(image, toI, toD)

(* every command in every state *)
Next == Access \/ Command \/ Reshape \/ SideDoor
Spec == Init /\ [][Next]_vars

(* The same with care: a cache is given a new geometry only while it holds *)
(* no dirty line, and memory is written behind the caches only while they  *)
(* are empty, as they are at startup and after a mode switch.              *)
CareNext ==
  \/ Access \/ Command
  \/ \E x \in Caches : \E r \in Requests[x] :
       ~HoldsDirty(x) /\ Config(x, r[1], r[2], r[3])
  \/ (\A x \in Caches : ~Holds(x)) /\ SideDoor
CareSpec == Init /\ [][CareNext]_vars

-----------------------------------------------------------------------------
(* The types of the variables. *)
TypeOK ==
  /\ mode \in {"vn", "harvard", "modified"}
  /\ on \in BOOLEAN /\ snoop \in BOOLEAN
  /\ DOMAIN cache = Caches /\ \A x \in Caches : IsCache(cache[x])
  /\ mem \in [{"I", "D"} -> [Addr -> Byte]]
  /\ out \in Byte
  /\ did \in {"none", "fetch", "load", "store", "stale store", "device", "clean", "invalidate",
              "flush", "mode", "off", "setting", "poke", "image"}

(* No cache holds a line of the device page: a device register is read and *)
(* written by the access itself, never by a fill or a write-back.          *)
DevicesUncached ==
  \A x \in Caches : \A p \in Slots(cache[x]) :
    cache[x].line[p].valid =>
      Extent(cache[x], cache[x].line[p]) \cap IOPage = {}

(* A cache the routing does not reach holds nothing, so that no line       *)
(* written under one model comes back under another.                       *)
IdleCachesEmpty ==
  \A x \in Caches :
    Holds(x) => on /\ x \in {CacheFor("code"), CacheFor("data")}

(* The instruction cache never holds a dirty line, so invalidating it      *)
(* writes nothing to memory.                                               *)
CodeNeverDirty == ~HoldsDirty("i")

(* A store that parts a byte of a resident I$ line from what a load        *)
(* returns is counted as a stale write, unless snooping repairs it.  All   *)
(* copies of the byte must agree before: a snoop drops the whole line of   *)
(* the I$ and pushes out one line of the D$, so that where the former is   *)
(* wider it may bring back an older byte of memory in a neighbour that had *)
(* the current value by chance.                                            *)
Current(a) == Visible(cache["d"], mem["I"], a)
Fetched(a) == Visible(cache["i"], mem["I"], a)
StaleIsCounted ==
  [][mode = "modified" /\ did' = "store" =>
       \A a \in RAM :
         Hit(cache["i"], a) /\ Fetched(a) = Current(a) /\ Current(a) = mem["I"][a]
           => Fetched(a)' = Current(a)']_vars

(* A snooped store to a line the I$ holds reaches the fetch side at once:  *)
(* pushing it out and dropping the line work only together, and only after *)
(* the store.                                                              *)
SnoopRepairs ==
  [][\A a \in DataAddr \ IOPage, v \in Byte :
       snoop /\ Coherence(a) /\ Store(a, v) => Fetched(a)' = v]_vars

(* The program sees the machine that was chosen: the caches and memories   *)
(* as Architecture names them.                                             *)
Through == cache["d"].wpol = "through"
Space ==
  [s \in {"I", "D"} |-> [a \in RAM |->
    IF s = "D"
    THEN IF mode = "harvard" THEN Visible(cache["d"], mem["D"], a) ELSE mem["D"][a]
    ELSE LET x == IF mode = "vn" THEN "u" ELSE IF mode = "harvard" THEN "i" ELSE "d"
         IN  Visible(cache[x], mem["I"], a)]]
Seen ==
  [a \in RAM |->
    IF mode = "modified" THEN {Fetched(a), mem["I"][a], Current(a)}
    ELSE {Visible(cache[IF mode = "vn" THEN "u" ELSE "i"], mem["I"], a)}]
Pushed == ~HoldsDirty("d")
Told == CASE did = "stale store" -> "store"
          [] did = "poke" -> "image"
          [] OTHER -> did
Model == INSTANCE Architecture WITH
           through <- Through, space <- Space, seen <- Seen, pushed <- Pushed,
           did <- Told
KeepsModel == Model!Spec

-----------------------------------------------------------------------------
(* What the documents say of the machine, and the code does not do.        *)

(* A new geometry loses no store: "dirty write-back data has to land       *)
(* somewhere" before the shape of the machine changes (memsys.c).          *)
ConfigKeepsStores ==
  [][did' = "setting" => \A a \in RAM : Current(a)' = Current(a)]_vars

(* Snooping is hardware coherence: the fetch side sees every store.        *)
SnoopIsCoherent ==
  mode = "modified" /\ snoop => \A a \in RAM : Fetched(a) = Current(a)
=============================================================================
