---------------------------- MODULE Architecture ----------------------------
(***************************************************************************)
(* What the three machines of h6502 promise a program, with the caches out *)
(* of sight.                                                               *)
(*                                                                         *)
(* von Neumann   one space; a fetch and a load return the last store.      *)
(* Harvard       two spaces; a store reaches the data space only.          *)
(* modified      one space; a load returns the last store, and a fetch     *)
(*               returns a value the address has had since the last        *)
(*               invalidation that followed a clean.                       *)
(*                                                                         *)
(* seen[a] is the set of values a fetch from a may return.                 *)
(***************************************************************************)
CONSTANTS RAM, Byte

VARIABLES
  mode,     \* "vn", "harvard" or "modified"
  on,       \* are the caches in use?
  snoop,    \* do stores invalidate the instruction cache?
  through,  \* is the data cache write-through?
  space,    \* space["I"] and space["D"]: the contents of the two spaces
  seen,
  pushed,   \* has every store reached memory?
  out,      \* what the last fetch or load returned
  did       \* the last operation: a step of one kind cannot pass as another

vars == <<mode, on, snoop, through, space, seen, pushed, out, did>>
settings == <<mode, on, snoop, through>>

Modes == {"vn", "harvard", "modified"}
DataSpace == IF mode = "harvard" THEN "D" ELSE "I"

Coherent(sp) == [a \in RAM |-> {sp["I"][a]}]

Init ==
  /\ mode \in Modes /\ on = TRUE /\ snoop = FALSE /\ through \in BOOLEAN
  /\ space \in [{"I", "D"} -> [RAM -> Byte]]
  /\ seen = Coherent(space)
  /\ pushed = TRUE
  /\ out = 0
  /\ did = "none"

(* The cache may push stores out and forget old values at any time.        *)
Settle ==
  /\ space' = space
  /\ seen' \in [RAM -> SUBSET Byte]
  /\ \A a \in RAM : seen'[a] \subseteq seen[a] /\ seen'[a] # {}
  /\ pushed' \in {pushed, TRUE}

Fetch(a) ==
  /\ out' \in seen[a]
  /\ did' = "fetch"
  /\ Settle
  /\ UNCHANGED settings

Load(a) ==
  /\ out' = space[DataSpace][a]
  /\ did' = "load"
  /\ Settle
  /\ UNCHANGED settings

(* Only the modified machine lets a fetch miss a store, and not even that  *)
(* one when the caches are off or a snooped store goes straight to memory. *)
Store(a, v) ==
  /\ did' = "store"
  /\ space' = [space EXCEPT ![DataSpace][a] = v]
  /\ seen' \in [RAM -> SUBSET Byte]
  /\ \A b \in RAM \ {a} : seen'[b] \subseteq seen[b] /\ seen'[b] # {}
  /\ IF mode = "harvard" THEN seen'[a] = seen[a]
     ELSE IF mode = "vn" \/ ~on \/ (snoop /\ through) THEN seen'[a] = {v}
     ELSE v \in seen'[a] /\ seen'[a] \subseteq seen[a] \cup {v}
  /\ pushed' \in IF through \/ ~on THEN {pushed, TRUE} ELSE BOOLEAN
  /\ UNCHANGED <<settings, out>>

(* the clean register or command *)
Clean ==
  /\ did' = "clean"
  /\ Settle
  /\ pushed' = TRUE
  /\ UNCHANGED <<settings, out>>

(* The invalidate register: a fence for the fetch side if every store has  *)
(* reached memory.                                                         *)
InvalidateI ==
  /\ did' = "invalidate"
  /\ Settle
  /\ pushed => seen' = Coherent(space)
  /\ UNCHANGED <<settings, out>>

FlushAll ==
  /\ did' = "flush"
  /\ space' = space
  /\ seen' = Coherent(space)
  /\ pushed' = TRUE
  /\ UNCHANGED <<settings, out>>

(* a device register answers, or takes a byte *)
Device ==
  /\ did' = "device"
  /\ out' \in Byte
  /\ UNCHANGED <<settings, space, seen, pushed>>

(* The mode switch keeps what was stored: the new spaces are the old ones, *)
(* and the fetch side starts afresh.                                       *)
SetMode(m) ==
  /\ did' = "mode"
  /\ mode' = m
  /\ space' = space
  /\ seen' = Coherent(space)
  /\ pushed' = TRUE
  /\ UNCHANGED <<on, snoop, through, out>>

CacheOff ==
  /\ did' = "off"
  /\ on' = FALSE
  /\ space' = space
  /\ seen' = Coherent(space)
  /\ pushed' = TRUE
  /\ UNCHANGED <<mode, snoop, through, out>>

Setting ==
  /\ did' = "setting"
  /\ mode' = mode
  /\ on' \in {on, TRUE} /\ snoop' \in BOOLEAN /\ through' \in BOOLEAN
  /\ Settle
  /\ out' = out

(* a program image is loaded into one space or both *)
LoadImage ==
  /\ did' = "image"
  /\ space' \in [{"I", "D"} -> [RAM -> Byte]]
  /\ seen' = Coherent(space')
  /\ pushed' = TRUE
  /\ UNCHANGED <<settings, out>>

Next ==
  \/ \E a \in RAM : Fetch(a) \/ Load(a) \/ \E v \in Byte : Store(a, v)
  \/ Clean \/ InvalidateI \/ FlushAll \/ Device \/ CacheOff \/ Setting \/ LoadImage
  \/ \E m \in Modes : SetMode(m)

Spec == Init /\ [][Next]_vars
=============================================================================
