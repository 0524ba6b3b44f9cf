--------------------------- MODULE WriteBackMemory ---------------------------
(***************************************************************************)
(* What one cache of h6502 and the memory behind it promise together,      *)
(* whatever its geometry and its policies.  Every address has a latest     *)
(* value, the one a read returns, and a durable value, the one that is in  *)
(* memory.  The durable value follows the latest one at times of the       *)
(* cache's choosing and never moves otherwise.  Only dropping the cached   *)
(* copies can make the latest value fall back to the durable one.          *)
(***************************************************************************)
CONSTANTS Addr, Byte

VARIABLES
  latest,   \* latest[a]: what a read of a returns
  durable,  \* durable[a]: what memory holds at a
  out,      \* the byte the last read returned
  did       \* the last operation: a step of one kind cannot pass as another

vars == <<latest, durable, out, did>>

TypeOK ==
  /\ latest \in [Addr -> Byte]
  /\ durable \in [Addr -> Byte]
  /\ out \in Byte
  /\ did \in {"none", "read", "write", "sync", "drop"}

Init ==
  /\ durable \in [Addr -> Byte]
  /\ latest = durable
  /\ out = 0
  /\ did = "none"

(* Memory cells keep their value or take the latest one.                   *)
Settle == \A a \in Addr : durable'[a] \in {durable[a], latest'[a]}

Read(a) ==
  /\ did' = "read" /\ out' = latest[a]
  /\ latest' = latest
  /\ durable' \in [Addr -> Byte]
  /\ Settle

Write(a, v) ==
  /\ did' = "write" /\ out' = out
  /\ latest' = [latest EXCEPT ![a] = v]
  /\ durable' \in [Addr -> Byte]
  /\ Settle

(* a is made durable, and other addresses may be *)
Sync(a) ==
  /\ did' = "sync" /\ out' = out
  /\ durable'[a] = latest[a]
  /\ latest' = latest
  /\ durable' \in [Addr -> Byte]
  /\ Settle

SyncAll ==
  /\ did' = "sync" /\ out' = out
  /\ latest' = latest
  /\ durable' = latest

(* the cached copies are gone, written back or not *)
Drop ==
  /\ did' = "drop" /\ out' = out
  /\ latest' = durable
  /\ durable' = durable

Next ==
  \/ \E a \in Addr : Read(a) \/ Sync(a) \/ \E v \in Byte : Write(a, v)
  \/ SyncAll
  \/ Drop

Spec == Init /\ [][Next]_vars

(* The same memory when nobody drops dirty copies. *)
SafeNext ==
  \/ \E a \in Addr : Read(a) \/ Sync(a) \/ \E v \in Byte : Write(a, v)
  \/ SyncAll
SafeSpec == Init /\ [][SafeNext]_vars
=============================================================================
