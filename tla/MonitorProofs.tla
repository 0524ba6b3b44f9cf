--------------------------- MODULE MonitorProofs ---------------------------
(***************************************************************************)
(* What holds of the monitor of m6502 for every program in memory, every   *)
(* size of its tables and of the history, and whatever is typed.           *)
(***************************************************************************)
EXTENDS Monitor, TLAPS, FiniteSetTheorems, SequenceTheorems, FunctionTheorems,
        NaturalsInduction, WellFoundedInduction

(***************************************************************************)
(* Standard input.  What is done to what was typed: each taker takes a     *)
(* prefix of the pipe, passes on what it already held or, the listing,     *)
(* takes what io_peek holds for the program.                               *)
(***************************************************************************)
Before(s, t) == \A x \in ToSet(s), y \in ToSet(t) : x < y

LEMMA JoinIs ==
  ASSUME NEW s \in Seq(Nat), NEW t \in Seq(Nat)
  PROVE  /\ s \o t \in Seq(Nat)
         /\ ToSet(s \o t) = ToSet(s) \cup ToSet(t)
         /\ Increasing(s \o t) <=> (Increasing(s) /\ Increasing(t) /\ Before(s, t))
<1> DEFINE m == Len(s)
           n == Len(t)
           u == s \o t
<1>1. /\ m \in Nat /\ n \in Nat /\ DOMAIN s = 1 .. m /\ DOMAIN t = 1 .. n
      /\ \A i \in 1 .. m : s[i] \in Nat
      /\ \A i \in 1 .. n : t[i] \in Nat
  BY LenProperties
<1>2. /\ u \in Seq(Nat) /\ DOMAIN u = 1 .. m + n
      /\ \A i \in 1 .. m + n : u[i] = IF i <= m THEN s[i] ELSE t[i - m]
  BY ConcatProperties, LenProperties
<1>3. /\ ToSet(s) = {s[i] : i \in 1 .. m} /\ ToSet(t) = {t[i] : i \in 1 .. n}
      /\ ToSet(u) = {u[i] : i \in 1 .. m + n}
  BY <1>1, <1>2 DEF ToSet
<1>4. /\ Increasing(s) <=> (\A i, j \in 1 .. m : i < j => s[i] < s[j])
      /\ Increasing(t) <=> (\A i, j \in 1 .. n : i < j => t[i] < t[j])
      /\ Increasing(u) <=> (\A i, j \in 1 .. m + n : i < j => u[i] < u[j])
  BY <1>1, <1>2 DEF Increasing
<1> HIDE DEF m, n, u
<1>5. \A i \in 1 .. m : i \in 1 .. m + n /\ u[i] = s[i]
  BY <1>1, <1>2
<1>6. \A i \in 1 .. n : m + i \in 1 .. m + n /\ u[m + i] = t[i]
  BY <1>1, <1>2
<1>7. \A i \in 1 .. m + n : i \in 1 .. m \/ (i - m \in 1 .. n /\ i = m + (i - m))
  BY <1>1
<1>8. ToSet(u) = ToSet(s) \cup ToSet(t)
  <2>1. ASSUME NEW i \in 1 .. m + n PROVE u[i] \in ToSet(s) \cup ToSet(t)
    BY <1>3, <1>5, <1>6, <1>7
  <2>2. ASSUME NEW i \in 1 .. m PROVE s[i] \in ToSet(u)
    BY <1>3, <1>5
  <2>3. ASSUME NEW i \in 1 .. n PROVE t[i] \in ToSet(u)
    BY <1>3, <1>6
  <2> QED BY <1>3, <2>1, <2>2, <2>3
<1>9. ASSUME Increasing(u) PROVE Increasing(s) /\ Increasing(t) /\ Before(s, t)
  <2>1. Increasing(s)
    BY <1>4, <1>5, <1>9
  <2>2. Increasing(t)
    <3>1. \A i, j \in 1 .. n : i < j => m + i < m + j
      BY <1>1
    <3> QED BY <1>4, <1>6, <1>9, <3>1
  <2>3. Before(s, t)
    <3>1. \A i \in 1 .. m, j \in 1 .. n : i < m + j
      BY <1>1
    <3>2. \A i \in 1 .. m, j \in 1 .. n : s[i] < t[j]
      BY <1>4, <1>5, <1>6, <1>9, <3>1
    <3> QED BY <1>3, <3>2 DEF Before
  <2> QED BY <2>1, <2>2, <2>3
<1>10. ASSUME Increasing(s), Increasing(t), Before(s, t) PROVE Increasing(u)
  <2> SUFFICES ASSUME NEW i \in 1 .. m + n, NEW j \in 1 .. m + n, i < j PROVE u[i] < u[j]
    BY <1>4
  <2>1. CASE i \in 1 .. m /\ j \in 1 .. m
    BY <1>4, <1>5, <1>10, <2>1
  <2>2. CASE i \in 1 .. m /\ j - m \in 1 .. n
    <3>1. s[i] \in ToSet(s) /\ t[j - m] \in ToSet(t)
      BY <1>3, <2>2
    <3>2. j = m + (j - m)
      BY <1>1
    <3>3. u[j] = t[j - m] /\ u[i] = s[i]
      BY <1>5, <1>6, <2>2, <3>2
    <3> QED BY <1>10, <3>1, <3>3 DEF Before
  <2>3. CASE i - m \in 1 .. n /\ j - m \in 1 .. n
    <3>1. i - m < j - m /\ u[i] = t[i - m] /\ u[j] = t[j - m]
      BY <1>1, <1>6, <2>3
    <3> QED BY <1>4, <1>10, <2>3, <3>1
  <2>4. ~(i - m \in 1 .. n /\ j \in 1 .. m)
    BY <1>1
  <2> QED BY <1>7, <2>1, <2>2, <2>3, <2>4
<1> QED BY <1>2, <1>8, <1>9, <1>10 DEF u

(* h is what each reader holds, p the pipe, n how much was typed.          *)
Kept(h, p, n) ==
  /\ \A r \in Readers : Increasing(h[r] \o p)
  /\ (UNION {ToSet(h[r]) : r \in Readers}) \cup ToSet(p) = 1 .. n
  /\ \A r, q \in Readers : r # q => ToSet(h[r]) \cap ToSet(h[q]) = {}

(* A reader takes a prefix of the pipe.                                    *)
LEMMA TakingKeeps ==
  ASSUME NEW h \in [Readers -> Seq(Nat)], NEW s \in Seq(Nat), NEW p \in Seq(Nat), NEW n,
         NEW r \in Readers, Kept(h, s \o p, n)
  PROVE  Kept([h EXCEPT ![r] = @ \o s], p, n)
<1> DEFINE g == [h EXCEPT ![r] = @ \o s]
<1>1. /\ g[r] = h[r] \o s /\ \A q \in Readers : q # r => g[q] = h[q]
      /\ \A q \in Readers : h[q] \in Seq(Nat)
  OBVIOUS
<1> HIDE DEF g
<1>2. /\ ToSet(s \o p) = ToSet(s) \cup ToSet(p)
      /\ s \o p \in Seq(Nat)
      /\ ToSet(g[r]) = ToSet(h[r]) \cup ToSet(s)
      /\ g[r] \in Seq(Nat)
  BY <1>1, JoinIs
<1>3. ASSUME NEW q \in Readers
      PROVE  /\ Increasing(h[q]) /\ Increasing(s) /\ Increasing(p) /\ Before(s, p)
             /\ Before(h[q], s) /\ Before(h[q], p)
  <2>1. Increasing(h[q]) /\ Increasing(s \o p) /\ Before(h[q], s \o p)
    BY <1>1, <1>2, JoinIs DEF Kept
  <2>2. Increasing(s) /\ Increasing(p) /\ Before(s, p)
    BY <2>1, JoinIs
  <2> QED BY <1>2, <2>1, <2>2 DEF Before
<1>4. ASSUME NEW q \in Readers PROVE Increasing(g[q] \o p)
  <2>1. CASE q = r
    <3>1. Increasing(g[r]) /\ Before(g[r], p)
      <4>1. Increasing(g[r])
        BY <1>1, <1>3, JoinIs
      <4>2. Before(g[r], p)
        BY <1>2, <1>3 DEF Before
      <4> QED BY <4>1, <4>2
    <3> QED BY <1>2, <1>3, <2>1, <3>1, JoinIs
  <2>2. CASE q # r
    BY <1>1, <1>3, <2>2, JoinIs
  <2> QED BY <2>1, <2>2
<1>5. (UNION {ToSet(g[q]) : q \in Readers}) \cup ToSet(p) = 1 .. n
  <2>1. UNION {ToSet(g[q]) : q \in Readers} = (UNION {ToSet(h[q]) : q \in Readers}) \cup ToSet(s)
    <3>1. ASSUME NEW x, x \in UNION {ToSet(g[q]) : q \in Readers}
          PROVE  x \in (UNION {ToSet(h[q]) : q \in Readers}) \cup ToSet(s)
      <4>1. PICK q \in Readers : x \in ToSet(g[q])
        BY <3>1
      <4> QED BY <1>1, <1>2, <4>1
    <3>2. ASSUME NEW x, x \in (UNION {ToSet(h[q]) : q \in Readers}) \cup ToSet(s)
          PROVE  x \in UNION {ToSet(g[q]) : q \in Readers}
      <4>1. CASE x \in ToSet(s)
        BY <1>2, <4>1
      <4>2. CASE \E q \in Readers : x \in ToSet(h[q])
        <5>1. PICK q \in Readers : x \in ToSet(h[q])
          BY <4>2
        <5>2. x \in ToSet(g[q])
          BY <1>1, <1>2, <5>1
        <5> QED BY <5>2
      <4> QED BY <3>2, <4>1, <4>2
    <3> QED BY <3>1, <3>2
  <2> QED BY <1>2, <2>1 DEF Kept
<1>6. ASSUME NEW a \in Readers, NEW b \in Readers, a # b
      PROVE  ToSet(g[a]) \cap ToSet(g[b]) = {}
  <2>1. ToSet(h[a]) \cap ToSet(h[b]) = {}
    BY <1>6 DEF Kept
  <2>2. \A q \in Readers : ToSet(h[q]) \cap ToSet(s) = {}
    <3> SUFFICES ASSUME NEW q \in Readers, NEW x \in ToSet(h[q]), x \in ToSet(s) PROVE FALSE
      OBVIOUS
    <3>1. x < x
      BY <1>3 DEF Before
    <3>2. x \in Nat
      BY LenProperties DEF ToSet
    <3> QED BY <3>1, <3>2
  <2> QED BY <1>1, <1>2, <1>6, <2>1, <2>2
<1> QED BY <1>4, <1>5, <1>6 DEF Kept, g

(* A listing takes s, which the program held behind t.                     *)
LEMMA MovingKeeps ==
  ASSUME NEW h \in [Readers -> Seq(Nat)], NEW p \in Seq(Nat), NEW n, Kept(h, p, n),
         NEW t \in Seq(Nat), NEW s \in Seq(Nat), h["program"] = t \o s, Before(h["listing"], s),
         NEW g \in [Readers -> Seq(Nat)], g["program"] = t, g["listing"] = h["listing"] \o s,
         \A r \in Readers : r \notin {"program", "listing"} => g[r] = h[r]
  PROVE  Kept(g, p, n)
<1>1. /\ "program" \in Readers /\ "listing" \in Readers
      /\ \A r \in Readers : h[r] \in Seq(Nat) /\ g[r] \in Seq(Nat)
  BY DEF Readers
<1> DEFINE l == h["listing"]
           q == h["program"]
<1>2. /\ l \in Seq(Nat) /\ q \in Seq(Nat) /\ q = t \o s
      /\ g["program"] = t /\ g["listing"] = l \o s /\ l \o s \in Seq(Nat) /\ Before(l, s)
      /\ Increasing(q \o p) /\ Increasing(l \o p)
      /\ ToSet(l) \cap ToSet(q) = {}
  BY <1>1, JoinIs DEF Kept
<1> HIDE DEF l, q
<1>3. ToSet(q) = ToSet(t) \cup ToSet(s) /\ ToSet(l \o s) = ToSet(l) \cup ToSet(s)
  BY <1>2, JoinIs
<1>4. /\ Increasing(t) /\ Increasing(s) /\ Before(t, s)
      /\ Increasing(p) /\ Before(t, p) /\ Before(s, p)
      /\ Increasing(l) /\ Before(l, p)
  <2>1. Increasing(q) /\ Increasing(p) /\ Before(q, p) /\ Increasing(l) /\ Before(l, p)
    BY <1>2, JoinIs
  <2>2. Increasing(t) /\ Increasing(s) /\ Before(t, s)
    BY <1>2, <2>1, JoinIs
  <2> QED BY <1>3, <2>1, <2>2 DEF Before
<1>5. ASSUME NEW r \in Readers PROVE Increasing(g[r] \o p)
  <2>1. CASE r = "program"
    BY <1>2, <1>4, <2>1, JoinIs
  <2>2. CASE r = "listing"
    <3>1. Increasing(l \o s)
      BY <1>2, <1>4, JoinIs
    <3>2. Before(l \o s, p)
      BY <1>3, <1>4 DEF Before
    <3> QED BY <1>2, <1>4, <2>2, <3>1, <3>2, JoinIs
  <2>3. CASE r \notin {"program", "listing"}
    BY <2>3 DEF Kept
  <2> QED BY <2>1, <2>2, <2>3
<1>6. UNION {ToSet(g[r]) : r \in Readers} = UNION {ToSet(h[r]) : r \in Readers}
  <2>1. ASSUME NEW r \in Readers, NEW x \in ToSet(g[r])
        PROVE  \E b \in Readers : x \in ToSet(h[b])
    BY <1>1, <1>2, <1>3 DEF l, q
  <2>2. ASSUME NEW r \in Readers, NEW x \in ToSet(h[r])
        PROVE  \E b \in Readers : x \in ToSet(g[b])
    BY <1>1, <1>2, <1>3 DEF l, q
  <2> QED BY <2>1, <2>2
<1>7. \A x \in ToSet(t) : x \notin ToSet(s)
  <2> SUFFICES ASSUME NEW x \in ToSet(t), x \in ToSet(s) PROVE FALSE
    OBVIOUS
  <2>1. x < x
    BY <1>4 DEF Before
  <2>2. x \in Nat
    BY LenProperties DEF ToSet
  <2> QED BY <2>1, <2>2
<1>8. ASSUME NEW r \in Readers, r \notin {"program", "listing"}
      PROVE  ToSet(g[r]) \cap ToSet(l) = {} /\ ToSet(g[r]) \cap ToSet(q) = {}
  BY <1>1, <1>8 DEF Kept, l, q
<1>9. ASSUME NEW a \in Readers, NEW b \in Readers, a # b
      PROVE  ToSet(g[a]) \cap ToSet(g[b]) = {}
  <2>1. CASE a \notin {"program", "listing"} /\ b \notin {"program", "listing"}
    BY <1>9, <2>1 DEF Kept
  <2>2. CASE a \in {"program", "listing"} /\ b \in {"program", "listing"}
    <3>1. ToSet(t) \cap ToSet(l \o s) = {}
      BY <1>2, <1>3, <1>7
    <3>2. (a = "program" /\ b = "listing") \/ (a = "listing" /\ b = "program")
      BY <1>9, <2>2
    <3> QED BY <1>2, <3>1, <3>2
  <2>3. CASE a \in {"program", "listing"} /\ b \notin {"program", "listing"}
    BY <1>2, <1>3, <1>8, <2>3
  <2>4. CASE a \notin {"program", "listing"} /\ b \in {"program", "listing"}
    BY <1>2, <1>3, <1>8, <2>4
  <2> QED BY <2>1, <2>2, <2>3, <2>4
<1> QED BY <1>5, <1>6, <1>9 DEF Kept

(* Something more is typed.                                                *)
LEMMA TypingKeeps ==
  ASSUME NEW h \in [Readers -> Seq(Nat)], NEW p \in Seq(Nat), NEW n \in Nat, Kept(h, p, n)
  PROVE  Kept(h, Append(p, n + 1), n + 1)
<1>1. Append(p, n + 1) = p \o <<n + 1>> /\ <<n + 1>> \in Seq(Nat)
  BY AppendIsConcat
<1>2. ToSet(<<n + 1>>) = {n + 1}
  BY DEF ToSet
<1>3. Increasing(<<n + 1>>)
  BY DEF Increasing
<1>4. \A x \in 1 .. n : x < n + 1
  OBVIOUS
<1>5. ToSet(p) \subseteq 1 .. n /\ \A r \in Readers : ToSet(h[r]) \subseteq 1 .. n
  BY DEF Kept
<1>6. /\ p \o <<n + 1>> \in Seq(Nat)
      /\ ToSet(p \o <<n + 1>>) = ToSet(p) \cup {n + 1}
  BY <1>1, <1>2, JoinIs
<1>7. ASSUME NEW r \in Readers PROVE Increasing(h[r] \o Append(p, n + 1))
  <2>1. h[r] \in Seq(Nat) /\ Increasing(h[r]) /\ Increasing(p) /\ Before(h[r], p)
    BY JoinIs DEF Kept
  <2>2. Before(p, <<n + 1>>)
    BY <1>2, <1>4, <1>5 DEF Before
  <2>3. Increasing(p \o <<n + 1>>)
    BY <1>1, <1>3, <2>1, <2>2, JoinIs
  <2>4. Before(h[r], p \o <<n + 1>>)
    BY <1>4, <1>5, <1>6, <2>1 DEF Before
  <2> QED BY <1>1, <1>6, <2>1, <2>3, <2>4, JoinIs
<1>8. 1 .. n + 1 = (1 .. n) \cup {n + 1}
  OBVIOUS
<1> QED BY <1>1, <1>6, <1>7, <1>8 DEF Kept

(***************************************************************************)
(* The invariant and the readers                                           *)
(***************************************************************************)
Held ==
  [r \in Readers |-> IF r = "monitor" THEN taken.monitor \o file
                     ELSE IF r = "program" THEN taken.program \o Staged
                     ELSE taken[r]]

LEMMA HeldIs ==
  /\ Held["monitor"] = taken.monitor \o file
  /\ Held["assembler"] = taken.assembler
  /\ Held["program"] = taken.program \o Staged
  /\ Held["listing"] = taken.listing
  BY DEF Held, Readers

InputType ==
  /\ typed \in Nat /\ pipe \in Seq(Nat) /\ file \in Seq(Nat) /\ staged \in Nat
  /\ taken \in [Readers -> Seq(Nat)]

(* What a listing took was typed before what io_peek holds.                *)
InputInv == InputType /\ Kept(Held, pipe, typed) /\ Before(taken.listing, Staged)

LEMMA InvIsKept == InputInv => InputKept
<1> SUFFICES ASSUME InputInv PROVE InputKept
  OBVIOUS
<1> DEFINE held == [monitor   |-> taken.monitor \o file,
                    assembler |-> taken.assembler,
                    program   |-> taken.program \o Staged,
                    listing   |-> taken.listing]
<1>1. \A r \in Readers : held[r] = Held[r]
  <2>1. /\ held["monitor"] = taken.monitor \o file
        /\ held["assembler"] = taken.assembler
        /\ held["program"] = taken.program \o Staged
        /\ held["listing"] = taken.listing
    OBVIOUS
  <2> HIDE DEF held
  <2> QED BY <2>1, HeldIs DEF Readers
<1> HIDE DEF held
<1>2. /\ \A r \in Readers : Increasing(held[r] \o pipe)
      /\ (UNION {ToSet(held[r]) : r \in Readers}) \cup ToSet(pipe) = 1 .. typed
      /\ \A r, q \in Readers : r # q => ToSet(held[r]) \cap ToSet(held[q]) = {}
  <2>1. {ToSet(held[r]) : r \in Readers} = {ToSet(Held[r]) : r \in Readers}
    BY <1>1
  <2> QED BY <1>1, <2>1 DEF InputInv, Kept
<1> QED BY <1>2 DEF InputKept, held

LEMMA StagedType == ASSUME InputType PROVE Staged \in Seq(Nat)
  BY DEF InputType, Staged

LEMMA HeldType == ASSUME InputType PROVE Held \in [Readers -> Seq(Nat)]
<1>1. /\ taken.monitor \in Seq(Nat) /\ taken.program \in Seq(Nat)
      /\ \A r \in Readers : taken[r] \in Seq(Nat)
      /\ file \in Seq(Nat) /\ Staged \in Seq(Nat)
  BY StagedType DEF InputType, Readers
<1>2. taken.monitor \o file \in Seq(Nat) /\ taken.program \o Staged \in Seq(Nat)
  BY <1>1, ConcatProperties
<1> QED BY <1>1, <1>2 DEF Held

LEMMA Regroup ==
  ASSUME NEW t \in Seq(Nat), NEW s \in Seq(Nat), NEW x \in Nat
  PROVE  Append(t, x) \o s = t \o (<<x>> \o s)
<1>1. Append(t, x) = t \o <<x>> /\ <<x>> \in Seq(Nat)
  BY AppendIsConcat
<1> QED BY <1>1, ConcatAssociative

LEMMA Cut ==
  ASSUME NEW p \in Seq(Nat), p # <<>>, NEW n \in 1 .. Len(p)
  PROVE  /\ SubSeq(p, 1, n) \in Seq(Nat) /\ SubSeq(p, 2, n) \in Seq(Nat)
         /\ SubSeq(p, n + 1, Len(p)) \in Seq(Nat)
         /\ SubSeq(p, 1, n) = <<Head(p)>> \o SubSeq(p, 2, n)
         /\ p = SubSeq(p, 1, n) \o SubSeq(p, n + 1, Len(p))
         /\ Head(p) \in Nat
<1>1. Len(p) \in Nat /\ \A i \in 1 .. Len(p) : p[i] \in Nat
  BY LenProperties
<1>2. Head(p) = p[1] /\ Head(p) \in Nat
  BY <1>1, HeadTailProperties
<1>3. SubSeq(p, 1, n) \in Seq(Nat)
  BY <1>1, SubSeqProperties
<1>4. SubSeq(p, 2, n) \in Seq(Nat)
  BY <1>1, SubSeqProperties
<1>5. SubSeq(p, n + 1, Len(p)) \in Seq(Nat)
  BY <1>1, SubSeqProperties
<1>6. SubSeq(p, 1, n) = <<p[1]>> \o SubSeq(p, 2, n)
  <2>1. 1 \in 1 .. Len(p) /\ n \in 1 .. Len(p) /\ 1 + 1 = 2
    BY <1>1
  <2> QED BY <2>1, SubSeqRecursiveFirst
<1>7. SubSeq(p, 1, n) \o SubSeq(p, n + 1, Len(p)) = SubSeq(p, 1, Len(p))
  <2>1. 1 \in 1 .. Len(p) + 1 /\ n \in 1 - 1 .. Len(p) /\ Len(p) \in n .. Len(p)
    BY <1>1
  <2> QED BY <2>1, ConcatAdjacentSubSeq
<1>8. SubSeq(p, 1, Len(p)) = p
  BY SubSeqFull
<1> QED BY <1>2, <1>3, <1>4, <1>5, <1>6, <1>7, <1>8

LEMMA Behead ==
  ASSUME NEW p \in Seq(Nat), p # <<>>
  PROVE  Head(p) \in Nat /\ Tail(p) \in Seq(Nat) /\ p = <<Head(p)>> \o Tail(p)
<1>1. Head(p) \in Nat /\ Tail(p) \in Seq(Nat) /\ Tail(p) = SubSeq(p, 2, Len(p))
  BY HeadTailProperties, TailIsSubSeq
<1>2. Len(p) \in 1 .. Len(p)
  BY LenProperties, EmptySeq
<1>3. SubSeq(p, 1, Len(p)) = <<Head(p)>> \o SubSeq(p, 2, Len(p))
  BY <1>2, Cut
<1> QED BY <1>1, <1>3, SubSeqFull

LEMMA TakeStep ==
  ASSUME InputInv, InputType', typed' = typed,
         NEW r \in Readers, NEW s \in Seq(Nat), pipe = s \o pipe',
         Held' = [Held EXCEPT ![r] = @ \o s], Before(taken'.listing, Staged')
  PROVE  InputInv'
<1>1. Held \in [Readers -> Seq(Nat)] /\ pipe' \in Seq(Nat)
  BY HeldType DEF InputInv, InputType
<1>2. Kept([Held EXCEPT ![r] = @ \o s], pipe', typed)
  BY <1>1, TakingKeeps DEF InputInv
<1> QED BY <1>2 DEF InputInv

LEMMA PassStep ==
  ASSUME InputInv, InputType', typed' = typed, pipe' = pipe, Held' = Held,
         Before(taken'.listing, Staged')
  PROVE  InputInv'
  BY DEF InputInv

(* Held, from what becomes of its three entries.                           *)
LEMMA HeldMoves ==
  ASSUME NEW r \in Readers, NEW s,
         taken'.monitor \o file' = IF r = "monitor" THEN (taken.monitor \o file) \o s
                                   ELSE taken.monitor \o file,
         taken'.assembler = IF r = "assembler" THEN taken.assembler \o s ELSE taken.assembler,
         taken'.program \o Staged' = IF r = "program" THEN (taken.program \o Staged) \o s
                                     ELSE taken.program \o Staged,
         taken'.listing = IF r = "listing" THEN taken.listing \o s ELSE taken.listing
  PROVE  Held' = [Held EXCEPT ![r] = @ \o s]
  BY DEF Held, Readers

LEMMA HeldStays ==
  ASSUME taken'.monitor \o file' = taken.monitor \o file,
         taken'.assembler = taken.assembler,
         taken'.program \o Staged' = taken.program \o Staged,
         taken'.listing = taken.listing
  PROVE  Held' = Held
  BY DEF Held, Readers

LEMMA GiveIs ==
  ASSUME InputType, NEW r \in Readers, NEW x \in Nat, Give(r, x)
  PROVE  /\ taken' \in [Readers -> Seq(Nat)]
         /\ taken'[r] = Append(taken[r], x)
         /\ \A q \in Readers : q # r => taken'[q] = taken[q]
  BY AppendProperties DEF InputType, Give

LEMMA UserKeepsInput ==
  ASSUME InputInv, Type \/ Close \/ CtrlC \/ UNCHANGED console
  PROVE  InputInv'
<1>1. CASE Type
  <2>1. /\ typed' = typed + 1 /\ pipe' = Append(pipe, typed + 1)
        /\ UNCHANGED <<file, staged, taken>>
    BY <1>1 DEF Type
  <2>2. InputType'
    BY <2>1, AppendProperties DEF InputInv, InputType
  <2>3. Held' = Held /\ Staged' = Staged
    BY <2>1 DEF Held, Staged
  <2>4. Kept(Held, Append(pipe, typed + 1), typed + 1)
    BY HeldType, TypingKeeps DEF InputInv, InputType
  <2> QED BY <2>1, <2>2, <2>3, <2>4 DEF InputInv
<1>2. CASE Close \/ CtrlC \/ UNCHANGED console
  <2>1. UNCHANGED <<typed, pipe, file, staged, taken>>
    BY <1>2 DEF Close, CtrlC, console, input
  <2> QED BY <2>1 DEF InputInv, InputType, Held, Staged
<1> QED BY <1>1, <1>2

LEMMA FGetsKeepsInput ==
  ASSUME InputInv, FGets
  PROVE  InputInv'
<1> DEFINE m == taken.monitor
<1>1. /\ m \in Seq(Nat) /\ file \in Seq(Nat) /\ pipe \in Seq(Nat) /\ "monitor" \in Readers
      /\ InputType
  BY DEF InputInv, InputType, Readers
<1>2. CASE file # <<>>
  <2>1. /\ Give("monitor", Head(file)) /\ file' = Tail(file)
        /\ UNCHANGED <<typed, pipe, staged>>
    BY <1>2 DEF FGets
  <2>2. Head(file) \in Nat /\ Tail(file) \in Seq(Nat) /\ file = <<Head(file)>> \o Tail(file)
    BY <1>1, <1>2, Behead
  <2>3. /\ taken' \in [Readers -> Seq(Nat)] /\ taken'.monitor = Append(m, Head(file))
        /\ taken'.assembler = taken.assembler /\ taken'.program = taken.program
        /\ taken'.listing = taken.listing
    BY <1>1, <2>1, <2>2, GiveIs DEF Readers
  <2>4. taken'.monitor \o file' = m \o file
    <3>1. Append(m, Head(file)) \o Tail(file) = m \o (<<Head(file)>> \o Tail(file))
      BY <1>1, <2>2, Regroup
    <3> QED BY <2>1, <2>2, <2>3, <3>1
  <2>5. Held' = Held
    BY <2>1, <2>3, <2>4, HeldStays DEF Staged
  <2>6. InputType'
    BY <2>1, <2>2, <2>3 DEF InputInv, InputType
  <2>7. Before(taken'.listing, Staged')
    BY <2>1, <2>3 DEF InputInv, Staged
  <2> QED BY <2>1, <2>5, <2>6, <2>7, PassStep
<1>3. CASE file = <<>>
  <2>1. PICK n \in 1 .. Len(pipe) :
          /\ pipe # <<>> /\ Give("monitor", Head(pipe))
          /\ file' = SubSeq(pipe, 2, n) /\ pipe' = SubSeq(pipe, n + 1, Len(pipe))
          /\ UNCHANGED <<typed, staged>>
    BY <1>3 DEF FGets
  <2> DEFINE s == SubSeq(pipe, 1, n)
  <2>2. /\ s \in Seq(Nat) /\ file' \in Seq(Nat) /\ pipe' \in Seq(Nat)
        /\ s = <<Head(pipe)>> \o file' /\ pipe = s \o pipe' /\ Head(pipe) \in Nat
    BY <1>1, <2>1, Cut
  <2> HIDE DEF s
  <2>3. /\ taken' \in [Readers -> Seq(Nat)] /\ taken'.monitor = Append(m, Head(pipe))
        /\ taken'.assembler = taken.assembler /\ taken'.program = taken.program
        /\ taken'.listing = taken.listing
    BY <1>1, <2>1, <2>2, GiveIs DEF Readers
  <2>4. taken'.monitor \o file' = m \o s
    <3>1. Append(m, Head(pipe)) \o file' = m \o (<<Head(pipe)>> \o file')
      BY <1>1, <2>2, Regroup
    <3> QED BY <2>2, <2>3, <3>1
  <2>5. m \o file = m
    BY <1>1, <1>3, ConcatEmptySeq
  <2>6. Held' = [Held EXCEPT !["monitor"] = @ \o s]
    BY <1>1, <2>1, <2>3, <2>4, <2>5, HeldMoves DEF Staged
  <2>7. InputType'
    BY <2>1, <2>2, <2>3 DEF InputInv, InputType
  <2>8. Before(taken'.listing, Staged')
    BY <2>1, <2>3 DEF InputInv, Staged
  <2> QED BY <1>1, <2>1, <2>2, <2>6, <2>7, <2>8, TakeStep
<1> QED BY <1>2, <1>3

(* A reader that takes one from the pipe.                                  *)
LEMMA OneTaken ==
  ASSUME InputInv, NEW r \in {"assembler", "program", "listing"}, pipe # <<>>,
         Give(r, Head(pipe)), pipe' = Tail(pipe), UNCHANGED <<typed, file, staged>>,
         r # "assembler" => staged = NoChar
  PROVE  InputInv'
<1> DEFINE s == <<Head(pipe)>>
<1>1. /\ pipe \in Seq(Nat) /\ r \in Readers /\ InputType
      /\ \A q \in Readers : taken[q] \in Seq(Nat)
  BY DEF InputInv, InputType, Readers
<1>2. s \in Seq(Nat) /\ Head(pipe) \in Nat /\ pipe' \in Seq(Nat) /\ pipe = s \o pipe'
  BY <1>1, Behead
<1>3. /\ taken' \in [Readers -> Seq(Nat)] /\ taken'[r] = Append(taken[r], Head(pipe))
      /\ \A q \in Readers : q # r => taken'[q] = taken[q]
  BY <1>1, <1>2, GiveIs
<1>4. Append(taken[r], Head(pipe)) = taken[r] \o s
  BY <1>1, <1>2, AppendIsConcat
<1> HIDE DEF s
<1>5. Held' = [Held EXCEPT ![r] = @ \o s]
  <2>1. CASE r = "assembler"
    <3>1. /\ taken'.monitor = taken.monitor /\ taken'.program = taken.program
          /\ taken'.assembler = taken.assembler \o s /\ taken'.listing = taken.listing
      BY <1>3, <1>4, <2>1 DEF Readers
    <3> QED BY <1>1, <2>1, <3>1, HeldMoves DEF Staged
  <2>2. CASE r = "program"
    <3>1. /\ taken'.monitor = taken.monitor /\ taken'.assembler = taken.assembler
          /\ taken'.program = taken.program \o s /\ taken'.listing = taken.listing
      BY <1>3, <1>4, <2>2 DEF Readers
    <3>2. Staged = <<>> /\ Staged' = <<>>
      BY <2>2 DEF Staged
    <3>3. taken.program \in Seq(Nat) /\ taken'.program \in Seq(Nat)
      BY <1>1, <1>3 DEF Readers
    <3>4. taken.program \o <<>> = taken.program /\ taken'.program \o <<>> = taken'.program
      BY <3>3, ConcatEmptySeq
    <3> QED BY <1>1, <2>2, <3>1, <3>2, <3>4, HeldMoves
  <2>3. CASE r = "listing"
    <3>1. /\ taken'.monitor = taken.monitor /\ taken'.assembler = taken.assembler
          /\ taken'.program = taken.program /\ taken'.listing = taken.listing \o s
      BY <1>3, <1>4, <2>3 DEF Readers
    <3> QED BY <1>1, <2>3, <3>1, HeldMoves DEF Staged
  <2> QED BY <2>1, <2>2, <2>3
<1>6. InputType'
  BY <1>2, <1>3 DEF InputInv, InputType
<1>7. Before(taken'.listing, Staged')
  <2>1. CASE r = "assembler"
    <3>1. taken'.listing = taken.listing /\ Staged' = Staged
      BY <1>3, <2>1 DEF Readers, Staged
    <3> QED BY <3>1 DEF InputInv
  <2>2. CASE r # "assembler"
    <3>1. Staged' = <<>>
      BY <2>2 DEF Staged
    <3> QED BY <3>1 DEF Before, ToSet
  <2> QED BY <2>1, <2>2
<1> QED BY <1>1, <1>2, <1>5, <1>6, <1>7, TakeStep

LEMMA ReadLineKeepsInput ==
  ASSUME InputInv, ReadLine
  PROVE  InputInv'
  BY OneTaken DEF ReadLine

LEMMA PeekKeepsInput ==
  ASSUME InputInv, NEW ready, Peek(ready)
  PROVE  InputInv'
<1>1. CASE staged = NoChar /\ pipe # <<>>
  <2>1. staged' = Head(pipe) /\ pipe' = Tail(pipe) /\ UNCHANGED <<typed, file, taken>>
    BY <1>1 DEF Peek
  <2> DEFINE s == <<Head(pipe)>>
  <2>2. /\ pipe \in Seq(Nat) /\ "program" \in Readers /\ taken.program \in Seq(Nat)
    BY DEF InputInv, InputType, Readers
  <2>3. s \in Seq(Nat) /\ Head(pipe) \in Nat /\ pipe' \in Seq(Nat) /\ pipe = s \o pipe'
    BY <1>1, <2>1, <2>2, Behead
  <2>4. staged' # NoChar
    <3>1. Head(pipe) \in ToSet(pipe)
      <4>1. 1 \in DOMAIN pipe /\ Head(pipe) = pipe[1]
        BY <1>1, <2>2, LenProperties, EmptySeq
      <4> QED BY <4>1 DEF ToSet
    <3>2. Head(pipe) \in 1 .. typed
      BY <3>1 DEF InputInv, Kept
    <3> QED BY <2>1, <3>2 DEF NoChar
  <2>5. Staged = <<>> /\ Staged' = s
    BY <1>1, <2>1, <2>4 DEF Staged
  <2> HIDE DEF s
  <2>6. taken.program \o <<>> = taken.program
    BY <2>2, ConcatEmptySeq
  <2>7. Held' = [Held EXCEPT !["program"] = @ \o s]
    BY <2>1, <2>2, <2>5, <2>6, HeldMoves
  <2>8. InputType'
    BY <2>1, <2>3 DEF InputInv, InputType
  <2>9. Before(taken'.listing, Staged')
    <3>1. taken.listing \in Seq(Nat) /\ Increasing(Held["listing"] \o pipe)
      BY DEF InputInv, InputType, Kept, Readers
    <3>2. Before(taken.listing, pipe)
      BY <2>2, <3>1, HeldIs, JoinIs
    <3>3. ToSet(s) = {Head(pipe)}
      BY DEF s, ToSet
    <3>4. Head(pipe) \in ToSet(pipe)
      <4>1. 1 \in DOMAIN pipe /\ Head(pipe) = pipe[1]
        BY <1>1, <2>2, LenProperties, EmptySeq
      <4> QED BY <4>1 DEF ToSet
    <3>5. taken' = taken
      BY <2>1
    <3> QED BY <2>5, <3>2, <3>3, <3>4, <3>5 DEF Before
  <2> QED BY <2>1, <2>2, <2>3, <2>7, <2>8, <2>9, TakeStep
<1>2. CASE ~(staged = NoChar /\ pipe # <<>>)
  BY <1>2, UserKeepsInput DEF Peek
<1> QED BY <1>1, <1>2

LEMMA GetCharKeepsInput ==
  ASSUME InputInv, NEW r \in {"program", "listing"}, NEW some, GetChar(r, some)
  PROVE  InputInv'
<1>1. CASE /\ staged # NoChar /\ Give("program", staged) /\ staged' = NoChar
           /\ UNCHANGED <<typed, pipe, file>> /\ r = "program"
  <2>1. staged \in Nat /\ taken.program \in Seq(Nat) /\ "program" \in Readers /\ InputType
    BY DEF InputInv, InputType, Readers
  <2>2. /\ taken' \in [Readers -> Seq(Nat)] /\ taken'.program = Append(taken.program, staged)
        /\ taken'.monitor = taken.monitor /\ taken'.assembler = taken.assembler
        /\ taken'.listing = taken.listing
    BY <1>1, <2>1, GiveIs DEF Readers
  <2>3. Staged = <<staged>> /\ Staged' = <<>>
    BY <1>1 DEF Staged
  <2>4. taken'.program \o <<>> = taken.program \o <<staged>>
    BY <2>1, <2>2, AppendIsConcat, AppendProperties, ConcatEmptySeq
  <2>5. Held' = Held
    BY <1>1, <2>2, <2>3, <2>4, HeldStays
  <2>6. InputType'
    BY <1>1, <2>2 DEF InputInv, InputType, NoChar
  <2>7. Before(taken'.listing, Staged')
    BY <2>3 DEF Before, ToSet
  <2> QED BY <1>1, <2>5, <2>6, <2>7, PassStep
<1>2. CASE /\ staged # NoChar /\ Give("listing", staged) /\ staged' = NoChar
           /\ UNCHANGED <<typed, pipe, file>> /\ r = "listing"
  <2>1. /\ staged \in Nat /\ taken.program \in Seq(Nat) /\ taken.listing \in Seq(Nat)
        /\ "listing" \in Readers /\ "program" \in Readers /\ InputType /\ pipe \in Seq(Nat)
    BY DEF InputInv, InputType, Readers
  <2>2. /\ taken' \in [Readers -> Seq(Nat)] /\ taken'.listing = Append(taken.listing, staged)
        /\ taken'.monitor = taken.monitor /\ taken'.assembler = taken.assembler
        /\ taken'.program = taken.program
    BY <1>2, <2>1, GiveIs DEF Readers
  <2>3. Staged = <<staged>> /\ Staged' = <<>> /\ <<staged>> \in Seq(Nat)
    BY <1>2, <2>1 DEF Staged
  <2>4. taken.program \o <<>> = taken.program /\ taken'.listing = taken.listing \o <<staged>>
    <3>1. taken.program \o <<>> = taken.program
      BY <2>1, ConcatEmptySeq
    <3>2. Append(taken.listing, staged) = taken.listing \o <<staged>>
      BY <2>1, AppendIsConcat
    <3> QED BY <2>2, <3>1, <3>2
  <2>5. InputType'
    BY <1>2, <2>2 DEF InputInv, InputType, NoChar
  <2>6. Held \in [Readers -> Seq(Nat)] /\ Held' \in [Readers -> Seq(Nat)]
    <3>1. taken'.listing \in Seq(Nat)
      BY <2>2 DEF Readers
    <3>2. Held' = [Held EXCEPT !["program"] = taken.program, !["listing"] = taken'.listing]
      BY <1>2, <2>1, <2>2, <2>3, <2>4 DEF Held, Readers
    <3> QED BY <2>1, <3>1, <3>2, HeldType
  <2>7. /\ Held["program"] = taken.program \o <<staged>>
        /\ Held["listing"] = taken.listing
        /\ Held'["program"] = taken.program
        /\ Held'["listing"] = Held["listing"] \o <<staged>>
        /\ \A q \in Readers : q \notin {"program", "listing"} => Held'[q] = Held[q]
    BY <1>2, <2>2, <2>3, <2>4 DEF Held, Readers
  <2>8. Before(Held["listing"], <<staged>>)
    BY <2>3, <2>7 DEF InputInv
  <2>9. Kept(Held', pipe, typed)
    <3>1. Kept(Held, pipe, typed)
      BY DEF InputInv
    <3> QED BY <2>1, <2>3, <2>6, <2>7, <2>8, <3>1, MovingKeeps
  <2>10. Before(taken'.listing, Staged')
    BY <2>3 DEF Before, ToSet
  <2> QED BY <1>2, <2>5, <2>9, <2>10 DEF InputInv
<1>3. CASE /\ staged = NoChar /\ pipe # <<>> /\ Give(r, Head(pipe)) /\ pipe' = Tail(pipe)
           /\ UNCHANGED <<typed, file, staged>>
  BY <1>3, OneTaken
<1>4. CASE UNCHANGED console
  BY <1>4, UserKeepsInput
<1> QED BY <1>1, <1>2, <1>3, <1>4 DEF GetChar

LEMMA InputStarts == ConsoleInit => InputInv
<1> SUFFICES ASSUME ConsoleInit PROVE InputInv
  OBVIOUS
<1>1. /\ typed = 0 /\ pipe = <<>> /\ file = <<>> /\ staged = NoChar
      /\ taken = [r \in Readers |-> <<>>]
  BY DEF ConsoleInit
<1>2. InputType
  BY <1>1 DEF InputType, NoChar
<1>3. \A r \in Readers : Held[r] = <<>>
  <2>1. /\ taken.monitor = <<>> /\ taken.assembler = <<>> /\ taken.program = <<>>
        /\ taken.listing = <<>> /\ Staged = <<>> /\ <<>> \o <<>> = <<>>
    BY <1>1, ConcatEmptySeq, EmptySeq DEF Readers, Staged
  <2> QED BY <1>1, <2>1, HeldIs DEF Readers
<1>4. <<>> \o <<>> = <<>>
  BY ConcatEmptySeq, EmptySeq
<1>5. ToSet(<<>>) = {} /\ Increasing(<<>>)
  BY DEF ToSet, Increasing
<1>6. 1 .. 0 = {}
  OBVIOUS
<1>7. Kept(Held, pipe, typed)
  BY <1>1, <1>3, <1>4, <1>5, <1>6 DEF Kept
<1>8. Before(taken.listing, Staged)
  <2>1. taken.listing = <<>>
    BY <1>1 DEF Readers
  <2> QED BY <1>5, <2>1 DEF Before
<1> QED BY <1>2, <1>7, <1>8 DEF InputInv

(***************************************************************************)
(* The break flag                                                          *)
(***************************************************************************)
FlagInv ==
  /\ pending \in BOOLEAN /\ pressed \in Nat /\ told \in Nat
  /\ BreaksOnce

FlagStep ==
  \/ UNCHANGED break
  \/ pending' = TRUE /\ pressed' = pressed + 1 /\ told' = told
  \/ \E seen : ReadBreak(seen)

LEMMA ReadersLeaveFlag ==
  /\ FGets => UNCHANGED break
  /\ ReadLine => UNCHANGED break
  /\ \A b : Peek(b) => UNCHANGED break
  /\ \A r, b : GetChar(r, b) => UNCHANGED break
  BY DEF FGets, ReadLine, Peek, GetChar, PeekEnds, break, console

LEMMA DeviceIs ==
  ASSUME NEW r, NEW a, NEW v, Device(r, a, v)
  PROVE  \/ a = IO_IN_STAT /\ Status(v)
         \/ a = IO_IN_DATA /\ GetChar(r, v) /\ running' = running
         \/ a = IO_BRK /\ ReadBreak(v) /\ running' = running
         \/ /\ a \notin Registers
            /\ UNCHANGED <<running, console>>
<1>1. CASE a = IO_IN_STAT
  BY <1>1 DEF Device
<1>2. CASE a = IO_IN_DATA
  BY <1>2 DEF Device, IO_IN_STAT, IO_IN_DATA
<1>3. CASE a = IO_BRK
  BY <1>3 DEF Device, IO_IN_STAT, IO_IN_DATA, IO_BRK
<1>4. CASE a \notin {IO_IN_STAT, IO_IN_DATA, IO_BRK}
  BY <1>4 DEF Device, Registers
<1> QED BY <1>1, <1>2, <1>3, <1>4

LEMMA DeviceFlag ==
  ASSUME NEW r, NEW a, NEW v, Device(r, a, v)
  PROVE  FlagStep
<1>1. CASE Status(v)
  BY <1>1, ReadersLeaveFlag DEF Status, FlagStep
<1>2. CASE GetChar(r, v)
  BY <1>2, ReadersLeaveFlag DEF FlagStep
<1>3. CASE ReadBreak(v)
  BY <1>3 DEF FlagStep
<1>4. CASE UNCHANGED <<running, console>>
  BY <1>4 DEF FlagStep, console, break
<1> QED BY <1>1, <1>2, <1>3, <1>4, DeviceIs

LEMMA ExecuteFlag == Execute => FlagStep
<1> SUFFICES ASSUME Execute PROVE FlagStep
  OBVIOUS
<1> DEFINE i == Fetch(pc)
<1>1. Does(i)
  BY DEF Execute
<1>2. CASE i.op = "lda"
  <2>1. Device("program", i.arg, acc')
    BY <1>1, <1>2 DEF Does
  <2> QED BY <2>1, DeviceFlag
<1>3. CASE i.op # "lda"
  BY <1>1, <1>3 DEF Does, FlagStep, console, break
<1> QED BY <1>2, <1>3

LEMMA CommandsLeaveFlag == Commands => UNCHANGED break
<1>1. Command => UNCHANGED break
  BY ReadersLeaveFlag DEF Command
<1>2. Quit => UNCHANGED break
  BY <1>1 DEF Quit, console, break
<1> QED
  BY <1>1, <1>2 DEF Commands, Step, Go, Set, Enter, Fill, LoadFile, StartAssembling, Break,
                    Unbreak, Watch, Unwatch, Interrupts, Reset, Show

LEMMA NextFlag == [Next]_vars => FlagStep
<1>1. Commands => FlagStep
  BY CommandsLeaveFlag DEF FlagStep
<1>2. EnterMonitor \/ StopAtBreakpoint \/ StopAtBrk \/ AssembleEnds => FlagStep
  BY DEF EnterMonitor, StopAtBreakpoint, StopAtBrk, AssembleEnds, console, break, FlagStep
<1>3. RunOne \/ StepOne => FlagStep
  BY ExecuteFlag DEF RunOne, StepOne
<1>4. Assemble => FlagStep
  BY ReadersLeaveFlag DEF Assemble, FlagStep
<1>5. User => FlagStep
  BY DEF User, Type, Close, CtrlC, break, FlagStep
<1>6. UNCHANGED vars => FlagStep
  BY DEF vars, console, break, FlagStep
<1>7. ListRegister => FlagStep
  BY DeviceFlag DEF ListRegister
<1> QED BY <1>1, <1>2, <1>3, <1>4, <1>5, <1>6, <1>7 DEF Next, Emulator

Unread == IF pending THEN 1 ELSE 0

LEMMA UnreadIs ==
  /\ pending = FALSE => Unread = 0
  /\ pending = TRUE => Unread = 1
  /\ Unread \in {0, 1}
  BY Zenon DEF Unread

LEMMA FlagKept == FlagInv /\ FlagStep => FlagInv'
<1> SUFFICES ASSUME FlagInv, FlagStep PROVE FlagInv'
  OBVIOUS
<1>1. /\ pressed \in Nat /\ told \in Nat /\ told + Unread <= pressed
      /\ pending = TRUE \/ pending = FALSE
  BY DEF FlagInv, BreaksOnce, Unread
<1>2. SUFFICES /\ pressed' \in Nat /\ told' \in Nat /\ told' + Unread' <= pressed'
               /\ pending' = TRUE \/ pending' = FALSE
  BY DEF FlagInv, BreaksOnce, Unread
<1>3. /\ pending' = FALSE => Unread' = 0
      /\ pending' = TRUE => Unread' = 1
      /\ Unread' \in {0, 1}
  BY Zenon DEF Unread
<1>4. CASE UNCHANGED break
  <2>1. Unread' = Unread /\ UNCHANGED <<pending, pressed, told>>
    BY <1>4, Zenon DEF break, Unread
  <2> QED BY <1>1, <2>1
<1>5. CASE pending' = TRUE /\ pressed' = pressed + 1 /\ told' = told
  BY <1>1, <1>3, <1>5, UnreadIs
<1>6. CASE \E seen : ReadBreak(seen)
  <2>1. /\ told' = IF pending THEN told + 1 ELSE told
        /\ pending' = FALSE
        /\ pressed' \in {pressed} \cup (pressed + 1 .. MaxPressed)
    BY <1>6 DEF ReadBreak
  <2>2. pressed' \in Nat /\ pressed' >= pressed
    BY <1>1, <2>1, ConsoleAssumption
  <2>3. told' = told + Unread
    <3>1. CASE pending = TRUE
      BY <2>1, <3>1, UnreadIs
    <3>2. CASE pending = FALSE
      BY <2>1, <3>2, UnreadIs, <1>1
    <3> QED BY <1>1, <3>1, <3>2
  <2>4. Unread' = 0
    BY <2>1, <1>3
  <2> QED BY <1>1, <2>1, <2>2, <2>3, <2>4, UnreadIs
<1> QED BY <1>4, <1>5, <1>6 DEF FlagStep

LEMMA FlagStarts == Init => FlagInv
<1>1. Init => pending = FALSE /\ pressed = 0 /\ told = 0
  BY DEF Init, ConsoleInit
<1>2. FALSE \in BOOLEAN /\ 0 \in Nat /\ 0 + (IF FALSE THEN 1 ELSE 0) <= 0
  OBVIOUS
<1> QED BY <1>1, <1>2, Zenon DEF FlagInv, BreaksOnce

(* A Ctrl-C is read as pending once at most and never before it is         *)
(* pressed, wherever it falls between the two accesses of $F004:           *)
(* break_pending, main.c 135-136 and on_sigint.                            *)
THEOREM BreakReportedOnce == Spec => []BreaksOnce
<1>1. Init => FlagInv
  BY FlagStarts
<1>2. FlagInv /\ [Next]_vars => FlagInv'
  BY NextFlag, FlagKept
<1>3. FlagInv => BreaksOnce
  BY DEF FlagInv
<1> QED BY <1>1, <1>2, <1>3, PTL DEF Spec

(***************************************************************************)
(* Standard input                                                          *)
(***************************************************************************)
LEMMA DeviceKeepsInput ==
  ASSUME InputInv, NEW r \in {"program", "listing"}, NEW a, NEW v, Device(r, a, v)
  PROVE  InputInv'
<1>1. CASE Status(v)
  BY <1>1, PeekKeepsInput DEF Status
<1>2. CASE GetChar(r, v)
  BY <1>2, GetCharKeepsInput
<1>3. CASE ReadBreak(v)
  <2>1. UNCHANGED input
    BY <1>3 DEF ReadBreak
  <2> QED BY <2>1 DEF input, InputInv, InputType, Held, Staged
<1>4. CASE UNCHANGED console
  BY <1>4, UserKeepsInput
<1> QED BY <1>1, <1>2, <1>3, <1>4, DeviceIs

LEMMA ExecuteKeepsInput ==
  ASSUME InputInv, Execute
  PROVE  InputInv'
<1> DEFINE i == Fetch(pc)
<1>1. Does(i)
  BY DEF Execute
<1>2. CASE i.op = "lda"
  <2>1. Device("program", i.arg, acc')
    BY <1>1, <1>2 DEF Does
  <2> QED BY <2>1, DeviceKeepsInput
<1>3. CASE i.op # "lda"
  <2>1. UNCHANGED console
    BY <1>1, <1>3 DEF Does
  <2> QED BY <2>1, UserKeepsInput
<1> QED BY <1>2, <1>3

LEMMA NextKeepsInput == InputInv /\ [Next]_vars => InputInv'
<1> SUFFICES ASSUME InputInv, [Next]_vars PROVE InputInv'
  OBVIOUS
<1>1. CASE Commands
  <2>1. FGets \/ UNCHANGED console
    BY <1>1 DEF Commands, Command, Step, Go, Set, Enter, Fill, LoadFile, StartAssembling, Break,
                Unbreak, Watch, Unwatch, Interrupts, Reset, Show, Quit
  <2> QED BY <2>1, FGetsKeepsInput, UserKeepsInput
<1>2. CASE EnterMonitor \/ StopAtBreakpoint \/ StopAtBrk \/ AssembleEnds \/ UNCHANGED vars
  <2>1. UNCHANGED console
    BY <1>2 DEF EnterMonitor, StopAtBreakpoint, StopAtBrk, AssembleEnds, vars
  <2> QED BY <2>1, UserKeepsInput
<1>3. CASE RunOne \/ StepOne
  BY <1>3, ExecuteKeepsInput DEF RunOne, StepOne
<1>4. CASE Assemble
  BY <1>4, ReadLineKeepsInput DEF Assemble
<1>5. CASE User
  BY <1>5, UserKeepsInput DEF User
<1>6. CASE ListRegister
  BY <1>6, DeviceKeepsInput DEF ListRegister
<1> QED BY <1>1, <1>2, <1>3, <1>4, <1>5, <1>6 DEF Next, Emulator

(* Whatever is typed goes to one of the monitor, the inline assembler, the *)
(* program and a listing of the registers, once and in the order it was    *)
(* typed, or is still held: io_staged, the buffer of fgets and read_line,  *)
(* main.c 105-138, 544-557 and 643.  It is not that none is lost: what a   *)
(* listing takes nobody gets.                                              *)
THEOREM TypedGoesToOne == Spec => []InputKept
<1>1. Init => InputInv
  BY InputStarts DEF Init
<1> QED BY <1>1, NextKeepsInput, InvIsKept, PTL DEF Spec

(***************************************************************************)
(* The history ring                                                        *)
(***************************************************************************)
RingType ==
  /\ hist \in [0 .. HIST_SIZE - 1 -> Word]
  /\ head \in 0 .. HIST_SIZE - 1 /\ count \in 0 .. HIST_SIZE

(* Where show_history looks for its entry k.                               *)
Slot(h, n, k) == (h - n + k - 1 + HIST_SIZE) % HIST_SIZE

LEMMA Wraps ==
  ASSUME NEW x \in Int, 0 <= x, x < 2 * HIST_SIZE
  PROVE  x % HIST_SIZE = IF x < HIST_SIZE THEN x ELSE x - HIST_SIZE
  BY MonitorAssumption, Z3

LEMMA SlotIs ==
  ASSUME NEW h \in 0 .. HIST_SIZE - 1, NEW n \in 0 .. HIST_SIZE, NEW k \in 1 .. n
  PROVE  /\ Slot(h, n, k) = IF h - n + k - 1 < 0 THEN h - n + k - 1 + HIST_SIZE ELSE h - n + k - 1
         /\ Slot(h, n, k) \in 0 .. HIST_SIZE - 1
<1> DEFINE x == h - n + k - 1 + HIST_SIZE
<1>1. x \in Int /\ 0 <= x /\ x < 2 * HIST_SIZE
  BY MonitorAssumption
<1>2. Slot(h, n, k) = x % HIST_SIZE
  BY DEF Slot
<1>3. x = h - n + k - 1 + HIST_SIZE
  OBVIOUS
<1> HIDE DEF x
<1>4. Slot(h, n, k) = IF x < HIST_SIZE THEN x ELSE x - HIST_SIZE
  BY <1>1, <1>2, Wraps
<1> QED BY <1>1, <1>3, <1>4, MonitorAssumption

LEMMA Ahead ==
  ASSUME NEW h \in 0 .. HIST_SIZE - 1
  PROVE  (h + 1) % HIST_SIZE = IF h = HIST_SIZE - 1 THEN 0 ELSE h + 1
<1> DEFINE x == h + 1
<1>1. x \in Int /\ 0 <= x /\ x < 2 * HIST_SIZE
  BY MonitorAssumption
<1>2. x = h + 1
  OBVIOUS
<1> HIDE DEF x
<1>3. x % HIST_SIZE = IF x < HIST_SIZE THEN x ELSE x - HIST_SIZE
  BY <1>1, Wraps
<1> QED BY <1>2, <1>3, MonitorAssumption

LEMMA PushedKeepsRing ==
  ASSUME RingType, pc \in Word, Pushed
  PROVE  RingType'
<1>1. head' \in 0 .. HIST_SIZE - 1
  BY Ahead, MonitorAssumption DEF RingType, Pushed
<1>2. count' \in 0 .. HIST_SIZE
  BY MonitorAssumption DEF RingType, Pushed
<1>3. hist' \in [0 .. HIST_SIZE - 1 -> Word]
  BY DEF RingType, Pushed
<1> QED BY <1>1, <1>2, <1>3 DEF RingType

TrailListed ==
  /\ Trail \in Seq(Word) /\ Len(Trail) = count
  /\ \A k \in 1 .. count : Trail[k] = hist[Slot(head, count, k)]

LEMMA TrailIs == RingType => TrailListed
<1> SUFFICES ASSUME RingType PROVE TrailListed
  OBVIOUS
<1>1. Trail = [k \in 1 .. count |-> hist[Slot(head, count, k)]]
  BY DEF Trail, Slot
<1>2. \A k \in 1 .. count : hist[Slot(head, count, k)] \in Word
  BY SlotIs DEF RingType
<1> QED BY <1>1, <1>2, MonitorAssumption DEF RingType, TrailListed

(* The slot of the entry that is kept as k; the last is the one pushed.    *)
LEMMA SlotsMove ==
  ASSUME NEW h \in 0 .. HIST_SIZE - 1, NEW n \in 0 .. HIST_SIZE, NEW g, NEW m,
         g = (h + 1) % HIST_SIZE, m = IF n < HIST_SIZE THEN n + 1 ELSE n
  PROVE  /\ Slot(g, m, m) = h
         /\ n < HIST_SIZE => \A k \in 1 .. n : Slot(g, m, k) = Slot(h, n, k) /\ Slot(h, n, k) # h
         /\ n = HIST_SIZE =>
              \A k \in 1 .. n - 1 : Slot(g, m, k) = Slot(h, n, k + 1) /\ Slot(h, n, k + 1) # h
<1>0. /\ g = IF h = HIST_SIZE - 1 THEN 0 ELSE h + 1
      /\ g \in 0 .. HIST_SIZE - 1
      /\ m \in 1 .. HIST_SIZE
  BY Ahead, MonitorAssumption
<1>1. Slot(g, m, m) = h
  <2>1. Slot(g, m, m) = IF g - m + m - 1 < 0 THEN g - m + m - 1 + HIST_SIZE ELSE g - m + m - 1
    BY <1>0, SlotIs
  <2> QED BY <2>1, <1>0, MonitorAssumption
<1>2. ASSUME n < HIST_SIZE, NEW k \in 1 .. n
      PROVE  Slot(g, m, k) = Slot(h, n, k) /\ Slot(h, n, k) # h
  <2>1. k \in 1 .. m /\ m = n + 1
    BY <1>2
  <2>2. Slot(g, m, k) = IF g - m + k - 1 < 0 THEN g - m + k - 1 + HIST_SIZE ELSE g - m + k - 1
    BY <1>0, <2>1, SlotIs
  <2>3. Slot(h, n, k) = IF h - n + k - 1 < 0 THEN h - n + k - 1 + HIST_SIZE ELSE h - n + k - 1
    BY SlotIs
  <2> QED BY <1>0, <1>2, <2>1, <2>2, <2>3, MonitorAssumption
<1>3. ASSUME n = HIST_SIZE, NEW k \in 1 .. n - 1
      PROVE  Slot(g, m, k) = Slot(h, n, k + 1) /\ Slot(h, n, k + 1) # h
  <2>1. k \in 1 .. m /\ k + 1 \in 1 .. n /\ m = n
    BY <1>3, MonitorAssumption
  <2>2. Slot(g, m, k) = IF g - m + k - 1 < 0 THEN g - m + k - 1 + HIST_SIZE ELSE g - m + k - 1
    BY <1>0, <2>1, SlotIs
  <2>3. Slot(h, n, k + 1) = IF h - n + (k + 1) - 1 < 0 THEN h - n + (k + 1) - 1 + HIST_SIZE
                            ELSE h - n + (k + 1) - 1
    BY <2>1, SlotIs
  <2> QED BY <1>0, <1>3, <2>1, <2>2, <2>3, MonitorAssumption
<1> QED BY <1>1, <1>2, <1>3

(* hist_push appends to what show_history lists, and the oldest entry goes *)
(* when the ring is full.                                                  *)
LEMMA PushedAppends ==
  ASSUME RingType, pc \in Word, Pushed
  PROVE  Trail' = Promise!LastOf(Append(Trail, pc))
<1> DEFINE t == Append(Trail, pc)
<1>1. RingType'
  BY PushedKeepsRing
<1>2. /\ Trail' \in Seq(Word) /\ Len(Trail') = count'
      /\ \A k \in 1 .. count' : Trail'[k] = hist'[Slot(head', count', k)]
  <2>1. TrailListed'
    BY <1>1, TrailIs, PTL
  <2> QED BY <2>1 DEF TrailListed
<1>3. /\ t \in Seq(Word) /\ Len(t) = count + 1 /\ t # <<>>
      /\ t[count + 1] = pc
      /\ \A k \in 1 .. count : t[k] = hist[Slot(head, count, k)]
  BY TrailIs, AppendProperties DEF RingType, TrailListed
<1> HIDE DEF t
<1>4. /\ head \in 0 .. HIST_SIZE - 1 /\ count \in 0 .. HIST_SIZE
      /\ head' = (head + 1) % HIST_SIZE
      /\ count' = IF count < HIST_SIZE THEN count + 1 ELSE count
      /\ hist'[head] = pc
      /\ \A s \in 0 .. HIST_SIZE - 1 : s # head => hist'[s] = hist[s]
  BY DEF RingType, Pushed
<1>5. /\ Slot(head', count', count') = head
      /\ count < HIST_SIZE =>
           \A k \in 1 .. count : /\ Slot(head', count', k) = Slot(head, count, k)
                                 /\ Slot(head, count, k) # head
      /\ count = HIST_SIZE =>
           \A k \in 1 .. count - 1 : /\ Slot(head', count', k) = Slot(head, count, k + 1)
                                     /\ Slot(head, count, k + 1) # head
  BY <1>4, SlotsMove
<1>6. CASE count < HIST_SIZE
  <2>1. count' = count + 1 /\ count + 1 \in 1 .. count'
    BY <1>4, <1>6
  <2>2. \A k \in 1 .. count : Trail'[k] = t[k]
    <3> TAKE k \in 1 .. count
    <3>1. Slot(head, count, k) \in 0 .. HIST_SIZE - 1
      BY <1>4, SlotIs
    <3>2. Slot(head', count', k) = Slot(head, count, k) /\ Slot(head, count, k) # head
      BY <1>5, <1>6
    <3>3. k \in 1 .. count'
      BY <2>1, <1>4
    <3> QED BY <1>2, <1>3, <1>4, <3>1, <3>2, <3>3
  <2>3. Trail'[count + 1] = t[count + 1]
    BY <1>2, <1>3, <1>4, <1>5, <2>1
  <2>4. Trail' = t
    <3>1. \A k \in 1 .. Len(Trail') : Trail'[k] = t[k]
      BY <1>2, <1>4, <2>1, <2>2, <2>3
    <3>2. Len(Trail') = Len(t)
      BY <1>2, <1>3, <2>1
    <3> QED BY <1>2, <1>3, <3>1, <3>2, SeqEqual
  <2>5. ~ (Len(t) > HIST_SIZE)
    BY <1>3, <1>4, <1>6, MonitorAssumption
  <2> QED BY <2>4, <2>5 DEF Promise!LastOf, t
<1>7. CASE count = HIST_SIZE
  <2>1. /\ Tail(t) \in Seq(Word) /\ Len(Tail(t)) = count
        /\ \A k \in 1 .. count : Tail(t)[k] = t[k + 1]
    BY <1>3, <1>4, HeadTailProperties
  <2>2. count' = count
    BY <1>4, <1>7, MonitorAssumption
  <2>3. ASSUME NEW k \in 1 .. count PROVE Trail'[k] = Tail(t)[k]
    <3>1. CASE k = count
      BY <1>2, <1>3, <1>4, <1>5, <2>1, <2>2, <3>1
    <3>2. CASE k # count
      <4>1. k \in 1 .. count - 1 /\ k + 1 \in 1 .. count
        BY <1>4, <3>2
      <4>2. Slot(head, count, k + 1) \in 0 .. HIST_SIZE - 1
        BY <1>4, <4>1, SlotIs
      <4>3. Slot(head', count', k) = Slot(head, count, k + 1) /\ Slot(head, count, k + 1) # head
        BY <1>5, <1>7, <4>1
      <4>4. Trail'[k] = hist[Slot(head, count, k + 1)]
        BY <1>2, <1>4, <2>2, <4>2, <4>3
      <4>5. t[k + 1] = hist[Slot(head, count, k + 1)]
        BY <1>3, <4>1
      <4> QED BY <2>1, <4>4, <4>5
    <3> QED BY <3>1, <3>2
  <2>4. Trail' = Tail(t)
    BY <1>2, <2>1, <2>2, <2>3, SeqEqual
  <2>5. Len(t) > HIST_SIZE
    BY <1>3, <1>7, MonitorAssumption
  <2> QED BY <2>4, <2>5 DEF Promise!LastOf, t
<1> QED BY <1>4, <1>6, <1>7, MonitorAssumption

(***************************************************************************)
(* The table of breakpoints                                                *)
(***************************************************************************)
Distinct(s) == \A i, j \in DOMAIN s : s[i] = s[j] => i = j

TableInv ==
  /\ bpoints \in Seq(Word) /\ Len(bpoints) <= MAX_BREAK
  /\ Distinct(bpoints)

LEMMA WithoutIs ==
  ASSUME NEW s \in Seq(Word), Distinct(s), NEW i \in DOMAIN s
  PROVE  /\ Without(s, i) \in Seq(Word) /\ Len(Without(s, i)) = Len(s) - 1
         /\ Distinct(Without(s, i))
         /\ ToSet(Without(s, i)) = ToSet(s) \ {s[i]}
<1> DEFINE w == Without(s, i)
           n == Len(s)
<1>1. n \in Nat /\ DOMAIN s = 1 .. n /\ i \in 1 .. n /\ n - 1 \in Nat
  BY LenProperties
<1>2. \A k \in 1 .. n - 1 : (IF k < i THEN s[k] ELSE s[k + 1]) \in Word
  BY <1>1
<1>3. w = [k \in 1 .. n - 1 |-> IF k < i THEN s[k] ELSE s[k + 1]]
  BY DEF Without
<1>4. w \in Seq(Word) /\ Len(w) = n - 1 /\ DOMAIN w = 1 .. n - 1
  BY <1>1, <1>2, <1>3
<1>5. \A k \in 1 .. n - 1 : w[k] = IF k < i THEN s[k] ELSE s[k + 1]
  BY <1>3
<1>6. \A j, k \in 1 .. n : s[j] = s[k] => j = k
  BY <1>1 DEF Distinct
<1> HIDE DEF w, n
<1>7. ASSUME NEW j \in 1 .. n - 1, NEW k \in 1 .. n - 1, w[j] = w[k] PROVE j = k
  <2>1. /\ w[j] = IF j < i THEN s[j] ELSE s[j + 1]
        /\ w[k] = IF k < i THEN s[k] ELSE s[k + 1]
    BY <1>5
  <2>2. j \in 1 .. n /\ j + 1 \in 1 .. n /\ k \in 1 .. n /\ k + 1 \in 1 .. n
    BY <1>1
  <2>3. CASE j < i /\ k < i
    BY <1>6, <1>7, <2>1, <2>2, <2>3
  <2>4. CASE j < i /\ ~(k < i)
    <3>1. s[j] = s[k + 1]
      BY <1>7, <2>1, <2>4
    <3>2. j = k + 1
      BY <1>6, <2>2, <3>1
    <3> QED BY <1>1, <2>4, <3>2
  <2>5. CASE ~(j < i) /\ k < i
    <3>1. s[j + 1] = s[k]
      BY <1>7, <2>1, <2>5
    <3>2. j + 1 = k
      BY <1>6, <2>2, <3>1
    <3> QED BY <1>1, <2>5, <3>2
  <2>6. CASE ~(j < i) /\ ~(k < i)
    <3>1. s[j + 1] = s[k + 1]
      BY <1>7, <2>1, <2>6
    <3>2. j + 1 = k + 1
      BY <1>6, <2>2, <3>1
    <3> QED BY <1>1, <3>2
  <2> QED BY <2>3, <2>4, <2>5, <2>6
<1>8. ToSet(w) = {w[k] : k \in 1 .. n - 1} /\ ToSet(s) = {s[k] : k \in 1 .. n}
  BY <1>1, <1>4 DEF ToSet
<1>9. ASSUME NEW k \in 1 .. n - 1 PROVE w[k] \in {s[j] : j \in 1 .. n} \ {s[i]}
  <2>1. CASE k < i
    <3>1. k \in 1 .. n /\ k # i /\ w[k] = s[k]
      BY <1>1, <1>5, <2>1
    <3> QED BY <1>1, <1>6, <3>1
  <2>2. CASE ~(k < i)
    <3>1. k + 1 \in 1 .. n /\ k + 1 # i /\ w[k] = s[k + 1]
      BY <1>1, <1>5, <2>2
    <3> QED BY <1>1, <1>6, <3>1
  <2> QED BY <2>1, <2>2
<1>10. ASSUME NEW j \in 1 .. n, s[j] # s[i] PROVE s[j] \in {w[k] : k \in 1 .. n - 1}
  <2>1. CASE j < i
    <3>1. j \in 1 .. n - 1 /\ w[j] = s[j]
      BY <1>1, <1>5, <2>1
    <3> QED BY <3>1
  <2>2. CASE ~(j < i)
    <3>1. j # i
      BY <1>10
    <3>2. j - 1 \in 1 .. n - 1 /\ ~(j - 1 < i) /\ (j - 1) + 1 = j
      BY <1>1, <2>2, <3>1
    <3>3. w[j - 1] = s[j]
      BY <1>5, <3>2
    <3> QED BY <3>2, <3>3
  <2> QED BY <2>1, <2>2
<1>11. ToSet(w) = ToSet(s) \ {s[i]}
  BY <1>8, <1>9, <1>10
<1> QED BY <1>4, <1>7, <1>11 DEF w, n, Distinct

LEMMA AppendIs ==
  ASSUME NEW s \in Seq(Word), Distinct(s), NEW a \in Word, a \notin ToSet(s)
  PROVE  /\ Append(s, a) \in Seq(Word) /\ Len(Append(s, a)) = Len(s) + 1
         /\ Distinct(Append(s, a))
         /\ ToSet(Append(s, a)) = ToSet(s) \cup {a}
<1> DEFINE t == Append(s, a)
           n == Len(s)
<1>1. n \in Nat /\ DOMAIN s = 1 .. n
  BY LenProperties
<1>2. /\ t \in Seq(Word) /\ Len(t) = n + 1 /\ DOMAIN t = 1 .. n + 1
      /\ \A k \in 1 .. n : t[k] = s[k]
      /\ t[n + 1] = a
  BY AppendProperties, LenProperties
<1>3. /\ \A j, k \in 1 .. n : s[j] = s[k] => j = k
      /\ \A k \in 1 .. n : s[k] # a
  BY <1>1 DEF Distinct, ToSet
<1>4. ToSet(t) = {t[k] : k \in 1 .. n + 1} /\ ToSet(s) = {s[k] : k \in 1 .. n}
  BY <1>1, <1>2 DEF ToSet
<1> HIDE DEF t, n
<1>5. \A k \in 1 .. n + 1 : k \in 1 .. n \/ k = n + 1
  BY <1>1
<1>6. \A k \in 1 .. n : k \in 1 .. n + 1
  BY <1>1
<1>7. n + 1 \in 1 .. n + 1
  BY <1>1
<1>8. \A j, k \in 1 .. n + 1 : t[j] = t[k] => j = k
  BY <1>2, <1>3, <1>5
<1>9. ToSet(t) = ToSet(s) \cup {a}
  BY <1>2, <1>4, <1>5, <1>6, <1>7
<1> QED BY <1>2, <1>8, <1>9 DEF t, n, Distinct

LEMMA AtMostItsLength ==
  ASSUME NEW s \in Seq(Word)
  PROVE  Cardinality(ToSet(s)) <= Len(s)
<1>1. Len(s) \in Nat /\ DOMAIN s = 1 .. Len(s) /\ s \in [1 .. Len(s) -> Word]
  BY LenProperties
<1>2. ToSet(s) = {s[k] : k \in 1 .. Len(s)}
  BY <1>1 DEF ToSet
<1>3. s \in [1 .. Len(s) -> ToSet(s)]
  BY <1>1, <1>2
<1>4. s \in Surjection(1 .. Len(s), ToSet(s))
  BY <1>2, <1>3 DEF Surjection
<1> QED BY <1>1, <1>4, FS_SurjCardinalityBound DEF ExistsSurjection

LEMMA RangeIsFinite ==
  ASSUME NEW s \in Seq(Word)
  PROVE  IsFiniteSet(ToSet(s))
<1>1. Len(s) \in Nat /\ DOMAIN s = 1 .. Len(s) /\ s \in [1 .. Len(s) -> Word]
  BY LenProperties
<1>2. s \in Surjection(1 .. Len(s), ToSet(s))
  BY <1>1 DEF ToSet, Surjection
<1> QED BY <1>1, <1>2, FS_Interval, FS_Surjection

(***************************************************************************)
(* The session                                                             *)
(***************************************************************************)
BasePlace(p) ==
  p \in {Place(q) : q \in {"stopped", "running", "prompt", "register"}}
           \cup [in : {"step"}, left : Int] \cup [in : {"asm"}, cursor : Int]

PlaceType(p) ==
  BasePlace(p) \/ \E q, r : BasePlace(q) /\ p = [in |-> "listing", reads |-> r, then |-> q]

MachineType ==
  /\ running \in BOOLEAN /\ PlaceType(at)
  /\ pc \in Word /\ mem \in [Code -> Instruction]

SessionInv == MachineType /\ RingType /\ TableInv

(* The words, without the list of them.                                    *)
LEMMA Between ==
  ASSUME NEW n \in Int, NEW w
  PROVE  w \in 0 .. n <=> w \in Int /\ 0 <= w /\ w <= n
OBVIOUS

LEMMA WordIs == \A w : w \in Word <=> w \in Int /\ 0 <= w /\ w <= 65535
<1>1. UINT16_MAX \in Int
  BY DEF UINT16_MAX
<1>2. \A w : w \in Word <=> w \in Int /\ 0 <= w /\ w <= UINT16_MAX
  BY <1>1, Between DEF Word
<1> QED BY <1>2 DEF UINT16_MAX

LEMMA CodeInWord == Code \subseteq Word /\ CODE_START \in Word /\ 0 \in Word
<1>1. Len(Image) \in Nat
  BY ProgramAssumption
<1>2. ASSUME NEW a \in Code PROVE a \in Word
  <2>1. a \in Int /\ 2048 <= a /\ a <= 2048 + Len(Image) - 1
    BY <1>1 DEF Code, CODE_START
  <2>2. Len(Image) < 1024
    BY MonitorAssumption
  <2>3. a <= 65535 /\ 0 <= a
    BY <1>1, <2>1, <2>2
  <2>4. a \in Word /\ 0 <= a
    BY <2>1, <2>3, WordIs
  <2> QED BY <2>4
<1>3. 2048 \in Word /\ 0 \in Word
  BY WordIs
<1> QED BY <1>2, <1>3 DEF CODE_START

LEMMA BrkType == Brk \in Instruction
  BY CodeInWord DEF Brk, Instruction

LEMMA ImagesType == Loaded \in [Code -> Instruction] /\ Cleared \in [Code -> Instruction]
<1>1. Len(Image) \in Nat /\ \A k \in 1 .. Len(Image) : Image[k] \in Instruction
  BY ProgramAssumption
<1>2. \A a \in Code : a - CODE_START + 1 \in 1 .. Len(Image)
  BY <1>1 DEF Code, CODE_START
<1> QED BY <1>1, <1>2, BrkType DEF Loaded, Cleared

LEMMA FetchType ==
  ASSUME mem \in [Code -> Instruction], NEW a
  PROVE  Fetch(a) \in Instruction /\ Fetch(a).arg \in Word
<1>1. Fetch(a) \in Instruction
  BY BrkType DEF Fetch
<1> QED BY <1>1 DEF Instruction

LEMMA Following == ASSUME NEW a \in Int PROVE (a + 1) % 65536 \in Word
<1>1. \A b \in Int : (b % 65536) \in Word
  BY WordIs
<1> QED BY <1>1

(* What a step does to the session, in the terms of Debugger.              *)
Recorded == Trail' = Promise!LastOf(Append(Trail, pc))

LEMMA ModeIs ==
  /\ Mode \in {"monitor", "running", "ended"}
  /\ running = FALSE /\ ~StepIsListed => Mode = "ended"
  /\ running = TRUE /\ at.in = "running" => Mode = "running"
  /\ running = TRUE /\ at.in # "running" => Mode = "monitor"
  /\ StepIsListed /\ at.in # "running" => Mode = "monitor"
  BY Zenon DEF Mode

LEMMA ExecuteKeepsTypes ==
  ASSUME SessionInv, Execute
  PROVE  pc' \in Word /\ mem' \in [Code -> Instruction] /\ RingType' /\ TableInv'
<1> DEFINE i == Fetch(pc)
<1>1. i.arg \in Word
  BY FetchType DEF SessionInv, MachineType
<1>2. mem' \in [Code -> Instruction]
  BY DEF Execute, Does, SessionInv, MachineType
<1>3. pc' \in {0, i.arg, (pc + 1) % 65536}
  BY DEF Execute, Does
<1>4. pc' \in Word
  <2>1. pc \in Int
    BY WordIs DEF SessionInv, MachineType
  <2> QED BY <1>1, <1>3, <2>1, CodeInWord, Following
<1>5. RingType'
  BY PushedKeepsRing DEF Execute, SessionInv, MachineType
<1>6. TableInv'
  BY DEF Execute, tables, SessionInv, TableInv
<1> QED BY <1>2, <1>4, <1>5, <1>6

LEMMA DeviceRuns ==
  ASSUME NEW r, NEW a, NEW v, Device(r, a, v), running \in BOOLEAN
  PROVE  running' \in BOOLEAN /\ (running = FALSE => running' = FALSE)
<1>1. Status(v) => running' \in BOOLEAN /\ (running = FALSE => running' = FALSE)
  BY DEF Status
<1> QED BY <1>1, DeviceIs

LEMMA ExecuteRuns ==
  ASSUME Execute, running \in BOOLEAN
  PROVE  running' \in BOOLEAN
<1> DEFINE i == Fetch(pc)
<1>1. CASE i.op = "lda"
  <2>1. Device("program", i.arg, acc')
    BY <1>1 DEF Execute, Does
  <2> QED BY <2>1, DeviceRuns
<1>2. CASE i.op # "lda"
  BY <1>2 DEF Execute, Does
<1> QED BY <1>1, <1>2

Sound == SessionInv' /\ [Promise!Next]_Promise!vars

(* Whatever leaves the table and the ring alone is a Continue.             *)
LEMMA Continues ==
  ASSUME SessionInv, running = TRUE, UNCHANGED <<bpoints, history>>,
         running' \in BOOLEAN, PlaceType(at'), pc' \in Word, mem' \in [Code -> Instruction]
  PROVE  Sound
<1>1. RingType' /\ TableInv'
  BY DEF SessionInv, RingType, TableInv, history
<1>2. Mode # "ended" /\ Mode' \in {"monitor", "running", "ended"}
  BY DEF Mode
<1>3. Trail' = Trail /\ ToSet(bpoints') = ToSet(bpoints)
  BY DEF Trail, history
<1>4. Promise!Continue
  BY <1>2, <1>3 DEF Promise!Continue
<1> QED BY <1>1, <1>2, <1>4 DEF Sound, SessionInv, MachineType, Promise!Next

LEMMA PlaceKinds ==
  /\ \A q \in {"stopped", "running", "prompt", "register"} :
       Place(q).in = q /\ BasePlace(Place(q)) /\ PlaceType(Place(q))
  /\ \A n \in Int : LET p == [in |-> "step", left |-> n] IN BasePlace(p) /\ PlaceType(p)
  /\ \A n \in Int : PlaceType([in |-> "asm", cursor |-> n])
  /\ \A q : BasePlace(q) => q.in # "listing"
  BY DEF Place, PlaceType, BasePlace

(* A listing goes on where it says, at once or after it has read registers.*)
LEMMA ListingIs ==
  ASSUME NEW s, NEW p
  PROVE  \/ Listing(s, p) = p
         \/ \E r : Listing(s, p) = [in |-> "listing", reads |-> r, then |-> p]
  BY DEF Listing

LEMMA ListingPlace ==
  ASSUME NEW s, NEW p, BasePlace(p)
  PROVE  PlaceType(Listing(s, p)) /\ Listing(s, p).in \in {p.in, "listing"}
<1>1. CASE Listing(s, p) = p
  BY <1>1 DEF PlaceType
<1>2. ASSUME NEW r, Listing(s, p) = [in |-> "listing", reads |-> r, then |-> p]
      PROVE  PlaceType(Listing(s, p)) /\ Listing(s, p).in = "listing"
  <2>1. \E a, b : BasePlace(a) /\ Listing(s, p) = [in |-> "listing", reads |-> b, then |-> a]
    BY <1>2, Zenon
  <2>2. Listing(s, p).in = "listing"
    BY <1>2
  <2> QED BY <2>1, <2>2 DEF PlaceType
<1> QED BY <1>1, <1>2, ListingIs

LEMMA SteppingPlace ==
  ASSUME NEW p, NEW k \in Int, NEW q \in Stepping(p, k)
  PROVE  PlaceType(q) /\ q.in \in {"register", "step", "listing"}
<1>1. PICK s : \/ q = Listing(s, Place("register"))
               \/ q = Listing(s, [in |-> "step", left |-> k])
  BY DEF Stepping
<1>2. [in |-> "step", left |-> k].in = "step"
  OBVIOUS
<1> QED BY <1>1, <1>2, PlaceKinds, ListingPlace

LEMMA StepLeft ==
  ASSUME NEW p, PlaceType(p), p.in = "step"
  PROVE  p.left \in Int
<1>1. p \in [in : {"step"}, left : Int]
  BY DEF PlaceType, BasePlace, Place
<1> QED BY <1>1

(* The place of a line that goes on.                                       *)
LEMMA AsmPlace ==
  ASSUME NEW p, PlaceType(p), p.in = "asm"
  PROVE  PlaceType([p EXCEPT !.cursor = @ + 1])
<1>1. p \in [in : {"asm"}, cursor : Int]
  BY DEF PlaceType, BasePlace, Place
<1>2. [p EXCEPT !.cursor = @ + 1] \in [in : {"asm"}, cursor : Int]
  BY <1>1
<1> QED BY <1>2 DEF PlaceType, BasePlace

(***************************************************************************)
(* The run loop, s and a                                                   *)
(***************************************************************************)
LEMMA StopsSound ==
  ASSUME SessionInv, EnterMonitor \/ StopAtBreakpoint \/ StopAtBrk
  PROVE  Sound
<1>1. running = TRUE /\ running' = TRUE
  BY DEF SessionInv, MachineType, EnterMonitor, StopAtBreakpoint, StopAtBrk, In
<1>2. PlaceType(at') /\ UNCHANGED <<bpoints, history, mem>>
  <2>1. CASE EnterMonitor
    BY <2>1, PlaceKinds, ListingPlace DEF EnterMonitor, machine, tables
  <2>2. CASE StopAtBreakpoint \/ StopAtBrk
    BY <2>2, PlaceKinds DEF StopAtBreakpoint, StopAtBrk, machine, tables
  <2> QED BY <2>1, <2>2
<1>3. pc' = pc \/ pc' = (pc + 1) % 65536
  BY DEF EnterMonitor, StopAtBreakpoint, StopAtBrk, machine
<1>4. pc' \in Word /\ mem' \in [Code -> Instruction]
  <2>1. pc \in Int /\ pc \in Word
    BY WordIs DEF SessionInv, MachineType
  <2> QED BY <1>2, <1>3, <2>1, Following DEF SessionInv, MachineType
<1> QED BY <1>1, <1>2, <1>4, Continues

LEMMA ExecuteSound ==
  ASSUME SessionInv, Execute, PlaceType(at'),
         \/ running = TRUE /\ at.in = "running" /\ ~bp_hit(pc)
         \/ at.in = "step" /\ at'.in # "running"
  PROVE  Sound
<1>1. pc' \in Word /\ mem' \in [Code -> Instruction] /\ RingType' /\ TableInv'
  BY ExecuteKeepsTypes
<1>2. running' \in BOOLEAN
  BY ExecuteRuns DEF SessionInv, MachineType
<1>3. Trail' = Promise!LastOf(Append(Trail, pc))
  BY PushedAppends DEF Execute, SessionInv, MachineType
<1>4. ToSet(bpoints') = ToSet(bpoints)
  BY DEF Execute, tables
<1>5. /\ Mode # "ended" /\ Mode' \in {Mode, "monitor", "ended"}
      /\ Mode = "running" => pc \notin ToSet(bpoints)
  <2>1. CASE running = TRUE /\ at.in = "running" /\ ~bp_hit(pc)
    <3>1. Mode = "running" /\ Mode' \in {"running", "monitor", "ended"}
      BY <2>1 DEF Mode
    <3> QED BY <2>1, <3>1 DEF bp_hit
  <2>2. CASE at.in = "step" /\ at'.in # "running"
    <3>1. Mode = "monitor" /\ Mode' \in {"monitor", "ended"}
      BY <2>2 DEF Mode, StepIsListed
    <3> QED BY <3>1
  <2> QED BY <2>1, <2>2
<1>6. Promise!Execute
  BY <1>1, <1>3, <1>4, <1>5 DEF Promise!Execute
<1> QED BY <1>1, <1>2, <1>5, <1>6 DEF Sound, SessionInv, MachineType, Promise!Next

LEMMA RunOneSound ==
  ASSUME SessionInv, RunOne
  PROVE  Sound
<1>1. running = TRUE /\ at.in = "running" /\ ~bp_hit(pc) /\ Execute
  BY DEF RunOne, In, SessionInv, MachineType
<1>2. PlaceType(at')
  BY PlaceKinds DEF RunOne, SessionInv, MachineType
<1> QED BY <1>1, <1>2, ExecuteSound

LEMMA StepOneSound ==
  ASSUME SessionInv, StepOne
  PROVE  Sound
<1>1. at.in = "step" /\ Execute /\ PlaceType(at)
  BY DEF StepOne, SessionInv, MachineType
<1>2. at' = Place("prompt") \/ at' \in Stepping(pc', at.left - 1)
  BY DEF StepOne
<1>3. at.left - 1 \in Int
  BY <1>1, StepLeft
<1>4. PlaceType(at') /\ at'.in # "running"
  <2>1. CASE at' = Place("prompt")
    BY <2>1, PlaceKinds
  <2>2. CASE at' \in Stepping(pc', at.left - 1)
    <3> DEFINE p == pc'
               q == at'
    <3>1. q \in Stepping(p, at.left - 1)
      BY <2>2
    <3> HIDE DEF p, q
    <3>2. PlaceType(q) /\ q.in \in {"register", "step", "listing"}
      BY <1>3, <3>1, SteppingPlace
    <3> QED BY <3>2 DEF q
  <2> QED BY <1>2, <2>1, <2>2
<1> QED BY <1>1, <1>4, ExecuteSound

LEMMA ListRegisterSound ==
  ASSUME SessionInv, ListRegister
  PROVE  Sound
<1>1. /\ at.in = "listing" /\ at' = Listing(Tail(at.reads), at.then)
      /\ UNCHANGED <<pc, mem, bpoints, history>>
      /\ running \in BOOLEAN /\ pc \in Word /\ mem \in [Code -> Instruction] /\ PlaceType(at)
  BY DEF ListRegister, machine, tables, SessionInv, MachineType
<1>2. running' \in BOOLEAN /\ (running = FALSE => running' = FALSE)
  <2>1. \E a, v : Device("listing", a, v)
    BY DEF ListRegister
  <2> QED BY <1>1, <2>1, DeviceRuns
<1>3. BasePlace(at.then)
  <2>1. ~BasePlace(at)
    BY <1>1, PlaceKinds
  <2>2. PICK q, r : BasePlace(q) /\ at = [in |-> "listing", reads |-> r, then |-> q]
    BY <1>1, <2>1 DEF PlaceType
  <2> QED BY <2>2
<1>4. PlaceType(at')
  BY <1>1, <1>3, ListingPlace
<1>5. CASE running = TRUE
  BY <1>1, <1>2, <1>4, <1>5, Continues
<1>6. CASE running = FALSE
  <2>1. running' = FALSE
    BY <1>2, <1>6
  <2>2. StepIsListed <=> at.then.in = "step"
    BY <1>1 DEF StepIsListed
  <2>3. StepIsListed' <=> at.then.in = "step"
    <3>1. CASE at' = at.then
      BY <1>3, <3>1, PlaceKinds DEF StepIsListed
    <3>2. ASSUME NEW r, at' = [in |-> "listing", reads |-> r, then |-> at.then]
          PROVE  StepIsListed' <=> at.then.in = "step"
      BY <3>2 DEF StepIsListed
    <3> QED BY <1>1, <3>1, <3>2, ListingIs
  <2>4. Mode = IF StepIsListed THEN "monitor" ELSE "ended"
    BY <1>1, <1>6 DEF Mode
  <2>5. StepIsListed' => at'.in # "running"
    BY DEF StepIsListed
  <2>6. Mode' = IF StepIsListed' THEN "monitor" ELSE "ended"
    BY <2>1, <2>5 DEF Mode
  <2>7. Mode' = Mode
    BY <2>2, <2>3, <2>4, <2>6
  <2>8. RingType' /\ TableInv'
    BY <1>1 DEF SessionInv, RingType, TableInv, history
  <2>9. Trail' = Trail /\ ToSet(bpoints') = ToSet(bpoints)
    BY <1>1 DEF Trail, history
  <2> QED BY <1>1, <1>2, <1>4, <2>7, <2>8, <2>9 DEF Sound, SessionInv, MachineType, Promise!vars
<1> QED BY <1>1, <1>5, <1>6

LEMMA AssembleSound ==
  ASSUME SessionInv, Assemble \/ AssembleEnds
  PROVE  Sound
<1>1. running = TRUE /\ running' = TRUE /\ at.in = "asm" /\ PlaceType(at)
  BY DEF Assemble, AssembleEnds, In, SessionInv, MachineType
<1>2. UNCHANGED <<pc, bpoints, history>>
  BY DEF Assemble, AssembleEnds, machine, tables
<1>3. mem \in [Code -> Instruction] /\ pc \in Word
  BY DEF SessionInv, MachineType
<1>4. PlaceType(at') /\ mem' \in [Code -> Instruction]
  <2>1. CASE \E i \in Entered : /\ at.cursor \in Code
                                /\ mem' = [mem EXCEPT ![at.cursor] = i]
                                /\ at' = [at EXCEPT !.cursor = @ + 1]
    BY <1>1, <1>3, <2>1, AsmPlace, ProgramAssumption
  <2>2. CASE UNCHANGED <<mem, at>> \/ (at' = Place("prompt") /\ UNCHANGED mem)
    BY <1>1, <1>3, <2>2, PlaceKinds
  <2> QED BY <2>1, <2>2 DEF Assemble, AssembleEnds, machine
<1> QED BY <1>1, <1>2, <1>3, <1>4, Continues

(***************************************************************************)
(* The commands                                                            *)
(***************************************************************************)
LEMMA AtPrompt ==
  ASSUME SessionInv, Commands
  PROVE  running = TRUE /\ at.in = "prompt" /\ Mode = "monitor" /\ BasePlace(at)
<1>1. In("prompt")
  BY DEF Commands, Command, Step, Go, Set, Enter, Fill, LoadFile, StartAssembling, Break,
         Unbreak, Watch, Unwatch, Interrupts, Reset, Show, Quit
<1>2. running = TRUE /\ at.in = "prompt"
  BY <1>1 DEF In, SessionInv, MachineType
<1>3. BasePlace(at)
  BY <1>2 DEF PlaceType, SessionInv, MachineType
<1> QED BY <1>2, <1>3 DEF Mode

LEMMA ReshapingSound ==
  ASSUME SessionInv, running = TRUE, Set \/ Enter \/ Fill \/ LoadFile
  PROVE  Sound
<1>1. /\ UNCHANGED <<running, at, bpoints, history>>
      /\ mem \in [Code -> Instruction] /\ pc \in Word /\ PlaceType(at)
  BY DEF Set, Enter, Fill, LoadFile, tables, SessionInv, MachineType
<1>2. pc' \in Word
  BY <1>1, CodeInWord, MonitorAssumption DEF Set, Enter, Fill, LoadFile
<1>3. mem' \in [Code -> Instruction]
  BY <1>1, BrkType, ImagesType, ProgramAssumption DEF Set, Enter, Fill, LoadFile
<1> QED BY <1>1, <1>2, <1>3, Continues

LEMMA LeavingSound ==
  ASSUME SessionInv, running = TRUE, Step \/ Go \/ StartAssembling \/ Quit
  PROVE  Sound
<1>1. /\ UNCHANGED <<mem, bpoints, history>> /\ running' \in BOOLEAN
      /\ mem \in [Code -> Instruction] /\ pc \in Word /\ PlaceType(at)
  BY DEF Step, Go, StartAssembling, Quit, machine, tables, SessionInv, MachineType
<1>2. pc' \in Word
  BY <1>1, CodeInWord, MonitorAssumption DEF Step, Go, StartAssembling, Quit, machine
<1>3. PlaceType(at')
  <2>1. CASE Step
    <3>1. PICK n \in 1 .. MaxSteps : at' \in Stepping(pc, n)
      BY <2>1 DEF Step
    <3> QED BY <3>1, SteppingPlace
  <2>2. CASE StartAssembling
    <3>1. \E n \in Word : at' = [in |-> "asm", cursor |-> n]
      BY <2>2, CodeInWord, MonitorAssumption DEF StartAssembling
    <3> QED BY <3>1, PlaceKinds, WordIs
  <2>3. CASE Go \/ Quit
    BY <1>1, <2>3, PlaceKinds DEF Go, Quit
  <2> QED BY <2>1, <2>2, <2>3
<1> QED BY <1>1, <1>2, <1>3, Continues

LEMMA QuietSound ==
  ASSUME SessionInv, running = TRUE, BasePlace(at),
         Watch \/ (\E a \in Watchable : Unwatch(a)) \/ Interrupts \/ Show
  PROVE  Sound
<1>1. /\ UNCHANGED <<running, mem, bpoints, history>> /\ pc' \in {pc, 0}
      /\ mem \in [Code -> Instruction] /\ pc \in Word /\ PlaceType(at)
  BY DEF Watch, Unwatch, Interrupts, Show, machine, tables, SessionInv, MachineType
<1>2. PlaceType(at')
  <2>1. CASE at' = at
    BY <1>1, <2>1
  <2>2. CASE \E s : at' = Listing(s, at)
    BY <2>2, ListingPlace
  <2> QED BY <2>1, <2>2 DEF Watch, Unwatch, Interrupts, Show
<1> QED BY <1>1, <1>2, CodeInWord, Continues

LEMMA ResetSound ==
  ASSUME SessionInv, running = TRUE, at.in = "prompt", Reset
  PROVE  Sound
<1>1. /\ mem' = Cleared /\ pc' = 0 /\ bpoints' = <<>> /\ head' = 0 /\ count' = 0
      /\ UNCHANGED <<running, at, hist>>
  BY DEF Reset
<1>2. RingType'
  BY <1>1, MonitorAssumption DEF SessionInv, RingType
<1>3. TableInv'
  BY <1>1, MonitorAssumption DEF TableInv, Distinct
<1>4. MachineType'
  BY <1>1, CodeInWord, ImagesType DEF SessionInv, MachineType
<1>5. Mode = "monitor" /\ Mode' = Mode
  BY <1>1 DEF Mode
<1>6. Trail' = <<>> /\ ToSet(bpoints') = {}
  BY <1>1 DEF Trail, ToSet
<1>7. Promise!Reset
  BY <1>1, <1>5, <1>6, CodeInWord DEF Promise!Reset
<1> QED BY <1>2, <1>3, <1>4, <1>5, <1>7 DEF Sound, SessionInv, Promise!Next

(* What a command does that leaves all but the table alone.                *)
LEMMA TableOnly ==
  ASSUME SessionInv, UNCHANGED <<running, at, machine, history>>
  PROVE  /\ MachineType' /\ RingType'
         /\ Mode' = Mode /\ pc' = pc /\ Trail' = Trail
<1>1. MachineType'
  BY DEF SessionInv, MachineType, machine
<1>2. RingType'
  BY DEF SessionInv, RingType, history
<1>3. Trail' = Trail
  BY DEF Trail, history
<1>4. Mode' = Mode
  BY DEF Mode, StepIsListed
<1> QED BY <1>1, <1>2, <1>3, <1>4 DEF machine

LEMMA BreakSound ==
  ASSUME SessionInv, Mode = "monitor", Break
  PROVE  Sound
<1>1. PICK a \in Named : /\ a \notin ToSet(bpoints) /\ bpoints' = Append(bpoints, a)
                         /\ Len(bpoints) < MAX_BREAK
                         /\ UNCHANGED <<running, at, machine, history>>
  BY DEF Break, bp_hit
<1>2. a \in Word
  BY CodeInWord, MonitorAssumption
<1>3. bpoints \in Seq(Word) /\ Distinct(bpoints) /\ Len(bpoints) \in Nat
  BY LenProperties DEF SessionInv, TableInv
<1>4. /\ bpoints' \in Seq(Word) /\ Len(bpoints') = Len(bpoints) + 1
      /\ Distinct(bpoints') /\ ToSet(bpoints') = ToSet(bpoints) \cup {a}
  BY <1>1, <1>2, <1>3, AppendIs
<1>5. TableInv'
  BY <1>1, <1>3, <1>4, MonitorAssumption DEF TableInv
<1>6. Cardinality(ToSet(bpoints)) < MAX_BREAK
  <2>1. ToSet(bpoints) = {bpoints[k] : k \in 1 .. Len(bpoints)}
    BY <1>3, LenProperties DEF ToSet
  <2>2. Cardinality(ToSet(bpoints)) \in Nat
    BY <1>3, RangeIsFinite, FS_CardinalityType
  <2>3. Cardinality(ToSet(bpoints)) <= Len(bpoints)
    BY <1>3, AtMostItsLength
  <2> QED BY <1>1, <1>3, <2>2, <2>3, MonitorAssumption
<1>7. Mode' = Mode /\ pc' = pc /\ Trail' = Trail /\ MachineType' /\ RingType'
  BY <1>1, TableOnly
<1>8. Promise!SetBreakpoint
  <2>1. Promise!Cardinality(ToSet(bpoints)) = Cardinality(ToSet(bpoints))
    BY DEF Promise!Cardinality, Cardinality
  <2> QED BY <1>2, <1>4, <1>6, <1>7, <2>1 DEF Promise!SetBreakpoint
<1> QED BY <1>5, <1>7, <1>8 DEF Sound, SessionInv, Promise!Next

LEMMA UnbreakSound ==
  ASSUME SessionInv, Mode = "monitor", NEW a \in Named, Unbreak(a)
  PROVE  Sound
<1>1. PICK i \in DOMAIN bpoints : /\ bpoints[i] = a /\ bpoints' = Without(bpoints, i)
                                  /\ UNCHANGED <<running, at, machine, history>>
  BY DEF Unbreak
<1>2. bpoints \in Seq(Word) /\ Distinct(bpoints) /\ Len(bpoints) \in Nat
  BY LenProperties DEF SessionInv, TableInv
<1>3. /\ bpoints' \in Seq(Word) /\ Len(bpoints') = Len(bpoints) - 1
      /\ Distinct(bpoints') /\ ToSet(bpoints') = ToSet(bpoints) \ {a}
  BY <1>1, <1>2, WithoutIs
<1>4. TableInv'
  BY <1>2, <1>3, MonitorAssumption DEF SessionInv, TableInv
<1>5. a \in ToSet(bpoints)
  BY <1>1 DEF ToSet
<1>6. Mode' = Mode /\ pc' = pc /\ Trail' = Trail /\ MachineType' /\ RingType'
  BY <1>1, TableOnly
<1>7. Promise!ClearBreakpoint
  BY <1>3, <1>5, <1>6 DEF Promise!ClearBreakpoint
<1> QED BY <1>4, <1>6, <1>7 DEF Sound, SessionInv, Promise!Next

LEMMA UserSound ==
  ASSUME SessionInv, User \/ UNCHANGED vars
  PROVE  Sound
<1>1. UNCHANGED <<running, at, machine, bpoints, history>>
  BY DEF User, vars, tables
<1>2. Mode' = Mode /\ pc' = pc /\ Trail' = Trail /\ MachineType' /\ RingType'
  BY <1>1, TableOnly
<1>3. TableInv' /\ ToSet(bpoints') = ToSet(bpoints)
  BY <1>1 DEF SessionInv, TableInv
<1> QED BY <1>2, <1>3 DEF Sound, SessionInv, Promise!vars

LEMMA InitSound == Init => SessionInv /\ Promise!Init
<1> SUFFICES ASSUME Init PROVE SessionInv /\ Promise!Init
  OBVIOUS
<1>1. /\ mem = Loaded \/ mem = Cleared
      /\ pc = CODE_START \/ pc = 0
      /\ running = TRUE /\ at \in {Place("stopped"), Place("running")}
      /\ bpoints = <<>> /\ hist = [k \in 0 .. HIST_SIZE - 1 |-> 0] /\ head = 0 /\ count = 0
  BY DEF Init
<1>2. MachineType
  BY <1>1, CodeInWord, ImagesType, PlaceKinds DEF MachineType
<1>3. RingType
  BY <1>1, CodeInWord, MonitorAssumption DEF RingType
<1>4. TableInv
  BY <1>1, MonitorAssumption DEF TableInv, Distinct
<1>5. Mode \in {"monitor", "running"}
  BY <1>1 DEF Mode
<1>6. Trail = <<>> /\ ToSet(bpoints) = {}
  BY <1>1 DEF Trail, ToSet
<1> QED BY <1>2, <1>3, <1>4, <1>5, <1>6 DEF SessionInv, MachineType, Promise!Init

LEMMA NextSound == SessionInv /\ [Next]_vars => Sound
<1> SUFFICES ASSUME SessionInv, [Next]_vars PROVE Sound
  OBVIOUS
<1>1. CASE EnterMonitor \/ StopAtBreakpoint \/ StopAtBrk
  BY <1>1, StopsSound
<1>2. CASE RunOne
  BY <1>2, RunOneSound
<1>3. CASE StepOne
  BY <1>3, StepOneSound
<1>4. CASE Assemble \/ AssembleEnds
  BY <1>4, AssembleSound
<1>5. CASE Commands
  <2>1. running = TRUE /\ at.in = "prompt" /\ Mode = "monitor" /\ BasePlace(at)
    BY <1>5, AtPrompt
  <2> QED
    BY <1>5, <2>1, ReshapingSound, LeavingSound, QuietSound, ResetSound, BreakSound, UnbreakSound
    DEF Commands
<1>6. CASE User \/ UNCHANGED vars
  BY <1>6, UserSound
<1>7. CASE ListRegister
  BY <1>7, ListRegisterSound
<1> QED BY <1>1, <1>2, <1>3, <1>4, <1>5, <1>6, <1>7 DEF Next, Emulator

(* Nothing at a breakpoint is executed while the program runs, bp and bc   *)
(* handle a set, and the history shows the instructions executed last, in  *)
(* order: run_loop and hist_push, bp and bc, main.c 173-178, 748-776 and   *)
(* 874-931.                                                                *)
THEOREM SessionKept == Spec => KeepsSession
<1>1. SessionInv /\ [Next]_vars => SessionInv' /\ [Promise!Next]_Promise!vars
  BY NextSound DEF Sound
<1> QED BY <1>1, InitSound, PTL DEF Spec, KeepsSession, Promise!Spec

(***************************************************************************)
(* Watchpoints                                                             *)
(***************************************************************************)
LEMMA Least ==
  ASSUME NEW T, T \subseteq Nat, T # {}
  PROVE  \E x \in T : \A y \in T : x <= y
<1>1. PICK R : R = OpToRel(<, Nat)
  OBVIOUS
<1>2. \A a, b \in Nat : a < b => <<a, b>> \in R
  BY <1>1 DEF OpToRel
<1>3. IsWellFoundedOn(R, Nat)
  BY <1>1, NatLessThanWellFounded
<1>4. PICK x \in T : \A y \in T : ~ (<<y, x>> \in R)
  BY <1>3, WFMin
<1>5. \A y \in T : ~ (y < x)
  BY <1>2, <1>4
<1> QED BY <1>4, <1>5

(* What is further from the end comes first.                               *)
LEMMA Reversed ==
  ASSUME NEW n \in Int, NEW i \in Int, NEW j \in Int, n - i <= n - j
  PROVE  i >= j
OBVIOUS

LEMMA Greatest ==
  ASSUME NEW n \in Nat, NEW I, I \subseteq 1 .. n, I # {}
  PROVE  Max(I) \in I
<1> DEFINE T == {n - i : i \in I}
<1>1. T \subseteq Nat /\ T # {}
  <2>1. \A i \in I : n - i \in Nat
    OBVIOUS
  <2>2. PICK i \in I : TRUE
    OBVIOUS
  <2>3. n - i \in T
    OBVIOUS
  <2> QED BY <2>1, <2>3
<1>2. PICK x \in T : \A y \in T : x <= y
  BY <1>1, Least
<1>3. PICK i \in I : x = n - i
  OBVIOUS
<1>4. \A j \in I : n - i <= n - j
  BY <1>2, <1>3
<1>5. ASSUME NEW j \in I PROVE i >= j
  <2> HIDE DEF T
  <2>1. i \in Int /\ j \in Int
    OBVIOUS
  <2>2. n - i <= n - j
    BY <1>4
  <2> QED BY <2>1, <2>2, Reversed
<1>6. Max(I) = CHOOSE m \in I : \A j \in I : m >= j
  BY DEF Max
<1> QED BY <1>5, <1>6

(* check_watch: what it leaves is the report of a watched access, or what  *)
(* was there when none is watched.                                         *)
LEMMA CheckIs ==
  ASSUME NEW was, NEW s \in Seq(Access)
  PROVE  LET mine == {a \in ToSet(s) : Watched(a)}
         IN  /\ mine = {} => Check(was, s) = was
             /\ mine # {} => Check(was, s) \in mine
<1> DEFINE I == {i \in 1 .. Len(s) : Watched(s[i])}
           mine == {a \in ToSet(s) : Watched(a)}
<1>1. Len(s) \in Nat /\ DOMAIN s = 1 .. Len(s)
  BY LenProperties
<1>2. mine = {s[i] : i \in I}
  BY <1>1 DEF ToSet
<1>3. Check(was, s) = LET last == IF I # {} THEN Max(I) ELSE 0 IN IF last = 0 THEN was ELSE s[last]
  BY DEF Check, SelectLastInSeq
<1> HIDE DEF mine
<1>4. CASE I = {}
  BY <1>2, <1>3, <1>4 DEF mine
<1>5. CASE I # {}
  <2>1. Max(I) \in I /\ I \subseteq 1 .. Len(s)
    BY <1>1, <1>5, Greatest
  <2> HIDE DEF I
  <2>2. Max(I) # 0
    BY <1>1, <2>1
  <2>3. Check(was, s) = s[Max(I)]
    BY <1>3, <1>5, <2>2
  <2> QED BY <1>2, <2>1, <2>3 DEF mine
<1> QED BY <1>4, <1>5

LEMMA CheckType ==
  ASSUME NEW was \in {Quiet} \cup Access, NEW s \in Seq(Access)
  PROVE  Check(was, s) \in {Quiet} \cup Access
<1>1. \A a \in ToSet(s) : a \in Access
  BY LenProperties DEF ToSet
<1> QED BY <1>1, CheckIs

LEMMA WrapsToWord == ASSUME NEW a \in Int PROVE a % 65536 \in Word
  BY WordIs

LEMMA ReadsType ==
  ASSUME NEW s \in Seq(Int)
  PROVE  Reads(s) \in Seq(Access)
<1>1. \A i \in 1 .. Len(s) : s[i] \in Int
  BY LenProperties
<1>2. \A i \in 1 .. Len(s) : On("read", s[i] % 65536) \in Access
  BY <1>1, WrapsToWord DEF On, Access
<1>3. Len(s) \in Nat /\ Reads(s) = [i \in 1 .. Len(s) |-> On("read", s[i] % 65536)]
  BY LenProperties DEF Reads
<1> QED BY <1>2, <1>3

LEMMA WordIsInt == \A a \in Word : a \in Int
  BY WordIs

Watchpoint == [addr : Word, modes : SUBSET {"read", "write"}]

LEMMA NoWatches == <<>> \in Seq(Watchpoint) /\ Len(<<>>) <= MAX_WATCH
<1>1. <<>> \in Seq(Watchpoint) /\ Len(<<>>) = 0
  OBVIOUS
<1> QED BY <1>1, MonitorAssumption

LEMMA LengthsAre == \A a : Lengths(a) \subseteq 1 .. 3
  BY DEF Lengths

LEMMA DisassemblyType ==
  ASSUME NEW a \in Nat, NEW n \in 1 .. 3
  PROVE  Disassembly(a, n) \in Seq(Nat)
<1> DEFINE b == <<a, a + 1, a + 2>>
<1>1. b \in Seq(Nat) /\ Len(b) = 3 /\ b # <<>>
  OBVIOUS
<1>2. Disassembly(a, n) = b \o SubSeq(b, 1, n)
  BY DEF Disassembly
<1> HIDE DEF b
<1>3. SubSeq(b, 1, n) \in Seq(Nat)
  BY <1>1, Cut
<1> QED BY <1>1, <1>2, <1>3, ConcatProperties

LEMMA ThreeLinesType ==
  ASSUME NEW a \in Nat, NEW x \in 1 .. 3, NEW y \in 1 .. 3, NEW z \in 1 .. 3
  PROVE  ThreeLines(a, x, y, z) \in Seq(Nat)
<1>1. /\ Disassembly(a, x) \in Seq(Nat) /\ Disassembly(a + x, y) \in Seq(Nat)
      /\ Disassembly(a + x + y, z) \in Seq(Nat) /\ <<>> \in Seq(Nat)
  <2>1. a + x \in Nat /\ a + x + y \in Nat
    OBVIOUS
  <2>2. Disassembly(a, x) \in Seq(Nat) /\ Disassembly(a + x, y) \in Seq(Nat)
    BY <2>1, DisassemblyType
  <2>3. Disassembly(a + x + y, z) \in Seq(Nat)
    BY <2>1, DisassemblyType
  <2> QED BY <2>2, <2>3, EmptySeq
<1> DEFINE third == IF a + x + y > UINT16_MAX THEN <<>> ELSE Disassembly(a + x + y, z)
           second == IF a + x > UINT16_MAX THEN <<>> ELSE Disassembly(a + x, y) \o third
<1>2. third \in Seq(Nat)
  BY <1>1
<1>3. ThreeLines(a, x, y, z) = Disassembly(a, x) \o second
  BY DEF ThreeLines
<1> HIDE DEF third
<1>4. second \in Seq(Nat)
  BY <1>1, <1>2, ConcatProperties
<1> HIDE DEF second
<1> QED BY <1>1, <1>3, <1>4, ConcatProperties

LEMMA ListedType ==
  ASSUME NEW s \in Seq(Nat)
  PROVE  Reads(s) \in Seq(Access)
<1>1. s \in Seq(Int)
  OBVIOUS
<1> QED BY <1>1, ReadsType

LEMMA InterruptType == Interrupt \in Seq(Access) /\ Reads(<<Vectors>>) \in Seq(Access)
<1>1. Stack \in Word /\ Vectors \in Word /\ <<Vectors>> \in Seq(Int)
  BY WordIs DEF Stack, Vectors
<1>2. On("write", Stack) \in Access /\ On("read", Vectors) \in Access
  BY <1>1 DEF On, Access
<1>3. Interrupt \in Seq(Access)
  BY <1>2 DEF Interrupt
<1> QED BY <1>1, <1>3, ReadsType

LEMMA AccessesType ==
  ASSUME NEW i \in Instruction, pc \in Word
  PROVE  Accesses(i) \in Seq(Access)
<1>1. i.arg \in Word /\ i.arg \in Int /\ pc \in Int
  <2>1. i.arg \in Word
    BY DEF Instruction
  <2> QED BY <2>1, WordIsInt
<1>2. Reads(<<pc>>) \in Seq(Access) /\ Reads(<<i.arg>>) \in Seq(Access)
  <2>1. <<pc>> \in Seq(Int) /\ <<i.arg>> \in Seq(Int)
    BY <1>1
  <2> QED BY <2>1, ReadsType
<1>3. <<On("write", i.arg)>> \in Seq(Access) /\ <<>> \in Seq(Access)
  BY <1>1 DEF On, Access
<1> DEFINE rest == CASE i.op = "brk" -> Interrupt
                     [] i.op = "lda" -> Reads(<<i.arg>>)
                     [] i.op = "sta" -> <<On("write", i.arg)>>
                     [] OTHER        -> <<>>
<1>4. rest \in Seq(Access)
  BY <1>2, <1>3, InterruptType
<1>5. Accesses(i) = Reads(<<pc>>) \o rest
  BY DEF Accesses
<1> HIDE DEF rest
<1> QED BY <1>2, <1>4, <1>5, ConcatProperties

LEMMA WithoutKeeps ==
  ASSUME NEW S, NEW s \in Seq(S), NEW i \in DOMAIN s
  PROVE  Without(s, i) \in Seq(S) /\ Len(Without(s, i)) = Len(s) - 1
<1>1. Len(s) \in Nat /\ DOMAIN s = 1 .. Len(s) /\ i \in 1 .. Len(s) /\ \A k \in 1 .. Len(s) : s[k] \in S
  BY LenProperties
<1>2. \A k \in 1 .. Len(s) - 1 : (IF k < i THEN s[k] ELSE s[k + 1]) \in S
  BY <1>1
<1>3. Without(s, i) = [k \in 1 .. Len(s) - 1 |-> IF k < i THEN s[k] ELSE s[k + 1]]
  BY DEF Without
<1> QED BY <1>1, <1>2, <1>3

LEMMA WithoutLacksOne ==
  ASSUME NEW s \in Seq(Watchpoint), NEW i \in DOMAIN s
  PROVE  LacksOne(Without(s, i), s, s[i].addr)
<1> DEFINE n == Len(s)
           t == Without(s, i)
           f == [k \in 1 .. n - 1 |-> IF k < i THEN k ELSE k + 1]
<1>1. n \in Nat /\ DOMAIN s = 1 .. n /\ i \in 1 .. n
  BY LenProperties
<1>2. t \in Seq(Watchpoint) /\ Len(t) = n - 1 /\ DOMAIN t = 1 .. n - 1
  BY WithoutKeeps, LenProperties
<1>3. \A k \in 1 .. n - 1 : t[k] = IF k < i THEN s[k] ELSE s[k + 1]
  BY DEF Without
<1>4. /\ DOMAIN f = 1 .. n - 1 /\ \A k \in 1 .. n - 1 : f[k] = IF k < i THEN k ELSE k + 1
      /\ f \in [1 .. n - 1 -> 1 .. n]
  BY <1>1
<1> HIDE DEF n, t, f
<1>5. Increasing(f)
  BY <1>1, <1>4 DEF Increasing
<1>6. \A k \in 1 .. n - 1 : t[k] = s[f[k]]
  BY <1>3, <1>4
<1>7. ASSUME NEW j \in 1 .. n, j \notin ToSet(f) PROVE j = i
  <2>1. \A k \in 1 .. n - 1 : f[k] # j
    BY <1>4, <1>7 DEF ToSet
  <2>2. CASE j < i
    <3>1. j \in 1 .. n - 1 /\ f[j] = j
      BY <1>1, <1>4, <2>2
    <3> QED BY <2>1, <3>1
  <2>3. CASE j > i
    <3>1. j - 1 \in 1 .. n - 1 /\ ~(j - 1 < i) /\ (j - 1) + 1 = j
      BY <1>1, <2>3
    <3>2. f[j - 1] = j
      BY <1>4, <3>1
    <3> QED BY <2>1, <3>1, <3>2
  <2> QED BY <1>1, <2>2, <2>3
<1>8. \A j \in (1 .. n) \ ToSet(f) : s[j].addr = s[i].addr
  BY <1>7
<1> QED BY <1>1, <1>2, <1>4, <1>5, <1>6, <1>8 DEF LacksOne, n, t

(***************************************************************************)
(* Types and bounds                                                        *)
(***************************************************************************)
ConsoleBounds ==
  typed \in 0 .. MaxTyped /\ pressed \in 0 .. MaxPressed /\ closed \in BOOLEAN

BoundStep ==
  \/ UNCHANGED <<typed, pressed, closed>>
  \/ Type \/ Close \/ CtrlC \/ \E seen : ReadBreak(seen)

LEMMA BoundsKept == ConsoleBounds /\ BoundStep => ConsoleBounds'
<1> SUFFICES ASSUME ConsoleBounds, BoundStep PROVE ConsoleBounds'
  OBVIOUS
<1>1. CASE UNCHANGED <<typed, pressed, closed>>
  BY <1>1 DEF ConsoleBounds
<1>2. CASE Type
  BY <1>2, ConsoleAssumption DEF ConsoleBounds, Type, break
<1>3. CASE Close
  BY <1>3 DEF ConsoleBounds, Close, break
<1>4. CASE CtrlC
  BY <1>4, ConsoleAssumption DEF ConsoleBounds, CtrlC, input
<1>5. CASE \E seen : ReadBreak(seen)
  <2>1. UNCHANGED <<typed, closed>> /\ pressed' \in {pressed} \cup (pressed + 1 .. MaxPressed)
    BY <1>5 DEF ReadBreak, input
  <2> QED BY <2>1, ConsoleAssumption DEF ConsoleBounds
<1> QED BY <1>1, <1>2, <1>3, <1>4, <1>5 DEF BoundStep

LEMMA ReadersLeaveBounds ==
  /\ FGets => UNCHANGED <<typed, pressed, closed>>
  /\ ReadLine => UNCHANGED <<typed, pressed, closed>>
  /\ \A b : Peek(b) => UNCHANGED <<typed, pressed, closed>>
  /\ \A r, b : GetChar(r, b) => UNCHANGED <<typed, pressed, closed>>
  BY DEF FGets, ReadLine, Peek, GetChar, PeekEnds, break, console

LEMMA DeviceBounds ==
  ASSUME NEW r, NEW a, NEW v, Device(r, a, v)
  PROVE  BoundStep
<1>1. CASE Status(v)
  BY <1>1, ReadersLeaveBounds DEF Status, BoundStep
<1>2. CASE GetChar(r, v)
  BY <1>2, ReadersLeaveBounds DEF BoundStep
<1>3. CASE ReadBreak(v)
  BY <1>3 DEF BoundStep
<1>4. CASE UNCHANGED <<running, console>>
  BY <1>4 DEF BoundStep, console
<1> QED BY <1>1, <1>2, <1>3, <1>4, DeviceIs

LEMMA ExecuteBounds == Execute => BoundStep
<1> SUFFICES ASSUME Execute PROVE BoundStep
  OBVIOUS
<1> DEFINE i == Fetch(pc)
<1>1. CASE i.op = "lda"
  <2>1. Device("program", i.arg, acc')
    BY <1>1 DEF Execute, Does
  <2> QED BY <2>1, DeviceBounds
<1>2. CASE i.op # "lda"
  BY <1>2 DEF Execute, Does, BoundStep, console
<1> QED BY <1>1, <1>2

LEMMA NextBounds == [Next]_vars => BoundStep
<1>1. Commands => BoundStep
  <2>1. Command => UNCHANGED <<typed, pressed, closed>>
    BY ReadersLeaveBounds DEF Command
  <2>2. Quit => UNCHANGED <<typed, pressed, closed>>
    BY <2>1 DEF Quit, console
  <2> QED
    BY <2>1, <2>2 DEF Commands, Step, Go, Set, Enter, Fill, LoadFile, StartAssembling, Break,
                      Unbreak, Watch, Unwatch, Interrupts, Reset, Show, BoundStep
<1>2. EnterMonitor \/ StopAtBreakpoint \/ StopAtBrk \/ AssembleEnds => BoundStep
  BY DEF EnterMonitor, StopAtBreakpoint, StopAtBrk, AssembleEnds, console, BoundStep
<1>3. RunOne \/ StepOne => BoundStep
  BY ExecuteBounds DEF RunOne, StepOne
<1>4. Assemble => BoundStep
  BY ReadersLeaveBounds DEF Assemble, BoundStep
<1>5. User => BoundStep
  BY DEF User, BoundStep
<1>6. UNCHANGED vars => BoundStep
  BY DEF vars, console, BoundStep
<1>7. ListRegister => BoundStep
  BY DeviceBounds DEF ListRegister
<1> QED BY <1>1, <1>2, <1>3, <1>4, <1>5, <1>6, <1>7 DEF Next, Emulator

(* What the debugger keeps beside the session.                             *)
WatchInv ==
  /\ at \in Places \cup ListingPlaces /\ acc \in BOOLEAN
  /\ watches \in Seq(Watchpoint) /\ Len(watches) <= MAX_WATCH
  /\ fired \in {Quiet} \cup Access

LEMMA PlacesAre ==
  /\ \A p \in {"stopped", "running", "prompt", "register"} : Place(p) \in Places /\ Place(p).in = p
  /\ \A n \in 1 .. MaxSteps : [in |-> "step", left |-> n] \in Places
  /\ \A n \in Code \cup {CODE_START + Len(Image)} : [in |-> "asm", cursor |-> n] \in Places
  BY DEF Places, Place

LEMMA ListingPlacesAre ==
  ASSUME NEW s \in Seq(Nat), NEW p \in Places
  PROVE  Listing(s, p) \in Places \cup ListingPlaces
<1> DEFINE I == {i \in 1 .. Len(s) : OnRegister(s[i])}
           first == IF I # {} THEN Min(I) ELSE 0
<1>1. Listing(s, p) = IF first = 0 THEN p
                      ELSE [in |-> "listing", reads |-> SubSeq(s, first, Len(s)), then |-> p]
  BY DEF Listing, SelectInSeq
<1>2. Len(s) \in Nat
  BY LenProperties
<1>3. CASE I = {}
  BY <1>1, <1>3
<1>4. CASE I # {}
  <2>1. Min(I) \in I
    <3>1. PICK x \in I : \A y \in I : x <= y
      <4>1. I \subseteq Nat
        BY <1>2
      <4> QED BY <1>4, <4>1, Least
    <3>2. Min(I) = CHOOSE k \in I : \A y \in I : k <= y
      BY DEF Min
    <3> QED BY <3>1, <3>2
  <2>2. first = Min(I) /\ first \in 1 .. Len(s)
    BY <1>4, <2>1
  <2> HIDE DEF first, I
  <2> DEFINE r == SubSeq(s, first, Len(s))
  <2>3. r \in Seq(Nat) /\ Len(r) = Len(s) - first + 1
    <3>1. \A i \in first .. Len(s) : s[i] \in Nat
      BY <1>2, <2>2, LenProperties
    <3> QED BY <1>2, <2>2, <3>1, SubSeqProperties
  <2>4. r # <<>>
    <3>1. Len(r) >= 1
      BY <1>2, <2>2, <2>3
    <3> HIDE DEF r
    <3> QED BY <3>1
  <2>5. [in |-> "listing", reads |-> r, then |-> p] \in ListingPlaces
    BY <2>3, <2>4 DEF ListingPlaces
  <2> QED BY <1>1, <1>2, <2>2, <2>5
<1> QED BY <1>3, <1>4

LEMMA SteppingPlaces ==
  ASSUME NEW p \in Nat, NEW k \in 1 .. MaxSteps, NEW q \in Stepping(p, k)
  PROVE  q \in Places \cup ListingPlaces
<1>1. PICK n \in Lengths(p), m \in Lengths(p) :
         \/ q = Listing(Disassembly(p, n) \o Disassembly(p, m), Place("register"))
         \/ q = Listing(Disassembly(p, n) \o Disassembly(p, m), [in |-> "step", left |-> k])
  BY DEF Stepping
<1>2. Disassembly(p, n) \o Disassembly(p, m) \in Seq(Nat)
  BY LengthsAre, DisassemblyType, ConcatProperties
<1> QED BY <1>1, <1>2, PlacesAre, ListingPlacesAre

LEMMA StepPlaces ==
  ASSUME NEW p \in Places \cup ListingPlaces, p.in = "step"
  PROVE  p.left \in 1 .. MaxSteps /\ (p.left # 1 => p.left - 1 \in 1 .. MaxSteps)
<1>1. p \in [in : {"step"}, left : 1 .. MaxSteps]
  BY DEF Places, ListingPlaces, Place
<1>2. p.left \in 1 .. MaxSteps
  BY <1>1
<1> QED BY <1>2, MonitorAssumption

LEMMA AsmPlaces ==
  ASSUME NEW p \in Places \cup ListingPlaces, p.in = "asm", p.cursor \in Code
  PROVE  [p EXCEPT !.cursor = @ + 1] \in Places
<1>1. p \in [in : {"asm"}, cursor : Code \cup {CODE_START + Len(Image)}]
  BY DEF Places, ListingPlaces, Place
<1>2. [p EXCEPT !.cursor = @ + 1] = [in |-> "asm", cursor |-> p.cursor + 1]
  BY <1>1
<1>3. p.cursor + 1 \in Code \cup {CODE_START + Len(Image)}
  <2>1. Len(Image) \in Nat
    BY ProgramAssumption
  <2> QED BY <2>1 DEF Code, CODE_START
<1> QED BY <1>2, <1>3, PlacesAre

(* What an instruction reports: it accessed a watched address, and that    *)
(* is one such access, or it did not.                                      *)
Mine == {a \in ToSet(Accesses(Fetch(pc))) : Watched(a)}

LEMMA ExecuteReports ==
  ASSUME MachineType, Execute
  PROVE  /\ Mine \subseteq Access
         /\ Mine = {} => fired' = Quiet
         /\ Mine # {} => fired' \in Mine
         /\ Quiet \notin Access
<1>1. pc \in Word /\ Fetch(pc) \in Instruction
  BY FetchType DEF MachineType
<1>2. Accesses(Fetch(pc)) \in Seq(Access)
  BY <1>1, AccessesType
<1>3. fired' = Check(Quiet, Accesses(Fetch(pc)))
  BY DEF Execute, AfterDisassembly
<1>4. \A a \in ToSet(Accesses(Fetch(pc))) : a \in Access
  BY <1>2, LenProperties DEF ToSet
<1>5. Quiet \notin Access
  BY DEF Quiet, On, Access
<1> QED BY <1>2, <1>3, <1>4, <1>5, CheckIs DEF Mine

LEMMA ExecuteKeepsRest ==
  ASSUME MachineType, WatchInv, Execute
  PROVE  /\ acc' \in BOOLEAN /\ fired' \in {Quiet} \cup Access
         /\ watches' \in Seq(Watchpoint) /\ Len(watches') <= MAX_WATCH
<1>1. acc' \in BOOLEAN
  BY DEF Execute, Does, WatchInv
<1>2. fired' \in {Quiet} \cup Access
  BY ExecuteReports
<1>3. watches' = watches
  BY DEF Execute, tables
<1> QED BY <1>1, <1>2, <1>3 DEF WatchInv

(* pc stays a word: the first part of ExecuteKeepsTypes, without the rest. *)
LEMMA PcMoves ==
  ASSUME MachineType, Execute
  PROVE  pc' \in Word
<1> DEFINE i == Fetch(pc)
<1>1. i.arg \in Word
  BY FetchType DEF MachineType
<1>2. pc' \in {0, i.arg, (pc + 1) % 65536}
  BY DEF Execute, Does
<1>3. pc \in Int
  BY WordIs DEF MachineType
<1> QED BY <1>1, <1>2, <1>3, CodeInWord, Following

LEMMA LoopKeepsWatch ==
  ASSUME MachineType, WatchInv,
         EnterMonitor \/ StopAtBreakpoint \/ StopAtBrk \/ RunOne \/ StepOne
  PROVE  WatchInv'
<1>1. CASE EnterMonitor
  <2>1. PICK x \in Lengths(pc) : \E y \in Lengths(pc + x) : \E z \in Lengths(pc + x + y) :
          LET lines == ThreeLines(pc, x, y, z)
          IN  fired' = Check(fired, Reads(lines)) /\ at' = Listing(lines, Place("prompt"))
    BY <1>1 DEF EnterMonitor
  <2>7. PICK y \in Lengths(pc + x) : \E z \in Lengths(pc + x + y) :
          LET lines == ThreeLines(pc, x, y, z)
          IN  fired' = Check(fired, Reads(lines)) /\ at' = Listing(lines, Place("prompt"))
    BY <2>1
  <2>2. PICK z \in Lengths(pc + x + y) :
          /\ fired' = Check(fired, Reads(ThreeLines(pc, x, y, z)))
          /\ at' = Listing(ThreeLines(pc, x, y, z), Place("prompt"))
    BY <2>7
  <2>3. UNCHANGED <<acc, watches>>
    BY <1>1 DEF EnterMonitor, machine, tables
  <2>4. ThreeLines(pc, x, y, z) \in Seq(Nat)
    <3>1. pc \in Nat /\ x \in 1 .. 3 /\ y \in 1 .. 3 /\ z \in 1 .. 3
      BY LengthsAre, WordIs DEF MachineType
    <3> QED BY <3>1, ThreeLinesType
  <2>5. fired' \in {Quiet} \cup Access
    BY <2>2, <2>4, ListedType, CheckType DEF WatchInv
  <2>6. at' \in Places \cup ListingPlaces
    BY <2>2, <2>4, PlacesAre, ListingPlacesAre
  <2> QED BY <2>3, <2>5, <2>6 DEF WatchInv
<1>2. CASE StopAtBreakpoint \/ StopAtBrk
  <2>1. UNCHANGED <<acc, watches, fired>> /\ at' = Place("stopped")
    BY <1>2 DEF StopAtBreakpoint, StopAtBrk, machine, tables
  <2> QED BY <2>1, PlacesAre DEF WatchInv
<1>3. CASE RunOne
  <2>1. Execute /\ at' \in {at, Place("stopped")}
    BY <1>3 DEF RunOne
  <2>2. at' \in Places \cup ListingPlaces
    BY <2>1, PlacesAre DEF WatchInv
  <2> QED BY <2>1, <2>2, ExecuteKeepsRest DEF WatchInv
<1>4. CASE StepOne
  <2>1. /\ Execute /\ at.in = "step" /\ at \in Places \cup ListingPlaces
        /\ at' = Place("prompt") \/ (at.left # 1 /\ at' \in Stepping(pc', at.left - 1))
    BY <1>4 DEF StepOne, WatchInv
  <2>2. at' \in Places \cup ListingPlaces
    <3>1. CASE at' = Place("prompt")
      BY <3>1, PlacesAre
    <3>2. CASE at.left # 1 /\ at' \in Stepping(pc', at.left - 1)
      <4> DEFINE p == pc'
                 q == at'
      <4>1. q \in Stepping(p, at.left - 1) /\ at.left - 1 \in 1 .. MaxSteps
        BY <2>1, <3>2, StepPlaces
      <4>2. p \in Nat
        BY <2>1, PcMoves, WordIs
      <4> HIDE DEF p, q
      <4>3. q \in Places \cup ListingPlaces
        BY <4>1, <4>2, SteppingPlaces
      <4> QED BY <4>3 DEF q
    <3> QED BY <2>1, <3>1, <3>2
  <2> QED BY <2>1, <2>2, ExecuteKeepsRest DEF WatchInv
<1> QED BY <1>1, <1>2, <1>3, <1>4

LEMMA AssembleKeepsWatch ==
  ASSUME MachineType, WatchInv, Assemble \/ AssembleEnds
  PROVE  WatchInv'
<1>1. at.in = "asm" /\ at \in Places \cup ListingPlaces /\ UNCHANGED <<acc, watches>>
  BY DEF Assemble, AssembleEnds, In, WatchInv, machine, tables
<1>2. CASE /\ at.cursor \in Code /\ at' = [at EXCEPT !.cursor = @ + 1]
           /\ fired' = Check(fired, Reads(Disassembly(at.cursor, 1)))
  <2>1. at' \in Places
    BY <1>1, <1>2, AsmPlaces
  <2>2. at.cursor \in Nat
    BY <1>2, CodeInWord, WordIs
  <2>3. fired' \in {Quiet} \cup Access
    <3>1. Disassembly(at.cursor, 1) \in Seq(Nat)
      <4> DEFINE a == at.cursor
      <4>1. a \in Nat /\ 1 \in 1 .. 3
        BY <2>2
      <4> HIDE DEF a
      <4>2. Disassembly(a, 1) \in Seq(Nat)
        BY <4>1, DisassemblyType
      <4> QED BY <4>2 DEF a
    <3> QED BY <1>2, <3>1, ListedType, CheckType DEF WatchInv
  <2> QED BY <1>1, <2>1, <2>3 DEF WatchInv
<1>3. CASE at' \in {at, Place("prompt")} /\ fired' = fired
  BY <1>1, <1>3, PlacesAre DEF WatchInv
<1> QED BY <1>2, <1>3 DEF Assemble, AssembleEnds

LEMMA CommandsKeepWatch ==
  ASSUME MachineType, WatchInv, Commands
  PROVE  WatchInv'
<1>1. CASE Step \/ StartAssembling \/ Go
  <2>1. UNCHANGED <<acc, watches, fired>>
    BY <1>1 DEF Step, StartAssembling, Go, machine, tables
  <2>2. at' \in Places \cup ListingPlaces
    <3>1. CASE Step
      BY <3>1, SteppingPlaces, WordIs DEF Step, MachineType
    <3>2. CASE StartAssembling
      BY <3>2, PlacesAre, MonitorAssumption DEF StartAssembling
    <3>3. CASE Go
      BY <3>3, PlacesAre DEF Go
    <3> QED BY <1>1, <3>1, <3>2, <3>3
  <2> QED BY <2>1, <2>2 DEF WatchInv
<1>2. CASE Set \/ Enter \/ Fill \/ LoadFile \/ Break \/ (\E a \in Named : Unbreak(a)) \/ Quit
  <2>1. UNCHANGED <<at, watches, fired>> /\ (acc' = acc \/ acc' \in BOOLEAN)
    BY <1>2 DEF Set, Enter, Fill, LoadFile, Break, Unbreak, Quit, machine, tables
  <2> QED BY <2>1 DEF WatchInv
<1>3. CASE Watch
  <2>1. PICK a \in Watchable, m \in {{"read"}, {"write"}, {"read", "write"}} :
          watches' = Append(watches, [addr |-> a, modes |-> m])
    BY <1>3 DEF Watch
  <2>2. UNCHANGED <<at, acc, fired>> /\ Len(watches) < MAX_WATCH
    BY <1>3 DEF Watch, machine
  <2>3. a \in Word /\ m \in SUBSET {"read", "write"}
    BY MonitorAssumption
  <2>4. [addr |-> a, modes |-> m] \in Watchpoint
    BY <2>3 DEF Watchpoint
  <2>5. watches \in Seq(Watchpoint) /\ Len(watches) \in Nat
    BY LenProperties DEF WatchInv
  <2>6. watches' \in Seq(Watchpoint) /\ Len(watches') = Len(watches) + 1
    BY <2>1, <2>4, <2>5, AppendProperties
  <2> QED BY <2>2, <2>5, <2>6, MonitorAssumption DEF WatchInv
<1>4. CASE \E a \in Watchable : Unwatch(a)
  <2>1. PICK i \in DOMAIN watches : watches' = Without(watches, i)
    BY <1>4 DEF Unwatch
  <2>2. UNCHANGED <<at, acc, fired>>
    BY <1>4 DEF Unwatch, machine
  <2>3. watches \in Seq(Watchpoint) /\ Len(watches) \in Nat /\ Len(watches) <= MAX_WATCH
    BY LenProperties DEF WatchInv
  <2>4. watches' \in Seq(Watchpoint) /\ Len(watches') = Len(watches) - 1
    BY <2>1, <2>3, WithoutKeeps
  <2> QED BY <2>2, <2>3, <2>4, MonitorAssumption DEF WatchInv
<1>5. CASE Interrupts
  <2>1. UNCHANGED <<at, acc, watches>> /\ fired' = Check(fired, Interrupt)
    BY <1>5 DEF Interrupts, tables
  <2> QED BY <2>1, InterruptType, CheckType DEF WatchInv
<1>6. CASE Reset
  <2>1. at' = at /\ acc' = FALSE /\ watches' = <<>> /\ fired' = Check(fired, Reads(<<Vectors>>))
    BY <1>6 DEF Reset
  <2>2. fired' \in {Quiet} \cup Access
    BY <2>1, InterruptType, CheckType DEF WatchInv
  <2> QED BY <2>1, <2>2, NoWatches DEF WatchInv
<1>7. CASE Show
  <2>1. UNCHANGED <<acc, watches>> /\ In("prompt")
    BY <1>7 DEF Show, Command, machine, tables
  <2>2. fired' \in {Quiet} \cup Access /\ at' \in Places \cup ListingPlaces
    <3>1. CASE UNCHANGED <<fired, at>>
      BY <3>1 DEF WatchInv
    <3>2. ASSUME NEW a \in Named \cup Shown, NEW n \in Lengths(a),
                 fired' = Check(fired, Reads(Disassembly(a, n))), at' = Listing(Disassembly(a, n), at)
          PROVE  fired' \in {Quiet} \cup Access /\ at' \in Places \cup ListingPlaces
      <4>1. a \in Nat /\ n \in 1 .. 3
        BY CodeInWord, MonitorAssumption, WordIs, LengthsAre
      <4>2. Disassembly(a, n) \in Seq(Nat)
        BY <4>1, DisassemblyType
      <4>3. at \in Places
        BY <2>1 DEF WatchInv, In, ListingPlaces
      <4> QED BY <3>2, <4>2, <4>3, ListedType, CheckType, ListingPlacesAre DEF WatchInv
    <3> QED BY <1>7, <3>1, <3>2 DEF Show
  <2> QED BY <2>1, <2>2 DEF WatchInv
<1> QED BY <1>1, <1>2, <1>3, <1>4, <1>5, <1>6, <1>7 DEF Commands

LEMMA NextKeepsWatch == MachineType /\ WatchInv /\ [Next]_vars => WatchInv'
<1> SUFFICES ASSUME MachineType, WatchInv, [Next]_vars PROVE WatchInv'
  OBVIOUS
<1>1. CASE User \/ UNCHANGED vars
  <2>1. UNCHANGED <<at, acc, watches, fired>>
    BY <1>1 DEF User, vars, machine, tables
  <2> QED BY <2>1 DEF WatchInv
<1>2. CASE ListRegister
  <2>1. /\ at.in = "listing" /\ at' = Listing(Tail(at.reads), at.then)
        /\ UNCHANGED <<acc, watches, fired>>
    BY <1>2 DEF ListRegister, machine, tables
  <2>2. at \in ListingPlaces
    BY <2>1 DEF WatchInv, Places, Place
  <2>3. at.reads \in Seq(Nat) /\ at.reads # <<>> /\ at.then \in Places
    BY <2>2 DEF ListingPlaces
  <2>4. Tail(at.reads) \in Seq(Nat)
    BY <2>3, HeadTailProperties
  <2>5. at' \in Places \cup ListingPlaces
    BY <2>1, <2>3, <2>4, ListingPlacesAre
  <2> QED BY <2>1, <2>5 DEF WatchInv
<1> QED BY <1>1, <1>2, LoopKeepsWatch, AssembleKeepsWatch, CommandsKeepWatch DEF Next, Emulator

LEMMA InitWatch == Init => WatchInv /\ ConsoleBounds
<1> SUFFICES ASSUME Init PROVE WatchInv /\ ConsoleBounds
  OBVIOUS
<1>1. /\ at \in {Place("stopped"), Place("running")} /\ acc = FALSE
      /\ watches = <<>> /\ fired = Quiet
      /\ typed = 0 /\ pressed = 0 /\ closed = FALSE
  BY DEF Init, ConsoleInit
<1>2. 0 \in 0 .. MaxTyped /\ 0 \in 0 .. MaxPressed
  BY ConsoleAssumption
<1> QED BY <1>1, <1>2, PlacesAre, NoWatches DEF WatchInv, ConsoleBounds

(* What is held was typed.                                                 *)
LEMMA TokensOnly ==
  ASSUME InputInv, FlagInv, ConsoleBounds
  PROVE  ConsoleTypeOK
<1>1. /\ typed \in Nat /\ typed <= MaxTyped /\ pipe \in Seq(Nat) /\ file \in Seq(Nat)
      /\ \A r \in Readers : taken[r] \in Seq(Nat)
      /\ taken \in [Readers -> Seq(Nat)] /\ InputType /\ "monitor" \in Readers
      /\ "assembler" \in Readers /\ "program" \in Readers /\ "listing" \in Readers
  BY DEF InputInv, InputType, ConsoleBounds, Readers
<1>2. \A x \in 1 .. typed : x \in Token
  BY <1>1, ConsoleAssumption DEF Token
<1>3. /\ ToSet(pipe) \subseteq 1 .. typed
      /\ \A r \in Readers : ToSet(Held[r]) \subseteq 1 .. typed
  BY DEF InputInv, Kept
<1>4. Staged \in Seq(Nat)
  BY <1>1, StagedType
<1>5. /\ ToSet(Held["monitor"]) = ToSet(taken.monitor) \cup ToSet(file)
      /\ ToSet(Held["program"]) = ToSet(taken.program) \cup ToSet(Staged)
      /\ Held["assembler"] = taken.assembler /\ Held["listing"] = taken.listing
  BY <1>1, <1>4, HeldIs, JoinIs
<1>6. ASSUME NEW s \in Seq(Nat), ToSet(s) \subseteq 1 .. typed
      PROVE  s \in Seq(Token)
  <2>1. Len(s) \in Nat /\ DOMAIN s = 1 .. Len(s) /\ s = [k \in 1 .. Len(s) |-> s[k]]
    BY LenProperties
  <2>2. \A k \in 1 .. Len(s) : s[k] \in Token
    BY <1>2, <1>6, <2>1 DEF ToSet
  <2> QED BY <2>1, <2>2
<1>7. pipe \in Seq(Token) /\ file \in Seq(Token)
  BY <1>1, <1>3, <1>5, <1>6
<1>8. \A r \in Readers : taken[r] \in Seq(Token)
  BY <1>1, <1>3, <1>5, <1>6 DEF Readers
<1>9. taken \in [Readers -> Seq(Token)]
  BY <1>1, <1>8
<1>10. staged \in {NoChar} \cup Token
  <2>1. CASE staged # NoChar
    <3>1. staged \in ToSet(Staged)
      BY <2>1 DEF Staged, ToSet
    <3> QED BY <1>1, <1>2, <1>3, <1>5, <3>1
  <2> QED BY <2>1
<1>11. told \in 0 .. MaxPressed
  <2>1. told + Unread <= pressed /\ told \in Nat /\ pressed \in Nat /\ Unread \in {0, 1}
    BY UnreadIs DEF FlagInv, BreaksOnce, Unread
  <2> QED BY <2>1, ConsoleAssumption DEF ConsoleBounds
<1> QED BY <1>7, <1>9, <1>10, <1>11 DEF ConsoleTypeOK, ConsoleBounds, FlagInv

(* The inductive invariant of the whole monitor.                           *)
MonitorInv == InputInv /\ FlagInv /\ ConsoleBounds /\ SessionInv /\ WatchInv

LEMMA MonitorStarts == Init => MonitorInv
<1>1. Init => InputInv
  BY InputStarts DEF Init
<1> QED BY <1>1, FlagStarts, InitSound, InitWatch DEF MonitorInv

LEMMA MonitorKept == MonitorInv /\ [Next]_vars => MonitorInv'
<1> SUFFICES ASSUME MonitorInv, [Next]_vars PROVE MonitorInv'
  OBVIOUS
<1>1. InputInv'
  BY NextKeepsInput DEF MonitorInv
<1>2. FlagInv'
  BY NextFlag, FlagKept DEF MonitorInv
<1>3. ConsoleBounds'
  BY NextBounds, BoundsKept DEF MonitorInv
<1>4. SessionInv'
  BY NextSound DEF MonitorInv, Sound
<1>5. WatchInv'
  BY NextKeepsWatch DEF MonitorInv, SessionInv
<1> QED BY <1>1, <1>2, <1>3, <1>4, <1>5 DEF MonitorInv

LEMMA MonitorTyped == MonitorInv => TypeOK
<1> SUFFICES ASSUME MonitorInv PROVE TypeOK
  OBVIOUS
<1>1. ConsoleTypeOK
  BY TokensOnly DEF MonitorInv
<1>2. /\ running \in BOOLEAN /\ pc \in Word /\ mem \in [Code -> Instruction]
      /\ bpoints \in Seq(Word) /\ Len(bpoints) <= MAX_BREAK
      /\ hist \in [0 .. HIST_SIZE - 1 -> Word]
      /\ head \in 0 .. HIST_SIZE - 1 /\ count \in 0 .. HIST_SIZE
  BY DEF MonitorInv, SessionInv, MachineType, RingType, TableInv
<1> QED BY <1>1, <1>2 DEF MonitorInv, WatchInv, Watchpoint, TypeOK

(* The tables keep their sizes, the ring its indices, a place its argument *)
(* and every reader numbers that were typed: main.c 55-57 and 161-178.     *)
THEOREM MonitorTypes == Spec => []TypeOK
<1> QED BY MonitorStarts, MonitorKept, MonitorTyped, PTL DEF Spec

LEMMA InstructionStops ==
  ASSUME MonitorInv, RunOne \/ StepOne
  PROVE  IF Mine = {} THEN fired' = Quiet /\ at'.in # "stopped"
                      ELSE fired' \in Mine /\ at'.in \in {"stopped", "prompt"}
<1>1. Execute /\ MachineType /\ at \in Places \cup ListingPlaces /\ PlaceType(at)
  BY DEF RunOne, StepOne, MonitorInv, SessionInv, MachineType, WatchInv
<1>2. /\ Mine = {} => fired' = Quiet
      /\ Mine # {} => fired' \in Mine /\ fired' # Quiet
  BY <1>1, ExecuteReports
<1>3. CASE RunOne
  <2>1. at' = (IF fired' = Quiet THEN at ELSE Place("stopped")) /\ at.in = "running"
    BY <1>3 DEF RunOne, In
  <2> QED BY <1>2, <2>1, PlacesAre
<1>4. CASE StepOne
  <2>1. /\ at.in = "step"
        /\ \/ at' = Place("prompt")
           \/ fired' = Quiet /\ at' \in Stepping(pc', at.left - 1)
    BY <1>4 DEF StepOne
  <2>2. CASE at' = Place("prompt")
    BY <1>2, <2>2, PlacesAre
  <2>3. CASE fired' = Quiet /\ at' \in Stepping(pc', at.left - 1)
    <3> DEFINE p == pc'
               q == at'
    <3>1. q \in Stepping(p, at.left - 1) /\ at.left - 1 \in Int
      BY <1>1, <2>1, <2>3, StepLeft
    <3> HIDE DEF p, q
    <3>2. q.in \in {"register", "step", "listing"}
      BY <3>1, SteppingPlace
    <3> QED BY <1>2, <2>3, <3>2 DEF q
  <2> QED BY <2>1, <2>2, <2>3
<1> QED BY <1>3, <1>4

(* Whatever is listed, assembled or interrupted in between, an instruction *)
(* that accesses a watched address stops the program with a report of such *)
(* an access, and one that does not never does: watch_fired, main.c 663    *)
(* and 921.                                                                *)
THEOREM WatchpointsStop == Spec => WatchStops
<1>1. MonitorInv /\ [Next]_vars =>
        [RunOne \/ StepOne =>
           LET mine == {a \in ToSet(Accesses(Fetch(pc))) : Watched(a)}
           IN  IF mine = {} THEN fired' = Quiet /\ at'.in # "stopped"
                            ELSE fired' \in mine /\ at'.in \in {"stopped", "prompt"}]_vars
  BY InstructionStops DEF Mine
<1> QED BY <1>1, MonitorStarts, MonitorKept, PTL DEF Spec, WatchStops

LEMMA ClearingClears ==
  ASSUME MonitorInv
  PROVE  /\ \A a \in Named : Unbreak(a) => ToSet(bpoints') = ToSet(bpoints) \ {a}
         /\ \A a \in Watchable : Unwatch(a) => LacksOne(watches', watches, a)
<1>1. bpoints \in Seq(Word) /\ Distinct(bpoints) /\ watches \in Seq(Watchpoint)
  BY DEF MonitorInv, SessionInv, TableInv, WatchInv
<1>2. ASSUME NEW a \in Named, Unbreak(a) PROVE ToSet(bpoints') = ToSet(bpoints) \ {a}
  <2>1. PICK i \in DOMAIN bpoints : bpoints[i] = a /\ bpoints' = Without(bpoints, i)
    BY <1>2 DEF Unbreak
  <2> QED BY <1>1, <2>1, WithoutIs
<1>3. ASSUME NEW a \in Watchable, Unwatch(a) PROVE LacksOne(watches', watches, a)
  <2>1. PICK i \in DOMAIN watches : watches[i].addr = a /\ watches' = Without(watches, i)
    BY <1>3 DEF Unwatch
  <2>2. LacksOne(Without(watches, i), watches, watches[i].addr)
    BY <1>1, WithoutLacksOne
  <2> QED BY <2>1, <2>2
<1> QED BY <1>2, <1>3

(* bc and wc remove one entry, the one that was named, and the others keep *)
(* their order, wherever it stands in the table: main.c 762-776, 805-819.  *)
THEOREM NamedIsCleared == Spec => ClearsTheNamed
<1>1. MonitorInv /\ [Next]_vars =>
        [ /\ \A a \in Named : Unbreak(a) => ToSet(bpoints') = ToSet(bpoints) \ {a}
          /\ \A a \in Watchable : Unwatch(a) => LacksOne(watches', watches, a) ]_vars
  BY ClearingClears
<1> QED BY <1>1, MonitorStarts, MonitorKept, PTL DEF Spec, ClearsTheNamed
=============================================================================
